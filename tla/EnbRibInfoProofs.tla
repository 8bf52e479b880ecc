-------------------------- MODULE EnbRibInfoProofs --------------------------
(***************************************************************************)
(* For any agents, RNTIs and values: the RIB keeps the types of its data,  *)
(* its two containers of UEs, the configurations and the MAC statistics,   *)
(* always have the same UEs, and once no message is on its way it knows    *)
(* exactly the UEs of the BS, each with the current part of every agent,   *)
(* and their logical channels.                                             *)
(*                                                                         *)
(* The last two are about quiescent states, their invariant about all:     *)
(* SettleInv says what the messages on their way will make of the RIB.  Of *)
(* the RRC agent, whose messages come in the order of the state changes,   *)
(* they lead over a sequence of states to what the agent knows (RrcLeads). *)
(* Of the others, for each UE of the BS, a report that makes the RIB ask   *)
(* is still to be handled, or a request to be answered, or the last reply  *)
(* in the queue is right, or what the RIB has is (UesCome).                *)
(***************************************************************************)
EXTENDS EnbRibInfo, TLAPS

\* The parts of a known UE: at least the one its RRC agent reported.
KnownParts == {p \in [Agent -> Value \cup {Absent}] : p[RrcAgent] \in Value}

Inv == TypeOK /\ SameUes

\* A UE with parts is known, so it cannot be mistaken for one that is not.
LEMMA KnownPartsNotNoUe == \A p \in KnownParts : p # NoUe
BY AgentsAssumption, ValueAssumption DEF KnownParts, NoUe

\* Messages keep the type of the queues they are appended to and taken from.
LEMMA QueueTypes ==
  ASSUME NEW S, NEW q \in [Agent -> Seq(S)], NEW a \in Agent
  PROVE  /\ \A m \in S : [q EXCEPT ![a] = Append(@, m)] \in [Agent -> Seq(S)]
         /\ q[a] # <<>> => /\ Head(q[a]) \in S
                           /\ [q EXCEPT ![a] = Tail(@)] \in [Agent -> Seq(S)]
OBVIOUS

LEMMA InitInv == Init => Inv
<1> SUFFICES ASSUME Init PROVE Inv
  OBVIOUS
<1>1. requests \in [Agent -> Seq({"enb", "ue", "lc"})]
  <2>1. <<"enb", "ue", "lc">> \in Seq({"enb", "ue", "lc"})
    OBVIOUS
  <2> QED BY <2>1 DEF Init
<1>2. replies \in [Agent -> Seq(Message)]
  BY DEF Init
<1>3. SameUes
  BY DEF Init, SameUes, KnownUes
<1>4. events \in 0..MaxEvents
  BY EventsAssumption DEF Init
<1>5. ues \in [Rnti -> Parts \cup {NoUe}]
  BY DEF Init
<1>6. ue_config \in [Rnti -> {p \in [Agent -> Value \cup {Absent}] : p[RrcAgent] \in Value}
                              \cup {NoUe}]
  BY DEF Init
<1> QED BY <1>1, <1>2, <1>3, <1>4, <1>5, <1>6 DEF Init, Inv, TypeOK

\* What agents answer is a message.
LEMMA AnswerType ==
  ASSUME TypeOK, NEW a \in Agent, NEW request \in {"enb", "ue", "lc"}
  PROVE  Answer(a, request) \in Message
<1>1. CASE request = "enb"
  BY <1>1 DEF Answer, Message
<1>2. CASE request = "ue"
  <2>1. [r \in Rnti |-> IF r \in Active THEN ues[r][a] ELSE Absent]
          \in [Rnti -> Value \cup {Absent}]
    BY DEF TypeOK, Parts, Active, NoUe
  <2> QED BY <1>2, <2>1 DEF Answer, Message
<1>3. CASE request = "lc"
  <2>1. (IF a = mac_agent THEN Active ELSE {}) \in SUBSET Rnti
    BY DEF Active
  <2> QED BY <1>3, <2>1 DEF Answer, Message
<1> QED BY <1>1, <1>2, <1>3

\* The report of a state change is sent by the RRC agent.
LEMMA ReportStep ==
  ASSUME TypeOK, NEW type \in {"activated", "updated", "deactivated"},
         NEW r \in Rnti, NEW v \in Value, Report(type, r, v)
  PROVE  /\ replies' \in [Agent -> Seq(Message)]
         /\ events' \in 0..MaxEvents
         /\ UNCHANGED <<mac_agent, requests, ribVars>>
<1>1. [type |-> type, rnti |-> r, part |-> v] \in Message
  BY DEF Message
<1>2. replies' \in [Agent -> Seq(Message)]
  BY <1>1, QueueTypes, AgentsAssumption DEF TypeOK, Report
<1>3. events' \in 0..MaxEvents
  BY EventsAssumption DEF TypeOK, Report
<1> QED BY <1>2, <1>3 DEF Report

\* Steps of the BS do not touch the RIB.
LEMMA BsStep ==
  ASSUME Inv, NEW r \in Rnti, UeAttaches(r) \/ UeChanges(r) \/ UeDetaches(r)
  PROVE  Inv'
<1>1. ASSUME UeAttaches(r) PROVE Inv'
  <2> PICK p \in Parts : ues' = [ues EXCEPT ![r] = p] /\ Report("activated", r, p[RrcAgent])
    BY <1>1 DEF UeAttaches
  <2>1. p[RrcAgent] \in Value
    BY AgentsAssumption DEF Parts
  <2>2. ues' \in [Rnti -> Parts \cup {NoUe}]
    BY DEF Inv, TypeOK
  <2> QED BY <2>1, <2>2, ReportStep DEF Inv, TypeOK, SameUes, KnownUes, ribVars
<1>2. ASSUME UeChanges(r) PROVE Inv'
  <2> PICK v \in Value : /\ ues' = [ues EXCEPT ![r][RrcAgent] = v]
                         /\ Report("updated", r, v)
    BY <1>2 DEF UeChanges
  <2>1. ues[r] \in Parts
    BY <1>2 DEF UeChanges, Active, Inv, TypeOK
  <2>2. ues' \in [Rnti -> Parts \cup {NoUe}]
    BY <2>1, AgentsAssumption DEF Inv, TypeOK, Parts
  <2> QED BY <2>2, ReportStep DEF Inv, TypeOK, SameUes, KnownUes, ribVars
<1>3. ASSUME UeDetaches(r) PROVE Inv'
  <2>1. ues[r][RrcAgent] \in Value
    BY <1>3, AgentsAssumption DEF UeDetaches, Active, Inv, TypeOK, Parts
  <2>2. ues' \in [Rnti -> Parts \cup {NoUe}]
    BY <1>3 DEF UeDetaches, Inv, TypeOK
  <2>3. Report("deactivated", r, ues[r][RrcAgent])
    BY <1>3 DEF UeDetaches
  <2> QED BY <2>1, <2>2, <2>3, ReportStep DEF Inv, TypeOK, SameUes, KnownUes, ribVars
<1> QED BY <1>1, <1>2, <1>3

LEMMA AnswerStep ==
  ASSUME Inv, NEW a \in Agent, AgentAnswers(a)
  PROVE  Inv'
<1>1. Head(requests[a]) \in {"enb", "ue", "lc"}
  BY QueueTypes DEF Inv, TypeOK, AgentAnswers
<1>2. requests' \in [Agent -> Seq({"enb", "ue", "lc"})]
  BY QueueTypes DEF Inv, TypeOK, AgentAnswers
<1>3. replies' \in [Agent -> Seq(Message)]
  BY <1>1, AnswerType, QueueTypes DEF Inv, TypeOK, AgentAnswers
<1> QED BY <1>2, <1>3 DEF AgentAnswers, Inv, TypeOK, SameUes, KnownUes, bsVars, ribVars

\* What a handler leaves and makes of the configurations of UEs.
UesKept ==
  /\ ue_config' \in [Rnti -> KnownParts \cup {NoUe}]
  /\ ue_mac_info' \subseteq Rnti
  /\ SameUes'

\* A configuration reply adds no UE and removes none.
LEMMA UeReplyStep ==
  ASSUME Inv, NEW a \in Agent, NEW parts \in [Rnti -> Value \cup {Absent}],
         update_UE_config(a, parts)
  PROVE  UesKept
<1>1. \A r \in Rnti : \/ ue_config'[r] = ue_config[r]
                      \/ /\ ue_config[r] \in KnownParts
                         /\ ue_config'[r] \in KnownParts
  <2> SUFFICES ASSUME NEW r \in Rnti, r \in KnownUes, parts[r] # Absent
               PROVE  /\ ue_config[r] \in KnownParts
                      /\ [ue_config[r] EXCEPT ![a] = parts[r]] \in KnownParts
    BY DEF update_UE_config
  <2>1. ue_config[r] \in KnownParts
    BY DEF KnownUes, Inv, TypeOK, KnownParts
  <2>2. parts[r] \in Value
    OBVIOUS
  <2> QED BY <2>1, <2>2, AgentsAssumption DEF KnownParts
<1>2. ue_config' \in [Rnti -> KnownParts \cup {NoUe}]
  <2>1. ue_config \in [Rnti -> KnownParts \cup {NoUe}]
    BY DEF Inv, TypeOK, KnownParts
  <2>2. ue_config' = [r \in Rnti |-> ue_config'[r]]
    BY DEF update_UE_config
  <2> QED BY <1>1, <2>1, <2>2
<1>3. KnownUes' = KnownUes
  BY <1>1, KnownPartsNotNoUe DEF KnownUes
<1> QED BY <1>2, <1>3 DEF UesKept, SameUes, Inv, TypeOK, update_UE_config

\* An activation makes the UE known in both containers.
LEMMA ActivatedStep ==
  ASSUME Inv, NEW r \in Rnti, NEW v \in Value, UeActivated(r, v)
  PROVE  UesKept
<1> DEFINE new == IF r \in KnownUes THEN [ue_config[r] EXCEPT ![RrcAgent] = v]
                  ELSE [b \in Agent |-> IF b = RrcAgent THEN v ELSE Absent]
<1>0. ue_config \in [Rnti -> KnownParts \cup {NoUe}]
  BY DEF Inv, TypeOK, KnownParts
<1>1. new \in KnownParts
  BY <1>0, AgentsAssumption DEF KnownUes, KnownParts
<1>2. ue_config' = [ue_config EXCEPT ![r] = new]
  BY DEF UeActivated
<1> HIDE DEF new
<1>3. ue_config' \in [Rnti -> KnownParts \cup {NoUe}]
  BY <1>0, <1>1, <1>2
<1>4. KnownUes' = KnownUes \cup {r}
  BY <1>0, <1>1, <1>2, KnownPartsNotNoUe DEF KnownUes
<1>5. ue_mac_info' = ue_mac_info \cup {r}
  BY DEF UeActivated, Inv, SameUes
<1> QED BY <1>3, <1>4, <1>5 DEF UesKept, SameUes, Inv, TypeOK

\* An update changes a known UE only.
LEMMA UpdatedStep ==
  ASSUME Inv, NEW r \in Rnti, NEW v \in Value, UeUpdated(r, v)
  PROVE  UesKept
<1>0. ue_config \in [Rnti -> KnownParts \cup {NoUe}]
  BY DEF Inv, TypeOK, KnownParts
<1>1. CASE r \in KnownUes
  <2>1. [ue_config[r] EXCEPT ![RrcAgent] = v] \in KnownParts
    BY <1>0, <1>1, AgentsAssumption DEF KnownUes, KnownParts
  <2>2. ue_config' = [ue_config EXCEPT ![r] = [ue_config[r] EXCEPT ![RrcAgent] = v]]
    BY <1>1 DEF UeUpdated
  <2>3. ue_config' \in [Rnti -> KnownParts \cup {NoUe}]
    BY <1>0, <2>1, <2>2
  <2>4. KnownUes' = KnownUes
    BY <1>0, <1>1, <2>1, <2>2, KnownPartsNotNoUe DEF KnownUes
  <2> QED BY <2>3, <2>4 DEF UesKept, SameUes, Inv, TypeOK, UeUpdated
<1>2. CASE r \notin KnownUes
  <2>1. ue_config' = ue_config
    BY <1>0, <1>2 DEF UeUpdated, KnownUes
  <2> QED BY <1>0, <2>1 DEF UesKept, SameUes, KnownUes, Inv, TypeOK, UeUpdated
<1> QED BY <1>1, <1>2

\* A deactivation removes the UE from both containers, if it is in them.
LEMMA DeactivatedStep ==
  ASSUME Inv, NEW r \in Rnti, UeDeactivated(r)
  PROVE  UesKept
<1>0. ue_config \in [Rnti -> KnownParts \cup {NoUe}]
  BY DEF Inv, TypeOK, KnownParts
<1>1. ue_config' = [ue_config EXCEPT ![r] = NoUe]
  BY DEF UeDeactivated
<1>2. KnownUes' = KnownUes \ {r}
  BY <1>0, <1>1 DEF KnownUes
<1>3. ue_mac_info' = ue_mac_info \ {r}
  BY DEF UeDeactivated, Inv, SameUes
<1> QED BY <1>0, <1>1, <1>2, <1>3 DEF UesKept, SameUes, Inv, TypeOK

\* All agents are asked for all their configurations.
LEMMA TriggerType ==
  ASSUME TypeOK, trigger_bs_config
  PROVE  requests' \in [Agent -> Seq({"enb", "ue", "lc"})]
<1>1. <<"enb", "ue", "lc">> \in Seq({"enb", "ue", "lc"})
  OBVIOUS
<1>2. \A a \in Agent : requests[a] \o <<"enb", "ue", "lc">> \in Seq({"enb", "ue", "lc"})
  BY <1>1 DEF TypeOK
<1> QED BY <1>2 DEF trigger_bs_config

LEMMA HandleStep ==
  ASSUME Inv, NEW a \in Agent, Handle(a)
  PROVE  Inv'
<1> DEFINE m == Head(replies[a])
<1>1. m \in Message
  BY QueueTypes DEF Handle, Inv, TypeOK
<1>2. replies' \in [Agent -> Seq(Message)]
  BY QueueTypes DEF Handle, Inv, TypeOK
<1>3. mac_agent' \in Agent /\ ues' \in [Rnti -> Parts \cup {NoUe}] /\ events' \in 0..MaxEvents
  BY DEF Handle, Inv, TypeOK, bsVars
<1>4. ASSUME /\ UesKept
             /\ requests' \in [Agent -> Seq({"enb", "ue", "lc"})]
             /\ eNB_config' \subseteq Agent /\ s1ap' \in BOOLEAN /\ lc_config' \subseteq Rnti
      PROVE  Inv'
  BY <1>2, <1>3, <1>4 DEF Inv, TypeOK, UesKept, KnownParts
<1>5. ASSUME UNCHANGED <<ue_config, ue_mac_info>> PROVE UesKept
  BY <1>5 DEF UesKept, KnownParts, SameUes, KnownUes, Inv, TypeOK
<1>6. CASE m.type = "enb" /\ update_eNB_config(a)
  <2>1. /\ eNB_config' \subseteq Agent /\ s1ap' \in BOOLEAN
        /\ UNCHANGED <<requests, lc_config, ue_config, ue_mac_info>>
    BY <1>6 DEF update_eNB_config, Inv, TypeOK
  <2> QED BY <2>1, <1>4, <1>5 DEF Inv, TypeOK
<1>7. CASE m.type = "ue" /\ update_UE_config(a, m.parts)
  <2>1. m.parts \in [Rnti -> Value \cup {Absent}]
    BY <1>1, <1>7 DEF Message
  <2>2. UesKept
    BY <1>7, <2>1, UeReplyStep
  <2> QED BY <1>4, <1>7, <2>2 DEF update_UE_config, Inv, TypeOK
<1>8. CASE m.type = "lc" /\ update_LC_config(m.rntis)
  <2>1. m.rntis \subseteq Rnti
    BY <1>1, <1>8 DEF Message
  <2>2. lc_config' \subseteq Rnti
    BY <1>8, <2>1 DEF update_LC_config, Inv, TypeOK
  <2> QED BY <1>4, <1>5, <1>8, <2>2 DEF update_LC_config, Inv, TypeOK
<1>9. CASE m.type = "activated" /\ UeActivated(m.rnti, m.part)
  <2>1. m.rnti \in Rnti /\ m.part \in Value
    BY <1>1, <1>9 DEF Message
  <2>2. UesKept
    BY <1>9, <2>1, ActivatedStep
  <2>3. requests' \in [Agent -> Seq({"enb", "ue", "lc"})]
    BY <1>9, TriggerType DEF UeActivated, Inv
  <2> QED BY <1>4, <1>9, <2>2, <2>3 DEF UeActivated, Inv, TypeOK
<1>10. CASE m.type = "updated" /\ UeUpdated(m.rnti, m.part)
  <2>1. m.rnti \in Rnti /\ m.part \in Value
    BY <1>1, <1>10 DEF Message
  <2>2. UesKept
    BY <1>10, <2>1, UpdatedStep
  <2> QED BY <1>4, <1>10, <2>2 DEF UeUpdated, Inv, TypeOK
<1>11. CASE m.type = "deactivated" /\ UeDeactivated(m.rnti)
  <2>1. m.rnti \in Rnti
    BY <1>1, <1>11 DEF Message
  <2>2. UesKept
    BY <1>11, <2>1, DeactivatedStep
  <2>3. lc_config' \subseteq Rnti
    BY <1>11 DEF UeDeactivated, Inv, TypeOK
  <2> QED BY <1>4, <1>11, <2>2, <2>3 DEF UeDeactivated, Inv, TypeOK
<1> QED BY <1>6, <1>7, <1>8, <1>9, <1>10, <1>11 DEF Handle

\* The invariant holds in every reachable state.
THEOREM Invariant == Spec => []Inv
<1>1. Init => Inv
  BY InitInv
<1>2. Inv /\ [Next]_vars => Inv'
  <2> SUFFICES ASSUME Inv, [Next]_vars PROVE Inv'
    OBVIOUS
  <2>1. CASE Next
    BY <2>1, BsStep, AnswerStep, HandleStep DEF Next
  <2>2. CASE UNCHANGED vars
    BY <2>2 DEF vars, bsVars, ribVars, Inv, TypeOK, SameUes, KnownUes
  <2> QED BY <2>1, <2>2
<1> QED BY <1>1, <1>2, PTL DEF Spec

\* Type correctness: in particular every known UE has its RRC agent's part.
THEOREM TypeCorrect == Spec => []TypeOK
<1>1. Inv => TypeOK
  BY DEF Inv
<1> QED BY <1>1, Invariant, PTL

\* An application may take a UE from one container and look it up in the other.
THEOREM AlwaysSameUes == Spec => []SameUes
<1>1. Inv => SameUes
  BY DEF Inv
<1> QED BY <1>1, Invariant, PTL

-----------------------------------------------------------------------------
(***************************************************************************)
(* Messages in a queue                                                     *)
(***************************************************************************)
Reports(m, type, r) == m.type = type /\ m.rnti = r

\* A report of r of that type is in the queue.
Has(q, type, r) == \E i \in 1..Len(q) : Reports(q[i], type, r)

\* Each report that r is gone has one behind it that r is there again.
ComesBack(q, r) ==
  \A i \in 1..Len(q) : Reports(q[i], "deactivated", r) =>
    \E j \in 1..Len(q) : j > i /\ Reports(q[j], "activated", r)

\* The last part of r in the queue, or the one known before it, is that of the agent.
PartLast(q, r, known, part) ==
  \E k \in 0..Len(q) :
    /\ IF k = 0 THEN known = part ELSE q[k].type = "ue" /\ q[k].parts[r] = part
    /\ \A j \in 1..Len(q) : j > k /\ q[j].type = "ue" => q[j].parts[r] = part

\* The last logical channels in the queue, or those known before it, have those of r.
LcLast(q, r, known) ==
  \E k \in 0..Len(q) :
    /\ IF k = 0 THEN known ELSE q[k].type = "lc" /\ r \in q[k].rntis
    /\ \A j \in 1..Len(q) : j > k /\ q[j].type = "lc" => r \in q[j].rntis

\* The agent has still to answer a request.
Requested(a, x) == \E i \in 1..Len(requests[a]) : requests[a][i] = x

-----------------------------------------------------------------------------
(***************************************************************************)
(* What the RIB makes of the messages of the RRC agent: its parts by RNTI  *)
(* (Absent if the UE is not known), and the logical channels if it is the  *)
(* agent that knows them.                                                  *)
(***************************************************************************)
PartsAfter(f, m) ==
  [r \in Rnti |->
     IF m.type = "ue" THEN IF f[r] # Absent /\ m.parts[r] # Absent THEN m.parts[r] ELSE f[r]
     ELSE IF m.type \in {"enb", "lc"} \/ m.rnti # r THEN f[r]
     ELSE IF m.type = "activated" THEN m.part
     ELSE IF m.type = "updated" /\ f[r] # Absent THEN m.part
     ELSE Absent]

LcAfter(l, f, m) ==
  IF m.type = "lc" /\ m.rntis # {} THEN m.rntis
  ELSE IF m.type = "deactivated" /\ f[m.rnti] # Absent THEN l \ {m.rnti} ELSE l

Known(f, l) == [parts |-> f, lcs |-> l]
After(a, m) == Known(PartsAfter(a.parts, m), LcAfter(a.lcs, a.parts, m))

RrcParts == [r \in Rnti |-> ue_config[r][RrcAgent]]
AgentParts == [r \in Rnti |-> ues[r][RrcAgent]]

\* The messages of q take a to b, over the states s.
Leads(s, q, a, b) ==
  /\ s[0] = a /\ s[Len(q)] = b
  /\ \A i \in 1..Len(q) : s[i] = After(s[i - 1], q[i])

\* The messages of the RRC agent take the RIB from what it knows of each UE to
\* what that agent knows of it now.  If another agent knows the logical channels
\* this says nothing of them (l is any set).
RrcLeads ==
  \E l \in SUBSET Rnti, k \in SUBSET Rnti :
    /\ mac_agent = RrcAgent => l = lc_config
    /\ k \subseteq Active
    /\ \E s : Leads(s, replies[RrcAgent], Known(RrcParts, l), Known(AgentParts, k))

\* State changes are reported by one agent only.
OthersAnswer ==
  \A a \in Agent \ {RrcAgent} : \A i \in 1..Len(replies[a]) :
    replies[a][i].type \in {"enb", "ue", "lc"}

\* Only one agent knows any logical channels.
OnlyMac ==
  \A a \in Agent \ {mac_agent} : \A i \in 1..Len(replies[a]) :
    replies[a][i].type = "lc" => replies[a][i].rntis = {}

\* What the other agents know of r is known, or comes.
PartsCome(r) ==
  /\ r \in KnownUes
  /\ \A a \in Agent \ {RrcAgent} :
       Requested(a, "ue") \/ PartLast(replies[a], r, ue_config[r][a], ues[r][a])
  /\ Requested(mac_agent, "lc") \/ LcLast(replies[mac_agent], r, r \in lc_config)

\* A report that a UE of the BS is gone has one behind it that it is back; and a
\* report still to be handled will make the RIB ask, or it has asked.
UesCome ==
  \A r \in Active :
    /\ ComesBack(replies[RrcAgent], r)
    /\ Has(replies[RrcAgent], "activated", r) \/ PartsCome(r)

SettleInv == RrcLeads /\ OthersAnswer /\ OnlyMac /\ UesCome

\* A message is appended behind those there are.
LEMMA MessageAdded ==
  ASSUME NEW q \in Seq(Message), NEW m
  PROVE  /\ Len(q) \in Nat /\ Len(Append(q, m)) = Len(q) + 1
         /\ Append(q, m)[Len(q) + 1] = m
         /\ \A i \in 1..Len(q) : Append(q, m)[i] = q[i]
<1>1. q \in Seq(Message \cup {m}) /\ m \in Message \cup {m}
  OBVIOUS
<1> QED BY <1>1

\* Taking the head moves the messages behind it up by one.
LEMMA MessageTaken ==
  ASSUME NEW q \in Seq(Message), q # <<>>
  PROVE  /\ Len(Tail(q)) \in Nat /\ Len(q) = Len(Tail(q)) + 1 /\ Head(q) = q[1]
         /\ \A i \in 1..Len(Tail(q)) : Tail(q)[i] = q[i + 1]
OBVIOUS

\* A report stays in a queue that messages are appended to.
LEMMA HasAdded ==
  ASSUME NEW q \in Seq(Message), NEW m, NEW type, NEW r,
         Has(q, type, r) \/ Reports(m, type, r)
  PROVE  Has(Append(q, m), type, r)
<1> DEFINE p == Append(q, m)
<1>1. /\ Len(q) \in Nat /\ Len(p) = Len(q) + 1 /\ p[Len(q) + 1] = m
      /\ \A i \in 1..Len(q) : p[i] = q[i]
  BY MessageAdded
<1> HIDE DEF p
<1>2. CASE Has(q, type, r)
  <2>1. PICK i \in 1..Len(q) : Reports(q[i], type, r)
    BY <1>2 DEF Has
  <2>2. i \in 1..Len(p) /\ p[i] = q[i]
    BY <1>1
  <2> QED BY <2>1, <2>2 DEF Has, p
<1>3. CASE Reports(m, type, r)
  <2>1. Len(p) \in 1..Len(p) /\ p[Len(p)] = m
    BY <1>1
  <2> QED BY <1>3, <2>1 DEF Has, p
<1> QED BY <1>2, <1>3

\* A report stays in a queue that another message is taken from.
LEMMA HasTaken ==
  ASSUME NEW q \in Seq(Message), q # <<>>, NEW type, NEW r, Has(q, type, r),
         ~ Reports(Head(q), type, r)
  PROVE  Has(Tail(q), type, r)
<1> DEFINE p == Tail(q)
<1>1. /\ Len(p) \in Nat /\ Len(q) = Len(p) + 1 /\ Head(q) = q[1]
      /\ \A i \in 1..Len(p) : p[i] = q[i + 1]
  BY MessageTaken
<1> HIDE DEF p
<1>2. PICK i \in 1..Len(q) : Reports(q[i], type, r)
  BY DEF Has
<1>3. i # 1
  BY <1>1, <1>2
<1>4. i - 1 \in 1..Len(p) /\ p[i - 1] = q[i]
  <2>1. i - 1 \in 1..Len(p) /\ (i - 1) + 1 = i
    BY <1>1, <1>3
  <2> QED BY <1>1, <2>1
<1> QED BY <1>2, <1>4 DEF Has, p

\* A queue stays one whose last report of r is not that it is gone, if the new
\* message is not such a report, or one that r is there again makes it one.
LEMMA ComesBackAdded ==
  ASSUME NEW q \in Seq(Message), NEW m, NEW r,
         \/ ComesBack(q, r) /\ ~ Reports(m, "deactivated", r)
         \/ Reports(m, "activated", r)
  PROVE  ComesBack(Append(q, m), r)
<1> DEFINE p == Append(q, m)
<1>1. /\ Len(q) \in Nat /\ Len(p) = Len(q) + 1 /\ p[Len(q) + 1] = m
      /\ \A i \in 1..Len(q) : p[i] = q[i]
  BY MessageAdded
<1> HIDE DEF p
<1>2. SUFFICES ASSUME NEW i \in 1..Len(p), Reports(p[i], "deactivated", r)
               PROVE  \E j \in 1..Len(p) : j > i /\ Reports(p[j], "activated", r)
  BY DEF ComesBack, p
<1>3. CASE Reports(m, "activated", r)
  <2>1. Len(p) \in 1..Len(p) /\ p[Len(p)] = m
    BY <1>1
  <2>2. i # Len(p)
    BY <1>2, <1>3, <2>1 DEF Reports
  <2>3. Len(p) > i
    BY <1>1, <2>2
  <2> QED BY <1>3, <2>1, <2>3
<1>4. CASE ComesBack(q, r) /\ ~ Reports(m, "deactivated", r)
  <2>1. i # Len(q) + 1
    BY <1>1, <1>2, <1>4
  <2>2. i \in 1..Len(q)
    BY <1>1, <2>1
  <2>3. PICK j \in 1..Len(q) : j > i /\ Reports(q[j], "activated", r)
    BY <1>1, <1>2, <1>4, <2>2 DEF ComesBack
  <2>4. j \in 1..Len(p) /\ p[j] = q[j]
    BY <1>1
  <2> QED BY <2>3, <2>4
<1> QED BY <1>3, <1>4

\* Taking a message leaves it so; behind a report that r is gone there is one
\* that r is there again.
LEMMA ComesBackTaken ==
  ASSUME NEW q \in Seq(Message), q # <<>>, NEW r, ComesBack(q, r)
  PROVE  /\ ComesBack(Tail(q), r)
         /\ Reports(Head(q), "deactivated", r) => Has(Tail(q), "activated", r)
<1> DEFINE p == Tail(q)
<1>1. /\ Len(p) \in Nat /\ Len(q) = Len(p) + 1 /\ Head(q) = q[1]
      /\ \A i \in 1..Len(p) : p[i] = q[i + 1]
  BY MessageTaken
<1> HIDE DEF p
<1>2. ASSUME NEW i \in 1..Len(q), Reports(q[i], "deactivated", r)
      PROVE  \E j \in 1..Len(p) : j + 1 > i /\ Reports(p[j], "activated", r)
  <2>1. PICK j \in 1..Len(q) : j > i /\ Reports(q[j], "activated", r)
    BY <1>2 DEF ComesBack
  <2>2. j - 1 \in 1..Len(p) /\ (j - 1) + 1 = j
    BY <1>1, <2>1
  <2>3. p[j - 1] = q[j]
    BY <1>1, <2>2
  <2> QED BY <2>1, <2>2, <2>3
<1>3. ASSUME NEW i \in 1..Len(p), Reports(p[i], "deactivated", r)
      PROVE  \E j \in 1..Len(p) : j > i /\ Reports(p[j], "activated", r)
  <2>1. i + 1 \in 1..Len(q) /\ Reports(q[i + 1], "deactivated", r)
    BY <1>1, <1>3
  <2>2. PICK j \in 1..Len(p) : j + 1 > i + 1 /\ Reports(p[j], "activated", r)
    BY <1>2, <2>1
  <2>3. j > i
    BY <1>1, <2>2
  <2> QED BY <2>2, <2>3
<1>4. ASSUME Reports(Head(q), "deactivated", r)
      PROVE  Has(p, "activated", r)
  <2>1. 1 \in 1..Len(q) /\ Reports(q[1], "deactivated", r)
    BY <1>1, <1>4
  <2> QED BY <1>2, <2>1 DEF Has
<1>5. ComesBack(p, r)
  BY <1>3 DEF ComesBack
<1> QED BY <1>4, <1>5 DEF p

\* The last part of r stays last behind messages of another type; a reply with
\* the right part makes itself the last.
LEMMA PartLastAdded ==
  ASSUME NEW q \in Seq(Message), NEW m, NEW r, NEW known, NEW part,
         \/ PartLast(q, r, known, part) /\ m.type # "ue"
         \/ m.type = "ue" /\ m.parts[r] = part
  PROVE  PartLast(Append(q, m), r, known, part)
<1> DEFINE p == Append(q, m)
<1>1. /\ Len(q) \in Nat /\ Len(p) = Len(q) + 1 /\ p[Len(q) + 1] = m
      /\ \A i \in 1..Len(q) : p[i] = q[i]
  BY MessageAdded
<1> HIDE DEF p
<1>2. CASE m.type = "ue" /\ m.parts[r] = part
  <2>1. Len(p) \in 0..Len(p) /\ Len(p) # 0 /\ p[Len(p)] = m
    BY <1>1
  <2>2. \A j \in 1..Len(p) : ~ (j > Len(p))
    BY <1>1
  <2> QED BY <1>2, <2>1, <2>2 DEF PartLast, p
<1>3. CASE PartLast(q, r, known, part) /\ m.type # "ue"
  <2>1. PICK k \in 0..Len(q) :
          /\ IF k = 0 THEN known = part ELSE q[k].type = "ue" /\ q[k].parts[r] = part
          /\ \A j \in 1..Len(q) : j > k /\ q[j].type = "ue" => q[j].parts[r] = part
    BY <1>3 DEF PartLast
  <2>2. k \in 0..Len(p)
    BY <1>1
  <2>3. IF k = 0 THEN known = part ELSE p[k].type = "ue" /\ p[k].parts[r] = part
    BY <1>1, <2>1
  <2>4. ASSUME NEW j \in 1..Len(p), j > k, p[j].type = "ue"
        PROVE  p[j].parts[r] = part
    <3>1. j # Len(q) + 1
      BY <1>1, <1>3, <2>4
    <3>2. j \in 1..Len(q)
      BY <1>1, <3>1
    <3> QED BY <1>1, <2>1, <2>4, <3>2
  <2> QED BY <2>2, <2>3, <2>4 DEF PartLast, p
<1> QED BY <1>2, <1>3

\* What the reply at the head says is then what is known.
LEMMA PartLastTaken ==
  ASSUME NEW q \in Seq(Message), q # <<>>, NEW r, NEW known, NEW part,
         PartLast(q, r, known, part)
  PROVE  PartLast(Tail(q), r, IF Head(q).type = "ue" THEN Head(q).parts[r] ELSE known, part)
<1> DEFINE p == Tail(q)
           now == IF Head(q).type = "ue" THEN Head(q).parts[r] ELSE known
<1>1. /\ Len(p) \in Nat /\ Len(q) = Len(p) + 1 /\ Head(q) = q[1]
      /\ \A i \in 1..Len(p) : p[i] = q[i + 1]
  BY MessageTaken
<1>2. PICK k \in 0..Len(q) :
        /\ IF k = 0 THEN known = part ELSE q[k].type = "ue" /\ q[k].parts[r] = part
        /\ \A j \in 1..Len(q) : j > k /\ q[j].type = "ue" => q[j].parts[r] = part
  BY DEF PartLast
<1> HIDE DEF p
<1>3. ASSUME NEW j \in 1..Len(p), j + 1 > k, p[j].type = "ue"
      PROVE  p[j].parts[r] = part
  <2>1. j + 1 \in 1..Len(q)
    BY <1>1
  <2> QED BY <1>1, <1>2, <1>3, <2>1
<1>4. CASE k \in {0, 1}
  <2>1. now = part
    <3>1. 1 \in 1..Len(q)
      BY <1>1
    <3>2. CASE k = 0
      BY <1>1, <1>2, <3>1, <3>2
    <3>3. CASE k = 1
      BY <1>1, <1>2, <3>3
    <3> QED BY <1>4, <3>2, <3>3
  <2> HIDE DEF now
  <2>2. \A j \in 1..Len(p) : p[j].type = "ue" => p[j].parts[r] = part
    <3> SUFFICES ASSUME NEW j \in 1..Len(p) PROVE j + 1 > k
      BY <1>3
    <3> QED BY <1>1, <1>4
  <2>3. 0 \in 0..Len(p)
    BY <1>1
  <2>4. PartLast(p, r, now, part)
    BY <2>1, <2>2, <2>3 DEF PartLast
  <2> QED BY <2>4 DEF p, now
<1>5. CASE k \notin {0, 1}
  <2>1. k - 1 \in 1..Len(p) /\ (k - 1) + 1 = k /\ k # 0
    BY <1>1, <1>5
  <2>2. p[k - 1].type = "ue" /\ p[k - 1].parts[r] = part
    BY <1>1, <1>2, <2>1
  <2>3. \A j \in 1..Len(p) : j > k - 1 /\ p[j].type = "ue" => p[j].parts[r] = part
    <3> SUFFICES ASSUME NEW j \in 1..Len(p), j > k - 1 PROVE j + 1 > k
      BY <1>3
    <3> QED BY <1>1
  <2>4. k - 1 \in 0..Len(p) /\ k - 1 # 0
    BY <2>1
  <2> HIDE DEF now
  <2>5. PartLast(p, r, now, part)
    BY <2>2, <2>3, <2>4 DEF PartLast
  <2> QED BY <2>5 DEF p, now
<1> QED BY <1>4, <1>5

\* The same for the logical channels.
LEMMA LcLastAdded ==
  ASSUME NEW q \in Seq(Message), NEW m, NEW r, NEW known \in BOOLEAN,
         \/ LcLast(q, r, known) /\ m.type # "lc"
         \/ m.type = "lc" /\ r \in m.rntis
  PROVE  LcLast(Append(q, m), r, known)
<1> DEFINE p == Append(q, m)
<1>1. /\ Len(q) \in Nat /\ Len(p) = Len(q) + 1 /\ p[Len(q) + 1] = m
      /\ \A i \in 1..Len(q) : p[i] = q[i]
  BY MessageAdded
<1> HIDE DEF p
<1>2. CASE m.type = "lc" /\ r \in m.rntis
  <2>1. Len(p) \in 0..Len(p) /\ Len(p) # 0 /\ p[Len(p)] = m
    BY <1>1
  <2>2. \A j \in 1..Len(p) : ~ (j > Len(p))
    BY <1>1
  <2> QED BY <1>2, <2>1, <2>2 DEF LcLast, p
<1>3. CASE LcLast(q, r, known) /\ m.type # "lc"
  <2>1. PICK k \in 0..Len(q) :
          /\ IF k = 0 THEN known ELSE q[k].type = "lc" /\ r \in q[k].rntis
          /\ \A j \in 1..Len(q) : j > k /\ q[j].type = "lc" => r \in q[j].rntis
    BY <1>3 DEF LcLast
  <2>2. k \in 0..Len(p)
    BY <1>1
  <2>3. IF k = 0 THEN known ELSE p[k].type = "lc" /\ r \in p[k].rntis
    BY <1>1, <2>1
  <2>4. ASSUME NEW j \in 1..Len(p), j > k, p[j].type = "lc"
        PROVE  r \in p[j].rntis
    <3>1. j # Len(q) + 1
      BY <1>1, <1>3, <2>4
    <3>2. j \in 1..Len(q)
      BY <1>1, <3>1
    <3> QED BY <1>1, <2>1, <2>4, <3>2
  <2> QED BY <2>2, <2>3, <2>4 DEF LcLast, p
<1> QED BY <1>2, <1>3

\* Logical channels that a reply brings are known when it has been handled.
LEMMA LcLastTaken ==
  ASSUME NEW q \in Seq(Message), q # <<>>, NEW r, NEW known \in BOOLEAN, NEW after \in BOOLEAN,
         LcLast(q, r, known), Head(q).type = "lc" /\ r \in Head(q).rntis => after,
         Head(q).type # "lc" /\ known => after
  PROVE  LcLast(Tail(q), r, after)
<1> DEFINE p == Tail(q)
<1>1. /\ Len(p) \in Nat /\ Len(q) = Len(p) + 1 /\ Head(q) = q[1]
      /\ \A i \in 1..Len(p) : p[i] = q[i + 1]
  BY MessageTaken
<1>2. PICK k \in 0..Len(q) :
        /\ IF k = 0 THEN known ELSE q[k].type = "lc" /\ r \in q[k].rntis
        /\ \A j \in 1..Len(q) : j > k /\ q[j].type = "lc" => r \in q[j].rntis
  BY DEF LcLast
<1> HIDE DEF p
<1>3. ASSUME NEW j \in 1..Len(p), j + 1 > k, p[j].type = "lc"
      PROVE  r \in p[j].rntis
  <2>1. j + 1 \in 1..Len(q)
    BY <1>1
  <2> QED BY <1>1, <1>2, <1>3, <2>1
<1>4. CASE k \in {0, 1}
  <2>1. after
    <3>1. 1 \in 1..Len(q)
      BY <1>1
    <3>2. CASE k = 0
      BY <1>1, <1>2, <3>1, <3>2
    <3>3. CASE k = 1
      BY <1>1, <1>2, <3>3
    <3> QED BY <1>4, <3>2, <3>3
  <2>2. \A j \in 1..Len(p) : p[j].type = "lc" => r \in p[j].rntis
    <3> SUFFICES ASSUME NEW j \in 1..Len(p) PROVE j + 1 > k
      BY <1>3
    <3> QED BY <1>1, <1>4
  <2>3. 0 \in 0..Len(p)
    BY <1>1
  <2> QED BY <2>1, <2>2, <2>3 DEF LcLast, p
<1>5. CASE k \notin {0, 1}
  <2>1. k - 1 \in 1..Len(p) /\ (k - 1) + 1 = k /\ k # 0
    BY <1>1, <1>5
  <2>2. p[k - 1].type = "lc" /\ r \in p[k - 1].rntis
    BY <1>1, <1>2, <2>1
  <2>3. \A j \in 1..Len(p) : j > k - 1 /\ p[j].type = "lc" => r \in p[j].rntis
    <3> SUFFICES ASSUME NEW j \in 1..Len(p), j > k - 1 PROVE j + 1 > k
      BY <1>3
    <3> QED BY <1>1
  <2>4. k - 1 \in 0..Len(p) /\ k - 1 # 0
    BY <2>1
  <2> QED BY <2>2, <2>3, <2>4 DEF LcLast, p
<1> QED BY <1>4, <1>5

\* A message that is appended is the last one the RIB will handle.
LEMMA LeadsFurther ==
  ASSUME NEW q \in Seq(Message), NEW s, NEW a, NEW b, Leads(s, q, a, b), NEW m
  PROVE  \E t : Leads(t, Append(q, m), a, After(b, m))
<1> DEFINE p == Append(q, m)
           t == [i \in 0..Len(p) |-> IF i = Len(p) THEN After(b, m) ELSE s[i]]
<1>1. /\ Len(q) \in Nat /\ Len(p) = Len(q) + 1 /\ p[Len(q) + 1] = m
      /\ \A i \in 1..Len(q) : p[i] = q[i]
  BY MessageAdded
<1> HIDE DEF p
<1>2. t[0] = a /\ t[Len(p)] = After(b, m)
  BY <1>1 DEF Leads
<1>3. ASSUME NEW i \in 1..Len(p)
      PROVE  t[i] = After(t[i - 1], p[i])
  <2>1. i - 1 \in 0..Len(q) /\ t[i - 1] = s[i - 1]
    BY <1>1
  <2>2. CASE i = Len(q) + 1
    <3>1. t[i] = After(b, m) /\ s[i - 1] = b /\ p[i] = m
      BY <1>1, <2>2 DEF Leads
    <3> QED BY <2>1, <3>1
  <2>3. CASE i \in 1..Len(q)
    BY <1>1, <2>1, <2>3 DEF Leads
  <2> QED BY <1>1, <2>2, <2>3
<1>4. Leads(t, p, a, After(b, m))
  BY <1>2, <1>3 DEF Leads
<1> QED BY <1>4 DEF p

\* The message at the head is the first one the RIB handles.
LEMMA LeadsOn ==
  ASSUME NEW q \in Seq(Message), q # <<>>, NEW s, NEW a, NEW b, Leads(s, q, a, b)
  PROVE  \E t : Leads(t, Tail(q), After(a, Head(q)), b)
<1> DEFINE p == Tail(q)
           t == [i \in 0..Len(p) |-> s[i + 1]]
<1>1. /\ Len(p) \in Nat /\ Len(q) = Len(p) + 1 /\ Head(q) = q[1]
      /\ \A i \in 1..Len(p) : p[i] = q[i + 1]
  BY MessageTaken
<1> HIDE DEF p
<1>2. t[0] = After(a, Head(q)) /\ t[Len(p)] = b
  BY <1>1 DEF Leads
<1>3. ASSUME NEW i \in 1..Len(p)
      PROVE  t[i] = After(t[i - 1], p[i])
  <2>1. t[i] = s[i + 1] /\ t[i - 1] = s[i] /\ i + 1 \in 1..Len(q) /\ (i + 1) - 1 = i
    BY <1>1
  <2> QED BY <1>1, <2>1 DEF Leads
<1>4. Leads(t, p, After(a, Head(q)), b)
  BY <1>2, <1>3 DEF Leads
<1> QED BY <1>4 DEF p

\* A UE is known when it has a part of the RRC agent, and active when the agent has one.
LEMMA KnownByRrc ==
  ASSUME TypeOK, NEW r \in Rnti
  PROVE  /\ r \in KnownUes <=> RrcParts[r] # Absent
         /\ r \in Active <=> AgentParts[r] # Absent
         /\ r \in KnownUes => ue_config[r] \in KnownParts
         /\ r \in Active => ues[r] \in Parts
         /\ RrcParts[r] = ue_config[r][RrcAgent] /\ AgentParts[r] = ues[r][RrcAgent]
<1>1. ue_config[r] \in KnownParts \cup {NoUe} /\ ues[r] \in Parts \cup {NoUe}
  BY DEF TypeOK, KnownParts
<1>2. NoUe[RrcAgent] = Absent
  BY AgentsAssumption DEF NoUe
<1>3. \A p \in KnownParts \cup Parts : p[RrcAgent] \in Value
  BY AgentsAssumption DEF KnownParts, Parts
<1>4. \A p \in KnownParts \cup Parts : p[RrcAgent] # Absent
  BY <1>3, ValueAssumption
<1>5. RrcParts[r] = ue_config[r][RrcAgent] /\ AgentParts[r] = ues[r][RrcAgent]
  BY DEF RrcParts, AgentParts
<1> QED BY <1>1, <1>2, <1>4, <1>5 DEF KnownUes, Active

\* The RRC agent sends a message that says what has changed: RrcLeads still holds.
LEMMA RrcSends ==
  ASSUME Inv, RrcLeads, NEW m,
         replies' = [replies EXCEPT ![RrcAgent] = Append(@, m)],
         AgentParts' = PartsAfter(AgentParts, m),
         \A k \in SUBSET Active : LcAfter(k, AgentParts, m) \subseteq Active',
         UNCHANGED <<mac_agent, ue_config, lc_config>>
  PROVE  RrcLeads'
<1> DEFINE q == replies[RrcAgent]
<1>1. PICK l \in SUBSET Rnti, k \in SUBSET Rnti :
        /\ mac_agent = RrcAgent => l = lc_config
        /\ k \subseteq Active
        /\ \E s : Leads(s, q, Known(RrcParts, l), Known(AgentParts, k))
  BY DEF RrcLeads
<1>2. PICK s : Leads(s, q, Known(RrcParts, l), Known(AgentParts, k))
  BY <1>1
<1>3. q \in Seq(Message)
  BY AgentsAssumption DEF Inv, TypeOK
<1>4. replies'[RrcAgent] = Append(q, m)
  BY AgentsAssumption DEF Inv, TypeOK
<1> DEFINE n == LcAfter(k, AgentParts, m)
<1>5. After(Known(AgentParts, k), m) = Known(AgentParts', n)
  BY DEF After, Known
<1>6. n \subseteq Active' /\ n \in SUBSET Rnti
  BY <1>1 DEF Active
<1>7. RrcParts' = RrcParts
  BY DEF RrcParts
<1> HIDE DEF n, q
<1>8. \E t : Leads(t, Append(q, m), Known(RrcParts, l), After(Known(AgentParts, k), m))
  BY <1>2, <1>3, LeadsFurther
<1>9. \E t : Leads(t, replies'[RrcAgent], Known(RrcParts', l), Known(AgentParts', n))
  BY <1>4, <1>5, <1>7, <1>8
<1> QED BY <1>1, <1>6, <1>9 DEF RrcLeads

\* Another agent's messages change nothing of what the RRC agent's lead to.
LEMMA RrcKept ==
  ASSUME RrcLeads, replies'[RrcAgent] = replies[RrcAgent],
         UNCHANGED <<mac_agent, ues>>, RrcParts' = RrcParts,
         mac_agent = RrcAgent => lc_config' = lc_config
  PROVE  RrcLeads'
<1>1. AgentParts' = AgentParts /\ Active' = Active
  BY DEF AgentParts, Active
<1> QED BY <1>1 DEF RrcLeads

\* The RIB handles a message of the RRC agent.
LEMMA RrcHandled ==
  ASSUME Inv, RrcLeads, replies[RrcAgent] # <<>>,
         replies' = [replies EXCEPT ![RrcAgent] = Tail(@)],
         RrcParts' = PartsAfter(RrcParts, Head(replies[RrcAgent])),
         mac_agent = RrcAgent =>
           lc_config' = LcAfter(lc_config, RrcParts, Head(replies[RrcAgent])),
         lc_config' \subseteq Rnti,
         UNCHANGED <<mac_agent, ues>>
  PROVE  RrcLeads'
<1> DEFINE q == replies[RrcAgent]
           m == Head(q)
<1>1. PICK l \in SUBSET Rnti, k \in SUBSET Rnti :
        /\ mac_agent = RrcAgent => l = lc_config
        /\ k \subseteq Active
        /\ \E s : Leads(s, q, Known(RrcParts, l), Known(AgentParts, k))
  BY DEF RrcLeads
<1>2. PICK s : Leads(s, q, Known(RrcParts, l), Known(AgentParts, k))
  BY <1>1
<1>3. q \in Seq(Message) /\ q # <<>> /\ m \in Message
  BY AgentsAssumption DEF Inv, TypeOK
<1>4. replies'[RrcAgent] = Tail(q)
  BY AgentsAssumption DEF Inv, TypeOK
<1> DEFINE n == LcAfter(l, RrcParts, m)
<1>5. After(Known(RrcParts, l), m) = Known(RrcParts', n)
  BY DEF After, Known
<1>6. n \in SUBSET Rnti
  BY <1>3 DEF LcAfter, Message
<1>7. mac_agent' = RrcAgent => n = lc_config'
  BY <1>1
<1>8. AgentParts' = AgentParts /\ Active' = Active
  BY DEF AgentParts, Active
<1> HIDE DEF n, q, m
<1>9. \E t : Leads(t, Tail(q), After(Known(RrcParts, l), m), Known(AgentParts, k))
  BY <1>2, <1>3, LeadsOn DEF m
<1>10. \E t : Leads(t, replies'[RrcAgent], Known(RrcParts', n), Known(AgentParts', k))
  BY <1>4, <1>5, <1>8, <1>9
<1> QED BY <1>1, <1>6, <1>7, <1>8, <1>10 DEF RrcLeads

\* If the queue brings the part it does not matter what is known now.
LEMMA PartLastAny ==
  ASSUME NEW q, NEW r, NEW known, NEW part, PartLast(q, r, known, part), known # part, NEW other
  PROVE  PartLast(q, r, other, part)
<1>1. PICK k \in 0..Len(q) :
        /\ IF k = 0 THEN known = part ELSE q[k].type = "ue" /\ q[k].parts[r] = part
        /\ \A j \in 1..Len(q) : j > k /\ q[j].type = "ue" => q[j].parts[r] = part
  BY DEF PartLast
<1>2. k # 0
  BY <1>1
<1> QED BY <1>1, <1>2 DEF PartLast

\* Knowing the logical channels already is no harm.
LEMMA LcLastMore ==
  ASSUME NEW q, NEW r, NEW known \in BOOLEAN, NEW after \in BOOLEAN, LcLast(q, r, known),
         known => after
  PROVE  LcLast(q, r, after)
<1>1. CASE known = after
  BY <1>1
<1>2. CASE ~ known /\ after
  <2>1. PICK k \in 0..Len(q) :
          /\ IF k = 0 THEN known ELSE q[k].type = "lc" /\ r \in q[k].rntis
          /\ \A j \in 1..Len(q) : j > k /\ q[j].type = "lc" => r \in q[j].rntis
    BY DEF LcLast
  <2>2. k # 0
    BY <1>2, <2>1
  <2> QED BY <2>1, <2>2 DEF LcLast
<1> QED BY <1>1, <1>2

\* An agent that takes a request answers it; the others remain.
LEMMA RequestTaken ==
  ASSUME TypeOK, NEW a \in Agent, requests[a] # <<>>, NEW x, Requested(a, x),
         requests'[a] = Tail(requests[a])
  PROVE  Head(requests[a]) = x \/ Requested(a, x)'
<1> DEFINE q == requests[a]
           p == Tail(q)
<1>1. q \in Seq({"enb", "ue", "lc"}) /\ q # <<>>
  BY DEF TypeOK
<1>2. PICK i \in 1..Len(q) : q[i] = x
  BY DEF Requested
<1>3. Len(p) \in Nat /\ Len(q) = Len(p) + 1 /\ Head(q) = q[1] /\ \A j \in 1..Len(p) : p[j] = q[j + 1]
  BY <1>1
<1>4. requests'[a] = p
  OBVIOUS
<1> HIDE DEF p, q
<1>5. CASE i = 1
  BY <1>2, <1>3, <1>5 DEF q
<1>6. CASE i # 1
  <2>1. i - 1 \in 1..Len(p) /\ (i - 1) + 1 = i
    BY <1>3, <1>6
  <2>2. p[i - 1] = x
    BY <1>2, <1>3, <2>1
  <2> QED BY <1>4, <2>1, <2>2 DEF Requested
<1> QED BY <1>5, <1>6

\* trigger_bs_config() adds a request of each type for every agent.
LEMMA AllRequested ==
  ASSUME TypeOK, trigger_bs_config, NEW a \in Agent
  PROVE  /\ \A x \in {"enb", "ue", "lc"} : Requested(a, x)'
         /\ \A x : Requested(a, x) => Requested(a, x)'
<1> DEFINE q == requests[a]
           p == q \o <<"enb", "ue", "lc">>
<1>1. q \in Seq({"enb", "ue", "lc"}) /\ <<"enb", "ue", "lc">> \in Seq({"enb", "ue", "lc"})
      /\ Len(<<"enb", "ue", "lc">>) = 3
  BY DEF TypeOK
<1>2. /\ Len(q) \in Nat /\ Len(p) = Len(q) + 3
      /\ \A i \in 1..Len(q) : p[i] = q[i]
      /\ p[Len(q) + 1] = "enb" /\ p[Len(q) + 2] = "ue" /\ p[Len(q) + 3] = "lc"
  BY <1>1
<1>3. requests'[a] = p
  BY DEF trigger_bs_config
<1>4. Len(q) + 1 \in 1..Len(p) /\ Len(q) + 2 \in 1..Len(p) /\ Len(q) + 3 \in 1..Len(p)
      /\ \A i \in 1..Len(q) : i \in 1..Len(p)
  BY <1>2
<1> HIDE DEF p
<1>5. \A x \in {"enb", "ue", "lc"} : Requested(a, x)'
  BY <1>2, <1>3, <1>4 DEF Requested
<1>6. ASSUME NEW x, Requested(a, x)
      PROVE  Requested(a, x)'
  <2>1. PICK i \in 1..Len(q) : q[i] = x
    BY <1>6 DEF Requested
  <2> QED BY <1>2, <1>3, <1>4, <2>1 DEF Requested
<1> QED BY <1>5, <1>6

\* The RRC agent reports of r.
LEMMA RrcReports ==
  ASSUME Inv, OthersAnswer, OnlyMac, UesCome, NEW r \in Rnti, NEW m \in Message,
         m.type \in {"activated", "updated", "deactivated"}, m.rnti = r,
         replies' = [replies EXCEPT ![RrcAgent] = Append(@, m)],
         UNCHANGED <<mac_agent, requests, ue_config, lc_config>>,
         \A x \in Rnti \ {r} : ues'[x] = ues[x],
         r \in Active' => \/ m.type = "activated"
                          \/ /\ r \in Active /\ m.type = "updated"
                             /\ \A a \in Agent \ {RrcAgent} : ues'[r][a] = ues[r][a]
  PROVE  OthersAnswer' /\ OnlyMac' /\ UesCome'
<1>1. /\ RrcAgent \in Agent /\ mac_agent \in Agent /\ replies \in [Agent -> Seq(Message)]
      /\ replies'[RrcAgent] = Append(replies[RrcAgent], m)
      /\ \A a \in Agent \ {RrcAgent} : replies'[a] = replies[a]
  BY AgentsAssumption DEF Inv, TypeOK
<1>2. OthersAnswer'
  BY <1>1 DEF OthersAnswer
<1>3. OnlyMac'
  <2> SUFFICES ASSUME NEW a \in Agent \ {mac_agent}, NEW i \in 1..Len(replies'[a]),
                      replies'[a][i].type = "lc"
               PROVE  replies'[a][i].rntis = {}
    BY DEF OnlyMac
  <2>1. CASE a # RrcAgent
    BY <1>1, <2>1 DEF OnlyMac
  <2>2. CASE a = RrcAgent
    <3>1. replies'[a] = Append(replies[a], m) /\ replies[a] \in Seq(Message)
      BY <1>1, <2>2
    <3>2. i # Len(replies[a]) + 1
      BY <3>1, MessageAdded
    <3>3. i \in 1..Len(replies[a]) /\ replies'[a][i] = replies[a][i]
      BY <3>1, <3>2, MessageAdded
    <3> QED BY <3>3 DEF OnlyMac
  <2> QED BY <2>1, <2>2
<1>4. ASSUME NEW x \in Active'
      PROVE  /\ ComesBack(replies'[RrcAgent], x)
             /\ Has(replies'[RrcAgent], "activated", x) \/ PartsCome(x)'
  <2>0. replies[RrcAgent] \in Seq(Message) /\ x \in Rnti
    BY <1>1 DEF Active
  <2>1. CASE x = r /\ m.type = "activated"
    <3>1. Reports(m, "activated", x)
      BY <2>1 DEF Reports
    <3> QED BY <1>1, <2>0, <3>1, HasAdded, ComesBackAdded
  <2>2. CASE ~ (x = r /\ m.type = "activated")
    <3>1. x \in Active /\ ~ Reports(m, "deactivated", x)
      BY <1>4, <2>0, <2>2 DEF Active, Reports
    <3>2. \A a \in Agent \ {RrcAgent} : ues'[x][a] = ues[x][a]
      BY <1>4, <2>0, <2>2
    <3>3. ComesBack(replies'[RrcAgent], x)
      BY <1>1, <2>0, <3>1, ComesBackAdded DEF UesCome
    <3>4. CASE Has(replies[RrcAgent], "activated", x)
      BY <1>1, <2>0, <3>3, <3>4, HasAdded
    <3>5. CASE PartsCome(x)
      <4>1. x \in KnownUes'
        BY <3>5 DEF PartsCome, KnownUes
      <4>2. \A a \in Agent \ {RrcAgent} :
              Requested(a, "ue")' \/ PartLast(replies'[a], x, ue_config'[x][a], ues'[x][a])
        BY <1>1, <3>2, <3>5 DEF PartsCome, Requested
      <4>3. CASE Requested(mac_agent, "lc")
        BY <3>3, <4>1, <4>2, <4>3 DEF PartsCome, Requested
      <4>4. CASE LcLast(replies[mac_agent], x, x \in lc_config)
        <5>1. LcLast(replies'[mac_agent], x, x \in lc_config)
          <6>1. CASE mac_agent = RrcAgent
            <7> DEFINE q == replies[mac_agent]
                       known == x \in lc_config
            <7>1. known \in BOOLEAN /\ m.type # "lc" /\ q \in Seq(Message) /\ LcLast(q, x, known)
              BY <1>1, <4>4
            <7>2. replies'[mac_agent] = Append(q, m)
              BY <1>1, <6>1
            <7> HIDE DEF q, known
            <7>3. LcLast(Append(q, m), x, known)
              BY <7>1, LcLastAdded
            <7> QED BY <7>2, <7>3 DEF known
          <6>2. CASE mac_agent # RrcAgent
            BY <1>1, <4>4, <6>2
          <6> QED BY <6>1, <6>2
        <5> QED BY <3>3, <4>1, <4>2, <5>1 DEF PartsCome
      <4> QED BY <3>5, <4>3, <4>4 DEF PartsCome
    <3> QED BY <3>1, <3>4, <3>5 DEF UesCome
  <2> QED BY <2>1, <2>2
<1>5. UesCome'
  BY <1>4 DEF UesCome
<1> QED BY <1>2, <1>3, <1>5

\* A UE attaches, changes or detaches.
LEMMA BsSettles ==
  ASSUME Inv, SettleInv, NEW r \in Rnti, UeAttaches(r) \/ UeChanges(r) \/ UeDetaches(r)
  PROVE  SettleInv'
<1> USE DEF SettleInv
<1>1. RrcAgent \in Agent /\ ues \in [Rnti -> Parts \cup {NoUe}]
  BY AgentsAssumption DEF Inv, TypeOK
<1>2. \A p \in Parts : p \in [Agent -> Value] /\ p[RrcAgent] \in Value /\ p # NoUe
  <2> SUFFICES ASSUME NEW p \in Parts PROVE p[RrcAgent] \in Value /\ p # NoUe
    BY DEF Parts
  <2>1. p[RrcAgent] \in Value /\ NoUe[RrcAgent] = Absent
    BY <1>1 DEF Parts, NoUe
  <2> QED BY <2>1, ValueAssumption
<1>3. ASSUME UeAttaches(r) PROVE SettleInv'
  <2>1. PICK p \in Parts : ues' = [ues EXCEPT ![r] = p] /\ Report("activated", r, p[RrcAgent])
    BY <1>3 DEF UeAttaches
  <2> DEFINE m == [type |-> "activated", rnti |-> r, part |-> p[RrcAgent]]
  <2>2. /\ m \in Message /\ m.type = "activated" /\ m.rnti = r /\ m.part = p[RrcAgent]
        /\ replies' = [replies EXCEPT ![RrcAgent] = Append(@, m)]
        /\ UNCHANGED <<mac_agent, requests, ue_config, lc_config>>
    BY <1>2, <2>1 DEF Message, Report, ribVars
  <2> HIDE DEF m
  <2>3. \A x \in Rnti : ues'[x] = IF x = r THEN p ELSE ues[x]
    BY <1>1, <2>1
  <2>4. AgentParts' = PartsAfter(AgentParts, m)
    BY <2>2, <2>3 DEF AgentParts, PartsAfter
  <2>5. Active \subseteq Active'
    BY <1>2, <2>3 DEF Active
  <2>6. \A k \in SUBSET Active : LcAfter(k, AgentParts, m) \subseteq Active'
    BY <2>2, <2>5 DEF LcAfter
  <2>7. RrcLeads'
    BY <2>2, <2>4, <2>6, RrcSends
  <2> QED BY <2>2, <2>3, <2>7, RrcReports
<1>4. ASSUME UeChanges(r) PROVE SettleInv'
  <2>1. PICK v \in Value : ues' = [ues EXCEPT ![r][RrcAgent] = v] /\ Report("updated", r, v)
    BY <1>4 DEF UeChanges
  <2> DEFINE m == [type |-> "updated", rnti |-> r, part |-> v]
  <2>2. /\ m \in Message /\ m.type = "updated" /\ m.rnti = r /\ m.part = v
        /\ replies' = [replies EXCEPT ![RrcAgent] = Append(@, m)]
        /\ UNCHANGED <<mac_agent, requests, ue_config, lc_config>>
    BY <2>1 DEF Message, Report, ribVars
  <2> HIDE DEF m
  <2>3. r \in Active /\ ues[r] \in Parts
    BY <1>1, <1>4 DEF UeChanges, Active
  <2>4. /\ \A x \in Rnti \ {r} : ues'[x] = ues[x]
        /\ ues'[r] = [ues[r] EXCEPT ![RrcAgent] = v]
    BY <1>1, <2>1
  <2>5. /\ ues'[r] \in Parts /\ ues'[r][RrcAgent] = v
        /\ \A a \in Agent \ {RrcAgent} : ues'[r][a] = ues[r][a]
    BY <1>1, <2>3, <2>4 DEF Parts
  <2>6. AgentParts[r] # Absent
    BY <1>2, <2>3, ValueAssumption DEF AgentParts
  <2>7. AgentParts' = PartsAfter(AgentParts, m)
    BY <2>2, <2>4, <2>5, <2>6 DEF AgentParts, PartsAfter
  <2>8. Active' = Active
    BY <1>2, <2>3, <2>4, <2>5 DEF Active
  <2>9. \A k \in SUBSET Active : LcAfter(k, AgentParts, m) \subseteq Active'
    BY <2>2, <2>8 DEF LcAfter
  <2>10. RrcLeads'
    BY <2>2, <2>7, <2>9, RrcSends
  <2> QED BY <2>2, <2>3, <2>4, <2>5, <2>10, RrcReports
<1>5. ASSUME UeDetaches(r) PROVE SettleInv'
  <2> DEFINE v == ues[r][RrcAgent]
             m == [type |-> "deactivated", rnti |-> r, part |-> v]
  <2>1. r \in Active /\ ues[r] \in Parts
    BY <1>1, <1>5 DEF UeDetaches, Active
  <2>2. v \in Value /\ v # Absent /\ AgentParts[r] = v
    BY <1>2, <2>1, ValueAssumption DEF AgentParts
  <2>3. /\ m \in Message /\ m.type = "deactivated" /\ m.rnti = r
        /\ replies' = [replies EXCEPT ![RrcAgent] = Append(@, m)]
        /\ UNCHANGED <<mac_agent, requests, ue_config, lc_config>>
    BY <1>5, <2>2 DEF UeDetaches, Message, Report, ribVars
  <2> HIDE DEF m
  <2>4. \A x \in Rnti : ues'[x] = IF x = r THEN NoUe ELSE ues[x]
    BY <1>1, <1>5 DEF UeDetaches
  <2>5. NoUe[RrcAgent] = Absent
    BY <1>1 DEF NoUe
  <2>6. AgentParts' = PartsAfter(AgentParts, m)
    BY <2>3, <2>4, <2>5 DEF AgentParts, PartsAfter
  <2>7. \A x : x \in Active' <=> x \in Active /\ x # r
    BY <2>4 DEF Active
  <2>8. \A k \in SUBSET Active : LcAfter(k, AgentParts, m) \subseteq Active'
    BY <2>2, <2>3, <2>7 DEF LcAfter
  <2>9. RrcLeads'
    BY <2>3, <2>6, <2>8, RrcSends
  <2> QED BY <2>3, <2>4, <2>7, <2>9, RrcReports
<1> QED BY <1>3, <1>4, <1>5

\* An agent answers with its part of the present configuration.
LEMMA AnswersSettle ==
  ASSUME Inv, SettleInv, NEW a \in Agent, AgentAnswers(a)
  PROVE  SettleInv'
<1> DEFINE x == Head(requests[a])
           m == Answer(a, x)
<1>1. /\ RrcAgent \in Agent /\ mac_agent \in Agent /\ replies \in [Agent -> Seq(Message)]
      /\ ues \in [Rnti -> Parts \cup {NoUe}] /\ requests \in [Agent -> Seq({"enb", "ue", "lc"})]
  BY AgentsAssumption DEF Inv, TypeOK
<1>2. /\ requests[a] # <<>> /\ UNCHANGED <<mac_agent, ues, ue_config, lc_config>>
      /\ requests'[a] = Tail(requests[a])
      /\ \A b \in Agent \ {a} : requests'[b] = requests[b] /\ replies'[b] = replies[b]
      /\ replies'[a] = Append(replies[a], m)
      /\ replies' = [replies EXCEPT ![a] = Append(@, m)]
  BY <1>1 DEF AgentAnswers, bsVars, ribVars
<1>3. x \in {"enb", "ue", "lc"}
  BY <1>1, <1>2, QueueTypes
<1>4. /\ m.type = x
      /\ x = "ue" => \A r \in Rnti : m.parts[r] = IF r \in Active THEN ues[r][a] ELSE Absent
      /\ x = "lc" => m.rntis = IF a = mac_agent THEN Active ELSE {}
  BY <1>3 DEF Answer
<1> HIDE DEF m, x
<1>5. RrcLeads'
  <2>1. CASE a = RrcAgent
    <3>1. AgentParts' = AgentParts /\ Active' = Active
      BY <1>2 DEF AgentParts, Active
    <3>2. ASSUME x = "ue", NEW r \in Rnti
          PROVE  m.parts[r] = AgentParts[r]
      <4>1. r \notin Active => AgentParts[r] = Absent
        BY <1>1 DEF Active, AgentParts, NoUe
      <4> QED BY <1>4, <2>1, <3>2, <4>1 DEF AgentParts
    <3>3. AgentParts = PartsAfter(AgentParts, m)
      <4>1. AgentParts = [r \in Rnti |-> AgentParts[r]]
        BY DEF AgentParts
      <4> QED BY <1>3, <1>4, <3>2, <4>1 DEF PartsAfter
    <3>4. \A k \in SUBSET Active : LcAfter(k, AgentParts, m) \subseteq Active'
      BY <1>3, <1>4, <3>1 DEF LcAfter
    <3> QED BY <1>2, <2>1, <3>1, <3>3, <3>4, RrcSends DEF SettleInv
  <2>2. CASE a # RrcAgent
    <3>1. RrcParts' = RrcParts /\ replies'[RrcAgent] = replies[RrcAgent]
      BY <1>1, <1>2, <2>2 DEF RrcParts
    <3> QED BY <1>2, <3>1, RrcKept DEF SettleInv
  <2> QED BY <2>1, <2>2
<1>6. ASSUME NEW b \in Agent, NEW i \in 1..Len(replies'[b])
      PROVE  \/ i \in 1..Len(replies[b]) /\ replies'[b][i] = replies[b][i]
             \/ b = a /\ replies'[b][i] = m
  <2>1. replies[b] \in Seq(Message)
    BY <1>1
  <2>2. CASE b = a
    <3>1. replies'[b] = Append(replies[b], m)
      BY <1>2, <2>2
    <3>2. CASE i = Len(replies[b]) + 1
      BY <2>1, <2>2, <3>1, <3>2, MessageAdded
    <3>3. CASE i # Len(replies[b]) + 1
      <4>1. Len(replies[b]) \in Nat /\ Len(replies'[b]) = Len(replies[b]) + 1
        BY <2>1, <3>1, MessageAdded
      <4>2. i \in 1..Len(replies[b])
        BY <3>3, <4>1
      <4> QED BY <2>1, <3>1, <4>2, MessageAdded
    <3> QED BY <3>2, <3>3
  <2>3. CASE b # a
    BY <1>2, <2>3
  <2> QED BY <2>2, <2>3
<1>7. OthersAnswer'
  BY <1>3, <1>4, <1>6 DEF OthersAnswer, SettleInv
<1>8. OnlyMac'
  BY <1>2, <1>4, <1>6 DEF OnlyMac, SettleInv
<1>9. ASSUME NEW r \in Active'
      PROVE  /\ ComesBack(replies'[RrcAgent], r)
             /\ Has(replies'[RrcAgent], "activated", r) \/ PartsCome(r)'
  <2>1. r \in Active /\ r \in Rnti /\ (r \in KnownUes' <=> r \in KnownUes)
    BY <1>2 DEF Active, KnownUes
  <2>2. ~ Reports(m, "deactivated", r)
    BY <1>3, <1>4 DEF Reports
  <2>3. /\ ComesBack(replies[RrcAgent], r)
        /\ Has(replies[RrcAgent], "activated", r) \/ PartsCome(r)
    BY <1>9, <1>2 DEF SettleInv, UesCome, Active
  <2>4. ComesBack(replies'[RrcAgent], r)
    BY <1>1, <1>2, <2>2, <2>3, ComesBackAdded
  <2>5. CASE Has(replies[RrcAgent], "activated", r)
    BY <1>1, <1>2, <2>4, <2>5, HasAdded
  <2>6. CASE PartsCome(r)
    <3>1. ASSUME NEW b \in Agent \ {RrcAgent}
          PROVE  Requested(b, "ue")' \/ PartLast(replies'[b], r, ue_config'[r][b], ues'[r][b])
      <4>1. Requested(b, "ue") \/ PartLast(replies[b], r, ue_config[r][b], ues[r][b])
        BY <2>6 DEF PartsCome
      <4>2. CASE b # a
        BY <1>2, <4>1, <4>2 DEF Requested
      <4>3. CASE b = a /\ x = "ue"
        <5>1. m.type = "ue" /\ m.parts[r] = ues[r][b]
          BY <1>2, <1>4, <1>9, <4>3 DEF Active
        <5> QED BY <1>1, <1>2, <4>3, <5>1, PartLastAdded
      <4>4. CASE b = a /\ x # "ue" /\ PartLast(replies[b], r, ue_config[r][b], ues[r][b])
        <5>1. m.type # "ue" /\ replies[b] \in Seq(Message)
          BY <1>1, <1>4, <4>4
        <5>2. PartLast(Append(replies[b], m), r, ue_config[r][b], ues[r][b])
          BY <4>4, <5>1, PartLastAdded
        <5> QED BY <1>2, <4>4, <5>2
      <4>5. CASE b = a /\ x # "ue" /\ Requested(b, "ue")
        BY <1>2, <4>5, RequestTaken DEF Inv, x
      <4> QED BY <4>1, <4>2, <4>3, <4>4, <4>5
    <3>2. Requested(mac_agent, "lc")' \/ LcLast(replies'[mac_agent], r, r \in lc_config)
      <4> DEFINE q == replies[mac_agent]
                 known == r \in lc_config
      <4>1. /\ Requested(mac_agent, "lc") \/ LcLast(q, r, known)
            /\ known \in BOOLEAN /\ q \in Seq(Message)
            /\ mac_agent = a => replies'[mac_agent] = Append(q, m)
        BY <1>1, <1>2, <2>6 DEF PartsCome
      <4>2. CASE mac_agent # a
        BY <1>1, <1>2, <4>1, <4>2 DEF Requested
      <4>3. CASE mac_agent = a /\ x = "lc"
        <5>1. m.type = "lc" /\ r \in m.rntis
          BY <1>4, <2>1, <4>3
        <5> HIDE DEF q, known, m
        <5>2. LcLast(Append(q, m), r, known)
          BY <4>1, <5>1, LcLastAdded
        <5> QED BY <4>1, <4>3, <5>2 DEF known
      <4>4. CASE mac_agent = a /\ x # "lc" /\ LcLast(q, r, known)
        <5>1. m.type # "lc"
          BY <1>4, <4>4
        <5> HIDE DEF q, known, m
        <5>2. LcLast(Append(q, m), r, known)
          BY <4>1, <4>4, <5>1, LcLastAdded
        <5> QED BY <4>1, <4>4, <5>2 DEF known
      <4>5. CASE mac_agent = a /\ x # "lc" /\ Requested(mac_agent, "lc")
        BY <1>2, <4>5, RequestTaken DEF Inv, x
      <4> QED BY <4>1, <4>2, <4>3, <4>4, <4>5
    <3>3. r \in KnownUes'
      BY <2>1, <2>6 DEF PartsCome
    <3> QED BY <1>2, <2>4, <3>1, <3>2, <3>3 DEF PartsCome
  <2> QED BY <2>3, <2>5, <2>6
<1>10. UesCome'
  BY <1>9 DEF UesCome
<1> QED BY <1>5, <1>7, <1>8, <1>10 DEF SettleInv

\* The RIB handles a reply of an agent that does not report UE state changes.
LEMMA OthersHandled ==
  ASSUME Inv, Inv', SettleInv, NEW a \in Agent \ {RrcAgent}, Handle(a)
  PROVE  SettleInv'
<1> DEFINE m == Head(replies[a])
<1>1. /\ RrcAgent \in Agent /\ mac_agent \in Agent /\ replies \in [Agent -> Seq(Message)]
      /\ ues \in [Rnti -> Parts \cup {NoUe}] /\ ue_config \in [Rnti -> KnownParts \cup {NoUe}]
  BY AgentsAssumption DEF Inv, TypeOK, KnownParts
<1>2. /\ replies[a] # <<>> /\ UNCHANGED <<mac_agent, ues>>
      /\ replies'[a] = Tail(replies[a])
      /\ \A b \in Agent \ {a} : replies'[b] = replies[b]
  BY <1>1 DEF Handle, bsVars
<1>3. /\ Len(replies[a]) \in Nat /\ Len(replies[a]) = Len(replies'[a]) + 1
      /\ m = replies[a][1] /\ Len(replies'[a]) \in Nat
      /\ \A i \in 1..Len(replies'[a]) : replies'[a][i] = replies[a][i + 1]
  BY <1>1, <1>2, MessageTaken
<1>4. /\ m \in Message /\ m.type \in {"enb", "ue", "lc"}
      /\ m.type = "lc" /\ a # mac_agent => m.rntis = {}
  <2>1. m \in Message
    BY <1>1, <1>2, QueueTypes
  <2>2. 1 \in 1..Len(replies[a])
    BY <1>3
  <2> QED BY <1>3, <2>1, <2>2 DEF SettleInv, OthersAnswer, OnlyMac
<1>5. /\ requests' = requests
      /\ m.type = "ue" => update_UE_config(a, m.parts)
      /\ m.type # "ue" => ue_config' = ue_config
      /\ m.type = "lc" => update_LC_config(m.rntis)
      /\ m.type # "lc" => lc_config' = lc_config
  BY <1>4 DEF Handle, update_eNB_config, update_UE_config, update_LC_config
<1> HIDE DEF m
<1>6. ASSUME NEW r \in Rnti
      PROVE  /\ r \in KnownUes => r \in KnownUes'
             /\ \A b \in Agent \ {a} : ue_config'[r][b] = ue_config[r][b]
             /\ r \in KnownUes => ue_config'[r][a] =
                  IF m.type = "ue" /\ m.parts[r] # Absent THEN m.parts[r] ELSE ue_config[r][a]
  <2>1. CASE m.type # "ue" \/ r \notin KnownUes \/ m.parts[r] = Absent
    <3>1. ue_config'[r] = ue_config[r]
      BY <1>5, <2>1 DEF update_UE_config
    <3> QED BY <2>1, <3>1 DEF KnownUes
  <2>2. CASE m.type = "ue" /\ r \in KnownUes /\ m.parts[r] # Absent
    <3>1. ue_config'[r] = [ue_config[r] EXCEPT ![a] = m.parts[r]]
      BY <1>5, <2>2 DEF update_UE_config
    <3>2. ue_config[r] \in KnownParts
      BY <1>1, <2>2 DEF KnownUes
    <3>3. /\ ue_config'[r][a] = m.parts[r]
          /\ \A b \in Agent \ {a} : ue_config'[r][b] = ue_config[r][b]
      BY <3>1, <3>2 DEF KnownParts
    <3>4. ue_config[r][RrcAgent] # Absent /\ NoUe[RrcAgent] = Absent
      BY <1>1, <3>2, ValueAssumption DEF KnownParts, NoUe
    <3>5. ue_config'[r] # NoUe
      BY <1>1, <3>3, <3>4
    <3> QED BY <2>2, <3>3, <3>5 DEF KnownUes
  <2> QED BY <2>1, <2>2
<1>7. RrcLeads'
  <2>1. RrcParts' = RrcParts
    BY <1>1, <1>6 DEF RrcParts
  <2>2. mac_agent = RrcAgent => lc_config' = lc_config
    BY <1>4, <1>5 DEF update_LC_config
  <2> QED BY <1>1, <1>2, <2>1, <2>2, RrcKept DEF SettleInv
<1>8. ASSUME NEW b \in Agent, NEW i \in 1..Len(replies'[b])
      PROVE  \E j \in 1..Len(replies[b]) : replies'[b][i] = replies[b][j]
  <2>1. CASE b = a
    <3>1. i + 1 \in 1..Len(replies[a])
      BY <1>3, <2>1
    <3> QED BY <1>3, <2>1, <3>1
  <2>2. CASE b # a
    BY <1>2, <2>2
  <2> QED BY <2>1, <2>2
<1>9. OthersAnswer'
  BY <1>8 DEF OthersAnswer, SettleInv
<1>10. OnlyMac'
  <2> SUFFICES ASSUME NEW b \in Agent \ {mac_agent}, NEW i \in 1..Len(replies'[b]),
                      replies'[b][i].type = "lc"
               PROVE  replies'[b][i].rntis = {}
    BY <1>2 DEF OnlyMac
  <2>1. PICK j \in 1..Len(replies[b]) : replies'[b][i] = replies[b][j]
    BY <1>8
  <2> QED BY <2>1 DEF OnlyMac, SettleInv
<1>11. ASSUME NEW r \in Active'
       PROVE  /\ ComesBack(replies'[RrcAgent], r)
              /\ Has(replies'[RrcAgent], "activated", r) \/ PartsCome(r)'
  <2>1. /\ r \in Rnti /\ r \in Active /\ replies'[RrcAgent] = replies[RrcAgent]
        /\ ues[r] \in Parts
    BY <1>1, <1>2 DEF Active
  <2>2. /\ ComesBack(replies[RrcAgent], r)
        /\ Has(replies[RrcAgent], "activated", r) \/ PartsCome(r)
    BY <2>1 DEF SettleInv, UesCome
  <2>3. CASE PartsCome(r)
    <3>1. r \in KnownUes /\ r \in KnownUes'
      BY <1>6, <2>1, <2>3 DEF PartsCome
    <3>2. ASSUME NEW b \in Agent \ {RrcAgent}
          PROVE  Requested(b, "ue")' \/ PartLast(replies'[b], r, ue_config'[r][b], ues'[r][b])
      <4>1. CASE Requested(b, "ue")
        BY <1>5, <4>1 DEF Requested
      <4>2. CASE PartLast(replies[b], r, ue_config[r][b], ues[r][b]) /\ b # a
        BY <1>2, <1>6, <2>1, <4>2
      <4>3. CASE PartLast(replies[a], r, ue_config[r][a], ues[r][a]) /\ b = a
        <5> DEFINE now == IF m.type = "ue" THEN m.parts[r] ELSE ue_config[r][a]
        <5>1. PartLast(replies'[a], r, now, ues[r][a])
          BY <1>1, <1>2, <4>3, PartLastTaken DEF m
        <5>2. CASE m.type # "ue" \/ m.parts[r] # Absent
          <6>1. ue_config'[r][a] = now
            BY <1>6, <2>1, <3>1, <5>2
          <6> QED BY <1>2, <4>3, <5>1, <6>1
        <5>3. CASE m.type = "ue" /\ m.parts[r] = Absent
          <6>1. now # ues[r][a]
            BY <2>1, <5>3, ValueAssumption DEF Parts
          <6> QED BY <1>2, <4>3, <5>1, <6>1, PartLastAny
        <5> QED BY <5>2, <5>3
      <4> QED BY <2>3, <4>1, <4>2, <4>3 DEF PartsCome
    <3>3. CASE Requested(mac_agent, "lc")
      BY <1>2, <1>5, <2>1, <2>2, <3>1, <3>2, <3>3 DEF PartsCome, Requested
    <3>4. CASE LcLast(replies[mac_agent], r, r \in lc_config)
      <4>1. (r \in lc_config) \in BOOLEAN /\ (r \in lc_config') \in BOOLEAN
        OBVIOUS
      <4>2. /\ m.type = "lc" /\ r \in m.rntis => r \in lc_config'
            /\ m.type # "lc" /\ r \in lc_config => r \in lc_config'
        BY <1>5 DEF update_LC_config
      <4>3. LcLast(replies'[mac_agent], r, r \in lc_config')
        <5>1. CASE mac_agent = a
          <6> DEFINE q == replies[mac_agent]
                     was == r \in lc_config
                     is == r \in lc_config'
          <6>1. q \in Seq(Message) /\ q # <<>> /\ LcLast(q, r, was) /\ m = Head(q)
            BY <1>1, <1>2, <3>4, <5>1 DEF m
          <6>2. /\ was \in BOOLEAN /\ is \in BOOLEAN
                /\ m.type = "lc" /\ r \in m.rntis => is
                /\ m.type # "lc" /\ was => is
            BY <4>2
          <6>3. replies'[mac_agent] = Tail(q)
            BY <1>2, <5>1
          <6> HIDE DEF q, was, is
          <6>4. LcLast(Tail(q), r, is)
            BY <6>1, <6>2, LcLastTaken
          <6> QED BY <6>3, <6>4 DEF is
        <5>2. CASE mac_agent # a
          <6>1. lc_config' = lc_config
            BY <1>4, <1>5, <5>2 DEF update_LC_config
          <6> QED BY <1>1, <1>2, <3>4, <5>2, <6>1
        <5> QED BY <5>1, <5>2
      <4> QED BY <1>2, <2>1, <2>2, <3>1, <3>2, <4>3 DEF PartsCome
    <3> QED BY <2>3, <3>3, <3>4 DEF PartsCome
  <2> QED BY <2>1, <2>2, <2>3
<1>12. UesCome'
  BY <1>11 DEF UesCome
<1> QED BY <1>7, <1>9, <1>10, <1>12 DEF SettleInv

\* What the RIB makes of a message of the RRC agent.
LEMMA RrcEffect ==
  ASSUME Inv, OnlyMac, Handle(RrcAgent), NEW m, m = Head(replies[RrcAgent])
  PROVE  /\ RrcParts' = PartsAfter(RrcParts, m)
         /\ mac_agent = RrcAgent => lc_config' = LcAfter(lc_config, RrcParts, m)
         /\ \A r \in KnownUes : ~ Reports(m, "deactivated", r) =>
              /\ r \in KnownUes'
              /\ \A b \in Agent \ {RrcAgent} : ue_config'[r][b] = ue_config[r][b]
         /\ \A r : Reports(m, "activated", r) => r \in KnownUes' /\ trigger_bs_config
         /\ trigger_bs_config \/ requests' = requests
         /\ m.type = "lc" => lc_config' = IF m.rntis = {} THEN lc_config ELSE m.rntis
         /\ m.type = "lc" => m.rntis = {} \/ mac_agent = RrcAgent
         /\ \A r \in lc_config : ~ Reports(m, "deactivated", r) /\ m.type # "lc" => r \in lc_config'
<1>1. /\ RrcAgent \in Agent /\ mac_agent \in Agent /\ replies \in [Agent -> Seq(Message)]
      /\ ue_config \in [Rnti -> KnownParts \cup {NoUe}] /\ replies[RrcAgent] # <<>>
  BY AgentsAssumption DEF Inv, TypeOK, KnownParts, Handle
<1>2. /\ m \in Message
      /\ m.type = "lc" => m.rntis = {} \/ mac_agent = RrcAgent
  <2>1. m \in Message
    BY <1>1, QueueTypes
  <2>2. 1 \in 1..Len(replies[RrcAgent]) /\ m = replies[RrcAgent][1]
    BY <1>1, MessageTaken
  <2> QED BY <1>1, <2>1, <2>2 DEF OnlyMac
<1>3. \A r \in Rnti : r \in KnownUes <=> RrcParts[r] # Absent
  <2> SUFFICES ASSUME NEW r \in Rnti PROVE r \in KnownUes <=> RrcParts[r] # Absent
    OBVIOUS
  <2>1. RrcParts[r] = ue_config[r][RrcAgent] /\ NoUe[RrcAgent] = Absent
    BY <1>1 DEF RrcParts, NoUe
  <2>2. ue_config[r] \in KnownParts => ue_config[r][RrcAgent] # Absent
    BY ValueAssumption DEF KnownParts
  <2> QED BY <1>1, <2>1, <2>2 DEF KnownUes
<1>4. \A c, v : c \in KnownParts /\ v \in Value =>
        /\ [c EXCEPT ![RrcAgent] = v][RrcAgent] = v
        /\ [c EXCEPT ![RrcAgent] = v] # NoUe
        /\ \A b \in Agent \ {RrcAgent} : [c EXCEPT ![RrcAgent] = v][b] = c[b]
  <2> SUFFICES ASSUME NEW c \in KnownParts, NEW v \in Value
               PROVE  /\ [c EXCEPT ![RrcAgent] = v][RrcAgent] = v
                      /\ [c EXCEPT ![RrcAgent] = v] # NoUe
                      /\ \A b \in Agent \ {RrcAgent} : [c EXCEPT ![RrcAgent] = v][b] = c[b]
    OBVIOUS
  <2>1. /\ [c EXCEPT ![RrcAgent] = v][RrcAgent] = v
        /\ \A b \in Agent \ {RrcAgent} : [c EXCEPT ![RrcAgent] = v][b] = c[b]
    BY <1>1 DEF KnownParts
  <2>2. NoUe[RrcAgent] = Absent
    BY <1>1 DEF NoUe
  <2> QED BY <2>1, <2>2, ValueAssumption
<1>5. RrcParts = [r \in Rnti |-> RrcParts[r]]
  BY DEF RrcParts
<1>6. CASE m.type = "enb" /\ update_eNB_config(RrcAgent)
  <2>1. UNCHANGED <<requests, ue_config, lc_config>>
    BY <1>6 DEF update_eNB_config
  <2>2. RrcParts' = RrcParts /\ KnownUes' = KnownUes
    BY <2>1 DEF RrcParts, KnownUes
  <2> QED BY <1>5, <1>6, <2>1, <2>2 DEF PartsAfter, LcAfter, Reports
<1>7. CASE m.type = "lc" /\ update_LC_config(m.rntis)
  <2>1. UNCHANGED <<requests, ue_config>>
        /\ lc_config' = IF m.rntis = {} THEN lc_config ELSE m.rntis
    BY <1>7 DEF update_LC_config
  <2>2. RrcParts' = RrcParts /\ KnownUes' = KnownUes
    BY <2>1 DEF RrcParts, KnownUes
  <2> QED BY <1>2, <1>5, <1>7, <2>1, <2>2 DEF PartsAfter, LcAfter, Reports
<1>8. CASE m.type = "ue" /\ update_UE_config(RrcAgent, m.parts)
  <2>1. UNCHANGED <<requests, lc_config>> /\ m.parts \in [Rnti -> Value \cup {Absent}]
    BY <1>2, <1>8 DEF update_UE_config, Message
  <2>2. ASSUME NEW r \in Rnti
        PROVE  /\ ue_config'[r][RrcAgent] = PartsAfter(RrcParts, m)[r]
               /\ r \in KnownUes =>
                    /\ r \in KnownUes'
                    /\ \A b \in Agent \ {RrcAgent} : ue_config'[r][b] = ue_config[r][b]
    <3>0. RrcParts[r] = ue_config[r][RrcAgent]
      BY DEF RrcParts
    <3>1. CASE r \in KnownUes /\ m.parts[r] # Absent
      <4>1. ue_config'[r] = [ue_config[r] EXCEPT ![RrcAgent] = m.parts[r]]
        BY <1>8, <3>1 DEF update_UE_config
      <4>2. ue_config[r] \in KnownParts /\ m.parts[r] \in Value
        BY <1>1, <2>1, <3>1 DEF KnownUes
      <4> HIDE DEF PartsAfter
      <4>3. PartsAfter(RrcParts, m)[r] = m.parts[r]
        BY <1>3, <1>8, <3>1 DEF PartsAfter
      <4> QED BY <1>4, <4>1, <4>2, <4>3 DEF KnownUes
    <3>2. CASE ~ (r \in KnownUes /\ m.parts[r] # Absent)
      <4>1. ue_config'[r] = ue_config[r]
        BY <1>8, <3>2 DEF update_UE_config
      <4>2. PartsAfter(RrcParts, m)[r] = RrcParts[r]
        BY <1>3, <1>8, <3>2 DEF PartsAfter
      <4> QED BY <3>0, <4>1, <4>2 DEF KnownUes
    <3> QED BY <3>1, <3>2
  <2>3. RrcParts' = PartsAfter(RrcParts, m)
    <3>1. PartsAfter(RrcParts, m) = [r \in Rnti |-> PartsAfter(RrcParts, m)[r]]
      BY DEF PartsAfter
    <3> QED BY <2>2, <3>1 DEF RrcParts
  <2>4. \A r \in KnownUes : r \in Rnti
    BY DEF KnownUes
  <2> QED BY <1>8, <2>1, <2>2, <2>3, <2>4 DEF LcAfter, Reports
<1>9. ASSUME m.type \in {"activated", "updated", "deactivated"}, m.rnti \in Rnti,
             NEW c,
             \A r \in Rnti : ue_config'[r] = IF r = m.rnti THEN c ELSE ue_config[r],
             c[RrcAgent] = PartsAfter(RrcParts, m)[m.rnti],
             \/ m.type = "deactivated"
             \/ /\ m.rnti \in KnownUes => 
                     c # NoUe /\ \A b \in Agent \ {RrcAgent} : c[b] = ue_config[m.rnti][b]
                /\ m.type = "activated" => c # NoUe
      PROVE  /\ RrcParts' = PartsAfter(RrcParts, m)
             /\ \A r \in KnownUes : ~ Reports(m, "deactivated", r) =>
                  /\ r \in KnownUes'
                  /\ \A b \in Agent \ {RrcAgent} : ue_config'[r][b] = ue_config[r][b]
             /\ \A r : Reports(m, "activated", r) => r \in KnownUes'
  <2>1. \A r \in Rnti : r # m.rnti => PartsAfter(RrcParts, m)[r] = RrcParts[r]
    BY <1>9 DEF PartsAfter
  <2>2. \A r \in Rnti : ue_config'[r][RrcAgent] = PartsAfter(RrcParts, m)[r]
    BY <1>9, <2>1 DEF RrcParts
  <2>3. PartsAfter(RrcParts, m) = [r \in Rnti |-> PartsAfter(RrcParts, m)[r]]
    BY DEF PartsAfter
  <2>4. RrcParts' = PartsAfter(RrcParts, m)
    BY <2>2, <2>3 DEF RrcParts
  <2> QED BY <1>9, <2>4 DEF Reports, KnownUes
<1>10. CASE m.type = "activated" /\ UeActivated(m.rnti, m.part)
  <2> DEFINE r == m.rnti
             v == m.part
             c == IF r \in KnownUes THEN [ue_config[r] EXCEPT ![RrcAgent] = v]
                  ELSE [b \in Agent |-> IF b = RrcAgent THEN v ELSE Absent]
  <2>1. r \in Rnti /\ v \in Value
    BY <1>2, <1>10 DEF Message
  <2>2. ue_config' = [ue_config EXCEPT ![r] = c] /\ lc_config' = lc_config /\ trigger_bs_config
    BY <1>10 DEF UeActivated
  <2>3. /\ c[RrcAgent] = v /\ c # NoUe
        /\ r \in KnownUes => \A b \in Agent \ {RrcAgent} : c[b] = ue_config[r][b]
    <3>1. CASE r \in KnownUes
      <4>1. ue_config[r] \in KnownParts
        BY <1>1, <2>1, <3>1 DEF KnownUes
      <4> QED BY <1>4, <2>1, <3>1, <4>1
    <3>2. CASE r \notin KnownUes
      <4>1. c[RrcAgent] = v /\ NoUe[RrcAgent] = Absent
        BY <1>1, <3>2 DEF NoUe
      <4> QED BY <2>1, <3>2, <4>1, ValueAssumption
    <3> QED BY <3>1, <3>2
  <2> HIDE DEF c
  <2>4. \A x \in Rnti : ue_config'[x] = IF x = r THEN c ELSE ue_config[x]
    BY <1>1, <2>1, <2>2
  <2>5. PartsAfter(RrcParts, m)[r] = v
    BY <1>10, <2>1 DEF PartsAfter
  <2> QED BY <1>9, <1>10, <2>1, <2>2, <2>3, <2>4, <2>5 DEF LcAfter, Reports
<1>11. CASE m.type = "updated" /\ UeUpdated(m.rnti, m.part)
  <2> DEFINE r == m.rnti
             v == m.part
             c == IF r \in KnownUes THEN [ue_config[r] EXCEPT ![RrcAgent] = v] ELSE NoUe
  <2>1. r \in Rnti /\ v \in Value
    BY <1>2, <1>11 DEF Message
  <2>2. ue_config' = [ue_config EXCEPT ![r] = c] /\ lc_config' = lc_config /\ requests' = requests
    BY <1>11 DEF UeUpdated
  <2>3. /\ r \in KnownUes => /\ c # NoUe /\ c[RrcAgent] = v
                             /\ \A b \in Agent \ {RrcAgent} : c[b] = ue_config[r][b]
        /\ r \notin KnownUes => c[RrcAgent] = Absent
    <3>1. CASE r \in KnownUes
      <4>1. ue_config[r] \in KnownParts
        BY <1>1, <2>1, <3>1 DEF KnownUes
      <4> QED BY <1>4, <2>1, <3>1, <4>1
    <3>2. CASE r \notin KnownUes
      BY <1>1, <3>2 DEF NoUe
    <3> QED BY <3>1, <3>2
  <2> HIDE DEF c
  <2>4. \A x \in Rnti : ue_config'[x] = IF x = r THEN c ELSE ue_config[x]
    BY <1>1, <2>1, <2>2
  <2>5. PartsAfter(RrcParts, m)[r] = IF r \in KnownUes THEN v ELSE Absent
    BY <1>3, <1>11, <2>1 DEF PartsAfter
  <2> QED BY <1>9, <1>11, <2>1, <2>2, <2>3, <2>4, <2>5 DEF LcAfter, Reports
<1>12. CASE m.type = "deactivated" /\ UeDeactivated(m.rnti)
  <2> DEFINE r == m.rnti
  <2>1. r \in Rnti
    BY <1>2, <1>12 DEF Message
  <2>2. /\ ue_config' = [ue_config EXCEPT ![r] = NoUe] /\ requests' = requests
        /\ lc_config' = IF r \in KnownUes THEN lc_config \ {r} ELSE lc_config
    BY <1>12 DEF UeDeactivated
  <2>3. NoUe[RrcAgent] = Absent
    BY <1>1 DEF NoUe
  <2>4. \A x \in Rnti : ue_config'[x] = IF x = r THEN NoUe ELSE ue_config[x]
    BY <1>1, <2>1, <2>2
  <2>5. PartsAfter(RrcParts, m)[r] = Absent
    BY <1>12, <2>1 DEF PartsAfter
  <2>6. lc_config' = LcAfter(lc_config, RrcParts, m)
    BY <1>3, <1>12, <2>1, <2>2 DEF LcAfter
  <2> QED BY <1>9, <1>12, <2>1, <2>2, <2>3, <2>4, <2>5, <2>6 DEF Reports
<1> QED BY <1>2, <1>6, <1>7, <1>8, <1>10, <1>11, <1>12 DEF Handle

\* The RIB handles a message of the RRC agent.
LEMMA RrcAgentHandled ==
  ASSUME Inv, Inv', SettleInv, Handle(RrcAgent)
  PROVE  SettleInv'
<1> DEFINE m == Head(replies[RrcAgent])
<1>1. /\ RrcAgent \in Agent /\ mac_agent \in Agent /\ replies \in [Agent -> Seq(Message)]
      /\ ues \in [Rnti -> Parts \cup {NoUe}] /\ TypeOK
  BY AgentsAssumption DEF Inv, TypeOK
<1>2. /\ replies[RrcAgent] # <<>> /\ UNCHANGED <<mac_agent, ues>>
      /\ replies'[RrcAgent] = Tail(replies[RrcAgent])
      /\ \A b \in Agent \ {RrcAgent} : replies'[b] = replies[b]
      /\ replies' = [replies EXCEPT ![RrcAgent] = Tail(@)]
  BY <1>1 DEF Handle, bsVars
<1>3. /\ Len(replies[RrcAgent]) \in Nat /\ Len(replies[RrcAgent]) = Len(replies'[RrcAgent]) + 1
      /\ Len(replies'[RrcAgent]) \in Nat
      /\ \A i \in 1..Len(replies'[RrcAgent]) : replies'[RrcAgent][i] = replies[RrcAgent][i + 1]
  BY <1>1, <1>2, MessageTaken
<1>4. /\ RrcParts' = PartsAfter(RrcParts, m)
      /\ mac_agent = RrcAgent => lc_config' = LcAfter(lc_config, RrcParts, m)
      /\ \A r \in KnownUes : ~ Reports(m, "deactivated", r) =>
           /\ r \in KnownUes'
           /\ \A b \in Agent \ {RrcAgent} : ue_config'[r][b] = ue_config[r][b]
      /\ \A r : Reports(m, "activated", r) => r \in KnownUes' /\ trigger_bs_config
      /\ trigger_bs_config \/ requests' = requests
      /\ m.type = "lc" => lc_config' = IF m.rntis = {} THEN lc_config ELSE m.rntis
      /\ m.type = "lc" => m.rntis = {} \/ mac_agent = RrcAgent
      /\ \A r \in lc_config : ~ Reports(m, "deactivated", r) /\ m.type # "lc" => r \in lc_config'
  BY RrcEffect DEF SettleInv
<1>5. \A b \in Agent : \A x : Requested(b, x) => Requested(b, x)'
  <2>1. CASE trigger_bs_config
    BY <1>1, <2>1, AllRequested
  <2>2. CASE requests' = requests
    BY <2>2 DEF Requested
  <2> QED BY <1>4, <2>1, <2>2
<1>6. RrcLeads'
  <2>1. lc_config' \subseteq Rnti
    BY DEF Inv, TypeOK
  <2> QED BY <1>2, <1>4, <2>1, RrcHandled DEF SettleInv
<1> HIDE DEF m
<1>7. ASSUME NEW b \in Agent, NEW i \in 1..Len(replies'[b])
      PROVE  \E j \in 1..Len(replies[b]) : replies'[b][i] = replies[b][j]
  <2>1. CASE b = RrcAgent
    <3>1. i + 1 \in 1..Len(replies[RrcAgent])
      BY <1>3, <2>1
    <3> QED BY <1>3, <2>1, <3>1
  <2>2. CASE b # RrcAgent
    BY <1>2, <2>2
  <2> QED BY <2>1, <2>2
<1>8. OthersAnswer'
  BY <1>7 DEF OthersAnswer, SettleInv
<1>9. OnlyMac'
  <2> SUFFICES ASSUME NEW b \in Agent \ {mac_agent}, NEW i \in 1..Len(replies'[b]),
                      replies'[b][i].type = "lc"
               PROVE  replies'[b][i].rntis = {}
    BY <1>2 DEF OnlyMac
  <2>1. PICK j \in 1..Len(replies[b]) : replies'[b][i] = replies[b][j]
    BY <1>7
  <2> QED BY <2>1 DEF OnlyMac, SettleInv
<1>10. ASSUME NEW r \in Active'
       PROVE  /\ ComesBack(replies'[RrcAgent], r)
              /\ Has(replies'[RrcAgent], "activated", r) \/ PartsCome(r)'
  <2>1. r \in Rnti /\ r \in Active
    BY <1>2 DEF Active
  <2>2. /\ ComesBack(replies[RrcAgent], r)
        /\ Has(replies[RrcAgent], "activated", r) \/ PartsCome(r)
    BY <2>1 DEF SettleInv, UesCome
  <2>3. /\ ComesBack(replies'[RrcAgent], r)
        /\ Reports(m, "deactivated", r) => Has(replies'[RrcAgent], "activated", r)
    BY <1>1, <1>2, <2>2, ComesBackTaken DEF m
  <2>4. CASE Reports(m, "activated", r)
    <3>1. r \in KnownUes' /\ \A b \in Agent, x \in {"enb", "ue", "lc"} : Requested(b, x)'
      BY <1>1, <1>4, <2>4, AllRequested
    <3>2. Requested(mac_agent, "lc")'
      BY <1>1, <1>2, <3>1
    <3> QED BY <2>3, <3>1, <3>2 DEF PartsCome
  <2>5. CASE Has(replies[RrcAgent], "activated", r) /\ ~ Reports(m, "activated", r)
    <3>1. Has(replies'[RrcAgent], "activated", r)
      BY <1>1, <1>2, <2>5, HasTaken DEF m
    <3> QED BY <2>3, <3>1
  <2>6. CASE PartsCome(r) /\ ~ Reports(m, "deactivated", r)
    <3>1. /\ r \in KnownUes /\ r \in KnownUes'
          /\ \A b \in Agent \ {RrcAgent} : ue_config'[r][b] = ue_config[r][b]
      BY <1>4, <2>6 DEF PartsCome
    <3>2. ASSUME NEW b \in Agent \ {RrcAgent}
          PROVE  Requested(b, "ue")' \/ PartLast(replies'[b], r, ue_config'[r][b], ues'[r][b])
      BY <1>2, <1>5, <2>6, <3>1 DEF PartsCome
    <3>3. CASE Requested(mac_agent, "lc")
      <4>1. Requested(mac_agent, "lc")'
        BY <1>1, <1>2, <1>5, <3>3
      <4> QED BY <2>3, <3>1, <3>2, <4>1 DEF PartsCome
    <3>4. CASE LcLast(replies[mac_agent], r, r \in lc_config)
      <4> DEFINE q == replies[mac_agent]
                 was == r \in lc_config
                 is == r \in lc_config'
      <4>1. /\ was \in BOOLEAN /\ is \in BOOLEAN /\ q \in Seq(Message)
            /\ LcLast(q, r, was)
        BY <1>1, <3>4
      <4>2. /\ mac_agent = RrcAgent => q # <<>> /\ m = Head(q) /\ replies'[mac_agent] = Tail(q)
            /\ mac_agent # RrcAgent => replies'[mac_agent] = q
        BY <1>1, <1>2 DEF m
      <4>3. /\ m.type = "lc" /\ r \in m.rntis => is
            /\ m.type # "lc" /\ was => is
            /\ mac_agent # RrcAgent /\ was => is
        BY <1>4, <2>6
      <4> HIDE DEF q, was, is
      <4>4. LcLast(replies'[mac_agent], r, is)
        <5>1. CASE mac_agent = RrcAgent
          <6>1. LcLast(Tail(q), r, is)
            BY <4>1, <4>2, <4>3, <5>1, LcLastTaken
          <6> QED BY <4>2, <5>1, <6>1
        <5>2. CASE mac_agent # RrcAgent
          BY <4>1, <4>2, <4>3, <5>2, LcLastMore
        <5> QED BY <5>1, <5>2
      <4>5. LcLast(replies'[mac_agent'], r, r \in lc_config')
        BY <1>2, <4>4 DEF is
      <4> QED BY <2>3, <3>1, <3>2, <4>5 DEF PartsCome
    <3> QED BY <2>6, <3>3, <3>4 DEF PartsCome
  <2> QED BY <2>2, <2>3, <2>4, <2>5, <2>6
<1>11. UesCome'
  BY <1>10 DEF UesCome
<1> QED BY <1>6, <1>8, <1>9, <1>11 DEF SettleInv

\* Nothing has been sent when the BS is completed.
LEMMA InitSettles ==
  ASSUME Init
  PROVE  SettleInv
<1>1. /\ RrcAgent \in Agent /\ mac_agent \in Agent /\ \A a \in Agent : replies[a] = <<>>
      /\ RrcParts = AgentParts /\ Active = {}
  BY AgentsAssumption DEF Init, RrcParts, AgentParts, Active
<1>2. RrcLeads
  <2> DEFINE s == [i \in 0..0 |-> Known(RrcParts, lc_config)]
  <2>1. lc_config = {}
    BY DEF Init
  <2>2. Leads(s, replies[RrcAgent], Known(RrcParts, lc_config), Known(AgentParts, {}))
    <3>1. Len(replies[RrcAgent]) = 0 /\ 1..0 = {}
      BY <1>1
    <3>2. s[0] = Known(RrcParts, lc_config)
      OBVIOUS
    <3> QED BY <1>1, <2>1, <3>1, <3>2 DEF Leads
  <2> HIDE DEF s
  <2> QED BY <2>1, <2>2 DEF RrcLeads
<1>3. OthersAnswer /\ OnlyMac /\ UesCome
  BY <1>1 DEF OthersAnswer, OnlyMac, UesCome
<1> QED BY <1>2, <1>3 DEF SettleInv

\* The messages on their way always lead the RIB to the configuration of the BS.
THEOREM SettleInvariant == Spec => [](Inv /\ SettleInv)
<1>1. Init => SettleInv
  BY InitSettles
<1>2. Inv /\ Inv' /\ SettleInv /\ [Next]_vars => SettleInv'
  <2> SUFFICES ASSUME Inv, Inv', SettleInv, [Next]_vars PROVE SettleInv'
    OBVIOUS
  <2>1. ASSUME NEW r \in Rnti, UeAttaches(r) \/ UeChanges(r) \/ UeDetaches(r) PROVE SettleInv'
    BY <2>1, BsSettles
  <2>2. ASSUME NEW a \in Agent, AgentAnswers(a) PROVE SettleInv'
    BY <2>2, AnswersSettle
  <2>3. ASSUME NEW a \in Agent, Handle(a) PROVE SettleInv'
    BY <2>3, OthersHandled, RrcAgentHandled
  <2>4. CASE UNCHANGED vars
    <3>1. UNCHANGED <<mac_agent, ues, requests, replies, ue_config, lc_config>>
      BY <2>4 DEF vars, bsVars, ribVars
    <3>2. UNCHANGED <<RrcParts, AgentParts, Active, KnownUes>>
      BY <3>1 DEF RrcParts, AgentParts, Active, KnownUes
    <3>3. RrcLeads'
      BY <3>1, <3>2 DEF RrcLeads, SettleInv
    <3>4. OthersAnswer' /\ OnlyMac'
      BY <3>1 DEF OthersAnswer, OnlyMac, SettleInv
    <3>5. UesCome'
      BY <3>1, <3>2 DEF UesCome, PartsCome, Requested, SettleInv
    <3> QED BY <3>3, <3>4, <3>5 DEF SettleInv
  <2> QED BY <2>1, <2>2, <2>3, <2>4 DEF Next
<1> QED BY <1>1, <1>2, Invariant, PTL DEF Spec

\* Nothing on its way: the invariant says what the RIB knows.
LEMMA SettledKnown ==
  ASSUME Inv, SettleInv, Settled
  PROVE  SettledUes /\ SettledLcs
<1>1. /\ RrcAgent \in Agent /\ mac_agent \in Agent
      /\ \A a \in Agent : replies[a] = <<>> /\ requests[a] = <<>>
      /\ \A a \in Agent : Len(replies[a]) = 0 /\ Len(requests[a]) = 0
      /\ ues \in [Rnti -> Parts \cup {NoUe}] /\ ue_config \in [Rnti -> KnownParts \cup {NoUe}]
      /\ TypeOK
  BY AgentsAssumption DEF Inv, TypeOK, Settled, KnownParts
<1>2. PICK l \in SUBSET Rnti, k \in SUBSET Rnti :
        /\ mac_agent = RrcAgent => l = lc_config
        /\ k \subseteq Active
        /\ \E s : Leads(s, replies[RrcAgent], Known(RrcParts, l), Known(AgentParts, k))
  BY DEF SettleInv, RrcLeads
<1>3. RrcParts = AgentParts /\ l = k
  <2>1. Known(RrcParts, l) = Known(AgentParts, k)
    BY <1>1, <1>2 DEF Leads
  <2> QED BY <2>1 DEF Known
<1>4. ASSUME NEW r \in Active
      PROVE  /\ r \in KnownUes /\ r \in lc_config
             /\ \A a \in Agent \ {RrcAgent} : ue_config[r][a] = ues[r][a]
  <2>1. ~ Has(replies[RrcAgent], "activated", r)
    BY <1>1 DEF Has
  <2>2. PartsCome(r)
    BY <2>1 DEF SettleInv, UesCome
  <2>3. \A a \in Agent : \A x : ~ Requested(a, x)
    BY <1>1 DEF Requested
  <2>4. \A a \in Agent \ {RrcAgent} : ue_config[r][a] = ues[r][a]
    <3> SUFFICES ASSUME NEW a \in Agent \ {RrcAgent} PROVE ue_config[r][a] = ues[r][a]
      OBVIOUS
    <3>1. PartLast(replies[a], r, ue_config[r][a], ues[r][a])
      BY <2>2, <2>3 DEF PartsCome
    <3>2. Len(replies[a]) = 0 /\ 0..0 = {0}
      BY <1>1
    <3> QED BY <3>1, <3>2 DEF PartLast
  <2>5. r \in lc_config
    BY <1>1, <2>2, <2>3 DEF PartsCome, LcLast
  <2> QED BY <2>2, <2>4, <2>5 DEF PartsCome
<1>5. ASSUME NEW r \in Rnti
      PROVE  ue_config[r] = ues[r]
  <2>1. /\ r \in KnownUes <=> RrcParts[r] # Absent
        /\ r \in Active <=> AgentParts[r] # Absent
        /\ RrcParts[r] = ue_config[r][RrcAgent] /\ AgentParts[r] = ues[r][RrcAgent]
        /\ r \in KnownUes => ue_config[r] \in KnownParts
        /\ r \in Active => ues[r] \in Parts
    BY <1>1, KnownByRrc
  <2>2. CASE r \in Active
    <3>1. ue_config[r] \in KnownParts /\ ues[r] \in Parts
      BY <1>4, <2>1, <2>2
    <3>2. \A a \in Agent : ue_config[r][a] = ues[r][a]
      BY <1>3, <1>4, <2>1, <2>2
    <3> QED BY <3>1, <3>2 DEF KnownParts, Parts
  <2>3. CASE r \notin Active
    <3>1. r \notin KnownUes
      BY <1>3, <2>1, <2>3
    <3> QED BY <2>3, <3>1 DEF Active, KnownUes
  <2> QED BY <2>2, <2>3
<1>6. ue_config = ues
  BY <1>1, <1>5
<1>7. Active \subseteq lc_config
  BY <1>4
<1>8. mac_agent = RrcAgent => lc_config = Active
  BY <1>2, <1>3, <1>7
<1> QED BY <1>6, <1>7, <1>8 DEF SettledUes, SettledLcs

\* For any agents, RNTIs and interleaving of their messages: once none is on
\* its way the RIB has the UEs of the BS with every agent's current part.
LEMMA UesSettle == Spec => []SettledUes
<1>1. Inv /\ SettleInv => SettledUes
  BY SettledKnown DEF SettledUes
<1> QED BY <1>1, SettleInvariant, PTL

\* Once no message is on its way the RIB has the logical channels of every UE,
\* and of no other if the RRC agent is the one that knows them.
LEMMA LcsSettle == Spec => []SettledLcs
<1>1. Inv /\ SettleInv => SettledLcs
  BY SettledKnown DEF SettledLcs
<1> QED BY <1>1, SettleInvariant, PTL

\* For any agents, RNTIs and interleaving of their messages the RIB has, once none is on
\* its way, the UEs and the logical channels that the BS has (enb_rib_info).
THEOREM RibGetsThere == Spec => []RibSettles
<1>1. SettledUes /\ SettledLcs => RibSettles
  BY DEF RibSettles
<1> QED BY <1>1, UesSettle, LcsSettle, PTL
=============================================================================
