--------------------------- MODULE ManagementProofs ---------------------------
(***************************************************************************)
(* Proofs about the applications that reconfigure base stations: the       *)
(* slices of RrmManagement, the MMEs and the cell of PlmnManagement, the   *)
(* cell IDs that RrcTriggering compares.                                   *)
(***************************************************************************)
EXTENDS RrmManagement, PlmnManagement, RrcTriggering, FiniteSetTheorems, WellFoundedInduction,
        TLAPS

(***************************************************************************)
(* Sequences whose elements have no type in common                         *)
(***************************************************************************)
\* A sequence, whatever its elements.
IsASeq(q) == q \in Seq({q[i] : i \in DOMAIN q})

\* The queue is empty.
LEMMA EmptyIsASeq == IsASeq(<<>>)
BY DEF IsASeq

\* Sequences over some set are such sequences.
LEMMA SeqIsASeq ==
  ASSUME NEW S, NEW q \in Seq(S)
  PROVE  IsASeq(q)
BY DEF IsASeq

\* One more message at the end of the queue.
LEMMA AppendIsASeq ==
  ASSUME NEW q, IsASeq(q), NEW e
  PROVE  /\ IsASeq(Append(q, e))
         /\ DOMAIN Append(q, e) = 1..(Len(q) + 1) /\ Len(q) \in Nat /\ DOMAIN q = 1..Len(q)
         /\ \A i \in DOMAIN q : Append(q, e)[i] = q[i]
         /\ Append(q, e)[Len(q) + 1] = e
<1> DEFINE S == {q[i] : i \in DOMAIN q} \cup {e}
<1>1. q \in Seq(S) /\ e \in S
  BY DEF IsASeq
<1> HIDE DEF S
<1>2. Append(q, e) \in Seq(S)
  BY <1>1
<1>3. IsASeq(Append(q, e))
  BY <1>2, SeqIsASeq
<1>4. /\ DOMAIN Append(q, e) = 1..(Len(q) + 1) /\ Len(q) \in Nat /\ DOMAIN q = 1..Len(q)
      /\ \A i \in DOMAIN q : Append(q, e)[i] = q[i]
      /\ Append(q, e)[Len(q) + 1] = e
  BY <1>1
<1> QED BY <1>3, <1>4

\* The first message is taken.
LEMMA TailIsASeq ==
  ASSUME NEW q, IsASeq(q), q # <<>>
  PROVE  /\ IsASeq(Tail(q)) /\ Len(q) \in Nat \ {0} /\ DOMAIN q = 1..Len(q)
         /\ DOMAIN Tail(q) = 1..(Len(q) - 1)
         /\ \A i \in DOMAIN Tail(q) : Tail(q)[i] = q[i + 1]
         /\ 1 \in DOMAIN q /\ Head(q) = q[1]
<1> DEFINE S == {q[i] : i \in DOMAIN q}
<1>1. q \in Seq(S)
  BY DEF IsASeq
<1> HIDE DEF S
<1>2. Tail(q) \in Seq(S)
  BY <1>1
<1>3. IsASeq(Tail(q))
  BY <1>2, SeqIsASeq
<1>4. /\ Len(q) \in Nat \ {0} /\ DOMAIN q = 1..Len(q)
      /\ 1 \in DOMAIN q /\ Head(q) = q[1]
  BY <1>1
<1>5. /\ DOMAIN Tail(q) = 1..(Len(q) - 1)
      /\ \A i \in DOMAIN Tail(q) : Tail(q)[i] = q[i + 1]
  BY <1>1, <1>4
<1> QED BY <1>3, <1>4, <1>5

\* Several messages at once.
LEMMA ConcatIsASeq ==
  ASSUME NEW q, IsASeq(q), NEW r, IsASeq(r)
  PROVE  /\ IsASeq(q \o r) /\ Len(q) \in Nat /\ Len(r) \in Nat
         /\ DOMAIN q = 1..Len(q) /\ DOMAIN r = 1..Len(r)
         /\ DOMAIN (q \o r) = 1..(Len(q) + Len(r))
         /\ \A i \in DOMAIN q : (q \o r)[i] = q[i]
         /\ \A i \in DOMAIN r : (q \o r)[Len(q) + i] = r[i]
<1> DEFINE S == {q[i] : i \in DOMAIN q} \cup {r[i] : i \in DOMAIN r}
<1>1. q \in Seq(S) /\ r \in Seq(S)
  BY DEF IsASeq
<1> HIDE DEF S
<1>2. q \o r \in Seq(S)
  BY <1>1
<1>3. IsASeq(q \o r)
  BY <1>2, SeqIsASeq
<1>4. /\ Len(q) \in Nat /\ Len(r) \in Nat
      /\ DOMAIN q = 1..Len(q) /\ DOMAIN r = 1..Len(r)
      /\ DOMAIN (q \o r) = 1..(Len(q) + Len(r))
      /\ \A i \in DOMAIN q : (q \o r)[i] = q[i]
  BY <1>1
<1>5. ASSUME NEW i \in DOMAIN r PROVE (q \o r)[Len(q) + i] = r[i]
  BY <1>1, <1>4
<1> QED BY <1>3, <1>4, <1>5

\* The messages that one call sends.
LEMMA TuplesAreSeqs ==
  /\ \A e : IsASeq(<<e>>) /\ DOMAIN <<e>> = {1} /\ Len(<<e>>) = 1
  /\ \A e, f : IsASeq(<<e, f>>) /\ DOMAIN <<e, f>> = {1, 2} /\ Len(<<e, f>>) = 2
<1>1. ASSUME NEW e PROVE IsASeq(<<e>>)
  <2>1. <<e>> \in Seq({e})
    OBVIOUS
  <2> QED BY <2>1, SeqIsASeq
<1>2. ASSUME NEW e, NEW f PROVE IsASeq(<<e, f>>)
  <2>1. <<e, f>> \in Seq({e, f})
    OBVIOUS
  <2> QED BY <2>1, SeqIsASeq
<1> QED BY <1>1, <1>2

(***************************************************************************)
(* RrmManagement: refused calls                                            *)
(***************************************************************************)

\* A call that answers << 400 >> has taken the branch that changes nothing: the one other
\* answer that contains 400 has a second code.
LEMMA AnswersDiffer ==
  ASSUME NEW first \in {<<>>, << 400 >>}
  PROVE  first \o << 200 >> # << 400 >>
<1>1. CASE first = <<>>
  BY <1>1
<1>2. CASE first = << 400 >>
  <2>1. Len(first \o << 200 >>) = 2 /\ Len(<< 400 >>) = 1
    BY <1>2
  <2> QED BY <2>1
<1> QED BY <1>1, <1>2

\* One call that answers that nothing could be done.
LEMMA RefusedStep ==
  ASSUME [RrmNext]_rrmVars, calls' # calls, answers' = << 400 >>
  PROVE  UNCHANGED <<to_agent, ue_slice>>
<1>1. CASE \/ AgentApplies \/ AgentReports \/ (\E u \in Ue : UeIdentified(u))
           \/ (\E u \in Ue, d \in Dir, id \in Id : UeJoins(u, d, id))
           \/ HandleReport \/ UNCHANGED rrmVars
  BY <1>1 DEF AgentApplies, AgentReports, UeIdentified, UeJoins, HandleReport, rrmVars
<1>2. CASE RefusedCall
  BY <1>2 DEF RefusedCall, Refuse
<1>3. ASSUME NEW r \in SliceRequests, ApplySliceConfig(r)
      PROVE  UNCHANGED <<to_agent, ue_slice>>
  BY <1>3, << 200 >> # << 400 >> DEF ApplySliceConfig, Refuse
<1>4. ASSUME NEW r \in RemoveRequests, RemoveSlices(r)
      PROVE  UNCHANGED <<to_agent, ue_slice>>
  BY <1>4, << 200 >> # << 400 >> DEF RemoveSlices, Refuse
<1>5. ASSUME NEW r \in AssocRequests, ChangeUeSliceAssoc(r)
      PROVE  UNCHANGED <<to_agent, ue_slice>>
  BY <1>5, << 200 >> # << 400 >> DEF ChangeUeSliceAssoc, Refuse
<1>6. ASSUME NEW id \in Id, NEW dir, NEW l \in RegexLists, AutoUeSliceAssoc(id, dir, l)
      PROVE  UNCHANGED <<to_agent, ue_slice>>
  <2> DEFINE first == IF dir \in Dir \cup {"both"} THEN <<>> ELSE << 400 >>
  <2>1. first \o << 200 >> # << 400 >>
    BY AnswersDiffer
  <2> QED BY <1>6, <2>1 DEF AutoUeSliceAssoc
<1> QED BY <1>1, <1>2, <1>3, <1>4, <1>5, <1>6 DEF RrmNext, RestCall

(***************************************************************************)
(* A call that rrm_calls answers with 400 alone has sent nothing and left  *)
(* the association of UEs to slices as it was, whatever is in its body and *)
(* whatever is on its way.                                                 *)
(***************************************************************************)
THEOREM RefusedCallsChangeNothing == RrmSpec => RefusedChangesNothing
<1>1. [RrmNext]_rrmVars =>
        [calls' # calls /\ answers' = << 400 >> => UNCHANGED <<to_agent, ue_slice>>]_rrmVars
  BY RefusedStep
<1> QED BY <1>1, PTL DEF RrmSpec, RefusedChangesNothing
-----------------------------------------------------------------------------
(***************************************************************************)
(* RrmManagement: slices do not overlap                                    *)
(***************************************************************************)

\* A command that changes slices.
ChangesSlices(m) == m.type \in {"slices", "remove"}

\* Configuration request leaves the slices of the agent disjoint.
SafeFor(cfg) ==
  \A d \in Dir : cfg[d].algorithm = "Static" => Disjoint(Configured(agent[d], cfg[d]).slices)

\* With careful calls a change of the slices is in one place: a command, at the agent or in a
\* report.  While there is none, or a command only, the RIB shows what the agent has.
OneChange ==
  /\ \A i, j \in DOMAIN to_agent :
       ChangesSlices(to_agent[i]) /\ ChangesSlices(to_agent[j]) => i = j
  /\ \A i \in DOMAIN to_agent : ChangesSlices(to_agent[i]) =>
       /\ ~ dirty
       /\ to_agent[i].type = "slices" => SafeFor(to_agent[i].config)
       /\ \A k \in DOMAIN to_rib : to_rib[k].type # "enb"
  /\ dirty => \A k \in DOMAIN to_rib : to_rib[k].type # "enb"
  /\ \A k, l \in DOMAIN to_rib : to_rib[k].type = "enb" /\ to_rib[l].type = "enb" => k = l
  /\ \A k \in DOMAIN to_rib : to_rib[k].type = "enb" => to_rib[k].config = agent
  /\ ~ dirty /\ (\A k \in DOMAIN to_rib : to_rib[k].type # "enb") => slice_config = agent

RrmShape ==
  /\ IsASeq(to_agent) /\ IsASeq(to_rib)
  /\ \A i \in DOMAIN to_agent : to_agent[i].type \in {"slices", "remove", "ues"}
  /\ \A i \in DOMAIN to_rib : to_rib[i].type \in {"enb", "updated"}
  /\ agent = [d \in Dir |-> agent[d]]
  /\ \A d \in Dir : DOMAIN agent[d] = {"algorithm", "slices"}
  /\ dirty \in BOOLEAN /\ careful \in BOOLEAN

RrmIInv == RrmShape /\ (careful => OneChange) /\ NoOverlap

\* What verify_static_slice_configuration() accepts leaves the slices of the agent disjoint, if
\* it was asked about these and every slice comes with positions or other parameters.
LEMMA VerifiedIsDisjoint ==
  ASSUME NEW new, NEW old, NEW cfg, cfg.slices = new.slices,
         VerifyStatic(new, old), \A i \in Slices(new) : new.slices[i] # Label
  PROVE  Disjoint(Configured(old, cfg).slices)
<1> DEFINE all  == Configured(old, cfg).slices
           left == Slices(old) \ Slices(new)
           taken == Filled(new, old)
<1>0. taken = [i \in Slices(new) \cup left |->
                 IF i \notin left THEN In(new.slices[i])
                 ELSE IF old.slices[i] = Share THEN {0} ELSE In(old.slices[i])]
  BY DEF Filled
<1>1. \A i, j \in DOMAIN taken : i # j => taken[i] \cap taken[j] = {}
  BY DEF VerifyStatic
<1>2. ASSUME NEW i \in DOMAIN all PROVE i \in DOMAIN taken /\ In(all[i]) \subseteq taken[i]
  <2>1. CASE i \in Slices(new)
    BY <1>0, <2>1 DEF Configured, Slices
  <2>2. CASE i \notin Slices(new)
    <3>1. i \in left /\ all[i] = old.slices[i]
      BY <2>2 DEF Configured, Slices
    <3>2. In(Share) = {}
      BY DEF In
    <3> QED BY <1>0, <2>2, <3>1, <3>2
  <2> QED BY <2>1, <2>2
<1> HIDE DEF taken, all
<1>3. ASSUME NEW i \in DOMAIN all, NEW j \in DOMAIN all, i # j
      PROVE  In(all[i]) \cap In(all[j]) = {}
  BY <1>1, <1>2, <1>3
<1> QED BY <1>3 DEF Disjoint, all

\* Slices that are left out of a removal stay disjoint.
LEMMA WithoutStaysDisjoint ==
  ASSUME NEW old, DOMAIN old = {"algorithm", "slices"}, NEW ids, Disjoint(old.slices)
  PROVE  Disjoint(Without(old, ids).slices)
BY DEF Disjoint, Without, Slices

\* No command was sent, and no slices are there to overlap.
LEMMA RrmInitIInv == RrmInit => RrmIInv
<1> SUFFICES ASSUME RrmInit PROVE RrmIInv
  OBVIOUS
<1>1. IsASeq(<<>>) /\ DOMAIN <<>> = {}
  BY EmptyIsASeq
<1> QED BY <1>1 DEF RrmInit, RrmIInv, RrmShape, OneChange, NoOverlap, Disjoint

(***************************************************************************)
(* The agent takes a command.                                              *)
(***************************************************************************)
LEMMA AgentAppliesIInv == RrmIInv /\ AgentApplies => RrmIInv'
<1> SUFFICES ASSUME RrmIInv, AgentApplies PROVE RrmIInv'
  OBVIOUS
<1> DEFINE m == Head(to_agent)
<1>1. /\ m = to_agent[1] /\ 1 \in DOMAIN to_agent
      /\ IsASeq(to_agent') /\ DOMAIN to_agent = 1..Len(to_agent) /\ Len(to_agent) \in Nat
      /\ DOMAIN to_agent' = 1..(Len(to_agent) - 1)
      /\ \A i \in DOMAIN to_agent' : to_agent'[i] = to_agent[i + 1]
  BY TailIsASeq DEF RrmIInv, RrmShape, AgentApplies
<1>2. /\ agent' = IF m.type = "slices" THEN [d \in Dir |-> Configured(agent[d], m.config[d])]
                  ELSE IF m.type = "remove" THEN [d \in Dir |-> Without(agent[d], m.ids[d])]
                  ELSE agent
      /\ dirty' = (dirty \/ agent' # agent)
      /\ UNCHANGED <<to_rib, slice_config, careful>>
  BY DEF AgentApplies, reportedVars
<1>3. \A i \in DOMAIN to_agent' : i + 1 \in DOMAIN to_agent /\ i + 1 # 1
  BY <1>1
<1> HIDE DEF m
<1>4. RrmShape'
  BY <1>1, <1>2, <1>3 DEF RrmIInv, RrmShape, Configured, Without
<1>5. NoOverlap'
  <2> SUFFICES ASSUME careful, NEW d \in Dir, agent'[d].algorithm = "Static"
               PROVE  Disjoint(agent'[d].slices)
    BY <1>2 DEF NoOverlap, Disjoint, In
  <2>1. CASE m.type = "slices"
    <3>1. SafeFor(m.config)
      BY <1>1, <1>2, <2>1 DEF RrmIInv, OneChange, ChangesSlices
    <3>2. agent'[d] = Configured(agent[d], m.config[d])
      BY <1>2, <2>1
    <3>3. agent'[d].algorithm = m.config[d].algorithm
      BY <3>2 DEF Configured
    <3> QED BY <3>1, <3>2, <3>3 DEF SafeFor
  <2>2. CASE m.type = "remove"
    <3>1. agent'[d] = Without(agent[d], m.ids[d])
      BY <1>2, <2>2
    <3>2. agent'[d].algorithm = agent[d].algorithm
      BY <3>1 DEF Without, RrmIInv, RrmShape
    <3> QED BY <3>1, <3>2, WithoutStaysDisjoint DEF RrmIInv, RrmShape, NoOverlap
  <2>3. CASE m.type = "ues"
    BY <1>2, <2>3 DEF RrmIInv, NoOverlap
  <2> QED BY <1>1, <2>1, <2>2, <2>3 DEF RrmIInv, RrmShape
<1>6. ASSUME careful PROVE OneChange'
  <2> USE <1>6
  <2>1. CASE ChangesSlices(m)
    <3>1. \A i \in DOMAIN to_agent' : ~ ChangesSlices(to_agent'[i])
      BY <1>1, <1>3, <2>1 DEF RrmIInv, OneChange
    <3>2. ~ dirty /\ (\A k \in DOMAIN to_rib : to_rib[k].type # "enb") /\ slice_config = agent
      BY <1>1, <2>1 DEF RrmIInv, OneChange
    <3> QED BY <1>2, <3>1, <3>2 DEF OneChange, ChangesSlices, RrmIInv, RrmShape
  <2>2. CASE ~ ChangesSlices(m)
    <3>1. agent' = agent /\ dirty' = dirty
      BY <1>2, <2>2 DEF ChangesSlices, RrmIInv, RrmShape
    <3> DEFINE q == to_agent'
    <3>2. \A i \in DOMAIN q : i + 1 \in DOMAIN to_agent /\ q[i] = to_agent[i + 1]
      BY <1>1, <1>3
    <3>3. \A i, j \in DOMAIN q : ChangesSlices(q[i]) /\ ChangesSlices(q[j]) => i = j
      BY <1>1, <3>2 DEF RrmIInv, OneChange
    <3>4. \A i \in DOMAIN q : ChangesSlices(q[i]) =>
             ~ dirty /\ (\A k \in DOMAIN to_rib : to_rib[k].type # "enb")
      BY <3>2 DEF RrmIInv, OneChange
    <3>5. \A i \in DOMAIN q : q[i].type = "slices" => SafeFor(q[i].config)
      BY <3>2 DEF RrmIInv, OneChange, ChangesSlices
    <3>6. \A i \in DOMAIN q : q[i].type = "slices" => SafeFor(to_agent[i].config)'
      BY <3>1, <3>5 DEF SafeFor
    <3> QED BY <1>2, <3>1, <3>3, <3>4, <3>6 DEF RrmIInv, OneChange, ChangesSlices
  <2> QED BY <2>1, <2>2
<1> QED BY <1>2, <1>4, <1>5, <1>6 DEF RrmIInv

(***************************************************************************)
(* Commands that are sent, and those that were on their way before.        *)
(***************************************************************************)
LEMMA SentCommands ==
  ASSUME RrmShape, NEW ms, IsASeq(ms), NEW i \in DOMAIN (to_agent \o ms)
  PROVE  \/ i \in DOMAIN to_agent /\ (to_agent \o ms)[i] = to_agent[i]
         \/ \E k \in DOMAIN ms : i = Len(to_agent) + k /\ (to_agent \o ms)[i] = ms[k]
<1> DEFINE S == {to_agent[k] : k \in DOMAIN to_agent} \cup {ms[k] : k \in DOMAIN ms}
<1>1. to_agent \in Seq(S) /\ ms \in Seq(S)
  BY DEF IsASeq, RrmShape
<1> HIDE DEF S
<1>2. /\ Len(to_agent) \in Nat /\ Len(ms) \in Nat
      /\ DOMAIN to_agent = 1..Len(to_agent) /\ DOMAIN ms = 1..Len(ms)
      /\ DOMAIN (to_agent \o ms) = 1..(Len(to_agent) + Len(ms))
      /\ \A k \in DOMAIN to_agent : (to_agent \o ms)[k] = to_agent[k]
  BY <1>1
<1>3. CASE i \in DOMAIN to_agent
  BY <1>2, <1>3
<1>4. CASE i \notin DOMAIN to_agent
  <2>1. i \in 1..(Len(to_agent) + Len(ms))
    BY <1>2
  <2>2. PICK k \in 1..Len(ms) : i = Len(to_agent) + k
    <3>1. i - Len(to_agent) \in 1..Len(ms) /\ i = Len(to_agent) + (i - Len(to_agent))
      BY <1>2, <1>4, <2>1
    <3> QED BY <3>1
  <2>3. (to_agent \o ms)[Len(to_agent) + k] = ms[k]
    BY <1>1, <1>2, <2>2
  <2> QED BY <1>2, <2>2, <2>3
<1> QED BY <1>3, <1>4

\* The commands on their way that change slices are those that were on their way before.
NoNewChange ==
  \A i \in DOMAIN to_agent' : ChangesSlices(to_agent'[i]) =>
    i \in DOMAIN to_agent /\ to_agent'[i] = to_agent[i]

\* Such a step leaves what is on its way to the agent as safe as it was.
LEMMA NoNewChangeKeeps ==
  ASSUME OneChange, UNCHANGED <<agent, dirty, to_rib, slice_config>>, NoNewChange
  PROVE  OneChange'
<1> DEFINE q == to_agent'
<1>3. \A i \in DOMAIN q : q[i].type = "slices" => SafeFor(to_agent[i].config)'
  BY DEF OneChange, NoNewChange, ChangesSlices, SafeFor
<1>4. \A i, j \in DOMAIN q : ChangesSlices(q[i]) /\ ChangesSlices(q[j]) => i = j
  BY DEF OneChange, NoNewChange
<1>5. \A i \in DOMAIN q : ChangesSlices(q[i]) =>
        ~ dirty /\ (\A k \in DOMAIN to_rib : to_rib[k].type # "enb")
  BY DEF OneChange, NoNewChange
<1> QED BY <1>3, <1>4, <1>5 DEF OneChange, ChangesSlices

(***************************************************************************)
(* The agent reports, or the network finds out who a UE is.                *)
(***************************************************************************)
LEMMA AgentReportsIInv == RrmIInv /\ AgentReports => RrmIInv'
<1> SUFFICES ASSUME RrmIInv, AgentReports PROVE RrmIInv'
  OBVIOUS
<1> DEFINE q == to_rib'
<1>0. UNCHANGED <<agent, to_agent, slice_config, careful>>
  BY DEF AgentReports, reportedVars, historyVars
<1>1. PICK e : /\ q = Append(to_rib, e)
               /\ \/ e.type = "enb" /\ e.config = agent /\ dirty /\ ~ dirty'
                  \/ e.type = "updated" /\ dirty' = dirty
  <2>1. CASE dirty /\ dirty' = FALSE /\ q = Append(to_rib, [type |-> "enb", config |-> agent])
    <3> DEFINE e == [type |-> "enb", config |-> agent]
    <3>1. e.type = "enb" /\ e.config = agent
      OBVIOUS
    <3> HIDE DEF e
    <3>2. q = Append(to_rib, e)
      BY <2>1 DEF e
    <3> QED BY <2>1, <3>1, <3>2
  <2>2. ASSUME NEW u \in dirty_ues, UNCHANGED dirty,
               q = Append(to_rib, [type |-> "updated", ue |-> u, config |-> ue[u]])
        PROVE  \E e : q = Append(to_rib, e) /\ e.type = "updated" /\ dirty' = dirty
    <3> DEFINE e == [type |-> "updated", ue |-> u, config |-> ue[u]]
    <3>1. e.type = "updated"
      OBVIOUS
    <3> HIDE DEF e
    <3>2. q = Append(to_rib, e)
      BY <2>2 DEF e
    <3> QED BY <2>2, <3>1, <3>2
  <2> QED BY <2>1, <2>2 DEF AgentReports
<1>2. /\ IsASeq(q) /\ DOMAIN q = 1..(Len(to_rib) + 1) /\ Len(to_rib) \in Nat
      /\ DOMAIN to_rib = 1..Len(to_rib)
      /\ \A i \in DOMAIN to_rib : q[i] = to_rib[i]
      /\ q[Len(to_rib) + 1] = e
  BY <1>1, AppendIsASeq DEF RrmIInv, RrmShape
<1> HIDE DEF q
<1>3. RrmShape'
  <2>1. \A i \in DOMAIN q : q[i].type \in {"enb", "updated"}
    BY <1>1, <1>2 DEF RrmIInv, RrmShape
  <2>2. dirty' \in BOOLEAN
    BY DEF AgentReports, RrmIInv, RrmShape
  <2> QED BY <1>0, <1>2, <2>1, <2>2 DEF RrmIInv, RrmShape, q
<1>4. NoOverlap'
  BY <1>0 DEF RrmIInv, NoOverlap
<1>5. ASSUME careful PROVE OneChange'
  <2> USE <1>5
  <2>1. \A c : SafeFor(c) => \A d \in Dir : c[d].algorithm = "Static" =>
                               Disjoint(Configured(agent'[d], c[d]).slices)
    BY <1>0 DEF SafeFor
  <2>2. CASE e.type = "enb" /\ e.config = agent /\ dirty /\ ~ dirty'
    <3>1. /\ \A i \in DOMAIN to_agent : ~ ChangesSlices(to_agent[i])
          /\ \A k \in DOMAIN to_rib : to_rib[k].type # "enb"
      BY <2>2 DEF RrmIInv, OneChange
    <3>2. \A k \in DOMAIN q : q[k].type = "enb" => k = Len(to_rib) + 1
      BY <1>2, <3>1
    <3>3. ~ \A k \in DOMAIN q : q[k].type # "enb"
      BY <1>2, <2>2
    <3> QED BY <1>0, <1>2, <2>2, <3>1, <3>2, <3>3 DEF OneChange, ChangesSlices, q
  <2>3. CASE e.type = "updated" /\ dirty' = dirty
    <3>1. \A k \in DOMAIN q : q[k].type = "enb" => k \in DOMAIN to_rib /\ q[k] = to_rib[k]
      BY <1>2, <2>3
    <3>2. \A k \in DOMAIN to_rib : k \in DOMAIN q /\ q[k] = to_rib[k]
      BY <1>2
    <3> QED BY <1>0, <2>1, <2>3, <3>1, <3>2
            DEF RrmIInv, OneChange, ChangesSlices, SafeFor, q
  <2> QED BY <1>1, <2>2, <2>3
<1> QED BY <1>0, <1>3, <1>4, <1>5 DEF RrmIInv

\* No slices are concerned.
LEMMA UeIdentifiedIInv ==
  ASSUME RrmIInv, NEW u \in Ue, UeIdentified(u)
  PROVE  RrmIInv'
BY DEF UeIdentified, reportedVars, historyVars, RrmIInv, RrmShape, OneChange, ChangesSlices,
       SafeFor, NoOverlap

(***************************************************************************)
(* The RIB takes a report; that of a UE may send it back to its slice.     *)
(***************************************************************************)
LEMMA HandleReportIInv == RrmIInv /\ HandleReport => RrmIInv'
<1> SUFFICES ASSUME RrmIInv, HandleReport PROVE RrmIInv'
  OBVIOUS
<1> DEFINE m == Head(to_rib)
           q == to_rib'
<1>1. /\ m = to_rib[1] /\ 1 \in DOMAIN to_rib
      /\ IsASeq(q) /\ DOMAIN to_rib = 1..Len(to_rib) /\ Len(to_rib) \in Nat
      /\ DOMAIN q = 1..(Len(to_rib) - 1)
      /\ \A i \in DOMAIN q : q[i] = to_rib[i + 1]
  BY TailIsASeq DEF RrmIInv, RrmShape, HandleReport
<1>2. /\ \A i \in DOMAIN q : i + 1 \in DOMAIN to_rib /\ i + 1 # 1 /\ q[i] = to_rib[i + 1]
      /\ \A i \in DOMAIN to_rib : i # 1 => i - 1 \in DOMAIN q /\ q[i - 1] = to_rib[i]
  BY <1>1
<1>3. UNCHANGED <<agent, dirty, careful>>
  BY DEF HandleReport, agentVars, historyVars
<1>4. /\ \/ m.type = "enb" /\ slice_config' = m.config
         \/ m.type = "updated" /\ UNCHANGED slice_config
      /\ \/ UNCHANGED to_agent
         \/ \E c : c.type = "ues" /\ to_agent' = Append(to_agent, c)
  <2>1. CASE m.type = "enb" /\ slice_config' = m.config /\ UNCHANGED to_agent
    BY <2>1
  <2>2. ASSUME m.type = "updated", UNCHANGED slice_config,
               ue_add_update_slice_assoc(m.ue, m.config), ~ UNCHANGED to_agent
        PROVE  \E c : c.type = "ues" /\ to_agent' = Append(to_agent, c)
    <3> DEFINE c == [type |-> "ues",
                     ues |-> [v \in {m.ue} |-> [d \in Dir |-> Target(m.ue, m.config, d)]]]
    <3>1. to_agent' = Append(to_agent, c)
      BY <2>2 DEF ue_add_update_slice_assoc
    <3>2. c.type = "ues"
      OBVIOUS
    <3> QED BY <3>1, <3>2
  <2> QED BY <2>1, <2>2 DEF HandleReport
<1> HIDE DEF m, q
<1>9. /\ IsASeq(to_agent')
      /\ \A i \in DOMAIN to_agent' : to_agent'[i].type \in {"slices", "remove", "ues"}
      /\ NoNewChange
  <2>1. CASE UNCHANGED to_agent
    BY <2>1 DEF RrmIInv, RrmShape, NoNewChange
  <2>2. ASSUME NEW c, c.type = "ues", to_agent' = Append(to_agent, c)
        PROVE  /\ IsASeq(to_agent')
               /\ \A i \in DOMAIN to_agent' : to_agent'[i].type \in {"slices", "remove", "ues"}
               /\ NoNewChange
    <3>1. IsASeq(to_agent)
      BY DEF RrmIInv, RrmShape
    <3>2. /\ IsASeq(Append(to_agent, c))
          /\ DOMAIN Append(to_agent, c) = 1..(Len(to_agent) + 1)
          /\ Len(to_agent) \in Nat /\ DOMAIN to_agent = 1..Len(to_agent)
          /\ \A i \in DOMAIN to_agent : Append(to_agent, c)[i] = to_agent[i]
          /\ Append(to_agent, c)[Len(to_agent) + 1] = c
      BY <3>1, AppendIsASeq
    <3>3. \A i \in DOMAIN to_agent' :
            \/ i \in DOMAIN to_agent /\ to_agent'[i] = to_agent[i]
            \/ to_agent'[i] = c
      BY <2>2, <3>2
    <3> QED BY <2>2, <3>2, <3>3 DEF RrmIInv, RrmShape, NoNewChange, ChangesSlices
  <2> QED BY <1>4, <2>1, <2>2
<1>5. RrmShape'
  BY <1>1, <1>2, <1>3, <1>9 DEF RrmIInv, RrmShape, q
<1>6. NoOverlap'
  BY <1>3 DEF RrmIInv, NoOverlap
<1>7. ASSUME careful PROVE OneChange'
  <2> USE <1>7
  <2>1. \A i \in DOMAIN to_agent' : ChangesSlices(to_agent'[i]) =>
          i \in DOMAIN to_agent /\ to_agent'[i] = to_agent[i]
    BY <1>9 DEF NoNewChange
  <2>2. \A c : SafeFor(c) => \A d \in Dir : c[d].algorithm = "Static" =>
                               Disjoint(Configured(agent'[d], c[d]).slices)
    BY <1>3 DEF SafeFor
  <2>3. CASE m.type = "enb"
    <3>1. slice_config' = agent /\ ~ dirty
      BY <1>1, <1>4, <2>3 DEF RrmIInv, OneChange
    <3>2. \A k \in DOMAIN q : q[k].type # "enb"
      BY <1>1, <1>2, <2>3 DEF RrmIInv, OneChange
    <3>3. \A i \in DOMAIN to_agent : ~ ChangesSlices(to_agent[i])
      BY <1>1, <2>3 DEF RrmIInv, OneChange
    <3> QED BY <1>3, <2>1, <3>1, <3>2, <3>3 DEF OneChange, ChangesSlices, q
  <2>4. CASE m.type = "updated"
    <3>1. UNCHANGED slice_config
      BY <1>4, <2>4
    <3>2. (\A k \in DOMAIN q : q[k].type # "enb") <=> (\A k \in DOMAIN to_rib : to_rib[k].type # "enb")
      BY <1>1, <1>2, <2>4
    <3>3. \A k, l \in DOMAIN q : q[k].type = "enb" /\ q[l].type = "enb" => k = l
      BY <1>1, <1>2 DEF RrmIInv, OneChange
    <3>4. \A k \in DOMAIN q : q[k].type = "enb" => q[k].config = agent
      BY <1>2 DEF RrmIInv, OneChange
    <3>5. \A i, j \in DOMAIN to_agent' :
            ChangesSlices(to_agent'[i]) /\ ChangesSlices(to_agent'[j]) => i = j
      BY <2>1 DEF RrmIInv, OneChange
    <3>6. \A i \in DOMAIN to_agent' : ChangesSlices(to_agent'[i]) =>
             ~ dirty /\ (\A k \in DOMAIN to_rib : to_rib[k].type # "enb")
      BY <2>1 DEF RrmIInv, OneChange
    <3>7. \A i \in DOMAIN to_agent' : to_agent'[i].type = "slices" => SafeFor(to_agent[i].config)'
      BY <2>1, <2>2 DEF RrmIInv, OneChange, ChangesSlices, SafeFor
    <3> QED BY <1>3, <3>1, <3>2, <3>3, <3>4, <3>5, <3>6, <3>7
            DEF RrmIInv, OneChange, ChangesSlices, q
  <2> QED BY <1>1, <2>3, <2>4 DEF RrmIInv, RrmShape
<1> QED BY <1>3, <1>5, <1>6, <1>7 DEF RrmIInv

(***************************************************************************)
(* A call that sends nothing, or associates UEs only.                      *)
(***************************************************************************)
LEMMA CallWithoutChange ==
  ASSUME RrmIInv, UNCHANGED <<agent, dirty, to_rib, slice_config>>,
         careful' \in BOOLEAN, careful' => careful,
         NEW ms, IsASeq(ms), \A i \in DOMAIN ms : ms[i].type = "ues",
         to_agent' = to_agent \o ms
  PROVE  RrmIInv'
<1>1. /\ \A i \in DOMAIN to_agent' : to_agent'[i].type \in {"slices", "remove", "ues"}
      /\ NoNewChange
  BY SentCommands DEF RrmIInv, RrmShape, NoNewChange, ChangesSlices
<1>2. IsASeq(to_agent')
  <2>1. IsASeq(to_agent)
    BY DEF RrmIInv, RrmShape
  <2> QED BY <2>1, ConcatIsASeq
<1>3. RrmShape'
  BY <1>1, <1>2 DEF RrmIInv, RrmShape
<1>4. careful' => OneChange'
  BY <1>1, NoNewChangeKeeps DEF RrmIInv
<1>5. NoOverlap'
  BY DEF RrmIInv, NoOverlap
<1> QED BY <1>3, <1>4, <1>5 DEF RrmIInv

\* Nothing is sent.
LEMMA CallWithoutCommand ==
  ASSUME RrmIInv, UNCHANGED <<agent, dirty, to_agent, to_rib, slice_config>>,
         careful' \in BOOLEAN, careful' => careful
  PROVE  RrmIInv'
BY DEF RrmIInv, RrmShape, OneChange, ChangesSlices, SafeFor, NoOverlap

(***************************************************************************)
(* A call that sends a change of the slices: if it waited for the report   *)
(* of the one before, it is the only one.                                  *)
(***************************************************************************)
LEMMA CallWithChange ==
  ASSUME RrmIInv, UNCHANGED <<agent, dirty, to_rib, slice_config>>,
         careful' \in BOOLEAN, careful' => careful /\ Settled,
         NEW ms, IsASeq(ms), 1 \in DOMAIN ms, \A i \in DOMAIN ms \ {1} : ms[i].type = "ues",
         ms[1].type \in {"slices", "remove"},
         careful' /\ ms[1].type = "slices" => SafeFor(ms[1].config),
         to_agent' = to_agent \o ms
  PROVE  RrmIInv'
<1> DEFINE q == to_agent'
<1>1. \A i \in DOMAIN q : \/ i \in DOMAIN to_agent /\ q[i] = to_agent[i]
                          \/ \E k \in DOMAIN ms : i = Len(to_agent) + k /\ q[i] = ms[k]
  BY SentCommands DEF RrmIInv
<1> HIDE DEF q
<1>2. IsASeq(q)
  <2>1. IsASeq(to_agent)
    BY DEF RrmIInv, RrmShape
  <2> QED BY <2>1, ConcatIsASeq DEF q
<1>3. RrmShape'
  <2>1. \A i \in DOMAIN q : q[i].type \in {"slices", "remove", "ues"}
    BY <1>1 DEF RrmIInv, RrmShape
  <2> QED BY <1>2, <2>1 DEF RrmIInv, RrmShape, q
<1>4. NoOverlap'
  BY DEF RrmIInv, NoOverlap
<1>5. ASSUME careful' PROVE OneChange'
  <2>1. /\ careful /\ ~ dirty
        /\ \A i \in DOMAIN to_agent : to_agent[i].type = "ues"
        /\ \A k \in DOMAIN to_rib : to_rib[k].type = "updated"
    BY <1>5 DEF Settled
  <2>2. slice_config = agent
    BY <2>1 DEF RrmIInv, OneChange
  <2>3. \A i \in DOMAIN q : ChangesSlices(q[i]) => i = Len(to_agent) + 1 /\ q[i] = ms[1]
    BY <1>1, <2>1 DEF ChangesSlices
  <2>4. \A i \in DOMAIN q : q[i].type = "slices" => SafeFor(to_agent[i].config)'
    <3>1. ms[1].type = "slices" => SafeFor(ms[1].config)
      BY <1>5
    <3> QED BY <2>3, <3>1 DEF ChangesSlices, SafeFor, q
  <2>5. \A i, j \in DOMAIN q : ChangesSlices(q[i]) /\ ChangesSlices(q[j]) => i = j
    BY <2>3
  <2> QED BY <2>1, <2>2, <2>4, <2>5 DEF OneChange, ChangesSlices, q
<1> QED BY <1>3, <1>4, <1>5 DEF RrmIInv

\* What apply_slice_config_policy() and the removal push: one command, or the change
\* followed by associations.
LEMMA OneOrTwoCommands ==
  ASSUME NEW a, NEW b, NEW second, second = <<b>> \/ second = <<>>
  PROVE  /\ IsASeq(<<a>> \o second) /\ 1 \in DOMAIN (<<a>> \o second)
         /\ (<<a>> \o second)[1] = a
         /\ \A i \in DOMAIN (<<a>> \o second) \ {1} : (<<a>> \o second)[i] = b
<1>1. IsASeq(<<a>>) /\ IsASeq(second)
  BY TuplesAreSeqs, EmptyIsASeq
<1>2. IsASeq(<<a>> \o second)
  BY <1>1, ConcatIsASeq
<1>3. <<a>> \in Seq({a, b}) /\ second \in Seq({a, b})
  <2>1. <<a>> \in Seq({a, b}) /\ <<b>> \in Seq({a, b}) /\ <<>> \in Seq({a, b})
    OBVIOUS
  <2> QED BY <2>1
<1>4. Len(<<a>>) = 1 /\ Len(second) \in {0, 1} /\ \A k \in 1..Len(second) : second[k] = b
  OBVIOUS
<1>5. /\ DOMAIN (<<a>> \o second) = 1..(1 + Len(second))
      /\ (<<a>> \o second)[1] = a
  BY <1>3, <1>4
<1>6. ASSUME NEW i \in DOMAIN (<<a>> \o second), i # 1 PROVE (<<a>> \o second)[i] = b
  <2>1. i = 2 /\ Len(second) = 1
    BY <1>4, <1>5, <1>6
  <2>2. (<<a>> \o second)[2] = second[1]
    BY <1>3, <1>4, <2>1
  <2> QED BY <1>4, <2>1, <2>2
<1> QED BY <1>2, <1>4, <1>5, <1>6

\* POST /slice: what is accepted was checked against the report that came last.
LEMMA ApplySliceConfigIInv ==
  ASSUME RrmIInv, NEW request \in SliceRequests, ApplySliceConfig(request)
  PROVE  RrmIInv'
<1> DEFINE new == [d \in Dir |-> Completed(request[d], slice_config[d])]
           plain == [d \in Dir |-> [algorithm |-> new[d].algorithm, slices |-> new[d].slices]]
           change == \E d \in Dir : new[d].algorithm # slice_config[d].algorithm
           cmd == [type |-> "slices", config |-> plain]
           assoc == [type |-> "ues", ues |-> Associations(new)]
           ms == <<cmd>> \o IF change /\ Ue # {} THEN <<assoc>> ELSE <<>>
<1>1. UNCHANGED <<agent, dirty, to_rib, slice_config>>
  BY DEF ApplySliceConfig, Call, agentVars, reportedVars
<1>2. CASE UNCHANGED <<to_agent, careful>>
  BY <1>1, <1>2, CallWithoutCommand DEF RrmIInv, RrmShape
<1>3. CASE /\ \A d \in Dir : MayPass(new[d], slice_config[d])
           /\ to_agent' = to_agent \o ms
           /\ careful' = /\ careful /\ Settled
                         /\ \A d \in Dir : \A i \in Slices(new[d]) : new[d].slices[i] # Label
                         /\ \A d \in Dir :
                              new[d].algorithm = "Static" => ~ Overruns(new[d], slice_config[d])
  <2> HIDE DEF new
  <2>1. /\ IsASeq(ms) /\ 1 \in DOMAIN ms /\ ms[1] = cmd
        /\ \A i \in DOMAIN ms \ {1} : ms[i] = assoc
    <3> DEFINE second == IF change /\ Ue # {} THEN <<assoc>> ELSE <<>>
    <3> HIDE DEF cmd, assoc
    <3>1. second = <<assoc>> \/ second = <<>>
      OBVIOUS
    <3> HIDE DEF second
    <3>2. /\ IsASeq(<<cmd>> \o second) /\ 1 \in DOMAIN (<<cmd>> \o second)
          /\ (<<cmd>> \o second)[1] = cmd
          /\ \A i \in DOMAIN (<<cmd>> \o second) \ {1} : (<<cmd>> \o second)[i] = assoc
      BY <3>1, OneOrTwoCommands
    <3> QED BY <3>2 DEF second
  <2>2. careful' => SafeFor(plain)
    <3>1. SUFFICES ASSUME careful, Settled, NEW d \in Dir, new[d].algorithm = "Static",
                          \A i \in Slices(new[d]) : new[d].slices[i] # Label,
                          ~ Overruns(new[d], slice_config[d])
                   PROVE  Disjoint(Configured(agent[d], plain[d]).slices)
      BY <1>3 DEF SafeFor
    <3>2. slice_config = agent
      BY <3>1 DEF Settled, RrmIInv, OneChange
    <3>3. VerifyStatic(new[d], agent[d])
      BY <1>3, <3>1, <3>2 DEF MayPass
    <3>4. plain[d].slices = new[d].slices
      OBVIOUS
    <3> HIDE DEF plain
    <3> QED BY <3>1, <3>3, <3>4, VerifiedIsDisjoint
  <2>3. cmd.type = "slices" /\ cmd.config = plain /\ assoc.type = "ues"
    OBVIOUS
  <2>4. careful' \in BOOLEAN /\ (careful' => careful /\ Settled)
    BY <1>3 DEF RrmIInv, RrmShape
  <2>5. to_agent' = to_agent \o ms
    BY <1>3
  <2> HIDE DEF ms, cmd, assoc, plain
  <2> QED BY <1>1, <2>1, <2>2, <2>3, <2>4, <2>5, CallWithChange
<1>4. \/ UNCHANGED <<to_agent, careful>>
      \/ /\ \A d \in Dir : MayPass(new[d], slice_config[d])
         /\ to_agent' = to_agent \o ms
         /\ careful' = /\ careful /\ Settled
                       /\ \A d \in Dir : \A i \in Slices(new[d]) : new[d].slices[i] # Label
                       /\ \A d \in Dir :
                            new[d].algorithm = "Static" => ~ Overruns(new[d], slice_config[d])
  BY DEF ApplySliceConfig, Refuse, Send
<1> QED BY <1>2, <1>3, <1>4

\* Every call.
LEMMA RestCallIInv == RrmIInv /\ RestCall => RrmIInv'
<1> SUFFICES ASSUME RrmIInv, RestCall PROVE RrmIInv'
  OBVIOUS
<1>1. UNCHANGED <<agent, dirty, to_rib, slice_config>>
  BY DEF RestCall, RefusedCall, ApplySliceConfig, RemoveSlices, ChangeUeSliceAssoc,
         AutoUeSliceAssoc, Call, agentVars, reportedVars
<1>2. CASE UNCHANGED <<to_agent, careful>>
  BY <1>1, <1>2, CallWithoutCommand DEF RrmIInv, RrmShape
<1>3. ASSUME NEW ues, UNCHANGED careful, to_agent' = to_agent \o <<[type |-> "ues", ues |-> ues]>>
      PROVE  RrmIInv'
  <2> DEFINE c == [type |-> "ues", ues |-> ues]
  <2>1. c.type = "ues" /\ to_agent' = to_agent \o <<c>>
    BY <1>3
  <2> HIDE DEF c
  <2>2. IsASeq(<<c>>) /\ \A i \in DOMAIN <<c>> : <<c>>[i].type = "ues"
    BY <2>1, TuplesAreSeqs
  <2> QED BY <1>1, <1>3, <2>1, <2>2, CallWithoutChange DEF RrmIInv, RrmShape
<1>4. CASE RefusedCall
  BY <1>2, <1>4 DEF RefusedCall, Refuse
<1>5. ASSUME NEW r \in SliceRequests, ApplySliceConfig(r) PROVE RrmIInv'
  BY <1>5, ApplySliceConfigIInv
<1>6. ASSUME NEW r \in RemoveRequests, RemoveSlices(r) PROVE RrmIInv'
  <2>1. CASE Refuse /\ UNCHANGED careful
    BY <1>2, <2>1 DEF Refuse
  <2>2. CASE Send(<<[type |-> "remove", ids |-> r.ids]>>) /\ careful' = (careful /\ Settled)
    <3> DEFINE c == [type |-> "remove", ids |-> r.ids]
    <3>1. c.type = "remove" /\ to_agent' = to_agent \o <<c>>
      BY <2>2 DEF Send
    <3>2. careful' \in BOOLEAN /\ (careful' => careful /\ Settled)
      BY <2>2 DEF RrmIInv, RrmShape
    <3> HIDE DEF c
    <3>3. IsASeq(<<c>>) /\ DOMAIN <<c>> = {1} /\ <<c>>[1] = c
      BY TuplesAreSeqs
    <3> DEFINE ms == <<c>>
    <3> HIDE DEF ms
    <3>4. /\ IsASeq(ms) /\ 1 \in DOMAIN ms /\ ms[1].type = "remove" /\ to_agent' = to_agent \o ms
          /\ \A i \in DOMAIN ms \ {1} : ms[i].type = "ues"
      BY <3>1, <3>3 DEF ms
    <3> QED BY <1>1, <3>2, <3>4, CallWithChange
  <2> QED BY <1>6, <2>1, <2>2 DEF RemoveSlices
<1>7. ASSUME NEW r \in AssocRequests, ChangeUeSliceAssoc(r) PROVE RrmIInv'
  <2>1. CASE UNCHANGED <<to_agent, careful>>
    BY <1>2, <2>1
  <2>2. CASE /\ Send(<<[type |-> "ues",
                        ues |-> [v \in {VerifyRntiImsi(r)} |-> [d \in Dir |-> r[d]]]]>>)
             /\ UNCHANGED careful
    BY <1>3, <2>2 DEF Send
  <2> QED BY <1>7, <2>1, <2>2 DEF ChangeUeSliceAssoc, Refuse
<1>8. ASSUME NEW id \in Id, NEW dir, NEW l \in RegexLists, AutoUeSliceAssoc(id, dir, l)
      PROVE  RrmIInv'
  <2>1. UNCHANGED careful
    BY <1>8 DEF AutoUeSliceAssoc
  <2>2. \/ UNCHANGED to_agent
        \/ to_agent' = to_agent \o <<>>
        \/ \E ues : to_agent' = to_agent \o <<[type |-> "ues", ues |-> ues]>>
    BY <1>8 DEF AutoUeSliceAssoc, Send
  <2>3. CASE to_agent' = to_agent \o <<>>
    <3>1. IsASeq(to_agent)
      BY DEF RrmIInv, RrmShape
    <3>2. to_agent \o <<>> = to_agent
      BY <3>1 DEF IsASeq
    <3> QED BY <1>2, <2>1, <2>3, <3>2
  <2> QED BY <1>2, <1>3, <2>1, <2>2, <2>3
<1> QED BY <1>4, <1>5, <1>6, <1>7, <1>8 DEF RestCall

\* Every step.
LEMMA RrmNextIInv == RrmIInv /\ [RrmNext]_rrmVars => RrmIInv'
<1> SUFFICES ASSUME RrmIInv, [RrmNext]_rrmVars PROVE RrmIInv'
  OBVIOUS
<1>1. CASE UNCHANGED rrmVars
  BY <1>1, CallWithoutCommand DEF rrmVars, agentVars, reportedVars, historyVars, RrmIInv, RrmShape
<1>2. ASSUME NEW u \in Ue, NEW d \in Dir, NEW id \in Id, UeJoins(u, d, id) PROVE RrmIInv'
  BY <1>2, CallWithoutCommand DEF UeJoins, reportedVars, historyVars, RrmIInv, RrmShape
<1> QED BY <1>1, <1>2, AgentAppliesIInv, AgentReportsIInv, UeIdentifiedIInv, HandleReportIInv,
           RestCallIInv DEF RrmNext

(***************************************************************************)
(* Slices with static positions never overlap at an agent, for every set   *)
(* of slices, groups, UEs and request bodies, if each change of slices     *)
(* waits for the report of the one before: rrm_management checks a request *)
(* against the slices that were reported last.                             *)
(***************************************************************************)
THEOREM SlicesNeverOverlap == RrmSpec => []NoOverlap
<1>1. RrmIInv => NoOverlap
  BY DEF RrmIInv
<1> QED BY <1>1, RrmInitIInv, RrmNextIInv, PTL DEF RrmSpec
-----------------------------------------------------------------------------
(***************************************************************************)
(* RrmManagement: automatic association                                    *)
(***************************************************************************)

\* A set of numbers has a least one: the library has it for well-founded orders.
LEMMA LeastNumber ==
  ASSUME NEW T, T \subseteq Nat, T # {}
  PROVE  \E x \in T : \A y \in T : x <= y
<1> DEFINE R == OpToRel(<, Nat)
<1>1. \A x, y \in Nat : x < y => <<x, y>> \in R
  BY DEF OpToRel
<1>2. IsWellFoundedOn(R, Nat)
  BY NatLessThanWellFounded
<1> HIDE DEF R
<1>3. \E x \in T : \A y \in T : ~ (<<y, x>> \in R)
  BY <1>2, WFMin
<1>4. PICK x \in T : \A y \in T : ~ (<<y, x>> \in R)
  BY <1>3
<1>5. \A y \in T : ~ (y < x)
  BY <1>1, <1>4
<1>6. \A y \in T : x <= y
  BY <1>5
<1> QED BY <1>6

Joined(a, b) == a \o b
Cats == INSTANCE FoldSteps WITH op <- Joined
FoldCat(base, s) == FoldLeft(\o, base, s)

\* Reports about the UE that are on their way.
Reports(u) == {i \in DOMAIN to_rib : to_rib[i].type = "updated" /\ to_rib[i].ue = u}

\* What the RIB has of a UE, or will have when it has the last report, is so unless the agent
\* still has a change to report.
UesKnown ==
  \A u \in Ue : u \notin dirty_ues =>
    /\ \A i \in Reports(u) : (\A j \in Reports(u) : j <= i) => to_rib[i].config = ue[u]
    /\ Reports(u) = {} => ue_config[u] = ue[u]

\* The slices that lists and reports name are there.
SlicesThere ==
  /\ \A d \in Dir : Slices(slice_config[d]) \subseteq Slices(agent[d])
  /\ \A i \in DOMAIN to_rib : to_rib[i].type = "enb" =>
       \A d \in Dir : Slices(to_rib[i].config[d]) \subseteq Slices(agent[d])
  /\ \A d \in Dir : \A i \in DOMAIN ue_slice[d] : ue_slice[d][i].slice \in Slices(agent[d])

\* The command puts the UE in a slice in which the RIB has it not.
Moves(m, u, d) ==
  m.type = "ues" /\ u \in DOMAIN m.ues /\ m.ues[u][d] \in Slices(agent[d]) \ {ue_config[u][d]}

\* A list has the UE for a slice in which the RIB has it not, but in another.
Differs(u, d) ==
  ue_config[u][d] # Unset /\ \E i \in ListsUe(u, d) : ue_slice[d][i].slice # ue_config[u][d]

\* Something is on its way that will make the RIB ask its lists again.
Coming(u, d) ==
  \/ u \in dirty_ues
  \/ Reports(u) # {}
  \/ \E i \in DOMAIN to_agent : Moves(to_agent[i], u, d)

ListShape ==
  /\ ue = [u \in Ue |-> ue[u]] /\ \A u \in Ue : {"dl", "ul"} \subseteq DOMAIN ue[u]
  /\ ue_config = [u \in Ue |-> ue_config[u]]
  /\ \A d \in Dir : IsASeq(ue_slice[d])
  /\ ue_slice = [d \in Dir |-> ue_slice[d]]
  /\ dropped \in BOOLEAN

ListInv ==
  /\ ListShape
  /\ UesKnown
  /\ ~ dropped =>
       /\ SlicesThere
       /\ \A u \in Ue, d \in Dir : ue_config[u].imsi /\ Differs(u, d) => Coming(u, d)

\* Lists over a set.
LEMMA ListsOver ==
  ASSUME NEW E
  PROVE  /\ <<>> \in Seq(E)
         /\ \A e \in E : <<e>> \in Seq(E)
         /\ \A a, b \in Seq(E) : a \o b \in Seq(E)
<1>1. <<>> \in Seq(E)
  OBVIOUS
<1>2. ASSUME NEW e \in E PROVE <<e>> \in Seq(E)
  OBVIOUS
<1>3. ASSUME NEW a \in Seq(E), NEW b \in Seq(E) PROVE a \o b \in Seq(E)
  OBVIOUS
<1> QED BY <1>1, <1>2, <1>3

\* A list without the entries of one slice has no new ones.
LEMMA OthersWithin ==
  ASSUME NEW p, IsASeq(p), NEW id
  PROVE  Others(p, id) \in Seq({p[i] : i \in DOMAIN p})
<1> DEFINE n == Len(p)
           E == {p[i] : i \in DOMAIN p}
           s == [i \in DOMAIN p |-> IF p[i].slice = id THEN <<>> ELSE <<p[i]>>]
<1>1. n \in Nat /\ DOMAIN p = 1..n
  BY DEF IsASeq
<1>2. DOMAIN s = 1..n
  BY <1>1
<1>3. \A k \in 1..n : s[k] \in Seq(E)
  <2> SUFFICES ASSUME NEW k \in 1..n PROVE s[k] \in Seq(E)
    OBVIOUS
  <2>1. p[k] \in E
    BY <1>1
  <2>2. s[k] = <<>> \/ s[k] = <<p[k]>>
    BY <1>1
  <2> HIDE DEF s, E
  <2>3. <<>> \in Seq(E) /\ <<p[k]>> \in Seq(E)
    BY <2>1, ListsOver
  <2> QED BY <2>2, <2>3, Zenon
<1>4. Others(p, id) = FoldCat(<<>>, s)
  BY DEF Others, FoldCat
<1>5. FoldCat(<<>>, s) = Cats!Fold(<<>>, s)
  BY DEF FoldCat, FoldLeft, MapThenFoldSet, Max, Cats!Fold, Cats!Iterates, Joined
<1> HIDE DEF s, n, E
<1>6. PICK h : /\ h[0] = <<>>
               /\ \A k \in 1..n : h[k] = Joined(h[k - 1], s[k])
               /\ Cats!Fold(<<>>, s) = h[n]
  BY <1>1, <1>2, Cats!Steps
<1> DEFINE S == {k \in 0..n : h[k] \in Seq(E)}
<1>7. 0 \in S
  <2>1. <<>> \in Seq(E)
    BY ListsOver
  <2>2. h[0] \in Seq(E)
    BY <1>6, <2>1, Zenon
  <2>3. 0 \in 0..n
    BY <1>1
  <2> QED BY <2>2, <2>3, Zenon
<1>8. ASSUME NEW k \in 1..n, k - 1 \in S PROVE k \in S
  <2>1. h[k - 1] \in Seq(E) /\ s[k] \in Seq(E) /\ h[k] = h[k - 1] \o s[k]
    BY <1>3, <1>6, <1>8 DEF Joined
  <2>2. k \in 0..n
    BY <1>1
  <2>3. h[k] \in Seq(E)
    BY <2>1, ListsOver, Zenon
  <2> QED BY <2>2, <2>3, Zenon
<1>9. n \in S
  <2> HIDE DEF S
  <2>1. 0..n \subseteq S
    BY <1>1, <1>7, <1>8, Cats!UpTo
  <2> QED BY <1>1, <2>1
<1> QED BY <1>4, <1>5, <1>6, <1>9 DEF E

\* A set of positions that is not empty has a last one.
LEMMA LastPosition ==
  ASSUME NEW n \in Nat, NEW T, T \subseteq 1..n, T # {}
  PROVE  \E i \in T : \A j \in T : j <= i
<1> DEFINE N == {m \in 0..n : \A j \in T : j <= m}
<1>1. n \in N /\ N \in SUBSET Nat
  OBVIOUS
<1>2. PICK m \in N : \A k \in N : m <= k
  BY <1>1, LeastNumber
<1>3. m \in 0..n /\ \A j \in T : j <= m
  OBVIOUS
<1> HIDE DEF N
<1>4. ASSUME m \notin T PROVE FALSE
  <2>0. PICK l \in T : l <= m
    BY <1>3
  <2>1. m # 0
    <3>1. l \in 1..n
      OBVIOUS
    <3> QED BY <1>3, <2>0, <3>1
  <2>2. m - 1 \in 0..n /\ ~ (m <= m - 1)
    BY <1>3, <2>1
  <2>3. \A j \in T : j <= m - 1
    BY <1>3, <1>4
  <2>4. m - 1 \in N
    BY <2>2, <2>3 DEF N
  <2> QED BY <1>2, <2>2, <2>4
<1> QED BY <1>3, <1>4

\* For a UE that a list has for another slice than its own, the lists name one of them.
LEMMA TargetFits ==
  ASSUME NEW u, NEW d, IsASeq(ue_slice[d]), NEW assoc, assoc[d] # Unset,
         \E i \in ListsUe(u, d) : ue_slice[d][i].slice # assoc[d]
  PROVE  \E i \in DOMAIN ue_slice[d] :
           Target(u, assoc, d) = ue_slice[d][i].slice /\ Target(u, assoc, d) # assoc[d]
<1> DEFINE fits == {i \in DOMAIN ue_slice[d] : /\ u \in ue_slice[d][i].regex
                                              /\ assoc[d] \notin {Unset, ue_slice[d][i].slice}}
           last == CHOOSE i \in fits : \A j \in fits : j <= i
<1>1. fits # {}
  BY DEF ListsUe
<1>2. Target(u, assoc, d) = ue_slice[d][last].slice
  BY <1>1 DEF Target
<1>3. Len(ue_slice[d]) \in Nat /\ DOMAIN ue_slice[d] = 1..Len(ue_slice[d])
  BY DEF IsASeq
<1>4. fits \subseteq 1..Len(ue_slice[d])
  BY <1>3
<1>5. \E i \in fits : \A j \in fits : j <= i
  <2> HIDE DEF fits
  <2> QED BY <1>1, <1>3, <1>4, LastPosition
<1>6. last \in fits
  <2> HIDE DEF fits
  <2> QED BY <1>5
<1> HIDE DEF last
<1> QED BY <1>2, <1>6

LEMMA ListInitInv == RrmInit => ListInv
<1> SUFFICES ASSUME RrmInit PROVE ListInv
  OBVIOUS
<1>1. IsASeq(<<>>) /\ DOMAIN <<>> = {}
  BY EmptyIsASeq
<1>2. ListShape
  BY <1>1 DEF RrmInit, ListShape
<1>3. \A u \in Ue : Reports(u) = {}
  BY <1>1 DEF RrmInit, Reports
<1>4. UesKnown
  BY <1>3 DEF RrmInit, UesKnown
<1>5. SlicesThere
  BY <1>1 DEF RrmInit, SlicesThere, Slices
<1>6. \A u \in Ue : ~ ue_config[u].imsi
  BY DEF RrmInit
<1> QED BY <1>2, <1>4, <1>5, <1>6 DEF ListInv

\* Commands on their way stay there, whatever is sent after them.
CommandsStay == \A i \in DOMAIN to_agent : i \in DOMAIN to_agent' /\ to_agent'[i] = to_agent[i]

\* A step that only sends.
LEMMA SendingListInv ==
  ASSUME ListInv, UNCHANGED <<agent, ue, dirty_ues, to_rib, slice_config, ue_config, ue_slice, dropped>>,
         CommandsStay
  PROVE  ListInv'
<1>1. ListShape' /\ UesKnown'
  BY DEF ListInv, ListShape, UesKnown, Reports
<1>2. ASSUME ~ dropped PROVE SlicesThere'
  BY <1>2 DEF ListInv, SlicesThere
<1>3. ASSUME ~ dropped, NEW u \in Ue, NEW d \in Dir, ue_config[u].imsi, Differs(u, d)
      PROVE  Coming(u, d)'
  <2>1. Coming(u, d)
    BY <1>3 DEF ListInv
  <2>2. ASSUME NEW i \in DOMAIN to_agent, Moves(to_agent[i], u, d)
        PROVE  Moves(to_agent[i], u, d)'
    BY <2>2 DEF CommandsStay, Moves
  <2> QED BY <2>1, <2>2 DEF Coming, Reports, CommandsStay
<1> QED BY <1>1, <1>2, <1>3 DEF ListInv, Differs, ListsUe

\* A command takes a UE where it says, if the slice is there.
LEMMA MovedThere ==
  ASSUME ListShape, NEW assoc, NEW u \in Ue, NEW d \in Dir, u \in DOMAIN assoc,
         assoc[u][d] \in Slices(agent[d])
  PROVE  Moved(assoc)[u][d] = assoc[u][d]
<1>1. {"dl", "ul"} \subseteq DOMAIN ue[u]
  BY DEF ListShape
<1>2. d = "dl" \/ d = "ul"
  BY DEF Dir
<1> QED BY <1>1, <1>2 DEF Moved

\* The agent takes a command: what it changes it will report.
LEMMA AgentAppliesListInv ==
  ASSUME RrmShape, ListInv, AgentApplies
  PROVE  ListInv'
<1> DEFINE m == Head(to_agent)
<1>1. /\ m = to_agent[1] /\ 1 \in DOMAIN to_agent
      /\ DOMAIN to_agent = 1..Len(to_agent) /\ Len(to_agent) \in Nat
      /\ DOMAIN to_agent' = 1..(Len(to_agent) - 1)
      /\ \A i \in DOMAIN to_agent' : to_agent'[i] = to_agent[i + 1]
  BY TailIsASeq DEF RrmShape, AgentApplies
<1>2. /\ dirty_ues' = dirty_ues \cup {u \in Ue : ue'[u] # ue[u]}
      /\ dropped' = (dropped \/ \E d \in Dir : ~ Slices(agent[d]) \subseteq Slices(agent'[d]))
      /\ UNCHANGED <<to_rib, slice_config, ue_config, ue_slice>>
      /\ m.type = "ues" => ue' = Moved(m.ues)
      /\ m.type # "ues" => ue' = Reassociated(agent')
  BY DEF AgentApplies, reportedVars
<1> HIDE DEF m
<1>3. ListShape'
  <2>1. ue' = [u \in Ue |-> ue'[u]] /\ \A u \in Ue : {"dl", "ul"} \subseteq DOMAIN ue'[u]
    <3>1. CASE m.type = "ues"
      BY <1>2, <3>1 DEF Moved, ListInv, ListShape
    <3>2. CASE m.type # "ues"
      BY <1>2, <3>2 DEF Reassociated, ListInv, ListShape
    <3> QED BY <3>1, <3>2
  <2> QED BY <1>2, <2>1 DEF ListInv, ListShape
<1>4. \A u \in Ue : u \notin dirty_ues' => u \notin dirty_ues /\ ue'[u] = ue[u]
  BY <1>2
<1>5. UesKnown'
  BY <1>2, <1>4 DEF ListInv, UesKnown, Reports
<1>6. ASSUME ~ dropped'
      PROVE  ~ dropped /\ \A d \in Dir : Slices(agent[d]) \subseteq Slices(agent'[d])
  BY <1>2, <1>6 DEF ListInv, ListShape
<1>7. ASSUME ~ dropped' PROVE SlicesThere'
  <2>1. SlicesThere
    BY <1>6, <1>7 DEF ListInv
  <2>2. \A d \in Dir : Slices(agent[d]) \subseteq Slices(agent'[d])
    BY <1>6, <1>7
  <2> QED BY <1>2, <2>1, <2>2 DEF SlicesThere, Slices
<1>8. ASSUME ~ dropped', NEW u \in Ue, NEW d \in Dir, ue_config[u].imsi, Differs(u, d)
      PROVE  Coming(u, d)'
  <2>1. Coming(u, d)
    BY <1>6, <1>8 DEF ListInv
  <2>2. CASE u \in dirty_ues \/ Reports(u) # {}
    BY <1>2, <2>2 DEF Coming, Reports
  <2>3. ASSUME NEW i \in DOMAIN to_agent, Moves(to_agent[i], u, d), i # 1
        PROVE  Coming(u, d)'
    <3>1. i - 1 \in DOMAIN to_agent' /\ to_agent'[i - 1] = to_agent[i]
      BY <1>1, <2>3
    <3>2. Moves(to_agent[i - 1], u, d)'
      BY <1>2, <1>6, <1>8, <2>3, <3>1 DEF Moves
    <3> QED BY <3>1, <3>2 DEF Coming
  <2>4. CASE Moves(m, u, d)
    <3>1. ue'[u][d] = m.ues[u][d] /\ m.ues[u][d] # ue_config[u][d]
      BY <1>2, <2>4, MovedThere DEF ListInv, Moves
    <3>2. SUFFICES ASSUME u \notin dirty_ues', Reports(u) = {} PROVE FALSE
      BY <1>2 DEF Coming, Reports
    <3>3. u \notin dirty_ues /\ ue'[u] = ue[u]
      BY <1>4, <3>2
    <3>4. ue_config[u] = ue[u]
      BY <3>2, <3>3 DEF ListInv, UesKnown
    <3> QED BY <3>1, <3>3, <3>4
  <2> QED BY <1>1, <2>1, <2>2, <2>3, <2>4 DEF Coming
<1> QED BY <1>2, <1>3, <1>5, <1>7, <1>8 DEF ListInv, Differs, ListsUe

\* The agent reports: the report of a UE is the last of it, and has what the agent has.
LEMMA AgentReportsListInv ==
  ASSUME RrmShape, ListInv, AgentReports
  PROVE  ListInv'
<1> DEFINE q == to_rib'
<1>1. UNCHANGED <<agent, ue, to_agent, slice_config, ue_config, ue_slice, dropped>>
  BY DEF AgentReports, reportedVars, historyVars
<1>2. CASE dirty_ues' = dirty_ues /\ q = Append(to_rib, [type |-> "enb", config |-> agent])
  <2> DEFINE e == [type |-> "enb", config |-> agent]
  <2>1. e.type = "enb" /\ e.config = agent /\ q = Append(to_rib, e)
    BY <1>2
  <2> HIDE DEF e, q
  <2>2. /\ DOMAIN q = 1..(Len(to_rib) + 1) /\ Len(to_rib) \in Nat /\ DOMAIN to_rib = 1..Len(to_rib)
        /\ \A i \in DOMAIN to_rib : q[i] = to_rib[i]
        /\ q[Len(to_rib) + 1] = e
    BY <2>1, AppendIsASeq DEF RrmShape
  <2>3. \A i \in DOMAIN q : i \in DOMAIN to_rib \/ q[i] = e
    BY <2>2
  <2>4. \A i \in DOMAIN to_rib : i \in DOMAIN q /\ q[i] = to_rib[i]
    BY <2>2
  <2>5. \A u \in Ue : Reports(u)' = Reports(u)
    <3>1. e.type # "updated"
      BY <2>1
    <3> QED BY <2>3, <2>4, <3>1 DEF Reports, q
  <2>6. UesKnown'
    <3> SUFFICES ASSUME NEW u \in Ue, u \notin dirty_ues
                 PROVE  /\ \A i \in Reports(u) : (\A j \in Reports(u) : j <= i) => q[i].config = ue[u]
                        /\ Reports(u) = {} => ue_config[u] = ue[u]
      BY <1>1, <1>2, <2>5 DEF UesKnown, q
    <3>1. \A i \in Reports(u) : q[i] = to_rib[i]
      BY <2>4 DEF Reports
    <3> QED BY <3>1 DEF ListInv, UesKnown
  <2>7. ASSUME ~ dropped PROVE SlicesThere'
    <3>1. SlicesThere
      BY <2>7 DEF ListInv
    <3>2. ASSUME NEW i \in DOMAIN q, q[i].type = "enb", NEW d \in Dir
          PROVE  Slices(q[i].config[d]) \subseteq Slices(agent[d])
      BY <2>1, <2>3, <2>4, <3>1, <3>2 DEF SlicesThere
    <3> QED BY <1>1, <3>1, <3>2 DEF SlicesThere, q
  <2>8. ASSUME NEW u \in Ue, NEW d \in Dir, Coming(u, d) PROVE Coming(u, d)'
    BY <1>1, <1>2, <2>5, <2>8 DEF Coming, Moves
  <2> QED BY <1>1, <2>6, <2>7, <2>8 DEF ListInv, ListShape, Differs, ListsUe
<1>3. ASSUME NEW v \in dirty_ues, dirty_ues' = dirty_ues \ {v},
             q = Append(to_rib, [type |-> "updated", ue |-> v, config |-> ue[v]])
      PROVE  ListInv'
  <2> DEFINE e == [type |-> "updated", ue |-> v, config |-> ue[v]]
  <2>1. e.type = "updated" /\ e.ue = v /\ e.config = ue[v] /\ q = Append(to_rib, e)
    BY <1>3
  <2> HIDE DEF e, q
  <2>2. /\ DOMAIN q = 1..(Len(to_rib) + 1) /\ Len(to_rib) \in Nat /\ DOMAIN to_rib = 1..Len(to_rib)
        /\ \A i \in DOMAIN to_rib : q[i] = to_rib[i]
        /\ q[Len(to_rib) + 1] = e
    BY <2>1, AppendIsASeq DEF RrmShape
  <2>3. \A i \in DOMAIN q : i \in DOMAIN to_rib \/ (i = Len(to_rib) + 1 /\ q[i] = e)
    BY <2>2
  <2>4. \A i \in DOMAIN to_rib : i \in DOMAIN q /\ q[i] = to_rib[i] /\ ~ (Len(to_rib) + 1 <= i)
    BY <2>2
  <2>5. /\ \A u \in Ue : u # v => Reports(u)' = Reports(u)
        /\ Len(to_rib) + 1 \in Reports(v)' /\ Reports(v)' # {}
    <3>1. Len(to_rib) + 1 \in DOMAIN q
      BY <2>2
    <3> QED BY <2>1, <2>2, <2>3, <2>4, <3>1 DEF Reports, q
  <2>6. UesKnown'
    <3>1. ASSUME NEW u \in Ue, u \notin dirty_ues', u # v
          PROVE  /\ \A i \in Reports(u)' : (\A j \in Reports(u)' : j <= i) => q[i].config = ue[u]
                 /\ Reports(u)' = {} => ue_config[u] = ue[u]
      <4>1. u \notin dirty_ues /\ Reports(u)' = Reports(u)
        BY <1>3, <2>5, <3>1
      <4>2. \A i \in Reports(u) : q[i] = to_rib[i]
        BY <2>4 DEF Reports
      <4> QED BY <4>1, <4>2 DEF ListInv, UesKnown
    <3>2. ASSUME NEW i \in Reports(v)', \A j \in Reports(v)' : j <= i
          PROVE  q[i].config = ue[v]
      <4>1. i \in DOMAIN q /\ Len(to_rib) + 1 <= i
        BY <2>5, <3>2 DEF Reports, q
      <4>2. q[i] = e
        BY <2>3, <2>4, <4>1
      <4> QED BY <2>1, <4>2
    <3> QED BY <1>1, <2>5, <3>1, <3>2 DEF UesKnown, q
  <2>7. ASSUME ~ dropped PROVE SlicesThere'
    <3>1. SlicesThere
      BY <2>7 DEF ListInv
    <3>2. ASSUME NEW i \in DOMAIN q, q[i].type = "enb", NEW d \in Dir
          PROVE  Slices(q[i].config[d]) \subseteq Slices(agent[d])
      BY <2>1, <2>3, <2>4, <3>1, <3>2 DEF SlicesThere
    <3> QED BY <1>1, <3>1, <3>2 DEF SlicesThere, q
  <2>8. ASSUME NEW u \in Ue, NEW d \in Dir, Coming(u, d) PROVE Coming(u, d)'
    BY <1>1, <1>3, <2>5, <2>8 DEF Coming, Moves
  <2> QED BY <1>1, <2>6, <2>7, <2>8 DEF ListInv, ListShape, Differs, ListsUe
<1> QED BY <1>2, <1>3 DEF AgentReports

\* The network finds out who a UE is, which is to be reported.
LEMMA UeIdentifiedListInv ==
  ASSUME ListInv, NEW v \in Ue, UeIdentified(v)
  PROVE  ListInv'
<1>1. /\ UNCHANGED <<agent, to_agent, to_rib, slice_config, ue_config, ue_slice, dropped>>
      /\ ue' = [ue EXCEPT ![v].imsi = TRUE]
      /\ dirty_ues' = dirty_ues \cup {v}
  BY DEF UeIdentified, reportedVars, historyVars
<1>2. ListShape'
  BY <1>1 DEF ListInv, ListShape
<1>3. \A u \in Ue : u \notin dirty_ues' => u \notin dirty_ues /\ ue'[u] = ue[u]
  BY <1>1 DEF ListInv, ListShape
<1>4. UesKnown'
  BY <1>1, <1>3 DEF ListInv, UesKnown, Reports
<1>5. ASSUME ~ dropped PROVE SlicesThere'
  BY <1>1, <1>5 DEF ListInv, SlicesThere
<1>6. ASSUME NEW u \in Ue, NEW d \in Dir, Coming(u, d) PROVE Coming(u, d)'
  BY <1>1, <1>6 DEF Coming, Moves, Reports
<1> QED BY <1>1, <1>2, <1>4, <1>5, <1>6 DEF ListInv, Differs, ListsUe

\* A UE gets a slice, which is to be reported.
LEMMA UeJoinsListInv ==
  ASSUME ListInv, NEW v \in Ue, NEW e \in Dir, NEW id \in Id, UeJoins(v, e, id)
  PROVE  ListInv'
<1>1. /\ UNCHANGED <<agent, to_agent, to_rib, slice_config, ue_config, ue_slice, dropped>>
      /\ ue' = [ue EXCEPT ![v] = [ue[v] EXCEPT ![e] = id]]
      /\ dirty_ues' = dirty_ues \cup {v}
  BY DEF UeJoins, reportedVars, historyVars
<1>2. ListShape'
  BY <1>1 DEF ListInv, ListShape
<1>3. \A u \in Ue : u \notin dirty_ues' => u \notin dirty_ues /\ ue'[u] = ue[u]
  BY <1>1 DEF ListInv, ListShape
<1>4. UesKnown'
  BY <1>1, <1>3 DEF ListInv, UesKnown, Reports
<1>5. ASSUME ~ dropped PROVE SlicesThere'
  BY <1>1, <1>5 DEF ListInv, SlicesThere
<1>6. ASSUME NEW u \in Ue, NEW d \in Dir, Coming(u, d) PROVE Coming(u, d)'
  BY <1>1, <1>6 DEF Coming, Moves, Reports
<1> QED BY <1>1, <1>2, <1>4, <1>5, <1>6 DEF ListInv, Differs, ListsUe

\* The RIB takes a report: for a UE that a list has for another slice, it sends a command.
LEMMA HandleReportListInv ==
  ASSUME RrmShape, ListInv, HandleReport
  PROVE  ListInv'
<1> DEFINE m == Head(to_rib)
           q == to_rib'
<1>1. /\ m = to_rib[1] /\ 1 \in DOMAIN to_rib
      /\ DOMAIN to_rib = 1..Len(to_rib) /\ Len(to_rib) \in Nat
      /\ DOMAIN q = 1..(Len(to_rib) - 1)
      /\ \A i \in DOMAIN q : q[i] = to_rib[i + 1]
  BY TailIsASeq DEF RrmShape, HandleReport
<1>2. UNCHANGED <<agent, ue, dirty_ues, ue_slice, dropped>>
  BY DEF HandleReport, agentVars, historyVars
<1>3. \/ m.type = "enb" /\ slice_config' = m.config /\ UNCHANGED <<ue_config, to_agent>>
      \/ /\ m.type = "updated" /\ UNCHANGED slice_config
         /\ ue_config' = [ue_config EXCEPT ![m.ue] = m.config]
         /\ ue_add_update_slice_assoc(m.ue, m.config)
  BY DEF HandleReport
<1> HIDE DEF m, q
<1>4. /\ \A i \in DOMAIN q : /\ i + 1 \in DOMAIN to_rib /\ i + 1 # 1 /\ q[i] = to_rib[i + 1]
                             /\ \A j \in DOMAIN q : j + 1 <= i + 1 <=> j <= i
      /\ \A i \in DOMAIN to_rib : i # 1 => i - 1 \in DOMAIN q /\ q[i - 1] = to_rib[i] /\ 1 <= i
  BY <1>1
<1>5. CommandsStay
  <2>1. CASE UNCHANGED to_agent
    BY <2>1 DEF CommandsStay
  <2>2. ASSUME NEW c, to_agent' = Append(to_agent, c) PROVE CommandsStay
    <3>1. /\ DOMAIN Append(to_agent, c) = 1..(Len(to_agent) + 1)
          /\ Len(to_agent) \in Nat /\ DOMAIN to_agent = 1..Len(to_agent)
          /\ \A i \in DOMAIN to_agent : Append(to_agent, c)[i] = to_agent[i]
      BY AppendIsASeq DEF RrmShape
    <3> QED BY <2>2, <3>1 DEF CommandsStay
  <2> QED BY <1>3, <2>1, <2>2 DEF ue_add_update_slice_assoc
<1>6. ListShape'
  BY <1>2, <1>3 DEF ListInv, ListShape
<1>7. \A u \in Ue : \/ ue_config'[u] = ue_config[u]
                   \/ (m.type = "updated" /\ u = m.ue)
  BY <1>3 DEF ListInv, ListShape
<1>8. \A u \in Ue : ~ (m.type = "updated" /\ m.ue = u) =>
        1 \notin Reports(u) /\ ue_config'[u] = ue_config[u]
  BY <1>1, <1>7 DEF Reports
<1>9. \A u \in Ue : m.type = "updated" /\ m.ue = u =>
        1 \in Reports(u) /\ ue_config'[u] = to_rib[1].config
  BY <1>1, <1>3 DEF Reports, ListInv, ListShape
<1>10. ASSUME NEW u \in Ue
       PROVE  /\ \A i \in Reports(u)' : i + 1 \in Reports(u)
              /\ \A i \in Reports(u) : i # 1 => i - 1 \in Reports(u)'
              /\ \A i \in Reports(u) : i # 1 => Reports(u)' # {}
  <2>1. /\ \A i \in Reports(u)' : i + 1 \in Reports(u)
        /\ \A i \in Reports(u) : i # 1 => i - 1 \in Reports(u)'
    BY <1>4 DEF Reports, q
  <2>2. ASSUME NEW i \in Reports(u), i # 1 PROVE Reports(u)' # {}
    <3>1. i - 1 \in Reports(u)'
      BY <2>1, <2>2
    <3> QED BY <3>1
  <2> QED BY <2>1, <2>2
<1>11. UesKnown'
  <2> SUFFICES ASSUME NEW u \in Ue, u \notin dirty_ues
               PROVE  /\ \A i \in Reports(u)' : (\A j \in Reports(u)' : j <= i) => q[i].config = ue[u]
                      /\ Reports(u)' = {} => ue_config'[u] = ue[u]
    BY <1>2 DEF UesKnown, q
  <2>1. /\ \A i \in Reports(u) : (\A j \in Reports(u) : j <= i) => to_rib[i].config = ue[u]
        /\ Reports(u) = {} => ue_config[u] = ue[u]
    BY DEF ListInv, UesKnown
  <2>2. ASSUME NEW i \in Reports(u)', \A j \in Reports(u)' : j <= i
        PROVE  q[i].config = ue[u]
    <3>1. i \in DOMAIN q /\ i + 1 \in Reports(u) /\ q[i] = to_rib[i + 1]
      BY <1>4, <1>10 DEF Reports, q
    <3>2. ASSUME NEW j \in Reports(u) PROVE j <= i + 1
      <4>1. j \in DOMAIN to_rib /\ j \in Nat /\ i \in Nat
        BY <1>1, <3>1 DEF Reports
      <4>2. CASE j = 1
        BY <4>1, <4>2
      <4>3. CASE j # 1
        <5>1. j - 1 <= i
          BY <1>10, <2>2, <4>3
        <5> QED BY <4>1, <5>1
      <4> QED BY <4>2, <4>3
    <3> QED BY <2>1, <3>1, <3>2
  <2>3. ASSUME Reports(u)' = {} PROVE ue_config'[u] = ue[u]
    <3>1. \A i \in Reports(u) : i = 1
      BY <1>10, <2>3
    <3>2. CASE m.type = "updated" /\ m.ue = u
      <4>1. 1 \in Reports(u) /\ \A j \in Reports(u) : j <= 1
        BY <1>9, <3>1, <3>2
      <4> QED BY <1>9, <2>1, <3>2, <4>1
    <3>3. CASE ~ (m.type = "updated" /\ m.ue = u)
      <4>1. Reports(u) = {} /\ ue_config'[u] = ue_config[u]
        BY <1>8, <3>1, <3>3
      <4> QED BY <2>1, <4>1
    <3> QED BY <3>2, <3>3
  <2> QED BY <2>2, <2>3
<1>12. ASSUME ~ dropped PROVE SlicesThere'
  <2>1. SlicesThere
    BY <1>12 DEF ListInv
  <2>2. \A d \in Dir : Slices(slice_config'[d]) \subseteq Slices(agent[d])
    BY <1>1, <1>3, <2>1 DEF SlicesThere
  <2>3. ASSUME NEW i \in DOMAIN q, q[i].type = "enb", NEW d \in Dir
        PROVE  Slices(q[i].config[d]) \subseteq Slices(agent[d])
    BY <1>4, <2>1, <2>3 DEF SlicesThere
  <2> QED BY <1>2, <2>1, <2>2, <2>3 DEF SlicesThere, Slices, q
<1>13. ASSUME ~ dropped, NEW u \in Ue, NEW d \in Dir, ue_config'[u].imsi, Differs(u, d)'
       PROVE  Coming(u, d)'
  <2>1. CASE m.type = "updated" /\ m.ue = u
    <3>1. /\ ue_config'[u] = m.config /\ m.config[d] # Unset
          /\ \E i \in ListsUe(u, d) : ue_slice[d][i].slice # m.config[d]
      BY <1>1, <1>2, <1>9, <1>13, <2>1 DEF Differs, ListsUe
    <3>0. IsASeq(ue_slice[d])
      BY DEF ListInv, ListShape
    <3>2. PICK i \in DOMAIN ue_slice[d] :
            Target(u, m.config, d) = ue_slice[d][i].slice /\ Target(u, m.config, d) # m.config[d]
      BY <3>0, <3>1, TargetFits
    <3> DEFINE c == [type |-> "ues",
                     ues |-> [v \in {u} |-> [e \in Dir |-> Target(u, m.config, e)]]]
    <3>3. to_agent' = Append(to_agent, c)
      BY <1>3, <1>13, <2>1, <3>1 DEF ue_add_update_slice_assoc
    <3>4. c.type = "ues" /\ u \in DOMAIN c.ues /\ c.ues[u][d] = Target(u, m.config, d)
      OBVIOUS
    <3> HIDE DEF c
    <3>5. PICK k \in DOMAIN to_agent' : to_agent'[k] = c
      <4>1. Len(to_agent) + 1 \in DOMAIN to_agent' /\ to_agent'[Len(to_agent) + 1] = c
        BY <3>3, AppendIsASeq DEF RrmShape
      <4> QED BY <4>1
    <3>6. Target(u, m.config, d) \in Slices(agent[d])
      BY <1>13, <3>2 DEF ListInv, SlicesThere
    <3>7. Moves(to_agent[k], u, d)'
      BY <1>2, <3>1, <3>2, <3>4, <3>5, <3>6 DEF Moves
    <3> QED BY <3>7 DEF Coming
  <2>2. CASE ~ (m.type = "updated" /\ m.ue = u)
    <3>1. 1 \notin Reports(u) /\ ue_config'[u] = ue_config[u]
      BY <1>8, <2>2
    <3>2. Coming(u, d)
      BY <1>2, <1>13, <3>1 DEF ListInv, Differs, ListsUe
    <3>3. CASE u \in dirty_ues
      BY <1>2, <3>3 DEF Coming
    <3>4. CASE Reports(u) # {}
      <4>1. Reports(u)' # {}
        BY <1>10, <3>1, <3>4
      <4> QED BY <4>1 DEF Coming
    <3>5. ASSUME NEW i \in DOMAIN to_agent, Moves(to_agent[i], u, d)
          PROVE  Coming(u, d)'
      <4>1. i \in DOMAIN to_agent' /\ to_agent'[i] = to_agent[i]
        BY <1>5 DEF CommandsStay
      <4>2. Moves(to_agent[i], u, d)'
        BY <1>2, <3>1, <3>5, <4>1 DEF Moves
      <4> QED BY <4>1, <4>2 DEF Coming
    <3> QED BY <3>2, <3>3, <3>4, <3>5 DEF Coming
  <2> QED BY <2>1, <2>2
<1> QED BY <1>2, <1>6, <1>11, <1>12, <1>13 DEF ListInv

\* Nothing or one command is sent.
LEMMA OneCommandStays ==
  ASSUME RrmShape, NEW c
  PROVE  /\ to_agent' = to_agent \o <<>> => to_agent' = to_agent
         /\ to_agent' = to_agent \o <<c>> => CommandsStay /\ \E k \in DOMAIN to_agent' : to_agent'[k] = c
<1>1. IsASeq(to_agent)
  BY DEF RrmShape
<1>2. to_agent \o <<>> = to_agent
  BY <1>1 DEF IsASeq
<1>3. ASSUME to_agent' = to_agent \o <<c>>
      PROVE  CommandsStay /\ \E k \in DOMAIN to_agent' : to_agent'[k] = c
  <2>1. to_agent' = Append(to_agent, c)
    BY <1>1, <1>3 DEF IsASeq
  <2>2. /\ DOMAIN Append(to_agent, c) = 1..(Len(to_agent) + 1)
        /\ Len(to_agent) \in Nat /\ DOMAIN to_agent = 1..Len(to_agent)
        /\ \A i \in DOMAIN to_agent : Append(to_agent, c)[i] = to_agent[i]
        /\ Append(to_agent, c)[Len(to_agent) + 1] = c
    BY <1>1, AppendIsASeq
  <2>3. Len(to_agent) + 1 \in 1..(Len(to_agent) + 1)
    BY <2>2
  <2> QED BY <2>1, <2>2, <2>3 DEF CommandsStay
<1> QED BY <1>2, <1>3

\* The entries that a call with these regexes adds.
Entries(regex, id) == [i \in DOMAIN regex |-> [regex |-> regex[i], slice |-> id]]

\* A list has entries of before, and of the call.
OldOrEntries(new, p, regex, id) ==
  /\ IsASeq(new)
  /\ \A i \in DOMAIN new : \/ \E j \in DOMAIN p : new[i] = p[j]
                          \/ \E k \in DOMAIN regex : new[i] = [regex |-> regex[k], slice |-> id]

LEMMA NewEntries ==
  ASSUME NEW p, IsASeq(p), NEW id, NEW regex, IsASeq(regex), NEW new,
         new = Others(p, id) \o Entries(regex, id)
  PROVE  OldOrEntries(new, p, regex, id)
<1> DEFINE E == {p[i] : i \in DOMAIN p}
           F == {[regex |-> regex[k], slice |-> id] : k \in DOMAIN regex}
           a == Others(p, id)
           b == [i \in DOMAIN regex |-> [regex |-> regex[i], slice |-> id]]
<1>0. new = a \o b
  BY DEF Entries
<1>1. a \in Seq(E)
  BY OthersWithin
<1>2. b \in Seq(F)
  <2>1. Len(regex) \in Nat /\ DOMAIN regex = 1..Len(regex)
    BY DEF IsASeq
  <2>2. \A i \in 1..Len(regex) : [regex |-> regex[i], slice |-> id] \in F
    BY <2>1
  <2>3. b = [i \in 1..Len(regex) |-> [regex |-> regex[i], slice |-> id]]
    BY <2>1
  <2> HIDE DEF F, b
  <2> QED BY <2>1, <2>2, <2>3
<1> DEFINE G == E \cup F
<1>3. G = E \cup F
  OBVIOUS
<1> HIDE DEF E, F, G, a, b
<1>4. a \in Seq(G) /\ b \in Seq(G)
  BY <1>1, <1>2, <1>3
<1>5. a \o b \in Seq(G)
  BY <1>4
<1>6. IsASeq(a \o b)
  BY <1>5, SeqIsASeq
<1>7. \A i \in DOMAIN (a \o b) : (a \o b)[i] \in G
  BY <1>5
<1>8. \A i \in DOMAIN new : new[i] \in E \/ new[i] \in F
  BY <1>0, <1>3, <1>7
<1>9. IsASeq(new)
  BY <1>0, <1>6
<1>10. \A i \in DOMAIN new : \/ \E j \in DOMAIN p : new[i] = p[j]
                             \/ \E k \in DOMAIN regex : new[i] = [regex |-> regex[k], slice |-> id]
  BY <1>8 DEF E, F
<1> QED BY <1>9, <1>10 DEF OldOrEntries

\* POST /auto_ue_slice_assoc: known UEs of a new list are sent to the slice, the others will be
\* when they are reported.
LEMMA AutoUeSliceAssocListInv ==
  ASSUME RrmShape, ListInv, NEW id \in Id, NEW dir, NEW list \in RegexLists,
         AutoUeSliceAssoc(id, dir, list)
  PROVE  ListInv'
<1> DEFINE regex == ParseImsiReg(list).regex
           known == {u \in Ue : ue_config[u].imsi /\ \E i \in DOMAIN regex : u \in regex[i]}
           c == [type |-> "ues",
                 ues |-> [u \in known |-> [d \in Dir |-> IF Given(dir, d) THEN id ELSE Unset]]]
           new(d) == Others(ue_slice[d], id)
                       \o [i \in DOMAIN regex |-> [regex |-> regex[i], slice |-> id]]
<1>1. UNCHANGED <<agent, ue, dirty_ues, to_rib, slice_config, ue_config, dropped>>
  BY DEF AutoUeSliceAssoc, Call, agentVars, reportedVars
<1>2. CASE UNCHANGED <<to_agent, ue_slice>>
  BY <1>1, <1>2, SendingListInv DEF CommandsStay
<1>3. CASE /\ \A d \in Dir : Given(dir, d) => id \in Slices(slice_config[d])
           /\ ue_slice' = [d \in Dir |-> IF ~ Given(dir, d) THEN ue_slice[d] ELSE new(d)]
           /\ to_agent' = to_agent \o IF known = {} THEN <<>> ELSE <<c>>
  <2>1. IsASeq(regex)
    <3>1. list.tokens \in Seq([well_formed : BOOLEAN, matches : SUBSET Ue])
      BY RegexAssumption
    <3>2. Len(list.tokens) \in Nat /\ DOMAIN list.tokens = 1..Len(list.tokens)
      BY <3>1
    <3>3. regex = [i \in 1..Len(list.tokens) |-> list.tokens[i].matches]
      BY <3>2 DEF ParseImsiReg
    <3> HIDE DEF regex
    <3>4. regex \in Seq({regex[i] : i \in DOMAIN regex})
      BY <3>2, <3>3
    <3> QED BY <3>4 DEF IsASeq
  <2>2. /\ c.type = "ues" /\ DOMAIN c.ues = known
        /\ \A u \in known, d \in Dir : Given(dir, d) => c.ues[u][d] = id
    OBVIOUS
  <2> HIDE DEF regex
  <2>3. ASSUME NEW d \in Dir
        PROVE  /\ IsASeq(ue_slice'[d])
               /\ \A i \in DOMAIN ue_slice'[d] :
                    \/ \E j \in DOMAIN ue_slice[d] : ue_slice'[d][i] = ue_slice[d][j]
                    \/ /\ Given(dir, d)
                       /\ \E k \in DOMAIN regex : ue_slice'[d][i] = [regex |-> regex[k], slice |-> id]
    <3>1. IsASeq(ue_slice[d])
      BY DEF ListInv, ListShape
    <3>2. CASE ~ Given(dir, d)
      <4>1. ue_slice'[d] = ue_slice[d]
        BY <1>3, <3>2
      <4> QED BY <3>1, <4>1
    <3>3. CASE Given(dir, d)
      <4>1. ue_slice'[d] = new(d)
        BY <1>3, <3>3
      <4> DEFINE n == new(d)
      <4>2. n = Others(ue_slice[d], id) \o Entries(regex, id)
        BY DEF Entries
      <4> HIDE DEF n
      <4>3. OldOrEntries(n, ue_slice[d], regex, id)
        BY <2>1, <3>1, <4>2, NewEntries
      <4> HIDE DEF new
      <4>4. ue_slice'[d] = n
        BY <4>1 DEF n
      <4> QED BY <3>3, <4>3, <4>4 DEF OldOrEntries
    <3> QED BY <3>2, <3>3
  <2> HIDE DEF new
  <2>4. ue_slice' = [d \in Dir |-> ue_slice'[d]]
    BY <1>3
  <2>5. ListShape'
    BY <1>1, <2>3, <2>4 DEF ListInv, ListShape
  <2>6. UesKnown'
    BY <1>1 DEF ListInv, UesKnown, Reports
  <2> HIDE DEF c
  <2>7. CommandsStay /\ (known # {} => \E k \in DOMAIN to_agent' : to_agent'[k] = c)
    <3>1. CASE known = {}
      <4>1. to_agent' = to_agent \o <<>>
        BY <1>3, <3>1
      <4>2. to_agent' = to_agent
        BY <4>1, OneCommandStays
      <4> QED BY <3>1, <4>2 DEF CommandsStay
    <3>2. CASE known # {}
      <4>1. to_agent' = to_agent \o <<c>>
        BY <1>3, <3>2
      <4> QED BY <4>1, OneCommandStays
    <3> QED BY <3>1, <3>2
  <2>8. ASSUME ~ dropped, NEW d \in Dir, Given(dir, d) PROVE id \in Slices(agent[d])
    BY <1>3, <2>8 DEF ListInv, SlicesThere
  <2>9. ASSUME ~ dropped PROVE SlicesThere'
    <3>1. SlicesThere
      BY <2>9 DEF ListInv
    <3>2. ASSUME NEW d \in Dir, NEW i \in DOMAIN ue_slice'[d]
          PROVE  ue_slice'[d][i].slice \in Slices(agent[d])
      <4>1. CASE \E j \in DOMAIN ue_slice[d] : ue_slice'[d][i] = ue_slice[d][j]
        BY <3>1, <4>1 DEF SlicesThere
      <4>2. ASSUME Given(dir, d), NEW k \in DOMAIN regex,
                   ue_slice'[d][i] = [regex |-> regex[k], slice |-> id]
            PROVE  ue_slice'[d][i].slice \in Slices(agent[d])
        BY <2>8, <2>9, <4>2
      <4> QED BY <2>3, <3>2, <4>1, <4>2
    <3> QED BY <1>1, <3>1, <3>2 DEF SlicesThere
  <2>10. ASSUME ~ dropped, NEW u \in Ue, NEW d \in Dir, ue_config[u].imsi, Differs(u, d)'
         PROVE  Coming(u, d)'
    <3>1. /\ ue_config[u][d] # Unset
          /\ \E i \in DOMAIN ue_slice'[d] : /\ u \in ue_slice'[d][i].regex
                                            /\ ue_slice'[d][i].slice # ue_config[u][d]
      BY <1>1, <2>10 DEF Differs, ListsUe
    <3>5. PICK i \in DOMAIN ue_slice'[d] : /\ u \in ue_slice'[d][i].regex
                                           /\ ue_slice'[d][i].slice # ue_config[u][d]
      BY <3>1
    <3>2. CASE \E j \in DOMAIN ue_slice[d] : ue_slice'[d][i] = ue_slice[d][j]
      <4>1. Coming(u, d)
        BY <2>10, <3>1, <3>5, <3>2 DEF ListInv, Differs, ListsUe
      <4>2. ASSUME NEW k \in DOMAIN to_agent, Moves(to_agent[k], u, d)
            PROVE  k \in DOMAIN to_agent' /\ Moves(to_agent[k], u, d)'
        BY <1>1, <2>7, <4>2 DEF CommandsStay, Moves
      <4> QED BY <1>1, <4>1, <4>2 DEF Coming, Reports
    <3>3. ASSUME Given(dir, d), NEW k \in DOMAIN regex,
                 ue_slice'[d][i] = [regex |-> regex[k], slice |-> id]
          PROVE  Coming(u, d)'
      <4>1. u \in regex[k] /\ id # ue_config[u][d]
        BY <3>3, <3>5
      <4>2. u \in known
        BY <2>10, <4>1
      <4>3. PICK l \in DOMAIN to_agent' : to_agent'[l] = c
        BY <2>7, <4>2
      <4>4. Moves(to_agent[l], u, d)'
        BY <1>1, <2>2, <2>8, <2>10, <3>3, <4>1, <4>2, <4>3 DEF Moves
      <4> QED BY <4>4 DEF Coming
    <3> QED BY <2>3, <3>2, <3>3
  <2> QED BY <1>1, <2>5, <2>6, <2>9, <2>10 DEF ListInv
<1>4. \/ UNCHANGED <<to_agent, ue_slice>>
      \/ /\ \A d \in Dir : Given(dir, d) => id \in Slices(slice_config[d])
         /\ ue_slice' = [d \in Dir |-> IF ~ Given(dir, d) THEN ue_slice[d] ELSE new(d)]
         /\ to_agent' = to_agent \o IF known = {} THEN <<>> ELSE <<c>>
  BY DEF AutoUeSliceAssoc, Send
<1> QED BY <1>2, <1>3, <1>4

\* Every call.
LEMMA RestCallListInv ==
  ASSUME RrmShape, ListInv, RestCall
  PROVE  ListInv'
<1>1. CASE \E id \in Id, dir \in Dir \cup {"both", "other"}, l \in RegexLists :
             AutoUeSliceAssoc(id, dir, l)
  BY <1>1, AutoUeSliceAssocListInv
<1>2. CASE RefusedCall
  BY <1>2, SendingListInv DEF RefusedCall, Refuse, Call, agentVars, reportedVars, CommandsStay
<1>3. ASSUME UNCHANGED <<agent, ue, dirty_ues, to_rib, slice_config, ue_config, ue_slice, dropped>>,
             \/ UNCHANGED to_agent
             \/ \E ms : IsASeq(ms) /\ to_agent' = to_agent \o ms
      PROVE  ListInv'
  <2>1. CASE UNCHANGED to_agent
    BY <1>3, <2>1, SendingListInv DEF CommandsStay
  <2>2. ASSUME NEW ms, IsASeq(ms), to_agent' = to_agent \o ms PROVE ListInv'
    <3>1. /\ Len(to_agent) \in Nat /\ Len(ms) \in Nat
          /\ DOMAIN to_agent = 1..Len(to_agent)
          /\ DOMAIN (to_agent \o ms) = 1..(Len(to_agent) + Len(ms))
          /\ \A i \in DOMAIN to_agent : (to_agent \o ms)[i] = to_agent[i]
      <4>1. IsASeq(to_agent)
        BY DEF RrmShape
      <4> DEFINE S == {to_agent[k] : k \in DOMAIN to_agent} \cup {ms[k] : k \in DOMAIN ms}
      <4>2. to_agent \in Seq(S) /\ ms \in Seq(S)
        BY <2>2, <4>1 DEF IsASeq
      <4> HIDE DEF S
      <4> QED BY <4>2
    <3>2. CommandsStay
      BY <2>2, <3>1 DEF CommandsStay
    <3> QED BY <1>3, <3>2, SendingListInv
  <2> QED BY <1>3, <2>1, <2>2
<1>4. ASSUME NEW request \in SliceRequests, ApplySliceConfig(request) PROVE ListInv'
  <2> DEFINE d1 == [d \in Dir |-> Completed(request[d], slice_config[d])]
             a == [type |-> "slices", config |-> [d \in Dir |->
                     [algorithm |-> d1[d].algorithm, slices |-> d1[d].slices]]]
             b == [type |-> "ues", ues |-> Associations(d1)]
             change == \E d \in Dir : d1[d].algorithm # slice_config[d].algorithm
             second == IF change /\ Ue # {} THEN <<b>> ELSE <<>>
  <2>1. UNCHANGED <<agent, ue, dirty_ues, to_rib, slice_config, ue_config, ue_slice, dropped>>
    BY <1>4 DEF ApplySliceConfig, Call, Refuse, agentVars, reportedVars
  <2>2. UNCHANGED to_agent \/ to_agent' = to_agent \o (<<a>> \o second)
    BY <1>4 DEF ApplySliceConfig, Refuse, Send
  <2> HIDE DEF a, b, change
  <2>3. second = <<b>> \/ second = <<>>
    OBVIOUS
  <2> HIDE DEF second
  <2>4. IsASeq(<<a>> \o second)
    BY <2>3, OneOrTwoCommands
  <2> QED BY <1>3, <2>1, <2>2, <2>4
<1>5. ASSUME NEW r \in RemoveRequests, RemoveSlices(r) PROVE ListInv'
  <2> DEFINE c == [type |-> "remove", ids |-> r.ids]
  <2>1. UNCHANGED <<agent, ue, dirty_ues, to_rib, slice_config, ue_config, ue_slice, dropped>>
    BY <1>5 DEF RemoveSlices, Call, Refuse, agentVars, reportedVars
  <2>2. UNCHANGED to_agent \/ to_agent' = to_agent \o <<c>>
    BY <1>5 DEF RemoveSlices, Refuse, Send
  <2> HIDE DEF c
  <2>3. IsASeq(<<c>>)
    BY TuplesAreSeqs
  <2> QED BY <1>3, <2>1, <2>2, <2>3
<1>6. ASSUME NEW r \in AssocRequests, ChangeUeSliceAssoc(r) PROVE ListInv'
  <2> DEFINE c == [type |-> "ues", ues |-> [v \in {VerifyRntiImsi(r)} |-> [d \in Dir |-> r[d]]]]
  <2>1. UNCHANGED <<agent, ue, dirty_ues, to_rib, slice_config, ue_config, ue_slice, dropped>>
    BY <1>6 DEF ChangeUeSliceAssoc, Call, Refuse, agentVars, reportedVars
  <2>2. UNCHANGED to_agent \/ to_agent' = to_agent \o <<c>>
    BY <1>6 DEF ChangeUeSliceAssoc, Refuse, Send
  <2> HIDE DEF c
  <2>3. IsASeq(<<c>>)
    BY TuplesAreSeqs
  <2> QED BY <1>3, <2>1, <2>2, <2>3
<1> QED BY <1>1, <1>2, <1>4, <1>5, <1>6 DEF RestCall

\* Every step.
LEMMA RrmNextListInv ==
  RrmIInv /\ ListInv /\ [RrmNext]_rrmVars => ListInv'
<1> SUFFICES ASSUME RrmIInv, ListInv, [RrmNext]_rrmVars PROVE ListInv'
  OBVIOUS
<1>1. RrmShape
  BY DEF RrmIInv
<1>2. CASE UNCHANGED rrmVars
  BY <1>2, SendingListInv DEF rrmVars, agentVars, reportedVars, historyVars, CommandsStay
<1> QED BY <1>1, <1>2, AgentAppliesListInv, AgentReportsListInv, UeIdentifiedListInv,
           UeJoinsListInv, HandleReportListInv, RestCallListInv DEF RrmNext

\* When nothing about a UE is on its way, the RIB has the UE as it is, and no list differs.
LEMMA QuietAgrees == ListInv => QuietInLists
<1> SUFFICES ASSUME ListInv, ~ dropped, NEW u \in Ue, ue[u].imsi, AtRest(u), NEW d \in Dir,
                    ue[u][d] # Unset, NEW i \in ListsUe(u, d), ue[u][d] # ue_slice[d][i].slice
             PROVE  FALSE
  BY DEF QuietInLists, InListedSlice
<1>1. u \notin dirty_ues /\ Reports(u) = {}
  BY DEF AtRest, Reports
<1>2. ue_config[u] = ue[u]
  BY <1>1 DEF ListInv, UesKnown
<1>3. Coming(u, d)
  BY <1>2 DEF ListInv, Differs
<1> QED BY <1>1, <1>3 DEF Coming, AtRest, Moves

(***************************************************************************)
(* A UE that has a slice, and that a list names, is in the slice of the    *)
(* list whenever nothing about it is on its way, for every set of slices,  *)
(* UEs, lists and request bodies: what rrm_management does about a report  *)
(* that comes late, or a command that was overtaken, is enough; and while  *)
(* lists disagree about a UE it is never at rest.                          *)
(***************************************************************************)
THEOREM UesInTheirLists == RrmSpec => []QuietInLists
<1>1. RrmInit => RrmIInv /\ ListInv
  BY RrmInitIInv, ListInitInv
<1>2. (RrmIInv /\ ListInv) /\ [RrmNext]_rrmVars => (RrmIInv /\ ListInv)'
  BY RrmNextIInv, RrmNextListInv
<1> QED BY <1>1, <1>2, QuietAgrees, PTL DEF RrmSpec
-----------------------------------------------------------------------------
(***************************************************************************)
(* RrmManagement: the types                                                *)
(***************************************************************************)
Configs == [Dir -> [algorithm : Algorithm, slices : SliceSets]]
Entry   == [regex : SUBSET Ue, slice : Id]

\* A command for slices has what a request may have, a report what the agent may have.
CommandFits(m) ==
  m.type = "slices" => m.config \in [Dir -> [algorithm : Algorithm, slices : GivenSets]]
ReportFits(m) ==
  /\ m.type = "enb" => m.config \in Configs
  /\ m.type = "updated" => m.ue \in Ue /\ m.config \in Association

RrmTypeInv ==
  /\ RrmTypeOK
  /\ \A i \in DOMAIN to_agent : CommandFits(to_agent[i])
  /\ \A i \in DOMAIN to_rib : ReportFits(to_rib[i])

\* A function is in a set of slices if its domain and its values are.
LEMMA InSliceSets ==
  ASSUME NEW I \in SUBSET Id, NEW f, f = [i \in I |-> f[i]]
  PROVE  /\ (\A i \in I : f[i] \in Range_ \cup {Share}) => f \in SliceSets
         /\ (\A i \in I : f[i] \in Range_ \cup {Share, Label}) => f \in GivenSets
BY DEF SliceSets, GivenSets

LEMMA OfSliceSets ==
  ASSUME NEW f
  PROVE  /\ f \in SliceSets => /\ DOMAIN f \in SUBSET Id /\ f = [i \in DOMAIN f |-> f[i]]
                               /\ \A i \in DOMAIN f : f[i] \in Range_ \cup {Share}
         /\ f \in GivenSets => /\ DOMAIN f \in SUBSET Id /\ f = [i \in DOMAIN f |-> f[i]]
                               /\ \A i \in DOMAIN f : f[i] \in Range_ \cup {Share, Label}
BY DEF SliceSets, GivenSets

\* What the agent makes of a command: slices without positions are not made.
LEMMA ConfiguredFits ==
  ASSUME NEW old \in [algorithm : Algorithm, slices : SliceSets],
         NEW new \in [algorithm : Algorithm, slices : GivenSets]
  PROVE  Configured(old, new) \in [algorithm : Algorithm, slices : SliceSets]
<1> DEFINE given == {i \in Slices(new) : new.slices[i] # Label}
           kept  == IF new.algorithm # old.algorithm THEN {} ELSE Slices(old) \ given
           f == [i \in given \cup kept |-> IF i \in given THEN new.slices[i] ELSE old.slices[i]]
<1>1. /\ Slices(old) \in SUBSET Id /\ \A i \in Slices(old) : old.slices[i] \in Range_ \cup {Share}
      /\ Slices(new) \in SUBSET Id
      /\ \A i \in Slices(new) : new.slices[i] \in Range_ \cup {Share, Label}
  BY OfSliceSets DEF Slices
<1>2. given \cup kept \in SUBSET Id
  BY <1>1
<1>3. \A i \in given \cup kept : f[i] \in Range_ \cup {Share}
  BY <1>1
<1>4. f \in SliceSets
  <2> DEFINE I == given \cup kept
  <2>1. I \in SUBSET Id /\ f = [i \in I |-> f[i]] /\ \A i \in I : f[i] \in Range_ \cup {Share}
    BY <1>2, <1>3
  <2> HIDE DEF I, f
  <2> QED BY <2>1, InSliceSets
<1>5. Configured(old, new) = [algorithm |-> new.algorithm, slices |-> f]
  BY DEF Configured
<1> HIDE DEF f
<1> QED BY <1>4, <1>5

\* What a removal leaves.
LEMMA WithoutFits ==
  ASSUME NEW old \in [algorithm : Algorithm, slices : SliceSets], NEW ids
  PROVE  Without(old, ids) \in [algorithm : Algorithm, slices : SliceSets]
<1> DEFINE I == Slices(old) \ ids
           f == [i \in I |-> old.slices[i]]
<1>1. Slices(old) \in SUBSET Id /\ \A i \in Slices(old) : old.slices[i] \in Range_ \cup {Share}
  BY OfSliceSets DEF Slices
<1>2. I \in SUBSET Id /\ f = [i \in I |-> f[i]] /\ \A i \in I : f[i] \in Range_ \cup {Share}
  BY <1>1
<1>3. Without(old, ids) = [old EXCEPT !.slices = f]
  BY DEF Without
<1> HIDE DEF I, f
<1>4. f \in SliceSets
  BY <1>2, InSliceSets
<1> QED BY <1>3, <1>4

\* Where UEs are after a command: in slices that are there, or in none.
LEMMA PlacesFit ==
  ASSUME NEW cfg \in Configs, agent \in Configs, ue \in [Ue -> Association], NEW assoc
  PROVE  Reassociated(cfg) \in [Ue -> Association] /\ Moved(assoc) \in [Ue -> Association]
<1>1. \A d \in Dir : Slices(cfg[d]) \in SUBSET Id /\ Slices(agent[d]) \in SUBSET Id
  BY OfSliceSets DEF Slices, Configs
<1>2. "dl" \in Dir /\ "ul" \in Dir
  BY DEF Dir
<1>3. ASSUME NEW u \in Ue
      PROVE  [ue[u] EXCEPT !.dl = IF @ \in Slices(cfg["dl"]) THEN @ ELSE Unset,
                           !.ul = IF @ \in Slices(cfg["ul"]) THEN @ ELSE Unset] \in Association
  BY <1>1, <1>2 DEF Association
<1>4. ASSUME NEW u \in Ue, u \in DOMAIN assoc
      PROVE  LET to(d) == IF assoc[u][d] \in Slices(agent[d])
                          THEN assoc[u][d] ELSE ue[u][d]
             IN [ue[u] EXCEPT !.dl = to("dl"), !.ul = to("ul")] \in Association
  BY <1>1, <1>2 DEF Association
<1> QED BY <1>3, <1>4 DEF Reassociated, Moved

LEMMA AgentAppliesTypes ==
  ASSUME RrmShape, RrmTypeInv, AgentApplies
  PROVE  RrmTypeInv'
<1> DEFINE m == Head(to_agent)
<1>1. /\ CommandFits(m)
      /\ \A i \in DOMAIN to_agent' : CommandFits(to_agent'[i])
  <2>1. /\ m = to_agent[1] /\ 1 \in DOMAIN to_agent
        /\ DOMAIN to_agent = 1..Len(to_agent) /\ Len(to_agent) \in Nat
        /\ DOMAIN to_agent' = 1..(Len(to_agent) - 1)
        /\ \A i \in DOMAIN to_agent' : to_agent'[i] = to_agent[i + 1]
    BY TailIsASeq DEF RrmShape, AgentApplies
  <2>2. \A i \in DOMAIN to_agent' : i + 1 \in DOMAIN to_agent
    BY <2>1
  <2> HIDE DEF m
  <2> QED BY <2>1, <2>2 DEF RrmTypeInv
<1>2. agent \in Configs /\ ue \in [Ue -> Association]
  BY DEF RrmTypeInv, RrmTypeOK, Configs
<1>3. agent' \in Configs
  <2>1. CASE m.type = "slices"
    <3>1. \A d \in Dir : Configured(agent[d], m.config[d]) \in [algorithm : Algorithm, slices : SliceSets]
      BY <1>1, <1>2, <2>1, ConfiguredFits DEF CommandFits, Configs
    <3> QED BY <2>1, <3>1 DEF AgentApplies, Configs
  <2>2. CASE m.type = "remove"
    <3>1. \A d \in Dir : Without(agent[d], m.ids[d]) \in [algorithm : Algorithm, slices : SliceSets]
      BY <1>2, WithoutFits DEF Configs
    <3> QED BY <2>2, <3>1 DEF AgentApplies, Configs
  <2>3. CASE m.type \notin {"slices", "remove"}
    BY <1>2, <2>3 DEF AgentApplies
  <2> QED BY <2>1, <2>2, <2>3
<1>4. ue' \in [Ue -> Association]
  <2>1. ue' = Moved(m.ues) \/ ue' = Reassociated(agent')
    BY DEF AgentApplies
  <2> QED BY <1>2, <1>3, <2>1, PlacesFit
<1>5. /\ dirty' \in BOOLEAN /\ dirty_ues' \subseteq Ue /\ dropped' \in BOOLEAN
      /\ UNCHANGED <<to_rib, slice_config, ue_config, ue_slice, calls, answers, careful>>
  BY DEF AgentApplies, reportedVars, RrmTypeInv, RrmTypeOK
<1> QED BY <1>1, <1>3, <1>4, <1>5 DEF RrmTypeInv, RrmTypeOK, Configs

LEMMA AgentReportsTypes ==
  ASSUME RrmShape, RrmTypeInv, AgentReports
  PROVE  RrmTypeInv'
<1>1. /\ UNCHANGED <<agent, ue, to_agent, slice_config, ue_config, ue_slice, calls, answers, careful,
                     dropped>>
      /\ dirty' \in BOOLEAN /\ dirty_ues' \subseteq Ue
  BY DEF AgentReports, reportedVars, historyVars, RrmTypeInv, RrmTypeOK
<1>2. PICK e : to_rib' = Append(to_rib, e) /\ ReportFits(e)
  <2>1. CASE to_rib' = Append(to_rib, [type |-> "enb", config |-> agent])
    <3> DEFINE e == [type |-> "enb", config |-> agent]
    <3>1. ReportFits(e)
      BY DEF ReportFits, RrmTypeInv, RrmTypeOK, Configs
    <3> QED BY <2>1, <3>1
  <2>2. ASSUME NEW u \in dirty_ues,
               to_rib' = Append(to_rib, [type |-> "updated", ue |-> u, config |-> ue[u]])
        PROVE  \E e : to_rib' = Append(to_rib, e) /\ ReportFits(e)
    <3> DEFINE e == [type |-> "updated", ue |-> u, config |-> ue[u]]
    <3>1. ReportFits(e)
      BY DEF ReportFits, RrmTypeInv, RrmTypeOK
    <3> QED BY <2>2, <3>1
  <2> QED BY <2>1, <2>2 DEF AgentReports
<1>3. \A i \in DOMAIN to_rib' : ReportFits(to_rib'[i])
  <2>1. /\ DOMAIN to_rib' = 1..(Len(to_rib) + 1) /\ Len(to_rib) \in Nat /\ DOMAIN to_rib = 1..Len(to_rib)
        /\ \A i \in DOMAIN to_rib : to_rib'[i] = to_rib[i]
        /\ to_rib'[Len(to_rib) + 1] = e
    BY <1>2, AppendIsASeq DEF RrmShape
  <2>2. \A i \in DOMAIN to_rib' : i \in DOMAIN to_rib \/ i = Len(to_rib) + 1
    BY <2>1
  <2> QED BY <1>2, <2>1, <2>2 DEF RrmTypeInv
<1> QED BY <1>1, <1>3 DEF RrmTypeInv, RrmTypeOK

LEMMA HandleReportTypes ==
  ASSUME RrmShape, RrmTypeInv, HandleReport
  PROVE  RrmTypeInv'
<1> DEFINE m == Head(to_rib)
<1>1. /\ ReportFits(m)
      /\ \A i \in DOMAIN to_rib' : ReportFits(to_rib'[i])
  <2>1. /\ m = to_rib[1] /\ 1 \in DOMAIN to_rib
        /\ DOMAIN to_rib = 1..Len(to_rib) /\ Len(to_rib) \in Nat
        /\ DOMAIN to_rib' = 1..(Len(to_rib) - 1)
        /\ \A i \in DOMAIN to_rib' : to_rib'[i] = to_rib[i + 1]
    BY TailIsASeq DEF RrmShape, HandleReport
  <2>2. \A i \in DOMAIN to_rib' : i + 1 \in DOMAIN to_rib
    BY <2>1
  <2> HIDE DEF m
  <2> QED BY <2>1, <2>2 DEF RrmTypeInv
<1>2. slice_config' \in Configs /\ ue_config' \in [Ue -> Association]
  BY <1>1 DEF HandleReport, ReportFits, RrmTypeInv, RrmTypeOK, Configs
<1>3. UNCHANGED <<agent, ue, dirty, dirty_ues, ue_slice, calls, answers, careful, dropped>>
  BY DEF HandleReport, agentVars, historyVars
<1>4. \A i \in DOMAIN to_agent' : CommandFits(to_agent'[i])
  <2>1. CASE to_agent' = to_agent
    BY <2>1 DEF RrmTypeInv
  <2>2. ASSUME NEW ues, to_agent' = Append(to_agent, [type |-> "ues", ues |-> ues])
        PROVE  \A i \in DOMAIN to_agent' : CommandFits(to_agent'[i])
    <3> DEFINE c == [type |-> "ues", ues |-> ues]
    <3>1. CommandFits(c) /\ to_agent' = Append(to_agent, c)
      BY <2>2 DEF CommandFits
    <3> HIDE DEF c
    <3>2. /\ DOMAIN to_agent' = 1..(Len(to_agent) + 1) /\ Len(to_agent) \in Nat
          /\ DOMAIN to_agent = 1..Len(to_agent)
          /\ \A i \in DOMAIN to_agent : to_agent'[i] = to_agent[i]
          /\ to_agent'[Len(to_agent) + 1] = c
      BY <3>1, AppendIsASeq DEF RrmShape
    <3>3. \A i \in DOMAIN to_agent' : i \in DOMAIN to_agent \/ i = Len(to_agent) + 1
      BY <3>2
    <3> QED BY <3>1, <3>2, <3>3 DEF RrmTypeInv
  <2> QED BY <2>1, <2>2 DEF HandleReport, ue_add_update_slice_assoc
<1> QED BY <1>1, <1>2, <1>3, <1>4 DEF RrmTypeInv, RrmTypeOK, Configs

\* Commands that fit, one after the other.
AllFit(q) == IsASeq(q) /\ \A i \in DOMAIN q : CommandFits(q[i])

LEMMA JoinedFit ==
  ASSUME NEW a, AllFit(a), NEW b, AllFit(b)
  PROVE  AllFit(a \o b)
<1>1. IsASeq(a) /\ IsASeq(b)
  BY DEF AllFit
<1> DEFINE S == {a[i] : i \in DOMAIN a} \cup {b[i] : i \in DOMAIN b}
<1>2. a \in Seq(S) /\ b \in Seq(S)
  BY <1>1 DEF IsASeq
<1> DEFINE E == {m \in S : CommandFits(m)}
<1>3. (\A i \in DOMAIN a : a[i] \in E) /\ (\A i \in DOMAIN b : b[i] \in E)
  BY DEF AllFit
<1> HIDE DEF S, E
<1>4. a \in Seq(E) /\ b \in Seq(E)
  BY <1>2, <1>3
<1>5. a \o b \in Seq(E)
  BY <1>4
<1>6. IsASeq(a \o b)
  BY <1>5, SeqIsASeq
<1>7. \A i \in DOMAIN (a \o b) : (a \o b)[i] \in E
  BY <1>5
<1> QED BY <1>6, <1>7 DEF AllFit, E

\* A call: the commands it sends fit, and so do the lists it leaves.
LEMMA CallTypes ==
  ASSUME RrmShape, RrmTypeInv, Call,
         answers' \in {<< 200 >>, << 400 >>, <<400, 200>>, <<400, 400>>}, careful' \in BOOLEAN,
         ue_slice' \in [Dir -> Seq(Entry)],
         NEW ms, AllFit(ms), to_agent' = to_agent \/ to_agent' = to_agent \o ms
  PROVE  RrmTypeInv'
<1>1. AllFit(to_agent)'
  <2>1. AllFit(to_agent)
    BY DEF RrmShape, RrmTypeInv, AllFit
  <2>2. AllFit(to_agent \o ms)
    BY <2>1, JoinedFit
  <2>3. AllFit(to_agent')
    BY <2>1, <2>2
  <2> QED BY <2>3 DEF AllFit
<1>2. /\ calls' \in 0..MaxCalls
      /\ UNCHANGED <<agent, ue, dirty, dirty_ues, to_rib, slice_config, ue_config, dropped>>
  BY RequestAssumption DEF Call, agentVars, reportedVars, RrmTypeInv, RrmTypeOK
<1> QED BY <1>1, <1>2 DEF AllFit, RrmTypeInv, RrmTypeOK, Entry

\* One command is sent.
LEMMA OneFits ==
  ASSUME NEW c, CommandFits(c)
  PROVE  AllFit(<<c>>)
BY TuplesAreSeqs DEF AllFit

\* None is sent.
LEMMA NoneFits == AllFit(<<>>)
BY EmptyIsASeq DEF AllFit

\* POST /slice
LEMMA ApplySliceConfigTypes ==
  ASSUME RrmShape, RrmTypeInv, NEW r \in SliceRequests, ApplySliceConfig(r)
  PROVE  RrmTypeInv'
<1> DEFINE new == [d \in Dir |-> Completed(r[d], slice_config[d])]
           plain(d) == [algorithm |-> new[d].algorithm, slices |-> new[d].slices]
           change == \E d \in Dir : new[d].algorithm # slice_config[d].algorithm
           config == [d \in Dir |-> plain(d)]
           cmd == [type |-> "slices", config |-> config]
           assoc == [type |-> "ues", ues |-> Associations(new)]
           ms == <<cmd>> \o IF change /\ Ue # {} THEN <<assoc>> ELSE <<>>
<1>1. CommandFits(cmd)
  <2>1. ASSUME NEW d \in Dir PROVE plain(d) \in [algorithm : Algorithm, slices : GivenSets]
    <3>1. r[d] \in [algorithm : Algorithm \cup {Keep}, slices : GivenSets, scheduler : BOOLEAN]
      BY RequestAssumption
    <3>2. slice_config[d].algorithm \in Algorithm
      BY DEF RrmTypeInv, RrmTypeOK
    <3>3. /\ Completed(r[d], slice_config[d]).algorithm \in Algorithm
          /\ Completed(r[d], slice_config[d]).slices \in GivenSets
      BY <3>1, <3>2 DEF Completed
    <3> QED BY <3>3
  <2>2. config \in [Dir -> [algorithm : Algorithm, slices : GivenSets]]
    BY <2>1
  <2> HIDE DEF config
  <2> QED BY <2>2 DEF CommandFits
<1>2. CommandFits(assoc)
  BY DEF CommandFits
<1>3. AllFit(ms)
  <2> HIDE DEF cmd, assoc, new, plain, config
  <2>1. AllFit(<<cmd>>) /\ AllFit(<<assoc>>) /\ AllFit(<<>>)
    BY <1>1, <1>2, OneFits, NoneFits
  <2> DEFINE rest == IF change /\ Ue # {} THEN <<assoc>> ELSE <<>>
  <2>2. AllFit(rest)
    BY <2>1
  <2> HIDE DEF rest
  <2>3. AllFit(<<cmd>> \o rest)
    BY <2>1, <2>2, JoinedFit, Zenon
  <2> QED BY <2>3 DEF rest
<1>4. Call /\ ue_slice' = ue_slice /\ answers' \in {<< 200 >>, << 400 >>} /\ careful' \in BOOLEAN
  BY DEF ApplySliceConfig, Refuse, RrmTypeInv, RrmTypeOK
<1>5. to_agent' = to_agent \/ to_agent' = to_agent \o ms
  BY DEF ApplySliceConfig, Refuse, Send
<1>6. ue_slice' \in [Dir -> Seq(Entry)]
  BY <1>4 DEF RrmTypeInv, RrmTypeOK, Entry
<1> HIDE DEF new, plain, change, config, cmd, assoc, ms
<1>7. answers' \in {<< 200 >>, << 400 >>, <<400, 200>>, <<400, 400>>}
  BY <1>4
<1> QED BY <1>3, <1>4, <1>5, <1>6, <1>7, CallTypes

\* Two answers, one after the other.
LEMMA TwoCodes ==
  ASSUME NEW a \in Nat, NEW b \in Nat
  PROVE  <<a>> \o <<b>> = <<a, b>>
<1> DEFINE s == <<a>>
           p == <<a, b>>
           q == Append(s, b)
<1>1. s \in Seq(Nat) /\ Len(s) = 1 /\ s[1] = a
  OBVIOUS
<1>2. p \in Seq(Nat) /\ Len(p) = 2 /\ p[1] = a /\ p[2] = b
  OBVIOUS
<1> HIDE DEF s, p
<1>3. s \o <<b>> = q
  BY <1>1
<1>4. q \in Seq(Nat)
  BY <1>1
<1>5. /\ DOMAIN q = 1..(Len(s) + 1) /\ DOMAIN s = 1..Len(s)
      /\ (\A i \in DOMAIN s : q[i] = s[i]) /\ q[Len(s) + 1] = b
  BY <1>1, SeqIsASeq, AppendIsASeq
<1> HIDE DEF q
<1>6. DOMAIN q = 1..2 /\ q[1] = a /\ q[2] = b
  BY <1>1, <1>5
<1>7. Len(q) = 2
  BY <1>4, <1>6
<1>8. q = p
  BY <1>2, <1>4, <1>6, <1>7
<1> QED BY <1>3, <1>8 DEF s, p

\* POST /auto_ue_slice_assoc
LEMMA AutoUeSliceAssocTypes ==
  ASSUME RrmShape, RrmTypeInv, NEW id \in Id, NEW dir, NEW list \in RegexLists,
         AutoUeSliceAssoc(id, dir, list)
  PROVE  RrmTypeInv'
<1> DEFINE regex == ParseImsiReg(list).regex
           first == IF dir \in Dir \cup {"both"} THEN <<>> ELSE << 400 >>
           new(d) == Others(ue_slice[d], id)
                       \o [i \in DOMAIN regex |-> [regex |-> regex[i], slice |-> id]]
<1>1. IsASeq(regex) /\ \A i \in DOMAIN regex : regex[i] \subseteq Ue
  <2>1. list.tokens \in Seq([well_formed : BOOLEAN, matches : SUBSET Ue])
    BY RegexAssumption
  <2>2. Len(list.tokens) \in Nat /\ DOMAIN list.tokens = 1..Len(list.tokens)
    BY <2>1
  <2>3. regex = [i \in 1..Len(list.tokens) |-> list.tokens[i].matches]
    BY <2>2 DEF ParseImsiReg
  <2>4. \A i \in 1..Len(list.tokens) : list.tokens[i].matches \subseteq Ue
    <3> SUFFICES ASSUME NEW i \in 1..Len(list.tokens) PROVE list.tokens[i].matches \subseteq Ue
      OBVIOUS
    <3> DEFINE S == [well_formed : BOOLEAN, matches : SUBSET Ue]
    <3>1. list.tokens \in Seq(S)
      BY <2>1
    <3> HIDE DEF S
    <3>2. list.tokens[i] \in S
      BY <3>1
    <3> QED BY <3>2 DEF S
  <2> HIDE DEF regex
  <2>5. regex \in Seq({regex[i] : i \in DOMAIN regex})
    BY <2>2, <2>3
  <2> QED BY <2>3, <2>4, <2>5 DEF IsASeq
<1>2. ASSUME NEW d \in Dir PROVE new(d) \in Seq(Entry)
  <2> DEFINE n == new(d)
             p == ue_slice[d]
  <2>1. p \in Seq(Entry)
    BY DEF RrmTypeInv, RrmTypeOK, Entry
  <2>2. n = Others(p, id) \o Entries(regex, id)
    BY DEF Entries
  <2> HIDE DEF n, p, regex
  <2>3. IsASeq(p)
    BY <2>1, SeqIsASeq
  <2>4. OldOrEntries(n, p, regex, id)
    BY <1>1, <2>2, <2>3, NewEntries
  <2>5. ASSUME NEW i \in DOMAIN n PROVE n[i] \in Entry
    <3>1. CASE \E j \in DOMAIN p : n[i] = p[j]
      BY <2>1, <3>1
    <3>2. CASE \E k \in DOMAIN regex : n[i] = [regex |-> regex[k], slice |-> id]
      BY <1>1, <3>2 DEF Entry
    <3> QED BY <2>4, <2>5, <3>1, <3>2 DEF OldOrEntries
  <2>6. n \in Seq({n[i] : i \in DOMAIN n})
    BY <2>4 DEF OldOrEntries, IsASeq
  <2>7. n \in Seq(Entry)
    BY <2>5, <2>6
  <2> QED BY <2>7 DEF n
<1> HIDE DEF regex, new
<1>3. /\ Call /\ UNCHANGED careful
      /\ answers' = first \o << 400 >> \/ answers' = first \o << 200 >>
      /\ \/ UNCHANGED <<to_agent, ue_slice>>
         \/ /\ ue_slice' = [d \in Dir |-> IF ~ Given(dir, d) THEN ue_slice[d] ELSE new(d)]
            /\ \/ to_agent' = to_agent \o <<>>
               \/ \E ues : to_agent' = to_agent \o <<[type |-> "ues", ues |-> ues]>>
  BY DEF AutoUeSliceAssoc, Send, new, regex
<1>4. answers' \in {<< 200 >>, << 400 >>, <<400, 200>>, <<400, 400>>}
  <2>1. CASE first = <<>>
    BY <1>3, <2>1
  <2>2. CASE first = << 400 >>
    <3> DEFINE x == << 400 >> \o << 200 >>
               y == << 400 >> \o << 400 >>
    <3>1. x = <<400, 200>> /\ y = <<400, 400>>
      BY TwoCodes
    <3>2. answers' = x \/ answers' = y
      BY <1>3, <2>2
    <3> HIDE DEF x, y
    <3> QED BY <3>1, <3>2
  <2> QED BY <2>1, <2>2
<1>5. ue_slice' \in [Dir -> Seq(Entry)]
  <2> DEFINE E == Seq(Entry)
  <2>1. ue_slice \in [Dir -> E] /\ \A d \in Dir : new(d) \in E
    BY <1>2 DEF RrmTypeInv, RrmTypeOK, Entry
  <2> HIDE DEF E
  <2>2. ue_slice' \in [Dir -> E]
    BY <1>3, <2>1
  <2> QED BY <2>2 DEF E
<1>6. careful' \in BOOLEAN
  BY <1>3 DEF RrmTypeInv, RrmTypeOK
<1>7. CASE to_agent' = to_agent
  BY <1>3, <1>4, <1>5, <1>6, <1>7, NoneFits, CallTypes
<1>8. CASE to_agent' = to_agent \o <<>>
  <2>1. AllFit(<<>>)
    BY NoneFits
  <2> DEFINE ms == <<>>
  <2> HIDE DEF ms
  <2>2. AllFit(ms) /\ to_agent' = to_agent \o ms
    BY <1>8, <2>1 DEF ms
  <2> QED BY <1>3, <1>4, <1>5, <1>6, <2>2, CallTypes
<1>9. ASSUME NEW ues, to_agent' = to_agent \o <<[type |-> "ues", ues |-> ues]>>
      PROVE  RrmTypeInv'
  <2> DEFINE c == [type |-> "ues", ues |-> ues]
             ms == <<c>>
  <2>1. CommandFits(c) /\ to_agent' = to_agent \o ms
    BY <1>9 DEF CommandFits
  <2> HIDE DEF c
  <2>2. AllFit(ms)
    BY <2>1, OneFits
  <2> HIDE DEF ms
  <2> QED BY <1>3, <1>4, <1>5, <1>6, <2>1, <2>2, CallTypes
<1> QED BY <1>3, <1>7, <1>8, <1>9

\* Every call.
LEMMA RestCallTypes ==
  ASSUME RrmShape, RrmTypeInv, RestCall
  PROVE  RrmTypeInv'
<1>0. ue_slice \in [Dir -> Seq(Entry)] /\ careful \in BOOLEAN
  BY DEF RrmTypeInv, RrmTypeOK, Entry
<1>1. CASE RefusedCall
  <2>1. Call /\ answers' = << 400 >> /\ UNCHANGED <<to_agent, ue_slice, careful>>
    BY <1>1 DEF RefusedCall, Refuse
  <2> QED BY <1>0, <2>1, NoneFits, CallTypes
<1>2. ASSUME NEW r \in RemoveRequests, RemoveSlices(r) PROVE RrmTypeInv'
  <2> DEFINE c == [type |-> "remove", ids |-> r.ids]
             ms == <<c>>
  <2>1. /\ Call /\ ue_slice' = ue_slice /\ answers' \in {<< 200 >>, << 400 >>} /\ careful' \in BOOLEAN
        /\ to_agent' = to_agent \/ to_agent' = to_agent \o ms
    BY <1>0, <1>2 DEF RemoveSlices, Refuse, Send
  <2>2. CommandFits(c)
    BY DEF CommandFits
  <2> HIDE DEF c
  <2>3. AllFit(ms)
    BY <2>2, OneFits
  <2> HIDE DEF ms
  <2> QED BY <1>0, <2>1, <2>3, CallTypes
<1>3. ASSUME NEW r \in AssocRequests, ChangeUeSliceAssoc(r) PROVE RrmTypeInv'
  <2> DEFINE c == [type |-> "ues", ues |-> [v \in {VerifyRntiImsi(r)} |-> [d \in Dir |-> r[d]]]]
             ms == <<c>>
  <2>1. /\ Call /\ ue_slice' = ue_slice /\ answers' \in {<< 200 >>, << 400 >>} /\ careful' = careful
        /\ to_agent' = to_agent \/ to_agent' = to_agent \o ms
    BY <1>3 DEF ChangeUeSliceAssoc, Refuse, Send
  <2>2. CommandFits(c)
    BY DEF CommandFits
  <2> HIDE DEF c
  <2>3. AllFit(ms)
    BY <2>2, OneFits
  <2> HIDE DEF ms
  <2> QED BY <1>0, <2>1, <2>3, CallTypes
<1> QED BY <1>1, <1>2, <1>3, ApplySliceConfigTypes, AutoUeSliceAssocTypes DEF RestCall

(***************************************************************************)
(* The types of slices, associations and lists, in the RIB and at the      *)
(* agent: a slice at the agent has its parameters, a UE is in a slice that *)
(* may be or in none, and no call answers more than twice (rrm_calls,      *)
(* rrm_management).                                                        *)
(***************************************************************************)
THEOREM RrmTypesCorrect == RrmSpec => []RrmTypeOK
<1>1. RrmInit => RrmTypeInv
  <2> SUFFICES ASSUME RrmInit PROVE RrmTypeInv
    OBVIOUS
  <2>1. <<>> \in SliceSets
    <3>1. {} \in SUBSET Id /\ <<>> = [i \in {} |-> <<>>[i]]
      OBVIOUS
    <3> DEFINE f == <<>>
    <3>2. f = [i \in {} |-> f[i]]
      OBVIOUS
    <3> HIDE DEF f
    <3>3. f \in SliceSets
      BY <3>1, <3>2, InSliceSets
    <3> QED BY <3>3 DEF f
  <2>2. agent \in Configs
    BY <2>1 DEF RrmInit, Configs, Algorithm
  <2>3. ue \in [Ue -> Association]
    BY DEF RrmInit, Association
  <2>4. ue_slice \in [Dir -> Seq(Entry)]
    BY DEF RrmInit
  <2>5. 0 \in 0..MaxCalls
    BY RequestAssumption
  <2>6. \A i \in DOMAIN <<>> : FALSE
    OBVIOUS
  <2>7. RrmTypeOK
    BY <2>2, <2>3, <2>4, <2>5 DEF RrmInit, RrmTypeOK, Configs, Entry
  <2> QED BY <2>6, <2>7 DEF RrmInit, RrmTypeInv
<1>2. (RrmIInv /\ RrmTypeInv) /\ [RrmNext]_rrmVars => RrmTypeInv'
  <2> SUFFICES ASSUME RrmShape, RrmTypeInv, [RrmNext]_rrmVars PROVE RrmTypeInv'
    BY DEF RrmIInv
  <2>1. ASSUME NEW u \in Ue, UeIdentified(u) PROVE RrmTypeInv'
    <3>1. ue \in [Ue -> Association] /\ ue' = [ue EXCEPT ![u].imsi = TRUE]
      BY <2>1 DEF UeIdentified, RrmTypeInv, RrmTypeOK
    <3>2. [ue[u] EXCEPT !.imsi = TRUE] \in Association
      BY <3>1 DEF Association
    <3>3. ue' \in [Ue -> Association]
      BY <3>1, <3>2
    <3>4. /\ UNCHANGED <<agent, dirty, to_agent, to_rib, slice_config, ue_config, ue_slice,
                         calls, answers, careful, dropped>>
          /\ dirty_ues' = dirty_ues \cup {u}
      BY <2>1 DEF UeIdentified, reportedVars, historyVars
    <3>5. dirty_ues' \subseteq Ue
      BY <3>4 DEF RrmTypeInv, RrmTypeOK
    <3>6. RrmTypeOK'
      BY <3>3, <3>4, <3>5 DEF RrmTypeInv, RrmTypeOK
    <3> QED BY <3>4, <3>6 DEF RrmTypeInv
  <2>2. ASSUME NEW u \in Ue, NEW d \in Dir, NEW id \in Id, UeJoins(u, d, id) PROVE RrmTypeInv'
    <3>1. ue \in [Ue -> Association] /\ ue' = [ue EXCEPT ![u] = [ue[u] EXCEPT ![d] = id]]
      BY <2>2 DEF UeJoins, RrmTypeInv, RrmTypeOK
    <3>2. [ue[u] EXCEPT ![d] = id] \in Association
      <4>1. ue[u] \in [imsi : BOOLEAN, dl : Id \cup {Unset}, ul : Id \cup {Unset}]
        BY <3>1 DEF Association
      <4>2. d = "dl" \/ d = "ul"
        BY DEF Dir
      <4> QED BY <4>1, <4>2 DEF Association
    <3>3. ue' \in [Ue -> Association]
      BY <3>1, <3>2
    <3>4. /\ UNCHANGED <<agent, dirty, to_agent, to_rib, slice_config, ue_config, ue_slice,
                         calls, answers, careful, dropped>>
          /\ dirty_ues' = dirty_ues \cup {u}
      BY <2>2 DEF UeJoins, reportedVars, historyVars
    <3>5. dirty_ues' \subseteq Ue
      BY <3>4 DEF RrmTypeInv, RrmTypeOK
    <3>6. RrmTypeOK'
      BY <3>3, <3>4, <3>5 DEF RrmTypeInv, RrmTypeOK
    <3> QED BY <3>4, <3>6 DEF RrmTypeInv
  <2>3. CASE UNCHANGED rrmVars
    BY <2>3 DEF rrmVars, agentVars, reportedVars, historyVars, RrmTypeInv, RrmTypeOK
  <2> QED BY <2>1, <2>2, <2>3, AgentAppliesTypes, AgentReportsTypes, HandleReportTypes, RestCallTypes
             DEF RrmNext
<1>3. RrmTypeInv => RrmTypeOK
  BY DEF RrmTypeInv
<1> QED BY <1>1, <1>2, <1>3, RrmInitIInv, RrmNextIInv, PTL DEF RrmSpec
-----------------------------------------------------------------------------
(***************************************************************************)
(* PlmnManagement: MMEs                                                    *)
(***************************************************************************)

\* A command that adds or removes MMEs.
OnMmes(c) == c.type \in {"add", "remove"}

PlmnShape ==
  /\ IsASeq(commands)
  /\ \A i \in DOMAIN commands : commands[i].type \in {"add", "remove", "plmn", "cell"}
  /\ patient \in BOOLEAN /\ mme_clash \in BOOLEAN

\* With patient calls one such command is on its way at most, and the agent can apply it.
OneMmeCommand ==
  /\ ~ mme_clash
  /\ \A i, j \in DOMAIN commands : OnMmes(commands[i]) /\ OnMmes(commands[j]) => i = j
  /\ \A i \in DOMAIN commands :
       /\ commands[i].type = "add" => ~ (commands[i].mmes \subseteq agent_mmes)
       /\ commands[i].type = "remove" => commands[i].mmes \cap agent_mmes # {}

\* A configuration that POST /conf lets through.
Restartable(c) == c \in CellConfigs /\ verify_cell_config_for_restart(c)

CellsVerified ==
  /\ agent_cell = NoCell \/ Restartable(agent_cell)
  /\ \A i \in DOMAIN commands : commands[i].type = "cell" => Restartable(commands[i].cell)

PlmnIInv == PlmnShape /\ (patient => OneMmeCommand) /\ CellsVerified

\* Nothing was sent yet.
LEMMA PlmnInitIInv == PlmnInit => PlmnIInv
<1>1. commands = <<>> => IsASeq(commands) /\ DOMAIN commands = {}
  BY EmptyIsASeq
<1> QED BY <1>1 DEF PlmnInit, PlmnIInv, PlmnShape, OneMmeCommand, CellsVerified

\* A call that sends a command which is not about MMEs.
LEMMA OtherCommandIInv ==
  ASSUME PlmnIInv, NEW c, PlmnCall(c), UNCHANGED patient, c.type \in {"plmn", "cell"},
         c.type = "cell" => Restartable(c.cell)
  PROVE  PlmnIInv'
<1>1. /\ commands' = Append(commands, c)
      /\ UNCHANGED <<agent_mmes, agent_plmns, agent_cell, report, rib_mmes, mme_clash>>
  BY DEF PlmnCall, SendCommand
<1>2. /\ IsASeq(commands') /\ DOMAIN commands' = 1..(Len(commands) + 1)
      /\ Len(commands) \in Nat /\ DOMAIN commands = 1..Len(commands)
      /\ \A i \in DOMAIN commands : commands'[i] = commands[i]
      /\ commands'[Len(commands) + 1] = c
  BY <1>1, AppendIsASeq DEF PlmnIInv, PlmnShape
<1>3. \A i \in DOMAIN commands' : \/ i \in DOMAIN commands /\ commands'[i] = commands[i]
                                  \/ i = Len(commands) + 1 /\ commands'[i] = c
  BY <1>2
<1>4. PlmnShape'
  BY <1>1, <1>2, <1>3 DEF PlmnIInv, PlmnShape
<1>5. ASSUME patient' PROVE OneMmeCommand'
  BY <1>1, <1>3, <1>5 DEF PlmnIInv, OneMmeCommand, OnMmes
<1>6. CellsVerified'
  BY <1>1, <1>3 DEF PlmnIInv, CellsVerified
<1> QED BY <1>4, <1>5, <1>6 DEF PlmnIInv

\* A call that sends a command about an MME: if it waited, it is the only one, and it was
\* checked against what the agent has.
LEMMA MmeCommandIInv ==
  ASSUME PlmnIInv, NEW c, PlmnCall(c), patient' = (patient /\ UpToDate),
         \/ c.type = "add" /\ ~ (c.mmes \subseteq rib_mmes)
         \/ c.type = "remove" /\ c.mmes \cap rib_mmes # {}
  PROVE  PlmnIInv'
<1>1. /\ commands' = Append(commands, c)
      /\ UNCHANGED <<agent_mmes, agent_plmns, agent_cell, report, rib_mmes, mme_clash>>
  BY DEF PlmnCall, SendCommand
<1>2. /\ IsASeq(commands') /\ DOMAIN commands' = 1..(Len(commands) + 1)
      /\ Len(commands) \in Nat /\ DOMAIN commands = 1..Len(commands)
      /\ \A i \in DOMAIN commands : commands'[i] = commands[i]
      /\ commands'[Len(commands) + 1] = c
  BY <1>1, AppendIsASeq DEF PlmnIInv, PlmnShape
<1>3. \A i \in DOMAIN commands' : \/ i \in DOMAIN commands /\ commands'[i] = commands[i]
                                  \/ i = Len(commands) + 1 /\ commands'[i] = c
  BY <1>2
<1>4. PlmnShape'
  BY <1>1, <1>2, <1>3 DEF PlmnIInv, PlmnShape
<1>5. ASSUME patient' PROVE OneMmeCommand'
  <2>1. /\ OneMmeCommand /\ rib_mmes = agent_mmes
        /\ \A i \in DOMAIN commands : ~ OnMmes(commands[i])
    BY <1>5 DEF PlmnIInv, UpToDate, OnMmes
  <2> QED BY <1>1, <1>3, <2>1 DEF OneMmeCommand, OnMmes
<1>6. CellsVerified'
  BY <1>1, <1>3 DEF PlmnIInv, CellsVerified
<1> QED BY <1>4, <1>5, <1>6 DEF PlmnIInv

\* The agent takes a command.
LEMMA BsAppliesIInv == PlmnIInv /\ BsApplies => PlmnIInv'
<1> SUFFICES ASSUME PlmnIInv, BsApplies PROVE PlmnIInv'
  OBVIOUS
<1> DEFINE c == commands[1]
<1>1. /\ IsASeq(commands') /\ DOMAIN commands = 1..Len(commands) /\ Len(commands) \in Nat \ {0}
      /\ DOMAIN commands' = 1..(Len(commands) - 1)
      /\ \A i \in DOMAIN commands' : commands'[i] = commands[i + 1]
      /\ 1 \in DOMAIN commands /\ Head(commands) = c
  BY TailIsASeq DEF PlmnIInv, PlmnShape, BsApplies
<1>2. \A i \in DOMAIN commands' :
        i + 1 \in DOMAIN commands /\ i + 1 # 1 /\ commands'[i] = commands[i + 1]
  BY <1>1
<1>3. /\ UNCHANGED patient
      /\ \/ /\ c.type = "add" /\ agent_cell' = agent_cell
            /\ mme_clash' = (mme_clash \/ c.mmes \subseteq agent_mmes)
         \/ /\ c.type = "remove" /\ agent_cell' = agent_cell
            /\ mme_clash' = (mme_clash \/ c.mmes \cap agent_mmes = {})
         \/ c.type = "plmn" /\ UNCHANGED <<agent_mmes, agent_cell, mme_clash>>
         \/ c.type = "cell" /\ agent_cell' = c.cell /\ UNCHANGED <<agent_mmes, mme_clash>>
  BY <1>1 DEF BsApplies
<1>4. PlmnShape'
  BY <1>1, <1>2, <1>3 DEF PlmnIInv, PlmnShape
<1>5. ASSUME patient' PROVE OneMmeCommand'
  <2>1. OneMmeCommand
    BY <1>3, <1>5 DEF PlmnIInv
  <2>2. \A i, j \in DOMAIN commands' : OnMmes(commands'[i]) /\ OnMmes(commands'[j]) => i = j
    BY <1>1, <1>2, <2>1 DEF OneMmeCommand, OnMmes
  <2>3. CASE c.type \in {"add", "remove"}
    <3>1. \A i \in DOMAIN commands' : ~ OnMmes(commands'[i])
      BY <1>1, <1>2, <2>1, <2>3 DEF OneMmeCommand, OnMmes
    <3>2. ~ mme_clash'
      BY <1>1, <1>3, <2>1, <2>3 DEF OneMmeCommand
    <3> QED BY <2>2, <3>1, <3>2 DEF OneMmeCommand, OnMmes
  <2>4. CASE c.type \in {"plmn", "cell"}
    <3>1. UNCHANGED <<agent_mmes, mme_clash>>
      BY <1>3, <2>4
    <3> QED BY <1>2, <2>1, <2>2, <3>1 DEF OneMmeCommand
  <2> QED BY <1>3, <2>3, <2>4
<1>6. CellsVerified'
  BY <1>1, <1>2, <1>3 DEF PlmnIInv, CellsVerified
<1> QED BY <1>4, <1>5, <1>6 DEF PlmnIInv

\* Every step.
LEMMA PlmnNextIInv == PlmnIInv /\ [PlmnNext]_plmnVars => PlmnIInv'
<1> SUFFICES ASSUME PlmnIInv, [PlmnNext]_plmnVars PROVE PlmnIInv'
  OBVIOUS
<1>1. ASSUME NEW mmes \in SUBSET Mme, add_mme(mmes) PROVE PlmnIInv'
  <2> DEFINE c == [type |-> "add", mmes |-> mmes]
  <2>1. mmes # {}
    BY <1>1, FS_EmptySet DEF add_mme
  <2>2. PlmnCall(c) /\ patient' = (patient /\ UpToDate) /\ c.type = "add"
        /\ ~ (c.mmes \subseteq rib_mmes)
    BY <1>1, <2>1 DEF add_mme
  <2> HIDE DEF c
  <2> QED BY <2>2, MmeCommandIInv
<1>2. ASSUME NEW mmes \in SUBSET Mme, remove_mme(mmes) PROVE PlmnIInv'
  <2> DEFINE c == [type |-> "remove", mmes |-> mmes]
  <2>1. mmes # {}
    BY <1>2, FS_EmptySet DEF remove_mme
  <2>2. PlmnCall(c) /\ patient' = (patient /\ UpToDate) /\ c.type = "remove"
        /\ c.mmes \cap rib_mmes # {}
    BY <1>2, <2>1 DEF remove_mme
  <2> HIDE DEF c
  <2> QED BY <2>2, MmeCommandIInv
<1>3. ASSUME NEW plmns \in PlmnLists, change_plmn(plmns) PROVE PlmnIInv'
  <2> DEFINE c == [type |-> "plmn", plmns |-> plmns]
  <2>1. PlmnCall(c) /\ UNCHANGED patient /\ c.type = "plmn"
    BY <1>3 DEF change_plmn
  <2> HIDE DEF c
  <2> QED BY <2>1, OtherCommandIInv
<1>4. ASSUME NEW cell \in CellConfigs, cell_reconfiguration(cell) PROVE PlmnIInv'
  <2> DEFINE c == [type |-> "cell", cell |-> cell]
  <2>1. PlmnCall(c) /\ UNCHANGED patient /\ c.type = "cell" /\ Restartable(c.cell)
    BY <1>4 DEF cell_reconfiguration, Restartable
  <2> HIDE DEF c
  <2> QED BY <2>1, OtherCommandIInv
<1>5. CASE UNCHANGED plmnVars \/ BsReports \/ RibLearns
  BY <1>5 DEF plmnVars, BsReports, RibLearns, PlmnIInv, PlmnShape, OneMmeCommand, CellsVerified,
              Restartable
<1> QED BY <1>1, <1>2, <1>3, <1>4, <1>5, BsAppliesIInv DEF PlmnNext, PlmnRefused

(***************************************************************************)
(* No agent is told to add an MME it has, or to remove one it has not, if  *)
(* each call on MMEs waits for the report of the one before.               *)
(***************************************************************************)
THEOREM MmesNeverClash == PlmnSpec => []NoMmeClash
<1>1. PlmnIInv => NoMmeClash
  BY DEF PlmnIInv, OneMmeCommand, NoMmeClash
<1> QED BY PlmnInitIInv, PlmnNextIInv, <1>1, PTL DEF PlmnSpec
-----------------------------------------------------------------------------
(***************************************************************************)
(* PlmnManagement: the cell                                                *)
(***************************************************************************)

\* The table of band_check.cc: its rows are numbered, its frequencies numbers.
BandRow == [no : Nat, ul_low : Nat, ul_high : Nat, dl_low : Nat, dl_high : Nat, f_offset : Int,
            bw : SUBSET Nat]

LEMMA BandTable == eutra_operating_bands \in Seq(BandRow)
<1> DEFINE R(i) == eutra_operating_bands[i] \in BandRow
<1>1. R(1) /\ R(2) /\ R(3) /\ R(4) /\ R(5) /\ R(6) /\ R(7) /\ R(8)
  BY DEF eutra_operating_bands, Row, Tdd, BandRow, All, Wide
<1>2. R(9) /\ R(10) /\ R(11) /\ R(12) /\ R(13) /\ R(14) /\ R(15) /\ R(16)
  BY DEF eutra_operating_bands, Row, Tdd, BandRow, All, Wide
<1>3. R(17) /\ R(18) /\ R(19) /\ R(20) /\ R(21) /\ R(22) /\ R(23) /\ R(24)
  BY DEF eutra_operating_bands, Row, Tdd, BandRow, All, Wide
<1>4. R(25) /\ R(26) /\ R(27) /\ R(28) /\ R(29) /\ R(30) /\ R(31) /\ R(32)
  BY DEF eutra_operating_bands, Row, Tdd, BandRow, All, Wide
<1>5. R(33) /\ R(34) /\ R(35) /\ R(36) /\ R(37) /\ R(38) /\ R(39) /\ R(40)
  BY DEF eutra_operating_bands, Row, Tdd, BandRow, All, Wide
<1>6. R(41) /\ R(42) /\ R(43) /\ R(44) /\ R(45) /\ R(46) /\ R(47) /\ R(48)
  BY DEF eutra_operating_bands, Row, Tdd, BandRow, All, Wide
<1>7. /\ DOMAIN eutra_operating_bands = 1..48
      /\ eutra_operating_bands = [i \in 1..48 |-> eutra_operating_bands[i]]
  BY DEF eutra_operating_bands
<1>8. ASSUME NEW i \in 1..48 PROVE R(i)
  <2> HIDE DEF R
  <2>1. \/ i \in 1..8 \/ i \in 9..16 \/ i \in 17..24
        \/ i \in 25..32 \/ i \in 33..40 \/ i \in 41..48
    OBVIOUS
  <2> QED BY <1>1, <1>2, <1>3, <1>4, <1>5, <1>6, <2>1
<1> HIDE DEF BandRow
<1> QED BY <1>7, <1>8

\* get_eutra_band_index() finds a row with the number, if it finds one.
LEMMA BandIndexFound ==
  ASSUME NEW band, BandIndex(band) # -1
  PROVE  /\ BandIndex(band) \in DOMAIN eutra_operating_bands
         /\ eutra_operating_bands[BandIndex(band)].no = Byte(band)
<1> DEFINE rows == {i \in DOMAIN eutra_operating_bands : eutra_operating_bands[i].no = Byte(band)}
<1>1. rows # {} /\ BandIndex(band) = CHOOSE i \in rows : \A j \in rows : i <= j
  BY DEF BandIndex
<1>2. rows \subseteq Nat
  BY BandTable
<1> HIDE DEF rows
<1>3. BandIndex(band) \in rows
  BY <1>1, <1>2, LeastNumber
<1> QED BY <1>3 DEF rows

(***************************************************************************)
(* The cell of an agent is in its band, at frequencies with the distance   *)
(* of the band, whatever numbers requests carry that fit the integers of   *)
(* band_check: verify_cell_config_for_restart() lets no other through.     *)
(***************************************************************************)
THEOREM CellAlwaysInBand == PlmnSpec => []CellInBand
<1>1. PlmnIInv => CellInBand
  <2> SUFFICES ASSUME Restartable(agent_cell), Fits(agent_cell)
               PROVE  \E i \in DOMAIN eutra_operating_bands :
                        LET row == eutra_operating_bands[i] IN
                          /\ row.no = agent_cell.eutra_band
                          /\ 10 * agent_cell.ul_freq \in row.ul_low..(row.ul_high - 1)
                          /\ 10 * agent_cell.dl_freq = 10 * agent_cell.ul_freq + row.f_offset
                          /\ agent_cell.dl_bandwidth \in row.bw
    BY DEF PlmnIInv, CellsVerified, CellInBand
  <2> DEFINE i == BandIndex(agent_cell.eutra_band)
             row == eutra_operating_bands[i]
             ul == Hz(agent_cell.ul_freq)
             dl == Hz(agent_cell.dl_freq)
  <2>1. /\ agent_cell.eutra_band \in Nat /\ agent_cell.dl_bandwidth \in Nat
        /\ agent_cell.ul_freq \in Nat /\ agent_cell.dl_freq \in Nat
    BY CellAssumption DEF Restartable
  <2>2. /\ Byte(agent_cell.eutra_band) = agent_cell.eutra_band
        /\ Byte(agent_cell.dl_bandwidth) = agent_cell.dl_bandwidth
        /\ ul[1] = 10 * agent_cell.ul_freq /\ dl[1] = 10 * agent_cell.dl_freq
    BY <2>1 DEF Fits, Byte, Hz
  <2>3. /\ i # -1
        /\ InRange(ul, row.ul_low, row.ul_high)
        /\ dl[1] - ul[1] = row.f_offset
        /\ agent_cell.dl_bandwidth \in row.bw
    BY <2>2 DEF Restartable, verify_cell_config_for_restart, check_eutra_band
  <2>4. i \in DOMAIN eutra_operating_bands /\ row.no = agent_cell.eutra_band
    BY <2>2, <2>3, BandIndexFound
  <2>5. row \in BandRow
    BY <2>4, BandTable
  <2> HIDE DEF i, row, ul, dl
  <2>6. 10 * agent_cell.ul_freq \in row.ul_low..(row.ul_high - 1)
    BY <2>1, <2>2, <2>3, <2>5 DEF InRange, BandRow
  <2>7. 10 * agent_cell.dl_freq = 10 * agent_cell.ul_freq + row.f_offset
    BY <2>1, <2>2, <2>3, <2>5 DEF BandRow
  <2> QED BY <2>3, <2>4, <2>6, <2>7 DEF row
<1> QED BY PlmnInitIInv, PlmnNextIInv, <1>1, PTL DEF PlmnSpec
-----------------------------------------------------------------------------
(***************************************************************************)
(* RrcTriggering                                                           *)
(***************************************************************************)

\* The tick: a pair with the same cell ID has a new member, and is warned of now, or was in
\* the map before.
LEMMA CheckWarns == CollisionWarned /\ check_phyCellId => CollisionWarned'
<1> SUFFICES ASSUME CollisionWarned, check_phyCellId,
                    NEW a \in DOMAIN map_phyCellId', NEW b \in DOMAIN map_phyCellId',
                    a # b, map_phyCellId'[a] = map_phyCellId'[b]
             PROVE  {a, b} \in warned'
  BY DEF CollisionWarned
<1>1. /\ DOMAIN map_phyCellId' = DOMAIN map_phyCellId \cup Ready
      /\ \A x \in DOMAIN map_phyCellId : map_phyCellId'[x] = map_phyCellId[x]
      /\ \A p \in SUBSET (DOMAIN map_phyCellId') :
           /\ Cardinality(p) = 2 /\ p \cap Ready # {}
           /\ \A x, y \in p : map_phyCellId'[x] = map_phyCellId'[y]
           => p \in warned'
      /\ warned \subseteq warned'
  BY DEF check_phyCellId
<1>2. CASE a \in Ready \/ b \in Ready
  <2>1. Cardinality({a, b}) = 2
    <3>1. IsFiniteSet({a}) /\ Cardinality({a}) = 1
      BY FS_Singleton
    <3>2. Cardinality({a} \cup {b}) = 2
      BY <3>1, FS_AddElement
    <3>3. {a, b} = {a} \cup {b}
      OBVIOUS
    <3> QED BY <3>2, <3>3
  <2>2. {a, b} \cap Ready # {} /\ {a, b} \in SUBSET (DOMAIN map_phyCellId')
    BY <1>2
  <2>3. \A x, y \in {a, b} : map_phyCellId'[x] = map_phyCellId'[y]
    OBVIOUS
  <2> QED BY <1>1, <2>1, <2>2, <2>3
<1>3. CASE a \notin Ready /\ b \notin Ready
  BY <1>1, <1>3 DEF CollisionWarned
<1> QED BY <1>2, <1>3

(***************************************************************************)
(* Two base stations that were checked with the same physical cell ID were *)
(* warned of, in whatever order they come, go and report, and whatever the *)
(* calls do meanwhile.                                                     *)
(***************************************************************************)
THEOREM CollisionsWarned == RrcSpec => []CollisionWarned
<1>1. RrcInit => CollisionWarned
  BY DEF RrcInit, CollisionWarned
<1>2. CollisionWarned /\ [RrcNext]_rrcVars => CollisionWarned'
  <2> SUFFICES ASSUME CollisionWarned, [RrcNext]_rrcVars PROVE CollisionWarned'
    OBVIOUS
  <2>1. ASSUME NEW b \in Bs, RrcBsRemoved(b) PROVE CollisionWarned'
    <3>1. /\ DOMAIN map_phyCellId' = DOMAIN map_phyCellId \ {b}
          /\ \A x \in DOMAIN map_phyCellId' : map_phyCellId'[x] = map_phyCellId[x]
      BY <2>1 DEF RrcBsRemoved, Restrict
    <3>2. warned' = {p \in warned : b \notin p}
      BY <2>1 DEF RrcBsRemoved
    <3> QED BY <3>1, <3>2 DEF CollisionWarned
  <2>2. CASE UNCHANGED <<map_phyCellId, warned>>
    BY <2>2 DEF CollisionWarned
  <2>3. ASSUME NEW b \in Bs, RrcBsAdded(b) \/ (CellUp(b) /\ UNCHANGED <<checkVars, rrc_sent>>)
                             \/ \E r \in Replies : RrcReport(b, r)
        PROVE  UNCHANGED <<map_phyCellId, warned>>
    BY <2>3 DEF RrcBsAdded, RrcReport, checkVars
  <2>4. CASE RrcTick \/ RrcRest \/ UNCHANGED rrcVars
    <3>1. UNCHANGED checkVars
      BY <2>4 DEF RrcTick, RrcRest, RrcCall, rrc_reconf, rrc_ho, rrc_x2_ho_net_control, rrcVars
    <3> QED BY <2>2, <3>1 DEF checkVars
  <2> QED BY <2>1, <2>2, <2>3, <2>4, CheckWarns DEF RrcNext
<1> QED BY <1>1, <1>2, PTL DEF RrcSpec

(***************************************************************************)
(* No base station is forgotten, in whatever order they come, go and       *)
(* report, and none that has gone is compared with (NoneForgotten).        *)
(***************************************************************************)
THEOREM NoBsForgotten == RrcSpec => []NoneForgotten
<1>1. RrcInit => NoneForgotten
  BY DEF RrcInit, RibInit, NoneForgotten
<1>2. NoneForgotten /\ [RrcNext]_rrcVars => NoneForgotten'
  <2> SUFFICES ASSUME NoneForgotten, [RrcNext]_rrcVars PROVE NoneForgotten'
    OBVIOUS
  <2>1. ASSUME NEW b \in Bs, RrcBsAdded(b) PROVE NoneForgotten'
    <3>1. DOMAIN bs' = DOMAIN bs \cup {b}
      BY <2>1 DEF RrcBsAdded, AddBs
    <3>2. /\ set_check_phyCellId' = set_check_phyCellId \cup {b} /\ tick_check_phyCellId'
          /\ map_phyCellId' = map_phyCellId
      BY <2>1 DEF RrcBsAdded
    <3> QED BY <3>1, <3>2 DEF NoneForgotten
  <2>2. ASSUME NEW b \in Bs, RrcBsRemoved(b) PROVE NoneForgotten'
    <3>1. /\ DOMAIN bs' = DOMAIN bs \ {b}
          /\ DOMAIN map_phyCellId' = DOMAIN map_phyCellId \ {b}
          /\ UNCHANGED <<set_check_phyCellId, tick_check_phyCellId>>
      BY <2>2 DEF RrcBsRemoved, RemoveBs, Restrict, NoneForgotten
    <3> QED BY <3>1 DEF NoneForgotten
  <2>3. CASE DOMAIN bs' = DOMAIN bs /\ UNCHANGED checkVars
    BY <2>3 DEF NoneForgotten, checkVars
  <2>4. ASSUME NEW b \in Bs, CellUp(b) /\ UNCHANGED <<checkVars, rrc_sent>>
        PROVE  DOMAIN bs' = DOMAIN bs /\ UNCHANGED checkVars
    BY <2>4 DEF CellUp, ribVars
  <2>5. ASSUME NEW b \in Bs, NEW r \in Replies, RrcReport(b, r)
        PROVE  DOMAIN bs' = DOMAIN bs /\ UNCHANGED checkVars
    BY <2>5 DEF RrcReport, ReportBs
  <2>6. CASE RrcTick \/ RrcRest \/ UNCHANGED rrcVars
    <3>1. UNCHANGED <<bs, checkVars>>
      BY <2>6 DEF RrcTick, ManagementTick, RrcRest, RrcCall, rrc_reconf, rrc_ho,
                  rrc_x2_ho_net_control, rrcVars, ribVars
    <3> QED BY <2>3, <3>1
  <2>7. CASE check_phyCellId
    <3>1. /\ DOMAIN map_phyCellId' = DOMAIN map_phyCellId \cup Ready
          /\ set_check_phyCellId' = set_check_phyCellId \ Ready
          /\ tick_check_phyCellId' = (set_check_phyCellId' # {})
          /\ bs' = bs
      BY <2>7 DEF check_phyCellId, ribVars
    <3>2. Ready \subseteq DOMAIN bs
      BY DEF Ready
    <3> QED BY <3>1, <3>2 DEF NoneForgotten
  <2> QED BY <2>1, <2>2, <2>3, <2>4, <2>5, <2>6, <2>7 DEF RrcNext
<1> QED BY <1>1, <1>2, PTL DEF RrcSpec
=============================================================================
