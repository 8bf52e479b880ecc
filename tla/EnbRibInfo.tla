----------------------------- MODULE EnbRibInfo -----------------------------
(***************************************************************************)
(* What the RIB knows of one online BS (class enb_rib_info): the BS is     *)
(* served by one or several agents, each of which knows a part of the      *)
(* configuration.  UEs appear and disappear at the BS; one agent reports   *)
(* that as state changes, upon which the controller asks all agents for    *)
(* their configurations (trigger_bs_config), and merges the replies.       *)
(* Messages of one agent arrive in order, those of several in any order.   *)
(*                                                                         *)
(* A configuration is abstracted to one value for each agent: the fields   *)
(* that this agent fills.  The agents are external: they answer a request  *)
(* with their part of the current state.                                   *)
(***************************************************************************)
EXTENDS Naturals, Sequences

CONSTANTS
  Agent,       \* the agents of the BS
  RrcAgent,    \* the one that reports UE state changes
  S1apAgent,   \* the one that knows the S1AP configuration
  Rnti,        \* identities of UEs, which are used again
  Value,       \* contents of an agent's part of a UE configuration
  MaxEvents    \* bound: UE state changes

ASSUME AgentsAssumption == {RrcAgent, S1apAgent} \subseteq Agent
ASSUME EventsAssumption == MaxEvents \in Nat

Absent == "absent"   \* a field that is not set

ASSUME ValueAssumption == Absent \notin Value

VARIABLES
  mac_agent,     \* the agent that knows the logical channels: always the same
  ues,           \* at the BS: each agent's part for each UE, NoUe if none
  events,        \* UE state changes so far
  requests,      \* per agent: requests on their way
  replies,       \* per agent: messages to the controller on their way
  eNB_config,    \* agents whose part eNB_config_ has (its cell configurations)
  s1ap,          \* eNB_config_ has an S1AP configuration
  ue_config,     \* ue_config_: parts by RNTI, NoUe if there is no entry
  ue_mac_info,   \* keys of ue_mac_info_
  lc_config      \* RNTIs of lc_config_

bsVars == <<mac_agent, ues, events>>
ribVars == <<eNB_config, s1ap, ue_config, ue_mac_info, lc_config>>
vars == <<bsVars, requests, replies, ribVars>>

NoUe   == [a \in Agent |-> Absent]

Parts == [Agent -> Value]

Message ==
  [type : {"activated", "updated", "deactivated"}, rnti : Rnti, part : Value]
    \cup [type : {"enb"}]
    \cup [type : {"ue"}, parts : [Rnti -> Value \cup {Absent}]]
    \cup [type : {"lc"}, rntis : SUBSET Rnti]

TypeOK ==
  /\ mac_agent \in Agent
  /\ ues \in [Rnti -> Parts \cup {NoUe}]
  /\ events \in 0..MaxEvents
  /\ requests \in [Agent -> Seq({"enb", "ue", "lc"})]
  /\ replies \in [Agent -> Seq(Message)]
  /\ eNB_config \subseteq Agent
  /\ s1ap \in BOOLEAN
  /\ ue_config \in [Rnti -> {p \in [Agent -> Value \cup {Absent}] : p[RrcAgent] \in Value}
                           \cup {NoUe}]
  /\ ue_mac_info \subseteq Rnti
  /\ lc_config \subseteq Rnti

Active == {r \in Rnti : ues[r] # NoUe}
KnownUes == {r \in Rnti : ue_config[r] # NoUe}
-----------------------------------------------------------------------------
(***************************************************************************)
(* The BS and its agents                                                   *)
(***************************************************************************)

Report(type, r, v) ==
  /\ replies' = [replies EXCEPT
       ![RrcAgent] = Append(@, [type |-> type, rnti |-> r, part |-> v])]
  /\ events < MaxEvents
  /\ events' = events + 1
  /\ UNCHANGED <<mac_agent, requests, ribVars>>

UeAttaches(r) ==
  /\ r \notin Active
  /\ \E p \in Parts : /\ ues' = [ues EXCEPT ![r] = p]
                      /\ Report("activated", r, p[RrcAgent])

UeChanges(r) ==
  /\ r \in Active
  /\ \E v \in Value : /\ ues' = [ues EXCEPT ![r][RrcAgent] = v]
                      /\ Report("updated", r, v)

UeDetaches(r) ==
  /\ r \in Active
  /\ ues' = [ues EXCEPT ![r] = NoUe]
  /\ Report("deactivated", r, ues[r][RrcAgent])

\* An agent answers with its part of the configuration as it is now.
Answer(a, request) ==
  CASE request = "enb" -> [type |-> "enb"]
    [] request = "ue"  -> [type  |-> "ue",
                           parts |-> [r \in Rnti |-> IF r \in Active THEN ues[r][a]
                                                                     ELSE Absent]]
    [] request = "lc"  -> [type  |-> "lc",
                           rntis |-> IF a = mac_agent THEN Active ELSE {}]

AgentAnswers(a) ==
  /\ requests[a] # <<>>
  /\ requests' = [requests EXCEPT ![a] = Tail(@)]
  /\ replies' = [replies EXCEPT ![a] = Append(@, Answer(a, Head(requests[a])))]
  /\ UNCHANGED <<bsVars, ribVars>>
-----------------------------------------------------------------------------
(***************************************************************************)
(* Handlers of rib_updater with the updates of enb_rib_info                *)
(***************************************************************************)

\* trigger_bs_config() asks all agents of the BS.
trigger_bs_config == requests' = [a \in Agent |-> requests[a] \o <<"enb", "ue", "lc">>]

\* update_eNB_config(): the cell configurations are merged, the S1AP
\* configuration is replaced whether the agent knows one or not.
update_eNB_config(a) ==
  /\ eNB_config' = eNB_config \cup {a}
  /\ s1ap' = (a = S1apAgent)
  /\ UNCHANGED <<requests, ue_config, ue_mac_info, lc_config>>

\* update_UE_config() of a configuration reply: entries are merged into those of
\* known UEs, the others ignored.
update_UE_config(a, parts) ==
  /\ ue_config' = [r \in Rnti |->
       IF r \in KnownUes /\ parts[r] # Absent
       THEN [ue_config[r] EXCEPT ![a] = parts[r]]
       ELSE ue_config[r]]
  /\ UNCHANGED <<requests, eNB_config, s1ap, ue_mac_info, lc_config>>

\* update_LC_config(): a reply replaces everything, unless it is empty.
update_LC_config(rntis) ==
  /\ lc_config' = IF rntis = {} THEN lc_config ELSE rntis
  /\ UNCHANGED <<requests, eNB_config, s1ap, ue_config, ue_mac_info>>

\* Mutant: a new UE is only recorded; nobody is asked for the rest.
MutUeActivatedNoRequest(r, v) ==
  /\ ue_config' = [ue_config EXCEPT ![r] =
       IF r \in KnownUes THEN [@ EXCEPT ![RrcAgent] = v]
       ELSE [b \in Agent |-> IF b = RrcAgent THEN v ELSE Absent]]
  /\ ue_mac_info' = ue_mac_info \cup {r}
  /\ UNCHANGED <<requests, eNB_config, s1ap, lc_config>>

\* handle_ue_state_change() by type.  An activation makes a new entry or is
\* merged into the one there is.
UeActivated(r, v) ==
  /\ ue_config' = [ue_config EXCEPT ![r] =
       IF r \in KnownUes THEN [@ EXCEPT ![RrcAgent] = v]
       ELSE [b \in Agent |-> IF b = RrcAgent THEN v ELSE Absent]]
  /\ ue_mac_info' = IF r \in KnownUes THEN ue_mac_info ELSE ue_mac_info \cup {r}
  /\ trigger_bs_config
  /\ UNCHANGED <<eNB_config, s1ap, lc_config>>

UeUpdated(r, v) ==
  /\ ue_config' = [ue_config EXCEPT ![r] =
       IF r \in KnownUes THEN [@ EXCEPT ![RrcAgent] = v] ELSE NoUe]
  /\ UNCHANGED <<requests, eNB_config, s1ap, ue_mac_info, lc_config>>

\* Mutant: the MAC statistics of the UE stay.
MutUeDeactivatedKeepsMac(r) ==
  /\ ue_config' = [ue_config EXCEPT ![r] = NoUe]
  /\ lc_config' = lc_config \ {r}
  /\ UNCHANGED <<requests, eNB_config, s1ap, ue_mac_info>>

UeDeactivated(r) ==
  /\ ue_config' = [ue_config EXCEPT ![r] = NoUe]
  /\ ue_mac_info' = IF r \in KnownUes THEN ue_mac_info \ {r} ELSE ue_mac_info
  /\ lc_config' = IF r \in KnownUes THEN lc_config \ {r} ELSE lc_config
  /\ UNCHANGED <<requests, eNB_config, s1ap>>

Handle(a) ==
  /\ replies[a] # <<>>
  /\ replies' = [replies EXCEPT ![a] = Tail(@)]
  /\ LET m == Head(replies[a]) IN
       \/ m.type = "enb" /\ update_eNB_config(a)
       \/ m.type = "ue" /\ update_UE_config(a, m.parts)
       \/ m.type = "lc" /\ update_LC_config(m.rntis)
       \/ m.type = "activated" /\ UeActivated(m.rnti, m.part)
       \/ m.type = "updated" /\ UeUpdated(m.rnti, m.part)
       \/ m.type = "deactivated" /\ UeDeactivated(m.rnti)
  /\ UNCHANGED bsVars
-----------------------------------------------------------------------------
\* The BS was just completed and asked for its configuration; UEs that were
\* there before are reported like new ones.
Init ==
  /\ mac_agent \in Agent
  /\ ues = [r \in Rnti |-> NoUe]
  /\ events = 0
  /\ requests = [a \in Agent |-> <<"enb", "ue", "lc">>]
  /\ replies = [a \in Agent |-> <<>>]
  /\ eNB_config = {}
  /\ s1ap = FALSE
  /\ ue_config = [r \in Rnti |-> NoUe]
  /\ ue_mac_info = {}
  /\ lc_config = {}

Next ==
  \/ \E r \in Rnti : UeAttaches(r) \/ UeChanges(r) \/ UeDetaches(r)
  \/ \E a \in Agent : AgentAnswers(a) \/ Handle(a)

Spec == Init /\ [][Next]_vars
-----------------------------------------------------------------------------
(***************************************************************************)
(* Properties                                                              *)
(***************************************************************************)

\* No message is on its way.
Settled == \A a \in Agent : requests[a] = <<>> /\ replies[a] = <<>>

\* Applications look a UE up in one of the two containers and use it with the
\* other: they always have the same UEs.
SameUes == ue_mac_info = KnownUes

\* Once all messages are handled the RIB has exactly the UEs of the BS, with the
\* current part of every agent: nothing of a UE that had the RNTI before, and
\* nothing missing because a reply came before the UE was known.
SettledUes == Settled => ue_config = ues

\* Once all messages are handled the logical channels of all UEs are known; if one
\* agent knows both, no others are, although empty replies are ignored.  (Else the
\* logical channels of a UE may be reported after it was reported as gone.)
SettledLcs ==
  Settled => /\ Active \subseteq lc_config
             /\ mac_agent = RrcAgent => lc_config = Active

\* Both: whatever messages were overtaken or ignored, the RIB gets to what the BS is.
RibSettles == SettledUes /\ SettledLcs
=============================================================================
