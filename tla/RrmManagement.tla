--------------------------- MODULE RrmManagement ---------------------------
(***************************************************************************)
(* Slices of one BS and the association of its UEs to them: the calls of   *)
(* rrm_calls, the application rrm_management behind them, and the agent    *)
(* that applies its commands.  The application checks a call against what  *)
(* the agent has reported last; commands and reports are on their way for  *)
(* some time.  A call is one step.                                         *)
(*                                                                         *)
(* The agent is external: it applies commands in order and reports what    *)
(* changed, some time later.                                               *)
(***************************************************************************)
EXTENDS Naturals, Sequences, SequencesExt

CONSTANTS
  Id,              \* slice IDs
  Rbg,             \* resource block groups, an interval
  RbgEntries,      \* groups that the overlap check has room for (110)
  Ue,              \* UEs, by RNTI or IMSI
  SliceRequests,   \* bodies of POST /slice, one request for each direction
  RemoveRequests,  \* bodies of DELETE /slice
  AssocRequests,   \* bodies of POST /ue_slice_assoc
  RegexLists,      \* bodies of POST /auto_ue_slice_assoc
  MaxCalls         \* bound: calls that are answered

ASSUME RegexAssumption ==
  \A l \in RegexLists : l.tokens \in Seq([well_formed : BOOLEAN, matches : SUBSET Ue])

Dir       == {"dl", "ul"}
Algorithm == {"None", "Static", "NVS"}
Keep      == "keep"              \* an algorithm that a request does not set
Unset     == 1000                \* a slice ID that a message does not set; of a UE, no slice
Nobody    == "nobody"            \* an RNTI or IMSI that is not given or unknown
Range_    == {<<l, h>> : l \in Rbg, h \in Rbg}   \* positions of a slice
Label     == <<>>                \* the slice has a label but no positions
Share     == <<0>>               \* the parameters of an NVS slice

SliceSets == UNION {[I -> Range_ \cup {Share}] : I \in SUBSET Id}
GivenSets == UNION {[I -> Range_ \cup {Share, Label}] : I \in SUBSET Id}

ASSUME RequestAssumption ==
  /\ \A r \in SliceRequests :
       r \in [Dir -> [algorithm : Algorithm \cup {Keep}, slices : GivenSets, scheduler : BOOLEAN]]
  /\ MaxCalls \in Nat
  /\ Unset \notin Id

VARIABLES
  agent,       \* at the agent: algorithm and slices of each direction
  ue,          \* at the agent: whether the IMSI is known, and slices, of each UE
  dirty,       \* the agent has not reported its slices since they changed
  dirty_ues,   \* nor these UEs
  to_agent,    \* commands on their way
  to_rib,      \* reports on their way
  slice_config,\* in the RIB: slices as reported last
  ue_config,   \* in the RIB: UEs as reported last
  ue_slice,    \* dl_ue_slice_ and ul_ue_slice_: pairs of regex and slice
  calls,       \* number of calls so far
  answers,     \* codes with which the last call was answered
  careful,     \* history: every change of slices waited for the report of the one before, and
               \* gave each slice it mentioned its positions, which the check had room for
  dropped      \* history: a slice was removed, or the algorithm changed

agentVars == <<agent, ue, dirty, dirty_ues>>
reportedVars == <<slice_config, ue_config>>
historyVars == <<careful, dropped>>
rrmVars == <<agentVars, to_agent, to_rib, reportedVars, ue_slice, calls, answers, historyVars>>

Slices(c) == DOMAIN c.slices

Association == [imsi : BOOLEAN, dl : Id \cup {Unset}, ul : Id \cup {Unset}]

(***************************************************************************)
(* Types of the slices, associations and lists on both sides.              *)
(***************************************************************************)
RrmTypeOK ==
  /\ agent \in [Dir -> [algorithm : Algorithm, slices : SliceSets]]
  /\ slice_config \in [Dir -> [algorithm : Algorithm, slices : SliceSets]]
  /\ ue \in [Ue -> Association] /\ ue_config \in [Ue -> Association]
  /\ dirty \in BOOLEAN /\ dirty_ues \subseteq Ue
  /\ ue_slice \in [Dir -> Seq([regex : SUBSET Ue, slice : Id])]
  /\ calls \in 0..MaxCalls
  /\ answers \in {<<200>>, <<400>>, <<400, 200>>, <<400, 400>>}
  /\ careful \in BOOLEAN /\ dropped \in BOOLEAN

RrmInit ==
  /\ agent = [d \in Dir |-> [algorithm |-> "None", slices |-> <<>>]]
  /\ slice_config = agent
  /\ ue = [u \in Ue |-> [imsi |-> FALSE, dl |-> Unset, ul |-> Unset]]
  /\ ue_config = ue
  /\ dirty = FALSE /\ dirty_ues = {}
  /\ to_agent = <<>> /\ to_rib = <<>>
  /\ ue_slice = [d \in Dir |-> <<>>]
  /\ calls = 0 /\ answers = <<200>>
  /\ careful = TRUE /\ dropped = FALSE
-----------------------------------------------------------------------------
(***************************************************************************)
(* The agent and its UEs (external)                                        *)
(***************************************************************************)
In(r) == IF r \in {Label, Share} THEN {} ELSE {i \in Rbg : r[1] <= i /\ i <= r[2]}

\* A command with another algorithm starts from no slices; otherwise it adds
\* slices and changes those it gives positions for.
Configured(old, new) ==
  LET given == {i \in Slices(new) : new.slices[i] # Label}
      kept  == IF new.algorithm # old.algorithm THEN {} ELSE Slices(old) \ given
  IN [algorithm |-> new.algorithm,
      slices    |-> [i \in given \cup kept |->
                       IF i \in given THEN new.slices[i] ELSE old.slices[i]]]

Without(old, ids) == [old EXCEPT !.slices = [i \in Slices(old) \ ids |-> old.slices[i]]]

\* UEs of a slice that is gone are in no slice.
Reassociated(cfg) ==
  [u \in Ue |-> [ue[u] EXCEPT
     !.dl = IF @ \in Slices(cfg["dl"]) THEN @ ELSE Unset,
     !.ul = IF @ \in Slices(cfg["ul"]) THEN @ ELSE Unset]]

\* UEs are put into the slices the command names, if there are such.
Moved(assoc) ==
  [u \in Ue |-> IF u \notin DOMAIN assoc THEN ue[u]
     ELSE LET to(d) == IF assoc[u][d] \in Slices(agent[d]) THEN assoc[u][d] ELSE ue[u][d]
          IN [ue[u] EXCEPT !.dl = to("dl"), !.ul = to("ul")]]

AgentApplies ==
  /\ to_agent # <<>>
  /\ LET m == Head(to_agent)
         cfg == IF m.type = "slices" THEN [d \in Dir |-> Configured(agent[d], m.config[d])]
                ELSE IF m.type = "remove" THEN [d \in Dir |-> Without(agent[d], m.ids[d])]
                ELSE agent
     IN /\ agent' = cfg
        /\ ue' = IF m.type = "ues" THEN Moved(m.ues) ELSE Reassociated(cfg)
        /\ dropped' = (dropped \/ \E d \in Dir : ~ Slices(agent[d]) \subseteq Slices(cfg[d]))
  /\ dirty' = (dirty \/ agent' # agent)
  /\ dirty_ues' = dirty_ues \cup {u \in Ue : ue'[u] # ue[u]}
  /\ to_agent' = Tail(to_agent)
  /\ UNCHANGED <<to_rib, reportedVars, ue_slice, calls, answers, careful>>

AgentReports ==
  /\ \/ /\ dirty /\ dirty' = FALSE
        /\ to_rib' = Append(to_rib, [type |-> "enb", config |-> agent])
        /\ UNCHANGED dirty_ues
     \/ \E u \in dirty_ues :
          /\ dirty_ues' = dirty_ues \ {u}
          /\ to_rib' = Append(to_rib, [type |-> "updated", ue |-> u, config |-> ue[u]])
          /\ UNCHANGED dirty
  /\ UNCHANGED <<agent, ue, to_agent, reportedVars, ue_slice, calls, answers, historyVars>>

UeIdentified(u) ==
  /\ ~ ue[u].imsi
  /\ ue' = [ue EXCEPT ![u].imsi = TRUE]
  /\ dirty_ues' = dirty_ues \cup {u}
  /\ UNCHANGED <<agent, dirty, to_agent, to_rib, reportedVars, ue_slice, calls, answers,
                 historyVars>>

\* A UE that was in no slice gets one.
UeJoins(u, d, id) ==
  /\ ue[u][d] = Unset /\ id \in Slices(agent[d])
  /\ ue' = [ue EXCEPT ![u] = [@ EXCEPT ![d] = id]]
  /\ dirty_ues' = dirty_ues \cup {u}
  /\ UNCHANGED <<agent, dirty, to_agent, to_rib, reportedVars, ue_slice, calls, answers,
                 historyVars>>
-----------------------------------------------------------------------------
(***************************************************************************)
(* Task manager: reports are merged into the RIB; the update of a UE goes  *)
(* on to the application.                                                  *)
(***************************************************************************)

\* Mutant: the lists of the downlink are consulted with the ID of the uplink's slice.
MutTargetUplink(u, assoc, d) ==
  LET fits == {i \in DOMAIN ue_slice[d] : /\ u \in ue_slice[d][i].regex
                                          /\ assoc["ul"] \notin {Unset, ue_slice[d][i].slice}}
  IN IF fits = {} THEN Unset ELSE ue_slice[d][CHOOSE i \in fits : \A j \in fits : j <= i].slice

\* The loops over dl_ue_slice_ and ul_ue_slice_, for a UE that has reported a slice ID of
\* the direction: the last match that differs.
Target(u, assoc, d) ==
  LET fits == {i \in DOMAIN ue_slice[d] : /\ u \in ue_slice[d][i].regex
                                          /\ assoc[d] \notin {Unset, ue_slice[d][i].slice}}
  IN IF fits = {} THEN Unset ELSE ue_slice[d][CHOOSE i \in fits : \A j \in fits : j <= i].slice

ue_add_update_slice_assoc(u, assoc) ==
  IF ~ assoc.imsi THEN UNCHANGED to_agent
  ELSE to_agent' = Append(to_agent, [type |-> "ues",
         ues |-> [v \in {u} |-> [d \in Dir |-> Target(u, assoc, d)]]])

HandleReport ==
  /\ to_rib # <<>>
  /\ LET m == Head(to_rib)
     IN \/ /\ m.type = "enb"
           /\ slice_config' = m.config
           /\ UNCHANGED <<ue_config, to_agent>>
        \/ /\ m.type = "updated"
           /\ ue_config' = [ue_config EXCEPT ![m.ue] = m.config]
           /\ ue_add_update_slice_assoc(m.ue, m.config)
           /\ UNCHANGED slice_config
  /\ to_rib' = Tail(to_rib)
  /\ UNCHANGED <<agentVars, ue_slice, calls, answers, historyVars>>
-----------------------------------------------------------------------------
(***************************************************************************)
(* REST calls                                                              *)
(***************************************************************************)
Call ==
  /\ calls < MaxCalls /\ calls' = calls + 1
  /\ UNCHANGED <<agentVars, to_rib, reportedVars, dropped>>

Refuse == answers' = <<400>> /\ UNCHANGED <<to_agent, ue_slice>>

Send(ms) == to_agent' = to_agent \o ms

\* No BS, no body, or a body that is not JSON of the message.
RefusedCall == Call /\ Refuse /\ UNCHANGED careful

Settled == /\ ~ dirty
           /\ \A i \in DOMAIN to_agent : to_agent[i].type = "ues"
           /\ \A i \in DOMAIN to_rib : to_rib[i].type = "updated"

\* A direction of a request without an algorithm is for the current one.
Completed(request, current) ==
  IF request.algorithm = Keep THEN [request EXCEPT !.algorithm = current.algorithm]
                              ELSE request

\* Groups that the slices of the request take, and the existing ones it leaves alone.  One
\* of these without positions (NVS) counts as one on group 0.
Filled(new, exist) ==
  LET left == Slices(exist) \ Slices(new)
  IN [i \in Slices(new) \cup left |->
        IF i \notin left THEN In(new.slices[i])
        ELSE IF exist.slices[i] = Share THEN {0} ELSE In(exist.slices[i])]

\* Positions are not compared with the length of the array of groups.
Overruns(new, exist) ==
  \E i \in DOMAIN Filled(new, exist) : \E g \in Filled(new, exist)[i] : g >= RbgEntries

\* No scheduler, and positions for each slice that is new.
Complete(new, exist) ==
  /\ ~ new.scheduler
  /\ \A i \in Slices(new) \ Slices(exist) : new.slices[i] \notin {Label, Share}

\* Mutant: positions are compared among the slices of the request only.
MutVerifyNewOnly(new, exist) ==
  /\ Complete(new, exist)
  /\ \A i, j \in Slices(new) : i # j => In(new.slices[i]) \cap In(new.slices[j]) = {}

\* verify_static_slice_configuration(), within the array: no group is taken twice.
VerifyStatic(new, exist) ==
  /\ Complete(new, exist)
  /\ \A i, j \in DOMAIN Filled(new, exist) :
       i # j => Filled(new, exist)[i] \cap Filled(new, exist)[j] = {}

\* What it may answer for a direction.  Beyond the array it reads and writes something
\* else: undefined, modelled as either answer.
MayPass(new, exist) ==
  new.algorithm = "Static" =>
    VerifyStatic(new, exist) \/ (Complete(new, exist) /\ Overruns(new, exist))

MayFail(new, exist) ==
  new.algorithm = "Static" /\ (~ VerifyStatic(new, exist) \/ Overruns(new, exist))

\* After a change of algorithm: UEs are sent to the slice of the request that has the ID of
\* their slice; 0 if there is none, or they have none.
Associations(new) ==
  LET to(u) == [d \in Dir |-> IF ue_config[u][d] \in Slices(new[d]) THEN ue_config[u][d] ELSE 0]
  IN [u \in {v \in Ue : \E d \in Dir : to(v)[d] # 0} |-> to(u)]

ApplySliceConfig(request) ==
  LET new == [d \in Dir |-> Completed(request[d], slice_config[d])]
      plain(d) == [algorithm |-> new[d].algorithm, slices |-> new[d].slices]
      change == \E d \in Dir : new[d].algorithm # slice_config[d].algorithm
  IN /\ Call
     /\ \/ /\ \E d \in Dir : MayFail(new[d], slice_config[d])
           /\ Refuse /\ UNCHANGED careful
        \/ /\ \A d \in Dir : MayPass(new[d], slice_config[d])
           /\ IF /\ ~ change
                 /\ \A d \in Dir : Slices(new[d]) = {} /\ ~ new[d].scheduler
              THEN answers' = <<200>> /\ UNCHANGED <<to_agent, ue_slice, careful>>
              ELSE IF \E d \in Dir : new[d].algorithm = "None" /\ Slices(new[d]) # {}
              THEN Refuse /\ UNCHANGED careful
              ELSE /\ Send(<<[type |-> "slices", config |-> [d \in Dir |-> plain(d)]]>>
                           \o IF change /\ Ue # {}
                              THEN <<[type |-> "ues", ues |-> Associations(new)]>>
                              ELSE <<>>)
                   /\ answers' = <<200>>
                   /\ careful' = /\ careful /\ Settled
                                 /\ \A d \in Dir : \A i \in Slices(new[d]) :
                                      new[d].slices[i] # Label
                                 /\ \A d \in Dir :
                                      new[d].algorithm = "Static" => ~ Overruns(new[d], slice_config[d])
                   /\ UNCHANGED ue_slice

\* Mutant: slices without an ID are found after the command is on its way.
MutRemoveSendsFirst(request) ==
  /\ Call
  /\ Send(<<[type |-> "remove", ids |-> request.ids]>>)
  /\ answers' = IF request.has_ids THEN <<200>> ELSE <<400>>
  /\ careful' = (careful /\ Settled)
  /\ UNCHANGED ue_slice

RemoveSlices(request) ==
  /\ Call
  /\ \/ ~ request.has_ids /\ Refuse /\ UNCHANGED careful
     \/ /\ request.has_ids
        /\ Send(<<[type |-> "remove", ids |-> request.ids]>>)
        /\ answers' = <<200>>
        /\ careful' = (careful /\ Settled)
        /\ UNCHANGED ue_slice

\* verify_rnti_imsi(): the UE that RNTI and IMSI name, Nobody if they do not agree
\* or are not known.
VerifyRntiImsi(r) ==
  IF r.imsi = Nobody THEN r.rnti
  ELSE IF r.imsi \in Ue /\ ue_config[r.imsi].imsi /\ r.rnti \in {Nobody, r.imsi}
  THEN r.imsi ELSE Nobody

ChangeUeSliceAssoc(r) ==
  /\ Call
  /\ LET u == VerifyRntiImsi(r)
         ok == /\ u # Nobody
               /\ \E d \in Dir : r[d] # Unset
               /\ \A d \in Dir : r[d] # Unset => r[d] \in Slices(slice_config[d])
     IN \/ ~ ok /\ Refuse
        \/ /\ ok
           /\ Send(<<[type |-> "ues", ues |-> [v \in {u} |-> [d \in Dir |-> r[d]]]]>>)
           /\ answers' = <<200>>
           /\ UNCHANGED ue_slice
  /\ UNCHANGED careful

\* split() and parse_imsi_reg(): one token that has a quote or bracket too few, a
\* letter, or is no regex spoils the list.  A regex is the set of UEs it matches.
ParseImsiReg(list) ==
  [ok    |-> list.brackets /\ \A i \in DOMAIN list.tokens : list.tokens[i].well_formed,
   regex |-> [i \in DOMAIN list.tokens |-> list.tokens[i].matches]]

\* Where the handler puts the slice for the direction of the URL.  With one it
\* does not know it answers, and goes on with no slice.
Given(dir, d) == dir \in {d, "both"}

\* The list without the entries of the slice: erase() of what remove_if() left over.
Others(list, id) ==
  FoldLeft(\o, <<>>, [i \in DOMAIN list |-> IF list[i].slice = id THEN <<>> ELSE <<list[i]>>])

AutoUeSliceAssoc(id, dir, list) ==
  LET parsed == ParseImsiReg(list)
      first  == IF dir \in Dir \cup {"both"} THEN <<>> ELSE <<400>>
      to     == [d \in Dir |-> IF Given(dir, d) THEN id ELSE Unset]
      known  == {u \in Ue : /\ ue_config[u].imsi
                            /\ \E i \in DOMAIN parsed.regex : u \in parsed.regex[i]}
      entry(m) == [regex |-> m, slice |-> id]
  IN /\ Call
     /\ \/ /\ ~ parsed.ok \/ \E d \in Dir : Given(dir, d) /\ id \notin Slices(slice_config[d])
           /\ answers' = first \o <<400>>
           /\ UNCHANGED <<to_agent, ue_slice>>
        \/ /\ parsed.ok /\ \A d \in Dir : Given(dir, d) => id \in Slices(slice_config[d])
           /\ ue_slice' = [d \in Dir |-> IF ~ Given(dir, d) THEN ue_slice[d]
                ELSE Others(ue_slice[d], id)
                       \o [i \in DOMAIN parsed.regex |-> entry(parsed.regex[i])]]
           /\ Send(IF known = {} THEN <<>> ELSE <<[type |-> "ues", ues |-> [u \in known |-> to]]>>)
           /\ answers' = first \o <<200>>
     /\ UNCHANGED careful

RestCall ==
  \/ RefusedCall
  \/ \E r \in SliceRequests : ApplySliceConfig(r)
  \/ \E r \in RemoveRequests : RemoveSlices(r)
  \/ \E r \in AssocRequests : ChangeUeSliceAssoc(r)
  \/ \E id \in Id, dir \in Dir \cup {"both", "other"}, l \in RegexLists :
       AutoUeSliceAssoc(id, dir, l)

RrmNext ==
  \/ AgentApplies \/ AgentReports \/ (\E u \in Ue : UeIdentified(u))
  \/ (\E u \in Ue, d \in Dir, id \in Id : UeJoins(u, d, id))
  \/ HandleReport \/ RestCall

RrmSpec == RrmInit /\ [][RrmNext]_rrmVars
-----------------------------------------------------------------------------
(***************************************************************************)
(* "It should not overlap with any other existing or new slice"            *)
(* (rrm_calls.cc): the slices of the agent never share a group under the   *)
(* algorithm that has positions, if every change waits for the report of   *)
(* the one before, gives the positions of the slices it mentions and stays *)
(* within the array (VerifyStatic skips an existing slice that is          *)
(* mentioned without them, and looks at what was reported last).           *)
(***************************************************************************)
Disjoint(slices) ==
  \A i, j \in DOMAIN slices : i # j => In(slices[i]) \cap In(slices[j]) = {}

NoOverlap ==
  careful => \A d \in Dir : agent[d].algorithm = "Static" => Disjoint(agent[d].slices)

(***************************************************************************)
(* "Whenever a UE whose IMSI is known ... is not in the slice it was       *)
(* associated to, it will automatically be associated to this slice"       *)
(* (rrm_calls.cc), of UEs that have a slice, the only ones for which the   *)
(* code looks (rrm_management.cc:413): whatever calls, commands and        *)
(* reports overtook each other, in the end the UE is in the slice of the   *)
(* one list that it matches, if that slice was there all the time.         *)
(***************************************************************************)
ListsUe(u, d) == {i \in DOMAIN ue_slice[d] : u \in ue_slice[d][i].regex}

AutoAssociated ==
  \A u \in Ue, d \in Dir :
    <>[](/\ ue[u].imsi /\ ue[u][d] # Unset /\ ~ dropped
         /\ \A i, j \in ListsUe(u, d) : ue_slice[d][i].slice = ue_slice[d][j].slice
         => \A i \in ListsUe(u, d) : ue[u][d] = ue_slice[d][i].slice)

(***************************************************************************)
(* "if it is in ue_slice_ but not in the slice it is supposed to be, we    *)
(* change its association" (rrm_management.cc): this is only done for a    *)
(* report and at the call with the list.  It is enough: whenever nothing   *)
(* about a UE is on its way, in either direction, a UE that has a slice is *)
(* in that of every list that has it, if no slice was dropped.  A UE of    *)
(* two lists with different slices is never at rest.                       *)
(***************************************************************************)
AtRest(u) ==
  /\ u \notin dirty_ues
  /\ \A i \in DOMAIN to_rib : to_rib[i].type = "updated" => to_rib[i].ue # u
  /\ \A i \in DOMAIN to_agent : to_agent[i].type = "ues" => u \notin DOMAIN to_agent[i].ues

InListedSlice(u, d) == \A i \in ListsUe(u, d) : ue[u][d] = ue_slice[d][i].slice

QuietInLists ==
  ~ dropped =>
    \A u \in Ue : ue[u].imsi /\ AtRest(u) =>
      \A d \in Dir : ue[u][d] # Unset => InListedSlice(u, d)

(***************************************************************************)
(* A call that is answered with an error alone has sent nothing and left   *)
(* the lists as they are (the checks of rrm_management come before its     *)
(* first command).                                                         *)
(***************************************************************************)
RefusedChangesNothing ==
  [][calls' # calls /\ answers' = <<400>> => UNCHANGED <<to_agent, ue_slice>>]_rrmVars

(***************************************************************************)
(* "if there is an algorithm change, try to preserve the UE-slice          *)
(* association" (rrm_management.cc): the command that follows the one for  *)
(* the slices leaves a UE in its slice of a direction whose algorithm does *)
(* not change.                                                             *)
(***************************************************************************)
AssociationPreserved ==
  [][Len(to_agent') = Len(to_agent) + 2
       => LET n == Len(to_agent')
          IN \A d \in Dir, u \in DOMAIN to_agent'[n].ues :
               to_agent'[n - 1].config[d].algorithm = slice_config[d].algorithm
                 => \/ ue_config[u][d] \notin Slices(slice_config[d])
                    \/ to_agent'[n].ues[u][d] \in {Unset, ue_config[u][d]}]_rrmVars
=============================================================================
