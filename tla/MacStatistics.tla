---------------------------- MODULE MacStatistics ----------------------------
(***************************************************************************)
(* Statistics of the UEs and cells of one BS with one agent: reports carry *)
(* some groups of values, named by their flags, and subframe triggers the  *)
(* outcomes of HARQ processes; RNTIs are used again.  The agent is         *)
(* external.  A UE without value has the default of protobuf, 0.           *)
(***************************************************************************)
EXTENDS Naturals, Sequences

CONSTANTS
  Rnti,
  Group,       \* groups of values of a UE, each with its flag
  Harq,        \* HARQ processes of the first carrier
  Frame,       \* numbers of frames
  MaxEvents,   \* bound: messages the agent sends
  MaxPending   \* bound: messages on their way

\* Frames are numbered with 10 bits.
ASSUME FrameAssumption == Frame \subseteq 0..1023

VARIABLES
  ue_stats,       \* at the agent: what it has reported of each UE it has
  cell, now,      \* at the agent: noise and interference, frame and subframe
  msgs,           \* messages on their way
  sent,           \* number of messages so far
  ue_mac_info,    \* in the RIB: statistics by RNTI
  cell_mac_info,  \* in the RIB: statistics of the cell
  current         \* in the RIB: frame and subframe

macVars == <<ue_stats, cell, now, msgs, sent, ue_mac_info, cell_mac_info, current>>

Value == 1..2
Subframe == {0, 9}
Ack == 0
Nack == 1
Start == [frame |-> 0, subframe |-> 0]
NewUe == [report |-> [g \in Group |-> 0], harq |-> [h \in Harq |-> Ack]]
UesOf(f) == DOMAIN f

MacInit ==
  /\ ue_stats = <<>> /\ ue_mac_info = <<>>
  /\ cell = 0 /\ cell_mac_info = 0
  /\ now = Start /\ current = Start
  /\ msgs = <<>> /\ sent = 0

\* A UE, or several.
With(f, r, u) == [x \in DOMAIN f \cup {r} |-> IF x = r THEN u ELSE f[x]]
WithoutUe(f, r) == [x \in DOMAIN f \ {r} |-> f[x]]

\* sfn_sf: 12 bits of the frame, 4 of the subframe.
get_sfn_sf(frame, subframe) == ((frame % 4096) * 16) + (subframe % 16)
get_frame(sfn_sf) == (sfn_sf \div 16) % 4096
get_subframe(sfn_sf) == sfn_sf % 16
-----------------------------------------------------------------------------
(***************************************************************************)
(* Agent                                                                   *)
(***************************************************************************)

AgentSends(m) ==
  /\ sent < MaxEvents /\ Len(msgs) < MaxPending
  /\ msgs' = Append(msgs, m) /\ sent' = sent + 1
  /\ UNCHANGED <<ue_mac_info, cell_mac_info, current>>

UeComes(r) ==
  /\ r \notin UesOf(ue_stats)
  /\ ue_stats' = With(ue_stats, r, NewUe)
  /\ AgentSends([type |-> "activated", rnti |-> r])
  /\ UNCHANGED <<cell, now>>

UeGoes(r) ==
  /\ r \in UesOf(ue_stats)
  /\ ue_stats' = WithoutUe(ue_stats, r)
  /\ AgentSends([type |-> "deactivated", rnti |-> r])
  /\ UNCHANGED <<cell, now>>

\* A statistics reply: flags and values of each UE, and of the cell.
ReportStats(flags, v, c) ==
  /\ ue_stats' = [r \in DOMAIN ue_stats |-> [ue_stats[r] EXCEPT
       !.report = [g \in Group |-> IF g \in flags THEN v ELSE @[g]]]]
  /\ cell' = IF c = 0 THEN cell ELSE c
  /\ AgentSends([type |-> "stats", cell |-> c,
                 ues |-> [r \in DOMAIN ue_stats |-> [flags |-> flags, value |-> v]]])
  /\ UNCHANGED now

\* A subframe trigger with the outcome of a HARQ process of a UE.
TriggerSubframe(f, s, r, h, status) ==
  /\ r \in UesOf(ue_stats)
  /\ now' = [frame |-> f, subframe |-> s]
  /\ ue_stats' = [ue_stats EXCEPT ![r].harq[h] = status]
  /\ AgentSends([type |-> "trigger", sfn_sf |-> get_sfn_sf(f, s), rnti |-> r, harq |-> h,
                 status |-> status])
  /\ UNCHANGED cell
-----------------------------------------------------------------------------
(***************************************************************************)
(* RIB updater.  A UE that is not known is left out                        *)
(***************************************************************************)

\* Mutant: all groups are copied.
MutUpdateAll(u, flags, v) ==
  [u EXCEPT !.report = [g \in Group |-> IF flags # {} THEN v ELSE @[g]]]

\* The groups whose flags are set are copied.
update_mac_stats_report(u, flags, v) ==
  [u EXCEPT !.report = [g \in Group |-> IF g \in flags THEN v ELSE @[g]]]

update_dl_sf_info(u, h, status) == [u EXCEPT !.harq[h] = status]

update_cell_stats_report(c) == cell_mac_info' = IF c = 0 THEN cell_mac_info ELSE c

update_mac_stats(m) ==
  /\ ue_mac_info' = [r \in DOMAIN ue_mac_info |->
                       IF r \in UesOf(m.ues)
                       THEN update_mac_stats_report(ue_mac_info[r], m.ues[r].flags, m.ues[r].value)
                       ELSE ue_mac_info[r]]
  /\ update_cell_stats_report(m.cell)
  /\ UNCHANGED current

update_subframe(m) ==
  /\ current' = [frame |-> get_frame(m.sfn_sf), subframe |-> get_subframe(m.sfn_sf)]
  /\ ue_mac_info' = [r \in DOMAIN ue_mac_info |->
                       IF r = m.rnti THEN update_dl_sf_info(ue_mac_info[r], m.harq, m.status)
                       ELSE ue_mac_info[r]]
  /\ UNCHANGED cell_mac_info

update_UE_config(m) ==
  /\ ue_mac_info' =
       IF m.type = "deactivated" THEN WithoutUe(ue_mac_info, m.rnti)
       ELSE IF m.rnti \in UesOf(ue_mac_info) THEN ue_mac_info
       ELSE With(ue_mac_info, m.rnti, NewUe)
  /\ UNCHANGED <<cell_mac_info, current>>

RibHandles ==
  /\ msgs # <<>>
  /\ msgs' = Tail(msgs)
  /\ LET m == Head(msgs) IN
       \/ m.type \in {"activated", "deactivated"} /\ update_UE_config(m)
       \/ m.type = "stats" /\ update_mac_stats(m)
       \/ m.type = "trigger" /\ update_subframe(m)
  /\ UNCHANGED <<ue_stats, cell, now, sent>>

MacNext ==
  \/ \E r \in Rnti : UeComes(r) \/ UeGoes(r)
  \/ \E flags \in SUBSET Group, v \in Value, c \in {0} \cup Value : ReportStats(flags, v, c)
  \/ \E f \in Frame, s \in Subframe, r \in Rnti, h \in Harq, st \in {Ack, Nack} :
       TriggerSubframe(f, s, r, h, st)
  \/ RibHandles

MacSpec == MacInit /\ [][MacNext]_macVars
-----------------------------------------------------------------------------
(***************************************************************************)
(* When every message was handled, the RIB shows of each UE what was       *)
(* reported of it, group by group, and nothing that was reported of a UE   *)
(* that had its RNTI before; the same for the cell and the frame           *)
(* ("copy only those elements that have been updated",                     *)
(* ue_mac_rib_info.cc:58).                                                 *)
(***************************************************************************)
SettledStats ==
  msgs = <<>> =>
    ue_mac_info = ue_stats /\ cell_mac_info = cell /\ current = now
=============================================================================
