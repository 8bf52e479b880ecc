--------------------------- MODULE RibManagement ---------------------------
(***************************************************************************)
(* The application rib_management: every second it asks each BS for its    *)
(* configurations, and notes those that were not heard of for 1.5 s.  The  *)
(* actions are those of the application; RrcTriggering composes them with  *)
(* the RIB.                                                                *)
(*                                                                         *)
(* An agent (external) answers with what it has: a cell ID only once its   *)
(* cell is up.                                                             *)
(***************************************************************************)
EXTENDS RibView

VARIABLES
  silent,        \* ticks since each registered BS was heard of, at most 2
  inactive_bs,   \* inactive_bs_
  requested,     \* base stations with a request that was not answered yet
  cell_up        \* base stations whose cell is up

managementVars == <<silent, inactive_bs, requested, cell_up>>

ManagementInit == silent = <<>> /\ inactive_bs = {} /\ requested = {} /\ cell_up = {}

\* enb_rib_info notes the time when it is made; handle_hello() asks for the
\* configurations.
ManagementBsAdded(b) ==
  /\ silent' = [x \in DOMAIN silent \cup {b} |-> IF x = b THEN 0 ELSE silent[x]]
  /\ requested' = requested \cup {b}
  /\ UNCHANGED <<inactive_bs, cell_up>>

\* The application does not subscribe to bs_remove: inactive_bs_ stays.
ManagementBsRemoved(b) ==
  /\ silent' = Restrict(silent, DOMAIN silent \ {b})
  /\ requested' = requested \ {b}
  /\ cell_up' = cell_up \ {b}
  /\ UNCHANGED inactive_bs

CellUp(b) ==
  /\ b \in DOMAIN bs /\ cell_up' = cell_up \cup {b}
  /\ UNCHANGED <<ribVars, silent, inactive_bs, requested>>

\* The reply of BS b, which update_eNB_config() takes for a sign of life.
ManagementReply(b, r) ==
  /\ b \in requested /\ (r.pci # NoPci <=> b \in cell_up)
  /\ silent' = [silent EXCEPT ![b] = 0]
  /\ requested' = requested \ {b}
  /\ UNCHANGED <<inactive_bs, cell_up>>

\* The tick, a second after the last.  A BS that was heard of since is active, one
\* that was heard of before the last tick is not; in between it may be 1.5 s or not.
ManagementTick ==
  /\ silent' = [b \in DOMAIN bs |-> IF silent[b] = 2 THEN 2 ELSE silent[b] + 1]
  /\ requested' = requested \cup DOMAIN bs
  /\ \E late \in SUBSET {b \in DOMAIN bs : silent[b] = 1} :
       LET inactive == late \cup {b \in DOMAIN bs : silent[b] = 2}
       IN inactive_bs' = (inactive_bs \ DOMAIN bs) \cup inactive
  /\ UNCHANGED <<ribVars, cell_up>>
=============================================================================
