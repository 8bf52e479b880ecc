---------------------------- MODULE BsDirectory ----------------------------
(***************************************************************************)
(* What the RIB promises about base stations (BS), seen from outside.      *)
(*                                                                         *)
(* Agents announce themselves for a BS with a set of capabilities (the     *)
(* protocol layers they run).  A BS is online from the moment its          *)
(* connected agents cover the required capabilities until one of them      *)
(* leaves.  Nothing is said here about how the controller stores agents.   *)
(***************************************************************************)
CONSTANTS
  Agent,      \* agent identifiers (session numbers of the controller)
  Bs,         \* base station identifiers
  Cap,        \* capabilities an agent may announce
  Required    \* the capabilities a BS needs to be complete

VARIABLES
  announced,  \* the accepted agents: a set of Info records
  online      \* the base stations that are online

vars == <<announced, online>>

Info == [agent_id : Agent, bs_id : Bs, capabilities : (SUBSET Cap) \ {{}}]

TypeOK == announced \subseteq Info /\ online \subseteq Bs

Of(b) == {i \in announced : i.bs_id = b}

Covered(S) == Required \subseteq UNION {i.capabilities : i \in S}

\* An agent is compatible when it is not announced yet and none of the
\* capabilities it brings is already provided for its BS.
Compatible(i) ==
  \A j \in announced :
    /\ j.agent_id # i.agent_id
    /\ j.bs_id = i.bs_id => j.capabilities \cap i.capabilities = {}
-----------------------------------------------------------------------------
Init == announced = {} /\ online = {}

\* A compatible agent joins an offline BS, which it may complete.
Join(i) ==
  /\ i.bs_id \notin online
  /\ Compatible(i)
  /\ announced' = announced \cup {i}
  /\ online' = IF Covered(Of(i.bs_id) \cup {i}) THEN online \cup {i.bs_id}
                                                ELSE online

\* An agent leaves, which takes its BS offline whatever the others provide.
Leave(i) ==
  /\ i \in announced
  /\ announced' = announced \ {i}
  /\ online' = online \ {i.bs_id}

Next == \E i \in Info : Join(i) \/ Leave(i)

Spec == Init /\ [][Next]_vars
=============================================================================
