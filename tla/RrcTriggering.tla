--------------------------- MODULE RrcTriggering ---------------------------
(***************************************************************************)
(* The application rrc_triggering: on its tick it compares the physical    *)
(* cell IDs of new base stations with those of the ones it knows; its REST *)
(* calls send measurement, handover and NetControl commands.  It is        *)
(* composed with rib_management, whose requests bring the cell IDs.        *)
(***************************************************************************)
EXTENDS RibManagement

VARIABLES
  set_check_phyCellId,    \* base stations still to be checked
  map_phyCellId,          \* the cell ID each was checked with
  tick_check_phyCellId,   \* the tick slot is connected
  warned,                 \* history: pairs that were warned of, while both are known
  rrc_sent                \* what the last call sent, NoCommand if it was refused

checkVars == <<set_check_phyCellId, map_phyCellId, tick_check_phyCellId, warned>>
rrcVars == <<ribVars, managementVars, checkVars, rrc_sent>>

NoCommand == [type |-> "none"]

RrcInit ==
  /\ RibInit /\ ManagementInit
  /\ set_check_phyCellId = {} /\ map_phyCellId = <<>>
  /\ tick_check_phyCellId = FALSE
  /\ warned = {}
  /\ rrc_sent = NoCommand
-----------------------------------------------------------------------------
(***************************************************************************)
(* Task manager's thread                                                   *)
(***************************************************************************)
RrcBsAdded(b) ==
  /\ AddBs(b) /\ ManagementBsAdded(b)
  /\ set_check_phyCellId' = set_check_phyCellId \cup {b}
  /\ tick_check_phyCellId' = TRUE
  /\ UNCHANGED <<map_phyCellId, warned, rrc_sent>>

RrcBsRemoved(b) ==
  /\ RemoveBs(b) /\ ManagementBsRemoved(b)
  /\ map_phyCellId' = Restrict(map_phyCellId, DOMAIN map_phyCellId \ {b})
  /\ warned' = {p \in warned : b \notin p}
  /\ UNCHANGED <<set_check_phyCellId, tick_check_phyCellId, rrc_sent>>

RrcReport(b, r) ==
  /\ ReportBs(b, r) /\ ManagementReply(b, r)
  /\ UNCHANGED <<checkVars, rrc_sent>>

\* Those of the set that have a cell ID now.
Ready == {b \in set_check_phyCellId \cap DOMAIN bs : bs[b].pci # NoPci}

\* Mutant: new base stations are compared with old ones, not among each other.
MutCheckOldOnly ==
  /\ tick_check_phyCellId
  /\ map_phyCellId' = [b \in DOMAIN map_phyCellId \cup Ready |->
                         IF b \in DOMAIN map_phyCellId THEN map_phyCellId[b] ELSE bs[b].pci]
  /\ warned' = warned \cup {{a, o} : a \in Ready, o \in DOMAIN map_phyCellId}
  /\ set_check_phyCellId' = set_check_phyCellId \ Ready
  /\ tick_check_phyCellId' = (set_check_phyCellId' # {})
  /\ UNCHANGED <<ribVars, managementVars, rrc_sent>>

\* Mutant: the slot is disconnected once a BS was checked.
MutCheckOnce ==
  /\ tick_check_phyCellId
  /\ map_phyCellId' = [b \in DOMAIN map_phyCellId \cup Ready |->
                         IF b \in DOMAIN map_phyCellId THEN map_phyCellId[b] ELSE bs[b].pci]
  /\ warned' = warned \cup {{a, o} : a \in Ready, o \in DOMAIN map_phyCellId'}
  /\ set_check_phyCellId' = set_check_phyCellId \ Ready
  /\ tick_check_phyCellId' = (Ready = {})
  /\ UNCHANGED <<ribVars, managementVars, rrc_sent>>

\* The tick, every 10 ms: one after the other is compared with all in the map, and
\* put there itself.
check_phyCellId ==
  /\ tick_check_phyCellId
  /\ map_phyCellId' = [b \in DOMAIN map_phyCellId \cup Ready |->
                         IF b \in DOMAIN map_phyCellId THEN map_phyCellId[b] ELSE bs[b].pci]
  /\ warned' = warned \cup {p \in SUBSET (DOMAIN map_phyCellId') :
                              /\ Cardinality(p) = 2 /\ p \cap Ready # {}
                              /\ \A a, o \in p : map_phyCellId'[a] = map_phyCellId'[o]}
  /\ set_check_phyCellId' = set_check_phyCellId \ Ready
  /\ tick_check_phyCellId' = (set_check_phyCellId' # {})
  /\ UNCHANGED <<ribVars, managementVars, rrc_sent>>
-----------------------------------------------------------------------------
(***************************************************************************)
(* REST calls.  While a BS has no configuration, a call that looks at cell *)
(* IDs reads a cell that is not there; such calls are left out.            *)
(***************************************************************************)
RrcRefuse == rrc_sent' = NoCommand

RrcCall == UNCHANGED <<ribVars, managementVars, checkVars>>

\* The command that a call sends.
push_config(b) == rrc_sent' = [type |-> "reconf", to |-> b]
push_ho(b, u, pci) == rrc_sent' = [type |-> "ho", to |-> b, ue |-> u, cell |-> pci]
push_x2_ho_net_control(b, on) == rrc_sent' = [type |-> "net_control", to |-> b, on |-> on]

\* valid: there is a body, and it is JSON of the message.
rrc_reconf(s, valid) ==
  /\ RrcCall
  /\ IF ~ valid \/ parse_bs_id(s) = 0 THEN RrcRefuse
     ELSE push_config(parse_bs_id(s))

\* parse_physical_cell_id(): the first BS that has this cell ID.
parse_physical_cell_id(s) ==
  LET same == {b \in DOMAIN bs : bs[b].pci = s} IN IF same = {} THEN 0 ELSE Min(same)

\* A BS by its ID or, if there is none, by its cell ID.
FindCell(s) == IF parse_bs_id(s) # 0 THEN parse_bs_id(s) ELSE parse_physical_cell_id(s)

rrc_ho(source, u, target) ==
  LET s == FindCell(source)
      t == FindCell(target)
      ok == /\ s # 0 /\ bs[s].net_control /\ u \in bs[s].ues
            /\ t # 0 /\ s # t
  IN /\ RrcCall
     /\ \A b \in DOMAIN bs : bs[b].pci # NoPci
     /\ IF ~ ok THEN RrcRefuse
        ELSE push_ho(s, u, bs[t].pci)

\* parse_enb_agent_id() would take the number of an agent as well (see NorthApi).
rrc_x2_ho_net_control(s, b) ==
  /\ RrcCall
  /\ IF parse_bs_id(s) = 0 THEN RrcRefuse
     ELSE push_x2_ho_net_control(parse_bs_id(s), b)

RrcRest ==
  \/ \E s \in Bs \cup {LastBs}, v \in BOOLEAN : rrc_reconf(s, v)
  \/ \E s, t \in Bs \cup Pci, u \in Ues : rrc_ho(s, u, t)
  \/ \E s \in Bs \cup {LastBs}, b \in BOOLEAN : rrc_x2_ho_net_control(s, b)

RrcTick == ManagementTick /\ UNCHANGED <<checkVars, rrc_sent>>

RrcNext ==
  \/ \E b \in Bs :
       \/ RrcBsAdded(b) \/ RrcBsRemoved(b)
       \/ CellUp(b) /\ UNCHANGED <<checkVars, rrc_sent>>
       \/ \E r \in Replies : RrcReport(b, r)
  \/ RrcTick \/ check_phyCellId \/ RrcRest

RrcSpec == RrcInit /\ [][RrcNext]_rrcVars
-----------------------------------------------------------------------------
(***************************************************************************)
(* Two base stations that were checked with the same cell ID were warned   *)
(* of, in whatever order they came, went and were configured (the loop     *)
(* looks at old ones only, and at those it has put there itself).          *)
(***************************************************************************)
CollisionWarned ==
  \A a, b \in DOMAIN map_phyCellId :
    a # b /\ map_phyCellId[a] = map_phyCellId[b] => {a, b} \in warned

(***************************************************************************)
(* However base stations come, go and come again while the tick            *)
(* disconnects its own slot: each was compared with the others or is still *)
(* to be, by a slot that is connected, and none is compared with one that  *)
(* has gone (bs_added, bs_removed and check_phyCellId share set and map).  *)
(***************************************************************************)
NoneForgotten ==
  /\ DOMAIN map_phyCellId \subseteq DOMAIN bs
  /\ \A b \in DOMAIN bs \ DOMAIN map_phyCellId :
       b \in set_check_phyCellId /\ tick_check_phyCellId

(***************************************************************************)
(* A BS that stays is checked in the end, although its first replies may   *)
(* have no cell ID yet: rib_management goes on asking, and the tick slot,  *)
(* which its handler disconnects, is there as long as one is missing.      *)
(***************************************************************************)
EachChecked == \A b \in Bs : []<>(b \notin DOMAIN bs \/ b \in DOMAIN map_phyCellId)
=============================================================================
