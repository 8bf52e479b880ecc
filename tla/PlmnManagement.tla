--------------------------- MODULE PlmnManagement ---------------------------
(***************************************************************************)
(* Calls that reconfigure a whole BS: its MMEs and PLMNs (plmn_calls and   *)
(* the application plmn_management), and its cell (POST /conf/enb).  A     *)
(* call is checked against what the agent has reported last; commands and  *)
(* reports are on their way for some time.                                 *)
(*                                                                         *)
(* The agent is external: it applies commands in order, and answers the    *)
(* requests of rib_management with its configuration.                      *)
(***************************************************************************)
EXTENDS CellConfig, FiniteSets

CONSTANTS
  Mme,          \* addresses of MMEs
  PlmnLists,    \* lists of PLMNs in bodies of POST /plmn
  CellConfigs,  \* bodies of POST /conf
  MaxCommands   \* bound: commands on their way

\* The numbers of a request are uint32 fields; other_fields stands for all fields but these.
ASSUME CellAssumption ==
  CellConfigs \subseteq [other_fields : BOOLEAN, dl_bandwidth : Nat, ul_bandwidth : Nat,
                         eutra_band : Nat, ul_freq : Nat, dl_freq : Nat]

VARIABLES
  agent_mmes,    \* at the agent: MMEs, PLMNs and cell
  agent_plmns, agent_cell,
  commands,      \* on their way to the agent
  report,        \* on its way to the RIB
  rib_mmes,      \* in the RIB: MMEs as reported last
  mme_clash,     \* history: the agent was told to add an MME twice or to remove none
  patient        \* history: each call on MMEs waited for the report of the one before

plmnVars == <<agent_mmes, agent_plmns, agent_cell, commands, report, rib_mmes, mme_clash,
              patient>>

NoneReported == [known |-> FALSE, mmes |-> {}]
NoCell == [other_fields |-> TRUE, dl_bandwidth |-> 0, ul_bandwidth |-> 0, eutra_band |-> 0,
           ul_freq |-> 0, dl_freq |-> 0]

PlmnInit ==
  /\ agent_mmes \in SUBSET Mme /\ rib_mmes = {}
  /\ agent_plmns = <<>> /\ agent_cell = NoCell
  /\ commands = <<>>
  /\ report = [known |-> TRUE, mmes |-> agent_mmes]
  /\ mme_clash = FALSE
  /\ patient = TRUE

SendCommand(c) == Len(commands) < MaxCommands /\ commands' = Append(commands, c)
PlmnCall(c) == SendCommand(c) /\ UNCHANGED <<agent_mmes, agent_plmns, agent_cell, report, rib_mmes,
                                       mme_clash>>

\* The RIB shows what the agent has, and nothing is on its way.
UpToDate == /\ ~ report.known /\ rib_mmes = agent_mmes
            /\ \A i \in DOMAIN commands : commands[i].type \notin {"add", "remove"}

\* Mutant: an MME that is present is added again.
MutAddUnchecked(mmes) ==
  /\ Cardinality(mmes) = 1
  /\ PlmnCall([type |-> "add", mmes |-> mmes])
  /\ patient' = (patient /\ UpToDate)

\* The body names one MME, without PLMNs; others are refused.
add_mme(mmes) ==
  /\ Cardinality(mmes) = 1
  /\ mmes \cap rib_mmes = {}
  /\ PlmnCall([type |-> "add", mmes |-> mmes])
  /\ patient' = (patient /\ UpToDate)

remove_mme(mmes) ==
  /\ Cardinality(mmes) = 1
  /\ mmes \subseteq rib_mmes
  /\ PlmnCall([type |-> "remove", mmes |-> mmes])
  /\ patient' = (patient /\ UpToDate)

change_plmn(plmns) ==
  /\ Len(plmns) \in 1..6
  /\ \A i \in DOMAIN plmns :
       /\ plmns[i].mcc <= 999
       /\ plmns[i].mnc_length \in 2..3
       /\ plmns[i].mnc_length = 2 => plmns[i].mnc <= 99
       /\ plmns[i].mnc_length = 3 => plmns[i].mnc <= 999
  /\ PlmnCall([type |-> "plmn", plmns |-> plmns])
  /\ UNCHANGED patient

cell_reconfiguration(c) ==
  /\ verify_cell_config_for_restart(c)
  /\ PlmnCall([type |-> "cell", cell |-> c])
  /\ UNCHANGED patient

\* A call that is refused.
PlmnRefused == UNCHANGED plmnVars
-----------------------------------------------------------------------------
\* The agent applies a command.
BsApplies ==
  /\ commands # <<>>
  /\ commands' = Tail(commands)
  /\ LET c == Head(commands) IN
       \/ /\ c.type = "add"
          /\ mme_clash' = (mme_clash \/ c.mmes \subseteq agent_mmes)
          /\ agent_mmes' = agent_mmes \cup c.mmes
          /\ UNCHANGED <<agent_plmns, agent_cell>>
       \/ /\ c.type = "remove"
          /\ mme_clash' = (mme_clash \/ c.mmes \cap agent_mmes = {})
          /\ agent_mmes' = agent_mmes \ c.mmes
          /\ UNCHANGED <<agent_plmns, agent_cell>>
       \/ /\ c.type = "plmn" /\ agent_plmns' = c.plmns
          /\ UNCHANGED <<agent_mmes, agent_cell, mme_clash>>
       \/ /\ c.type = "cell" /\ agent_cell' = c.cell
          /\ UNCHANGED <<agent_mmes, agent_plmns, mme_clash>>
  /\ UNCHANGED <<report, rib_mmes, patient>>

BsReports ==
  /\ ~ report.known
  /\ report' = [known |-> TRUE, mmes |-> agent_mmes]
  /\ UNCHANGED <<agent_mmes, agent_plmns, agent_cell, commands, rib_mmes, mme_clash, patient>>

RibLearns ==
  /\ report.known
  /\ rib_mmes' = report.mmes
  /\ report' = NoneReported
  /\ UNCHANGED <<agent_mmes, agent_plmns, agent_cell, commands, mme_clash, patient>>

PlmnNext ==
  \/ \E mmes \in SUBSET Mme : add_mme(mmes) \/ remove_mme(mmes)
  \/ \E plmns \in PlmnLists : change_plmn(plmns)
  \/ \E c \in CellConfigs : cell_reconfiguration(c)
  \/ PlmnRefused
  \/ BsApplies \/ BsReports \/ RibLearns

PlmnSpec == PlmnInit /\ [][PlmnNext]_plmnVars
-----------------------------------------------------------------------------
(***************************************************************************)
(* "MME at IP ... already present", "no MME at IP ... present"             *)
(* (plmn_management.cc): an agent is never told to add an MME it has or to *)
(* remove one it has not, if calls wait for each other's report (the       *)
(* checks look at the report that came last).                              *)
(***************************************************************************)
NoMmeClash == patient => ~ mme_clash

(***************************************************************************)
(* The cell of an agent is in the band that it is said to be in, at legal  *)
(* frequencies with the right distance, if the numbers of the request fit  *)
(* the integers of the code (MHz become Hz in 32 bits).                    *)
(***************************************************************************)
Fits(c) == c.eutra_band < 256 /\ c.dl_bandwidth < 256 /\ c.ul_freq < 4295 /\ c.dl_freq < 4295

CellInBand ==
  agent_cell # NoCell /\ Fits(agent_cell) =>
    \E i \in DOMAIN eutra_operating_bands :
      LET row == eutra_operating_bands[i] IN
        /\ row.no = agent_cell.eutra_band
        /\ 10 * agent_cell.ul_freq \in row.ul_low..(row.ul_high - 1)
        /\ 10 * agent_cell.dl_freq = 10 * agent_cell.ul_freq + row.f_offset
        /\ agent_cell.dl_bandwidth \in row.bw
=============================================================================
