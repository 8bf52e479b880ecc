------------------------------ MODULE MCParts ------------------------------
(***************************************************************************)
(* The parts that use one or two base stations, or none, each on its own:  *)
(* focus names the one that runs, the others stay in an initial state.     *)
(***************************************************************************)
EXTENDS StatsManager, RrcTriggering, NetstoreLoader, ElasticSearch,
        RrmManagement, PlmnManagement, Controller, RecordFile, Framing, MacStatistics, NorthApi, TLC

VARIABLE focus

appVars == <<smVars, rrcVars, nsVars, esVars, rrmVars, plmnVars>>
coreVars == <<ctlVars, fileVars, frameVars, macVars, northVars>>
allVars == <<focus, appVars, coreVars>>
-----------------------------------------------------------------------------
\* stats_manager: two contents of reports.
TwoReports == {"default", "other"}

\* rrc_triggering: a BS has the cell ID of the other one or its own, or no cell yet.
R(p, n, u) == [pci |-> p, net_control |-> n, ues |-> u]
FewReplies == {R(NoPci, FALSE, {}), R(1, TRUE, {"ue"}), R(5, TRUE, {}), R(5, FALSE, {"ue"})}

\* rrm_management: two slices on two groups and one beyond the array, one UE.  Requests for
\* the downlink vary.
Request(a, s, sched) == [algorithm |-> a, slices |-> s, scheduler |-> sched]
KeepAll == Request(Keep, <<>>, FALSE)
Requests ==
  LET dl == {Request(Keep, s, FALSE) :
               s \in {1 :> Label, 2 :> <<0, 1>>, 2 :> <<1, 1>>, 2 :> <<2, 2>>}}
            \cup {Request("Static", s, FALSE) :
                    s \in {1 :> <<0, 0>>, (1 :> <<0, 0>>) @@ (2 :> <<1, 1>>),
                           (1 :> <<0, 1>>) @@ (2 :> <<1, 1>>)}}
            \cup {Request("None", <<>>, TRUE), Request("None", 1 :> Label, FALSE),
                  Request("Static", <<>>, TRUE), Request("NVS", 1 :> Share, FALSE)}
  IN [dl : dl, ul : {KeepAll}]
       \cup [dl : {KeepAll, Request("Static", (1 :> <<0, 0>>) @@ (2 :> <<1, 1>>), FALSE)},
             ul : {KeepAll, Request("Static", 1 :> <<0, 0>>, FALSE)}]
Removals == {[has_ids |-> b, ids |-> [dl |-> {1}, ul |-> {}]] : b \in BOOLEAN}
Assocs == [rnti : {"ue", Nobody}, imsi : {"ue", Nobody}, dl : {Unset, 2}, ul : {Unset}]
Token(ok, us) == [well_formed |-> ok, matches |-> us]
Bodies == {[brackets |-> TRUE, tokens |-> <<Token(TRUE, Ue), Token(FALSE, {})>>],
           [brackets |-> TRUE, tokens |-> <<Token(TRUE, Ue)>>]}
Groups == 0..2

\* plmn_management: in band 7, off it by one MHz, one band with its directions swapped,
\* a band that fits no byte, a frequency that fits no 32 bits in Hz.
Plmn(mcc, mnc, l) == [mcc |-> mcc, mnc |-> mnc, mnc_length |-> l]
FewPlmns == {<<>>, <<Plmn(208, 95, 2)>>, <<Plmn(208, 100, 2)>>}
Cell(b, u, d, w) == [other_fields |-> FALSE, dl_bandwidth |-> w, ul_bandwidth |-> w,
                     eutra_band |-> b, ul_freq |-> u, dl_freq |-> d]
FewCells == {Cell(7, 2530, 2650, 50), Cell(7, 2530, 2649, 50), Cell(13, 749, 780, 25),
             Cell(262, 832, 877, 25), Cell(7, 6825, 6945, 50)}

\* controller: two groups of calls.
TwoGroups == <<"stats", "rrm">>

\* The recorder's files: chunks of no BS, of one and of two, with up to three UEs, some
\* with a message that cannot be written.
UeOf(m, h) == [report |-> m, harq |-> h]
Of(e, l, us) == [time |-> 7, enb |-> e, ue |-> <<>>, lc |-> l, harqs |-> us]
Chunks ==
  {<<>>,
   1 :> Of(<<5>>, <<>>, <<>>),
   1 :> Of(<<5>>, <<4, 1>>, <<UeOf(<<2>>, 255), UeOf(<<>>, 0)>>),
   2 :> Of(<<1, 1>>, Broken, <<>>),
   3 :> Of(<<>>, <<>>, <<UeOf(Broken, 1), UeOf(<<1>>, 1)>>),
   (1 :> Of(<<2>>, <<1>>, <<UeOf(<<3, 3>>, 8)>>)) @@ (2 :> Of(<<>>, <<5>>, <<>>)),
   2 :> Of(<<>>, <<5>>, <<UeOf(<<2>>, 1), UeOf(<<>>, 1), UeOf(<<1>>, 2)>>)}
SmallDumps == {<<>>} \cup {<<c>> : c \in Chunks} \cup {<<c, d>> : c \in Chunks, d \in Chunks}
-----------------------------------------------------------------------------
\* Where a part has several initial states, it has them if it runs.
Init ==
  /\ focus \in {"stats_manager", "rrc_triggering", "netstore_loader",
                "elastic_search", "rrm_management", "plmn_management", "controller",
                "record_file", "framing", "mac_statistics", "north_api"}
  /\ SmInit /\ RrcInit /\ NsInit /\ EsInit /\ RrmInit /\ PlmnInit
  /\ CtlInit /\ FileInit /\ FrameInit /\ MacInit /\ NorthInit
  /\ focus # "elastic_search" => elastic_search_ep = {"e"}
  /\ focus # "plmn_management" => agent_mmes = {}
  /\ focus # "record_file" => recorded = <<>> /\ type = "all"

StatsManagerRuns ==
  /\ focus = "stats_manager" /\ SmNext
  /\ UNCHANGED <<focus, rrcVars, nsVars, esVars, rrmVars, plmnVars, coreVars>>

RrcTriggeringRuns ==
  /\ focus = "rrc_triggering" /\ RrcNext
  /\ UNCHANGED <<focus, smVars, nsVars, esVars, rrmVars, plmnVars, coreVars>>

NetstoreLoaderRuns ==
  /\ focus = "netstore_loader" /\ NsNext
  /\ UNCHANGED <<focus, smVars, rrcVars, esVars, rrmVars, plmnVars, coreVars>>

ElasticSearchRuns ==
  /\ focus = "elastic_search" /\ EsNext
  /\ UNCHANGED <<focus, smVars, rrcVars, nsVars, rrmVars, plmnVars, coreVars>>

RrmManagementRuns ==
  /\ focus = "rrm_management" /\ RrmNext
  /\ UNCHANGED <<focus, smVars, rrcVars, nsVars, esVars, plmnVars, coreVars>>

PlmnManagementRuns ==
  /\ focus = "plmn_management" /\ PlmnNext
  /\ UNCHANGED <<focus, smVars, rrcVars, nsVars, esVars, rrmVars, coreVars>>

ControllerRuns ==
  /\ focus = "controller" /\ CtlNext
  /\ UNCHANGED <<focus, appVars, fileVars, frameVars, macVars, northVars>>

RecordFileRuns ==
  /\ focus = "record_file" /\ FileNext
  /\ UNCHANGED <<focus, appVars, ctlVars, frameVars, macVars, northVars>>

FramingRuns ==
  /\ focus = "framing" /\ FrameNext
  /\ UNCHANGED <<focus, appVars, ctlVars, fileVars, macVars, northVars>>

MacStatisticsRuns ==
  /\ focus = "mac_statistics" /\ MacNext
  /\ UNCHANGED <<focus, appVars, ctlVars, fileVars, frameVars, northVars>>

\* It has the view of the RIB in common with rrc_triggering.
NorthApiRuns ==
  /\ focus = "north_api" /\ NorthNext
  /\ UNCHANGED <<focus, smVars, managementVars, checkVars, rrc_sent, nsVars, esVars,
                 rrmVars, plmnVars, ctlVars, fileVars, frameVars, macVars>>

Next ==
  \/ StatsManagerRuns \/ RrcTriggeringRuns \/ NetstoreLoaderRuns
  \/ ElasticSearchRuns \/ RrmManagementRuns \/ PlmnManagementRuns
  \/ ControllerRuns \/ RecordFileRuns \/ FramingRuns \/ MacStatisticsRuns
  \/ NorthApiRuns

Spec == Init /\ [][Next]_allVars
=============================================================================
