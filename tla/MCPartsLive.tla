----------------------------- MODULE MCPartsLive -----------------------------
(***************************************************************************)
(* The parts whose work must come to an end, each on its own: focus names  *)
(* the one that runs.                                                      *)
(***************************************************************************)
EXTENDS RrcTriggering, RrmManagement, Controller, TLC

VARIABLE focus

allVars == <<focus, rrcVars, rrmVars, ctlVars>>

\* rrc_triggering: a BS has the cell ID of the other one, or no cell yet.
R(p, n, u) == [pci |-> p, net_control |-> n, ues |-> u]
FewReplies == {R(NoPci, FALSE, {}), R(1, TRUE, {})}

\* rrm_management: two slices in the downlink, a list with the one UE.
FewRequests ==
  {[dl |-> [algorithm |-> "Static", slices |-> (1 :> <<0, 0>>) @@ (2 :> <<1, 1>>),
            scheduler |-> FALSE],
    ul |-> [algorithm |-> Keep, slices |-> <<>>, scheduler |-> FALSE]]}
FewRemovals == {[has_ids |-> TRUE, ids |-> [dl |-> {1}, ul |-> {}]]}
FewAssocs == {[rnti |-> "ue", imsi |-> Nobody, dl |-> 2, ul |-> Unset]}
FewBodies == {[brackets |-> TRUE, tokens |-> <<[well_formed |-> TRUE, matches |-> Ue]>>]}
Groups == 0..1

\* controller: one group of calls.
OneGroup == <<"stats">>

Init ==
  /\ focus \in {"rrc_triggering", "rrm_management", "controller"}
  /\ RrcInit /\ RrmInit /\ CtlInit

RrcTriggeringRuns(A) ==
  focus = "rrc_triggering" /\ A /\ UNCHANGED <<focus, rrmVars, ctlVars>>
RrmManagementRuns(A) ==
  focus = "rrm_management" /\ A /\ UNCHANGED <<focus, rrcVars, ctlVars>>
ControllerRuns(A) ==
  focus = "controller" /\ A /\ UNCHANGED <<focus, rrcVars, rrmVars>>

Next ==
  \/ RrcTriggeringRuns(RrcNext) \/ RrmManagementRuns(RrmNext)
  \/ ControllerRuns(CtlNext)

\* Ticks go on; an agent answers, and its cell comes up.
RrcTriggeringFair ==
  /\ WF_allVars(RrcTriggeringRuns(RrcTick))
  /\ WF_allVars(RrcTriggeringRuns(check_phyCellId))
  /\ \A b \in Bs :
       /\ WF_allVars(RrcTriggeringRuns(\E r \in Replies : RrcReport(b, r)))
       /\ WF_allVars(RrcTriggeringRuns(CellUp(b) /\ UNCHANGED <<checkVars, rrc_sent>>))

\* Commands arrive, the agent reports each change, the task manager goes on.
RrmManagementFair ==
  /\ WF_allVars(RrmManagementRuns(AgentApplies))
  /\ WF_allVars(RrmManagementRuns(AgentReports))
  /\ WF_allVars(RrmManagementRuns(HandleReport))

\* Each thread goes on, and the REST thread sees that it shall end; nobody has to send a
\* signal or make a call.
Alive(A) == ControllerRuns(main # "crashed" /\ A)

ControllerFair ==
  /\ WF_allVars(Alive(MainNext /\ ~ Signal))
  /\ WF_allVars(Alive(TaskManagerNext))
  /\ WF_allVars(Alive(NetworkNext))
  /\ WF_allVars(Alive(\E p \in Period : subscribe_task_tick(p)))
  /\ WF_allVars(Alive(RestEnds))

Spec ==
  /\ Init /\ [][Next]_allVars
  /\ RrcTriggeringFair /\ RrmManagementFair /\ ControllerFair
=============================================================================
