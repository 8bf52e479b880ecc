----------------------------- MODULE MCHandover -----------------------------
(***************************************************************************)
(* What threads hand to each other without a lock, each on its own: the    *)
(* messages on their way to agents, and the jobs of the recorder.  focus   *)
(* names the one that runs.                                                *)
(***************************************************************************)
EXTENDS MCOutbound, Recorder

VARIABLE focus

handoverVars == <<focus, vars, recVars>>

HandoverInit == focus \in {"outbound", "recorder"} /\ Init /\ RecInit

OutboundRuns(A) == focus = "outbound" /\ A /\ UNCHANGED <<focus, recVars>>
RecorderRuns(A) == focus = "recorder" /\ A /\ UNCHANGED <<focus, vars>>

\* A recorder that has used a null pointer does nothing any more.
RecorderGoesOn(A) == RecorderRuns(null_used = "none" /\ A)

\* Ticks go on, a call that has begun runs to its end, a file is written.  What is fair of
\* the messages is stated in Outbound, and holds where nothing is sent.
HandoverSpec ==
  /\ HandoverInit
  /\ [][OutboundRuns(Next /\ Few') \/ RecorderRuns(RecNext)]_handoverVars
  /\ Fairness
  /\ WF_handoverVars(RecorderGoesOn(TaskManager))
  /\ WF_handoverVars(RecorderGoesOn(StartContinue))
  /\ WF_handoverVars(RecorderGoesOn(\E w \in writing : Write(w)))
=============================================================================
