----------------------------- MODULE MCOutbound -----------------------------
(***************************************************************************)
(* Two producers (the task manager and one REST thread) and two sessions;  *)
(* the queue is smaller than what the producers may send.                  *)
(***************************************************************************)
EXTENDS Outbound, TLC

CONSTANTS T, R, s1, s2

TwoProducers == {T, R}
TwoSessions  == {s1, s2}
OneSession   == {s1}

\* Each producer may send two messages to one session, one of them one to the other.  The
\* bound stops only what no fairness asks for: that a producer sends.
Few == /\ pushes[T][s1] <= 2 /\ pushes[R][s1] <= 2
       /\ pushes[T][s2] + pushes[R][s2] <= 1
=============================================================================
