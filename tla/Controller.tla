----------------------------- MODULE Controller -----------------------------
(***************************************************************************)
(* The threads of the controller from main() to its end: the task          *)
(* manager's loop and the slots of the task tick, the network thread in    *)
(* its io_service, the REST server, the signals that end all of them.      *)
(*                                                                         *)
(* The REST handler stands for those that connect a slot: it reads         *)
(* last_tick() for the start and connects some time later.  asio, boost    *)
(* signals and Pistache are external.                                      *)
(***************************************************************************)
EXTENDS Naturals, Sequences, FiniteSets

CONSTANTS
  Period,     \* periods that slots are connected with
  Calls,      \* groups of calls that are registered, in this order
  MaxT,       \* bound: ticks
  MaxSlots    \* bound: slots that are ever connected

ASSUME PeriodAssumption == Period \subseteq Nat \ {0}

VARIABLES
  main,               \* place of the main thread
  g_exit_controller,
  tm,                 \* place of the task manager's thread
  t, last_tick_,      \* its tick, the one it published
  due,                \* numbers of the slots that this tick has still to call
  net, io_stopped,    \* the network thread, its io_service
  rest,               \* the REST thread
  routes, listed,     \* registered calls; what GET /capabilities answered
  offset,             \* the start that a handler has computed
  slot                \* all slots: grid, and (history) the ticks they saw and were called in

tmVars == <<tm, t, last_tick_, due>>
restVars == <<rest, routes, listed, offset, slot>>
ctlVars == <<main, g_exit_controller, tmVars, net, io_stopped, restVars>>

\* Priorities the kernel allows: SCHED_FIFO and SCHED_RR 1..99, others 0.
MinPriority(pol) == IF pol \in {"FIFO", "RR"} THEN 1 ELSE 0
MaxPriority(pol) == IF pol \in {"FIFO", "RR"} THEN 99 ELSE 0

\* The attributes that a task gives its thread.
set_scheduling_policy(pol, priority) ==
  [policy |-> pol,
   priority |-> IF priority < MinPriority(pol) THEN MinPriority(pol)
                ELSE IF priority > MaxPriority(pol) THEN MaxPriority(pol) ELSE priority]

TaskManagerAttr == set_scheduling_policy("FIFO", 80)

CtlInit ==
  /\ main = "registering"
  /\ g_exit_controller = FALSE
  /\ tm = "start" /\ t = 0 /\ last_tick_ = 0 /\ due = {}
  /\ net = "start" /\ io_stopped = FALSE
  /\ rest = "off" /\ routes = <<>> /\ listed = <<>> /\ offset = 0
  /\ slot = <<>>
-----------------------------------------------------------------------------
(***************************************************************************)
(* main()                                                                  *)
(***************************************************************************)

\* Both threads are running when the calls are registered.
RegisterCalls ==
  /\ main = "registering" /\ Len(routes) < Len(Calls)
  /\ routes' = Append(routes, Calls[Len(routes) + 1])
  /\ UNCHANGED <<main, g_exit_controller, tmVars, net, io_stopped, rest, listed, offset, slot>>

StartRest ==
  /\ main = "registering" /\ routes = Calls
  /\ main' = "waiting" /\ rest' = "serving"
  /\ UNCHANGED <<g_exit_controller, tmVars, net, io_stopped, routes, listed, offset, slot>>

\* SIGINT, SIGUSR1 or SIGTERM.
Signal ==
  /\ main = "waiting"
  /\ g_exit_controller' = TRUE /\ main' = "join_task_manager"
  /\ UNCHANGED <<tmVars, net, io_stopped, restVars>>

\* Mutant: the io_service is not stopped.
MutJoinWithoutEnd ==
  /\ main = "join_task_manager" /\ tm = "end"
  /\ main' = "join_network"
  /\ UNCHANGED <<g_exit_controller, tmVars, net, io_stopped, restVars>>

\* Mutant: the network is ended first.
MutEndBeforeJoin ==
  /\ main = "join_task_manager"
  /\ io_stopped' = TRUE /\ main' = "join_network"
  /\ UNCHANGED <<g_exit_controller, tmVars, net, restVars>>

JoinTaskManager ==
  /\ main = "join_task_manager" /\ tm = "end"
  /\ io_stopped' = TRUE /\ main' = "join_network"
  /\ UNCHANGED <<g_exit_controller, tmVars, net, restVars>>

JoinNetwork ==
  /\ main = "join_network" /\ net = "end"
  /\ main' = "shutdown_rest"
  /\ UNCHANGED <<g_exit_controller, tmVars, net, io_stopped, restVars>>

\* The REST server is asked to stop; nobody waits for it.
ShutdownRest ==
  /\ main = "shutdown_rest"
  /\ main' = "destroy_calls"
  /\ UNCHANGED <<g_exit_controller, tmVars, net, io_stopped, restVars>>

\* main() returns: the objects with the handlers of the calls are destroyed, then the
\* description of the API, both before the endpoint.
DestroyCalls ==
  /\ main = "destroy_calls"
  /\ main' = "join_rest"
  /\ UNCHANGED <<g_exit_controller, tmVars, net, io_stopped, restVars>>

\* The endpoint is the last: its destructor joins the REST thread.
DestroyNorthApi ==
  /\ main = "join_rest" /\ rest = "end"
  /\ main' = "exited"
  /\ UNCHANGED <<g_exit_controller, tmVars, net, io_stopped, restVars>>

MainNext ==
  \/ RegisterCalls \/ StartRest \/ Signal \/ JoinTaskManager \/ JoinNetwork
  \/ ShutdownRest \/ DestroyCalls \/ DestroyNorthApi
-----------------------------------------------------------------------------
(***************************************************************************)
(* Task manager                                                            *)
(***************************************************************************)

\* With low latency support the kernel may refuse the attributes: nothing is run then.
ExecuteTask ==
  /\ tm = "start"
  /\ tm' \in {"loop", "end"}
  /\ UNCHANGED <<main, g_exit_controller, t, last_tick_, due, net, io_stopped, restVars>>

\* Mutant: the start is not a tick but a phase.
MutFires(s, u) == u % s.period = s.start

Fires(s, u) == u >= s.start /\ (u - s.start) % s.period = 0

\* The RIB updater has run; the signal is raised for the slots that are connected.
TickBegins ==
  /\ tm = "loop" /\ ~ g_exit_controller /\ t < MaxT
  /\ tm' = "tick"
  /\ due' = {i \in DOMAIN slot : slot[i].connected}
  /\ UNCHANGED <<main, g_exit_controller, t, last_tick_, net, io_stopped, restVars>>

\* The order of the list of slots.
NextDue == CHOOSE j \in due : \A k \in due : j <= k

\* What slot s does in this tick.
SlotRuns(s) ==
  [s EXCEPT !.seen = @ \cup {t}, !.called = IF Fires(s, t) THEN @ \cup {t} ELSE @]

\* A slot runs unless it was disconnected meanwhile.
CallSlot ==
  /\ tm = "tick" /\ due # {}
  /\ due' = due \ {NextDue}
  /\ slot' = IF slot[NextDue].connected
             THEN [slot EXCEPT ![NextDue] = SlotRuns(@)]
             ELSE slot
  /\ UNCHANGED <<main, g_exit_controller, tm, t, last_tick_, net, io_stopped, rest, routes,
                 listed, offset>>

TickEnds ==
  /\ tm = "tick" /\ due = {}
  /\ last_tick_' = t /\ t' = t + 1
  /\ tm' = "wait"
  /\ UNCHANGED <<main, g_exit_controller, due, net, io_stopped, restVars>>

\* Expirations that were missed are not made up for.
wait_for_cycle ==
  /\ tm = "wait" /\ tm' = "loop"
  /\ UNCHANGED <<main, g_exit_controller, t, last_tick_, due, net, io_stopped, restVars>>

LoopEnds ==
  /\ tm = "loop" /\ g_exit_controller
  /\ tm' = "end"
  /\ UNCHANGED <<main, g_exit_controller, t, last_tick_, due, net, io_stopped, restVars>>

TaskManagerNext ==
  ExecuteTask \/ TickBegins \/ CallSlot \/ TickEnds \/ wait_for_cycle \/ LoopEnds

\* The interface is established; run() returns when the io_service is stopped, at once
\* if it was stopped before, or not at all if the kernel refuses the attributes.
NetworkNext ==
  /\ \/ net = "start" /\ net' \in {"running", "end"}
     \/ net = "running" /\ io_stopped /\ net' = "end"
  /\ UNCHANGED <<main, g_exit_controller, tmVars, io_stopped, restVars>>
-----------------------------------------------------------------------------
(***************************************************************************)
(* Calls                                                                   *)
(***************************************************************************)

HandlerBegins ==
  /\ rest = "serving" /\ Len(slot) < MaxSlots
  /\ rest' = "handling" /\ offset' = last_tick_
  /\ UNCHANGED <<main, g_exit_controller, tmVars, net, io_stopped, routes, listed, slot>>

\* The slot has its place in the list of the signal from now on.
subscribe_task_tick(period) ==
  /\ rest = "handling"
  /\ rest' = "serving"
  /\ slot' = Append(slot, [connected |-> TRUE, start |-> offset, period |-> period,
                           seen |-> {}, called |-> {}])
  /\ UNCHANGED <<main, g_exit_controller, tmVars, net, io_stopped, routes, listed, offset>>

Disconnect(i) ==
  /\ rest = "serving" /\ slot[i].connected
  /\ slot' = [slot EXCEPT ![i].connected = FALSE]
  /\ UNCHANGED <<main, g_exit_controller, tmVars, net, io_stopped, rest, routes, listed,
                 offset>>

list_api ==
  /\ rest = "serving"
  /\ listed' = routes
  /\ UNCHANGED <<main, g_exit_controller, tmVars, net, io_stopped, rest, routes, offset, slot>>

\* The REST thread sees that it was asked to stop once it is in no handler.
RestEnds ==
  /\ main \in {"destroy_calls", "join_rest"} /\ rest = "serving"
  /\ rest' = "end"
  /\ UNCHANGED <<main, g_exit_controller, tmVars, net, io_stopped, routes, listed, offset, slot>>

\* A handler that runs, or begins, after its object was destroyed: undefined.  It goes on
\* as any other, or the process ends here.
UseDestroyed ==
  /\ main = "join_rest" /\ rest \in {"serving", "handling"}
  /\ main' = "crashed"
  /\ UNCHANGED <<g_exit_controller, tmVars, net, io_stopped, restVars>>

RestNext ==
  \/ HandlerBegins \/ (\E p \in Period : subscribe_task_tick(p))
  \/ (\E i \in DOMAIN slot : Disconnect(i)) \/ list_api
  \/ RestEnds \/ UseDestroyed

CtlNext == main # "crashed" /\ (MainNext \/ TaskManagerNext \/ NetworkNext \/ RestNext)

CtlSpec == CtlInit /\ [][CtlNext]_ctlVars
-----------------------------------------------------------------------------
(***************************************************************************)
(* The slot of a periodic task (every 10 ms in rrc_triggering.cc:52, the   *)
(* intervals of elastic_search) is called once in any period of ticks that *)
(* it has seen, whatever the tick the handler read before it connected.    *)
(***************************************************************************)
OncePerPeriod ==
  \A i \in DOMAIN slot : \A u \in slot[i].seen :
    LET window == u..(u + slot[i].period - 1) IN
      window \subseteq slot[i].seen => Cardinality(window \cap slot[i].called) = 1

(***************************************************************************)
(* The io_service is stopped after the task manager, which sends and       *)
(* closes connections, has ended; the REST server, whose handlers use      *)
(* both, after the network thread; and main() does not go on to destroy    *)
(* the applications before the REST thread has ended, which only the       *)
(* destructor of the endpoint waits for.                                   *)
(***************************************************************************)
StoppedInOrder ==
  /\ io_stopped => tm = "end"
  /\ main \in {"destroy_calls", "join_rest", "exited", "crashed"} => net = "end" /\ io_stopped
  /\ main = "exited" => rest = "end"
  /\ rest = "end" => tm = "end" /\ net = "end"

(***************************************************************************)
(* The process ends after a signal (rt_controller.cc:311-325): whatever    *)
(* the calls do meanwhile, nothing waits for ever.                         *)
(***************************************************************************)
SignalEnds == g_exit_controller ~> main \in {"exited", "crashed"}
=============================================================================
