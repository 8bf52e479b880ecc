----------------------------- MODULE Southbound -----------------------------
(***************************************************************************)
(* The way of a message from an agent into the RIB: the network thread     *)
(* accepts connections, reads their messages and puts them, tagged with    *)
(* the session, into in_queue_; rib_updater::update_rib() takes them out   *)
(* in the task manager's thread, at most a budget in one period, and runs  *)
(* the handlers of module Rib, some of which close the connection.         *)
(*                                                                         *)
(* The handlers of a pending read refer to the session by a raw `this`.    *)
(* Once close_connection() has erased the session they run on freed        *)
(* memory: the session ID they read is the right one or the one of a       *)
(* session accepted since, in the same place.                              *)
(***************************************************************************)
EXTENDS Rib, Sequences

CONSTANTS
  InCapacity,   \* capacity of in_queue_ (10000 in async_xface.h)
  Budget,       \* messages_to_check_ (350)
  MaxHellos     \* bound: hellos one agent sends

ASSUME NextIdAssumption == Agent = 0..(Cardinality(Agent) - 1)
ASSUME QueueAssumption ==
  InCapacity \in Nat \ {0} /\ Budget \in Nat \ {0} /\ MaxHellos \in Nat

VARIABLES
  next_id,     \* connection_manager::next_id_
  sessions,    \* keys of connection_manager::sessions_
  reading,     \* sessions with an outstanding read
  written,     \* sessions the controller's hello was sent to
  wfailed,     \* sessions with a failed write
  peer_lost,   \* sessions of which a read or a write failed before the
               \* controller closed them
  hellos,      \* per session: hellos read
  in_queue,    \* async_xface::in_queue_
  rem_msgs,    \* the rest of the budget of this period
  dropped,     \* update_rib() has discarded a message
  confused     \* sessions a message of which was lost or carried another tag,
               \* and those it was ascribed to

netVars == <<next_id, sessions, reading, written, wfailed, peer_lost, hellos>>
sbVars == <<vars, netVars, in_queue, rem_msgs, dropped, confused>>

Message == [type : {"new", "hello", "disconnect"}, tag : Agent]

SbTypeOK ==
  /\ next_id \in Nat
  /\ sessions \cup reading \cup written \cup wfailed \cup peer_lost
       \subseteq {a \in Agent : a < next_id}
  /\ hellos \in [Agent -> 0..MaxHellos]
  /\ in_queue \in Seq(Message) /\ Len(in_queue) <= InCapacity
  /\ rem_msgs \in 0..Budget
  /\ dropped \in BOOLEAN
  /\ confused \subseteq Agent
-----------------------------------------------------------------------------
SbInit ==
  /\ Init
  /\ next_id = 0
  /\ sessions = {} /\ reading = {} /\ written = {} /\ wfailed = {} /\ peer_lost = {}
  /\ hellos = [a \in Agent |-> 0]
  /\ in_queue = <<>>
  /\ rem_msgs = Budget
  /\ dropped = FALSE
  /\ confused = {}

\* Mutant: a new message overtakes the ones that wait.
MutForwardFirst(type, a, tag) ==
  LET room == Len(in_queue) < InCapacity
  IN  /\ in_queue' = IF room THEN <<[type |-> type, tag |-> tag]>> \o in_queue
                             ELSE in_queue
      /\ confused' = IF room /\ tag = a THEN confused ELSE confused \cup {a, tag}

\* forward_message(): a message of session a is pushed under some tag.  The
\* result of the push is ignored.
Forward(type, a, tag) ==
  LET room == Len(in_queue) < InCapacity
  IN  /\ in_queue' = IF room THEN Append(in_queue, [type |-> type, tag |-> tag])
                             ELSE in_queue
      /\ confused' = IF room /\ tag = a THEN confused ELSE confused \cup {a, tag}

\* The session ID a handler of session a's read finds through `this`.  A write
\* in progress would keep the object alive as well; it is not relied on.
TagsRead(a) ==
  IF a \in sessions THEN {a} ELSE {a} \cup {b \in Agent : a < b /\ b < next_id}

\* Handler of do_accept(): the session starts reading before the message that
\* announces it is queued, but its reads complete in this same thread.
Accept ==
  /\ next_id \in Agent
  /\ next_id' = next_id + 1
  /\ sessions' = sessions \cup {next_id}
  /\ reading' = reading \cup {next_id}
  /\ Forward("new", next_id, next_id)
  /\ UNCHANGED <<vars, written, wfailed, peer_lost, hellos, rem_msgs, dropped>>

\* Mutant: the error code is tested the wrong way round.
MutReadHelloFails(a) ==
  /\ a \in reading \cap written
  /\ hellos[a] < MaxHellos
  /\ hellos' = [hellos EXCEPT ![a] = @ + 1]
  /\ \E tag \in TagsRead(a) : Forward("disconnect", a, tag)
  /\ UNCHANGED <<vars, next_id, sessions, reading, written, wfailed, peer_lost,
                 rem_msgs, dropped>>

\* Handler of do_read_body(): a hello, which agents send after the controller's,
\* is forwarded and the next read started.  It may be handled after the session
\* was closed, if the data were there before.
ReadHello(a) ==
  /\ a \in reading \cap written
  /\ hellos[a] < MaxHellos
  /\ hellos' = [hellos EXCEPT ![a] = @ + 1]
  /\ \E tag \in TagsRead(a) : Forward("hello", a, tag)
  /\ UNCHANGED <<vars, next_id, sessions, reading, written, wfailed, peer_lost,
                 rem_msgs, dropped>>

\* Mutant: a failed read is not reported.
MutReadFailsSilently(a) ==
  /\ a \in reading
  /\ reading' = reading \ {a}
  /\ peer_lost' = IF a \in sessions THEN peer_lost \cup {a} ELSE peer_lost
  /\ UNCHANGED <<vars, next_id, sessions, written, wfailed, hellos, in_queue,
                 rem_msgs, dropped, confused>>

\* Handlers of do_read_header() and do_read_body() with an error, because the
\* agent is gone or the socket was closed: nothing is read any more.
ReadFailed(a) ==
  /\ a \in reading
  /\ reading' = reading \ {a}
  /\ peer_lost' = IF a \in sessions THEN peer_lost \cup {a} ELSE peer_lost
  /\ \E tag \in TagsRead(a) : Forward("disconnect", a, tag)
  /\ UNCHANGED <<vars, next_id, sessions, written, wfailed, hellos, rem_msgs, dropped>>

\* Handler of do_write() with an error; it holds the session by `self`.
WriteFailed(a) ==
  /\ a \in written \ wfailed
  /\ wfailed' = wfailed \cup {a}
  /\ peer_lost' = IF a \in sessions THEN peer_lost \cup {a} ELSE peer_lost
  /\ Forward("disconnect", a, a)
  /\ UNCHANGED <<vars, next_id, sessions, reading, written, hellos, rem_msgs, dropped>>
-----------------------------------------------------------------------------
\* Mutant: a disconnect does not close the connection.
MutDispatchKeepsSession(m) ==
  /\ \/ /\ m.type = "new"
        /\ NewConnection(m.tag)
        /\ written' \in {written, written \cup ({m.tag} \cap sessions)}
     \/ m.type = "hello" /\ Hello(m.tag) /\ UNCHANGED written
     \/ m.type = "disconnect" /\ Disconnect(m.tag) /\ UNCHANGED written
  /\ UNCHANGED sessions

\* The handler of message m, and release_connection() if it asks for it.  The
\* answer to a new connection is lost if send_msg() refuses it.
Dispatch(m) ==
  /\ \/ /\ m.type = "new"
        /\ NewConnection(m.tag)
        /\ written' \in {written, written \cup ({m.tag} \cap sessions)}
     \/ m.type = "hello" /\ Hello(m.tag) /\ UNCHANGED written
     \/ m.type = "disconnect" /\ Disconnect(m.tag) /\ UNCHANGED written
  /\ sessions' = IF m.type = "disconnect" \/ released' # released
                 THEN sessions \ {m.tag}
                 ELSE sessions

\* One turn of the loop of update_rib(): the condition takes a message before it
\* looks at the budget.
UpdateMessage ==
  /\ in_queue # <<>>
  /\ rem_msgs > 0
  /\ in_queue' = Tail(in_queue)
  /\ rem_msgs' = rem_msgs - 1
  /\ Dispatch(Head(in_queue))
  /\ UNCHANGED <<next_id, reading, wfailed, peer_lost, hellos, dropped, confused>>

\* The last turn with the budget used up: the message taken is discarded.
DropMessage ==
  /\ ~aborted
  /\ in_queue # <<>>
  /\ rem_msgs = 0
  /\ in_queue' = Tail(in_queue)
  /\ rem_msgs' = Budget
  /\ dropped' = TRUE
  /\ confused' = confused \cup {Head(in_queue).tag}
  /\ UNCHANGED <<vars, netVars>>

\* The last turn with the queue empty; a period later the budget is new.
EndUpdate ==
  /\ ~aborted
  /\ in_queue = <<>>
  /\ rem_msgs < Budget
  /\ rem_msgs' = Budget
  /\ UNCHANGED <<vars, netVars, in_queue, dropped, confused>>

Network ==
  \/ Accept
  \/ \E a \in Agent : ReadHello(a) \/ ReadFailed(a) \/ WriteFailed(a)

Updater == UpdateMessage \/ DropMessage \/ EndUpdate

SbNext == Network \/ Updater

SbSpec == SbInit /\ [][SbNext]_sbVars

\* The updater runs in every period, and the pending read of a closed socket is
\* aborted.  Nothing else has to happen.
SbFairness ==
  /\ WF_sbVars(Updater)
  /\ \A a \in Agent : WF_sbVars(a \notin sessions /\ ReadFailed(a))

SbFairSpec == SbSpec /\ SbFairness
-----------------------------------------------------------------------------
(***************************************************************************)
(* Properties                                                              *)
(***************************************************************************)

Queued(type, a) == \E i \in DOMAIN in_queue : in_queue[i] = [type |-> type, tag |-> a]

\* Whatever the RIB knows of an agent that sends one hello will be taken back: the
\* agent still has a read outstanding, whose failure will be reported, or its
\* disconnect is queued.  (An agent registered for a BS that announces another one
\* is forgotten for only one of them.)
KnownWillBeForgotten ==
  \A a \in Agent \ confused :
    hellos[a] <= 1 /\ Known(a) => a \in reading \/ Queued("disconnect", a)

\* After the end of a session's reads, its last message is its disconnect: a
\* hello that is handled later than the disconnect of a failed write is always
\* followed by one more.
DisconnectIsLast ==
  \A a \in Agent \ (confused \cup reading) :
    \A i \in DOMAIN in_queue :
      in_queue[i] = [type |-> "hello", tag |-> a] =>
        \E j \in DOMAIN in_queue : j > i /\ in_queue[j] = [type |-> "disconnect", tag |-> a]

\* A connection is announced to the updater before anything else of it, so that
\* the controller's hello is the first message of a session.
AnnouncedFirst ==
  \A a \in Agent \ confused :
    /\ conn[a] = "none" /\ a < next_id => Queued("new", a)
    /\ \A i, j \in DOMAIN in_queue :
         in_queue[i].tag = a /\ in_queue[j] = [type |-> "new", tag |-> a] => i >= j

\* An agent is only treated as disconnected if its connection failed or the
\* controller had given it up before.
OnlyLostDisconnected ==
  [][\A a \in Agent \ confused' :
       conn[a] # "gone" /\ conn'[a] = "gone" => a \in peer_lost \cup released]_sbVars

\* A session is kept exactly as long as the controller has not released it.
SessionsUntilReleased == sessions = {a \in Agent : a < next_id} \ released

\* Once a session does not read any more, its agent is forgotten, unless its
\* messages were lost or mistaken for another's, or it sent several hellos.
DeadForgotten ==
  \A a \in Agent :
    (a < next_id /\ a \notin reading) ~> \/ ~Known(a) /\ a \notin sessions
                                         \/ a \in confused
                                         \/ hellos[a] > 1

\* messages_to_check_ is the "Max number of messages to check during a single
\* update period" (rib_updater.h:109): the others stay for the next period.
BudgetDropsNothing == ~dropped
=============================================================================
