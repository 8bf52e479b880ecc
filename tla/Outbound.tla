------------------------------ MODULE Outbound ------------------------------
(***************************************************************************)
(* The way of a message from the controller to an agent (src/network):     *)
(* any thread puts it into out_queue_ and posts a handler to the           *)
(* io_service; the network thread takes one message per posted handler,    *)
(* looks its session up and appends it to the session's write queue, of    *)
(* which one element at a time is being written to the socket.  The task   *)
(* manager's thread erases sessions directly, without the network thread.  *)
(***************************************************************************)
EXTENDS Integers, Sequences, FiniteSets

CONSTANTS
  Producer,     \* threads that call send_msg: the task manager, REST threads
  Updater,      \* the producer that also releases connections (task manager)
  Session,      \* the sessions accepted so far
  OutCapacity,  \* capacity of out_queue_ (10000 in async_xface.h)
  MaxMsgs       \* bound: messages of one producer for one session

ASSUME ProducerAssumption == IsFiniteSet(Producer) /\ Updater \in Producer
ASSUME CapacityAssumption == OutCapacity \in Nat \ {0} /\ MaxMsgs \in Nat \ {0}

VARIABLES
  out_queue,    \* async_xface::out_queue_
  posted,       \* forward_msg_to_agent handlers posted and not yet run
  pc,           \* per producer: "idle", or "pushed" and about to post
  pushes,       \* per producer and session: messages send_msg accepted
  sessions,     \* keys of connection_manager::sessions_
  found,        \* message whose session was found, NoMsg outside of
                \* send_msg_to_agent()
  write_queue,  \* agent_session::write_queue_
  writes,       \* per session: outstanding async_write operations
  sent,         \* per session: messages completely written
  failed,       \* sessions with a failed write
  fault         \* "none", "empty_pop" (an uninitialised pointer was taken for
                \* a message) or "null_session" (operator[] made up a session)

vars == <<out_queue, posted, pc, pushes, sessions, found, write_queue, writes,
          sent, failed, fault>>

Msg == [from : Producer, to : Session, seq : 1..MaxMsgs]

NoMsg == [from |-> "none"]

TypeOK ==
  /\ out_queue \in Seq(Msg) /\ Len(out_queue) <= OutCapacity
  /\ posted \in Nat
  /\ pc \in [Producer -> {"idle", "pushed"}]
  /\ pushes \in [Producer -> [Session -> 0..MaxMsgs]]
  /\ sessions \subseteq Session
  /\ found \in Msg \cup {NoMsg}
  /\ write_queue \in [Session -> Seq(Msg)]
  /\ writes \in [Session -> Nat]
  /\ sent \in [Session -> Seq(Msg)]
  /\ failed \subseteq Session
  /\ fault \in {"none", "empty_pop", "null_session"}
-----------------------------------------------------------------------------
Init ==
  /\ out_queue = <<>>
  /\ posted = 0
  /\ pc = [p \in Producer |-> "idle"]
  /\ pushes = [p \in Producer |-> [s \in Session |-> 0]]
  /\ sessions = Session
  /\ found = NoMsg
  /\ write_queue = [s \in Session |-> <<>>]
  /\ writes = [s \in Session |-> 0]
  /\ sent = [s \in Session |-> <<>>]
  /\ failed = {}
  /\ fault = "none"

\* The network thread is not in the middle of a handler.
NetworkIdle == found = NoMsg

\* send_msg(), first half.  A full queue makes it return false: no change.
PushMsg(p, s) ==
  /\ fault = "none"
  /\ pc[p] = "idle"
  /\ pushes[p][s] < MaxMsgs
  /\ Len(out_queue) < OutCapacity
  /\ pushes' = [pushes EXCEPT ![p][s] = @ + 1]
  /\ out_queue' =
       Append(out_queue, [from |-> p, to |-> s, seq |-> pushes[p][s] + 1])
  /\ pc' = [pc EXCEPT ![p] = "pushed"]
  /\ UNCHANGED <<posted, sessions, found, write_queue, writes, sent, failed, fault>>

\* Mutant: the handler is posted even if another one is already waiting to be
\* posted, and once more.
MutPostTwice(p) ==
  /\ pc[p] = "pushed"
  /\ posted' = posted + 2
  /\ pc' = [pc EXCEPT ![p] = "idle"]
  /\ UNCHANGED <<out_queue, pushes, sessions, found, write_queue, writes, sent,
                 failed, fault>>

\* Mutant: a handler that is already posted is taken to be enough.
MutPostOnce(p) ==
  /\ pc[p] = "pushed"
  /\ posted' = IF posted = 0 THEN 1 ELSE posted
  /\ pc' = [pc EXCEPT ![p] = "idle"]
  /\ UNCHANGED <<out_queue, pushes, sessions, found, write_queue, writes, sent,
                 failed, fault>>

\* send_msg(), second half: io_service.post().
PostForward(p) ==
  /\ fault = "none"
  /\ pc[p] = "pushed"
  /\ posted' = posted + 1
  /\ pc' = [pc EXCEPT ![p] = "idle"]
  /\ UNCHANGED <<out_queue, pushes, sessions, found, write_queue, writes, sent,
                 failed, fault>>

\* forward_msg_to_agent() up to the lookup in send_msg_to_agent(): the result
\* of the pop is not tested; a message without a session is discarded.
ForwardMsg ==
  /\ fault = "none"
  /\ NetworkIdle
  /\ posted > 0
  /\ posted' = posted - 1
  /\ IF out_queue = <<>>
     THEN fault' = "empty_pop" /\ UNCHANGED <<out_queue, found>>
     ELSE /\ out_queue' = Tail(out_queue)
          /\ found' = IF Head(out_queue).to \in sessions THEN Head(out_queue) ELSE NoMsg
          /\ UNCHANGED fault
  /\ UNCHANGED <<pc, pushes, sessions, write_queue, writes, sent, failed>>

\* Mutant: a message that finds a write in progress goes to the front.
MutDeliverFront ==
  /\ ~NetworkIdle
  /\ found' = NoMsg
  /\ LET s == found.to IN
       /\ write_queue' = [write_queue EXCEPT ![s] = <<found>> \o @]
       /\ writes' = [writes EXCEPT ![s] = IF write_queue[s] = <<>> THEN @ + 1 ELSE @]
  /\ UNCHANGED <<out_queue, posted, pc, pushes, sessions, sent, failed, fault>>

\* The rest of send_msg_to_agent(): operator[] instead of the iterator found,
\* then agent_session::deliver(), which starts a write if none is in progress.
DeliverMsg ==
  /\ fault = "none"
  /\ ~NetworkIdle
  /\ found' = NoMsg
  /\ LET s == found.to IN
       IF s \in sessions
       THEN /\ write_queue' = [write_queue EXCEPT ![s] = Append(@, found)]
            /\ writes' = [writes EXCEPT ![s] = IF write_queue[s] = <<>> THEN @ + 1 ELSE @]
            /\ UNCHANGED fault
       ELSE fault' = "null_session" /\ UNCHANGED <<write_queue, writes>>
  /\ UNCHANGED <<out_queue, posted, pc, pushes, sessions, sent, failed>>

\* Mutant: the next element is only written when another message arrives.
MutWriteStops(s) ==
  /\ NetworkIdle
  /\ writes[s] > 0
  /\ sent' = [sent EXCEPT ![s] = Append(@, Head(write_queue[s]))]
  /\ write_queue' = [write_queue EXCEPT ![s] = Tail(@)]
  /\ writes' = [writes EXCEPT ![s] = @ - 1]
  /\ UNCHANGED <<out_queue, posted, pc, pushes, sessions, found, failed, fault>>

\* Completion of do_write(): the next element is written if there is one.
WriteDone(s) ==
  /\ fault = "none"
  /\ NetworkIdle
  /\ writes[s] > 0
  /\ sent' = [sent EXCEPT ![s] = Append(@, Head(write_queue[s]))]
  /\ write_queue' = [write_queue EXCEPT ![s] = Tail(@)]
  /\ writes' = [writes EXCEPT ![s] = IF Len(write_queue[s]) = 1 THEN @ - 1 ELSE @]
  /\ UNCHANGED <<out_queue, posted, pc, pushes, sessions, found, failed, fault>>

\* Completion of do_write() with an error: the element stays in the queue, a
\* disconnect message is generated, and nothing is written any more.
WriteFailed(s) ==
  /\ fault = "none"
  /\ NetworkIdle
  /\ writes[s] > 0
  /\ writes' = [writes EXCEPT ![s] = @ - 1]
  /\ failed' = failed \cup {s}
  /\ UNCHANGED <<out_queue, posted, pc, pushes, sessions, found, write_queue, sent, fault>>

\* close_connection(), in the task manager's thread between two of its sends.
\* A write in progress keeps the session object alive.
CloseConnection(s) ==
  /\ fault = "none"
  /\ pc[Updater] = "idle"
  /\ s \in sessions
  /\ sessions' = sessions \ {s}
  /\ UNCHANGED <<out_queue, posted, pc, pushes, found, write_queue, writes, sent,
                 failed, fault>>

Next ==
  \/ \E p \in Producer, s \in Session : PushMsg(p, s)
  \/ \E p \in Producer : PostForward(p)
  \/ ForwardMsg
  \/ DeliverMsg
  \/ \E s \in Session : WriteDone(s) \/ WriteFailed(s) \/ CloseConnection(s)

Spec == Init /\ [][Next]_vars

\* Threads run until they are done and a write completes one way or the other;
\* nobody has to send, and no connection has to be closed.
Fairness ==
  /\ \A p \in Producer : WF_vars(PostForward(p))
  /\ WF_vars(ForwardMsg)
  /\ WF_vars(DeliverMsg)
  /\ \A s \in Session : WF_vars(WriteDone(s) \/ WriteFailed(s))

FairSpec == Spec /\ Fairness
-----------------------------------------------------------------------------
\* A posted handler always finds a message, however the producers interleave:
\* forward_msg_to_agent() does not test the result of its pop.
NeverPopsEmpty ==
  /\ posted > 0 => out_queue # <<>>
  /\ fault # "empty_pop"

\* At most one write per socket is in progress, of the first element of a
\* queue that is not empty.
OneWriteAtATime ==
  \A s \in Session : writes[s] > 0 => writes[s] = 1 /\ write_queue[s] # <<>>

\* A session whose queue waits without a write is one that failed, so deliver()
\* is right to leave a non-empty queue alone.
QueueIsServed ==
  \A s \in Session : write_queue[s] # <<>> /\ writes[s] = 0 => s \in failed

\* A queue that is not empty is the only sign of a write in progress (agent_session.cc:34):
\* it is one in every session that has not failed, and then there is exactly one write.
WritesGoOn == OneWriteAtATime /\ QueueIsServed

\* The messages of p for s that q holds are number lo + 1 to hi, each once, in this order.
Carries(q, p, s, lo, hi) ==
  LET own == {i \in DOMAIN q : q[i].from = p /\ q[i].to = s}
  IN  /\ {q[i].seq : i \in own} = (lo + 1)..hi
      /\ \A i, j \in own : i < j => q[i].seq < q[j].seq

\* What send_msg_to_agent() has in its hands.
InHand == IF found = NoMsg THEN <<>> ELSE <<found>>

\* While a session exists, every message accepted for it is on its way or
\* written, once, in the order its producer sent it.
InOrder ==
  \A s \in sessions, p \in Producer :
    LET n == pushes[p][s] IN
      \E written \in 0..n : \E delivered \in written..n : \E forwarded \in delivered..n :
        /\ Carries(sent[s], p, s, 0, written)
        /\ Carries(write_queue[s], p, s, written, delivered)
        /\ Carries(InHand, p, s, delivered, forwarded)
        /\ Carries(out_queue, p, s, forwarded, n)

\* Even after the session was closed nothing is written twice or out of order.
SentInOrder ==
  \A s \in Session, p \in Producer :
    \E written \in 0..pushes[p][s] : Carries(sent[s], p, s, 0, written)

\* Both: whatever the threads do in between, a message is neither lost nor overtaken.
DeliveredInOrder == InOrder /\ SentInOrder

\* A message for a session that does not exist is discarded
\* (connection_manager.cc:40), never delivered.
MissingSessionDiscarded == fault # "null_session"

\* Every accepted message is eventually written unless its session fails, is
\* closed or the process is lost.
EventuallyWritten ==
  \A s \in Session, p \in Producer, k \in 1..MaxMsgs :
    pushes[p][s] >= k ~> \/ \E i \in DOMAIN sent[s] :
                              sent[s][i] = [from |-> p, to |-> s, seq |-> k]
                         \/ s \in failed
                         \/ s \notin sessions
                         \/ fault # "none"
=============================================================================
