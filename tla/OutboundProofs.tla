--------------------------- MODULE OutboundProofs ---------------------------
(***************************************************************************)
(* Proofs about Outbound, for any number of threads, sessions and messages *)
(* and any capacity: the accounting of posted handlers and of writes.      *)
(***************************************************************************)
EXTENDS Outbound, FiniteSetTheorems, TLAPS

Pushed == {p \in Producer : pc[p] = "pushed"}

\* Every element of out_queue has its handler posted, or has a producer that is
\* about to post it.
Accounting ==
  /\ Len(out_queue) = posted + Cardinality(Pushed)
  /\ fault # "empty_pop"

IInv == TypeOK /\ Accounting /\ OneWriteAtATime /\ QueueIsServed

LEMMA PushedFinite == IsFiniteSet(Pushed) /\ Cardinality(Pushed) \in Nat
  BY ProducerAssumption, FS_Subset, FS_CardinalityType DEF Pushed

LEMMA PushedFinitePrime == (IsFiniteSet(Pushed) /\ Cardinality(Pushed) \in Nat)'
  BY PushedFinite, PTL

LEMMA AppendNotEmpty ==
  ASSUME NEW S, NEW q \in Seq(S), NEW e \in S
  PROVE  Append(q, e) # <<>>
<1>1. Len(Append(q, e)) = Len(q) + 1 /\ Len(q) \in Nat
  OBVIOUS
<1> QED
  BY <1>1

LEMMA TailEmpty ==
  ASSUME NEW S, NEW q \in Seq(S), q # <<>>
  PROVE  Tail(q) = <<>> <=> Len(q) = 1
<1>1. Tail(q) \in Seq(S) /\ Len(Tail(q)) = Len(q) - 1 /\ Len(q) \in Nat
  OBVIOUS
<1> DEFINE t == Tail(q)
<1>2. t \in Seq(S)
  BY <1>1
<1> HIDE DEF t
<1>3. t = <<>> <=> Len(t) = 0
  BY <1>2
<1> QED
  BY <1>1, <1>3 DEF t

LEMMA InitIInv == Init => IInv
<1> SUFFICES ASSUME Init PROVE IInv
  OBVIOUS
<1>1. Pushed = {}
  BY DEF Init, Pushed
<1>2. Cardinality(Pushed) = 0
  BY <1>1, FS_EmptySet
<1>3. Accounting
  BY <1>2 DEF Init, Accounting
<1>4. TypeOK
  BY CapacityAssumption DEF Init, TypeOK
<1>5. OneWriteAtATime /\ QueueIsServed
  BY DEF Init, OneWriteAtATime, QueueIsServed
<1> QED
  BY <1>3, <1>4, <1>5 DEF IInv

\* Types, action by action.
LEMMA NextType == TypeOK /\ OneWriteAtATime /\ [Next]_vars => TypeOK'
<1> SUFFICES ASSUME TypeOK, OneWriteAtATime, [Next]_vars PROVE TypeOK'
  OBVIOUS
<1> USE CapacityAssumption
<1>1. ASSUME NEW p \in Producer, NEW s \in Session, PushMsg(p, s) PROVE TypeOK'
  <2> DEFINE m == [from |-> p, to |-> s, seq |-> pushes[p][s] + 1]
  <2>1. m \in Msg
    BY <1>1 DEF TypeOK, PushMsg, Msg
  <2>2. /\ out_queue' = Append(out_queue, m)
        /\ Len(out_queue) < OutCapacity
    BY <1>1 DEF PushMsg
  <2> HIDE DEF m
  <2>3. out_queue' \in Seq(Msg) /\ Len(out_queue') <= OutCapacity
    BY <2>1, <2>2 DEF TypeOK
  <2>4. pushes' \in [Producer -> [Session -> 0..MaxMsgs]]
    BY <1>1 DEF TypeOK, PushMsg
  <2> QED
    BY <1>1, <2>3, <2>4 DEF TypeOK, PushMsg
<1>2. ASSUME NEW p \in Producer, PostForward(p) PROVE TypeOK'
  BY <1>2 DEF TypeOK, PostForward
<1>3. ASSUME ForwardMsg PROVE TypeOK'
  <2>1. CASE out_queue = <<>>
    BY <1>3, <2>1 DEF TypeOK, ForwardMsg
  <2>2. CASE out_queue # <<>>
    <3>1. Tail(out_queue) \in Seq(Msg) /\ Len(Tail(out_queue)) <= OutCapacity
      BY <2>2 DEF TypeOK
    <3>2. Head(out_queue) \in Msg
      BY <2>2 DEF TypeOK
    <3>3. /\ out_queue' = Tail(out_queue)
          /\ found' \in {Head(out_queue), NoMsg}
          /\ fault' = fault
      BY <1>3, <2>2 DEF ForwardMsg
    <3>4. posted' \in Nat
      BY <1>3 DEF TypeOK, ForwardMsg
    <3>5. UNCHANGED <<pc, pushes, sessions, write_queue, writes, sent, failed>>
      BY <1>3 DEF ForwardMsg
    <3> QED
      BY <3>1, <3>2, <3>3, <3>4, <3>5 DEF TypeOK
  <2> QED
    BY <2>1, <2>2
<1>4. ASSUME DeliverMsg PROVE TypeOK'
  <2>1. found \in Msg
    BY <1>4 DEF TypeOK, DeliverMsg, NetworkIdle
  <2>2. found.to \in Session
    BY <2>1 DEF Msg
  <2>3. Append(write_queue[found.to], found) \in Seq(Msg)
    BY <2>1, <2>2 DEF TypeOK
  <2>4. \/ UNCHANGED <<write_queue, writes>>
        \/ /\ write_queue' = [write_queue EXCEPT ![found.to] = Append(@, found)]
           /\ writes' = [writes EXCEPT ![found.to] =
                                IF write_queue[found.to] = <<>> THEN @ + 1 ELSE @]
    BY <1>4 DEF DeliverMsg
  <2>6. write_queue' \in [Session -> Seq(Msg)]
    BY <2>2, <2>3, <2>4 DEF TypeOK
  <2>7. writes' \in [Session -> Nat]
    <3>1. writes[found.to] \in Nat /\ writes[found.to] + 1 \in Nat
      BY <2>2 DEF TypeOK
    <3>2. \/ writes' = writes
          \/ writes' = [writes EXCEPT ![found.to] = writes[found.to] + 1]
          \/ writes' = [writes EXCEPT ![found.to] = writes[found.to]]
      BY <2>4
    <3> QED
      BY <2>2, <3>1, <3>2 DEF TypeOK
  <2>5. /\ found' = NoMsg
        /\ fault' \in {fault, "null_session"}
        /\ UNCHANGED <<out_queue, posted, pc, pushes, sessions, sent, failed>>
    BY <1>4 DEF DeliverMsg
  <2> QED
    BY <2>5, <2>6, <2>7 DEF TypeOK
<1>5. ASSUME NEW s \in Session, WriteDone(s) PROVE TypeOK'
  <2>1. writes[s] = 1 /\ write_queue[s] # <<>>
    BY <1>5 DEF TypeOK, WriteDone, OneWriteAtATime
  <2>2. /\ Head(write_queue[s]) \in Msg
        /\ Tail(write_queue[s]) \in Seq(Msg)
    BY <2>1 DEF TypeOK
  <2>3. Append(sent[s], Head(write_queue[s])) \in Seq(Msg)
    BY <2>2 DEF TypeOK
  <2>4. sent' \in [Session -> Seq(Msg)] /\ write_queue' \in [Session -> Seq(Msg)]
    BY <1>5, <2>2, <2>3 DEF TypeOK, WriteDone
  <2>5. writes' \in [Session -> Nat]
    BY <1>5, <2>1 DEF TypeOK, WriteDone
  <2> QED
    BY <1>5, <2>4, <2>5 DEF TypeOK, WriteDone
<1>6. ASSUME NEW s \in Session, WriteFailed(s) PROVE TypeOK'
  BY <1>6 DEF TypeOK, WriteFailed
<1>7. ASSUME NEW s \in Session, CloseConnection(s) PROVE TypeOK'
  BY <1>7 DEF TypeOK, CloseConnection
<1>8. CASE UNCHANGED vars
  BY <1>8 DEF TypeOK, vars
<1> QED
  BY <1>1, <1>2, <1>3, <1>4, <1>5, <1>6, <1>7, <1>8 DEF Next

\* A handler is posted for each message that was pushed, and only then.
LEMMA NextAccounting == TypeOK /\ Accounting /\ [Next]_vars => Accounting'
<1> SUFFICES ASSUME TypeOK, Accounting, [Next]_vars PROVE Accounting'
  OBVIOUS
<1> USE PushedFinite, PushedFinitePrime
<1>1. ASSUME NEW p \in Producer, NEW s \in Session, PushMsg(p, s) PROVE Accounting'
  <2>1. Pushed' = Pushed \cup {p} /\ p \notin Pushed
    BY <1>1 DEF TypeOK, PushMsg, Pushed
  <2>2. Cardinality(Pushed') = Cardinality(Pushed) + 1
    BY <2>1, FS_AddElement
  <2>3. Len(out_queue') = Len(out_queue) + 1
    BY <1>1 DEF TypeOK, PushMsg
  <2>4. posted' = posted /\ posted \in Nat /\ fault' = fault
    BY <1>1 DEF TypeOK, PushMsg
  <2> QED
    BY <2>2, <2>3, <2>4 DEF Accounting
<1>2. ASSUME NEW p \in Producer, PostForward(p) PROVE Accounting'
  <2>1. Pushed' = Pushed \ {p} /\ p \in Pushed
    BY <1>2 DEF TypeOK, PostForward, Pushed
  <2>2. Cardinality(Pushed') = Cardinality(Pushed) - 1
    BY <2>1, FS_RemoveElement
  <2>3. /\ out_queue' = out_queue /\ fault' = fault
        /\ posted' = posted + 1 /\ posted \in Nat
    BY <1>2 DEF TypeOK, PostForward
  <2> QED
    BY <2>2, <2>3 DEF Accounting
<1>3. ASSUME ForwardMsg PROVE Accounting'
  <2>1. Pushed' = Pushed
    BY <1>3 DEF ForwardMsg, Pushed
  <2>2. posted' = posted - 1 /\ posted > 0 /\ posted \in Nat
    BY <1>3 DEF TypeOK, ForwardMsg
  <2>3. out_queue # <<>>
    BY <2>2 DEF Accounting, TypeOK
  <2>4. out_queue' = Tail(out_queue) /\ fault' = fault
    BY <1>3, <2>3 DEF ForwardMsg
  <2>5. Len(out_queue') = Len(out_queue) - 1
    BY <2>3, <2>4 DEF TypeOK
  <2> QED
    BY <2>1, <2>2, <2>4, <2>5 DEF Accounting
<1>4. ASSUME \/ DeliverMsg
             \/ \E s \in Session : WriteDone(s) \/ WriteFailed(s) \/ CloseConnection(s)
             \/ UNCHANGED vars
      PROVE  Accounting'
  <2>1. /\ out_queue' = out_queue /\ posted' = posted /\ Pushed' = Pushed
        /\ fault' \in {fault, "null_session"}
    BY <1>4 DEF DeliverMsg, WriteDone, WriteFailed, CloseConnection, vars, Pushed
  <2> QED
    BY <2>1 DEF Accounting
<1> QED
  BY <1>1, <1>2, <1>3, <1>4 DEF Next

\* A write is started when the first message is queued, and the next one when
\* it is done: the queue is only left alone by a failed session.
LEMMA NextWrites ==
  TypeOK /\ OneWriteAtATime /\ QueueIsServed /\ [Next]_vars
    => (OneWriteAtATime /\ QueueIsServed)'
<1> SUFFICES ASSUME TypeOK, OneWriteAtATime, QueueIsServed, [Next]_vars
             PROVE  (OneWriteAtATime /\ QueueIsServed)'
  OBVIOUS
<1> DEFINE Served(s) == /\ writes[s] > 0 => writes[s] = 1 /\ write_queue[s] # <<>>
                        /\ write_queue[s] # <<>> /\ writes[s] = 0 => s \in failed
<1>1. \A s \in Session : Served(s)
  BY DEF OneWriteAtATime, QueueIsServed
<1>2. SUFFICES \A s \in Session : Served(s)'
  BY DEF OneWriteAtATime, QueueIsServed
<1>3. ASSUME DeliverMsg PROVE \A s \in Session : Served(s)'
  <2>1. found \in Msg /\ found.to \in Session
    BY <1>3 DEF TypeOK, DeliverMsg, NetworkIdle, Msg
  <2>2. CASE found.to \notin sessions
    BY <1>1, <1>3, <2>2 DEF DeliverMsg
  <2>3. CASE found.to \in sessions
    <3> TAKE s \in Session
    <3>1. CASE s # found.to
      BY <1>1, <1>3, <2>1, <2>3, <3>1 DEF DeliverMsg, TypeOK
    <3>2. CASE s = found.to
      <4>1. write_queue'[s] = Append(write_queue[s], found) /\ failed' = failed
        BY <1>3, <2>3, <3>2 DEF DeliverMsg, TypeOK
      <4>2. write_queue'[s] # <<>>
        BY <4>1, <2>1, AppendNotEmpty DEF TypeOK
      <4>3. writes'[s] = IF write_queue[s] = <<>> THEN writes[s] + 1 ELSE writes[s]
        BY <1>3, <2>3, <3>2 DEF DeliverMsg, TypeOK
      <4>4. writes[s] \in Nat
        BY DEF TypeOK
      <4> QED
        BY <1>1, <4>1, <4>2, <4>3, <4>4
    <3> QED
      BY <3>1, <3>2
  <2> QED
    BY <2>2, <2>3
<1>4. ASSUME NEW t \in Session, WriteDone(t) PROVE \A s \in Session : Served(s)'
  <2> TAKE s \in Session
  <2>1. CASE s # t
    BY <1>1, <1>4, <2>1 DEF WriteDone, TypeOK
  <2>2. CASE s = t
    <3>1. writes[s] = 1 /\ write_queue[s] # <<>>
      BY <1>1, <1>4, <2>2 DEF WriteDone, TypeOK
    <3>2. /\ write_queue'[s] = Tail(write_queue[s])
          /\ writes'[s] = IF Len(write_queue[s]) = 1 THEN 0 ELSE 1
      BY <1>4, <2>2, <3>1 DEF WriteDone, TypeOK
    <3>3. write_queue[s] \in Seq(Msg)
      BY DEF TypeOK
    <3>4. write_queue'[s] = <<>> <=> Len(write_queue[s]) = 1
      BY <3>1, <3>2, <3>3, TailEmpty
    <3> QED
      BY <3>2, <3>4
  <2> QED
    BY <2>1, <2>2
<1>5. ASSUME NEW t \in Session, WriteFailed(t) PROVE \A s \in Session : Served(s)'
  BY <1>1, <1>5 DEF WriteFailed, TypeOK
<1>6. ASSUME \/ \E p \in Producer, s \in Session : PushMsg(p, s)
             \/ \E p \in Producer : PostForward(p)
             \/ ForwardMsg
             \/ \E s \in Session : CloseConnection(s)
             \/ UNCHANGED vars
      PROVE  \A s \in Session : Served(s)'
  <2>1. write_queue' = write_queue /\ writes' = writes /\ failed' = failed
    BY <1>6 DEF PushMsg, PostForward, ForwardMsg, CloseConnection, vars
  <2> QED
    BY <1>1, <2>1
<1> HIDE DEF Served
<1> QED
  BY <1>3, <1>4, <1>5, <1>6 DEF Next

-----------------------------------------------------------------------------
(***************************************************************************)
(* The order of messages: those of one producer for one session are an     *)
(* interval of numbers in each of the places a message can be.             *)
(***************************************************************************)

Own(q, i, p, s) == q[i].from = p /\ q[i].to = s

LEMMA CarriesEach ==
  ASSUME NEW q, NEW p, NEW s, NEW lo, NEW hi
  PROVE  Carries(q, p, s, lo, hi) <=>
           /\ \A i \in DOMAIN q : Own(q, i, p, s) => q[i].seq \in (lo + 1)..hi
           /\ \A k \in (lo + 1)..hi : \E i \in DOMAIN q : Own(q, i, p, s) /\ q[i].seq = k
           /\ \A i, j \in DOMAIN q :
                Own(q, i, p, s) /\ Own(q, j, p, s) /\ i < j => q[i].seq < q[j].seq
<1> DEFINE own == {i \in DOMAIN q : q[i].from = p /\ q[i].to = s}
<1>1. {q[i].seq : i \in own} = (lo + 1)..hi <=>
        /\ \A i \in DOMAIN q : Own(q, i, p, s) => q[i].seq \in (lo + 1)..hi
        /\ \A k \in (lo + 1)..hi : \E i \in DOMAIN q : Own(q, i, p, s) /\ q[i].seq = k
  BY DEF Own
<1>2. (\A i, j \in own : i < j => q[i].seq < q[j].seq) <=>
        \A i, j \in DOMAIN q :
          Own(q, i, p, s) /\ Own(q, j, p, s) /\ i < j => q[i].seq < q[j].seq
  BY DEF Own
<1> QED BY <1>1, <1>2 DEF Carries

\* An empty place carries nothing, and only that.
LEMMA CarriesNothing ==
  ASSUME NEW p, NEW s, NEW lo \in Nat, NEW hi \in Nat, lo <= hi
  PROVE  Carries(<<>>, p, s, lo, hi) <=> lo = hi
<1> DEFINE q == <<>>
<1>1. DOMAIN q = {}
  OBVIOUS
<1> HIDE DEF q
<1>2. Carries(q, p, s, lo, hi) <=> \A k \in (lo + 1)..hi : FALSE
  BY <1>1, CarriesEach
<1>3. (\A k \in (lo + 1)..hi : FALSE) <=> lo = hi
  <2>1. lo # hi => lo + 1 \in (lo + 1)..hi
    OBVIOUS
  <2>2. lo = hi => (lo + 1)..hi = {}
    OBVIOUS
  <2> QED BY <2>1, <2>2
<1> QED BY <1>2, <1>3 DEF q

\* A message is added at the end.
LEMMA CarriesMore ==
  ASSUME NEW q \in Seq(Msg), NEW m \in Msg, NEW p, NEW s, NEW lo \in Nat, NEW hi \in Nat,
         lo <= hi, Carries(q, p, s, lo, hi)
  PROVE  /\ m.from = p /\ m.to = s /\ m.seq = hi + 1 =>
              Carries(Append(q, m), p, s, lo, hi + 1)
         /\ ~ (m.from = p /\ m.to = s) => Carries(Append(q, m), p, s, lo, hi)
<1> DEFINE r == Append(q, m)
           n == Len(q) + 1
<1>1. /\ n \in DOMAIN r /\ r[n] = m /\ n \in Nat
      /\ \A i \in DOMAIN q : i \in DOMAIN r /\ r[i] = q[i] /\ i < n /\ i \in Nat
      /\ \A i \in DOMAIN r : i = n \/ i \in DOMAIN q
  OBVIOUS
<1>2. \A i \in DOMAIN q : q[i] \in Msg
  OBVIOUS
<1> HIDE DEF r, n
<1>3. /\ \A i \in DOMAIN q : Own(q, i, p, s) => q[i].seq \in (lo + 1)..hi
      /\ \A k \in (lo + 1)..hi : \E i \in DOMAIN q : Own(q, i, p, s) /\ q[i].seq = k
      /\ \A i, j \in DOMAIN q :
           Own(q, i, p, s) /\ Own(q, j, p, s) /\ i < j => q[i].seq < q[j].seq
  BY CarriesEach
<1>4. \A i \in DOMAIN q : Own(r, i, p, s) <=> Own(q, i, p, s)
  BY <1>1 DEF Own
<1>5. ASSUME m.from = p, m.to = s, m.seq = hi + 1
      PROVE  Carries(r, p, s, lo, hi + 1)
  <2>1. Own(r, n, p, s) /\ r[n].seq = hi + 1
    BY <1>1, <1>5 DEF Own
  <2>2. \A i \in DOMAIN r : Own(r, i, p, s) => r[i].seq \in (lo + 1)..(hi + 1)
    BY <1>1, <1>3, <1>4, <2>1
  <2>3. \A k \in (lo + 1)..(hi + 1) : \E i \in DOMAIN r : Own(r, i, p, s) /\ r[i].seq = k
    <3> TAKE k \in (lo + 1)..(hi + 1)
    <3>1. CASE k = hi + 1
      BY <1>1, <2>1, <3>1
    <3>2. CASE k \in (lo + 1)..hi
      BY <1>1, <1>3, <1>4, <3>2
    <3> QED BY <3>1, <3>2
  <2>4. \A i, j \in DOMAIN r :
          Own(r, i, p, s) /\ Own(r, j, p, s) /\ i < j => r[i].seq < r[j].seq
    <3> TAKE i, j \in DOMAIN r
    <3> HAVE Own(r, i, p, s) /\ Own(r, j, p, s) /\ i < j
    <3>1. i \in DOMAIN q
      BY <1>1
    <3>2. CASE j = n
      BY <1>1, <1>3, <1>4, <2>1, <3>1, <3>2
    <3>3. CASE j \in DOMAIN q
      BY <1>1, <1>3, <1>4, <3>1, <3>3
    <3> QED BY <1>1, <3>2, <3>3
  <2> QED BY <2>2, <2>3, <2>4, CarriesEach
<1>6. ASSUME ~ (m.from = p /\ m.to = s)
      PROVE  Carries(r, p, s, lo, hi)
  <2>1. \A i \in DOMAIN r : Own(r, i, p, s) => i \in DOMAIN q
    BY <1>1, <1>6 DEF Own
  <2>2. \A i \in DOMAIN r : Own(r, i, p, s) => r[i].seq \in (lo + 1)..hi
    BY <1>1, <1>3, <1>4, <2>1
  <2>3. \A k \in (lo + 1)..hi : \E i \in DOMAIN r : Own(r, i, p, s) /\ r[i].seq = k
    BY <1>1, <1>3, <1>4
  <2>4. \A i, j \in DOMAIN r :
          Own(r, i, p, s) /\ Own(r, j, p, s) /\ i < j => r[i].seq < r[j].seq
    BY <1>1, <1>3, <1>4, <2>1
  <2> QED BY <2>2, <2>3, <2>4, CarriesEach
<1> QED BY <1>5, <1>6 DEF r

\* The first message is taken.
LEMMA CarriesLess ==
  ASSUME NEW q \in Seq(Msg), q # <<>>, NEW p, NEW s, NEW lo \in Nat, NEW hi \in Nat,
         lo <= hi, Carries(q, p, s, lo, hi), NEW m, m = Head(q)
  PROVE  /\ m \in Msg
         /\ m.from = p /\ m.to = s =>
              m.seq = lo + 1 /\ lo + 1 <= hi /\ Carries(Tail(q), p, s, lo + 1, hi)
         /\ ~ (m.from = p /\ m.to = s) => Carries(Tail(q), p, s, lo, hi)
<1> DEFINE r == Tail(q)
<1>1. /\ 1 \in DOMAIN q /\ q[1] = m
      /\ \A i \in DOMAIN q : i \in Nat /\ i >= 1 /\ q[i] \in Msg
      /\ \A i \in DOMAIN r : i \in Nat /\ i >= 1 /\ i + 1 \in DOMAIN q /\ r[i] = q[i + 1]
      /\ \A i \in DOMAIN q : i # 1 => i - 1 \in DOMAIN r /\ r[i - 1] = q[i]
  <2>1. Len(q) \in Nat /\ Len(q) >= 1 /\ DOMAIN q = 1..Len(q) /\ DOMAIN r = 1..(Len(q) - 1)
    OBVIOUS
  <2>2. \A i \in 1..(Len(q) - 1) : r[i] = q[i + 1]
    BY <2>1
  <2>3. \A i \in 1..Len(q) : q[i] \in Msg
    BY <2>1
  <2> QED BY <2>1, <2>2, <2>3
<1>2. \A k \in Msg : k.seq \in Nat
  BY CapacityAssumption DEF Msg
<1> HIDE DEF r
<1>3. /\ \A i \in DOMAIN q : Own(q, i, p, s) => q[i].seq \in (lo + 1)..hi
      /\ \A k \in (lo + 1)..hi : \E i \in DOMAIN q : Own(q, i, p, s) /\ q[i].seq = k
      /\ \A i, j \in DOMAIN q :
           Own(q, i, p, s) /\ Own(q, j, p, s) /\ i < j => q[i].seq < q[j].seq
  BY CarriesEach
<1>4. \A i \in DOMAIN r : (Own(r, i, p, s) <=> Own(q, i + 1, p, s)) /\ r[i].seq = q[i + 1].seq
  BY <1>1 DEF Own
<1>5. \A i, j \in DOMAIN r :
        Own(r, i, p, s) /\ Own(r, j, p, s) /\ i < j => r[i].seq < r[j].seq
  <2> TAKE i, j \in DOMAIN r
  <2> HAVE Own(r, i, p, s) /\ Own(r, j, p, s) /\ i < j
  <2>1. i + 1 \in DOMAIN q /\ j + 1 \in DOMAIN q /\ i + 1 < j + 1
    BY <1>1
  <2> QED BY <1>3, <1>4, <2>1
<1>6. ASSUME m.from = p, m.to = s
      PROVE  m.seq = lo + 1 /\ lo + 1 <= hi /\ Carries(r, p, s, lo + 1, hi)
  <2>1. Own(q, 1, p, s) /\ m.seq \in (lo + 1)..hi
    BY <1>1, <1>3, <1>6 DEF Own
  <2>2. \A i \in DOMAIN q : Own(q, i, p, s) /\ i # 1 => m.seq < q[i].seq
    <3> SUFFICES ASSUME NEW i \in DOMAIN q, Own(q, i, p, s), i # 1 PROVE m.seq < q[i].seq
      OBVIOUS
    <3>1. 1 < i
      BY <1>1
    <3> QED BY <1>1, <1>3, <2>1, <3>1
  <2>3. m.seq = lo + 1 /\ lo + 1 <= hi
    <3>1. lo + 1 \in (lo + 1)..hi
      BY <2>1
    <3>2. PICK i \in DOMAIN q : Own(q, i, p, s) /\ q[i].seq = lo + 1
      BY <1>3, <3>1
    <3> QED BY <1>1, <2>1, <2>2, <3>2
  <2>4. \A i \in DOMAIN r : Own(r, i, p, s) => r[i].seq \in (lo + 1 + 1)..hi
    <3> TAKE i \in DOMAIN r
    <3> HAVE Own(r, i, p, s)
    <3>1. i + 1 \in DOMAIN q /\ Own(q, i + 1, p, s) /\ i + 1 # 1 /\ r[i].seq = q[i + 1].seq
      BY <1>1, <1>4
    <3>2. q[i + 1].seq \in (lo + 1)..hi /\ lo + 1 < q[i + 1].seq
      BY <1>3, <2>2, <2>3, <3>1
    <3> QED BY <3>1, <3>2
  <2>5. \A k \in (lo + 1 + 1)..hi : \E i \in DOMAIN r : Own(r, i, p, s) /\ r[i].seq = k
    <3> TAKE k \in (lo + 1 + 1)..hi
    <3>1. PICK i \in DOMAIN q : Own(q, i, p, s) /\ q[i].seq = k
      BY <1>3
    <3>2. i # 1 /\ i \in Nat
      BY <1>1, <2>3, <3>1
    <3>3. i - 1 \in DOMAIN r /\ (i - 1) + 1 = i
      BY <1>1, <3>2
    <3> QED BY <1>4, <3>1, <3>3
  <2> QED BY <1>5, <2>3, <2>4, <2>5, CarriesEach
<1>7. ASSUME ~ (m.from = p /\ m.to = s)
      PROVE  Carries(r, p, s, lo, hi)
  <2>1. ~ Own(q, 1, p, s)
    BY <1>1, <1>7 DEF Own
  <2>2. \A i \in DOMAIN r : Own(r, i, p, s) => r[i].seq \in (lo + 1)..hi
    BY <1>1, <1>3, <1>4
  <2>3. \A k \in (lo + 1)..hi : \E i \in DOMAIN r : Own(r, i, p, s) /\ r[i].seq = k
    <3> TAKE k \in (lo + 1)..hi
    <3>1. PICK i \in DOMAIN q : Own(q, i, p, s) /\ q[i].seq = k
      BY <1>3
    <3>2. i # 1 /\ i \in Nat
      BY <1>1, <2>1, <3>1
    <3>3. i - 1 \in DOMAIN r /\ (i - 1) + 1 = i
      BY <1>1, <3>2
    <3> QED BY <1>4, <3>1, <3>3
  <2> QED BY <1>5, <2>2, <2>3, CarriesEach
<1> QED BY <1>1, <1>6, <1>7 DEF r

\* Where the messages of p for s are, while the session exists; of what its write queue has
\* taken over nothing is lost when the session is erased.
Way(s, p) ==
  LET n == pushes[p][s] IN
    \E written \in 0..n : \E delivered \in written..n :
      /\ Carries(sent[s], p, s, 0, written)
      /\ Carries(write_queue[s], p, s, written, delivered)
      /\ s \in sessions =>
           \E forwarded \in delivered..n :
             /\ Carries(InHand, p, s, delivered, forwarded)
             /\ Carries(out_queue, p, s, forwarded, n)

Ways == \A s \in Session, p \in Producer : Way(s, p)

\* A message in hand is the next one of its producer for its session.
LEMMA InHandNext ==
  ASSUME NEW p, NEW s, NEW lo \in Nat, NEW hi \in Nat, lo <= hi,
         Carries(InHand, p, s, lo, hi), found \in Msg \cup {NoMsg}
  PROVE  /\ found \in Msg /\ found.from = p /\ found.to = s =>
              found.seq = lo + 1 /\ hi = lo + 1
         /\ ~ (found \in Msg /\ found.from = p /\ found.to = s) => hi = lo
<1>1. CASE found = NoMsg
  <2>1. NoMsg \notin Msg
    BY DEF NoMsg, Msg
  <2> QED BY <1>1, <2>1, CarriesNothing DEF InHand
<1>2. CASE found # NoMsg
  <2> DEFINE q == <<found>>
             e == <<>>
  <2>1. q \in Seq(Msg) /\ q # <<>> /\ Head(q) = found /\ Tail(q) = e /\ found \in Msg
    BY <1>2
  <2>2. Carries(q, p, s, lo, hi)
    BY <1>2 DEF InHand
  <2> HIDE DEF q, e
  <2>3. CASE found.from = p /\ found.to = s
    <3> DEFINE r == Tail(q)
    <3>a. found.seq = lo + 1 /\ lo + 1 <= hi /\ Carries(r, p, s, lo + 1, hi)
      BY <2>1, <2>2, <2>3, CarriesLess
    <3> HIDE DEF r
    <3>b. r = e
      BY <2>1 DEF r
    <3>1. found.seq = lo + 1 /\ lo + 1 <= hi /\ Carries(e, p, s, lo + 1, hi)
      BY <3>a, <3>b
    <3> QED BY <2>1, <2>3, <3>1, CarriesNothing DEF e
  <2>4. CASE ~ (found.from = p /\ found.to = s)
    <3>1. Carries(e, p, s, lo, hi)
      BY <2>1, <2>2, <2>4, CarriesLess
    <3> QED BY <2>1, <2>4, <3>1, CarriesNothing DEF e
  <2> QED BY <2>3, <2>4
<1> QED BY <1>1, <1>2

LEMMA OneInHand ==
  ASSUME NEW m \in Msg, NEW p, NEW s, NEW lo \in Nat
  PROVE  /\ m.from = p /\ m.to = s /\ m.seq = lo + 1 => Carries(<<m>>, p, s, lo, lo + 1)
         /\ ~ (m.from = p /\ m.to = s) => Carries(<<m>>, p, s, lo, lo)
<1> DEFINE e == <<>>
           r == <<m>>
<1>1. e \in Seq(Msg) /\ r = Append(e, m)
  OBVIOUS
<1>2. Carries(e, p, s, lo, lo)
  BY CarriesNothing
<1> HIDE DEF e, r
<1>3. /\ m.from = p /\ m.to = s /\ m.seq = lo + 1 => Carries(r, p, s, lo, lo + 1)
      /\ ~ (m.from = p /\ m.to = s) => Carries(r, p, s, lo, lo)
  BY <1>1, <1>2, CarriesMore
<1> QED BY <1>3 DEF r

LEMMA WayParts ==
  ASSUME TypeOK, Ways, NEW s \in Session, NEW p \in Producer, NEW n, n = pushes[p][s]
  PROVE  \E written \in Nat, delivered \in Nat :
           /\ written \in 0..n /\ delivered \in written..n
           /\ Carries(sent[s], p, s, 0, written)
           /\ Carries(write_queue[s], p, s, written, delivered)
           /\ s \in sessions =>
                \E forwarded \in delivered..n :
                  /\ Carries(InHand, p, s, delivered, forwarded)
                  /\ Carries(out_queue, p, s, forwarded, n)
<1>1. n \in Nat
  BY DEF TypeOK
<1>2. /\ \A k \in 0..n : k \in Nat
      /\ \A k \in Nat : \A j \in k..n : j \in Nat
  BY <1>1
<1> QED BY <1>2 DEF Ways, Way

\* A thread pushes a message.
LEMMA PushWays ==
  ASSUME TypeOK, Ways, NEW x \in Producer, NEW t \in Session, PushMsg(x, t)
  PROVE  Ways'
<1> DEFINE m == [from |-> x, to |-> t, seq |-> pushes[x][t] + 1]
<1>1. /\ m \in Msg /\ m.from = x /\ m.to = t /\ m.seq = pushes[x][t] + 1
      /\ out_queue \in Seq(Msg) /\ out_queue' = Append(out_queue, m)
      /\ UNCHANGED <<sessions, sent, write_queue, found, InHand>>
  BY CapacityAssumption DEF PushMsg, TypeOK, Msg, InHand
<1>2. \A s \in Session, p \in Producer :
        /\ pushes[p][s] \in Nat
        /\ pushes'[p][s] = IF p = x /\ s = t THEN pushes[p][s] + 1 ELSE pushes[p][s]
  BY DEF PushMsg, TypeOK
<1> HIDE DEF m
<1> SUFFICES ASSUME NEW s \in Session, NEW p \in Producer PROVE Way(s, p)'
  BY DEF Ways
<1> DEFINE n == pushes[p][s]
<1>3. PICK written \in Nat, delivered \in Nat :
        /\ written \in 0..n /\ delivered \in written..n
        /\ Carries(sent[s], p, s, 0, written)
        /\ Carries(write_queue[s], p, s, written, delivered)
        /\ s \in sessions =>
             \E forwarded \in delivered..n :
               /\ Carries(InHand, p, s, delivered, forwarded)
               /\ Carries(out_queue, p, s, forwarded, n)
  BY WayParts
<1>4. ASSUME NEW forwarded \in delivered..n, Carries(out_queue, p, s, forwarded, n)
      PROVE  Carries(out_queue', p, s, forwarded, pushes'[p][s])
  <2>1. n \in Nat /\ forwarded \in Nat /\ forwarded <= n
    BY <1>2, <1>3
  <2> QED BY <1>1, <1>2, <1>4, <2>1, CarriesMore
<1>5. written \in 0..pushes'[p][s] /\ delivered \in written..pushes'[p][s]
      /\ \A f \in delivered..n : f \in delivered..pushes'[p][s]
  BY <1>2, <1>3
<1> QED BY <1>1, <1>3, <1>4, <1>5 DEF Way

\* The network thread takes a message out of the queue.
LEMMA ForwardWays ==
  ASSUME TypeOK, Ways, ForwardMsg
  PROVE  Ways'
<1>1. /\ out_queue \in Seq(Msg) /\ InHand = <<>> /\ found = NoMsg
      /\ UNCHANGED <<sessions, sent, write_queue, pushes>>
      /\ pushes \in [Producer -> [Session -> 0..MaxMsgs]]
  BY DEF ForwardMsg, TypeOK, NetworkIdle, InHand
<1> SUFFICES ASSUME NEW s \in Session, NEW p \in Producer PROVE Way(s, p)'
  BY DEF Ways
<1> DEFINE n == pushes[p][s]
<1>2. n \in Nat
  BY <1>1
<1>3. PICK written \in Nat, delivered \in Nat :
        /\ written \in 0..n /\ delivered \in written..n
        /\ Carries(sent[s], p, s, 0, written)
        /\ Carries(write_queue[s], p, s, written, delivered)
        /\ s \in sessions =>
             \E forwarded \in delivered..n :
               /\ Carries(InHand, p, s, delivered, forwarded)
               /\ Carries(out_queue, p, s, forwarded, n)
  BY WayParts
<1> HIDE DEF n
<1>4. ASSUME s \in sessions
      PROVE  \E forwarded \in delivered..n :
               /\ Carries(InHand', p, s, delivered, forwarded)
               /\ Carries(out_queue', p, s, forwarded, n)
  <2>1. delivered \in Nat /\ delivered <= n /\ Carries(out_queue, p, s, delivered, n)
    <3>1. PICK f \in delivered..n :
            Carries(InHand, p, s, delivered, f) /\ Carries(out_queue, p, s, f, n)
      BY <1>3, <1>4
    <3>2. delivered \in Nat /\ f \in Nat /\ delivered <= f /\ f <= n
      BY <1>2, <1>3
    <3>3. f = delivered
      BY <1>1, <3>1, <3>2, CarriesNothing
    <3> QED BY <3>1, <3>2, <3>3
  <2>2. CASE out_queue = <<>>
    <3>1. UNCHANGED <<out_queue, found, InHand>>
      BY <2>2 DEF ForwardMsg, InHand
    <3> QED BY <1>3, <1>4, <3>1
  <2>3. CASE out_queue # <<>>
    <3> DEFINE m == Head(out_queue)
    <3>1. m = Head(out_queue) /\ out_queue' = Tail(out_queue)
          /\ found' = IF m.to \in sessions THEN m ELSE NoMsg
      BY <2>3 DEF ForwardMsg
    <3> HIDE DEF m
    <3>2. /\ m \in Msg
          /\ m.from = p /\ m.to = s =>
               m.seq = delivered + 1 /\ delivered + 1 <= n
               /\ Carries(out_queue', p, s, delivered + 1, n)
          /\ ~ (m.from = p /\ m.to = s) => Carries(out_queue', p, s, delivered, n)
      BY <1>1, <1>2, <2>1, <2>3, <3>1, CarriesLess
    <3>3. m # NoMsg
      BY <3>2 DEF Msg, NoMsg
    <3>4. InHand' = IF m.to \in sessions THEN <<m>> ELSE <<>>
      BY <3>1, <3>3 DEF InHand
    <3>5. CASE m.from = p /\ m.to = s
      <4>1. Carries(InHand', p, s, delivered, delivered + 1)
        BY <1>4, <2>1, <3>2, <3>4, <3>5, OneInHand
      <4>2. delivered + 1 \in delivered..n
        BY <1>2, <2>1, <3>2, <3>5
      <4> QED BY <3>2, <3>5, <4>1, <4>2
    <3>6. CASE ~ (m.from = p /\ m.to = s)
      <4>1. Carries(InHand', p, s, delivered, delivered)
        BY <2>1, <3>2, <3>4, <3>6, OneInHand, CarriesNothing
      <4>2. delivered \in delivered..n
        BY <1>2, <2>1
      <4> QED BY <3>2, <3>6, <4>1, <4>2
    <3> QED BY <3>5, <3>6
  <2> QED BY <2>2, <2>3
<1> QED BY <1>1, <1>3, <1>4 DEF Way, n

\* The message in hand is given to its session.
LEMMA DeliverWays ==
  ASSUME TypeOK, Ways, DeliverMsg
  PROVE  Ways'
<1>1. /\ found \in Msg /\ found.to \in Session /\ InHand' = <<>>
      /\ UNCHANGED <<sessions, sent, pushes, out_queue>>
      /\ pushes \in [Producer -> [Session -> 0..MaxMsgs]]
      /\ write_queue \in [Session -> Seq(Msg)]
  BY DEF DeliverMsg, TypeOK, NetworkIdle, InHand, Msg
<1>2. \A s \in Session : write_queue'[s] = IF s = found.to /\ s \in sessions
                                           THEN Append(write_queue[s], found)
                                           ELSE write_queue[s]
  BY <1>1 DEF DeliverMsg
<1> SUFFICES ASSUME NEW s \in Session, NEW p \in Producer PROVE Way(s, p)'
  BY DEF Ways
<1> DEFINE n == pushes[p][s]
<1>3. n \in Nat
  BY <1>1
<1>4. PICK written \in Nat, delivered \in Nat :
        /\ written \in 0..n /\ delivered \in written..n
        /\ Carries(sent[s], p, s, 0, written)
        /\ Carries(write_queue[s], p, s, written, delivered)
        /\ s \in sessions =>
             \E forwarded \in delivered..n :
               /\ Carries(InHand, p, s, delivered, forwarded)
               /\ Carries(out_queue, p, s, forwarded, n)
  BY WayParts
<1> HIDE DEF n
<1>5. CASE s \notin sessions
  BY <1>1, <1>2, <1>4, <1>5 DEF Way, n
<1>6. CASE s \in sessions
  <2>1. PICK f \in delivered..n :
          Carries(InHand, p, s, delivered, f) /\ Carries(out_queue, p, s, f, n)
    BY <1>4, <1>6
  <2>2. written \in Nat /\ delivered \in Nat /\ f \in Nat
        /\ written <= delivered /\ delivered <= f /\ f <= n
    BY <1>3, <1>4
  <2>3. /\ found.from = p /\ found.to = s => found.seq = delivered + 1 /\ f = delivered + 1
        /\ ~ (found.from = p /\ found.to = s) => f = delivered
    BY <1>1, <2>1, <2>2, InHandNext
  <2>4. Carries(write_queue'[s], p, s, written, f)
    <3>1. CASE found.from = p /\ found.to = s
      BY <1>1, <1>2, <1>4, <1>6, <2>2, <2>3, <3>1, CarriesMore
    <3>2. CASE found.from # p /\ found.to = s
      BY <1>1, <1>2, <1>4, <1>6, <2>2, <2>3, <3>2, CarriesMore
    <3>3. CASE found.to # s
      BY <1>2, <1>4, <2>3, <3>3
    <3> QED BY <3>1, <3>2, <3>3
  <2>5. Carries(InHand', p, s, f, f)
    BY <1>1, <2>2, CarriesNothing
  <2>6. f \in written..n /\ f \in f..n
    BY <1>3, <2>2
  <2> QED BY <1>1, <1>4, <2>1, <2>4, <2>5, <2>6 DEF Way, n
<1> QED BY <1>5, <1>6

\* The first message of a write queue has been written.
LEMMA WriteDoneWays ==
  ASSUME TypeOK, OneWriteAtATime, Ways, NEW t \in Session, WriteDone(t)
  PROVE  Ways'
<1> DEFINE m == Head(write_queue[t])
<1>1. /\ write_queue[t] \in Seq(Msg) /\ write_queue[t] # <<>> /\ sent[t] \in Seq(Msg)
      /\ UNCHANGED <<sessions, pushes, out_queue, found, InHand>>
      /\ pushes \in [Producer -> [Session -> 0..MaxMsgs]]
      /\ m = Head(write_queue[t])
  BY DEF WriteDone, TypeOK, OneWriteAtATime, InHand
<1>2. \A s \in Session :
        /\ sent'[s] = IF s = t THEN Append(sent[s], m) ELSE sent[s]
        /\ write_queue'[s] = IF s = t THEN Tail(write_queue[s]) ELSE write_queue[s]
  BY DEF WriteDone, TypeOK
<1> HIDE DEF m
<1> SUFFICES ASSUME NEW s \in Session, NEW p \in Producer PROVE Way(s, p)'
  BY DEF Ways
<1> DEFINE n == pushes[p][s]
<1>3. n \in Nat
  BY <1>1
<1>4. PICK written \in Nat, delivered \in Nat :
        /\ written \in 0..n /\ delivered \in written..n
        /\ Carries(sent[s], p, s, 0, written)
        /\ Carries(write_queue[s], p, s, written, delivered)
        /\ s \in sessions =>
             \E forwarded \in delivered..n :
               /\ Carries(InHand, p, s, delivered, forwarded)
               /\ Carries(out_queue, p, s, forwarded, n)
  BY WayParts
<1> HIDE DEF n
<1>5. CASE s # t
  BY <1>1, <1>2, <1>4, <1>5 DEF Way, n
<1>6. CASE s = t
  <2>1. written \in Nat /\ delivered \in Nat /\ written <= delivered /\ delivered <= n
    BY <1>3, <1>4
  <2>2. /\ m \in Msg
        /\ m.from = p /\ m.to = s =>
             m.seq = written + 1 /\ written + 1 <= delivered
             /\ Carries(write_queue'[s], p, s, written + 1, delivered)
        /\ ~ (m.from = p /\ m.to = s) => Carries(write_queue'[s], p, s, written, delivered)
    BY <1>1, <1>2, <1>4, <1>6, <2>1, CarriesLess
  <2>3. CASE m.from = p /\ m.to = s
    <3>1. Carries(sent'[s], p, s, 0, written + 1)
      BY <1>1, <1>2, <1>4, <1>6, <2>1, <2>2, <2>3, CarriesMore
    <3>2. written + 1 \in 0..n /\ delivered \in (written + 1)..n
      BY <1>3, <2>1, <2>2, <2>3
    <3> QED BY <1>1, <1>4, <2>2, <2>3, <3>1, <3>2 DEF Way, n
  <2>4. CASE ~ (m.from = p /\ m.to = s)
    <3>1. Carries(sent'[s], p, s, 0, written)
      BY <1>1, <1>2, <1>4, <1>6, <2>1, <2>2, <2>4, CarriesMore
    <3> QED BY <1>1, <1>4, <2>2, <2>4, <3>1 DEF Way, n
  <2> QED BY <2>3, <2>4
<1> QED BY <1>5, <1>6

LEMMA NextWays == TypeOK /\ OneWriteAtATime /\ Ways /\ [Next]_vars => Ways'
<1> SUFFICES ASSUME TypeOK, OneWriteAtATime, Ways, [Next]_vars PROVE Ways'
  OBVIOUS
<1>1. CASE \/ \E p \in Producer : PostForward(p)
           \/ \E t \in Session : WriteFailed(t) \/ CloseConnection(t)
           \/ UNCHANGED vars
  <2>1. /\ UNCHANGED <<pushes, sent, write_queue, out_queue, found, InHand>>
        /\ sessions' \subseteq sessions
    BY <1>1 DEF PostForward, WriteFailed, CloseConnection, vars, InHand
  <2> QED BY <2>1 DEF Ways, Way
<1> QED BY <1>1, PushWays, ForwardWays, DeliverWays, WriteDoneWays DEF Next

LEMMA InitWays == Init => Ways
<1> SUFFICES ASSUME Init, NEW s \in Session, NEW p \in Producer PROVE Way(s, p)
  BY DEF Ways
<1>1. /\ pushes[p][s] = 0 /\ sent[s] = <<>> /\ write_queue[s] = <<>> /\ out_queue = <<>>
      /\ InHand = <<>>
  BY DEF Init, InHand
<1>2. Carries(<<>>, p, s, 0, 0) /\ 0 \in 0..0
  BY CarriesNothing
<1> QED BY <1>1, <1>2 DEF Way

-----------------------------------------------------------------------------
\* The invariant that carries the results below.
THEOREM OutboundInvariant == Spec => []IInv
<1>1. Init => IInv
  BY InitIInv
<1>2. IInv /\ [Next]_vars => IInv'
  BY NextType, NextAccounting, NextWrites DEF IInv
<1> QED
  BY <1>1, <1>2, PTL DEF Spec

\* Every variable keeps its type; out_queue_ is never longer than its capacity.
THEOREM OutboundTypeCorrect == Spec => []TypeOK
<1>1. IInv => TypeOK
  BY DEF IInv
<1> QED
  BY <1>1, OutboundInvariant, PTL

\* forward_msg_to_agent() always finds a message to pop, however many threads
\* push and post concurrently.
THEOREM PopFindsMessage == Spec => []NeverPopsEmpty
<1>1. IInv => NeverPopsEmpty
  <2> SUFFICES ASSUME IInv, posted > 0 PROVE out_queue # <<>>
    BY DEF IInv, Accounting, NeverPopsEmpty
  <2>1. Len(out_queue) > 0
    BY PushedFinite DEF IInv, Accounting, TypeOK
  <2> QED
    BY <2>1 DEF IInv, TypeOK
<1> QED
  BY <1>1, OutboundInvariant, PTL

\* agent_session never has two writes of one socket in progress, nor one of an
\* empty queue.
LEMMA SingleWrite == Spec => []OneWriteAtATime
<1>1. IInv => OneWriteAtATime
  BY DEF IInv
<1> QED
  BY <1>1, OutboundInvariant, PTL

\* A session that has not failed is writing whenever it has something to write.
LEMMA NoForgottenQueue == Spec => []QueueIsServed
<1>1. IInv => QueueIsServed
  BY DEF IInv
<1> QED
  BY <1>1, OutboundInvariant, PTL

\* A session has exactly one write in progress as long as its queue is not empty and it has
\* not failed: deliver() may leave it to the completions of do_write() (agent_session.cc:34).
THEOREM WritesNeverStop == Spec => []WritesGoOn
<1>1. OneWriteAtATime /\ QueueIsServed => WritesGoOn
  BY DEF WritesGoOn
<1> QED
  BY <1>1, SingleWrite, NoForgottenQueue, PTL

\* No interleaving of the threads that send, forward, write and close loses, repeats or
\* overtakes a message of one thread for one session, from send_msg() to the socket.
THEOREM MessagesDeliveredInOrder == Spec => []DeliveredInOrder
<1>1. IInv /\ Ways /\ [Next]_vars => Ways'
  BY NextWays DEF IInv
<1>2. Ways /\ TypeOK => DeliveredInOrder
  <2> SUFFICES ASSUME Ways, TypeOK PROVE DeliveredInOrder
    OBVIOUS
  <2>1. InOrder
    <3>1. \A s \in sessions : s \in Session
      BY DEF TypeOK
    <3> QED BY <3>1 DEF Ways, Way, InOrder
  <2>2. SentInOrder
    BY DEF Ways, Way, SentInOrder
  <2> QED BY <2>1, <2>2 DEF DeliveredInOrder
<1>3. IInv => TypeOK
  BY DEF IInv
<1> QED
  BY <1>1, <1>2, <1>3, InitWays, OutboundInvariant, PTL DEF Spec
=============================================================================
