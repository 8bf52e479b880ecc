-------------------------- MODULE ControllerProofs --------------------------
(***************************************************************************)
(* The order in which the threads of the controller end, and the ticks its *)
(* periodic slots are called in, for any calls, periods and bounds; and    *)
(* what the northbound API answers, for any base stations, UEs and number  *)
(* of changes of the RIB during a call.                                    *)
(***************************************************************************)
EXTENDS Controller, NorthApi, FiniteSetTheorems, WellFoundedInduction, TLAPS

\* Places of main() past its joins.
PastTaskManager ==
  {"join_network", "shutdown_rest", "destroy_calls", "join_rest", "exited", "crashed"}
PastNetwork == PastTaskManager \ {"join_network"}
PastShutdown == PastNetwork \ {"shutdown_rest"}

\* What main() has seen when it is past a join, and that the REST thread ends only when it
\* was asked to.
Joined ==
  /\ main \in PastTaskManager => tm = "end" /\ io_stopped
  /\ main \in PastNetwork => net = "end"
  /\ rest = "end" => main \in PastShutdown

\* A thread that has ended does not come back, so StoppedInOrder needs only that main()
\* has joined it.
EndInv == Joined /\ StoppedInOrder

(***************************************************************************)
(* No step of a thread takes it from its end.                              *)
(***************************************************************************)
LEMMA TaskManagerStaysEnded ==
  ASSUME TaskManagerNext
  PROVE  tm # "end" /\ UNCHANGED <<main, net, io_stopped, rest>>
BY DEF TaskManagerNext, ExecuteTask, TickBegins, CallSlot, TickEnds, wait_for_cycle, LoopEnds,
       restVars

(***************************************************************************)
(* A call leaves the other threads alone, and the REST thread where it is  *)
(* or serving.                                                             *)
(***************************************************************************)
LEMMA CallsStayInRest ==
  ASSUME \/ HandlerBegins
         \/ \E p \in Period : subscribe_task_tick(p)
         \/ \E i \in DOMAIN slot : Disconnect(i)
         \/ list_api
  PROVE  rest # "end" /\ rest' # "end" /\ UNCHANGED <<main, tm, net, io_stopped>>
BY DEF HandlerBegins, subscribe_task_tick, Disconnect, list_api, tmVars

(***************************************************************************)
(* Every step keeps the order.                                             *)
(***************************************************************************)
LEMMA EndInvStep ==
  ASSUME EndInv, [CtlNext]_ctlVars
  PROVE  EndInv'
<1> USE DEF EndInv, Joined, StoppedInOrder, PastTaskManager, PastNetwork, PastShutdown
<1>1. CASE RegisterCalls \/ StartRest \/ Signal
  <2>1. main \in {"registering", "waiting"} /\ main' \in {"waiting", "registering", "join_task_manager"}
    BY <1>1 DEF RegisterCalls, StartRest, Signal
  <2>2. io_stopped' = io_stopped /\ tm' = tm /\ (rest' = rest \/ rest' = "serving")
    BY <1>1 DEF RegisterCalls, StartRest, Signal, tmVars, restVars
  <2> QED BY <2>1, <2>2
<1>2. CASE JoinTaskManager
  BY <1>2 DEF JoinTaskManager, tmVars, restVars
<1>3. CASE JoinNetwork
  BY <1>3 DEF JoinNetwork, tmVars, restVars
<1>4. CASE ShutdownRest
  BY <1>4 DEF ShutdownRest, tmVars, restVars
<1>5. CASE DestroyCalls
  BY <1>5 DEF DestroyCalls, tmVars, restVars
<1>6. CASE DestroyNorthApi
  BY <1>6 DEF DestroyNorthApi, tmVars, restVars
<1>7. CASE TaskManagerNext
  BY <1>7, TaskManagerStaysEnded
<1>8. CASE NetworkNext
  BY <1>8 DEF NetworkNext, tmVars, restVars
<1>9. CASE HandlerBegins \/ (\E p \in Period : subscribe_task_tick(p))
             \/ (\E i \in DOMAIN slot : Disconnect(i)) \/ list_api
  BY <1>9, CallsStayInRest
<1>10. CASE RestEnds
  BY <1>10 DEF RestEnds, tmVars
<1>11. CASE UseDestroyed
  BY <1>11 DEF UseDestroyed, tmVars, restVars
<1>12. CASE UNCHANGED ctlVars
  BY <1>12 DEF ctlVars, tmVars, restVars
<1> QED
  BY <1>1, <1>2, <1>3, <1>4, <1>5, <1>6, <1>7, <1>8, <1>9, <1>10, <1>11, <1>12
  DEF CtlNext, MainNext, RestNext

(***************************************************************************)
(* The io_service is stopped, the REST server asked to end, and main()     *)
(* left, each only after the threads that use what goes then have ended    *)
(* (rt_controller.cc:311-325); of the REST thread that is so only at the   *)
(* very end, not when the objects of its handlers go.                      *)
(***************************************************************************)
THEOREM ThreadsEndInOrder == CtlSpec => []StoppedInOrder
<1>1. CtlInit => EndInv
  BY DEF CtlInit, EndInv, Joined, StoppedInOrder, PastTaskManager, PastNetwork, PastShutdown
<1>2. EndInv /\ [CtlNext]_ctlVars => EndInv'
  BY EndInvStep
<1>3. EndInv => StoppedInOrder
  BY DEF EndInv
<1> QED BY <1>1, <1>2, <1>3, PTL DEF CtlSpec
-----------------------------------------------------------------------------
(***************************************************************************)
(* Arithmetic of periods                                                   *)
(***************************************************************************)

\* Division with a remainder, and that it is unique.
LEMMA DivMod ==
  ASSUME NEW n \in Nat, NEW p \in Nat \ {0}
  PROVE  \E q \in Nat, r \in 0..(p - 1) : n = q * p + r /\ n % p = r
<1>1. n \div p \in Nat /\ n % p \in 0..(p-1)
  OBVIOUS
<1>2. n = (n \div p) * p + (n % p)
  OBVIOUS
<1> QED BY <1>1, <1>2

LEMMA DivisionUnique ==
  ASSUME NEW p \in Nat \ {0}, NEW a \in Nat, NEW b \in Nat, NEW r \in 0..(p - 1),
         NEW s \in 0..(p - 1), a * p + r = b * p + s
  PROVE  a = b /\ r = s
<1>1. ASSUME NEW x \in Nat, NEW y \in Nat, x < y PROVE x * p + p <= y * p
  <2>1. x + 1 <= y
    BY <1>1
  <2>2. (x+1) * p <= y * p
    BY <2>1
  <2>3. (x+1) * p = x * p + p
    OBVIOUS
  <2> QED BY <2>2, <2>3
<1>2. a * p \in Nat /\ b * p \in Nat
  OBVIOUS
<1>3. ~ (a < b)
  BY <1>1, <1>2
<1>4. ~ (b < a)
  BY <1>1, <1>2
<1>5. a = b
  BY <1>3, <1>4
<1> QED BY <1>2, <1>5

\* A window as long as p has one multiple of p.
LEMMA OneMultiple ==
  ASSUME NEW p \in Nat \ {0}, NEW n \in Nat
  PROVE  \E u \in n..(n + p - 1) :
           /\ u % p = 0
           /\ \A v \in n..(n + p - 1) : v % p = 0 => v = u
<1>1. PICK q \in Nat, r \in 0..(p - 1) : n = q * p + r
  BY DivMod
<1>2. ASSUME NEW x \in Nat PROVE x * p \in Nat /\ (x + 1) * p = x * p + p /\ (x * p) % p = 0
  <2>1. x * p \in Nat /\ (x + 1) * p = x * p + p
    OBVIOUS
  <2>2. PICK a \in Nat, b \in 0..(p - 1) : x * p = a * p + b /\ (x * p) % p = b
    BY <2>1, DivMod
  <2>3. 0 \in 0..(p - 1) /\ x * p + 0 = x * p
    BY <2>1
  <2>4. x * p + 0 = a * p + b
    BY <2>2, <2>3
  <2>5. b = 0
    BY <2>3, <2>4, DivisionUnique
  <2> QED BY <2>1, <2>2, <2>5
<1>3. ASSUME NEW v \in Nat, v % p = 0 PROVE \E x \in Nat : v = x * p
  <2>1. PICK a \in Nat, b \in 0..(p - 1) : v = a * p + b /\ v % p = b
    BY DivMod
  <2> QED BY <1>2, <1>3, <2>1
<1> DEFINE u == IF r = 0 THEN q * p ELSE (q + 1) * p
<1>4. u \in n..(n + p - 1) /\ u % p = 0
  <2>1. q * p \in Nat /\ (q + 1) * p = q * p + p /\ (q * p) % p = 0 /\ ((q + 1) * p) % p = 0
    BY <1>2
  <2> QED BY <1>1, <2>1
<1>5. ASSUME NEW v \in n..(n + p - 1), v % p = 0 PROVE v = u
  <2>a. v \in Nat
    BY <1>5
  <2>1. PICK x \in Nat : v = x * p
    BY <1>3, <1>5, <2>a
  <2>2. PICK y \in Nat : u = y * p
    BY <1>3, <1>4
  <2>3. v < u + p /\ u < v + p
    BY <1>4
  <2>4. /\ y * p \in Nat /\ (y + 1) * p = y * p + p
        /\ x * p \in Nat /\ (x + 1) * p = x * p + p
    BY <1>2
  <2>5. ASSUME NEW a \in Nat, NEW b \in Nat, a < b PROVE (a + 1) * p <= b * p
    <3>1. a + 1 <= b
      BY <2>5
    <3> QED BY <3>1
  <2>6. ~ (x < y) /\ ~ (y < x)
    BY <2>1, <2>2, <2>3, <2>4, <2>5
  <2> QED BY <2>1, <2>2, <2>6
<1> QED BY <1>4, <1>5

\* Fires() is true of exactly one tick of a period, from the start on.
LEMMA FiresOnce ==
  ASSUME NEW s, s.period \in Nat \ {0}, s.start \in Nat, NEW lo \in Nat, s.start <= lo
  PROVE  \E u \in lo..(lo + s.period - 1) :
           /\ Fires(s, u)
           /\ \A v \in lo..(lo + s.period - 1) : Fires(s, v) => v = u
<1> DEFINE p == s.period
           n == lo - s.start
<1>1. p \in Nat \ {0} /\ n \in Nat
  OBVIOUS
<1>2. PICK w \in n..(n + p - 1) :
        /\ w % p = 0
        /\ \A v \in n..(n + p - 1) : v % p = 0 => v = w
  BY <1>1, OneMultiple
<1> DEFINE u == w + s.start
<1>3. u \in lo..(lo + p - 1) /\ u - s.start = w /\ u >= s.start
  BY <1>1, <1>2
<1>4. ASSUME NEW v \in lo..(lo + p - 1), Fires(s, v) PROVE v = u
  <2>1. v - s.start \in n..(n + p - 1) /\ (v - s.start) % p = 0
    BY <1>1, <1>4 DEF Fires
  <2>2. v - s.start = w
    BY <1>2, <2>1
  <2> QED BY <1>3, <1>4, <2>2
<1>5. Fires(s, u)
  BY <1>2, <1>3 DEF Fires
<1> QED BY <1>3, <1>4, <1>5
-----------------------------------------------------------------------------
(***************************************************************************)
(* The slots of the task tick                                              *)
(***************************************************************************)

\* The tick only grows, so a start that a handler has read before is never ahead of it.
ClockInv ==
  /\ t \in Nat /\ last_tick_ \in Nat /\ offset \in Nat
  /\ last_tick_ <= t /\ offset <= t

Slots == [connected : BOOLEAN, start : Nat, period : Period, seen : SUBSET Nat,
          called : SUBSET Nat]

\* Of the ticks a slot has seen it was called in those that its start and period say, and it
\* has seen none before its start.
SlotInv ==
  /\ slot \in Seq(Slots)
  /\ \A i \in DOMAIN slot :
       /\ slot[i].start <= t
       /\ slot[i].called \subseteq slot[i].seen
       /\ \A u \in slot[i].seen : slot[i].start <= u
       /\ \A u \in slot[i].seen : u \in slot[i].called <=> Fires(slot[i], u)

TickInv == ClockInv /\ SlotInv

\* A step that leaves the slots alone.
LEMMA SlotsUnchanged ==
  ASSUME SlotInv, slot' = slot, t \in Nat, t' \in Nat, t <= t'
  PROVE  SlotInv'
<1> SUFFICES ASSUME NEW i \in DOMAIN slot PROVE slot[i].start <= t'
  BY DEF SlotInv
<1>1. slot[i] \in Slots /\ slot[i].start <= t
  BY DEF SlotInv
<1>2. slot[i].start \in Nat
  BY <1>1 DEF Slots
<1> QED BY <1>1, <1>2

\* A slot is changed, but not what it is for.
LEMMA SlotChanged ==
  ASSUME SlotInv, UNCHANGED t, NEW i, NEW s \in Slots, DOMAIN slot' = DOMAIN slot,
         \A j \in DOMAIN slot : slot'[j] = IF j = i THEN s ELSE slot[j],
         slot' \in Seq(Slots),
         i \in DOMAIN slot =>
           /\ s.start = slot[i].start /\ s.period = slot[i].period
           /\ s.called \subseteq s.seen
           /\ \A u \in s.seen : s.start <= u
           /\ \A u \in s.seen : u \in s.called <=> Fires(slot[i], u)
  PROVE  SlotInv'
<1> SUFFICES ASSUME NEW j \in DOMAIN slot
             PROVE  /\ slot'[j].start <= t
                    /\ slot'[j].called \subseteq slot'[j].seen
                    /\ \A u \in slot'[j].seen : slot'[j].start <= u
                    /\ \A u \in slot'[j].seen : u \in slot'[j].called <=> Fires(slot'[j], u)
  BY DEF SlotInv, Fires
<1>1. CASE j = i
  BY <1>1 DEF SlotInv, Fires
<1>2. CASE j # i
  BY <1>2 DEF SlotInv, Fires
<1> QED BY <1>1, <1>2

LEMMA CallSlotInv ==
  ASSUME ClockInv, SlotInv, CallSlot
  PROVE  SlotInv'
<1> DEFINE i == NextDue
<1>1. slot' = IF slot[i].connected THEN [slot EXCEPT ![i] = SlotRuns(slot[i])] ELSE slot
  BY DEF CallSlot
<1> HIDE DEF i
<1>2. UNCHANGED t /\ t \in Nat
  BY DEF CallSlot, ClockInv
<1>3. CASE slot' = slot
  BY <1>2, <1>3, SlotsUnchanged
<1>4. CASE i \in DOMAIN slot /\ slot' # slot
  <2> DEFINE old == slot[i]
             s == SlotRuns(old)
  <2>1. old \in Slots
    BY <1>4 DEF SlotInv
  <2>2. /\ s \in Slots /\ s.start = old.start /\ s.period = old.period
        /\ s.seen = old.seen \cup {t}
        /\ s.called = IF Fires(old, t) THEN old.called \cup {t} ELSE old.called
    <3> HIDE DEF old
    <3> QED BY <1>2, <2>1 DEF Slots, SlotRuns
  <2>3. slot' = [slot EXCEPT ![i] = s]
    BY <1>1, <1>4
  <2> HIDE DEF s
  <2>4. /\ slot' \in Seq(Slots) /\ DOMAIN slot' = DOMAIN slot
        /\ \A j \in DOMAIN slot : slot'[j] = IF j = i THEN s ELSE slot[j]
    BY <1>4, <2>2, <2>3 DEF SlotInv
  <2>5. /\ s.called \subseteq s.seen
        /\ \A u \in s.seen : s.start <= u
        /\ \A u \in s.seen : u \in s.called <=> Fires(old, u)
    <3>1. /\ old.start <= t
          /\ \A u \in old.seen : old.start <= u
          /\ \A u \in old.seen : u \in old.called <=> Fires(old, u)
      BY <1>4 DEF SlotInv
    <3>2. old.called \subseteq old.seen
      BY <1>4 DEF SlotInv
    <3> HIDE DEF old
    <3> QED BY <2>2, <3>1, <3>2
  <2> QED BY <1>2, <2>2, <2>4, <2>5, SlotChanged
<1>5. CASE i \notin DOMAIN slot /\ slot' # slot
  <2>1. slot' = slot
    BY <1>1, <1>5 DEF SlotInv
  <2> QED BY <1>5, <2>1
<1> QED BY <1>3, <1>4, <1>5

LEMMA TickStep ==
  ASSUME TickInv, [CtlNext]_ctlVars
  PROVE  TickInv'
<1>1. CASE HandlerBegins
  BY <1>1, SlotsUnchanged DEF HandlerBegins, TickInv, ClockInv, tmVars
<1>2. ASSUME NEW p \in Period, subscribe_task_tick(p) PROVE TickInv'
  <2> DEFINE s == [connected |-> TRUE, start |-> offset, period |-> p, seen |-> {}, called |-> {}]
  <2>1. s \in Slots /\ s.seen = {} /\ s.called = {} /\ s.start = offset
    BY DEF TickInv, ClockInv, Slots
  <2>2. slot' = Append(slot, s) /\ UNCHANGED <<t, last_tick_, offset>>
    BY <1>2 DEF subscribe_task_tick, tmVars
  <2> HIDE DEF s
  <2>3. /\ slot' \in Seq(Slots)
        /\ \A i \in DOMAIN slot' : (i \in DOMAIN slot /\ slot'[i] = slot[i]) \/ slot'[i] = s
    BY <2>1, <2>2 DEF TickInv, SlotInv
  <2>4. ASSUME NEW i \in DOMAIN slot'
        PROVE  /\ slot'[i].start <= t
               /\ slot'[i].called \subseteq slot'[i].seen
               /\ \A u \in slot'[i].seen : slot'[i].start <= u
               /\ \A u \in slot'[i].seen : u \in slot'[i].called <=> Fires(slot'[i], u)
    <3>1. CASE slot'[i] = s
      BY <2>1, <3>1 DEF TickInv, ClockInv
    <3>2. CASE i \in DOMAIN slot /\ slot'[i] = slot[i]
      BY <3>2 DEF TickInv, SlotInv, Fires
    <3> QED BY <2>3, <3>1, <3>2
  <2>5. SlotInv'
    BY <2>2, <2>3, <2>4 DEF SlotInv, Fires
  <2> QED BY <2>2, <2>5 DEF TickInv, ClockInv
<1>3. ASSUME NEW i \in DOMAIN slot, Disconnect(i) PROVE TickInv'
  <2> DEFINE old == slot[i]
             s == [old EXCEPT !.connected = FALSE]
  <2>1. old \in Slots
    BY DEF TickInv, SlotInv
  <2>2. /\ s \in Slots /\ s.start = old.start /\ s.period = old.period
        /\ s.seen = old.seen /\ s.called = old.called
    <3> HIDE DEF old
    <3> QED BY <2>1 DEF Slots
  <2>3. slot' = [slot EXCEPT ![i] = s] /\ UNCHANGED <<t, last_tick_, offset>>
    BY <1>3 DEF Disconnect, tmVars
  <2> HIDE DEF s
  <2>4. /\ slot' \in Seq(Slots) /\ DOMAIN slot' = DOMAIN slot
        /\ \A j \in DOMAIN slot : slot'[j] = IF j = i THEN s ELSE slot[j]
    BY <2>2, <2>3 DEF TickInv, SlotInv
  <2>5. SlotInv'
    BY <2>2, <2>3, <2>4, SlotChanged DEF TickInv, SlotInv
  <2> QED BY <2>3, <2>5 DEF TickInv, ClockInv
<1>4. CASE CallSlot
  BY <1>4, CallSlotInv DEF TickInv, ClockInv, CallSlot
<1>5. CASE TickEnds
  BY <1>5, SlotsUnchanged DEF TickEnds, TickInv, ClockInv, restVars
<1>6. CASE \/ MainNext \/ ExecuteTask \/ TickBegins \/ wait_for_cycle \/ LoopEnds
           \/ NetworkNext \/ list_api \/ RestEnds \/ UseDestroyed \/ UNCHANGED ctlVars
  <2>1. UNCHANGED <<t, last_tick_, offset, slot>>
    BY <1>6 DEF MainNext, RegisterCalls, StartRest, Signal, JoinTaskManager, JoinNetwork,
                ShutdownRest, DestroyCalls, DestroyNorthApi, RestEnds, UseDestroyed,
                ExecuteTask, TickBegins, wait_for_cycle, LoopEnds, NetworkNext, list_api,
                ctlVars, tmVars, restVars
  <2> QED BY <2>1, SlotsUnchanged DEF TickInv, ClockInv
<1> QED BY <1>1, <1>2, <1>3, <1>4, <1>5, <1>6 DEF CtlNext, TaskManagerNext, RestNext

\* The invariant says of any complete period what OncePerPeriod does.
LEMMA SlotsFireOnce == SlotInv => OncePerPeriod
<1> SUFFICES ASSUME SlotInv, NEW i \in DOMAIN slot, NEW lo \in slot[i].seen,
                    (lo..(lo + slot[i].period - 1)) \subseteq slot[i].seen
             PROVE  Cardinality((lo..(lo + slot[i].period - 1)) \cap slot[i].called) = 1
  BY DEF OncePerPeriod
<1> DEFINE s == slot[i]
           window == lo..(lo + s.period - 1)
<1>1. /\ s.period \in Nat \ {0} /\ s.start \in Nat /\ lo \in Nat /\ s.start <= lo
      /\ \A u \in window : u \in s.called <=> Fires(s, u)
  <2>1. s \in Slots
    BY DEF SlotInv
  <2>2. s.start <= lo /\ \A u \in window : u \in s.called <=> Fires(s, u)
    BY DEF SlotInv
  <2>3. s.period \in Period /\ s.start \in Nat /\ s.seen \subseteq Nat /\ lo \in s.seen
    <3>1. lo \in s.seen
      OBVIOUS
    <3> HIDE DEF s
    <3> QED BY <2>1, <3>1 DEF Slots
  <2>4. s.period \in Nat \ {0} /\ lo \in Nat
    BY <2>3, PeriodAssumption
  <2> QED BY <2>2, <2>3, <2>4
<1>2. PICK u \in window : Fires(s, u) /\ \A v \in window : Fires(s, v) => v = u
  BY <1>1, FiresOnce
<1>3. window \cap s.called = {u}
  BY <1>1, <1>2
<1> QED BY <1>3, FS_Singleton

(***************************************************************************)
(* A periodic slot is called exactly once in any period of ticks it has    *)
(* seen, however old the tick is that its handler took for the start       *)
(* (subscription::subscribe_task_tick).                                    *)
(***************************************************************************)
THEOREM SlotsCalledOncePerPeriod == CtlSpec => []OncePerPeriod
<1>1. CtlInit => TickInv
  BY DEF CtlInit, TickInv, ClockInv, SlotInv
<1>2. TickInv /\ [CtlNext]_ctlVars => TickInv'
  BY TickStep
<1>3. TickInv => OncePerPeriod
  BY SlotsFireOnce DEF TickInv
<1> QED BY <1>1, <1>2, <1>3, PTL DEF CtlSpec

-----------------------------------------------------------------------------
(***************************************************************************)
(* NorthApi: what is answered.  A handler reads the RIB in several steps,  *)
(* between which it changes, so the invariant has, for each place of a     *)
(* handler, what was read so far against what was there all the time       *)
(* (held) and at any time (met).                                           *)
(***************************************************************************)
\* The least of some IDs is one of them.
LEMMA LeastId ==
  ASSUME NEW T, T \subseteq Nat, T # {}
  PROVE  Min(T) \in T
<1> DEFINE R == OpToRel(<, Nat)
<1>1. \A x, y \in Nat : x < y => <<x, y>> \in R
  BY DEF OpToRel
<1>2. IsWellFoundedOn(R, Nat)
  BY NatLessThanWellFounded
<1> HIDE DEF R
<1>3. PICK x \in T : \A y \in T : ~ (<<y, x>> \in R)
  BY <1>2, WFMin
<1>4. \A y \in T : ~ (y < x)
  BY <1>1, <1>3
<1>5. \A y \in T : x <= y
  BY <1>4
<1> QED BY <1>5 DEF Min

DumpCalls == {"obtain_stats", "obtain_json_stats", "obtain_json_stats_enb"}
UeCall == "obtain_json_stats_ue"
StatsParts == {"config", "mac"}

There(b) == <<b, NoUe_>>

\* The parameters that the routes of the statistics have.
RequestOK ==
  LET q == rest_request IN
    /\ q.of_bs \in BOOLEAN
    /\ q.call = UeCall => q.ue \in Ues
    /\ q.call \in {"obtain_stats", "obtain_json_stats"} => ~ q.of_bs
    /\ q.call = "obtain_json_stats_enb" => q.of_bs

\* The BS that a handler uses is the one that the request names.
AsNamed(b) == rest_request.of_bs => Names(rest_request.id, b)

\* Nothing is left of the request before.
Fresh_ == bs_id = 0 /\ to_read = {} /\ resp = NoResp /\ sent_codes = <<>>

\* What the history has of the RIB.
Watched == held \subseteq Pairs(bs) /\ Pairs(bs) \subseteq met

\* Parts are read: what has been is complete for what is there all the time, and shows
\* nothing that was not there or not asked for.
Reading ==
  /\ rest_request.call \in DumpCalls /\ sent_codes = <<>>
  /\ resp \in [config : SUBSET Bs, mac : SUBSET Bs, ue : {{}}]
  /\ to_read \subseteq PartsOf(rest_request.type)
  /\ IF rest_request.of_bs THEN bs_id \in Bs /\ AsNamed(bs_id) ELSE bs_id = 0
  /\ \A part \in StatsParts : \A b \in resp[part] :
       /\ There(b) \in met /\ part \in PartsOf(rest_request.type)
       /\ rest_request.of_bs => b = bs_id
  /\ \A part \in PartsOf(rest_request.type) \ to_read : \A b \in Bs :
       There(b) \in held /\ (rest_request.of_bs => b = bs_id) => b \in resp[part]

\* What is there all the time and has not been looked at yet is still to be looked at.
Searching ==
  /\ rest_request.call = UeCall /\ sent_codes = <<>> /\ bs_id = 0 /\ resp = NoResp
  /\ to_read \subseteq Bs
  /\ \A b \in to_read : There(b) \in met /\ AsNamed(b)
  /\ \A b \in Bs : /\ <<b, rest_request.ue>> \in held /\ AsNamed(b)
                   /\ ~ (rest_request.of_bs /\ rest_request.id.kind = "-1")
                   => b \in to_read

\* The UE was there, in a BS that is named or in any.
Found ==
  /\ rest_request.call = UeCall /\ sent_codes = <<>> /\ resp = NoResp
  /\ AsNamed(bs_id)

\* What holds at each place of a handler.
NorthInv ==
  /\ DOMAIN bs \subseteq Bs
  /\ at \in {"idle", "received", "reading", "searching", "found", "fault", "answered"}
  /\ at # "idle" => RequestOK /\ Watched
  /\ at \in {"idle", "received"} => Fresh_
  /\ at = "reading" => Reading
  /\ at = "searching" => Searching
  /\ at = "found" => Found
  /\ AnswersRight

-----------------------------------------------------------------------------
\* A BS is in the RIB with or without UEs.
LEMMA PairThere == \A rib : \A b : There(b) \in Pairs(rib) <=> b \in DOMAIN rib
BY DEF There, Pairs

\* The parts of an answer have two names, whatever the type asked for.
LEMMA PartsNames == \A type : /\ PartsOf(type) \subseteq StatsParts /\ PartsOf(type) # {}
BY DEF PartsOf, StatsParts

\* An answer that has not been begun shows nothing.
LEMMA NothingShown ==
  /\ NoResp.config = {} /\ NoResp.mac = {} /\ NoResp.ue = {}
  /\ \A part \in StatsParts : NoResp[part] = {}
BY DEF NoResp, StatsParts

\* 0 stands for "none" in bs_id.
LEMMA NoBsZero == 0 \notin Bs
BY BsAssumption

\* parse_enb_agent_id() finds a BS that the client names, and the only one unless it
\* asks for "the last BS".
LEMMA ParsesNamed ==
  ASSUME DOMAIN bs \subseteq Bs, NEW s
  PROVE  /\ parse_enb_agent_id(s) # 0 =>
              parse_enb_agent_id(s) \in DOMAIN bs /\ Names(s, parse_enb_agent_id(s))
         /\ s.kind # "-1" => \A b \in DOMAIN bs : Names(s, b) => parse_enb_agent_id(s) = b
<1> DEFINE named == {b \in DOMAIN bs : CASE s.kind = "-1"    -> b = Max(DOMAIN bs)
                                         [] s.kind = "bs"    -> b = s.n
                                         [] s.kind = "agent" -> AgentOf(b) = s.n
                                         [] OTHER            -> FALSE}
<1>1. parse_enb_agent_id(s) = IF named = {} THEN 0 ELSE CHOOSE b \in named : TRUE
  BY DEF parse_enb_agent_id
<1>2. \A b \in named : b \in DOMAIN bs /\ Names(s, b)
  BY DEF Names
<1>3. s.kind # "-1" => \A b \in DOMAIN bs : Names(s, b) => b \in named
  BY DEF Names
<1>4. s.kind # "-1" => \A b, c \in named : b = c
  BY BsAssumption DEF AgentOf
<1> HIDE DEF named
<1>5. named # {} => parse_enb_agent_id(s) \in named
  BY <1>1
<1>6. named = {} => parse_enb_agent_id(s) = 0
  BY <1>1
<1> QED BY <1>2, <1>3, <1>4, <1>5, <1>6

\* What the routes of the statistics give their handlers.
LEMMA RequestsOK ==
  ASSUME NEW r \in Routes, NEW q \in RequestsTo(r)
  PROVE  /\ q.of_bs \in BOOLEAN
         /\ q.call = UeCall => q.ue \in Ues
         /\ q.call \in {"obtain_stats", "obtain_json_stats"} => ~ q.of_bs
         /\ q.call = "obtain_json_stats_enb" => q.of_bs
<1>1. /\ q.call = r.call /\ q.of_bs = ("id" \in r.params)
      /\ q.ue \in Given_(r, "ue", Ues, NoUe_)
  BY DEF RequestsTo
<1>2. /\ r.call = UeCall => "ue" \in r.params
      /\ r.call \in {"obtain_stats", "obtain_json_stats"} => "id" \notin r.params
      /\ r.call = "obtain_json_stats_enb" => "id" \in r.params
  <2> USE DEF Route, UeCall
  <2>1. CASE r \in plmn_routes \cup slice_routes
    BY <2>1 DEF plmn_routes, slice_routes
  <2>2. CASE r \in assoc_routes \cup cell_routes \cup rrc_routes
    BY <2>2 DEF assoc_routes, cell_routes, rrc_routes
  <2>3. CASE r \in stats_routes
    BY <2>3 DEF stats_routes
  <2>4. CASE r \in query_routes
    BY <2>4 DEF query_routes
  <2>5. CASE r \in conf_routes \cup recorder_routes \cup job_routes \cup netstore_routes
    BY <2>5 DEF conf_routes, recorder_routes, job_routes, netstore_routes
  <2>6. CASE r \in endpoint_routes \cup interval_routes \cup batch_routes
    BY <2>6 DEF endpoint_routes, interval_routes, batch_routes
  <2>7. CASE r \in enable_routes \cup capabilities_route
    BY <2>7 DEF enable_routes, capabilities_route
  <2> HIDE DEF Route, UeCall
  <2> QED BY <2>1, <2>2, <2>3, <2>4, <2>5, <2>6, <2>7 DEF Routes
<1>3. q.of_bs \in BOOLEAN /\ (q.of_bs <=> "id" \in r.params)
  <2> DEFINE given == "id" \in r.params
  <2>1. given \in BOOLEAN /\ q.of_bs = given
    BY <1>1
  <2> HIDE DEF given
  <2>2. q.of_bs \in BOOLEAN /\ (q.of_bs <=> given)
    BY <2>1
  <2> QED BY <2>2 DEF given
<1>4. "ue" \in r.params => q.ue \in Ues
  BY <1>1 DEF Given_
<1> QED BY <1>1, <1>2, <1>3, <1>4

-----------------------------------------------------------------------------
\* No request has been received.
LEMMA InitNorthInv == RibInit /\ NorthInit => NorthInv
<1> SUFFICES ASSUME RibInit, NorthInit PROVE NorthInv
  OBVIOUS
<1>1. DOMAIN bs = {}
  BY DEF RibInit
<1>2. at = "idle" /\ Fresh_
  BY DEF NorthInit, Fresh_
<1> QED BY <1>1, <1>2 DEF NorthInv, AnswersRight, AnsweredOnce, StatsComplete, UeFound, FaultIfGone

\* A request is received while the thread has nothing else to do.
LEMMA ReceiveStep ==
  ASSUME NorthInv, Receive
  PROVE  NorthInv'
<1>1. PICK r \in Routes : rest_request' \in RequestsTo(r)
  BY DEF Receive
<1>2. RequestOK'
  BY <1>1, RequestsOK DEF RequestOK
<1>3. /\ at = "idle" /\ at' = "received" /\ held' = Pairs(bs) /\ met' = Pairs(bs)
      /\ UNCHANGED <<bs, bs_id, to_read, resp, sent_codes>>
  BY DEF Receive, ribVars, callVars
<1>4. Watched' /\ Fresh_'
  BY <1>3 DEF Watched, NorthInv, Fresh_
<1> QED BY <1>2, <1>3, <1>4 DEF NorthInv, AnswersRight, AnsweredOnce, StatsComplete, UeFound, FaultIfGone

\* The RIB changes while a handler reads it, between its steps.
LEMMA RibStep ==
  ASSUME NorthInv, RibChanges
  PROVE  NorthInv'
<1>1. UNCHANGED <<rest_request, at, bs_id, to_read, resp, sent_codes>>
  BY DEF RibChanges, callVars
<1>2. DOMAIN bs' \subseteq Bs
  <2> PICK b \in Bs : AddBs(b) \/ RemoveBs(b) \/ \E us \in SUBSET Ues : ReportBs(b, UeReport(us))
    BY DEF RibChanges, RibMoves
  <2>1. CASE AddBs(b)
    BY <2>1 DEF AddBs, NorthInv
  <2>2. CASE RemoveBs(b)
    BY <2>2 DEF RemoveBs, Restrict, NorthInv
  <2>3. CASE \E us \in SUBSET Ues : ReportBs(b, UeReport(us))
    BY <2>3 DEF ReportBs, NorthInv
  <2> QED BY <2>1, <2>2, <2>3
<1>3. CASE at = "idle"
  BY <1>1, <1>2, <1>3 DEF NorthInv, Fresh_, AnswersRight, AnsweredOnce, StatsComplete, UeFound, FaultIfGone
<1>4. CASE at # "idle"
  <2>1. /\ at \in {"reading", "searching", "found"}
        /\ held' = held \cap Pairs(bs') /\ met' = met \cup Pairs(bs')
    BY <1>4 DEF RibChanges
  <2>2. RequestOK'
    BY <1>1, <1>4 DEF NorthInv, RequestOK
  <2>3. Watched'
    BY <2>1 DEF Watched
  <2>4. at = "reading" => Reading'
    BY <1>1, <2>1 DEF NorthInv, Reading, AsNamed
  <2>5. at = "searching" => Searching'
    BY <1>1, <2>1 DEF NorthInv, Searching, AsNamed
  <2>6. at = "found" => Found'
    BY <1>1 DEF NorthInv, Found, AsNamed
  <2> QED BY <1>1, <1>2, <2>1, <2>2, <2>3, <2>4, <2>5, <2>6
       DEF NorthInv, AnswersRight, AnsweredOnce, StatsComplete, UeFound, FaultIfGone
<1> QED BY <1>3, <1>4

\* A call that reads nothing of the RIB.
LEMMA PlainStep ==
  ASSUME NorthInv, NEW call, Going(call), call \notin DumpCalls \cup {UeCall},
         at' = "answered", UNCHANGED <<bs_id, to_read, resp>>,
         rest_request.dir => Len(sent_codes') = 1
  PROVE  NorthInv'
<1>1. /\ at = "received" /\ rest_request.call = call
      /\ UNCHANGED <<bs, rest_request, held, met>>
  BY DEF Going, ribVars
<1>2. RequestOK' /\ Watched' /\ resp' = NoResp
  BY <1>1 DEF NorthInv, RequestOK, Watched, Fresh_
<1>3. AnsweredOnce'
  BY <1>1 DEF AnsweredOnce
<1>4. StatsComplete'
  BY <1>1, <1>2, NothingShown DEF StatsComplete, StatsParts, DumpCalls
<1>5. UeFound' /\ FaultIfGone'
  BY <1>1 DEF UeFound, FaultIfGone, UeCall
<1> QED BY <1>1, <1>2, <1>3, <1>4, <1>5 DEF NorthInv, AnswersRight

\* A query that is refused.
LEMMA RefusedStep ==
  ASSUME NorthInv, NEW call, Going(call), NEW code, code # Ok, Answer_(code),
         call = UeCall /\ rest_request.of_bs /\ rest_request.id.kind # "-1" =>
           \A b \in DOMAIN bs : ~ Names(rest_request.id, b),
         call = UeCall => rest_request.of_bs
  PROVE  NorthInv'
<1>1. /\ at = "received" /\ rest_request.call = call /\ at' = "answered"
      /\ UNCHANGED <<bs, rest_request, held, met, bs_id, to_read, resp>>
      /\ sent_codes' = <<code>>
  BY DEF Going, ribVars, Answer_, NorthInv, Fresh_
<1>2. RequestOK' /\ Watched' /\ resp' = NoResp
  BY <1>1 DEF NorthInv, RequestOK, Watched, Fresh_
<1>3. sent_codes' # <<Ok>> /\ Len(sent_codes') = 1
  BY <1>1
<1>4. AnsweredOnce' /\ StatsComplete'
  BY <1>3 DEF AnsweredOnce, StatsComplete
<1>5. UeFound'
  <2> SUFFICES ASSUME call = UeCall PROVE UeFound'
    BY <1>1 DEF UeFound, UeCall
  <2> DEFINE asked == {p \in held' : p[2] = rest_request'.ue
                                     /\ (rest_request'.of_bs => Names(rest_request'.id, p[1]))}
  <2>1. rest_request.id.kind # "-1" => asked = {}
    <3> SUFFICES ASSUME rest_request.id.kind # "-1", NEW p \in asked PROVE FALSE
      OBVIOUS
    <3>1. p \in Pairs(bs) /\ Names(rest_request.id, p[1])
      BY <1>1, <1>2 DEF Watched
    <3>2. p[1] \in DOMAIN bs
      BY <3>1 DEF Pairs
    <3> QED BY <3>1, <3>2
  <2> HIDE DEF asked
  <2>2. asked # {} => rest_request'.of_bs /\ rest_request'.id.kind = "-1"
    BY <1>1, <2>1
  <2> QED BY <1>2, <1>3, <2>2, NothingShown DEF UeFound, asked
<1> QED BY <1>1, <1>2, <1>4, <1>5 DEF NorthInv, AnswersRight, FaultIfGone

\* A call that only answers, with whatever code.
LEMMA AnyAnswer ==
  ASSUME NorthInv, NEW call, Going(call), call \notin DumpCalls \cup {UeCall},
         \E code : Answer_(code)
  PROVE  NorthInv'
<1>1. PICK code : Answer_(code)
  OBVIOUS
<1>2. sent_codes = <<>> /\ sent_codes' = Append(sent_codes, code)
  BY <1>1 DEF Going, NorthInv, Fresh_, Answer_
<1>3. Len(sent_codes') = 1
  BY <1>2
<1> QED BY <1>1, <1>3, PlainStep DEF Answer_

\* The applications always answer.
LEMMA AskedAnswers ==
  ASSUME NEW refusal
  PROVE  /\ Asked(refusal) => \E code : Answer_(code)
         /\ AskedFor(refusal) => \E code : Answer_(code)
<1>1. Asked(refusal) => \E code : Answer_(code)
  BY DEF Asked
<1> QED BY <1>1 DEF AskedFor

\* All calls but the queries of statistics.
LEMMA AppCallsStep ==
  ASSUME NorthInv,
         PlmnCalls \/ RrmCalls \/ RrcCalls \/ RecorderCalls \/ NetstoreCalls \/ ElasticCalls
           \/ manager_list_api \/ stats_get_stats_req \/ stats_set_stats_req
  PROVE  NorthInv'
<1> DEFINE Others == DumpCalls \cup {UeCall}
<1>0. \A call : (\E refusal : Policy(call)) => Going(call) /\ \E code : Answer_(code)
  BY AskedAnswers DEF Policy
<1>1. ASSUME NEW call, call \notin Others, Policy(call) PROVE NorthInv'
  BY <1>0, <1>1, AnyAnswer
<1>2. ASSUME NEW call, NEW refusal, call \notin Others, Setting(call, refusal) PROVE NorthInv'
  <2>1. Going(call) /\ \E code : Answer_(code)
    BY <1>2, AskedAnswers DEF Setting
  <2> QED BY <1>2, <2>1, AnyAnswer
<1>3. ASSUME NEW call, NEW codes, call \notin Others, Plain(call, codes) PROVE NorthInv'
  <2>1. Going(call) /\ \E code : Answer_(code)
    BY <1>3 DEF Plain
  <2> QED BY <1>3, <2>1, AnyAnswer
<1>4. ASSUME NEW call, call \notin Others, Going(call), \E code : Answer_(code) PROVE NorthInv'
  BY <1>4, AnyAnswer
<1>5. {"add_mme", "remove_mme", "change_plmn", "apply_slice_config", "remove_slice_config",
       "change_ue_slice_assoc", "auto_ue_slice_assoc", "cell_reconfiguration", "yaml_compat",
       "rrc_reconf", "rrc_ho", "rrc_x2_ho_net_control", "set_stats_req", "get_stats_req",
       "start_meas", "obtain_job", "app_dl_trigger", "app_rm_trigger", "app_conf_trigger",
       "status", "add_endpoint", "remove_endpoint", "set_freq_stats", "set_freq_config",
       "set_batch_stats_size", "set_batch_config_size", "enable", "disable", "list_api"}
      \cap Others = {}
  BY DEF DumpCalls, UeCall
<1> HIDE DEF Others
<1>6. CASE PlmnCalls
  BY <1>1, <1>5, <1>6 DEF PlmnCalls, plmn_add_mme, plmn_remove_mme, plmn_change_plmn
<1>7. CASE rrm_auto_ue_slice_assoc
  <2>1. /\ Going("auto_ue_slice_assoc") /\ at' = "answered" /\ UNCHANGED <<bs_id, to_read, resp>>
        /\ \E code : sent_codes' = IF ~ rest_request.number THEN <<code>>
             ELSE Append(IF rest_request.dir THEN sent_codes
                         ELSE Append(sent_codes, Bad_Request), code)
    BY <1>7 DEF rrm_auto_ue_slice_assoc
  <2>2. sent_codes = <<>>
    BY <2>1 DEF Going, NorthInv, Fresh_
  <2>3. rest_request.dir => Len(sent_codes') = 1
    BY <2>1, <2>2
  <2>4. "auto_ue_slice_assoc" \notin DumpCalls \cup {UeCall}
    BY DEF DumpCalls, UeCall
  <2> QED BY <2>1, <2>3, <2>4, PlainStep
<1>8. CASE rrm_cell_reconfiguration
  <2>1. Going("cell_reconfiguration") /\ \E code : Answer_(code)
    BY <1>8, AskedAnswers DEF rrm_cell_reconfiguration
  <2> QED BY <1>4, <1>5, <2>1
<1>9. CASE rrm_yaml_compat
  <2>1. Going("yaml_compat") /\ \E code : Answer_(code)
    BY <1>9 DEF rrm_yaml_compat
  <2> QED BY <1>4, <1>5, <2>1
<1>10. CASE RrmCalls
  BY <1>1, <1>5, <1>7, <1>8, <1>9, <1>10
     DEF RrmCalls, rrm_apply_slice_config, rrm_remove_slice_config, rrm_change_ue_slice_assoc
<1>11. CASE RrcCalls
  <2>1. CASE rrc_call_reconf
    <3>1. Going("rrc_reconf") /\ \E code : Answer_(code)
      BY <2>1, AskedAnswers DEF rrc_call_reconf
    <3> QED BY <1>4, <1>5, <3>1
  <2>2. CASE rrc_call_ho
    <3>1. Going("rrc_ho") /\ \E code : Answer_(code)
      BY <2>2, AskedAnswers DEF rrc_call_ho
    <3> QED BY <1>4, <1>5, <3>1
  <2>3. CASE rrc_call_x2_ho_net_control
    <3>1. Going("rrc_x2_ho_net_control") /\ \E code : Answer_(code)
      BY <2>3, AskedAnswers DEF rrc_call_x2_ho_net_control
    <3> QED BY <1>4, <1>5, <3>1
  <2> QED BY <1>11, <2>1, <2>2, <2>3 DEF RrcCalls
<1>12. CASE RecorderCalls
  BY <1>2, <1>3, <1>5, <1>12 DEF RecorderCalls, recorder_start_meas, recorder_obtain_json_stats
<1>13. CASE NetstoreCalls
  BY <1>3, <1>5, <1>13
     DEF NetstoreCalls, netstore_app_dl_trigger, netstore_app_rm_trigger, netstore_app_conf_trigger
<1>14. CASE ElasticCalls
  BY <1>2, <1>3, <1>5, <1>14
     DEF ElasticCalls, elastic_status, elastic_add_endpoint, elastic_remove_endpoint,
         elastic_set_freq_stats, elastic_set_freq_config, elastic_set_batch_stats_size,
         elastic_set_batch_config_size, elastic_enable, elastic_disable
<1>15. CASE manager_list_api
  BY <1>3, <1>5, <1>15 DEF manager_list_api
<1>16. CASE stats_get_stats_req
  <2>1. Going("get_stats_req") /\ \E code : Answer_(code)
    BY <1>16, AskedAnswers DEF stats_get_stats_req
  <2> QED BY <1>4, <1>5, <2>1
<1>17. CASE stats_set_stats_req
  BY <1>1, <1>5, <1>17 DEF stats_set_stats_req
<1> QED BY <1>6, <1>10, <1>11, <1>12, <1>13, <1>14, <1>15, <1>16, <1>17

\* A query of statistics is taken up: nothing has been read yet.
LEMMA ReadsStep ==
  ASSUME NorthInv, NEW call \in DumpCalls, Going(call), Reads(PartsOf(rest_request.type)),
         IF rest_request.of_bs THEN bs_id' \in Bs /\ AsNamed(bs_id') ELSE bs_id' = 0
  PROVE  NorthInv'
<1>1. /\ at = "received" /\ at' = "reading" /\ rest_request.call = call
      /\ UNCHANGED <<bs, rest_request, held, met, resp, sent_codes>>
      /\ resp = NoResp /\ sent_codes = <<>> /\ to_read' = PartsOf(rest_request.type)
  BY DEF Going, ribVars, Reads, NorthInv, Fresh_
<1>2. RequestOK' /\ Watched'
  BY <1>1 DEF NorthInv, RequestOK, Watched
<1>3. resp' \in [config : SUBSET Bs, mac : SUBSET Bs, ue : {{}}]
  BY <1>1 DEF NoResp
<1>4. Reading'
  BY <1>1, <1>3, NothingShown DEF Reading, AsNamed
<1> QED BY <1>1, <1>2, <1>4
     DEF NorthInv, AnswersRight, AnsweredOnce, StatsComplete, UeFound, FaultIfGone

\* Queries of statistics of all base stations or one are refused or taken up.
LEMMA QueryStep ==
  ASSUME NorthInv, stats_obtain_stats \/ stats_obtain_json_stats \/ stats_obtain_json_stats_enb
  PROVE  NorthInv'
<1>0. Internal_Server_Error # Ok /\ Bad_Request # Ok
  BY DEF Internal_Server_Error, Bad_Request, Ok
<1>1. ASSUME NEW call \in {"obtain_stats", "obtain_json_stats"}, ObtainStats(call)
      PROVE  NorthInv'
  <2>1. call \in DumpCalls /\ call # UeCall /\ Going(call)
    BY <1>1 DEF DumpCalls, UeCall, ObtainStats
  <2>2. ~ rest_request.of_bs /\ bs_id = 0
    BY <1>1, <2>1 DEF Going, NorthInv, RequestOK, Fresh_
  <2>3. CASE rest_request.type = "other"
    BY <1>0, <1>1, <2>1, <2>3, RefusedStep DEF ObtainStats
  <2>4. CASE rest_request.type # "other"
    BY <1>1, <2>1, <2>2, <2>4, ReadsStep DEF ObtainStats
  <2> QED BY <2>3, <2>4
<1>2. ASSUME stats_obtain_json_stats_enb PROVE NorthInv'
  <2> DEFINE call == "obtain_json_stats_enb"
  <2>1. call \in DumpCalls /\ call # UeCall /\ Going(call)
    BY <1>2 DEF DumpCalls, UeCall, stats_obtain_json_stats_enb
  <2>2. rest_request.of_bs
    BY <2>1 DEF Going, NorthInv, RequestOK
  <2>3. CASE Answer_(Internal_Server_Error) \/ Answer_(Bad_Request)
    BY <1>0, <2>1, <2>3, RefusedStep
  <2>4. CASE Bs_ # 0 /\ Reads(PartsOf(rest_request.type)) /\ bs_id' = Bs_
    <3>1. DOMAIN bs \subseteq Bs
      BY DEF NorthInv
    <3>2. Bs_ \in DOMAIN bs /\ Names(rest_request.id, Bs_)
      BY <2>4, <3>1, ParsesNamed DEF Bs_
    <3> QED BY <2>1, <2>2, <2>4, <3>1, <3>2, ReadsStep DEF AsNamed
  <2> QED BY <1>2, <2>3, <2>4 DEF stats_obtain_json_stats_enb
<1> QED BY <1>1, <1>2 DEF stats_obtain_stats, stats_obtain_json_stats

\* A part is read: all that is asked for and there.
LEMMA DumpStep ==
  ASSUME NorthInv, AtStep("reading"), NEW part \in to_read, NEW S,
         resp' = [resp EXCEPT ![part] = S], to_read' = to_read \ {part},
         UNCHANGED <<at, bs_id, sent_codes>>,
         \A b : b \in S <=> b \in DOMAIN bs /\ (rest_request.of_bs => b = bs_id)
  PROVE  NorthInv'
<1>1. /\ at = "reading" /\ UNCHANGED <<bs, rest_request, held, met>>
      /\ Reading /\ Watched /\ RequestOK /\ DOMAIN bs \subseteq Bs
  BY DEF AtStep, ribVars, NorthInv
<1>2. RequestOK' /\ Watched'
  BY <1>1 DEF RequestOK, Watched
<1>3. part \in PartsOf(rest_request.type) /\ part \in StatsParts /\ S \subseteq Bs
  BY <1>1, PartsNames DEF Reading
<1>4. /\ resp' \in [config : SUBSET Bs, mac : SUBSET Bs, ue : {{}}]
      /\ resp'[part] = S
      /\ \A other \in StatsParts \ {part} : resp'[other] = resp[other]
  <2>1. resp \in [config : SUBSET Bs, mac : SUBSET Bs, ue : {{}}] /\ S \in SUBSET Bs
    BY <1>1, <1>3 DEF Reading
  <2>2. resp' \in [config : SUBSET Bs, mac : SUBSET Bs, ue : {{}}] /\ resp'[part] = S
    BY <1>3, <2>1 DEF StatsParts
  <2>3. \A other \in StatsParts \ {part} : resp'[other] = resp[other]
    BY <1>3, <2>1 DEF StatsParts
  <2> QED BY <2>2, <2>3
<1>5. ASSUME NEW p \in StatsParts, NEW b \in resp'[p]
      PROVE  /\ There(b) \in met /\ p \in PartsOf(rest_request.type)
             /\ rest_request.of_bs => b = bs_id
  <2>1. CASE p = part
    <3>1. There(b) \in Pairs(bs)
      BY <1>4, <2>1, PairThere
    <3> QED BY <1>1, <1>3, <1>4, <2>1, <3>1 DEF Watched
  <2>2. CASE p # part
    BY <1>1, <1>4, <2>2 DEF Reading
  <2> QED BY <2>1, <2>2
<1>6. ASSUME NEW p \in PartsOf(rest_request.type) \ to_read', NEW b \in Bs,
             There(b) \in held, rest_request.of_bs => b = bs_id
      PROVE  b \in resp'[p]
  <2>1. CASE p = part
    <3>1. b \in DOMAIN bs
      BY <1>1, <1>6, PairThere DEF Watched
    <3> QED BY <1>4, <1>6, <2>1, <3>1
  <2>2. CASE p # part
    <3>1. p \in StatsParts \ {part} /\ p \notin to_read
      BY <2>2, PartsNames
    <3> QED BY <1>1, <1>4, <1>6, <3>1 DEF Reading
  <2> QED BY <2>1, <2>2
<1>7. Reading'
  BY <1>1, <1>4, <1>5, <1>6 DEF Reading, AsNamed
<1> QED BY <1>1, <1>2, <1>7
     DEF NorthInv, AnswersRight, AnsweredOnce, StatsComplete, UeFound, FaultIfGone

\* A part of all base stations.
LEMMA DumpAllStep ==
  ASSUME NorthInv, NEW part, DumpAll(part)
  PROVE  NorthInv'
<1>1. /\ AtStep("reading") /\ part \in to_read /\ bs_id = 0
      /\ resp' = [resp EXCEPT ![part] = UNION {Dumped(b) : b \in DOMAIN bs}]
      /\ to_read' = to_read \ {part} /\ UNCHANGED <<at, bs_id, sent_codes>>
  BY DEF DumpAll
<1>2. ~ rest_request.of_bs
  BY <1>1, NoBsZero DEF AtStep, NorthInv, Reading
<1>3. \A b : b \in UNION {Dumped(x) : x \in DOMAIN bs} <=> b \in DOMAIN bs
  BY DEF Dumped
<1> DEFINE S == UNION {Dumped(b) : b \in DOMAIN bs}
<1> HIDE DEF S
<1>4. \A b : b \in S <=> b \in DOMAIN bs /\ (rest_request.of_bs => b = bs_id)
  BY <1>2, <1>3 DEF S
<1>5. resp' = [resp EXCEPT ![part] = S]
  BY <1>1 DEF S
<1> QED BY <1>1, <1>4, <1>5, DumpStep

\* A part of one BS; nothing of it is shown if it has gone.
LEMMA DumpBsStep ==
  ASSUME NorthInv, NEW part, DumpBs(part)
  PROVE  NorthInv'
<1>1. /\ AtStep("reading") /\ part \in to_read /\ bs_id # 0 /\ UNCHANGED <<at, bs_id, sent_codes>>
      /\ at = "reading" /\ Reading /\ Watched /\ RequestOK /\ DOMAIN bs \subseteq Bs
      /\ UNCHANGED <<bs, rest_request, held, met>>
  BY DEF DumpBs, AtStep, NorthInv, ribVars
<1>2. rest_request.of_bs
  BY <1>1 DEF Reading
<1>3. CASE bs_id \in DOMAIN bs
  <2>1. resp' = [resp EXCEPT ![part] = Dumped(bs_id)] /\ to_read' = to_read \ {part}
    BY <1>3 DEF DumpBs
  <2>2. \A b : b \in Dumped(bs_id) <=> b \in DOMAIN bs /\ (rest_request.of_bs => b = bs_id)
    BY <1>2, <1>3 DEF Dumped
  <2> QED BY <1>1, <2>1, <2>2, DumpStep
<1>4. CASE bs_id \notin DOMAIN bs
  <2>1. resp' = NoResp /\ to_read' = {}
    BY <1>4 DEF DumpBs
  <2>2. There(bs_id) \notin held
    BY <1>1, <1>4, PairThere DEF Watched
  <2>3. resp' \in [config : SUBSET Bs, mac : SUBSET Bs, ue : {{}}]
    BY <2>1 DEF NoResp
  <2>4. Reading'
    BY <1>1, <1>2, <2>1, <2>2, <2>3, NothingShown DEF Reading, AsNamed
  <2>5. RequestOK' /\ Watched'
    BY <1>1 DEF RequestOK, Watched
  <2> QED BY <1>1, <2>4, <2>5
       DEF NorthInv, AnswersRight, AnsweredOnce, StatsComplete, UeFound, FaultIfGone
<1> QED BY <1>3, <1>4

\* All parts were read: what the invariant says of them is the property.
LEMMA DumpEndsStep ==
  ASSUME NorthInv, DumpEnds
  PROVE  NorthInv'
<1>1. /\ at = "reading" /\ at' = "answered" /\ to_read = {}
      /\ Reading /\ Watched /\ RequestOK /\ DOMAIN bs \subseteq Bs
      /\ UNCHANGED <<bs, rest_request, held, met, bs_id, to_read, resp>>
      /\ sent_codes' = <<Ok>>
  BY DEF DumpEnds, AtStep, NorthInv, ribVars, Answer_, Reading
<1>2. RequestOK' /\ Watched' /\ rest_request.call # UeCall
  BY <1>1 DEF RequestOK, Watched, Reading, DumpCalls, UeCall
<1>3. AnsweredOnce'
  BY <1>1 DEF AnsweredOnce
<1>4. StatsComplete'
  <2> SUFFICES ASSUME NEW part \in StatsParts, NEW b \in Bs
               PROVE  /\ b \in resp[part] => /\ There(b) \in met /\ part \in PartsOf(rest_request.type)
                                             /\ rest_request.of_bs => Names(rest_request.id, b)
                      /\ /\ part \in PartsOf(rest_request.type) /\ There(b) \in held
                         /\ rest_request.of_bs => b = bs_id
                         => b \in resp[part]
    BY <1>1 DEF StatsComplete, StatsParts, There
  <2> QED BY <1>1 DEF Reading, AsNamed
<1>5. UeFound' /\ FaultIfGone'
  BY <1>1, <1>2 DEF UeFound, FaultIfGone, UeCall
<1> QED BY <1>1, <1>2, <1>3, <1>4, <1>5 DEF NorthInv, AnswersRight

\* A query for a UE is refused, or the base stations to be searched are noted.
LEMMA UeQueryStep ==
  ASSUME NorthInv, stats_obtain_json_stats_ue
  PROVE  NorthInv'
<1>0. Internal_Server_Error # Ok /\ Bad_Request # Ok
  BY DEF Internal_Server_Error, Bad_Request, Ok
<1>1. /\ Going(UeCall) /\ at = "received" /\ rest_request.call = UeCall /\ Fresh_
      /\ Watched /\ RequestOK /\ DOMAIN bs \subseteq Bs
      /\ UNCHANGED <<bs, rest_request, held, met>>
  BY DEF stats_obtain_json_stats_ue, UeCall, Going, NorthInv, ribVars
<1>2. CASE rest_request.of_bs /\ rest_request.id.kind = "huge"
  <2>1. Answer_(Internal_Server_Error)
    BY <1>2 DEF stats_obtain_json_stats_ue
  <2>2. \A b : ~ Names(rest_request.id, b)
    BY <1>2 DEF Names
  <2> QED BY <1>0, <1>1, <1>2, <2>1, <2>2, RefusedStep
<1>3. CASE rest_request.of_bs /\ rest_request.id.kind # "huge" /\ Bs_ = 0
  <2>1. Answer_(Bad_Request)
    BY <1>3 DEF stats_obtain_json_stats_ue
  <2>2. rest_request.id.kind # "-1" => \A b \in DOMAIN bs : ~ Names(rest_request.id, b)
    BY <1>1, <1>3, ParsesNamed, NoBsZero DEF Bs_
  <2> QED BY <1>0, <1>1, <1>3, <2>1, <2>2, RefusedStep
<1>4. CASE ~ rest_request.of_bs \/ (Bs_ # 0 /\ rest_request.id.kind # "huge")
  <2>1. /\ to_read' = IF rest_request.of_bs THEN {Bs_} ELSE DOMAIN bs
        /\ at' = "searching" /\ UNCHANGED <<bs_id, resp, sent_codes>>
    BY <1>1, <1>4 DEF stats_obtain_json_stats_ue, get_available_base_stations
  <2>2. rest_request.of_bs => Bs_ \in DOMAIN bs /\ AsNamed(Bs_)
    BY <1>1, <1>4, ParsesNamed DEF Bs_, AsNamed
  <2>3. to_read' \subseteq DOMAIN bs /\ \A b \in to_read' : AsNamed(b)
    BY <2>1, <2>2 DEF AsNamed
  <2>4. \A b \in to_read' : There(b) \in met
    BY <1>1, <2>3, PairThere DEF Watched
  <2>5. ASSUME NEW b \in Bs, <<b, rest_request.ue>> \in held, AsNamed(b),
               ~ (rest_request.of_bs /\ rest_request.id.kind = "-1")
        PROVE  b \in to_read'
    <3>1. b \in DOMAIN bs
      BY <1>1, <2>5 DEF Watched, Pairs
    <3> QED BY <1>1, <2>1, <2>5, <3>1, ParsesNamed DEF AsNamed, Bs_
  <2>6. Searching'
    BY <1>1, <2>1, <2>3, <2>4, <2>5 DEF Searching, Fresh_, AsNamed
  <2>7. RequestOK' /\ Watched'
    BY <1>1 DEF RequestOK, Watched
  <2>8. AnswersRight'
    BY <2>1 DEF AnswersRight, AnsweredOnce, StatsComplete, UeFound, FaultIfGone
  <2>9. DOMAIN bs' \subseteq Bs
    BY <1>1
  <2> QED BY <2>1, <2>6, <2>7, <2>8, <2>9 DEF NorthInv
<1>5. rest_request.of_bs \in BOOLEAN
  BY <1>1 DEF RequestOK
<1> QED BY <1>2, <1>3, <1>4, <1>5

\* The next BS is searched; if it has gone, it was there when it was noted.
LEMMA FindUeStep ==
  ASSUME NorthInv, FindUe
  PROVE  NorthInv'
<1> DEFINE b == Min(to_read)
<1>1. /\ at = "searching" /\ to_read # {} /\ Searching /\ Watched /\ RequestOK
      /\ DOMAIN bs \subseteq Bs /\ UNCHANGED <<bs, rest_request, held, met>>
  BY DEF FindUe, AtStep, NorthInv, ribVars
<1>2. b \in to_read /\ b \in Bs /\ AsNamed(b) /\ There(b) \in met
  <2>1. to_read \subseteq Bs /\ to_read \subseteq Nat
    BY <1>1, BsAssumption DEF Searching
  <2>2. b \in to_read
    BY <1>1, <2>1, LeastId
  <2> QED BY <1>1, <2>1, <2>2 DEF Searching
<1>3. \/ b \notin DOMAIN bs /\ at' = "fault" /\ UNCHANGED callVars
      \/ at' = "found" /\ bs_id' = b /\ to_read' = {} /\ UNCHANGED <<resp, sent_codes>>
      \/ /\ b \in DOMAIN bs /\ rest_request.ue \notin bs[b].ues
         /\ to_read' = to_read \ {b} /\ UNCHANGED <<at, bs_id, resp, sent_codes>>
  BY DEF FindUe
<1> HIDE DEF b
<1>4. RequestOK' /\ Watched'
  BY <1>1 DEF RequestOK, Watched
<1>5. CASE b \notin DOMAIN bs /\ at' = "fault" /\ UNCHANGED callVars
  <2>1. There(b) \notin held
    BY <1>1, <1>5, PairThere DEF Watched
  <2>2. FaultIfGone'
    BY <1>1, <1>2, <2>1 DEF FaultIfGone, There
  <2> QED BY <1>1, <1>4, <1>5, <2>2 DEF NorthInv, AnswersRight, AnsweredOnce, StatsComplete, UeFound
<1>6. CASE at' = "found" /\ bs_id' = b /\ to_read' = {} /\ UNCHANGED <<resp, sent_codes>>
  <2>1. Found'
    BY <1>1, <1>2, <1>6 DEF Found, Searching, AsNamed
  <2> QED BY <1>1, <1>4, <1>6, <2>1
       DEF NorthInv, AnswersRight, AnsweredOnce, StatsComplete, UeFound, FaultIfGone
<1>7. CASE /\ b \in DOMAIN bs /\ rest_request.ue \notin bs[b].ues
           /\ to_read' = to_read \ {b} /\ UNCHANGED <<at, bs_id, resp, sent_codes>>
  <2>1. rest_request.ue # NoUe_
    BY <1>1, NoUeAssumption DEF RequestOK, Searching
  <2>2. <<b, rest_request.ue>> \notin held
    BY <1>1, <1>7, <2>1 DEF Watched, Pairs
  <2>3. Searching'
    BY <1>1, <1>7, <2>2 DEF Searching, AsNamed
  <2> QED BY <1>1, <1>4, <1>7, <2>3
       DEF NorthInv, AnswersRight, AnsweredOnce, StatsComplete, UeFound, FaultIfGone
<1> QED BY <1>3, <1>5, <1>6, <1>7

\* None is left to be searched, so a UE that was there all the time would be found.
LEMMA NoUeFoundStep ==
  ASSUME NorthInv, NoUeFound
  PROVE  NorthInv'
<1>1. /\ at = "searching" /\ at' = "answered" /\ to_read = {} /\ Searching /\ Watched /\ RequestOK
      /\ DOMAIN bs \subseteq Bs /\ UNCHANGED <<bs, rest_request, held, met, resp>>
      /\ sent_codes' = <<Bad_Request>>
  BY DEF NoUeFound, AtStep, NorthInv, ribVars, Answer_, Searching
<1>2. RequestOK' /\ Watched'
  BY <1>1 DEF RequestOK, Watched
<1>3. sent_codes' # <<Ok>> /\ Len(sent_codes') = 1
  BY <1>1 DEF Bad_Request, Ok
<1>4. AnsweredOnce' /\ StatsComplete'
  BY <1>3 DEF AnsweredOnce, StatsComplete
<1>5. UeFound'
  <2> DEFINE asked == {p \in held' : p[2] = rest_request'.ue
                                     /\ (rest_request'.of_bs => Names(rest_request'.id, p[1]))}
  <2>1. ASSUME NEW p \in asked PROVE rest_request.of_bs /\ rest_request.id.kind = "-1"
    <3>1. p \in held /\ p = <<p[1], rest_request.ue>> /\ p[1] \in Bs /\ AsNamed(p[1])
      BY <1>1, <2>1 DEF Watched, Pairs, AsNamed
    <3> QED BY <1>1, <3>1 DEF Searching
  <2>2. asked # {} => rest_request'.of_bs /\ rest_request'.id.kind = "-1"
    BY <1>1, <2>1
  <2> HIDE DEF asked
  <2>3. resp'.ue = {}
    BY <1>1, NothingShown DEF Searching
  <2> QED BY <1>3, <2>2, <2>3 DEF UeFound, asked
<1> QED BY <1>1, <1>2, <1>4, <1>5 DEF NorthInv, AnswersRight, FaultIfGone

\* The UE is looked up again in the BS it was found in.
LEMMA DumpUeStep ==
  ASSUME NorthInv, DumpUe
  PROVE  NorthInv'
<1>1. /\ at = "found" /\ at' = "answered" /\ Found /\ Watched /\ RequestOK
      /\ DOMAIN bs \subseteq Bs /\ UNCHANGED <<bs, rest_request, held, met, bs_id>>
      /\ resp' = [resp EXCEPT !.ue = DumpedUe(bs_id, rest_request.ue)]
      /\ sent_codes' = <<Ok>>
  BY DEF DumpUe, AtStep, NorthInv, ribVars, Found
<1>2. RequestOK' /\ Watched'
  BY <1>1 DEF RequestOK, Watched
<1>3. /\ resp'.config = {} /\ resp'.mac = {}
      /\ resp'.ue = DumpedUe(bs_id, rest_request.ue)
  BY <1>1 DEF Found, NoResp
<1>4. AnsweredOnce'
  BY <1>1 DEF AnsweredOnce
<1>5. StatsComplete'
  <2>1. \A part \in StatsParts : resp'[part] = {}
    BY <1>3 DEF StatsParts
  <2>2. rest_request.call \notin {"obtain_stats", "obtain_json_stats", "obtain_json_stats_enb"}
    BY <1>1 DEF Found, UeCall
  <2> QED BY <1>1, <2>1, <2>2 DEF StatsComplete, StatsParts
<1>6. UeFound'
  <2>1. \A p \in resp'.ue : p = <<bs_id, rest_request.ue>> /\ p \in Pairs(bs)
    BY <1>3 DEF DumpedUe
  <2>2. resp'.ue = {} => <<bs_id, rest_request.ue>> \notin Pairs(bs)
    BY <1>3 DEF DumpedUe
  <2>3. \A p \in resp'.ue : p \in met /\ AsNamed(p[1])
    BY <1>1, <2>1 DEF Watched, Found
  <2> QED BY <1>1, <2>2, <2>3 DEF UeFound, Watched, AsNamed
<1> QED BY <1>1, <1>2, <1>4, <1>5, <1>6 DEF NorthInv, AnswersRight, FaultIfGone

\* Nothing of a request is kept.
LEMMA AnsweredStep ==
  ASSUME NorthInv, Answered
  PROVE  NorthInv'
<1>1. at' = "idle" /\ Fresh_' /\ bs' = bs
  BY DEF Answered, Fresh_, ribVars
<1> QED BY <1>1 DEF NorthInv, AnswersRight, AnsweredOnce, StatsComplete, UeFound, FaultIfGone

\* Each request is answered once, and an answer shows what was asked for of the BS that
\* was named, however the RIB changes while the handler reads it.
THEOREM AnswersAreRight == NorthSpec => []AnswersRight
<1>1. RibInit /\ NorthInit => NorthInv
  BY InitNorthInv
<1>2. NorthInv /\ [NorthNext]_<<ribVars, northVars>> => NorthInv'
  <2> SUFFICES ASSUME NorthInv, [NorthNext]_<<ribVars, northVars>> PROVE NorthInv'
    OBVIOUS
  <2>1. CASE Receive \/ RibChanges \/ Answered
    BY <2>1, ReceiveStep, RibStep, AnsweredStep
  <2>2. CASE PlmnCalls \/ RrmCalls \/ RrcCalls \/ RecorderCalls \/ NetstoreCalls \/ ElasticCalls
               \/ manager_list_api
    BY <2>2, AppCallsStep
  <2>3. CASE StatsCalls
    BY <2>3, AppCallsStep, QueryStep, UeQueryStep, DumpAllStep, DumpBsStep, DumpEndsStep,
       FindUeStep, NoUeFoundStep, DumpUeStep DEF StatsCalls
  <2>4. CASE UNCHANGED <<ribVars, northVars>>
    BY <2>4 DEF ribVars, northVars, callVars, NorthInv, RequestOK, Watched, Fresh_, Reading,
       Searching, Found, AsNamed, AnswersRight, AnsweredOnce, StatsComplete, UeFound, FaultIfGone
  <2> QED BY <2>1, <2>2, <2>3, <2>4 DEF NorthNext
<1>3. NorthInv => AnswersRight
  BY DEF NorthInv
<1> QED BY <1>1, <1>2, <1>3, PTL DEF NorthSpec
=============================================================================
