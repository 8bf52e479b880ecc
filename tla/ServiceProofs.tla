----------------------------- MODULE ServiceProofs -----------------------------
(*****************************************************************************)
(* Proofs about the services around the RIB: the recorder, netstore_loader,  *)
(* stats_manager, the messages of the protocol, the statistics of the MAC    *)
(* layer and elastic_search.  The state of one says nothing of another.      *)
(*****************************************************************************)
EXTENDS Recorder, NetstoreLoader, StatsManager, Framing, MacStatistics, ElasticSearch,
        FiniteSetTheorems, NaturalsInduction, WellFoundedInduction, TLAPS

(*****************************************************************************)
(* Recorder: one job at a time, and its dump                                 *)
(*****************************************************************************)
\* d has a chunk for each millisecond from the one to the other.
Exact(d, from, to) ==
  /\ d \in Seq(Tick)
  /\ Len(d) = to - from
  /\ \A i \in 1..Len(d) : d[i] = from + i - 1

\* What holds throughout: the clock, the files being written, the accepted jobs.
RecClock ==
  /\ tick \in Tick /\ last_tick \in Tick
  /\ tick_pc # "wait" => tick < MaxTick
  /\ \A w \in writing : Exact(w.dump, w.job.ms_start, w.job.ms_end)
  /\ IsFiniteSet(accepted)
  /\ ~ running /\ null_used \in {"none"} \cup RibPointers

\* A job that has its number and times.
Timed(j) == j.nr \in Nat /\ j.ms_start \in 2..MaxTick /\ j.ms_end \in Tick /\ j.ms_start < j.ms_end

\* No slot is left to call in this millisecond.
NoSlotDue == todo = {} /\ tick_pc \in {"wait", "emit"}

\* No job: none recorded, none subscribed.
JobNone ==
  /\ start_pc = "idle" /\ current_job = NoJob
  /\ slots = {} /\ NoSlotDue

\* start_meas fills the caches, passes its test, and creates the job.
JobStarts ==
  /\ start_pc \in {"filling", "chunking", "looking_up", "tested", "opened", "dumped", "created"}
  /\ slots = {} /\ NoSlotDue
  /\ start_pc # "created" => current_job = NoJob
  /\ start_pc \in {"opened", "dumped", "created"} => Timed(job)
  /\ start_pc \in {"dumped", "created"} => dump = <<>>
  /\ start_pc = "created" => current_job = job

\* The milliseconds before this one have their chunks.
Written ==
  IF tick < current_job.ms_start THEN current_job.ms_start
  ELSE IF tick_pc = "wait" \/ (tick_pc = "emit" /\ todo # {}) THEN tick ELSE tick + 1

\* The job is subscribed and records: its dump holds every millisecond so far.
JobRuns ==
  /\ start_pc = "idle"
  /\ Timed(current_job)
  /\ slots = {current_job}
  /\ Exact(dump, current_job.ms_start, Written)
  /\ tick < current_job.ms_end
  /\ \/ tick_pc = "wait" /\ todo = {}
     \/ tick_pc = "emit" /\ todo = {} /\ tick + 1 < current_job.ms_end
     \/ /\ tick_pc \in {"emit", "chunked"} /\ todo = {current_job}
        /\ tick >= current_job.ms_start

\* The job has ended and been moved to the thread that writes its file.
JobMoved ==
  /\ start_pc = "idle" /\ current_job = NoJob /\ tick_pc = "moved"
  /\ \E j \in slots : j.nr \in Nat /\ slots = {j} /\ todo = {j}

\* The invariant of a recorder whose calls are not interrupted.
CalmInv == RecClock /\ (JobNone \/ JobStarts \/ JobRuns \/ JobMoved)
RecIInv == calm => CalmInv

\* A dump that starts holds nothing yet.
LEMMA ExactNothing ==
  ASSUME NEW t \in Nat
  PROVE  Exact(<<>>, t, t)
BY DEF Exact

\* One more millisecond.
LEMMA ExactMore ==
  ASSUME NEW d, NEW s \in Nat, NEW t \in Tick, s <= t, Exact(d, s, t)
  PROVE  Exact(Append(d, t), s, t + 1)
<1> USE RecBoundAssumption DEF Tick, Exact
<1>1. Append(d, t) \in Seq(Tick) /\ Len(Append(d, t)) = t + 1 - s
  OBVIOUS
<1>2. \A i \in 1..Len(Append(d, t)) : Append(d, t)[i] = s + i - 1
  <2>1. TAKE i \in 1..Len(Append(d, t))
  <2>2. CASE i = Len(d) + 1
    BY <2>2
  <2>3. CASE i \in 1..Len(d)
    BY <2>3
  <2>4. QED
    BY <1>1, <2>2, <2>3
<1>3. QED
  BY <1>1, <1>2

\* A dump is not the null pointer.
LEMMA ExactNotNull ==
  ASSUME NEW d, NEW s, NEW t, Exact(d, s, t)
  PROVE  d # NoDump
<1>1. d \in Seq(Tick)
  BY DEF Exact
<1>2. ASSUME d = NoDump
      PROVE  FALSE
  <2>1. Len(d) = 1 /\ d[1] = MaxTick + 1
    BY <1>2 DEF NoDump
  <2>2. d[1] \in Tick
    BY <1>1, <2>1
  <2>3. QED
    BY <2>1, <2>2, RecBoundAssumption DEF Tick
<1>3. QED
  BY <1>2

\* A job with its times is a job.
LEMMA TimedIsJob ==
  ASSUME NEW j, Timed(j)
  PROVE  j # NoJob
BY RecBoundAssumption DEF Timed, NoJob

\* With one slot due, its call is the last of the millisecond.
LEMMA OneSlot ==
  ASSUME NEW j, j.nr \in Nat, todo = {j}
  PROVE  SlotDone <=> todo' = {} /\ tick_pc' = "emit"
<1>1. NextSlot = j
  BY DEF NextSlot
<1>2. QED
  BY <1>1 DEF SlotDone

\* While start_meas makes its chunks the job and its files stay as they are.
LEMMA FillShape ==
  ASSUME FillCaches
  PROVE  /\ start_pc \in Filling /\ start_pc' \in Filling \cup {"tested"}
         /\ null_used' = null_used \/ null_used' \in RibPointers
         /\ running' = running \/ (start_pc' = "tested" /\ running' = (current_job # NoJob))
         /\ UNCHANGED <<bs, tick, last_tick, tick_pc, todo, slots, current_job, dump, writing,
                        finished_jobs, job, accepted, calm>>
<1> USE DEF FillStep, fillVars, tickVars, ribVars, Filling, RibPointers
<1>1. CASE ChunkBegins
  BY <1>1 DEF ChunkBegins
<1>2. CASE ReadFreed
  BY <1>2 DEF ReadFreed
<1>3. CASE ReadUe
  BY <1>3 DEF ReadUe
<1>4. CASE LookUpUe
  BY <1>4 DEF LookUpUe
<1>5. CASE ChunkEnds
  BY <1>5 DEF ChunkEnds
<1>6. CASE StartTest
  BY <1>6 DEF StartTest
<1>7. QED
  BY <1>1, <1>2, <1>3, <1>4, <1>5, <1>6 DEF FillCaches

(***************************************************************************)
(* No step makes the calls calm again.                                     *)
(***************************************************************************)
LEMMA CalmBefore ==
  ASSUME RecNext, calm'
  PROVE  calm
<1>1. CASE FillCaches
  BY <1>1, FillShape
<1>2. CASE ~ FillCaches
  BY <1>2 DEF RecNext, TaskManager, TickBegin, TickEnd, TickNoJob, TickChunk, TickMove, TickReset,
       Write, StartMeas, StartContinue, StartOpen, StartRefused, StartDump, StartCreate,
       StartSubscribe, RibChangesBetweenTicks
<1>3. QED
  BY <1>1, <1>2

LEMMA TicksCalm ==
  ASSUME CalmInv, TaskManager
  PROVE  CalmInv'
<1> USE RecBoundAssumption
<1>1. CASE TickBegin
  <2> USE <1>1 DEF CalmInv, TickBegin, startVars
  <2>1. RecClock'
    BY DEF RecClock
  <2>2. CASE JobNone
    BY <2>1, <2>2 DEF JobNone, NoSlotDue
  <2>3. CASE JobStarts
    BY <2>1, <2>3 DEF JobStarts, NoSlotDue
  <2>4. CASE JobRuns
    <3> DEFINE j == current_job
    <3>1. Timed(j) /\ slots = {j} /\ tick_pc = "wait" /\ tick \in Tick
      BY <2>4 DEF JobRuns, RecClock
    <3>2. CASE tick >= j.ms_start
      <4>1. todo' = {j} /\ Written' = tick /\ Written = tick
        BY <3>1, <3>2 DEF Written, Timed, Tick
      <4>2. JobRuns'
        BY <2>4, <3>1, <3>2, <4>1 DEF JobRuns
      <4>3. QED
        BY <2>1, <4>2
    <3>3. CASE tick < j.ms_start
      <4>1. todo' = {} /\ Written' = j.ms_start /\ Written = j.ms_start
        BY <3>1, <3>3 DEF Written, Timed, Tick
      <4>2. tick + 1 < j.ms_end
        BY <3>1, <3>3 DEF Timed, Tick
      <4>3. JobRuns'
        BY <2>4, <3>1, <4>1, <4>2 DEF JobRuns
      <4>4. QED
        BY <2>1, <4>3
    <3>4. QED
      BY <3>1, <3>2, <3>3 DEF Timed, Tick
  <2>5. QED
    BY <2>2, <2>3, <2>4 DEF JobMoved
<1>2. CASE TickEnd
  <2> USE <1>2 DEF CalmInv, TickEnd, startVars
  <2>1. RecClock' /\ todo = {}
    BY DEF RecClock, Tick
  <2>2. CASE JobNone
    BY <2>1, <2>2 DEF JobNone, NoSlotDue
  <2>3. CASE JobStarts
    BY <2>1, <2>3 DEF JobStarts, NoSlotDue
  <2>4. CASE JobRuns
    <3>1. tick \in Tick /\ Timed(current_job) /\ tick + 1 < current_job.ms_end
      BY <2>1, <2>4 DEF JobRuns, RecClock
    <3>2. Written' = Written
      BY <2>1, <3>1 DEF Written, Timed, Tick
    <3>3. JobRuns'
      BY <2>4, <3>1, <3>2 DEF JobRuns
    <3>4. QED
      BY <2>1, <3>3
  <2>5. CASE JobMoved
    BY <2>5 DEF JobMoved
  <2>6. QED
    BY <2>2, <2>3, <2>4, <2>5
<1>3. CASE TickNoJob
  <2>1. CalmInv /\ todo # {} /\ current_job = NoJob /\ tick_pc = "emit"
    BY <1>3 DEF TickNoJob
  <2>2. QED
    BY <2>1, TimedIsJob DEF CalmInv, JobNone, JobStarts, NoSlotDue, JobRuns, JobMoved
<1>4. CASE TickChunk
  <2> USE <1>4 DEF TickChunk, startVars
  <2>1. JobRuns /\ RecClock
    BY DEF CalmInv, JobNone, JobStarts, NoSlotDue, JobMoved
  <2> DEFINE j == current_job
  <2>2. /\ Timed(j) /\ tick \in Tick /\ tick >= j.ms_start /\ todo = {j} /\ Written = tick
        /\ Exact(dump, j.ms_start, tick)
    BY <2>1 DEF JobRuns, RecClock, Written, Timed, Tick
  <2>3. dump' = Append(dump, tick) /\ tick_pc' = "chunked" /\ UNCHANGED null_used
    BY <2>2, ExactNotNull
  <2>4. Exact(dump', j.ms_start, tick + 1)
    BY <2>2, <2>3, ExactMore DEF Timed
  <2>5. Written' = tick + 1
    BY <2>2, <2>3 DEF Written, Timed, Tick
  <2>6. JobRuns'
    BY <2>1, <2>2, <2>3, <2>4, <2>5 DEF JobRuns
  <2>7. RecClock'
    BY <2>1, <2>3 DEF RecClock
  <2>8. QED
    BY <2>6, <2>7 DEF CalmInv
<1>5. CASE TickMove
  <2> USE <1>5 DEF TickMove, startVars
  <2>1. JobRuns /\ RecClock
    BY DEF CalmInv, JobNone, JobStarts, NoSlotDue, JobMoved
  <2> DEFINE j == current_job
  <2>2. /\ Timed(j) /\ tick \in Tick /\ tick >= j.ms_start /\ todo = {j} /\ Written = tick + 1
        /\ Exact(dump, j.ms_start, tick + 1) /\ tick < j.ms_end
    BY <2>1 DEF JobRuns, RecClock, Written, Timed, Tick
  <2>3. CASE tick = j.ms_end - 1
    <3>1. Exact(dump, j.ms_start, j.ms_end)
      BY <2>2, <2>3 DEF Timed, Tick
    <3>2. RecClock'
      BY <2>1, <2>3, <3>1 DEF RecClock
    <3>3. JobMoved'
      BY <2>1, <2>2, <2>3 DEF JobRuns, JobMoved, Timed
    <3>4. QED
      BY <3>2, <3>3 DEF CalmInv
  <2>4. CASE tick # j.ms_end - 1
    <3>1. /\ todo' = {} /\ tick_pc' = "emit"
          /\ UNCHANGED <<tick, last_tick, writing, current_job, dump, slots, startVars, accepted,
                         null_used>>
      BY <2>2, <2>4, OneSlot DEF Timed
    <3>2. Written' = tick + 1 /\ tick + 1 < j.ms_end
      BY <2>2, <2>4, <3>1 DEF Written, Timed, Tick
    <3>3. JobRuns'
      BY <2>1, <2>2, <3>1, <3>2 DEF JobRuns
    <3>4. RecClock'
      BY <2>1, <3>1 DEF RecClock
    <3>5. QED
      BY <3>3, <3>4 DEF CalmInv
  <2>5. QED
    BY <2>3, <2>4
<1>6. CASE TickReset
  <2> USE <1>6 DEF TickReset, startVars
  <2>1. JobMoved /\ RecClock
    BY DEF CalmInv, JobNone, JobStarts, NoSlotDue, JobRuns
  <2>2. PICK j \in slots : j.nr \in Nat /\ slots = {j} /\ todo = {j}
    BY <2>1 DEF JobMoved
  <2>3. NextSlot = j
    BY <2>2 DEF NextSlot
  <2>4. JobNone'
    BY <2>1, <2>2, <2>3 DEF JobMoved, JobNone, SlotDone, NoSlotDue
  <2>5. RecClock'
    BY <2>1 DEF RecClock, SlotDone
  <2>6. QED
    BY <2>4, <2>5 DEF CalmInv
<1>7. QED
  BY <1>1, <1>2, <1>3, <1>4, <1>5, <1>6 DEF TaskManager

(***************************************************************************)
(* A calm call finds the recorder idle, so it starts its job after         *)
(* everything that the task manager did for the job before.                *)
(***************************************************************************)
LEMMA CallsCalm ==
  ASSUME CalmInv, calm', StartMeas \/ StartContinue
  PROVE  CalmInv'
<1> USE RecBoundAssumption, DurationAssumption DEF tickVars
<1>1. CASE StartMeas
  <2> USE <1>1 DEF StartMeas
  <2>1. current_job = NoJob /\ slots = {} /\ writing = {}
    BY DEF Busy
  <2>2. JobNone /\ RecClock
    BY <2>1 DEF CalmInv, JobStarts, JobRuns, JobMoved
  <2>3. JobStarts' /\ RecClock'
    BY <2>2 DEF JobNone, JobStarts, NoSlotDue, RecClock
  <2>4. QED
    BY <2>3 DEF CalmInv
<1>2. CASE StartOpen
  <2> USE <1>2 DEF StartOpen
  <2>1. JobStarts /\ RecClock
    BY DEF CalmInv, JobNone, JobRuns, JobMoved
  <2>2. ~ running /\ last_tick \in Tick /\ Cardinality(accepted) \in Nat
    BY <2>1, FS_CardinalityType DEF RecClock
  <2>3. PICK d \in Duration :
          /\ last_tick + 2 + d <= MaxTick
          /\ job' = [nr |-> Cardinality(accepted) + 1, ms_start |-> last_tick + 2,
                     ms_end |-> last_tick + 2 + d]
    BY <2>2
  <2>4. Timed(job')
    BY <2>2, <2>3 DEF Timed, Tick
  <2>5. start_pc' = "opened" /\ UNCHANGED null_used
    BY <2>2
  <2>6. JobStarts' /\ RecClock'
    BY <2>1, <2>4, <2>5 DEF JobStarts, NoSlotDue, RecClock
  <2>7. QED
    BY <2>6 DEF CalmInv
<1>3. CASE StartRefused
  <2>1. JobStarts /\ RecClock
    BY <1>3 DEF StartRefused, CalmInv, JobNone, JobRuns, JobMoved
  <2>2. JobNone' /\ RecClock'
    BY <1>3, <2>1 DEF StartRefused, JobStarts, JobNone, NoSlotDue, RecClock
  <2>3. QED
    BY <2>2 DEF CalmInv
<1>4. CASE StartDump
  <2>1. JobStarts /\ RecClock
    BY <1>4 DEF StartDump, CalmInv, JobNone, JobRuns, JobMoved
  <2>2. JobStarts' /\ RecClock'
    BY <1>4, <2>1 DEF StartDump, JobStarts, NoSlotDue, RecClock
  <2>3. QED
    BY <2>2 DEF CalmInv
<1>5. CASE StartCreate
  <2>1. JobStarts /\ RecClock
    BY <1>5 DEF StartCreate, CalmInv, JobNone, JobRuns, JobMoved
  <2>2. IsFiniteSet(accepted')
    BY <1>5, <2>1, FS_AddElement DEF StartCreate, RecClock
  <2>3. JobStarts' /\ RecClock'
    BY <1>5, <2>1, <2>2 DEF StartCreate, JobStarts, NoSlotDue, RecClock
  <2>4. QED
    BY <2>3 DEF CalmInv
<1>6. CASE StartSubscribe
  <2> USE <1>6 DEF StartSubscribe
  <2>1. JobStarts /\ RecClock /\ InTime
    BY DEF CalmInv, JobNone, JobRuns, JobMoved
  <2>2. Timed(job) /\ current_job = job /\ dump = <<>> /\ slots = {} /\ NoSlotDue /\ tick \in Tick
    BY <2>1 DEF JobStarts, RecClock
  <2>3. Written' = job.ms_start
    BY <2>1, <2>2 DEF Written, InTime, Timed, Tick
  <2>4. Exact(dump', current_job'.ms_start, Written')
    BY <2>2, <2>3, ExactNothing DEF Timed
  <2>5. /\ tick' < current_job'.ms_end
        /\ tick_pc' = "emit" => tick' + 1 < current_job'.ms_end
    BY <2>1, <2>2 DEF InTime, Timed, Tick
  <2>6. JobRuns'
    BY <2>2, <2>4, <2>5 DEF JobRuns, NoSlotDue
  <2>7. RecClock'
    BY <2>1 DEF RecClock
  <2>8. QED
    BY <2>6, <2>7 DEF CalmInv
<1>7. CASE FillCaches
  <2>1. JobStarts /\ RecClock /\ start_pc \in Filling
    BY <1>7, FillShape DEF CalmInv, JobNone, JobRuns, JobMoved, Filling
  <2>2. ~ running' /\ null_used' \in {"none"} \cup RibPointers
    <3>1. current_job = NoJob /\ ~ running /\ null_used \in {"none"} \cup RibPointers
      BY <2>1 DEF JobStarts, RecClock, Filling
    <3>2. running' = running \/ running' = (current_job # NoJob)
      BY <1>7, FillShape
    <3>3. ~ running'
      BY <3>1, <3>2, Zenon
    <3>4. QED
      BY <1>7, <3>1, <3>3, FillShape
  <2>3. RecClock'
    BY <1>7, <2>1, <2>2, FillShape DEF RecClock
  <2>4. JobStarts'
    BY <1>7, <2>1, FillShape DEF JobStarts, NoSlotDue, Filling
  <2>5. QED
    BY <2>3, <2>4 DEF CalmInv
<1>8. QED
  BY <1>1, <1>2, <1>3, <1>4, <1>5, <1>6, <1>7 DEF StartContinue

\* As long as no call of start_meas was interrupted by the task manager or by
\* another call, the recorder has one job at most, and its dump is exact.
THEOREM RecorderInvariant == RecSpec => []RecIInv
<1>1. RecInit => RecIInv
  <2>1. SUFFICES ASSUME RecInit
                 PROVE  RecClock /\ JobNone
    BY DEF RecIInv, CalmInv
  <2>2. RecClock
    BY <2>1, RecBoundAssumption, FS_EmptySet DEF RecInit, RecClock, Tick
  <2>3. JobNone
    BY <2>1 DEF RecInit, JobNone, NoSlotDue
  <2>4. QED
    BY <2>2, <2>3
<1>2. RecIInv /\ [RecNext]_recVars => RecIInv'
  <2>1. SUFFICES ASSUME RecIInv, [RecNext]_recVars, calm'
                 PROVE  CalmInv'
    BY DEF RecIInv
  <2>2. CASE RecNext
    <3>1. CalmInv
      BY <2>1, <2>2, CalmBefore DEF RecIInv
    <3>2. CASE TaskManager
      BY <3>1, <3>2, TicksCalm
    <3>3. CASE \E w \in writing : Write(w)
      <4>1. RecClock' /\ UNCHANGED <<startVars, todo, tick_pc, tick, slots, current_job, dump>>
        BY <3>1, <3>3 DEF Write, CalmInv, RecClock, tickVars, startVars
      <4>2. QED
        BY <3>1, <4>1 DEF CalmInv, JobNone, JobStarts, JobRuns, JobMoved, NoSlotDue, Written,
                          startVars
    <3>4. CASE StartMeas \/ StartContinue
      BY <2>1, <3>1, <3>4, CallsCalm
    <3>5. CASE RibChangesBetweenTicks
      <4>1. /\ RecClock'
            /\ UNCHANGED <<start_pc, job, todo, tick_pc, tick, slots, current_job, dump>>
        BY <3>1, <3>5 DEF RibChangesBetweenTicks, CalmInv, RecClock, tickVars, startVars
      <4>2. QED
        BY <3>1, <4>1 DEF CalmInv, JobNone, JobStarts, JobRuns, JobMoved, NoSlotDue, Written
    <3>6. QED
      BY <2>2, <3>2, <3>3, <3>4, <3>5 DEF RecNext
  <2>3. CASE UNCHANGED recVars
    <3>1. CalmInv
      BY <2>1, <2>3 DEF RecIInv, recVars, jobVars
    <3>2. RecClock'
      BY <2>3, <3>1 DEF recVars, jobVars, tickVars, startVars, CalmInv, RecClock
    <3>3. QED
      BY <2>3, <3>1, <3>2 DEF recVars, jobVars, tickVars, startVars, CalmInv, JobNone, JobStarts,
           JobRuns, JobMoved, NoSlotDue, Written
  <2>4. QED
    BY <2>1, <2>2, <2>3
<1>3. QED
  BY <1>1, <1>2, PTL DEF RecSpec

\* As long as the calls are calm, a dump handed to the writing thread has each
\* millisecond of its job once, in order (DumpExact: recorder::tick and start_meas).
THEOREM DumpsExact == RecSpec => []DumpExact
<1>1. RecIInv => DumpExact
  <2>1. SUFFICES ASSUME RecIInv, calm, NEW w \in writing
                 PROVE  w.dump = [i \in 1..(w.job.ms_end - w.job.ms_start) |->
                                    w.job.ms_start + i - 1]
    BY DEF DumpExact
  <2>2. Exact(w.dump, w.job.ms_start, w.job.ms_end)
    BY <2>1 DEF RecIInv, CalmInv, RecClock
  <2>3. QED
    BY <2>2 DEF Exact
<1>2. QED
  BY <1>1, RecorderInvariant, PTL

(***************************************************************************)
(* Recorder: what start_meas reads of the RIB                              *)
(***************************************************************************)
\* The registered base stations, and their UEs, are some that there are.
RibOK == DOMAIN bs \subseteq Bs /\ \A b \in DOMAIN bs : bs[b].ues \subseteq Ues

\* A BS or a UE that was found is there, or it is known to have gone.
Kept(b, us) == <<b, us>> \in InRib(bs) \cup left

FillTypes ==
  /\ RibOK
  /\ to_fill \subseteq Bs \X {1, 2} /\ chunk \in Bs \cup {0} /\ nth \in Nat
  /\ looked_up \subseteq Ues

\* Each chunk to come is of a BS that was found, and so are what it is made of.
FillInv ==
  /\ FillTypes
  /\ start_pc \in Filling => \A c \in to_fill : Kept(c[1], {})
  /\ start_pc \in {"chunking", "looking_up"} => Kept(chunk, {})
  /\ start_pc = "looking_up" =>
       Dangles \/ \E u \in Ues : looked_up = {u} /\ Kept(chunk, {u})
  /\ null_used \in RibPointers => \E e \in left : e[1] = chunk

LEMMA InRibBs ==
  ASSUME NEW b
  PROVE  <<b, {}>> \in InRib(bs) <=> b \in DOMAIN bs
BY DEF InRib

LEMMA InRibUe ==
  ASSUME NEW b, NEW u
  PROVE  <<b, {u}>> \in InRib(bs) <=> b \in DOMAIN bs /\ u \in bs[b].ues
BY DEF InRib

LEMMA RibStaysOK ==
  ASSUME RibOK, RibMoves
  PROVE  RibOK'
<1>1. PICK b \in Bs :
        AddBs(b) \/ RemoveBs(b) \/ \E us \in SUBSET Ues : ReportBs(b, UeReport(us))
  BY DEF RibMoves
<1>2. CASE AddBs(b)
  BY <1>2 DEF AddBs, RibOK
<1>3. CASE RemoveBs(b)
  BY <1>3 DEF RemoveBs, Restrict, RibOK
<1>4. CASE \E us \in SUBSET Ues : ReportBs(b, UeReport(us))
  BY <1>4 DEF ReportBs, UeReport, RibOK
<1>5. QED
  BY <1>1, <1>2, <1>3, <1>4

\* What goes from the RIB while the call reads it is known to have gone.
LEMMA FillKeptByRib ==
  ASSUME FillInv, RibChangesBetweenTicks, null_used = "none"
  PROVE  FillInv'
<1>1. /\ RibMoves
      /\ left' = IF start_pc = "idle" THEN left ELSE left \cup (InRib(bs) \ InRib(bs)')
      /\ UNCHANGED <<start_pc, null_used, to_fill, chunk, nth, looked_up>>
  BY DEF RibChangesBetweenTicks, startVars, InRib
<1>2. FillTypes'
  BY <1>1, RibStaysOK DEF FillInv, FillTypes
<1>3. CASE start_pc \in Filling
  <2>1. \A b, us : Kept(b, us) => Kept(b, us)'
    BY <1>1, <1>3 DEF Kept, Filling
  <2>2. Dangles => Dangles'
    BY <1>1 DEF Dangles
  <2>3. start_pc = "looking_up" =>
          Dangles' \/ \E u \in Ues : looked_up = {u} /\ Kept(chunk, {u})'
    BY <1>1, <2>1, <2>2 DEF FillInv
  <2>4. QED
    BY <1>1, <1>2, <2>1, <2>3 DEF FillInv, RibPointers
<1>4. CASE start_pc \notin Filling
  BY <1>1, <1>2, <1>4 DEF FillInv, Filling, RibPointers
<1>5. QED
  BY <1>3, <1>4

\* A step that makes a chunk meets a null pointer only if something of its BS has gone.
LEMMA FillKeptByCall ==
  ASSUME FillInv, FillCaches, null_used = "none"
  PROVE  FillInv'
<1>1. UNCHANGED bs /\ start_pc \in Filling /\ InRib(bs)' = InRib(bs)
  BY FillShape DEF InRib
<1>2. CASE ChunkBegins
  <2>1. PICK c \in to_fill :
          /\ to_fill' = to_fill \ {c} /\ chunk' = c[1]
          /\ IF c[1] \in DOMAIN bs
             THEN /\ start_pc' = "chunking" /\ nth' = 0
                  /\ left' = {e \in left : e[1] # c[1]}
                  /\ UNCHANGED null_used
             ELSE null_used' = "get_bs()" /\ UNCHANGED <<start_pc, nth, left>>
    BY <1>2 DEF ChunkBegins
  <2>2. start_pc = "filling" /\ UNCHANGED looked_up /\ Kept(c[1], {})
    BY <1>2, <2>1 DEF ChunkBegins, FillInv, Filling
  <2>3. FillTypes'
    BY <1>1, <2>1, <2>2 DEF FillInv, FillTypes, RibOK
  <2>4. CASE c[1] \in DOMAIN bs
    <3>1. Kept(c[1], {})'
      BY <1>1, <2>4, InRibBs DEF Kept
    <3>2. ASSUME NEW d \in to_fill
          PROVE  Kept(d[1], {})'
      <4>1. CASE d[1] = c[1]
        BY <3>1, <4>1
      <4>2. CASE d[1] # c[1]
        <5>1. Kept(d[1], {}) /\ << d[1], {} >>[1] = d[1]
          BY <2>2, <3>2 DEF FillInv, Filling
        <5>2. QED
          BY <1>1, <2>1, <2>4, <4>2, <5>1 DEF Kept
      <4>3. QED
        BY <4>1, <4>2
    <3>3. QED
      BY <1>1, <2>1, <2>3, <2>4, <3>1, <3>2 DEF FillInv, Filling, RibPointers
  <2>5. CASE c[1] \notin DOMAIN bs
    <3>1. << c[1], {} >> \in left'
      BY <2>1, <2>2, <2>5, InRibBs DEF Kept
    <3>2. \E e \in left' : e[1] = chunk'
      BY <2>1, <3>1
    <3>3. \A d \in to_fill' : Kept(d[1], {})'
      BY <1>1, <2>1, <2>2, <2>5 DEF FillInv, Filling, Kept
    <3>4. QED
      BY <2>1, <2>2, <2>3, <2>5, <3>2, <3>3 DEF FillInv
  <2>6. QED
    BY <2>4, <2>5
<1>3. CASE ReadFreed
  <2>1. Dangles /\ start_pc = "chunking" /\ UNCHANGED <<start_pc, fillVars>>
    BY <1>3 DEF ReadFreed
  <2>2. \E e \in left : e[1] = chunk
    BY <2>1 DEF Dangles
  <2>3. FillTypes' /\ \A b, us : Kept(b, us)' <=> Kept(b, us)
    BY <1>1, <2>1 DEF FillInv, FillTypes, RibOK, Kept, fillVars
  <2>4. QED
    BY <2>1, <2>2, <2>3 DEF FillInv, fillVars, Filling
<1>4. CASE ReadUe
  <2>1. PICK u \in UesRead : looked_up' = {u}
    BY <1>4 DEF ReadUe
  <2>2. /\ start_pc = "chunking" /\ start_pc' = "looking_up"
        /\ UNCHANGED <<null_used, to_fill, chunk, nth, left>>
    BY <1>4 DEF ReadUe
  <2>3. Kept(chunk, {}) /\ RibOK
    BY <2>2 DEF FillInv, FillTypes
  <2>4. u \in Ues /\ (Dangles \/ Kept(chunk, {u}))
    <3>1. CASE Dangles
      BY <2>1, <3>1 DEF UesRead
    <3>2. CASE ~ Dangles
      <4>1. chunk \in DOMAIN bs
        BY <2>3, <3>2, InRibBs DEF Kept, Dangles
      <4>2. u \in bs[chunk].ues
        BY <2>1, <3>2 DEF UesRead
      <4>3. QED
        BY <2>3, <4>1, <4>2, InRibUe DEF RibOK, Kept
    <3>3. QED
      BY <3>1, <3>2
  <2>5. FillTypes' /\ (Dangles => Dangles') /\ \A b, us : Kept(b, us)' <=> Kept(b, us)
    BY <1>1, <2>1, <2>2, <2>4 DEF FillInv, FillTypes, RibOK, Kept, Dangles
  <2>6. Dangles' \/ \E v \in Ues : looked_up' = {v} /\ Kept(chunk, {v})'
    BY <2>1, <2>2, <2>4, <2>5
  <2>7. QED
    BY <2>2, <2>5, <2>6 DEF FillInv, Filling, RibPointers
<1>5. CASE LookUpUe
  <2>1. start_pc = "looking_up" /\ UNCHANGED <<to_fill, chunk, left>> /\ Kept(chunk, {})
    BY <1>5 DEF LookUpUe, FillInv
  <2>2. FillTypes' /\ (Dangles' <=> Dangles) /\ \A b, us : Kept(b, us)' <=> Kept(b, us)
    BY <1>1, <1>5, <2>1 DEF LookUpUe, FillInv, FillTypes, RibOK, Kept, Dangles
  <2>3. CASE chunk \in DOMAIN bs /\ looked_up \subseteq bs[chunk].ues
    <3>1. start_pc' = "chunking" /\ UNCHANGED null_used
      BY <1>5, <2>3 DEF LookUpUe
    <3>2. QED
      BY <2>1, <2>2, <3>1 DEF FillInv, Filling, RibPointers
  <2>4. CASE ~ (chunk \in DOMAIN bs /\ looked_up \subseteq bs[chunk].ues)
    <3>1. UNCHANGED <<start_pc, looked_up>>
      BY <1>5, <2>4 DEF LookUpUe
    <3>2. \E e \in left : e[1] = chunk
      <4>1. CASE Dangles
        BY <4>1 DEF Dangles
      <4>2. CASE ~ Dangles
        <5>1. chunk \in DOMAIN bs
          BY <2>1, <4>2, InRibBs DEF Kept, Dangles
        <5>2. PICK u \in Ues : looked_up = {u} /\ Kept(chunk, {u})
          BY <2>1, <4>2 DEF FillInv
        <5>3. << chunk, {u} >> \in left
          BY <2>4, <5>1, <5>2, InRibUe DEF Kept
        <5>4. QED
          BY <5>3
      <4>3. QED
        BY <4>1, <4>2
    <3>3. QED
      BY <2>1, <2>2, <3>1, <3>2 DEF FillInv, Filling
  <2>5. QED
    BY <2>3, <2>4
<1>6. CASE ChunkEnds
  <2>1. start_pc = "chunking" /\ UNCHANGED fillVars /\ Kept(chunk, {})
    BY <1>6 DEF ChunkEnds, FillInv
  <2>2. FillTypes' /\ \A b, us : Kept(b, us)' <=> Kept(b, us)
    BY <1>1, <2>1 DEF FillInv, FillTypes, RibOK, Kept, fillVars
  <2>3. CASE chunk \in DOMAIN bs
    BY <1>6, <2>1, <2>2, <2>3 DEF ChunkEnds, FillInv, fillVars, Filling, RibPointers
  <2>4. CASE chunk \notin DOMAIN bs
    <3>1. << chunk, {} >> \in left
      BY <2>1, <2>4, InRibBs DEF Kept
    <3>2. \E e \in left : e[1] = chunk
      BY <3>1
    <3>3. QED
      BY <1>6, <2>1, <2>2, <2>4, <3>2 DEF ChunkEnds, FillInv, fillVars, Filling
  <2>5. QED
    BY <2>3, <2>4
<1>7. CASE StartTest
  BY <1>1, <1>7 DEF StartTest, FillInv, FillTypes, RibOK, Filling, RibPointers
<1>8. QED
  BY <1>2, <1>3, <1>4, <1>5, <1>6, <1>7 DEF FillCaches

THEOREM FillHolds == RecSpec => []FillInv
<1>1. RecInit => FillInv
  BY DEF RecInit, RibInit, FillInv, FillTypes, RibOK, Filling, RibPointers
<1>2. FillInv /\ [RecNext]_recVars => FillInv'
  <2> SUFFICES ASSUME FillInv, [RecNext]_recVars
               PROVE  FillInv'
    OBVIOUS
  <2>1. CASE RibChangesBetweenTicks /\ null_used = "none"
    BY <2>1, FillKeptByRib
  <2>2. CASE FillCaches /\ null_used = "none"
    BY <2>2, FillKeptByCall
  <2>3. CASE StartMeas /\ null_used = "none"
    <3>1. /\ to_fill' = (DOMAIN bs) \X {1, 2} /\ start_pc' = "filling"
          /\ UNCHANGED <<bs, null_used, chunk, nth, looked_up, left>>
      BY <2>3, Zenon DEF StartMeas, ribVars, get_available_base_stations
    <3>2. \A c \in to_fill' : c \in (DOMAIN bs) \X {1, 2} /\ c[1] \in DOMAIN bs
      BY <3>1
    <3>3. InRib(bs)' = InRib(bs) /\ RibOK'
      BY <3>1 DEF FillInv, FillTypes, RibOK, InRib
    <3>4. to_fill' \subseteq Bs \X {1, 2}
      BY <3>1 DEF FillInv, FillTypes, RibOK
    <3>5. FillTypes'
      BY <3>1, <3>3, <3>4 DEF FillInv, FillTypes
    <3>6. \A c \in to_fill' : Kept(c[1], {})'
      BY <3>1, <3>2, <3>3, InRibBs DEF Kept
    <3>7. QED
      BY <2>3, <3>1, <3>5, <3>6 DEF FillInv, RibPointers
  <2>4. ASSUME UNCHANGED <<bs, fillVars>>,
               start_pc' = start_pc \/ start_pc' \notin Filling,
               null_used' = null_used \/ null_used' \notin RibPointers
        PROVE  FillInv'
    <3>1. UNCHANGED <<bs, to_fill, chunk, nth, looked_up, left>> /\ InRib(bs)' = InRib(bs)
      BY <2>4 DEF fillVars, InRib
    <3>2. FillTypes' /\ (Dangles' <=> Dangles) /\ \A b, us : Kept(b, us)' <=> Kept(b, us)
      BY <3>1 DEF FillInv, FillTypes, RibOK, Kept, Dangles
    <3>3. CASE start_pc' = start_pc
      BY <2>4, <3>1, <3>2, <3>3 DEF FillInv
    <3>4. CASE start_pc' \notin Filling
      BY <2>4, <3>1, <3>2, <3>4 DEF FillInv, Filling
    <3>5. QED
      BY <2>4, <3>3, <3>4
  <2>5. CASE TaskManager /\ null_used = "none"
    <3>1. /\ UNCHANGED <<bs, fillVars, start_pc>>
          /\ null_used' = null_used \/ (null_used' = "dump_" /\ TickChunk)
      BY <2>5 DEF TaskManager, TickBegin, TickEnd, TickNoJob, TickChunk, TickMove, TickReset,
                  startVars, ribVars
    <3>2. null_used' = null_used \/ null_used' \notin RibPointers
      BY <3>1 DEF RibPointers
    <3>3. QED
      BY <2>4, <3>1, <3>2
  <2>6. CASE \E w \in writing : Write(w)
    <3>1. UNCHANGED <<bs, fillVars, start_pc, null_used>>
      BY <2>6 DEF Write, startVars, ribVars
    <3>2. QED
      BY <2>4, <3>1
  <2>7. CASE null_used = "none" /\
             (StartOpen \/ StartRefused \/ StartDump \/ StartCreate \/ StartSubscribe)
    <3>1. UNCHANGED <<bs, fillVars>> /\ start_pc' \notin Filling /\ null_used' \notin RibPointers
      BY <2>7 DEF StartOpen, StartRefused, StartDump, StartCreate, StartSubscribe, ribVars,
                  Filling, RibPointers
    <3>2. QED
      BY <2>4, <3>1
  <2>8. CASE UNCHANGED recVars
    BY <2>4, <2>8 DEF recVars, jobVars, ribVars, startVars
  <2>9. QED
    BY <2>1, <2>2, <2>3, <2>5, <2>6, <2>7, <2>8 DEF RecNext, StartContinue
<1>3. QED
  BY <1>1, <1>2, PTL DEF RecSpec

\* As long as the calls are calm, current_job_ and dump_ are not used when they are null,
\* and what start_meas looks up in the RIB is null, or dangles, only if a BS or a UE has gone
\* while it made the chunk that needs it (NoNullUsed: nothing is locked).
THEOREM NullNeverUsed == RecSpec => []NoNullUsed
<1>1. RecIInv /\ FillInv => NoNullUsed
  BY DEF RecIInv, CalmInv, RecClock, FillInv, NoNullUsed
<1>2. QED
  BY <1>1, RecorderInvariant, FillHolds, PTL

(***************************************************************************)
(* Recorder: the types, whatever the calls find                            *)
(***************************************************************************)
\* A job starts before it ends, and there are no more of them than calls.
RecTypes ==
  /\ RecTypeOK
  /\ tick_pc # "wait" => tick < MaxTick
  /\ tick_pc = "chunked" => current_job # NoJob /\ dump \in Seq(Tick)
  /\ IsFiniteSet(accepted) /\ Cardinality(accepted) <= MaxJobs
  /\ \A j \in accepted : j.ms_start < j.ms_end
  /\ start_pc \in Filling \cup {"tested", "opened", "dumped"} => Cardinality(accepted) < MaxJobs
  /\ start_pc \in {"opened", "dumped"} => job \in Job /\ job.ms_start < job.ms_end
  /\ start_pc = "created" => job \in accepted

\* The recorder keeps its types however calls, ticks and writers interleave: even with
\* calls that overlap, every slot and every dump belongs to an accepted job.
THEOREM RecorderTypeCorrect == RecSpec => []RecTypeOK
<1> USE RecBoundAssumption, DurationAssumption
<1>1. RecInit => RecTypes
  <2>1. SUFFICES ASSUME RecInit
                 PROVE  RecTypes
    OBVIOUS
  <2>2. IsFiniteSet(accepted) /\ Cardinality(accepted) = 0
    BY <2>1, FS_EmptySet DEF RecInit
  <2>3. RecTypeOK
    <3>1. tick \in Tick /\ last_tick \in Tick
      BY <2>1 DEF RecInit, Tick
    <3>2. running \in BOOLEAN /\ calm \in BOOLEAN
      BY <2>1 DEF RecInit
    <3>3. QED
      BY <2>1, <3>1, <3>2 DEF RecInit, RecTypeOK
  <2>4. QED
    BY <2>1, <2>2, <2>3 DEF RecInit, RecTypes, Filling
<1>2. RecTypes /\ FillTypes' /\ [RecNext]_recVars => RecTypes'
  <2> SUFFICES ASSUME RecTypes, FillTypes', [RecNext]_recVars
               PROVE  RecTypes'
    OBVIOUS
  <2> USE DEF FillTypes
  <2>1. CASE TickBegin
    BY <2>1 DEF TickBegin, startVars, RecTypes, RecTypeOK
  <2>2. CASE TickEnd
    BY <2>2 DEF TickEnd, startVars, RecTypes, RecTypeOK, Tick
  <2>3. CASE TickNoJob
    BY <2>3 DEF TickNoJob, SlotDone, startVars, RecTypes, RecTypeOK
  <2>4. CASE TickChunk
    <3>1. /\ dump # NoDump => dump \in Seq(Tick) /\ Append(dump, tick) \in Seq(Tick)
          /\ UNCHANGED <<tick, last_tick, todo, slots, current_job, writing, finished_jobs,
                         start_pc, running, job, accepted, calm>>
      BY <2>4 DEF TickChunk, startVars, RecTypes, RecTypeOK
    <3>2. CASE dump = NoDump
      BY <2>4, <3>1, <3>2 DEF TickChunk, RecTypes, RecTypeOK
    <3>3. CASE dump # NoDump
      BY <2>4, <3>1, <3>3 DEF TickChunk, RecTypes, RecTypeOK
    <3>4. QED
      BY <3>2, <3>3
  <2>5. CASE TickMove
    <3>1. UNCHANGED <<tick, last_tick, slots, finished_jobs, start_pc, running, job, accepted,
                      calm, null_used>>
      BY <2>5 DEF TickMove, startVars
    <3>2. current_job \in accepted /\ dump \in Seq(Tick)
      BY <2>5 DEF TickMove, RecTypes, RecTypeOK
    <3>3. CASE tick = current_job.ms_end - 1
      BY <2>5, <3>1, <3>2, <3>3 DEF TickMove, RecTypes, RecTypeOK
    <3>4. CASE tick # current_job.ms_end - 1
      BY <2>5, <3>1, <3>4 DEF TickMove, SlotDone, RecTypes, RecTypeOK
    <3>5. QED
      BY <3>3, <3>4
  <2>6. CASE TickReset
    BY <2>6 DEF TickReset, SlotDone, startVars, RecTypes, RecTypeOK
  <2>7. CASE \E w \in writing : Write(w)
    BY <2>7 DEF Write, tickVars, startVars, RecTypes, RecTypeOK
  <2>8. CASE StartMeas
    BY <2>8 DEF StartMeas, tickVars, RecTypes, RecTypeOK, Filling
  <2>9. CASE StartOpen
    <3>1. UNCHANGED <<tick, last_tick, tick_pc, todo, slots, current_job, dump, writing,
                      finished_jobs, running, accepted, calm>>
      BY <2>9 DEF StartOpen, tickVars
    <3>2. CASE null_used' = "current_job_" /\ UNCHANGED <<start_pc, job>>
      BY <3>1, <3>2 DEF RecTypes, RecTypeOK
    <3>3. CASE ~ (null_used' = "current_job_" /\ UNCHANGED <<start_pc, job>>)
      <4> DEFINE start == IF running THEN current_job.ms_end ELSE last_tick + 2
      <4>1. PICK d \in Duration :
              /\ start + d <= MaxTick
              /\ job' = [nr |-> Cardinality(accepted) + 1, ms_start |-> start,
                         ms_end |-> start + d]
        BY <2>9, <3>3 DEF StartOpen
      <4>2. start_pc = "tested" /\ start_pc' = "opened" /\ UNCHANGED null_used
            /\ (running => current_job # NoJob)
        BY <2>9, <3>3 DEF StartOpen
      <4>3. start \in Nat /\ start >= 2
        <5>1. CASE running
          <6>1. current_job \in Job /\ current_job.ms_start < current_job.ms_end
            BY <4>2, <5>1 DEF RecTypes, RecTypeOK
          <6>2. QED
            BY <5>1, <6>1 DEF Job, Tick
        <5>2. CASE ~ running
          BY <5>2 DEF RecTypes, RecTypeOK, Tick
        <5>3. QED
          BY <5>1, <5>2
      <4> HIDE DEF start
      <4>4. Cardinality(accepted) + 1 \in 1..MaxJobs
        BY <4>2, FS_CardinalityType DEF RecTypes
      <4>5. job' \in Job /\ job'.ms_start < job'.ms_end
        BY <4>1, <4>3, <4>4 DEF Job, Tick
      <4>6. QED
        BY <3>1, <4>2, <4>5 DEF RecTypes, RecTypeOK
    <3>4. QED
      BY <3>2, <3>3
  <2>10. CASE StartRefused
    BY <2>10 DEF StartRefused, tickVars, RecTypes, RecTypeOK
  <2>11. CASE StartDump
    <3>1. <<>> \in Seq(Tick)
      OBVIOUS
    <3>2. QED
      BY <2>11, <3>1 DEF StartDump, tickVars, RecTypes, RecTypeOK
  <2>12. CASE StartCreate
    <3>1. /\ start_pc = "dumped" /\ start_pc' = "created" /\ current_job' = job
          /\ accepted' = accepted \cup {job}
          /\ UNCHANGED <<tick, last_tick, tick_pc, todo, slots, dump, writing, finished_jobs,
                         running, job, calm, null_used>>
      BY <2>12 DEF StartCreate, tickVars
    <3>2. job \in Job /\ job.ms_start < job.ms_end /\ job # NoJob
      BY <3>1 DEF RecTypes, Job, NoJob
    <3>3. /\ IsFiniteSet(accepted')
          /\ Cardinality(accepted') <= Cardinality(accepted) + 1
          /\ Cardinality(accepted) \in Nat
      <4>1. IsFiniteSet(accepted)
        BY DEF RecTypes
      <4>2. /\ IsFiniteSet(accepted \cup {job})
            /\ Cardinality(accepted \cup {job})
                 = IF job \in accepted THEN Cardinality(accepted) ELSE Cardinality(accepted) + 1
        BY <4>1, FS_AddElement
      <4>3. Cardinality(accepted) \in Nat
        BY <4>1, FS_CardinalityType
      <4>4. QED
        BY <3>1, <4>2, <4>3
    <3>4. Cardinality(accepted') <= MaxJobs
      BY <3>1, <3>3, FS_CardinalityType DEF RecTypes
    <3>5. QED
      BY <3>1, <3>2, <3>3, <3>4 DEF RecTypes, RecTypeOK, Filling
  <2>13. CASE StartSubscribe
    BY <2>13 DEF StartSubscribe, tickVars, RecTypes, RecTypeOK, Filling
  <2>14. CASE FillCaches
    <3>1. start_pc' = "tested" => Cardinality(accepted) < MaxJobs
      BY <2>14, FillShape DEF RecTypes, Filling
    <3>2. start_pc' \in Filling \cup {"tested"} /\ start_pc \in Filling
      BY <2>14, FillShape
    <3>3. running' \in BOOLEAN
      BY <2>14, FillShape DEF RecTypes, RecTypeOK
    <3>4. null_used' \in RibPointers \cup {"none", "current_job_", "dump_"}
      BY <2>14, FillShape DEF RecTypes, RecTypeOK
    <3>5. RecTypeOK'
      BY <2>14, <3>2, <3>3, <3>4, FillShape DEF RecTypes, RecTypeOK
    <3>6. Cardinality(accepted) < MaxJobs
      BY <3>2 DEF RecTypes, Filling
    <3>7. QED
      BY <2>14, <3>2, <3>5, <3>6, FillShape DEF RecTypes, Filling
  <2>15. CASE RibChangesBetweenTicks
    BY <2>15 DEF RibChangesBetweenTicks, tickVars, startVars, RecTypes, RecTypeOK
  <2>16. CASE UNCHANGED recVars
    BY <2>16 DEF recVars, jobVars, tickVars, startVars, RecTypes, RecTypeOK
  <2>17. QED
    BY <2>1, <2>2, <2>3, <2>4, <2>5, <2>6, <2>7, <2>8, <2>9, <2>10, <2>11, <2>12, <2>13, <2>14,
       <2>15, <2>16 DEF RecNext, TaskManager, StartContinue
<1>3. RecTypes => RecTypeOK
  BY DEF RecTypes
<1>4. FillInv => FillTypes
  BY DEF FillInv
<1>5. QED
  BY <1>1, <1>2, <1>3, <1>4, FillHolds, PTL DEF RecSpec

(***************************************************************************)
(* Recorder: the times of the jobs                                         *)
(***************************************************************************)
\* Every job has ended by t, but for those in J.
EndedBy(t, J) == \A j \in accepted \ J : j.ms_end <= t

\* A job that is to start, or has, comes after all others; without one all have ended
\* before a call could start the next.
RecTimes ==
  /\ last_tick <= tick /\ tick <= last_tick + 1
  /\ \A j \in accepted : Timed(j)
  /\ \A i, j \in accepted : i # j => i.ms_end <= j.ms_start \/ j.ms_end <= i.ms_start
  /\ start_pc \in {"opened", "dumped"} => EndedBy(job.ms_start, {})
  /\ current_job # NoJob => current_job \in accepted /\ EndedBy(current_job.ms_start, {current_job})
  /\ current_job = NoJob /\ start_pc \in Filling \cup {"idle", "tested"} =>
       EndedBy(IF tick_pc = "moved" THEN tick + 1 ELSE last_tick + 2, {})

\* Every step of a recorder whose calls are not interrupted keeps the times in order.
LEMMA TimesKept ==
  ASSUME CalmInv, CalmInv', RecTimes, RecNext
  PROVE  RecTimes'
<1> USE RecBoundAssumption DEF Tick, Filling
<1>1. tick \in Tick /\ last_tick \in Tick /\ \A j \in accepted : j.ms_start \in Nat /\ j.ms_end \in Nat
  BY DEF CalmInv, RecClock, RecTimes, Timed
<1>2. CASE TickBegin
  BY <1>2 DEF TickBegin, startVars, RecTimes, EndedBy
<1>3. CASE TickEnd
  BY <1>1, <1>3 DEF TickEnd, startVars, RecTimes, EndedBy
<1>4. CASE TickNoJob
  BY <1>4 DEF TickNoJob, SlotDone, startVars, RecTimes, EndedBy
<1>5. CASE TickChunk
  BY <1>5 DEF TickChunk, startVars, RecTimes, EndedBy
<1>6. CASE TickMove
  <2> USE <1>6 DEF TickMove, startVars
  <2>1. JobRuns
    BY DEF CalmInv, JobNone, JobStarts, NoSlotDue, JobMoved
  <2>2. current_job # NoJob /\ Timed(current_job) /\ start_pc = "idle"
    BY <2>1, TimedIsJob DEF JobRuns
  <2>3. CASE tick = current_job.ms_end - 1
    <3>1. EndedBy(tick + 1, {})
      <4>1. SUFFICES ASSUME NEW j \in accepted
                     PROVE  j.ms_end <= tick + 1
        BY DEF EndedBy
      <4>2. CASE j = current_job
        BY <1>1, <2>2, <2>3, <4>2 DEF Timed
      <4>3. CASE j # current_job
        <5>1. j.ms_end <= current_job.ms_start
          BY <2>2, <4>3 DEF RecTimes, EndedBy
        <5>2. QED
          BY <1>1, <2>2, <2>3, <5>1 DEF Timed
      <4>4. QED
        BY <4>2, <4>3
    <3>2. QED
      BY <2>2, <2>3, <3>1 DEF RecTimes, EndedBy
  <2>4. CASE tick # current_job.ms_end - 1
    BY <2>2, <2>4 DEF SlotDone, RecTimes, EndedBy
  <2>5. QED
    BY <2>3, <2>4
<1>7. CASE TickReset
  <2>1. current_job = NoJob /\ start_pc = "idle"
    BY <1>7 DEF TickReset, CalmInv, JobNone, JobStarts, NoSlotDue, JobRuns, JobMoved
  <2>2. EndedBy(tick + 1, {}) /\ tick + 1 <= last_tick + 2
    BY <1>1, <1>7, <2>1 DEF TickReset, RecTimes
  <2>3. EndedBy(last_tick + 2, {})
    BY <1>1, <2>2 DEF EndedBy
  <2>4. QED
    BY <1>7, <2>1, <2>3 DEF TickReset, SlotDone, startVars, RecTimes, EndedBy
<1>8. CASE \E w \in writing : Write(w)
  BY <1>8 DEF Write, tickVars, startVars, RecTimes, EndedBy
<1>9. CASE StartMeas
  BY <1>9 DEF StartMeas, tickVars, RecTimes, EndedBy
<1>10. CASE StartOpen
  <2>1. JobStarts /\ start_pc = "tested" /\ ~ running
    BY <1>10 DEF StartOpen, CalmInv, RecClock, JobNone, JobRuns, JobMoved
  <2>2. start_pc' = "opened" /\ job'.ms_start = last_tick + 2
    BY <1>10, <2>1 DEF StartOpen
  <2>3. EndedBy(last_tick + 2, {})
    BY <2>1 DEF JobStarts, NoSlotDue, RecTimes
  <2>4. QED
    BY <1>10, <2>1, <2>2, <2>3 DEF StartOpen, tickVars, JobStarts, RecTimes, EndedBy
<1>11. CASE StartRefused
  BY <1>11 DEF StartRefused, tickVars, RecTimes, EndedBy
<1>12. CASE StartDump
  BY <1>12 DEF StartDump, tickVars, RecTimes, EndedBy
<1>13. CASE StartCreate
  <2>1. Timed(job) /\ EndedBy(job.ms_start, {}) /\ start_pc = "dumped"
    BY <1>13 DEF StartCreate, CalmInv, JobNone, JobStarts, JobRuns, JobMoved, RecTimes
  <2>2. /\ accepted' = accepted \cup {job} /\ current_job' = job /\ start_pc' = "created"
        /\ UNCHANGED <<tick, last_tick, tick_pc, job>>
    BY <1>13 DEF StartCreate, tickVars
  <2>3. \A i, j \in accepted' : i # j => i.ms_end <= j.ms_start \/ j.ms_end <= i.ms_start
    BY <2>1, <2>2 DEF RecTimes, EndedBy
  <2>4. job # NoJob
    BY <2>1, TimedIsJob
  <2>5. \A j \in accepted' : Timed(j)
    BY <2>1, <2>2 DEF RecTimes
  <2>6. EndedBy(current_job.ms_start, {current_job})'
    BY <2>1, <2>2 DEF EndedBy
  <2>7. QED
    BY <2>2, <2>3, <2>4, <2>5, <2>6 DEF RecTimes
<1>14. CASE StartSubscribe
  <2>1. current_job = job /\ current_job # NoJob
    BY <1>14, TimedIsJob DEF StartSubscribe, CalmInv, JobNone, JobStarts, JobRuns, JobMoved
  <2>2. QED
    BY <1>14, <2>1 DEF StartSubscribe, tickVars, RecTimes, EndedBy
<1>15. CASE FillCaches
  <2>1. /\ start_pc \in Filling /\ start_pc' \in Filling \cup {"tested"}
        /\ UNCHANGED <<tick, last_tick, tick_pc, current_job, job, accepted>>
    BY <1>15, FillShape
  <2>2. QED
    BY <2>1 DEF RecTimes, EndedBy
<1>16. CASE RibChangesBetweenTicks
  BY <1>16 DEF RibChangesBetweenTicks, tickVars, startVars, RecTimes, EndedBy
<1>17. QED
  BY <1>2, <1>3, <1>4, <1>5, <1>6, <1>7, <1>8, <1>9, <1>10, <1>11, <1>12, <1>13, <1>14, <1>15,
     <1>16 DEF RecNext, TaskManager, StartContinue

\* As long as the calls are calm, no two jobs share a millisecond, so none is recorded
\* into the file of another (JobsDisjoint: the start that start_meas computes from
\* last_tick() lies behind the end of every job before).
THEOREM JobsNeverOverlap == RecSpec => []JobsDisjoint
<1>1. RecInit => RecTimes
  BY RecBoundAssumption DEF RecInit, RecTimes, EndedBy, Tick, Filling
<1>2. /\ RecIInv /\ RecIInv' /\ (calm => RecTimes) /\ [RecNext]_recVars
      => (calm => RecTimes)'
  <2>1. SUFFICES ASSUME RecIInv, RecIInv', calm => RecTimes, [RecNext]_recVars, calm'
                 PROVE  RecTimes'
    OBVIOUS
  <2>2. CASE RecNext
    BY <2>1, <2>2, CalmBefore, TimesKept DEF RecIInv
  <2>3. CASE UNCHANGED recVars
    BY <2>1, <2>3 DEF recVars, jobVars, tickVars, startVars, RecTimes, EndedBy
  <2>4. QED
    BY <2>1, <2>2, <2>3
<1>3. (calm => RecTimes) => JobsDisjoint
  BY DEF RecTimes, JobsDisjoint
<1>4. QED
  BY <1>1, <1>2, <1>3, RecorderInvariant, PTL DEF RecSpec

(***************************************************************************)
(* Recorder: where a job is until it is finished                           *)
(***************************************************************************)
\* A job is current until it is with a writer, and there until it is finished.
Somewhere ==
  \A j \in accepted : \/ j \in finished_jobs
                      \/ \E w \in writing : w.job = j
                      \/ current_job = j

\* A step of a recorder whose calls are not interrupted loses no job.
LEMMA SomewhereKept ==
  ASSUME CalmInv, RecTypeOK, Somewhere, RecNext
  PROVE  Somewhere'
<1>1. CASE TickBegin \/ TickEnd \/ TickNoJob \/ TickChunk
  BY <1>1 DEF TickBegin, TickEnd, TickNoJob, TickChunk, Somewhere
<1>2. CASE TickMove
  <2>1. CASE tick = current_job.ms_end - 1
    <3> DEFINE moved == [job |-> current_job, dump |-> dump]
    <3>1. /\ writing' = writing \cup {moved} /\ moved.job = current_job
          /\ UNCHANGED <<accepted, finished_jobs>>
      BY <1>2, <2>1 DEF TickMove
    <3>2. QED
      BY <3>1 DEF Somewhere
  <2>2. CASE tick # current_job.ms_end - 1
    BY <1>2, <2>2 DEF TickMove, Somewhere
  <2>3. QED
    BY <2>1, <2>2
<1>3. CASE TickReset
  <2>1. current_job = NoJob
    BY <1>3 DEF TickReset, CalmInv, JobNone, JobStarts, NoSlotDue, JobRuns, JobMoved
  <2>2. QED
    BY <1>3, <2>1 DEF TickReset, Somewhere
<1>4. CASE \E w \in writing : Write(w)
  <2>1. PICK w \in writing : Write(w)
    BY <1>4
  <2>2. SUFFICES ASSUME NEW j \in accepted', \E v \in writing : v.job = j
                 PROVE  j \in finished_jobs' \/ \E v \in writing' : v.job = j
    BY <2>1 DEF Write, Somewhere
  <2>3. QED
    BY <2>1, <2>2 DEF Write
<1>5. CASE StartMeas \/ StartOpen \/ StartRefused \/ StartDump \/ StartSubscribe
  BY <1>5 DEF StartMeas, StartOpen, StartRefused, StartDump, StartSubscribe, Somewhere
<1>6. CASE StartCreate
  <2>1. current_job = NoJob
    BY <1>6 DEF StartCreate, CalmInv, JobNone, JobStarts, JobRuns, JobMoved
  <2>2. \A j \in accepted : current_job # j
    BY <2>1 DEF RecTypeOK, Job, NoJob
  <2>3. QED
    BY <1>6, <2>2 DEF StartCreate, Somewhere
<1>7. CASE FillCaches \/ RibChangesBetweenTicks
  <2>1. UNCHANGED <<accepted, finished_jobs, writing, current_job>>
    BY <1>7, FillShape DEF RibChangesBetweenTicks
  <2>2. QED
    BY <2>1 DEF Somewhere
<1>8. QED
  BY <1>1, <1>2, <1>3, <1>4, <1>5, <1>6, <1>7 DEF RecNext, TaskManager, StartContinue

\* As long as the calls are calm, every job that start_meas has accepted is finished, with a
\* writer, or current with its last millisecond still to come (NoneLost).
THEOREM NoJobLost == RecSpec => []NoneLost
<1>1. RecInit => Somewhere
  BY DEF RecInit, Somewhere
<1>2. /\ RecIInv /\ RecTypeOK /\ (calm => Somewhere) /\ [RecNext]_recVars
      => (calm => Somewhere)'
  <2>1. SUFFICES ASSUME RecIInv, RecTypeOK, calm => Somewhere, [RecNext]_recVars, calm'
                 PROVE  Somewhere'
    OBVIOUS
  <2>2. CASE RecNext
    BY <2>1, <2>2, CalmBefore, SomewhereKept DEF RecIInv
  <2>3. CASE UNCHANGED recVars
    BY <2>1, <2>3 DEF recVars, jobVars, tickVars, startVars, Somewhere
  <2>4. QED
    BY <2>1, <2>2, <2>3
<1>3. RecIInv /\ RecTypeOK /\ (calm => Somewhere) => NoneLost
  <2>1. SUFFICES ASSUME CalmInv, RecTypeOK, Somewhere, NEW j \in accepted,
                        j \notin finished_jobs, ~ \E w \in writing : w.job = j
                 PROVE  /\ current_job = j /\ dump # NoDump
                        /\ \/ start_pc = "created" /\ job = j
                           \/ j \in slots /\ tick + 1 < j.ms_end
                           \/ /\ j \in slots /\ tick + 1 = j.ms_end
                              /\ tick_pc = "wait" \/ j \in todo
    BY DEF RecIInv, NoneLost
  <2>2. current_job = j
    BY <2>1 DEF Somewhere
  <2>3. j # NoJob
    BY <2>1 DEF RecTypeOK, Job, NoJob
  <2>4. CASE JobStarts
    <3>1. start_pc = "created" /\ job = j /\ dump = <<>>
      BY <2>2, <2>3, <2>4 DEF JobStarts
    <3>2. QED
      BY <2>2, <3>1 DEF NoDump
  <2>5. CASE JobRuns
    <3>1. dump # NoDump
      BY <2>5, ExactNotNull DEF JobRuns
    <3>2. j \in slots /\ Timed(j) /\ tick \in Tick /\ tick < j.ms_end
      BY <2>1, <2>2, <2>5 DEF JobRuns, CalmInv, RecClock
    <3>3. tick + 1 < j.ms_end \/ (tick + 1 = j.ms_end /\ (tick_pc = "wait" \/ j \in todo))
      BY <2>2, <2>5, <3>2, RecBoundAssumption DEF JobRuns, Timed, Tick
    <3>4. QED
      BY <2>2, <3>1, <3>2, <3>3
  <2>6. QED
    BY <2>1, <2>2, <2>3, <2>4, <2>5 DEF CalmInv, JobNone, JobMoved
<1>4. QED
  BY <1>1, <1>2, <1>3, RecorderInvariant, RecorderTypeCorrect, PTL DEF RecSpec

(*****************************************************************************)
(* NetstoreLoader: one transfer at a time                                    *)
(*****************************************************************************)
\* The transfer h is for the list, or for the app that the list has.
For(h) ==
  \/ h.what = List /\ retrieve_slots = {} /\ list_slots \subseteq {tick_list}
  \/ /\ h.what = tick_retrieve.app /\ h.what \in Stored
     /\ list_slots = {} /\ retrieve_slots \subseteq {tick_retrieve}

\* The records that h may be, as its transfer goes on.
Handle(h) == [what : {h.what}, nr : {h.nr}, done : BOOLEAN, code : {0, 200, 404}]

\* There is one transfer at most; the buffer holds its answer, once it is done.
OneTransfer ==
  /\ \A h, k \in handles : h = k
  /\ handles = {} => buf = <<>> /\ list_slots = {} /\ retrieve_slots = {}
  /\ \A h \in handles :
       /\ For(h)
       /\ h \in Handle(h)
       /\ h.done => looping = {}
       /\ IF h.done THEN h.code = 200 => buf = <<h.what>> ELSE buf = <<>>

\* What was pushed are apps of the store, each with its own code.
CodesStored == \A p \in pushed : p.app \in Stored /\ p.code = <<p.app>>

\* The inductive invariant.
NsIInv == single => OneTransfer /\ CodesStored

\* A second transfer has never been there if it is not there now.
LEMMA SingleBefore ==
  ASSUME NsNext, single'
  PROVE  single
BY DEF NsNext, BsComesOrGoes, trigger_app_request, process_control_del_req, NsRequest,
       trigger_app_stop, trigger_app_reconfig, nsVars, Perform, PerformError, NsTick,
       ProcessList, ProcessRetrieve, NothingEnded

\* Every step of a loader with one transfer at a time keeps the invariant.
LEMMA TransferOnItsOwn ==
  ASSUME OneTransfer, CodesStored, single', NsNext
  PROVE  OneTransfer' /\ CodesStored'
<1>1. CASE BsComesOrGoes
  BY <1>1 DEF BsComesOrGoes, slotVars, OneTransfer, CodesStored, For
<1>2. ASSUME NEW a \in App, NsRequest(a)
      PROVE  OneTransfer' /\ CodesStored'
  <2> DEFINE h == Transfer(List, requests')
  <2>1. /\ handles = {} /\ list_slots = {} /\ retrieve_slots = {} /\ buf = <<>>
        /\ ~ h.done /\ h.what = List /\ h \in Handle(h)
    BY <1>2 DEF NsRequest, Idle, OneTransfer, Transfer, Handle
  <2> HIDE DEF h
  <2>2. handles' = {h} /\ list_slots' = {tick_list'} /\ retrieve_slots' = {} /\ buf' = <<>>
    BY <1>2, <2>1 DEF NsRequest, h
  <2>3. OneTransfer'
    BY <2>1, <2>2 DEF OneTransfer, For, Handle
  <2>4. CodesStored'
    BY <1>2 DEF NsRequest, CodesStored
  <2>5. QED
    BY <2>3, <2>4
<1>3. CASE Perform
  <2> USE <1>3 DEF Perform
  <2>1. PICK h \in handles :
          /\ ~ h.done
          /\ \/ /\ h.what \in Stored \cup {List}
                /\ handles' = Ended(h, 200)
                /\ buf' = Append(buf, h.what)
             \/ handles' = Ended(h, 404) /\ buf' = Append(buf, Page)
    OBVIOUS
  <2>2. PICK c \in {200, 404} :
          handles' = Ended(h, c) /\ (c = 200 => buf' = Append(buf, h.what))
    BY <2>1
  <2> DEFINE g == [h EXCEPT !.done = TRUE, !.code = c]
  <2>3. /\ h \in handles /\ handles = {h} /\ buf = <<>> /\ For(h)
        /\ h \in Handle(h)
    BY <2>1 DEF OneTransfer
  <2>4. /\ g.what = h.what /\ g.done /\ g.code = c
        /\ g \in Handle(g)
    BY <2>3 DEF Handle
  <2>5. handles' = {g} /\ (c = 200 => buf' = <<g.what>>)
    BY <2>2, <2>3, <2>4 DEF Ended
  <2> HIDE DEF g
  <2>6. For(g)'
    BY <2>3, <2>4 DEF For, slotVars
  <2>7. OneTransfer'
    BY <2>4, <2>5, <2>6 DEF OneTransfer
  <2>8. QED
    BY <2>7 DEF CodesStored
<1>4. CASE PerformError
  BY <1>4 DEF PerformError, OneTransfer, CodesStored, For
<1>5. ASSUME NEW s, NEW h \in handles, ProcessList(s, h)
      PROVE  OneTransfer' /\ CodesStored'
  <2>1. /\ h.done /\ looping = {} /\ s \in list_slots /\ handles = {h}
    BY <1>5 DEF ProcessList, Turn, OneTransfer
  <2>2. s = tick_list /\ retrieve_slots = {} /\ list_slots' = {} /\ buf' = <<>>
    BY <1>5, <2>1 DEF ProcessList, OneTransfer, For
  <2>3. CASE h.code = 200 /\ check_list(s.app)
    <3> DEFINE g == Transfer(s.app, s.nr)
    <3>1. g.what = s.app /\ ~ g.done /\ s.app \in Stored /\ g \in Handle(g)
      BY <2>3 DEF Transfer, check_list, Handle
    <3>2. handles' = {g} /\ tick_retrieve' = s /\ retrieve_slots' = {s}
      BY <1>5, <2>1, <2>2, <2>3 DEF ProcessList
    <3> HIDE DEF g
    <3>3. OneTransfer'
      BY <2>2, <3>1, <3>2 DEF OneTransfer, For
    <3>4. QED
      BY <1>5, <3>3 DEF ProcessList, CodesStored
  <2>4. CASE ~ (h.code = 200 /\ check_list(s.app))
    BY <1>5, <2>1, <2>2, <2>4 DEF ProcessList, OneTransfer, CodesStored
  <2>5. QED
    BY <2>3, <2>4
<1>6. ASSUME NEW s, NEW h \in handles, ProcessRetrieve(s, h)
      PROVE  OneTransfer' /\ CodesStored'
  <2>1. /\ h.done /\ looping = {} /\ s \in retrieve_slots /\ handles = {h}
    BY <1>6 DEF ProcessRetrieve, Turn, OneTransfer
  <2>2. /\ s = tick_retrieve /\ list_slots = {} /\ h.what = s.app /\ h.what \in Stored
        /\ h.code = 200 => buf = <<h.what>>
    BY <2>1 DEF OneTransfer, For
  <2>3. handles' = {} /\ retrieve_slots' = {} /\ list_slots' = {} /\ buf' = <<>>
    BY <1>6, <2>1, <2>2 DEF ProcessRetrieve, OneTransfer, For
  <2>4. CodesStored'
    <3>1. SUFFICES ASSUME NEW p \in pushed'
                   PROVE  p.app \in Stored /\ p.code = <<p.app>>
      BY DEF CodesStored
    <3>2. CASE p \in pushed
      BY <3>2 DEF CodesStored
    <3>3. CASE p \notin pushed
      <4>1. p = [app |-> s.app, code |-> buf] /\ h.code = 200
        BY <1>6, <3>1, <3>3 DEF ProcessRetrieve, push_code
      <4>2. QED
        BY <2>2, <4>1
    <3>4. QED
      BY <3>2, <3>3
  <2>5. QED
    BY <2>3, <2>4 DEF OneTransfer
<1>7. CASE NothingEnded
  BY <1>7 DEF NothingEnded, slotVars, OneTransfer, CodesStored, For
<1>8. CASE UNCHANGED nsVars
  BY <1>8 DEF nsVars, slotVars, OneTransfer, CodesStored, For
<1>9. QED
  BY <1>1, <1>2, <1>3, <1>4, <1>5, <1>6, <1>7, <1>8
     DEF NsNext, NsTick, trigger_app_request, process_control_del_req, trigger_app_stop,
         trigger_app_reconfig

\* With one transfer at a time, what goes to the agents as the code of an app is that
\* code as the store has it (PushedIsStored: netstore_loader's slots and its one buffer).
THEOREM OnlyStoredCodePushed == NsSpec => []PushedIsStored
<1>1. NsInit => NsIInv
  BY DEF NsInit, NsIInv, OneTransfer, CodesStored
<1>2. NsIInv /\ [NsNext]_nsVars => NsIInv'
  <2>1. ASSUME NsIInv, NsNext
        PROVE  NsIInv'
    BY <2>1, SingleBefore, TransferOnItsOwn DEF NsIInv
  <2>2. ASSUME NsIInv, UNCHANGED nsVars
        PROVE  NsIInv'
    BY <2>2 DEF NsIInv, nsVars, slotVars, OneTransfer, CodesStored, For
  <2>3. QED
    BY <2>1, <2>2
<1>3. NsIInv => PushedIsStored
  BY DEF NsIInv, CodesStored, PushedIsStored
<1>4. QED
  BY <1>1, <1>2, <1>3, PTL DEF NsSpec

(*****************************************************************************)
(* StatsManager: what the agent reports                                      *)
(*****************************************************************************)
\* The REST thread is at work on the entry that is in the list.
Working == set_pc \in {"off", "clear", "push"} /\ ItValid

\* Types, and the bounds on the lists.
SmTypes ==
  /\ bs_list \in {Entry(l) : l \in Seq(Report)} \cup {NoEntry}
  /\ Len(bs_list.reports) <= MaxReports
  /\ entry \in Nat /\ it \in 0..entry
  /\ policy \in Seq(Report) /\ Len(policy) <= MaxReports
  /\ xid \in Nat
  /\ active \in [Xid -> Report \cup {NoReport}]

\* The directory has an entry when the base station is online and no event is half
\* handled; set_reports counts up to the length of the list it works on.
SmPlaces ==
  /\ bs_list # NoEntry => entry > 0
  /\ \/ event_pc = "idle" /\ (online <=> bs_list # NoEntry)
     \/ event_pc \in {"adding", "inserting"} /\ online /\ bs_list = NoEntry
     \/ event_pc = "removing" /\ ~ online
  /\ Working /\ set_pc = "off" => xid <= Len(bs_list.reports)
  /\ Working /\ set_pc = "push" => xid = Len(bs_list.reports)

\* What the agents are asked for with an xid of the list.
Asked(i) ==
  IF Working /\ (set_pc = "clear" \/ (set_pc = "off" /\ i <= xid))
  THEN NoReport ELSE bs_list.reports[i]

\* Nobody asks for x.
Unasked(x) == outlived \/ active[x] = NoReport

\* What the agent reports, in the middle of an event too.
AgentsReport ==
  IF online /\ event_pc = "idle"
  THEN /\ \A i \in 1..Len(bs_list.reports) : active[i - 1] = Asked(i)
       /\ \A x \in Xid : x >= Len(bs_list.reports) => Unasked(x)
  ELSE IF event_pc = "inserting"
       THEN active[0] = Default /\ \A x \in Xid \ {0} : Unasked(x)
       ELSE \A x \in Xid : Unasked(x)

\* The inductive invariant.
SmIInv == SmTypes /\ SmPlaces /\ AgentsReport

\* What the entries of the directory hold.
LEMMA EntryReports ==
  /\ \A l : Entry(l) # NoEntry /\ Entry(l).reports = l
  /\ NoEntry.reports = <<>> 
  /\ SmTypes => bs_list.reports \in Seq(Report)
  /\ SmTypes => bs_list = NoEntry \/ bs_list = Entry(bs_list.reports)
<1>1. NoEntry.reports = <<>> /\ NoEntry.reports \in Seq(Report) /\ NoEntry.listed = FALSE
  BY DEF NoEntry
<1>2. \A l : Entry(l).listed = TRUE /\ Entry(l).reports = l
  BY DEF Entry
<1>3. ASSUME SmTypes
      PROVE  /\ bs_list.reports \in Seq(Report)
             /\ bs_list = NoEntry \/ bs_list = Entry(bs_list.reports)
  BY <1>1, <1>2, <1>3 DEF SmTypes
<1>4. QED
  BY <1>1, <1>2, <1>3

\* What a request to the agent does.
LEMMA PushType ==
  ASSUME SmTypes, NEW x \in Xid, NEW r \in Report \cup {NoReport}, Push(x, r)
  PROVE  /\ active' \in [Xid -> Report \cup {NoReport}]
         /\ ~ online => active' = active
         /\ online => active'[x] = r
         /\ \A y \in Xid : y # x => active'[y] = active[y]
BY DEF Push, SmTypes

\* The lists given in calls are lists of reports, no longer than the bound.
LEMMA ListsAreSequences ==
  \A l \in Lists : l \in Seq(Report) /\ Len(l) <= MaxReports
<1>1. TAKE l \in Lists
<1>2. PICK n \in 0..MaxReports : l \in [1..n -> Report]
  BY DEF Lists
<1>3. n \in Nat /\ n <= MaxReports
  BY ReportAssumption
<1>4. l \in Seq(Report) /\ Len(l) = n
  BY <1>2, <1>3
<1>5. QED
  BY <1>3, <1>4

\* Every step keeps the types.
LEMMA TypesKept ==
  ASSUME SmTypes, SmPlaces, SmStep
  PROVE  SmTypes'
<1> USE ReportAssumption
<1>0. bs_list.reports \in Seq(Report) /\ NoEntry.reports = <<>> /\ 0 \in Xid /\ Default \in Report
  BY EntryReports DEF Xid
<1>1. CASE BsOnline \/ BsRemove
  BY <1>0, <1>1 DEF BsOnline, BsRemove, setVars, SmTypes
<1>2. CASE BsAddPush
  BY <1>0, <1>2, PushType DEF BsAddPush, setVars, SmTypes
<1>3. CASE BsAddInsert
  <2>1. <<Default>> \in Seq(Report) /\ Len(<<Default>>) = 1
    BY <1>0
  <2>2. Entry(<<Default>>) \in {Entry(l) : l \in Seq(Report)} /\ Entry(<<Default>>).reports = <<Default>>
    BY <2>1, EntryReports
  <2>3. /\ bs_list' \in {Entry(l) : l \in Seq(Report)} \cup {NoEntry}
        /\ Len(bs_list'.reports) <= MaxReports /\ entry' \in Nat /\ it' = it /\ it \in 0..entry'
    <3>1. bs_list = NoEntry
      BY <1>3 DEF BsAddInsert, SmPlaces
    <3>2. bs_list' = Entry(<<Default>>) /\ entry' = entry + 1 /\ it' = it
      BY <1>3, <3>1 DEF BsAddInsert, setVars
    <3>3. entry \in Nat /\ it \in 0..entry /\ 1 <= MaxReports
      BY DEF SmTypes
    <3>4. Len(bs_list'.reports) <= MaxReports
      BY <2>1, <2>2, <3>2, <3>3
    <3>5. QED
      BY <2>2, <3>2, <3>3, <3>4
  <2>4. QED
    BY <1>3, <2>3 DEF BsAddInsert, setVars, SmTypes
<1>4. CASE BsOffline
  BY <1>4 DEF BsOffline, setVars, SmTypes
<1>5. ASSUME NEW x \in Xid, ReportUnknownBs(x)
      PROVE  SmTypes'
  BY <1>5 DEF ReportUnknownBs, setVars, SmTypes, eventVars
<1>6. CASE SetParse
  BY <1>6, ListsAreSequences DEF SetParse, eventVars, SmTypes
<1>7. CASE SetFind
  BY <1>7 DEF SetFind, eventVars, SmTypes
<1>8. CASE SetOff
  <2>1. CASE xid < Len(bs_list.reports)
    <3>1. xid \in Xid /\ Push(xid, NoReport) /\ xid' = xid + 1
      BY <1>0, <1>8, <2>1 DEF SetOff, SmTypes, Xid
    <3>2. active' \in [Xid -> Report \cup {NoReport}]
      BY <3>1, PushType
    <3>3. QED
      BY <1>8, <3>1, <3>2 DEF SetOff, eventVars, SmTypes
  <2>2. CASE ~ (xid < Len(bs_list.reports))
    BY <1>8, <2>2 DEF SetOff, eventVars, SmTypes
  <2>3. QED
    BY <2>1, <2>2
<1>9. CASE SetClear
  <2>1. <<>> \in Seq(Report) /\ Len(<<>>) = 0
    OBVIOUS
  <2>2. Entry(<<>>) \in {Entry(l) : l \in Seq(Report)} /\ Entry(<<>>).reports = <<>>
    BY <2>1, EntryReports
  <2>3. QED
    BY <1>9, <2>1, <2>2 DEF SetClear, eventVars, SmTypes
<1>10. CASE SetPush
  <2> DEFINE l == Append(bs_list.reports, policy[xid + 1])
  <2>1. xid \in Nat /\ xid < Len(policy) /\ Len(policy) <= MaxReports /\ policy \in Seq(Report)
    BY <1>10 DEF SetPush, SmTypes
  <2>2. xid \in Xid /\ policy[xid + 1] \in Report
    BY <2>1 DEF Xid
  <2>3. l \in Seq(Report) /\ Len(l) = xid + 1
    BY <1>0, <1>10, <2>2 DEF SetPush, SmPlaces, Working
  <2> HIDE DEF l
  <2>4. bs_list' = Entry(l) /\ Push(xid, policy[xid + 1])
    BY <1>10 DEF SetPush, l
  <2>5. bs_list' \in {Entry(k) : k \in Seq(Report)} /\ Len(bs_list'.reports) <= MaxReports
    BY <2>1, <2>3, <2>4, EntryReports
  <2>6. active' \in [Xid -> Report \cup {NoReport}]
    BY <2>2, <2>4, PushType
  <2>7. QED
    BY <1>10, <2>1, <2>5, <2>6 DEF SetPush, eventVars, SmTypes
<1>11. CASE SetReturn
  BY <1>11 DEF SetReturn, eventVars, SmTypes
<1>12. QED
  BY <1>1, <1>2, <1>3, <1>4, <1>5, <1>6, <1>7, <1>8, <1>9, <1>10, <1>11 DEF SmStep

\* Every step keeps entry, event and call in agreement.
LEMMA PlacesKept ==
  ASSUME SmTypes, SmPlaces, SmStep
  PROVE  SmPlaces'
<1>0. bs_list.reports \in Seq(Report) /\ entry \in Nat /\ it \in 0..entry /\ xid \in Nat
  BY EntryReports DEF SmTypes
<1>1. CASE BsOnline
  BY <1>1 DEF BsOnline, setVars, SmPlaces, Working, ItValid
<1>2. CASE BsAddPush
  BY <1>2 DEF BsAddPush, setVars, SmPlaces, Working, ItValid
<1>3. CASE BsAddInsert
  <2>1. bs_list' # NoEntry /\ entry' = entry + 1 /\ it' = it /\ event_pc' = "idle" /\ online'
    BY <1>3, EntryReports DEF BsAddInsert, setVars, SmPlaces
  <2>2. ~ ItValid'
    BY <1>0, <2>1 DEF ItValid
  <2>3. QED
    BY <1>0, <2>1, <2>2 DEF SmPlaces, Working
<1>4. CASE BsOffline
  BY <1>4 DEF BsOffline, setVars, SmPlaces, Working, ItValid
<1>5. CASE BsRemove
  BY <1>5 DEF BsRemove, setVars, SmPlaces, Working, ItValid
<1>6. CASE \E x \in Xid : ReportUnknownBs(x)
  BY <1>6 DEF ReportUnknownBs, eventVars, setVars, SmPlaces, Working, ItValid
<1>7. CASE SetParse
  BY <1>7 DEF SetParse, eventVars, SmPlaces, Working, ItValid
<1>8. CASE SetFind
  BY <1>0, <1>8 DEF SetFind, eventVars, SmPlaces, Working, ItValid
<1>9. CASE SetOff
  BY <1>0, <1>9 DEF SetOff, eventVars, SmPlaces, Working, ItValid
<1>10. CASE SetClear
  <2>1. bs_list' = Entry(<<>>) /\ bs_list' # NoEntry /\ Len(bs_list'.reports) = 0
    BY <1>10, EntryReports DEF SetClear
  <2>2. QED
    BY <1>0, <1>10, <2>1 DEF SetClear, eventVars, SmPlaces, ItValid
<1>11. CASE SetPush
  <2> DEFINE l == Append(bs_list.reports, policy[xid + 1])
  <2>1. Len(l) = xid + 1
    BY <1>0, <1>11 DEF SetPush, SmPlaces, Working
  <2> HIDE DEF l
  <2>2. bs_list' = Entry(l) /\ bs_list' # NoEntry /\ bs_list'.reports = l
    BY <1>11, EntryReports DEF SetPush, l
  <2>3. QED
    BY <1>0, <1>11, <2>1, <2>2 DEF SetPush, eventVars, SmPlaces, ItValid
<1>12. CASE SetReturn
  BY <1>12 DEF SetReturn, eventVars, SmPlaces, Working, ItValid
<1>13. QED
  BY <1>1, <1>2, <1>3, <1>4, <1>5, <1>6, <1>7, <1>8, <1>9, <1>10, <1>11, <1>12 DEF SmStep

\* Every step keeps what the agent reports as listed.
LEMMA ReportsKept ==
  ASSUME SmTypes, SmPlaces, AgentsReport, SmStep
  PROVE  AgentsReport'
<1> USE ReportAssumption
<1>0. /\ bs_list.reports \in Seq(Report) /\ entry \in Nat /\ it \in 0..entry /\ xid \in Nat
      /\ \A i \in 1..Len(bs_list.reports) : i - 1 \in Xid
      /\ NoEntry.reports = <<>> /\ 0 \in Xid
  BY EntryReports DEF SmTypes, Xid
<1>1. CASE BsOnline
  BY <1>1 DEF BsOnline, AgentsReport, Unasked
<1>2. CASE BsAddPush
  <2>1. Push(0, Default) /\ online /\ event_pc = "adding" /\ event_pc' = "inserting" /\ UNCHANGED outlived
    BY <1>2 DEF BsAddPush, SmPlaces
  <2>2. active'[0] = Default /\ \A y \in Xid : y # 0 => active'[y] = active[y]
    BY <1>0, <2>1, PushType
  <2>3. QED
    BY <2>1, <2>2 DEF AgentsReport, Unasked
<1>3. CASE BsAddInsert
  <2>1. /\ bs_list' = Entry(<<Default>>) /\ entry' = entry + 1 /\ event_pc' = "idle" /\ online'
        /\ event_pc = "inserting" /\ UNCHANGED <<active, outlived, set_pc, it, xid>>
    BY <1>3 DEF BsAddInsert, setVars, SmPlaces
  <2>2. bs_list'.reports = <<Default>>
    BY <2>1, EntryReports
  <2>3. ~ Working'
    BY <1>0, <2>1 DEF Working, ItValid
  <2>4. \A i \in 1..Len(bs_list'.reports) : active'[i - 1] = Asked(i)'
    BY <2>1, <2>2, <2>3 DEF AgentsReport, Asked
  <2>5. \A x \in Xid : x >= Len(bs_list'.reports) => Unasked(x)'
    <3>1. SUFFICES ASSUME NEW x \in Xid, x >= Len(<<Default>>)
                   PROVE  Unasked(x)'
      BY <2>2
    <3>2. x \in Xid \ {0}
      BY <3>1
    <3>3. QED
      BY <2>1, <3>2 DEF AgentsReport, Unasked
  <2>6. QED
    BY <2>1, <2>4, <2>5 DEF AgentsReport
<1>4. CASE BsOffline
  BY <1>4 DEF BsOffline, AgentsReport, Unasked, Xid
<1>5. CASE BsRemove
  BY <1>5 DEF BsRemove, SmPlaces, AgentsReport, Unasked
<1>6. ASSUME NEW x \in Xid, ReportUnknownBs(x)
      PROVE  AgentsReport'
  BY <1>6 DEF ReportUnknownBs, eventVars, SmTypes, AgentsReport, Unasked
<1>7. CASE SetParse
  BY <1>7 DEF SetParse, eventVars, AgentsReport, Asked, Unasked, Working, ItValid
<1>8. CASE SetFind
  BY <1>0, <1>8 DEF SetFind, eventVars, SmPlaces, AgentsReport, Asked, Unasked, Working, ItValid
<1>9. CASE SetOff
  <2> USE <1>9 DEF SetOff, eventVars
  <2>1. Working /\ set_pc = "off" /\ xid <= Len(bs_list.reports) /\ event_pc' = event_pc
    BY DEF Working, SmPlaces
  <2>2. CASE xid < Len(bs_list.reports)
    <3>1. /\ xid \in Xid /\ Push(xid, NoReport) /\ xid' = xid + 1 /\ Working' /\ set_pc' = "off"
          /\ UNCHANGED <<bs_list, online, event_pc, outlived>>
      BY <1>0, <2>1, <2>2 DEF Working, ItValid, Xid
    <3>2. CASE ~ online
      BY <3>1, <3>2, PushType DEF SmPlaces, AgentsReport, Unasked
    <3>3. CASE online
      <4>1. active'[xid] = NoReport /\ \A y \in Xid : y # xid => active'[y] = active[y]
        BY <3>1, <3>3, PushType
      <4>2. event_pc = "idle" /\ event_pc' = "idle" /\ online'
        BY <2>1, <3>1, <3>3 DEF SmPlaces, Working, ItValid
      <4>3. \A i \in 1..Len(bs_list'.reports) : active'[i - 1] = Asked(i)'
        <5>1. TAKE i \in 1..Len(bs_list'.reports)
        <5>2. i - 1 \in Xid /\ active[i - 1] = Asked(i)
          BY <1>0, <3>1, <3>3, <4>2 DEF AgentsReport
        <5>3. CASE i = xid + 1
          BY <1>0, <3>1, <4>1, <5>3 DEF Asked
        <5>4. CASE i # xid + 1
          <6>1. i - 1 # xid /\ (i <= xid + 1 <=> i <= xid)
            BY <1>0, <3>1, <5>4
          <6>2. Asked(i)' = Asked(i)
            BY <2>1, <3>1, <6>1 DEF Asked
          <6>3. QED
            BY <4>1, <5>2, <6>1, <6>2
        <5>5. QED
          BY <5>3, <5>4
      <4>4. \A x \in Xid : x >= Len(bs_list'.reports) => Unasked(x)'
        BY <1>0, <2>2, <3>1, <3>3, <4>1, <4>2 DEF AgentsReport, Unasked
      <4>5. QED
        BY <4>2, <4>3, <4>4 DEF AgentsReport
    <3>4. QED
      BY <3>2, <3>3
  <2>3. CASE ~ (xid < Len(bs_list.reports))
    <3>1. /\ xid = Len(bs_list.reports) /\ set_pc' = "clear" /\ Working'
          /\ UNCHANGED <<bs_list, active, online, event_pc, outlived>>
      BY <1>0, <2>1, <2>3 DEF Working, ItValid
    <3>2. \A i \in 1..Len(bs_list.reports) : Asked(i)' = Asked(i)
      BY <2>1, <3>1 DEF Asked
    <3>3. QED
      BY <3>1, <3>2 DEF AgentsReport, Unasked
  <2>4. QED
    BY <2>2, <2>3
<1>10. CASE SetClear
  <2> USE <1>10 DEF SetClear, eventVars
  <2>1. /\ Working /\ set_pc = "clear" /\ UNCHANGED <<active, online, event_pc, outlived>>
        /\ bs_list'.reports = <<>>
    BY EntryReports DEF Working
  <2>2. CASE online /\ event_pc = "idle"
    <3>1. \A x \in Xid : Unasked(x)
      <4>1. TAKE x \in Xid
      <4>2. CASE x < Len(bs_list.reports)
        <5>1. x + 1 \in 1..Len(bs_list.reports) /\ (x + 1) - 1 = x
          BY <1>0, <4>2 DEF Xid
        <5>2. active[x] = Asked(x + 1)
          BY <2>2, <5>1 DEF AgentsReport
        <5>3. QED
          BY <2>1, <5>2 DEF Asked, Unasked
      <4>3. CASE ~ (x < Len(bs_list.reports))
        <5>1. x >= Len(bs_list.reports)
          BY <1>0, <4>3 DEF Xid
        <5>2. QED
          BY <2>2, <5>1 DEF AgentsReport
      <4>4. QED
        BY <4>2, <4>3
    <3>2. QED
      BY <2>1, <2>2, <3>1 DEF AgentsReport, Unasked
  <2>3. CASE ~ (online /\ event_pc = "idle")
    BY <2>1, <2>3 DEF AgentsReport, Unasked
  <2>4. QED
    BY <2>2, <2>3
<1>11. CASE SetPush
  <2> DEFINE l == Append(bs_list.reports, policy[xid + 1])
  <2>1. /\ Working /\ set_pc = "push" /\ xid = Len(bs_list.reports) /\ xid < Len(policy)
        /\ UNCHANGED <<online, event_pc, outlived, set_pc>>
    BY <1>11 DEF SetPush, eventVars, Working, SmPlaces
  <2>2. policy[xid + 1] \in Report /\ xid \in Xid
    BY <1>0, <2>1 DEF SmTypes, Xid
  <2>3. /\ Len(l) = xid + 1 /\ l[xid + 1] = policy[xid + 1]
        /\ \A i \in 1..xid : l[i] = bs_list.reports[i]
    BY <1>0, <2>1, <2>2
  <2> HIDE DEF l
  <2>4. bs_list' = Entry(l) /\ bs_list'.reports = l /\ Push(xid, policy[xid + 1])
    BY <1>11, EntryReports DEF SetPush, l
  <2>5. CASE online
    <3>1. event_pc = "idle"
      BY <2>1, <2>5 DEF SmPlaces, Working, ItValid
    <3>2. active'[xid] = policy[xid + 1] /\ \A y \in Xid : y # xid => active'[y] = active[y]
      BY <2>2, <2>4, <2>5, PushType
    <3>3. \A i \in 1..Len(bs_list'.reports) : active'[i - 1] = Asked(i)'
      <4>1. TAKE i \in 1..Len(bs_list'.reports)
      <4>2. Asked(i)' = l[i]
        BY <2>1, <2>4 DEF Asked
      <4>3. CASE i = xid + 1
        BY <1>0, <2>3, <3>2, <4>2, <4>3
      <4>4. CASE i # xid + 1
        <5>1. i \in 1..xid /\ i - 1 \in Xid /\ i - 1 # xid
          BY <1>0, <2>1, <2>3, <2>4, <4>1, <4>4
        <5>2. active[i - 1] = bs_list.reports[i]
          BY <2>1, <2>5, <3>1, <5>1 DEF AgentsReport, Asked
        <5>3. QED
          BY <2>3, <3>2, <4>2, <5>1, <5>2
      <4>5. QED
        BY <4>3, <4>4
    <3>4. \A x \in Xid : x >= Len(bs_list'.reports) => Unasked(x)'
      <4>1. SUFFICES ASSUME NEW x \in Xid, x >= xid + 1
                     PROVE  Unasked(x)'
        BY <2>3, <2>4
      <4>2. x # xid /\ x >= xid
        BY <1>0, <4>1 DEF Xid
      <4>3. QED
        BY <2>1, <2>5, <3>1, <3>2, <4>2 DEF AgentsReport, Unasked
    <3>5. QED
      BY <2>1, <2>5, <3>1, <3>3, <3>4 DEF AgentsReport
  <2>6. CASE ~ online
    BY <2>1, <2>2, <2>4, <2>6, PushType DEF SmPlaces, AgentsReport, Unasked
  <2>7. QED
    BY <2>5, <2>6
<1>12. CASE SetReturn
  BY <1>12 DEF SetReturn, eventVars, AgentsReport, Asked, Unasked, Working, ItValid
<1>13. QED
  BY <1>1, <1>2, <1>3, <1>4, <1>5, <1>6, <1>7, <1>8, <1>9, <1>10, <1>11, <1>12 DEF SmStep

\* However events, reports of agents without a base station, and the steps of a call
\* interleave, the directory and what the agents report stay in step.
THEOREM StatsInvariant == SmSpec => []SmIInv
<1>1. SmInit => SmIInv
  <2>1. SUFFICES ASSUME SmInit
                 PROVE  SmIInv
    OBVIOUS
  <2>2. <<>> \in Seq(Report) /\ Len(<<>>) = 0 /\ NoEntry.reports = <<>>
    BY EntryReports
  <2>3. SmTypes
    BY <2>1, <2>2, ReportAssumption DEF SmInit, SmTypes
  <2>4. SmPlaces /\ AgentsReport
    BY <2>1 DEF SmInit, SmPlaces, Working, AgentsReport, Unasked
  <2>5. QED
    BY <2>3, <2>4 DEF SmIInv
<1>2. SmIInv /\ [SmNext]_smVars => SmIInv'
  <2>1. ASSUME SmIInv, SmStep
        PROVE  SmIInv'
    BY <2>1, TypesKept, PlacesKept, ReportsKept DEF SmIInv
  <2>2. ASSUME SmIInv, UNCHANGED <<eventVars, bs_list, entry, setVars, active>>
        PROVE  SmIInv'
    BY <2>2 DEF SmIInv, eventVars, setVars, SmTypes, SmPlaces, AgentsReport, Asked, Unasked,
                Working, ItValid
  <2>3. QED
    BY <2>1, <2>2 DEF SmNext, SetFault, smVars
<1>3. QED
  BY <1>1, <1>2, PTL DEF SmSpec

\* When no event or call is being handled, an agent reports what the list of its base
\* station asks for, and nothing else (ReportsAsListed: stats_manager::set_reports,
\* push_reports and the two event handlers).
THEOREM ReportsMatchTheList == SmSpec => []ReportsAsListed
<1>1. SmIInv => ReportsAsListed
  <2>1. SUFFICES ASSUME SmIInv, Quiet, online
                 PROVE  /\ \A i \in 1..Len(bs_list.reports) : active[i - 1] = bs_list.reports[i]
                        /\ ~ outlived => \A x \in Xid : active[x] # NoReport =>
                                                          x < Len(bs_list.reports)
    BY DEF ReportsAsListed, ListedActive, OnlyListedActive
  <2>2. AgentsReport /\ event_pc = "idle" /\ ~ Working /\ bs_list.reports \in Seq(Report)
    BY <2>1, EntryReports DEF SmIInv, Quiet, Working
  <2>3. \A i \in 1..Len(bs_list.reports) : active[i - 1] = bs_list.reports[i]
    BY <2>1, <2>2 DEF AgentsReport, Asked
  <2>4. \A x \in Xid : Unasked(x) \/ x < Len(bs_list.reports)
    BY <2>1, <2>2, ReportAssumption DEF AgentsReport, Xid
  <2>5. QED
    BY <2>3, <2>4 DEF Unasked
<1>2. QED
  BY <1>1, StatsInvariant, PTL

\* The list has an entry for the base station exactly while it is online, once the event
\* that brought or took it was handled (ListedIffOnline: bs_add and bs_remove, with
\* set_reports working on the same entry in another thread).
THEOREM ListedWhileOnline == SmSpec => []ListedIffOnline
<1>1. SmIInv => ListedIffOnline
  BY DEF SmIInv, SmPlaces, ListedIffOnline
<1>2. QED
  BY <1>1, StatsInvariant, PTL

\* What the types need besides: there are no more entries than events, and nothing is
\* counted beyond its bound.
SmBounds ==
  /\ online \in BOOLEAN /\ outlived \in BOOLEAN
  /\ event_pc \in {"idle", "adding", "inserting", "removing"}
  /\ set_pc \in {"idle", "parsed", "off", "clear", "push"}
  /\ bad_it \in {"none", "end", "erased"}
  /\ adds \in 0..MaxAdds /\ sets \in 0..MaxSets
  /\ IF event_pc \in {"adding", "inserting"} THEN entry < adds ELSE entry <= adds
  /\ xid <= MaxReports

\* A sequence of reports that is not too long is one of the lists.
LEMMA SequencesAreLists ==
  ASSUME NEW l \in Seq(Report), Len(l) <= MaxReports
  PROVE  l \in Lists
<1>1. Len(l) \in 0..MaxReports /\ l \in [1..Len(l) -> Report]
  BY ReportAssumption
<1>2. QED
  BY <1>1 DEF Lists

\* stats_manager keeps its types: an iterator never points to an entry that was not made
\* yet, and no list grows beyond what a call may ask for.
THEOREM StatsTypeCorrect == SmSpec => []SmTypeOK
<1> USE SmBoundAssumption, ReportAssumption
<1>1. SmInit => SmBounds
  <2>1. SUFFICES ASSUME SmInit
                 PROVE  SmBounds
    OBVIOUS
  <2>2. online \in BOOLEAN /\ outlived \in BOOLEAN
    BY <2>1 DEF SmInit
  <2>3. QED
    BY <2>1, <2>2 DEF SmInit, SmBounds
<1>2. SmIInv /\ SmBounds /\ [SmNext]_smVars => SmBounds'
  <2> SUFFICES ASSUME SmIInv, SmBounds, [SmNext]_smVars
               PROVE  SmBounds'
    OBVIOUS
  <2> USE DEF eventVars, setVars
  <2>0. entry \in Nat /\ xid \in Nat /\ bs_list.reports \in Seq(Report) /\ policy \in Seq(Report)
        /\ Len(bs_list.reports) <= MaxReports /\ Len(policy) <= MaxReports
    BY EntryReports DEF SmIInv, SmTypes
  <2>1. CASE (BsOnline \/ BsOffline \/ BsRemove \/ BsAddPush) /\ UNCHANGED bad_it
    <3>1. /\ adds' \in 0..MaxAdds /\ UNCHANGED <<entry, set_pc, sets, xid>>
          /\ event_pc' \in {"idle", "adding", "inserting", "removing"}
          /\ IF event_pc' \in {"adding", "inserting"} THEN entry < adds' ELSE entry <= adds'
      BY <2>0, <2>1 DEF BsOnline, BsOffline, BsRemove, BsAddPush, SmBounds
    <3>2. online' \in BOOLEAN /\ outlived' \in BOOLEAN
      BY <2>1 DEF BsOnline, BsOffline, BsRemove, BsAddPush, SmBounds
    <3>3. QED
      BY <2>1, <3>1, <3>2 DEF SmBounds
  <2>2. CASE BsAddInsert /\ UNCHANGED bad_it
    BY <2>0, <2>2 DEF BsAddInsert, SmBounds
  <2>3. CASE (\E x \in Xid : ReportUnknownBs(x)) /\ UNCHANGED bad_it
    BY <2>3 DEF ReportUnknownBs, SmBounds
  <2>4. CASE SetParse /\ UNCHANGED bad_it
    BY <2>4 DEF SetParse, SmBounds
  <2>5. CASE (SetFind \/ SetClear \/ SetReturn) /\ UNCHANGED bad_it
    BY <2>5 DEF SetFind, SetClear, SetReturn, SmBounds
  <2>6. CASE SetOff /\ UNCHANGED bad_it
    BY <2>0, <2>6 DEF SetOff, SmBounds
  <2>7. CASE SetPush /\ UNCHANGED bad_it
    BY <2>0, <2>7 DEF SetPush, SmBounds
  <2>8. CASE SetFault
    BY <2>8 DEF SetFault, SmBounds
  <2>9. CASE UNCHANGED smVars
    BY <2>9 DEF smVars, SmBounds
  <2>10. QED
    BY <2>1, <2>2, <2>3, <2>4, <2>5, <2>6, <2>7, <2>8, <2>9 DEF SmNext, SmStep
<1>3. SmIInv /\ SmBounds => SmTypeOK
  <2>1. SUFFICES ASSUME SmIInv, SmBounds
                 PROVE  SmTypeOK
    OBVIOUS
  <2>2. /\ bs_list.reports \in Seq(Report) /\ Len(bs_list.reports) <= MaxReports
        /\ bs_list = NoEntry \/ bs_list = Entry(bs_list.reports)
    BY <2>1, EntryReports DEF SmIInv, SmTypes
  <2>3. bs_list \in {Entry(l) : l \in Lists} \cup {NoEntry}
    BY <2>2, SequencesAreLists
  <2>4. policy \in Lists
    BY <2>1, SequencesAreLists DEF SmIInv, SmTypes
  <2>5. entry \in 0..MaxAdds /\ it \in 0..MaxAdds /\ xid \in 0..MaxReports
    BY <2>1 DEF SmIInv, SmTypes, SmBounds
  <2>6. QED
    BY <2>1, <2>3, <2>4, <2>5 DEF SmIInv, SmTypes, SmBounds, SmTypeOK
<1>4. QED
  BY <1>1, <1>2, <1>3, StatsInvariant, PTL DEF SmSpec

(*****************************************************************************)
(* Framing: buffers and their owners                                         *)
(*****************************************************************************)
\* The types.
Kind == {"none", "protocol", "read", "tagged", "moved"}
Buffer == [header : Nat, body : Content \cup {0}]
Message == [kind : Kind, data : Block \cup {Static}, dynamic_alloc : BOOLEAN, length : Nat,
            own : Buffer]
Heap == [Block -> [allocated : BOOLEAN, bytes : Nat, content : Buffer]]
MessageWithHeap == [m : Message, heap : Heap, failed : BOOLEAN, faulty : BOOLEAN]

\* What a message may be given: its length fits an int.
Given == [length : {n \in Nat : n < Half}, body : Content \cup {0}]

\* The block of message m, if it has one, has room for its header and body.
Fits(m, h) == m.dynamic_alloc => Overhead(m) + m.length <= h[m.data].bytes

\* Message m has block b to free.
Owns(m, b) == m.dynamic_alloc /\ m.data = b

\* Types.
FrameTypes ==
  /\ msg \in [Object -> Message]
  /\ heap \in Heap
  /\ meant \in [Object -> Given]

\* Each block that is allocated has its one message, and no other block has one.
Owned ==
  /\ failed = FALSE /\ faulty = FALSE
  /\ \A b \in Block : heap[b].allocated <=> \E o \in Object : Owns(msg[o], b)
  /\ \A o, p \in Object : o # p => \A b \in Block : ~ (Owns(msg[o], b) /\ Owns(msg[p], b))
  /\ \A o \in Object : msg[o].dynamic_alloc => msg[o].data \in Block

\* What has no block has its content in itself; a block is large enough.
Placed ==
  \A o \in Object :
    /\ Fits(msg[o], heap)
    /\ msg[o].kind \in {"none", "moved"} => ~ msg[o].dynamic_alloc
    /\ msg[o].kind # "moved" /\ ~ msg[o].dynamic_alloc => msg[o].data = Static

\* The inductive invariant, while the headers that come in fit an int.
SoundFrames == FrameTypes /\ Owned /\ Placed /\ FramesHold
FrameIInv == sane \in BOOLEAN /\ (sane => SoundFrames)

\* While message o is changed, the other messages keep their blocks, and its own block, if
\* it is to have one, has been freed.
Others(o, b) == \E p \in Object \ {o} : Owns(msg[p], b)

\* While message o changes: it owns nothing, the others own what is allocated.
Freed(o, st) ==
  /\ st \in MessageWithHeap /\ st.failed = FALSE /\ st.faulty = FALSE
  /\ \A b \in Block : st.heap[b].allocated <=> Others(o, b)
  /\ \A b \in Block : Others(o, b) => st.heap[b] = heap[b]

\* It has a block or none again.
Sound(o, st) ==
  /\ st \in MessageWithHeap /\ st.failed = FALSE /\ st.faulty = FALSE
  /\ st.m.dynamic_alloc => st.m.data \in Block /\ ~ Others(o, st.m.data)
  /\ ~ st.m.dynamic_alloc => st.m.data = Static
  /\ Fits(st.m, st.heap)
  /\ \A b \in Block : st.heap[b].allocated <=> Others(o, b) \/ Owns(st.m, b)
  /\ \A b \in Block : Others(o, b) => st.heap[b] = heap[b]

\* What a message with a heap holds.
LEMMA GetType ==
  ASSUME NEW st \in MessageWithHeap
  PROVE  /\ Get(st) \in Buffer
         /\ st.m \in Message /\ st.heap \in Heap /\ st.faulty \in BOOLEAN /\ st.failed \in BOOLEAN
BY DEF Get, MessageWithHeap, Message, Heap

\* Writing into the buffer of o disturbs nobody else.
LEMMA PutSound ==
  ASSUME NEW o \in Object, NEW st, Sound(o, st), NEW c \in Buffer,
         NEW n \in Nat, n <= Overhead(st.m) + st.m.length
  PROVE  /\ Sound(o, Put(st, c, n))
         /\ Get(Put(st, c, n)) = c
         /\ Put(st, c, n).m.length = st.m.length /\ Put(st, c, n).m.kind = st.m.kind
<1> DEFINE r == Put(st, c, n)
<1>0. st \in MessageWithHeap /\ st.m \in Message /\ st.heap \in Heap /\ st.failed = FALSE /\ st.faulty = FALSE
  BY DEF Sound, MessageWithHeap
<1>1. CASE st.m.data = Static
  <2>1. r = [st EXCEPT !.m.own = c]
    BY <1>0, <1>1 DEF Put
  <2>2. r.m = [st.m EXCEPT !.own = c] /\ r.heap = st.heap /\ r.faulty = st.faulty
        /\ r.failed = st.failed
        /\ r \in [m : Message, heap : Heap, failed : BOOLEAN, faulty : BOOLEAN]
    BY <1>0, <2>1 DEF MessageWithHeap, Message
  <2>3. /\ r.m.own = c /\ r.m.data = Static /\ r.m.length = st.m.length /\ r.m.kind = st.m.kind
        /\ r.m.dynamic_alloc = st.m.dynamic_alloc
    BY <1>0, <1>1, <2>2 DEF Message
  <2> HIDE DEF r
  <2>4. Sound(o, r)
    BY <1>1, <2>2, <2>3, BlockAssumption DEF Sound, Owns, MessageWithHeap, Fits
  <2>5. QED
    BY <2>3, <2>4 DEF Get, r
<1>2. CASE st.m.data # Static
  <2>1. st.m.data \in Block /\ st.m.dynamic_alloc /\ ~ Others(o, st.m.data)
    BY <1>2 DEF Sound
  <2>2. st.heap[st.m.data].allocated
    BY <2>1 DEF Sound, Owns
  <2>c. ~ n > st.heap[st.m.data].bytes
    <3>1. Overhead(st.m) + st.m.length <= st.heap[st.m.data].bytes
      BY <2>1 DEF Sound, Fits
    <3>2. /\ Overhead(st.m) \in Nat /\ st.m.length \in Nat
          /\ st.heap[st.m.data].bytes \in Nat
      BY <1>0, <2>1 DEF Message, Heap, Overhead, header_length
    <3>3. QED
      BY <3>1, <3>2
  <2>3. r = [st EXCEPT !.heap[st.m.data].content = c,
                  !.faulty = @ \/ ~ st.heap[st.m.data].allocated
                               \/ n > st.heap[st.m.data].bytes]
    BY <1>0, <1>2 DEF Put
  <2>4. r.m = st.m /\ r.faulty = FALSE /\ r.failed = FALSE
    BY <1>0, <2>2, <2>c, <2>3 DEF MessageWithHeap
  <2>5. r.heap = [st.heap EXCEPT ![st.m.data].content = c]
    BY <1>0, <2>3 DEF MessageWithHeap
  <2>a. [st.heap EXCEPT ![st.m.data].content = c] \in Heap
    BY <1>0, <2>1 DEF Heap
  <2>b. r = [m |-> r.m, heap |-> r.heap, failed |-> r.failed, faulty |-> r.faulty]
    BY <1>0, <2>3 DEF MessageWithHeap
  <2>6. r \in [m : Message, heap : Heap, failed : BOOLEAN, faulty : BOOLEAN]
    BY <1>0, <2>4, <2>5, <2>a, <2>b
  <2> HIDE DEF r
  <2>7. /\ \A b \in Block : b # st.m.data => r.heap[b] = st.heap[b]
        /\ r.heap[st.m.data].content = c
        /\ r.heap[st.m.data].allocated = st.heap[st.m.data].allocated
        /\ r.heap[st.m.data].bytes = st.heap[st.m.data].bytes
    BY <1>0, <2>1, <2>5 DEF Heap
  <2>8. Sound(o, r)
    BY <2>1, <2>2, <2>4, <2>6, <2>7 DEF Sound, Owns, MessageWithHeap, Fits
  <2>9. QED
    BY <1>2, <2>4, <2>7, <2>8 DEF Get, r
<1>3. QED
  BY <1>1, <1>2

\* Freeing the buffer of o frees no other one.
LEMMA FreeFreed ==
  ASSUME NEW o \in Object, NEW st, Sound(o, st)
  PROVE  Freed(o, Free(st)) /\ Free(st).m = st.m
<1> DEFINE r == Free(st)
<1>0. st \in MessageWithHeap /\ st.m \in Message /\ st.heap \in Heap /\ st.failed = FALSE /\ st.faulty = FALSE
  BY DEF Sound, MessageWithHeap
<1>1. CASE ~ st.m.dynamic_alloc
  BY <1>1 DEF Free, Freed, Sound, Owns
<1>2. CASE st.m.dynamic_alloc
  <2>1. st.m.data \in Block /\ ~ Others(o, st.m.data) /\ st.heap[st.m.data].allocated
    BY <1>2 DEF Sound, Owns
  <2>2. r = [st EXCEPT !.heap[st.m.data].allocated = FALSE,
                       !.faulty = @ \/ ~ st.heap[st.m.data].allocated]
    BY <1>2 DEF Free
  <2>3. r.m = st.m /\ r.faulty = FALSE /\ r.failed = FALSE
    BY <1>0, <2>1, <2>2 DEF MessageWithHeap
  <2>4. r.heap = [st.heap EXCEPT ![st.m.data].allocated = FALSE]
    BY <1>0, <2>2 DEF MessageWithHeap
  <2>5. [st.heap EXCEPT ![st.m.data].allocated = FALSE] \in Heap
    BY <1>0, <2>1 DEF Heap
  <2>6. r = [m |-> r.m, heap |-> r.heap, failed |-> r.failed, faulty |-> r.faulty]
    BY <1>0, <2>2 DEF MessageWithHeap
  <2> HIDE DEF r
  <2>7. r \in MessageWithHeap
    BY <1>0, <2>3, <2>4, <2>5, <2>6 DEF MessageWithHeap
  <2>8. /\ \A b \in Block : b # st.m.data => r.heap[b] = st.heap[b]
        /\ r.heap[st.m.data].allocated = FALSE
    BY <1>0, <2>1, <2>4 DEF Heap
  <2>9. Freed(o, r)
    BY <2>1, <2>3, <2>7, <2>8 DEF Sound, Freed, Owns
  <2>10. QED
    BY <2>3, <2>9 DEF r
<1>3. QED
  BY <1>1, <1>2

\* A number below the modulus is its own remainder.
LEMMA SmallRemainder ==
  ASSUME NEW n \in Nat, NEW k \in Nat, n < k
  PROVE  n % k = n
BY SMT

\* Sizes of an int keep their value on their way to the buffer.
LEMMA SizesKept ==
  ASSUME NEW n \in Nat, n < Half
  PROVE  /\ AsUint32(n) = n /\ AsSize(n) = n
         /\ \A m : /\ Overhead(m) \in Nat
                  /\ (Overhead(m) + n) % SizeMod = Overhead(m) + n
                  /\ Overhead(m) + n < SizeMod - Half
<1>1. Half \in Nat /\ SizeMod \in Nat /\ 4 + 2 * Half < SizeMod
  BY LengthAssumption DEF header_length
<1>2. AsUint32(n) = n
  <2>1. 2 * Half \in Nat /\ n < 2 * Half
    BY <1>1
  <2>2. QED
    BY <2>1, SmallRemainder DEF AsUint32
<1>3. ASSUME NEW m
      PROVE  /\ Overhead(m) \in Nat
             /\ (Overhead(m) + n) % SizeMod = Overhead(m) + n
             /\ Overhead(m) + n < SizeMod - Half
  <2>1. Overhead(m) \in Nat /\ Overhead(m) <= 4
    BY DEF Overhead, header_length
  <2>2. /\ Overhead(m) + n \in Nat /\ Overhead(m) + n < SizeMod
        /\ Overhead(m) + n < SizeMod - Half
    BY <1>1, <2>1
  <2>3. QED
    BY <1>1, <2>1, <2>2, SmallRemainder
<1>4. QED
  BY <1>2, <1>3 DEF AsSize

\* The buffer allocated for o is its own.
LEMMA AllocateSound ==
  ASSUME NEW o \in Object, NEW st, Freed(o, st), NEW n \in Nat, n < Half, Owned, Room
  PROVE  /\ Sound(o, Allocate(st, n))
         /\ Allocate(st, n).m.length = n /\ Allocate(st, n).m.kind = st.m.kind
<1> DEFINE r == Allocate(st, n)
           bytes == Overhead(st.m) + n
<1>0. st \in MessageWithHeap /\ st.m \in Message /\ st.heap \in Heap /\ st.failed = FALSE
      /\ st.faulty = FALSE
  BY DEF Freed, MessageWithHeap
<1>a. /\ bytes \in Nat /\ AsUint32(n) = n
      /\ (Overhead(st.m) + n) % SizeMod = bytes /\ ~ bytes >= SizeMod - Half
  <2>1. /\ Overhead(st.m) \in Nat /\ AsUint32(n) = n
        /\ (Overhead(st.m) + n) % SizeMod = Overhead(st.m) + n
        /\ Overhead(st.m) + n < SizeMod - Half
    BY SizesKept
  <2>2. Half \in Nat /\ SizeMod \in Nat
    BY LengthAssumption
  <2>3. QED
    BY <2>1, <2>2
<1>1. CASE n <= MaxNormal
  <2>1. r = [st EXCEPT !.m.data = Static, !.m.dynamic_alloc = FALSE, !.m.length = n]
    BY <1>1 DEF Allocate
  <2>2. r.heap = st.heap /\ r.faulty = st.faulty /\ r.failed = st.failed
    BY <1>0, <2>1 DEF MessageWithHeap
  <2>3. r.m = [st.m EXCEPT !.data = Static, !.dynamic_alloc = FALSE, !.length = n]
    BY <1>0, <2>1 DEF MessageWithHeap
  <2>4. r.m \in Message /\ r.m.data = Static /\ ~ r.m.dynamic_alloc /\ r.m.length = n
        /\ r.m.kind = st.m.kind
    BY <1>0, <2>3 DEF Message
  <2>5. r = [m |-> r.m, heap |-> r.heap, failed |-> r.failed, faulty |-> r.faulty]
    BY <1>0, <2>1 DEF MessageWithHeap
  <2> HIDE DEF r
  <2>6. r \in MessageWithHeap
    BY <1>0, <2>2, <2>4, <2>5 DEF MessageWithHeap
  <2>7. Sound(o, r)
    BY <1>0, <2>2, <2>4, <2>6 DEF Sound, Freed, Owns, Fits
  <2>8. QED
    BY <2>4, <2>7 DEF r
<1>2. CASE ~ (n <= MaxNormal)
  <2> DEFINE b == CHOOSE c \in Block : ~ st.heap[c].allocated
             new == [allocated |-> TRUE, bytes |-> bytes, content |-> EmptyBuffer]
  <2>1. \E c \in Block : ~ st.heap[c].allocated
    <3>1. PICK c \in Block : ~ heap[c].allocated
      BY DEF Room
    <3>2. ~ Others(o, c)
      BY <3>1 DEF Owned, Others
    <3>3. QED
      BY <3>1, <3>2 DEF Freed
  <2>2. b \in Block /\ ~ st.heap[b].allocated
    BY <2>1
  <2>3. r = [st EXCEPT !.m.data = b, !.m.dynamic_alloc = TRUE, !.m.length = n, !.heap[b] = new]
    BY <1>a, <1>2 DEF Allocate
  <2> HIDE DEF b
  <2>4. r.heap = [st.heap EXCEPT ![b] = new]
        /\ r.faulty = st.faulty /\ r.failed = st.failed
    BY <1>0, <2>3 DEF MessageWithHeap
  <2>5. r.m = [st.m EXCEPT !.data = b, !.dynamic_alloc = TRUE, !.length = n]
    BY <1>0, <2>3 DEF MessageWithHeap
  <2>6. r.m \in Message /\ r.m.data = b /\ r.m.dynamic_alloc /\ r.m.length = n
        /\ r.m.kind = st.m.kind
    BY <1>0, <2>2, <2>5 DEF Message
  <2>7. new \in [allocated : BOOLEAN, bytes : Nat, content : Buffer] /\ new.bytes = bytes
        /\ new.allocated = TRUE
    BY <1>a DEF EmptyBuffer, Buffer
  <2> HIDE DEF new
  <2>8. [st.heap EXCEPT ![b] = new] \in Heap
    BY <1>0, <2>2, <2>7 DEF Heap
  <2>9. r = [m |-> r.m, heap |-> r.heap, failed |-> r.failed, faulty |-> r.faulty]
    BY <1>0, <2>3 DEF MessageWithHeap
  <2> HIDE DEF r
  <2>10. r \in MessageWithHeap
    BY <1>0, <2>4, <2>6, <2>8, <2>9 DEF MessageWithHeap
  <2>11. /\ \A c \in Block : c # b => r.heap[c] = st.heap[c]
         /\ r.heap[b].allocated = TRUE /\ r.heap[b].bytes = bytes
    BY <1>0, <2>2, <2>4, <2>7 DEF Heap
  <2>12. ~ Others(o, b) /\ b # Static
    BY <2>2, BlockAssumption DEF Freed
  <2>a. Fits(r.m, r.heap)
    <3>1. Overhead(r.m) = Overhead(st.m)
      BY <2>6 DEF Overhead
    <3>2. QED
      BY <1>a, <2>6, <2>11, <3>1 DEF Fits
  <2>13. Sound(o, r)
    BY <1>0, <2>2, <2>4, <2>6, <2>10, <2>11, <2>12, <2>a DEF Sound, Freed, Owns
  <2>14. QED
    BY <2>6, <2>13 DEF r
<1>3. QED
  BY <1>1, <1>2

\* A message before it is changed.
LEMMA StateSound ==
  ASSUME SoundFrames, NEW o \in Object, msg[o].kind # "moved"
  PROVE  Sound(o, State(msg[o]))
<1>1. State(msg[o]) \in MessageWithHeap
  BY DEF State, MessageWithHeap, SoundFrames, FrameTypes, Owned
<1>2. \A b \in Block : heap[b].allocated <=> Others(o, b) \/ Owns(msg[o], b)
  BY DEF SoundFrames, Owned, Others
<1>3. msg[o].dynamic_alloc => msg[o].data \in Block /\ ~ Others(o, msg[o].data)
  BY DEF SoundFrames, Owned, Others, Owns
<1>4. QED
  BY <1>1, <1>2, <1>3 DEF State, Sound, SoundFrames, Owned, Placed

\* A new message that takes the place of o owns nothing.
LEMMA NewFreed ==
  ASSUME SoundFrames, NEW o \in Object, ~ msg[o].dynamic_alloc, NEW m \in Message
  PROVE  Freed(o, State(m))
<1>1. State(m) \in MessageWithHeap
  BY DEF State, MessageWithHeap, SoundFrames, FrameTypes, Owned
<1>2. \A b \in Block : heap[b].allocated <=> Others(o, b)
  BY DEF SoundFrames, Owned, Others, Owns
<1>3. QED
  BY <1>1, <1>2 DEF State, Freed, SoundFrames, Owned

\* A message holds what was meant.
Holds(m, h, given) ==
  m.kind \in {"protocol", "read", "tagged"} =>
    LET c == IF m.data = Static THEN m.own ELSE h[m.data].content
    IN /\ m.length = given.length
       /\ c.body = given.body
       /\ m.kind # "tagged" => c.header = given.length

\* FramesHold, message by message.
LEMMA FramesHoldEach ==
  /\ FramesHold <=> \A o \in Object : Holds(msg[o], heap, meant[o])
  /\ FramesHold' <=> \A o \in Object : Holds(msg'[o], heap', meant'[o])
BY DEF FramesHold, Holds, State, Get

\* The other messages hold what they held when their blocks are as they were.
LEMMA OthersHold ==
  ASSUME SoundFrames, NEW o \in Object, NEW p \in Object \ {o}, NEW h,
         \A b \in Block : Others(o, b) => h[b] = heap[b]
  PROVE  Holds(msg[p], h, meant[p])
<1>1. Holds(msg[p], heap, meant[p])
  BY FramesHoldEach DEF SoundFrames
<1>2. CASE msg[p].kind \in {"protocol", "read", "tagged"} /\ msg[p].data # Static
  <2>1. msg[p].data \in Block /\ Others(o, msg[p].data)
    BY <1>2 DEF SoundFrames, Owned, Placed, Others, Owns
  <2>2. QED
    BY <1>1, <2>1 DEF Holds
<1>3. QED
  BY <1>1, <1>2 DEF Holds

\* Their blocks are still large enough.
LEMMA OthersFit ==
  ASSUME SoundFrames, NEW o \in Object, NEW p \in Object \ {o}, NEW h,
         \A b \in Block : Others(o, b) => h[b] = heap[b]
  PROVE  Fits(msg[p], h)
<1>1. Fits(msg[p], heap)
  BY DEF SoundFrames, Placed
<1>2. CASE msg[p].dynamic_alloc
  <2>1. msg[p].data \in Block /\ Others(o, msg[p].data)
    BY <1>2 DEF SoundFrames, Owned, Others, Owns
  <2>2. QED
    BY <1>1, <2>1 DEF Fits
<1>3. QED
  BY <1>2 DEF Fits

\* What an operation has made of message o is put back: the invariant holds.
LEMMA IntoSound ==
  ASSUME SoundFrames, NEW o \in Object, NEW st, Sound(o, st),
         NEW given \in Given, Into(o, st, given),
         st.m.kind \in {"protocol", "read", "tagged"},
         st.m.length = given.length, Get(st).body = given.body,
         st.m.kind # "tagged" => Get(st).header = given.length
  PROVE  SoundFrames'
<1> USE DEF SoundFrames
<1>0. st.m \in Message /\ st.heap \in Heap /\ st.failed = FALSE /\ st.faulty = FALSE
  BY DEF Sound, MessageWithHeap
<1>1. /\ msg' = [msg EXCEPT ![o] = st.m] /\ meant' = [meant EXCEPT ![o] = given]
      /\ heap' = st.heap /\ faulty' = FALSE /\ failed' = FALSE
  BY <1>0 DEF Into
<1>2. FrameTypes'
  BY <1>0, <1>1 DEF FrameTypes
<1>3. /\ msg'[o] = st.m /\ meant'[o] = given
      /\ \A p \in Object \ {o} : msg'[p] = msg[p] /\ meant'[p] = meant[p]
  BY <1>1 DEF FrameTypes
<1>4. Owned'
  <2>1. \A b \in Block : heap'[b].allocated <=> \E p \in Object : Owns(msg'[p], b)
    BY <1>1, <1>3 DEF Sound, Others
  <2>2. \A p, q \in Object : p # q => \A b \in Block : ~ (Owns(msg'[p], b) /\ Owns(msg'[q], b))
    BY <1>3 DEF Sound, Others, Owned, Owns
  <2>3. \A p \in Object : msg'[p].dynamic_alloc => msg'[p].data \in Block
    BY <1>3 DEF Sound, Owned
  <2>4. QED
    BY <1>1, <2>1, <2>2, <2>3 DEF Owned, Owns
<1>5. Placed'
  <2>1. Fits(msg'[o], heap')
    BY <1>1, <1>3 DEF Sound
  <2>2. ASSUME NEW p \in Object \ {o}
        PROVE  Fits(msg'[p], heap')
    <3>1. Fits(msg[p], st.heap)
      BY OthersFit DEF Sound
    <3>2. QED
      BY <1>1, <1>3, <3>1
  <2>3. \A p \in Object :
          /\ msg'[p].kind \in {"none", "moved"} => ~ msg'[p].dynamic_alloc
          /\ msg'[p].kind # "moved" /\ ~ msg'[p].dynamic_alloc => msg'[p].data = Static
    BY <1>0, <1>3 DEF Placed, Sound
  <2>4. \A p \in Object : Fits(msg'[p], heap')
    BY <2>1, <2>2
  <2>5. QED
    BY <2>3, <2>4 DEF Placed
<1>6. FramesHold'
  <2>1. Holds(msg'[o], heap', meant'[o])
    BY <1>1, <1>3 DEF Holds, Get
  <2>2. ASSUME NEW p \in Object \ {o}
        PROVE  Holds(msg'[p], heap', meant'[p])
    <3>1. Holds(msg[p], st.heap, meant[p])
      BY OthersHold DEF Sound
    <3>2. QED
      BY <1>1, <1>3, <3>1
  <2>3. QED
    BY <2>1, <2>2, FramesHoldEach
<1>7. QED
  BY <1>2, <1>4, <1>5, <1>6

\* A destructor keeps the invariant.
LEMMA DestroySound ==
  ASSUME SoundFrames, NEW o \in Object, Destroy(o)
  PROVE  SoundFrames'
<1> USE DEF SoundFrames
<1> DEFINE st == Free(State(msg[o]))
<1>0. Freed(o, st)
  <2>1. CASE msg[o].kind = "moved"
    <3>1. msg[o] \in Message
      BY DEF FrameTypes
    <3>2. ~ msg[o].dynamic_alloc
      BY <2>1 DEF Placed
    <3>3. Freed(o, State(msg[o])) /\ st = State(msg[o])
      BY <3>1, <3>2, NewFreed DEF Free, State
    <3>4. QED
      BY <3>3
  <2>2. CASE msg[o].kind # "moved"
    BY <2>2, StateSound, FreeFreed
  <2>3. QED
    BY <2>1, <2>2
<1> HIDE DEF st
<1>1. /\ msg' = [msg EXCEPT ![o] = Dead] /\ meant' = [meant EXCEPT ![o] = NoContent]
      /\ heap' = st.heap /\ faulty' = st.faulty /\ failed' = st.failed
  BY <1>0 DEF Destroy, Into, st, Freed, MessageWithHeap
<1>2. Dead \in Message /\ NoContent \in Given
  BY LengthAssumption DEF Dead, NoContent, Message, Kind, Buffer, EmptyBuffer, Given
<1>3. st.heap \in Heap /\ st.failed = FALSE /\ st.faulty = FALSE
  BY <1>0 DEF Freed, MessageWithHeap
<1>4. FrameTypes'
  BY <1>1, <1>2, <1>3 DEF FrameTypes
<1>5. /\ msg'[o] = Dead /\ \A p \in Object \ {o} : msg'[p] = msg[p] /\ meant'[p] = meant[p]
      /\ ~ Dead.dynamic_alloc /\ Dead.data = Static /\ Dead.kind = "none"
  BY <1>1 DEF FrameTypes, Dead
<1>6. Owned'
  BY <1>0, <1>1, <1>3, <1>5 DEF Freed, Others, Owned, Owns
<1>7. Placed'
  <2>1. Fits(msg'[o], heap')
    BY <1>5 DEF Fits
  <2>2. ASSUME NEW p \in Object \ {o}
        PROVE  Fits(msg'[p], heap')
    <3>1. Fits(msg[p], st.heap)
      BY <1>0, OthersFit DEF Freed
    <3>2. QED
      BY <1>1, <1>5, <3>1
  <2>3. \A p \in Object :
          /\ msg'[p].kind \in {"none", "moved"} => ~ msg'[p].dynamic_alloc
          /\ msg'[p].kind # "moved" /\ ~ msg'[p].dynamic_alloc => msg'[p].data = Static
    BY <1>5 DEF Placed
  <2>4. \A p \in Object : Fits(msg'[p], heap')
    BY <2>1, <2>2
  <2>5. QED
    BY <2>3, <2>4 DEF Placed
<1>8. FramesHold'
  <2>1. Holds(msg'[o], heap', meant'[o])
    BY <1>5 DEF Holds
  <2>2. ASSUME NEW p \in Object \ {o}
        PROVE  Holds(msg'[p], heap', meant'[p])
    <3>1. Holds(msg[p], st.heap, meant[p])
      BY <1>0, OthersHold DEF Freed
    <3>2. QED
      BY <1>1, <1>5, <3>1
  <2>3. QED
    BY <2>1, <2>2, FramesHoldEach
<1>9. QED
  BY <1>4, <1>6, <1>7, <1>8

\* Moving a message keeps the invariant.
LEMMA MoveSound ==
  ASSUME SoundFrames, NEW o \in Object, NEW p \in Object, MoveProtocolMessage(o, p)
  PROVE  SoundFrames'
<1> USE DEF SoundFrames
<1> DEFINE old == [msg[o] EXCEPT !.kind = "moved", !.dynamic_alloc = FALSE]
           new == IF msg[o].dynamic_alloc THEN [msg[o] EXCEPT !.own = EmptyBuffer]
                  ELSE [msg[o] EXCEPT !.data = Static]
<1>0. o # p /\ msg[o].kind = "protocol" /\ msg[p].kind = "none" /\ msg[o] \in Message
  BY DEF MoveProtocolMessage, FrameTypes
<1>1. /\ msg' = [msg EXCEPT ![p] = new, ![o].kind = "moved", ![o].dynamic_alloc = FALSE]
      /\ meant' = [meant EXCEPT ![p] = meant[o], ![o] = NoContent]
      /\ UNCHANGED <<heap, failed, faulty>>
  BY DEF MoveProtocolMessage
<1>2. old \in Message /\ new \in Message /\ EmptyBuffer \in Buffer
  BY <1>0 DEF Message, Kind, Buffer, EmptyBuffer
<1>3. /\ old.kind = "moved" /\ ~ old.dynamic_alloc
      /\ new.kind = "protocol" /\ new.dynamic_alloc = msg[o].dynamic_alloc
      /\ new.length = msg[o].length
      /\ new.dynamic_alloc => new.data = msg[o].data
      /\ ~ new.dynamic_alloc => new.data = Static /\ new.own = msg[o].own
  BY <1>0 DEF Message
<1>4. /\ msg'[o] = old /\ msg'[p] = new
      /\ \A q \in Object \ {o, p} : msg'[q] = msg[q] /\ meant'[q] = meant[q]
      /\ meant'[p] = meant[o]
  BY <1>0, <1>1 DEF FrameTypes
<1>5. FrameTypes'
  <2>1. NoContent \in Given
    BY LengthAssumption DEF NoContent, Given
  <2>2. meant' \in [Object -> Given]
    BY <1>1, <2>1 DEF FrameTypes
  <2>3. msg' = [q \in Object |-> IF q = o THEN old ELSE IF q = p THEN new ELSE msg[q]]
    BY <1>0, <1>1 DEF FrameTypes
  <2>4. msg' \in [Object -> Message]
    BY <1>2, <2>3 DEF FrameTypes
  <2>5. QED
    BY <1>1, <2>2, <2>4 DEF FrameTypes
<1> HIDE DEF old, new
<1>6. /\ ~ msg[p].dynamic_alloc
      /\ msg[o].dynamic_alloc => msg[o].data \in Block
      /\ ~ msg[o].dynamic_alloc => msg[o].data = Static
  BY <1>0 DEF Owned, Placed
<1>7. Owned'
  <2>1. \A b \in Block : Owns(old, b) = FALSE /\ (Owns(new, b) <=> Owns(msg[o], b))
                         /\ ~ Owns(msg[p], b)
    BY <1>3, <1>6 DEF Owns
  <2>2. ASSUME NEW b \in Block
        PROVE  heap'[b].allocated <=> \E q \in Object : Owns(msg'[q], b)
    <3>1. (\E q \in Object : Owns(msg'[q], b)) <=> \E q \in Object : Owns(msg[q], b)
      <4>1. \A q \in Object : q # o /\ q # p => (Owns(msg'[q], b) <=> Owns(msg[q], b))
        BY <1>4
      <4>2. ~ Owns(msg'[o], b) /\ (Owns(msg'[p], b) <=> Owns(msg[o], b)) /\ ~ Owns(msg[p], b)
        BY <1>4, <2>1
      <4>3. QED
        BY <4>1, <4>2
    <3>2. QED
      BY <1>1, <3>1 DEF Owned
  <2>3. \A q, r \in Object : q # r => \A b \in Block : ~ (Owns(msg'[q], b) /\ Owns(msg'[r], b))
    BY <1>0, <1>4, <2>1 DEF Owned
  <2>4. \A q \in Object : msg'[q].dynamic_alloc => msg'[q].data \in Block
    BY <1>3, <1>4, <1>6 DEF Owned
  <2>5. QED
    BY <1>1, <2>2, <2>3, <2>4 DEF Owned
<1>8. Placed'
  <2>1. \A q \in Object :
          /\ msg'[q].kind \in {"none", "moved"} => ~ msg'[q].dynamic_alloc
          /\ msg'[q].kind # "moved" /\ ~ msg'[q].dynamic_alloc => msg'[q].data = Static
    BY <1>3, <1>4 DEF Placed
  <2>2. Fits(msg'[o], heap')
    BY <1>3, <1>4 DEF Fits
  <2>3. Fits(msg'[p], heap')
    <3>1. Fits(msg[o], heap)
      BY DEF Placed
    <3>2. Overhead(new) = Overhead(msg[o])
      BY <1>0, <1>3 DEF Overhead
    <3>3. QED
      BY <1>1, <1>3, <1>4, <3>1, <3>2 DEF Fits
  <2>4. \A q \in Object \ {o, p} : Fits(msg'[q], heap')
    BY <1>1, <1>4 DEF Placed
  <2>5. \A q \in Object : Fits(msg'[q], heap')
    BY <2>2, <2>3, <2>4
  <2>6. QED
    BY <2>1, <2>5 DEF Placed
<1>9. FramesHold'
  <2>1. Holds(msg[o], heap, meant[o])
    BY FramesHoldEach
  <2>2. Holds(old, heap, meant'[o]) /\ Holds(new, heap, meant[o])
    BY <1>0, <1>3, <1>6, <2>1, BlockAssumption DEF Holds
  <2>3. \A q \in Object \ {o, p} : Holds(msg[q], heap, meant[q])
    BY FramesHoldEach
  <2>4. QED
    BY <1>1, <1>4, <2>2, <2>3, FramesHoldEach
<1>10. QED
  BY <1>5, <1>7, <1>8, <1>9

\* A message as the constructors make it.
LEMMA NewMessageType ==
  ASSUME NEW k \in {"protocol", "read", "tagged"}
  PROVE  NewMessage(k) \in Message /\ NewMessage(k).kind = k
BY DEF NewMessage, Dead, Message, Kind, Buffer, EmptyBuffer

\* What a message takes in its buffer.
LEMMA NeededType ==
  ASSUME NEW m \in Message
  PROVE  /\ Overhead(m) + m.length \in Nat
         /\ m.kind # "tagged" => header_length <= Overhead(m) + m.length
BY DEF Message, Overhead, header_length

\* The header is written into the buffer of o.
LEMMA EncodeHeader ==
  ASSUME NEW o \in Object, NEW st, Sound(o, st), NEW n \in Nat, n < Half, st.m.kind # "tagged"
  PROVE  /\ Sound(o, encode_header(st, n))
         /\ Get(encode_header(st, n)).header = n
         /\ encode_header(st, n).m.length = st.m.length
         /\ encode_header(st, n).m.kind = st.m.kind
<1> DEFINE c == [Get(st) EXCEPT !.header = n]
<1>1. Get(st) \in Buffer /\ st.m \in Message
  BY GetType DEF Sound
<1>2. c \in Buffer /\ c.header = n
  BY <1>1 DEF Buffer
<1>3. encode_header(st, n) = Put(st, c, header_length)
  BY SizesKept DEF encode_header
<1> HIDE DEF c
<1>4. header_length \in Nat /\ header_length <= Overhead(st.m) + st.m.length
  BY <1>1, NeededType DEF header_length
<1>5. QED
  BY <1>2, <1>3, <1>4, PutSound

\* The body is written into the buffer of o.
LEMMA FillBody ==
  ASSUME NEW o \in Object, NEW st, Sound(o, st), NEW d \in Content \cup {0}
  PROVE  LET r == PutBody(st, d)
         IN /\ Sound(o, r)
            /\ Get(r).header = Get(st).header /\ Get(r).body = d
            /\ r.m.length = st.m.length /\ r.m.kind = st.m.kind
<1> DEFINE c == [Get(st) EXCEPT !.body = d]
           n == Overhead(st.m) + st.m.length
<1>1. Get(st) \in Buffer /\ st.m \in Message
  BY GetType DEF Sound
<1>2. c \in Buffer /\ c.header = Get(st).header /\ c.body = d
  BY <1>1 DEF Buffer
<1>3. n \in Nat
  BY <1>1, NeededType
<1>4. PutBody(st, d) = Put(st, c, n)
  BY DEF PutBody
<1> HIDE DEF c
<1>5. /\ Sound(o, Put(st, c, n)) /\ Get(Put(st, c, n)) = c
      /\ Put(st, c, n).m.length = st.m.length /\ Put(st, c, n).m.kind = st.m.kind
  BY <1>2, <1>3, PutSound
<1>6. QED
  BY <1>2, <1>4, <1>5

\* Lengths that the controller makes, and those of headers that fit an int.
LEMMA LengthsFit ==
  /\ \A n \in Length : n \in Nat /\ n < Half
  /\ \A n \in Header : n \in Nat
BY LengthAssumption

\* A message to an agent, from its constructor to its body.
LEMMA NewProtocolSound ==
  ASSUME SoundFrames, NEW o \in Object, NEW n \in Length, NEW c \in Content,
         NewProtocolMessage(o, n, c)
  PROVE  SoundFrames'
<1> DEFINE a == Free(State(NewMessage("protocol")))
           b == Allocate(a, n)
           d == encode_header(b, n)
           e == PutBody(d, c)
<1>1. ~ msg[o].dynamic_alloc /\ Room /\ n \in Nat /\ n < Half
  BY LengthsFit DEF NewProtocolMessage, SoundFrames, Placed
<1>2. Into(o, e, [length |-> n, body |-> c])
  BY DEF NewProtocolMessage, set_message, set_body_length
<1>3. a = State(NewMessage("protocol")) /\ a.m.kind = "protocol"
  BY NewMessageType DEF Free, State, NewMessage, Dead
<1>4. Freed(o, a)
  BY <1>1, <1>3, NewMessageType, NewFreed
<1> HIDE DEF a
<1>5. Sound(o, b) /\ b.m.length = n /\ b.m.kind = "protocol"
  BY <1>1, <1>3, <1>4, AllocateSound DEF SoundFrames
<1> HIDE DEF b
<1>6. Sound(o, d) /\ Get(d).header = n /\ d.m.length = n /\ d.m.kind = "protocol"
  BY <1>1, <1>5, EncodeHeader
<1> HIDE DEF d
<1>7. /\ Sound(o, e) /\ Get(e).header = n /\ Get(e).body = c /\ e.m.length = n
      /\ e.m.kind = "protocol"
  BY <1>6, FillBody
<1> HIDE DEF e
<1>8. [length |-> n, body |-> c] \in Given
  BY <1>1 DEF Given
<1>9. QED
  BY <1>2, <1>7, <1>8, IntoSound

\* A message that is read, into a buffer used before or not, with a header that fits an int.
LEMMA ReadSound ==
  ASSUME SoundFrames, NEW o \in Object, NEW n \in Header, NEW c \in Content,
         ReadMessage(o, n, c), n < Half
  PROVE  SoundFrames'
<1> DEFINE m == IF msg[o].kind = "none" THEN NewMessage("read") ELSE msg[o]
           r == encode_header(State(m), n)
           a == Free(r)
           b == Allocate(a, n)
           d == encode_header(b, n)
           e == PutBody(d, c)
<1>1. Room /\ n \in Nat /\ msg[o].kind \in {"none", "read"}
  BY LengthsFit DEF ReadMessage
<1>a. Into(o, PutBody(decode_header(State(m), n), c), [length |-> n, body |-> c])
  BY DEF ReadMessage
<1>2. Sound(o, State(m)) /\ m.kind = "read" /\ State(m).m = m
  <2>1. CASE msg[o].kind = "none"
    <3>1. m = NewMessage("read") /\ m \in Message /\ m.kind = "read" /\ ~ msg[o].dynamic_alloc
      BY <2>1, NewMessageType DEF SoundFrames, Placed
    <3>2. ~ m.dynamic_alloc /\ m.data = Static
      BY <3>1 DEF NewMessage, Dead
    <3>3. Freed(o, State(m)) /\ State(m).m = m
      BY <3>1, NewFreed DEF State
    <3> HIDE DEF m
    <3>4. QED
      BY <3>1, <3>2, <3>3 DEF Freed, Sound, Owns, Fits
  <2>2. CASE msg[o].kind = "read"
    BY <2>2, StateSound DEF State
  <2>3. QED
    BY <1>1, <2>1, <2>2
<1> HIDE DEF m
<1>3. Sound(o, r) /\ Get(r).header = n /\ r.m.kind = "read"
  BY <1>1, <1>2, EncodeHeader
<1>4. d = decode_header(State(m), n)
  <2>1. AsSize(Get(r).header) = n
    BY <1>1, <1>3, SizesKept
  <2>2. QED
    BY <2>1 DEF decode_header, set_body_length
<1> HIDE DEF r
<1>5. Freed(o, a) /\ a.m.kind = "read"
  BY <1>3, FreeFreed
<1> HIDE DEF a
<1>6. Sound(o, b) /\ b.m.length = n /\ b.m.kind = "read"
  BY <1>1, <1>5, AllocateSound DEF SoundFrames
<1> HIDE DEF b
<1>7. Sound(o, d) /\ Get(d).header = n /\ d.m.length = n /\ d.m.kind = "read"
  BY <1>1, <1>6, EncodeHeader
<1> HIDE DEF d
<1>8. /\ Sound(o, e) /\ Get(e).header = n /\ Get(e).body = c /\ e.m.length = n
      /\ e.m.kind = "read"
  BY <1>7, FillBody
<1>9. Into(o, e, [length |-> n, body |-> c])
  BY <1>a, <1>4
<1> HIDE DEF e
<1>10. [length |-> n, body |-> c] \in Given
  BY <1>1 DEF Given
<1>11. QED
  BY <1>8, <1>9, <1>10, IntoSound

\* A tagged message in the place of o gets its content.
LEMMA TaggedSound ==
  ASSUME SoundFrames, Room, NEW o \in Object, NEW a, Freed(o, a), a.m.kind = "tagged",
         NEW given \in Given, Into(o, PutBody(Allocate(a, given.length), given.body), given)
  PROVE  SoundFrames'
<1> DEFINE b == Allocate(a, given.length)
           e == PutBody(b, given.body)
<1>1. given.length \in Nat /\ given.length < Half /\ given.body \in Content \cup {0}
  BY DEF Given
<1>2. Sound(o, b) /\ b.m.length = given.length /\ b.m.kind = "tagged"
  BY <1>1, AllocateSound DEF SoundFrames
<1> HIDE DEF b
<1>3. Sound(o, e) /\ Get(e).body = given.body /\ e.m.length = given.length /\ e.m.kind = "tagged"
  BY <1>1, <1>2, FillBody
<1>4. Into(o, e, given)
  BY DEF b
<1> HIDE DEF e
<1>5. QED
  BY <1>3, <1>4, IntoSound

\* A tagged message is copied with the length and body that were meant.
LEMMA CopiedAsMeant ==
  ASSUME SoundFrames, NEW o \in Object, msg[o].kind = "tagged"
  PROVE  /\ msg[o].length = meant[o].length /\ Get(State(msg[o])).body = meant[o].body
         /\ meant[o] \in Given
BY DEF SoundFrames, FramesHold, FrameTypes

\* Every step keeps the invariant.
LEMMA FramesStep ==
  ASSUME FrameIInv, FrameNext
  PROVE  FrameIInv'
<1>1. sane' \in BOOLEAN /\ (sane' => sane)
  <2>1. sane' = sane \/ \E n \in Header : sane' = (sane /\ n < Half)
    BY DEF FrameNext, NewProtocolMessage, ReadMessage, NewTaggedMessage,
           MoveProtocolMessage, CopyTaggedMessage, AssignTaggedMessage, Destroy
  <2>2. ASSUME NEW n \in Header, sane' = (sane /\ n < Half)
        PROVE  sane' \in BOOLEAN /\ (sane' => sane)
    BY <2>2, Zenon DEF FrameIInv
  <2>3. ASSUME sane' = sane
        PROVE  sane' \in BOOLEAN /\ (sane' => sane)
    BY <2>3 DEF FrameIInv
  <2>4. QED
    BY <2>1, <2>2, <2>3
<1>2. SUFFICES ASSUME sane' PROVE SoundFrames'
  BY <1>1 DEF FrameIInv
<1>3. SoundFrames
  BY <1>1, <1>2 DEF FrameIInv
<1>4. ASSUME NEW o \in Object, NEW n \in Length, NEW c \in Content, NewProtocolMessage(o, n, c)
      PROVE  SoundFrames'
  BY <1>3, <1>4, NewProtocolSound
<1>5. ASSUME NEW o \in Object, NEW n \in Header, NEW c \in Content, ReadMessage(o, n, c)
      PROVE  SoundFrames'
  <2>1. n < Half
    BY <1>2, <1>5 DEF ReadMessage
  <2>2. QED
    BY <1>3, <1>5, <2>1, ReadSound
<1>6. ASSUME NEW o \in Object, NEW n \in Length, NEW c \in Content, NewTaggedMessage(o, n, c)
      PROVE  SoundFrames'
  <2> DEFINE a == State(NewMessage("tagged"))
             given == [length |-> n, body |-> c]
  <2>1. /\ ~ msg[o].dynamic_alloc /\ Room
        /\ Into(o, PutBody(Allocate(a, given.length), given.body), given)
    BY <1>3, <1>6 DEF NewTaggedMessage, SoundFrames, Placed
  <2>2. given \in Given
    BY LengthsFit DEF Given
  <2>3. Freed(o, a) /\ a.m.kind = "tagged"
    BY <1>3, <2>1, NewMessageType, NewFreed DEF State
  <2> HIDE DEF a, given
  <2>4. QED
    BY <1>3, <2>1, <2>2, <2>3, TaggedSound
<1>7. ASSUME NEW o \in Object, NEW p \in Object, MoveProtocolMessage(o, p)
      PROVE  SoundFrames'
  BY <1>3, <1>7, MoveSound
<1>8. ASSUME NEW o \in Object, NEW p \in Object, CopyTaggedMessage(o, p)
      PROVE  SoundFrames'
  <2> DEFINE a == State(NewMessage("tagged"))
  <2>1. /\ ~ msg[p].dynamic_alloc /\ Room /\ msg[o].kind = "tagged"
        /\ Into(p, PutBody(Allocate(a, msg[o].length), Get(State(msg[o])).body), meant[o])
    BY <1>3, <1>8 DEF CopyTaggedMessage, SoundFrames, Placed
  <2>2. Freed(p, a) /\ a.m.kind = "tagged"
    BY <1>3, <2>1, NewMessageType, NewFreed DEF State
  <2> HIDE DEF a
  <2>3. /\ msg[o].length = meant[o].length /\ Get(State(msg[o])).body = meant[o].body
        /\ meant[o] \in Given
    BY <1>3, <2>1, CopiedAsMeant
  <2>4. Into(p, PutBody(Allocate(a, meant[o].length), meant[o].body), meant[o])
    BY <2>1, <2>3
  <2>5. QED
    BY <1>3, <2>1, <2>2, <2>3, <2>4, TaggedSound
<1>9. ASSUME NEW o \in Object, NEW p \in Object, AssignTaggedMessage(o, p)
      PROVE  SoundFrames'
  <2> DEFINE a == Free(State(msg[p]))
  <2>1. /\ Room /\ msg[o].kind = "tagged" /\ msg[p].kind = "tagged"
        /\ Into(p, PutBody(Allocate(a, msg[o].length), Get(State(msg[o])).body), meant[o])
    BY <1>9 DEF AssignTaggedMessage
  <2>2. Freed(p, a) /\ a.m.kind = "tagged"
    BY <1>3, <2>1, StateSound, FreeFreed DEF State
  <2> HIDE DEF a
  <2>3. /\ msg[o].length = meant[o].length /\ Get(State(msg[o])).body = meant[o].body
        /\ meant[o] \in Given
    BY <1>3, <2>1, CopiedAsMeant
  <2>4. Into(p, PutBody(Allocate(a, meant[o].length), meant[o].body), meant[o])
    BY <2>1, <2>3
  <2>5. QED
    BY <1>3, <2>1, <2>2, <2>3, <2>4, TaggedSound
<1>10. ASSUME NEW o \in Object, Destroy(o)
       PROVE  SoundFrames'
  BY <1>3, <1>10, DestroySound
<1>11. QED
  BY <1>4, <1>5, <1>6, <1>7, <1>8, <1>9, <1>10 DEF FrameNext

\* No message frees or writes a buffer that is another's or that is freed, none writes
\* beyond the end of its buffer, and no buffer leaks, whatever headers come in that an int
\* holds (BuffersSound: protocol_message, tagged_message and their buffers).
THEOREM BuffersStaySound == FrameSpec => []BuffersSound
<1>1. FrameInit => FrameIInv
  <2>1. SUFFICES ASSUME FrameInit
                 PROVE  FrameTypes /\ Owned /\ Placed /\ FramesHold /\ sane = TRUE
    BY DEF FrameIInv, SoundFrames
  <2>a. EmptyBuffer \in Buffer /\ Dead \in Message /\ NoContent \in Given
    BY LengthAssumption DEF Dead, NoContent, Message, Kind, Buffer, EmptyBuffer, Given
  <2>b. /\ msg = [o \in Object |-> Dead] /\ meant = [o \in Object |-> NoContent]
        /\ heap = [b \in Block |-> [allocated |-> FALSE, bytes |-> 0, content |-> EmptyBuffer]]
        /\ failed = FALSE /\ faulty = FALSE /\ sane = TRUE
    BY <2>1, Zenon DEF FrameInit
  <2>2. FrameTypes /\ sane = TRUE
    BY <2>a, <2>b DEF FrameTypes, Heap
  <2>c. ~ Dead.dynamic_alloc /\ Dead.data = Static /\ Dead.kind = "none"
    BY DEF Dead
  <2>3. Owned /\ Placed /\ FramesHold
    BY <2>b, <2>c DEF Owned, Owns, Placed, Fits, FramesHold
  <2>4. QED
    BY <2>2, <2>3
<1>2. FrameIInv /\ [FrameNext]_frameVars => FrameIInv'
  <2>1. ASSUME FrameIInv, UNCHANGED frameVars
        PROVE  FrameIInv'
    BY <2>1 DEF frameVars, FrameIInv, SoundFrames, FrameTypes, Owned, Placed, FramesHold, State,
         Get, Fits
  <2>2. QED
    BY <2>1, FramesStep
<1>3. FrameIInv => BuffersSound
  <2>1. SUFFICES ASSUME SoundFrames, NEW b \in Block
                 PROVE  Cardinality({o \in Object : Owns(msg[o], b)})
                          = IF heap[b].allocated THEN 1 ELSE 0
    BY DEF FrameIInv, SoundFrames, BuffersSound, BlocksOwned, Owned, Owns
  <2>2. CASE heap[b].allocated
    <3>1. PICK o \in Object : Owns(msg[o], b)
      BY <2>1, <2>2 DEF SoundFrames, Owned
    <3>2. {p \in Object : Owns(msg[p], b)} = {o}
      BY <2>1, <3>1 DEF SoundFrames, Owned
    <3>3. QED
      BY <2>2, <3>2, FS_Singleton
  <2>3. CASE ~ heap[b].allocated
    <3>1. {p \in Object : Owns(msg[p], b)} = {}
      BY <2>1, <2>3 DEF SoundFrames, Owned
    <3>2. QED
      BY <2>3, <3>1, FS_EmptySet
  <2>4. QED
    BY <2>2, <2>3
<1>4. QED
  BY <1>1, <1>2, <1>3, PTL DEF FrameSpec

(*****************************************************************************)
(* MacStatistics: the messages in flight                                     *)
(*****************************************************************************)
\* What somebody who knows f of the UEs, or a of everything, knows after message m.
UesAfter(f, m) ==
  IF m.type = "deactivated" THEN WithoutUe(f, m.rnti)
  ELSE IF m.type = "activated" THEN IF m.rnti \in UesOf(f) THEN f ELSE With(f, m.rnti, NewUe)
  ELSE IF m.type = "stats"
       THEN [r \in DOMAIN f |->
               IF r \in UesOf(m.ues)
               THEN update_mac_stats_report(f[r], m.ues[r].flags, m.ues[r].value) ELSE f[r]]
       ELSE [r \in DOMAIN f |-> IF r = m.rnti THEN update_dl_sf_info(f[r], m.harq, m.status)
                                ELSE f[r]]

\* What message m makes of what is known.
After(a, m) ==
  [ues |-> UesAfter(a.ues, m),
   cell |-> IF m.type = "stats" /\ m.cell # 0 THEN m.cell ELSE a.cell,
   at |-> IF m.type = "trigger"
          THEN [frame |-> get_frame(m.sfn_sf), subframe |-> get_subframe(m.sfn_sf)] ELSE a.at]

\* What the agent knows, and what the RIB knows.
AgentKnows == [ues |-> ue_stats, cell |-> cell, at |-> now]
RibKnows == [ues |-> ue_mac_info, cell |-> cell_mac_info, at |-> current]

\* The messages of q take a to b, over the states s.
Leads(s, q, a, b) ==
  /\ s[0] = a /\ s[Len(q)] = b
  /\ \A i \in 1..Len(q) : s[i] = After(s[i - 1], q[i])

\* The inductive invariant: the messages in flight lead from what the RIB knows to
\* what the agent knows.
MacIInv ==
  /\ \E S : msgs \in Seq(S)
  /\ \E s : Leads(s, msgs, RibKnows, AgentKnows)
  /\ ue_stats = [r \in DOMAIN ue_stats |-> ue_stats[r]]

\* One more message at the end leads one state further.
LEMMA LeadsFurther ==
  ASSUME NEW S, NEW q \in Seq(S), NEW s, NEW a, NEW b, Leads(s, q, a, b), NEW m
  PROVE  /\ Append(q, m) \in Seq(S \cup {m})
         /\ \E t : Leads(t, Append(q, m), a, After(b, m))
<1> DEFINE p == Append(q, m)
           t == [i \in 0..Len(p) |-> IF i = Len(p) THEN After(b, m) ELSE s[i]]
<1>1. q \in Seq(S \cup {m})
  OBVIOUS
<1>2. p \in Seq(S \cup {m}) /\ Len(p) = Len(q) + 1 /\ p[Len(q) + 1] = m
      /\ \A i \in 1..Len(q) : p[i] = q[i]
  BY <1>1
<1> HIDE DEF p
<1>3. t[0] = a /\ t[Len(p)] = After(b, m)
  BY <1>2 DEF Leads
<1>4. ASSUME NEW i \in 1..Len(p)
      PROVE  t[i] = After(t[i - 1], p[i])
  <2>1. i - 1 \in 0..Len(q) /\ t[i - 1] = s[i - 1]
    BY <1>2, <1>4
  <2>2. CASE i = Len(q) + 1
    <3>1. t[i] = After(b, m) /\ s[i - 1] = b /\ p[i] = m
      BY <1>2, <2>2 DEF Leads
    <3>2. QED
      BY <2>1, <3>1
  <2>3. CASE i \in 1..Len(q)
    BY <1>2, <2>1, <2>3 DEF Leads
  <2>4. QED
    BY <1>2, <1>4, <2>2, <2>3
<1>5. Leads(t, p, a, After(b, m))
  BY <1>3, <1>4 DEF Leads
<1>6. QED
  BY <1>2, <1>5 DEF p

\* The first message is handled: the others lead on from where it led.
LEMMA LeadsOn ==
  ASSUME NEW S, NEW q \in Seq(S), q # <<>>, NEW s, NEW a, NEW b, Leads(s, q, a, b)
  PROVE  /\ Tail(q) \in Seq(S)
         /\ \E t : Leads(t, Tail(q), After(a, Head(q)), b)
<1> DEFINE p == Tail(q)
           t == [i \in 0..Len(p) |-> s[i + 1]]
<1>1. p \in Seq(S) /\ Len(q) = Len(p) + 1 /\ Head(q) = q[1] /\ \A i \in 1..Len(p) : p[i] = q[i + 1]
  OBVIOUS
<1> HIDE DEF p
<1>2. t[0] = After(a, Head(q)) /\ t[Len(p)] = b
  BY <1>1 DEF Leads
<1>3. ASSUME NEW i \in 1..Len(p)
      PROVE  t[i] = After(t[i - 1], p[i])
  <2>1. t[i] = s[i + 1] /\ t[i - 1] = s[i] /\ i + 1 \in 1..Len(q) /\ (i + 1) - 1 = i
    BY <1>1
  <2>2. QED
    BY <1>1, <2>1 DEF Leads
<1>4. Leads(t, p, After(a, Head(q)), b)
  BY <1>2, <1>3 DEF Leads
<1>5. QED
  BY <1>1, <1>4 DEF p

\* Frame and subframe are what they were when they come out of the message.
LEMMA FrameAndSubframe ==
  ASSUME NEW f \in Frame, NEW s \in Subframe
  PROVE  get_frame(get_sfn_sf(f, s)) = f /\ get_subframe(get_sfn_sf(f, s)) = s
<1>1. f \in 0..1023 /\ s \in 0..9
  BY FrameAssumption DEF Subframe
<1>2. get_sfn_sf(f, s) = f * 16 + s
  BY <1>1 DEF get_sfn_sf
<1>3. QED
  BY <1>1, <1>2 DEF get_frame, get_subframe

\* The agent knows itself what it sends.
LEMMA AgentSendsWhatItKnows ==
  ASSUME MacIInv, NEW m, AgentSends(m), AgentKnows' = After(AgentKnows, m),
         ue_stats' = [r \in DOMAIN ue_stats' |-> ue_stats'[r]]
  PROVE  MacIInv'
<1>1. PICK S : msgs \in Seq(S)
  BY DEF MacIInv
<1>2. PICK s : Leads(s, msgs, RibKnows, AgentKnows)
  BY DEF MacIInv
<1>3. msgs' = Append(msgs, m) /\ RibKnows' = RibKnows
  BY DEF AgentSends, RibKnows
<1>4. /\ msgs' \in Seq(S \cup {m})
      /\ \E t : Leads(t, msgs', RibKnows, After(AgentKnows, m))
  BY <1>1, <1>2, <1>3, LeadsFurther
<1>5. QED
  BY <1>3, <1>4 DEF MacIInv

\* The RIB handles a message.
LEMMA RibFollows ==
  ASSUME MacIInv, RibHandles
  PROVE  MacIInv'
<1> DEFINE m == Head(msgs)
<1>1. PICK S : msgs \in Seq(S)
  BY DEF MacIInv
<1>2. PICK s : Leads(s, msgs, RibKnows, AgentKnows)
  BY DEF MacIInv
<1>3. msgs # <<>> /\ msgs' = Tail(msgs) /\ AgentKnows' = AgentKnows /\ ue_stats' = ue_stats
  BY DEF RibHandles, AgentKnows
<1>4. RibKnows' = After(RibKnows, m)
  <2>1. CASE m.type \in {"activated", "deactivated"} /\ update_UE_config(m)
    BY <2>1 DEF update_UE_config, RibKnows, After, UesAfter
  <2>2. CASE m.type = "stats" /\ update_mac_stats(m)
    BY <2>2 DEF update_mac_stats, update_cell_stats_report, RibKnows, After, UesAfter
  <2>3. CASE m.type = "trigger" /\ update_subframe(m)
    BY <2>3 DEF update_subframe, RibKnows, After, UesAfter
  <2>4. QED
    BY <2>1, <2>2, <2>3 DEF RibHandles
<1> HIDE DEF m
<1>5. msgs' \in Seq(S) /\ \E t : Leads(t, msgs', After(RibKnows, m), AgentKnows)
  BY <1>1, <1>2, <1>3, LeadsOn DEF m
<1>6. QED
  BY <1>3, <1>4, <1>5 DEF MacIInv

\* Every step of the agent keeps the invariant.
LEMMA AgentSteps ==
  ASSUME MacIInv, MacNext, ~ RibHandles
  PROVE  MacIInv'
<1>1. ASSUME NEW r \in Rnti, UeComes(r)
      PROVE  MacIInv'
  <2> DEFINE m == [type |-> "activated", rnti |-> r]
  <2>1. AgentSends(m) /\ ue_stats' = With(ue_stats, r, NewUe) /\ UNCHANGED <<cell, now>>
        /\ r \notin UesOf(ue_stats)
    BY <1>1 DEF UeComes
  <2>2. AgentKnows' = After(AgentKnows, m)
    BY <2>1 DEF AgentKnows, After, UesAfter
  <2>3. ue_stats' = [x \in DOMAIN ue_stats' |-> ue_stats'[x]]
    BY <2>1 DEF With
  <2>4. QED
    BY <2>1, <2>2, <2>3, AgentSendsWhatItKnows
<1>2. ASSUME NEW r \in Rnti, UeGoes(r)
      PROVE  MacIInv'
  <2> DEFINE m == [type |-> "deactivated", rnti |-> r]
  <2>1. AgentSends(m) /\ ue_stats' = WithoutUe(ue_stats, r) /\ UNCHANGED <<cell, now>>
    BY <1>2 DEF UeGoes
  <2>2. AgentKnows' = After(AgentKnows, m)
    BY <2>1 DEF AgentKnows, After, UesAfter
  <2>3. ue_stats' = [x \in DOMAIN ue_stats' |-> ue_stats'[x]]
    BY <2>1 DEF WithoutUe
  <2>4. QED
    BY <2>1, <2>2, <2>3, AgentSendsWhatItKnows
<1>3. ASSUME NEW flags \in SUBSET Group, NEW v \in Value, NEW c \in {0} \cup Value,
             ReportStats(flags, v, c)
      PROVE  MacIInv'
  <2> DEFINE u == [r \in DOMAIN ue_stats |-> [flags |-> flags, value |-> v]]
             m == [type |-> "stats", cell |-> c, ues |-> u]
  <2>1. /\ AgentSends(m) /\ cell' = (IF c = 0 THEN cell ELSE c) /\ UNCHANGED now
        /\ ue_stats' = [r \in DOMAIN ue_stats |-> update_mac_stats_report(ue_stats[r], flags, v)]
    BY <1>3 DEF ReportStats, update_mac_stats_report
  <2>2. \A r \in DOMAIN ue_stats : r \in UesOf(m.ues) /\ m.ues[r].flags = flags
                                   /\ m.ues[r].value = v
    BY DEF UesOf
  <2>3. m.type = "stats" /\ m.cell = c
    OBVIOUS
  <2> HIDE DEF m
  <2>4. ue_stats' = UesAfter(ue_stats, m)
    BY <2>1, <2>2, <2>3 DEF UesAfter
  <2>5. AgentKnows' = After(AgentKnows, m)
    BY <2>1, <2>3, <2>4 DEF AgentKnows, After
  <2>6. ue_stats' = [x \in DOMAIN ue_stats' |-> ue_stats'[x]]
    BY <2>1
  <2>7. QED
    BY <2>1, <2>5, <2>6, AgentSendsWhatItKnows
<1>4. ASSUME NEW f \in Frame, NEW s \in Subframe, NEW r \in Rnti, NEW h \in Harq,
             NEW st \in {Ack, Nack}, TriggerSubframe(f, s, r, h, st)
      PROVE  MacIInv'
  <2> DEFINE m == [type |-> "trigger", sfn_sf |-> get_sfn_sf(f, s), rnti |-> r, harq |-> h,
                   status |-> st]
  <2>1. /\ AgentSends(m) /\ UNCHANGED cell /\ r \in DOMAIN ue_stats
        /\ now' = [frame |-> f, subframe |-> s]
        /\ ue_stats' = [ue_stats EXCEPT ![r].harq[h] = st]
    BY <1>4 DEF TriggerSubframe, UesOf
  <2>2. /\ m.type = "trigger" /\ m.sfn_sf = get_sfn_sf(f, s) /\ m.rnti = r /\ m.harq = h
        /\ m.status = st
    OBVIOUS
  <2> HIDE DEF m
  <2>3. ue_stats' = [x \in DOMAIN ue_stats |->
                       IF x = r THEN update_dl_sf_info(ue_stats[x], h, st) ELSE ue_stats[x]]
    BY <2>1 DEF MacIInv, update_dl_sf_info
  <2>4. ue_stats' = UesAfter(ue_stats, m)
    BY <2>2, <2>3 DEF UesAfter
  <2>5. AgentKnows' = After(AgentKnows, m)
    BY <2>1, <2>2, <2>4, FrameAndSubframe DEF AgentKnows, After
  <2>6. ue_stats' = [x \in DOMAIN ue_stats' |-> ue_stats'[x]]
    BY <2>3
  <2>7. QED
    BY <2>1, <2>5, <2>6, AgentSendsWhatItKnows
<1>5. QED
  BY <1>1, <1>2, <1>3, <1>4 DEF MacNext

\* With no message in flight, the RIB has the statistics and the subframe of the agent
\* (SettledStats: ue_mac_rib_info and cell_mac_rib_info, updated message by message).
THEOREM StatisticsSettle == MacSpec => []SettledStats
<1>1. MacInit => MacIInv
  <2>1. SUFFICES ASSUME MacInit
                 PROVE  MacIInv
    OBVIOUS
  <2>2. msgs \in Seq({}) /\ Len(msgs) = 0 /\ RibKnows = AgentKnows
    BY <2>1 DEF MacInit, RibKnows, AgentKnows
  <2>3. Leads([i \in {0} |-> AgentKnows], msgs, RibKnows, AgentKnows)
    BY <2>2 DEF Leads
  <2>4. ue_stats = [r \in DOMAIN ue_stats |-> ue_stats[r]]
    BY <2>1 DEF MacInit
  <2>5. QED
    BY <2>2, <2>3, <2>4 DEF MacIInv
<1>2. MacIInv /\ [MacNext]_macVars => MacIInv'
  <2>1. ASSUME MacIInv, UNCHANGED macVars
        PROVE  MacIInv'
    BY <2>1 DEF macVars, MacIInv, RibKnows, AgentKnows
  <2>2. QED
    BY <2>1, AgentSteps, RibFollows
<1>3. MacIInv => SettledStats
  <2>1. SUFFICES ASSUME MacIInv, msgs = <<>>
                 PROVE  ue_mac_info = ue_stats /\ cell_mac_info = cell /\ current = now
    BY DEF SettledStats
  <2>2. PICK s : Leads(s, msgs, RibKnows, AgentKnows)
    BY <2>1 DEF MacIInv
  <2>3. RibKnows = AgentKnows
    BY <2>1, <2>2 DEF Leads
  <2>4. QED
    BY <2>3 DEF RibKnows, AgentKnows
<1>4. QED
  BY <1>1, <1>2, <1>3, PTL DEF MacSpec

(*****************************************************************************)
(* ElasticSearch: the slots connected                                        *)
(*****************************************************************************)
\* A set of numbers has a least one.
LEMMA LeastNumber ==
  ASSUME NEW T, T \subseteq Nat, T # {}
  PROVE  \E x \in T : \A y \in T : x <= y
<1> DEFINE R == OpToRel(<, Nat)
<1>1. \A x, y \in Nat : x < y => <<x, y>> \in R
  BY DEF OpToRel
<1>2. IsWellFoundedOn(R, Nat)
  BY NatLessThanWellFounded
<1> HIDE DEF R
<1>3. \E x \in T : \A y \in T : ~ (<<y, x>> \in R)
  BY <1>2, WFMin
<1>4. PICK x \in T : \A y \in T : ~ (<<y, x>> \in R)
  BY <1>3
<1>5. \A y \in T : ~ (y < x)
  BY <1>1, <1>4
<1>6. \A y \in T : x <= y
  BY <1>5
<1>7. QED
  BY <1>6

\* k numbers from 1 on, the last one n, are not among the used ones.
LEMMA FreshExists ==
  ASSUME NEW used, IsFiniteSet(used), NEW k \in Nat \ {0}
  PROVE  \E n \in 1..(Cardinality(used) + k) :
           n \notin used /\ Cardinality((1..n) \ used) = k
<1> DEFINE Unused(n) == (1..n) \ used
           N == Cardinality(used) + k
           T == {n \in Nat : n <= N /\ Cardinality(Unused(n)) >= k}
<1>1. \A n \in Nat : IsFiniteSet(1..n) /\ IsFiniteSet(Unused(n)) /\ Cardinality(Unused(n)) \in Nat
  <2>1. TAKE n \in Nat
  <2>2. IsFiniteSet(1..n) /\ Unused(n) \in SUBSET (1..n)
    BY FS_Interval
  <2>3. QED
    BY <2>2, FS_Subset, FS_CardinalityType
<1>2. Cardinality(used) \in Nat /\ N \in Nat
  BY FS_CardinalityType
<1>3. N \in T
  <2> DEFINE S == Unused(N)
             U == (1..N) \cap used
  <2>1. U \in SUBSET used /\ IsFiniteSet(U) /\ Cardinality(U) <= Cardinality(used)
    BY FS_Subset
  <2>2. S \cup U = 1..N /\ S \cap U = {}
    OBVIOUS
  <2>3. Cardinality(S \cup U) = Cardinality(S) + Cardinality(U) - Cardinality(S \cap U)
    BY <1>1, <1>2, <2>1, FS_Union
  <2>4. Cardinality(1..N) = N
    BY <1>2, FS_Interval
  <2>5. Cardinality({}) = 0 /\ Cardinality(U) \in Nat
    BY <2>1, FS_EmptySet, FS_CardinalityType
  <2>6. Cardinality(S) \in Nat
    BY <1>1, <1>2
  <2>7. N = Cardinality(S) + Cardinality(U) - 0
    BY <2>2, <2>3, <2>4, <2>5
  <2>8. Cardinality(S) >= k
    <3> HIDE DEF S, U
    <3>1. QED
      BY <1>2, <2>1, <2>5, <2>6, <2>7
  <2>9. QED
    BY <1>2, <2>8
<1>4. PICK n \in T : \A m \in T : n <= m
  BY <1>3, LeastNumber
<1>5. n \in Nat /\ n <= N /\ Cardinality(Unused(n)) >= k
  OBVIOUS
<1>6. n # 0
  <2>1. CASE n = 0
    <3>1. Unused(n) = {}
      BY <2>1
    <3>2. QED
      BY <1>5, <3>1, FS_EmptySet
  <2>2. QED
    BY <2>1
<1>7. n - 1 \in Nat /\ ~ (Cardinality(Unused(n - 1)) >= k)
  <2>1. n - 1 \in Nat /\ n - 1 <= N /\ ~ (n <= n - 1)
    BY <1>2, <1>5, <1>6
  <2>2. n - 1 \notin T
    BY <1>4, <2>1
  <2>3. QED
    BY <2>1, <2>2
<1>8. CASE n \in used
  <2>1. Unused(n) = Unused(n - 1)
    BY <1>5, <1>6, <1>8
  <2>2. QED
    BY <1>5, <1>7, <2>1
<1>9. CASE n \notin used
  <2>1. Unused(n) = Unused(n - 1) \cup {n} /\ n \notin Unused(n - 1)
    BY <1>5, <1>6, <1>9
  <2>2. Cardinality(Unused(n)) = Cardinality(Unused(n - 1)) + 1
    BY <1>1, <1>7, <2>1, FS_AddElement
  <2>a. Cardinality(Unused(n)) \in Nat /\ Cardinality(Unused(n - 1)) \in Nat
    BY <1>1, <1>5, <1>7
  <2>3. Cardinality(Unused(n)) = k
    <3> HIDE DEF Unused
    <3>1. QED
      BY <1>5, <1>7, <2>2, <2>a
  <2>4. n \in 1..N
    BY <1>2, <1>5, <1>6
  <2>5. QED
    BY <1>9, <2>3, <2>4
<1>10. QED
  BY <1>8, <1>9

\* The numbers in use.
Used == DOMAIN slots_of_elastic \cup {tick_stats, tick_config, tick_curl, ue_disconnect_slot}

\* New connections are new, and different ones.
LEMMA FreshIsNew ==
  ASSUME IsFiniteSet(DOMAIN slots_of_elastic)
  PROVE  /\ \A k \in 1..4 : Fresh(k) \notin Used
         /\ \A j, k \in 1..4 : j # k => Fresh(j) # Fresh(k)
<1>1. IsFiniteSet(Used)
  <2>1. Used = (((DOMAIN slots_of_elastic \cup {tick_stats}) \cup {tick_config}) \cup {tick_curl})
               \cup {ue_disconnect_slot}
    BY DEF Used
  <2>2. QED
    BY <2>1, FS_AddElement
<1>2. ASSUME NEW k \in 1..4
      PROVE  Fresh(k) \notin Used /\ Cardinality((1..Fresh(k)) \ Used) = k
  <2>1. \E n \in 1..(Cardinality(Used) + k) : n \notin Used /\ Cardinality((1..n) \ Used) = k
    <3>1. k \in Nat \ {0}
      OBVIOUS
    <3>2. QED
      BY <1>1, <3>1, FreshExists
  <2>2. Fresh(k) = CHOOSE n \in 1..(Cardinality(Used) + k) :
                     n \notin Used /\ Cardinality((1..n) \ Used) = k
    BY DEF Fresh, Used
  <2>3. QED
    BY <2>1, <2>2
<1>3. QED
  BY <1>2

(***************************************************************************)
(* The connections of what is logged, their slots, and no others.          *)
(***************************************************************************)
Logging(c) ==
  \/ c = tick_curl
  \/ freq_config > 0 /\ c = tick_config
  \/ freq_stats > 0 /\ c \in {tick_stats, ue_disconnect_slot}

\* The slots are those of the settings.
SlotsConnected ==
  /\ slots_of_elastic[tick_curl] = Slot("process_curl", CurlPeriod)
  /\ freq_config > 0 => slots_of_elastic[tick_config] = Slot("process_config", freq_config)
  /\ freq_stats > 0 => /\ slots_of_elastic[tick_stats] = Slot("process_stats", freq_stats)
                       /\ slots_of_elastic[ue_disconnect_slot] = Slot("ue_disconnect", Event)

\* A connection that is not used does not have the number of one that is.
LoggingOn ==
  /\ freq_config > 0 \/ freq_stats > 0
  /\ \A c : c \in DOMAIN slots_of_elastic <=> Logging(c)
  /\ SlotsConnected
  /\ freq_config = 0 => ~ Connected(tick_config)
  /\ freq_stats = 0 => ~ Connected(tick_stats) /\ ~ Connected(ue_disconnect_slot)

\* Nothing is connected.
LoggingOff == \A c : c \notin DOMAIN slots_of_elastic

\* The inductive invariant, and when it holds.
CarefulInv == freq_config \in Nat /\ freq_stats \in Nat /\ (LoggingOff \/ LoggingOn)
EsIInv == careful_calls => CarefulInv

\* is_active tells which of the two it is.
LEMMA ActiveIfOn ==
  ASSUME CarefulInv
  PROVE  /\ LoggingOn <=> is_active
         /\ LoggingOff <=> ~ is_active
         /\ IsFiniteSet(DOMAIN slots_of_elastic)
<1>1. LoggingOn => is_active
  BY DEF LoggingOn, is_active, Connected, Logging
<1>2. LoggingOff => ~ is_active
  BY DEF LoggingOff, is_active, Connected
<1>3. CASE LoggingOff
  <2>1. DOMAIN slots_of_elastic = {}
    BY <1>3 DEF LoggingOff
  <2>2. QED
    BY <1>1, <1>2, <1>3, <2>1, FS_EmptySet
<1>4. CASE LoggingOn
  <2> DEFINE four == (({tick_curl} \cup {tick_config}) \cup {tick_stats}) \cup {ue_disconnect_slot}
  <2>1. DOMAIN slots_of_elastic \in SUBSET four
    BY <1>4 DEF LoggingOn, Logging
  <2>2. IsFiniteSet(four)
    BY FS_Singleton, FS_AddElement
  <2>3. IsFiniteSet(DOMAIN slots_of_elastic)
    <3> HIDE DEF four
    <3>1. QED
      BY <2>1, <2>2, FS_Subset
  <2>4. QED
    BY <1>1, <1>2, <1>4, <2>3
<1>5. QED
  BY <1>3, <1>4 DEF CarefulInv

\* Disabling disconnects every slot.
LEMMA DisableAll ==
  ASSUME CarefulInv, Disable
  PROVE  LoggingOff'
<1>1. DOMAIN slots_of_elastic'
        = DOMAIN slots_of_elastic \ {tick_config, tick_stats, ue_disconnect_slot, tick_curl}
  BY DEF Disable, Restrict
<1>2. QED
  BY <1>1 DEF CarefulInv, LoggingOff, LoggingOn, Logging

\* Steps that touch neither settings nor slots.
LEMMA SettingsKept ==
  ASSUME CarefulInv, UNCHANGED <<freq_config, freq_stats, elasticSlotVars>>
  PROVE  CarefulInv'
BY DEF CarefulInv, LoggingOff, LoggingOn, Logging, SlotsConnected, Connected, elasticSlotVars

\* Enabling connects the slots of the settings.
LEMMA EnableAll ==
  ASSUME CarefulInv, enable_logging
  PROVE  CarefulInv'
<1> USE DEF enable_logging, settingVars
<1> DEFINE c1 == Fresh(1)
           c2 == Fresh(2)
           c3 == Fresh(3)
           c4 == Fresh(4)
           new == {c4} \cup (IF freq_config > 0 THEN {c1} ELSE {})
                       \cup (IF freq_stats > 0 THEN {c2, c3} ELSE {})
           begun == [c \in new |->
                       CASE c = c1 -> Slot("process_config", freq_config)
                         [] c = c2 -> Slot("process_stats", freq_stats)
                         [] c = c3 -> Slot("ue_disconnect", Event)
                         [] OTHER -> Slot("process_curl", CurlPeriod)]
<1>1. /\ LoggingOff /\ IsFiniteSet(DOMAIN slots_of_elastic)
      /\ freq_config \in Nat /\ freq_stats \in Nat
  BY ActiveIfOn DEF CarefulInv
<1>2. /\ c1 # c2 /\ c1 # c3 /\ c1 # c4 /\ c2 # c3 /\ c2 # c4 /\ c3 # c4
      /\ {c1, c2, c3, c4} \cap Used = {}
  BY <1>1, FreshIsNew
<1>3. /\ tick_config' = (IF freq_config > 0 THEN c1 ELSE tick_config)
      /\ tick_stats' = (IF freq_stats > 0 THEN c2 ELSE tick_stats)
      /\ ue_disconnect_slot' = (IF freq_stats > 0 THEN c3 ELSE ue_disconnect_slot)
      /\ tick_curl' = c4
      /\ slots_of_elastic' = Connect(slots_of_elastic, begun)
      /\ ~ (freq_config = 0 /\ freq_stats = 0)
      /\ freq_config' = freq_config /\ freq_stats' = freq_stats
  OBVIOUS
<1> HIDE DEF c1, c2, c3, c4, enable_logging
<1>4. /\ begun[c4] = Slot("process_curl", CurlPeriod)
      /\ freq_config > 0 => begun[c1] = Slot("process_config", freq_config)
      /\ freq_stats > 0 => /\ begun[c2] = Slot("process_stats", freq_stats)
                           /\ begun[c3] = Slot("ue_disconnect", Event)
      /\ DOMAIN begun = new
  BY <1>2
<1> HIDE DEF begun
<1>5. \A c : /\ c \in DOMAIN slots_of_elastic' <=> c \in new
             /\ c \in new => slots_of_elastic'[c] = begun[c]
  BY <1>1, <1>3, <1>4 DEF Connect, LoggingOff
<1>6. \A c : c \in new <=> Logging(c)'
  BY <1>3 DEF Logging
<1>7. SlotsConnected'
  BY <1>3, <1>4, <1>5 DEF SlotsConnected
<1>8. /\ freq_config = 0 => tick_config' \notin new
      /\ freq_stats = 0 => tick_stats' \notin new /\ ue_disconnect_slot' \notin new
  BY <1>2, <1>3 DEF Used
<1>9. LoggingOn'
  BY <1>1, <1>3, <1>5, <1>6, <1>7, <1>8 DEF LoggingOn, Connected
<1>10. QED
  BY <1>1, <1>3, <1>9 DEF CarefulInv

\* The connection of process_config is not that of another slot.
LEMMA ConfigIsOther ==
  ASSUME LoggingOn, freq_config \in Nat
  PROVE  /\ tick_config # tick_curl
         /\ freq_stats > 0 => tick_config # tick_stats /\ tick_config # ue_disconnect_slot
<1>1. CASE freq_config = 0
  BY <1>1 DEF LoggingOn, Logging, Connected
<1>2. CASE freq_config > 0
  <2>1. \A x, y, p, q : Slot(x, p) = Slot(y, q) => x = y
    BY DEF Slot
  <2>2. QED
    BY <1>2, <2>1 DEF LoggingOn, SlotsConnected
<1>3. QED
  BY <1>1, <1>2

\* set_freq_config, in the cases that careful_calls leaves.
LEMMA ConfigIntervalChanged ==
  ASSUME CarefulInv, NEW f \in Nat, set_freq_config(f), careful_calls'
  PROVE  CarefulInv'
<1> USE DEF set_freq_config
<1> DEFINE c1 == Fresh(1)
<1>1. CASE ~ is_active
  <2>1. LoggingOff /\ slots_of_elastic' = slots_of_elastic /\ freq_config' = f
        /\ freq_stats' = freq_stats
    BY <1>1, ActiveIfOn DEF Restart
  <2>2. QED
    BY <2>1 DEF CarefulInv, LoggingOff
<1>2. CASE is_active /\ f > 0
  <2>1. LoggingOn /\ c1 \notin Used /\ freq_config \in Nat /\ freq_stats \in Nat
    BY <1>2, ActiveIfOn, FreshIsNew DEF CarefulInv
  <2>2. /\ slots_of_elastic' = Connect(Restrict(slots_of_elastic,
                                                DOMAIN slots_of_elastic \ {tick_config}),
                                       At(c1, Slot("process_config", f)))
        /\ tick_config' = c1 /\ freq_config' = f
        /\ UNCHANGED <<freq_stats, tick_stats, tick_curl, ue_disconnect_slot>>
    BY <1>2 DEF Restart
  <2> HIDE DEF c1, set_freq_config
  <2>3. /\ \A c : c \in DOMAIN slots_of_elastic' <=>
                    c = c1 \/ (c \in DOMAIN slots_of_elastic /\ c # tick_config)
        /\ slots_of_elastic'[c1] = Slot("process_config", f)
        /\ \A c \in DOMAIN slots_of_elastic :
             c # tick_config /\ c # c1 => slots_of_elastic'[c] = slots_of_elastic[c]
    BY <2>2 DEF Connect, Restrict, At
  <2>4. /\ tick_config # tick_curl
        /\ freq_stats > 0 => tick_config # tick_stats /\ tick_config # ue_disconnect_slot
    BY <2>1, ConfigIsOther
  <2>5. /\ c1 # tick_curl /\ c1 # tick_stats /\ c1 # ue_disconnect_slot
        /\ c1 \notin DOMAIN slots_of_elastic
    BY <2>1 DEF Used
  <2>6. \A c : c \in DOMAIN slots_of_elastic' <=> Logging(c)'
    BY <1>2, <2>1, <2>2, <2>3, <2>4 DEF LoggingOn, Logging
  <2>7. SlotsConnected'
    <3>1. slots_of_elastic'[tick_curl] = Slot("process_curl", CurlPeriod)
      BY <2>1, <2>3, <2>4, <2>5 DEF LoggingOn, Logging, SlotsConnected
    <3>2. freq_stats > 0 =>
            /\ slots_of_elastic'[tick_stats] = Slot("process_stats", freq_stats)
            /\ slots_of_elastic'[ue_disconnect_slot] = Slot("ue_disconnect", Event)
      BY <2>1, <2>3, <2>4, <2>5 DEF LoggingOn, Logging, SlotsConnected
    <3>3. QED
      BY <2>2, <2>3, <3>1, <3>2 DEF SlotsConnected
  <2>8. freq_stats = 0 => ~ Connected(tick_stats)' /\ ~ Connected(ue_disconnect_slot)'
    BY <2>1, <2>2, <2>3, <2>5 DEF LoggingOn, Connected
  <2>9. LoggingOn'
    BY <1>2, <2>2, <2>6, <2>7, <2>8 DEF LoggingOn
  <2>10. QED
    BY <2>1, <2>2, <2>9 DEF CarefulInv
<1>3. CASE is_active /\ ~ (f > 0)
  <2>1. LoggingOn /\ freq_config \in Nat /\ freq_stats \in Nat /\ f = 0
    BY <1>3, ActiveIfOn DEF CarefulInv
  <2>2. /\ slots_of_elastic' = Connect(Restrict(slots_of_elastic,
                                                DOMAIN slots_of_elastic \ {tick_config}), Nothing)
        /\ freq_config' = f
        /\ UNCHANGED <<freq_stats, tick_config, tick_stats, tick_curl, ue_disconnect_slot>>
    BY <1>3 DEF Restart
  <2>3. is_active'
    BY <1>3
  <2> HIDE DEF set_freq_config
  <2>4. /\ \A c : c \in DOMAIN slots_of_elastic' <=>
                    c \in DOMAIN slots_of_elastic /\ c # tick_config
        /\ \A c \in DOMAIN slots_of_elastic :
             c # tick_config => slots_of_elastic'[c] = slots_of_elastic[c]
    BY <2>2 DEF Connect, Restrict, Nothing
  <2>5. /\ tick_config # tick_curl
        /\ freq_stats > 0 => tick_config # tick_stats /\ tick_config # ue_disconnect_slot
    BY <2>1, ConfigIsOther
  <2>6. \A c : c \in DOMAIN slots_of_elastic' <=> Logging(c)'
    BY <2>1, <2>2, <2>4, <2>5 DEF LoggingOn, Logging
  <2>7. SlotsConnected'
    BY <2>1, <2>2, <2>4, <2>5 DEF LoggingOn, Logging, SlotsConnected
  <2>8. /\ ~ Connected(tick_config)'
        /\ freq_stats = 0 => ~ Connected(tick_stats)' /\ ~ Connected(ue_disconnect_slot)'
    BY <2>1, <2>2, <2>4 DEF LoggingOn, Connected
  <2>9. freq_stats' > 0
    BY <2>1, <2>2, <2>3, <2>8 DEF is_active
  <2>10. LoggingOn'
    BY <2>2, <2>6, <2>7, <2>8, <2>9 DEF LoggingOn
  <2>11. QED
    BY <2>1, <2>2, <2>10 DEF CarefulInv
<1>4. QED
  BY <1>1, <1>2, <1>3

\* Calls that are careful now have been careful before.
LEMMA EsCarefulBefore ==
  ASSUME EsNext, careful_calls'
  PROVE  careful_calls
BY DEF EsNext, process_stats, ue_disconnect, process_config, process_curl, trigger_send,
       add_endpoint, remove_endpoint, set_freq_stats, set_freq_config, enable_logging,
       disable_logging

\* Every step keeps the invariant.
LEMMA EsStep ==
  ASSUME CarefulInv, EsNext, careful_calls'
  PROVE  CarefulInv'
<1>1. CASE process_stats \/ ue_disconnect \/ process_config
  BY <1>1, SettingsKept DEF process_stats, ue_disconnect, process_config, trigger_send, settingVars
<1>2. CASE process_curl
  <2>1. UNCHANGED <<freq_config, freq_stats>> /\ (Disable \/ UNCHANGED elasticSlotVars)
    BY <1>2 DEF process_curl, settingVars
  <2>2. QED
    BY <2>1, SettingsKept, DisableAll DEF CarefulInv
<1>3. CASE \E e \in Endpoint : add_endpoint(e)
  BY <1>3, SettingsKept DEF add_endpoint
<1>4. CASE \E e \in Endpoint : remove_endpoint(e)
  <2>1. UNCHANGED <<freq_config, freq_stats>> /\ (Disable \/ UNCHANGED elasticSlotVars)
    BY <1>4 DEF remove_endpoint
  <2>2. QED
    BY <2>1, SettingsKept, DisableAll DEF CarefulInv
<1>5. ASSUME NEW f \in Interval, set_freq_stats(f)
      PROVE  CarefulInv'
  <2>1. ~ is_active /\ freq_stats' = f /\ freq_config' = freq_config /\ f \in Nat
    BY <1>5, IntervalAssumption DEF set_freq_stats
  <2>2. LoggingOff /\ slots_of_elastic' = slots_of_elastic
    BY <1>5, <2>1, ActiveIfOn DEF set_freq_stats, Restart
  <2>3. QED
    BY <2>1, <2>2 DEF CarefulInv, LoggingOff
<1>6. ASSUME NEW f \in Interval, set_freq_config(f)
      PROVE  CarefulInv'
  BY <1>6, IntervalAssumption, ConfigIntervalChanged
<1>7. CASE enable_logging
  BY <1>7, EnableAll
<1>8. CASE disable_logging
  <2>1. UNCHANGED <<freq_config, freq_stats>> /\ Disable
    BY <1>8 DEF disable_logging, settingVars
  <2>2. QED
    BY <2>1, DisableAll DEF CarefulInv
<1>9. QED
  BY <1>1, <1>2, <1>3, <1>4, <1>5, <1>6, <1>7, <1>8 DEF EsNext

\* The invariant says what the property does.
LEMMA SlotsAreWanted ==
  ASSUME CarefulInv
  PROVE  SlotsMatch
<1> DEFINE D == DOMAIN slots_of_elastic
           R == Range(slots_of_elastic)
<1>1. R = {slots_of_elastic[c] : c \in D}
  BY DEF Range
<1>2. CASE LoggingOff
  <2>1. D = {} /\ R = {} /\ ~ is_active
    BY <1>1, <1>2, ActiveIfOn DEF LoggingOff
  <2>2. QED
    BY <2>1 DEF SlotsMatch
<1>3. CASE LoggingOn
  <2>0. is_active /\ IsFiniteSet(D)
    BY <1>3, ActiveIfOn
  <2>1. \A s : s \in R <=> s \in Wanted \cup {Slot("process_curl", CurlPeriod)}
    BY <1>1, <1>3 DEF LoggingOn, Logging, SlotsConnected, Wanted
  <2>2. \A c, d \in D : slots_of_elastic[c] = slots_of_elastic[d] => c = d
    <3>1. \A x, y, p, q : Slot(x, p) = Slot(y, q) => x = y
      BY DEF Slot
    <3>2. QED
      BY <1>3, <3>1 DEF LoggingOn, Logging, SlotsConnected
  <2> DEFINE f == [c \in D |-> slots_of_elastic[c]]
  <2>3. f \in Bijection(D, R)
    BY <1>1, <2>2 DEF Bijection, Injection, Surjection, IsInjective
  <2>4. Cardinality(D) = Cardinality(R)
    BY <2>0, <2>3, FS_Bijection DEF ExistsBijection
  <2>5. QED
    BY <2>0, <2>1, <2>4 DEF SlotsMatch
<1>4. QED
  BY <1>2, <1>3 DEF CarefulInv

\* As long as no call changes, while logging is active, the interval of the statistics,
\* or the other one so that logging ends by itself, the slots connected are those that
\* the settings ask for (CarefulSlotsMatch: elastic_search's setters, enable_logging
\* and disable_logging).
THEOREM CarefulLoggingMatches == EsSpec => []CarefulSlotsMatch
<1>1. EsInit => EsIInv
  BY DEF EsInit, EsIInv, CarefulInv, LoggingOff
<1>2. EsIInv /\ [EsNext]_esVars => EsIInv'
  <2>1. ASSUME EsIInv, EsNext
        PROVE  EsIInv'
    BY <2>1, EsCarefulBefore, EsStep DEF EsIInv
  <2>2. ASSUME EsIInv, UNCHANGED esVars
        PROVE  EsIInv'
    BY <2>2, SettingsKept DEF EsIInv, esVars, settingVars
  <2>3. QED
    BY <2>1, <2>2
<1>3. EsIInv => CarefulSlotsMatch
  BY SlotsAreWanted DEF EsIInv, CarefulSlotsMatch
<1>4. QED
  BY <1>1, <1>2, <1>3, PTL DEF EsSpec

=============================================================================
