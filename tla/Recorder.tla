------------------------------ MODULE Recorder ------------------------------
(***************************************************************************)
(* The application recorder on the tick of the task manager.  A REST call  *)
(* (start_meas) makes a job and subscribes a slot for it; the task         *)
(* manager's thread calls every slot once per tick, which adds a chunk to  *)
(* the dump and, in the last millisecond, hands job and dump to a writer   *)
(* thread.  The pointers current_job_ and dump_ are shared without a lock. *)
(* The call first makes two chunks of each BS for nothing, and reads the   *)
(* RIB for them, which the task manager's thread changes between ticks.    *)
(*                                                                         *)
(* A dump is the sequence of the ticks it was written in; what a chunk     *)
(* contains is left out.                                                   *)
(***************************************************************************)
EXTENDS RibView, Sequences

CONSTANTS
  Duration,   \* milliseconds a job may be asked for
  MaxJobs,    \* bound: accepted calls
  MaxTick     \* bound: ticks; jobs that would end later are not asked for

ASSUME DurationAssumption == Duration \subseteq Nat \ {0}
ASSUME RecBoundAssumption == MaxJobs \in Nat /\ MaxTick \in Nat

VARIABLES
  tick,         \* the task manager's tick
  last_tick,    \* the last one that ended
  tick_pc,      \* "wait" between ticks, "emit" between slots, else in a slot
  todo,         \* slots still to be called in this tick
  slots,        \* connected slots of recorder: the jobs they were connected for
  current_job, dump,   \* current_job_ and dump_
  writing,      \* jobs with their dumps, at the writer threads
  finished_jobs,
  start_pc,     \* "idle" or the REST thread's place in start_meas
  running,      \* what it found in its first test of current_job_
  job,          \* the job it makes
  accepted,     \* history: all jobs made
  calm,         \* history: every call found the recorder idle and was in time
  null_used,    \* "none", or the pointer that was null (or dangling) when it was used
  to_fill,      \* chunks that start_meas still makes for nothing: BS, first or second time
  chunk, nth,   \* the BS of the one it makes, the number of its UEs that were read
  looked_up,    \* the UE whose RNTI was read, as a set
  left          \* history: BSs and UEs that have gone since they were found

tickVars == <<tick, last_tick, tick_pc, todo>>
startVars == <<start_pc, running, job>>
fillVars == <<to_fill, chunk, nth, looked_up, left>>
jobVars == <<tickVars, slots, current_job, dump, writing, finished_jobs, startVars,
             accepted, calm, null_used, fillVars>>
recVars == <<ribVars, jobVars>>

Tick   == 0..MaxTick
Job    == [nr : 1..MaxJobs, ms_start : 2..MaxTick, ms_end : Tick]
NoJob  == [nr |-> 0, ms_start |-> 0, ms_end |-> 0]
NoDump == <<MaxTick + 1>>   \* stands for the null pointer; no dump has such a tick

Filling == {"filling", "chunking", "looking_up"}   \* places of start_meas before its test
RibPointers == {"get_bs()", "get_ue_mac_info()", "ue_configs"}

\* What can go from the RIB: a BS, with the empty set, and a UE of it, in a set of its own.
InRib(r) ==
  {<<b, {}>> : b \in DOMAIN r} \cup UNION {{<<b, {u}>> : u \in r[b].ues} : b \in DOMAIN r}

RecTypeOK ==
  /\ tick \in Tick /\ last_tick \in Tick
  /\ tick_pc \in {"wait", "emit", "chunked", "moved"}
  /\ todo \subseteq slots
  /\ slots \subseteq accepted
  /\ current_job \in accepted \cup {NoJob}
  /\ dump \in Seq(Tick) \cup {NoDump}
  /\ \A w \in writing : w.job \in accepted /\ w.dump \in Seq(Tick)
  /\ finished_jobs \subseteq accepted
  /\ start_pc \in Filling \cup {"idle", "tested", "opened", "dumped", "created"}
  /\ running \in BOOLEAN
  /\ job \in Job \cup {NoJob}
  /\ accepted \subseteq Job
  /\ calm \in BOOLEAN
  /\ null_used \in RibPointers \cup {"none", "current_job_", "dump_"}
  /\ to_fill \subseteq Bs \X {1, 2} /\ chunk \in Bs \cup {0} /\ nth \in Nat
  /\ looked_up \subseteq Ues
-----------------------------------------------------------------------------
RecInit ==
  /\ RibInit
  /\ tick = 0 /\ last_tick = 0
  /\ tick_pc = "wait"
  /\ todo = {} /\ slots = {}
  /\ current_job = NoJob /\ dump = NoDump
  /\ writing = {} /\ finished_jobs = {}
  /\ start_pc = "idle" /\ running = FALSE /\ job = NoJob
  /\ accepted = {}
  /\ calm = TRUE
  /\ null_used = "none"
  /\ to_fill = {} /\ chunk = 0 /\ nth = 0 /\ looked_up = {} /\ left = {}
-----------------------------------------------------------------------------
(***************************************************************************)
(* Task manager's thread                                                   *)
(***************************************************************************)

\* The updater comes before the slots.  Only start_meas, before its test, reads the RIB.
RibChangesBetweenTicks ==
  /\ tick_pc = "wait" /\ start_pc \in Filling \cup {"idle"}
  /\ RibMoves
  /\ left' = IF start_pc = "idle" THEN left ELSE left \cup (InRib(bs) \ InRib(bs'))
  /\ UNCHANGED <<tickVars, slots, current_job, dump, writing, finished_jobs, startVars,
                 accepted, calm, null_used, to_fill, chunk, nth, looked_up>>

\* The signal is raised for the slots that are connected now.
TickBegin ==
  /\ tick_pc = "wait" /\ tick < MaxTick
  /\ tick_pc' = "emit"
  /\ todo' = {j \in slots : tick >= j.ms_start}
  /\ UNCHANGED <<tick, last_tick, slots, current_job, dump, writing, finished_jobs,
                 startVars, accepted, calm, null_used, ribVars, fillVars>>

TickEnd ==
  /\ tick_pc = "emit" /\ todo = {}
  /\ tick_pc' = "wait"
  /\ last_tick' = tick
  /\ tick' = tick + 1
  /\ UNCHANGED <<todo, slots, current_job, dump, writing, finished_jobs, startVars,
                 accepted, calm, null_used, ribVars, fillVars>>

\* Slots are called in the order they were connected.
NextSlot == CHOOSE j \in todo : \A k \in todo : j.nr <= k.nr
SlotDone == todo' = todo \ {NextSlot} /\ tick_pc' = "emit"

TickNoJob ==
  /\ tick_pc = "emit" /\ todo # {} /\ current_job = NoJob
  /\ SlotDone
  /\ slots' = slots \ {NextSlot}
  /\ UNCHANGED <<tick, last_tick, current_job, dump, writing, finished_jobs, startVars,
                 accepted, calm, null_used, ribVars, fillVars>>

TickChunk ==
  /\ tick_pc = "emit" /\ todo # {} /\ current_job # NoJob
  /\ IF dump = NoDump
     THEN null_used' = "dump_" /\ UNCHANGED <<dump, tick_pc>>
     ELSE dump' = Append(dump, tick) /\ tick_pc' = "chunked" /\ UNCHANGED null_used
  /\ UNCHANGED <<tick, last_tick, todo, slots, current_job, writing, finished_jobs,
                 startVars, accepted, calm, ribVars, fillVars>>

\* Mutant: one millisecond more.
MutTickMoveLate ==
  /\ tick_pc = "chunked"
  /\ IF tick = current_job.ms_end
     THEN /\ writing' = writing \cup {[job |-> current_job, dump |-> dump]}
          /\ current_job' = NoJob /\ dump' = NoDump
          /\ tick_pc' = "moved"
          /\ UNCHANGED todo
     ELSE SlotDone /\ UNCHANGED <<writing, current_job, dump>>
  /\ UNCHANGED <<tick, last_tick, slots, finished_jobs, startVars, accepted, calm, null_used,
                 ribVars, fillVars>>

TickMove ==
  /\ tick_pc = "chunked"
  /\ IF tick = current_job.ms_end - 1
     THEN /\ writing' = writing \cup {[job |-> current_job, dump |-> dump]}
          /\ current_job' = NoJob /\ dump' = NoDump
          /\ tick_pc' = "moved"
          /\ UNCHANGED todo
     ELSE SlotDone /\ UNCHANGED <<writing, current_job, dump>>
  /\ UNCHANGED <<tick, last_tick, slots, finished_jobs, startVars, accepted, calm, null_used,
                 ribVars, fillVars>>

TickReset ==
  /\ tick_pc = "moved"
  /\ SlotDone
  /\ slots' = slots \ {NextSlot}
  /\ current_job' = NoJob
  /\ UNCHANGED <<tick, last_tick, dump, writing, finished_jobs, startVars, accepted, calm,
                 null_used, ribVars, fillVars>>

TaskManager == TickBegin \/ TickEnd \/ TickNoJob \/ TickChunk \/ TickMove \/ TickReset

\* A writer thread has written its file.
Write(w) ==
  /\ writing' = writing \ {w}
  /\ finished_jobs' = finished_jobs \cup {w.job}
  /\ UNCHANGED <<tickVars, slots, current_job, dump, startVars, accepted, calm, null_used,
                 ribVars, fillVars>>
-----------------------------------------------------------------------------
(***************************************************************************)
(* REST thread, in start_meas()                                            *)
(***************************************************************************)

Busy == current_job # NoJob \/ slots # {} \/ writing # {}

\* A call with a legal type and duration, up to the list of base stations.
StartMeas ==
  /\ start_pc = "idle" /\ Cardinality(accepted) < MaxJobs
  /\ start_pc' = "filling" /\ to_fill' = get_available_base_stations \X {1, 2}
  /\ calm' = (calm /\ ~Busy)
  /\ UNCHANGED <<ribVars, tickVars, slots, current_job, dump, writing, finished_jobs, running,
                 job, accepted, null_used, chunk, nth, looked_up, left>>

\* Steps that make these chunks: nothing but the place in them changes.
FillStep ==
  UNCHANGED <<ribVars, tickVars, slots, current_job, dump, writing, finished_jobs, job,
              accepted, calm>>

\* record_chunk(): the next in order is begun, with the reference to the UEs of its BS.
ChunkBegins ==
  /\ start_pc = "filling"
  /\ \E c \in to_fill :
       /\ \A d \in to_fill : c[1] < d[1] \/ (c[1] = d[1] /\ c[2] <= d[2])
       /\ to_fill' = to_fill \ {c} /\ chunk' = c[1]
       /\ IF c[1] \in DOMAIN bs
          THEN /\ start_pc' = "chunking" /\ nth' = 0
               /\ left' = {e \in left : e[1] # c[1]}
               /\ UNCHANGED null_used
          ELSE null_used' = "get_bs()" /\ UNCHANGED <<start_pc, nth, left>>
  /\ FillStep /\ UNCHANGED <<running, looked_up>>

\* The reference dangles if the BS has gone, even if it came back.  What is read then is
\* undefined: any UEs, or the end of the process.
Dangles == <<chunk, {}>> \in left
UesRead == IF Dangles THEN Ues ELSE bs[chunk].ues

ReadFreed ==
  /\ start_pc = "chunking" /\ Dangles
  /\ null_used' = "ue_configs"
  /\ FillStep /\ UNCHANGED <<start_pc, running, fillVars>>

ReadUe ==
  /\ start_pc = "chunking" /\ nth < Cardinality(UesRead)
  /\ \E u \in UesRead : looked_up' = {u}
  /\ start_pc' = "looking_up"
  /\ FillStep /\ UNCHANGED <<running, null_used, to_fill, chunk, nth, left>>

\* The BS and its UE are looked up by their IDs.
LookUpUe ==
  /\ start_pc = "looking_up"
  /\ IF chunk \in DOMAIN bs /\ looked_up \subseteq bs[chunk].ues
     THEN /\ start_pc' = "chunking" /\ nth' = nth + 1 /\ looked_up' = {}
          /\ UNCHANGED null_used
     ELSE /\ null_used' = IF chunk \in DOMAIN bs THEN "get_ue_mac_info()" ELSE "get_bs()"
          /\ UNCHANGED <<start_pc, nth, looked_up>>
  /\ FillStep /\ UNCHANGED <<running, to_fill, chunk, left>>

\* Configurations are copied: the BS is looked up once more.
ChunkEnds ==
  /\ start_pc = "chunking" /\ (Dangles \/ nth >= Cardinality(UesRead))
  /\ IF chunk \in DOMAIN bs
     THEN start_pc' = "filling" /\ UNCHANGED null_used
     ELSE null_used' = "get_bs()" /\ UNCHANGED start_pc
  /\ FillStep /\ UNCHANGED <<running, fillVars>>

\* The test of current_job_ that decides about the start.
StartTest ==
  /\ start_pc = "filling" /\ to_fill = {}
  /\ start_pc' = "tested"
  /\ running' = (current_job # NoJob)
  /\ chunk' = 0 /\ nth' = 0 /\ left' = {}
  /\ FillStep /\ UNCHANGED <<null_used, to_fill, looked_up>>

FillCaches == ChunkBegins \/ ReadFreed \/ ReadUe \/ LookUpUe \/ ChunkEnds \/ StartTest

\* The start is computed and the file opened.
StartOpen ==
  /\ start_pc = "tested"
  /\ \/ /\ running /\ current_job = NoJob
        /\ null_used' = "current_job_"
        /\ UNCHANGED <<start_pc, job>>
     \/ /\ running => current_job # NoJob
        /\ \E d \in Duration :
             LET start == IF running THEN current_job.ms_end ELSE last_tick + 2 IN
               /\ start + d <= MaxTick
               /\ job' = [nr |-> Cardinality(accepted) + 1,
                         ms_start |-> start, ms_end |-> start + d]
        /\ start_pc' = "opened"
        /\ UNCHANGED null_used
  /\ UNCHANGED <<tickVars, slots, current_job, dump, writing, finished_jobs, running,
                 accepted, calm, ribVars, fillVars>>

\* The file cannot be opened.
StartRefused ==
  /\ start_pc = "tested"
  /\ running => current_job # NoJob
  /\ start_pc' = "idle" /\ running' = FALSE
  /\ UNCHANGED <<tickVars, slots, current_job, dump, writing, finished_jobs, job, accepted,
                 calm, null_used, ribVars, fillVars>>

\* Mutant: the new job goes on with the dump there is.
MutStartDumpNone ==
  /\ start_pc = "opened"
  /\ start_pc' = "dumped"
  /\ UNCHANGED <<tickVars, slots, current_job, dump, writing, finished_jobs, running, job,
                 accepted, calm, null_used, ribVars, fillVars>>

\* dump_ is replaced, and room reserved in it.
StartDump ==
  /\ start_pc = "opened"
  /\ start_pc' = "dumped"
  /\ dump' = <<>>
  /\ UNCHANGED <<tickVars, slots, current_job, writing, finished_jobs, running, job,
                 accepted, calm, null_used, ribVars, fillVars>>

StartCreate ==
  /\ start_pc = "dumped"
  /\ start_pc' = "created"
  /\ current_job' = job
  /\ accepted' = accepted \cup {job}
  /\ UNCHANGED <<tickVars, slots, dump, writing, finished_jobs, running, job, calm, null_used,
                 ribVars, fillVars>>

\* The slot is connected before the tick that the job starts with.
InTime == tick < job.ms_start \/ (tick = job.ms_start /\ tick_pc = "wait")

\* Mutant: the slot is connected for the tick after the first.
MutStartSubscribeLate ==
  /\ start_pc = "created"
  /\ start_pc' = "idle" /\ running' = FALSE /\ job' = NoJob
  /\ slots' = slots \cup {[job EXCEPT !.ms_start = @ + 1]}
  /\ calm' = (calm /\ InTime)
  /\ UNCHANGED <<tickVars, current_job, dump, writing, finished_jobs, accepted, null_used,
                 ribVars, fillVars>>

StartSubscribe ==
  /\ start_pc = "created"
  /\ start_pc' = "idle" /\ running' = FALSE /\ job' = NoJob
  /\ slots' = slots \cup {job}
  /\ calm' = (calm /\ InTime)
  /\ UNCHANGED <<tickVars, current_job, dump, writing, finished_jobs, accepted, null_used,
                 ribVars, fillVars>>

StartContinue ==
  \/ FillCaches \/ StartOpen \/ StartRefused \/ StartDump \/ StartCreate \/ StartSubscribe
-----------------------------------------------------------------------------
RecNext ==
  /\ null_used = "none"
  /\ \/ TaskManager \/ RibChangesBetweenTicks
     \/ \E w \in writing : Write(w)
     \/ StartMeas \/ StartContinue

RecSpec == RecInit /\ [][RecNext]_recVars
-----------------------------------------------------------------------------
(***************************************************************************)
(* Properties                                                              *)
(***************************************************************************)

\* With calls that wait for the job before and return in time, jobs do not overlap,
\* however calls and ticks interleave: the identifier of a job, its start, is its own,
\* and so is its file.
JobsDisjoint ==
  calm => \A i, j \in accepted :
            i # j => i.ms_end <= j.ms_start \/ j.ms_end <= i.ms_start

\* With such calls a dump has exactly one
\* chunk for every millisecond of its job.
DumpExact ==
  calm => \A w \in writing :
            w.dump = [i \in 1..(w.job.ms_end - w.job.ms_start) |-> w.job.ms_start + i - 1]

\* With such calls neither current_job_ nor dump_ is null when it is used, although nothing
\* is locked; what is null or dangling is of a BS that has gone, or lost a UE, while the
\* call made its chunk, and only then (recorder.cc:85-89 reads the RIB without a test).
NoNullUsed ==
  calm /\ null_used # "none" =>
    null_used \in RibPointers /\ \E e \in left : e[1] = chunk

\* With such calls no job is lost between the threads: if it is neither written nor with a
\* writer it is the current one and has its dump, and either the call that has made it is
\* about to connect its slot, or the slot is connected and is still to be called in the
\* job's last millisecond, when tick() compares last_tick + 1 with ms_end - 1 for equality.
NoneLost ==
  calm => \A j \in accepted :
            \/ j \in finished_jobs
            \/ \E w \in writing : w.job = j
            \/ /\ current_job = j /\ dump # NoDump
               /\ \/ start_pc = "created" /\ job = j
                  \/ j \in slots /\ tick + 1 < j.ms_end
                  \/ j \in slots /\ tick + 1 = j.ms_end /\ (tick_pc = "wait" \/ j \in todo)

\* With such calls a job is finished in the end.
JobsFinish ==
  \A s \in 2..MaxTick :
    (\E j \in accepted : j.ms_start = s)
      ~> (~calm \/ \E j \in finished_jobs : j.ms_start = s)

\* "job already running, starting next immediately after" (recorder.cc:68): the running
\* job goes on to its end, where the task manager's thread takes it away.
RunningKept ==
  [][current_job # NoJob => current_job' \in {current_job, NoJob}]_recVars
=============================================================================
