# FlexRAN controller: TLA+ verification project

FlexRAN is a controller for LTE radio access networks. Agents in the base
stations (BS) connect to it over TCP; it keeps what they report in the RAN
information base (RIB), runs applications over it, and offers them through a
REST interface. This directory holds models of the controller's code in
`src/src/`, the TLC configurations that check them, and TLAPS proofs.

Source paths below are relative to `src/src/`.

## 1. Inventory

### Threads

| thread | runs | started in |
|---|---|---|
| T, task manager | every millisecond: `rib_updater::update_rib()`, then the task tick of the applications | `core/task_manager.cc` |
| N, network | the asio `io_service`: accept, read, write, posted handlers | `network/async_xface.cc` |
| R, REST | one Pistache thread: calls of the applications | `north_api/call_manager.cc` |
| writers | one detached thread per finished record | `app/recorder.cc` |
| main | start-up, waits for a signal, stops the others in order | `core/rt_controller.cc` |

T and N are connected by two lock-free queues of 10000 messages (`in_queue_`,
`out_queue_`). T also erases sessions of N directly. R reads the RIB, changes
applications, connects slots to the signals of `event/subscription.cc` and sends
messages, all without locks; the signals have dummy mutexes ("Single-thread
callback", `event/callbacks.h`).

### Components

| component | state | operations | what must be right | modules |
|---|---|---|---|---|
| agent and BS directory (`rib/rib.cc`, `rib/agent_info.cc`, handlers in `rib/rib_updater.cc`) | pending agents, registered agents, BSs | connection, hello, disconnect | no exception or `end()` dereference; BSs complete; nothing kept of dead sessions; events agree with the RIB | `Rib`, `BsDirectory` |
| outbound path (`network/async_xface.cc`, `connection_manager.cc`, `agent_session.cc`) | `out_queue_`, posted handlers, sessions, write queues | `send_msg`, forward, deliver, write completion, close | each message once and in order; one write per socket; no forgotten queue | `Outbound` |
| southbound path (same files, `update_rib`) | sessions, pending reads, `in_queue_`, budget | accept, read, failures, update period | a dead session is closed and forgotten; messages of a session keep their order | `Southbound` |
| message framing (`network/protocol_message.cc`, `tagged_message.cc`) | buffer in the message or on the heap | construct, copy, move, assign, encode, decode, destroy | a message keeps its body; blocks are freed once | `Framing` |
| BS configuration (`rib/enb_rib_info.cc`) | configurations by agent, UE, logical channel | configuration replies, UE state changes | the merge converges to the state of the BS; both UE containers agree | `EnbRibInfo` |
| MAC statistics (`rib/ue_mac_rib_info.cc`, `cell_mac_rib_info.cc`, `rib_common.cc`) | statistics by UE and cell, HARQ state, frame and subframe | statistics reports, subframe triggers | groups are merged by flags; nothing is left of a UE whose RNTI is used again | `MacStatistics` |
| `rib_management` | BSs that are inactive | requests of configurations on the tick | goes on asking while something is missing | `RibManagement` |
| `stats_manager` | reports requested of each BS | BS added/removed (T), `set_stats_requests` (R) | what the list says is what agents report | `StatsManager` |
| `recorder`, `parse-bd` | current job, dump, finished jobs, tick slots; files | `start_meas` (R), `tick` (T), writer | each job records each of its milliseconds once and finishes; what is read is what was recorded | `Recorder`, `RecordFile` |
| `rrc_triggering` | BSs to be checked, cell IDs seen, a tick slot | BS events, tick, REST calls | equal cell IDs are found whatever the order | `RrcTriggering` |
| `netstore_loader` | two tick slots, one buffer, curl handles | REST and delegation requests, transfers | the right code goes to the BSs | `NetstoreLoader` |
| `elastic_search` | endpoints, intervals, four slots | REST calls, ticks, transfers | slots connected exactly as the settings say | `ElasticSearch` |
| `rrm_management`, `band_check` | lists for automatic association; everything else is in the RIB or at the agent | slice, association and cell calls with their checks, UE updates | slices do not share resources; UEs end in their slices; cells are in their band | `RrmManagement`, `CellConfig` |
| `plmn_management` | none; commands on their way | MME and PLMN calls | no MME twice; a cell is restarted in its band | `PlmnManagement` |
| task manager, signals, start and end (`core/`, `event/subscription.cc`) | ticks, slots, `g_exit_controller`, threads | loop, connect, disconnect, join | periodic slots are called once a period; everything stops, in order | `Controller` |
| REST handlers (`north_api/`) | none between calls | every route | one answer; queries show what was asked for | `NorthApi` |
| schedulers, delegation manager, neo4j client | - | - | - | not modelled: not built |

The hard behaviours are: T erasing sessions while N uses them; bounded queues
that drop silently and a budget per period; two ways (read, write) for one
connection to fail; several agents per BS whose messages overtake each other;
REST calls in the middle of T's handlers; checks against what an agent reported
before the last command reached it; jobs and slots tied to exact ticks;
connection objects that are assigned while their slot is still connected.
`PROJECT.json` lists each at its line under `hazards`.

## 2. Modules and the code

### Directory, network, configuration

**`BsDirectory`** is what the RIB promises, without how: agents announce
themselves; a BS is online from the moment its announced agents cover the required
capabilities until one of them leaves.

**`Rib`** has one action for each handler that changes the directory:
`NewConnection`, `Hello`, `Disconnect`, of one session each. T runs handlers one
after another, so a handler is one step. `pending_agents`, `agent_configs` and
`eNB_configs` are the containers of class `Rib`; `bs_list` is what a subscriber of
`bs_add_`/`bs_remove_` knows; `aborted` records that an exception left the updater
or an `end()` iterator was used. A hello carries any BS and any set of
capabilities. `Disciplined` restricts sessions to at most one hello, before
their disconnect (what the agents do); without it they may do anything in any order.
`Directory` is the refinement mapping to `BsDirectory`.

**`Outbound`** splits `send_msg` at its two effects, push and post, because several
threads run it, and splits the handler in N between the two look-ups of
`send_msg_to_agent`, because T may erase the session between them. `fault` is
set where the code uses a null session or an uninitialised pointer; a fault ends
the behaviour.

**`Southbound`** extends `Rib` with the way of the messages: N accepts, reads and
queues, T takes at most `Budget` messages a period and runs the handlers of `Rib`
with their calls of `release_connection`. A failed read and a failed write each
queue a disconnect. Read handlers that run after their session was erased read the
session ID from freed memory: the model lets them read their own or that of a
session accepted later. `confused` collects the sessions this or a full queue has
touched, and only what is promised to the others is required.

**`Framing`** keeps messages and the heap apart: `data` points into the message or
to a block. Every constructor, assignment and destructor of both classes is an
action; `faulty` records a block freed or used when it was not allocated, or beyond
its end, and `meant` what each message was given. The header of a message that comes
in is any number of 32 bits: it is read into an `int` (`AsSize`), which becomes a
`size_t` and then the `uint32_t` of the length (`AsUint32`), and the size of the block
wraps modulo `SizeMod`. From `Half` (2^31) on the allocation fails, or the block is
shorter than the header that is written to it. `sane` is a history variable: no such
header came. `BuffersSound` is promised for as long; the code does not reject them.
The runs use 2^3 and 2^6 for 2^31 and 2^64.

**`EnbRibInfo`** is one online BS with several agents. A configuration is one value
per agent: the fields this agent fills. Agents answer requests with their part as it
is at that moment; queues per agent keep order, nothing else does. RNTIs are
used again after a UE has gone. `mac_agent` (who knows the logical channels) is
chosen in the initial state.

**`MacStatistics`** is one BS with one agent. A group of values is one value with
its flag; a trigger packs frame and subframe into 16 bits as `get_sfn_sf` does.
Values and HARQ outcomes of a UE that the RIB does not know are left out.

### Applications

**`RibView`** is what applications see of the RIB (which BSs, their cell, NetControl,
UEs) with the three events that change it. **`RibManagement`** (requests of
configurations on the tick, inactive BSs) and **`RrcTriggering`** (the cell ID check
and the measurement, handover and NetControl commands) are composed over it: one
event of the RIB is one action, in which every subscriber takes part. A reply
may come before the cell of its BS is up and then has no cell ID.

**`StatsManager`** is one BS with T's `bs_add`/`bs_remove` and R's
`set_stats_requests` in steps between which the other thread may run. `it` is R's
iterator; using it when it is `end()` or erased is the action `SetFault`.
`outlived` is a history variable.

**`Recorder`** interleaves the steps of `start_meas` (R) with those of the tick (T):
begin of the signal, each slot's chunk, the move of job and dump to the writer, and
the reset after it. `calm` is a history variable: every call so far found no job,
slot or writer under way, and connected its slot before the tick of its start. Before
it tests the current job, `start_meas` makes two chunks of each BS for nothing
(`FillCaches`): look-ups of the BS and its UEs in the RIB, and a reference to the UEs,
one step each, while T removes BSs and UEs between its ticks
(`RibChangesBetweenTicks`). A null pointer, or a reference that dangles, is used there
as in the code; `left` is a history variable of what has gone since the chunk was
begun. So `NoNullUsed` says that `current_job_` and `dump_` are never null, and
that a pointer into the RIB is null only if its BS, or a UE of it, has gone. What
these chunks contain is thrown away, hence not modelled. The chunks of the tick
itself read the RIB in T, where nothing changes it.
**`RecordFile`** writes a dump to a binary file and reads it back as `parse-bd` does,
or writes JSON. A dump is a sequence of chunks, a chunk a function from BSs to what was
recorded of them; a file is a sequence of numbers, one per field; a message is its
length and its bytes; counts are modulo `CountMod`, which stands for 2^16.

**`NetstoreLoader`** has the slots, the transfers of curl and their one buffer. A
connection object (`tick_list`, `tick_retrieve`) names the slot it was assigned
last, so a slot may lose its name. The loops of `process_list` and
`process_retrieve` go on after they have disconnected their slot: `looping`.

**`ElasticSearch`** has its four connection objects in the same way; what is in a
batch is left out (a batch may be full at any time).

**`RrmManagement`** is one BS: the calls with all their checks, the commands on
their way, an agent that applies them in order, and reports on their way back. The
application sees `slice_config` and `ue_config`, what was reported last. `careful`
is a history variable: every change of slices waited for the report of the one
before, gave the positions of the slices it mentions, and stayed within `rbg[110]`
(`RbgEntries`), the array of the overlap check; beyond it the check reads and writes
something else, and either answer is possible (`MayPass`, `MayFail`). A UE is in
`Unset` when it has no slice: it then reports no slice ID (`has_dl_slice_id()`,
`has_ul_slice_id()`), and the application does not consult the lists of that direction.
When it is put into a slice is the agent's affair (`UeJoins`). `QuietInLists` is what
the lists promise with no assumption on the calls: a UE that has a slice and about
which nothing is on its way is in the slice of every list that has it, unless a slice
was dropped. That the API promises it of every UE whose IMSI is
known is noted in section 5. A request that gives one of `posLow` and `posHigh` only is not
among those of the model. **`CellConfig`** is the
check of a cell before a restart as an operator with the whole band table, the
products in 32 bits and the bands in 8; frequencies in Hz exceed TLC's integers and
are pairs. **`PlmnManagement`** has the MME and PLMN calls against what was reported
last, the commands, the agent, and the cell call that uses `CellConfig`.

### Start, end and REST

**`Controller`** has the threads of `main()`: registration of the calls, the tick in
the steps of `manage_rt_tasks`, slots that a REST handler connects some time after
it has read `last_tick()`, the signal, the joins. A task whose attributes the kernel
refuses runs nothing. `ShutdownRest` only notifies the REST thread, which ends when it
is in no handler (`RestEnds`); meanwhile `main()` returns, and its objects go in the
order of their destructors: those with the handlers and the description of the API
(`DestroyCalls`), then the endpoint, which joins the thread (`DestroyNorthApi`). A
handler that runs or begins after `DestroyCalls` may end the process (`UseDestroyed`)
or go on. What was constructed before `north_api`, the applications and the
network, is there until the thread has ended: that is the part of `StoppedInOrder`
about it.

**`NorthApi`** has the routes as `register_calls` makes them, with the parameters
each may lack, and a handler per route. What the applications do with a call is
in their modules: here they accept or refuse. The statistics queries, which read
the RIB in several steps while BSs and UEs come and go, are modelled step by step;
`held` and `met` are what was there all the time and at some time of the call.

The `MC*` modules give the constants their values. Operators named `Mut...` are
mutants: the definition next to them with a plausible bug, which no specification
uses.

## 3. Runs

| run | instance | states | shows |
|---|---|---|---|
| `rib_disciplined` | 3 sessions, one shared BS or own IDs, 2 required + 1 optional capability | 5 265 | implements `BsDirectory`; nothing kept of ended sessions; events agree |
| `rib_any_order` | 2 sessions, any messages, a BS ID that collides with an assigned one, all capabilities required | 118 000 | no abort; pending agents stay mergeable; BSs complete and immutable; no complete set waits |
| `handover` | messages: 2 threads with up to 2 each to one session and 1 of either to the other, queue of 2; recorder: 2 jobs of 1 or 3 ms in 8 ticks, 1 BS, 1 UE; fair | 152 000 | each accepted message is written, once and in order; dumps are exact, no job is lost, each is finished, what is null has gone from the RIB |
| `outbound_close` (violation) | 2 threads, 1 session, 1 message each | | a session is closed between the two look-ups |
| `southbound` | 2 sessions, 2 hellos each, queue of 3, budget of 2, fair | 616 000 | order, release and eventual forgetting of sessions |
| `southbound_budget` (violation) | the same | | the message after the budget is lost |
| `enb_rib_info` | 2 agents, both splits of roles, one RNTI used again, 2 values, 3 UE events | 1 723 000 | convergence and agreement of the containers |
| `stats_manager_end` (violation) | one BS online 3 times, 3 calls | | a call between BS creation and `bs_add` uses `end()` |
| `recorder_replaced` (violation) | the recorder of `handover` | | a second call deletes the running job |
| `rrm_association` (violation) | 2 slices, 2 groups, 1 UE, 3 calls | | a change of the uplink's algorithm takes UEs out of their downlink slices |
| `parts` | eleven parts, each on its own | 610 000 | the safety of the other applications, of the end of the process, files, messages, statistics and REST calls |
| `parts_live` | three parts, each on its own, fair | 71 000 | BSs are checked and none is forgotten, UEs get into their slice and are there at rest, the process ends |

**How `parts` works.** The eleven parts share no variables (`NorthApi` and
`RrcTriggering` share `RibView`), and each is small. `MCParts` chooses in the
initial state which one runs (`focus`); the others stay as they are. It is the
union of eleven separate checks, not a product: the state graph has one component
for each part. `MCPartsLive` does the same for the parts with something that must
happen in the end, each with its own fairness, and `MCHandover` for `Outbound` and
`Recorder`, in which several threads hand something on without a lock.

| part in `parts` | bounds |
|---|---|
| `StatsManager` | 2 reports, lists of up to 2, online 3 times, 3 calls |
| `RrcTriggering` | 2 BSs, equal cell IDs, own ones, or none yet |
| `NetstoreLoader` | 3 apps of which NetStore has 2, 2 requests |
| `ElasticSearch` | 2 endpoints, intervals 0 and 50, enabled 2 times |
| `RrmManagement` | 2 slices on 3 groups, of which the check has room for 2, 1 UE, 14 slice requests, 2 calls (3 calls on 2 groups in `parts_live`) |
| `PlmnManagement` | 2 MMEs, 3 PLMN lists, 5 cells at the edges of their bands, 2 commands |
| `Controller` | 2 groups of calls, 2 slots of period 2, 5 ticks |
| `RecordFile` | dumps of up to 2 chunks, with messages that cannot be serialised; counts modulo 3 |
| `Framing` | 2 messages, bodies that fit and bodies that do not, 3 blocks; headers below, at and above 2^31 |
| `MacStatistics` | 2 RNTIs, 2 groups, HARQ processes 0 and 7, frame 1023, subframes 0 and 9; 4 messages, 2 on their way |
| `NorthApi` | every route with every combination of missing parameters, 2 BSs, 1 UE, 2 changes of the RIB during a call |

Why these bounds are enough to be interesting: three sessions are needed for a BS
of two agents that loses one while a third comes; queues of 2 or 3 overflow with
the messages of two sessions, and the budget is smaller than the queue; three UE
events are attach, detach and attach of the same RNTI; three times online lets an
iterator outlive two entries; eight ticks hold two jobs one after the other and one
that starts at the end of another; two requests for apps are one under way and one
that comes in between; three slice calls are two that make slices and one that
changes, moves or removes them (safety is checked with two, on more requests), and the
reports between them may be late; four messages
of statistics are a UE that comes, goes, comes again and is reported. Deadlock is
not checked: every bound makes the model stop, and the real system may be idle.

What the violations mean is under `findings` in `PROJECT.json`. Properties of the
passing runs exclude exactly what these findings break, and what the code does not
promise, by history variables: `confused`, `fault`, `outlived`, `calm`, `left`, `single`,
`careful`, `careful_calls`, `dropped`, `sane`. A hazard whose property exempts it has a
note that says so: the property shows that nothing else goes wrong.

### Fairness

* `handover`, messages: a thread that has pushed posts; the io_service runs posted handlers
  and an outstanding write completes or fails. Sending and closing need not happen.
* `Southbound`: the updater runs (T's loop is driven by a timer), and the
  outstanding read of a closed socket is aborted (asio's guarantee). Peers owe
  nothing.
* `handover`, recorder: ticks go on, a REST call runs to its end, a writer ends. New
  calls need not come.
* `parts_live`, rrc_triggering: ticks go on; a BS that is there answers requests,
  and its cell comes up (otherwise it has no cell ID to check).
* `parts_live`, rrm_management: commands arrive, the agent reports every change, the
  task manager handles reports. No call has to come.
* `parts_live`, controller: the threads go on, a REST handler that has begun ends, and
  the REST thread finds the notification of the endpoint, for which its poll loop
  looks between handlers. Nobody has to send a signal.

## 4. Proofs

Every invariant and action property of the passing runs is a theorem, for arbitrary
constants under the modules' named assumptions. A run shows a property on its
instance; the theorem takes away the bounds: any number of sessions, agents, UEs,
slices, slots, values, messages on their way, chunks and bytes of a file, and jobs of
any length.

Assumptions besides those on types and bounds: `CellAssumption` (numbers of a
request are what the program's integers hold), `BlockAssumption` (the buffer
within a message is not a heap block), `FrameAssumption` (frames have 10 bits),
`ValueAssumption` and `NoUeAssumption` (what stands for nothing is not a value or a
UE), `NextIdAssumption` (sessions are numbered from 0), `DumpsAssumption` (a dump is a
sequence of chunks, and a chunk has finitely many BSs), `RequestAssumption` and
`RegexAssumption` (requests are what their protobuf messages and token lists can
hold; the mark for no slice ID is no slice ID), `LengthAssumption` (headers have 32
bits, lengths of the controller's own messages fit an `int`, and 2^32 and a header
fit a `size_t`).

* **`RibProofs`**, the bookkeeping. Invariant `IInv` = type correctness, no abort,
  `RegisteredInBs`, `BsWellFormed`, `PendingMergeable`, `SubscribersAgree`. None is
  inductive alone: no abort needs mergeable pending agents and registered agents in
  their BS, and the latter survives removals because members carry their BS's ID.
  Proved for agents in any order; `BsWellFormed` and `PendingMergeable` together are
  `MergesSound`. The action property `BsImmutable` follows, and `NoCompleteBsWaits` by an
  invariant of its own.
  *The directory.* For disciplined agents `DInv` adds that a known agent has said hello
  on a connection that is open, that it is pending at most once and never while
  registered, and that members are registered. From it: ended sessions are
  forgotten, and `Rib` refines `BsDirectory`, action by action.
  *The queue.* First the refinement `RibBehindQueue`: `SbSpec` implies `Rib!Spec`, so all
  of the above holds behind the queue. Then, for each session that no overflow or freed
  ID has touched: its new connection is ahead of its messages, a disconnect is queued
  only for a reason, a hello of a session that no longer reads has a disconnect behind
  it, and what the RIB has of a session of one hello goes with the one disconnect that
  comes (`WillBeForgotten`). The last is inductive only with the places of all three:
  the connection, the hello and the disconnect are each in the queue, handled, or
  impossible.
* **`OutboundProofs`**. `Accounting`: the queue is as long as posted handlers and
  threads about to post together, for any number of threads. From it no pop finds
  the queue empty; with it one write per session and no forgotten queue (`WritesGoOn`).
  `DeliveredInOrder` says of each thread and session that the numbers
  of its messages form an interval which is cut in four: what was written, the write
  queue, the message in N's hand, `out_queue_`. A step moves one cut by one.
* **`EnbRibInfoProofs`**. Type correctness carries that a known UE has its RRC
  agent's part, so it differs from no UE; hence a merge neither adds nor removes UEs
  and both containers always have the same. `SettledUes` and `SettledLcs`
  (`RibSettles`) are about quiet states, so `SettleInv` says what the messages on their way will make of the
  RIB. The RRC agent's lead over a witness sequence of states from
  what the RIB knows to what that agent knows. For the others, and each UE of the BS:
  a report is still to be handled that makes the RIB ask, or a request is to be
  answered, or the last reply is right, or what is known is.
* **`ControllerProofs`**. `StoppedInOrder` is not inductive: `main` may only go on
  because it has joined the others, so `Joined` says what it has seen at each of its
  places, and that no thread leaves its end is a lemma of its own. The REST thread ends
  only after `main()` is past `ShutdownRest`, and is waited for in `DestroyNorthApi`
  alone. `OncePerPeriod`
  counts: the next call of a slot is due at one tick, and those so far are as many as
  whole periods since its start. `AnswersRight` (of `NorthApi`) by `NorthInv`, one
  predicate for each place of a handler, in terms of `held` and `met`: what was
  there all the time and has not been read is still to be read, and what is in the
  answer was there at some time. The table of routes is only used for its parameters.
* **`ManagementProofs`**. Refused calls send nothing (`RefusedChangesNothing`).
  `NoOverlap`: with careful calls a change of the slices is at one place only, as a
  command, at the agent, or in a report; while it is none or a command, the RIB shows
  what the agent has; and a command on its way leaves the agent's slices
  disjoint (`SafeFor`). The check fills the array for existing slices too, so that what
  it takes for existing ones (`Filled`) contains what they have. The property is restricted to directions whose algorithm is
  static: only that one has positions.
  `QuietInLists` by `ListInv`: of a UE the RIB has, or will have with the last report on
  its way, what the agent has, unless the agent still has a change to report; the
  slices that lists and reports name are at the agent as long as none was dropped; and a
  list that differs from the RIB, of a UE that has a slice there, implies that something is coming: a change to be
  reported, a report, or a command that moves the UE. A call with a new list sends
  that command, a report makes the application send it, and when the agent takes it,
  it has a change to report. The types (`RrmTypesCorrect`) need those of the commands
  and reports on their way.
  `NoMmeClash` as `NoOverlap`. `CellInBand` needs that the search finds the *first* row
  of the table, which is there because `<` on the naturals is well-founded
  (`LeastNumber`). `CollisionWarned`: BSs with equal cell IDs that were both checked have
  been warned of. `NoneForgotten`: each BS was checked or is to be, by a slot that is
  connected; it is inductive as it stands.
* **`ServiceProofs`**. `Recorder`: with calm calls it is in one of four phases (no
  job, one that starts, one that runs, one that was moved), and a running job's dump
  has each millisecond so far, once; so `DumpExact`, and that `current_job_` and `dump_`
  are not null. For the chunks before the job, `FillInv` says that a BS or UE that was
  found is in the RIB or in `left`; so `NoNullUsed` (`FillHolds`). With the
  step-by-step fact that a job is current until it is with a writer, and there until it
  is finished (`Somewhere`), the phases also give `NoneLost`. Job times are
  ordered (`JobsDisjoint`, which no run lists) since `last_tick() + 2` is not before
  any earlier end. `NetstoreLoader`: with one transfer at a time the buffer is
  that of the one handle. `StatsManager`: where `set_stats_requests` is determines
  which positions of the list are asked for, in the middle of an event too.
  `Framing`: the one message under construction may share a block with the one it
  takes it from, and no others do; `Freed` and `Sound` are states before and after a
  constructor, so that copy, move and assignment are compositions. While headers fit an
  `int`, the conversions of `decode_header` are the identity, which is a lemma and no
  part of the model. `MacStatistics`:
  as for the RRC agent, the messages on their way lead over a witness sequence of
  states to what the agent has. `ElasticSearch`: slots that are connected are those the
  settings want, each with the name that its connection object has; new slots get a
  fresh number, which exists (`LeastNumber`).
* **`FoldSteps`** says of a fold over a sequence, for every operator `op`, that there is a
  sequence of results which begins with the base, takes one element at each step and
  ends with the fold (`Steps`). `FoldLeft` is defined by a recursive function on the
  subsets of the domain; that this function exists is proved first, from the
  well-foundedness of `<`. `op` is a constant of the module, so a module of proofs
  has an instance for each operator that its model folds, and proves by `UpTo` what
  holds after each number of steps.
* **`RecordFileProofs`**: `FilesReadable`. `Chain` is a way of writing parts one behind
  the other, with the position of each. For each `write_binary_*` and `read_binary_*`
  (message, message with HARQ, BS, chunk, dump): what the one appends, the other takes
  back from the same position of whatever file it is in, and leaves the position
  behind it; a part that cannot be written makes the whole fail. Counts are read back
  as they were if they are below `CountMod`, which the property requires of the dump.
  The BSs of a chunk are written in an order that exists and has each once
  (`InOrderOf`). For JSON: elements and commas alternate, since no element is a comma.

For the proofs some definitions were put in another form, which TLC finds equal where
it can compare them: `DeliveredInOrder` no longer filters queues; folds are over named
operators; `InOrderOf` is a `CHOOSE` in place of a sort, `Others` a fold in place of
`SelectSeq`, which has no definition the provers can expand; and specifications of
their own (`PlmnSpec`, `RrcSpec`, `NsSpec`, `FrameSpec`, `MacSpec`, `NorthSpec`,
`FileSpec`) name what `MCParts` composes.

Types: theorems for `Rib`, `Outbound`, `Southbound`, `EnbRibInfo`, `StatsManager`,
`Recorder` and `RrmManagement` (the last three for any calls, calm, careful or not);
elsewhere invariants contain the types they need.

What the liveness properties rest on is proved as safety: that whatever is awaited has
somebody left who does it. `EventuallyWritten` has `Accounting` and `WritesGoOn`,
`DeadForgotten` has `WillBeForgotten`, `JobsFinish` has `NoneLost`, `EachChecked` has
`NoneForgotten`, `AutoAssociated` has `QuietInLists`, `SignalEnds` has `StoppedInOrder`.

Model-checked only:

* Liveness itself (`EventuallyWritten`, `DeadForgotten`, `JobsFinish`, `EachChecked`,
  `AutoAssociated`, `SignalEnds`) and that the fair actions are enabled: TLAPS supports
  neither.
* The violations, which are behaviours.

## 5. Not modelled

* **Schedulers and delegation** (`app/flexible_scheduler.cc`, `remote_scheduler*.cc`,
  `delegation_manager.cc`, `enb_scheduler_policy.cc`, `enb_scheduling_info.cc`,
  `neo4j_client.cc`): `app/CMakeLists.txt` does not list them,
  `core/rt_controller.cc:222-230` has them commented out, and they use interfaces
  that are gone. No state of the program is theirs. With them the tables of
  transport block sizes and `harq_scheduled()` in `rib/` have no caller.
* Contents of messages, statistics and records; logging, wording, profiling,
  log set-up.
* Allocation failure (but of what a header of 2^31 or more asks for), timer overruns, the accuracy of timers.
* Data races on containers themselves (`sessions_`, `bs_list_`, `finished_jobs_`,
  RIB maps and protobuf messages read by R, the list of slots of a signal): an access
  is one step. So
  `get_job_info()` (`app/recorder.cc:203` appends in another thread without a lock)
  and the dummy mutex of `event/callbacks.h` are atomic here.
* The batch contents of `elastic_search`, and the xid of commands.
* A detached writer that is still running when `main()` returns.
* Agents, NetStore, curl, Pistache, asio and the kernel: external, modelled by
  what they may do.

Disagreements of code and comments that the models show but no run is about:

* "Whenever a UE whose IMSI is known ... is not in the slice it was associated to, it
  will automatically be associated to this slice" (`north_api/rrm_calls.cc:535`): a
  UE that reports no slice ID is left alone (`app/rrm_management.cc:424`, `:439`, as
  the comment at `:413` says). `QuietInLists` and `AutoAssociated` are of UEs that
  have a slice.
* "Once task_manager_thread and networkThread return, north_api will be shut down too"
  (`core/rt_controller.cc:275`): `shutdown()` only notifies, and the objects with the
  handlers (`:258-271`) are destroyed before the endpoint joins the REST thread. A
  handler in a destroyed object is `UseDestroyed` in `Controller`.

Behaviours of the code seen while modelling that no property is about, because no
document says what is right:

* A reply without S1AP configuration wipes the one another agent has reported
  (`rib/enb_rib_info.cc:81`).
* A BS that is removed while inactive stays in `inactive_bs_`
  (`app/rib_management.cc:49`) and is logged as active again when it comes back.
* A BS that goes before it has a cell ID stays in the set to be checked
  (`app/rrc_triggering.cc:81`), so the tick is never disconnected.
* While logging is active, `set_freq_stats` connects `process_config` in place of
  `process_stats` (`app/elastic_search.cc:268`).
* Requests for apps that overlap mix their transfers and buffer
  (`app/netstore_loader.cc:224`); the code goes to all BSs known when the transfer
  ends (`:153`).
* `bs_dump`'s comparison compares a member with itself (`app/recorder.cc:48`), and
  `enb_rib_info.cc:269` appends a number as a character.
* A message header of 2^31 or more ends the process or overruns a block
  (`network/protocol_message.cc:75`); positions of slices beyond 109 overrun `rbg`
  (`app/rrm_management.cc:777`); a BS or UE that goes during the chunks that warm the
  caches is dereferenced (`app/recorder.cc:170`). The properties exempt these.
* A BS that goes during a query for a UE is dereferenced
  (`app/stats_manager.cc:237`), which `NorthApi` has as the place `fault`.

## 6. Plan

1. Larger instances: three BSs in `RrcTriggering`, two UEs in `RrmManagement`;
   requests with one of `posLow` and `posHigh`.
2. `get_job_info()` against the writers, if an access to a container is ever split
   into steps.
3. The same count of whole periods as in `OncePerPeriod` for slots that
   `subscribe_task_tick_extended` connects.
