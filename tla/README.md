# A TLA+ model of Mahiron 5

Mahiron 5 is a Go server for digital television tuners. It hands the tuners of
the machine (and those of remote Mahirons) to many HTTP clients, shares one
transport stream per channel, collects services, logos and programme data from
the streams with background jobs, and publishes changes as events. The hard
part of it is not an algorithm but the way its parts share state: every manager
is a Go object with a mutex, used by request goroutines, job goroutines, timers,
process watchers and a shutdown at the same time.

This directory models that concurrency in TLA+. Paths below are relative to the
repository's `internal/` unless they begin with `ts/` or `web/`.

## 1. Inventory

| Part | State | Operations | Talks to |
|---|---|---|---|
| Job manager `job/manager.go` | definitions, history, queue, active jobs, active keys, exclusive keys, slot counter, shutdown context | Register, AddSchedule, Enqueue, Rerun, Abort, dispatch, run, retry timer, SetJobResult, Shutdown | gocron, handlers, event hub |
| Job handlers `job/*_gatherer.go`, `service_updater.go` | none of their own | gather EPG and logos, scan services, enqueue follow-up jobs | streams, EPG, services, job manager |
| Tuner manager `tuner/manager.go`, `status.go` | in-use map, runtime per tuner (marks, device, priority, users), round-robin index, `changed` channel | AcquireDevice (free, grab, wait), release, KillProcess, markRunning/Stopped/Fault, addUser, removeUser | process devices, event hub |
| Process device `tuner/device.go`, `util/process.go` | process, done channel, stopping flag, error | Start (once, or with retries and probe), Stop, copyRaw/finish | operating system |
| Stream manager `stream/manager.go`, `session_registry.go` | sessions and creations in flight per channel, shutting-down flag | getOrCreate, remove, Shutdown | pool, sessions |
| Channel session and demuxer `stream/channel`, `stream/demux` | stopped flags, subscribers, bounded queues, section workers | subscribe, dispatch, unsubscribe, close, Stop | input, EIT and logo updaters |
| Live sources `stream/source`, `util/dynamicmultiwriter.go` | route sources and creations, references, writer queues | Acquire, attach, detach, Stop, fan-out | tuner manager, remotes |
| Data broadcast `stream/databroadcast`, `ts/dsmcc_carousel.go` | carousel modules and their budgets, last DII, subscribers, stores of completed modules | observe sections, subscribe, serve a version of a module | session, other sessions' stores, HTTP clients |
| Remote client `stream/remote` | connection, mirrored services and programs | event sync with reconnection | other Mahirons |
| EPG `epg/` | snapshots per service, topology, readiness | collect, merge, update | streams, program manager |
| Program and service managers `program/`, `service/`, `servicescan/` | tables in SQLite, event queue and timer, service order | upsert, delete, replace a channel, flush events | database, event hub |
| Event hub `event/hub.go` | bounded log, subscribers | publish, subscribe | HTTP clients |
| Transport stream library `ts/` | packet and section buffers | read packets, assemble sections, filter services | demuxer, EPG |
| Application `app/` | the managers | start, five-second concurrent shutdown | all |
| Web API, server, database, configuration, observability, web UI | | pure I/O, generated code or read-only settings | |

What makes each part correct, and hard:

- **Jobs**: slots, keys, queue and history agree whatever retries, aborts and
  completions interleave; dependencies run first; a finished job stays so;
  everything finishes, at the latest with Shutdown. Hard: the retry timer races
  aborts; the shutdown context is cancelled outside the lock; the history is
  trimmed while it is walked.
- **Tuners**: a tuner has one holder; a stale Stop, completion or user reference
  never touches the next reservation; waiters are woken; a stopped device leaves
  no process. Hard: grabs, kills and the owner's own Start and Stop of one device
  overlap, and everything that blocks happens outside the lock.
- **Sessions**: one creation per channel; every request is answered; a demuxer
  runs exactly while it has subscribers; Shutdown drains what is in flight.
  Hard: a session dies asynchronously and clears the registry afterwards.
- **Live sources, EPG, programs, events, sections**: references and buffers are
  balanced, a change is published once and in order, a bounded queue loses only
  what it says. Hard: limits, slow consumers, timers.
- **Data broadcast**: the byte budgets are exact, a served module has the bytes of its
  version and no others, a subscriber has no gap in its events. Hard: blocks come late,
  payloads move between carousel and store, DIIs and PMTs come and go in any order.

`PROJECT.json` lists every component with its status and every hazard with the
line where it bites and the property that would catch it.

## 2. Plan

1. *Done*: `JobManager`, `TunerManager`, `SessionRegistry` and their instances.
2. *Done*: `LiveSources` (route pool and broadcast) and `MultiWriter`, which is
   shown to implement the abstract `Fanout`.
3. *Done*: `ProgramEvents`, from an update of the programs to a client of the
   event stream.
4. *Done*: `Demuxer`, `ProgramGate` and `SectionUpdates`, the packet and section
   paths of a session.
5. *Done*: `SectionAssembler`, `EITSnapshot` and `EPGCollection`, from packets to a
   stored programme guide.
6. *Done*: `DSMCCCarousel` and `DataBroadcast`, from data blocks to the modules that
   clients fetch.
7. *Done*: proofs of every safety property that the passing runs check.
8. The application's shutdown as a composition of the managers' shutdowns; the
   order of services as a pure operator checked against a reference definition.

## 3. Modules

| Module | Role |
|---|---|
| `JobManager` | `job/manager.go` |
| `TunerManager` | `tuner/manager.go`, `status.go`, `device.go` and `util/process.go` together |
| `SessionRegistry` | `stream/manager.go`, `session_registry.go`, the life cycle of `channel/session.go` and `demux/` |
| `LiveSources` | `stream/source/pool.go`, `broadcast.go` |
| `MultiWriter` | `util/dynamicmultiwriter.go` |
| `Fanout` | abstract: what a fan-out promises its readers |
| `Demuxer` | packet path of `stream/demux/demuxer.go`, `subscription.go` |
| `ProgramGate` | `stream/demux/program.go` |
| `SectionUpdates` | `stream/channel/section_updates.go` and the demuxers of `channel/session.go` |
| `SectionAssembler` | `ts/section.go` |
| `EITSnapshot` | `epg/snapshot.go` |
| `EPGCollection` | `epg/gather.go`, `collect.go`, `collect_workers.go`, `remote_sync.go` |
| `DSMCCCarousel` | `ts/dsmcc_carousel.go`, as operators |
| `DataBroadcast` | `stream/databroadcast/data_broadcast.go`, `module_cache.go` |
| `ProgramEvents` | `program/manager.go`, its store, `event/hub.go` and the event stream's handler |
| `MC_JobManager`, `MC_TunerManager`, `MC_SessionRegistry`, `MC_DataBroadcast` | constants for TLC, one component; the last three for the findings' runs |
| `MC_TunerPath`, `MC_StreamPath`, `MC_DataPath` | constants for TLC, several components in one run |
| `SequenceLemmas` | facts about sequences without repetition, and about loops written as recursive functions |
| `JobManagerProofs`, `TunerManagerProofs`, `MultiWriterProofs` | theorems about the module of that name |
| `StreamProofs` | theorems about `SessionRegistry` and `LiveSources` |
| `DemuxProofs` | theorems about `SectionUpdates`, `Demuxer` and `SectionAssembler` |
| `DataPathProofs` | theorems about `ProgramGate`, `EITSnapshot`, `EPGCollection` and `ProgramEvents` |
| `BroadcastProofs` | theorems about `DSMCCCarousel` and `DataBroadcast` |

`MC_TunerPath`, `MC_StreamPath` and `MC_DataPath` put several components in one run. They share no
variable; `component`, chosen in the initial state, says which of them a behaviour
is about, and the others stay where they start. A run therefore explores the sum
of the components' state spaces, never their product, and a property of one
component is checked in all of that component's behaviours. In `MC_StreamPath`,
which has fairness, nothing fair is enabled in a component that rests.

A definition has the name of the Go function it models, or of the part of it
between two unlocks. Definitions that begin with the comment "Mutant:" are
deliberately wrong variants: put in the place of the definition after them they
must break a property, which shows that the property looks at the code.

### JobManager

Every method holds `JobManager.mu`, so a method is one action, with two
exceptions. `Shutdown` cancels the shutdown context before it locks, so that the
loop of `dispatchLocked` may see the change between two rounds: a call that
dispatches leaves `mu = "dispatch"`, and `DispatchStart` and `DispatchEnd` are the
rounds of the loop and its end. And `Shutdown`'s own loops are stepwise, because
the one over the history is a `range` over an array that `trimHistory` shifts in
place: `ranged` is that array and `ShiftedArray` what the deletion leaves in it.
After its loops Shutdown waits for the handlers: it returns nil (`ShutdownReturn`), or
an error because the scheduler did not stop or the context was done first
(`ShutdownFails`).

Executions are taken from `Jobs` in a fixed order. A handler's return is one of
`Results`; `RetryIf` is part of that choice. A cron tick, and `RunSchedule`, which
runs the scheduled task at once, are `CronTick`. Time is abstract: a retry timer
may fire at any moment. Error texts, timestamps, events and metrics are left out.

### TunerManager

The critical sections of `tm.mu` and of the device's mutex, and the blocking waits
between them, are the steps. A *client* acquires a device and owns it until its
broadcast stops it; an *administrator* calls `KillProcess`; a grabber stops
somebody else's device. All three run the same `Stop`: `StopBegin` reads process
and done channel, `StopReturn` or `StopExpire` ends the wait, `StopRelease` runs
the managed device's once. `Start` is `StartBegin`, then `StartOnce` or, with
retries, `StartAttempt`, `Spawn`, `Track` and a probe, and the unwinding of an
attempt; `MarkRunning` or `StartFailed` and `StartFailedRelease` end it. A device
is a new number for every reservation, as the code allocates a new
`managedDevice`; a process is a device and the start attempt it came from, so that one
that outlives its attempt is still seen. The processes in `Unsignalled` (a command that
runs as another user) may refuse SIGTERM or SIGKILL: `Process.Stop` then returns the
error without waiting (`StopRefused`, `UnwindRefused`), and its callers go on and release
the tuner; `refused` remembers such processes. `woken` holds the
clients whose captured `changed` channel is closed.

### SessionRegistry

A creation and the session it yields share a number. `getOrCreate` is split at
every unlock: `Acquire`, `CheckAlive` (outside the lock), `RemoveIfSame`, and the
creation, which a caller performs between `Acquire` and `CreateOk` or
`CreateFails`. A demuxer is new, running, canceled (told to stop, the goroutine
unwinds), closing (done is closed, `onEmpty` still to run) or gone. `sourcesDown` are the
sessions whose broadcast `Pool.Shutdown` stopped: those that exist then, and of the
creations that an expired Shutdown did not await (`Late`) any that already had theirs in
the pool. Local sessions
only; one subscriber per caller stands for packet and section subscribers alike.

### LiveSources

A step is one critical section of `Pool.mu` or `Broadcast.mu`, or a call that may
take long. A caller goes through the routes of its channel in order of priority
(a disabled one is skipped, a remote one gives a lease without state), joins the
route's source or its creation, or creates it: the reservation, `commitRouteSource`
and the closing of the creation's channel are steps of their own, so others come
between. `attach` starts the source with the first subscriber, `detach` stops it
with the last, and the source's own end and `Shutdown` run the same `Stop`. The
tuner manager is seen as Pool sees it: it reserves, makes the caller wait, or
refuses. A device and the broadcast made of it share a number.

### MultiWriter and Fanout

Writers hold the read lock; `Attach`, `Detach` and `Close` need the write lock. The
three selects of `enqueue` (try, drop the oldest, try again) are three steps, since
the subscriber's goroutine takes from the channel without the lock. A buffer has
its reference count, the chunk last copied into it and a place in the pool or not,
so that a release too many shows as a buffer that is rewritten while it is queued.
`MaxBuffers` bounds how many buffers the pool makes; a Write that would need one more
does not begin.

`Fanout` says what readers may rely on: they get chunks that were written,
unaltered, each at most once, those of one writer in order; chunks may be missing.
`ImplementsFanout` is that specification under the mapping `inbox <- Waiting` (the
chunks in a reader's queue and hand, read from the buffers), `got <- received` and
`offered <- served`.

### Demuxer and ProgramGate

`dispatch` walks the list of subscribers by index while `finishPacketLocked` deletes
from it, so the walk is stepwise. A subscriber has its bounded queue, its finish
error, the goroutine that writes batches, and the caller that waits for it. Packets
are numbers; whether one passes the service filter is a constant.

`ProgramGate` counts ticks. One timer decides the end of a programme; `closeIfStale`
reads the clock under the lock and acts after it, so a section may come between.

### SectionUpdates

The hooks of the raw demuxer queue an EIT p/f section under its fingerprint, or
count a data block in the work group and queue it by priority; a full queue drops.
Two workers take from the queues; the end of a demuxer stops them, and they finish
the backlog. `Restartable` makes the session one of a remote input, which gets a new
raw demuxer for its next subscriber. The logo and carousel queues take the same
steps without a fingerprint and are left out.

### SectionAssembler and EITSnapshot

The multiplexer, the losses and the repetitions are the environment. The multiplex is
fixed by `offsets`, how many bytes come before each section; a byte is known by its
place among the bytes of all sections, stuffing is 0. A packet is the stretch of bytes
that it carries: it is full, or stuffed behind the end of a section, and has one byte
less when a section starts in it and it needs a pointer. `carried` is what was sent
and whether it arrived. `FeedAll` and its two loops are operators on the code's
buffer; one round of a loop is `TakeOne`, and a recursive function repeats it. The
lengths that bytes announce are known only where a section begins: elsewhere the code
may read any length, and by the CRC never finds a section. `EITSnapshot` keeps, per table,
version, last section and seen sections of segments as the code does; the geometry
of a schedule and the editions the broadcaster airs are parameters. Both are data
structures with one caller; what is hard in them is the order of their input.

### EPGCollection

The collector, the loop and the two writing workers of a collection are four
processes that share a bounded channel, the snapshot and the store; around them
`gatherNetwork` goes from candidate to candidate for the services still missing. A
candidate that is another Mahiron is asked for its stored programs instead.

### DSMCCCarousel and DataBroadcast

`DSMCCCarousel` has the carousel's methods as operators on its value: a sequence of
modules in the order of their generations, the rejections and the two byte counters.
A byte is blank or names the download and version it came with, so a mixture shows.
`DataBroadcast` has one action per method of the hub, which holds its lock throughout:
PMT, DII, DDB, the sections and packets that it only passes on, Subscribe and
unsubscribe, and a request for a version. The two stores are `ModuleCache`, exactly, and
`SQLiteModuleStore`, of which any error and any choice of pruned modules is possible;
`persistent`, chosen at the start, says which one is there. Another session's Put takes
modules away. One service with one component is modelled. An event is its number and
type; the contents of events and snapshots, `revision`, decoding, tombstones and metrics
are left out.

### ProgramEvents

An updater reads, writes in one transaction and announces, in three steps. The
debounce timer, its handle (which a late flush may clear although the timer is armed
again), concurrent flushes that pause after each event, the hub's bounded log, and
a client that subscribes and replays are all explicit. A program has one field that
an update always overwrites and one that it keeps when it does not carry it. An
update brings a list, in which a program may occur twice: the manager merges the last
mention of each into what it read (`MergeUpsertProgram`), the store executes one
statement per entry. `Written` gives what these make of a row in closed form, so that the
theorems need no induction; `WrittenRowByRow` in `MC_DataPath`, which TLC evaluates,
compares it with the statements one by one, for lists of up to three entries.
Every announcement has a number, a history variable that the code does not have: it
tells two equal events apart, so that "published once" can be said, and since no two
batches are equal then, the flushes at work are a set. `Replay` says what a client that
applies a list of events ends with: for each program, what the last event about it says.

## 4. Runs

| Run | Expectation | Shows |
|---|---|---|
| `jobs` | pass | three executions, two exclusive scans, a dependent gatherer and an independent one, two slots, retries, aborts, reruns, a cron schedule, history of 2, shutdown: all accounts agree; dependencies first; finished is final |
| `jobs_live` | pass | with room in the history and no aborts every execution finishes; a Shutdown that returns nil leaves nothing unfinished, one that returns an error only cancelled handlers that still run |
| `jobs_history` | violation | finding: Shutdown skips a standby job when the history is full |
| `jobs_abort` | violation | finding: aborting a pending job does not start its dependents |
| `tuners` | pass | one tuner with start retries, a waiting job, a grabbing viewer, a kill: reservations are exclusive, marks and wake-ups are never stale or lost, a Stop leaves no process that it could signal; and the fan-out of a tuner's bytes: buffers are released exactly once, nobody can reach a closed channel, and it implements `Fanout` |
| `tuner_grab` | violation | finding: two processes on one tuner after a grab that met a start |
| `sessions_evict` | violation | finding: a dying session evicts its successor |
| `stream_path` | pass | sessions: two callers, three sessions of one channel, shutdown with and without expiry: creation is single-flight, subscribers are served, every request is answered, Shutdown ends every stream; live sources: the pool's map is exactly the reservations in use, a creation that is joined has its creator, no source runs for nobody, a stopped source leaves; section workers of a local session: a fingerprint stands for a section queued or stored, no accepted section is left behind, observers return |
| `data_path` | pass | users of two tuners; the demuxer's streams have no gap; intact sections are assembled; the gate closes in time; a ready schedule is a complete one; what was collected is stored; events are published once, the log is their end, and replaying them gives the store; a data carousel with tight budgets, late blocks, both stores and a slow subscriber: no byte is counted or subtracted twice, what is served is whole and of one version, an open subscriber has no gap |
| `broadcast_return` | violation | finding: a component that returns is not announced again |
| `sections_restart` | violation | finding: a restarted raw demuxer may be left without workers |
| `section_headers` | violation | finding: a section whose header is split over two packets is lost |

**Bounds.** Three executions are the fewest with one running, one held back and
one waiting for a retry; a history of two makes trimming happen with three, and
the logo gatherer, which nothing excludes, makes the limit of two slots bind.
`jobs_history` and `jobs_abort` use the smallest instance that shows the effect.
Two devices (`MaxDevices`) let one tuner be reserved twice, which every stale step
needs; two clients and an administrator give three concurrent Stops; the
process of the first device's second start attempt (`Unsignalled`; its first in
`tuner_grab`) may refuse its signals; `MaxRefs = 2`
lets a viewer be counted twice. Three sessions (`MaxSessions`) are a dying one, its
successor and the one after that; `MaxAttempts` is 2 instead of the code's 3 so
that the loop can be used up within three sessions. `Room` reserves numbers so that
the bound never blocks a request that has begun. No symmetry is used.

In `stream_path` two callers compete for one tuner: one has two routes to it, the other
shares one of them and has a peer and a disabled route besides. Two devices
(`MaxSources`) let a source be replaced; three
sections and a queue of two, or of one for data blocks, make both queues overflow.
In the fan-out a queue of one with two writers, one of which writes twice, makes a
writer find the queue full, lose the race for the oldest chunk and meet the other
writer; three buffers (`MaxBuffers`), one per chunk, never run out.
In `data_path`: two tuners with a viewer counted through old and new
devices; two packets and a buffer of one overflow a subscriber; two sections of 4, 6
or 10 bytes (`MaxBytes` = 20) in payloads of 5 end inside, at the end of, and beyond a
packet, and a continuity counter of 2 with two losses wraps unnoticed; the gate's three times keep
their order; three editions give a change of version with fewer sections, a
shorter table list and a second group; two services and two candidates, the second
a peer, need the rest of one collection in the next; two updates by two updaters, each
with a list of up to two entries for one program, give two flushes at once, a program
that one list mentions twice, and a reader and log that overflow (`MaxUpdates`,
`MaxBatch`; a third update multiplies the states, and the theorems cover any number).
For the data broadcast two modules of three bytes (two blocks, the last one short) and one
fill the budget for assembly, and the second DII brings a new version, two modules that
are refused and one that pushes the oldest out; completed modules have room for three
bytes, the store for four; the subscriber's channel holds one event, so one DII can
overflow it. Six events (`MaxEvents`) let a module complete, be replaced, be announced
again and be restored from the store while somebody listens.
`sections_restart`, `section_headers` and `broadcast_return` use the smallest instance
that shows the effect; the last has budgets that never bind, so that eviction plays no
part.

The modules of `stream_path` and `data_path`, and `MultiWriter`, define a type invariant
each (`LiveTypeOK`, `DemuxTypeOK` and so on). No run lists it; where a module is proved
about, the types its proof needs are a part of the inductive invariant of section 6.

**Conditions in the properties.** Four invariants of `data_path` hold only under a
condition, because the code promises no more. `EventsReplayStore` speaks of behaviours
in which no two updates and no two flushes overlapped: the program manager reads,
writes and announces without a lock around the three, so overlapping updates may
announce in another order than they wrote. It also excepts behaviours in which a list
mentioned a program again without the field it had given it (`shortened`): the row then
keeps the field, by COALESCE, and the event, which is made of the last mention alone,
lacks it; a partial flush of a collection can send such a list. `GateCloses` excepts a stream in which
sections of another programme keep coming faster than the grace period, since each of
them puts the timer off. `StreamIsWhole` speaks of subscribers that were not finished for
overflow or by their client. `IntactSectionsAssembled` speaks of behaviours in which no
packet was sent twice, since the code takes the second one for the packet after a gap,
and excepts sections whose header is split between two packets, the finding of
`section_headers`.

Of the others, `StopEndsProcess` excepts processes that refused a signal: there `Stop`
returns the error, releases the tuner and leaves the process running, and the property
asks that the caller is told; in the same way `OneProcessPerTuner` of `tuner_grab` counts
only processes that were not refused a signal. `ShutdownEndsStreams` excepts the session of
a creation that Shutdown ran out of time to await and whose broadcast came into the pool
after `Pool.Shutdown` had taken its list: nobody stops that one.
`ShutdownFinishesAll` asks for everything to be finished only of a Shutdown that returned
nil (`ShutdownNilFinished`). `CollectedIsStored` excepts services whose merge failed.
`ServedIsWhole` and its theorem are about blocks that have the length of their place in
the module, as a broadcaster sends them: `ts/dsmcc_carousel.go:236-245` copies what came,
and a shorter block would leave zeroes behind it.

**Deadlock** is not checked: in every instance the system may rest (all jobs
finished, no request pending), and the bounds end each behaviour.

**Fairness.** Safety runs use `Spec`. `JobManager!Fairness`: whoever holds the
mutex goes on (weak); the mutex is granted to Shutdown, a timer fires, and a handler
returns even though other steps keep taking the mutex from them (strong, since Go's
mutex is starvation-free and handlers watch their context); nothing is assumed of
`ShutdownFails`. `SessionRegistry!Fairness`:
a goroutine inside `getOrCreate`, a cancelled demuxer, one whose own source was stopped
(`sourcesDown`, which presumes that the tuner's process can be signalled), `OnStop` and
Shutdown go on (weak); nothing ends a stream whose source goes on. It assumes that a creation ends, that is, that its acquisition does not wait
for a tuner for ever; nobody is obliged to ask, subscribe or leave.
`LiveSources!LiveFairness`: a caller inside `Acquire` or `attach`, whoever is in `Stop`,
a source that was told to stop and Shutdown go on. `SectionUpdates!SectionFairness`:
the workers, an observer that returns, the end of a demuxer and Stop go on. All of
them are weak: each is a goroutine that nothing but its own condition holds up, and
no subscriber is obliged to leave. No liveness is claimed of
`TunerManager`: whether a waiter gets a tuner depends on its competitors.

## 5. Findings

- **Shutdown and a full history** (`jobs_history`): `abortQueuedAndStandbyLocked`
  ranges over `m.history` while `finishLocked` deletes from it in place; the element
  after a deleted one is skipped, and a skipped standby job never finishes.
- **Abort does not dispatch** (`jobs_abort`): a job queued behind an aborted pending
  job stays queued although nothing holds it back, until some other call dispatches.
- **Grab during a start** (`tuner_grab`): `Stop` of a device that has no recorded
  process yet, or whose attempt is being unwound, releases the tuner; two commands
  then run on it.
- **OnStop evicts by key** (`sessions_evict`): the late `OnStop` of a closed session
  removes the live session that replaced it; the next request makes a second one.
- **Restart of a remote session's demuxer** (`sections_restart`): the new raw demuxer
  relies on workers that the end of the old one, or a Stop, takes away; sections
  stay queued and an observer waits for them for ever. Local sessions, which never
  restart, are free of it (`stream_path`).
- **Split section headers** (`section_headers`): `FeedAll` drops a section whose first
  one or two bytes are the last of a packet, although nothing was lost.
- **The DII of a component that returns** (`broadcast_return`): `observePMT` forgets the
  carousel of a component that is gone but not its last DII, which is then taken for a
  duplicate when the component is back; nothing is announced until the DII changes.

## 6. Theorems

`JobManagerProofs` proves, for every finite set of executions, all definitions,
dependencies, exclusive keys and positive limits, the six state invariants of run
`jobs` and the action property `DependenciesFirst`. The invariants support each
other, so the inductive invariant `IInv` is their conjunction with `Defined` (every
execution that exists has a definition; the range loop's index is positive): the
slot counter decreases correctly only because the active set is what the statuses
say, an abort removes the right element only because the queue has no repetition,
a key may be dropped only because one unfinished job has it, and a retry finds its
job in the history only because trimming spares the unfinished. Each action that
changes the accounts has a lemma; `FrameStep` covers the others. `DependenciesFirst`
follows in one step from `OneJobPerKey`: a start finds its dependencies' keys
inactive, and active keys are the unfinished jobs' keys. Assumptions:
`JobsFinite`, `DefinitionsTyped`, `LimitsPositive` (`NewManager` enforces the last).

`TunerManagerProofs` proves the five invariants of run `tuners` for any number of
tuners, clients, administrators, viewers, devices and retries. `IInv` has four
parts. The *allocation* part adds to `ReservationExclusive` and `NoLostWakeup` that
devices are handed out before they are used and owned by one client
(`KnownDevices`), and that a grabber's victim is still unreleased or its release has
woken the grabber (`GrabsWake`): that is why a stale `Stop` runs an exhausted once
and why the captured channel cannot be missed. The *process* part adds to
`StopEndsProcess` that after a Stop read a process no attempt follows
(`NoSpawnAfterStop`), that a process left behind by a later attempt or a Stop is a refused one
(`OnlyRefusedLeft`), which together rest on where a start can be while a process is
recorded (`TrackedPastSpawn`) and on the done channel (`DoneIsMade`). The *status*
part adds that nothing is marked before `markRunning` and that a pending completion
means no final mark yet (`UnmarkedBefore`). One lemma per action shows the parts it
can disturb and takes the rest from the frame lemmas `SameAllocation`,
`SameProcesses` and `SameStatus`. `ScanChooses` and `GrabChooses` show that the
round-robin scan and the grab choose a tuner whenever there is one; they rest on
the least-element lemmas. Assumptions: `TunersConfigured`, `RequestsTyped`,
`BoundsAreNatural`.

Two more results about these modules need a step beyond their `IInv`. `FinishedStays`
is the action property `FinishedIsFinal`. `ShutdownFinishes` adds where Shutdown has got
to (`ShutdownProgress`: from the end of its loops on nothing is queued or in standby and
every active job is cancelled, also when Shutdown gives up with an error; after a nil
return nothing is active) and has a hypothesis: `HistoryFits`, that the history has room
while Shutdown ranges over it. Without room the theorem is false; that is the finding
of `jobs_history`. `UsersAreReal` (`NoGhostUsers`) compares the users of a tuner with the
set of open references through all of its devices, one element per reference
(`Tokens`), so that no sum is needed: an `addUser` adds one element, a `removeUser` takes
one away even when it finds nothing to subtract.

`StreamProofs`, first part, proves the three safety properties of the registry for any number
of channels, callers, sessions and rounds. `SInv` adds to them who is where (`Places`),
that a creation belongs to one caller and has no outcome while it runs (`Flights`), that
Shutdown's list has every creation still in flight (`Awaited`: nothing is begun once
`shuttingDown` is set) and that the model's bound never blocks a request that has begun
(`RoomKept`). Assumptions: `CallersWantKeys`, `CallersFinite`, `BoundsPositive`.

Its second part proves `PoolMapExact` and `NobodyWatchesNothing` for any number of
callers, routes, tuners and sources. `LInv` says which process may be doing what: a
creator is the one registered and its device is nobody else's until it commits
(`Creators`), a source is started by one subscriber (`Starts`) and stopped by one process,
and is listed until then (`Stops`). `EnabledRoutesSorted` is about the operator:
`enabledRoutes` returns every enabled route and no other, in order of priority. Assumptions:
`LiveConstants`, `AcquirersFinite`, `SomeRoute`.

`MultiWriterProofs` has three layers. `Reach` says who can reach whom: a writer in
`enqueue` has only listed subscribers to serve, and a channel is closed by whoever takes
its subscriber off the list; hence `ClosedIsUnreachable`. `Counted` says that a buffer's
count is the number of queue places, goroutines and writers that refer to it, as
cardinalities of sets of places; hence `ChunksAccounted`. `Progress` and `InOrder` say what
the buffers hold; with the second layer (a buffer that is referred to is not in the pool,
so it is not rewritten) every step of `HubNext` maps to a step of `Fanout` or a stutter:
`RefinesFanout`. Assumption: `HubConstants`.

`DemuxProofs`, first part: `SectionInv` holds of every session, restarts included, and
with it `WorkGroupIsExact`: `Done` never makes the work group negative.
`BacklogIsFinished` and `FingerprintIsBacked` are proved under `~Restartable`, the local
sessions (`LocalInv`: one demuxer and one pair of workers, which are asked to stop only
when nothing is dispatched any more); for the others `sections_restart` has the
counterexample. Second part: `DemuxInv` says for every viewer that what was written, the
batch and the queue follow each other in order (`InOrder`), that together they have
every wanted packet up to the one `dispatch` has brought it (`Reached`, which depends on
whether the walk has passed the viewer), and in which phases of writer and caller an
ending was clean; hence `StreamIsWhole`. Assumptions: `SectionConstants`,
`DemuxConstants`.

Its third part proves `IntactSectionsAssembled` for sections of any lengths, any number of
losses and any way to lay sections out in packets. `AsmInv` says how packets follow each
other (`Layout`), that the buffer begins no second section and never has a complete one
(`BufferOK`), and, the heart of it, that between the packets of a section the buffer is
the beginning of that section exactly as long as every packet of it arrived and its
header was not split (`BufferLive`): a gap of whole turns of the counter goes unnoticed and
leaves other bytes there, which the CRC refuses. With what is known of the counter
(`CounterKnown`), the sections found are the intact ones that have been sent (`FoundOK`). The
lemmas go from bytes to packets: what one round takes (`TakeOneTakes`), that the rounds end with
nothing more to take (`TakeSectionsEnds`), and what the assembler makes of a packet that
goes on with a section (`TakeContinued`) or in which sections start (`ConsumeStarts`).
Assumption: `AssemblerConstants`.

`DataPathProofs` has a part for each of four components.

- *Gate*: an open gate always has its timer armed or `closeIfStale` at work, and timer and
  readings bound each other (`TimerBounded`, `CheckBounded`); hence `GateCloses` for all
  intervals in the order of `ProgramGateAssumption`.
- *Snapshot*: each table of a ready group was made from sections of one edition since the
  last reset (`TableKnown`); hence `ReadyMeansComplete` for every geometry and every run of
  editions that `EITSnapshotAssumption` admits.
- *Collection*: what was accepted is in the snapshot or still in the channel
  (`AcceptedNotLost`), the partial flusher stores only services that the final merge covers
  and is idle by then (`WorkersBehave`, `GuideKept`), and a service no longer missing is
  merged unless its merge failed (`MergesCounted`); hence `CollectedIsStored`.
- *Program events*: the lists of announcements are free of repetition and disjoint
  (`OnceInv`), a timer or a flush looks after the queue even when a late flush cleared the
  handle (`TimerInv`), and a client has a stretch of what was published and the log its
  end (`ReaderInv`);
  hence `EventsExactlyOnce`. For `EventsReplayStore` the invariant `ReplayInv` says that
  what an operation has still to announce makes up the difference between the events so
  far and the table; it holds while nothing has overlapped and no list was shortening,
  which are the property's own conditions. Lists have any length and may repeat
  programs: the last event of the last turn about a program is what its row was given
  (`ReplacementsPending`, `ChangesPending`, `RemovalsPending`).

`BroadcastProofs` is about the data broadcast, for any DIIs, blocks, limits and either
store. The accounts are the sizes of sets of bytes, each byte under its module and its
place in it: removing modules of distinct identity takes disjoint sets away, so that
exactness needs no sum. `CarouselInv` has the types, that identities are distinct
(`Distinct`), that a module in assembly has exactly the bytes of the blocks it has
received and a completed one all of them or none (`ModuleOK`), the exact accounts
(`Accounted`) and the budgets (`Within`). The first four are kept by every part of an
operation (`Consistent`); the budgets are not: `CompleteModule` goes over the limit,
evicts, and drops the module itself if that was not enough, and the proof there is that
without the module the account is what it was before. A module that has received every
block is whole because the blocks' places cover its bytes (`BlocksCover`,
`AllBlocksAreWhole`). The loops over the modules of a DII are recursive functions:
`RoundsExist` in `SequenceLemmas` shows that there is one and `RoundsStay` that what each
round keeps holds at the end. With the store holding only modules that are whole
(`StoredModules`), `HubInv` is inductive; hence `BudgetsExact` and `ServedIsWhole`. The
last part is about subscribers: the numbers in a channel continue what its subscriber has
heard, up to the hub's `sequence` while it is open (`Continues`); hence
`SubscribersMissNothing`. Assumptions: `CarouselLimits`, `DataBroadcastConstants`.

Only model-checked: all liveness (`JobsFinish`, `RequestsAnswered`,
`ShutdownEndsStreams`, `StoppedSourceLeaves`, `ObserversReturn`), since fairness is beyond
the prover. Every invariant and every action property of a passing run is a theorem.

## 7. Not modelled

- *Of the data broadcast*: the decoding of modules into resources, tombstones, the
  recovery of a corrupt cache database, and several services or components, which share
  only the store.
- *Remote client*: HTTP and JSON; its reconnection loop keeps only the next delay.
  Remote routes, inputs and guides appear where they are used.
- *Service manager, service order, service scan*: transactions, a sort and a
  sequential job over parts that are modelled.
- *Composition of the shutdowns*: `app/` calls those of jobs, streams and server at
  once with one deadline; each is modelled alone.
- Left out for good: generated code (`web/api/gen`, `db/gen`), the HTTP layer, SQLite
  access, configuration parsing, metrics and logs, the tables and conversions of
  ARIB strings, the parsing of descriptors, and the web interface. They keep no
  concurrent state of their own or are pure I/O.

Most of the repository's lines are of the last kind: more than half are generated
API code, and much of the rest are string tables, table parsers and translation
between record types, which have no behaviour a state machine would tell apart. The
map therefore names a small share of all lines, but most of those of the managers,
the stream path and the collection, where goroutines meet.

Within the modelled parts, log output, timestamps, per-user stream statistics, tuner
and job events and error texts are abstracted away; the bytes of a stream appear only
in `SectionAssembler` and `DSMCCCarousel`.

## 8. Running

    tlc -workers 2 -config MC_JobManager.cfg MC_JobManager
    tlapm JobManagerProofs.tla

and likewise for the other configurations and proof modules. `SectionUpdates_restart.cfg`
and `SectionAssembler_headers.cfg` belong to the modules they are named after. Runs
take up to three minutes on two cores (`stream_path`, for its liveness), a proof module
between one and fifteen.
