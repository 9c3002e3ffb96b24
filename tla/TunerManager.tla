---------------------------- MODULE TunerManager ----------------------------
(***************************************************************************)
(* The tuner allocator of internal/tuner: TunerManager hands out physical  *)
(* tuners as managedDevices, lets a request of higher priority grab the    *)
(* tuner of a lower one, wakes waiting requests when a tuner is released,  *)
(* and keeps each tuner's runtime status.  The processDevice that a        *)
(* managedDevice wraps (the tuner command, its start with retries and its  *)
(* stop) is modelled with it, because a grab, an administrator's kill and  *)
(* the owner's own Start and Stop interleave on it.                        *)
(*                                                                         *)
(* A step is one critical section of tm.mu or of the device's mutex, or    *)
(* one blocking wait.  A client is a goroutine that acquires a device,     *)
(* puts a source.Broadcast around it and starts and stops it at most once  *)
(* (Broadcast.mu serialises the owner's Start and Stop).                   *)
(***************************************************************************)
EXTENDS Integers, FiniteSets, FiniteSetsExt

CONSTANTS
    NumTuners,  \* tuners of the configuration, in file order
    Config,     \* Config[t]: [disabled, usable, groups, retryMax]
    Types,      \* channel types
    Clients,    \* goroutines that acquire devices
    Request,    \* Request[c]: [type, priority, wait], the call's arguments
    Admins,     \* callers of KillProcess
    Viewers,    \* users of shared streams, by user ID
    Priority,   \* Priority[v]: priority of a viewer
    Unsignalled, \* processes <<device, start attempt>> that may refuse a signal
    MaxDevices, \* bound: devices ever handed out
    MaxRefs     \* bound: references one viewer adds through one device

Tuners == 0 .. NumTuners - 1
Devices == 1 .. MaxDevices
NoDevice == 0
Actors == Clients \cup Admins

ASSUME TunersConfigured ==
    /\ NumTuners \in Nat \ {0}
    /\ Config \in [Tuners -> [disabled : BOOLEAN, usable : BOOLEAN,
                              groups : SUBSET Types, retryMax : Nat]]

ASSUME RequestsTyped ==
    /\ Request \in [Clients -> [type : Types, priority : Int, wait : BOOLEAN]]
    /\ Priority \in [Viewers -> Int]
    /\ Admins \cap Clients = {}
    /\ IsFiniteSet(Viewers)

ASSUME BoundsAreNatural == MaxDevices \in Nat /\ MaxRefs \in Nat

VARIABLES
    inUse,       \* tunerRuntime.inUse (and TunerManager.inUse)
    running,     \* tunerRuntime.running
    stopped,     \* tunerRuntime.stopped
    fault,       \* tunerRuntime.fault
    reserved,    \* tunerRuntime.reservationPriority
    device,      \* tunerRuntime.device
    users,       \* tunerRuntime.users: references per user ID
    nextByType,  \* TunerManager.nextByType
    lastDevice,  \* devices created so far
    tunerOf,     \* managedDevice.tuner
    released,    \* managedDevices whose once has run
    watched,     \* managedDevices with a completion goroutine pending
    done,        \* processDevice.done
    stopping,    \* processDevice.stopping
    failed,      \* processDevice.err is not nil
    tracked,     \* processDevice.tunerProcess is not nil
    attempt,     \* start attempts made, hence the current process
    alive,       \* processes that run, each <<device, start attempt>>
    refused,     \* of those, the ones that could not be signalled (history)
    pc,          \* where each actor is
    mine,        \* the device a client owns
    call,        \* the Stop call an actor is in
    woken,       \* clients whose captured changed channel is closed
    refs         \* references a viewer holds through each device

tunerVars == <<inUse, running, stopped, fault, reserved, device, users, nextByType>>
managedVars == <<lastDevice, tunerOf, released, watched>>
processVars == <<done, stopping, failed, tracked, attempt, alive, refused>>
actorVars == <<pc, mine, call, woken>>
vars == <<tunerVars, managedVars, processVars, actorVars, refs>>

NoCall == [dev |-> NoDevice, saw |-> 0, waits |-> FALSE, err |-> FALSE]

PCs == {"idle", "stopCall", "stopping", "stopped", "grabWait", "waiting", "reserved",
        "starting", "spawning", "spawned", "probing", "unwinding", "retrying",
        "failing", "releasing", "started", "streaming", "closing"}

TypeOK ==
    /\ inUse \subseteq Tuners /\ running \subseteq Tuners
    /\ stopped \subseteq Tuners /\ fault \subseteq Tuners
    /\ reserved \in [Tuners -> Int]
    /\ device \in [Tuners -> Devices \cup {NoDevice}]
    /\ users \in [Tuners -> [Viewers -> Nat]]
    /\ nextByType \in [Types -> Tuners]
    /\ lastDevice \in 0 .. MaxDevices
    /\ tunerOf \in [Devices -> Tuners]
    /\ released \subseteq Devices /\ watched \subseteq Devices
    /\ done \in [Devices -> {"nil", "open", "closed"}]
    /\ stopping \subseteq Devices /\ failed \subseteq Devices
    /\ tracked \subseteq Devices
    /\ alive \subseteq Devices \X Nat /\ refused \subseteq alive
    /\ attempt \in [Devices -> Nat]
    /\ pc \in [Actors -> PCs]
    /\ mine \in [Clients -> Devices \cup {NoDevice}]
    /\ call \in [Actors -> [dev : Devices \cup {NoDevice}, saw : Nat,
                            waits : BOOLEAN, err : BOOLEAN]]
    /\ woken \subseteq Clients
    /\ refs \in [Viewers -> [Devices -> 0 .. MaxRefs]]

\* NewTunerManager: every tuner free, nobody waiting.
Init ==
    /\ inUse = {} /\ running = {} /\ stopped = {} /\ fault = {}
    /\ reserved = [t \in Tuners |-> 0]
    /\ device = [t \in Tuners |-> NoDevice]
    /\ users = [t \in Tuners |-> [v \in Viewers |-> 0]]
    /\ nextByType = [ty \in Types |-> 0]
    /\ lastDevice = 0
    /\ tunerOf = [d \in Devices |-> 0]
    /\ released = {} /\ watched = {}
    /\ done = [d \in Devices |-> "nil"]
    /\ stopping = {} /\ failed = {} /\ tracked = {}
    /\ alive = {} /\ refused = {}
    /\ attempt = [d \in Devices |-> 0]
    /\ pc = [a \in Actors |-> "idle"]
    /\ mine = [c \in Clients |-> NoDevice]
    /\ call = [a \in Actors |-> NoCall]
    /\ woken = {}
    /\ refs = [v \in Viewers |-> [d \in Devices |-> 0]]

-----------------------------------------------------------------------------
(* Choosing a tuner                                                        *)

\* Tuners the loop of tryAcquireLocked does not skip as disabled or foreign.
Found(ty) == {t \in Tuners : ~Config[t].disabled /\ ty \in Config[t].groups}

\* Of those, the ones with a command or DVB device and no fault.
Healthy(ty) == {t \in Found(ty) : Config[t].usable /\ t \notin fault}

\* Position of t in the round-robin scan that starts at nextByType[ty].
ScanOffset(ty, t) == (t + NumTuners - nextByType[ty]) % NumTuners

Free(ty) == Healthy(ty) \ inUse

FirstInScan(ty, S) ==
    CHOOSE t \in S : \A u \in S : ScanOffset(ty, t) <= ScanOffset(ty, u)

\* The highest of the reservation's priority and its users' priorities.
EffectivePriority(t) ==
    Max({reserved[t]} \cup {Priority[v] : v \in {w \in Viewers : users[t][w] > 0}})

\* Tuners betterGrabCandidate may pick for a request of priority p.
Grabbable(ty, p) ==
    {t \in Healthy(ty) \cap inUse : device[t] # NoDevice /\ p > EffectivePriority(t)}

\* The lowest effective priority wins, the first in scan order among equals.
BetterGrabCandidate(ty, p) ==
    FirstInScan(ty, {t \in Grabbable(ty, p) :
        \A u \in Grabbable(ty, p) : EffectivePriority(t) <= EffectivePriority(u)})

Goto(a, next) == pc' = [pc EXCEPT ![a] = next]

-----------------------------------------------------------------------------
(* AcquireDevice                                                           *)

\* reserveLocked on tuner t for client c, with the new managedDevice d; the
\* users and the fault of the runtime are left as they are.
ReserveLocked(c, t, d) ==
    /\ inUse' = inUse \cup {t}
    /\ running' = running \ {t}
    /\ stopped' = stopped \ {t}
    /\ reserved' = [reserved EXCEPT ![t] = Request[c].priority]
    /\ device' = [device EXCEPT ![t] = d]
    /\ tunerOf' = [tunerOf EXCEPT ![d] = t]
    /\ lastDevice' = d
    /\ mine' = [mine EXCEPT ![c] = d]

\* Mutant: the round robin forgets to wrap around.
IndexAfter(t) == t + 1

\* Where the next scan for this channel type starts.
NextIndex(t) == (t + 1) % NumTuners

\* tryAcquireLocked finds a free tuner.
AcquireFree(c) ==
    LET ty == Request[c].type
        t == FirstInScan(ty, Free(ty))
    IN  /\ Free(ty) # {}
        /\ lastDevice < MaxDevices
        /\ ReserveLocked(c, t, lastDevice + 1)
        /\ nextByType' = [nextByType EXCEPT ![ty] = NextIndex(t)]
        /\ Goto(c, "reserved")
        /\ UNCHANGED <<fault, users, released, watched, processVars, call, woken, refs>>

\* No free tuner, but one of lower priority: its device is going to be
\* stopped, outside tm.mu; the changed channel of this moment is captured.
AcquireGrab(c) ==
    LET ty == Request[c].type
        p == Request[c].priority
    IN  /\ Free(ty) = {}
        /\ Grabbable(ty, p) # {}
        /\ call' = [call EXCEPT ![c] =
                       [NoCall EXCEPT !.dev = device[BetterGrabCandidate(ty, p)]]]
        /\ woken' = woken \ {c}
        /\ Goto(c, "stopCall")
        /\ UNCHANGED <<tunerVars, managedVars, processVars, mine, refs>>

\* Nothing to take: an error at once, or a wait for the changed channel when
\* the caller waits and some usable tuner exists (a faulted one counts).
AcquireNothing(c) ==
    LET ty == Request[c].type
        usable == \E t \in Found(ty) : Config[t].usable
    IN  /\ Free(ty) = {}
        /\ Grabbable(ty, Request[c].priority) = {}
        /\ woken' = woken \ {c}
        /\ Goto(c, IF usable /\ Request[c].wait THEN "waiting" ELSE "idle")
        /\ UNCHANGED <<tunerVars, managedVars, processVars, mine, call, refs>>

TryAcquire(c) == AcquireFree(c) \/ AcquireGrab(c) \/ AcquireNothing(c)

AcquireDevice(c) == pc[c] = "idle" /\ mine[c] = NoDevice /\ TryAcquire(c)

\* The select on attempt.changed returns and the loop tries again.
AcquireAgain(c) == pc[c] \in {"waiting", "grabWait"} /\ c \in woken /\ TryAcquire(c)

\* The request's context ends during a wait.
AcquireCanceled(c) ==
    /\ pc[c] \in {"waiting", "grabWait"}
    /\ Goto(c, "idle")
    /\ UNCHANGED <<tunerVars, managedVars, processVars, mine, call, woken, refs>>

-----------------------------------------------------------------------------
(* Release                                                                 *)

\* resetReservation: the runtime of t forgets the reservation and its users.
ResetReservation(t) ==
    /\ running' = running \ {t}
    /\ stopped' = stopped \ {t}
    /\ fault' = fault \ {t}
    /\ reserved' = [reserved EXCEPT ![t] = 0]
    /\ device' = [device EXCEPT ![t] = NoDevice]
    /\ users' = [users EXCEPT ![t] = [v \in Viewers |-> 0]]

\* Mutant: release forgets notifyChangedLocked.
ReleaseSilently(t) ==
    IF t \in inUse
    THEN inUse' = inUse \ {t} /\ ResetReservation(t) /\ UNCHANGED woken
    ELSE UNCHANGED <<inUse, running, stopped, fault, reserved, device, users, woken>>

\* release: the reservation of t ends and the changed channel is closed.
Release(t) ==
    IF t \in inUse
    THEN inUse' = inUse \ {t} /\ ResetReservation(t) /\ woken' = Clients
    ELSE UNCHANGED <<inUse, running, stopped, fault, reserved, device, users, woken>>

\* Mutant: releaseOnce without its once.
ReleaseAlways(d) == released' = released \cup {d} /\ Release(tunerOf[d])

\* release names the tuner, not the device: only the once of each
\* managedDevice keeps a late Stop from releasing somebody else's tuner.
ReleaseOnce(d) ==
    IF d \in released
    THEN UNCHANGED <<inUse, running, stopped, fault, reserved, device, users, woken, released>>
    ELSE released' = released \cup {d} /\ Release(tunerOf[d])

-----------------------------------------------------------------------------
(* Stop, called by a grabber, by KillProcess and by the owner              *)

\* KillProcess reads the device of the tuner under tm.mu.
KillProcess(a, t) ==
    /\ pc[a] = "idle"
    /\ device[t] # NoDevice
    /\ call' = [call EXCEPT ![a] = [NoCall EXCEPT !.dev = device[t]]]
    /\ Goto(a, "stopCall")
    /\ UNCHANGED <<tunerVars, managedVars, processVars, mine, woken, refs>>

\* The owner's Broadcast.Stop: the last subscriber left, the device ended, or
\* the pool shuts down; a reserved device may be stopped without a start.
OwnerStop(c) ==
    /\ pc[c] \in {"reserved", "streaming", "closing"}
    /\ call' = [call EXCEPT ![c] = [NoCall EXCEPT !.dev = mine[c]]]
    /\ Goto(c, "stopCall")
    /\ UNCHANGED <<tunerVars, managedVars, processVars, mine, woken, refs>>

\* The locked prologue of processDevice.Stop: note that the device is
\* stopping, read its process and its done channel.
StopBegin(a) ==
    LET d == call[a].dev
    IN  /\ pc[a] = "stopCall"
        /\ stopping' = stopping \cup {d}
        /\ call' = [call EXCEPT ![a].saw = IF d \in tracked THEN attempt[d] ELSE 0,
                                ![a].waits = (done[d] # "nil")]
        /\ Goto(a, "stopping")
        /\ UNCHANGED <<tunerVars, managedVars, done, failed, tracked, attempt, alive,
                       refused, mine, woken, refs>>

\* The process that a Stop call was given to stop.
Victim(a) == <<call[a].dev, call[a].saw>>

\* Process.Stop cannot signal the process (syscall.Kill fails for a command that
\* runs as another user): it returns the error and leaves the process running.
StopRefused(a) ==
    /\ pc[a] = "stopping"
    /\ call[a].saw > 0 /\ ~call[a].err
    /\ Victim(a) \in alive \cap Unsignalled
    /\ refused' = refused \cup {Victim(a)}
    /\ call' = [call EXCEPT ![a].err = TRUE]
    /\ UNCHANGED <<tunerVars, managedVars, done, stopping, failed, tracked, attempt, alive,
                   pc, mine, woken, refs>>

\* Process.Stop is over: it sent SIGTERM, at the end of the context SIGKILL, and
\* saw the process exit, or a signal was refused.
ProcessStopped(a) == call[a].saw > 0 => Victim(a) \notin alive \/ call[a].err

\* Only a grabber looks at the error of its Stop; the owner's Broadcast and
\* KillProcess pass it on to be reported.
Grabbing(a) == a \in Clients /\ mine[a] = NoDevice

\* processDevice.Stop returns; any part of it may report an error.
StopReturn(a) ==
    /\ pc[a] = "stopping"
    /\ ProcessStopped(a)
    /\ call[a].waits => done[call[a].dev] = "closed"
    /\ \E e \in {FALSE, Grabbing(a)} : call' = [call EXCEPT ![a].err = @ \/ e]
    /\ Goto(a, "stopped")
    /\ UNCHANGED <<tunerVars, managedVars, processVars, mine, woken, refs>>

\* The context ends while Stop waits for the done channel.
StopExpire(a) ==
    /\ pc[a] = "stopping"
    /\ ProcessStopped(a)
    /\ call[a].waits
    /\ call' = [call EXCEPT ![a].err = @ \/ Grabbing(a)]
    /\ Goto(a, "stopped")
    /\ UNCHANGED <<tunerVars, managedVars, processVars, mine, woken, refs>>

\* managedDevice.Stop releases the reservation whether or not the device
\* stopped cleanly, then its caller goes on: a grabber returns the error or
\* waits for the change, an owner is done with its device.
StopRelease(a) ==
    /\ pc[a] = "stopped"
    /\ ReleaseOnce(call[a].dev)
    /\ Goto(a, IF Grabbing(a) /\ ~call[a].err THEN "grabWait" ELSE "idle")
    /\ call' = [call EXCEPT ![a] = NoCall]
    /\ mine' = [c \in Clients |-> IF c = a THEN NoDevice ELSE mine[c]]
    /\ UNCHANGED <<nextByType, lastDevice, tunerOf, watched, processVars, refs>>

-----------------------------------------------------------------------------
(* Start, called by the owner when the first subscriber attaches           *)

StartBegin(c) ==
    LET d == mine[c]
    IN  /\ pc[c] = "reserved"
        /\ done[d] = "nil"
        /\ done' = [done EXCEPT ![d] = "open"]
        /\ failed' = failed \ {d}
        /\ stopping' = stopping \ {d}
        /\ Goto(c, "starting")
        /\ UNCHANGED <<tunerVars, managedVars, tracked, attempt, alive, refused,
                       mine, call, woken, refs>>

Retries(d) == Config[tunerOf[d]].retryMax > 0

\* startOnce: the process is started and recorded in one critical section.
StartOnce(c) ==
    LET d == mine[c]
    IN  /\ pc[c] = "starting" /\ ~Retries(d)
        /\ attempt' = [attempt EXCEPT ![d] = @ + 1]
        /\ alive' = alive \cup {<<d, attempt'[d]>>}
        /\ tracked' = tracked \cup {d}
        /\ Goto(c, "started")
        /\ UNCHANGED <<tunerVars, managedVars, done, stopping, failed, refused, mine,
                       call, woken, refs>>

\* startOnce starts the process but cannot open the DVB device.
StartOnceUnopened(c) ==
    LET d == mine[c]
    IN  /\ pc[c] = "starting" /\ ~Retries(d)
        /\ attempt' = [attempt EXCEPT ![d] = @ + 1]
        /\ alive' = alive \cup {<<d, attempt'[d]>>}
        /\ done' = [done EXCEPT ![d] = "nil"]
        /\ Goto(c, "unwinding")
        /\ UNCHANGED <<tunerVars, managedVars, stopping, failed, tracked, refused,
                       mine, call, woken, refs>>

\* The process of this attempt cannot be started at all.
SpawnFails(c) ==
    /\ \/ pc[c] = "starting" /\ ~Retries(mine[c])
       \/ pc[c] = "spawning"
    /\ attempt' = [attempt EXCEPT ![mine[c]] = @ + 1]
    /\ Goto(c, IF pc[c] = "starting" THEN "failing" ELSE "retrying")
    /\ UNCHANGED <<tunerVars, managedVars, done, stopping, failed, tracked, alive,
                   refused, mine, call, woken, refs>>

\* Mutant: the retry loop does not ask isStopping.
StartAttemptBlind(c) ==
    /\ pc[c] = "starting" /\ Retries(mine[c])
    /\ Goto(c, "spawning")
    /\ UNCHANGED <<tunerVars, managedVars, processVars, mine, call, woken, refs>>

\* startWithRetry asks isStopping at the head of each attempt.
StartAttempt(c) ==
    /\ pc[c] = "starting" /\ Retries(mine[c])
    /\ Goto(c, IF mine[c] \in stopping THEN "failing" ELSE "spawning")
    /\ UNCHANGED <<tunerVars, managedVars, processVars, mine, call, woken, refs>>

\* startOnceWithProbe starts the process before the device records it.
Spawn(c) ==
    LET d == mine[c]
    IN  /\ pc[c] = "spawning"
        /\ attempt' = [attempt EXCEPT ![d] = @ + 1]
        /\ alive' = alive \cup {<<d, attempt'[d]>>}
        /\ Goto(c, "spawned")
        /\ UNCHANGED <<tunerVars, managedVars, done, stopping, failed, tracked,
                       refused, mine, call, woken, refs>>

Track(c) ==
    /\ pc[c] = "spawned"
    /\ tracked' = tracked \cup {mine[c]}
    /\ Goto(c, "probing")
    /\ UNCHANGED <<tunerVars, managedVars, done, stopping, failed, attempt, alive,
                   refused, mine, call, woken, refs>>

\* The first chunk arrived, perhaps just before the process exited.
ProbeOk(c) ==
    /\ pc[c] = "probing"
    /\ Goto(c, "started")
    /\ UNCHANGED <<tunerVars, managedVars, processVars, mine, call, woken, refs>>

\* The device cannot be opened, the output ended or the startup timed out:
\* cleanupStartupAttempt forgets the process, then stops it.
ProbeFails(c) ==
    /\ pc[c] = "probing"
    /\ tracked' = tracked \ {mine[c]}
    /\ Goto(c, "unwinding")
    /\ UNCHANGED <<tunerVars, managedVars, done, stopping, failed, attempt, alive,
                   refused, mine, call, woken, refs>>

\* The process of a device's last start attempt.
CurrentProcess(d) == <<d, attempt[d]>>

\* startWithRetry goes on after a failed attempt; startOnce has only one.
AfterUnwinding(c) ==
    /\ Goto(c, IF Retries(mine[c]) THEN "retrying" ELSE "failing")
    /\ UNCHANGED <<tunerVars, managedVars, mine, call, woken, refs>>

\* Process.Stop of an abandoned attempt has seen the process exit.
Unwound(c) ==
    /\ pc[c] = "unwinding"
    /\ CurrentProcess(mine[c]) \notin alive
    /\ AfterUnwinding(c)
    /\ UNCHANGED processVars

\* ... or could not signal it: the attempt has failed, its process goes on.
UnwindRefused(c) ==
    /\ pc[c] = "unwinding"
    /\ CurrentProcess(mine[c]) \in alive \cap Unsignalled
    /\ refused' = refused \cup {CurrentProcess(mine[c])}
    /\ AfterUnwinding(c)
    /\ UNCHANGED <<done, stopping, failed, tracked, attempt, alive>>

\* After the retry delay the next attempt, until startupRetryMax is used up.
RetryOrFail(c) ==
    LET d == mine[c]
    IN  /\ pc[c] = "retrying"
        /\ Goto(c, IF attempt[d] <= Config[tunerOf[d]].retryMax
                   THEN "starting" ELSE "failing")
        /\ UNCHANGED <<tunerVars, managedVars, processVars, mine, call, woken, refs>>

\* Mutant: the guard looks at the tuner and not at the device.
CurrentByTuner(d) == tunerOf[d] \in inUse

\* The guard of markRunning, markStopped and markFault.
Current(d) == tunerOf[d] \in inUse /\ device[tunerOf[d]] = d

MarkFault(d) ==
    /\ running' = IF Current(d) THEN running \ {tunerOf[d]} ELSE running
    /\ fault' = IF Current(d) THEN fault \cup {tunerOf[d]} ELSE fault
    /\ UNCHANGED stopped

\* Start reports the error: processDevice.Start drops the done channel without
\* closing it and managedDevice.Start marks the fault.
StartFailed(c) ==
    LET d == mine[c]
    IN  /\ pc[c] = "failing"
        /\ done' = [done EXCEPT ![d] = "nil"]
        /\ tracked' = tracked \ {d}
        /\ MarkFault(d)
        /\ Goto(c, "releasing")
        /\ UNCHANGED <<inUse, reserved, device, users, nextByType, managedVars,
                       stopping, failed, attempt, alive, refused, mine, call, woken,
                       refs>>

\* ... and releases; Broadcast.attach then stops the source.
StartFailedRelease(c) ==
    /\ pc[c] = "releasing"
    /\ ReleaseOnce(mine[c])
    /\ Goto(c, "closing")
    /\ UNCHANGED <<nextByType, lastDevice, tunerOf, watched, processVars, mine, call, refs>>

\* markRunning, and the goroutine that awaits the device's completion.
MarkRunning(c) ==
    LET d == mine[c]
    IN  /\ pc[c] = "started"
        /\ running' = IF Current(d) THEN running \cup {tunerOf[d]} ELSE running
        /\ stopped' = IF Current(d) THEN stopped \ {tunerOf[d]} ELSE stopped
        /\ watched' = watched \cup {d}
        /\ Goto(c, "streaming")
        /\ UNCHANGED <<inUse, fault, reserved, device, users, nextByType, lastDevice,
                       tunerOf, released, processVars, mine, call, woken, refs>>

-----------------------------------------------------------------------------
(* The process and the goroutines that follow it                           *)

\* The tuner command exits, by itself or because of a signal.
ProcessExit(p) ==
    /\ p \in alive
    /\ alive' = alive \ {p}
    /\ refused' = refused \ {p}
    /\ UNCHANGED <<tunerVars, managedVars, done, stopping, failed, tracked, attempt,
                   actorVars, refs>>

\* The copyRaw goroutine runs once the start succeeded.
Copying(d) == \/ d \in watched
              \/ \E c \in Clients : mine[c] = d /\ pc[c] = "started"

\* copyRaw saw the end of the stream and the exit: finish closes done, with an
\* error when the copy failed or the command ended badly.
CopyRawFinish(d) ==
    /\ Copying(d)
    /\ CurrentProcess(d) \notin alive
    /\ done[d] = "open"
    /\ done' = [done EXCEPT ![d] = "closed"]
    /\ \E e \in {{}, {d}} : failed' = failed \cup e
    /\ UNCHANGED <<tunerVars, managedVars, stopping, tracked, attempt, alive,
                   refused, actorVars, refs>>

\* The completion goroutine marks the tuner stopped or faulty, if the tuner is
\* still this device's.
Completed(d) ==
    /\ d \in watched
    /\ done[d] = "closed"
    /\ watched' = watched \ {d}
    /\ IF d \in failed
       THEN MarkFault(d)
       ELSE /\ running' = IF Current(d) THEN running \ {tunerOf[d]} ELSE running
            /\ stopped' = IF Current(d) THEN stopped \cup {tunerOf[d]} ELSE stopped
            /\ UNCHANGED fault
    /\ UNCHANGED <<inUse, reserved, device, users, nextByType, lastDevice, tunerOf,
                   released, processVars, actorVars, refs>>

-----------------------------------------------------------------------------
(* Users of the shared stream                                              *)

\* tunerLiveSource.WithUser adds the user to whatever reservation the device's
\* tuner has now; a subscriber may hold a device that was released.
AddUser(v, d) ==
    /\ d <= lastDevice
    /\ refs[v][d] < MaxRefs
    /\ refs' = [refs EXCEPT ![v][d] = @ + 1]
    /\ users' = [users EXCEPT ![tunerOf[d]][v] = @ + 1]
    /\ UNCHANGED <<inUse, running, stopped, fault, reserved, device, nextByType,
                   managedVars, processVars, actorVars>>

\* Mutant: removeUser deletes the user only when it finds no reference left.
RemoveUserLate(v, d) ==
    /\ refs[v][d] > 0
    /\ refs' = [refs EXCEPT ![v][d] = @ - 1]
    /\ users' = [users EXCEPT ![tunerOf[d]][v] = IF @ > 1 THEN @ - 1 ELSE @]
    /\ UNCHANGED <<inUse, running, stopped, fault, reserved, device, nextByType,
                   managedVars, processVars, actorVars>>

\* removeUser drops one reference, if the user is still known.
RemoveUser(v, d) ==
    /\ refs[v][d] > 0
    /\ refs' = [refs EXCEPT ![v][d] = @ - 1]
    /\ users' = [users EXCEPT ![tunerOf[d]][v] = IF @ > 0 THEN @ - 1 ELSE 0]
    /\ UNCHANGED <<inUse, running, stopped, fault, reserved, device, nextByType,
                   managedVars, processVars, actorVars>>

-----------------------------------------------------------------------------

Acquire(c) == AcquireDevice(c) \/ AcquireAgain(c) \/ AcquireCanceled(c)

Stop(a) == StopBegin(a) \/ StopRefused(a) \/ StopReturn(a) \/ StopExpire(a) \/ StopRelease(a)

Start(c) ==
    \/ StartBegin(c) \/ StartOnce(c) \/ StartOnceUnopened(c) \/ SpawnFails(c)
    \/ StartAttempt(c) \/ Spawn(c) \/ Track(c) \/ ProbeOk(c) \/ ProbeFails(c)
    \/ Unwound(c) \/ UnwindRefused(c) \/ RetryOrFail(c) \/ StartFailed(c) \/ StartFailedRelease(c)
    \/ MarkRunning(c)

Process(d) ==
    \/ CopyRawFinish(d) \/ Completed(d)
    \/ \E k \in 1 .. attempt[d] : ProcessExit(<<d, k>>)

Next ==
    \/ \E c \in Clients : Acquire(c) \/ OwnerStop(c) \/ Start(c)
    \/ \E a \in Actors : Stop(a)
    \/ \E a \in Admins, t \in Tuners : KillProcess(a, t)
    \/ \E d \in Devices : Process(d)
    \/ \E v \in Viewers, d \in Devices : AddUser(v, d) \/ RemoveUser(v, d)

Spec == Init /\ [][Next]_vars

-----------------------------------------------------------------------------
(* Properties                                                              *)

\* Every device that was handed out and not yet released holds its tuner, and
\* holds it alone; a tuner in use belongs to such a device.  release() frees a
\* tuner by name, so this rests on every Stop, from whomever and however late,
\* running the device's once and on each reservation making a new device.
ReservationExclusive ==
    /\ \A d \in 1 .. lastDevice : d \notin released =>
            tunerOf[d] \in inUse /\ device[tunerOf[d]] = d
    /\ \A t \in Tuners : t \in inUse =>
            device[t] \in 1 .. lastDevice /\ device[t] \notin released /\ tunerOf[device[t]] = t

\* A tuner is shown running, stopped or faulty because of the device that holds
\* it now, never because a completion, a start or a failed start of an earlier
\* device was reported late (markRunning, markStopped and markFault).
StatusBelongsToReservation ==
    /\ running \cup stopped \cup fault \subseteq inUse
    /\ running \cap stopped = {} /\ running \cap fault = {} /\ stopped \cap fault = {}
    /\ \A t \in running : done[device[t]] # "nil"
    /\ \A t \in stopped : done[device[t]] = "closed" /\ device[t] \notin failed
    /\ \A t \in fault : \/ done[device[t]] = "closed" /\ device[t] \in failed
                       \/ \E c \in Clients : mine[c] = device[t] /\ pc[c] = "releasing"

\* A request that waits on the changed channel it captured waits only while
\* every tuner it could take is taken, and a grabber that has stopped its
\* victim does not wait at all: no release slips in between tryAcquireLocked
\* and the select.
NoLostWakeup ==
    \A c \in Clients :
        /\ pc[c] = "waiting" /\ c \notin woken => Free(Request[c].type) = {}
        /\ pc[c] = "grabWait" => c \in woken

\* When a Stop that found a process returns and goes on to release the tuner, the
\* device has no process left, whatever the stop's context did and although a start
\* with retries may be under way, except one that could not be signalled; and if
\* that is the process this Stop was for, its caller is told.  Process.Stop waits
\* for the exit and startWithRetry makes no attempt after the device began to stop.
StopEndsProcess ==
    \A a \in Actors : pc[a] = "stopped" /\ call[a].saw > 0 =>
        /\ \A p \in alive : p[1] = call[a].dev => p \in refused
        /\ Victim(a) \in alive => call[a].err

\* A user counts towards a tuner's effective priority only while a stream that
\* was opened through some device of this tuner is open, however many times
\* the tuner was released and reserved between AddUser and RemoveUser.
NoGhostUsers ==
    \A t \in Tuners, v \in Viewers :
        users[t][v] > 0 => \E d \in 1 .. lastDevice : tunerOf[d] = t /\ refs[v][d] > 0

\* NewDeviceByType's comment: a device is a reservation of one physical tuner.
\* Then no two tuner commands run on one tuner at a time, those apart that no
\* signal can end.
OneProcessPerTuner ==
    \A p, q \in alive \ refused : tunerOf[p[1]] = tunerOf[q[1]] => p = q
=============================================================================
