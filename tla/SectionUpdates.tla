--------------------------- MODULE SectionUpdates ---------------------------
(***************************************************************************)
(* What a channel session (internal/stream/channel) does with the sections *)
(* its raw demuxer finds: EIT p/f sections are coalesced by fingerprint    *)
(* and queued for the updater; DSM-CC data blocks (DDB) are counted in a   *)
(* work group and queued, by priority, for the data-broadcast worker; both *)
(* workers are stopped when the demuxer has closed.  An observer of the    *)
(* data broadcast waits for the work group when its stream ends.           *)
(*                                                                         *)
(* A local session ends with its raw demuxer.  A session on a remote input *)
(* (Restartable) makes a new one for the next subscriber.  The hooks never *)
(* block the demuxer: a full queue drops the section.                      *)
(***************************************************************************)
EXTENDS Integers, Sequences, FiniteSets

CONSTANTS
    Observers,    \* callers of ObserveDataBroadcast
    EITKeys,      \* EIT p/f sections by table, service and section number
    Prints,       \* fingerprints: the CRCs of their versions
    QueueLimit,   \* sectionQueueSize
    DDBLimit,     \* dataBroadcastQueueSize and dataBroadcastPriorityQueueSize
    Restartable,  \* the input is a remote one
    MaxSections,  \* bound: sections dispatched
    MaxDemuxers   \* bound: raw demuxers of the session

Demuxers == 1 .. MaxDemuxers
Workers == 1 .. 2  \* the first pair of workers, and the pair of a restart
Unset == 0

ASSUME SectionConstants ==
    /\ QueueLimit \in Nat \ {0} /\ DDBLimit \in Nat \ {0} /\ MaxSections \in Nat
    /\ MaxDemuxers \in Nat \ {0} /\ Restartable \in BOOLEAN /\ Unset \notin Prints

VARIABLES
    upstream,      \* upstream[d]: life of a raw demuxer
    raw,          \* Session.rawDemuxer
    users,        \* users[d]: its subscribers
    sectionQueue, \* sections for the updater, as <<key, print>>
    prints,       \* eitPFFingerprints
    updater,      \* updater[i]: "off", "idle", "done" or the section being stored
    guide,        \* the print last stored for each key
    ddbQueue,     \* DDB sections queued
    urgentQueue,  \* those of entry documents and of high priority
    ddbWorker,    \* runDataBroadcastUpdates
    workGroup,    \* dataBroadcastWG
    cancelable,   \* Session.sectionCancel is set
    workers,      \* pairs of workers started so far
    stopAsked,    \* pairs whose context has been canceled
    observer,     \* where each observer is
    watched,      \* the demuxer it was given
    sessionStop,  \* Session.Stop: not called, waiting for the demuxer, for the workers, over
    dispatched    \* sections dispatched so far

sectionVars == <<upstream, raw, users, sectionQueue, prints, updater, guide, ddbQueue,
                 urgentQueue, ddbWorker, workGroup, cancelable, workers, stopAsked,
                 observer, watched, sessionStop, dispatched>>
demuxerVars == <<upstream, raw, users>>
eitVars == <<sectionQueue, prints, updater, guide>>
ddbVars == <<ddbQueue, urgentQueue, ddbWorker, workGroup>>
controlVars == <<cancelable, workers, stopAsked, sessionStop>>
observerVars == <<observer, watched>>

\* "canceled": stopped is set and the source unwinds; "closing": its subscribers are
\* finished, onEmpty is to run; "stopping": onEmpty waits for the workers.
DemuxerLife == {"none", "new", "running", "canceled", "closing", "stopping", "gone"}

SectionTypeOK ==
    /\ upstream \in [Demuxers -> DemuxerLife] /\ raw \in Demuxers
    /\ users \in [Demuxers -> SUBSET Observers]
    /\ sectionQueue \in Seq(EITKeys \X Prints) /\ Len(sectionQueue) <= QueueLimit
    /\ prints \in [EITKeys -> Prints \cup {Unset}] /\ guide \in [EITKeys -> Prints \cup {Unset}]
    /\ updater \in [Workers -> [state : {"off", "idle", "done"}, work : {<< >>}]
                               \cup [state : {"busy"}, work : EITKeys \X Prints]]
    /\ ddbQueue \in 0 .. DDBLimit /\ urgentQueue \in 0 .. DDBLimit
    /\ ddbWorker \in [Workers -> {"off", "idle", "busy", "drain", "drainBusy", "done"}]
    /\ workGroup \in Nat /\ cancelable \in BOOLEAN
    /\ workers \in Workers /\ stopAsked \subseteq Workers
    /\ observer \in [Observers -> {"idle", "given", "watching", "waiting"}]
    /\ watched \in [Observers -> Demuxers]
    /\ sessionStop \in {"no", "demuxer", "workers", "over"}
    /\ dispatched \in 0 .. MaxSections

Idle == [state |-> "idle", work |-> << >>]
Off == [state |-> "off", work |-> << >>]

SectionInit ==
    /\ upstream = [d \in Demuxers |-> IF d = 1 THEN "new" ELSE "none"]
    /\ raw = 1 /\ users = [d \in Demuxers |-> {}]
    /\ sectionQueue = << >> /\ prints = [k \in EITKeys |-> Unset]
    /\ guide = [k \in EITKeys |-> Unset]
    /\ updater = [i \in Workers |-> IF i = 1 THEN Idle ELSE Off]
    /\ ddbWorker = [i \in Workers |-> IF i = 1 THEN "idle" ELSE "off"]
    /\ ddbQueue = 0 /\ urgentQueue = 0 /\ workGroup = 0
    /\ cancelable = TRUE /\ workers = 1 /\ stopAsked = {}
    /\ observer = [o \in Observers |-> "idle"] /\ watched = [o \in Observers |-> 1]
    /\ sessionStop = "no" /\ dispatched = 0

\* Demuxer.Stopped.
HasStopped(d) == upstream[d] \notin {"new", "running"}

-----------------------------------------------------------------------------
(* The sections of the demuxer                                             *)

\* A demuxer dispatches until its source has unwound.
Dispatching == \E d \in Demuxers : upstream[d] \in {"running", "canceled"}

\* observeSection of an EIT p/f section: nothing when its fingerprint is reserved;
\* otherwise it is reserved and queued, or given back when the queue is full.
ObserveEIT(k, f) ==
    /\ Dispatching /\ dispatched < MaxSections /\ dispatched' = dispatched + 1
    /\ \/ prints[k] = f /\ UNCHANGED <<prints, sectionQueue>>
       \/ /\ prints[k] # f /\ Len(sectionQueue) < QueueLimit
          /\ prints' = [prints EXCEPT ![k] = f]
          /\ sectionQueue' = Append(sectionQueue, <<k, f>>)
       \/ /\ prints[k] # f /\ Len(sectionQueue) = QueueLimit
          /\ prints' = [prints EXCEPT ![k] = Unset]
          /\ UNCHANGED sectionQueue
    /\ UNCHANGED <<updater, guide, demuxerVars, ddbVars, controlVars, observerVars>>

\* Mutant: a section that is dropped stays counted.
ObserveDDBCounted(urgent) ==
    /\ Dispatching /\ dispatched < MaxSections /\ dispatched' = dispatched + 1
    /\ workGroup' = workGroup + 1
    /\ ddbQueue' = IF ~urgent /\ ddbQueue < DDBLimit THEN ddbQueue + 1 ELSE ddbQueue
    /\ urgentQueue' = IF urgent /\ urgentQueue < DDBLimit THEN urgentQueue + 1 ELSE urgentQueue
    /\ UNCHANGED <<ddbWorker, demuxerVars, eitVars, controlVars, observerVars>>

\* observePIDSection of a DDB: counted and queued, or dropped and not counted.
ObserveDDB(urgent) ==
    /\ Dispatching /\ dispatched < MaxSections /\ dispatched' = dispatched + 1
    /\ \/ /\ ~urgent /\ ddbQueue < DDBLimit
          /\ ddbQueue' = ddbQueue + 1 /\ workGroup' = workGroup + 1
          /\ UNCHANGED urgentQueue
       \/ /\ urgent /\ urgentQueue < DDBLimit
          /\ urgentQueue' = urgentQueue + 1 /\ workGroup' = workGroup + 1
          /\ UNCHANGED ddbQueue
       \/ /\ (IF urgent THEN urgentQueue ELSE ddbQueue) = DDBLimit
          /\ UNCHANGED <<ddbQueue, urgentQueue, workGroup>>
    /\ UNCHANGED <<ddbWorker, demuxerVars, eitVars, controlVars, observerVars>>

-----------------------------------------------------------------------------
(* The workers                                                             *)

\* runSectionUpdates takes a section, or ends when its context is canceled, whatever
\* is queued.
UpdaterTakes(i) ==
    /\ updater[i].state = "idle"
    /\ \/ /\ sectionQueue # << >>
          /\ updater' = [updater EXCEPT ![i] = [state |-> "busy", work |-> Head(sectionQueue)]]
          /\ sectionQueue' = Tail(sectionQueue)
       \/ /\ i \in stopAsked
          /\ updater' = [updater EXCEPT ![i] = [state |-> "done", work |-> << >>]]
          /\ UNCHANGED sectionQueue
    /\ UNCHANGED <<prints, guide, demuxerVars, ddbVars, controlVars, observerVars, dispatched>>

\* Mutant: a failed update keeps the fingerprint.
UpdaterStoresReserved(i) ==
    LET k == updater[i].work[1]
        f == updater[i].work[2]
    IN  /\ updater[i].state = "busy"
        /\ guide' \in {guide, [guide EXCEPT ![k] = f]}
        /\ updater' = [updater EXCEPT ![i] = Idle]
        /\ UNCHANGED <<prints, sectionQueue, demuxerVars, ddbVars, controlVars, observerVars,
                       dispatched>>

\* updateSection: UpsertEIT succeeds, or fails (as does parsing) and the fingerprint is
\* given back, if it is still this section's, so that the next repetition is stored.
UpdaterStores(i) ==
    LET k == updater[i].work[1]
        f == updater[i].work[2]
    IN  /\ updater[i].state = "busy"
        /\ \/ guide' = [guide EXCEPT ![k] = f] /\ UNCHANGED prints
           \/ /\ prints' = [prints EXCEPT ![k] = IF @ = f THEN Unset ELSE @]
              /\ UNCHANGED guide
        /\ updater' = [updater EXCEPT ![i] = Idle]
        /\ UNCHANGED <<sectionQueue, demuxerVars, ddbVars, controlVars, observerVars, dispatched>>

\* The next DDB: the urgent ones first.
TakeDDB ==
    \/ urgentQueue > 0 /\ urgentQueue' = urgentQueue - 1 /\ UNCHANGED ddbQueue
    \/ ddbQueue > 0 /\ ddbQueue' = ddbQueue - 1 /\ UNCHANGED urgentQueue

\* Mutant: a canceled worker returns without finishing its backlog.
DDBTakesOrLeaves(i) ==
    /\ ddbWorker[i] = "idle"
    /\ \/ TakeDDB /\ ddbWorker' = [ddbWorker EXCEPT ![i] = "busy"]
       \/ /\ i \in stopAsked /\ ddbWorker' = [ddbWorker EXCEPT ![i] = "done"]
          /\ UNCHANGED <<ddbQueue, urgentQueue>>
    /\ UNCHANGED <<workGroup, demuxerVars, eitVars, controlVars, observerVars, dispatched>>

\* runDataBroadcastUpdates takes a section or, once its context is canceled, goes on
\* to finish the backlog.  An urgent section that arrives between the two selects may
\* lose to a normal one.
DDBTakes(i) ==
    /\ ddbWorker[i] = "idle"
    /\ \/ TakeDDB /\ ddbWorker' = [ddbWorker EXCEPT ![i] = "busy"]
       \/ /\ i \in stopAsked /\ ddbWorker' = [ddbWorker EXCEPT ![i] = "drain"]
          /\ UNCHANGED <<ddbQueue, urgentQueue>>
    /\ UNCHANGED <<workGroup, demuxerVars, eitVars, controlVars, observerVars, dispatched>>

\* The backlog: until both queues are empty.
DDBDrains(i) ==
    /\ ddbWorker[i] = "drain"
    /\ \/ TakeDDB /\ ddbWorker' = [ddbWorker EXCEPT ![i] = "drainBusy"]
       \/ /\ ddbQueue = 0 /\ urgentQueue = 0
          /\ ddbWorker' = [ddbWorker EXCEPT ![i] = "done"]
          /\ UNCHANGED <<ddbQueue, urgentQueue>>
    /\ UNCHANGED <<workGroup, demuxerVars, eitVars, controlVars, observerVars, dispatched>>

\* observeQueuedDDB.
DDBObserved(i) ==
    /\ ddbWorker[i] \in {"busy", "drainBusy"}
    /\ ddbWorker' = [ddbWorker EXCEPT ![i] = IF @ = "busy" THEN "idle" ELSE "drain"]
    /\ workGroup' = workGroup - 1
    /\ UNCHANGED <<ddbQueue, urgentQueue, demuxerVars, eitVars, controlVars, observerVars,
                   dispatched>>

-----------------------------------------------------------------------------
(* Observers and the life of the demuxer                                   *)

\* streamDemuxer: a stopped session refuses; otherwise the session's raw demuxer; on a
\* remote input a stopped one is replaced, and the workers are started unless they still
\* can be canceled.
StreamDemuxer(o) ==
    LET restart == Restartable /\ HasStopped(raw)
    IN  /\ observer[o] = "idle" /\ sessionStop = "no"
        /\ restart => raw < MaxDemuxers
        /\ IF restart
           THEN /\ raw' = raw + 1
                /\ upstream' = [upstream EXCEPT ![raw + 1] = "new"]
                /\ IF cancelable THEN UNCHANGED <<cancelable, workers, updater, ddbWorker>>
                   ELSE /\ cancelable' = TRUE /\ workers' = 2
                        /\ updater' = [updater EXCEPT ![2] = Idle]
                        /\ ddbWorker' = [ddbWorker EXCEPT ![2] = "idle"]
           ELSE UNCHANGED <<raw, upstream, cancelable, workers, updater, ddbWorker>>
        /\ observer' = [observer EXCEPT ![o] = "given"]
        /\ watched' = [watched EXCEPT ![o] = raw']
        /\ UNCHANGED <<users, sectionQueue, prints, guide, ddbQueue, urgentQueue, workGroup,
                       stopAsked, sessionStop, dispatched>>

\* KeepAlive attaches to the demuxer and starts it; a stopped one refuses, which ends
\* the observation like the end of the stream does.
KeepAlive(o) ==
    LET d == watched[o]
    IN  /\ observer[o] = "given"
        /\ IF HasStopped(d)
           THEN observer' = [observer EXCEPT ![o] = "waiting"] /\ UNCHANGED <<users, upstream>>
           ELSE /\ observer' = [observer EXCEPT ![o] = "watching"]
                /\ users' = [users EXCEPT ![d] = @ \cup {o}]
                /\ upstream' = [upstream EXCEPT ![d] = "running"]
        /\ UNCHANGED <<raw, watched, eitVars, ddbVars, controlVars, dispatched>>

\* The observer's context ends or its client fails: it leaves without waiting for the
\* work group.  The last subscriber stops the demuxer.
ObserverLeaves(o) ==
    LET d == watched[o]
        others == users[d] \ {o}
    IN  /\ observer[o] = "watching"
        /\ observer' = [observer EXCEPT ![o] = "idle"]
        /\ users' = [users EXCEPT ![d] = others]
        /\ upstream' = [upstream EXCEPT ![d] = IF others = {} THEN "canceled" ELSE @]
        /\ UNCHANGED <<raw, watched, eitVars, ddbVars, controlVars, dispatched>>

\* The source has ended: Demuxer.close finishes the subscribers that are left, who
\* then wait for the work group.
DemuxerCloses(d) ==
    /\ upstream[d] \in {"running", "canceled"}
    /\ upstream' = [upstream EXCEPT ![d] = "closing"]
    /\ observer' = [o \in Observers |-> IF o \in users[d] THEN "waiting" ELSE observer[o]]
    /\ users' = [users EXCEPT ![d] = {}]
    /\ UNCHANGED <<raw, watched, eitVars, ddbVars, controlVars, dispatched>>

\* The observer whose stream has ended returns when the work group is empty.
ObserverReturns(o) ==
    /\ observer[o] = "waiting" /\ workGroup = 0
    /\ observer' = [observer EXCEPT ![o] = "idle"]
    /\ UNCHANGED <<watched, demuxerVars, eitVars, ddbVars, controlVars, dispatched>>

\* onEmpty of the session's first demuxer calls stopSectionUpdates: it takes the cancel
\* function and cancels the workers; a demuxer made by a restart has no onEmpty.
OnEmpty(d) ==
    /\ upstream[d] = "closing"
    /\ upstream' = [upstream EXCEPT ![d] = IF d = 1 THEN "stopping" ELSE "gone"]
    /\ IF d = 1 /\ cancelable
       THEN cancelable' = FALSE /\ stopAsked' = stopAsked \cup {workers}
       ELSE UNCHANGED <<cancelable, stopAsked>>
    /\ UNCHANGED <<raw, users, eitVars, ddbVars, workers, sessionStop, observerVars, dispatched>>

\* ... and waits for them.
WorkersStopped(d) ==
    /\ upstream[d] = "stopping"
    /\ updater[1].state = "done" /\ ddbWorker[1] = "done"
    /\ upstream' = [upstream EXCEPT ![d] = "gone"]
    /\ UNCHANGED <<raw, users, eitVars, ddbVars, controlVars, observerVars, dispatched>>

\* Session.Stop marks the session and stops the current raw demuxer: one that runs is
\* canceled, one that was never started closes at once.
SessionStop ==
    /\ sessionStop = "no" /\ sessionStop' = "demuxer"
    /\ upstream' = [upstream EXCEPT ![raw] = CASE @ = "new" -> "closing"
                                             [] @ = "running" -> "canceled"
                                             [] OTHER -> @]
    /\ UNCHANGED <<raw, users, eitVars, ddbVars, cancelable, workers, stopAsked, observerVars,
                   dispatched>>

\* When the demuxer is done, Stop cancels the workers, if onEmpty has not, ...
StopUpdates ==
    /\ sessionStop = "demuxer" /\ upstream[raw] \in {"closing", "stopping", "gone"}
    /\ sessionStop' = "workers"
    /\ cancelable' = FALSE
    /\ stopAsked' = IF cancelable THEN stopAsked \cup {workers} ELSE stopAsked
    /\ UNCHANGED <<demuxerVars, eitVars, ddbVars, workers, observerVars, dispatched>>

\* ... and waits for them.
SessionStopReturns ==
    /\ sessionStop = "workers"
    /\ updater[workers].state = "done" /\ ddbWorker[workers] = "done"
    /\ sessionStop' = "over"
    /\ UNCHANGED <<demuxerVars, eitVars, ddbVars, cancelable, workers, stopAsked, observerVars,
                   dispatched>>

-----------------------------------------------------------------------------
WorkerStep(i) == UpdaterTakes(i) \/ UpdaterStores(i) \/ DDBTakes(i) \/ DDBDrains(i) \/ DDBObserved(i)

SectionNext ==
    \/ \E k \in EITKeys, f \in Prints : ObserveEIT(k, f)
    \/ \E urgent \in BOOLEAN : ObserveDDB(urgent)
    \/ \E i \in Workers : WorkerStep(i)
    \/ \E o \in Observers :
           StreamDemuxer(o) \/ KeepAlive(o) \/ ObserverLeaves(o) \/ ObserverReturns(o)
    \/ \E d \in Demuxers : DemuxerCloses(d) \/ OnEmpty(d) \/ WorkersStopped(d)
    \/ SessionStop \/ StopUpdates \/ SessionStopReturns

\* Workers and returning goroutines keep running; the source and the clients need not
\* end or leave.
SectionFairness ==
    /\ \A i \in Workers : WF_sectionVars(DDBTakes(i) \/ DDBDrains(i) \/ DDBObserved(i))
    /\ \A i \in Workers : WF_sectionVars(UpdaterTakes(i) \/ UpdaterStores(i))
    /\ \A o \in Observers : WF_sectionVars(ObserverReturns(o))
    /\ \A d \in Demuxers : WF_sectionVars(OnEmpty(d) \/ WorkersStopped(d))
    /\ WF_sectionVars(StopUpdates \/ SessionStopReturns)

SectionSpec == SectionInit /\ [][SectionNext]_sectionVars /\ SectionFairness

-----------------------------------------------------------------------------
(* Properties                                                              *)

\* The sections of key k that are queued, and the updaters that store one of them.
Queued(k) == {i \in DOMAIN sectionQueue : sectionQueue[i][1] = k}
Storing(k) == {i \in Workers : updater[i].state = "busy" /\ updater[i].work[1] = k}

\* A fingerprint suppresses the repetitions of a section only while that section is the
\* newest on its way to the guide, or has reached it: overflow, failed updates and newer
\* versions never leave a reservation behind that would keep the guide out of date.
FingerprintIsBacked ==
    \A k \in EITKeys : prints[k] # Unset =>
        /\ \A i \in Queued(k) :
               (\A j \in Queued(k) : j <= i) => prints[k] = sectionQueue[i][2]
        /\ Queued(k) = {} => \A i \in Storing(k) :
               (\A j \in Storing(k) : j <= i) => prints[k] = updater[i].work[2]
        /\ Queued(k) = {} /\ Storing(k) = {} => prints[k] = guide[k]

\* The work group counts exactly the DDB sections that are queued or being handled.
WorkGroupIsExact ==
    workGroup = ddbQueue + urgentQueue
                + Cardinality({i \in Workers : ddbWorker[i] \in {"busy", "drainBusy"}})

\* Sections that were accepted from the demuxer are finished: when no data-broadcast
\* worker is left, none is queued.  A section queued behind the last worker would stay
\* in the work group for ever, and every observer that waits for it as well.
BacklogIsFinished ==
    (\A i \in Workers : ddbWorker[i] \in {"off", "done"}) => ddbQueue + urgentQueue = 0

\* An observer whose stream has ended returns.
ObserversReturn ==
    \A o \in Observers : (observer[o] = "waiting") ~> (observer[o] # "waiting")

=============================================================================
