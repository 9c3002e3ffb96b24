----------------------------- MODULE JobManager -----------------------------
(***************************************************************************)
(* The job manager of internal/job: a queue of background jobs (service    *)
(* scans, EPG and logo gatherers) run by at most MaxConcurrent goroutines, *)
(* with dependencies, exclusive keys, retries, aborts and a shutdown.      *)
(*                                                                         *)
(* Every method holds JobManager.mu, so a handler is one action, except    *)
(* that shutdownCancel() is called without the lock: the loops that read   *)
(* shutdownCtx (dispatchLocked) and the loops of Shutdown are therefore    *)
(* steps of their own, taken while mu says that the lock is held.          *)
(***************************************************************************)
EXTENDS Integers, FiniteSets, Sequences, SequencesExt

CONSTANTS
  Jobs,            \* execution ids (uuid.New); bounds the number of executions
  Defs,            \* job definitions that callers register or enqueue
  Registrable,     \* the definitions that callers register (app start-up)
  Keys,            \* job keys
  ExKeys,          \* exclusive keys
  KeyOf,           \* JobDefinition.Key
  DependsOn,       \* JobDefinition.DependsOn, a set of keys
  ExclusiveKeys,   \* JobDefinition.ExclusiveKeys, a set of exclusive keys
  RetryDelays,     \* len(JobDefinition.RetryDelays)
  Reporting,       \* the definitions whose handler reports a result
  Rerunnable,      \* the definitions with IsRerunnable
  Abortable,       \* the executions that clients ask to abort
  MaxConcurrent,   \* Config.MaxConcurrentJobs
  MaxHistory,      \* Config.MaxHistory
  NoDef            \* no definition

ASSUME JobsFinite == IsFiniteSet(Jobs)

ASSUME DefinitionsTyped ==
  /\ KeyOf \in [Defs -> Keys]
  /\ DependsOn \in [Defs -> SUBSET Keys]
  /\ ExclusiveKeys \in [Defs -> SUBSET ExKeys]
  /\ RetryDelays \in [Defs -> Nat]
  /\ Registrable \subseteq Defs
  /\ Reporting \subseteq Defs
  /\ Rerunnable \subseteq Defs
  /\ Abortable \subseteq Jobs
  /\ NoDef \notin Defs

\* NewManager replaces a limit that is not positive by a default.
ASSUME LimitsPositive == MaxConcurrent \in Nat \ {0} /\ MaxHistory \in Nat \ {0}

VARIABLES
  definitions,          \* registered definition of each key
  gocronIDs,            \* keys that have a cron schedule
  status,               \* Job.Status, "none" before the execution exists
  definition,           \* Job.definition
  retryCount,           \* Job.RetryCount
  isAborting,           \* Job.IsAborting
  hasAborted,           \* Job.HasAborted
  hasFailed,            \* Job.HasFailed
  result,               \* the executions with a Job.Result
  history,              \* JobManager.history
  queue,                \* JobManager.queue
  active,               \* the domain of JobManager.active
  cancelled,            \* the executions whose context was cancelled by name
  activeKeys,           \* JobManager.activeKeys
  activeExclusiveKeys,  \* JobManager.activeExclusiveKeys
  running,              \* JobManager.running
  timers,               \* executions with a retry timer goroutine
  mu,                   \* who holds JobManager.mu: "free", "dispatch", "abort"
  shutdown,             \* progress of Shutdown
  ranged, cursor        \* the array Shutdown ranges over, and its index

registry  == <<definitions, gocronIDs>>
jobFlags  == <<definition, retryCount, isAborting, hasAborted, hasFailed, result>>
slots     == <<active, cancelled, activeExclusiveKeys, running>>
rangeLoop == <<ranged, cursor>>
vars == <<registry, status, jobFlags, history, queue, slots, activeKeys,
          timers, mu, shutdown, rangeLoop>>

Statuses  == {"none", "queued", "standby", "running", "finished"}
Unfinished(st) == {j \in Jobs : st[j] \in {"queued", "standby", "running"}}

\* What a handler returns: nil, an error that RetryIf accepts, one that it
\* refuses, or context.Canceled.
Results == {"nil", "retryable", "fatal", "canceled"}

\* shutdownCtx.Err() != nil
IsShutdown == shutdown # "up"

TypeOK ==
  /\ definitions \in [Keys -> Defs \cup {NoDef}]
  /\ gocronIDs \subseteq Keys
  /\ status \in [Jobs -> Statuses]
  /\ definition \in [Jobs -> Defs \cup {NoDef}]
  /\ retryCount \in [Jobs -> Nat]
  /\ isAborting \in [Jobs -> BOOLEAN]
  /\ hasAborted \in [Jobs -> BOOLEAN]
  /\ hasFailed \in [Jobs -> BOOLEAN]
  /\ result \subseteq Jobs
  /\ history \in Seq(Jobs)
  /\ queue \in Seq(Jobs)
  /\ active \subseteq Jobs
  /\ cancelled \subseteq Jobs
  /\ activeKeys \subseteq Keys
  /\ activeExclusiveKeys \subseteq ExKeys
  /\ running \in Nat
  /\ timers \subseteq Jobs
  /\ mu \in {"free", "dispatch", "abort"}
  /\ shutdown \in {"up", "cancelled", "aborting", "waiting", "returned", "failed"}
  /\ ranged \in Seq(Jobs)
  /\ cursor \in Nat

Init ==
  /\ definitions = [k \in Keys |-> NoDef]
  /\ gocronIDs = {}
  /\ status = [j \in Jobs |-> "none"]
  /\ definition = [j \in Jobs |-> NoDef]
  /\ retryCount = [j \in Jobs |-> 0]
  /\ isAborting = [j \in Jobs |-> FALSE]
  /\ hasAborted = [j \in Jobs |-> FALSE]
  /\ hasFailed = [j \in Jobs |-> FALSE]
  /\ result = {}
  /\ history = <<>>
  /\ queue = <<>>
  /\ active = {}
  /\ cancelled = {}
  /\ activeKeys = {}
  /\ activeExclusiveKeys = {}
  /\ running = 0
  /\ timers = {}
  /\ mu = "free"
  /\ shutdown = "up"
  /\ ranged = <<>>
  /\ cursor = 0

-----------------------------------------------------------------------------
(* Helpers that run with mu held. *)

\* Mutant: a full history drops its oldest job, finished or not.
TrimHistoryOldest(h, st) == IF Len(h) > MaxHistory THEN Tail(h) ELSE h

\* trimHistory: drop the oldest finished job of a history that is too long. The
\* code loops, but its second iteration never finds a job to drop: one call adds
\* or finishes one job, and HistoryTrimmed says that this is enough.
TrimHistory(h, st) ==
  LET finished == {i \in 1..Len(h) : st[h[i]] = "finished"}
  IN  IF Len(h) > MaxHistory /\ finished # {}
      THEN RemoveAt(h, CHOOSE i \in finished : \A k \in finished : i <= k)
      ELSE h

\* dependenciesSatisfiedLocked
DependenciesSatisfied(d) ==
  /\ DependsOn[d] \cap activeKeys = {}
  /\ ExclusiveKeys[d] \cap activeExclusiveKeys = {}

\* finishLocked; its early return for a finished job is never taken, see
\* QueueHoldsQueued and SlotAccounting.
FinishLocked(j, err, aborted) ==
  /\ status' = [status EXCEPT ![j] = "finished"]
  /\ hasAborted' = [hasAborted EXCEPT ![j] = @ \/ aborted]
  /\ hasFailed' = [hasFailed EXCEPT
       ![j] = @ \/ (err \notin {"nil", "canceled"} /\ ~hasAborted[j] /\ ~aborted)]
  /\ activeKeys' = activeKeys \ {KeyOf[definition[j]]}
  /\ history' = TrimHistory(history, status')
  /\ UNCHANGED <<definition, retryCount, result>>

\* abortPendingLocked
AbortPendingLocked(j) ==
  /\ isAborting' = [isAborting EXCEPT ![j] = TRUE]
  /\ FinishLocked(j, "canceled", TRUE)

-----------------------------------------------------------------------------
(* Registration and scheduling. *)

Register(d) ==
  /\ mu = "free"
  /\ definitions' = [definitions EXCEPT ![KeyOf[d]] = d]
  /\ UNCHANGED <<gocronIDs, status, jobFlags, history, queue, slots, activeKeys,
                 timers, mu, shutdown, rangeLoop>>

AddSchedule(k) ==
  /\ mu = "free"
  /\ definitions[k] # NoDef
  /\ gocronIDs' = gocronIDs \cup {k}
  /\ UNCHANGED <<definitions, status, jobFlags, history, queue, slots, activeKeys,
                 timers, mu, shutdown, rangeLoop>>

\* uuid.New: an execution id that was never used (which one does not matter).
IsFresh(j) == status[j] = "none" /\ j = CHOOSE x \in Jobs : status[x] = "none"

\* enqueueLocked up to its call of dispatchLocked. A refused call (shut down,
\* key already active) changes nothing.
EnqueueLocked(d) ==
  /\ mu = "free"
  /\ ~IsShutdown
  /\ KeyOf[d] \notin activeKeys
  /\ \E j \in Jobs :
       /\ IsFresh(j)
       /\ status' = [status EXCEPT ![j] = "queued"]
       /\ definition' = [definition EXCEPT ![j] = d]
       /\ history' = TrimHistory(Append(history, j), status')
       /\ queue' = Append(queue, j)
  /\ activeKeys' = activeKeys \cup {KeyOf[d]}
  /\ mu' = "dispatch"
  /\ UNCHANGED <<registry, retryCount, isAborting, hasAborted, hasFailed, result,
                 slots, timers, shutdown, rangeLoop>>

EnqueueDefinition(d) == EnqueueLocked(d)

\* Enqueue(key), called by clients.
Enqueue(k) == definitions[k] # NoDef /\ EnqueueLocked(definitions[k])

\* wrapHandler, called by the cron scheduler or through RunSchedule.
CronTick(k) == k \in gocronIDs /\ Enqueue(k)

\* Rerun. It drops mu between reading the (immutable) definition and enqueuing
\* it; an execution trimmed in that gap is covered by EnqueueDefinition.
Rerun(j) ==
  /\ j \in Range(history)
  /\ definition[j] \in Rerunnable
  /\ EnqueueDefinition(definition[j])

-----------------------------------------------------------------------------
(* Dispatch and completion. *)

\* startJobLocked
StartJobLocked(j) ==
  /\ status' = [status EXCEPT ![j] = "running"]
  /\ active' = active \cup {j}
  /\ activeExclusiveKeys' = activeExclusiveKeys \cup ExclusiveKeys[definition[j]]
  /\ running' = running + 1
  /\ UNCHANGED cancelled

Runnable(i) == DependenciesSatisfied(definition[queue[i]])

\* Mutant: one handler too many.
MayDispatchOffByOne == running <= MaxConcurrent /\ ~IsShutdown

\* The condition of dispatchLocked's loop.
MayDispatch == running < MaxConcurrent /\ ~IsShutdown

\* One iteration of dispatchLocked: popRunnableQueueLocked and startJobLocked.
DispatchStart ==
  /\ mu = "dispatch"
  /\ MayDispatch
  /\ \E i \in 1..Len(queue) :
       /\ Runnable(i)
       /\ \A k \in 1..(i - 1) : ~Runnable(k)
       /\ StartJobLocked(queue[i])
       /\ queue' = RemoveAt(queue, i)
  /\ UNCHANGED <<registry, jobFlags, history, activeKeys, timers, mu, shutdown,
                 rangeLoop>>

\* dispatchLocked returns and the handler that called it unlocks mu.
DispatchEnd ==
  /\ mu = "dispatch"
  /\ ~(MayDispatch /\ \E i \in 1..Len(queue) : Runnable(i))
  /\ mu' = "free"
  /\ UNCHANGED <<registry, status, jobFlags, history, queue, slots, activeKeys,
                 timers, shutdown, rangeLoop>>

\* jobResultReporter.SetJobResult, called by a handler
SetJobResult(j) ==
  /\ mu = "free"
  /\ j \in active
  /\ definition[j] \in Reporting
  /\ status[j] # "finished"
  /\ result' = result \cup {j}
  /\ UNCHANGED <<registry, status, definition, retryCount, isAborting, hasAborted,
                 hasFailed, history, queue, slots, activeKeys, timers, mu, shutdown,
                 rangeLoop>>

\* Mutant: a completion releases the exclusive keys of every job.
CompleteActiveClearsKeys(j) ==
  /\ active' = active \ {j}
  /\ activeExclusiveKeys' = {}
  /\ running' = running - 1
  /\ UNCHANGED cancelled

\* completeActiveLocked
CompleteActiveLocked(j) ==
  /\ active' = active \ {j}
  /\ activeExclusiveKeys' = activeExclusiveKeys \ ExclusiveKeys[definition[j]]
  /\ running' = running - 1
  /\ UNCHANGED cancelled

\* Mutant: a failure is retried although the manager shuts down.
ShouldRetryInShutdown(j, err) ==
  err = "retryable" /\ retryCount[j] < RetryDelays[definition[j]]

\* shouldRetryLocked
ShouldRetry(j, err) ==
  /\ err = "retryable"
  /\ retryCount[j] < RetryDelays[definition[j]]
  /\ ~IsShutdown

\* Mutant: a job in standby gives up its key.
StandbyReleasesKey(j) ==
  /\ retryCount' = [retryCount EXCEPT ![j] = @ + 1]
  /\ status' = [status EXCEPT ![j] = "standby"]
  /\ timers' = timers \cup {j}
  /\ activeKeys' = activeKeys \ {KeyOf[definition[j]]}
  /\ UNCHANGED <<definition, isAborting, hasAborted, hasFailed, result, history>>

\* standbyLocked
StandbyLocked(j) ==
  /\ retryCount' = [retryCount EXCEPT ![j] = @ + 1]
  /\ status' = [status EXCEPT ![j] = "standby"]
  /\ timers' = timers \cup {j}
  /\ UNCHANGED <<definition, isAborting, hasAborted, hasFailed, result, activeKeys,
                 history>>

\* Mutant: a completion does not dispatch the queue.
RunCompleteNoDispatch(j, err) ==
  /\ mu = "free"
  /\ j \in active
  /\ CompleteActiveLocked(j)
  /\ \/ /\ ~hasAborted[j] /\ ShouldRetry(j, err)
        /\ StandbyLocked(j)
     \/ /\ ~(~hasAborted[j] /\ ShouldRetry(j, err))
        /\ FinishLocked(j, err, hasAborted[j])
        /\ UNCHANGED <<isAborting, timers>>
  /\ UNCHANGED <<registry, queue, mu, shutdown, rangeLoop>>

\* run, after the handler has returned err, up to its call of dispatchLocked
RunComplete(j, err) ==
  /\ mu = "free"
  /\ j \in active
  /\ CompleteActiveLocked(j)
  /\ \/ /\ ~hasAborted[j] /\ ShouldRetry(j, err)
        /\ StandbyLocked(j)
     \/ /\ ~(~hasAborted[j] /\ ShouldRetry(j, err))
        /\ FinishLocked(j, err, hasAborted[j])
        /\ UNCHANGED <<isAborting, timers>>
  /\ mu' = "dispatch"
  /\ UNCHANGED <<registry, queue, shutdown, rangeLoop>>

\* Mutant: the timer goroutine does not look at its job again.
RetryAlwaysWanted(j) == ~IsShutdown

\* The condition under which a retry timer that has fired puts its job back.
RetryStillWanted(j) == status[j] = "standby" /\ ~hasAborted[j] /\ ~IsShutdown

\* The timer goroutine of standbyLocked: its timer fired and it holds mu.
RetryTimer(j) ==
  /\ mu = "free"
  /\ j \in timers
  /\ timers' = timers \ {j}
  /\ \/ /\ RetryStillWanted(j)
        /\ status' = [status EXCEPT ![j] = "queued"]
        /\ queue' = Append(queue, j)
        /\ mu' = "dispatch"
     \/ /\ ~RetryStillWanted(j)
        /\ UNCHANGED <<status, queue, mu>>
  /\ UNCHANGED <<registry, jobFlags, history, slots, activeKeys, shutdown, rangeLoop>>

\* The same goroutine sees shutdownCtx done and returns without locking mu.
TimerStopped(j) ==
  /\ IsShutdown
  /\ j \in timers
  /\ timers' = timers \ {j}
  /\ UNCHANGED <<registry, status, jobFlags, history, queue, slots, activeKeys, mu,
                 shutdown, rangeLoop>>

-----------------------------------------------------------------------------
(* Abort and Shutdown. *)

\* Mutant: aborting a running job gives its slot back at once.
AbortActiveFreesSlot(j) ==
  /\ mu = "free"
  /\ j \in active
  /\ cancelled' = cancelled \cup {j}
  /\ isAborting' = [isAborting EXCEPT ![j] = TRUE]
  /\ hasAborted' = [hasAborted EXCEPT ![j] = TRUE]
  /\ running' = running - 1
  /\ UNCHANGED <<registry, status, definition, retryCount, hasFailed, result, history,
                 queue, active, activeExclusiveKeys, activeKeys, timers, mu,
                 shutdown, rangeLoop>>

\* abortActiveLocked: the job finishes when its handler returns.
AbortActive(j) ==
  /\ mu = "free"
  /\ j \in active
  /\ cancelled' = cancelled \cup {j}
  /\ IF j \in Range(history)
     THEN /\ isAborting' = [isAborting EXCEPT ![j] = TRUE]
          /\ hasAborted' = [hasAborted EXCEPT ![j] = TRUE]
     ELSE UNCHANGED <<isAborting, hasAborted>>
  /\ UNCHANGED <<registry, status, definition, retryCount, hasFailed, result, history,
                 queue, active, activeExclusiveKeys, running, activeKeys, timers, mu,
                 shutdown, rangeLoop>>

\* Mutant: an aborted job stays in the queue.
AbortQueuedKeepsItem(j) ==
  /\ mu = "free"
  /\ j \in Range(queue)
  /\ AbortPendingLocked(j)
  /\ UNCHANGED <<registry, queue, slots, timers, mu, shutdown, rangeLoop>>

\* abortQueuedLocked. The queue is not dispatched again.
AbortQueued(j) ==
  /\ mu = "free"
  /\ j \notin active
  /\ \E i \in 1..Len(queue) :
       /\ queue[i] = j
       /\ \A k \in 1..(i - 1) : queue[k] # j
       /\ queue' = RemoveAt(queue, i)
  /\ AbortPendingLocked(j)
  /\ UNCHANGED <<registry, slots, timers, mu, shutdown, rangeLoop>>

\* abortStandbyLocked. The queue is not dispatched again.
AbortStandby(j) ==
  /\ mu = "free"
  /\ j \notin active
  /\ j \notin Range(queue)
  /\ j \in Range(history)
  /\ status[j] = "standby"
  /\ AbortPendingLocked(j)
  /\ UNCHANGED <<registry, queue, slots, timers, mu, shutdown, rangeLoop>>

\* Abort(id)
Abort(j) == AbortActive(j) \/ AbortQueued(j) \/ AbortStandby(j)

\* Shutdown calls shutdownCancel before it locks mu.
ShutdownCancel ==
  /\ shutdown = "up"
  /\ shutdown' = "cancelled"
  /\ UNCHANGED <<registry, status, jobFlags, history, queue, slots, activeKeys, timers,
                 mu, rangeLoop>>

ShutdownLock ==
  /\ shutdown = "cancelled"
  /\ mu = "free"
  /\ mu' = "abort"
  /\ UNCHANGED <<registry, status, jobFlags, history, queue, slots, activeKeys, timers,
                 shutdown, rangeLoop>>

\* One iteration of the first loop of abortQueuedAndStandbyLocked.
ShutdownAbortQueued ==
  /\ mu = "abort"
  /\ shutdown = "cancelled"
  /\ queue # <<>>
  /\ queue' = Tail(queue)
  /\ AbortPendingLocked(Head(queue))
  /\ UNCHANGED <<registry, slots, timers, mu, shutdown, rangeLoop>>

\* The second loop evaluates `range m.history` once: it walks the array and the
\* length that the slice has now.
ShutdownBeginRange ==
  /\ mu = "abort"
  /\ shutdown = "cancelled"
  /\ queue = <<>>
  /\ shutdown' = "aborting"
  /\ ranged' = history
  /\ cursor' = 1
  /\ UNCHANGED <<registry, status, jobFlags, history, queue, slots, activeKeys, timers,
                 mu>>

\* What the array holds after trimHistory made h of the slice at its front, in
\* place: the elements after a removed one moved down, the last place keeps its value.
ShiftedArray(arr, h) == h \o SubSeq(arr, Len(h) + 1, Len(arr))

\* One iteration of the second loop.
ShutdownAbortStandby ==
  /\ mu = "abort"
  /\ shutdown = "aborting"
  /\ cursor <= Len(ranged)
  /\ cursor' = cursor + 1
  /\ IF status[ranged[cursor]] = "standby"
     THEN /\ AbortPendingLocked(ranged[cursor])
          /\ ranged' = ShiftedArray(ranged, history')
     ELSE UNCHANGED <<status, jobFlags, activeKeys, history, ranged>>
  /\ UNCHANGED <<registry, queue, slots, timers, mu, shutdown>>

\* cancelActiveLocked, and the unlock
ShutdownCancelActive ==
  /\ mu = "abort"
  /\ shutdown = "aborting"
  /\ cursor > Len(ranged)
  /\ cancelled' = cancelled \cup active
  /\ mu' = "free"
  /\ shutdown' = "waiting"
  /\ ranged' = <<>>
  /\ cursor' = 0
  /\ UNCHANGED <<registry, status, jobFlags, history, queue, active,
                 activeExclusiveKeys, running, activeKeys, timers>>

\* wg.Wait returns: no run goroutine and no retry timer is left.
ShutdownReturn ==
  /\ shutdown = "waiting"
  /\ active = {}
  /\ timers = {}
  /\ mu # "dispatch"
  /\ shutdown' = "returned"
  /\ UNCHANGED <<registry, status, jobFlags, history, queue, slots, activeKeys, timers,
                 mu, rangeLoop>>

\* Shutdown gives up with an error: the scheduler did not stop, or ctx was done
\* before wg.Wait returned. Handlers may still be running.
ShutdownFails ==
  /\ shutdown = "waiting"
  /\ shutdown' = "failed"
  /\ UNCHANGED <<registry, status, jobFlags, history, queue, slots, activeKeys, timers,
                 mu, rangeLoop>>

-----------------------------------------------------------------------------
Next ==
  \/ \E d \in Registrable : Register(d)
  \/ \E d \in Defs : EnqueueDefinition(d)
  \/ \E k \in Keys : AddSchedule(k) \/ Enqueue(k) \/ CronTick(k)
  \/ \E j \in Jobs :
       \/ Rerun(j) \/ SetJobResult(j) \/ RetryTimer(j) \/ TimerStopped(j)
       \/ \E err \in Results : RunComplete(j, err)
  \/ \E j \in Abortable : Abort(j)
  \/ DispatchStart \/ DispatchEnd
  \/ ShutdownCancel \/ ShutdownLock \/ ShutdownAbortQueued \/ ShutdownBeginRange
  \/ ShutdownAbortStandby \/ ShutdownCancelActive \/ ShutdownReturn
  \/ ShutdownFails

Spec == Init /\ [][Next]_vars

-----------------------------------------------------------------------------
(* Fairness. The Go scheduler runs every goroutine that can run and grants mu  *)
(* to a waiter; a retry timer fires; handlers stop when their context ends.    *)
(* Nothing is assumed of ShutdownFails: an error and a deadline may come or not. *)

\* The steps of whoever holds mu, and of Shutdown's wait for the goroutines.
Dispatching == DispatchStart \/ DispatchEnd
ShuttingDown == \/ ShutdownAbortQueued \/ ShutdownBeginRange \/ ShutdownAbortStandby
                \/ ShutdownCancelActive \/ ShutdownReturn

Fairness ==
  /\ WF_vars(Dispatching)
  /\ WF_vars(ShuttingDown)
  /\ SF_vars(ShutdownLock)
  /\ \A j \in Jobs : /\ SF_vars(RetryTimer(j) \/ TimerStopped(j))
                     /\ SF_vars(\E err \in Results : RunComplete(j, err))

FairSpec == Spec /\ Fairness

-----------------------------------------------------------------------------
(* Properties. *)

\* The counter running, the map active and the statuses agree, and at most
\* MaxConcurrent handlers run, whatever retries, aborts and completions interleave.
SlotAccounting ==
  /\ active = {j \in Jobs : status[j] = "running"}
  /\ running = Cardinality(active)
  /\ running <= MaxConcurrent

\* Two running jobs never hold the same exclusive key (the jobs that rewrite the
\* service topology exclude each other), and activeExclusiveKeys holds the keys of
\* the running jobs, no more and no fewer.
ExclusiveKeysHeld ==
  /\ activeExclusiveKeys = UNION {ExclusiveKeys[definition[j]] : j \in active}
  /\ \A i, j \in active :
       i # j => ExclusiveKeys[definition[i]] \cap ExclusiveKeys[definition[j]] = {}

\* activeKeys holds the keys of the unfinished jobs and no two unfinished jobs
\* have one key, also while a job waits in standby for a retry.
OneJobPerKey ==
  /\ activeKeys = {KeyOf[definition[j]] : j \in Unfinished(status)}
  /\ \A i, j \in Unfinished(status) :
       KeyOf[definition[i]] = KeyOf[definition[j]] => i = j

\* The queue holds each queued job once and nothing else: a job is neither lost
\* between standby, queue and slot nor started twice.
QueueHoldsQueued ==
  /\ IsInjective(queue)
  /\ Range(queue) = {j \in Jobs : status[j] = "queued"}

\* Every unfinished job is in the history, once, so that Abort, Wait and Shutdown
\* can find it; and trimHistory left no finished job in a history that is too long.
HistoryTrimmed ==
  Len(history) > MaxHistory => \A j \in Range(history) : status[j] # "finished"

HistorySound ==
  /\ IsInjective(history)
  /\ Unfinished(status) \subseteq Range(history)
  /\ \A j \in Range(history) : status[j] # "none"
  /\ HistoryTrimmed

\* A job starts only when every job it depends on has finished, its retries
\* included: "Build EPG inputs only after every scan has committed its result".
DependenciesFirst ==
  [][\A j, k \in Jobs :
       (status[j] # "running" /\ status'[j] = "running" /\ k \in Unfinished(status))
         => KeyOf[definition[k]] \notin DependsOn[definition[j]]]_vars

\* A finished job never changes again, although a retry timer, a reporter or an
\* aborting client may still hold it; an aborted job never gets another run, and
\* does not count as failed whatever its handler returns.
FinishedIsFinal ==
  [][\A j \in Jobs :
       /\ status[j] = "finished" =>
            UNCHANGED <<status[j], retryCount[j], hasAborted[j], hasFailed[j]>>
            /\ (j \in result <=> j \in result')
       /\ hasAborted[j] /\ status'[j] # status[j] =>
            status'[j] = "finished" /\ ~hasFailed'[j]]_vars

\* When Shutdown has returned nil, every job has finished: what was queued or in
\* standby is aborted, and what was running is waited for.
ShutdownNilFinished == shutdown = "returned" => Unfinished(status) = {}

\* The same, and from the end of Shutdown's loops on, an error returned included,
\* what is unfinished is a handler that still runs with its context cancelled: no
\* job is left in the queue or in standby, nothing starts late, no handler was
\* overlooked.
ShutdownFinishesAll ==
  /\ ShutdownNilFinished
  /\ shutdown \in {"waiting", "failed"} => Unfinished(status) \subseteq active \cap cancelled

\* Every execution reaches its terminal state, so that Wait returns: a queued job
\* gets its turn, a retry is taken, and Shutdown finishes what is left.
JobsFinish == \A j \in Jobs : status[j] # "none" ~> status[j] = "finished"

\* A queued job whose dependencies have all finished while a slot and its
\* exclusive keys are free is started or finished.
DependentsStart ==
  \A j \in Jobs :
    (/\ status[j] = "queued" /\ active = {} /\ ~IsShutdown
     /\ \A k \in Unfinished(status) : KeyOf[definition[k]] \notin DependsOn[definition[j]])
      ~> status[j] # "queued"
=============================================================================
