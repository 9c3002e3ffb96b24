-------------------------- MODULE JobManagerProofs --------------------------
(***************************************************************************)
(* Proofs that the job manager keeps its accounts for every set of jobs,   *)
(* definitions, dependencies, exclusive keys and limits: the invariants    *)
(* that TLC checks on the small instances of MC_JobManager.                *)
(***************************************************************************)
EXTENDS JobManager, SequenceLemmas, FiniteSetTheorems

\* Every execution that exists has a definition, and the range loop of Shutdown
\* starts at the first element.
Defined ==
  /\ \A j \in Jobs : status[j] # "none" => definition[j] \in Defs
  /\ shutdown = "aborting" => cursor >= 1

\* The inductive invariant.
IInv ==
  /\ TypeOK
  /\ Defined
  /\ SlotAccounting
  /\ ExclusiveKeysHeld
  /\ OneJobPerKey
  /\ QueueHoldsQueued
  /\ HistorySound

-----------------------------------------------------------------------------
(* What the helpers do to the state, one lemma per account. *)

\* trimHistory keeps the history, or drops one finished job of a long one.
LEMMA TrimHistoryCases ==
  ASSUME NEW h \in Seq(Jobs), NEW st \in [Jobs -> Statuses], IsInjective(h)
  PROVE  \/ /\ TrimHistory(h, st) = h
            /\ Len(h) > MaxHistory => \A x \in Range(h) : st[x] # "finished"
         \/ /\ Len(h) > MaxHistory
            /\ TrimHistory(h, st) \in Seq(Jobs)
            /\ IsInjective(TrimHistory(h, st))
            /\ Len(TrimHistory(h, st)) = Len(h) - 1
            /\ \E x \in Range(h) :
                 /\ st[x] = "finished"
                 /\ Range(TrimHistory(h, st)) = Range(h) \ {x}
<1> DEFINE finished == {i \in 1..Len(h) : st[h[i]] = "finished"}
<1>1. CASE Len(h) > MaxHistory /\ finished # {}
  <2> HIDE DEF finished
  <2>0. finished \subseteq Nat
    BY DEF finished
  <2>1. \E i \in finished : \A k \in finished : i <= k
    BY <1>1, <2>0, LeastNatural
  <2> DEFINE i == CHOOSE i \in finished : \A k \in finished : i <= k
  <2>2. i \in finished
    BY <2>1
  <2>3. TrimHistory(h, st) = RemoveAt(h, i)
    BY <1>1 DEF TrimHistory, finished
  <2> HIDE DEF i
  <2>4. i \in 1..Len(h) /\ st[h[i]] = "finished"
    BY <2>2 DEF finished
  <2>5. h[i] \in Range(h)
    BY <2>4 DEF Range
  <2>6. /\ RemoveAt(h, i) \in Seq(Jobs) /\ IsInjective(RemoveAt(h, i))
        /\ Range(RemoveAt(h, i)) = Range(h) \ {h[i]}
    BY <2>4, RemoveAtRange
  <2>7. Len(RemoveAt(h, i)) = Len(h) - 1
    BY <2>4, RemoveAtProperties
  <2> QED BY <1>1, <2>3, <2>4, <2>5, <2>6, <2>7
<1>2. CASE ~(Len(h) > MaxHistory /\ finished # {})
  <2>1. TrimHistory(h, st) = h
    BY <1>2 DEF TrimHistory
  <2>2. Len(h) > MaxHistory => \A x \in Range(h) : st[x] # "finished"
    BY <1>2 DEF Range
  <2> QED BY <2>1, <2>2
<1> QED BY <1>1, <1>2

\* Finishing an unfinished job and trimming keeps the history sound.
LEMMA FinishHistory ==
  ASSUME TypeOK, HistorySound, NEW j \in Jobs, j \in Unfinished(status),
         status' = [status EXCEPT ![j] = "finished"],
         history' = TrimHistory(history, status')
  PROVE  HistorySound' /\ history' \in Seq(Jobs)
<1>1. /\ history \in Seq(Jobs) /\ status' \in [Jobs -> Statuses] /\ IsInjective(history)
      /\ \A x \in Range(history) : x \in Jobs
  BY DEF TypeOK, HistorySound, Statuses, Range
<1>2. Unfinished(status') = Unfinished(status) \ {j} /\ j \in Range(history)
  BY DEF Unfinished, TypeOK, HistorySound
<1>3. \A x \in Range(history) : status'[x] # "none"
  BY <1>1 DEF HistorySound, TypeOK
<1>4. CASE /\ history' = history
           /\ Len(history) > MaxHistory => \A x \in Range(history) : status'[x] # "finished"
  BY <1>1, <1>2, <1>3, <1>4 DEF HistorySound, HistoryTrimmed
<1>5. CASE /\ Len(history) > MaxHistory
           /\ history' \in Seq(Jobs)
           /\ IsInjective(history')
           /\ Len(history') = Len(history) - 1
           /\ \E x \in Range(history) :
                /\ status'[x] = "finished"
                /\ Range(history') = Range(history) \ {x}
  <2>1. \A x \in Range(history) : status[x] # "finished"
    BY <1>5 DEF HistorySound, HistoryTrimmed
  <2>2. Range(history') = Range(history) \ {j}
    BY <1>1, <1>5, <2>1 DEF TypeOK
  <2>3. \A x \in Range(history') : status'[x] # "finished"
    BY <1>1, <2>1, <2>2 DEF TypeOK
  <2>4. Unfinished(status') \subseteq Range(history')
    BY <1>2, <2>2 DEF HistorySound
  <2> QED BY <1>3, <1>5, <2>2, <2>3, <2>4 DEF HistorySound, HistoryTrimmed
<1> QED BY <1>1, <1>4, <1>5, TrimHistoryCases

\* Adding a queued job to the history and trimming keeps it sound.
LEMMA EnqueueHistory ==
  ASSUME TypeOK, HistorySound, NEW j \in Jobs, status[j] = "none",
         status' = [status EXCEPT ![j] = "queued"],
         history' = TrimHistory(Append(history, j), status')
  PROVE  HistorySound' /\ history' \in Seq(Jobs)
<1> DEFINE h == Append(history, j)
<1>1. /\ history \in Seq(Jobs) /\ status' \in [Jobs -> Statuses] /\ IsInjective(history)
      /\ Range(history) \subseteq Jobs /\ j \notin Range(history)
  BY DEF TypeOK, HistorySound, Statuses, Range
<1>2. /\ h \in Seq(Jobs) /\ IsInjective(h) /\ Range(h) = Range(history) \cup {j}
      /\ Len(h) = Len(history) + 1 /\ Len(history) \in Nat
  BY <1>1, AppendRange
<1> HIDE DEF h
<1>3. Unfinished(status') = Unfinished(status) \cup {j}
  BY DEF Unfinished, TypeOK
<1>4. /\ Unfinished(status') \subseteq Range(h)
      /\ \A x \in Range(h) : status'[x] # "none"
  BY <1>1, <1>2, <1>3 DEF HistorySound, TypeOK
<1>5. \/ /\ history' = h
         /\ Len(h) > MaxHistory => \A x \in Range(h) : status'[x] # "finished"
      \/ /\ Len(h) > MaxHistory
         /\ history' \in Seq(Jobs)
         /\ IsInjective(history')
         /\ Len(history') = Len(h) - 1
         /\ \E x \in Range(h) : status'[x] = "finished" /\ Range(history') = Range(h) \ {x}
  BY <1>1, <1>2, TrimHistoryCases DEF h
<1>6. CASE /\ history' = h
           /\ Len(h) > MaxHistory => \A x \in Range(h) : status'[x] # "finished"
  BY <1>2, <1>4, <1>6 DEF HistorySound, HistoryTrimmed
<1>7. CASE /\ Len(h) > MaxHistory
           /\ history' \in Seq(Jobs)
           /\ IsInjective(history')
           /\ Len(history') = Len(h) - 1
           /\ \E x \in Range(h) : status'[x] = "finished" /\ Range(history') = Range(h) \ {x}
  <2>1. PICK x \in Range(h) : status'[x] = "finished" /\ Range(history') = Range(h) \ {x}
    BY <1>7
  <2>2. Unfinished(status') \subseteq Range(history')
    BY <1>4, <2>1 DEF Unfinished
  <2>3. x \in Range(history) /\ status[x] = "finished"
    BY <1>1, <1>2, <2>1 DEF TypeOK
  <2>4. ~(Len(history') > MaxHistory)
    BY <1>2, <1>7, <2>3, LimitsPositive DEF HistorySound, HistoryTrimmed
  <2> QED BY <1>4, <1>7, <2>1, <2>2, <2>4 DEF HistorySound, HistoryTrimmed
<1> QED BY <1>5, <1>6, <1>7

\* A job that finishes takes its key with it, and only its own.
LEMMA FinishKeys ==
  ASSUME OneJobPerKey, TypeOK, NEW j \in Jobs, j \in Unfinished(status),
         status' = [status EXCEPT ![j] = "finished"],
         definition' = definition,
         activeKeys' = activeKeys \ {KeyOf[definition[j]]}
  PROVE  OneJobPerKey'
<1>1. Unfinished(status') = Unfinished(status) \ {j}
  BY DEF Unfinished, TypeOK
<1> QED BY <1>1 DEF OneJobPerKey

\* A status change between unfinished states leaves the keys alone.
LEMMA SameKeys ==
  ASSUME OneJobPerKey, Unfinished(status') = Unfinished(status),
         definition' = definition, activeKeys' = activeKeys
  PROVE  OneJobPerKey'
BY DEF OneJobPerKey

\* A status change that starts, finishes or adds no job leaves the history sound.
LEMMA SameHistory ==
  ASSUME HistorySound, TypeOK, Unfinished(status') = Unfinished(status), history' = history,
         \A j \in Jobs : status'[j] # status[j] => status'[j] \notin {"none", "finished"}
  PROVE  HistorySound'
<1>1. \A x \in Range(history) : x \in Jobs
  BY DEF TypeOK, Range
<1> QED BY <1>1 DEF HistorySound, HistoryTrimmed

\* The accounts of the running jobs depend on these variables only.
LEMMA SameSlots ==
  ASSUME SlotAccounting, ExclusiveKeysHeld,
         active' = active, running' = running, activeExclusiveKeys' = activeExclusiveKeys,
         \A j \in Jobs : status'[j] = "running" <=> status[j] = "running",
         \A j \in active : definition'[j] = definition[j]
  PROVE  SlotAccounting' /\ ExclusiveKeysHeld'
<1>1. SlotAccounting'
  BY DEF SlotAccounting
<1>2. ExclusiveKeysHeld'
  BY DEF ExclusiveKeysHeld
<1> QED BY <1>1, <1>2

\* A step that touches none of the accounts keeps them.
LEMMA FrameStep ==
  ASSUME IInv, TypeOK', Defined',
         UNCHANGED <<status, definition, history, queue, active, activeKeys,
                     activeExclusiveKeys, running>>
  PROVE  IInv'
BY DEF IInv, SlotAccounting, ExclusiveKeysHeld, OneJobPerKey, QueueHoldsQueued,
       HistorySound, HistoryTrimmed, Unfinished

\* abortPendingLocked of a job that is queued or in standby keeps the accounts.
LEMMA AbortPending ==
  ASSUME IInv, NEW j \in Jobs, status[j] \in {"queued", "standby"},
         AbortPendingLocked(j),
         UNCHANGED <<registry, slots, timers, mu, shutdown>>,
         queue' \in Seq(Jobs), IsInjective(queue'), Range(queue') = Range(queue) \ {j},
         history' \in Seq(Jobs) => ranged' \in Seq(Jobs),
         cursor' \in Nat, cursor' >= cursor
  PROVE  IInv'
<1>1. /\ status' = [status EXCEPT ![j] = "finished"]
      /\ activeKeys' = activeKeys \ {KeyOf[definition[j]]}
      /\ history' = TrimHistory(history, status')
      /\ definition' = definition
      /\ j \in Unfinished(status)
  BY DEF AbortPendingLocked, FinishLocked, Unfinished
<1>2. HistorySound' /\ history' \in Seq(Jobs)
  BY <1>1, FinishHistory DEF IInv
<1>3. TypeOK'
  BY <1>1, <1>2 DEF IInv, TypeOK, AbortPendingLocked, FinishLocked, Statuses, registry, slots
<1>4. Defined'
  BY <1>1 DEF IInv, Defined, TypeOK
<1>5. \A k \in Jobs : status'[k] = "running" <=> status[k] = "running"
  BY <1>1 DEF IInv, TypeOK
<1>6. SlotAccounting' /\ ExclusiveKeysHeld'
  BY <1>1, <1>5, SameSlots DEF IInv, slots
<1>7. OneJobPerKey'
  BY <1>1, FinishKeys DEF IInv
<1>8. QueueHoldsQueued'
  BY <1>1 DEF IInv, QueueHoldsQueued, TypeOK
<1> QED BY <1>2, <1>3, <1>4, <1>6, <1>7, <1>8 DEF IInv

-----------------------------------------------------------------------------
(* The actions that change the accounts. *)

\* A new execution is appended to the queue and to the history under a key nobody holds.
LEMMA EnqueueStep ==
  ASSUME IInv, NEW d \in Defs, EnqueueLocked(d)
  PROVE  IInv'
<1>1. PICK j \in Jobs :
        /\ status[j] = "none"
        /\ status' = [status EXCEPT ![j] = "queued"]
        /\ definition' = [definition EXCEPT ![j] = d]
        /\ history' = TrimHistory(Append(history, j), status')
        /\ queue' = Append(queue, j)
  BY DEF EnqueueLocked, IsFresh
<1>2. HistorySound' /\ history' \in Seq(Jobs)
  BY <1>1, EnqueueHistory DEF IInv
<1>3. j \notin Range(queue) /\ queue \in Seq(Jobs) /\ IsInjective(queue)
  BY <1>1 DEF IInv, QueueHoldsQueued, TypeOK
<1>4. /\ queue' \in Seq(Jobs) /\ IsInjective(queue')
      /\ Range(queue') = Range(queue) \cup {j}
  BY <1>1, <1>3, AppendRange
<1>5. TypeOK'
  <2>1. activeKeys' \subseteq Keys
    BY DefinitionsTyped DEF IInv, TypeOK, EnqueueLocked
  <2> QED BY <1>1, <1>2, <1>4, <2>1
          DEF IInv, TypeOK, EnqueueLocked, Statuses, registry, slots, rangeLoop
<1>6. Defined'
  BY <1>1 DEF IInv, Defined, TypeOK, EnqueueLocked, rangeLoop
<1>7. /\ \A k \in Jobs : status'[k] = "running" <=> status[k] = "running"
      /\ j \notin active
  BY <1>1 DEF IInv, TypeOK, SlotAccounting
<1>8. SlotAccounting' /\ ExclusiveKeysHeld'
  <2>1. \A k \in active : definition'[k] = definition[k]
    BY <1>1, <1>7 DEF IInv, TypeOK
  <2> QED BY <1>7, <2>1, SameSlots DEF IInv, EnqueueLocked, slots
<1>9. OneJobPerKey'
  <2>1. Unfinished(status') = Unfinished(status) \cup {j} /\ j \notin Unfinished(status)
    BY <1>1 DEF Unfinished, IInv, TypeOK
  <2>2. definition'[j] = d /\ \A k \in Unfinished(status) : definition'[k] = definition[k]
    BY <1>1, <2>1 DEF IInv, TypeOK, Unfinished
  <2>3. activeKeys' = activeKeys \cup {KeyOf[d]} /\ KeyOf[d] \notin activeKeys
    BY DEF EnqueueLocked
  <2> QED BY <2>1, <2>2, <2>3 DEF IInv, OneJobPerKey
<1>10. QueueHoldsQueued'
  BY <1>1, <1>4 DEF IInv, QueueHoldsQueued, TypeOK
<1> QED BY <1>2, <1>5, <1>6, <1>8, <1>9, <1>10 DEF IInv

\* A start takes a slot and the exclusive keys, and the item leaves the queue.
LEMMA DispatchStep ==
  ASSUME IInv, DispatchStart
  PROVE  IInv'
<1>1. PICK i \in 1..Len(queue) :
        Runnable(i) /\ StartJobLocked(queue[i]) /\ queue' = RemoveAt(queue, i)
  BY DEF DispatchStart
<1> DEFINE j == queue[i]
<1>2. queue \in Seq(Jobs) /\ IsInjective(queue) /\ j \in Jobs /\ j \in Range(queue)
  BY DEF IInv, TypeOK, QueueHoldsQueued, Range
<1>3. /\ queue' \in Seq(Jobs) /\ IsInjective(queue')
      /\ Range(queue') = Range(queue) \ {j}
  BY <1>1, <1>2, RemoveAtRange
<1>4. status[j] = "queued" /\ definition[j] \in Defs /\ j \notin active
  BY <1>2 DEF IInv, QueueHoldsQueued, Defined, SlotAccounting
<1>5. /\ status' = [status EXCEPT ![j] = "running"]
      /\ active' = active \cup {j}
      /\ activeExclusiveKeys' = activeExclusiveKeys \cup ExclusiveKeys[definition[j]]
      /\ running' = running + 1
      /\ running < MaxConcurrent
      /\ ExclusiveKeys[definition[j]] \cap activeExclusiveKeys = {}
  BY <1>1 DEF DispatchStart, StartJobLocked, MayDispatch, Runnable, DependenciesSatisfied
<1>6. UNCHANGED <<registry, jobFlags, history, activeKeys, timers, mu, shutdown, rangeLoop,
                  cancelled>>
  BY <1>1 DEF DispatchStart, StartJobLocked
<1> HIDE DEF j
<1>7. TypeOK'
  BY <1>2, <1>3, <1>4, <1>5, <1>6, DefinitionsTyped
     DEF IInv, TypeOK, Statuses, registry, jobFlags, rangeLoop
<1>8. Defined'
  BY <1>2, <1>4, <1>5, <1>6 DEF IInv, Defined, TypeOK, jobFlags, rangeLoop
<1>9. SlotAccounting'
  <2>1. active' = {k \in Jobs : status'[k] = "running"}
    BY <1>2, <1>5 DEF IInv, TypeOK, SlotAccounting
  <2>2. IsFiniteSet(active)
    BY JobsFinite, FS_Subset DEF IInv, TypeOK
  <2>3. Cardinality(active') = Cardinality(active) + 1
    BY <1>4, <1>5, <2>2, FS_AddElement
  <2>4. running' = Cardinality(active') /\ running' <= MaxConcurrent
    BY <1>5, <2>3, LimitsPositive DEF IInv, SlotAccounting, TypeOK
  <2> QED BY <2>1, <2>4 DEF SlotAccounting
<1>10. ExclusiveKeysHeld'
  BY <1>4, <1>5, <1>6 DEF IInv, ExclusiveKeysHeld, jobFlags
<1>11. Unfinished(status') = Unfinished(status)
  BY <1>2, <1>4, <1>5 DEF Unfinished, IInv, TypeOK
<1>12. OneJobPerKey'
  BY <1>6, <1>11, SameKeys DEF IInv, jobFlags
<1>13. HistorySound'
  BY <1>2, <1>5, <1>6, <1>11, SameHistory DEF IInv, TypeOK
<1>14. QueueHoldsQueued'
  BY <1>2, <1>3, <1>5 DEF IInv, QueueHoldsQueued, TypeOK
<1> QED BY <1>7, <1>8, <1>9, <1>10, <1>12, <1>13, <1>14 DEF IInv

\* A completion gives the slot and the keys back, then finishes the job or parks it.
LEMMA CompleteStep ==
  ASSUME IInv, NEW j \in Jobs, NEW err \in Results, RunComplete(j, err)
  PROVE  IInv'
<1>1. /\ j \in active /\ status[j] = "running" /\ definition[j] \in Defs
      /\ active' = active \ {j}
      /\ activeExclusiveKeys' = activeExclusiveKeys \ ExclusiveKeys[definition[j]]
      /\ running' = running - 1
      /\ UNCHANGED <<registry, queue, shutdown, rangeLoop, cancelled, definition>>
      /\ mu' = "dispatch"
  BY DEF RunComplete, CompleteActiveLocked, StandbyLocked, FinishLocked, IInv,
         SlotAccounting, Defined
<1>2. \/ /\ status' = [status EXCEPT ![j] = "standby"]
         /\ retryCount' = [retryCount EXCEPT ![j] = @ + 1]
         /\ timers' = timers \cup {j}
         /\ UNCHANGED <<isAborting, hasAborted, hasFailed, result, activeKeys, history>>
      \/ /\ FinishLocked(j, err, hasAborted[j])
         /\ UNCHANGED <<isAborting, timers>>
  BY DEF RunComplete, StandbyLocked
<1>3. PICK st \in {"standby", "finished"} : status' = [status EXCEPT ![j] = st]
  BY <1>2 DEF FinishLocked
<1>4. /\ IsFiniteSet(active) /\ Cardinality(active') = Cardinality(active) - 1
      /\ Cardinality(active') \in Nat
  <2>1. IsFiniteSet(active)
    BY JobsFinite, FS_Subset DEF IInv, TypeOK
  <2>2. IsFiniteSet(active') /\ Cardinality(active') = Cardinality(active) - 1
    BY <1>1, <2>1, FS_RemoveElement
  <2> QED BY <2>1, <2>2, FS_CardinalityType
<1>5. SlotAccounting'
  <2>1. active' = {k \in Jobs : status'[k] = "running"}
    BY <1>1, <1>3 DEF IInv, TypeOK, SlotAccounting
  <2>2. running' = Cardinality(active') /\ running' <= MaxConcurrent
    BY <1>1, <1>4, LimitsPositive DEF IInv, SlotAccounting, TypeOK
  <2> QED BY <2>1, <2>2 DEF SlotAccounting
<1>6. ExclusiveKeysHeld'
  BY <1>1 DEF IInv, ExclusiveKeysHeld
<1>7. Defined'
  BY <1>1, <1>3 DEF IInv, Defined, TypeOK, rangeLoop
<1>8. QueueHoldsQueued'
  BY <1>1, <1>3 DEF IInv, QueueHoldsQueued, TypeOK
<1>9. j \in Unfinished(status)
  BY <1>1 DEF Unfinished
<1>10. running' \in Nat /\ active' \subseteq Jobs /\ activeExclusiveKeys' \subseteq ExKeys
  BY <1>1, <1>4, <1>5 DEF IInv, TypeOK, SlotAccounting
<1>11. HistorySound' /\ OneJobPerKey' /\ TypeOK'
  <2>1. CASE /\ status' = [status EXCEPT ![j] = "standby"]
             /\ retryCount' = [retryCount EXCEPT ![j] = @ + 1]
             /\ timers' = timers \cup {j}
             /\ UNCHANGED <<isAborting, hasAborted, hasFailed, result, activeKeys, history>>
    <3>1. Unfinished(status') = Unfinished(status)
      BY <1>1, <2>1 DEF Unfinished, IInv, TypeOK
    <3>2. OneJobPerKey'
      BY <1>1, <2>1, <3>1, SameKeys DEF IInv
    <3>3. HistorySound'
      BY <2>1, <3>1, SameHistory DEF IInv, TypeOK
    <3>4. TypeOK'
      BY <1>1, <1>10, <2>1 DEF IInv, TypeOK, Statuses, registry, rangeLoop
    <3> QED BY <3>2, <3>3, <3>4
  <2>2. CASE /\ FinishLocked(j, err, hasAborted[j])
             /\ UNCHANGED <<isAborting, timers>>
    <3>1. /\ status' = [status EXCEPT ![j] = "finished"]
          /\ history' = TrimHistory(history, status')
          /\ activeKeys' = activeKeys \ {KeyOf[definition[j]]}
      BY <2>2 DEF FinishLocked
    <3>2. HistorySound' /\ history' \in Seq(Jobs)
      BY <1>9, <3>1, FinishHistory DEF IInv
    <3>3. OneJobPerKey'
      BY <1>1, <1>9, <3>1, FinishKeys DEF IInv
    <3>4. TypeOK'
      BY <1>1, <1>10, <2>2, <3>1, <3>2
         DEF IInv, TypeOK, Statuses, registry, rangeLoop, FinishLocked
    <3> QED BY <3>2, <3>3, <3>4
  <2> QED BY <1>2, <2>1, <2>2
<1> QED BY <1>5, <1>6, <1>7, <1>8, <1>11 DEF IInv

\* The retry timer requeues a job that still waits for it, and otherwise does nothing.
LEMMA RetryStep ==
  ASSUME IInv, NEW j \in Jobs, RetryTimer(j)
  PROVE  IInv'
<1>1. CASE RetryStillWanted(j)
  <2>1. /\ status[j] = "standby"
        /\ status' = [status EXCEPT ![j] = "queued"]
        /\ queue' = Append(queue, j)
        /\ mu' = "dispatch" /\ timers' = timers \ {j}
        /\ UNCHANGED <<registry, jobFlags, history, slots, activeKeys, shutdown, rangeLoop>>
    BY <1>1 DEF RetryTimer, RetryStillWanted
  <2>2. queue \in Seq(Jobs) /\ IsInjective(queue) /\ j \notin Range(queue)
    BY <2>1 DEF IInv, QueueHoldsQueued, TypeOK
  <2>3. /\ queue' \in Seq(Jobs) /\ IsInjective(queue')
        /\ Range(queue') = Range(queue) \cup {j}
    BY <2>1, <2>2, AppendRange
  <2>4. TypeOK'
    BY <2>1, <2>3 DEF IInv, TypeOK, Statuses, registry, jobFlags, slots, rangeLoop
  <2>5. Defined'
    BY <2>1 DEF IInv, Defined, TypeOK, jobFlags, rangeLoop
  <2>6. SlotAccounting' /\ ExclusiveKeysHeld'
    <3>1. \A k \in Jobs : status'[k] = "running" <=> status[k] = "running"
      BY <2>1 DEF IInv, TypeOK
    <3> QED BY <2>1, <3>1, SameSlots DEF IInv, slots, jobFlags
  <2>7. Unfinished(status') = Unfinished(status)
    BY <2>1 DEF Unfinished, IInv, TypeOK
  <2>8. OneJobPerKey'
    BY <2>1, <2>7, SameKeys DEF IInv, jobFlags
  <2>9. HistorySound'
    BY <2>1, <2>7, SameHistory DEF IInv, TypeOK
  <2>10. QueueHoldsQueued'
    BY <2>1, <2>3 DEF IInv, QueueHoldsQueued, TypeOK
  <2> QED BY <2>4, <2>5, <2>6, <2>8, <2>9, <2>10 DEF IInv
<1>2. CASE ~RetryStillWanted(j)
  <2>1. /\ timers' = timers \ {j}
        /\ UNCHANGED <<registry, status, queue, mu, jobFlags, history, slots, activeKeys,
                       shutdown, rangeLoop>>
    BY <1>2 DEF RetryTimer
  <2>2. TypeOK' /\ Defined'
    BY <2>1 DEF IInv, TypeOK, Defined, registry, jobFlags, slots, rangeLoop
  <2> QED BY <2>1, <2>2, FrameStep DEF jobFlags, slots
<1> QED BY <1>1, <1>2

\* An abort flags a running job, and finishes a queued or a standby one.
LEMMA AbortStep ==
  ASSUME IInv, NEW j \in Jobs, Abort(j)
  PROVE  IInv'
<1>1. CASE AbortActive(j)
  <2>1. TypeOK' /\ Defined'
    BY <1>1 DEF AbortActive, IInv, TypeOK, Defined, registry, rangeLoop
  <2> QED BY <1>1, <2>1, FrameStep DEF AbortActive
<1>2. CASE AbortQueued(j)
  <2>1. PICK i \in 1..Len(queue) : queue[i] = j /\ queue' = RemoveAt(queue, i)
    BY <1>2 DEF AbortQueued
  <2>2. queue \in Seq(Jobs) /\ IsInjective(queue) /\ j \in Range(queue)
    BY <2>1 DEF IInv, TypeOK, QueueHoldsQueued, Range
  <2>3. /\ queue' \in Seq(Jobs) /\ IsInjective(queue')
        /\ Range(queue') = Range(queue) \ {j}
    BY <2>1, <2>2, RemoveAtRange
  <2>4. status[j] = "queued"
    BY <2>2 DEF IInv, QueueHoldsQueued
  <2>5. cursor' \in Nat /\ cursor' >= cursor /\ ranged' \in Seq(Jobs)
    BY <1>2 DEF AbortQueued, rangeLoop, IInv, TypeOK
  <2> QED BY <1>2, <2>3, <2>4, <2>5, AbortPending DEF AbortQueued
<1>3. CASE AbortStandby(j)
  <2>1. /\ queue' \in Seq(Jobs) /\ IsInjective(queue')
        /\ Range(queue') = Range(queue) \ {j}
    BY <1>3 DEF AbortStandby, IInv, TypeOK, QueueHoldsQueued
  <2>2. cursor' \in Nat /\ cursor' >= cursor /\ ranged' \in Seq(Jobs)
    BY <1>3 DEF AbortStandby, rangeLoop, IInv, TypeOK
  <2> QED BY <1>3, <2>1, <2>2, AbortPending DEF AbortStandby
<1> QED BY <1>1, <1>2, <1>3 DEF Abort

\* The two abort loops of Shutdown finish one job per step.
LEMMA ShutdownAbortStep ==
  ASSUME IInv, ShutdownAbortQueued \/ ShutdownAbortStandby
  PROVE  IInv'
<1>1. CASE ShutdownAbortQueued
  <2> DEFINE j == Head(queue)
  <2>1. queue \in Seq(Jobs) /\ IsInjective(queue) /\ queue # <<>>
    BY <1>1 DEF IInv, TypeOK, QueueHoldsQueued, ShutdownAbortQueued
  <2>2. /\ queue' \in Seq(Jobs) /\ IsInjective(queue')
        /\ Range(queue') = Range(queue) \ {j} /\ j \in Range(queue) /\ j \in Jobs
    BY <1>1, <2>1, TailRange DEF ShutdownAbortQueued
  <2>3. status[j] = "queued"
    BY <2>2 DEF IInv, QueueHoldsQueued
  <2>4. cursor' \in Nat /\ cursor' >= cursor /\ ranged' \in Seq(Jobs)
    BY <1>1 DEF ShutdownAbortQueued, rangeLoop, IInv, TypeOK
  <2>5. AbortPendingLocked(j) /\ UNCHANGED <<registry, slots, timers, mu, shutdown>>
    BY <1>1 DEF ShutdownAbortQueued
  <2> HIDE DEF j
  <2> QED BY <2>2, <2>3, <2>4, <2>5, AbortPending
<1>2. CASE ShutdownAbortStandby
  <2> DEFINE j == ranged[cursor]
  <2>1. cursor \in 1..Len(ranged) /\ j \in Jobs /\ cursor' = cursor + 1
    BY <1>2 DEF ShutdownAbortStandby, IInv, TypeOK, Defined
  <2>2. UNCHANGED <<registry, queue, slots, timers, mu, shutdown>>
    BY <1>2 DEF ShutdownAbortStandby
  <2>3. CASE status[j] = "standby"
    <3>1. AbortPendingLocked(j) /\ ranged' = ShiftedArray(ranged, history')
      BY <1>2, <2>3 DEF ShutdownAbortStandby
    <3>2. ASSUME history' \in Seq(Jobs) PROVE ranged' \in Seq(Jobs)
      <4>1. \A i \in (Len(history') + 1)..Len(ranged) : ranged[i] \in Jobs
        BY <3>2 DEF IInv, TypeOK
      <4>2. SubSeq(ranged, Len(history') + 1, Len(ranged)) \in Seq(Jobs)
        BY <3>2, <4>1, SubSeqProperties DEF IInv, TypeOK
      <4> QED BY <3>1, <3>2, <4>2, ConcatProperties DEF ShiftedArray
    <3>3. /\ queue' \in Seq(Jobs) /\ IsInjective(queue')
          /\ Range(queue') = Range(queue) \ {j}
      BY <2>1, <2>2, <2>3 DEF IInv, TypeOK, QueueHoldsQueued
    <3>4. cursor' \in Nat /\ cursor' >= cursor
      BY <2>1
    <3> HIDE DEF j
    <3> QED BY <2>1, <2>2, <2>3, <3>1, <3>2, <3>3, <3>4, AbortPending
  <2>4. CASE status[j] # "standby"
    <3>1. UNCHANGED <<status, jobFlags, activeKeys, history, ranged>>
      BY <1>2, <2>4 DEF ShutdownAbortStandby
    <3>2. TypeOK' /\ Defined'
      BY <2>1, <2>2, <3>1 DEF IInv, TypeOK, Defined, registry, jobFlags, slots
    <3> QED BY <2>2, <3>1, <3>2, FrameStep DEF jobFlags, slots
  <2> QED BY <2>3, <2>4
<1> QED BY <1>1, <1>2

-----------------------------------------------------------------------------
(* The invariant is inductive. *)

\* A new manager has no executions at all.
LEMMA InitIInv == Init => IInv
<1> SUFFICES ASSUME Init PROVE IInv
  OBVIOUS
<1>1. \A s : s = <<>> => s \in Seq(Jobs) /\ IsInjective(s) /\ Range(s) = {} /\ Len(s) = 0
  BY DEF IsInjective, Range
<1>2. Unfinished(status) = {}
  BY DEF Init, Unfinished
<1>3. TypeOK
  BY <1>1 DEF Init, TypeOK, Statuses
<1>4. SlotAccounting
  BY FS_EmptySet, LimitsPositive DEF Init, SlotAccounting
<1>5. ExclusiveKeysHeld /\ Defined
  BY DEF Init, ExclusiveKeysHeld, Defined
<1>6. OneJobPerKey
  BY <1>2 DEF Init, OneJobPerKey
<1>7. QueueHoldsQueued
  BY <1>1 DEF Init, QueueHoldsQueued
<1>8. HistorySound
  BY <1>1, <1>2, LimitsPositive DEF Init, HistorySound, HistoryTrimmed
<1> QED BY <1>3, <1>4, <1>5, <1>6, <1>7, <1>8 DEF IInv

\* Every action of the manager, and stuttering, preserves the invariant.
LEMMA NextIInv == IInv /\ [Next]_vars => IInv'
<1> SUFFICES ASSUME IInv, [Next]_vars PROVE IInv'
  OBVIOUS
<1>1. ASSUME NEW d \in Registrable, Register(d) PROVE IInv'
  <2>1. TypeOK' /\ Defined'
    BY <1>1, DefinitionsTyped
       DEF Register, IInv, TypeOK, Defined, jobFlags, slots, rangeLoop
  <2> QED BY <1>1, <2>1, FrameStep DEF Register, jobFlags, slots
<1>2. ASSUME NEW d \in Defs, EnqueueDefinition(d) PROVE IInv'
  BY <1>2, EnqueueStep DEF EnqueueDefinition
<1>3. ASSUME NEW k \in Keys, AddSchedule(k) PROVE IInv'
  <2>1. TypeOK' /\ Defined'
    BY <1>3 DEF AddSchedule, IInv, TypeOK, Defined, jobFlags, slots, rangeLoop
  <2> QED BY <1>3, <2>1, FrameStep DEF AddSchedule, jobFlags, slots
<1>4. ASSUME NEW k \in Keys, Enqueue(k) PROVE IInv'
  <2>1. definitions[k] \in Defs
    BY <1>4 DEF Enqueue, IInv, TypeOK
  <2> QED BY <1>4, <2>1, EnqueueStep DEF Enqueue
<1>5. ASSUME NEW k \in Keys, CronTick(k) PROVE IInv'
  BY <1>4, <1>5 DEF CronTick
<1>6. ASSUME NEW j \in Jobs, Rerun(j) PROVE IInv'
  BY <1>6, EnqueueStep, DefinitionsTyped DEF Rerun, EnqueueDefinition
<1>7. ASSUME NEW j \in Jobs, SetJobResult(j) PROVE IInv'
  <2>1. TypeOK' /\ Defined'
    BY <1>7 DEF SetJobResult, IInv, TypeOK, Defined, registry, slots, rangeLoop
  <2> QED BY <1>7, <2>1, FrameStep DEF SetJobResult, slots
<1>8. ASSUME NEW j \in Jobs, TimerStopped(j) PROVE IInv'
  <2>1. TypeOK' /\ Defined'
    BY <1>8 DEF TimerStopped, IInv, TypeOK, Defined, registry, jobFlags, slots, rangeLoop
  <2> QED BY <1>8, <2>1, FrameStep DEF TimerStopped, jobFlags, slots
<1>9. ASSUME DispatchEnd PROVE IInv'
  <2>1. TypeOK' /\ Defined'
    BY <1>9 DEF DispatchEnd, IInv, TypeOK, Defined, registry, jobFlags, slots, rangeLoop
  <2> QED BY <1>9, <2>1, FrameStep DEF DispatchEnd, jobFlags, slots
<1>10. ASSUME ShutdownCancel \/ ShutdownLock \/ ShutdownReturn \/ ShutdownFails PROVE IInv'
  <2>1. TypeOK' /\ Defined'
    BY <1>10 DEF ShutdownCancel, ShutdownLock, ShutdownReturn, ShutdownFails, IInv, TypeOK, Defined,
                 registry, jobFlags, slots, rangeLoop
  <2> QED BY <1>10, <2>1, FrameStep
          DEF ShutdownCancel, ShutdownLock, ShutdownReturn, ShutdownFails, jobFlags, slots
<1>11. ASSUME ShutdownBeginRange PROVE IInv'
  <2>1. TypeOK' /\ Defined'
    BY <1>11 DEF ShutdownBeginRange, IInv, TypeOK, Defined, registry, jobFlags, slots
  <2> QED BY <1>11, <2>1, FrameStep DEF ShutdownBeginRange, jobFlags, slots
<1>12. ASSUME ShutdownCancelActive PROVE IInv'
  <2>1. TypeOK' /\ Defined'
    BY <1>12 DEF ShutdownCancelActive, IInv, TypeOK, Defined, registry, jobFlags
  <2> QED BY <1>12, <2>1, FrameStep DEF ShutdownCancelActive, jobFlags
<1>13. ASSUME UNCHANGED vars PROVE IInv'
  <2>1. TypeOK' /\ Defined'
    BY <1>13 DEF vars, IInv, TypeOK, Defined, registry, jobFlags, slots, rangeLoop
  <2> QED BY <1>13, <2>1, FrameStep DEF vars, jobFlags, slots
<1>14. ASSUME NEW j \in Abortable, Abort(j) PROVE IInv'
  BY <1>14, AbortStep, DefinitionsTyped
<1>15. ASSUME NEW j \in Jobs, RetryTimer(j) \/ \E err \in Results : RunComplete(j, err)
       PROVE  IInv'
  BY <1>15, RetryStep, CompleteStep
<1>16. ASSUME DispatchStart \/ ShutdownAbortQueued \/ ShutdownAbortStandby PROVE IInv'
  BY <1>16, DispatchStep, ShutdownAbortStep
<1> QED BY <1>1, <1>2, <1>3, <1>4, <1>5, <1>6, <1>7, <1>8, <1>9, <1>10, <1>11, <1>12,
           <1>13, <1>14, <1>15, <1>16 DEF Next

\* Every behaviour of the job manager satisfies the inductive invariant.
THEOREM Inductive == Spec => []IInv
<1> QED BY InitIInv, NextIInv, PTL DEF Spec

\* Type correctness of every state the manager reaches.
THEOREM TypeCorrect == Spec => []TypeOK
<1>1. IInv => TypeOK
  BY DEF IInv
<1> QED BY <1>1, Inductive, PTL

\* At most MaxConcurrent handlers run and the slot counter is exact.
THEOREM SlotsAccounted == Spec => []SlotAccounting
<1>1. IInv => SlotAccounting
  BY DEF IInv
<1> QED BY <1>1, Inductive, PTL

\* Jobs with a common exclusive key never run together.
THEOREM ExclusiveJobsExclude == Spec => []ExclusiveKeysHeld
<1>1. IInv => ExclusiveKeysHeld
  BY DEF IInv
<1> QED BY <1>1, Inductive, PTL

\* A key has at most one unfinished job, and activeKeys says which keys have one.
THEOREM KeysAreUnique == Spec => []OneJobPerKey
<1>1. IInv => OneJobPerKey
  BY DEF IInv
<1> QED BY <1>1, Inductive, PTL

\* No job is lost from the queue or queued twice.
THEOREM QueueIsExact == Spec => []QueueHoldsQueued
<1>1. IInv => QueueHoldsQueued
  BY DEF IInv
<1> QED BY <1>1, Inductive, PTL

\* No unfinished job is ever trimmed from the history.
THEOREM HistoryIsSound == Spec => []HistorySound
<1>1. IInv => HistorySound
  BY DEF IInv
<1> QED BY <1>1, Inductive, PTL

-----------------------------------------------------------------------------
(* Dependencies. *)

\* Only the dispatch loop starts a job.
LEMMA OnlyDispatchStarts ==
  ASSUME IInv, [Next]_vars, NEW j \in Jobs, status[j] # "running", status'[j] = "running"
  PROVE  DispatchStart
<1>1. ASSUME NEW d, EnqueueLocked(d) PROVE FALSE
  BY <1>1 DEF EnqueueLocked, IInv, TypeOK
<1>2. ASSUME NEW k, NEW err, NEW ab, FinishLocked(k, err, ab) PROVE FALSE
  BY <1>2 DEF FinishLocked, IInv, TypeOK
<1>3. ASSUME NEW k, NEW err, RunComplete(k, err) PROVE FALSE
  BY <1>2, <1>3 DEF RunComplete, StandbyLocked, IInv, TypeOK
<1>4. ASSUME NEW k, RetryTimer(k) PROVE FALSE
  BY <1>4 DEF RetryTimer, IInv, TypeOK
<1>5. ASSUME NEW k, Abort(k) PROVE FALSE
  BY <1>2, <1>5 DEF Abort, AbortActive, AbortQueued, AbortStandby, AbortPendingLocked
<1>6. ASSUME ShutdownAbortQueued \/ ShutdownAbortStandby PROVE FALSE
  BY <1>2, <1>6 DEF ShutdownAbortQueued, ShutdownAbortStandby, AbortPendingLocked
<1>7. ASSUME NEW k, Enqueue(k) \/ CronTick(k) \/ Rerun(k) \/ EnqueueDefinition(k) PROVE FALSE
  BY <1>1, <1>7 DEF Enqueue, CronTick, Rerun, EnqueueDefinition
<1>8. ASSUME NEW k, Register(k) \/ AddSchedule(k) \/ SetJobResult(k) \/ TimerStopped(k)
      PROVE  FALSE
  BY <1>8 DEF Register, AddSchedule, SetJobResult, TimerStopped
<1>9. ASSUME \/ DispatchEnd \/ ShutdownCancel \/ ShutdownLock \/ ShutdownBeginRange
             \/ ShutdownCancelActive \/ ShutdownReturn \/ ShutdownFails \/ UNCHANGED vars
      PROVE  FALSE
  BY <1>9 DEF DispatchEnd, ShutdownCancel, ShutdownLock, ShutdownBeginRange,
              ShutdownCancelActive, ShutdownReturn, ShutdownFails, vars
<1> QED BY <1>3, <1>4, <1>5, <1>6, <1>7, <1>8, <1>9 DEF Next

\* A job never starts before every job that it depends on has finished.
THEOREM DependenciesRunFirst == Spec => DependenciesFirst
<1> DEFINE A == \A j, k \in Jobs :
       (status[j] # "running" /\ status'[j] = "running" /\ k \in Unfinished(status))
         => KeyOf[definition[k]] \notin DependsOn[definition[j]]
<1>1. IInv /\ [Next]_vars => A
  <2> SUFFICES ASSUME IInv, [Next]_vars, NEW j \in Jobs, NEW k \in Jobs,
                      status[j] # "running", status'[j] = "running",
                      k \in Unfinished(status)
               PROVE  KeyOf[definition[k]] \notin DependsOn[definition[j]]
    BY DEF A
  <2>1. PICK i \in 1..Len(queue) : Runnable(i) /\ StartJobLocked(queue[i])
    BY OnlyDispatchStarts DEF DispatchStart
  <2>2. queue[i] = j
    BY <2>1 DEF StartJobLocked, IInv, TypeOK
  <2>3. DependsOn[definition[j]] \cap activeKeys = {}
    BY <2>1, <2>2 DEF Runnable, DependenciesSatisfied
  <2>4. KeyOf[definition[k]] \in activeKeys
    BY DEF IInv, OneJobPerKey
  <2> QED BY <2>3, <2>4
<1> HIDE DEF A
<1>2. IInv /\ [Next]_vars => [A]_vars
  BY <1>1
<1>3. Spec => [][A]_vars
  BY <1>2, Inductive, PTL DEF Spec
<1> QED BY <1>3 DEF DependenciesFirst, A

-----------------------------------------------------------------------------
(* A finished job never changes. *)

\* Only a job that is running or over was aborted, and only one that is over failed:
\* an aborted job that waits is finished at once.
AbortFlags ==
  \A j \in Jobs : /\ hasAborted[j] => status[j] \in {"running", "finished"}
                  /\ hasFailed[j] => status[j] = "finished"

\* What a step may do to job j.
KeepsFinished(j) ==
  /\ status[j] = "finished" =>
       UNCHANGED <<status[j], retryCount[j], hasAborted[j], hasFailed[j]>>
       /\ (j \in result <=> j \in result')
  /\ hasAborted[j] /\ status'[j] # status[j] =>
       status'[j] = "finished" /\ ~hasFailed'[j]

\* Finishing an unfinished job touches no other job; an aborted one does not fail.
LEMMA FinishKeeps ==
  ASSUME IInv, AbortFlags, NEW k \in Jobs, k \in Unfinished(status), NEW err, NEW aborted \in BOOLEAN,
         FinishLocked(k, err, aborted), hasAborted[k] => aborted
  PROVE  AbortFlags' /\ \A j \in Jobs : KeepsFinished(j)
<1>1. /\ status \in [Jobs -> Statuses] /\ hasAborted \in [Jobs -> BOOLEAN]
      /\ hasFailed \in [Jobs -> BOOLEAN] /\ status[k] # "finished"
  BY DEF IInv, TypeOK, Unfinished, Statuses
<1>2. /\ status' = [status EXCEPT ![k] = "finished"]
      /\ hasAborted' = [hasAborted EXCEPT ![k] = @ \/ aborted]
      /\ hasFailed' = [hasFailed EXCEPT
            ![k] = @ \/ (err \notin {"nil", "canceled"} /\ ~hasAborted[k] /\ ~aborted)]
      /\ retryCount' = retryCount /\ result' = result
  BY DEF FinishLocked
<1>3. ~hasFailed[k]
  BY <1>1 DEF AbortFlags
<1>4. AbortFlags'
  BY <1>1, <1>2 DEF AbortFlags
<1>5. ASSUME NEW j \in Jobs PROVE KeepsFinished(j)
  <2>1. CASE j = k
    BY <2>1, <1>1, <1>2, <1>3 DEF KeepsFinished
  <2>2. CASE j # k
    BY <2>2, <1>1, <1>2 DEF KeepsFinished
  <2> QED BY <2>1, <2>2
<1> QED BY <1>4, <1>5

\* A step that leaves the statuses and flags alone.
LEMMA FlagsUnchanged ==
  ASSUME AbortFlags, UNCHANGED <<status, retryCount, hasAborted, hasFailed, result>>
  PROVE  AbortFlags' /\ \A j \in Jobs : KeepsFinished(j)
BY DEF AbortFlags, KeepsFinished

\* Every step keeps what is finished, and the flags that this rests on.
LEMMA FlagsStep ==
  ASSUME IInv, AbortFlags, [Next]_vars
  PROVE  AbortFlags' /\ \A j \in Jobs : KeepsFinished(j)
<1> DEFINE Kept == AbortFlags' /\ \A j \in Jobs : KeepsFinished(j)
<1> SUFFICES Kept
  OBVIOUS
<1>t. /\ status \in [Jobs -> Statuses] /\ hasAborted \in [Jobs -> BOOLEAN]
      /\ hasFailed \in [Jobs -> BOOLEAN] /\ queue \in Seq(Jobs) /\ ranged \in Seq(Jobs)
      /\ cursor \in Nat /\ active \subseteq Jobs /\ retryCount \in [Jobs -> Nat]
  BY DEF IInv, TypeOK, Statuses
<1>a. \A k \in active : status[k] = "running"
  BY DEF IInv, SlotAccounting
<1>q. \A i \in 1..Len(queue) : queue[i] \in Jobs /\ status[queue[i]] = "queued"
  BY <1>t DEF IInv, QueueHoldsQueued, Range
<1>1. ASSUME NEW d, EnqueueLocked(d) PROVE Kept
  <2>1. PICK k \in Jobs : status[k] = "none" /\ status' = [status EXCEPT ![k] = "queued"]
    BY <1>1 DEF EnqueueLocked, IsFresh
  <2>2. UNCHANGED <<retryCount, hasAborted, hasFailed, result>>
    BY <1>1 DEF EnqueueLocked
  <2> QED BY <2>1, <2>2, <1>t DEF AbortFlags, KeepsFinished
<1>2. ASSUME NEW k \in Jobs, AbortPendingLocked(k), k \in Unfinished(status) PROVE Kept
  BY <1>2, FinishKeeps DEF AbortPendingLocked
<1>3. ASSUME NEW k \in Jobs, NEW err, RunComplete(k, err) PROVE Kept
  <2>1. k \in active /\ k \in Unfinished(status) /\ hasAborted[k] \in BOOLEAN
    BY <1>3, <1>a, <1>t DEF RunComplete, Unfinished
  <2>2. CASE ~hasAborted[k] /\ StandbyLocked(k)
    <3>1. /\ status' = [status EXCEPT ![k] = "standby"]
          /\ retryCount' = [retryCount EXCEPT ![k] = @ + 1]
          /\ UNCHANGED <<hasAborted, hasFailed, result>>
      BY <2>2 DEF StandbyLocked
    <3> QED BY <2>1, <2>2, <3>1, <1>a, <1>t DEF AbortFlags, KeepsFinished
  <2>3. CASE FinishLocked(k, err, hasAborted[k])
    BY <2>1, <2>3, FinishKeeps
  <2> QED BY <1>3, <2>2, <2>3 DEF RunComplete
<1>4. ASSUME NEW k \in Jobs, RetryTimer(k) PROVE Kept
  <2>1. UNCHANGED <<retryCount, hasAborted, hasFailed, result>>
    BY <1>4 DEF RetryTimer, jobFlags
  <2>2. CASE RetryStillWanted(k) /\ status' = [status EXCEPT ![k] = "queued"]
    BY <2>1, <2>2, <1>t DEF RetryStillWanted, AbortFlags, KeepsFinished
  <2>3. CASE UNCHANGED status
    BY <2>1, <2>3, FlagsUnchanged
  <2> QED BY <1>4, <2>2, <2>3 DEF RetryTimer
<1>5. ASSUME NEW k \in Jobs, Abort(k) PROVE Kept
  <2>1. CASE AbortActive(k)
    <3>1. /\ status' = status /\ retryCount' = retryCount /\ hasFailed' = hasFailed
          /\ result' = result /\ status[k] = "running"
          /\ hasAborted' \in {hasAborted, [hasAborted EXCEPT ![k] = TRUE]}
      BY <2>1, <1>a DEF AbortActive
    <3> QED BY <3>1, <1>t DEF AbortFlags, KeepsFinished
  <2>2. CASE AbortQueued(k)
    <3>1. status[k] = "queued" /\ AbortPendingLocked(k)
      BY <2>2, <1>q DEF AbortQueued
    <3> QED BY <3>1, <1>2 DEF Unfinished
  <2>3. CASE AbortStandby(k)
    BY <2>3, <1>2 DEF AbortStandby, Unfinished
  <2> QED BY <1>5, <2>1, <2>2, <2>3 DEF Abort
<1>6. ASSUME DispatchStart PROVE Kept
  <2>1. PICK i \in 1..Len(queue) : StartJobLocked(queue[i])
    BY <1>6 DEF DispatchStart
  <2>2. /\ status' = [status EXCEPT ![queue[i]] = "running"]
        /\ UNCHANGED <<retryCount, hasAborted, hasFailed, result>>
    BY <1>6, <2>1 DEF DispatchStart, StartJobLocked, jobFlags
  <2> QED BY <2>2, <1>q, <1>t DEF AbortFlags, KeepsFinished
<1>7. ASSUME ShutdownAbortQueued PROVE Kept
  <2>1. queue # <<>> /\ Head(queue) = queue[1] /\ 1 \in 1..Len(queue)
    BY <1>7, <1>t DEF ShutdownAbortQueued
  <2> QED BY <1>7, <2>1, <1>q, <1>2 DEF ShutdownAbortQueued, Unfinished
<1>8. ASSUME ShutdownAbortStandby PROVE Kept
  <2>1. CASE status[ranged[cursor]] = "standby"
    <3>1. cursor \in 1..Len(ranged)
      BY <1>8, <1>t DEF ShutdownAbortStandby, IInv, Defined
    <3>2. ranged[cursor] \in Jobs
      BY <3>1, <1>t
    <3> QED BY <1>8, <2>1, <3>2, <1>2 DEF ShutdownAbortStandby, Unfinished
  <2>2. CASE status[ranged[cursor]] # "standby"
    BY <1>8, <2>2, FlagsUnchanged DEF ShutdownAbortStandby, jobFlags
  <2> QED BY <2>1, <2>2
<1>9. ASSUME NEW k, Enqueue(k) \/ CronTick(k) \/ Rerun(k) \/ EnqueueDefinition(k) PROVE Kept
  BY <1>1, <1>9 DEF Enqueue, CronTick, Rerun, EnqueueDefinition
<1>10. ASSUME NEW k, SetJobResult(k) PROVE Kept
  BY <1>10 DEF SetJobResult, AbortFlags, KeepsFinished
<1>11. ASSUME \/ \E k : Register(k) \/ AddSchedule(k) \/ TimerStopped(k)
              \/ DispatchEnd \/ ShutdownCancel \/ ShutdownLock \/ ShutdownBeginRange
              \/ ShutdownCancelActive \/ ShutdownReturn \/ ShutdownFails \/ UNCHANGED vars
       PROVE  Kept
  <2>1. UNCHANGED <<status, retryCount, hasAborted, hasFailed, result>>
    BY <1>11 DEF Register, AddSchedule, TimerStopped, DispatchEnd, ShutdownCancel,
                 ShutdownLock, ShutdownBeginRange, ShutdownCancelActive, ShutdownReturn, ShutdownFails,
                 vars, jobFlags
  <2> QED BY <2>1, FlagsUnchanged
<1>12. ASSUME NEW k \in Abortable, Abort(k) PROVE Kept
  BY <1>5, <1>12, DefinitionsTyped
<1> QED BY <1>3, <1>4, <1>6, <1>7, <1>8, <1>9, <1>10, <1>11, <1>12 DEF Next

\* A finished job never changes again, whatever timers, reporters and aborting clients
\* still hold it; an aborted one gets no further run and does not count as failed.
THEOREM FinishedStays == Spec => FinishedIsFinal
<1> DEFINE A == \A j \in Jobs : KeepsFinished(j)
<1>1. Init => AbortFlags
  BY DEF Init, AbortFlags
<1>2. IInv /\ AbortFlags /\ [Next]_vars => AbortFlags' /\ [A]_vars
  BY FlagsStep
<1> HIDE DEF A
<1>3. Spec => [][A]_vars
  BY <1>1, <1>2, Inductive, PTL DEF Spec
<1> QED BY <1>3 DEF FinishedIsFinal, A, KeepsFinished

-----------------------------------------------------------------------------
(* Shutdown. *)

\* While Shutdown ranges over the history, trimHistory has nothing to trim.
HistoryFits == shutdown = "aborting" => Len(history) <= MaxHistory

\* Where Shutdown has got to: the queue stays empty from its first loop on, the
\* second has left no job in standby behind its index, the handlers that still run
\* after the loops are cancelled, and the wait has left none running.
ShutdownProgress ==
  /\ shutdown \in {"aborting", "waiting", "returned", "failed"} => queue = <<>>
  /\ shutdown = "aborting" =>
       /\ mu = "abort" /\ ranged = history
       /\ \A i \in 1..Len(history) : i < cursor => status[history[i]] # "standby"
  /\ shutdown \in {"waiting", "returned", "failed"} => \A j \in Jobs : status[j] # "standby"
  /\ shutdown \in {"waiting", "failed"} => active \subseteq cancelled
  /\ shutdown = "returned" => active = {}

\* A step of another goroutine after the cancellation neither queues a job nor puts
\* one in standby, and it does not run while Shutdown holds the lock.
LEMMA ProgressKept ==
  ASSUME ShutdownProgress, IInv, shutdown' = shutdown, ranged' = ranged, cursor' = cursor,
         shutdown = "aborting" => UNCHANGED <<mu, history, status>>,
         IsShutdown => /\ queue = <<>> => queue' = <<>>
                       /\ active' \subseteq active /\ cancelled \subseteq cancelled'
                       /\ \A j \in Jobs : status'[j] = "standby" => status[j] = "standby"
  PROVE  ShutdownProgress'
<1>1. history \in Seq(Jobs)
  BY DEF IInv, TypeOK
<1> QED BY <1>1 DEF ShutdownProgress, IsShutdown

\* finishLocked leaves no new job in standby.
LEMMA FinishLeavesStandby ==
  ASSUME IInv, NEW k, NEW err, NEW ab, FinishLocked(k, err, ab)
  PROVE  \A j \in Jobs : status'[j] = "standby" => status[j] = "standby"
BY DEF FinishLocked, IInv, TypeOK

\* Every step keeps the progress of Shutdown.
LEMMA ProgressStep ==
  ASSUME IInv, HistoryFits, ShutdownProgress, [Next]_vars
  PROVE  ShutdownProgress'
<1>t. /\ status \in [Jobs -> Statuses] /\ queue \in Seq(Jobs) /\ history \in Seq(Jobs)
      /\ cursor \in Nat /\ mu \in {"free", "dispatch", "abort"}
      /\ shutdown \in {"up", "cancelled", "aborting", "waiting", "returned", "failed"}
  BY DEF IInv, TypeOK, Statuses
<1>1. ASSUME NEW d, EnqueueLocked(d) PROVE ShutdownProgress'
  BY <1>1, <1>t DEF EnqueueLocked, IsShutdown, ShutdownProgress
<1>2. ASSUME NEW k, NEW err, RunComplete(k, err) PROVE ShutdownProgress'
  <2>1. /\ mu = "free" /\ queue' = queue /\ shutdown' = shutdown
        /\ ranged' = ranged /\ cursor' = cursor /\ active' \subseteq active
        /\ cancelled' = cancelled
    BY <1>2 DEF RunComplete, CompleteActiveLocked, rangeLoop
  <2>2. shutdown # "aborting"
    BY <2>1 DEF ShutdownProgress
  <2>3. IsShutdown => \A j \in Jobs : status'[j] = "standby" => status[j] = "standby"
    BY <1>2, FinishLeavesStandby DEF RunComplete, ShouldRetry
  <2> QED BY <2>1, <2>2, <2>3, ProgressKept
<1>3. ASSUME NEW k, RetryTimer(k) PROVE ShutdownProgress'
  <2>1. /\ mu = "free" /\ shutdown' = shutdown
        /\ ranged' = ranged /\ cursor' = cursor /\ active' = active /\ cancelled' = cancelled
    BY <1>3 DEF RetryTimer, rangeLoop, slots
  <2>2. shutdown # "aborting"
    BY <2>1 DEF ShutdownProgress
  <2>3. IsShutdown => status' = status /\ queue' = queue
    BY <1>3 DEF RetryTimer, RetryStillWanted
  <2> QED BY <2>1, <2>2, <2>3, ProgressKept
<1>4. ASSUME NEW k, Abort(k) PROVE ShutdownProgress'
  <2>1. /\ mu = "free" /\ shutdown' = shutdown
        /\ ranged' = ranged /\ cursor' = cursor /\ active' = active
        /\ cancelled \subseteq cancelled'
    BY <1>4 DEF Abort, AbortActive, AbortQueued, AbortStandby, rangeLoop, slots
  <2>2. shutdown # "aborting"
    BY <2>1 DEF ShutdownProgress
  <2>3. queue = <<>> => queue' = <<>>
    BY <1>4 DEF Abort, AbortActive, AbortQueued, AbortStandby
  <2>4. \A j \in Jobs : status'[j] = "standby" => status[j] = "standby"
    BY <1>4, FinishLeavesStandby
    DEF Abort, AbortActive, AbortQueued, AbortStandby, AbortPendingLocked
  <2> QED BY <2>1, <2>2, <2>3, <2>4, ProgressKept
<1>5. ASSUME DispatchStart PROVE ShutdownProgress'
  BY <1>5, <1>t DEF DispatchStart, MayDispatch, IsShutdown, ShutdownProgress
<1>6. ASSUME \/ \E k : Register(k) \/ AddSchedule(k) \/ SetJobResult(k) \/ TimerStopped(k)
             \/ DispatchEnd \/ ShutdownCancel \/ ShutdownLock \/ UNCHANGED vars
      PROVE  ShutdownProgress'
  BY <1>6, <1>t DEF Register, AddSchedule, SetJobResult, TimerStopped, DispatchEnd,
     ShutdownCancel, ShutdownLock, vars, jobFlags, slots, rangeLoop, ShutdownProgress
<1>7. ASSUME ShutdownAbortQueued PROVE ShutdownProgress'
  BY <1>7, <1>t DEF ShutdownAbortQueued, ShutdownProgress
<1>8. ASSUME ShutdownBeginRange PROVE ShutdownProgress'
  BY <1>8, <1>t DEF ShutdownBeginRange, ShutdownProgress
<1>9. ASSUME ShutdownAbortStandby PROVE ShutdownProgress'
  <2> DEFINE k == ranged[cursor]
  <2>1. /\ shutdown = "aborting" /\ shutdown' = shutdown /\ mu' = mu /\ queue' = queue
        /\ cursor' = cursor + 1 /\ cursor <= Len(history) /\ ranged = history
        /\ cursor \in 1..Len(history) /\ k \in Jobs
    BY <1>9, <1>t DEF ShutdownAbortStandby, ShutdownProgress, IInv, Defined
  <2>2. CASE status[k] = "standby"
    <3>1. status' = [status EXCEPT ![k] = "finished"] /\ history' = TrimHistory(history, status')
      BY <1>9, <2>2 DEF ShutdownAbortStandby, AbortPendingLocked, FinishLocked
    <3>2. history' = history
      BY <2>1, <3>1, <1>t, LimitsPositive DEF HistoryFits, TrimHistory
    <3>3. SubSeq(history, Len(history) + 1, Len(history)) = <<>>
      BY <1>t
    <3>4. ranged' = history
      BY <1>9, <1>t, <2>1, <2>2, <3>2, <3>3 DEF ShutdownAbortStandby, ShiftedArray
    <3>5. \A i \in 1..Len(history) : i < cursor' => status'[history[i]] # "standby"
      BY <1>t, <2>1, <3>1 DEF ShutdownProgress
    <3> QED BY <2>1, <3>2, <3>4, <3>5 DEF ShutdownProgress
  <2>3. CASE status[k] # "standby"
    <3>1. status' = status /\ history' = history /\ ranged' = ranged
      BY <1>9, <2>3 DEF ShutdownAbortStandby
    <3>2. \A i \in 1..Len(history) : i < cursor' => status[history[i]] # "standby"
      BY <1>t, <2>1, <2>3 DEF ShutdownProgress
    <3> QED BY <2>1, <3>1, <3>2 DEF ShutdownProgress
  <2> QED BY <2>2, <2>3
<1>10. ASSUME ShutdownCancelActive PROVE ShutdownProgress'
  <2>1. /\ shutdown = "aborting" /\ shutdown' = "waiting" /\ queue' = queue /\ status' = status
        /\ cursor > Len(ranged) /\ active' = active /\ cancelled' = cancelled \cup active
    BY <1>10 DEF ShutdownCancelActive
  <2>2. ASSUME NEW j \in Jobs, status[j] = "standby" PROVE FALSE
    <3>1. j \in Range(history)
      BY <2>2 DEF IInv, HistorySound, Unfinished
    <3>2. PICK i \in 1..Len(history) : history[i] = j
      BY <3>1, <1>t DEF Range
    <3> QED BY <1>t, <2>1, <2>2, <3>2 DEF ShutdownProgress
  <2> QED BY <2>1, <2>2 DEF ShutdownProgress
<1>11. ASSUME ShutdownReturn \/ ShutdownFails PROVE ShutdownProgress'
  BY <1>11 DEF ShutdownReturn, ShutdownFails, slots, ShutdownProgress
<1>12. ASSUME NEW k, Enqueue(k) \/ CronTick(k) \/ Rerun(k) \/ EnqueueDefinition(k)
       PROVE  ShutdownProgress'
  BY <1>1, <1>12 DEF Enqueue, CronTick, Rerun, EnqueueDefinition
<1> QED
  BY <1>2, <1>3, <1>4, <1>5, <1>6, <1>7, <1>8, <1>9, <1>10, <1>11, <1>12 DEF Next

\* Shutdown leaves nothing unfinished, or with an error only cancelled handlers that
\* still run, in every behaviour in which the history is not longer than MaxHistory
\* while Shutdown ranges over it, that is, in which no more than MaxHistory jobs were
\* unfinished at once when it began; what happens otherwise, when trimHistory moves
\* the array under the loop, is a finding.
THEOREM ShutdownFinishes == Spec /\ []HistoryFits => []ShutdownFinishesAll
<1>1. Init => ShutdownProgress
  BY DEF Init, ShutdownProgress
<1>2. IInv /\ HistoryFits /\ ShutdownProgress /\ [Next]_vars => ShutdownProgress'
  BY ProgressStep
<1>3. IInv /\ ShutdownProgress => ShutdownFinishesAll
  <2> SUFFICES ASSUME IInv, ShutdownProgress, shutdown \in {"waiting", "returned", "failed"},
                      NEW j \in Jobs, status[j] \in {"queued", "standby", "running"}
               PROVE  shutdown # "returned" /\ j \in active \cap cancelled
    BY DEF ShutdownFinishesAll, ShutdownNilFinished, Unfinished
  <2>1. queue = <<>> /\ status[j] # "standby"
    BY DEF ShutdownProgress
  <2>2. status[j] # "queued"
    <3>1. status[j] = "queued" => j \in Range(queue)
      BY DEF IInv, QueueHoldsQueued
    <3> QED BY <2>1, <3>1 DEF Range
  <2>3. j \in active
    BY <2>1, <2>2 DEF IInv, SlotAccounting
  <2> QED BY <2>3 DEF ShutdownProgress
<1> QED BY <1>1, <1>2, <1>3, Inductive, PTL DEF Spec
=============================================================================
