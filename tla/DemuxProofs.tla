---------------------------- MODULE DemuxProofs -----------------------------
(***************************************************************************)
(* Theorems about what a channel session makes of its stream: the sections *)
(* its workers handle, the packets its demuxer gives to the viewers, and   *)
(* the sections that are assembled from packets.  Each component has its   *)
(* inductive invariant and its theorems in a part of its own.              *)
(***************************************************************************)
EXTENDS SectionUpdates, Demuxer, SectionAssembler, SequenceLemmas, FiniteSetTheorems, TLAPS

-----------------------------------------------------------------------------
(* SectionUpdates.                                                         *)

\* The observers a demuxer counts are those that watch it, and it runs for them;
\* demuxers are made one after the other.
UsersWatch ==
  /\ \A d \in Demuxers : d > raw => upstream[d] = "none"
  /\ \A d \in Demuxers : \A o \in users[d] :
       observer[o] = "watching" /\ watched[o] = d /\ upstream[d] \in {"running", "canceled"}
  /\ \A o \in Observers : observer[o] = "watching" => o \in users[watched[o]]

\* The second pair of workers is started at most once, after the first demuxer
\* has closed.
PairsOnce ==
  /\ workers = 1 => updater[2] = Off /\ ddbWorker[2] = "off"
  /\ workers = 2 => upstream[1] \in {"stopping", "gone"}
  /\ ~cancelable /\ sessionStop = "no" => workers = 1 /\ upstream[1] \in {"stopping", "gone"}

SectionInv == SectionTypeOK /\ WorkGroupIsExact /\ UsersWatch /\ PairsOnce

\* How much of the work group is in the hands of a worker in state w.
InHand(w) == IF w \in {"busy", "drainBusy"} THEN 1 ELSE 0

\* The sections in the hands of the two workers, added up.
LEMMA HandsAdded ==
  ASSUME NEW f \in [Workers -> {"off", "idle", "busy", "drain", "drainBusy", "done"}]
  PROVE  Cardinality({i \in Workers : f[i] \in {"busy", "drainBusy"}})
           = InHand(f[1]) + InHand(f[2])
<1> DEFINE H == {i \in Workers : f[i] \in {"busy", "drainBusy"}}
<1>1. /\ Workers = {1, 2} /\ 1 # 2
      /\ Cardinality({}) = 0 /\ Cardinality({1}) = 1 /\ Cardinality({2}) = 1
      /\ Cardinality({1, 2}) = 2
  <2>1. IsFiniteSet({1}) /\ Cardinality({1}) = 1 /\ Cardinality({2}) = 1
    BY FS_Singleton
  <2>2. Cardinality({1} \cup {2}) = Cardinality({1}) + 1
    BY <2>1, FS_AddElement
  <2>3. {1} \cup {2} = {1, 2}
    OBVIOUS
  <2> QED
    BY <2>1, <2>2, <2>3, FS_EmptySet DEF Workers
<1>2. CASE InHand(f[1]) = 1 /\ InHand(f[2]) = 1
  <2>1. H = {1, 2}
    BY <1>1, <1>2 DEF InHand
  <2> QED
    BY <1>1, <1>2, <2>1
<1>3. CASE InHand(f[1]) = 1 /\ InHand(f[2]) = 0
  <2>1. H = {1}
    BY <1>1, <1>3 DEF InHand
  <2> QED
    BY <1>1, <1>3, <2>1
<1>4. CASE InHand(f[1]) = 0 /\ InHand(f[2]) = 1
  <2>1. H = {2}
    BY <1>1, <1>4 DEF InHand
  <2> QED
    BY <1>1, <1>4, <2>1
<1>5. CASE InHand(f[1]) = 0 /\ InHand(f[2]) = 0
  <2>1. H = {}
    BY <1>1, <1>5 DEF InHand
  <2> QED
    BY <1>1, <1>5, <2>1
<1> QED
  BY <1>2, <1>3, <1>4, <1>5 DEF InHand

\* The work group without Cardinality, as the steps below use it.
WorkGroupAdds == workGroup = ddbQueue + urgentQueue + InHand(ddbWorker[1]) + InHand(ddbWorker[2])

LEMMA WorkGroupSum == SectionTypeOK => (WorkGroupIsExact <=> WorkGroupAdds)
<1> SUFFICES ASSUME SectionTypeOK PROVE WorkGroupIsExact <=> WorkGroupAdds
  OBVIOUS
<1>1. /\ Cardinality({i \in Workers : ddbWorker[i] \in {"busy", "drainBusy"}})
           = InHand(ddbWorker[1]) + InHand(ddbWorker[2])
      /\ InHand(ddbWorker[1]) \in 0..1 /\ InHand(ddbWorker[2]) \in 0..1
      /\ ddbQueue \in Nat /\ urgentQueue \in Nat
  BY HandsAdded, SectionConstants DEF SectionTypeOK, InHand
<1> QED
  BY <1>1 DEF WorkGroupIsExact, WorkGroupAdds

\* The invariant holds when the session has started its workers.
LEMMA SectionsStart == SectionInit => SectionInv
<1> SUFFICES ASSUME SectionInit PROVE SectionInv
  OBVIOUS
<1>1. SectionTypeOK
  BY SectionConstants
  DEF SectionInit, SectionTypeOK, Demuxers, Workers, DemuxerLife, Idle, Off, Unset
<1>2. WorkGroupAdds
  BY DEF SectionInit, WorkGroupAdds, InHand, Workers
<1>3. UsersWatch
  BY SectionConstants DEF SectionInit, UsersWatch, Demuxers
<1>4. PairsOnce
  BY DEF SectionInit, PairsOnce, Workers
<1> QED
  BY <1>1, <1>2, <1>3, <1>4, WorkGroupSum DEF SectionInv

\* Every step keeps the types and the count of the work group: whoever takes a DDB
\* section from a queue holds it until it is done.
LEMMA SectionTypesStep ==
  ASSUME SectionInv, [SectionNext]_sectionVars
  PROVE  SectionTypeOK' /\ WorkGroupAdds'
<1>0. /\ SectionTypeOK /\ WorkGroupAdds /\ PairsOnce
      /\ 1 \in Demuxers /\ 1 \in Workers /\ 2 \in Workers /\ Demuxers \subseteq Nat
  BY WorkGroupSum, SectionConstants DEF SectionInv, Demuxers, Workers
<1> USE <1>0, SectionConstants
    DEF SectionTypeOK, demuxerVars, eitVars, ddbVars, controlVars, observerVars
<1>a. /\ \A w : InHand(w) \in {0, 1}
      /\ ddbQueue \in Nat /\ urgentQueue \in Nat /\ workGroup \in Nat
  BY DEF InHand
<1>1. ASSUME NEW k \in EITKeys, NEW f \in Prints, ObserveEIT(k, f)
      PROVE  SectionTypeOK' /\ WorkGroupAdds'
  <2>1. /\ prints' \in [EITKeys -> Prints \cup {Unset}]
        /\ sectionQueue' \in Seq(EITKeys \X Prints) /\ Len(sectionQueue') <= QueueLimit
        /\ dispatched' \in 0..MaxSections
    <3>1. <<k, f>> \in EITKeys \X Prints
      OBVIOUS
    <3>2. CASE UNCHANGED <<prints, sectionQueue>>
      BY <1>1, <3>2 DEF ObserveEIT
    <3>3. CASE /\ Len(sectionQueue) < QueueLimit /\ prints' = [prints EXCEPT ![k] = f]
               /\ sectionQueue' = Append(sectionQueue, <<k, f>>)
      <4>1. /\ sectionQueue' \in Seq(EITKeys \X Prints)
            /\ Len(sectionQueue') = Len(sectionQueue) + 1 /\ Len(sectionQueue) \in Nat
        BY <3>1, <3>3
      <4> QED
        BY <1>1, <3>3, <4>1 DEF ObserveEIT
    <3>4. CASE prints' = [prints EXCEPT ![k] = Unset] /\ UNCHANGED sectionQueue
      BY <1>1, <3>4 DEF ObserveEIT
    <3> QED
      BY <1>1, <3>2, <3>3, <3>4 DEF ObserveEIT
  <2> QED
    BY <1>1, <2>1 DEF WorkGroupAdds, ObserveEIT
<1>2. ASSUME NEW urgent \in BOOLEAN, ObserveDDB(urgent)
      PROVE  SectionTypeOK' /\ WorkGroupAdds'
  <2>1. /\ ddbQueue' \in 0..DDBLimit /\ urgentQueue' \in 0..DDBLimit
        /\ workGroup' \in Nat
        /\ workGroup' - workGroup = (ddbQueue' + urgentQueue') - (ddbQueue + urgentQueue)
        /\ dispatched' \in 0..MaxSections
    BY <1>2 DEF ObserveDDB
  <2>2. UNCHANGED <<ddbWorker, upstream, raw, users, sectionQueue, prints, updater, guide,
                    cancelable, workers, stopAsked, sessionStop, observer, watched>>
    BY <1>2 DEF ObserveDDB
  <2>3. WorkGroupAdds'
    <3>1. /\ InHand(ddbWorker[1]) \in {0, 1} /\ InHand(ddbWorker[2]) \in {0, 1}
          /\ ddbQueue' \in Nat /\ urgentQueue' \in Nat
      <4>1. ddbQueue' \in Nat /\ urgentQueue' \in Nat
        BY <2>1
      <4> QED
        BY <1>a, <4>1
    <3> HIDE DEF SectionTypeOK
    <3> QED
      BY <1>a, <2>1, <2>2, <3>1 DEF WorkGroupAdds
  <2> QED
    BY <2>1, <2>2, <2>3
<1>3. ASSUME NEW i \in Workers, UpdaterTakes(i)
      PROVE  SectionTypeOK' /\ WorkGroupAdds'
  <2>1. /\ sectionQueue' \in Seq(EITKeys \X Prints) /\ Len(sectionQueue') <= QueueLimit
        /\ updater' \in [Workers -> [state : {"off", "idle", "done"}, work : {<< >>}]
                               \cup [state : {"busy"}, work : EITKeys \X Prints]]
    <3>1. CASE sectionQueue # << >>
      <4>1. /\ Head(sectionQueue) \in EITKeys \X Prints
            /\ Tail(sectionQueue) \in Seq(EITKeys \X Prints)
            /\ Len(Tail(sectionQueue)) = Len(sectionQueue) - 1 /\ Len(sectionQueue) \in Nat
        BY <3>1, HeadTailProperties
      <4> QED
        <5>1. CASE /\ updater' = [updater EXCEPT ![i] = [state |-> "busy",
                                                         work |-> Head(sectionQueue)]]
                   /\ sectionQueue' = Tail(sectionQueue)
          BY <4>1, <5>1
        <5>2. CASE /\ updater' = [updater EXCEPT ![i] = [state |-> "done", work |-> << >>]]
                   /\ UNCHANGED sectionQueue
          BY <5>2
        <5> QED
          BY <1>3, <5>1, <5>2 DEF UpdaterTakes
    <3>2. CASE sectionQueue = << >>
      BY <1>3, <3>2 DEF UpdaterTakes
    <3> QED
      BY <3>1, <3>2
  <2> QED
    BY <1>3, <2>1 DEF WorkGroupAdds, UpdaterTakes
<1>4. ASSUME NEW i \in Workers, UpdaterStores(i)
      PROVE  SectionTypeOK' /\ WorkGroupAdds'
  <2>1. updater[i].work \in EITKeys \X Prints
    BY <1>4 DEF UpdaterStores
  <2>2. updater[i].work[1] \in EITKeys /\ updater[i].work[2] \in Prints
    BY <2>1
  <2>3. /\ guide' \in [EITKeys -> Prints \cup {Unset}]
        /\ prints' \in [EITKeys -> Prints \cup {Unset}]
        /\ updater' \in [Workers -> [state : {"off", "idle", "done"}, work : {<< >>}]
                               \cup [state : {"busy"}, work : EITKeys \X Prints]]
    BY <1>4, <2>2 DEF UpdaterStores, Idle
  <2> QED
    BY <1>4, <2>3 DEF WorkGroupAdds, UpdaterStores
<1>5. ASSUME NEW i \in Workers, DDBTakes(i)
      PROVE  SectionTypeOK' /\ WorkGroupAdds'
  <2>1. /\ ddbQueue' \in 0..DDBLimit /\ urgentQueue' \in 0..DDBLimit
        /\ ddbWorker' \in [Workers -> {"off", "idle", "busy", "drain", "drainBusy", "done"}]
        /\ UNCHANGED <<workGroup, upstream, raw, users, sectionQueue, prints, updater, guide,
                       cancelable, workers, stopAsked, sessionStop, observer, watched,
                       dispatched>>
    <3>1. ddbQueue' \in 0..DDBLimit /\ urgentQueue' \in 0..DDBLimit
      BY <1>5 DEF DDBTakes, TakeDDB
    <3>2. ddbWorker' \in [Workers -> {"off", "idle", "busy", "drain", "drainBusy", "done"}]
      <4>1. ddbWorker \in [Workers -> {"off", "idle", "busy", "drain", "drainBusy", "done"}]
        OBVIOUS
      <4>2. \E w \in {"busy", "drainBusy", "drain", "done"} :
               ddbWorker' = [ddbWorker EXCEPT ![i] = w]
        BY <1>5 DEF DDBTakes
      <4> QED
        BY <4>1, <4>2
    <3>3. UNCHANGED <<workGroup, upstream, raw, users, sectionQueue, prints, updater, guide,
                      cancelable, workers, stopAsked, sessionStop, observer, watched,
                      dispatched>>
      BY <1>5 DEF DDBTakes
    <3> QED
      BY <3>1, <3>2, <3>3
  <2>2. InHand(ddbWorker'[i]) - InHand(ddbWorker[i])
          = (ddbQueue + urgentQueue) - (ddbQueue' + urgentQueue')
    BY <1>5 DEF DDBTakes, TakeDDB, InHand
  <2>3. \A j \in Workers : j # i => ddbWorker'[j] = ddbWorker[j]
    BY <1>5 DEF DDBTakes
  <2>4. WorkGroupAdds'
    <3>0. /\ InHand(ddbWorker[1]) \in {0, 1} /\ InHand(ddbWorker[2]) \in {0, 1}
          /\ InHand(ddbWorker'[1]) \in {0, 1} /\ InHand(ddbWorker'[2]) \in {0, 1}
          /\ ddbQueue' \in Nat /\ urgentQueue' \in Nat
      BY <1>a, <2>1
    <3> HIDE DEF SectionTypeOK
    <3>1. CASE i = 1
      <4>1. ddbWorker'[2] = ddbWorker[2] /\ workGroup' = workGroup
        BY <2>1, <2>3, <3>1
      <4>2. InHand(ddbWorker'[1]) = InHand(ddbWorker[1])
              + (ddbQueue + urgentQueue) - (ddbQueue' + urgentQueue')
        BY <1>a, <2>2, <3>0, <3>1
      <4>3. InHand(ddbWorker'[2]) = InHand(ddbWorker[2])
        BY <4>1
      <4>4. workGroup = ddbQueue + urgentQueue + InHand(ddbWorker[1]) + InHand(ddbWorker[2])
        BY DEF WorkGroupAdds
      <4>5. workGroup = ddbQueue' + urgentQueue' + InHand(ddbWorker'[1]) + InHand(ddbWorker'[2])
        BY <1>a, <3>0, <4>2, <4>3, <4>4
      <4> QED
        BY <4>1, <4>5 DEF WorkGroupAdds
    <3>2. CASE i = 2
      <4>1. ddbWorker'[1] = ddbWorker[1] /\ workGroup' = workGroup
        BY <2>1, <2>3, <3>2
      <4>2. InHand(ddbWorker'[2]) = InHand(ddbWorker[2])
              + (ddbQueue + urgentQueue) - (ddbQueue' + urgentQueue')
        BY <1>a, <2>2, <3>0, <3>2
      <4>3. InHand(ddbWorker'[1]) = InHand(ddbWorker[1])
        BY <4>1
      <4>4. workGroup = ddbQueue + urgentQueue + InHand(ddbWorker[1]) + InHand(ddbWorker[2])
        BY DEF WorkGroupAdds
      <4>5. workGroup = ddbQueue' + urgentQueue' + InHand(ddbWorker'[1]) + InHand(ddbWorker'[2])
        <5>1. /\ InHand(ddbWorker[1]) \in Int /\ InHand(ddbWorker[2]) \in Int
              /\ InHand(ddbWorker'[2]) \in Int
              /\ ddbQueue \in Int /\ urgentQueue \in Int
              /\ ddbQueue' \in Int /\ urgentQueue' \in Int
          BY <1>a, <3>0
        <5> HIDE <1>0, <1>a
        <5> QED
          BY <4>2, <4>3, <4>4, <5>1
      <4> QED
        BY <4>1, <4>5 DEF WorkGroupAdds
    <3> QED
      BY <3>1, <3>2 DEF Workers
  <2> QED
    BY <2>1, <2>4
<1>6. ASSUME NEW i \in Workers, DDBDrains(i)
      PROVE  SectionTypeOK' /\ WorkGroupAdds'
  <2>1. /\ ddbQueue' \in 0..DDBLimit /\ urgentQueue' \in 0..DDBLimit
        /\ ddbWorker' \in [Workers -> {"off", "idle", "busy", "drain", "drainBusy", "done"}]
        /\ UNCHANGED <<workGroup, upstream, raw, users, sectionQueue, prints, updater, guide,
                       cancelable, workers, stopAsked, sessionStop, observer, watched,
                       dispatched>>
    <3>1. ddbQueue' \in 0..DDBLimit /\ urgentQueue' \in 0..DDBLimit
      BY <1>6 DEF DDBDrains, TakeDDB
    <3>2. ddbWorker' \in [Workers -> {"off", "idle", "busy", "drain", "drainBusy", "done"}]
      <4>1. ddbWorker \in [Workers -> {"off", "idle", "busy", "drain", "drainBusy", "done"}]
        OBVIOUS
      <4>2. \E w \in {"busy", "drainBusy", "drain", "done"} :
               ddbWorker' = [ddbWorker EXCEPT ![i] = w]
        BY <1>6 DEF DDBDrains
      <4> QED
        BY <4>1, <4>2
    <3>3. UNCHANGED <<workGroup, upstream, raw, users, sectionQueue, prints, updater, guide,
                      cancelable, workers, stopAsked, sessionStop, observer, watched,
                      dispatched>>
      BY <1>6 DEF DDBDrains
    <3> QED
      BY <3>1, <3>2, <3>3
  <2>2. InHand(ddbWorker'[i]) - InHand(ddbWorker[i])
          = (ddbQueue + urgentQueue) - (ddbQueue' + urgentQueue')
    BY <1>6 DEF DDBDrains, TakeDDB, InHand
  <2>3. \A j \in Workers : j # i => ddbWorker'[j] = ddbWorker[j]
    BY <1>6 DEF DDBDrains
  <2>4. WorkGroupAdds'
    <3>0. /\ InHand(ddbWorker[1]) \in {0, 1} /\ InHand(ddbWorker[2]) \in {0, 1}
          /\ InHand(ddbWorker'[1]) \in {0, 1} /\ InHand(ddbWorker'[2]) \in {0, 1}
          /\ ddbQueue' \in Nat /\ urgentQueue' \in Nat
      BY <1>a, <2>1
    <3> HIDE DEF SectionTypeOK
    <3>1. CASE i = 1
      <4>1. ddbWorker'[2] = ddbWorker[2] /\ workGroup' = workGroup
        BY <2>1, <2>3, <3>1
      <4>2. InHand(ddbWorker'[1]) = InHand(ddbWorker[1])
              + (ddbQueue + urgentQueue) - (ddbQueue' + urgentQueue')
        BY <1>a, <2>2, <3>0, <3>1
      <4>3. InHand(ddbWorker'[2]) = InHand(ddbWorker[2])
        BY <4>1
      <4>4. workGroup = ddbQueue + urgentQueue + InHand(ddbWorker[1]) + InHand(ddbWorker[2])
        BY DEF WorkGroupAdds
      <4>5. workGroup = ddbQueue' + urgentQueue' + InHand(ddbWorker'[1]) + InHand(ddbWorker'[2])
        BY <1>a, <3>0, <4>2, <4>3, <4>4
      <4> QED
        BY <4>1, <4>5 DEF WorkGroupAdds
    <3>2. CASE i = 2
      <4>1. ddbWorker'[1] = ddbWorker[1] /\ workGroup' = workGroup
        BY <2>1, <2>3, <3>2
      <4>2. InHand(ddbWorker'[2]) = InHand(ddbWorker[2])
              + (ddbQueue + urgentQueue) - (ddbQueue' + urgentQueue')
        BY <1>a, <2>2, <3>0, <3>2
      <4>3. InHand(ddbWorker'[1]) = InHand(ddbWorker[1])
        BY <4>1
      <4>4. workGroup = ddbQueue + urgentQueue + InHand(ddbWorker[1]) + InHand(ddbWorker[2])
        BY DEF WorkGroupAdds
      <4>5. workGroup = ddbQueue' + urgentQueue' + InHand(ddbWorker'[1]) + InHand(ddbWorker'[2])
        <5>1. /\ InHand(ddbWorker[1]) \in Int /\ InHand(ddbWorker[2]) \in Int
              /\ InHand(ddbWorker'[2]) \in Int
              /\ ddbQueue \in Int /\ urgentQueue \in Int
              /\ ddbQueue' \in Int /\ urgentQueue' \in Int
          BY <1>a, <3>0
        <5> HIDE <1>0, <1>a
        <5> QED
          BY <4>2, <4>3, <4>4, <5>1
      <4> QED
        BY <4>1, <4>5 DEF WorkGroupAdds
    <3> QED
      BY <3>1, <3>2 DEF Workers
  <2> QED
    BY <2>1, <2>4
<1>7. ASSUME NEW i \in Workers, DDBObserved(i)
      PROVE  SectionTypeOK' /\ WorkGroupAdds'
  BY <1>7 DEF DDBObserved, Workers, InHand, WorkGroupAdds
<1>8. ASSUME NEW o \in Observers, StreamDemuxer(o)
      PROVE  SectionTypeOK' /\ WorkGroupAdds'
  <2>1. CASE Restartable /\ HasStopped(raw)
    <3>1. raw' = raw + 1 /\ raw + 1 \in Demuxers
      BY <1>8, <2>1 DEF StreamDemuxer, Demuxers
    <3>2. CASE cancelable
      BY <1>8, <2>1, <3>1, <3>2 DEF WorkGroupAdds, StreamDemuxer, DemuxerLife
    <3>3. CASE ~cancelable
      <4>1. workers = 1 /\ ddbWorker[2] = "off"
        BY <1>8, <3>3 DEF StreamDemuxer, PairsOnce
      <4> QED
        <5>1. /\ upstream' = [upstream EXCEPT ![raw + 1] = "new"]
              /\ updater' = [updater EXCEPT ![2] = Idle]
              /\ ddbWorker' = [ddbWorker EXCEPT ![2] = "idle"]
              /\ cancelable' = TRUE /\ workers' = 2
          BY <1>8, <2>1, <3>3 DEF StreamDemuxer
        <5>2. /\ upstream' \in [Demuxers -> DemuxerLife]
              /\ updater' \in [Workers -> [state : {"off", "idle", "done"}, work : {<< >>}]
                               \cup [state : {"busy"}, work : EITKeys \X Prints]]
              /\ ddbWorker' \in [Workers -> {"off", "idle", "busy", "drain", "drainBusy", "done"}]
          BY <5>1, <3>1 DEF DemuxerLife, Idle
        <5>3. WorkGroupAdds'
          BY <1>8, <4>1, <5>1 DEF WorkGroupAdds, StreamDemuxer, InHand
        <5> QED
          BY <1>8, <3>1, <5>1, <5>2, <5>3 DEF StreamDemuxer
    <3> QED
      BY <3>2, <3>3
  <2>2. CASE ~(Restartable /\ HasStopped(raw))
    BY <1>8, <2>2 DEF WorkGroupAdds, StreamDemuxer
  <2> QED
    BY <2>1, <2>2
<1>9. ASSUME NEW o \in Observers, KeepAlive(o)
      PROVE  SectionTypeOK' /\ WorkGroupAdds'
  BY <1>9 DEF WorkGroupAdds, KeepAlive, DemuxerLife
<1>10. ASSUME NEW o \in Observers, ObserverLeaves(o)
       PROVE  SectionTypeOK' /\ WorkGroupAdds'
  BY <1>10 DEF WorkGroupAdds, ObserverLeaves, DemuxerLife
<1>11. ASSUME NEW o \in Observers, ObserverReturns(o)
       PROVE  SectionTypeOK' /\ WorkGroupAdds'
  BY <1>11 DEF WorkGroupAdds, ObserverReturns
<1>12. ASSUME NEW d \in Demuxers, DemuxerCloses(d)
       PROVE  SectionTypeOK' /\ WorkGroupAdds'
  BY <1>12 DEF WorkGroupAdds, DemuxerCloses, DemuxerLife
<1>13. ASSUME NEW d \in Demuxers, OnEmpty(d)
       PROVE  SectionTypeOK' /\ WorkGroupAdds'
  <2>1. /\ upstream' \in [Demuxers -> DemuxerLife]
        /\ cancelable' \in BOOLEAN /\ stopAsked' \subseteq Workers
    <3>1. workers \in Workers /\ stopAsked \subseteq Workers /\ cancelable \in BOOLEAN
      OBVIOUS
    <3>2. upstream' \in [Demuxers -> DemuxerLife]
      BY <1>13 DEF OnEmpty, DemuxerLife
    <3>3. cancelable' \in BOOLEAN /\ stopAsked' \subseteq Workers
      <4> HIDE DEF SectionTypeOK
      <4>1. CASE d = 1 /\ cancelable
        BY <1>13, <3>1, <4>1 DEF OnEmpty
      <4>2. CASE ~(d = 1 /\ cancelable)
        BY <1>13, <3>1, <4>2 DEF OnEmpty
      <4> QED
        BY <4>1, <4>2
    <3> QED
      BY <3>2, <3>3
  <2> QED
    BY <1>13, <2>1 DEF WorkGroupAdds, OnEmpty
<1>14. ASSUME NEW d \in Demuxers, WorkersStopped(d)
       PROVE  SectionTypeOK' /\ WorkGroupAdds'
  BY <1>14 DEF WorkGroupAdds, WorkersStopped, DemuxerLife
<1>15. CASE SessionStop
  BY <1>15 DEF WorkGroupAdds, SessionStop, DemuxerLife
<1>16. CASE StopUpdates
  BY <1>16 DEF WorkGroupAdds, StopUpdates
<1>17. CASE SessionStopReturns
  BY <1>17 DEF WorkGroupAdds, SessionStopReturns
<1>18. CASE UNCHANGED sectionVars
  BY <1>18 DEF WorkGroupAdds, sectionVars
<1> HIDE DEF SectionTypeOK
<1> QED
  BY <1>1, <1>2, <1>3, <1>4, <1>5, <1>6, <1>7, <1>8, <1>9, <1>10, <1>11, <1>12,
     <1>13, <1>14, <1>15, <1>16, <1>17, <1>18
  DEF SectionNext, WorkerStep

\* ... keeps the observers where their demuxer can find them: a demuxer that still has
\* users is not replaced, and one that has stopped gets no more ...
LEMMA UsersStep ==
  ASSUME SectionInv, [SectionNext]_sectionVars
  PROVE  UsersWatch'
<1>0. /\ upstream \in [Demuxers -> DemuxerLife] /\ raw \in Demuxers /\ Demuxers \subseteq Nat
      /\ users \in [Demuxers -> SUBSET Observers]
      /\ observer \in [Observers -> {"idle", "given", "watching", "waiting"}]
      /\ watched \in [Observers -> Demuxers]
      /\ UsersWatch
  BY DEF SectionInv, SectionTypeOK, Demuxers
<1> USE <1>0 DEF UsersWatch
<1>1. CASE UNCHANGED <<upstream, raw, users, observer, watched>>
  BY <1>1
<1>2. ASSUME NEW o \in Observers, StreamDemuxer(o)
      PROVE  UsersWatch'
  <2>1. CASE Restartable /\ HasStopped(raw)
    <3>1. /\ raw' = raw + 1 /\ raw + 1 \in Demuxers /\ users' = users
          /\ upstream' = [upstream EXCEPT ![raw + 1] = "new"]
          /\ observer' = [observer EXCEPT ![o] = "given"]
          /\ watched' = [watched EXCEPT ![o] = raw + 1] /\ observer[o] = "idle"
      <4>1. raw < MaxDemuxers /\ raw' = raw + 1
        BY <1>2, <2>1 DEF StreamDemuxer
      <4>2. raw + 1 \in Demuxers
        BY <4>1, SectionConstants DEF Demuxers
      <4> QED
        BY <1>2, <2>1, <4>1, <4>2 DEF StreamDemuxer
    <3>2. users[raw + 1] = {}
      BY <3>1
    <3> QED
      BY <3>1, <3>2
  <2>2. CASE ~(Restartable /\ HasStopped(raw))
    <3>1. /\ raw' = raw /\ upstream' = upstream /\ users' = users
          /\ observer' = [observer EXCEPT ![o] = "given"]
          /\ watched' = [watched EXCEPT ![o] = raw] /\ observer[o] = "idle"
      BY <1>2, <2>2 DEF StreamDemuxer
    <3> QED
      BY <3>1
  <2> QED
    BY <2>1, <2>2
<1>3. ASSUME NEW o \in Observers, KeepAlive(o)
      PROVE  UsersWatch'
  <2>1. PICK d \in Demuxers : d = watched[o]
    OBVIOUS
  <2>2. CASE HasStopped(d)
    BY <1>3, <2>1, <2>2 DEF KeepAlive
  <2>3. CASE ~HasStopped(d)
    <3>1. /\ observer[o] = "given" /\ observer' = [observer EXCEPT ![o] = "watching"]
          /\ users' = [users EXCEPT ![d] = @ \cup {o}]
          /\ upstream' = [upstream EXCEPT ![d] = "running"] /\ UNCHANGED <<raw, watched>>
      BY <1>3, <2>1, <2>3 DEF KeepAlive
    <3>2. ~(d > raw)
      BY <2>3 DEF HasStopped
    <3> QED
      BY <2>1, <3>1, <3>2
  <2> QED
    BY <2>2, <2>3
<1>4. ASSUME NEW o \in Observers, ObserverLeaves(o)
      PROVE  UsersWatch'
  BY <1>4 DEF ObserverLeaves
<1>5. ASSUME NEW o \in Observers, ObserverReturns(o)
      PROVE  UsersWatch'
  BY <1>5 DEF ObserverReturns, demuxerVars
<1>6. ASSUME NEW d \in Demuxers, DemuxerCloses(d)
      PROVE  UsersWatch'
  BY <1>6 DEF DemuxerCloses
<1>7. ASSUME NEW d \in Demuxers, OnEmpty(d)
      PROVE  UsersWatch'
  BY <1>7 DEF OnEmpty, observerVars
<1>8. ASSUME NEW d \in Demuxers, WorkersStopped(d)
      PROVE  UsersWatch'
  BY <1>8 DEF WorkersStopped, observerVars
<1>9. CASE SessionStop
  BY <1>9 DEF SessionStop, observerVars
<1>10. ASSUME \/ \E k \in EITKeys, f \in Prints : ObserveEIT(k, f)
              \/ \E urgent \in BOOLEAN : ObserveDDB(urgent)
              \/ \E i \in Workers : WorkerStep(i)
              \/ StopUpdates \/ SessionStopReturns
       PROVE  UsersWatch'
  BY <1>1, <1>10
  DEF ObserveEIT, ObserveDDB, WorkerStep, UpdaterTakes, UpdaterStores, DDBTakes, DDBDrains,
      DDBObserved, StopUpdates, SessionStopReturns, demuxerVars, observerVars
<1> HIDE DEF UsersWatch
<1> QED
  BY <1>1, <1>2, <1>3, <1>4, <1>5, <1>6, <1>7, <1>8, <1>9, <1>10
  DEF SectionNext, sectionVars

\* ... and starts the second pair of workers only once.
LEMMA PairsStep ==
  ASSUME SectionInv, [SectionNext]_sectionVars
  PROVE  PairsOnce'
<1>0. /\ upstream \in [Demuxers -> DemuxerLife] /\ raw \in Demuxers
      /\ Demuxers \subseteq Nat \ {0} /\ 1 \in Demuxers
      /\ watched \in [Observers -> Demuxers] /\ cancelable \in BOOLEAN
      /\ updater \in [Workers -> [state : {"off", "idle", "done"}, work : {<< >>}]
                               \cup [state : {"busy"}, work : EITKeys \X Prints]]
      /\ ddbWorker \in [Workers -> {"off", "idle", "busy", "drain", "drainBusy", "done"}]
      /\ Workers = {1, 2} /\ workers \in Workers /\ UsersWatch /\ PairsOnce
  BY SectionConstants DEF SectionInv, SectionTypeOK, Demuxers, Workers
<1> USE <1>0 DEF PairsOnce
<1>1. CASE UNCHANGED <<upstream, workers, updater, ddbWorker, cancelable, sessionStop>>
  BY <1>1
<1>2. ASSUME NEW i \in Workers, WorkerStep(i)
      PROVE  PairsOnce'
  <2>1. /\ updater[i] # Off \/ ddbWorker[i] # "off"
        /\ UNCHANGED <<upstream, workers, cancelable, sessionStop>>
    BY <1>2
    DEF WorkerStep, UpdaterTakes, UpdaterStores, DDBTakes, DDBDrains, DDBObserved, Off,
        demuxerVars, controlVars
  <2>2. CASE workers = 1
    <3>1. i = 1
      BY <2>1, <2>2
    <3>2. updater'[2] = updater[2] /\ ddbWorker'[2] = ddbWorker[2]
      BY <1>2, <3>1
      DEF WorkerStep, UpdaterTakes, UpdaterStores, DDBTakes, DDBDrains, DDBObserved,
          eitVars, ddbVars
    <3> QED
      BY <2>1, <2>2, <3>2
  <2>3. CASE workers = 2
    BY <2>1, <2>3
  <2> QED
    BY <2>2, <2>3
<1>3. ASSUME NEW o \in Observers, StreamDemuxer(o)
      PROVE  PairsOnce'
  <2>1. CASE Restartable /\ HasStopped(raw)
    <3>1. /\ upstream' = [upstream EXCEPT ![raw + 1] = "new"] /\ raw + 1 # 1
          /\ sessionStop = "no" /\ sessionStop' = sessionStop
      BY <1>3, <2>1 DEF StreamDemuxer
    <3>2. upstream'[1] = upstream[1]
      BY <3>1
    <3>3. CASE cancelable
      BY <1>3, <2>1, <3>1, <3>2, <3>3 DEF StreamDemuxer
    <3>4. CASE ~cancelable
      BY <1>3, <2>1, <3>1, <3>2, <3>4 DEF StreamDemuxer
    <3> QED
      BY <3>3, <3>4
  <2>2. CASE ~(Restartable /\ HasStopped(raw))
    BY <1>3, <2>2 DEF StreamDemuxer
  <2> QED
    BY <2>1, <2>2
<1>4. ASSUME NEW o \in Observers, KeepAlive(o)
      PROVE  PairsOnce'
  BY <1>4 DEF KeepAlive, HasStopped, eitVars, ddbVars, controlVars
<1>5. ASSUME NEW o \in Observers, ObserverLeaves(o)
      PROVE  PairsOnce'
  BY <1>5 DEF ObserverLeaves, UsersWatch, eitVars, ddbVars, controlVars
<1>6. ASSUME NEW d \in Demuxers, DemuxerCloses(d)
      PROVE  PairsOnce'
  BY <1>6 DEF DemuxerCloses, eitVars, ddbVars, controlVars
<1>7. ASSUME NEW d \in Demuxers, OnEmpty(d)
      PROVE  PairsOnce'
  BY <1>7 DEF OnEmpty, eitVars, ddbVars
<1>8. ASSUME NEW d \in Demuxers, WorkersStopped(d)
      PROVE  PairsOnce'
  BY <1>8 DEF WorkersStopped, eitVars, ddbVars, controlVars
<1>9. CASE SessionStop
  BY <1>9 DEF SessionStop, eitVars, ddbVars
<1>10. CASE StopUpdates
  BY <1>10 DEF StopUpdates, demuxerVars, eitVars, ddbVars
<1>11. CASE SessionStopReturns
  BY <1>11 DEF SessionStopReturns, demuxerVars, eitVars, ddbVars
<1>12. ASSUME \/ \E k \in EITKeys, f \in Prints : ObserveEIT(k, f)
              \/ \E urgent \in BOOLEAN : ObserveDDB(urgent)
              \/ \E o \in Observers : ObserverReturns(o)
       PROVE  PairsOnce'
  BY <1>1, <1>12
  DEF ObserveEIT, ObserveDDB, ObserverReturns, demuxerVars, eitVars, ddbVars, controlVars
<1> HIDE DEF PairsOnce
<1> QED
  BY <1>1, <1>2, <1>3, <1>4, <1>5, <1>6, <1>7, <1>8, <1>9, <1>10, <1>11, <1>12
  DEF SectionNext, sectionVars

\* The invariant of the sections holds in every state: of a local session and of one
\* that restarts.
THEOREM SectionsInductive == SectionSpec => []SectionInv
<1>1. SectionInv /\ [SectionNext]_sectionVars => SectionInv'
  <2> SUFFICES ASSUME SectionInv, [SectionNext]_sectionVars PROVE SectionInv'
    OBVIOUS
  <2>1. SectionTypeOK' /\ WorkGroupAdds' /\ UsersWatch' /\ PairsOnce'
    BY SectionTypesStep, UsersStep, PairsStep
  <2>2. SectionTypeOK' => (WorkGroupIsExact' <=> WorkGroupAdds')
    BY WorkGroupSum, PTL
  <2> QED
    BY <2>1, <2>2 DEF SectionInv
<1> QED
  BY <1>1, SectionsStart, PTL DEF SectionSpec

\* The work group counts the DDB sections that are queued or in the hands of a worker,
\* so the Done of observeQueuedDDB never makes it negative.
THEOREM WorkGroupCounts == SectionSpec => []WorkGroupIsExact
<1>1. SectionInv => WorkGroupIsExact
  BY DEF SectionInv
<1> QED
  BY <1>1, SectionsInductive, PTL

\* A local session has one demuxer and one pair of workers, which are asked to stop only
\* when the demuxer dispatches no more.
LocalInv ==
  /\ raw = 1 /\ workers = 1
  /\ stopAsked # {} => upstream[1] \in {"closing", "stopping", "gone"}
  /\ ddbWorker[1] \in {"drain", "drainBusy", "done"} => stopAsked # {}
  /\ ddbWorker[1] # "off"
  /\ ddbWorker[1] = "done" => ddbQueue + urgentQueue = 0

LEMMA LocalStep ==
  ASSUME ~Restartable, SectionInv, LocalInv, [SectionNext]_sectionVars
  PROVE  LocalInv'
<1>0. /\ upstream \in [Demuxers -> DemuxerLife] /\ 1 \in Demuxers
      /\ watched \in [Observers -> Demuxers] /\ stopAsked \subseteq Workers
      /\ ddbWorker \in [Workers -> {"off", "idle", "busy", "drain", "drainBusy", "done"}]
      /\ 1 \in Workers /\ LocalInv
      /\ ddbQueue \in Nat /\ urgentQueue \in Nat
      /\ \A d \in Demuxers : d # 1 => upstream[d] = "none"
      /\ ddbWorker[2] = "off" /\ \A i \in Workers : i # 1 => i = 2
  BY SectionConstants DEF SectionInv, SectionTypeOK, UsersWatch, PairsOnce, LocalInv, Demuxers, Workers
<1> USE <1>0 DEF LocalInv
<1>1. CASE UNCHANGED <<upstream, raw, workers, stopAsked, ddbWorker, ddbQueue, urgentQueue>>
  BY <1>1
<1>2. ASSUME NEW urgent \in BOOLEAN, ObserveDDB(urgent)
      PROVE  LocalInv'
  <2>1. upstream[1] \in {"running", "canceled"}
    BY <1>2 DEF ObserveDDB, Dispatching
  <2>2. stopAsked = {} /\ ddbWorker[1] \notin {"drain", "drainBusy", "done"}
    BY <2>1
  <2> QED
    BY <1>2, <2>2 DEF ObserveDDB, demuxerVars, controlVars
<1>3. ASSUME NEW i \in Workers, DDBTakes(i) \/ DDBDrains(i) \/ DDBObserved(i)
      PROVE  LocalInv'
  <2>1. i = 1
    BY <1>3 DEF DDBTakes, DDBDrains, DDBObserved
  <2>2. UNCHANGED <<upstream, raw, workers, stopAsked>>
    BY <1>3 DEF DDBTakes, DDBDrains, DDBObserved, demuxerVars, controlVars
  <2>3. CASE DDBTakes(i)
    <3>1. /\ ddbWorker'[1] \in {"busy", "drain"}
          /\ ddbWorker'[1] = "drain" => stopAsked # {}
      BY <2>1, <2>3 DEF DDBTakes
    <3> QED
      BY <2>2, <3>1
  <2>4. CASE DDBDrains(i)
    <3>1. /\ stopAsked # {} /\ ddbWorker'[1] \in {"drainBusy", "done"}
          /\ ddbWorker'[1] = "done" => ddbQueue' = 0 /\ urgentQueue' = 0
      BY <2>1, <2>4 DEF DDBDrains
    <3> QED
      BY <2>2, <3>1
  <2>5. CASE DDBObserved(i)
    BY <2>1, <2>2, <2>5 DEF DDBObserved
  <2> QED
    BY <1>3, <2>3, <2>4, <2>5
<1>4. ASSUME NEW o \in Observers, StreamDemuxer(o)
      PROVE  LocalInv'
  BY <1>4 DEF StreamDemuxer
<1>5. ASSUME NEW o \in Observers, KeepAlive(o)
      PROVE  LocalInv'
  BY <1>5 DEF KeepAlive, HasStopped, ddbVars, controlVars
<1>6. ASSUME NEW o \in Observers, ObserverLeaves(o)
      PROVE  LocalInv'
  <2>1. upstream[watched[o]] \in {"running", "canceled"}
    BY <1>6 DEF ObserverLeaves, SectionInv, UsersWatch
  <2> QED
    BY <1>6, <2>1 DEF ObserverLeaves, ddbVars, controlVars
<1>7. ASSUME NEW d \in Demuxers, DemuxerCloses(d) \/ OnEmpty(d) \/ WorkersStopped(d)
      PROVE  LocalInv'
  <2>1. d = 1
    BY <1>7 DEF DemuxerCloses, OnEmpty, WorkersStopped
  <2>2. UNCHANGED <<raw, workers, ddbWorker, ddbQueue, urgentQueue>>
    BY <1>7 DEF DemuxerCloses, OnEmpty, WorkersStopped, ddbVars, controlVars
  <2>3. upstream'[1] \in {"closing", "stopping", "gone"}
    BY <1>7, <2>1 DEF DemuxerCloses, OnEmpty, WorkersStopped
  <2>4. stopAsked \subseteq stopAsked'
    BY <1>7 DEF DemuxerCloses, OnEmpty, WorkersStopped, controlVars
  <2> QED
    BY <2>2, <2>3, <2>4
<1>8. CASE SessionStop
  <2>1. /\ UNCHANGED <<raw, workers, stopAsked, ddbWorker, ddbQueue, urgentQueue>>
        /\ upstream[1] \in {"closing", "stopping", "gone"} => upstream'[1] = upstream[1]
    BY <1>8 DEF SessionStop, ddbVars
  <2> QED
    BY <2>1
<1>9. CASE StopUpdates
  <2>1. /\ UNCHANGED <<raw, workers, upstream, ddbWorker, ddbQueue, urgentQueue>>
        /\ upstream[1] \in {"closing", "stopping", "gone"} /\ stopAsked \subseteq stopAsked'
    BY <1>9 DEF StopUpdates, ddbVars, demuxerVars
  <2> QED
    BY <2>1
<1>10. ASSUME \/ \E k \in EITKeys, f \in Prints : ObserveEIT(k, f)
              \/ \E i \in Workers : UpdaterTakes(i) \/ UpdaterStores(i)
              \/ \E o \in Observers : ObserverReturns(o)
              \/ SessionStopReturns
       PROVE  LocalInv'
  BY <1>1, <1>10
  DEF ObserveEIT, UpdaterTakes, UpdaterStores, ObserverReturns, SessionStopReturns,
      demuxerVars, ddbVars, controlVars
<1> HIDE DEF LocalInv
<1> QED
  BY <1>1, <1>2, <1>3, <1>4, <1>5, <1>6, <1>7, <1>8, <1>9, <1>10
  DEF SectionNext, WorkerStep, sectionVars

LEMMA LocalHolds ==
  ASSUME ~Restartable
  PROVE  SectionSpec => []LocalInv
<1>1. SectionInit => LocalInv
  BY SectionConstants DEF SectionInit, LocalInv, Workers, Demuxers
<1>2. SectionInv /\ LocalInv /\ [SectionNext]_sectionVars => LocalInv'
  BY LocalStep
<1> QED
  BY <1>1, <1>2, SectionsInductive, PTL DEF SectionSpec

\* In a local session no DDB section is left behind: the worker goes only when the
\* demuxer has closed and its backlog is done, so a section that was counted in the
\* work group is always handled.
THEOREM BacklogIsDone ==
  ASSUME ~Restartable
  PROVE  SectionSpec => []BacklogIsFinished
<1>1. LocalInv => BacklogIsFinished
  BY DEF LocalInv, BacklogIsFinished, Workers
<1> QED
  BY <1>1, LocalHolds, PTL

\* What FingerprintIsBacked says of key k when only the first updater was started.
Backed(k) ==
  prints[k] # Unset =>
    /\ \A i \in Queued(k) : (\A j \in Queued(k) : j <= i) => prints[k] = sectionQueue[i][2]
    /\ Queued(k) = {} /\ 1 \in Storing(k) => prints[k] = updater[1].work[2]
    /\ Queued(k) = {} /\ 1 \notin Storing(k) => prints[k] = guide[k]

LEMMA BackedMeans ==
  ASSUME SectionInv, LocalInv
  PROVE  FingerprintIsBacked <=> \A k \in EITKeys : Backed(k)
<1>1. \A k : Storing(k) \subseteq {1}
  BY DEF SectionInv, PairsOnce, LocalInv, Storing, Off, Workers
<1>2. \A k : 1 \in Storing(k) => Storing(k) = {1}
  BY <1>1
<1>3. \A k : 1 \notin Storing(k) => Storing(k) = {}
  BY <1>1
<1>4. ASSUME NEW k \in EITKeys PROVE
        (Queued(k) = {} => \A i \in Storing(k) :
            (\A j \in Storing(k) : j <= i) => prints[k] = updater[i].work[2])
        <=> (Queued(k) = {} /\ 1 \in Storing(k) => prints[k] = updater[1].work[2])
  <2>1. CASE 1 \in Storing(k)
    BY <1>2, <2>1
  <2>2. CASE 1 \notin Storing(k)
    BY <1>3, <2>2
  <2> QED
    BY <2>1, <2>2
<1>5. \A k : 1 \notin Storing(k) <=> Storing(k) = {}
  BY <1>3
<1> QED
  BY <1>4, <1>5 DEF FingerprintIsBacked, Backed

\* The queue after Append and after Tail, key by key.
LEMMA QueuedAppend ==
  ASSUME NEW f, SectionTypeOK, NEW k \in EITKeys, f \in Prints,
         sectionQueue' = Append(sectionQueue, <<k, f>>), NEW x \in EITKeys
  PROVE  /\ x = k => Queued(x)' = Queued(x) \cup {Len(sectionQueue) + 1}
         /\ x # k => Queued(x)' = Queued(x)
         /\ \A i \in Queued(x) : sectionQueue'[i] = sectionQueue[i] /\ i \in 1..Len(sectionQueue)
         /\ sectionQueue'[Len(sectionQueue) + 1] = <<k, f>>
<1>1. /\ sectionQueue \in Seq(EITKeys \X Prints) /\ <<k, f>> \in EITKeys \X Prints
      /\ Len(sectionQueue) \in Nat
  BY DEF SectionTypeOK
<1>2. /\ DOMAIN sectionQueue = 1..Len(sectionQueue)
      /\ DOMAIN sectionQueue' = 1..(Len(sectionQueue) + 1)
      /\ \A i \in 1..Len(sectionQueue) : sectionQueue'[i] = sectionQueue[i]
      /\ sectionQueue'[Len(sectionQueue) + 1] = <<k, f>>
  BY <1>1
<1> QED
  BY <1>1, <1>2 DEF Queued

LEMMA QueuedTail ==
  ASSUME SectionTypeOK, sectionQueue # << >>,
         sectionQueue' = Tail(sectionQueue), NEW x \in EITKeys
  PROVE  /\ Queued(x) \subseteq Nat \ {0}
         /\ Queued(x)' \subseteq Nat \ {0}
         /\ \A i \in Nat \ {0} : i \in Queued(x)' <=> i + 1 \in Queued(x)
         /\ \A i \in Queued(x)' : sectionQueue'[i] = sectionQueue[i + 1]
         /\ 1 \in Queued(x) <=> Head(sectionQueue)[1] = x
         /\ Head(sectionQueue) = sectionQueue[1]
<1>1. sectionQueue \in Seq(EITKeys \X Prints)
  BY DEF SectionTypeOK
<1>2. /\ Len(sectionQueue) \in Nat \ {0} /\ Head(sectionQueue) = sectionQueue[1]
      /\ DOMAIN sectionQueue = 1..Len(sectionQueue)
      /\ DOMAIN sectionQueue' = 1..(Len(sectionQueue) - 1)
      /\ \A i \in 1..(Len(sectionQueue) - 1) : sectionQueue'[i] = sectionQueue[i + 1]
  BY <1>1, HeadTailProperties
<1> QED
  BY <1>2 DEF Queued

\* Every step keeps the reservations backed.  A section that is queued becomes the newest
\* of its key; the updater takes the oldest one, which is the newest only when it is
\* alone; an update that fails gives the reservation back if no newer section has it.
LEMMA BackedStep ==
  ASSUME ~Restartable, SectionInv, LocalInv, \A k \in EITKeys : Backed(k),
         [SectionNext]_sectionVars
  PROVE  \A k \in EITKeys : Backed(k)'
<1>0. /\ SectionTypeOK
      /\ prints \in [EITKeys -> Prints \cup {Unset}] /\ guide \in [EITKeys -> Prints \cup {Unset}]
      /\ updater \in [Workers -> [state : {"off", "idle", "done"}, work : {<< >>}]
                               \cup [state : {"busy"}, work : EITKeys \X Prints]]
      /\ 1 \in Workers /\ updater[2] = Off /\ \A i \in Workers : i # 1 => i = 2
      /\ \A k \in EITKeys : Backed(k)
  BY DEF SectionInv, SectionTypeOK, PairsOnce, LocalInv, Workers
<1> USE <1>0
<1>1. CASE UNCHANGED <<prints, sectionQueue, updater, guide>>
  BY <1>1 DEF Backed, Queued, Storing
<1>2. ASSUME NEW k \in EITKeys, NEW f \in Prints, ObserveEIT(k, f), NEW x \in EITKeys
      PROVE  Backed(x)'
  <2>1. updater' = updater /\ guide' = guide /\ Storing(x)' = Storing(x)
    BY <1>2 DEF ObserveEIT, Storing
  <2>2. CASE UNCHANGED <<prints, sectionQueue>>
    BY <2>1, <2>2 DEF Backed, Queued, Storing
  <2>3. CASE /\ prints' = [prints EXCEPT ![k] = f]
             /\ sectionQueue' = Append(sectionQueue, <<k, f>>)
    <3>1. /\ x = k => Queued(x)' = Queued(x) \cup {Len(sectionQueue) + 1}
          /\ x # k => Queued(x)' = Queued(x)
          /\ \A i \in Queued(x) : sectionQueue'[i] = sectionQueue[i]
                                  /\ i \in 1..Len(sectionQueue)
          /\ sectionQueue'[Len(sectionQueue) + 1] = <<k, f>>
      BY <2>3, QueuedAppend
    <3>2. Len(sectionQueue) \in Nat
      BY DEF SectionTypeOK
    <3>3. CASE x = k
      <4>1. prints'[x] = f
        BY <2>3, <3>3
      <4>2. ASSUME NEW i \in Queued(x)', \A j \in Queued(x)' : j <= i
            PROVE  i = Len(sectionQueue) + 1
        BY <3>1, <3>2, <3>3, <4>2
      <4>3. Queued(x)' # {}
        BY <3>1, <3>3
      <4> QED
        BY <3>1, <4>1, <4>2, <4>3 DEF Backed
    <3>4. CASE x # k
      <4>1. prints'[x] = prints[x] /\ Queued(x)' = Queued(x)
        BY <2>3, <3>1, <3>4
      <4> QED
        BY <2>1, <3>1, <4>1 DEF Backed
    <3> QED
      BY <3>3, <3>4
  <2>4. CASE prints' = [prints EXCEPT ![k] = Unset] /\ UNCHANGED sectionQueue
    <3>1. Queued(x)' = Queued(x)
      BY <2>4 DEF Queued
    <3>2. prints'[x] = Unset \/ prints'[x] = prints[x]
      BY <2>4
    <3> QED
      BY <2>1, <2>4, <3>1, <3>2 DEF Backed
  <2> QED
    BY <1>2, <2>2, <2>3, <2>4 DEF ObserveEIT
<1>3. ASSUME NEW i \in Workers, UpdaterTakes(i), NEW x \in EITKeys
      PROVE  Backed(x)'
  <2>1. i = 1 /\ updater[1].state = "idle" /\ prints' = prints /\ guide' = guide
    BY <1>3 DEF UpdaterTakes, Off
  <2>2. 1 \notin Storing(x)
    BY <2>1 DEF Storing
  <2>3. CASE /\ sectionQueue # << >> /\ sectionQueue' = Tail(sectionQueue)
             /\ updater' = [updater EXCEPT ![i] = [state |-> "busy",
                                                  work |-> Head(sectionQueue)]]
    <3>1. /\ Queued(x) \subseteq Nat \ {0}
          /\ Queued(x)' \subseteq Nat \ {0}
          /\ \A n \in Nat \ {0} : n \in Queued(x)' <=> n + 1 \in Queued(x)
          /\ \A n \in Queued(x)' : sectionQueue'[n] = sectionQueue[n + 1]
          /\ 1 \in Queued(x) <=> Head(sectionQueue)[1] = x
          /\ Head(sectionQueue) = sectionQueue[1]
      BY <2>3, QueuedTail
    <3>2. updater'[1] = [state |-> "busy", work |-> Head(sectionQueue)]
      BY <2>1, <2>3
    <3>3. 1 \in Storing(x)' <=> 1 \in Queued(x)
      BY <3>1, <3>2 DEF Storing
    <3>4. ASSUME NEW n \in Queued(x)', \A j \in Queued(x)' : j <= n
          PROVE  n + 1 \in Queued(x) /\ \A j \in Queued(x) : j <= n + 1
      <4>1. ASSUME NEW j \in Queued(x) PROVE j <= n + 1
        <5>1. CASE j = 1
          BY <3>1, <5>1
        <5>2. CASE j # 1
          <6>0. j \in Nat \ {0}
            BY <3>1
          <6>1. j - 1 \in Nat \ {0} /\ (j - 1) + 1 = j
            BY <5>2, <6>0
          <6>2. j - 1 \in Queued(x)'
            BY <3>1, <6>1
          <6> QED
            BY <3>1, <3>4, <6>1, <6>2
        <5> QED
          BY <5>1, <5>2
      <4> QED
        BY <3>1, <4>1
    <3>5. Queued(x)' = {} => Queued(x) \subseteq {1}
      <4> SUFFICES ASSUME Queued(x)' = {}, NEW j \in Queued(x), j # 1 PROVE FALSE
        OBVIOUS
      <4>1. j - 1 \in Nat \ {0} /\ (j - 1) + 1 = j
        BY <3>1
      <4> QED
        BY <3>1, <4>1
    <3> SUFFICES ASSUME prints[x] # Unset
                 PROVE  /\ \A n \in Queued(x)' : (\A j \in Queued(x)' : j <= n)
                               => prints[x] = sectionQueue'[n][2]
                        /\ Queued(x)' = {} /\ 1 \in Storing(x)'
                               => prints[x] = Head(sectionQueue)[2]
                        /\ Queued(x)' = {} /\ 1 \notin Storing(x)' => prints[x] = guide[x]
      BY <2>1, <3>2 DEF Backed
    <3>6. /\ \A n \in Queued(x) : (\A j \in Queued(x) : j <= n)
                               => prints[x] = sectionQueue[n][2]
          /\ Queued(x) = {} => prints[x] = guide[x]
      BY <2>2 DEF Backed
    <3>7. \A n \in Queued(x)' : (\A j \in Queued(x)' : j <= n)
             => prints[x] = sectionQueue'[n][2]
      BY <3>1, <3>4, <3>6
    <3>8. Queued(x)' = {} /\ 1 \in Storing(x)' => prints[x] = Head(sectionQueue)[2]
      BY <3>1, <3>3, <3>5, <3>6
    <3>9. Queued(x)' = {} /\ 1 \notin Storing(x)' => prints[x] = guide[x]
      BY <3>3, <3>5, <3>6
    <3> QED
      BY <3>7, <3>8, <3>9
  <2>4. CASE /\ updater' = [updater EXCEPT ![i] = [state |-> "done", work |-> << >>]]
             /\ UNCHANGED sectionQueue
    <3>1. 1 \notin Storing(x)' /\ Queued(x)' = Queued(x)
      BY <2>1, <2>4 DEF Storing, Queued
    <3> QED
      BY <2>1, <2>2, <2>4, <3>1 DEF Backed
  <2> QED
    BY <1>3, <2>3, <2>4 DEF UpdaterTakes
<1>4. ASSUME NEW i \in Workers, UpdaterStores(i), NEW x \in EITKeys
      PROVE  Backed(x)'
  <2>1. /\ i = 1 /\ updater[1].state = "busy" /\ sectionQueue' = sectionQueue
        /\ updater' = [updater EXCEPT ![1] = Idle]
    <3>1. updater[i].state = "busy" /\ updater[2].state = "off"
      BY <1>4 DEF UpdaterStores, Off
    <3>2. i = 1
      BY <3>1
    <3> QED
      BY <1>4, <3>1, <3>2 DEF UpdaterStores
  <2>2. PICK k \in EITKeys, f \in Prints : updater[1].work = <<k, f>>
    BY <2>1
  <2>3. /\ \/ guide' = [guide EXCEPT ![k] = f] /\ UNCHANGED prints
           \/ /\ prints' = [prints EXCEPT ![k] = IF @ = f THEN Unset ELSE @]
              /\ UNCHANGED guide
        /\ updater[1].work[1] = k /\ updater[1].work[2] = f
    BY <1>4, <2>1, <2>2 DEF UpdaterStores
  <2>4. /\ Queued(x)' = Queued(x) /\ 1 \notin Storing(x)'
        /\ 1 \in Storing(x) <=> x = k
    BY <2>1, <2>3 DEF Queued, Storing, Idle
  <2>5. CASE x = k
    BY <2>1, <2>3, <2>4, <2>5 DEF Backed
  <2>6. CASE x # k
    <3>1. prints'[x] = prints[x] /\ guide'[x] = guide[x]
      BY <2>3, <2>6
    <3> QED
      BY <2>1, <2>4, <2>6, <3>1 DEF Backed
  <2> QED
    BY <2>5, <2>6
<1>5. ASSUME NEW o \in Observers, StreamDemuxer(o)
      PROVE  UNCHANGED <<prints, sectionQueue, updater, guide>>
  BY <1>5 DEF StreamDemuxer
<1>6. ASSUME \/ \E urgent \in BOOLEAN : ObserveDDB(urgent)
             \/ \E i \in Workers : DDBTakes(i) \/ DDBDrains(i) \/ DDBObserved(i)
             \/ \E o \in Observers : KeepAlive(o) \/ ObserverLeaves(o) \/ ObserverReturns(o)
             \/ \E d \in Demuxers : DemuxerCloses(d) \/ OnEmpty(d) \/ WorkersStopped(d)
             \/ SessionStop \/ StopUpdates \/ SessionStopReturns
      PROVE  UNCHANGED <<prints, sectionQueue, updater, guide>>
  BY <1>6
  DEF ObserveDDB, DDBTakes, DDBDrains, DDBObserved, KeepAlive, ObserverLeaves,
      ObserverReturns, DemuxerCloses, OnEmpty, WorkersStopped, SessionStop, StopUpdates,
      SessionStopReturns, eitVars
<1> QED
  BY <1>1, <1>2, <1>3, <1>4, <1>5, <1>6 DEF SectionNext, WorkerStep, sectionVars

\* In a local session a reserved fingerprint stands for a section that is on its way or
\* has reached the guide, so no later repetition is suppressed without reason.
THEOREM ReservationsAreBacked ==
  ASSUME ~Restartable
  PROVE  SectionSpec => []FingerprintIsBacked
<1>1. SectionInit => FingerprintIsBacked
  BY DEF SectionInit, FingerprintIsBacked
<1>2. SectionInv' /\ LocalInv' => (FingerprintIsBacked' <=> (\A k \in EITKeys : Backed(k))')
  <2>1. SectionInv /\ LocalInv => (FingerprintIsBacked <=> \A k \in EITKeys : Backed(k))
    BY BackedMeans
  <2> QED
    BY <2>1, PTL
<1>3. /\ SectionInv /\ LocalInv /\ FingerprintIsBacked /\ [SectionNext]_sectionVars
      /\ SectionInv' /\ LocalInv'
      => FingerprintIsBacked'
  <2> SUFFICES ASSUME SectionInv, LocalInv, FingerprintIsBacked, [SectionNext]_sectionVars,
                      SectionInv', LocalInv'
               PROVE  FingerprintIsBacked'
    OBVIOUS
  <2>1. \A k \in EITKeys : Backed(k)'
    BY BackedMeans, BackedStep
  <2> QED
    BY <2>1, <1>2
<1> QED
  BY <1>1, <1>3, SectionsInductive, LocalHolds, PTL DEF SectionSpec

-----------------------------------------------------------------------------
(* Demuxer.                                                                *)

\* Facts about sequences of packet numbers.
Increasing(s) == \A i, j \in DOMAIN s : i < j => s[i] < s[j]
Before(s, t) == \A x \in Range(s), y \in Range(t) : x < y

\* A concatenation increases when its parts do and one comes before the other.
LEMMA IncreasingConcat ==
  ASSUME NEW P, NEW s \in Seq(P), NEW t \in Seq(P)
  PROVE  /\ s \o t \in Seq(P) /\ Range(s \o t) = Range(s) \cup Range(t)
         /\ Increasing(s) /\ Increasing(t) /\ Before(s, t) => Increasing(s \o t)
<1> DEFINE c == s \o t
<1>1. /\ c \in Seq(P) /\ Len(s) \in Nat /\ Len(t) \in Nat
      /\ DOMAIN c = 1..(Len(s) + Len(t)) /\ DOMAIN s = 1..Len(s) /\ DOMAIN t = 1..Len(t)
      /\ \A i \in DOMAIN c : c[i] = IF i <= Len(s) THEN s[i] ELSE t[i - Len(s)]
  OBVIOUS
<1> HIDE DEF c
<1>2. Range(c) = Range(s) \cup Range(t)
  <2>1. ASSUME NEW x \in Range(c) PROVE x \in Range(s) \cup Range(t)
    <3>1. PICK i \in DOMAIN c : x = c[i]
      BY DEF Range
    <3>2. CASE i <= Len(s)
      BY <1>1, <3>1, <3>2 DEF Range
    <3>3. CASE ~(i <= Len(s))
      <4>1. i - Len(s) \in DOMAIN t /\ x = t[i - Len(s)]
        BY <1>1, <3>1, <3>3
      <4> QED
        BY <4>1 DEF Range
    <3> QED
      BY <3>2, <3>3
  <2>2. ASSUME NEW x \in Range(s) PROVE x \in Range(c)
    <3>1. PICK i \in DOMAIN s : x = s[i]
      BY DEF Range
    <3>2. i \in DOMAIN c /\ x = c[i]
      BY <1>1, <3>1
    <3> QED
      BY <3>2 DEF Range
  <2>3. ASSUME NEW x \in Range(t) PROVE x \in Range(c)
    <3>1. PICK i \in DOMAIN t : x = t[i]
      BY DEF Range
    <3>2. i + Len(s) \in DOMAIN c /\ ~(i + Len(s) <= Len(s)) /\ (i + Len(s)) - Len(s) = i
      BY <1>1
    <3>3. x = c[i + Len(s)]
      BY <1>1, <3>1, <3>2
    <3> QED
      BY <3>2, <3>3 DEF Range
  <2> QED
    BY <2>1, <2>2, <2>3
<1>3. ASSUME Increasing(s), Increasing(t), Before(s, t) PROVE Increasing(c)
  <2> SUFFICES ASSUME NEW i \in DOMAIN c, NEW j \in DOMAIN c, i < j PROVE c[i] < c[j]
    BY DEF Increasing
  <2>0. i \in Nat /\ j \in Nat
    BY <1>1
  <2>1. CASE j <= Len(s)
    <3>1. i \in DOMAIN s /\ j \in DOMAIN s /\ c[i] = s[i] /\ c[j] = s[j]
      BY <1>1, <2>0, <2>1
    <3> QED
      BY <1>3, <3>1 DEF Increasing
  <2>2. CASE ~(j <= Len(s)) /\ i <= Len(s)
    <3>1. /\ i \in DOMAIN s /\ c[i] = s[i]
          /\ j - Len(s) \in DOMAIN t /\ c[j] = t[j - Len(s)]
      BY <1>1, <2>0, <2>2
    <3>2. c[i] \in Range(s) /\ c[j] \in Range(t)
      BY <3>1 DEF Range
    <3> QED
      BY <1>3, <3>2 DEF Before
  <2>3. CASE ~(i <= Len(s))
    <3>1. /\ i - Len(s) \in DOMAIN t /\ c[i] = t[i - Len(s)]
          /\ j - Len(s) \in DOMAIN t /\ c[j] = t[j - Len(s)]
          /\ i - Len(s) < j - Len(s)
      BY <1>1, <2>0, <2>3
    <3> QED
      BY <1>3, <3>1 DEF Increasing
  <2> QED
    BY <1>1, <2>0, <2>1, <2>2, <2>3
<1> QED
  BY <1>1, <1>2, <1>3 DEF c

\* An increasing sequence can be cut in two.
LEMMA IncreasingSplit ==
  ASSUME NEW s \in Seq(Packets), Increasing(s), NEW n \in 1..Len(s)
  PROVE  LET a == SubSeq(s, 1, n)
             b == SubSeq(s, n + 1, Len(s))
         IN  /\ a \in Seq(Packets) /\ b \in Seq(Packets) /\ Len(b) <= Len(s)
             /\ Range(a) \cup Range(b) = Range(s)
             /\ Increasing(a) /\ Increasing(b) /\ Before(a, b)
<1> DEFINE a == SubSeq(s, 1, n)
           b == SubSeq(s, n + 1, Len(s))
<1>1. /\ Len(s) \in Nat /\ DOMAIN s = 1..Len(s)
      /\ a \in Seq(Packets) /\ DOMAIN a = 1..n /\ \A i \in 1..n : a[i] = s[i]
  BY SubSeqProperties
<1>2. /\ b \in Seq(Packets) /\ Len(b) = Len(s) - n /\ DOMAIN b = 1..(Len(s) - n)
      /\ \A i \in 1..(Len(s) - n) : b[i] = s[i + n]
  <2>1. CASE n = Len(s)
    <3>1. b = << >>
      BY <1>1, <2>1
    <3> QED
      BY <1>1, <2>1, <3>1
  <2>2. CASE n # Len(s)
    <3>0. Len(s) \in Nat /\ n \in Nat /\ n < Len(s)
      <4>1. PICK m \in Nat : m = Len(s)
        BY <1>1
      <4>2. n \in 1..m /\ n # m
        BY <2>2, <4>1
      <4> QED
        BY <4>1, <4>2
    <3>1. n + 1 <= Len(s) /\ n + 1 \in Int /\ Len(s) - (n + 1) + 1 = Len(s) - n
      BY <3>0
    <3>2. /\ b \in Seq(Packets) /\ Len(b) = Len(s) - n
          /\ \A i \in 1..(Len(s) - n) : b[i] = s[(n + 1) + i - 1]
      BY <1>1, <3>1, SubSeqProperties
    <3>3. \A i \in 1..(Len(s) - n) : (n + 1) + i - 1 = i + n
      BY <1>1
    <3> QED
      BY <3>2, <3>3
  <2> QED
    BY <2>1, <2>2
<1> HIDE DEF a, b
<1>3. Range(a) \cup Range(b) = Range(s)
  <2>1. ASSUME NEW x \in Range(s) PROVE x \in Range(a) \cup Range(b)
    <3>1. PICK i \in 1..Len(s) : x = s[i]
      BY <1>1 DEF Range
    <3>2. CASE i <= n
      <4>1. i \in 1..n /\ x = a[i]
        BY <1>1, <3>1, <3>2
      <4> QED
        BY <1>1, <4>1 DEF Range
    <3>3. CASE ~(i <= n)
      <4>1. i - n \in 1..(Len(s) - n) /\ (i - n) + n = i
        BY <1>1, <3>3
      <4>2. x = b[i - n]
        BY <1>2, <3>1, <4>1
      <4> QED
        BY <1>2, <4>1, <4>2 DEF Range
    <3> QED
      BY <3>2, <3>3
  <2>2. Range(a) \subseteq Range(s)
    BY <1>1 DEF Range
  <2>3. ASSUME NEW x \in Range(b) PROVE x \in Range(s)
    <3>1. PICK i \in 1..(Len(s) - n) : x = b[i]
      BY <1>2 DEF Range
    <3>2. i + n \in 1..Len(s) /\ x = s[i + n]
      BY <1>1, <1>2, <3>1
    <3> QED
      BY <1>1, <3>2 DEF Range
  <2> QED
    BY <2>1, <2>2, <2>3
<1>4. Increasing(a)
  BY <1>1 DEF Increasing
<1>5. Increasing(b)
  <2> SUFFICES ASSUME NEW i \in 1..(Len(s) - n), NEW j \in 1..(Len(s) - n), i < j
               PROVE  b[i] < b[j]
    BY <1>2 DEF Increasing
  <2>1. i + n \in DOMAIN s /\ j + n \in DOMAIN s /\ i + n < j + n
    BY <1>1
  <2> QED
    BY <1>2, <2>1 DEF Increasing
<1>6. Before(a, b)
  <2> SUFFICES ASSUME NEW i \in 1..n, NEW j \in 1..(Len(s) - n) PROVE a[i] < b[j]
    BY <1>1, <1>2 DEF Before, Range
  <2>1. i \in DOMAIN s /\ j + n \in DOMAIN s /\ i < j + n
    BY <1>1
  <2> QED
    BY <1>1, <1>2, <2>1 DEF Increasing
<1>7. Len(b) <= Len(s)
  BY <1>1, <1>2
<1> QED
  BY <1>1, <1>2, <1>3, <1>4, <1>5, <1>6, <1>7 DEF a, b

\* A packet newer than all others goes to the end.
LEMMA IncreasingAppend ==
  ASSUME NEW s \in Seq(Packets), Increasing(s), NEW p \in Packets, \A x \in Range(s) : x < p
  PROVE  Increasing(Append(s, p))
<1>1. /\ Len(s) \in Nat /\ DOMAIN s = 1..Len(s)
      /\ DOMAIN Append(s, p) = 1..(Len(s) + 1)
      /\ \A i \in 1..Len(s) : Append(s, p)[i] = s[i]
      /\ Append(s, p)[Len(s) + 1] = p
  OBVIOUS
<1> SUFFICES ASSUME NEW i \in 1..(Len(s) + 1), NEW j \in 1..(Len(s) + 1), i < j
             PROVE  Append(s, p)[i] < Append(s, p)[j]
  BY <1>1 DEF Increasing
<1>2. i \in 1..Len(s) /\ Append(s, p)[i] = s[i] /\ s[i] \in Range(s)
  BY <1>1 DEF Range
<1>3. CASE j = Len(s) + 1
  BY <1>1, <1>2, <1>3
<1>4. CASE j \in 1..Len(s)
  BY <1>1, <1>2, <1>4 DEF Increasing
<1> QED
  BY <1>1, <1>3, <1>4

\* dispatch has still to come to v with the packet at hand.
Pending(v) == run = "walk" /\ \E i \in DOMAIN order : i >= step /\ order[i] = v

\* The last packet that dispatch has brought to v, if v has subscribed.
Reached(v) == IF Pending(v) THEN packet - 1 ELSE packet

\* The packets accepted for v and not lost with a failing client.
Given(v) == Range(sent[v]) \cup Range(batch[v]) \cup Range(buffer[v])

\* The three parts of v's stream increase, one after the other.
InOrder(v) ==
  /\ Increasing(sent[v]) /\ Increasing(batch[v]) /\ Increasing(buffer[v])
  /\ Before(sent[v], batch[v]) /\ Before(sent[v], buffer[v]) /\ Before(batch[v], buffer[v])

\* No packet from the future, and nobody subscribes in the middle of a dispatch.
Limits(v) ==
  /\ since[v] <= packet /\ (Pending(v) => since[v] < packet)
  /\ \A x \in Given(v) : x <= Reached(v)

\* How far the caller, the subscription and the writer of v can be apart.
Phases(v) ==
  /\ Subscribed(v) =>
       finish[v] = "no" /\ caller[v] = "wait" /\ writer[v] \in {"receive", "write", "failed"}
  /\ caller[v] = "idle" =>
       /\ finish[v] = "no" /\ writer[v] = "off"
       /\ sent[v] = << >> /\ batch[v] = << >> /\ buffer[v] = << >>
  /\ writer[v] # "write" => batch[v] = << >>
  /\ writer[v] = "done" => buffer[v] = << >>
  /\ finish[v] = "clean" => run = "done"
  /\ caller[v] = "back" /\ finish[v] = "clean" => writer[v] \in {"done", "broken"}

\* A subscription has what it is due, and a clean end leaves it all there was.
Whole(v) ==
  /\ Subscribed(v) /\ writer[v] # "failed" =>
       Given(v) = Wanted[v] \cap (since[v] + 1 .. Reached(v))
  /\ finish[v] = "clean" =>
       \/ Given(v) = Wanted[v] \cap (since[v] + 1 .. packet)
       \/ writer[v] \in {"failed", "broken"}

Viewer(v) == InOrder(v) /\ Limits(v) /\ Phases(v) /\ Whole(v)

DemuxInv ==
  /\ DemuxTypeOK /\ IsInjective(order)
  /\ \A v \in Watchers : Viewer(v)

LEMMA EmptyParts ==
  /\ Range(<< >>) = {} /\ Increasing(<< >>)
  /\ \A s : Before(<< >>, s) /\ Before(s, << >>)
BY DEF Range, Increasing, Before

\* The invariant holds before anybody has subscribed.
LEMMA DemuxStarts == DemuxInit => DemuxInv
<1> SUFFICES ASSUME DemuxInit PROVE DemuxInv
  OBVIOUS
<1>1. DemuxTypeOK
  <2>1. /\ << >> \in Seq(Packets) /\ << >> \in Seq(Watchers) /\ Len(<< >>) <= BufferSize
        /\ 0 \in 0..MaxPackets /\ 1 \in Nat \ {0}
    BY DemuxConstants
  <2> QED
    BY <2>1 DEF DemuxInit, DemuxTypeOK
<1>2. IsInjective(order) /\ Range(order) = {}
  BY DEF DemuxInit, IsInjective, Range
<1>3. ASSUME NEW v \in Watchers PROVE Viewer(v)
  <2>1. /\ ~Subscribed(v) /\ ~Pending(v) /\ Given(v) = {}
        /\ sent[v] = << >> /\ batch[v] = << >> /\ buffer[v] = << >>
    BY <1>2, EmptyParts DEF DemuxInit, Subscribed, Pending, Given
  <2>2. InOrder(v)
    BY <2>1, EmptyParts DEF InOrder
  <2> QED
    BY <2>1, <2>2 DEF DemuxInit, Viewer, Limits, Phases, Whole
<1> QED
  BY <1>1, <1>2, <1>3 DEF DemuxInv

\* finishPacketLocked takes one subscription off the list and leaves the others.
LEMMA Finishes ==
  ASSUME DemuxTypeOK, IsInjective(order), NEW v \in Watchers,
         NEW err \in {"error", "overflow", "missing", "context"}, FinishPacketLocked(v, err)
  PROVE  /\ order' \in Seq(Watchers) /\ IsInjective(order')
         /\ Range(order') = Range(order) \ {v}
         /\ finish' \in [Watchers -> {"no", "clean", "error", "overflow", "missing", "context"}]
         /\ \A u \in Watchers : u # v => finish'[u] = finish[u]
         /\ finish'[v] = IF Subscribed(v) THEN err ELSE finish[v]
         /\ demuxStopped' \in BOOLEAN /\ sourceCanceled' \in BOOLEAN
         /\ \A i \in DOMAIN order : order[i] = v => order' = RemoveAt(order, i)
<1>0. order \in Seq(Watchers) /\ DOMAIN order = 1..Len(order)
  BY DEF DemuxTypeOK
<1>1. CASE ~Subscribed(v)
  <2>1. order' = order /\ finish' = finish
    BY <1>1 DEF FinishPacketLocked, subVars, Subscribed, Range
  <2>2. v \notin Range(order) /\ \A i \in DOMAIN order : order[i] # v
    BY <1>1 DEF Subscribed, Range
  <2>3. demuxStopped' \in BOOLEAN /\ sourceCanceled' \in BOOLEAN
    BY <1>1, <2>2 DEF FinishPacketLocked, subVars, DemuxTypeOK
  <2> QED
    BY <1>0, <1>1, <2>1, <2>2, <2>3 DEF DemuxTypeOK
<1>2. CASE Subscribed(v)
  <2>1. PICK i \in DOMAIN order :
          /\ order[i] = v
          /\ finish' = [finish EXCEPT ![v] = err]
          /\ order' = RemoveAt(order, i)
          /\ demuxStopped' = (demuxStopped \/ order' = << >>)
          /\ sourceCanceled' = (sourceCanceled \/ order' = << >>)
    BY <1>2 DEF FinishPacketLocked
  <2>2. /\ order' \in Seq(Watchers) /\ IsInjective(order')
        /\ Range(order') = Range(order) \ {v}
    BY <1>0, <2>1, RemoveAtRange
  <2>3. \A j \in DOMAIN order : order[j] = v => j = i
    BY <2>1 DEF IsInjective
  <2>4. demuxStopped' \in BOOLEAN /\ sourceCanceled' \in BOOLEAN
    BY <2>1 DEF DemuxTypeOK
  <2> QED
    BY <1>2, <2>1, <2>2, <2>3, <2>4 DEF DemuxTypeOK
<1> QED
  BY <1>1, <1>2

\* A viewer whose stream a step does not touch keeps its place, if the step leaves its
\* place in the walk.
LEMMA Framed ==
  ASSUME NEW v \in Watchers, DemuxTypeOK, Viewer(v),
         sent'[v] = sent[v], batch'[v] = batch[v], buffer'[v] = buffer[v],
         writer'[v] = writer[v] \/ (writer'[v] \in {"done", "broken"} /\ ~Subscribed(v)'
                                   /\ (writer[v] # "receive" => writer'[v] = "broken")),
         since'[v] = since[v],
         packet' = packet, Pending(v)' <=> Pending(v), Subscribed(v)' => Subscribed(v),
         finish'[v] = "clean" => finish[v] = "clean"
  PROVE  InOrder(v)' /\ Limits(v)' /\ Whole(v)'
<1>1. Given(v)' = Given(v) /\ Reached(v)' = Reached(v)
  BY DEF Given, Reached
<1>2. InOrder(v)'
  BY DEF Viewer, InOrder
<1>3. Limits(v)'
  BY <1>1 DEF Viewer, Limits
<1>4. Whole(v)'
  BY <1>1 DEF Viewer, Whole
<1> QED
  BY <1>2, <1>3, <1>4

\* Outside of the walk nobody waits for a packet.
LEMMA NoWalk ==
  ASSUME NEW v
  PROVE  /\ run # "walk" => ~Pending(v) /\ Reached(v) = packet
         /\ run' # "walk" => ~Pending(v)' /\ Reached(v)' = packet'
BY DEF Pending, Reached

\* attachPacket.
LEMMA AttachStep ==
  ASSUME DemuxInv, NEW u \in Watchers, AttachPacket(u)
  PROVE  DemuxInv'
<1>0. /\ DemuxTypeOK /\ IsInjective(order) /\ order \in Seq(Watchers)
      /\ \A v \in Watchers : Viewer(v)
      /\ UNCHANGED <<packet, step, patReady, demuxStopped, sourceCanceled, buffer, batch,
                     sent, quit>>
      /\ caller[u] = "idle" /\ run # "walk" /\ run' # "walk"
      /\ caller \in [Watchers -> {"idle", "wait", "flush", "back"}]
      /\ finish \in [Watchers -> {"no", "clean", "error", "overflow", "missing", "context"}]
      /\ writer \in [Watchers -> {"off", "receive", "write", "failed", "broken", "done"}]
      /\ since \in [Watchers -> 0 .. MaxPackets] /\ packet \in 0 .. MaxPackets
  BY DEF DemuxInv, DemuxTypeOK, AttachPacket, MuFree
<1>1. \A v \in Watchers : /\ ~Pending(v) /\ ~Pending(v)'
                          /\ sent'[v] = sent[v] /\ batch'[v] = batch[v] /\ buffer'[v] = buffer[v]
  BY <1>0, NoWalk
<1>2. ~Subscribed(u) /\ Phases(u)
  BY <1>0 DEF Viewer, Phases
<1>3. CASE demuxStopped
  <2>1. /\ caller' = [caller EXCEPT ![u] = "back"] /\ finish' = [finish EXCEPT ![u] = "error"]
        /\ UNCHANGED <<run, order, writer, since>>
    BY <1>3 DEF AttachPacket
  <2>2. DemuxTypeOK' /\ IsInjective(order)'
    BY <1>0, <2>1 DEF DemuxTypeOK
  <2>3. ASSUME NEW v \in Watchers PROVE Viewer(v)'
    <3>1. Subscribed(v)' <=> Subscribed(v)
      BY <2>1 DEF Subscribed
    <3>2. finish'[v] = finish[v] \/ finish'[v] = "error"
      BY <1>0, <2>1
    <3>3. InOrder(v)' /\ Limits(v)' /\ Whole(v)'
      BY <1>0, <1>1, <2>1, <3>1, <3>2, Framed
    <3>4. Phases(v)'
      <4>1. CASE v = u
        BY <1>0, <1>2, <2>1, <3>1, <4>1 DEF Phases
      <4>2. CASE v # u
        <5>1. caller'[v] = caller[v] /\ finish'[v] = finish[v]
          BY <2>1, <4>2
        <5> QED
          BY <1>0, <1>1, <2>1, <3>1, <5>1 DEF Viewer, Phases
      <4> QED
        BY <4>1, <4>2
    <3> QED
      BY <3>3, <3>4 DEF Viewer
  <2> QED
    BY <2>2, <2>3 DEF DemuxInv
<1>4. CASE ~demuxStopped
  <2>1. /\ caller' = [caller EXCEPT ![u] = "wait"] /\ order' = Append(order, u)
        /\ run' = (IF run = "off" THEN "read" ELSE run)
        /\ writer' = [writer EXCEPT ![u] = "receive"]
        /\ since' = [since EXCEPT ![u] = packet] /\ UNCHANGED finish
    BY <1>4 DEF AttachPacket
  <2>2. /\ order' \in Seq(Watchers) /\ Range(order') = Range(order) \cup {u}
        /\ IsInjective(order')
    BY <1>0, <1>2, <2>1, AppendRange DEF Subscribed
  <2>3. DemuxTypeOK'
    BY <1>0, <2>1, <2>2 DEF DemuxTypeOK
  <2>4. ASSUME NEW v \in Watchers, v # u PROVE Viewer(v)'
    <3>1. Subscribed(v)' <=> Subscribed(v)
      BY <2>2, <2>4 DEF Subscribed
    <3>2. /\ finish'[v] = finish[v] /\ caller'[v] = caller[v] /\ writer'[v] = writer[v]
          /\ since'[v] = since[v]
      BY <1>0, <2>1, <2>4
    <3>3. InOrder(v)' /\ Limits(v)' /\ Whole(v)'
      BY <1>0, <1>1, <3>1, <3>2, Framed
    <3>4. Phases(v)'
      BY <1>0, <1>1, <2>1, <3>1, <3>2 DEF Viewer, Phases
    <3> QED
      BY <3>3, <3>4 DEF Viewer
  <2>5. Viewer(u)'
    <3>1. /\ sent'[u] = << >> /\ batch'[u] = << >> /\ buffer'[u] = << >>
          /\ caller'[u] = "wait" /\ writer'[u] = "receive" /\ since'[u] = packet
          /\ finish'[u] = finish[u] /\ packet' = packet
      BY <1>0, <1>1, <1>2, <2>1 DEF Phases
    <3>2. Given(u)' = {} /\ InOrder(u)'
      BY <3>1, EmptyParts DEF Given, InOrder
    <3>3. packet + 1 .. packet = {} /\ packet \in Nat
      BY <1>0, DemuxConstants
    <3>4. Reached(u)' = packet /\ ~Pending(u)'
      BY <1>0, <1>1, NoWalk
    <3>5. Limits(u)'
      BY <3>1, <3>2, <3>3, <3>4 DEF Limits
    <3>6. finish[u] = "no"
      BY <1>0, <1>2 DEF Phases
    <3>7. Phases(u)' /\ Whole(u)'
      BY <3>1, <3>2, <3>3, <3>4, <3>6 DEF Phases, Whole
    <3> QED
      BY <3>2, <3>5, <3>7 DEF Viewer
  <2> QED
    BY <2>2, <2>3, <2>4, <2>5 DEF DemuxInv
<1> QED
  BY <1>3, <1>4

\* A subscription that ends outside of the walk: of a caller whose context has ended,
\* and of a writer whose client has failed.
LEMMA CallerQuitsStep ==
  ASSUME DemuxInv, NEW u \in Watchers, CallerQuits(u)
  PROVE  DemuxInv'
<1>0. /\ DemuxTypeOK /\ IsInjective(order) /\ \A v \in Watchers : Viewer(v)
      /\ UNCHANGED <<run, packet, step, patReady, buffer, writer, batch, sent, quit, since>>
      /\ caller[u] = "wait" /\ run # "walk"
      /\ caller' = [caller EXCEPT ![u] = "flush"]
      /\ caller \in [Watchers -> {"idle", "wait", "flush", "back"}]
  BY DEF DemuxInv, DemuxTypeOK, CallerQuits, MuFree, runVars, streamVars
<1>1. /\ order' \in Seq(Watchers) /\ IsInjective(order')
      /\ Range(order') = Range(order) \ {u}
      /\ finish' \in [Watchers -> {"no", "clean", "error", "overflow", "missing", "context"}]
      /\ \A v \in Watchers : v # u => finish'[v] = finish[v]
      /\ finish'[u] = IF Subscribed(u) THEN "context" ELSE finish[u]
      /\ demuxStopped' \in BOOLEAN /\ sourceCanceled' \in BOOLEAN
  BY <1>0, Finishes DEF CallerQuits
<1>2. DemuxTypeOK'
  BY <1>0, <1>1 DEF DemuxTypeOK
<1>3. ASSUME NEW v \in Watchers PROVE Viewer(v)'
  <2>1. ~Pending(v) /\ ~Pending(v)' /\ (Subscribed(v)' => Subscribed(v) /\ v # u)
    BY <1>0, <1>1, NoWalk DEF Subscribed
  <2>2. finish'[v] = "clean" => finish[v] = "clean"
    BY <1>1
  <2>3. InOrder(v)' /\ Limits(v)' /\ Whole(v)'
    BY <1>0, <2>1, <2>2, Framed
  <2>4. Phases(v)'
    <3>1. CASE v = u
      <4>1. caller'[u] = "flush" /\ ~Subscribed(u)'
        BY <1>0, <2>1, <3>1
      <4> QED
        BY <1>0, <2>2, <3>1, <4>1 DEF Viewer, Phases
    <3>2. CASE v # u
      <4>1. caller'[v] = caller[v] /\ finish'[v] = finish[v]
        BY <1>0, <1>1, <3>2
      <4> QED
        BY <1>0, <2>1, <4>1 DEF Viewer, Phases
    <3> QED
      BY <3>1, <3>2
  <2> QED
    BY <2>3, <2>4 DEF Viewer
<1> QED
  BY <1>1, <1>2, <1>3 DEF DemuxInv

LEMMA WriterFailsStep ==
  ASSUME DemuxInv, NEW u \in Watchers, WriterFails(u)
  PROVE  DemuxInv'
<1>0. /\ DemuxTypeOK /\ IsInjective(order) /\ \A v \in Watchers : Viewer(v)
      /\ UNCHANGED <<run, packet, step, patReady, buffer, batch, sent, caller, quit, since>>
      /\ writer[u] = "failed" /\ run # "walk"
      /\ writer' = [writer EXCEPT ![u] = "broken"]
      /\ writer \in [Watchers -> {"off", "receive", "write", "failed", "broken", "done"}]
  BY DEF DemuxInv, DemuxTypeOK, WriterFails, MuFree, runVars, viewerVars
<1>1. /\ order' \in Seq(Watchers) /\ IsInjective(order')
      /\ Range(order') = Range(order) \ {u}
      /\ finish' \in [Watchers -> {"no", "clean", "error", "overflow", "missing", "context"}]
      /\ \A v \in Watchers : v # u => finish'[v] = finish[v]
      /\ finish'[u] = IF Subscribed(u) THEN "error" ELSE finish[u]
      /\ demuxStopped' \in BOOLEAN /\ sourceCanceled' \in BOOLEAN
  BY <1>0, Finishes DEF WriterFails
<1>2. DemuxTypeOK'
  BY <1>0, <1>1 DEF DemuxTypeOK
<1>3. ASSUME NEW v \in Watchers PROVE Viewer(v)'
  <2>1. ~Pending(v) /\ ~Pending(v)' /\ (Subscribed(v)' => Subscribed(v) /\ v # u)
    BY <1>0, <1>1, NoWalk DEF Subscribed
  <2>2. finish'[v] = "clean" => finish[v] = "clean"
    BY <1>1
  <2>3. /\ v = u => writer[v] = "failed" /\ writer'[v] = "broken" /\ ~Subscribed(v)'
        /\ v # u => writer'[v] = writer[v] /\ finish'[v] = finish[v]
    BY <1>0, <1>1, <2>1
  <2>4. InOrder(v)' /\ Limits(v)' /\ Whole(v)'
    BY <1>0, <2>1, <2>2, <2>3, Framed
  <2>5. Phases(v)'
    <3>1. CASE v = u
      BY <1>0, <2>2, <2>3, <3>1 DEF Viewer, Phases
    <3>2. CASE v # u
      BY <1>0, <2>1, <2>3, <3>2 DEF Viewer, Phases
    <3> QED
      BY <3>1, <3>2
  <2> QED
    BY <2>4, <2>5 DEF Viewer
<1> QED
  BY <1>1, <1>2, <1>3 DEF DemuxInv

\* The steps of the caller, of the clients, of the source and of Stop that touch neither
\* the list nor the streams.
LEMMA QuietStep ==
  ASSUME DemuxInv,
         \/ \E u \in Watchers : ViewerQuits(u) \/ CallerDone(u) \/ CallerReturns(u)
         \/ DispatchEnds \/ SourceStops \/ StopDemux \/ UNCHANGED demuxVars
  PROVE  DemuxInv'
<1>0. /\ DemuxTypeOK /\ IsInjective(order) /\ \A v \in Watchers : Viewer(v)
      /\ UNCHANGED <<packet, step, patReady, order, finish, buffer, writer, batch, sent, since>>
      /\ caller \in [Watchers -> {"idle", "wait", "flush", "back"}]
  BY DEF DemuxInv, DemuxTypeOK, ViewerQuits, CallerDone, CallerReturns, DispatchEnds, SourceStops,
         StopDemux, demuxVars, runVars, subVars, streamVars, viewerVars
<1>1. /\ run' \in {"off", "read", "walk", "close", "fail", "done"}
      /\ demuxStopped' \in BOOLEAN /\ sourceCanceled' \in BOOLEAN
      /\ quit' \subseteq Watchers
      /\ caller' \in [Watchers -> {"idle", "wait", "flush", "back"}]
      /\ run = "done" => run' = "done"
      /\ run' = "walk" => run = "walk"
      /\ run = "walk" /\ run' # "walk" => step > Len(order)
  BY DEF DemuxInv, DemuxTypeOK, ViewerQuits, CallerDone, CallerReturns, DispatchEnds, SourceStops,
         StopDemux, MuFree, demuxVars, runVars, subVars, streamVars, viewerVars
<1>2. DemuxTypeOK'
  BY <1>0, <1>1 DEF DemuxTypeOK
<1>3. ASSUME NEW v \in Watchers PROVE Viewer(v)'
  <2>1. Subscribed(v)' <=> Subscribed(v)
    BY <1>0 DEF Subscribed
  <2>2. Pending(v)' <=> Pending(v)
    <3>1. CASE run' = run
      BY <1>0, <3>1 DEF Pending
    <3>2. CASE run = "walk" /\ run' # "walk"
      <4>1. DOMAIN order = 1..Len(order) /\ Len(order) \in Nat /\ step \in Nat
        BY <1>0 DEF DemuxTypeOK
      <4> QED
        BY <1>0, <1>1, <3>2, <4>1 DEF Pending
    <3>3. CASE run # "walk"
      BY <1>1, <3>3 DEF Pending
    <3> QED
      BY <3>1, <3>2, <3>3
  <2>3. InOrder(v)' /\ Limits(v)' /\ Whole(v)'
    BY <1>0, <2>1, <2>2, Framed
  <2>4. /\ caller'[v] = caller[v]
           \/ /\ caller[v] \in {"wait", "flush"} /\ caller'[v] \in {"flush", "back"}
              /\ caller'[v] = "back" /\ finish[v] = "clean" => writer[v] \in {"done", "broken"}
              /\ caller[v] = "wait" => finish[v] # "no"
    BY <1>0
    DEF ViewerQuits, CallerDone, CallerReturns, DispatchEnds, SourceStops, StopDemux, demuxVars,
        runVars, subVars, streamVars, viewerVars
  <2>5. Phases(v)'
    BY <1>0, <1>1, <2>1, <2>4 DEF Viewer, Phases
  <2> QED
    BY <2>3, <2>5 DEF Viewer
<1> QED
  BY <1>0, <1>2, <1>3 DEF DemuxInv

\* Packets are numbers.
LEMMA GivenNat ==
  ASSUME DemuxTypeOK, NEW v \in Watchers
  PROVE  Given(v) \subseteq Nat
<1>1. ASSUME NEW s \in Seq(Packets) PROVE Range(s) \subseteq Nat
  <2>1. ASSUME NEW x \in Range(s) PROVE x \in Nat
    <3>1. PICK i \in DOMAIN s : x = s[i]
      BY DEF Range
    <3>2. x \in Packets
      BY <3>1
    <3> QED
      BY <3>2 DEF Packets
  <2> QED
    BY <2>1
<1>2. sent[v] \in Seq(Packets) /\ batch[v] \in Seq(Packets) /\ buffer[v] \in Seq(Packets)
  BY DEF DemuxTypeOK
<1> QED
  BY <1>1, <1>2 DEF Given

\* A packet arrives: from now on every subscriber waits for it.
LEMMA NextPacketStep ==
  ASSUME DemuxInv, NextPacket
  PROVE  DemuxInv'
<1>0. /\ DemuxTypeOK /\ IsInjective(order) /\ \A v \in Watchers : Viewer(v)
      /\ run = "read" /\ run' = "walk" /\ packet' = packet + 1 /\ step' = 1
      /\ packet < MaxPackets /\ packet \in Nat /\ patReady' \in {patReady, TRUE}
      /\ UNCHANGED <<demuxStopped, sourceCanceled, order, finish, buffer, writer, batch, sent,
                     caller, quit, since>>
      /\ since \in [Watchers -> 0 .. MaxPackets]
  <2>1. packet \in Nat /\ since \in [Watchers -> 0 .. MaxPackets]
    BY DemuxConstants DEF DemuxInv, DemuxTypeOK
  <2> QED
    BY <2>1 DEF DemuxInv, NextPacket, subVars, streamVars, viewerVars
<1>1. DemuxTypeOK'
  <2>1. packet + 1 \in 0..MaxPackets
    BY <1>0, DemuxConstants
  <2>2. patReady' \in BOOLEAN /\ 1 \in Nat \ {0}
    <3>1. patReady \in BOOLEAN /\ patReady' \in {patReady, TRUE}
      BY <1>0 DEF DemuxTypeOK
    <3>2. patReady' \in BOOLEAN
      BY <3>1, Zenon
    <3> QED
      BY <3>2
  <2> QED
    BY <1>0, <2>1, <2>2 DEF DemuxTypeOK
<1>2. ASSUME NEW v \in Watchers PROVE Viewer(v)'
  <2>1. /\ Reached(v) = packet /\ (Subscribed(v)' <=> Subscribed(v)) /\ Given(v)' = Given(v)
        /\ (Pending(v)' <=> Subscribed(v))
    <3>1. Reached(v) = packet
      BY <1>0, NoWalk
    <3>2. (Subscribed(v)' <=> Subscribed(v)) /\ Given(v)' = Given(v)
      BY <1>0 DEF Subscribed, Given
    <3>3. DOMAIN order = 1..Len(order)
      BY <1>0 DEF DemuxTypeOK
    <3>4. Pending(v)' <=> Subscribed(v)
      BY <1>0, <3>3 DEF Pending, Subscribed, Range
    <3> QED
      BY <3>1, <3>2, <3>4
  <2>2. /\ Subscribed(v) => Reached(v)' = packet
        /\ ~Subscribed(v) => Reached(v)' = packet + 1
    BY <1>0, <2>1 DEF Reached
  <2>3. InOrder(v)'
    BY <1>0 DEF Viewer, InOrder
  <2>4. Limits(v)'
    <3>1. Given(v) \subseteq Nat
      BY <1>0, GivenNat
    <3>2. since[v] \in Nat /\ since[v] <= packet /\ \A x \in Given(v) : x <= packet
      BY <1>0, <2>1 DEF Viewer, Limits
    <3>3. \A x \in Given(v) : x <= packet + 1
      BY <1>0, <3>1, <3>2
    <3>4. since[v] <= packet + 1 /\ since[v] < packet + 1
      BY <1>0, <3>2
    <3> QED
      BY <1>0, <2>1, <2>2, <3>2, <3>3, <3>4 DEF Limits
  <2>5. Phases(v)'
    BY <1>0, <2>1 DEF Viewer, Phases
  <2>6. finish[v] # "clean"
    BY <1>0 DEF Viewer, Phases
  <2>7. Whole(v)'
    BY <1>0, <2>1, <2>2, <2>6 DEF Viewer, Whole
  <2> QED
    BY <2>3, <2>4, <2>5, <2>7 DEF Viewer
<1> QED
  BY <1>0, <1>1, <1>2 DEF DemuxInv

\* dispatch gives the packet to the subscriber at hand, or passes it by.
LEMMA DispatchSendsStep ==
  ASSUME DemuxInv, DispatchSends
  PROVE  DemuxInv'
<1>0. /\ DemuxTypeOK /\ IsInjective(order) /\ \A v \in Watchers : Viewer(v)
      /\ run = "walk" /\ step' = step + 1 /\ step \in Nat \ {0} /\ step <= Len(order)
      /\ UNCHANGED <<run, packet, patReady, demuxStopped, sourceCanceled, order, finish, writer,
                     batch, sent, caller, quit, since>>
      /\ buffer \in [Watchers -> Seq(Packets)] /\ batch \in [Watchers -> Seq(Packets)]
      /\ sent \in [Watchers -> Seq(Packets)]
      /\ packet \in 0 .. MaxPackets /\ since \in [Watchers -> 0 .. MaxPackets]
      /\ order \in Seq(Watchers) /\ DOMAIN order = 1..Len(order)
  BY DEF DemuxInv, DemuxTypeOK, DispatchSends, AtSubscriber, subVars, viewerVars
<1>a. step + 1 \in Nat \ {0}
  BY <1>0
<1>1. PICK u \in Watchers : u = order[step]
  BY <1>0
<1>2. step \in DOMAIN order /\ Subscribed(u) /\ Pending(u)
  <2>1. step \in DOMAIN order /\ step >= step
    BY <1>0
  <2> QED
    BY <1>0, <1>1, <2>1 DEF Subscribed, Range, Pending
<1>3. IF packet \in Wanted[u]
      THEN /\ Len(buffer[u]) < BufferSize
           /\ buffer' = [buffer EXCEPT ![u] = Append(@, packet)]
      ELSE UNCHANGED buffer
  BY <1>1 DEF DispatchSends, AtHand
<1>4. \A i \in DOMAIN order : order[i] = u => i = step
  BY <1>0, <1>1, <1>2 DEF IsInjective
<1>5. ~Pending(u)' /\ \A v \in Watchers : v # u => (Pending(v)' <=> Pending(v))
  <2>1. ~Pending(u)'
    BY <1>0, <1>4 DEF Pending
  <2>2. ASSUME NEW v \in Watchers, v # u PROVE Pending(v)' <=> Pending(v)
    <3>1. \A i \in DOMAIN order : order[i] = v => (i >= step <=> i >= step + 1)
      <4> SUFFICES ASSUME NEW i \in DOMAIN order, order[i] = v
                   PROVE  i >= step <=> i >= step + 1
        OBVIOUS
      <4>1. i # step /\ i \in Nat /\ step \in Nat
        <5>1. i # step
          BY <1>1, <2>2
        <5>2. i \in 1..Len(order)
          BY <1>0
        <5> QED
          BY <1>0, <5>1, <5>2
      <4> QED
        BY <4>1
    <3> QED
      BY <1>0, <3>1 DEF Pending
  <2> QED
    BY <2>1, <2>2
<1>6. packet \in Nat /\ Wanted[u] \subseteq Packets /\ BufferSize \in Nat
  BY <1>0, DemuxConstants
<1>7. \A v \in Watchers : Subscribed(v)' <=> Subscribed(v)
  BY <1>0 DEF Subscribed
<1>8. /\ InOrder(u) /\ Limits(u) /\ Phases(u) /\ Whole(u) /\ Reached(u) = packet - 1
      /\ Reached(u)' = packet
  BY <1>0, <1>2, <1>5 DEF Viewer, Reached
<1>9. Given(u) \subseteq Nat /\ \A x \in Given(u) : x < packet
  <2>1. Given(u) \subseteq Nat
    BY <1>0, GivenNat
  <2>2. \A x \in Given(u) : x <= packet - 1
    BY <1>8 DEF Limits
  <2> QED
    BY <1>6, <2>1, <2>2
<1>10. Phases(u)'
  BY <1>0, <1>2, <1>7, <1>8 DEF Phases
<1>11. ASSUME NEW v \in Watchers, v # u PROVE Viewer(v)'
  <2>1. buffer'[v] = buffer[v]
    BY <1>0, <1>3, <1>11
  <2>2. InOrder(v)' /\ Limits(v)' /\ Whole(v)'
    BY <1>0, <1>5, <1>7, <1>11, <2>1, Framed
  <2>3. Phases(v)'
    BY <1>0, <1>7, <2>1 DEF Viewer, Phases
  <2> QED
    BY <2>2, <2>3 DEF Viewer
<1>12. CASE packet \in Wanted[u]
  <2>1. buffer'[u] = Append(buffer[u], packet) /\ packet \in Packets
    BY <1>0, <1>3, <1>6, <1>12
  <2>2. Range(buffer'[u]) = Range(buffer[u]) \cup {packet}
    BY <1>0, <2>1, AppendRange
  <2>3. DemuxTypeOK'
    <3>1. buffer' \in [Watchers -> Seq(Packets)]
      <4>1. Append(buffer[u], packet) \in Seq(Packets)
        BY <1>0, <2>1
      <4> QED
        BY <1>0, <1>3, <1>12, <4>1
    <3>2. ASSUME NEW v \in Watchers PROVE Len(buffer'[v]) <= BufferSize
      <4>1. CASE v = u
        <5>1. Len(buffer'[u]) = Len(buffer[u]) + 1 /\ Len(buffer[u]) \in Nat
          BY <1>0, <2>1
        <5> QED
          BY <1>3, <1>6, <1>12, <4>1, <5>1
      <4>2. CASE v # u
        BY <1>0, <1>3, <1>12, <4>2 DEF DemuxTypeOK
      <4> QED
        BY <4>1, <4>2
    <3> QED
      BY <1>0, <1>a, <3>1, <3>2 DEF DemuxTypeOK
  <2>4. Given(u)' = Given(u) \cup {packet}
    BY <1>0, <2>2 DEF Given
  <2>5. InOrder(u)'
    <3>1. Increasing(buffer[u]) /\ \A x \in Range(buffer[u]) : x < packet
      BY <1>8, <1>9 DEF InOrder, Given
    <3>2. Increasing(buffer'[u])
      BY <1>0, <2>1, <3>1, IncreasingAppend
    <3>3. Before(sent[u], buffer'[u]) /\ Before(batch[u], buffer'[u])
      BY <1>8, <1>9, <2>2 DEF InOrder, Before, Given
    <3> QED
      BY <1>0, <1>8, <3>2, <3>3 DEF InOrder
  <2>6. Limits(u)'
    <3>1. \A x \in Given(u)' : x <= packet
      BY <1>6, <1>9, <2>4
    <3> QED
      BY <1>0, <1>5, <1>8, <3>1 DEF Limits
  <2>7. Whole(u)'
    <3>1. since[u] \in Nat /\ since[u] < packet
      BY <1>0, <1>2, <1>8 DEF Limits
    <3>2. since[u] + 1 .. packet = (since[u] + 1 .. packet - 1) \cup {packet}
      BY <1>6, <3>1
    <3>3. Wanted[u] \cap (since[u] + 1 .. packet)
            = (Wanted[u] \cap (since[u] + 1 .. packet - 1)) \cup {packet}
      BY <1>12, <3>2
    <3>4. finish[u] = "no"
      BY <1>2, <1>8 DEF Phases
    <3> QED
      BY <1>0, <1>2, <1>7, <1>8, <2>4, <3>3, <3>4 DEF Whole
  <2> QED
    BY <1>0, <1>10, <1>11, <2>3, <2>5, <2>6, <2>7 DEF DemuxInv, Viewer
<1>13. CASE packet \notin Wanted[u]
  <2>1. buffer' = buffer
    BY <1>3, <1>13
  <2>2. DemuxTypeOK'
    BY <1>0, <1>a, <2>1 DEF DemuxTypeOK
  <2>3. Given(u)' = Given(u) /\ InOrder(u)'
    BY <1>0, <1>8, <2>1 DEF Given, InOrder
  <2>4. Limits(u)'
    <3>1. \A x \in Given(u)' : x <= packet
      BY <1>6, <1>9, <2>3
    <3> QED
      BY <1>0, <1>5, <1>8, <3>1 DEF Limits
  <2>5. Whole(u)'
    <3>1. since[u] \in Nat
      BY <1>0
    <3>2. \A x \in Wanted[u] : x \in (since[u] + 1 .. packet) <=> x \in (since[u] + 1 .. packet - 1)
      BY <1>6, <1>13, <3>1
    <3>3. Wanted[u] \cap (since[u] + 1 .. packet) = Wanted[u] \cap (since[u] + 1 .. packet - 1)
      BY <3>2
    <3>4. finish[u] = "no"
      BY <1>2, <1>8 DEF Phases
    <3> QED
      BY <1>0, <1>2, <1>7, <1>8, <2>3, <3>3, <3>4 DEF Whole
  <2> QED
    BY <1>0, <1>10, <1>11, <2>2, <2>3, <2>4, <2>5 DEF DemuxInv, Viewer
<1> QED
  BY <1>12, <1>13

\* dispatch finishes the subscriber at hand: the list moves up, and the index, which
\* stays, is that of the next one.
LEMMA DispatchFinishesStep ==
  ASSUME DemuxInv, DispatchFinishes
  PROVE  DemuxInv'
<1>0. /\ DemuxTypeOK /\ IsInjective(order) /\ \A v \in Watchers : Viewer(v)
      /\ run = "walk" /\ step \in Nat \ {0} /\ step <= Len(order)
      /\ UNCHANGED <<run, packet, step, patReady, buffer, writer, batch, sent, caller, quit, since>>
      /\ order \in Seq(Watchers) /\ DOMAIN order = 1..Len(order) /\ Len(order) \in Nat
  BY DEF DemuxInv, DemuxTypeOK, DispatchFinishes, AtSubscriber, runVars, streamVars, viewerVars
<1>1. PICK u \in Watchers : u = order[step]
  BY <1>0
<1>2. PICK err \in {"error", "overflow", "missing", "context"} : FinishPacketLocked(u, err)
  BY <1>1 DEF DispatchFinishes, AtHand
<1>3. step \in DOMAIN order /\ Subscribed(u)
  <2>1. step \in DOMAIN order
    BY <1>0
  <2> QED
    BY <1>1, <2>1 DEF Subscribed, Range
<1>4. /\ order' \in Seq(Watchers) /\ IsInjective(order')
      /\ Range(order') = Range(order) \ {u}
      /\ finish' \in [Watchers -> {"no", "clean", "error", "overflow", "missing", "context"}]
      /\ \A v \in Watchers : v # u => finish'[v] = finish[v]
      /\ finish'[u] = err
      /\ demuxStopped' \in BOOLEAN /\ sourceCanceled' \in BOOLEAN
      /\ order' = RemoveAt(order, step)
  BY <1>0, <1>1, <1>2, <1>3, Finishes
<1>5. /\ DOMAIN order' = 1..(Len(order) - 1)
      /\ \A k \in 1..(Len(order) - 1) :
            order'[k] = IF k < step THEN order[k] ELSE order[k + 1]
  <2>1. /\ Len(order') = Len(order) - 1
        /\ \A k \in 1..(Len(order) - 1) :
              order'[k] = IF k < step THEN order[k] ELSE order[k + 1]
    <3>1. step \in 1..Len(order) /\ order \in Seq(Watchers)
      BY <1>0, <1>3
    <3> QED
      BY <1>4, <3>1, RemoveAtProperties
  <2>2. DOMAIN order' = 1..Len(order')
    BY <1>4
  <2> QED
    BY <2>1, <2>2
<1>6. DemuxTypeOK'
  BY <1>0, <1>4 DEF DemuxTypeOK
<1>7. ASSUME NEW v \in Watchers, v # u PROVE Viewer(v)'
  <2>1. Subscribed(v)' <=> Subscribed(v)
    BY <1>4, <1>7 DEF Subscribed
  <2>2. Pending(v) => Pending(v)'
    <3> SUFFICES ASSUME NEW i \in DOMAIN order, i >= step, order[i] = v PROVE Pending(v)'
      BY DEF Pending
    <3>1. i # step
      BY <1>1, <1>7
    <3>2. i - 1 \in 1..(Len(order) - 1) /\ i - 1 >= step /\ ~(i - 1 < step) /\ (i - 1) + 1 = i
      <4>1. i \in 1..Len(order)
        BY <1>0
      <4> QED
        BY <1>0, <3>1, <4>1
    <3>3. order'[i - 1] = v
      BY <1>5, <3>2
    <3> QED
      BY <1>0, <1>5, <3>2, <3>3 DEF Pending
  <2>3. Pending(v)' => Pending(v)
    <3> SUFFICES ASSUME NEW k \in DOMAIN order', k >= step, order'[k] = v PROVE Pending(v)
      BY <1>0 DEF Pending
    <3>1. /\ k \in 1..(Len(order) - 1) /\ k + 1 \in 1..Len(order) /\ ~(k < step)
          /\ k + 1 >= step
      BY <1>0, <1>5
    <3>2. order[k + 1] = v
      BY <1>5, <3>1
    <3> QED
      BY <1>0, <3>1, <3>2 DEF Pending
  <2>4. finish'[v] = finish[v]
    BY <1>4, <1>7
  <2>5. InOrder(v)' /\ Limits(v)' /\ Whole(v)'
    BY <1>0, <2>1, <2>2, <2>3, <2>4, Framed
  <2>6. Phases(v)'
    BY <1>0, <2>1, <2>4 DEF Viewer, Phases
  <2> QED
    BY <2>5, <2>6 DEF Viewer
<1>8. Viewer(u)'
  <2>1. ~Subscribed(u)' /\ finish'[u] # "clean"
    BY <1>4 DEF Subscribed
  <2>2. Given(u)' = Given(u) /\ InOrder(u)'
    BY <1>0 DEF Viewer, Given, InOrder
  <2>3. ~Pending(u)' /\ Reached(u)' = packet
    BY <1>0, <2>1 DEF Pending, Reached, Subscribed, Range
  <2>4. Limits(u)'
    <3>1. packet \in Nat /\ Given(u) \subseteq Nat
      <4>1. packet \in 0..MaxPackets
        BY <1>0 DEF DemuxTypeOK
      <4> QED
        BY <1>0, <4>1, GivenNat, DemuxConstants
    <3>2. \A x \in Given(u) : x <= packet
      <4>1. \A x \in Given(u) : x <= Reached(u)
        BY <1>0 DEF Viewer, Limits
      <4>2. Reached(u) \in Int /\ Reached(u) <= packet
        BY <3>1 DEF Reached
      <4> QED
        BY <3>1, <4>1, <4>2
    <3> QED
      BY <1>0, <2>2, <2>3, <3>2 DEF Viewer, Limits
  <2>5. Phases(u)' /\ Whole(u)'
    BY <1>0, <1>3, <2>1 DEF Viewer, Phases, Whole
  <2> QED
    BY <2>2, <2>4, <2>5 DEF Viewer
<1> QED
  BY <1>4, <1>6, <1>7, <1>8 DEF DemuxInv

\* close finishes those who are left; a clean end leaves them all there was.
LEMMA CloseStep ==
  ASSUME DemuxInv, CloseDemuxer
  PROVE  DemuxInv'
<1>0. /\ DemuxTypeOK /\ IsInjective(order) /\ \A v \in Watchers : Viewer(v)
      /\ run \in {"close", "fail"} /\ run' = "done" /\ demuxStopped' = TRUE /\ order' = << >>
      /\ sourceCanceled' = (sourceCanceled \/ order # << >>)
      /\ finish' = [v \in Watchers |->
            IF ~Subscribed(v) THEN finish[v] ELSE IF run = "close" THEN "clean" ELSE "error"]
      /\ UNCHANGED <<packet, step, patReady, buffer, writer, batch, sent, caller, quit, since>>
  BY DEF DemuxInv, CloseDemuxer, streamVars, viewerVars
<1>1. IsInjective(order') /\ Range(order') = {}
  BY <1>0 DEF IsInjective, Range
<1>2. DemuxTypeOK'
  <2>1. sourceCanceled' \in BOOLEAN
    BY <1>0 DEF DemuxTypeOK
  <2>2. finish' \in [Watchers -> {"no", "clean", "error", "overflow", "missing", "context"}]
    BY <1>0 DEF DemuxTypeOK
  <2>3. order' \in Seq(Watchers)
    BY <1>0
  <2> QED
    BY <1>0, <2>1, <2>2, <2>3 DEF DemuxTypeOK
<1>3. ASSUME NEW v \in Watchers PROVE Viewer(v)'
  <2>1. /\ ~Pending(v) /\ ~Pending(v)' /\ Reached(v) = packet /\ Reached(v)' = packet
        /\ ~Subscribed(v)'
    BY <1>0, <1>1, NoWalk DEF Subscribed
  <2>2. Given(v)' = Given(v) /\ InOrder(v)'
    BY <1>0 DEF Viewer, Given, InOrder
  <2>3. Limits(v)'
    BY <1>0, <2>1, <2>2 DEF Viewer, Limits
  <2>4. finish'[v] = IF ~Subscribed(v) THEN finish[v]
                     ELSE IF run = "close" THEN "clean" ELSE "error"
    BY <1>0
  <2>5. Phases(v)'
    BY <1>0, <2>1, <2>4 DEF Viewer, Phases
  <2>6. Whole(v)'
    BY <1>0, <2>1, <2>2, <2>4 DEF Viewer, Whole
  <2> QED
    BY <2>2, <2>3, <2>5, <2>6 DEF Viewer
<1> QED
  BY <1>1, <1>2, <1>3 DEF DemuxInv

\* The writer takes a batch from the head of the queue, or ends with a closed queue.
LEMMA WriterReceivesStep ==
  ASSUME DemuxInv, NEW u \in Watchers, WriterReceives(u)
  PROVE  DemuxInv'
<1>0. /\ DemuxTypeOK /\ IsInjective(order) /\ \A v \in Watchers : Viewer(v)
      /\ writer[u] = "receive"
      /\ UNCHANGED <<run, packet, step, patReady, demuxStopped, sourceCanceled, order, finish,
                     sent, caller, quit, since>>
      /\ buffer \in [Watchers -> Seq(Packets)] /\ batch \in [Watchers -> Seq(Packets)]
      /\ writer \in [Watchers -> {"off", "receive", "write", "failed", "broken", "done"}]
  BY DEF DemuxInv, DemuxTypeOK, WriterReceives, runVars, subVars, viewerVars
<1>1. \A v \in Watchers : /\ Subscribed(v)' <=> Subscribed(v)
                          /\ Pending(v)' <=> Pending(v)
                          /\ Reached(v)' = Reached(v)
  BY <1>0 DEF Subscribed, Pending, Reached
<1>2. ASSUME NEW n \in 1 .. Len(buffer[u]),
             batch' = [batch EXCEPT ![u] = SubSeq(buffer[u], 1, n)],
             buffer' = [buffer EXCEPT ![u] = SubSeq(@, n + 1, Len(@))],
             writer' = [writer EXCEPT ![u] = "write"]
      PROVE  DemuxInv'
  <2>1. /\ batch'[u] = SubSeq(buffer[u], 1, n)
        /\ buffer'[u] = SubSeq(buffer[u], n + 1, Len(buffer[u]))
        /\ writer'[u] = "write" /\ sent'[u] = sent[u]
    BY <1>0, <1>2
  <2>2. /\ InOrder(u) /\ Limits(u) /\ Phases(u) /\ Whole(u) /\ batch[u] = << >>
        /\ buffer[u] \in Seq(Packets)
    BY <1>0 DEF Viewer, Phases
  <2>3. /\ batch'[u] \in Seq(Packets) /\ buffer'[u] \in Seq(Packets)
        /\ Len(buffer'[u]) <= Len(buffer[u])
        /\ Range(batch'[u]) \cup Range(buffer'[u]) = Range(buffer[u])
        /\ Increasing(batch'[u]) /\ Increasing(buffer'[u]) /\ Before(batch'[u], buffer'[u])
    BY <1>2, <2>1, <2>2, IncreasingSplit DEF InOrder
  <2>4. DemuxTypeOK'
    <3>1. batch' \in [Watchers -> Seq(Packets)] /\ buffer' \in [Watchers -> Seq(Packets)]
      BY <1>0, <1>2, <2>1, <2>3
    <3>2. writer' \in [Watchers -> {"off", "receive", "write", "failed", "broken", "done"}]
      BY <1>0, <1>2
    <3>3. ASSUME NEW v \in Watchers PROVE Len(buffer'[v]) <= BufferSize
      <4>1. Len(buffer[v]) \in Nat /\ Len(buffer[v]) <= BufferSize /\ BufferSize \in Nat
        BY <1>0, DemuxConstants DEF DemuxTypeOK
      <4>2. CASE v = u
        <5>1. Len(buffer'[u]) \in Nat
          BY <2>3
        <5> QED
          BY <2>3, <4>1, <4>2, <5>1
      <4>3. CASE v # u
        BY <1>0, <1>2, <4>1, <4>3
      <4> QED
        BY <4>2, <4>3
    <3> QED
      BY <1>0, <3>1, <3>2, <3>3 DEF DemuxTypeOK
  <2>5. ASSUME NEW v \in Watchers, v # u PROVE Viewer(v)'
    <3>1. batch'[v] = batch[v] /\ buffer'[v] = buffer[v] /\ writer'[v] = writer[v]
      BY <1>0, <1>2, <2>5
    <3>2. InOrder(v)' /\ Limits(v)' /\ Whole(v)'
      BY <1>0, <1>1, <3>1, Framed
    <3>3. Phases(v)'
      BY <1>0, <1>1, <3>1 DEF Viewer, Phases
    <3> QED
      BY <3>2, <3>3 DEF Viewer
  <2>6. Given(u)' = Given(u)
    BY <1>0, <2>2, <2>3, EmptyParts DEF Given
  <2>7. InOrder(u)'
    <3>1. Before(sent[u], batch'[u]) /\ Before(sent[u], buffer'[u])
      BY <2>2, <2>3 DEF InOrder, Before
    <3> QED
      BY <1>0, <2>2, <2>3, <3>1 DEF InOrder
  <2>8. Limits(u)' /\ Whole(u)'
    BY <1>0, <1>1, <2>1, <2>2, <2>6 DEF Limits, Whole
  <2>9. Phases(u)'
    BY <1>0, <1>1, <2>1, <2>2 DEF Phases
  <2> QED
    BY <1>0, <2>4, <2>5, <2>7, <2>8, <2>9 DEF DemuxInv, Viewer
<1>3. ASSUME buffer[u] = << >>, finish[u] # "no",
             writer' = [writer EXCEPT ![u] = "done"], UNCHANGED <<batch, buffer>>
      PROVE  DemuxInv'
  <2>1. DemuxTypeOK'
    BY <1>0, <1>3 DEF DemuxTypeOK
  <2>2. ASSUME NEW v \in Watchers PROVE Viewer(v)'
    <3>1. /\ v = u => writer'[v] = "done" /\ writer[v] = "receive" /\ ~Subscribed(v)'
          /\ v # u => writer'[v] = writer[v]
      <4>1. ~Subscribed(u)'
        BY <1>0, <1>1, <1>3 DEF Viewer, Phases
      <4> QED
        BY <1>0, <1>3, <4>1
    <3>2. InOrder(v)' /\ Limits(v)' /\ Whole(v)'
      <4>1. /\ DemuxTypeOK /\ Viewer(v) /\ packet' = packet /\ sent'[v] = sent[v]
            /\ batch'[v] = batch[v] /\ buffer'[v] = buffer[v] /\ since'[v] = since[v]
            /\ finish'[v] = finish[v]
            /\ (Pending(v)' <=> Pending(v)) /\ (Subscribed(v)' <=> Subscribed(v))
        BY <1>0, <1>1, <1>3
      <4>2. CASE v = u
        <5>1. /\ writer'[v] \in {"done", "broken"} /\ ~Subscribed(v)'
              /\ (writer[v] # "receive" => writer'[v] = "broken")
          BY <3>1, <4>2
        <5> QED
          BY <4>1, <5>1, Framed
      <4>3. CASE v # u
        BY <3>1, <4>1, <4>3, Framed
      <4> QED
        BY <4>2, <4>3
    <3>3. Phases(v)'
      BY <1>0, <1>1, <1>3, <3>1 DEF Viewer, Phases
    <3> QED
      BY <3>2, <3>3 DEF Viewer
  <2> QED
    BY <1>0, <2>1, <2>2 DEF DemuxInv
<1> QED
  BY <1>2, <1>3 DEF WriterReceives

\* The client takes the batch, or fails and loses it.
LEMMA WriterWritesStep ==
  ASSUME DemuxInv, NEW u \in Watchers, WriterWrites(u)
  PROVE  DemuxInv'
<1>0. /\ DemuxTypeOK /\ IsInjective(order) /\ \A v \in Watchers : Viewer(v)
      /\ writer[u] = "write" /\ batch' = [batch EXCEPT ![u] = << >>]
      /\ UNCHANGED <<run, packet, step, patReady, demuxStopped, sourceCanceled, order, finish,
                     buffer, caller, quit, since>>
      /\ sent \in [Watchers -> Seq(Packets)] /\ batch \in [Watchers -> Seq(Packets)]
      /\ writer \in [Watchers -> {"off", "receive", "write", "failed", "broken", "done"}]
  BY DEF DemuxInv, DemuxTypeOK, WriterWrites, runVars, subVars, viewerVars
<1>1. \A v \in Watchers : /\ Subscribed(v)' <=> Subscribed(v)
                          /\ Pending(v)' <=> Pending(v)
                          /\ Reached(v)' = Reached(v)
  BY <1>0 DEF Subscribed, Pending, Reached
<1>2. \/ /\ sent' = [sent EXCEPT ![u] = @ \o batch[u]]
         /\ writer' = [writer EXCEPT ![u] = "receive"]
      \/ writer' = [writer EXCEPT ![u] = "failed"] /\ UNCHANGED sent
  BY DEF WriterWrites
<1>3. /\ InOrder(u) /\ Limits(u) /\ Phases(u) /\ Whole(u)
      /\ sent[u] \in Seq(Packets) /\ batch[u] \in Seq(Packets) /\ batch'[u] = << >>
  BY <1>0 DEF Viewer
<1>4. /\ sent[u] \o batch[u] \in Seq(Packets)
      /\ Range(sent[u] \o batch[u]) = Range(sent[u]) \cup Range(batch[u])
      /\ Increasing(sent[u] \o batch[u])
  BY <1>3, IncreasingConcat DEF InOrder
<1>5. DemuxTypeOK'
  <2>1. batch' \in [Watchers -> Seq(Packets)]
    <3>1. << >> \in Seq(Packets)
      OBVIOUS
    <3> QED
      BY <1>0, <3>1
  <2>2. sent' \in [Watchers -> Seq(Packets)]
    BY <1>0, <1>2, <1>4
  <2>3. writer' \in [Watchers -> {"off", "receive", "write", "failed", "broken", "done"}]
    BY <1>0, <1>2
  <2> QED
    BY <1>0, <2>1, <2>2, <2>3 DEF DemuxTypeOK
<1>6. ASSUME NEW v \in Watchers, v # u PROVE Viewer(v)'
  <2>1. batch'[v] = batch[v] /\ sent'[v] = sent[v] /\ writer'[v] = writer[v]
    BY <1>0, <1>2, <1>6
  <2>2. InOrder(v)' /\ Limits(v)' /\ Whole(v)'
    BY <1>0, <1>1, <2>1, Framed
  <2>3. Phases(v)'
    BY <1>0, <1>1, <2>1 DEF Viewer, Phases
  <2> QED
    BY <2>2, <2>3 DEF Viewer
<1>7. CASE sent' = [sent EXCEPT ![u] = @ \o batch[u]] /\ writer' = [writer EXCEPT ![u] = "receive"]
  <2>1. sent'[u] = sent[u] \o batch[u] /\ writer'[u] = "receive"
    BY <1>0, <1>7
  <2>2. Given(u)' = Given(u)
    BY <1>0, <1>3, <1>4, <2>1, EmptyParts DEF Given
  <2>3. InOrder(u)'
    <3>1. Before(sent'[u], buffer[u])
      BY <1>3, <1>4, <2>1 DEF InOrder, Before
    <3> QED
      BY <1>0, <1>3, <1>4, <2>1, <3>1, EmptyParts DEF InOrder
  <2>4. Limits(u)' /\ Whole(u)' /\ Phases(u)'
    BY <1>0, <1>1, <1>3, <2>1, <2>2 DEF Limits, Whole, Phases
  <2> QED
    BY <1>0, <1>5, <1>6, <2>3, <2>4 DEF DemuxInv, Viewer
<1>8. CASE writer' = [writer EXCEPT ![u] = "failed"] /\ UNCHANGED sent
  <2>1. sent'[u] = sent[u] /\ writer'[u] = "failed"
    BY <1>0, <1>8
  <2>2. Given(u)' \subseteq Given(u)
    BY <1>0, <1>3, <2>1, EmptyParts DEF Given
  <2>3. InOrder(u)'
    BY <1>0, <1>3, <2>1, EmptyParts DEF InOrder
  <2>4. Limits(u)' /\ Whole(u)' /\ Phases(u)'
    BY <1>0, <1>1, <1>3, <2>1, <2>2 DEF Limits, Whole, Phases
  <2> QED
    BY <1>0, <1>5, <1>6, <2>3, <2>4 DEF DemuxInv, Viewer
<1> QED
  BY <1>2, <1>7, <1>8

\* The invariant of the demuxer holds in every state.
THEOREM DemuxInductive == DemuxSpec => []DemuxInv
<1>1. DemuxInv /\ [DemuxNext]_demuxVars => DemuxInv'
  BY AttachStep, CallerQuitsStep, WriterFailsStep, QuietStep, NextPacketStep,
     DispatchSendsStep, DispatchFinishesStep, CloseStep, WriterReceivesStep, WriterWritesStep
  DEF DemuxNext
<1> QED
  BY <1>1, DemuxStarts, PTL DEF DemuxSpec

\* Every value has its type, and no queue grows beyond packetSubscriberBuffer.
THEOREM DemuxTypes == DemuxSpec => []DemuxTypeOK
<1>1. DemuxInv => DemuxTypeOK
  BY DEF DemuxInv
<1> QED
  BY <1>1, DemuxInductive, PTL

\* A subscriber has every packet of its service since it attached, in order and once,
\* whatever dispatch, overflow, missing services, departures and a stop do to the
\* others, for any number of viewers and any buffer; and a clean return comes after the
\* last of them was written.
THEOREM StreamsAreWhole == DemuxSpec => []StreamIsWhole
<1>1. DemuxInv => StreamIsWhole
  <2> SUFFICES ASSUME DemuxInv, NEW v \in Watchers
               PROVE  /\ \A i, j \in DOMAIN Stream(v) : i < j => Stream(v)[i] < Stream(v)[j]
                      /\ Subscribed(v) /\ writer[v] # "failed" => Range(Stream(v)) = Due(v)
                      /\ caller[v] = "back" /\ finish[v] = "clean" =>
                           \/ Range(sent[v]) = Wanted[v] \cap (since[v] + 1 .. packet)
                           \/ writer[v] = "broken"
    BY DEF StreamIsWhole
  <2>1. /\ sent[v] \in Seq(Packets) /\ batch[v] \in Seq(Packets) /\ buffer[v] \in Seq(Packets)
        /\ InOrder(v) /\ Phases(v) /\ Whole(v)
    BY DEF DemuxInv, DemuxTypeOK, Viewer
  <2>2. PICK s \in Seq(Packets) : /\ s = sent[v] \o batch[v]
                                  /\ Range(s) = Range(sent[v]) \cup Range(batch[v])
                                  /\ Increasing(s)
    BY <2>1, IncreasingConcat DEF InOrder
  <2>3. Before(s, buffer[v])
    BY <2>1, <2>2 DEF InOrder, Before
  <2>4. Range(s \o buffer[v]) = Given(v) /\ Increasing(s \o buffer[v])
    <3>1. s \in Seq(Packets) /\ buffer[v] \in Seq(Packets) /\ Increasing(s)
          /\ Increasing(buffer[v]) /\ Before(s, buffer[v])
      BY <2>1, <2>2, <2>3 DEF InOrder
    <3>2. Range(s \o buffer[v]) = Range(s) \cup Range(buffer[v]) /\ Increasing(s \o buffer[v])
      BY ONLY <3>1, IncreasingConcat
    <3> QED
      BY <2>2, <3>2 DEF Given
  <2>5. Stream(v) = s \o buffer[v]
    BY <2>2 DEF Stream
  <2>6. Due(v) = Wanted[v] \cap (since[v] + 1 .. Reached(v))
    BY DEF Due, Reached, Pending
  <2>7. ASSUME caller[v] = "back", finish[v] = "clean", writer[v] # "broken"
        PROVE  Range(sent[v]) = Wanted[v] \cap (since[v] + 1 .. packet)
    <3>1. writer[v] = "done" /\ batch[v] = << >> /\ buffer[v] = << >>
      BY <2>1, <2>7 DEF Phases
    <3>2. Given(v) = Range(sent[v])
      BY <3>1, EmptyParts DEF Given
    <3> QED
      BY <2>1, <2>7, <3>1, <3>2 DEF Whole
  <2> QED
    BY <2>1, <2>4, <2>5, <2>6, <2>7 DEF Increasing, Whole
<1> QED
  BY <1>1, DemuxInductive, PTL

-----------------------------------------------------------------------------
(* SectionAssembler.                                                       *)

\* Each packet that was sent follows the one before it.
Layout ==
  /\ offsets \in Multiplexes
  /\ carried \in Seq([to : Nat, given : BOOLEAN])
  /\ \A i \in DOMAIN carried : carried[i].to \in NextEnds(EndOf(i - 1))

\* Bytes between the packets are in the middle of section n.
Within(n) == offsets[n] < Sent /\ Sent < offsets[n + 1]

Prefix(n, k) == [i \in 1 .. k |-> offsets[n] + i]

\* Nothing has happened to section n yet that would keep it from being found.
Intact(n) == (\A i \in CarriersOf(n) : carried[i].given) /\ ~HeaderSplit(n)

\* The bytes b have no second section, and never a complete one; what they have of a
\* section comes before q.
Decent(b, q) ==
  /\ b \in Seq(Nat)
  /\ \A i \in 2 .. Len(b) : ~Opens(b[i])
  /\ \A n \in 1 .. SectionCount : b # << >> /\ b[1] = offsets[n] + 1 =>
        /\ Len(b) < Length(n)
        /\ b = Prefix(n, Len(b)) => offsets[n] + Len(b) <= q

BufferOK == Decent(asmBuffer, Sent)

\* The section that is being sent is in the buffer just when nothing has happened to it.
BufferLive ==
  \A n \in 1 .. SectionCount : Within(n) =>
     (Intact(n) <=> asmBuffer = Prefix(n, Sent - offsets[n]))

CounterKnown ==
  /\ expecting <=> asmBuffer # << >>
  /\ carried # << >> /\ carried[Len(carried)].given => lastCounter = Counter(Len(carried))

FoundOK ==
  /\ assembled \in Seq(1 .. SectionCount)
  /\ Increasing(assembled)
  /\ Range(assembled) = {n \in 1 .. SectionCount : offsets[n + 1] <= Sent /\ Intact(n)}

AsmInv ==
  Layout /\ repeats \in Nat /\ (repeats = 0 => BufferOK /\ BufferLive /\ CounterKnown /\ FoundOK)

-----------------------------------------------------------------------------
(* Places of the multiplex.                                                *)

LEMMA OffsetsGrow ==
  ASSUME offsets \in Multiplexes
  PROVE  /\ SectionCount \in Nat /\ offsets[1] = 0
         /\ \A n \in 1 .. SectionCount + 1 : offsets[n] \in Nat
         /\ \A n \in 1 .. SectionCount : Length(n) \in Nat /\ Length(n) > HeaderSize
                                         /\ offsets[n + 1] = offsets[n] + Length(n)
         /\ \A m, n \in 1 .. SectionCount + 1 : m < n => offsets[m] + HeaderSize < offsets[n]
<1>1. SectionCount \in Nat /\ offsets[1] = 0 /\ \A n \in 1 .. SectionCount + 1 : offsets[n] \in Nat
  BY AssemblerConstants DEF Multiplexes
<1>2. ASSUME NEW n \in 1 .. SectionCount
      PROVE  Length(n) \in Nat /\ Length(n) > HeaderSize /\ offsets[n + 1] = offsets[n] + Length(n)
  <2>1. Length(n) \in Lengths
    BY DEF Multiplexes, Length
  <2>2. Length(n) \in Nat /\ Length(n) > HeaderSize
    BY <2>1, AssemblerConstants
  <2>3. n \in 1 .. SectionCount + 1 /\ n + 1 \in 1 .. SectionCount + 1
    BY <1>1
  <2> QED
    BY <1>1, <2>2, <2>3 DEF Length
<1>3. ASSUME NEW m \in 1 .. SectionCount + 1, NEW k \in 1 .. SectionCount + 1, m < k
      PROVE  offsets[m] + HeaderSize < offsets[k]
  <2> DEFINE T == {n \in m + 1 .. SectionCount + 1 : ~(offsets[m] + HeaderSize < offsets[n])}
  <2> SUFFICES ASSUME T # {} PROVE FALSE
    BY <1>1, <1>3
  <2>1. PICK x \in T : \A y \in T : x <= y
    <3>1. T \subseteq Nat /\ T # {}
      BY <1>1
    <3> HIDE DEF T
    <3> QED
      BY <3>1, LeastNatural
  <2>2. x - 1 \in 1 .. SectionCount /\ x - 1 \in m .. SectionCount + 1 /\ x \in Nat
        /\ x - 1 + 1 = x /\ ~(x <= x - 1)
    BY <1>1, <2>1
  <2>3. offsets[x] = offsets[x - 1] + Length(x - 1) /\ Length(x - 1) > HeaderSize /\ Length(x - 1) \in Nat
    BY <1>2, <2>2
  <2>4. offsets[x - 1] \in Nat /\ offsets[x] \in Nat /\ offsets[m] \in Nat
    BY <1>1, <2>2
  <2>5. CASE x - 1 = m
    BY <2>1, <2>3, <2>4, <2>5 DEF HeaderSize
  <2>6. CASE x - 1 # m
    <3>1. x - 1 \in m + 1 .. SectionCount + 1 /\ x - 1 \notin T
      BY <1>1, <2>1, <2>2, <2>6
    <3>2. offsets[m] + HeaderSize < offsets[x - 1]
      BY <3>1
    <3> QED
      BY <2>1, <2>3, <2>4, <3>2 DEF HeaderSize
  <2> QED
    BY <2>5, <2>6
<1> QED
  BY <1>1, <1>2, <1>3

LEMMA SectionsBegin ==
  ASSUME offsets \in Multiplexes, NEW n \in 1 .. SectionCount
  PROVE  Opens(offsets[n] + 1) /\ SectionAt(offsets[n] + 1) = n
<1>1. \A m \in 1 .. SectionCount : offsets[m] + 1 = offsets[n] + 1 => m = n
  <2>1. SUFFICES ASSUME NEW m \in 1 .. SectionCount, offsets[m] + 1 = offsets[n] + 1, m # n
                 PROVE  FALSE
    OBVIOUS
  <2>2. SectionCount \in Nat
    BY OffsetsGrow
  <2>3. m \in 1 .. SectionCount + 1 /\ n \in 1 .. SectionCount + 1 /\ (m < n \/ n < m)
    BY <2>1, <2>2
  <2>4. offsets[m] \in Nat /\ offsets[n] \in Nat
    BY <2>3, OffsetsGrow
  <2>5. offsets[m] + HeaderSize < offsets[n] \/ offsets[n] + HeaderSize < offsets[m]
    BY <2>3, OffsetsGrow
  <2> QED
    BY <2>1, <2>4, <2>5 DEF HeaderSize
<1> QED
  BY <1>1 DEF Opens, SectionAt

LEMMA BeginsWhere ==
  ASSUME offsets \in Multiplexes, NEW p, Opens(p)
  PROVE  \E n \in 1 .. SectionCount : p = offsets[n] + 1 /\ SectionAt(p) = n
BY SectionsBegin DEF Opens

\* Every place before the end is in one section.
LEMMA PlaceInSection ==
  ASSUME offsets \in Multiplexes, NEW p \in Nat, p < offsets[SectionCount + 1]
  PROVE  \E n \in 1 .. SectionCount : offsets[n] <= p /\ p < offsets[n + 1]
<1> DEFINE T == {n \in 1 .. SectionCount + 1 : p < offsets[n]}
<1>0. SectionCount \in Nat /\ offsets[1] = 0 /\ \A n \in 1 .. SectionCount + 1 : offsets[n] \in Nat
  BY OffsetsGrow
<1>1. PICK x \in T : \A y \in T : x <= y
  <2>1. T \subseteq Nat /\ T # {}
    BY <1>0
  <2> HIDE DEF T
  <2> QED
    BY <2>1, LeastNatural
<1>2. x # 1
  BY <1>0, <1>1
<1>3. x - 1 \in 1 .. SectionCount /\ x - 1 \in 1 .. SectionCount + 1 /\ x - 1 + 1 = x /\ ~(x <= x - 1)
  BY <1>0, <1>1, <1>2
<1>4. x - 1 \notin T
  BY <1>1, <1>3
<1>5. offsets[x - 1] <= p
  BY <1>0, <1>3, <1>4
<1> QED
  BY <1>1, <1>3, <1>5

-----------------------------------------------------------------------------
(* The loop over the sections that bytes begin with.                       *)

Takes == [found : Seq(1 .. SectionCount), left : Seq(Nat)]

\* The loop stops here.
Stuck(s) == Len(s.left) < HeaderSize \/ Len(s.left) < TotalLength(s.left)

Taken(s, n) ==
  [found |-> IF SubSeq(s.left, 1, Length(n)) = Section(n) THEN Append(s.found, n) ELSE s.found,
   left |-> SubSeq(s.left, Length(n) + 1, Len(s.left))]

LEMMA TakeOneTakes ==
  ASSUME offsets \in Multiplexes, NEW s \in Takes, ~Stuck(s)
  PROVE  \E n \in 1 .. SectionCount :
            /\ s.left[1] = offsets[n] + 1 /\ Length(n) <= Len(s.left)
            /\ TakeOne(s) = Taken(s, n)
            /\ TakeOne(s) \in Takes /\ Len(TakeOne(s).left) = Len(s.left) - Length(n)
<1>1. s.left \in Seq(Nat) /\ s.found \in Seq(1 .. SectionCount) /\ Len(s.left) \in Nat
  BY DEF Takes
<1>2. Len(s.left) >= HeaderSize
  BY <1>1 DEF Stuck, HeaderSize
<1>3. Opens(s.left[1])
  <2>1. SUFFICES ASSUME ~Opens(s.left[1]) PROVE FALSE
    OBVIOUS
  <2>2. TotalLength(s.left) = Len(s.left) + 1
    BY <2>1 DEF TotalLength
  <2> QED
    BY <1>1, <2>2 DEF Stuck
<1>4. PICK n \in 1 .. SectionCount : s.left[1] = offsets[n] + 1 /\ SectionAt(s.left[1]) = n
  BY <1>3, BeginsWhere
<1>5. TotalLength(s.left) = Length(n) /\ Length(n) \in Nat /\ Length(n) > HeaderSize
  BY <1>3, <1>4, OffsetsGrow DEF TotalLength
<1>6. Length(n) <= Len(s.left) /\ ~(Len(s.left) < HeaderSize) /\ ~(Len(s.left) < Length(n))
  BY <1>1, <1>2, <1>5 DEF Stuck, HeaderSize
<1> DEFINE first == SubSeq(s.left, 1, Length(n))
<1>7. first[1] = s.left[1]
  BY <1>1, <1>5, <1>6 DEF HeaderSize
<1>8. ValidateCRC(first) <=> first = Section(n)
  BY <1>4, <1>7 DEF ValidateCRC
<1>9. TakeOne(s) = Taken(s, n)
  <2> HIDE DEF first
  <2>1. TakeOne(s) = [found |-> IF ValidateCRC(first) THEN Append(s.found, SectionAt(first[1])) ELSE s.found,
                      left |-> SubSeq(s.left, Length(n) + 1, Len(s.left))]
    BY <1>5, <1>6 DEF TakeOne, first
  <2>2. TakeOne(s) = [found |-> IF first = Section(n) THEN Append(s.found, n) ELSE s.found,
                      left |-> SubSeq(s.left, Length(n) + 1, Len(s.left))]
    BY <2>1, <1>4, <1>7, <1>8
  <2> QED
    BY <2>2 DEF Taken, first
<1>10. /\ SubSeq(s.left, Length(n) + 1, Len(s.left)) \in Seq(Nat)
       /\ Len(SubSeq(s.left, Length(n) + 1, Len(s.left))) = Len(s.left) - Length(n)
  <2>1. PICK k : k = Length(n)
    OBVIOUS
  <2>2. k \in Nat /\ k > 0 /\ k <= Len(s.left)
    BY <1>5, <1>6, <2>1 DEF HeaderSize
  <2>3. SubSeq(s.left, k + 1, Len(s.left)) \in Seq(Nat)
    BY <1>1, <2>2
  <2>4. Len(SubSeq(s.left, k + 1, Len(s.left))) = Len(s.left) - k
    BY <1>1, <2>2
  <2> QED
    BY <2>1, <2>3, <2>4
<1>11. Append(s.found, n) \in Seq(1 .. SectionCount)
  BY <1>1
<1>12. Taken(s, n) \in Takes /\ Taken(s, n).left = SubSeq(s.left, Length(n) + 1, Len(s.left))
  BY <1>1, <1>10, <1>11 DEF Taken, Takes
<1> QED
  BY <1>4, <1>6, <1>9, <1>10, <1>12

LEMMA StuckStays ==
  ASSUME NEW s, Stuck(s)
  PROVE  TakeOne(s) = s
BY DEF Stuck, TakeOne

\* What the rounds keep holds at the end, and the loop does not end early.
LEMMA TakeSectionsEnds ==
  ASSUME offsets \in Multiplexes, NEW cells, cells \in Seq(Nat), NEW I, I \subseteq Takes,
         [found |-> << >>, left |-> cells] \in I,
         \A s \in I : ~Stuck(s) => TakeOne(s) \in I
  PROVE  TakeSections(cells) \in I /\ Stuck(TakeSections(cells))
<1> DEFINE N == Len(cells)
           base == [found |-> << >>, left |-> cells]
           taking == [n \in 1 .. N |-> [s \in I |-> TakeOne(s)]]
           F[n \in 0 .. N] == IF n = 0 THEN base ELSE TakeOne(F[n - 1])
<1>1. N \in Nat /\ base \in I
  OBVIOUS
<1>2. \A s \in I : TakeOne(s) \in I
  BY StuckStays
<1>3. taking \in [1 .. N -> [I -> I]]
  BY <1>2
<1>4. PICK f \in [0 .. N -> I] : f[0] = base /\ \A n \in 1 .. N : f[n] = taking[n][f[n - 1]]
  <2>1. PICK a, b, g, m : a = base /\ b = I /\ g = taking /\ m = N
    OBVIOUS
  <2> HIDE DEF N, base, taking, F
  <2>2. m \in Nat /\ a \in b /\ g \in [1 .. m -> [b -> b]]
    BY <1>1, <1>3, <2>1
  <2>3. \E f \in [0 .. m -> b] : f[0] = a /\ \A n \in 1 .. m : f[n] = g[n][f[n - 1]]
    BY ONLY <2>2, RoundsExist
  <2> QED
    BY <2>1, <2>3
<1>5. \A n \in 1 .. N : n - 1 \in 0 .. N /\ f[n - 1] \in I /\ f[n] = TakeOne(f[n - 1])
  <2>1. \A n \in 1 .. N : n - 1 \in 0 .. N
    BY <1>1
  <2> QED
    BY <1>4, <2>1
<1>6. F = CHOOSE g : g = [n \in 0 .. N |-> IF n = 0 THEN base ELSE TakeOne(g[n - 1])]
  OBVIOUS
<1>7. TakeSections(cells) = F[N]
  BY DEF TakeSections
<1> HIDE DEF F
<1>8. f = [n \in 0 .. N |-> IF n = 0 THEN base ELSE TakeOne(f[n - 1])]
  <2>1. \A n \in 0 .. N : n = 0 \/ n \in 1 .. N
    BY <1>1
  <2> HIDE DEF N, base, taking
  <2> QED
    BY <1>4, <1>5, <2>1
<1>9. F = [n \in 0 .. N |-> IF n = 0 THEN base ELSE TakeOne(F[n - 1])]
  <2> HIDE DEF N, base, taking
  <2> QED
    BY <1>6, <1>8
<1>10. F[0] = base /\ \A n \in 1 .. N : F[n] = TakeOne(F[n - 1])
  <2>1. 0 \in 0 .. N /\ \A n \in 1 .. N : n \in 0 .. N /\ n # 0
    BY <1>1
  <2> HIDE DEF N, base, taking
  <2> QED
    BY <1>9, <2>1
<1> DEFINE S == [n \in 0 .. N |-> {s \in I : Stuck(s) \/ Len(s.left) <= N - n}]
<1>11. F[0] \in S[0]
  <2>1. 0 \in 0 .. N /\ Len(base.left) <= N - 0
    BY <1>1
  <2> HIDE DEF N, base
  <2> QED
    BY <1>1, <1>10, <2>1
<1>12. ASSUME NEW n \in 1 .. N, F[n - 1] \in S[n - 1]
       PROVE  F[n] \in S[n]
  <2>1. n \in 0 .. N /\ n - 1 \in 0 .. N
    BY <1>1
  <2>2. F[n - 1] \in I /\ (Stuck(F[n - 1]) \/ Len(F[n - 1].left) <= N - (n - 1))
    BY <1>12, <2>1
  <2>3. F[n] = TakeOne(F[n - 1]) /\ F[n] \in I
    BY <1>2, <1>10, <2>2
  <2>4. CASE Stuck(F[n - 1])
    BY <2>1, <2>2, <2>3, <2>4, StuckStays
  <2>5. CASE ~Stuck(F[n - 1])
    <3>1. F[n - 1] \in Takes
      BY <2>2
    <3>2. PICK k \in 1 .. SectionCount : Len(F[n].left) = Len(F[n - 1].left) - Length(k)
      BY <2>3, <2>5, <3>1, TakeOneTakes
    <3>3. Length(k) \in Nat /\ Length(k) > 0
      BY OffsetsGrow DEF HeaderSize
    <3>4. PICK x : x = F[n - 1].left
      OBVIOUS
    <3>5. Len(x) \in Nat
      BY <3>1, <3>4 DEF Takes
    <3>6. n \in Nat /\ Len(x) <= N - (n - 1)
      BY <1>1, <2>2, <2>5, <3>4
    <3>7. PICK l, k1 \in Nat : l = Len(x) /\ k1 = Length(k)
      BY <3>3, <3>5
    <3>8. l - k1 <= N - n
      BY <1>1, <3>3, <3>6, <3>7
    <3>9. Len(F[n].left) <= N - n
      BY <3>2, <3>4, <3>7, <3>8
    <3> QED
      BY <2>1, <2>3, <3>9
  <2> QED
    BY <2>4, <2>5
<1>13. F[N] \in S[N]
  <2>1. \A n \in 0 .. N : F[n] \in S[n]
    <3> HIDE DEF S, N
    <3> QED
      BY ONLY <1>1, <1>11, <1>12, RoundsReach
  <2> QED
    BY <1>1, <2>1
<1>14. F[N] \in I /\ (Stuck(F[N]) \/ Len(F[N].left) <= 0)
  <2>1. N \in 0 .. N /\ N - N = 0
    BY <1>1
  <2> HIDE DEF N
  <2> QED
    BY <1>13, <2>1
<1>15. Len(F[N].left) <= 0 => Stuck(F[N])
  <2>1. F[N] \in Takes
    BY <1>14
  <2>2. Len(F[N].left) \in Nat
    BY <2>1 DEF Takes
  <2> QED
    BY <2>2 DEF Stuck, HeaderSize
<1> QED
  BY <1>7, <1>14, <1>15

-----------------------------------------------------------------------------
(* Packets.                                                                *)

\* Bytes of the multiplex behind from, with stuffing behind to.
Run(from, to, m) == [i \in 1 .. m |-> IF from + i <= to THEN from + i ELSE Stuffing]

LEMMA RunIs ==
  ASSUME NEW from \in Nat, NEW to \in Nat, NEW m \in Nat
  PROVE  /\ Run(from, to, m) \in Seq(Nat) /\ Len(Run(from, to, m)) = m
         /\ \A i \in 1 .. m : Run(from, to, m)[i] = IF from + i <= to THEN from + i ELSE Stuffing
<1>1. \A i \in 1 .. m : (IF from + i <= to THEN from + i ELSE Stuffing) \in Nat
  BY DEF Stuffing
<1>2. Run(from, to, m) \in [1 .. m -> Nat]
  BY <1>1 DEF Run
<1> QED
  BY <1>2 DEF Run

LEMMA RunCut ==
  ASSUME NEW from \in Nat, NEW to \in Nat, NEW m \in Nat, NEW k \in 0 .. m
  PROVE  /\ SubSeq(Run(from, to, m), k + 1, m) = Run(from + k, to, m - k)
         /\ SubSeq(Run(from, to, m), 1, k) = Run(from, to, k)
<1>1. PICK r : r = Run(from, to, m)
  OBVIOUS
<1>2. /\ r \in Seq(Nat) /\ Len(r) = m
      /\ \A i \in 1 .. m : r[i] = IF from + i <= to THEN from + i ELSE Stuffing
  BY <1>1, RunIs
<1>3. SubSeq(r, k + 1, m) = Run(from + k, to, m - k)
  <2>1. /\ SubSeq(r, k + 1, m) = [i \in 1 .. m - k |-> r[k + i]]
    BY <1>2
  <2>2. ASSUME NEW i \in 1 .. m - k
        PROVE  r[k + i] = IF from + k + i <= to THEN from + k + i ELSE Stuffing
    BY <1>2
  <2>3. [i \in 1 .. m - k |-> r[k + i]]
          = [i \in 1 .. m - k |-> IF from + k + i <= to THEN from + k + i ELSE Stuffing]
    BY <2>2
  <2> QED
    BY <2>1, <2>3 DEF Run
<1>4. SubSeq(r, 1, k) = Run(from, to, k)
  <2>1. SubSeq(r, 1, k) = [i \in 1 .. k |-> r[i]]
    BY <1>2
  <2>2. ASSUME NEW i \in 1 .. k
        PROVE  r[i] = IF from + i <= to THEN from + i ELSE Stuffing
    BY <1>2
  <2>3. [i \in 1 .. k |-> r[i]] = [i \in 1 .. k |-> IF from + i <= to THEN from + i ELSE Stuffing]
    BY <2>2
  <2> QED
    BY <2>1, <2>3 DEF Run
<1> QED
  BY <1>1, <1>3, <1>4

\* No section begins or ends in the middle of one.
LEMMA MiddleOfSection ==
  ASSUME offsets \in Multiplexes, NEW c \in 1 .. SectionCount,
         NEW n \in 1 .. SectionCount + 1
  PROVE  offsets[n] <= offsets[c] \/ offsets[c + 1] <= offsets[n]
<1>1. SectionCount \in Nat /\ \A k \in 1 .. SectionCount + 1 : offsets[k] \in Nat
  BY OffsetsGrow
<1>2. c \in 1 .. SectionCount + 1 /\ c + 1 \in 1 .. SectionCount + 1
      /\ (n < c \/ n = c \/ n = c + 1 \/ c + 1 < n)
  BY <1>1
<1>3. n < c => offsets[n] + HeaderSize < offsets[c]
  BY <1>2, OffsetsGrow
<1>4. c + 1 < n => offsets[c + 1] + HeaderSize < offsets[n]
  BY <1>2, OffsetsGrow
<1>5. offsets[n] \in Nat /\ offsets[c] \in Nat /\ offsets[c + 1] \in Nat
  BY <1>1, <1>2
<1> QED
  BY <1>2, <1>3, <1>4, <1>5 DEF HeaderSize

LEMMA OneSection ==
  ASSUME offsets \in Multiplexes, NEW c \in 1 .. SectionCount, NEW n \in 1 .. SectionCount,
         NEW p \in Nat, offsets[c] < p, p < offsets[c + 1], offsets[n] <= p, p < offsets[n + 1]
  PROVE  n = c
<1>1. SectionCount \in Nat /\ \A k \in 1 .. SectionCount + 1 : offsets[k] \in Nat
  BY OffsetsGrow
<1>2. /\ c \in 1 .. SectionCount + 1 /\ n \in 1 .. SectionCount + 1
      /\ c + 1 \in 1 .. SectionCount + 1 /\ n + 1 \in 1 .. SectionCount + 1
  BY <1>1
<1>3. /\ offsets[n] <= offsets[c] \/ offsets[c + 1] <= offsets[n]
      /\ offsets[c] <= offsets[n] \/ offsets[n + 1] <= offsets[c]
  BY <1>2, MiddleOfSection
<1>4. /\ offsets[n] \in Nat /\ offsets[c] \in Nat /\ offsets[n + 1] \in Nat /\ offsets[c + 1] \in Nat
  BY <1>1, <1>2
<1>5. offsets[n] = offsets[c]
  BY <1>3, <1>4
<1> QED
  BY <1>5, SectionsBegin

LEMMA NoneBegins ==
  ASSUME offsets \in Multiplexes, NEW c \in 1 .. SectionCount, NEW p \in Nat,
         offsets[c] + 1 < p, p <= offsets[c + 1]
  PROVE  ~Opens(p)
<1>1. SUFFICES ASSUME NEW n \in 1 .. SectionCount, p = offsets[n] + 1 PROVE FALSE
  BY DEF Opens
<1>2. SectionCount \in Nat /\ \A k \in 1 .. SectionCount + 1 : offsets[k] \in Nat
  BY OffsetsGrow
<1>3. c \in 1 .. SectionCount + 1 /\ n \in 1 .. SectionCount + 1 /\ c + 1 \in 1 .. SectionCount + 1
  BY <1>2
<1>4. offsets[n] <= offsets[c] \/ offsets[c + 1] <= offsets[n]
  BY <1>3, MiddleOfSection
<1>5. offsets[n] \in Nat /\ offsets[c] \in Nat /\ offsets[c + 1] \in Nat
  BY <1>2, <1>3
<1> QED
  BY <1>1, <1>4, <1>5

LEMMA StuffingBeginsNothing ==
  ASSUME offsets \in Multiplexes
  PROVE  ~Opens(Stuffing)
<1>1. SUFFICES ASSUME NEW n \in 1 .. SectionCount, 0 = offsets[n] + 1 PROVE FALSE
  BY DEF Opens, Stuffing
<1>2. SectionCount \in Nat /\ \A k \in 1 .. SectionCount + 1 : offsets[k] \in Nat
  BY OffsetsGrow
<1>3. n \in 1 .. SectionCount + 1
  BY <1>2
<1>4. offsets[n] \in Nat
  BY <1>2, <1>3
<1> QED
  BY <1>1, <1>4

LEMMA NextEndFacts ==
  ASSUME offsets \in Multiplexes, NEW from \in Nat, NEW to \in NextEnds(from)
  PROVE  /\ to \in Nat /\ from < to /\ to <= offsets[SectionCount + 1]
         /\ Room(from, to) \in Nat /\ Room(from, to) >= HeaderSize
         /\ to - from <= Room(from, to)
         /\ to - from < Room(from, to) => \E n \in 1 .. SectionCount : to = offsets[n + 1]
         /\ PayloadSize \in Nat /\ PayloadSize > HeaderSize
<1>1. PayloadSize \in Nat /\ PayloadSize > HeaderSize
  BY AssemblerConstants
<1>2. Room(from, to) = PayloadSize \/ Room(from, to) = PayloadSize - 1
  BY DEF Room
<1>3. Room(from, to) \in Nat /\ Room(from, to) >= HeaderSize
  BY <1>1, <1>2 DEF HeaderSize
<1>4. /\ to \in from + 1 .. from + PayloadSize /\ to <= offsets[SectionCount + 1]
      /\ to - from <= Room(from, to)
      /\ to - from < Room(from, to) => \E n \in 1 .. SectionCount : to = offsets[n + 1]
  BY DEF NextEnds
<1>5. to \in Nat /\ from < to
  BY <1>1, <1>4
<1> QED
  BY <1>1, <1>3, <1>4, <1>5

\* A packet without a start is in the middle of one section, or ends it.
LEMMA PlainPacket ==
  ASSUME offsets \in Multiplexes, NEW from \in Nat, NEW to \in NextEnds(from),
         StartsIn(from, to) = {}
  PROVE  /\ ~Packet(from, to).start /\ Packet(from, to).cells = Run(from, to, PayloadSize)
         /\ to - from <= PayloadSize
         /\ \E c \in 1 .. SectionCount :
              /\ offsets[c] < from /\ from < offsets[c + 1] /\ to <= offsets[c + 1]
              /\ to = offsets[c + 1] \/ to - from = PayloadSize
<1>1. Room(from, to) = PayloadSize
  BY DEF Room
<1>2. ~Packet(from, to).start /\ Packet(from, to).cells = Run(from, to, PayloadSize)
  BY <1>1 DEF Packet, Run
<1>3. /\ to \in Nat /\ from < to /\ to <= offsets[SectionCount + 1]
      /\ to - from <= PayloadSize /\ PayloadSize \in Nat
      /\ to - from < PayloadSize => \E n \in 1 .. SectionCount : to = offsets[n + 1]
  BY <1>1, NextEndFacts
<1>4. SectionCount \in Nat /\ \A k \in 1 .. SectionCount + 1 : offsets[k] \in Nat
  BY OffsetsGrow
<1>5. \A p \in from + 1 .. to : ~Opens(p)
  BY DEF StartsIn
<1>6. PICK c \in 1 .. SectionCount : offsets[c] <= from /\ from < offsets[c + 1]
  <2>1. offsets[SectionCount + 1] \in Nat
    BY <1>4
  <2>2. from < offsets[SectionCount + 1]
    BY <1>3, <2>1
  <2> QED
    BY <2>2, PlaceInSection
<1>7. c \in 1 .. SectionCount + 1 /\ c + 1 \in 1 .. SectionCount + 1
      /\ offsets[c] \in Nat /\ offsets[c + 1] \in Nat /\ offsets[SectionCount + 1] \in Nat
  BY <1>4
<1>8. offsets[c] # from
  <2>1. SUFFICES ASSUME offsets[c] = from PROVE FALSE
    OBVIOUS
  <2>2. from + 1 \in from + 1 .. to
    BY <1>3
  <2> QED
    BY <1>5, <2>1, <2>2, SectionsBegin
<1>9. to <= offsets[c + 1]
  <2>1. SUFFICES ASSUME offsets[c + 1] < to PROVE FALSE
    BY <1>3, <1>7
  <2>2. c + 1 # SectionCount + 1
    BY <1>3, <1>7, <2>1
  <2>3. c + 1 \in 1 .. SectionCount
    BY <1>4, <2>2
  <2>4. offsets[c + 1] + 1 \in from + 1 .. to
    BY <1>3, <1>6, <1>7, <2>1
  <2> QED
    BY <1>5, <2>3, <2>4, SectionsBegin
<1>10. to - from < PayloadSize => to = offsets[c + 1]
  <2>1. SUFFICES ASSUME NEW n \in 1 .. SectionCount, to = offsets[n + 1] PROVE to = offsets[c + 1]
    BY <1>3
  <2>2. n + 1 \in 1 .. SectionCount + 1
    BY <1>4
  <2>3. offsets[n + 1] <= offsets[c] \/ offsets[c + 1] <= offsets[n + 1]
    BY <2>2, MiddleOfSection
  <2> QED
    BY <1>3, <1>6, <1>7, <1>9, <2>1, <2>3
<1>11. offsets[c] < from /\ (to = offsets[c + 1] \/ to - from = PayloadSize)
  BY <1>3, <1>6, <1>7, <1>8, <1>10
<1> QED
  BY <1>2, <1>3, <1>6, <1>9, <1>11

\* The pointer of a packet says where its first section begins; the bytes before end
\* the section that was being sent.
LEMMA StartingPacket ==
  ASSUME offsets \in Multiplexes, NEW from \in Nat, NEW to \in NextEnds(from),
         StartsIn(from, to) # {}
  PROVE  \E a \in 1 .. SectionCount :
           LET p == Packet(from, to)
           IN  /\ p.start /\ p.cells = Run(from, to, PayloadSize - 1)
               /\ p.pointer \in 0 .. PayloadSize - 1
               /\ offsets[a] = from + p.pointer /\ offsets[a] < to
               /\ p.pointer = 0 \/ (a - 1 \in 1 .. SectionCount /\ offsets[a - 1] < from)
<1> DEFINE T == StartsIn(from, to)
<1>1. /\ to \in Nat /\ from < to /\ to - from <= PayloadSize - 1 /\ PayloadSize \in Nat
      /\ Room(from, to) = PayloadSize - 1
  BY NextEndFacts DEF Room
<1>2. PICK x \in T : \A y \in T : x <= y
  <2>1. T \subseteq Nat /\ T # {}
    BY <1>1 DEF StartsIn
  <2> HIDE DEF T
  <2> QED
    BY <2>1, LeastNatural
<1>3. T \subseteq Nat
  BY <1>1 DEF StartsIn
<1>4. Min(T) = x
  <2>1. Min(T) = CHOOSE z \in T : \A y \in T : z <= y
    BY DEF Min
  <2>2. Min(T) \in T /\ \A y \in T : Min(T) <= y
    <3> HIDE DEF T
    <3> QED
      BY <1>2, <2>1
  <2>3. Min(T) <= x /\ x <= Min(T) /\ Min(T) \in Nat /\ x \in Nat
    BY <1>2, <1>3, <2>2
  <2> QED
    BY <2>3
<1>5. /\ Packet(from, to).start /\ Packet(from, to).cells = Run(from, to, PayloadSize - 1)
      /\ Packet(from, to).pointer = x - from - 1
  BY <1>1, <1>4 DEF Packet, Run
<1>6. x \in from + 1 .. to /\ Opens(x)
  BY <1>2 DEF StartsIn
<1>7. PICK a \in 1 .. SectionCount : x = offsets[a] + 1
  BY <1>6, BeginsWhere
<1>8. SectionCount \in Nat /\ \A k \in 1 .. SectionCount + 1 : offsets[k] \in Nat
  BY OffsetsGrow
<1>9. a \in 1 .. SectionCount + 1 /\ offsets[a] \in Nat /\ offsets[1] = 0
  BY <1>8, OffsetsGrow
<1>10. /\ x - from - 1 \in 0 .. PayloadSize - 1 /\ offsets[a] = from + (x - from - 1) /\ offsets[a] < to
  BY <1>1, <1>6, <1>7, <1>9
<1>11. ASSUME x - from - 1 # 0
       PROVE  a - 1 \in 1 .. SectionCount /\ offsets[a - 1] < from
  <2>1. a # 1
    <3>1. SUFFICES ASSUME offsets[a] = 0 PROVE FALSE
      BY <1>9
    <3>2. PICK k \in Nat : k = x - from - 1
      BY <1>10
    <3>3. 0 = from + k /\ k # 0
      BY <1>10, <1>11, <3>1, <3>2
    <3> QED
      BY <3>3
  <2>2. a - 1 \in 1 .. SectionCount /\ a - 1 \in 1 .. SectionCount + 1 /\ a - 1 < a
    BY <1>8, <2>1
  <2>3. offsets[a - 1] + HeaderSize < offsets[a] /\ offsets[a - 1] \in Nat
    BY <1>8, <1>9, <2>2, OffsetsGrow
  <2>4. SUFFICES ASSUME from <= offsets[a - 1] PROVE FALSE
    BY <2>2, <2>3
  <2>5. offsets[a - 1] + 1 \in from + 1 .. to /\ offsets[a - 1] + 1 < x
    BY <1>1, <1>7, <1>9, <1>10, <2>3, <2>4 DEF HeaderSize
  <2>6. offsets[a - 1] + 1 \in T
    BY <2>2, <2>5, SectionsBegin DEF StartsIn
  <2>7. x <= offsets[a - 1] + 1 /\ x \in Nat
    BY <1>2, <1>3, <2>6
  <2> QED
    BY <2>3, <2>5, <2>7
<1> QED
  BY <1>5, <1>7, <1>10, <1>11

-----------------------------------------------------------------------------
(* What the loop takes off the bytes that follow each other.               *)

LEMMA TakeNone ==
  ASSUME offsets \in Multiplexes, NEW cells, cells \in Seq(Nat),
         Stuck([found |-> << >>, left |-> cells])
  PROVE  TakeSections(cells) = [found |-> << >>, left |-> cells]
<1> DEFINE I == {[found |-> << >>, left |-> cells]}
<1>1. I \subseteq Takes /\ [found |-> << >>, left |-> cells] \in I
  BY DEF Takes
<1>2. \A s \in I : Stuck(s)
  OBVIOUS
<1>3. TakeSections(cells) \in I
  <2> HIDE DEF I
  <2> QED
    BY <1>1, <1>2, TakeSectionsEnds
<1> QED
  BY <1>3

\* Bytes that begin no section are not taken.
LEMMA NoHeaderStops ==
  ASSUME NEW s \in Takes, s.left = << >> \/ ~Opens(s.left[1])
  PROVE  Stuck(s)
<1>1. Len(s.left) \in Nat
  BY DEF Takes
<1>2. CASE s.left = << >>
  BY <1>2 DEF Stuck, HeaderSize
<1>3. CASE ~Opens(s.left[1])
  <2>1. TotalLength(s.left) = Len(s.left) + 1
    BY <1>3 DEF TotalLength
  <2> QED
    BY <1>1, <2>1 DEF Stuck
<1> QED
  BY <1>2, <1>3

\* A section that is not complete is not taken.
LEMMA ShortStops ==
  ASSUME offsets \in Multiplexes, NEW s \in Takes, NEW n \in 1 .. SectionCount,
         s.left[1] = offsets[n] + 1, Len(s.left) < Length(n)
  PROVE  Stuck(s)
<1>1. Opens(s.left[1]) /\ SectionAt(s.left[1]) = n
  BY SectionsBegin
<1> QED
  BY <1>1 DEF Stuck, TotalLength

LEMMA LongGoesOn ==
  ASSUME offsets \in Multiplexes, NEW s \in Takes, NEW n \in 1 .. SectionCount,
         s.left[1] = offsets[n] + 1, Length(n) <= Len(s.left)
  PROVE  ~Stuck(s)
<1>1. Opens(s.left[1]) /\ SectionAt(s.left[1]) = n
  BY SectionsBegin
<1>2. TotalLength(s.left) = Length(n)
  BY <1>1 DEF TotalLength
<1>3. Len(s.left) \in Nat /\ Length(n) \in Nat /\ Length(n) > HeaderSize
  BY OffsetsGrow DEF Takes
<1> QED
  BY <1>2, <1>3 DEF Stuck, HeaderSize

\* Bytes of which only the first begins a section.
LEMMA TakeFirst ==
  ASSUME offsets \in Multiplexes, NEW cells, cells \in Seq(Nat), NEW n \in 1 .. SectionCount,
         cells[1] = offsets[n] + 1, Length(n) <= Len(cells),
         \A i \in 2 .. Len(cells) : ~Opens(cells[i])
  PROVE  TakeSections(cells)
           = [found |-> IF SubSeq(cells, 1, Length(n)) = Section(n) THEN <<n>> ELSE << >>,
              left |-> SubSeq(cells, Length(n) + 1, Len(cells))]
<1> DEFINE base == [found |-> << >>, left |-> cells]
           end == [found |-> IF SubSeq(cells, 1, Length(n)) = Section(n) THEN <<n>> ELSE << >>,
                   left |-> SubSeq(cells, Length(n) + 1, Len(cells))]
           I == {base, end}
<1>1. base \in Takes /\ base.left = cells /\ base.found = << >>
  BY DEF Takes
<1>2. ~Stuck(base)
  BY <1>1, LongGoesOn
<1>3. PICK k \in 1 .. SectionCount :
        /\ base.left[1] = offsets[k] + 1 /\ TakeOne(base) = Taken(base, k) /\ TakeOne(base) \in Takes
  BY <1>1, <1>2, TakeOneTakes
<1>4. k = n
  BY <1>1, <1>3, SectionsBegin
<1>5. TakeOne(base) = end /\ end \in Takes
  <2>1. Append(<< >>, n) = <<n>>
    OBVIOUS
  <2>2. Taken(base, n) = end
    BY <1>1, <2>1 DEF Taken
  <2> QED
    BY <1>3, <1>4, <2>2
<1>6. Stuck(end)
  <2>1. Length(n) \in Nat /\ Length(n) > 0 /\ Len(cells) \in Nat
    BY OffsetsGrow DEF HeaderSize
  <2>2. PICK k1 : k1 = Length(n)
    OBVIOUS
  <2>3. end.left = SubSeq(cells, k1 + 1, Len(cells))
    BY <2>2
  <2>4. CASE k1 = Len(cells)
    <3>1. SubSeq(cells, k1 + 1, Len(cells)) = << >>
      BY <2>1, <2>4
    <3> HIDE DEF end
    <3> QED
      BY <1>5, <2>3, <3>1, NoHeaderStops
  <2>5. CASE k1 # Len(cells)
    <3>1. SubSeq(cells, k1 + 1, Len(cells))[1] = cells[k1 + 1] /\ k1 + 1 \in 2 .. Len(cells)
      BY <2>1, <2>2, <2>5
    <3> HIDE DEF end
    <3> QED
      BY <1>5, <2>3, <3>1, NoHeaderStops
  <2> QED
    BY <2>4, <2>5
<1>7. TakeSections(cells) \in I /\ Stuck(TakeSections(cells))
  <2>1. I \subseteq Takes /\ base \in I /\ \A s \in I : ~Stuck(s) => TakeOne(s) \in I
    <3> HIDE DEF base, end
    <3> QED
      BY <1>1, <1>5, <1>6
  <2> HIDE DEF I, end
  <2> QED
    BY <2>1, TakeSectionsEnds
<1> HIDE DEF base, end
<1>8. TakeSections(cells) = end
  BY <1>2, <1>7
<1> QED
  BY <1>8 DEF end

\* What a buffer may have while the bytes up to q are sent.
LEMMA DecentMeans ==
  ASSUME NEW b, NEW q, Decent(b, q), b # << >>
  PROVE  b \in Seq(Nat) /\ Len(b) \in Nat /\ Len(b) >= 1
<1>1. b \in Seq(Nat)
  BY DEF Decent
<1> QED
  BY <1>1

\* A buffer goes on with bytes from the middle of section c: with the last of them if
\* there is stuffing behind.
LEMMA TakeContinued ==
  ASSUME offsets \in Multiplexes, NEW b, NEW q \in Nat, Decent(b, q), b # << >>,
         NEW c \in 1 .. SectionCount, offsets[c] < q, q < offsets[c + 1],
         NEW e \in Nat, q < e, e <= offsets[c + 1],
         NEW m \in Nat, e - q <= m, m = e - q \/ e = offsets[c + 1],
         NEW t, t = TakeSections(b \o Run(q, e, m))
  PROVE  /\ t.found = IF e = offsets[c + 1] /\ b = Prefix(c, q - offsets[c]) THEN <<c>> ELSE << >>
         /\ Decent(t.left, e)
         /\ e < offsets[c + 1] =>
              (t.left = Prefix(c, e - offsets[c]) <=> b = Prefix(c, q - offsets[c]))
<1>1. SectionCount \in Nat /\ \A k \in 1 .. SectionCount + 1 : offsets[k] \in Nat
  BY OffsetsGrow
<1>2. /\ c \in 1 .. SectionCount + 1 /\ c + 1 \in 1 .. SectionCount + 1
      /\ offsets[c] \in Nat /\ offsets[c + 1] \in Nat
  BY <1>1
<1>3. /\ \A n \in 1 .. SectionCount : offsets[n] \in Nat /\ offsets[n + 1] \in Nat
                                      /\ Length(n) \in Nat /\ Length(n) > 3
                                      /\ offsets[n + 1] = offsets[n] + Length(n)
  <2> SUFFICES ASSUME NEW n \in 1 .. SectionCount
               PROVE  offsets[n] \in Nat /\ offsets[n + 1] \in Nat
                      /\ Length(n) \in Nat /\ Length(n) > 3
                      /\ offsets[n + 1] = offsets[n] + Length(n)
    OBVIOUS
  <2>1. n \in 1 .. SectionCount + 1 /\ n + 1 \in 1 .. SectionCount + 1
    BY <1>1
  <2> QED
    BY <1>1, <2>1, OffsetsGrow DEF HeaderSize
<1>4. PICK d, L : d = Run(q, e, m) /\ L = Len(b)
  OBVIOUS
<1>5. /\ d \in Seq(Nat) /\ Len(d) = m
      /\ \A i \in 1 .. m : d[i] = IF q + i <= e THEN q + i ELSE 0
  <2>1. /\ Run(q, e, m) \in Seq(Nat) /\ Len(Run(q, e, m)) = m
        /\ \A i \in 1 .. m : Run(q, e, m)[i] = IF q + i <= e THEN q + i ELSE 0
    BY RunIs DEF Stuffing
  <2> QED
    BY <1>4, <2>1
<1>6. b \in Seq(Nat) /\ L \in Nat /\ L >= 1 /\ L = Len(b)
  BY <1>4, DecentMeans
<1>7. m >= 1
  BY <1>2
<1> DEFINE x == b \o d
<1>8. /\ x \in Seq(Nat) /\ Len(x) = L + m
      /\ \A i \in 1 .. L : x[i] = b[i]
      /\ \A i \in 1 .. m : x[L + i] = IF q + i <= e THEN q + i ELSE 0
  <2>1. x \in Seq(Nat) /\ Len(x) = Len(b) + Len(d)
        /\ \A i \in 1 .. Len(b) + Len(d) : x[i] = IF i <= Len(b) THEN b[i] ELSE d[i - Len(b)]
    BY <1>5, <1>6, ConcatProperties
  <2> HIDE DEF x
  <2>2. \A i \in 1 .. L : i \in 1 .. Len(b) + Len(d) /\ i <= Len(b)
    BY <1>5, <1>6
  <2>3. \A i \in 1 .. m : L + i \in 1 .. Len(b) + Len(d) /\ ~(L + i <= Len(b)) /\ L + i - Len(b) = i
    BY <1>5, <1>6
  <2>4. \A i \in 1 .. m : x[L + i] = d[i]
    <3> SUFFICES ASSUME NEW i \in 1 .. m PROVE x[L + i] = d[i]
      OBVIOUS
    <3>1. PICK j : j = L + i
      OBVIOUS
    <3>2. j \in 1 .. Len(b) + Len(d) /\ ~(j <= Len(b)) /\ j - Len(b) = i
      BY <1>5, <1>6, <3>1
    <3>3. x[j] = d[j - Len(b)]
      BY <2>1, <3>2
    <3> QED
      BY <3>1, <3>2, <3>3
  <2> QED
    BY <1>5, <1>6, <2>1, <2>2, <2>4
<1>9. t = TakeSections(x)
  BY <1>4
<1> HIDE DEF x
<1>10. x # << >> /\ x[1] = b[1]
  BY <1>6, <1>8
\* The places of x.
<1>11. \A i \in 1 .. Len(x) : i \in 1 .. L \/ (i - L \in 1 .. m /\ i = L + (i - L))
  BY <1>6, <1>8
<1>12. \A i \in 2 .. Len(x) : ~Opens(x[i])
  <2> SUFFICES ASSUME NEW i \in 2 .. Len(x) PROVE ~Opens(x[i])
    OBVIOUS
  <2>0. i \in 1 .. Len(x)
    BY <1>8
  <2>1. CASE i \in 1 .. L
    <3>1. i \in 2 .. Len(b)
      BY <1>6, <2>1
    <3> QED
      BY <1>8, <2>1, <3>1 DEF Decent
  <2>2. CASE i - L \in 1 .. m /\ i = L + (i - L)
    <3>1. PICK j \in 1 .. m : i = L + j
      BY <2>2
    <3>2. CASE q + j <= e
      <4>1. x[i] = q + j
        BY <1>8, <3>1, <3>2
      <4>2. q + j \in Nat /\ offsets[c] + 1 < q + j /\ q + j <= offsets[c + 1]
        BY <1>2, <3>2
      <4> QED
        BY <4>1, <4>2, NoneBegins
    <3>3. CASE ~(q + j <= e)
      <4>1. x[i] = Stuffing
        BY <1>8, <3>1, <3>3 DEF Stuffing
      <4> QED
        BY <4>1, StuffingBeginsNothing
    <3> QED
      BY <3>2, <3>3
  <2> QED
    BY <1>11, <2>0, <2>1, <2>2
<1>13. \A n \in 1 .. SectionCount : \A k \in Nat : k >= 1 => Prefix(n, k) # << >>
                                    /\ Prefix(n, k)[1] = offsets[n] + 1
  <2> SUFFICES ASSUME NEW n \in 1 .. SectionCount, NEW k \in Nat, k >= 1
               PROVE  Prefix(n, k) # << >> /\ Prefix(n, k)[1] = offsets[n] + 1
    OBVIOUS
  <2>1. 1 \in 1 .. k /\ DOMAIN Prefix(n, k) = 1 .. k
    BY DEF Prefix
  <2>2. Prefix(n, k)[1] = offsets[n] + 1
    BY <2>1 DEF Prefix
  <2>3. DOMAIN << >> = {}
    OBVIOUS
  <2> QED
    BY <2>1, <2>2, <2>3
\* The buffer is the part of section n that comes before q, if x is a part of it.
<1>14. ASSUME NEW n \in 1 .. SectionCount, NEW k \in Nat, k > L, k <= L + m, L < Length(n),
              \A i \in 1 .. k : x[i] = offsets[n] + i, x[1] = offsets[n] + 1
       PROVE  n = c /\ q - offsets[c] = L /\ b = Prefix(c, L) /\ offsets[n] + k <= e
  <2>0. /\ offsets[n] \in Nat /\ offsets[n + 1] \in Nat /\ Length(n) \in Nat
        /\ offsets[n + 1] = offsets[n] + Length(n)
    BY <1>3
  <2>1. b = Prefix(n, L)
    <3>1. \A i \in 1 .. L : b[i] = offsets[n] + i
      <4>1. \A i \in 1 .. L : i \in 1 .. k
        BY <1>6, <1>14
      <4> QED
        BY <1>8, <1>14, <4>1
    <3>2. b = [i \in 1 .. L |-> b[i]]
      BY <1>6
    <3> QED
      BY <3>1, <3>2 DEF Prefix
  <2>2. offsets[n] + L <= q
    BY <1>6, <1>10, <1>14, <2>1 DEF Decent
  <2>3. 1 \in 1 .. m /\ L + 1 \in 1 .. k
    BY <1>6, <1>7, <1>14
  <2>4. q + 1 = offsets[n] + (L + 1)
    <3>1. x[L + 1] = q + 1
      BY <1>8, <2>3
    <3> QED
      BY <1>14, <2>3, <3>1
  <2>5. q = offsets[n] + L
    <3>1. PICK o \in Nat : o = offsets[n]
      BY <2>0
    <3>2. q + 1 = o + (L + 1)
      BY <2>4, <3>1
    <3>3. L \in Nat
      BY <1>6
    <3>4. q = o + L
      BY <3>2, <3>3
    <3> QED
      BY <3>1, <3>4
  <2>6. offsets[n] <= q /\ q < offsets[n + 1]
    <3>1. PICK o \in Nat, k1 \in Nat : o = offsets[n] /\ k1 = Length(n)
      BY <2>0
    <3>2. offsets[n + 1] = o + k1 /\ L < k1 /\ q = o + L
      BY <1>14, <2>0, <2>5, <3>1
    <3>3. L \in Nat
      BY <1>6
    <3>4. o <= q /\ q < o + k1
      BY <3>2, <3>3
    <3> QED
      BY <3>1, <3>2, <3>4
  <2>7. n = c
    BY <2>6, OneSection
  <2>8. k - L \in 1 .. m /\ k \in 1 .. k /\ L + (k - L) = k
    BY <1>6, <1>14
  <2>9. x[k] = offsets[n] + k /\ x[k] = IF q + (k - L) <= e THEN q + (k - L) ELSE 0
    BY <1>8, <1>14, <2>8
  <2>10. offsets[n] + k <= e
    BY <1>3, <1>6, <1>14, <2>5, <2>8, <2>9
  <2> QED
    <3>1. q - offsets[c] = L
      <4>1. PICK o \in Nat : o = offsets[c]
        BY <1>2
      <4>2. q = o + L /\ L \in Nat
        BY <1>6, <2>5, <2>7, <4>1
      <4>3. q - o = L
        BY <4>2
      <4> QED
        BY <4>1, <4>3
    <3> QED
      BY <2>1, <2>7, <2>10, <3>1
<1>15. ASSUME b = Prefix(c, q - offsets[c])
       PROVE  L = q - offsets[c] /\ x[1] = offsets[c] + 1
              /\ \A i \in 1 .. L + (e - q) : x[i] = offsets[c] + i
  <2>1. q - offsets[c] \in Nat /\ q - offsets[c] >= 1
    BY <1>2
  <2>2. DOMAIN b = 1 .. q - offsets[c] /\ \A i \in 1 .. q - offsets[c] : b[i] = offsets[c] + i
    BY <1>15 DEF Prefix
  <2>3. L = q - offsets[c]
    <3>1. DOMAIN b = 1 .. L
      BY <1>6
    <3> QED
      BY <1>6, <2>1, <2>2, <3>1
  <2>4. ASSUME NEW i \in 1 .. L + (e - q) PROVE x[i] = offsets[c] + i
    <3>1. CASE i \in 1 .. L
      BY <1>8, <2>2, <2>3, <3>1
    <3>2. CASE i \notin 1 .. L
      <4>1. PICK j \in 1 .. m : i = L + j
        <5>1. i - L \in 1 .. m /\ i = L + (i - L)
          BY <1>6, <3>2
        <5> QED
          BY <5>1
      <4>2. q + j <= e /\ q + j = offsets[c] + i
        <5>1. PICK o \in Nat : o = offsets[c]
          BY <1>2
        <5>2. L = q - o /\ o < q /\ i <= L + (e - q) /\ i \in Nat
          BY <1>6, <2>3, <2>4, <5>1
        <5>3. q + j <= e /\ q + j = o + i
          BY <1>6, <4>1, <5>2
        <5> QED
          BY <5>1, <5>3
      <4> QED
        BY <1>8, <4>1, <4>2
    <3> QED
      BY <3>1, <3>2
  <2>5. x[1] = offsets[c] + 1
    <3>1. 1 \in 1 .. L + (e - q)
      BY <1>6
    <3> QED
      BY <2>4, <3>1
  <2> QED
    BY <2>3, <2>4, <2>5
<1>16. [found |-> << >>, left |-> x] \in Takes
  BY <1>8 DEF Takes
<1>17. CASE ~Opens(x[1])
  <2>1. t = [found |-> << >>, left |-> x]
    <3>1. Stuck([found |-> << >>, left |-> x])
      BY <1>16, <1>17, NoHeaderStops
    <3> QED
      BY <1>8, <1>9, <3>1, TakeNone
  <2>2. \A n \in 1 .. SectionCount : x[1] # offsets[n] + 1
    BY <1>17 DEF Opens
  <2>3. Decent(x, e)
    BY <1>8, <1>12, <2>2 DEF Decent
  <2>4. b # Prefix(c, q - offsets[c])
    BY <1>15, <2>2
  <2>5. x # Prefix(c, e - offsets[c])
    <3>1. e - offsets[c] \in Nat /\ e - offsets[c] >= 1
      BY <1>2
    <3> QED
      BY <1>13, <2>2, <3>1
  <2> QED
    BY <2>1, <2>3, <2>4, <2>5
<1>18. CASE Opens(x[1])
  <2>1. PICK n \in 1 .. SectionCount : x[1] = offsets[n] + 1
    BY <1>18 DEF Opens
  <2>2. L < Length(n)
    BY <1>6, <1>10, <2>1 DEF Decent
  <2>3. \A k \in 1 .. SectionCount : x[1] = offsets[k] + 1 => k = n
    BY <2>1, SectionsBegin
  <2>4. CASE Len(x) < Length(n)
    <3>1. t = [found |-> << >>, left |-> x]
      <4>1. Stuck([found |-> << >>, left |-> x])
        BY <1>16, <2>1, <2>4, ShortStops
      <4> QED
        BY <1>8, <1>9, <4>1, TakeNone
    <3>2. ~(e = offsets[c + 1] /\ b = Prefix(c, q - offsets[c]))
      <4> SUFFICES ASSUME e = offsets[c + 1], b = Prefix(c, q - offsets[c]) PROVE FALSE
        OBVIOUS
      <4>1. L = q - offsets[c] /\ n = c
        BY <1>15, <2>3
      <4>2. PICK o \in Nat, k \in Nat : o = offsets[c] /\ k = Length(c)
        BY <1>2, <1>3
      <4>3. e = o + k /\ L = q - o /\ e - q <= m /\ L + m < k
        BY <1>3, <1>8, <2>4, <4>1, <4>2
      <4> QED
        BY <1>6, <4>3
    <3>3. x = Prefix(n, Len(x)) => offsets[n] + Len(x) <= e
      <4> SUFFICES ASSUME x = Prefix(n, Len(x)) PROVE offsets[n] + Len(x) <= e
        OBVIOUS
      <4>1. PICK k \in Nat : k = Len(x)
        BY <1>6, <1>8
      <4>2. \A i \in 1 .. k : x[i] = offsets[n] + i
        BY <4>1 DEF Prefix
      <4>3. k > L /\ k <= L + m
        BY <1>6, <1>7, <1>8, <4>1
      <4>4. offsets[n] + k <= e
        BY <1>14, <2>1, <2>2, <4>2, <4>3
      <4> QED
        BY <4>1, <4>4
    <3>4. Decent(x, e)
      BY <1>8, <1>12, <2>3, <2>4, <3>3 DEF Decent
    <3>5. ASSUME e < offsets[c + 1]
          PROVE  x = Prefix(c, e - offsets[c]) <=> b = Prefix(c, q - offsets[c])
      <4>1. m = e - q
        BY <1>2, <3>5
      <4>2. ASSUME b = Prefix(c, q - offsets[c]) PROVE x = Prefix(c, e - offsets[c])
        <5>1. Len(x) = e - offsets[c] /\ L + (e - q) = Len(x)
          <6>1. PICK o \in Nat : o = offsets[c]
            BY <1>2
          <6>2. L = q - o /\ Len(x) = L + m
            BY <1>8, <1>15, <4>2, <6>1
          <6>3. L \in Nat
            BY <1>6
          <6>4. L + m = e - o /\ L + (e - q) = L + m
            BY <4>1, <6>2, <6>3
          <6> QED
            BY <6>1, <6>2, <6>4
        <5>2. x = [i \in 1 .. Len(x) |-> x[i]]
          BY <1>8
        <5>3. \A i \in 1 .. Len(x) : x[i] = offsets[c] + i
          BY <1>15, <4>2, <5>1
        <5> QED
          BY <5>1, <5>2, <5>3 DEF Prefix
      <4>3. ASSUME x = Prefix(c, e - offsets[c]) PROVE b = Prefix(c, q - offsets[c])
        <5>1. e - offsets[c] \in Nat /\ e - offsets[c] >= 1
          BY <1>2
        <5>2. n = c
          BY <1>13, <2>3, <4>3, <5>1
        <5>3. PICK k \in Nat : k = e - offsets[c]
          BY <5>1
        <5>4. \A i \in 1 .. k : x[i] = offsets[c] + i
          BY <4>3, <5>3 DEF Prefix
        <5>5. Len(x) = k
          <6>1. DOMAIN x = 1 .. k
            BY <4>3, <5>3 DEF Prefix
          <6>2. DOMAIN x = 1 .. Len(x) /\ Len(x) \in Nat
            BY <1>6, <1>8
          <6> QED
            BY <6>1, <6>2
        <5>6. k > L /\ k <= L + m
          BY <1>6, <1>7, <1>8, <5>5
        <5> QED
          BY <1>14, <2>1, <2>2, <5>2, <5>4, <5>6
      <4> QED
        BY <4>2, <4>3
    <3> QED
      BY <3>1, <3>2, <3>4, <3>5
  <2>5. CASE ~(Len(x) < Length(n))
    <3>1. Length(n) <= Len(x) /\ Len(x) \in Nat /\ Length(n) \in Nat /\ Length(n) > 3
      BY <1>3, <1>6, <1>8, <2>5
    <3>2. PICK k \in Nat : k = Length(n)
      BY <3>1
    <3>3. t = [found |-> IF SubSeq(x, 1, k) = Section(n) THEN <<n>> ELSE << >>,
               left |-> SubSeq(x, k + 1, Len(x))]
      BY <1>8, <1>9, <1>12, <2>1, <3>1, <3>2, TakeFirst
    <3>4. /\ SubSeq(x, k + 1, Len(x)) \in Seq(Nat)
          /\ Len(SubSeq(x, k + 1, Len(x))) = Len(x) - k
          /\ \A i \in 1 .. Len(x) - k : SubSeq(x, k + 1, Len(x))[i] = x[k + i]
      <4>1. k \in Nat /\ k <= Len(x) /\ k >= 1 /\ x \in Seq(Nat)
        BY <1>8, <3>1, <3>2
      <4>2. SubSeq(x, k + 1, Len(x)) \in Seq(Nat)
        BY <4>1
      <4>3. Len(SubSeq(x, k + 1, Len(x))) = Len(x) - k
        BY <4>1
      <4>4. \A i \in 1 .. Len(x) - k : SubSeq(x, k + 1, Len(x))[i] = x[k + i]
        BY <4>1
      <4> QED
        BY <4>2, <4>3, <4>4
    <3>5. PICK l : l = SubSeq(x, k + 1, Len(x))
      OBVIOUS
    <3>6. l \in Seq(Nat) /\ \A i \in 1 .. Len(l) : ~Opens(l[i])
      <4>1. l \in Seq(Nat) /\ Len(l) = Len(x) - k
        BY <3>4, <3>5
      <4>2. ASSUME NEW i \in 1 .. Len(l) PROVE ~Opens(l[i])
        <5>1. k + i \in 2 .. Len(x) /\ i \in 1 .. Len(x) - k
          BY <3>1, <3>2, <4>1
        <5> QED
          BY <1>12, <3>4, <3>5, <5>1
      <4> QED
        BY <4>1, <4>2
    <3>7. l = << >> \/ ~Opens(l[1])
      <4>1. l # << >> => 1 \in 1 .. Len(l)
        BY <3>6
      <4> QED
        BY <3>6, <4>1
    <3>8. Decent(l, e)
      <4>1. \A j \in 1 .. SectionCount : ~(l # << >> /\ l[1] = offsets[j] + 1)
        BY <3>7 DEF Opens
      <4>2. \A i \in 2 .. Len(l) : ~Opens(l[i])
        <5>1. \A i \in 2 .. Len(l) : i \in 1 .. Len(l)
          BY <3>6
        <5> QED
          BY <3>6, <5>1
      <4> QED
        BY <3>6, <4>1, <4>2 DEF Decent
    <3>9. e < offsets[c + 1] => b # Prefix(c, q - offsets[c])
      <4> SUFFICES ASSUME e < offsets[c + 1], b = Prefix(c, q - offsets[c]) PROVE FALSE
        OBVIOUS
      <4>1. n = c /\ L = q - offsets[c] /\ m = e - q
        BY <1>2, <1>15, <2>3
      <4>2. PICK o \in Nat, k1 \in Nat : o = offsets[c] /\ k1 = Length(c)
        BY <1>2, <1>3
      <4>3. e < o + k1 /\ L = q - o /\ m = e - q /\ k1 <= L + m
        BY <1>3, <1>8, <3>1, <4>1, <4>2
      <4> QED
        BY <1>6, <4>3
    <3>10. l # Prefix(c, e - offsets[c])
      <4>1. e - offsets[c] \in Nat /\ e - offsets[c] >= 1
        BY <1>2
      <4>2. Opens(offsets[c] + 1)
        BY SectionsBegin
      <4> QED
        BY <1>13, <3>7, <4>1, <4>2
    <3>11. SubSeq(x, 1, k) = Section(n) <=> e = offsets[c + 1] /\ b = Prefix(c, q - offsets[c])
      <4>1. SubSeq(x, 1, k) = [i \in 1 .. k |-> x[i]]
        BY <1>8, <3>1, <3>2
      <4>2. Section(n) = [i \in 1 .. k |-> offsets[n] + i]
        BY <3>2 DEF Section
      <4>3. ASSUME SubSeq(x, 1, k) = Section(n)
            PROVE  e = offsets[c + 1] /\ b = Prefix(c, q - offsets[c])
        <5>1. \A i \in 1 .. k : x[i] = offsets[n] + i
          <6>1. PICK f, g : f = [i \in 1 .. k |-> x[i]] /\ g = [i \in 1 .. k |-> offsets[n] + i]
            OBVIOUS
          <6>2. f = g
            BY <4>1, <4>2, <4>3, <6>1
          <6>3. \A i \in 1 .. k : f[i] = x[i] /\ g[i] = offsets[n] + i
            BY <6>1
          <6> QED
            BY <6>2, <6>3
        <5>2. k > L /\ k <= L + m
          BY <1>6, <1>8, <2>2, <3>1, <3>2
        <5>3. n = c /\ q - offsets[c] = L /\ b = Prefix(c, L) /\ offsets[n] + k <= e
          BY <1>14, <2>1, <2>2, <5>1, <5>2
        <5>4. e = offsets[c + 1]
          BY <1>2, <1>3, <3>2, <5>3
        <5> QED
          BY <5>3, <5>4
      <4>4. ASSUME e = offsets[c + 1], b = Prefix(c, q - offsets[c])
            PROVE  SubSeq(x, 1, k) = Section(n)
        <5>1. n = c /\ L = q - offsets[c]
          BY <1>15, <2>3, <4>4
        <5>2. k = L + (e - q)
          BY <1>2, <1>3, <3>2, <4>4, <5>1
        <5>3. \A i \in 1 .. k : x[i] = offsets[n] + i
          BY <1>15, <4>4, <5>1, <5>2
        <5> QED
          BY <4>1, <4>2, <5>3
      <4> QED
        BY <4>3, <4>4
    <3>12. t.left = l /\ t.found = IF SubSeq(x, 1, k) = Section(n) THEN <<n>> ELSE << >>
      BY <3>3, <3>5
    <3>13. b = Prefix(c, q - offsets[c]) => n = c
      BY <1>15, <2>3
    <3> QED
      BY <3>8, <3>9, <3>10, <3>11, <3>12, <3>13
  <2> QED
    BY <2>4, <2>5
<1> QED
  BY <1>17, <1>18


\* The sections from a on that come before section r.
From(a, r) == [j \in 1 .. r - a |-> a + j - 1]

\* What follows the pointer: section a and those behind it, the last of them cut off,
\* or stuffing behind the last.
LEMMA ConsumeStarts ==
  ASSUME offsets \in Multiplexes, NEW a \in 1 .. SectionCount, NEW e \in Nat,
         offsets[a] < e, e <= offsets[SectionCount + 1],
         NEW m \in Nat, e - offsets[a] <= m,
         m = e - offsets[a] \/ \E n \in 1 .. SectionCount : e = offsets[n + 1],
         NEW p, p = ConsumePayload(Run(offsets[a], e, m))
  PROVE  \E r \in a .. SectionCount + 1 :
           /\ offsets[r] <= e /\ (r <= SectionCount => e < offsets[r + 1])
           /\ p.found = From(a, r)
           /\ p.expecting <=> p.buffer # << >>
           /\ p.buffer = IF offsets[r] + HeaderSize <= e THEN Prefix(r, e - offsets[r]) ELSE << >>
<1>1. SectionCount \in Nat /\ \A k \in 1 .. SectionCount + 1 : offsets[k] \in Nat
  BY OffsetsGrow
<1>2. a \in Nat /\ a \in 1 .. SectionCount + 1 /\ offsets[a] \in Nat
      /\ \A r \in a .. SectionCount + 1 : r \in 1 .. SectionCount + 1 /\ offsets[r] \in Nat
  BY <1>1
<1>3. \A r \in a .. SectionCount + 1 : offsets[a] <= offsets[r]
  <2> SUFFICES ASSUME NEW r \in a .. SectionCount + 1 PROVE offsets[a] <= offsets[r]
    OBVIOUS
  <2>1. r = a \/ a < r
    BY <1>1, <1>2
  <2>2. a < r => offsets[a] + HeaderSize < offsets[r]
    BY <1>2, OffsetsGrow
  <2> QED
    BY <1>2, <2>1, <2>2 DEF HeaderSize
<1>4. \A n \in 1 .. SectionCount : /\ Length(n) \in Nat /\ Length(n) > 3
                                   /\ offsets[n] \in Nat /\ offsets[n + 1] \in Nat
                                   /\ n + 1 \in 1 .. SectionCount + 1
                                   /\ offsets[n + 1] = offsets[n] + Length(n)
  <2> SUFFICES ASSUME NEW n \in 1 .. SectionCount
               PROVE  /\ Length(n) \in Nat /\ Length(n) > 3
                      /\ offsets[n] \in Nat /\ offsets[n + 1] \in Nat
                      /\ n + 1 \in 1 .. SectionCount + 1
                      /\ offsets[n + 1] = offsets[n] + Length(n)
    OBVIOUS
  <2>1. n \in 1 .. SectionCount + 1 /\ n + 1 \in 1 .. SectionCount + 1
    BY <1>1
  <2> QED
    BY <1>1, <2>1, OffsetsGrow DEF HeaderSize
<1> DEFINE room(r) == m - (offsets[r] - offsets[a])
           found(r) == From(a, r)
           left(r) == Run(offsets[r], e, room(r))
           cells == Run(offsets[a], e, m)
           I == {s \in Takes : \E r \in a .. SectionCount + 1 :
                    offsets[r] <= e /\ s.found = found(r) /\ s.left = left(r)}
<1>5. \A r \in a .. SectionCount + 1 : offsets[r] <= e => room(r) \in Nat /\ e - offsets[r] <= room(r)
  <2> SUFFICES ASSUME NEW r \in a .. SectionCount + 1, offsets[r] <= e
               PROVE  room(r) \in Nat /\ e - offsets[r] <= room(r)
    OBVIOUS
  <2>1. offsets[a] <= offsets[r] /\ offsets[r] \in Nat /\ offsets[a] \in Nat
    BY <1>2, <1>3
  <2> QED
    BY <2>1
\* A section that is complete in the bytes was sent.
<1>6. ASSUME NEW r \in a .. SectionCount + 1, offsets[r] <= e, r \in 1 .. SectionCount,
             Length(r) <= room(r), offsets[r] < e
      PROVE  offsets[r + 1] <= e
  <2>1. offsets[r + 1] = offsets[r] + Length(r) /\ offsets[r] \in Nat /\ offsets[r + 1] \in Nat
    BY <1>4, <1>6
  <2>2. CASE m = e - offsets[a]
    <3>1. room(r) = e - offsets[r]
      BY <1>2, <2>1, <2>2
    <3> QED
      BY <1>4, <1>6, <2>1, <3>1
  <2>3. CASE \E n \in 1 .. SectionCount : e = offsets[n + 1]
    <3>1. PICK n \in 1 .. SectionCount : e = offsets[n + 1]
      BY <2>3
    <3>2. n + 1 \in 1 .. SectionCount + 1
      BY <1>4
    <3>3. offsets[n + 1] <= offsets[r] \/ offsets[r + 1] <= offsets[n + 1]
      BY <1>6, <3>2, MiddleOfSection
    <3> QED
      BY <1>6, <2>1, <3>1, <3>3
  <2> QED
    BY <2>2, <2>3
<1>7. \A r \in a .. SectionCount + 1 : offsets[r] <= e =>
        /\ left(r) \in Seq(Nat) /\ Len(left(r)) = room(r)
        /\ \A i \in 1 .. room(r) : left(r)[i] = IF offsets[r] + i <= e THEN offsets[r] + i ELSE 0
  <2> SUFFICES ASSUME NEW r \in a .. SectionCount + 1, offsets[r] <= e
               PROVE  /\ left(r) \in Seq(Nat) /\ Len(left(r)) = room(r)
                      /\ \A i \in 1 .. room(r) :
                            left(r)[i] = IF offsets[r] + i <= e THEN offsets[r] + i ELSE 0
    OBVIOUS
  <2>1. PICK w : w = room(r)
    OBVIOUS
  <2>2. w \in Nat /\ offsets[r] \in Nat /\ left(r) = Run(offsets[r], e, w)
    BY <1>2, <1>5, <2>1
  <2> HIDE DEF room, left
  <2>3. PICK o : o = offsets[r] /\ o \in Nat
    BY <2>2
  <2>3a. o \in Nat /\ e \in Nat /\ w \in Nat
    BY <2>2, <2>3
  <2>4. /\ Run(o, e, w) \in Seq(Nat) /\ Len(Run(o, e, w)) = w
        /\ \A i \in 1 .. w : Run(o, e, w)[i] = IF o + i <= e THEN o + i ELSE 0
    BY ONLY <2>3a, RunIs DEF Stuffing
  <2> QED
    BY <2>1, <2>2, <2>3, <2>4
<1>8. [found |-> << >>, left |-> cells] \in I
  <2>1. room(a) = m /\ a \in a .. SectionCount + 1 /\ a - a = 0
    BY <1>1, <1>2
  <2>2. found(a) = << >>
    BY <2>1 DEF From
  <2>3. cells = left(a)
    BY <2>1
  <2>4. cells \in Seq(Nat)
    BY <1>2, RunIs
  <2>5. [found |-> << >>, left |-> cells] \in Takes
    BY <2>4 DEF Takes
  <2> HIDE DEF cells, left, found, room
  <2> QED
    BY <1>2, <2>1, <2>2, <2>3, <2>5
\* What is left starts with section n if it starts with any.
<1>9. ASSUME NEW s \in Takes, NEW r \in a .. SectionCount + 1, offsets[r] <= e, s.left = left(r),
             NEW n \in 1 .. SectionCount, s.left[1] = offsets[n] + 1, Length(n) <= Len(s.left)
      PROVE  n = r /\ r \in 1 .. SectionCount /\ offsets[r + 1] <= e
  <2>1. room(r) \in Nat /\ Length(n) <= room(r) /\ Length(n) > 3 /\ Length(n) \in Nat
    BY <1>4, <1>5, <1>7, <1>9
  <2>2. 1 \in 1 .. room(r)
    BY <2>1
  <2>3. s.left[1] = IF offsets[r] + 1 <= e THEN offsets[r] + 1 ELSE 0
    BY <1>7, <1>9, <2>2
  <2>4. offsets[r] \in Nat /\ offsets[n] \in Nat
    BY <1>2, <1>4
  <2>5. offsets[r] + 1 = offsets[n] + 1 /\ offsets[r] < e
    BY <1>9, <2>3, <2>4
  <2>6. r # SectionCount + 1
    BY <1>1, <1>2, <2>5
  <2>7. r \in 1 .. SectionCount
    BY <1>1, <1>2, <2>6
  <2>8. n = r
    BY <2>5, <2>7, SectionsBegin
  <2> QED
    BY <1>6, <1>9, <2>1, <2>5, <2>7, <2>8
<1>10. ASSUME NEW s \in I, ~Stuck(s) PROVE TakeOne(s) \in I
  <2>1. s \in Takes
    OBVIOUS
  <2>2. PICK r \in a .. SectionCount + 1 : offsets[r] <= e /\ s.found = found(r) /\ s.left = left(r)
    OBVIOUS
  <2>3. PICK n \in 1 .. SectionCount :
          /\ s.left[1] = offsets[n] + 1 /\ Length(n) <= Len(s.left)
          /\ TakeOne(s) = Taken(s, n) /\ TakeOne(s) \in Takes
    BY <1>10, <2>1, TakeOneTakes
  <2>4. n = r /\ r \in 1 .. SectionCount /\ offsets[r + 1] <= e
    BY <1>9, <2>1, <2>2, <2>3
  <2>5. r + 1 \in a .. SectionCount + 1
    BY <1>1, <1>2, <2>4
  <2>6. PICK w, k : w = room(r) /\ k = Length(r)
    OBVIOUS
  <2>7. w \in Nat /\ k \in 0 .. w /\ offsets[r] \in Nat /\ k \in Nat /\ offsets[r + 1] = offsets[r] + k
        /\ Len(s.left) = w
    BY <1>4, <1>5, <1>7, <2>2, <2>3, <2>4, <2>6
  <2>8. s.left = Run(offsets[r], e, w)
    BY <2>2, <2>6
  <2>9. /\ SubSeq(s.left, k + 1, w) = Run(offsets[r] + k, e, w - k)
        /\ SubSeq(s.left, 1, k) = Run(offsets[r], e, k)
    <3>1. PICK o \in Nat : o = offsets[r]
      BY <2>7
    <3>a. o \in Nat /\ e \in Nat /\ w \in Nat /\ k \in 0 .. w
      BY <2>7
    <3>2. /\ SubSeq(Run(o, e, w), k + 1, w) = Run(o + k, e, w - k)
          /\ SubSeq(Run(o, e, w), 1, k) = Run(o, e, k)
      BY ONLY <3>a, RunCut
    <3> QED
      BY <2>8, <3>1, <3>2
  <2>10. SubSeq(s.left, 1, k) = Section(r)
    <3>1. \A i \in 1 .. k : (IF offsets[r] + i <= e THEN offsets[r] + i ELSE Stuffing) = offsets[r] + i
      BY <2>4, <2>7
    <3>2. Run(offsets[r], e, k) = [i \in 1 .. k |-> offsets[r] + i]
      BY <3>1 DEF Run
    <3>3. Section(r) = [i \in 1 .. k |-> offsets[r] + i]
      BY <2>6 DEF Section
    <3> QED
      BY <2>9, <3>2, <3>3
  <2>11. TakeOne(s).found = Append(s.found, r) /\ TakeOne(s).left = Run(offsets[r] + k, e, w - k)
    <3>1. TakeOne(s) = [found |-> IF SubSeq(s.left, 1, k) = Section(r) THEN Append(s.found, r) ELSE s.found,
                        left |-> SubSeq(s.left, k + 1, w)]
      BY <2>3, <2>4, <2>6, <2>7 DEF Taken
    <3> QED
      BY <2>9, <2>10, <3>1
  <2>12. w - k = room(r + 1)
    <3>1. PICK o \in Nat, o2 \in Nat, oa \in Nat : o = offsets[r] /\ o2 = offsets[r + 1] /\ oa = offsets[a]
      BY <1>2, <2>5
    <3>2. w = m - (o - oa) /\ o2 = o + k
      BY <2>6, <2>7, <3>1
    <3>3. w - k = m - (o2 - oa)
      BY <2>7, <3>2
    <3> QED
      BY <3>1, <3>3
  <2>13. TakeOne(s).left = left(r + 1)
    BY <2>7, <2>11, <2>12
  <2>14. TakeOne(s).found = found(r + 1)
    <3>1. PICK u \in Nat : u = r - a
      BY <1>2, <2>4
    <3>2. r + 1 - a = u + 1 /\ r = a + (u + 1) - 1
      BY <1>2, <2>4, <3>1
    <3>3. s.found = [j \in 1 .. u |-> a + j - 1]
      BY <2>2, <3>1 DEF From
    <3>4. s.found \in Seq(1 .. SectionCount)
      BY <2>1 DEF Takes
    <3>5. PICK f : f = s.found
      OBVIOUS
    <3>6. f \in Seq(1 .. SectionCount) /\ DOMAIN f = 1 .. u /\ \A j \in 1 .. u : f[j] = a + j - 1
      BY <3>3, <3>4, <3>5
    <3>7. Len(f) = u
      <4>1. DOMAIN f = 1 .. Len(f) /\ Len(f) \in Nat
        BY <3>6
      <4> QED
        BY <3>1, <3>6, <4>1
    <3>8. Append(f, r) = [j \in 1 .. u + 1 |-> a + j - 1]
      <4>1. Append(f, r) \in Seq(1 .. SectionCount)
        BY <2>4, <3>6
      <4>2. Append(f, r) = [j \in 1 .. u + 1 |-> Append(f, r)[j]]
        <5>1. Len(Append(f, r)) = u + 1
          BY <3>6, <3>7
        <5>2. PICK h : h = Append(f, r)
          OBVIOUS
        <5>3. h \in Seq(1 .. SectionCount) /\ Len(h) = u + 1
          BY <4>1, <5>1, <5>2
        <5>4. h = [j \in 1 .. u + 1 |-> h[j]]
          BY <5>3
        <5> QED
          BY <5>2, <5>4
      <4>3. \A j \in 1 .. u + 1 : Append(f, r)[j] = a + j - 1
        <5> SUFFICES ASSUME NEW j \in 1 .. u + 1 PROVE Append(f, r)[j] = a + j - 1
          OBVIOUS
        <5>1. CASE j = u + 1
          BY <3>2, <3>6, <3>7, <5>1
        <5>2. CASE j # u + 1
          <6>1. j \in 1 .. u
            BY <5>2
          <6>2. Append(f, r)[j] = f[j]
            BY <3>6, <3>7, <6>1
          <6> QED
            BY <3>6, <6>1, <6>2
        <5> QED
          BY <5>1, <5>2
      <4> QED
        BY <4>2, <4>3
    <3>9. found(r + 1) = [j \in 1 .. u + 1 |-> a + j - 1]
      BY <3>2 DEF From
    <3>10. TakeOne(s).found = Append(f, r)
      BY <2>11, <3>5
    <3> HIDE DEF found
    <3> QED
      BY <3>8, <3>9, <3>10
  <2> HIDE DEF left, found, room
  <2> QED
    BY <2>3, <2>4, <2>5, <2>13, <2>14
<1> DEFINE t == TakeSections(cells)
<1>11. t \in I /\ Stuck(t)
  <2>1. cells \in Seq(Nat)
    BY <1>2, RunIs
  <2>2. I \subseteq Takes
    OBVIOUS
  <2> HIDE DEF I, cells
  <2> QED
    BY <1>8, <1>10, <2>1, <2>2, TakeSectionsEnds
<1> DEFINE keep == Len(t.left) >= HeaderSize /\ t.left[1] # Stuffing
<1>12. p.found = t.found /\ p.buffer = (IF keep THEN t.left ELSE << >>) /\ (p.expecting <=> keep)
  <2>1. p = [found |-> t.found, buffer |-> IF keep THEN t.left ELSE << >>, expecting |-> keep]
    BY DEF ConsumePayload
  <2> HIDE DEF t, cells, keep
  <2>2. p.found = t.found
    BY <2>1
  <2>3. p.buffer = IF keep THEN t.left ELSE << >>
    BY <2>1
  <2>4. p.expecting <=> keep
    BY <2>1
  <2> QED
    BY <2>2, <2>3, <2>4
<1> HIDE DEF t, cells
<1>13. PICK r \in a .. SectionCount + 1 : offsets[r] <= e /\ t.found = found(r) /\ t.left = left(r)
  BY <1>11
<1>14. t \in Takes
  BY <1>11
<1> HIDE DEF I
<1>15. offsets[r] \in Nat /\ r \in Nat
  BY <1>1, <1>2
<1>16. room(r) \in Nat /\ e - offsets[r] <= room(r) /\ Len(t.left) = room(r)
       /\ \A i \in 1 .. room(r) : t.left[i] = IF offsets[r] + i <= e THEN offsets[r] + i ELSE 0
  BY <1>5, <1>7, <1>13
<1>17. r <= SectionCount => e < offsets[r + 1]
  <2>1. SUFFICES ASSUME r <= SectionCount, offsets[r + 1] <= e PROVE FALSE
    <3>1. r <= SectionCount => offsets[r + 1] \in Nat
      BY <1>1, <1>2, <1>4, <1>15
    <3> QED
      BY <3>1
  <2>2. r \in 1 .. SectionCount
    BY <1>1, <1>2, <1>15, <2>1
  <2>3. Length(r) \in Nat /\ Length(r) > 3 /\ offsets[r + 1] = offsets[r] + Length(r)
    BY <1>4, <2>2
  <2>4. Length(r) <= room(r) /\ offsets[r] + 1 <= e
    BY <1>15, <1>16, <2>1, <2>3
  <2>5. t.left[1] = offsets[r] + 1
    <3>1. 1 \in 1 .. room(r)
      BY <1>16, <2>3, <2>4
    <3> QED
      BY <1>16, <2>4, <3>1
  <2>6. Length(r) <= Len(t.left)
    BY <1>16, <2>4
  <2>7. ~Stuck(t)
    BY <1>14, <2>2, <2>5, <2>6, LongGoesOn
  <2> QED
    BY <1>11, <2>7
<1>18. offsets[r] < e => room(r) = e - offsets[r]
  <2>1. SUFFICES ASSUME offsets[r] < e, m # e - offsets[a] PROVE FALSE
    BY <1>2, <1>15
  <2>2. PICK n \in 1 .. SectionCount : e = offsets[n + 1]
    BY <2>1
  <2>3. r # SectionCount + 1
    BY <1>1, <1>2, <1>15, <2>1
  <2>4. r \in 1 .. SectionCount
    BY <1>1, <1>2, <1>15, <2>3
  <2>5. offsets[n + 1] <= offsets[r] \/ offsets[r + 1] <= offsets[n + 1]
    BY <1>4, <2>4, MiddleOfSection
  <2>6. e < offsets[r + 1] /\ offsets[r + 1] \in Nat
    BY <1>4, <1>17, <2>4
  <2> QED
    BY <1>15, <2>1, <2>2, <2>5, <2>6
<1>19. CASE offsets[r] + HeaderSize <= e
  <2>1. room(r) = e - offsets[r] /\ room(r) >= HeaderSize /\ 1 \in 1 .. room(r)
    BY <1>15, <1>16, <1>18, <1>19 DEF HeaderSize
  <2>2. t.left[1] # Stuffing
    BY <1>15, <1>16, <1>19, <2>1 DEF HeaderSize, Stuffing
  <2>3. Len(t.left) >= HeaderSize
    BY <1>16, <2>1
  <2>4. t.left = Prefix(r, e - offsets[r])
    <3>1. PICK k \in Nat : k = room(r)
      BY <1>16
    <3>2. \A i \in 1 .. k : (IF offsets[r] + i <= e THEN offsets[r] + i ELSE Stuffing) = offsets[r] + i
      BY <1>15, <2>1, <3>1
    <3>3. t.left = Run(offsets[r], e, k)
      BY <1>13, <3>1
    <3>4. t.left = [i \in 1 .. k |-> offsets[r] + i]
      BY <3>2, <3>3 DEF Run
    <3> QED
      BY <2>1, <3>1, <3>4 DEF Prefix
  <2>5. t.left # << >>
    BY <2>1, <1>14, <1>16 DEF Takes, HeaderSize
  <2>6. p.buffer = t.left /\ p.expecting /\ p.found = found(r)
    <3>1. p.buffer = t.left
      BY <1>12, <2>2, <2>3
    <3>2. p.expecting
      BY <1>12, <2>2, <2>3
    <3>3. p.found = found(r)
      BY <1>12, <1>13
    <3> QED
      BY <3>1, <3>2, <3>3
  <2> QED
    BY <1>13, <1>17, <1>19, <2>4, <2>5, <2>6
<1>20. CASE ~(offsets[r] + HeaderSize <= e)
  <2>1. ~(Len(t.left) >= HeaderSize /\ t.left[1] # Stuffing)
    <3>1. CASE offsets[r] < e
      <4>1. Len(t.left) < HeaderSize
        BY <1>15, <1>16, <1>18, <1>20, <3>1 DEF HeaderSize
      <4> QED
        BY <1>16, <4>1 DEF HeaderSize
    <3>2. CASE ~(offsets[r] < e)
      <4>1. SUFFICES ASSUME Len(t.left) >= HeaderSize PROVE t.left[1] = 0
        BY DEF Stuffing
      <4>2. 1 \in 1 .. room(r)
        BY <1>16, <4>1 DEF HeaderSize
      <4> QED
        BY <1>15, <1>16, <3>2, <4>2
    <3> QED
      BY <3>1, <3>2
  <2>2. p.buffer = << >> /\ ~p.expecting /\ p.found = found(r)
    <3>1. p.buffer = << >>
      BY <1>12, <2>1
    <3>2. ~p.expecting
      BY <1>12, <2>1
    <3>3. p.found = found(r)
      BY <1>12, <1>13
    <3> QED
      BY <3>1, <3>2, <3>3
  <2> QED
    BY <1>13, <1>17, <1>20, <2>2
<1> QED
  BY <1>19, <1>20


-----------------------------------------------------------------------------
(* The packets that were sent.                                             *)

LEMMA EndsGrow ==
  ASSUME Layout
  PROVE  /\ Len(carried) \in Nat /\ DOMAIN carried = 1 .. Len(carried)
         /\ Sent \in Nat /\ Sent <= offsets[SectionCount + 1]
         /\ \A i \in 1 .. Len(carried) :
              /\ EndOf(i) = carried[i].to /\ EndOf(i) \in Nat /\ EndOf(i - 1) \in Nat
              /\ EndOf(i - 1) < EndOf(i) /\ EndOf(i) <= Sent
              /\ EndOf(i) <= offsets[SectionCount + 1]
<1> DEFINE K == Len(carried)
<1>1. K \in Nat /\ DOMAIN carried = 1 .. K /\ \A i \in 1 .. K : carried[i].to \in Nat
  <2>1. PICK P : P = [to : Nat, given : BOOLEAN] /\ carried \in Seq(P)
    BY DEF Layout
  <2>2. K \in Nat /\ DOMAIN carried = 1 .. K /\ \A i \in 1 .. K : carried[i] \in P
    <3>1. PICK s \in Seq(P) : s = carried
      BY <2>1
    <3>2. Len(s) \in Nat /\ DOMAIN s = 1 .. Len(s)
      BY ONLY <3>1
    <3>3. \A i \in 1 .. Len(s) : s[i] \in P
      BY ONLY <3>1
    <3> QED
      BY <3>1, <3>2, <3>3
  <2>3. \A i \in 1 .. K : carried[i] \in [to : Nat, given : BOOLEAN]
    BY <2>1, <2>2
  <2>4. \A i \in 1 .. K : carried[i].to \in Nat
    BY <2>3
  <2> QED
    BY <2>2, <2>4
<1>2. \A i \in 1 .. K : EndOf(i) = carried[i].to /\ EndOf(i) \in Nat
  BY <1>1 DEF EndOf
<1>3. \A i \in 1 .. K : EndOf(i - 1) \in Nat
  <2> SUFFICES ASSUME NEW i \in 1 .. K PROVE EndOf(i - 1) \in Nat
    OBVIOUS
  <2>1. i - 1 = 0 \/ i - 1 \in 1 .. K
    BY <1>1
  <2> QED
    BY <1>2, <2>1 DEF EndOf
<1>4. \A i \in 1 .. K : EndOf(i - 1) < EndOf(i) /\ EndOf(i) <= offsets[SectionCount + 1]
  <2> SUFFICES ASSUME NEW i \in 1 .. K
               PROVE  EndOf(i - 1) < EndOf(i) /\ EndOf(i) <= offsets[SectionCount + 1]
    OBVIOUS
  <2>1. carried[i].to \in NextEnds(EndOf(i - 1)) /\ offsets \in Multiplexes
    BY <1>1 DEF Layout
  <2>2. EndOf(i - 1) < carried[i].to /\ carried[i].to <= offsets[SectionCount + 1]
    BY <1>3, <2>1, NextEndFacts
  <2> QED
    BY <1>2, <2>2
<1>5. Sent = EndOf(K) /\ Sent \in Nat
  <2>1. K = 0 \/ K \in 1 .. K
    BY <1>1
  <2> QED
    BY <1>2, <2>1 DEF Sent, EndOf
<1>6. \A i \in 1 .. K : EndOf(i) <= Sent
  <2> DEFINE T == {d \in 0 .. K : K - d \in 1 .. K /\ ~(EndOf(K - d) <= Sent)}
  <2>1. SUFFICES ASSUME T # {} PROVE FALSE
    <3>1. \A i \in 1 .. K : K - i \in 0 .. K /\ K - (K - i) = i
      BY <1>1
    <3> QED
      BY <3>1
  <2>2. PICK x \in T : \A y \in T : x <= y
    <3>1. T \subseteq Nat /\ T # {}
      BY <1>1, <2>1
    <3> HIDE DEF T
    <3> QED
      BY <3>1, LeastNatural
  <2>3. x # 0
    BY <1>1, <1>5, <2>2
  <2>4. x - 1 \in 0 .. K /\ ~(x <= x - 1) /\ K - (x - 1) \in 1 .. K /\ K - (x - 1) - 1 = K - x
        /\ K - x \in 1 .. K /\ ~(EndOf(K - x) <= Sent)
    BY <1>1, <2>2, <2>3
  <2>5. EndOf(K - (x - 1)) <= Sent
    BY <2>2, <2>4
  <2>6. EndOf(K - x) < EndOf(K - (x - 1))
    BY <1>4, <2>4
  <2>7. EndOf(K - x) \in Nat /\ EndOf(K - (x - 1)) \in Nat
    BY <1>2, <2>4
  <2> QED
    BY <1>5, <2>4, <2>5, <2>6, <2>7
<1>7. Sent <= offsets[SectionCount + 1]
  <2>1. CASE K = 0
    <3>1. Sent = 0
      BY <1>5, <2>1 DEF EndOf
    <3>2. offsets \in Multiplexes
      BY DEF Layout
    <3>3. SectionCount \in Nat /\ \A n \in 1 .. SectionCount + 1 : offsets[n] \in Nat
      BY <3>2, OffsetsGrow
    <3>4. offsets[SectionCount + 1] \in Nat
      BY <3>3
    <3> QED
      BY <3>1, <3>4
  <2>2. CASE K # 0
    <3>1. K \in 1 .. K
      BY <1>1, <2>2
    <3> QED
      BY <1>4, <1>5, <3>1
  <2> QED
    BY <2>1, <2>2
<1> QED
  BY <1>1, <1>2, <1>3, <1>4, <1>5, <1>6, <1>7

\* What one more packet means for the sections.
LEMMA CarriedGrows ==
  ASSUME Layout, NEW to \in NextEnds(Sent), NEW g \in BOOLEAN,
         carried' = Append(carried, [to |-> to, given |-> g]), offsets' = offsets
  PROVE  /\ Layout' /\ Sent' = to /\ to \in Nat /\ Sent < to /\ Sent \in Nat
         /\ Len(carried') = Len(carried) + 1 /\ carried'[Len(carried')] = [to |-> to, given |-> g]
         /\ \A n \in 1 .. SectionCount :
              /\ offsets[n] < Sent => (Intact(n)' <=> Intact(n) /\ (Sent < offsets[n + 1] => g))
              /\ Sent <= offsets[n] =>
                   (Intact(n)' <=> (offsets[n] < to => g) /\ to - offsets[n] \notin 1 .. 2)
<1> DEFINE K == Len(carried)
<1>1. /\ K \in Nat /\ DOMAIN carried = 1 .. K /\ offsets \in Multiplexes
      /\ Sent \in Nat /\ Sent = EndOf(K)
      /\ \A i \in 1 .. K : /\ EndOf(i) = carried[i].to /\ EndOf(i) \in Nat /\ EndOf(i - 1) \in Nat
                           /\ EndOf(i - 1) < EndOf(i) /\ EndOf(i) <= Sent
  BY EndsGrow DEF Layout, Sent
<1>2. to \in Nat /\ Sent < to
  BY <1>1, NextEndFacts
<1>3. /\ carried' \in Seq([to : Nat, given : BOOLEAN]) /\ Len(carried') = K + 1
      /\ carried'[K + 1] = [to |-> to, given |-> g]
      /\ \A i \in 1 .. K : carried'[i] = carried[i]
  <2>1. [to |-> to, given |-> g] \in [to : Nat, given : BOOLEAN]
    BY <1>2
  <2>2. carried \in Seq([to : Nat, given : BOOLEAN])
    BY DEF Layout
  <2> QED
    BY <2>1, <2>2
<1>4. DOMAIN carried' = 1 .. K + 1
  BY <1>1, <1>3
<1>5. \A i \in 0 .. K : EndOf(i)' = EndOf(i)
  <2>1. \A i \in 0 .. K : i = 0 \/ i \in 1 .. K
    BY <1>1
  <2> QED
    BY <1>3, <2>1 DEF EndOf
<1>6. Sent' = to
  <2>1. Len(carried') # 0 /\ carried'[Len(carried')].to = to
    BY <1>1, <1>3
  <2> QED
    BY <2>1 DEF Sent, EndOf
<1>7. \A i \in 1 .. K + 1 : i \in 1 .. K \/ i = K + 1
  BY <1>1
<1>8. \A i \in 1 .. K + 1 : EndOf(i - 1)' = EndOf(i - 1)
  <2>1. \A i \in 1 .. K + 1 : i - 1 \in 0 .. K
    BY <1>1
  <2> QED
    BY <1>5, <2>1
<1>9. Layout'
  <2>1. \A f : NextEnds(f)' = NextEnds(f)
    BY DEF NextEnds, Room, StartsIn, Opens
  <2>2. Multiplexes' = Multiplexes
    BY DEF Multiplexes
  <2>3. K + 1 - 1 = K
    BY <1>1
  <2>4. \A i \in 1 .. K : carried'[i].to \in NextEnds(EndOf(i - 1))
    BY <1>1, <1>3 DEF Layout
  <2>5. carried'[K + 1].to \in NextEnds(EndOf(K + 1 - 1))
    BY <1>1, <1>3, <2>3
  <2>6. \A i \in DOMAIN carried' : carried'[i].to \in NextEnds(EndOf(i - 1))'
    <3> SUFFICES ASSUME NEW i \in 1 .. K + 1 PROVE carried'[i].to \in NextEnds(EndOf(i - 1))'
      BY <1>4
    <3>1. carried'[i].to \in NextEnds(EndOf(i - 1))
      BY <1>7, <2>4, <2>5
    <3>2. NextEnds(EndOf(i - 1))' = NextEnds(EndOf(i - 1))
      <4>1. EndOf(i - 1)' = EndOf(i - 1)
        BY <1>8
      <4> QED
        BY <4>1 DEF NextEnds, Room, StartsIn, Opens
    <3> QED
      BY <3>1, <3>2
  <2> QED
    BY <1>1, <1>3, <2>2, <2>6 DEF Layout
\* What the packets so far and the new one do to a section.
<1>10. ASSUME NEW n \in 1 .. SectionCount
       PROVE  Intact(n)' <=> /\ Intact(n) /\ (Sent < offsets[n + 1] /\ offsets[n] < to => g)
                             /\ to - offsets[n] \notin 1 .. 2
  <2> DEFINE carries(i) == EndOf(i - 1) < offsets[n + 1] /\ offsets[n] < carried[i].to
             splits(i) == carried[i].to - offsets[n] \in 1 .. 2
  <2>1. Intact(n) <=> \A i \in 1 .. K : (carries(i) => carried[i].given) /\ ~splits(i)
    <3>1. HeaderSize - 1 = 2
      BY DEF HeaderSize
    <3> QED
      BY <1>1, <3>1 DEF Intact, CarriersOf, HeaderSplit
  <2> DEFINE carries2(i) == EndOf(i - 1) < offsets[n + 1] /\ offsets[n] < carried'[i].to
             good2(i) == (carries2(i) => carried'[i].given) /\ ~(carried'[i].to - offsets[n] \in 1 .. 2)
             good(i) == (carries(i) => carried[i].given) /\ ~splits(i)
  <2>2. Intact(n)' <=> \A i \in 1 .. K + 1 :
            /\ (EndOf(i - 1)' < offsets[n + 1] /\ offsets[n] < carried'[i].to => carried'[i].given)
            /\ ~(carried'[i].to - offsets[n] \in 1 .. 2)
    <3>1. HeaderSize - 1 = 2
      BY DEF HeaderSize
    <3> QED
      BY <1>4, <3>1 DEF Intact, CarriersOf, HeaderSplit
  <2>3. Intact(n)' <=> \A i \in 1 .. K + 1 : good2(i)
    BY <1>8, <2>2
  <2>4. \A i \in 1 .. K : good2(i) <=> good(i)
    BY <1>3
  <2>5. good2(K + 1) <=> /\ (Sent < offsets[n + 1] /\ offsets[n] < to => g)
                         /\ to - offsets[n] \notin 1 .. 2
    <3>1. carried'[K + 1].to = to /\ carried'[K + 1].given = g /\ EndOf(K + 1 - 1) = Sent
      <4>1. K + 1 - 1 = K
        BY <1>1
      <4> QED
        BY <1>1, <1>3, <4>1
    <3> QED
      BY <3>1
  <2>6. K + 1 \in 1 .. K + 1 /\ \A i \in 1 .. K : i \in 1 .. K + 1
    BY <1>1
  <2>7. Intact(n) <=> \A i \in 1 .. K : good(i)
    BY <2>1
  <2> HIDE DEF good, good2, K
  <2> QED
    BY <1>7, <2>3, <2>4, <2>5, <2>6, <2>7
<1>11. ASSUME NEW n \in 1 .. SectionCount
       PROVE  offsets[n] \in Nat /\ offsets[n + 1] \in Nat /\ offsets[n] < offsets[n + 1]
  <2>1. SectionCount \in Nat /\ \A k \in 1 .. SectionCount + 1 : offsets[k] \in Nat
    BY <1>1, OffsetsGrow
  <2>2. n \in 1 .. SectionCount + 1 /\ n + 1 \in 1 .. SectionCount + 1 /\ n < n + 1
    BY <2>1
  <2>3. offsets[n] + HeaderSize < offsets[n + 1]
    BY <1>1, <2>2, OffsetsGrow
  <2> QED
    BY <2>1, <2>2, <2>3 DEF HeaderSize
<1>12. ASSUME NEW n \in 1 .. SectionCount, offsets[n] < Sent
       PROVE  Intact(n)' <=> Intact(n) /\ (Sent < offsets[n + 1] => g)
  <2>1. offsets[n] < to
    BY <1>1, <1>2, <1>11, <1>12
  <2>2. ASSUME Intact(n) PROVE to - offsets[n] \notin 1 .. 2
    <3>1. SUFFICES ASSUME to - offsets[n] \in 1 .. 2 PROVE FALSE
      OBVIOUS
    <3>2. Sent - offsets[n] \in 1 .. 2
      BY <1>1, <1>2, <1>11, <1>12, <3>1
    <3>3. K # 0
      <4>1. K = 0 => Sent = 0
        BY <1>1 DEF EndOf
      <4> QED
        BY <1>1, <1>11, <1>12, <4>1
    <3>4. K \in 1 .. K
      BY <1>1, <3>3
    <3>5. carried[K].to - offsets[n] \in 1 .. HeaderSize - 1
      BY <1>1, <3>2, <3>4 DEF HeaderSize
    <3> QED
      BY <1>1, <2>2, <3>4, <3>5 DEF Intact, HeaderSplit
  <2> QED
    BY <1>10, <2>1, <2>2
<1>13. ASSUME NEW n \in 1 .. SectionCount, Sent <= offsets[n]
       PROVE  Intact(n)' <=> (offsets[n] < to => g) /\ to - offsets[n] \notin 1 .. 2
  <2>1. \A i \in 1 .. K : ~(offsets[n] < carried[i].to) /\ carried[i].to - offsets[n] \notin 1 .. 2
    <3> SUFFICES ASSUME NEW i \in 1 .. K
                 PROVE  ~(offsets[n] < carried[i].to) /\ carried[i].to - offsets[n] \notin 1 .. 2
      OBVIOUS
    <3>1. carried[i].to <= Sent /\ carried[i].to \in Nat
      BY <1>1
    <3> QED
      BY <1>1, <1>11, <1>13, <3>1
  <2>2. Intact(n)
    <3>1. HeaderSize - 1 = 2
      BY DEF HeaderSize
    <3> QED
      BY <1>1, <2>1, <3>1 DEF Intact, CarriersOf, HeaderSplit
  <2>3. Sent < offsets[n + 1]
    BY <1>1, <1>11, <1>13
  <2> QED
    BY <1>10, <2>2, <2>3
<1> QED
  BY <1>1, <1>2, <1>3, <1>6, <1>9, <1>12, <1>13

LEMMA RemainderIs ==
  ASSUME NEW k \in Nat, NEW c \in Nat, c > 0, NEW q \in Nat, NEW r \in Nat, r < c, k = c * q + r
  PROVE  k % c = r
OBVIOUS

\* The continuity counter of the next packet is the next value.
LEMMA CounterGoesOn ==
  ASSUME NEW k \in Nat
  PROVE  (Counter(k) + 1) % CounterLimit = Counter(k + 1)
<1>1. PICK c \in Nat \ {0} : c = CounterLimit
  BY AssemblerConstants
<1>2. ((k % c) + 1) % c = (k + 1) % c
  <2>1. PICK q \in Nat, r \in Nat : r = k % c /\ r < c /\ k = (c * q) + r
    <3>1. k \div c \in Nat /\ k % c \in Nat /\ k % c < c /\ k = (c * (k \div c)) + (k % c)
      BY Z3
    <3> QED
      BY <3>1
  <2>2. CASE r + 1 < c
    <3>1. k + 1 = (c * q) + (r + 1)
      BY <2>1
    <3>2. (k + 1) % c = r + 1
      <4>1. k + 1 \in Nat /\ r + 1 \in Nat /\ c \in Nat /\ c > 0
        OBVIOUS
      <4> QED
        BY ONLY <4>1, <2>2, <3>1, RemainderIs
    <3>3. (r + 1) % c = r + 1
      BY <2>2
    <3> QED
      BY <2>1, <3>2, <3>3
  <2>3. CASE r + 1 = c
    <3>1. k + 1 = (c * (q + 1)) + 0
      BY <2>1, <2>3
    <3>2. (k + 1) % c = 0
      <4>1. k + 1 \in Nat /\ q + 1 \in Nat /\ c \in Nat /\ c > 0 /\ 0 \in Nat /\ 0 < c
        OBVIOUS
      <4> QED
        BY ONLY <4>1, <3>1, RemainderIs
    <3>3. (r + 1) % c = 0
      BY <2>3
    <3> QED
      BY <2>1, <3>2, <3>3
  <2> QED
    BY <2>1, <2>2, <2>3
<1> QED
  BY <1>1, <1>2 DEF Counter

\* While a section is being put together no packet is missing.
LEMMA LiveNotLost ==
  ASSUME AsmInv, repeats = 0, NEW n \in 1 .. SectionCount, Within(n), Intact(n)
  PROVE  /\ asmBuffer = Prefix(n, Sent - offsets[n]) /\ asmBuffer # << >> /\ expecting
         /\ Counter(Len(carried) + 1) = (lastCounter + 1) % CounterLimit
<1> DEFINE K == Len(carried)
<1>1. Layout /\ offsets \in Multiplexes
  BY DEF AsmInv, Layout
<1>2. SectionCount \in Nat /\ \A k \in 1 .. SectionCount + 1 : offsets[k] \in Nat
  BY <1>1, OffsetsGrow
<1>3. offsets[n] \in Nat /\ offsets[n + 1] \in Nat
  <2>1. n \in 1 .. SectionCount + 1 /\ n + 1 \in 1 .. SectionCount + 1
    BY <1>2
  <2> QED
    BY <1>2, <2>1
<1>4. /\ K \in Nat /\ DOMAIN carried = 1 .. K /\ Sent \in Nat /\ Sent = EndOf(K)
      /\ \A i \in 1 .. K : /\ EndOf(i) = carried[i].to /\ EndOf(i - 1) \in Nat
                           /\ EndOf(i - 1) < EndOf(i) /\ EndOf(i) <= Sent
  BY <1>1, EndsGrow DEF Sent
<1>5. asmBuffer = Prefix(n, Sent - offsets[n])
  BY DEF AsmInv, BufferLive
<1>6. offsets[n] < Sent /\ Sent < offsets[n + 1]
  BY DEF Within
<1>7. asmBuffer # << >>
  <2>1. 1 \in 1 .. Sent - offsets[n]
    BY <1>3, <1>4, <1>6
  <2>2. DOMAIN asmBuffer = 1 .. Sent - offsets[n]
    BY <1>5 DEF Prefix
  <2>3. DOMAIN << >> = {}
    OBVIOUS
  <2> QED
    BY <2>1, <2>2, <2>3
<1>8. expecting
  BY <1>7 DEF AsmInv, CounterKnown
<1>9. K # 0
  <2>1. K = 0 => Sent = 0
    BY <1>4 DEF EndOf
  <2> QED
    BY <1>3, <1>4, <1>6, <2>1
<1>10. K \in 1 .. K
  BY <1>4, <1>9
<1>11. carried[K].given
  <2>1. EndOf(K - 1) < offsets[n + 1] /\ offsets[n] < carried[K].to
    <3>1. EndOf(K) = carried[K].to /\ EndOf(K - 1) \in Nat /\ EndOf(K - 1) < EndOf(K)
      BY <1>4, <1>10
    <3> QED
      BY <1>3, <1>4, <1>6, <3>1
  <2> QED
    BY <1>4, <1>10, <2>1 DEF Intact, CarriersOf
<1>12. lastCounter = Counter(K)
  <2>1. carried # << >>
    <3>1. carried = << >> => DOMAIN carried = {}
      OBVIOUS
    <3> QED
      BY <1>4, <1>10, <3>1
  <2> QED
    BY <1>11, <2>1 DEF AsmInv, CounterKnown
<1> QED
  BY <1>4, <1>5, <1>7, <1>8, <1>12, CounterGoesOn


-----------------------------------------------------------------------------
(* The steps.                                                              *)

LEMMA SectionPlace ==
  ASSUME offsets \in Multiplexes
  PROVE  /\ SectionCount \in Nat
         /\ \A n \in 1 .. SectionCount :
              /\ n \in 1 .. SectionCount + 1 /\ n + 1 \in 1 .. SectionCount + 1
              /\ offsets[n] \in Nat /\ offsets[n + 1] \in Nat
              /\ Length(n) \in Nat /\ offsets[n + 1] = offsets[n] + Length(n)
              /\ offsets[n] + 3 < offsets[n + 1]
<1>1. SectionCount \in Nat /\ \A k \in 1 .. SectionCount + 1 : offsets[k] \in Nat
  BY OffsetsGrow
<1>2. ASSUME NEW n \in 1 .. SectionCount
      PROVE  /\ n \in 1 .. SectionCount + 1 /\ n + 1 \in 1 .. SectionCount + 1
             /\ offsets[n] \in Nat /\ offsets[n + 1] \in Nat
             /\ Length(n) \in Nat /\ offsets[n + 1] = offsets[n] + Length(n)
             /\ offsets[n] + 3 < offsets[n + 1]
  <2>1. n \in 1 .. SectionCount + 1 /\ n + 1 \in 1 .. SectionCount + 1 /\ n < n + 1
    BY <1>1
  <2>2. offsets[n] + HeaderSize < offsets[n + 1]
    BY <2>1, OffsetsGrow
  <2> QED
    BY <1>1, <2>1, <2>2, OffsetsGrow DEF HeaderSize
<1> QED
  BY <1>1, <1>2

LEMMA OffsetsOrder ==
  ASSUME offsets \in Multiplexes, NEW m \in 1 .. SectionCount + 1, NEW n \in 1 .. SectionCount + 1
  PROVE  /\ offsets[m] \in Nat /\ offsets[n] \in Nat
         /\ m <= n => offsets[m] <= offsets[n]
         /\ offsets[m] < offsets[n] => m < n
<1>1. SectionCount \in Nat /\ offsets[m] \in Nat /\ offsets[n] \in Nat
  BY OffsetsGrow
<1>2. m \in Nat /\ n \in Nat
  BY <1>1
<1>3. m < n => offsets[m] < offsets[n]
  <2>1. m < n => offsets[m] + HeaderSize < offsets[n]
    BY OffsetsGrow
  <2> QED
    BY <1>1, <2>1 DEF HeaderSize
<1>4. n < m => offsets[n] < offsets[m]
  <2>1. n < m => offsets[n] + HeaderSize < offsets[m]
    BY OffsetsGrow
  <2> QED
    BY <1>1, <2>1 DEF HeaderSize
<1> QED
  BY <1>1, <1>2, <1>3, <1>4

LEMMA PrefixIs ==
  ASSUME NEW n, offsets[n] \in Nat, NEW k \in Nat
  PROVE  /\ Prefix(n, k) \in Seq(Nat) /\ Len(Prefix(n, k)) = k
         /\ \A i \in 1 .. k : Prefix(n, k)[i] = offsets[n] + i
         /\ k >= 1 => Prefix(n, k) # << >>
<1>1. PICK o \in Nat : o = offsets[n]
  OBVIOUS
<1>2. Prefix(n, k) \in [1 .. k -> Nat]
  BY <1>1 DEF Prefix
<1>3. Prefix(n, k) \in Seq(Nat) /\ Len(Prefix(n, k)) = k
  BY <1>2
<1>4. \A i \in 1 .. k : Prefix(n, k)[i] = offsets[n] + i
  BY DEF Prefix
<1>5. k >= 1 => Prefix(n, k) # << >>
  BY <1>3
<1> QED
  BY <1>3, <1>4, <1>5

LEMMA RangeInside ==
  ASSUME NEW P, NEW s, s \in Seq(P)
  PROVE  Range(s) \subseteq P
<1>1. \A i \in DOMAIN s : s[i] \in P
  OBVIOUS
<1> QED
  BY <1>1 DEF Range

LEMMA LayoutStays ==
  ASSUME Layout, offsets' = offsets, carried' = carried
  PROVE  /\ Layout' /\ Sent' = Sent
         /\ \A i : EndOf(i)' = EndOf(i)
<1>1. \A i : EndOf(i)' = EndOf(i)
  BY DEF EndOf
<1>2. Sent' = Sent
  BY DEF Sent, EndOf
<1>3. Multiplexes' = Multiplexes
  BY DEF Multiplexes
<1>4. \A i \in DOMAIN carried' : carried'[i].to \in NextEnds(EndOf(i - 1))'
  <2> SUFFICES ASSUME NEW i \in DOMAIN carried PROVE carried[i].to \in NextEnds(EndOf(i - 1))'
    OBVIOUS
  <2>1. carried[i].to \in NextEnds(EndOf(i - 1))
    BY DEF Layout
  <2>2. EndOf(i - 1)' = EndOf(i - 1)
    BY <1>1
  <2>3. NextEnds(EndOf(i - 1))' = NextEnds(EndOf(i - 1))
    BY <2>2 DEF NextEnds, Room, StartsIn, Opens
  <2> QED
    BY <2>1, <2>3
<1> QED
  BY <1>1, <1>2, <1>3, <1>4 DEF Layout

LEMMA OneOrNone ==
  ASSUME NEW P, NEW B \in BOOLEAN, NEW x, B => x \in P, NEW d, d = IF B THEN <<x>> ELSE << >>
  PROVE  d \in Seq(P) /\ Increasing(d) /\ (\A y : y \in Range(d) <=> B /\ y = x)
<1>1. CASE B
  <2>1. d \in Seq(P) /\ DOMAIN d = {1} /\ d[1] = x
    BY <1>1
  <2> QED
    BY <1>1, <2>1 DEF Increasing, Range
<1>2. CASE ~B
  <2>1. d \in Seq(P) /\ DOMAIN d = {}
    BY <1>2
  <2> QED
    BY <1>2, <2>1 DEF Increasing, Range
<1> QED
  BY <1>1, <1>2

LEMMA NothingIsDecent ==
  ASSUME NEW q
  PROVE  Decent(<< >>, q)
BY DEF Decent

\* What a step has to do to the buffer.
LEMMA BufferKept ==
  ASSUME offsets' = offsets, NEW b, NEW to, asmBuffer' = b, Sent' = to, Decent(b, to),
         \A n \in 1 .. SectionCount : offsets[n] < to /\ to < offsets[n + 1] =>
            (Intact(n)' <=> b = Prefix(n, to - offsets[n]))
  PROVE  BufferOK' /\ BufferLive'
<1>1. BufferOK'
  <2>1. BufferOK' <=> Decent(b, to)
    BY DEF BufferOK, Decent, Opens, Length, Prefix
  <2> QED
    BY <2>1
<1>2. BufferLive'
  <2>1. \A n \in 1 .. SectionCount : Within(n)' => offsets[n] < to /\ to < offsets[n + 1]
    BY DEF Within
  <2>2. \A n \in 1 .. SectionCount : Prefix(n, Sent - offsets[n])' = Prefix(n, to - offsets[n])
    BY DEF Prefix
  <2> QED
    BY <2>1, <2>2 DEF BufferLive
<1> QED
  BY <1>1, <1>2

\* A lost packet leaves the section unfinished: what the buffer has of it ends before.
LEMMA LosePacketKeeps ==
  ASSUME AsmInv, LosePacket
  PROVE  AsmInv'
<1>1. PICK to \in NextEnds(Sent) :
        /\ carried' = Append(carried, [to |-> to, given |-> FALSE]) /\ offsets' = offsets
        /\ asmBuffer' = asmBuffer /\ lastCounter' = lastCounter /\ expecting' = expecting
        /\ assembled' = assembled /\ repeats' = repeats
  BY DEF LosePacket
<1>2. Layout /\ offsets \in Multiplexes /\ repeats \in Nat
  BY DEF AsmInv, Layout
<1>3. /\ Layout' /\ Sent' = to /\ to \in Nat /\ Sent < to /\ Sent \in Nat
      /\ carried'[Len(carried')].given = FALSE
      /\ \A n \in 1 .. SectionCount :
           /\ offsets[n] < Sent => (Intact(n)' <=> Intact(n) /\ ~(Sent < offsets[n + 1]))
           /\ Sent <= offsets[n] =>
                (Intact(n)' <=> ~(offsets[n] < to) /\ to - offsets[n] \notin 1 .. 2)
  <2>1. PICK g \in BOOLEAN : g = FALSE
    OBVIOUS
  <2>2. /\ Layout' /\ Sent' = to /\ to \in Nat /\ Sent < to /\ Sent \in Nat
        /\ carried'[Len(carried')] = [to |-> to, given |-> g]
        /\ \A n \in 1 .. SectionCount :
             /\ offsets[n] < Sent => (Intact(n)' <=> Intact(n) /\ (Sent < offsets[n + 1] => g))
             /\ Sent <= offsets[n] =>
                  (Intact(n)' <=> (offsets[n] < to => g) /\ to - offsets[n] \notin 1 .. 2)
    BY <1>1, <1>2, <2>1, CarriedGrows
  <2>3. carried'[Len(carried')].given = FALSE
    BY <2>1, <2>2
  <2> QED
    BY <2>1, <2>2, <2>3
<1>4. SUFFICES ASSUME repeats = 0 PROVE BufferOK' /\ BufferLive' /\ CounterKnown' /\ FoundOK'
  BY <1>1, <1>2, <1>3 DEF AsmInv
<1>5. BufferOK /\ BufferLive /\ CounterKnown /\ FoundOK
  BY <1>4 DEF AsmInv
<1>6. \A n \in 1 .. SectionCount :
        /\ offsets[n] \in Nat /\ offsets[n + 1] \in Nat /\ offsets[n] + 3 < offsets[n + 1]
  BY <1>2, SectionPlace
<1>7. ASSUME NEW n \in 1 .. SectionCount, offsets[n] < to, Sent < offsets[n + 1]
      PROVE  ~Intact(n)'
  BY <1>3, <1>6, <1>7
<1>8. asmBuffer \in Seq(Nat) /\ Len(asmBuffer) \in Nat
  BY <1>5 DEF BufferOK, Decent
<1>9. Decent(asmBuffer, to)
  <2>1. \A n \in 1 .. SectionCount : offsets[n] + Len(asmBuffer) <= Sent => offsets[n] + Len(asmBuffer) <= to
    BY <1>3, <1>6, <1>8
  <2> QED
    BY <1>5, <2>1 DEF BufferOK, Decent
<1>10. ASSUME NEW n \in 1 .. SectionCount, offsets[n] < to, to < offsets[n + 1]
       PROVE  Intact(n)' <=> asmBuffer = Prefix(n, to - offsets[n])
  <2>1. ~Intact(n)'
    BY <1>3, <1>6, <1>7, <1>10
  <2>2. SUFFICES ASSUME asmBuffer = Prefix(n, to - offsets[n]) PROVE FALSE
    BY <2>1
  <2>3. PICK k \in Nat : k = to - offsets[n] /\ k >= 1
    BY <1>3, <1>6, <1>10
  <2>4. Len(asmBuffer) = k /\ asmBuffer # << >> /\ asmBuffer[1] = offsets[n] + 1
    <3>1. /\ Len(Prefix(n, k)) = k /\ Prefix(n, k) # << >>
          /\ \A i \in 1 .. k : Prefix(n, k)[i] = offsets[n] + i
      BY <1>6, <2>3, PrefixIs
    <3>2. 1 \in 1 .. k
      BY <2>3
    <3> QED
      BY <2>2, <2>3, <3>1, <3>2
  <2>5. offsets[n] + Len(asmBuffer) <= Sent
    BY <1>5, <2>2, <2>3, <2>4 DEF BufferOK, Decent
  <2> QED
    BY <1>3, <1>6, <2>3, <2>4, <2>5
<1>11. BufferOK' /\ BufferLive'
  BY <1>1, <1>3, <1>9, <1>10, BufferKept
<1>12. CounterKnown'
  BY <1>1, <1>3, <1>5 DEF CounterKnown
<1>13. FoundOK'
  <2>1. \A n \in 1 .. SectionCount :
          offsets[n + 1] <= to /\ Intact(n)' <=> offsets[n + 1] <= Sent /\ Intact(n)
    <3> SUFFICES ASSUME NEW n \in 1 .. SectionCount
                 PROVE  offsets[n + 1] <= to /\ Intact(n)' <=> offsets[n + 1] <= Sent /\ Intact(n)
      OBVIOUS
    <3>1. CASE offsets[n + 1] <= Sent
      BY <1>3, <1>6, <3>1
    <3>2. CASE ~(offsets[n + 1] <= Sent)
      <4>1. Sent < offsets[n + 1]
        BY <1>3, <1>6, <3>2
      <4>2. offsets[n + 1] <= to => offsets[n] < to
        BY <1>3, <1>6
      <4> QED
        BY <1>7, <3>2, <4>1, <4>2
    <3> QED
      BY <3>1, <3>2
  <2>2. {n \in 1 .. SectionCount : offsets[n + 1] <= Sent /\ Intact(n)}
          = {n \in 1 .. SectionCount : offsets'[n + 1] <= Sent' /\ Intact(n)'}
    BY <1>1, <1>3, <2>1
  <2> QED
    BY <1>1, <1>5, <2>2 DEF FoundOK, Increasing, Range
<1> QED
  BY <1>11, <1>12, <1>13


\* A packet without a start goes on with section c, or is dropped.
LEMMA PlainFed ==
  ASSUME AsmInv, repeats = 0, NEW to \in NextEnds(Sent), StartsIn(Sent, to) = {},
         FeedAll(Packet(Sent, to), Counter(Len(carried) + 1))
  PROVE  \E c \in 1 .. SectionCount :
           /\ offsets[c] < Sent /\ Sent < offsets[c + 1] /\ to <= offsets[c + 1]
           /\ Decent(asmBuffer', to) /\ (expecting' <=> asmBuffer' # << >>)
           /\ lastCounter' = Counter(Len(carried) + 1)
           /\ assembled' = assembled \o IF to = offsets[c + 1] /\ Intact(c) THEN <<c>> ELSE << >>
           /\ to < offsets[c + 1] => (asmBuffer' = Prefix(c, to - offsets[c]) <=> Intact(c))
<1>1. Layout /\ offsets \in Multiplexes /\ BufferOK /\ BufferLive /\ CounterKnown /\ FoundOK
  BY DEF AsmInv, Layout
<1>2. Sent \in Nat
  BY <1>1, EndsGrow
<1>3. to \in Nat /\ Sent < to /\ PayloadSize \in Nat
  BY <1>1, <1>2, NextEndFacts
<1>4. PICK p : p = Packet(Sent, to)
  OBVIOUS
<1>5. ~p.start /\ p.cells = Run(Sent, to, PayloadSize) /\ to - Sent <= PayloadSize
  BY <1>1, <1>2, <1>4, PlainPacket
<1>6. PICK c \in 1 .. SectionCount :
        /\ offsets[c] < Sent /\ Sent < offsets[c + 1] /\ to <= offsets[c + 1]
        /\ to = offsets[c + 1] \/ to - Sent = PayloadSize
  BY <1>1, <1>2, PlainPacket
<1>7. offsets[c] \in Nat /\ offsets[c + 1] \in Nat
  BY <1>1, SectionPlace
<1> DEFINE counter == Counter(Len(carried) + 1)
           lost == expecting /\ counter # (lastCounter + 1) % CounterLimit
           t == TakeSections(asmBuffer \o p.cells)
<1>8. /\ lastCounter' = counter
      /\ ~expecting \/ lost =>
           /\ asmBuffer' = (IF lost THEN << >> ELSE asmBuffer)
           /\ expecting' = FALSE /\ assembled' = assembled
      /\ ~(~expecting \/ lost) =>
           /\ assembled' = assembled \o t.found
           /\ asmBuffer' = t.left /\ expecting' = (t.left # << >>)
  BY <1>4, <1>5 DEF FeedAll
<1>9. Intact(c) <=> asmBuffer = Prefix(c, Sent - offsets[c])
  BY <1>1, <1>6 DEF BufferLive, Within
<1>10. CASE ~expecting \/ lost
  <2>1. asmBuffer' = << >> /\ ~expecting' /\ assembled' = assembled
    BY <1>1, <1>8, <1>10 DEF CounterKnown
  <2>2. ~Intact(c)
    BY <1>6, <1>10, LiveNotLost DEF Within
  <2>3. Decent(asmBuffer', to)
    BY <2>1, NothingIsDecent
  <2>4. to < offsets[c + 1] => asmBuffer' # Prefix(c, to - offsets[c])
    <3>1. PICK k \in Nat : k = to - offsets[c] /\ k >= 1
      BY <1>2, <1>3, <1>6, <1>7
    <3>2. Prefix(c, k) # << >>
      BY <1>7, <3>1, PrefixIs
    <3> QED
      BY <2>1, <3>1, <3>2
  <2>5. assembled' = assembled \o << >>
    BY <1>1, <2>1 DEF FoundOK
  <2> HIDE DEF lost, t
  <2> QED
    BY <1>6, <1>8, <2>1, <2>2, <2>3, <2>4, <2>5
<1>11. CASE ~(~expecting \/ lost)
  <2>1. asmBuffer # << >> /\ Decent(asmBuffer, Sent)
    BY <1>1, <1>11 DEF CounterKnown, BufferOK
  <2>2. PICK b, q, m, u : b = asmBuffer /\ q = Sent /\ m = PayloadSize /\ u = t
    OBVIOUS
  <2>3. /\ q \in Nat /\ Decent(b, q) /\ b # << >> /\ offsets[c] < q /\ q < offsets[c + 1]
        /\ to \in Nat /\ q < to /\ to <= offsets[c + 1] /\ m \in Nat /\ to - q <= m
        /\ m = to - q \/ to = offsets[c + 1]
        /\ u = TakeSections(b \o Run(q, to, m))
    BY <1>2, <1>3, <1>5, <1>6, <2>1, <2>2
  <2>4. /\ u.found = IF to = offsets[c + 1] /\ b = Prefix(c, q - offsets[c]) THEN <<c>> ELSE << >>
        /\ Decent(u.left, to)
        /\ to < offsets[c + 1] =>
             (u.left = Prefix(c, to - offsets[c]) <=> b = Prefix(c, q - offsets[c]))
    BY <1>1, <2>3, TakeContinued
  <2>5. assembled' = assembled \o u.found /\ asmBuffer' = u.left /\ (expecting' <=> u.left # << >>)
    BY <1>8, <1>11, <2>2
  <2>6. Intact(c) <=> b = Prefix(c, q - offsets[c])
    BY <1>9, <2>2
  <2>7. u.found = IF to = offsets[c + 1] /\ Intact(c) THEN <<c>> ELSE << >>
    BY <2>4, <2>6
  <2> HIDE DEF lost, t
  <2> QED
    BY <1>6, <1>8, <2>4, <2>5, <2>6, <2>7
<1> QED
  BY <1>10, <1>11

\* A packet with a start ends the section before, if that is not lost, and gives the
\* sections from a on; section r is the one that goes on behind it.
LEMMA StartFed ==
  ASSUME AsmInv, repeats = 0, NEW to \in NextEnds(Sent), StartsIn(Sent, to) # {},
         FeedAll(Packet(Sent, to), Counter(Len(carried) + 1))
  PROVE  \E a \in 1 .. SectionCount : \E r \in a .. SectionCount + 1 :
           /\ Sent <= offsets[a] /\ offsets[a] < to
           /\ Sent < offsets[a] => a - 1 \in 1 .. SectionCount /\ offsets[a - 1] < Sent
           /\ offsets[r] <= to /\ (r <= SectionCount => to < offsets[r + 1])
           /\ lastCounter' = Counter(Len(carried) + 1)
           /\ assembled' = (assembled \o IF Sent < offsets[a] /\ Intact(a - 1) THEN <<a - 1>> ELSE << >>)
                             \o From(a, r)
           /\ expecting' <=> asmBuffer' # << >>
           /\ asmBuffer' = IF offsets[r] + HeaderSize <= to THEN Prefix(r, to - offsets[r]) ELSE << >>
<1>1. Layout /\ offsets \in Multiplexes /\ BufferOK /\ BufferLive /\ CounterKnown /\ FoundOK
  BY DEF AsmInv, Layout
<1>2. Sent \in Nat
  BY <1>1, EndsGrow
<1>3. /\ to \in Nat /\ Sent < to /\ PayloadSize \in Nat /\ PayloadSize - 1 \in Nat
      /\ to <= offsets[SectionCount + 1] /\ to - Sent <= PayloadSize - 1
      /\ to - Sent < PayloadSize - 1 => \E n \in 1 .. SectionCount : to = offsets[n + 1]
  <2>1. Room(Sent, to) = PayloadSize - 1
    BY DEF Room
  <2>2. /\ to \in Nat /\ Sent < to /\ PayloadSize \in Nat /\ PayloadSize > HeaderSize
        /\ to <= offsets[SectionCount + 1] /\ to - Sent <= Room(Sent, to)
        /\ to - Sent < Room(Sent, to) => \E n \in 1 .. SectionCount : to = offsets[n + 1]
    BY <1>1, <1>2, NextEndFacts
  <2>3. PayloadSize - 1 \in Nat
    BY <2>2 DEF HeaderSize
  <2> QED
    BY <2>1, <2>2, <2>3
<1>4. PICK p : p = Packet(Sent, to)
  OBVIOUS
<1>5. PICK a \in 1 .. SectionCount :
        /\ p.start /\ p.cells = Run(Sent, to, PayloadSize - 1)
        /\ p.pointer \in 0 .. PayloadSize - 1
        /\ offsets[a] = Sent + p.pointer /\ offsets[a] < to
        /\ p.pointer = 0 \/ (a - 1 \in 1 .. SectionCount /\ offsets[a - 1] < Sent)
  BY <1>1, <1>2, <1>4, StartingPacket
<1>6. PICK w, k : w = PayloadSize - 1 /\ k = p.pointer
  OBVIOUS
<1>7. /\ w \in Nat /\ k \in 0 .. w /\ k \in Nat /\ offsets[a] = Sent + k /\ offsets[a] \in Nat
      /\ p.cells = Run(Sent, to, w)
  BY <1>1, <1>3, <1>5, <1>6, SectionPlace
<1>8. Len(p.cells) = w
  <2>1. PICK s \in Nat : s = Sent
    BY <1>2
  <2>2. Len(Run(s, to, w)) = w
    BY <1>3, <1>7, RunIs
  <2> QED
    BY <1>7, <2>1, <2>2
<1>9. /\ SubSeq(p.cells, k + 1, w) = Run(offsets[a], to, w - k)
      /\ SubSeq(p.cells, 1, k) = Run(Sent, to, k)
  <2>1. PICK s \in Nat : s = Sent
    BY <1>2
  <2>2. /\ SubSeq(Run(s, to, w), k + 1, w) = Run(s + k, to, w - k)
        /\ SubSeq(Run(s, to, w), 1, k) = Run(s, to, k)
    <3>1. to \in Nat /\ w \in Nat /\ k \in 0 .. w
      BY <1>3, <1>7
    <3> QED
      BY ONLY <3>1, RunCut
  <2> QED
    BY <1>7, <2>1, <2>2
<1> DEFINE counter == Counter(Len(carried) + 1)
           lost == expecting /\ counter # (lastCounter + 1) % CounterLimit
           buf == IF lost THEN << >> ELSE asmBuffer
           tail == IF buf # << >> /\ k > 0
                   THEN TakeSections(buf \o SubSeq(p.cells, 1, k)).found ELSE << >>
           more == ConsumePayload(SubSeq(p.cells, k + 1, Len(p.cells)))
<1>10. /\ lastCounter' = counter
       /\ assembled' = assembled \o tail \o more.found
       /\ asmBuffer' = more.buffer /\ expecting' = more.expecting
  BY <1>4, <1>5, <1>6 DEF FeedAll
<1>11. PICK r \in a .. SectionCount + 1 :
         /\ offsets[r] <= to /\ (r <= SectionCount => to < offsets[r + 1])
         /\ more.found = From(a, r)
         /\ more.expecting <=> more.buffer # << >>
         /\ more.buffer = IF offsets[r] + HeaderSize <= to THEN Prefix(r, to - offsets[r]) ELSE << >>
  <2>1. PICK m, mo : m = w - k /\ mo = more
    OBVIOUS
  <2>2. mo = ConsumePayload(Run(offsets[a], to, m))
    BY <1>8, <1>9, <2>1
  <2>3. m \in Nat /\ to - offsets[a] <= m
    <3>1. PICK o \in Nat, x \in Nat, y \in Nat : o = offsets[a] /\ x = Sent /\ y = to
      BY <1>2, <1>3, <1>7
    <3>2. o = x + k /\ m = w - k /\ y - x <= w /\ k <= w
      BY <1>3, <1>6, <1>7, <2>1, <3>1
    <3>3. m \in Nat /\ y - o <= m
      BY <1>7, <3>1, <3>2
    <3> QED
      BY <3>1, <3>3
  <2>4. m = to - offsets[a] \/ \E n \in 1 .. SectionCount : to = offsets[n + 1]
    <3>1. m # to - offsets[a] => to - Sent < w
      <4>1. PICK o \in Nat, x \in Nat, y \in Nat : o = offsets[a] /\ x = Sent /\ y = to
        BY <1>2, <1>3, <1>7
      <4>2. o = x + k /\ m = w - k /\ y - x <= w
        BY <1>3, <1>6, <1>7, <2>1, <4>1
      <4>3. m # y - o => y - x < w
        BY <1>7, <4>1, <4>2
      <4> QED
        BY <4>1, <4>3
    <3> QED
      BY <1>3, <1>6, <3>1
  <2>5. \E r \in a .. SectionCount + 1 :
         /\ offsets[r] <= to /\ (r <= SectionCount => to < offsets[r + 1])
         /\ mo.found = From(a, r)
         /\ mo.expecting <=> mo.buffer # << >>
         /\ mo.buffer = IF offsets[r] + HeaderSize <= to THEN Prefix(r, to - offsets[r]) ELSE << >>
    <3>1. /\ offsets \in Multiplexes /\ a \in 1 .. SectionCount /\ to \in Nat
          /\ offsets[a] < to /\ to <= offsets[SectionCount + 1]
          /\ m \in Nat /\ to - offsets[a] <= m
          /\ m = to - offsets[a] \/ \E n \in 1 .. SectionCount : to = offsets[n + 1]
          /\ mo = ConsumePayload(Run(offsets[a], to, m))
      BY <1>1, <1>3, <1>5, <2>2, <2>3, <2>4
    <3> QED
      BY ONLY <3>1, ConsumeStarts
  <2> HIDE DEF more
  <2> QED
    BY <2>1, <2>5
<1>12. tail = IF Sent < offsets[a] /\ Intact(a - 1) THEN <<a - 1>> ELSE << >>
  <2>1. CASE k = 0
    <3>1. ~(Sent < offsets[a]) /\ tail = << >>
      BY <1>2, <1>7, <2>1
    <3> QED
      BY <3>1
  <2>2. CASE k # 0
    <3>1. PICK c \in 1 .. SectionCount : c = a - 1 /\ offsets[c] < Sent
      BY <1>5, <1>6, <2>2
    <3>2. c + 1 = a /\ k > 0 /\ Sent < offsets[a] /\ offsets[c] \in Nat /\ offsets[c + 1] = offsets[a]
      <4>1. SectionCount \in Nat
        BY AssemblerConstants
      <4>2. a \in Int
        BY <4>1
      <4>3. c + 1 = a
        BY <3>1, <4>2
      <4>4. offsets[c] \in Nat
        BY <1>1, SectionPlace
      <4> QED
        BY <1>2, <1>7, <2>2, <4>3, <4>4
    <3>3. Within(c)
      BY <3>1, <3>2 DEF Within
    <3>4. Intact(c) <=> asmBuffer = Prefix(c, Sent - offsets[c])
      BY <1>1, <3>3 DEF BufferLive
    <3>5. CASE buf = << >>
      <4>1. ~Intact(c)
        <5>1. SUFFICES ASSUME Intact(c) PROVE FALSE
          OBVIOUS
        <5>2. asmBuffer # << >> /\ ~lost
          BY <3>3, <5>1, LiveNotLost
        <5> QED
          BY <3>5, <5>2
      <4>2. tail = << >>
        BY <3>5
      <4> HIDE DEF tail
      <4> QED
        BY <3>1, <4>1, <4>2
    <3>6. CASE buf # << >>
      <4>1. buf = asmBuffer /\ asmBuffer # << >> /\ Decent(asmBuffer, Sent)
        BY <1>1, <3>6 DEF BufferOK
      <4>2. Run(Sent, to, k) = Run(Sent, offsets[a], k)
        <5>1. \A i \in 1 .. k : Sent + i <= to /\ Sent + i <= offsets[a]
          BY <1>2, <1>3, <1>5, <1>7
        <5> QED
          BY <5>1 DEF Run
      <4>3. PICK b, q, e, u : /\ b = asmBuffer /\ q = Sent /\ e = offsets[a]
                              /\ u = TakeSections(buf \o SubSeq(p.cells, 1, k))
        OBVIOUS
      <4>4. /\ q \in Nat /\ Decent(b, q) /\ b # << >> /\ offsets[c] < q /\ q < offsets[c + 1]
            /\ e \in Nat /\ q < e /\ e <= offsets[c + 1] /\ e = offsets[c + 1]
            /\ k \in Nat /\ e - q <= k
            /\ u = TakeSections(b \o Run(q, e, k))
        <5>1. q \in Nat /\ Decent(b, q) /\ b # << >> /\ offsets[c] < q /\ q < offsets[c + 1]
          BY <1>2, <3>1, <3>2, <4>1, <4>3
        <5>2. e = q + k /\ e = offsets[c + 1] /\ k > 0
          BY <1>7, <3>2, <4>3
        <5>3. e \in Nat /\ q < e /\ e <= offsets[c + 1] /\ e - q <= k /\ k \in Nat
          BY <1>7, <3>2, <5>1, <5>2
        <5>4. u = TakeSections(b \o Run(q, e, k))
          BY <1>9, <4>1, <4>2, <4>3
        <5> QED
          BY <5>1, <5>2, <5>3, <5>4
      <4>5. u.found = IF e = offsets[c + 1] /\ b = Prefix(c, q - offsets[c]) THEN <<c>> ELSE << >>
        <5>1. offsets \in Multiplexes /\ c \in 1 .. SectionCount
          BY <1>1, <3>1
        <5> QED
          BY ONLY <4>4, <5>1, TakeContinued
      <4>6. u.found = IF Intact(c) THEN <<c>> ELSE << >>
        BY <3>4, <4>3, <4>4, <4>5
      <4>7. tail = u.found
        BY <3>2, <3>6, <4>3
      <4> HIDE DEF tail
      <4> QED
        BY <3>1, <3>2, <4>6, <4>7
    <3> QED
      BY <3>5, <3>6
  <2> QED
    BY <2>1, <2>2
<1>13. expecting' <=> asmBuffer' # << >>
  BY <1>10, <1>11
<1>14. Sent <= offsets[a] /\ (Sent < offsets[a] => a - 1 \in 1 .. SectionCount /\ offsets[a - 1] < Sent)
  <2>1. Sent <= offsets[a] /\ (k = 0 => ~(Sent < offsets[a]))
    BY <1>2, <1>7
  <2> QED
    BY <1>5, <1>6, <2>1
<1>15. /\ assembled' = (assembled \o tail) \o From(a, r)
       /\ asmBuffer' = IF offsets[r] + HeaderSize <= to THEN Prefix(r, to - offsets[r]) ELSE << >>
       /\ lastCounter' = Counter(Len(carried) + 1)
  BY <1>10, <1>11
<1> HIDE DEF tail, more, lost, buf, counter
<1> QED
  BY <1>5, <1>11, <1>12, <1>13, <1>14, <1>15


LEMMA FromIs ==
  ASSUME SectionCount \in Nat, NEW a \in 1 .. SectionCount, NEW r \in a .. SectionCount + 1
  PROVE  /\ From(a, r) \in Seq(1 .. SectionCount) /\ Increasing(From(a, r))
         /\ \A y : y \in Range(From(a, r)) <=> y \in a .. r - 1
<1>1. a \in Nat /\ a >= 1 /\ r \in Nat /\ a <= r /\ r <= SectionCount + 1
  OBVIOUS
<1>2. PICK f, u : f = From(a, r) /\ u = r - a
  OBVIOUS
<1>3. u \in Nat
  BY <1>1, <1>2
<1>4. DOMAIN f = 1 .. u /\ \A j \in 1 .. u : f[j] = a + j - 1
  BY <1>2 DEF From
<1>5. \A j \in 1 .. u : a + j - 1 \in 1 .. SectionCount
  BY <1>1, <1>2
<1>6. f \in Seq(1 .. SectionCount)
  <2>1. f \in [1 .. u -> 1 .. SectionCount]
    <3>1. f = [j \in 1 .. u |-> a + j - 1]
      BY <1>2 DEF From
    <3> QED
      BY <1>5, <3>1
  <2> QED
    BY <1>3, <2>1
<1>7. Increasing(f)
  <2> SUFFICES ASSUME NEW i \in 1 .. u, NEW j \in 1 .. u, i < j PROVE f[i] < f[j]
    BY <1>4 DEF Increasing
  <2>1. f[i] = a + i - 1 /\ f[j] = a + j - 1
    BY <1>4
  <2> QED
    BY <1>1, <2>1
<1>8. ASSUME NEW y \in a .. r - 1 PROVE y \in Range(f)
  <2>1. y - a + 1 \in 1 .. u /\ a + (y - a + 1) - 1 = y
    BY <1>1, <1>2
  <2>2. f[y - a + 1] = y
    BY <1>4, <2>1
  <2> QED
    BY <1>4, <2>1, <2>2 DEF Range
<1>9. ASSUME NEW y \in Range(f) PROVE y \in a .. r - 1
  <2>1. PICK j \in 1 .. u : y = f[j]
    BY <1>4 DEF Range
  <2>2. y = a + j - 1
    BY <1>4, <2>1
  <2> QED
    BY <1>1, <1>2, <2>2
<1> QED
  BY <1>2, <1>6, <1>7, <1>8, <1>9

\* Sections d are found now that the bytes up to to are there.
LEMMA FoundGrows ==
  ASSUME offsets \in Multiplexes, offsets' = offsets, FoundOK, Sent \in Nat,
         NEW d, d \in Seq(1 .. SectionCount), Increasing(d), assembled' = assembled \o d,
         NEW to, Sent' = to,
         \A n \in 1 .. SectionCount :
           offsets[n + 1] <= to /\ Intact(n)' <=> (offsets[n + 1] <= Sent /\ Intact(n)) \/ n \in Range(d),
         \A x \in Range(d) : Sent < offsets[x + 1]
  PROVE  FoundOK'
<1>1. assembled \in Seq(1 .. SectionCount) /\ Increasing(assembled)
      /\ Range(assembled) = {n \in 1 .. SectionCount : offsets[n + 1] <= Sent /\ Intact(n)}
  BY DEF FoundOK
<1>2. Range(d) \subseteq 1 .. SectionCount
  <2>1. PICK P, t : P = 1 .. SectionCount /\ t = d /\ t \in Seq(P)
    OBVIOUS
  <2>2. Range(t) \subseteq P
    BY ONLY <2>1, RangeInside
  <2> QED
    BY <2>1, <2>2
<1>3. Before(assembled, d)
  <2> SUFFICES ASSUME NEW y \in Range(assembled), NEW x \in Range(d) PROVE y < x
    BY DEF Before
  <2>1. y \in 1 .. SectionCount /\ x \in 1 .. SectionCount
        /\ offsets[y + 1] <= Sent /\ Sent < offsets[x + 1]
    BY <1>1, <1>2
  <2>2. /\ y + 1 \in 1 .. SectionCount + 1 /\ x + 1 \in 1 .. SectionCount + 1
        /\ offsets[y + 1] \in Nat /\ offsets[x + 1] \in Nat /\ SectionCount \in Nat
    BY <2>1, SectionPlace
  <2>3. offsets[y + 1] < offsets[x + 1]
    BY <2>1, <2>2
  <2>4. y + 1 < x + 1
    BY <2>2, <2>3, OffsetsOrder
  <2>5. y \in Nat /\ x \in Nat
    BY <2>1, <2>2
  <2> QED
    BY <2>4, <2>5
<1>4. /\ assembled \o d \in Seq(1 .. SectionCount)
      /\ Range(assembled \o d) = Range(assembled) \cup Range(d) /\ Increasing(assembled \o d)
  <2>1. PICK P, s, t : P = 1 .. SectionCount /\ s = assembled /\ t = d
    OBVIOUS
  <2>2. s \in Seq(P) /\ t \in Seq(P) /\ Increasing(s) /\ Increasing(t) /\ Before(s, t)
    BY <1>1, <1>3, <2>1
  <2>3. s \o t \in Seq(P) /\ Range(s \o t) = Range(s) \cup Range(t) /\ Increasing(s \o t)
    BY ONLY <2>2, IncreasingConcat
  <2> QED
    BY <2>1, <2>3
<1>5. Range(assembled \o d) = {n \in 1 .. SectionCount : offsets[n + 1] <= to /\ Intact(n)'}
  BY <1>1, <1>2, <1>4
<1>6. PICK s : s = assembled \o d
  OBVIOUS
<1>7. /\ assembled' = s /\ s \in Seq(1 .. SectionCount) /\ Increasing(s)
      /\ Range(s) = {n \in 1 .. SectionCount : offsets'[n + 1] <= Sent' /\ Intact(n)'}
  BY <1>4, <1>5, <1>6
<1>8. Increasing(assembled)' /\ Range(assembled)' = Range(s)
  BY <1>7 DEF Increasing, Range
<1> QED
  BY <1>7, <1>8 DEF FoundOK

\* The packets of a section that arrive put it together, and no others do.
LEMMA FeedPacketKeeps ==
  ASSUME AsmInv, FeedPacket
  PROVE  AsmInv'
<1>1. PICK to \in NextEnds(Sent) :
        /\ FeedAll(Packet(Sent, to), Counter(Len(carried) + 1))
        /\ carried' = Append(carried, [to |-> to, given |-> TRUE])
        /\ offsets' = offsets /\ repeats' = repeats
  BY DEF FeedPacket
<1>2. Layout /\ offsets \in Multiplexes /\ repeats \in Nat
  BY DEF AsmInv, Layout
<1>3. /\ Layout' /\ Sent' = to /\ to \in Nat /\ Sent < to /\ Sent \in Nat
      /\ Len(carried') = Len(carried) + 1
      /\ \A n \in 1 .. SectionCount :
           /\ offsets[n] < Sent => (Intact(n)' <=> Intact(n))
           /\ Sent <= offsets[n] => (Intact(n)' <=> to - offsets[n] \notin 1 .. 2)
  <2>1. PICK g \in BOOLEAN : g = TRUE
    OBVIOUS
  <2>2. /\ Layout' /\ Sent' = to /\ to \in Nat /\ Sent < to /\ Sent \in Nat
        /\ Len(carried') = Len(carried) + 1
        /\ \A n \in 1 .. SectionCount :
             /\ offsets[n] < Sent => (Intact(n)' <=> Intact(n) /\ (Sent < offsets[n + 1] => g))
             /\ Sent <= offsets[n] =>
                  (Intact(n)' <=> (offsets[n] < to => g) /\ to - offsets[n] \notin 1 .. 2)
    BY <1>1, <1>2, <2>1, CarriedGrows
  <2> QED
    BY <2>1, <2>2
<1>3a. to \in Nat /\ Sent < to /\ Sent \in Nat
  BY <1>3
<1>4. SUFFICES ASSUME repeats = 0 PROVE BufferOK' /\ BufferLive' /\ CounterKnown' /\ FoundOK'
  BY <1>1, <1>2, <1>3 DEF AsmInv
<1>5. BufferOK /\ BufferLive /\ CounterKnown /\ FoundOK
  BY <1>4 DEF AsmInv
<1>6. SectionCount \in Nat /\ \A n \in 1 .. SectionCount :
        /\ n \in 1 .. SectionCount + 1 /\ n + 1 \in 1 .. SectionCount + 1
        /\ offsets[n] \in Nat /\ offsets[n + 1] \in Nat /\ offsets[n] + 3 < offsets[n + 1]
  BY <1>2, SectionPlace
<1>7. ASSUME expecting' <=> asmBuffer' # << >>, lastCounter' = Counter(Len(carried) + 1)
      PROVE  CounterKnown'
  <2>1. Counter(Len(carried))' = Counter(Len(carried) + 1)
    BY <1>3 DEF Counter
  <2> QED
    BY <1>7, <2>1 DEF CounterKnown
<1>8. CASE StartsIn(Sent, to) = {}
  <2>1. PICK c \in 1 .. SectionCount :
          /\ offsets[c] < Sent /\ Sent < offsets[c + 1] /\ to <= offsets[c + 1]
          /\ Decent(asmBuffer', to) /\ (expecting' <=> asmBuffer' # << >>)
          /\ lastCounter' = Counter(Len(carried) + 1)
          /\ assembled' = assembled \o IF to = offsets[c + 1] /\ Intact(c) THEN <<c>> ELSE << >>
          /\ to < offsets[c + 1] => (asmBuffer' = Prefix(c, to - offsets[c]) <=> Intact(c))
    BY <1>1, <1>4, <1>8, PlainFed
  <2>2. Intact(c)' <=> Intact(c)
    BY <1>3, <2>1
  <2>2a. /\ offsets[c] \in Nat /\ offsets[c + 1] \in Nat /\ offsets[c] < Sent
         /\ Sent < offsets[c + 1] /\ to <= offsets[c + 1]
    BY <1>6, <2>1
  <2>3. BufferOK' /\ BufferLive'
    <3>1. ASSUME NEW n \in 1 .. SectionCount, offsets[n] < to, to < offsets[n + 1]
          PROVE  Intact(n)' <=> asmBuffer' = Prefix(n, to - offsets[n])
      <4>1. offsets[c + 1] <= offsets[n] \/ offsets[n + 1] <= offsets[c + 1]
        BY <1>2, <1>6, MiddleOfSection
      <4>2. to < offsets[c + 1] /\ offsets[c] < to
        <5>1. offsets[n] \in Nat /\ offsets[n + 1] \in Nat
          BY <1>6
        <5> QED
          BY <1>3a, <2>2a, <3>1, <4>1, <5>1
      <4>3. n = c
        <5>1. offsets[n] <= to
          BY <1>3a, <1>6, <3>1
        <5> QED
          BY <1>2, <1>3a, <3>1, <4>2, <5>1, OneSection
      <4> QED
        BY <2>1, <2>2, <4>2, <4>3
    <3>2. PICK b : b = asmBuffer'
      OBVIOUS
    <3> QED
      BY <1>1, <1>3, <2>1, <3>1, <3>2, BufferKept
  <2>4. FoundOK'
    <3>1. PICK B, d : B = (to = offsets[c + 1] /\ Intact(c)) /\ B \in BOOLEAN
                      /\ d = IF B THEN <<c>> ELSE << >>
      BY DEF Intact
    <3>2. d \in Seq(1 .. SectionCount) /\ Increasing(d) /\ (\A y : y \in Range(d) <=> B /\ y = c)
      BY <3>1, OneOrNone
    <3>3. ASSUME NEW n \in 1 .. SectionCount
          PROVE  offsets[n + 1] <= to /\ Intact(n)'
                   <=> (offsets[n + 1] <= Sent /\ Intact(n)) \/ n \in Range(d)
      <4>1. CASE offsets[n + 1] <= Sent
        <5>1. n # c /\ offsets[n] < Sent /\ offsets[n + 1] <= to
          <6>1. offsets[n] \in Nat /\ offsets[n + 1] \in Nat /\ offsets[n] + 3 < offsets[n + 1]
            BY <1>6
          <6>2. offsets[n] < Sent /\ offsets[n + 1] <= to
            BY <1>3a, <4>1, <6>1
          <6>3. ~(Sent < offsets[n + 1])
            BY <1>3a, <4>1, <6>1
          <6> QED
            BY <2>2a, <6>2, <6>3
        <5> QED
          BY <1>3, <3>2, <4>1, <5>1
      <4>2. CASE ~(offsets[n + 1] <= Sent) /\ offsets[n + 1] <= to
        <5>1. offsets[n + 1] <= offsets[c] \/ offsets[c + 1] <= offsets[n + 1]
          BY <1>2, <1>6, MiddleOfSection
        <5>2. to = offsets[c + 1] /\ offsets[n + 1] = offsets[c + 1]
          <6>1. offsets[n + 1] \in Nat
            BY <1>6
          <6>2. ~(offsets[n + 1] <= offsets[c])
            BY <1>3a, <2>2a, <4>2, <6>1
          <6> QED
            BY <1>3a, <2>2a, <4>2, <5>1, <6>1, <6>2
        <5>3. offsets[n] <= offsets[c] \/ offsets[c + 1] <= offsets[n]
          BY <1>2, <1>6, MiddleOfSection
        <5>4. offsets[n] <= Sent /\ Sent < offsets[n + 1]
          BY <1>3, <1>6, <2>1, <5>2, <5>3
        <5>5. n = c
          BY <1>2, <1>3, <2>1, <5>4, OneSection
        <5> QED
          BY <2>2, <3>1, <3>2, <4>2, <5>2, <5>5
      <4>3. CASE ~(offsets[n + 1] <= to)
        <5>0. offsets[n + 1] \in Nat
          BY <1>6
        <5>1. ~(offsets[n + 1] <= Sent)
          BY <1>3a, <4>3, <5>0
        <5>2. ~(B /\ n = c)
          <6>1. B => to = offsets[c + 1]
            BY <3>1
          <6> QED
            BY <1>3a, <4>3, <6>1
        <5> QED
          BY <3>2, <4>3, <5>1, <5>2
      <4> QED
        BY <4>1, <4>2, <4>3
    <3>4. \A x \in Range(d) : Sent < offsets[x + 1]
      BY <2>1, <3>2
    <3>5. assembled' = assembled \o d
      BY <2>1, <3>1
    <3> QED
      BY <1>1, <1>2, <1>3, <1>5, <3>2, <3>3, <3>4, <3>5, FoundGrows
  <2>5. CounterKnown'
    BY <1>7, <2>1
  <2> QED
    BY <2>3, <2>4, <2>5
<1>9. CASE StartsIn(Sent, to) # {}
  <2>1. PICK a \in 1 .. SectionCount : \E r \in a .. SectionCount + 1 :
           /\ Sent <= offsets[a] /\ offsets[a] < to
           /\ Sent < offsets[a] => a - 1 \in 1 .. SectionCount /\ offsets[a - 1] < Sent
           /\ offsets[r] <= to /\ (r <= SectionCount => to < offsets[r + 1])
           /\ lastCounter' = Counter(Len(carried) + 1)
           /\ assembled' = (assembled \o IF Sent < offsets[a] /\ Intact(a - 1) THEN <<a - 1>> ELSE << >>)
                             \o From(a, r)
           /\ expecting' <=> asmBuffer' # << >>
           /\ asmBuffer' = IF offsets[r] + HeaderSize <= to THEN Prefix(r, to - offsets[r]) ELSE << >>
    BY <1>1, <1>4, <1>9, StartFed
  <2>2. PICK r \in a .. SectionCount + 1 :
           /\ Sent <= offsets[a] /\ offsets[a] < to
           /\ Sent < offsets[a] => a - 1 \in 1 .. SectionCount /\ offsets[a - 1] < Sent
           /\ offsets[r] <= to /\ (r <= SectionCount => to < offsets[r + 1])
           /\ lastCounter' = Counter(Len(carried) + 1)
           /\ assembled' = (assembled \o IF Sent < offsets[a] /\ Intact(a - 1) THEN <<a - 1>> ELSE << >>)
                             \o From(a, r)
           /\ expecting' <=> asmBuffer' # << >>
           /\ asmBuffer' = IF offsets[r] + 3 <= to THEN Prefix(r, to - offsets[r]) ELSE << >>
    BY <2>1 DEF HeaderSize
  <2>3. /\ a \in Nat /\ r \in Nat /\ a <= r /\ a >= 1 /\ r <= SectionCount + 1
        /\ a \in 1 .. SectionCount + 1 /\ r \in 1 .. SectionCount + 1
    BY <1>6
  <2>4. offsets[a] \in Nat /\ offsets[r] \in Nat /\ offsets[a] <= offsets[r]
    BY <1>2, <2>3, OffsetsOrder
  <2>5. to <= offsets[SectionCount + 1] /\ offsets[SectionCount + 1] \in Nat
    <3>1. SectionCount + 1 \in 1 .. SectionCount + 1
      BY <1>6
    <3> QED
      BY <1>2, <1>3, <3>1, NextEndFacts, OffsetsOrder
  <2>6. r = SectionCount + 1 => to = offsets[r]
    BY <1>3, <2>2, <2>4, <2>5
  <2>7. r # SectionCount + 1 => r \in 1 .. SectionCount /\ to < offsets[r + 1]
    BY <1>6, <2>2, <2>3
  <2>8. BufferOK' /\ BufferLive'
    <3>1. PICK b : b = asmBuffer'
      OBVIOUS
    <3>2. CASE offsets[r] + 3 <= to
      <4>1. PICK k \in Nat : k = to - offsets[r] /\ k >= 3
        BY <1>3, <2>4, <3>2
      <4>2. r \in 1 .. SectionCount /\ to < offsets[r + 1]
        <5>1. to # offsets[r]
          BY <1>3, <2>4, <3>2
        <5> QED
          BY <2>6, <2>7, <5>1
      <4>3. b = Prefix(r, k)
        BY <2>2, <3>1, <3>2, <4>1
      <4>4. /\ b \in Seq(Nat) /\ Len(b) = k /\ b # << >>
            /\ \A i \in 1 .. k : b[i] = offsets[r] + i
        <5>1. /\ Prefix(r, k) \in Seq(Nat) /\ Len(Prefix(r, k)) = k
              /\ \A i \in 1 .. k : Prefix(r, k)[i] = offsets[r] + i
              /\ k >= 1 => Prefix(r, k) # << >>
          BY <2>4, PrefixIs
        <5> QED
          BY <4>1, <4>3, <5>1
      <4>5. \A i \in 2 .. Len(b) : ~Opens(b[i])
        <5> SUFFICES ASSUME NEW i \in 2 .. Len(b) PROVE ~Opens(b[i])
          OBVIOUS
        <5>1. i \in 1 .. k /\ b[i] = offsets[r] + i /\ i >= 2 /\ i <= k
          BY <4>1, <4>4
        <5>2. b[i] \in Nat /\ offsets[r] + 1 < b[i] /\ b[i] <= offsets[r + 1]
          <6>1. PICK o \in Nat : o = offsets[r]
            BY <2>4
          <6>2. offsets[r + 1] \in Nat
            BY <1>6, <4>2
          <6>3. b[i] = o + i /\ k = to - o /\ i \in Nat /\ i >= 2 /\ i <= k
            BY <4>1, <5>1, <6>1
          <6>4. o + i \in Nat /\ o + 1 < o + i /\ o + i <= to
            BY <1>3a, <6>3
          <6>5. o + i <= offsets[r + 1]
            BY <1>3a, <4>2, <6>2, <6>4
          <6> QED
            BY <6>1, <6>3, <6>4, <6>5
        <5> QED
          BY <1>2, <4>2, <5>2, NoneBegins
      <4>6. ASSUME NEW n \in 1 .. SectionCount, b[1] = offsets[n] + 1
            PROVE  Len(b) < Length(n) /\ offsets[n] + Len(b) <= to
        <5>1. b[1] = offsets[r] + 1
          <6>1. 1 \in 1 .. k
            BY <4>1
          <6> QED
            BY <4>4, <6>1
        <5>2. n = r
          BY <1>2, <4>2, <4>6, <5>1, SectionsBegin
        <5>3. Length(r) \in Nat /\ offsets[r + 1] = offsets[r] + Length(r)
          BY <1>2, <4>2, SectionPlace
        <5>4. PICK o \in Nat, l \in Nat : o = offsets[r] /\ l = Length(r)
          BY <2>4, <5>3
        <5>5. to < o + l /\ k = to - o
          BY <4>1, <4>2, <5>3, <5>4
        <5>6. k < l /\ o + k <= to
          BY <1>3, <5>5
        <5> QED
          BY <4>4, <5>2, <5>4, <5>6
      <4>7. Decent(b, to)
        BY <4>4, <4>5, <4>6 DEF Decent
      <4>8. ASSUME NEW n \in 1 .. SectionCount, offsets[n] < to, to < offsets[n + 1]
            PROVE  Intact(n)' <=> b = Prefix(n, to - offsets[n])
        <5>1. offsets[r] < to
          BY <1>3, <2>4, <3>2
        <5>2. n = r
          BY <1>2, <1>3, <1>6, <4>2, <4>8, <5>1, OneSection
        <5>3. Sent <= offsets[r]
          BY <1>3, <2>2, <2>4
        <5>4. to - offsets[r] \notin 1 .. 2
          BY <4>1
        <5>5. Intact(r)'
          BY <1>3, <4>2, <5>3, <5>4
        <5> QED
          BY <4>1, <4>3, <5>2, <5>5
      <4> QED
        BY <1>1, <1>3, <3>1, <4>7, <4>8, BufferKept
    <3>3. CASE ~(offsets[r] + 3 <= to)
      <4>1. b = << >> /\ Decent(b, to)
        BY <2>2, <3>1, <3>3, NothingIsDecent
      <4>2. ASSUME NEW n \in 1 .. SectionCount, offsets[n] < to, to < offsets[n + 1]
            PROVE  Intact(n)' <=> b = Prefix(n, to - offsets[n])
        <5>1. r # SectionCount + 1
          BY <1>2, <1>6, <2>3, <2>5, <4>2, <2>6, OffsetsOrder
        <5>2. r \in 1 .. SectionCount /\ to < offsets[r + 1]
          BY <2>7, <5>1
        <5>3. n = r
          BY <1>2, <1>3, <1>6, <2>2, <4>2, <5>2, OneSection
        <5>4. PICK k \in Nat : k = to - offsets[n] /\ k \in 1 .. 2
          BY <1>3, <1>6, <2>4, <3>3, <4>2, <5>3
        <5>5. b # Prefix(n, k)
          <6>1. k >= 1 => Prefix(n, k) # << >>
            BY <1>6, PrefixIs
          <6> QED
            BY <4>1, <5>4, <6>1
        <5>6. Sent <= offsets[n]
          BY <1>3, <2>2, <2>4, <5>3
        <5>7. ~Intact(n)'
          BY <1>3, <5>4, <5>6
        <5> QED
          BY <5>4, <5>5, <5>7
      <4> QED
        BY <1>1, <1>3, <3>1, <4>1, <4>2, BufferKept
    <3> QED
      BY <3>2, <3>3
  <2>9. FoundOK'
    <3>1. PICK B, d : B = (Sent < offsets[a] /\ Intact(a - 1)) /\ B \in BOOLEAN
                      /\ d = IF B THEN <<a - 1>> ELSE << >>
      BY DEF Intact
    <3>2. d \in Seq(1 .. SectionCount) /\ Increasing(d) /\ (\A y : y \in Range(d) <=> B /\ y = a - 1)
      <4>1. B => a - 1 \in 1 .. SectionCount
        BY <2>2, <3>1
      <4> QED
        <5>1. PICK P, x : P = 1 .. SectionCount /\ x = a - 1
          OBVIOUS
        <5>2. B \in BOOLEAN /\ (B => x \in P) /\ d = IF B THEN <<x>> ELSE << >>
          BY <3>1, <4>1, <5>1
        <5>3. d \in Seq(P) /\ Increasing(d) /\ (\A y : y \in Range(d) <=> B /\ y = x)
          BY ONLY <5>2, OneOrNone
        <5> QED
          BY <5>1, <5>3
    <3>3. PICK f : f = From(a, r)
      OBVIOUS
    <3>4. f \in Seq(1 .. SectionCount) /\ Increasing(f) /\ (\A y : y \in Range(f) <=> y \in a .. r - 1)
      BY <1>6, <3>3, FromIs
    <3>5. Before(d, f)
      <4> SUFFICES ASSUME NEW x \in Range(d), NEW y \in Range(f) PROVE x < y
        BY DEF Before
      <4>1. x = a - 1 /\ y \in a .. r - 1
        BY <3>2, <3>4
      <4> QED
        BY <2>3, <4>1
    <3>6. PICK h : h = d \o f
      OBVIOUS
    <3>7. /\ h \in Seq(1 .. SectionCount) /\ Range(h) = Range(d) \cup Range(f) /\ Increasing(h)
      <4>1. PICK P : P = 1 .. SectionCount
        OBVIOUS
      <4>2. d \in Seq(P) /\ f \in Seq(P) /\ Increasing(d) /\ Increasing(f) /\ Before(d, f)
        BY <3>2, <3>4, <3>5, <4>1
      <4>3. d \o f \in Seq(P) /\ Range(d \o f) = Range(d) \cup Range(f) /\ Increasing(d \o f)
        BY ONLY <4>2, IncreasingConcat
      <4> QED
        BY <3>6, <4>1, <4>3
    <3>8. assembled' = assembled \o h
      <4>1. assembled' = (assembled \o d) \o f
        BY <2>2, <3>1, <3>3
      <4>2. assembled \in Seq(1 .. SectionCount)
        BY <1>5 DEF FoundOK
      <4>3. (assembled \o d) \o f = assembled \o (d \o f)
        BY <3>2, <3>4, <4>2, ConcatAssociative
      <4> QED
        BY <3>6, <4>1, <4>3
    <3>9. ASSUME NEW n \in 1 .. SectionCount
          PROVE  /\ offsets[n + 1] <= to /\ Intact(n)'
                      <=> (offsets[n + 1] <= Sent /\ Intact(n)) \/ n \in Range(h)
                 /\ n \in Range(h) => Sent < offsets[n + 1]
      <4>0. /\ n \in Nat /\ n + 1 \in Nat
            /\ n < a => offsets[n] < offsets[a] /\ offsets[n + 1] <= offsets[a]
            /\ ~(n < a) => offsets[a] <= offsets[n]
            /\ n < r => offsets[n + 1] <= offsets[r]
        <5>1. n \in Nat
          BY <1>6
        <5>2. n < a => n + 1 <= a
          BY <2>3, <5>1
        <5>3. n < r => n + 1 <= r
          BY <2>3, <5>1
        <5>4. ~(n < a) => a <= n
          BY <2>3, <5>1
        <5>5. /\ n + 1 <= a => offsets[n + 1] <= offsets[a]
              /\ n + 1 <= r => offsets[n + 1] <= offsets[r]
              /\ a <= n => offsets[a] <= offsets[n]
          BY <1>2, <1>6, <2>3, OffsetsOrder
        <5>6. offsets[n] < offsets[n + 1] /\ offsets[n] \in Nat /\ offsets[n + 1] \in Nat
          BY <1>6
        <5> QED
          BY <2>4, <5>1, <5>2, <5>3, <5>4, <5>5, <5>6
      <4>1. CASE n < a /\ offsets[n + 1] <= Sent
        <5>1. offsets[n] < Sent /\ offsets[n + 1] <= to
          BY <1>3, <1>6, <4>1
        <5>2. n \notin Range(f)
          BY <2>3, <3>4, <4>0, <4>1
        <5>3. ~(B /\ n = a - 1)
          <6>1. n = a - 1 => n + 1 = a
            BY <2>3
          <6>2. B => Sent < offsets[a]
            BY <3>1
          <6> QED
            BY <1>3, <2>4, <4>1, <6>1, <6>2
        <5> QED
          BY <1>3, <3>2, <3>7, <4>1, <5>1, <5>2, <5>3
      <4>2. CASE n < a /\ ~(offsets[n + 1] <= Sent)
        <5>1. Sent < offsets[n + 1] /\ Sent < offsets[a]
          BY <1>3, <1>6, <2>4, <4>0, <4>2
        <5>2. a - 1 \in 1 .. SectionCount /\ offsets[a - 1] < Sent
          BY <2>2, <5>1
        <5>3. n = a - 1
          <6>1. n <= a - 1 /\ a - 1 + 1 = a
            BY <2>3, <4>0, <4>2
          <6>2. n # a - 1 => n + 1 <= a - 1
            BY <2>3, <4>0, <6>1
          <6>3. n + 1 <= a - 1 => offsets[n + 1] <= offsets[a - 1]
            BY <1>2, <1>6, <5>2, OffsetsOrder
          <6>4. offsets[a - 1] \in Nat /\ offsets[n + 1] \in Nat
            BY <1>6, <5>2
          <6> QED
            BY <1>3, <5>1, <5>2, <6>2, <6>3, <6>4
        <5>4. offsets[n + 1] = offsets[a] /\ offsets[n + 1] <= to
          <6>1. n + 1 = a
            BY <2>3, <5>3
          <6> QED
            BY <1>3, <2>2, <2>4, <6>1
        <5>5. Intact(n)' <=> Intact(n)
          BY <1>3, <5>2, <5>3
        <5>6. n \in Range(d) <=> Intact(n)
          BY <3>1, <3>2, <5>1, <5>3
        <5>7. n \notin Range(f)
          BY <2>3, <3>4, <4>0, <4>2
        <5> QED
          BY <3>7, <4>2, <5>1, <5>4, <5>5, <5>6, <5>7
      <4>3. CASE ~(n < a) /\ n < r
        <5>1. n \in Range(f)
          BY <2>3, <3>4, <4>0, <4>3
        <5>2. offsets[n + 1] <= to /\ Sent <= offsets[n] /\ Sent < offsets[n + 1]
          <6>1. offsets[n] \in Nat /\ offsets[n + 1] \in Nat /\ offsets[n] + 3 < offsets[n + 1]
            BY <1>6
          <6>2. offsets[n + 1] <= offsets[r] /\ offsets[a] <= offsets[n]
            BY <4>0, <4>3
          <6>3. offsets[r] <= to /\ Sent <= offsets[a]
            BY <2>2
          <6> QED
            BY <1>3a, <2>4, <6>1, <6>2, <6>3
        <5>3. to - offsets[n] \notin 1 .. 2
          BY <1>3, <1>6, <5>2
        <5>4. Intact(n)'
          BY <1>3, <5>2, <5>3
        <5> QED
          BY <3>7, <5>1, <5>2, <5>4
      <4>4. CASE ~(n < a) /\ ~(n < r)
        <5>1. n \notin Range(f) /\ n # a - 1
          BY <2>3, <3>4, <4>0, <4>4
        <5>2. r # SectionCount + 1 /\ r <= n
          BY <1>6, <2>3, <4>0, <4>4
        <5>3. to < offsets[r + 1] /\ r \in 1 .. SectionCount
          BY <2>7, <5>2
        <5>4. offsets[r + 1] <= offsets[n + 1]
          <6>1. r + 1 <= n + 1
            BY <2>3, <4>0, <5>2
          <6> QED
            BY <1>2, <1>6, <5>3, <6>1, OffsetsOrder
        <5>5. ~(offsets[n + 1] <= to) /\ ~(offsets[n + 1] <= Sent)
          <6>1. offsets[r + 1] \in Nat /\ offsets[n + 1] \in Nat
            BY <1>6, <5>3
          <6> QED
            BY <1>3a, <5>3, <5>4, <6>1
        <5> QED
          BY <3>2, <3>7, <5>1, <5>5
      <4> QED
        BY <4>1, <4>2, <4>3, <4>4
    <3>10. \A x \in Range(h) : Sent < offsets[x + 1]
      <4>1. \A x \in Range(h) : x \in 1 .. SectionCount
        <5>1. PICK P, t : P = 1 .. SectionCount /\ t = h /\ t \in Seq(P)
          BY <3>7
        <5>2. Range(t) \subseteq P
          BY ONLY <5>1, RangeInside
        <5> QED
          BY <5>1, <5>2
      <4> QED
        BY <3>9, <4>1
    <3> QED
      BY <1>1, <1>2, <1>3, <1>5, <3>7, <3>8, <3>9, <3>10, FoundGrows
  <2>10. CounterKnown'
    BY <1>7, <2>2
  <2> QED
    BY <2>8, <2>9, <2>10
<1> QED
  BY <1>8, <1>9


LEMMA RepeatPacketKeeps ==
  ASSUME AsmInv, RepeatPacket
  PROVE  AsmInv'
<1>1. /\ offsets' = offsets /\ carried' = carried /\ repeats' = repeats + 1
      /\ Layout /\ repeats \in Nat
  BY DEF RepeatPacket, AsmInv
<1>2. Layout'
  BY <1>1, LayoutStays
<1>3. repeats' \in Nat /\ repeats' # 0
  BY <1>1
<1> QED
  BY <1>2, <1>3 DEF AsmInv

LEMMA AssemblerStarts ==
  ASSUME AssemblerInit
  PROVE  AsmInv
<1>1. /\ offsets \in Multiplexes /\ carried = << >> /\ asmBuffer = << >> /\ assembled = << >>
      /\ expecting = FALSE /\ repeats = 0
  BY DEF AssemblerInit
<1>2. carried \in Seq([to : Nat, given : BOOLEAN]) /\ DOMAIN carried = {} /\ Len(carried) = 0
  BY <1>1
<1>3. Layout
  BY <1>1, <1>2 DEF Layout
<1>4. Sent = 0
  BY <1>2 DEF Sent, EndOf
<1>5. \A n \in 1 .. SectionCount :
        offsets[n] \in Nat /\ offsets[n + 1] \in Nat /\ offsets[n] + 3 < offsets[n + 1]
  BY <1>1, SectionPlace
<1>6. \A n \in 1 .. SectionCount : ~(offsets[n + 1] <= Sent) /\ ~(offsets[n] < Sent)
  BY <1>4, <1>5
<1>7. BufferOK
  BY <1>1, NothingIsDecent DEF BufferOK
<1>8. BufferLive
  BY <1>6 DEF BufferLive, Within
<1>9. CounterKnown
  BY <1>1 DEF CounterKnown
<1>10. FoundOK
  <2>1. assembled \in Seq(1 .. SectionCount) /\ DOMAIN assembled = {}
    BY <1>1
  <2>2. Range(assembled) = {}
    BY <2>1 DEF Range
  <2> QED
    BY <1>6, <2>1, <2>2 DEF FoundOK, Increasing
<1> QED
  BY <1>1, <1>3, <1>7, <1>8, <1>9, <1>10 DEF AsmInv

\* The inductive invariant of the assembler: bytes of a section are in the buffer just
\* as long as nothing has been lost that belongs to it.
THEOREM AssemblerInductive == AssemblerSpec => []AsmInv
<1>1. ASSUME AsmInv, [AssemblerNext]_assemblerVars
      PROVE  AsmInv'
  <2>1. CASE FeedPacket
    BY <1>1, <2>1, FeedPacketKeeps
  <2>2. CASE LosePacket
    BY <1>1, <2>2, LosePacketKeeps
  <2>3. CASE RepeatPacket
    BY <1>1, <2>3, RepeatPacketKeeps
  <2>4. CASE UNCHANGED assemblerVars
    <3>1. /\ offsets' = offsets /\ carried' = carried /\ asmBuffer' = asmBuffer
          /\ lastCounter' = lastCounter /\ expecting' = expecting
          /\ assembled' = assembled /\ repeats' = repeats
      BY <2>4 DEF assemblerVars
    <3>2. Layout' /\ Sent' = Sent /\ \A i : EndOf(i)' = EndOf(i)
      BY <1>1, <3>1, LayoutStays DEF AsmInv
    <3>3. \A n : Intact(n)' <=> Intact(n)
      BY <3>1, <3>2 DEF Intact, CarriersOf, HeaderSplit
    <3>4. SUFFICES ASSUME repeats = 0 PROVE BufferOK' /\ BufferLive' /\ CounterKnown' /\ FoundOK'
      BY <1>1, <3>1, <3>2 DEF AsmInv
    <3>5. BufferOK /\ BufferLive /\ CounterKnown /\ FoundOK
      BY <1>1, <3>4 DEF AsmInv
    <3>6. \A n \in 1 .. SectionCount : offsets[n] < Sent /\ Sent < offsets[n + 1] =>
            (Intact(n)' <=> asmBuffer = Prefix(n, Sent - offsets[n]))
      BY <3>3, <3>5 DEF BufferLive, Within
    <3>7. BufferOK' /\ BufferLive'
      <4>1. PICK b, q : b = asmBuffer /\ q = Sent
        OBVIOUS
      <4>2. /\ offsets' = offsets /\ asmBuffer' = b /\ Sent' = q /\ Decent(b, q)
            /\ \A n \in 1 .. SectionCount : offsets[n] < q /\ q < offsets[n + 1] =>
                 (Intact(n)' <=> b = Prefix(n, q - offsets[n]))
        BY <3>1, <3>2, <3>5, <3>6, <4>1 DEF BufferOK
      <4> QED
        BY <4>2, BufferKept
    <3>8. CounterKnown'
      BY <3>1, <3>5 DEF CounterKnown, Counter
    <3>9. FoundOK'
      <4>1. {n \in 1 .. SectionCount : offsets'[n + 1] <= Sent' /\ Intact(n)'}
              = {n \in 1 .. SectionCount : offsets[n + 1] <= Sent /\ Intact(n)}
        BY <3>1, <3>2, <3>3
      <4> QED
        BY <3>1, <3>5, <4>1 DEF FoundOK, Increasing, Range
    <3> QED
      BY <3>7, <3>8, <3>9
  <2> QED
    BY <1>1, <2>1, <2>2, <2>3, <2>4 DEF AssemblerNext
<1> QED
  BY <1>1, AssemblerStarts, PTL DEF AssemblerSpec

\* FeedAll gives every section of which all packets arrived and whose header is not
\* split, exactly once and in order, and nothing else, whatever was lost around it.
THEOREM IntactSectionsFound == AssemblerSpec => []IntactSectionsAssembled
<1>1. AsmInv => IntactSectionsAssembled
  <2>1. SUFFICES ASSUME AsmInv, repeats = 0
                 PROVE  /\ \A i, j \in DOMAIN assembled : i < j => assembled[i] < assembled[j]
                        /\ {assembled[i] : i \in DOMAIN assembled}
                             = {n \in 1 .. SectionCount : Arrived(n) /\ ~HeaderSplit(n)}
    BY DEF IntactSectionsAssembled
  <2>2. FoundOK
    BY <2>1 DEF AsmInv
  <2>3. {n \in 1 .. SectionCount : Arrived(n) /\ ~HeaderSplit(n)}
          = {n \in 1 .. SectionCount : offsets[n + 1] <= Sent /\ Intact(n)}
    BY DEF Arrived, Intact
  <2> QED
    BY <2>2, <2>3 DEF FoundOK, Increasing, Range
<1> QED
  BY <1>1, AssemblerInductive, PTL


-----------------------------------------------------------------------------
(* Types, also when packets are sent twice.                                *)

Places == 0 .. MaxBytes

LEMMA TakeTypes ==
  ASSUME offsets \in Multiplexes, NEW cells, cells \in Seq(Places)
  PROVE  /\ TakeSections(cells).found \in Seq(1 .. SectionCount)
         /\ TakeSections(cells).left \in Seq(Places)
<1> DEFINE I == {s \in Takes : s.left \in Seq(Places)}
<1>1. cells \in Seq(Nat)
  <2>1. Places \subseteq Nat
    BY AssemblerConstants DEF Places
  <2>2. PICK P, c : P = Places /\ c = cells /\ c \in Seq(P) /\ P \subseteq Nat
    BY <2>1
  <2>3. Len(c) \in Nat /\ \A i \in 1 .. Len(c) : c[i] \in P
    BY ONLY <2>2
  <2>4. c = [i \in 1 .. Len(c) |-> c[i]]
    BY ONLY <2>2
  <2>5. c \in [1 .. Len(c) -> Nat]
    BY ONLY <2>2, <2>3, <2>4
  <2>6. c \in Seq(Nat)
    BY ONLY <2>3, <2>5
  <2> QED
    BY <2>2, <2>6
<1>2. [found |-> << >>, left |-> cells] \in I
  BY <1>1 DEF Takes
<1>3. ASSUME NEW s \in I, ~Stuck(s) PROVE TakeOne(s) \in I
  <2>1. PICK n \in 1 .. SectionCount :
          Length(n) <= Len(s.left) /\ TakeOne(s) = Taken(s, n) /\ TakeOne(s) \in Takes
    BY <1>3, TakeOneTakes
  <2>2. PICK k : k = Length(n)
    OBVIOUS
  <2>3. k \in Nat /\ k <= Len(s.left)
    BY <2>1, <2>2, SectionPlace
  <2>4. TakeOne(s).left = SubSeq(s.left, k + 1, Len(s.left))
    <3>1. PICK f, l : /\ f = IF SubSeq(s.left, 1, k) = Section(n) THEN Append(s.found, n) ELSE s.found
                      /\ l = SubSeq(s.left, k + 1, Len(s.left))
      OBVIOUS
    <3>2. TakeOne(s) = [found |-> f, left |-> l]
      BY <2>1, <2>2, <3>1 DEF Taken
    <3>3. TakeOne(s).left = l
      BY ONLY <3>2
    <3> QED
      BY <3>1, <3>3
  <2>5. SubSeq(s.left, k + 1, Len(s.left)) \in Seq(Places)
    <3>1. PICK P, l : P = Places /\ l = s.left /\ l \in Seq(P)
      BY <1>3
    <3>2. k \in Nat /\ k <= Len(l)
      BY <2>3, <3>1
    <3>3. SubSeq(l, k + 1, Len(l)) \in Seq(P)
      BY ONLY <3>1, <3>2
    <3> QED
      BY <3>1, <3>3
  <2> QED
    BY <2>1, <2>4, <2>5
<1>4. TakeSections(cells) \in I
  <2>1. I \subseteq Takes
    OBVIOUS
  <2> HIDE DEF I
  <2> QED
    BY <1>1, <1>2, <1>3, <2>1, TakeSectionsEnds
<1> QED
  BY <1>4 DEF Takes

LEMMA ConsumeTypes ==
  ASSUME offsets \in Multiplexes, NEW cells, cells \in Seq(Places),
         NEW p, p = ConsumePayload(cells)
  PROVE  p.found \in Seq(1 .. SectionCount) /\ p.buffer \in Seq(Places) /\ p.expecting \in BOOLEAN
<1>1. PICK t : t = TakeSections(cells)
  OBVIOUS
<1>2. t.found \in Seq(1 .. SectionCount) /\ t.left \in Seq(Places)
  BY <1>1, TakeTypes
<1>3. PICK keep \in BOOLEAN : keep = (Len(t.left) >= HeaderSize /\ t.left[1] # Stuffing)
  OBVIOUS
<1>4. p = [found |-> t.found, buffer |-> IF keep THEN t.left ELSE << >>, expecting |-> keep]
  BY <1>1, <1>3 DEF ConsumePayload
<1>5. << >> \in Seq(Places)
  OBVIOUS
<1>6. p.found = t.found /\ p.buffer \in {t.left, << >>}
  BY <1>4
<1>7. p.expecting = keep
  BY <1>4
<1> QED
  BY <1>2, <1>5, <1>6, <1>7

LEMMA PacketTypes ==
  ASSUME offsets \in Multiplexes, NEW from \in Nat, NEW to \in NextEnds(from)
  PROVE  LET p == Packet(from, to)
         IN  p.cells \in Seq(Places) /\ (p.start => p.pointer \in 0 .. Len(p.cells))
<1>1. to \in Nat /\ to <= offsets[SectionCount + 1] /\ PayloadSize \in Nat /\ PayloadSize > HeaderSize
  BY NextEndFacts
<1>2. SectionCount + 1 \in 1 .. SectionCount + 1 /\ MaxBytes \in Nat
  BY AssemblerConstants
<1>3. offsets[SectionCount + 1] \in 0 .. MaxBytes
  BY <1>2 DEF Multiplexes
<1>4. ASSUME NEW m \in Nat PROVE Run(from, to, m) \in Seq(Places) /\ Len(Run(from, to, m)) = m
  <2>1. \A i \in 1 .. m : (IF from + i <= to THEN from + i ELSE Stuffing) \in Places
    BY <1>1, <1>2, <1>3 DEF Places, Stuffing
  <2>2. Run(from, to, m) \in [1 .. m -> Places]
    BY <2>1 DEF Run
  <2>3. Run(from, to, m) \in Seq(Places)
    BY <2>2
  <2>4. Len(Run(from, to, m)) = m
    BY <1>1, RunIs
  <2> QED
    BY <2>3, <2>4
<1>5. CASE StartsIn(from, to) = {}
  <2>1. ~Packet(from, to).start /\ Packet(from, to).cells = Run(from, to, PayloadSize)
    BY <1>5, PlainPacket
  <2> QED
    BY <1>1, <1>4, <2>1
<1>6. CASE StartsIn(from, to) # {}
  <2>1. /\ Packet(from, to).cells = Run(from, to, PayloadSize - 1)
        /\ Packet(from, to).pointer \in 0 .. PayloadSize - 1
    BY <1>6, StartingPacket
  <2>2. PayloadSize - 1 \in Nat
    BY <1>1 DEF HeaderSize
  <2> QED
    BY <1>4, <2>1, <2>2
<1> QED
  BY <1>5, <1>6

LEMMA FeedAllTypes ==
  ASSUME AssemblerTypeOK, NEW from \in Nat, NEW to \in NextEnds(from),
         NEW k \in 0 .. CounterLimit - 1, FeedAll(Packet(from, to), k)
  PROVE  /\ asmBuffer' \in Seq(Places) /\ assembled' \in Seq(1 .. SectionCount)
         /\ lastCounter' \in 0 .. CounterLimit - 1 /\ expecting' \in BOOLEAN
<1>1. /\ offsets \in Multiplexes /\ asmBuffer \in Seq(Places)
      /\ assembled \in Seq(1 .. SectionCount) /\ expecting \in BOOLEAN
  BY DEF AssemblerTypeOK, Places
<1>2. PICK p : p = Packet(from, to)
  OBVIOUS
<1>3. p.cells \in Seq(Places) /\ (p.start => p.pointer \in 0 .. Len(p.cells))
  BY <1>1, <1>2, PacketTypes
<1>4. << >> \in Seq(Places) /\ << >> \in Seq(1 .. SectionCount)
  OBVIOUS
<1> DEFINE lost == expecting /\ k # (lastCounter + 1) % CounterLimit
           buf == IF lost THEN << >> ELSE asmBuffer
           tail == IF buf # << >> /\ p.pointer > 0
                   THEN TakeSections(buf \o SubSeq(p.cells, 1, p.pointer)).found ELSE << >>
           more == ConsumePayload(SubSeq(p.cells, p.pointer + 1, Len(p.cells)))
           t == TakeSections(buf \o p.cells)
<1>5. /\ lastCounter' = k
      /\ p.start => /\ assembled' = assembled \o tail \o more.found
                    /\ asmBuffer' = more.buffer /\ expecting' = more.expecting
      /\ ~p.start /\ (~expecting \/ lost) =>
           asmBuffer' = buf /\ expecting' = FALSE /\ assembled' = assembled
      /\ ~p.start /\ ~(~expecting \/ lost) =>
           assembled' = assembled \o t.found /\ asmBuffer' = t.left /\ expecting' = (t.left # << >>)
  BY <1>2 DEF FeedAll
<1>6. buf \in Seq(Places)
  BY <1>1, <1>4
<1> HIDE DEF buf, lost
<1>7. CASE p.start
  <2>1. PICK P, c, i : P = Places /\ c = p.cells /\ i = p.pointer
    OBVIOUS
  <2>2. c \in Seq(P) /\ i \in 0 .. Len(c)
    BY <1>3, <1>7, <2>1
  <2>3. SubSeq(c, 1, i) \in Seq(P) /\ SubSeq(c, i + 1, Len(c)) \in Seq(P)
    BY ONLY <2>2
  <2>4. PICK b : b = buf
    OBVIOUS
  <2>5. b \o SubSeq(c, 1, i) \in Seq(P)
    <3>1. b \in Seq(P) /\ SubSeq(c, 1, i) \in Seq(P)
      BY <1>6, <2>1, <2>3, <2>4
    <3> QED
      BY ONLY <3>1
  <2>6. tail \in Seq(1 .. SectionCount)
    <3>1. TakeSections(b \o SubSeq(c, 1, i)).found \in Seq(1 .. SectionCount)
      BY <1>1, <2>1, <2>5, TakeTypes
    <3> QED
      BY <1>4, <2>1, <2>4, <3>1
  <2>7. more.found \in Seq(1 .. SectionCount) /\ more.buffer \in Seq(Places) /\ more.expecting \in BOOLEAN
    BY <1>1, <2>1, <2>3, ConsumeTypes
  <2>8. PICK S, f, g : S = 1 .. SectionCount /\ f = tail /\ g = more.found
    OBVIOUS
  <2>9. assembled \o f \o g \in Seq(S)
    <3>1. assembled \in Seq(S) /\ f \in Seq(S) /\ g \in Seq(S)
      BY <1>1, <2>6, <2>7, <2>8
    <3> QED
      BY ONLY <3>1
  <2> HIDE DEF tail, more
  <2> QED
    BY <1>5, <1>7, <2>7, <2>8, <2>9
<1>8. CASE ~p.start /\ (~expecting \/ lost)
  BY <1>1, <1>5, <1>6, <1>8
<1>9. CASE ~p.start /\ ~(~expecting \/ lost)
  <2>1. PICK P, c, b : P = Places /\ c = p.cells /\ b = buf
    OBVIOUS
  <2>2. b \o c \in Seq(P)
    <3>1. b \in Seq(P) /\ c \in Seq(P)
      BY <1>3, <1>6, <2>1
    <3> QED
      BY ONLY <3>1
  <2>3. t.found \in Seq(1 .. SectionCount) /\ t.left \in Seq(Places)
    BY <1>1, <2>1, <2>2, TakeTypes
  <2>4. PICK S, f : S = 1 .. SectionCount /\ f = t.found
    OBVIOUS
  <2>5. assembled \o f \in Seq(S)
    <3>1. assembled \in Seq(S) /\ f \in Seq(S)
      BY <1>1, <2>3, <2>4
    <3> QED
      BY ONLY <3>1
  <2>6. (t.left # << >>) \in BOOLEAN
    OBVIOUS
  <2> HIDE DEF t
  <2> QED
    BY <1>5, <1>9, <2>3, <2>4, <2>5, <2>6
<1> QED
  BY <1>7, <1>8, <1>9

\* The variables of the assembler and of its multiplex keep their types, whatever is
\* lost or sent twice: what FeedAll keeps are bytes, and what it returns are sections.
THEOREM AssemblerTypes == AssemblerSpec => []AssemblerTypeOK
<1>1. AssemblerInit => AssemblerTypeOK
  <2> SUFFICES ASSUME AssemblerInit PROVE AssemblerTypeOK
    OBVIOUS
  <2>1. CounterLimit \in Nat \ {0} /\ MaxRepeats \in Nat
    BY AssemblerConstants
  <2>2. 0 \in 0 .. CounterLimit - 1 /\ 0 \in 0 .. MaxRepeats
    BY <2>1
  <2>3. << >> \in Seq([to : 1 .. MaxBytes, given : BOOLEAN]) /\ << >> \in Seq(0 .. MaxBytes)
        /\ << >> \in Seq(1 .. SectionCount)
    OBVIOUS
  <2> QED
    BY <2>2, <2>3 DEF AssemblerInit, AssemblerTypeOK
<1>2. ASSUME AssemblerTypeOK, Layout, [AssemblerNext]_assemblerVars
      PROVE  AssemblerTypeOK'
  <2>1. /\ offsets \in Multiplexes /\ carried \in Seq([to : 1 .. MaxBytes, given : BOOLEAN])
        /\ repeats \in 0 .. MaxRepeats
    BY <1>2 DEF AssemblerTypeOK
  <2>2. /\ Len(carried) \in Nat /\ DOMAIN carried = 1 .. Len(carried) /\ Sent \in Nat
        /\ \A i \in 1 .. Len(carried) : EndOf(i) = carried[i].to /\ EndOf(i - 1) \in Nat
    BY <1>2, EndsGrow
  <2>3. \A k \in Nat : Counter(k) \in 0 .. CounterLimit - 1
    <3> SUFFICES ASSUME NEW k \in Nat PROVE Counter(k) \in 0 .. CounterLimit - 1
      OBVIOUS
    <3>1. PICK c \in Nat : c = CounterLimit /\ c > 0
      BY AssemblerConstants
    <3>2. k % c \in 0 .. c - 1
      BY <3>1
    <3> QED
      BY <3>1, <3>2 DEF Counter
  <2>4. offsets' = offsets => Multiplexes' = Multiplexes
    BY DEF Multiplexes
  <2>5. ASSUME NEW to \in NextEnds(Sent), NEW g \in BOOLEAN,
               carried' = Append(carried, [to |-> to, given |-> g])
        PROVE  carried' \in Seq([to : 1 .. MaxBytes, given : BOOLEAN])
    <3>1. to \in Nat /\ Sent < to /\ to <= offsets[SectionCount + 1]
      BY <2>1, <2>2, NextEndFacts
    <3>2. SectionCount + 1 \in 1 .. SectionCount + 1 /\ MaxBytes \in Nat
      BY AssemblerConstants
    <3>3. offsets[SectionCount + 1] \in 0 .. MaxBytes
      BY <2>1, <3>2 DEF Multiplexes
    <3>4. to \in 1 .. MaxBytes
      BY <2>2, <3>1, <3>2, <3>3
    <3>5. PICK P, x : P = [to : 1 .. MaxBytes, given : BOOLEAN] /\ x = [to |-> to, given |-> g]
      OBVIOUS
    <3>6. carried \in Seq(P) /\ x \in P
      BY <2>1, <3>4, <3>5
    <3>7. Append(carried, x) \in Seq(P)
      BY ONLY <3>6
    <3> QED
      BY <2>5, <3>5, <3>7
  <2>6. CASE FeedPacket
    <3>1. PICK to \in NextEnds(Sent) :
            /\ FeedAll(Packet(Sent, to), Counter(Len(carried) + 1))
            /\ carried' = Append(carried, [to |-> to, given |-> TRUE])
            /\ offsets' = offsets /\ repeats' = repeats
      BY <2>6 DEF FeedPacket
    <3>2. carried' \in Seq([to : 1 .. MaxBytes, given : BOOLEAN])
      BY <2>5, <3>1
    <3>3. /\ asmBuffer' \in Seq(Places) /\ assembled' \in Seq(1 .. SectionCount)
          /\ lastCounter' \in 0 .. CounterLimit - 1 /\ expecting' \in BOOLEAN
      <4>1. Counter(Len(carried) + 1) \in 0 .. CounterLimit - 1
        BY <2>2, <2>3
      <4> QED
        BY <1>2, <2>2, <3>1, <4>1, FeedAllTypes
    <3> QED
      BY <2>1, <2>4, <3>1, <3>2, <3>3 DEF AssemblerTypeOK, Places
  <2>7. CASE LosePacket
    <3>1. PICK to \in NextEnds(Sent) :
            /\ carried' = Append(carried, [to |-> to, given |-> FALSE])
            /\ UNCHANGED <<offsets, asmBuffer, lastCounter, expecting, assembled, repeats>>
      BY <2>7 DEF LosePacket
    <3>2. carried' \in Seq([to : 1 .. MaxBytes, given : BOOLEAN])
      BY <2>5, <3>1
    <3> QED
      BY <1>2, <2>4, <3>1, <3>2 DEF AssemblerTypeOK
  <2>8. CASE RepeatPacket
    <3>1. PICK i : i = Len(carried)
      OBVIOUS
    <3>2. /\ i > 0 /\ repeats < MaxRepeats /\ FeedAll(Packet(EndOf(i - 1), Sent), Counter(i))
          /\ repeats' = repeats + 1 /\ offsets' = offsets /\ carried' = carried
      BY <2>8, <3>1 DEF RepeatPacket
    <3>3. i \in 1 .. Len(carried) /\ i \in Nat
      BY <2>2, <3>1, <3>2
    <3>4. Sent \in NextEnds(EndOf(i - 1)) /\ EndOf(i - 1) \in Nat
      <4>1. Sent = carried[i].to
        BY <2>2, <3>1, <3>3 DEF Sent
      <4> QED
        BY <1>2, <2>2, <3>3, <4>1 DEF Layout
    <3>5. /\ asmBuffer' \in Seq(Places) /\ assembled' \in Seq(1 .. SectionCount)
          /\ lastCounter' \in 0 .. CounterLimit - 1 /\ expecting' \in BOOLEAN
      <4>1. Counter(i) \in 0 .. CounterLimit - 1
        BY <2>3, <3>3
      <4> QED
        BY <1>2, <3>2, <3>4, <4>1, FeedAllTypes
    <3>6. repeats' \in 0 .. MaxRepeats
      BY <2>1, <3>2, AssemblerConstants
    <3> QED
      BY <2>1, <2>4, <3>2, <3>5, <3>6 DEF AssemblerTypeOK, Places
  <2>9. CASE UNCHANGED assemblerVars
    BY <1>2, <2>4, <2>9 DEF AssemblerTypeOK, assemblerVars
  <2> QED
    BY <1>2, <2>6, <2>7, <2>8, <2>9 DEF AssemblerNext
<1>3. AssemblerSpec => []Layout
  <2>1. AsmInv => Layout
    BY DEF AsmInv
  <2> QED
    BY <2>1, AssemblerInductive, PTL
<1> QED
  BY <1>1, <1>2, <1>3, PTL DEF AssemblerSpec

=============================================================================
