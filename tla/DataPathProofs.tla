--------------------------- MODULE DataPathProofs ---------------------------
(***************************************************************************)
(* Theorems about the way from a service's sections to the programme       *)
(* guide and to the clients of events: the gate of a programme, the        *)
(* completeness of a schedule, its collection, and the events of           *)
(* programmes.  Each component has its inductive invariant and its         *)
(* theorems in a part of its own.                                          *)
(***************************************************************************)
EXTENDS ProgramGate, EITSnapshot, EPGCollection, ProgramEvents,
        SequenceLemmas, FiniteSetTheorems, TLAPS

-----------------------------------------------------------------------------
(* ProgramGate.                                                            *)

\* A stream that is not cancelled is being looked after: its timer is armed,
\* or closeIfStale is at work.
Watched == gateCanceled \/ stopTimer # Idle \/ stopCheck # "no"

\* The timer of an open gate counts from the last detection or from the last
\* section that named another programme.
TimerBounded ==
  gateReady /\ ~gateCanceled /\ stopTimer # Idle =>
    \/ sinceDetected + stopTimer <= StaleAfter + WatchInterval
    \/ sinceOther + stopTimer <= EndGrace

\* What closeIfStale has read cannot be older than its goroutine is slow.
CheckBounded ==
  gateReady /\ ~gateCanceled /\ stopCheck # "no" =>
    \/ sinceDetected <= StaleAfter + WatchInterval + checkAge
    \/ sinceOther <= EndGrace + checkAge

FreshBounded == stopCheck = "fresh" => sinceDetected < StaleAfter + checkAge

\* The verdict stays with the reading it was made from.
StaleWasOld == stopCheck = "stale" \/ gateCanceled => cutAt >= StaleAfter

GateInv ==
  /\ GateTypeOK /\ Watched /\ TimerBounded /\ CheckBounded
  /\ FreshBounded /\ StaleWasOld

\* The gate's invariant holds when newProgramGate has armed the timer.
LEMMA GateStarts == GateInit => GateInv
<1> SUFFICES ASSUME GateInit PROVE GateInv
  OBVIOUS
<1>1. /\ stopTimer \in Nat \ {0} /\ stopTimer # Idle
      /\ Forever \in 0..Forever /\ 0 \in 0..1
  BY ProgramGateAssumption DEF GateInit, Idle
<1>2. GateTypeOK
  BY <1>1 DEF GateInit, GateTypeOK
<1> QED
  BY <1>1, <1>2
  DEF GateInit, GateInv, Watched, TimerBounded, CheckBounded, FreshBounded, StaleWasOld

\* Every step of the reader, of closeIfStale and of the clock keeps it.
LEMMA GateStep == GateInv /\ [GateNext]_gateVars => GateInv'
<1> SUFFICES ASSUME GateInv, [GateNext]_gateVars PROVE GateInv'
  OBVIOUS
<1> USE ProgramGateAssumption
    DEF GateInv, GateTypeOK, Watched, TimerBounded, CheckBounded,
        FreshBounded, StaleWasOld, Idle
<1>1. CASE ObserveProgram
  BY <1>1 DEF ObserveProgram
<1>2. CASE ObserveOther
  BY <1>2 DEF ObserveOther
<1>3. CASE TimerReads
  BY <1>3 DEF TimerReads
<1>4. CASE CloseIfStale
  <2>1. CASE stopCheck = "fresh"
    <3>1. /\ stopTimer' = WatchInterval /\ stopCheck' = "no"
          /\ UNCHANGED <<gateReady, sinceDetected, checkAge, gateCanceled, sinceOther, cutAt>>
      BY <1>4, <2>1 DEF CloseIfStale
    <3>2. sinceDetected + WatchInterval <= StaleAfter + WatchInterval
      BY <2>1
    <3> QED
      BY <3>1, <3>2
  <2>2. CASE stopCheck = "stale"
    BY <1>4, <2>2 DEF CloseIfStale
  <2> QED
    BY <1>4, <2>1, <2>2 DEF CloseIfStale
<1>5. CASE Tick
  <2>1. /\ Older(sinceDetected) \in 0..Forever
        /\ Older(sinceOther) \in 0..Forever
        /\ sinceDetected < Forever => Older(sinceDetected) = sinceDetected + 1
        /\ sinceOther < Forever => Older(sinceOther) = sinceOther + 1
    BY DEF Older
  <2>2. /\ Older(sinceDetected) <= sinceDetected + 1
        /\ Older(sinceOther) <= sinceOther + 1
    BY DEF Older
  <2> QED
    BY <1>5, <2>1, <2>2 DEF Tick
<1>6. CASE UNCHANGED gateVars
  BY <1>6 DEF gateVars
<1> QED
  BY <1>1, <1>2, <1>3, <1>4, <1>5, <1>6 DEF GateNext

(* The timer and the goroutine of closeIfStale always look after a gate     *)
(* that is not cancelled, within the bounds above (program.go 64-100).      *)
THEOREM GateInductive == GateSpec => []GateInv
  BY GateStarts, GateStep, PTL DEF GateSpec

(* The stream of a programme ends when it should and not before, for all    *)
(* lengths of the three intervals that keep their order: the timer is reset *)
(* from two goroutines and the verdict of closeIfStale is acted on after    *)
(* the lock is let go, and still neither a timer is lost nor a stream kept  *)
(* beyond its time.                                                         *)
THEOREM GateClosesInTime == GateSpec => []GateCloses
<1>1. GateInv => GateCloses
  BY ProgramGateAssumption
  DEF GateInv, GateTypeOK, Watched, TimerBounded, CheckBounded,
      StaleWasOld, Idle, GateCloses
<1> QED
  BY <1>1, GateInductive, PTL

-----------------------------------------------------------------------------
(* EITSnapshot.                                                            *)

ReadyFlags ==
  [observed : BOOLEAN, version : Nat, flag : SUBSET SectionIDs, ignore : SUBSET SectionIDs]

SnapshotShapes ==
  /\ onAir \in 1..Len(Editions) /\ hourSegment \in Nat
  /\ sectionVersions \in [Groups -> [TableIDs -> [SectionIDs -> Int]]]
  /\ readyGroup \in
       [Groups -> [last : TableIDs, flags : [TableIDs -> ReadyFlags]] \cup {NoGroup}]

\* An edition that was on the air is what the flag of a table was made from.
MadeFrom(e, g, t) ==
  LET f == readyGroup[g].flags[t] IN
  /\ Editions[e][g].last = readyGroup[g].last
  /\ Editions[e][g].version[t] = f.version
  /\ \A s \in f.flag : sectionVersions[g][t][s] = f.version
  /\ \A s \in Required(e, g, t) : s \notin f.ignore

\* Of every table that counts something was observed, and all of it from one
\* edition, or nothing has been since the last reset.
TableKnown(g, t) ==
  LET f == readyGroup[g].flags[t] IN
  IF f.observed THEN \E e \in 1..onAir : MadeFrom(e, g, t)
  ELSE f.flag = {} /\ f.ignore = {}

GroupsKnown ==
  \A g \in Groups : readyGroup[g] # NoGroup =>
    \A t \in 0..readyGroup[g].last : TableKnown(g, t)

SnapshotInv == SnapshotShapes /\ GroupsKnown

\* What an edition consists of.
LEMMA EditionParts ==
  ASSUME NEW e \in 1..Len(Editions), NEW g \in Groups
  PROVE  /\ Editions[e][g].last \in -1..LastTable
         /\ \A t \in TableIDs :
              /\ Editions[e][g].version[t] \in Nat
              /\ Len(Editions[e][g].segments[t]) \in 1..LastSegment + 1
              /\ \A i \in 1..Len(Editions[e][g].segments[t]) :
                   Editions[e][g].segments[t][i] \in 1..SegmentSize
<1>1. Editions[e] \in Edition
  BY EITSnapshotAssumption
<1>2. Editions[e][g] \in
        [last : -1..LastTable, version : [TableIDs -> Versions],
         segments : [TableIDs -> UNION {[1..n -> 1..SegmentSize] : n \in 1..LastSegment + 1}]]
  BY <1>1 DEF Edition
<1>3. ASSUME NEW t \in TableIDs
      PROVE  /\ Editions[e][g].version[t] \in Nat
             /\ Len(Editions[e][g].segments[t]) \in 1..LastSegment + 1
             /\ \A i \in 1..Len(Editions[e][g].segments[t]) :
                  Editions[e][g].segments[t][i] \in 1..SegmentSize
  <2>1. /\ Editions[e][g].version[t] \in Versions
        /\ Editions[e][g].segments[t] \in
             UNION {[1..n -> 1..SegmentSize] : n \in 1..LastSegment + 1}
    BY <1>2
  <2>2. PICK n \in 1..LastSegment + 1 :
          Editions[e][g].segments[t] \in [1..n -> 1..SegmentSize]
    BY <2>1
  <2>3. n \in Nat
    BY EITSnapshotAssumption
  <2>4. Len(Editions[e][g].segments[t]) = n
    BY <2>2, <2>3
  <2> QED
    BY <2>1, <2>2, <2>4, EITSnapshotAssumption
<1> QED
  BY <1>2, <1>3

LEMMA SnapshotStarts == SnapshotInit => SnapshotInv
<1> SUFFICES ASSUME SnapshotInit PROVE SnapshotInv
  OBVIOUS
<1>1. 1 \in 1..Len(Editions)
  BY EITSnapshotAssumption
<1>2. SnapshotShapes
  BY <1>1 DEF SnapshotInit, SnapshotShapes, NoVersion
<1>3. GroupsKnown
  BY DEF SnapshotInit, GroupsKnown
<1> QED
  BY <1>2, <1>3 DEF SnapshotInv

\* Nothing more is required of a table when the next edition goes on the air
\* or when the clock moves on.
LEMMA SnapshotTimePasses ==
  ASSUME SnapshotInv, onAir' \in 1..Len(Editions), onAir <= onAir',
         hourSegment' \in Nat, hourSegment <= hourSegment',
         UNCHANGED <<sectionVersions, readyGroup>>
  PROVE  SnapshotInv'
<1>1. SnapshotShapes'
  BY DEF SnapshotInv, SnapshotShapes
<1>2. ASSUME NEW g \in Groups, readyGroup[g] # NoGroup, NEW t \in 0..readyGroup[g].last,
             TableKnown(g, t)
      PROVE  TableKnown(g, t)'
  <2>1. CASE readyGroup[g].flags[t].observed
    <3>1. PICK e \in 1..onAir : MadeFrom(e, g, t)
      BY <1>2, <2>1 DEF TableKnown
    <3>2. e \in 1..onAir'
      BY DEF SnapshotInv, SnapshotShapes
    <3>3. ASSUME NEW s \in Required(e, g, t)' PROVE s \in Required(e, g, t)
      <4>1. s[1] \in Nat
        BY EITSnapshotAssumption DEF Required, SectionIDs, SegmentIDs
      <4> QED
        BY <4>1 DEF Required, SnapshotInv, SnapshotShapes
    <3>4. MadeFrom(e, g, t)'
      BY <3>1, <3>3 DEF MadeFrom
    <3> QED
      BY <2>1, <3>2, <3>4 DEF TableKnown
  <2>2. CASE ~readyGroup[g].flags[t].observed
    BY <1>2, <2>2 DEF TableKnown
  <2> QED
    BY <2>1, <2>2
<1>3. GroupsKnown'
  BY <1>2 DEF SnapshotInv, GroupsKnown
<1> QED
  BY <1>1, <1>3 DEF SnapshotInv

\* Observe keeps the invariant: a reset forgets what came from another edition,
\* and without one the section belongs to what was observed before.
\* A segment of a table with n segments, of which there are at most last + 1.
LEMMA SegmentsCounted ==
  \A last \in Nat : \A n \in 1..last + 1 : \A segment \in 0..n - 1 :
    segment + 1 \in 1..n /\ segment \in 0..last /\ n - 1 \in Nat
OBVIOUS

LEMMA ObserveKeeps ==
  ASSUME SnapshotInv,
         NEW g \in Groups, NEW t \in 0..Editions[onAir][g].last,
         NEW segment \in 0..Len(Editions[onAir][g].segments[t]) - 1,
         NEW section \in 1..Editions[onAir][g].segments[t][segment + 1],
         Observe(g, t, segment, section)
  PROVE  SnapshotInv'
<1> DEFINE on == Editions[onAir][g]
           version == on.version[t]
           lasts == [segment |-> Len(on.segments[t]) - 1, section |-> on.segments[t][segment + 1]]
           group == IF readyGroup[g] = NoGroup
                    THEN [last |-> -1, flags |-> [i \in TableIDs |-> IgnoredFlag]]
                    ELSE readyGroup[g]
           renewed == \/ group.last # on.last
                      \/ group.flags[t].observed /\ group.flags[t].version # version
           flags == IF renewed THEN Reset(on.last, group.flags) ELSE group.flags
           observed == ObservedFlag(flags[t], t, lasts, version, segment, section)
           id == <<segment, section>>
<1>1. /\ on.last \in TableIDs /\ t \in TableIDs /\ version \in Nat
      /\ Len(on.segments[t]) \in 1..LastSegment + 1
      /\ \A i \in 1..Len(on.segments[t]) : on.segments[t][i] \in 1..SegmentSize
  <2>1. onAir \in 1..Len(Editions)
    BY DEF SnapshotInv, SnapshotShapes
  <2>2. on.last \in -1..LastTable
    BY <2>1, EditionParts
  <2>3. on.last \in TableIDs /\ t \in TableIDs
    BY <2>2, EITSnapshotAssumption DEF TableIDs
  <2> QED
    BY <2>1, <2>3, EditionParts
<1>2. segment \in SegmentIDs /\ section \in 1..SegmentSize /\ id \in SectionIDs
  <2>1. segment + 1 \in 1..Len(on.segments[t]) /\ segment \in 0..LastSegment
    BY <1>1, EITSnapshotAssumption, SegmentsCounted
  <2>2. on.segments[t][segment + 1] \in 1..SegmentSize
    BY <1>1, <2>1
  <2>3. section \in 1..SegmentSize
    <3>1. PICK n \in 1..SegmentSize : n = on.segments[t][segment + 1]
      BY <2>2
    <3>2. section \in 1..n
      BY <3>1
    <3> QED
      BY <3>2, EITSnapshotAssumption
  <2> QED
    BY <2>1, <2>3 DEF SegmentIDs, SectionIDs
<1>3. /\ sectionVersions' = [sectionVersions EXCEPT ![g][t][id] = version]
      /\ readyGroup' = [readyGroup EXCEPT ![g] =
           [last |-> on.last, flags |-> [flags EXCEPT ![t] = observed]]]
      /\ onAir' = onAir /\ hourSegment' = hourSegment
  BY DEF Observe
<1>4. /\ group.flags \in [TableIDs -> ReadyFlags]
      /\ group.last \in TableIDs \cup {-1}
  <2>1. CASE readyGroup[g] = NoGroup
    BY <2>1, EITSnapshotAssumption DEF IgnoredFlag, ClearFlag, ReadyFlags
  <2>2. CASE readyGroup[g] # NoGroup
    BY <2>2 DEF SnapshotInv, SnapshotShapes
  <2> QED
    BY <2>1, <2>2
<1>5. flags \in [TableIDs -> ReadyFlags]
  BY <1>4 DEF Reset, IgnoredFlag, ClearFlag, ReadyFlags
<1>6. /\ observed \in ReadyFlags
      /\ observed.observed = TRUE /\ observed.version = version
      /\ observed.flag = flags[t].flag \cup {id}
  BY <1>1, <1>2, <1>5 DEF ObservedFlag, ReadyFlags
<1>7. SnapshotShapes'
  <2>1. sectionVersions' \in [Groups -> [TableIDs -> [SectionIDs -> Int]]]
    BY <1>1, <1>2, <1>3 DEF SnapshotInv, SnapshotShapes
  <2>2. [last |-> on.last, flags |-> [flags EXCEPT ![t] = observed]]
          \in [last : TableIDs, flags : [TableIDs -> ReadyFlags]]
    BY <1>1, <1>5, <1>6
  <2>3. readyGroup' \in
          [Groups -> [last : TableIDs, flags : [TableIDs -> ReadyFlags]] \cup {NoGroup}]
    BY <1>3, <2>2 DEF SnapshotInv, SnapshotShapes
  <2> QED
    BY <1>3, <2>1, <2>3 DEF SnapshotInv, SnapshotShapes
<1>8. /\ readyGroup'[g].last = on.last
      /\ readyGroup'[g].flags = [flags EXCEPT ![t] = observed]
      /\ readyGroup'[g].flags[t] = observed
      /\ \A u \in TableIDs \ {t} : readyGroup'[g].flags[u] = flags[u]
      /\ \A h \in Groups \ {g} : readyGroup'[h] = readyGroup[h]
  BY <1>1, <1>3, <1>5 DEF SnapshotInv, SnapshotShapes
<1>9. /\ \A h \in Groups \ {g} : sectionVersions'[h] = sectionVersions[h]
      /\ \A u \in TableIDs \ {t} : sectionVersions'[g][u] = sectionVersions[g][u]
      /\ sectionVersions'[g][t][id] = version
      /\ \A s \in SectionIDs : s # id => sectionVersions'[g][t][s] = sectionVersions[g][t][s]
  BY <1>1, <1>2, <1>3 DEF SnapshotInv, SnapshotShapes
<1>10. \A h \in Groups, u \in TableIDs : \A e \in 1..onAir :
         Required(e, h, u)' = Required(e, h, u)
  BY <1>3 DEF Required
<1>11. ~renewed => readyGroup[g] # NoGroup /\ readyGroup[g].last = on.last
                   /\ flags = readyGroup[g].flags
  BY <1>1, EITSnapshotAssumption DEF TableIDs
<1>12. renewed => \A u \in 0..on.last : flags[u] = ClearFlag
  <2> SUFFICES ASSUME renewed, NEW u \in 0..on.last PROVE flags[u] = ClearFlag
    OBVIOUS
  <2>1. u \in TableIDs /\ u <= on.last
    BY <1>1, EITSnapshotAssumption DEF TableIDs
  <2>2. flags = Reset(on.last, group.flags)
    OBVIOUS
  <2> QED
    BY <2>1, <2>2 DEF Reset
<1>13. TableKnown(g, t)'
  <2>1. onAir \in 1..onAir'
    BY <1>3 DEF SnapshotInv, SnapshotShapes
  <2>2. \A s \in flags[t].flag : sectionVersions[g][t][s] = version
    <3>1. CASE flags[t].flag = {}
      BY <3>1
    <3>2. CASE flags[t].flag # {}
      <4>1. ~renewed
        BY <1>12, <3>2 DEF ClearFlag
      <4>2. TableKnown(g, t)
        BY <1>11, <4>1 DEF SnapshotInv, GroupsKnown
      <4>3. readyGroup[g].flags[t].observed /\ readyGroup[g].flags[t].version = version
        BY <1>11, <3>2, <4>1, <4>2 DEF TableKnown
      <4>4. PICK e \in 1..onAir : MadeFrom(e, g, t)
        BY <4>2, <4>3 DEF TableKnown
      <4> QED
        BY <1>11, <4>1, <4>3, <4>4 DEF MadeFrom
    <3> QED
      BY <3>1, <3>2
  <2>3. \A s \in Required(onAir, g, t) : s \notin flags[t].ignore
    <3>1. CASE flags[t].ignore = {}
      BY <3>1
    <3>2. CASE flags[t].ignore # {}
      <4>1. ~renewed
        BY <1>12, <3>2 DEF ClearFlag
      <4>2. TableKnown(g, t)
        BY <1>11, <4>1 DEF SnapshotInv, GroupsKnown
      <4>3. readyGroup[g].flags[t].observed /\ readyGroup[g].flags[t].version = version
        BY <1>11, <3>2, <4>1, <4>2 DEF TableKnown
      <4>4. PICK e \in 1..onAir : MadeFrom(e, g, t)
        BY <4>2, <4>3 DEF TableKnown
      <4>5. e \in 1..Len(Editions) /\ onAir \in 1..Len(Editions)
        BY DEF SnapshotInv, SnapshotShapes
      <4>6. Editions[e][g].segments[t] = on.segments[t]
        <5>1. \A i, j \in 1..Len(Editions), h \in Groups : \A u \in TableIDs :
                Editions[i][h].version[u] = Editions[j][h].version[u] =>
                  Editions[i][h].segments[u] = Editions[j][h].segments[u]
          BY EITSnapshotAssumption
        <5>2. Editions[e][g].version[t] = on.version[t]
          BY <4>3, <4>4 DEF MadeFrom
        <5> QED
          BY <1>1, <4>5, <5>1, <5>2
      <4>7. Required(onAir, g, t) = Required(e, g, t)
        BY <4>6 DEF Required
      <4> QED
        BY <1>11, <4>1, <4>4, <4>7 DEF MadeFrom
    <3> QED
      BY <3>1, <3>2
  <2>4. \A s \in Required(onAir, g, t) : s \notin observed.ignore
    <3> SUFFICES ASSUME NEW s \in Required(onAir, g, t) PROVE s \notin observed.ignore
      OBVIOUS
    <3>1. s \in SectionIDs /\ s[1] \in Nat /\ s[2] \in Nat
      <4>1. s \in SectionIDs
        BY DEF Required
      <4>2. s[1] \in 0..LastSegment /\ s[2] \in 1..SegmentSize
        BY <4>1 DEF SectionIDs, SegmentIDs
      <4> QED
        BY <4>1, <4>2
    <3>2. s[1] <= lasts.segment
      <4>1. s[1] < Len(on.segments[t])
        BY DEF Required
      <4>2. Len(on.segments[t]) - 1 \in Nat
        BY <1>1, EITSnapshotAssumption, SegmentsCounted
      <4>3. lasts.segment = Len(on.segments[t]) - 1
        OBVIOUS
      <4>4. Len(on.segments[t]) \in Int
        BY <1>1
      <4> HIDE DEF lasts, on
      <4> QED
        BY <3>1, <4>1, <4>2, <4>3, <4>4
    <3>3. s[1] = segment => s[2] <= lasts.section
      BY <3>1 DEF Required
    <3>4. t = 0 => s[1] >= hourSegment
      BY DEF Required
    <3>5. lasts.segment \in Nat /\ lasts.section \in Nat
      <4>1. segment + 1 \in 1..Len(on.segments[t]) /\ Len(on.segments[t]) - 1 \in Nat
        BY <1>1, EITSnapshotAssumption, SegmentsCounted
      <4>2. on.segments[t][segment + 1] \in Nat
        BY <1>1, <4>1
      <4> QED
        BY <4>1, <4>2
    <3>6. hourSegment \in Nat /\ segment \in Nat
      BY <1>2, EITSnapshotAssumption DEF SnapshotInv, SnapshotShapes, SegmentIDs
    <3> HIDE DEF lasts, flags
    <3>7. observed.ignore = flags[t].ignore
            \cup (IF t = 0 THEN {r \in SectionIDs : r[1] < hourSegment} ELSE {})
            \cup {r \in SectionIDs : r[1] > lasts.segment}
            \cup {r \in SectionIDs : r[1] = segment /\ r[2] > lasts.section}
      BY DEF ObservedFlag
    <3>8. s \notin flags[t].ignore
      BY <2>3
    <3> QED
      BY <3>1, <3>2, <3>3, <3>4, <3>5, <3>6, <3>7, <3>8
  <2>5. PICK e \in 1..onAir : e = onAir
    BY <2>1, <1>3
  <2>6. Editions[e][g].last = on.last /\ Editions[e][g].version[t] = version
    BY <2>5
  <2>7. \A s \in Required(e, g, t) : s \notin observed.ignore
    BY <2>4, <2>5
  <2>8. Required(e, g, t)' = Required(e, g, t)
    BY <1>1, <1>10
  <2> HIDE DEF on, version, lasts, group, renewed, flags, observed, id
  <2>9. \A s \in observed.flag : sectionVersions'[g][t][s] = version
    BY <1>5, <1>6, <1>9, <1>1, <2>2 DEF ReadyFlags
  <2>10. MadeFrom(e, g, t)'
    BY <1>6, <1>8, <2>6, <2>7, <2>8, <2>9 DEF MadeFrom
  <2> QED
    BY <1>3, <1>6, <1>8, <2>5, <2>10 DEF TableKnown
<1>14. ASSUME NEW u \in 0..on.last, u # t PROVE TableKnown(g, u)'
  <2>1. u \in TableIDs
    BY <1>1, EITSnapshotAssumption DEF TableIDs
  <2>2. readyGroup'[g].flags[u] = flags[u] /\ sectionVersions'[g][u] = sectionVersions[g][u]
    BY <1>8, <1>9, <1>14, <2>1
  <2>3. CASE renewed
    <3>1. readyGroup'[g].flags[u] = ClearFlag
      BY <1>12, <2>2, <2>3
    <3>2. /\ ~readyGroup'[g].flags[u].observed
          /\ readyGroup'[g].flags[u].flag = {} /\ readyGroup'[g].flags[u].ignore = {}
      BY <3>1 DEF ClearFlag
    <3> QED
      BY <3>2 DEF TableKnown
  <2>4. CASE ~renewed
    <3>1. /\ TableKnown(g, u) /\ readyGroup'[g].flags[u] = readyGroup[g].flags[u]
          /\ readyGroup'[g].last = readyGroup[g].last
      BY <1>8, <1>11, <2>2, <2>4 DEF SnapshotInv, GroupsKnown
    <3>2. \A e \in 1..onAir : MadeFrom(e, g, u) => MadeFrom(e, g, u)'
      BY <1>10, <2>1, <2>2, <3>1 DEF MadeFrom
    <3> QED
      BY <1>3, <3>1, <3>2 DEF TableKnown
  <2> QED
    BY <2>3, <2>4
<1>15. ASSUME NEW h \in Groups \ {g}, readyGroup[h] # NoGroup, NEW u \in 0..readyGroup[h].last
       PROVE  TableKnown(h, u)'
  <2>1. u \in TableIDs
    BY <1>15, EITSnapshotAssumption DEF TableIDs, SnapshotInv, SnapshotShapes
  <2>2. /\ TableKnown(h, u) /\ readyGroup'[h] = readyGroup[h]
        /\ sectionVersions'[h] = sectionVersions[h]
    BY <1>8, <1>9, <1>15 DEF SnapshotInv, GroupsKnown
  <2>3. \A e \in 1..onAir : MadeFrom(e, h, u) => MadeFrom(e, h, u)'
    BY <1>10, <2>1, <2>2 DEF MadeFrom
  <2> QED
    BY <1>3, <2>2, <2>3 DEF TableKnown
<1>16. GroupsKnown'
  BY <1>8, <1>13, <1>14, <1>15 DEF GroupsKnown
<1> QED
  BY <1>7, <1>16 DEF SnapshotInv

\* Every step keeps the invariant.
LEMMA SnapshotStep == SnapshotInv /\ [SnapshotNext]_snapshotVars => SnapshotInv'
<1> SUFFICES ASSUME SnapshotInv, [SnapshotNext]_snapshotVars PROVE SnapshotInv'
  OBVIOUS
<1>1. CASE SectionArrives
  BY <1>1, ObserveKeeps DEF SectionArrives
<1>2. CASE EditionChanges
  BY <1>2, SnapshotTimePasses DEF EditionChanges, SnapshotInv, SnapshotShapes
<1>3. CASE ClockAdvances
  BY <1>3, SnapshotTimePasses DEF ClockAdvances, SnapshotInv, SnapshotShapes
<1>4. CASE UNCHANGED snapshotVars
  BY <1>4, SnapshotTimePasses DEF snapshotVars, SnapshotInv, SnapshotShapes
<1> QED
  BY <1>1, <1>2, <1>3, <1>4 DEF SnapshotNext

(* Every flag that a group keeps was made from one edition since the last   *)
(* reset (snapshot.go 124-185).                                             *)
THEOREM SnapshotInductive == SnapshotSpec => []SnapshotInv
  BY SnapshotStarts, SnapshotStep, PTL DEF SnapshotSpec

(* A schedule counts as complete only when every section that its tables    *)
(* have, but for the hours already past, is stored in one version of the    *)
(* table, for every geometry of tables, every run of editions and every     *)
(* order in which the broadcaster repeats its sections.                     *)
THEOREM ReadySchedulesAreComplete == SnapshotSpec => []ReadyMeansComplete
<1>1. SnapshotInv => ReadyMeansComplete
  <2> SUFFICES ASSUME SnapshotInv, NEW g \in Groups, Ready(readyGroup[g]),
                      NEW t \in 0..readyGroup[g].last
               PROVE  \E e \in 1..onAir :
                        /\ Editions[e][g].last = readyGroup[g].last
                        /\ Editions[e][g].version[t] = readyGroup[g].flags[t].version
                        /\ \A s \in Required(e, g, t) :
                             sectionVersions[g][t][s] = readyGroup[g].flags[t].version
    BY DEF ReadyMeansComplete
  <2> DEFINE f == readyGroup[g].flags[t]
  <2>1. readyGroup[g] # NoGroup /\ TableKnown(g, t)
    BY DEF Ready, SnapshotInv, GroupsKnown
  <2>2. t \in TableIDs
    BY <2>1, EITSnapshotAssumption DEF SnapshotInv, SnapshotShapes, TableIDs
  <2>3. f.flag \cup f.ignore = SectionIDs
    BY <2>2 DEF Ready
  <2>4. <<0, 1>> \in SectionIDs
    BY EITSnapshotAssumption DEF SectionIDs, SegmentIDs
  <2>5. PICK e \in 1..onAir : MadeFrom(e, g, t)
    BY <2>1, <2>3, <2>4 DEF TableKnown
  <2>6. \A s \in Required(e, g, t) : s \in f.flag
    BY <2>3, <2>5 DEF MadeFrom, Required
  <2> QED
    BY <2>5, <2>6 DEF MadeFrom
<1> QED
  BY <1>1, SnapshotInductive, PTL

-----------------------------------------------------------------------------
(* EPGCollection.                                                          *)

AirSections == [kind : {"eits", "pf"}, service : Services, n : Nat]
PartialSnapshots == UNION {[S -> Nat] : S \in SUBSET Services}

CollectionShapes ==
  /\ remaining \in SUBSET Services /\ dirty \in SUBSET Services
  /\ persisting \in SUBSET Services /\ unmerged \in SUBSET Services
  /\ phase \in {"candidate", "sync", "loop", "drain", "stop", "await", "persist"}
  /\ sectionCh \in Seq(AirSections)
  /\ aired \in [Services -> Nat] /\ snapshotOf \in [Services -> Nat]
  /\ accepted \in [Services -> Nat]
  /\ guide \in [Services -> Int] /\ kept \in [Services -> Int]
  /\ partial \in [requests : Seq(PartialSnapshots), storing : Seq(PartialSnapshots)]

\* Sections reach the snapshot in the order in which they were on the air.
SectionsInOrder ==
  /\ \A s \in Services : snapshotOf[s] <= aired[s]
  /\ \A i \in 1..Len(sectionCh) : sectionCh[i].kind = "eits" =>
       /\ snapshotOf[sectionCh[i].service] < sectionCh[i].n
       /\ sectionCh[i].n <= aired[sectionCh[i].service]
  /\ \A i, j \in 1..Len(sectionCh) :
       i < j /\ sectionCh[i].kind = "eits" /\ sectionCh[j].kind = "eits"
             /\ sectionCh[i].service = sectionCh[j].service
         => sectionCh[i].n < sectionCh[j].n

\* What was accepted is in the snapshot or still in the channel.
Waiting(s) ==
  \E i \in 1..Len(sectionCh) :
    sectionCh[i].kind = "eits" /\ sectionCh[i].service = s /\ accepted[s] <= sectionCh[i].n
AcceptedNotLost ==
  \A s \in Services : accepted[s] # 0 =>
    /\ phase \in {"loop", "drain"} => accepted[s] <= snapshotOf[s] \/ Waiting(s)
    /\ phase \in {"stop", "await", "persist"} => accepted[s] <= snapshotOf[s]

\* The partial flusher only ever stores services that the final merge covers,
\* and is idle from the wait on.
WorkersBehave ==
  /\ \A s \in dirty : snapshotOf[s] # 0
  /\ \A i \in 1..Len(partial.requests) : \A s \in DOMAIN partial.requests[i] : snapshotOf[s] # 0
  /\ \A i \in 1..Len(partial.storing) : \A s \in DOMAIN partial.storing[i] : snapshotOf[s] # 0
  /\ phase \notin {"loop", "drain", "stop"} => partial = NoPartial

\* Where the guide may be newer or older than what was merged.
Settled(s) ==
  CASE phase \in {"candidate", "sync"} -> TRUE
    [] phase \in {"loop", "drain", "stop", "await"} -> snapshotOf[s] = 0
    [] phase = "persist" -> s \notin persisting
GuideKept ==
  \A s \in Services : Settled(s) /\ s \notin unmerged /\ kept[s] # 0 => guide[s] = kept[s]

\* A service that is not left to gather has been merged, or its merge failed.
MergesCounted ==
  /\ phase \notin {"sync", "persist"} => persisting = {}
  /\ phase = "persist" =>
       /\ \A s \in persisting : snapshotOf[s] # 0
       /\ \A s \in Services : snapshotOf[s] # 0 /\ s \notin persisting /\ s \notin unmerged
                                => kept[s] # 0
  /\ phase = "sync" =>
       \A s \in remaining : s \notin persisting /\ s \notin unmerged => kept[s] # 0
  /\ \A s \in Services : s \notin remaining /\ s \notin unmerged => kept[s] # 0
  /\ gatherResult = "ok" => remaining = {}

CollectionInv ==
  /\ CollectionShapes /\ SectionsInOrder /\ AcceptedNotLost
  /\ WorkersBehave /\ GuideKept /\ MergesCounted

LEMMA CollectionStarts == EPGInit => CollectionInv
  BY DEF EPGInit, CollectionInv, CollectionShapes, SectionsInOrder, AcceptedNotLost,
         WorkersBehave, GuideKept, Settled, MergesCounted, None, NoPartial

\* Steps that only the control of gatherNetwork and of the loop is about.
LEMMA CollectionControlSteps ==
  ASSUME CollectionInv,
         \/ GatherEnds \/ SessionFails \/ StartCollection \/ StartSync \/ SyncEnds
         \/ CollectorEnds \/ LoopEnds \/ DrainEnds \/ WorkersStopped \/ AwaitCollector
         \/ CollectionEnds \/ PFStores \/ DeadlinePasses \/ JobCanceled
         \/ UNCHANGED epgVars
  PROVE  CollectionInv'
<1> USE DEF CollectionInv, gatherVars, workerVars, mergeVars, CollectionShapes,
             SectionsInOrder, AcceptedNotLost, Waiting, WorkersBehave, GuideKept, Settled,
             MergesCounted
<1>1. CASE GatherEnds
  BY <1>1 DEF GatherEnds
<1>2. CASE SessionFails
  BY <1>2 DEF SessionFails, CandidateDone, AtCandidate
<1>3. CASE StartCollection
  BY <1>3 DEF StartCollection, AtCandidate, None, NoPartial
<1>4. CASE StartSync
  BY <1>4 DEF StartSync, AtCandidate
<1>5. CASE SyncEnds
  BY <1>5 DEF SyncEnds, CandidateDone
<1>6. CASE CollectorEnds
  BY <1>6 DEF CollectorEnds
<1>7. CASE LoopEnds
  BY <1>7 DEF LoopEnds
<1>8. CASE DrainEnds
  BY <1>8 DEF DrainEnds
<1>9. CASE WorkersStopped
  BY <1>9 DEF WorkersStopped
<1>10. CASE AwaitCollector
  BY <1>10 DEF AwaitCollector
<1>11. CASE CollectionEnds
  BY <1>11 DEF CollectionEnds, CandidateDone
<1>12. CASE PFStores
  <2>1. CollectionShapes'
    BY <1>12 DEF PFStores
  <2>2. SectionsInOrder'
    BY <1>12 DEF PFStores
  <2>3. AcceptedNotLost'
    BY <1>12 DEF PFStores
  <2>4. WorkersBehave'
    BY <1>12 DEF PFStores
  <2>5. GuideKept'
    BY <1>12 DEF PFStores
  <2>6. MergesCounted'
    BY <1>12 DEF PFStores
  <2> QED
    BY <2>1, <2>2, <2>3, <2>4, <2>5, <2>6
<1>13. CASE DeadlinePasses
  BY <1>13 DEF DeadlinePasses
<1>14. CASE JobCanceled
  BY <1>14 DEF JobCanceled
<1>15. CASE UNCHANGED epgVars
  BY <1>15 DEF epgVars
<1> QED
  BY <1>1, <1>2, <1>3, <1>4, <1>5, <1>6, <1>7, <1>8, <1>9, <1>10, <1>11, <1>12, <1>13, <1>14, <1>15

\* Merging a service, from the air or from a peer.
LEMMA CollectionMergeSteps ==
  ASSUME CollectionInv, SyncService \/ Persist
  PROVE  CollectionInv'
<1> USE DEF CollectionInv, gatherVars, workerVars, mergeVars, CollectionShapes,
            SectionsInOrder, AcceptedNotLost, Waiting, WorkersBehave, GuideKept, Settled,
            MergesCounted
<1>1. CASE SyncService
  <2>1. CollectionShapes'
    <3>1. PICK s \in persisting, replaced \in BOOLEAN :
            /\ guide' = IF replaced THEN [guide EXCEPT ![s] = RemoteCopy] ELSE guide
            /\ kept' = IF replaced THEN [kept EXCEPT ![s] = RemoteCopy] ELSE kept
            /\ persisting' = persisting \ {s}
            /\ unmerged' = IF replaced THEN unmerged \ {s} ELSE unmerged \cup {s}
      BY <1>1 DEF SyncService
    <3>2. guide' \in [Services -> Int] /\ kept' \in [Services -> Int]
      BY <3>1 DEF RemoteCopy
    <3>3. persisting' \in SUBSET Services /\ unmerged' \in SUBSET Services
      BY <3>1
    <3> QED
      BY <1>1, <3>2, <3>3 DEF SyncService
  <2>2. SectionsInOrder'
    BY <1>1 DEF SyncService, RemoteCopy
  <2>3. AcceptedNotLost'
    BY <1>1 DEF SyncService, RemoteCopy
  <2>4. WorkersBehave'
    BY <1>1 DEF SyncService, RemoteCopy
  <2>5. GuideKept'
    BY <1>1 DEF SyncService, RemoteCopy
  <2>6. MergesCounted'
    BY <1>1 DEF SyncService, RemoteCopy
  <2> QED
    BY <2>1, <2>2, <2>3, <2>4, <2>5, <2>6
<1>2. CASE Persist
  BY <1>2 DEF Persist
<1> QED
  BY <1>1, <1>2

\* What the workers do to the store concerns services that will be merged.
LEMMA CollectionWorkerSteps ==
  ASSUME CollectionInv, PartialTakes \/ PartialStores \/ LoopTick
  PROVE  CollectionInv'
<1> USE DEF CollectionInv, gatherVars, workerVars, mergeVars, CollectionShapes,
            SectionsInOrder, AcceptedNotLost, Waiting, GuideKept, Settled, MergesCounted
<1>1. CASE PartialTakes
  <2>1. partial' \in [requests : Seq(PartialSnapshots), storing : Seq(PartialSnapshots)]
    BY <1>1 DEF PartialTakes
  <2>2. /\ partial.requests \in Seq(PartialSnapshots) /\ partial.requests # << >>
        /\ partial'.requests = Tail(partial.requests)
        /\ partial'.storing = <<Head(partial.requests)>>
        /\ snapshotOf' = snapshotOf /\ dirty' = dirty /\ phase' = phase
    BY <1>1 DEF PartialTakes
  <2>3. /\ \A i \in 1..Len(partial'.requests) :
             i + 1 \in 1..Len(partial.requests) /\ partial'.requests[i] = partial.requests[i + 1]
        /\ 1 \in 1..Len(partial.requests)
        /\ \A i \in 1..Len(partial'.storing) : partial'.storing[i] = partial.requests[1]
    BY <2>2
  <2>4. phase \in {"loop", "drain", "stop"}
    BY <2>2 DEF WorkersBehave, NoPartial
  <2>5. WorkersBehave'
    BY <2>2, <2>3, <2>4 DEF WorkersBehave
  <2> QED
    BY <1>1, <2>1, <2>5 DEF PartialTakes
<1>2. CASE PartialStores
  <2> DEFINE changed == Head(partial.storing)
  <2>1. /\ changed \in PartialSnapshots
        /\ \A s \in DOMAIN changed : snapshotOf[s] # 0
        /\ phase \in {"loop", "drain", "stop"}
    <3>1. partial.storing \in Seq(PartialSnapshots) /\ partial.storing # << >>
      BY <1>2 DEF PartialStores
    <3>2. changed = partial.storing[1] /\ 1 \in 1..Len(partial.storing)
      BY <3>1
    <3>3. changed \in PartialSnapshots
      BY <3>1
    <3>4. phase \in {"loop", "drain", "stop"}
      BY <3>1 DEF WorkersBehave, NoPartial
    <3>5. \A s \in DOMAIN partial.storing[1] : snapshotOf[s] # 0
      BY <3>2 DEF WorkersBehave
    <3> QED
      BY <3>2, <3>3, <3>4, <3>5
  <2>2. \A s \in DOMAIN changed : changed[s] \in Nat
    BY <2>1 DEF PartialSnapshots
  <2>3. /\ \/ guide' = [s \in Services |-> IF s \in DOMAIN changed THEN changed[s] ELSE guide[s]]
           \/ guide' = guide
        /\ UNCHANGED <<gatherVars, phase, sectionCh, aired, snapshotOf, dirty, mergeVars, accepted>>
    BY <1>2 DEF PartialStores
  <2> HIDE DEF changed
  <2>4. guide' \in [Services -> Int]
    BY <2>2, <2>3
  <2>5. \A s \in Services : snapshotOf[s] = 0 => guide'[s] = guide[s]
    BY <2>1, <2>3
  <2>6. /\ partial' \in [requests : Seq(PartialSnapshots), storing : Seq(PartialSnapshots)]
        /\ partial'.requests = partial.requests /\ partial'.storing = << >>
    <3>1. partial' = [requests |-> partial.requests, storing |-> << >>]
      BY <1>2 DEF PartialStores
    <3>2. << >> \in Seq(PartialSnapshots) /\ partial.requests \in Seq(PartialSnapshots)
      OBVIOUS
    <3> QED
      BY <3>1, <3>2
  <2>7. WorkersBehave'
    BY <2>1, <2>3, <2>6 DEF WorkersBehave
  <2>8. CollectionShapes' /\ SectionsInOrder' /\ AcceptedNotLost' /\ MergesCounted'
    BY <2>3, <2>4, <2>6
  <2>9. GuideKept'
    BY <2>1, <2>3, <2>5
  <2> QED
    BY <2>7, <2>8, <2>9
<1>3. CASE LoopTick
  <2> DEFINE request == [s \in dirty |-> snapshotOf[s]]
  <2>1. request \in PartialSnapshots /\ DOMAIN request = dirty
    BY DEF PartialSnapshots
  <2>2. \/ partial' = partial /\ dirty' = dirty
        \/ partial' = [requests |-> Append(partial.requests, request),
                       storing |-> partial.storing] /\ dirty' = {}
    BY <1>3 DEF LoopTick
  <2>3. UNCHANGED <<gatherVars, phase, sectionCh, aired, snapshotOf, mergeVars, guide, accepted>>
        /\ phase = "loop"
    BY <1>3 DEF LoopTick
  <2>4. PICK r \in PartialSnapshots : r = request
    BY <2>1
  <2> HIDE DEF request
  <2>5. CASE partial' = partial /\ dirty' = dirty
    BY <2>3, <2>5 DEF WorkersBehave
  <2>6. CASE dirty' = {} /\ partial' = [requests |-> Append(partial.requests, r),
                                       storing |-> partial.storing]
    <3>1. /\ partial.requests \in Seq(PartialSnapshots) /\ partial.storing \in Seq(PartialSnapshots)
          /\ partial'.requests = Append(partial.requests, r)
          /\ partial'.storing = partial.storing
      BY <2>6
    <3>2. /\ partial'.requests \in Seq(PartialSnapshots)
          /\ Len(partial'.requests) = Len(partial.requests) + 1
          /\ partial'.requests[Len(partial.requests) + 1] = r
          /\ \A i \in 1..Len(partial.requests) : partial'.requests[i] = partial.requests[i]
      BY <3>1
    <3>3. partial' \in [requests : Seq(PartialSnapshots), storing : Seq(PartialSnapshots)]
      BY <2>6, <3>1, <3>2
    <3>4. \A i \in 1..Len(partial'.requests) : \A s \in DOMAIN partial'.requests[i] :
            snapshotOf[s] # 0
      BY <2>1, <2>4, <3>1, <3>2 DEF WorkersBehave
    <3>5. WorkersBehave'
      BY <2>3, <2>6, <3>1, <3>4 DEF WorkersBehave
    <3> QED
      BY <2>3, <2>6, <3>3, <3>5
  <2> QED
    BY <2>2, <2>4, <2>5, <2>6
<1> QED
  BY <1>1, <1>2, <1>3

\* A section enters the channel behind all that were on the air before it.
LEMMA CollectionSendSteps ==
  ASSUME CollectionInv, CollectorSends \/ CollectorSendsPF
  PROVE  CollectionInv'
<1> USE DEF CollectionInv, gatherVars, workerVars, mergeVars, CollectionShapes,
            WorkersBehave, GuideKept, Settled, MergesCounted
<1>1. CASE CollectorSends
  <2>1. PICK s \in Services :
          /\ aired' = [aired EXCEPT ![s] = @ + 1]
          /\ sectionCh' = Append(sectionCh, [kind |-> "eits", service |-> s, n |-> aired'[s]])
          /\ accepted' = IF phase = "loop" THEN [accepted EXCEPT ![s] = aired'[s]] ELSE accepted
    BY <1>1 DEF CollectorSends
  <2>2. /\ aired'[s] = aired[s] + 1 /\ aired' \in [Services -> Nat]
        /\ \A r \in Services : aired[r] <= aired'[r]
        /\ accepted' \in [Services -> Nat]
    BY <2>1
  <2>3. /\ sectionCh' \in Seq(AirSections) /\ Len(sectionCh') = Len(sectionCh) + 1
        /\ sectionCh'[Len(sectionCh) + 1] = [kind |-> "eits", service |-> s, n |-> aired'[s]]
        /\ \A i \in 1..Len(sectionCh) : sectionCh'[i] = sectionCh[i]
    BY <2>1, <2>2 DEF AirSections
  <2>4. UNCHANGED <<phase, snapshotOf, partial, dirty, guide, kept, unmerged, persisting,
                    remaining, gatherResult>>
    BY <1>1 DEF CollectorSends
  <2>5. SectionsInOrder'
    <3> DEFINE n == Len(sectionCh)
    <3>1. /\ n \in Nat /\ \A r \in Services : aired[r] \in Nat /\ snapshotOf[r] \in Nat
          /\ \A i \in 1..n : sectionCh[i].service \in Services /\ sectionCh[i].n \in Nat
      <4>1. \A i \in 1..n : sectionCh[i] \in AirSections
        OBVIOUS
      <4>2. \A i \in 1..n : sectionCh[i].service \in Services /\ sectionCh[i].n \in Nat
        BY <4>1 DEF AirSections
      <4>3. n \in Nat /\ \A r \in Services : aired[r] \in Nat /\ snapshotOf[r] \in Nat
        OBVIOUS
      <4> QED
        BY <4>2, <4>3
    <3>2. /\ sectionCh'[n + 1].kind = "eits" /\ sectionCh'[n + 1].service = s
          /\ sectionCh'[n + 1].n = aired[s] + 1
      BY <2>2, <2>3
    <3>3. \A r \in Services : snapshotOf[r] <= aired'[r]
      BY <2>2, <3>1 DEF SectionsInOrder
    <3>4. ASSUME NEW i \in 1..n, sectionCh[i].kind = "eits"
          PROVE  /\ snapshotOf[sectionCh[i].service] < sectionCh[i].n
                 /\ sectionCh[i].n <= aired[sectionCh[i].service]
                 /\ sectionCh[i].n <= aired'[sectionCh[i].service]
      <4>1. /\ snapshotOf[sectionCh[i].service] < sectionCh[i].n
            /\ sectionCh[i].n <= aired[sectionCh[i].service]
        BY <3>4 DEF SectionsInOrder
      <4>2. PICK r \in Services : r = sectionCh[i].service
        BY <3>1
      <4>3. sectionCh[i].n \in Nat /\ aired[r] \in Nat /\ aired'[r] \in Nat
        BY <2>2, <3>1
      <4>4. aired[r] <= aired'[r]
        BY <2>2
      <4>5. sectionCh[i].n <= aired[r]
        BY <4>1, <4>2
      <4>6. sectionCh[i].n <= aired'[r]
        BY <4>3, <4>4, <4>5
      <4> QED
        BY <4>1, <4>2, <4>6
    <3>5. snapshotOf[s] < aired[s] + 1
      BY <3>1 DEF SectionsInOrder
    <3>6. \A i \in 1..Len(sectionCh') : sectionCh'[i].kind = "eits" =>
             /\ snapshotOf[sectionCh'[i].service] < sectionCh'[i].n
             /\ sectionCh'[i].n <= aired'[sectionCh'[i].service]
      <4> SUFFICES ASSUME NEW i \in 1..n + 1, sectionCh'[i].kind = "eits"
                   PROVE  /\ snapshotOf[sectionCh'[i].service] < sectionCh'[i].n
                          /\ sectionCh'[i].n <= aired'[sectionCh'[i].service]
        BY <2>3
      <4>1. CASE i = n + 1
        BY <2>2, <3>2, <3>5, <4>1
      <4>2. CASE i # n + 1
        <5>1. i \in 1..n /\ sectionCh'[i] = sectionCh[i]
          BY <2>3, <3>1, <4>2
        <5> QED
          BY <3>4, <5>1
      <4> QED
        BY <4>1, <4>2
    <3>7. ASSUME NEW i \in 1..Len(sectionCh'), NEW j \in 1..Len(sectionCh'), i < j,
                 sectionCh'[i].kind = "eits", sectionCh'[j].kind = "eits",
                 sectionCh'[i].service = sectionCh'[j].service
          PROVE  sectionCh'[i].n < sectionCh'[j].n
      <4>1. i \in 1..n /\ sectionCh'[i] = sectionCh[i]
        BY <2>3, <3>1, <3>7
      <4>2. CASE j = n + 1
        <5>1. sectionCh[i].n <= aired[s]
          BY <3>2, <3>4, <3>7, <4>1, <4>2
        <5> QED
          BY <3>1, <3>2, <4>1, <4>2, <5>1
      <4>3. CASE j # n + 1
        <5>1. j \in 1..n /\ sectionCh'[j] = sectionCh[j]
          BY <2>3, <3>1, <4>3
        <5> QED
          BY <3>7, <4>1, <5>1 DEF SectionsInOrder
      <4> QED
        BY <4>2, <4>3
    <3> QED
      BY <2>4, <3>3, <3>6, <3>7 DEF SectionsInOrder
  <2>6. AcceptedNotLost'
    <3> SUFFICES ASSUME NEW r \in Services, accepted'[r] # 0
                 PROVE  /\ phase \in {"loop", "drain"} =>
                             accepted'[r] <= snapshotOf[r] \/ Waiting(r)'
                        /\ phase \in {"stop", "await", "persist"} => accepted'[r] <= snapshotOf[r]
      BY <2>4 DEF AcceptedNotLost
    <3>1. CASE phase = "loop" /\ r = s
      <4>1. accepted'[r] = aired'[s] /\ Len(sectionCh) + 1 \in 1..Len(sectionCh')
        BY <2>1, <2>3, <3>1
      <4>2. accepted'[r] <= sectionCh'[Len(sectionCh) + 1].n
        BY <2>2, <2>3, <4>1
      <4>3. Waiting(r)'
        <5>1. /\ sectionCh'[Len(sectionCh) + 1].kind = "eits"
              /\ sectionCh'[Len(sectionCh) + 1].service = r
          BY <2>3, <3>1
        <5> QED
          BY <4>1, <4>2, <5>1 DEF Waiting
      <4> QED
        BY <3>1, <4>3
    <3>2. CASE ~(phase = "loop" /\ r = s)
      <4>1. accepted'[r] = accepted[r]
        BY <2>1, <3>2
      <4>2. Waiting(r) => Waiting(r)'
        BY <2>3, <4>1 DEF Waiting
      <4> QED
        BY <4>1, <4>2 DEF AcceptedNotLost
    <3> QED
      BY <3>1, <3>2
  <2> QED
    BY <2>2, <2>3, <2>4, <2>5, <2>6
<1>2. CASE CollectorSendsPF
  <2>1. PICK s \in Services :
          sectionCh' = Append(sectionCh, [kind |-> "pf", service |-> s, n |-> 0])
    BY <1>2 DEF CollectorSendsPF
  <2>2. /\ sectionCh' \in Seq(AirSections) /\ Len(sectionCh') = Len(sectionCh) + 1
        /\ sectionCh'[Len(sectionCh) + 1].kind = "pf"
        /\ \A i \in 1..Len(sectionCh) : sectionCh'[i] = sectionCh[i]
    BY <2>1 DEF AirSections
  <2>3. UNCHANGED <<aired, accepted, phase, snapshotOf, partial, dirty, guide, kept, unmerged,
                    persisting, remaining, gatherResult>>
    BY <1>2 DEF CollectorSendsPF
  <2>4. SectionsInOrder'
    <3>1. \A i \in 1..Len(sectionCh') : sectionCh'[i].kind = "eits" =>
            i \in 1..Len(sectionCh) /\ sectionCh'[i] = sectionCh[i]
      BY <2>2
    <3> QED
      BY <2>3, <3>1 DEF SectionsInOrder
  <2>5. \A r \in Services : Waiting(r) => Waiting(r)'
    BY <2>2, <2>3 DEF Waiting
  <2>6. AcceptedNotLost'
    BY <2>3, <2>5 DEF AcceptedNotLost
  <2> QED
    BY <2>2, <2>3, <2>4, <2>6
<1> QED
  BY <1>1, <1>2

\* handleSection takes the oldest section: the snapshot only moves forward.
LEMMA HandleSectionKeeps ==
  ASSUME CollectionInv, HandleSection, phase \in {"loop", "drain"},
         UNCHANGED <<remaining, persisting, unmerged, phase, aired, accepted, guide, kept,
                     partial, gatherResult>>
  PROVE  CollectionInv'
<1> USE DEF CollectionInv, CollectionShapes
<1> DEFINE n == Len(sectionCh)
<1>1. /\ sectionCh # << >> /\ sectionCh[1] \in AirSections
      /\ sectionCh' \in Seq(AirSections) /\ Len(sectionCh') = n - 1 /\ n \in Nat \ {0}
      /\ \A i \in 1..n - 1 : sectionCh'[i] = sectionCh[i + 1]
  BY DEF HandleSection
<1>2. /\ \A i \in 1..Len(sectionCh') :
           i + 1 \in 1..n /\ sectionCh'[i] = sectionCh[i + 1]
      /\ \A i, j \in 1..Len(sectionCh') : i < j => i + 1 < j + 1
      /\ \A i \in 1..Len(sectionCh') : 1 < i + 1
      /\ 1 \in 1..n
  BY <1>1
<1>3. CASE sectionCh[1].kind = "pf"
  <2>1. snapshotOf' = snapshotOf /\ dirty' = dirty
    BY <1>1, <1>3 DEF HandleSection
  <2>2. SectionsInOrder'
    BY <1>2, <2>1 DEF SectionsInOrder
  <2>3. \A s \in Services : Waiting(s) => Waiting(s)'
    <3> SUFFICES ASSUME NEW s \in Services, Waiting(s) PROVE Waiting(s)'
      OBVIOUS
    <3>1. PICK i \in 1..n : /\ sectionCh[i].kind = "eits" /\ sectionCh[i].service = s
                            /\ accepted[s] <= sectionCh[i].n
      BY DEF Waiting
    <3>2. i # 1
      BY <1>3, <3>1
    <3>3. i - 1 \in 1..Len(sectionCh') /\ sectionCh'[i - 1] = sectionCh[i]
      BY <1>1, <3>2
    <3> QED
      BY <3>1, <3>3 DEF Waiting
  <2>4. AcceptedNotLost'
    BY <2>1, <2>3 DEF AcceptedNotLost
  <2> QED
    BY <1>1, <2>1, <2>2, <2>4 DEF WorkersBehave, GuideKept, Settled, MergesCounted
<1>4. CASE sectionCh[1].kind # "pf"
  <2> DEFINE s == sectionCh[1].service
             newest == sectionCh[1].n
  <2>1. /\ s \in Services /\ newest \in Nat /\ sectionCh[1].kind = "eits"
        /\ snapshotOf[s] < newest /\ newest <= aired[s]
    <3>1. s \in Services /\ newest \in Nat /\ sectionCh[1].kind = "eits"
      BY <1>1, <1>4 DEF AirSections
    <3> QED
      BY <1>2, <3>1 DEF SectionsInOrder
  <2>2. snapshotOf' = [snapshotOf EXCEPT ![s] = newest] /\ dirty' = dirty \cup {s}
    BY <1>1, <1>4 DEF HandleSection
  <2>3. /\ snapshotOf' \in [Services -> Nat] /\ snapshotOf'[s] = newest
        /\ \A r \in Services : snapshotOf[r] <= snapshotOf'[r]
        /\ \A r \in Services \ {s} : snapshotOf'[r] = snapshotOf[r]
    BY <2>1, <2>2
  <2>4. SectionsInOrder'
    <3>1. \A i \in 1..Len(sectionCh') :
            sectionCh'[i].kind = "eits" /\ sectionCh'[i].service = s => newest < sectionCh'[i].n
      BY <1>2, <2>1 DEF SectionsInOrder
    <3>2. \A i \in 1..Len(sectionCh') : sectionCh'[i].service \in Services
      <4>1. \A i \in 1..Len(sectionCh') : sectionCh'[i] \in AirSections
        BY <1>1
      <4> QED
        BY <4>1 DEF AirSections
    <3> HIDE DEF s, newest
    <3>3. \A i \in 1..Len(sectionCh') : sectionCh'[i].kind = "eits" =>
            /\ snapshotOf'[sectionCh'[i].service] < sectionCh'[i].n
            /\ sectionCh'[i].n <= aired[sectionCh'[i].service]
      <4> SUFFICES ASSUME NEW i \in 1..Len(sectionCh'), sectionCh'[i].kind = "eits"
                   PROVE  /\ snapshotOf'[sectionCh'[i].service] < sectionCh'[i].n
                          /\ sectionCh'[i].n <= aired[sectionCh'[i].service]
        OBVIOUS
      <4>1. /\ snapshotOf[sectionCh'[i].service] < sectionCh'[i].n
            /\ sectionCh'[i].n <= aired[sectionCh'[i].service]
        BY <1>2 DEF SectionsInOrder
      <4> QED
        BY <2>3, <3>1, <3>2, <4>1
    <3>4. \A i, j \in 1..Len(sectionCh') :
            i < j /\ sectionCh'[i].kind = "eits" /\ sectionCh'[j].kind = "eits"
                  /\ sectionCh'[i].service = sectionCh'[j].service
              => sectionCh'[i].n < sectionCh'[j].n
      BY <1>2 DEF SectionsInOrder
    <3>5. \A r \in Services : snapshotOf'[r] <= aired[r]
      BY <2>1, <2>3 DEF SectionsInOrder
    <3> QED
      BY <3>3, <3>4, <3>5 DEF SectionsInOrder
  <2>5. \A r \in Services : Waiting(r) => Waiting(r)' \/ accepted[r] <= snapshotOf'[r]
    <3> SUFFICES ASSUME NEW r \in Services, Waiting(r)
                 PROVE  Waiting(r)' \/ accepted[r] <= snapshotOf'[r]
      OBVIOUS
    <3>1. PICK i \in 1..n : /\ sectionCh[i].kind = "eits" /\ sectionCh[i].service = r
                            /\ accepted[r] <= sectionCh[i].n
      BY DEF Waiting
    <3>2. CASE i = 1
      BY <2>3, <3>1, <3>2
    <3>3. CASE i # 1
      <4>1. i - 1 \in 1..Len(sectionCh') /\ sectionCh'[i - 1] = sectionCh[i]
        BY <1>1, <3>3
      <4> QED
        BY <3>1, <4>1 DEF Waiting
    <3> QED
      BY <3>2, <3>3
  <2>6. AcceptedNotLost'
    BY <2>3, <2>5 DEF AcceptedNotLost
  <2>7. \A r \in Services : snapshotOf[r] # 0 => snapshotOf'[r] # 0
    BY <2>3
  <2>8. WorkersBehave'
    <3>1. \A i \in 1..Len(partial.requests) : DOMAIN partial.requests[i] \subseteq Services
      BY DEF PartialSnapshots
    <3>2. \A i \in 1..Len(partial.storing) : DOMAIN partial.storing[i] \subseteq Services
      BY DEF PartialSnapshots
    <3>3. snapshotOf'[s] # 0
      BY <2>1, <2>3
    <3> QED
      BY <2>2, <2>7, <3>1, <3>2, <3>3 DEF WorkersBehave
  <2>9. GuideKept' /\ MergesCounted'
    BY <2>7 DEF GuideKept, Settled, MergesCounted
  <2> QED
    BY <1>1, <2>1, <2>2, <2>3, <2>4, <2>6, <2>8, <2>9
<1> QED
  BY <1>3, <1>4

\* Every step keeps the invariant.
LEMMA CollectionStep == CollectionInv /\ [EPGNext]_epgVars => CollectionInv'
<1> SUFFICES ASSUME CollectionInv, [EPGNext]_epgVars PROVE CollectionInv'
  OBVIOUS
<1>1. CASE LoopSection \/ DrainSection
  BY <1>1, HandleSectionKeeps DEF LoopSection, DrainSection, gatherVars, mergeVars
<1>2. CASE ~(LoopSection \/ DrainSection)
  BY <1>2, CollectionControlSteps, CollectionMergeSteps, CollectionWorkerSteps,
     CollectionSendSteps DEF EPGNext
<1> QED
  BY <1>1, <1>2

(* What the collector, the loop, the two workers and the merge keep true    *)
(* between them (collect.go 203-300, collect_workers.go).                   *)
THEOREM CollectionInductive == EPGSpec => []CollectionInv
  BY CollectionStarts, CollectionStep, PTL DEF EPGSpec

(* A section that was handed over in time is in the snapshot that is        *)
(* merged, a merged schedule is not overwritten by an older partial one,    *)
(* and a gathering that succeeds has stored every service whose last merge  *)
(* did not fail: for any number of services, candidates and sections and    *)
(* any size of the channel.                                                 *)
THEOREM CollectionsAreStored == EPGSpec => []CollectedIsStored
<1>1. CollectionInv => CollectedIsStored
  BY DEF CollectionInv, CollectionShapes, AcceptedNotLost, GuideKept, Settled, MergesCounted,
         CollectedIsStored
<1> QED
  BY <1>1, CollectionInductive, PTL

-----------------------------------------------------------------------------
(* ProgramEvents: the types.                                               *)

ProgramRow == [at : Nat, name : Nat]
Mention == [id : ProgramIDs, program : ProgramValues]
Working == [doing : {"upsert", "delete", "replace"}, new : Seq(Mention),
            before : [ProgramIDs -> ProgramRow]]
Telling == [turn : Nat, event : EventKind]
Announcing == [doing : {"announce"}, tell : SUBSET Telling]

StoreInv ==
  /\ programs \in [ProgramIDs -> ProgramRow]
  /\ update \in [Updaters -> {IdleUpdate} \cup Working \cup Announcing]

\* The programs of a batch.
LEMMA MentionTypes ==
  ASSUME NEW batch \in Seq(Mention)
  PROVE  /\ Len(batch) \in Nat /\ DOMAIN batch = 1 .. Len(batch)
         /\ Mentioned(batch) \subseteq ProgramIDs
         /\ \A i \in DOMAIN batch : /\ batch[i].id \in ProgramIDs
                                    /\ batch[i].program \in ProgramRow
                                    /\ batch[i].program # NoProgram
<1>1. \A p \in ProgramValues : p \in ProgramRow /\ p # NoProgram
  BY ProgramEventsAssumption DEF ProgramRow, NoProgram
<1>2. Len(batch) \in Nat /\ DOMAIN batch = 1 .. Len(batch)
  OBVIOUS
<1>3. \A i \in DOMAIN batch : batch[i] \in Mention
  BY <1>2
<1>4. \A m \in Mention : m.id \in ProgramIDs /\ m.program \in ProgramValues
  BY DEF Mention
<1> QED
  BY <1>1, <1>2, <1>3, <1>4 DEF Mentioned

\* A batch of a bounded length is a sequence.
LEMMA BatchesAreSequences ==
  ASSUME NEW n \in Nat, NEW batch \in Batches(n)
  PROVE  batch \in Seq(Mention)
<1>1. PICK k \in n .. MaxBatch : batch \in [1 .. k -> Mention]
  BY DEF Batches, Mention
<1>2. k \in Nat
  BY <1>1, ProgramEventsAssumption
<1> HIDE DEF Mention
<1> QED
  BY <1>1, <1>2

\* What is announced after a change is a program event.
LEMMA ChangesAreEvents ==
  ASSUME NEW before \in [ProgramIDs -> ProgramRow], NEW after,
         DOMAIN after \subseteq ProgramIDs, \A id \in DOMAIN after : after[id] \in ProgramRow
  PROVE  Changes(before, after) \subseteq Telling
<1> SUFFICES ASSUME NEW id \in DOMAIN after
             PROVE  Created(id, after[id]) \in EventKind /\ Updated(id, after[id]) \in EventKind
  BY DEF Changes, InTurn, Telling
<1> QED
  BY DEF Created, Updated, EventKind, ProgramRow

LEMMA ReplacementsAreEvents ==
  ASSUME NEW batch \in Seq(Mention), NEW before
  PROVE  Replacements(before, batch) \subseteq Telling
<1>1. /\ DOMAIN batch \subseteq Nat
      /\ \A i \in DOMAIN batch : batch[i].id \in ProgramIDs /\ batch[i].program \in ProgramRow
  BY MentionTypes
<1>2. \A id \in ProgramIDs, new \in ProgramRow :
        Created(id, new) \in EventKind /\ Updated(id, new) \in EventKind
  BY DEF Created, Updated, EventKind, ProgramRow
<1>3. \A i \in Nat, e \in EventKind : [turn |-> i, event |-> e] \in Telling
  BY DEF Telling
<1> HIDE DEF Telling
<1> QED
  BY <1>1, <1>2, <1>3 DEF Replacements, InTurn

LEMMA RemovalsAreEvents ==
  ASSUME NEW n \in Nat, NEW ids \in SUBSET ProgramIDs
  PROVE  InTurn(n, {Removed(id) : id \in ids}) \subseteq Telling
BY DEF InTurn, Telling, Removed, EventKind, NoProgram

LEMMA MergeIsRow ==
  ASSUME NEW row \in ProgramRow, NEW new \in ProgramRow
  PROVE  MergeUpsertProgram(row, new) \in ProgramRow
BY DEF MergeUpsertProgram, ProgramRow

\* The greatest element of a bounded nonempty set.
LEMMA MaxOfPart ==
  ASSUME NEW l \in Nat, NEW T \in SUBSET (1..l), T # {}
  PROVE  Max(T) \in T /\ \A i \in T : i <= Max(T)
<1> DEFINE D == {l - i : i \in T}
<1>1. D \subseteq Nat /\ D # {}
  <2>1. \A i \in T : i \in Int /\ i <= l
    OBVIOUS
  <2>2. \A i \in T : l - i \in Nat
    BY <2>1
  <2>3. PICK i : i \in T
    OBVIOUS
  <2> QED
    BY <2>2, <2>3
<1>2. PICK d \in D : \A x \in D : d <= x
  BY <1>1, LeastNatural
<1>3. PICK m \in T : d = l - m
  OBVIOUS
<1>4. ASSUME NEW i \in T PROVE m >= i
  <2>1. l - m <= l - i
    BY <1>2, <1>3
  <2> QED
    BY <1>3, <2>1
<1>5. Max(T) \in T /\ \A i \in T : Max(T) >= i
  BY <1>3, <1>4 DEF Max
<1> QED
  BY <1>5

\* The last mention of a program is the last place that mentions it.
LEMMA LastPlace ==
  ASSUME NEW batch \in Seq(Mention), NEW id \in Mentioned(batch)
  PROVE  \E i \in Mentions(batch, id) :
           /\ i = Max(Mentions(batch, id)) /\ LastMention(batch, id) = batch[i].program
           /\ \A j \in Mentions(batch, id) : j <= i
<1>1. Mentions(batch, id) \in SUBSET (1 .. Len(batch)) /\ Mentions(batch, id) # {}
  BY MentionTypes DEF Mentions, Mentioned
<1>2. Len(batch) \in Nat
  OBVIOUS
<1>3. Max(Mentions(batch, id)) \in Mentions(batch, id)
      /\ \A j \in Mentions(batch, id) : j <= Max(Mentions(batch, id))
  BY <1>1, <1>2, MaxOfPart
<1> QED
  BY <1>3 DEF LastMention

\* What a batch makes of a row is a row; and it is what the manager merges, unless a
\* later mention of the program lacks the name that an earlier one gave.
LEMMA WrittenRow ==
  ASSUME NEW batch \in Seq(Mention), NEW id, NEW row \in ProgramRow
  PROVE  /\ Written(row, batch, id) \in ProgramRow
         /\ id \notin Mentioned(batch) => Written(row, batch, id) = row
         /\ id \in Mentioned(batch) /\ ~Shortens(batch) =>
              Written(row, batch, id) = MergeUpsertProgram(row, LastMention(batch, id))
<1> DEFINE places == Mentions(batch, id)
           named == {i \in places : batch[i].program.name # 0}
           last == LastMention(batch, id)
<1>1. id \in Mentioned(batch) <=> places # {}
  BY DEF Mentions, Mentioned
<1>2. places \in SUBSET (1 .. Len(batch)) /\ named \in SUBSET (1 .. Len(batch)) /\ Len(batch) \in Nat
  BY MentionTypes DEF Mentions
<1>3. \A i \in places : batch[i].program \in ProgramRow /\ batch[i].id = id /\ i \in DOMAIN batch
  BY MentionTypes DEF Mentions
<1>4. CASE places = {}
  BY <1>1, <1>4 DEF Written
<1>5. CASE places # {}
  <2>1. PICK m \in places : m = Max(places) /\ last = batch[m].program /\ \A j \in places : j <= m
    BY <1>1, <1>5, LastPlace
  <2>2. last \in ProgramRow
    BY <1>3, <2>1
  <2>3. named # {} => Max(named) \in named /\ \A j \in named : j <= Max(named)
    BY <1>2, MaxOfPart
  <2>4. PICK name : name = IF named = {} THEN row.name ELSE batch[Max(named)].program.name
    OBVIOUS
  <2>5. name \in Nat
    <3>1. row.name \in Nat /\ \A i \in named : batch[i].program.name \in Nat
      BY <1>3 DEF ProgramRow
    <3> HIDE DEF named
    <3> QED
      BY <2>3, <2>4, <3>1
  <2>6. Written(row, batch, id) = [last EXCEPT !.name = name]
    <3> HIDE DEF last
    <3> QED
      BY <1>5, <2>4 DEF Written, last
  <2>7. ~Shortens(batch) /\ last.name = 0 => named = {}
    BY <1>3 DEF Shortens
  <2>8. last.name # 0 => name = last.name
    <3>1. SUFFICES ASSUME last.name # 0 PROVE name = last.name
      OBVIOUS
    <3>2. m \in named
      BY <2>1, <3>1
    <3>3. Max(named) \in named /\ m <= Max(named)
      BY <2>3, <3>2
    <3>4. Max(named) \in places /\ Max(named) <= m
      BY <2>1, <3>3
    <3>5. \A i, j \in 1 .. Len(batch) : i <= j /\ j <= i => i = j
      OBVIOUS
    <3>6. Max(named) = m
      BY <1>2, <3>3, <3>4, <3>5
    <3> HIDE DEF named, last
    <3> QED
      BY <2>1, <2>4, <3>2, <3>6
  <2> HIDE DEF named, last, places
  <2>9. [last EXCEPT !.name = name] \in ProgramRow
    BY <2>2, <2>5 DEF ProgramRow
  <2>10. last.name # 0 => [last EXCEPT !.name = name] = last
    BY <2>2, <2>8 DEF ProgramRow
  <2>11. ~Shortens(batch) => [last EXCEPT !.name = name] = MergeUpsertProgram(row, last)
    BY <2>4, <2>7, <2>10 DEF MergeUpsertProgram
  <2> QED
    BY <1>1, <1>5, <2>6, <2>9, <2>11 DEF last
<1> QED
  BY <1>4, <1>5

LEMMA CommitTypes ==
  ASSUME StoreInv, NEW u \in Updaters, NEW rows \in [ProgramIDs -> ProgramRow],
         NEW tell \in SUBSET Telling, Commits(u, rows, tell)
  PROVE  StoreInv'
<1>1. [doing |-> "announce", tell |-> tell] \in Announcing
  BY DEF Announcing
<1> HIDE DEF Announcing, Working
<1> QED
  BY <1>1 DEF StoreInv, Commits

LEMMA StoreStep ==
  ASSUME StoreInv, [EventNext]_eventVars
  PROVE  StoreInv'
<1> USE DEF storeVars
<1>1. ASSUME NEW u \in Updaters, BeginUpsert(u) \/ BeginDelete(u) \/ BeginReplace(u) PROVE StoreInv'
  <2>1. PICK work \in Working : Begins(u, work)
    <3>1. CASE BeginUpsert(u)
      <4>2. PICK new \in Batches(1) :
              Begins(u, [doing |-> "upsert", new |-> new, before |-> programs])
        BY <3>1 DEF BeginUpsert
      <4>1. new \in Seq(Mention)
        BY BatchesAreSequences
      <4>3. [doing |-> "upsert", new |-> new, before |-> programs] \in Working
        BY <4>1 DEF StoreInv, Working
      <4> QED
        BY <4>2, <4>3
    <3>2. CASE BeginDelete(u)
      <4>1. << >> \in Seq(Mention)
        OBVIOUS
      <4>2. [doing |-> "delete", new |-> << >>, before |-> programs] \in Working
        BY <4>1 DEF StoreInv, Working
      <4> QED
        BY <3>2, <4>2 DEF BeginDelete
    <3>3. CASE BeginReplace(u)
      <4>2. PICK new \in Batches(0) :
              Begins(u, [doing |-> "replace", new |-> new, before |-> programs])
        BY <3>3 DEF BeginReplace
      <4>1. new \in Seq(Mention)
        BY BatchesAreSequences
      <4>3. [doing |-> "replace", new |-> new, before |-> programs] \in Working
        BY <4>1 DEF StoreInv, Working
      <4> QED
        BY <4>2, <4>3
    <3> QED
      BY <1>1, <3>1, <3>2, <3>3
  <2> HIDE DEF Working, Announcing
  <2> QED
    BY <2>1 DEF StoreInv, Begins
<1>2. ASSUME NEW u \in Updaters, UpsertAll(u) \/ DeleteEnded(u) \/ ReplaceService(u) PROVE StoreInv'
  <2>1. update[u].doing \in {"upsert", "delete", "replace"}
    BY <1>2 DEF UpsertAll, DeleteEnded, ReplaceService
  <2>2. update[u] \in Working
    BY <2>1 DEF StoreInv, IdleUpdate, Announcing
  <2>3. PICK new \in Seq(Mention), before \in [ProgramIDs -> ProgramRow] :
          new = update[u].new /\ before = update[u].before
    BY <2>2 DEF Working
  <2>4. /\ Mentioned(new) \subseteq ProgramIDs /\ Len(new) + 1 \in Nat
        /\ \A id \in Mentioned(new) : LastMention(new, id) \in ProgramRow
    <3>1. \A id \in Mentioned(new) : \E i \in DOMAIN new : LastMention(new, id) = new[i].program
      BY LastPlace DEF Mentions
    <3> QED
      BY <3>1, MentionTypes
  <2>5. programs \in [ProgramIDs -> ProgramRow] /\ NoProgram \in ProgramRow
    BY DEF StoreInv, NoProgram, ProgramRow
  <2>6. CASE UpsertAll(u)
    <3> DEFINE rows == [id \in ProgramIDs |-> Written(programs[id], new, id)]
               merged == [id \in Mentioned(new) |->
                            MergeUpsertProgram(before[id], LastMention(new, id))]
    <3>1. rows \in [ProgramIDs -> ProgramRow]
      BY <2>5, WrittenRow
    <3>2. DOMAIN merged \subseteq ProgramIDs /\ \A id \in DOMAIN merged : merged[id] \in ProgramRow
      BY <2>4, MergeIsRow
    <3>3. Changes(before, merged) \in SUBSET Telling
      BY <3>2, ChangesAreEvents
    <3>4. Commits(u, rows, Changes(before, merged))
      BY <2>3, <2>6 DEF UpsertAll
    <3> HIDE DEF rows, merged
    <3> QED
      BY <3>1, <3>3, <3>4, CommitTypes
  <2>7. CASE DeleteEnded(u)
    <3> DEFINE rows == [id \in ProgramIDs |-> IF id \in Ended(programs) THEN NoProgram
                                             ELSE programs[id]]
               gone == InTurn(0, {Removed(id) : id \in Ended(before)})
    <3>1. rows \in [ProgramIDs -> ProgramRow]
      BY <2>5
    <3>2. gone \in SUBSET Telling
      BY RemovalsAreEvents DEF Ended
    <3>3. Commits(u, rows, gone)
      BY <2>3, <2>7 DEF DeleteEnded
    <3> HIDE DEF rows, gone
    <3> QED
      BY <3>1, <3>2, <3>3, CommitTypes
  <2>8. CASE ReplaceService(u)
    <3> DEFINE rows == [id \in ProgramIDs |-> Written(NoProgram, new, id)]
               ids == {id \in ProgramIDs \ Mentioned(new) : before[id] # NoProgram}
               tell == Replacements(before, new)
                         \cup InTurn(Len(new) + 1, {Removed(id) : id \in ids})
    <3>1. rows \in [ProgramIDs -> ProgramRow]
      BY <2>5, WrittenRow
    <3>2. ids \in SUBSET ProgramIDs
      OBVIOUS
    <3> HIDE DEF ids
    <3>3. tell \in SUBSET Telling
      BY <2>4, <3>2, RemovalsAreEvents, ReplacementsAreEvents
    <3>4. Commits(u, rows, tell)
      BY <2>3, <2>8 DEF ReplaceService, ids
    <3> HIDE DEF rows, tell
    <3> QED
      BY <3>1, <3>3, <3>4, CommitTypes
  <2> QED
    BY <1>2, <2>6, <2>7, <2>8
<1>3. ASSUME NEW u \in Updaters, WriteFails(u) PROVE StoreInv'
  BY <1>3 DEF WriteFails, StoreInv
<1>4. ASSUME NEW u \in Updaters, EnqueueEvent(u) PROVE StoreInv'
  <2>1. update[u] \in Announcing
    BY <1>4 DEF EnqueueEvent, StoreInv, IdleUpdate, Working
  <2>2. PICK e : update' = [update EXCEPT ![u] =
            IF update[u].tell = {e} THEN IdleUpdate ELSE [update[u] EXCEPT !.tell = @ \ {e}]]
    BY <1>4 DEF EnqueueEvent
  <2>3. [update[u] EXCEPT !.tell = @ \ {e}] \in Announcing
    BY <2>1 DEF Announcing
  <2>4. programs' = programs
    BY <1>4 DEF EnqueueEvent
  <2> HIDE DEF Working, Announcing
  <2> QED
    BY <2>2, <2>3, <2>4 DEF StoreInv
<1>5. CASE TimerFires \/ FlushTakes \/ PublishEvent
  BY <1>5 DEF TimerFires, FlushTakes, PublishEvent, StoreInv
<1>6. ASSUME NEW c \in EventReaders, Subscribe(c) \/ ReadEvent(c) \/ Unsubscribe(c) PROVE StoreInv'
  BY <1>6 DEF Subscribe, ReadEvent, Unsubscribe, StoreInv
<1>7. CASE UNCHANGED eventVars
  BY <1>7 DEF eventVars, StoreInv
<1> QED
  BY <1>1, <1>2, <1>3, <1>4, <1>5, <1>6, <1>7 DEF EventNext

-----------------------------------------------------------------------------
(* ProgramEvents: every announcement is in one place.                      *)

Known(n, q) == \E i \in 1..Len(q) : q[i].number = n
Distinct(q) == \A i, j \in 1..Len(q) : q[i].number = q[j].number => i = j
Apart(p, q) == \A n \in Nat : ~(Known(n, p) /\ Known(n, q))
Listed(q) ==
  /\ q \in Seq(Announcement) /\ Distinct(q)
  /\ \A n \in Nat : Known(n, q) => n \in 1..announced

OnceInv ==
  /\ announced \in Nat
  /\ Listed(published) /\ Listed(eventQueue) /\ Apart(published, eventQueue)
  /\ \A b \in batches : /\ b # << >> /\ Listed(b)
                         /\ Apart(b, published) /\ Apart(b, eventQueue)
  /\ \A b, c \in batches : b # c => Apart(b, c)
  /\ \A n \in 1..announced :
       Known(n, published) \/ Known(n, eventQueue) \/ \E b \in batches : Known(n, b)

LEMMA AppendKnown ==
  ASSUME NEW q \in Seq(Announcement), NEW e \in Announcement
  PROVE  /\ Append(q, e) \in Seq(Announcement)
         /\ \A n \in Nat : Known(n, Append(q, e)) <=> Known(n, q) \/ n = e.number
         /\ Distinct(q) /\ ~Known(e.number, q) => Distinct(Append(q, e))
<1> HIDE DEF Announcement
<1>1. /\ Append(q, e) \in Seq(Announcement) /\ Len(Append(q, e)) = Len(q) + 1 /\ Len(q) \in Nat
      /\ \A i \in 1..Len(q) : Append(q, e)[i] = q[i]
      /\ Append(q, e)[Len(q) + 1] = e
  OBVIOUS
<1> DEFINE l == Len(q)
           r == Append(q, e)
<1>2. l \in Nat /\ \A i \in 1..(l + 1) : i \in 1..l \/ i = l + 1
  BY <1>1
<1>3. l + 1 \in 1..(l + 1) /\ \A i \in 1..l : i \in 1..(l + 1)
  BY <1>1
<1> HIDE DEF l, r
<1>4. ASSUME NEW n \in Nat PROVE Known(n, r) <=> Known(n, q) \/ n = e.number
  BY <1>1, <1>2, <1>3 DEF Known, l, r
<1>5. ASSUME Distinct(q), ~Known(e.number, q) PROVE Distinct(r)
  <2> SUFFICES ASSUME NEW i \in 1..(l + 1), NEW j \in 1..(l + 1), r[i].number = r[j].number
               PROVE  i = j
    BY <1>1 DEF Distinct, l, r
  <2>1. \A k \in 1..l : r[k] = q[k] /\ q[k].number # e.number
    BY <1>1, <1>5 DEF Known, l, r
  <2>2. r[l + 1] = e
    BY <1>1 DEF l, r
  <2> QED
    BY <1>2, <1>5, <2>1, <2>2 DEF Distinct, l
<1> QED
  BY <1>1, <1>4, <1>5 DEF r

LEMMA TailKnown ==
  ASSUME NEW q \in Seq(Announcement), q # << >>, Distinct(q)
  PROVE  /\ Head(q) \in Announcement /\ Tail(q) \in Seq(Announcement) /\ Distinct(Tail(q))
         /\ \A n \in Nat : Known(n, q) <=> n = Head(q).number \/ Known(n, Tail(q))
         /\ ~Known(Head(q).number, Tail(q))
<1> HIDE DEF Announcement
<1>1. /\ Head(q) \in Announcement /\ Tail(q) \in Seq(Announcement) /\ Len(Tail(q)) = Len(q) - 1
      /\ \A i \in 1 .. Len(Tail(q)) : Tail(q)[i] = q[i + 1]
  BY HeadTailProperties
<1>2. Head(q) = q[1] /\ Len(q) \in Nat \ {0}
  OBVIOUS
<1>3. PICK l \in Nat, r \in Seq(Announcement) : r = Tail(q) /\ l = Len(r) /\ Len(q) = l + 1
  <2>1. Len(Tail(q)) \in Nat /\ Len(q) = Len(Tail(q)) + 1
    BY <1>1, <1>2
  <2> QED
    BY <1>1, <2>1
<1>4. /\ \A i \in 1..l : i + 1 \in 1..(l + 1) /\ i + 1 # 1
      /\ \A i \in 1..(l + 1) : i = 1 \/ \E j \in 1..l : i = j + 1
      /\ 1 \in 1..(l + 1)
      /\ \A i, j \in 1..l : i + 1 = j + 1 => i = j
  <2>1. \A i \in 1..(l + 1) : i = 1 \/ (i - 1 \in 1..l /\ i = (i - 1) + 1)
    OBVIOUS
  <2>2. \A i \in 1..(l + 1) : i = 1 \/ \E j \in 1..l : i = j + 1
    BY <2>1
  <2> QED
    BY <2>2
<1>5. \A i \in 1..l : r[i] = q[i + 1]
  BY <1>1, <1>3
<1>6. Distinct(r)
  BY <1>3, <1>4, <1>5 DEF Distinct
<1>7. ASSUME NEW n \in Nat PROVE Known(n, q) <=> n = Head(q).number \/ Known(n, r)
  <2>1. ASSUME NEW i \in 1..(l + 1), q[i].number = n PROVE n = q[1].number \/ Known(n, r)
    <3>1. CASE i = 1
      BY <2>1, <3>1
    <3>2. CASE i # 1
      <4>1. PICK j \in 1..l : i = j + 1
        BY <1>4, <3>2
      <4> QED
        BY <1>3, <1>5, <2>1, <4>1 DEF Known
    <3> QED
      BY <3>1, <3>2
  <2>2. ASSUME NEW j \in 1..l, r[j].number = n PROVE Known(n, q)
    BY <1>3, <1>4, <1>5, <2>2 DEF Known
  <2>3. q[1].number = n => Known(n, q)
    BY <1>3, <1>4 DEF Known
  <2> QED
    BY <1>2, <1>3, <2>1, <2>2, <2>3 DEF Known
<1>8. ~Known(Head(q).number, r)
  BY <1>2, <1>3, <1>4, <1>5 DEF Known, Distinct
<1> QED
  BY <1>1, <1>3, <1>6, <1>7, <1>8

\* enqueueEvent: the new announcement is the next one, and in the queue only.
LEMMA EnqueueKeeps ==
  ASSUME OnceInv, NEW e \in EventKind,
         eventQueue' = Append(eventQueue, [number |-> announced + 1, event |-> e]),
         announced' = announced + 1, UNCHANGED <<batches, published>>
  PROVE  OnceInv'
<1>0. announced \in Nat
  BY DEF OnceInv
<1>1. PICK new \in Announcement : /\ new = [number |-> announced + 1, event |-> e]
                                 /\ new.number = announced + 1
  BY <1>0 DEF Announcement
<1> HIDE DEF Announcement
<1>2. eventQueue \in Seq(Announcement) /\ Distinct(eventQueue) /\ ~Known(new.number, eventQueue)
  BY <1>0, <1>1 DEF OnceInv, Listed
<1>3. /\ eventQueue' \in Seq(Announcement) /\ Distinct(eventQueue')
      /\ \A n \in Nat : Known(n, eventQueue') <=> Known(n, eventQueue) \/ n = announced + 1
  BY <1>1, <1>2, AppendKnown
<1>4. /\ announced' = announced + 1 /\ announced' \in Nat
      /\ \A n \in 1..announced : n \in 1..announced' /\ n # announced + 1
      /\ announced + 1 \in 1..announced' /\ announced + 1 \in Nat
      /\ \A n \in 1..announced' : n \in Nat /\ (n \in 1..announced \/ n = announced + 1)
  BY <1>0
<1>5. \A q : Listed(q) => Listed(q)'
  BY <1>4 DEF Listed, Known, Distinct
<1>6. Listed(eventQueue)'
  <2>1. \A n \in Nat : Known(n, eventQueue) => n \in 1..announced
    BY DEF OnceInv, Listed
  <2>2. \A n \in Nat : Known(n, eventQueue') => n \in 1..announced'
    BY <1>3, <1>4, <2>1
  <2> QED
    BY <1>3, <2>2 DEF Listed, Known, Distinct
<1>7. ASSUME NEW q, Listed(q), Apart(q, eventQueue) PROVE Apart(q, eventQueue')
  <2>1. ~Known(announced + 1, q)
    BY <1>4, <1>7 DEF Listed
  <2> QED
    BY <1>3, <1>7, <2>1 DEF Apart
<1>8. Listed(published)' /\ Apart(published, eventQueue)'
  BY <1>5, <1>7 DEF OnceInv, Apart, Known, Listed, Distinct
<1>9. ASSUME NEW b \in batches'
      PROVE  b # << >> /\ Listed(b)' /\ Apart(b, published)' /\ Apart(b, eventQueue)'
  <2>1. b # << >> /\ Listed(b) /\ Apart(b, published) /\ Apart(b, eventQueue)
    BY <1>9 DEF OnceInv
  <2>2. Listed(b)' /\ Apart(b, eventQueue')
    BY <1>5, <1>7, <2>1
  <2>3. Apart(b, published')
    BY <2>1
  <2> QED
    BY <2>1, <2>2, <2>3 DEF Apart, Known
<1>10. \A b, c \in batches' : b # c => Apart(b, c)
  BY DEF OnceInv
<1>11. ASSUME NEW n \in 1..announced'
       PROVE  Known(n, published') \/ Known(n, eventQueue') \/ \E b \in batches' : Known(n, b)
  <2> HIDE DEF Known
  <2> QED
    BY <1>3, <1>4 DEF OnceInv
<1> QED
  BY <1>4, <1>6, <1>8, <1>9, <1>10, <1>11 DEF OnceInv

\* flushEvents: the queue becomes a batch, and is cleared in the same critical section.
LEMMA FlushKeeps ==
  ASSUME OnceInv, eventQueue' = << >>, batches' = batches \cup ({eventQueue} \ {<< >>}),
         UNCHANGED <<announced, published>>
  PROVE  OnceInv'
<1>1. /\ \A n \in Nat : ~Known(n, << >>)
      /\ << >> \in Seq(Announcement) /\ Distinct(<< >>)
  BY DEF Known, Distinct
<1>2. \A q : Listed(q) => Listed(q)'
  BY DEF Listed, Known, Distinct
<1> HIDE DEF Known, Distinct
<1>3. Listed(<< >>) /\ Listed(eventQueue)'
  BY <1>1, <1>2 DEF Listed
<1>4. \A q : Apart(q, << >>)
  BY <1>1 DEF Apart
<1>5. Listed(published)' /\ Apart(published, eventQueue)'
  <2>1. Listed(published)'
    BY <1>2 DEF OnceInv, Listed
  <2> QED
    BY <2>1, <1>4 DEF Apart, Known
<1>6. ASSUME NEW b \in batches'
      PROVE  b # << >> /\ Listed(b)' /\ Apart(b, published)' /\ Apart(b, eventQueue)'
  <2>1. b # << >> /\ Listed(b) /\ Apart(b, published)
    BY <1>6 DEF OnceInv, Apart
  <2>2. Apart(b, published') /\ Apart(b, eventQueue')
    BY <1>4, <2>1
  <2> QED
    BY <1>2, <2>1, <2>2 DEF Apart, Known
<1>7. \A b, c \in batches' : b # c => Apart(b, c)
  BY DEF OnceInv, Apart
<1>8. ASSUME NEW n \in 1..announced'
      PROVE  Known(n, published') \/ Known(n, eventQueue') \/ \E b \in batches' : Known(n, b)
  <2>1. n \in Nat /\ n \in 1..announced
    BY <1>8 DEF OnceInv
  <2> QED
    BY <1>1, <2>1 DEF OnceInv
<1> QED
  BY <1>3, <1>5, <1>6, <1>7, <1>8 DEF OnceInv

\* PublishEvent: the head of a batch goes to the hub.
LEMMA PublishKeeps ==
  ASSUME OnceInv, NEW batch \in batches, published' = Append(published, Head(batch)),
         batches' = (batches \ {batch}) \cup ({Tail(batch)} \ {<< >>}),
         UNCHANGED <<announced, eventQueue>>
  PROVE  OnceInv'
<1>1. PICK e : e = Head(batch)
  OBVIOUS
<1>2. PICK rest : rest = Tail(batch)
  OBVIOUS
<1>3. /\ batch # << >> /\ batch \in Seq(Announcement) /\ Distinct(batch)
      /\ Listed(batch) /\ Apart(batch, published) /\ Apart(batch, eventQueue)
      /\ Listed(published) /\ Listed(eventQueue) /\ Apart(published, eventQueue)
      /\ published \in Seq(Announcement) /\ Distinct(published)
  BY DEF OnceInv, Listed
<1>4. /\ e \in Announcement /\ rest \in Seq(Announcement) /\ Distinct(rest)
      /\ \A n \in Nat : Known(n, batch) <=> n = e.number \/ Known(n, rest)
      /\ ~Known(e.number, rest)
  BY <1>1, <1>2, <1>3, TailKnown
<1>5. e.number \in Nat
  BY <1>4 DEF Announcement
<1> HIDE DEF Announcement, Known, Distinct
<1>6. Known(e.number, batch) /\ e.number \in 1..announced
  BY <1>3, <1>4, <1>5 DEF Listed
<1>7. ~Known(e.number, published)
  BY <1>3, <1>5, <1>6 DEF Apart
<1>8. /\ published' \in Seq(Announcement) /\ Distinct(published')
      /\ \A n \in Nat : Known(n, published') <=> Known(n, published) \/ n = e.number
  BY <1>1, <1>3, <1>4, <1>7, AppendKnown
<1>9. \A q : Listed(q) => Listed(q)'
  BY DEF Listed, Known, Distinct
<1>10. Listed(published)'
  <2>1. \A n \in Nat : Known(n, published') => n \in 1..announced'
    BY <1>3, <1>6, <1>8 DEF Listed
  <2> QED
    BY <1>8, <2>1 DEF Listed, Known, Distinct
<1>11. Listed(eventQueue)'
  BY <1>3, <1>9 DEF Listed
<1>12. Apart(published', eventQueue)
  BY <1>3, <1>4, <1>8 DEF Apart
<1>13. Listed(rest) /\ Apart(rest, published') /\ Apart(rest, eventQueue)
  <2>1. Listed(rest)
    BY <1>3, <1>4 DEF Listed
  <2>2. Apart(rest, published')
    BY <1>3, <1>4, <1>8 DEF Apart
  <2>3. Apart(rest, eventQueue)
    BY <1>3, <1>4 DEF Apart
  <2> QED
    BY <2>1, <2>2, <2>3
<1>14. ASSUME NEW b \in batches, b # batch
       PROVE  /\ b # << >> /\ Listed(b) /\ Apart(b, published') /\ Apart(b, eventQueue)
              /\ Apart(b, rest) /\ Apart(rest, b)
  <2>1. /\ b # << >> /\ Listed(b) /\ Apart(b, published) /\ Apart(b, eventQueue)
        /\ Apart(b, batch)
    BY <1>14 DEF OnceInv
  <2>2. Apart(b, published')
    BY <1>4, <1>8, <2>1 DEF Apart
  <2>3. Apart(b, rest) /\ Apart(rest, b)
    BY <1>4, <2>1 DEF Apart
  <2> QED
    BY <2>1, <2>2, <2>3
<1>15. \A b \in batches' : (b \in batches /\ b # batch) \/ (b = rest /\ b # << >>)
  BY <1>2
<1>16. ASSUME NEW b \in batches'
       PROVE  b # << >> /\ Listed(b)' /\ Apart(b, published)' /\ Apart(b, eventQueue)'
  <2>1. b # << >> /\ Listed(b) /\ Apart(b, published') /\ Apart(b, eventQueue)
    BY <1>13, <1>14, <1>15
  <2>2. eventQueue' = eventQueue
    OBVIOUS
  <2> QED
    BY <1>9, <2>1, <2>2 DEF Apart, Known
<1>17. ASSUME NEW b \in batches', NEW c \in batches', b # c PROVE Apart(b, c)
  <2>1. (b \in batches /\ c \in batches) \/ (b = rest /\ c \in batches /\ c # batch)
        \/ (c = rest /\ b \in batches /\ b # batch)
    BY <1>15, <1>17
  <2> QED
    BY <1>14, <1>17, <2>1 DEF OnceInv
<1>18. ASSUME NEW n \in 1..announced'
       PROVE  Known(n, published') \/ Known(n, eventQueue') \/ \E b \in batches' : Known(n, b)
  <2>1. n \in Nat /\ n \in 1..announced
    BY <1>18 DEF OnceInv
  <2>2. CASE Known(n, published) \/ Known(n, eventQueue)
    BY <1>8, <2>1, <2>2
  <2>3. CASE \E b \in batches : Known(n, b)
    <3>1. PICK b \in batches : Known(n, b)
      BY <2>3
    <3>2. CASE b # batch
      BY <3>1, <3>2
    <3>3. CASE b = batch
      <4>1. CASE n = e.number
        BY <1>8, <2>1, <4>1
      <4>2. CASE Known(n, rest)
        <5>1. rest # << >>
          BY <4>2 DEF Known
        <5> QED
          BY <1>2, <4>2, <5>1
      <4> QED
        BY <1>4, <2>1, <3>1, <3>3, <4>1, <4>2
    <3> QED
      BY <3>2, <3>3
  <2> QED
    BY <2>1, <2>2, <2>3 DEF OnceInv
<1> QED
  <2>1. announced' \in Nat /\ Apart(published, eventQueue)'
    BY <1>12 DEF OnceInv, Apart, Known
  <2> QED
    BY <1>10, <1>11, <1>16, <1>17, <1>18, <2>1 DEF OnceInv

LEMMA OnceStep ==
  ASSUME StoreInv, OnceInv, [EventNext]_eventVars
  PROVE  OnceInv'
<1> USE DEF timerVars, hubLogVars
<1>0. ASSUME UNCHANGED <<announced, eventQueue, batches, published>> PROVE OnceInv'
  BY <1>0 DEF OnceInv, Listed, Apart, Known, Distinct
<1>1. ASSUME NEW u \in Updaters,
             BeginUpsert(u) \/ BeginDelete(u) \/ BeginReplace(u) \/ UpsertAll(u)
             \/ DeleteEnded(u) \/ ReplaceService(u) \/ WriteFails(u)
      PROVE  OnceInv'
  <2> UNCHANGED <<announced, eventQueue, batches, published>>
    BY <1>1 DEF BeginUpsert, BeginDelete, BeginReplace, UpsertAll, DeleteEnded,
                ReplaceService, WriteFails, Begins, Commits
  <2> QED
    BY <1>0
<1>2. ASSUME NEW u \in Updaters, EnqueueEvent(u) PROVE OnceInv'
  <2>1. update[u] \in Announcing
    BY <1>2 DEF EnqueueEvent, StoreInv, IdleUpdate, Working
  <2>2. update[u].tell \in SUBSET Telling
    BY <2>1 DEF Announcing
  <2>3. PICK e \in update[u].tell :
          eventQueue' = Append(eventQueue, [number |-> announced + 1, event |-> e.event])
    BY <1>2 DEF EnqueueEvent
  <2>4. e.event \in EventKind
    BY <2>2, <2>3 DEF Telling
  <2>5. announced' = announced + 1 /\ UNCHANGED <<batches, published>>
    BY <1>2 DEF EnqueueEvent
  <2> QED
    BY <2>3, <2>4, <2>5, EnqueueKeeps
<1>3. CASE TimerFires
  BY <1>0, <1>3 DEF TimerFires
<1>4. CASE FlushTakes
  BY <1>4, FlushKeeps DEF FlushTakes
<1>5. CASE PublishEvent
  <2>1. PICK batch \in batches :
          /\ batches' = (batches \ {batch}) \cup ({Tail(batch)} \ {<< >>})
          /\ published' = Append(published, Head(batch))
    BY <1>5 DEF PublishEvent
  <2>2. UNCHANGED <<announced, eventQueue>>
    BY <1>5 DEF PublishEvent
  <2> QED
    BY <2>1, <2>2, PublishKeeps
<1>6. ASSUME NEW c \in EventReaders, Subscribe(c) \/ ReadEvent(c) \/ Unsubscribe(c) PROVE OnceInv'
  BY <1>0, <1>6 DEF Subscribe, ReadEvent, Unsubscribe
<1>7. CASE UNCHANGED eventVars
  BY <1>0, <1>7 DEF eventVars
<1> QED
  BY <1>1, <1>2, <1>3, <1>4, <1>5, <1>6, <1>7 DEF EventNext

-----------------------------------------------------------------------------
(* ProgramEvents: the timer and the clients.                               *)

TimerInv ==
  /\ eventTimer \in {"none", "armed", "fired"} /\ orphanTimers \in Nat /\ flushes \in Nat
  /\ eventQueue # << >> => eventTimer = "armed" \/ orphanTimers > 0 \/ flushes > 0

LEMMA TimerStep ==
  ASSUME TimerInv, [EventNext]_eventVars
  PROVE  TimerInv'
<1> USE DEF timerVars
<1>0. ASSUME UNCHANGED timerVars PROVE TimerInv'
  BY <1>0 DEF TimerInv
<1>1. ASSUME NEW u \in Updaters,
             BeginUpsert(u) \/ BeginDelete(u) \/ BeginReplace(u) \/ UpsertAll(u)
             \/ DeleteEnded(u) \/ ReplaceService(u) \/ WriteFails(u)
      PROVE  TimerInv'
  <2> UNCHANGED timerVars
    BY <1>1 DEF BeginUpsert, BeginDelete, BeginReplace, UpsertAll, DeleteEnded,
                ReplaceService, WriteFails, Begins, Commits
  <2> QED
    BY <1>0
<1>2. ASSUME NEW u \in Updaters, EnqueueEvent(u) PROVE TimerInv'
  BY <1>2 DEF EnqueueEvent, TimerInv
<1>3. CASE TimerFires
  BY <1>3 DEF TimerFires, TimerInv
<1>4. CASE FlushTakes
  BY <1>4 DEF FlushTakes, TimerInv
<1>5. CASE PublishEvent
  BY <1>0, <1>5 DEF PublishEvent
<1>6. ASSUME NEW c \in EventReaders, Subscribe(c) \/ ReadEvent(c) \/ Unsubscribe(c) PROVE TimerInv'
  BY <1>0, <1>6 DEF Subscribe, ReadEvent, Unsubscribe
<1>7. CASE UNCHANGED eventVars
  BY <1>0, <1>7 DEF eventVars
<1> QED
  BY <1>1, <1>2, <1>3, <1>4, <1>5, <1>6, <1>7 DEF EventNext

ReaderRecord == [on : BOOLEAN, channel : Seq(Announcement), got : Seq(Announcement),
                 from : Nat, lost : BOOLEAN]

\* What a client that lost nothing was told is published[from ..]; one that is gone has
\* nothing left.
Told(r) ==
  /\ Len(r.channel) <= ReaderBuffer
  /\ ~r.on => r.channel = << >> /\ r.got = << >>
  /\ r.on => r.from \in 1..Len(published) + 1
  /\ r.on /\ ~r.lost => r.got \o r.channel = SubSeq(published, r.from, Len(published))

ReaderInv ==
  /\ reader \in [EventReaders -> ReaderRecord]
  /\ \A c \in EventReaders : Told(reader[c])
  /\ eventLog \in Seq(Announcement) /\ Len(eventLog) <= LogCapacity
  /\ LogIsRecent

\* One more published event is one more in what a client is to be told.
LEMMA SubSeqGrows ==
  ASSUME NEW S, NEW q \in Seq(S), NEW e \in S, NEW f \in 1..Len(q) + 1
  PROVE  SubSeq(Append(q, e), f, Len(q) + 1) = Append(SubSeq(q, f, Len(q)), e)
<1>1. PICK l \in Nat : l = Len(q)
  OBVIOUS
<1>2. /\ Append(q, e) \in Seq(S) /\ Len(Append(q, e)) = l + 1
      /\ \A i \in 1..l : Append(q, e)[i] = q[i]
      /\ Append(q, e)[l + 1] = e
  BY <1>1
<1>3. PICK r : r = Append(q, e)
  OBVIOUS
<1>4. f \in Int /\ l \in Int /\ l + 1 \in Int /\ f >= 1 /\ f <= l + 1
  BY <1>1
<1>5. \A i \in f..l : q[i] \in S
  BY <1>1
<1>6. \A i \in f..(l + 1) : r[i] \in S
  <2>1. \A i \in f..(l + 1) : i \in 1..(l + 1)
    BY <1>4
  <2> QED
    BY <1>2, <1>3, <2>1
<1>7. /\ SubSeq(q, f, l) \in Seq(S)
      /\ Len(SubSeq(q, f, l)) = IF f <= l THEN l - f + 1 ELSE 0
      /\ \A i \in 1 .. l - f + 1 : SubSeq(q, f, l)[i] = q[f + i - 1]
  BY <1>4, <1>5, SubSeqProperties
<1>8. /\ SubSeq(r, f, l + 1) \in Seq(S)
      /\ Len(SubSeq(r, f, l + 1)) = IF f <= l + 1 THEN (l + 1) - f + 1 ELSE 0
      /\ \A i \in 1 .. (l + 1) - f + 1 : SubSeq(r, f, l + 1)[i] = r[f + i - 1]
  BY <1>4, <1>6, SubSeqProperties
<1>9. PICK k \in Nat : k = l - f + 1
  BY <1>4
<1>10. PICK a \in Seq(S), b \in Seq(S) :
         /\ a = SubSeq(q, f, l) /\ Len(a) = k /\ \A i \in 1..k : a[i] = q[f + i - 1]
         /\ b = SubSeq(r, f, l + 1) /\ Len(b) = k + 1
         /\ \A i \in 1..(k + 1) : b[i] = r[f + i - 1]
  <2>1. (l + 1) - f + 1 = k + 1 /\ (~(f <= l) => k = 0) /\ f <= l + 1
    BY <1>4, <1>9
  <2>2. Len(SubSeq(q, f, l)) = k /\ \A i \in 1..k : SubSeq(q, f, l)[i] = q[f + i - 1]
    BY <1>7, <1>9, <2>1
  <2>3. /\ Len(SubSeq(r, f, l + 1)) = k + 1
        /\ \A i \in 1..(k + 1) : SubSeq(r, f, l + 1)[i] = r[f + i - 1]
    BY <1>8, <2>1
  <2> QED
    BY <1>7, <1>8, <2>2, <2>3
<1>11. /\ \A i \in 1..k : f + i - 1 \in 1..l
       /\ f + (k + 1) - 1 = l + 1
       /\ \A i \in 1..k : i \in 1..(k + 1)
       /\ k + 1 \in 1..(k + 1)
  <2>1. \A i \in 1..k : f + i - 1 \in 1..l
    BY <1>4, <1>9
  <2>2. f + (k + 1) - 1 = l + 1
    BY <1>4, <1>9
  <2> QED
    BY <2>1, <2>2
<1>12. \A i \in 1..k : b[i] = a[i]
  BY <1>2, <1>3, <1>10, <1>11
<1>13. b[k + 1] = e
  BY <1>2, <1>3, <1>10, <1>11
<1>14. /\ Append(a, e) \in Seq(S) /\ Len(Append(a, e)) = k + 1
       /\ \A i \in 1..k : Append(a, e)[i] = a[i]
       /\ Append(a, e)[k + 1] = e
  <2>1. a \in Seq(S) /\ Len(a) = k
    BY <1>10
  <2> QED
    BY <2>1
<1>15. \A i \in 1..(k + 1) : i \in 1..k \/ i = k + 1
  OBVIOUS
<1>16. \A i \in 1..(k + 1) : b[i] = Append(a, e)[i]
  BY <1>12, <1>13, <1>14, <1>15
<1>17. b = Append(a, e)
  BY <1>10, <1>14, <1>16, SeqEqual
<1> QED
  BY <1>1, <1>3, <1>10, <1>17

LEMMA ConcatGrows ==
  ASSUME NEW S, NEW p \in Seq(S), NEW q \in Seq(S), NEW e \in S
  PROVE  p \o Append(q, e) = Append(p \o q, e)
OBVIOUS

LEMMA ConcatMoves ==
  ASSUME NEW S, NEW p \in Seq(S), NEW q \in Seq(S), q # << >>
  PROVE  Append(p, Head(q)) \o Tail(q) = p \o q
OBVIOUS

\* PublishEvent hands the event to a client with room, and marks the others.
LEMMA DeliverKeeps ==
  ASSUME published \in Seq(Announcement), NEW e \in Announcement,
         published' = Append(published, e), NEW r \in ReaderRecord, Told(r)
  PROVE  Deliver(r, e) \in ReaderRecord /\ Told(Deliver(r, e))'
<1> HIDE DEF Announcement
<1>0. /\ r.on \in BOOLEAN /\ r.lost \in BOOLEAN /\ r.from \in Nat
      /\ r.channel \in Seq(Announcement) /\ r.got \in Seq(Announcement)
  BY DEF ReaderRecord
<1>1. Len(published) \in Nat /\ Len(published') = Len(published) + 1 /\ Len(r.channel) \in Nat
  BY <1>0
<1>2. CASE ~r.on
  <2>1. Deliver(r, e) = r
    BY <1>2 DEF Deliver
  <2>2. Told(r)'
    BY <1>2 DEF Told
  <2> QED
    BY <2>1, <2>2 DEF Told
<1>3. CASE r.on /\ Len(r.channel) < ReaderBuffer
  <2>1. PICK s : s = [r EXCEPT !.channel = Append(r.channel, e)]
    OBVIOUS
  <2>2. Deliver(r, e) = s
    BY <1>3, <2>1 DEF Deliver
  <2>3. Append(r.channel, e) \in Seq(Announcement) /\ Len(Append(r.channel, e)) = Len(r.channel) + 1
    BY <1>0
  <2>4. /\ s \in ReaderRecord /\ s.on = r.on /\ s.lost = r.lost /\ s.from = r.from
        /\ s.got = r.got /\ s.channel = Append(r.channel, e)
    BY <2>1, <2>3 DEF ReaderRecord
  <2>5. Len(s.channel) <= ReaderBuffer
    BY <1>1, <1>3, <2>3, <2>4, ProgramEventsAssumption
  <2>6. r.from \in 1 .. Len(published) + 1
    BY <1>3 DEF Told
  <2>7. s.from \in 1 .. Len(published') + 1
    BY <1>1, <2>4, <2>6
  <2>8. ASSUME ~s.lost PROVE s.got \o s.channel = SubSeq(published', s.from, Len(published'))
    <3>1. r.got \o r.channel = SubSeq(published, r.from, Len(published))
      BY <1>3, <2>4, <2>8 DEF Told
    <3>2. SubSeq(published', r.from, Len(published) + 1)
            = Append(SubSeq(published, r.from, Len(published)), e)
      BY <2>6, SubSeqGrows
    <3>3. r.got \o Append(r.channel, e) = Append(r.got \o r.channel, e)
      <4>1. PICK g \in Seq(Announcement), c \in Seq(Announcement) : g = r.got /\ c = r.channel
        BY <1>0
      <4>2. g \o Append(c, e) = Append(g \o c, e)
        BY ConcatGrows
      <4> QED
        BY <4>1, <4>2
    <3> QED
      BY <1>1, <2>4, <3>1, <3>2, <3>3
  <2>9. Told(s)'
    BY <1>3, <2>4, <2>5, <2>7, <2>8 DEF Told
  <2> QED
    BY <2>2, <2>4, <2>9 DEF Told
<1>4. CASE r.on /\ ~(Len(r.channel) < ReaderBuffer)
  <2>1. PICK s : s = [r EXCEPT !.lost = TRUE]
    OBVIOUS
  <2>2. Deliver(r, e) = s
    BY <1>4, <2>1 DEF Deliver
  <2>3. /\ s \in ReaderRecord /\ s.on = r.on /\ s.lost = TRUE /\ s.from = r.from
        /\ s.got = r.got /\ s.channel = r.channel
    BY <2>1 DEF ReaderRecord
  <2>4. s.from \in 1 .. Len(published') + 1
    <3>1. r.from \in 1 .. Len(published) + 1
      BY <1>4 DEF Told
    <3> QED
      BY <1>1, <2>3, <3>1
  <2>5. Told(s)'
    BY <1>4, <2>3, <2>4 DEF Told
  <2> QED
    BY <2>2, <2>3, <2>5 DEF Told
<1> QED
  BY <1>0, <1>2, <1>3, <1>4

\* A log that is the end of what was published.
EndOf(log, out, limit) ==
  /\ Len(log) = IF Len(out) < limit THEN Len(out) ELSE limit
  /\ \A i \in 1..Len(log) : log[i] = out[Len(out) - Len(log) + i]
Trimmed(log, limit) == IF Len(log) > limit THEN Tail(log) ELSE log

\* The log gets what is published and loses its oldest event when it is full.
LEMMA LogKeepsRecent ==
  ASSUME NEW S, NEW log \in Seq(S), NEW out \in Seq(S), NEW e \in S, NEW limit \in Nat \ {0},
         EndOf(log, out, limit)
  PROVE  EndOf(Trimmed(Append(log, e), limit), Append(out, e), limit)
<1> DEFINE next == Trimmed(Append(log, e), limit)
           told == Append(out, e)
<1>0. /\ next = IF Len(Append(log, e)) > limit THEN Tail(Append(log, e)) ELSE Append(log, e)
      /\ told = Append(out, e)
      /\ Len(log) = IF Len(out) < limit THEN Len(out) ELSE limit
      /\ \A i \in 1..Len(log) : log[i] = out[Len(out) - Len(log) + i]
  BY DEF EndOf, Trimmed
<1> HIDE DEF next, told
<1>8. SUFFICES EndOf(next, told, limit)
  BY DEF next, told
<1>1. PICK l \in Nat, n \in Nat : l = Len(log) /\ n = Len(out)
  OBVIOUS
<1>2. PICK long \in Seq(S) :
        /\ long = Append(log, e) /\ Len(long) = l + 1 /\ long[l + 1] = e
        /\ \A i \in 1..l : long[i] = log[i]
  <2>1. /\ Append(log, e) \in Seq(S) /\ Len(Append(log, e)) = l + 1
        /\ \A i \in 1..Len(log) : Append(log, e)[i] = log[i]
        /\ Append(log, e)[Len(log) + 1] = e
    BY <1>1, AppendProperties
  <2> QED
    BY <1>1, <2>1
<1>3. /\ Len(told) = n + 1 /\ told[n + 1] = e
      /\ \A i \in 1..n : told[i] = out[i]
  BY <1>0, <1>1, AppendProperties
<1>4. l = IF n < limit THEN n ELSE limit
  BY <1>0, <1>1
<1>5. \A i \in 1..(l + 1) : long[i] = told[(n - l) + i]
  <2> TAKE i \in 1..(l + 1)
  <2>1. CASE i = l + 1
    <3>1. (n - l) + i = n + 1
      BY <2>1
    <3> QED
      BY <1>2, <1>3, <2>1, <3>1
  <2>2. CASE i \in 1..l
    <3>1. (n - l) + i \in 1..n
      BY <1>4, <2>2
    <3>2. log[i] = out[(n - l) + i]
      BY <1>0, <1>1, <2>2
    <3> QED
      BY <1>2, <1>3, <2>2, <3>1, <3>2
  <2>3. i = l + 1 \/ i \in 1..l
    OBVIOUS
  <2> QED
    BY <2>1, <2>2, <2>3
<1>6. CASE l + 1 > limit
  <2>1. next = Tail(long) /\ l = limit /\ ~(n + 1 < limit)
    BY <1>0, <1>2, <1>4, <1>6
  <2>2. Len(Tail(long)) = l /\ \A i \in 1..l : Tail(long)[i] = long[i + 1]
    BY <1>2
  <2>3. \A i \in 1..l : next[i] = told[((n + 1) - l) + i]
    <3> TAKE i \in 1..l
    <3>1. i + 1 \in 1..(l + 1)
      BY l \in Nat
    <3>2. (n - l) + (i + 1) = ((n + 1) - l) + i
      BY l \in Nat, n \in Nat
    <3>3. Tail(long)[i] = long[i + 1] /\ long[i + 1] = told[(n - l) + (i + 1)]
      BY <1>5, <2>2, <3>1
    <3> QED
      BY <2>1, <3>2, <3>3
  <2> QED
    BY <1>3, <2>1, <2>2, <2>3 DEF EndOf
<1>7. CASE ~(l + 1 > limit)
  <2>1. next = long
    BY <1>0, <1>2, <1>7
  <2>2. l = n
    BY <1>4, <1>7
  <2>3. l + 1 = IF n + 1 < limit THEN n + 1 ELSE limit
    BY <1>4, <1>7, <2>2
  <2>4. \A i \in 1..(l + 1) : next[i] = told[((n + 1) - (l + 1)) + i]
    <3> TAKE i \in 1..(l + 1)
    <3>1. ((n + 1) - (l + 1)) + i = (n - l) + i
      OBVIOUS
    <3> QED
      BY <1>5, <2>1, <3>1
  <2> QED
    BY <1>2, <1>3, <2>1, <2>3, <2>4 DEF EndOf
<1> QED
  BY <1>6, <1>7

LEMMA ReaderStep ==
  ASSUME OnceInv, ReaderInv, [EventNext]_eventVars
  PROVE  ReaderInv'
<1> USE DEF hubLogVars
<1>0. ASSUME UNCHANGED hubLogVars PROVE ReaderInv'
  BY <1>0 DEF ReaderInv, Told, LogIsRecent
<1>1. ASSUME NEW u \in Updaters,
             BeginUpsert(u) \/ BeginDelete(u) \/ BeginReplace(u) \/ UpsertAll(u)
             \/ DeleteEnded(u) \/ ReplaceService(u) \/ WriteFails(u) \/ EnqueueEvent(u)
      PROVE  ReaderInv'
  <2> UNCHANGED hubLogVars
    BY <1>1 DEF BeginUpsert, BeginDelete, BeginReplace, UpsertAll, DeleteEnded,
                ReplaceService, WriteFails, Begins, Commits, EnqueueEvent
  <2> QED
    BY <1>0
<1>2. CASE TimerFires \/ FlushTakes \/ UNCHANGED eventVars
  BY <1>0, <1>2 DEF TimerFires, FlushTakes, eventVars
<1>3. CASE PublishEvent
  <2>1. PICK batch \in batches :
          /\ eventLog' = IF Len(Append(eventLog, Head(batch))) > LogCapacity
                         THEN Tail(Append(eventLog, Head(batch)))
                         ELSE Append(eventLog, Head(batch))
          /\ reader' = [c \in EventReaders |-> Deliver(reader[c], Head(batch))]
          /\ published' = Append(published, Head(batch))
    BY <1>3 DEF PublishEvent
  <2>2. batch \in Seq(Announcement) /\ batch # << >> /\ published \in Seq(Announcement)
    BY DEF OnceInv, Listed
  <2> HIDE DEF Announcement
  <2>3. PICK e \in Announcement : e = Head(batch)
    BY <2>2
  <2>4. ASSUME NEW c \in EventReaders PROVE reader'[c] \in ReaderRecord /\ Told(reader[c])'
    <3>1. PICK r \in ReaderRecord : r = reader[c] /\ Told(r)
      BY DEF ReaderInv
    <3>2. Deliver(r, e) \in ReaderRecord /\ Told(Deliver(r, e))'
      BY <2>1, <2>2, <2>3, <3>1, DeliverKeeps
    <3>3. reader'[c] = Deliver(r, e)
      BY <2>1, <2>3, <3>1
    <3> QED
      BY <3>2, <3>3 DEF Told
  <2>5. reader' \in [EventReaders -> ReaderRecord]
    <3>1. reader' = [c \in EventReaders |-> reader'[c]]
      BY <2>1
    <3> QED
      BY <2>4, <3>1
  <2>6. eventLog' \in Seq(Announcement) /\ Len(eventLog') <= LogCapacity
    <3>1. PICK log \in Seq(Announcement) : log = Append(eventLog, e) /\ Len(log) = Len(eventLog) + 1
                                           /\ log # << >>
      <4>1. eventLog \in Seq(Announcement)
        BY DEF ReaderInv
      <4>2. /\ Append(eventLog, e) \in Seq(Announcement) /\ Append(eventLog, e) # << >>
            /\ Len(Append(eventLog, e)) = Len(eventLog) + 1
        BY <4>1, AppendProperties
      <4> QED
        BY <4>2
    <3>2. Len(eventLog) \in Nat /\ Len(eventLog) <= LogCapacity /\ LogCapacity \in Nat
      BY ProgramEventsAssumption DEF ReaderInv
    <3>3. Tail(log) \in Seq(Announcement) /\ Len(Tail(log)) = Len(log) - 1
      BY <3>1, HeadTailProperties
    <3>4. eventLog' = IF Len(log) > LogCapacity THEN Tail(log) ELSE log
      BY <2>1, <2>3, <3>1
    <3> QED
      BY <3>1, <3>2, <3>3, <3>4
  <2>7. LogIsRecent'
    <3>1. PICK log \in Seq(Announcement) : log = eventLog /\ EndOf(log, published, LogCapacity)
      BY DEF ReaderInv, LogIsRecent, EndOf
    <3>2. EndOf(Trimmed(Append(log, e), LogCapacity), Append(published, e), LogCapacity)
      BY <2>2, <3>1, LogKeepsRecent, ProgramEventsAssumption
    <3>3. /\ eventLog' = Trimmed(Append(log, e), LogCapacity)
          /\ published' = Append(published, e)
      BY <2>1, <2>3, <3>1 DEF Trimmed
    <3>4. EndOf(eventLog, published, LogCapacity)'
      BY <3>2, <3>3
    <3> QED
      BY <3>4 DEF LogIsRecent, EndOf
  <2> QED
    BY <2>4, <2>5, <2>6, <2>7 DEF ReaderInv
<1>4. ASSUME NEW c \in EventReaders, Subscribe(c) \/ ReadEvent(c) \/ Unsubscribe(c) PROVE ReaderInv'
  <2>1. PICK r \in ReaderRecord : r = reader[c] /\ Told(r)
    BY DEF ReaderInv
  <2>2. PICK n : n = Len(published)
    OBVIOUS
  <2>3. published \in Seq(Announcement) /\ n \in Nat
    BY <2>2 DEF OnceInv, Listed
  <2> HIDE DEF Announcement
  <2>4. published' = published /\ eventLog' = eventLog
    BY <1>4 DEF Subscribe, ReadEvent, Unsubscribe
  <2>5. /\ r.on \in BOOLEAN /\ r.lost \in BOOLEAN /\ r.from \in Nat
        /\ r.channel \in Seq(Announcement) /\ r.got \in Seq(Announcement)
    BY DEF ReaderRecord
  <2>6. ASSUME NEW s \in ReaderRecord, Told(s), reader' = [reader EXCEPT ![c] = s]
        PROVE  ReaderInv'
    <3>1. \A d \in EventReaders : reader'[d] \in ReaderRecord /\ Told(reader'[d])
      BY <2>6 DEF ReaderInv
    <3>2. reader' \in [EventReaders -> ReaderRecord]
      BY <2>6 DEF ReaderInv
    <3>3. LogIsRecent'
      BY <2>4 DEF ReaderInv, LogIsRecent
    <3> QED
      BY <2>4, <3>1, <3>2, <3>3 DEF ReaderInv, Told
  <2>7. CASE Subscribe(c)
    <3>1. PICK s : s = [r EXCEPT !.on = TRUE, !.from = Len(published) + 1]
      OBVIOUS
    <3>2. reader' = [reader EXCEPT ![c] = s] /\ ~r.on
      BY <2>1, <2>7, <3>1 DEF Subscribe
    <3>3. /\ s \in ReaderRecord /\ s.on = TRUE /\ s.from = n + 1
          /\ s.got = r.got /\ s.channel = r.channel
      <4>1. n + 1 \in Nat /\ n + 1 = Len(published) + 1 /\ TRUE \in BOOLEAN
        BY <2>2, <2>3
      <4> QED
        BY <3>1, <4>1, Zenon DEF ReaderRecord
    <3>4. s.got = << >> /\ s.channel = << >> /\ Len(s.channel) <= ReaderBuffer
      BY <2>1, <3>2, <3>3 DEF Told
    <3>5. s.got \o s.channel = SubSeq(published, s.from, Len(published))
      <4>1. n + 1 \in Int /\ n \in Int /\ n < n + 1
        BY <2>3
      <4>2. SubSeq(published, n + 1, n) = << >>
        BY <4>1, SubSeqEmpty
      <4>3. << >> \o << >> = << >>
        OBVIOUS
      <4> QED
        BY <2>2, <3>3, <3>4, <4>2, <4>3
    <3>6. s.from \in 1 .. Len(published) + 1
      BY <2>2, <2>3, <3>3
    <3>7. Told(s)
      BY <3>3, <3>4, <3>5, <3>6 DEF Told
    <3> QED
      BY <2>6, <3>2, <3>3, <3>7
  <2>8. CASE ReadEvent(c)
    <3>1. PICK s : s = [r EXCEPT !.got = Append(r.got, Head(r.channel)), !.channel = Tail(r.channel)]
      OBVIOUS
    <3>2. reader' = [reader EXCEPT ![c] = s] /\ r.on /\ r.channel # << >>
      <4>1. /\ reader' = [reader EXCEPT ![c] =
                 [reader[c] EXCEPT !.got = Append(reader[c].got, Head(reader[c].channel)),
                                   !.channel = Tail(reader[c].channel)]]
            /\ reader[c].on /\ reader[c].channel # << >>
        BY <2>8 DEF ReadEvent
      <4> QED
        BY <2>1, <3>1, <4>1
    <3>3. /\ Append(r.got, Head(r.channel)) \in Seq(Announcement)
          /\ Tail(r.channel) \in Seq(Announcement)
          /\ Len(Tail(r.channel)) = Len(r.channel) - 1 /\ Len(r.channel) \in Nat
      BY <2>5, <3>2, HeadTailProperties
    <3>4. /\ s \in ReaderRecord /\ s.on = r.on /\ s.lost = r.lost /\ s.from = r.from
          /\ s.got = Append(r.got, Head(r.channel)) /\ s.channel = Tail(r.channel)
      BY <3>1, <3>3 DEF ReaderRecord
    <3>5. s.got \o s.channel = r.got \o r.channel
      BY <2>5, <3>2, <3>4, ConcatMoves
    <3>6. Len(s.channel) <= ReaderBuffer
      BY <2>1, <3>3, <3>4, ProgramEventsAssumption DEF Told
    <3>7. Told(s)
      BY <2>1, <3>2, <3>4, <3>5, <3>6 DEF Told
    <3> QED
      BY <2>6, <3>2, <3>4, <3>7
  <2>9. CASE Unsubscribe(c)
    <3>1. PICK s : s = [r EXCEPT !.on = FALSE, !.channel = << >>, !.got = << >>]
      OBVIOUS
    <3>2. reader' = [reader EXCEPT ![c] = s]
      BY <2>1, <2>9, <3>1 DEF Unsubscribe
    <3>3. s \in ReaderRecord /\ s.on = FALSE /\ s.got = << >> /\ s.channel = << >>
      <4>1. << >> \in Seq(Announcement) /\ FALSE \in BOOLEAN
        OBVIOUS
      <4> QED
        BY <3>1, <4>1, Zenon DEF ReaderRecord
    <3>4. Told(s)
      BY <3>3, ProgramEventsAssumption DEF Told
    <3> QED
      BY <2>6, <3>2, <3>3, <3>4
  <2> QED
    BY <1>4, <2>7, <2>8, <2>9
<1> QED
  BY <1>1, <1>2, <1>3, <1>4 DEF EventNext

-----------------------------------------------------------------------------
(* ProgramEvents: the theorems.                                            *)

EventInv == StoreInv /\ OnceInv /\ TimerInv /\ ReaderInv

LEMMA EventInvInit ==
  ASSUME EventInit
  PROVE  EventInv
<1>1. StoreInv
  BY DEF EventInit, StoreInv, ProgramRow, NoProgram
<1>2. << >> \in Seq(Announcement) /\ Len(<< >>) = 0 /\ \A i \in 1..0 : FALSE
  OBVIOUS
<1>3. OnceInv
  BY <1>2 DEF EventInit, OnceInv, Listed, Apart, Known, Distinct
<1>4. TimerInv
  BY DEF EventInit, TimerInv
<1>5. ReaderInv
  <2>1. PICK r : r = [on |-> FALSE, channel |-> << >>, got |-> << >>, from |-> 0, lost |-> FALSE]
    OBVIOUS
  <2>2. r \in ReaderRecord /\ r.channel = << >> /\ r.got = << >> /\ r.on = FALSE
    <3>1. 0 \in Nat /\ FALSE \in BOOLEAN
      OBVIOUS
    <3> QED
      BY <1>2, <2>1, <3>1, Zenon DEF ReaderRecord
  <2>3. Told(r)
    BY <1>2, <2>2, ProgramEventsAssumption DEF Told
  <2>4. reader = [c \in EventReaders |-> r] /\ eventLog = << >>
    BY <2>1 DEF EventInit
  <2>5. 0 <= LogCapacity
    BY ProgramEventsAssumption
  <2>6. LogIsRecent
    <3>1. eventLog = << >> /\ published = << >> /\ LogCapacity \in Nat \ {0}
      BY ProgramEventsAssumption DEF EventInit
    <3> QED
      BY <1>2, <3>1 DEF LogIsRecent
  <2> QED
    BY <1>2, <2>2, <2>3, <2>4, <2>5, <2>6 DEF ReaderInv
<1> QED
  BY <1>1, <1>3, <1>4, <1>5 DEF EventInv

\* The program manager and the event hub keep the four invariants together.
THEOREM EventsInductive == EventSpec => []EventInv
<1>1. EventInit => EventInv
  BY EventInvInit
<1>2. EventInv /\ [EventNext]_eventVars => EventInv'
  BY StoreStep, OnceStep, TimerStep, ReaderStep DEF EventInv
<1> QED
  BY <1>1, <1>2, PTL DEF EventSpec

\* The type invariant of the program manager, its queue and the event hub.
THEOREM EventTypes == EventSpec => []EventTypeOK
<1>1. ASSUME EventInv PROVE EventTypeOK
  <2>1. \A id \in ProgramIDs : programs[id] \in [at : Nat, name : Nat]
    BY <1>1 DEF EventInv, StoreInv, ProgramRow
  <2>2. ASSUME NEW u \in Updaters
        PROVE  update[u].doing \in {"idle", "upsert", "delete", "replace", "announce"}
    <3>1. update[u] = IdleUpdate \/ update[u] \in Working \/ update[u] \in Announcing
      BY <1>1 DEF EventInv, StoreInv
    <3>2. update[u] = IdleUpdate => update[u].doing = "idle"
      BY DEF IdleUpdate
    <3>3. update[u] \in Working => update[u].doing \in {"upsert", "delete", "replace"}
      BY DEF Working
    <3>4. update[u] \in Announcing => update[u].doing = "announce"
      BY DEF Announcing
    <3> QED
      BY <3>1, <3>2, <3>3, <3>4
  <2>3. \A q \in batches \cup {eventQueue, published} : q \in Seq(Announcement)
    BY <1>1 DEF EventInv, OnceInv, Listed
  <2>4. << >> \notin batches
    BY <1>1 DEF EventInv, OnceInv
  <2>5. /\ eventTimer \in {"none", "armed", "fired"} /\ orphanTimers \in Nat /\ flushes \in Nat
        /\ Len(eventLog) <= LogCapacity
        /\ \A c \in EventReaders : Len(reader[c].channel) <= ReaderBuffer
    BY <1>1 DEF EventInv, TimerInv, ReaderInv, Told
  <2> QED
    BY <2>1, <2>2, <2>3, <2>4, <2>5 DEF EventTypeOK
<1>2. EventInv => EventTypeOK
  BY <1>1
<1> QED
  BY <1>2, EventsInductive, PTL

\* A number that is known to one line only, and once there, has one place.
LEMMA OnePlace ==
  ASSUME OnceInv, NEW n \in 1..announced
  PROVE  Cardinality(Places(n)) = 1
<1>1. \A line \in Lines : \A i \in 1..Len(line[2]) : line[2][i].number = n => Known(n, line[2])
  BY DEF Known
<1>2. n \in Nat
  BY DEF OnceInv
<1>3. ASSUME NEW k \in Lines, NEW l \in Lines, Known(n, k[2]), Known(n, l[2]) PROVE k = l
  <2> DEFINE out == <<"published", published>>
             queue == <<"queue", eventQueue>>
  <2>1. /\ Apart(published, eventQueue)
        /\ \A b \in batches : Apart(b, published) /\ Apart(b, eventQueue)
        /\ \A b, c \in batches : b # c => Apart(b, c)
    BY DEF OnceInv
  <2>2. /\ ~(Known(n, published) /\ Known(n, eventQueue))
        /\ \A b \in batches : /\ ~(Known(n, b) /\ Known(n, published))
                               /\ ~(Known(n, b) /\ Known(n, eventQueue))
        /\ \A b, c \in batches : Known(n, b) /\ Known(n, c) => b = c
    BY <1>2, <2>1 DEF Apart
  <2>3. /\ k = out \/ k = queue \/ \E b \in batches : k = <<"batch", b>>
        /\ l = out \/ l = queue \/ \E b \in batches : l = <<"batch", b>>
    BY DEF Lines
  <2>4. out[2] = published /\ queue[2] = eventQueue /\ \A b \in batches : <<"batch", b>>[2] = b
    OBVIOUS
  <2> HIDE DEF out, queue
  <2> QED
    BY <1>3, <2>2, <2>3, <2>4
<1>4. PICK line \in Lines : Known(n, line[2]) /\ Distinct(line[2])
  <2>1. CASE Known(n, published)
    <3> DEFINE out == <<"published", published>>
    <3>1. out \in Lines /\ out[2] = published
      BY DEF Lines
    <3>2. Distinct(published)
      BY DEF OnceInv, Listed
    <3> HIDE DEF out
    <3> QED
      BY <2>1, <3>1, <3>2
  <2>2. CASE Known(n, eventQueue)
    <3> DEFINE queue == <<"queue", eventQueue>>
    <3>1. queue \in Lines /\ queue[2] = eventQueue
      BY DEF Lines
    <3>2. Distinct(eventQueue)
      BY DEF OnceInv, Listed
    <3> HIDE DEF queue
    <3> QED
      BY <2>2, <3>1, <3>2
  <2>3. CASE \E b \in batches : Known(n, b)
    <3>1. PICK b \in batches : Known(n, b)
      BY <2>3
    <3> DEFINE batch == <<"batch", b>>
    <3>2. batch \in Lines /\ batch[2] = b
      BY DEF Lines
    <3>3. Distinct(b)
      BY DEF OnceInv, Listed
    <3> HIDE DEF batch
    <3> QED
      BY <3>1, <3>2, <3>3
  <2> QED
    BY <2>1, <2>2, <2>3 DEF OnceInv
<1>5. PICK i \in 1..Len(line[2]) : line[2][i].number = n
  BY <1>4 DEF Known
<1>6. \A j \in 1..Len(line[2]) : line[2][j].number = n => j = i
  BY <1>4, <1>5 DEF Distinct
<1>7. Places(n) = {<<line, i>>}
  <2>1. <<line, i>> \in Places(n)
    BY <1>4, <1>5 DEF Places
  <2>2. ASSUME NEW p \in Places(n) PROVE p = <<line, i>>
    <3>1. PICK l \in Lines : \E j \in 1..Len(l[2]) : l[2][j].number = n /\ p = <<l, j>>
      BY DEF Places
    <3>2. l = line
      BY <1>1, <1>3, <1>4, <3>1
    <3> QED
      BY <1>6, <3>1, <3>2
  <2> QED
    BY <2>1, <2>2
<1> QED
  BY <1>7, FS_Singleton

\* Whatever enqueueEvent, the timers and the flush goroutines do to each other, an event
\* is published once or waits in one place, where a timer or a flush will find it, and
\* a client that is not too slow is told every event since it subscribed, in order; the
\* log is the end of what was published.
THEOREM EventsOnce == EventSpec => []EventsExactlyOnce
<1>1. ASSUME EventInv PROVE EventsExactlyOnce
  <2>1. \A n \in 1..announced : Cardinality(Places(n)) = 1
    BY <1>1, OnePlace DEF EventInv
  <2>2. ASSUME NEW line \in Lines, NEW i \in 1..Len(line[2])
        PROVE  line[2][i].number \in 1..announced
    <3>1. Listed(line[2])
      <4>1. \A q : <<"published", q>>[2] = q /\ <<"queue", q>>[2] = q /\ <<"batch", q>>[2] = q
        OBVIOUS
      <4>2. line = <<"published", published>> \/ line = <<"queue", eventQueue>>
            \/ \E b \in batches : line = <<"batch", b>>
        BY DEF Lines
      <4>3. Listed(published) /\ Listed(eventQueue) /\ \A b \in batches : Listed(b)
        BY <1>1 DEF EventInv, OnceInv
      <4> HIDE DEF Listed
      <4> QED
        BY <4>1, <4>2, <4>3
    <3>2. PICK q : q = line[2]
      OBVIOUS
    <3>3. q \in Seq(Announcement) /\ i \in 1..Len(q)
      BY <3>1, <3>2 DEF Listed
    <3>4. q[i] \in Announcement
      <4> HIDE DEF Announcement
      <4> QED
        BY <3>3
    <3>5. q[i].number \in Nat /\ Known(q[i].number, q)
      BY <3>3, <3>4 DEF Announcement, Known
    <3> QED
      BY <3>1, <3>2, <3>5 DEF Listed
  <2>3. eventQueue # << >> => eventTimer = "armed" \/ orphanTimers > 0 \/ flushes > 0
    BY <1>1 DEF EventInv, TimerInv
  <2>4. \A c \in EventReaders :
          reader[c].on /\ ~reader[c].lost =>
            reader[c].got \o reader[c].channel = SubSeq(published, reader[c].from, Len(published))
    BY <1>1 DEF EventInv, ReaderInv, Told
  <2>5. LogIsRecent
    BY <1>1 DEF EventInv, ReaderInv
  <2> QED
    BY <2>1, <2>2, <2>3, <2>4, <2>5 DEF EventsExactlyOnce
<1>2. EventInv => EventsExactlyOnce
  BY <1>1
<1> QED
  BY <1>2, EventsInductive, PTL

-----------------------------------------------------------------------------
(* ProgramEvents: the events replay the store.                             *)

\* One more event overwrites the row it is about.
LEMMA ReplayAppend ==
  ASSUME NEW q \in Seq(Announcement), NEW e \in Announcement
  PROVE  \A id \in ProgramIDs :
           Replay(Append(q, e))[id] = IF id = e.event.id THEN e.event.program ELSE Replay(q)[id]
<1> HIDE DEF Announcement
<1> SUFFICES ASSUME NEW id \in ProgramIDs
             PROVE  Replay(Append(q, e))[id] = IF id = e.event.id THEN e.event.program ELSE Replay(q)[id]
  OBVIOUS
<1>1. PICK l \in Nat, r \in Seq(Announcement) :
        /\ l = Len(q) /\ r = Append(q, e) /\ Len(r) = l + 1
        /\ \A i \in 1..l : r[i] = q[i]
        /\ r[l + 1] = e
  <2>1. /\ Len(q) \in Nat /\ Len(Append(q, e)) = Len(q) + 1
        /\ \A i \in 1..Len(q) : Append(q, e)[i] = q[i]
        /\ Append(q, e)[Len(q) + 1] = e
    OBVIOUS
  <2>2. Append(q, e) \in Seq(Announcement)
    OBVIOUS
  <2> QED
    BY <2>1, <2>2
<1> DEFINE Old == {i \in 1..l : q[i].event.id = id}
           New == {i \in 1..(l + 1) : r[i].event.id = id}
<1>2. /\ Replay(q)[id] = IF Old = {} THEN NoProgram ELSE q[Max(Old)].event.program
      /\ Replay(r)[id] = IF New = {} THEN NoProgram ELSE r[Max(New)].event.program
  BY <1>1 DEF Replay
<1>3. \A i \in 1..(l + 1) : i \in 1..l \/ i = l + 1
  OBVIOUS
<1>4. CASE id = e.event.id
  <2>1. l + 1 \in New
    BY <1>1, <1>4
  <2>2. New \in SUBSET (1..(l + 1)) /\ l + 1 \in Nat /\ New # {}
    BY <2>1
  <2>3. Max(New) \in New /\ \A i \in New : i <= Max(New)
    BY <2>2, MaxOfPart
  <2>4. PICK m \in 1..(l + 1) : m = Max(New) /\ l + 1 <= m
    BY <2>1, <2>3
  <2>5. m = l + 1
    BY <2>4
  <2> HIDE DEF New
  <2>6. Replay(r)[id] = r[Max(New)].event.program
    BY <1>2, <2>2
  <2>7. Max(New) = l + 1
    BY <2>4, <2>5
  <2> HIDE DEF Old
  <2> QED
    BY <1>1, <1>4, <2>6, <2>7
<1>5. CASE id # e.event.id
  <2>1. New = Old
    BY <1>1, <1>3, <1>5
  <2>2. CASE Old = {}
    <3> HIDE DEF New, Old
    <3> QED
      BY <1>1, <1>2, <1>5, <2>1, <2>2
  <2>3. CASE Old # {}
    <3>1. Old \in SUBSET (1..l)
      OBVIOUS
    <3>2. Max(Old) \in 1..l
      BY <2>3, <3>1, MaxOfPart
    <3> HIDE DEF New, Old
    <3> QED
      BY <1>1, <1>2, <1>5, <2>1, <2>3, <3>2
  <2> QED
    BY <2>2, <2>3
<1> QED
  BY <1>4, <1>5

\* The last of T about a program, in the order of their turns.
LastOf(e, T) == \A f \in T : f.event.id = e.event.id => f.turn <= e.turn

\* What is still to be announced, T, makes up for the difference between rows and what
\* the events so far say.
Pending(way, T, rows) ==
  \A id \in ProgramIDs :
    /\ \A e \in T : e.event.id = id /\ LastOf(e, T) => e.event.program = rows[id]
    /\ (\A e \in T : e.event.id # id) => way[id] = rows[id]

Way == published \o OnTheWay

ReplayInv ==
  ~overlapped /\ ~shortened =>
    /\ \A b, c \in batches : b = c
    /\ \A u, v \in Updaters : update[u] # IdleUpdate /\ update[v] # IdleUpdate => u = v
    /\ (\A u \in Updaters : update[u] = IdleUpdate) => Pending(Replay(Way), {}, programs)
    /\ \A u \in Updaters :
         update[u] \in Working =>
           update[u].before = programs /\ Pending(Replay(Way), {}, programs)
    /\ \A u \in Updaters :
         update[u] \in Announcing => Pending(Replay(Way), update[u].tell, programs)

LEMMA WayIsSeq ==
  ASSUME OnceInv
  PROVE  /\ Publishing \in Seq(Announcement) /\ OnTheWay \in Seq(Announcement)
         /\ Way \in Seq(Announcement)
         /\ eventQueue \in Seq(Announcement) /\ published \in Seq(Announcement)
<1>1. /\ eventQueue \in Seq(Announcement) /\ published \in Seq(Announcement)
      /\ \A b \in batches : b \in Seq(Announcement)
  BY DEF OnceInv, Listed
<1> HIDE DEF Announcement
<1>2. Publishing \in Seq(Announcement)
  BY <1>1 DEF Publishing
<1> QED
  BY <1>1, <1>2 DEF OnTheWay, Way

\* Flushing and publishing move events along their way and change nothing else.
LEMMA FlushMovesAlong ==
  ASSUME OnceInv, FlushTakes, ~overlapped', \A b, c \in batches : b = c
  PROVE  Way' = Way /\ \A b, c \in batches' : b = c
<1>1. /\ eventQueue' = << >> /\ batches' = batches \cup ({eventQueue} \ {<< >>})
      /\ published' = published /\ (batches = {} \/ eventQueue = << >>)
  BY DEF FlushTakes, hubLogVars
<1>2. Publishing \in Seq(Announcement) /\ eventQueue \in Seq(Announcement)
  BY WayIsSeq
<1> HIDE DEF Announcement
<1>3. CASE eventQueue = << >>
  <2>1. batches' = batches /\ eventQueue' = eventQueue
    BY <1>1, <1>3
  <2> QED
    <3>1. Publishing' = Publishing
      BY <2>1 DEF Publishing
    <3> QED
      BY <1>1, <2>1, <3>1 DEF Way, OnTheWay
<1>4. CASE eventQueue # << >>
  <2>1. batches = {} /\ batches' = {eventQueue}
    BY <1>1, <1>4
  <2>2. Publishing = << >> /\ Publishing' = eventQueue
    BY <2>1 DEF Publishing
  <2>3. OnTheWay' = eventQueue \o << >> /\ OnTheWay = << >> \o eventQueue
    BY <1>1, <2>2 DEF OnTheWay
  <2>4. OnTheWay' = OnTheWay
    BY <1>2, <2>3, ConcatEmptySeq
  <2> QED
    BY <1>1, <2>1, <2>4 DEF Way
<1> QED
  BY <1>3, <1>4

LEMMA PublishMovesAlong ==
  ASSUME OnceInv, PublishEvent, \A b, c \in batches : b = c
  PROVE  Way' = Way /\ \A b, c \in batches' : b = c
<1>1. PICK batch \in batches :
        /\ batches' = (batches \ {batch}) \cup ({Tail(batch)} \ {<< >>})
        /\ published' = Append(published, Head(batch))
  BY DEF PublishEvent
<1>2. eventQueue' = eventQueue /\ batches = {batch}
  BY DEF PublishEvent, timerVars
<1>3. batch # << >> /\ batch \in Seq(Announcement)
  BY DEF OnceInv, Listed
<1>4. eventQueue \in Seq(Announcement) /\ published \in Seq(Announcement)
  BY WayIsSeq
<1> HIDE DEF Announcement
<1>5. Publishing = batch
  BY <1>2 DEF Publishing
<1>6. Publishing' = Tail(batch)
  <2>1. CASE Tail(batch) = << >>
    <3>1. batches' = {}
      BY <1>1, <1>2, <2>1
    <3> QED
      BY <2>1, <3>1 DEF Publishing
  <2>2. CASE Tail(batch) # << >>
    <3>1. batches' = {Tail(batch)}
      BY <1>1, <1>2, <2>2
    <3> QED
      BY <3>1 DEF Publishing
  <2> QED
    BY <2>1, <2>2
<1>7. Append(published, Head(batch)) \o (Tail(batch) \o eventQueue) = published \o (batch \o eventQueue)
  <2>1. /\ Head(batch) \in Announcement /\ Tail(batch) \in Seq(Announcement)
        /\ Append(published, Head(batch)) \in Seq(Announcement)
    BY <1>3, <1>4
  <2>2. Append(published, Head(batch)) \o (Tail(batch) \o eventQueue)
          = (Append(published, Head(batch)) \o Tail(batch)) \o eventQueue
    <3>1. PICK a \in Seq(Announcement), b \in Seq(Announcement), c \in Seq(Announcement) :
            a = Append(published, Head(batch)) /\ b = Tail(batch) /\ c = eventQueue
      BY <1>4, <2>1
    <3>2. (a \o b) \o c = a \o (b \o c)
      BY ConcatAssociative
    <3> QED
      BY <3>1, <3>2
  <2>3. Append(published, Head(batch)) \o Tail(batch) = published \o batch
    BY <1>3, <1>4, ConcatMoves
  <2>4. (published \o batch) \o eventQueue = published \o (batch \o eventQueue)
    BY <1>3, <1>4, ConcatAssociative
  <2> QED
    BY <2>2, <2>3, <2>4
<1>8. Way' = Way
  BY <1>1, <1>2, <1>5, <1>6, <1>7 DEF Way, OnTheWay
<1>9. \A b, c \in batches' : b = c
  BY <1>1, <1>2
<1> QED
  BY <1>8, <1>9

\* enqueueEvent: what is announced in its turn is no longer pending.
LEMMA AnnouncePending ==
  ASSUME NEW q \in Seq(Announcement), NEW a \in Announcement, NEW T \in SUBSET Telling, NEW rows,
         NEW e \in T, e.event = a.event, \A f \in T : e.turn <= f.turn,
         Pending(Replay(q), T, rows)
  PROVE  Pending(Replay(Append(q, a)), T \ {e}, rows)
<1> SUFFICES ASSUME NEW id \in ProgramIDs
             PROVE  /\ \A f \in T \ {e} : f.event.id = id /\ LastOf(f, T \ {e}) =>
                          f.event.program = rows[id]
                    /\ (\A f \in T \ {e} : f.event.id # id) => Replay(Append(q, a))[id] = rows[id]
  BY DEF Pending
<1>1. /\ \A f \in T : f.event.id = id /\ LastOf(f, T) => f.event.program = rows[id]
      /\ (\A f \in T : f.event.id # id) => Replay(q)[id] = rows[id]
  BY DEF Pending
<1>2. Replay(Append(q, a))[id] = IF id = e.event.id THEN e.event.program ELSE Replay(q)[id]
  BY ReplayAppend
<1>3. \A f \in T \ {e} : LastOf(f, T \ {e}) => LastOf(f, T)
  BY DEF LastOf
<1>4. e.turn <= e.turn
  BY DEF Telling
<1>5. (\A f \in T \ {e} : f.event.id # id) /\ id = e.event.id => LastOf(e, T)
  BY <1>4 DEF LastOf
<1> HIDE DEF Announcement, Telling
<1> QED
  BY <1>1, <1>2, <1>3, <1>5

\* The rows and the announcements of UpsertPrograms, where the rows are what it merged.
LEMMA ChangesPending ==
  ASSUME NEW way, NEW before, Pending(way, {}, before), NEW after, NEW rows,
         \A id \in DOMAIN after : rows[id] = after[id],
         \A id \in ProgramIDs \ DOMAIN after : rows[id] = before[id]
  PROVE  Pending(way, Changes(before, after), rows)
<1> SUFFICES ASSUME NEW id \in ProgramIDs
             PROVE  /\ \A e \in Changes(before, after) : e.event.id = id => e.event.program = rows[id]
                    /\ (\A e \in Changes(before, after) : e.event.id # id) => way[id] = rows[id]
  BY DEF Pending
<1>1. way[id] = before[id]
  BY DEF Pending
<1>2. ASSUME NEW e \in Changes(before, after)
      PROVE  e.event.id \in DOMAIN after /\ e.event.program = after[e.event.id]
  BY <1>2 DEF Changes, InTurn, Created, Updated
<1>3. ASSUME id \in DOMAIN after, before[id] # after[id]
      PROVE  \E e \in Changes(before, after) : e.event.id = id
  <2>1. PICK e : e = IF before[id] = NoProgram THEN Created(id, after[id]) ELSE Updated(id, after[id])
    OBVIOUS
  <2>2. [turn |-> 0, event |-> e] \in Changes(before, after)
    BY <1>3, <2>1 DEF Changes, InTurn
  <2>3. e.id = id
    BY <2>1 DEF Created, Updated
  <2> QED
    BY <2>2, <2>3
<1> QED
  BY <1>1, <1>2, <1>3

\* Removals announce the rows that are no longer there.
LEMMA RemovalsPending ==
  ASSUME NEW way, NEW before, Pending(way, {}, before), NEW ids \in SUBSET ProgramIDs, NEW rows,
         \A id \in ids : rows[id] = NoProgram,
         \A id \in ProgramIDs \ ids : rows[id] = before[id]
  PROVE  Pending(way, InTurn(0, {Removed(id) : id \in ids}), rows)
<1> SUFFICES ASSUME NEW id \in ProgramIDs
             PROVE  /\ \A e \in InTurn(0, {Removed(i) : i \in ids}) :
                          e.event.id = id => e.event.program = rows[id]
                    /\ (\A e \in InTurn(0, {Removed(i) : i \in ids}) : e.event.id # id) =>
                          way[id] = rows[id]
  BY DEF Pending
<1>1. way[id] = before[id]
  BY DEF Pending
<1>2. \A i : Removed(i).id = i /\ Removed(i).program = NoProgram
  BY DEF Removed
<1>3. PICK T : T = InTurn(0, {Removed(i) : i \in ids})
  OBVIOUS
<1>4. \A e \in T : e.event.id \in ids /\ e.event.program = NoProgram
  <2> TAKE e \in T
  <2>1. PICK i \in ids : e.event = Removed(i)
    BY <1>3 DEF InTurn
  <2> QED
    BY <1>2, <2>1
<1>5. \A i \in ids : \E e \in T : e.event.id = i
  <2> TAKE i \in ids
  <2>1. PICK r : r = Removed(i)
    OBVIOUS
  <2>2. [turn |-> 0, event |-> r] \in T
    BY <1>3, <2>1 DEF InTurn
  <2>3. [turn |-> 0, event |-> r].event.id = i
    BY <1>2, <2>1
  <2> QED
    BY <2>2, <2>3
<1>6. \A e \in T : e.event.id = id => e.event.program = rows[id]
  BY <1>4
<1>7. (\A e \in T : e.event.id # id) => way[id] = rows[id]
  BY <1>1, <1>5
<1> QED
  BY <1>3, <1>6, <1>7

\* Every mention of a program that is not what was read is announced in its turn.
LEMMA ReplacementMade ==
  ASSUME NEW before, NEW batch, NEW i \in DOMAIN batch, NEW c,
         \/ /\ Earlier(batch, i) \/ before[batch[i].id] = NoProgram
            /\ c = Created(batch[i].id, batch[i].program)
         \/ /\ ~(Earlier(batch, i) \/ before[batch[i].id] = NoProgram)
            /\ before[batch[i].id] # batch[i].program
            /\ c = Updated(batch[i].id, batch[i].program)
  PROVE  [turn |-> i, event |-> c] \in Replacements(before, batch)
<1> DEFINE Made(j) ==
       InTurn(j, IF Earlier(batch, j) \/ before[batch[j].id] = NoProgram
                 THEN {Created(batch[j].id, batch[j].program)}
                 ELSE IF before[batch[j].id] # batch[j].program
                 THEN {Updated(batch[j].id, batch[j].program)} ELSE {})
<1>1. Replacements(before, batch) = UNION {Made(j) : j \in DOMAIN batch}
  BY DEF Replacements
<1>2. Made(i) = InTurn(i, {c})
  OBVIOUS
<1>3. [turn |-> i, event |-> c] \in InTurn(i, {c})
  BY DEF InTurn
<1> HIDE DEF Made
<1> QED
  BY <1>1, <1>2, <1>3

\* ReplaceServicePrograms announces each mention; the last of a program is the row.
LEMMA ReplacementsPending ==
  ASSUME NEW way, NEW before, Pending(way, {}, before), NEW batch \in Seq(Mention), NEW rows,
         \A id \in Mentioned(batch) : rows[id] = LastMention(batch, id),
         \A id \in ProgramIDs \ Mentioned(batch) : rows[id] = NoProgram,
         NEW gone, gone = {id \in ProgramIDs \ Mentioned(batch) : before[id] # NoProgram},
         NEW T, T = Replacements(before, batch)
                      \cup InTurn(Len(batch) + 1, {Removed(id) : id \in gone})
  PROVE  Pending(way, T, rows)
<1>0. /\ Len(batch) \in Nat /\ DOMAIN batch = 1 .. Len(batch)
      /\ \A i \in DOMAIN batch : batch[i].program # NoProgram
  BY MentionTypes
<1> SUFFICES ASSUME NEW id \in ProgramIDs
             PROVE  /\ \A e \in T : e.event.id = id /\ LastOf(e, T) => e.event.program = rows[id]
                    /\ (\A e \in T : e.event.id # id) => way[id] = rows[id]
  BY DEF Pending
<1>1. way[id] = before[id]
  BY DEF Pending
<1>2. \A i \in DOMAIN batch :
        Earlier(batch, i) => \E e \in T : e.turn = i /\ e.event.id = batch[i].id
  <2> TAKE i \in DOMAIN batch
  <2> HAVE Earlier(batch, i)
  <2>1. PICK c : c = Created(batch[i].id, batch[i].program)
    OBVIOUS
  <2>2. [turn |-> i, event |-> c] \in Replacements(before, batch)
    BY <2>1, ReplacementMade
  <2>3. c.id = batch[i].id
    BY <2>1 DEF Created
  <2> QED
    BY <2>2, <2>3
<1>3. \A i \in DOMAIN batch : before[batch[i].id] # batch[i].program =>
        \E e \in T : e.event.id = batch[i].id
  <2> TAKE i \in DOMAIN batch
  <2> HAVE before[batch[i].id] # batch[i].program
  <2>1. PICK c : c = IF Earlier(batch, i) \/ before[batch[i].id] = NoProgram
                     THEN Created(batch[i].id, batch[i].program)
                     ELSE Updated(batch[i].id, batch[i].program)
    OBVIOUS
  <2>2. [turn |-> i, event |-> c] \in Replacements(before, batch)
    BY <2>1, ReplacementMade
  <2>3. c.id = batch[i].id
    BY <2>1 DEF Created, Updated
  <2> QED
    BY <2>2, <2>3
<1>4. \A i \in gone : \E e \in T : e.event.id = i
  <2> TAKE i \in gone
  <2>1. PICK e : e = [turn |-> Len(batch) + 1, event |-> Removed(i)]
    OBVIOUS
  <2>2. e \in T /\ e.event.id = i
    BY <2>1 DEF InTurn, Removed
  <2> QED
    BY <2>2
<1>5. \A e \in Replacements(before, batch) : \E i \in DOMAIN batch :
        e.turn = i /\ e.event.id = batch[i].id /\ e.event.program = batch[i].program
  BY DEF Replacements, InTurn, Created, Updated
<1>6. \A e \in InTurn(Len(batch) + 1, {Removed(i) : i \in gone}) : \E i \in gone :
        e.event.id = i /\ e.event.program = NoProgram
  BY DEF InTurn, Removed
<1> HIDE DEF Replacements, InTurn, Removed, Earlier
<1>7. CASE id \notin Mentioned(batch)
  <2>1. \A i \in DOMAIN batch : batch[i].id # id
    BY <1>7 DEF Mentioned
  <2>2. rows[id] = NoProgram
    BY <1>7
  <2>3. \A e \in T : e.event.id = id => e.event.program = NoProgram
    BY <1>5, <1>6, <2>1
  <2>4. id \in gone \/ before[id] = NoProgram
    BY <1>7
  <2> QED
    BY <1>1, <1>4, <2>2, <2>3, <2>4
<1>8. CASE id \in Mentioned(batch)
  <2>1. PICK m \in Mentions(batch, id) :
          LastMention(batch, id) = batch[m].program /\ \A j \in Mentions(batch, id) : j <= m
    BY <1>8, LastPlace
  <2>2. m \in DOMAIN batch /\ batch[m].id = id /\ rows[id] = batch[m].program
    BY <1>8, <2>1 DEF Mentions
  <2>3. ASSUME NEW e \in T, e.event.id = id, LastOf(e, T) PROVE e.event.program = rows[id]
    <3>1. id \notin gone
      BY <1>8
    <3>2. e \in Replacements(before, batch)
      BY <1>6, <2>3, <3>1
    <3>3. PICK i \in DOMAIN batch :
            e.turn = i /\ batch[i].id = id /\ e.event.program = batch[i].program
      BY <1>5, <2>3, <3>2
    <3>4. i <= m
      BY <2>1, <3>3 DEF Mentions
    <3>5. i # m => Earlier(batch, m)
      BY <1>0, <2>2, <3>3, <3>4 DEF Earlier
    <3>6. Earlier(batch, m) => m <= i
      BY <1>2, <2>2, <2>3, <3>3 DEF LastOf
    <3>7. i = m
      BY <1>0, <2>2, <3>3, <3>4, <3>5, <3>6
    <3> QED
      BY <2>2, <3>3, <3>7
  <2>4. (\A e \in T : e.event.id # id) => way[id] = rows[id]
    BY <1>1, <1>3, <2>2
  <2> QED
    BY <2>3, <2>4
<1> QED
  BY <1>7, <1>8

\* Idle, working and announcing exclude each other.
LEMMA OneThing ==
  ASSUME NEW w
  PROVE  /\ w \in Working => w # IdleUpdate /\ w \notin Announcing
                             /\ w.doing \in {"upsert", "delete", "replace"}
         /\ w \in Announcing => w # IdleUpdate /\ w \notin Working /\ w.doing = "announce"
         /\ IdleUpdate.doing = "idle"
<1>1. IdleUpdate.doing = "idle"
  BY DEF IdleUpdate
<1>2. w \in Working => w.doing \in {"upsert", "delete", "replace"}
  BY DEF Working
<1>3. w \in Announcing => w.doing = "announce"
  BY DEF Announcing
<1> HIDE DEF Working, Announcing, IdleUpdate
<1> QED
  BY <1>1, <1>2, <1>3

\* The transaction of an updater that is alone.
LEMMA CommitReplays ==
  ASSUME ReplayInv, StoreInv, ~overlapped, ~shortened, NEW u \in Updaters, update[u] \in Working,
         NEW rows, NEW tell \in SUBSET Telling,
         Commits(u, rows, tell), Pending(Replay(Way), tell, rows)
  PROVE  ReplayInv'
<1> HIDE DEF Working, Announcing, Pending, Replay, IdleUpdate
<1>1. /\ programs' = rows /\ batches' = batches /\ overlapped' = overlapped
      /\ update' = [update EXCEPT ![u] =
                      IF tell = {} THEN IdleUpdate
                      ELSE [doing |-> "announce", tell |-> tell]]
      /\ published' = published /\ eventQueue' = eventQueue
  BY DEF Commits, timerVars, hubLogVars
<1>2. Way' = Way
  <2>1. Publishing' = Publishing
    BY <1>1 DEF Publishing
  <2> QED
    BY <1>1, <2>1 DEF Way, OnTheWay
<1>3. \A v \in Updaters : v # u => update[v] = IdleUpdate /\ update'[v] = IdleUpdate
  BY <1>1, OneThing DEF ReplayInv, StoreInv
<1>4. PICK new : new = [doing |-> "announce", tell |-> tell]
  OBVIOUS
<1>5. new \in Announcing /\ new.tell = tell
  BY <1>4 DEF Announcing
<1>6. update'[u] = IF tell = {} THEN IdleUpdate ELSE new
  BY <1>1, <1>4 DEF StoreInv
<1>7. IdleUpdate \notin Working /\ IdleUpdate \notin Announcing /\ new # IdleUpdate /\ new \notin Working
  BY <1>5, OneThing
<1>8. PICK r : r = Replay(Way)
  OBVIOUS
<1>9. Replay(Way') = r
  BY <1>2, <1>8
<1>10. /\ \A b, c \in batches' : b = c
       /\ \A v, w \in Updaters : update'[v] # IdleUpdate /\ update'[w] # IdleUpdate => v = w
  BY <1>1, <1>3 DEF ReplayInv
<1>11. (\A v \in Updaters : update'[v] = IdleUpdate) => Pending(r, {}, rows)
  BY <1>6, <1>7, <1>8
<1>12. \A v \in Updaters : update'[v] \notin Working
  BY <1>3, <1>6, <1>7
<1>13. ASSUME NEW v \in Updaters, update'[v] \in Announcing
       PROVE  Pending(r, update'[v].tell, rows)
  BY <1>3, <1>5, <1>6, <1>7, <1>8, <1>13
<1> QED
  <2>1. Replay(Way)' = r
    BY <1>9 DEF Replay
  <2>2. (\A v \in Updaters : update[v] = IdleUpdate)' => Pending(Replay(Way), {}, programs)'
    BY <1>1, <1>11, <2>1 DEF Pending
  <2>3. ASSUME NEW v \in Updaters, update'[v] \in Announcing
        PROVE  Pending(Replay(Way), update[v].tell, programs)'
    BY <1>1, <1>13, <2>1, <2>3 DEF Pending
  <2> QED
    BY <1>10, <1>12, <2>2, <2>3 DEF ReplayInv

LEMMA SameReplays ==
  ASSUME ReplayInv, UNCHANGED <<programs, update>>,
         UNCHANGED shortened,
         ~overlapped' /\ ~shortened => ~overlapped /\ Way' = Way /\ \A b, c \in batches' : b = c
  PROVE  ReplayInv'
<1> HIDE DEF Working, Announcing, Pending, IdleUpdate, Way
<1> SUFFICES ASSUME ~overlapped', ~shortened' PROVE ReplayInv'
  BY DEF ReplayInv
<1>1. Replay(Way)' = Replay(Way)
  BY DEF Replay
<1>2. \A T : Pending(Replay(Way), T, programs) => Pending(Replay(Way), T, programs)'
  BY <1>1 DEF Pending
<1>3. \A u \in Updaters : update'[u] = update[u]
  OBVIOUS
<1>4. (\A u \in Updaters : update[u] = IdleUpdate)' => Pending(Replay(Way), {}, programs)'
  BY <1>2 DEF ReplayInv
<1>5. ASSUME NEW u \in Updaters, update'[u] \in Working
      PROVE  update'[u].before = programs' /\ Pending(Replay(Way), {}, programs)'
  BY <1>2, <1>5 DEF ReplayInv
<1>6. ASSUME NEW u \in Updaters, update'[u] \in Announcing
      PROVE  Pending(Replay(Way), update[u].tell, programs)'
  <2>1. PICK T : T = update[u].tell
    OBVIOUS
  <2>2. Pending(Replay(Way), T, programs)'
    BY <1>2, <1>6, <2>1 DEF ReplayInv
  <2> QED
    BY <2>1, <2>2 DEF Pending
<1>7. \A u, v \in Updaters : update'[u] # IdleUpdate /\ update'[v] # IdleUpdate => u = v
  BY DEF ReplayInv
<1> QED
  BY <1>4, <1>5, <1>6, <1>7 DEF ReplayInv

\* An operation begins alone, or marks the overlap.
LEMMA BeginReplays ==
  ASSUME ReplayInv, StoreInv, NEW u \in Updaters, NEW work \in Working, work.before = programs,
         Begins(u, work)
  PROVE  ReplayInv'
<1> HIDE DEF Working, Announcing, Pending, IdleUpdate
<1> SUFFICES ASSUME ~overlapped', ~shortened' PROVE ReplayInv'
  BY DEF ReplayInv
<1>1. /\ ~overlapped /\ ~shortened /\ \A v \in Updaters : update[v] = IdleUpdate
      /\ update' = [update EXCEPT ![u] = work] /\ UNCHANGED <<programs, batches, published, eventQueue>>
  BY DEF Begins, timerVars, hubLogVars
<1>2. Way' = Way
  <2>1. Publishing' = Publishing
    BY <1>1 DEF Publishing
  <2> QED
    BY <1>1, <2>1 DEF Way, OnTheWay
<1>3. Replay(Way)' = Replay(Way)
  BY <1>2 DEF Replay
<1>4. Pending(Replay(Way), {}, programs)'
  <2>1. Pending(Replay(Way), {}, programs)
    BY <1>1 DEF ReplayInv
  <2> QED
    BY <1>1, <1>3, <2>1 DEF Pending
<1>5. \A v \in Updaters : v # u => update'[v] = IdleUpdate
  BY <1>1 DEF StoreInv
<1>6. update'[u] = work
  BY <1>1 DEF StoreInv
<1>7. ASSUME NEW v \in Updaters
      PROVE  /\ update'[v] \in Working => update'[v].before = programs'
             /\ update'[v] \notin Announcing
  BY <1>1, <1>5, <1>6, OneThing
<1> QED
  BY <1>1, <1>4, <1>5, <1>7 DEF ReplayInv

\* A transaction that fails leaves the rows and announces nothing.
LEMMA FailReplays ==
  ASSUME ReplayInv, StoreInv, NEW u \in Updaters, WriteFails(u)
  PROVE  ReplayInv'
<1> SUFFICES ASSUME ~overlapped', ~shortened' PROVE ReplayInv'
  BY DEF ReplayInv
<1>0. update[u] \in Working
  BY OneThing DEF WriteFails, StoreInv, Announcing, IdleUpdate
<1> HIDE DEF Working, Announcing, Pending, IdleUpdate
<1>1. /\ ~overlapped /\ ~shortened /\ update' = [update EXCEPT ![u] = IdleUpdate]
      /\ UNCHANGED <<programs, batches, published, eventQueue>>
  BY DEF WriteFails, timerVars, hubLogVars
<1>2. Way' = Way
  <2>1. Publishing' = Publishing
    BY <1>1 DEF Publishing
  <2> QED
    BY <1>1, <2>1 DEF Way, OnTheWay
<1>3. Replay(Way)' = Replay(Way)
  BY <1>2 DEF Replay
<1>4. Pending(Replay(Way), {}, programs)'
  <2>1. Pending(Replay(Way), {}, programs)
    BY <1>0, <1>1 DEF ReplayInv
  <2> QED
    BY <1>1, <1>3, <2>1 DEF Pending
<1>5. \A v \in Updaters : update'[v] = IdleUpdate
  BY <1>0, <1>1, OneThing DEF ReplayInv, StoreInv
<1>6. IdleUpdate \notin Working /\ IdleUpdate \notin Announcing
  BY OneThing
<1> QED
  BY <1>1, <1>4, <1>5, <1>6 DEF ReplayInv

\* enqueueEvent appends one event to the way, and it is no longer pending.
LEMMA EnqueueReplays ==
  ASSUME ReplayInv, StoreInv, OnceInv, NEW u \in Updaters, EnqueueEvent(u)
  PROVE  ReplayInv'
<1> SUFFICES ASSUME ~overlapped', ~shortened' PROVE ReplayInv'
  BY DEF ReplayInv
<1>0. update[u] \in Announcing
  BY DEF EnqueueEvent, StoreInv, Working, IdleUpdate
<1>1. PICK tell \in SUBSET Telling : tell = update[u].tell
  BY <1>0 DEF Announcing
<1>2. PICK e \in tell :
        /\ \A f \in tell : e.turn <= f.turn
        /\ eventQueue' = Append(eventQueue, [number |-> announced + 1, event |-> e.event])
        /\ update' = [update EXCEPT ![u] =
             IF tell = {e} THEN IdleUpdate ELSE [update[u] EXCEPT !.tell = @ \ {e}]]
  BY <1>1 DEF EnqueueEvent
<1>3. e \in tell /\ e.event \in EventKind
  BY <1>2 DEF Telling
<1>4. PICK a \in Announcement : a = [number |-> announced + 1, event |-> e.event] /\ a.event = e.event
  <2>1. announced + 1 \in Nat \ {0}
    BY DEF OnceInv
  <2> QED
    <3>1. PICK a : a = [number |-> announced + 1, event |-> e.event]
      OBVIOUS
    <3>2. a \in Announcement /\ a.event = e.event
      BY <1>3, <2>1, <3>1 DEF Announcement
    <3> QED
      BY <3>1, <3>2
<1>5. PICK new : new = [update[u] EXCEPT !.tell = @ \ {e}]
  OBVIOUS
<1>6. new \in Announcing /\ new.tell = tell \ {e}
  BY <1>0, <1>1, <1>5 DEF Announcing
<1> HIDE DEF Working, Announcing, Pending, IdleUpdate, Announcement
<1>7. ~overlapped /\ ~shortened /\ UNCHANGED <<programs, batches, published>>
  BY DEF EnqueueEvent, hubLogVars
<1>8. Way' = Append(Way, a)
  <2>1. /\ Publishing \in Seq(Announcement) /\ eventQueue \in Seq(Announcement)
        /\ published \in Seq(Announcement) /\ OnTheWay \in Seq(Announcement)
    BY WayIsSeq
  <2>2. Publishing' = Publishing
    BY <1>7 DEF Publishing
  <2>3. Publishing \o Append(eventQueue, a) = Append(Publishing \o eventQueue, a)
    BY <2>1, ConcatGrows
  <2>4. OnTheWay' = Append(OnTheWay, a)
    BY <1>2, <1>4, <2>2, <2>3 DEF OnTheWay
  <2>5. published \o Append(OnTheWay, a) = Append(published \o OnTheWay, a)
    BY <2>1, ConcatGrows
  <2> QED
    BY <1>7, <2>4, <2>5 DEF Way
<1>9. Pending(Replay(Append(Way, a)), tell \ {e}, programs)
  <2>1. Pending(Replay(Way), tell, programs)
    BY <1>0, <1>1, <1>7 DEF ReplayInv
  <2>2. Way \in Seq(Announcement)
    BY WayIsSeq
  <2> QED
    BY <1>2, <1>3, <1>4, <2>1, <2>2, AnnouncePending
<1>10. Replay(Way)' = Replay(Append(Way, a))
  BY <1>8 DEF Replay
<1>11. \A v \in Updaters : v # u => update'[v] = IdleUpdate
  BY <1>0, <1>2, <1>7, OneThing DEF ReplayInv, StoreInv
<1>12. update'[u] = IF tell = {e} THEN IdleUpdate ELSE new
  BY <1>2, <1>5 DEF StoreInv
<1>13. IdleUpdate \notin Working /\ IdleUpdate \notin Announcing /\ new # IdleUpdate /\ new \notin Working
  BY <1>6, OneThing
<1>14. (\A v \in Updaters : update[v] = IdleUpdate)' => Pending(Replay(Way), {}, programs)'
  <2>1. ASSUME update'[u] = IdleUpdate PROVE Pending(Replay(Way), {}, programs)'
    <3>1. tell \ {e} = {}
      BY <1>12, <1>13, <2>1
    <3> QED
      BY <1>7, <1>9, <1>10, <3>1 DEF Pending
  <2> QED
    BY <2>1
<1>15. ASSUME NEW v \in Updaters, update'[v] \in Announcing
       PROVE  Pending(Replay(Way), update[v].tell, programs)'
  <2>1. v = u /\ update'[u] = new
    BY <1>11, <1>12, <1>13, <1>15
  <2>2. update'[v].tell = tell \ {e}
    BY <1>6, <2>1
  <2> QED
    BY <1>7, <1>9, <1>10, <2>2 DEF Pending
<1>16. \A v \in Updaters : update'[v] \notin Working
  BY <1>11, <1>12, <1>13
<1> QED
  BY <1>7, <1>11, <1>14, <1>15, <1>16 DEF ReplayInv

\* The three transactions: what each announces makes up for what it changed.
LEMMA WriteReplays ==
  ASSUME ReplayInv, StoreInv, NEW u \in Updaters,
         UpsertAll(u) \/ DeleteEnded(u) \/ ReplaceService(u)
  PROVE  ReplayInv'
<1>0. overlapped' = overlapped /\ shortened' = (shortened \/ Shortens(update[u].new))
  BY DEF UpsertAll, DeleteEnded, ReplaceService, Commits
<1> SUFFICES ASSUME ~overlapped, ~shortened, ~Shortens(update[u].new) PROVE ReplayInv'
  BY <1>0 DEF ReplayInv
<1>1. update[u].doing \in {"upsert", "delete", "replace"}
  BY DEF UpsertAll, DeleteEnded, ReplaceService
<1>2. update[u] \in Working
  BY <1>1 DEF StoreInv, IdleUpdate, Announcing
<1>3. PICK new \in Seq(Mention), before \in [ProgramIDs -> ProgramRow] :
        new = update[u].new /\ before = update[u].before
  BY <1>2 DEF Working
<1>4. before = programs /\ Pending(Replay(Way), {}, before) /\ ~Shortens(new)
  BY <1>2, <1>3 DEF ReplayInv
<1>5. /\ Mentioned(new) \subseteq ProgramIDs /\ Len(new) + 1 \in Nat
      /\ \A id \in Mentioned(new) : LastMention(new, id) \in ProgramRow
  <2>1. \A id \in Mentioned(new) : \E i \in DOMAIN new : LastMention(new, id) = new[i].program
    BY LastPlace DEF Mentions
  <2> QED
    BY <2>1, MentionTypes
<1>6. PICK way : way = Replay(Way)
  OBVIOUS
<1>7. NoProgram \in ProgramRow
  BY DEF NoProgram, ProgramRow
<1> HIDE DEF Pending, Removed, Changes, Replacements, InTurn, Shortens, Written, LastMention, Mentioned
<1>8. CASE UpsertAll(u)
  <2> DEFINE rows == [id \in ProgramIDs |-> Written(programs[id], new, id)]
             merged == [id \in Mentioned(new) |->
                          MergeUpsertProgram(before[id], LastMention(new, id))]
  <2>1. DOMAIN merged \subseteq ProgramIDs /\ \A id \in DOMAIN merged : merged[id] \in ProgramRow
    BY <1>5, MergeIsRow
  <2>2. Changes(before, merged) \in SUBSET Telling
    BY <2>1, ChangesAreEvents
  <2>3. \A id \in DOMAIN merged : rows[id] = merged[id]
    BY <1>4, <1>5, WrittenRow
  <2>4. \A id \in ProgramIDs \ DOMAIN merged : rows[id] = before[id]
    BY <1>4, WrittenRow
  <2>5. Commits(u, rows, Changes(before, merged))
    BY <1>3, <1>8 DEF UpsertAll
  <2> HIDE DEF rows, merged
  <2>6. Pending(way, Changes(before, merged), rows)
    BY <1>4, <1>6, <2>3, <2>4, ChangesPending
  <2> QED
    BY <1>2, <1>6, <2>2, <2>5, <2>6, CommitReplays
<1>9. CASE DeleteEnded(u)
  <2> DEFINE rows == [id \in ProgramIDs |-> IF id \in Ended(programs) THEN NoProgram
                                           ELSE programs[id]]
             gone == InTurn(0, {Removed(id) : id \in Ended(before)})
  <2>1. gone \in SUBSET Telling
    BY RemovalsAreEvents DEF Ended
  <2>2. Ended(before) \in SUBSET ProgramIDs /\ Ended(programs) = Ended(before)
    BY <1>4 DEF Ended
  <2>3. \A id \in Ended(before) : rows[id] = NoProgram
    BY <2>2
  <2>4. \A id \in ProgramIDs \ Ended(before) : rows[id] = before[id]
    BY <1>4, <2>2
  <2>5. Commits(u, rows, gone)
    BY <1>3, <1>9 DEF DeleteEnded
  <2> HIDE DEF rows
  <2>6. Pending(way, gone, rows)
    BY <1>4, <1>6, <2>2, <2>3, <2>4, RemovalsPending
  <2> HIDE DEF gone
  <2> QED
    BY <1>2, <1>6, <2>1, <2>5, <2>6, CommitReplays
<1>10. CASE ReplaceService(u)
  <2> DEFINE rows == [id \in ProgramIDs |-> Written(NoProgram, new, id)]
             gone == {id \in ProgramIDs \ Mentioned(new) : before[id] # NoProgram}
             tell == Replacements(before, new)
                       \cup InTurn(Len(new) + 1, {Removed(id) : id \in gone})
  <2>1. gone \in SUBSET ProgramIDs
    OBVIOUS
  <2>2. \A p \in ProgramRow : MergeUpsertProgram(NoProgram, p) = p
    BY DEF MergeUpsertProgram, NoProgram, ProgramRow
  <2>3. \A id \in Mentioned(new) : rows[id] = LastMention(new, id)
    BY <1>4, <1>5, <1>7, <2>2, WrittenRow
  <2>4. \A id \in ProgramIDs \ Mentioned(new) : rows[id] = NoProgram
    BY <1>7, WrittenRow
  <2>5. Commits(u, rows, tell)
    BY <1>3, <1>10 DEF ReplaceService
  <2>6. PICK ids : ids = gone
    OBVIOUS
  <2>7. PICK T : T = Replacements(before, new) \cup InTurn(Len(new) + 1, {Removed(id) : id \in ids})
    OBVIOUS
  <2>8. T = tell
    BY <2>6, <2>7
  <2>9. T \in SUBSET Telling
    BY <1>5, <2>1, <2>6, <2>7, RemovalsAreEvents, ReplacementsAreEvents
  <2> HIDE DEF rows, tell
  <2>10. Pending(way, T, rows)
    BY <1>4, <1>6, <2>3, <2>4, <2>6, <2>7, ReplacementsPending
  <2> QED
    BY <1>2, <1>6, <2>5, <2>8, <2>9, <2>10, CommitReplays
<1> QED
  BY <1>8, <1>9, <1>10

LEMMA ReplayStep ==
  ASSUME ReplayInv, StoreInv, OnceInv, [EventNext]_eventVars
  PROVE  ReplayInv'
<1>0. ASSUME UNCHANGED <<programs, update, batches, published, eventQueue, overlapped, shortened>>
      PROVE  ReplayInv'
  <2>1. Publishing' = Publishing
    BY <1>0 DEF Publishing
  <2>2. Way' = Way
    BY <1>0, <2>1 DEF Way, OnTheWay
  <2>3. ~overlapped' /\ ~shortened' => \A b, c \in batches' : b = c
    BY <1>0 DEF ReplayInv
  <2> QED
    BY <1>0, <2>2, <2>3, SameReplays
<1>1. ASSUME NEW u \in Updaters, BeginUpsert(u) \/ BeginDelete(u) \/ BeginReplace(u)
      PROVE  ReplayInv'
  <2>1. PICK doing \in {"upsert", "delete", "replace"}, new \in Seq(Mention) :
          Begins(u, [doing |-> doing, new |-> new, before |-> programs])
    <3>1. CASE BeginUpsert(u)
      BY <3>1, BatchesAreSequences DEF BeginUpsert
    <3>2. CASE BeginDelete(u)
      <4>1. << >> \in Seq(Mention)
        OBVIOUS
      <4> QED
        BY <3>2, <4>1 DEF BeginDelete
    <3>3. CASE BeginReplace(u)
      BY <3>3, BatchesAreSequences DEF BeginReplace
    <3> QED
      BY <1>1, <3>1, <3>2, <3>3
  <2>2. PICK work \in Working : /\ work = [doing |-> doing, new |-> new, before |-> programs]
                                /\ work.before = programs
    <3>1. PICK work : work = [doing |-> doing, new |-> new, before |-> programs]
      OBVIOUS
    <3>2. work \in Working /\ work.before = programs
      BY <3>1 DEF Working, StoreInv
    <3> QED
      BY <3>1, <3>2
  <2> HIDE DEF Working
  <2> QED
    BY <2>1, <2>2, BeginReplays
<1>2. ASSUME NEW u \in Updaters, UpsertAll(u) \/ DeleteEnded(u) \/ ReplaceService(u) PROVE ReplayInv'
  BY <1>2, WriteReplays
<1>3. ASSUME NEW u \in Updaters, WriteFails(u) \/ EnqueueEvent(u) PROVE ReplayInv'
  BY <1>3, FailReplays, EnqueueReplays
<1>4. CASE TimerFires
  BY <1>0, <1>4 DEF TimerFires, storeVars, hubLogVars
<1>5. CASE FlushTakes
  <2>1. UNCHANGED <<programs, update, shortened>> /\ (~overlapped' => ~overlapped)
    BY <1>5 DEF FlushTakes, storeVars
  <2>2. ASSUME ~overlapped', ~shortened PROVE Way' = Way /\ \A b, c \in batches' : b = c
    <3>1. \A b, c \in batches : b = c
      BY <2>1, <2>2 DEF ReplayInv
    <3> QED
      BY <1>5, <2>2, <3>1, FlushMovesAlong
  <2> QED
    BY <2>1, <2>2, SameReplays
<1>6. CASE PublishEvent
  <2>1. UNCHANGED <<programs, update, overlapped, shortened>>
    BY <1>6 DEF PublishEvent, storeVars
  <2>2. ASSUME ~overlapped, ~shortened PROVE Way' = Way /\ \A b, c \in batches' : b = c
    <3>1. \A b, c \in batches : b = c
      BY <2>2 DEF ReplayInv
    <3> QED
      BY <1>6, <3>1, PublishMovesAlong
  <2> QED
    BY <2>1, <2>2, SameReplays
<1>7. ASSUME NEW c \in EventReaders, Subscribe(c) \/ ReadEvent(c) \/ Unsubscribe(c) PROVE ReplayInv'
  BY <1>0, <1>7 DEF Subscribe, ReadEvent, Unsubscribe, storeVars, timerVars
<1>8. CASE UNCHANGED eventVars
  BY <1>0, <1>8 DEF eventVars
<1> QED
  BY <1>1, <1>2, <1>3, <1>4, <1>5, <1>6, <1>7, <1>8 DEF EventNext

LEMMA NothingToReplay ==
  ASSUME EventInit
  PROVE  ReplayInv
<1>1. /\ published = << >> /\ eventQueue = << >> /\ batches = {}
      /\ \A u \in Updaters : update[u] = IdleUpdate
      /\ \A id \in ProgramIDs : programs[id] = NoProgram
  BY DEF EventInit
<1>2. Way = << >>
  <2>1. << >> \o << >> = << >>
    OBVIOUS
  <2> QED
    BY <1>1, <2>1 DEF Way, OnTheWay, Publishing
<1>3. \A id \in ProgramIDs : Replay(<< >>)[id] = NoProgram
  BY DEF Replay
<1>4. Pending(Replay(Way), {}, programs)
  BY <1>1, <1>2, <1>3 DEF Pending
<1>5. IdleUpdate \notin Working /\ IdleUpdate \notin Announcing
  BY OneThing
<1> HIDE DEF Pending, Working, Announcing, IdleUpdate
<1> QED
  BY <1>1, <1>4, <1>5 DEF ReplayInv

\* While no two operations and no two batches run at once, and no batch takes a field
\* of a program back by mentioning it again without it, a client that applies the
\* events in the order of their publication, and then those on their way, holds the
\* programs table whenever no operation is under way.
THEOREM EventsReplay == EventSpec => []EventsReplayStore
<1>1. EventInit => EventInv /\ ReplayInv
  BY EventInvInit, NothingToReplay
<1>2. EventInv /\ ReplayInv /\ [EventNext]_eventVars => EventInv' /\ ReplayInv'
  BY StoreStep, OnceStep, TimerStep, ReaderStep, ReplayStep DEF EventInv
<1>3. ASSUME EventInv, ReplayInv PROVE EventsReplayStore
  <2> SUFFICES ASSUME ~overlapped, ~shortened, \A u \in Updaters : update[u] = IdleUpdate
               PROVE  Replay(published \o OnTheWay) = programs
    BY DEF EventsReplayStore
  <2>1. Pending(Replay(Way), {}, programs)
    BY <1>3 DEF ReplayInv
  <2>2. \A id \in ProgramIDs : Replay(Way)[id] = programs[id]
    BY <2>1 DEF Pending
  <2>3. programs = [id \in ProgramIDs |-> programs[id]]
    BY <1>3 DEF EventInv, StoreInv
  <2>4. Replay(Way) = [id \in ProgramIDs |-> Replay(Way)[id]]
    BY DEF Replay
  <2> QED
    BY <2>2, <2>3, <2>4, Zenon DEF Way
<1>4. EventInv /\ ReplayInv => EventsReplayStore
  BY <1>3
<1> QED
  BY <1>1, <1>2, <1>4, PTL DEF EventSpec

=============================================================================
