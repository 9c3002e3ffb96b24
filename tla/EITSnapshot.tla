---------------------------- MODULE EITSnapshot ----------------------------
(***************************************************************************)
(* When an EPG collection believes it has a service's whole schedule       *)
(* (internal/epg/snapshot.go: Observe, observeReady, reset, ready).        *)
(*                                                                         *)
(* A schedule is carried by groups of tables; a table has sections,        *)
(* grouped in segments.  Each section says which is the last table of its  *)
(* group, the last section of its table and the last section of its        *)
(* segment; that is all the receiver knows of what it has not yet seen.    *)
(* The broadcaster repeats its sections in any order and may put a new     *)
(* edition on the air at any time: a table whose content changes gets      *)
(* another version number.  The segments of the first table before the     *)
(* current time of day need not be collected.                              *)
(*                                                                         *)
(* The geometry (8 tables of 32 segments of 8 sections) is a parameter,    *)
(* and so are the editions.  One service is modelled: the code keeps       *)
(* nothing across services except the time of the last progress.           *)
(***************************************************************************)
EXTENDS Integers, Sequences, FiniteSets

CONSTANTS
  Groups,         \* groups of tables: "basic" and "extended"
  LastTable,      \* highest table index of a group (7 in the code)
  LastSegment,    \* highest segment of a table (31 in the code)
  SegmentSize,    \* sections of a segment (8 in the code)
  Editions,       \* what the broadcaster carries: a sequence of editions
  Versions        \* version numbers

TableIDs == 0..LastTable
SegmentIDs == 0..LastSegment

(* Of every group an edition fixes the last table and, for every table up   *)
(* to it, the version and the number of sections of each segment in use; a  *)
(* group that is not carried has last = -1.                                 *)
Edition ==
  [Groups -> [last : -1..LastTable,
              version : [TableIDs -> Versions],
              segments : [TableIDs -> UNION {[1..n -> 1..SegmentSize] : n \in 1..LastSegment + 1}]]]

(* A broadcaster that changes a table's content, or the last table that     *)
(* every section of the group carries, changes the version.                 *)
ASSUME EITSnapshotAssumption ==
  /\ LastTable \in Nat /\ LastSegment \in Nat /\ SegmentSize \in Nat \ {0}
  /\ Versions \subseteq Nat
  /\ Editions \in Seq(Edition) /\ Editions # << >>
  /\ \A i, j \in 1..Len(Editions), g \in Groups : \A t \in TableIDs :
       Editions[i][g].version[t] = Editions[j][g].version[t] =>
         Editions[i][g].segments[t] = Editions[j][g].segments[t]
         /\ (t <= Editions[i][g].last /\ t <= Editions[j][g].last
               => Editions[i][g].last = Editions[j][g].last)

VARIABLES
  onAir,          \* the edition being broadcast
  hourSegment,    \* currentJSTSegment of the broadcast clock
  sectionVersions,\* snapshotTable.sectionVersions, of every table
  readyGroup      \* snapshotService.readyGroups; none before its first section

snapshotVars == <<onAir, hourSegment, sectionVersions, readyGroup>>

SectionIDs == SegmentIDs \X (1..SegmentSize)
NoVersion == -1
NoGroup == [last |-> -1, flags |-> <<>>]

\* snapshotReadyFlag: a set stands for the bits that are one.
ClearFlag == [observed |-> FALSE, version |-> 0, flag |-> {}, ignore |-> {}]
IgnoredFlag == [ClearFlag EXCEPT !.ignore = SectionIDs]

SnapshotInit ==
  /\ onAir = 1
  /\ hourSegment = 0
  /\ sectionVersions = [g \in Groups |-> [t \in TableIDs |-> [s \in SectionIDs |-> NoVersion]]]
  /\ readyGroup = [g \in Groups |-> NoGroup]

\* Mutant: the reset spares the tables that were already collected.
ResetSparesObserved(last, flags) ==
  [t \in TableIDs |-> IF flags[t].observed THEN flags[t]
                      ELSE IF t <= last THEN ClearFlag ELSE IgnoredFlag]

\* snapshotReadyGroup.reset: everything up to the last table is required again.
Reset(last, flags) ==
  [t \in TableIDs |-> IF t <= last THEN ClearFlag ELSE IgnoredFlag]

\* The flag of the section's table, once the group's flags are as they should be.
ObservedFlag(f, t, last, version, segment, section) ==
  [observed |-> TRUE,
   version |-> version,
   flag |-> f.flag \cup {<<segment, section>>},
   ignore |-> f.ignore
     \cup (IF t = 0 THEN {s \in SectionIDs : s[1] < hourSegment} ELSE {})
     \cup {s \in SectionIDs : s[1] > last.segment}
     \cup {s \in SectionIDs : s[1] = segment /\ s[2] > last.section}]

(* Observe: the section is stored under its number, and observeReady takes  *)
(* it into account.                                                         *)
Observe(g, t, segment, section) ==
  LET on == Editions[onAir][g]
      version == on.version[t]
      last == [segment |-> Len(on.segments[t]) - 1, section |-> on.segments[t][segment + 1]]
      group == IF readyGroup[g] = NoGroup
               THEN [last |-> -1, flags |-> [i \in TableIDs |-> IgnoredFlag]]
               ELSE readyGroup[g]
      target == group.flags[t]
      flags == IF \/ group.last # on.last
                  \/ target.observed /\ target.version # version
               THEN Reset(on.last, group.flags)
               ELSE group.flags IN
  /\ sectionVersions' = [sectionVersions EXCEPT ![g][t][<<segment, section>>] = version]
  /\ readyGroup' = [readyGroup EXCEPT ![g] =
       [last |-> on.last,
        flags |-> [flags EXCEPT ![t] =
                     ObservedFlag(flags[t], t, last, version, segment, section)]]]
  /\ UNCHANGED <<onAir, hourSegment>>

\* External: the broadcaster sends some section of the edition on the air.
SectionArrives ==
  \E g \in Groups : \E t \in 0..Editions[onAir][g].last :
    \E segment \in 0..Len(Editions[onAir][g].segments[t]) - 1 :
      \E section \in 1..Editions[onAir][g].segments[t][segment + 1] :
        Observe(g, t, segment, section)

\* External: the next edition goes on the air.
EditionChanges ==
  /\ onAir < Len(Editions)
  /\ onAir' = onAir + 1
  /\ UNCHANGED <<hourSegment, sectionVersions, readyGroup>>

\* External: the broadcast clock moves on, within the day.
ClockAdvances ==
  /\ hourSegment < LastSegment
  /\ hourSegment' = hourSegment + 1
  /\ UNCHANGED <<onAir, sectionVersions, readyGroup>>

SnapshotNext == SectionArrives \/ EditionChanges \/ ClockAdvances

SnapshotSpec == SnapshotInit /\ [][SnapshotNext]_snapshotVars

-----------------------------------------------------------------------------
\* snapshotReadyGroup.ready.
Ready(group) ==
  /\ group # NoGroup
  /\ \A t \in TableIDs : group.flags[t].flag \cup group.flags[t].ignore = SectionIDs

SnapshotTypeOK ==
  /\ onAir \in 1..Len(Editions) /\ hourSegment \in SegmentIDs
  /\ \A g \in Groups : readyGroup[g] # NoGroup =>
       /\ readyGroup[g].last \in TableIDs
       /\ \A t \in TableIDs : readyGroup[g].flags[t] \in
            [observed : BOOLEAN, version : Versions \cup {0},
             flag : SUBSET SectionIDs, ignore : SUBSET SectionIDs]

\* The sections a table has in the edition, but for the past of the first table.
Required(e, g, t) ==
  {s \in SectionIDs :
     /\ s[1] < Len(Editions[e][g].segments[t])
     /\ s[2] <= Editions[e][g].segments[t][s[1] + 1]
     /\ t = 0 => s[1] >= hourSegment}

(* When a group counts as ready and the collection may stop, there is one   *)
(* last table and one version of every table up to it, such that each       *)
(* section these tables have, but for the hours already past, is stored in  *)
(* that version: a section of an earlier edition never stands in for one    *)
(* that was not received since, although Observe keeps the old sections and *)
(* learns of each segment only from its own sections (snapshot.go 70-185,   *)
(* 207-252).                                                                *)
ReadyMeansComplete ==
  \A g \in Groups : Ready(readyGroup[g]) =>
    LET group == readyGroup[g] IN
    \A t \in 0..group.last :
      \E e \in 1..onAir :
        /\ Editions[e][g].last = group.last
        /\ Editions[e][g].version[t] = group.flags[t].version
        /\ \A s \in Required(e, g, t) : sectionVersions[g][t][s] = group.flags[t].version
=============================================================================
