----------------------------- MODULE MC_DataPath -----------------------------
(***************************************************************************)
(* From the bytes of a tuner to the programme guide and its events, for    *)
(* TLC: the users of a tuner, the demuxer, the assembly of sections, the   *)
(* gate of a programme, the completeness of a schedule, its collection,    *)
(* the events about programs, and the data broadcast.  Each is explored on *)
(* its own: component says which one a behaviour is about, and the others  *)
(* stay in one of their initial states.                                    *)
(***************************************************************************)
EXTENDS TunerManager, Demuxer, SectionAssembler, ProgramGate,
        EITSnapshot, EPGCollection, ProgramEvents, MC_DataBroadcast, TLC

CONSTANTS c1, c2, viewer, v1, v2, s1, s2, u1, u2, reader1

VARIABLE component

-----------------------------------------------------------------------------
(* TunerManager: both tuners receive terrestrial channels, the first also   *)
(* satellite ones; a background job waits for a tuner, and so does a        *)
(* satellite request for which only one of them will do.                    *)

TwoTuners ==
    0 :> [disabled |-> FALSE, usable |-> TRUE, groups |-> {"GR", "BS"}, retryMax |-> 0]
    @@ 1 :> [disabled |-> FALSE, usable |-> TRUE, groups |-> {"GR"}, retryMax |-> 0]
JobAndSatellite ==
    c1 :> [type |-> "GR", priority |-> -1, wait |-> TRUE]
    @@ c2 :> [type |-> "BS", priority |-> 0, wait |-> TRUE]
ViewerPriority == [v \in Viewers |-> 0]

-----------------------------------------------------------------------------
(* Demuxer: one watcher of everything and one of a service that is not there. *)

WantedBy == v1 :> {1, 2} @@ v2 :> {2}

-----------------------------------------------------------------------------
(* EITSnapshot: an edition with two tables, a second one that has moved the *)
(* sections of its first table, and a third with one table only, in which   *)
(* the extended schedule is carried as well.                                *)

Group(last, v0, segments0, v1st, segments1) ==
    [last |-> last, version |-> 0 :> v0 @@ 1 :> v1st,
     segments |-> 0 :> segments0 @@ 1 :> segments1]
NotCarried == Group(-1, 1, <<1>>, 1, <<1>>)
ThreeEditions ==
    <<[basic |-> Group(1, 0, <<1, 2, 1>>, 1, <<1>>), extended |-> NotCarried],
      [basic |-> Group(1, 2, <<2, 1>>, 1, <<1>>), extended |-> NotCarried],
      [basic |-> Group(0, 3, <<1>>, 1, <<1>>), extended |-> Group(0, 2, <<1>>, 1, <<1>>)]>>

-----------------------------------------------------------------------------
(* ProgramEvents: a programme that has ended, with its name, and a later    *)
(* one without.                                                             *)

TwoPrograms == {[at |-> 1, name |-> 1], [at |-> 2, name |-> 0]}

\* The statement of the store: a field that it does not carry keeps its value.
Coalesce(row, new) ==
    IF new.name = 0 THEN [new EXCEPT !.name = row.name] ELSE new

\* What a batch makes of a row is what its statements make of it, one by one.
ASSUME WrittenRowByRow ==
    LET names == {[at |-> 1, name |-> n] : n \in 0 .. 2}
    IN  \A n \in 0 .. 3, row \in names \cup {NoProgram} :
          \A said \in [1 .. n -> [id : {1, 2}, program : TwoPrograms \cup names]] :
            Written(row, said, 1) =
              FoldLeft(LAMBDA r, m : IF m.id = 1 THEN Coalesce(r, m.program) ELSE r, row, said)

-----------------------------------------------------------------------------
dataVars == <<vars, demuxVars, assemblerVars, gateVars, snapshotVars,
              epgVars, eventVars, broadcastVars, component>>

DataInit ==
    /\ component \in {"tuners", "demuxer", "assembler", "gate", "snapshot",
                      "collection", "events", "broadcast"}
    /\ Init /\ DemuxInit /\ AssemblerInit /\ GateInit /\ SnapshotInit
    /\ EPGInit /\ EventInit /\ BroadcastInit
    /\ component # "assembler" =>
         \A n \in 1 .. SectionCount : Length(n) = Min(Lengths)
    /\ component # "gate" => stopTimer = Min(Timeouts)
    /\ component # "broadcast" => persistent

TunersMove ==
    /\ component = "tuners" /\ Next
    /\ UNCHANGED <<demuxVars, assemblerVars, gateVars, snapshotVars, epgVars, eventVars, broadcastVars>>
DemuxerMoves ==
    /\ component = "demuxer" /\ DemuxNext
    /\ UNCHANGED <<vars, assemblerVars, gateVars, snapshotVars, epgVars, eventVars, broadcastVars>>
AssemblerMoves ==
    /\ component = "assembler" /\ AssemblerNext
    /\ UNCHANGED <<vars, demuxVars, gateVars, snapshotVars, epgVars, eventVars, broadcastVars>>
GateMoves ==
    /\ component = "gate" /\ GateNext
    /\ UNCHANGED <<vars, demuxVars, assemblerVars, snapshotVars, epgVars, eventVars, broadcastVars>>
SnapshotMoves ==
    /\ component = "snapshot" /\ SnapshotNext
    /\ UNCHANGED <<vars, demuxVars, assemblerVars, gateVars, epgVars, eventVars, broadcastVars>>
CollectionMoves ==
    /\ component = "collection" /\ EPGNext
    /\ UNCHANGED <<vars, demuxVars, assemblerVars, gateVars, snapshotVars, eventVars, broadcastVars>>
EventsMove ==
    /\ component = "events" /\ EventNext
    /\ UNCHANGED <<vars, demuxVars, assemblerVars, gateVars, snapshotVars, epgVars, broadcastVars>>

BroadcastMoves ==
    /\ component = "broadcast" /\ BroadcastNext
    /\ UNCHANGED <<vars, demuxVars, assemblerVars, gateVars, snapshotVars, epgVars, eventVars>>

DataNext ==
    /\ \/ TunersMove \/ DemuxerMoves \/ AssemblerMoves \/ GateMoves
       \/ SnapshotMoves \/ CollectionMoves \/ EventsMove \/ BroadcastMoves
    /\ UNCHANGED component

DataSpec == DataInit /\ [][DataNext]_dataVars
=============================================================================
