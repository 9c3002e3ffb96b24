-------------------------- MODULE SectionAssembler ---------------------------
(***************************************************************************)
(* SectionAssembler of the transport stream library (ts/section.go): the   *)
(* sections of one PID are put together from the payloads of its packets.  *)
(*                                                                         *)
(* The multiplex is part of the environment: sections follow each other    *)
(* or are followed by stuffing, a section starts only in a packet with the *)
(* payload unit start indicator, whose pointer says where.  Packets may be *)
(* lost and may be sent twice.  A byte of a section is known by its place  *)
(* among the bytes of all sections.  A section's first byte tells its      *)
(* length once the header of HeaderSize bytes is there; the CRC accepts a  *)
(* sequence of bytes if and only if it is one section.                     *)
(***************************************************************************)
EXTENDS Integers, Sequences, SequencesExt

CONSTANTS
    Lengths,       \* lengths of the sections sent, headers included
    SectionCount,  \* bound: sections in the multiplex
    MaxBytes,      \* bound: bytes of all sections
    PayloadSize,   \* bytes of a packet's payload
    CounterLimit,  \* values of the continuity counter
    MaxLosses,     \* bound: packets lost
    MaxRepeats     \* bound: packets sent twice

HeaderSize == 3
Stuffing == 0

\* ValidateCRC refuses what is no longer than a header.
ASSUME AssemblerConstants ==
    /\ PayloadSize \in Nat /\ PayloadSize > HeaderSize /\ CounterLimit \in Nat \ {0}
    /\ Lengths \subseteq {n \in Nat : n > HeaderSize}
    /\ SectionCount \in Nat /\ MaxBytes \in Nat
    /\ MaxLosses \in Nat /\ MaxRepeats \in Nat

VARIABLES
    offsets,      \* the multiplex: how many bytes come before each section, and in all
    carried,     \* the packets sent so far: their last byte, and whether they arrived
    asmBuffer,   \* SectionAssembler.buffer
    lastCounter, \* SectionAssembler.lastCounter
    expecting,   \* SectionAssembler.expecting
    assembled,   \* the sections returned so far
    repeats      \* packets sent twice so far

assemblerVars == <<offsets, carried, asmBuffer, lastCounter, expecting, assembled, repeats>>

-----------------------------------------------------------------------------
(* The multiplex                                                           *)

Multiplexes ==
    {b \in [1 .. SectionCount + 1 -> 0 .. MaxBytes] :
        b[1] = 0 /\ \A n \in 1 .. SectionCount : b[n + 1] - b[n] \in Lengths}

Length(n) == offsets[n + 1] - offsets[n]
Section(n) == [i \in 1 .. Length(n) |-> offsets[n] + i]

\* Byte p is the first of a section, and of which.
Opens(p) == \E n \in 1 .. SectionCount : p = offsets[n] + 1
SectionAt(p) == CHOOSE n \in 1 .. SectionCount : p = offsets[n] + 1

\* A packet with a pointer has one byte less for the sections.
StartsIn(from, to) == {p \in from + 1 .. to : Opens(p)}
Room(from, to) == IF StartsIn(from, to) = {} THEN PayloadSize ELSE PayloadSize - 1

\* The packet of the bytes from + 1 .. to.
Packet(from, to) ==
    LET starts == StartsIn(from, to)
    IN  [start |-> starts # {},
         pointer |-> IF starts = {} THEN 0 ELSE Min(starts) - from - 1,
         cells |-> [i \in 1 .. Room(from, to) |-> IF from + i <= to THEN from + i ELSE Stuffing]]

\* What is behind from fills a packet, or stuffing follows the end of a section.
NextEnds(from) ==
    {to \in from + 1 .. from + PayloadSize :
        /\ to <= offsets[SectionCount + 1] /\ to - from <= Room(from, to)
        /\ to - from < Room(from, to) => \E n \in 1 .. SectionCount : to = offsets[n + 1]}

-----------------------------------------------------------------------------
(* FeedAll                                                                 *)

\* The length that a header announces; bytes that are no header announce something
\* that is not there.
TotalLength(cells) ==
    IF Opens(cells[1]) THEN Length(SectionAt(cells[1])) ELSE Len(cells) + 1

ValidateCRC(cells) == cells = Section(SectionAt(cells[1]))

\* One round of the loop over the sections that bytes begin with: a complete one is
\* taken off, and found if its CRC is right.
TakeOne(s) ==
    LET total == TotalLength(s.left)
        first == SubSeq(s.left, 1, total)
    IN  IF Len(s.left) < HeaderSize \/ Len(s.left) < total THEN s
        ELSE [found |-> IF ValidateCRC(first) THEN Append(s.found, SectionAt(first[1])) ELSE s.found,
              left |-> SubSeq(s.left, total + 1, Len(s.left))]

\* The sections found, and the bytes that are left.
TakeSections(cells) ==
    LET round[n \in 0 .. Len(cells)] ==
            IF n = 0 THEN [found |-> << >>, left |-> cells] ELSE TakeOne(round[n - 1])
    IN  round[Len(cells)]

\* consumePayload: what follows the pointer.  An incomplete section is kept if its
\* header is there; fewer bytes than a header are not kept.
ConsumePayload(cells) ==
    LET t == TakeSections(cells)
        keep == Len(t.left) >= HeaderSize /\ t.left[1] # Stuffing
    IN  [found |-> t.found, buffer |-> IF keep THEN t.left ELSE << >>, expecting |-> keep]

\* Mutant: the bytes before the pointer are not added to the section they end.
FeedAllDropsTail(p, counter) ==
    LET lost == expecting /\ counter # (lastCounter + 1) % CounterLimit
        more == ConsumePayload(SubSeq(p.cells, p.pointer + 1, Len(p.cells)))
    IN  /\ lastCounter' = counter
        /\ IF p.start
           THEN /\ assembled' = assembled \o more.found
                /\ asmBuffer' = more.buffer /\ expecting' = more.expecting
           ELSE IF ~expecting \/ lost
           THEN /\ asmBuffer' = IF lost THEN << >> ELSE asmBuffer
                /\ expecting' = FALSE /\ UNCHANGED assembled
           ELSE LET t == TakeSections(asmBuffer \o p.cells)
                IN  /\ assembled' = assembled \o t.found
                    /\ asmBuffer' = t.left /\ expecting' = (t.left # << >>)

\* FeedAll: a gap of the counter drops the section that is being put together; in a
\* packet with a start the cells before the pointer end it, and the rest is consumed.
FeedAll(p, counter) ==
    LET lost == expecting /\ counter # (lastCounter + 1) % CounterLimit
        buffer == IF lost THEN << >> ELSE asmBuffer
        tail == IF buffer # << >> /\ p.pointer > 0
                THEN TakeSections(buffer \o SubSeq(p.cells, 1, p.pointer)).found ELSE << >>
        more == ConsumePayload(SubSeq(p.cells, p.pointer + 1, Len(p.cells)))
    IN  /\ lastCounter' = counter
        /\ IF p.start
           THEN /\ assembled' = assembled \o tail \o more.found
                /\ asmBuffer' = more.buffer /\ expecting' = more.expecting
           ELSE IF ~expecting \/ lost
           THEN /\ asmBuffer' = buffer /\ expecting' = FALSE /\ UNCHANGED assembled
           ELSE LET t == TakeSections(buffer \o p.cells)
                IN  /\ assembled' = assembled \o t.found
                    /\ asmBuffer' = t.left /\ expecting' = (t.left # << >>)

-----------------------------------------------------------------------------
Counter(i) == i % CounterLimit
EndOf(i) == IF i = 0 THEN 0 ELSE carried[i].to
Sent == EndOf(Len(carried))

AssemblerTypeOK ==
    /\ offsets \in Multiplexes
    /\ carried \in Seq([to : 1 .. MaxBytes, given : BOOLEAN])
    /\ asmBuffer \in Seq(0 .. MaxBytes) /\ assembled \in Seq(1 .. SectionCount)
    /\ lastCounter \in 0 .. CounterLimit - 1 /\ expecting \in BOOLEAN
    /\ repeats \in 0 .. MaxRepeats

AssemblerInit ==
    /\ offsets \in Multiplexes
    /\ carried = << >> /\ asmBuffer = << >> /\ assembled = << >>
    /\ lastCounter = 0 /\ expecting = FALSE /\ repeats = 0

\* The next packet arrives.
FeedPacket ==
    \E to \in NextEnds(Sent) :
        /\ FeedAll(Packet(Sent, to), Counter(Len(carried) + 1))
        /\ carried' = Append(carried, [to |-> to, given |-> TRUE])
        /\ UNCHANGED <<offsets, repeats>>

\* The next packet is lost, or arrives with the transport error indicator.
LosePacket ==
    \E to \in NextEnds(Sent) :
        /\ Len(SelectSeq(carried, LAMBDA p : ~p.given)) < MaxLosses
        /\ carried' = Append(carried, [to |-> to, given |-> FALSE])
        /\ UNCHANGED <<offsets, asmBuffer, lastCounter, expecting, assembled, repeats>>

\* The last packet arrives a second time, as the standard allows.
RepeatPacket ==
    LET i == Len(carried)
    IN  /\ i > 0 /\ carried[i].given /\ repeats < MaxRepeats
        /\ FeedAll(Packet(EndOf(i - 1), Sent), Counter(i))
        /\ repeats' = repeats + 1
        /\ UNCHANGED <<offsets, carried>>

AssemblerNext == FeedPacket \/ LosePacket \/ RepeatPacket

AssemblerSpec == AssemblerInit /\ [][AssemblerNext]_assemblerVars

-----------------------------------------------------------------------------
(* Properties                                                              *)

\* The packets that carry bytes of section n.
CarriersOf(n) ==
    {i \in DOMAIN carried : EndOf(i - 1) < offsets[n + 1] /\ offsets[n] < carried[i].to}

\* The assembler was given every packet of section n.
Arrived(n) == offsets[n + 1] <= Sent /\ \A i \in CarriersOf(n) : carried[i].given

\* A packet boundary goes through the header of section n.
HeaderSplit(n) ==
    \E i \in DOMAIN carried : carried[i].to - offsets[n] \in 1 .. HeaderSize - 1

\* A section of which every packet arrives once is returned exactly once, in its place,
\* whatever was lost before it or after it, and nothing but such sections is returned:
\* the assembler finds the next start again after every loss.  Sections whose header is
\* split between two packets are excepted.
IntactSectionsAssembled ==
    repeats = 0 =>
        LET intact == {n \in 1 .. SectionCount : Arrived(n) /\ ~HeaderSplit(n)}
        IN  /\ \A i, j \in DOMAIN assembled : i < j => assembled[i] < assembled[j]
            /\ {assembled[i] : i \in DOMAIN assembled} = intact

\* FeedAll "returns all complete sections found": of a stream without losses, every
\* section that has arrived.
AllSectionsFound ==
    repeats = 0 /\ (\A i \in DOMAIN carried : carried[i].given) =>
        {n \in 1 .. SectionCount : Arrived(n)} = {assembled[i] : i \in DOMAIN assembled}

=============================================================================
