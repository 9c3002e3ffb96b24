--------------------------- MODULE DSMCCCarousel ----------------------------
(***************************************************************************)
(* The data carousel of the transport stream library                       *)
(* (ts/dsmcc_carousel.go), as operators on its value.  A DII announces     *)
(* modules, DDBs carry their blocks; modules in assembly and completed     *)
(* ones have budgets of their own, and the oldest make room.               *)
(*                                                                         *)
(* A carousel keeps its modules in the order of their generation, which    *)
(* is only ever compared.  A byte of a module's data is Blank or names the *)
(* download and version it came with.  A block is as long as its place in  *)
(* the module asks for.                                                    *)
(***************************************************************************)
EXTENDS Integers, Sequences, FiniteSets, FiniteSetsExt, SequencesExt

CONSTANTS
    MaxModuleSize,     \* DSMCCCarouselLimits
    MaxCompletedBytes,
    MaxInFlightBytes

ASSUME CarouselLimits ==
    /\ MaxModuleSize \in Nat /\ MaxCompletedBytes \in Nat /\ MaxInFlightBytes \in Nat

Blank == << >>

NewCarousel == [modules |-> << >>, rejected |-> {}, completed |-> 0, inFlight |-> 0]

Announced(c, id) == \E s \in Range(c.modules) : s.id = id
ModuleState(c, id) == CHOOSE s \in Range(c.modules) : s.id = id
SetModule(c, s) ==
    [c EXCEPT !.modules = [i \in DOMAIN @ |-> IF @[i].id = s.id THEN s ELSE @[i]]]

\* What reaches a caller of Module: the identity of a module and its bytes.
Payload(s) == [id |-> s.id, download |-> s.download, version |-> s.version,
               size |-> s.size, data |-> s.data]

-----------------------------------------------------------------------------
(* Accounts: remove, and the loops that evict the oldest.                   *)

\* The elements of a sequence that are at the given places, in their order.
ElementsAt(s, places) ==
    [n \in 1 .. Cardinality(places) |->
        s[CHOOSE i \in places : Cardinality({k \in places : k < i}) = n - 1]]

\* A byte is counted under its module and its place in it.
SizesOf(states) == Cardinality(UNION {{s.id} \X (1 .. s.size) : s \in states})
BytesOf(states) == Cardinality(UNION {{s.id} \X (1 .. Len(s.data)) : s \in states})

\* Mutant: a payload that was released is subtracted again.
RemoveWholeSize(c, ids) ==
    LET gone == {s \in Range(c.modules) : s.id \in ids}
    IN  IF gone = {} THEN c
        ELSE [c EXCEPT !.modules = ElementsAt(@, {i \in DOMAIN @ : @[i].id \notin ids}),
                       !.completed = @ - SizesOf({s \in gone : s.done}),
                       !.inFlight = @ - SizesOf({s \in gone : ~s.done})]

RemoveModules(c, ids) ==
    LET gone == {s \in Range(c.modules) : s.id \in ids}
    IN  IF gone = {} THEN c
        ELSE [c EXCEPT !.modules = ElementsAt(@, {i \in DOMAIN @ : @[i].id \notin ids}),
                       !.completed = @ - BytesOf({s \in gone : s.done}),
                       !.inFlight = @ - SizesOf({s \in gone : ~s.done})]

\* evictOldestInFlight, repeated until size more bytes fit: a module goes when they
\* do not fit although all the older ones are gone.
EvictInFlight(c, size) ==
    LET Open(n) == {i \in 1 .. n : ~c.modules[i].done}
        Freed(n) == SizesOf({c.modules[i] : i \in Open(n - 1)})
        Gone == {i \in Open(Len(c.modules)) : c.inFlight - Freed(i) + size > MaxInFlightBytes}
    IN  IF c.inFlight + size <= MaxInFlightBytes THEN c
        ELSE RemoveModules(c, {c.modules[i].id : i \in Gone})

\* evictOldestCompletedExcept, likewise, until the completed bytes are within budget.
EvictCompleted(c, except) ==
    LET Idle(n) == {i \in 1 .. n : /\ c.modules[i].done /\ c.modules[i].data # << >>
                                   /\ c.modules[i].id # except}
        Freed(n) == BytesOf({c.modules[i] : i \in Idle(n - 1)})
        Gone == {i \in Idle(Len(c.modules)) : c.completed - Freed(i) > MaxCompletedBytes}
    IN  IF c.completed <= MaxCompletedBytes THEN c
        ELSE RemoveModules(c, {c.modules[i].id : i \in Gone})

-----------------------------------------------------------------------------
(* ObserveDII                                                               *)

BlockCount(size, blockSize) == (size + blockSize - 1) \div blockSize

Reject(c, m, reason) ==
    [RemoveModules(c, {m.id}) EXCEPT
        !.rejected = {r \in @ : r.id # m.id}
                     \cup {[id |-> m.id, version |-> m.version, reason |-> reason]}]

SameModule(s, dii, m) ==
    /\ s.download = dii.download /\ s.version = m.version
    /\ s.size = m.size /\ s.blockSize = dii.blockSize

\* A module that is new or has changed is allocated afresh, if it fits.
AllocateIn(room, dii, m) ==
    LET state == [id |-> m.id, download |-> dii.download, version |-> m.version,
                  size |-> m.size, blockSize |-> dii.blockSize,
                  data |-> [i \in 1 .. m.size |-> Blank], received |-> {}, done |-> FALSE]
    IN  IF room.inFlight + m.size > MaxInFlightBytes THEN Reject(room, m, "inFlightBudgetExceeded")
        ELSE [room EXCEPT !.modules = Append(@, state), !.inFlight = @ + m.size]

Allocate(c, dii, m) ==
    IF m.size > MaxInFlightBytes THEN Reject(c, m, "inFlightBudgetExceeded")
    ELSE AllocateIn(EvictInFlight(RemoveModules(c, {m.id}), m.size), dii, m)

\* Why a module is not even looked up.
Refusal(dii, m) ==
    CASE m.size = 0 -> "moduleSizeZero"
      [] m.size > 0 /\ dii.blockSize = 0 -> "blockSizeZero"
      [] dii.blockSize > 0 /\ m.size > MaxModuleSize -> "moduleSizeLimitExceeded"
      [] OTHER -> "none"

\* One round of the loop over the modules of a DII.
AnnounceModule(c, dii, m) ==
    LET known == [c EXCEPT !.rejected = {r \in @ : r.id # m.id}]
    IN  IF Refusal(dii, m) # "none" THEN Reject(c, m, Refusal(dii, m))
        ELSE IF Announced(c, m.id) /\ SameModule(ModuleState(c, m.id), dii, m) THEN known
        ELSE Allocate(known, dii, m)

\* What one round leaves: ObserveDII returns the modules that were accepted in their
\* round, even if a later one evicted them.
Collect(accepted, c, m) ==
    [carousel |-> c, accepted |-> IF Announced(c, m.id) THEN Append(accepted, m) ELSE accepted]

\* Modules that a DII does not list are dropped.
KeepListed(c, ids) ==
    [RemoveModules(c, {s.id : s \in Range(c.modules)} \ ids) EXCEPT
        !.rejected = {r \in @ : r.id \in ids}]

\* The carousel after a DII, and what ObserveDII returns.
CarouselDII(c, dii) ==
    LET round[n \in 0 .. Len(dii.modules)] ==
            IF n = 0 THEN [carousel |-> c, accepted |-> << >>]
            ELSE LET m == dii.modules[n]
                     before == round[n - 1]
                 IN  Collect(before.accepted, AnnounceModule(before.carousel, dii, m), m)
        last == round[Len(dii.modules)]
    IN  [last EXCEPT !.carousel = KeepListed(@, {m.id : m \in Range(dii.modules)})]

-----------------------------------------------------------------------------
(* ObserveDDBWithResult, Restore, ReleaseCompletedPayload, Module           *)

\* A module has all its bytes: the budgets are moved, older modules make room, and if
\* that is not enough the module itself goes.
DropIfOver(c, id) == IF c.completed > MaxCompletedBytes THEN RemoveModules(c, {id}) ELSE c

CompleteModule(c, s) ==
    DropIfOver(EvictCompleted([SetModule(c, [s EXCEPT !.received = {}, !.done = TRUE]) EXCEPT
                                   !.inFlight = @ - s.size, !.completed = @ + s.size], s.id), s.id)

\* Mutant: the version of a block is not compared.
BelongsToDownload(s, ddb) == ~s.done /\ s.download = ddb.download

\* A block is for the module as it is announced now, and not for an earlier one.
BelongsTo(s, ddb) ==
    ~s.done /\ s.download = ddb.download /\ s.version = ddb.version

\* The block is copied to its place.
Filled(s, ddb) ==
    LET off == ddb.block * s.blockSize
    IN  [s EXCEPT !.received = @ \cup {ddb.block},
                  !.data = [i \in DOMAIN @ |-> IF i \in off + 1 .. off + s.blockSize
                                               THEN <<ddb.download, ddb.version>> ELSE @[i]]]

StoreBlock(c, s, ddb) ==
    IF ~BelongsTo(s, ddb) \/ ddb.block >= BlockCount(s.size, s.blockSize) THEN c
    ELSE IF Cardinality(s.received \cup {ddb.block}) < BlockCount(s.size, s.blockSize)
         THEN SetModule(c, Filled(s, ddb))
         ELSE CompleteModule(c, Filled(s, ddb))

CarouselDDB(c, ddb) ==
    IF Announced(c, ddb.id) THEN StoreBlock(c, ModuleState(c, ddb.id), ddb) ELSE c

MayRestore(c, m) ==
    /\ Announced(c, m.id)
    /\ LET s == ModuleState(c, m.id)
       IN  /\ ~s.done /\ s.download = m.download /\ s.version = m.version
           /\ s.size = m.size /\ Len(m.data) = m.size

Restore(c, m) == CompleteModule(c, [ModuleState(c, m.id) EXCEPT !.data = m.data])

IsComplete(c, id) == Announced(c, id) /\ ModuleState(c, id).done

\* Module: a completed module whose bytes are still here.
HasPayload(c, id) ==
    IsComplete(c, id) /\ Len(ModuleState(c, id).data) = ModuleState(c, id).size

ReleaseCompletedPayload(c, id) ==
    IF HasPayload(c, id)
    THEN [SetModule(c, [ModuleState(c, id) EXCEPT !.data = << >>]) EXCEPT
             !.completed = @ - Len(ModuleState(c, id).data)]
    ELSE c

=============================================================================
