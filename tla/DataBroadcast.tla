---------------------------- MODULE DataBroadcast ----------------------------
(***************************************************************************)
(* The data broadcast of a session (internal/stream/databroadcast): the    *)
(* hub, which follows the carousel of a component and tells subscribers    *)
(* what changes, and the store of completed modules, which it shares with  *)
(* the other sessions.                                                     *)
(*                                                                         *)
(* Every method of the hub holds its lock and is one action.  One service  *)
(* with one component is modelled: the hub keeps everything per service    *)
(* and component but the store.  Blocks wait in queues before they reach   *)
(* the hub (SectionUpdates), so that those of an earlier DII may come      *)
(* late.  The store is ModuleCache, or SQLiteModuleStore (persistent),     *)
(* whose modules outlive the payload in the carousel; its expiry and the   *)
(* resolution of its clock leave open which modules it prunes.             *)
(***************************************************************************)
EXTENDS DSMCCCarousel

CONSTANTS
    DIIs,         \* what is announced: [download, blockSize, modules]
    PMTs,         \* [version, carousel]: whether the component is there
    Listeners,    \* subscribers
    EventBuffer,  \* dataBroadcastSubscriberBuffer
    StoreBytes,   \* its maxBytes
    MaxEvents     \* bound: events of the service

NoDII == << >>
NoPMT == [version |-> 0, carousel |-> FALSE]
Modules == UNION {{[id |-> m.id, download |-> d.download, version |-> m.version]
                   : m \in Range(d.modules)} : d \in DIIs}
DDBs == UNION {UNION {{[id |-> m.id, download |-> d.download, version |-> m.version, block |-> b]
                       : b \in 0 .. BlockCount(m.size, d.blockSize) - 1}
                      : m \in Range(d.modules)}
               : d \in {e \in DIIs : e.blockSize # 0}}

ASSUME DataBroadcastConstants ==
    /\ EventBuffer \in Nat \ {0} /\ StoreBytes \in Nat /\ MaxEvents \in Nat
    /\ NoPMT \notin PMTs
    /\ \A d \in DIIs : /\ d.blockSize \in Nat /\ d.modules \in Seq(Range(d.modules))
                       /\ \A m \in Range(d.modules) : m.size \in Nat
                       /\ \A i, j \in DOMAIN d.modules :
                              d.modules[i].id = d.modules[j].id => i = j

VARIABLES
    pmt,         \* service.pmt
    diiSection,  \* service.diiSections of the component
    carousel,    \* its carousel
    sequence,    \* service.sequence
    listed,      \* h.subs has an entry for the service
    listener,    \* "off", "open", or "closed" after an overflow
    events,      \* the channel of each subscriber
    heard,       \* the last sequence number it has received, or had at its snapshot
    persistent,  \* the store is SQLiteModuleStore; fixed when the hub is made
    store        \* completed modules, the least recently used first

broadcastVars == <<pmt, diiSection, carousel, sequence, listed, listener,
                   events, heard, persistent, store>>

BroadcastInit ==
    /\ pmt = NoPMT /\ diiSection = NoDII /\ carousel = NewCarousel
    /\ sequence = 0 /\ listed = FALSE
    /\ listener = [s \in Listeners |-> "off"]
    /\ events = [s \in Listeners |-> << >>]
    /\ heard = [s \in Listeners |-> 0]
    /\ persistent \in BOOLEAN /\ store = << >>

-----------------------------------------------------------------------------
(* The store                                                                *)

KeyOf(m) == [id |-> m.id, download |-> m.download, version |-> m.version]
StoredBytes(modules) == Cardinality(UNION {{m} \X (1 .. Len(m.data)) : m \in Range(modules)})

Others(modules, m) == ElementsAt(modules, {i \in DOMAIN modules : modules[i] # m})
Touched(modules, m) == Append(Others(modules, m), m)

\* Get: the key has the size, too.
Find(modules, key, size) ==
    {m \in Range(modules) : KeyOf(m) = key /\ m.size = size}

\* GetVersion refuses to choose between modules of different size.
FindVersion(modules, key) ==
    LET found == {m \in Range(modules) : KeyOf(m) = key}
    IN  IF Cardinality(found) = 1 THEN found ELSE {}

\* Put replaces a module of the same key and size.
Replaced(modules, m) ==
    Append(ElementsAt(modules, {i \in DOMAIN modules :
                                    KeyOf(modules[i]) # KeyOf(m) \/ modules[i].size # m.size}), m)

\* ModuleCache.Put: the newest modules that fit are kept.
CachePut(modules, m) ==
    LET new == Replaced(modules, m)
        Fits(i) == StoredBytes(SubSeq(new, i, Len(new))) <= StoreBytes
        first == Min({i \in DOMAIN new : Fits(i)})
    IN  SubSeq(new, first, Len(new))

\* SQLiteModuleStore.Put: an error before the commit leaves the modules as they were;
\* after it prune may remove any of them, and Put asks whether the new one is still there.
SQLitePuts(modules, m) ==
    LET new == Replaced(modules, m)
        Kept(K) == ElementsAt(new, {i \in DOMAIN new : new[i] \in K})
    IN  {[store |-> modules, ok |-> FALSE]} \cup
        {[store |-> Kept(K), ok |-> FALSE] : K \in SUBSET Range(new)} \cup
        {[store |-> Kept(K \cup {m}), ok |-> TRUE] : K \in SUBSET Range(new)}

\* What Put may do: the store it leaves, and what it returns.
Puts(modules, m) ==
    IF Len(m.data) > StoreBytes THEN {[store |-> modules, ok |-> FALSE]}
    ELSE IF persistent THEN SQLitePuts(modules, m)
    ELSE {[store |-> CachePut(modules, m), ok |-> TRUE]}

-----------------------------------------------------------------------------
(* Events: of their contents only the type is kept.                         *)

\* Mutant: an event that does not fit is dropped, and the subscriber stays.
BroadcastDrops(batch) ==
    LET numbered == [i \in 1 .. Len(batch) |-> [number |-> sequence + i, type |-> batch[i]]]
        Fits(s) == IF Len(events[s]) + Len(batch) > EventBuffer THEN EventBuffer - Len(events[s])
                   ELSE Len(batch)
    IN  /\ Len(batch) \in 0 .. MaxEvents - sequence
        /\ sequence' = sequence + Len(batch)
        /\ events' = [s \in Listeners |-> IF listener[s] # "open" THEN events[s]
                                          ELSE events[s] \o SubSeq(numbered, 1, Fits(s))]
        /\ UNCHANGED listener

\* broadcastLocked for each event of a batch: events are numbered, and a subscriber
\* whose channel is full is closed and taken off the list.
Broadcast(batch) ==
    LET numbered == [i \in 1 .. Len(batch) |-> [number |-> sequence + i, type |-> batch[i]]]
        Room(s) == EventBuffer - Len(events[s])
    IN  /\ Len(batch) \in 0 .. MaxEvents - sequence
        /\ sequence' = sequence + Len(batch)
        /\ events' = [s \in Listeners |->
                         IF listener[s] # "open" THEN events[s]
                         ELSE events[s] \o SubSeq(numbered, 1, Min({Room(s), Len(batch)}))]
        /\ listener' = [s \in Listeners |->
                           IF listener[s] = "open" /\ Room(s) < Len(batch) THEN "closed"
                           ELSE listener[s]]

-----------------------------------------------------------------------------
(* Observe and ObservePacket                                                *)

\* observePMT: a component that is gone loses its carousel.
ObservePMT(p) ==
    /\ p # pmt
    /\ pmt' = p
    /\ carousel' = IF p.carousel THEN carousel ELSE NewCarousel
    /\ Broadcast(<<"pmt">>)
    /\ UNCHANGED <<persistent, diiSection, listed, heard, store>>

\* The loop of observeDII over the accepted modules: one that the store has is restored
\* and announced, and its payload let go again when the store is persistent.
AnnounceRestored(acc, id) ==
    IF ~IsComplete(acc.carousel, id) THEN acc
    ELSE [acc EXCEPT !.events = Append(@, "moduleUpdated"),
                     !.carousel = IF persistent THEN ReleaseCompletedPayload(@, id) ELSE @]

RestoreModule(acc, m, download) ==
    LET key == [id |-> m.id, download |-> download, version |-> m.version]
        found == Find(acc.store, key, m.size)
        cached == CHOOSE f \in found : TRUE
    IN  IF found = {} THEN acc
        ELSE IF ~MayRestore(acc.carousel, cached)
             THEN [acc EXCEPT !.store = Touched(@, cached)]
             ELSE AnnounceRestored([acc EXCEPT !.store = Touched(@, cached),
                                               !.carousel = Restore(@, cached)], m.id)

RestoreAll(observed, download) ==
    LET round[n \in 0 .. Len(observed.accepted)] ==
            IF n = 0 THEN [carousel |-> observed.carousel, store |-> store,
                           events |-> <<"moduleListUpdated">>]
            ELSE RestoreModule(round[n - 1], observed.accepted[n], download)
    IN  round[Len(observed.accepted)]

ObserveDII(dii) ==
    /\ pmt.carousel
    /\ dii # diiSection
    /\ diiSection' = dii
    /\ \E end \in {RestoreAll(CarouselDII(carousel, dii), dii.download)} :
          /\ carousel' = end.carousel
          /\ store' = end.store
          /\ Broadcast(end.events)
    /\ UNCHANGED <<persistent, pmt, listed, heard>>

\* A block completed its module, which is put into the store and announced.
ModuleCompleted(after, s) ==
    /\ \E put \in Puts(store, Payload(s)) :
          /\ store' = put.store
          /\ carousel' = IF persistent /\ put.ok THEN ReleaseCompletedPayload(after, s.id) ELSE after
    /\ Broadcast(<<"moduleUpdated">>)

ObserveDDB(ddb) ==
    /\ pmt.carousel
    /\ \E after \in {CarouselDDB(carousel, ddb)} :
          IF IsComplete(after, ddb.id) /\ ~IsComplete(carousel, ddb.id)
          THEN ModuleCompleted(after, ModuleState(after, ddb.id))
          ELSE carousel' = after /\ UNCHANGED <<store, sequence, events, listener>>
    /\ UNCHANGED <<persistent, pmt, diiSection, listed, heard>>

\* Everything else is only passed on.
PassOn(type) ==
    /\ Broadcast(<<type>>)
    /\ UNCHANGED <<persistent, pmt, diiSection, carousel, listed, heard, store>>

ObserveEIT == PassOn("programInfo")
\* To a service that is known, of a component that is there, to a service that is listed,
\* and of a service whose PMT names the clock.
ObserveTOT == sequence > 0 /\ PassOn("currentTime")
ObserveES == pmt.carousel /\ PassOn("esEventUpdated")
ObserveBIT == listed /\ PassOn("bit")
ObservePacket == pmt # NoPMT /\ PassOn("pcr")

-----------------------------------------------------------------------------
(* Subscribers, requests for modules, and the other sessions                *)

\* The snapshot that a subscriber starts from is up to the last event.
SubscribeEvents(s) ==
    /\ listener[s] = "off"
    /\ listener' = [listener EXCEPT ![s] = "open"]
    /\ listed' = TRUE
    /\ heard' = [heard EXCEPT ![s] = sequence]
    /\ events' = [events EXCEPT ![s] = << >>]
    /\ UNCHANGED <<persistent, pmt, diiSection, carousel, sequence, store>>

\* The client takes the next event.
Receive(s) ==
    /\ events[s] # << >>
    /\ events' = [events EXCEPT ![s] = Tail(@)]
    /\ heard' = [heard EXCEPT ![s] = Head(events[s]).number]
    /\ UNCHANGED <<persistent, pmt, diiSection, carousel, sequence, listed, listener, store>>

\* unsubscribe; one that was closed is not on the list any more, and does not clear it.
UnsubscribeEvents(s) ==
    /\ listener[s] # "off"
    /\ listener' = [listener EXCEPT ![s] = "off"]
    /\ listed' = IF listener[s] = "open" THEN \E t \in Listeners \ {s} : listener[t] = "open"
                 ELSE listed
    /\ events' = [events EXCEPT ![s] = << >>]
    /\ heard' = [heard EXCEPT ![s] = 0]
    /\ UNCHANGED <<persistent, pmt, diiSection, carousel, sequence, store>>

\* The carousel itself has the module that is asked for.
IsLive(key) == HasPayload(carousel, key.id) /\ KeyOf(ModuleState(carousel, key.id)) = key

\* ModuleVersion: the live module if it is the one asked for, otherwise the stored one.
ModuleVersion(key) ==
    CASE ~pmt.carousel -> {}
      [] pmt.carousel /\ IsLive(key) -> {Payload(ModuleState(carousel, key.id))}
      [] OTHER -> FindVersion(store, key)

\* A request for a stored module makes it the last used.
Fetch(key) ==
    /\ pmt.carousel /\ ~IsLive(key)
    /\ \E m \in FindVersion(store, key) : store' = Touched(store, m)
    /\ UNCHANGED <<persistent, pmt, diiSection, carousel, sequence, listed, listener, events, heard>>

\* Another session puts a module of its own, for which modules of this one make room.
OtherSessionPuts ==
    /\ store # << >>
    /\ \/ ~persistent /\ store' = Tail(store)
       \/ persistent /\ \E m \in Range(store) : store' = Others(store, m)
    /\ UNCHANGED <<persistent, pmt, diiSection, carousel, sequence, listed, listener, events, heard>>

BroadcastNext ==
    \/ \E p \in PMTs : ObservePMT(p)
    \/ \E d \in DIIs : ObserveDII(d)
    \/ \E b \in DDBs : ObserveDDB(b)
    \/ ObserveEIT \/ ObserveTOT \/ ObserveES \/ ObserveBIT \/ ObservePacket
    \/ \E s \in Listeners : SubscribeEvents(s) \/ Receive(s) \/ UnsubscribeEvents(s)
    \/ \E key \in Modules : Fetch(key)
    \/ OtherSessionPuts

BroadcastSpec == BroadcastInit /\ [][BroadcastNext]_broadcastVars

-----------------------------------------------------------------------------
(* Properties                                                              *)

BroadcastTypeOK ==
    /\ pmt \in PMTs \cup {NoPMT} /\ diiSection \in DIIs \cup {NoDII}
    /\ carousel.completed \in Nat /\ carousel.inFlight \in Nat
    /\ \A s \in Range(carousel.modules) : KeyOf(s) \in Modules /\ s.done \in BOOLEAN
    /\ sequence \in 0 .. MaxEvents
    /\ listed \in BOOLEAN /\ persistent \in BOOLEAN
    /\ listener \in [Listeners -> {"off", "open", "closed"}]
    /\ heard \in [Listeners -> 0 .. MaxEvents]
    /\ \A m \in Range(store) : KeyOf(m) \in Modules /\ Len(m.data) = m.size

\* The two budgets of a carousel are what its modules take, and are never exceeded:
\* whatever order announcements, blocks, restored modules, released payloads and
\* evictions come in, no byte is counted twice or subtracted twice, which would wrap the
\* unsigned counters and evict everything from then on.
BudgetsExact ==
    /\ carousel.completed = BytesOf({s \in Range(carousel.modules) : s.done})
    /\ carousel.inFlight = SizesOf({s \in Range(carousel.modules) : ~s.done})
    /\ carousel.completed <= MaxCompletedBytes /\ carousel.inFlight <= MaxInFlightBytes
    /\ \A r \in carousel.rejected : ~Announced(carousel, r.id)

\* What is served as a version of a module has every byte, and every byte from that
\* version, although blocks of other versions come late and modules are taken from a
\* store that another session or an earlier announcement filled.
ServedIsWhole ==
    \A key \in Modules : \A m \in ModuleVersion(key) :
        m.data = [i \in 1 .. m.size |-> <<key.download, key.version>>]

\* A subscriber that is not closed misses nothing: what it has received and what waits
\* for it are all the events since its snapshot.  One that was too slow is closed and
\* gets no more, so that it starts again from a snapshot instead of with a gap.
SubscribersMissNothing ==
    \A s \in Listeners :
        LET numbers == [i \in DOMAIN events[s] |-> events[s][i].number]
        IN  /\ listener[s] # "off" => numbers = [i \in DOMAIN numbers |-> heard[s] + i]
            /\ listener[s] = "open" => heard[s] + Len(numbers) = sequence /\ listed
            /\ listener[s] = "closed" => heard[s] + Len(numbers) < sequence

\* Every module of the DII on the air is announced or rejected: a receiver can tell a
\* module that has not arrived from one that was not announced (dsmcc_carousel.go 72-74).
AnnouncementsKept ==
    pmt.carousel /\ diiSection # NoDII =>
        \A m \in Range(diiSection.modules) :
            Announced(carousel, m.id) \/ \E r \in carousel.rejected : r.id = m.id

=============================================================================
