---------------------------- MODULE ProgramEvents ----------------------------
(***************************************************************************)
(* The program manager and the event hub behind it                         *)
(* (internal/program/manager.go, internal/program/sqlite_store.go,         *)
(* internal/event/hub.go, internal/web/api/events.go).                     *)
(*                                                                         *)
(* An updater reads the programs its change is about, writes the change in *)
(* one transaction and then announces, one by one, what it believes has    *)
(* changed.  The announcements wait in a queue that a timer flushes one    *)
(* second after the last of them; every flush is a goroutine that          *)
(* publishes its batch with a pause after every event.  The timer handle   *)
(* can be forgotten while its timer is armed: a timer that has fired may   *)
(* be armed again before its flush gets the lock, and that flush then      *)
(* clears the handle.                                                      *)
(*                                                                         *)
(* A program is the pair of what an update always overwrites and one field *)
(* that an update leaves alone when it does not carry it (0, "empty"); the *)
(* other merged fields are treated by the code in the same way.  A batch   *)
(* lists programs, and may list one more than once.                        *)
(*                                                                         *)
(* An announcement carries, as history, the how-manieth it is: the batches *)
(* of two goroutines are never equal, and they are a set.                  *)
(***************************************************************************)
EXTENDS Integers, Sequences, FiniteSets, SequencesExt

CONSTANTS
  Updaters,         \* goroutines that change programs
  ProgramIDs,       \* program ids, all of one service
  ProgramValues,    \* what a broadcast or a peer says of a program
  Cutoff,           \* the end before which a cleanup deletes programs
  EventReaders,     \* clients of the event stream
  ReaderBuffer,     \* capacity of a client's channel (128 in the code)
  LogCapacity,      \* capacity of the hub's log (100 in the code)
  MaxBatch,         \* bound: programs in a batch
  MaxUpdates        \* bound: operations started

ASSUME ProgramEventsAssumption ==
  /\ ProgramValues \subseteq [at : Nat \ {0}, name : Nat]
  /\ Cutoff \in Nat /\ MaxBatch \in Nat /\ MaxUpdates \in Nat
  /\ ReaderBuffer \in Nat \ {0} /\ LogCapacity \in Nat \ {0}

\* The program table, the queue and the timer of the manager.
VARIABLES
  programs,         \* the programs table: id -> program, NoProgram when absent
  update,           \* what every updater is doing
  updatesBegun,     \* operations started so far
  eventQueue,       \* ProgramManager.eventQueue
  eventTimer,       \* the timer behind the handle: "none", "armed", "fired"
  orphanTimers,     \* armed timers whose handle was cleared
  flushes,          \* flush goroutines that have not taken the queue yet
  batches,          \* what each publishing flush goroutine still publishes
  eventLog,         \* Hub.log
  reader,           \* clients: their channel, and what they were told
  published,        \* history: the events published, in order
  announced,        \* history: how many events were enqueued
  overlapped,       \* history: two operations, or two batches, ran at once
  shortened         \* history: a batch repeated a program without the name it
                    \* had given it before

storeVars == <<programs, update, updatesBegun, shortened>>
timerVars == <<eventQueue, eventTimer, orphanTimers, flushes, announced>>
hubLogVars == <<eventLog, reader, published>>
eventVars == <<programs, update, updatesBegun, eventQueue, eventTimer,
               orphanTimers, flushes, batches, eventLog, reader, published,
               announced, overlapped, shortened>>

NoProgram == [at |-> 0, name |-> 0]
IdleUpdate == [doing |-> "idle"]

\* The places of a batch that mention a program, and what the last of them says.
Mentions(batch, id) == {i \in DOMAIN batch : batch[i].id = id}
Mentioned(batch) == {batch[i].id : i \in DOMAIN batch}
LastMention(batch, id) == batch[Max(Mentions(batch, id))].program

\* What the statements of a batch, executed in its order, make of a row: the last
\* one overwrites it, and a field that it does not carry keeps the value of the
\* last one that did, or the row's own (COALESCE).
Written(row, batch, id) ==
  LET named == {i \in Mentions(batch, id) : batch[i].program.name # 0}
  IN  IF Mentions(batch, id) = {} THEN row
      ELSE [LastMention(batch, id) EXCEPT
              !.name = IF named = {} THEN row.name ELSE batch[Max(named)].program.name]

\* A batch names a program and then mentions it without the name: the row has the
\* name, the last mention has not.
Shortens(batch) ==
  \E i \in DOMAIN batch :
    batch[i].program.name # 0 /\ LastMention(batch, batch[i].id).name = 0

\* Mutant: the manager takes what was broadcast for what was stored.
MergeForgetsName(existing, incoming) == incoming

\* What the manager believes the statements have done to the row it read.
MergeUpsertProgram(existing, incoming) ==
  IF incoming.name = 0 THEN [incoming EXCEPT !.name = existing.name] ELSE incoming

Created(id, p) == [typ |-> "create", id |-> id, program |-> p]
Updated(id, p) == [typ |-> "update", id |-> id, program |-> p]
Removed(id) == [typ |-> "remove", id |-> id, program |-> NoProgram]

\* What is to be announced, and in which turn.
InTurn(turn, events) == {[turn |-> turn, event |-> e] : e \in events}

\* UpsertPrograms compares what it read with what is meant to be there now, in the
\* order of a map.
Changes(before, after) ==
  InTurn(0, {IF before[id] = NoProgram THEN Created(id, after[id]) ELSE Updated(id, after[id]) :
               id \in {i \in DOMAIN after : before[i] # after[i]}})

\* ReplaceServicePrograms compares the batch with what it read, in its order and
\* without merging; the second mention of a program finds it no longer listed as read.
Earlier(batch, i) == \E j \in 1 .. i - 1 : batch[j].id = batch[i].id
Replacements(before, batch) ==
  UNION {LET id == batch[i].id
             new == batch[i].program
         IN  InTurn(i, IF Earlier(batch, i) \/ before[id] = NoProgram THEN {Created(id, new)}
                       ELSE IF before[id] # new THEN {Updated(id, new)} ELSE {}) :
         i \in DOMAIN batch}

EventInit ==
  /\ programs = [id \in ProgramIDs |-> NoProgram]
  /\ update = [u \in Updaters |-> IdleUpdate]
  /\ updatesBegun = 0
  /\ eventQueue = <<>> /\ eventTimer = "none" /\ orphanTimers = 0 /\ flushes = 0
  /\ batches = {} /\ eventLog = <<>>
  /\ reader = [c \in EventReaders |->
                 [on |-> FALSE, channel |-> <<>>, got |-> <<>>, from |-> 0, lost |-> FALSE]]
  /\ published = <<>> /\ announced = 0 /\ overlapped = FALSE /\ shortened = FALSE

-----------------------------------------------------------------------------
(* The operations.  Reading, writing and announcing are steps of their own: *)
(* nothing holds a lock across them.                                        *)

Begins(u, work) ==
  /\ update[u] = IdleUpdate
  /\ updatesBegun < MaxUpdates
  /\ updatesBegun' = updatesBegun + 1
  /\ update' = [update EXCEPT ![u] = work]
  /\ overlapped' = (overlapped \/ \E v \in Updaters : update[v] # IdleUpdate)
  /\ UNCHANGED <<programs, shortened, timerVars, batches, hubLogVars>>

Batches(shortest) ==
  UNION {[1 .. n -> [id : ProgramIDs, program : ProgramValues]] : n \in shortest .. MaxBatch}

\* UpsertPrograms reads the programs it is about to merge into.
BeginUpsert(u) ==
  \E batch \in Batches(1) :
    Begins(u, [doing |-> "upsert", new |-> batch, before |-> programs])

\* DeleteEndedBefore lists what it is about to delete.
BeginDelete(u) ==
  Begins(u, [doing |-> "delete", new |-> <<>>, before |-> programs])

\* ReplaceServicePrograms reads the whole service: its callers pass from = 0.
BeginReplace(u) ==
  \E batch \in Batches(0) :
    Begins(u, [doing |-> "replace", new |-> batch, before |-> programs])

\* The transaction, on the rows as they are now; the announcements, from the
\* rows as they were read.
Commits(u, rows, tell) ==
  /\ programs' = rows
  /\ update' = [update EXCEPT ![u] =
                  IF tell = {} THEN IdleUpdate ELSE [doing |-> "announce", tell |-> tell]]
  /\ shortened' = (shortened \/ Shortens(update[u].new))
  /\ UNCHANGED <<updatesBegun, timerVars, batches, hubLogVars, overlapped>>

UpsertAll(u) ==
  LET w == update[u] IN
  /\ w.doing = "upsert"
  /\ Commits(u,
       [id \in ProgramIDs |-> Written(programs[id], w.new, id)],
       Changes(w.before, [id \in Mentioned(w.new) |->
                            MergeUpsertProgram(w.before[id], LastMention(w.new, id))]))

Ended(rows) == {id \in ProgramIDs : rows[id] # NoProgram /\ rows[id].at < Cutoff}

DeleteEnded(u) ==
  LET w == update[u] IN
  /\ w.doing = "delete"
  /\ Commits(u,
       [id \in ProgramIDs |-> IF id \in Ended(programs) THEN NoProgram ELSE programs[id]],
       InTurn(0, {Removed(id) : id \in Ended(w.before)}))

\* The rows of the service are deleted and the batch is written; what was read and
\* is not in the batch is announced last.
ReplaceService(u) ==
  LET w == update[u]
      gone == {id \in ProgramIDs \ Mentioned(w.new) : w.before[id] # NoProgram} IN
  /\ w.doing = "replace"
  /\ Commits(u,
       [id \in ProgramIDs |-> Written(NoProgram, w.new, id)],
       Replacements(w.before, w.new)
         \cup InTurn(Len(w.new) + 1, {Removed(id) : id \in gone}))

\* The transaction fails and is rolled back: nothing is announced.
WriteFails(u) ==
  /\ update[u].doing \in {"upsert", "delete", "replace"}
  /\ update' = [update EXCEPT ![u] = IdleUpdate]
  /\ UNCHANGED <<programs, updatesBegun, shortened, timerVars, batches, hubLogVars,
                 overlapped>>

\* enqueueEvent: the queue grows and the timer behind the handle starts again,
\* a new one if there is no handle.
EnqueueEvent(u) ==
  LET w == update[u] IN
  /\ w.doing = "announce"
  /\ \E e \in w.tell :
       /\ \A f \in w.tell : e.turn <= f.turn
       /\ eventQueue' = Append(eventQueue, [number |-> announced + 1, event |-> e.event])
       /\ update' = [update EXCEPT ![u] =
            IF w.tell = {e} THEN IdleUpdate ELSE [w EXCEPT !.tell = @ \ {e}]]
  /\ eventTimer' = "armed"
  /\ announced' = announced + 1
  /\ UNCHANGED <<programs, updatesBegun, shortened, orphanTimers, flushes, batches,
                 hubLogVars, overlapped>>

-----------------------------------------------------------------------------
(* The timer and the flush goroutines.                                     *)

TimerFires ==
  /\ \/ eventTimer = "armed" /\ eventTimer' = "fired" /\ UNCHANGED orphanTimers
     \/ orphanTimers > 0 /\ orphanTimers' = orphanTimers - 1 /\ UNCHANGED eventTimer
  /\ flushes' = flushes + 1
  /\ UNCHANGED <<storeVars, eventQueue, announced, batches, hubLogVars, overlapped>>

\* Mutant: the flush copies the queue and does not clear it.
FlushKeepsQueue ==
  /\ flushes > 0
  /\ flushes' = flushes - 1
  /\ batches' = batches \cup ({eventQueue} \ {<<>>})
  /\ eventTimer' = "none"
  /\ orphanTimers' = orphanTimers + (IF eventTimer = "armed" THEN 1 ELSE 0)
  /\ overlapped' = (overlapped \/ (batches # {} /\ eventQueue # <<>>))
  /\ UNCHANGED <<storeVars, eventQueue, announced, hubLogVars>>

\* flushEvents, up to its Unlock: the queue and the handle are cleared together.
FlushTakes ==
  /\ flushes > 0
  /\ flushes' = flushes - 1
  /\ batches' = batches \cup ({eventQueue} \ {<<>>})
  /\ eventQueue' = <<>>
  /\ eventTimer' = "none"
  /\ orphanTimers' = orphanTimers + (IF eventTimer = "armed" THEN 1 ELSE 0)
  /\ overlapped' = (overlapped \/ (batches # {} /\ eventQueue # <<>>))
  /\ UNCHANGED <<storeVars, announced, hubLogVars>>

\* PublishEvent under the hub's lock: the log is trimmed from the front, and a
\* client whose channel is full misses the event.
Deliver(r, e) ==
  IF ~r.on THEN r
  ELSE IF Len(r.channel) < ReaderBuffer THEN [r EXCEPT !.channel = Append(@, e)]
  ELSE [r EXCEPT !.lost = TRUE]

PublishEvent ==
  \E batch \in batches :
    LET e == Head(batch)
        log == Append(eventLog, e) IN
    /\ batches' = (batches \ {batch}) \cup ({Tail(batch)} \ {<<>>})
    /\ eventLog' = IF Len(log) > LogCapacity THEN Tail(log) ELSE log
    /\ reader' = [c \in EventReaders |-> Deliver(reader[c], e)]
    /\ published' = Append(published, e)
    /\ UNCHANGED <<storeVars, timerVars, overlapped>>

-----------------------------------------------------------------------------
(* The clients of the event stream.                                        *)

Subscribe(c) ==
  /\ ~reader[c].on /\ reader[c].from = 0
  /\ reader' = [reader EXCEPT ![c] = [@ EXCEPT !.on = TRUE, !.from = Len(published) + 1]]
  /\ UNCHANGED <<storeVars, timerVars, batches, eventLog, published, overlapped>>

\* The client's loop, until its request ends.
ReadEvent(c) ==
  LET r == reader[c] IN
  /\ r.on /\ r.channel # <<>>
  /\ reader' = [reader EXCEPT ![c] =
       [r EXCEPT !.got = Append(r.got, Head(r.channel)), !.channel = Tail(r.channel)]]
  /\ UNCHANGED <<storeVars, timerVars, batches, eventLog, published, overlapped>>

Unsubscribe(c) ==
  /\ reader[c].on
  /\ reader' = [reader EXCEPT ![c] = [@ EXCEPT !.on = FALSE, !.channel = <<>>, !.got = <<>>]]
  /\ UNCHANGED <<storeVars, timerVars, batches, eventLog, published, overlapped>>

EventNext ==
  \/ \E u \in Updaters :
       \/ BeginUpsert(u) \/ BeginDelete(u) \/ BeginReplace(u)
       \/ UpsertAll(u) \/ DeleteEnded(u) \/ ReplaceService(u)
       \/ WriteFails(u) \/ EnqueueEvent(u)
  \/ TimerFires \/ FlushTakes \/ PublishEvent
  \/ \E c \in EventReaders : Subscribe(c) \/ ReadEvent(c) \/ Unsubscribe(c)

EventSpec == EventInit /\ [][EventNext]_eventVars

-----------------------------------------------------------------------------
EventKind == [typ : {"create", "update", "remove"}, id : ProgramIDs,
              program : [at : Nat, name : Nat]]
Announcement == [number : Nat \ {0}, event : EventKind]

EventTypeOK ==
  /\ \A id \in ProgramIDs : programs[id] \in [at : Nat, name : Nat]
  /\ \A u \in Updaters : update[u].doing \in {"idle", "upsert", "delete", "replace", "announce"}
  /\ \A q \in batches \cup {eventQueue, published} : q \in Seq(Announcement)
  /\ eventTimer \in {"none", "armed", "fired"}
  /\ orphanTimers \in Nat /\ flushes \in Nat
  /\ <<>> \notin batches
  /\ Len(eventLog) <= LogCapacity
  /\ \A c \in EventReaders : Len(reader[c].channel) <= ReaderBuffer

\* Where the n-th announcement is: published, in the batch of a goroutine, in the queue.
Lines == {<<"published", published>>, <<"queue", eventQueue>>} \cup
         {<<"batch", batch>> : batch \in batches}
Places(n) ==
  UNION {{<<line, i>> : i \in {j \in 1..Len(line[2]) : line[2][j].number = n}} : line \in Lines}

\* The hub's log is the end of what was published.
LogIsRecent ==
  /\ Len(eventLog) = IF Len(published) < LogCapacity THEN Len(published) ELSE LogCapacity
  /\ \A i \in 1..Len(eventLog) : eventLog[i] = published[Len(published) - Len(eventLog) + i]

(* An event that an updater enqueued is in the queue, in one batch, or has  *)
(* been published, once; while the queue holds one a timer is armed or a    *)
(* flush is about to take it, whatever enqueueEvent and flushEvents do to   *)
(* the timer handle meanwhile (manager.go 319-345); a client that missed    *)
(* nothing by being slow has been told exactly the events published since   *)
(* it subscribed, in their order; and the log, trimmed in front, has the    *)
(* last of them and as many as it may hold (hub.go 60-86).                  *)
EventsExactlyOnce ==
  /\ \A n \in 1..announced : Cardinality(Places(n)) = 1
  /\ \A line \in Lines : \A i \in 1..Len(line[2]) : line[2][i].number \in 1..announced
  /\ eventQueue # <<>> => eventTimer = "armed" \/ orphanTimers > 0 \/ flushes > 0
  /\ \A c \in EventReaders :
       reader[c].on /\ ~reader[c].lost =>
         reader[c].got \o reader[c].channel =
           SubSeq(published, reader[c].from, Len(published))
  /\ LogIsRecent

\* Every event on its way, the oldest first, while one batch at a time is published.
Publishing == IF batches = {} THEN <<>> ELSE CHOOSE batch \in batches : TRUE
OnTheWay == Publishing \o eventQueue

\* A client that applies the events to its own copy of the programs: the last event
\* about a program says what it is.
Replay(events) ==
  [id \in ProgramIDs |->
     LET about == {i \in 1..Len(events) : events[i].event.id = id}
     IN  IF about = {} THEN NoProgram ELSE events[Max(about)].event.program]

(* As long as no two operations and no two batches have run at the same     *)
(* time, and no batch has mentioned a program again without a field it had  *)
(* given it, a client that applies all the events holds exactly the         *)
(* programs table whenever no operation is under way: what the manager      *)
(* merges in memory, from the last mention of each program, agrees with the *)
(* statement by statement COALESCE of the store, and nothing that changed   *)
(* goes unannounced (manager.go 46-155, sqlite_store.go 19-37, 142-196).    *)
EventsReplayStore ==
  (~overlapped /\ ~shortened /\ \A u \in Updaters : update[u] = IdleUpdate)
    => Replay(published \o OnTheWay) = programs

=============================================================================
