---------------------------- MODULE MultiWriter -----------------------------
(***************************************************************************)
(* DynamicMultiWriter of internal/util: the fan-out between the tuner      *)
(* process, which must never wait, and the subscribers of a broadcast.     *)
(* A chunk is copied once into a pooled buffer that is queued for every    *)
(* subscriber; its reference count says when the buffer may be used again. *)
(* A full queue drops its oldest chunk.                                    *)
(*                                                                         *)
(* Writers hold the read lock while they enqueue; Attach, Detach and Close *)
(* need the lock for themselves.  The goroutine of a subscriber, run, and  *)
(* the writers race for the queue.  A subscriber attaches once.            *)
(***************************************************************************)
EXTENDS Integers, Sequences, FiniteSets, SequencesExt

CONSTANTS
    Writers,     \* goroutines that call Write
    Subs,        \* subscribers
    Leavers,     \* those that call Detach and whose writer may fail
    QueueSize,   \* dynamicMultiWriterBufferSize
    MaxWrites,   \* bound: MaxWrites[w] chunks of each writer
    MaxBuffers   \* bound: buffers ever allocated

Nil == 0
Buffers == 1 .. MaxBuffers
Messages == [by : Writers, n : Nat]

ASSUME HubConstants ==
    /\ QueueSize \in Nat \ {0} /\ MaxWrites \in [Writers -> Nat] /\ MaxBuffers \in Nat
    /\ IsFiniteSet(Writers) /\ Writers # {} /\ IsFiniteSet(Subs) /\ Leavers \subseteq Subs

VARIABLES
    list,      \* DynamicMultiWriter.subscribers
    queue,     \* queue[s]: the buffers in s.ch
    shut,      \* subscribers whose channel is closed
    loop,      \* where the goroutine run of each subscriber is
    hand,      \* the buffer it is writing
    count,     \* chunk.refs of each buffer
    data,      \* chunk.data: the chunk last copied into the buffer
    pool,      \* buffers in the sync.Pool
    allocated, \* buffers ever allocated
    pen,       \* where each writer is in enqueue
    chunk,     \* the buffer it enqueues
    rest,      \* the subscribers it has still to serve
    wrote,     \* chunks each writer has begun
    detach,    \* where the Detach of each subscriber is
    closing,   \* subscribers Close has taken off the list and has still to close
    received,  \* history: the last chunk of each writer given to each subscriber
    served     \* history: the last chunk of each writer put into each queue

hubVars == <<list, queue, shut, loop, hand, count, data, pool, allocated, pen, chunk,
             rest, wrote, detach, closing, received, served>>
bufferVars == <<count, data, pool, allocated>>
writerVars == <<pen, chunk, rest, wrote>>
listVars == <<list, shut, detach, closing>>
historyVars == <<received, served>>

HubTypeOK ==
    /\ list \in Seq(Subs) /\ queue \in [Subs -> Seq(Buffers)]
    /\ \A s \in Subs : Len(queue[s]) <= QueueSize
    /\ shut \subseteq Subs /\ closing \in Seq(Subs)
    /\ loop \in [Subs -> {"off", "receive", "write", "error", "drain", "done"}]
    /\ hand \in [Subs -> Buffers \cup {Nil}]
    /\ count \in [Buffers -> 0 .. Cardinality(Subs)]
    /\ data \in [Buffers -> Messages]
    /\ pool \subseteq Buffers /\ allocated \in 0 .. Cardinality(Buffers)
    /\ pen \in [Writers -> {"idle", "send", "drop", "resend"}]
    /\ chunk \in [Writers -> Buffers \cup {Nil}] /\ rest \in [Writers -> Seq(Subs)]
    /\ wrote \in [Writers -> Nat]
    /\ detach \in [Subs -> {"idle", "found", "wait", "gone"}]
    /\ received \in [Subs -> [Writers -> Nat]]
    /\ served \in [Subs -> [Writers -> Nat]]

HubInit ==
    /\ list = << >> /\ closing = << >> /\ shut = {}
    /\ queue = [s \in Subs |-> << >>]
    /\ loop = [s \in Subs |-> "off"] /\ hand = [s \in Subs |-> Nil]
    /\ count = [b \in Buffers |-> 0] /\ data = [b \in Buffers |-> [by |-> CHOOSE w \in Writers : TRUE, n |-> 0]]
    /\ pool = {} /\ allocated = 0
    /\ pen = [w \in Writers |-> "idle"] /\ chunk = [w \in Writers |-> Nil]
    /\ rest = [w \in Writers |-> << >>] /\ wrote = [w \in Writers |-> 0]
    /\ detach = [s \in Subs |-> "idle"]
    /\ received = [s \in Subs |-> [w \in Writers |-> 0]]
    /\ served = [s \in Subs |-> [w \in Writers |-> 0]]

\* The mutex is free for an exclusive lock: no writer holds the read lock.
Exclusive == \A w \in Writers : pen[w] = "idle"

Listed(s) == \E i \in DOMAIN list : list[i] = s

-----------------------------------------------------------------------------
(* Attach, Detach, Close                                                   *)

HubAttach(s) ==
    /\ loop[s] = "off" /\ Exclusive
    /\ list' = Append(list, s)
    /\ loop' = [loop EXCEPT ![s] = "receive"]
    /\ UNCHANGED <<queue, hand, shut, detach, closing, bufferVars, writerVars, historyVars>>

\* Detach looks the subscriber up; one that is not listed has nothing to wait for.
DetachLookup(s) ==
    /\ s \in Leavers /\ loop[s] # "off" /\ detach[s] = "idle" /\ Exclusive
    /\ detach' = [detach EXCEPT ![s] = IF Listed(s) THEN "found" ELSE "gone"]
    /\ UNCHANGED <<list, shut, closing, queue, loop, hand, bufferVars, writerVars, historyVars>>

\* Mutant: the subscriber is taken off the list without the lock for itself.
RemoveUnlocked(s) ==
    \/ \E i \in DOMAIN list :
           list[i] = s /\ list' = RemoveAt(list, i) /\ shut' = shut \cup {s}
    \/ ~Listed(s) /\ UNCHANGED <<list, shut>>

\* The locked part of detachSubscriber: only whoever takes it off the list closes it.
RemoveSubscriber(s) ==
    /\ Exclusive
    /\ \/ \E i \in DOMAIN list :
              list[i] = s /\ list' = RemoveAt(list, i) /\ shut' = shut \cup {s}
       \/ ~Listed(s) /\ UNCHANGED <<list, shut>>

DetachRemove(s) ==
    /\ detach[s] = "found"
    /\ RemoveSubscriber(s)
    /\ detach' = [detach EXCEPT ![s] = "wait"]
    /\ UNCHANGED <<closing, queue, loop, hand, bufferVars, writerVars, historyVars>>

DetachWaits(s) ==
    /\ detach[s] = "wait" /\ loop[s] = "done"
    /\ detach' = [detach EXCEPT ![s] = "gone"]
    /\ UNCHANGED <<list, shut, closing, queue, loop, hand, bufferVars, writerVars, historyVars>>

\* Close takes the whole list under the lock ...
HubClose ==
    /\ list # << >> /\ closing = << >> /\ Exclusive
    /\ closing' = list /\ list' = << >>
    /\ UNCHANGED <<shut, detach, queue, loop, hand, bufferVars, writerVars, historyVars>>

\* ... and closes the channels and the writers without it.
CloseNext ==
    /\ closing # << >>
    /\ shut' = shut \cup {Head(closing)}
    /\ closing' = Tail(closing)
    /\ UNCHANGED <<list, detach, queue, loop, hand, bufferVars, writerVars, historyVars>>

-----------------------------------------------------------------------------
(* Write and enqueue                                                       *)

\* chunk.release: the last reference returns the buffer to the pool.
ReleaseChunk(b) ==
    /\ count' = [count EXCEPT ![b] = @ - 1]
    /\ pool' = IF count[b] = 1 THEN pool \cup {b} ELSE pool
    /\ UNCHANGED <<data, allocated>>

\* Mutant: the chunk keeps the caller's slice, which the caller fills again.
WriteKeepsSlice(w) ==
    /\ pen[w] = "idle" /\ list # << >>
    /\ wrote[w] < MaxWrites[w] /\ (pool = {} => allocated < MaxBuffers)
    /\ LET b == IF pool = {} THEN allocated + 1 ELSE CHOOSE x \in pool : TRUE
           now == [by |-> w, n |-> wrote[w] + 1]
       IN  /\ pool' = pool \ {b}
           /\ allocated' = IF b > allocated THEN b ELSE allocated
           /\ data' = [x \in DOMAIN data |-> IF x = b \/ data[x].by = w THEN now ELSE data[x]]
           /\ count' = [count EXCEPT ![b] = Len(list)]
           /\ chunk' = [chunk EXCEPT ![w] = b]
    /\ wrote' = [wrote EXCEPT ![w] = @ + 1]
    /\ rest' = [rest EXCEPT ![w] = list]
    /\ pen' = [pen EXCEPT ![w] = "send"]
    /\ UNCHANGED <<queue, loop, hand, listVars, historyVars>>

\* Write; without subscribers it fails and leaves no trace.  newChunk takes
\* some buffer from the pool, or a new one when there is none, and sets its count.
Write(w) ==
    /\ pen[w] = "idle" /\ list # << >>
    /\ wrote[w] < MaxWrites[w] /\ (pool = {} => allocated < MaxBuffers)
    /\ LET b == IF pool = {} THEN allocated + 1 ELSE CHOOSE x \in pool : TRUE IN
           /\ pool' = pool \ {b}
           /\ allocated' = IF b > allocated THEN b ELSE allocated
           /\ data' = [data EXCEPT ![b] = [by |-> w, n |-> wrote[w] + 1]]
           /\ count' = [count EXCEPT ![b] = Len(list)]
           /\ chunk' = [chunk EXCEPT ![w] = b]
    /\ wrote' = [wrote EXCEPT ![w] = @ + 1]
    /\ rest' = [rest EXCEPT ![w] = list]
    /\ pen' = [pen EXCEPT ![w] = "send"]
    /\ UNCHANGED <<queue, loop, hand, listVars, historyVars>>

\* The subscriber is served; the next one, or the read lock is released.
NextSubscriber(w) ==
    /\ rest' = [rest EXCEPT ![w] = Tail(@)]
    /\ pen' = [pen EXCEPT ![w] = IF Len(rest[w]) = 1 THEN "idle" ELSE "send"]
    /\ chunk' = [chunk EXCEPT ![w] = IF Len(rest[w]) = 1 THEN Nil ELSE @]
    /\ UNCHANGED wrote

\* A send into the queue of s that succeeds.
Enqueued(w, s) ==
    /\ Len(queue[s]) < QueueSize
    /\ queue' = [queue EXCEPT ![s] = Append(@, chunk[w])]
    /\ served' = [served EXCEPT ![s][w] = wrote[w]]
    /\ NextSubscriber(w)
    /\ UNCHANGED <<loop, hand, received, bufferVars, listVars>>

\* The first select of enqueue.
Send(w) ==
    LET s == Head(rest[w])
    IN  /\ pen[w] = "send"
        /\ \/ Enqueued(w, s)
           \/ /\ Len(queue[s]) = QueueSize
              /\ pen' = [pen EXCEPT ![w] = "drop"]
              /\ UNCHANGED <<chunk, rest, wrote, queue, loop, hand, bufferVars, listVars,
                             historyVars>>

\* The second: drop the oldest chunk, unless the subscriber has just emptied the queue.
DropOldest(w) ==
    LET s == Head(rest[w])
    IN  /\ pen[w] = "drop"
        /\ \/ /\ queue[s] # << >>
              /\ queue' = [queue EXCEPT ![s] = Tail(@)]
              /\ ReleaseChunk(Head(queue[s]))
           \/ queue[s] = << >> /\ UNCHANGED <<queue, bufferVars>>
        /\ pen' = [pen EXCEPT ![w] = "resend"]
        /\ UNCHANGED <<chunk, rest, wrote, loop, hand, listVars, historyVars>>

\* Mutant: a chunk that finds the queue full again is forgotten.
ResendForgets(w) ==
    LET s == Head(rest[w])
    IN  /\ pen[w] = "resend"
        /\ \/ Enqueued(w, s)
           \/ /\ Len(queue[s]) = QueueSize
              /\ NextSubscriber(w)
              /\ UNCHANGED <<queue, loop, hand, bufferVars, listVars, historyVars>>

\* The third: another writer may have filled the queue again; then the chunk itself
\* is lost for this subscriber.
Resend(w) ==
    LET s == Head(rest[w])
    IN  /\ pen[w] = "resend"
        /\ \/ Enqueued(w, s)
           \/ /\ Len(queue[s]) = QueueSize
              /\ ReleaseChunk(chunk[w])
              /\ NextSubscriber(w)
              /\ UNCHANGED <<queue, loop, hand, listVars, historyVars>>

-----------------------------------------------------------------------------
(* The goroutine of a subscriber                                           *)

\* The range over the channel: the next chunk, or the end of a closed channel.
RunReceives(s) ==
    /\ loop[s] = "receive"
    /\ \/ /\ queue[s] # << >>
          /\ hand' = [hand EXCEPT ![s] = Head(queue[s])]
          /\ queue' = [queue EXCEPT ![s] = Tail(@)]
          /\ loop' = [loop EXCEPT ![s] = "write"]
       \/ /\ queue[s] = << >> /\ s \in shut
          /\ loop' = [loop EXCEPT ![s] = "drain"]
          /\ UNCHANGED <<hand, queue>>
    /\ UNCHANGED <<bufferVars, writerVars, listVars, historyVars>>

\* The subscriber's writer takes the data or fails; the chunk is released.
RunWrites(s) ==
    /\ loop[s] = "write"
    /\ \/ /\ received' = [received EXCEPT ![s][data[hand[s]].by] = data[hand[s]].n]
          /\ loop' = [loop EXCEPT ![s] = "receive"]
       \/ /\ s \in Leavers
          /\ loop' = [loop EXCEPT ![s] = "error"]
          /\ UNCHANGED received
    /\ ReleaseChunk(hand[s])
    /\ hand' = [hand EXCEPT ![s] = Nil]
    /\ UNCHANGED <<queue, served, writerVars, listVars>>

\* onError takes the subscriber off the list before its goroutine drains and ends.
RunFails(s) ==
    /\ loop[s] = "error"
    /\ RemoveSubscriber(s)
    /\ loop' = [loop EXCEPT ![s] = "drain"]
    /\ UNCHANGED <<detach, closing, queue, hand, bufferVars, writerVars, historyVars>>

\* drain releases what is left, and done is closed.
RunDrains(s) ==
    /\ loop[s] = "drain"
    /\ \/ /\ queue[s] # << >>
          /\ queue' = [queue EXCEPT ![s] = Tail(@)]
          /\ ReleaseChunk(Head(queue[s]))
          /\ UNCHANGED loop
       \/ /\ queue[s] = << >>
          /\ loop' = [loop EXCEPT ![s] = "done"]
          /\ UNCHANGED <<queue, bufferVars>>
    /\ UNCHANGED <<hand, writerVars, listVars, historyVars>>

-----------------------------------------------------------------------------
HubNext ==
    \/ \E w \in Writers : Write(w) \/ Send(w) \/ DropOldest(w) \/ Resend(w)
    \/ \E s \in Subs :
           \/ HubAttach(s) \/ DetachLookup(s) \/ DetachRemove(s) \/ DetachWaits(s)
           \/ RunReceives(s) \/ RunWrites(s) \/ RunFails(s) \/ RunDrains(s)
    \/ HubClose \/ CloseNext

HubSpec == HubInit /\ [][HubNext]_hubVars

-----------------------------------------------------------------------------
(* Properties                                                              *)

\* Who still refers to buffer b: queues, goroutines with b in hand, and the writers
\* that have still to serve some subscribers with it.
QueueRefs(b) == Cardinality({x \in Subs \X (1 .. QueueSize) :
                    x[2] \in DOMAIN queue[x[1]] /\ queue[x[1]][x[2]] = b})
HandRefs(b) == Cardinality({s \in Subs : hand[s] = b})
WriterRefs(b) == Cardinality({x \in Writers \X (1 .. Cardinality(Subs)) :
                    chunk[x[1]] = b /\ x[2] \in DOMAIN rest[x[1]]})

\* Every chunk is released exactly once per reference, although writers, droppers,
\* subscribers and drains race for it: its count is the number of those who still refer
\* to it, never negative, and it is in the pool exactly when nobody does.
ChunksAccounted ==
    /\ HubTypeOK
    /\ \A b \in 1 .. allocated :
          /\ count[b] = QueueRefs(b) + HandRefs(b) + WriterRefs(b)
          /\ b \in pool <=> count[b] = 0

\* A writer never sends on a closed channel, which would panic, and a subscriber that is
\* done keeps no chunk: a channel is closed, and drained for the last time, only when no
\* writer can reach it any more.
ClosedIsUnreachable ==
    \A s \in Subs :
        /\ s \in shut \/ loop[s] \in {"drain", "done"} =>
               ~Listed(s) /\ \A w \in Writers : \A i \in DOMAIN rest[w] : rest[w][i] # s
        /\ loop[s] = "done" => queue[s] = << >>

\* What waits for a subscriber: the chunk its goroutine is writing, then its queue, by
\* what the buffers hold now.
Waiting(s) ==
    LET buffers == IF hand[s] = Nil THEN queue[s] ELSE <<hand[s]>> \o queue[s]
    IN  [i \in DOMAIN buffers |-> data[buffers[i]]]

\* The multi-writer implements Fanout: buffers are never used again while somebody has
\* still to read them, and what reaches a subscriber is in order and without repetition.
FO == INSTANCE Fanout WITH
          Readers <- Subs, Authors <- Writers,
          inbox <- [s \in Subs |-> Waiting(s)], got <- received, offered <- served

ImplementsFanout == FO!FanoutSpec

=============================================================================
