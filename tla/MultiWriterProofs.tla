------------------------- MODULE MultiWriterProofs --------------------------
(***************************************************************************)
(* Proofs about DynamicMultiWriter, for any number of writers, subscribers *)
(* and chunks and any queue size: no writer can reach a closed channel,    *)
(* every chunk is released exactly once per reference, and what            *)
(* subscribers get is what Fanout promises.                                *)
(***************************************************************************)
EXTENDS MultiWriter, SequenceLemmas, FiniteSetTheorems, TLAPS

-----------------------------------------------------------------------------
(* The invariant, first layer: who can reach whom                           *)

\* The types, one part per group of variables.
ListTypes ==
    /\ list \in Seq(Subs) /\ closing \in Seq(Subs) /\ shut \subseteq Subs
    /\ loop \in [Subs -> {"off", "receive", "write", "error", "drain", "done"}]
    /\ detach \in [Subs -> {"idle", "found", "wait", "gone"}]
QueueTypes ==
    /\ queue \in [Subs -> Seq(Buffers)] /\ \A s \in Subs : Len(queue[s]) <= QueueSize
    /\ hand \in [Subs -> Buffers \cup {Nil}]
BufferTypes ==
    data \in [Buffers -> Messages] /\ pool \subseteq Buffers /\ allocated \in 0 .. MaxBuffers
WriterTypes ==
    /\ pen \in [Writers -> {"idle", "send", "drop", "resend"}]
    /\ chunk \in [Writers -> Buffers \cup {Nil}] /\ rest \in [Writers -> Seq(Subs)]
    /\ wrote \in [Writers -> Nat]
HistoryTypes ==
    received \in [Subs -> [Writers -> Nat]] /\ served \in [Subs -> [Writers -> Nat]]

\* A listed subscriber is running and its channel is open; one that Close has taken off
\* the list, or whose channel is closed, is not listed.
Attached == {"receive", "write", "error"}
Placed ==
    /\ IsInjective(list) /\ IsInjective(closing)
    /\ \A s \in Range(list) : s \notin shut /\ loop[s] \in Attached
    /\ \A s \in Range(closing) \cup shut : loop[s] # "off" /\ s \notin Range(list)

\* A writer in enqueue has still to serve listed subscribers, each once: it holds the read
\* lock, so that the list cannot change under it.
Pens ==
    \A w \in Writers :
        /\ IsInjective(rest[w]) /\ Range(rest[w]) \subseteq Range(list)
        /\ pen[w] = "idle" <=> rest[w] = << >>
        /\ pen[w] = "idle" <=> chunk[w] = Nil
        /\ chunk[w] \in 0 .. allocated

\* The goroutine of a subscriber has a buffer in hand exactly while it writes, and its
\* queue is empty before it starts and after it ends.
Hands ==
    /\ pool \subseteq 1 .. allocated
    /\ \A s \in Subs :
        /\ hand[s] # Nil <=> loop[s] = "write"
        /\ hand[s] \in 0 .. allocated
        /\ \A i \in DOMAIN queue[s] : queue[s][i] \in 1 .. allocated
        /\ loop[s] \in {"off", "done"} => queue[s] = << >>

Reach ==
    /\ ListTypes /\ QueueTypes /\ BufferTypes /\ WriterTypes /\ HistoryTypes
    /\ Placed /\ Pens /\ Hands

LEMMA EmptyInjective ==
    ASSUME NEW S
    PROVE  << >> \in Seq(S) /\ IsInjective(<< >>) /\ Range(<< >>) = {}
BY DEF IsInjective, Range

LEMMA BuffersAre ==
    /\ Nil \notin Buffers /\ Buffers \subseteq Nat
    /\ \A b : b \in Buffers <=> b \in Nat /\ 1 <= b /\ b <= MaxBuffers
BY HubConstants DEF Buffers, Nil

LEMMA ReachInit == HubInit => Reach
<1> SUFFICES ASSUME HubInit PROVE Reach
  OBVIOUS
<1> USE DEF HubInit
<1>1. ListTypes
  BY DEF ListTypes
<1>2. QueueTypes
  BY HubConstants DEF QueueTypes
<1>3. BufferTypes
  <2>1. (CHOOSE w \in Writers : TRUE) \in Writers
    BY HubConstants
  <2> QED BY <2>1, HubConstants DEF BufferTypes, Messages
<1>4. WriterTypes /\ HistoryTypes
  BY DEF WriterTypes, HistoryTypes
<1>5. Placed
  BY EmptyInjective DEF Placed
<1>6. Pens
  BY EmptyInjective DEF Pens, Nil
<1>7. Hands
  BY DEF Hands, Nil
<1> QED BY <1>1, <1>2, <1>3, <1>4, <1>5, <1>6, <1>7 DEF Reach

\* A nonempty sequence of the model: its head and its tail.
LEMMA HeadOf ==
    ASSUME NEW S, NEW q \in Seq(S), q # << >>
    PROVE  /\ Head(q) = q[1] /\ Head(q) \in S /\ Len(q) \in Nat /\ Len(q) >= 1
           /\ 1 \in DOMAIN q /\ DOMAIN q = 1 .. Len(q)
           /\ Tail(q) \in Seq(S) /\ Len(Tail(q)) = Len(q) - 1
           /\ DOMAIN Tail(q) = 1 .. Len(q) - 1
           /\ \A i \in 1 .. Len(q) - 1 : Tail(q)[i] = q[i + 1]
           /\ Tail(q) = << >> <=> Len(q) = 1
<1>1. Len(q) \in Nat /\ Len(q) >= 1 /\ DOMAIN q = 1 .. Len(q)
  BY EmptySeq
<1>2. /\ Head(q) = q[1] /\ Tail(q) \in Seq(S) /\ Len(Tail(q)) = Len(q) - 1
      /\ \A i \in 1 .. Len(q) - 1 : Tail(q)[i] = q[i + 1]
  BY HeadTailProperties
<1>3. q[1] \in S
  BY <1>1
<1>4. Tail(q) = << >> <=> Len(Tail(q)) = 0
  BY <1>2, EmptySeq
<1> QED BY <1>1, <1>2, <1>3, <1>4

\* While one process holds the lock for itself no writer is in enqueue.
LEMMA ExclusiveFrame ==
    ASSUME Pens, Exclusive, UNCHANGED writerVars, UNCHANGED allocated
    PROVE  Pens'
BY EmptyInjective DEF Pens, Exclusive, writerVars

\* The locked part of detachSubscriber.
LEMMA RemoveKeeps ==
    ASSUME Reach, NEW s \in Subs, RemoveSubscriber(s)
    PROVE  /\ list' \in Seq(Subs) /\ IsInjective(list') /\ shut' \subseteq Subs
           /\ Range(list') = Range(list) \ {s}
           /\ shut' = shut \/ (shut' = shut \cup {s} /\ s \in Range(list))
<1>1. CASE ~Listed(s) /\ UNCHANGED <<list, shut>>
  BY <1>1 DEF Listed, Reach, ListTypes, Placed, Range
<1>2. ASSUME NEW i \in DOMAIN list, list[i] = s, list' = RemoveAt(list, i),
             shut' = shut \cup {s}
      PROVE  /\ list' \in Seq(Subs) /\ IsInjective(list') /\ shut' \subseteq Subs
             /\ Range(list') = Range(list) \ {s} /\ s \in Range(list)
  <2>1. list \in Seq(Subs) /\ IsInjective(list) /\ i \in 1 .. Len(list) /\ shut \subseteq Subs
    BY <1>2 DEF Reach, ListTypes, Placed
  <2>2. /\ RemoveAt(list, i) \in Seq(Subs) /\ IsInjective(RemoveAt(list, i))
        /\ Range(RemoveAt(list, i)) = Range(list) \ {list[i]}
    BY <2>1, RemoveAtRange
  <2>3. s \in Range(list)
    BY <1>2 DEF Range
  <2> QED BY <2>1, <2>2, <2>3, <1>2
<1> QED BY <1>1, <1>2 DEF RemoveSubscriber

LEMMA AttachReach == ASSUME Reach, NEW s \in Subs, HubAttach(s) PROVE Reach'
<1>l. ListTypes /\ Placed /\ Pens /\ Hands
  BY DEF Reach
<1>r. /\ Append(list, s) \in Seq(Subs)
      /\ Range(Append(list, s)) = Range(list) \cup {s}
      /\ s \notin Range(list) => IsInjective(Append(list, s))
  BY <1>l, AppendRange DEF ListTypes, Placed
<1>s. loop[s] = "off" /\ s \notin Range(list) /\ s \notin Range(closing) \cup shut
  BY <1>l DEF HubAttach, Placed, Attached
<1>p. \A x \in Subs : loop'[x] = IF x = s THEN "receive" ELSE loop[x]
  BY <1>l DEF HubAttach, ListTypes
<1>c. Range(closing) \subseteq Subs /\ Range(list) \subseteq Subs
  BY <1>l, RangeOfSeq DEF ListTypes
<1>1. ListTypes'
  BY <1>l, <1>r DEF HubAttach, ListTypes
<1>2. Placed'
  <2>1. IsInjective(list') /\ Range(list') = Range(list) \cup {s} /\ closing' = closing /\ shut' = shut
    BY <1>r, <1>s DEF HubAttach
  <2> HIDE DEF HubAttach
  <2>2. \A x \in Range(list') : x \notin shut' /\ loop'[x] \in Attached
    BY <2>1, <1>p, <1>s, <1>c, <1>l DEF Placed, Attached
  <2>3. \A x \in Range(closing') \cup shut' : loop'[x] # "off" /\ x \notin Range(list')
    BY <2>1, <1>p, <1>s, <1>c, <1>l DEF Placed, ListTypes
  <2> QED BY <2>1, <2>2, <2>3, <1>l DEF Placed
<1>3. Pens'
  BY <1>l, ExclusiveFrame DEF HubAttach, bufferVars
<1>4. Hands'
  BY <1>l, <1>p, <1>s DEF HubAttach, bufferVars, Hands
<1>5. QueueTypes' /\ BufferTypes' /\ WriterTypes' /\ HistoryTypes'
  BY DEF HubAttach, Reach, QueueTypes, BufferTypes, WriterTypes, HistoryTypes, bufferVars,
         writerVars, historyVars
<1> QED BY <1>1, <1>2, <1>3, <1>4, <1>5 DEF Reach

\* What an action of the list leaves alone.
LEMMA DataFrame ==
    ASSUME Reach, UNCHANGED <<queue, hand, bufferVars, writerVars, historyVars>>
    PROVE  QueueTypes' /\ BufferTypes' /\ WriterTypes' /\ HistoryTypes'
BY DEF Reach, QueueTypes, BufferTypes, WriterTypes, HistoryTypes, bufferVars, writerVars,
       historyVars

LEMMA DetachingReach ==
    ASSUME Reach, NEW s \in Subs, DetachLookup(s) \/ DetachWaits(s)
    PROVE  Reach'
<1>1. /\ UNCHANGED <<list, shut, closing, queue, loop, hand, bufferVars, writerVars, historyVars>>
      /\ detach' \in [Subs -> {"idle", "found", "wait", "gone"}]
  BY DEF DetachLookup, DetachWaits, Reach, ListTypes
<1>2. ListTypes'
  BY <1>1 DEF Reach, ListTypes
<1>3. Placed' /\ Pens' /\ Hands'
  BY <1>1 DEF Reach, Placed, Pens, Hands, bufferVars, writerVars
<1> QED BY <1>1, <1>2, <1>3, DataFrame DEF Reach

\* Removing a subscriber, while its goroutine stays where it is or goes on to drain.
LEMMA RemoveReach ==
    ASSUME Reach, NEW s \in Subs, RemoveSubscriber(s),
           detach' \in [Subs -> {"idle", "found", "wait", "gone"}],
           \/ UNCHANGED loop
           \/ loop[s] = "error" /\ loop' = [loop EXCEPT ![s] = "drain"],
           UNCHANGED <<closing, queue, hand, bufferVars, writerVars, historyVars>>
    PROVE  Reach'
<1>l. ListTypes /\ Placed /\ Pens /\ Hands
  BY DEF Reach
<1>r. /\ list' \in Seq(Subs) /\ IsInjective(list') /\ shut' \subseteq Subs
      /\ Range(list') = Range(list) \ {s}
      /\ shut' = shut \/ (shut' = shut \cup {s} /\ s \in Range(list))
  BY RemoveKeeps
<1>p. \A x \in Subs : loop'[x] = loop[x] \/ (x = s /\ loop[s] = "error" /\ loop'[s] = "drain")
  BY <1>l DEF ListTypes
<1>c. Range(closing) \subseteq Subs /\ Range(list) \subseteq Subs
  BY <1>l, RangeOfSeq DEF ListTypes
<1>1. ListTypes'
  BY <1>l, <1>r DEF ListTypes
<1>2. Placed'
  <2>2. \A x \in Range(list') : x \notin shut' /\ loop'[x] \in Attached
    BY <1>r, <1>p, <1>c, <1>l DEF Placed
  <2>3. \A x \in Range(closing') \cup shut' : loop'[x] # "off" /\ x \notin Range(list')
    BY <1>r, <1>p, <1>c, <1>l DEF Placed, ListTypes, Attached
  <2> QED BY <1>r, <2>2, <2>3, <1>l DEF Placed
<1>3. Pens'
  BY <1>l, ExclusiveFrame DEF RemoveSubscriber, bufferVars
<1>4. Hands'
  BY <1>l, <1>p DEF bufferVars, Hands
<1> QED BY <1>1, <1>2, <1>3, <1>4, DataFrame DEF Reach

LEMMA DetachRemoveReach == ASSUME Reach, NEW s \in Subs, DetachRemove(s) PROVE Reach'
<1>1. detach' \in [Subs -> {"idle", "found", "wait", "gone"}]
  BY DEF DetachRemove, Reach, ListTypes
<1> QED BY <1>1, RemoveReach DEF DetachRemove

LEMMA RunFailsReach == ASSUME Reach, NEW s \in Subs, RunFails(s) PROVE Reach'
<1>1. detach' \in [Subs -> {"idle", "found", "wait", "gone"}]
  BY DEF RunFails, Reach, ListTypes
<1> QED BY <1>1, RemoveReach DEF RunFails

LEMMA HubCloseReach == ASSUME Reach, HubClose PROVE Reach'
<1>l. ListTypes /\ Placed /\ Pens /\ Hands
  BY DEF Reach
<1>1. ListTypes'
  BY <1>l, EmptyInjective DEF ListTypes, HubClose
<1>2. Placed'
  BY <1>l, EmptyInjective DEF Placed, HubClose, Attached
<1>3. Pens'
  BY <1>l, ExclusiveFrame DEF HubClose, bufferVars
<1>4. Hands'
  BY <1>l DEF bufferVars, Hands, HubClose
<1>5. UNCHANGED <<queue, hand, bufferVars, writerVars, historyVars>>
  BY DEF HubClose
<1> QED BY <1>1, <1>2, <1>3, <1>4, <1>5, DataFrame DEF Reach

LEMMA CloseNextReach == ASSUME Reach, CloseNext PROVE Reach'
<1>l. ListTypes /\ Placed /\ Pens /\ Hands
  BY DEF Reach
<1>r. /\ Tail(closing) \in Seq(Subs) /\ Head(closing) \in Range(closing) /\ Head(closing) \in Subs
      /\ IsInjective(Tail(closing)) /\ Range(Tail(closing)) = Range(closing) \ {Head(closing)}
  BY <1>l, TailRange DEF ListTypes, Placed, CloseNext
<1>1. ListTypes'
  BY <1>l, <1>r DEF ListTypes, CloseNext
<1>2. Placed'
  BY <1>l, <1>r DEF Placed, CloseNext
<1>3. Pens'
  BY <1>l DEF CloseNext, bufferVars, writerVars, Pens
<1>4. Hands'
  BY <1>l DEF bufferVars, Hands, CloseNext
<1>5. UNCHANGED <<queue, hand, bufferVars, writerVars, historyVars>>
  BY DEF CloseNext
<1> QED BY <1>1, <1>2, <1>3, <1>4, <1>5, DataFrame DEF Reach

-----------------------------------------------------------------------------
(* Writers                                                                  *)

\* The buffer Write takes.
Taken == IF pool = {} THEN allocated + 1 ELSE CHOOSE x \in pool : TRUE

LEMMA TakenIs ==
    ASSUME Reach, pool = {} => allocated < MaxBuffers
    PROVE  /\ Taken \in Buffers /\ Taken \in 1 .. allocated + 1
           /\ Taken = allocated + 1 \/ Taken \in pool
<1>1. allocated \in Nat /\ allocated <= MaxBuffers /\ MaxBuffers \in Nat
      /\ pool \subseteq 1 .. allocated
  BY HubConstants DEF Reach, BufferTypes, Hands
<1>2. CASE pool = {}
  BY <1>1, <1>2 DEF Taken, Buffers
<1>3. CASE pool # {}
  <2>1. Taken \in pool
    BY <1>3 DEF Taken
  <2>2. Taken \in 1 .. allocated
    BY <1>1, <2>1
  <2> HIDE DEF Taken
  <2> QED BY <1>1, <2>1, <2>2 DEF Buffers
<1> QED BY <1>2, <1>3

\* What Write does, in terms of the buffer it takes.
LEMMA WriteIs ==
    ASSUME NEW w \in Writers, Write(w)
    PROVE  /\ pen[w] = "idle" /\ list # << >> /\ wrote[w] < MaxWrites[w]
           /\ pool = {} => allocated < MaxBuffers
           /\ pool' = pool \ {Taken}
           /\ allocated' = IF Taken > allocated THEN Taken ELSE allocated
           /\ data' = [data EXCEPT ![Taken] = [by |-> w, n |-> wrote[w] + 1]]
           /\ count' = [count EXCEPT ![Taken] = Len(list)]
           /\ chunk' = [chunk EXCEPT ![w] = Taken]
           /\ wrote' = [wrote EXCEPT ![w] = @ + 1]
           /\ rest' = [rest EXCEPT ![w] = list]
           /\ pen' = [pen EXCEPT ![w] = "send"]
           /\ UNCHANGED <<queue, loop, hand, list, shut, detach, closing, received, served>>
BY DEF Write, Taken, listVars, historyVars

LEMMA WriteReach == ASSUME Reach, NEW w \in Writers, Write(w) PROVE Reach'
<1>l. ListTypes /\ BufferTypes /\ WriterTypes /\ Placed /\ Pens /\ Hands
  BY DEF Reach
<1>w. /\ pen[w] = "idle" /\ list # << >>
      /\ pool' = pool \ {Taken}
      /\ allocated' = IF Taken > allocated THEN Taken ELSE allocated
      /\ data' = [data EXCEPT ![Taken] = [by |-> w, n |-> wrote[w] + 1]]
      /\ chunk' = [chunk EXCEPT ![w] = Taken]
      /\ wrote' = [wrote EXCEPT ![w] = @ + 1]
      /\ rest' = [rest EXCEPT ![w] = list]
      /\ pen' = [pen EXCEPT ![w] = "send"]
      /\ UNCHANGED <<queue, loop, hand, list, shut, detach, closing, received, served>>
  BY WriteIs
<1>t. /\ Taken \in Buffers /\ Taken \in 1 .. allocated + 1
      /\ Taken = allocated + 1 \/ Taken \in pool
  BY WriteIs, TakenIs
<1>a. /\ allocated \in Nat /\ allocated' \in 0 .. MaxBuffers /\ allocated <= allocated'
      /\ Taken <= allocated' /\ Taken # Nil /\ Taken \in Nat
  BY <1>l, <1>w, <1>t, HubConstants DEF BufferTypes, Buffers, Nil
<1> HIDE DEF Taken
<1>1. ListTypes' /\ QueueTypes' /\ HistoryTypes'
  BY <1>w DEF Reach, ListTypes, QueueTypes, HistoryTypes
<1>2. BufferTypes'
  <2>1. [by |-> w, n |-> wrote[w] + 1] \in Messages
    BY <1>l DEF Messages, WriterTypes
  <2> QED BY <2>1, <1>l, <1>w, <1>t, <1>a DEF BufferTypes
<1>3. WriterTypes'
  BY <1>l, <1>w, <1>t DEF WriterTypes, ListTypes
<1>4. Placed'
  BY <1>l, <1>w DEF Placed
<1>5. Pens'
  <2> SUFFICES ASSUME NEW x \in Writers
               PROVE  /\ IsInjective(rest'[x]) /\ Range(rest'[x]) \subseteq Range(list')
                      /\ pen'[x] = "idle" <=> rest'[x] = << >>
                      /\ pen'[x] = "idle" <=> chunk'[x] = Nil
                      /\ chunk'[x] \in 0 .. allocated'
    BY DEF Pens
  <2>1. CASE x = w
    BY <2>1, <1>l, <1>w, <1>a DEF WriterTypes, Placed
  <2>2. CASE x # w
    <3>1. rest'[x] = rest[x] /\ pen'[x] = pen[x] /\ chunk'[x] = chunk[x] /\ list' = list
      BY <2>2, <1>l, <1>w DEF WriterTypes
    <3> QED BY <3>1, <1>l, <1>a DEF Pens
  <2> QED BY <2>1, <2>2
<1>6. Hands'
  <2>1. pool' \subseteq 1 .. allocated'
    BY <1>l, <1>w, <1>a DEF Hands
  <2> QED BY <2>1, <1>l, <1>w, <1>a DEF Hands
<1> QED BY <1>1, <1>2, <1>3, <1>4, <1>5, <1>6 DEF Reach

\* The subscriber a writer is serving.
LEMMA Serving ==
    ASSUME Reach, NEW w \in Writers, pen[w] # "idle"
    PROVE  /\ rest[w] \in Seq(Subs) /\ rest[w] # << >> /\ IsInjective(rest[w])
           /\ Head(rest[w]) \in Subs /\ Head(rest[w]) \in Range(rest[w])
           /\ Head(rest[w]) \in Range(list) /\ loop[Head(rest[w])] \in Attached
           /\ chunk[w] \in 1 .. allocated /\ chunk[w] \in Buffers /\ chunk[w] # Nil
           /\ Tail(rest[w]) \in Seq(Subs) /\ IsInjective(Tail(rest[w]))
           /\ Range(Tail(rest[w])) = Range(rest[w]) \ {Head(rest[w])}
           /\ Tail(rest[w]) = << >> <=> Len(rest[w]) = 1
           /\ Len(rest[w]) \in Nat /\ Len(rest[w]) >= 1 /\ Len(Tail(rest[w])) = Len(rest[w]) - 1
<1>1. /\ rest[w] \in Seq(Subs) /\ rest[w] # << >> /\ IsInjective(rest[w])
      /\ Range(rest[w]) \subseteq Range(list) /\ chunk[w] # Nil
      /\ chunk[w] \in 0 .. allocated /\ allocated \in Nat /\ chunk[w] \in Buffers \cup {Nil}
  BY HubConstants DEF Reach, Pens, WriterTypes, BufferTypes
<1>2. /\ Tail(rest[w]) \in Seq(Subs) /\ Head(rest[w]) \in Range(rest[w])
      /\ Head(rest[w]) \in Subs /\ IsInjective(Tail(rest[w]))
      /\ Range(Tail(rest[w])) = Range(rest[w]) \ {Head(rest[w])}
  BY <1>1, TailRange
<1>3. /\ Tail(rest[w]) = << >> <=> Len(rest[w]) = 1
      /\ Len(rest[w]) \in Nat /\ Len(rest[w]) >= 1 /\ Len(Tail(rest[w])) = Len(rest[w]) - 1
  BY <1>1, HeadOf
<1>4. loop[Head(rest[w])] \in Attached
  BY <1>1, <1>2 DEF Reach, Placed
<1> QED BY <1>1, <1>2, <1>3, <1>4 DEF Nil

LEMMA NextSubscriberKeeps ==
    ASSUME Reach, NEW w \in Writers, pen[w] # "idle", NextSubscriber(w),
           UNCHANGED <<list, allocated>>
    PROVE  Pens' /\ WriterTypes'
<1>l. WriterTypes /\ Pens
  BY DEF Reach
<1>s. /\ IsInjective(rest[w]) /\ Range(rest[w]) \subseteq Range(list)
      /\ chunk[w] \in 1 .. allocated /\ chunk[w] \in Buffers /\ chunk[w] # Nil
      /\ Tail(rest[w]) \in Seq(Subs) /\ IsInjective(Tail(rest[w]))
      /\ Range(Tail(rest[w])) \subseteq Range(rest[w])
      /\ Tail(rest[w]) = << >> <=> Len(rest[w]) = 1
  BY <1>l, Serving DEF Pens
<1>a. allocated \in Nat
  BY HubConstants DEF Reach, BufferTypes
<1>1. WriterTypes'
  BY <1>l, <1>s DEF NextSubscriber, WriterTypes
<1>2. ASSUME NEW x \in Writers
      PROVE  /\ IsInjective(rest'[x]) /\ Range(rest'[x]) \subseteq Range(list')
             /\ pen'[x] = "idle" <=> rest'[x] = << >>
             /\ pen'[x] = "idle" <=> chunk'[x] = Nil
             /\ chunk'[x] \in 0 .. allocated'
  <2>1. CASE x = w
    <3>1. /\ rest'[w] = Tail(rest[w])
          /\ pen'[w] = IF Len(rest[w]) = 1 THEN "idle" ELSE "send"
          /\ chunk'[w] = IF Len(rest[w]) = 1 THEN Nil ELSE chunk[w]
      BY <1>l DEF NextSubscriber, WriterTypes
    <3>2. list' = list /\ allocated' = allocated
      OBVIOUS
    <3>3. IsInjective(rest'[w]) /\ Range(rest'[w]) \subseteq Range(list')
      BY <3>1, <3>2, <1>s
    <3>4. /\ pen'[w] = "idle" <=> rest'[w] = << >>
          /\ pen'[w] = "idle" <=> chunk'[w] = Nil
      BY <3>1, <1>s
    <3>5. chunk'[w] \in 0 .. allocated'
      BY <3>1, <3>2, <1>s, <1>a DEF Nil
    <3> QED BY <2>1, <3>3, <3>4, <3>5
  <2>2. CASE x # w
    <3>1. rest'[x] = rest[x] /\ pen'[x] = pen[x] /\ chunk'[x] = chunk[x] /\ list' = list
      BY <2>2, <1>l DEF WriterTypes, NextSubscriber
    <3> QED BY <3>1, <1>l DEF Pens
  <2> QED BY <2>1, <2>2
<1> QED BY <1>1, <1>2 DEF Pens

LEMMA ReleaseKeeps ==
    ASSUME Reach, NEW b \in 1 .. allocated, ReleaseChunk(b)
    PROVE  BufferTypes' /\ pool' \subseteq 1 .. allocated' /\ allocated' = allocated
<1>1. b \in Buffers
  BY HubConstants DEF Reach, BufferTypes, Buffers
<1> QED BY <1>1 DEF Reach, BufferTypes, ReleaseChunk, Hands

\* Taking the head off a queue.
LEMMA QueueTail ==
    ASSUME Reach, NEW s \in Subs, queue[s] # << >>, queue' = [queue EXCEPT ![s] = Tail(@)]
    PROVE  /\ Head(queue[s]) \in 1 .. allocated /\ Head(queue[s]) \in Buffers
           /\ queue' \in [Subs -> Seq(Buffers)]
           /\ \A x \in Subs : /\ Len(queue'[x]) <= QueueSize
                              /\ \A i \in DOMAIN queue'[x] : queue'[x][i] \in 1 .. allocated
                              /\ queue[x] = << >> => queue'[x] = << >>
<1>1. /\ queue[s] \in Seq(Buffers) /\ Len(queue[s]) <= QueueSize /\ QueueSize \in Nat
      /\ \A i \in DOMAIN queue[s] : queue[s][i] \in 1 .. allocated
  BY HubConstants DEF Reach, QueueTypes, Hands
<1>2. /\ Head(queue[s]) = queue[s][1] /\ Head(queue[s]) \in Buffers
      /\ 1 \in DOMAIN queue[s] /\ DOMAIN queue[s] = 1 .. Len(queue[s])
      /\ Tail(queue[s]) \in Seq(Buffers) /\ Len(Tail(queue[s])) = Len(queue[s]) - 1
      /\ DOMAIN Tail(queue[s]) = 1 .. Len(queue[s]) - 1
      /\ \A i \in 1 .. Len(queue[s]) - 1 : Tail(queue[s])[i] = queue[s][i + 1]
      /\ Len(queue[s]) \in Nat
  BY <1>1, HeadOf
<1>3. \A i \in DOMAIN Tail(queue[s]) : Tail(queue[s])[i] \in 1 .. allocated
  BY <1>1, <1>2
<1>4. ASSUME NEW x \in Subs
      PROVE  /\ queue'[x] \in Seq(Buffers) /\ Len(queue'[x]) <= QueueSize
             /\ \A i \in DOMAIN queue'[x] : queue'[x][i] \in 1 .. allocated
             /\ queue[x] = << >> => queue'[x] = << >>
  <2>1. CASE x = s
    <3>1. queue'[x] = Tail(queue[s])
      BY <2>1 DEF Reach, QueueTypes
    <3> QED BY <2>1, <3>1, <1>1, <1>2, <1>3
  <2>2. CASE x # s
    <3>1. queue'[x] = queue[x]
      BY <2>2 DEF Reach, QueueTypes
    <3> QED BY <3>1 DEF Reach, QueueTypes, Hands
  <2> QED BY <2>1, <2>2
<1>5. queue' = [x \in Subs |-> queue'[x]]
  BY DEF Reach, QueueTypes
<1> QED BY <1>1, <1>2, <1>4, <1>5

\* A send that succeeds.
LEMMA QueueAppend ==
    ASSUME Reach, NEW s \in Subs, NEW b \in 1 .. allocated, Len(queue[s]) < QueueSize,
           queue' = [queue EXCEPT ![s] = Append(@, b)]
    PROVE  /\ queue' \in [Subs -> Seq(Buffers)]
           /\ \A x \in Subs : /\ Len(queue'[x]) <= QueueSize
                              /\ \A i \in DOMAIN queue'[x] : queue'[x][i] \in 1 .. allocated
                              /\ x # s => queue'[x] = queue[x]
<1>1. /\ queue[s] \in Seq(Buffers) /\ QueueSize \in Nat /\ b \in Buffers
      /\ \A i \in DOMAIN queue[s] : queue[s][i] \in 1 .. allocated
  BY HubConstants DEF Reach, QueueTypes, Hands, BufferTypes, Buffers
<1>2. /\ Append(queue[s], b) \in Seq(Buffers) /\ Len(Append(queue[s], b)) = Len(queue[s]) + 1
      /\ Range(Append(queue[s], b)) = Range(queue[s]) \cup {b}
      /\ Len(queue[s]) \in Nat
  BY <1>1, AppendRange
<1>3. \A i \in DOMAIN Append(queue[s], b) : Append(queue[s], b)[i] \in 1 .. allocated
  BY <1>1, <1>2 DEF Range
<1>4. ASSUME NEW x \in Subs
      PROVE  /\ queue'[x] \in Seq(Buffers) /\ Len(queue'[x]) <= QueueSize
             /\ \A i \in DOMAIN queue'[x] : queue'[x][i] \in 1 .. allocated
             /\ x # s => queue'[x] = queue[x]
  <2>1. CASE x = s
    <3>1. queue'[x] = Append(queue[s], b)
      BY <2>1 DEF Reach, QueueTypes
    <3> QED BY <2>1, <3>1, <1>1, <1>2, <1>3
  <2>2. CASE x # s
    <3>1. queue'[x] = queue[x]
      BY <2>2 DEF Reach, QueueTypes
    <3> QED BY <3>1 DEF Reach, QueueTypes, Hands
  <2> QED BY <2>1, <2>2
<1>5. queue' = [x \in Subs |-> queue'[x]]
  BY DEF Reach, QueueTypes
<1> QED BY <1>4, <1>5

LEMMA EnqueuedReach ==
    ASSUME Reach, NEW w \in Writers, pen[w] # "idle", Enqueued(w, Head(rest[w]))
    PROVE  Reach'
<1> DEFINE s == Head(rest[w])
<1>s. s \in Subs /\ loop[s] \in Attached /\ chunk[w] \in 1 .. allocated
  BY Serving
<1>u. /\ UNCHANGED <<loop, hand, received, count, data, pool, allocated, list, shut, detach, closing>>
      /\ NextSubscriber(w)
      /\ Len(queue[s]) < QueueSize
      /\ queue' = [queue EXCEPT ![s] = Append(@, chunk[w])]
      /\ served' = [served EXCEPT ![s][w] = wrote[w]]
  BY DEF Enqueued, bufferVars, listVars
<1> HIDE DEF s
<1>1. Pens' /\ WriterTypes'
  BY <1>u, NextSubscriberKeeps
<1>2. /\ queue' \in [Subs -> Seq(Buffers)]
      /\ \A x \in Subs : /\ Len(queue'[x]) <= QueueSize
                         /\ \A i \in DOMAIN queue'[x] : queue'[x][i] \in 1 .. allocated
                         /\ x # s => queue'[x] = queue[x]
  BY <1>s, <1>u, QueueAppend
<1>3. QueueTypes'
  BY <1>2, <1>u DEF Reach, QueueTypes
<1>4. ListTypes' /\ BufferTypes' /\ Placed'
  BY <1>u DEF Reach, ListTypes, BufferTypes, Placed
<1>5. HistoryTypes'
  BY <1>u, <1>s DEF Reach, HistoryTypes, WriterTypes
<1>6. Hands'
  BY <1>u, <1>s, <1>2 DEF Reach, Hands, Attached
<1> QED BY <1>1, <1>3, <1>4, <1>5, <1>6 DEF Reach

\* A writer goes on to the next select of enqueue.
LEMMA PenMoves ==
    ASSUME Reach, NEW w \in Writers, pen[w] # "idle", NEW p \in {"drop", "resend"},
           pen' = [pen EXCEPT ![w] = p], UNCHANGED <<chunk, rest, wrote, list, allocated>>
    PROVE  Pens' /\ WriterTypes'
<1>1. WriterTypes'
  BY DEF Reach, WriterTypes
<1>2. \A x \in Writers : pen'[x] = "idle" <=> pen[x] = "idle"
  BY DEF Reach, WriterTypes
<1>3. Pens'
  BY <1>2 DEF Reach, Pens
<1> QED BY <1>1, <1>3

LEMMA SendReach == ASSUME Reach, NEW w \in Writers, Send(w) PROVE Reach'
<1>1. pen[w] # "idle"
  BY DEF Send
<1>2. CASE Enqueued(w, Head(rest[w]))
  BY <1>1, <1>2, EnqueuedReach
<1>3. CASE /\ pen' = [pen EXCEPT ![w] = "drop"]
           /\ UNCHANGED <<chunk, rest, wrote, queue, loop, hand, bufferVars, listVars, historyVars>>
  <2>1. Pens' /\ WriterTypes'
    BY <1>1, <1>3, PenMoves DEF bufferVars, listVars
  <2>2. ListTypes' /\ BufferTypes' /\ Placed' /\ QueueTypes' /\ HistoryTypes' /\ Hands'
    BY <1>3 DEF Reach, ListTypes, BufferTypes, Placed, QueueTypes, HistoryTypes, Hands,
                bufferVars, listVars, historyVars
  <2> QED BY <2>1, <2>2 DEF Reach
<1> QED BY <1>2, <1>3 DEF Send

LEMMA DropReach == ASSUME Reach, NEW w \in Writers, DropOldest(w) PROVE Reach'
<1>1. pen[w] # "idle"
  BY DEF DropOldest
<1> DEFINE s == Head(rest[w])
<1>s. s \in Subs
  BY <1>1, Serving
<1>u. /\ pen' = [pen EXCEPT ![w] = "resend"]
      /\ UNCHANGED <<chunk, rest, wrote, loop, hand, list, shut, detach, closing, received, served>>
      /\ \/ queue[s] # << >> /\ queue' = [queue EXCEPT ![s] = Tail(@)] /\ ReleaseChunk(Head(queue[s]))
         \/ queue[s] = << >> /\ UNCHANGED <<queue, bufferVars>>
  BY DEF DropOldest, listVars, historyVars
<1> HIDE DEF s
<1>2. ListTypes' /\ Placed' /\ HistoryTypes'
  BY <1>u DEF Reach, ListTypes, Placed, HistoryTypes
<1>3. CASE queue[s] = << >> /\ UNCHANGED <<queue, bufferVars>>
  <2>1. Pens' /\ WriterTypes'
    BY <1>1, <1>u, <1>3, PenMoves DEF bufferVars
  <2>2. BufferTypes' /\ QueueTypes' /\ Hands'
    BY <1>u, <1>3 DEF Reach, BufferTypes, QueueTypes, Hands, bufferVars
  <2> QED BY <1>2, <2>1, <2>2 DEF Reach
<1>4. CASE queue[s] # << >> /\ queue' = [queue EXCEPT ![s] = Tail(@)] /\ ReleaseChunk(Head(queue[s]))
  <2>1. /\ Head(queue[s]) \in 1 .. allocated
        /\ queue' \in [Subs -> Seq(Buffers)]
        /\ \A x \in Subs : /\ Len(queue'[x]) <= QueueSize
                           /\ \A i \in DOMAIN queue'[x] : queue'[x][i] \in 1 .. allocated
                           /\ queue[x] = << >> => queue'[x] = << >>
    BY <1>s, <1>4, QueueTail
  <2>2. BufferTypes' /\ pool' \subseteq 1 .. allocated' /\ allocated' = allocated
    BY <1>4, <2>1, ReleaseKeeps
  <2>3. Pens' /\ WriterTypes'
    BY <1>1, <1>u, <2>2, PenMoves
  <2>4. QueueTypes' /\ Hands'
    BY <1>u, <2>1, <2>2 DEF Reach, QueueTypes, Hands
  <2> QED BY <1>2, <2>2, <2>3, <2>4 DEF Reach
<1> QED BY <1>u, <1>3, <1>4

LEMMA ResendReach == ASSUME Reach, NEW w \in Writers, Resend(w) PROVE Reach'
<1>1. pen[w] # "idle"
  BY DEF Resend
<1>2. CASE Enqueued(w, Head(rest[w]))
  BY <1>1, <1>2, EnqueuedReach
<1>3. CASE /\ ReleaseChunk(chunk[w]) /\ NextSubscriber(w)
           /\ UNCHANGED <<queue, loop, hand, listVars, historyVars>>
  <2>1. BufferTypes' /\ pool' \subseteq 1 .. allocated' /\ allocated' = allocated
    BY <1>1, <1>3, Serving, ReleaseKeeps
  <2>2. Pens' /\ WriterTypes'
    BY <1>1, <1>3, <2>1, NextSubscriberKeeps DEF listVars
  <2>3. ListTypes' /\ Placed' /\ QueueTypes' /\ HistoryTypes' /\ Hands'
    BY <1>3, <2>1 DEF Reach, ListTypes, Placed, QueueTypes, HistoryTypes, Hands, listVars,
                      historyVars
  <2> QED BY <2>1, <2>2, <2>3 DEF Reach
<1> QED BY <1>2, <1>3 DEF Resend

-----------------------------------------------------------------------------
(* Subscribers                                                              *)

\* The goroutine of a subscriber moves on; the list does not change.
LEMMA LoopMoves ==
    ASSUME Reach, NEW s \in Subs,
           NEW p \in {"receive", "write", "error", "drain", "done"},
           loop' = [loop EXCEPT ![s] = p], loop[s] # "off",
           p \in Attached \/ loop[s] \notin Attached \/ s \in shut,
           UNCHANGED <<list, shut, detach, closing>>
    PROVE  ListTypes' /\ Placed' /\ \A x \in Subs : loop'[x] = IF x = s THEN p ELSE loop[x]
<1>l. ListTypes /\ Placed
  BY DEF Reach
<1>1. \A x \in Subs : loop'[x] = IF x = s THEN p ELSE loop[x]
  BY <1>l DEF ListTypes
<1>2. ListTypes'
  BY <1>l DEF ListTypes
<1>3. Range(closing) \subseteq Subs /\ Range(list) \subseteq Subs /\ shut \subseteq Subs
  BY <1>l, RangeOfSeq DEF ListTypes
<1>4. Placed'
  BY <1>l, <1>1, <1>3 DEF Placed
<1> QED BY <1>1, <1>2, <1>4

LEMMA ReceivesReach == ASSUME Reach, NEW s \in Subs, RunReceives(s) PROVE Reach'
<1>l. ListTypes /\ Placed /\ Hands /\ QueueTypes
  BY DEF Reach
<1>u. /\ loop[s] = "receive" /\ UNCHANGED <<bufferVars, writerVars, listVars, historyVars>>
  BY DEF RunReceives
<1>1. BufferTypes' /\ WriterTypes' /\ HistoryTypes' /\ Pens'
  BY <1>u DEF Reach, BufferTypes, WriterTypes, HistoryTypes, Pens, bufferVars, writerVars,
              historyVars, listVars
<1>2. CASE /\ queue[s] # << >>
           /\ hand' = [hand EXCEPT ![s] = Head(queue[s])]
           /\ queue' = [queue EXCEPT ![s] = Tail(@)]
           /\ loop' = [loop EXCEPT ![s] = "write"]
  <2>1. /\ Head(queue[s]) \in 1 .. allocated /\ Head(queue[s]) \in Buffers
        /\ queue' \in [Subs -> Seq(Buffers)]
        /\ \A x \in Subs : /\ Len(queue'[x]) <= QueueSize
                           /\ \A i \in DOMAIN queue'[x] : queue'[x][i] \in 1 .. allocated
                           /\ queue[x] = << >> => queue'[x] = << >>
    BY <1>2, QueueTail
  <2>2. ListTypes' /\ Placed' /\ \A x \in Subs : loop'[x] = IF x = s THEN "write" ELSE loop[x]
    BY <1>u, <1>2, LoopMoves DEF Attached, listVars
  <2>3. \A x \in Subs : hand'[x] = IF x = s THEN Head(queue[s]) ELSE hand[x]
    BY <1>l, <1>2 DEF QueueTypes
  <2>4. QueueTypes'
    BY <1>l, <1>2, <2>1 DEF QueueTypes
  <2>5. Hands'
    <3>1. /\ pool' = pool /\ allocated' = allocated
          /\ Head(queue[s]) # Nil /\ Head(queue[s]) \in 0 .. allocated
      BY <1>u, <2>1 DEF bufferVars, Nil
    <3> QED BY <1>l, <3>1, <2>1, <2>2, <2>3 DEF Hands
  <2> QED BY <1>1, <2>2, <2>4, <2>5 DEF Reach
<1>3. CASE /\ queue[s] = << >> /\ s \in shut
           /\ loop' = [loop EXCEPT ![s] = "drain"]
           /\ UNCHANGED <<hand, queue>>
  <2>2. ListTypes' /\ Placed' /\ \A x \in Subs : loop'[x] = IF x = s THEN "drain" ELSE loop[x]
    BY <1>u, <1>3, LoopMoves DEF listVars
  <2>4. QueueTypes'
    BY <1>l, <1>3 DEF QueueTypes
  <2>5. Hands'
    BY <1>l, <1>u, <1>3, <2>2 DEF Hands, bufferVars
  <2> QED BY <1>1, <2>2, <2>4, <2>5 DEF Reach
<1> QED BY <1>2, <1>3 DEF RunReceives

LEMMA WritesReach == ASSUME Reach, NEW s \in Subs, RunWrites(s) PROVE Reach'
<1>l. ListTypes /\ Placed /\ Hands /\ QueueTypes /\ BufferTypes /\ HistoryTypes
  BY DEF Reach
<1>u. /\ loop[s] = "write" /\ ReleaseChunk(hand[s]) /\ hand' = [hand EXCEPT ![s] = Nil]
      /\ UNCHANGED <<queue, served, writerVars, listVars>>
      /\ \/ /\ received' = [received EXCEPT ![s][data[hand[s]].by] = data[hand[s]].n]
            /\ loop' = [loop EXCEPT ![s] = "receive"]
         \/ /\ loop' = [loop EXCEPT ![s] = "error"]
            /\ UNCHANGED received
  BY DEF RunWrites
<1>h. hand[s] \in 1 .. allocated /\ hand[s] \in Buffers
  <2>1. hand[s] # Nil /\ hand[s] \in 0 .. allocated /\ allocated \in Nat
    BY <1>l, <1>u, HubConstants DEF Hands, BufferTypes
  <2> QED BY <2>1, <1>l DEF Nil, QueueTypes
<1>1. BufferTypes' /\ pool' \subseteq 1 .. allocated' /\ allocated' = allocated
  BY <1>u, <1>h, ReleaseKeeps
<1>2. WriterTypes' /\ Pens'
  BY <1>u, <1>1 DEF Reach, WriterTypes, Pens, writerVars, listVars
<1>3. HistoryTypes'
  <2>1. data[hand[s]].by \in Writers /\ data[hand[s]].n \in Nat
    BY <1>l, <1>h DEF BufferTypes, Messages
  <2>2. CASE received' = [received EXCEPT ![s][data[hand[s]].by] = data[hand[s]].n]
    BY <2>1, <2>2, <1>l, <1>u DEF HistoryTypes
  <2>3. CASE UNCHANGED received
    BY <2>3, <1>l, <1>u DEF HistoryTypes
  <2> QED BY <2>2, <2>3, <1>u
<1>4. PICK p \in {"receive", "error"} : loop' = [loop EXCEPT ![s] = p]
  BY <1>u
<1>5. ListTypes' /\ Placed' /\ \A x \in Subs : loop'[x] = IF x = s THEN p ELSE loop[x]
  <2>1. p \in Attached /\ p \in {"receive", "write", "error", "drain", "done"} /\ loop[s] # "off"
    BY <1>u, <1>4 DEF Attached
  <2>2. UNCHANGED <<list, shut, detach, closing>>
    BY <1>u DEF listVars
  <2> QED BY <1>4, <2>1, <2>2, LoopMoves
<1>6. QueueTypes'
  BY <1>l, <1>u DEF QueueTypes
<1>7. Hands'
  <2>1. \A x \in Subs : hand'[x] = IF x = s THEN Nil ELSE hand[x]
    BY <1>l, <1>u DEF QueueTypes
  <2>2. allocated \in Nat /\ queue' = queue
    BY <1>l, <1>u DEF BufferTypes
  <2>3. p # "write" /\ p \notin {"off", "done"}
    BY <1>4
  <2> QED BY <1>l, <1>u, <1>1, <1>5, <2>1, <2>2, <2>3 DEF Hands, Nil
<1> QED BY <1>1, <1>2, <1>3, <1>5, <1>6, <1>7 DEF Reach

LEMMA DrainsReach == ASSUME Reach, NEW s \in Subs, RunDrains(s) PROVE Reach'
<1>l. ListTypes /\ Placed /\ Hands /\ QueueTypes
  BY DEF Reach
<1>u. loop[s] = "drain" /\ UNCHANGED <<hand, writerVars, listVars, historyVars>>
  BY DEF RunDrains
<1>1. WriterTypes' /\ HistoryTypes'
  BY <1>u DEF Reach, WriterTypes, HistoryTypes, writerVars, historyVars
<1>2. CASE /\ queue[s] # << >> /\ queue' = [queue EXCEPT ![s] = Tail(@)]
           /\ ReleaseChunk(Head(queue[s])) /\ UNCHANGED loop
  <2>1. /\ Head(queue[s]) \in 1 .. allocated
        /\ queue' \in [Subs -> Seq(Buffers)]
        /\ \A x \in Subs : /\ Len(queue'[x]) <= QueueSize
                           /\ \A i \in DOMAIN queue'[x] : queue'[x][i] \in 1 .. allocated
                           /\ queue[x] = << >> => queue'[x] = << >>
    BY <1>2, QueueTail
  <2>2. BufferTypes' /\ pool' \subseteq 1 .. allocated' /\ allocated' = allocated
    BY <1>2, <2>1, ReleaseKeeps
  <2>3. QueueTypes' /\ Hands'
    BY <1>l, <1>u, <1>2, <2>1, <2>2 DEF QueueTypes, Hands
  <2>4. ListTypes' /\ Placed' /\ Pens'
    BY <1>l, <1>u, <1>2, <2>2 DEF Reach, ListTypes, Placed, Pens, listVars, writerVars
  <2> QED BY <1>1, <2>2, <2>3, <2>4 DEF Reach
<1>3. CASE queue[s] = << >> /\ loop' = [loop EXCEPT ![s] = "done"] /\ UNCHANGED <<queue, bufferVars>>
  <2>1. ListTypes' /\ Placed' /\ \A x \in Subs : loop'[x] = IF x = s THEN "done" ELSE loop[x]
    BY <1>u, <1>3, LoopMoves DEF Attached, listVars
  <2>2. BufferTypes' /\ QueueTypes' /\ Pens'
    BY <1>u, <1>3 DEF Reach, BufferTypes, QueueTypes, Pens, bufferVars, listVars, writerVars
  <2>3. Hands'
    BY <1>l, <1>u, <1>3, <2>1 DEF Hands, bufferVars
  <2> QED BY <1>1, <2>1, <2>2, <2>3 DEF Reach
<1> QED BY <1>2, <1>3 DEF RunDrains

LEMMA ReachStep == ASSUME Reach, [HubNext]_hubVars PROVE Reach'
<1>1. CASE UNCHANGED hubVars
  BY <1>1 DEF hubVars, Reach, ListTypes, QueueTypes, BufferTypes, WriterTypes, HistoryTypes,
              Placed, Pens, Hands
<1>2. CASE HubNext
  BY <1>2, AttachReach, DetachingReach, DetachRemoveReach, RunFailsReach, HubCloseReach,
     CloseNextReach, WriteReach, SendReach, DropReach, ResendReach, ReceivesReach,
     WritesReach, DrainsReach DEF HubNext
<1> QED BY <1>1, <1>2

LEMMA ReachAlways == HubSpec => []Reach
BY ReachInit, ReachStep, PTL DEF HubSpec

LEMMA ReachUnreachable == Reach => ClosedIsUnreachable
<1> SUFFICES ASSUME Reach, NEW s \in Subs
             PROVE  /\ s \in shut \/ loop[s] \in {"drain", "done"} =>
                         ~Listed(s) /\ \A w \in Writers : \A i \in DOMAIN rest[w] : rest[w][i] # s
                    /\ loop[s] = "done" => queue[s] = << >>
  BY DEF ClosedIsUnreachable
<1>1. loop[s] = "done" => queue[s] = << >>
  BY DEF Reach, Hands
<1>2. ASSUME s \in shut \/ loop[s] \in {"drain", "done"} PROVE s \notin Range(list)
  BY <1>2 DEF Reach, Placed, Attached
<1>3. s \notin Range(list) =>
        ~Listed(s) /\ \A w \in Writers : \A i \in DOMAIN rest[w] : rest[w][i] # s
  BY DEF Reach, Pens, Listed, Range
<1> QED BY <1>1, <1>2, <1>3

(* No writer ever sends on a closed channel, and a subscriber that is done  *)
(* keeps no chunk, for any number of writers and subscribers: Attach,       *)
(* Detach, Close and a failing subscriber change the list only while no     *)
(* writer is in enqueue, and a channel is closed by whoever takes the       *)
(* subscriber off the list (dynamicmultiwriter.go 45-110, 153-205).         *)
THEOREM NoSendOnClosed == HubSpec => []ClosedIsUnreachable
BY ReachAlways, ReachUnreachable, PTL

-----------------------------------------------------------------------------
(* The invariant, second layer: who refers to a buffer                      *)

\* The references QueueRefs, HandRefs and WriterRefs count, as sets.
InQueues(q, b) == {x \in Subs \X (1 .. QueueSize) : x[2] \in DOMAIN q[x[1]] /\ q[x[1]][x[2]] = b}
InHands(h, b) == {s \in Subs : h[s] = b}
ByWriters(c, r, b) ==
    {x \in Writers \X (1 .. Cardinality(Subs)) : c[x[1]] = b /\ x[2] \in DOMAIN r[x[1]]}

LEMMA RefsFinite ==
    ASSUME NEW q, NEW h, NEW c, NEW r, NEW b
    PROVE  /\ IsFiniteSet(InQueues(q, b)) /\ Cardinality(InQueues(q, b)) \in Nat
           /\ IsFiniteSet(InHands(h, b)) /\ Cardinality(InHands(h, b)) \in Nat
           /\ IsFiniteSet(ByWriters(c, r, b)) /\ Cardinality(ByWriters(c, r, b)) \in Nat
<1>1. /\ IsFiniteSet(Subs) /\ IsFiniteSet(Writers) /\ QueueSize \in Nat
      /\ Cardinality(Subs) \in Nat
  BY HubConstants, FS_CardinalityType
<1>2. IsFiniteSet(1 .. QueueSize) /\ IsFiniteSet(1 .. Cardinality(Subs))
  BY <1>1, FS_Interval
<1>3. IsFiniteSet(Subs \X (1 .. QueueSize)) /\ IsFiniteSet(Writers \X (1 .. Cardinality(Subs)))
  BY <1>1, <1>2, FS_Product
<1>4. /\ InQueues(q, b) \in SUBSET (Subs \X (1 .. QueueSize))
      /\ InHands(h, b) \in SUBSET Subs
      /\ ByWriters(c, r, b) \in SUBSET (Writers \X (1 .. Cardinality(Subs)))
  BY DEF InQueues, InHands, ByWriters
<1>5. IsFiniteSet(InQueues(q, b)) /\ IsFiniteSet(InHands(h, b)) /\ IsFiniteSet(ByWriters(c, r, b))
  BY <1>1, <1>3, <1>4, FS_Subset
<1> QED BY <1>5, FS_CardinalityType

\* A buffer is appended to a queue that has room.
Sent(q, q1, s, c) ==
    /\ q \in [Subs -> Seq(Buffers)] /\ c \in Buffers /\ Len(q[s]) < QueueSize
    /\ q1[s] = Append(q[s], c) /\ \A x \in Subs : x # s => q1[x] = q[x]

LEMMA AppendRefs ==
    ASSUME NEW q, NEW q1, NEW s \in Subs, NEW c, NEW b, Sent(q, q1, s, c)
    PROVE  Cardinality(InQueues(q1, b)) = Cardinality(InQueues(q, b)) + (IF b = c THEN 1 ELSE 0)
<1> DEFINE new == <<s, Len(q[s]) + 1>>
<1>1. /\ q1[s] = Append(q[s], c) /\ \A x \in Subs : x # s => q1[x] = q[x]
      /\ q[s] \in Seq(Buffers) /\ Len(q[s]) \in Nat /\ QueueSize \in Nat
      /\ c \in Buffers /\ Len(q[s]) < QueueSize
  BY HubConstants DEF Sent
<1>2. /\ DOMAIN q[s] = 1 .. Len(q[s]) /\ DOMAIN q1[s] = 1 .. Len(q[s]) + 1
      /\ q1[s][Len(q[s]) + 1] = c /\ \A i \in 1 .. Len(q[s]) : q1[s][i] = q[s][i]
  BY <1>1
<1>3. new \in Subs \X (1 .. QueueSize) /\ new[1] = s /\ new[2] = Len(q[s]) + 1
  BY <1>1
<1>4. ASSUME NEW x \in Subs \X (1 .. QueueSize)
      PROVE  x \in InQueues(q1, b) <=> x \in InQueues(q, b) \/ (x = new /\ b = c)
  <2>1. PICK y \in Subs, i \in 1 .. QueueSize : x = <<y, i>>
    OBVIOUS
  <2>2. x[1] = y /\ x[2] = i /\ i \in Nat
    BY <2>1, <1>1
  <2>3. CASE y # s
    BY <2>1, <2>2, <2>3, <1>1 DEF InQueues
  <2>4. CASE y = s /\ i \in 1 .. Len(q[s])
    <3>1. x # new
      BY <2>1, <2>4, <1>1
    <3> QED BY <2>2, <2>4, <3>1, <1>2 DEF InQueues
  <2>5. CASE y = s /\ i = Len(q[s]) + 1
    <3>1. x = new /\ i \notin DOMAIN q[s] /\ i \in DOMAIN q1[s]
      BY <2>1, <2>5, <1>1, <1>2
    <3> QED BY <2>2, <2>5, <3>1, <1>2 DEF InQueues
  <2>6. CASE y = s /\ i > Len(q[s]) + 1
    <3>1. x # new /\ i \notin DOMAIN q[s] /\ i \notin DOMAIN q1[s]
      BY <2>1, <2>6, <1>1, <1>2
    <3> QED BY <2>2, <2>6, <3>1 DEF InQueues
  <2>7. \/ y # s \/ (y = s /\ i \in 1 .. Len(q[s]))
        \/ (y = s /\ i = Len(q[s]) + 1) \/ (y = s /\ i > Len(q[s]) + 1)
    BY <2>2, <1>1
  <2> QED BY <2>3, <2>4, <2>5, <2>6, <2>7
<1>5. new \notin InQueues(q, b)
  BY <1>1, <1>2, <1>3 DEF InQueues
<1>6. InQueues(q1, b) = IF b = c THEN InQueues(q, b) \cup {new} ELSE InQueues(q, b)
  <2>1. InQueues(q1, b) \subseteq Subs \X (1 .. QueueSize)
        /\ InQueues(q, b) \subseteq Subs \X (1 .. QueueSize)
    BY DEF InQueues
  <2> HIDE DEF new
  <2> QED BY <1>3, <1>4, <2>1
<1>7. IsFiniteSet(InQueues(q, b)) /\ Cardinality(InQueues(q, b)) \in Nat
  BY RefsFinite
<1>8. Cardinality(InQueues(q, b) \cup {new}) = Cardinality(InQueues(q, b)) + 1
  BY <1>5, <1>7, FS_AddElement
<1> QED BY <1>6, <1>7, <1>8

\* The head of a queue is taken: the others move up, which is a bijection.
LEMMA TailRefs ==
    ASSUME NEW q \in [Subs -> Seq(Buffers)], NEW s \in Subs, NEW b,
           q[s] # << >>, Len(q[s]) <= QueueSize
    PROVE  Cardinality(InQueues([q EXCEPT ![s] = Tail(@)], b)) =
             Cardinality(InQueues(q, b)) - (IF b = Head(q[s]) THEN 1 ELSE 0)
<1> DEFINE q1 == [q EXCEPT ![s] = Tail(@)]
           old == <<s, 1>>
           Others == InQueues(q, b) \ {old}
           up == [x \in InQueues(q1, b) |-> IF x[1] = s THEN <<s, x[2] + 1>> ELSE x]
<1>1. /\ q1[s] = Tail(q[s]) /\ \A x \in Subs : x # s => q1[x] = q[x]
      /\ QueueSize \in Nat
  BY HubConstants
<1>2. /\ Head(q[s]) = q[s][1] /\ Len(q[s]) \in Nat /\ Len(q[s]) >= 1
      /\ DOMAIN q[s] = 1 .. Len(q[s]) /\ DOMAIN Tail(q[s]) = 1 .. Len(q[s]) - 1
      /\ \A i \in 1 .. Len(q[s]) - 1 : Tail(q[s])[i] = q[s][i + 1]
  BY HeadOf
<1> HIDE DEF q1
<1>3. ASSUME NEW x \in InQueues(q1, b)
      PROVE  /\ up[x] \in Others /\ up[x][1] = x[1]
             /\ x \in Subs \X (1 .. QueueSize) /\ x = <<x[1], x[2]>> /\ x[2] \in Nat
             /\ x[1] = s => up[x][2] = x[2] + 1
             /\ x[1] # s => up[x] = x
  <2>1. /\ x \in Subs \X (1 .. QueueSize) /\ x[2] \in DOMAIN q1[x[1]] /\ q1[x[1]][x[2]] = b
    BY DEF InQueues
  <2>2. x = <<x[1], x[2]>> /\ x[1] \in Subs /\ x[2] \in Nat /\ x[2] >= 1
    BY <2>1, <1>1
  <2>3. CASE x[1] = s
    <3>1. x[2] \in 1 .. Len(q[s]) - 1 /\ q[s][x[2] + 1] = b
      BY <2>1, <2>3, <1>1, <1>2
    <3>2. up[x] = <<s, x[2] + 1>> /\ x[2] + 1 \in 1 .. Len(q[s]) /\ x[2] + 1 \in 1 .. QueueSize
          /\ x[2] + 1 # 1
      BY <2>2, <2>3, <3>1, <1>1, <1>2
    <3>3. up[x] \in Others
      <4>1. PICK k \in 1 .. QueueSize : k = x[2] + 1
        BY <3>2
      <4>2. k \in DOMAIN q[s] /\ q[s][k] = b /\ k # 1
        BY <3>1, <3>2, <4>1, <1>2
      <4>3. <<s, k>> \in InQueues(q, b) /\ <<s, k>> # old
        BY <4>2 DEF InQueues
      <4>4. up[x] = <<s, k>>
        BY <3>2, <4>1
      <4> QED BY <4>3, <4>4
    <3> QED BY <2>1, <2>2, <2>3, <3>2, <3>3
  <2>4. CASE x[1] # s
    <3>1. up[x] = x /\ x # old
      BY <2>2, <2>4
    <3>2. x \in InQueues(q, b)
      BY <2>1, <2>2, <2>4, <1>1 DEF InQueues
    <3> QED BY <3>1, <3>2, <2>1, <2>2, <2>4
  <2> QED BY <2>3, <2>4
<1>4. ASSUME NEW x \in InQueues(q1, b), NEW y \in InQueues(q1, b), up[x] = up[y] PROVE x = y
  <2>1. x[1] = y[1]
    BY <1>3, <1>4
  <2>2. x[1] = s => x[2] = y[2]
    BY <1>3, <1>4, <2>1
  <2> HIDE DEF up
  <2> QED BY <1>3, <1>4, <2>1, <2>2
<1>5. ASSUME NEW z \in Others PROVE \E x \in InQueues(q1, b) : up[x] = z
  <2>1. /\ z \in Subs \X (1 .. QueueSize) /\ z[2] \in DOMAIN q[z[1]] /\ q[z[1]][z[2]] = b
        /\ z # old
    BY DEF InQueues
  <2>2. z = <<z[1], z[2]>> /\ z[1] \in Subs /\ z[2] \in 1 .. QueueSize
    BY <2>1
  <2>3. CASE z[1] # s
    <3>1. z \in InQueues(q1, b)
      BY <2>1, <2>3, <1>1 DEF InQueues
    <3> QED BY <3>1, <2>3
  <2>4. CASE z[1] = s
    <3>1. z[2] \in 1 .. Len(q[s]) /\ z[2] # 1
      BY <2>1, <2>2, <2>4, <1>2
    <3> DEFINE i == z[2] - 1
    <3>2. i \in 1 .. Len(q[s]) - 1 /\ i \in 1 .. QueueSize /\ i + 1 = z[2]
      BY <3>1, <2>2, <1>1, <1>2
    <3> HIDE DEF i
    <3>3. q1[s][i] = b /\ i \in DOMAIN q1[s]
      BY <3>2, <2>1, <2>4, <1>1, <1>2
    <3>4. <<s, i>> \in InQueues(q1, b)
      BY <3>2, <3>3 DEF InQueues
    <3>5. up[<<s, i>>] = <<s, i + 1>>
      BY <3>4
    <3> QED BY <3>2, <3>4, <3>5, <2>2, <2>4
  <2> QED BY <2>3, <2>4
<1>6. up \in Bijection(InQueues(q1, b), Others)
  <2>1. up \in [InQueues(q1, b) -> Others]
    <3>1. \A x \in InQueues(q1, b) : up[x] \in Others
      BY <1>3
    <3>2. up = [x \in InQueues(q1, b) |-> up[x]]
      OBVIOUS
    <3> HIDE DEF up
    <3> QED BY <3>1, <3>2
  <2> HIDE DEF up, Others
  <2> QED BY <2>1, <1>4, <1>5 DEF Bijection, Injection, Surjection, IsInjective
<1>7. Cardinality(Others) = Cardinality(InQueues(q1, b))
  <2>1. ExistsBijection(InQueues(q1, b), Others)
    BY <1>6 DEF ExistsBijection
  <2> QED BY <2>1, RefsFinite, FS_Bijection
<1>8. Cardinality(Others) = Cardinality(InQueues(q, b)) - (IF b = Head(q[s]) THEN 1 ELSE 0)
  <2>1. old \in InQueues(q, b) <=> b = Head(q[s])
    BY <1>1, <1>2 DEF InQueues
  <2>2. IsFiniteSet(InQueues(q, b)) /\ Cardinality(InQueues(q, b)) \in Nat
    BY RefsFinite
  <2>3. Cardinality(Others) =
          IF old \in InQueues(q, b) THEN Cardinality(InQueues(q, b)) - 1 ELSE Cardinality(InQueues(q, b))
    BY <2>2, FS_RemoveElement
  <2> QED BY <2>1, <2>2, <2>3
<1> QED BY <1>7, <1>8 DEF q1

\* A goroutine takes a buffer into its empty hand, or lets it go.
Held(h, h1, s, c) ==
    /\ h \in [Subs -> Buffers \cup {Nil}] /\ (h[s] = Nil \/ c = Nil)
    /\ h1[s] = c /\ \A x \in Subs : x # s => h1[x] = h[x]

LEMMA HandRefsChange ==
    ASSUME NEW h, NEW h1, NEW s \in Subs, NEW c, NEW b \in Buffers, Held(h, h1, s, c)
    PROVE  Cardinality(InHands(h1, b)) =
             Cardinality(InHands(h, b)) + (IF b = c THEN 1 ELSE 0) - (IF b = h[s] THEN 1 ELSE 0)
<1>0. /\ Nil \notin Buffers /\ (h[s] = Nil \/ c = Nil)
      /\ h1[s] = c /\ \A x \in Subs : x # s => h1[x] = h[x]
  BY BuffersAre DEF Held
<1>f. IsFiniteSet(InHands(h, b)) /\ Cardinality(InHands(h, b)) \in Nat
  BY RefsFinite
<1>1. CASE b = c
  <2>1. InHands(h1, b) = InHands(h, b) \cup {s} /\ s \notin InHands(h, b) /\ b # h[s]
    BY <1>0, <1>1 DEF InHands
  <2>2. Cardinality(InHands(h1, b)) = Cardinality(InHands(h, b)) + 1
    BY <1>f, <2>1, FS_AddElement
  <2> QED BY <1>1, <1>f, <2>1, <2>2
<1>2. CASE b # c /\ b = h[s]
  <2>1. InHands(h1, b) = InHands(h, b) \ {s} /\ s \in InHands(h, b)
    BY <1>0, <1>2 DEF InHands
  <2>2. Cardinality(InHands(h1, b)) = Cardinality(InHands(h, b)) - 1
    BY <1>f, <2>1, FS_RemoveElement
  <2> QED BY <1>2, <1>f, <2>2
<1>3. CASE b # c /\ b # h[s]
  <2>1. InHands(h1, b) = InHands(h, b)
    BY <1>0, <1>3 DEF InHands
  <2> QED BY <1>3, <1>f, <2>1
<1> QED BY <1>1, <1>2, <1>3

\* A writer takes a buffer for the whole list.
Began(c, c1, r, r1, w, t, l) ==
    /\ t \in Buffers /\ l \in Seq(Subs) /\ Len(l) <= Cardinality(Subs) /\ c[w] = Nil
    /\ c1[w] = t /\ r1[w] = l /\ \A x \in Writers : x # w => c1[x] = c[x] /\ r1[x] = r[x]

LEMMA WriteRefs ==
    ASSUME NEW c, NEW c1, NEW r, NEW r1, NEW w \in Writers, NEW t, NEW l, NEW b \in Buffers,
           Began(c, c1, r, r1, w, t, l), ByWriters(c, r, t) = {}
    PROVE  Cardinality(ByWriters(c1, r1, b)) =
             IF b = t THEN Len(l) ELSE Cardinality(ByWriters(c, r, b))
<1>0. /\ c1[w] = t /\ r1[w] = l /\ Nil \notin Buffers
      /\ \A x \in Writers : x # w => c1[x] = c[x] /\ r1[x] = r[x]
      /\ DOMAIN l = 1 .. Len(l) /\ Len(l) \in Nat
      /\ Len(l) <= Cardinality(Subs) /\ c[w] = Nil
  BY BuffersAre DEF Began
<1>1. IsFiniteSet(Subs) /\ Cardinality(Subs) \in Nat
  BY HubConstants, FS_CardinalityType
<1>2. CASE b # t
  <2>1. ASSUME NEW x \in Writers \X (1 .. Cardinality(Subs))
        PROVE  x \in ByWriters(c1, r1, b) <=> x \in ByWriters(c, r, b)
    BY <1>0, <1>2 DEF ByWriters
  <2>2. ByWriters(c1, r1, b) = ByWriters(c, r, b)
    BY <2>1 DEF ByWriters
  <2> QED BY <1>2, <2>2
<1>3. CASE b = t
  <2> DEFINE pair == [i \in 1 .. Len(l) |-> <<w, i>>]
  <2>1. ASSUME NEW x \in ByWriters(c1, r1, b) PROVE x[1] = w /\ x = <<w, x[2]>> /\ x[2] \in 1 .. Len(l)
    <3>1. x \in Writers \X (1 .. Cardinality(Subs)) /\ c1[x[1]] = b /\ x[2] \in DOMAIN r1[x[1]]
      BY DEF ByWriters
    <3>2. x[1] = w
      <4>1. x[1] # w => x \in ByWriters(c, r, t)
        BY <3>1, <1>0, <1>3 DEF ByWriters
      <4> QED BY <4>1
    <3> QED BY <3>1, <3>2, <1>0
  <2>2. ASSUME NEW i \in 1 .. Len(l) PROVE pair[i] = <<w, i>> /\ <<w, i>> \in ByWriters(c1, r1, b)
    BY <1>0, <1>1, <1>3 DEF ByWriters
  <2>3. pair \in Bijection(1 .. Len(l), ByWriters(c1, r1, b))
    <3>1. pair \in [1 .. Len(l) -> ByWriters(c1, r1, b)]
      BY <2>2
    <3>2. \A i, j \in 1 .. Len(l) : pair[i] = pair[j] => i = j
      BY <2>2
    <3>3. \A x \in ByWriters(c1, r1, b) : \E i \in 1 .. Len(l) : pair[i] = x
      BY <2>1, <2>2
    <3> HIDE DEF pair
    <3> QED BY <3>1, <3>2, <3>3 DEF Bijection, Injection, Surjection, IsInjective
  <2>4. ExistsBijection(1 .. Len(l), ByWriters(c1, r1, b))
    BY <2>3 DEF ExistsBijection
  <2>5. Cardinality(ByWriters(c1, r1, b)) = Len(l)
    BY <2>4, <1>0, FS_CountingElements
  <2> QED BY <1>3, <2>5
<1> QED BY <1>2, <1>3

\* A writer has served a subscriber.
LEMMA ServedRefs ==
    ASSUME NEW c \in [Writers -> Buffers \cup {Nil}], NEW r \in [Writers -> Seq(Subs)],
           NEW w \in Writers, NEW b \in Buffers, r[w] # << >>,
           Len(r[w]) <= Cardinality(Subs)
    PROVE  Cardinality(ByWriters([c EXCEPT ![w] = IF Len(r[w]) = 1 THEN Nil ELSE @],
                                 [r EXCEPT ![w] = Tail(@)], b)) =
             Cardinality(ByWriters(c, r, b)) - (IF b = c[w] THEN 1 ELSE 0)
<1> DEFINE c1 == [c EXCEPT ![w] = IF Len(r[w]) = 1 THEN Nil ELSE @]
           r1 == [r EXCEPT ![w] = Tail(@)]
           old == <<w, Len(r[w])>>
<1>0. /\ c1[w] = (IF Len(r[w]) = 1 THEN Nil ELSE c[w]) /\ r1[w] = Tail(r[w]) /\ Nil \notin Buffers
      /\ \A x \in Writers : x # w => c1[x] = c[x] /\ r1[x] = r[x]
  BY BuffersAre
<1>1. /\ Len(r[w]) \in Nat /\ Len(r[w]) >= 1
      /\ DOMAIN r[w] = 1 .. Len(r[w]) /\ DOMAIN Tail(r[w]) = 1 .. Len(r[w]) - 1
  BY HeadOf
<1>2. IsFiniteSet(Subs) /\ Cardinality(Subs) \in Nat
  BY HubConstants, FS_CardinalityType
<1>f. IsFiniteSet(ByWriters(c, r, b)) /\ Cardinality(ByWriters(c, r, b)) \in Nat
  BY RefsFinite
<1> HIDE DEF c1, r1
<1>3. ASSUME NEW x \in Writers \X (1 .. Cardinality(Subs))
      PROVE  x \in ByWriters(c1, r1, b) <=> x \in ByWriters(c, r, b) /\ x # old
  <2>1. PICK y \in Writers, i \in 1 .. Cardinality(Subs) : x = <<y, i>>
    OBVIOUS
  <2>2. x[1] = y /\ x[2] = i /\ i \in Nat /\ i >= 1
    BY <2>1, <1>2
  <2>3. CASE y # w
    BY <2>1, <2>2, <2>3, <1>0 DEF ByWriters
  <2>4. CASE y = w
    <3>1. x = old <=> i = Len(r[w])
      BY <2>1, <2>4
    <3>2. x \in ByWriters(c, r, b) <=> c[w] = b /\ i \in 1 .. Len(r[w])
      BY <2>2, <2>4, <1>1 DEF ByWriters
    <3>3. x \in ByWriters(c1, r1, b) <=> c1[w] = b /\ i \in 1 .. Len(r[w]) - 1
      BY <2>2, <2>4, <1>0, <1>1 DEF ByWriters
    <3>4. i \in 1 .. Len(r[w]) - 1 <=> i \in 1 .. Len(r[w]) /\ i # Len(r[w])
      <4>1. PICK n \in Nat : n = Len(r[w]) /\ n >= 1
        BY <1>1
      <4>2. i \in 1 .. n - 1 <=> i \in 1 .. n /\ i # n
        BY <2>2
      <4> QED BY <4>1, <4>2
    <3>5. CASE Len(r[w]) = 1
      BY <3>1, <3>2, <3>3, <3>4, <3>5, <2>2
    <3>6. CASE Len(r[w]) # 1
      BY <3>1, <3>2, <3>3, <3>4, <3>6, <1>0
    <3> QED BY <3>5, <3>6
  <2> QED BY <2>3, <2>4
<1>4. ByWriters(c1, r1, b) = ByWriters(c, r, b) \ {old}
  <2>1. /\ ByWriters(c1, r1, b) \subseteq Writers \X (1 .. Cardinality(Subs))
        /\ ByWriters(c, r, b) \subseteq Writers \X (1 .. Cardinality(Subs))
    BY DEF ByWriters
  <2> HIDE DEF old
  <2> QED BY <1>3, <2>1
<1>5. old \in ByWriters(c, r, b) <=> b = c[w]
  BY <1>1, <1>2 DEF ByWriters
<1>6. Cardinality(ByWriters(c, r, b) \ {old}) =
        IF old \in ByWriters(c, r, b) THEN Cardinality(ByWriters(c, r, b)) - 1
        ELSE Cardinality(ByWriters(c, r, b))
  BY <1>f, FS_RemoveElement
<1>7. Cardinality(ByWriters(c1, r1, b)) = Cardinality(ByWriters(c, r, b)) - (IF b = c[w] THEN 1 ELSE 0)
  <2> HIDE DEF old
  <2> QED BY <1>4, <1>5, <1>6, <1>f
<1> QED BY <1>7 DEF c1, r1

\* A duplicate-free list of subscribers is no longer than there are subscribers.
LEMMA ListIsShort ==
    ASSUME NEW l \in Seq(Subs), IsInjective(l)
    PROVE  Len(l) \in Nat /\ Len(l) <= Cardinality(Subs) /\ Cardinality(Subs) \in Nat
<1>1. IsFiniteSet(Subs) /\ Cardinality(Subs) \in Nat
  BY HubConstants, FS_CardinalityType
<1>2. Len(l) \in Nat /\ l \in [1 .. Len(l) -> Subs]
  OBVIOUS
<1>3. l \in Injection(1 .. Len(l), Subs)
  BY <1>2 DEF Injection
<1>4. Cardinality(1 .. Len(l)) <= Cardinality(Subs)
  BY <1>1, <1>3, FS_Injection
<1>5. Cardinality(1 .. Len(l)) = Len(l)
  BY <1>2, FS_Interval
<1> QED BY <1>1, <1>2, <1>4, <1>5

-----------------------------------------------------------------------------
\* The count of a buffer is the number of references to it.
Refs(b) == QueueRefs(b) + HandRefs(b) + WriterRefs(b)
Counted ==
    /\ count \in [Buffers -> 0 .. Cardinality(Subs)]
    /\ \A b \in 1 .. allocated : count[b] = Refs(b) /\ (b \in pool <=> count[b] = 0)

LEMMA RefsAre ==
    ASSUME NEW b
    PROVE  /\ QueueRefs(b) = Cardinality(InQueues(queue, b)) /\ QueueRefs(b) \in Nat
           /\ HandRefs(b) = Cardinality(InHands(hand, b)) /\ HandRefs(b) \in Nat
           /\ WriterRefs(b) = Cardinality(ByWriters(chunk, rest, b)) /\ WriterRefs(b) \in Nat
           /\ QueueRefs(b)' = Cardinality(InQueues(queue', b)) /\ QueueRefs(b)' \in Nat
           /\ HandRefs(b)' = Cardinality(InHands(hand', b)) /\ HandRefs(b)' \in Nat
           /\ WriterRefs(b)' = Cardinality(ByWriters(chunk', rest', b)) /\ WriterRefs(b)' \in Nat
           /\ Refs(b) = QueueRefs(b) + HandRefs(b) + WriterRefs(b) /\ Refs(b) \in Nat
           /\ Refs(b)' = QueueRefs(b)' + HandRefs(b)' + WriterRefs(b)' /\ Refs(b)' \in Nat
<1>1. /\ QueueRefs(b) = Cardinality(InQueues(queue, b))
      /\ HandRefs(b) = Cardinality(InHands(hand, b))
      /\ WriterRefs(b) = Cardinality(ByWriters(chunk, rest, b))
      /\ QueueRefs(b)' = Cardinality(InQueues(queue', b))
      /\ HandRefs(b)' = Cardinality(InHands(hand', b))
      /\ WriterRefs(b)' = Cardinality(ByWriters(chunk', rest', b))
  BY DEF QueueRefs, HandRefs, WriterRefs, InQueues, InHands, ByWriters
<1>2. /\ Refs(b) = QueueRefs(b) + HandRefs(b) + WriterRefs(b)
      /\ Refs(b)' = QueueRefs(b)' + HandRefs(b)' + WriterRefs(b)'
  BY DEF Refs
<1>3. /\ Cardinality(InQueues(queue, b)) \in Nat /\ Cardinality(InQueues(queue', b)) \in Nat
      /\ Cardinality(InHands(hand, b)) \in Nat /\ Cardinality(InHands(hand', b)) \in Nat
      /\ Cardinality(ByWriters(chunk, rest, b)) \in Nat
      /\ Cardinality(ByWriters(chunk', rest', b)) \in Nat
  BY RefsFinite
<1> QED BY <1>1, <1>2, <1>3

\* Nothing that counts has changed.
LEMMA SameCounted ==
    ASSUME Counted, UNCHANGED bufferVars, \A b \in 1 .. allocated : Refs(b)' = Refs(b)
    PROVE  Counted'
BY DEF Counted, bufferVars

\* A reference is given up and the chunk is released.
LEMMA ReleaseCounted ==
    ASSUME Reach, Counted, NEW c \in 1 .. allocated, ReleaseChunk(c),
           \A b \in 1 .. allocated : Refs(b)' = Refs(b) - (IF b = c THEN 1 ELSE 0)
    PROVE  Counted'
<1>1. /\ c \in Buffers /\ count \in [Buffers -> 0 .. Cardinality(Subs)] /\ allocated \in Nat
      /\ Cardinality(Subs) \in Nat /\ 1 .. allocated \subseteq Buffers
  BY HubConstants, FS_CardinalityType DEF Reach, BufferTypes, Buffers, Counted
<1>2. /\ count' = [count EXCEPT ![c] = @ - 1] /\ allocated' = allocated
      /\ pool' = IF count[c] = 1 THEN pool \cup {c} ELSE pool
  BY DEF ReleaseChunk
<1>3. count[c] = Refs(c) /\ Refs(c)' = Refs(c) - 1 /\ Refs(c)' \in Nat /\ Refs(c) \in Nat
  BY RefsAre DEF Counted
<1>4. count' \in [Buffers -> 0 .. Cardinality(Subs)]
  BY <1>1, <1>2, <1>3
<1>5. ASSUME NEW b \in 1 .. allocated PROVE count'[b] = Refs(b)' /\ (b \in pool' <=> count'[b] = 0)
  <2>1. count[b] = Refs(b) /\ (b \in pool <=> count[b] = 0) /\ Refs(b) \in Nat
    BY RefsAre DEF Counted
  <2>2. CASE b = c
    <3>1. count'[c] = count[c] - 1 /\ count[c] \in Nat /\ count[c] >= 1
      BY <1>1, <1>2, <1>3
    <3>2. c \notin pool /\ (c \in pool' <=> count[c] = 1)
      BY <2>1, <2>2, <3>1, <1>2
    <3> QED BY <2>2, <3>1, <3>2, <1>3
  <2>3. CASE b # c
    <3>1. count'[b] = count[b] /\ Refs(b)' = Refs(b)
      BY <1>1, <1>2, <2>1, <2>3
    <3> QED BY <2>1, <2>3, <3>1, <1>2
  <2> QED BY <2>2, <2>3
<1> QED BY <1>2, <1>4, <1>5 DEF Counted

LEMMA CountedInit == HubInit => Counted
<1> SUFFICES ASSUME HubInit PROVE Counted
  OBVIOUS
<1>1. Cardinality(Subs) \in Nat
  BY HubConstants, FS_CardinalityType
<1> QED BY <1>1 DEF HubInit, Counted

\* What the pieces of the actions do to the references to a buffer.
LEMMA TakeHead ==
    ASSUME Reach, NEW s \in Subs, queue[s] # << >>, queue' = [queue EXCEPT ![s] = Tail(@)],
           NEW b
    PROVE  QueueRefs(b)' = QueueRefs(b) - (IF b = Head(queue[s]) THEN 1 ELSE 0)
<1>1. queue \in [Subs -> Seq(Buffers)] /\ Len(queue[s]) <= QueueSize
  BY DEF Reach, QueueTypes
<1>2. Cardinality(InQueues([queue EXCEPT ![s] = Tail(@)], b)) =
        Cardinality(InQueues(queue, b)) - (IF b = Head(queue[s]) THEN 1 ELSE 0)
  BY <1>1, TailRefs
<1>3. QueueRefs(b)' = Cardinality(InQueues(queue', b)) /\ QueueRefs(b) = Cardinality(InQueues(queue, b))
  BY RefsAre
<1> QED BY <1>2, <1>3

LEMMA HandOver ==
    ASSUME Reach, NEW s \in Subs, NEW c \in Buffers \cup {Nil}, hand[s] = Nil \/ c = Nil,
           hand' = [hand EXCEPT ![s] = c], NEW b \in Buffers
    PROVE  HandRefs(b)' = HandRefs(b) + (IF b = c THEN 1 ELSE 0) - (IF b = hand[s] THEN 1 ELSE 0)
<1>1. hand \in [Subs -> Buffers \cup {Nil}]
  BY DEF Reach, QueueTypes
<1>p. Held(hand, hand', s, c)
  BY <1>1 DEF Held
<1>2. Cardinality(InHands(hand', b)) =
        Cardinality(InHands(hand, b)) + (IF b = c THEN 1 ELSE 0) - (IF b = hand[s] THEN 1 ELSE 0)
  BY <1>p, HandRefsChange
<1>3. HandRefs(b)' = Cardinality(InHands(hand', b)) /\ HandRefs(b) = Cardinality(InHands(hand, b))
  BY RefsAre
<1> QED BY <1>2, <1>3

LEMMA PassOn ==
    ASSUME Reach, NEW w \in Writers, pen[w] # "idle", NextSubscriber(w), NEW b \in Buffers
    PROVE  WriterRefs(b)' = WriterRefs(b) - (IF b = chunk[w] THEN 1 ELSE 0)
<1>1. /\ chunk \in [Writers -> Buffers \cup {Nil}] /\ rest \in [Writers -> Seq(Subs)]
      /\ rest[w] # << >> /\ rest[w] \in Seq(Subs) /\ IsInjective(rest[w])
  BY Serving DEF Reach, WriterTypes
<1>2. Len(rest[w]) <= Cardinality(Subs)
  BY <1>1, ListIsShort
<1>3. /\ chunk' = [chunk EXCEPT ![w] = IF Len(rest[w]) = 1 THEN Nil ELSE @]
      /\ rest' = [rest EXCEPT ![w] = Tail(@)]
  BY DEF NextSubscriber
<1>4. Cardinality(ByWriters([chunk EXCEPT ![w] = IF Len(rest[w]) = 1 THEN Nil ELSE @],
                            [rest EXCEPT ![w] = Tail(@)], b)) =
        Cardinality(ByWriters(chunk, rest, b)) - (IF b = chunk[w] THEN 1 ELSE 0)
  BY <1>1, <1>2, ServedRefs
<1>5. /\ WriterRefs(b)' = Cardinality(ByWriters(chunk', rest', b))
      /\ WriterRefs(b) = Cardinality(ByWriters(chunk, rest, b))
  BY RefsAre
<1> QED BY <1>3, <1>4, <1>5

LEMMA AllocatedBuffers ==
    ASSUME Reach
    PROVE  allocated \in Nat /\ \A b \in 1 .. allocated : b \in Buffers /\ b # Nil
BY HubConstants DEF Reach, BufferTypes, Buffers, Nil

LEMMA EnqueuedCounted ==
    ASSUME Reach, Counted, NEW w \in Writers, pen[w] # "idle", Enqueued(w, Head(rest[w]))
    PROVE  Counted'
<1> DEFINE s == Head(rest[w])
<1>s. s \in Subs /\ chunk[w] \in Buffers /\ queue \in [Subs -> Seq(Buffers)]
  BY Serving DEF Reach, QueueTypes
<1>u. /\ UNCHANGED <<hand, bufferVars>> /\ NextSubscriber(w)
      /\ Len(queue[s]) < QueueSize
      /\ queue' = [queue EXCEPT ![s] = Append(@, chunk[w])]
  BY DEF Enqueued
<1> HIDE DEF s
<1>1. ASSUME NEW b \in 1 .. allocated PROVE Refs(b)' = Refs(b)
  <2>0. b \in Buffers
    BY AllocatedBuffers
  <2>1. QueueRefs(b)' = QueueRefs(b) + (IF b = chunk[w] THEN 1 ELSE 0)
    <3>p. Sent(queue, queue', s, chunk[w])
      BY <1>s, <1>u DEF Sent
    <3>1. Cardinality(InQueues(queue', b)) =
            Cardinality(InQueues(queue, b)) + (IF b = chunk[w] THEN 1 ELSE 0)
      BY <1>s, <3>p, AppendRefs
    <3>2. /\ QueueRefs(b)' = Cardinality(InQueues(queue', b))
          /\ QueueRefs(b) = Cardinality(InQueues(queue, b))
      BY RefsAre
    <3> QED BY <1>u, <3>1, <3>2
  <2>2. WriterRefs(b)' = WriterRefs(b) - (IF b = chunk[w] THEN 1 ELSE 0)
    BY <2>0, <1>u, PassOn
  <2>3. HandRefs(b)' = HandRefs(b)
    BY <1>u, RefsAre
  <2> QED BY <2>1, <2>2, <2>3, RefsAre
<1> QED BY <1>u, <1>1, SameCounted

LEMMA SendCounted == ASSUME Reach, Counted, NEW w \in Writers, Send(w) PROVE Counted'
<1>1. pen[w] # "idle"
  BY DEF Send
<1>2. CASE Enqueued(w, Head(rest[w]))
  BY <1>1, <1>2, EnqueuedCounted
<1>3. CASE UNCHANGED <<chunk, rest, queue, hand, bufferVars>>
  <2>1. \A b \in 1 .. allocated : Refs(b)' = Refs(b)
    BY <1>3, RefsAre
  <2> QED BY <1>3, <2>1, SameCounted
<1> QED BY <1>2, <1>3 DEF Send

LEMMA DropCounted == ASSUME Reach, Counted, NEW w \in Writers, DropOldest(w) PROVE Counted'
<1>1. pen[w] # "idle"
  BY DEF DropOldest
<1> DEFINE s == Head(rest[w])
<1>s. s \in Subs
  BY <1>1, Serving
<1>u. /\ UNCHANGED <<chunk, rest, hand>>
      /\ \/ queue[s] # << >> /\ queue' = [queue EXCEPT ![s] = Tail(@)] /\ ReleaseChunk(Head(queue[s]))
         \/ UNCHANGED <<queue, bufferVars>>
  BY DEF DropOldest
<1> HIDE DEF s
<1>2. CASE UNCHANGED <<queue, bufferVars>>
  <2>1. \A b \in 1 .. allocated : Refs(b)' = Refs(b)
    BY <1>2, <1>u, RefsAre
  <2> QED BY <1>2, <2>1, SameCounted
<1>3. CASE queue[s] # << >> /\ queue' = [queue EXCEPT ![s] = Tail(@)] /\ ReleaseChunk(Head(queue[s]))
  <2>1. Head(queue[s]) \in 1 .. allocated
    BY <1>s, <1>3, QueueTail
  <2>2. ASSUME NEW b \in 1 .. allocated
        PROVE  Refs(b)' = Refs(b) - (IF b = Head(queue[s]) THEN 1 ELSE 0)
    <3>1. QueueRefs(b)' = QueueRefs(b) - (IF b = Head(queue[s]) THEN 1 ELSE 0)
      BY <1>s, <1>3, TakeHead
    <3>2. WriterRefs(b)' = WriterRefs(b) /\ HandRefs(b)' = HandRefs(b)
      BY <1>u, RefsAre
    <3> QED BY <3>1, <3>2, RefsAre
  <2> QED BY <1>3, <2>1, <2>2, ReleaseCounted
<1> QED BY <1>2, <1>3, <1>u

LEMMA ResendCounted == ASSUME Reach, Counted, NEW w \in Writers, Resend(w) PROVE Counted'
<1>1. pen[w] # "idle"
  BY DEF Resend
<1>2. CASE Enqueued(w, Head(rest[w]))
  BY <1>1, <1>2, EnqueuedCounted
<1>3. CASE ReleaseChunk(chunk[w]) /\ NextSubscriber(w) /\ UNCHANGED <<queue, hand>>
  <2>1. chunk[w] \in 1 .. allocated
    BY <1>1, Serving
  <2>2. ASSUME NEW b \in 1 .. allocated
        PROVE  Refs(b)' = Refs(b) - (IF b = chunk[w] THEN 1 ELSE 0)
    <3>0. b \in Buffers
      BY AllocatedBuffers
    <3>1. WriterRefs(b)' = WriterRefs(b) - (IF b = chunk[w] THEN 1 ELSE 0)
      BY <3>0, <1>1, <1>3, PassOn
    <3>2. QueueRefs(b)' = QueueRefs(b) /\ HandRefs(b)' = HandRefs(b)
      BY <1>3, RefsAre
    <3> QED BY <3>1, <3>2, RefsAre
  <2> QED BY <1>3, <2>1, <2>2, ReleaseCounted
<1> QED BY <1>2, <1>3 DEF Resend

LEMMA ReceivesCounted == ASSUME Reach, Counted, NEW s \in Subs, RunReceives(s) PROVE Counted'
<1>u. UNCHANGED <<bufferVars, chunk, rest>> /\ loop[s] = "receive"
  BY DEF RunReceives, writerVars
<1>1. CASE queue[s] # << >> /\ hand' = [hand EXCEPT ![s] = Head(queue[s])]
           /\ queue' = [queue EXCEPT ![s] = Tail(@)]
  <2>1. Head(queue[s]) \in Buffers /\ hand[s] = Nil
    BY <1>u, <1>1, QueueTail DEF Reach, Hands
  <2>2. ASSUME NEW b \in 1 .. allocated PROVE Refs(b)' = Refs(b)
    <3>0. b \in Buffers /\ b # Nil
      BY AllocatedBuffers
    <3>1. QueueRefs(b)' = QueueRefs(b) - (IF b = Head(queue[s]) THEN 1 ELSE 0)
      BY <1>1, TakeHead
    <3>2. HandRefs(b)' = HandRefs(b) + (IF b = Head(queue[s]) THEN 1 ELSE 0)
                           - (IF b = hand[s] THEN 1 ELSE 0)
      BY <3>0, <1>1, <2>1, HandOver
    <3>3. WriterRefs(b)' = WriterRefs(b)
      BY <1>u, RefsAre
    <3> QED BY <3>0, <3>1, <3>2, <3>3, <2>1, RefsAre
  <2> QED BY <1>u, <2>2, SameCounted
<1>2. CASE UNCHANGED <<hand, queue>>
  <2>1. \A b \in 1 .. allocated : Refs(b)' = Refs(b)
    BY <1>2, <1>u, RefsAre
  <2> QED BY <1>u, <2>1, SameCounted
<1> QED BY <1>1, <1>2 DEF RunReceives

\* The buffer in the hand of a goroutine that writes.
LEMMA InHand ==
    ASSUME Reach, NEW s \in Subs, loop[s] = "write"
    PROVE  hand[s] # Nil /\ hand[s] \in 1 .. allocated /\ hand[s] \in Buffers
<1>1. hand[s] # Nil /\ hand[s] \in 0 .. allocated /\ allocated \in Nat
  BY AllocatedBuffers DEF Reach, Hands
<1> QED BY <1>1 DEF Nil, Reach, QueueTypes

LEMMA WritesCounted == ASSUME Reach, Counted, NEW s \in Subs, RunWrites(s) PROVE Counted'
<1>u. /\ loop[s] = "write" /\ ReleaseChunk(hand[s]) /\ hand' = [hand EXCEPT ![s] = Nil]
      /\ UNCHANGED <<queue, chunk, rest>>
  BY DEF RunWrites, writerVars
<1>1. hand[s] \in 1 .. allocated
  BY <1>u, InHand
<1>2. ASSUME NEW b \in 1 .. allocated PROVE Refs(b)' = Refs(b) - (IF b = hand[s] THEN 1 ELSE 0)
  <2>0. b \in Buffers /\ b # Nil
    BY AllocatedBuffers
  <2>1. HandRefs(b)' = HandRefs(b) + (IF b = Nil THEN 1 ELSE 0) - (IF b = hand[s] THEN 1 ELSE 0)
    BY <2>0, <1>u, HandOver
  <2>2. WriterRefs(b)' = WriterRefs(b) /\ QueueRefs(b)' = QueueRefs(b)
    BY <1>u, RefsAre
  <2> QED BY <2>0, <2>1, <2>2, RefsAre
<1> QED BY <1>u, <1>1, <1>2, ReleaseCounted

LEMMA DrainsCounted == ASSUME Reach, Counted, NEW s \in Subs, RunDrains(s) PROVE Counted'
<1>u. UNCHANGED <<hand, chunk, rest>>
  BY DEF RunDrains, writerVars
<1>1. CASE queue[s] # << >> /\ queue' = [queue EXCEPT ![s] = Tail(@)] /\ ReleaseChunk(Head(queue[s]))
  <2>1. Head(queue[s]) \in 1 .. allocated
    BY <1>1, QueueTail
  <2>2. ASSUME NEW b \in 1 .. allocated
        PROVE  Refs(b)' = Refs(b) - (IF b = Head(queue[s]) THEN 1 ELSE 0)
    <3>1. QueueRefs(b)' = QueueRefs(b) - (IF b = Head(queue[s]) THEN 1 ELSE 0)
      BY <1>1, TakeHead
    <3>2. WriterRefs(b)' = WriterRefs(b) /\ HandRefs(b)' = HandRefs(b)
      BY <1>u, RefsAre
    <3> QED BY <3>1, <3>2, RefsAre
  <2> QED BY <1>1, <2>1, <2>2, ReleaseCounted
<1>2. CASE UNCHANGED <<queue, bufferVars>>
  <2>1. \A b \in 1 .. allocated : Refs(b)' = Refs(b)
    BY <1>2, <1>u, RefsAre
  <2> QED BY <1>2, <2>1, SameCounted
<1> QED BY <1>1, <1>2 DEF RunDrains

\* The buffer Write takes is one that nobody refers to.
LEMMA TakenIsFree ==
    ASSUME Reach, Counted, pool = {} => allocated < MaxBuffers
    PROVE  /\ \A s \in Subs : hand[s] # Taken /\ \A i \in DOMAIN queue[s] : queue[s][i] # Taken
           /\ \A w \in Writers : chunk[w] # Taken \/ rest[w] = << >>
           /\ InQueues(queue, Taken) = {} /\ InHands(hand, Taken) = {}
           /\ ByWriters(chunk, rest, Taken) = {}
<1>t. Taken \in Buffers /\ (Taken = allocated + 1 \/ Taken \in pool)
  BY TakenIs
<1>a. allocated \in Nat /\ pool \subseteq 1 .. allocated
  BY AllocatedBuffers DEF Reach, Hands
<1>q. /\ Cardinality(Subs) \in Nat /\ QueueSize \in Nat
      /\ \A s \in Subs : /\ hand[s] \in 0 .. allocated
                         /\ queue[s] \in Seq(Buffers) /\ Len(queue[s]) <= QueueSize
                         /\ \A i \in DOMAIN queue[s] : queue[s][i] \in 1 .. allocated
      /\ \A w \in Writers : /\ chunk[w] \in 0 .. allocated /\ rest[w] \in Seq(Subs)
                            /\ IsInjective(rest[w])
  BY HubConstants, FS_CardinalityType DEF Reach, Hands, Pens, QueueTypes, WriterTypes
<1> HIDE DEF Taken
<1>1. /\ InQueues(queue, Taken) = {} /\ InHands(hand, Taken) = {}
      /\ ByWriters(chunk, rest, Taken) = {}
  <2>1. CASE Taken = allocated + 1
    <3>1. \A s \in Subs : hand[s] # Taken /\ \A i \in DOMAIN queue[s] : queue[s][i] # Taken
      BY <1>a, <1>q, <2>1
    <3>2. \A w \in Writers : chunk[w] # Taken
      BY <1>a, <1>q, <2>1
    <3> QED BY <3>1, <3>2 DEF InQueues, InHands, ByWriters
  <2>2. CASE Taken \in pool
    <3>1. Refs(Taken) = 0
      BY <1>a, <2>2 DEF Counted
    <3>2. /\ Cardinality(InQueues(queue, Taken)) = 0 /\ Cardinality(InHands(hand, Taken)) = 0
          /\ Cardinality(ByWriters(chunk, rest, Taken)) = 0
      BY <3>1, RefsAre
    <3> QED BY <3>2, RefsFinite, FS_EmptySet
  <2> QED BY <1>t, <2>1, <2>2
<1>2. ASSUME NEW s \in Subs PROVE hand[s] # Taken
  BY <1>1 DEF InHands
<1>3. ASSUME NEW s \in Subs, NEW i \in DOMAIN queue[s] PROVE queue[s][i] # Taken
  <2>1. i \in 1 .. QueueSize
    BY <1>q
  <2>2. <<s, i>> \in Subs \X (1 .. QueueSize)
    BY <2>1
  <2> QED BY <2>2, <1>1 DEF InQueues
<1>4. ASSUME NEW w \in Writers, rest[w] # << >> PROVE chunk[w] # Taken
  <2>1. 1 \in DOMAIN rest[w] /\ Len(rest[w]) >= 1 /\ Len(rest[w]) \in Nat
    BY <1>q, <1>4, HeadOf
  <2>2. Len(rest[w]) <= Cardinality(Subs)
    BY <1>q, ListIsShort
  <2>3. <<w, 1>> \in Writers \X (1 .. Cardinality(Subs))
    BY <2>1, <2>2, <1>q
  <2> QED BY <2>1, <2>3, <1>1 DEF ByWriters
<1> QED BY <1>1, <1>2, <1>3, <1>4

LEMMA WriteCounted == ASSUME Reach, Counted, NEW w \in Writers, Write(w) PROVE Counted'
<1>w. /\ pen[w] = "idle" /\ list # << >>
      /\ pool' = pool \ {Taken}
      /\ allocated' = IF Taken > allocated THEN Taken ELSE allocated
      /\ count' = [count EXCEPT ![Taken] = Len(list)]
      /\ chunk' = [chunk EXCEPT ![w] = Taken]
      /\ rest' = [rest EXCEPT ![w] = list]
      /\ UNCHANGED <<queue, hand>>
  BY WriteIs
<1>t. /\ Taken \in Buffers /\ Taken \in 1 .. allocated + 1
      /\ Taken = allocated + 1 \/ Taken \in pool
  BY WriteIs, TakenIs
<1>f. /\ InQueues(queue, Taken) = {} /\ InHands(hand, Taken) = {}
      /\ ByWriters(chunk, rest, Taken) = {}
  BY WriteIs, TakenIsFree
<1>a. /\ allocated \in Nat /\ \A b \in 1 .. allocated : b \in Buffers
      /\ pool \subseteq 1 .. allocated
      /\ count \in [Buffers -> 0 .. Cardinality(Subs)]
      /\ chunk \in [Writers -> Buffers \cup {Nil}] /\ rest \in [Writers -> Seq(Subs)]
      /\ list \in Seq(Subs) /\ IsInjective(list) /\ chunk[w] = Nil
  BY <1>w, AllocatedBuffers DEF Reach, Hands, Counted, WriterTypes, ListTypes, Placed, Pens
<1>n. Len(list) \in Nat /\ Len(list) <= Cardinality(Subs) /\ Cardinality(Subs) \in Nat
      /\ Len(list) >= 1
  BY <1>w, <1>a, ListIsShort, HeadOf
<1> HIDE DEF Taken
<1>1. count' \in [Buffers -> 0 .. Cardinality(Subs)]
  BY <1>w, <1>t, <1>a, <1>n
<1>2. ASSUME NEW b \in 1 .. allocated'
      PROVE  count'[b] = Refs(b)' /\ (b \in pool' <=> count'[b] = 0)
  <2>1. b = Taken \/ (b # Taken /\ b \in 1 .. allocated)
    BY <1>w, <1>t, <1>a
  <2>r. b \in Buffers =>
          WriterRefs(b)' = IF b = Taken THEN Len(list) ELSE Cardinality(ByWriters(chunk, rest, b))
    <3> SUFFICES ASSUME b \in Buffers
                 PROVE  WriterRefs(b)' = IF b = Taken THEN Len(list)
                                         ELSE Cardinality(ByWriters(chunk, rest, b))
      OBVIOUS
    <3>p. Began(chunk, chunk', rest, rest', w, Taken, list)
      BY <1>w, <1>a, <1>t, <1>n DEF Began
    <3>1. Cardinality(ByWriters(chunk', rest', b)) =
            IF b = Taken THEN Len(list) ELSE Cardinality(ByWriters(chunk, rest, b))
      BY <1>f, <3>p, WriteRefs
    <3>2. WriterRefs(b)' = Cardinality(ByWriters(chunk', rest', b))
      BY RefsAre
    <3> QED BY <1>w, <3>1, <3>2
  <2>2. CASE b = Taken
    <3>1. WriterRefs(b)' = Len(list)
      BY <2>2, <2>r, <1>t
    <3>2. QueueRefs(b)' = 0 /\ HandRefs(b)' = 0
      BY <1>w, <1>f, <2>2, RefsAre, FS_EmptySet
    <3>3. count'[b] = Len(list) /\ b \notin pool'
      BY <1>w, <1>t, <1>a, <2>2
    <3> QED BY <3>1, <3>2, <3>3, <1>n, RefsAre
  <2>3. CASE b # Taken /\ b \in 1 .. allocated
    <3>0. b \in Buffers
      BY <2>3, <1>a
    <3>1. WriterRefs(b)' = WriterRefs(b)
      <4>1. WriterRefs(b) = Cardinality(ByWriters(chunk, rest, b))
        BY RefsAre
      <4> QED BY <2>3, <2>r, <3>0, <4>1
    <3>2. QueueRefs(b)' = QueueRefs(b) /\ HandRefs(b)' = HandRefs(b)
      BY <1>w, RefsAre
    <3>3. count'[b] = count[b] /\ (b \in pool' <=> b \in pool)
      BY <1>w, <1>t, <1>a, <2>3, <3>0
    <3>4. count[b] = Refs(b) /\ (b \in pool <=> count[b] = 0)
      BY <2>3 DEF Counted
    <3>5. Refs(b)' = Refs(b)
      BY <3>1, <3>2, RefsAre
    <3> QED BY <3>3, <3>4, <3>5
  <2> QED BY <2>1, <2>2, <2>3
<1> QED BY <1>1, <1>2 DEF Counted

LEMMA CountedStep == ASSUME Reach, Counted, [HubNext]_hubVars PROVE Counted'
<1>1. CASE UNCHANGED <<queue, hand, chunk, rest, bufferVars>>
  <2>1. \A b \in 1 .. allocated : Refs(b)' = Refs(b)
    BY <1>1, RefsAre
  <2> QED BY <1>1, <2>1, SameCounted
<1>2. ASSUME NEW s \in Subs,
             HubAttach(s) \/ DetachLookup(s) \/ DetachRemove(s) \/ DetachWaits(s) \/ RunFails(s)
      PROVE  UNCHANGED <<queue, hand, chunk, rest, bufferVars>>
  BY <1>2 DEF HubAttach, DetachLookup, DetachRemove, DetachWaits, RunFails, writerVars
<1>3. HubClose \/ CloseNext \/ UNCHANGED hubVars => UNCHANGED <<queue, hand, chunk, rest, bufferVars>>
  BY DEF HubClose, CloseNext, hubVars, bufferVars, writerVars
<1>4. CASE HubNext
  BY <1>1, <1>2, <1>3, <1>4, WriteCounted, SendCounted, DropCounted, ResendCounted,
     ReceivesCounted, WritesCounted, DrainsCounted DEF HubNext
<1> QED BY <1>1, <1>3, <1>4

LEMMA CountedAlways == HubSpec => []Counted
<1>1. Reach /\ Counted /\ [HubNext]_hubVars => Counted'
  BY CountedStep
<1> QED BY CountedInit, ReachAlways, <1>1, PTL DEF HubSpec

LEMMA CountedAccounts == Reach /\ Counted => ChunksAccounted
<1> SUFFICES ASSUME Reach, Counted PROVE ChunksAccounted
  OBVIOUS
<1>1. Cardinality(Buffers) = MaxBuffers
  <2>1. MaxBuffers \in Nat
    BY HubConstants
  <2>2. Cardinality(1 .. MaxBuffers) = MaxBuffers
    BY <2>1, FS_Interval
  <2> QED BY <2>2 DEF Buffers
<1>2. HubTypeOK
  BY <1>1 DEF HubTypeOK, Reach, Counted, ListTypes, QueueTypes, BufferTypes, WriterTypes,
              HistoryTypes
<1> QED BY <1>2 DEF ChunksAccounted, Counted, Refs

(* Every chunk is released exactly once per reference, for any number of    *)
(* writers and subscribers and any queue size: its count is the number of   *)
(* queues, goroutines and writers that still refer to it, and the buffer is *)
(* in the pool exactly when nobody does (dynamicmultiwriter.go 112-205).    *)
THEOREM CountsAreExact == HubSpec => []ChunksAccounted
BY ReachAlways, CountedAlways, CountedAccounts, PTL

-----------------------------------------------------------------------------
(* The invariant, third layer: what the buffers hold                        *)

\* A chunk that is being enqueued is the last its writer has begun, and was not yet given
\* to those it has still to serve.
Progress ==
    \A w \in Writers :
        /\ pen[w] # "idle" => data[chunk[w]] = [by |-> w, n |-> wrote[w]]
        /\ \A s \in Subs : /\ served[s][w] <= wrote[w]
                           /\ s \in Range(rest[w]) => served[s][w] < wrote[w]

LEMMA ProgressInit == HubInit => Progress
BY EmptyInjective DEF HubInit, Progress

\* The chunk of every writer in enqueue, and what it has given to whom, are as they were.
LEMMA ProgressFrame ==
    ASSUME Reach, Progress, UNCHANGED <<data, wrote, served, chunk, rest>>,
           \A w \in Writers : pen'[w] = "idle" <=> pen[w] = "idle"
    PROVE  Progress'
BY DEF Progress

LEMMA WriteProgress ==
    ASSUME Reach, Counted, Progress, NEW w \in Writers, Write(w)
    PROVE  Progress'
<1>w. /\ pen[w] = "idle" /\ (pool = {} => allocated < MaxBuffers)
      /\ data' = [data EXCEPT ![Taken] = [by |-> w, n |-> wrote[w] + 1]]
      /\ chunk' = [chunk EXCEPT ![w] = Taken]
      /\ wrote' = [wrote EXCEPT ![w] = @ + 1]
      /\ rest' = [rest EXCEPT ![w] = list]
      /\ pen' = [pen EXCEPT ![w] = "send"]
      /\ served' = served
  BY WriteIs
<1>t. Taken \in Buffers
  BY <1>w, TakenIs
<1>f. \A x \in Writers : chunk[x] # Taken \/ rest[x] = << >>
  BY <1>w, TakenIsFree
<1>y. /\ data \in [Buffers -> Messages] /\ chunk \in [Writers -> Buffers \cup {Nil}]
      /\ wrote \in [Writers -> Nat] /\ served \in [Subs -> [Writers -> Nat]]
      /\ rest \in [Writers -> Seq(Subs)] /\ pen \in [Writers -> {"idle", "send", "drop", "resend"}]
      /\ \A x \in Writers : pen[x] # "idle" => rest[x] # << >> /\ chunk[x] # Nil
  BY DEF Reach, BufferTypes, WriterTypes, HistoryTypes, Pens
<1> HIDE DEF Taken
<1> SUFFICES ASSUME NEW x \in Writers
             PROVE  /\ pen'[x] # "idle" => data'[chunk'[x]] = [by |-> x, n |-> wrote'[x]]
                    /\ \A s \in Subs : /\ served'[s][x] <= wrote'[x]
                                       /\ s \in Range(rest'[x]) => served'[s][x] < wrote'[x]
  BY DEF Progress
<1>1. CASE x = w
  <2>1. data'[Taken] = [by |-> w, n |-> wrote[w] + 1] /\ chunk'[w] = Taken /\ wrote'[w] = wrote[w] + 1
    BY <1>w, <1>t, <1>y
  <2>2. \A s \in Subs : served[s][w] <= wrote[w] /\ served[s][w] \in Nat /\ wrote[w] \in Nat
    BY <1>y DEF Progress
  <2> QED BY <1>1, <2>1, <2>2, <1>w
<1>2. CASE x # w
  <2>1. chunk'[x] = chunk[x] /\ wrote'[x] = wrote[x] /\ rest'[x] = rest[x] /\ pen'[x] = pen[x]
    BY <1>2, <1>w, <1>y
  <2>2. pen[x] # "idle" => chunk[x] \in Buffers /\ chunk[x] # Taken
    BY <1>f, <1>y
  <2>3. pen[x] # "idle" => data'[chunk[x]] = data[chunk[x]]
    BY <2>2, <1>w, <1>y
  <2> QED BY <2>1, <2>3, <1>w DEF Progress
<1> QED BY <1>1, <1>2

\* What NextSubscriber leaves of a writer's duties.
LEMMA ServedProgress ==
    ASSUME Reach, Progress, NEW w \in Writers, pen[w] # "idle", NextSubscriber(w),
           UNCHANGED data,
           \/ UNCHANGED served
           \/ served' = [served EXCEPT ![Head(rest[w])][w] = wrote[w]]
    PROVE  Progress'
<1>s. /\ Head(rest[w]) \in Subs /\ Range(Tail(rest[w])) = Range(rest[w]) \ {Head(rest[w])}
      /\ Tail(rest[w]) = << >> <=> Len(rest[w]) = 1
  BY Serving
<1>y. /\ chunk \in [Writers -> Buffers \cup {Nil}]
      /\ wrote \in [Writers -> Nat] /\ served \in [Subs -> [Writers -> Nat]]
      /\ rest \in [Writers -> Seq(Subs)] /\ pen \in [Writers -> {"idle", "send", "drop", "resend"}]
  BY DEF Reach, WriterTypes, HistoryTypes
<1> SUFFICES ASSUME NEW x \in Writers
             PROVE  /\ pen'[x] # "idle" => data'[chunk'[x]] = [by |-> x, n |-> wrote'[x]]
                    /\ \A s \in Subs : /\ served'[s][x] <= wrote'[x]
                                       /\ s \in Range(rest'[x]) => served'[s][x] < wrote'[x]
  BY DEF Progress
<1>w. wrote' = wrote
  BY DEF NextSubscriber
<1>n. /\ rest'[x] = IF x = w THEN Tail(rest[w]) ELSE rest[x]
      /\ pen'[x] = IF x = w THEN (IF Len(rest[w]) = 1 THEN "idle" ELSE "send") ELSE pen[x]
      /\ chunk'[x] = IF x = w THEN (IF Len(rest[w]) = 1 THEN Nil ELSE chunk[w]) ELSE chunk[x]
  BY <1>y DEF NextSubscriber
<1>1. pen'[x] # "idle" => data'[chunk'[x]] = [by |-> x, n |-> wrote'[x]]
  BY <1>n, <1>w DEF Progress
<1>2. ASSUME NEW s \in Subs
      PROVE  served'[s][x] <= wrote'[x] /\ (s \in Range(rest'[x]) => served'[s][x] < wrote'[x])
  <2>1. /\ served[s][x] <= wrote[x] /\ (s \in Range(rest[x]) => served[s][x] < wrote[x])
        /\ wrote[x] \in Nat
    BY <1>y DEF Progress
  <2>2. s \in Range(rest'[x]) => s \in Range(rest[x]) /\ ~(x = w /\ s = Head(rest[w]))
    BY <1>n, <1>s
  <2>3. CASE UNCHANGED served
    BY <2>1, <2>2, <2>3, <1>w
  <2>4. CASE served' = [served EXCEPT ![Head(rest[w])][w] = wrote[w]]
    <3>1. served'[s][x] = IF x = w /\ s = Head(rest[w]) THEN wrote[w] ELSE served[s][x]
      BY <2>4, <1>y, <1>s
    <3> QED BY <2>1, <2>2, <3>1, <1>w
  <2> QED BY <2>3, <2>4
<1> QED BY <1>1, <1>2

LEMMA ProgressStep == ASSUME Reach, Counted, Progress, [HubNext]_hubVars PROVE Progress'
<1>1. CASE UNCHANGED <<data, wrote, served, chunk, rest, pen>>
  BY <1>1, ProgressFrame
<1>2. ASSUME NEW s \in Subs,
             \/ HubAttach(s) \/ DetachLookup(s) \/ DetachRemove(s) \/ DetachWaits(s)
             \/ RunFails(s) \/ RunReceives(s) \/ RunWrites(s) \/ RunDrains(s)
      PROVE  UNCHANGED <<data, wrote, served, chunk, rest, pen>>
  BY <1>2 DEF HubAttach, DetachLookup, DetachRemove, DetachWaits, RunFails, RunReceives,
              RunWrites, RunDrains, ReleaseChunk, writerVars, bufferVars, historyVars
<1>3. HubClose \/ CloseNext \/ UNCHANGED hubVars
        => UNCHANGED <<data, wrote, served, chunk, rest, pen>>
  BY DEF HubClose, CloseNext, hubVars, bufferVars, writerVars, historyVars
<1>4. ASSUME NEW w \in Writers, Send(w) PROVE Progress'
  <2>1. CASE Enqueued(w, Head(rest[w]))
    BY <1>4, <2>1, ServedProgress DEF Send, Enqueued, bufferVars
  <2>2. CASE /\ pen' = [pen EXCEPT ![w] = "drop"]
             /\ UNCHANGED <<chunk, rest, wrote, bufferVars, historyVars>>
    <3>1. \A x \in Writers : pen'[x] = "idle" <=> pen[x] = "idle"
      BY <1>4, <2>2 DEF Send, Reach, WriterTypes
    <3> QED BY <2>2, <3>1, ProgressFrame DEF bufferVars, historyVars
  <2> QED BY <1>4, <2>1, <2>2 DEF Send
<1>5. ASSUME NEW w \in Writers, DropOldest(w) PROVE Progress'
  <2>1. UNCHANGED <<data, wrote, served, chunk, rest>>
    BY <1>5 DEF DropOldest, ReleaseChunk, bufferVars, historyVars
  <2>2. \A x \in Writers : pen'[x] = "idle" <=> pen[x] = "idle"
    BY <1>5 DEF DropOldest, Reach, WriterTypes
  <2> QED BY <2>1, <2>2, ProgressFrame
<1>6. ASSUME NEW w \in Writers, Resend(w) PROVE Progress'
  <2>1. CASE Enqueued(w, Head(rest[w]))
    BY <1>6, <2>1, ServedProgress DEF Resend, Enqueued, bufferVars
  <2>2. CASE ReleaseChunk(chunk[w]) /\ NextSubscriber(w) /\ UNCHANGED historyVars
    BY <1>6, <2>2, ServedProgress DEF Resend, ReleaseChunk, historyVars
  <2> QED BY <1>6, <2>1, <2>2 DEF Resend
<1>7. CASE HubNext
  BY <1>1, <1>2, <1>3, <1>4, <1>5, <1>6, <1>7, WriteProgress DEF HubNext
<1> QED BY <1>1, <1>3, <1>7

LEMMA ProgressAlways == HubSpec => []Progress
<1>1. Reach /\ Counted /\ Progress /\ [HubNext]_hubVars => Progress'
  BY ProgressStep
<1> QED BY ProgressInit, ReachAlways, CountedAlways, <1>1, PTL DEF HubSpec

-----------------------------------------------------------------------------
(* What waits for a subscriber                                              *)

\* Waiting, in terms of the hand, the queue and the data.
Line(h, q) == IF h = Nil THEN q ELSE <<h>> \o q
Wait(h, q, d) == [i \in DOMAIN Line(h, q) |-> d[Line(h, q)[i]]]

\* Fanout's Lose removes one element.
Without(W, k) == [j \in 1 .. Len(W) - 1 |-> W[IF j < k THEN j ELSE j + 1]]

LEMMA WaitingIs ==
    ASSUME NEW s \in Subs
    PROVE  /\ Waiting(s) = Wait(hand[s], queue[s], data)
           /\ Waiting(s)' = Wait(hand'[s], queue'[s], data')
BY DEF Waiting, Wait, Line

LEMMA LineIs ==
    ASSUME NEW h \in Buffers \cup {Nil}, NEW q \in Seq(Buffers)
    PROVE  /\ Line(h, q) \in Seq(Buffers)
           /\ h = Nil => Line(h, q) = q
           /\ h # Nil => /\ Len(Line(h, q)) = Len(q) + 1 /\ Line(h, q)[1] = h
                         /\ \A i \in 1 .. Len(q) : Line(h, q)[i + 1] = q[i]
<1>1. CASE h = Nil
  BY <1>1 DEF Line
<1>2. CASE h # Nil
  <2>1. <<h>> \in Seq(Buffers) /\ Len(<<h>>) = 1 /\ <<h>>[1] = h
    BY <1>2
  <2> DEFINE l == <<h>>
  <2>2. l \in Seq(Buffers) /\ Len(l) = 1 /\ l[1] = h
    BY <2>1
  <2> HIDE DEF l
  <2>3. /\ l \o q \in Seq(Buffers) /\ Len(l \o q) = Len(l) + Len(q)
        /\ \A i \in 1 .. Len(l) + Len(q) : (l \o q)[i] = IF i <= Len(l) THEN l[i] ELSE q[i - Len(l)]
    BY <2>2, ConcatProperties
  <2>4. Line(h, q) = l \o q
    BY <1>2 DEF Line, l
  <2>5. Len(q) \in Nat
    OBVIOUS
  <2>6. \A i \in 1 .. Len(q) : (l \o q)[i + 1] = q[i]
    <3> SUFFICES ASSUME NEW i \in 1 .. Len(q) PROVE (l \o q)[i + 1] = q[i]
      OBVIOUS
    <3>1. i + 1 \in 1 .. Len(l) + Len(q) /\ ~(i + 1 <= Len(l)) /\ (i + 1) - Len(l) = i
      BY <2>2, <2>5
    <3> QED BY <2>3, <3>1
  <2> QED BY <1>2, <2>2, <2>3, <2>4, <2>5, <2>6
<1> QED BY <1>1, <1>2

\* Length and elements of what waits.
IsWait(W, h, q, d) ==
    /\ W \in Seq(Messages) /\ Len(q) \in Nat
    /\ h = Nil => /\ Len(W) = Len(q)
                  /\ \A i \in 1 .. Len(q) : W[i] = d[q[i]]
    /\ h # Nil => /\ Len(W) = Len(q) + 1 /\ W[1] = d[h]
                  /\ \A i \in 1 .. Len(q) : W[i + 1] = d[q[i]]

LEMMA WaitIs ==
    ASSUME NEW h \in Buffers \cup {Nil}, NEW q \in Seq(Buffers), NEW d \in [Buffers -> Messages]
    PROVE  IsWait(Wait(h, q, d), h, q, d)
<1> DEFINE l == Line(h, q)
           W == Wait(h, q, d)
<1>1. /\ l \in Seq(Buffers) /\ (h = Nil => l = q)
      /\ h # Nil => Len(l) = Len(q) + 1 /\ l[1] = h /\ \A i \in 1 .. Len(q) : l[i + 1] = q[i]
  BY LineIs
<1>2. /\ DOMAIN l = 1 .. Len(l) /\ Len(l) \in Nat /\ Len(q) \in Nat
      /\ \A i \in 1 .. Len(l) : l[i] \in Buffers
  BY <1>1
<1>3. W = [i \in 1 .. Len(l) |-> d[l[i]]]
  BY <1>2 DEF Wait
<1> HIDE DEF l, W
<1>4. W \in [1 .. Len(l) -> Messages]
  BY <1>2, <1>3
<1>5. W \in Seq(Messages) /\ Len(W) = Len(l)
  BY <1>2, <1>4
<1>6. \A i \in 1 .. Len(l) : W[i] = d[l[i]]
  BY <1>3
<1>7. CASE h = Nil
  BY <1>1, <1>2, <1>5, <1>6, <1>7 DEF W, IsWait
<1>8. CASE h # Nil
  <2>1. Len(W) = Len(q) + 1 /\ W[1] = d[h]
    BY <1>1, <1>2, <1>5, <1>6, <1>8
  <2>2. ASSUME NEW i \in 1 .. Len(q) PROVE W[i + 1] = d[q[i]]
    <3>1. i + 1 \in 1 .. Len(l)
      BY <1>1, <1>2, <1>8
    <3> QED BY <3>1, <1>1, <1>6, <1>8
  <2> QED BY <1>2, <1>5, <1>8, <2>1, <2>2 DEF W, IsWait
<1> QED BY <1>7, <1>8

\* Two sequences with the same length and elements are the same.
LEMMA SameSequence ==
    ASSUME NEW S, NEW U \in Seq(S), NEW V \in Seq(S), Len(U) = Len(V),
           \A i \in 1 .. Len(U) : U[i] = V[i]
    PROVE  U = V
BY SeqEqual

\* New data in other buffers do not change what waits.
LEMMA WaitData ==
    ASSUME NEW h \in Buffers \cup {Nil}, NEW q \in Seq(Buffers),
           NEW d \in [Buffers -> Messages], NEW e \in [Buffers -> Messages],
           h # Nil => d[h] = e[h], \A i \in 1 .. Len(q) : d[q[i]] = e[q[i]]
    PROVE  Wait(h, q, e) = Wait(h, q, d)
<1> DEFINE U == Wait(h, q, e)
           V == Wait(h, q, d)
<1>u. IsWait(U, h, q, e) /\ IsWait(V, h, q, d)
  BY WaitIs
<1> HIDE DEF U, V
<1>1. U \in Seq(Messages) /\ V \in Seq(Messages) /\ Len(U) = Len(V) /\ Len(q) \in Nat
  BY <1>u DEF IsWait
<1>2. ASSUME NEW i \in 1 .. Len(U) PROVE U[i] = V[i]
  <2>1. CASE h = Nil
    BY <2>1, <1>u DEF IsWait
  <2>2. CASE h # Nil /\ i = 1
    BY <2>2, <1>u DEF IsWait
  <2>3. CASE h # Nil /\ i # 1
    <3>1. Len(U) = Len(q) + 1
      BY <2>3, <1>u DEF IsWait
    <3>2. PICK j \in 1 .. Len(q) : i = j + 1
      <4>1. i - 1 \in 1 .. Len(q) /\ i = (i - 1) + 1
        BY <1>1, <2>3, <3>1
      <4> QED BY <4>1
    <3>3. U[j + 1] = e[q[j]] /\ V[j + 1] = d[q[j]]
      BY <2>3, <1>u DEF IsWait
    <3> QED BY <3>2, <3>3
  <2> QED BY <2>1, <2>2, <2>3
<1>3. U = V
  BY <1>1, <1>2, SameSequence
<1> QED BY <1>3 DEF U, V

\* A send appends what the chunk holds.
LEMMA WaitAppend ==
    ASSUME NEW h \in Buffers \cup {Nil}, NEW q \in Seq(Buffers),
           NEW d \in [Buffers -> Messages], NEW c \in Buffers
    PROVE  Wait(h, Append(q, c), d) = Append(Wait(h, q, d), d[c])
<1> DEFINE p == Append(q, c)
           U == Wait(h, p, d)
           W == Wait(h, q, d)
           V == Append(W, d[c])
<1>1. /\ p \in Seq(Buffers) /\ Len(p) = Len(q) + 1 /\ Len(q) \in Nat
      /\ p[Len(q) + 1] = c /\ \A i \in 1 .. Len(q) : p[i] = q[i]
  OBVIOUS
<1> HIDE DEF p
<1>u. IsWait(U, h, p, d) /\ IsWait(W, h, q, d)
  BY <1>1, WaitIs
<1> HIDE DEF U, W
<1>2. /\ U \in Seq(Messages) /\ W \in Seq(Messages) /\ d[c] \in Messages
      /\ Len(U) = Len(W) + 1 /\ Len(W) = (IF h = Nil THEN Len(q) ELSE Len(q) + 1)
  BY <1>1, <1>u DEF IsWait
<1>3. V \in Seq(Messages) /\ Len(V) = Len(W) + 1 /\ V[Len(W) + 1] = d[c]
      /\ \A i \in 1 .. Len(W) : V[i] = W[i]
  BY <1>2
<1>w. /\ h = Nil => /\ \A i \in 1 .. Len(p) : U[i] = d[p[i]]
                    /\ \A i \in 1 .. Len(q) : W[i] = d[q[i]]
      /\ h # Nil => /\ U[1] = d[h] /\ \A i \in 1 .. Len(p) : U[i + 1] = d[p[i]]
                    /\ W[1] = d[h] /\ \A i \in 1 .. Len(q) : W[i + 1] = d[q[i]]
  BY <1>u DEF IsWait
<1> HIDE DEF V
<1>4. ASSUME NEW i \in 1 .. Len(U) PROVE U[i] = V[i]
  <2>1. CASE h = Nil
    <3>1. CASE i = Len(q) + 1
      BY <3>1, <2>1, <1>1, <1>2, <1>3, <1>w
    <3>2. CASE i \in 1 .. Len(q)
      BY <3>2, <2>1, <1>1, <1>2, <1>3, <1>w
    <3> QED BY <3>1, <3>2, <2>1, <1>1, <1>2
  <2>2. CASE h # Nil /\ i = 1
    <3>1. 1 \in 1 .. Len(W)
      BY <2>2, <1>1, <1>2
    <3> QED BY <2>2, <3>1, <1>w, <1>3
  <2>3. CASE h # Nil /\ i # 1
    <3>1. PICK j \in 1 .. Len(p) : i = j + 1
      <4>1. i - 1 \in 1 .. Len(p) /\ i = (i - 1) + 1
        BY <1>1, <1>2, <2>3
      <4> QED BY <4>1
    <3>2. U[j + 1] = d[p[j]]
      BY <2>3, <1>w
    <3>3. CASE j = Len(q) + 1
      <4>1. i = Len(W) + 1 /\ p[j] = c
        BY <1>1, <1>2, <2>3, <3>1, <3>3
      <4> QED BY <4>1, <3>1, <3>2, <1>3
    <3>4. CASE j \in 1 .. Len(q)
      <4>1. j + 1 \in 1 .. Len(W) /\ p[j] = q[j]
        BY <1>1, <1>2, <2>3, <3>4
      <4>2. V[j + 1] = W[j + 1] /\ W[j + 1] = d[q[j]]
        BY <4>1, <1>3, <1>w, <2>3, <3>4
      <4> QED BY <4>1, <4>2, <3>1, <3>2
    <3> QED BY <3>3, <3>4, <1>1
  <2> QED BY <2>1, <2>2, <2>3
<1>5. U = V
  BY <1>2, <1>3, <1>4, SameSequence
<1> QED BY <1>5 DEF U, V, W, p

\* Dropping the head of the queue loses the first or the second of what waits.
LEMMA WaitDrop ==
    ASSUME NEW h \in Buffers \cup {Nil}, NEW q \in Seq(Buffers), q # << >>,
           NEW d \in [Buffers -> Messages]
    PROVE  /\ (IF h = Nil THEN 1 ELSE 2) \in 1 .. Len(Wait(h, q, d))
           /\ Wait(h, Tail(q), d) = Without(Wait(h, q, d), IF h = Nil THEN 1 ELSE 2)
<1> DEFINE p == Tail(q)
           U == Wait(h, p, d)
           W == Wait(h, q, d)
           k == IF h = Nil THEN 1 ELSE 2
           V == Without(W, k)
<1>1. /\ p \in Seq(Buffers) /\ Len(p) = Len(q) - 1 /\ Len(q) \in Nat /\ Len(q) >= 1
      /\ \A i \in 1 .. Len(q) - 1 : p[i] = q[i + 1]
  BY HeadOf
<1> HIDE DEF p
<1>u. IsWait(U, h, p, d) /\ IsWait(W, h, q, d)
  BY <1>1, WaitIs
<1> HIDE DEF U, W
<1>2. /\ U \in Seq(Messages) /\ W \in Seq(Messages)
      /\ Len(U) = Len(W) - 1 /\ Len(W) = (IF h = Nil THEN Len(q) ELSE Len(q) + 1)
  BY <1>1, <1>u DEF IsWait
<1>w. /\ h = Nil => /\ \A i \in 1 .. Len(p) : U[i] = d[p[i]]
                    /\ \A i \in 1 .. Len(q) : W[i] = d[q[i]]
      /\ h # Nil => /\ U[1] = d[h] /\ \A i \in 1 .. Len(p) : U[i + 1] = d[p[i]]
                    /\ W[1] = d[h] /\ \A i \in 1 .. Len(q) : W[i + 1] = d[q[i]]
  BY <1>u DEF IsWait
<1>k. k \in 1 .. Len(W)
  BY <1>1, <1>2
<1>3. V = [j \in 1 .. Len(W) - 1 |-> W[IF j < k THEN j ELSE j + 1]]
  BY DEF Without
<1>4. ASSUME NEW i \in 1 .. Len(U) PROVE U[i] = W[IF i < k THEN i ELSE i + 1]
  <2>1. CASE h = Nil
    <3>1. i \in 1 .. Len(p) /\ i + 1 \in 1 .. Len(q) /\ ~(i < k)
      BY <2>1, <1>1, <1>2
    <3>2. U[i] = d[p[i]] /\ p[i] = q[i + 1] /\ W[i + 1] = d[q[i + 1]]
      BY <2>1, <3>1, <1>1, <1>w
    <3> QED BY <3>1, <3>2
  <2>2. CASE h # Nil /\ i = 1
    BY <2>2, <1>w
  <2>3. CASE h # Nil /\ i # 1
    <3>1. PICK j \in 1 .. Len(p) : i = j + 1
      <4>1. i - 1 \in 1 .. Len(p) /\ i = (i - 1) + 1
        BY <1>1, <1>2, <2>3
      <4> QED BY <4>1
    <3>2. j + 1 \in 1 .. Len(q) /\ ~(i < k) /\ i + 1 = (j + 1) + 1
      BY <1>1, <2>3, <3>1
    <3>3. U[j + 1] = d[p[j]] /\ p[j] = q[j + 1] /\ W[(j + 1) + 1] = d[q[j + 1]]
      BY <2>3, <3>2, <1>1, <1>w
    <3> QED BY <3>1, <3>2, <3>3
  <2> QED BY <2>1, <2>2, <2>3
<1>5. DOMAIN U = 1 .. Len(W) - 1 /\ U = [j \in DOMAIN U |-> U[j]]
  BY <1>2
<1>6. U = V
  <2> HIDE DEF k, V
  <2> QED BY <1>2, <1>3, <1>4, <1>5
<1> QED BY <1>6, <1>k DEF U, W, p

\* Taking the head into the hand changes nothing that waits.
LEMMA WaitTake ==
    ASSUME NEW q \in Seq(Buffers), q # << >>, NEW d \in [Buffers -> Messages]
    PROVE  Wait(Head(q), Tail(q), d) = Wait(Nil, q, d)
<1> DEFINE p == Tail(q)
           h == Head(q)
           U == Wait(h, p, d)
           W == Wait(Nil, q, d)
<1>1. /\ p \in Seq(Buffers) /\ Len(p) = Len(q) - 1 /\ Len(q) \in Nat /\ Len(q) >= 1
      /\ (\A i \in 1 .. Len(q) - 1 : p[i] = q[i + 1]) /\ h \in Buffers /\ h = q[1]
  BY HeadOf
<1>n. h # Nil /\ h \in Buffers \cup {Nil} /\ Nil \in Buffers \cup {Nil}
  BY <1>1, BuffersAre
<1> HIDE DEF p, h
<1>u. IsWait(U, h, p, d) /\ IsWait(W, Nil, q, d)
  BY <1>1, <1>n, WaitIs
<1> HIDE DEF U, W
<1>2. U \in Seq(Messages) /\ W \in Seq(Messages) /\ Len(U) = Len(W) /\ Len(W) = Len(q)
  BY <1>1, <1>n, <1>u DEF IsWait
<1>w. /\ \A i \in 1 .. Len(q) : W[i] = d[q[i]]
      /\ U[1] = d[h] /\ \A i \in 1 .. Len(p) : U[i + 1] = d[p[i]]
  BY <1>n, <1>u DEF IsWait
<1>3. ASSUME NEW i \in 1 .. Len(U) PROVE U[i] = W[i]
  <2>1. CASE i = 1
    BY <2>1, <1>1, <1>2, <1>w
  <2>2. CASE i # 1
    <3>1. PICK j \in 1 .. Len(p) : i = j + 1
      <4>1. i - 1 \in 1 .. Len(p) /\ i = (i - 1) + 1
        BY <1>1, <1>2, <2>2
      <4> QED BY <4>1
    <3>2. U[j + 1] = d[p[j]] /\ p[j] = q[j + 1] /\ W[j + 1] = d[q[j + 1]]
      BY <3>1, <1>1, <1>2, <1>w
    <3> QED BY <3>1, <3>2
  <2> QED BY <2>1, <2>2
<1>4. U = W
  BY <1>2, <1>3, SameSequence
<1> QED BY <1>4 DEF U, W, p, h

\* Letting go of what is in the hand removes the first of what waits.
LEMMA WaitDone ==
    ASSUME NEW h \in Buffers, NEW q \in Seq(Buffers), NEW d \in [Buffers -> Messages]
    PROVE  /\ Wait(h, q, d) # << >> /\ Head(Wait(h, q, d)) = d[h] /\ 1 \in 1 .. Len(Wait(h, q, d))
           /\ Wait(Nil, q, d) = Tail(Wait(h, q, d))
           /\ Wait(Nil, q, d) = Without(Wait(h, q, d), 1)
<1> DEFINE U == Wait(Nil, q, d)
           W == Wait(h, q, d)
<1>n. h # Nil /\ h \in Buffers \cup {Nil} /\ Nil \in Buffers \cup {Nil}
  BY BuffersAre
<1>u. IsWait(U, Nil, q, d) /\ IsWait(W, h, q, d)
  BY <1>n, WaitIs
<1> HIDE DEF U, W
<1>2. /\ U \in Seq(Messages) /\ W \in Seq(Messages) /\ Len(W) = Len(q) + 1 /\ Len(U) = Len(q)
      /\ Len(q) \in Nat
  BY <1>n, <1>u DEF IsWait
<1>w. /\ \A i \in 1 .. Len(q) : U[i] = d[q[i]]
      /\ W[1] = d[h] /\ \A i \in 1 .. Len(q) : W[i + 1] = d[q[i]]
  BY <1>n, <1>u DEF IsWait
<1>3. W # << >> /\ 1 \in 1 .. Len(W)
  BY <1>2
<1>4. /\ Head(W) = W[1] /\ Tail(W) \in Seq(Messages) /\ Len(Tail(W)) = Len(W) - 1
      /\ \A i \in 1 .. Len(W) - 1 : Tail(W)[i] = W[i + 1]
  BY <1>2, <1>3, HeadOf
<1>5. U = Tail(W)
  <2>1. Len(U) = Len(Tail(W)) /\ Len(U) = Len(W) - 1
    BY <1>2, <1>4
  <2>2. \A i \in 1 .. Len(U) : U[i] = Tail(W)[i]
    BY <1>2, <1>4, <1>w
  <2> QED BY <1>2, <1>4, <2>1, <2>2, SameSequence
<1>6. U = Without(W, 1)
  <2>1. Without(W, 1) = [j \in 1 .. Len(W) - 1 |-> W[IF j < 1 THEN j ELSE j + 1]]
    BY DEF Without
  <2>2. \A i \in 1 .. Len(W) - 1 : U[i] = W[IF i < 1 THEN i ELSE i + 1]
    BY <1>2, <1>w
  <2>3. DOMAIN U = 1 .. Len(W) - 1 /\ U = [j \in DOMAIN U |-> U[j]]
    BY <1>2
  <2> QED BY <2>1, <2>2, <2>3
<1> QED BY <1>3, <1>4, <1>5, <1>6, <1>w DEF U, W

-----------------------------------------------------------------------------
(* Every step of the multi-writer is one of Fanout's, or none               *)

Unmoved(x) == Waiting(x)' = Waiting(x)
Stutters == (\A x \in Subs : Unmoved(x)) /\ UNCHANGED <<received, served>>
OffersTo(s, w) ==
    /\ \A x \in Subs : x # s => Unmoved(x)
    /\ Waiting(s)' = Append(Waiting(s), [by |-> w, n |-> wrote[w]])
    /\ wrote[w] > served[s][w] /\ served' = [served EXCEPT ![s][w] = wrote[w]]
    /\ UNCHANGED received
Loses(s, k) ==
    /\ \A x \in Subs : x # s => Unmoved(x)
    /\ k \in 1 .. Len(Waiting(s)) /\ Waiting(s)' = Without(Waiting(s), k)
    /\ UNCHANGED <<received, served>>
Gives(s) ==
    /\ \A x \in Subs : x # s => Unmoved(x)
    /\ Waiting(s) # << >> /\ Waiting(s)' = Tail(Waiting(s))
    /\ received' = [received EXCEPT ![s][Head(Waiting(s)).by] = Head(Waiting(s)).n]
    /\ UNCHANGED served
AbstractStep ==
    \/ Stutters
    \/ \E s \in Subs : \/ \E w \in Writers : OffersTo(s, w)
                       \/ \E k \in Nat : Loses(s, k)
                       \/ Gives(s)

LEMMA WaitTypes ==
    ASSUME Reach, NEW s \in Subs
    PROVE  /\ hand[s] \in Buffers \cup {Nil} /\ queue[s] \in Seq(Buffers)
           /\ data \in [Buffers -> Messages] /\ Waiting(s) \in Seq(Messages)
<1>1. /\ hand[s] \in Buffers \cup {Nil} /\ queue[s] \in Seq(Buffers)
      /\ data \in [Buffers -> Messages]
  BY DEF Reach, QueueTypes, BufferTypes
<1>2. IsWait(Wait(hand[s], queue[s], data), hand[s], queue[s], data)
  BY <1>1, WaitIs
<1> QED BY <1>1, <1>2, WaitingIs DEF IsWait

\* A subscriber whose hand and queue stay as they are, and the data too.
LEMMA UnmovedIf ==
    ASSUME NEW x \in Subs, hand'[x] = hand[x], queue'[x] = queue[x], data' = data
    PROVE  Unmoved(x)
BY WaitingIs DEF Unmoved

LEMMA StuttersIf ==
    ASSUME UNCHANGED <<hand, queue, data, received, served>>
    PROVE  AbstractStep
<1>1. \A x \in Subs : Unmoved(x)
  BY UnmovedIf
<1> QED BY <1>1 DEF AbstractStep, Stutters

LEMMA EnqueuedAbstract ==
    ASSUME Reach, Progress, NEW w \in Writers, pen[w] # "idle", Enqueued(w, Head(rest[w]))
    PROVE  AbstractStep
<1>h. PICK s \in Subs : s = Head(rest[w])
  BY Serving
<1>s. s \in Subs /\ s \in Range(rest[w]) /\ chunk[w] \in Buffers
  BY <1>h, Serving
<1>u. /\ UNCHANGED <<hand, data, received>>
      /\ queue' = [queue EXCEPT ![s] = Append(@, chunk[w])]
      /\ served' = [served EXCEPT ![s][w] = wrote[w]]
  BY <1>h DEF Enqueued, bufferVars
<1>p. data[chunk[w]] = [by |-> w, n |-> wrote[w]] /\ served[s][w] < wrote[w]
  BY <1>s DEF Progress
<1>n. served[s][w] \in Nat /\ wrote[w] \in Nat
  BY <1>s DEF Reach, HistoryTypes, WriterTypes
<1>q. \A x \in Subs : queue'[x] = IF x = s THEN Append(queue[s], chunk[w]) ELSE queue[x]
  BY <1>u DEF Reach, QueueTypes
<1>1. \A x \in Subs : x # s => Unmoved(x)
  BY <1>q, <1>u, UnmovedIf
<1>t. /\ hand[s] \in Buffers \cup {Nil} /\ queue[s] \in Seq(Buffers)
      /\ data \in [Buffers -> Messages]
  BY <1>s, WaitTypes
<1>w. Waiting(s) = Wait(hand[s], queue[s], data) /\ Waiting(s)' = Wait(hand'[s], queue'[s], data')
  BY <1>s, WaitingIs
<1>2. Waiting(s)' = Append(Waiting(s), data[chunk[w]])
  <2>1. Wait(hand[s], Append(queue[s], chunk[w]), data) =
          Append(Wait(hand[s], queue[s], data), data[chunk[w]])
    BY <1>s, <1>t, WaitAppend
  <2> QED BY <1>w, <1>q, <1>s, <1>u, <2>1
<1>3. OffersTo(s, w)
  BY <1>1, <1>2, <1>p, <1>n, <1>u DEF OffersTo
<1> QED BY <1>3, <1>s DEF AbstractStep

\* The head of a queue is dropped or drained.
LEMMA DropAbstract ==
    ASSUME Reach, NEW s \in Subs, queue[s] # << >>, queue' = [queue EXCEPT ![s] = Tail(@)],
           UNCHANGED <<hand, data, received, served>>
    PROVE  AbstractStep
<1>q. \A x \in Subs : queue'[x] = IF x = s THEN Tail(queue[s]) ELSE queue[x]
  BY DEF Reach, QueueTypes
<1>1. \A x \in Subs : x # s => Unmoved(x)
  BY <1>q, UnmovedIf
<1>t. /\ hand[s] \in Buffers \cup {Nil} /\ queue[s] \in Seq(Buffers)
      /\ data \in [Buffers -> Messages]
  BY WaitTypes
<1>w. Waiting(s) = Wait(hand[s], queue[s], data) /\ Waiting(s)' = Wait(hand'[s], queue'[s], data')
  BY WaitingIs
<1> DEFINE k == IF hand[s] = Nil THEN 1 ELSE 2
<1>2. /\ k \in 1 .. Len(Wait(hand[s], queue[s], data))
      /\ Wait(hand[s], Tail(queue[s]), data) = Without(Wait(hand[s], queue[s], data), k)
  BY <1>t, WaitDrop
<1>3. k \in Nat
  OBVIOUS
<1>4. Loses(s, k)
  <2> HIDE DEF k
  <2> QED BY <1>1, <1>2, <1>w, <1>q DEF Loses
<1> QED BY <1>3, <1>4 DEF AbstractStep

LEMMA ReceivesAbstract == ASSUME Reach, NEW s \in Subs, RunReceives(s) PROVE AbstractStep
<1>u. UNCHANGED <<data, received, served>> /\ loop[s] = "receive"
  BY DEF RunReceives, bufferVars, historyVars
<1>1. CASE UNCHANGED <<hand, queue>>
  BY <1>1, <1>u, StuttersIf
<1>2. CASE queue[s] # << >> /\ hand' = [hand EXCEPT ![s] = Head(queue[s])]
           /\ queue' = [queue EXCEPT ![s] = Tail(@)]
  <2>q. \A x \in Subs : /\ queue'[x] = IF x = s THEN Tail(queue[s]) ELSE queue[x]
                        /\ hand'[x] = IF x = s THEN Head(queue[s]) ELSE hand[x]
    BY <1>2 DEF Reach, QueueTypes
  <2>1. \A x \in Subs : x # s => Unmoved(x)
    BY <1>u, <2>q, UnmovedIf
  <2>t. hand[s] = Nil /\ queue[s] \in Seq(Buffers) /\ data \in [Buffers -> Messages]
    BY <1>u, WaitTypes DEF Reach, Hands
  <2>w. Waiting(s) = Wait(hand[s], queue[s], data) /\ Waiting(s)' = Wait(hand'[s], queue'[s], data')
    BY WaitingIs
  <2>2. Wait(Head(queue[s]), Tail(queue[s]), data) = Wait(Nil, queue[s], data)
    BY <1>2, <2>t, WaitTake
  <2>3. Unmoved(s)
    BY <2>2, <2>w, <2>q, <2>t, <1>u DEF Unmoved
  <2> QED BY <1>u, <2>1, <2>3 DEF AbstractStep, Stutters
<1> QED BY <1>1, <1>2 DEF RunReceives

LEMMA WritesAbstract == ASSUME Reach, NEW s \in Subs, RunWrites(s) PROVE AbstractStep
<1>u. /\ loop[s] = "write" /\ hand' = [hand EXCEPT ![s] = Nil]
      /\ UNCHANGED <<queue, served, data>>
      /\ \/ received' = [received EXCEPT ![s][data[hand[s]].by] = data[hand[s]].n]
         \/ UNCHANGED received
  BY DEF RunWrites, ReleaseChunk
<1>h. hand[s] \in Buffers
  BY <1>u, InHand
<1>q. \A x \in Subs : hand'[x] = IF x = s THEN Nil ELSE hand[x]
  BY <1>u DEF Reach, QueueTypes
<1>1. \A x \in Subs : x # s => Unmoved(x)
  BY <1>u, <1>q, UnmovedIf
<1>t. queue[s] \in Seq(Buffers) /\ data \in [Buffers -> Messages]
  BY WaitTypes
<1>w. Waiting(s) = Wait(hand[s], queue[s], data) /\ Waiting(s)' = Wait(hand'[s], queue'[s], data')
  BY WaitingIs
<1>d. /\ Wait(hand[s], queue[s], data) # << >>
      /\ Head(Wait(hand[s], queue[s], data)) = data[hand[s]]
      /\ 1 \in 1 .. Len(Wait(hand[s], queue[s], data))
      /\ Wait(Nil, queue[s], data) = Tail(Wait(hand[s], queue[s], data))
      /\ Wait(Nil, queue[s], data) = Without(Wait(hand[s], queue[s], data), 1)
  BY <1>h, <1>t, WaitDone
<1>2. /\ Waiting(s) # << >> /\ Head(Waiting(s)) = data[hand[s]] /\ 1 \in 1 .. Len(Waiting(s))
      /\ Waiting(s)' = Tail(Waiting(s)) /\ Waiting(s)' = Without(Waiting(s), 1)
  BY <1>w, <1>d, <1>q, <1>u
<1>3. CASE received' = [received EXCEPT ![s][data[hand[s]].by] = data[hand[s]].n]
  <2>1. Gives(s)
    BY <1>1, <1>2, <1>3, <1>u DEF Gives
  <2> QED BY <2>1 DEF AbstractStep
<1>4. CASE UNCHANGED received
  <2>1. Loses(s, 1)
    BY <1>1, <1>2, <1>4, <1>u DEF Loses
  <2> QED BY <2>1 DEF AbstractStep
<1> QED BY <1>3, <1>4, <1>u

LEMMA WriteAbstract == ASSUME Reach, Counted, NEW w \in Writers, Write(w) PROVE AbstractStep
<1>w. /\ pool = {} => allocated < MaxBuffers
      /\ data' = [data EXCEPT ![Taken] = [by |-> w, n |-> wrote[w] + 1]]
      /\ UNCHANGED <<queue, hand, received, served>>
  BY WriteIs
<1>f. \A s \in Subs : hand[s] # Taken /\ \A i \in DOMAIN queue[s] : queue[s][i] # Taken
  BY <1>w, TakenIsFree
<1> HIDE DEF Taken
<1>1. ASSUME NEW x \in Subs PROVE Unmoved(x)
  <2>t. /\ hand[x] \in Buffers \cup {Nil} /\ queue[x] \in Seq(Buffers)
        /\ data \in [Buffers -> Messages] /\ data' \in [Buffers -> Messages]
    BY WaitTypes, WriteReach DEF Reach, BufferTypes
  <2>1. \A b \in Buffers : b # Taken => data'[b] = data[b]
    BY <1>w, <2>t
  <2>2. hand[x] # Nil => data[hand[x]] = data'[hand[x]]
    BY <2>1, <2>t, <1>f
  <2>3. \A i \in 1 .. Len(queue[x]) : data[queue[x][i]] = data'[queue[x][i]]
    BY <2>1, <2>t, <1>f
  <2>4. Wait(hand[x], queue[x], data') = Wait(hand[x], queue[x], data)
    BY <2>t, <2>2, <2>3, WaitData
  <2> QED BY <2>4, <1>w, WaitingIs DEF Unmoved
<1> QED BY <1>1, <1>w DEF AbstractStep, Stutters

LEMMA StepsAreAbstract ==
    ASSUME Reach, Counted, Progress, [HubNext]_hubVars
    PROVE  AbstractStep
<1>1. CASE UNCHANGED <<hand, queue, data, received, served>>
  BY <1>1, StuttersIf
<1>2. ASSUME NEW s \in Subs,
             HubAttach(s) \/ DetachLookup(s) \/ DetachRemove(s) \/ DetachWaits(s) \/ RunFails(s)
      PROVE  UNCHANGED <<hand, queue, data, received, served>>
  BY <1>2 DEF HubAttach, DetachLookup, DetachRemove, DetachWaits, RunFails, bufferVars, historyVars
<1>3. HubClose \/ CloseNext \/ UNCHANGED hubVars => UNCHANGED <<hand, queue, data, received, served>>
  BY DEF HubClose, CloseNext, hubVars, bufferVars, historyVars
<1>4. ASSUME NEW w \in Writers, Send(w) PROVE AbstractStep
  <2>1. CASE Enqueued(w, Head(rest[w]))
    BY <1>4, <2>1, EnqueuedAbstract DEF Send
  <2>2. CASE UNCHANGED <<queue, hand, bufferVars, historyVars>>
    BY <1>1, <2>2 DEF bufferVars, historyVars
  <2> QED BY <1>4, <2>1, <2>2 DEF Send
<1>5. ASSUME NEW w \in Writers, DropOldest(w) PROVE AbstractStep
  <2>1. CASE /\ queue[Head(rest[w])] # << >> /\ queue' = [queue EXCEPT ![Head(rest[w])] = Tail(@)]
             /\ ReleaseChunk(Head(queue[Head(rest[w])]))
    <3>1. UNCHANGED <<hand, data, received, served>> /\ Head(rest[w]) \in Subs
      BY <1>5, <2>1, Serving DEF DropOldest, ReleaseChunk, historyVars
    <3> QED BY <2>1, <3>1, DropAbstract
  <2>2. CASE UNCHANGED <<queue, bufferVars>>
    BY <1>1, <1>5, <2>2 DEF DropOldest, bufferVars, historyVars
  <2> QED BY <1>5, <2>1, <2>2 DEF DropOldest
<1>6. ASSUME NEW w \in Writers, Resend(w) PROVE AbstractStep
  <2>1. CASE Enqueued(w, Head(rest[w]))
    BY <1>6, <2>1, EnqueuedAbstract DEF Resend
  <2>2. CASE ReleaseChunk(chunk[w]) /\ UNCHANGED <<queue, hand, historyVars>>
    BY <1>1, <2>2 DEF ReleaseChunk, historyVars
  <2> QED BY <1>6, <2>1, <2>2 DEF Resend
<1>7. ASSUME NEW s \in Subs, RunDrains(s) PROVE AbstractStep
  <2>1. CASE queue[s] # << >> /\ queue' = [queue EXCEPT ![s] = Tail(@)] /\ ReleaseChunk(Head(queue[s]))
    <3>1. UNCHANGED <<hand, data, received, served>>
      BY <1>7, <2>1 DEF RunDrains, ReleaseChunk, historyVars
    <3> QED BY <2>1, <3>1, DropAbstract
  <2>2. CASE UNCHANGED <<queue, bufferVars>>
    BY <1>1, <1>7, <2>2 DEF RunDrains, bufferVars, historyVars
  <2> QED BY <1>7, <2>1, <2>2 DEF RunDrains
<1>8. CASE HubNext
  BY <1>1, <1>2, <1>3, <1>4, <1>5, <1>6, <1>7, <1>8, WriteAbstract, ReceivesAbstract,
     WritesAbstract DEF HubNext
<1> QED BY <1>1, <1>3, <1>8

-----------------------------------------------------------------------------
(* Order: a property of the abstract steps alone                            *)

\* What waits is newer than what was received, not newer than what was offered, and the
\* chunks of one writer wait in order.
Ordered(W, got, offered) ==
    /\ \A i \in 1 .. Len(W) : got[W[i].by] < W[i].n /\ W[i].n <= offered[W[i].by]
    /\ \A i, j \in 1 .. Len(W) : i < j /\ W[i].by = W[j].by => W[i].n < W[j].n
    /\ \A w \in Writers : got[w] <= offered[w]
InOrder == \A s \in Subs : Ordered(Waiting(s), received[s], served[s])

LEMMA OrderedAppend ==
    ASSUME NEW W \in Seq(Messages), NEW got \in [Writers -> Nat], NEW off \in [Writers -> Nat],
           NEW w \in Writers, NEW n \in Nat, n > off[w], Ordered(W, got, off)
    PROVE  Ordered(Append(W, [by |-> w, n |-> n]), got, [off EXCEPT ![w] = n])
<1> DEFINE m == [by |-> w, n |-> n]
           V == Append(W, m)
           o == [off EXCEPT ![w] = n]
<1>1. /\ Len(V) = Len(W) + 1 /\ Len(W) \in Nat /\ V[Len(W) + 1] = m
      /\ \A i \in 1 .. Len(W) : V[i] = W[i]
  OBVIOUS
<1>2. o[w] = n /\ \A x \in Writers : x # w => o[x] = off[x]
  OBVIOUS
<1>3. \A i \in 1 .. Len(W) : W[i].by \in Writers /\ W[i].n \in Nat
  <2>1. \A i \in 1 .. Len(W) : W[i] \in Messages
    OBVIOUS
  <2> QED BY <2>1 DEF Messages
<1>4. m.by = w /\ m.n = n
  OBVIOUS
<1>o. /\ \A i \in 1 .. Len(W) : got[W[i].by] < W[i].n /\ W[i].n <= off[W[i].by]
      /\ \A i, j \in 1 .. Len(W) : i < j /\ W[i].by = W[j].by => W[i].n < W[j].n
      /\ \A x \in Writers : got[x] <= off[x]
  BY DEF Ordered
<1> HIDE DEF V, o, m
<1>8. ASSUME NEW x \in Writers PROVE got[x] <= o[x]
  <2>1. got[x] <= off[x] /\ off[x] \in Nat /\ got[x] \in Nat /\ off[w] \in Nat
    BY <1>o
  <2> QED BY <2>1, <1>2
<1>5. ASSUME NEW i \in 1 .. Len(V) PROVE got[V[i].by] < V[i].n /\ V[i].n <= o[V[i].by]
  <2>1. CASE i = Len(W) + 1
    <3>1. got[w] \in Nat /\ off[w] \in Nat /\ got[w] <= off[w]
      BY <1>o
    <3> QED BY <2>1, <3>1, <1>1, <1>2, <1>4
  <2>2. CASE i \in 1 .. Len(W)
    <3>1. V[i] = W[i] /\ W[i].by \in Writers /\ W[i].n \in Nat
          /\ got[W[i].by] < W[i].n /\ W[i].n <= off[W[i].by]
      BY <2>2, <1>1, <1>3, <1>o
    <3>2. off[W[i].by] <= o[W[i].by] /\ off[W[i].by] \in Nat /\ o[W[i].by] \in Nat
      <4>1. PICK x \in Writers : x = W[i].by
        BY <3>1
      <4>2. off[x] <= o[x] /\ off[x] \in Nat /\ o[x] \in Nat
        BY <1>2
      <4> QED BY <4>1, <4>2
    <3> QED BY <3>1, <3>2
  <2> QED BY <2>1, <2>2, <1>1
<1>6. ASSUME NEW i \in 1 .. Len(V), NEW j \in 1 .. Len(V), i < j, V[i].by = V[j].by
      PROVE  V[i].n < V[j].n
  <2>0. i \in 1 .. Len(W) /\ V[i] = W[i]
    BY <1>1, <1>6
  <2>1. CASE j = Len(W) + 1
    <3>1. W[i].by = w /\ V[j].n = n
      BY <2>0, <2>1, <1>1, <1>4, <1>6
    <3>2. W[i].n <= off[w] /\ W[i].n \in Nat /\ off[w] \in Nat
      BY <2>0, <3>1, <1>3, <1>o
    <3> QED BY <2>0, <3>1, <3>2
  <2>2. CASE j \in 1 .. Len(W)
    BY <2>0, <2>2, <1>1, <1>6, <1>o
  <2> QED BY <2>1, <2>2, <1>1
<1>7. Ordered(V, got, o)
  BY <1>5, <1>6, <1>8 DEF Ordered
<1> QED BY <1>7 DEF V, m, o

LEMMA OrderedWithout ==
    ASSUME NEW W \in Seq(Messages), NEW got, NEW off, NEW k \in 1 .. Len(W), Ordered(W, got, off)
    PROVE  Ordered(Without(W, k), got, off)
<1> DEFINE V == Without(W, k)
           at(j) == IF j < k THEN j ELSE j + 1
<1>0. Len(W) \in Nat /\ V = [j \in 1 .. Len(W) - 1 |-> W[at(j)]]
  BY DEF Without
<1>1. \A j \in 1 .. Len(W) - 1 : at(j) \in 1 .. Len(W) /\ V[j] = W[at(j)]
  BY <1>0
<1>2. \A i, j \in 1 .. Len(W) - 1 : i < j => at(i) < at(j)
  BY <1>0
<1>3. Len(V) = Len(W) - 1
  BY <1>0
<1>o. /\ \A i \in 1 .. Len(W) : got[W[i].by] < W[i].n /\ W[i].n <= off[W[i].by]
      /\ \A i, j \in 1 .. Len(W) : i < j /\ W[i].by = W[j].by => W[i].n < W[j].n
      /\ \A x \in Writers : got[x] <= off[x]
  BY DEF Ordered
<1> HIDE DEF V, at
<1>4. Ordered(V, got, off)
  BY <1>1, <1>2, <1>3, <1>o DEF Ordered
<1> QED BY <1>4 DEF V

LEMMA OrderedTail ==
    ASSUME NEW W \in Seq(Messages), W # << >>, NEW got \in [Writers -> Nat],
           NEW off \in [Writers -> Nat], Ordered(W, got, off)
    PROVE  /\ Head(W).by \in Writers /\ Head(W).n \in Nat /\ Head(W).n > got[Head(W).by]
           /\ Head(W).n <= off[Head(W).by]
           /\ Ordered(Tail(W), [got EXCEPT ![Head(W).by] = Head(W).n], off)
<1> DEFINE m == Head(W)
           V == Tail(W)
           g == [got EXCEPT ![m.by] = m.n]
<1>1. /\ m = W[1] /\ Len(W) \in Nat /\ Len(W) >= 1
      /\ Len(V) = Len(W) - 1 /\ \A i \in 1 .. Len(W) - 1 : V[i] = W[i + 1]
  BY HeadOf
<1>3. \A i \in 1 .. Len(W) : W[i].by \in Writers /\ W[i].n \in Nat
  <2>1. \A i \in 1 .. Len(W) : W[i] \in Messages
    OBVIOUS
  <2> QED BY <2>1 DEF Messages
<1>o. /\ \A i \in 1 .. Len(W) : got[W[i].by] < W[i].n /\ W[i].n <= off[W[i].by]
      /\ \A i, j \in 1 .. Len(W) : i < j /\ W[i].by = W[j].by => W[i].n < W[j].n
      /\ \A x \in Writers : got[x] <= off[x]
  BY DEF Ordered
<1> HIDE DEF m, V
<1>4. m.by \in Writers /\ m.n \in Nat /\ m.n > got[m.by] /\ m.n <= off[m.by]
  <2>1. 1 \in 1 .. Len(W)
    BY <1>1
  <2>2. /\ m.by \in Writers /\ m.n \in Nat /\ got[m.by] < m.n /\ m.n <= off[m.by]
        /\ got[m.by] \in Nat
    BY <2>1, <1>1, <1>3, <1>o
  <2> QED BY <2>2
<1>5. g[m.by] = m.n /\ \A x \in Writers : x # m.by => g[x] = got[x]
  BY <1>4
<1> HIDE DEF g
<1>6. ASSUME NEW i \in 1 .. Len(V) PROVE g[V[i].by] < V[i].n /\ V[i].n <= off[V[i].by]
  <2>1. i + 1 \in 1 .. Len(W) /\ V[i] = W[i + 1] /\ 1 \in 1 .. Len(W) /\ 1 < i + 1
    BY <1>1
  <2>2. CASE V[i].by = m.by
    BY <2>1, <2>2, <1>1, <1>5, <1>o
  <2>3. CASE V[i].by # m.by
    BY <2>1, <2>3, <1>3, <1>5, <1>o
  <2> QED BY <2>2, <2>3
<1>7. ASSUME NEW i \in 1 .. Len(V), NEW j \in 1 .. Len(V), i < j, V[i].by = V[j].by
      PROVE  V[i].n < V[j].n
  <2>1. /\ i + 1 \in 1 .. Len(W) /\ V[i] = W[i + 1] /\ i + 1 < j + 1
        /\ j + 1 \in 1 .. Len(W) /\ V[j] = W[j + 1]
    BY <1>1, <1>7
  <2> QED BY <2>1, <1>7, <1>o
<1>9. \A x \in Writers : g[x] <= off[x]
  BY <1>4, <1>5, <1>o
<1>8. Ordered(V, g, off)
  BY <1>6, <1>7, <1>9 DEF Ordered
<1> QED BY <1>4, <1>8 DEF m, V, g

LEMMA InOrderInit == HubInit => InOrder
<1> SUFFICES ASSUME HubInit, NEW s \in Subs PROVE Ordered(Waiting(s), received[s], served[s])
  BY DEF InOrder
<1>1. Waiting(s) = << >>
  BY DEF HubInit, Waiting
<1>2. \A w \in Writers : received[s][w] = 0 /\ served[s][w] = 0
  BY DEF HubInit
<1> QED BY <1>1, <1>2 DEF Ordered

LEMMA InOrderStep == ASSUME Reach, Reach', InOrder, AbstractStep PROVE InOrder'
<1> SUFFICES ASSUME NEW x \in Subs PROVE Ordered(Waiting(x)', received'[x], served'[x])
  BY DEF InOrder
<1>t. /\ Waiting(x) \in Seq(Messages) /\ received[x] \in [Writers -> Nat]
      /\ served[x] \in [Writers -> Nat]
      /\ received \in [Subs -> [Writers -> Nat]] /\ served \in [Subs -> [Writers -> Nat]]
  BY WaitTypes DEF Reach, HistoryTypes
<1>o. Ordered(Waiting(x), received[x], served[x])
  BY DEF InOrder
<1>1. CASE Unmoved(x) /\ received'[x] = received[x] /\ served'[x] = served[x]
  BY <1>1, <1>o DEF Unmoved
<1>2. CASE Stutters
  BY <1>1, <1>2 DEF Stutters
<1>3. ASSUME NEW s \in Subs, NEW w \in Writers, OffersTo(s, w)
      PROVE  Ordered(Waiting(x)', received'[x], served'[x])
  <2>0. /\ served' = [served EXCEPT ![s][w] = wrote[w]] /\ received' = received
        /\ wrote[w] > served[s][w] /\ wrote[w] \in Nat
    BY <1>3 DEF OffersTo, Reach, WriterTypes
  <2>1. CASE x # s
    <3>1. served'[x] = served[x]
      BY <2>0, <2>1, <1>t
    <3> QED BY <1>1, <1>3, <2>0, <2>1, <3>1 DEF OffersTo
  <2>2. CASE x = s
    <3>1. Waiting(x)' = Append(Waiting(x), [by |-> w, n |-> wrote[w]])
      BY <1>3, <2>2 DEF OffersTo
    <3>2. served'[x] = [served[x] EXCEPT ![w] = wrote[w]]
      BY <2>0, <2>2, <1>t
    <3>3. Ordered(Append(Waiting(x), [by |-> w, n |-> wrote[w]]), received[x],
                  [served[x] EXCEPT ![w] = wrote[w]])
      BY <1>t, <1>o, <2>0, <2>2, OrderedAppend
    <3> QED BY <2>0, <3>1, <3>2, <3>3
  <2> QED BY <2>1, <2>2
<1>4. ASSUME NEW s \in Subs, NEW k \in Nat, Loses(s, k)
      PROVE  Ordered(Waiting(x)', received'[x], served'[x])
  <2>1. CASE x # s
    BY <1>1, <1>4, <2>1 DEF Loses
  <2>2. CASE x = s
    BY <1>4, <2>2, <1>t, <1>o, OrderedWithout DEF Loses
  <2> QED BY <2>1, <2>2
<1>5. ASSUME NEW s \in Subs, Gives(s)
      PROVE  Ordered(Waiting(x)', received'[x], served'[x])
  <2>0. /\ received' = [received EXCEPT ![s][Head(Waiting(s)).by] = Head(Waiting(s)).n]
        /\ served' = served
    BY <1>5 DEF Gives
  <2>1. CASE x # s
    <3>1. received'[x] = received[x]
      BY <2>0, <2>1, <1>t
    <3> QED BY <1>1, <1>5, <2>0, <2>1, <3>1 DEF Gives
  <2>2. CASE x = s
    <3>1. Waiting(x) # << >> /\ Waiting(x)' = Tail(Waiting(x))
      BY <1>5, <2>2 DEF Gives
    <3>2. received'[x] = [received[x] EXCEPT ![Head(Waiting(x)).by] = Head(Waiting(x)).n]
      BY <2>0, <2>2, <1>t
    <3>3. Ordered(Tail(Waiting(x)), [received[x] EXCEPT ![Head(Waiting(x)).by] = Head(Waiting(x)).n],
                  served[x])
      BY <1>t, <1>o, <3>1, OrderedTail
    <3> QED BY <2>0, <3>1, <3>2, <3>3
  <2> QED BY <2>1, <2>2
<1> QED BY <1>2, <1>3, <1>4, <1>5 DEF AbstractStep

LEMMA InOrderAlways == HubSpec => []InOrder
<1>1. Reach /\ Reach' /\ Counted /\ Progress /\ InOrder /\ [HubNext]_hubVars => InOrder'
  BY StepsAreAbstract, InOrderStep
<1> QED BY InOrderInit, ReachAlways, CountedAlways, ProgressAlways, <1>1, PTL DEF HubSpec

-----------------------------------------------------------------------------
(* The refinement                                                           *)

LEMMA FanoutInitially == HubInit => FO!FanoutInit
<1> SUFFICES ASSUME HubInit PROVE FO!FanoutInit
  OBVIOUS
<1>1. \A s \in Subs : Waiting(s) = << >>
  BY DEF HubInit, Waiting
<1>2. received = [s \in Subs |-> [w \in Writers |-> 0]] /\ served = [s \in Subs |-> [w \in Writers |-> 0]]
  BY DEF HubInit
<1> QED BY <1>1, <1>2 DEF FO!FanoutInit

\* inbox, by name.
Inbox == [s \in Subs |-> Waiting(s)]

LEMMA InboxChanges ==
    ASSUME NEW s \in Subs, \A x \in Subs : x # s => Unmoved(x), NEW V, Waiting(s)' = V
    PROVE  Inbox' = [Inbox EXCEPT ![s] = V]
BY DEF Inbox, Unmoved

LEMMA FanoutSteps ==
    ASSUME Reach, Reach', InOrder, AbstractStep
    PROVE  [FO!FanoutNext]_FO!fanoutVars
<1>1. CASE Stutters
  <2>1. [s \in Subs |-> Waiting(s)]' = [s \in Subs |-> Waiting(s)]
    BY <1>1 DEF Stutters, Unmoved
  <2> QED BY <1>1, <2>1 DEF Stutters, FO!fanoutVars
<1>2. ASSUME NEW s \in Subs, NEW w \in Writers, OffersTo(s, w) PROVE FO!FanoutNext
  <2> DEFINE n == wrote[w]
  <2>1. Inbox' = [Inbox EXCEPT ![s] = Append(Waiting(s), [by |-> w, n |-> wrote[w]])]
    BY <1>2, InboxChanges DEF OffersTo
  <2>2. /\ wrote[w] > served[s][w] /\ served' = [served EXCEPT ![s][w] = wrote[w]]
        /\ UNCHANGED received /\ wrote[w] \in Nat /\ served \in [Subs -> [Writers -> Nat]]
    BY <1>2 DEF OffersTo, Reach, WriterTypes, HistoryTypes
  <2>3. Inbox[s] = Waiting(s)
    BY DEF Inbox
  <2>4. FO!Offer(s, w, wrote[w])
    BY <2>1, <2>2, <2>3 DEF FO!Offer, Inbox
  <2>5. served'[s][w] = wrote[w]
    BY <2>2
  <2> QED BY <2>4, <2>5 DEF FO!FanoutNext
<1>3. ASSUME NEW s \in Subs, NEW k \in Nat, Loses(s, k) PROVE FO!FanoutNext
  <2>1. Inbox' = [Inbox EXCEPT ![s] = Without(Waiting(s), k)]
    BY <1>3, InboxChanges DEF Loses
  <2>2. UNCHANGED <<received, served>> /\ k \in DOMAIN Waiting(s)
    BY <1>3, WaitTypes DEF Loses
  <2>3. Inbox[s] = Waiting(s)
    BY DEF Inbox
  <2>4. FO!Lose(s, k) /\ k \in DOMAIN Inbox[s]
    BY <2>1, <2>2, <2>3 DEF FO!Lose, Inbox, Without
  <2> QED BY <2>4 DEF FO!FanoutNext, Inbox
<1>4. ASSUME NEW s \in Subs, Gives(s) PROVE FO!FanoutNext
  <2>1. Inbox' = [Inbox EXCEPT ![s] = Tail(Waiting(s))]
    BY <1>4, InboxChanges DEF Gives
  <2>2. /\ Waiting(s) # << >> /\ served' = served
        /\ received' = [received EXCEPT ![s][Head(Waiting(s)).by] = Head(Waiting(s)).n]
    BY <1>4 DEF Gives
  <2>3. Inbox[s] = Waiting(s)
    BY DEF Inbox
  <2>4. Head(Waiting(s)).n > received[s][Head(Waiting(s)).by]
    BY <2>2, WaitTypes, OrderedTail DEF InOrder, Reach, HistoryTypes
  <2>5. FO!Receive(s)
    BY <2>1, <2>2, <2>3, <2>4 DEF FO!Receive, Inbox
  <2> QED BY <2>5 DEF FO!FanoutNext
<1> QED BY <1>1, <1>2, <1>3, <1>4 DEF AbstractStep

(* The multi-writer implements Fanout for any number of writers and         *)
(* subscribers and any queue size: what a subscriber gets are chunks that   *)
(* were written, unaltered although buffers are pooled and used again, each *)
(* at most once, and those of one writer in order; a slow subscriber only   *)
(* loses chunks (dynamicmultiwriter.go 112-205).                            *)
THEOREM RefinesFanout == HubSpec => ImplementsFanout
<1>1. Reach /\ Reach' /\ Counted /\ Progress /\ InOrder /\ [HubNext]_hubVars
        => [FO!FanoutNext]_FO!fanoutVars
  BY StepsAreAbstract, FanoutSteps
<1>2. HubSpec => FO!FanoutSpec
  BY FanoutInitially, ReachAlways, CountedAlways, ProgressAlways, InOrderAlways, <1>1, PTL
  DEF HubSpec, FO!FanoutSpec
<1> QED BY <1>2 DEF ImplementsFanout
=============================================================================
