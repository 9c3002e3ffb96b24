---------------------------- MODULE StreamProofs ----------------------------
(***************************************************************************)
(* Proofs about where streams come from.  The registry creates one session *)
(* per channel at a time, serves its subscribers and is drained by         *)
(* Shutdown, for any number of channels, callers, sessions and rounds; the *)
(* two maps of the route pool are exact and no tuner runs for nobody, for  *)
(* any number of callers, routes, tuners and sources; enabledRoutes sorts. *)
(***************************************************************************)
EXTENDS SessionRegistry, LiveSources, FiniteSetTheorems, TLAPS

-----------------------------------------------------------------------------
(* The session registry                                                     *)

\* Requests for which a number is set aside, see Room.
Asking == {b \in Callers : pc[b] \in {"retry", "found", "evict"}}

\* The bound never stands in the way of a request that has begun.
RoomKept == last + Cardinality(Asking) <= MaxSessions

\* Whoever deals with a creation or a session deals with one that was begun, and a round
\* of the loop is left while a session is looked at.
Places ==
    /\ \A k \in Keys : sessions[k] <= last
    /\ \A c \in Callers :
         /\ pc[c] \in {"found", "evict", "waiting", "creating", "have", "streaming"} =>
                at[c] \in 1 .. last
         /\ pc[c] \in {"found", "evict"} => attempt[c] < MaxAttempts

\* The creation of a caller is its own and has no outcome yet; what creates holds is the
\* creation of some caller.
Flights ==
    /\ \A n \in Sessions : n > last => outcome[n] = "pending"
    /\ \A c \in Callers : pc[c] = "creating" => outcome[at[c]] = "pending"
    /\ \A b, c \in Callers : pc[b] = "creating" /\ pc[c] = "creating" /\ at[b] = at[c] => b = c
    /\ \A k \in Keys : creates[k] # None =>
         \E c \in Callers : pc[c] = "creating" /\ Want[c] = k /\ at[c] = creates[k]

\* Shutdown awaits every creation in flight, and no other is begun meanwhile.
Awaited ==
    /\ shut # "off" => shuttingDown
    /\ shut = "await" => \A k \in Keys : creates[k] # None => creates[k] \in todo
    /\ shut \notin {"off", "await"} /\ ~expired => \A k \in Keys : creates[k] = None

\* How a demuxer moves when no subscriber comes or goes.
Winds(before, after) ==
    \/ after = before
    \/ before = "running" /\ after = "canceled"
    \/ before = "new" /\ after = "closing"
    \/ before = "closing" /\ after = "gone"

\* The inductive invariant.
SInv ==
    /\ TypeOK /\ RoomKept /\ Places /\ Flights
    /\ SingleFlight /\ SubscribersServed
    /\ Awaited /\ ShutdownDrains

-----------------------------------------------------------------------------
(* Frames: what a step leaves alone keeps the part that speaks of it.       *)

\* A step in which at most caller c moves and does not begin to ask.
LEMMA RoomFrame ==
    ASSUME TypeOK, RoomKept, last' = last, NEW c \in Callers, NEW place,
           pc' = [pc EXCEPT ![c] = place],
           place \in {"retry", "found", "evict"} => pc[c] \in {"retry", "found", "evict"}
    PROVE  RoomKept'
<1>1. IsFiniteSet(Asking) /\ Asking' \subseteq Asking
  <2>1. Asking \subseteq Callers
    BY DEF Asking
  <2>2. Asking' \subseteq Asking
    BY DEF Asking, TypeOK
  <2> QED BY <2>1, <2>2, CallersFinite, FS_Subset
<1>2. Cardinality(Asking') <= Cardinality(Asking) /\ Cardinality(Asking) \in Nat
      /\ Cardinality(Asking') \in Nat
  BY <1>1, FS_Subset, FS_CardinalityType
<1> QED BY <1>2, BoundsPositive DEF RoomKept, TypeOK

\* A step that leaves the callers alone.
LEMMA RoomSame ==
    ASSUME RoomKept, UNCHANGED <<pc, last>>
    PROVE  RoomKept'
<1>1. Asking' = Asking
  BY DEF Asking
<1> QED BY <1>1 DEF RoomKept

\* A caller that runs no creation and no stream moves to another place where it runs none;
\* registrations may be dropped.
LEMMA CallerMoves ==
    ASSUME SInv, NEW c \in Callers, NEW place, NEW m, Goto(c, place, m),
           pc[c] \notin {"creating", "streaming"},
           place \in {"idle", "retry", "found", "evict", "waiting", "have"},
           place \in {"retry", "found", "evict"} => pc[c] \in {"retry", "found", "evict"},
           m \in Sessions \cup {None},
           place \in {"found", "evict", "waiting", "have"} => m \in 1 .. last,
           attempt' \in [Callers -> 0 .. MaxAttempts],
           place \in {"found", "evict"} => attempt'[c] < MaxAttempts,
           \A b \in Callers : b # c => attempt'[b] = attempt[b],
           sessions' \in [Keys -> Sessions \cup {None}],
           \A k \in Keys : sessions'[k] \in {sessions[k], None},
           UNCHANGED <<creates, shuttingDown, last, outcome, keyOf, sessionVars, shutVars>>
    PROVE  SInv'
<1>t. TypeOK /\ last \in Nat
  BY DEF SInv, TypeOK
<1>p. /\ pc' = [pc EXCEPT ![c] = place] /\ pc'[c] = place /\ at'[c] = m
      /\ \A b \in Callers : b # c => pc'[b] = pc[b] /\ at'[b] = at[b]
  BY <1>t DEF Goto, TypeOK
<1>1. TypeOK'
  BY <1>t DEF TypeOK, Goto, sessionVars, shutVars
<1>2. RoomKept'
  BY <1>t, <1>p, RoomFrame DEF SInv
<1>3. Places'
  <2>1. \A k \in Keys : sessions'[k] <= last'
    BY <1>t DEF SInv, Places, None
  <2>2. ASSUME NEW b \in Callers
        PROVE  /\ pc'[b] \in {"found", "evict", "waiting", "creating", "have", "streaming"} =>
                    at'[b] \in 1 .. last'
               /\ pc'[b] \in {"found", "evict"} => attempt'[b] < MaxAttempts
    BY <1>p DEF SInv, Places
  <2> QED BY <2>1, <2>2 DEF Places
<1>4. Flights'
  BY <1>p DEF SInv, Flights
<1>5. SingleFlight'
  BY <1>p, CallersWantKeys DEF SInv, SingleFlight
<1>6. SubscribersServed'
  BY <1>t, <1>p DEF SInv, SubscribersServed, TypeOK, sessionVars
<1>7. Awaited' /\ ShutdownDrains'
  BY DEF SInv, Awaited, ShutdownDrains, shutVars
<1> QED BY <1>1, <1>2, <1>3, <1>4, <1>5, <1>6, <1>7 DEF SInv

-----------------------------------------------------------------------------
(* getOrCreate                                                              *)

LEMMA AcquireStep ==
    ASSUME SInv, NEW c \in Callers, Acquire(c)
    PROVE  SInv'
<1> DEFINE k == Want[c]
           n == last + 1
<1>t. /\ TypeOK /\ k \in Keys /\ last \in Nat /\ MaxSessions \in Nat
      /\ pc[c] \in {"idle", "retry"} /\ attempt[c] < MaxAttempts
  BY CallersWantKeys, BoundsPositive DEF SInv, TypeOK, Acquire
<1>f. IsFiniteSet(Asking) /\ Cardinality(Asking) \in Nat
  <2>1. Asking \subseteq Callers
    BY DEF Asking
  <2> QED BY <2>1, CallersFinite, FS_Subset, FS_CardinalityType
<1>u. UNCHANGED <<sessions, shuttingDown, outcome, sessionVars, shutVars>>
  BY DEF Acquire
<1> HIDE DEF k, n
<1>1. CASE /\ sessions[k] # None /\ Goto(c, "found", sessions[k])
           /\ UNCHANGED <<creates, last, keyOf, attempt>>
  <2>1. TypeOK'
    BY <1>t, <1>u, <1>1 DEF TypeOK, Goto, sessionVars, shutVars
  <2>2. RoomKept'
    <3>1. CASE pc[c] = "retry"
      BY <1>t, <1>1, <3>1, RoomFrame DEF SInv, Goto
    <3>2. CASE pc[c] = "idle"
      <4>1. last + Cardinality(Asking) < MaxSessions
        BY <3>2 DEF Acquire, Room, Asking
      <4>2. Asking' = Asking \cup {c} /\ c \notin Asking
        BY <1>t, <1>1, <3>2 DEF Goto, Asking, TypeOK
      <4>3. Cardinality(Asking') = Cardinality(Asking) + 1
        BY <4>2, <1>f, FS_AddElement
      <4> QED BY <4>1, <4>3, <1>1, <1>t, <1>f DEF RoomKept
    <3> QED BY <3>1, <3>2, <1>t
  <2>3. Places'
    BY <1>t, <1>u, <1>1 DEF SInv, Places, Goto, TypeOK, Sessions, None
  <2>4. Flights' /\ SingleFlight'
    BY <1>t, <1>u, <1>1 DEF SInv, Flights, SingleFlight, Goto, TypeOK
  <2>5. SubscribersServed'
    BY <1>t, <1>u, <1>1 DEF SInv, SubscribersServed, Goto, TypeOK, sessionVars
  <2>6. Awaited' /\ ShutdownDrains'
    BY <1>u, <1>1 DEF SInv, Awaited, ShutdownDrains, shutVars
  <2> QED BY <2>1, <2>2, <2>3, <2>4, <2>5, <2>6 DEF SInv
<1>2. CASE /\ Goto(c, "idle", None) /\ attempt' = [attempt EXCEPT ![c] = 0]
           /\ UNCHANGED <<creates, last, keyOf>>
  <2>1. TypeOK'
    BY <1>t, <1>u, <1>2, BoundsPositive DEF TypeOK, Goto, sessionVars, shutVars
  <2>2. RoomKept'
    BY <1>t, <1>2, RoomFrame DEF SInv, Goto
  <2>3. Places'
    BY <1>t, <1>u, <1>2 DEF SInv, Places, Goto, TypeOK
  <2>4. Flights' /\ SingleFlight'
    BY <1>t, <1>u, <1>2 DEF SInv, Flights, SingleFlight, Goto, TypeOK
  <2>5. SubscribersServed'
    BY <1>t, <1>u, <1>2 DEF SInv, SubscribersServed, Goto, TypeOK, sessionVars
  <2>6. Awaited' /\ ShutdownDrains'
    BY <1>u, <1>2 DEF SInv, Awaited, ShutdownDrains, shutVars
  <2> QED BY <2>1, <2>2, <2>3, <2>4, <2>5, <2>6 DEF SInv
<1>3. CASE /\ sessions[k] = None /\ JoinCreate(k) /\ Goto(c, "waiting", creates[k])
           /\ UNCHANGED <<creates, last, keyOf, attempt>>
  <2>1. TypeOK'
    BY <1>t, <1>u, <1>3 DEF TypeOK, Goto, sessionVars, shutVars
  <2>2. RoomKept'
    BY <1>t, <1>3, RoomFrame DEF SInv, Goto
  <2>3. creates[k] \in 1 .. last
    <3>1. PICK b \in Callers : pc[b] = "creating" /\ at[b] = creates[k]
      BY <1>t, <1>3 DEF SInv, Flights, JoinCreate
    <3> QED BY <3>1 DEF SInv, Places
  <2>4. Places'
    BY <1>t, <1>u, <1>3, <2>3 DEF SInv, Places, Goto, TypeOK
  <2>5. Flights' /\ SingleFlight'
    BY <1>t, <1>u, <1>3 DEF SInv, Flights, SingleFlight, Goto, TypeOK
  <2>6. SubscribersServed'
    BY <1>t, <1>u, <1>3 DEF SInv, SubscribersServed, Goto, TypeOK, sessionVars
  <2>7. Awaited' /\ ShutdownDrains'
    BY <1>u, <1>3 DEF SInv, Awaited, ShutdownDrains, shutVars
  <2> QED BY <2>1, <2>2, <2>4, <2>5, <2>6, <2>7 DEF SInv
<1>4. CASE /\ sessions[k] = None /\ ~shuttingDown /\ creates[k] = None
           /\ creates' = [creates EXCEPT ![k] = n] /\ last' = n
           /\ keyOf' = [keyOf EXCEPT ![n] = k]
           /\ Goto(c, "creating", n) /\ UNCHANGED attempt
  <2>1. n \in Sessions /\ n = last + 1 /\ RoomKept'
    <3>1. CASE pc[c] = "retry"
      <4>1. c \in Asking /\ Asking' = Asking \ {c}
        BY <1>t, <1>4, <3>1 DEF Goto, Asking, TypeOK
      <4>2. Cardinality(Asking') = Cardinality(Asking) - 1 /\ Cardinality(Asking') \in Nat
        BY <4>1, <1>f, FS_RemoveElement, FS_CardinalityType
      <4> QED BY <4>2, <1>4, <1>t, <1>f DEF SInv, RoomKept, Sessions, n
    <3>2. CASE pc[c] = "idle"
      <4>1. last + Cardinality(Asking) < MaxSessions
        BY <3>2 DEF Acquire, Room, Asking
      <4>2. Asking' = Asking
        BY <1>t, <1>4, <3>2 DEF Goto, Asking, TypeOK
      <4> QED BY <4>1, <4>2, <1>4, <1>t, <1>f DEF RoomKept, Sessions, n
    <3> QED BY <3>1, <3>2, <1>t
  <2>2. TypeOK'
    BY <1>t, <1>u, <1>4, <2>1 DEF TypeOK, Goto, Sessions, sessionVars, shutVars
  <2>p. /\ pc'[c] = "creating" /\ at'[c] = n
        /\ \A b \in Callers : b # c => pc'[b] = pc[b] /\ at'[b] = at[b]
    BY <1>t, <1>4 DEF Goto, TypeOK
  <2>b. \A b \in Callers : pc[b] = "creating" => at[b] # n /\ b # c
    BY <1>t, <2>1 DEF SInv, Places
  <2>3. Places'
    <3>1. \A j \in Keys : sessions'[j] <= last'
      BY <1>t, <1>u, <1>4, <2>1 DEF SInv, Places, TypeOK, Sessions, None
    <3>2. ASSUME NEW b \in Callers,
                 pc'[b] \in {"found", "evict", "waiting", "creating", "have", "streaming"}
          PROVE  at'[b] \in 1 .. last'
      BY <1>t, <1>4, <2>1, <2>p, <3>2 DEF SInv, Places
    <3>3. ASSUME NEW b \in Callers, pc'[b] \in {"found", "evict"}
          PROVE  attempt'[b] < MaxAttempts
      BY <1>4, <2>p, <3>3 DEF SInv, Places
    <3> QED BY <3>1, <3>2, <3>3 DEF Places
  <2>4. Flights'
    <3>1. \A m \in Sessions : m > last' => outcome'[m] = "pending"
      BY <1>t, <1>u, <1>4, <2>1 DEF SInv, Flights, Sessions
    <3>2. \A b \in Callers : pc'[b] = "creating" => outcome'[at'[b]] = "pending"
      <4>1. outcome'[n] = "pending"
        BY <1>t, <1>u, <2>1 DEF SInv, Flights, Sessions
      <4> QED BY <1>u, <2>p, <4>1 DEF SInv, Flights
    <3>3. \A a, b \in Callers :
             pc'[a] = "creating" /\ pc'[b] = "creating" /\ at'[a] = at'[b] => a = b
      BY <2>p, <2>b DEF SInv, Flights
    <3>4. ASSUME NEW j \in Keys, creates'[j] # None
          PROVE  \E b \in Callers : pc'[b] = "creating" /\ Want[b] = j /\ at'[b] = creates'[j]
      <4>1. CASE j = k
        BY <1>t, <1>4, <2>p, <4>1 DEF k, TypeOK
      <4>2. CASE j # k
        <5>1. creates'[j] = creates[j]
          BY <1>t, <1>4, <4>2 DEF TypeOK
        <5>2. PICK b \in Callers : pc[b] = "creating" /\ Want[b] = j /\ at[b] = creates[j]
          BY <5>1, <3>4 DEF SInv, Flights
        <5> QED BY <5>1, <5>2, <2>p, <2>b
      <4> QED BY <4>1, <4>2
    <3> QED BY <3>1, <3>2, <3>3, <3>4 DEF Flights
  <2>5. SingleFlight'
    BY <1>t, <1>u, <1>4, <2>1, CallersWantKeys
       DEF SInv, SingleFlight, Places, Goto, TypeOK, Sessions, None, k
  <2>6. SubscribersServed'
    BY <1>t, <1>u, <1>4 DEF SInv, SubscribersServed, Goto, TypeOK, sessionVars
  <2>7. Awaited' /\ ShutdownDrains'
    BY <1>u, <1>4 DEF SInv, Awaited, ShutdownDrains, shutVars
  <2> QED BY <2>1, <2>2, <2>3, <2>4, <2>5, <2>6, <2>7 DEF SInv
<1> QED BY <1>1, <1>2, <1>3, <1>4 DEF Acquire, JoinCreate, k, n

LEMMA AcquireFailedStep ==
    ASSUME SInv, NEW c \in Callers, AcquireFailed(c)
    PROVE  SInv'
<1>1. /\ pc[c] = "retry" /\ Goto(c, "idle", None) /\ attempt' = [attempt EXCEPT ![c] = 0]
      /\ UNCHANGED <<registryVars, sessionVars, shutVars>> /\ TypeOK
  BY DEF AcquireFailed, SInv
<1>2. /\ attempt' \in [Callers -> 0 .. MaxAttempts]
      /\ \A b \in Callers : b # c => attempt'[b] = attempt[b]
      /\ sessions' \in [Keys -> Sessions \cup {None}] /\ sessions' = sessions
  BY <1>1, BoundsPositive DEF TypeOK, registryVars
<1> QED BY <1>1, <1>2, CallerMoves DEF registryVars

LEMMA CheckAliveStep ==
    ASSUME SInv, NEW c \in Callers, CheckAlive(c)
    PROVE  SInv'
<1> DEFINE place == IF Alive(at[c]) THEN "have" ELSE "evict"
<1>1. /\ pc[c] = "found" /\ Goto(c, place, at[c])
      /\ UNCHANGED <<registryVars, sessionVars, attempt, shutVars>> /\ TypeOK
  BY DEF CheckAlive, SInv
<1>2. place \in {"have", "evict"}
  OBVIOUS
<1> HIDE DEF place
<1>3. /\ at[c] \in 1 .. last /\ at[c] \in Sessions \cup {None}
      /\ attempt' \in [Callers -> 0 .. MaxAttempts] /\ attempt'[c] < MaxAttempts
      /\ \A b \in Callers : b # c => attempt'[b] = attempt[b]
      /\ sessions' \in [Keys -> Sessions \cup {None}] /\ sessions' = sessions
  BY <1>1 DEF SInv, Places, TypeOK, registryVars
<1> QED BY <1>1, <1>2, <1>3, CallerMoves DEF registryVars

LEMMA RemoveIfSameStep ==
    ASSUME SInv, NEW c \in Callers, RemoveIfSame(c)
    PROVE  SInv'
<1>1. /\ pc[c] = "evict" /\ Goto(c, "retry", None) /\ attempt' = [attempt EXCEPT ![c] = @ + 1]
      /\ sessions' = [sessions EXCEPT ![Want[c]] = IF @ = at[c] THEN None ELSE @]
      /\ UNCHANGED <<creates, shuttingDown, last, outcome, keyOf, sessionVars, shutVars>>
      /\ TypeOK
  BY DEF RemoveIfSame, SInv
<1>2. /\ attempt' \in [Callers -> 0 .. MaxAttempts]
      /\ \A b \in Callers : b # c => attempt'[b] = attempt[b]
  BY <1>1, BoundsPositive DEF SInv, Places, TypeOK
<1>3. /\ sessions' \in [Keys -> Sessions \cup {None}]
      /\ \A k \in Keys : sessions'[k] \in {sessions[k], None}
  BY <1>1, CallersWantKeys DEF TypeOK
<1> QED BY <1>1, <1>2, <1>3, CallerMoves

LEMMA JoinReturnStep ==
    ASSUME SInv, NEW c \in Callers, JoinReturn(c)
    PROVE  SInv'
<1>1. /\ pc[c] = "waiting" /\ UNCHANGED <<registryVars, sessionVars, shutVars>> /\ TypeOK
      /\ at[c] \in 1 .. last /\ at[c] \in Sessions \cup {None}
      /\ sessions' \in [Keys -> Sessions \cup {None}] /\ sessions' = sessions
  BY DEF JoinReturn, SInv, Places, TypeOK, registryVars
<1>2. CASE Goto(c, "have", at[c]) /\ UNCHANGED attempt
  BY <1>1, <1>2, CallerMoves DEF TypeOK, registryVars
<1>3. CASE Goto(c, "idle", None) /\ attempt' = [attempt EXCEPT ![c] = 0]
  <2>1. /\ attempt' \in [Callers -> 0 .. MaxAttempts]
        /\ \A b \in Callers : b # c => attempt'[b] = attempt[b]
    BY <1>1, <1>3, BoundsPositive DEF TypeOK
  <2> QED BY <1>1, <1>3, <2>1, CallerMoves DEF registryVars
<1> QED BY <1>2, <1>3 DEF JoinReturn

LEMMA AbandonStep ==
    ASSUME SInv, NEW c \in Callers, Abandon(c)
    PROVE  SInv'
<1>1. /\ pc[c] \in {"waiting", "have"} /\ Goto(c, "idle", None)
      /\ attempt' = [attempt EXCEPT ![c] = 0]
      /\ UNCHANGED <<registryVars, sessionVars, shutVars>> /\ TypeOK
  BY DEF Abandon, SInv
<1>2. /\ attempt' \in [Callers -> 0 .. MaxAttempts]
      /\ \A b \in Callers : b # c => attempt'[b] = attempt[b]
      /\ sessions' \in [Keys -> Sessions \cup {None}] /\ sessions' = sessions
  BY <1>1, BoundsPositive DEF TypeOK, registryVars
<1> QED BY <1>1, <1>2, CallerMoves DEF registryVars

\* completeCreate: the creation of caller c ends, with a session or without.
LEMMA CompleteStep ==
    ASSUME SInv, NEW c \in Callers, CreateOk(c) \/ CreateFails(c)
    PROVE  SInv'
<1> DEFINE k == Want[c]
           n == at[c]
<1>t. /\ TypeOK /\ k \in Keys /\ n \in 1 .. last /\ n \in Sessions /\ n # None
      /\ last \in 0 .. MaxSessions /\ MaxSessions \in Nat
      /\ pc[c] = "creating" /\ creates[k] = n /\ sessions[k] = None
  BY CallersWantKeys, BoundsPositive
     DEF SInv, TypeOK, Places, SingleFlight, CreateOk, CreateFails, Sessions, None
<1>o. PICK place \in {"have", "idle"}, m \in {n, None}, r \in {"ok", "error"} :
        /\ place = "have" => m = n
        /\ Goto(c, place, m)
        /\ creates' = [creates EXCEPT ![k] = None]
        /\ outcome' = [outcome EXCEPT ![n] = r]
        /\ sessions' = [sessions EXCEPT ![k] = n] \/ sessions' = sessions
        /\ attempt' = attempt \/ attempt' = [attempt EXCEPT ![c] = 0]
  BY DEF CreateOk, CreateFails
<1>u. UNCHANGED <<shuttingDown, last, keyOf, sessionVars, shutVars>>
  BY DEF CreateOk, CreateFails
<1>w. \A b \in Callers : pc[b] = "creating" /\ b # c => Want[b] # k /\ at[b] # n
  BY <1>t DEF SInv, SingleFlight, Flights
<1>k. \A b \in Callers : Want[b] \in Keys
  BY CallersWantKeys
<1>K. Want[c] = k
  OBVIOUS
<1> HIDE DEF k, n
<1>p. /\ pc' = [pc EXCEPT ![c] = place] /\ pc'[c] = place /\ at'[c] = m
      /\ \A b \in Callers : b # c => pc'[b] = pc[b] /\ at'[b] = at[b]
  BY <1>t, <1>o DEF Goto, TypeOK
<1>q. /\ creates'[k] = None /\ outcome'[n] = r
      /\ \A j \in Keys : j # k => creates'[j] = creates[j] /\ sessions'[j] = sessions[j]
      /\ sessions'[k] \in {n, None}
      /\ \A j \in Sessions : j # n => outcome'[j] = outcome[j]
  BY <1>t, <1>o DEF TypeOK
<1>1. TypeOK'
  BY <1>t, <1>o, <1>u, BoundsPositive DEF TypeOK, Goto, sessionVars, shutVars
<1>2. RoomKept'
  BY <1>t, <1>p, <1>u, RoomFrame DEF SInv
<1>3. Places'
  <2>1. \A j \in Keys : sessions'[j] <= last'
    BY <1>t, <1>q, <1>u DEF SInv, Places, None
  <2>2. ASSUME NEW b \in Callers
        PROVE  /\ pc'[b] \in {"found", "evict", "waiting", "creating", "have", "streaming"} =>
                    at'[b] \in 1 .. last'
               /\ pc'[b] \in {"found", "evict"} => attempt'[b] < MaxAttempts
    BY <1>t, <1>o, <1>p, <1>u DEF SInv, Places, TypeOK
  <2> QED BY <2>1, <2>2 DEF Places
<1>4. Flights'
  <2>1. \A j \in Sessions : j > last' => outcome'[j] = "pending"
    BY <1>t, <1>q, <1>u DEF SInv, Flights
  <2>2. \A b \in Callers : pc'[b] = "creating" => outcome'[at'[b]] = "pending"
    <3> SUFFICES ASSUME NEW b \in Callers, pc'[b] = "creating"
                 PROVE  outcome'[at'[b]] = "pending"
      OBVIOUS
    <3>1. b # c /\ pc[b] = "creating" /\ at'[b] = at[b] /\ at[b] # n
      BY <1>p, <1>w
    <3>2. at[b] \in Sessions
      BY <1>t, <3>1 DEF SInv, Places, Sessions
    <3> QED BY <3>1, <3>2, <1>q DEF SInv, Flights
  <2>3. \A a, b \in Callers :
           pc'[a] = "creating" /\ pc'[b] = "creating" /\ at'[a] = at'[b] => a = b
    BY <1>p DEF SInv, Flights
  <2>4. ASSUME NEW j \in Keys, creates'[j] # None
        PROVE  \E b \in Callers : pc'[b] = "creating" /\ Want[b] = j /\ at'[b] = creates'[j]
    <3>1. j # k /\ creates'[j] = creates[j]
      BY <1>q, <2>4
    <3>2. PICK b \in Callers : pc[b] = "creating" /\ Want[b] = j /\ at[b] = creates[j]
      BY <3>1, <2>4 DEF SInv, Flights
    <3> QED BY <3>1, <3>2, <1>K, <1>p
  <2> QED BY <2>1, <2>2, <2>3, <2>4 DEF Flights
<1>5. SingleFlight'
  BY <1>p, <1>q, <1>w, <1>k DEF SInv, SingleFlight
<1>6. SubscribersServed'
  BY <1>t, <1>p, <1>u DEF SInv, SubscribersServed, TypeOK, sessionVars
<1>7. Awaited' /\ ShutdownDrains'
  BY <1>t, <1>q, <1>u DEF SInv, Awaited, ShutdownDrains, shutVars
<1> QED BY <1>1, <1>2, <1>3, <1>4, <1>5, <1>6, <1>7 DEF SInv

-----------------------------------------------------------------------------
(* Streams and the demuxer's life                                           *)

LEMMA SubscribeStep ==
    ASSUME SInv, NEW c \in Callers, Subscribe(c)
    PROVE  SInv'
<1>t. /\ TypeOK /\ pc[c] = "have" /\ at[c] \in 1 .. last /\ at[c] \in Sessions
      /\ UNCHANGED <<registryVars, halted, shutVars>>
      /\ attempt' = [attempt EXCEPT ![c] = 0]
  BY BoundsPositive DEF SInv, Places, TypeOK, Sessions, Subscribe
<1>a. /\ attempt' \in [Callers -> 0 .. MaxAttempts]
      /\ \A b \in Callers : b # c => attempt'[b] = attempt[b]
      /\ sessions' \in [Keys -> Sessions \cup {None}] /\ sessions' = sessions
  BY <1>t, BoundsPositive DEF TypeOK, registryVars
<1>1. CASE Goto(c, "idle", None) /\ UNCHANGED <<subs, demuxer>>
  BY <1>t, <1>a, <1>1, CallerMoves DEF registryVars, sessionVars
<1>2. CASE /\ Accepts(at[c]) /\ Goto(c, "streaming", at[c])
           /\ subs' = [subs EXCEPT ![at[c]] = @ \cup {c}]
           /\ demuxer' = [demuxer EXCEPT ![at[c]] = IF @ = "new" THEN "running" ELSE @]
  <2>p. /\ pc' = [pc EXCEPT ![c] = "streaming"] /\ pc'[c] = "streaming" /\ at' = at
        /\ \A b \in Callers : b # c => pc'[b] = pc[b]
    BY <1>t, <1>2 DEF Goto, TypeOK
  <2>1. TypeOK'
    BY <1>t, <1>a, <1>2 DEF TypeOK, Goto, registryVars, shutVars, DemuxerStates
  <2>2. RoomKept'
    BY <1>t, <2>p, RoomFrame DEF SInv, registryVars
  <2>3. Places'
    BY <1>t, <1>a, <2>p DEF SInv, Places, registryVars
  <2>4. Flights' /\ SingleFlight'
    BY <1>t, <2>p DEF SInv, Flights, SingleFlight, registryVars
  <2>5. SubscribersServed'
    <3> SUFFICES ASSUME NEW n \in Sessions
                 PROVE  /\ demuxer'[n] = "running" => subs'[n] # {}
                        /\ demuxer'[n] \in {"new", "closing", "gone"} => subs'[n] = {}
                        /\ \A b \in subs'[n] : pc'[b] = "streaming" /\ at'[b] = n
      BY DEF SubscribersServed
    <3>1. CASE n = at[c]
      BY <1>t, <1>2, <2>p, <3>1 DEF SInv, SubscribersServed, TypeOK, Accepts
    <3>2. CASE n # at[c]
      BY <1>t, <1>2, <2>p, <3>2 DEF SInv, SubscribersServed, TypeOK
    <3> QED BY <3>1, <3>2
  <2>6. Awaited' /\ ShutdownDrains'
    BY <1>t DEF SInv, Awaited, ShutdownDrains, registryVars, shutVars
  <2> QED BY <2>1, <2>2, <2>3, <2>4, <2>5, <2>6 DEF SInv
<1> QED BY <1>1, <1>2 DEF Subscribe

LEMMA UnsubscribeStep ==
    ASSUME SInv, NEW c \in Callers, Unsubscribe(c)
    PROVE  SInv'
<1> DEFINE m == at[c]
<1>t. /\ TypeOK /\ pc[c] = "streaming" /\ m \in Sessions
      /\ UNCHANGED <<registryVars, halted, attempt, shutVars>>
      /\ subs' = [subs EXCEPT ![m] = @ \ {c}]
      /\ demuxer' = [demuxer EXCEPT ![m] =
                          IF subs'[m] = {} /\ @ = "running" THEN "canceled" ELSE @]
  BY BoundsPositive DEF SInv, Places, TypeOK, Sessions, Unsubscribe
<1>p. /\ pc' = [pc EXCEPT ![c] = "idle"] /\ pc'[c] = "idle" /\ at'[c] = None
      /\ \A b \in Callers : b # c => pc'[b] = pc[b] /\ at'[b] = at[b]
  BY <1>t DEF Unsubscribe, Goto, TypeOK
<1>1. TypeOK'
  BY <1>t DEF Unsubscribe, TypeOK, Goto, registryVars, shutVars, DemuxerStates
<1>2. RoomKept'
  BY <1>t, <1>p, RoomFrame DEF SInv, registryVars
<1>3. Places'
  BY <1>t, <1>p DEF SInv, Places, registryVars
<1>4. Flights' /\ SingleFlight'
  BY <1>t, <1>p DEF SInv, Flights, SingleFlight, registryVars
<1>5. SubscribersServed'
  <2> SUFFICES ASSUME NEW n \in Sessions
               PROVE  /\ demuxer'[n] = "running" => subs'[n] # {}
                      /\ demuxer'[n] \in {"new", "closing", "gone"} => subs'[n] = {}
                      /\ \A b \in subs'[n] : pc'[b] = "streaming" /\ at'[b] = n
    BY DEF SubscribersServed
  <2>1. \A b \in subs[n] : b \in Callers /\ pc[b] = "streaming" /\ at[b] = n
    BY <1>t DEF SInv, SubscribersServed, TypeOK
  <2>2. CASE n = m
    BY <1>t, <1>p, <2>1, <2>2 DEF SInv, SubscribersServed, TypeOK
  <2>3. CASE n # m
    BY <1>t, <1>p, <2>1, <2>3 DEF SInv, SubscribersServed, TypeOK
  <2> QED BY <2>2, <2>3
<1>6. Awaited' /\ ShutdownDrains'
  BY <1>t DEF SInv, Awaited, ShutdownDrains, registryVars, shutVars
<1> QED BY <1>1, <1>2, <1>3, <1>4, <1>5, <1>6 DEF SInv

LEMMA DemuxerCloseStep ==
    ASSUME SInv, NEW m \in Sessions, DemuxerClose(m)
    PROVE  SInv'
<1>t. /\ TypeOK /\ demuxer' = [demuxer EXCEPT ![m] = "closing"]
      /\ subs' = [subs EXCEPT ![m] = {}]
      /\ UNCHANGED <<registryVars, halted, attempt, shutVars>>
  BY DEF SInv, DemuxerClose
<1>p. /\ \A b \in Callers : b \in subs[m] => pc[b] = "streaming" /\ pc'[b] = "idle"
                                              /\ at[b] = m
      /\ \A b \in Callers : b \notin subs[m] => pc'[b] = pc[b] /\ at'[b] = at[b]
  BY DEF SInv, SubscribersServed, DemuxerClose
<1>1. TypeOK'
  BY <1>t DEF DemuxerClose, TypeOK, registryVars, shutVars, DemuxerStates
<1>2. RoomKept'
  <2>1. Asking' = Asking
    BY <1>p DEF Asking
  <2> QED BY <1>t, <2>1 DEF SInv, RoomKept, registryVars
<1>3. Places'
  BY <1>t, <1>p DEF SInv, Places, registryVars
<1>4. Flights' /\ SingleFlight'
  BY <1>t, <1>p DEF SInv, Flights, SingleFlight, registryVars
<1>5. SubscribersServed'
  <2> SUFFICES ASSUME NEW n \in Sessions
               PROVE  /\ demuxer'[n] = "running" => subs'[n] # {}
                      /\ demuxer'[n] \in {"new", "closing", "gone"} => subs'[n] = {}
                      /\ \A b \in subs'[n] : pc'[b] = "streaming" /\ at'[b] = n
    BY DEF SubscribersServed
  <2>1. \A b \in subs[n] : b \in Callers /\ pc[b] = "streaming" /\ at[b] = n
    BY <1>t DEF SInv, SubscribersServed, TypeOK
  <2>2. CASE n = m
    BY <1>t, <2>2 DEF TypeOK
  <2>3. CASE n # m
    BY <1>t, <1>p, <2>1, <2>3 DEF SInv, SubscribersServed, TypeOK
  <2> QED BY <2>2, <2>3
<1>6. Awaited' /\ ShutdownDrains'
  BY <1>t DEF SInv, Awaited, ShutdownDrains, registryVars, shutVars
<1> QED BY <1>1, <1>2, <1>3, <1>4, <1>5, <1>6 DEF SInv

-----------------------------------------------------------------------------
(* OnStop and Shutdown                                                      *)

\* A step in which no caller moves, no creation is begun or ends and no demuxer begins or
\* loses a subscriber.
LEMMA CallersStay ==
    ASSUME SInv, UNCHANGED <<callerVars, creates, last, outcome, keyOf, subs>>,
           shuttingDown' \in BOOLEAN, halted' \subseteq Sessions,
           shut' \in {"off", "await", "list", "stop", "stopWait", "stopInline", "clear", "done"},
           todo' \subseteq Sessions, cur' \in Sessions \cup {None},
           expired' \in BOOLEAN, sourcesDown' \subseteq Sessions,
           sessions' \in [Keys -> Sessions \cup {None}],
           \A k \in Keys : sessions'[k] \in {sessions[k], None},
           demuxer' \in [Sessions -> DemuxerStates],
           \A n \in Sessions : Winds(demuxer[n], demuxer'[n]),
           Awaited', ShutdownDrains'
    PROVE  SInv'
<1>1. TypeOK'
  BY DEF SInv, TypeOK, callerVars
<1>2. RoomKept'
  BY RoomSame DEF SInv, callerVars
<1>3. Places'
  BY DEF SInv, Places, TypeOK, callerVars, None
<1>4. Flights' /\ SingleFlight'
  BY CallersWantKeys DEF SInv, Flights, SingleFlight, callerVars
<1>5. SubscribersServed'
  BY DEF SInv, SubscribersServed, callerVars, Winds
<1> QED BY <1>1, <1>2, <1>3, <1>4, <1>5 DEF SInv

LEMMA OnStopStep ==
    ASSUME SInv, NEW n \in Sessions, OnStop(n)
    PROVE  SInv'
<1>1. /\ TypeOK /\ demuxer[n] = "closing" /\ demuxer' = [demuxer EXCEPT ![n] = "gone"]
      /\ sessions' = [sessions EXCEPT ![keyOf[n]] = None]
      /\ UNCHANGED <<creates, shuttingDown, last, outcome, keyOf, subs, halted, callerVars,
                     shut, todo, cur, expired, sourcesDown>>
  BY DEF SInv, OnStop, shutVars
<1>2. /\ sessions' \in [Keys -> Sessions \cup {None}]
      /\ \A k \in Keys : sessions'[k] \in {sessions[k], None}
  BY <1>1 DEF TypeOK
<1>3. /\ demuxer' \in [Sessions -> DemuxerStates]
      /\ \A m \in Sessions : Winds(demuxer[m], demuxer'[m])
  <2>1. demuxer \in [Sessions -> DemuxerStates] /\ "gone" \in DemuxerStates
    BY <1>1 DEF TypeOK, DemuxerStates
  <2>2. demuxer' \in [Sessions -> DemuxerStates]
    BY <1>1, <2>1
  <2>3. ASSUME NEW m \in Sessions
        PROVE  Winds(demuxer[m], demuxer'[m])
    BY <1>1, <2>1 DEF Winds
  <2> QED BY <2>2, <2>3
<1>4. Awaited' /\ ShutdownDrains'
  BY <1>1, <1>2 DEF SInv, Awaited, ShutdownDrains
<1>5. /\ shuttingDown' \in BOOLEAN /\ halted' \subseteq Sessions /\ todo' \subseteq Sessions
      /\ shut' \in {"off", "await", "list", "stop", "stopWait", "stopInline", "clear", "done"}
      /\ cur' \in Sessions \cup {None} /\ expired' \in BOOLEAN /\ sourcesDown' \subseteq Sessions
  BY <1>1 DEF TypeOK
<1> QED BY <1>1, <1>2, <1>3, <1>4, <1>5, CallersStay

LEMMA ShutdownStep ==
    ASSUME SInv, Shutdown
    PROVE  SInv'
<1>t. TypeOK
  BY DEF SInv
<1>u. UNCHANGED <<callerVars, creates, last, outcome, keyOf, subs>>
  BY DEF Shutdown, BeginShutdown, AwaitCreates, AwaitExpires, ListSessions, StopSession,
         SessionStopped, ShutdownSources, ClearRegistry, registryVars, sessionVars
<1>1. /\ sessions' \in [Keys -> Sessions \cup {None}]
      /\ \A k \in Keys : sessions'[k] \in {sessions[k], None}
  <2>1. sessions' = sessions \/ sessions' = [k \in Keys |-> None]
    BY DEF Shutdown, BeginShutdown, AwaitCreates, AwaitExpires, ListSessions, StopSession,
           SessionStopped, ShutdownSources, ClearRegistry, registryVars
  <2> QED BY <1>t, <2>1 DEF TypeOK
<1>2. /\ demuxer' \in [Sessions -> DemuxerStates]
      /\ \A n \in Sessions : Winds(demuxer[n], demuxer'[n])
  <2>t. demuxer \in [Sessions -> DemuxerStates]
    BY <1>t DEF TypeOK
  <2>1. CASE demuxer' = demuxer
    <3>1. demuxer' \in [Sessions -> DemuxerStates]
      BY <2>t, <2>1
    <3>2. \A n \in Sessions : demuxer'[n] = demuxer[n]
      BY <2>1
    <3> QED BY <3>1, <3>2 DEF Winds
  <2>2. CASE \E n \in Sessions : demuxer' = [demuxer EXCEPT ![n] = StopDemuxer(@)]
    <3>1. PICK n \in Sessions : demuxer' = [demuxer EXCEPT ![n] = StopDemuxer(@)]
      BY <2>2
    <3>2. demuxer[n] \in DemuxerStates
      BY <2>t
    <3>3. /\ StopDemuxer(demuxer[n]) \in DemuxerStates
          /\ Winds(demuxer[n], StopDemuxer(demuxer[n]))
      BY <3>2 DEF StopDemuxer, DemuxerStates, Winds
    <3>4. demuxer' \in [Sessions -> DemuxerStates]
      BY <2>t, <3>1, <3>3
    <3>5. \A m \in Sessions : demuxer'[m] = IF m = n THEN StopDemuxer(demuxer[n]) ELSE demuxer[m]
      BY <2>t, <3>1
    <3> QED BY <3>3, <3>4, <3>5 DEF Winds
  <2> QED BY <2>1, <2>2
          DEF Shutdown, BeginShutdown, AwaitCreates, AwaitExpires, ListSessions, StopSession,
              SessionStopped, ShutdownSources, ClearRegistry, sessionVars
<1>3. /\ shuttingDown' \in BOOLEAN /\ halted' \subseteq Sessions
      /\ shut' \in {"off", "await", "list", "stop", "stopWait", "stopInline", "clear", "done"}
      /\ cur' \in Sessions \cup {None} /\ expired' \in BOOLEAN /\ sourcesDown' \subseteq Sessions
  <2>4. sourcesDown' \subseteq Sessions
    <3>1. 1 .. last \subseteq Sessions /\ sourcesDown \subseteq Sessions
      BY <1>t, BoundsPositive DEF TypeOK, Sessions
    <3>2. sourcesDown' \subseteq sourcesDown \cup 1 .. last
      BY DEF Shutdown, BeginShutdown, AwaitCreates, AwaitExpires, ListSessions, StopSession,
             SessionStopped, ShutdownSources, ClearRegistry, Late
    <3> QED BY <3>1, <3>2
  <2>1. shuttingDown' \in BOOLEAN /\ expired' \in BOOLEAN
    BY <1>t DEF TypeOK, Shutdown, BeginShutdown, AwaitCreates, AwaitExpires, ListSessions,
           StopSession, SessionStopped, ShutdownSources, ClearRegistry, registryVars, sessionVars
  <2>2. shut' \in {"off", "await", "list", "stop", "stopWait", "stopInline", "clear", "done"}
    BY <1>t DEF TypeOK, Shutdown, BeginShutdown, AwaitCreates, AwaitExpires, ListSessions,
           StopSession, SessionStopped, ShutdownSources, ClearRegistry, registryVars, sessionVars
  <2>3. halted' \subseteq Sessions /\ cur' \in Sessions \cup {None}
    BY <1>t DEF TypeOK, Shutdown, BeginShutdown, AwaitCreates, AwaitExpires, ListSessions,
           StopSession, SessionStopped, ShutdownSources, ClearRegistry, registryVars, sessionVars
  <2> QED BY <2>1, <2>2, <2>3, <2>4
<1>4. todo' \subseteq Sessions
  BY <1>t DEF TypeOK, Shutdown, BeginShutdown, AwaitCreates, AwaitExpires, ListSessions,
         StopSession, SessionStopped, ShutdownSources, ClearRegistry
<1>5. Awaited'
  <2>1. CASE BeginShutdown
    BY <2>1 DEF BeginShutdown, Awaited
  <2>2. CASE AwaitCreates
    <3>1. \A k \in Keys : creates[k] = None
      BY <2>2 DEF AwaitCreates, SInv, Awaited, Flights
    <3> QED BY <2>2, <3>1 DEF AwaitCreates, SInv, Awaited, registryVars
  <2>3. CASE AwaitExpires
    BY <2>3 DEF AwaitExpires, SInv, Awaited, registryVars
  <2>4. CASE ListSessions
    BY <2>4 DEF ListSessions, SInv, Awaited, registryVars
  <2>5. CASE \E n \in Sessions : StopSession(n)
    BY <2>5 DEF StopSession, SInv, Awaited, registryVars
  <2>6. CASE SessionStopped \/ ShutdownSources \/ ClearRegistry
    BY <2>6 DEF SessionStopped, ShutdownSources, ClearRegistry, SInv, Awaited, registryVars
  <2> QED BY <2>1, <2>2, <2>3, <2>4, <2>5, <2>6 DEF Shutdown
<1>6. ShutdownDrains'
  <2>1. CASE ClearRegistry
    BY <2>1 DEF ClearRegistry, SInv, Awaited, ShutdownDrains
  <2>2. CASE ~ClearRegistry
    BY <2>2 DEF Shutdown, BeginShutdown, AwaitCreates, AwaitExpires, ListSessions, StopSession,
           SessionStopped, ShutdownSources, ShutdownDrains
  <2> QED BY <2>1, <2>2
<1> QED BY <1>u, <1>1, <1>2, <1>3, <1>4, <1>5, <1>6, CallersStay

-----------------------------------------------------------------------------

LEMMA InitSInv == Init => SInv
<1> SUFFICES ASSUME Init PROVE SInv
  OBVIOUS
<1>1. TypeOK
  <2>1. (CHOOSE k \in Keys : TRUE) \in Keys
    BY CallersWantKeys
  <2>2. /\ sessions \in [Keys -> Sessions \cup {None}] /\ creates \in [Keys -> Sessions \cup {None}]
        /\ outcome \in [Sessions -> {"pending", "ok", "error"}] /\ keyOf \in [Sessions -> Keys]
        /\ demuxer \in [Sessions -> DemuxerStates] /\ subs \in [Sessions -> SUBSET Callers]
    BY <2>1 DEF Init, DemuxerStates
  <2>3. /\ attempt \in [Callers -> 0 .. MaxAttempts] /\ last \in 0 .. MaxSessions
        /\ at \in [Callers -> Sessions \cup {None}]
    BY BoundsPositive DEF Init
  <2> QED BY <2>2, <2>3 DEF Init, TypeOK
<1>2. RoomKept
  <2>1. Asking = {}
    BY DEF Init, Asking
  <2> QED BY <2>1, FS_EmptySet, BoundsPositive DEF Init, RoomKept
<1>3. Places /\ Flights /\ SingleFlight
  BY DEF Init, Places, Flights, SingleFlight, None
<1>4. SubscribersServed /\ Awaited /\ ShutdownDrains
  BY DEF Init, SubscribersServed, Awaited, ShutdownDrains
<1> QED BY <1>1, <1>2, <1>3, <1>4 DEF SInv

LEMMA NextSInv == SInv /\ [Next]_vars => SInv'
<1> SUFFICES ASSUME SInv, [Next]_vars PROVE SInv'
  OBVIOUS
<1>1. CASE \E c \in Callers : GetOrCreate(c)
  BY <1>1, AcquireStep, AcquireFailedStep, CheckAliveStep, RemoveIfSameStep, CompleteStep,
     JoinReturnStep DEF GetOrCreate
<1>2. CASE \E c \in Callers : Abandon(c) \/ Subscribe(c) \/ Unsubscribe(c)
  BY <1>2, AbandonStep, SubscribeStep, UnsubscribeStep
<1>3. CASE \E n \in Sessions : DemuxerClose(n) \/ OnStop(n)
  BY <1>3, DemuxerCloseStep, OnStopStep
<1>4. CASE Shutdown
  BY <1>4, ShutdownStep
<1>5. CASE UNCHANGED vars
  <2>1. RoomKept'
    BY <1>5, RoomSame DEF SInv, vars, callerVars, registryVars
  <2>2. TypeOK' /\ Places' /\ Flights' /\ SingleFlight' /\ SubscribersServed'
    BY <1>5 DEF SInv, TypeOK, Places, Flights, SingleFlight, SubscribersServed,
           vars, registryVars, sessionVars, callerVars, shutVars
  <2>3. Awaited' /\ ShutdownDrains'
    BY <1>5 DEF SInv, Awaited, ShutdownDrains, vars, registryVars, shutVars
  <2> QED BY <2>1, <2>2, <2>3 DEF SInv
<1> QED BY <1>1, <1>2, <1>3, <1>4, <1>5 DEF Next

\* The invariant holds in every reachable state, for any number of channels, callers,
\* sessions and rounds of getOrCreate.
THEOREM SessionsInductive == Spec => []SInv
<1> QED BY InitSInv, NextSInv, PTL DEF Spec

\* The registry, its sessions and its callers keep to the states they are declared to have.
THEOREM SessionTypes == Spec => []TypeOK
<1>1. SInv => TypeOK
  BY DEF SInv
<1> QED BY <1>1, SessionsInductive, PTL

\* Every creation that runs is the one registered for its channel: acquire, completeCreate,
\* a dead session's removeIfSame and OnStop never let two creations of a channel run.
THEOREM CreationIsSingleFlight == Spec => []SingleFlight
<1>1. SInv => SingleFlight
  BY DEF SInv
<1> QED BY <1>1, SessionsInductive, PTL

\* A running demuxer has a subscriber, a closed one has none, and every subscriber is a
\* stream of that session.
THEOREM StreamsAreServed == Spec => []SubscribersServed
<1>1. SInv => SubscribersServed
  BY DEF SInv
<1> QED BY <1>1, SessionsInductive, PTL

\* A Shutdown that was not cut short leaves no session and no creation, however many
\* creations it overtook.
THEOREM ShutdownIsComplete == Spec => []ShutdownDrains
<1>1. SInv => ShutdownDrains
  BY DEF SInv
<1> QED BY <1>1, SessionsInductive, PTL

-----------------------------------------------------------------------------
(* enabledRoutes                                                            *)

\* The definitions inside EnabledRoutes, by name.
Enabled(routes) == {i \in DOMAIN routes : ~routes[i].disabled}
Before(routes, i, j) ==
    \/ routes[i].priority < routes[j].priority
    \/ routes[i].priority = routes[j].priority /\ i < j
Preceding(routes, j) == {i \in Enabled(routes) : Before(routes, i, j)}
RankIn(routes, j) == 1 + Cardinality(Preceding(routes, j))

\* Sequences of routes with a priority.
Prioritized(routes) ==
    /\ \E len \in Nat : DOMAIN routes = 1 .. len
    /\ \A i \in DOMAIN routes : routes[i].priority \in Int

LEMMA EnabledFinite ==
    ASSUME NEW routes, Prioritized(routes)
    PROVE  /\ IsFiniteSet(Enabled(routes)) /\ Cardinality(Enabled(routes)) \in Nat
           /\ Enabled(routes) \subseteq Nat
           /\ \A j \in Enabled(routes) :
                /\ IsFiniteSet(Preceding(routes, j)) /\ Cardinality(Preceding(routes, j)) \in Nat
                /\ Preceding(routes, j) \subseteq Enabled(routes) \ {j}
<1>1. PICK len \in Nat : DOMAIN routes = 1 .. len
  BY DEF Prioritized
<1>2. IsFiniteSet(DOMAIN routes)
  BY <1>1, FS_Interval
<1>3. Enabled(routes) \subseteq DOMAIN routes /\ Enabled(routes) \subseteq Nat
  BY <1>1 DEF Enabled
<1>4. IsFiniteSet(Enabled(routes)) /\ Cardinality(Enabled(routes)) \in Nat
  BY <1>2, <1>3, FS_Subset, FS_CardinalityType
<1>5. ASSUME NEW j \in Enabled(routes)
      PROVE  /\ IsFiniteSet(Preceding(routes, j)) /\ Cardinality(Preceding(routes, j)) \in Nat
             /\ Preceding(routes, j) \subseteq Enabled(routes) \ {j}
  <2>1. Preceding(routes, j) \subseteq Enabled(routes) \ {j}
    BY <1>3 DEF Preceding, Before, Prioritized
  <2>2. Preceding(routes, j) \in SUBSET Enabled(routes)
    BY <2>1
  <2> QED BY <2>1, <2>2, <1>4, FS_Subset, FS_CardinalityType
<1> QED BY <1>3, <1>4, <1>5

\* Ranks follow the order strictly.
LEMMA RankGrows ==
    ASSUME NEW routes, Prioritized(routes),
           NEW i \in Enabled(routes), NEW j \in Enabled(routes), Before(routes, i, j)
    PROVE  RankIn(routes, i) < RankIn(routes, j)
<1> DEFINE P == Preceding(routes, i)
           Q == Preceding(routes, j)
<1>f. /\ IsFiniteSet(P) /\ IsFiniteSet(Q) /\ Cardinality(P) \in Nat /\ Cardinality(Q) \in Nat
      /\ i \notin P
  BY EnabledFinite
<1>1. i \in Q
  BY DEF Preceding
<1>2. P \subseteq Q
  <2> SUFFICES ASSUME NEW x \in P PROVE Before(routes, x, j)
    BY DEF Preceding
  <2>1. /\ Before(routes, x, i) /\ x \in Nat /\ i \in Nat /\ j \in Nat
        /\ x \in DOMAIN routes /\ i \in DOMAIN routes /\ j \in DOMAIN routes
    BY EnabledFinite DEF Preceding, Enabled
  <2>2. /\ routes[x].priority \in Int /\ routes[i].priority \in Int
        /\ routes[j].priority \in Int
    BY <2>1 DEF Prioritized
  <2> QED BY <2>1, <2>2 DEF Before
<1>3. Cardinality(P) <= Cardinality(Q) /\ (Cardinality(Q) = Cardinality(P) => Q = P)
  BY <1>2, <1>f, FS_Subset
<1>4. Cardinality(P) < Cardinality(Q)
  BY <1>1, <1>3, <1>f
<1> QED BY <1>4, <1>f DEF RankIn

\* Every place of the sorted list is the rank of exactly one enabled route.
LEMMA RankBijection ==
    ASSUME NEW routes, Prioritized(routes)
    PROVE  /\ \A j \in Enabled(routes) : RankIn(routes, j) \in 1 .. Cardinality(Enabled(routes))
           /\ \A i, j \in Enabled(routes) : RankIn(routes, i) = RankIn(routes, j) => i = j
           /\ \A n \in 1 .. Cardinality(Enabled(routes)) :
                \E j \in Enabled(routes) : RankIn(routes, j) = n
<1> DEFINE E == Enabled(routes)
           N == Cardinality(E)
<1>f. IsFiniteSet(E) /\ N \in Nat /\ E \subseteq Nat
  BY EnabledFinite
<1>1. ASSUME NEW j \in E PROVE RankIn(routes, j) \in 1 .. N
  <2>1. Cardinality(E \ {j}) = N - 1 /\ IsFiniteSet(E \ {j})
    BY <1>f, FS_RemoveElement
  <2>2. Preceding(routes, j) \in SUBSET (E \ {j}) /\ Cardinality(Preceding(routes, j)) \in Nat
    BY EnabledFinite
  <2>3. Cardinality(Preceding(routes, j)) <= N - 1
    BY <2>1, <2>2, FS_Subset
  <2> QED BY <1>f, <2>2, <2>3 DEF RankIn
<1>2. ASSUME NEW i \in E, NEW j \in E, i # j PROVE RankIn(routes, i) # RankIn(routes, j)
  <2>1. /\ i \in Nat /\ j \in Nat /\ routes[i].priority \in Int /\ routes[j].priority \in Int
    BY <1>f DEF Prioritized, Enabled
  <2>2. Before(routes, i, j) \/ Before(routes, j, i)
    BY <2>1, <1>2 DEF Before
  <2>3. RankIn(routes, i) \in Int /\ RankIn(routes, j) \in Int
    BY <1>1
  <2>4. RankIn(routes, i) < RankIn(routes, j) \/ RankIn(routes, j) < RankIn(routes, i)
    BY <2>2, RankGrows
  <2> QED BY <2>3, <2>4
<1>3. ASSUME NEW n \in 1 .. N PROVE \E j \in E : RankIn(routes, j) = n
  <2> SUFFICES ASSUME \A j \in E : RankIn(routes, j) # n PROVE FALSE
    OBVIOUS
  <2> DEFINE T == (1 .. N) \ {n}
             f == [j \in E |-> RankIn(routes, j)]
  <2>1. IsFiniteSet(1 .. N) /\ Cardinality(1 .. N) = N
    BY <1>f, <1>3, FS_Interval
  <2>2. IsFiniteSet(T) /\ Cardinality(T) < N
    <3>1. n \in 1 .. N
      BY <1>3
    <3>2. IsFiniteSet(T) /\ Cardinality(T) = N - 1
      BY <2>1, <3>1, FS_RemoveElement
    <3> QED BY <3>2, <1>f
  <2>3. f \in [E -> T]
    BY <1>1
  <2> HIDE DEF T, f
  <2>4. \E x, y \in E : x # y /\ f[x] = f[y]
    BY <1>f, <2>2, <2>3, FS_PigeonHole
  <2> QED BY <2>4, <1>2 DEF f
<1> QED BY <1>1, <1>2, <1>3

LEMMA EnabledRoutesAre ==
    ASSUME NEW routes
    PROVE  EnabledRoutes(routes) =
             [n \in 1 .. Cardinality(Enabled(routes)) |->
                routes[CHOOSE j \in Enabled(routes) : RankIn(routes, j) = n]]
BY DEF EnabledRoutes, Enabled, RankIn, Preceding, Before

\* The route at a place of the sorted list.
LEMMA RouteAt ==
    ASSUME NEW routes, Prioritized(routes),
           NEW n \in 1 .. Cardinality(Enabled(routes))
    PROVE  \E j \in Enabled(routes) :
               RankIn(routes, j) = n /\ EnabledRoutes(routes)[n] = routes[j]
<1>1. \E j \in Enabled(routes) : RankIn(routes, j) = n
  BY RankBijection
<1> DEFINE j == CHOOSE i \in Enabled(routes) : RankIn(routes, i) = n
<1>2. j \in Enabled(routes) /\ RankIn(routes, j) = n
  BY <1>1
<1>3. EnabledRoutes(routes)[n] = routes[j]
  BY EnabledRoutesAre
<1> QED BY <1>2, <1>3

LEMMA RoutesPrioritized ==
    ASSUME NEW c \in Acquirers
    PROVE  Prioritized(Routes[c]) /\ \A i \in DOMAIN Routes[c] : Routes[c][i] \in RouteSet
<1> DEFINE R == [key : {r.key : r \in RouteSet}, type : {r.type : r \in RouteSet},
                 remote : BOOLEAN, disabled : BOOLEAN, priority : Int]
<1>1. Routes[c] \in Seq(R)
  BY LiveConstants
<1>p. \A r \in R : r.priority \in Int
  OBVIOUS
<1> HIDE DEF R
<1>2. DOMAIN Routes[c] = 1 .. Len(Routes[c]) /\ Len(Routes[c]) \in Nat
  BY <1>1
<1>3. \A i \in DOMAIN Routes[c] : Routes[c][i].priority \in Int
  BY <1>1, <1>2, <1>p
<1> QED BY <1>2, <1>3 DEF Prioritized, RouteSet

\* enabledRoutes returns the routes that are not disabled, every one of them, in order of
\* priority, for routes of any number and any priorities.
THEOREM EnabledRoutesSorted ==
    \A c \in Acquirers :
        /\ Ordered[c] \in Seq(RouteSet)
        /\ \A m, n \in DOMAIN Ordered[c] :
             m < n => Ordered[c][m].priority <= Ordered[c][n].priority
        /\ \A i \in DOMAIN Routes[c] :
             ~Routes[c][i].disabled => \E n \in DOMAIN Ordered[c] : Ordered[c][n] = Routes[c][i]
        /\ \A n \in DOMAIN Ordered[c] : ~Ordered[c][n].disabled
<1> TAKE c \in Acquirers
<1> DEFINE routes == Routes[c]
           N == Cardinality(Enabled(routes))
<1>0. Prioritized(routes) /\ N \in Nat /\ Enabled(routes) \subseteq DOMAIN routes
  BY RoutesPrioritized, EnabledFinite DEF Enabled
<1>1. Ordered[c] = EnabledRoutes(routes) /\ DOMAIN Ordered[c] = 1 .. N
  BY EnabledRoutesAre DEF Ordered
<1>2. ASSUME NEW n \in 1 .. N
      PROVE  \E j \in Enabled(routes) : RankIn(routes, j) = n /\ Ordered[c][n] = routes[j]
  BY <1>0, <1>1, RouteAt
<1>3. Ordered[c] \in Seq(RouteSet)
  <2>1. \A n \in 1 .. N : Ordered[c][n] \in RouteSet
    BY <1>0, <1>2, RoutesPrioritized
  <2>2. Ordered[c] = [n \in 1 .. N |-> Ordered[c][n]]
    BY <1>1, EnabledRoutesAre
  <2> QED BY <1>0, <2>1, <2>2
<1>4. ASSUME NEW m \in 1 .. N, NEW n \in 1 .. N, m < n
      PROVE  Ordered[c][m].priority <= Ordered[c][n].priority
  <2>1. PICK i \in Enabled(routes) : RankIn(routes, i) = m /\ Ordered[c][m] = routes[i]
    BY <1>2
  <2>2. PICK j \in Enabled(routes) : RankIn(routes, j) = n /\ Ordered[c][n] = routes[j]
    BY <1>2
  <2>3. routes[i].priority \in Int /\ routes[j].priority \in Int
    BY <1>0 DEF Prioritized
  <2>4. ~Before(routes, j, i)
    <3>1. m \in Int /\ n \in Int
      OBVIOUS
    <3>2. Before(routes, j, i) => n < m
      BY <1>0, <2>1, <2>2, RankGrows
    <3> QED BY <1>4, <3>1, <3>2
  <2> QED BY <2>1, <2>2, <2>3, <2>4 DEF Before
<1>5. ASSUME NEW i \in DOMAIN routes, ~routes[i].disabled
      PROVE  \E n \in 1 .. N : Ordered[c][n] = routes[i]
  <2>1. i \in Enabled(routes) /\ RankIn(routes, i) \in 1 .. N
    BY <1>0, <1>5, RankBijection DEF Enabled
  <2>2. PICK j \in Enabled(routes) :
           RankIn(routes, j) = RankIn(routes, i) /\ Ordered[c][RankIn(routes, i)] = routes[j]
    BY <1>2, <2>1
  <2>3. j = i
    BY <1>0, <2>1, <2>2, RankBijection
  <2> QED BY <2>1, <2>2, <2>3
<1>6. \A n \in 1 .. N : ~Ordered[c][n].disabled
  BY <1>2 DEF Enabled
<1> QED BY <1>1, <1>3, <1>4, <1>5, <1>6

\* The route a caller tries has a key the pool knows.
LEMMA RouteKnown ==
    ASSUME NEW c \in Acquirers, pos[c] \in Nat \ {0}, HasRoute(c)
    PROVE  Route(c).key \in RouteKeys
<1>1. Ordered[c] \in Seq(RouteSet)
  BY EnabledRoutesSorted
<1>2. pos[c] \in 1 .. Len(Ordered[c])
  BY <1>1 DEF HasRoute
<1>3. Route(c) \in RouteSet
  BY <1>1, <1>2 DEF Route
<1> QED BY <1>3 DEF RouteKeys

-----------------------------------------------------------------------------
(* The invariant                                                            *)

\* Callers for which a number is set aside, see SourcesLeft.
Claiming == {c \in Acquirers :
                \/ where[c] \in {"try", "join", "acquire", "retry"}
                \/ where[c] = "finish" /\ held[c] = NoOne}

\* The bound never stands in the way of a caller that has begun.
NumbersLeft == made + Cardinality(Claiming) <= MaxSources

\* Whatever is dealt with was made, and is listed under its own route.
Made ==
    /\ where[Shut] \in {"idle", "stopping", "stop", "stopSource", "onStop"}
    /\ \A c \in Acquirers : where[c] \in {"join", "acquire", "commit", "finish"} => HasRoute(c)
    /\ \A p \in Procs :
         /\ held[p] <= made
         /\ where[p] \in {"commit", "have", "starting", "streaming", "stop", "stopSource",
                         "onStop"} => held[p] # NoOne
    /\ \A k \in RouteKeys :
         entry[k] # NoOne => entry[k] <= made /\ routeOf[entry[k]] = k
    /\ \A n \in started \cup stopped \cup starting \cup left : n <= made

\* A caller that creates a source is the one registered for the route, which has no source
\* until it commits; the device it commits is nobody else's yet.
Creators ==
    /\ \A c \in Acquirers :
         /\ where[c] \in {"acquire", "commit", "finish"} => making[Route(c).key] = c
         /\ where[c] \in {"acquire", "commit"} => entry[Route(c).key] = NoOne
         /\ where[c] = "commit" => routeOf[held[c]] = Route(c).key
    /\ \A c \in Acquirers : where[c] = "commit" =>
         /\ held[c] \notin started \cup stopped \cup starting \cup left
         /\ \A k \in RouteKeys : entry[k] # held[c]
         /\ \A p \in Procs : p # c => held[p] # held[c]

\* A broadcast is listed until it has been stopped, by one process.
Stops ==
    /\ \A n \in Sources : n <= made /\ n \notin stopped =>
         \/ entry[routeOf[n]] = n
         \/ \E c \in Acquirers : where[c] = "commit" /\ held[c] = n
    /\ \A n \in stopped : entry[routeOf[n]] = n =>
         \E p \in Procs : where[p] \in {"stopSource", "onStop"} /\ held[p] = n
    /\ \A p \in Procs : where[p] \in {"stopSource", "onStop"} => held[p] \in stopped
    /\ \A p \in Procs : where[p] = "onStop" => tunerOf[held[p]] = NoOne
    /\ \A p, q \in Procs :
         /\ where[p] \in {"stopSource", "onStop"} /\ where[q] \in {"stopSource", "onStop"}
         /\ held[p] = held[q]
         => p = q

\* A source is started by one subscriber, under the lock.
Starts ==
    /\ \A c \in Acquirers :
         where[c] = "starting" => held[c] \in starting /\ held[c] \notin started
    /\ \A b, c \in Acquirers :
         where[b] = "starting" /\ where[c] = "starting" /\ held[b] = held[c] => b = c

\* The inductive invariant.
LInv ==
    /\ LiveTypeOK /\ NumbersLeft /\ Made /\ Creators /\ Stops /\ Starts
    /\ PoolMapExact /\ NobodyWatchesNothing

-----------------------------------------------------------------------------
(* Frames                                                                   *)

\* Process p moves and nobody else does.
Alone(p) == \A q \in Procs : q # p => where'[q] = where[q] /\ held'[q] = held[q]

Wheres == {"idle", "try", "join", "acquire", "commit", "finish", "retry", "have", "remote",
           "starting", "streaming", "stop", "stopSource", "onStop", "stopping"}

LEMMA MoveIsAlone ==
    ASSUME LiveTypeOK, NEW p \in Procs, NEW place \in Wheres, NEW n \in Sources \cup {NoOne},
           Move(p, place, n)
    PROVE  /\ where' \in [Procs -> Wheres] /\ held' \in [Procs -> Sources \cup {NoOne}]
           /\ where'[p] = place /\ held'[p] = n /\ Alone(p)
BY DEF LiveTypeOK, Move, Alone, Wheres

\* The number set aside for a caller is kept while it needs one.
LEMMA NumbersFrame ==
    ASSUME LInv, made' = made, Claiming' \subseteq Claiming
    PROVE  NumbersLeft'
<1>1. IsFiniteSet(Claiming)
  <2>1. Claiming \in SUBSET Acquirers
    BY DEF Claiming
  <2> QED BY <2>1, AcquirersFinite, FS_Subset
<1>2. /\ Cardinality(Claiming') <= Cardinality(Claiming)
      /\ Cardinality(Claiming) \in Nat /\ Cardinality(Claiming') \in Nat
  BY <1>1, FS_Subset, FS_CardinalityType
<1> QED BY <1>2, LiveConstants DEF LInv, NumbersLeft, LiveTypeOK

\* The subscribers of a source can be counted.
LEMMA FewAcquirers ==
    ASSUME NEW S \in SUBSET Acquirers
    PROVE  IsFiniteSet(S) /\ Cardinality(S) \in 0 .. Cardinality(Acquirers)
<1>1. IsFiniteSet(S) /\ Cardinality(S) <= Cardinality(Acquirers)
  BY AcquirersFinite, FS_Subset
<1>2. Cardinality(S) \in Nat /\ Cardinality(Acquirers) \in Nat
  BY <1>1, AcquirersFinite, FS_CardinalityType
<1> QED BY <1>1, <1>2

\* A source that is being committed is not one that is listed or to be stopped.
Settled(n) == n # NoOne /\ n <= made /\ \A b \in Acquirers : where[b] = "commit" => held[b] # n

\* A process that creates, subscribes to and stops nothing goes to another such place, or
\* to one where it is about to subscribe or to stop.
LEMMA QuietMove ==
    ASSUME LInv, NEW p \in Procs, NEW place, NEW m \in Sources \cup {NoOne}, Move(p, place, m),
           \/ where[p] \in {"idle", "try", "join", "retry", "have", "remote", "stopping"}
           \/ where[p] = "stop" /\ held[p] \in stopped,
           place \in {"idle", "try", "join", "retry", "have", "remote", "stop", "stopping"},
           place \in {"have", "stop"} => Settled(m),
           m <= made /\ \A b \in Acquirers : where[b] = "commit" => held[b] # m,
           p = Shut => place \in {"stop", "stopping"},
           pos' \in [Acquirers -> Nat \ {0}],
           \A b \in Acquirers : b # p => pos'[b] = pos[b],
           place = "join" => pos' = pos /\ HasRoute(p) /\ making[Route(p).key] # NoOne,
           busy' \subseteq Acquirers, canceled' \subseteq Acquirers,
           left' \subseteq Sources, \A n \in left' : Settled(n),
           UNCHANGED <<poolVars, castVars, tunerOf, ended>>,
           NumbersLeft'
    PROVE  LInv'
<1>t. LiveTypeOK /\ place \in Wheres /\ \A b \in Acquirers : b \in Procs
  BY DEF LInv, Wheres, Procs
<1>u. /\ UNCHANGED <<entry, making, made, routeOf, started, stopped, refs, starting, tunerOf,
                    ended>>
  BY DEF poolVars, castVars
<1>m. /\ where' \in [Procs -> Wheres] /\ held' \in [Procs -> Sources \cup {NoOne}]
      /\ where'[p] = place /\ held'[p] = m
      /\ \A q \in Procs : q # p => where'[q] = where[q] /\ held'[q] = held[q]
  BY <1>t, MoveIsAlone DEF Alone
<1>n. /\ where[p] \notin {"acquire", "commit", "finish", "starting", "streaming", "stopSource",
                         "onStop"}
      /\ place \notin {"acquire", "commit", "finish", "starting", "streaming", "stopSource",
                      "onStop"}
  OBVIOUS
<1>1. LiveTypeOK'
  BY <1>t, <1>u, <1>m DEF LiveTypeOK, Wheres
<1>r. \A b \in Acquirers : b # p => (HasRoute(b))' = HasRoute(b) /\ Route(b)' = Route(b)
  BY DEF HasRoute, Route
<1>2. Made'
  <2>1. where'[Shut] \in {"idle", "stopping", "stop", "stopSource", "onStop"}
    BY <1>m DEF LInv, Made, Procs
  <2>2. ASSUME NEW c \in Acquirers, where'[c] \in {"join", "acquire", "commit", "finish"}
        PROVE  (HasRoute(c))'
    BY <1>t, <1>m, <1>n, <1>r, <2>2 DEF LInv, Made, HasRoute
  <2>3. ASSUME NEW q \in Procs
        PROVE  /\ held'[q] <= made'
               /\ where'[q] \in {"commit", "have", "starting", "streaming", "stop",
                                 "stopSource", "onStop"} => held'[q] # NoOne
    BY <1>m, <1>n, <1>u DEF LInv, Made, Settled
  <2>4. \A n \in started' \cup stopped' \cup starting' \cup left' : n <= made'
    BY <1>u DEF LInv, Made, Settled
  <2>5. \A k \in RouteKeys : entry'[k] # NoOne => entry'[k] <= made' /\ routeOf'[entry'[k]] = k
    BY <1>u DEF LInv, Made
  <2> QED BY <2>1, <2>2, <2>3, <2>4, <2>5 DEF Made
<1>3. Creators'
  <2>1. ASSUME NEW c \in Acquirers, where'[c] \in {"acquire", "commit", "finish"}
        PROVE  c # p /\ where'[c] = where[c] /\ held'[c] = held[c] /\ Route(c)' = Route(c)
    BY <1>t, <1>m, <1>n, <1>r, <2>1
  <2>2. ASSUME NEW c \in Acquirers, where'[c] = "commit"
        PROVE  /\ held'[c] \notin started' \cup stopped' \cup starting' \cup left'
               /\ \A k \in RouteKeys : entry'[k] # held'[c]
               /\ \A q \in Procs : q # c => held'[q] # held'[c]
    BY <1>m, <1>u, <2>1, <2>2 DEF LInv, Creators, Settled
  <2>3. ASSUME NEW c \in Acquirers
        PROVE  /\ where'[c] \in {"acquire", "commit", "finish"} => making'[Route(c)'.key] = c
               /\ where'[c] \in {"acquire", "commit"} => entry'[Route(c)'.key] = NoOne
               /\ where'[c] = "commit" => routeOf'[held'[c]] = Route(c)'.key
    BY <1>u, <2>1 DEF LInv, Creators
  <2> QED BY <2>2, <2>3 DEF Creators
<1>s. \A q \in Procs :
        /\ where'[q] \in {"stopSource", "onStop"} <=> where[q] \in {"stopSource", "onStop"}
        /\ where'[q] = "onStop" <=> where[q] = "onStop"
        /\ where[q] \in {"stopSource", "onStop"} => held'[q] = held[q]
  BY <1>m, <1>n
<1>c. \A c \in Acquirers :
        /\ where'[c] = "commit" <=> where[c] = "commit"
        /\ where'[c] \in {"starting", "streaming"} <=> where[c] \in {"starting", "streaming"}
        /\ where'[c] = "starting" <=> where[c] = "starting"
        /\ where[c] \in {"commit", "starting", "streaming"} => held'[c] = held[c]
  BY <1>t, <1>m, <1>n
<1>4. Stops'
  BY <1>s, <1>c, <1>u DEF LInv, Stops
<1>5. Starts'
  BY <1>c, <1>u DEF LInv, Starts
<1>6. PoolMapExact'
  <2>1. \A n \in Sources : tunerOf'[n] # NoOne =>
           \/ entry'[routeOf'[n]] = n
           \/ \E c \in Acquirers :
                 where'[c] = "commit" /\ held'[c] = n /\ making'[routeOf'[n]] = c
    BY <1>c, <1>u DEF LInv, PoolMapExact
  <2>2. \A q \in Procs : where'[q] \in {"stopSource", "onStop"} =>
           entry'[routeOf'[held'[q]]] = held'[q]
    BY <1>s, <1>u DEF LInv, PoolMapExact
  <2>3. ASSUME NEW k \in RouteKeys, making'[k] # NoOne
        PROVE  where'[making'[k]] \in {"acquire", "commit", "finish"}
               /\ (Route(making[k]))'.key = k
    <3>1. /\ making[k] \in Acquirers /\ where[making[k]] \in {"acquire", "commit", "finish"}
          /\ Route(making[k]).key = k
      BY <1>t, <1>u, <2>3 DEF LInv, LiveTypeOK, PoolMapExact
    <3>2. making[k] # p /\ making'[k] = making[k] /\ making[k] \in Procs
      BY <1>t, <1>n, <1>u, <3>1
    <3>3. where'[making[k]] = where[making[k]] /\ pos'[making[k]] = pos[making[k]]
      BY <1>m, <3>1, <3>2
    <3> QED BY <3>1, <3>2, <3>3 DEF Route
  <2>4. ASSUME NEW c \in Acquirers, where'[c] = "join" PROVE making'[Route(c)'.key] # NoOne
    <3>1. CASE c = p
      BY <1>m, <1>u, <2>4, <3>1 DEF Route
    <3>2. CASE c # p
      BY <1>t, <1>m, <1>r, <1>u, <2>4, <3>2 DEF LInv, PoolMapExact
    <3> QED BY <3>1, <3>2
  <2> QED BY <2>1, <2>2, <2>3, <2>4 DEF PoolMapExact
<1>7. NobodyWatchesNothing'
  <2> SUFFICES ASSUME NEW n \in Sources
               PROVE  /\ refs'[n] = Cardinality(Attached(n)')
                      /\ n \in started' /\ refs'[n] = 0 => n \in stopped' \/ StoppedBy(n)' # {}
                      /\ n \in stopped' => entry'[routeOf'[n]] # n \/ StoppedBy(n)' # {}
    BY DEF NobodyWatchesNothing
  <2>1. Attached(n)' = Attached(n)
    BY <1>c, <1>t, <1>m, <1>n DEF Attached
  <2>2. ASSUME n \notin stopped PROVE StoppedBy(n) \subseteq StoppedBy(n)'
    <3>1. ASSUME NEW q \in Procs, held[q] = n, where[q] \in {"stop", "stopSource", "onStop"}
          PROVE  held'[q] = n /\ where'[q] \in {"stop", "stopSource", "onStop"}
      BY <1>m, <2>2, <3>1
    <3> QED BY <3>1 DEF StoppedBy
  <2>3. n \in stopped => entry'[routeOf'[n]] # n \/ StoppedBy(n)' # {}
    BY <1>s, <1>u DEF LInv, Stops, StoppedBy
  <2> QED BY <1>u, <2>1, <2>2, <2>3 DEF LInv, NobodyWatchesNothing
<1> QED BY <1>1, <1>2, <1>3, <1>4, <1>5, <1>6, <1>7 DEF LInv

\* What is listed, held by someone else than its creator, or nothing at all, is not about to
\* be committed.
LEMMA ListedSettled ==
    ASSUME LInv, NEW k \in RouteKeys, entry[k] # NoOne
    PROVE  Settled(entry[k]) /\ entry[k] \in Sources
BY DEF LInv, LiveTypeOK, Made, Creators, Settled

LEMMA HeldSettled ==
    ASSUME LInv, NEW p \in Procs, where[p] # "commit", held[p] # NoOne
    PROVE  Settled(held[p]) /\ held[p] \in Sources
<1>1. held[p] \in Sources /\ held[p] <= made
  BY DEF LInv, LiveTypeOK, Made
<1>2. ASSUME NEW b \in Acquirers, where[b] = "commit" PROVE held[b] # held[p]
  BY <1>2 DEF LInv, Creators, Procs
<1> QED BY <1>1, <1>2 DEF Settled

LEMMA NoOneFree ==
    ASSUME LInv
    PROVE  NoOne <= made /\ \A b \in Acquirers : where[b] = "commit" => held[b] # NoOne
BY DEF LInv, LiveTypeOK, Made, Procs, NoOne

LEMMA SettledLeft ==
    ASSUME LInv
    PROVE  left \subseteq Sources /\ \A n \in left : Settled(n)
<1>1. \A n \in left : n \in Sources /\ n # NoOne
  BY DEF LInv, LiveTypeOK, Sources, NoOne
<1> QED BY <1>1 DEF LInv, LiveTypeOK, Made, Creators, Settled

-----------------------------------------------------------------------------
(* Pool.Acquire                                                             *)

\* Caller c gives up or goes on to another route, to a retry or to a peer.
LEMMA CallerGoesOn ==
    ASSUME LInv, NEW c \in Acquirers, NEW place, Move(c, place, NoOne),
           where[c] \in {"idle", "try", "join", "retry", "have", "remote"},
           place \in {"idle", "try", "retry", "remote"},
           place \in {"try", "retry"} => where[c] \in {"try", "join", "retry"},
           pos' \in [Acquirers -> Nat \ {0}],
           \A b \in Acquirers : b # c => pos'[b] = pos[b],
           busy' \subseteq Acquirers, canceled' \subseteq Acquirers,
           UNCHANGED <<poolVars, castVars, tunerOf, ended, left>>
    PROVE  LInv'
<1>1. /\ c \in Procs /\ c # Shut /\ LiveTypeOK /\ NoOne \in Sources \cup {NoOne}
      /\ place \in Wheres
  BY LiveConstants DEF LInv, Procs, Wheres
<1>2. where'[c] = place /\ held'[c] = NoOne /\ Alone(c)
  BY <1>1, MoveIsAlone
<1>3. NumbersLeft'
  <2>1. Claiming' \subseteq Claiming
    BY <1>1, <1>2 DEF Claiming, Alone, Procs
  <2> QED BY <2>1, NumbersFrame DEF poolVars
<1>4. left' \subseteq Sources /\ \A n \in left' : Settled(n)
  BY <1>1, SettledLeft
<1> QED BY <1>1, <1>3, <1>4, NoOneFree, QuietMove

LEMMA AcquireInputStep ==
    ASSUME LInv, NEW c \in Acquirers, AcquireInput(c)
    PROVE  LInv'
<1>1. /\ c \in Procs /\ c # Shut /\ LiveTypeOK /\ where[c] = "idle" /\ Move(c, "try", NoOne)
      /\ UNCHANGED <<poolVars, castVars, tunerOf, ended>> /\ left' = left
  BY LiveConstants DEF LInv, Procs, AcquireInput
<1>2. where'[c] = "try" /\ held'[c] = NoOne /\ Alone(c)
  BY <1>1, MoveIsAlone DEF Wheres
<1>3. NumbersLeft'
  <2>1. made + Cardinality(Claiming) < MaxSources
    BY DEF AcquireInput, SourcesLeft, Claiming
  <2>2. IsFiniteSet(Claiming)
    <3>1. Claiming \in SUBSET Acquirers
      BY DEF Claiming
    <3> QED BY <3>1, AcquirersFinite, FS_Subset
  <2>3. Claiming' = Claiming \cup {c} /\ c \notin Claiming
    BY <1>1, <1>2 DEF Claiming, Alone, Procs
  <2>4. Cardinality(Claiming') = Cardinality(Claiming) + 1 /\ Cardinality(Claiming) \in Nat
    BY <2>2, <2>3, FS_AddElement, FS_CardinalityType
  <2> QED BY <1>1, <2>1, <2>4, LiveConstants DEF NumbersLeft, LiveTypeOK, poolVars
<1>4. left' \subseteq Sources /\ \A n \in left' : Settled(n)
  BY <1>1, SettledLeft
<1>5. /\ pos' \in [Acquirers -> Nat \ {0}] /\ \A b \in Acquirers : b # c => pos'[b] = pos[b]
      /\ busy' \subseteq Acquirers /\ canceled' \subseteq Acquirers
  BY <1>1 DEF LiveTypeOK, AcquireInput
<1> QED BY <1>1, <1>3, <1>4, <1>5, NoOneFree, QuietMove

\* The steps that only go on along the routes.
LEMMA RouteSteps ==
    ASSUME LInv, NEW c \in Acquirers,
           \/ TryRemoteRoute(c) \/ JoinExpires(c) \/ RoutesExhausted(c) \/ RouteRetry(c)
           \/ ReleaseHandle(c)
    PROVE  LInv'
<1>t. LiveTypeOK
  BY DEF LInv
<1>1. /\ pos' \in [Acquirers -> Nat \ {0}] /\ \A b \in Acquirers : b # c => pos'[b] = pos[b]
      /\ busy' \subseteq Acquirers /\ canceled' \subseteq Acquirers
  <2>t. /\ pos \in [Acquirers -> Nat \ {0}] /\ busy \subseteq Acquirers
        /\ canceled \subseteq Acquirers
    BY <1>t DEF LiveTypeOK
  <2>1. CASE UNCHANGED routeVars
    BY <2>t, <2>1 DEF routeVars
  <2>2. CASE RouteFailed(c, TRUE) \/ RouteFailed(c, FALSE)
    BY <2>t, <2>2 DEF RouteFailed
  <2>3. CASE RouteRetry(c)
    BY <2>t, <2>3 DEF RouteRetry
  <2> QED BY <2>1, <2>2, <2>3
          DEF TryRemoteRoute, JoinExpires, RoutesExhausted, ReleaseHandle
<1>2. UNCHANGED <<poolVars, castVars, tunerOf, ended, left>>
  BY DEF TryRemoteRoute, JoinExpires, RoutesExhausted, RouteRetry, ReleaseHandle
<1>3. \E place \in {"idle", "try", "retry", "remote"} :
        /\ Move(c, place, NoOne)
        /\ place \in {"try", "retry"} => where[c] \in {"try", "join", "retry"}
  BY DEF TryRemoteRoute, JoinExpires, RoutesExhausted, RouteRetry, ReleaseHandle, RouteFailed,
         Trying
<1>4. where[c] \in {"idle", "try", "join", "retry", "have", "remote"}
  BY DEF TryRemoteRoute, JoinExpires, RoutesExhausted, RouteRetry, ReleaseHandle, Trying
<1> QED BY <1>1, <1>2, <1>3, <1>4, CallerGoesOn

\* The context of a caller ends: nothing that the invariant speaks of changes.
LEMMA ContextEndsStep ==
    ASSUME LInv,
           \/ UNCHANGED liveVars
           \/ \E c \in Acquirers : ContextEnds(c)
    PROVE  LInv'
<1>1. /\ UNCHANGED <<entry, making, made, routeOf, tunerOf, started, stopped, refs, ended,
                    starting, where, held, pos, busy, left>>
      /\ LiveTypeOK /\ canceled' \subseteq Acquirers
  BY DEF LInv, LiveTypeOK, ContextEnds, liveVars, poolVars, castVars
<1>2. LiveTypeOK' /\ Made' /\ Starts'
  BY <1>1 DEF LInv, LiveTypeOK, Made, Starts, HasRoute
<1>3. Creators' /\ Stops'
  BY <1>1 DEF LInv, Creators, Stops, Route
<1>4. NumbersLeft'
  BY <1>1 DEF LInv, NumbersLeft, Claiming
<1>5. PoolMapExact'
  BY <1>1 DEF LInv, PoolMapExact, Route
<1>6. NobodyWatchesNothing'
  BY <1>1 DEF LInv, NobodyWatchesNothing, Attached, StoppedBy
<1> QED BY <1>2, <1>3, <1>4, <1>5, <1>6 DEF LInv

LEMMA BeginShares ==
    ASSUME LInv, NEW c \in Acquirers, BeginRouteSourceCreate(c), making' = making
    PROVE  LInv'
<1> DEFINE k == Route(c).key
<1>1. /\ c \in Procs /\ c # Shut /\ LiveTypeOK /\ where[c] = "try" /\ HasRoute(c)
      /\ UNCHANGED <<poolVars, castVars, routeVars, tunerOf, ended, left>>
  BY LiveConstants DEF LInv, Procs, BeginRouteSourceCreate, Trying, poolVars
<1>2. k \in RouteKeys
  BY <1>1, RouteKnown DEF LiveTypeOK
<1>3. PICK place \in {"have", "join"}, m \in Sources \cup {NoOne} :
        /\ Move(c, place, m)
        /\ place = "have" => entry[k] # NoOne /\ m = entry[k]
        /\ place = "join" => m = NoOne /\ making[k] # NoOne
  <2>1. \/ entry[k] # NoOne /\ Move(c, "have", entry[k])
        \/ making[k] # NoOne /\ Move(c, "join", NoOne)
    <3>1. c # NoOne /\ making \in [RouteKeys -> Acquirers \cup {NoOne}]
      BY <1>1, AcquirersFinite DEF LiveTypeOK
    <3>2. ~(making[k] = NoOne /\ making' = [making EXCEPT ![k] = c])
      BY <1>2, <3>1
    <3> QED BY <3>2 DEF BeginRouteSourceCreate
  <2> QED BY <2>1, <1>1, <1>2 DEF LiveTypeOK
<1>4. where'[c] = place /\ held'[c] = m /\ Alone(c)
  BY <1>1, <1>3, MoveIsAlone DEF Wheres
<1>5. NumbersLeft'
  <2>1. Claiming' \subseteq Claiming
    BY <1>1, <1>4 DEF Claiming, Alone, Procs
  <2> QED BY <1>1, <2>1, NumbersFrame DEF poolVars
<1>6. /\ m <= made /\ \A b \in Acquirers : where[b] = "commit" => held[b] # m
      /\ place = "have" => Settled(m)
  BY <1>2, <1>3, ListedSettled, NoOneFree DEF Settled
<1>7. /\ pos' \in [Acquirers -> Nat \ {0}] /\ pos' = pos
      /\ busy' \subseteq Acquirers /\ canceled' \subseteq Acquirers
      /\ left' \subseteq Sources /\ \A n \in left' : Settled(n)
  BY <1>1, SettledLeft DEF LiveTypeOK, routeVars
<1> QED BY <1>1, <1>3, <1>5, <1>6, <1>7, QuietMove

-----------------------------------------------------------------------------
(* Pool.Shutdown and a Stop that comes second                               *)

LEMMA ShutdownSteps ==
    ASSUME LInv, ShutdownPool \/ ShutdownNext
    PROVE  LInv'
<1>1. /\ Shut \in Procs /\ Shut \notin Acquirers /\ LiveTypeOK
      /\ where[Shut] \in {"idle", "stopping"}
      /\ UNCHANGED <<poolVars, castVars, routeVars, tunerOf, ended>>
  BY LiveConstants DEF LInv, Procs, ShutdownPool, ShutdownNext
<1>2. PICK place \in {"stop", "stopping"}, m \in Sources \cup {NoOne} :
        /\ Move(Shut, place, m)
        /\ place = "stop" => m \in left
        /\ place = "stopping" => m = NoOne
  BY <1>1 DEF ShutdownPool, ShutdownNext, LiveTypeOK
<1>3. NumbersLeft'
  <2>1. Alone(Shut)
    BY <1>1, <1>2, MoveIsAlone DEF Wheres
  <2>2. Claiming' \subseteq Claiming
    BY <1>1, <2>1 DEF Claiming, Alone, Procs
  <2> QED BY <1>1, <2>2, NumbersFrame DEF poolVars
<1>4. left' \subseteq Sources /\ \A n \in left' : Settled(n)
  <2>1. CASE ShutdownNext
    BY <2>1, SettledLeft DEF ShutdownNext
  <2>2. CASE left' = {entry[k] : k \in RouteKeys} \ {NoOne}
    BY <2>2, ListedSettled
  <2> QED BY <2>1, <2>2 DEF ShutdownPool
<1>5. /\ m <= made /\ \A b \in Acquirers : where[b] = "commit" => held[b] # m
      /\ place = "stop" => Settled(m)
  BY <1>2, SettledLeft, NoOneFree DEF Settled
<1>6. /\ pos' \in [Acquirers -> Nat \ {0}] /\ pos' = pos
      /\ busy' \subseteq Acquirers /\ canceled' \subseteq Acquirers
  BY <1>1 DEF LiveTypeOK, routeVars
<1> QED BY <1>1, <1>2, <1>3, <1>4, <1>5, <1>6, QuietMove

\* A process leaves a broadcast that somebody else has stopped: its Stop returns, or its
\* attach is refused.
LEMMA RefusedStep ==
    ASSUME LInv, NEW p \in Procs, NEW place, Move(p, place, NoOne),
           where[p] \in {"stop", "have"}, held[p] \in stopped,
           place = IF p = Shut THEN "stopping" ELSE "idle",
           UNCHANGED <<poolVars, castVars, routeVars, tunerOf, ended, left>>
    PROVE  LInv'
<1>1. LiveTypeOK /\ place \in Wheres /\ NoOne \in Sources \cup {NoOne}
  BY DEF LInv, Wheres
<1>2. where'[p] = place /\ Alone(p)
  BY <1>1, MoveIsAlone
<1>3. NumbersLeft'
  <2>1. Claiming' \subseteq Claiming
    BY <1>2 DEF Claiming, Alone, Procs
  <2> QED BY <2>1, NumbersFrame DEF poolVars
<1>4. /\ pos' \in [Acquirers -> Nat \ {0}] /\ pos' = pos
      /\ busy' \subseteq Acquirers /\ canceled' \subseteq Acquirers
      /\ left' \subseteq Sources /\ \A n \in left' : Settled(n)
  BY <1>1, SettledLeft DEF LiveTypeOK, routeVars
<1> QED BY <1>1, <1>3, <1>4, NoOneFree, QuietMove

-----------------------------------------------------------------------------
(* The life of a broadcast                                                  *)

\* The parts of PoolMapExact and NobodyWatchesNothing, by name.
TunersOwned ==
    \A n \in Sources : tunerOf[n] # NoOne =>
        \/ entry[routeOf[n]] = n
        \/ \E c \in Acquirers : where[c] = "commit" /\ held[c] = n /\ making[routeOf[n]] = c
StopsListed ==
    \A p \in Procs : where[p] \in {"stopSource", "onStop"} => entry[routeOf[held[p]]] = held[p]
Creations ==
    /\ \A k \in RouteKeys : making[k] # NoOne =>
         where[making[k]] \in {"acquire", "commit", "finish"} /\ Route(making[k]).key = k
    /\ \A c \in Acquirers : where[c] = "join" => making[Route(c).key] # NoOne
Counted == \A n \in Sources : refs[n] = Cardinality(Attached(n))
Tended ==
    \A n \in Sources :
        /\ n \in started /\ refs[n] = 0 => n \in stopped \/ StoppedBy(n) # {}
        /\ n \in stopped => entry[routeOf[n]] # n \/ StoppedBy(n) # {}

\* The parts of the next state's invariant make it up.
LEMMA Parts ==
    ASSUME LiveTypeOK', NumbersLeft', Made', Creators', Stops', Starts',
           TunersOwned', StopsListed', Creations', Counted', Tended'
    PROVE  LInv'
<1>1. PoolMapExact'
  BY DEF PoolMapExact, TunersOwned, StopsListed, Creations
<1>2. NobodyWatchesNothing'
  BY DEF NobodyWatchesNothing, Counted, Tended
<1> QED BY <1>1, <1>2 DEF LInv

CastPlaces == {"idle", "have", "starting", "streaming", "stop", "stopSource", "onStop", "stopping"}

\* A process that subscribes to a broadcast or stops one leaves the creations alone.
LEMMA CastFrame ==
    ASSUME LInv, NEW p \in Procs, NEW place, NEW m, Move(p, place, m),
           where[p] \in CastPlaces, place \in CastPlaces, held[p] # NoOne,
           m \in {held[p], NoOne},
           place \in {"have", "starting", "streaming", "stop", "stopSource", "onStop"} =>
               m # NoOne,
           p = Shut => place \in {"idle", "stopping", "stop", "stopSource", "onStop"},
           UNCHANGED <<making, made, routeOf, pos, left>>,
           \A k \in RouteKeys : entry'[k] \in {entry[k], NoOne},
           started' \subseteq started \cup {held[p]}, stopped' \subseteq stopped \cup {held[p]},
           starting' \subseteq starting \cup {held[p]}
    PROVE  /\ NumbersLeft' /\ Made' /\ Creators' /\ Creations'
           /\ \A c \in Acquirers : /\ where'[c] = "commit" <=> where[c] = "commit"
                                   /\ where[c] = "commit" => held'[c] = held[c] /\ c # p
<1>t. LiveTypeOK /\ place \in Wheres /\ m \in Sources \cup {NoOne} /\ \A b \in Acquirers : b \in Procs
  BY DEF LInv, LiveTypeOK, Wheres, Procs, CastPlaces
<1>m. /\ where'[p] = place /\ held'[p] = m
      /\ \A q \in Procs : q # p => where'[q] = where[q] /\ held'[q] = held[q]
  BY <1>t, MoveIsAlone DEF Alone
<1>n. /\ where[p] \notin {"try", "join", "acquire", "commit", "finish", "retry"}
      /\ place \notin {"try", "join", "acquire", "commit", "finish", "retry"}
  BY DEF CastPlaces
<1>s. Settled(held[p]) /\ held[p] \in Sources
  BY <1>n, HeldSettled
<1>r. \A b \in Acquirers : (HasRoute(b))' = HasRoute(b) /\ Route(b)' = Route(b)
  BY DEF HasRoute, Route
<1>1. NumbersLeft'
  <2>1. Claiming' \subseteq Claiming
    BY <1>t, <1>m, <1>n DEF Claiming
  <2> QED BY <2>1, NumbersFrame
<1>2. Made'
  <2>1. where'[Shut] \in {"idle", "stopping", "stop", "stopSource", "onStop"}
    BY <1>m DEF LInv, Made, Procs
  <2>2. ASSUME NEW c \in Acquirers, where'[c] \in {"join", "acquire", "commit", "finish"}
        PROVE  (HasRoute(c))'
    BY <1>t, <1>m, <1>n, <1>r, <2>2 DEF LInv, Made
  <2>3. ASSUME NEW q \in Procs
        PROVE  /\ held'[q] <= made'
               /\ where'[q] \in {"commit", "have", "starting", "streaming", "stop",
                                 "stopSource", "onStop"} => held'[q] # NoOne
    BY <1>m, <1>n, <1>s, NoOneFree DEF LInv, Made, Settled
  <2>4. \A n \in started' \cup stopped' \cup starting' \cup left' : n <= made'
    BY <1>s DEF LInv, Made, Settled
  <2>5. \A k \in RouteKeys : entry'[k] # NoOne => entry'[k] <= made' /\ routeOf'[entry'[k]] = k
    BY DEF LInv, Made
  <2> QED BY <2>1, <2>2, <2>3, <2>4, <2>5 DEF Made
<1>c. ASSUME NEW c \in Acquirers,
             where'[c] \in {"join", "acquire", "commit", "finish"}
             \/ where[c] \in {"join", "acquire", "commit", "finish"}
      PROVE  c # p /\ where'[c] = where[c] /\ held'[c] = held[c]
  BY <1>t, <1>m, <1>n, <1>c
<1>k. ASSUME NEW c \in Acquirers, where[c] \in {"join", "acquire", "commit", "finish"}
      PROVE  Route(c).key \in RouteKeys
  BY <1>t, <1>k, RouteKnown DEF LInv, LiveTypeOK, Made
<1>3. Creators'
  <2>1. ASSUME NEW c \in Acquirers
        PROVE  /\ where'[c] \in {"acquire", "commit", "finish"} => making'[Route(c)'.key] = c
               /\ where'[c] \in {"acquire", "commit"} => entry'[Route(c)'.key] = NoOne
               /\ where'[c] = "commit" => routeOf'[held'[c]] = Route(c)'.key
    BY <1>c, <1>r, <1>k DEF LInv, Creators
  <2>2. ASSUME NEW c \in Acquirers, where'[c] = "commit"
        PROVE  /\ held'[c] \notin started' \cup stopped' \cup starting' \cup left'
               /\ \A k \in RouteKeys : entry'[k] # held'[c]
               /\ \A q \in Procs : q # c => held'[q] # held'[c]
    <3>1. c # p /\ where[c] = "commit" /\ held'[c] = held[c] /\ held[c] # NoOne
      BY <1>c, <2>2, NoOneFree
    <3>2. held[c] # held[p]
      BY <3>1, <1>s DEF Settled
    <3> QED BY <1>m, <3>1, <3>2 DEF LInv, Creators
  <2> QED BY <2>1, <2>2 DEF Creators
<1>4. Creations'
  <2>1. ASSUME NEW k \in RouteKeys, making'[k] # NoOne
        PROVE  where'[making[k]] \in {"acquire", "commit", "finish"} /\ (Route(making[k]))'.key = k
    <3>1. /\ making[k] \in Acquirers /\ where[making[k]] \in {"acquire", "commit", "finish"}
          /\ Route(making[k]).key = k
      BY <1>t, <2>1 DEF LInv, LiveTypeOK, PoolMapExact
    <3>2. where'[making[k]] = where[making[k]]
      BY <1>c, <3>1
    <3> QED BY <3>1, <3>2 DEF Route
  <2>2. ASSUME NEW c \in Acquirers, where'[c] = "join" PROVE making'[Route(c)'.key] # NoOne
    BY <1>c, <1>r, <2>2 DEF LInv, PoolMapExact
  <2> QED BY <2>1, <2>2 DEF Creations
<1> QED BY <1>1, <1>2, <1>3, <1>4, <1>c

Watching == {"starting", "streaming"}

\* refs counts the subscribers when one comes, ...
LEMMA CountedGrows ==
    ASSUME LInv, NEW c \in Acquirers, NEW n \in Sources, Alone(c),
           where[c] \notin Watching, where'[c] \in Watching, held'[c] = n,
           refs' = [refs EXCEPT ![n] = @ + 1]
    PROVE  /\ Counted' /\ refs' \in [Sources -> 0 .. Cardinality(Acquirers)]
           /\ refs'[n] > 0 /\ \A j \in Sources : j # n => refs'[j] = refs[j]
<1>t. /\ refs \in [Sources -> 0 .. Cardinality(Acquirers)] /\ refs' \in [Sources -> Int]
      /\ refs'[n] = refs[n] + 1 /\ refs'[n] > 0
      /\ \A j \in Sources : j # n => refs'[j] = refs[j]
  BY DEF LInv, LiveTypeOK
<1>1. Counted'
  <2> SUFFICES ASSUME NEW j \in Sources PROVE refs'[j] = Cardinality(Attached(j)')
    BY DEF Counted
  <2>0. refs[j] = Cardinality(Attached(j)) /\ IsFiniteSet(Attached(j))
    <3>1. Attached(j) \in SUBSET Acquirers
      BY DEF Attached
    <3> QED BY <3>1, FewAcquirers DEF LInv, NobodyWatchesNothing
  <2>1. CASE j = n
    <3>1. Attached(j)' = Attached(j) \cup {c} /\ c \notin Attached(j)
      BY <2>1 DEF Attached, Alone, Procs, Watching
    <3>2. Cardinality(Attached(j) \cup {c}) = Cardinality(Attached(j)) + 1
      BY <2>0, <3>1, FS_AddElement
    <3> QED BY <2>0, <2>1, <3>1, <3>2, <1>t
  <2>2. CASE j # n
    <3>1. Attached(j)' = Attached(j)
      BY <2>2 DEF Attached, Alone, Procs, Watching
    <3> QED BY <2>0, <2>2, <3>1, <1>t
  <2> QED BY <2>1, <2>2
<1>2. \A j \in Sources : refs'[j] \in 0 .. Cardinality(Acquirers)
  <2>1. \A j \in Sources : Attached(j)' \in SUBSET Acquirers
    BY DEF Attached
  <2> QED BY <1>1, <2>1, FewAcquirers DEF Counted
<1> QED BY <1>t, <1>1, <1>2

\* ... when one leaves, ...
LEMMA CountedShrinks ==
    ASSUME LInv, NEW c \in Acquirers, NEW n \in Sources, Alone(c),
           where[c] \in Watching, where'[c] \notin Watching, held[c] = n,
           refs' = [refs EXCEPT ![n] = IF @ > 0 THEN @ - 1 ELSE 0]
             \/ refs' = [refs EXCEPT ![n] = @ - 1]
    PROVE  /\ Counted' /\ refs' \in [Sources -> 0 .. Cardinality(Acquirers)]
           /\ refs[n] > 0 /\ refs'[n] = refs[n] - 1
           /\ \A j \in Sources : j # n => refs'[j] = refs[j]
<1>0. \A j \in Sources : refs[j] = Cardinality(Attached(j)) /\ IsFiniteSet(Attached(j))
  <2>1. \A j \in Sources : Attached(j) \in SUBSET Acquirers
    BY DEF Attached
  <2> QED BY <2>1, FewAcquirers DEF LInv, NobodyWatchesNothing
<1>t. /\ refs \in [Sources -> 0 .. Cardinality(Acquirers)] /\ refs[n] > 0
      /\ refs' \in [Sources -> Int]
      /\ refs'[n] = refs[n] - 1
      /\ \A j \in Sources : j # n => refs'[j] = refs[j]
  <2>1. Attached(n) # {}
    BY DEF Attached, Watching
  <2>2. Cardinality(Attached(n)) # 0
    BY <1>0, <2>1, FS_EmptySet
  <2>3. refs \in [Sources -> 0 .. Cardinality(Acquirers)]
    BY DEF LInv, LiveTypeOK
  <2>4. refs[n] > 0
    BY <1>0, <2>2, <2>3
  <2> QED BY <2>3, <2>4
<1>1. Counted'
  <2> SUFFICES ASSUME NEW j \in Sources PROVE refs'[j] = Cardinality(Attached(j)')
    BY DEF Counted
  <2>1. CASE j = n
    <3>1. Attached(j)' = Attached(j) \ {c} /\ c \in Attached(j)
      BY <2>1 DEF Attached, Alone, Procs, Watching
    <3> QED BY <1>0, <2>1, <3>1, <1>t, FS_RemoveElement
  <2>2. CASE j # n
    <3>1. Attached(j)' = Attached(j)
      BY <2>2 DEF Attached, Alone, Procs, Watching
    <3> QED BY <1>0, <2>2, <3>1, <1>t
  <2> QED BY <2>1, <2>2
<1>2. \A j \in Sources : refs'[j] \in 0 .. Cardinality(Acquirers)
  <2>1. \A j \in Sources : Attached(j)' \in SUBSET Acquirers
    BY DEF Attached
  <2> QED BY <1>1, <2>1, FewAcquirers DEF Counted
<1> QED BY <1>t, <1>1, <1>2

\* ... and when nobody does either.
LEMMA CountedSame ==
    ASSUME LInv, refs' = refs,
           \A c \in Acquirers : /\ where'[c] \in Watching <=> where[c] \in Watching
                                /\ where[c] \in Watching => held'[c] = held[c]
    PROVE  Counted'
<1> SUFFICES ASSUME NEW j \in Sources PROVE refs'[j] = Cardinality(Attached(j)')
  BY DEF Counted
<1>1. Attached(j)' = Attached(j)
  BY DEF Attached, Watching
<1> QED BY <1>1 DEF LInv, NobodyWatchesNothing

LEMMA AttachStep ==
    ASSUME LInv, NEW c \in Acquirers, Attach(c)
    PROVE  LInv'
<1> DEFINE n == held[c]
<1>t. /\ LiveTypeOK /\ c \in Procs /\ c # Shut /\ where[c] = "have" /\ n \notin starting
      /\ UNCHANGED <<poolVars, started, stopped, routeVars, tunerOf, ended, left>>
      /\ \A b \in Acquirers : b \in Procs
  BY LiveConstants DEF LInv, Procs, Attach, Unlocked
<1>s. n # NoOne /\ n \in Sources
  BY <1>t DEF LInv, Made, LiveTypeOK
<1>1. CASE n \in stopped /\ Move(c, "idle", NoOne) /\ UNCHANGED <<refs, starting>>
  BY <1>t, <1>1, RefusedStep DEF castVars
<1>2. CASE /\ n \notin stopped /\ refs' = [refs EXCEPT ![n] = @ + 1]
           /\ \/ n \in started /\ Move(c, "streaming", n) /\ UNCHANGED starting
              \/ n \notin started /\ Move(c, "starting", n) /\ starting' = starting \cup {n}
  <2>0. PICK place \in Watching : Move(c, place, n) /\ (place = "starting" <=> n \notin started)
    BY <1>2 DEF Watching
  <2>a. /\ starting' = IF place = "starting" THEN starting \cup {n} ELSE starting
    BY <1>2, <2>0
  <2>m. /\ where' \in [Procs -> Wheres] /\ held' \in [Procs -> Sources \cup {NoOne}]
        /\ where'[c] = place /\ held'[c] = n /\ Alone(c)
    BY <1>t, <1>s, <2>0, MoveIsAlone DEF Wheres, Watching
  <2>q. \A q \in Procs : q # c => where'[q] = where[q] /\ held'[q] = held[q]
    BY <2>m DEF Alone
  <2>u. UNCHANGED <<entry, making, made, routeOf, started, stopped, tunerOf, ended, left, pos,
                    busy, canceled>>
    BY <1>t DEF poolVars, routeVars
  <2>1. /\ Counted' /\ refs' \in [Sources -> 0 .. Cardinality(Acquirers)] /\ refs'[n] > 0
        /\ \A j \in Sources : j # n => refs'[j] = refs[j]
    <3>1. where[c] \notin Watching /\ n = held'[c]
      BY <1>t, <2>m DEF Watching
    <3> HIDE DEF n
    <3> QED BY <1>s, <1>2, <2>m, <3>1, CountedGrows
  <2>2. /\ NumbersLeft' /\ Made' /\ Creators' /\ Creations'
        /\ \A b \in Acquirers : /\ where'[b] = "commit" <=> where[b] = "commit"
                                /\ where[b] = "commit" => held'[b] = held[b] /\ b # c
    BY <1>t, <1>s, <2>0, <2>a, <2>u, CastFrame DEF CastPlaces, Watching
  <2>3. LiveTypeOK'
    BY <1>t, <1>s, <2>1, <2>a, <2>m, <2>u DEF LiveTypeOK, Wheres
  <2>p. \A q \in Procs :
          /\ where'[q] \in {"stopSource", "onStop"} <=> where[q] \in {"stopSource", "onStop"}
          /\ where'[q] = "onStop" <=> where[q] = "onStop"
          /\ where'[q] = "stop" <=> where[q] = "stop"
          /\ where[q] \in {"stop", "stopSource", "onStop"} => held'[q] = held[q]
    BY <1>t, <2>0, <2>m, <2>q DEF Watching
  <2>4. Stops'
    BY <2>p, <2>2, <2>u DEF LInv, Stops
  <2>5. Starts'
    <3>1. ASSUME NEW b \in Acquirers, where'[b] = "starting"
          PROVE  held'[b] \in starting' /\ held'[b] \notin started'
      BY <1>t, <2>0, <2>a, <2>m, <2>q, <2>u, <3>1 DEF LInv, Starts
    <3>2. ASSUME NEW b \in Acquirers, where'[b] = "starting", b # c PROVE held'[b] # n
      BY <1>t, <2>q, <3>2 DEF LInv, Starts
    <3> QED BY <1>t, <2>m, <2>q, <3>1, <3>2 DEF LInv, Starts
  <2>6. TunersOwned' /\ StopsListed'
    BY <2>p, <2>2, <2>u DEF LInv, PoolMapExact, TunersOwned, StopsListed
  <2>7. Tended'
    <3>1. \A j \in Sources : StoppedBy(j)' = StoppedBy(j)
      BY <2>p DEF StoppedBy
    <3> QED BY <2>1, <2>u, <3>1 DEF LInv, NobodyWatchesNothing, Tended
  <2> QED BY <2>1, <2>2, <2>3, <2>4, <2>5, <2>6, <2>7, Parts
<1> QED BY <1>1, <1>2 DEF Attach

\* The start of a source comes to an end, or a subscriber leaves.
LEMMA WatcherSteps ==
    ASSUME LInv, NEW c \in Acquirers, StartOk(c) \/ StartFails(c) \/ Detach(c)
    PROVE  LInv'
<1> DEFINE n == held[c]
<1>t. /\ LiveTypeOK /\ c \in Procs /\ c # Shut /\ where[c] \in Watching
      /\ UNCHANGED <<poolVars, stopped, routeVars, ended, left>>
      /\ \A b \in Acquirers : b \in Procs
  BY LiveConstants DEF LInv, Procs, StartOk, StartFails, Detach, Watching
<1>s. n # NoOne /\ n \in Sources
  BY <1>t DEF LInv, Made, LiveTypeOK, Watching
<1>r. refs[n] \in Nat /\ refs[n] > 0
  <2>1. Attached(n) \in SUBSET Acquirers /\ Attached(n) # {}
    BY <1>t DEF Attached, Watching
  <2>2. Cardinality(Attached(n)) # 0
    BY <2>1, FewAcquirers, FS_EmptySet
  <2>3. refs[n] = Cardinality(Attached(n)) /\ refs[n] \in 0 .. Cardinality(Acquirers)
    BY <1>t, <1>s DEF LInv, NobodyWatchesNothing, LiveTypeOK
  <2> QED BY <2>2, <2>3
<1>0. PICK place \in {"streaming", "stop", "idle"}, m \in {n, NoOne} :
        /\ Move(c, place, m)
        /\ place # "idle" => m = n
        /\ place = "streaming" => refs' = refs /\ StartOk(c)
        /\ place # "streaming" => /\ refs' = [refs EXCEPT ![n] = @ - 1] /\ started' = started
        /\ place = "idle" => refs[n] - 1 # 0
  <2>1. CASE StartOk(c)
    BY <2>1 DEF StartOk
  <2>2. CASE StartFails(c)
    BY <2>2 DEF StartFails
  <2>3. CASE Detach(c)
    BY <1>r, <2>3 DEF Detach
  <2> QED BY <2>1, <2>2, <2>3
<1>a. /\ started' \subseteq started \cup {n}
      /\ starting' \subseteq starting /\ starting \ {n} \subseteq starting'
      /\ where[c] = "streaming" => starting' = starting /\ started' = started
      /\ tunerOf' \in {tunerOf, [tunerOf EXCEPT ![n] = NoOne]}
  BY DEF StartOk, StartFails, Detach
<1>m. /\ where' \in [Procs -> Wheres] /\ held' \in [Procs -> Sources \cup {NoOne}]
      /\ where'[c] = place /\ held'[c] = m /\ Alone(c)
  BY <1>t, <1>s, <1>0, MoveIsAlone DEF Wheres
<1>q. \A q \in Procs : q # c => where'[q] = where[q] /\ held'[q] = held[q]
  BY <1>m DEF Alone
<1>u. UNCHANGED <<entry, making, made, routeOf, stopped, ended, left, pos, busy, canceled>>
  BY <1>t DEF poolVars, routeVars
<1>n. n = held[c]
  OBVIOUS
<1> HIDE DEF n
<1>1. /\ Counted' /\ refs' \in [Sources -> 0 .. Cardinality(Acquirers)]
      /\ \A j \in Sources : j # n => refs'[j] = refs[j]
      /\ place = "idle" => refs'[n] # 0
      /\ place = "streaming" => refs'[n] # 0
  <2>1. CASE place = "streaming"
    <3>1. refs' = refs /\ refs \in [Sources -> 0 .. Cardinality(Acquirers)]
      BY <1>t, <1>0, <2>1 DEF LiveTypeOK
    <3>2. \A b \in Acquirers : /\ where'[b] \in Watching <=> where[b] \in Watching
                               /\ where[b] \in Watching => held'[b] = held[b]
      BY <1>t, <1>0, <1>m, <1>q, <1>n, <2>1 DEF Watching
    <3> QED BY <3>1, <3>2, <2>1, <1>r, CountedSame
  <2>2. CASE place # "streaming"
    <3>1. refs' = [refs EXCEPT ![n] = @ - 1] /\ where'[c] \notin Watching
      BY <1>0, <1>m, <2>2 DEF Watching
    <3>2. /\ Counted' /\ refs' \in [Sources -> 0 .. Cardinality(Acquirers)]
          /\ refs'[n] = refs[n] - 1 /\ \A j \in Sources : j # n => refs'[j] = refs[j]
      BY <1>t, <1>s, <1>m, <1>n, <3>1, CountedShrinks
    <3> QED BY <1>0, <2>2, <3>2
  <2> QED BY <2>1, <2>2
<1>2. /\ NumbersLeft' /\ Made' /\ Creators' /\ Creations'
      /\ \A b \in Acquirers : /\ where'[b] = "commit" <=> where[b] = "commit"
                              /\ where[b] = "commit" => held'[b] = held[b] /\ b # c
  BY <1>t, <1>s, <1>0, <1>a, <1>u, <1>n, CastFrame DEF CastPlaces, Watching
<1>3. LiveTypeOK'
  <2>1. tunerOf' \in [Sources -> Tuners \cup {NoOne}]
    BY <1>t, <1>s, <1>a DEF LiveTypeOK
  <2>2. started' \subseteq Sources /\ starting' \subseteq Sources
    BY <1>t, <1>s, <1>a DEF LiveTypeOK
  <2> QED BY <1>t, <1>1, <1>m, <1>u, <2>1, <2>2 DEF LiveTypeOK, Wheres
<1>p. \A q \in Procs :
        /\ where'[q] \in {"stopSource", "onStop"} <=> where[q] \in {"stopSource", "onStop"}
        /\ where'[q] = "onStop" <=> where[q] = "onStop"
        /\ where[q] \in {"stop", "stopSource", "onStop"} =>
             held'[q] = held[q] /\ where'[q] = where[q]
  BY <1>t, <1>0, <1>m, <1>q DEF Watching
<1>v. \A j \in Sources : tunerOf'[j] \in {tunerOf[j], NoOne}
  BY <1>t, <1>a DEF LiveTypeOK
<1>h. \A q \in Procs : where[q] = "onStop" => held[q] \in Sources
  BY <1>t DEF LInv, LiveTypeOK, Made
<1>4. Stops'
  <2>1. \A q \in Procs : where'[q] = "onStop" => tunerOf'[held'[q]] = NoOne
    BY <1>p, <1>v, <1>h DEF LInv, Stops
  <2>2. /\ \A j \in Sources : j <= made' /\ j \notin stopped' =>
             \/ entry'[routeOf'[j]] = j
             \/ \E b \in Acquirers : where'[b] = "commit" /\ held'[b] = j
        /\ \A j \in stopped' : entry'[routeOf'[j]] = j =>
             \E q \in Procs : where'[q] \in {"stopSource", "onStop"} /\ held'[q] = j
    BY <1>p, <1>2, <1>u DEF LInv, Stops
  <2>3. /\ \A q \in Procs : where'[q] \in {"stopSource", "onStop"} => held'[q] \in stopped'
        /\ \A q, r \in Procs :
             /\ where'[q] \in {"stopSource", "onStop"} /\ where'[r] \in {"stopSource", "onStop"}
             /\ held'[q] = held'[r]
             => q = r
    BY <1>p, <1>u DEF LInv, Stops
  <2> QED BY <2>1, <2>2, <2>3 DEF Stops
<1>5. Starts'
  <2>1. ASSUME NEW b \in Acquirers, where'[b] = "starting"
        PROVE  /\ b # c /\ where[b] = "starting" /\ held'[b] = held[b]
               /\ held'[b] \in starting' /\ held'[b] \notin started'
    <3>1. b # c /\ where[b] = "starting" /\ held'[b] = held[b]
      BY <1>t, <1>0, <1>m, <1>q, <2>1
    <3>2. held[b] \in starting /\ held[b] \notin started
      BY <3>1 DEF LInv, Starts
    <3>3. where[c] = "starting" => held[b] # n
      BY <3>1, <1>n DEF LInv, Starts
    <3>4. where[c] = "starting" \/ where[c] = "streaming"
      BY <1>t DEF Watching
    <3> QED BY <1>a, <3>1, <3>2, <3>3, <3>4
  <2> QED BY <2>1 DEF LInv, Starts
<1>6. TunersOwned' /\ StopsListed'
  BY <1>p, <1>2, <1>u, <1>v DEF LInv, PoolMapExact, TunersOwned, StopsListed
<1>7. Tended'
  <2>1. \A j \in Sources : StoppedBy(j) \subseteq StoppedBy(j)'
    BY <1>p DEF StoppedBy
  <2>2. ASSUME NEW j \in Sources, j = n, place = "stop" PROVE c \in StoppedBy(j)'
    <3>1. where'[c] = "stop" /\ held'[c] = j
      BY <1>0, <1>m, <2>2
    <3> QED BY <1>t, <3>1 DEF StoppedBy
  <2>3. ASSUME NEW j \in Sources, j \in started', refs'[j] = 0
        PROVE  j \in stopped' \/ StoppedBy(j)' # {}
    <3>1. CASE j = n
      <4>1. place = "streaming" \/ place = "stop" \/ place = "idle"
        BY <1>0
      <4>2. refs'[n] = 0
        BY <2>3, <3>1
      <4>3. place = "stop"
        BY <1>1, <4>1, <4>2
      <4> QED BY <2>2, <3>1, <4>3
    <3>2. CASE j # n
      BY <1>1, <1>a, <1>u, <2>1, <2>3, <3>2 DEF LInv, NobodyWatchesNothing
    <3> QED BY <3>1, <3>2
  <2>4. ASSUME NEW j \in Sources, j \in stopped' PROVE entry'[routeOf'[j]] # j \/ StoppedBy(j)' # {}
    BY <1>u, <2>1, <2>4 DEF LInv, NobodyWatchesNothing
  <2> QED BY <2>3, <2>4 DEF Tended
<1> QED BY <1>1, <1>2, <1>3, <1>4, <1>5, <1>6, <1>7, Parts

\* A source ends by itself: at most a tuner is released.
LEMMA SourceEndsStep ==
    ASSUME LInv, NEW n \in Sources, SourceEnds(n)
    PROVE  LInv'
<1>1. /\ UNCHANGED <<entry, making, made, routeOf, started, stopped, refs, starting, where, held,
                    pos, busy, canceled, left>>
      /\ LiveTypeOK /\ ended' \subseteq Sources
      /\ tunerOf' \in {tunerOf, [tunerOf EXCEPT ![n] = NoOne]}
  BY DEF LInv, LiveTypeOK, SourceEnds, poolVars, castVars, routeVars
<1>v. tunerOf' \in [Sources -> Tuners \cup {NoOne}] /\ \A j \in Sources : tunerOf'[j] \in {tunerOf[j], NoOne}
  BY <1>1 DEF LiveTypeOK
<1>h. \A q \in Procs : where[q] = "onStop" => held[q] \in Sources
  BY <1>1 DEF LInv, LiveTypeOK, Made
<1>2. LiveTypeOK' /\ Made' /\ Starts'
  BY <1>1, <1>v DEF LInv, LiveTypeOK, Made, Starts, HasRoute
<1>3. Creators' /\ Stops'
  BY <1>1, <1>v, <1>h DEF LInv, Creators, Stops, Route
<1>4. NumbersLeft'
  BY <1>1 DEF LInv, NumbersLeft, Claiming
<1>5. TunersOwned' /\ StopsListed' /\ Creations'
  BY <1>1, <1>v DEF LInv, PoolMapExact, TunersOwned, StopsListed, Creations, Route
<1>6. Counted' /\ Tended'
  BY <1>1 DEF LInv, NobodyWatchesNothing, Counted, Tended, Attached, StoppedBy
<1> QED BY <1>2, <1>3, <1>4, <1>5, <1>6, Parts

-----------------------------------------------------------------------------
(* Broadcast.Stop                                                           *)

\* A process goes on with the Stop it has begun, or returns from it: the subscribers stay.
LEMMA StopFrame ==
    ASSUME LInv, NEW p \in Procs, NEW place, NEW m, Move(p, place, m),
           where[p] \in {"stop", "stopSource", "onStop"},
           place \in {"stopSource", "onStop", "stopping", "idle"},
           m = IF place \in {"stopSource", "onStop"} THEN held[p] ELSE NoOne,
           UNCHANGED <<making, made, routeOf, started, refs, starting, routeVars, left>>,
           entry' \in [RouteKeys -> Sources \cup {NoOne}],
           \A k \in RouteKeys : entry'[k] \in {entry[k], NoOne},
           tunerOf' \in [Sources -> Tuners \cup {NoOne}], ended' \subseteq Sources,
           stopped' \subseteq stopped \cup {held[p]}
    PROVE  /\ LiveTypeOK' /\ NumbersLeft' /\ Made' /\ Creators' /\ Creations' /\ Starts' /\ Counted'
           /\ \A c \in Acquirers : /\ where'[c] = "commit" <=> where[c] = "commit"
                                   /\ where[c] = "commit" => held'[c] = held[c] /\ c # p
           /\ where'[p] = place /\ held'[p] = m
           /\ \A q \in Procs : q # p => where'[q] = where[q] /\ held'[q] = held[q]
<1>t. /\ LiveTypeOK /\ place \in Wheres /\ held[p] # NoOne /\ held[p] \in Sources
      /\ m \in Sources \cup {NoOne} /\ \A b \in Acquirers : b \in Procs
  BY DEF LInv, LiveTypeOK, Made, Wheres, Procs
<1>m. /\ where' \in [Procs -> Wheres] /\ held' \in [Procs -> Sources \cup {NoOne}]
      /\ where'[p] = place /\ held'[p] = m
      /\ \A q \in Procs : q # p => where'[q] = where[q] /\ held'[q] = held[q]
  BY <1>t, MoveIsAlone DEF Alone
<1>1. place \in {"stopSource", "onStop", "stopping", "idle"}
  OBVIOUS
<1>2. /\ NumbersLeft' /\ Made' /\ Creators' /\ Creations'
      /\ \A c \in Acquirers : /\ where'[c] = "commit" <=> where[c] = "commit"
                              /\ where[c] = "commit" => held'[c] = held[c] /\ c # p
  <2>1. place \in {"have", "starting", "streaming", "stop", "stopSource", "onStop"} => m # NoOne
    BY <1>t
  <2>2. where[p] \in CastPlaces /\ place \in CastPlaces /\ m \in {held[p], NoOne}
    BY <1>1 DEF CastPlaces
  <2>3. p = Shut => place \in {"idle", "stopping", "stop", "stopSource", "onStop"}
    BY <1>1
  <2> QED BY <1>t, <2>1, <2>2, <2>3, CastFrame DEF routeVars
<1>3. LiveTypeOK'
  BY <1>t, <1>m DEF LiveTypeOK, Wheres, routeVars
<1>4. \A c \in Acquirers : /\ where'[c] \in Watching <=> where[c] \in Watching
                           /\ where'[c] = "starting" <=> where[c] = "starting"
                           /\ where[c] \in Watching => held'[c] = held[c]
  BY <1>t, <1>1, <1>m DEF Watching
<1>5. Starts'
  BY <1>4 DEF LInv, Starts, Watching
<1>6. Counted'
  BY <1>4, CountedSame
<1> QED BY <1>2, <1>3, <1>5, <1>6, <1>m

LEMMA StopBeginsStep ==
    ASSUME LInv, NEW p \in Procs, StopBegins(p)
    PROVE  LInv'
<1>t. LiveTypeOK /\ where[p] = "stop" /\ held[p] # NoOne /\ held[p] \in Sources
  BY DEF LInv, LiveTypeOK, Made, StopBegins
<1>n. PICK n \in Sources : n = held[p]
  BY <1>t
<1>1. CASE n \in stopped /\ StopReturns(p) /\ UNCHANGED stopped
  BY <1>t, <1>n, <1>1, RefusedStep DEF StopBegins, StopReturns, castVars
<1>2. CASE n \notin stopped /\ stopped' = stopped \cup {n} /\ Move(p, "stopSource", n)
  <2>u. UNCHANGED <<entry, making, made, routeOf, started, refs, starting, routeVars, tunerOf, ended, left>>
    BY DEF StopBegins, poolVars
  <2>1. /\ LiveTypeOK' /\ NumbersLeft' /\ Made' /\ Creators' /\ Creations' /\ Starts' /\ Counted'
        /\ \A c \in Acquirers : /\ where'[c] = "commit" <=> where[c] = "commit"
                                /\ where[c] = "commit" => held'[c] = held[c] /\ c # p
        /\ where'[p] = "stopSource" /\ held'[p] = n
        /\ \A q \in Procs : q # p => where'[q] = where[q] /\ held'[q] = held[q]
    <3>1. /\ entry' \in [RouteKeys -> Sources \cup {NoOne}] /\ ended' \subseteq Sources
          /\ \A k \in RouteKeys : entry'[k] \in {entry[k], NoOne}
          /\ tunerOf' \in [Sources -> Tuners \cup {NoOne}]
      BY <1>t, <2>u DEF LiveTypeOK
    <3>2. stopped' \subseteq stopped \cup {held[p]} /\ Move(p, "stopSource", held[p])
      BY <1>n, <1>2
    <3> QED BY <1>t, <1>n, <2>u, <3>1, <3>2, StopFrame
  <2>2. entry[routeOf[n]] = n
    <3>1. Settled(n)
      BY <1>t, <1>n, HeldSettled
    <3> QED BY <1>2, <3>1 DEF LInv, Stops, Settled
  <2>3. \A q \in Procs : q # p /\ where[q] \in {"stopSource", "onStop"} => held[q] # n
    BY <1>2 DEF LInv, Stops
  <2>4. Stops'
    <3>1. \A j \in Sources : j <= made' /\ j \notin stopped' =>
             \/ entry'[routeOf'[j]] = j
             \/ \E b \in Acquirers : where'[b] = "commit" /\ held'[b] = j
      BY <1>2, <2>1, <2>u DEF LInv, Stops
    <3>2. ASSUME NEW j \in stopped', entry'[routeOf'[j]] = j
          PROVE  \E q \in Procs : where'[q] \in {"stopSource", "onStop"} /\ held'[q] = j
      <4>1. CASE j = n
        BY <2>1, <4>1
      <4>2. CASE j # n
        <5>1. PICK q \in Procs : where[q] \in {"stopSource", "onStop"} /\ held[q] = j
          BY <1>2, <2>u, <3>2, <4>2 DEF LInv, Stops
        <5> QED BY <1>t, <2>1, <5>1
      <4> QED BY <4>1, <4>2
    <3>3. /\ \A q \in Procs : where'[q] \in {"stopSource", "onStop"} => held'[q] \in stopped'
          /\ \A q \in Procs : where'[q] = "onStop" => tunerOf'[held'[q]] = NoOne
      BY <1>2, <2>1, <2>u DEF LInv, Stops
    <3>4. \A q, r \in Procs :
             /\ where'[q] \in {"stopSource", "onStop"} /\ where'[r] \in {"stopSource", "onStop"}
             /\ held'[q] = held'[r]
             => q = r
      BY <2>1, <2>3 DEF LInv, Stops
    <3> QED BY <3>1, <3>2, <3>3, <3>4 DEF Stops
  <2>5. TunersOwned' /\ StopsListed'
    BY <2>1, <2>2, <2>u DEF LInv, PoolMapExact, TunersOwned, StopsListed
  <2>6. Tended'
    <3>1. \A j \in Sources : StoppedBy(j) \subseteq StoppedBy(j)'
      BY <1>n, <2>1 DEF StoppedBy
    <3>2. p \in StoppedBy(n)'
      BY <2>1 DEF StoppedBy
    <3> QED BY <1>2, <2>u, <3>1, <3>2 DEF LInv, NobodyWatchesNothing, Tended
  <2> QED BY <2>1, <2>4, <2>5, <2>6, Parts
<1> QED BY <1>1, <1>2, <1>n DEF StopBegins

LEMMA StopSourceStep ==
    ASSUME LInv, NEW p \in Procs, StopSource(p)
    PROVE  LInv'
<1>t. LiveTypeOK /\ where[p] = "stopSource" /\ held[p] # NoOne /\ held[p] \in Sources
  BY DEF LInv, LiveTypeOK, Made, StopSource
<1>n. PICK n \in Sources : n = held[p]
  BY <1>t
<1>u. /\ UNCHANGED <<entry, making, made, routeOf, started, stopped, refs, starting, routeVars, left>>
      /\ Move(p, "onStop", n) /\ tunerOf' = [tunerOf EXCEPT ![n] = NoOne]
  BY <1>n DEF StopSource, poolVars, castVars
<1>v. /\ tunerOf' \in [Sources -> Tuners \cup {NoOne}] /\ tunerOf'[n] = NoOne
      /\ \A j \in Sources : tunerOf'[j] \in {tunerOf[j], NoOne}
  BY <1>t, <1>u DEF LiveTypeOK
<1>1. /\ LiveTypeOK' /\ NumbersLeft' /\ Made' /\ Creators' /\ Creations' /\ Starts' /\ Counted'
      /\ \A c \in Acquirers : /\ where'[c] = "commit" <=> where[c] = "commit"
                              /\ where[c] = "commit" => held'[c] = held[c] /\ c # p
      /\ where'[p] = "onStop" /\ held'[p] = n
      /\ \A q \in Procs : q # p => where'[q] = where[q] /\ held'[q] = held[q]
  <2>1. /\ entry' \in [RouteKeys -> Sources \cup {NoOne}] /\ ended' \subseteq Sources
        /\ \A k \in RouteKeys : entry'[k] \in {entry[k], NoOne}
    BY <1>t, <1>u DEF LiveTypeOK, StopSource
  <2>2. stopped' \subseteq stopped \cup {held[p]} /\ Move(p, "onStop", held[p])
    BY <1>n, <1>u
  <2> QED BY <1>t, <1>n, <1>u, <1>v, <2>1, <2>2, StopFrame
<1>p. \A q \in Procs :
        /\ where'[q] \in {"stopSource", "onStop"} <=> where[q] \in {"stopSource", "onStop"}
        /\ where[q] \in {"stop", "stopSource", "onStop"} => held'[q] = held[q]
        /\ where[q] = "stop" <=> where'[q] = "stop"
        /\ where'[q] = "onStop" /\ q # p => where[q] = "onStop"
  BY <1>t, <1>n, <1>1
<1>2. Stops'
  <2>1. ASSUME NEW q \in Procs, where'[q] = "onStop" PROVE tunerOf'[held'[q]] = NoOne
    <3>1. CASE q = p
      BY <1>1, <1>v, <3>1
    <3>2. CASE q # p
      <4>1. where[q] = "onStop" /\ held'[q] = held[q] /\ held[q] \in Sources
        BY <1>t, <1>1, <2>1, <3>2 DEF LInv, LiveTypeOK, Made
      <4> QED BY <4>1, <1>v DEF LInv, Stops
    <3> QED BY <3>1, <3>2
  <2>2. /\ \A j \in Sources : j <= made' /\ j \notin stopped' =>
             \/ entry'[routeOf'[j]] = j
             \/ \E b \in Acquirers : where'[b] = "commit" /\ held'[b] = j
        /\ \A j \in stopped' : entry'[routeOf'[j]] = j =>
             \E q \in Procs : where'[q] \in {"stopSource", "onStop"} /\ held'[q] = j
    BY <1>p, <1>1, <1>u DEF LInv, Stops
  <2>3. /\ \A q \in Procs : where'[q] \in {"stopSource", "onStop"} => held'[q] \in stopped'
        /\ \A q, r \in Procs :
             /\ where'[q] \in {"stopSource", "onStop"} /\ where'[r] \in {"stopSource", "onStop"}
             /\ held'[q] = held'[r]
             => q = r
    BY <1>p, <1>u DEF LInv, Stops
  <2> QED BY <2>1, <2>2, <2>3 DEF Stops
<1>3. TunersOwned' /\ StopsListed'
  BY <1>p, <1>1, <1>u, <1>v DEF LInv, PoolMapExact, TunersOwned, StopsListed
<1>4. Tended'
  <2>1. \A j \in Sources : StoppedBy(j) \subseteq StoppedBy(j)'
    BY <1>p DEF StoppedBy
  <2> QED BY <1>u, <2>1 DEF LInv, NobodyWatchesNothing, Tended
<1> QED BY <1>1, <1>2, <1>3, <1>4, Parts

\* removeRouteSource deletes the entry of the broadcast that stopped, and no other.
LEMMA BroadcastOnStopStep ==
    ASSUME LInv, NEW p \in Procs, BroadcastOnStop(p)
    PROVE  LInv'
<1>t. LiveTypeOK /\ where[p] = "onStop" /\ held[p] # NoOne /\ held[p] \in Sources
  BY DEF LInv, LiveTypeOK, Made, BroadcastOnStop
<1>n. PICK n \in Sources : n = held[p]
  BY <1>t
<1>k. PICK k \in RouteKeys : k = routeOf[n]
  BY <1>t DEF LiveTypeOK
<1> DEFINE place == IF p = Shut THEN "stopping" ELSE "idle"
<1>u. /\ UNCHANGED <<making, made, routeOf, started, stopped, refs, starting, routeVars, tunerOf, ended, left>>
      /\ Move(p, place, NoOne) /\ entry' = [entry EXCEPT ![k] = NoOne]
  BY <1>n, <1>k DEF BroadcastOnStop, StopReturns, castVars
<1>e. /\ entry[k] = n /\ n \in stopped /\ tunerOf[n] = NoOne
      /\ \A q \in Procs : where[q] \in {"stopSource", "onStop"} /\ held[q] = n => q = p
  BY <1>t, <1>n, <1>k DEF LInv, PoolMapExact, Stops
<1>f. /\ entry' \in [RouteKeys -> Sources \cup {NoOne}] /\ entry'[k] = NoOne
      /\ \A j \in RouteKeys : j # k => entry'[j] = entry[j]
  BY <1>t, <1>u DEF LiveTypeOK
<1>1. /\ LiveTypeOK' /\ NumbersLeft' /\ Made' /\ Creators' /\ Creations' /\ Starts' /\ Counted'
      /\ \A c \in Acquirers : /\ where'[c] = "commit" <=> where[c] = "commit"
                              /\ where[c] = "commit" => held'[c] = held[c] /\ c # p
      /\ where'[p] = place /\ held'[p] = NoOne
      /\ \A q \in Procs : q # p => where'[q] = where[q] /\ held'[q] = held[q]
  <2>1. /\ tunerOf' \in [Sources -> Tuners \cup {NoOne}] /\ ended' \subseteq Sources
        /\ \A j \in RouteKeys : entry'[j] \in {entry[j], NoOne}
        /\ stopped' \subseteq stopped \cup {held[p]}
    BY <1>t, <1>u, <1>f DEF LiveTypeOK
  <2>2. place \in {"stopping", "idle"}
    OBVIOUS
  <2> HIDE DEF place
  <2> QED BY <1>t, <1>u, <1>f, <2>1, <2>2, StopFrame
<1>o. /\ where'[p] \in {"stopping", "idle"} /\ \A j \in Sources : routeOf[j] \in RouteKeys
      /\ \A j \in Sources : j # NoOne
      /\ \A j \in Sources : entry[routeOf[j]] = j /\ j # n => routeOf[j] # k
  BY <1>t, <1>1, <1>e DEF LiveTypeOK, Sources, NoOne
<1>2. Stops'
  <2>1. \A j \in Sources : j <= made' /\ j \notin stopped' =>
             \/ entry'[routeOf'[j]] = j
             \/ \E b \in Acquirers : where'[b] = "commit" /\ held'[b] = j
    BY <1>e, <1>f, <1>o, <1>u, <1>1 DEF LInv, Stops
  <2>2. ASSUME NEW j \in stopped', entry'[routeOf'[j]] = j
        PROVE  \E q \in Procs : where'[q] \in {"stopSource", "onStop"} /\ held'[q] = j
    <3>1. j \in Sources /\ routeOf[j] # k /\ entry[routeOf[j]] = j /\ j # n
      BY <1>t, <1>f, <1>o, <1>u, <1>k, <2>2 DEF LiveTypeOK
    <3>2. PICK q \in Procs : where[q] \in {"stopSource", "onStop"} /\ held[q] = j
      BY <1>u, <2>2, <3>1 DEF LInv, Stops
    <3> QED BY <1>1, <1>n, <3>1, <3>2
  <2>3. /\ \A q \in Procs : where'[q] \in {"stopSource", "onStop"} => held'[q] \in stopped'
        /\ \A q \in Procs : where'[q] = "onStop" => tunerOf'[held'[q]] = NoOne
        /\ \A q, r \in Procs :
             /\ where'[q] \in {"stopSource", "onStop"} /\ where'[r] \in {"stopSource", "onStop"}
             /\ held'[q] = held'[r]
             => q = r
    BY <1>1, <1>o, <1>u DEF LInv, Stops
  <2> QED BY <2>1, <2>2, <2>3 DEF Stops
<1>3. TunersOwned'
  BY <1>1, <1>e, <1>f, <1>o, <1>u DEF LInv, PoolMapExact, TunersOwned
<1>4. StopsListed'
  <2> SUFFICES ASSUME NEW q \in Procs, where'[q] \in {"stopSource", "onStop"}
               PROVE  entry'[routeOf'[held'[q]]] = held'[q]
    BY DEF StopsListed
  <2>1. q # p /\ where[q] \in {"stopSource", "onStop"} /\ held'[q] = held[q]
    BY <1>1, <1>o
  <2>2. held[q] # n /\ held[q] \in Sources /\ entry[routeOf[held[q]]] = held[q]
    BY <1>t, <1>e, <2>1 DEF LInv, PoolMapExact, LiveTypeOK, Made
  <2> QED BY <1>f, <1>o, <1>u, <2>1, <2>2
<1>5. Tended'
  <2>1. ASSUME NEW j \in Sources, j # n PROVE StoppedBy(j) \subseteq StoppedBy(j)'
    BY <1>1, <1>n, <2>1 DEF StoppedBy
  <2>2. ASSUME NEW j \in Sources, entry'[routeOf'[j]] = j PROVE entry[routeOf[j]] = j /\ j # n
    BY <1>f, <1>o, <1>k, <1>u, <2>2
  <2> QED BY <1>e, <1>u, <2>1, <2>2 DEF LInv, NobodyWatchesNothing, Tended
<1> QED BY <1>1, <1>2, <1>3, <1>4, <1>5, Parts

-----------------------------------------------------------------------------
(* The creation of a source                                                 *)

\* Steps of a creator, on which broadcasts, subscribers and those who stop stay as they are.
LEMMA CreatorFrame ==
    ASSUME LInv, UNCHANGED <<started, stopped, refs, starting>>,
           \A q \in Procs :
             /\ where'[q] \in {"starting", "streaming", "stop", "stopSource", "onStop"}
                  <=> where[q] \in {"starting", "streaming", "stop", "stopSource", "onStop"}
             /\ where[q] \in {"starting", "streaming", "stop", "stopSource", "onStop"} =>
                  where'[q] = where[q] /\ held'[q] = held[q]
    PROVE  /\ Starts' /\ Counted'
           /\ \A n \in Sources : StoppedBy(n)' = StoppedBy(n)
<1>t. \A b \in Acquirers : b \in Procs
  BY DEF Procs
<1>1. Starts'
  BY <1>t DEF LInv, Starts
<1>2. Counted'
  BY <1>t, CountedSame DEF Watching
<1>3. \A n \in Sources : StoppedBy(n)' = StoppedBy(n)
  BY DEF StoppedBy
<1> QED BY <1>1, <1>2, <1>3

LEMMA BeginCreatesStep ==
    ASSUME LInv, NEW c \in Acquirers, BeginRouteSourceCreate(c), making' # making
    PROVE  LInv'
<1>t. /\ LiveTypeOK /\ c \in Procs /\ c # Shut /\ where[c] = "try" /\ HasRoute(c) /\ c # NoOne
      /\ \A b \in Acquirers : b \in Procs
  BY LiveConstants, AcquirersFinite DEF LInv, Procs, BeginRouteSourceCreate, Trying
<1>k. PICK k \in RouteKeys : k = Route(c).key
  BY <1>t, RouteKnown DEF LiveTypeOK
<1>u. /\ UNCHANGED <<entry, made, routeOf, castVars, routeVars, tunerOf, ended, left>>
      /\ UNCHANGED <<started, stopped, refs, starting, pos, busy, canceled>>
      /\ entry[k] = NoOne /\ making[k] = NoOne /\ making' = [making EXCEPT ![k] = c]
      /\ Move(c, "acquire", NoOne)
  BY <1>k DEF BeginRouteSourceCreate, castVars, routeVars
<1>m. /\ where' \in [Procs -> Wheres] /\ held' \in [Procs -> Sources \cup {NoOne}]
      /\ where'[c] = "acquire" /\ held'[c] = NoOne
      /\ \A q \in Procs : q # c => where'[q] = where[q] /\ held'[q] = held[q]
  BY <1>t, <1>u, MoveIsAlone DEF Alone, Wheres
<1>g. /\ making' \in [RouteKeys -> Acquirers \cup {NoOne}] /\ making'[k] = c
      /\ \A j \in RouteKeys : j # k => making'[j] = making[j]
  BY <1>t, <1>u DEF LiveTypeOK
<1>r. \A b \in Acquirers : (HasRoute(b))' = HasRoute(b) /\ Route(b)' = Route(b)
  BY <1>u DEF HasRoute, Route
<1>1. LiveTypeOK'
  BY <1>t, <1>u, <1>m, <1>g DEF LiveTypeOK, Wheres
<1>2. NumbersLeft'
  <2>1. Claiming' \subseteq Claiming
    BY <1>t, <1>m DEF Claiming
  <2> QED BY <1>u, <2>1, NumbersFrame
<1>3. Made'
  <2>1. \A b \in Acquirers : where'[b] \in {"join", "acquire", "commit", "finish"} => (HasRoute(b))'
    BY <1>t, <1>m, <1>r DEF LInv, Made
  <2>2. \A q \in Procs :
          /\ held'[q] <= made'
          /\ where'[q] \in {"commit", "have", "starting", "streaming", "stop", "stopSource",
                            "onStop"} => held'[q] # NoOne
    BY <1>m, <1>u, NoOneFree DEF LInv, Made
  <2>3. where'[Shut] \in {"idle", "stopping", "stop", "stopSource", "onStop"}
    BY <1>t, <1>m DEF LInv, Made, Procs
  <2>4. /\ \A j \in RouteKeys : entry'[j] # NoOne => entry'[j] <= made' /\ routeOf'[entry'[j]] = j
        /\ \A n \in started' \cup stopped' \cup starting' \cup left' : n <= made'
    BY <1>u DEF LInv, Made
  <2> QED BY <2>1, <2>2, <2>3, <2>4 DEF Made
<1>h. ASSUME NEW b \in Acquirers, b # c, where[b] \in {"acquire", "commit", "finish"}
      PROVE  Route(b).key \in RouteKeys /\ Route(b).key # k
  <2>1. Route(b).key \in RouteKeys
    BY <1>t, <1>h, RouteKnown DEF LInv, LiveTypeOK, Made
  <2>2. making[Route(b).key] = b /\ b # NoOne
    BY <1>h, AcquirersFinite DEF LInv, Creators
  <2> QED BY <1>u, <2>1, <2>2
<1>4. Creators'
  <2>1. ASSUME NEW b \in Acquirers
        PROVE  /\ where'[b] \in {"acquire", "commit", "finish"} => making'[Route(b)'.key] = b
               /\ where'[b] \in {"acquire", "commit"} => entry'[Route(b)'.key] = NoOne
               /\ where'[b] = "commit" => routeOf'[held'[b]] = Route(b)'.key
    <3>1. CASE b = c
      BY <3>1, <1>k, <1>m, <1>g, <1>r, <1>u
    <3>2. CASE b # c
      BY <3>2, <1>t, <1>m, <1>g, <1>h, <1>r, <1>u DEF LInv, Creators
    <3> QED BY <3>1, <3>2
  <2>2. ASSUME NEW b \in Acquirers, where'[b] = "commit"
        PROVE  /\ held'[b] \notin started' \cup stopped' \cup starting' \cup left'
               /\ \A j \in RouteKeys : entry'[j] # held'[b]
               /\ \A q \in Procs : q # b => held'[q] # held'[b]
    BY <1>t, <1>m, <1>u, <2>2, NoOneFree DEF LInv, Creators
  <2> QED BY <2>1, <2>2 DEF Creators
<1>5. /\ Starts' /\ Counted' /\ \A n \in Sources : StoppedBy(n)' = StoppedBy(n)
  BY <1>t, <1>m, <1>u, CreatorFrame
<1>p. /\ \A q \in Procs :
          /\ where'[q] \in {"stopSource", "onStop"} <=> where[q] \in {"stopSource", "onStop"}
          /\ where'[q] = "onStop" <=> where[q] = "onStop"
          /\ where[q] \in {"stopSource", "onStop"} => held'[q] = held[q]
      /\ \A b \in Acquirers :
          /\ where'[b] = "commit" <=> where[b] = "commit"
          /\ where[b] = "commit" => b # c /\ held'[b] = held[b]
  BY <1>t, <1>m
<1>6. Stops'
  BY <1>p, <1>u DEF LInv, Stops
<1>7. TunersOwned' /\ StopsListed'
  <2>1. ASSUME NEW n \in Sources, tunerOf'[n] # NoOne
        PROVE  \/ entry'[routeOf'[n]] = n
               \/ \E b \in Acquirers : where'[b] = "commit" /\ held'[b] = n /\ making'[routeOf'[n]] = b
    <3>1. routeOf[n] \in RouteKeys
      BY <1>t DEF LiveTypeOK
    <3>2. \A b \in Acquirers : making[routeOf[n]] = b => making'[routeOf[n]] = b
      BY <1>g, <1>u, <3>1, AcquirersFinite
    <3> QED BY <1>p, <1>u, <2>1, <3>2 DEF LInv, PoolMapExact
  <2>2. StopsListed'
    BY <1>p, <1>u DEF LInv, PoolMapExact, StopsListed
  <2> QED BY <2>1, <2>2 DEF TunersOwned
<1>8. Creations'
  <2>1. ASSUME NEW j \in RouteKeys, NEW b \in Acquirers, making'[j] = b
        PROVE  where'[b] \in {"acquire", "commit", "finish"} /\ Route(b)'.key = j
    <3>1. CASE j = k
      BY <1>g, <1>k, <1>m, <1>r, <2>1, <3>1
    <3>2. CASE j # k
      <4>1. making[j] = b /\ where[b] \in {"acquire", "commit", "finish"} /\ Route(b).key = j
        BY <1>g, <2>1, <3>2, AcquirersFinite DEF LInv, PoolMapExact
      <4> QED BY <1>t, <1>m, <1>r, <4>1
    <3> QED BY <3>1, <3>2
  <2>2. ASSUME NEW b \in Acquirers, where'[b] = "join" PROVE making'[Route(b)'.key] # NoOne
    <3>1. where[b] = "join" /\ Route(b).key \in RouteKeys
      BY <1>t, <1>m, <2>2, RouteKnown DEF LInv, LiveTypeOK, Made
    <3>2. making[Route(b).key] # NoOne
      BY <3>1 DEF LInv, PoolMapExact
    <3> QED BY <1>g, <1>r, <1>t, <3>1, <3>2
  <2> QED BY <1>g, <2>1, <2>2 DEF Creations, Route
<1>9. Tended'
  BY <1>5, <1>u DEF LInv, NobodyWatchesNothing, Tended
<1> QED BY <1>1, <1>2, <1>3, <1>4, <1>5, <1>6, <1>7, <1>8, <1>9, Parts

LEMMA ReserveFailsStep ==
    ASSUME LInv, NEW c \in Acquirers, ReserveFails(c)
    PROVE  LInv'
<1>t. /\ LiveTypeOK /\ c \in Procs /\ c # Shut /\ where[c] = "acquire" /\ Move(c, "finish", NoOne)
      /\ \A b \in Acquirers : b \in Procs
  BY LiveConstants DEF LInv, Procs, ReserveFails
<1>u. /\ UNCHANGED <<entry, making, made, routeOf, started, stopped, refs, starting, pos, canceled,
                    tunerOf, ended, left>>
      /\ busy' \subseteq Acquirers
  BY <1>t DEF ReserveFails, poolVars, castVars, LiveTypeOK
<1>m. /\ where' \in [Procs -> Wheres] /\ held' \in [Procs -> Sources \cup {NoOne}]
      /\ where'[c] = "finish" /\ held'[c] = NoOne
      /\ \A q \in Procs : q # c => where'[q] = where[q] /\ held'[q] = held[q]
  BY <1>t, MoveIsAlone DEF Alone, Wheres
<1>r. \A b \in Acquirers : (HasRoute(b))' = HasRoute(b) /\ Route(b)' = Route(b)
  BY <1>u DEF HasRoute, Route
<1>1. LiveTypeOK'
  BY <1>t, <1>u, <1>m DEF LiveTypeOK, Wheres
<1>2. NumbersLeft'
  <2>1. Claiming' \subseteq Claiming
    BY <1>t, <1>m DEF Claiming
  <2> QED BY <1>u, <2>1, NumbersFrame
<1>3. Made'
  <2>1. \A b \in Acquirers : where'[b] \in {"join", "acquire", "commit", "finish"} => (HasRoute(b))'
    BY <1>t, <1>m, <1>r DEF LInv, Made
  <2>2. \A q \in Procs :
          /\ held'[q] <= made'
          /\ where'[q] \in {"commit", "have", "starting", "streaming", "stop", "stopSource",
                            "onStop"} => held'[q] # NoOne
    BY <1>m, <1>u, NoOneFree DEF LInv, Made
  <2>3. where'[Shut] \in {"idle", "stopping", "stop", "stopSource", "onStop"}
    BY <1>t, <1>m DEF LInv, Made, Procs
  <2>4. /\ \A j \in RouteKeys : entry'[j] # NoOne => entry'[j] <= made' /\ routeOf'[entry'[j]] = j
        /\ \A n \in started' \cup stopped' \cup starting' \cup left' : n <= made'
    BY <1>u DEF LInv, Made
  <2> QED BY <2>1, <2>2, <2>3, <2>4 DEF Made
<1>4. Creators'
  <2>1. ASSUME NEW b \in Acquirers
        PROVE  /\ where'[b] \in {"acquire", "commit", "finish"} => making'[Route(b)'.key] = b
               /\ where'[b] \in {"acquire", "commit"} => entry'[Route(b)'.key] = NoOne
               /\ where'[b] = "commit" => routeOf'[held'[b]] = Route(b)'.key
    BY <1>t, <1>m, <1>r, <1>u DEF LInv, Creators
  <2>2. ASSUME NEW b \in Acquirers, where'[b] = "commit"
        PROVE  /\ held'[b] \notin started' \cup stopped' \cup starting' \cup left'
               /\ \A j \in RouteKeys : entry'[j] # held'[b]
               /\ \A q \in Procs : q # b => held'[q] # held'[b]
    BY <1>t, <1>m, <1>u, <2>2, NoOneFree DEF LInv, Creators
  <2> QED BY <2>1, <2>2 DEF Creators
<1>5. /\ Starts' /\ Counted' /\ \A n \in Sources : StoppedBy(n)' = StoppedBy(n)
  BY <1>t, <1>m, <1>u, CreatorFrame
<1>p. /\ \A q \in Procs :
          /\ where'[q] \in {"stopSource", "onStop"} <=> where[q] \in {"stopSource", "onStop"}
          /\ where'[q] = "onStop" <=> where[q] = "onStop"
          /\ where[q] \in {"stopSource", "onStop"} => held'[q] = held[q]
      /\ \A b \in Acquirers :
          /\ where'[b] = "commit" <=> where[b] = "commit"
          /\ where'[b] = "join" <=> where[b] = "join"
          /\ where[b] \in {"acquire", "commit", "finish"} =>
               where'[b] \in {"acquire", "commit", "finish"}
          /\ where[b] = "commit" => held'[b] = held[b]
  BY <1>t, <1>m
<1>6. Stops'
  BY <1>p, <1>u DEF LInv, Stops
<1>7. TunersOwned' /\ StopsListed'
  BY <1>p, <1>u DEF LInv, PoolMapExact, TunersOwned, StopsListed
<1>8. Creations'
  <2>1. \A k \in RouteKeys : making[k] # NoOne => making[k] \in Acquirers
    BY <1>t DEF LiveTypeOK
  <2> QED BY <1>p, <1>u, <2>1 DEF LInv, PoolMapExact, Creations, Route
<1>9. Tended'
  BY <1>5, <1>u DEF LInv, NobodyWatchesNothing, Tended
<1> QED BY <1>1, <1>2, <1>3, <1>4, <1>5, <1>6, <1>7, <1>8, <1>9, Parts

LEMMA ReserveDeviceStep ==
    ASSUME LInv, NEW c \in Acquirers, ReserveDevice(c)
    PROVE  LInv'
<1>t. /\ LiveTypeOK /\ c \in Procs /\ c # Shut /\ where[c] = "acquire" /\ made \in Nat
      /\ MaxSources \in Nat /\ \A b \in Acquirers : b \in Procs
  BY LiveConstants DEF LInv, LiveTypeOK, Procs, ReserveDevice
<1>f. IsFiniteSet(Claiming) /\ Cardinality(Claiming) \in Nat /\ c \in Claiming
  <2>1. Claiming \in SUBSET Acquirers /\ c \in Claiming
    BY <1>t DEF Claiming
  <2> QED BY <2>1, AcquirersFinite, FS_Subset, FS_CardinalityType
<1>n. PICK n \in Sources : n = made + 1
  <2>1. Cardinality(Claiming) # 0
    BY <1>f, FS_EmptySet
  <2>2. made + Cardinality(Claiming) <= MaxSources
    BY DEF LInv, NumbersLeft
  <2> QED BY <1>t, <1>f, <2>1, <2>2 DEF Sources
<1>k. PICK k \in RouteKeys : k = Route(c).key
  BY <1>t, RouteKnown DEF LiveTypeOK, LInv, Made
<1>o. PICK d \in Tuners : tunerOf' = [tunerOf EXCEPT ![n] = d]
  BY <1>n DEF ReserveDevice, FreeTuners
<1>u. /\ UNCHANGED <<entry, making, started, stopped, refs, starting, pos, busy, canceled, ended,
                    left>>
      /\ made' = n /\ routeOf' = [routeOf EXCEPT ![n] = k] /\ Move(c, "commit", n)
  BY <1>n, <1>k DEF ReserveDevice, castVars, routeVars
<1>m. /\ where' \in [Procs -> Wheres] /\ held' \in [Procs -> Sources \cup {NoOne}]
      /\ where'[c] = "commit" /\ held'[c] = n
      /\ \A q \in Procs : q # c => where'[q] = where[q] /\ held'[q] = held[q]
  BY <1>t, <1>u, MoveIsAlone DEF Alone, Wheres
<1>v. /\ routeOf' \in [Sources -> RouteKeys] /\ routeOf'[n] = k
      /\ tunerOf' \in [Sources -> Tuners \cup {NoOne}]
      /\ \A j \in Sources : j # n => routeOf'[j] = routeOf[j] /\ tunerOf'[j] = tunerOf[j]
  BY <1>t, <1>o, <1>u DEF LiveTypeOK
<1>b. /\ \A q \in Procs : held[q] # n /\ held[q] <= n
      /\ n \notin started \cup stopped \cup starting \cup left
      /\ \A j \in RouteKeys : entry[j] # n /\ (entry[j] # NoOne => entry[j] <= n)
      /\ \A j \in started \cup stopped \cup starting \cup left : j <= n /\ j \in Sources
      /\ \A j \in Sources : j <= n /\ j # n => j <= made
      /\ n # NoOne
  <2>1. /\ \A q \in Procs : held[q] \in Int /\ held[q] <= made
        /\ \A j \in RouteKeys : entry[j] \in Int /\ (entry[j] # NoOne => entry[j] <= made)
        /\ \A j \in started \cup stopped \cup starting \cup left : j <= made /\ j \in Sources
    BY <1>t DEF LInv, LiveTypeOK, Made, Sources, NoOne
  <2> QED BY <1>t, <1>n, <2>1 DEF Sources, NoOne
<1>e. \A j \in RouteKeys : entry[j] # NoOne => routeOf[entry[j]] = j /\ entry[j] \in Sources
  BY <1>t DEF LInv, Made, LiveTypeOK
<1>r. \A b \in Acquirers : (HasRoute(b))' = HasRoute(b) /\ Route(b)' = Route(b)
  BY <1>u DEF HasRoute, Route
<1>1. LiveTypeOK'
  <2>1. made' \in 0 .. MaxSources
    BY <1>u DEF Sources
  <2> QED BY <1>t, <1>u, <1>m, <1>v, <2>1 DEF LiveTypeOK, Wheres
<1>2. NumbersLeft'
  <2>1. Claiming' = Claiming \ {c}
    BY <1>t, <1>m, <1>b DEF Claiming
  <2>2. Cardinality(Claiming') = Cardinality(Claiming) - 1
    BY <1>f, <2>1, FS_RemoveElement
  <2> QED BY <1>t, <1>f, <1>n, <1>u, <2>2 DEF LInv, NumbersLeft
<1>3. Made'
  <2>1. \A b \in Acquirers : where'[b] \in {"join", "acquire", "commit", "finish"} => (HasRoute(b))'
    BY <1>t, <1>m, <1>r DEF LInv, Made
  <2>2. \A q \in Procs :
          /\ held'[q] <= made'
          /\ where'[q] \in {"commit", "have", "starting", "streaming", "stop", "stopSource",
                            "onStop"} => held'[q] # NoOne
    <3>1. n <= n
      BY <1>n, <1>t
    <3> QED BY <1>m, <1>u, <1>b, <3>1 DEF LInv, Made
  <2>3. where'[Shut] \in {"idle", "stopping", "stop", "stopSource", "onStop"}
    BY <1>t, <1>m DEF LInv, Made, Procs
  <2>4. /\ \A j \in RouteKeys : entry'[j] # NoOne => entry'[j] <= made' /\ routeOf'[entry'[j]] = j
        /\ \A j \in started' \cup stopped' \cup starting' \cup left' : j <= made'
    BY <1>u, <1>v, <1>b, <1>e
  <2> QED BY <2>1, <2>2, <2>3, <2>4 DEF Made
<1>h. \A b \in Acquirers : where[b] = "commit" => held[b] \in Sources
  BY <1>t DEF LInv, LiveTypeOK, Made
<1>4. Creators'
  <2>1. ASSUME NEW b \in Acquirers
        PROVE  /\ where'[b] \in {"acquire", "commit", "finish"} => making'[Route(b)'.key] = b
               /\ where'[b] \in {"acquire", "commit"} => entry'[Route(b)'.key] = NoOne
               /\ where'[b] = "commit" => routeOf'[held'[b]] = Route(b)'.key
    <3>1. CASE b = c
      BY <3>1, <1>t, <1>k, <1>m, <1>v, <1>r, <1>u DEF LInv, Creators
    <3>2. CASE b # c
      BY <3>2, <1>t, <1>m, <1>b, <1>h, <1>v, <1>r, <1>u DEF LInv, Creators
    <3> QED BY <3>1, <3>2
  <2>2. ASSUME NEW b \in Acquirers, where'[b] = "commit"
        PROVE  /\ held'[b] \notin started' \cup stopped' \cup starting' \cup left'
               /\ \A j \in RouteKeys : entry'[j] # held'[b]
               /\ \A q \in Procs : q # b => held'[q] # held'[b]
    BY <1>t, <1>m, <1>u, <1>b, <2>2 DEF LInv, Creators
  <2> QED BY <2>1, <2>2 DEF Creators
<1>5. /\ Starts' /\ Counted' /\ \A j \in Sources : StoppedBy(j)' = StoppedBy(j)
  BY <1>t, <1>m, <1>u, CreatorFrame
<1>p. /\ \A q \in Procs :
          /\ where'[q] \in {"stopSource", "onStop"} <=> where[q] \in {"stopSource", "onStop"}
          /\ where'[q] = "onStop" <=> where[q] = "onStop"
          /\ where[q] \in {"stopSource", "onStop"} =>
               held'[q] = held[q] /\ held[q] \in Sources /\ held[q] # n
      /\ \A b \in Acquirers :
          /\ where'[b] = "join" <=> where[b] = "join"
          /\ where[b] \in {"acquire", "commit", "finish"} =>
               where'[b] \in {"acquire", "commit", "finish"}
          /\ where[b] = "commit" => held'[b] = held[b] /\ where'[b] = "commit"
  BY <1>t, <1>m, <1>b DEF LInv, LiveTypeOK, Made
<1>6. Stops'
  <2>1. \A j \in Sources : j <= made' /\ j \notin stopped' =>
             \/ entry'[routeOf'[j]] = j
             \/ \E b \in Acquirers : where'[b] = "commit" /\ held'[b] = j
    BY <1>p, <1>m, <1>b, <1>u, <1>v DEF LInv, Stops
  <2>2. \A j \in stopped' : entry'[routeOf'[j]] = j =>
             \E q \in Procs : where'[q] \in {"stopSource", "onStop"} /\ held'[q] = j
    BY <1>p, <1>b, <1>u, <1>v DEF LInv, Stops
  <2>3. /\ \A q \in Procs : where'[q] \in {"stopSource", "onStop"} => held'[q] \in stopped'
        /\ \A q \in Procs : where'[q] = "onStop" => tunerOf'[held'[q]] = NoOne
        /\ \A q, r \in Procs :
             /\ where'[q] \in {"stopSource", "onStop"} /\ where'[r] \in {"stopSource", "onStop"}
             /\ held'[q] = held'[r]
             => q = r
    BY <1>p, <1>u, <1>v DEF LInv, Stops
  <2> QED BY <2>1, <2>2, <2>3 DEF Stops
<1>7. TunersOwned' /\ StopsListed'
  <2>1. ASSUME NEW j \in Sources, tunerOf'[j] # NoOne
        PROVE  \/ entry'[routeOf'[j]] = j
               \/ \E b \in Acquirers : where'[b] = "commit" /\ held'[b] = j /\ making'[routeOf'[j]] = b
    <3>1. CASE j = n
      <4>1. making[k] = c
        BY <1>t, <1>k DEF LInv, Creators
      <4> QED BY <1>m, <1>u, <1>v, <3>1, <4>1
    <3>2. CASE j # n
      BY <1>p, <1>u, <1>v, <2>1, <3>2 DEF LInv, PoolMapExact
    <3> QED BY <3>1, <3>2
  <2>2. StopsListed'
    BY <1>p, <1>u, <1>v DEF LInv, PoolMapExact, StopsListed
  <2> QED BY <2>1, <2>2 DEF TunersOwned
<1>8. Creations'
  <2>1. \A j \in RouteKeys : making[j] # NoOne => making[j] \in Acquirers
    BY <1>t DEF LiveTypeOK
  <2> QED BY <1>p, <1>u, <2>1 DEF LInv, PoolMapExact, Creations, Route
<1>9. Tended'
  BY <1>5, <1>b, <1>u, <1>v DEF LInv, NobodyWatchesNothing, Tended
<1> QED BY <1>1, <1>2, <1>3, <1>4, <1>5, <1>6, <1>7, <1>8, <1>9, Parts

\* commitRouteSource never finds a source that is already there.
LEMMA CommitStep ==
    ASSUME LInv, NEW c \in Acquirers, CommitRouteSource(c)
    PROVE  LInv'
<1>t. /\ LiveTypeOK /\ c \in Procs /\ c # Shut /\ where[c] = "commit"
      /\ \A b \in Acquirers : b \in Procs
  BY LiveConstants DEF LInv, Procs, CommitRouteSource
<1>n. PICK n \in Sources : n = held[c]
  BY <1>t DEF LInv, LiveTypeOK, Made
<1>k. PICK k \in RouteKeys : k = Route(c).key
  BY <1>t, RouteKnown DEF LiveTypeOK, LInv, Made
<1>i. /\ entry[k] = NoOne /\ making[k] = c /\ routeOf[n] = k /\ n # NoOne /\ n <= made
      /\ n \notin started \cup stopped \cup starting \cup left
      /\ \A q \in Procs : q # c => held[q] # n
  BY <1>t, <1>n, <1>k DEF LInv, Creators, Made
<1>u. /\ UNCHANGED <<making, made, routeOf, started, stopped, refs, starting, pos, busy, canceled,
                    tunerOf, ended, left>>
      /\ entry' = [entry EXCEPT ![k] = n] /\ Move(c, "finish", n)
  BY <1>n, <1>k, <1>i DEF CommitRouteSource, castVars, routeVars
<1>m. /\ where' \in [Procs -> Wheres] /\ held' \in [Procs -> Sources \cup {NoOne}]
      /\ where'[c] = "finish" /\ held'[c] = n
      /\ \A q \in Procs : q # c => where'[q] = where[q] /\ held'[q] = held[q]
  BY <1>t, <1>u, MoveIsAlone DEF Alone, Wheres
<1>v. /\ entry' \in [RouteKeys -> Sources \cup {NoOne}] /\ entry'[k] = n
      /\ \A j \in RouteKeys : j # k => entry'[j] = entry[j]
  BY <1>t, <1>u DEF LiveTypeOK
<1>o. \A j \in Sources : j # NoOne /\ routeOf[j] \in RouteKeys
  BY <1>t DEF LiveTypeOK, Sources, NoOne
<1>r. \A b \in Acquirers : (HasRoute(b))' = HasRoute(b) /\ Route(b)' = Route(b)
  BY <1>u DEF HasRoute, Route
<1>h. ASSUME NEW b \in Acquirers, b # c, where[b] \in {"acquire", "commit", "finish"}
      PROVE  Route(b).key \in RouteKeys /\ Route(b).key # k
  <2>1. Route(b).key \in RouteKeys
    BY <1>t, <1>h, RouteKnown DEF LInv, LiveTypeOK, Made
  <2>2. making[Route(b).key] = b
    BY <1>h DEF LInv, Creators
  <2> QED BY <1>h, <1>i, <2>1, <2>2
<1>1. LiveTypeOK'
  BY <1>t, <1>u, <1>m, <1>v DEF LiveTypeOK, Wheres
<1>2. NumbersLeft'
  <2>1. Claiming' \subseteq Claiming
    BY <1>t, <1>m, <1>i DEF Claiming
  <2> QED BY <1>u, <2>1, NumbersFrame
<1>3. Made'
  <2>1. \A b \in Acquirers : where'[b] \in {"join", "acquire", "commit", "finish"} => (HasRoute(b))'
    BY <1>t, <1>m, <1>r DEF LInv, Made
  <2>2. \A q \in Procs :
          /\ held'[q] <= made'
          /\ where'[q] \in {"commit", "have", "starting", "streaming", "stop", "stopSource",
                            "onStop"} => held'[q] # NoOne
    BY <1>m, <1>u, <1>i DEF LInv, Made
  <2>3. where'[Shut] \in {"idle", "stopping", "stop", "stopSource", "onStop"}
    BY <1>t, <1>m DEF LInv, Made, Procs
  <2>4. /\ \A j \in RouteKeys : entry'[j] # NoOne => entry'[j] <= made' /\ routeOf'[entry'[j]] = j
        /\ \A j \in started' \cup stopped' \cup starting' \cup left' : j <= made'
    BY <1>u, <1>v, <1>i DEF LInv, Made
  <2> QED BY <2>1, <2>2, <2>3, <2>4 DEF Made
<1>4. Creators'
  <2>1. ASSUME NEW b \in Acquirers
        PROVE  /\ where'[b] \in {"acquire", "commit", "finish"} => making'[Route(b)'.key] = b
               /\ where'[b] \in {"acquire", "commit"} => entry'[Route(b)'.key] = NoOne
               /\ where'[b] = "commit" => routeOf'[held'[b]] = Route(b)'.key
    <3>1. CASE b = c
      BY <3>1, <1>i, <1>k, <1>m, <1>r, <1>u
    <3>2. CASE b # c
      BY <3>2, <1>t, <1>m, <1>h, <1>v, <1>r, <1>u DEF LInv, Creators
    <3> QED BY <3>1, <3>2
  <2>2. ASSUME NEW b \in Acquirers, where'[b] = "commit"
        PROVE  /\ held'[b] \notin started' \cup stopped' \cup starting' \cup left'
               /\ \A j \in RouteKeys : entry'[j] # held'[b]
               /\ \A q \in Procs : q # b => held'[q] # held'[b]
    <3>1. b # c /\ where[b] = "commit" /\ held'[b] = held[b] /\ held[b] # n
      BY <1>t, <1>m, <1>i, <2>2
    <3> QED BY <1>n, <1>m, <1>u, <1>v, <3>1 DEF LInv, Creators
  <2> QED BY <2>1, <2>2 DEF Creators
<1>5. /\ Starts' /\ Counted' /\ \A j \in Sources : StoppedBy(j)' = StoppedBy(j)
  BY <1>t, <1>m, <1>u, CreatorFrame
<1>p. /\ \A q \in Procs :
          /\ where'[q] \in {"stopSource", "onStop"} <=> where[q] \in {"stopSource", "onStop"}
          /\ where'[q] = "onStop" <=> where[q] = "onStop"
          /\ where[q] \in {"stopSource", "onStop"} => held'[q] = held[q] /\ held[q] \in Sources
      /\ \A b \in Acquirers :
          /\ where'[b] = "join" <=> where[b] = "join"
          /\ where[b] \in {"acquire", "commit", "finish"} =>
               where'[b] \in {"acquire", "commit", "finish"}
          /\ where[b] = "commit" /\ b # c => held'[b] = held[b] /\ where'[b] = "commit"
  BY <1>t, <1>m DEF LInv, LiveTypeOK, Made
<1>l. \A j \in Sources : entry[routeOf[j]] = j => entry'[routeOf[j]] = j
  BY <1>i, <1>o, <1>v
<1>6. Stops'
  <2>1. ASSUME NEW j \in Sources, j <= made', j \notin stopped'
        PROVE  \/ entry'[routeOf'[j]] = j
               \/ \E b \in Acquirers : where'[b] = "commit" /\ held'[b] = j
    <3>1. CASE j = n
      BY <1>i, <1>u, <1>v, <3>1
    <3>2. CASE j # n
      BY <1>n, <1>p, <1>l, <1>u, <2>1, <3>2 DEF LInv, Stops
    <3> QED BY <3>1, <3>2
  <2>2. ASSUME NEW j \in stopped', entry'[routeOf'[j]] = j
        PROVE  \E q \in Procs : where'[q] \in {"stopSource", "onStop"} /\ held'[q] = j
    <3>1. j \in Sources /\ j \in stopped /\ j # n
      BY <1>t, <1>i, <1>u, <2>2 DEF LiveTypeOK
    <3>2. entry[routeOf[j]] = j
      BY <1>o, <1>u, <1>v, <2>2, <3>1
    <3> QED BY <1>p, <3>1, <3>2 DEF LInv, Stops
  <2>3. /\ \A q \in Procs : where'[q] \in {"stopSource", "onStop"} => held'[q] \in stopped'
        /\ \A q \in Procs : where'[q] = "onStop" => tunerOf'[held'[q]] = NoOne
        /\ \A q, r \in Procs :
             /\ where'[q] \in {"stopSource", "onStop"} /\ where'[r] \in {"stopSource", "onStop"}
             /\ held'[q] = held'[r]
             => q = r
    BY <1>p, <1>u DEF LInv, Stops
  <2> QED BY <2>1, <2>2, <2>3 DEF Stops
<1>7. TunersOwned' /\ StopsListed'
  <2>1. ASSUME NEW j \in Sources, tunerOf'[j] # NoOne
        PROVE  \/ entry'[routeOf'[j]] = j
               \/ \E b \in Acquirers : where'[b] = "commit" /\ held'[b] = j /\ making'[routeOf'[j]] = b
    <3>1. CASE j = n
      BY <1>i, <1>u, <1>v, <3>1
    <3>2. CASE j # n
      BY <1>n, <1>p, <1>l, <1>u, <2>1, <3>2 DEF LInv, PoolMapExact
    <3> QED BY <3>1, <3>2
  <2>2. StopsListed'
    BY <1>p, <1>l, <1>u DEF LInv, PoolMapExact, StopsListed
  <2> QED BY <2>1, <2>2 DEF TunersOwned
<1>8. Creations'
  <2>1. \A j \in RouteKeys : making[j] # NoOne => making[j] \in Acquirers
    BY <1>t DEF LiveTypeOK
  <2> QED BY <1>p, <1>u, <2>1 DEF LInv, PoolMapExact, Creations, Route
<1>9. Tended'
  <2>1. ASSUME NEW j \in Sources, j \in stopped', entry'[routeOf'[j]] = j
        PROVE  entry[routeOf[j]] = j
    BY <1>i, <1>o, <1>u, <1>v, <2>1
  <2> QED BY <1>5, <1>u, <2>1 DEF LInv, NobodyWatchesNothing, Tended
<1> QED BY <1>1, <1>2, <1>3, <1>4, <1>5, <1>6, <1>7, <1>8, <1>9, Parts

LEMMA FinishCreateStep ==
    ASSUME LInv, NEW c \in Acquirers, FinishCreate(c)
    PROVE  LInv'
<1>t. /\ LiveTypeOK /\ c \in Procs /\ c # Shut /\ where[c] = "finish"
      /\ \A b \in Acquirers : b \in Procs
  BY LiveConstants DEF LInv, Procs, FinishCreate
<1>k. PICK k \in RouteKeys : k = Route(c).key
  BY <1>t, RouteKnown DEF LiveTypeOK, LInv, Made
<1>i. making[k] = c
  BY <1>t, <1>k DEF LInv, Creators
<1>u. /\ UNCHANGED <<entry, made, routeOf, held, busy, canceled, started, stopped, refs, starting,
                    tunerOf, ended, left>>
      /\ making' = [making EXCEPT ![k] = NoOne]
  BY <1>k DEF FinishCreate, castVars
<1>g. /\ making' \in [RouteKeys -> Acquirers \cup {NoOne}] /\ making'[k] = NoOne
      /\ \A j \in RouteKeys : j # k => making'[j] = making[j]
  BY <1>t, <1>u DEF LiveTypeOK
<1>m. /\ where' \in [Procs -> Wheres]
      /\ where'[c] = IF held[c] # NoOne THEN "have" ELSE "try"
      /\ \A q \in Procs : q # c =>
           \/ where'[q] = where[q] /\ (where[q] = "join" => Route(q).key # k)
           \/ where[q] = "join" /\ where'[q] = "try"
  BY <1>t, <1>k DEF FinishCreate, WakeJoiners, LiveTypeOK, Wheres
<1>s. /\ pos' \in [Acquirers -> Nat \ {0}] /\ \A b \in Acquirers : b # c => pos'[b] = pos[b]
  BY <1>t DEF FinishCreate, LiveTypeOK
<1>r. \A b \in Acquirers : b # c => (HasRoute(b))' = HasRoute(b) /\ Route(b)' = Route(b)
  BY <1>s DEF HasRoute, Route
<1>q. \A q \in Procs :
        /\ where'[q] \notin {"have", "try", "join"} => where'[q] = where[q] /\ q # c
        /\ where[q] \notin {"finish", "join"} => where'[q] = where[q]
        /\ where[q] \in {"acquire", "commit", "finish"} /\ q # c => where'[q] = where[q]
        /\ where'[q] = "join" => q # c /\ where[q] = "join" /\ Route(q).key # k
        /\ where'[q] = "have" => where[q] = "have" \/ held[q] # NoOne
  BY <1>t, <1>m
<1>h. ASSUME NEW b \in Acquirers, b # c, where[b] \in {"acquire", "commit", "finish"}
      PROVE  Route(b).key \in RouteKeys /\ Route(b).key # k
  <2>1. Route(b).key \in RouteKeys
    BY <1>t, <1>h, RouteKnown DEF LInv, LiveTypeOK, Made
  <2>2. making[Route(b).key] = b
    BY <1>h DEF LInv, Creators
  <2> QED BY <1>h, <1>i, <2>1, <2>2
<1>1. LiveTypeOK'
  BY <1>t, <1>u, <1>m, <1>g, <1>s DEF LiveTypeOK, Wheres
<1>2. NumbersLeft'
  <2>1. Claiming' \subseteq Claiming
    BY <1>t, <1>m, <1>q, <1>u DEF Claiming
  <2> QED BY <1>u, <2>1, NumbersFrame
<1>3. Made'
  <2>1. \A b \in Acquirers : where'[b] \in {"join", "acquire", "commit", "finish"} => (HasRoute(b))'
    BY <1>t, <1>q, <1>r DEF LInv, Made
  <2>2. \A q \in Procs :
          /\ held'[q] <= made'
          /\ where'[q] \in {"commit", "have", "starting", "streaming", "stop", "stopSource",
                            "onStop"} => held'[q] # NoOne
    BY <1>q, <1>u DEF LInv, Made
  <2>3. where'[Shut] \in {"idle", "stopping", "stop", "stopSource", "onStop"}
    BY <1>t, <1>q DEF LInv, Made, Procs
  <2>4. /\ \A j \in RouteKeys : entry'[j] # NoOne => entry'[j] <= made' /\ routeOf'[entry'[j]] = j
        /\ \A j \in started' \cup stopped' \cup starting' \cup left' : j <= made'
    BY <1>u DEF LInv, Made
  <2> QED BY <2>1, <2>2, <2>3, <2>4 DEF Made
<1>4. Creators'
  <2>1. ASSUME NEW b \in Acquirers
        PROVE  /\ where'[b] \in {"acquire", "commit", "finish"} => making'[Route(b)'.key] = b
               /\ where'[b] \in {"acquire", "commit"} => entry'[Route(b)'.key] = NoOne
               /\ where'[b] = "commit" => routeOf'[held'[b]] = Route(b)'.key
    BY <1>t, <1>q, <1>g, <1>h, <1>r, <1>u DEF LInv, Creators
  <2>2. ASSUME NEW b \in Acquirers, where'[b] = "commit"
        PROVE  /\ held'[b] \notin started' \cup stopped' \cup starting' \cup left'
               /\ \A j \in RouteKeys : entry'[j] # held'[b]
               /\ \A q \in Procs : q # b => held'[q] # held'[b]
    BY <1>t, <1>q, <1>u, <2>2 DEF LInv, Creators
  <2> QED BY <2>1, <2>2 DEF Creators
<1>5. /\ Starts' /\ Counted' /\ \A j \in Sources : StoppedBy(j)' = StoppedBy(j)
  BY <1>t, <1>q, <1>u, CreatorFrame
<1>6. Stops'
  <2>1. \A q \in Procs :
          /\ where'[q] \in {"stopSource", "onStop"} <=> where[q] \in {"stopSource", "onStop"}
          /\ where'[q] = "onStop" <=> where[q] = "onStop"
    BY <1>t, <1>q
  <2>2. \A b \in Acquirers : where'[b] = "commit" <=> where[b] = "commit"
    BY <1>t, <1>q
  <2> QED BY <1>u, <2>1, <2>2 DEF LInv, Stops
<1>7. TunersOwned' /\ StopsListed'
  <2>1. ASSUME NEW j \in Sources, tunerOf'[j] # NoOne
        PROVE  \/ entry'[routeOf'[j]] = j
               \/ \E b \in Acquirers : where'[b] = "commit" /\ held'[b] = j /\ making'[routeOf'[j]] = b
    <3>1. CASE entry[routeOf[j]] = j
      BY <1>u, <3>1
    <3>2. CASE entry[routeOf[j]] # j
      <4>1. PICK b \in Acquirers : where[b] = "commit" /\ held[b] = j /\ making[routeOf[j]] = b
        BY <1>u, <2>1, <3>2 DEF LInv, PoolMapExact
      <4>2. b # c /\ where'[b] = "commit" /\ routeOf[j] \in RouteKeys
        BY <1>t, <1>q, <4>1 DEF LiveTypeOK
      <4> QED BY <1>g, <1>i, <1>u, <4>1, <4>2
    <3> QED BY <3>1, <3>2
  <2>2. StopsListed'
    BY <1>q, <1>u DEF LInv, PoolMapExact, StopsListed
  <2> QED BY <2>1, <2>2 DEF TunersOwned
<1>8. Creations'
  <2>1. ASSUME NEW j \in RouteKeys, NEW b \in Acquirers, making'[j] = b
        PROVE  where'[b] \in {"acquire", "commit", "finish"} /\ Route(b)'.key = j
    <3>1. j # k /\ making[j] = b
      BY <1>g, <2>1, AcquirersFinite
    <3>2. where[b] \in {"acquire", "commit", "finish"} /\ Route(b).key = j
      BY <3>1, AcquirersFinite DEF LInv, PoolMapExact
    <3>3. b # c
      BY <1>k, <3>1, <3>2
    <3> QED BY <1>t, <1>q, <1>r, <3>2, <3>3
  <2>2. ASSUME NEW b \in Acquirers, where'[b] = "join" PROVE making'[Route(b)'.key] # NoOne
    <3>1. b # c /\ where[b] = "join" /\ Route(b).key # k /\ Route(b)' = Route(b)
      BY <1>t, <1>q, <1>r, <2>2
    <3>2. Route(b).key \in RouteKeys
      BY <1>t, <3>1, RouteKnown DEF LInv, LiveTypeOK, Made
    <3> QED BY <1>g, <3>1, <3>2 DEF LInv, PoolMapExact
  <2> QED BY <1>g, <2>1, <2>2 DEF Creations, Route
<1>9. Tended'
  BY <1>5, <1>u DEF LInv, NobodyWatchesNothing, Tended
<1> QED BY <1>1, <1>2, <1>3, <1>4, <1>5, <1>6, <1>7, <1>8, <1>9, Parts

-----------------------------------------------------------------------------

LEMMA InitLInv == LiveInit => LInv
<1> SUFFICES ASSUME LiveInit PROVE LInv
  OBVIOUS
<1>p. \A p \in Procs : where[p] = "idle" /\ held[p] = NoOne
  BY DEF LiveInit
<1>a. \A c \in Acquirers : c \in Procs
  BY DEF Procs
<1>1. LiveTypeOK
  <2>1. (CHOOSE k \in RouteKeys : TRUE) \in RouteKeys
    BY SomeRoute
  <2>2. Cardinality(Acquirers) \in Nat
    BY AcquirersFinite, FS_CardinalityType
  <2>3. /\ entry \in [RouteKeys -> Sources \cup {NoOne}]
        /\ making \in [RouteKeys -> Acquirers \cup {NoOne}]
        /\ made \in 0 .. MaxSources
        /\ routeOf \in [Sources -> RouteKeys]
        /\ tunerOf \in [Sources -> Tuners \cup {NoOne}]
    BY <2>1, LiveConstants DEF LiveInit
  <2>4. /\ refs \in [Sources -> 0 .. Cardinality(Acquirers)]
        /\ held \in [Procs -> Sources \cup {NoOne}] /\ pos \in [Acquirers -> Nat \ {0}]
    BY <2>2 DEF LiveInit
  <2> QED BY <2>3, <2>4 DEF LiveInit, LiveTypeOK
<1>2. NumbersLeft
  <2>1. Claiming = {}
    BY <1>p, <1>a DEF Claiming
  <2> QED BY <2>1, FS_EmptySet, LiveConstants DEF LiveInit, NumbersLeft
<1>3. Made /\ Creators /\ Starts
  BY <1>p, <1>a DEF LiveInit, Made, Creators, Starts, Procs, NoOne
<1>4. Stops
  BY <1>p, <1>a DEF LiveInit, Stops, Sources
<1>5. PoolMapExact
  BY <1>p, <1>a DEF LiveInit, PoolMapExact
<1>6. NobodyWatchesNothing
  <2>1. \A n \in Sources : Attached(n) = {}
    BY <1>p, <1>a DEF Attached
  <2> QED BY <2>1, FS_EmptySet DEF LiveInit, NobodyWatchesNothing
<1> QED BY <1>1, <1>2, <1>3, <1>4, <1>5, <1>6 DEF LInv

LEMMA NextLInv == LInv /\ [LiveNext]_liveVars => LInv'
<1> SUFFICES ASSUME LInv, [LiveNext]_liveVars PROVE LInv'
  OBVIOUS
<1>1. ASSUME NEW c \in Acquirers, CallerStep(c) PROVE LInv'
  BY <1>1, RouteSteps, BeginShares, BeginCreatesStep, ReserveDeviceStep, ReserveFailsStep,
     CommitStep, FinishCreateStep, WatcherSteps DEF CallerStep
<1>2. ASSUME NEW c \in Acquirers,
             AcquireInput(c) \/ Attach(c) \/ ReleaseHandle(c) \/ ContextEnds(c)
      PROVE  LInv'
  BY <1>2, AcquireInputStep, AttachStep, RouteSteps, ContextEndsStep
<1>3. ASSUME NEW p \in Procs, StopStep(p) PROVE LInv'
  BY <1>3, StopBeginsStep, StopSourceStep, BroadcastOnStopStep DEF StopStep
<1>4. CASE \E n \in Sources : SourceEnds(n)
  BY <1>4, SourceEndsStep
<1>5. CASE ShutdownPool \/ ShutdownNext
  BY <1>5, ShutdownSteps
<1>6. CASE UNCHANGED liveVars
  BY <1>6, ContextEndsStep
<1> QED BY <1>1, <1>2, <1>3, <1>4, <1>5, <1>6 DEF LiveNext

\* The invariant holds in every reachable state of the pool, for any number of callers,
\* routes, tuners and sources.
THEOREM LiveInductive == LiveSpec => []LInv
<1> QED BY InitLInv, NextLInv, PTL DEF LiveSpec

\* The pool, its broadcasts and its callers keep to the states they are declared to have;
\* refs never exceeds the number of callers and never falls below zero.
THEOREM LiveTypes == LiveSpec => []LiveTypeOK
<1>1. LInv => LiveTypeOK
  BY DEF LInv
<1> QED BY <1>1, LiveInductive, PTL

\* Every reserved tuner is listed under its route or about to be, a stopping broadcast stays
\* listed until removeRouteSource deletes it and nothing else, and whoever waits for a
\* creation waits for one that is under way.
THEOREM PoolIsExact == LiveSpec => []PoolMapExact
<1>1. LInv => PoolMapExact
  BY DEF LInv
<1> QED BY <1>1, LiveInductive, PTL

\* refs counts the subscribers exactly, and a started broadcast without one is stopped or
\* being stopped.
THEOREM SubscribersAreCounted == LiveSpec => []NobodyWatchesNothing
<1>1. LInv => NobodyWatchesNothing
  BY DEF LInv
<1> QED BY <1>1, LiveInductive, PTL
=============================================================================
