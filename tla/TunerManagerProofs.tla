------------------------- MODULE TunerManagerProofs -------------------------
(***************************************************************************)
(* Proofs about TunerManager, for every configuration and every number of  *)
(* clients, administrators and viewers.                                    *)
(***************************************************************************)
EXTENDS TunerManager, TLAPS, FiniteSetTheorems, WellFoundedInduction

-----------------------------------------------------------------------------
(* Choosing from finite sets                                               *)

\* A nonempty set of natural numbers has a least element.
LEMMA LeastNatural ==
    ASSUME NEW N \in SUBSET Nat, N # {}
    PROVE  \E n \in N : \A m \in N : n <= m
<1> DEFINE R == OpToRel(<, Nat)
<1>1. IsWellFoundedOn(R, Nat)
  BY NatLessThanWellFounded
<1>2. \A m, n \in Nat : <<m, n>> \in R <=> m < n
  BY DEF OpToRel
<1> HIDE DEF R
<1>3. PICK n \in N : \A m \in N : ~(<<m, n>> \in R)
  BY <1>1, WFMin
<1>4. \A m \in N : ~(m < n)
  BY <1>2, <1>3
<1>5. n \in Nat /\ \A m \in N : m \in Nat
  OBVIOUS
<1> QED
  BY <1>4, <1>5

\* An integer function on a nonempty finite set takes its minimum: what the
\* running minimum of betterGrabCandidate and the first hit of a scan rest on.
LEMMA MinimalElement ==
    ASSUME NEW S, IsFiniteSet(S), S # {}, NEW f \in [S -> Int]
    PROVE  \E s \in S : \A u \in S : f[s] <= f[u]
<1> DEFINE HasMin(U) == \E s \in U : \A u \in U : f[s] <= f[u]
           Bad == {n \in Nat : \E U \in SUBSET S : U # {} /\ Cardinality(U) = n /\ ~HasMin(U)}
<1> SUFFICES ASSUME ~HasMin(S) PROVE FALSE
  OBVIOUS
<1>1. Cardinality(S) \in Bad
  BY FS_CardinalityType
<1>2. PICK n \in Bad : \A m \in Bad : n <= m
  <2> HIDE DEF Bad
  <2>1. Bad \in SUBSET Nat
    BY DEF Bad
  <2> QED
    BY <1>1, <2>1, LeastNatural
<1>3. PICK U \in SUBSET S : U # {} /\ Cardinality(U) = n /\ ~HasMin(U)
  OBVIOUS
<1>4. PICK x : x \in U
  BY <1>3
<1>5. IsFiniteSet(U)
  BY FS_Subset
<1>6. IsFiniteSet(U \ {x}) /\ Cardinality(U \ {x}) = n - 1
  BY <1>3, <1>4, <1>5, FS_RemoveElement
<1>7. n - 1 \in Nat
  BY <1>6, FS_CardinalityType
<1>8. HasMin(U \ {x}) \/ U \ {x} = {}
  <2>1. n - 1 \notin Bad
    BY <1>2, <1>7
  <2> QED
    BY <1>6, <1>7, <2>1
<1>9. CASE U \ {x} = {}
  <2>1. \A u \in U : u = x
    BY <1>9
  <2>2. f[x] \in Int
    BY <1>4
  <2> QED
    BY <2>1, <2>2, <1>3, <1>4
<1>10. CASE HasMin(U \ {x})
  <2>1. PICK s \in U \ {x} : \A u \in U \ {x} : f[s] <= f[u]
    BY <1>10
  <2>2. f[s] \in Int /\ f[x] \in Int /\ \A u \in U : f[u] \in Int
    BY <1>4
  <2>3. CASE f[s] <= f[x]
    BY <2>1, <2>3, <1>3
  <2>4. CASE f[x] <= f[s]
    BY <2>1, <2>2, <2>4, <1>3, <1>4
  <2> QED
    BY <2>2, <2>3, <2>4
<1> QED
  BY <1>8, <1>9, <1>10

\* tryAcquireLocked's scan returns one of the tuners it looks for.
LEMMA ScanChooses ==
    ASSUME TypeOK, NEW ty \in Types, NEW S \in SUBSET Tuners, S # {}
    PROVE  FirstInScan(ty, S) \in S
<1> DEFINE f == [t \in S |-> ScanOffset(ty, t)]
<1>1. IsFiniteSet(S)
  <2>1. 0 \in Int /\ NumTuners - 1 \in Int
    BY TunersConfigured
  <2>2. IsFiniteSet(0 .. NumTuners - 1)
    BY <2>1, FS_Interval
  <2> QED
    BY <2>2, FS_Subset DEF Tuners
<1>2. \A t \in S : ScanOffset(ty, t) \in Int
  <2> TAKE t \in S
  <2>1. t \in Int /\ nextByType[ty] \in Int /\ NumTuners \in Int /\ NumTuners > 0
    BY TunersConfigured DEF TypeOK, Tuners
  <2> QED
    BY <2>1 DEF ScanOffset
<1>3. f \in [S -> Int]
  BY <1>2
<1>4. PICK s \in S : \A u \in S : f[s] <= f[u]
  <2> HIDE DEF f
  <2> QED
    BY <1>1, <1>3, MinimalElement
<1>5. \A u \in S : ScanOffset(ty, s) <= ScanOffset(ty, u)
  BY <1>4
<1> QED
  BY <1>5 DEF FirstInScan

\* effectivePriority is a number: the maximum it looks for exists.
LEMMA EffectivePriorityType ==
    ASSUME TypeOK, NEW t \in Tuners
    PROVE  EffectivePriority(t) \in Int
<1> DEFINE V == {w \in Viewers : users[t][w] > 0}
           P == {Priority[v] : v \in V}
           S == {reserved[t]} \cup P
<1>1. IsFiniteSet(P)
  <2> DEFINE g == [v \in V |-> Priority[v]]
  <2>1. IsFiniteSet(V)
    BY RequestsTyped, FS_Subset
  <2>2. g \in Surjection(V, P)
    BY DEF Surjection
  <2> HIDE DEF g, V, P
  <2> QED
    BY <2>1, <2>2, FS_Surjection
<1>2. IsFiniteSet(S)
  <2> HIDE DEF P
  <2>1. S = P \cup {reserved[t]}
    OBVIOUS
  <2> QED
    BY <1>1, <2>1, FS_AddElement
<1>3. S # {} /\ \A x \in S : x \in Int
  BY RequestsTyped DEF TypeOK
<1>4. EffectivePriority(t) = Max(S)
  BY DEF EffectivePriority
<1> HIDE DEF S
<1> DEFINE f == [x \in S |-> -x]
<1>5. f \in [S -> Int]
  BY <1>3
<1>6. PICK s \in S : \A u \in S : f[s] <= f[u]
  <2> HIDE DEF f
  <2> QED
    BY <1>2, <1>3, <1>5, MinimalElement
<1>7. \A u \in S : s >= u
  BY <1>3, <1>6
<1> QED
  BY <1>3, <1>4, <1>7 DEF Max

\* When some tuner may be grabbed, betterGrabCandidate finds one of them.
LEMMA GrabChooses ==
    ASSUME TypeOK, NEW ty \in Types, NEW p, Grabbable(ty, p) # {}
    PROVE  BetterGrabCandidate(ty, p) \in Grabbable(ty, p)
<1> DEFINE G == Grabbable(ty, p)
           f == [t \in G |-> EffectivePriority(t)]
           Lowest == {t \in G : \A u \in G : EffectivePriority(t) <= EffectivePriority(u)}
<1>1. G \subseteq Tuners
  BY DEF Grabbable, Healthy, Found
<1>2. IsFiniteSet(G)
  <2>1. 0 \in Int /\ NumTuners - 1 \in Int
    BY TunersConfigured
  <2>2. IsFiniteSet(0 .. NumTuners - 1)
    BY <2>1, FS_Interval
  <2> QED
    BY <1>1, <2>2, FS_Subset DEF Tuners
<1>3. f \in [G -> Int]
  BY <1>1, EffectivePriorityType
<1>4. PICK s \in G : \A u \in G : f[s] <= f[u]
  <2> HIDE DEF f, G
  <2>1. G # {}
    BY DEF G
  <2> QED
    BY <1>2, <1>3, <2>1, MinimalElement
<1>5. s \in Lowest
  BY <1>4
<1>6. Lowest \in SUBSET Tuners /\ Lowest # {}
  BY <1>1, <1>5
<1>7. BetterGrabCandidate(ty, p) = FirstInScan(ty, Lowest)
  BY DEF BetterGrabCandidate
<1> QED
  <2> HIDE DEF Lowest
  <2>1. FirstInScan(ty, Lowest) \in Lowest
    BY <1>6, ScanChooses
  <2> QED
    BY <1>7, <2>1 DEF Lowest

-----------------------------------------------------------------------------
(* The inductive invariant                                                 *)

StopPCs == {"stopCall", "stopping", "stopped"}

\* A client between reserving its device and marking the tuner running.
StartPCs == {"reserved", "starting", "spawning", "spawned", "probing", "unwinding",
             "retrying", "failing", "started"}

OwnerPCs == StartPCs \cup {"releasing", "streaming", "closing"}

\* Devices are named before they are used, and each has one owner.
KnownDevices ==
    /\ released \cup watched \cup tracked \subseteq 1 .. lastDevice
    /\ \A t \in Tuners : t \notin inUse => device[t] = NoDevice
    /\ \A a \in Actors : pc[a] \in StopPCs => call[a].dev \in 1 .. lastDevice
    /\ \A c \in Clients : /\ mine[c] \in 0 .. lastDevice
                          /\ pc[c] \in OwnerPCs => mine[c] # NoDevice
                          /\ \A b \in Clients : mine[b] = mine[c] /\ b # c => mine[c] = NoDevice
    /\ \A a \in Admins : pc[a] \in StopPCs \cup {"idle"}

\* A grabber's victim is released only after the grabber captured the changed
\* channel, so the release closes it.
GrabsWake ==
    \A c \in Clients : pc[c] \in StopPCs /\ mine[c] = NoDevice =>
        c \in woken \/ call[c].dev \notin released

\* A recorded process belongs to a start that is past its spawn.
TrackedPastSpawn ==
    \A c \in Clients : mine[c] \in tracked =>
        pc[c] \in StopPCs \cup {"probing", "started", "streaming"}

\* After a Stop read a process no further one is started for its device.
NoSpawnAfterStop ==
    \A a \in Actors : pc[a] \in {"stopping", "stopped"} /\ call[a].saw > 0 =>
        /\ call[a].saw = attempt[call[a].dev]
        /\ call[a].dev \in stopping
        /\ \A c \in Clients : mine[c] = call[a].dev =>
              /\ pc[c] \notin {"reserved", "spawning", "spawned"}
              /\ pc[c] = "starting" => Retries(mine[c])

\* Where a start has no process of its own.
BetweenAttempts == {"reserved", "starting", "spawning", "retrying"}

\* A process that its device has left behind, by another start attempt, by a Stop
\* that gave it up or between two attempts, is one that could not be signalled.
OnlyRefusedLeft ==
    /\ \A p \in alive :
            p[2] \in 1 .. attempt[p[1]] /\ (p[2] = attempt[p[1]] \/ p \in refused)
    /\ \A c \in Clients : pc[c] \in BetweenAttempts =>
            \A p \in alive : p[1] = mine[c] => p \in refused
    /\ \A d \in Devices : d \notin 1 .. lastDevice => attempt[d] = 0
    /\ \A a \in Actors :
            /\ pc[a] = "stopCall" => ~call[a].err
            /\ pc[a] = "stopping" /\ call[a].err /\ Victim(a) \in alive => Victim(a) \in refused

\* The done channel exists from the start's beginning until it fails, and only
\* a start with retries probes its process.
DoneIsMade ==
    /\ \A c \in Clients :
        \/ pc[c] \in {"starting", "spawning", "spawned", "probing", "retrying", "started"}
        \/ pc[c] = "unwinding" /\ Retries(mine[c])
        => done[mine[c]] # "nil"
    /\ \A c \in Clients :
        pc[c] \in {"spawning", "spawned", "probing", "retrying"} => Retries(mine[c])

\* Nothing is marked before markRunning, and only the completion marks after.
UnmarkedBefore ==
    /\ \A c \in Clients : pc[c] \in StartPCs /\ Current(mine[c]) =>
            tunerOf[mine[c]] \notin running \cup stopped \cup fault
    /\ \A d \in watched : Current(d) => tunerOf[d] \notin stopped \cup fault
    /\ \A c \in Clients : mine[c] \in watched =>
            pc[c] \in StopPCs \cup {"streaming"}

AllocationInv == ReservationExclusive /\ KnownDevices /\ GrabsWake /\ NoLostWakeup

ProcessInv ==
    TrackedPastSpawn /\ NoSpawnAfterStop /\ StopEndsProcess /\ OnlyRefusedLeft /\ DoneIsMade

StatusInv == UnmarkedBefore /\ StatusBelongsToReservation

IInv == TypeOK /\ AllocationInv /\ ProcessInv /\ StatusInv

\* A client that owns a device owns one that was handed out.
LEMMA OwnsDevice ==
    ASSUME IInv, NEW c \in Clients, pc[c] \in OwnerPCs
    PROVE  mine[c] \in 1 .. lastDevice /\ mine[c] \in Devices /\ c \in Actors
<1>1. mine[c] \in 1 .. lastDevice
  BY DEF IInv, TypeOK, AllocationInv, KnownDevices, NoDevice
<1> QED
  BY <1>1, BoundsAreNatural DEF IInv, TypeOK, Devices, Actors

\* So has the caller of a Stop.
LEMMA CallsDevice ==
    ASSUME IInv, NEW a \in Actors, pc[a] \in StopPCs
    PROVE  call[a].dev \in 1 .. lastDevice /\ call[a].dev \in Devices
<1>1. call[a].dev \in 1 .. lastDevice
  BY DEF IInv, AllocationInv, KnownDevices
<1> QED
  BY <1>1, BoundsAreNatural DEF IInv, TypeOK, Devices

\* What releaseOnce does to a consistent allocation.
LEMMA ReleaseStep ==
    ASSUME IInv, NEW d \in 1 .. lastDevice, ReleaseOnce(d), UNCHANGED <<lastDevice, tunerOf>>
    PROVE  /\ inUse' \subseteq Tuners /\ running' \subseteq Tuners
           /\ stopped' \subseteq Tuners /\ fault' \subseteq Tuners
           /\ reserved' \in [Tuners -> Int]
           /\ device' \in [Tuners -> Devices \cup {NoDevice}]
           /\ users' \in [Tuners -> [Viewers -> Nat]]
           /\ woken' \subseteq Clients
           /\ released' = released \cup {d}
           /\ ReservationExclusive'
           /\ \A t \in Tuners : t \notin inUse' => device'[t] = NoDevice
           /\ inUse' \subseteq inUse
           /\ running' \subseteq running /\ stopped' \subseteq stopped /\ fault' \subseteq fault
           /\ \A t \in inUse' : device'[t] = device[t] /\ device[t] # d
           /\ running' \cup stopped' \cup fault' \subseteq inUse'
           /\ d \notin released => woken' = Clients
           /\ d \in released => UNCHANGED <<inUse, running, stopped, fault, device, woken>>
           /\ d \notin released => \E t \in Tuners :
                 /\ t = tunerOf[d] /\ device[t] = d
                 /\ inUse' = inUse \ {t} /\ running' = running \ {t}
                 /\ stopped' = stopped \ {t} /\ fault' = fault \ {t}
                 /\ device' = [device EXCEPT ![t] = NoDevice]
<1>1. d \in Devices /\ lastDevice \in Nat
  BY BoundsAreNatural DEF IInv, TypeOK, Devices
<1>2. CASE d \in released
  BY <1>1, <1>2 DEF IInv, TypeOK, AllocationInv, KnownDevices, ReservationExclusive, ReleaseOnce,
                    StatusInv, StatusBelongsToReservation
<1>3. CASE d \notin released
  <2> DEFINE t == tunerOf[d]
  <2>1. t \in Tuners /\ t \in inUse /\ device[t] = d
    BY <1>1, <1>3 DEF IInv, TypeOK, AllocationInv, ReservationExclusive
  <2>2. /\ inUse' = inUse \ {t} /\ running' = running \ {t}
        /\ stopped' = stopped \ {t} /\ fault' = fault \ {t}
        /\ reserved' = [reserved EXCEPT ![t] = 0]
        /\ device' = [device EXCEPT ![t] = NoDevice]
        /\ users' = [users EXCEPT ![t] = [v \in Viewers |-> 0]]
        /\ woken' = Clients /\ released' = released \cup {d}
    BY <1>3, <2>1 DEF ReleaseOnce, Release, ResetReservation
  <2>3. ReservationExclusive'
    BY <1>1, <1>3, <2>1, <2>2 DEF IInv, TypeOK, AllocationInv, ReservationExclusive
  <2>4. \A u \in Tuners : u \notin inUse' => device'[u] = NoDevice
    BY <2>1, <2>2 DEF IInv, TypeOK, AllocationInv, KnownDevices
  <2>5. /\ reserved' \in [Tuners -> Int]
        /\ device' \in [Tuners -> Devices \cup {NoDevice}]
        /\ users' \in [Tuners -> [Viewers -> Nat]]
    <3>1. reserved' \in [Tuners -> Int]
      BY <2>1, <2>2 DEF IInv, TypeOK
    <3>2. device' \in [Tuners -> Devices \cup {NoDevice}]
      BY <2>2 DEF IInv, TypeOK
    <3>3. [v \in Viewers |-> 0] \in [Viewers -> Nat]
      OBVIOUS
    <3>4. users' \in [Tuners -> [Viewers -> Nat]]
      BY <2>2, <3>3 DEF IInv, TypeOK
    <3> QED BY <3>1, <3>2, <3>4
  <2>6. \A u \in inUse' : device'[u] = device[u] /\ device[u] # d
    BY <2>1, <2>2 DEF IInv, TypeOK, AllocationInv, ReservationExclusive
  <2>7. running' \cup stopped' \cup fault' \subseteq inUse'
    BY <2>2 DEF IInv, StatusInv, StatusBelongsToReservation
  <2> QED
    BY <1>3, <2>1, <2>2, <2>3, <2>4, <2>5, <2>6, <2>7 DEF IInv, TypeOK
<1> QED
  BY <1>2, <1>3

\* A step that forgets marks, and the devices they are about, keeps the rest.
LEMMA FewerMarks ==
    ASSUME IInv, UNCHANGED <<done, failed>>,
           running' \subseteq running, stopped' \subseteq stopped, fault' \subseteq fault,
           running' \cup stopped' \cup fault' \subseteq inUse', inUse' \subseteq inUse,
           \A t \in inUse' : device'[t] = device[t],
           \A c \in Clients, t \in fault' : pc[c] = "releasing" /\ mine[c] = device[t] =>
                pc'[c] = "releasing" /\ mine'[c] = mine[c]
    PROVE  StatusBelongsToReservation'
<1>1. \A t \in running' : done'[device'[t]] # "nil"
  BY DEF IInv, StatusInv, StatusBelongsToReservation
<1>2. \A t \in stopped' : done'[device'[t]] = "closed" /\ device'[t] \notin failed'
  BY DEF IInv, StatusInv, StatusBelongsToReservation
<1>3. \A t \in fault' : \/ done'[device'[t]] = "closed" /\ device'[t] \in failed'
                        \/ \E c \in Clients : mine'[c] = device'[t] /\ pc'[c] = "releasing"
  BY DEF IInv, StatusInv, StatusBelongsToReservation
<1>4. running' \cap stopped' = {} /\ running' \cap fault' = {} /\ stopped' \cap fault' = {}
  BY DEF IInv, StatusInv, StatusBelongsToReservation
<1> QED
  BY <1>1, <1>2, <1>3, <1>4 DEF StatusBelongsToReservation

\* Until its start is reported a device has no mark.
LEMMA UnmarkedDevice ==
    ASSUME IInv, NEW c \in Clients, pc[c] \in StartPCs
    PROVE  \A t \in running \cup stopped \cup fault : device[t] # mine[c]
<1>1. \A t \in running \cup stopped \cup fault :
        t \in Tuners /\ t \in inUse /\ tunerOf[device[t]] = t
  BY DEF IInv, TypeOK, AllocationInv, ReservationExclusive, StatusInv, StatusBelongsToReservation
<1> QED
  BY <1>1 DEF IInv, StatusInv, UnmarkedBefore, Current

\* A step that neither reserves nor releases and starts no wait keeps the
\* allocation consistent.
LEMMA SameAllocation ==
    ASSUME IInv, UNCHANGED <<inUse, device, lastDevice, tunerOf, released, mine, woken>>,
           fault \subseteq fault', watched' \cup tracked' \subseteq 1 .. lastDevice,
           \A a \in Actors : pc'[a] \in StopPCs => pc[a] \in StopPCs /\ call'[a].dev = call[a].dev,
           \A c \in Clients : /\ pc'[c] \in OwnerPCs => pc[c] \in OwnerPCs
                              /\ pc'[c] \in {"waiting", "grabWait"} => pc'[c] = pc[c],
           \A a \in Admins : pc'[a] = pc[a] \/ pc'[a] \in StopPCs
    PROVE  AllocationInv'
<1>1. ReservationExclusive'
  BY DEF IInv, AllocationInv, ReservationExclusive
<1>2. KnownDevices'
  BY DEF IInv, AllocationInv, KnownDevices
<1>3. GrabsWake'
  BY DEF IInv, AllocationInv, GrabsWake, Actors
<1>4. NoLostWakeup'
  BY DEF IInv, AllocationInv, NoLostWakeup, Free, Healthy
<1> QED BY <1>1, <1>2, <1>3, <1>4 DEF AllocationInv

\* A step that starts no process and forgets no refusal leaves no other process
\* behind.
LEMMA KeepsRefused ==
    ASSUME IInv, UNCHANGED <<attempt, lastDevice>>,
           alive' \subseteq alive, alive' \cap refused \subseteq refused',
           \A c \in Clients : pc'[c] \in BetweenAttempts =>
                pc[c] \in BetweenAttempts /\ mine'[c] = mine[c],
           \A a \in Actors : pc'[a] \in {"stopCall", "stopping"} =>
                /\ call'[a].err = call[a].err
                /\ \/ pc[a] = "stopCall"
                   \/ pc'[a] = pc[a] /\ call'[a] = call[a]
    PROVE  OnlyRefusedLeft'
<1>1. \A p \in alive' :
          p[2] \in 1 .. attempt'[p[1]] /\ (p[2] = attempt'[p[1]] \/ p \in refused')
  BY DEF IInv, ProcessInv, OnlyRefusedLeft
<1>2. \A c \in Clients : pc'[c] \in BetweenAttempts =>
          \A p \in alive' : p[1] = mine'[c] => p \in refused'
  BY DEF IInv, ProcessInv, OnlyRefusedLeft
<1>3. \A d \in Devices : d \notin 1 .. lastDevice' => attempt'[d] = 0
  BY DEF IInv, ProcessInv, OnlyRefusedLeft
<1>4. \A a \in Actors :
          /\ pc'[a] = "stopCall" => ~call'[a].err
          /\ pc'[a] = "stopping" /\ call'[a].err /\ Victim(a)' \in alive' => Victim(a)' \in refused'
  BY DEF IInv, ProcessInv, OnlyRefusedLeft, Victim
<1> QED BY <1>1, <1>2, <1>3, <1>4 DEF OnlyRefusedLeft

\* The next attempt of a start begins when the earlier ones have left nothing
\* behind that could be signalled.
LEMMA NewAttempt ==
    ASSUME IInv, NEW c \in Clients, pc[c] \in BetweenAttempts, mine[c] \in 1 .. lastDevice,
           UNCHANGED <<mine, call, lastDevice, refused>>,
           attempt' = [attempt EXCEPT ![mine[c]] = @ + 1],
           \/ alive' = alive
           \/ /\ alive' = alive \cup {<<mine[c], attempt[mine[c]] + 1>>}
              /\ pc'[c] \notin BetweenAttempts,
           pc'[c] \in StartPCs,
           \A a \in Actors : a # c => pc'[a] = pc[a]
    PROVE  OnlyRefusedLeft'
<1> DEFINE d == mine[c]
           n == attempt[d] + 1
<1>1. d \in Devices /\ attempt[d] \in Nat /\ d # NoDevice /\ alive \subseteq Devices \X Nat
  BY OwnsDevice DEF IInv, TypeOK, OwnerPCs, StartPCs, BetweenAttempts, NoDevice
<1>2. attempt'[d] = n /\ n \in Nat /\ n >= 1 /\ \A e \in Devices : e # d => attempt'[e] = attempt[e]
  BY <1>1 DEF IInv, TypeOK
<1>3. alive' \subseteq alive \cup {<<d, n>>}
  OBVIOUS
<1>4. \A p \in alive : p[1] = d => p \in refused
  BY DEF IInv, ProcessInv, OnlyRefusedLeft
<1>5. \A p \in alive : p[1] \in Devices /\ p[2] \in Nat /\ p = <<p[1], p[2]>>
  BY <1>1
<1>6. \A b \in Clients : b # c /\ pc[b] \in BetweenAttempts => mine[b] # d
  BY DEF IInv, AllocationInv, KnownDevices, OwnerPCs, StartPCs, BetweenAttempts
<1>7. \A a \in Actors : pc'[a] \in {"stopCall", "stopping"} => pc'[a] = pc[a] /\ Victim(a)' = Victim(a)
  BY DEF StartPCs, Victim
<1>8. \A a \in Actors : pc[a] = "stopping" => Victim(a) # <<d, n>>
  <2> SUFFICES ASSUME NEW a \in Actors, pc[a] = "stopping", call[a].dev = d, call[a].saw = n
               PROVE  FALSE
    BY DEF Victim
  <2> QED BY <1>1, <1>2 DEF IInv, ProcessInv, NoSpawnAfterStop
<1> HIDE DEF n, d
<1>9. \A p \in alive' :
          p[2] \in 1 .. attempt'[p[1]] /\ (p[2] = attempt'[p[1]] \/ p \in refused')
  <2> SUFFICES ASSUME NEW p \in alive'
               PROVE  p[2] \in 1 .. attempt'[p[1]] /\ (p[2] = attempt'[p[1]] \/ p \in refused')
    OBVIOUS
  <2>1. CASE p = <<d, n>>
    BY <1>2, <2>1
  <2>2. CASE p \in alive /\ p[1] = d
    <3>1. p[2] \in 1 .. attempt[d]
      BY <2>2 DEF IInv, ProcessInv, OnlyRefusedLeft
    <3> QED BY <1>1, <1>2, <1>4, <2>2, <3>1 DEF n
  <2>3. CASE p \in alive /\ p[1] # d
    BY <1>2, <1>5, <2>3 DEF IInv, ProcessInv, OnlyRefusedLeft
  <2> QED BY <1>3, <2>1, <2>2, <2>3
<1>10. \A b \in Clients : pc'[b] \in BetweenAttempts =>
          \A p \in alive' : p[1] = mine'[b] => p \in refused'
  <2> SUFFICES ASSUME NEW b \in Clients, pc'[b] \in BetweenAttempts,
                      NEW p \in alive', p[1] = mine'[b]
               PROVE  p \in refused'
    OBVIOUS
  <2>1. CASE b = c
    BY <1>4, <2>1 DEF d
  <2>2. CASE b # c
    <3>1. pc[b] \in BetweenAttempts /\ mine[b] # d
      BY <1>6, <2>2 DEF Actors
    <3>2. p \in alive
      BY <1>3, <3>1
    <3> QED BY <3>1, <3>2 DEF IInv, ProcessInv, OnlyRefusedLeft
  <2> QED BY <2>1, <2>2
<1>11. \A e \in Devices : e \notin 1 .. lastDevice' => attempt'[e] = 0
  BY <1>2 DEF IInv, ProcessInv, OnlyRefusedLeft, d
<1>12. \A a \in Actors :
          /\ pc'[a] = "stopCall" => ~call'[a].err
          /\ pc'[a] = "stopping" /\ call'[a].err /\ Victim(a)' \in alive' => Victim(a)' \in refused'
  BY <1>3, <1>7, <1>8 DEF IInv, ProcessInv, OnlyRefusedLeft
<1> QED BY <1>9, <1>10, <1>11, <1>12 DEF OnlyRefusedLeft

\* A step that starts, records and stops no process keeps the processes
\* consistent.
LEMMA SameProcesses ==
    ASSUME IInv, UNCHANGED <<tracked, attempt, stopping, tunerOf, mine, call, lastDevice>>,
           alive' \subseteq alive, alive' \cap refused \subseteq refused',
           \A d \in Devices : done[d] # "nil" => done'[d] # "nil",
           \A a \in Actors : pc'[a] = pc[a] \/ pc[a] \notin StopPCs \cup OwnerPCs,
           \A a \in Actors : pc'[a] = pc[a] \/ pc'[a] \in {"idle", "waiting"}
    PROVE  ProcessInv'
<1>1. \A c \in Clients : pc'[c] \in StartPCs => pc'[c] = pc[c] /\ mine[c] \in Devices
  BY OwnsDevice DEF Actors, StartPCs, OwnerPCs
<1>2. TrackedPastSpawn'
  BY DEF IInv, ProcessInv, TrackedPastSpawn, Actors, StopPCs, OwnerPCs, StartPCs
<1>3. NoSpawnAfterStop'
  BY DEF IInv, ProcessInv, NoSpawnAfterStop, Actors, Retries
<1>4. StopEndsProcess'
  BY DEF IInv, ProcessInv, StopEndsProcess, Victim
<1>5. DoneIsMade'
  BY <1>1 DEF IInv, ProcessInv, DoneIsMade, Retries, StartPCs
<1>6. OnlyRefusedLeft'
  BY KeepsRefused DEF BetweenAttempts, Actors
<1> QED BY <1>2, <1>3, <1>4, <1>5, <1>6 DEF ProcessInv

\* A step that marks nothing and does not undo a completion keeps the status.
LEMMA SameStatus ==
    ASSUME IInv, UNCHANGED <<running, stopped, fault, inUse, device, tunerOf, watched, mine>>,
           \A c \in Clients :
              /\ pc'[c] \in StartPCs => pc[c] \in StartPCs
              /\ pc[c] \in StopPCs \cup {"streaming"} => pc'[c] \in StopPCs \cup {"streaming"}
              /\ pc[c] = "releasing" => pc'[c] = "releasing",
           \A t \in running \cup stopped \cup fault :
              /\ done[device[t]] # "nil" => done'[device[t]] # "nil"
              /\ done[device[t]] = "closed" =>
                    /\ done'[device[t]] = "closed"
                    /\ device[t] \in failed' <=> device[t] \in failed
    PROVE  StatusInv'
<1>1. UnmarkedBefore'
  BY DEF IInv, StatusInv, UnmarkedBefore, Current
<1>2. StatusBelongsToReservation'
  BY DEF IInv, StatusInv, StatusBelongsToReservation
<1> QED BY <1>1, <1>2 DEF StatusInv

\* A free tuner is reserved for a new device.
LEMMA AcquireFreeStep ==
    ASSUME IInv, NEW c \in Clients, AcquireFree(c),
           pc[c] \in {"idle", "waiting", "grabWait"}
    PROVE  IInv'
<1> DEFINE ty == Request[c].type
           t == FirstInScan(ty, Free(ty))
           d == lastDevice + 1
<1>1. ty \in Types /\ Request[c].priority \in Int /\ c \in Actors /\ c \notin Admins
  BY RequestsTyped DEF Actors
<1>2. t \in Free(ty)
  <2>1. Free(ty) \in SUBSET Tuners /\ Free(ty) # {}
    BY DEF AcquireFree, Free, Healthy, Found
  <2> QED
    BY <1>1, <2>1, ScanChooses DEF IInv
<1>3. t \in Tuners /\ t \notin inUse /\ t \notin fault
  BY <1>2 DEF Free, Healthy, Found
<1>4. d \in Devices /\ d # NoDevice /\ d \notin 1 .. lastDevice /\ lastDevice \in Nat
  BY BoundsAreNatural DEF IInv, TypeOK, AcquireFree, Devices, NoDevice
<1>5. /\ inUse' = inUse \cup {t} /\ running' = running \ {t} /\ stopped' = stopped \ {t}
      /\ reserved' = [reserved EXCEPT ![t] = Request[c].priority]
      /\ device' = [device EXCEPT ![t] = d] /\ tunerOf' = [tunerOf EXCEPT ![d] = t]
      /\ lastDevice' = d /\ mine' = [mine EXCEPT ![c] = d]
      /\ nextByType' = [nextByType EXCEPT ![ty] = NextIndex(t)]
      /\ pc' = [pc EXCEPT ![c] = "reserved"]
      /\ UNCHANGED <<fault, users, released, watched, processVars, call, woken, refs>>
  BY DEF AcquireFree, ReserveLocked, Goto
<1>6. NextIndex(t) \in Tuners
  BY <1>3, TunersConfigured DEF NextIndex, Tuners
<1> HIDE DEF ty, t, d
<1>7. TypeOK'
  <2>1. lastDevice' \in 0 .. MaxDevices
    BY <1>4, <1>5 DEF Devices
  <2>2. /\ device' \in [Tuners -> Devices \cup {NoDevice}]
        /\ tunerOf' \in [Devices -> Tuners]
        /\ mine' \in [Clients -> Devices \cup {NoDevice}]
    BY <1>3, <1>4, <1>5 DEF IInv, TypeOK
  <2>3. /\ reserved' \in [Tuners -> Int] /\ nextByType' \in [Types -> Tuners]
        /\ pc' \in [Actors -> PCs]
    BY <1>1, <1>3, <1>5, <1>6 DEF IInv, TypeOK, PCs
  <2> QED
    BY <1>3, <1>5, <2>1, <2>2, <2>3 DEF IInv, TypeOK, processVars
<1>8. \A e \in 1 .. lastDevice : e # d /\ tunerOf'[e] = tunerOf[e]
  BY <1>4, <1>5, BoundsAreNatural DEF IInv, TypeOK, Devices
<1>9. 1 .. lastDevice' = (1 .. lastDevice) \cup {d} /\ tunerOf'[d] = t /\ device'[t] = d
  <2>1. tunerOf'[d] = t /\ device'[t] = d
    BY <1>3, <1>4, <1>5 DEF IInv, TypeOK
  <2>2. lastDevice' = lastDevice + 1 /\ d = lastDevice + 1
    BY <1>5 DEF d
  <2> QED BY <1>4, <2>1, <2>2
<1>10. \A u \in Tuners : u # t => device'[u] = device[u]
  BY <1>5 DEF IInv, TypeOK
<1>11. AllocationInv'
  <2>1. d \notin released
    BY <1>4 DEF IInv, AllocationInv, KnownDevices
  <2>2. ReservationExclusive'
    BY <1>3, <1>5, <1>8, <1>9, <1>10, <2>1 DEF IInv, AllocationInv, ReservationExclusive
  <2>3. KnownDevices'
    <3>1. released' \cup watched' \cup tracked' \subseteq 1 .. lastDevice'
      BY <1>5, <1>9 DEF IInv, AllocationInv, KnownDevices, processVars
    <3>2. \A u \in Tuners : u \notin inUse' => device'[u] = NoDevice
      BY <1>5, <1>10 DEF IInv, AllocationInv, KnownDevices
    <3>3. \A a \in Actors : pc'[a] \in StopPCs => call'[a].dev \in 1 .. lastDevice'
      BY <1>1, <1>5, <1>9 DEF IInv, TypeOK, AllocationInv, KnownDevices, StopPCs
    <3>4. \A a \in Admins : pc'[a] \in StopPCs \cup {"idle"}
      BY <1>1, <1>5 DEF IInv, TypeOK, AllocationInv, KnownDevices
    <3>5. \A b \in Clients : b # c => mine'[b] = mine[b] /\ pc'[b] = pc[b] /\ mine[b] # d
      BY <1>4, <1>5 DEF IInv, TypeOK, AllocationInv, KnownDevices, Actors, NoDevice
    <3>6. mine'[c] = d
      BY <1>5 DEF IInv, TypeOK
    <3>7. \A b \in Clients : mine'[b] \in 0 .. lastDevice'
      BY <1>4, <1>5, <3>5, <3>6 DEF IInv, AllocationInv, KnownDevices, d
    <3> QED
      BY <1>4, <3>1, <3>2, <3>3, <3>4, <3>5, <3>6, <3>7 DEF IInv, AllocationInv, KnownDevices
  <2>4. GrabsWake'
    BY <1>1, <1>4, <1>5 DEF IInv, TypeOK, AllocationInv, GrabsWake, StopPCs, Actors
  <2>5. NoLostWakeup'
    BY <1>1, <1>5 DEF IInv, TypeOK, AllocationInv, NoLostWakeup, Free, Healthy, Found, Actors
  <2> QED BY <2>2, <2>3, <2>4, <2>5 DEF AllocationInv
<1>12. /\ \A b \in Clients : b # c => mine'[b] = mine[b] /\ pc'[b] = pc[b]
       /\ mine'[c] = d /\ pc'[c] = "reserved"
  BY <1>1, <1>5 DEF IInv, TypeOK, Actors
<1>13. \A e \in Devices : e # d => (Retries(e)' <=> Retries(e))
  BY <1>5 DEF IInv, TypeOK, Retries
<1>14. \A b \in Clients : b # c /\ pc[b] \in OwnerPCs => mine[b] \in Devices /\ mine[b] # d
  BY <1>4, OwnsDevice
<1>15. ProcessInv'
  <2>1. d \notin tracked
    BY <1>4 DEF IInv, AllocationInv, KnownDevices
  <2>2. TrackedPastSpawn'
    BY <1>5, <1>12, <2>1 DEF IInv, ProcessInv, TrackedPastSpawn, processVars
  <2>3. \A a \in Actors : pc'[a] \in {"stopping", "stopped"} => pc'[a] = pc[a] /\ call[a].dev # d
    BY <1>1, <1>4, <1>5 DEF IInv, TypeOK, AllocationInv, KnownDevices, StopPCs
  <2>4. NoSpawnAfterStop'
    <3> SUFFICES ASSUME NEW a \in Actors,
                        pc'[a] \in {"stopping", "stopped"}, call'[a].saw > 0
                 PROVE  /\ call'[a].saw = attempt'[call'[a].dev]
                        /\ call'[a].dev \in stopping'
                        /\ \A b \in Clients : mine'[b] = call'[a].dev =>
                              /\ pc'[b] \notin {"reserved", "spawning", "spawned"}
                              /\ pc'[b] = "starting" => Retries(mine[b])'
      BY DEF NoSpawnAfterStop
    <3>1. \A b \in Clients : mine'[b] = call[a].dev => b # c /\ mine[b] = call[a].dev
      BY <1>12, <2>3
    <3>2. \A b \in Clients : b # c /\ pc[b] = "starting" => (Retries(mine[b])' <=> Retries(mine[b]))
      <4> SUFFICES ASSUME NEW b \in Clients, b # c, pc[b] = "starting"
                   PROVE  Retries(mine[b])' <=> Retries(mine[b])
        OBVIOUS
      <4>1. mine[b] \in Devices /\ mine[b] # d /\ mine'[b] = mine[b]
        BY <1>12, <1>14 DEF OwnerPCs, StartPCs
      <4> QED
        BY <1>5, <4>1 DEF IInv, TypeOK, Retries
    <3>3. call'[a].saw = attempt'[call'[a].dev] /\ call'[a].dev \in stopping'
      BY <1>5, <2>3 DEF IInv, ProcessInv, NoSpawnAfterStop, processVars
    <3> QED
      BY <1>5, <1>12, <2>3, <3>1, <3>2, <3>3 DEF IInv, ProcessInv, NoSpawnAfterStop
  <2>5. StopEndsProcess'
    BY <1>1, <1>5 DEF IInv, TypeOK, ProcessInv, StopEndsProcess, Victim, processVars
  <2>6. DoneIsMade'
    BY <1>5, <1>12, <1>13, <1>14
    DEF IInv, ProcessInv, DoneIsMade, processVars, OwnerPCs, StartPCs, Retries
  <2>7. OnlyRefusedLeft'
    <3>1. UNCHANGED <<attempt, alive, refused, call>>
      BY <1>5 DEF processVars
    <3>2. \A p \in alive : p[1] # d
      BY <1>4 DEF IInv, ProcessInv, OnlyRefusedLeft
    <3>3. \A b \in Clients : b # c => pc'[b] = pc[b] /\ mine'[b] = mine[b]
      BY <1>12
    <3>4. \A b \in Clients : pc'[b] \in BetweenAttempts =>
              \A p \in alive : p[1] = mine'[b] => p \in refused
      BY <1>12, <3>2, <3>3 DEF IInv, ProcessInv, OnlyRefusedLeft
    <3>5. \A e \in Devices : e \notin 1 .. lastDevice' => attempt[e] = 0
      BY <1>9 DEF IInv, ProcessInv, OnlyRefusedLeft
    <3>6. \A a \in Actors : pc'[a] \in {"stopCall", "stopping"} => pc'[a] = pc[a]
      BY <1>1, <1>5 DEF IInv, TypeOK
    <3> QED BY <3>1, <3>4, <3>5, <3>6 DEF IInv, ProcessInv, OnlyRefusedLeft, Victim
  <2> QED BY <2>2, <2>4, <2>5, <2>6, <2>7 DEF ProcessInv
<1>16. StatusInv'
  <2>1. d \notin watched
    BY <1>4 DEF IInv, AllocationInv, KnownDevices
  <2>2. t \notin running' \cup stopped' \cup fault'
    BY <1>3, <1>5
  <2>3. \A e \in Devices : e # d /\ Current(e)' => Current(e) /\ tunerOf'[e] = tunerOf[e]
    BY <1>3, <1>5, <1>9, <1>10 DEF IInv, TypeOK, Current
  <2>4. UnmarkedBefore'
    <3>1. \A b \in Clients : pc'[b] \in StartPCs /\ Current(mine[b])' =>
              tunerOf'[mine'[b]] \notin running' \cup stopped' \cup fault'
      <4> SUFFICES ASSUME NEW b \in Clients, pc'[b] \in StartPCs, Current(mine[b])'
                   PROVE  tunerOf'[mine'[b]] \notin running' \cup stopped' \cup fault'
        OBVIOUS
      <4>1. CASE b = c
        BY <1>9, <1>12, <2>2, <4>1
      <4>2. CASE b # c
        <5>1. mine'[b] = mine[b] /\ pc[b] \in StartPCs /\ mine[b] \in Devices /\ mine[b] # d
          BY <1>12, <1>14, <4>2 DEF OwnerPCs
        <5>2. Current(mine[b]) /\ tunerOf'[mine[b]] = tunerOf[mine[b]]
          BY <5>1, <2>3 DEF Current
        <5> QED
          BY <1>5, <5>1, <5>2 DEF IInv, StatusInv, UnmarkedBefore
      <4> QED BY <4>1, <4>2
    <3>2. \A e \in watched' : Current(e)' => tunerOf'[e] \notin stopped' \cup fault'
      BY <1>5, <2>1, <2>3 DEF IInv, TypeOK, StatusInv, UnmarkedBefore
    <3>3. \A b \in Clients : mine'[b] \in watched' => pc'[b] \in StopPCs \cup {"streaming"}
      BY <1>5, <1>12, <2>1 DEF IInv, StatusInv, UnmarkedBefore
    <3> QED BY <3>1, <3>2, <3>3 DEF UnmarkedBefore
  <2>5. StatusBelongsToReservation'
    <3>1. \A u \in running' \cup stopped' \cup fault' : device'[u] = device[u]
      BY <1>5, <1>10, <2>2 DEF IInv, TypeOK
    <3>2. \A b \in Clients : pc[b] = "releasing" => pc'[b] = pc[b] /\ mine'[b] = mine[b]
      BY <1>12
    <3> QED
      BY <1>5, <3>1, <3>2 DEF IInv, StatusInv, StatusBelongsToReservation, processVars
  <2> QED BY <2>4, <2>5 DEF StatusInv
<1> QED BY <1>7, <1>11, <1>15, <1>16 DEF IInv

\* A step that takes an actor to its Stop of a device d and no further.
LEMMA CallStop ==
    ASSUME IInv, NEW a \in Actors, NEW d \in 1 .. lastDevice,
           pc' = [pc EXCEPT ![a] = "stopCall"],
           call' = [call EXCEPT ![a] = [NoCall EXCEPT !.dev = d]],
           pc[a] # "releasing",
           a \in Clients /\ mine[a] = NoDevice => d \notin released,
           woken' \in {woken, woken \ {a}},
           UNCHANGED <<tunerVars, managedVars, processVars, mine, refs>>
    PROVE  IInv'
<1>1. d \in Devices
  BY BoundsAreNatural DEF IInv, TypeOK, Devices
<1>2. /\ \A b \in Actors : b # a => pc'[b] = pc[b] /\ call'[b] = call[b]
      /\ pc'[a] = "stopCall" /\ call'[a] = [NoCall EXCEPT !.dev = d] /\ call'[a].dev = d
  BY DEF IInv, TypeOK, NoCall
<1>3. TypeOK'
  <2>1. [NoCall EXCEPT !.dev = d] \in [dev : Devices \cup {NoDevice}, saw : Nat,
                                       waits : BOOLEAN, err : BOOLEAN]
    BY <1>1 DEF NoCall
  <2>2. call' \in [Actors -> [dev : Devices \cup {NoDevice}, saw : Nat,
                              waits : BOOLEAN, err : BOOLEAN]]
    BY <2>1 DEF IInv, TypeOK
  <2> QED
    BY <2>2 DEF IInv, TypeOK, PCs, tunerVars, managedVars, processVars
<1>4. UNCHANGED <<inUse, running, stopped, fault, device, lastDevice, tunerOf, released, watched,
                  done, stopping, failed, tracked, attempt, alive, refused, mine>>
  BY DEF tunerVars, managedVars, processVars
<1>5. AllocationInv'
  <2>1. ReservationExclusive'
    BY <1>4 DEF IInv, AllocationInv, ReservationExclusive
  <2>2. KnownDevices'
    BY <1>2, <1>4, RequestsTyped
    DEF IInv, AllocationInv, KnownDevices, Actors, StopPCs, OwnerPCs, StartPCs
  <2>3. GrabsWake'
    BY <1>2, <1>4 DEF IInv, AllocationInv, GrabsWake, Actors
  <2>4. NoLostWakeup'
    BY <1>2, <1>4 DEF IInv, AllocationInv, NoLostWakeup, Actors, Free, Healthy
  <2> QED BY <2>1, <2>2, <2>3, <2>4 DEF AllocationInv
<1>6. ProcessInv'
  <2>1. TrackedPastSpawn' /\ DoneIsMade'
    BY <1>2, <1>4 DEF IInv, ProcessInv, TrackedPastSpawn, DoneIsMade, Retries, Actors, StopPCs
  <2>4. NoSpawnAfterStop'
    BY <1>2, <1>4 DEF IInv, ProcessInv, NoSpawnAfterStop, Retries, Actors
  <2>5. StopEndsProcess'
    BY <1>2, <1>4 DEF IInv, ProcessInv, StopEndsProcess, Victim
  <2>2. ~call'[a].err
    BY <1>2 DEF NoCall
  <2>3. OnlyRefusedLeft'
    BY <1>2, <1>4, <2>2
    DEF IInv, ProcessInv, OnlyRefusedLeft, BetweenAttempts, Victim, Actors
  <2> QED BY <2>1, <2>3, <2>4, <2>5 DEF ProcessInv
<1>7. StatusInv'
  <2>1. UnmarkedBefore'
    BY <1>2, <1>4 DEF IInv, StatusInv, UnmarkedBefore, Current, Actors, StopPCs, StartPCs
  <2>2. StatusBelongsToReservation'
    BY <1>2, <1>4 DEF IInv, StatusInv, StatusBelongsToReservation, Actors
  <2> QED BY <2>1, <2>2 DEF StatusInv
<1> QED BY <1>3, <1>5, <1>6, <1>7 DEF IInv

\* The victim of a grab is a device that holds its tuner.
LEMMA AcquireGrabStep ==
    ASSUME IInv, NEW c \in Clients, AcquireGrab(c), pc[c] \in {"idle", "waiting", "grabWait"}
    PROVE  IInv'
<1> DEFINE t == BetterGrabCandidate(Request[c].type, Request[c].priority)
<1>1. t \in Grabbable(Request[c].type, Request[c].priority)
  BY GrabChooses, RequestsTyped DEF AcquireGrab, IInv
<1>2. t \in Tuners /\ t \in inUse
  BY <1>1 DEF Grabbable, Healthy, Found
<1>3. device[t] \in 1 .. lastDevice /\ device[t] \notin released
  BY <1>2 DEF IInv, AllocationInv, ReservationExclusive
<1>4. /\ call' = [call EXCEPT ![c] = [NoCall EXCEPT !.dev = device[t]]]
      /\ woken' = woken \ {c} /\ pc' = [pc EXCEPT ![c] = "stopCall"] /\ c \in Actors
      /\ UNCHANGED <<tunerVars, managedVars, processVars, mine, refs>>
  BY DEF AcquireGrab, Goto, Actors
<1> HIDE DEF t
<1> QED BY <1>3, <1>4, CallStop

\* An administrator stops a device that holds its tuner.
LEMMA KillProcessStep ==
    ASSUME IInv, NEW a \in Admins, NEW t \in Tuners, KillProcess(a, t)
    PROVE  IInv'
<1>1. device[t] \in 1 .. lastDevice
  BY DEF IInv, AllocationInv, ReservationExclusive, KnownDevices, KillProcess
<1>2. a \in Actors /\ a \notin Clients /\ pc[a] # "releasing"
  BY RequestsTyped DEF Actors, KillProcess
<1> QED BY <1>1, <1>2, CallStop DEF KillProcess, Goto

\* The owner stops its device.
LEMMA OwnerStopStep ==
    ASSUME IInv, NEW c \in Clients, OwnerStop(c)
    PROVE  IInv'
<1>1. mine[c] \in 1 .. lastDevice /\ mine[c] # NoDevice /\ c \in Actors
  BY OwnsDevice DEF OwnerStop, OwnerPCs, StartPCs, NoDevice
<1>2. pc[c] # "releasing"
  BY DEF OwnerStop
<1> QED BY <1>1, <1>2, CallStop DEF OwnerStop, Goto

\* A request that finds nothing waits, or gives up.
LEMMA AcquireNothingStep ==
    ASSUME IInv, NEW c \in Clients, AcquireNothing(c),
           pc[c] \in {"idle", "waiting", "grabWait"}
    PROVE  IInv'
<1>1. /\ c \in Actors /\ c \notin Admins /\ pc'[c] \in {"waiting", "idle"}
      /\ \A a \in Actors : a # c => pc'[a] = pc[a]
  BY RequestsTyped DEF IInv, TypeOK, AcquireNothing, Goto, Actors
<1>2. UNCHANGED <<tunerVars, managedVars, processVars, mine, call, refs>> /\ woken' = woken \ {c}
  BY DEF AcquireNothing
<1>3. TypeOK'
  <2>1. pc' \in [Actors -> PCs]
    BY DEF IInv, TypeOK, AcquireNothing, Goto, PCs
  <2> QED BY <1>2, <2>1 DEF IInv, TypeOK, tunerVars, managedVars, processVars
<1>4. AllocationInv'
  <2>1. ReservationExclusive'
    BY <1>2 DEF IInv, AllocationInv, ReservationExclusive, tunerVars, managedVars
  <2>2. KnownDevices'
    BY <1>1, <1>2 DEF IInv, AllocationInv, KnownDevices, Actors, StopPCs, OwnerPCs, StartPCs,
                      tunerVars, managedVars, processVars
  <2>3. GrabsWake'
    BY <1>1, <1>2 DEF IInv, AllocationInv, GrabsWake, Actors, StopPCs, managedVars
  <2>4. Free(Request[c].type)' = {}
    BY <1>2 DEF AcquireNothing, Free, Healthy, tunerVars
  <2>5. NoLostWakeup'
    BY <1>1, <1>2, <2>4 DEF IInv, AllocationInv, NoLostWakeup, Free, Healthy, Actors, tunerVars
  <2> QED BY <2>1, <2>2, <2>3, <2>5 DEF AllocationInv
<1>5. ProcessInv'
  BY <1>1, <1>2, SameProcesses DEF StopPCs, OwnerPCs, StartPCs, managedVars, processVars
<1>6. StatusInv'
  BY <1>1, <1>2, SameStatus DEF Actors, StopPCs, StartPCs, tunerVars, managedVars, processVars
<1> QED BY <1>3, <1>4, <1>5, <1>6 DEF IInv

\* A wait is given up.
LEMMA AcquireCanceledStep ==
    ASSUME IInv, NEW c \in Clients, AcquireCanceled(c)
    PROVE  IInv'
<1>1. /\ c \in Actors /\ c \notin Admins /\ pc[c] \in {"waiting", "grabWait"} /\ pc'[c] = "idle"
      /\ \A a \in Actors : a # c => pc'[a] = pc[a]
  BY RequestsTyped DEF IInv, TypeOK, AcquireCanceled, Goto, Actors
<1>2. UNCHANGED <<tunerVars, managedVars, processVars, mine, call, woken, refs>>
  BY DEF AcquireCanceled
<1>3. TypeOK'
  BY DEF IInv, TypeOK, AcquireCanceled, Goto, PCs, tunerVars, managedVars, processVars
<1>4. AllocationInv'
  <2>1. watched' \cup tracked' \subseteq 1 .. lastDevice
    BY <1>2 DEF IInv, AllocationInv, KnownDevices, managedVars, processVars
  <2> QED
    BY <1>1, <1>2, <2>1, SameAllocation
    DEF Actors, StopPCs, OwnerPCs, StartPCs, tunerVars, managedVars
<1>5. ProcessInv'
  BY <1>1, <1>2, SameProcesses DEF StopPCs, OwnerPCs, StartPCs, managedVars, processVars
<1>6. StatusInv'
  BY <1>1, <1>2, SameStatus DEF Actors, StopPCs, StartPCs, tunerVars, managedVars, processVars
<1> QED BY <1>3, <1>4, <1>5, <1>6 DEF IInv

\* A step of the clients' users, and a stuttering step.
LEMMA QuietStep ==
    ASSUME IInv, UNCHANGED <<inUse, running, stopped, fault, reserved, device, nextByType,
                             managedVars, processVars, actorVars>>,
           users' \in [Tuners -> [Viewers -> Nat]],
           refs' \in [Viewers -> [Devices -> 0 .. MaxRefs]]
    PROVE  IInv'
<1>1. TypeOK'
  BY DEF IInv, TypeOK, managedVars, processVars, actorVars
<1>2. UNCHANGED <<inUse, running, stopped, fault, device, lastDevice, tunerOf, released, watched,
                  done, stopping, failed, tracked, attempt, alive, refused, pc, mine, call, woken>>
  BY DEF managedVars, processVars, actorVars
<1>3. watched' \cup tracked' \subseteq 1 .. lastDevice
  BY <1>2 DEF IInv, AllocationInv, KnownDevices
<1>4. AllocationInv'
  BY <1>2, <1>3, SameAllocation
<1>5. ProcessInv'
  BY <1>2, SameProcesses
<1>6. StatusInv'
  BY <1>2, SameStatus
<1> QED BY <1>1, <1>4, <1>5, <1>6 DEF IInv

\* References to users touch no reservation.
LEMMA UsersStep ==
    ASSUME IInv, NEW v \in Viewers, NEW d \in Devices, AddUser(v, d) \/ RemoveUser(v, d)
    PROVE  IInv'
<1>1. users' \in [Tuners -> [Viewers -> Nat]]
  <2> DEFINE n == users[tunerOf[d]][v]
             less == IF n > 0 THEN n - 1 ELSE 0
  <2>1. n \in Nat
    BY DEF IInv, TypeOK
  <2>2. n + 1 \in Nat /\ less \in Nat
    BY <2>1
  <2>3. \/ users' = [users EXCEPT ![tunerOf[d]][v] = n + 1]
        \/ users' = [users EXCEPT ![tunerOf[d]][v] = less]
    BY DEF AddUser, RemoveUser
  <2> HIDE DEF n, less
  <2>4. PICK k \in Nat : users' = [users EXCEPT ![tunerOf[d]][v] = k]
    BY <2>2, <2>3
  <2> QED BY <2>4 DEF IInv, TypeOK
<1>2. refs' \in [Viewers -> [Devices -> 0 .. MaxRefs]]
  <2>1. refs[v][d] \in 0 .. MaxRefs
    BY DEF IInv, TypeOK
  <2>2. PICK k \in 0 .. MaxRefs : refs' = [refs EXCEPT ![v][d] = k]
    BY <2>1, BoundsAreNatural DEF AddUser, RemoveUser
  <2> QED BY <2>2 DEF IInv, TypeOK
<1> QED BY <1>1, <1>2, QuietStep DEF AddUser, RemoveUser

\* A Stop reads the process: from now on its device gets no other.
LEMMA StopBeginStep ==
    ASSUME IInv, NEW a \in Actors, StopBegin(a)
    PROVE  IInv'
<1> DEFINE d == call[a].dev
<1>1. pc[a] = "stopCall" /\ d \in 1 .. lastDevice /\ d \in Devices
  BY CallsDevice DEF StopBegin, StopPCs
<1>2. /\ pc'[a] = "stopping" /\ call'[a].dev = d
      /\ \A b \in Actors : b # a => pc'[b] = pc[b] /\ call'[b] = call[b]
  BY DEF IInv, TypeOK, StopBegin, Goto
<1>3. UNCHANGED <<tunerVars, managedVars, done, failed, tracked, attempt, alive, refused, mine,
                  woken, refs>>
  BY DEF StopBegin
<1>4. TypeOK'
  <2>1. call' \in [Actors -> [dev : Devices \cup {NoDevice}, saw : Nat,
                              waits : BOOLEAN, err : BOOLEAN]]
    <3> DEFINE saw == IF d \in tracked THEN attempt[d] ELSE 0
               waits == (done[d] # "nil")
    <3>1. saw \in Nat /\ waits \in BOOLEAN
      BY <1>1 DEF IInv, TypeOK
    <3> HIDE DEF saw, waits
    <3>2. call' = [call EXCEPT ![a].saw = saw, ![a].waits = waits]
      BY DEF StopBegin, saw, waits
    <3>3. call' = [call EXCEPT ![a] = [call[a] EXCEPT !.saw = saw, !.waits = waits]]
      BY <3>2 DEF IInv, TypeOK
    <3> QED BY <3>1, <3>3 DEF IInv, TypeOK
  <2>2. pc' \in [Actors -> PCs] /\ stopping' \subseteq Devices
    BY <1>1 DEF IInv, TypeOK, StopBegin, Goto, PCs
  <2> QED BY <1>3, <2>1, <2>2 DEF IInv, TypeOK, tunerVars, managedVars
<1>5. AllocationInv'
  <2>1. watched' \cup tracked' \subseteq 1 .. lastDevice
    BY <1>3 DEF IInv, AllocationInv, KnownDevices, managedVars
  <2> QED
    BY <1>1, <1>2, <1>3, <2>1, SameAllocation
    DEF Actors, StopPCs, OwnerPCs, StartPCs, tunerVars, managedVars
<1>6. ProcessInv'
  <2>1. call'[a].saw > 0 => d \in tracked /\ call'[a].saw = attempt[d]
    BY <1>1 DEF IInv, TypeOK, StopBegin
  <2>2. d \in tracked => \A c \in Clients : mine[c] = d =>
            pc[c] \in StopPCs \cup {"probing", "started", "streaming"}
    BY DEF IInv, ProcessInv, TrackedPastSpawn
  <2>3. /\ UNCHANGED <<attempt, mine, tunerOf, tracked, alive, refused, done, lastDevice>>
        /\ stopping' = stopping \cup {d}
    BY DEF StopBegin, managedVars
  <2>4. \A c \in Clients : pc'[c] \in StartPCs => pc[c] = pc'[c]
    BY <1>2 DEF StartPCs, Actors
  <2> HIDE DEF d
  <2>5. NoSpawnAfterStop'
    <3> SUFFICES ASSUME NEW b \in Actors,
                        pc'[b] \in {"stopping", "stopped"}, call'[b].saw > 0
                 PROVE  /\ call'[b].saw = attempt'[call'[b].dev]
                        /\ call'[b].dev \in stopping'
                        /\ \A c \in Clients : mine'[c] = call'[b].dev =>
                              /\ pc'[c] \notin {"reserved", "spawning", "spawned"}
                              /\ pc'[c] = "starting" => Retries(mine[c])'
      BY DEF NoSpawnAfterStop
    <3>1. CASE b = a
      BY <1>2, <2>1, <2>2, <2>3, <2>4, <3>1 DEF StopPCs, StartPCs
    <3>2. CASE b # a
      BY <1>2, <2>3, <2>4, <3>2 DEF IInv, ProcessInv, NoSpawnAfterStop, Retries, StartPCs
    <3> QED BY <3>1, <3>2
  <2>6. TrackedPastSpawn'
    BY <1>2, <2>3 DEF IInv, ProcessInv, TrackedPastSpawn, StopPCs, Actors
  <2>7. StopEndsProcess'
    BY <1>2, <2>3 DEF IInv, ProcessInv, StopEndsProcess, Victim
  <2>8. DoneIsMade'
    BY <2>3, <2>4 DEF IInv, ProcessInv, DoneIsMade, Retries, StartPCs
  <2>9. OnlyRefusedLeft'
    <3>1. call'[a].err = call[a].err
      BY DEF IInv, TypeOK, StopBegin
    <3> QED BY <1>1, <1>2, <2>3, <3>1, KeepsRefused DEF BetweenAttempts, Actors
  <2> QED BY <2>5, <2>6, <2>7, <2>8, <2>9 DEF ProcessInv
<1>7. StatusInv'
  BY <1>1, <1>2, <1>3, SameStatus DEF Actors, StopPCs, StartPCs, tunerVars, managedVars
<1> QED BY <1>4, <1>5, <1>6, <1>7 DEF IInv

\* processDevice.Stop returns, on its own or because its context ended.
LEMMA StopEndStep ==
    ASSUME IInv, NEW a \in Actors, StopReturn(a) \/ StopExpire(a)
    PROVE  IInv'
<1>1. PICK e \in BOOLEAN : call' = [call EXCEPT ![a].err = e] /\ (call[a].err => e)
  <2>1. PICK e \in BOOLEAN : call' = [call EXCEPT ![a].err = call[a].err \/ e]
    BY DEF StopReturn, StopExpire, Grabbing
  <2>2. (call[a].err \/ e) \in BOOLEAN
    OBVIOUS
  <2> QED BY <2>1, <2>2, Zenon
<1>2. /\ pc[a] = "stopping" /\ pc' = [pc EXCEPT ![a] = "stopped"]
      /\ ProcessStopped(a)
      /\ UNCHANGED <<tunerVars, managedVars, processVars, mine, woken, refs>>
  BY DEF StopReturn, StopExpire, Goto
<1>3. /\ pc'[a] = "stopped"
      /\ \A b \in Actors : b # a => pc'[b] = pc[b]
      /\ \A b \in Actors : call'[b].dev = call[b].dev /\ call'[b].saw = call[b].saw
      /\ \A b \in Actors : b # a => call'[b] = call[b]
      /\ call[a].err => call'[a].err
  BY <1>1, <1>2 DEF IInv, TypeOK
<1>4. TypeOK'
  <2>1. call' \in [Actors -> [dev : Devices \cup {NoDevice}, saw : Nat,
                              waits : BOOLEAN, err : BOOLEAN]]
    BY <1>1 DEF IInv, TypeOK
  <2> QED BY <1>2, <2>1 DEF IInv, TypeOK, PCs, tunerVars, managedVars, processVars
<1>5. AllocationInv'
  <2>1. watched' \cup tracked' \subseteq 1 .. lastDevice
    BY <1>2 DEF IInv, AllocationInv, KnownDevices, managedVars, processVars
  <2> QED
    BY <1>2, <1>3, <2>1, SameAllocation
    DEF Actors, StopPCs, OwnerPCs, StartPCs, tunerVars, managedVars
<1>6. ProcessInv'
  <2>1. UNCHANGED <<tracked, attempt, stopping, alive, refused, done, tunerOf, mine, lastDevice>>
    BY <1>2 DEF managedVars, processVars
  <2>2. TrackedPastSpawn'
    BY <1>2, <1>3, <2>1 DEF IInv, ProcessInv, TrackedPastSpawn, StopPCs, Actors
  <2>3. NoSpawnAfterStop'
    BY <1>2, <1>3, <2>1 DEF IInv, ProcessInv, NoSpawnAfterStop, Retries, Actors
  <2>4. call[a].saw > 0 => /\ \A p \in alive : p[1] = call[a].dev => p \in refused
                           /\ Victim(a) \in alive => call[a].err
    <3> SUFFICES ASSUME call[a].saw > 0
                 PROVE  /\ \A p \in alive : p[1] = call[a].dev => p \in refused
                        /\ Victim(a) \in alive => call[a].err
      OBVIOUS
    <3>1. Victim(a) \in alive => call[a].err /\ Victim(a) \in refused
      BY <1>2 DEF ProcessStopped, IInv, ProcessInv, OnlyRefusedLeft
    <3>2. call[a].saw = attempt[call[a].dev]
      BY <1>2 DEF IInv, ProcessInv, NoSpawnAfterStop
    <3>3. \A p \in alive : p[1] = call[a].dev => p \in refused \/ p = Victim(a)
      BY <3>2 DEF IInv, TypeOK, ProcessInv, OnlyRefusedLeft, Victim
    <3> QED BY <3>1, <3>3
  <2>5. StopEndsProcess'
    BY <1>2, <1>3, <2>1, <2>4 DEF IInv, ProcessInv, StopEndsProcess, Victim
  <2>6. DoneIsMade'
    BY <1>2, <1>3, <2>1 DEF IInv, ProcessInv, DoneIsMade, Retries, Actors
  <2>7. OnlyRefusedLeft'
    BY <1>2, <1>3, <2>1, KeepsRefused DEF BetweenAttempts, Actors
  <2> QED BY <2>2, <2>3, <2>5, <2>6, <2>7 DEF ProcessInv
<1>7. StatusInv'
  BY <1>2, <1>3, SameStatus DEF Actors, StopPCs, StartPCs, tunerVars, managedVars, processVars
<1> QED BY <1>4, <1>5, <1>6, <1>7 DEF IInv

\* Process.Stop gives up a process that it cannot signal.
LEMMA StopRefusedStep ==
    ASSUME IInv, NEW a \in Actors, StopRefused(a)
    PROVE  IInv'
<1>7. PICK e \in BOOLEAN : call' = [call EXCEPT ![a].err = e] /\ e
  BY Zenon DEF StopRefused
<1>1. /\ pc[a] = "stopping" /\ pc' = pc
      /\ refused' = refused \cup {Victim(a)} /\ Victim(a) \in alive
      /\ UNCHANGED <<tunerVars, managedVars, done, stopping, failed, tracked, attempt, alive, mine,
                     woken, refs>>
  BY DEF StopRefused
<1>2. /\ \A b \in Actors : call'[b].dev = call[b].dev /\ call'[b].saw = call[b].saw
      /\ \A b \in Actors : b # a => call'[b] = call[b]
      /\ call'[a].err
  BY <1>7 DEF IInv, TypeOK
<1>3. TypeOK'
  <2>1. call' \in [Actors -> [dev : Devices \cup {NoDevice}, saw : Nat,
                              waits : BOOLEAN, err : BOOLEAN]]
    BY <1>7 DEF IInv, TypeOK
  <2> QED BY <1>1, <2>1 DEF IInv, TypeOK, tunerVars, managedVars
<1>4. AllocationInv'
  <2>1. watched' \cup tracked' \subseteq 1 .. lastDevice
    BY <1>1 DEF IInv, AllocationInv, KnownDevices, managedVars
  <2> QED BY <1>1, <1>2, <2>1, SameAllocation DEF Actors, tunerVars, managedVars
<1>5. ProcessInv'
  <2>1. UNCHANGED <<tracked, attempt, stopping, alive, done, tunerOf, mine, lastDevice>>
    BY <1>1 DEF managedVars
  <2>2. \A b \in Actors : Victim(b)' = Victim(b)
    <3> TAKE b \in Actors
    <3>1. call'[b].dev = call[b].dev /\ call'[b].saw = call[b].saw
      BY <1>2
    <3> QED BY <3>1 DEF Victim
  <2>3. TrackedPastSpawn' /\ NoSpawnAfterStop' /\ DoneIsMade'
    BY <1>1, <1>2, <2>1
    DEF IInv, ProcessInv, TrackedPastSpawn, NoSpawnAfterStop, DoneIsMade, Retries
  <2>4. StopEndsProcess'
    BY <1>1, <1>2, <2>1, <2>2 DEF IInv, ProcessInv, StopEndsProcess
  <2>5. OnlyRefusedLeft'
    BY <1>1, <1>2, <2>1, <2>2 DEF IInv, ProcessInv, OnlyRefusedLeft
  <2> QED BY <2>3, <2>4, <2>5 DEF ProcessInv
<1>6. StatusInv'
  BY <1>1, SameStatus DEF tunerVars, managedVars
<1> QED BY <1>3, <1>4, <1>5, <1>6 DEF IInv

\* Either release, by the caller a of a Stop or by a failed start, with the
\* device it releases.
LEMMA ReleasingStep ==
    ASSUME IInv, NEW a \in Actors, NEW d \in 1 .. lastDevice, ReleaseOnce(d),
           UNCHANGED <<lastDevice, tunerOf, watched, processVars>>,
           \A b \in Actors : b # a => pc'[b] = pc[b] /\ call'[b] = call[b],
           \A c \in Clients : c # a => mine'[c] = mine[c],
           \/ pc[a] = "stopped" /\ call[a].dev = d /\ (a \in Clients => mine'[a] = NoDevice)
              /\ pc'[a] \in {"idle", IF Grabbing(a) THEN "grabWait" ELSE "idle"}
           \/ pc[a] = "releasing" /\ a \in Clients /\ mine[a] = d /\ mine'[a] = d
              /\ pc'[a] = "closing"
    PROVE  AllocationInv' /\ ProcessInv' /\ StatusInv'
<1>1. pc[a] \in {"stopped", "releasing"} /\ pc'[a] \in {"idle", "grabWait", "closing"}
  OBVIOUS
<1>2. \A c \in Clients : \/ mine'[c] = mine[c]
                         \/ c = a /\ mine'[c] = NoDevice /\ pc'[c] \in {"idle", "grabWait"}
  OBVIOUS
<1>3. \A c \in Clients : pc'[c] \in StartPCs \cup StopPCs => c # a /\ pc'[c] = pc[c] /\ mine'[c] = mine[c]
  BY <1>1 DEF StartPCs, StopPCs, Actors
<1>4. AllocationInv'
  <2>1. ReservationExclusive'
    BY ReleaseStep
  <2>2. KnownDevices'
    <3>1. released' \cup watched' \cup tracked' \subseteq 1 .. lastDevice'
      BY ReleaseStep DEF IInv, AllocationInv, KnownDevices, processVars
    <3>2. \A t \in Tuners : t \notin inUse' => device'[t] = NoDevice
      BY ReleaseStep
    <3>3. \A b \in Actors : pc'[b] \in StopPCs => call'[b].dev \in 1 .. lastDevice'
      BY <1>1 DEF IInv, AllocationInv, KnownDevices, StopPCs
    <3>4. \A c \in Clients : /\ mine'[c] \in 0 .. lastDevice'
                             /\ pc'[c] \in OwnerPCs => mine'[c] # NoDevice
      <4> TAKE c \in Clients
      <4>1. mine[c] \in 0 .. lastDevice /\ 0 \in 0 .. lastDevice
        BY DEF IInv, TypeOK, AllocationInv, KnownDevices
      <4>2. CASE c = a
        BY <1>2, <4>1, <4>2 DEF NoDevice, OwnerPCs, StartPCs
      <4>3. CASE c # a
        BY <4>1, <4>3 DEF IInv, AllocationInv, KnownDevices, Actors
      <4> QED BY <4>2, <4>3
    <3>5. \A c, b \in Clients : mine'[b] = mine'[c] /\ b # c => mine'[c] = NoDevice
      BY <1>2 DEF IInv, AllocationInv, KnownDevices
    <3>6. \A b \in Admins : pc'[b] \in StopPCs \cup {"idle"}
      BY RequestsTyped DEF IInv, AllocationInv, KnownDevices, Grabbing, Actors
    <3> QED BY <3>1, <3>2, <3>3, <3>4, <3>5, <3>6 DEF KnownDevices
  <2>3. /\ released' = released \cup {d}
        /\ \/ d \in released /\ UNCHANGED <<inUse, fault, woken>>
           \/ woken' = Clients
    BY ReleaseStep
  <2>4. GrabsWake'
    BY <1>1, <1>3, <2>3 DEF IInv, AllocationInv, GrabsWake, Actors
  <2>5. NoLostWakeup'
    <3>1. \A c \in Clients : pc'[c] = "waiting" => pc[c] = "waiting"
      BY <1>1 DEF Actors
    <3>2. pc'[a] = "grabWait" => Grabbing(a) /\ call[a].dev = d /\ pc[a] = "stopped"
      BY <1>1
    <3>3. \A c \in Clients : pc'[c] = "grabWait" => c \in woken'
      BY <2>3, <3>2 DEF IInv, AllocationInv, GrabsWake, NoLostWakeup, Grabbing, StopPCs, Actors
    <3> QED
      BY <2>3, <3>1, <3>3 DEF IInv, AllocationInv, NoLostWakeup, Free, Healthy
  <2> QED BY <2>1, <2>2, <2>4, <2>5 DEF AllocationInv
<1>5. ProcessInv'
  <2>1. UNCHANGED <<tracked, attempt, stopping, alive, refused, done, tunerOf>>
    BY DEF processVars
  <2>2. 0 \notin tracked
    BY DEF IInv, TypeOK, Devices
  <2>3. TrackedPastSpawn'
    BY <1>1, <1>2, <2>1, <2>2 DEF IInv, ProcessInv, TrackedPastSpawn, StopPCs, NoDevice, Actors
  <2>4. \A b \in Actors : pc'[b] \in {"stopping", "stopped"} => b # a /\ pc'[b] = pc[b]
    BY <1>1
  <2>5. NoSpawnAfterStop'
    BY <1>3, <2>1, <2>4 DEF IInv, ProcessInv, NoSpawnAfterStop, Retries, StartPCs
  <2>6. StopEndsProcess'
    BY <2>1, <2>4 DEF IInv, ProcessInv, StopEndsProcess, Victim
  <2>7. DoneIsMade'
    BY <1>3, <2>1 DEF IInv, ProcessInv, DoneIsMade, Retries, StartPCs
  <2>8. OnlyRefusedLeft'
    <3>1. \A b \in Actors : pc'[b] \in {"stopCall", "stopping"} => b # a
      BY <1>1
    <3> QED BY <1>3, <2>1, <3>1, KeepsRefused DEF BetweenAttempts, StartPCs
  <2> QED BY <2>3, <2>5, <2>6, <2>7, <2>8 DEF ProcessInv
<1>6. StatusInv'
  <2>1. UnmarkedBefore'
    <3>1. \A e \in Devices : Current(e)' => Current(e)
      BY ReleaseStep DEF IInv, TypeOK, Current
    <3>2. running' \subseteq running /\ stopped' \subseteq stopped /\ fault' \subseteq fault
      BY ReleaseStep
    <3>3. \A c \in Clients : pc[c] \in StartPCs => mine[c] \in Devices
      BY OwnsDevice DEF OwnerPCs
    <3>4. 0 \notin watched
      BY DEF IInv, TypeOK, Devices
    <3>5. \A c \in Clients : mine'[c] \in watched => c # a /\ mine[c] \in watched
      BY <1>2, <3>4 DEF IInv, StatusInv, UnmarkedBefore, NoDevice, StopPCs
    <3> QED
      BY <1>3, <3>1, <3>2, <3>3, <3>5 DEF IInv, TypeOK, StatusInv, UnmarkedBefore, Actors
  <2>2. StatusBelongsToReservation'
    <3>1. \A t \in inUse' : device[t] # d
      BY ReleaseStep
    <3>2. \A c \in Clients : pc[c] = "releasing" /\ mine[c] # d =>
              pc'[c] = "releasing" /\ mine'[c] = mine[c]
      BY <1>1 DEF Actors
    <3>3. UNCHANGED <<done, failed>>
      BY DEF processVars
    <3>4. \A c \in Clients, t \in fault' : pc[c] = "releasing" /\ mine[c] = device[t] =>
              pc'[c] = "releasing" /\ mine'[c] = mine[c]
      BY <3>1, <3>2, ReleaseStep
    <3> QED BY <3>3, <3>4, ReleaseStep, FewerMarks
  <2> QED BY <2>1, <2>2 DEF StatusInv
<1> QED BY <1>4, <1>5, <1>6

\* A Stop releases its device.
LEMMA StopReleaseStep ==
    ASSUME IInv, NEW a \in Actors, StopRelease(a)
    PROVE  IInv'
<1> DEFINE d == call[a].dev
<1>1. d \in 1 .. lastDevice /\ d \in Devices /\ pc[a] = "stopped"
  BY CallsDevice DEF StopRelease, StopPCs
<1>2. ReleaseOnce(d) /\ UNCHANGED <<nextByType, lastDevice, tunerOf, watched, processVars, refs>>
  BY DEF StopRelease
<1>3. /\ \A b \in Actors : b # a => pc'[b] = pc[b] /\ call'[b] = call[b]
      /\ \A c \in Clients : c # a => mine'[c] = mine[c]
      /\ a \in Clients => mine'[a] = NoDevice
      /\ pc'[a] \in {"idle", IF Grabbing(a) THEN "grabWait" ELSE "idle"}
  BY DEF IInv, TypeOK, StopRelease, Goto
<1>4. TypeOK'
  <2>1. NoCall \in [dev : Devices \cup {NoDevice}, saw : Nat, waits : BOOLEAN, err : BOOLEAN]
    BY DEF NoCall
  <2>2. call' \in [Actors -> [dev : Devices \cup {NoDevice}, saw : Nat,
                              waits : BOOLEAN, err : BOOLEAN]]
    BY <2>1 DEF IInv, TypeOK, StopRelease
  <2>3. mine' \in [Clients -> Devices \cup {NoDevice}] /\ pc' \in [Actors -> PCs]
    BY DEF IInv, TypeOK, StopRelease, Goto, PCs
  <2>4. released' \subseteq Devices
    BY <1>1, <1>2, ReleaseStep DEF IInv, TypeOK
  <2> QED
    BY <1>1, <1>2, <2>2, <2>3, <2>4, ReleaseStep DEF IInv, TypeOK, processVars
<1> HIDE DEF d
<1>5. call[a].dev = d
  BY DEF d
<1>6. AllocationInv' /\ ProcessInv' /\ StatusInv'
  BY <1>1, <1>2, <1>3, <1>5, ReleasingStep
<1> QED BY <1>4, <1>6 DEF IInv

\* A failed start releases its device.
LEMMA StartFailedReleaseStep ==
    ASSUME IInv, NEW c \in Clients, StartFailedRelease(c)
    PROVE  IInv'
<1>1. mine[c] \in 1 .. lastDevice /\ mine[c] \in Devices /\ c \in Actors /\ pc[c] = "releasing"
  BY OwnsDevice DEF StartFailedRelease, OwnerPCs
<1>2. /\ ReleaseOnce(mine[c])
      /\ UNCHANGED <<nextByType, lastDevice, tunerOf, watched, processVars, mine, call, refs>>
  BY DEF StartFailedRelease
<1>3. pc'[c] = "closing" /\ \A b \in Actors : b # c => pc'[b] = pc[b]
  BY <1>1 DEF IInv, TypeOK, StartFailedRelease, Goto
<1>4. TypeOK'
  <2>1. pc' \in [Actors -> PCs]
    BY <1>1 DEF IInv, TypeOK, StartFailedRelease, Goto, PCs
  <2>2. released' \subseteq Devices
    BY <1>1, <1>2, ReleaseStep DEF IInv, TypeOK
  <2> QED
    BY <1>1, <1>2, <2>1, <2>2, ReleaseStep DEF IInv, TypeOK, processVars
<1>5. AllocationInv' /\ ProcessInv' /\ StatusInv'
  BY <1>1, <1>2, <1>3, ReleasingStep
<1> QED BY <1>4, <1>5 DEF IInv

\* The steps of a start before the device's completion can be awaited: they
\* touch the process of the client's own device and nothing of the manager.
LEMMA StartingFrame ==
    ASSUME IInv, NEW c \in Clients, pc[c] \in StartPCs, pc'[c] \in StartPCs,
           \A a \in Actors : a # c => pc'[a] = pc[a],
           UNCHANGED <<tunerVars, managedVars, mine, call, woken, refs>>,
           tracked' \subseteq tracked \cup {mine[c]},
           \A d \in Devices : d # mine[c] =>
              done'[d] = done[d] /\ (d \in failed' <=> d \in failed)
    PROVE  AllocationInv' /\ StatusInv'
<1>1. mine[c] \in 1 .. lastDevice /\ c \notin Admins
  BY OwnsDevice, RequestsTyped DEF OwnerPCs
<1>2. UNCHANGED <<inUse, running, stopped, fault, device, lastDevice, tunerOf, released, watched,
                  mine, call, woken>>
  BY DEF tunerVars, managedVars
<1>3. AllocationInv'
  <2>1. watched' \cup tracked' \subseteq 1 .. lastDevice
    BY <1>1, <1>2 DEF IInv, AllocationInv, KnownDevices
  <2>2. \A a \in Actors : pc'[a] \in StopPCs => pc[a] \in StopPCs /\ call'[a].dev = call[a].dev
    BY <1>2 DEF StartPCs, StopPCs
  <2>3. \A b \in Clients : /\ pc'[b] \in OwnerPCs => pc[b] \in OwnerPCs
                           /\ pc'[b] \in {"waiting", "grabWait"} => pc'[b] = pc[b]
    BY DEF Actors, OwnerPCs, StartPCs
  <2>4. \A a \in Admins : pc'[a] = pc[a]
    BY <1>1 DEF Actors
  <2> QED BY <1>2, <2>1, <2>2, <2>3, <2>4, SameAllocation
<1>4. StatusInv'
  <2>1. \A b \in Clients :
           /\ pc'[b] \in StartPCs => pc[b] \in StartPCs
           /\ pc[b] \in StopPCs \cup {"streaming"} => pc'[b] \in StopPCs \cup {"streaming"}
           /\ pc[b] = "releasing" => pc'[b] = "releasing"
    BY DEF Actors, StartPCs, StopPCs
  <2>2. \A t \in running \cup stopped \cup fault : device[t] # mine[c] /\ device[t] \in Devices
    <3>1. \A t \in running \cup stopped \cup fault : device[t] # mine[c]
      BY UnmarkedDevice
    <3>2. \A t \in running \cup stopped \cup fault : device[t] \in Devices
      BY BoundsAreNatural DEF IInv, TypeOK, StatusInv, StatusBelongsToReservation, AllocationInv,
                              ReservationExclusive, Devices
    <3> QED BY <3>1, <3>2
  <2> QED BY <1>2, <2>1, <2>2, SameStatus
<1> QED BY <1>3, <1>4

\* processDevice.Start: the done channel is made and stopping is reset.
LEMMA StartBeginStep ==
    ASSUME IInv, NEW c \in Clients, StartBegin(c)
    PROVE  IInv'
<1> DEFINE d == mine[c]
<1>1. pc[c] = "reserved" /\ d \in Devices /\ d # NoDevice /\ c \in Actors
  BY OwnsDevice DEF StartBegin, OwnerPCs, StartPCs, NoDevice
<1>2. /\ pc'[c] = "starting" /\ pc' \in [Actors -> PCs]
      /\ \A a \in Actors : a # c => pc'[a] = pc[a]
  BY <1>1 DEF IInv, TypeOK, StartBegin, Goto, PCs
<1>3. UNCHANGED <<tunerVars, managedVars, mine, call, woken, refs>>
  BY DEF StartBegin
<1>4. /\ UNCHANGED <<tracked, attempt, alive, refused>>
      /\ failed' = failed \ {d}
      /\ stopping' = stopping \ {d}
      /\ done' = [done EXCEPT ![d] = "open"]
  BY DEF StartBegin
<1> HIDE DEF d
<1>5. TypeOK'
  BY <1>1, <1>2, <1>3, <1>4 DEF IInv, TypeOK, tunerVars, managedVars
<1>6. AllocationInv' /\ StatusInv'
  BY <1>1, <1>2, <1>3, <1>4, StartingFrame DEF IInv, TypeOK, StartPCs, d
<1>7. ProcessInv'
  <2>1. \A b \in Clients : b # c => mine[b] # d /\ pc'[b] = pc[b]
    BY <1>1, <1>2 DEF IInv, AllocationInv, KnownDevices, Actors, d
  <2>2. UNCHANGED <<mine, tunerOf, call>> /\ mine[c] = d
    BY <1>3 DEF managedVars, d
  <2>3. TrackedPastSpawn'
    BY <1>1, <1>2, <1>4, <2>1, <2>2 DEF IInv, ProcessInv, TrackedPastSpawn, StopPCs
  <2>4. \A a \in Actors : pc'[a] \in {"stopping", "stopped"} => a # c /\ pc'[a] = pc[a]
    BY <1>2
  <2>5. \A a \in Actors : pc[a] \in {"stopping", "stopped"} /\ call[a].saw > 0 => call[a].dev # d
    BY <1>1, <1>4, <2>2 DEF IInv, ProcessInv, NoSpawnAfterStop
  <2>6. NoSpawnAfterStop'
    BY <1>1, <1>2, <1>4, <2>1, <2>2, <2>4, <2>5
    DEF IInv, TypeOK, ProcessInv, NoSpawnAfterStop, DoneIsMade, Retries
  <2>7. StopEndsProcess'
    BY <1>1, <1>4, <2>2, <2>4, <2>5 DEF IInv, ProcessInv, StopEndsProcess, Victim
  <2>8. DoneIsMade'
    <3>1. \A b \in Clients : pc[b] \in OwnerPCs => mine[b] \in Devices
      BY OwnsDevice
    <3>2. done'[d] = "open" /\ \A e \in Devices : e # d => done'[e] = done[e]
      BY <1>1, <1>4 DEF IInv, TypeOK
    <3> QED
      BY <1>1, <1>2, <2>1, <2>2, <3>1, <3>2
      DEF IInv, ProcessInv, DoneIsMade, Retries, OwnerPCs, StartPCs
  <2>9. OnlyRefusedLeft'
    BY <1>1, <1>2, <1>3, <1>4, KeepsRefused DEF BetweenAttempts, Actors, managedVars
  <2> QED BY <2>3, <2>6, <2>7, <2>8, <2>9 DEF ProcessInv
<1> QED BY <1>5, <1>6, <1>7 DEF IInv

\* A start without retries records its process at once.
LEMMA StartOnceStep ==
    ASSUME IInv, NEW c \in Clients, StartOnce(c)
    PROVE  IInv'
<1> DEFINE d == mine[c]
<1>1. pc[c] = "starting" /\ d \in Devices /\ d # NoDevice /\ d \in 1 .. lastDevice /\ c \in Actors
  BY OwnsDevice DEF StartOnce, OwnerPCs, StartPCs, NoDevice
<1>2. /\ pc'[c] = "started" /\ pc' \in [Actors -> PCs]
      /\ \A a \in Actors : a # c => pc'[a] = pc[a]
  BY <1>1 DEF IInv, TypeOK, StartOnce, Goto, PCs
<1>3. UNCHANGED <<tunerVars, managedVars, mine, call, woken, refs>>
  BY DEF StartOnce
<1>4. /\ UNCHANGED <<done, stopping, failed, refused>>
      /\ attempt' = [attempt EXCEPT ![d] = @ + 1]
      /\ alive' = alive \cup {<<d, attempt[d] + 1>>}
      /\ tracked' = tracked \cup {d}
      /\ ~Retries(d)
  BY <1>1 DEF IInv, TypeOK, StartOnce
<1> HIDE DEF d
<1>5. TypeOK'
  BY <1>1, <1>2, <1>3, <1>4 DEF IInv, TypeOK, tunerVars, managedVars
<1>6. AllocationInv' /\ StatusInv'
  BY <1>1, <1>2, <1>3, <1>4, StartingFrame DEF IInv, TypeOK, StartPCs, d
<1>7. ProcessInv'
  <2>1. \A b \in Clients : b # c => mine[b] # d /\ pc'[b] = pc[b]
    BY <1>1, <1>2 DEF IInv, AllocationInv, KnownDevices, Actors, d
  <2>2. UNCHANGED <<mine, tunerOf, call>> /\ mine[c] = d
    BY <1>3 DEF managedVars, d
  <2>3. TrackedPastSpawn'
    BY <1>1, <1>2, <1>4, <2>1, <2>2 DEF IInv, ProcessInv, TrackedPastSpawn, StopPCs
  <2>4. \A a \in Actors : pc'[a] \in {"stopping", "stopped"} => a # c /\ pc'[a] = pc[a]
    BY <1>2
  <2>5. \A a \in Actors : pc[a] \in {"stopping", "stopped"} /\ call[a].saw > 0 => call[a].dev # d
    BY <1>1, <1>4, <2>2 DEF IInv, ProcessInv, NoSpawnAfterStop
  <2>6. NoSpawnAfterStop'
    BY <1>1, <1>2, <1>4, <2>1, <2>2, <2>4, <2>5
    DEF IInv, TypeOK, ProcessInv, NoSpawnAfterStop, DoneIsMade, Retries
  <2>7. StopEndsProcess'
    BY <1>1, <1>4, <2>2, <2>4, <2>5 DEF IInv, ProcessInv, StopEndsProcess, Victim
  <2>8. DoneIsMade'
    BY <1>1, <1>2, <1>4, <2>1, <2>2 DEF IInv, TypeOK, ProcessInv, DoneIsMade, Retries
  <2>9. OnlyRefusedLeft'
    BY <1>1, <1>2, <1>3, <1>4, NewAttempt
    DEF IInv, TypeOK, BetweenAttempts, StartPCs, managedVars, d
  <2> QED BY <2>3, <2>6, <2>7, <2>8, <2>9 DEF ProcessInv
<1> QED BY <1>5, <1>6, <1>7 DEF IInv

\* A start without retries that has to give its process up again.
LEMMA StartOnceUnopenedStep ==
    ASSUME IInv, NEW c \in Clients, StartOnceUnopened(c)
    PROVE  IInv'
<1> DEFINE d == mine[c]
<1>1. pc[c] = "starting" /\ d \in Devices /\ d # NoDevice /\ d \in 1 .. lastDevice /\ c \in Actors
  BY OwnsDevice DEF StartOnceUnopened, OwnerPCs, StartPCs, NoDevice
<1>2. /\ pc'[c] = "unwinding" /\ pc' \in [Actors -> PCs]
      /\ \A a \in Actors : a # c => pc'[a] = pc[a]
  BY <1>1 DEF IInv, TypeOK, StartOnceUnopened, Goto, PCs
<1>3. UNCHANGED <<tunerVars, managedVars, mine, call, woken, refs>>
  BY DEF StartOnceUnopened
<1>4. /\ UNCHANGED <<stopping, failed, tracked, refused>>
      /\ attempt' = [attempt EXCEPT ![d] = @ + 1]
      /\ alive' = alive \cup {<<d, attempt[d] + 1>>}
      /\ done' = [done EXCEPT ![d] = "nil"]
      /\ ~Retries(d)
  BY <1>1 DEF IInv, TypeOK, StartOnceUnopened
<1> HIDE DEF d
<1>5. TypeOK'
  BY <1>1, <1>2, <1>3, <1>4 DEF IInv, TypeOK, tunerVars, managedVars
<1>6. AllocationInv' /\ StatusInv'
  BY <1>1, <1>2, <1>3, <1>4, StartingFrame DEF IInv, TypeOK, StartPCs, d
<1>7. ProcessInv'
  <2>1. \A b \in Clients : b # c => mine[b] # d /\ pc'[b] = pc[b]
    BY <1>1, <1>2 DEF IInv, AllocationInv, KnownDevices, Actors, d
  <2>2. UNCHANGED <<mine, tunerOf, call>> /\ mine[c] = d
    BY <1>3 DEF managedVars, d
  <2>3. TrackedPastSpawn'
    BY <1>1, <1>2, <1>4, <2>1, <2>2 DEF IInv, ProcessInv, TrackedPastSpawn, StopPCs
  <2>4. \A a \in Actors : pc'[a] \in {"stopping", "stopped"} => a # c /\ pc'[a] = pc[a]
    BY <1>2
  <2>5. \A a \in Actors : pc[a] \in {"stopping", "stopped"} /\ call[a].saw > 0 => call[a].dev # d
    BY <1>1, <1>4, <2>2 DEF IInv, ProcessInv, NoSpawnAfterStop
  <2>6. NoSpawnAfterStop'
    BY <1>1, <1>2, <1>4, <2>1, <2>2, <2>4, <2>5
    DEF IInv, TypeOK, ProcessInv, NoSpawnAfterStop, DoneIsMade, Retries
  <2>7. StopEndsProcess'
    BY <1>1, <1>4, <2>2, <2>4, <2>5 DEF IInv, ProcessInv, StopEndsProcess, Victim
  <2>8. DoneIsMade'
    BY <1>1, <1>2, <1>4, <2>1, <2>2 DEF IInv, TypeOK, ProcessInv, DoneIsMade, Retries
  <2>9. OnlyRefusedLeft'
    BY <1>1, <1>2, <1>3, <1>4, NewAttempt
    DEF IInv, TypeOK, BetweenAttempts, StartPCs, managedVars, d
  <2> QED BY <2>3, <2>6, <2>7, <2>8, <2>9 DEF ProcessInv
<1> QED BY <1>5, <1>6, <1>7 DEF IInv

\* An attempt without a process.
LEMMA SpawnFailsStep ==
    ASSUME IInv, NEW c \in Clients, SpawnFails(c)
    PROVE  IInv'
<1> DEFINE d == mine[c]
<1>1. pc[c] \in {"starting", "spawning"} /\ d \in Devices /\ d # NoDevice /\ d \in 1 .. lastDevice /\ c \in Actors
  BY OwnsDevice DEF SpawnFails, OwnerPCs, StartPCs, NoDevice
<1>2. /\ pc'[c] \in {"failing", "retrying"} /\ pc' \in [Actors -> PCs]
      /\ \A a \in Actors : a # c => pc'[a] = pc[a]
  BY <1>1 DEF IInv, TypeOK, SpawnFails, Goto, PCs
<1>3. UNCHANGED <<tunerVars, managedVars, mine, call, woken, refs>>
  BY DEF SpawnFails
<1>4. /\ UNCHANGED <<done, stopping, failed, tracked, alive, refused>>
      /\ attempt' = [attempt EXCEPT ![d] = @ + 1]
      /\ \/ pc[c] = "starting" /\ ~Retries(d) /\ pc'[c] = "failing"
         \/ pc[c] = "spawning" /\ pc'[c] = "retrying"
  <2>1. \/ pc[c] = "starting" /\ ~Retries(d) /\ pc' = [pc EXCEPT ![c] = "failing"]
        \/ pc[c] = "spawning" /\ pc' = [pc EXCEPT ![c] = "retrying"]
    BY DEF SpawnFails, Goto
  <2> QED BY <1>1, <2>1 DEF IInv, TypeOK, SpawnFails
<1> HIDE DEF d
<1>5. TypeOK'
  BY <1>1, <1>2, <1>3, <1>4 DEF IInv, TypeOK, tunerVars, managedVars
<1>6. AllocationInv' /\ StatusInv'
  BY <1>1, <1>2, <1>3, <1>4, StartingFrame DEF IInv, TypeOK, StartPCs, d
<1>7. ProcessInv'
  <2>1. \A b \in Clients : b # c => mine[b] # d /\ pc'[b] = pc[b]
    BY <1>1, <1>2 DEF IInv, AllocationInv, KnownDevices, Actors, d
  <2>2. UNCHANGED <<mine, tunerOf, call>> /\ mine[c] = d
    BY <1>3 DEF managedVars, d
  <2>3. TrackedPastSpawn'
    BY <1>1, <1>2, <1>4, <2>1, <2>2 DEF IInv, ProcessInv, TrackedPastSpawn, StopPCs
  <2>4. \A a \in Actors : pc'[a] \in {"stopping", "stopped"} => a # c /\ pc'[a] = pc[a]
    BY <1>2
  <2>5. \A a \in Actors : pc[a] \in {"stopping", "stopped"} /\ call[a].saw > 0 => call[a].dev # d
    BY <1>1, <1>4, <2>2 DEF IInv, ProcessInv, NoSpawnAfterStop
  <2>6. NoSpawnAfterStop'
    BY <1>1, <1>2, <1>4, <2>1, <2>2, <2>4, <2>5
    DEF IInv, TypeOK, ProcessInv, NoSpawnAfterStop, DoneIsMade, Retries
  <2>7. StopEndsProcess'
    BY <1>1, <1>4, <2>2, <2>4, <2>5 DEF IInv, ProcessInv, StopEndsProcess, Victim
  <2>8. DoneIsMade'
    BY <1>1, <1>2, <1>4, <2>1, <2>2 DEF IInv, TypeOK, ProcessInv, DoneIsMade, Retries
  <2>9. OnlyRefusedLeft'
    BY <1>1, <1>2, <1>3, <1>4, NewAttempt
    DEF IInv, TypeOK, BetweenAttempts, StartPCs, managedVars, d
  <2> QED BY <2>3, <2>6, <2>7, <2>8, <2>9 DEF ProcessInv
<1> QED BY <1>5, <1>6, <1>7 DEF IInv

\* Only a device that is not stopping is given another process.
LEMMA StartAttemptStep ==
    ASSUME IInv, NEW c \in Clients, StartAttempt(c)
    PROVE  IInv'
<1> DEFINE d == mine[c]
<1>1. pc[c] = "starting" /\ d \in Devices /\ d # NoDevice /\ c \in Actors
  BY OwnsDevice DEF StartAttempt, OwnerPCs, StartPCs, NoDevice
<1>2. /\ pc'[c] \in {"failing", "spawning"} /\ pc' \in [Actors -> PCs]
      /\ \A a \in Actors : a # c => pc'[a] = pc[a]
  BY <1>1 DEF IInv, TypeOK, StartAttempt, Goto, PCs
<1>3. UNCHANGED <<tunerVars, managedVars, mine, call, woken, refs>>
  BY DEF StartAttempt
<1>4. /\ UNCHANGED <<done, stopping, failed, tracked, attempt, alive, refused>>
      /\ Retries(d) /\ (pc'[c] = "spawning" => d \notin stopping)
  BY <1>1, <1>2 DEF IInv, TypeOK, StartAttempt, Goto, processVars
<1> HIDE DEF d
<1>5. TypeOK'
  BY <1>1, <1>2, <1>3, <1>4 DEF IInv, TypeOK, tunerVars, managedVars
<1>6. AllocationInv' /\ StatusInv'
  BY <1>1, <1>2, <1>3, <1>4, StartingFrame DEF IInv, TypeOK, StartPCs, d
<1>7. ProcessInv'
  <2>1. \A b \in Clients : b # c => mine[b] # d /\ pc'[b] = pc[b]
    BY <1>1, <1>2 DEF IInv, AllocationInv, KnownDevices, Actors, d
  <2>2. UNCHANGED <<mine, tunerOf, call>> /\ mine[c] = d
    BY <1>3 DEF managedVars, d
  <2>3. TrackedPastSpawn'
    BY <1>1, <1>2, <1>4, <2>1, <2>2 DEF IInv, ProcessInv, TrackedPastSpawn, StopPCs
  <2>4. \A a \in Actors : pc'[a] \in {"stopping", "stopped"} => a # c /\ pc'[a] = pc[a]
    BY <1>2
  <2>5. \A a \in Actors : pc[a] \in {"stopping", "stopped"} /\ call[a].saw > 0 /\ call[a].dev = d =>
            d \in stopping /\ pc'[c] \notin {"reserved", "spawning", "spawned"}
    BY <1>1, <1>2, <1>4, <2>2 DEF IInv, ProcessInv, NoSpawnAfterStop
  <2>6. NoSpawnAfterStop'
    BY <1>1, <1>2, <1>4, <2>1, <2>2, <2>4, <2>5
    DEF IInv, TypeOK, ProcessInv, NoSpawnAfterStop, DoneIsMade, Retries
  <2>7. StopEndsProcess'
    BY <1>1, <1>4, <2>2, <2>4, <2>5 DEF IInv, ProcessInv, StopEndsProcess, Victim
  <2>8. DoneIsMade'
    BY <1>1, <1>2, <1>4, <2>1, <2>2 DEF IInv, TypeOK, ProcessInv, DoneIsMade, Retries
  <2>9. OnlyRefusedLeft'
    BY <1>1, <1>2, <1>3, <1>4, KeepsRefused DEF BetweenAttempts, Actors, managedVars
  <2> QED BY <2>3, <2>6, <2>7, <2>8, <2>9 DEF ProcessInv
<1> QED BY <1>5, <1>6, <1>7 DEF IInv

\* The unrecorded process of an attempt: no Stop has read an earlier one.
LEMMA SpawnStep ==
    ASSUME IInv, NEW c \in Clients, Spawn(c)
    PROVE  IInv'
<1> DEFINE d == mine[c]
<1>1. pc[c] = "spawning" /\ d \in Devices /\ d # NoDevice /\ d \in 1 .. lastDevice /\ c \in Actors
  BY OwnsDevice DEF Spawn, OwnerPCs, StartPCs, NoDevice
<1>2. /\ pc'[c] = "spawned" /\ pc' \in [Actors -> PCs]
      /\ \A a \in Actors : a # c => pc'[a] = pc[a]
  BY <1>1 DEF IInv, TypeOK, Spawn, Goto, PCs
<1>3. UNCHANGED <<tunerVars, managedVars, mine, call, woken, refs>>
  BY DEF Spawn
<1>4. /\ UNCHANGED <<done, stopping, failed, tracked, refused>>
      /\ attempt' = [attempt EXCEPT ![d] = @ + 1]
      /\ alive' = alive \cup {<<d, attempt[d] + 1>>}
  BY <1>1 DEF IInv, TypeOK, Spawn
<1> HIDE DEF d
<1>5. TypeOK'
  BY <1>1, <1>2, <1>3, <1>4 DEF IInv, TypeOK, tunerVars, managedVars
<1>6. AllocationInv' /\ StatusInv'
  BY <1>1, <1>2, <1>3, <1>4, StartingFrame DEF IInv, TypeOK, StartPCs, d
<1>7. ProcessInv'
  <2>1. \A b \in Clients : b # c => mine[b] # d /\ pc'[b] = pc[b]
    BY <1>1, <1>2 DEF IInv, AllocationInv, KnownDevices, Actors, d
  <2>2. UNCHANGED <<mine, tunerOf, call>> /\ mine[c] = d
    BY <1>3 DEF managedVars, d
  <2>3. TrackedPastSpawn'
    BY <1>1, <1>2, <1>4, <2>1, <2>2 DEF IInv, ProcessInv, TrackedPastSpawn, StopPCs
  <2>4. \A a \in Actors : pc'[a] \in {"stopping", "stopped"} => a # c /\ pc'[a] = pc[a]
    BY <1>2
  <2>5. \A a \in Actors : pc[a] \in {"stopping", "stopped"} /\ call[a].saw > 0 => call[a].dev # d
    BY <1>1, <1>4, <2>2 DEF IInv, ProcessInv, NoSpawnAfterStop
  <2>6. NoSpawnAfterStop'
    BY <1>1, <1>2, <1>4, <2>1, <2>2, <2>4, <2>5
    DEF IInv, TypeOK, ProcessInv, NoSpawnAfterStop, DoneIsMade, Retries
  <2>7. StopEndsProcess'
    BY <1>1, <1>4, <2>2, <2>4, <2>5 DEF IInv, ProcessInv, StopEndsProcess, Victim
  <2>8. DoneIsMade'
    BY <1>1, <1>2, <1>4, <2>1, <2>2 DEF IInv, TypeOK, ProcessInv, DoneIsMade, Retries
  <2>9. OnlyRefusedLeft'
    BY <1>1, <1>2, <1>3, <1>4, NewAttempt
    DEF IInv, TypeOK, BetweenAttempts, StartPCs, managedVars, d
  <2> QED BY <2>3, <2>6, <2>7, <2>8, <2>9 DEF ProcessInv
<1> QED BY <1>5, <1>6, <1>7 DEF IInv

\* The process is recorded once it runs.
LEMMA TrackStep ==
    ASSUME IInv, NEW c \in Clients, Track(c)
    PROVE  IInv'
<1> DEFINE d == mine[c]
<1>1. pc[c] = "spawned" /\ d \in Devices /\ d # NoDevice /\ c \in Actors
  BY OwnsDevice DEF Track, OwnerPCs, StartPCs, NoDevice
<1>2. /\ pc'[c] = "probing" /\ pc' \in [Actors -> PCs]
      /\ \A a \in Actors : a # c => pc'[a] = pc[a]
  BY <1>1 DEF IInv, TypeOK, Track, Goto, PCs
<1>3. UNCHANGED <<tunerVars, managedVars, mine, call, woken, refs>>
  BY DEF Track
<1>4. /\ UNCHANGED <<done, stopping, failed, attempt, alive, refused>>
      /\ tracked' = tracked \cup {d}
  BY DEF Track
<1> HIDE DEF d
<1>5. TypeOK'
  BY <1>1, <1>2, <1>3, <1>4 DEF IInv, TypeOK, tunerVars, managedVars
<1>6. AllocationInv' /\ StatusInv'
  BY <1>1, <1>2, <1>3, <1>4, StartingFrame DEF IInv, TypeOK, StartPCs, d
<1>7. ProcessInv'
  <2>1. \A b \in Clients : b # c => mine[b] # d /\ pc'[b] = pc[b]
    BY <1>1, <1>2 DEF IInv, AllocationInv, KnownDevices, Actors, d
  <2>2. UNCHANGED <<mine, tunerOf, call>> /\ mine[c] = d
    BY <1>3 DEF managedVars, d
  <2>3. TrackedPastSpawn'
    BY <1>1, <1>2, <1>4, <2>1, <2>2 DEF IInv, ProcessInv, TrackedPastSpawn, StopPCs
  <2>4. \A a \in Actors : pc'[a] \in {"stopping", "stopped"} => a # c /\ pc'[a] = pc[a]
    BY <1>2
  <2>5. \A a \in Actors : pc[a] \in {"stopping", "stopped"} /\ call[a].saw > 0 => call[a].dev # d
    BY <1>1, <1>4, <2>2 DEF IInv, ProcessInv, NoSpawnAfterStop
  <2>6. NoSpawnAfterStop'
    BY <1>1, <1>2, <1>4, <2>1, <2>2, <2>4, <2>5
    DEF IInv, TypeOK, ProcessInv, NoSpawnAfterStop, DoneIsMade, Retries
  <2>7. StopEndsProcess'
    BY <1>1, <1>4, <2>2, <2>4, <2>5 DEF IInv, ProcessInv, StopEndsProcess, Victim
  <2>8. DoneIsMade'
    BY <1>1, <1>2, <1>4, <2>1, <2>2 DEF IInv, TypeOK, ProcessInv, DoneIsMade, Retries
  <2>9. OnlyRefusedLeft'
    BY <1>1, <1>2, <1>3, <1>4, KeepsRefused DEF BetweenAttempts, Actors, managedVars
  <2> QED BY <2>3, <2>6, <2>7, <2>8, <2>9 DEF ProcessInv
<1> QED BY <1>5, <1>6, <1>7 DEF IInv

\* The startup probe succeeded.
LEMMA ProbeOkStep ==
    ASSUME IInv, NEW c \in Clients, ProbeOk(c)
    PROVE  IInv'
<1> DEFINE d == mine[c]
<1>1. pc[c] = "probing" /\ d \in Devices /\ d # NoDevice /\ c \in Actors
  BY OwnsDevice DEF ProbeOk, OwnerPCs, StartPCs, NoDevice
<1>2. /\ pc'[c] = "started" /\ pc' \in [Actors -> PCs]
      /\ \A a \in Actors : a # c => pc'[a] = pc[a]
  BY <1>1 DEF IInv, TypeOK, ProbeOk, Goto, PCs
<1>3. UNCHANGED <<tunerVars, managedVars, mine, call, woken, refs>>
  BY DEF ProbeOk
<1>4. /\ UNCHANGED <<done, stopping, failed, tracked, attempt, alive, refused>>
  BY DEF ProbeOk, processVars
<1> HIDE DEF d
<1>5. TypeOK'
  BY <1>1, <1>2, <1>3, <1>4 DEF IInv, TypeOK, tunerVars, managedVars
<1>6. AllocationInv' /\ StatusInv'
  BY <1>1, <1>2, <1>3, <1>4, StartingFrame DEF IInv, TypeOK, StartPCs, d
<1>7. ProcessInv'
  <2>1. \A b \in Clients : b # c => mine[b] # d /\ pc'[b] = pc[b]
    BY <1>1, <1>2 DEF IInv, AllocationInv, KnownDevices, Actors, d
  <2>2. UNCHANGED <<mine, tunerOf, call>> /\ mine[c] = d
    BY <1>3 DEF managedVars, d
  <2>3. TrackedPastSpawn'
    BY <1>1, <1>2, <1>4, <2>1, <2>2 DEF IInv, ProcessInv, TrackedPastSpawn, StopPCs
  <2>4. \A a \in Actors : pc'[a] \in {"stopping", "stopped"} => a # c /\ pc'[a] = pc[a]
    BY <1>2
  <2>5. \A a \in Actors : pc[a] \in {"stopping", "stopped"} /\ call[a].saw > 0 /\ call[a].dev = d =>
            d \in stopping /\ pc'[c] \notin {"reserved", "spawning", "spawned"}
    BY <1>1, <1>2, <1>4, <2>2 DEF IInv, ProcessInv, NoSpawnAfterStop
  <2>6. NoSpawnAfterStop'
    BY <1>1, <1>2, <1>4, <2>1, <2>2, <2>4, <2>5
    DEF IInv, TypeOK, ProcessInv, NoSpawnAfterStop, DoneIsMade, Retries
  <2>7. StopEndsProcess'
    BY <1>1, <1>4, <2>2, <2>4, <2>5 DEF IInv, ProcessInv, StopEndsProcess, Victim
  <2>8. DoneIsMade'
    BY <1>1, <1>2, <1>4, <2>1, <2>2 DEF IInv, TypeOK, ProcessInv, DoneIsMade, Retries
  <2>9. OnlyRefusedLeft'
    BY <1>1, <1>2, <1>3, <1>4, KeepsRefused DEF BetweenAttempts, Actors, managedVars
  <2> QED BY <2>3, <2>6, <2>7, <2>8, <2>9 DEF ProcessInv
<1> QED BY <1>5, <1>6, <1>7 DEF IInv

\* The startup probe failed and the process is forgotten.
LEMMA ProbeFailsStep ==
    ASSUME IInv, NEW c \in Clients, ProbeFails(c)
    PROVE  IInv'
<1> DEFINE d == mine[c]
<1>1. pc[c] = "probing" /\ d \in Devices /\ d # NoDevice /\ c \in Actors
  BY OwnsDevice DEF ProbeFails, OwnerPCs, StartPCs, NoDevice
<1>2. /\ pc'[c] = "unwinding" /\ pc' \in [Actors -> PCs]
      /\ \A a \in Actors : a # c => pc'[a] = pc[a]
  BY <1>1 DEF IInv, TypeOK, ProbeFails, Goto, PCs
<1>3. UNCHANGED <<tunerVars, managedVars, mine, call, woken, refs>>
  BY DEF ProbeFails
<1>4. /\ UNCHANGED <<done, stopping, failed, attempt, alive, refused>>
      /\ tracked' = tracked \ {d}
  BY DEF ProbeFails
<1> HIDE DEF d
<1>5. TypeOK'
  BY <1>1, <1>2, <1>3, <1>4 DEF IInv, TypeOK, tunerVars, managedVars
<1>6. AllocationInv' /\ StatusInv'
  BY <1>1, <1>2, <1>3, <1>4, StartingFrame DEF IInv, TypeOK, StartPCs, d
<1>7. ProcessInv'
  <2>1. \A b \in Clients : b # c => mine[b] # d /\ pc'[b] = pc[b]
    BY <1>1, <1>2 DEF IInv, AllocationInv, KnownDevices, Actors, d
  <2>2. UNCHANGED <<mine, tunerOf, call>> /\ mine[c] = d
    BY <1>3 DEF managedVars, d
  <2>3. TrackedPastSpawn'
    BY <1>1, <1>2, <1>4, <2>1, <2>2 DEF IInv, ProcessInv, TrackedPastSpawn, StopPCs
  <2>4. \A a \in Actors : pc'[a] \in {"stopping", "stopped"} => a # c /\ pc'[a] = pc[a]
    BY <1>2
  <2>5. \A a \in Actors : pc[a] \in {"stopping", "stopped"} /\ call[a].saw > 0 /\ call[a].dev = d =>
            d \in stopping /\ pc'[c] \notin {"reserved", "spawning", "spawned"}
    BY <1>1, <1>2, <1>4, <2>2 DEF IInv, ProcessInv, NoSpawnAfterStop
  <2>6. NoSpawnAfterStop'
    BY <1>1, <1>2, <1>4, <2>1, <2>2, <2>4, <2>5
    DEF IInv, TypeOK, ProcessInv, NoSpawnAfterStop, DoneIsMade, Retries
  <2>7. StopEndsProcess'
    BY <1>1, <1>4, <2>2, <2>4, <2>5 DEF IInv, ProcessInv, StopEndsProcess, Victim
  <2>8. DoneIsMade'
    BY <1>1, <1>2, <1>4, <2>1, <2>2 DEF IInv, TypeOK, ProcessInv, DoneIsMade, Retries
  <2>9. OnlyRefusedLeft'
    BY <1>1, <1>2, <1>3, <1>4, KeepsRefused DEF BetweenAttempts, Actors, managedVars
  <2> QED BY <2>3, <2>6, <2>7, <2>8, <2>9 DEF ProcessInv
<1> QED BY <1>5, <1>6, <1>7 DEF IInv

\* The abandoned process is gone, or cannot be signalled.
LEMMA UnwoundStep ==
    ASSUME IInv, NEW c \in Clients, Unwound(c) \/ UnwindRefused(c)
    PROVE  IInv'
<1> DEFINE d == mine[c]
<1>1. pc[c] = "unwinding" /\ d \in Devices /\ d # NoDevice /\ c \in Actors
  BY OwnsDevice DEF Unwound, UnwindRefused, OwnerPCs, StartPCs, NoDevice
<1>2. /\ pc'[c] \in {"retrying", "failing"} /\ pc' \in [Actors -> PCs]
      /\ \A a \in Actors : a # c => pc'[a] = pc[a]
  BY <1>1 DEF IInv, TypeOK, Unwound, UnwindRefused, AfterUnwinding, Goto, PCs
<1>3. UNCHANGED <<tunerVars, managedVars, mine, call, woken, refs>>
  BY DEF Unwound, UnwindRefused, AfterUnwinding
<1>4. /\ UNCHANGED <<done, stopping, failed, tracked, attempt, alive>>
      /\ (pc'[c] = "retrying" <=> Retries(d))
      /\ refused \subseteq refused' /\ refused' \subseteq alive
  BY <1>1, <1>2
  DEF IInv, TypeOK, Unwound, UnwindRefused, AfterUnwinding, CurrentProcess, Goto, processVars
<1>8. <<d, attempt[d]>> \in alive => <<d, attempt[d]>> \in refused'
  BY DEF Unwound, UnwindRefused, CurrentProcess
<1> HIDE DEF d
<1>5. TypeOK'
  BY <1>1, <1>2, <1>3, <1>4 DEF IInv, TypeOK, tunerVars, managedVars
<1>6. AllocationInv' /\ StatusInv'
  BY <1>1, <1>2, <1>3, <1>4, StartingFrame DEF IInv, TypeOK, StartPCs, d
<1>7. ProcessInv'
  <2>1. \A b \in Clients : b # c => mine[b] # d /\ pc'[b] = pc[b]
    BY <1>1, <1>2 DEF IInv, AllocationInv, KnownDevices, Actors, d
  <2>2. UNCHANGED <<mine, tunerOf, call>> /\ mine[c] = d
    BY <1>3 DEF managedVars, d
  <2>3. TrackedPastSpawn'
    BY <1>1, <1>2, <1>4, <2>1, <2>2 DEF IInv, ProcessInv, TrackedPastSpawn, StopPCs
  <2>4. \A a \in Actors : pc'[a] \in {"stopping", "stopped"} => a # c /\ pc'[a] = pc[a]
    BY <1>2
  <2>5. \A a \in Actors : pc[a] \in {"stopping", "stopped"} /\ call[a].saw > 0 /\ call[a].dev = d =>
            d \in stopping /\ pc'[c] \notin {"reserved", "spawning", "spawned"}
    BY <1>1, <1>2, <1>4, <2>2 DEF IInv, ProcessInv, NoSpawnAfterStop
  <2>6. NoSpawnAfterStop'
    BY <1>1, <1>2, <1>4, <2>1, <2>2, <2>4, <2>5
    DEF IInv, TypeOK, ProcessInv, NoSpawnAfterStop, DoneIsMade, Retries
  <2>7. StopEndsProcess'
    BY <1>1, <1>4, <2>2, <2>4, <2>5 DEF IInv, ProcessInv, StopEndsProcess, Victim
  <2>8. DoneIsMade'
    BY <1>1, <1>2, <1>4, <2>1, <2>2 DEF IInv, TypeOK, ProcessInv, DoneIsMade, Retries
  <2>9. OnlyRefusedLeft'
    <3>1. \A p \in alive : p[1] = d => p \in refused'
      <4>1. \A p \in alive : p[2] = attempt[p[1]] \/ p \in refused
        BY DEF IInv, ProcessInv, OnlyRefusedLeft
      <4>2. \A p \in alive : p = <<p[1], p[2]>>
        BY DEF IInv, TypeOK
      <4> QED BY <1>4, <1>8, <4>1, <4>2
    <3>2. UNCHANGED <<attempt, alive, call, mine, lastDevice>> /\ refused \subseteq refused'
      BY <1>3, <1>4 DEF managedVars
    <3>3. \A b \in Clients : pc'[b] \in BetweenAttempts =>
              \A p \in alive : p[1] = mine[b] => p \in refused'
      BY <2>1, <2>2, <3>1, <3>2 DEF IInv, ProcessInv, OnlyRefusedLeft
    <3>4. \A a \in Actors : pc'[a] \in {"stopCall", "stopping"} => pc'[a] = pc[a]
      BY <1>2
    <3> QED BY <3>2, <3>3, <3>4 DEF IInv, ProcessInv, OnlyRefusedLeft, Victim
  <2> QED BY <2>3, <2>6, <2>7, <2>8, <2>9 DEF ProcessInv
<1> QED BY <1>5, <1>6, <1>7 DEF IInv

\* The next attempt, or the end of the retries.
LEMMA RetryOrFailStep ==
    ASSUME IInv, NEW c \in Clients, RetryOrFail(c)
    PROVE  IInv'
<1> DEFINE d == mine[c]
<1>1. pc[c] = "retrying" /\ d \in Devices /\ d # NoDevice /\ c \in Actors
  BY OwnsDevice DEF RetryOrFail, OwnerPCs, StartPCs, NoDevice
<1>2. /\ pc'[c] \in {"starting", "failing"} /\ pc' \in [Actors -> PCs]
      /\ \A a \in Actors : a # c => pc'[a] = pc[a]
  BY <1>1 DEF IInv, TypeOK, RetryOrFail, Goto, PCs
<1>3. UNCHANGED <<tunerVars, managedVars, mine, call, woken, refs>>
  BY DEF RetryOrFail
<1>4. /\ UNCHANGED <<done, stopping, failed, tracked, attempt, alive, refused>>
  BY DEF RetryOrFail, processVars
<1> HIDE DEF d
<1>5. TypeOK'
  BY <1>1, <1>2, <1>3, <1>4 DEF IInv, TypeOK, tunerVars, managedVars
<1>6. AllocationInv' /\ StatusInv'
  BY <1>1, <1>2, <1>3, <1>4, StartingFrame DEF IInv, TypeOK, StartPCs, d
<1>7. ProcessInv'
  <2>1. \A b \in Clients : b # c => mine[b] # d /\ pc'[b] = pc[b]
    BY <1>1, <1>2 DEF IInv, AllocationInv, KnownDevices, Actors, d
  <2>2. UNCHANGED <<mine, tunerOf, call>> /\ mine[c] = d
    BY <1>3 DEF managedVars, d
  <2>3. TrackedPastSpawn'
    BY <1>1, <1>2, <1>4, <2>1, <2>2 DEF IInv, ProcessInv, TrackedPastSpawn, StopPCs
  <2>4. \A a \in Actors : pc'[a] \in {"stopping", "stopped"} => a # c /\ pc'[a] = pc[a]
    BY <1>2
  <2>5. \A a \in Actors : pc[a] \in {"stopping", "stopped"} /\ call[a].saw > 0 /\ call[a].dev = d =>
            d \in stopping /\ pc'[c] \notin {"reserved", "spawning", "spawned"}
    BY <1>1, <1>2, <1>4, <2>2 DEF IInv, ProcessInv, NoSpawnAfterStop
  <2>6. NoSpawnAfterStop'
    BY <1>1, <1>2, <1>4, <2>1, <2>2, <2>4, <2>5
    DEF IInv, TypeOK, ProcessInv, NoSpawnAfterStop, DoneIsMade, Retries
  <2>7. StopEndsProcess'
    BY <1>1, <1>4, <2>2, <2>4, <2>5 DEF IInv, ProcessInv, StopEndsProcess, Victim
  <2>8. DoneIsMade'
    BY <1>1, <1>2, <1>4, <2>1, <2>2 DEF IInv, TypeOK, ProcessInv, DoneIsMade, Retries
  <2>9. OnlyRefusedLeft'
    BY <1>1, <1>2, <1>3, <1>4, KeepsRefused DEF BetweenAttempts, Actors, managedVars
  <2> QED BY <2>3, <2>6, <2>7, <2>8, <2>9 DEF ProcessInv
<1> QED BY <1>5, <1>6, <1>7 DEF IInv

\* A failed start marks the tuner faulty if the device still holds it.
LEMMA StartFailedStep ==
    ASSUME IInv, NEW c \in Clients, StartFailed(c)
    PROVE  IInv'
<1> DEFINE d == mine[c]
<1>1. /\ pc[c] = "failing" /\ pc[c] \in StartPCs
      /\ d \in Devices /\ d \in 1 .. lastDevice /\ d # NoDevice /\ c \in Actors /\ c \notin Admins
  BY OwnsDevice, RequestsTyped DEF StartFailed, OwnerPCs, StartPCs, NoDevice
<1>2. pc'[c] = "releasing" /\ pc' \in [Actors -> PCs] /\ \A a \in Actors : a # c => pc'[a] = pc[a]
  BY <1>1 DEF IInv, TypeOK, StartFailed, Goto, PCs
<1>3. /\ UNCHANGED <<inUse, reserved, device, users, nextByType, lastDevice, tunerOf, released,
                     watched, stopped, stopping, failed, attempt, alive, refused, mine, call, woken, refs>>
      /\ done' = [done EXCEPT ![d] = "nil"] /\ tracked' = tracked \ {d}
      /\ running' \subseteq running
      /\ fault' = IF Current(d) THEN fault \cup {tunerOf[d]} ELSE fault
  BY DEF StartFailed, MarkFault, managedVars
<1> HIDE DEF d
<1>4. TypeOK'
  BY <1>1, <1>2, <1>3 DEF IInv, TypeOK
<1>5. \A b \in Clients : b # c => mine[b] # d /\ pc'[b] = pc[b]
  BY <1>1, <1>2 DEF IInv, AllocationInv, KnownDevices, Actors, d
<1>6. AllocationInv'
  <2>1. watched' \cup tracked' \subseteq 1 .. lastDevice
    BY <1>3 DEF IInv, AllocationInv, KnownDevices
  <2>2. \A a \in Actors : pc'[a] \in StopPCs => pc[a] \in StopPCs /\ call'[a].dev = call[a].dev
    BY <1>2, <1>3 DEF StopPCs
  <2>3. \A b \in Clients : /\ pc'[b] \in OwnerPCs => pc[b] \in OwnerPCs
                           /\ pc'[b] \in {"waiting", "grabWait"} => pc'[b] = pc[b]
    BY <1>1, <1>2 DEF Actors, OwnerPCs
  <2>4. \A a \in Admins : pc'[a] = pc[a]
    BY <1>1, <1>2 DEF Actors
  <2> QED BY <1>3, <2>1, <2>2, <2>3, <2>4, SameAllocation
<1>7. ProcessInv'
  <2>1. mine[c] = d
    BY DEF d
  <2>2. TrackedPastSpawn' /\ StopEndsProcess' /\ NoSpawnAfterStop'
    BY <1>2, <1>3, <1>5, <2>1
    DEF IInv, ProcessInv, TrackedPastSpawn, StopEndsProcess, Victim, NoSpawnAfterStop, Retries
  <2>3. DoneIsMade'
    BY <1>1, <1>2, <1>3, <1>5, <2>1 DEF IInv, TypeOK, ProcessInv, DoneIsMade, Retries
  <2>4. OnlyRefusedLeft'
    BY <1>2, <1>3, KeepsRefused DEF BetweenAttempts, Actors
  <2> QED BY <2>2, <2>3, <2>4 DEF ProcessInv
<1>8. \A t \in running \cup stopped \cup fault : device[t] # d
  BY <1>1, UnmarkedDevice DEF d
<1>9. StatusInv'
  <2>1. UnmarkedBefore'
    <3>1. d \notin watched
      BY <1>1 DEF IInv, StatusInv, UnmarkedBefore, StopPCs, d
    <3>2. \A e : Current(e)' => Current(e) /\ (Current(d) /\ tunerOf[e] = tunerOf[d] => e = d)
      BY <1>3 DEF Current
    <3>3. \A b \in Clients : pc'[b] \in StartPCs => b # c /\ pc[b] \in StartPCs
      BY <1>2, <1>5 DEF StartPCs
    <3>4. \A b \in Clients : pc'[b] \in StartPCs /\ Current(mine[b])' =>
              tunerOf'[mine'[b]] \notin running' \cup stopped' \cup fault'
      BY <1>3, <1>5, <3>2, <3>3 DEF IInv, StatusInv, UnmarkedBefore, Current
    <3>5. \A e \in watched' : Current(e)' => tunerOf'[e] \notin stopped' \cup fault'
      BY <1>3, <3>1, <3>2 DEF IInv, StatusInv, UnmarkedBefore
    <3>6. \A b \in Clients : mine'[b] \in watched' => pc'[b] \in StopPCs \cup {"streaming"}
      BY <1>3, <1>5, <3>1 DEF IInv, StatusInv, UnmarkedBefore, d
    <3> QED BY <3>4, <3>5, <3>6 DEF UnmarkedBefore
  <2>2. StatusBelongsToReservation'
    <3>1. \A b \in Clients : pc[b] = "releasing" => pc'[b] = "releasing"
      BY <1>2, <1>5
    <3>2. \A t \in running \cup stopped \cup fault : done'[device[t]] = done[device[t]]
      BY <1>3, <1>8 DEF IInv, TypeOK
    <3>3. \A t \in fault' : \/ t \in fault
                            \/ t \in inUse /\ device[t] = d /\ t \notin running \cup stopped
      BY <1>3, <1>8 DEF Current
    <3>4. pc'[c] = "releasing" /\ mine'[c] = d
      BY <1>2, <1>3 DEF d
    <3> QED
      BY <1>3, <3>1, <3>2, <3>3, <3>4 DEF IInv, StatusInv, StatusBelongsToReservation
  <2> QED BY <2>1, <2>2 DEF StatusInv
<1> QED BY <1>4, <1>6, <1>7, <1>9 DEF IInv

\* A start that succeeded shows the tuner running if the device still holds it.
LEMMA MarkRunningStep ==
    ASSUME IInv, NEW c \in Clients, MarkRunning(c)
    PROVE  IInv'
<1> DEFINE d == mine[c]
<1>1. /\ pc[c] = "started" /\ pc[c] \in StartPCs
      /\ d \in Devices /\ d \in 1 .. lastDevice /\ d # NoDevice /\ c \in Actors /\ c \notin Admins
  BY OwnsDevice, RequestsTyped DEF MarkRunning, OwnerPCs, StartPCs, NoDevice
<1>2. pc'[c] = "streaming" /\ pc' \in [Actors -> PCs] /\ \A a \in Actors : a # c => pc'[a] = pc[a]
  BY <1>1 DEF IInv, TypeOK, MarkRunning, Goto, PCs
<1>3. /\ UNCHANGED <<inUse, fault, reserved, device, users, nextByType, lastDevice, tunerOf, released,
                     done, stopping, failed, tracked, attempt, alive, refused, mine, call, woken, refs>>
      /\ watched' = watched \cup {d} /\ stopped' \subseteq stopped
      /\ running' = IF Current(d) THEN running \cup {tunerOf[d]} ELSE running
  BY DEF MarkRunning, processVars
<1> HIDE DEF d
<1>4. TypeOK'
  BY <1>1, <1>2, <1>3 DEF IInv, TypeOK
<1>5. \A b \in Clients : b # c => mine[b] # d /\ pc'[b] = pc[b]
  BY <1>1, <1>2 DEF IInv, AllocationInv, KnownDevices, Actors, d
<1>6. AllocationInv'
  <2>1. watched' \cup tracked' \subseteq 1 .. lastDevice
    BY <1>1, <1>3 DEF IInv, AllocationInv, KnownDevices
  <2>2. \A a \in Actors : pc'[a] \in StopPCs => pc[a] \in StopPCs /\ call'[a].dev = call[a].dev
    BY <1>2, <1>3 DEF StopPCs
  <2>3. \A b \in Clients : /\ pc'[b] \in OwnerPCs => pc[b] \in OwnerPCs
                           /\ pc'[b] \in {"waiting", "grabWait"} => pc'[b] = pc[b]
    BY <1>1, <1>2 DEF Actors, OwnerPCs
  <2>4. \A a \in Admins : pc'[a] = pc[a]
    BY <1>1, <1>2 DEF Actors
  <2> QED BY <1>3, <2>1, <2>2, <2>3, <2>4, SameAllocation
<1>7. ProcessInv'
  <2>1. TrackedPastSpawn' /\ StopEndsProcess' /\ NoSpawnAfterStop'
    BY <1>2, <1>3, <1>5
    DEF IInv, ProcessInv, TrackedPastSpawn, StopEndsProcess, Victim, NoSpawnAfterStop, Retries
  <2>2. DoneIsMade'
    BY <1>2, <1>3, <1>5 DEF IInv, ProcessInv, DoneIsMade, Retries
  <2>3. OnlyRefusedLeft'
    BY <1>2, <1>3, KeepsRefused DEF BetweenAttempts, Actors
  <2> QED BY <2>1, <2>2, <2>3 DEF ProcessInv
<1>8. /\ \A t \in running \cup stopped \cup fault : device[t] # d
      /\ Current(d) => tunerOf[d] \notin running \cup stopped \cup fault
  BY <1>1, UnmarkedDevice DEF IInv, StatusInv, UnmarkedBefore, d
<1>9. StatusInv'
  <2>1. UnmarkedBefore'
    <3>1. \A e : Current(e)' => Current(e) /\ (Current(d) /\ tunerOf[e] = tunerOf[d] => e = d)
      BY <1>3 DEF Current
    <3>2. \A b \in Clients : pc'[b] \in StartPCs => b # c /\ pc[b] \in StartPCs
      BY <1>2, <1>5 DEF StartPCs
    <3>3. \A b \in Clients : pc'[b] \in StartPCs /\ Current(mine[b])' =>
              tunerOf'[mine'[b]] \notin running' \cup stopped' \cup fault'
      BY <1>3, <1>5, <3>1, <3>2 DEF IInv, StatusInv, UnmarkedBefore, Current
    <3>4. \A e \in watched' : Current(e)' => tunerOf'[e] \notin stopped' \cup fault'
      BY <1>3, <1>8, <3>1 DEF IInv, StatusInv, UnmarkedBefore
    <3>5. \A b \in Clients : mine'[b] \in watched' => pc'[b] \in StopPCs \cup {"streaming"}
      BY <1>2, <1>3, <1>5 DEF IInv, StatusInv, UnmarkedBefore
    <3> QED BY <3>3, <3>4, <3>5 DEF UnmarkedBefore
  <2>2. StatusBelongsToReservation'
    <3>1. \A b \in Clients : pc[b] = "releasing" => pc'[b] = "releasing"
      BY <1>1, <1>5
    <3>2. Current(d) => tunerOf[d] \in inUse /\ device[tunerOf[d]] = d
      BY DEF Current
    <3>3. done[d] # "nil"
      BY <1>1 DEF IInv, ProcessInv, DoneIsMade, d
    <3> QED
      BY <1>3, <1>8, <3>1, <3>2, <3>3 DEF IInv, StatusInv, StatusBelongsToReservation
  <2> QED BY <2>1, <2>2 DEF StatusInv
<1> QED BY <1>4, <1>6, <1>7, <1>9 DEF IInv

\* The exit of a process and the end of the copy change no mark.
LEMMA CopyStep ==
    ASSUME IInv, NEW d \in Devices,
           CopyRawFinish(d) \/ \E k \in 1 .. attempt[d] : ProcessExit(<<d, k>>)
    PROVE  IInv'
<1>1. /\ UNCHANGED <<tunerVars, managedVars, stopping, tracked, attempt, actorVars, refs>>
      /\ alive' \subseteq alive /\ refused' = refused \cap alive'
      /\ \/ UNCHANGED <<done, failed>>
         \/ done[d] = "open" /\ done' = [done EXCEPT ![d] = "closed"]
            /\ failed' \in {failed, failed \cup {d}}
  BY DEF ProcessExit, CopyRawFinish, IInv, TypeOK
<1>2. /\ \A e \in Devices : done[e] # "nil" => done'[e] # "nil"
      /\ \A e \in Devices : done[e] = "closed" => done'[e] = "closed" /\ (e \in failed' <=> e \in failed)
  BY <1>1 DEF IInv, TypeOK
<1>3. TypeOK'
  BY <1>1 DEF IInv, TypeOK, tunerVars, managedVars, actorVars
<1>4. AllocationInv'
  <2>1. watched' \cup tracked' \subseteq 1 .. lastDevice
    BY <1>1 DEF IInv, AllocationInv, KnownDevices, managedVars
  <2> QED BY <1>1, <2>1, SameAllocation DEF tunerVars, managedVars, actorVars
<1>5. ProcessInv'
  BY <1>1, <1>2, SameProcesses DEF managedVars, actorVars
<1>6. StatusInv'
  <2>1. \A t \in running \cup stopped \cup fault : device[t] \in Devices
    BY BoundsAreNatural DEF IInv, TypeOK, StatusInv, StatusBelongsToReservation, AllocationInv,
                            ReservationExclusive, Devices
  <2> QED
    BY <1>1, <1>2, <2>1, SameStatus DEF tunerVars, managedVars, actorVars
<1> QED BY <1>3, <1>4, <1>5, <1>6 DEF IInv

\* The completion goroutine marks only the tuner its device still holds.
LEMMA CompletedStep ==
    ASSUME IInv, NEW d \in Devices, Completed(d)
    PROVE  IInv'
<1>1. /\ d \in watched /\ watched' = watched \ {d} /\ done[d] = "closed" /\ running' \subseteq running
      /\ UNCHANGED <<inUse, reserved, device, users, nextByType, lastDevice, tunerOf, released,
                     processVars, actorVars, refs>>
  BY DEF Completed, MarkFault
<1>2. \/ UNCHANGED <<running, stopped, fault>>
      \/ /\ Current(d) /\ running' = running \ {tunerOf[d]}
         /\ \/ d \in failed /\ fault' = fault \cup {tunerOf[d]} /\ UNCHANGED stopped
            \/ d \notin failed /\ stopped' = stopped \cup {tunerOf[d]} /\ UNCHANGED fault
  BY DEF Completed, MarkFault
<1>3. tunerOf[d] \in Tuners
  BY DEF IInv, TypeOK
<1>4. TypeOK'
  BY <1>1, <1>2, <1>3 DEF IInv, TypeOK, processVars, actorVars
<1>5. AllocationInv'
  <2>1. watched' \cup tracked' \subseteq 1 .. lastDevice
    BY <1>1 DEF IInv, AllocationInv, KnownDevices, processVars
  <2>2. fault \subseteq fault'
    BY <1>2
  <2> QED BY <1>1, <2>1, <2>2, SameAllocation DEF actorVars
<1>6. ProcessInv'
  BY <1>1, SameProcesses DEF processVars, actorVars
<1>7. StatusInv'
  <2>1. UNCHANGED <<mine, pc, done, failed>>
    BY <1>1 DEF processVars, actorVars
  <2>2. Current(d) => tunerOf[d] \notin stopped \cup fault
    BY <1>1 DEF IInv, StatusInv, UnmarkedBefore
  <2>3. UnmarkedBefore'
    <3>1. stopped' \cup fault' \subseteq stopped \cup fault \cup (IF Current(d) THEN {tunerOf[d]} ELSE {})
      BY <1>2
    <3>2. \A e : Current(e)' => Current(e) /\ (Current(d) /\ tunerOf[e] = tunerOf[d] => e = d)
      BY <1>1 DEF Current
    <3>3. \A c \in Clients : pc[c] \in StartPCs => mine[c] # d
      BY <1>1 DEF IInv, StatusInv, UnmarkedBefore, StartPCs, StopPCs
    <3>4. \A c \in Clients : pc'[c] \in StartPCs /\ Current(mine[c])' =>
              tunerOf'[mine'[c]] \notin running' \cup stopped' \cup fault'
      BY <1>1, <2>1, <3>1, <3>2, <3>3 DEF IInv, StatusInv, UnmarkedBefore, Current
    <3>5. \A e \in watched' : Current(e)' => tunerOf'[e] \notin stopped' \cup fault'
      BY <1>1, <3>1, <3>2 DEF IInv, StatusInv, UnmarkedBefore
    <3>6. \A c \in Clients : mine'[c] \in watched' => pc'[c] \in StopPCs \cup {"streaming"}
      BY <1>1, <2>1 DEF IInv, StatusInv, UnmarkedBefore
    <3> QED BY <3>4, <3>5, <3>6 DEF UnmarkedBefore
  <2>4. StatusBelongsToReservation'
    <3>1. Current(d) => tunerOf[d] \in inUse /\ device[tunerOf[d]] = d
      BY DEF Current
    <3> QED
      BY <1>1, <1>2, <2>1, <2>2, <3>1 DEF IInv, StatusInv, StatusBelongsToReservation
  <2> QED BY <2>3, <2>4 DEF StatusInv
<1> QED BY <1>4, <1>5, <1>6, <1>7 DEF IInv

-----------------------------------------------------------------------------
(* The theorems                                                            *)

\* NewTunerManager establishes the invariant.
LEMMA InitInv == Init => IInv
<1> SUFFICES ASSUME Init PROVE IInv
  OBVIOUS
<1>1. TypeOK
  <2>1. 0 \in Tuners
    BY TunersConfigured DEF Tuners
  <2>2. NoCall \in [dev : Devices \cup {NoDevice}, saw : Nat, waits : BOOLEAN, err : BOOLEAN]
    BY DEF NoCall
  <2>3. /\ users \in [Tuners -> [Viewers -> Nat]]
        /\ refs \in [Viewers -> [Devices -> 0 .. MaxRefs]]
    BY BoundsAreNatural DEF Init
  <2>4. lastDevice \in 0 .. MaxDevices
    BY BoundsAreNatural DEF Init
  <2>5. call \in [Actors -> [dev : Devices \cup {NoDevice}, saw : Nat,
                             waits : BOOLEAN, err : BOOLEAN]]
    BY <2>2 DEF Init
  <2> QED BY <2>1, <2>3, <2>4, <2>5 DEF Init, TypeOK, PCs
<1>2. AllocationInv
  BY DEF Init, AllocationInv, ReservationExclusive, KnownDevices, GrabsWake, NoLostWakeup,
         StopPCs, StartPCs, OwnerPCs, Actors, NoDevice
<1>3. ProcessInv
  BY DEF Init, ProcessInv, TrackedPastSpawn, NoSpawnAfterStop, StopEndsProcess, OnlyRefusedLeft,
         DoneIsMade, Actors
<1>4. StatusInv
  BY DEF Init, StatusInv, UnmarkedBefore, StatusBelongsToReservation, StartPCs, Actors
<1> QED BY <1>1, <1>2, <1>3, <1>4 DEF IInv

\* tryAcquireLocked, whatever it finds.
LEMMA TryAcquireStep ==
    ASSUME IInv, NEW c \in Clients, TryAcquire(c), pc[c] \in {"idle", "waiting", "grabWait"}
    PROVE  IInv'
BY AcquireFreeStep, AcquireGrabStep, AcquireNothingStep DEF TryAcquire

\* The parts of the manager's protocol - who holds which tuner, who waits, which
\* process runs and what the status shows - are consistent after every step.
THEOREM TunerInductive == Spec => []IInv
<1>1. ASSUME IInv, [Next]_vars PROVE IInv'
  <2>1. CASE UNCHANGED vars
    <3>1. UNCHANGED <<tunerVars, managedVars, processVars, actorVars, refs>>
      BY <2>1 DEF vars
    <3>2. /\ users' \in [Tuners -> [Viewers -> Nat]]
          /\ refs' \in [Viewers -> [Devices -> 0 .. MaxRefs]]
      BY <1>1, <3>1 DEF IInv, TypeOK, tunerVars
    <3> QED BY <1>1, <3>1, <3>2, QuietStep DEF tunerVars
  <2>2. ASSUME NEW c \in Clients, Acquire(c) PROVE IInv'
    BY <1>1, <2>2, TryAcquireStep, AcquireCanceledStep DEF Acquire, AcquireDevice, AcquireAgain
  <2>3. ASSUME NEW c \in Clients, OwnerStop(c) PROVE IInv'
    BY <1>1, <2>3, OwnerStopStep
  <2>4. ASSUME NEW c \in Clients, Start(c) PROVE IInv'
    BY <1>1, <2>4, StartBeginStep, StartOnceStep, StartOnceUnopenedStep, SpawnFailsStep,
       StartAttemptStep, SpawnStep, TrackStep, ProbeOkStep, ProbeFailsStep, UnwoundStep,
       RetryOrFailStep, StartFailedStep, StartFailedReleaseStep, MarkRunningStep DEF Start
  <2>5. ASSUME NEW a \in Actors, Stop(a) PROVE IInv'
    BY <1>1, <2>5, StopBeginStep, StopRefusedStep, StopEndStep, StopReleaseStep DEF Stop
  <2>6. ASSUME NEW a \in Admins, NEW t \in Tuners, KillProcess(a, t) PROVE IInv'
    BY <1>1, <2>6, KillProcessStep
  <2>7. ASSUME NEW d \in Devices, Process(d) PROVE IInv'
    BY <1>1, <2>7, CopyStep, CompletedStep DEF Process
  <2>8. ASSUME NEW v \in Viewers, NEW d \in Devices, AddUser(v, d) \/ RemoveUser(v, d)
        PROVE  IInv'
    BY <1>1, <2>8, UsersStep
  <2> QED
    BY <1>1, <2>1, <2>2, <2>3, <2>4, <2>5, <2>6, <2>7, <2>8 DEF Next
<1> QED BY <1>1, InitInv, PTL DEF Spec

\* Every field of TunerManager, tunerRuntime and the devices keeps its type; in
\* particular the round-robin index stays inside the configuration.
THEOREM TunerTypeCorrect == Spec => []TypeOK
<1>1. IInv => TypeOK
  BY DEF IInv
<1> QED BY <1>1, TunerInductive, PTL

\* A tuner in use belongs to exactly one unreleased device, however grabs, kills
\* and the owner's Start and Stop interleave.
THEOREM OneReservationPerTuner == Spec => []ReservationExclusive
<1>1. IInv => ReservationExclusive
  BY DEF IInv, AllocationInv
<1> QED BY <1>1, TunerInductive, PTL

\* No request sleeps through the release it waits for.
THEOREM WaitersAreWoken == Spec => []NoLostWakeup
<1>1. IInv => NoLostWakeup
  BY DEF IInv, AllocationInv
<1> QED BY <1>1, TunerInductive, PTL

\* The status of a tuner is about the device that holds it.
THEOREM StatusIsCurrent == Spec => []StatusBelongsToReservation
<1>1. IInv => StatusBelongsToReservation
  BY DEF IInv, StatusInv
<1> QED BY <1>1, TunerInductive, PTL

\* A Stop that found a process releases the tuner only after the process ended,
\* also when it raced a start with retries.
THEOREM StopIsEffective == Spec => []StopEndsProcess
<1>1. IInv => StopEndsProcess
  BY DEF IInv, ProcessInv
<1> QED BY <1>1, TunerInductive, PTL

-----------------------------------------------------------------------------
(* Users of the shared streams                                             *)

\* One token for every reference that v holds through a device of tuner t.
Tokens(t, v) ==
    {p \in Devices \X (1 .. MaxRefs) : tunerOf[p[1]] = t /\ p[2] <= refs[v][p[1]]}

\* No tuner counts a user more often than the user has streams open through its
\* devices, the released ones included; nothing is open through a device to come.
UsersBacked ==
    /\ \A v \in Viewers, d \in Devices : d > lastDevice => refs[v][d] = 0
    /\ \A t \in Tuners, v \in Viewers : users[t][v] <= Cardinality(Tokens(t, v))

LEMMA TokensFinite ==
    ASSUME NEW t, NEW v PROVE IsFiniteSet(Tokens(t, v)) /\ Cardinality(Tokens(t, v)) \in Nat
<1>1. IsFiniteSet(Devices \X (1 .. MaxRefs))
  <2>1. IsFiniteSet(Devices) /\ IsFiniteSet(1 .. MaxRefs)
    BY FS_Interval, BoundsAreNatural DEF Devices
  <2> QED BY <2>1, FS_Product
<1>2. IsFiniteSet(Tokens(t, v))
  BY <1>1, FS_Subset DEF Tokens
<1> QED BY <1>2, FS_CardinalityType

\* What a step may do to the counts: forget those of one tuner, make a device,
\* add a reference or drop one.
LEMMA UserSteps ==
    ASSUME IInv, [Next]_vars
    PROVE  \/ /\ UNCHANGED <<refs, lastDevice, tunerOf>>
              /\ \/ users' = users
                 \/ \E t : users' = [users EXCEPT ![t] = [v \in Viewers |-> 0]]
           \/ /\ UNCHANGED <<refs, users>>
              /\ lastDevice' = lastDevice + 1 /\ lastDevice < MaxDevices
              /\ \E t : tunerOf' = [tunerOf EXCEPT ![lastDevice + 1] = t]
           \/ \E v \in Viewers, d \in Devices : AddUser(v, d) \/ RemoveUser(v, d)
<1> DEFINE Same == /\ UNCHANGED <<refs, lastDevice, tunerOf>>
                   /\ \/ users' = users
                      \/ \E t : users' = [users EXCEPT ![t] = [v \in Viewers |-> 0]]
<1>1. ASSUME NEW d, ReleaseOnce(d), UNCHANGED <<refs, lastDevice, tunerOf>> PROVE Same
  BY <1>1 DEF ReleaseOnce, Release, ResetReservation
<1>2. ASSUME NEW a, Stop(a) PROVE Same
  <2>1. CASE StopRelease(a)
    BY <1>1, <2>1 DEF StopRelease
  <2>2. CASE ~StopRelease(a)
    BY <1>2, <2>2 DEF Stop, StopBegin, StopRefused, StopReturn, StopExpire, tunerVars, managedVars
  <2> QED BY <2>1, <2>2
<1>3. ASSUME NEW c, Start(c) PROVE Same
  <2>1. CASE StartFailedRelease(c)
    BY <1>1, <2>1 DEF StartFailedRelease
  <2>2. CASE ~StartFailedRelease(c)
    BY <1>3, <2>2 DEF Start, StartBegin, StartOnce, StartOnceUnopened, SpawnFails, StartAttempt,
       Spawn, Track, ProbeOk, ProbeFails, Unwound, UnwindRefused, AfterUnwinding, RetryOrFail,
       StartFailed, MarkRunning,
       tunerVars, managedVars
  <2> QED BY <2>1, <2>2
<1>4. ASSUME \/ \E c : \/ AcquireGrab(c) \/ AcquireNothing(c) \/ AcquireCanceled(c) \/ OwnerStop(c)
             \/ \E a, t : KillProcess(a, t)
             \/ \E d : Process(d)
             \/ UNCHANGED vars
      PROVE  Same
  BY <1>4 DEF AcquireGrab, AcquireNothing, AcquireCanceled, OwnerStop, KillProcess, Process,
     ProcessExit, CopyRawFinish, Completed, vars, tunerVars, managedVars
<1>5. ASSUME NEW c, AcquireFree(c)
      PROVE  /\ UNCHANGED <<refs, users>>
             /\ lastDevice' = lastDevice + 1 /\ lastDevice < MaxDevices
             /\ \E t : tunerOf' = [tunerOf EXCEPT ![lastDevice + 1] = t]
  BY <1>5 DEF AcquireFree, ReserveLocked
<1> HIDE DEF Same
<1>6. \/ Same \/ \E c : AcquireFree(c)
      \/ \E v \in Viewers, d \in Devices : AddUser(v, d) \/ RemoveUser(v, d)
  BY <1>2, <1>3, <1>4 DEF Next, Acquire, AcquireDevice, AcquireAgain, TryAcquire
<1> QED BY <1>5, <1>6 DEF Same

\* Every step keeps the counts backed.
LEMMA UsersBackedStep ==
    ASSUME IInv, UsersBacked, [Next]_vars PROVE UsersBacked'
<1>t. /\ lastDevice \in Nat /\ MaxDevices \in Nat /\ MaxRefs \in Nat
      /\ tunerOf \in [Devices -> Tuners] /\ users \in [Tuners -> [Viewers -> Nat]]
      /\ refs \in [Viewers -> [Devices -> 0 .. MaxRefs]]
  BY BoundsAreNatural DEF IInv, TypeOK
<1>1. CASE /\ UNCHANGED <<refs, lastDevice, tunerOf>>
           /\ \/ users' = users
              \/ \E t : users' = [users EXCEPT ![t] = [v \in Viewers |-> 0]]
  <2>1. \A t, v : Tokens(t, v)' = Tokens(t, v)
    BY <1>1 DEF Tokens
  <2>2. ASSUME NEW t \in Tuners, NEW v \in Viewers PROVE users'[t][v] = users[t][v] \/ users'[t][v] = 0
    BY <1>1, <1>t
  <2>3. ASSUME NEW t \in Tuners, NEW v \in Viewers
        PROVE  users'[t][v] <= Cardinality(Tokens(t, v)')
    BY <2>1, <2>2, TokensFinite, <1>t DEF UsersBacked
  <2> QED BY <1>1, <2>3 DEF UsersBacked
<1>2. CASE /\ UNCHANGED <<refs, users>>
           /\ lastDevice' = lastDevice + 1 /\ lastDevice < MaxDevices
           /\ \E t : tunerOf' = [tunerOf EXCEPT ![lastDevice + 1] = t]
  <2>1. \A d \in Devices : d # lastDevice + 1 => tunerOf'[d] = tunerOf[d]
    BY <1>2, <1>t
  <2>2. \A v \in Viewers : refs[v][lastDevice + 1] = 0
    BY <1>2, <1>t DEF UsersBacked, Devices
  <2>3. ASSUME NEW t \in Tuners, NEW v \in Viewers PROVE Tokens(t, v)' = Tokens(t, v)
    <3>1. \A p \in Devices \X (1 .. MaxRefs) : p[2] <= refs[v][p[1]] => p[1] # lastDevice + 1
      BY <2>2
    <3> QED BY <1>2, <2>1, <3>1 DEF Tokens
  <2>4. \A v \in Viewers, d \in Devices : d > lastDevice' => refs'[v][d] = 0
    BY <1>2, <1>t DEF UsersBacked, Devices
  <2> QED BY <1>2, <2>3, <2>4 DEF UsersBacked
<1>3. ASSUME NEW v \in Viewers, NEW d \in Devices, AddUser(v, d) \/ RemoveUser(v, d)
      PROVE  UsersBacked'
  <2>u. PICK u \in Tuners : u = tunerOf[d]
    BY <1>t
  <2>n. PICK n \in 0 .. MaxRefs : n = refs[v][d]
    BY <1>t
  <2>1. /\ users[u][v] \in Nat /\ users[u][v] <= Cardinality(Tokens(u, v))
        /\ lastDevice' = lastDevice /\ tunerOf' = tunerOf
    BY <1>3, <1>t DEF AddUser, RemoveUser, managedVars, UsersBacked
  <2>2. /\ \A w \in Viewers, e \in Devices : w # v \/ e # d => refs'[w][e] = refs[w][e]
        /\ \A t \in Tuners, w \in Viewers : t # u \/ w # v => users'[t][w] = users[t][w]
    BY <1>3, <1>t, <2>u DEF AddUser, RemoveUser
  <2>d. ASSUME d <= lastDevice, NEW w \in Viewers, NEW e \in Devices, e > lastDevice'
        PROVE  refs'[w][e] = 0
    <3>1. e # d /\ e > lastDevice
      BY <2>1, <2>d, <1>t DEF Devices
    <3> QED BY <2>2, <3>1 DEF UsersBacked
  <2>p. \A p \in Devices \X (1 .. MaxRefs) :
          /\ p[1] \in Devices /\ p[2] \in 1 .. MaxRefs /\ p = <<p[1], p[2]>>
          /\ p[1] # d => refs'[v][p[1]] = refs[v][p[1]]
    BY <2>2
  <2>3. ASSUME NEW t \in Tuners, NEW w \in Viewers, t # u \/ w # v
        PROVE  Tokens(t, w)' = Tokens(t, w)
    <3>1. \A p \in Devices \X (1 .. MaxRefs) : tunerOf[p[1]] = t => refs'[w][p[1]] = refs[w][p[1]]
      BY <2>2, <2>3, <2>u
    <3> QED BY <2>1, <3>1 DEF Tokens
  <2>e. ASSUME NEW t \in Tuners, NEW w \in Viewers, t # u \/ w # v
        PROVE  users'[t][w] <= Cardinality(Tokens(t, w)')
    BY <2>2, <2>3, <2>e DEF UsersBacked
  <2>4. CASE AddUser(v, d)
    <3>1. /\ d <= lastDevice /\ n + 1 \in 1 .. MaxRefs /\ refs'[v][d] = n + 1
          /\ users'[u][v] = users[u][v] + 1
      BY <2>u, <2>n, <2>4, <1>t DEF AddUser
    <3>2. Tokens(u, v)' = Tokens(u, v) \cup {<<d, n + 1>>} /\ <<d, n + 1>> \notin Tokens(u, v)
      <4>1. <<d, n + 1>> \in Devices \X (1 .. MaxRefs)
        BY <3>1
      <4>2. ASSUME NEW p \in Devices \X (1 .. MaxRefs)
            PROVE  p \in Tokens(u, v)' <=> p \in Tokens(u, v) \/ p = <<d, n + 1>>
        <5>1. CASE p[1] = d
          BY <2>1, <2>u, <2>n, <2>p, <3>1, <5>1 DEF Tokens
        <5>2. CASE p[1] # d
          BY <2>1, <2>p, <5>2 DEF Tokens
        <5> QED BY <5>1, <5>2
      <4>3. <<d, n + 1>> \notin Tokens(u, v)
        BY <2>n DEF Tokens
      <4>4. Tokens(u, v) \subseteq Devices \X (1 .. MaxRefs)
        BY DEF Tokens
      <4>5. Tokens(u, v)' \subseteq Devices \X (1 .. MaxRefs)
        BY DEF Tokens
      <4> QED BY <4>1, <4>2, <4>3, <4>4, <4>5
    <3>3. Cardinality(Tokens(u, v)') = Cardinality(Tokens(u, v)) + 1
      BY <3>2, TokensFinite, FS_AddElement
    <3>4. users'[u][v] <= Cardinality(Tokens(u, v)')
      BY <2>1, <3>1, <3>3, TokensFinite
    <3>5. \A w \in Viewers, e \in Devices : e > lastDevice' => refs'[w][e] = 0
      BY <2>d, <3>1
    <3> QED BY <2>e, <3>4, <3>5 DEF UsersBacked
  <2>5. CASE RemoveUser(v, d)
    <3>1. /\ n \in 1 .. MaxRefs /\ refs'[v][d] = n - 1
          /\ users'[u][v] = IF users[u][v] > 0 THEN users[u][v] - 1 ELSE 0
      BY <2>u, <2>n, <2>5, <1>t DEF RemoveUser
    <3>2. Tokens(u, v)' = Tokens(u, v) \ {<<d, n>>} /\ <<d, n>> \in Tokens(u, v)
      <4>1. <<d, n>> \in Tokens(u, v)
        BY <2>u, <2>n, <3>1 DEF Tokens
      <4>2. ASSUME NEW p \in Devices \X (1 .. MaxRefs)
            PROVE  p \in Tokens(u, v)' <=> p \in Tokens(u, v) /\ p # <<d, n>>
        <5>1. CASE p[1] = d
          BY <2>1, <2>u, <2>n, <2>p, <3>1, <5>1 DEF Tokens
        <5>2. CASE p[1] # d
          BY <2>1, <2>p, <5>2 DEF Tokens
        <5> QED BY <5>1, <5>2
      <4>3. Tokens(u, v) \subseteq Devices \X (1 .. MaxRefs)
        BY DEF Tokens
      <4>4. Tokens(u, v)' \subseteq Devices \X (1 .. MaxRefs)
        BY DEF Tokens
      <4> QED BY <4>1, <4>2, <4>3, <4>4
    <3>3. Cardinality(Tokens(u, v)') = Cardinality(Tokens(u, v)) - 1
      <4>1. Cardinality(Tokens(u, v) \ {<<d, n>>}) = Cardinality(Tokens(u, v)) - 1
        BY <3>2, TokensFinite, FS_RemoveElement
      <4> QED BY <3>2, <4>1
    <3>4. users'[u][v] <= Cardinality(Tokens(u, v)')
      <4>1. Cardinality(Tokens(u, v)) \in Nat /\ Cardinality(Tokens(u, v)) # 0
        BY <3>2, TokensFinite, FS_EmptySet
      <4> QED BY <2>1, <3>1, <3>3, <4>1
    <3>5. \A w \in Viewers, e \in Devices : e > lastDevice' => refs'[w][e] = 0
      <4>1. d <= lastDevice
        BY <2>n, <3>1, <1>t DEF UsersBacked, Devices
      <4> QED BY <2>d, <4>1
    <3> QED BY <2>e, <3>4, <3>5 DEF UsersBacked
  <2> QED BY <1>3, <2>4, <2>5
<1> QED BY <1>1, <1>2, <1>3, UserSteps

\* A user counts towards a tuner's effective priority only while a stream opened
\* through some device of this tuner is open, for any number of users, devices and
\* references and however releases and new reservations come in between.
THEOREM UsersAreReal == Spec => []NoGhostUsers
<1>1. Init => UsersBacked
  <2> SUFFICES ASSUME Init PROVE UsersBacked
    OBVIOUS
  <2>1. \A t \in Tuners, v \in Viewers : users[t][v] = 0 /\ Cardinality(Tokens(t, v)) \in Nat
    BY TokensFinite DEF Init
  <2>2. \A v \in Viewers, d \in Devices : refs[v][d] = 0
    BY DEF Init
  <2> QED BY <2>1, <2>2 DEF UsersBacked
<1>2. IInv /\ UsersBacked /\ [Next]_vars => UsersBacked'
  BY UsersBackedStep
<1>3. IInv /\ UsersBacked => NoGhostUsers
  <2> SUFFICES ASSUME IInv, UsersBacked, NEW t \in Tuners, NEW v \in Viewers, users[t][v] > 0
               PROVE  \E d \in 1 .. lastDevice : tunerOf[d] = t /\ refs[v][d] > 0
    BY DEF NoGhostUsers
  <2>1. users[t][v] \in Nat /\ Cardinality(Tokens(t, v)) > 0
    BY TokensFinite DEF UsersBacked, IInv, TypeOK
  <2>2. Tokens(t, v) # {}
    BY <2>1, FS_EmptySet
  <2>3. PICK p \in Devices \X (1 .. MaxRefs) : tunerOf[p[1]] = t /\ p[2] <= refs[v][p[1]]
    BY <2>2 DEF Tokens
  <2>4. p[1] \in Devices /\ p[2] \in 1 .. MaxRefs /\ refs[v][p[1]] \in Nat /\ lastDevice \in Nat
    BY BoundsAreNatural DEF IInv, TypeOK
  <2>5. refs[v][p[1]] > 0
    BY <2>3, <2>4
  <2>6. p[1] \in 1 .. lastDevice
    BY <2>4, <2>5 DEF UsersBacked, Devices
  <2> QED BY <2>3, <2>5, <2>6
<1> QED BY <1>1, <1>2, <1>3, TunerInductive, PTL DEF Spec
=============================================================================
