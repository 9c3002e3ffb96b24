--------------------------- MODULE BroadcastProofs --------------------------
(***************************************************************************)
(* Proofs about the data broadcast of a session: the byte budgets of its   *)
(* carousel, what clients are served, and what its subscribers hear, for   *)
(* any DIIs, blocks, budgets, stores and number of subscribers.            *)
(***************************************************************************)
EXTENDS DataBroadcast, SequenceLemmas, FiniteSetTheorems, TLAPS

-----------------------------------------------------------------------------
(* The elements at given places of a sequence.                             *)

\* How many of the places come before i.
Earlier(places, i) == {k \in places : k < i}
Rank(places, i) == Cardinality(Earlier(places, i))

LEMMA RankGrows ==
  ASSUME NEW places, IsFiniteSet(places), places \subseteq Nat
  PROVE  /\ \A i \in places : Rank(places, i) \in 0 .. Cardinality(places) - 1
         /\ \A i, j \in places : i < j => Rank(places, i) < Rank(places, j)
         /\ \A i, j \in places : Rank(places, i) = Rank(places, j) => i = j
<1> DEFINE N == Cardinality(places)
<1>0. N \in Nat
  BY FS_CardinalityType
<1>1. ASSUME NEW i \in places
      PROVE  IsFiniteSet(Earlier(places, i)) /\ Rank(places, i) \in Nat /\ Rank(places, i) <= N - 1
  <2>1. IsFiniteSet(places \ {i}) /\ Cardinality(places \ {i}) = N - 1
    BY FS_RemoveElement
  <2>2. Earlier(places, i) \in SUBSET (places \ {i})
    BY DEF Earlier
  <2>3. IsFiniteSet(Earlier(places, i)) /\ Cardinality(Earlier(places, i)) <= N - 1
    BY <2>1, <2>2, FS_Subset
  <2> QED
    BY <2>3, FS_CardinalityType DEF Rank
<1>2. ASSUME NEW i \in places, NEW j \in places, i < j
      PROVE  Rank(places, i) < Rank(places, j)
  <2>0. i \in Nat /\ j \in Nat /\ ~(i < i) /\ \A k \in places : k < i => k < j
    BY <1>2
  <2>1. Earlier(places, i) \in SUBSET Earlier(places, j) /\ i \in Earlier(places, j)
        /\ i \notin Earlier(places, i)
    BY <1>2, <2>0 DEF Earlier
  <2>2. /\ Rank(places, i) <= Rank(places, j)
        /\ Rank(places, j) = Rank(places, i) => Earlier(places, j) = Earlier(places, i)
    BY <1>1, <2>1, FS_Subset DEF Rank
  <2> QED
    BY <1>1, <2>1, <2>2
<1>3. ASSUME NEW i \in places, NEW j \in places, Rank(places, i) = Rank(places, j)
      PROVE  i = j
  <2>1. i \in Nat /\ j \in Nat /\ Rank(places, i) \in Nat /\ Rank(places, j) \in Nat
    BY <1>1
  <2> QED
    BY <1>2, <1>3, <2>1
<1> QED
  BY <1>0, <1>1, <1>2, <1>3

\* Every number below that of the places is the rank of one.
LEMMA RankReached ==
  ASSUME NEW places, IsFiniteSet(places), places \subseteq Nat,
         NEW n \in 0 .. Cardinality(places) - 1
  PROVE  \E i \in places : Rank(places, i) = n
<1> SUFFICES ASSUME \A i \in places : Rank(places, i) # n PROVE FALSE
  OBVIOUS
<1> DEFINE N == Cardinality(places)
           T == (0 .. N - 1) \ {n}
           f == [i \in places |-> Rank(places, i)]
<1>0. N \in Nat
  BY FS_CardinalityType
<1>1. IsFiniteSet(0 .. N - 1) /\ Cardinality(0 .. N - 1) = N
  BY <1>0, FS_Interval
<1>2. IsFiniteSet(T) /\ Cardinality(T) = N - 1
  BY <1>1, FS_RemoveElement
<1>3. f \in [places -> T]
  BY RankGrows
<1>3a. Cardinality(T) < Cardinality(places)
  BY <1>0, <1>2
<1> HIDE DEF T, f
<1>4. \E x, y \in places : x # y /\ f[x] = f[y]
  BY <1>2, <1>3, <1>3a, FS_PigeonHole
<1> QED
  BY <1>4, RankGrows DEF f

\* The elements at the places, in their order, and nothing else.
LEMMA ElementsAtProperties ==
  ASSUME NEW S, NEW s \in Seq(S), NEW places \in SUBSET (1 .. Len(s))
  PROVE  /\ ElementsAt(s, places) \in Seq(S)
         /\ Range(ElementsAt(s, places)) = {s[i] : i \in places}
         /\ \E at \in [1 .. Len(ElementsAt(s, places)) -> places] :
              /\ \A n \in 1 .. Len(ElementsAt(s, places)) : ElementsAt(s, places)[n] = s[at[n]]
              /\ \A m, n \in 1 .. Len(ElementsAt(s, places)) : at[m] = at[n] => m = n
<1> DEFINE N == Cardinality(places)
           at == [n \in 1 .. N |-> CHOOSE i \in places : Rank(places, i) = n - 1]
           e == [n \in 1 .. N |-> s[at[n]]]
<1>0. IsFiniteSet(places) /\ places \subseteq Nat /\ N \in Nat
  <2>1. IsFiniteSet(1 .. Len(s))
    BY FS_Interval
  <2>2. IsFiniteSet(places)
    BY <2>1, FS_Subset
  <2> QED
    BY <2>2, FS_CardinalityType
<1>1. ElementsAt(s, places) = e
  BY DEF ElementsAt, Rank, Earlier
<1>2. ASSUME NEW n \in 1 .. N PROVE at[n] \in places /\ Rank(places, at[n]) = n - 1
  <2>1. n - 1 \in 0 .. N - 1
    BY <1>0
  <2>2. \E i \in places : Rank(places, i) = n - 1
    BY <1>0, <2>1, RankReached
  <2> QED
    BY <2>2
<1>3. \A i \in places : s[i] \in S
  OBVIOUS
<1>4. at \in [1 .. N -> places]
  BY <1>2
<1>4a. \A m, n \in 1 .. N : at[m] = at[n] => m = n
  <2> HIDE DEF at
  <2> QED
    BY <1>0, <1>2
<1>5. ASSUME NEW i \in places PROVE \E n \in 1 .. N : at[n] = i
  <2>1. Rank(places, i) \in 0 .. N - 1
    BY <1>0, RankGrows
  <2>2. PICK n \in 1 .. N : n - 1 = Rank(places, i)
    <3>1. Rank(places, i) + 1 \in 1 .. N /\ (Rank(places, i) + 1) - 1 = Rank(places, i)
      BY <1>0, <2>1
    <3> QED
      BY <3>1
  <2>3. at[n] \in places /\ Rank(places, at[n]) = Rank(places, i)
    BY <1>2, <2>2
  <2> HIDE DEF at
  <2> QED
    BY <1>0, <2>3, RankGrows
<1> HIDE DEF at
<1>6. e \in Seq(S) /\ Len(e) = N /\ DOMAIN e = 1 .. N
  <2>1. \A n \in 1 .. N : s[at[n]] \in S
    BY <1>3, <1>4
  <2>2. e \in [1 .. N -> S]
    BY <2>1
  <2> QED
    BY <1>0, <2>2, SeqDef, LenProperties
<1>7. Range(e) = {s[i] : i \in places}
  BY <1>4, <1>5, <1>6 DEF Range
<1> HIDE DEF e
<1>8. \A n \in 1 .. N : e[n] = s[at[n]]
  BY DEF e
<1> QED
  BY <1>1, <1>4, <1>4a, <1>6, <1>7, <1>8

-----------------------------------------------------------------------------
(* Bytes, counted.                                                         *)

\* Bytes of the states in M, each of which has len[s], and how many they are.
Bytes(M, len) == UNION {{s.id} \X (1 .. len[s]) : s \in M}
Count(M, len) == Cardinality(Bytes(M, len))

LEMMA BytesFinite ==
  ASSUME NEW U, NEW len \in [U -> Nat], NEW M \in SUBSET U, IsFiniteSet(M)
  PROVE  IsFiniteSet(Bytes(M, len)) /\ Count(M, len) \in Nat
<1> DEFINE part == [s \in M |-> {s.id} \X (1 .. len[s])]
           parts == {{s.id} \X (1 .. len[s]) : s \in M}
<1>1. part \in Surjection(M, parts)
  BY DEF Surjection
<1>2. ASSUME NEW p \in parts PROVE IsFiniteSet(p)
  <2>1. PICK s \in M : p = {s.id} \X (1 .. len[s])
    OBVIOUS
  <2>2. IsFiniteSet({s.id})
    BY FS_Singleton
  <2>3. len[s] \in Int
    OBVIOUS
  <2>4. IsFiniteSet(1 .. len[s])
    BY <2>3, FS_Interval
  <2> QED
    BY <2>1, <2>2, <2>4, FS_Product
<1> HIDE DEF part, parts
<1>3. IsFiniteSet(parts)
  BY <1>1, FS_Surjection
<1>4. IsFiniteSet(UNION parts)
  BY <1>2, <1>3, FS_UNION
<1>5. Bytes(M, len) = UNION parts
  BY DEF Bytes, parts
<1> QED
  BY <1>4, <1>5, FS_CardinalityType DEF Count

\* States that differ in their identifiers have their bytes apart.
LEMMA CountAdd ==
  ASSUME NEW U, NEW len \in [U -> Nat], NEW A \in SUBSET U, NEW B \in SUBSET U,
         IsFiniteSet(A), IsFiniteSet(B), \A a \in A, b \in B : a.id # b.id
  PROVE  Count(A \cup B, len) = Count(A, len) + Count(B, len)
<1>1. Bytes(A \cup B, len) = Bytes(A, len) \cup Bytes(B, len)
  BY DEF Bytes
<1>2. Bytes(A, len) \cap Bytes(B, len) = {}
  <2> SUFFICES ASSUME NEW p \in Bytes(A, len), p \in Bytes(B, len) PROVE FALSE
    OBVIOUS
  <2>1. PICK a \in A : p \in {a.id} \X (1 .. len[a])
    BY DEF Bytes
  <2>2. PICK b \in B : p \in {b.id} \X (1 .. len[b])
    BY DEF Bytes
  <2>3. p[1] = a.id /\ p[1] = b.id
    BY <2>1, <2>2
  <2> QED
    BY <2>3
<1>3. /\ IsFiniteSet(Bytes(A, len)) /\ IsFiniteSet(Bytes(B, len))
      /\ Count(A, len) \in Nat /\ Count(B, len) \in Nat
  BY BytesFinite
<1>4. Cardinality(Bytes(A, len) \cup Bytes(B, len))
         = Count(A, len) + Count(B, len) - Cardinality(Bytes(A, len) \cap Bytes(B, len))
  BY <1>3, FS_Union DEF Count
<1>5. Cardinality(Bytes(A, len) \cap Bytes(B, len)) = 0
  BY <1>2, FS_EmptySet
<1>6. Count(A, len) + Count(B, len) - 0 = Count(A, len) + Count(B, len)
  BY <1>3
<1>7. Count(A \cup B, len) = Cardinality(Bytes(A, len) \cup Bytes(B, len))
  BY <1>1 DEF Count
<1> QED
  BY <1>4, <1>5, <1>6, <1>7

LEMMA CountOne ==
  ASSUME NEW s, NEW len, len[s] \in Nat
  PROVE  Count({s}, len) = len[s]
<1>1. Bytes({s}, len) = {s.id} \X (1 .. len[s])
  BY DEF Bytes
<1>2. IsFiniteSet({s.id}) /\ Cardinality({s.id}) = 1
  BY FS_Singleton
<1>3. len[s] \in Int /\ 1 \in Int /\ len[s] - 1 + 1 = len[s] /\ (1 > len[s] => len[s] = 0)
      /\ 1 * len[s] = len[s]
  OBVIOUS
<1>4. IsFiniteSet(1 .. len[s]) /\ Cardinality(1 .. len[s]) = len[s]
  <2>1. /\ IsFiniteSet(1 .. len[s])
        /\ Cardinality(1 .. len[s]) = IF 1 > len[s] THEN 0 ELSE len[s] - 1 + 1
    BY <1>3, FS_Interval
  <2> QED
    BY <1>3, <2>1
<1>5. Cardinality({s.id} \X (1 .. len[s])) = 1 * len[s]
  <2>1. Cardinality({s.id} \X (1 .. len[s])) = Cardinality({s.id}) * Cardinality(1 .. len[s])
    BY ONLY <1>2, <1>4, FS_Product
  <2> QED
    BY <1>2, <1>4, <2>1
<1> QED
  BY <1>1, <1>3, <1>5 DEF Count

LEMMA CountGrows ==
  ASSUME NEW U, NEW len \in [U -> Nat], NEW B \in SUBSET U, IsFiniteSet(B), NEW A \in SUBSET B
  PROVE  Count(A, len) <= Count(B, len)
<1>1. IsFiniteSet(Bytes(B, len))
  BY BytesFinite
<1>2. Bytes(A, len) \in SUBSET Bytes(B, len)
  BY DEF Bytes
<1> QED
  BY <1>1, <1>2, FS_Subset DEF Count

\* When one of the states is replaced.
LEMMA CountReplaced ==
  ASSUME NEW U, NEW len \in [U -> Nat], NEW M \in SUBSET U, IsFiniteSet(M),
         \A a, b \in M : a.id = b.id => a = b,
         NEW s \in M, NEW t \in U, t.id = s.id
  PROVE  /\ Count(M, len) \in Nat
         /\ Count(M \ {s}, len) = Count(M, len) - len[s]
         /\ Count((M \ {s}) \cup {t}, len) = Count(M, len) - len[s] + len[t]
<1> DEFINE R == M \ {s}
<1>1. R \in SUBSET U /\ {s} \in SUBSET U /\ {t} \in SUBSET U /\ M = R \cup {s}
      /\ \A a \in R : a.id # s.id /\ a.id # t.id
  OBVIOUS
<1>2. IsFiniteSet(R) /\ IsFiniteSet({s}) /\ IsFiniteSet({t})
  BY FS_RemoveElement, FS_Singleton
<1> HIDE DEF R
<1>3. Count(R \cup {s}, len) = Count(R, len) + Count({s}, len)
  BY <1>1, <1>2, CountAdd
<1>4. Count(R \cup {t}, len) = Count(R, len) + Count({t}, len)
  BY <1>1, <1>2, CountAdd
<1>5. Count({s}, len) = len[s] /\ Count({t}, len) = len[t] /\ len[s] \in Nat /\ len[t] \in Nat
  BY CountOne
<1>6. Count(R, len) \in Nat /\ Count(M, len) \in Nat
  BY <1>1, <1>2, BytesFinite
<1>7. PICK m, r \in Nat, x, y \in Nat : m = Count(M, len) /\ r = Count(R, len)
                                      /\ x = len[s] /\ y = len[t]
  BY <1>5, <1>6
<1>8. m = r + x /\ Count(R \cup {t}, len) = r + y
  BY <1>1, <1>3, <1>4, <1>5, <1>7
<1>9. r = m - x /\ r + y = m - x + y
  BY <1>8
<1> QED
  BY <1>6, <1>7, <1>8, <1>9 DEF R

-----------------------------------------------------------------------------
(* What a carousel is.                                                     *)

Ids == {k.id : k \in Modules}
Downloads == {k.download : k \in Modules}
Editions == {k.version : k \in Modules}
Marks == {Blank} \cup (Downloads \X Editions)
Reasons == {"moduleSizeZero", "blockSizeZero", "moduleSizeLimitExceeded", "inFlightBudgetExceeded"}

AnyState == [id : Ids, download : Downloads, version : Editions, size : Nat, blockSize : Nat,
             data : Seq(Marks), received : SUBSET Nat, done : BOOLEAN]

\* Every byte of a module, all from its own download and version.
Whole(s) == [i \in 1 .. s.size |-> <<s.download, s.version>>]

\* Where the bytes of a block are.
Places(s, b) == b * s.blockSize + 1 .. b * s.blockSize + s.blockSize

\* A completed module has all its bytes or has let them go; one in assembly has at
\* least those of the blocks that it counts.
ModuleOK(s) ==
  /\ KeyOf(s) \in Modules /\ s.size > 0 /\ s.blockSize > 0
  /\ s.done => s.data = << >> \/ s.data = Whole(s)
  /\ ~s.done => /\ Len(s.data) = s.size
                /\ s.received \subseteq 0 .. BlockCount(s.size, s.blockSize) - 1
                /\ \A b \in s.received : \A i \in Places(s, b) :
                      i \in 1 .. s.size => s.data[i] = <<s.download, s.version>>

ModuleStates == {s \in AnyState : ModuleOK(s)}

Carousels == [modules : Seq(ModuleStates),
              rejected : SUBSET [id : Ids, version : Editions, reason : Reasons],
              completed : Nat, inFlight : Nat]

States(c) == Range(c.modules)
Done(c) == {s \in States(c) : s.done}
Open(c) == {s \in States(c) : ~s.done}

Distinct(c) ==
  \A i, j \in DOMAIN c.modules : c.modules[i].id = c.modules[j].id => i = j

\* No byte is counted twice, and nothing is announced and rejected at once.
Accounted(c) ==
  /\ c.completed = BytesOf(Done(c))
  /\ c.inFlight = SizesOf(Open(c))
  /\ \A r \in c.rejected : ~Announced(c, r.id)

Consistent(c) == c \in Carousels /\ Distinct(c) /\ Accounted(c)

Within(c) == c.completed <= MaxCompletedBytes /\ c.inFlight <= MaxInFlightBytes

\* What every call leaves; while it lasts, a budget may be exceeded.
CarouselInv(c) == Consistent(c) /\ Within(c)

-----------------------------------------------------------------------------
(* The accounts as counts of bytes.                                        *)

SizeOf == [s \in ModuleStates |-> s.size]
LengthOf == [s \in ModuleStates |-> Len(s.data)]

LEMMA Lengths ==
  /\ SizeOf \in [ModuleStates -> Nat] /\ LengthOf \in [ModuleStates -> Nat]
  /\ \A s \in ModuleStates : SizeOf[s] = s.size /\ LengthOf[s] = Len(s.data)
<1>1. ASSUME NEW s \in ModuleStates PROVE s.size \in Nat /\ Len(s.data) \in Nat
  BY DEF ModuleStates, AnyState
<1> QED
  BY <1>1 DEF SizeOf, LengthOf

LEMMA AccountsAreCounts ==
  ASSUME NEW M \in SUBSET ModuleStates
  PROVE  SizesOf(M) = Count(M, SizeOf) /\ BytesOf(M) = Count(M, LengthOf)
<1>1. \A s \in M : SizeOf[s] = s.size /\ LengthOf[s] = Len(s.data)
  BY Lengths
<1>2. {{s.id} \X (1 .. s.size) : s \in M} = {{s.id} \X (1 .. SizeOf[s]) : s \in M}
  BY <1>1
<1>3. {{s.id} \X (1 .. Len(s.data)) : s \in M} = {{s.id} \X (1 .. LengthOf[s]) : s \in M}
  BY <1>1
<1> QED
  BY <1>2, <1>3 DEF SizesOf, BytesOf, Count, Bytes

\* The modules of a carousel are finitely many, and their identifiers tell them apart.
LEMMA StatesOfCarousel ==
  ASSUME NEW c, c \in Carousels, Distinct(c)
  PROVE  /\ States(c) \in SUBSET ModuleStates /\ IsFiniteSet(States(c))
         /\ Done(c) \in SUBSET ModuleStates /\ IsFiniteSet(Done(c))
         /\ Open(c) \in SUBSET ModuleStates /\ IsFiniteSet(Open(c))
         /\ \A s, t \in States(c) : s.id = t.id => s = t
<1>1. c.modules \in Seq(ModuleStates) /\ DOMAIN c.modules = 1 .. Len(c.modules)
      /\ Len(c.modules) \in Nat
  BY DEF Carousels
<1>2. c.modules \in Surjection(1 .. Len(c.modules), States(c))
  <2>1. c.modules \in [1 .. Len(c.modules) -> States(c)]
    BY <1>1 DEF States, Range
  <2> QED
    BY <1>1, <2>1 DEF States, Range, Surjection
<1>3. IsFiniteSet(States(c))
  <2>1. IsFiniteSet(1 .. Len(c.modules))
    BY <1>1, FS_Interval
  <2> QED
    BY <1>2, <2>1, FS_Surjection
<1>4. States(c) \in SUBSET ModuleStates
  BY <1>1 DEF States, Range
<1>5. Done(c) \in SUBSET States(c) /\ Open(c) \in SUBSET States(c)
  BY DEF Done, Open
<1>6. IsFiniteSet(Done(c)) /\ IsFiniteSet(Open(c))
  BY <1>3, <1>5, FS_Subset
<1>7. \A s, t \in States(c) : s.id = t.id => s = t
  BY DEF States, Range, Distinct
<1> QED
  BY <1>3, <1>4, <1>5, <1>6, <1>7

\* A module that is announced is the one with its identifier.
LEMMA StateOfModule ==
  ASSUME NEW c, c \in Carousels, Distinct(c), NEW id, Announced(c, id)
  PROVE  /\ ModuleState(c, id) \in States(c) /\ ModuleState(c, id) \in ModuleStates
         /\ ModuleState(c, id).id = id
         /\ \A s \in States(c) : s.id = id => s = ModuleState(c, id)
<1>1. \E s \in States(c) : s.id = id
  BY DEF Announced, States
<1>2. ModuleState(c, id) \in States(c) /\ ModuleState(c, id).id = id
  BY <1>1 DEF ModuleState, States
<1> QED
  BY <1>2, StatesOfCarousel

\* What modules take, split by which of them go.
LEMMA AccountsSplit ==
  ASSUME NEW M \in SUBSET ModuleStates, IsFiniteSet(M), \A s, t \in M : s.id = t.id => s = t,
         NEW A, NEW B, M = A \cup B, A \cap B = {}
  PROVE  /\ BytesOf(A) \in Nat /\ BytesOf(B) \in Nat /\ BytesOf(M) = BytesOf(A) + BytesOf(B)
         /\ SizesOf(A) \in Nat /\ SizesOf(B) \in Nat /\ SizesOf(M) = SizesOf(A) + SizesOf(B)
<1>1. /\ A \in SUBSET ModuleStates /\ B \in SUBSET ModuleStates
      /\ A \in SUBSET M /\ B \in SUBSET M
      /\ \A a \in A, b \in B : a.id # b.id
  OBVIOUS
<1>2. IsFiniteSet(A) /\ IsFiniteSet(B)
  BY <1>1, FS_Subset
<1>3. /\ BytesOf(A) = Count(A, LengthOf) /\ BytesOf(B) = Count(B, LengthOf)
      /\ SizesOf(A) = Count(A, SizeOf) /\ SizesOf(B) = Count(B, SizeOf)
      /\ BytesOf(M) = Count(A \cup B, LengthOf) /\ SizesOf(M) = Count(A \cup B, SizeOf)
  BY <1>1, AccountsAreCounts
<1>4. /\ Count(A, LengthOf) \in Nat /\ Count(B, LengthOf) \in Nat
      /\ Count(A, SizeOf) \in Nat /\ Count(B, SizeOf) \in Nat
  BY <1>1, <1>2, Lengths, BytesFinite
<1>5. /\ Count(A \cup B, LengthOf) = Count(A, LengthOf) + Count(B, LengthOf)
      /\ Count(A \cup B, SizeOf) = Count(A, SizeOf) + Count(B, SizeOf)
  BY <1>1, <1>2, Lengths, CountAdd
<1> QED
  BY <1>3, <1>4, <1>5

\* Removing modules takes from each account what it holds of them, and nothing else.
LEMMA RemovalKeeps ==
  ASSUME NEW c, Consistent(c), NEW ids
  PROVE  /\ Consistent(RemoveModules(c, ids))
         /\ States(RemoveModules(c, ids)) = {s \in States(c) : s.id \notin ids}
         /\ RemoveModules(c, ids).rejected = c.rejected
         /\ RemoveModules(c, ids).completed <= c.completed
         /\ RemoveModules(c, ids).inFlight <= c.inFlight
<1> DEFINE gone == {s \in Range(c.modules) : s.id \in ids}
           places == {i \in DOMAIN c.modules : c.modules[i].id \notin ids}
           e == ElementsAt(c.modules, places)
           r == RemoveModules(c, ids)
<1>0. /\ c \in Carousels /\ Distinct(c) /\ Accounted(c)
      /\ c.modules \in Seq(ModuleStates) /\ DOMAIN c.modules = 1 .. Len(c.modules)
      /\ Len(c.modules) \in Nat /\ c.completed \in Nat /\ c.inFlight \in Nat
  BY DEF Consistent, Carousels
<1>1. CASE gone = {}
  <2>1. r = c
    BY <1>1 DEF RemoveModules
  <2>2. States(c) = {s \in States(c) : s.id \notin ids}
    BY <1>1 DEF States
  <2> QED
    BY <1>0, <2>1, <2>2
<1>2. CASE gone # {}
  <2>1. r = [c EXCEPT !.modules = e,
                      !.completed = @ - BytesOf({s \in gone : s.done}),
                      !.inFlight = @ - SizesOf({s \in gone : ~s.done})]
    BY <1>2 DEF RemoveModules
  <2>2. places \in SUBSET (1 .. Len(c.modules))
    BY <1>0
  <2> HIDE DEF r
  <2>3. /\ e \in Seq(ModuleStates) /\ Range(e) = {c.modules[i] : i \in places}
        /\ \E at \in [1 .. Len(e) -> places] :
              /\ \A n \in 1 .. Len(e) : e[n] = c.modules[at[n]]
              /\ \A m, n \in 1 .. Len(e) : at[m] = at[n] => m = n
    <3>1. PICK l, p : l = c.modules /\ p = places
      OBVIOUS
    <3>2. l \in Seq(ModuleStates) /\ p \in SUBSET (1 .. Len(l))
      BY <1>0, <2>2, <3>1
    <3>3. /\ ElementsAt(l, p) \in Seq(ModuleStates)
          /\ Range(ElementsAt(l, p)) = {l[i] : i \in p}
          /\ \E at \in [1 .. Len(ElementsAt(l, p)) -> p] :
                /\ \A n \in 1 .. Len(ElementsAt(l, p)) : ElementsAt(l, p)[n] = l[at[n]]
                /\ \A m, n \in 1 .. Len(ElementsAt(l, p)) : at[m] = at[n] => m = n
      BY ONLY <3>2, ElementsAtProperties
    <3> HIDE DEF places
    <3>4. e = ElementsAt(l, p)
      BY <3>1
    <3> HIDE DEF e
    <3>5. /\ e \in Seq(ModuleStates) /\ Range(e) = {l[i] : i \in p}
          /\ \E at \in [1 .. Len(e) -> p] :
                /\ \A n \in 1 .. Len(e) : e[n] = l[at[n]]
                /\ \A m, n \in 1 .. Len(e) : at[m] = at[n] => m = n
      BY <3>3, <3>4
    <3>6. {l[i] : i \in p} = {c.modules[i] : i \in places}
      BY <3>1
    <3> QED
      BY <3>1, <3>5, <3>6
  <2>4. {c.modules[i] : i \in places} = {s \in States(c) : s.id \notin ids}
    BY DEF States, Range
  <2> HIDE DEF e
  <2>5. /\ r.modules = e /\ r.rejected = c.rejected
        /\ r.completed = c.completed - BytesOf({s \in gone : s.done})
        /\ r.inFlight = c.inFlight - SizesOf({s \in gone : ~s.done})
        /\ r = [modules |-> r.modules, rejected |-> r.rejected,
                completed |-> r.completed, inFlight |-> r.inFlight]
    BY <1>0, <2>1 DEF Carousels
  <2>6. States(r) = {s \in States(c) : s.id \notin ids}
    BY <2>3, <2>4, <2>5 DEF States
  <2>7. Distinct(r)
    <3>1. PICK at \in [1 .. Len(e) -> places] :
              /\ \A n \in 1 .. Len(e) : e[n] = c.modules[at[n]]
              /\ \A m, n \in 1 .. Len(e) : at[m] = at[n] => m = n
      BY <2>3
    <3>2. DOMAIN e = 1 .. Len(e)
      BY <2>3
    <3> SUFFICES ASSUME NEW m \in 1 .. Len(e), NEW n \in 1 .. Len(e), e[m].id = e[n].id
                 PROVE  m = n
      BY <2>5, <3>2 DEF Distinct
    <3>3. at[m] \in DOMAIN c.modules /\ at[n] \in DOMAIN c.modules
      BY <3>1
    <3>4. at[m] = at[n]
      BY <1>0, <3>1, <3>3 DEF Distinct
    <3> QED
      BY <3>1, <3>4
  <2>8. /\ BytesOf(Done(r)) \in Nat /\ BytesOf({s \in gone : s.done}) \in Nat
        /\ BytesOf(Done(c)) = BytesOf(Done(r)) + BytesOf({s \in gone : s.done})
    <3>1. /\ Done(c) = Done(r) \cup {s \in gone : s.done}
          /\ Done(r) \cap {s \in gone : s.done} = {}
      BY <2>6 DEF Done, States
    <3>2. /\ Done(c) \in SUBSET ModuleStates /\ IsFiniteSet(Done(c))
          /\ \A s, t \in Done(c) : s.id = t.id => s = t
      BY <1>0, StatesOfCarousel DEF Done
    <3> QED
      BY <3>1, <3>2, AccountsSplit
  <2>9. /\ SizesOf(Open(r)) \in Nat /\ SizesOf({s \in gone : ~s.done}) \in Nat
        /\ SizesOf(Open(c)) = SizesOf(Open(r)) + SizesOf({s \in gone : ~s.done})
    <3>1. /\ Open(c) = Open(r) \cup {s \in gone : ~s.done}
          /\ Open(r) \cap {s \in gone : ~s.done} = {}
      BY <2>6 DEF Open, States
    <3>2. /\ Open(c) \in SUBSET ModuleStates /\ IsFiniteSet(Open(c))
          /\ \A s, t \in Open(c) : s.id = t.id => s = t
      BY <1>0, StatesOfCarousel DEF Open
    <3>3. PICK M, A, B : M = Open(c) /\ A = Open(r) /\ B = {s \in gone : ~s.done}
      OBVIOUS
    <3>4. SizesOf(A) \in Nat /\ SizesOf(B) \in Nat /\ SizesOf(M) = SizesOf(A) + SizesOf(B)
      <4>1. /\ M \in SUBSET ModuleStates /\ IsFiniteSet(M) /\ \A s, t \in M : s.id = t.id => s = t
            /\ M = A \cup B /\ A \cap B = {}
        BY <3>1, <3>2, <3>3
      <4> QED
        BY ONLY <4>1, AccountsSplit
    <3> QED
      BY <3>3, <3>4
  <2>10. /\ r.completed = BytesOf(Done(r)) /\ r.completed \in Nat /\ r.completed <= c.completed
         /\ r.inFlight = SizesOf(Open(r)) /\ r.inFlight \in Nat /\ r.inFlight <= c.inFlight
    <3>1. c.completed = BytesOf(Done(c)) /\ c.inFlight = SizesOf(Open(c))
      BY <1>0 DEF Accounted
    <3>2. PICK a, b \in Nat : a = BytesOf(Done(r)) /\ b = BytesOf({s \in gone : s.done})
      BY <2>8
    <3>3. PICK x, y \in Nat : x = SizesOf(Open(r)) /\ y = SizesOf({s \in gone : ~s.done})
      BY <2>9
    <3>4. r.completed = (a + b) - b /\ c.completed = a + b /\ r.inFlight = (x + y) - y
          /\ c.inFlight = x + y
      BY <2>5, <2>8, <2>9, <3>1, <3>2, <3>3
    <3> QED
      BY <3>2, <3>3, <3>4
  <2>11. \A x \in r.rejected : ~Announced(r, x.id)
    BY <1>0, <2>5, <2>6 DEF Accounted, Announced, States
  <2>12. r \in Carousels
    BY <1>0, <2>3, <2>5, <2>10 DEF Carousels
  <2> QED
    BY <2>5, <2>6, <2>7, <2>10, <2>11, <2>12 DEF Consistent, Accounted, r
<1> QED
  BY <1>1, <1>2

\* Both loops that evict remove modules, and the second spares the one that needs the room.
LEMMA EvictionsAreRemovals ==
  ASSUME NEW c, Consistent(c)
  PROVE  /\ \A size : \E ids : EvictInFlight(c, size) = RemoveModules(c, ids)
         /\ \A except : \E ids : except \notin ids /\ EvictCompleted(c, except) = RemoveModules(c, ids)
<1>1. RemoveModules(c, {}) = c
  <2>1. {s \in Range(c.modules) : s.id \in {}} = {}
    OBVIOUS
  <2> QED
    BY <2>1 DEF RemoveModules
<1>2. ASSUME NEW size PROVE \E ids : EvictInFlight(c, size) = RemoveModules(c, ids)
  <2> DEFINE Opened(n) == {i \in 1 .. n : ~c.modules[i].done}
             Freed(n) == SizesOf({c.modules[i] : i \in Opened(n - 1)})
             Gone == {i \in Opened(Len(c.modules)) : c.inFlight - Freed(i) + size > MaxInFlightBytes}
  <2>1. EvictInFlight(c, size) = IF c.inFlight + size <= MaxInFlightBytes THEN c
                                 ELSE RemoveModules(c, {c.modules[i].id : i \in Gone})
    BY DEF EvictInFlight
  <2> HIDE DEF Gone
  <2> QED
    BY <1>1, <2>1
<1>3. ASSUME NEW except
      PROVE  \E ids : except \notin ids /\ EvictCompleted(c, except) = RemoveModules(c, ids)
  <2> DEFINE Idle(n) == {i \in 1 .. n : /\ c.modules[i].done /\ c.modules[i].data # << >>
                                        /\ c.modules[i].id # except}
             Freed(n) == BytesOf({c.modules[i] : i \in Idle(n - 1)})
             Gone == {i \in Idle(Len(c.modules)) : c.completed - Freed(i) > MaxCompletedBytes}
  <2>1. EvictCompleted(c, except) = IF c.completed <= MaxCompletedBytes THEN c
                                    ELSE RemoveModules(c, {c.modules[i].id : i \in Gone})
    BY DEF EvictCompleted
  <2>2. except \notin {c.modules[i].id : i \in Gone}
    OBVIOUS
  <2> HIDE DEF Gone
  <2>3. except \notin {}
    OBVIOUS
  <2>4. CASE c.completed <= MaxCompletedBytes
    BY <1>1, <2>1, <2>3, <2>4
  <2>5. CASE ~(c.completed <= MaxCompletedBytes)
    BY <2>1, <2>2, <2>5
  <2> QED
    BY <2>4, <2>5
<1> QED
  BY <1>2, <1>3

LEMMA RemovalWithin ==
  ASSUME NEW c, CarouselInv(c), NEW ids
  PROVE  CarouselInv(RemoveModules(c, ids))
<1> DEFINE r == RemoveModules(c, ids)
<1>1. Consistent(c) /\ Within(c)
  BY DEF CarouselInv
<1>2. Consistent(r) /\ r.completed <= c.completed /\ r.inFlight <= c.inFlight
  BY <1>1, RemovalKeeps
<1> HIDE DEF r
<1>3. /\ r.completed \in Nat /\ c.completed \in Nat /\ r.inFlight \in Nat /\ c.inFlight \in Nat
  BY <1>1, <1>2 DEF Consistent, Carousels
<1> QED
  BY <1>1, <1>2, <1>3, CarouselLimits DEF CarouselInv, Within, r

\* Fewer rejections change nothing else.
LEMMA FewerRejected ==
  ASSUME NEW c, CarouselInv(c), NEW R \in SUBSET c.rejected
  PROVE  /\ CarouselInv([c EXCEPT !.rejected = R])
         /\ States([c EXCEPT !.rejected = R]) = States(c)
         /\ [c EXCEPT !.rejected = R].rejected = R
<1> DEFINE d == [c EXCEPT !.rejected = R]
<1>1. /\ c \in Carousels /\ Distinct(c) /\ Accounted(c) /\ Within(c)
  BY DEF CarouselInv, Consistent
<1>2. d \in Carousels /\ d.modules = c.modules /\ d.rejected = R
      /\ d.completed = c.completed /\ d.inFlight = c.inFlight
  BY <1>1 DEF Carousels
<1> HIDE DEF d
<1>3. States(d) = States(c) /\ Done(d) = Done(c) /\ Open(d) = Open(c)
  BY <1>2 DEF States, Done, Open
<1>4. \A r \in d.rejected : ~Announced(d, r.id)
  BY <1>1, <1>2 DEF Accounted, Announced
<1>5. Distinct(d) /\ Accounted(d) /\ Within(d)
  BY <1>1, <1>2, <1>3, <1>4 DEF Distinct, Accounted, Within
<1> QED
  BY <1>2, <1>3, <1>5 DEF CarouselInv, Consistent, d

-----------------------------------------------------------------------------
(* ObserveDII.                                                             *)

\* A module of a DII.
Listed(dii, m) == dii \in DIIs /\ m \in Range(dii.modules)

LEMMA ListedTypes ==
  ASSUME NEW dii, NEW m, Listed(dii, m)
  PROVE  /\ m.size \in Nat /\ dii.blockSize \in Nat
         /\ m.id \in Ids /\ dii.download \in Downloads /\ m.version \in Editions
         /\ [id |-> m.id, download |-> dii.download, version |-> m.version] \in Modules
<1>1. m.size \in Nat /\ dii.blockSize \in Nat
  BY DataBroadcastConstants DEF Listed
<1>2. [id |-> m.id, download |-> dii.download, version |-> m.version] \in Modules
  BY DEF Listed, Modules
<1>3. /\ m.id \in Ids /\ dii.download \in Downloads /\ m.version \in Editions
  <2>1. PICK k \in Modules : k = [id |-> m.id, download |-> dii.download, version |-> m.version]
    BY <1>2
  <2>2. k.id = m.id /\ k.download = dii.download /\ k.version = m.version
    BY <2>1
  <2> QED
    BY <2>2 DEF Ids, Downloads, Editions
<1> QED
  BY <1>1, <1>2, <1>3

\* A module that is rejected is removed.
LEMMA RejectKeeps ==
  ASSUME NEW c, CarouselInv(c), NEW dii, NEW m, Listed(dii, m), NEW reason \in Reasons
  PROVE  CarouselInv(Reject(c, m, reason))
<1> DEFINE r == RemoveModules(c, {m.id})
           x == [id |-> m.id, version |-> m.version, reason |-> reason]
           d == Reject(c, m, reason)
<1>1. CarouselInv(r) /\ States(r) = {s \in States(c) : s.id \notin {m.id}}
  BY RemovalWithin, RemovalKeeps DEF CarouselInv
<1>2. x \in [id : Ids, version : Editions, reason : Reasons]
  BY ListedTypes
<1>2a. d = [r EXCEPT !.rejected = {q \in @ : q.id # m.id} \cup {x}]
  BY DEF Reject
<1> HIDE DEF r, d
<1>3. r \in Carousels /\ Distinct(r) /\ Accounted(r) /\ Within(r)
  BY <1>1 DEF CarouselInv, Consistent
<1>4. /\ d.modules = r.modules /\ d.completed = r.completed /\ d.inFlight = r.inFlight
      /\ d.rejected = {q \in r.rejected : q.id # m.id} \cup {x}
      /\ d \in Carousels
  BY <1>2, <1>2a, <1>3 DEF Carousels
<1>5. \A q \in d.rejected : ~Announced(d, q.id)
  <2>1. ~Announced(d, m.id)
    BY <1>1, <1>4 DEF Announced, States
  <2>2. \A q \in r.rejected : ~Announced(d, q.id)
    BY <1>3, <1>4 DEF Accounted, Announced
  <2> QED
    BY <1>4, <2>1, <2>2
<1>6. Done(d) = Done(r) /\ Open(d) = Open(r)
  BY <1>4 DEF Done, Open, States
<1>7. Distinct(d) /\ Accounted(d) /\ Within(d)
  BY <1>3, <1>4, <1>5, <1>6 DEF Distinct, Accounted, Within
<1> QED
  BY <1>4, <1>7 DEF CarouselInv, Consistent, d

LEMMA AccountsOfOne ==
  ASSUME NEW s \in ModuleStates
  PROVE  SizesOf({s}) = s.size /\ BytesOf({s}) = Len(s.data) /\ s.size \in Nat /\ Len(s.data) \in Nat
<1>1. {s} \in SUBSET ModuleStates
  OBVIOUS
<1>2. /\ SizeOf[s] = s.size /\ LengthOf[s] = Len(s.data) /\ SizeOf[s] \in Nat /\ LengthOf[s] \in Nat
  BY Lengths
<1>3. Count({s}, SizeOf) = SizeOf[s] /\ Count({s}, LengthOf) = LengthOf[s]
  BY <1>2, CountOne
<1> QED
  BY <1>1, <1>2, <1>3, AccountsAreCounts

\* A module as it is allocated: none of its blocks has come.
LEMMA NewModuleOK ==
  ASSUME NEW dii, NEW m, Listed(dii, m), m.size > 0, dii.blockSize > 0
  PROVE  [id |-> m.id, download |-> dii.download, version |-> m.version,
          size |-> m.size, blockSize |-> dii.blockSize,
          data |-> [i \in 1 .. m.size |-> Blank], received |-> {}, done |-> FALSE] \in ModuleStates
<1> DEFINE data == [i \in 1 .. m.size |-> Blank]
           s == [id |-> m.id, download |-> dii.download, version |-> m.version,
                 size |-> m.size, blockSize |-> dii.blockSize,
                 data |-> data, received |-> {}, done |-> FALSE]
<1>1. /\ m.size \in Nat /\ dii.blockSize \in Nat
      /\ m.id \in Ids /\ dii.download \in Downloads /\ m.version \in Editions
      /\ [id |-> m.id, download |-> dii.download, version |-> m.version] \in Modules
  BY ListedTypes
<1>2. data \in Seq(Marks) /\ Len(data) = m.size
  <2>1. Blank \in Marks
    BY DEF Marks
  <2>2. data \in [1 .. m.size -> Marks]
    BY <2>1
  <2> QED
    BY <1>1, <2>2, SeqDef, LenProperties
<1> HIDE DEF data
<1>3. s \in AnyState
  BY <1>1, <1>2 DEF AnyState
<1>4. ModuleOK(s)
  BY <1>1, <1>2 DEF ModuleOK, KeyOf
<1> QED
  BY <1>3, <1>4 DEF ModuleStates, data

LEMMA AllocateInKeeps ==
  ASSUME NEW c, CarouselInv(c), NEW dii, NEW m, Listed(dii, m), m.size > 0, dii.blockSize > 0,
         ~Announced(c, m.id), \A r \in c.rejected : r.id # m.id
  PROVE  CarouselInv(AllocateIn(c, dii, m))
<1> DEFINE s == [id |-> m.id, download |-> dii.download, version |-> m.version,
                 size |-> m.size, blockSize |-> dii.blockSize,
                 data |-> [i \in 1 .. m.size |-> Blank], received |-> {}, done |-> FALSE]
           d == [c EXCEPT !.modules = Append(@, s), !.inFlight = @ + m.size]
<1>1. CASE c.inFlight + m.size > MaxInFlightBytes
  <2>1. AllocateIn(c, dii, m) = Reject(c, m, "inFlightBudgetExceeded")
    BY <1>1 DEF AllocateIn
  <2> QED
    BY <2>1, RejectKeeps DEF Reasons
<1>2. CASE ~(c.inFlight + m.size > MaxInFlightBytes)
  <2>1. AllocateIn(c, dii, m) = d
    BY <1>2 DEF AllocateIn
  <2>2. s \in ModuleStates
    BY NewModuleOK
  <2>3. s.id = m.id /\ s.size = m.size /\ ~s.done
    OBVIOUS
  <2>4. PICK st \in ModuleStates : st = s
    BY <2>2
  <2>5. d = [c EXCEPT !.modules = Append(@, st), !.inFlight = @ + m.size]
    BY <2>4
  <2>6. st.id = m.id /\ st.size = m.size /\ ~st.done /\ m.size \in Nat
    BY <2>3, <2>4, ListedTypes
  <2> HIDE DEF s, d
  <2>7. /\ c \in Carousels /\ Distinct(c) /\ Accounted(c) /\ Within(c)
        /\ c.modules \in Seq(ModuleStates) /\ Len(c.modules) \in Nat
        /\ c.completed \in Nat /\ c.inFlight \in Nat
    BY DEF CarouselInv, Consistent, Carousels
  <2>8. /\ d.modules = Append(c.modules, st) /\ d.rejected = c.rejected
        /\ d.completed = c.completed /\ d.inFlight = c.inFlight + m.size
        /\ d.modules \in Seq(ModuleStates) /\ d \in Carousels
    <3>1. Append(c.modules, st) \in Seq(ModuleStates)
      BY <2>4, <2>7
    <3>2. PICK q : q = Append(c.modules, st)
      OBVIOUS
    <3>3. PICK x \in Nat : x = c.inFlight + m.size
      BY <2>6, <2>7
    <3>4. d = [c EXCEPT !.modules = q, !.inFlight = x]
      BY <2>5, <3>2, <3>3
    <3> QED
      BY <2>7, <3>1, <3>2, <3>3, <3>4 DEF Carousels
  <2>9. States(d) = States(c) \cup {st}
    BY <2>7, <2>8, AppendRange DEF States
  <2>10. Done(d) = Done(c) /\ Open(d) = Open(c) \cup {st}
    BY <2>6, <2>9 DEF Done, Open
  <2>11. \A t \in States(c) : t.id # st.id
    BY <2>6 DEF Announced, States
  <2>12. Distinct(d)
    <3>1. /\ DOMAIN d.modules = 1 .. Len(c.modules) + 1
          /\ d.modules[Len(c.modules) + 1] = st
          /\ \A i \in 1 .. Len(c.modules) : d.modules[i] = c.modules[i]
          /\ DOMAIN c.modules = 1 .. Len(c.modules)
      BY <2>7, <2>8
    <3>2. \A i \in 1 .. Len(c.modules) : d.modules[i].id # st.id
      BY <2>11, <3>1 DEF States, Range
    <3>3. \A i \in DOMAIN d.modules : i \in 1 .. Len(c.modules) \/ i = Len(c.modules) + 1
      BY <2>7, <3>1
    <3> QED
      BY <2>7, <3>1, <3>2, <3>3 DEF Distinct
  <2>13. SizesOf(Open(d)) = SizesOf(Open(c)) + m.size
    <3>1. PICK M, A : M = Open(d) /\ A = Open(c)
      OBVIOUS
    <3>2. /\ M \in SUBSET ModuleStates /\ IsFiniteSet(M)
          /\ \A q, t \in M : q.id = t.id => q = t
      <4>1. Open(d) \subseteq States(d)
        BY DEF Open
      <4> QED
        BY <2>8, <2>12, <3>1, <4>1, StatesOfCarousel
    <3>3. M = A \cup {st} /\ A \cap {st} = {}
      <4>1. st \notin Open(c)
        BY <2>11 DEF Open
      <4> QED
        BY <2>10, <3>1, <4>1
    <3>4. SizesOf(M) = SizesOf(A) + SizesOf({st})
      BY ONLY <3>2, <3>3, AccountsSplit
    <3> QED
      BY <2>6, <3>1, <3>4, AccountsOfOne
  <2>14. \A r \in d.rejected : ~Announced(d, r.id)
    <3>1. \A id : Announced(d, id) => Announced(c, id) \/ id = m.id
      BY <2>6, <2>9 DEF Announced, States
    <3> QED
      BY <2>7, <2>8, <3>1 DEF Accounted
  <2>15. Accounted(d)
    BY <2>7, <2>8, <2>10, <2>13, <2>14 DEF Accounted
  <2>16. Within(d)
    <3>1. PICK x \in Nat : x = c.inFlight + m.size
      BY <2>6, <2>7
    <3>2. x <= MaxInFlightBytes
      BY <1>2, <3>1, CarouselLimits
    <3> QED
      BY <2>7, <2>8, <3>1, <3>2 DEF Within
  <2> QED
    BY <2>1, <2>8, <2>12, <2>15, <2>16 DEF CarouselInv, Consistent, d, s
<1> QED
  BY <1>1, <1>2

LEMMA AllocateKeeps ==
  ASSUME NEW c, CarouselInv(c), NEW dii, NEW m, Listed(dii, m), m.size > 0, dii.blockSize > 0,
         \A r \in c.rejected : r.id # m.id
  PROVE  CarouselInv(Allocate(c, dii, m))
<1>1. CASE m.size > MaxInFlightBytes
  <2>1. Allocate(c, dii, m) = Reject(c, m, "inFlightBudgetExceeded")
    BY <1>1 DEF Allocate
  <2> QED
    BY <2>1, RejectKeeps DEF Reasons
<1>2. CASE ~(m.size > MaxInFlightBytes)
  <2>1. PICK r : r = RemoveModules(c, {m.id})
    OBVIOUS
  <2>2. CarouselInv(r) /\ r.rejected = c.rejected /\ ~Announced(r, m.id)
    BY <2>1, RemovalWithin, RemovalKeeps DEF CarouselInv, Announced, States
  <2>3. PICK ids : EvictInFlight(r, m.size) = RemoveModules(r, ids)
    BY <2>2, EvictionsAreRemovals DEF CarouselInv
  <2>4. PICK room : room = RemoveModules(r, ids)
    OBVIOUS
  <2>5. /\ CarouselInv(room) /\ room.rejected = r.rejected
        /\ States(room) = {s \in States(r) : s.id \notin ids}
    BY <2>2, <2>4, RemovalWithin, RemovalKeeps DEF CarouselInv
  <2>6. ~Announced(room, m.id)
    BY <2>2, <2>5 DEF Announced, States
  <2>7. Allocate(c, dii, m) = AllocateIn(room, dii, m)
    BY <1>2, <2>1, <2>3, <2>4 DEF Allocate
  <2> QED
    BY <2>2, <2>5, <2>6, <2>7, AllocateInKeeps
<1> QED
  BY <1>1, <1>2

\* One round of the loop over the modules of a DII.
LEMMA AnnounceKeeps ==
  ASSUME NEW c, CarouselInv(c), NEW dii, NEW m, Listed(dii, m)
  PROVE  CarouselInv(AnnounceModule(c, dii, m))
<1> DEFINE R == {r \in c.rejected : r.id # m.id}
           known == [c EXCEPT !.rejected = R]
<1>1. CarouselInv(known) /\ \A r \in known.rejected : r.id # m.id
  <2>1. R \in SUBSET c.rejected
    OBVIOUS
  <2>2. CarouselInv(known) /\ known.rejected = R
    BY <2>1, FewerRejected
  <2> QED
    BY <2>2
<1>2. AnnounceModule(c, dii, m) =
        IF Refusal(dii, m) # "none" THEN Reject(c, m, Refusal(dii, m))
        ELSE IF Announced(c, m.id) /\ SameModule(ModuleState(c, m.id), dii, m) THEN known
        ELSE Allocate(known, dii, m)
  BY DEF AnnounceModule
<1> HIDE DEF known
<1>3. /\ Refusal(dii, m) # "none" => Refusal(dii, m) \in Reasons
      /\ Refusal(dii, m) = "none" => m.size > 0 /\ dii.blockSize > 0
  <2>1. m.size \in Nat /\ dii.blockSize \in Nat
    BY ListedTypes
  <2> QED
    BY <2>1, CarouselLimits DEF Refusal, Reasons
<1>4. CASE Refusal(dii, m) # "none"
  BY <1>2, <1>3, <1>4, RejectKeeps
<1>5. CASE Refusal(dii, m) = "none"
  <2>1. CarouselInv(Allocate(known, dii, m))
    BY <1>1, <1>3, <1>5, AllocateKeeps
  <2> QED
    BY <1>1, <1>2, <1>5, <2>1
<1> QED
  BY <1>4, <1>5

\* Modules that a DII does not list are dropped.
LEMMA KeepListedKeeps ==
  ASSUME NEW c, CarouselInv(c), NEW ids
  PROVE  CarouselInv(KeepListed(c, ids))
<1>1. PICK d : d = RemoveModules(c, {s.id : s \in Range(c.modules)} \ ids)
  OBVIOUS
<1>2. PICK R : R = {r \in d.rejected : r.id \in ids}
  OBVIOUS
<1>3. CarouselInv(d) /\ R \in SUBSET d.rejected
  BY <1>1, <1>2, RemovalWithin
<1>4. KeepListed(c, ids) = [d EXCEPT !.rejected = R]
  BY <1>1, <1>2 DEF KeepListed
<1> QED
  BY <1>3, <1>4, FewerRejected

\* However its modules are announced, accepted, refused and evicted, a DII leaves a
\* consistent carousel, and what is accepted is listed.
LEMMA CarouselDIIKeeps ==
  ASSUME NEW c, CarouselInv(c), NEW dii \in DIIs
  PROVE  /\ CarouselInv(CarouselDII(c, dii).carousel)
         /\ CarouselDII(c, dii).accepted \in Seq(Range(dii.modules))
<1> DEFINE N == Len(dii.modules)
           S == {x \in [carousel : Carousels, accepted : Seq(Range(dii.modules))]
                   : CarouselInv(x.carousel)}
           base == [carousel |-> c, accepted |-> << >>]
           Step(x, n) == Collect(x.accepted, AnnounceModule(x.carousel, dii, dii.modules[n]),
                                 dii.modules[n])
           step == [n \in 1 .. N |-> [x \in S |-> Step(x, n)]]
           F[n \in 0 .. N] == IF n = 0 THEN base ELSE Step(F[n - 1], n)
           ids == {m.id : m \in Range(dii.modules)}
<1>1. N \in Nat /\ dii.modules \in Seq(Range(dii.modules)) /\ DOMAIN dii.modules = 1 .. N
  BY DataBroadcastConstants
<1>2. F = CHOOSE f : f = [n \in 0 .. N |-> IF n = 0 THEN base ELSE Step(f[n - 1], n)]
  OBVIOUS
<1>3. CarouselDII(c, dii) = [F[N] EXCEPT !.carousel = KeepListed(@, ids)]
  BY DEF CarouselDII
<1> HIDE DEF F, N
<1>4. base \in S
  BY DEF CarouselInv, Consistent
<1>5. ASSUME NEW x \in S, NEW n \in 1 .. N PROVE Step(x, n) \in S
  <2>1. PICK m : m = dii.modules[n]
    OBVIOUS
  <2>2. Listed(dii, m) /\ m \in Range(dii.modules)
    BY <1>1, <2>1 DEF Listed
  <2>3. PICK d : d = AnnounceModule(x.carousel, dii, m)
    OBVIOUS
  <2>4. CarouselInv(d) /\ d \in Carousels
    BY <2>2, <2>3, AnnounceKeeps DEF CarouselInv, Consistent
  <2>5. x.accepted \in Seq(Range(dii.modules))
        /\ Append(x.accepted, m) \in Seq(Range(dii.modules))
    BY <2>2
  <2>6. Step(x, n) = [carousel |-> d, accepted |-> IF Announced(d, m.id) THEN Append(x.accepted, m)
                                                   ELSE x.accepted]
    BY <2>1, <2>3 DEF Collect
  <2> HIDE DEF Step
  <2>7. PICK a \in Seq(Range(dii.modules)) : Step(x, n) = [carousel |-> d, accepted |-> a]
    BY <2>5, <2>6
  <2>8. [carousel |-> d, accepted |-> a].carousel = d
    OBVIOUS
  <2>9. [carousel |-> d, accepted |-> a] \in [carousel : Carousels, accepted : Seq(Range(dii.modules))]
    BY <2>4
  <2> QED
    BY <2>4, <2>7, <2>8, <2>9
<1> HIDE DEF Step, base, S
<1>6. F = [n \in 0 .. N |-> IF n = 0 THEN base ELSE Step(F[n - 1], n)]
  <2>1. step \in [1 .. N -> [S -> S]]
    BY <1>5
  <2>2. PICK f \in [0 .. N -> S] : f[0] = base /\ \A n \in 1 .. N : f[n] = step[n][f[n - 1]]
    <3>1. PICK a, b, g : a = base /\ b = S /\ g = step
      OBVIOUS
    <3> HIDE DEF step
    <3>2. N \in Nat /\ a \in b /\ g \in [1 .. N -> [b -> b]]
      BY <1>1, <1>4, <2>1, <3>1
    <3>3. \E f \in [0 .. N -> b] : f[0] = a /\ \A n \in 1 .. N : f[n] = g[n][f[n - 1]]
      BY ONLY <3>2, RoundsExist
    <3> QED
      BY <3>1, <3>3
  <2>3. \A n \in 1 .. N : n - 1 \in 0 .. N /\ f[n] = Step(f[n - 1], n)
    <3> SUFFICES ASSUME NEW n \in 1 .. N PROVE n - 1 \in 0 .. N /\ f[n] = Step(f[n - 1], n)
      OBVIOUS
    <3>1. n - 1 \in 0 .. N
      BY <1>1
    <3>2. f[n - 1] \in S
      BY <2>2, <3>1
    <3>3. step[n][f[n - 1]] = Step(f[n - 1], n)
      BY <3>2
    <3> QED
      BY <2>2, <3>1, <3>3
  <2>4. f = [n \in 0 .. N |-> IF n = 0 THEN base ELSE Step(f[n - 1], n)]
    BY <1>1, <2>2, <2>3
  <2> QED
    BY <1>2, <2>4
<1>7. F[0] = base /\ \A n \in 1 .. N : F[n] = Step(F[n - 1], n)
  BY <1>1, <1>6
<1>8. F[N] \in S
  <2>1. F[0] \in S /\ \A n \in 1 .. N : F[n - 1] \in S => F[n] \in S
    BY <1>4, <1>5, <1>7
  <2>2. \A n \in 0 .. N : F[n] \in S
    BY <1>1, <2>1, RoundsStay
  <2> QED
    BY <1>1, <2>2
<1>9. /\ F[N] \in [carousel : Carousels, accepted : Seq(Range(dii.modules))]
      /\ CarouselInv(F[N].carousel)
  BY <1>8 DEF S
<1>10. CarouselInv(KeepListed(F[N].carousel, ids))
  BY <1>9, KeepListedKeeps
<1> QED
  BY <1>3, <1>9, <1>10

-----------------------------------------------------------------------------
(* ObserveDDBWithResult, Restore, ReleaseCompletedPayload.                 *)

\* The state of one module is replaced in its place.
LEMMA SetModuleReplaces ==
  ASSUME NEW c, c \in Carousels, Distinct(c), NEW t \in States(c),
         NEW s \in ModuleStates, s.id = t.id
  PROVE  /\ SetModule(c, s) \in Carousels /\ Distinct(SetModule(c, s))
         /\ States(SetModule(c, s)) = (States(c) \ {t}) \cup {s}
         /\ SetModule(c, s).rejected = c.rejected
         /\ SetModule(c, s).completed = c.completed
         /\ SetModule(c, s).inFlight = c.inFlight
         /\ \A id : Announced(SetModule(c, s), id) => Announced(c, id)
<1> DEFINE q == [i \in DOMAIN c.modules |-> IF c.modules[i].id = s.id THEN s ELSE c.modules[i]]
           d == SetModule(c, s)
<1>1. /\ c.modules \in Seq(ModuleStates) /\ DOMAIN c.modules = 1 .. Len(c.modules)
      /\ Len(c.modules) \in Nat
  BY DEF Carousels
<1>2. d = [c EXCEPT !.modules = q]
  BY DEF SetModule
<1>3. q \in Seq(ModuleStates) /\ DOMAIN q = DOMAIN c.modules
  <2>1. q \in [1 .. Len(c.modules) -> ModuleStates]
    BY <1>1
  <2> QED
    BY <1>1, <2>1, SeqDef
<1>4. \A i \in DOMAIN c.modules : q[i] = IF c.modules[i].id = s.id THEN s ELSE c.modules[i]
  OBVIOUS
<1> HIDE DEF q, d
<1>5. /\ d.modules = q /\ d.rejected = c.rejected /\ d.completed = c.completed
      /\ d.inFlight = c.inFlight /\ d \in Carousels
  BY <1>2, <1>3 DEF Carousels
<1>6. \A i \in DOMAIN c.modules : q[i].id = c.modules[i].id
  BY <1>4
<1>7. Distinct(d)
  BY <1>3, <1>5, <1>6 DEF Distinct
<1>8. PICK k \in DOMAIN c.modules : c.modules[k] = t
  BY DEF States, Range
<1>9. \A i \in DOMAIN c.modules : c.modules[i].id = s.id <=> i = k
  BY <1>8 DEF Distinct
<1>10. States(d) = (States(c) \ {t}) \cup {s}
  <2>1. ASSUME NEW x \in States(d) PROVE x \in (States(c) \ {t}) \cup {s}
    <3>1. PICK i \in DOMAIN c.modules : x = q[i]
      BY <1>3, <1>5 DEF States, Range
    <3>2. CASE i = k
      BY <1>4, <1>9, <3>1, <3>2
    <3>3. CASE i # k
      <4>1. x = c.modules[i] /\ x.id # s.id
        BY <1>4, <1>9, <3>1, <3>3
      <4> QED
        BY <4>1 DEF States, Range
    <3> QED
      BY <3>2, <3>3
  <2>2. ASSUME NEW x \in (States(c) \ {t}) \cup {s} PROVE x \in States(d)
    <3>1. CASE x = s
      BY <1>3, <1>4, <1>5, <1>9, <3>1 DEF States, Range
    <3>2. CASE x \in States(c) \ {t}
      <4>1. PICK i \in DOMAIN c.modules : x = c.modules[i]
        BY <3>2 DEF States, Range
      <4>2. i # k
        BY <1>8, <3>2, <4>1
      <4> QED
        BY <1>3, <1>4, <1>5, <1>9, <4>1, <4>2 DEF States, Range
    <3> QED
      BY <3>1, <3>2
  <2> QED
    BY <2>1, <2>2
<1>11. \A id : Announced(d, id) => Announced(c, id)
  BY <1>3, <1>5, <1>6 DEF Announced, Range
<1> QED
  BY <1>5, <1>7, <1>10, <1>11 DEF d

\* What an account holds when a module joins it.
LEMMA AccountsJoin ==
  ASSUME NEW M \in SUBSET ModuleStates, IsFiniteSet(M), \A s, t \in M : s.id = t.id => s = t,
         NEW t \in M
  PROVE  /\ BytesOf(M \ {t}) \in Nat /\ BytesOf(M) = BytesOf(M \ {t}) + Len(t.data)
         /\ SizesOf(M \ {t}) \in Nat /\ SizesOf(M) = SizesOf(M \ {t}) + t.size
         /\ Len(t.data) \in Nat /\ t.size \in Nat
<1>1. PICK Q, A, B : Q = M /\ A = M \ {t} /\ B = {t}
  OBVIOUS
<1>2. /\ Q \in SUBSET ModuleStates /\ IsFiniteSet(Q) /\ \A x, y \in Q : x.id = y.id => x = y
      /\ Q = A \cup B /\ A \cap B = {}
  BY <1>1
<1>3. BytesOf(A) \in Nat /\ BytesOf(Q) = BytesOf(A) + BytesOf(B)
  BY ONLY <1>2, AccountsSplit
<1>4. SizesOf(A) \in Nat /\ SizesOf(Q) = SizesOf(A) + SizesOf(B)
  BY ONLY <1>2, AccountsSplit
<1> QED
  BY <1>1, <1>3, <1>4, AccountsOfOne

\* The accounts of a carousel, of which state t of a module is replaced by s.
LEMMA AccountsMove ==
  ASSUME NEW c, Consistent(c), NEW t \in States(c), NEW s \in ModuleStates,
         NEW d, d \in Carousels, Distinct(d), States(d) = (States(c) \ {t}) \cup {s}, s.id = t.id
  PROVE  /\ ~t.done /\ ~s.done /\ s.size = t.size =>
               SizesOf(Open(d)) = c.inFlight /\ BytesOf(Done(d)) = c.completed
         /\ ~t.done /\ s.done =>
               SizesOf(Open(d)) = c.inFlight - t.size /\ BytesOf(Done(d)) = c.completed + Len(s.data)
         /\ t.done /\ s.done =>
               /\ SizesOf(Open(d)) = c.inFlight
               /\ BytesOf(Done(d)) = c.completed - Len(t.data) + Len(s.data)
<1>1. /\ c \in Carousels /\ Distinct(c)
      /\ c.completed = BytesOf(Done(c)) /\ c.inFlight = SizesOf(Open(c))
      /\ c.completed \in Nat /\ c.inFlight \in Nat
  BY DEF Consistent, Accounted, Carousels
<1>2. /\ Done(c) \in SUBSET ModuleStates /\ IsFiniteSet(Done(c))
      /\ Open(c) \in SUBSET ModuleStates /\ IsFiniteSet(Open(c))
      /\ Done(d) \in SUBSET ModuleStates /\ IsFiniteSet(Done(d))
      /\ Open(d) \in SUBSET ModuleStates /\ IsFiniteSet(Open(d))
      /\ \A x, y \in States(c) : x.id = y.id => x = y
      /\ \A x, y \in States(d) : x.id = y.id => x = y
  BY <1>1, StatesOfCarousel
<1>3. /\ \A x, y \in Done(c) : x.id = y.id => x = y
      /\ \A x, y \in Open(c) : x.id = y.id => x = y
      /\ \A x, y \in Done(d) : x.id = y.id => x = y
      /\ \A x, y \in Open(d) : x.id = y.id => x = y
  BY <1>2 DEF Done, Open
<1>4. s \in States(c) => s = t
  BY <1>2
<1>5. ASSUME ~t.done, ~s.done, s.size = t.size
      PROVE  SizesOf(Open(d)) = c.inFlight /\ BytesOf(Done(d)) = c.completed
  <2>1. /\ Done(d) = Done(c) /\ t \in Open(c) /\ s \in Open(d)
        /\ Open(d) \ {s} = Open(c) \ {t}
    BY <1>4, <1>5 DEF Done, Open
  <2>2. SizesOf(Open(d)) = SizesOf(Open(d) \ {s}) + s.size
    BY <1>2, <1>3, <2>1, AccountsJoin
  <2>3. SizesOf(Open(c)) = SizesOf(Open(c) \ {t}) + t.size
    BY <1>2, <1>3, <2>1, AccountsJoin
  <2> QED
    BY <1>1, <1>5, <2>1, <2>2, <2>3
<1>6. ASSUME ~t.done, s.done
      PROVE  SizesOf(Open(d)) = c.inFlight - t.size /\ BytesOf(Done(d)) = c.completed + Len(s.data)
  <2>1. /\ t \in Open(c) /\ s \in Done(d)
        /\ Open(d) = Open(c) \ {t} /\ Done(d) \ {s} = Done(c)
    BY <1>4, <1>6 DEF Done, Open
  <2>2. BytesOf(Done(d)) = BytesOf(Done(d) \ {s}) + Len(s.data)
    BY <1>2, <1>3, <2>1, AccountsJoin
  <2>3. /\ SizesOf(Open(c)) = SizesOf(Open(c) \ {t}) + t.size
        /\ SizesOf(Open(c) \ {t}) \in Nat /\ t.size \in Nat
    BY <1>2, <1>3, <2>1, AccountsJoin
  <2>4. PICK x, y \in Nat : x = SizesOf(Open(d)) /\ y = t.size
    BY <2>1, <2>3
  <2>5. c.inFlight = x + y
    BY <1>1, <2>1, <2>3, <2>4
  <2>6. x = c.inFlight - y
    BY <2>5
  <2> QED
    BY <1>1, <2>1, <2>2, <2>4, <2>6
<1>7. ASSUME t.done, s.done
      PROVE  /\ SizesOf(Open(d)) = c.inFlight
             /\ BytesOf(Done(d)) = c.completed - Len(t.data) + Len(s.data)
  <2>1. /\ t \in Done(c) /\ s \in Done(d) /\ Open(d) = Open(c)
        /\ Done(d) \ {s} = Done(c) \ {t}
    BY <1>4, <1>7 DEF Done, Open
  <2>2. BytesOf(Done(d)) = BytesOf(Done(d) \ {s}) + Len(s.data)
    BY <1>2, <1>3, <2>1, AccountsJoin
  <2>3. /\ BytesOf(Done(c)) = BytesOf(Done(c) \ {t}) + Len(t.data)
        /\ BytesOf(Done(c) \ {t}) \in Nat /\ Len(t.data) \in Nat
    BY <1>2, <1>3, <2>1, AccountsJoin
  <2>4. PICK x, y \in Nat : x = BytesOf(Done(c) \ {t}) /\ y = Len(t.data)
    BY <2>3
  <2>5. c.completed = x + y
    BY <1>1, <2>3, <2>4
  <2>6. x = c.completed - y
    BY <2>5
  <2> QED
    BY <1>1, <2>1, <2>2, <2>4, <2>6
<1> QED
  BY <1>5, <1>6, <1>7

LEMMA AccountsGrow ==
  ASSUME NEW M \in SUBSET ModuleStates, IsFiniteSet(M), NEW A \in SUBSET M
  PROVE  BytesOf(A) <= BytesOf(M)
<1>1. A \in SUBSET ModuleStates
  OBVIOUS
<1>2. Count(A, LengthOf) <= Count(M, LengthOf)
  BY Lengths, CountGrows
<1> QED
  BY <1>1, <1>2, AccountsAreCounts

\* The bytes of a module that has them all are as many as its size says.
LEMMA WholeLength ==
  ASSUME NEW s, s.size \in Nat
  PROVE  Len(Whole(s)) = s.size /\ DOMAIN Whole(s) = 1 .. s.size
BY DEF Whole

\* A module that is complete leaves one account for the other.  Older ones make room,
\* and if their room is not enough it goes itself: without it the account is back below
\* what it was.
LEMMA CompleteKeeps ==
  ASSUME NEW c, CarouselInv(c), NEW t \in Open(c),
         NEW s \in AnyState, KeyOf(s) \in Modules, s.id = t.id, s.size = t.size,
         s.size > 0, s.blockSize > 0, s.data = Whole(s)
  PROVE  /\ CarouselInv(CompleteModule(c, s))
         /\ \A x \in States(CompleteModule(c, s)) :
               IF x.id = s.id THEN x.done /\ x.data = Whole(x) ELSE x \in States(c)
<1> DEFINE s2 == [s EXCEPT !.received = {}, !.done = TRUE]
<1>1. /\ c \in Carousels /\ Distinct(c) /\ Accounted(c) /\ Within(c) /\ Consistent(c)
      /\ c.completed \in Nat /\ c.inFlight \in Nat
      /\ t \in States(c) /\ ~t.done /\ s.size \in Nat
  BY DEF CarouselInv, Consistent, Carousels, Open, AnyState
<1>2. /\ s2 \in AnyState /\ s2.done /\ s2.id = s.id /\ s2.data = s.data /\ s2.size = s.size
      /\ s2.download = s.download /\ s2.version = s.version /\ s2.blockSize = s.blockSize
  BY DEF AnyState
<1>3. PICK u : u = s2
  OBVIOUS
<1> HIDE DEF s2
<1>4. Whole(u) = Whole(s) /\ KeyOf(u) \in Modules /\ u.done /\ u.id = s.id /\ u.data = s.data
  BY <1>2, <1>3 DEF Whole, KeyOf
<1>5. u \in ModuleStates /\ Len(u.data) = s.size
  <2>1. ModuleOK(u)
    BY <1>2, <1>3, <1>4 DEF ModuleOK
  <2>2. Len(u.data) = s.size
    BY <1>1, <1>4, WholeLength
  <2> QED
    BY <1>2, <1>3, <2>1, <2>2 DEF ModuleStates
<1>6. PICK e : e = SetModule(c, u)
  OBVIOUS
<1>7. /\ e \in Carousels /\ Distinct(e) /\ States(e) = (States(c) \ {t}) \cup {u}
      /\ e.rejected = c.rejected /\ e.completed = c.completed /\ e.inFlight = c.inFlight
      /\ \A id : Announced(e, id) => Announced(c, id)
  BY <1>1, <1>4, <1>5, <1>6, SetModuleReplaces
<1>8. /\ SizesOf(Open(e)) = c.inFlight - s.size
      /\ BytesOf(Done(e)) = c.completed + s.size
      /\ SizesOf(Open(e)) \in Nat /\ BytesOf(Done(e)) \in Nat
  <2>1. /\ SizesOf(Open(e)) = c.inFlight - t.size
        /\ BytesOf(Done(e)) = c.completed + Len(u.data)
    BY <1>1, <1>4, <1>5, <1>7, AccountsMove
  <2>2. SizesOf(Open(e)) \in Nat
    <3>1. Open(e) \in SUBSET ModuleStates /\ IsFiniteSet(Open(e))
      BY <1>7, StatesOfCarousel
    <3>2. Count(Open(e), SizeOf) \in Nat
      BY <3>1, Lengths, BytesFinite
    <3> QED
      BY <3>1, <3>2, AccountsAreCounts
  <2> QED
    BY <1>1, <1>5, <2>1, <2>2
<1>9. PICK a : a = [e EXCEPT !.inFlight = @ - s.size, !.completed = @ + s.size]
  OBVIOUS
<1>10. /\ a \in Carousels /\ a.modules = e.modules /\ a.rejected = c.rejected
       /\ a.inFlight = c.inFlight - s.size /\ a.completed = c.completed + s.size
  <2>1. PICK x, y \in Nat : x = e.inFlight - s.size /\ y = e.completed + s.size
    BY <1>1, <1>7, <1>8
  <2>2. a = [e EXCEPT !.inFlight = x, !.completed = y]
    BY <1>9, <2>1
  <2> QED
    BY <1>7, <2>1, <2>2 DEF Carousels
<1>11. Consistent(a) /\ States(a) = States(e) /\ a.inFlight <= MaxInFlightBytes
  <2>1. Distinct(a) /\ States(a) = States(e) /\ Open(a) = Open(e) /\ Done(a) = Done(e)
    BY <1>7, <1>10 DEF Distinct, States, Open, Done
  <2>2. \A r \in a.rejected : ~Announced(a, r.id)
    BY <1>1, <1>7, <1>10, <2>1 DEF Accounted, Announced, States
  <2>3. a.inFlight <= MaxInFlightBytes
    <3>1. PICK x, y \in Nat : x = c.inFlight /\ y = s.size
      BY <1>1
    <3>2. a.inFlight = x - y /\ x <= MaxInFlightBytes
      BY <1>1, <1>10, <3>1 DEF Within
    <3> QED
      BY <3>1, <3>2, CarouselLimits
  <2> QED
    BY <1>8, <1>10, <2>1, <2>2, <2>3 DEF Consistent, Accounted
<1>12. PICK ids : s.id \notin ids /\ EvictCompleted(a, s.id) = RemoveModules(a, ids)
  BY <1>11, EvictionsAreRemovals
<1>13. PICK b : b = RemoveModules(a, ids)
  OBVIOUS
<1>14. /\ Consistent(b) /\ States(b) = {x \in States(a) : x.id \notin ids}
       /\ b.inFlight <= a.inFlight
  BY <1>11, <1>13, RemovalKeeps
<1>15. b.inFlight <= MaxInFlightBytes /\ b.inFlight \in Nat /\ b.completed \in Nat
  <2>1. b.inFlight \in Nat /\ a.inFlight \in Nat /\ b.completed \in Nat
    BY <1>10, <1>14 DEF Consistent, Carousels
  <2> QED
    BY <1>11, <1>14, <2>1, CarouselLimits
<1>16. CompleteModule(c, s) = DropIfOver(b, s.id)
  BY <1>3, <1>6, <1>9, <1>12, <1>13 DEF CompleteModule, s2
<1>17. \A x \in States(b) : IF x.id = s.id THEN x = u ELSE x \in States(c)
  <2>1. \A x \in States(c) : x.id = s.id => x = t
    BY <1>1, StatesOfCarousel
  <2> QED
    BY <1>4, <1>7, <1>11, <1>14, <2>1
<1>18. CASE ~(b.completed > MaxCompletedBytes)
  <2>1. CompleteModule(c, s) = b
    BY <1>16, <1>18 DEF DropIfOver
  <2>2. CarouselInv(b)
    BY <1>14, <1>15, <1>18, CarouselLimits DEF CarouselInv, Within
  <2> QED
    BY <1>4, <1>17, <2>1, <2>2
<1>19. CASE b.completed > MaxCompletedBytes
  <2>1. PICK d : d = RemoveModules(b, {s.id})
    OBVIOUS
  <2>2. CompleteModule(c, s) = d
    BY <1>16, <1>19, <2>1 DEF DropIfOver
  <2>3. /\ Consistent(d) /\ States(d) = {x \in States(b) : x.id \notin {s.id}}
        /\ d.inFlight <= b.inFlight
    BY <1>14, <2>1, RemovalKeeps
  <2>4. d.inFlight \in Nat /\ d.completed \in Nat /\ d.completed = BytesOf(Done(d))
    BY <2>3 DEF Consistent, Carousels, Accounted
  <2>5. \A x \in States(d) : x.id # s.id /\ x \in States(c)
    BY <1>17, <2>3
  <2>6. BytesOf(Done(d)) <= BytesOf(Done(c))
    <3>1. Done(d) \in SUBSET Done(c)
      BY <2>5 DEF Done
    <3>2. Done(c) \in SUBSET ModuleStates /\ IsFiniteSet(Done(c))
      BY <1>1, StatesOfCarousel
    <3> QED
      BY <3>1, <3>2, AccountsGrow
  <2>7. Within(d)
    <3>1. c.completed = BytesOf(Done(c)) /\ c.completed <= MaxCompletedBytes
      BY <1>1 DEF Accounted, Within
    <3> QED
      BY <1>1, <1>15, <2>3, <2>4, <2>6, <3>1, CarouselLimits DEF Within
  <2> QED
    BY <2>2, <2>3, <2>5, <2>7 DEF CarouselInv
<1> QED
  BY <1>18, <1>19

LEMMA Quotient ==
  ASSUME NEW n \in Nat, NEW d \in Nat \ {0}
  PROVE  n \div d \in Nat /\ (n \div d) * d <= n /\ n < (n \div d) * d + d
OBVIOUS

LEMMA FewerTimes ==
  ASSUME NEW a \in Nat, NEW b \in Nat, NEW d \in Nat, b * d < a * d
  PROVE  b < a
<1> SUFFICES ASSUME a <= b PROVE FALSE
  OBVIOUS
<1>1. PICK k \in Nat : b = a + k
  <2>1. b - a \in Nat /\ b = a + (b - a)
    OBVIOUS
  <2> QED
    BY <2>1
<1>2. (a + k) * d = a * d + k * d /\ k * d \in Nat /\ a * d \in Nat
  OBVIOUS
<1> QED
  BY <1>1, <1>2

\* The blocks of a module, of which the last may be short, cover all its bytes.
LEMMA BlocksCover ==
  ASSUME NEW size \in Nat \ {0}, NEW d \in Nat \ {0}
  PROVE  /\ BlockCount(size, d) \in Nat
         /\ \A i \in 1 .. size : \E b \in 0 .. BlockCount(size, d) - 1 :
               b \in Nat /\ i \in b * d + 1 .. b * d + d
<1>1. PICK n \in Nat : n = size + d - 1
  OBVIOUS
<1>2. PICK q \in Nat : q = n \div d /\ n < q * d + d
  BY <1>1, Quotient
<1>3. BlockCount(size, d) = q
  BY <1>1, <1>2 DEF BlockCount
<1>4. ASSUME NEW i \in 1 .. size
      PROVE  \E b \in 0 .. q - 1 : b \in Nat /\ i \in b * d + 1 .. b * d + d
  <2>1. PICK k \in Nat : k = i - 1 /\ k + 1 <= size
    OBVIOUS
  <2>2. PICK b \in Nat : b * d <= k /\ k < b * d + d
    BY Quotient
  <2>3. PICK x \in Nat, y \in Nat : x = b * d /\ y = q * d
    BY <1>2, <2>2
  <2>4. x < y
    BY <1>1, <1>2, <2>1, <2>2, <2>3
  <2>5. b < q
    BY <2>3, <2>4, FewerTimes
  <2>6. b \in 0 .. q - 1 /\ i \in x + 1 .. x + d
    BY <2>1, <2>2, <2>3, <2>5
  <2> QED
    BY <2>3, <2>6
<1> QED
  BY <1>3, <1>4

LEMMA FilledOK ==
  ASSUME NEW s \in ModuleStates, ~s.done,
         NEW ddb \in DDBs, ddb.download = s.download, ddb.version = s.version,
         ~(ddb.block >= BlockCount(s.size, s.blockSize))
  PROVE  /\ Filled(s, ddb) \in ModuleStates /\ ~Filled(s, ddb).done
         /\ Filled(s, ddb).id = s.id /\ Filled(s, ddb).size = s.size
         /\ Filled(s, ddb).received = s.received \cup {ddb.block}
<1> DEFINE off == ddb.block * s.blockSize
           data == [i \in DOMAIN s.data |-> IF i \in off + 1 .. off + s.blockSize
                                            THEN <<ddb.download, ddb.version>> ELSE s.data[i]]
           f == Filled(s, ddb)
<1>1. /\ s \in AnyState /\ KeyOf(s) \in Modules /\ s.size \in Nat \ {0} /\ s.blockSize \in Nat \ {0}
      /\ Len(s.data) = s.size /\ s.data \in Seq(Marks) /\ DOMAIN s.data = 1 .. s.size
      /\ s.received \subseteq 0 .. BlockCount(s.size, s.blockSize) - 1
      /\ \A b \in s.received : \A i \in Places(s, b) :
            i \in 1 .. s.size => s.data[i] = <<s.download, s.version>>
  BY DEF ModuleStates, ModuleOK, AnyState
<1>2. ddb.block \in Nat
  <2>1. PICK d \in DIIs : /\ d.blockSize # 0
                          /\ \E m \in Range(d.modules) :
                             \E b \in 0 .. BlockCount(m.size, d.blockSize) - 1 :
                                ddb = [id |-> m.id, download |-> d.download,
                                       version |-> m.version, block |-> b]
    BY DEF DDBs
  <2>1a. PICK m \in Range(d.modules) :
            \E b \in 0 .. BlockCount(m.size, d.blockSize) - 1 :
               ddb = [id |-> m.id, download |-> d.download, version |-> m.version, block |-> b]
    BY <2>1
  <2>2. PICK b \in 0 .. BlockCount(m.size, d.blockSize) - 1 : ddb.block = b
    BY <2>1a
  <2>3. BlockCount(m.size, d.blockSize) \in Int
    <3>1. m.size \in Nat /\ d.blockSize \in Nat \ {0}
      BY <2>1, DataBroadcastConstants
    <3> QED
      BY <3>1 DEF BlockCount
  <2> QED
    BY <2>2, <2>3
<1>3. f = [s EXCEPT !.received = @ \cup {ddb.block}, !.data = data]
  BY DEF Filled
<1>4. <<s.download, s.version>> \in Marks
  BY <1>1 DEF AnyState, Marks
<1>5. data \in Seq(Marks) /\ Len(data) = s.size
  <2>1. \A i \in 1 .. s.size : s.data[i] \in Marks
    BY <1>1
  <2>2. data \in [1 .. s.size -> Marks]
    BY <1>1, <1>4, <2>1
  <2> HIDE DEF data
  <2> QED
    BY <1>1, <2>2, SeqDef, LenProperties
<1>6. \A i \in 1 .. s.size : data[i] = IF i \in Places(s, ddb.block)
                                       THEN <<s.download, s.version>> ELSE s.data[i]
  BY <1>1 DEF Places
<1> HIDE DEF data, f
<1>7. /\ f \in AnyState /\ ~f.done /\ f.id = s.id /\ f.size = s.size /\ f.blockSize = s.blockSize
      /\ f.received = s.received \cup {ddb.block} /\ f.data = data
      /\ f.download = s.download /\ f.version = s.version
  BY <1>1, <1>2, <1>3, <1>5 DEF AnyState
<1>8. BlockCount(s.size, s.blockSize) \in Nat
  BY <1>1, BlocksCover
<1>9. f.received \subseteq 0 .. BlockCount(f.size, f.blockSize) - 1
  <2>1. ddb.block \in 0 .. BlockCount(s.size, s.blockSize) - 1
    BY <1>2, <1>8
  <2> QED
    BY <1>1, <1>7, <2>1
<1>10. ASSUME NEW b \in f.received, NEW i \in Places(f, b), i \in 1 .. f.size
       PROVE  f.data[i] = <<f.download, f.version>>
  <2>1. Places(f, b) = Places(s, b)
    BY <1>7 DEF Places
  <2>2. CASE i \in Places(s, ddb.block)
    BY <1>6, <1>7, <1>10, <2>2
  <2>3. CASE i \notin Places(s, ddb.block)
    <3>1. b \in s.received
      BY <1>7, <2>1, <2>3
    <3>2. s.data[i] = <<s.download, s.version>>
      BY <1>1, <1>7, <1>10, <2>1, <3>1
    <3> QED
      BY <1>6, <1>7, <1>10, <2>3, <3>2
  <2> QED
    BY <2>2, <2>3
<1>11. KeyOf(f) \in Modules
  BY <1>1, <1>7 DEF KeyOf
<1>12. ModuleOK(f)
  BY <1>1, <1>5, <1>7, <1>9, <1>10, <1>11 DEF ModuleOK
<1> QED
  BY <1>7, <1>12 DEF ModuleStates, f

\* When as many blocks are counted as there are, every byte has come.
LEMMA AllBlocksAreWhole ==
  ASSUME NEW s \in ModuleStates, ~s.done,
         ~(Cardinality(s.received) < BlockCount(s.size, s.blockSize))
  PROVE  s.data = Whole(s)
<1>1. /\ s.size \in Nat \ {0} /\ s.blockSize \in Nat \ {0}
      /\ Len(s.data) = s.size /\ s.data \in Seq(Marks) /\ DOMAIN s.data = 1 .. s.size
      /\ s.received \in SUBSET (0 .. BlockCount(s.size, s.blockSize) - 1)
      /\ \A b \in s.received : \A i \in Places(s, b) :
            i \in 1 .. s.size => s.data[i] = <<s.download, s.version>>
  BY DEF ModuleStates, ModuleOK, AnyState
<1>2. PICK q \in Nat : q = BlockCount(s.size, s.blockSize)
  BY <1>1, BlocksCover
<1>3. IsFiniteSet(0 .. q - 1) /\ Cardinality(0 .. q - 1) = q
  <2>1. 0 \in Int /\ q - 1 \in Int /\ (0 > q - 1 => q = 0) /\ q - 1 - 0 + 1 = q
    OBVIOUS
  <2>2. /\ IsFiniteSet(0 .. q - 1)
        /\ Cardinality(0 .. q - 1) = IF 0 > q - 1 THEN 0 ELSE q - 1 - 0 + 1
    BY <2>1, FS_Interval
  <2> QED
    BY <2>1, <2>2
<1>4. s.received = 0 .. q - 1
  <2>1. s.received \in SUBSET (0 .. q - 1)
    BY <1>1, <1>2
  <2>2. /\ IsFiniteSet(s.received) /\ Cardinality(s.received) <= q
        /\ Cardinality(0 .. q - 1) = Cardinality(s.received) => 0 .. q - 1 = s.received
    BY <1>3, <2>1, FS_Subset
  <2>3. Cardinality(s.received) \in Nat
    BY <2>2, FS_CardinalityType
  <2>4. Cardinality(s.received) = q
    BY <1>2, <2>2, <2>3
  <2> QED
    BY <1>3, <2>2, <2>4
<1>5. ASSUME NEW i \in 1 .. s.size PROVE s.data[i] = <<s.download, s.version>>
  <2>1. PICK b \in 0 .. q - 1 : i \in b * s.blockSize + 1 .. b * s.blockSize + s.blockSize
    BY <1>1, <1>2, BlocksCover
  <2>2. i \in Places(s, b)
    BY <2>1 DEF Places
  <2> QED
    BY <1>1, <1>4, <2>2
<1>6. s.data = [i \in 1 .. s.size |-> s.data[i]]
  BY <1>1
<1> QED
  BY <1>5, <1>6 DEF Whole

\* A module that gets a block and stays in assembly moves nothing between the accounts.
LEMMA FillKeeps ==
  ASSUME NEW c, CarouselInv(c), NEW t \in States(c), ~t.done,
         NEW s \in ModuleStates, ~s.done, s.id = t.id, s.size = t.size
  PROVE  /\ CarouselInv(SetModule(c, s))
         /\ s \in States(SetModule(c, s))
<1>1. /\ c \in Carousels /\ Distinct(c) /\ Accounted(c) /\ Within(c) /\ Consistent(c)
  BY DEF CarouselInv, Consistent
<1>2. PICK d : d = SetModule(c, s)
  OBVIOUS
<1>3. /\ d \in Carousels /\ Distinct(d) /\ States(d) = (States(c) \ {t}) \cup {s}
      /\ d.rejected = c.rejected /\ d.completed = c.completed /\ d.inFlight = c.inFlight
      /\ \A id : Announced(d, id) => Announced(c, id)
  BY <1>1, <1>2, SetModuleReplaces
<1>4. SizesOf(Open(d)) = c.inFlight /\ BytesOf(Done(d)) = c.completed
  BY <1>1, <1>3, AccountsMove
<1>5. Accounted(d) /\ Within(d)
  BY <1>1, <1>3, <1>4 DEF Accounted, Within
<1> QED
  BY <1>2, <1>3, <1>5 DEF CarouselInv, Consistent

\* A block keeps the carousel consistent, and a module that it completes is whole.
LEMMA CarouselDDBKeeps ==
  ASSUME NEW c, CarouselInv(c), NEW ddb \in DDBs
  PROVE  /\ CarouselInv(CarouselDDB(c, ddb))
         /\ IsComplete(CarouselDDB(c, ddb), ddb.id) /\ ~IsComplete(c, ddb.id) =>
               LET s == ModuleState(CarouselDDB(c, ddb), ddb.id)
               IN  s \in ModuleStates /\ s.data = Whole(s)
<1>1. PICK a : a = CarouselDDB(c, ddb)
  OBVIOUS
<1>2. SUFFICES /\ CarouselInv(a)
               /\ IsComplete(a, ddb.id) /\ ~IsComplete(c, ddb.id) =>
                     /\ ModuleState(a, ddb.id) \in ModuleStates
                     /\ ModuleState(a, ddb.id).data = Whole(ModuleState(a, ddb.id))
  BY <1>1
<1>3. /\ c \in Carousels /\ Distinct(c)
  BY DEF CarouselInv, Consistent
<1>4. CASE a = c
  BY <1>4
<1>5. CASE a # c
  <2>1. PICK s : s = ModuleState(c, ddb.id)
    OBVIOUS
  <2>2. /\ Announced(c, ddb.id) /\ BelongsTo(s, ddb)
        /\ ~(ddb.block >= BlockCount(s.size, s.blockSize))
        /\ a = IF Cardinality(s.received \cup {ddb.block}) < BlockCount(s.size, s.blockSize)
               THEN SetModule(c, Filled(s, ddb)) ELSE CompleteModule(c, Filled(s, ddb))
    BY <1>1, <1>5, <2>1 DEF CarouselDDB, StoreBlock
  <2>3. s \in States(c) /\ s \in ModuleStates /\ s.id = ddb.id
    BY <1>3, <2>1, <2>2, StateOfModule
  <2>4. ~s.done /\ s \in Open(c)
    BY <2>2, <2>3 DEF BelongsTo, Open
  <2>5. PICK f : f = Filled(s, ddb)
    OBVIOUS
  <2>6. /\ f \in ModuleStates /\ ~f.done /\ f.id = s.id /\ f.size = s.size
        /\ f.received = s.received \cup {ddb.block}
    BY <2>2, <2>3, <2>4, <2>5, FilledOK DEF BelongsTo
  <2>7. CASE Cardinality(f.received) < BlockCount(s.size, s.blockSize)
    <3>1. a = SetModule(c, f)
      BY <2>2, <2>5, <2>6, <2>7
    <3>2. CarouselInv(a) /\ f \in States(a)
      BY <2>3, <2>4, <2>6, <3>1, FillKeeps
    <3>3. ~IsComplete(a, ddb.id)
      <4>1. a \in Carousels /\ Distinct(a)
        BY <3>2 DEF CarouselInv, Consistent
      <4>2. Announced(a, ddb.id) => ModuleState(a, ddb.id) = f
        BY <2>3, <2>6, <3>2, <4>1, StateOfModule
      <4> QED
        BY <2>6, <4>2 DEF IsComplete
    <3> QED
      BY <3>2, <3>3
  <2>8. CASE ~(Cardinality(f.received) < BlockCount(s.size, s.blockSize))
    <3>1. a = CompleteModule(c, f)
      BY <2>2, <2>5, <2>6, <2>8
    <3>2. s.blockSize = f.blockSize
      BY <2>3, <2>5 DEF Filled, ModuleStates, AnyState
    <3>3. f.data = Whole(f)
      BY <2>6, <2>8, <3>2, AllBlocksAreWhole
    <3>4. f \in AnyState /\ KeyOf(f) \in Modules /\ f.size > 0 /\ f.blockSize > 0
      BY <2>6 DEF ModuleStates, ModuleOK
    <3>5. /\ CarouselInv(a)
          /\ \A x \in States(a) : x.id = f.id => x.done /\ x.data = Whole(x)
      BY <2>4, <2>6, <3>1, <3>3, <3>4, CompleteKeeps
    <3>6. a \in Carousels /\ Distinct(a)
      BY <3>5 DEF CarouselInv, Consistent
    <3>7. Announced(a, ddb.id) => /\ ModuleState(a, ddb.id) \in States(a)
                                  /\ ModuleState(a, ddb.id) \in ModuleStates
                                  /\ ModuleState(a, ddb.id).id = ddb.id
      BY <3>6, StateOfModule
    <3> QED
      BY <2>3, <2>6, <3>5, <3>7 DEF IsComplete
  <2> QED
    BY <2>7, <2>8
<1> QED
  BY <1>4, <1>5

\* What is in the store.
StoredModules ==
  {m \in [id : Ids, download : Downloads, version : Editions, size : Nat, data : Seq(Marks)]
     : KeyOf(m) \in Modules /\ m.data = Whole(m)}

\* A module is restored with the bytes of a stored one of its own version.
LEMMA RestoreKeeps ==
  ASSUME NEW c, CarouselInv(c), NEW m \in StoredModules, MayRestore(c, m)
  PROVE  CarouselInv(Restore(c, m))
<1>1. PICK t : t = ModuleState(c, m.id)
  OBVIOUS
<1>2. /\ Announced(c, m.id) /\ ~t.done /\ t.download = m.download /\ t.version = m.version
      /\ t.size = m.size
  BY <1>1 DEF MayRestore
<1>3. t \in States(c) /\ t \in ModuleStates /\ t \in Open(c)
  BY <1>1, <1>2, StateOfModule DEF CarouselInv, Consistent, Open
<1>4. PICK s : s = [t EXCEPT !.data = m.data]
  OBVIOUS
<1>5. m.data \in Seq(Marks) /\ m.data = Whole(m)
  BY DEF StoredModules
<1>6. t \in AnyState /\ KeyOf(t) \in Modules /\ t.size > 0 /\ t.blockSize > 0
  BY <1>3 DEF ModuleStates, ModuleOK
<1>7. /\ s \in AnyState /\ s.data = m.data /\ s.id = t.id /\ s.size = t.size
      /\ s.blockSize = t.blockSize /\ s.download = t.download /\ s.version = t.version
  BY <1>4, <1>5, <1>6 DEF AnyState
<1>8. KeyOf(s) \in Modules /\ s.data = Whole(s)
  BY <1>2, <1>5, <1>6, <1>7 DEF KeyOf, Whole
<1>9. Restore(c, m) = CompleteModule(c, s)
  BY <1>1, <1>4 DEF Restore
<1> QED
  BY <1>3, <1>6, <1>7, <1>8, <1>9, CompleteKeeps

\* The bytes that are let go are subtracted, once.
LEMMA ReleaseKeeps ==
  ASSUME NEW c, CarouselInv(c), NEW id
  PROVE  CarouselInv(ReleaseCompletedPayload(c, id))
<1>1. CASE ~HasPayload(c, id)
  BY <1>1 DEF ReleaseCompletedPayload
<1>2. CASE HasPayload(c, id)
  <2>1. PICK t : t = ModuleState(c, id)
    OBVIOUS
  <2>2. /\ c \in Carousels /\ Distinct(c) /\ Accounted(c) /\ Within(c) /\ Consistent(c)
        /\ c.completed \in Nat /\ c.inFlight \in Nat
    BY DEF CarouselInv, Consistent, Carousels
  <2>3. t \in States(c) /\ t \in ModuleStates /\ t.done /\ t.id = id
    BY <1>2, <2>1, <2>2, StateOfModule DEF HasPayload, IsComplete
  <2>4. PICK s : s = [t EXCEPT !.data = << >>]
    OBVIOUS
  <2>5. /\ s \in AnyState /\ s.data = << >> /\ s.id = t.id /\ s.done
        /\ KeyOf(s) = KeyOf(t) /\ s.size = t.size /\ s.blockSize = t.blockSize
    <3>1. PICK none \in Seq(Marks) : none = << >>
      <4>1. << >> \in Seq(Marks)
        OBVIOUS
      <4> QED
        BY <4>1, Zenon
    <3>2. s = [t EXCEPT !.data = none] /\ t \in AnyState
      BY <2>3, <2>4, <3>1 DEF ModuleStates
    <3>3. /\ s \in AnyState /\ s.data = none /\ s.id = t.id /\ s.done = t.done
          /\ s.size = t.size /\ s.blockSize = t.blockSize
          /\ s.download = t.download /\ s.version = t.version
      BY <3>2 DEF AnyState
    <3> QED
      BY <2>3, <3>1, <3>3 DEF KeyOf
  <2>6. s \in ModuleStates
    BY <2>3, <2>5 DEF ModuleStates, ModuleOK
  <2>7. PICK e : e = SetModule(c, s)
    OBVIOUS
  <2>8. /\ e \in Carousels /\ Distinct(e) /\ States(e) = (States(c) \ {t}) \cup {s}
        /\ e.rejected = c.rejected /\ e.completed = c.completed /\ e.inFlight = c.inFlight
        /\ \A k : Announced(e, k) => Announced(c, k)
    BY <2>2, <2>3, <2>5, <2>6, <2>7, SetModuleReplaces
  <2>9. /\ SizesOf(Open(e)) = c.inFlight
        /\ BytesOf(Done(e)) = c.completed - Len(t.data) + Len(s.data)
    BY <2>2, <2>3, <2>5, <2>6, <2>8, AccountsMove
  <2>10. Len(t.data) \in Nat /\ Len(s.data) = 0
    BY <2>3, <2>5, AccountsOfOne
  <2>11. BytesOf(Done(e)) \in Nat
    <3>1. Done(e) \in SUBSET ModuleStates /\ IsFiniteSet(Done(e))
      BY <2>8, StatesOfCarousel
    <3>2. Count(Done(e), LengthOf) \in Nat
      BY <3>1, Lengths, BytesFinite
    <3> QED
      BY <3>1, <3>2, AccountsAreCounts
  <2>12. PICK x, y \in Nat : x = c.completed - Len(t.data) /\ y = Len(t.data)
                            /\ x = BytesOf(Done(e)) /\ x <= c.completed
    <3>1. PICK y \in Nat : y = Len(t.data)
      BY <2>10
    <3>2. c.completed - y + 0 = c.completed - y /\ c.completed - y <= c.completed
      BY <2>2
    <3> QED
      BY <2>9, <2>10, <2>11, <3>1, <3>2
  <2>13. PICK d : d = [e EXCEPT !.completed = x]
    OBVIOUS
  <2>14. ReleaseCompletedPayload(c, id) = d
    BY <1>2, <2>1, <2>4, <2>7, <2>8, <2>12, <2>13 DEF ReleaseCompletedPayload
  <2>15. /\ d \in Carousels /\ d.modules = e.modules /\ d.rejected = c.rejected
         /\ d.inFlight = c.inFlight /\ d.completed = x
    BY <2>8, <2>12, <2>13 DEF Carousels
  <2>16. Distinct(d) /\ States(d) = States(e) /\ Open(d) = Open(e) /\ Done(d) = Done(e)
    BY <2>8, <2>15 DEF Distinct, States, Open, Done
  <2>17. \A r \in d.rejected : ~Announced(d, r.id)
    BY <2>2, <2>8, <2>15, <2>16 DEF Accounted, Announced, States
  <2>18. Accounted(d)
    BY <2>9, <2>12, <2>15, <2>16, <2>17 DEF Accounted
  <2>19. Within(d)
    BY <2>2, <2>12, <2>15, CarouselLimits DEF Within
  <2> QED
    BY <2>14, <2>15, <2>16, <2>18, <2>19 DEF CarouselInv, Consistent
<1> QED
  BY <1>1, <1>2

-----------------------------------------------------------------------------
(* The store of completed modules.                                         *)

LEMMA OthersAreStored ==
  ASSUME NEW modules \in Seq(StoredModules), NEW places \in SUBSET DOMAIN modules
  PROVE  ElementsAt(modules, places) \in Seq(StoredModules)
<1>1. places \in SUBSET (1 .. Len(modules))
  OBVIOUS
<1> QED
  BY <1>1, ElementsAtProperties

LEMMA TouchedIsStored ==
  ASSUME NEW modules \in Seq(StoredModules), NEW m \in StoredModules
  PROVE  Others(modules, m) \in Seq(StoredModules) /\ Touched(modules, m) \in Seq(StoredModules)
<1>1. PICK P \in SUBSET DOMAIN modules : P = {i \in DOMAIN modules : modules[i] # m}
  OBVIOUS
<1>2. Others(modules, m) = ElementsAt(modules, P)
  BY <1>1 DEF Others
<1>3. Others(modules, m) \in Seq(StoredModules)
  BY <1>2, OthersAreStored
<1> QED
  BY <1>3, AppendRange DEF Touched

LEMMA ReplacedIsStored ==
  ASSUME NEW modules \in Seq(StoredModules), NEW m \in StoredModules
  PROVE  /\ Replaced(modules, m) \in Seq(StoredModules)
         /\ Len(Replaced(modules, m)) \in Nat \ {0}
         /\ Replaced(modules, m)[Len(Replaced(modules, m))] = m
<1>1. PICK P \in SUBSET DOMAIN modules :
         P = {i \in DOMAIN modules : KeyOf(modules[i]) # KeyOf(m) \/ modules[i].size # m.size}
  OBVIOUS
<1>2. PICK e : e = ElementsAt(modules, P)
  OBVIOUS
<1>3. e \in Seq(StoredModules)
  BY <1>2, OthersAreStored
<1>4. Replaced(modules, m) = Append(e, m)
  BY <1>1, <1>2 DEF Replaced
<1> QED
  BY <1>3, <1>4

\* A module that is not longer than the cache fits at least alone.
LEMMA CachePutIsStored ==
  ASSUME NEW modules \in Seq(StoredModules), NEW m \in StoredModules,
         ~(Len(m.data) > StoreBytes)
  PROVE  CachePut(modules, m) \in Seq(StoredModules)
<1> DEFINE Fits(i) == StoredBytes(SubSeq(Replaced(modules, m), i, Len(Replaced(modules, m)))) <= StoreBytes
<1>1. PICK q \in Seq(StoredModules) : q = Replaced(modules, m) /\ Len(q) \in Nat \ {0} /\ q[Len(q)] = m
  BY ReplacedIsStored
<1>2. PICK T : T = {i \in DOMAIN q : StoredBytes(SubSeq(q, i, Len(q))) <= StoreBytes}
  OBVIOUS
<1>3. CachePut(modules, m) = SubSeq(q, Min(T), Len(q))
  BY <1>1, <1>2 DEF CachePut
<1>4. StoredBytes(SubSeq(q, Len(q), Len(q))) = Len(m.data)
  <2>1. PICK o : o = SubSeq(q, Len(q), Len(q))
    OBVIOUS
  <2>2. Len(q) \in 1 .. Len(q) /\ Len(q) - Len(q) + 1 = 1
    BY <1>1
  <2>3. DOMAIN o = 1 .. 1 /\ o[1] = m
    <3>1. PICK l \in Nat \ {0} : l = Len(q)
      BY <1>1
    <3>2. o = [i \in 1 .. (1 + l - l) |-> q[i + l - 1]]
      BY <2>1, <3>1 DEF SubSeq
    <3>3. 1 + l - l = 1 /\ 1 + l - 1 = l
      OBVIOUS
    <3> QED
      BY <1>1, <3>1, <3>2, <3>3
  <2>4. Range(o) = {m}
    BY <2>3 DEF Range
  <2>5. UNION {{x} \X (1 .. Len(x.data)) : x \in {m}} = {m} \X (1 .. Len(m.data))
    OBVIOUS
  <2>6. Cardinality({m} \X (1 .. Len(m.data))) = Len(m.data)
    <3>1. PICK l \in Nat : l = Len(m.data)
      BY DEF StoredModules
    <3>2. IsFiniteSet({m}) /\ Cardinality({m}) = 1
      BY FS_Singleton
    <3>3. IsFiniteSet(1 .. l) /\ Cardinality(1 .. l) = l
      <4>1. 1 \in Int /\ l \in Int /\ (1 > l => l = 0) /\ l - 1 + 1 = l
        OBVIOUS
      <4>2. IsFiniteSet(1 .. l) /\ Cardinality(1 .. l) = IF 1 > l THEN 0 ELSE l - 1 + 1
        BY <4>1, FS_Interval
      <4> QED
        BY <4>1, <4>2
    <3>4. Cardinality({m} \X (1 .. l)) = Cardinality({m}) * Cardinality(1 .. l)
      BY ONLY <3>2, <3>3, FS_Product
    <3>5. 1 * l = l
      OBVIOUS
    <3> QED
      BY <3>1, <3>2, <3>3, <3>4, <3>5
  <2> QED
    BY <2>1, <2>4, <2>5, <2>6 DEF StoredBytes
<1>5. Len(q) \in T /\ T \subseteq 1 .. Len(q) /\ T \subseteq Nat
  <2>1. Len(m.data) <= StoreBytes
    <3>1. Len(m.data) \in Nat
      BY DEF StoredModules
    <3> QED
      BY <3>1, DataBroadcastConstants
  <2>2. DOMAIN q = 1 .. Len(q) /\ Len(q) \in 1 .. Len(q)
    BY <1>1
  <2> QED
    BY <1>1, <1>2, <1>4, <2>1, <2>2
<1>6. Min(T) \in 1 .. Len(q)
  <2>1. \E x \in T : \A y \in T : x <= y
    BY <1>5, LeastNatural
  <2>2. Min(T) \in T
    BY <2>1 DEF Min
  <2> QED
    BY <1>5, <2>2
<1>7. \A i \in Min(T) .. Len(q) : q[i] \in StoredModules
  BY <1>1, <1>6
<1> QED
  BY <1>1, <1>3, <1>6, <1>7, SubSeqProperties

LEMMA PutsAreStored ==
  ASSUME NEW modules \in Seq(StoredModules), NEW m \in StoredModules, NEW put \in Puts(modules, m)
  PROVE  put.store \in Seq(StoredModules)
<1>1. CASE put = [store |-> modules, ok |-> FALSE]
  BY <1>1
<1>2. CASE put = [store |-> CachePut(modules, m), ok |-> TRUE] /\ ~(Len(m.data) > StoreBytes)
  BY <1>2, CachePutIsStored
<1>3. CASE put \in SQLitePuts(modules, m)
  <2> DEFINE new == Replaced(modules, m)
             Kept(K) == ElementsAt(new, {i \in DOMAIN new : new[i] \in K})
  <2>1. \A K : Kept(K) \in Seq(StoredModules)
    <3> SUFFICES ASSUME NEW K PROVE Kept(K) \in Seq(StoredModules)
      OBVIOUS
    <3>1. new \in Seq(StoredModules)
      BY ReplacedIsStored
    <3>2. {i \in DOMAIN new : new[i] \in K} \in SUBSET DOMAIN new
      OBVIOUS
    <3> HIDE DEF new
    <3> QED
      BY <3>1, <3>2, OthersAreStored
  <2>2. \/ put = [store |-> modules, ok |-> FALSE]
        \/ \E K : put = [store |-> Kept(K), ok |-> FALSE]
        \/ \E K : put = [store |-> Kept(K), ok |-> TRUE]
    BY <1>3 DEF SQLitePuts
  <2> HIDE DEF Kept
  <2> QED
    BY <2>1, <2>2
<1> QED
  BY <1>1, <1>2, <1>3 DEF Puts

-----------------------------------------------------------------------------
(* The hub.                                                                *)

EventTypes == {"moduleListUpdated", "moduleUpdated"}

\* What the loop over the accepted modules carries along.
Loops == {x \in [carousel : Carousels, store : Seq(StoredModules), events : Seq(EventTypes)]
             : CarouselInv(x.carousel)}

LEMMA RestoreModuleKeeps ==
  ASSUME NEW acc \in Loops, NEW m, NEW download
  PROVE  RestoreModule(acc, m, download) \in Loops
<1> DEFINE key == [id |-> m.id, download |-> download, version |-> m.version]
           found == Find(acc.store, key, m.size)
           cached == CHOOSE f \in found : TRUE
<1>1. /\ acc \in [carousel : Carousels, store : Seq(StoredModules), events : Seq(EventTypes)]
      /\ CarouselInv(acc.carousel)
  BY DEF Loops
<1>2. CASE found = {}
  BY <1>2 DEF RestoreModule
<1>3. CASE found # {}
  <2>1. PICK f : f = cached
    OBVIOUS
  <2>2. f \in StoredModules
    <3>1. f \in found
      BY <1>3, <2>1
    <3>2. f \in Range(acc.store)
      BY <3>1 DEF Find
    <3> QED
      BY <1>1, <3>2 DEF Range
  <2>3. PICK st \in Seq(StoredModules) : st = Touched(acc.store, f)
    BY <1>1, <2>2, TouchedIsStored
  <2>4. RestoreModule(acc, m, download) =
          IF ~MayRestore(acc.carousel, f) THEN [acc EXCEPT !.store = st]
          ELSE AnnounceRestored([acc EXCEPT !.store = st, !.carousel = Restore(acc.carousel, f)], m.id)
    BY <1>1, <1>3, <2>1, <2>3 DEF RestoreModule
  <2>5. CASE ~MayRestore(acc.carousel, f)
    BY <1>1, <2>4, <2>5 DEF Loops
  <2>6. CASE MayRestore(acc.carousel, f)
    <3>1. PICK c : c = Restore(acc.carousel, f)
      OBVIOUS
    <3>2. CarouselInv(c) /\ c \in Carousels
      BY <1>1, <2>2, <2>6, <3>1, RestoreKeeps DEF CarouselInv, Consistent
    <3>3. PICK a : a = [acc EXCEPT !.store = st, !.carousel = c]
      OBVIOUS
    <3>4. /\ a \in [carousel : Carousels, store : Seq(StoredModules), events : Seq(EventTypes)]
          /\ a.carousel = c /\ a \in Loops
      BY <1>1, <3>2, <3>3 DEF Loops
    <3>5. RestoreModule(acc, m, download) = AnnounceRestored(a, m.id)
      BY <2>4, <2>6, <3>1, <3>3
    <3>6. PICK r : r = IF persistent THEN ReleaseCompletedPayload(c, m.id) ELSE c
      OBVIOUS
    <3>7. CarouselInv(r) /\ r \in Carousels
      <4>1. CarouselInv(ReleaseCompletedPayload(c, m.id))
        BY <3>2, ReleaseKeeps
      <4> QED
        BY <3>2, <3>6, <4>1 DEF CarouselInv, Consistent
    <3>8. PICK e \in Seq(EventTypes) : e = Append(a.events, "moduleUpdated")
      <4>1. a.events \in Seq(EventTypes) /\ "moduleUpdated" \in EventTypes
        BY <3>4 DEF EventTypes
      <4>2. Append(a.events, "moduleUpdated") \in Seq(EventTypes)
        BY <4>1, AppendProperties
      <4> QED
        BY <4>2, Zenon
    <3>9. AnnounceRestored(a, m.id) = IF ~IsComplete(c, m.id) THEN a
                                      ELSE [a EXCEPT !.events = e, !.carousel = r]
      BY <3>4, <3>6, <3>8 DEF AnnounceRestored
    <3> QED
      BY <3>4, <3>5, <3>7, <3>9 DEF Loops
  <2> QED
    BY <2>5, <2>6
<1> QED
  BY <1>2, <1>3

LEMMA RestoreAllKeeps ==
  ASSUME NEW observed, CarouselInv(observed.carousel), NEW D, observed.accepted \in Seq(D),
         store \in Seq(StoredModules), NEW download
  PROVE  RestoreAll(observed, download) \in Loops
<1> DEFINE N == Len(observed.accepted)
           base == [carousel |-> observed.carousel, store |-> store,
                    events |-> <<"moduleListUpdated">>]
           Step(x, n) == RestoreModule(x, observed.accepted[n], download)
           step == [n \in 1 .. N |-> [x \in Loops |-> Step(x, n)]]
           F[n \in 0 .. N] == IF n = 0 THEN base ELSE Step(F[n - 1], n)
<1>1. N \in Nat
  OBVIOUS
<1>2. F = CHOOSE f : f = [n \in 0 .. N |-> IF n = 0 THEN base ELSE Step(f[n - 1], n)]
  OBVIOUS
<1>3. RestoreAll(observed, download) = F[N]
  BY DEF RestoreAll
<1> HIDE DEF F, N
<1>4. base \in Loops
  <2>1. PICK e \in Seq(EventTypes) : e = <<"moduleListUpdated">>
    <3>1. "moduleListUpdated" \in EventTypes
      BY DEF EventTypes
    <3>2. <<"moduleListUpdated">> \in Seq(EventTypes)
      BY <3>1
    <3> QED
      BY <3>2, Zenon
  <2>2. base = [carousel |-> observed.carousel, store |-> store, events |-> e]
    BY <2>1
  <2> HIDE DEF base
  <2> QED
    BY <2>2 DEF Loops, CarouselInv, Consistent
<1>5. ASSUME NEW x \in Loops, NEW n \in 1 .. N PROVE Step(x, n) \in Loops
  BY RestoreModuleKeeps
<1> HIDE DEF Step, base
<1>6. F = [n \in 0 .. N |-> IF n = 0 THEN base ELSE Step(F[n - 1], n)]
  <2>1. step \in [1 .. N -> [Loops -> Loops]]
    BY <1>5
  <2>2. PICK f \in [0 .. N -> Loops] : f[0] = base /\ \A n \in 1 .. N : f[n] = step[n][f[n - 1]]
    <3>1. PICK a, g : a = base /\ g = step
      OBVIOUS
    <3> HIDE DEF step
    <3>2. N \in Nat /\ a \in Loops /\ g \in [1 .. N -> [Loops -> Loops]]
      BY <1>1, <1>4, <2>1, <3>1
    <3>3. \E f \in [0 .. N -> Loops] : f[0] = a /\ \A n \in 1 .. N : f[n] = g[n][f[n - 1]]
      BY ONLY <3>2, RoundsExist
    <3> QED
      BY <3>1, <3>3
  <2>3. \A n \in 1 .. N : n - 1 \in 0 .. N /\ f[n] = Step(f[n - 1], n)
    <3> SUFFICES ASSUME NEW n \in 1 .. N PROVE n - 1 \in 0 .. N /\ f[n] = Step(f[n - 1], n)
      OBVIOUS
    <3>1. n - 1 \in 0 .. N
      BY <1>1
    <3>2. f[n - 1] \in Loops
      BY <2>2, <3>1
    <3>3. step[n][f[n - 1]] = Step(f[n - 1], n)
      BY <3>2
    <3> QED
      BY <2>2, <3>1, <3>3
  <2>4. f = [n \in 0 .. N |-> IF n = 0 THEN base ELSE Step(f[n - 1], n)]
    BY <1>1, <2>2, <2>3
  <2> QED
    BY <1>2, <2>4
<1>7. F[0] = base /\ \A n \in 1 .. N : F[n] = Step(F[n - 1], n)
  BY <1>1, <1>6
<1>8. F[0] \in Loops /\ \A n \in 1 .. N : F[n - 1] \in Loops => F[n] \in Loops
  BY <1>4, <1>5, <1>7
<1>9. \A n \in 0 .. N : F[n] \in Loops
  BY <1>1, <1>8, RoundsStay
<1> QED
  BY <1>1, <1>3, <1>9

\* Between two calls the carousel is consistent and within its budgets, and the modules
\* in the store are whole, each of one version.
HubInv == CarouselInv(carousel) /\ store \in Seq(StoredModules)

LEMMA NewCarouselKeeps == CarouselInv(NewCarousel)
<1>1. /\ NewCarousel.modules = << >> /\ NewCarousel.rejected = {}
      /\ NewCarousel.completed = 0 /\ NewCarousel.inFlight = 0 /\ NewCarousel \in Carousels
  BY DEF NewCarousel, Carousels
<1>2. States(NewCarousel) = {} /\ Distinct(NewCarousel)
  BY <1>1 DEF States, Range, Distinct
<1>3. Done(NewCarousel) = {} /\ Open(NewCarousel) = {}
  BY <1>2 DEF Done, Open
<1>4. BytesOf({}) = 0 /\ SizesOf({}) = 0
  <2>1. /\ UNION {{s.id} \X (1 .. s.size) : s \in {}} = {}
        /\ UNION {{s.id} \X (1 .. Len(s.data)) : s \in {}} = {}
    OBVIOUS
  <2> QED
    BY <2>1, FS_EmptySet DEF BytesOf, SizesOf
<1>5. Accounted(NewCarousel) /\ Within(NewCarousel)
  BY <1>1, <1>3, <1>4, CarouselLimits DEF Accounted, Within
<1> QED
  BY <1>1, <1>2, <1>5 DEF CarouselInv, Consistent

LEMMA HubStarts == BroadcastInit => HubInv
BY NewCarouselKeeps DEF BroadcastInit, HubInv

\* What a client is given of a completed module is what the store would be given.
LEMMA PayloadIsStored ==
  ASSUME NEW s \in ModuleStates, s.data = Whole(s)
  PROVE  /\ Payload(s) \in StoredModules /\ KeyOf(Payload(s)) = KeyOf(s)
         /\ Payload(s).download = s.download /\ Payload(s).version = s.version
<1>1. PICK p : p = Payload(s)
  OBVIOUS
<1>2. s \in AnyState /\ KeyOf(s) \in Modules
  BY DEF ModuleStates, ModuleOK
<1>3. /\ p \in [id : Ids, download : Downloads, version : Editions, size : Nat, data : Seq(Marks)]
      /\ p.id = s.id /\ p.download = s.download /\ p.version = s.version /\ p.size = s.size
      /\ p.data = s.data
  BY <1>1, <1>2 DEF Payload, AnyState
<1>4. KeyOf(p) = KeyOf(s) /\ Whole(p) = Whole(s)
  BY <1>3 DEF KeyOf, Whole
<1> QED
  BY <1>1, <1>2, <1>3, <1>4 DEF StoredModules

LEMMA HubStep ==
  ASSUME HubInv, [BroadcastNext]_broadcastVars
  PROVE  HubInv'
<1>0. CarouselInv(carousel) /\ store \in Seq(StoredModules)
  BY DEF HubInv
<1>1. ASSUME NEW p \in PMTs, ObservePMT(p) PROVE HubInv'
  <2>1. store' = store /\ (carousel' = carousel \/ carousel' = NewCarousel)
    BY <1>1 DEF ObservePMT
  <2>2. CarouselInv(carousel')
    BY <1>0, <2>1, NewCarouselKeeps
  <2> QED
    BY <1>0, <2>1, <2>2 DEF HubInv
<1>2. ASSUME NEW d \in DIIs, ObserveDII(d) PROVE HubInv'
  <2>1. PICK o : o = CarouselDII(carousel, d)
    OBVIOUS
  <2>2. CarouselInv(o.carousel) /\ o.accepted \in Seq(Range(d.modules))
    BY <1>0, <2>1, CarouselDIIKeeps
  <2>3. PICK end : end = RestoreAll(o, d.download)
    OBVIOUS
  <2>4. end \in Loops
    BY <1>0, <2>2, <2>3, RestoreAllKeeps
  <2>5. carousel' = end.carousel /\ store' = end.store
    BY <1>2, <2>1, <2>3 DEF ObserveDII
  <2>6. CarouselInv(carousel') /\ store' \in Seq(StoredModules)
    BY <2>4, <2>5 DEF Loops
  <2> QED
    BY <2>6 DEF HubInv
<1>3. ASSUME NEW b \in DDBs, ObserveDDB(b) PROVE HubInv'
  <2>1. PICK a : a = CarouselDDB(carousel, b)
    OBVIOUS
  <2>2. /\ CarouselInv(a)
        /\ IsComplete(a, b.id) /\ ~IsComplete(carousel, b.id) =>
              LET s == ModuleState(a, b.id) IN s \in ModuleStates /\ s.data = Whole(s)
    BY <1>0, <2>1, CarouselDDBKeeps
  <2>3. IF IsComplete(a, b.id) /\ ~IsComplete(carousel, b.id)
        THEN ModuleCompleted(a, ModuleState(a, b.id))
        ELSE carousel' = a /\ UNCHANGED <<store, sequence, events, listener>>
    BY <1>3, <2>1 DEF ObserveDDB
  <2>4. CASE ~(IsComplete(a, b.id) /\ ~IsComplete(carousel, b.id))
    <3>1. carousel' = a /\ store' = store
      BY <2>3, <2>4
    <3> QED
      BY <1>0, <2>2, <3>1 DEF HubInv
  <2>5. CASE IsComplete(a, b.id) /\ ~IsComplete(carousel, b.id)
    <3>1. PICK s : s = ModuleState(a, b.id)
      OBVIOUS
    <3>2. Payload(s) \in StoredModules
      BY <2>2, <2>5, <3>1, PayloadIsStored
    <3>3. PICK put \in Puts(store, Payload(s)) :
             /\ store' = put.store
             /\ carousel' = IF persistent /\ put.ok THEN ReleaseCompletedPayload(a, s.id) ELSE a
      BY <2>3, <2>5, <3>1 DEF ModuleCompleted
    <3>4. store' \in Seq(StoredModules)
      BY <1>0, <3>2, <3>3, PutsAreStored
    <3>5. CarouselInv(carousel')
      BY <2>2, <3>3, ReleaseKeeps
    <3> QED
      BY <3>4, <3>5 DEF HubInv
  <2> QED
    BY <2>4, <2>5
<1>4. ASSUME UNCHANGED <<carousel, store>> PROVE HubInv'
  BY <1>0, <1>4 DEF HubInv
<1>5. CASE ObserveEIT \/ ObserveTOT \/ ObserveES \/ ObserveBIT \/ ObservePacket
  BY <1>4, <1>5 DEF ObserveEIT, ObserveTOT, ObserveES, ObserveBIT, ObservePacket, PassOn
<1>6. ASSUME NEW s \in Listeners, SubscribeEvents(s) \/ Receive(s) \/ UnsubscribeEvents(s)
      PROVE  HubInv'
  BY <1>4, <1>6 DEF SubscribeEvents, Receive, UnsubscribeEvents
<1>7. ASSUME NEW key \in Modules, Fetch(key) PROVE HubInv'
  <2>1. PICK m \in FindVersion(store, key) : store' = Touched(store, m)
    BY <1>7 DEF Fetch
  <2>2. m \in Range(store)
    BY <2>1 DEF FindVersion
  <2>3. m \in StoredModules
    BY <1>0, <2>2 DEF Range
  <2>4. store' \in Seq(StoredModules) /\ carousel' = carousel
    BY <1>0, <1>7, <2>1, <2>3, TouchedIsStored DEF Fetch
  <2> QED
    BY <1>0, <2>4 DEF HubInv
<1>8. CASE OtherSessionPuts
  <2>1. carousel' = carousel /\ store # << >>
    BY <1>8 DEF OtherSessionPuts
  <2>2. CASE store' = Tail(store)
    BY <1>0, <2>1, <2>2 DEF HubInv
  <2>3. CASE \E m \in Range(store) : store' = Others(store, m)
    <3>1. PICK m \in Range(store) : store' = Others(store, m)
      BY <2>3
    <3>2. m \in StoredModules
      BY <1>0 DEF Range
    <3> QED
      BY <1>0, <2>1, <3>1, <3>2, TouchedIsStored DEF HubInv
  <2> QED
    BY <1>8, <2>2, <2>3 DEF OtherSessionPuts
<1>9. CASE UNCHANGED broadcastVars
  BY <1>4, <1>9 DEF broadcastVars
<1> QED
  BY <1>1, <1>2, <1>3, <1>5, <1>6, <1>7, <1>8, <1>9 DEF BroadcastNext

\* The accounts of the carousel and the contents of the store, as long as the hub runs
\* (dsmcc_carousel.go, databroadcast/hub.go, module_cache.go, sqlite_module_store.go).
THEOREM HubInductive == BroadcastSpec => []HubInv
<1>1. BroadcastInit => HubInv
  BY HubStarts
<1>2. HubInv /\ [BroadcastNext]_broadcastVars => HubInv'
  BY HubStep
<1> QED
  BY <1>1, <1>2, PTL DEF BroadcastSpec

\* For any DIIs, any order of blocks and any budgets, what the two counters of a carousel
\* hold is what its modules take, so that neither is ever below zero or beyond its limit.
THEOREM BudgetsStayExact == BroadcastSpec => []BudgetsExact
<1>1. HubInv => BudgetsExact
  BY DEF HubInv, CarouselInv, Consistent, Accounted, Within, Done, Open, States, BudgetsExact
<1> QED
  BY <1>1, HubInductive, PTL

\* Whatever late blocks, evictions, other sessions and failing stores do, a client that
\* asks for a version of a module is given all of its bytes, and no other's.
THEOREM VersionsServedWhole == BroadcastSpec => []ServedIsWhole
<1>1. ASSUME HubInv, NEW key \in Modules, NEW m \in ModuleVersion(key)
      PROVE  m.data = [i \in 1 .. m.size |-> <<key.download, key.version>>]
  <2>1. CASE m \in FindVersion(store, key)
    <3>1. m \in Range(store) /\ KeyOf(m) = key
      BY <2>1 DEF FindVersion
    <3>2. m \in StoredModules
      BY <1>1, <3>1 DEF HubInv, Range
    <3>3. m.data = Whole(m) /\ key.download = m.download /\ key.version = m.version
      BY <3>1, <3>2 DEF StoredModules, KeyOf
    <3> QED
      BY <3>3 DEF Whole
  <2>2. CASE IsLive(key) /\ m \in {Payload(ModuleState(carousel, key.id))}
    <3>1. PICK s : s = ModuleState(carousel, key.id)
      OBVIOUS
    <3>2. Announced(carousel, key.id) /\ s.done /\ Len(s.data) = s.size /\ KeyOf(s) = key
      BY <2>2, <3>1 DEF IsLive, HasPayload, IsComplete
    <3>3. s \in ModuleStates
      BY <1>1, <3>1, <3>2, StateOfModule DEF HubInv, CarouselInv, Consistent
    <3>4. s.data = Whole(s)
      <4>1. s.size \in Nat \ {0} /\ (s.data = << >> \/ s.data = Whole(s))
        BY <3>2, <3>3 DEF ModuleStates, AnyState, ModuleOK
      <4>2. s.data # << >>
        BY <3>2, <4>1
      <4> QED
        BY <4>1, <4>2
    <3>5. m = Payload(s) /\ m.data = s.data /\ m.size = s.size
      BY <2>2, <3>1 DEF Payload
    <3>6. key.download = s.download /\ key.version = s.version
      BY <3>2 DEF KeyOf
    <3> QED
      BY <3>4, <3>5, <3>6 DEF Whole
  <2> QED
    BY <1>1, <2>1, <2>2 DEF ModuleVersion
<1>2. HubInv => ServedIsWhole
  BY <1>1 DEF ServedIsWhole
<1> QED
  BY <1>2, HubInductive, PTL

-----------------------------------------------------------------------------
(* Subscribers.                                                            *)

\* What waits in the channel of s continues what it has heard; nobody has heard anything
\* who is not there.
Continues(s) ==
  /\ events[s] \in Seq(Range(events[s])) /\ Len(events[s]) <= EventBuffer
  /\ \A i \in 1..Len(events[s]) : events[s][i].number = heard[s] + i
  /\ listener[s] = "off" => events[s] = << >> /\ heard[s] = 0
  /\ listener[s] = "open" => heard[s] + Len(events[s]) = sequence /\ listed
  /\ listener[s] = "closed" => heard[s] + Len(events[s]) < sequence

HeardInv ==
  /\ sequence \in 0..MaxEvents /\ listener \in [Listeners -> {"off", "open", "closed"}]
  /\ heard \in [Listeners -> Nat] /\ DOMAIN events = Listeners
  /\ events = [s \in Listeners |-> events[s]]
  /\ \A s \in Listeners : Continues(s)

\* A sequence is one of its own elements.
LEMMA OwnElements ==
  ASSUME NEW S, NEW s \in Seq(S)
  PROVE  s \in Seq(Range(s))
<1>1. DOMAIN s = 1..Len(s) /\ Len(s) \in Nat /\ \A i \in 1..Len(s) : s[i] \in Range(s)
  BY DEF Range
<1>2. s \in [1..Len(s) -> Range(s)]
  BY <1>1
<1> QED
  BY <1>1, <1>2, SeqDef

\* broadcastLocked numbers the events of a batch one after the other, and gives a
\* subscriber all of them or closes it.
LEMMA BroadcastKeeps ==
  ASSUME HeardInv, NEW batch, Broadcast(batch), UNCHANGED <<listed, heard>>
  PROVE  HeardInv'
<1> DEFINE n == Len(batch)
           numbered == [i \in 1 .. n |-> [number |-> sequence + i, type |-> batch[i]]]
           Room(s) == EventBuffer - Len(events[s])
           Part(s) == Min({Room(s), n})
<1>0. /\ sequence \in Nat /\ MaxEvents \in Nat /\ sequence <= MaxEvents
      /\ EventBuffer \in Nat /\ listener \in [Listeners -> {"off", "open", "closed"}]
      /\ heard \in [Listeners -> Nat] /\ \A s \in Listeners : Continues(s)
  BY DataBroadcastConstants DEF HeardInv
<1>1. /\ n \in 0 .. MaxEvents - sequence /\ sequence' = sequence + n
      /\ events' = [s \in Listeners |->
                       IF listener[s] # "open" THEN events[s]
                       ELSE events[s] \o SubSeq(numbered, 1, Part(s))]
      /\ listener' = [s \in Listeners |->
                         IF listener[s] = "open" /\ Room(s) < n THEN "closed"
                         ELSE listener[s]]
  BY DEF Broadcast
<1> HIDE DEF n
<1>2. n \in Nat /\ sequence' \in 0..MaxEvents
  BY <1>0, <1>1
<1>3. listener' \in [Listeners -> {"off", "open", "closed"}]
  BY <1>0, <1>1
<1>4. DOMAIN events' = Listeners /\ events' = [s \in Listeners |-> events'[s]]
  BY <1>1
<1>5. ASSUME NEW s \in Listeners PROVE Continues(s)'
  <2>0. /\ events[s] \in Seq(Range(events[s])) /\ Len(events[s]) \in Nat
        /\ Len(events[s]) <= EventBuffer
        /\ \A i \in 1..Len(events[s]) : events[s][i].number = heard[s] + i
        /\ heard[s] \in Nat /\ heard'[s] = heard[s] /\ listed' = listed
    BY <1>0 DEF Continues
  <2>1. CASE listener[s] # "open"
    <3>1. events'[s] = events[s] /\ listener'[s] = listener[s]
      BY <1>1, <2>1
    <3> QED
      BY <1>0, <1>1, <1>2, <2>0, <2>1, <3>1 DEF Continues
  <2>2. CASE listener[s] = "open"
    <3>1. /\ Room(s) \in Nat
          /\ heard[s] + Len(events[s]) = sequence /\ listed
      BY <1>0, <2>0, <2>2 DEF Continues
    <3>2. PICK k \in Nat : k = Part(s) /\ k <= n /\ k <= Room(s) /\ (k = n \/ k = Room(s))
      <4>1. CASE Room(s) <= n
        <5>1. Min({Room(s), n}) = Room(s)
          BY <1>2, <3>1, <4>1 DEF Min
        <5> QED
          BY <3>1, <1>2, <4>1, <5>1
      <4>2. CASE ~(Room(s) <= n)
        <5>1. Min({Room(s), n}) = n
          BY <1>2, <3>1, <4>2 DEF Min
        <5> QED
          BY <3>1, <1>2, <4>2, <5>1
      <4> QED
        BY <4>1, <4>2
    <3> DEFINE part == SubSeq(numbered, 1, k)
    <3>3. \A i \in 1..k : i \in 1..n /\ numbered[i].number = sequence + i
      BY <1>2, <3>2
    <3>4. \A i \in 1..k : numbered[i] \in Range(numbered)
      <4>1. DOMAIN numbered = 1..n
        OBVIOUS
      <4> HIDE DEF numbered
      <4> QED
        BY <3>3, <4>1 DEF Range
    <3> HIDE DEF numbered
    <3>5. /\ part \in Seq(Range(numbered)) /\ Len(part) = k
          /\ \A i \in 1..k : part[i].number = sequence + i
      <4>1. 1 \in Int /\ k \in Int
        BY <3>2
      <4>2. /\ part \in Seq(Range(numbered)) /\ Len(part) = IF 1 <= k THEN k - 1 + 1 ELSE 0
            /\ \A i \in 1..(k - 1 + 1) : part[i] = numbered[1 + i - 1]
        BY <3>4, <4>1, SubSeqProperties
      <4>3. k - 1 + 1 = k /\ (~(1 <= k) => k = 0) /\ \A i \in 1..k : 1 + i - 1 = i
        BY <3>2
      <4> HIDE DEF part
      <4> QED
        BY <3>3, <4>2, <4>3
    <3>6. events'[s] = events[s] \o part
      BY <1>1, <2>2, <3>2 DEF part
    <3> HIDE DEF part, Room
    <3>7. /\ events'[s] \in Seq(Range(events'[s])) /\ Len(events'[s]) = Len(events[s]) + k
          /\ \A i \in 1 .. Len(events[s]) + k :
                events'[s][i] = IF i <= Len(events[s]) THEN events[s][i] ELSE part[i - Len(events[s])]
      <4> DEFINE S == Range(events[s]) \cup Range(numbered)
      <4>1. events[s] \in Seq(S) /\ part \in Seq(S)
        BY <2>0, <3>5
      <4> HIDE DEF S
      <4>2. /\ events[s] \o part \in Seq(S) /\ Len(events[s] \o part) = Len(events[s]) + Len(part)
            /\ \A i \in 1 .. Len(events[s]) + Len(part) : (events[s] \o part)[i] =
                  IF i <= Len(events[s]) THEN events[s][i] ELSE part[i - Len(events[s])]
        BY <4>1, ConcatProperties
      <4>3. events[s] \o part \in Seq(Range(events[s] \o part))
        BY <4>2, OwnElements
      <4> QED
        BY <3>5, <3>6, <4>2, <4>3
    <3>8. /\ sequence \in Nat /\ heard[s] \in Nat /\ Len(events[s]) \in Nat /\ k \in Nat
          /\ heard[s] + Len(events[s]) = sequence
      BY <1>0, <2>0, <3>1, <3>2
    <3>9. Len(events'[s]) = Len(events[s]) + k /\ sequence' = sequence + n /\ heard'[s] = heard[s]
      BY <1>1, <2>0, <3>7
    <3>10. \A i \in 1 .. Len(events'[s]) : events'[s][i].number = heard'[s] + i
      <4> SUFFICES ASSUME NEW i \in 1 .. Len(events'[s])
                   PROVE  events'[s][i].number = heard'[s] + i
        OBVIOUS
      <4>1. i \in 1 .. Len(events[s]) + k
        BY <3>7
      <4>2. CASE i <= Len(events[s])
        <5>1. i \in 1 .. Len(events[s])
          BY <3>8, <4>1, <4>2
        <5>2. events'[s][i] = events[s][i]
          BY <3>7, <4>1, <4>2
        <5>3. events[s][i].number = heard[s] + i
          BY <2>0, <5>1
        <5> QED
          BY <2>0, <5>2, <5>3
      <4>3. CASE ~(i <= Len(events[s]))
        <5>1. i - Len(events[s]) \in 1..k /\ sequence + (i - Len(events[s])) = heard[s] + i
          <6>1. PICK l \in Nat, j \in Int : l = Len(events[s]) /\ j = i
            BY <3>8, <4>1
          <6>2. j \in 1 .. l + k /\ ~(j <= l) /\ heard[s] + l = sequence
            BY <3>8, <4>1, <4>3, <6>1
          <6>3. j - l \in 1..k /\ sequence + (j - l) = heard[s] + j
            BY <3>8, <6>2
          <6> QED
            BY <6>1, <6>3
        <5>2. events'[s][i] = part[i - Len(events[s])]
          BY <3>7, <4>1, <4>3
        <5> QED
          BY <2>0, <3>5, <5>1, <5>2
      <4> QED
        BY <4>2, <4>3
    <3>11. Len(events'[s]) <= EventBuffer
      BY <1>0, <2>0, <3>2, <3>7 DEF Room
    <3>12. CASE Room(s) < n
      <4>1. listener'[s] = "closed"
        BY <1>1, <2>2, <3>12
      <4>2. heard'[s] + Len(events'[s]) < sequence'
        <5>1. k < n /\ n \in Nat
          BY <1>2, <3>1, <3>2, <3>12
        <5>2. heard[s] + (Len(events[s]) + k) < sequence + n
          BY <3>8, <5>1
        <5> QED
          BY <3>9, <5>2
      <4> QED
        BY <3>7, <3>10, <3>11, <4>1, <4>2 DEF Continues
    <3>13. CASE ~(Room(s) < n)
      <4>1. listener'[s] = "open"
        BY <1>1, <2>2, <3>13
      <4>2. heard'[s] + Len(events'[s]) = sequence'
        <5>1. k = n
          BY <1>2, <3>1, <3>2, <3>13
        <5> QED
          BY <3>8, <3>9, <5>1
      <4> QED
        BY <2>0, <3>1, <3>7, <3>10, <3>11, <4>1, <4>2 DEF Continues
    <3> QED
      BY <3>12, <3>13
  <2> QED
    BY <2>1, <2>2
<1> QED
  BY <1>2, <1>3, <1>4, <1>5 DEF HeardInv

LEMMA NobodyHearsYet ==
  ASSUME BroadcastInit
  PROVE  HeardInv
<1>1. \A s \in Listeners : events[s] = << >> /\ listener[s] = "off" /\ heard[s] = 0
  BY DEF BroadcastInit
<1>2. ASSUME NEW s \in Listeners PROVE Continues(s)
  <2>1. /\ << >> \in Seq(Range(<< >>)) /\ Len(<< >>) = 0
        /\ \A i \in 1..0 : FALSE
    OBVIOUS
  <2> QED
    <3>1. 0 <= EventBuffer /\ events[s] = << >> /\ listener[s] = "off" /\ heard[s] = 0
      BY <1>1, DataBroadcastConstants
    <3> QED
      BY <2>1, <3>1 DEF Continues
<1> QED
  BY <1>2, DataBroadcastConstants DEF BroadcastInit, HeardInv

\* A new subscriber starts from the last event.
LEMMA SubscribeKeeps ==
  ASSUME HeardInv, NEW s \in Listeners, SubscribeEvents(s)
  PROVE  HeardInv'
<1>1. /\ sequence \in 0..MaxEvents /\ sequence' = sequence /\ listed'
      /\ listener' = [listener EXCEPT ![s] = "open"]
      /\ heard' = [heard EXCEPT ![s] = sequence]
      /\ events' = [events EXCEPT ![s] = << >>]
      /\ listener \in [Listeners -> {"off", "open", "closed"}]
      /\ heard \in [Listeners -> Nat] /\ DOMAIN events = Listeners
      /\ EventBuffer \in Nat /\ MaxEvents \in Nat /\ sequence \in Nat
  BY DataBroadcastConstants DEF HeardInv, SubscribeEvents
<1>2. /\ listener' \in [Listeners -> {"off", "open", "closed"}]
      /\ heard' \in [Listeners -> Nat] /\ DOMAIN events' = Listeners
      /\ events' = [t \in Listeners |-> events'[t]]
  BY <1>1
<1>3. ASSUME NEW t \in Listeners PROVE Continues(t)'
  <2>1. CASE t = s
    <3>1. events'[t] = << >> /\ listener'[t] = "open" /\ heard'[t] = sequence
      BY <1>1, <2>1
    <3>2. /\ << >> \in Seq(Range(<< >>)) /\ Len(<< >>) = 0
          /\ \A i \in 1..0 : FALSE
      OBVIOUS
    <3> QED
      <4>1. sequence + 0 = sequence /\ 0 <= EventBuffer
        BY <1>1
      <4> QED
        BY <1>1, <3>1, <3>2, <4>1 DEF Continues
  <2>2. CASE t # s
    <3>1. events'[t] = events[t] /\ listener'[t] = listener[t] /\ heard'[t] = heard[t]
      BY <1>1, <2>2
    <3>2. Continues(t)
      BY DEF HeardInv
    <3> QED
      BY <1>1, <3>1, <3>2 DEF Continues
  <2> QED
    BY <2>1, <2>2
<1> QED
  BY <1>1, <1>2, <1>3 DEF HeardInv

\* What a client takes is the event after the last one it has heard.
LEMMA ReceiveKeeps ==
  ASSUME HeardInv, NEW s \in Listeners, Receive(s)
  PROVE  HeardInv'
<1>1. /\ sequence \in 0..MaxEvents /\ sequence' = sequence /\ listed' = listed
      /\ listener' = listener /\ events[s] # << >>
      /\ heard' = [heard EXCEPT ![s] = Head(events[s]).number]
      /\ events' = [events EXCEPT ![s] = Tail(events[s])]
      /\ listener \in [Listeners -> {"off", "open", "closed"}]
      /\ heard \in [Listeners -> Nat] /\ DOMAIN events = Listeners
      /\ EventBuffer \in Nat /\ MaxEvents \in Nat /\ heard[s] \in Nat
  BY DataBroadcastConstants DEF HeardInv, Receive
<1>2. /\ events[s] \in Seq(Range(events[s])) /\ Len(events[s]) <= EventBuffer
      /\ \A i \in 1..Len(events[s]) : events[s][i].number = heard[s] + i
      /\ listener[s] = "off" => events[s] = << >>
      /\ listener[s] = "open" => heard[s] + Len(events[s]) = sequence /\ listed
      /\ listener[s] = "closed" => heard[s] + Len(events[s]) < sequence
  BY DEF HeardInv, Continues
<1>3. /\ Len(events[s]) \in Nat \ {0} /\ Head(events[s]) = events[s][1]
      /\ Tail(events[s]) \in Seq(Range(events[s])) /\ Len(Tail(events[s])) = Len(events[s]) - 1
      /\ \A i \in 1 .. Len(Tail(events[s])) : Tail(events[s])[i] = events[s][i + 1]
  BY <1>1, <1>2, HeadTailProperties
<1>4. Head(events[s]).number = heard[s] + 1 /\ heard[s] + 1 \in Nat
  BY <1>1, <1>2, <1>3
<1>5. /\ heard' \in [Listeners -> Nat] /\ DOMAIN events' = Listeners
      /\ events' = [t \in Listeners |-> events'[t]]
  BY <1>1, <1>4
<1>6. ASSUME NEW t \in Listeners PROVE Continues(t)'
  <2>1. CASE t = s
    <3>1. /\ events'[s] = Tail(events[s]) /\ heard'[s] = heard[s] + 1 /\ listener'[s] = listener[s]
          /\ Tail(events[s]) \in Seq(Range(Tail(events[s])))
      BY <1>1, <1>3, <1>4, OwnElements
    <3>2. PICK l \in Nat : l = Len(Tail(events[s])) /\ Len(events[s]) = l + 1
      <4>1. PICK a \in Nat \ {0} : a = Len(events[s])
        BY <1>3
      <4>2. Len(Tail(events[s])) = a - 1 /\ a - 1 \in Nat /\ a = (a - 1) + 1
        BY <1>3, <4>1
      <4> QED
        BY <4>1, <4>2
    <3>3. \A i \in 1..l : Tail(events[s])[i].number = heard'[s] + i
      <4> SUFFICES ASSUME NEW i \in 1..l PROVE Tail(events[s])[i].number = heard'[s] + i
        OBVIOUS
      <4>1. Tail(events[s])[i] = events[s][i + 1] /\ i + 1 \in 1..Len(events[s])
        BY <1>3, <3>2
      <4>2. events[s][i + 1].number = heard[s] + (i + 1)
        BY <1>2, <4>1
      <4> QED
        BY <1>1, <3>1, <4>1, <4>2
    <3>4. l <= EventBuffer /\ heard'[s] + l = heard[s] + Len(events[s])
      BY <1>1, <1>2, <3>1, <3>2
    <3>5. listener[s] # "off"
      BY <1>1, <1>2
    <3> QED
      BY <1>1, <1>2, <2>1, <3>1, <3>2, <3>3, <3>4, <3>5 DEF Continues
  <2>2. CASE t # s
    <3>1. events'[t] = events[t] /\ listener'[t] = listener[t] /\ heard'[t] = heard[t]
      BY <1>1, <2>2
    <3>2. Continues(t)
      BY DEF HeardInv
    <3> QED
      BY <1>1, <3>1, <3>2 DEF Continues
  <2> QED
    BY <2>1, <2>2
<1> QED
  BY <1>1, <1>5, <1>6 DEF HeardInv

\* unsubscribe clears the list only when nobody else is open.
LEMMA UnsubscribeKeeps ==
  ASSUME HeardInv, NEW s \in Listeners, UnsubscribeEvents(s)
  PROVE  HeardInv'
<1>1. /\ sequence \in 0..MaxEvents /\ sequence' = sequence
      /\ listed' = IF listener[s] = "open" THEN \E t \in Listeners \ {s} : listener[t] = "open"
                   ELSE listed
      /\ listener' = [listener EXCEPT ![s] = "off"]
      /\ heard' = [heard EXCEPT ![s] = 0]
      /\ events' = [events EXCEPT ![s] = << >>]
      /\ listener \in [Listeners -> {"off", "open", "closed"}]
      /\ heard \in [Listeners -> Nat] /\ DOMAIN events = Listeners
      /\ EventBuffer \in Nat /\ MaxEvents \in Nat
  BY DataBroadcastConstants DEF HeardInv, UnsubscribeEvents
<1>2. /\ listener' \in [Listeners -> {"off", "open", "closed"}]
      /\ heard' \in [Listeners -> Nat] /\ DOMAIN events' = Listeners
      /\ events' = [t \in Listeners |-> events'[t]]
  BY <1>1
<1>3. ASSUME NEW t \in Listeners PROVE Continues(t)'
  <2>1. CASE t = s
    <3>1. events'[t] = << >> /\ listener'[t] = "off" /\ heard'[t] = 0
      BY <1>1, <2>1
    <3>2. /\ << >> \in Seq(Range(<< >>)) /\ Len(<< >>) = 0
          /\ \A i \in 1..0 : FALSE
      OBVIOUS
    <3> QED
      <4>1. sequence + 0 = sequence /\ 0 <= EventBuffer
        BY <1>1
      <4> QED
        BY <1>1, <3>1, <3>2, <4>1 DEF Continues
  <2>2. CASE t # s
    <3>1. events'[t] = events[t] /\ listener'[t] = listener[t] /\ heard'[t] = heard[t]
      BY <1>1, <2>2
    <3>2. Continues(t)
      BY DEF HeardInv
    <3>3. listener[t] = "open" => listed'
      BY <1>1, <2>2, <3>2 DEF Continues
    <3> QED
      BY <1>1, <3>1, <3>2, <3>3 DEF Continues
  <2> QED
    BY <2>1, <2>2
<1> QED
  BY <1>1, <1>2, <1>3 DEF HeardInv

\* Nothing but these changes what is heard.
LEMMA QuietKeeps ==
  ASSUME HeardInv, UNCHANGED <<sequence, events, listener, listed, heard>>
  PROVE  HeardInv'
BY DEF HeardInv, Continues

LEMMA HeardStep ==
  ASSUME HeardInv, [BroadcastNext]_broadcastVars
  PROVE  HeardInv'
<1>1. ASSUME NEW p \in PMTs, ObservePMT(p) PROVE HeardInv'
  BY <1>1, BroadcastKeeps DEF ObservePMT
<1>2. ASSUME NEW d \in DIIs, ObserveDII(d) PROVE HeardInv'
  <2>1. UNCHANGED <<listed, heard>> /\ \E batch : Broadcast(batch)
    BY <1>2 DEF ObserveDII
  <2> QED
    BY <2>1, BroadcastKeeps
<1>3. ASSUME NEW b \in DDBs, ObserveDDB(b) PROVE HeardInv'
  <2>1. UNCHANGED <<listed, heard>>
    BY <1>3 DEF ObserveDDB
  <2>2. (\E batch : Broadcast(batch)) \/ UNCHANGED <<sequence, events, listener>>
    BY <1>3 DEF ObserveDDB, ModuleCompleted
  <2> QED
    BY <2>1, <2>2, BroadcastKeeps, QuietKeeps
<1>4. ASSUME ObserveEIT \/ ObserveTOT \/ ObserveES \/ ObserveBIT \/ ObservePacket PROVE HeardInv'
  <2>1. UNCHANGED <<listed, heard>> /\ \E batch : Broadcast(batch)
    BY <1>4 DEF ObserveEIT, ObserveTOT, ObserveES, ObserveBIT, ObservePacket, PassOn
  <2> QED
    BY <2>1, BroadcastKeeps
<1>5. ASSUME NEW s \in Listeners, SubscribeEvents(s) \/ Receive(s) \/ UnsubscribeEvents(s)
      PROVE  HeardInv'
  BY <1>5, SubscribeKeeps, ReceiveKeeps, UnsubscribeKeeps
<1>6. ASSUME NEW key \in Modules, Fetch(key) PROVE HeardInv'
  BY <1>6, QuietKeeps DEF Fetch
<1>7. CASE OtherSessionPuts
  BY <1>7, QuietKeeps DEF OtherSessionPuts
<1>8. CASE UNCHANGED broadcastVars
  BY <1>8, QuietKeeps DEF broadcastVars
<1> QED
  BY <1>1, <1>2, <1>3, <1>4, <1>5, <1>6, <1>7, <1>8 DEF BroadcastNext

\* What waits for a subscriber continues, event by event, what it has heard.
THEOREM HeardInductive == BroadcastSpec => []HeardInv
<1>1. BroadcastInit => HeardInv
  BY NobodyHearsYet
<1>2. HeardInv /\ [BroadcastNext]_broadcastVars => HeardInv'
  BY HeardStep
<1> QED
  BY <1>1, <1>2, PTL DEF BroadcastSpec

\* Whatever the carousel, the store and the subscribers do, an open subscriber of a data
\* broadcast has a number for every event since its snapshot and is on the hub's list,
\* and one that was too slow is closed with events missing only behind those it has.
THEOREM SubscribersHearAll == BroadcastSpec => []SubscribersMissNothing
<1>1. ASSUME HeardInv PROVE SubscribersMissNothing
  <2> SUFFICES ASSUME NEW s \in Listeners
               PROVE  LET numbers == [i \in DOMAIN events[s] |-> events[s][i].number]
                      IN  /\ listener[s] # "off" => numbers = [i \in DOMAIN numbers |-> heard[s] + i]
                          /\ listener[s] = "open" => heard[s] + Len(numbers) = sequence /\ listed
                          /\ listener[s] = "closed" => heard[s] + Len(numbers) < sequence
    BY DEF SubscribersMissNothing
  <2> DEFINE numbers == [i \in DOMAIN events[s] |-> events[s][i].number]
  <2>1. Continues(s)
    BY <1>1 DEF HeardInv
  <2>2. DOMAIN events[s] = 1..Len(events[s]) /\ Len(events[s]) \in Nat
    BY <2>1 DEF Continues
  <2>3. numbers = [i \in 1..Len(events[s]) |-> heard[s] + i]
    BY <2>1, <2>2 DEF Continues
  <2>4. DOMAIN numbers = 1..Len(events[s]) /\ Len(numbers) = Len(events[s])
    BY <2>2, <2>3
  <2> HIDE DEF numbers
  <2>5. /\ listener[s] # "off" => numbers = [i \in DOMAIN numbers |-> heard[s] + i]
        /\ listener[s] = "open" => heard[s] + Len(numbers) = sequence /\ listed
        /\ listener[s] = "closed" => heard[s] + Len(numbers) < sequence
    BY <2>1, <2>3, <2>4 DEF Continues
  <2> QED
    BY <2>5 DEF numbers
<1>2. HeardInv => SubscribersMissNothing
  BY <1>1
<1> QED
  BY <1>2, HeardInductive, PTL

-----------------------------------------------------------------------------
(* Types.                                                                  *)

\* What neither of the two invariants speaks of.
Announcements ==
  /\ pmt \in PMTs \cup {NoPMT} /\ diiSection \in DIIs \cup {NoDII}
  /\ listed \in BOOLEAN /\ persistent \in BOOLEAN

LEMMA AnnouncementsStep ==
  ASSUME Announcements, [BroadcastNext]_broadcastVars
  PROVE  Announcements'
<1>1. ASSUME NEW p \in PMTs, ObservePMT(p) PROVE Announcements'
  BY <1>1 DEF ObservePMT, Announcements
<1>2. ASSUME NEW d \in DIIs, ObserveDII(d) PROVE Announcements'
  BY <1>2 DEF ObserveDII, Announcements
<1>3. ASSUME NEW b \in DDBs, ObserveDDB(b) PROVE Announcements'
  BY <1>3 DEF ObserveDDB, Announcements
<1>4. CASE ObserveEIT \/ ObserveTOT \/ ObserveES \/ ObserveBIT \/ ObservePacket
  BY <1>4 DEF ObserveEIT, ObserveTOT, ObserveES, ObserveBIT, ObservePacket, PassOn, Announcements
<1>5. ASSUME NEW s \in Listeners, SubscribeEvents(s) \/ Receive(s) PROVE Announcements'
  BY <1>5 DEF SubscribeEvents, Receive, Announcements
<1>6. ASSUME NEW s \in Listeners, UnsubscribeEvents(s) PROVE Announcements'
  <2>1. /\ UNCHANGED <<pmt, diiSection, persistent>>
        /\ listed' = IF listener[s] = "open" THEN \E t \in Listeners \ {s} : listener[t] = "open"
                     ELSE listed
    BY <1>6 DEF UnsubscribeEvents
  <2>2. (\E t \in Listeners \ {s} : listener[t] = "open") \in BOOLEAN
    OBVIOUS
  <2>3. listed' \in BOOLEAN
    BY <2>1, <2>2 DEF Announcements
  <2> QED
    BY <2>1, <2>3 DEF Announcements
<1>7. CASE (\E key \in Modules : Fetch(key)) \/ OtherSessionPuts \/ UNCHANGED broadcastVars
  BY <1>7 DEF Fetch, OtherSessionPuts, broadcastVars, Announcements
<1> QED
  BY <1>1, <1>2, <1>3, <1>4, <1>5, <1>6, <1>7 DEF BroadcastNext

\* Every variable of the hub and of its store keeps its type: the counters of the
\* carousel are natural numbers, whatever is announced, in assembly, completed or stored
\* is a module of some DII, and nobody has heard more than there was.
THEOREM BroadcastTypes == BroadcastSpec => []BroadcastTypeOK
<1>1. BroadcastInit => Announcements
  BY DEF BroadcastInit, Announcements
<1>2. Announcements /\ [BroadcastNext]_broadcastVars => Announcements'
  BY AnnouncementsStep
<1>3. ASSUME HubInv, HeardInv, Announcements PROVE BroadcastTypeOK
  <2>1. /\ carousel.completed \in Nat /\ carousel.inFlight \in Nat
        /\ \A s \in Range(carousel.modules) : KeyOf(s) \in Modules /\ s.done \in BOOLEAN
    <3>1. carousel \in Carousels
      BY <1>3 DEF HubInv, CarouselInv, Consistent
    <3>2. \A s \in Range(carousel.modules) : s \in ModuleStates
      BY <3>1 DEF Carousels, Range
    <3>3. \A s \in ModuleStates : KeyOf(s) \in Modules /\ s.done \in BOOLEAN
      BY DEF ModuleStates, ModuleOK, AnyState
    <3> QED
      BY <3>1, <3>2, <3>3 DEF Carousels
  <2>2. \A m \in Range(store) : KeyOf(m) \in Modules /\ Len(m.data) = m.size
    <3> SUFFICES ASSUME NEW m \in Range(store) PROVE KeyOf(m) \in Modules /\ Len(m.data) = m.size
      OBVIOUS
    <3>1. m \in StoredModules
      BY <1>3 DEF HubInv, Range
    <3>2. KeyOf(m) \in Modules /\ m.data = Whole(m) /\ m.size \in Nat
      BY <3>1 DEF StoredModules
    <3> QED
      BY <3>2, WholeLength
  <2>3. heard \in [Listeners -> 0 .. MaxEvents]
    <3> SUFFICES ASSUME NEW s \in Listeners PROVE heard[s] \in 0 .. MaxEvents
      BY <1>3 DEF HeardInv
    <3>1. PICK h, l \in Nat : h = heard[s] /\ l = Len(events[s])
      BY <1>3 DEF HeardInv, Continues
    <3>2. h = 0 \/ h + l = sequence \/ h + l < sequence
      BY <1>3, <3>1 DEF HeardInv, Continues
    <3>3. sequence \in Nat /\ MaxEvents \in Nat /\ sequence <= MaxEvents
      BY <1>3, DataBroadcastConstants DEF HeardInv
    <3> QED
      BY <3>1, <3>2, <3>3
  <2> QED
    BY <1>3, <2>1, <2>2, <2>3 DEF BroadcastTypeOK, HeardInv, Announcements
<1>4. BroadcastSpec => []Announcements
  BY <1>1, <1>2, PTL DEF BroadcastSpec
<1> QED
  BY <1>3, <1>4, HubInductive, HeardInductive, PTL
=============================================================================
