--------------------------- MODULE SequenceLemmas ---------------------------
(* Facts about the queues of the models: what appending, removing at an      *)
(* index and taking the tail do to the elements of a duplicate-free sequence. *)
EXTENDS Integers, Sequences, SequencesExt, SequenceTheorems,
        WellFoundedInduction, TLAPS

\* RemoveAt drops one element and moves the later ones down.
LEMMA RemoveAtProperties ==
  ASSUME NEW S, NEW s \in Seq(S), NEW i \in 1..Len(s)
  PROVE  /\ RemoveAt(s, i) \in Seq(S)
         /\ Len(RemoveAt(s, i)) = Len(s) - 1
         /\ \A k \in 1..(Len(s) - 1) :
              RemoveAt(s, i)[k] = IF k < i THEN s[k] ELSE s[k + 1]
<1> DEFINE a == SubSeq(s, 1, i - 1)
           b == SubSeq(s, i + 1, Len(s))
<1>1. a \in Seq(S) /\ Len(a) = i - 1 /\ \A k \in 1..(i - 1) : a[k] = s[k]
  OBVIOUS
<1>2. /\ b \in Seq(S) /\ Len(b) = Len(s) - i
      /\ \A k \in 1..(Len(s) - i) : b[k] = s[i + k]
  OBVIOUS
<1>3. RemoveAt(s, i) = a \o b
  BY DEF RemoveAt
<1> HIDE DEF a, b
<1>4. /\ a \o b \in Seq(S) /\ Len(a \o b) = Len(s) - 1
      /\ \A k \in 1..(Len(s) - 1) :
           (a \o b)[k] = IF k <= i - 1 THEN a[k] ELSE b[k - (i - 1)]
  <2>1. /\ a \o b \in Seq(S)
        /\ Len(a \o b) = Len(a) + Len(b)
        /\ \A k \in 1..(Len(a) + Len(b)) :
             (a \o b)[k] = IF k <= Len(a) THEN a[k] ELSE b[k - Len(a)]
    BY <1>1, <1>2, ConcatProperties
  <2>2. Len(a) + Len(b) = Len(s) - 1
    BY <1>1, <1>2
  <2> QED BY <1>1, <2>1, <2>2
<1>5. ASSUME NEW k \in 1..(Len(s) - 1)
      PROVE  (a \o b)[k] = IF k < i THEN s[k] ELSE s[k + 1]
  <2>1. CASE k < i
    BY <2>1, <1>1, <1>4
  <2>2. CASE ~(k < i)
    <3>1. k - (i - 1) \in 1..(Len(s) - i) /\ i + (k - (i - 1)) = k + 1
      BY <2>2
    <3> QED BY <2>2, <3>1, <1>2, <1>4
  <2> QED BY <2>1, <2>2
<1> QED BY <1>3, <1>4, <1>5

\* Removing an element of a duplicate-free sequence removes it from its range.
LEMMA RemoveAtRange ==
  ASSUME NEW S, NEW s \in Seq(S), NEW i \in 1..Len(s), IsInjective(s)
  PROVE  /\ RemoveAt(s, i) \in Seq(S)
         /\ IsInjective(RemoveAt(s, i))
         /\ Range(RemoveAt(s, i)) = Range(s) \ {s[i]}
<1> DEFINE r == RemoveAt(s, i)
<1>1. /\ r \in Seq(S) /\ Len(r) = Len(s) - 1
      /\ \A k \in 1..(Len(s) - 1) : r[k] = IF k < i THEN s[k] ELSE s[k + 1]
  BY RemoveAtProperties
<1> HIDE DEF r
<1>2. DOMAIN r = 1..(Len(s) - 1) /\ DOMAIN s = 1..Len(s) /\ Len(s) \in Nat
  BY <1>1
<1> DEFINE at(k) == IF k < i THEN k ELSE k + 1
<1>a. \A k \in 1..(Len(s) - 1) : at(k) \in 1..Len(s) /\ at(k) # i /\ r[k] = s[at(k)]
  BY <1>1, <1>2
<1>b. \A k, m \in 1..(Len(s) - 1) : at(k) = at(m) => k = m
  BY <1>2
<1> HIDE DEF at
<1>c. i \in 1..Len(s) /\ \A k, m \in 1..Len(s) : s[k] = s[m] => k = m
  BY <1>2 DEF IsInjective
<1>3. IsInjective(r)
  BY <1>2, <1>a, <1>b, <1>c DEF IsInjective
<1>4. ASSUME NEW x \in Range(r) PROVE x \in Range(s) \ {s[i]}
  <2>1. PICK k \in 1..(Len(s) - 1) : r[k] = x
    BY <1>2 DEF Range
  <2>2. x = s[at(k)] /\ at(k) \in 1..Len(s) /\ at(k) # i
    BY <2>1, <1>a
  <2> QED BY <2>2, <1>2, <1>c DEF Range
<1>5. ASSUME NEW x \in Range(s) \ {s[i]} PROVE x \in Range(r)
  <2>1. PICK k \in 1..Len(s) : s[k] = x /\ k # i
    BY <1>2 DEF Range
  <2>2. CASE k < i
    BY <2>1, <2>2, <1>1, <1>2 DEF Range
  <2>3. CASE k > i
    <3>1. k - 1 \in 1..(Len(s) - 1) /\ ~(k - 1 < i) /\ (k - 1) + 1 = k
      BY <2>3
    <3> QED BY <2>1, <3>1, <1>1, <1>2 DEF Range
  <2> QED BY <2>1, <2>2, <2>3
<1> QED BY <1>1, <1>3, <1>4, <1>5 DEF r

\* Appending a new element to a duplicate-free sequence.
LEMMA AppendRange ==
  ASSUME NEW S, NEW s \in Seq(S), NEW x \in S
  PROVE  /\ Append(s, x) \in Seq(S)
         /\ Range(Append(s, x)) = Range(s) \cup {x}
         /\ IsInjective(s) /\ x \notin Range(s) => IsInjective(Append(s, x))
<1> DEFINE a == Append(s, x)
<1>1. /\ a \in Seq(S) /\ Len(a) = Len(s) + 1 /\ a[Len(s) + 1] = x
      /\ \A k \in 1..Len(s) : a[k] = s[k]
  OBVIOUS
<1> HIDE DEF a
<1>2. DOMAIN a = 1..(Len(s) + 1) /\ DOMAIN s = 1..Len(s) /\ Len(s) \in Nat
  BY <1>1
<1>3. Range(a) = Range(s) \cup {x}
  <2>1. ASSUME NEW y \in Range(a) PROVE y \in Range(s) \cup {x}
    <3>1. PICK k \in 1..(Len(s) + 1) : a[k] = y
      BY <1>2 DEF Range
    <3>2. CASE k = Len(s) + 1
      BY <3>1, <3>2, <1>1
    <3>3. CASE k \in 1..Len(s)
      BY <3>1, <3>3, <1>1, <1>2 DEF Range
    <3> QED BY <3>2, <3>3, <1>2
  <2>2. ASSUME NEW y \in Range(s) \cup {x} PROVE y \in Range(a)
    BY <1>1, <1>2 DEF Range
  <2> QED BY <2>1, <2>2
<1>4. ASSUME IsInjective(s), x \notin Range(s) PROVE IsInjective(a)
  <2>1. SUFFICES ASSUME NEW i \in 1..(Len(s) + 1), NEW k \in 1..(Len(s) + 1), a[i] = a[k]
                 PROVE  i = k
    BY <1>2 DEF IsInjective
  <2>2. CASE i \in 1..Len(s) /\ k \in 1..Len(s)
    BY <2>1, <2>2, <1>1, <1>2, <1>4 DEF IsInjective
  <2>3. CASE i \in 1..Len(s) /\ k = Len(s) + 1
    BY <2>1, <2>3, <1>1, <1>2, <1>4 DEF Range
  <2>4. CASE k \in 1..Len(s) /\ i = Len(s) + 1
    BY <2>1, <2>4, <1>1, <1>2, <1>4 DEF Range
  <2> QED BY <2>2, <2>3, <2>4, <1>2
<1> QED BY <1>1, <1>3, <1>4 DEF a

\* The tail of a duplicate-free sequence loses the head.
LEMMA TailRange ==
  ASSUME NEW S, NEW s \in Seq(S), s # <<>>, IsInjective(s)
  PROVE  /\ Tail(s) \in Seq(S) /\ Head(s) \in Range(s) /\ Head(s) \in S
         /\ IsInjective(Tail(s))
         /\ Range(Tail(s)) = Range(s) \ {Head(s)}
<1> DEFINE t == Tail(s)
<1>1. /\ t \in Seq(S) /\ Len(t) = Len(s) - 1 /\ Head(s) = s[1]
      /\ \A k \in 1..(Len(s) - 1) : t[k] = s[k + 1]
  BY HeadTailProperties
<1>2. Len(s) \in Nat /\ Len(s) >= 1 /\ DOMAIN s = 1..Len(s)
  BY EmptySeq
<1> HIDE DEF t
<1>3. DOMAIN t = 1..(Len(s) - 1)
  BY <1>1
<1>4. IsInjective(t)
  <2>1. \A k, m \in 1..Len(s) : s[k] = s[m] => k = m
    BY <1>2 DEF IsInjective
  <2>2. \A k \in 1..(Len(s) - 1) : k + 1 \in 1..Len(s) /\ t[k] = s[k + 1]
    BY <1>1, <1>2
  <2>3. \A k, m \in 1..(Len(s) - 1) : t[k] = t[m] => k = m
    BY <2>1, <2>2
  <2> QED BY <2>3, <1>3 DEF IsInjective
<1>5. ASSUME NEW x \in Range(t) PROVE x \in Range(s) \ {s[1]}
  <2>1. PICK k \in 1..(Len(s) - 1) : t[k] = x
    BY <1>3 DEF Range
  <2>2. x = s[k + 1] /\ k + 1 \in 1..Len(s) /\ k + 1 # 1 /\ 1 \in 1..Len(s)
    BY <2>1, <1>1, <1>2
  <2> QED BY <2>2, <1>2 DEF Range, IsInjective
<1>6. ASSUME NEW x \in Range(s) \ {s[1]} PROVE x \in Range(t)
  <2>1. PICK k \in 1..Len(s) : s[k] = x /\ k # 1
    BY <1>2 DEF Range
  <2>2. k - 1 \in 1..(Len(s) - 1) /\ (k - 1) + 1 = k
    BY <2>1, <1>2
  <2> QED BY <2>1, <2>2, <1>1, <1>3 DEF Range
<1>7. s[1] \in Range(s) /\ s[1] \in S
  BY <1>2 DEF Range
<1> QED BY <1>1, <1>4, <1>5, <1>6, <1>7 DEF t

\* A nonempty set of natural numbers has a least element.
LEMMA LeastNatural ==
  ASSUME NEW T, T \subseteq Nat, T # {}
  PROVE  \E x \in T : \A y \in T : x <= y
<1>1. PICK x \in T : \A y \in T : ~(<<y, x>> \in OpToRel(<, Nat))
  BY NatLessThanWellFounded, WFMin
<1>2. ASSUME NEW y \in T PROVE x <= y
  <2>1. ~(y < x)
    BY <1>1 DEF OpToRel
  <2> QED BY <2>1
<1> QED BY <1>2

\* A loop of N rounds that starts in S and whose rounds stay in S stays there.
LEMMA RoundsStay ==
  ASSUME NEW S, NEW N \in Nat, NEW f, f[0] \in S,
         \A n \in 1..N : f[n - 1] \in S => f[n] \in S
  PROVE  \A n \in 0..N : f[n] \in S
<1> DEFINE T == {n \in 0..N : f[n] \notin S}
<1> SUFFICES ASSUME T # {} PROVE FALSE
  OBVIOUS
<1>1. PICK x \in T : \A y \in T : x <= y
  <2>1. T \subseteq Nat /\ T # {}
    OBVIOUS
  <2> HIDE DEF T
  <2> QED
    BY <2>1, LeastNatural
<1>2. x \in 1..N /\ x - 1 \in 0..N /\ ~(x <= x - 1)
  BY <1>1
<1>3. f[x - 1] \in S
  BY <1>1, <1>2
<1> QED
  BY <1>1, <1>2, <1>3

\* What such a loop does, round by round, is a function.
LEMMA RoundsExist ==
  ASSUME NEW S, NEW base \in S, NEW N \in Nat, NEW step \in [1..N -> [S -> S]]
  PROVE  \E f \in [0..N -> S] : f[0] = base /\ \A n \in 1..N : f[n] = step[n][f[n - 1]]
<1> DEFINE Does(f, n) == /\ f \in [0..n -> S] /\ f[0] = base
                         /\ \A i \in 1..n : f[i] = step[i][f[i - 1]]
           T == {n \in 0..N : ~\E f : Does(f, n)}
<1> SUFFICES ASSUME T # {} PROVE FALSE
  <2>1. N \in 0..N
    OBVIOUS
  <2> QED
    BY <2>1
<1>1. PICK x \in T : \A y \in T : x <= y
  <2>1. T \subseteq Nat /\ T # {}
    OBVIOUS
  <2> HIDE DEF T
  <2> QED
    BY <2>1, LeastNatural
<1>2. x # 0
  <2> DEFINE f == [i \in 0..0 |-> base]
  <2>1. Does(f, 0)
    OBVIOUS
  <2> QED
    BY <1>1, <2>1
<1>3. x \in 1..N /\ x - 1 \in 0..N /\ ~(x <= x - 1)
  BY <1>1, <1>2
<1>4. PICK g : Does(g, x - 1)
  BY <1>1, <1>3
<1> DEFINE f == [i \in 0..x |-> IF i = x THEN step[x][g[x - 1]] ELSE g[i]]
<1>5. g[x - 1] \in S /\ step[x][g[x - 1]] \in S
  BY <1>3, <1>4
<1>6. f \in [0..x -> S] /\ f[0] = base
  <2>1. \A i \in 0..x : i # x => i \in 0..(x - 1)
    BY <1>3
  <2>2. 0 \in 0..x /\ 0 # x
    BY <1>3
  <2> QED
    BY <1>4, <1>5, <2>1, <2>2
<1>7. ASSUME NEW i \in 1..x PROVE f[i] = step[i][f[i - 1]]
  <2>1. i - 1 \in 0..x /\ i - 1 # x /\ i \in 0..x
    BY <1>3
  <2>2. CASE i = x
    BY <2>1, <2>2
  <2>3. CASE i # x
    <3>1. i \in 1..(x - 1)
      BY <1>3, <2>3
    <3> QED
      BY <1>4, <2>1, <2>3, <3>1
  <2> QED
    BY <2>2, <2>3
<1>8. Does(f, x)
  BY <1>6, <1>7
<1> HIDE DEF f, Does
<1> QED
  BY <1>1, <1>8
\* The same with a set for each round.
LEMMA RoundsReach ==
  ASSUME NEW S, NEW N \in Nat, NEW f, f[0] \in S[0],
         \A n \in 1..N : f[n - 1] \in S[n - 1] => f[n] \in S[n]
  PROVE  \A n \in 0..N : f[n] \in S[n]
<1> DEFINE T == {n \in 0..N : f[n] \notin S[n]}
<1> SUFFICES ASSUME T # {} PROVE FALSE
  OBVIOUS
<1>1. PICK x \in T : \A y \in T : x <= y
  <2>1. T \subseteq Nat /\ T # {}
    OBVIOUS
  <2> HIDE DEF T
  <2> QED
    BY <2>1, LeastNatural
<1>2. x \in 1..N /\ x - 1 \in 0..N /\ ~(x <= x - 1)
  BY <1>1
<1>3. f[x - 1] \in S[x - 1]
  BY <1>1, <1>2
<1> QED
  BY <1>1, <1>2, <1>3
=============================================================================
