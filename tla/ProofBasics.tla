----------------------------- MODULE ProofBasics -----------------------------
(***************************************************************************)
(* Facts about numbers, sets and sequences that the proofs share.          *)
(***************************************************************************)
EXTENDS Integers, Sequences, FiniteSets, FiniteSetsExt, FiniteSetTheorems,
        SequenceTheorems, WellFoundedInduction, TLAPS

Smaller == {p \in Nat \X Nat : p[1] < p[2]}

\* The order of the naturals, as the set of pairs that WFMin wants.
LEMMA SmallerWF == IsWellFoundedOn(Smaller, Nat)
BY NatLessThanWellFounded DEF OpToRel, Smaller

\* Every non-empty set of naturals has a least element, which Min returns.
LEMMA MinNat ==
  ASSUME NEW S \in SUBSET Nat, S # {}
  PROVE  Min(S) \in S /\ \A n \in S : Min(S) <= n
<1>1. PICK x \in S : \A y \in S : <<y, x>> \notin Smaller
  BY SmallerWF, WFMin
<1>2. ASSUME NEW y \in S PROVE x <= y
  <2>1. x \in Nat /\ y \in Nat
    OBVIOUS
  <2>2. y < x => <<y, x>> \in Smaller
    BY <2>1 DEF Smaller
  <2> QED BY <1>1, <2>1, <2>2
<1> QED BY <1>2 DEF Min

\* What is true of 0 and carried on from each number to the next is true of all.
LEMMA StepByStep ==
  ASSUME NEW n \in Nat, NEW S, 0 \in S, \A k \in 0 .. n - 1 : k \in S => k + 1 \in S
  PROVE  \A k \in 0 .. n : k \in S
<1> DEFINE Out == {k \in 0 .. n : k \notin S}
<1>1. Out = {}
  <2> SUFFICES ASSUME Out # {} PROVE FALSE
    OBVIOUS
  <2>1. Out \in SUBSET Nat
    OBVIOUS
  <2>2. PICK m \in Out : \A k \in Out : m <= k
    <3> HIDE DEF Out
    <3> QED BY <2>1, MinNat
  <2>3. m \in 0 .. n /\ m \notin S /\ m # 0
    BY <2>2
  <2>4. m - 1 \in 0 .. n - 1 /\ m - 1 + 1 = m /\ m - 1 \in 0 .. n /\ ~(m <= m - 1)
    BY <2>3
  <2>5. m - 1 \in S
    BY <2>2, <2>4
  <2> QED BY <2>3, <2>4, <2>5
<1> QED BY <1>1

\* A bounded set has a greatest element, which Max returns.
LEMMA MaxNat ==
  ASSUME NEW n \in Nat, NEW S \in SUBSET (0 .. n), S # {}
  PROVE  Max(S) \in S /\ \A m \in S : m <= Max(S)
<1> DEFINE Below == {n - m : m \in S}
<1>1. Below \in SUBSET Nat /\ Below # {}
  <2>1. \A m \in S : m \in Int /\ m <= n
    OBVIOUS
  <2>2. \A m \in S : n - m \in Nat
    BY <2>1
  <2> QED BY <2>2
<1>2. PICK k \in Below : \A j \in Below : k <= j
  <2> HIDE DEF Below
  <2> QED BY <1>1, MinNat
<1>3. PICK x \in S : k = n - x
  BY <1>2
<1>4. \A m \in S : x >= m
  <2> SUFFICES ASSUME NEW m \in S PROVE x >= m
    OBVIOUS
  <2>1. n - m \in Below
    OBVIOUS
  <2>2. k <= n - m
    BY <1>2, <2>1
  <2> QED BY <1>3, <2>2
<1>5. Max(S) \in S /\ \A m \in S : Max(S) >= m
  BY <1>4 DEF Max
<1> QED BY <1>5

\* A set of positions up to n is finite.
LEMMA PositionsFinite ==
  ASSUME NEW n \in Nat, NEW S \in SUBSET (1 .. n)
  PROVE  /\ IsFiniteSet(S)
         /\ Cardinality(S) \in Nat
         /\ S # {} => Cardinality(S) >= 1
<1>1. IsFiniteSet(1 .. n)
  BY FS_Interval
<1>2. IsFiniteSet(S)
  BY <1>1, FS_Subset
<1>3. Cardinality(S) \in Nat
  BY <1>2, FS_CardinalityType
<1>4. S # {} => Cardinality(S) # 0
  BY <1>2, FS_EmptySet
<1>5. S # {} => Cardinality(S) >= 1
  <2> DEFINE c == Cardinality(S)
  <2>1. c \in Nat /\ (S # {} => c # 0)
    BY <1>3, <1>4
  <2> HIDE DEF c
  <2>2. S # {} => c >= 1
    BY <2>1
  <2> QED BY <2>2 DEF c
<1> QED BY <1>2, <1>3, <1>5

\* Dropping the first k elements of a sequence.
LEMMA DropFirst ==
  ASSUME NEW T, NEW s \in Seq(T), NEW k \in 0 .. Len(s)
  PROVE  /\ SubSeq(s, k + 1, Len(s)) \in Seq(T)
         /\ Len(SubSeq(s, k + 1, Len(s))) = Len(s) - k
         /\ DOMAIN SubSeq(s, k + 1, Len(s)) = 1 .. Len(s) - k
         /\ \A i \in 1 .. Len(s) - k : SubSeq(s, k + 1, Len(s))[i] = s[i + k]
<1> DEFINE r == SubSeq(s, k + 1, Len(s))
<1>1. Len(s) \in Nat /\ k \in Nat /\ k <= Len(s)
  OBVIOUS
<1>2. Len(r) = Len(s) - k
  BY <1>1
<1>3. r \in Seq(T)
  BY <1>1
<1>4. DOMAIN r = 1 .. Len(s) - k
  BY <1>2, <1>3
<1>5. ASSUME NEW i \in 1 .. Len(s) - k PROVE r[i] = s[i + k]
  BY <1>1
<1> QED BY <1>2, <1>3, <1>4, <1>5

\* Taking the element at position p out of a sequence: what comes before it
\* stays, what comes after it moves up.
TakenOut(r, T, s, p) ==
  /\ r \in Seq(T)
  /\ Len(r) = Len(s) - 1
  /\ DOMAIN r = 1 .. Len(s) - 1
  /\ \A i \in 1 .. p - 1 : r[i] = s[i]
  /\ \A i \in p .. Len(s) - 1 : r[i] = s[i + 1]

LEMMA TakeOutParts ==
  ASSUME NEW T, NEW s \in Seq(T), NEW p \in 1 .. Len(s), NEW r,
         r = SubSeq(s, 1, p - 1) \o SubSeq(s, p + 1, Len(s))
  PROVE  TakenOut(r, T, s, p)
<1> DEFINE a == SubSeq(s, 1, p - 1)
           b == SubSeq(s, p + 1, Len(s))
<1>1. Len(s) \in Nat /\ p \in Nat /\ 1 <= p /\ p <= Len(s)
  OBVIOUS
<1>2. a \in Seq(T) /\ Len(a) = p - 1 /\ \A i \in 1 .. p - 1 : a[i] = s[i]
  BY <1>1
<1>3. p \in 0 .. Len(s)
  BY <1>1
<1>4. b \in Seq(T) /\ Len(b) = Len(s) - p /\ \A i \in 1 .. Len(s) - p : b[i] = s[i + p]
  BY <1>1, <1>3, DropFirst
<1> HIDE DEF a, b
<1>5. r = a \o b
  BY DEF a, b
<1>6. /\ r \in Seq(T)
      /\ Len(r) = Len(a) + Len(b)
      /\ \A i \in 1 .. Len(a) + Len(b) :
            r[i] = IF i <= Len(a) THEN a[i] ELSE b[i - Len(a)]
  <2>1. /\ a \o b \in Seq(T)
        /\ Len(a \o b) = Len(a) + Len(b)
        /\ \A i \in 1 .. Len(a) + Len(b) :
              (a \o b)[i] = IF i <= Len(a) THEN a[i] ELSE b[i - Len(a)]
    <3>1. a \in Seq(T) /\ b \in Seq(T)
      BY <1>2, <1>4
    <3> QED BY <3>1, ConcatProperties, Zenon
  <2> QED BY <1>5, <2>1, Zenon
<1>7. Len(r) = Len(s) - 1 /\ Len(a) + Len(b) = Len(s) - 1
  <2>1. Len(a) + Len(b) = Len(s) - 1
    <3>1. Len(a) = p - 1 /\ Len(b) = Len(s) - p
      BY <1>2, <1>4
    <3> QED BY <1>1, <3>1
  <2> QED BY <1>6, <2>1
<1>8. DOMAIN r = 1 .. Len(s) - 1
  BY <1>6, <1>7
<1>9. \A i \in 1 .. Len(s) - 1 :
         r[i] = IF i <= p - 1 THEN a[i] ELSE b[i - (p - 1)]
  BY <1>2, <1>6, <1>7
<1>10. ASSUME NEW i \in 1 .. p - 1 PROVE r[i] = s[i]
  <2>1. i \in 1 .. Len(s) - 1 /\ i <= p - 1
    BY <1>1
  <2> QED BY <1>2, <1>9, <2>1
<1>11. ASSUME NEW i \in p .. Len(s) - 1 PROVE r[i] = s[i + 1]
  <2>1. /\ i \in 1 .. Len(s) - 1
        /\ i - (p - 1) \in 1 .. Len(s) - p /\ (i - (p - 1)) + p = i + 1 /\ ~(i <= p - 1)
    BY <1>1
  <2>2. b[i - (p - 1)] = s[i + 1]
    BY <1>4, <2>1
  <2> QED BY <1>9, <2>1, <2>2
<1> QED BY <1>6, <1>7, <1>8, <1>10, <1>11 DEF TakenOut

LEMMA TakeOut ==
  ASSUME NEW T, NEW s \in Seq(T), NEW p \in 1 .. Len(s), NEW r,
         r = SubSeq(s, 1, p - 1) \o SubSeq(s, p + 1, Len(s))
  PROVE  /\ r \in Seq(T)
         /\ Len(r) = Len(s) - 1
         /\ DOMAIN r = 1 .. Len(s) - 1
         /\ \A i \in 1 .. Len(s) - 1 : r[i] = IF i < p THEN s[i] ELSE s[i + 1]
<1>1. TakenOut(r, T, s, p)
  BY TakeOutParts, Zenon
<1>2. \A i \in 1 .. p - 1 : r[i] = s[i]
  BY <1>1, Zenon DEF TakenOut
<1>3. \A i \in p .. Len(s) - 1 : r[i] = s[i + 1]
  BY <1>1, Zenon DEF TakenOut
<1>4. ASSUME NEW i \in 1 .. Len(s) - 1
      PROVE  r[i] = IF i < p THEN s[i] ELSE s[i + 1]
  <2>1. CASE i < p
    <3>1. i \in 1 .. p - 1
      BY <2>1
    <3>2. r[i] = s[i]
      BY <1>2, <3>1, Zenon
    <3> QED BY <2>1, <3>2, Zenon
  <2>2. CASE ~(i < p)
    <3>1. i \in p .. Len(s) - 1
      BY <2>2
    <3>2. r[i] = s[i + 1]
      BY <1>3, <3>1, Zenon
    <3> QED BY <2>2, <3>2, Zenon
  <2> QED BY <2>1, <2>2
<1> QED BY <1>1, <1>4, Zenon DEF TakenOut
=============================================================================
