----------------------------- MODULE GateProofs -----------------------------
(***************************************************************************)
(* The safety properties of GateClients for every set of tasks, every      *)
(* capacity and every queue bound.                                         *)
(***************************************************************************)
EXTENDS GateClients, ProofBasics

\* The properties are inductive together.  Owners must be finite for its
\* cardinality to mean anything: Task may be infinite.
IInv == /\ GateTypeOK
        /\ IsFiniteSet(Owners)
        /\ SlotAccounting
        /\ WorkConserving
        /\ QueueFaithful

\* What the loop of release() pops: everything when no future is pending,
\* otherwise up to the first pending one, for exactly one slot is free.
LEMMA PoppedFacts ==
  ASSUME GateTypeOK, WorkConserving, active > 0, active <= Capacity
  PROVE  /\ Popped \in 0 .. Len(waiters)
         /\ \/ Live(Popped) = {} /\ Popped = Len(waiters)
            \/ Live(Popped) = {Popped} /\ active = Capacity
<1> DEFINE S == {n \in 0 .. Len(waiters) :
                    \/ n = Len(waiters)
                    \/ Cardinality(Live(n)) >= Capacity - (active - 1)}
<1>1. Len(waiters) \in Nat
  BY DEF GateTypeOK
<1>2. S \in SUBSET Nat /\ Len(waiters) \in S
  BY <1>1
<1>3. Popped \in S /\ \A n \in S : Popped <= n
  <2> HIDE DEF S
  <2>1. Popped = Min(S)
    BY DEF Popped, S
  <2> QED BY <1>2, <2>1, MinNat
<1>4. \A n \in 0 .. Len(waiters) : Live(n) \in SUBSET (1 .. n)
  BY DEF Live
<1>5. CASE waiters = <<>>
  <2>1. Popped = 0 /\ Len(waiters) = 0
    BY <1>3, <1>5
  <2> QED BY <1>1, <1>4, <2>1
<1>6. CASE waiters # <<>>
  <2>1. active = Capacity /\ Capacity - (active - 1) = 1
    BY <1>6, GateAssumption DEF WorkConserving
  <2>2. CASE Live(Popped) = {}
    <3>1. Cardinality(Live(Popped)) = 0
      BY <2>2, FS_EmptySet
    <3>2. ~(Cardinality(Live(Popped)) >= Capacity - (active - 1))
      BY <2>1, <3>1
    <3> QED BY <1>3, <2>2, <3>2
  <2>3. CASE Live(Popped) # {}
    <3>1. Popped \in 1 .. Len(waiters) /\ Popped - 1 \in 0 .. Len(waiters)
      BY <1>1, <1>3, <1>4, <2>3
    <3>2. Live(Popped - 1) = {}
      <4>1. SUFFICES ASSUME Live(Popped - 1) # {} PROVE FALSE
        OBVIOUS
      <4>2. Cardinality(Live(Popped - 1)) >= 1
        <5>1. Popped - 1 \in Nat /\ Live(Popped - 1) \in SUBSET (1 .. Popped - 1)
          BY <1>1, <1>4, <3>1
        <5> QED BY <4>1, <5>1, PositionsFinite
      <4>3. Popped - 1 \in S
        BY <2>1, <3>1, <4>2
      <4> QED BY <1>3, <3>1, <4>3
    <3>3. Live(Popped) \subseteq Live(Popped - 1) \union {Popped}
      BY <3>1 DEF Live
    <3> QED BY <2>1, <2>3, <3>1, <3>2, <3>3
  <2> QED BY <2>2, <2>3
<1> QED BY <1>5, <1>6

-----------------------------------------------------------------------------
\* What giving up a slot does: the first pending future inherits it, or, if
\* none is pending, the deque ends empty and a slot is free.
LEMMA HandOnEffect ==
  ASSUME IInv, NEW t \in Task, t \in Owners, HandOn(t)
  PROVE  \/ /\ \A u \in Task : at[u] # "pending"
            /\ waiters' = <<>>
            /\ active' = active - 1
            /\ at' = [at EXCEPT ![t] = "out"]
         \/ \E k \in 1 .. Len(waiters) :
              /\ at[waiters[k]] = "pending"
              /\ \A i \in 1 .. k - 1 : at[waiters[i]] # "pending"
              /\ waiters' = SubSeq(waiters, k + 1, Len(waiters))
              /\ active' = active
              /\ active = Capacity
              /\ at' = [at EXCEPT ![t] = "out", ![waiters[k]] = "granted"]
<1>1. /\ GateTypeOK /\ active > 0 /\ active <= Capacity
      /\ active \in Nat /\ Len(waiters) \in Nat
      /\ waiters \in [1 .. Len(waiters) -> Task]
      /\ at \in [Task -> Place]
      /\ at[t] # "pending"
  BY DEF IInv, GateTypeOK, SlotAccounting, HandOn, Owners
<1>2. /\ Popped \in 0 .. Len(waiters)
      /\ \/ Live(Popped) = {} /\ Popped = Len(waiters)
         \/ Live(Popped) = {Popped} /\ active = Capacity
  BY <1>1, PoppedFacts DEF IInv
<1>3. CASE Live(Popped) = {} /\ Popped = Len(waiters)
  <2>1. \A i \in 1 .. Len(waiters) : at[waiters[i]] # "pending"
    BY <1>3 DEF Live
  <2>2. \A u \in Task : at[u] # "pending"
    BY <1>1, <2>1 DEF IInv, QueueFaithful
  <2>3. Cardinality(Live(Popped)) = 0 /\ Heirs = {}
    BY <1>3, FS_EmptySet DEF Heirs
  <2>4. active' = active - 1
    BY <1>1, <2>3 DEF HandOn
  <2>5. waiters' = <<>>
    <3>1. waiters' = SubSeq(waiters, Len(waiters) + 1, Len(waiters))
      BY <1>3 DEF HandOn
    <3> QED BY <1>1, <3>1
  <2>6. at' = [at EXCEPT ![t] = "out"]
    BY <1>1, <2>3 DEF HandOn
  <2> QED BY <2>2, <2>4, <2>5, <2>6
<1>4. CASE Live(Popped) = {Popped} /\ active = Capacity
  <2> DEFINE k == Popped
  <2>1. k \in 1 .. Len(waiters) /\ at[waiters[k]] = "pending"
    BY <1>2, <1>4 DEF Live
  <2>2. \A i \in 1 .. k - 1 : at[waiters[i]] # "pending"
    <3>1. \A i \in 1 .. k - 1 : i \in 1 .. k /\ i # k
      BY <1>1, <2>1
    <3> QED BY <1>4, <3>1 DEF Live
  <2>3. Cardinality(Live(Popped)) = 1 /\ Heirs = {waiters[k]}
    BY <1>4, FS_Singleton DEF Heirs
  <2>4. active' = active
    BY <1>1, <2>3 DEF HandOn
  <2>5. at' = [at EXCEPT ![t] = "out", ![waiters[k]] = "granted"]
    <3>1. waiters[k] \in Task /\ waiters[k] # t
      BY <1>1, <2>1
    <3>2. at' = [u \in Task |-> IF u = t THEN "out"
                               ELSE IF u \in {waiters[k]} THEN "granted" ELSE at[u]]
      BY <2>3 DEF HandOn
    <3> HIDE DEF k
    <3> QED BY <1>1, <3>1, <3>2
  <2>6. waiters' = SubSeq(waiters, k + 1, Len(waiters))
    BY DEF HandOn
  <2> HIDE DEF k
  <2> QED BY <1>4, <2>1, <2>2, <2>4, <2>5, <2>6
<1> QED BY <1>2, <1>3, <1>4

-----------------------------------------------------------------------------
(* Every operation of the gate preserves the invariant, whoever calls it. *)

LEMMA EnterInv ==
  ASSUME IInv, NEW t \in Task, Enter(t)
  PROVE  IInv'
<1> USE DEF IInv
<1>1. active' = active + 1 /\ waiters' = waiters /\ waiters = <<>> /\ active < Capacity
      /\ at \in [Task -> Place] /\ active \in Nat
      /\ at[t] = "out" /\ at' = [at EXCEPT ![t] = "holding"]
  BY DEF Enter, CanEnter, GateTypeOK
<1>2. GateTypeOK'
  BY <1>1 DEF GateTypeOK, Place
<1>3. Owners' = Owners \union {t} /\ t \notin Owners
  BY <1>1 DEF Owners
<1>4. IsFiniteSet(Owners') /\ Cardinality(Owners') = Cardinality(Owners) + 1
  BY <1>3, FS_AddElement
<1>5. SlotAccounting'
  BY <1>1, <1>4, GateAssumption DEF SlotAccounting
<1>6. WorkConserving'
  BY <1>1 DEF WorkConserving
<1>7. QueueFaithful'
  BY <1>1, GateAssumption DEF QueueFaithful
<1> QED BY <1>2, <1>4, <1>5, <1>6, <1>7

LEMMA EnqueueInv ==
  ASSUME IInv, NEW t \in Task, Enqueue(t)
  PROVE  IInv'
<1> USE DEF IInv
<1>1. active' = active /\ waiters' = Append(waiters, t) /\ Len(waiters) < MaxQueued
      /\ at \in [Task -> Place] /\ active \in Nat /\ waiters \in Seq(Task)
      /\ at[t] = "out" /\ at' = [at EXCEPT ![t] = "pending"]
  BY GateAssumption DEF Enqueue, IsFull, GateTypeOK
<1>2. GateTypeOK'
  BY <1>1 DEF GateTypeOK, Place
<1>3. Owners' = Owners
  BY <1>1 DEF Owners
<1>4. SlotAccounting'
  BY <1>1, <1>3 DEF SlotAccounting
<1>5. active = Capacity
  BY <1>1, GateAssumption DEF Enqueue, CanEnter, WorkConserving, SlotAccounting, GateTypeOK
<1>6. WorkConserving'
  BY <1>1, <1>5 DEF WorkConserving
<1>7. QueueFaithful'
  <2>1. /\ Len(waiters') = Len(waiters) + 1
        /\ \A i \in 1 .. Len(waiters) : waiters'[i] = waiters[i] /\ waiters[i] \in Task
        /\ waiters'[Len(waiters) + 1] = t
        /\ DOMAIN waiters' = 1 .. Len(waiters) + 1
        /\ DOMAIN waiters = 1 .. Len(waiters)
    BY <1>1
  <2>2. \A i \in 1 .. Len(waiters) : waiters[i] # t
    BY <1>1, <2>1 DEF QueueFaithful
  <2>3. \A i, j \in DOMAIN waiters' : waiters'[i] = waiters'[j] => i = j
    BY <2>1, <2>2 DEF QueueFaithful
  <2>4. \A i \in DOMAIN waiters' : at'[waiters'[i]] \in {"pending", "cancelled"}
    BY <1>1, <2>1, <2>2 DEF QueueFaithful
  <2>5. \A u \in Task : at'[u] = "pending" => \E i \in DOMAIN waiters' : waiters'[i] = u
    BY <1>1, <2>1 DEF QueueFaithful
  <2>6. Len(waiters') <= MaxQueued
    BY <1>1, <2>1, GateAssumption
  <2> QED BY <2>3, <2>4, <2>5, <2>6 DEF QueueFaithful
<1> QED BY <1>2, <1>3, <1>4, <1>6, <1>7

LEMMA HandOnInv ==
  ASSUME IInv, NEW t \in Task, t \in Owners, HandOn(t)
  PROVE  IInv'
<1>1. /\ at \in [Task -> Place] /\ active \in Nat /\ waiters \in Seq(Task)
      /\ Len(waiters) \in Nat /\ DOMAIN waiters = 1 .. Len(waiters)
      /\ \A i \in 1 .. Len(waiters) : waiters[i] \in Task
      /\ active > 0 /\ at[t] \in {"holding", "granted"}
      /\ active = Cardinality(Owners) /\ active <= Capacity /\ IsFiniteSet(Owners)
  BY DEF IInv, GateTypeOK, SlotAccounting, HandOn, Owners
<1>2. IsFiniteSet(Owners \ {t}) /\ Cardinality(Owners \ {t}) = active - 1
  BY <1>1, FS_RemoveElement
<1>3. CASE /\ \A u \in Task : at[u] # "pending"
           /\ waiters' = <<>>
           /\ active' = active - 1
           /\ at' = [at EXCEPT ![t] = "out"]
  <2>1. Owners' = Owners \ {t}
    BY <1>1, <1>3 DEF Owners
  <2>2. GateTypeOK'
    BY <1>1, <1>3 DEF GateTypeOK, Place
  <2>3. SlotAccounting' /\ WorkConserving'
    BY <1>1, <1>2, <1>3, <2>1, GateAssumption DEF SlotAccounting, WorkConserving
  <2>4. QueueFaithful'
    BY <1>1, <1>3, GateAssumption DEF QueueFaithful
  <2> QED BY <1>2, <2>1, <2>2, <2>3, <2>4 DEF IInv
<1>4. ASSUME NEW k \in 1 .. Len(waiters),
             at[waiters[k]] = "pending",
             \A i \in 1 .. k - 1 : at[waiters[i]] # "pending",
             waiters' = SubSeq(waiters, k + 1, Len(waiters)),
             active' = active,
             active = Capacity,
             at' = [at EXCEPT ![t] = "out", ![waiters[k]] = "granted"]
      PROVE  IInv'
  <2> DEFINE h == waiters[k]
  <2>1. h \in Task /\ h # t /\ h \notin Owners
    BY <1>1, <1>4 DEF Owners
  <2>2. Owners' = (Owners \ {t}) \union {h}
    BY <1>1, <1>4, <2>1 DEF Owners
  <2>3. IsFiniteSet(Owners') /\ Cardinality(Owners') = active
    <3>1. Cardinality((Owners \ {t}) \union {h}) = (active - 1) + 1
      <4> HIDE DEF h
      <4> QED BY <1>2, <2>1, FS_AddElement
    <3>2. IsFiniteSet((Owners \ {t}) \union {h})
      BY <1>2, FS_AddElement
    <3> QED BY <1>1, <2>2, <3>1, <3>2
  <2>4. /\ DOMAIN waiters' = 1 .. Len(waiters) - k
        /\ Len(waiters') = Len(waiters) - k
        /\ \A i \in 1 .. Len(waiters) - k : waiters'[i] = waiters[i + k]
        /\ waiters' \in Seq(Task)
    <3>1. k \in 0 .. Len(waiters)
      BY <1>1, SMTT(40)
    <3> DEFINE r == SubSeq(waiters, k + 1, Len(waiters))
    <3>2. /\ DOMAIN r = 1 .. Len(waiters) - k
          /\ Len(r) = Len(waiters) - k
          /\ \A i \in 1 .. Len(waiters) - k : r[i] = waiters[i + k]
          /\ r \in Seq(Task)
      BY <1>1, <3>1, DropFirst
    <3>3. waiters' = r
      BY <1>4
    <3> HIDE DEF r
    <3> QED BY <3>2, <3>3
  <2>5. GateTypeOK'
    BY <1>1, <1>4, <2>4 DEF GateTypeOK, Place
  <2>6. SlotAccounting' /\ WorkConserving'
    BY <1>1, <1>4, <2>3 DEF SlotAccounting, WorkConserving
  <2>7. QueueFaithful'
    <3>1. \A i, j \in DOMAIN waiters' : waiters'[i] = waiters'[j] => i = j
      <4>1. ASSUME NEW i \in 1 .. Len(waiters) - k, NEW j \in 1 .. Len(waiters) - k,
                   waiters[i + k] = waiters[j + k]
            PROVE  i = j
        <5>1. i + k \in 1 .. Len(waiters) /\ j + k \in 1 .. Len(waiters)
          BY <1>1
        <5>2. i + k = j + k
          BY <1>1, <4>1, <5>1 DEF IInv, QueueFaithful
        <5> QED BY <1>1, <5>2
      <4> QED BY <2>4, <4>1
    <3>2. \A i \in 1 .. Len(waiters) - k : waiters[i + k] # h /\ waiters[i + k] # t
      BY <1>1, <2>1 DEF IInv, QueueFaithful
    <3>3. \A i \in DOMAIN waiters' : at'[waiters'[i]] \in {"pending", "cancelled"}
      <4>1. ASSUME NEW i \in 1 .. Len(waiters) - k
            PROVE  at'[waiters[i + k]] \in {"pending", "cancelled"}
        <5>1. i + k \in 1 .. Len(waiters)
          BY <1>1
        <5>2. waiters[i + k] \in Task /\ at[waiters[i + k]] \in {"pending", "cancelled"}
          BY <1>1, <5>1 DEF IInv, QueueFaithful
        <5>3. at'[waiters[i + k]] = at[waiters[i + k]]
          <6>1. waiters[i + k] # t /\ waiters[i + k] # waiters[k]
            BY <3>2
          <6>2. at \in [Task -> Place]
            BY <1>1
          <6> QED BY <1>4, <5>2, <6>1, <6>2
        <5> QED BY <5>2, <5>3
      <4> QED BY <2>4, <4>1
    <3>4. ASSUME NEW u \in Task, at'[u] = "pending"
          PROVE  \E i \in DOMAIN waiters' : waiters'[i] = u
      <4>1. at[u] = "pending" /\ u # h
        BY <1>1, <1>4, <2>1, <3>4
      <4>2. PICK j \in 1 .. Len(waiters) : waiters[j] = u
        BY <1>1, <4>1 DEF IInv, QueueFaithful
      <4>3. j > k
        BY <1>1, <1>4, <4>1, <4>2
      <4>4. j - k \in 1 .. Len(waiters) - k /\ (j - k) + k = j
        BY <1>1, <4>3
      <4> QED BY <2>4, <4>2, <4>4
    <3>5. Len(waiters') <= MaxQueued
      BY <1>1, <2>4, GateAssumption DEF IInv, QueueFaithful
    <3> QED BY <3>1, <3>3, <3>4, <3>5 DEF QueueFaithful
  <2> QED BY <2>3, <2>5, <2>6, <2>7 DEF IInv
<1> QED BY <1>3, <1>4, HandOnEffect

LEMMA InterruptInv ==
  ASSUME IInv, NEW U \in SUBSET Task, Interrupt(U)
  PROVE  IInv'
<1>1. /\ active' = active /\ waiters' = waiters /\ at \in [Task -> Place]
      /\ \A t \in Task : at'[t] = IF t \in U /\ at[t] = "pending"
                                  THEN "cancelled" ELSE at[t]
      /\ at' \in [Task -> Place]
  BY DEF IInv, GateTypeOK, Interrupt, Place
<1>2. Owners' = Owners
  BY <1>1 DEF Owners
<1>3. GateTypeOK' /\ SlotAccounting' /\ WorkConserving'
  BY <1>1, <1>2 DEF IInv, GateTypeOK, SlotAccounting, WorkConserving
<1>4. QueueFaithful'
  <2>1. waiters \in Seq(Task) /\ \A i \in DOMAIN waiters : waiters[i] \in Task
    BY DEF IInv, GateTypeOK
  <2>2. \A i \in DOMAIN waiters : at'[waiters[i]] \in {"pending", "cancelled"}
    BY <1>1, <2>1 DEF IInv, QueueFaithful
  <2>3. \A t \in Task : at'[t] = "pending" => at[t] = "pending"
    BY <1>1
  <2> QED BY <1>1, <2>2, <2>3 DEF IInv, QueueFaithful
<1> QED BY <1>2, <1>3, <1>4 DEF IInv

LEMMA ResumeInv ==
  ASSUME IInv, NEW t \in Task, Resume(t)
  PROVE  IInv'
<1>1. /\ active' = active /\ waiters' = waiters /\ at \in [Task -> Place]
      /\ at[t] = "granted" /\ at' = [at EXCEPT ![t] = "holding"]
      /\ at' \in [Task -> Place]
  BY DEF IInv, GateTypeOK, Resume, Place
<1>2. Owners' = Owners
  BY <1>1 DEF Owners
<1>3. GateTypeOK' /\ SlotAccounting' /\ WorkConserving'
  BY <1>1, <1>2 DEF IInv, GateTypeOK, SlotAccounting, WorkConserving
<1>4. QueueFaithful'
  <2>1. waiters \in Seq(Task) /\ \A i \in DOMAIN waiters : waiters[i] \in Task
    BY DEF IInv, GateTypeOK
  <2> QED BY <1>1, <2>1 DEF IInv, QueueFaithful
<1> QED BY <1>2, <1>3, <1>4 DEF IInv

\* Leaving the deque of a task whose future was cancelled.
LEMMA WithdrawInv ==
  ASSUME IInv, NEW t \in Task, at[t] = "cancelled",
         waiters' = Without(t), at' = [at EXCEPT ![t] = "out"], active' = active
  PROVE  IInv'
<1>1. /\ at \in [Task -> Place] /\ waiters \in Seq(Task)
      /\ Len(waiters) \in Nat /\ DOMAIN waiters = 1 .. Len(waiters)
      /\ \A i \in 1 .. Len(waiters) : waiters[i] \in Task
      /\ at' \in [Task -> Place]
  BY DEF IInv, GateTypeOK, Place
<1>2. Owners' = Owners
  BY <1>1 DEF Owners
<1>3. CASE ~ \E i \in DOMAIN waiters : waiters[i] = t
  <2>1. waiters' = waiters
    BY <1>3 DEF Without
  <2>2. GateTypeOK' /\ SlotAccounting' /\ WorkConserving'
    BY <1>1, <1>2, <2>1 DEF IInv, GateTypeOK, SlotAccounting, WorkConserving
  <2>3. QueueFaithful'
    BY <1>1, <1>3, <2>1 DEF IInv, QueueFaithful
  <2> QED BY <1>2, <2>2, <2>3 DEF IInv
<1>4. CASE \E i \in DOMAIN waiters : waiters[i] = t
  <2> DEFINE p == CHOOSE i \in DOMAIN waiters : waiters[i] = t
             r == SubSeq(waiters, 1, p - 1) \o SubSeq(waiters, p + 1, Len(waiters))
  <2>1. p \in 1 .. Len(waiters) /\ waiters[p] = t
    BY <1>1, <1>4
  <2>2. waiters' = r
    BY <1>4 DEF Without
  <2>3. /\ r \in Seq(Task)
        /\ Len(r) = Len(waiters) - 1
        /\ DOMAIN r = 1 .. Len(waiters) - 1
        /\ \A i \in 1 .. Len(waiters) - 1 :
              r[i] = IF i < p THEN waiters[i] ELSE waiters[i + 1]
    <3>1. r = SubSeq(waiters, 1, p - 1) \o SubSeq(waiters, p + 1, Len(waiters))
      OBVIOUS
    <3>2. p \in 1 .. Len(waiters) /\ waiters \in Seq(Task)
      BY <1>1, <2>1
    <3> HIDE DEF p, r
    <3> QED BY <3>1, <3>2, TakeOut
  <2> HIDE DEF p, r
  <2>4. GateTypeOK' /\ SlotAccounting' /\ WorkConserving'
    BY <1>1, <1>2, <1>4, <2>2, <2>3 DEF IInv, GateTypeOK, SlotAccounting, WorkConserving
  <2> DEFINE old(i) == IF i < p THEN i ELSE i + 1
  <2>5. \A i \in 1 .. Len(waiters) - 1 :
           /\ old(i) \in 1 .. Len(waiters)
           /\ old(i) # p
           /\ r[i] = waiters[old(i)]
    BY <1>1, <2>1, <2>3
  <2>6. \A i, j \in 1 .. Len(waiters) - 1 : old(i) = old(j) => i = j
    BY <1>1, <2>1
  <2>7. QueueFaithful'
    <3>1. \A i, j \in DOMAIN r : r[i] = r[j] => i = j
      <4> HIDE DEF old
      <4> QED BY <1>1, <2>3, <2>5, <2>6 DEF IInv, QueueFaithful
    <3>2. \A i \in DOMAIN r : at'[r[i]] \in {"pending", "cancelled"}
      <4>1. ASSUME NEW i \in DOMAIN r
            PROVE  at'[r[i]] \in {"pending", "cancelled"}
        <5>1. r[i] = waiters[old(i)] /\ old(i) \in 1 .. Len(waiters) /\ old(i) # p
          BY <2>3, <2>5, <4>1
        <5> HIDE DEF old
        <5>2. r[i] # t /\ r[i] \in Task
          BY <1>1, <2>1, <5>1 DEF IInv, QueueFaithful
        <5> QED BY <1>1, <5>1, <5>2 DEF IInv, QueueFaithful
      <4> QED BY <4>1
    <3>3. ASSUME NEW u \in Task, at'[u] = "pending"
          PROVE  \E i \in DOMAIN r : r[i] = u
      <4>1. at[u] = "pending" /\ u # t
        BY <1>1, <3>3
      <4>2. PICK j \in 1 .. Len(waiters) : waiters[j] = u
        BY <1>1, <4>1 DEF IInv, QueueFaithful
      <4>3. j # p
        BY <2>1, <4>1, <4>2
      <4>4. CASE j < p
        <5>1. j \in 1 .. Len(waiters) - 1 /\ r[j] = waiters[j]
          BY <1>1, <2>1, <2>3, <4>4
        <5> QED BY <2>3, <4>2, <5>1
      <4>5. CASE j > p
        <5>1. j - 1 \in 1 .. Len(waiters) - 1 /\ ~(j - 1 < p) /\ (j - 1) + 1 = j
          BY <1>1, <2>1, <4>5
        <5>2. r[j - 1] = waiters[j]
          BY <2>3, <5>1
        <5> QED BY <2>3, <4>2, <5>1, <5>2
      <4> QED BY <1>1, <2>1, <4>3, <4>4, <4>5
    <3>4. Len(r) <= MaxQueued
      BY <1>1, <2>3, GateAssumption DEF IInv, QueueFaithful
    <3> QED BY <2>2, <3>1, <3>2, <3>3, <3>4 DEF QueueFaithful
  <2> QED BY <1>2, <2>4, <2>7 DEF IInv
<1> QED BY <1>3, <1>4

LEMMA AbandonInv ==
  ASSUME IInv, NEW t \in Task, Abandon(t)
  PROVE  IInv'
<1>1. CASE at[t] = "granted" /\ HandOn(t)
  BY <1>1, HandOnInv DEF Owners
<1>2. CASE at[t] = "cancelled" /\ ~(at[t] = "granted" /\ HandOn(t))
  BY <1>2, WithdrawInv DEF Abandon
<1> QED BY <1>1, <1>2 DEF Abandon

-----------------------------------------------------------------------------
LEMMA InitInv == Init => IInv
<1> SUFFICES ASSUME Init PROVE IInv
  OBVIOUS
<1>1. active = 0 /\ waiters = <<>> /\ at = [t \in Task |-> "out"]
  BY DEF Init, GateInit
<1>2. Owners = {}
  BY <1>1 DEF Owners
<1>3. IsFiniteSet(Owners) /\ Cardinality(Owners) = 0
  BY <1>2, FS_EmptySet
<1>4. GateTypeOK
  BY <1>1 DEF GateTypeOK, Place
<1>5. SlotAccounting /\ WorkConserving /\ QueueFaithful
  BY <1>1, <1>3, GateAssumption DEF SlotAccounting, WorkConserving, QueueFaithful
<1> QED BY <1>3, <1>4, <1>5 DEF IInv

LEMMA NextInv == IInv /\ [Next]_vars => IInv'
<1> SUFFICES ASSUME IInv, [Next]_vars PROVE IInv'
  OBVIOUS
<1>1. CASE UNCHANGED gateVars
  BY <1>1 DEF gateVars, IInv, GateTypeOK, Owners, SlotAccounting, WorkConserving, QueueFaithful
<1>2. ASSUME NEW t \in Task, Arrive(t) PROVE IInv'
  <2>1. Enter(t) \/ Enqueue(t) \/ UNCHANGED gateVars
    BY <1>2 DEF Arrive, Reject
  <2> QED BY <1>1, <2>1, EnterInv, EnqueueInv
<1>3. ASSUME NEW S \in SUBSET Task, CutShort(S) PROVE IInv'
  BY <1>3, InterruptInv DEF CutShort
<1>4. ASSUME NEW t \in Task, Deliver(t) PROVE IInv'
  BY <1>4, ResumeInv DEF Deliver
<1>5. ASSUME NEW t \in Task, GiveUp(t) PROVE IInv'
  BY <1>5, AbandonInv DEF GiveUp
<1>6. ASSUME NEW t \in Task, Leave(t) PROVE IInv'
  BY <1>6, HandOnInv DEF Leave, Release, Owners
<1>7. CASE UNCHANGED vars
  BY <1>1, <1>7 DEF vars, gateVars
<1> QED BY <1>2, <1>3, <1>4, <1>5, <1>6, <1>7 DEF Next

LEMMA Invariance == Spec => []IInv
<1> QED BY InitInv, NextInv, PTL DEF Spec

-----------------------------------------------------------------------------
\* The counter is the number of slots with an owner and stays within the
\* capacity, whatever the callers and the timers do (admission.py:32-67).
THEOREM SlotsAccounted == Spec => []SlotAccounting
<1>1. IInv => SlotAccounting
  BY DEF IInv
<1> QED BY <1>1, Invariance, PTL

\* No task waits beside a free slot (admission.py:34, 63).
THEOREM NoIdleSlot == Spec => []WorkConserving
<1>1. IInv => WorkConserving
  BY DEF IInv
<1> QED BY <1>1, Invariance, PTL

\* Every pending future can be found by release(), once, and the deque keeps
\* its bound (admission.py:37, 40, 51, 64).
THEOREM QueueIsFaithful == Spec => []QueueFaithful
<1>1. IInv => QueueFaithful
  BY DEF IInv
<1> QED BY <1>1, Invariance, PTL

\* Type correctness.
THEOREM TypeCorrect == Spec => []TypeOK
<1> DEFINE J == interrupted \in SUBSET Task
<1>1. IInv /\ J => TypeOK
  BY DEF IInv, TypeOK
<1>2. Init => J
  BY DEF Init
<1>3. J /\ [Next]_vars => J'
  BY DEF Next, vars, Arrive, CutShort, Deliver, GiveUp, Leave
<1> HIDE DEF J
<1> QED BY <1>1, <1>2, <1>3, Invariance, PTL DEF Spec

-----------------------------------------------------------------------------
\* No operation lets a task past a pending waiter (admission.py:34, 64).
LEMMA GrantsInOrder == IInv /\ [Next]_vars => NoOvertaking \/ UNCHANGED vars
<1> SUFFICES ASSUME IInv, Next PROVE NoOvertaking
  OBVIOUS
<1>1. /\ at \in [Task -> Place] /\ Len(waiters) \in Nat
      /\ DOMAIN waiters = 1 .. Len(waiters)
      /\ \A i \in 1 .. Len(waiters) : waiters[i] \in Task
  BY DEF IInv, GateTypeOK
<1>2. ASSUME Owners' \subseteq Owners PROVE NoOvertaking
  BY <1>2 DEF NoOvertaking
<1>3. ASSUME NEW t \in Task, t \in Owners, HandOn(t) PROVE NoOvertaking
  <2>1. CASE at' = [at EXCEPT ![t] = "out"]
    BY <1>1, <1>2, <2>1 DEF Owners
  <2>2. ASSUME NEW k \in 1 .. Len(waiters),
               \A i \in 1 .. k - 1 : at[waiters[i]] # "pending",
               at' = [at EXCEPT ![t] = "out", ![waiters[k]] = "granted"]
        PROVE  NoOvertaking
    <3>1. Owners' \ Owners \subseteq {waiters[k]} /\ (waiters[k] # t => waiters[k] \in Owners')
      BY <1>1, <2>2 DEF Owners
    <3>2. ASSUME NEW u \in Owners' \ Owners, NEW i \in DOMAIN waiters
          PROVE  \/ at[waiters[i]] # "pending"
                 \/ waiters[i] \in Owners'
                 \/ \E j \in 1 .. i - 1 : waiters[j] = u
      <4>1. u = waiters[k]
        BY <3>1, <3>2
      <4>2. CASE i < k
        BY <1>1, <2>2, <4>2
      <4>3. CASE i = k
        BY <3>2, <4>1, <4>3
      <4>4. CASE i > k
        BY <1>1, <4>1, <4>4
      <4> QED BY <1>1, <4>2, <4>3, <4>4
    <3> QED BY <3>2 DEF NoOvertaking
  <2> QED BY <1>3, <2>1, <2>2, HandOnEffect
<1>4. ASSUME NEW t \in Task, Arrive(t) PROVE NoOvertaking
  <2>1. CASE Enter(t)
    BY <2>1 DEF Enter, CanEnter, NoOvertaking
  <2>2. CASE Enqueue(t) \/ Reject(t)
    BY <1>1, <1>2, <2>2 DEF Enqueue, Reject, gateVars, Owners
  <2> QED BY <1>4, <2>1, <2>2 DEF Arrive
<1>5. ASSUME NEW S \in SUBSET Task, CutShort(S) PROVE NoOvertaking
  BY <1>2, <1>5 DEF CutShort, Interrupt, Owners
<1>6. ASSUME NEW t \in Task, Deliver(t) PROVE NoOvertaking
  BY <1>1, <1>2, <1>6 DEF Deliver, Resume, Owners
<1>7. ASSUME NEW t \in Task, GiveUp(t) PROVE NoOvertaking
  <2>1. CASE at[t] = "granted" /\ HandOn(t)
    BY <1>3, <2>1 DEF Owners
  <2>2. CASE at' = [at EXCEPT ![t] = "out"]
    BY <1>1, <1>2, <2>2 DEF Owners
  <2> QED BY <1>7, <2>1, <2>2 DEF GiveUp, Abandon
<1>8. ASSUME NEW t \in Task, Leave(t) PROVE NoOvertaking
  BY <1>3, <1>8 DEF Leave, Release, Owners
<1> QED BY <1>4, <1>5, <1>6, <1>7, <1>8 DEF Next

\* Slots are granted in the order of arrival among the tasks that are still
\* waiting (admission.py:1, 34, 64).
THEOREM FifoAdmission == Spec => FifoGrants
<1>1. IInv /\ [Next]_vars => [NoOvertaking]_vars
  BY GrantsInOrder
<1> QED BY <1>1, Invariance, PTL DEF Spec, FifoGrants

-----------------------------------------------------------------------------
(* The gate implements SlotPool: a step of the gate is a step of the pool,   *)
(* or changes nothing that the pool knows of.                                *)

LEMMA SameCardinality == \A S : Pool!Cardinality(S) = Cardinality(S)
BY DEF Pool!Cardinality, Cardinality, Pool!IsFiniteSet, IsFiniteSet

LEMMA PoolStutters ==
  ASSUME Owners' = Owners, Line' = Line, Ahead' = Ahead
  PROVE  UNCHANGED Pool!poolVars
BY DEF Pool!poolVars

\* Where the waiting tasks are in the deque.
LEMMA Places ==
  ASSUME IInv
  PROVE  /\ Len(waiters) \in Nat /\ DOMAIN waiters = 1 .. Len(waiters)
         /\ waiters \in [1 .. Len(waiters) -> Task] /\ at \in [Task -> Place]
         /\ \A i, j \in 1 .. Len(waiters) : waiters[i] = waiters[j] => i = j
         /\ \A t \in Line : \E i \in 1 .. Len(waiters) : waiters[i] = t
         /\ \A i, j \in 1 .. Len(waiters) : waiters[i] \in Line /\ waiters[j] \in Line =>
               (<<waiters[i], waiters[j]>> \in Ahead <=> i < j)
<1>1. /\ Len(waiters) \in Nat /\ DOMAIN waiters = 1 .. Len(waiters)
      /\ waiters \in [1 .. Len(waiters) -> Task] /\ at \in [Task -> Place]
      /\ \A i, j \in 1 .. Len(waiters) : waiters[i] = waiters[j] => i = j
      /\ \A t \in Line : \E i \in 1 .. Len(waiters) : waiters[i] = t
  BY DEF IInv, GateTypeOK, QueueFaithful, Line
<1>2. ASSUME NEW i \in 1 .. Len(waiters), NEW j \in 1 .. Len(waiters),
             waiters[i] \in Line, waiters[j] \in Line
      PROVE  <<waiters[i], waiters[j]>> \in Ahead <=> i < j
  BY <1>1, <1>2 DEF Ahead
<1> QED BY <1>1, <1>2

\* An empty deque is an empty line.
LEMMA EmptyLine ==
  ASSUME IInv, waiters = <<>>
  PROVE  Line = {} /\ Ahead = {}
BY Places DEF Ahead

\* The line is no longer than the deque.
LEMMA LineFits ==
  ASSUME IInv
  PROVE  Cardinality(Line) <= Len(waiters) /\ Cardinality(Line) \in Nat
<1>1. /\ Len(waiters) \in Nat /\ DOMAIN waiters = 1 .. Len(waiters)
      /\ waiters \in [1 .. Len(waiters) -> Task]
      /\ \A t \in Line : \E i \in 1 .. Len(waiters) : waiters[i] = t
  BY Places
<1> DEFINE D == 1 .. Len(waiters)
           S == {waiters[i] : i \in D}
<1>2. IsFiniteSet(D) /\ Cardinality(D) = Len(waiters)
  BY <1>1, FS_Interval
<1>3. waiters \in Surjection(D, S)
  BY <1>1 DEF Surjection
<1>4. IsFiniteSet(S) /\ Cardinality(S) <= Cardinality(D)
  <2> HIDE DEF D, S
  <2> QED BY <1>2, <1>3, FS_Surjection
<1>5. Line \subseteq S
  BY <1>1
<1>6. IsFiniteSet(Line) /\ Cardinality(Line) <= Cardinality(S)
  <2> HIDE DEF S
  <2> QED BY <1>4, <1>5, FS_Subset
<1>7. Cardinality(Line) \in Nat /\ Cardinality(S) \in Nat
  <2> HIDE DEF S
  <2> QED BY <1>4, <1>6, FS_CardinalityType
<1> QED BY <1>1, <1>2, <1>4, <1>6, <1>7

LEMMA EnterPools == ASSUME IInv, NEW t \in Task, Enter(t) PROVE Pool!Take(t)
<1>1. /\ waiters = <<>> /\ waiters' = <<>> /\ active < Capacity
      /\ at[t] = "out" /\ at' = [at EXCEPT ![t] = "holding"]
  BY DEF Enter, CanEnter
<1>2. Line = {} /\ Ahead = {}
  BY <1>1, EmptyLine
<1>3. Line' = {} /\ Ahead' = {}
  BY <1>1, EnterInv, EmptyLine, Places DEF Line, Ahead, Place
<1>4. Owners' = Owners \union {t} /\ t \notin Owners
  BY <1>1, Places DEF Owners
<1>5. Cardinality(Owners) < Capacity
  BY <1>1 DEF IInv, SlotAccounting
<1> QED BY <1>2, <1>3, <1>4, <1>5, SameCardinality DEF Pool!Take, Pool!Idle

LEMMA EnqueuePools == ASSUME IInv, NEW t \in Task, Enqueue(t) PROVE Pool!Join(t)
<1>1. /\ waiters' = Append(waiters, t) /\ Len(waiters) < MaxQueued
      /\ at[t] = "out" /\ at' = [at EXCEPT ![t] = "pending"] /\ active = Capacity
  BY GateAssumption
  DEF Enqueue, CanEnter, IsFull, IInv, GateTypeOK, WorkConserving, SlotAccounting
<1>2. Owners' = Owners /\ t \notin Owners
  BY <1>1, Places DEF Owners
<1>3. Line' = Line \union {t} /\ t \notin Line
  BY <1>1, Places DEF Line
<1> DEFINE n == Len(waiters)
<1>4. /\ n \in Nat /\ DOMAIN waiters' = 1 .. n + 1 /\ waiters'[n + 1] = t
      /\ \A i \in 1 .. n : waiters'[i] = waiters[i]
  BY <1>1, Places DEF IInv, GateTypeOK
<1>5. Ahead' = Ahead \union (Line \X {t})
  <2>1. ASSUME NEW u, NEW v
        PROVE  <<u, v>> \in Ahead' <=> <<u, v>> \in Ahead \/ (u \in Line /\ v = t)
    <3>1. CASE u \in Line /\ v \in Line
      <4>1. PICK i \in 1 .. n, j \in 1 .. n : waiters[i] = u /\ waiters[j] = v
        BY <3>1, Places
      <4>2. <<u, v>> \in Ahead <=> i < j
        BY <3>1, <4>1, Places
      <4>3. <<u, v>> \in Ahead' <=> i < j
        <5>1. IInv'
          BY EnqueueInv
        <5>2. \A a, b \in DOMAIN waiters' : waiters'[a] = waiters'[b] => a = b
          BY <5>1 DEF IInv, QueueFaithful
        <5>3. /\ i \in DOMAIN waiters' /\ j \in DOMAIN waiters'
              /\ waiters'[i] = u /\ waiters'[j] = v
          BY <1>4, <4>1
        <5> QED BY <1>3, <3>1, <5>2, <5>3 DEF Ahead
      <4> QED BY <1>3, <3>1, <4>2, <4>3
    <3>2. CASE u \in Line /\ v = t
      <4>1. PICK i \in 1 .. n : waiters[i] = u
        BY <3>2, Places
      <4>2. /\ i \in DOMAIN waiters' /\ n + 1 \in DOMAIN waiters' /\ i < n + 1
            /\ waiters'[i] = u /\ waiters'[n + 1] = v
        BY <1>4, <3>2, <4>1
      <4>3. <<u, v>> \in Line' \X Line'
        BY <1>3, <3>2
      <4> QED BY <3>2, <4>2, <4>3 DEF Ahead
    <3>3. CASE u = t
      <4>1. <<u, v>> \notin Ahead
        BY <1>3, <3>3 DEF Ahead
      <4>2. <<u, v>> \notin Ahead'
        <5>1. IInv'
          BY EnqueueInv
        <5>2. \A a, b \in DOMAIN waiters' : waiters'[a] = waiters'[b] => a = b
          BY <5>1 DEF IInv, QueueFaithful
        <5>3. \A a, b \in DOMAIN waiters' : a < b => waiters'[a] # t
          BY <1>4, <5>2
        <5> QED BY <3>3, <5>3 DEF Ahead
      <4> QED BY <1>3, <3>3, <4>1, <4>2
    <3>4. CASE u \notin Line' \/ v \notin Line'
      BY <1>3, <3>4 DEF Ahead
    <3> QED BY <1>3, <3>1, <3>2, <3>3, <3>4
  <2>2. Ahead' \subseteq Line' \X Line' /\ Ahead \subseteq Line \X Line
    BY DEF Ahead
  <2> QED BY <2>1, <2>2
<1>6. Cardinality(Owners) = Capacity
  BY <1>1 DEF IInv, SlotAccounting
<1>7. Cardinality(Line) < MaxQueued
  BY <1>1, <1>4, LineFits, GateAssumption
<1> QED BY <1>2, <1>3, <1>5, <1>6, <1>7, SameCardinality DEF Pool!Join, Pool!Idle

\* Tasks leave the line, the deque keeps what it holds of the others.
LEMMA InterruptPools ==
  ASSUME IInv, NEW S \in SUBSET Task, Interrupt(S)
  PROVE  (\E L \in SUBSET Line : Pool!Leave(L)) \/ UNCHANGED Pool!poolVars
<1> DEFINE L == S \intersect Line
<1>1. /\ waiters' = waiters
      /\ \A t \in Task : at'[t] = IF t \in S /\ at[t] = "pending" THEN "cancelled" ELSE at[t]
  BY DEF Interrupt
<1>2. Owners' = Owners /\ Line' = Line \ L
  BY <1>1 DEF Owners, Line
<1>3. Ahead' = Ahead \intersect (Line' \X Line')
  BY <1>1, <1>2 DEF Ahead
<1>4. Pool!Leave(L)
  BY <1>2, <1>3 DEF Pool!Leave, Pool!StepOut
<1> QED BY <1>4

LEMMA HandOnPools ==
  ASSUME IInv, NEW t \in Task, t \in Owners, HandOn(t)
  PROVE  Pool!Give(t)
<1>1. t \notin Line /\ at[t] # "pending"
  BY DEF Owners, Line
<1>2. CASE /\ \A u \in Task : at[u] # "pending"
           /\ at' = [at EXCEPT ![t] = "out"]
  <2>1. Line = {} /\ Line' = {} /\ Owners' = Owners \ {t}
    BY <1>2, Places DEF Line, Owners
  <2>2. Ahead = {} /\ Ahead' = {}
    BY <2>1 DEF Ahead
  <2> QED BY <2>1, <2>2 DEF Pool!Give
<1>3. ASSUME NEW k \in 1 .. Len(waiters),
             at[waiters[k]] = "pending",
             \A i \in 1 .. k - 1 : at[waiters[i]] # "pending",
             waiters' = SubSeq(waiters, k + 1, Len(waiters)),
             at' = [at EXCEPT ![t] = "out", ![waiters[k]] = "granted"]
      PROVE  Pool!Give(t)
  <2> DEFINE h == waiters[k]
             n == Len(waiters)
  <2>1. h \in Line /\ h \in Task /\ h # t /\ n \in Nat /\ k \in 1 .. n
    BY <1>1, <1>3, Places DEF Line
  <2>2. Line' = Line \ {h} /\ Owners' = (Owners \ {t}) \union {h}
    BY <1>1, <1>3, <2>1, Places DEF Line, Owners
  <2>3. \A i \in 1 .. n : waiters[i] \in Line => k <= i
    BY <1>3, <2>1, Places DEF Line
  <2>4. \A u \in Line : <<u, h>> \notin Ahead
    <3>1. ASSUME NEW u \in Line PROVE <<u, h>> \notin Ahead
      <4>1. PICK i \in 1 .. n : waiters[i] = u
        BY Places
      <4>2. ~(i < k)
        BY <2>1, <2>3, <4>1
      <4> QED BY <2>1, <4>1, <4>2, Places
    <3> QED BY <3>1
  <2>5. /\ DOMAIN waiters' = 1 .. n - k
        /\ \A i \in 1 .. n - k : waiters'[i] = waiters[i + k]
    <3>1. k \in 0 .. n /\ waiters \in Seq(Task)
      BY <2>1 DEF IInv, GateTypeOK
    <3>2. DOMAIN SubSeq(waiters, k + 1, n) = 1 .. n - k
      BY <3>1, DropFirst, Zenon
    <3>3. \A i \in 1 .. n - k : SubSeq(waiters, k + 1, n)[i] = waiters[i + k]
      BY <3>1, DropFirst, Zenon
    <3> QED BY <1>3, <3>2, <3>3
  <2> HIDE DEF h
  <2>6. ASSUME NEW u \in Line', NEW v \in Line'
        PROVE  <<u, v>> \in Ahead' <=> <<u, v>> \in Ahead
    <3>1. PICK i \in 1 .. n, j \in 1 .. n : waiters[i] = u /\ waiters[j] = v
      BY <2>2, Places
    <3>2. u \in Line /\ v \in Line /\ u # h /\ v # h
      BY <2>2
    <3>3. k < i /\ k < j
      BY <2>1, <2>3, <3>1, <3>2 DEF h
    <3>4. <<u, v>> \in Ahead <=> i < j
      BY <3>1, <3>2, Places
    <3>5. /\ i - k \in 1 .. n - k /\ j - k \in 1 .. n - k
          /\ waiters'[i - k] = u /\ waiters'[j - k] = v
      <4>1. i - k \in 1 .. n - k /\ (i - k) + k = i /\ j - k \in 1 .. n - k /\ (j - k) + k = j
        BY <2>1, <3>3
      <4> QED BY <2>5, <3>1, <4>1
    <3>6. \A a \in 1 .. n - k : /\ waiters'[a] = u => a = i - k
                                /\ waiters'[a] = v => a = j - k
      <4>1. \A a \in 1 .. n - k : a + k \in 1 .. n
        BY <2>1
      <4> QED BY <2>1, <2>5, <3>1, <4>1, Places
    <3>7. <<u, v>> \in Ahead' <=> i - k < j - k
      BY <2>5, <3>5, <3>6 DEF Ahead
    <3> QED BY <2>1, <3>4, <3>7
  <2>7. Ahead' = Ahead \intersect (Line' \X Line')
    BY <2>6 DEF Ahead
  <2> QED BY <2>1, <2>2, <2>4, <2>7 DEF Pool!Give, Pool!First, Pool!StepOut
<1> QED BY <1>2, <1>3, HandOnEffect

\* Taking a task that does not wait out of the deque changes no order.
LEMMA WithdrawPools ==
  ASSUME IInv, NEW t \in Task, at[t] = "cancelled",
         waiters' = Without(t), at' = [at EXCEPT ![t] = "out"], active' = active
  PROVE  UNCHANGED Pool!poolVars
<1>1. Owners' = Owners /\ Line' = Line /\ t \notin Line
  BY Places DEF Owners, Line
<1>2. CASE waiters' = waiters
  BY <1>1, <1>2, PoolStutters DEF Ahead
<1>3. CASE \E i \in DOMAIN waiters : waiters[i] = t
  <2> DEFINE p == CHOOSE i \in DOMAIN waiters : waiters[i] = t
             n == Len(waiters)
             r == SubSeq(waiters, 1, p - 1) \o SubSeq(waiters, p + 1, Len(waiters))
  <2>1. p \in 1 .. n /\ waiters[p] = t /\ n \in Nat
    BY <1>3, Places
  <2>2. waiters' = r
    BY <1>3 DEF Without
  <2>3. /\ DOMAIN r = 1 .. n - 1
        /\ \A i \in 1 .. n - 1 : r[i] = IF i < p THEN waiters[i] ELSE waiters[i + 1]
    <3>1. r = SubSeq(waiters, 1, p - 1) \o SubSeq(waiters, p + 1, Len(waiters))
      OBVIOUS
    <3>2. p \in 1 .. Len(waiters) /\ waiters \in Seq(Task)
      BY <2>1 DEF IInv, GateTypeOK
    <3> HIDE DEF p, r
    <3> QED BY <3>1, <3>2, TakeOut
  <2> HIDE DEF p, r
  <2> DEFINE new(i) == IF i < p THEN i ELSE i - 1
  <2>4. \A i \in 1 .. n : i # p => new(i) \in 1 .. n - 1 /\ r[new(i)] = waiters[i]
    <3>1. ASSUME NEW i \in 1 .. n, i < p PROVE new(i) \in 1 .. n - 1 /\ r[new(i)] = waiters[i]
      BY <2>1, <2>3, <3>1
    <3>2. ASSUME NEW i \in 1 .. n, i > p PROVE new(i) \in 1 .. n - 1 /\ r[new(i)] = waiters[i]
      <4>1. i - 1 \in 1 .. n - 1 /\ ~(i - 1 < p) /\ (i - 1) + 1 = i
        BY <2>1, <3>2
      <4> QED BY <2>1, <2>3, <3>2, <4>1
    <3> QED BY <2>1, <3>1, <3>2
  <2>5. \A i, j \in 1 .. n : i # p /\ j # p => (new(i) < new(j) <=> i < j)
    BY <2>1
  <2>6. \A a \in 1 .. n - 1 : \E i \in 1 .. n : i # p /\ new(i) = a
    <3>1. ASSUME NEW a \in 1 .. n - 1, a < p PROVE \E i \in 1 .. n : i # p /\ new(i) = a
      BY <2>1, <3>1
    <3>2. ASSUME NEW a \in 1 .. n - 1, ~(a < p) PROVE \E i \in 1 .. n : i # p /\ new(i) = a
      <4>1. a + 1 \in 1 .. n /\ a + 1 # p /\ new(a + 1) = a
        BY <2>1, <3>2
      <4> QED BY <4>1
    <3> QED BY <3>1, <3>2
  <2> HIDE DEF new
  <2>7. ASSUME NEW u \in Line, NEW v \in Line
        PROVE  <<u, v>> \in Ahead' <=> <<u, v>> \in Ahead
    <3>1. PICK i \in 1 .. n, j \in 1 .. n : waiters[i] = u /\ waiters[j] = v
      BY Places
    <3>2. i # p /\ j # p
      BY <1>1, <2>1, <3>1
    <3>3. <<u, v>> \in Ahead <=> i < j
      BY <3>1, Places
    <3>4. \A a \in 1 .. n - 1 : /\ r[a] = u => a = new(i)
                                /\ r[a] = v => a = new(j)
      <4>1. ASSUME NEW a \in 1 .. n - 1
            PROVE  (r[a] = u => a = new(i)) /\ (r[a] = v => a = new(j))
        <5>1. PICK b \in 1 .. n : b # p /\ new(b) = a
          BY <2>6
        <5>2. r[a] = waiters[b]
          BY <2>4, <5>1
        <5> QED BY <3>1, <5>1, <5>2, Places
      <4> QED BY <4>1
    <3>5. /\ new(i) \in 1 .. n - 1 /\ new(j) \in 1 .. n - 1
          /\ r[new(i)] = u /\ r[new(j)] = v
      BY <2>4, <3>1, <3>2
    <3>6. <<u, v>> \in Ahead' <=> new(i) < new(j)
      BY <1>1, <2>2, <2>3, <3>4, <3>5 DEF Ahead
    <3> QED BY <2>5, <3>2, <3>3, <3>6
  <2>8. Ahead' = Ahead
    BY <1>1, <2>7 DEF Ahead
  <2> QED BY <1>1, <2>8, PoolStutters
<1> QED BY <1>2, <1>3 DEF Without

LEMMA PoolInit == Init => Pool!Init
<1> SUFFICES ASSUME Init PROVE Pool!Init
  OBVIOUS
<1>1. at = [t \in Task |-> "out"]
  BY DEF Init, GateInit
<1>2. Owners = {} /\ Line = {}
  BY <1>1 DEF Owners, Line
<1>3. Ahead = {}
  BY <1>2 DEF Ahead
<1> QED BY <1>2, <1>3 DEF Pool!Init

LEMMA PoolNext == IInv /\ [Next]_vars => [Pool!Next]_Pool!poolVars
<1> SUFFICES ASSUME IInv, [Next]_vars PROVE Pool!Next \/ UNCHANGED Pool!poolVars
  OBVIOUS
<1>1. CASE UNCHANGED gateVars
  BY <1>1, PoolStutters DEF gateVars, Owners, Line, Ahead
<1>2. ASSUME NEW t \in Task, Arrive(t) PROVE Pool!Next \/ UNCHANGED Pool!poolVars
  <2>1. Enter(t) \/ Enqueue(t) \/ UNCHANGED gateVars
    BY <1>2 DEF Arrive, Reject
  <2> QED BY <1>1, <2>1, EnterPools, EnqueuePools DEF Pool!Next
<1>3. ASSUME NEW S \in SUBSET Task, CutShort(S) PROVE Pool!Next \/ UNCHANGED Pool!poolVars
  BY <1>3, InterruptPools DEF CutShort, Pool!Next
<1>4. ASSUME NEW t \in Task, Deliver(t) PROVE Pool!Next \/ UNCHANGED Pool!poolVars
  <2>1. waiters' = waiters /\ at[t] = "granted" /\ at' = [at EXCEPT ![t] = "holding"]
    BY <1>4 DEF Deliver, Resume
  <2>2. Owners' = Owners /\ Line' = Line
    BY <2>1, Places DEF Owners, Line
  <2> QED BY <2>1, <2>2, PoolStutters DEF Ahead
<1>5. ASSUME NEW t \in Task, GiveUp(t) PROVE Pool!Next \/ UNCHANGED Pool!poolVars
  <2>1. CASE at[t] = "granted" /\ HandOn(t)
    BY <2>1, HandOnPools DEF Owners, Pool!Next
  <2>2. CASE ~(at[t] = "granted" /\ HandOn(t))
    BY <1>5, <2>2, WithdrawPools DEF GiveUp, Abandon
  <2> QED BY <2>1, <2>2
<1>6. ASSUME NEW t \in Task, Leave(t) PROVE Pool!Next \/ UNCHANGED Pool!poolVars
  BY <1>6, HandOnPools DEF Leave, Release, Owners, Pool!Next
<1>7. CASE UNCHANGED vars
  BY <1>1, <1>7 DEF vars, gateVars
<1> QED BY <1>2, <1>3, <1>4, <1>5, <1>6, <1>7 DEF Next

\* The gate is a pool with a line: futures, cancelled entries and the time
\* between a grant and its delivery make no difference to who gets a slot
\* (admission.py:26-67).
THEOREM ImplementsPool == Spec => RefinesSlotPool
<1> QED BY PoolInit, PoolNext, Invariance, PTL DEF Spec, RefinesSlotPool, Pool!Spec
=============================================================================
