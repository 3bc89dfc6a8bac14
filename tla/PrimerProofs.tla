---------------------------- MODULE PrimerProofs ----------------------------
(***************************************************************************)
(* The safety properties of the prefix primer for every set of tasks, keys *)
(* and lease objects.                                                      *)
(***************************************************************************)
EXTENDS PrimerClients, ProofBasics

Queued == {"waiting", "woken", "cancelled"}
Callers(k) == {t \in Task : goal[t] = k}

\* Each element of a sequence occurs once.
Once(s) == \A i, j \in DOMAIN s : s[i] = s[j] => i = j

LockTypeOK == /\ leases \in [Key -> Lease \union {None}]
              /\ users \in [Lease -> Nat]
              /\ locked \in [Lease -> BOOLEAN]
              /\ queue \in [Lease -> Seq(Task)]
              /\ stage \in [Task -> Stage]
              /\ goal \in [Task -> Key \union {None}]
              /\ lease \in [Task -> Lease \union {None}]

\* The local variables of a call, and the lease its key has meanwhile.
Inside == \A t \in Task : IF stage[t] = "out" THEN goal[t] = None /\ lease[t] = None
                          ELSE /\ goal[t] \in Key /\ lease[t] \in Lease
                               /\ leases[goal[t]] = lease[t]

\* A lease belongs to one key, counts the callers of that key, and is as new
\* when it belongs to none.
Distinct == \A k, m \in Key : leases[k] = leases[m] /\ leases[k] # None => k = m
Counted == \A k \in Key : leases[k] # None =>
              /\ IsFiniteSet(Callers(k)) /\ Callers(k) # {}
              /\ users[leases[k]] = Cardinality(Callers(k))
Unused == \A l \in Lease : (\A k \in Key : leases[k] # l) =>
              users[l] = 0 /\ ~locked[l] /\ queue[l] = <<>>

\* A queue holds, once each, the tasks that are suspended on its lock.
Lined == \A l \in Lease :
            /\ Once(queue[l])
            /\ \A t \in Task : t \in ToSet(queue[l]) <=> stage[t] \in Queued /\ lease[t] = l

\* A lock is held by the one task that leads with its lease.
Held == /\ \A l \in Lease : locked[l] <=> \E t \in Task : stage[t] = "leading" /\ lease[t] = l
        /\ \A t, u \in Task : stage[t] = "leading" /\ stage[u] = "leading" /\ lease[t] = lease[u] => t = u

\* A woken task is at the head of the queue of a free lock, and the head of
\* the queue of a free lock is not asleep.
Woke == \A t \in Task : stage[t] = "woken" =>
           ~locked[lease[t]] /\ queue[lease[t]] # <<>> /\ queue[lease[t]][1] = t
HeadUp == \A l \in Lease : ~locked[l] /\ queue[l] # <<>> => stage[queue[l][1]] # "waiting"

LockInv == /\ LockTypeOK /\ Inside /\ Distinct /\ Counted /\ Unused
           /\ Lined /\ Held /\ Woke /\ HeadUp

HintInv == warm \in Seq(Key) /\ Once(warm) /\ stale \subseteq ToSet(warm)

IInv == LockInv /\ HintInv /\ interrupted \subseteq Task /\ scored \subseteq Task

-----------------------------------------------------------------------------
(* Sequences in which each element occurs once. *)

\* r is s without x.
Without(r, s, x) ==
    /\ Once(r)
    /\ ToSet(r) = ToSet(s) \ {x}
    /\ s # <<>> /\ s[1] # x => r # <<>> /\ r[1] = s[1]

\* Taking an element out of such a sequence.
LEMMA RemovedFacts ==
  ASSUME NEW T, NEW s \in Seq(T), NEW p \in 1 .. Len(s), NEW x, s[p] = x,
         Once(s),
         NEW r \in Seq(T), DOMAIN r = 1 .. Len(s) - 1,
         \A i \in 1 .. p - 1 : r[i] = s[i],
         \A i \in p .. Len(s) - 1 : r[i] = s[i + 1]
  PROVE  Without(r, s, x)
<1>1. Len(s) \in Nat /\ DOMAIN s = 1 .. Len(s) /\ p \in Nat /\ 1 <= p /\ p <= Len(s)
  OBVIOUS
<1>2. Once(r)
  <2> DEFINE from(i) == IF p <= i THEN i + 1 ELSE i
  <2>1. \A i \in DOMAIN r : from(i) \in DOMAIN s /\ r[i] = s[from(i)]
    BY <1>1
  <2>2. \A i, j \in DOMAIN r : from(i) = from(j) => i = j
    BY <1>1
  <2> HIDE DEF from
  <2>3. ASSUME NEW i \in DOMAIN r, NEW j \in DOMAIN r, r[i] = r[j] PROVE i = j
    <3>1. from(i) \in DOMAIN s /\ from(j) \in DOMAIN s /\ s[from(i)] = s[from(j)]
      BY <2>1, <2>3
    <3>2. from(i) = from(j)
      BY <3>1 DEF Once
    <3> QED BY <2>2, <3>2
  <2> QED BY <2>3 DEF Once
<1>3. \A i \in DOMAIN r : r[i] # x /\ \E j \in DOMAIN s : s[j] = r[i]
  <2> SUFFICES ASSUME NEW i \in DOMAIN r
               PROVE  r[i] # x /\ \E j \in DOMAIN s : s[j] = r[i]
    OBVIOUS
  <2>1. CASE i < p
    <3>1. i \in DOMAIN s /\ i # p /\ r[i] = s[i]
      BY <1>1, <2>1
    <3> QED BY <1>1, <3>1 DEF Once
  <2>2. CASE p <= i
    <3>1. i + 1 \in DOMAIN s /\ i + 1 # p /\ r[i] = s[i + 1]
      BY <1>1, <2>2
    <3> QED BY <1>1, <3>1 DEF Once
  <2> QED BY <2>1, <2>2
<1>4. \A j \in DOMAIN s : s[j] # x => \E i \in DOMAIN r : r[i] = s[j]
  <2> SUFFICES ASSUME NEW j \in DOMAIN s, s[j] # x
               PROVE  \E i \in DOMAIN r : r[i] = s[j]
    OBVIOUS
  <2>1. CASE j < p
    <3>1. j \in DOMAIN r /\ r[j] = s[j]
      BY <1>1, <2>1
    <3> QED BY <3>1
  <2>2. CASE p < j
    <3>1. j - 1 \in DOMAIN r /\ r[j - 1] = s[(j - 1) + 1] /\ (j - 1) + 1 = j
      BY <1>1, <2>2
    <3> QED BY <3>1
  <2> QED BY <1>1, <2>1, <2>2
<1>5. s # <<>> /\ s[1] # x => r # <<>> /\ r[1] = s[1]
  <2> SUFFICES ASSUME s # <<>>, s[1] # x PROVE r # <<>> /\ r[1] = s[1]
    OBVIOUS
  <2>1. 1 < p
    BY <1>1
  <2>2. 1 \in DOMAIN r /\ r[1] = s[1]
    BY <1>1, <2>1
  <2> QED BY <2>2
<1>6. ToSet(r) = ToSet(s) \ {x}
  BY <1>3, <1>4 DEF ToSet
<1> QED BY <1>2, <1>5, <1>6 DEF Without

LEMMA TakenFacts ==
  ASSUME NEW T, NEW s \in Seq(T), NEW p \in 1 .. Len(s), NEW x, s[p] = x,
         Once(s),
         NEW r, r = SubSeq(s, 1, p - 1) \o SubSeq(s, p + 1, Len(s))
  PROVE  /\ r \in Seq(T)
         /\ Without(r, s, x)
<1>1. TakenOut(r, T, s, p)
  BY TakeOutParts, Zenon
<1>2. /\ r \in Seq(T) /\ DOMAIN r = 1 .. Len(s) - 1
      /\ \A i \in 1 .. p - 1 : r[i] = s[i]
      /\ \A i \in p .. Len(s) - 1 : r[i] = s[i + 1]
  BY <1>1, Zenon DEF TakenOut
<1> QED BY <1>2, RemovedFacts, Zenon

LEMMA DroppedFacts ==
  ASSUME NEW T, NEW s \in Seq(T), NEW x, Once(s)
  PROVE  /\ Dropped(s, x) \in Seq(T)
         /\ Without(Dropped(s, x), s, x)
<1>1. CASE x \notin ToSet(s)
  <2>1. Dropped(s, x) = s
    BY <1>1 DEF Dropped
  <2> QED BY <1>1, <2>1 DEF Without
<1>2. CASE x \in ToSet(s)
  <2>1. PICK p \in DOMAIN s : p = CHOOSE i \in DOMAIN s : s[i] = x
    BY <1>2 DEF ToSet
  <2>2. p \in 1 .. Len(s) /\ s[p] = x
    BY <1>2, <2>1 DEF ToSet
  <2>3. PICK r : r = Dropped(s, x)
    OBVIOUS
  <2>4. r = SubSeq(s, 1, p - 1) \o SubSeq(s, p + 1, Len(s))
    BY <1>2, <2>1, <2>3 DEF Dropped, RemoveAt
  <2>5. r \in Seq(T) /\ Without(r, s, x)
    BY <2>2, <2>4, TakenFacts, Zenon
  <2> QED BY <2>3, <2>5
<1> QED BY <1>1, <1>2

LEMMA AppendedFacts ==
  ASSUME NEW T, NEW s \in Seq(T), NEW x \in T, Once(s)
  PROVE  /\ Append(s, x) \in Seq(T)
         /\ ToSet(Append(s, x)) = ToSet(s) \union {x}
         /\ x \notin ToSet(s) => Once(Append(s, x))
         /\ Append(s, x) # <<>> /\ Append(s, x)[1] = IF s = <<>> THEN x ELSE s[1]
<1> DEFINE r == Append(s, x)
<1>1. /\ r \in Seq(T) /\ Len(s) \in Nat
      /\ DOMAIN s = 1 .. Len(s) /\ DOMAIN r = 1 .. Len(s) + 1
      /\ r[Len(s) + 1] = x /\ \A i \in DOMAIN s : r[i] = s[i]
  OBVIOUS
<1> HIDE DEF r
<1>2. ToSet(r) = ToSet(s) \union {x}
  BY <1>1 DEF ToSet
<1>3. ASSUME x \notin ToSet(s), NEW i \in DOMAIN r, NEW j \in DOMAIN r, r[i] = r[j]
      PROVE  i = j
  BY <1>1, <1>3 DEF Once, ToSet
<1>4. r # <<>> /\ r[1] = IF s = <<>> THEN x ELSE s[1]
  BY <1>1
<1> QED BY <1>1, <1>2, <1>3, <1>4 DEF r, Once

LEMMA HeadFacts ==
  ASSUME NEW T, NEW s \in Seq(T), s # <<>>
  PROVE  Head(s) = s[1] /\ s[1] \in T /\ s[1] \in ToSet(s)
BY DEF ToSet

LEMMA EmptyFacts ==
  ASSUME NEW T, NEW s \in Seq(T), ToSet(s) = {}
  PROVE  s = <<>>
BY HeadFacts

\* The callers of one key.
LEMMA CallersFacts ==
  ASSUME NEW S, IsFiniteSet(S), NEW t
  PROVE  /\ Cardinality(S) \in Nat
         /\ t \in S => /\ IsFiniteSet(S \ {t})
                       /\ Cardinality(S \ {t}) = Cardinality(S) - 1
                       /\ Cardinality(S) >= 1
                       /\ Cardinality(S) = 1 => S = {t}
                       /\ S = {t} => Cardinality(S) = 1
         /\ t \notin S => /\ IsFiniteSet(S \union {t})
                          /\ Cardinality(S \union {t}) = Cardinality(S) + 1
<1>1. Cardinality(S) \in Nat
  BY FS_CardinalityType
<1>2. ASSUME t \in S
      PROVE  /\ IsFiniteSet(S \ {t})
             /\ Cardinality(S \ {t}) = Cardinality(S) - 1
             /\ Cardinality(S) >= 1
             /\ Cardinality(S) = 1 => S = {t}
             /\ S = {t} => Cardinality(S) = 1
  <2>1. IsFiniteSet(S \ {t}) /\ Cardinality(S \ {t}) = Cardinality(S) - 1
    BY <1>2, FS_RemoveElement
  <2>2. Cardinality(S \ {t}) \in Nat
    BY <2>1, FS_CardinalityType
  <2>3. Cardinality(S) >= 1
    BY <1>1, <2>1, <2>2
  <2>4. Cardinality(S) = 1 => S \ {t} = {}
    BY <2>1, FS_EmptySet
  <2>5. S = {t} => Cardinality(S) = 1
    BY FS_Singleton
  <2> QED BY <1>2, <2>1, <2>3, <2>4, <2>5
<1>3. ASSUME t \notin S
      PROVE  IsFiniteSet(S \union {t}) /\ Cardinality(S \union {t}) = Cardinality(S) + 1
  BY <1>3, FS_AddElement
<1> QED BY <1>1, <1>2, <1>3

-----------------------------------------------------------------------------
\* Two calls with one lease are for one key, and are counted.
LEMMA SameLease ==
  ASSUME LockInv, NEW t \in Task, NEW u \in Task, stage[t] # "out", stage[u] # "out",
         lease[t] = lease[u]
  PROVE  goal[t] = goal[u] /\ t \in Callers(goal[t]) /\ u \in Callers(goal[t])
<1>1. /\ goal[t] \in Key /\ goal[u] \in Key
      /\ leases[goal[t]] = leases[goal[u]] /\ leases[goal[t]] # None
  BY PrimerAssumption DEF LockInv, Inside
<1>2. goal[t] = goal[u]
  BY <1>1 DEF LockInv, Distinct
<1> QED BY <1>2 DEF Callers

\* A call leaves prime(): a leader releases the lock, a suspended task passes
\* on the wake-up it may have had.
LEMMA DepartInv ==
  ASSUME LockInv, NEW t \in Task, NEW held, Depart(t, held),
         \/ stage[t] = "leading" /\ held = FALSE
         \/ stage[t] \in {"woken", "cancelled"} /\ held = locked[lease[t]]
  PROVE  LockInv'
<1> DEFINE l == lease[t]
           k == goal[t]
           q == Dropped(queue[l], t)
<1>1. /\ stage[t] # "out" /\ l \in Lease /\ k \in Key /\ leases[k] = l /\ l # None
      /\ held \in BOOLEAN
  BY PrimerAssumption DEF LockInv, Inside, LockTypeOK
<1>2. /\ IsFiniteSet(Callers(k)) /\ t \in Callers(k)
      /\ users[l] = Cardinality(Callers(k))
  BY <1>1 DEF LockInv, Counted, Callers
<1>3. /\ users[l] \in Nat /\ users[l] >= 1
      /\ users[l] = 1 => Callers(k) = {t}
      /\ IsFiniteSet(Callers(k) \ {t}) /\ Cardinality(Callers(k) \ {t}) = users[l] - 1
      /\ Callers(k) = {t} => users[l] = 1
  BY <1>2, CallersFacts
<1>4. /\ queue[l] \in Seq(Task) /\ Once(queue[l])
  BY <1>1 DEF LockInv, LockTypeOK, Lined
<1>5. /\ q \in Seq(Task) /\ Without(q, queue[l], t)
  BY <1>4, DroppedFacts
<1>6. /\ queue' = [queue EXCEPT ![l] = q]
      /\ locked' = [locked EXCEPT ![l] = held]
      /\ users' = [users EXCEPT ![l] = @ - 1]
      /\ leases' = [leases EXCEPT ![k] = IF users[l] = 1 THEN None ELSE @]
      /\ stage' = [u \in Task |-> IF u = t THEN "out"
                                  ELSE IF u \in Woken(q, held) THEN "woken" ELSE stage[u]]
      /\ goal' = [goal EXCEPT ![t] = None]
      /\ lease' = [lease EXCEPT ![t] = None]
  BY DEF Depart
<1> HIDE DEF l, k, q
<1>7. \A u \in Woken(q, held) :
         /\ u \in Task /\ u # t /\ stage[u] = "waiting" /\ lease[u] = l
         /\ ~held /\ q # <<>> /\ q[1] = u
  <2> SUFFICES ASSUME NEW u \in Woken(q, held)
               PROVE  /\ u \in Task /\ u # t /\ stage[u] = "waiting" /\ lease[u] = l
                      /\ ~held /\ q # <<>> /\ q[1] = u
    OBVIOUS
  <2>1. ~held /\ q # <<>> /\ u = Head(q) /\ stage[u] = "waiting"
    BY DEF Woken
  <2>2. u = q[1] /\ u \in Task /\ u \in ToSet(q)
    BY <1>5, <2>1, HeadFacts
  <2>3. u \in ToSet(queue[l]) /\ u # t
    BY <1>5, <2>2 DEF Without
  <2>4. lease[u] = l
    BY <1>1, <2>2, <2>3 DEF LockInv, Lined
  <2> QED BY <2>1, <2>2, <2>3, <2>4
<1>8. \A u \in Task : u # t => /\ stage'[u] \in {"woken", stage[u]}
                               /\ stage'[u] # stage[u] => u \in Woken(q, held)
                               /\ goal'[u] = goal[u] /\ lease'[u] = lease[u]
  BY <1>6 DEF LockInv, LockTypeOK
<1>9. stage'[t] = "out" /\ goal'[t] = None /\ lease'[t] = None
  BY <1>6 DEF LockInv, LockTypeOK
<1>10. \A x \in Lease : IF x = l THEN queue'[x] = q /\ locked'[x] = held /\ users'[x] = users[x] - 1
                                 ELSE queue'[x] = queue[x] /\ locked'[x] = locked[x] /\ users'[x] = users[x]
  BY <1>1, <1>6 DEF LockInv, LockTypeOK
<1>11. \A m \in Key : leases'[m] = IF m = k /\ users[l] = 1 THEN None ELSE leases[m]
  BY <1>1, <1>6 DEF LockInv, LockTypeOK
<1>12. \A m \in Key : Callers(m)' = Callers(m) \ {t}
  BY <1>8, <1>9, PrimerAssumption DEF Callers
<1>13. LockTypeOK'
  <2>1. users[l] - 1 \in Nat
    BY <1>3
  <2>2. stage' \in [Task -> Stage]
    BY <1>6 DEF LockInv, LockTypeOK, Stage
  <2> QED BY <1>1, <1>5, <1>6, <2>1, <2>2 DEF LockInv, LockTypeOK
<1>14. Inside'
  <2> SUFFICES ASSUME NEW u \in Task
               PROVE  IF stage'[u] = "out" THEN goal'[u] = None /\ lease'[u] = None
                      ELSE /\ goal'[u] \in Key /\ lease'[u] \in Lease
                           /\ leases'[goal'[u]] = lease'[u]
    BY DEF Inside
  <2>1. CASE u = t
    BY <1>9, <2>1
  <2>2. CASE u # t /\ stage[u] = "out"
    BY <1>7, <1>8, <2>2 DEF LockInv, Inside
  <2>3. CASE u # t /\ stage[u] # "out"
    <3>1. stage'[u] # "out" /\ goal'[u] = goal[u] /\ lease'[u] = lease[u]
      BY <1>8, <2>3
    <3>2. goal[u] \in Key /\ lease[u] \in Lease /\ leases[goal[u]] = lease[u]
      BY <2>3 DEF LockInv, Inside
    <3>3. goal[u] = k => users[l] # 1
      BY <1>3, <2>3 DEF Callers
    <3> QED BY <1>11, <3>1, <3>2, <3>3
  <2> QED BY <2>1, <2>2, <2>3
<1>15. Distinct'
  BY <1>11 DEF LockInv, Distinct
<1>16. Counted'
  <2> SUFFICES ASSUME NEW m \in Key, leases'[m] # None
               PROVE  /\ IsFiniteSet(Callers(m)') /\ Callers(m)' # {}
                      /\ users'[leases'[m]] = Cardinality(Callers(m)')
    BY DEF Counted
  <2>1. CASE m = k
    <3>1. users[l] # 1 /\ leases'[m] = l
      BY <1>1, <1>11, <2>1
    <3>2. users'[l] = users[l] - 1 /\ Callers(m)' = Callers(k) \ {t}
      BY <1>1, <1>10, <1>12, <2>1
    <3> QED BY <1>2, <1>3, <3>1, <3>2
  <2>2. CASE m # k
    <3>1. leases'[m] = leases[m] /\ leases[m] # l /\ leases[m] \in Lease
      BY <1>1, <1>11, <2>2 DEF LockInv, LockTypeOK, Distinct
    <3>2. users'[leases[m]] = users[leases[m]]
      BY <1>10, <3>1
    <3>3. Callers(m)' = Callers(m)
      BY <1>12, <2>2 DEF Callers, k
    <3> QED BY <3>1, <3>2, <3>3 DEF LockInv, Counted
  <2> QED BY <2>1, <2>2
<1>17. Unused'
  <2> SUFFICES ASSUME NEW x \in Lease, \A m \in Key : leases'[m] # x
               PROVE  users'[x] = 0 /\ ~locked'[x] /\ queue'[x] = <<>>
    BY DEF Unused
  <2>1. CASE x = l
    <3>1. users[l] = 1 /\ Callers(k) = {t}
      BY <1>1, <1>3, <1>11, <2>1
    <3>2. \A u \in Task : stage[u] # "out" /\ lease[u] = l => u = t
      BY <1>1, <3>1, SameLease DEF l, k
    <3>3. ~held
      <4> SUFFICES ASSUME held PROVE FALSE
        OBVIOUS
      <4>1. locked[l] /\ stage[t] # "leading"
        BY DEF l
      <4>2. PICK u \in Task : stage[u] = "leading" /\ lease[u] = l
        BY <1>1, <4>1 DEF LockInv, Held
      <4> QED BY <3>2, <4>1, <4>2
    <3>4. ToSet(q) = {}
      <4> SUFFICES ASSUME NEW u \in ToSet(q) PROVE FALSE
        OBVIOUS
      <4>1. u \in ToSet(queue[l]) /\ u # t
        BY <1>5 DEF Without
      <4>2. u \in Task
        BY <1>4, <4>1 DEF ToSet
      <4>3. stage[u] \in Queued /\ lease[u] = l
        BY <1>1, <4>1, <4>2 DEF LockInv, Lined
      <4> QED BY <3>2, <4>1, <4>2, <4>3 DEF Queued
    <3>5. q = <<>>
      BY <1>5, <3>4, EmptyFacts
    <3> QED BY <1>1, <1>10, <2>1, <3>1, <3>3, <3>5
  <2>2. CASE x # l
    <3>1. \A m \in Key : leases[m] # x
      BY <1>1, <1>11, <2>2
    <3> QED BY <1>10, <2>2, <3>1 DEF LockInv, Unused
  <2> QED BY <2>1, <2>2
<1>18. Lined'
  <2> SUFFICES ASSUME NEW x \in Lease
               PROVE  /\ Once(queue'[x])
                      /\ \A u \in Task : u \in ToSet(queue'[x]) <=> stage'[u] \in Queued /\ lease'[u] = x
    BY DEF Lined
  <2>1. Once(queue'[x])
    BY <1>5, <1>10 DEF Without, LockInv, Lined
  <2>2. \A u \in Task : u # t => (stage'[u] \in Queued <=> stage[u] \in Queued)
    BY <1>7, <1>8 DEF Queued
  <2>3. t \notin ToSet(queue'[x])
    <3>1. CASE x = l
      BY <1>5, <1>10, <3>1 DEF Without
    <3>2. CASE x # l
      BY <1>10, <3>2 DEF LockInv, Lined, l
    <3> QED BY <3>1, <3>2
  <2>4. \A u \in Task : u # t => (u \in ToSet(queue'[x]) <=> u \in ToSet(queue[x]))
    BY <1>5, <1>10 DEF Without
  <2>5. \A u \in Task : u \in ToSet(queue[x]) <=> stage[u] \in Queued /\ lease[u] = x
    BY DEF LockInv, Lined
  <2>6. ~(stage'[t] \in Queued)
    BY <1>9 DEF Queued
  <2> QED BY <1>8, <2>1, <2>2, <2>3, <2>4, <2>5, <2>6
<1>19. \A u \in Task : stage'[u] = "leading" <=> u # t /\ stage[u] = "leading"
  BY <1>7, <1>8, <1>9
<1>20. Held'
  <2>1. \A u, v \in Task : stage'[u] = "leading" /\ stage'[v] = "leading" /\ lease'[u] = lease'[v] => u = v
    BY <1>8, <1>19 DEF LockInv, Held
  <2>2. ASSUME NEW x \in Lease
        PROVE  locked'[x] <=> \E u \in Task : stage'[u] = "leading" /\ lease'[u] = x
    <3>1. (\E u \in Task : stage'[u] = "leading" /\ lease'[u] = x)
             <=> \E u \in Task : u # t /\ stage[u] = "leading" /\ lease[u] = x
      BY <1>8, <1>19
    <3>2. locked[x] <=> \E u \in Task : stage[u] = "leading" /\ lease[u] = x
      BY DEF LockInv, Held
    <3>3. CASE x # l
      BY <1>10, <3>1, <3>2, <3>3 DEF l
    <3>4. CASE x = l /\ stage[t] = "leading"
      <4>1. ~locked'[x]
        BY <1>10, <3>4
      <4>2. \A u \in Task : stage[u] = "leading" /\ lease[u] = x => u = t
        BY <3>4 DEF LockInv, Held, l
      <4> QED BY <3>1, <4>1, <4>2
    <3>5. CASE x = l /\ stage[t] # "leading"
      <4>1. locked'[x] = locked[x]
        BY <1>10, <3>5 DEF l
      <4> QED BY <3>1, <3>2, <3>5, <4>1
    <3> QED BY <3>3, <3>4, <3>5
  <2> QED BY <2>1, <2>2 DEF Held
<1>21. Woke'
  <2> SUFFICES ASSUME NEW u \in Task, stage'[u] = "woken"
               PROVE  ~locked'[lease'[u]] /\ queue'[lease'[u]] # <<>> /\ queue'[lease'[u]][1] = u
    BY DEF Woke
  <2>1. u # t /\ lease'[u] = lease[u]
    BY <1>8, <1>9
  <2>2. CASE u \in Woken(q, held)
    BY <1>1, <1>7, <1>10, <2>1, <2>2
  <2>3. CASE u \notin Woken(q, held)
    <3>1. stage[u] = "woken"
      BY <1>8, <2>1, <2>3
    <3>2. ~locked[lease[u]] /\ queue[lease[u]] # <<>> /\ queue[lease[u]][1] = u /\ lease[u] \in Lease
      BY <3>1 DEF LockInv, Woke, Inside
    <3>3. CASE lease[u] # l
      BY <1>10, <2>1, <3>2, <3>3
    <3>4. CASE lease[u] = l
      <4>1. stage[t] # "leading"
        BY <1>1, <3>2, <3>4 DEF LockInv, Held, l
      <4>2. ~held
        BY <3>2, <3>4, <4>1 DEF l
      <4>3. q # <<>> /\ q[1] = u
        BY <1>5, <2>1, <3>2, <3>4 DEF Without
      <4> QED BY <1>10, <2>1, <3>2, <3>4, <4>2, <4>3
    <3> QED BY <3>3, <3>4
  <2> QED BY <2>2, <2>3
<1>22. HeadUp'
  <2> SUFFICES ASSUME NEW x \in Lease, ~locked'[x], queue'[x] # <<>>
               PROVE  stage'[queue'[x][1]] # "waiting"
    BY DEF HeadUp
  <2>1. queue'[x] \in Seq(Task)
    BY <1>13 DEF LockTypeOK
  <2>2. PICK u \in Task : u = queue'[x][1] /\ u = Head(queue'[x]) /\ u \in ToSet(queue'[x])
    BY <2>1, HeadFacts
  <2>3. CASE x = l
    <3>1. queue'[x] = q /\ ~held
      BY <1>10, <2>3
    <3>2. stage[u] = "waiting" => u \in Woken(q, held)
      BY <2>2, <3>1 DEF Woken
    <3> QED BY <1>6, <1>8, <1>9, <2>2, <3>2
  <2>4. CASE x # l
    <3>1. stage[u] # "waiting"
      BY <1>10, <2>2, <2>4 DEF LockInv, HeadUp
    <3> QED BY <1>8, <1>9, <2>2, <3>1
  <2> QED BY <2>3, <2>4
<1> QED BY <1>13, <1>14, <1>15, <1>16, <1>17, <1>18, <1>20, <1>21, <1>22 DEF LockInv

-----------------------------------------------------------------------------
\* A cold key is joined: its lease is new, or the one its callers share.
LEMMA JoinInv ==
  ASSUME LockInv, NEW t \in Task, NEW k \in Key, Join(t, k)
  PROVE  LockInv'
<1>1. PICK l \in Lease :
         /\ LeaseFor(k, l)
         /\ leases' = [leases EXCEPT ![k] = l]
         /\ users' = [users EXCEPT ![l] = @ + 1]
         /\ goal' = [goal EXCEPT ![t] = k]
         /\ lease' = [lease EXCEPT ![t] = l]
         /\ \/ /\ LockIsFree(l)
               /\ locked' = [locked EXCEPT ![l] = TRUE]
               /\ stage' = [stage EXCEPT ![t] = "leading"]
               /\ UNCHANGED queue
            \/ /\ ~LockIsFree(l)
               /\ queue' = [queue EXCEPT ![l] = Append(@, t)]
               /\ stage' = [stage EXCEPT ![t] = "waiting"]
               /\ UNCHANGED locked
  BY DEF Join
<1> DEFINE lead == stage'[t] = "leading"
<1>2. /\ stage[t] = "out" /\ goal[t] = None /\ lease[t] = None
      /\ l # None /\ k # None
  BY PrimerAssumption DEF Join, LockInv, Inside
<1>3. /\ \A u \in Task : u # t => stage'[u] = stage[u] /\ goal'[u] = goal[u] /\ lease'[u] = lease[u]
      /\ stage'[t] \in {"leading", "waiting"} /\ goal'[t] = k /\ lease'[t] = l
  BY <1>1 DEF LockInv, LockTypeOK
<1>4. \A x \in Lease : /\ users'[x] = IF x = l THEN users[x] + 1 ELSE users[x]
                       /\ x # l => queue'[x] = queue[x] /\ locked'[x] = locked[x]
  BY <1>1 DEF LockInv, LockTypeOK
<1>5. \A m \in Key : leases'[m] = IF m = k THEN l ELSE leases[m]
  BY <1>1 DEF LockInv, LockTypeOK
<1>6. queue[l] \in Seq(Task) /\ Once(queue[l]) /\ t \notin ToSet(queue[l])
  BY <1>2 DEF LockInv, LockTypeOK, Lined
<1>8. \/ lead /\ LockIsFree(l) /\ locked'[l] = TRUE /\ queue'[l] = queue[l]
      \/ stage'[t] = "waiting" /\ ~LockIsFree(l) /\ locked'[l] = locked[l] /\ queue'[l] = Append(queue[l], t)
  BY <1>1 DEF LockInv, LockTypeOK
<1> HIDE DEF lead
<1>9. \/ leases[k] = l
      \/ /\ leases[k] = None /\ \A m \in Key : leases[m] # l
         /\ \A u \in Task : lease[u] # l
         /\ users[l] = 0 /\ ~locked[l] /\ queue[l] = <<>>
  BY <1>1 DEF LeaseFor, Unreferenced, LockInv, Unused
<1>10. \A m \in Key : Callers(m)' = IF m = k THEN Callers(m) \union {t} ELSE Callers(m)
  BY <1>2, <1>3, PrimerAssumption DEF Callers
<1>11. t \notin Callers(k)
  BY <1>2 DEF Callers
<1>12. leases[k] = None => Callers(k) = {}
  <2> SUFFICES ASSUME leases[k] = None, NEW u \in Callers(k) PROVE FALSE
    OBVIOUS
  <2>1. u \in Task /\ goal[u] = k
    BY DEF Callers
  <2>2. stage[u] # "out"
    BY <1>2, <2>1 DEF LockInv, Inside
  <2>3. leases[k] \in Lease
    BY <2>1, <2>2 DEF LockInv, Inside
  <2> QED BY <2>3, PrimerAssumption
<1>13. LockTypeOK'
  <2>1. stage' \in [Task -> Stage]
    BY <1>1 DEF LockInv, LockTypeOK, Stage
  <2>2. queue' \in [Lease -> Seq(Task)]
    <3>1. Append(queue[l], t) \in Seq(Task)
      BY <1>6, AppendedFacts
    <3> QED BY <1>1, <3>1 DEF LockInv, LockTypeOK
  <2>3. users' \in [Lease -> Nat]
    BY <1>1 DEF LockInv, LockTypeOK
  <2> QED BY <1>1, <2>1, <2>2, <2>3 DEF LockInv, LockTypeOK
<1>14. Inside'
  <2> SUFFICES ASSUME NEW u \in Task
               PROVE  IF stage'[u] = "out" THEN goal'[u] = None /\ lease'[u] = None
                      ELSE /\ goal'[u] \in Key /\ lease'[u] \in Lease
                           /\ leases'[goal'[u]] = lease'[u]
    BY DEF Inside
  <2>1. CASE u = t
    BY <1>3, <1>5, <2>1
  <2>2. CASE u # t /\ stage[u] = "out"
    BY <1>3, <2>2 DEF LockInv, Inside
  <2>3. CASE u # t /\ stage[u] # "out"
    <3>1. goal[u] \in Key /\ lease[u] \in Lease /\ leases[goal[u]] = lease[u]
      BY <2>3 DEF LockInv, Inside
    <3>2. goal[u] = k => leases[k] = l
      BY <1>12, <1>9, <2>3 DEF Callers
    <3> QED BY <1>3, <1>5, <2>3, <3>1, <3>2
  <2> QED BY <2>1, <2>2, <2>3
<1>15. Distinct'
  <2> SUFFICES ASSUME NEW m \in Key, NEW n \in Key, leases'[m] = leases'[n], leases'[m] # None
               PROVE  m = n
    BY DEF Distinct
  <2>1. \A j \in Key : leases[j] = l => j = k
    BY <1>2, <1>9 DEF LockInv, Distinct
  <2> QED BY <1>5, <2>1 DEF LockInv, Distinct
<1>16. Counted'
  <2> SUFFICES ASSUME NEW m \in Key, leases'[m] # None
               PROVE  /\ IsFiniteSet(Callers(m)') /\ Callers(m)' # {}
                      /\ users'[leases'[m]] = Cardinality(Callers(m)')
    BY DEF Counted
  <2>1. CASE m = k
    <3>1. IsFiniteSet(Callers(k)) /\ users[l] = Cardinality(Callers(k))
      BY <1>2, <1>9, <1>12, FS_EmptySet DEF LockInv, Counted
    <3>2. IsFiniteSet(Callers(k) \union {t}) /\ Cardinality(Callers(k) \union {t}) = users[l] + 1
      BY <1>11, <3>1, CallersFacts
    <3> QED BY <1>4, <1>5, <1>10, <2>1, <3>2
  <2>2. CASE m # k
    <3>1. leases'[m] = leases[m] /\ leases[m] # l /\ leases[m] \in Lease
      BY <1>2, <1>5, <1>9, <2>2 DEF LockInv, LockTypeOK, Distinct
    <3> QED BY <1>4, <1>10, <2>2, <3>1 DEF LockInv, Counted
  <2> QED BY <2>1, <2>2
<1>17. Unused'
  <2> SUFFICES ASSUME NEW x \in Lease, \A m \in Key : leases'[m] # x
               PROVE  users'[x] = 0 /\ ~locked'[x] /\ queue'[x] = <<>>
    BY DEF Unused
  <2>1. x # l /\ x # None
    BY <1>5, PrimerAssumption
  <2>2. \A m \in Key : leases[m] # x
    BY <1>5, <1>9, <2>1
  <2> QED BY <1>4, <2>1, <2>2 DEF LockInv, Unused
<1>18. Lined'
  <2> SUFFICES ASSUME NEW x \in Lease
               PROVE  /\ Once(queue'[x])
                      /\ \A u \in Task : u \in ToSet(queue'[x]) <=> stage'[u] \in Queued /\ lease'[u] = x
    BY DEF Lined
  <2>1. /\ Once(queue[x])
        /\ \A u \in Task : u \in ToSet(queue[x]) <=> stage[u] \in Queued /\ lease[u] = x
    BY DEF LockInv, Lined
  <2>2. ~(stage[t] \in Queued)
    BY <1>2 DEF Queued
  <2>3. CASE x # l
    BY <1>3, <1>4, <2>1, <2>2, <2>3
  <2>4. CASE x = l /\ lead
    <3>1. queue'[x] = queue[x] /\ stage'[t] \notin Queued
      BY <1>8, <2>4 DEF lead, Queued
    <3> QED BY <1>3, <2>1, <2>2, <3>1
  <2>5. CASE x = l /\ ~lead
    <3>1. queue'[x] = Append(queue[x], t) /\ stage'[t] \in Queued
      BY <1>8, <2>5 DEF lead, Queued
    <3>2. Once(queue'[x]) /\ ToSet(queue'[x]) = ToSet(queue[x]) \union {t}
      BY <1>6, <2>5, <3>1, AppendedFacts
    <3> QED BY <1>3, <2>1, <2>5, <3>1, <3>2
  <2> QED BY <2>3, <2>4, <2>5
<1>19. Held'
  <2>1. lead => ~locked[l] /\ \A u \in Task : ~(stage[u] = "leading" /\ lease[u] = l)
    BY <1>8 DEF lead, LockIsFree, LockInv, Held
  <2>2. \A u, v \in Task : stage'[u] = "leading" /\ stage'[v] = "leading" /\ lease'[u] = lease'[v] => u = v
    BY <1>3, <2>1 DEF LockInv, Held, lead
  <2>3. ASSUME NEW x \in Lease
        PROVE  locked'[x] <=> \E u \in Task : stage'[u] = "leading" /\ lease'[u] = x
    <3>1. locked[x] <=> \E u \in Task : stage[u] = "leading" /\ lease[u] = x
      BY DEF LockInv, Held
    <3>2. CASE x = l /\ lead
      BY <1>3, <1>8, <3>2 DEF lead
    <3>3. CASE ~(x = l /\ lead)
      <4>1. locked'[x] = locked[x]
        BY <1>4, <1>8, <3>3 DEF lead
      <4> QED BY <1>2, <1>3, <3>1, <3>3, <4>1 DEF lead
    <3> QED BY <3>2, <3>3
  <2> QED BY <2>2, <2>3 DEF Held
<1>20. Woke'
  <2> SUFFICES ASSUME NEW u \in Task, stage'[u] = "woken"
               PROVE  ~locked'[lease'[u]] /\ queue'[lease'[u]] # <<>> /\ queue'[lease'[u]][1] = u
    BY DEF Woke
  <2>1. u # t /\ stage[u] = "woken" /\ lease'[u] = lease[u]
    BY <1>3
  <2>2. ~locked[lease[u]] /\ queue[lease[u]] # <<>> /\ queue[lease[u]][1] = u /\ lease[u] \in Lease
    BY <2>1 DEF LockInv, Woke, Inside
  <2>3. CASE lease[u] # l
    BY <1>4, <2>1, <2>2, <2>3
  <2>4. CASE lease[u] = l
    <3>1. ~LockIsFree(l)
      BY <2>1, <2>2, <2>4, <1>6 DEF LockIsFree
    <3>2. locked'[l] = locked[l] /\ queue'[l] = Append(queue[l], t)
      BY <1>8, <3>1
    <3>3. queue'[l] # <<>> /\ queue'[l][1] = u
      BY <1>6, <2>2, <2>4, <3>2, AppendedFacts
    <3> QED BY <2>1, <2>2, <2>4, <3>2, <3>3
  <2> QED BY <2>3, <2>4
<1>21. HeadUp'
  <2> SUFFICES ASSUME NEW x \in Lease, ~locked'[x], queue'[x] # <<>>
               PROVE  stage'[queue'[x][1]] # "waiting"
    BY DEF HeadUp
  <2>1. queue'[x][1] = queue[x][1] /\ queue[x] # <<>> /\ ~locked[x]
    <3>1. CASE x # l
      BY <1>4, <3>1
    <3>2. CASE x = l
      <4>1. ~LockIsFree(l) /\ ~locked[l] /\ queue'[l] = Append(queue[l], t)
        BY <1>8, <3>2
      <4>2. queue[l] # <<>>
        BY <4>1, <1>6 DEF LockIsFree
      <4> QED BY <1>6, <3>2, <4>1, <4>2, AppendedFacts
    <3> QED BY <3>1, <3>2
  <2>2. PICK u \in Task : u = queue[x][1] /\ u \in ToSet(queue[x])
    BY <2>1, HeadFacts DEF LockInv, LockTypeOK
  <2>3. stage[u] # "waiting" /\ stage[u] \in Queued
    BY <2>1, <2>2 DEF LockInv, HeadUp, Lined
  <2>4. u # t
    BY <1>2, <2>3 DEF Queued
  <2> QED BY <1>3, <2>1, <2>2, <2>3, <2>4
<1> QED BY <1>13, <1>14, <1>15, <1>16, <1>17, <1>18, <1>19, <1>20, <1>21 DEF LockInv

-----------------------------------------------------------------------------
\* The head of the queue takes the free lock.
LEMMA TakeOverInv ==
  ASSUME LockInv, NEW t \in Task, TakeOver(t)
  PROVE  LockInv'
<1> DEFINE l == lease[t]
           q == Dropped(queue[l], t)
<1>1. /\ stage[t] = "woken" /\ l \in Lease
      /\ queue' = [queue EXCEPT ![l] = q]
      /\ locked' = [locked EXCEPT ![l] = TRUE]
      /\ stage' = [stage EXCEPT ![t] = "leading"]
      /\ UNCHANGED <<leases, users, goal, lease>>
  BY DEF TakeOver, LockInv, Inside
<1>2. ~locked[l] /\ queue[l] # <<>> /\ queue[l][1] = t
  BY <1>1 DEF LockInv, Woke
<1>3. q \in Seq(Task) /\ Without(q, queue[l], t)
  BY <1>1, DroppedFacts DEF LockInv, LockTypeOK, Lined
<1> HIDE DEF q
<1>4. /\ \A u \in Task : u # t => stage'[u] = stage[u]
      /\ stage'[t] = "leading"
      /\ \A x \in Lease : IF x = l THEN queue'[x] = q /\ locked'[x] = TRUE
                                   ELSE queue'[x] = queue[x] /\ locked'[x] = locked[x]
  BY <1>1 DEF LockInv, LockTypeOK
<1>5. LockTypeOK'
  BY <1>1, <1>3 DEF LockInv, LockTypeOK, Stage
<1>6. Inside'
  BY <1>1, <1>4 DEF LockInv, Inside
<1>7. Distinct' /\ Counted'
  BY <1>1 DEF LockInv, Distinct, Counted, Callers
<1>8. Unused'
  <2>1. \E k \in Key : leases[k] = l
    BY <1>1 DEF LockInv, Inside
  <2> QED BY <1>1, <1>4, <2>1 DEF LockInv, Unused
<1>9. Lined'
  <2> SUFFICES ASSUME NEW x \in Lease
               PROVE  /\ Once(queue'[x])
                      /\ \A u \in Task : u \in ToSet(queue'[x]) <=> stage'[u] \in Queued /\ lease'[u] = x
    BY DEF Lined
  <2>1. /\ Once(queue[x])
        /\ \A u \in Task : u \in ToSet(queue[x]) <=> stage[u] \in Queued /\ lease[u] = x
    BY DEF LockInv, Lined
  <2>2. ~(stage'[t] \in Queued)
    BY <1>4 DEF Queued
  <2>3. CASE x = l
    BY <1>1, <1>3, <1>4, <2>1, <2>2, <2>3 DEF Without
  <2>4. CASE x # l
    BY <1>1, <1>4, <2>1, <2>2, <2>4
  <2> QED BY <2>3, <2>4
<1>10. Held'
  <2>1. \A u \in Task : ~(stage[u] = "leading" /\ lease[u] = l)
    BY <1>1, <1>2 DEF LockInv, Held
  <2>2. \A u, v \in Task : stage'[u] = "leading" /\ stage'[v] = "leading" /\ lease'[u] = lease'[v] => u = v
    BY <1>1, <1>4, <2>1 DEF LockInv, Held
  <2>3. ASSUME NEW x \in Lease
        PROVE  locked'[x] <=> \E u \in Task : stage'[u] = "leading" /\ lease'[u] = x
    BY <1>1, <1>4 DEF LockInv, Held
  <2> QED BY <2>2, <2>3 DEF Held
<1>11. Woke'
  <2> SUFFICES ASSUME NEW u \in Task, stage'[u] = "woken"
               PROVE  ~locked'[lease'[u]] /\ queue'[lease'[u]] # <<>> /\ queue'[lease'[u]][1] = u
    BY DEF Woke
  <2>1. u # t /\ stage[u] = "woken" /\ lease'[u] = lease[u] /\ lease[u] \in Lease
    BY <1>1, <1>4 DEF LockInv, Inside
  <2>2. ~locked[lease[u]] /\ queue[lease[u]] # <<>> /\ queue[lease[u]][1] = u
    BY <2>1 DEF LockInv, Woke
  <2>3. lease[u] # l
    BY <1>2, <2>1, <2>2
  <2> QED BY <1>4, <2>1, <2>2, <2>3
<1>12. HeadUp'
  <2> SUFFICES ASSUME NEW x \in Lease, ~locked'[x], queue'[x] # <<>>
               PROVE  stage'[queue'[x][1]] # "waiting"
    BY DEF HeadUp
  <2>1. x # l /\ queue'[x] = queue[x] /\ ~locked[x]
    BY <1>4
  <2>2. queue[x][1] \in Task
    BY <2>1, HeadFacts DEF LockInv, LockTypeOK
  <2> QED BY <1>4, <2>1, <2>2 DEF LockInv, HeadUp
<1> QED BY <1>5, <1>6, <1>7, <1>8, <1>9, <1>10, <1>11, <1>12 DEF LockInv

\* A cancelled sleeper stays in the queue until it runs.
LEMMA InterruptInv ==
  ASSUME LockInv, NEW S, InterruptPrime(S)
  PROVE  LockInv'
<1>1. UNCHANGED <<leases, users, locked, queue, goal, lease>>
  BY DEF InterruptPrime
<1>2. \A u \in Task : stage'[u] = stage[u] \/ (stage[u] = "waiting" /\ stage'[u] = "cancelled")
  BY DEF InterruptPrime
<1>3. LockTypeOK'
  BY <1>1 DEF InterruptPrime, LockInv, LockTypeOK, Stage
<1>4. Inside'
  BY <1>1, <1>2 DEF LockInv, Inside
<1>5. Distinct' /\ Counted' /\ Unused'
  BY <1>1 DEF LockInv, Distinct, Counted, Unused, Callers
<1>6. Lined'
  BY <1>1, <1>2 DEF LockInv, Lined, Queued
<1>7. Held'
  BY <1>1, <1>2 DEF LockInv, Held
<1>8. Woke'
  BY <1>1, <1>2 DEF LockInv, Woke
<1>9. HeadUp'
  <2> SUFFICES ASSUME NEW x \in Lease, ~locked[x], queue[x] # <<>>
               PROVE  stage'[queue[x][1]] # "waiting"
    BY <1>1 DEF HeadUp
  <2>1. queue[x][1] \in Task
    BY HeadFacts DEF LockInv, LockTypeOK
  <2> QED BY <1>2, <2>1 DEF LockInv, HeadUp
<1> QED BY <1>3, <1>4, <1>5, <1>6, <1>7, <1>8, <1>9 DEF LockInv

\* Nothing but hints changes.
LEMMA LockStutters ==
  ASSUME LockInv, UNCHANGED <<leases, users, locked, queue, stage, goal, lease>>
  PROVE  LockInv'
<1>1. LockTypeOK' /\ Inside' /\ Distinct'
  BY DEF LockInv, LockTypeOK, Inside, Distinct
<1>2. Counted' /\ Unused'
  BY DEF LockInv, Counted, Unused, Callers
<1>3. Lined' /\ Held' /\ Woke' /\ HeadUp'
  BY DEF LockInv, Lined, Held, Woke, HeadUp
<1> QED BY <1>1, <1>2, <1>3 DEF LockInv

-----------------------------------------------------------------------------
(* The hints. *)

LEMMA LookInv ==
  ASSUME HintInv, NEW k \in Key, Look(k)
  PROVE  HintInv'
<1> DEFINE r == Dropped(warm, k)
<1>1. r \in Seq(Key) /\ Without(r, warm, k)
  BY DroppedFacts DEF HintInv
<1> HIDE DEF r
<1>2. Once(r) /\ ToSet(r) = ToSet(warm) \ {k}
  BY <1>1 DEF Without
<1>3. /\ Append(r, k) \in Seq(Key) /\ Once(Append(r, k))
      /\ ToSet(Append(r, k)) = ToSet(r) \union {k}
  BY <1>1, <1>2, AppendedFacts
<1>4. warm' \in {r, Append(r, k)} /\ stale' = stale \ {k}
  BY DEF Look, r
<1> QED BY <1>1, <1>2, <1>3, <1>4 DEF HintInv

LEMMA MarkInv ==
  ASSUME HintInv, NEW k \in Key, MarkWarm(k)
  PROVE  HintInv'
<1> DEFINE r == Dropped(warm, k)
           w == Append(r, k)
           n == IF Len(w) > HintEntries THEN Len(w) - HintEntries ELSE 0
<1>1. r \in Seq(Key) /\ Without(r, warm, k)
  BY DroppedFacts DEF HintInv
<1>2. warm' = SubSeq(w, n + 1, Len(w)) /\ stale' \subseteq ToSet(warm')
  BY DEF MarkWarm
<1> HIDE DEF r
<1>3. w \in Seq(Key) /\ Once(w)
  BY <1>1, AppendedFacts DEF Without
<1> HIDE DEF w
<1>4. n \in 0 .. Len(w)
  BY <1>3, PrimerAssumption
<1> HIDE DEF n
<1>5. /\ warm' \in Seq(Key)
      /\ DOMAIN warm' = 1 .. Len(w) - n
      /\ \A i \in 1 .. Len(w) - n : warm'[i] = w[i + n]
  <2>1. warm' \in Seq(Key)
    BY <1>2, <1>3, <1>4, DropFirst, Zenon
  <2>2. DOMAIN warm' = 1 .. Len(w) - n
    BY <1>2, <1>3, <1>4, DropFirst, Zenon
  <2>3. \A i \in 1 .. Len(w) - n : warm'[i] = w[i + n]
    BY <1>2, <1>3, <1>4, DropFirst, Zenon
  <2> QED BY <2>1, <2>2, <2>3
<1>6. \A i \in 1 .. Len(w) - n : i + n \in DOMAIN w
  BY <1>3, <1>4
<1>7. ASSUME NEW i \in DOMAIN warm', NEW j \in DOMAIN warm', warm'[i] = warm'[j]
      PROVE  i = j
  <2>1. i + n = j + n
    BY <1>3, <1>5, <1>6, <1>7 DEF Once
  <2> QED BY <1>4, <1>5, <2>1
<1> QED BY <1>2, <1>5, <1>7 DEF HintInv, Once

-----------------------------------------------------------------------------
LEMMA InitInv == Init => IInv
<1> SUFFICES ASSUME Init PROVE IInv
  OBVIOUS
<1>1. /\ warm = <<>> /\ stale = {} /\ interrupted = {} /\ scored = {}
      /\ leases = [k \in Key |-> None]
      /\ users = [l \in Lease |-> 0]
      /\ locked = [l \in Lease |-> FALSE]
      /\ queue = [l \in Lease |-> <<>>]
      /\ stage = [t \in Task |-> "out"]
      /\ goal = [t \in Task |-> None]
      /\ lease = [t \in Task |-> None]
  BY DEF Init, PrimerInit
<1>2. LockTypeOK
  BY <1>1 DEF LockTypeOK, Stage
<1>3. Inside /\ Distinct /\ Counted /\ Unused
  BY <1>1 DEF Inside, Distinct, Counted, Unused
<1>4. Lined
  BY <1>1 DEF Lined, Once, ToSet, Queued
<1>5. Held /\ Woke /\ HeadUp
  BY <1>1 DEF Held, Woke, HeadUp
<1>6. HintInv
  BY <1>1 DEF HintInv, Once, ToSet
<1> QED BY <1>1, <1>2, <1>3, <1>4, <1>5, <1>6 DEF IInv, LockInv

LEMMA PrimeInv == ASSUME IInv, NEW t \in Task, NEW k \in Key, Prime(t, k) PROVE IInv'
<1>1. CASE Skip(t, k)
  BY <1>1, LockStutters, LookInv DEF IInv, Prime, Skip
<1>2. CASE Join(t, k)
  <2>1. Look(k)
    BY <1>2 DEF Join
  <2> QED BY <1>2, <2>1, JoinInv, LookInv DEF IInv, Prime
<1> QED BY <1>1, <1>2 DEF Prime

LEMMA CutShortInv == ASSUME IInv, NEW S \in SUBSET Task, CutShort(S) PROVE IInv'
<1>1. InterruptPrime(S) /\ interrupted' = interrupted \union S /\ scored' = scored
  BY DEF CutShort
<1>2. LockInv'
  BY <1>1, InterruptInv DEF IInv
<1>3. HintInv'
  BY <1>1 DEF InterruptPrime, IInv, HintInv
<1> QED BY <1>1, <1>2, <1>3 DEF IInv

\* A task in prime() has a key.
LEMMA GoalKnown == ASSUME LockInv, NEW t \in Task, stage[t] # "out" PROVE goal[t] \in Key
BY DEF LockInv, Inside

LEMMA DeliverInv == ASSUME IInv, NEW t \in Task, Deliver(t) PROVE IInv'
<1>1. /\ stage[t] = "woken" /\ Look(goal[t]) /\ UNCHANGED <<interrupted, scored>>
      /\ TakeOver(t) \/ Depart(t, FALSE)
  BY DEF Deliver, TakeOver, Follow
<1>2. ~locked[lease[t]] /\ locked[lease[t]] \in BOOLEAN
  BY <1>1 DEF IInv, LockInv, LockTypeOK, Inside, Woke
<1>3. LockInv'
  BY <1>1, <1>2, TakeOverInv, DepartInv DEF IInv
<1>4. HintInv'
  BY <1>1, GoalKnown, LookInv DEF IInv
<1> QED BY <1>1, <1>3, <1>4 DEF IInv

LEMMA GiveUpInv == ASSUME IInv, NEW t \in Task, GiveUp(t) PROVE IInv'
<1>1. /\ stage[t] \in {"woken", "cancelled"} /\ Depart(t, locked[lease[t]])
      /\ UNCHANGED <<warm, stale>> /\ interrupted' = interrupted \ {t}
      /\ scored' = scored
  BY DEF GiveUp, AbandonPrime, hintVars
<1>2. LockInv'
  BY <1>1, DepartInv DEF IInv
<1>3. HintInv'
  BY <1>1 DEF IInv, HintInv
<1> QED BY <1>1, <1>2, <1>3 DEF IInv

LEMMA FirstScoredInv == ASSUME IInv, NEW t \in Task, FirstScored(t) PROVE IInv'
<1>1. LockInv'
  BY LockStutters DEF FirstScored, IInv
<1>2. HintInv'
  BY DEF FirstScored, IInv, HintInv
<1> QED BY <1>1, <1>2 DEF IInv, FirstScored

LEMMA FirstEndsInv == ASSUME IInv, NEW t \in Task, FirstEnds(t) PROVE IInv'
<1>1. /\ stage[t] = "leading" /\ Depart(t, FALSE) /\ interrupted' = interrupted
      /\ scored' = scored \ {t}
      /\ MarkWarm(goal[t]) \/ UNCHANGED <<warm, stale>>
  BY DEF FirstEnds, FirstReturns, FirstFails, hintVars
<1>2. LockInv'
  BY <1>1, DepartInv DEF IInv
<1>3. HintInv'
  <2>1. CASE MarkWarm(goal[t])
    BY <1>1, <2>1, GoalKnown, MarkInv DEF IInv
  <2>2. CASE UNCHANGED <<warm, stale>>
    BY <2>2 DEF IInv, HintInv
  <2> QED BY <1>1, <2>1, <2>2
<1> QED BY <1>1, <1>2, <1>3 DEF IInv

LEMMA HintExpiresInv == ASSUME IInv, NEW k \in Key, HintExpires(k) PROVE IInv'
<1>1. LockInv'
  BY LockStutters DEF HintExpires, Expire, IInv
<1>2. HintInv'
  BY DEF HintExpires, Expire, IsWarm, IInv, HintInv
<1> QED BY <1>1, <1>2 DEF IInv, HintExpires

LEMMA NextInv == IInv /\ [Next]_vars => IInv'
<1> SUFFICES ASSUME IInv, [Next]_vars PROVE IInv'
  OBVIOUS
<1>1. ASSUME NEW t \in Task, NEW k \in Key, Prime(t, k) PROVE IInv'
  BY <1>1, PrimeInv
<1>2. ASSUME NEW S \in SUBSET Task, CutShort(S) PROVE IInv'
  BY <1>2, CutShortInv
<1>3. ASSUME NEW t \in Task, Deliver(t) PROVE IInv'
  BY <1>3, DeliverInv
<1>4. ASSUME NEW t \in Task, GiveUp(t) PROVE IInv'
  BY <1>4, GiveUpInv
<1>5. ASSUME NEW t \in Task, FirstEnds(t) PROVE IInv'
  BY <1>5, FirstEndsInv
<1>6. ASSUME NEW k \in Key, HintExpires(k) PROVE IInv'
  BY <1>6, HintExpiresInv
<1>7. ASSUME NEW t \in Task, FirstScored(t) PROVE IInv'
  BY <1>7, FirstScoredInv
<1>8. CASE UNCHANGED vars
  <2>1. LockInv'
    BY <1>8, LockStutters DEF vars, IInv
  <2> QED BY <1>8, <2>1 DEF vars, IInv, HintInv
<1> QED BY <1>1, <1>2, <1>3, <1>4, <1>5, <1>6, <1>7, <1>8 DEF Next

LEMMA Invariance == Spec => []IInv
<1> QED BY InitInv, NextInv, PTL DEF Spec

-----------------------------------------------------------------------------
\* Every variable keeps its type, the counts of users among them: none goes
\* below zero (scheduler.py:46-65).
THEOREM TypeCorrect == Spec => []TypeOK
<1>1. IInv => TypeOK
  BY DEF IInv, LockInv, LockTypeOK, HintInv, TypeOK, PrimerTypeOK
<1> QED BY <1>1, Invariance, PTL

\* A key has a lease exactly while some task is in prime() for it, all of them
\* share it, and its count is theirs (scheduler.py:46-51, 62-65).
THEOREM LeaseIsShared == Spec => []LeasesBalanced
<1>1. ASSUME IInv PROVE LeasesBalanced
  <2>1. ASSUME NEW t \in Task, InPrime(t) PROVE lease[t] # None /\ leases[goal[t]] = lease[t]
    BY <1>1, <2>1, PrimerAssumption DEF IInv, LockInv, Inside, InPrime
  <2>2. ASSUME NEW k \in Key, leases[k] # None
        PROVE  /\ users[leases[k]] > 0
               /\ users[leases[k]] = Cardinality({t \in Task : goal[t] = k})
    <3>1. /\ IsFiniteSet(Callers(k)) /\ Callers(k) # {}
          /\ users[leases[k]] = Cardinality(Callers(k))
      BY <1>1, <2>2 DEF IInv, LockInv, Counted
    <3>2. Cardinality(Callers(k)) \in Nat /\ Cardinality(Callers(k)) >= 1
      BY <3>1, CallersFacts
    <3>3. users[leases[k]] > 0
      BY <3>1, <3>2
    <3> QED BY <3>1, <3>3 DEF Callers
  <2>3. ASSUME NEW l \in Lease, Unreferenced(l) PROVE users[l] = 0 /\ ~locked[l] /\ queue[l] = <<>>
    BY <1>1, <2>3 DEF IInv, LockInv, Unused, Unreferenced
  <2> QED BY <2>1, <2>2, <2>3 DEF LeasesBalanced
<1>2. IInv => LeasesBalanced
  BY <1>1
<1> QED BY <1>2, Invariance, PTL

\* Behind a free lock with tasks in its queue the first of them is about to
\* run, so no wake-up is lost whatever is cancelled meanwhile (scheduler.py:53).
THEOREM NoFollowerForgotten == Spec => []NoLostWakeup
<1>1. ASSUME IInv PROVE NoLostWakeup
  <2> SUFFICES ASSUME NEW l \in Lease, queue[l] # <<>>, ~locked[l]
               PROVE  \E i \in DOMAIN queue[l] :
                         /\ stage[queue[l][i]] \in {"woken", "cancelled"}
                         /\ \A j \in 1 .. i - 1 : stage[queue[l][j]] # "waiting"
    BY DEF NoLostWakeup
  <2>1. queue[l] \in Seq(Task)
    BY <1>1 DEF IInv, LockInv, LockTypeOK
  <2>2. 1 \in DOMAIN queue[l] /\ 1 .. 1 - 1 = {}
    BY <2>1
  <2>3. queue[l][1] \in Task /\ queue[l][1] \in ToSet(queue[l])
    BY <2>1, HeadFacts
  <2>4. stage[queue[l][1]] \in {"woken", "cancelled"}
    BY <1>1, <2>3 DEF IInv, LockInv, Lined, HeadUp, Queued
  <2> QED BY <2>2, <2>4
<1>2. IInv => NoLostWakeup
  BY <1>1
<1> QED BY <1>2, Invariance, PTL

\* At most one task per key is inside first(), and a locked lock has its
\* holder there (scheduler.py:53-56).
THEOREM OneLeader == Spec => []SingleLeader
<1>1. ASSUME IInv PROVE SingleLeader
  <2>1. ASSUME NEW k \in Key PROVE Cardinality(Leaders(k)) <= 1
    <3>1. \A t, u \in Leaders(k) : t = u
      BY <1>1 DEF IInv, LockInv, Held, Inside, Leaders
    <3>2. CASE Leaders(k) = {}
      BY <3>2, FS_EmptySet
    <3>3. CASE Leaders(k) # {}
      <4>1. PICK t : Leaders(k) = {t}
        BY <3>1, <3>3
      <4> QED BY <4>1, FS_Singleton
    <3> QED BY <3>2, <3>3
  <2> QED BY <1>1, <2>1 DEF SingleLeader, IInv, LockInv, Held
<1>2. IInv => SingleLeader
  BY <1>1
<1> QED BY <1>2, Invariance, PTL

-----------------------------------------------------------------------------
(* The primer implements the barrier. *)

Hot == ToSet(warm) \ stale
Priming == [k \in Key |-> Leaders(k)]

\* Looking at a hint changes nothing about the keys that are warm.
LEMMA LookHot == ASSUME HintInv, NEW k \in Key, Look(k) PROVE Hot' = Hot
<1> DEFINE r == Dropped(warm, k)
<1>1. r \in Seq(Key) /\ Once(r) /\ ToSet(r) = ToSet(warm) \ {k}
  BY DroppedFacts DEF HintInv, Without
<1> HIDE DEF r
<1>2. ToSet(Append(r, k)) = ToSet(r) \union {k}
  BY <1>1, AppendedFacts
<1>3. CASE IsWarm(k)
  BY <1>1, <1>2, <1>3 DEF Look, Hot, IsWarm, r
<1>4. CASE ~IsWarm(k)
  BY <1>1, <1>4 DEF Look, Hot, IsWarm, r
<1> QED BY <1>3, <1>4

\* Who leaves prime() from the queue was no leader, and wakes none.
LEMMA DepartLeaders ==
  ASSUME LockInv, NEW t \in Task, NEW held, Depart(t, held)
  PROVE  \A k \in Key : Leaders(k)' = Leaders(k) \ {t}
<1>1. stage' = [u \in Task |-> IF u = t THEN "out"
                               ELSE IF u \in Woken(Dropped(queue[lease[t]], t), held) THEN "woken" ELSE stage[u]]
  BY DEF Depart
<1>2. \A u \in Woken(Dropped(queue[lease[t]], t), held) : stage[u] = "waiting"
  BY DEF Woken
<1>3. \A u \in Task : stage'[u] = "leading" <=> u # t /\ stage[u] = "leading"
  BY <1>1, <1>2
<1>4. \A u \in Task : u # t => goal'[u] = goal[u]
  BY DEF Depart, LockInv, LockTypeOK
<1> QED BY <1>3, <1>4 DEF Leaders

\* One leader per key.
LEMMA LoneLeader ==
  ASSUME LockInv, NEW t \in Task, stage[t] = "leading"
  PROVE  goal[t] \in Key /\ \A k \in Key : Leaders(k) = IF k = goal[t] THEN {t} ELSE Leaders(k) \ {t}
BY DEF LockInv, Held, Inside, Leaders

\* A free lock's key has none.
LEMMA NoLeader ==
  ASSUME LockInv, NEW l \in Lease, ~locked[l], NEW k \in Key, leases[k] \in {l, None}
  PROVE  Leaders(k) = {}
BY PrimerAssumption DEF LockInv, Held, Inside, Leaders

LEMMA SameLeaders ==
  ASSUME \A k \in Key : Leaders(k)' = Leaders(k)
  PROVE  Priming' = Priming
BY DEF Priming

LEMMA PrimingChanges ==
  ASSUME NEW k \in Key, NEW S, \A m \in Key : Leaders(m)' = IF m = k THEN S ELSE Leaders(m)
  PROVE  Priming' = [Priming EXCEPT ![k] = S] /\ Priming[k] = Leaders(k)
BY DEF Priming

\* A success adds its key and may lose others, and keeps to the capacity.
LEMMA MarkHot ==
  ASSUME HintInv, NEW k \in Key, MarkWarm(k)
  PROVE  \E kept \in SUBSET Hot : Hot' = kept \union {k} /\ Cardinality(Hot') <= HintEntries
<1> DEFINE r == Dropped(warm, k)
           w == Append(r, k)
           n == IF Len(w) > HintEntries THEN Len(w) - HintEntries ELSE 0
<1>1. r \in Seq(Key) /\ Once(r) /\ ToSet(r) = ToSet(warm) \ {k}
  BY DroppedFacts DEF HintInv, Without
<1>2. warm' = SubSeq(w, n + 1, Len(w)) /\ stale' = (stale \ {k}) \intersect ToSet(warm')
  BY DEF MarkWarm
<1> HIDE DEF r
<1>3. w \in Seq(Key) /\ ToSet(w) = ToSet(warm) \union {k} /\ Len(w) >= 1 /\ w[Len(w)] = k
  BY <1>1, AppendedFacts
<1> HIDE DEF w
<1>4. n \in 0 .. Len(w) /\ n < Len(w) /\ Len(w) - n <= HintEntries /\ Len(w) - n \in Nat
  BY <1>3, PrimerAssumption
<1> HIDE DEF n
<1>5. /\ DOMAIN warm' = 1 .. Len(w) - n
      /\ \A i \in 1 .. Len(w) - n : warm'[i] = w[i + n]
  <2>1. DOMAIN warm' = 1 .. Len(w) - n
    BY <1>2, <1>3, <1>4, DropFirst, Zenon
  <2>2. \A i \in 1 .. Len(w) - n : warm'[i] = w[i + n]
    BY <1>2, <1>3, <1>4, DropFirst, Zenon
  <2> QED BY <2>1, <2>2
<1>6. ToSet(warm') \subseteq ToSet(w)
  <2>1. \A i \in 1 .. Len(w) - n : i + n \in DOMAIN w
    BY <1>3, <1>4
  <2> QED BY <1>5, <2>1 DEF ToSet
<1>7. k \in ToSet(warm')
  <2>1. Len(w) - n \in 1 .. Len(w) - n /\ (Len(w) - n) + n = Len(w)
    BY <1>3, <1>4
  <2>2. warm'[Len(w) - n] = k
    BY <1>3, <1>5, <2>1
  <2> QED BY <1>5, <2>1, <2>2 DEF ToSet
<1>8. Hot' = (Hot' \ {k}) \union {k} /\ Hot' \ {k} \in SUBSET Hot
  BY <1>2, <1>3, <1>6, <1>7 DEF Hot
<1>9. Cardinality(Hot') <= HintEntries
  <2>1. IsFiniteSet(1 .. Len(w) - n) /\ Cardinality(1 .. Len(w) - n) = Len(w) - n
    BY <1>3, <1>4, FS_Interval
  <2>2. warm' \in Surjection(1 .. Len(w) - n, ToSet(warm'))
    <3>1. warm' \in Seq(Key)
      BY MarkInv DEF HintInv
    <3>2. warm' = [i \in DOMAIN warm' |-> warm'[i]]
      BY <3>1
    <3>3. warm' \in [1 .. Len(w) - n -> ToSet(warm')]
      BY <1>5, <3>2 DEF ToSet
    <3> QED BY <1>5, <3>3 DEF Surjection, ToSet
  <2>3. IsFiniteSet(ToSet(warm')) /\ Cardinality(ToSet(warm')) <= Len(w) - n
    BY <2>1, <2>2, FS_Surjection
  <2>4. Hot' \subseteq ToSet(warm')
    BY DEF Hot
  <2>5. IsFiniteSet(Hot') /\ Cardinality(Hot') <= Cardinality(ToSet(warm'))
    BY <2>3, <2>4, FS_Subset
  <2>6. Cardinality(Hot') \in Nat /\ Cardinality(ToSet(warm')) \in Nat
    BY <2>3, <2>5, FS_CardinalityType
  <2> QED BY <1>4, <2>3, <2>5, <2>6, PrimerAssumption
<1> QED BY <1>8, <1>9

LEMMA BarrierInit == Init => Barrier!Init
<1> SUFFICES ASSUME Init PROVE Barrier!Init
  OBVIOUS
<1>1. warm = <<>> /\ stage = [t \in Task |-> "out"] /\ scored = {}
  BY DEF Init, PrimerInit
<1>2. Hot = {}
  BY <1>1 DEF Hot, ToSet
<1>3. Priming = [k \in Key |-> {}]
  BY <1>1 DEF Priming, Leaders
<1> QED BY <1>1, <1>2, <1>3 DEF Barrier!Init, Hot, Priming

\* A task begins to prime a key.
LEMMA BeginStep ==
  ASSUME LockInv, NEW t \in Task, NEW k \in Key, ~IsWarm(k), Hot' = Hot,
         Leaders(k) = {},
         \A m \in Key : Leaders(m)' = IF m = k THEN {t} ELSE Leaders(m),
         scored' = scored
  PROVE  Barrier!Begin(t, k)
<1>1. Priming' = [Priming EXCEPT ![k] = {t}] /\ Priming[k] = {}
  BY PrimingChanges
<1>2. k \notin Hot
  BY DEF Hot, IsWarm
<1> QED BY <1>1, <1>2 DEF Barrier!Begin, Hot, Priming

\* A step that neither begins nor ends a priming, nor changes what is warm.
LEMMA BarrierStutters ==
  ASSUME Hot' = Hot, \A k \in Key : Leaders(k)' = Leaders(k), scored' = scored
  PROVE  UNCHANGED Barrier!barrierVars
BY SameLeaders DEF Barrier!barrierVars, Hot, Priming

LEMMA PrimeStep ==
  ASSUME IInv, NEW t \in Task, NEW k \in Key, Prime(t, k)
  PROVE  Barrier!Begin(t, k) \/ UNCHANGED Barrier!barrierVars
<1>1. CASE Skip(t, k)
  <2>1. Hot' = Hot
    BY <1>1, LookHot DEF Skip, IInv
  <2>2. \A m \in Key : Leaders(m)' = Leaders(m)
    BY <1>1 DEF Skip, Leaders
  <2> QED BY <2>1, <2>2, BarrierStutters DEF Prime
<1>2. CASE Join(t, k)
  <2>1. Look(k) /\ ~IsWarm(k) /\ stage[t] = "out"
    BY <1>2 DEF Join
  <2>2. Hot' = Hot
    BY <2>1, LookHot DEF IInv
  <2>3. PICK l \in Lease :
           /\ LeaseFor(k, l)
           /\ goal' = [goal EXCEPT ![t] = k]
           /\ \/ LockIsFree(l) /\ stage' = [stage EXCEPT ![t] = "leading"]
              \/ stage' = [stage EXCEPT ![t] = "waiting"]
    BY <1>2 DEF Join
  <2>4. \A u \in Task : u # t => stage'[u] = stage[u] /\ goal'[u] = goal[u]
    BY <2>3 DEF IInv, LockInv, LockTypeOK
  <2>5. goal'[t] = k
    BY <2>3 DEF IInv, LockInv, LockTypeOK
  <2>6. CASE LockIsFree(l) /\ stage' = [stage EXCEPT ![t] = "leading"]
    <3>1. stage'[t] = "leading"
      BY <2>6 DEF IInv, LockInv, LockTypeOK
    <3>2. Leaders(k) = {}
      BY <2>3, <2>6, NoLeader DEF LeaseFor, LockIsFree, IInv
    <3>3. \A m \in Key : Leaders(m)' = IF m = k THEN {t} ELSE Leaders(m)
      BY <2>1, <2>4, <2>5, <3>1, <3>2 DEF Leaders
    <3>4. Barrier!Begin(t, k)
      BY <2>1, <2>2, <3>2, <3>3, BeginStep DEF IInv, Prime
    <3> QED BY <3>4
  <2>7. CASE stage' = [stage EXCEPT ![t] = "waiting"]
    <3>1. stage'[t] = "waiting"
      BY <2>7 DEF IInv, LockInv, LockTypeOK
    <3>2. \A m \in Key : Leaders(m)' = Leaders(m)
      BY <2>1, <2>4, <3>1 DEF Leaders
    <3> QED BY <2>2, <3>2, BarrierStutters DEF Prime
  <2> QED BY <2>3, <2>6, <2>7
<1> QED BY <1>1, <1>2 DEF Prime

LEMMA CutShortStep ==
  ASSUME NEW S \in SUBSET Task, CutShort(S)
  PROVE  UNCHANGED Barrier!barrierVars
<1>1. InterruptPrime(S)
  BY DEF CutShort
<1>2. Hot' = Hot
  BY <1>1 DEF InterruptPrime, Hot
<1>3. \A u \in Task : stage'[u] = "leading" <=> stage[u] = "leading"
  BY <1>1 DEF InterruptPrime
<1>4. \A k \in Key : Leaders(k)' = Leaders(k)
  BY <1>1, <1>3 DEF InterruptPrime, Leaders
<1> QED BY <1>2, <1>4, BarrierStutters DEF CutShort

LEMMA DeliverStep ==
  ASSUME IInv, NEW t \in Task, Deliver(t)
  PROVE  (\E k \in Key : Barrier!Begin(t, k)) \/ UNCHANGED Barrier!barrierVars
<1>1. stage[t] = "woken" /\ goal[t] \in Key /\ Look(goal[t])
  BY GoalKnown DEF Deliver, TakeOver, Follow, IInv
<1>2. Hot' = Hot
  BY <1>1, LookHot DEF IInv
<1>3. CASE TakeOver(t)
  <2>1. /\ ~IsWarm(goal[t]) /\ goal' = goal
        /\ stage' = [stage EXCEPT ![t] = "leading"]
    BY <1>3 DEF TakeOver
  <2>2. lease[t] \in Lease /\ ~locked[lease[t]] /\ leases[goal[t]] = lease[t]
    BY <1>1 DEF IInv, LockInv, Inside, Woke
  <2>3. Leaders(goal[t]) = {}
    BY <1>1, <2>2, NoLeader DEF IInv
  <2>4. stage'[t] = "leading" /\ \A u \in Task : u # t => stage'[u] = stage[u]
    BY <2>1 DEF IInv, LockInv, LockTypeOK
  <2>5. \A m \in Key : Leaders(m)' = IF m = goal[t] THEN {t} ELSE Leaders(m)
    BY <1>1, <2>1, <2>3, <2>4 DEF Leaders
  <2>6. Barrier!Begin(t, goal[t])
    BY <1>1, <1>2, <2>1, <2>3, <2>5, BeginStep DEF IInv, Deliver
  <2> QED BY <1>1, <2>6
<1>4. CASE Follow(t)
  <2>1. \A k \in Key : Leaders(k)' = Leaders(k) \ {t}
    BY <1>4, DepartLeaders DEF Follow, IInv
  <2>2. \A k \in Key : t \notin Leaders(k)
    BY <1>1 DEF Leaders
  <2>3. \A k \in Key : Leaders(k)' = Leaders(k)
    BY <2>1, <2>2
  <2> QED BY <1>2, <2>3, BarrierStutters DEF Deliver
<1> QED BY <1>3, <1>4 DEF Deliver

LEMMA GiveUpStep ==
  ASSUME IInv, NEW t \in Task, GiveUp(t)
  PROVE  UNCHANGED Barrier!barrierVars
<1>1. /\ stage[t] \in {"woken", "cancelled"} /\ Depart(t, locked[lease[t]])
      /\ UNCHANGED <<warm, stale>>
  BY DEF GiveUp, AbandonPrime, hintVars
<1>2. \A k \in Key : Leaders(k)' = Leaders(k) \ {t}
  BY <1>1, DepartLeaders DEF IInv
<1>3. \A k \in Key : t \notin Leaders(k)
  BY <1>1 DEF Leaders
<1>4. \A k \in Key : Leaders(k)' = Leaders(k)
  BY <1>2, <1>3
<1>5. Hot' = Hot
  BY <1>1 DEF Hot
<1> QED BY <1>4, <1>5, BarrierStutters DEF GiveUp

LEMMA FirstScoredStep ==
  ASSUME IInv, NEW t \in Task, FirstScored(t)
  PROVE  \E k \in Key : Barrier!Answer(k)
<1>1. stage[t] = "leading" /\ scored' = scored \union {t} /\ UNCHANGED <<warm, stale, stage, goal>>
  BY DEF FirstScored
<1>2. goal[t] \in Key /\ Leaders(goal[t]) = {t}
  BY <1>1, LoneLeader DEF IInv
<1>3. Hot' = Hot /\ \A k \in Key : Leaders(k)' = Leaders(k)
  BY <1>1 DEF Hot, Leaders
<1>4. Priming' = Priming /\ Priming[goal[t]] = {t}
  BY <1>2, <1>3, SameLeaders DEF Priming
<1> QED BY <1>1, <1>2, <1>3, <1>4 DEF Barrier!Answer, Hot, Priming

LEMMA FirstEndsStep ==
  ASSUME IInv, NEW t \in Task, FirstEnds(t)
  PROVE  \E k \in Key : Barrier!Succeed(k) \/ Barrier!Fail(k)
<1> DEFINE k == goal[t]
<1>1. /\ stage[t] = "leading" /\ Depart(t, FALSE)
      /\ (t \in scored /\ MarkWarm(k)) \/ UNCHANGED <<warm, stale>>
      /\ scored' = scored \ {t}
  BY DEF FirstEnds, FirstReturns, FirstFails, hintVars
<1>2. k \in Key /\ \A m \in Key : Leaders(m) = IF m = k THEN {t} ELSE Leaders(m) \ {t}
  BY <1>1, LoneLeader DEF IInv
<1>3. \A m \in Key : Leaders(m)' = Leaders(m) \ {t}
  BY <1>1, DepartLeaders DEF IInv
<1> HIDE DEF k
<1>4. \A m \in Key : Leaders(m)' = IF m = k THEN {} ELSE Leaders(m)
  BY <1>2, <1>3
<1>5. Priming' = [Priming EXCEPT ![k] = {}] /\ Priming[k] = {t}
  BY <1>2, <1>4, PrimingChanges
<1>6. CASE t \in scored /\ MarkWarm(k)
  <2>1. \E kept \in SUBSET Hot : Hot' = kept \union {k} /\ Cardinality(Hot') <= HintEntries
    BY <1>2, <1>6, MarkHot DEF IInv
  <2>2. Barrier!Cardinality(Hot') = Cardinality(Hot')
    BY DEF Barrier!Cardinality, Cardinality
  <2>3. Barrier!Succeed(k)
    BY <1>1, <1>5, <1>6, <2>1, <2>2 DEF Barrier!Succeed, Barrier!End, Hot, Priming
  <2> QED BY <1>2, <2>3
<1>7. CASE UNCHANGED <<warm, stale>>
  <2>1. Hot' = Hot
    BY <1>7 DEF Hot
  <2>2. Barrier!Fail(k)
    BY <1>1, <1>5, <2>1 DEF Barrier!Fail, Barrier!End, Hot, Priming
  <2> QED BY <1>2, <2>2
<1> QED BY <1>1, <1>6, <1>7

LEMMA ExpiresStep ==
  ASSUME NEW k \in Key, HintExpires(k)
  PROVE  Barrier!Cool(k)
<1>1. k \in Hot /\ Hot' = Hot \ {k}
  BY DEF HintExpires, Expire, IsWarm, Hot
<1>2. \A m \in Key : Leaders(m)' = Leaders(m)
  BY DEF HintExpires, Expire, Leaders
<1>3. Priming' = Priming
  BY <1>2, SameLeaders
<1> QED BY <1>1, <1>3 DEF Barrier!Cool, HintExpires, Hot, Priming

LEMMA BarrierNext == IInv /\ [Next]_vars => [Barrier!Next]_Barrier!barrierVars
<1> SUFFICES ASSUME IInv, [Next]_vars PROVE [Barrier!Next]_Barrier!barrierVars
  OBVIOUS
<1> USE DEF Barrier!Next
<1>1. ASSUME NEW t \in Task, NEW k \in Key, Prime(t, k) PROVE [Barrier!Next]_Barrier!barrierVars
  BY <1>1, PrimeStep
<1>2. ASSUME NEW S \in SUBSET Task, CutShort(S) PROVE [Barrier!Next]_Barrier!barrierVars
  BY <1>2, CutShortStep
<1>3. ASSUME NEW t \in Task, Deliver(t) PROVE [Barrier!Next]_Barrier!barrierVars
  BY <1>3, DeliverStep
<1>4. ASSUME NEW t \in Task, GiveUp(t) PROVE [Barrier!Next]_Barrier!barrierVars
  BY <1>4, GiveUpStep
<1>5. ASSUME NEW t \in Task, FirstEnds(t) PROVE [Barrier!Next]_Barrier!barrierVars
  BY <1>5, FirstEndsStep
<1>6. ASSUME NEW k \in Key, HintExpires(k) PROVE [Barrier!Next]_Barrier!barrierVars
  BY <1>6, ExpiresStep
<1>7. ASSUME NEW t \in Task, FirstScored(t) PROVE [Barrier!Next]_Barrier!barrierVars
  BY <1>7, FirstScoredStep
<1>8. CASE UNCHANGED vars
  <2>1. /\ Hot' = Hot /\ scored' = scored
        /\ \A k \in Key : Leaders(k)' = Leaders(k)
    BY <1>8 DEF vars, Hot, Leaders
  <2> QED BY <2>1, BarrierStutters
<1> QED BY <1>1, <1>2, <1>3, <1>4, <1>5, <1>6, <1>7, <1>8 DEF Next

\* The primer implements the barrier: one task at a time primes a key, only
\* while it is cold, and only a success makes it warm (scheduler.py:24-27,
\* 45-65).
THEOREM ImplementsBarrier == Spec => RefinesPrimingBarrier
<1> QED BY BarrierInit, BarrierNext, Invariance, PTL DEF Spec, RefinesPrimingBarrier, Barrier!Spec
=============================================================================
