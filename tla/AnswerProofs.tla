----------------------------- MODULE AnswerProofs ----------------------------
(***************************************************************************)
(* That answers are what they say they are.  First ScoreAssembly, for      *)
(* every number of questions and of options, every size of a chunk and     *)
(* every flaw of a reply: what is assembled is what the engine holds.      *)
(* Then CacheCheck, for every number of questions and every engine: the    *)
(* verdict on the engine's cache is right.  Last SchemaPlans, for every    *)
(* schema and all limits: what is refused is illegal, the object that is   *)
(* sent holds the selections, and the client sees whether it does.         *)
(***************************************************************************)
EXTENDS ScoreAssembly, CacheCheck, SchemaPlans, ProofBasics

-----------------------------------------------------------------------------
(* Arithmetic of chunks: a multiple of the chunk's size before every        *)
(* candidate, and two of them at least one chunk apart.                     *)

LEMMA Multiples ==
  ASSUME NEW c \in Nat \ {0}, NEW k \in Nat
  PROVE  k * c \in Nat /\ k <= k * c /\ (k + 1) * c = k * c + c
<1>1. k * c \in Nat /\ k * (c - 1) \in Nat
  <2>1. c \in Nat /\ c - 1 \in Nat
    OBVIOUS
  <2> QED BY <2>1
<1>2. k * c = k * (c - 1) + k
  OBVIOUS
<1>3. (k + 1) * c = k * c + c
  OBVIOUS
<1> QED BY <1>1, <1>2, <1>3

LEMMA Apart ==
  ASSUME NEW c \in Nat \ {0}, NEW k \in Nat, NEW m \in Nat, k < m
  PROVE  k * c + c <= m * c
<1> DEFINE d == m - k - 1
<1>1. d \in Nat /\ m = k + d + 1
  OBVIOUS
<1>2. m * c = k * c + d * c + c
  <2> HIDE DEF d
  <2> QED BY <1>1
<1>3. d * c \in Nat /\ k * c \in Nat
  <2> HIDE DEF d
  <2> QED BY <1>1, Multiples
<1> HIDE DEF d
<1> QED BY <1>2, <1>3

LEMMA StartBefore ==
  ASSUME NEW c \in Nat \ {0}, NEW n \in Nat, NEW t \in 1 .. n
  PROVE  \E k \in 0 .. n : k * c + 1 \in 1 .. n /\ k * c + 1 <= t /\ t <= k * c + c
<1> DEFINE S == {k \in 0 .. n : k * c + 1 <= t}
<1>1. 0 \in S /\ S \in SUBSET (0 .. n)
  OBVIOUS
<1>2. PICK k \in S : \A m \in S : m <= k
  <2>1. S # {}
    BY <1>1
  <2> HIDE DEF S
  <2> QED BY <1>1, <2>1, MaxNat
<1>3. k \in Nat /\ k \in 0 .. n /\ k * c + 1 <= t
  BY <1>2
<1>4. k * c \in Nat /\ (k + 1) * c = k * c + c /\ (k + 1) * c \in Nat /\ k + 1 <= (k + 1) * c
  BY <1>3, Multiples
<1>5. t <= k * c + c
  <2> SUFFICES ASSUME t > k * c + c PROVE FALSE
    BY <1>4
  <2>1. (k + 1) * c + 1 <= t /\ k + 1 \in 0 .. n
    <3> DEFINE p == k * c
               r == (k + 1) * c
    <3>1. p \in Nat /\ r = p + c /\ r \in Nat /\ k + 1 <= r /\ t > p + c
      BY <1>4
    <3> HIDE DEF p, r
    <3>2. r + 1 <= t /\ k + 1 \in 0 .. n
      BY <3>1, <1>3
    <3> QED BY <3>2 DEF r
  <2>2. k + 1 \in S
    BY <2>1
  <2>3. k + 1 <= k
    <3> HIDE DEF S
    <3> QED BY <1>2, <2>2
  <2> QED BY <1>3, <2>3
<1>6. k * c + 1 \in 1 .. n
  <2> DEFINE p == k * c
  <2>1. p \in Nat /\ p + 1 <= t
    BY <1>3, <1>4
  <2> HIDE DEF p
  <2>2. p + 1 \in 1 .. n
    BY <2>1
  <2> QED BY <2>2 DEF p
<1> QED BY <1>3, <1>5, <1>6

-----------------------------------------------------------------------------
(* The calls of a request cover each candidate once. *)

OptionsFit == options \in [Asked -> 2 .. MaxOptions]

\* The chunks of a question cover its options and do not overlap.
LEMMA OneChunk ==
  ASSUME OptionsFit, NEW q \in Asked, NEW t \in 1 .. options[q]
  PROVE  /\ \E s \in Starts(q) : t \in Chunk(q, s).ids
         /\ \A r, s \in Starts(q) : t \in Chunk(q, r).ids /\ t \in Chunk(q, s).ids => r = s
<1> DEFINE n == options[q]
           c == ChunkSize
<1>1. n \in Nat /\ c \in Nat \ {0} /\ t \in 1 .. n /\ t <= n
  BY AssemblyAssumption DEF OptionsFit
<1>2. \A s : Chunk(q, s).ids = {u \in s .. s + c - 1 : u <= n}
  BY DEF Chunk
<1>3. \E s \in Starts(q) : t \in Chunk(q, s).ids
  <2>1. PICK k \in 0 .. n : k * c + 1 \in 1 .. n /\ k * c + 1 <= t /\ t <= k * c + c
    <3> HIDE DEF n, c
    <3> QED BY <1>1, StartBefore
  <2>2. k * c + 1 \in Starts(q)
    BY <2>1 DEF Starts
  <2>3. k * c \in Nat
    <3> HIDE DEF n, c
    <3> QED BY <1>1, Multiples
  <2>4. t \in Chunk(q, k * c + 1).ids
    <3> DEFINE p == k * c
    <3>1. p \in Nat /\ p + 1 <= t /\ t <= p + c
      BY <2>1, <2>3
    <3>2. t \in p + 1 .. p + 1 + c - 1
      <4> HIDE DEF p, c, n
      <4> QED BY <3>1, <1>1
    <3> HIDE DEF p, c, n
    <3> QED BY <3>2, <1>1, <1>2 DEF p
  <2> QED BY <2>2, <2>4
<1>4. ASSUME NEW r \in Starts(q), NEW s \in Starts(q),
             t \in Chunk(q, r).ids, t \in Chunk(q, s).ids
      PROVE  r = s
  <2>1. PICK k \in 0 .. n, m \in 0 .. n : r = k * c + 1 /\ s = m * c + 1
    BY DEF Starts
  <2>2. t \in r .. r + c - 1 /\ t \in s .. s + c - 1
    BY <1>2, <1>4
  <2>3. k \in Nat /\ m \in Nat /\ k * c \in Nat /\ m * c \in Nat
    <3> HIDE DEF n, c
    <3> QED BY <1>1, Multiples
  <2>4. k < m => k * c + c <= m * c
    <3> HIDE DEF n, c
    <3> QED BY <1>1, <2>3, Apart
  <2>5. m < k => m * c + c <= k * c
    <3> HIDE DEF n, c
    <3> QED BY <1>1, <2>3, Apart
  <2>6. ~(k < m) /\ ~(m < k)
    <3> DEFINE a == k * c
               b == m * c
    <3>1. /\ a \in Nat /\ b \in Nat /\ r = a + 1 /\ s = b + 1
          /\ k < m => a + c <= b
          /\ m < k => b + c <= a
      BY <2>1, <2>3, <2>4, <2>5
    <3> HIDE DEF a, b, c, n
    <3> QED BY <3>1, <2>2, <1>1
  <2>7. k = m
    BY <2>3, <2>6
  <2> QED BY <2>1, <2>7
<1> QED BY <1>3, <1>4

\* A sole numbering of the calls, question after question.
LEMMA CallsNumbered ==
  ASSUME OptionsFit
  PROVE  /\ Cardinality(Calls) \in Nat
         /\ \A i \in 1 .. Cardinality(Calls) : Nth(i) \in Calls
         /\ \A w \in Calls : \E i \in 1 .. Cardinality(Calls) : Nth(i) = w
         /\ \A i, j \in 1 .. Cardinality(Calls) : Nth(i) = Nth(j) => i = j
<1> DEFINE n == Cardinality(Calls)
           rank == [w \in Calls |-> Cardinality(UpTo(w))]
<1>1. \A w \in Calls : w[1] \in Nat /\ w[2] \in Nat /\ w = <<w[1], w[2]>>
  BY DEF Calls, Asked, Starts
<1>2. IsFiniteSet(Calls)
  <2>1. Calls \in SUBSET (Asked \X Token)
    <3> SUFFICES ASSUME NEW q \in Asked, NEW s \in Starts(q) PROVE s \in Token
      BY DEF Calls
    <3>1. options[q] \in 2 .. MaxOptions
      BY DEF OptionsFit
    <3>2. s \in 1 .. options[q]
      BY DEF Starts
    <3> QED BY <3>1, <3>2, AssemblyAssumption DEF Token
  <2>2. IsFiniteSet(Asked) /\ IsFiniteSet(Token)
    BY AssemblyAssumption, FS_Interval DEF Asked, Token
  <2>3. IsFiniteSet(Asked \X Token)
    BY <2>2, FS_Product
  <2> QED BY <2>1, <2>3, FS_Subset
<1>3. n \in Nat /\ IsFiniteSet(1 .. n) /\ Cardinality(1 .. n) = n
  <2>1. n \in Nat
    BY <1>2, FS_CardinalityType
  <2> HIDE DEF n
  <2> QED BY <2>1, FS_Interval
<1>4. ASSUME NEW w \in Calls
      PROVE  /\ UpTo(w) \in SUBSET Calls /\ w \in UpTo(w) /\ IsFiniteSet(UpTo(w))
             /\ Cardinality(UpTo(w)) \in 1 .. n
  <2>1. UpTo(w) \in SUBSET Calls /\ w \in UpTo(w)
    BY <1>1 DEF UpTo
  <2>2. IsFiniteSet(UpTo(w)) /\ Cardinality(UpTo(w)) <= n
    BY <1>2, <2>1, FS_Subset
  <2>3. Cardinality(UpTo(w)) \in Nat /\ Cardinality(UpTo(w)) # 0
    BY <2>1, <2>2, FS_CardinalityType, FS_EmptySet
  <2> HIDE DEF n
  <2> QED BY <2>1, <2>2, <2>3, <1>3
<1>5. ASSUME NEW v \in Calls, NEW w \in Calls, Cardinality(UpTo(v)) = Cardinality(UpTo(w))
      PROVE  v = w
  <2>1. UpTo(v) \in SUBSET UpTo(w) \/ UpTo(w) \in SUBSET UpTo(v)
    BY <1>1 DEF UpTo
  <2>2. UpTo(v) = UpTo(w)
    BY <1>4, <1>5, <2>1, FS_Subset
  <2>3. v \in UpTo(w) /\ w \in UpTo(v)
    BY <1>4, <2>2
  <2>4. v[1] = w[1] /\ v[2] = w[2]
    BY <1>1, <2>3 DEF UpTo
  <2> QED BY <1>1, <2>4
<1>6. \A i \in 1 .. n : \E w \in Calls : Cardinality(UpTo(w)) = i
  <2>1. rank \in Injection(Calls, 1 .. n)
    <3>1. rank \in [Calls -> 1 .. n] /\ DOMAIN rank = Calls
      BY <1>4
    <3>2. \A v, w \in Calls : rank[v] = rank[w] => v = w
      BY <1>5
    <3> HIDE DEF rank, n
    <3> QED BY <3>1, <3>2 DEF Injection, IsInjective
  <2>2. rank \in Surjection(Calls, 1 .. n)
    <3>1. Cardinality(Calls) = Cardinality(1 .. n)
      BY <1>3
    <3> HIDE DEF rank, n
    <3> QED BY <1>3, <2>1, <3>1, FS_Injection
  <2>3. \A i \in 1 .. n : \E w \in Calls : rank[w] = i
    <3> HIDE DEF rank, n
    <3> QED BY <2>2 DEF Surjection
  <2> QED BY <2>3
<1>7. \A i \in 1 .. n : Nth(i) \in Calls /\ Cardinality(UpTo(Nth(i))) = i
  BY <1>6 DEF Nth
<1>8. \A w \in Calls : Cardinality(UpTo(w)) \in 1 .. n /\ Nth(Cardinality(UpTo(w))) = w
  BY <1>4, <1>5, <1>7
<1> QED BY <1>3, <1>7, <1>8

\* Each item of work asks for some candidates of one question.
LEMMA WorkFits ==
  ASSUME OptionsFit
  PROVE  /\ Len(Work) = Cardinality(Calls) /\ Len(Work) \in Nat /\ DOMAIN Work = 1 .. Len(Work)
         /\ \A T : (\A i \in DOMAIN Work : Work[i] \in T) => Work \in Seq(T)
         /\ \A i \in DOMAIN Work : /\ Work[i].question \in Asked
                                   /\ Work[i].ids \in SUBSET (1 .. options[Work[i].question])
                                   /\ Work[i].ids # {}
<1> DEFINE n == Cardinality(Calls)
<1>1. n \in Nat /\ \A i \in 1 .. n : Nth(i) \in Calls
  BY CallsNumbered
<1>2. Work = [i \in 1 .. n |-> Chunk(Nth(i)[1], Nth(i)[2])]
  BY DEF Work
<1>3. Len(Work) = n /\ DOMAIN Work = 1 .. n
  <2> HIDE DEF n
  <2> QED BY <1>1, <1>2
<1>4. ASSUME NEW T, \A i \in DOMAIN Work : Work[i] \in T PROVE Work \in Seq(T)
  <2> HIDE DEF n
  <2>1. Work \in [1 .. n -> T]
    BY <1>2, <1>3, <1>4
  <2> QED BY <1>1, <2>1
<1>5. ASSUME NEW i \in DOMAIN Work
      PROVE  /\ Work[i].question \in Asked
             /\ Work[i].ids \in SUBSET (1 .. options[Work[i].question])
             /\ Work[i].ids # {}
  <2>1. PICK q \in Asked : \E s \in Starts(q) : Nth(i) = <<q, s>>
    BY <1>1, <1>3 DEF Calls
  <2>2. PICK s \in Starts(q) : Nth(i) = <<q, s>>
    BY <2>1
  <2>3. Work[i] = Chunk(q, s)
    BY <1>2, <1>3, <2>2
  <2>4. s \in 1 .. options[q] /\ options[q] \in Nat
    BY DEF Starts, OptionsFit
  <2>5. Work[i].question = q /\ Work[i].ids = {t \in s .. s + ChunkSize - 1 : t <= options[q]}
    BY <2>3 DEF Chunk
  <2>6. s \in Work[i].ids
    BY <2>4, <2>5, AssemblyAssumption
  <2>7. \A t \in Work[i].ids : t \in 1 .. options[q]
    BY <2>4, <2>5, AssemblyAssumption
  <2> QED BY <2>5, <2>6, <2>7
<1> QED BY <1>1, <1>3, <1>4, <1>5

\* So each option of each question is asked for by one item of work.
LEMMA EachOnce ==
  ASSUME OptionsFit, NEW q \in Asked, NEW t \in 1 .. options[q]
  PROVE  /\ \E i \in Mine(q) : t \in Work[i].ids
         /\ \A i, j \in Mine(q) : t \in Work[i].ids /\ t \in Work[j].ids => i = j
<1> DEFINE n == Cardinality(Calls)
<1>1. DOMAIN Work = 1 .. n
  BY WorkFits
<1>2. \A i \in 1 .. n : Work[i] = Chunk(Nth(i)[1], Nth(i)[2])
  BY DEF Work
<1>3. \E i \in Mine(q) : t \in Work[i].ids
  <2>1. PICK s \in Starts(q) : t \in Chunk(q, s).ids
    BY OneChunk
  <2>2. <<q, s>> \in Calls
    BY DEF Calls
  <2>3. PICK i \in 1 .. n : Nth(i) = <<q, s>>
    BY <2>2, CallsNumbered
  <2>4. Work[i] = Chunk(q, s)
    BY <1>2, <2>3
  <2> QED BY <1>1, <2>1, <2>4 DEF Mine, Chunk
<1>4. ASSUME NEW i \in Mine(q), NEW j \in Mine(q), t \in Work[i].ids, t \in Work[j].ids
      PROVE  i = j
  <2>1. i \in 1 .. n /\ j \in 1 .. n /\ Work[i].question = q /\ Work[j].question = q
    BY <1>1 DEF Mine
  <2>2. Nth(i) \in Calls /\ Nth(j) \in Calls
    BY <2>1, CallsNumbered
  <2> DEFINE Its(k) == \E s \in Starts(q) : Nth(k) = <<q, s>>
  <2>0. ASSUME NEW k \in 1 .. n, Nth(k) \in Calls, Work[k].question = q PROVE Its(k)
    <3>1. PICK p \in Asked : \E s \in Starts(p) : Nth(k) = <<p, s>>
      BY <2>0 DEF Calls
    <3>2. Nth(k)[1] = p
      BY <3>1
    <3>3. Work[k] = Chunk(Nth(k)[1], Nth(k)[2])
      BY <1>2
    <3>4. p = q
      BY <2>0, <3>2, <3>3 DEF Chunk
    <3> QED BY <3>1, <3>4
  <2>3. PICK r \in Starts(q) : Nth(i) = <<q, r>>
    <3>1. Its(i)
      <4> HIDE DEF Its, n
      <4> QED BY <2>1, <2>2, <2>0
    <3> QED BY <3>1
  <2>4. PICK s \in Starts(q) : Nth(j) = <<q, s>>
    <3>1. Its(j)
      <4> HIDE DEF Its, n
      <4> QED BY <2>1, <2>2, <2>0
    <3> QED BY <3>1
  <2>5. t \in Chunk(q, r).ids /\ t \in Chunk(q, s).ids
    BY <1>2, <1>4, <2>1, <2>3, <2>4
  <2>6. Nth(i) = Nth(j)
    BY <2>3, <2>4, <2>5, OneChunk
  <2> QED BY <2>1, <2>6, CallsNumbered
<1> QED BY <1>3, <1>4

-----------------------------------------------------------------------------
(* What is kept of a reply, and who is selected. *)

\* What the engine holds for the candidates of a call.
Exact(w) == [t \in w.ids |-> logits[w.question][t]]

\* Every flaw is seen, and an accepted reply is kept as it was.
LEMMA AcceptedIsExact ==
  ASSUME NEW w, NEW r \in Truthful(w) \union Spoilt(w), Valid(w, r)
  PROVE  Kept(w, r) = Exact(w)
<1>1. CASE r \in Truthful(w)
  <2>1. PICK sampled \in {{}} \union {{u} : u \in Token} :
             r.row = [t \in w.ids \union sampled |-> logits[w.question][t]]
    BY <1>1 DEF Truthful
  <2>2. \A t \in w.ids : r.row[t] = logits[w.question][t]
    BY <2>1
  <2> QED BY <2>2 DEF Kept, Exact
<1>2. CASE r \in Spoilt(w)
  <2> DEFINE Flawed(s) ==
               {[s EXCEPT !.finish = "stop"], [s EXCEPT !.prompt = @ - 1],
                [s EXCEPT !.completion = 2], [s EXCEPT !.cached = PromptLen + 1]}
               \union {[s EXCEPT !.row = [t \in DOMAIN s.row \ {u} |-> s.row[t]]] : u \in w.ids}
               \union {[s EXCEPT !.row[u] = Masked] : u \in w.ids}
  <2>1. PICK s \in Truthful(w) : r \in Flawed(s)
    <3>1. Spoilt(w) = UNION {Flawed(s) : s \in Truthful(w)}
      BY DEF Spoilt
    <3> HIDE DEF Flawed
    <3> QED BY <1>2, <3>1
  <2>2. PICK sampled \in {{}} \union {{u} : u \in Token} :
             /\ s.row = [t \in w.ids \union sampled |-> logits[w.question][t]]
             /\ s = [finish |-> "length", prompt |-> PromptLen, completion |-> 1,
                     cached |-> s.cached, row |-> s.row]
    BY DEF Truthful
  <2>3. /\ r.finish = "length" /\ r.prompt = 9 /\ r.completion = 1
        /\ r.cached = -1 \/ r.cached \in 0 .. r.prompt
        /\ \A t \in w.ids : t \in DOMAIN r.row /\ r.row[t] # Masked
    BY DEF Valid, PromptLen, Unknown
  <2>4. r # [s EXCEPT !.finish = "stop"]
    BY <2>2, <2>3
  <2>5. r # [s EXCEPT !.prompt = @ - 1]
    BY <2>2, <2>3 DEF PromptLen
  <2>6. r # [s EXCEPT !.completion = 2]
    BY <2>2, <2>3
  <2>7. r # [s EXCEPT !.cached = PromptLen + 1]
    BY <2>2, <2>3 DEF PromptLen
  <2>8. ASSUME NEW u \in w.ids, r = [s EXCEPT !.row = [t \in DOMAIN s.row \ {u} |-> s.row[t]]]
        PROVE  FALSE
    <3>1. r.row = [t \in DOMAIN s.row \ {u} |-> s.row[t]]
      BY <2>2, <2>8
    <3>2. u \notin DOMAIN r.row
      BY <3>1
    <3> QED BY <2>3, <3>2
  <2>9. ASSUME NEW u \in w.ids, r = [s EXCEPT !.row[u] = Masked] PROVE FALSE
    <3>1. r.row = [s.row EXCEPT ![u] = Masked]
      BY <2>2, <2>9
    <3>2. u \in DOMAIN s.row
      BY <2>2
    <3>3. r.row[u] = Masked
      BY <3>1, <3>2
    <3> QED BY <2>3, <3>3
  <2> QED BY <2>1, <2>4, <2>5, <2>6, <2>7, <2>8, <2>9
<1> QED BY <1>1, <1>2

\* Among finitely many scores there is a highest.
LEMMA HighestIs ==
  ASSUME NEW n \in Nat \ {0}, NEW s \in [1 .. n -> Int]
  PROVE  \E t \in 1 .. n : \A u \in 1 .. n : s[t] >= s[u]
<1> DEFINE Has(m) == \E t \in 1 .. m : \A u \in 1 .. m : s[t] >= s[u]
           Bad == {m \in 1 .. n : ~Has(m)}
<1>1. Bad = {}
  <2> SUFFICES ASSUME Bad # {} PROVE FALSE
    OBVIOUS
  <2>1. Bad \in SUBSET Nat
    OBVIOUS
  <2>2. PICK m \in Bad : \A k \in Bad : m <= k
    <3> HIDE DEF Bad
    <3> QED BY <2>1, MinNat
  <2>3. m \in 1 .. n /\ ~Has(m)
    BY <2>2
  <2>4. Has(1)
    OBVIOUS
  <2>5. m - 1 \in 1 .. n /\ m - 1 \in Nat /\ m # 1
    <3>1. m # 1
      BY <2>3, <2>4
    <3> QED BY <2>3, <3>1
  <2>6. Has(m - 1)
    <3>1. m - 1 \notin Bad
      <4>1. ~(m <= m - 1)
        BY <2>3
      <4> HIDE DEF Bad
      <4> QED BY <2>2, <4>1
    <3> HIDE DEF Has
    <3> QED BY <2>5, <3>1
  <2>7. PICK t \in 1 .. m - 1 : \A u \in 1 .. m - 1 : s[t] >= s[u]
    BY <2>6
  <2>8. t \in 1 .. n /\ m \in 1 .. n /\ s[t] \in Int /\ s[m] \in Int
    BY <2>3, <2>7
  <2>9. CASE s[t] >= s[m]
    <3>1. \A u \in 1 .. m : u = m \/ u \in 1 .. m - 1
      BY <2>3
    <3>2. t \in 1 .. m /\ \A u \in 1 .. m : s[t] >= s[u]
      <4>1. ASSUME NEW u \in 1 .. m PROVE s[t] >= s[u]
        <5>1. CASE u = m
          BY <2>9, <5>1
        <5>2. CASE u \in 1 .. m - 1
          BY <2>7, <5>2
        <5> QED BY <3>1, <5>1, <5>2
      <4>2. t \in 1 .. m
        BY <2>3
      <4> QED BY <4>1, <4>2
    <3>3. Has(m)
      BY <3>2
    <3> HIDE DEF Has
    <3> QED BY <2>3, <3>3
  <2>10. CASE s[m] > s[t]
    <3>1. \A u \in 1 .. m : u = m \/ u \in 1 .. m - 1
      BY <2>3
    <3>2. \A u \in 1 .. m : s[u] \in Int
      BY <2>3
    <3>3. \A u \in 1 .. m : s[m] >= s[u]
      <4> SUFFICES ASSUME NEW u \in 1 .. m PROVE s[m] >= s[u]
        OBVIOUS
      <4>1. CASE u = m
        BY <2>8, <4>1
      <4>2. CASE u \in 1 .. m - 1
        <5>1. s[t] >= s[u]
          BY <2>7, <4>2
        <5> QED BY <2>8, <2>10, <3>2, <5>1, SMTT(40)
      <4> QED BY <3>1, <4>1, <4>2
    <3>4. m \in 1 .. m
      BY <2>3
    <3>5. Has(m)
      BY <3>3, <3>4
    <3> HIDE DEF Has
    <3> QED BY <2>3, <3>5
  <2> QED BY <2>8, <2>9, <2>10
<1>2. n \in 1 .. n
  OBVIOUS
<1>3. Has(n)
  <2> HIDE DEF Has
  <2> QED BY <1>1, <1>2
<1> QED BY <1>3

\* make_answer selects the first of the likeliest.
LEMMA WinnerIsBest ==
  ASSUME NEW n \in Nat \ {0}, NEW s \in [1 .. n -> Int]
  PROVE  /\ Winner(s) \in 1 .. n
         /\ \A t \in 1 .. n : \/ s[t] < s[Winner(s)]
                              \/ s[t] = s[Winner(s)] /\ t >= Winner(s)
<1> DEFINE Best == {t \in DOMAIN s : \A u \in DOMAIN s : s[t] >= s[u]}
<1>1. DOMAIN s = 1 .. n /\ \A t \in 1 .. n : s[t] \in Int
  OBVIOUS
<1>2. Best # {} /\ Best \in SUBSET Nat
  <2>1. PICK t \in 1 .. n : \A u \in 1 .. n : s[t] >= s[u]
    BY HighestIs
  <2> QED BY <1>1, <2>1
<1>3. Min(Best) \in Best /\ \A t \in Best : Min(Best) <= t
  <2> HIDE DEF Best
  <2> QED BY <1>2, MinNat
<1> DEFINE w == Min(Best)
<1>4. w \in 1 .. n /\ (\A u \in 1 .. n : s[w] >= s[u]) /\ (\A t \in Best : w <= t)
  BY <1>1, <1>3
<1>5. ASSUME NEW t \in 1 .. n PROVE s[t] < s[w] \/ (s[t] = s[w] /\ t >= w)
  <2>1. s[t] \in Int /\ s[w] \in Int /\ s[w] >= s[t]
    <3> HIDE DEF w
    <3> QED BY <1>1, <1>4
  <2>2. ASSUME s[t] = s[w] PROVE t >= w
    <3>1. \A u \in 1 .. n : s[t] >= s[u]
      <4> HIDE DEF w
      <4> QED BY <1>4, <2>2
    <3>2. t \in Best
      BY <1>1, <3>1
    <3>3. w <= t
      <4> HIDE DEF w, Best
      <4> QED BY <1>4, <3>2
    <3>4. w \in Int
      <4> HIDE DEF w
      <4> QED BY <1>4
    <3> HIDE DEF w
    <3> QED BY <3>3, <3>4
  <2> HIDE DEF w
  <2> QED BY <2>1, <2>2
<1>6. Winner(s) = w
  BY DEF Winner
<1> HIDE DEF w
<1> QED BY <1>4, <1>5, <1>6

-----------------------------------------------------------------------------
(* The invariant. *)

InputFits == /\ OptionsFit
             /\ logits \in [Asked -> [Token -> Scores]]
             /\ mode \in {"primed", "serial", "parallel"}
             /\ mode = "primed" => Len(Work) > 1

\* A result is missing or exact, and stands at the place of its call.
ResultsExact == /\ results = [i \in DOMAIN Remaining |-> results[i]]
                /\ \A i \in DOMAIN Remaining : results[i] \in {Nothing, Exact(Remaining[i])}
                /\ primed \in {Nothing, Exact(Work[1])}

AssemblyInv == InputFits /\ ResultsExact /\ AnswersAreTheEngines

-----------------------------------------------------------------------------
\* The remaining calls are the items of work but for a primed one.
LEMMA RemainingIs ==
  ASSUME InputFits
  PROVE  LET k == IF mode = "primed" THEN 1 ELSE 0
         IN  /\ Len(Work) - k \in Nat /\ DOMAIN Remaining = 1 .. Len(Work) - k
             /\ \A i \in DOMAIN Remaining : i + k \in DOMAIN Work /\ Remaining[i] = Work[i + k]
<1>1. Len(Work) \in Nat /\ DOMAIN Work = 1 .. Len(Work) /\ (mode = "primed" => Len(Work) > 1)
  BY WorkFits DEF InputFits
<1>2. CASE mode = "primed"
  <2> DEFINE T == {Work[i] : i \in DOMAIN Work}
  <2>1. Work \in Seq(T)
    BY WorkFits DEF InputFits
  <2>2. Remaining = Tail(Work)
    BY <1>2 DEF Remaining
  <2> HIDE DEF T
  <2>3. /\ DOMAIN Tail(Work) = 1 .. Len(Work) - 1
        /\ \A i \in 1 .. Len(Work) - 1 : Tail(Work)[i] = Work[i + 1]
    BY <1>1, <1>2, <2>1
  <2>4. \A i \in 1 .. Len(Work) - 1 : i + 1 \in 1 .. Len(Work)
    BY <1>1
  <2> QED BY <1>1, <1>2, <2>2, <2>3, <2>4
<1>3. CASE mode # "primed"
  <2>1. Remaining = Work
    BY <1>3 DEF Remaining
  <2>2. \A i \in 1 .. Len(Work) : i + 0 = i
    BY <1>1
  <2> QED BY <1>1, <1>3, <2>1, <2>2
<1> QED BY <1>2, <1>3

\* An exact result is one: it holds the candidates of its call.
LEMMA ExactFits ==
  ASSUME InputFits, NEW i \in DOMAIN Work
  PROVE  Exact(Work[i]) \in [Work[i].ids -> Scores] /\ Exact(Work[i]) # Nothing
<1> DEFINE w == Work[i]
<1>1. w.question \in Asked /\ w.ids \in SUBSET (1 .. options[w.question]) /\ w.ids # {}
  BY WorkFits DEF InputFits
<1>2. \A t \in w.ids : t \in Token
  <2> HIDE DEF w
  <2>1. options[w.question] \in 2 .. MaxOptions
    BY <1>1 DEF InputFits, OptionsFit
  <2> QED BY <1>1, <2>1, AssemblyAssumption DEF Token
<1>3. Exact(w) \in [w.ids -> Scores]
  <2> HIDE DEF w
  <2> QED BY <1>1, <1>2 DEF Exact, InputFits
<1>4. Exact(w) # Nothing
  <2>1. DOMAIN Exact(w) = w.ids
    BY DEF Exact
  <2>2. DOMAIN Nothing = {}
    BY DEF Nothing
  <2> HIDE DEF w
  <2> QED BY <1>1, <2>1, <2>2
<1> QED BY <1>3, <1>4

\* The primed result goes back to the front: results meet their calls.
LEMMA AlignedIs ==
  ASSUME InputFits, ResultsExact, Missing = {}, mode = "primed" => primed # Nothing
  PROVE  \A i \in DOMAIN Work : Aligned[i] = Exact(Work[i])
<1> DEFINE k == IF mode = "primed" THEN 1 ELSE 0
           n == Len(Work) - k
<1>1. /\ Len(Work) \in Nat /\ DOMAIN Work = 1 .. Len(Work) /\ n \in Nat
      /\ DOMAIN Remaining = 1 .. n /\ DOMAIN results = 1 .. n
      /\ \A i \in 1 .. n : Remaining[i] = Work[i + k]
  BY RemainingIs, WorkFits DEF InputFits, ResultsExact
<1>2. \A i \in 1 .. n : results[i] = Exact(Remaining[i])
  BY <1>1 DEF ResultsExact, Missing
<1>3. CASE mode = "primed"
  <2> DEFINE T == {results[i] : i \in 1 .. n} \union {primed}
  <2>1. results \in Seq(T) /\ Len(results) = n
    <3>1. results \in [1 .. n -> T]
      BY <1>1 DEF ResultsExact
    <3> HIDE DEF T, n
    <3> QED BY <1>1, <3>1
  <2>2. Aligned = <<primed>> \o results /\ <<primed>> \in Seq(T)
    BY <1>3 DEF Aligned
  <2>3. primed = Exact(Work[1])
    BY <1>3 DEF ResultsExact
  <2>4. n = Len(Work) - 1 /\ k = 1
    BY <1>3
  <2> HIDE DEF T, n, k
  <2>5. Aligned[1] = primed /\ \A i \in 2 .. n + 1 : Aligned[i] = results[i - 1]
    BY <1>1, <2>1, <2>2
  <2>6. ASSUME NEW i \in 1 .. Len(Work) PROVE Aligned[i] = Exact(Work[i])
    <3>1. CASE i = 1
      BY <2>3, <2>5, <3>1
    <3>2. CASE i # 1
      <4>1. i - 1 \in 1 .. n /\ i \in 2 .. n + 1 /\ (i - 1) + 1 = i
        BY <1>1, <2>4, <3>2
      <4>2. results[i - 1] = Exact(Remaining[i - 1]) /\ Remaining[i - 1] = Work[i]
        BY <1>1, <1>2, <2>4, <4>1
      <4> QED BY <2>5, <4>1, <4>2
    <3> QED BY <3>1, <3>2
  <2> QED BY <1>1, <2>6
<1>4. CASE mode # "primed"
  <2>1. Aligned = results /\ k = 0 /\ n = Len(Work)
    BY <1>1, <1>4 DEF Aligned
  <2>2. \A i \in 1 .. n : i + 0 = i
    BY <1>1
  <2> HIDE DEF n, k
  <2> QED BY <1>1, <1>2, <2>1, <2>2
<1> QED BY <1>3, <1>4

\* Nothing is found twice or missing, and each question gets its own.
LEMMA AssembledIs ==
  ASSUME InputFits, ResultsExact, Missing = {}, mode = "primed" => primed # Nothing
  PROVE  /\ ~Duplicate /\ ~Incomplete
         /\ \A q \in Asked : Collected(q) = [t \in 1 .. options[q] |-> logits[q][t]]
<1>1. \A i \in DOMAIN Work : Aligned[i] = Exact(Work[i])
  BY AlignedIs
<1>2. \A i \in DOMAIN Work : Tokens(i) = Work[i].ids
  BY <1>1 DEF Tokens, Exact
<1>3. \A q \in Asked : Mine(q) \in SUBSET (DOMAIN Work) /\ \A i \in Mine(q) : Work[i].question = q
  BY DEF Mine
<1>4. \A q \in Asked : \A i \in Mine(q) : /\ Tokens(i) = Work[i].ids
                                         /\ Tokens(i) \in SUBSET (1 .. options[q])
  BY <1>2, <1>3, WorkFits DEF InputFits
<1>5. \A q \in Asked : \A t \in 1 .. options[q] :
         /\ \E i \in Mine(q) : t \in Work[i].ids
         /\ \A i, j \in Mine(q) : t \in Work[i].ids /\ t \in Work[j].ids => i = j
  BY EachOnce DEF InputFits
<1>6. ~Duplicate
  <2> SUFFICES ASSUME NEW q \in Asked, NEW i \in Mine(q), NEW j \in Mine(q), i # j,
                      NEW t \in Tokens(i) \intersect Tokens(j)
               PROVE  FALSE
    BY DEF Duplicate
  <2>1. t \in 1 .. options[q] /\ t \in Work[i].ids /\ t \in Work[j].ids
    BY <1>4
  <2> QED BY <1>5, <2>1
<1>7. ~Incomplete
  <2> SUFFICES ASSUME NEW q \in Asked PROVE UNION {Tokens(i) : i \in Mine(q)} = 1 .. options[q]
    BY DEF Incomplete
  <2>1. ASSUME NEW t \in 1 .. options[q] PROVE t \in UNION {Tokens(i) : i \in Mine(q)}
    BY <1>4, <1>5
  <2>2. ASSUME NEW t \in UNION {Tokens(i) : i \in Mine(q)} PROVE t \in 1 .. options[q]
    BY <1>4
  <2> QED BY <2>1, <2>2
<1>8. ASSUME NEW q \in Asked PROVE Collected(q) = [t \in 1 .. options[q] |-> logits[q][t]]
  <2> SUFFICES ASSUME NEW t \in 1 .. options[q]
               PROVE  Aligned[CHOOSE i \in Mine(q) : t \in Tokens(i)][t] = logits[q][t]
    BY DEF Collected
  <2> DEFINE i == CHOOSE i \in Mine(q) : t \in Tokens(i)
  <2>1. i \in Mine(q) /\ t \in Tokens(i)
    <3>1. \E j \in Mine(q) : t \in Tokens(j)
      BY <1>4, <1>5
    <3> QED BY <3>1
  <2> HIDE DEF i
  <2>2. Aligned[i] = Exact(Work[i]) /\ Work[i].question = q /\ t \in Work[i].ids
    BY <1>1, <1>3, <1>4, <2>1
  <2>3. Aligned[i][t] = logits[q][t]
    BY <2>2 DEF Exact
  <2> QED BY <2>3 DEF i
<1> QED BY <1>6, <1>7, <1>8

-----------------------------------------------------------------------------
(* The steps. *)

\* No step changes the question, nor then the division into calls.
LEMMA SameInput ==
  ASSUME UNCHANGED input
  PROVE  /\ Work' = Work /\ Remaining' = Remaining
         /\ \A w : Exact(w)' = Exact(w)
         /\ InputFits => InputFits'
<1>1. options' = options /\ logits' = logits /\ mode' = mode
  BY DEF input
<1>2. \A q : Starts(q)' = Starts(q)
  BY <1>1 DEF Starts
<1>3. Calls' = Calls
  BY <1>2 DEF Calls
<1>4. \A w : UpTo(w)' = UpTo(w)
  BY <1>3 DEF UpTo
<1>5. \A i : Nth(i)' = Nth(i)
  BY <1>3, <1>4 DEF Nth
<1>6. \A q, from : Chunk(q, from)' = Chunk(q, from)
  BY <1>1 DEF Chunk
<1>7. Work' = Work
  BY <1>3, <1>5, <1>6 DEF Work
<1>8. Remaining' = Remaining
  BY <1>1, <1>7 DEF Remaining
<1>9. \A w : Exact(w)' = Exact(w)
  BY <1>1 DEF Exact
<1>10. InputFits => InputFits'
  BY <1>1, <1>7 DEF InputFits, OptionsFit
<1> QED BY <1>7, <1>8, <1>9, <1>10

LEMMA InitAssemblyInv == AssemblyInit => AssemblyInv
<1> SUFFICES ASSUME AssemblyInit PROVE AssemblyInv
  OBVIOUS
<1>1. InputFits
  BY DEF AssemblyInit, InputFits, OptionsFit
<1>2. ResultsExact
  BY DEF AssemblyInit, ResultsExact
<1>3. AnswersAreTheEngines
  BY DEF AssemblyInit, AnswersAreTheEngines
<1> QED BY <1>1, <1>2, <1>3 DEF AssemblyInv

LEMMA PrimeKeeps == ASSUME AssemblyInv, Prime PROVE AssemblyInv'
<1>1. UNCHANGED input /\ UNCHANGED <<results, response>> /\ mode = "primed" /\ primed = Nothing
  BY DEF Prime
<1>2. InputFits /\ ResultsExact /\ AnswersAreTheEngines
  BY DEF AssemblyInv
<1>3. /\ Work' = Work /\ Remaining' = Remaining /\ (\A w : Exact(w)' = Exact(w))
      /\ InputFits' /\ mode' = mode
  BY <1>1, <1>2, SameInput DEF input
<1>4. \/ primed' = Exact(Work[1]) /\ status' = status
      \/ primed' = primed /\ status' = "error"
  <2>1. PICK r \in Truthful(Work[1]) \union Spoilt(Work[1]) :
             IF Valid(Work[1], r) THEN primed' = Kept(Work[1], r) /\ UNCHANGED status
                                  ELSE status' = "error" /\ UNCHANGED primed
    BY DEF Prime
  <2>2. CASE Valid(Work[1], r)
    <3>1. Kept(Work[1], r) = Exact(Work[1])
      BY <2>2, AcceptedIsExact
    <3> QED BY <2>1, <2>2, <3>1
  <2>3. CASE ~Valid(Work[1], r)
    BY <2>1, <2>3
  <2> QED BY <2>2, <2>3
<1>5. ResultsExact'
  BY <1>1, <1>2, <1>3, <1>4 DEF ResultsExact
<1>6. status = "scoring"
  BY DEF Prime
<1>7. AnswersAreTheEngines'
  BY <1>1, <1>3, <1>4, <1>6 DEF AnswersAreTheEngines
<1> QED BY <1>3, <1>5, <1>7 DEF AssemblyInv

LEMMA ReturnsKeeps ==
  ASSUME AssemblyInv, NEW i \in DOMAIN results, Returns(i) PROVE AssemblyInv'
<1>1. /\ UNCHANGED input /\ UNCHANGED <<primed, response>> /\ status = "scoring"
      /\ i \in Missing
  BY DEF Returns
<1>2. InputFits /\ ResultsExact /\ AnswersAreTheEngines
  BY DEF AssemblyInv
<1>3. /\ Work' = Work /\ Remaining' = Remaining /\ (\A w : Exact(w)' = Exact(w))
      /\ InputFits' /\ mode' = mode
  BY <1>1, <1>2, SameInput DEF input
<1> DEFINE w == Remaining[i]
<1>4. \/ results' = [results EXCEPT ![i] = Exact(w)] /\ status' = status
      \/ results' = results /\ status' = "error"
  <2>1. PICK r \in Truthful(w) \union Spoilt(w) :
             IF Valid(w, r) THEN results' = [results EXCEPT ![i] = Kept(w, r)] /\ UNCHANGED status
                            ELSE status' = "error" /\ UNCHANGED results
    BY DEF Returns
  <2> HIDE DEF w
  <2>2. CASE Valid(w, r)
    <3>1. Kept(w, r) = Exact(w)
      BY <2>2, AcceptedIsExact
    <3> QED BY <2>1, <2>2, <3>1
  <2>3. CASE ~Valid(w, r)
    BY <2>1, <2>3
  <2> QED BY <2>2, <2>3
<1>5. ResultsExact'
  <2>1. CASE results' = [results EXCEPT ![i] = Exact(w)]
    BY <1>1, <1>2, <1>3, <2>1 DEF ResultsExact
  <2>2. CASE results' = results
    BY <1>1, <1>2, <1>3, <2>2 DEF ResultsExact
  <2> QED BY <1>4, <2>1, <2>2
<1>6. AnswersAreTheEngines'
  <2>1. CASE status' = status
    BY <1>1, <2>1 DEF AnswersAreTheEngines
  <2>2. CASE results' = results /\ status' = "error"
    <3>1. i \in Missing'
      BY <1>1, <2>2 DEF Missing
    <3> QED BY <2>2, <3>1 DEF AnswersAreTheEngines
  <2> QED BY <1>4, <2>1, <2>2
<1> QED BY <1>3, <1>5, <1>6 DEF AssemblyInv

\* What a question is told, if its scores are the engine's.
LEMMA ToldIs ==
  ASSUME InputFits, NEW q \in Asked
  PROVE  LET s == [t \in 1 .. options[q] |-> logits[q][t]]
         IN  \A t \in 1 .. options[q] : \/ logits[q][t] < logits[q][Winner(s)]
                                        \/ logits[q][t] = logits[q][Winner(s)] /\ t >= Winner(s)
<1> DEFINE n == options[q]
           s == [t \in 1 .. n |-> logits[q][t]]
<1>1. n \in 2 .. MaxOptions /\ n \in Nat \ {0} /\ \A t \in 1 .. n : t \in Token
  BY AssemblyAssumption DEF InputFits, OptionsFit, Token
<1>2. s \in [1 .. n -> Int] /\ \A t \in 1 .. n : s[t] = logits[q][t]
  <2>1. \A t \in 1 .. n : logits[q][t] \in Int
    <3> HIDE DEF n
    <3> QED BY <1>1, AssemblyAssumption DEF InputFits
  <2> QED BY <2>1
<1>3. /\ Winner(s) \in 1 .. n
      /\ \A t \in 1 .. n : s[t] < s[Winner(s)] \/ (s[t] = s[Winner(s)] /\ t >= Winner(s))
  <2> HIDE DEF s, n
  <2> QED BY <1>1, <1>2, WinnerIsBest
<1>4. \A t \in 1 .. n : \/ logits[q][t] < logits[q][Winner(s)]
                        \/ logits[q][t] = logits[q][Winner(s)] /\ t >= Winner(s)
  <2> HIDE DEF s, n
  <2> QED BY <1>2, <1>3
<1> QED BY <1>4

LEMMA AssembleKeeps == ASSUME AssemblyInv, Assemble PROVE AssemblyInv'
<1>1. /\ UNCHANGED input /\ UNCHANGED <<primed, results>>
      /\ status = "scoring" /\ Missing = {} /\ (mode = "primed" => primed # Nothing)
  BY DEF Assemble
<1>2. InputFits /\ ResultsExact
  BY DEF AssemblyInv
<1>3. /\ Work' = Work /\ Remaining' = Remaining /\ (\A w : Exact(w)' = Exact(w))
      /\ InputFits' /\ mode' = mode /\ options' = options /\ logits' = logits
  BY <1>1, <1>2, SameInput DEF input
<1>4. ResultsExact'
  BY <1>1, <1>2, <1>3 DEF ResultsExact
<1>5. /\ status' = "answered"
      /\ response' = [q \in Asked |-> [scores |-> Collected(q), selected |-> Winner(Collected(q))]]
  BY <1>1, <1>2, AssembledIs DEF Assemble
<1>6. ASSUME NEW q \in Asked
      PROVE  /\ response'[q].scores = [t \in 1 .. options[q] |-> logits[q][t]]
             /\ \A t \in 1 .. options[q] :
                   \/ logits[q][t] < logits[q][response'[q].selected]
                   \/ /\ logits[q][t] = logits[q][response'[q].selected]
                      /\ t >= response'[q].selected
  <2> DEFINE s == [t \in 1 .. options[q] |-> logits[q][t]]
  <2>1. Collected(q) = s
    BY <1>1, <1>2, AssembledIs
  <2>2. response'[q].scores = s /\ response'[q].selected = Winner(s)
    <3> HIDE DEF s
    <3> QED BY <1>5, <2>1
  <2>3. \A t \in 1 .. options[q] : \/ logits[q][t] < logits[q][Winner(s)]
                                   \/ logits[q][t] = logits[q][Winner(s)] /\ t >= Winner(s)
    BY <1>2, ToldIs
  <2> QED BY <2>2, <2>3
<1>7. AnswersAreTheEngines'
  BY <1>3, <1>5, <1>6 DEF AnswersAreTheEngines
<1> QED BY <1>3, <1>4, <1>7 DEF AssemblyInv

LEMMA NextAssemblyInv == AssemblyInv /\ [AssemblyNext]_assemblyVars => AssemblyInv'
<1> SUFFICES ASSUME AssemblyInv, [AssemblyNext]_assemblyVars PROVE AssemblyInv'
  OBVIOUS
<1>1. CASE UNCHANGED assemblyVars
  <2>1. UNCHANGED input /\ UNCHANGED <<primed, results, status, response, options, logits, mode>>
    BY <1>1 DEF assemblyVars, input
  <2>2. /\ Work' = Work /\ Remaining' = Remaining /\ (\A w : Exact(w)' = Exact(w))
        /\ InputFits'
    BY <2>1, SameInput DEF AssemblyInv
  <2>3. Missing' = Missing
    BY <2>1 DEF Missing
  <2>4. ResultsExact'
    BY <2>1, <2>2 DEF ResultsExact, AssemblyInv
  <2>5. AnswersAreTheEngines'
    BY <2>1, <2>3 DEF AnswersAreTheEngines, AssemblyInv
  <2> QED BY <2>2, <2>4, <2>5 DEF AssemblyInv
<1> QED BY <1>1, PrimeKeeps, ReturnsKeeps, AssembleKeeps DEF AssemblyNext, AssemblyOver

\* What is kept is exact at every moment (service.py:156-198).
THEOREM AssemblyInvariance == AssemblySpec => []AssemblyInv
BY InitAssemblyInv, NextAssemblyInv, PTL DEF AssemblySpec

\* A result holds scores for the candidates of its own call and no others
\* (backend.py:146-155).
THEOREM AssemblyTypeCorrect == AssemblySpec => []AssemblyTypeOK
<1>1. AssemblyInv => AssemblyTypeOK
  <2> SUFFICES ASSUME InputFits, ResultsExact PROVE AssemblyTypeOK
    BY DEF AssemblyInv
  <2>1. ASSUME NEW i \in DOMAIN results
        PROVE  results[i] = Nothing \/ results[i] \in [Remaining[i].ids -> Scores]
    <3>1. i \in DOMAIN Remaining /\ results[i] \in {Nothing, Exact(Remaining[i])}
      BY DEF ResultsExact
    <3>2. PICK j \in DOMAIN Work : Remaining[i] = Work[j]
      BY <3>1, RemainingIs
    <3> QED BY <3>1, <3>2, ExactFits
  <2>2. 1 \in DOMAIN Work
    <3>1. 1 \in Asked /\ 1 \in 1 .. options[1] /\ OptionsFit
      BY AssemblyAssumption DEF InputFits, OptionsFit, Asked
    <3>2. PICK i \in Mine(1) : 1 \in Work[i].ids
      BY <3>1, EachOnce
    <3>3. i \in DOMAIN Work /\ DOMAIN Work = 1 .. Len(Work) /\ Len(Work) \in Nat
      BY <3>1, WorkFits DEF Mine
    <3> QED BY <3>3
  <2>3. primed = Nothing \/ primed \in [Work[1].ids -> Scores]
    BY <2>2, ExactFits DEF ResultsExact
  <2> QED BY <2>1, <2>3 DEF AssemblyTypeOK
<1> QED BY <1>1, AssemblyInvariance, PTL

\* For every number of questions and of options, every size of a chunk and
\* every order in which the calls return, a response tells for each question
\* what the engine holds for all of its options and selects the first of the
\* best; a request fails only for a refused reply (service.py:156-198).
THEOREM TheAnswersAreTheEngines == AssemblySpec => []AnswersAreTheEngines
<1>1. AssemblyInv => AnswersAreTheEngines
  BY DEF AssemblyInv
<1> QED BY <1>1, AssemblyInvariance, PTL

-----------------------------------------------------------------------------
(* The verdict on the cache: what the engine may hold under each salt, and  *)
(* what this means for the cold and for the warm answers.                   *)

\* The first cold call of a question finds nothing: it has a salt of its own,
\* and the others wait for it.
ColdIsFresh == \A q \in Questions : /\ step = "cold" /\ q \in cache => <<q, 1>> \notin todo
                                    /\ <<q, 1>> \notin reused["cold"]

\* An engine that caches and has not evicted holds the document from the
\* first shared call on, and every call of the warm request reuses it.
SharedIsHeld == engine.caches /\ ~evicted =>
                  /\ step = "warm" \/ (step = "primed" /\ todo # ScoringCalls) => Shared \in cache
                  /\ step = "warm" => \A k \in ScoringCalls \ todo : k \in reused["warm"]

Judged == /\ step = "over" <=> verdict # "none"
          /\ step = "over" => todo = {}

CacheInv == TypeOK /\ ColdIsFresh /\ SharedIsHeld /\ Judged /\ VerdictIsRight

\* Every question has a first call, and the calls of a request are finitely many.
LEMMA CallsAre ==
  /\ Shared \notin Questions /\ 1 \in Questions
  /\ \A q \in Questions : 1 \in Parts(q)
  /\ \A q \in Questions : \A c \in Parts(q) : <<q, c>> \in ScoringCalls
  /\ IsFiniteSet(ScoringCalls) /\ ScoringCalls # {}
<1>1. Shared \notin Questions /\ 1 \in Questions
  BY CheckAssumption DEF Shared, Questions
<1>2. ASSUME NEW q \in Questions PROVE 1 \in Parts(q) /\ IsFiniteSet(Parts(q))
  <2>1. Chunks[q] \in Nat \ {0}
    BY CheckAssumption
  <2> QED BY <2>1, FS_Interval DEF Parts
<1>3. \A q \in Questions : \A c \in Parts(q) : <<q, c>> \in ScoringCalls
  BY DEF ScoringCalls
<1>4. IsFiniteSet(ScoringCalls)
  <2>1. IsFiniteSet(Questions)
    BY CheckAssumption, FS_Interval DEF Questions
  <2>2. \A q \in Questions : IsFiniteSet({q} \X Parts(q))
    BY <1>2, FS_Singleton, FS_Product
  <2> DEFINE G == [q \in Questions |-> {q} \X Parts(q)]
             T == {{q} \X Parts(q) : q \in Questions}
  <2>3. G \in Surjection(Questions, T)
    BY DEF Surjection
  <2>4. IsFiniteSet(T)
    <3> HIDE DEF G, T
    <3> QED BY <2>1, <2>3, FS_Surjection
  <2> QED BY <2>2, <2>4, FS_UNION DEF ScoringCalls
<1> QED BY <1>1, <1>2, <1>3, <1>4

LEMMA InitHolds == Init => CacheInv
<1> SUFFICES ASSUME Init PROVE CacheInv
  OBVIOUS
<1>1. TypeOK
  BY DEF Init, TypeOK, Steps
<1>2. ColdIsFresh /\ SharedIsHeld /\ Judged /\ VerdictIsRight
  BY DEF Init, ColdIsFresh, SharedIsHeld, Judged, VerdictIsRight, Steps
<1> QED BY <1>1, <1>2 DEF CacheInv

\* One call: a cold one that comes first finds nothing, a warm one something
\* unless it was evicted.
LEMMA ScoreKeeps ==
  ASSUME CacheInv, NEW q \in Questions, NEW c \in Parts(q), Score(q, c)
  PROVE  CacheInv'
<1> USE CallsAre DEF CacheInv
<1> DEFINE k == <<q, c>>
<1>1. /\ k \in todo /\ k \in ScoringCalls /\ step \in Steps /\ verdict = "none"
      /\ todo' = todo \ {k} /\ UNCHANGED <<engine, step, evicted, verdict>>
  BY DEF Score, TypeOK, Judged
<1>2. Salt(q) \in 0 .. Question /\ (step = "cold" => Salt(q) = q) /\ (step # "cold" => Salt(q) = Shared)
  BY CheckAssumption DEF Salt, Shared, Questions
<1>3. cache' = IF engine.caches THEN cache \union {Salt(q)} ELSE cache
  BY DEF Score
<1>4. \/ Salt(q) \in cache /\ reused' = [reused EXCEPT ![step] = @ \union {k}]
      \/ (Salt(q) \notin cache \/ Overlap) /\ reused' = reused
  BY DEF Score
<1>5. \A s \in Steps : \/ reused'[s] = reused[s]
                       \/ s = step /\ Salt(q) \in cache /\ reused'[s] = reused[s] \union {k}
  BY <1>1, <1>4 DEF TypeOK
<1>6. reused' \in [Steps -> SUBSET ScoringCalls]
  BY <1>1, <1>4 DEF TypeOK
<1>7. TypeOK'
  BY <1>1, <1>2, <1>3, <1>6 DEF TypeOK
<1>8. step = "cold" /\ <<q, 1>> \in todo => c = 1
  <2>1. step = "cold" /\ <<q, 1>> \in todo => c <= 1
    BY CheckAssumption DEF Score, InTurn, Questions
  <2>2. c \in Nat /\ c >= 1
    BY CheckAssumption DEF Parts
  <2> QED BY <2>1, <2>2
<1>9. ColdIsFresh'
  <2> SUFFICES ASSUME NEW p \in Questions
               PROVE  /\ step = "cold" /\ p \in cache' => <<p, 1>> \notin todo'
                      /\ <<p, 1>> \notin reused'["cold"]
    BY <1>1 DEF ColdIsFresh
  <2>1. step = "cold" /\ p \in cache' => <<p, 1>> \notin todo'
    BY <1>1, <1>2, <1>3, <1>8 DEF ColdIsFresh
  <2>2. <<p, 1>> \notin reused'["cold"]
    BY <1>1, <1>2, <1>5 DEF ColdIsFresh, Steps
  <2> QED BY <2>1, <2>2
<1>10. SharedIsHeld'
  <2> SUFFICES ASSUME engine.caches, ~evicted
               PROVE  /\ step = "warm" \/ (step = "primed" /\ todo' # ScoringCalls) => Shared \in cache'
                      /\ step = "warm" => \A j \in ScoringCalls \ todo' : j \in reused'["warm"]
    BY <1>1 DEF SharedIsHeld
  <2>1. step # "cold" => Shared \in cache'
    BY <1>2, <1>3
  <2>2. step = "warm" => Salt(q) \in cache /\ ~Overlap
    BY <1>2 DEF SharedIsHeld, Overlap
  <2>3. step = "warm" => reused'["warm"] = reused["warm"] \union {k}
    BY <1>4, <2>2 DEF TypeOK, Steps
  <2> QED BY <1>1, <2>1, <2>3 DEF SharedIsHeld
<1>11. Judged' /\ VerdictIsRight'
  BY <1>1 DEF Judged, VerdictIsRight, Steps
<1> QED BY <1>7, <1>9, <1>10, <1>11

\* What a verdict stands for depends on the engine, its evictions and what it
\* reused, and on nothing else.
LEMMA VerdictFollows ==
  ASSUME engine' = engine, evicted' = evicted, reused' = reused
  PROVE  (Worth' <=> Worth) /\ (HasCause' <=> HasCause)
<1>1. /\ \A q : ColdIsAfresh(q)' = ColdIsAfresh(q)
      /\ \A q : Afresh(q)' = Afresh(q)
      /\ \A s, q : Given(s, q)' = Given(s, q)
  BY Zenon DEF ColdIsAfresh, Afresh, Given
<1>2. \A a, b : Agree(a, b)' <=> Agree(a, b)
  BY Zenon DEF Agree
<1>3. Worth' <=> Worth
  BY <1>1, <1>2, Zenon DEF Worth
<1>4. HasCause' <=> HasCause
  BY <1>2, Zenon DEF HasCause
<1> QED BY <1>3, <1>4

\* The verdict is right when it is passed.
LEMMA JudgeKeeps == ASSUME CacheInv, Judge PROVE CacheInv'
<1> USE CallsAre DEF CacheInv
<1>1. /\ step = "warm" /\ todo = {} /\ step' = "over"
      /\ UNCHANGED <<engine, todo, cache, evicted, reused>>
      /\ verdict' = IF WithinTolerance /\ Agreement /\ HitObserved THEN "passed" ELSE "failed"
  BY DEF Judge
<1>2. TypeOK' /\ ColdIsFresh' /\ SharedIsHeld' /\ Judged'
  BY <1>1 DEF TypeOK, ColdIsFresh, SharedIsHeld, Judged, Steps
<1>3. HitObserved <=> engine.tells /\ reused["warm"] # {}
  <2>1. reused["warm"] \in SUBSET ScoringCalls
    BY DEF TypeOK, Steps
  <2>2. IsFiniteSet(reused["warm"])
    BY <2>1, FS_Subset
  <2>3. /\ Cardinality(reused["warm"]) \in Nat
        /\ Cardinality(reused["warm"]) = 0 <=> reused["warm"] = {}
    BY <2>2, FS_CardinalityType, FS_EmptySet
  <2> QED BY <2>3 DEF HitObserved, Usage
<1>4. ASSUME WithinTolerance, Agreement, HitObserved PROVE Worth
  <2>1. \E q \in Questions : \E c \in Parts(q) : <<q, c>> \in reused["warm"]
    <3>1. reused["warm"] \in SUBSET ScoringCalls /\ reused["warm"] # {}
      BY <1>3, <1>4 DEF TypeOK, Steps
    <3> QED BY <3>1 DEF ScoringCalls
  <2> SUFFICES ASSUME NEW q \in Questions
               PROVE  /\ <<q, 1>> \notin reused["cold"]
                      /\ Chunks[q] = 1 => ColdIsAfresh(q)
                      /\ ColdIsAfresh(q) => \A s \in {"primed", "warm"} : Agree(Given(s, q), Afresh(q))
    BY <2>1 DEF Worth
  <2>2. <<q, 1>> \notin reused["cold"]
    BY DEF ColdIsFresh
  <2>3. Chunks[q] = 1 => ColdIsAfresh(q)
    BY <2>2 DEF ColdIsAfresh, Parts
  <2>4. ASSUME ColdIsAfresh(q), NEW s \in {"primed", "warm"}
        PROVE  Agree(Given(s, q), Afresh(q))
    <3>1. {c \in Parts(q) : <<q, c>> \in reused["cold"]} = {}
      BY <2>4 DEF ColdIsAfresh
    <3>2. Given("cold", q) = Afresh(q)
      BY <3>1, Zenon DEF Given, Afresh
    <3>3. <<Given(s, q), Given("cold", q)>> \in Near /\ Selects[Given(s, q)] = Selects[Given("cold", q)]
      BY <1>4, Zenon DEF WithinTolerance, Agreement, Compared
    <3> QED BY <3>2, <3>3, Zenon DEF Agree
  <2> QED BY <2>2, <2>3, <2>4
<1>5. ASSUME ~HasCause PROVE WithinTolerance /\ Agreement /\ HitObserved
  <2>1. ASSUME NEW s, NEW q \in Questions PROVE Agree(Given(s, q), Given("cold", q))
    <3> DEFINE In(t) == {c \in Parts(q) : <<q, c>> \in reused[t]}
    <3>1. In(s) \in SUBSET Parts(q) /\ In("cold") \in SUBSET Parts(q)
      OBVIOUS
    <3>2. Given(s, q) = engine.answer[q][In(s)] /\ Given("cold", q) = engine.answer[q][In("cold")]
      BY Zenon DEF Given
    <3> HIDE DEF In
    <3> QED BY <1>5, <3>1, <3>2, Zenon DEF HasCause
  <2>2. WithinTolerance /\ Agreement
    BY <2>1, Zenon DEF WithinTolerance, Agreement, Agree
  <2>3. reused["warm"] # {}
    BY <1>1, <1>5 DEF SharedIsHeld, HasCause
  <2> QED BY <1>3, <1>5, <2>2, <2>3 DEF HasCause
<1>6. (Worth' <=> Worth) /\ (HasCause' <=> HasCause)
  BY <1>1, VerdictFollows
<1>7. VerdictIsRight'
  <2>1. CASE WithinTolerance /\ Agreement /\ HitObserved
    BY <1>1, <1>4, <1>6, <2>1 DEF VerdictIsRight
  <2>2. CASE ~(WithinTolerance /\ Agreement /\ HitObserved)
    BY <1>1, <1>5, <1>6, <2>2 DEF VerdictIsRight
  <2> QED BY <2>1, <2>2
<1> QED BY <1>2, <1>7

LEMMA StepKeeps == CacheInv /\ [Next]_vars => CacheInv'
<1> SUFFICES ASSUME CacheInv, [Next]_vars PROVE CacheInv'
  OBVIOUS
<1> USE CallsAre
<1>1. ASSUME NEW q \in Questions, NEW c \in Parts(q), Score(q, c) PROVE CacheInv'
  BY <1>1, ScoreKeeps
<1>2. ASSUME NEW s \in cache, Evict(s) PROVE CacheInv'
  <2>1. TypeOK' /\ ColdIsFresh' /\ Judged'
    BY <1>2 DEF CacheInv, Evict, TypeOK, ColdIsFresh, Judged
  <2>2. SharedIsHeld'
    BY <1>2 DEF CacheInv, Evict, SharedIsHeld, TypeOK
  <2>3. VerdictIsRight'
    BY <1>2 DEF CacheInv, Evict, VerdictIsRight, Judged
  <2> QED BY <2>1, <2>2, <2>3 DEF CacheInv
<1>3. CASE NextRequest
  <2>1. TypeOK' /\ ColdIsFresh' /\ Judged'
    BY <1>3 DEF CacheInv, NextRequest, TypeOK, ColdIsFresh, Judged, Steps
  <2>2. SharedIsHeld'
    BY <1>3 DEF CacheInv, NextRequest, SharedIsHeld
  <2>3. VerdictIsRight'
    BY <1>3 DEF CacheInv, NextRequest, VerdictIsRight, Judged
  <2> QED BY <2>1, <2>2, <2>3 DEF CacheInv
<1>4. CASE RequestFails
  BY <1>4 DEF CacheInv, RequestFails, TypeOK, ColdIsFresh, SharedIsHeld, Judged, VerdictIsRight
<1>5. CASE Judge
  BY <1>5, JudgeKeeps
<1>6. CASE UNCHANGED vars
  <2>1. TypeOK' /\ ColdIsFresh' /\ SharedIsHeld' /\ Judged'
    BY <1>6 DEF CacheInv, vars, TypeOK, ColdIsFresh, SharedIsHeld, Judged
  <2>2. VerdictIsRight'
    <3>1. engine' = engine /\ evicted' = evicted /\ reused' = reused /\ verdict' = verdict
      BY <1>6 DEF vars
    <3> QED BY <3>1, VerdictFollows DEF CacheInv, VerdictIsRight
  <2> QED BY <2>1, <2>2 DEF CacheInv
<1> QED BY <1>1, <1>2, <1>3, <1>4, <1>5, <1>6 DEF Next, Over

\* For every number of questions and of their calls, every engine and every
\* eviction, a pass of verify_cache is worth what Worth says and a failure has
\* a cause (client.py:277-321, service.py:153-163, 199-214).
THEOREM TheVerdictIsRight == Spec => []VerdictIsRight
<1>1. CacheInv => VerdictIsRight
  BY DEF CacheInv
<1> QED BY <1>1, InitHolds, StepKeeps, PTL DEF Spec

-----------------------------------------------------------------------------
(* Paths of a schema. *)

\* A child has its parent in front of it and its number last.
LEMMA Children ==
  ASSUME NEW q \in Seq(Nat), NEW i \in Nat
  PROVE  Append(q, i) # <<>> /\ Front(Append(q, i)) = q /\ Last(Append(q, i)) = i
<1>1. /\ Append(q, i) \in Seq(Nat) /\ Append(q, i) # <<>>
      /\ Len(Append(q, i)) = Len(q) + 1
      /\ \A k \in 1 .. Len(q) : Append(q, i)[k] = q[k]
      /\ Append(q, i)[Len(q) + 1] = i
  BY AppendProperties
<1>2. Len(q) \in Nat
  OBVIOUS
<1> DEFINE a == Append(q, i)
<1>3. /\ SubSeq(a, 1, Len(q)) \in Seq(Nat) /\ Len(SubSeq(a, 1, Len(q))) = Len(q)
      /\ \A k \in 1 .. Len(q) : SubSeq(a, 1, Len(q))[k] = a[k]
  <2>1. /\ a \in Seq(Nat) /\ Len(a) = Len(q) + 1
    BY <1>1
  <2> HIDE DEF a
  <2> QED BY <1>2, <2>1
<1>4. Front(a) = SubSeq(a, 1, Len(q))
  <2>1. Len(a) - 1 = Len(q)
    BY <1>1, <1>2
  <2> QED BY <2>1, Zenon DEF Front
<1>5. Front(a) = q
  <2>1. \A k \in 1 .. Len(q) : Front(a)[k] = q[k]
    BY <1>1, <1>3, <1>4
  <2>2. Front(a) \in Seq(Nat) /\ Len(Front(a)) = Len(q)
    BY <1>3, <1>4, Zenon
  <2> HIDE DEF a
  <2> QED BY <2>1, <2>2, SeqEqual
<1>6. Last(a) = i
  BY <1>1, Zenon DEF Last
<1> QED BY <1>1, <1>5, <1>6

\* A path that is not the root is a child of its parent.
LEMMA Parents ==
  ASSUME NEW q \in Seq(Nat), q # <<>>
  PROVE  /\ Front(q) \in Seq(Nat) /\ Last(q) \in Nat
         /\ Len(Front(q)) = Len(q) - 1 /\ Len(q) \in Nat \ {0}
         /\ q = Append(Front(q), Last(q))
<1>1. PICK s \in Seq(Nat), e \in Nat : q = Append(s, e)
  BY SequenceEmptyOrAppend
<1>2. Front(q) = s /\ Last(q) = e
  BY <1>1, Children
<1>3. Len(q) = Len(s) + 1 /\ Len(s) \in Nat
  BY <1>1, AppendProperties
<1> QED BY <1>1, <1>2, <1>3

-----------------------------------------------------------------------------
(* What a call of visit() does to the list of those to come. *)

\* Taking the first element away and putting others before the rest.
LEMMA Replaced ==
  ASSUME NEW D, NEW t \in Seq(D), t # <<>>, IsInjective(t),
         NEW c \in Seq(D), IsInjective(c), ToSet(c) \cap ToSet(t) = {}
  PROVE  /\ Head(t) \in ToSet(t)
         /\ c \o Tail(t) \in Seq(D)
         /\ ToSet(c \o Tail(t)) = ToSet(c) \union (ToSet(t) \ {Head(t)})
         /\ IsInjective(c \o Tail(t))
<1> DEFINE r == c \o Tail(t)
           n == Len(c)
           m == Len(t)
<1>1. /\ n \in Nat /\ m \in Nat /\ m >= 1 /\ DOMAIN c = 1 .. n /\ DOMAIN t = 1 .. m
      /\ Head(t) = t[1]
  OBVIOUS
<1>2. /\ Tail(t) \in Seq(D) /\ Len(Tail(t)) = m - 1
      /\ \A i \in 1 .. m - 1 : Tail(t)[i] = t[i + 1]
  BY HeadTailProperties
<1>3. /\ r \in Seq(D) /\ Len(r) = n + (m - 1)
      /\ \A i \in 1 .. n + (m - 1) : r[i] = IF i <= n THEN c[i] ELSE Tail(t)[i - n]
  BY <1>2, ConcatProperties
<1>4. DOMAIN r = 1 .. n + (m - 1)
  BY <1>3
<1> HIDE DEF r, n, m
<1>5. \A i \in 1 .. n : i \in 1 .. n + (m - 1) /\ r[i] = c[i]
  BY <1>1, <1>3
<1>6. \A i \in 2 .. m : n + i - 1 \in 1 .. n + (m - 1) /\ r[n + i - 1] = t[i]
  <2> SUFFICES ASSUME NEW i \in 2 .. m PROVE n + i - 1 \in 1 .. n + (m - 1) /\ r[n + i - 1] = t[i]
    OBVIOUS
  <2>1. n + i - 1 \in 1 .. n + (m - 1) /\ ~(n + i - 1 <= n) /\ (n + i - 1) - n = i - 1
        /\ i - 1 \in 1 .. m - 1 /\ (i - 1) + 1 = i
    BY <1>1
  <2>2. r[n + i - 1] = Tail(t)[i - 1]
    BY <1>3, <2>1
  <2> QED BY <1>2, <2>1, <2>2
<1>7. \A k \in 1 .. n + (m - 1) : k \in 1 .. n \/ \E i \in 2 .. m : k = n + i - 1
  <2> SUFFICES ASSUME NEW k \in 1 .. n + (m - 1), k \notin 1 .. n PROVE \E i \in 2 .. m : k = n + i - 1
    OBVIOUS
  <2>1. k - n + 1 \in 2 .. m /\ k = n + (k - n + 1) - 1
    BY <1>1
  <2> QED BY <2>1
<1>8. 1 \in 1 .. m /\ \A i \in 1 .. m : i = 1 \/ i \in 2 .. m
  BY <1>1
<1>9. \A i \in 2 .. m : i \in 1 .. m /\ i # 1
  BY <1>1
<1>10. \A i \in 2 .. m : t[i] # t[1]
  BY <1>1, <1>8, <1>9 DEF IsInjective
<1>11. ToSet(r) = ToSet(c) \union (ToSet(t) \ {Head(t)})
  <2>1. ASSUME NEW x \in ToSet(r) PROVE x \in ToSet(c) \/ (x \in ToSet(t) /\ x # t[1])
    <3>1. PICK k \in 1 .. n + (m - 1) : x = r[k]
      BY <1>4, <2>1 DEF ToSet
    <3>2. CASE k \in 1 .. n
      BY <1>1, <1>5, <3>1, <3>2 DEF ToSet
    <3>3. CASE k \notin 1 .. n
      <4>1. PICK i \in 2 .. m : k = n + i - 1
        BY <1>7, <3>3
      <4>2. x = t[i] /\ i \in 1 .. m
        BY <1>6, <1>9, <3>1, <4>1
      <4> QED BY <1>1, <1>10, <4>2 DEF ToSet
    <3> QED BY <3>2, <3>3
  <2>2. ASSUME NEW x \in ToSet(c) PROVE x \in ToSet(r)
    BY <1>1, <1>4, <1>5, <2>2 DEF ToSet
  <2>3. ASSUME NEW x \in ToSet(t), x # t[1] PROVE x \in ToSet(r)
    <3>1. PICK i \in 1 .. m : x = t[i]
      BY <1>1, <2>3 DEF ToSet
    <3>2. i \in 2 .. m
      BY <1>8, <2>3, <3>1
    <3>3. n + i - 1 \in DOMAIN r /\ r[n + i - 1] = x
      BY <1>4, <1>6, <3>1, <3>2
    <3> DEFINE k == n + i - 1
    <3> HIDE DEF k
    <3>4. k \in DOMAIN r /\ r[k] = x
      BY <3>3 DEF k
    <3> QED BY <3>4 DEF ToSet
  <2> QED BY <1>1, <2>1, <2>2, <2>3
<1>12. ASSUME NEW j \in 1 .. n + (m - 1), NEW k \in 1 .. n + (m - 1), r[j] = r[k] PROVE j = k
  <2>1. ASSUME NEW i \in 1 .. n, NEW l \in 2 .. m PROVE c[i] # t[l]
    <3>1. c[i] \in ToSet(c) /\ t[l] \in ToSet(t)
      BY <1>1, <1>9 DEF ToSet
    <3> QED BY <3>1
  <2>2. CASE j \in 1 .. n /\ k \in 1 .. n
    BY <1>1, <1>5, <1>12, <2>2 DEF IsInjective
  <2>3. CASE j \notin 1 .. n /\ k \notin 1 .. n
    <3>1. PICK a \in 2 .. m, b \in 2 .. m : j = n + a - 1 /\ k = n + b - 1
      BY <1>7, <2>3
    <3>2. t[a] = t[b] /\ a \in DOMAIN t /\ b \in DOMAIN t
      BY <1>1, <1>6, <1>9, <1>12, <3>1
    <3>3. a = b
      BY <3>2 DEF IsInjective
    <3> QED BY <3>1, <3>3
  <2>4. CASE j \in 1 .. n /\ k \notin 1 .. n
    BY <1>5, <1>6, <1>7, <1>12, <2>1, <2>4
  <2>5. CASE j \notin 1 .. n /\ k \in 1 .. n
    BY <1>5, <1>6, <1>7, <1>12, <2>1, <2>5
  <2> QED BY <2>2, <2>3, <2>4, <2>5
<1>13. IsInjective(r)
  BY <1>4, <1>12 DEF IsInjective
<1>14. Head(t) \in ToSet(t)
  BY <1>1, <1>8 DEF ToSet
<1> QED BY <1>3, <1>11, <1>13, <1>14 DEF r

-----------------------------------------------------------------------------
(* A traversal in order. *)

\* What holds of a traversal that has not raised: its frontier, ...
Frontier(tree, st) ==
  LET V == DOMAIN st.root
      W == ToSet(st.todo)
  IN  /\ st.todo \in Seq(DOMAIN tree) /\ IsInjective(st.todo)
      /\ V \subseteq DOMAIN tree /\ V \cap W = {} /\ <<>> \in V \union W
      /\ \A q \in V \union W : q # <<>> => Front(q) \in V
      /\ \A q \in V : \A i \in 1 .. Size(tree[q]) : Append(q, i) \in V \union W

\* ... its counts, ...
Counted(lim, st) ==
  /\ IsFiniteSet(DOMAIN st.root)
  /\ st.nodes \in Nat /\ st.nodes = Cardinality(DOMAIN st.root)
  /\ st.nodes <= lim.nodes /\ Len(st.fields) <= lim.questions

\* ... what it has drawn of the plan, ...
FieldOf(tree, p) == [path |-> p, values |-> tree[p].values]

\* A node of the plan is what the schema asks for at its path, a variable leaf
\* the index of its own field.
NodeFits(tree, p, node, fs) ==
  IF Inner(tree[p]) THEN node = [kind |-> tree[p].kind]
  ELSE IF IsVariable(tree[p])
  THEN \E i \in 1 .. Len(fs) : fs[i] = FieldOf(tree, p) /\ node = [kind |-> "choice", index |-> i]
  ELSE node = [kind |-> "constant", value |-> tree[p].values[1]]

Drawn(tree, st) ==
  /\ st.fields \in Seq({FieldOf(tree, p) : p \in DOMAIN tree})
  /\ \A i \in 1 .. Len(st.fields) :
        \E p \in DOMAIN st.root : /\ IsVariable(tree[p])
                                  /\ st.fields[i] = FieldOf(tree, p)
                                  /\ st.root[p] = [kind |-> "choice", index |-> i]
  /\ \A p \in DOMAIN st.root : NodeFits(tree, p, st.root[p], st.fields)

\* ... and that it has found no flaw.
Flawless(tree, lim, p) == /\ Len(p) < lim.depth /\ tree[p].lawful
                          /\ Inner(tree[p]) \/ LeafIsLegal(tree[p], lim)

Walk(tree, lim, st) == /\ Frontier(tree, st) /\ Counted(lim, st) /\ Drawn(tree, st)
                       /\ \A p \in DOMAIN st.root : Flawless(tree, lim, p)

\* Limits are numbers.
IsLimits(lim) == lim.depth \in Nat /\ lim.nodes \in Nat /\ lim.options \in Nat /\ lim.questions \in Nat

\* What a schema is, ready for use.
LEMMA TreeIs ==
  ASSUME NEW tree, IsTree(tree)
  PROVE  /\ <<>> \in DOMAIN tree /\ IsFiniteSet(DOMAIN tree) /\ DOMAIN tree \subseteq Seq(Nat)
         /\ \A p \in DOMAIN tree \ {<<>>} : Front(p) \in DOMAIN tree /\ Last(p) \in 1 .. Size(tree[Front(p)])
         /\ \A p \in DOMAIN tree : Size(tree[p]) \in Nat
         /\ \A p \in DOMAIN tree : \A i \in 1 .. Size(tree[p]) : i \in Nat /\ Append(p, i) \in DOMAIN tree
         /\ \A p \in DOMAIN tree : \/ Inner(tree[p])
                                     \/ /\ tree[p].values \in Seq(Scalar)
                                        /\ tree[p].values \in Seq(Range(tree[p].values))
<1>1. \A p \in DOMAIN tree : Size(tree[p]) \in Nat /\ \A i \in 1 .. Size(tree[p]) : Append(p, i) \in DOMAIN tree
  BY Zenon DEF IsTree
<1>2. ASSUME NEW p \in DOMAIN tree, NEW i \in 1 .. Size(tree[p]) PROVE i \in Nat
  <2> DEFINE n == Size(tree[p])
  <2>1. n \in Nat /\ i \in 1 .. n
    BY <1>1
  <2> HIDE DEF n
  <2> QED BY <2>1
<1>3. ASSUME NEW v \in Seq(Scalar) PROVE v \in Seq(Range(v))
  <2>1. DOMAIN v = 1 .. Len(v) /\ Len(v) \in Nat /\ \A i \in 1 .. Len(v) : v[i] \in Range(v)
    BY DEF Range
  <2>2. v = [i \in 1 .. Len(v) |-> v[i]]
    OBVIOUS
  <2> QED BY <2>1, <2>2
<1> QED BY <1>1, <1>2, <1>3, Zenon DEF IsTree

\* The keys of two scalars are equal exactly if they are equal as JSON values.
LEMMA KeysTell ==
  ASSUME NEW v \in Scalar, NEW w \in Scalar
  PROVE  scalar_key(v) = scalar_key(w) <=> Equal(v, w)
<1>1. PICK a \in {"str", "int", "float", "bool", "NoneType"}, m \in Int : v = <<a, m>>
  BY DEF Scalar
<1>2. PICK b \in {"str", "int", "float", "bool", "NoneType"}, n \in Int : w = <<b, n>>
  BY DEF Scalar
<1>3. v[1] = a /\ v[2] = m /\ w[1] = b /\ w[2] = n
  BY <1>1, <1>2
<1>4. /\ scalar_key(v) = <<IF a \in {"int", "float"} THEN "number" ELSE a, m>>
      /\ scalar_key(w) = <<IF b \in {"int", "float"} THEN "number" ELSE b, n>>
  BY <1>3, Zenon DEF scalar_key
<1>5. Equal(v, w) <=> m = n /\ (a = b \/ {a, b} = {"int", "float"})
  BY <1>3, Zenon DEF Equal
<1> QED BY <1>4, <1>5

\* The compiler's test of a candidate is that of its declared type.
LEMMA InstancesMatch ==
  ASSUME NEW v \in Scalar, NEW kind
  PROVE  Matches(kind, v) <=> IsInstance(v, kind)
<1>1. CASE kind = "any"
  BY <1>1 DEF Matches, IsInstance
<1>2. CASE kind = "number"
  BY <1>2 DEF Matches, IsInstance
<1>3. CASE kind = "integer"
  BY <1>3 DEF Matches, IsInstance
<1>4. CASE kind \notin {"any", "number", "integer"}
  BY <1>4 DEF Matches, IsInstance
<1> QED BY <1>1, <1>2, <1>3, <1>4

\* The compiler's test of a leaf is the rule for its candidates.
LEMMA LeavesByRule ==
  ASSUME NEW spec, spec.values \in Seq(Scalar), NEW lim, lim.options \in Nat
  PROVE  LeafIsLegal(spec, lim) <=> LegalCandidates(spec.values, spec.kind, lim.options)
<1> DEFINE v == spec.values
           k == spec.kind
<1>1. /\ v \in Seq(Scalar) /\ DOMAIN v = 1 .. Len(v) /\ Len(v) \in Nat
      /\ \A i \in DOMAIN v : v[i] \in Scalar
  <2> HIDE DEF v
  <2> QED BY SMT DEF v
<1>2. Len(v) \in 1 .. lim.options <=> v # <<>> /\ Cardinality(DOMAIN v) <= lim.options
  <2>1. Cardinality(DOMAIN v) = Len(v)
    <3> HIDE DEF v
    <3> DEFINE n == Len(v)
    <3>1. n \in Nat /\ DOMAIN v = 1 .. n
      BY <1>1
    <3> HIDE DEF n
    <3>2. Cardinality(1 .. n) = IF 1 > n THEN 0 ELSE n - 1 + 1
      BY <3>1, FS_Interval
    <3> QED BY <3>1, <3>2 DEF n
  <2>2. v # <<>> <=> Len(v) # 0
    <3> HIDE DEF v
    <3> QED BY <1>1
  <2> HIDE DEF v
  <2> QED BY <1>1, <2>1, <2>2
<1>3. (\A i \in DOMAIN v : Matches(k, v[i])) <=> \A x \in ToSet(v) : IsInstance(x, k)
  <2>1. \A i \in DOMAIN v : Matches(k, v[i]) <=> IsInstance(v[i], k)
    BY <1>1, InstancesMatch, Zenon
  <2> HIDE DEF v, k
  <2> QED BY <2>1, Zenon DEF ToSet
<1>4. IsInjective(keys(v)) <=> \A i, j \in DOMAIN v : Equal(v[i], v[j]) => i = j
  <2>1. DOMAIN keys(v) = DOMAIN v /\ \A i \in DOMAIN v : keys(v)[i] = scalar_key(v[i])
    BY Zenon DEF keys
  <2>2. ASSUME NEW i \in DOMAIN v, NEW j \in DOMAIN v
        PROVE  keys(v)[i] = keys(v)[j] <=> Equal(v[i], v[j])
    <3>1. v[i] \in Scalar /\ v[j] \in Scalar
      BY <1>1, Zenon
    <3>2. scalar_key(v[i]) = scalar_key(v[j]) <=> Equal(v[i], v[j])
      BY <3>1, KeysTell, Zenon
    <3> QED BY <2>1, <3>2, Zenon
  <2> HIDE DEF v
  <2> QED BY <2>1, <2>2, Zenon DEF IsInjective
<1> QED BY <1>2, <1>3, <1>4, Zenon DEF LeafIsLegal, LegalCandidates

\* What the compiler asks of a whole schema.
Lawful(tree, lim) ==
  /\ Cardinality(DOMAIN tree) <= lim.nodes
  /\ \A p \in DOMAIN tree : Flawless(tree, lim, p)
  /\ Cardinality({p \in DOMAIN tree : IsVariable(tree[p])}) <= lim.questions

\* What the compiler asks of a schema is what makes it legal.
LEMMA LegalIsLawful ==
  ASSUME NEW tree, IsTree(tree), NEW lim, IsLimits(lim)
  PROVE  Legal(tree, lim) <=> Lawful(tree, lim)
<1>1. ASSUME NEW p \in DOMAIN tree, ~Inner(tree[p])
      PROVE  LeafIsLegal(tree[p], lim) <=> LegalCandidates(tree[p].values, tree[p].kind, lim.options)
  BY <1>1, TreeIs, LeavesByRule, Zenon DEF IsLimits
<1> QED BY <1>1, Zenon DEF Legal, Lawful, Flawless

\* Before the first call nothing has been drawn, and the root is to be visited.
LEMMA BlankIs ==
  /\ Blank.nodes = 0 /\ Blank.fields = <<>> /\ Blank.root = <<>> /\ Blank.todo = << <<>> >>
  /\ Blank.failed = FALSE
BY DEF Blank

\* The traversal begins in order.
LEMMA BlankWalk ==
  ASSUME NEW tree, IsTree(tree), NEW lim, IsLimits(lim)
  PROVE  Walk(tree, lim, Blank)
<1>1. DOMAIN Blank.root = {}
  BY BlankIs
<1>2. ToSet(Blank.todo) = {<<>>} /\ IsInjective(Blank.todo) /\ Blank.todo \in Seq(DOMAIN tree)
  <2>1. <<>> \in DOMAIN tree
    BY TreeIs
  <2> DEFINE e == <<>>
  <2>2. \A x : ToSet(<<x>>) = {x} /\ IsInjective(<<x>>)
    BY DEF ToSet, IsInjective
  <2>3. \A x \in DOMAIN tree : <<x>> \in Seq(DOMAIN tree)
    OBVIOUS
  <2> QED BY <2>1, <2>2, <2>3, BlankIs
<1>3. Frontier(tree, Blank)
  BY <1>1, <1>2 DEF Frontier
<1>4. Counted(lim, Blank)
  BY <1>1, BlankIs, FS_EmptySet DEF Counted, IsLimits
<1>5. Drawn(tree, Blank)
  <2>1. Blank.fields \in Seq({FieldOf(tree, p) : p \in DOMAIN tree}) /\ Len(Blank.fields) = 0
    BY BlankIs
  <2>2. \A i : i \notin 1 .. Len(Blank.fields)
    BY <2>1
  <2> QED BY <1>1, <2>1, <2>2, Zenon DEF Drawn
<1> QED BY <1>1, <1>3, <1>4, <1>5, Zenon DEF Walk

-----------------------------------------------------------------------------
(* One call of visit(). *)

\* A call that goes on.
Goes(tree, lim, st) == st.todo # <<>> /\ ~Raises(tree[Head(st.todo)], Head(st.todo), lim, st)

ChildrenOf(tree, p) == [i \in 1 .. Size(tree[p]) |-> Append(p, i)]

\* What it makes of the traversal, part by part.
Grows(tree, st, new) ==
  LET p == Head(st.todo)
  IN  /\ new.nodes = st.nodes + 1
      /\ new.fields = IF IsVariable(tree[p]) THEN Append(st.fields, FieldOf(tree, p)) ELSE st.fields
      /\ DOMAIN new.root = DOMAIN st.root \union {p}
      /\ \A q \in DOMAIN st.root \ {p} : new.root[q] = st.root[q]
      /\ new.root[p] = PlanNode(tree[p], st)
      /\ new.todo = ChildrenOf(tree, p) \o Tail(st.todo)
      /\ new.failed = FALSE

\* With nothing left to visit a call changes nothing.
LEMMA VisitIdle ==
  ASSUME NEW tree, NEW lim, NEW st, st.todo = <<>>
  PROVE  visit(tree, lim, st) = st
BY Zenon DEF visit

\* A call that does not go on raises.
LEMMA VisitRaises ==
  ASSUME NEW tree, NEW lim, NEW st, st.todo # <<>>, ~Goes(tree, lim, st)
  PROVE  visit(tree, lim, st) = Raised
BY Zenon DEF visit, Goes

\* A call that goes on does what Grows says.
LEMMA VisitGrows ==
  ASSUME NEW tree, NEW lim, NEW st, Goes(tree, lim, st)
  PROVE  Grows(tree, st, visit(tree, lim, st))
<1> DEFINE p == Head(st.todo)
           new == visit(tree, lim, st)
           f == IF IsVariable(tree[p]) THEN Append(st.fields, FieldOf(tree, p)) ELSE st.fields
           node == PlanNode(tree[p], st)
           r == [q \in DOMAIN st.root \union {p} |-> IF q = p THEN node ELSE st.root[q]]
           t == ChildrenOf(tree, p) \o Tail(st.todo)
           n == st.nodes + 1
<1>1. new = [nodes |-> n, fields |-> f, root |-> r, todo |-> t, failed |-> FALSE]
  BY Zenon DEF visit, Goes, FieldOf, ChildrenOf
<1>2. /\ DOMAIN r = DOMAIN st.root \union {p}
      /\ \A q \in DOMAIN st.root \ {p} : r[q] = st.root[q]
      /\ r[p] = node
  <2> HIDE DEF p, node
  <2> QED OBVIOUS
<1> HIDE DEF n, f, r, t, new, node
<1>3. new.nodes = n /\ new.fields = f /\ new.root = r /\ new.todo = t /\ new.failed = FALSE
  BY <1>1
<1> QED BY <1>2, <1>3, Zenon DEF Grows, n, f, t, new, node

\* Its children were neither visited nor waiting, for their parent was not visited.
LEMMA FrontierGrows ==
  ASSUME NEW tree, IsTree(tree), NEW st, st.todo # <<>>, Frontier(tree, st), NEW new, Grows(tree, st, new)
  PROVE  /\ Frontier(tree, new)
         /\ Head(st.todo) \in DOMAIN tree /\ Head(st.todo) \notin DOMAIN st.root
<1> DEFINE D == DOMAIN tree
           V == DOMAIN st.root
           W == ToSet(st.todo)
           p == Head(st.todo)
           c == ChildrenOf(tree, p)
           C == {Append(p, i) : i \in 1 .. Size(tree[p])}
<1>1. /\ st.todo \in Seq(D) /\ IsInjective(st.todo)
      /\ V \subseteq D /\ V \cap W = {} /\ <<>> \in V \union W
      /\ \A q \in V \union W : q # <<>> => Front(q) \in V
      /\ \A q \in V : \A i \in 1 .. Size(tree[q]) : Append(q, i) \in V \union W
  BY Zenon DEF Frontier
<1>2. p \in W /\ p \in D
  <2>1. Len(st.todo) \in Nat /\ Len(st.todo) >= 1 /\ p = st.todo[1] /\ DOMAIN st.todo = 1 .. Len(st.todo)
    BY <1>1
  <2>2. 1 \in DOMAIN st.todo /\ st.todo[1] \in D
    BY <1>1, <2>1
  <2> QED BY <2>1, <2>2 DEF ToSet
<1>3. p \notin V /\ p \in Seq(Nat) /\ Size(tree[p]) \in Nat
  BY <1>1, <1>2, TreeIs
<1>4. /\ C \subseteq D
      /\ \A i \in 1 .. Size(tree[p]) : i \in Nat
  BY <1>2, TreeIs
<1>5. \A i \in 1 .. Size(tree[p]) : /\ Append(p, i) # <<>> /\ Front(Append(p, i)) = p
                                   /\ Last(Append(p, i)) = i
  BY <1>3, <1>4, Children
<1> HIDE DEF D, V, W, p
<1>6. /\ c \in Seq(D) /\ DOMAIN c = 1 .. Size(tree[p]) /\ \A i \in DOMAIN c : c[i] = Append(p, i)
  <2> DEFINE n == Size(tree[p])
  <2>1. n \in Nat /\ \A i \in 1 .. n : Append(p, i) \in D
    BY <1>3, <1>4
  <2>2. c = [i \in 1 .. n |-> Append(p, i)]
    BY Zenon DEF ChildrenOf
  <2> HIDE DEF n, c
  <2>3. DOMAIN c = 1 .. n /\ \A i \in 1 .. n : c[i] = Append(p, i)
    BY <2>2, Zenon
  <2>4. c \in [1 .. n -> D]
    BY <2>1, <2>2, Zenon
  <2>5. c \in Seq(D)
    BY <2>1, <2>4
  <2> QED BY <2>3, <2>5, Zenon DEF n
<1> HIDE DEF c
<1>7. ToSet(c) = C /\ IsInjective(c)
  <2>1. ToSet(c) = C
    BY <1>6 DEF ToSet
  <2>2. \A i, j \in DOMAIN c : c[i] = c[j] => i = j
    BY <1>5, <1>6
  <2> QED BY <2>1, <2>2 DEF IsInjective
<1>8. C \cap (V \union W) = {}
  <2>1. \A i \in 1 .. Size(tree[p]) : Append(p, i) \notin V \union W
    BY <1>1, <1>3, <1>5, Zenon
  <2> QED BY <2>1, Zenon
<1>9. \A q \in C : q # <<>> /\ Front(q) = p
  BY <1>5
<1>10. \A i \in 1 .. Size(tree[p]) : Append(p, i) \in C
  OBVIOUS
<1> HIDE DEF C
<1>11. /\ DOMAIN new.root = V \union {p} /\ new.todo = c \o Tail(st.todo)
  BY Zenon DEF Grows, V, p, c
<1>12. /\ new.todo \in Seq(D) /\ IsInjective(new.todo)
       /\ ToSet(new.todo) = C \union (W \ {p})
  <2>1. C \cap W = {}
    BY <1>8
  <2> QED BY <1>1, <1>6, <1>7, <1>11, <2>1, Replaced DEF W, p
<1>13. /\ V \union {p} \subseteq D /\ (V \union {p}) \cap (C \union (W \ {p})) = {}
       /\ <<>> \in (V \union {p}) \union (C \union (W \ {p}))
  <2>1. p \notin C
    BY <1>2, <1>8
  <2> QED BY <1>1, <1>2, <1>8, <2>1
<1>14. \A q \in (V \union {p}) \union (C \union (W \ {p})) : q # <<>> => Front(q) \in V \union {p}
  BY <1>1, <1>2, <1>9
<1>15. \A q \in V \union {p} : \A i \in 1 .. Size(tree[q]) : Append(q, i) \in (V \union {p}) \union (C \union (W \ {p}))
  BY <1>1, <1>10
<1>16. Frontier(tree, new)
  BY <1>11, <1>12, <1>13, <1>14, <1>15 DEF Frontier, D
<1> QED BY <1>2, <1>3, <1>16 DEF D, V, p

\* The node it draws is the one its part of the schema asks for, and a variable
\* leaf gets the next index.
LEMMA DrawnGrows ==
  ASSUME NEW tree, IsTree(tree), NEW st, NEW new, Drawn(tree, st), Grows(tree, st, new),
         Head(st.todo) \in DOMAIN tree, Head(st.todo) \notin DOMAIN st.root
  PROVE  /\ Drawn(tree, new)
         /\ Len(new.fields) = IF IsVariable(tree[Head(st.todo)]) THEN Len(st.fields) + 1 ELSE Len(st.fields)
         /\ Len(st.fields) \in Nat
<1> DEFINE V == DOMAIN st.root
           p == Head(st.todo)
           spec == tree[p]
           F == {FieldOf(tree, q) : q \in DOMAIN tree}
           n == Len(st.fields)
           m == Len(new.fields)
<1>1. /\ st.fields \in Seq(F)
      /\ \A i \in 1 .. n : \E q \in V : /\ IsVariable(tree[q])
                                        /\ st.fields[i] = FieldOf(tree, q)
                                        /\ st.root[q] = [kind |-> "choice", index |-> i]
      /\ \A q \in V : NodeFits(tree, q, st.root[q], st.fields)
  BY Zenon DEF Drawn
<1>2. /\ new.fields = IF IsVariable(spec) THEN Append(st.fields, FieldOf(tree, p)) ELSE st.fields
      /\ DOMAIN new.root = V \union {p}
      /\ \A q \in V \ {p} : new.root[q] = st.root[q]
      /\ new.root[p] = PlanNode(spec, st)
  BY Zenon DEF Grows
<1>3. p \in DOMAIN tree /\ p \notin V /\ FieldOf(tree, p) \in F
  OBVIOUS
<1>4. n \in Nat
  <2> HIDE DEF F
  <2> QED BY <1>1
<1> HIDE DEF F, p, V
<1>5. CASE IsVariable(spec)
  <2> DEFINE e == FieldOf(tree, p)
  <2>1. new.fields = Append(st.fields, e) /\ e \in F
    BY <1>2, <1>3, <1>5, Zenon
  <2> HIDE DEF e
  <2>2. /\ new.fields \in Seq(F) /\ m = n + 1
        /\ \A i \in 1 .. n : new.fields[i] = st.fields[i]
        /\ new.fields[n + 1] = e
    BY <1>1, <2>1, AppendProperties
  <2>3. new.root[p] = [kind |-> "choice", index |-> n + 1] /\ ~Inner(spec)
    BY <1>2, <1>5, Zenon DEF PlanNode, IsVariable
  <2>4. /\ n + 1 \in 1 .. m /\ \A i \in 1 .. n : i \in 1 .. m
        /\ \A i \in 1 .. m : i \in 1 .. n \/ i = n + 1
    BY <1>4, <2>2
  <2> HIDE DEF n, m
  <2>5. ASSUME NEW i \in 1 .. m
        PROVE  \E q \in V \union {p} : /\ IsVariable(tree[q])
                                       /\ new.fields[i] = FieldOf(tree, q)
                                       /\ new.root[q] = [kind |-> "choice", index |-> i]
    <3>1. CASE i \in 1 .. n
      <4>1. PICK q \in V : /\ IsVariable(tree[q])
                           /\ st.fields[i] = FieldOf(tree, q)
                           /\ st.root[q] = [kind |-> "choice", index |-> i]
        BY <1>1, <3>1, Zenon
      <4>2. new.root[q] = st.root[q] /\ new.fields[i] = st.fields[i]
        BY <1>2, <1>3, <2>2, <3>1, Zenon
      <4> QED BY <4>1, <4>2, Zenon
    <3>2. CASE i = n + 1
      BY <1>5, <2>2, <2>3, <3>2, Zenon DEF e
    <3> QED BY <2>4, <3>1, <3>2, Zenon
  <2>6. ASSUME NEW q \in V \union {p}
        PROVE  NodeFits(tree, q, new.root[q], new.fields)
    <3>1. CASE q = p
      BY <1>5, <2>2, <2>3, <2>4, <3>1, Zenon DEF e, NodeFits, m
    <3>2. CASE q # p
      <4>1. q \in V /\ new.root[q] = st.root[q] /\ NodeFits(tree, q, new.root[q], st.fields)
        BY <1>1, <1>2, <3>2, Zenon
      <4>2. CASE \E i \in 1 .. n : /\ st.fields[i] = FieldOf(tree, q)
                                    /\ new.root[q] = [kind |-> "choice", index |-> i]
        <5>1. PICK i \in 1 .. n : /\ st.fields[i] = FieldOf(tree, q)
                                  /\ new.root[q] = [kind |-> "choice", index |-> i]
          BY <4>2
        <5>2. i \in 1 .. m /\ new.fields[i] = FieldOf(tree, q)
          BY <2>2, <2>4, <5>1, Zenon
        <5> QED BY <4>1, <5>1, <5>2, Zenon DEF NodeFits, m
      <4>3. CASE ~\E i \in 1 .. n : /\ st.fields[i] = FieldOf(tree, q)
                                     /\ new.root[q] = [kind |-> "choice", index |-> i]
        BY <4>1, <4>3, Zenon DEF NodeFits, n
      <4> QED BY <4>2, <4>3
    <3> QED BY <3>1, <3>2
  <2>7. Drawn(tree, new)
    BY <1>2, <2>2, <2>5, <2>6, Zenon DEF Drawn, F, m
  <2> QED BY <1>4, <1>5, <2>2, <2>7, Zenon DEF n, m, p
<1>6. CASE ~IsVariable(spec)
  <2>1. new.fields = st.fields
    BY <1>2, <1>6, Zenon
  <2>2. /\ Inner(spec) => new.root[p] = [kind |-> spec.kind]
        /\ ~Inner(spec) => new.root[p] = [kind |-> "constant", value |-> spec.values[1]]
    BY <1>2, <1>6, Zenon DEF PlanNode
  <2>3. ASSUME NEW i \in 1 .. n
        PROVE  \E q \in V \union {p} : /\ IsVariable(tree[q])
                                       /\ new.fields[i] = FieldOf(tree, q)
                                       /\ new.root[q] = [kind |-> "choice", index |-> i]
    <3>1. PICK q \in V : /\ IsVariable(tree[q])
                         /\ st.fields[i] = FieldOf(tree, q)
                         /\ st.root[q] = [kind |-> "choice", index |-> i]
      BY <1>1, Zenon
    <3>2. new.root[q] = st.root[q]
      BY <1>2, <1>3, Zenon
    <3> QED BY <2>1, <3>1, <3>2, Zenon
  <2>4. ASSUME NEW q \in V \union {p}
        PROVE  NodeFits(tree, q, new.root[q], new.fields)
    <3>1. CASE q = p
      BY <1>6, <2>2, <3>1, Zenon DEF NodeFits
    <3>2. CASE q # p
      <4>1. q \in V /\ new.root[q] = st.root[q]
        BY <1>2, <3>2, Zenon
      <4> QED BY <1>1, <2>1, <4>1, Zenon
    <3> QED BY <3>1, <3>2
  <2>5. m = n
    BY <2>1, Zenon
  <2>6. Drawn(tree, new)
    BY <1>1, <1>2, <2>1, <2>3, <2>4, Zenon DEF Drawn, F
  <2> QED BY <1>4, <1>6, <2>5, <2>6, Zenon DEF n, m, p
<1> QED BY <1>5, <1>6

-----------------------------------------------------------------------------
(* The counts are right, and so is what raises. *)

\* The leaves among some nodes that are asked about.
VariablesIn(tree, S) == {p \in S : IsVariable(tree[p])}

\* The fields are the variable leaves drawn so far, each once.
LEMMA FieldsCount ==
  ASSUME NEW tree, NEW st, Drawn(tree, st), Len(st.fields) \in Nat
  PROVE  Cardinality(VariablesIn(tree, DOMAIN st.root)) = Len(st.fields)
<1> DEFINE n == Len(st.fields)
           S == VariablesIn(tree, DOMAIN st.root)
           At(i, p) == /\ p \in S
                       /\ st.fields[i] = FieldOf(tree, p)
                       /\ st.root[p] = [kind |-> "choice", index |-> i]
           f == [i \in 1 .. n |-> st.fields[i].path]
<1>1. \A p : FieldOf(tree, p).path = p
  BY DEF FieldOf
<1>2. \A i \in 1 .. n : At(i, f[i])
  <2> SUFFICES ASSUME NEW i \in 1 .. n PROVE At(i, f[i])
    OBVIOUS
  <2>1. PICK p \in DOMAIN st.root : /\ IsVariable(tree[p]) /\ st.fields[i] = FieldOf(tree, p)
                                    /\ st.root[p] = [kind |-> "choice", index |-> i]
    BY Zenon DEF Drawn
  <2>2. p \in S /\ st.fields[i].path = p
    BY <1>1, <2>1, Zenon DEF VariablesIn
  <2>3. f[i] = p
    BY <2>2, Zenon
  <2> QED BY <2>1, <2>2, <2>3, Zenon
<1>3. \A p \in S : \E i \in 1 .. n : f[i] = p
  <2> SUFFICES ASSUME NEW p \in S PROVE \E i \in 1 .. n : f[i] = p
    OBVIOUS
  <2>1. p \in DOMAIN st.root /\ IsVariable(tree[p]) /\ ~Inner(tree[p])
    BY Zenon DEF VariablesIn, IsVariable
  <2>2. PICK i \in 1 .. n : st.fields[i] = FieldOf(tree, p)
    BY <2>1, Zenon DEF Drawn, NodeFits
  <2>3. f[i] = p
    BY <1>1, <2>2, Zenon
  <2> QED BY <2>3
<1>4. \A i, j \in 1 .. n : f[i] = f[j] => i = j
  <2> SUFFICES ASSUME NEW i \in 1 .. n, NEW j \in 1 .. n, f[i] = f[j] PROVE i = j
    OBVIOUS
  <2> HIDE DEF f
  <2>1. [kind |-> "choice", index |-> i] = [kind |-> "choice", index |-> j]
    BY <1>2, Zenon
  <2>2. [kind |-> "choice", index |-> i].index = [kind |-> "choice", index |-> j].index
    BY <2>1, Zenon
  <2> QED BY <2>2
<1>5. f \in Bijection(1 .. n, S)
  <2>1. f \in [1 .. n -> S]
    <3>1. \A i \in 1 .. n : f[i] \in S
      BY <1>2, Zenon
    <3> HIDE DEF S
    <3> QED BY <3>1
  <2> HIDE DEF f, S, n
  <2> QED BY <1>3, <1>4, <2>1 DEF Bijection, Injection, Surjection, IsInjective
<1> HIDE DEF f, S, n
<1>6. ExistsBijection(1 .. n, S)
  BY <1>5 DEF ExistsBijection
<1>7. n \in Nat
  BY DEF n
<1>8. Cardinality(S) = n
  BY <1>6, <1>7, FS_CountingElements, Zenon
<1> QED BY <1>8 DEF n, S

\* Where it raises there is a flaw, or one node or field too many.
LEMMA RaisesRightly ==
  ASSUME NEW tree, IsTree(tree), NEW lim, IsLimits(lim), NEW st, st.todo # <<>>,
         Walk(tree, lim, st), ~Goes(tree, lim, st),
         Head(st.todo) \in DOMAIN tree, Head(st.todo) \notin DOMAIN st.root
  PROVE  ~Lawful(tree, lim)
<1> DEFINE p == Head(st.todo)
           V == DOMAIN st.root
           n == Cardinality(V)
           N == Cardinality(DOMAIN tree)
           k == Cardinality(VariablesIn(tree, V))
           K == Cardinality(VariablesIn(tree, DOMAIN tree))
<1>1. Raises(tree[p], p, lim, st)
  BY Zenon DEF Goes
<1>2. IsFiniteSet(DOMAIN tree) /\ V \subseteq DOMAIN tree /\ p \in DOMAIN tree /\ p \notin V
  BY TreeIs, Zenon DEF Walk, Frontier
<1>3. CASE st.nodes + 1 > lim.nodes
  <2>1. IsFiniteSet(V) /\ n \in Nat /\ st.nodes = n
    BY Zenon DEF Walk, Counted
  <2>2. Cardinality(V \union {p}) = n + 1 /\ IsFiniteSet(V \union {p})
    <3> HIDE DEF p, V
    <3> QED BY <1>2, <2>1, FS_AddElement
  <2>3. V \union {p} \in SUBSET DOMAIN tree
    BY <1>2
  <2>4. N \in Nat /\ n + 1 <= N
    <3> HIDE DEF p, V
    <3> QED BY <1>2, <2>2, <2>3, FS_Subset, FS_CardinalityType
  <2>5. ~(N <= lim.nodes)
    <3> HIDE DEF n, N
    <3> QED BY <1>3, <2>1, <2>4 DEF IsLimits
  <2> QED BY <2>5, Zenon DEF Lawful, Flawless
<1>4. CASE TooManyFields(tree[p], lim, st)
  <2>1. IsVariable(tree[p]) /\ Len(st.fields) >= lim.questions
    BY <1>4, Zenon DEF TooManyFields
  <2>2. Len(st.fields) \in Nat
    <3>1. st.fields \in Seq({FieldOf(tree, q) : q \in DOMAIN tree})
      BY Zenon DEF Walk, Drawn
    <3> QED BY <3>1
  <2>3. k = Len(st.fields)
    BY <2>2, FieldsCount, Zenon DEF Walk
  <2>4. VariablesIn(tree, V) \union {p} \subseteq VariablesIn(tree, DOMAIN tree) /\ p \notin VariablesIn(tree, V)
    <3> HIDE DEF p, V
    <3> QED BY <1>2, <2>1 DEF VariablesIn
  <2>5. VariablesIn(tree, V) \subseteq DOMAIN tree /\ VariablesIn(tree, DOMAIN tree) \subseteq DOMAIN tree
    <3> HIDE DEF p, V
    <3> QED BY <1>2 DEF VariablesIn
  <2>6. IsFiniteSet(VariablesIn(tree, V)) /\ IsFiniteSet(VariablesIn(tree, DOMAIN tree))
    BY <1>2, <2>5, FS_Subset
  <2>7. Cardinality(VariablesIn(tree, V) \union {p}) = k + 1
    <3> HIDE DEF p, V
    <3> QED BY <2>4, <2>6, FS_AddElement
  <2>8. K \in Nat /\ k + 1 <= K
    <3> DEFINE A == VariablesIn(tree, V) \union {p}
               B == VariablesIn(tree, DOMAIN tree)
    <3>1. A \in SUBSET B /\ IsFiniteSet(B) /\ Cardinality(A) = k + 1
      BY <2>4, <2>6, <2>7
    <3> HIDE DEF A, B, k
    <3>2. Cardinality(A) <= Cardinality(B) /\ Cardinality(B) \in Nat
      BY <3>1, FS_Subset, FS_CardinalityType
    <3> QED BY <3>1, <3>2 DEF B
  <2>9. ~(K <= lim.questions)
    <3> HIDE DEF k, K
    <3> QED BY <2>1, <2>2, <2>3, <2>8 DEF IsLimits
  <2> QED BY <2>9, Zenon DEF Lawful, VariablesIn
<1>5. CASE Len(p) + 1 > lim.depth
  <2>1. p \in Seq(Nat)
    BY <1>2, TreeIs
  <2>2. ~(Len(p) < lim.depth)
    <3> HIDE DEF p
    <3> QED BY <1>5, <2>1 DEF IsLimits
  <2> QED BY <1>2, <2>2, Zenon DEF Lawful, Flawless
<1>6. CASE ~tree[p].lawful \/ (~Inner(tree[p]) /\ ~LeafIsLegal(tree[p], lim))
  BY <1>2, <1>6, Zenon DEF Lawful, Flawless
<1> QED BY <1>1, <1>3, <1>4, <1>5, <1>6, Zenon DEF Raises

\* A call that goes on leaves the traversal in order.
LEMMA WalkGrows ==
  ASSUME NEW tree, IsTree(tree), NEW lim, IsLimits(lim), NEW st, st.todo # <<>>,
         Walk(tree, lim, st), Goes(tree, lim, st), NEW new, Grows(tree, st, new)
  PROVE  /\ Walk(tree, lim, new)
         /\ Cardinality(DOMAIN new.root) = Cardinality(DOMAIN st.root) + 1
<1> DEFINE p == Head(st.todo)
           V == DOMAIN st.root
           n == Cardinality(V)
<1>1. /\ Frontier(tree, new) /\ p \in DOMAIN tree /\ p \notin V
  BY FrontierGrows, Zenon DEF Walk
<1>2. /\ Drawn(tree, new)
      /\ Len(new.fields) = IF IsVariable(tree[p]) THEN Len(st.fields) + 1 ELSE Len(st.fields)
      /\ Len(st.fields) \in Nat
  BY <1>1, DrawnGrows, Zenon DEF Walk
<1>3. /\ IsFiniteSet(V) /\ st.nodes \in Nat /\ st.nodes = n
      /\ Len(st.fields) <= lim.questions
  BY Zenon DEF Walk, Counted
<1>4. /\ DOMAIN new.root = V \union {p} /\ new.nodes = st.nodes + 1
  BY Zenon DEF Grows
<1>5. /\ ~(Len(p) + 1 > lim.depth) /\ ~(st.nodes + 1 > lim.nodes)
      /\ tree[p].lawful
      /\ Inner(tree[p]) \/ LeafIsLegal(tree[p], lim)
      /\ ~(IsVariable(tree[p]) /\ Len(st.fields) >= lim.questions)
  BY Zenon DEF Goes, Raises, TooManyFields
<1>6. Cardinality(V \union {p}) = n + 1 /\ IsFiniteSet(V \union {p})
  <2> HIDE DEF p, V
  <2> QED BY <1>1, <1>3, FS_AddElement
<1>7. Counted(lim, new)
  <2>1. Len(new.fields) <= lim.questions
    <3> HIDE DEF p
    <3> QED BY <1>2, <1>3, <1>5 DEF IsLimits
  <2>2. new.nodes \in Nat /\ new.nodes <= lim.nodes /\ new.nodes = n + 1
    <3> HIDE DEF n
    <3> QED BY <1>3, <1>4, <1>5 DEF IsLimits
  <2> QED BY <1>4, <1>6, <2>1, <2>2, Zenon DEF Counted
<1>8. Flawless(tree, lim, p)
  <2>1. p \in Seq(Nat)
    BY <1>1, TreeIs
  <2>2. Len(p) < lim.depth
    <3> HIDE DEF p
    <3> QED BY <1>5, <2>1 DEF IsLimits
  <2> QED BY <1>5, <2>2, Zenon DEF Flawless
<1>9. \A q \in DOMAIN new.root : Flawless(tree, lim, q)
  <2>1. \A q \in V : Flawless(tree, lim, q)
    BY Zenon DEF Walk
  <2> QED BY <1>4, <1>8, <2>1, Zenon
<1> QED BY <1>1, <1>2, <1>4, <1>6, <1>7, <1>9, Zenon DEF Walk

-----------------------------------------------------------------------------
(* All the calls of visit(), one after the other. *)

\* After n calls: it has raised, or drawn n nodes, or all there are.
Traversed(tree, lim, n, st) ==
  IF st.failed THEN st = Raised /\ ~Lawful(tree, lim)
  ELSE /\ Walk(tree, lim, st)
       /\ st.todo = <<>> \/ Cardinality(DOMAIN st.root) = n

\* An exception leaves nothing to visit.
LEMMA RaisedIs == Raised.failed = TRUE /\ Raised.todo = <<>>
BY DEF Raised

\* The induction over the calls of visit().
LEMMA StepTraverses ==
  ASSUME NEW tree, IsTree(tree), NEW lim, IsLimits(lim), NEW n \in Nat, NEW st,
         Traversed(tree, lim, n, st)
  PROVE  Traversed(tree, lim, n + 1, visit(tree, lim, st))
<1>1. CASE st.failed
  <2>1. visit(tree, lim, st) = st
    BY <1>1, RaisedIs, VisitIdle, Zenon DEF Traversed
  <2> QED BY <1>1, <2>1, Zenon DEF Traversed
<1>2. CASE ~st.failed /\ st.todo = <<>>
  <2>1. visit(tree, lim, st) = st
    BY <1>2, VisitIdle, Zenon
  <2> QED BY <1>2, <2>1, Zenon DEF Traversed
<1>3. CASE ~st.failed /\ st.todo # <<>> /\ ~Goes(tree, lim, st)
  <2>1. visit(tree, lim, st) = Raised
    BY <1>3, VisitRaises, Zenon
  <2>2. Walk(tree, lim, st)
    BY <1>3, Zenon DEF Traversed
  <2>3. st.todo \in Seq(DOMAIN tree) /\ DOMAIN st.root \cap ToSet(st.todo) = {}
    BY <2>2, Zenon DEF Walk, Frontier
  <2>4. Head(st.todo) \in ToSet(st.todo) /\ Head(st.todo) \in DOMAIN tree
    BY <1>3, <2>3 DEF ToSet
  <2>5. ~Lawful(tree, lim)
    BY <1>3, <2>2, <2>3, <2>4, RaisesRightly
  <2> QED BY <2>1, <2>5, RaisedIs, Zenon DEF Traversed
<1>4. CASE ~st.failed /\ st.todo # <<>> /\ Goes(tree, lim, st)
  <2> DEFINE new == visit(tree, lim, st)
  <2>1. Walk(tree, lim, st) /\ Cardinality(DOMAIN st.root) = n
    BY <1>4, Zenon DEF Traversed
  <2>2. Grows(tree, st, new)
    BY <1>4, VisitGrows, Zenon
  <2> HIDE DEF new
  <2>3. Walk(tree, lim, new) /\ Cardinality(DOMAIN new.root) = n + 1
    BY <1>4, <2>1, <2>2, WalkGrows, Zenon
  <2>4. new.failed = FALSE
    BY <2>2, Zenon DEF Grows
  <2> QED BY <2>3, <2>4, Zenon DEF Traversed, new
<1> QED BY <1>1, <1>2, <1>3, <1>4

\* The calls of visit() up to the k-th, as a function of their number.
Visits(tree, lim, k, f) == [n \in 0 .. k |-> IF n = 0 THEN Blank ELSE visit(tree, lim, f[n - 1])]
AllVisits(tree, lim) == CHOOSE f : f = Visits(tree, lim, Cardinality(DOMAIN tree), f)

\* The recursion over the calls defines a function.
LEMMA VisitsExist ==
  ASSUME NEW tree, NEW lim, NEW N \in Nat
  PROVE  \E f : f = Visits(tree, lim, N, f)
<1> DEFINE Found == {k \in 0 .. N : \E f : f = Visits(tree, lim, k, f)}
<1>1. 0 \in Found
  <2> DEFINE g == [n \in 0 .. 0 |-> Blank]
  <2>1. \A n \in 0 .. 0 : n = 0
    OBVIOUS
  <2>2. g = Visits(tree, lim, 0, g)
    BY <2>1, Zenon DEF Visits
  <2>3. 0 \in 0 .. N
    OBVIOUS
  <2> HIDE DEF g
  <2> QED BY <2>2, <2>3, Zenon
<1>2. ASSUME NEW k \in 0 .. N - 1, k \in Found PROVE k + 1 \in Found
  <2>1. PICK f : f = Visits(tree, lim, k, f)
    BY <1>2, Zenon
  <2> DEFINE g == [n \in 0 .. k + 1 |-> IF n = k + 1 THEN visit(tree, lim, f[k]) ELSE f[n]]
  <2>2. /\ k \in Nat /\ k + 1 \in 0 .. N /\ k + 1 # 0 /\ k + 1 - 1 = k
        /\ k \in 0 .. k + 1 /\ k # k + 1
        /\ \A n \in 0 .. k + 1 : n # k + 1 => n \in 0 .. k
        /\ \A n \in 0 .. k : n # 0 => n - 1 \in 0 .. k + 1 /\ n - 1 # k + 1
    OBVIOUS
  <2>3. \A n \in 0 .. k + 1 : g[n] = IF n = k + 1 THEN visit(tree, lim, f[k]) ELSE f[n]
    BY Zenon
  <2>4. g = [n \in 0 .. k + 1 |-> g[n]]
    BY Zenon
  <2> HIDE DEF g
  <2>5. ASSUME NEW n \in 0 .. k + 1 PROVE g[n] = IF n = 0 THEN Blank ELSE visit(tree, lim, g[n - 1])
    <3>1. CASE n = k + 1
      <4>1. n - 1 = k /\ n # 0
        BY <2>2, <3>1
      <4>2. g[k] = f[k] /\ g[n] = visit(tree, lim, f[k])
        BY <2>2, <2>3, <3>1, Zenon
      <4> QED BY <4>1, <4>2, Zenon
    <3>2. CASE n # k + 1
      <4>1. n \in 0 .. k /\ g[n] = f[n]
        BY <2>2, <2>3, <3>2, Zenon
      <4>2. f[n] = IF n = 0 THEN Blank ELSE visit(tree, lim, f[n - 1])
        BY <2>1, <4>1, Zenon DEF Visits
      <4>3. n # 0 => g[n - 1] = f[n - 1]
        BY <2>2, <2>3, <4>1, Zenon
      <4> QED BY <4>1, <4>2, <4>3, Zenon
    <3> QED BY <3>1, <3>2
  <2>6. g = Visits(tree, lim, k + 1, g)
    BY <2>4, <2>5, Zenon DEF Visits
  <2> QED BY <2>2, <2>6, Zenon
<1>3. N \in Found
  <2> HIDE DEF Found
  <2>1. N \in 0 .. N
    OBVIOUS
  <2> QED BY <1>1, <1>2, <2>1, StepByStep
<1> QED BY <1>3, Zenon

\* Each call starts where the one before has stopped, and the last is the plan.
LEMMA VisitsAre ==
  ASSUME NEW tree, IsTree(tree), NEW lim
  PROVE  LET N == Cardinality(DOMAIN tree)
             f == AllVisits(tree, lim)
         IN  /\ N \in Nat
             /\ f[0] = Blank
             /\ \A n \in 0 .. N - 1 : f[n + 1] = visit(tree, lim, f[n])
             /\ compile_schema(tree, lim) = f[N]
<1> DEFINE N == Cardinality(DOMAIN tree)
           f == AllVisits(tree, lim)
<1>1. N \in Nat
  BY TreeIs, FS_CardinalityType
<1>2. f = Visits(tree, lim, N, f)
  <2> HIDE DEF N
  <2>1. \E g : g = Visits(tree, lim, N, g)
    BY <1>1, VisitsExist
  <2> QED BY <2>1, Zenon DEF AllVisits, N
<1>3. compile_schema(tree, lim) = f[N]
  BY Zenon DEF compile_schema, AllVisits, Visits
<1> DEFINE c == Visits(tree, lim, N, f)
<1> HIDE DEF N, f
<1>4. \A n \in 0 .. N : c[n] = IF n = 0 THEN Blank ELSE visit(tree, lim, f[n - 1])
  BY Zenon DEF Visits
<1> HIDE DEF c
<1>5. \A n \in 0 .. N : f[n] = IF n = 0 THEN Blank ELSE visit(tree, lim, f[n - 1])
  <2>1. f = c
    BY <1>2, Zenon DEF c
  <2> QED BY <1>4, <2>1, Zenon
<1>6. f[0] = Blank
  <2>1. 0 \in 0 .. N
    BY <1>1
  <2> QED BY <1>5, <2>1, Zenon
<1>7. ASSUME NEW n \in 0 .. N - 1 PROVE f[n + 1] = visit(tree, lim, f[n])
  <2> DEFINE m == n + 1
  <2>1. m \in 0 .. N /\ m # 0 /\ m - 1 = n
    BY <1>1
  <2> HIDE DEF m
  <2>2. f[m] = visit(tree, lim, f[m - 1])
    BY <1>5, <2>1, Zenon
  <2>3. f[m] = visit(tree, lim, f[n])
    BY <2>1, <2>2, Zenon
  <2> QED BY <2>3, Zenon DEF m
<1> QED BY <1>1, <1>3, <1>6, <1>7, Zenon DEF N, f

\* What holds of the schema as a whole when it is done.
Compiled(tree, lim, st) ==
  IF st.failed THEN st = Raised /\ ~Lawful(tree, lim)
  ELSE /\ DOMAIN st.root = DOMAIN tree /\ Drawn(tree, st)
       /\ Lawful(tree, lim)

\* With nothing left to visit, each node has been: its parent has, and has
\* called for it.
LEMMA AllDrawn ==
  ASSUME NEW tree, IsTree(tree), NEW st, Frontier(tree, st), st.todo = <<>>
  PROVE  DOMAIN st.root = DOMAIN tree
<1> DEFINE V == DOMAIN st.root
           Lost == {k \in Nat : \E q \in DOMAIN tree \ V : k = Len(q)}
<1>1. ToSet(st.todo) = {}
  <2>1. DOMAIN st.todo = {}
    OBVIOUS
  <2> QED BY <2>1 DEF ToSet
<1>2. /\ V \subseteq DOMAIN tree /\ <<>> \in V
      /\ \A q \in V : \A i \in 1 .. Size(tree[q]) : Append(q, i) \in V
  BY <1>1, Zenon DEF Frontier
<1>3. SUFFICES ASSUME Lost # {} PROVE FALSE
  <2> SUFFICES ASSUME NEW q \in DOMAIN tree, q \notin V PROVE FALSE
    BY <1>2, Zenon
  <2>1. q \in Seq(Nat)
    BY TreeIs
  <2>2. Len(q) \in Nat
    BY <2>1
  <2>3. Len(q) \in Lost
    BY <2>2
  <2> QED BY <1>3, <2>3, Zenon
<1>4. PICK k \in Lost : \A l \in Lost : k <= l
  <2>1. Lost \in SUBSET Nat
    OBVIOUS
  <2> HIDE DEF Lost
  <2> QED BY <1>3, <2>1, MinNat
<1>5. PICK q \in DOMAIN tree \ V : k = Len(q)
  BY <1>4
<1>6. q # <<>> /\ q \in Seq(Nat) /\ q \in DOMAIN tree
  BY <1>2, <1>5, TreeIs
<1>7. /\ Front(q) \in Seq(Nat) /\ Len(Front(q)) = Len(q) - 1 /\ Len(q) \in Nat \ {0}
      /\ q = Append(Front(q), Last(q))
  BY <1>6, Parents
<1>8. Front(q) \in DOMAIN tree /\ Last(q) \in 1 .. Size(tree[Front(q)])
  BY <1>6, TreeIs, Zenon
<1>9. Front(q) \in V
  <2> SUFFICES ASSUME Front(q) \notin V PROVE FALSE
    OBVIOUS
  <2>1. Len(q) - 1 \in Lost
    <3>1. Len(q) - 1 \in Nat
      BY <1>7
    <3> QED BY <1>7, <1>8, <3>1, Zenon
  <2>2. ~(Len(q) <= Len(q) - 1)
    BY <1>7
  <2> HIDE DEF Lost
  <2> QED BY <1>4, <1>5, <2>1, <2>2, Zenon
<1>10. Append(Front(q), Last(q)) \in V
  BY <1>2, <1>8, <1>9, Zenon
<1> QED BY <1>5, <1>7, <1>10, Zenon

\* compile_schema raises exactly on what is not legal, and otherwise has drawn
\* every node of the schema.
LEMMA CompiledIs ==
  ASSUME NEW tree, IsTree(tree), NEW lim, IsLimits(lim)
  PROVE  Compiled(tree, lim, compile_schema(tree, lim))
<1> DEFINE N == Cardinality(DOMAIN tree)
           f == AllVisits(tree, lim)
           S == {n \in 0 .. N : Traversed(tree, lim, n, f[n])}
<1>1. /\ N \in Nat /\ f[0] = Blank
      /\ \A n \in 0 .. N - 1 : f[n + 1] = visit(tree, lim, f[n])
      /\ compile_schema(tree, lim) = f[N]
  BY VisitsAre, Zenon
<1> HIDE DEF N, f
<1>2. 0 \in S
  <2>1. DOMAIN Blank.root = {}
    BY BlankIs
  <2>2. Cardinality(DOMAIN Blank.root) = 0
    BY <2>1, FS_EmptySet
  <2>3. Traversed(tree, lim, 0, Blank)
    BY <2>2, BlankIs, BlankWalk, Zenon DEF Traversed
  <2>4. 0 \in 0 .. N
    BY <1>1
  <2> QED BY <1>1, <2>3, <2>4, Zenon
<1>3. ASSUME NEW n \in 0 .. N - 1, n \in S PROVE n + 1 \in S
  <2>1. n \in Nat /\ n + 1 \in 0 .. N
    BY <1>1
  <2>2. Traversed(tree, lim, n, f[n])
    BY <1>3, Zenon
  <2>3. Traversed(tree, lim, n + 1, visit(tree, lim, f[n]))
    BY <2>1, <2>2, StepTraverses, Zenon
  <2> QED BY <1>1, <2>1, <2>3, Zenon
<1>4. Traversed(tree, lim, N, f[N])
  <2>1. N \in 0 .. N
    BY <1>1
  <2>2. N \in S
    <3> HIDE DEF S
    <3> QED BY <1>1, <1>2, <1>3, <2>1, StepByStep
  <2> QED BY <2>2, Zenon
<1> DEFINE st == f[N]
<1> HIDE DEF st
<1>5. CASE st.failed
  BY <1>1, <1>4, <1>5, Zenon DEF Compiled, Traversed, st
<1>6. CASE ~st.failed
  <2>1. Walk(tree, lim, st) /\ (st.todo = <<>> \/ Cardinality(DOMAIN st.root) = N)
    BY <1>4, <1>6, Zenon DEF Traversed, st
  <2>2. Frontier(tree, st)
    BY <2>1, Zenon DEF Walk
  <2>3. st.todo = <<>>
    <3> SUFFICES ASSUME st.todo # <<>> PROVE FALSE
      OBVIOUS
    <3>1. /\ st.todo \in Seq(DOMAIN tree) /\ DOMAIN st.root \subseteq DOMAIN tree
          /\ DOMAIN st.root \cap ToSet(st.todo) = {}
      BY <2>2, Zenon DEF Frontier
    <3>2. Head(st.todo) \in ToSet(st.todo) /\ Head(st.todo) \in DOMAIN tree
      BY <3>1 DEF ToSet
    <3>3. DOMAIN st.root = DOMAIN tree
      <4>1. IsFiniteSet(DOMAIN tree) /\ DOMAIN st.root \in SUBSET DOMAIN tree
        BY <3>1, TreeIs
      <4>2. Cardinality(DOMAIN tree) = Cardinality(DOMAIN st.root)
        BY <2>1, Zenon DEF N
      <4> QED BY <4>1, <4>2, FS_Subset
    <3> QED BY <3>1, <3>2, <3>3, Zenon
  <2>4. DOMAIN st.root = DOMAIN tree
    BY <2>2, <2>3, AllDrawn, Zenon
  <2>5. Counted(lim, st) /\ Drawn(tree, st) /\ \A p \in DOMAIN tree : Flawless(tree, lim, p)
    BY <2>1, <2>4, Zenon DEF Walk
  <2>6. Cardinality(DOMAIN tree) <= lim.nodes /\ Len(st.fields) <= lim.questions
    BY <2>4, <2>5, Zenon DEF Counted
  <2>7. Len(st.fields) \in Nat
    <3>1. st.fields \in Seq({FieldOf(tree, q) : q \in DOMAIN tree})
      BY <2>5, Zenon DEF Drawn
    <3> QED BY <3>1
  <2>8. Cardinality(VariablesIn(tree, DOMAIN tree)) = Len(st.fields)
    BY <2>4, <2>5, <2>7, FieldsCount, Zenon
  <2>9. Cardinality({p \in DOMAIN tree : IsVariable(tree[p])}) <= lim.questions
    BY <2>6, <2>8, Zenon DEF VariablesIn
  <2>10. Lawful(tree, lim)
    BY <2>5, <2>6, <2>9, Zenon DEF Lawful, Flawless
  <2> QED BY <1>1, <1>6, <2>4, <2>5, <2>10, Zenon DEF Compiled, st
<1> QED BY <1>5, <1>6

-----------------------------------------------------------------------------
(* Two sides with limits of their own. *)

\* The limits decide whether a call raises, not what it makes otherwise.
LEMMA VisitsAgree ==
  ASSUME NEW tree, NEW l1, NEW l2, NEW st, Goes(tree, l1, st), Goes(tree, l2, st)
  PROVE  visit(tree, l1, st) = visit(tree, l2, st)
<1> DEFINE p == Head(st.todo)
           Made == [nodes |-> st.nodes + 1,
                    fields |-> IF IsVariable(tree[p])
                               THEN Append(st.fields, [path |-> p, values |-> tree[p].values])
                               ELSE st.fields,
                    root |-> [q \in DOMAIN st.root \union {p} |->
                                IF q = p THEN PlanNode(tree[p], st) ELSE st.root[q]],
                    todo |-> [i \in 1 .. Size(tree[p]) |-> Append(p, i)] \o Tail(st.todo),
                    failed |-> FALSE]
<1>1. visit(tree, l1, st) = Made
  BY Zenon DEF visit, Goes
<1>2. visit(tree, l2, st) = Made
  BY Zenon DEF visit, Goes
<1> HIDE DEF Made
<1> QED BY <1>1, <1>2, Zenon

\* A schema that two sides accept under their own limits has one plan.
LEMMA PlansAgree ==
  ASSUME NEW tree, IsTree(tree), NEW l1, NEW l2,
         ~compile_schema(tree, l1).failed, ~compile_schema(tree, l2).failed
  PROVE  compile_schema(tree, l1) = compile_schema(tree, l2)
<1> DEFINE N == Cardinality(DOMAIN tree)
           f == AllVisits(tree, l1)
           g == AllVisits(tree, l2)
           S == {n \in 0 .. N : f[n] = g[n]}
<1>1. /\ N \in Nat /\ f[0] = Blank /\ g[0] = Blank
      /\ \A n \in 0 .. N - 1 : f[n + 1] = visit(tree, l1, f[n]) /\ g[n + 1] = visit(tree, l2, g[n])
      /\ compile_schema(tree, l1) = f[N] /\ compile_schema(tree, l2) = g[N]
  <2>1. /\ N \in Nat /\ f[0] = Blank
        /\ \A n \in 0 .. N - 1 : f[n + 1] = visit(tree, l1, f[n])
        /\ compile_schema(tree, l1) = f[N]
    BY VisitsAre, Zenon
  <2>2. /\ g[0] = Blank
        /\ \A n \in 0 .. N - 1 : g[n + 1] = visit(tree, l2, g[n])
        /\ compile_schema(tree, l2) = g[N]
    BY VisitsAre, Zenon
  <2> QED BY <2>1, <2>2, Zenon
<1> HIDE DEF N, f, g
<1>2. \A n \in 0 .. N : f[n] # Raised /\ g[n] # Raised
  <2>1. ASSUME NEW m \in 0 .. N, NEW h, NEW lim, h[m] = Raised, ~h[N].failed,
               \A n \in 0 .. N - 1 : h[n + 1] = visit(tree, lim, h[n])
        PROVE  FALSE
    <3> DEFINE Z == {n \in 0 .. N : n >= m => h[n] = Raised}
    <3>1. 0 \in Z
      <4>1. 0 \in 0 .. N /\ (0 >= m => m = 0)
        BY <1>1
      <4> QED BY <2>1, <4>1, Zenon
    <3>2. ASSUME NEW n \in 0 .. N - 1, n \in Z PROVE n + 1 \in Z
      <4>1. n + 1 \in 0 .. N /\ (n + 1 >= m => n >= m \/ n + 1 = m)
        BY <1>1
      <4>2. h[n] = Raised => h[n + 1] = Raised
        <5>1. h[n + 1] = visit(tree, lim, h[n])
          BY <2>1, Zenon
        <5>2. visit(tree, lim, Raised) = Raised
          BY RaisedIs, VisitIdle, Zenon
        <5> QED BY <5>1, <5>2, Zenon
      <4> QED BY <2>1, <3>2, <4>1, <4>2, Zenon
    <3>3. N \in 0 .. N /\ N >= m
      BY <1>1
    <3>4. N \in Z
      <4> HIDE DEF Z
      <4> QED BY <1>1, <3>1, <3>2, <3>3, StepByStep
    <3>5. h[N] = Raised
      BY <3>3, <3>4, Zenon
    <3> QED BY <2>1, <3>5, RaisedIs
  <2> QED BY <1>1, <2>1, Zenon
<1>3. 0 \in S
  <2>1. 0 \in 0 .. N
    BY <1>1
  <2> QED BY <1>1, <2>1, Zenon
<1>4. ASSUME NEW n \in 0 .. N - 1, n \in S PROVE n + 1 \in S
  <2>1. n + 1 \in 0 .. N
    BY <1>1
  <2>2. f[n] = g[n] /\ f[n + 1] = visit(tree, l1, f[n]) /\ g[n + 1] = visit(tree, l2, f[n])
    BY <1>1, <1>4, Zenon
  <2> DEFINE st == f[n]
  <2>3. visit(tree, l1, st) # Raised /\ visit(tree, l2, st) # Raised
    <3>1. f[n + 1] # Raised /\ g[n + 1] # Raised
      BY <1>2, <2>1, Zenon
    <3> QED BY <2>2, <3>1, Zenon
  <2> HIDE DEF st
  <2>4. visit(tree, l1, st) = visit(tree, l2, st)
    <3>1. CASE st.todo = <<>>
      <4>1. visit(tree, l1, st) = st /\ visit(tree, l2, st) = st
        BY <3>1, VisitIdle, Zenon
      <4> QED BY <4>1, Zenon
    <3>2. CASE st.todo # <<>>
      <4>1. Goes(tree, l1, st) /\ Goes(tree, l2, st)
        BY <2>3, <3>2, VisitRaises, Zenon
      <4> QED BY <4>1, VisitsAgree, Zenon
    <3> QED BY <3>1, <3>2
  <2>5. f[n + 1] = g[n + 1]
    BY <2>2, <2>4, Zenon DEF st
  <2> QED BY <2>1, <2>5, Zenon
<1>5. N \in S
  <2>1. N \in 0 .. N
    BY <1>1
  <2> HIDE DEF S
  <2> QED BY <1>1, <1>3, <1>4, <2>1, StepByStep
<1> QED BY <1>1, <1>5, Zenon

-----------------------------------------------------------------------------
\* The limits of the server are within the client's: what the server takes,
\* the client takes.
LEMMA LimitsAre ==
  /\ IsLimits(ClientLimits)
  /\ \A lim \in Limits : /\ IsLimits(lim)
                         /\ lim.depth <= ClientLimits.depth /\ lim.nodes <= ClientLimits.nodes
                         /\ lim.options <= ClientLimits.options
                         /\ lim.questions <= ClientLimits.questions
<1> DEFINE C == ClientLimits
<1>1. C.depth \in Nat /\ C.nodes \in Nat /\ C.options \in Nat /\ C.questions \in Nat
  BY DEF ClientLimits
<1>2. IsLimits(C)
  BY <1>1, Zenon DEF IsLimits
<1>3. ASSUME NEW lim \in Limits
      PROVE  /\ IsLimits(lim)
             /\ lim.depth <= C.depth /\ lim.nodes <= C.nodes
             /\ lim.options <= C.options /\ lim.questions <= C.questions
  <2>1. lim \in [depth : 1 .. C.depth, nodes : 1 .. C.nodes,
                 options : 1 .. C.options, questions : 1 .. C.questions]
    BY LimitsAssumption, Zenon
  <2> HIDE DEF C
  <2>2. /\ lim.depth \in 1 .. C.depth /\ lim.nodes \in 1 .. C.nodes
        /\ lim.options \in 1 .. C.options /\ lim.questions \in 1 .. C.questions
    BY <2>1
  <2>3. \A m \in Nat : \A k \in 1 .. m : k \in Nat /\ k <= m
    OBVIOUS
  <2> QED BY <1>1, <2>2, <2>3, Zenon DEF IsLimits
<1> QED BY <1>2, <1>3

\* What is legal under the limits of the server is under those of the client.
LEMMA ClientIsLaxer ==
  ASSUME NEW tree, IsTree(tree), NEW lim \in Limits, Lawful(tree, lim)
  PROVE  Lawful(tree, ClientLimits)
<1> DEFINE n == Cardinality(DOMAIN tree)
           K == {p \in DOMAIN tree : IsVariable(tree[p])}
           k == Cardinality(K)
           C == ClientLimits
<1>1. /\ IsLimits(C) /\ IsLimits(lim)
      /\ lim.depth <= C.depth /\ lim.nodes <= C.nodes
      /\ lim.options <= C.options /\ lim.questions <= C.questions
  BY LimitsAre, Zenon
<1>2. n \in Nat /\ IsFiniteSet(K) /\ k \in Nat
  <2>1. IsFiniteSet(DOMAIN tree) /\ K \in SUBSET DOMAIN tree
    BY TreeIs
  <2> HIDE DEF K
  <2> QED BY <2>1, FS_Subset, FS_CardinalityType
<1>3. n <= lim.nodes /\ k <= lim.questions
  BY Zenon DEF Lawful, Flawless
<1>4. n <= C.nodes /\ k <= C.questions
  <2> HIDE DEF n, k, C
  <2> QED BY <1>1, <1>2, <1>3 DEF IsLimits
<1>5. ASSUME NEW p \in DOMAIN tree
      PROVE  Len(p) < C.depth /\ tree[p].lawful /\ (Inner(tree[p]) \/ LeafIsLegal(tree[p], C))
  <2>1. Len(p) < lim.depth /\ tree[p].lawful /\ (Inner(tree[p]) \/ LeafIsLegal(tree[p], lim))
    BY Zenon DEF Lawful, Flawless
  <2>2. Len(p) \in Nat
    <3>1. p \in Seq(Nat)
      BY TreeIs
    <3> QED BY <3>1
  <2>3. Len(p) < C.depth
    <3> HIDE DEF C
    <3> QED BY <1>1, <2>1, <2>2 DEF IsLimits
  <2>4. ASSUME NEW m \in 1 .. lim.options PROVE m \in 1 .. C.options
    <3> HIDE DEF C
    <3> QED BY <1>1 DEF IsLimits
  <2>5. LeafIsLegal(tree[p], lim) => LeafIsLegal(tree[p], C)
    BY <2>4, Zenon DEF LeafIsLegal
  <2> QED BY <2>1, <2>3, <2>5, Zenon
<1> QED BY <1>4, <1>5, Zenon DEF Lawful, Flawless

\* Both sides accept a legal schema, with one plan; if it is not legal the
\* server at least does not.
LEMMA SidesAgree ==
  ASSUME NEW tree, IsTree(tree), NEW lim \in Limits
  PROVE  /\ ~Lawful(tree, lim) => compile_schema(tree, lim).failed
         /\ Lawful(tree, lim) => /\ ~compile_schema(tree, lim).failed
                                /\ ~compile_schema(tree, ClientLimits).failed
                                /\ compile_schema(tree, ClientLimits) = compile_schema(tree, lim)
                                /\ DOMAIN compile_schema(tree, lim).root = DOMAIN tree
                                /\ Drawn(tree, compile_schema(tree, lim))
<1>1. Compiled(tree, lim, compile_schema(tree, lim))
  BY CompiledIs, LimitsAre, Zenon
<1>2. Compiled(tree, ClientLimits, compile_schema(tree, ClientLimits))
  BY CompiledIs, LimitsAre, Zenon
<1> DEFINE mine == compile_schema(tree, ClientLimits)
           theirs == compile_schema(tree, lim)
<1>3. ~Lawful(tree, lim) => theirs.failed
  BY <1>1, Zenon DEF Compiled
<1>4. Lawful(tree, lim) => ~theirs.failed /\ ~mine.failed
  BY <1>1, <1>2, ClientIsLaxer, Zenon DEF Compiled
<1>5. ~theirs.failed => DOMAIN theirs.root = DOMAIN tree /\ Drawn(tree, theirs)
  BY <1>1, Zenon DEF Compiled
<1>6. ~theirs.failed /\ ~mine.failed => mine = theirs
  BY PlansAgree, Zenon
<1> HIDE DEF mine, theirs
<1>7. Lawful(tree, lim) => /\ ~theirs.failed /\ ~mine.failed /\ mine = theirs
                         /\ DOMAIN theirs.root = DOMAIN tree /\ Drawn(tree, theirs)
  BY <1>4, <1>5, <1>6, Zenon
<1> QED BY <1>3, <1>7, Zenon DEF mine, theirs

-----------------------------------------------------------------------------
(* The invariant of a request. *)

\* The server's plan of the schema that was sent.
ThePlan == compile_schema(schema, limits)

\* The fields of an answer are the plan's, with candidates selected.
FieldsFit ==
  /\ DOMAIN fields = DOMAIN ThePlan.fields
  /\ \A i \in DOMAIN fields :
        /\ fields[i] = [path |-> ThePlan.fields[i].path, values |-> ThePlan.fields[i].values,
                        selected |-> fields[i].selected]
        /\ \E j \in DOMAIN fields[i].values : fields[i].selected = fields[i].values[j]

\* The object holds the selections, or it did before one of them was changed.
ResultFits ==
  /\ ~garbled => result = materialize(ThePlan.root, Selected(fields))
  /\ garbled => \E chosen : /\ result = materialize(ThePlan.root, chosen)
                            /\ \E i \in DOMAIN fields : chosen[i] # fields[i].selected

\* The invariant: what is known of a request at each stage.
PlansInv ==
  /\ schema \in Schemas /\ limits \in Limits
  /\ stage \in {"asked", "refused", "compiled", "sent", "accepted", "rejected"}
  /\ stage = "refused" => ~Lawful(schema, limits)
  /\ stage \notin {"asked", "refused"} => Lawful(schema, limits) /\ plan = ThePlan
  /\ stage \in {"sent", "accepted", "rejected"} => FieldsFit /\ ResultFits
  /\ stage \notin {"sent", "accepted", "rejected"} => garbled = FALSE
  /\ stage = "accepted" => ~garbled
  /\ stage = "rejected" => garbled

\* The schema of a request, and what both sides make of it.
LEMMA SchemaCompiles ==
  ASSUME schema \in Schemas, limits \in Limits
  PROVE  /\ IsTree(schema)
         /\ ThePlan.failed \/ compile_schema(schema, ClientLimits).failed <=> ~Lawful(schema, limits)
         /\ Lawful(schema, limits) => /\ compile_schema(schema, ClientLimits) = ThePlan
                                     /\ DOMAIN ThePlan.root = DOMAIN schema
                                     /\ Drawn(schema, ThePlan)
<1>1. IsTree(schema)
  BY SchemasAssumption, Zenon
<1> QED BY <1>1, SidesAgree, Zenon DEF ThePlan

\* The fields of a plan name variable leaves with legal candidates, each the
\* place of its own selection in the tree.
LEMMA PlanFields ==
  ASSUME schema \in Schemas, limits \in Limits, Lawful(schema, limits), NEW i \in DOMAIN ThePlan.fields
  PROVE  \E p \in DOMAIN schema :
            /\ ThePlan.fields[i] = FieldOf(schema, p)
            /\ p \in DOMAIN ThePlan.root /\ ThePlan.root[p] = [kind |-> "choice", index |-> i]
            /\ ~Inner(schema[p]) /\ LeafIsLegal(schema[p], limits)
            /\ schema[p].values \in Seq(Range(schema[p].values))
<1>1. /\ IsTree(schema) /\ DOMAIN ThePlan.root = DOMAIN schema /\ Drawn(schema, ThePlan)
  BY SchemaCompiles, Zenon
<1>2. i \in 1 .. Len(ThePlan.fields)
  <2>1. ThePlan.fields \in Seq({FieldOf(schema, q) : q \in DOMAIN schema})
    BY <1>1, Zenon DEF Drawn
  <2> DEFINE F == {FieldOf(schema, q) : q \in DOMAIN schema}
             fs == ThePlan.fields
  <2>2. fs \in Seq(F) /\ i \in DOMAIN fs
    BY <2>1
  <2> HIDE DEF F, fs
  <2>3. i \in 1 .. Len(fs)
    BY <2>2
  <2> QED BY <2>3 DEF fs
<1>3. PICK p \in DOMAIN ThePlan.root : /\ IsVariable(schema[p])
                                       /\ ThePlan.fields[i] = FieldOf(schema, p)
                                       /\ ThePlan.root[p] = [kind |-> "choice", index |-> i]
  BY <1>1, <1>2, Zenon DEF Drawn
<1>4. p \in DOMAIN schema /\ ~Inner(schema[p])
  BY <1>1, <1>3, Zenon DEF IsVariable
<1>5. LeafIsLegal(schema[p], limits)
  BY <1>4, Zenon DEF Lawful, Flawless
<1>6. schema[p].values \in Seq(Range(schema[p].values))
  BY <1>1, <1>4, TreeIs, Zenon
<1> QED BY <1>1, <1>3, <1>4, <1>5, <1>6, Zenon

\* The object that materialize() makes holds each selection at its field's path.
LEMMA HoldsSelection ==
  ASSUME schema \in Schemas, limits \in Limits, Lawful(schema, limits),
         NEW i \in DOMAIN ThePlan.fields, NEW chosen
  PROVE  materialize(ThePlan.root, chosen)[ThePlan.fields[i].path].value = chosen[i]
<1> DEFINE r == ThePlan.root
           m == materialize(r, chosen)
<1>1. PICK p \in DOMAIN schema : /\ ThePlan.fields[i] = FieldOf(schema, p)
                                 /\ p \in DOMAIN r /\ r[p] = [kind |-> "choice", index |-> i]
  BY PlanFields, Zenon
<1>2. ThePlan.fields[i].path = p
  <2>1. FieldOf(schema, p).path = p
    BY DEF FieldOf
  <2> QED BY <1>1, <2>1, Zenon
<1>3. r[p].kind = "choice" /\ r[p].index = i
  BY <1>1
<1>4. ~Inner(r[p]) /\ r[p].kind # "constant"
  BY <1>3 DEF Inner
<1>5. m[p] = [kind |-> "scalar", value |-> chosen[i]]
  <2> HIDE DEF r
  <2> QED BY <1>1, <1>3, <1>4, Zenon DEF materialize, choose
<1>6. m[p].value = chosen[i]
  <2> HIDE DEF m
  <2> QED BY <1>5
<1> QED BY <1>2, <1>6, Zenon

\* The client looks a selection up by its key and finds the selection: the
\* keys of legal candidates differ.
LEMMA OwnIsSelected ==
  ASSUME schema \in Schemas, limits \in Limits, Lawful(schema, limits), FieldsFit,
         NEW i \in DOMAIN fields
  PROVE  Own(ThePlan.fields[i], fields[i].selected) = fields[i].selected
<1> DEFINE v == ThePlan.fields[i].values
           s == fields[i].selected
<1>1. i \in DOMAIN ThePlan.fields
  BY Zenon DEF FieldsFit
<1>2. PICK p \in DOMAIN schema : /\ ThePlan.fields[i] = FieldOf(schema, p)
                                 /\ LeafIsLegal(schema[p], limits)
  BY <1>1, PlanFields, Zenon
<1>3. v = schema[p].values
  <2>1. FieldOf(schema, p).values = schema[p].values
    BY DEF FieldOf
  <2> QED BY <1>2, <2>1, Zenon
<1>4. IsInjective(keys(v))
  BY <1>2, <1>3, Zenon DEF LeafIsLegal
<1>5. fields[i].values = v /\ \E j \in DOMAIN fields[i].values : s = fields[i].values[j]
  <2> DEFINE a == ThePlan.fields[i].path
  <2>1. fields[i] = [path |-> a, values |-> v, selected |-> s]
    BY Zenon DEF FieldsFit
  <2> HIDE DEF v, s, a
  <2>2. fields[i].values = v
    BY <2>1
  <2> QED BY <2>2, Zenon DEF FieldsFit, s
<1>6. PICK j \in DOMAIN v : s = v[j]
  BY <1>5, Zenon
<1> DEFINE k == CHOOSE l \in DOMAIN v : scalar_key(v[l]) = scalar_key(s)
<1>7. k \in DOMAIN v /\ scalar_key(v[k]) = scalar_key(s)
  BY <1>6, Zenon
<1> HIDE DEF k, v, s
<1>8. DOMAIN keys(v) = DOMAIN v /\ keys(v)[k] = keys(v)[j]
  BY <1>6, <1>7, Zenon DEF keys
<1>9. k = j
  BY <1>4, <1>6, <1>7, <1>8, Zenon DEF IsInjective
<1>10. v[k] = s
  BY <1>6, <1>9, Zenon
<1>11. Own(ThePlan.fields[i], s) = v[k]
  BY Zenon DEF Own, k, v
<1> QED BY <1>10, <1>11, Zenon DEF s

-----------------------------------------------------------------------------
(* Its steps. *)

\* The invariant holds at first.
LEMMA InitPlansInv == SchemaInit => PlansInv
BY DEF SchemaInit, PlansInv

\* A request is refused if its schema is not legal, and gets its plan otherwise.
LEMMA CompileKeeps == ASSUME PlansInv, Compile PROVE PlansInv'
<1>1. /\ schema \in Schemas /\ limits \in Limits /\ stage = "asked" /\ garbled = FALSE
      /\ UNCHANGED <<schema, limits, result, fields, garbled>>
  BY DEF PlansInv, Compile
<1>2. ThePlan.failed \/ compile_schema(schema, ClientLimits).failed <=> ~Lawful(schema, limits)
  BY <1>1, SchemaCompiles, Zenon
<1>3. Lawful(schema, limits)' <=> Lawful(schema, limits)
  BY <1>1, Zenon
<1>4. ThePlan' = ThePlan
  BY <1>1, Zenon DEF ThePlan
<1>5. CASE ~Lawful(schema, limits)
  <2>1. stage' = "refused"
    BY <1>2, <1>5, Zenon DEF Compile, ThePlan
  <2> QED BY <1>1, <1>3, <1>5, <2>1 DEF PlansInv
<1>6. CASE Lawful(schema, limits)
  <2>1. stage' = "compiled" /\ plan' = ThePlan
    BY <1>2, <1>6, Zenon DEF Compile, ThePlan
  <2> QED BY <1>1, <1>3, <1>4, <1>6, <2>1 DEF PlansInv
<1> QED BY <1>5, <1>6

\* The answer holds one of its candidates for each field, and so does the object.
LEMMA AssembleObjectKeeps == ASSUME PlansInv, AssembleObject PROVE PlansInv'
<1>1. /\ schema \in Schemas /\ limits \in Limits /\ stage = "compiled" /\ garbled = FALSE
      /\ Lawful(schema, limits) /\ plan = ThePlan
      /\ UNCHANGED <<schema, limits, plan, garbled>> /\ stage' = "sent"
      /\ result' = materialize(plan.root, Selected(fields'))
  BY DEF PlansInv, AssembleObject
<1>2. PICK pick \in [DOMAIN plan.fields -> 1 .. limits.options] :
         /\ \A i \in DOMAIN pick : pick[i] <= Len(plan.fields[i].values)
         /\ fields' = [i \in DOMAIN pick |->
                         [path |-> plan.fields[i].path, values |-> plan.fields[i].values,
                          selected |-> plan.fields[i].values[pick[i]]]]
  BY Zenon DEF AssembleObject
<1>3. Lawful(schema, limits)' <=> Lawful(schema, limits)
  BY <1>1, Zenon
<1>4. ThePlan' = ThePlan
  BY <1>1, Zenon DEF ThePlan
<1>5. DOMAIN pick = DOMAIN ThePlan.fields
  BY <1>1, <1>2, Zenon
<1>6. ASSUME NEW i \in DOMAIN ThePlan.fields
      PROVE  LET f == ThePlan.fields[i]
             IN  pick[i] \in DOMAIN f.values
  <2> DEFINE v == ThePlan.fields[i].values
  <2>1. PICK p \in DOMAIN schema : /\ ThePlan.fields[i] = FieldOf(schema, p)
                                   /\ schema[p].values \in Seq(Range(schema[p].values))
    BY <1>1, PlanFields, Zenon
  <2>2. v = schema[p].values
    <3>1. FieldOf(schema, p).values = schema[p].values
      BY DEF FieldOf
    <3> QED BY <2>1, <3>1, Zenon
  <2>3. v \in Seq(Range(v))
    BY <2>1, <2>2, Zenon
  <2>4. pick[i] \in 1 .. limits.options /\ pick[i] <= Len(v)
    BY <1>1, <1>2, <1>5, Zenon
  <2>5. limits.options \in Nat
    BY <1>1, LimitsAre, Zenon DEF IsLimits
  <2> HIDE DEF v
  <2>6. pick[i] \in DOMAIN v
    BY <2>3, <2>4, <2>5
  <2> QED BY <2>6, Zenon DEF v
<1>7. FieldsFit'
  <2>1. DOMAIN fields' = DOMAIN ThePlan.fields
    BY <1>2, <1>5, Zenon
  <2>2. ASSUME NEW i \in DOMAIN ThePlan.fields
        PROVE  /\ fields'[i] = [path |-> ThePlan.fields[i].path, values |-> ThePlan.fields[i].values,
                                selected |-> fields'[i].selected]
               /\ \E j \in DOMAIN fields'[i].values : fields'[i].selected = fields'[i].values[j]
    <3> DEFINE a == ThePlan.fields[i].path
               v == ThePlan.fields[i].values
               s == v[pick[i]]
    <3>1. fields'[i] = [path |-> a, values |-> v, selected |-> s]
      BY <1>1, <1>2, <1>5, Zenon
    <3>2. pick[i] \in DOMAIN v
      BY <1>6, Zenon
    <3> DEFINE f == fields'[i]
    <3> HIDE DEF a, f
    <3>3. f.values = v /\ f.selected = s
      <4> HIDE DEF v, s
      <4> QED BY <3>1 DEF f
    <3> QED BY <3>1, <3>2, <3>3, Zenon DEF a, f
  <2> QED BY <1>4, <2>1, <2>2, Zenon DEF FieldsFit
<1>8. ResultFits'
  <2>1. result' = materialize(ThePlan.root, Selected(fields'))
    BY <1>1, Zenon
  <2>2. garbled' = FALSE
    BY <1>1
  <2> QED BY <1>4, <2>1, <2>2, Zenon DEF ResultFits
<1> QED BY <1>1, <1>3, <1>4, <1>7, <1>8 DEF PlansInv

\* A changed selection is no longer the one the object was made with.
LEMMA GarbleKeeps == ASSUME PlansInv, Garble PROVE PlansInv'
<1>1. /\ schema \in Schemas /\ limits \in Limits /\ stage = "sent" /\ ~garbled
      /\ Lawful(schema, limits) /\ plan = ThePlan /\ FieldsFit /\ ResultFits
      /\ UNCHANGED <<schema, limits, stage, plan, result>> /\ garbled' = TRUE
  BY DEF PlansInv, Garble
<1>2. PICK i \in DOMAIN fields : \E j \in DOMAIN fields[i].values :
               /\ fields[i].selected # fields[i].values[j]
               /\ fields' = [fields EXCEPT ![i].selected = fields[i].values[j]]
  BY Zenon DEF Garble
<1>3. PICK j \in DOMAIN fields[i].values :
               /\ fields[i].selected # fields[i].values[j]
               /\ fields' = [fields EXCEPT ![i].selected = fields[i].values[j]]
  BY <1>2
<1>4. Lawful(schema, limits)' <=> Lawful(schema, limits)
  BY <1>1, Zenon
<1>5. ThePlan' = ThePlan
  BY <1>1, Zenon DEF ThePlan
<1> DEFINE a == fields[i].path
           v == fields[i].values
           s == fields[i].selected
           w == fields[i].values[j]
<1>6. /\ DOMAIN fields = DOMAIN ThePlan.fields
      /\ \A k \in DOMAIN fields :
            /\ fields[k] = [path |-> ThePlan.fields[k].path, values |-> ThePlan.fields[k].values,
                            selected |-> fields[k].selected]
            /\ \E l \in DOMAIN fields[k].values : fields[k].selected = fields[k].values[l]
  BY <1>1, Zenon DEF FieldsFit
<1>7. /\ DOMAIN fields' = DOMAIN fields
      /\ \A k \in DOMAIN fields : k # i => fields'[k] = fields[k]
      /\ fields'[i] = [fields[i] EXCEPT !.selected = w]
  <2> HIDE DEF w
  <2>1. fields' = [fields EXCEPT ![i].selected = w]
    BY <1>3 DEF w
  <2> QED BY <2>1
<1>8. /\ ThePlan.fields[i].path = a /\ ThePlan.fields[i].values = v
      /\ fields[i] = [path |-> a, values |-> v, selected |-> s]
  <2> DEFINE b == ThePlan.fields[i].path
             u == ThePlan.fields[i].values
  <2>1. fields[i] = [path |-> b, values |-> u, selected |-> s]
    BY <1>6, Zenon
  <2> HIDE DEF b, u, s
  <2>2. a = b /\ v = u
    BY <2>1
  <2> QED BY <2>1, <2>2, Zenon DEF b, u
<1>9. fields'[i] = [path |-> a, values |-> v, selected |-> w]
  <2> DEFINE f == fields[i]
  <2>1. f = [path |-> a, values |-> v, selected |-> s]
    BY <1>8
  <2> HIDE DEF a, v, s, w, f
  <2>2. [f EXCEPT !.selected = w] = [path |-> a, values |-> v, selected |-> w]
    BY <2>1
  <2> QED BY <1>7, <2>2, Zenon DEF f
<1> DEFINE g == fields'[i]
<1>10. g.path = a /\ g.values = v /\ g.selected = w
  <2> HIDE DEF a, v, w, g
  <2>1. g = [path |-> a, values |-> v, selected |-> w]
    BY <1>9 DEF g
  <2> QED BY <2>1
<1>11. FieldsFit'
  <2>1. ASSUME NEW k \in DOMAIN fields
        PROVE  /\ fields'[k] = [path |-> ThePlan.fields[k].path, values |-> ThePlan.fields[k].values,
                                selected |-> fields'[k].selected]
               /\ \E l \in DOMAIN fields'[k].values : fields'[k].selected = fields'[k].values[l]
    <3>1. CASE k = i
      <4>1. j \in DOMAIN g.values /\ g.selected = g.values[j]
        <5>1. j \in DOMAIN v /\ w = v[j]
          BY <1>3
        <5> HIDE DEF g, v, w
        <5> QED BY <1>10, <5>1, Zenon
      <4>2. g = [path |-> ThePlan.fields[i].path, values |-> ThePlan.fields[i].values, selected |-> g.selected]
        <5> DEFINE b == ThePlan.fields[i].path
                   u == ThePlan.fields[i].values
        <5>1. g = [path |-> a, values |-> v, selected |-> w] /\ b = a /\ u = v /\ g.selected = w
          BY <1>8, <1>9, <1>10, Zenon
        <5> HIDE DEF a, v, w, g, b, u
        <5>2. g = [path |-> b, values |-> u, selected |-> g.selected]
          BY <5>1
        <5> QED BY <5>2 DEF b, u, g
      <4> QED BY <3>1, <4>1, <4>2, Zenon
    <3>2. CASE k # i
      <4> DEFINE x == fields[k]
                 y == fields'[k]
      <4>1. /\ x = [path |-> ThePlan.fields[k].path, values |-> ThePlan.fields[k].values,
                    selected |-> x.selected]
            /\ \E l \in DOMAIN x.values : x.selected = x.values[l]
        BY <1>6, Zenon
      <4>2. y = x
        BY <1>7, <3>2, Zenon
      <4> HIDE DEF x, y
      <4>3. /\ y = [path |-> ThePlan.fields[k].path, values |-> ThePlan.fields[k].values,
                    selected |-> y.selected]
            /\ \E l \in DOMAIN y.values : y.selected = y.values[l]
        BY <4>1, <4>2, Zenon
      <4> QED BY <4>3, Zenon DEF y
    <3> QED BY <3>1, <3>2
  <2> QED BY <1>5, <1>6, <1>7, <2>1, Zenon DEF FieldsFit
<1>12. ResultFits'
  <2>1. result = materialize(ThePlan.root, Selected(fields))
    BY <1>1, Zenon DEF ResultFits
  <2>2. Selected(fields)[i] = s
    BY Zenon DEF Selected
  <2>3. s # w
    BY <1>3
  <2>4. i \in DOMAIN fields' /\ Selected(fields)[i] # fields'[i].selected
    BY <1>7, <1>10, <2>2, <2>3, Zenon
  <2> QED BY <1>1, <1>5, <2>1, <2>4, Zenon DEF ResultFits
<1> QED BY <1>1, <1>4, <1>5, <1>11, <1>12 DEF PlansInv

\* The client's verdict is whether the object holds the selections as they
\* are now: its plan is the server's and its own values are the same.
LEMMA VerdictIs ==
  ASSUME schema \in Schemas, limits \in Limits, Lawful(schema, limits), FieldsFit
  PROVE  verify_response <=> result = materialize(ThePlan.root, Selected(fields))
<1>1. compile_schema(schema, ClientLimits) = ThePlan
  BY SchemaCompiles, Zenon
<1> DEFINE fs == ThePlan.fields
<1>2. DOMAIN fields = DOMAIN fs
  BY Zenon DEF FieldsFit
<1>3. ASSUME NEW i \in DOMAIN fields PROVE fields[i].path = fs[i].path /\ fields[i].values = fs[i].values
  <2> DEFINE b == ThePlan.fields[i].path
             u == ThePlan.fields[i].values
             s == fields[i].selected
  <2>1. fields[i] = [path |-> b, values |-> u, selected |-> s]
    BY Zenon DEF FieldsFit
  <2> HIDE DEF b, u, s
  <2>2. fields[i].path = b /\ fields[i].values = u
    BY <2>1
  <2> QED BY <2>2 DEF b, u
<1>4. [i \in DOMAIN fields |-> fields[i].path] = [i \in DOMAIN fs |-> fs[i].path]
  <2> HIDE DEF fs
  <2> QED BY <1>2, <1>3, Zenon
<1>5. \A i \in DOMAIN fields : keys(fields[i].values) = keys(fs[i].values)
  <2> HIDE DEF fs
  <2> QED BY <1>3, Zenon
<1>6. [i \in DOMAIN fields |-> Own(fs[i], fields[i].selected)] = Selected(fields)
  <2>1. \A i \in DOMAIN fields : Own(fs[i], fields[i].selected) = fields[i].selected
    BY OwnIsSelected, Zenon
  <2> HIDE DEF fs
  <2> QED BY <2>1, Zenon DEF Selected
<1> QED BY <1>1, <1>4, <1>5, <1>6, Zenon DEF verify_response, SameResult

\* Two lists of selections that differ at a field make objects that differ at its
\* path: only an answer that was changed is rejected, and every one is.
LEMMA VerifyKeeps == ASSUME PlansInv, Verify PROVE PlansInv'
<1>1. /\ schema \in Schemas /\ limits \in Limits /\ stage = "sent"
      /\ Lawful(schema, limits) /\ plan = ThePlan /\ FieldsFit /\ ResultFits
      /\ UNCHANGED <<schema, limits, plan, result, fields, garbled>>
      /\ stage' = IF verify_response THEN "accepted" ELSE "rejected"
  BY DEF PlansInv, Verify
<1>2. Lawful(schema, limits)' <=> Lawful(schema, limits)
  BY <1>1, Zenon
<1>3. ThePlan' = ThePlan
  BY <1>1, Zenon DEF ThePlan
<1>4. FieldsFit' /\ ResultFits'
  BY <1>1, <1>3, Zenon DEF FieldsFit, ResultFits
<1>5. ~garbled => verify_response
  BY <1>1, VerdictIs, Zenon DEF ResultFits
<1>6. garbled => ~verify_response
  <2> SUFFICES ASSUME garbled, result = materialize(ThePlan.root, Selected(fields)) PROVE FALSE
    BY <1>1, VerdictIs, Zenon
  <2>1. PICK chosen : /\ result = materialize(ThePlan.root, chosen)
                      /\ \E i \in DOMAIN fields : chosen[i] # fields[i].selected
    BY <1>1, Zenon DEF ResultFits
  <2>2. PICK i \in DOMAIN fields : chosen[i] # fields[i].selected
    BY <2>1
  <2>3. i \in DOMAIN ThePlan.fields
    BY <1>1, Zenon DEF FieldsFit
  <2>4. result[ThePlan.fields[i].path].value = chosen[i]
    BY <1>1, <2>1, <2>3, HoldsSelection, Zenon
  <2>5. result[ThePlan.fields[i].path].value = Selected(fields)[i]
    BY <1>1, <2>3, HoldsSelection, Zenon
  <2>6. Selected(fields)[i] = fields[i].selected
    BY Zenon DEF Selected
  <2> QED BY <2>2, <2>4, <2>5, <2>6, Zenon
<1> QED BY <1>1, <1>2, <1>3, <1>4, <1>5, <1>6 DEF PlansInv

\* No step breaks the invariant.
LEMMA NextPlansInv == PlansInv /\ [SchemaNext]_schemaVars => PlansInv'
<1> SUFFICES ASSUME PlansInv, [SchemaNext]_schemaVars PROVE PlansInv'
  OBVIOUS
<1>1. CASE UNCHANGED schemaVars
  BY <1>1, Zenon DEF schemaVars, PlansInv, FieldsFit, ResultFits, ThePlan
<1> QED BY <1>1, CompileKeeps, AssembleObjectKeeps, GarbleKeeps, VerifyKeeps, Zenon
        DEF SchemaNext, SchemaOver

\* At every state a request that was not refused has the one plan both sides
\* make of its schema, and its answer holds legal selections.
THEOREM PlansInvariance == SchemaSpec => []PlansInv
<1>1. SchemaInit => PlansInv
  BY InitPlansInv
<1>2. PlansInv /\ [SchemaNext]_schemaVars => PlansInv'
  BY NextPlansInv
<1> QED BY <1>1, <1>2, PTL DEF SchemaSpec

\* For every schema and all limits, a request is refused exactly if its schema
\* breaks a rule or a limit: the counts that visit() keeps of the nodes and of
\* the fields are those of the whole schema, and its keys tell candidates apart
\* as JSON values are (schema_compiler.py:146-156, 237-291, schemas.py:107-114).
THEOREM RefusalsAreRight == SchemaSpec => []RefusedIffIllegal
<1>1. PlansInv => RefusedIffIllegal
  <2> SUFFICES ASSUME PlansInv PROVE RefusedIffIllegal
    OBVIOUS
  <2>1. Legal(schema, limits) <=> Lawful(schema, limits)
    <3>1. schema \in Schemas /\ limits \in Limits
      BY Zenon DEF PlansInv
    <3> QED BY <3>1, SchemasAssumption, LimitsAre, LegalIsLawful, Zenon
  <2> QED BY <2>1 DEF PlansInv, RefusedIffIllegal
<1> QED BY <1>1, PlansInvariance, PTL

\* For every schema and all limits of the server, the client accepts what the
\* server has sent and nothing that contradicts the selections
\* (client.py:72-91, schema_compiler.py:116-133).
THEOREM TheClientSeesThrough == SchemaSpec => []ClientSeesThrough
<1>1. PlansInv => ClientSeesThrough
  BY DEF PlansInv, ClientSeesThrough
<1> QED BY <1>1, PlansInvariance, PTL

\* An object made of legal selections is an instance of the schema.
LEMMA SelectionsFit ==
  ASSUME schema \in Schemas, limits \in Limits, Lawful(schema, limits), FieldsFit
  PROVE  Conforms(materialize(ThePlan.root, Selected(fields)), schema)
<1> DEFINE r == ThePlan.root
           m == materialize(r, Selected(fields))
<1>1. /\ IsTree(schema) /\ DOMAIN r = DOMAIN schema /\ Drawn(schema, ThePlan)
  BY SchemaCompiles, Zenon
<1>2. DOMAIN m = DOMAIN schema
  BY <1>1, Zenon DEF materialize
<1>3. ASSUME NEW p \in DOMAIN schema
      PROVE  IF Inner(schema[p]) THEN m[p].kind = schema[p].kind
             ELSE m[p].kind = "scalar" /\ m[p].value \in ToSet(schema[p].values)
  <2>1. NodeFits(schema, p, r[p], ThePlan.fields)
    BY <1>1, Zenon DEF Drawn
  <2>2. m[p] = IF Inner(r[p]) THEN [kind |-> r[p].kind]
               ELSE [kind |-> "scalar", value |-> IF r[p].kind = "constant" THEN r[p].value
                                                  ELSE Selected(fields)[r[p].index]]
    BY <1>1, Zenon DEF materialize, choose
  <2> HIDE DEF r, m
  <2>3. CASE Inner(schema[p])
    <3> DEFINE k == schema[p].kind
    <3>1. r[p] = [kind |-> k] /\ k \in {"object", "array"}
      BY <2>1, <2>3, Zenon DEF NodeFits, Inner
    <3> HIDE DEF k
    <3>2. r[p].kind = k
      BY <3>1
    <3>3. m[p] = [kind |-> k]
      BY <2>2, <3>1, <3>2, Zenon DEF Inner
    <3>4. m[p].kind = k
      BY <3>3
    <3> QED BY <2>3, <3>4, Zenon DEF k
  <2>4. CASE ~Inner(schema[p]) /\ ~IsVariable(schema[p])
    <3> DEFINE x == schema[p].values[1]
    <3>1. r[p] = [kind |-> "constant", value |-> x]
      BY <2>1, <2>4, Zenon DEF NodeFits
    <3>2. x \in ToSet(schema[p].values)
      <4>1. Len(schema[p].values) \in 1 .. limits.options
        BY <2>4, Zenon DEF Lawful, Flawless, LeafIsLegal
      <4>2. schema[p].values \in Seq(Range(schema[p].values)) /\ limits.options \in Nat
        BY <1>1, <2>4, TreeIs, LimitsAre, Zenon DEF IsLimits
      <4> DEFINE v == schema[p].values
      <4>3. 1 \in DOMAIN v
        <5>1. v \in Seq(Range(v)) /\ Len(v) \in 1 .. limits.options
          BY <4>1, <4>2
        <5> HIDE DEF v
        <5> QED BY <4>2, <5>1
      <4> QED BY <4>3, Zenon DEF ToSet
    <3> HIDE DEF x
    <3>3. r[p].kind = "constant" /\ r[p].value = x
      BY <3>1
    <3>4. ~Inner(r[p])
      BY <3>3 DEF Inner
    <3>5. m[p] = [kind |-> "scalar", value |-> x]
      BY <2>2, <3>3, <3>4, Zenon
    <3>6. m[p].kind = "scalar" /\ m[p].value = x
      BY <3>5
    <3> QED BY <2>4, <3>2, <3>6, Zenon
  <2>5. CASE ~Inner(schema[p]) /\ IsVariable(schema[p])
    <3>1. PICK i \in 1 .. Len(ThePlan.fields) : /\ ThePlan.fields[i] = FieldOf(schema, p)
                                                /\ r[p] = [kind |-> "choice", index |-> i]
      BY <2>1, <2>5, Zenon DEF NodeFits
    <3>2. i \in DOMAIN fields
      <4>1. ThePlan.fields \in Seq({FieldOf(schema, q) : q \in DOMAIN schema})
        BY <1>1, Zenon DEF Drawn
      <4> DEFINE F == {FieldOf(schema, q) : q \in DOMAIN schema}
                 fs == ThePlan.fields
      <4>2. fs \in Seq(F) /\ i \in 1 .. Len(fs)
        BY <4>1
      <4> HIDE DEF F, fs
      <4>3. i \in DOMAIN fs
        BY <4>2
      <4> QED BY <4>3, Zenon DEF fs, FieldsFit
    <3> DEFINE x == fields[i].selected
    <3>3. Selected(fields)[i] = x
      BY <3>2, Zenon DEF Selected
    <3>4. x \in ToSet(schema[p].values)
      <4> DEFINE b == ThePlan.fields[i].path
                 u == ThePlan.fields[i].values
      <4>1. fields[i] = [path |-> b, values |-> u, selected |-> x]
        BY <3>2, Zenon DEF FieldsFit
      <4>2. \E j \in DOMAIN fields[i].values : x = fields[i].values[j]
        BY <3>2, Zenon DEF FieldsFit
      <4>3. u = schema[p].values
        <5>1. FieldOf(schema, p).values = schema[p].values
          BY DEF FieldOf
        <5> QED BY <3>1, <5>1, Zenon
      <4> HIDE DEF b, u, x
      <4>4. fields[i].values = u
        BY <4>1
      <4> QED BY <4>2, <4>3, <4>4, Zenon DEF ToSet
    <3> HIDE DEF x
    <3>5. r[p].kind = "choice" /\ r[p].index = i
      BY <3>1
    <3>6. ~Inner(r[p]) /\ r[p].kind # "constant"
      BY <3>5 DEF Inner
    <3>7. m[p] = [kind |-> "scalar", value |-> x]
      BY <2>2, <3>3, <3>5, <3>6, Zenon
    <3>8. m[p].kind = "scalar" /\ m[p].value = x
      BY <3>7
    <3> QED BY <2>5, <3>4, <3>8, Zenon
  <2> QED BY <2>3, <2>4, <2>5
<1> QED BY <1>2, <1>3, Zenon DEF Conforms

\* For every schema and all limits, the object that leaves the server is an
\* instance of the schema and holds each field's selection at its path
\* (schema_compiler.py:58-65, 89-114, 312-315).
THEOREM TheObjectFitsTheSchema == SchemaSpec => []ObjectFitsSchema
<1>1. PlansInv => ObjectFitsSchema
  <2> SUFFICES ASSUME PlansInv, stage = "sent", ~garbled
               PROVE  /\ Conforms(result, schema)
                      /\ \A i \in DOMAIN fields : result[fields[i].path].value = fields[i].selected
    BY Zenon DEF ObjectFitsSchema
  <2>1. /\ schema \in Schemas /\ limits \in Limits /\ Lawful(schema, limits) /\ FieldsFit
        /\ result = materialize(ThePlan.root, Selected(fields))
    BY DEF PlansInv, ResultFits
  <2>2. Conforms(result, schema)
    BY <2>1, SelectionsFit, Zenon
  <2>3. ASSUME NEW i \in DOMAIN fields PROVE result[fields[i].path].value = fields[i].selected
    <3> DEFINE b == ThePlan.fields[i].path
               u == ThePlan.fields[i].values
               s == fields[i].selected
    <3>1. fields[i] = [path |-> b, values |-> u, selected |-> s] /\ i \in DOMAIN ThePlan.fields
      BY <2>1, Zenon DEF FieldsFit
    <3>2. result[b].value = Selected(fields)[i]
      BY <2>1, <3>1, HoldsSelection, Zenon
    <3>3. Selected(fields)[i] = s
      BY Zenon DEF Selected
    <3> HIDE DEF b, u, s
    <3>4. fields[i].path = b
      BY <3>1
    <3> QED BY <3>2, <3>3, <3>4, Zenon DEF s
  <2> QED BY <2>2, <2>3
<1> QED BY <1>1, PlansInvariance, PTL
=============================================================================
