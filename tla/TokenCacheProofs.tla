--------------------------- MODULE TokenCacheProofs ---------------------------
(***************************************************************************)
(* The token cache for every number of threads, every tokenizer, template  *)
(* and document, and every limit.                                          *)
(*                                                                         *)
(* The first half is about the data: how a text is cut into tokens, why a  *)
(* text may be tokenized in two parts and when, what the registry of codes *)
(* holds, and that the size of a list of entries is the sum of its parts.  *)
(* The second half has the invariants: a thread that tokenizes is alone    *)
(* under the lock, so the key it found missing is still missing when it    *)
(* enters its document; and what an entry, a thread and a job hold are the *)
(* tokens of their own text.                                               *)
(***************************************************************************)
EXTENDS TokenCache, ProofBasics

-----------------------------------------------------------------------------
(* Texts. *)

\* What is made of texts by taking parts and by joining them is a text.
LEMMA TextOf == ASSUME NEW T, NEW s \in Seq(T) PROVE IsText(s) /\ Len(s) \in Nat
<1>1. s \in [1 .. Len(s) -> Range(s)] /\ Len(s) \in Nat
  BY DEF Range
<1> QED BY <1>1 DEF IsText

\* A part of a text is a text, as long as the places it takes.
LEMMA TextSub ==
  ASSUME NEW s, IsText(s), NEW i \in Nat, NEW j \in Int, 1 <= i, j <= Len(s)
  PROVE  IsText(SubSeq(s, i, j)) /\ (i <= j + 1 => Len(SubSeq(s, i, j)) = j - i + 1)
<1>1. s \in Seq(Range(s))
  BY DEF IsText
<1>2. SubSeq(s, i, j) \in Seq(Range(s)) /\ (i <= j + 1 => Len(SubSeq(s, i, j)) = j - i + 1)
  BY <1>1
<1> QED BY <1>2, TextOf

\* Two texts make a text.
LEMMA TextJoin ==
  ASSUME NEW r, NEW s, IsText(r), IsText(s)
  PROVE  IsText(r \o s) /\ Len(r \o s) = Len(r) + Len(s)
<1> DEFINE T == Range(r) \union Range(s)
<1>1. r \in Seq(T) /\ s \in Seq(T)
  BY DEF IsText
<1> HIDE DEF T
<1>2. r \o s \in Seq(T) /\ Len(r \o s) = Len(r) + Len(s)
  BY <1>1
<1> QED BY <1>2, TextOf

-----------------------------------------------------------------------------
(* The tokenizer. *)

\* A token takes at least one character and no more than there are.
LEMMA PieceFits ==
  ASSUME NEW tok \in Tokenizers, NEW s, IsText(s), NEW i \in 1 .. Len(s)
  PROVE  PieceEnd(tok, s, i) \in i .. Len(s)
<1>1. Len(s) \in Nat
  BY DEF IsText
<1>2. CASE s[i] \in Special
  BY <1>1, <1>2 DEF PieceEnd
<1>3. CASE s[i] \notin Special
  <2> DEFINE Fits(p) == i + Len(p) - 1 <= Len(s) /\ \A k \in DOMAIN p : s[i + k - 1] = p[k]
             Ends == {i} \union {i + Len(p) - 1 : p \in {p \in tok.pieces : Fits(p)}}
  <2>1. \A p \in tok.pieces : Len(p) \in Nat
    BY CacheAssumption DEF IsText
  <2>2. Ends \in SUBSET (0 .. Len(s)) /\ i \in Ends
    BY <1>1, <2>1
  <2>3. PieceEnd(tok, s, i) = Max(Ends)
    BY <1>3 DEF PieceEnd
  <2> HIDE DEF Ends
  <2>4. Max(Ends) \in 0 .. Len(s) /\ i <= Max(Ends)
    BY <1>1, <2>2, MaxNat
  <2> QED BY <1>1, <2>3, <2>4
<1> QED BY <1>2, <1>3

\* A function on the first n positions is a sequence.
LEMMA TextFcn ==
  ASSUME NEW n \in Nat, NEW f, f = [i \in 1 .. n |-> f[i]]
  PROVE  IsText(f) /\ Len(f) = n
<1>1. f \in [1 .. n -> Range(f)]
  BY DEF Range
<1>2. f \in Seq(Range(f)) /\ Len(f) = n
  BY <1>1
<1> QED BY <1>2 DEF IsText

\* Joining texts, and taking parts of one, character by character.
Joined(c, a, b) ==
  /\ IsText(c) /\ Len(a) \in Nat /\ Len(b) \in Nat
  /\ Len(c) = Len(a) + Len(b) /\ DOMAIN c = 1 .. Len(a) + Len(b)
  /\ \A i \in 1 .. Len(a) : c[i] = a[i]
  /\ \A i \in 1 .. Len(b) : c[Len(a) + i] = b[i]

Part(c, s, i, j) ==
  /\ IsText(c) /\ Len(c) = j - i + 1 /\ DOMAIN c = 1 .. j - i + 1
  /\ \A k \in 1 .. j - i + 1 : c[k] = s[i + k - 1]

Headed(c, x, b) ==
  /\ IsText(c) /\ Len(b) \in Nat /\ Len(c) = Len(b) + 1 /\ DOMAIN c = 1 .. Len(b) + 1
  /\ c[1] = x
  /\ \A i \in 1 .. Len(b) : c[i + 1] = b[i]

\* A text is a sequence of its symbols, one for each of its places.
LEMMA TextIs ==
  ASSUME NEW a, IsText(a)
  PROVE  Len(a) \in Nat /\ DOMAIN a = 1 .. Len(a) /\ a \in Seq(Range(a))
BY DEF IsText

\* What stands at each place of two texts joined.
LEMMA JoinAt ==
  ASSUME NEW a, NEW b, IsText(a), IsText(b)
  PROVE  Joined(a \o b, a, b)
<1>1. Len(a) \in Nat /\ DOMAIN a = 1 .. Len(a) /\ Len(b) \in Nat /\ DOMAIN b = 1 .. Len(b)
  BY DEF IsText
<1>2. IsText(a \o b) /\ Len(a \o b) = Len(a) + Len(b)
  BY TextJoin
<1>3. DOMAIN (a \o b) = 1 .. Len(a) + Len(b)
  <2> DEFINE c == a \o b
  <2> HIDE DEF c
  <2>1. DOMAIN c = 1 .. Len(c)
    BY <1>2 DEF IsText, c
  <2> QED BY <1>2, <2>1 DEF c
<1>4. /\ \A i \in 1 .. Len(a) : (a \o b)[i] = a[i]
      /\ \A i \in 1 .. Len(b) : (a \o b)[Len(a) + i] = b[i]
  <2> DEFINE T == Range(a) \union Range(b)
  <2>1. a \in Seq(T) /\ b \in Seq(T)
    BY DEF IsText
  <2> HIDE DEF T
  <2> QED BY <1>1, <2>1
<1> QED BY <1>1, <1>2, <1>3, <1>4, Zenon DEF Joined

\* Texts of one length that agree everywhere are the same.
LEMMA TextEq ==
  ASSUME NEW r, NEW s, IsText(r), IsText(s), Len(r) = Len(s),
         \A i \in 1 .. Len(r) : r[i] = s[i]
  PROVE  r = s
<1>1. r \in Seq(Range(r)) /\ s \in Seq(Range(s))
  BY DEF IsText
<1> QED BY <1>1

\* What stands at each place of a part.
LEMMA PartAt ==
  ASSUME NEW s, IsText(s), NEW i \in 1 .. Len(s) + 1, NEW j \in i - 1 .. Len(s)
  PROVE  Part(SubSeq(s, i, j), s, i, j)
<1>1. Len(s) \in Nat /\ s \in Seq(Range(s))
  BY DEF IsText
<1>2. IsText(SubSeq(s, i, j)) /\ Len(SubSeq(s, i, j)) = j - i + 1
  <2>1. i \in Nat /\ j \in Int /\ 1 <= i /\ j <= Len(s) /\ i <= j + 1
    BY <1>1
  <2> QED BY <2>1, TextSub
<1>3. DOMAIN SubSeq(s, i, j) = 1 .. j - i + 1
  <2> DEFINE c == SubSeq(s, i, j)
  <2> HIDE DEF c
  <2>1. DOMAIN c = 1 .. Len(c)
    BY <1>2 DEF IsText, c
  <2> QED BY <1>2, <2>1 DEF c
<1>4. ASSUME NEW k \in 1 .. j - i + 1 PROVE SubSeq(s, i, j)[k] = s[i + k - 1]
  BY <1>1
<1> QED BY <1>2, <1>3, <1>4, Zenon DEF Part

\* Joining texts is associative,
LEMMA JoinAssoc ==
  ASSUME NEW a, NEW b, NEW c, IsText(a), IsText(b), IsText(c)
  PROVE  (a \o b) \o c = a \o (b \o c)
<1> DEFINE T == Range(a) \union Range(b) \union Range(c)
<1>1. a \in Seq(T) /\ b \in Seq(T) /\ c \in Seq(T)
  BY DEF IsText
<1> HIDE DEF T
<1> QED BY <1>1, ConcatAssociative, SMTT(40)

\* and a text in front is cancelled.
LEMMA JoinCancel ==
  ASSUME NEW a, NEW b, NEW c, IsText(a), IsText(b), IsText(c), a \o b = a \o c
  PROVE  b = c
<1> DEFINE d == a \o b
<1> HIDE DEF d
<1>1. Joined(d, a, b)
  BY JoinAt, Zenon DEF d
<1>2. Joined(d, a, c)
  <2>1. d = a \o c
    BY Zenon DEF d
  <2>2. Joined(a \o c, a, c)
    BY JoinAt, Zenon
  <2> QED BY <2>1, <2>2, Zenon
<1>3. Len(b) = Len(c)
  BY <1>1, <1>2 DEF Joined
<1>4. ASSUME NEW i \in 1 .. Len(b) PROVE b[i] = c[i]
  BY <1>1, <1>2, <1>3 DEF Joined
<1> QED BY <1>3, <1>4, TextEq

\* One symbol is a text, and so is none.
LEMMA TextOne == ASSUME NEW x PROVE IsText(<<x>>) /\ Len(<<x>>) = 1 /\ <<x>>[1] = x
<1>1. <<x>> \in Seq({x})
  OBVIOUS
<1> QED BY <1>1, TextOf

LEMMA TextNone == IsText(<<>>) /\ Len(<<>>) = 0
<1>1. <<>> \in Seq({})
  OBVIOUS
<1> QED BY <1>1, TextOf

\* What stands behind a first symbol.
LEMMA AfterOne ==
  ASSUME NEW x, NEW b, IsText(b)
  PROVE  Headed(<<x>> \o b, x, b)
<1> DEFINE a == <<x>>
           c == a \o b
<1>1. IsText(a) /\ Len(a) = 1 /\ a[1] = x
  BY TextOne
<1> HIDE DEF a
<1>2. Joined(c, a, b)
  BY <1>1, JoinAt
<1> HIDE DEF c
<1>3. Headed(c, x, b)
  BY <1>1, <1>2 DEF Joined, Headed
<1> QED BY <1>3, Zenon DEF c, a

\* Nothing in front or behind changes nothing.
LEMMA JoinNone == ASSUME NEW a, IsText(a) PROVE <<>> \o a = a /\ a \o <<>> = a
<1>1. a \in Seq(Range(a))
  BY DEF IsText
<1> QED BY <1>1

\* What follows for each number from all the larger ones is true of all.
LEMMA DownTo ==
  ASSUME NEW n \in Nat, NEW S,
         \A i \in 1 .. n + 1 : (\A j \in i + 1 .. n + 1 : j \in S) => i \in S
  PROVE  \A i \in 1 .. n + 1 : i \in S
<1> DEFINE Done == {k \in 0 .. n : \A j \in n + 1 - k .. n + 1 : j \in S}
<1>1. 0 \in Done
  <2>1. /\ n + 1 \in 1 .. n + 1 /\ \A j \in (n + 1) + 1 .. n + 1 : j \in S
        /\ \A j \in n + 1 - 0 .. n + 1 : j = n + 1
    OBVIOUS
  <2>2. n + 1 \in S /\ 0 \in 0 .. n
    BY <2>1
  <2> QED BY <2>1, <2>2
<1>2. ASSUME NEW k \in 0 .. n - 1, k \in Done PROVE k + 1 \in Done
  <2> DEFINE i == n + 1 - (k + 1)
  <2>1. i \in 1 .. n + 1 /\ i + 1 = n + 1 - k /\ k + 1 \in 0 .. n
    OBVIOUS
  <2>2. i \in S
    BY <1>2, <2>1
  <2>3. \A j \in i .. n + 1 : j = i \/ j \in n + 1 - k .. n + 1
    BY <2>1
  <2> QED BY <1>2, <2>1, <2>2, <2>3
<1>3. \A k \in 0 .. n : k \in Done
  <2> HIDE DEF Done
  <2> QED BY <1>1, <1>2, StepByStep
<1> SUFFICES ASSUME NEW i \in 1 .. n + 1 PROVE i \in S
  OBVIOUS
<1>4. n + 1 - i \in 0 .. n /\ i \in n + 1 - (n + 1 - i) .. n + 1
  OBVIOUS
<1> QED BY <1>3, <1>4

-----------------------------------------------------------------------------
(* The tokens of a text from a position on. *)

Token(tok, s, i) == IF s[i] \in Special THEN <<s[i]>> ELSE SubSeq(s, i, PieceEnd(tok, s, i))
Tokens(tok, s, i, f) == IF i > Len(s) THEN <<>> ELSE <<Token(tok, s, i)>> \o f[PieceEnd(tok, s, i) + 1]
From(tok, s) == CHOOSE f : f = [i \in 1 .. Len(s) + 1 |-> Tokens(tok, s, i, f)]

\* Encode reads the recursion at the first place.
LEMMA EncodeIs == ASSUME NEW tok, NEW text PROVE Encode(tok, text) = From(tok, Normal(tok, text))[1]
BY Zenon DEF Encode, From, Tokens, Token

\* The recursion over the places of a text has a solution, for every text.
LEMMA FromIs ==
  ASSUME NEW tok \in Tokenizers, NEW s, IsText(s)
  PROVE  From(tok, s) = [i \in 1 .. Len(s) + 1 |-> Tokens(tok, s, i, From(tok, s))]
<1> DEFINE n == Len(s)
           next(i) == PieceEnd(tok, s, i) + 1
           Rest(f, k) == [i \in k .. n + 1 |-> Tokens(tok, s, i, f)]
           Found == {k \in 0 .. n : \E f : f = Rest(f, n + 1 - k)}
<1>1. n \in Nat
  BY TextIs
<1>2. \A i \in 1 .. n : next(i) \in i + 1 .. n + 1
  <2> SUFFICES ASSUME NEW i \in 1 .. n PROVE next(i) \in i + 1 .. n + 1
    OBVIOUS
  <2>1. PieceEnd(tok, s, i) \in i .. n
    BY PieceFits
  <2> QED BY <1>1, <2>1
<1> HIDE DEF n
<1>3. 0 \in Found
  <2> DEFINE g == [i \in {n + 1} |-> <<>>]
  <2>1. /\ n + 1 - 0 .. n + 1 = {n + 1} /\ \A i \in {n + 1} : i > n
        /\ 0 \in 0 .. n
    BY <1>1
  <2>2. g = Rest(g, n + 1 - 0)
    BY <2>1, Zenon DEF Tokens, n
  <2> HIDE DEF g
  <2> QED BY <2>1, <2>2
<1>4. ASSUME NEW m \in 0 .. n - 1, m \in Found PROVE m + 1 \in Found
  <2> DEFINE k == n + 1 - (m + 1)
  <2>1. k \in 1 .. n /\ k + 1 = n + 1 - m /\ m + 1 \in 0 .. n
    BY <1>1
  <2>2. PICK f : f = Rest(f, k + 1)
    BY <1>4, <2>1, Zenon
  <2> HIDE DEF k
  <2> DEFINE g == [i \in k .. n + 1 |-> IF i = k THEN Tokens(tok, s, i, f) ELSE f[i]]
  <2>3. ASSUME NEW i \in k + 1 .. n + 1 PROVE g[i] = f[i]
    <3>1. i \in k .. n + 1 /\ i # k
      BY <1>1, <2>1
    <3> QED BY <3>1, Zenon
  <2>4. ASSUME NEW i \in k .. n + 1 PROVE Tokens(tok, s, i, g) = Tokens(tok, s, i, f)
    <3>1. CASE i > n
      BY <3>1, Zenon DEF Tokens, n
    <3>2. CASE ~(i > n)
      <4>1. i \in 1 .. n
        BY <1>1, <2>1, <3>2
      <4>2. next(i) \in i + 1 .. n + 1
        BY <1>2, <4>1
      <4>3. next(i) \in k + 1 .. n + 1
        <5> HIDE DEF next
        <5> QED BY <1>1, <2>1, <4>1, <4>2
      <4>4. g[next(i)] = f[next(i)]
        <5> HIDE DEF g, next
        <5> QED BY <2>3, <4>3
      <4> HIDE DEF g
      <4> QED BY <4>4, Zenon DEF Tokens, n
    <3> QED BY <3>1, <3>2, Zenon
  <2>5. ASSUME NEW i \in k .. n + 1 PROVE g[i] = Tokens(tok, s, i, g)
    <3>1. CASE i = k
      <4>1. g[i] = Tokens(tok, s, i, f)
        BY <3>1, Zenon
      <4> HIDE DEF g
      <4> QED BY <2>4, <4>1, Zenon
    <3>2. CASE i # k
      <4>1. i \in k + 1 .. n + 1
        BY <1>1, <2>1, <3>2
      <4>2. f[i] = Tokens(tok, s, i, f)
        BY <2>2, <4>1, Zenon
      <4> HIDE DEF g
      <4> QED BY <2>3, <2>4, <4>1, <4>2, Zenon
    <3> QED BY <3>1, <3>2, Zenon
  <2>6. g = Rest(g, k)
    <3>1. g = [i \in k .. n + 1 |-> g[i]]
      BY Zenon
    <3> HIDE DEF g
    <3> QED BY <2>5, <3>1, Zenon
  <2> HIDE DEF g
  <2> QED BY <2>1, <2>6, Zenon DEF k
<1>5. n \in Found
  <2> HIDE DEF Found
  <2>1. n \in 0 .. n
    BY <1>1
  <2> QED BY <1>1, <1>3, <1>4, <2>1, StepByStep
<1>6. \E f : f = Rest(f, 1)
  <2>1. n + 1 - n = 1
    BY <1>1
  <2> QED BY <1>5, <2>1, Zenon
<1> QED BY <1>6, Zenon DEF From, n

\* What can be said of the tokens from a position on.
LEMMA FromAt ==
  ASSUME NEW tok \in Tokenizers, NEW s, IsText(s)
  PROVE  /\ From(tok, s)[Len(s) + 1] = <<>>
         /\ \A i \in 1 .. Len(s) :
               /\ From(tok, s)[i] = <<Token(tok, s, i)>> \o From(tok, s)[PieceEnd(tok, s, i) + 1]
               /\ PieceEnd(tok, s, i) \in i .. Len(s)
               /\ PieceEnd(tok, s, i) + 1 \in i + 1 .. Len(s) + 1
         /\ \A i \in 1 .. Len(s) + 1 : IsText(From(tok, s)[i])
<1> DEFINE n == Len(s)
           F == From(tok, s)
           next(i) == PieceEnd(tok, s, i) + 1
<1>1. n \in Nat
  BY TextIs
<1>2. \A i \in 1 .. n + 1 : F[i] = Tokens(tok, s, i, F)
  BY FromIs, Zenon
<1>3. \A i \in 1 .. n : PieceEnd(tok, s, i) \in i .. n
  BY PieceFits
<1> HIDE DEF F, n
<1>4. \A i \in 1 .. n : next(i) \in i + 1 .. n + 1
  BY <1>1, <1>3
<1>5. F[n + 1] = <<>>
  <2>1. n + 1 \in 1 .. n + 1 /\ n + 1 > n
    BY <1>1
  <2> QED BY <1>2, <2>1, Zenon DEF Tokens, n
<1>6. ASSUME NEW i \in 1 .. n PROVE F[i] = <<Token(tok, s, i)>> \o F[next(i)]
  <2>1. i \in 1 .. n + 1 /\ ~(i > n)
    BY <1>1
  <2> QED BY <1>2, <2>1, Zenon DEF Tokens, n
<1>7. \A i \in 1 .. n + 1 : IsText(F[i])
  <2> DEFINE S == {i \in 1 .. n + 1 : IsText(F[i])}
  <2>1. ASSUME NEW i \in 1 .. n + 1, \A j \in i + 1 .. n + 1 : j \in S PROVE i \in S
    <3>1. CASE i = n + 1
      BY <1>5, <3>1, TextNone
    <3>2. CASE i # n + 1
      <4>1. i \in 1 .. n
        BY <1>1, <3>2
      <4>2. IsText(F[next(i)])
        BY <1>4, <2>1, <4>1
      <4>3. IsText(<<Token(tok, s, i)>> \o F[next(i)])
        BY <4>2, AfterOne DEF Headed
      <4> QED BY <1>6, <4>1, <4>3
    <3> QED BY <3>1, <3>2
  <2>2. \A i \in 1 .. n + 1 : i \in S
    <3> HIDE DEF S
    <3> QED BY <1>1, <2>1, DownTo
  <2> QED BY <2>2
<1> QED BY <1>3, <1>4, <1>5, <1>6, <1>7 DEF F, n

\* Tokens that start at different places are not followed by the same ones.
LEMMA FromDiffers ==
  ASSUME NEW tok \in Tokenizers, NEW s, IsText(s),
         NEW i \in 1 .. Len(s) + 1, NEW j \in 1 .. Len(s) + 1, From(tok, s)[i] = From(tok, s)[j]
  PROVE  i = j
<1> DEFINE n == Len(s)
           F == From(tok, s)
           end(k) == PieceEnd(tok, s, k)
           S == {k \in 1 .. n + 1 : \A h \in 1 .. n + 1 : h < k => F[h] # F[k]}
<1>1. n \in Nat
  BY TextIs
<1>2. /\ F[n + 1] = <<>>
      /\ \A k \in 1 .. n : /\ F[k] = <<Token(tok, s, k)>> \o F[end(k) + 1]
                           /\ end(k) \in k .. n /\ end(k) + 1 \in k + 1 .. n + 1
      /\ \A k \in 1 .. n + 1 : IsText(F[k])
  BY FromAt, Zenon
<1> DEFINE Ahead == \A k \in 1 .. n : end(k) \in k .. n /\ end(k) \in 1 .. n /\ end(k) + 1 \in 1 .. n + 1
<1>a. Ahead
  <2>1. \A k \in 1 .. n : end(k) \in k .. n
    BY <1>2, Zenon
  <2> HIDE DEF end, n
  <2> QED BY <1>1, <2>1
<1>3. \A k \in 1 .. n : Headed(F[k], Token(tok, s, k), F[end(k) + 1])
  <2> SUFFICES ASSUME NEW k \in 1 .. n PROVE Headed(F[k], Token(tok, s, k), F[end(k) + 1])
    OBVIOUS
  <2>1. end(k) + 1 \in 1 .. n + 1
    BY <1>a, Zenon
  <2> HIDE DEF end, n, F
  <2>2. IsText(F[end(k) + 1])
    BY <1>2, <2>1
  <2>3. F[k] = <<Token(tok, s, k)>> \o F[end(k) + 1]
    BY <1>2
  <2> QED BY <2>2, <2>3, AfterOne
<1>4. ASSUME NEW h \in 1 .. n, NEW k \in 1 .. n, h < k, F[h] = F[k]
      PROVE  end(h) < end(k) /\ F[end(h) + 1] = F[end(k) + 1]
  <2>1. Token(tok, s, h) = Token(tok, s, k)
    BY <1>3, <1>4, Zenon DEF Headed
  <2>2. F[end(h) + 1] = F[end(k) + 1]
    <3>1. F[h] = <<Token(tok, s, h)>> \o F[end(h) + 1] /\ F[h] = <<Token(tok, s, h)>> \o F[end(k) + 1]
      BY <1>2, <1>4, <2>1, Zenon
    <3>2. IsText(F[end(h) + 1]) /\ IsText(F[end(k) + 1])
      <4> HIDE DEF end, n, F
      <4>1. end(h) + 1 \in 1 .. n + 1 /\ end(k) + 1 \in 1 .. n + 1
        BY <1>a
      <4> QED BY <1>2, <4>1
    <3>3. IsText(<<Token(tok, s, h)>>)
      BY TextOne
    <3> HIDE DEF end, n, F
    <3>4. <<Token(tok, s, h)>> \o F[end(h) + 1] = <<Token(tok, s, h)>> \o F[end(k) + 1]
      BY <3>1, Zenon
    <3> QED BY <3>2, <3>3, <3>4, JoinCancel, Zenon
  <2>3. end(h) \in h .. n /\ end(k) \in k .. n
    BY <1>2
  <2>4. \A g \in 1 .. n : s[g] \notin Special =>
           Len(Token(tok, s, g)) = end(g) - g + 1 /\ Token(tok, s, g)[1] = s[g]
    <3> SUFFICES ASSUME NEW g \in 1 .. n, s[g] \notin Special
                 PROVE  Len(Token(tok, s, g)) = end(g) - g + 1 /\ Token(tok, s, g)[1] = s[g]
      OBVIOUS
    <3>1. end(g) \in g .. n
      BY <1>2
    <3>2. Token(tok, s, g) = SubSeq(s, g, end(g))
      BY Zenon DEF Token
    <3> HIDE DEF end
    <3>3. Part(SubSeq(s, g, end(g)), s, g, end(g))
      <4>1. g \in 1 .. n + 1 /\ end(g) \in g - 1 .. n
        BY <1>1, <3>1
      <4> QED BY <4>1, PartAt
    <3> DEFINE c == SubSeq(s, g, end(g))
    <3> HIDE DEF c
    <3>4. Len(c) = end(g) - g + 1 /\ \A x \in 1 .. end(g) - g + 1 : c[x] = s[g + x - 1]
      BY <3>3 DEF c, Part
    <3>5. 1 \in 1 .. end(g) - g + 1 /\ g + 1 - 1 = g
      BY <1>1, <3>1
    <3>6. Len(c) = end(g) - g + 1 /\ c[1] = s[g]
      BY <3>4, <3>5
    <3> QED BY <3>2, <3>6, Zenon DEF c
  <2>5. \A g \in 1 .. n : s[g] \in Special => Token(tok, s, g)[1] = s[g] /\ end(g) <= g + 1
    BY <1>1 DEF Token, PieceEnd
  <2>6. s[h] = s[k]
    BY <2>1, <2>4, <2>5
  <2>7. CASE s[h] \notin Special
    <3>1. end(h) - h + 1 = end(k) - k + 1
      BY <2>1, <2>4, <2>6, <2>7
    <3> DEFINE eh == end(h)
               ek == end(k)
    <3>2. eh \in h .. n /\ ek \in k .. n /\ eh - h + 1 = ek - k + 1
      BY <2>3, <3>1, Zenon
    <3> HIDE DEF eh, ek
    <3>3. eh < ek
      BY <1>1, <1>4, <3>2
    <3> QED BY <2>2, <3>3 DEF eh, ek
  <2>8. CASE s[h] \in Special
    <3>1. end(h) = h \/ (end(h) = h + 1 /\ s[h + 1] \in tok.swallows)
      BY <2>8 DEF PieceEnd
    <3>2. end(h) = h + 1 => k # h + 1
      <4>1. tok.swallows \cap Special = {}
        BY TextAssumption
      <4>2. s[k] \in Special
        BY <2>6, <2>8
      <4> HIDE DEF end
      <4>3. end(h) = h + 1 => s[h + 1] \notin Special
        BY <1>1, <3>1, <4>1
      <4> QED BY <4>2, <4>3
    <3> DEFINE eh == end(h)
               ek == end(k)
    <3>3. eh = h \/ (eh = h + 1 /\ k # h + 1)
      BY <3>1, <3>2
    <3>4. ek \in k .. n
      BY <2>3
    <3> HIDE DEF eh, ek
    <3>5. eh < ek
      BY <1>1, <1>4, <3>3, <3>4
    <3> QED BY <2>2, <3>5 DEF eh, ek
  <2> QED BY <2>7, <2>8
<1>5. \A k \in 1 .. n + 1 : k \in S
  <2>1. ASSUME NEW k \in 1 .. n + 1, \A g \in k + 1 .. n + 1 : g \in S,
               NEW h \in 1 .. n + 1, h < k, F[h] = F[k]
        PROVE  FALSE
    <3>1. h \in 1 .. n
      BY <1>1, <2>1
    <3>2. CASE k = n + 1
      <4>1. Len(F[h]) >= 1
        <5> HIDE DEF F, n, end
        <5> QED BY <1>3, <3>1 DEF Headed
      <4>2. F[h] = <<>>
        BY <1>2, <2>1, <3>2, Zenon
      <4> HIDE DEF F
      <4> QED BY <4>1, <4>2, TextNone
    <3>3. CASE k # n + 1
      <4>1. k \in 1 .. n
        BY <1>1, <3>3
      <4>2. end(h) < end(k) /\ F[end(h) + 1] = F[end(k) + 1]
        BY <1>4, <2>1, <3>1, <4>1
      <4> HIDE DEF end, F, n
      <4>3. /\ end(h) + 1 \in 1 .. n + 1 /\ end(k) + 1 \in k + 1 .. n + 1
            /\ end(h) + 1 < end(k) + 1
        <5> DEFINE eh == end(h)
                   ek == end(k)
        <5>1. eh \in 1 .. n /\ ek \in k .. n /\ eh < ek
          BY <1>a, <3>1, <4>1, <4>2, Zenon
        <5> HIDE DEF eh, ek
        <5>2. eh + 1 \in 1 .. n + 1 /\ ek + 1 \in k + 1 .. n + 1 /\ eh + 1 < ek + 1
          BY <1>1, <4>1, <5>1
        <5> QED BY <5>2 DEF eh, ek
      <4> QED BY <2>1, <4>2, <4>3
    <3> QED BY <3>2, <3>3
  <2>2. ASSUME NEW k \in 1 .. n + 1, \A g \in k + 1 .. n + 1 : g \in S PROVE k \in S
    <3>1. \A h \in 1 .. n + 1 : h < k => F[h] # F[k]
      <4> HIDE DEF S, F, n
      <4> QED BY <2>1, <2>2
    <3> HIDE DEF F, n
    <3> QED BY <3>1
  <2> HIDE DEF S, F
  <2> QED BY <1>1, <2>2, DownTo
<1> HIDE DEF F
<1>6. ~(i < j) /\ ~(j < i)
  BY <1>5 DEF F
<1> QED BY <1>1, <1>6

-----------------------------------------------------------------------------
(* The piece at a position, in a text and in a longer one. *)

FitsAt(s, i, p) == i + Len(p) - 1 <= Len(s) /\ \A k \in DOMAIN p : s[i + k - 1] = p[k]
EndsAt(tok, s, i) == {i} \union {i + Len(p) - 1 : p \in {p \in tok.pieces : FitsAt(s, i, p)}}

\* A token of characters is the longest piece that fits, or one character.
LEMMA PieceIsLongest ==
  ASSUME NEW tok \in Tokenizers, NEW s, IsText(s), NEW i \in 1 .. Len(s), s[i] \notin Special
  PROVE  /\ PieceEnd(tok, s, i) \in EndsAt(tok, s, i)
         /\ \A e \in EndsAt(tok, s, i) : e <= PieceEnd(tok, s, i)
<1> DEFINE E == EndsAt(tok, s, i)
<1>1. Len(s) \in Nat
  BY DEF IsText
<1>2. \A p \in tok.pieces : Len(p) \in Nat
  BY CacheAssumption DEF IsText
<1>3. E \in SUBSET (0 .. Len(s)) /\ E # {}
  BY <1>1, <1>2 DEF EndsAt, FitsAt
<1>4. PieceEnd(tok, s, i) = Max(E)
  BY DEF PieceEnd, EndsAt, FitsAt
<1> HIDE DEF E
<1>5. Max(E) \in E /\ \A e \in E : e <= Max(E)
  BY <1>1, <1>3, MaxNat
<1> QED BY <1>4, <1>5 DEF E

\* Where the same pieces fit, the piece is equally long.
LEMMA PieceShift ==
  ASSUME NEW tok \in Tokenizers, NEW r, IsText(r), NEW s, IsText(s),
         NEW i \in 1 .. Len(r), NEW j \in 1 .. Len(s), r[i] \notin Special, s[j] \notin Special,
         \A p \in tok.pieces : FitsAt(r, i, p) <=> FitsAt(s, j, p)
  PROVE  PieceEnd(tok, s, j) = PieceEnd(tok, r, i) + (j - i)
<1> DEFINE x == PieceEnd(tok, r, i)
           y == PieceEnd(tok, s, j)
<1>1. Len(r) \in Nat /\ Len(s) \in Nat /\ i \in Nat /\ j \in Nat
  BY TextIs
<1>2. /\ x \in EndsAt(tok, r, i) /\ \A e \in EndsAt(tok, r, i) : e <= x
      /\ y \in EndsAt(tok, s, j) /\ \A e \in EndsAt(tok, s, j) : e <= y
  BY PieceIsLongest
<1>3. x \in Int /\ y \in Int
  BY <1>1, PieceFits
<1> HIDE DEF x, y
<1>4. \A p \in tok.pieces : Len(p) \in Nat
  BY CacheAssumption DEF IsText
<1>5. x + (j - i) \in EndsAt(tok, s, j)
  <2>1. CASE x = i
    <3>1. x + (j - i) = j
      BY <1>1, <2>1
    <3> QED BY <3>1 DEF EndsAt
  <2>2. CASE x # i
    <3>1. PICK p \in tok.pieces : FitsAt(r, i, p) /\ x = i + Len(p) - 1
      BY <1>2, <2>2 DEF EndsAt
    <3>2. FitsAt(s, j, p) /\ x + (j - i) = j + Len(p) - 1
      BY <1>1, <1>4, <3>1
    <3> QED BY <3>2 DEF EndsAt
  <2> QED BY <2>1, <2>2
<1>6. y - (j - i) \in EndsAt(tok, r, i)
  <2>1. CASE y = j
    <3>1. y - (j - i) = i
      BY <1>1, <2>1
    <3> QED BY <3>1 DEF EndsAt
  <2>2. CASE y # j
    <3>1. PICK p \in tok.pieces : FitsAt(s, j, p) /\ y = j + Len(p) - 1
      BY <1>2, <2>2 DEF EndsAt
    <3>2. FitsAt(r, i, p) /\ y - (j - i) = i + Len(p) - 1
      BY <1>1, <1>4, <3>1
    <3> QED BY <3>2 DEF EndsAt
  <2> QED BY <2>1, <2>2
<1>7. x + (j - i) <= y /\ y - (j - i) <= x
  BY <1>2, <1>5, <1>6
<1>8. y = x + (j - i)
  BY <1>1, <1>3, <1>7
<1> QED BY <1>8 DEF x, y

\* A text that ends in a special token.
Closed(a) == IsText(a) /\ Len(a) >= 1 /\ a[Len(a)] \in Special

\* In a text behind another one, the pieces are the same.
LEMMA PieceBehind ==
  ASSUME NEW tok \in Tokenizers, NEW a, IsText(a), NEW b, IsText(b), NEW i \in 1 .. Len(b)
  PROVE  PieceEnd(tok, a \o b, Len(a) + i) = Len(a) + PieceEnd(tok, b, i)
<1> DEFINE c == a \o b
           m == Len(a)
           n == Len(b)
<1>1. Joined(c, a, b)
  BY JoinAt
<1> HIDE DEF c, m, n
<1>2. /\ m \in Nat /\ n \in Nat /\ IsText(c) /\ Len(c) = m + n
      /\ \A k \in 1 .. n : c[m + k] = b[k]
  BY <1>1 DEF Joined, m, n
<1>3. i \in 1 .. n /\ m + i \in 1 .. m + n /\ c[m + i] = b[i]
  BY <1>2 DEF n
<1>4. CASE b[i] \in Special
  <2>1. /\ m + i < m + n <=> i < n
        /\ i < n => c[m + i + 1] = b[i + 1]
    <3>1. m + i + 1 = m + (i + 1) /\ (i < n => i + 1 \in 1 .. n)
      BY <1>2, <1>3
    <3> QED BY <1>2, <1>3, <3>1
  <2>2. PieceEnd(tok, c, m + i) = IF i < n /\ b[i + 1] \in tok.swallows THEN m + i + 1 ELSE m + i
    BY <1>2, <1>3, <1>4, <2>1 DEF PieceEnd
  <2>3. PieceEnd(tok, b, i) = IF i < n /\ b[i + 1] \in tok.swallows THEN i + 1 ELSE i
    BY <1>4 DEF PieceEnd, n
  <2>4. m + i + 1 = m + (i + 1)
    BY <1>2, <1>3
  <2> QED BY <2>2, <2>3, <2>4 DEF c, m
<1>5. CASE b[i] \notin Special
  <2>1. ASSUME NEW p \in tok.pieces PROVE FitsAt(b, i, p) <=> FitsAt(c, m + i, p)
    <3>1. Len(p) \in Nat /\ DOMAIN p = 1 .. Len(p)
      BY CacheAssumption DEF IsText
    <3>2. m + i + Len(p) - 1 <= m + n <=> i + Len(p) - 1 <= n
      BY <1>2, <1>3, <3>1
    <3>3. ASSUME i + Len(p) - 1 <= n, NEW k \in 1 .. Len(p) PROVE c[m + i + k - 1] = b[i + k - 1]
      <4>1. i + k - 1 \in 1 .. n /\ m + i + k - 1 = m + (i + k - 1)
        BY <1>2, <1>3, <3>1, <3>3
      <4> QED BY <1>2, <4>1
    <3> QED BY <1>2, <3>1, <3>2, <3>3 DEF FitsAt, n
  <2>2. PieceEnd(tok, c, m + i) = PieceEnd(tok, b, i) + ((m + i) - i)
    <3>1. i \in 1 .. Len(b) /\ m + i \in 1 .. Len(c) /\ c[m + i] \notin Special
      BY <1>2, <1>3, <1>5 DEF n
    <3> QED BY <1>2, <1>5, <2>1, <3>1, PieceShift, ZenonT(60)
  <2>3. PieceEnd(tok, b, i) \in i .. n
    BY <1>3, PieceFits DEF n
  <2> DEFINE x == PieceEnd(tok, b, i)
             y == PieceEnd(tok, c, m + i)
  <2>4. y = x + ((m + i) - i) /\ x \in i .. n
    BY <2>2, <2>3
  <2> HIDE DEF x, y
  <2>5. y = m + x
    BY <1>2, <1>3, <2>4
  <2> QED BY <2>5 DEF c, m, x, y
<1> QED BY <1>4, <1>5

\* In a text that ends in a special token they are what they are without what
\* follows, and end before it: no piece has a special token in it.
LEMMA PieceBefore ==
  ASSUME NEW tok \in Tokenizers, NEW a, Closed(a), NEW b, IsText(b), NEW i \in 1 .. Len(a) - 1
  PROVE  /\ PieceEnd(tok, a \o b, i) = PieceEnd(tok, a, i)
         /\ PieceEnd(tok, a, i) \in i .. Len(a) - 1
<1> DEFINE c == a \o b
           m == Len(a)
           n == Len(b)
<1>1. Joined(c, a, b)
  BY JoinAt DEF Closed
<1> HIDE DEF c, m, n
<1>2. /\ m \in Nat /\ n \in Nat /\ IsText(c) /\ Len(c) = m + n /\ IsText(a)
      /\ \A k \in 1 .. m : c[k] = a[k]
  BY <1>1 DEF Joined, m, n, Closed
<1>3. /\ i \in 1 .. m /\ i \in 1 .. m + n /\ c[i] = a[i] /\ i < m /\ i < m + n
      /\ i + 1 \in 1 .. m /\ c[i + 1] = a[i + 1] /\ i \in 1 .. m - 1
  <2>1. i \in 1 .. m - 1
    BY DEF m
  <2>2. i \in 1 .. m /\ i \in 1 .. m + n /\ i < m /\ i < m + n /\ i + 1 \in 1 .. m
    BY <1>2, <2>1
  <2> QED BY <1>2, <2>1, <2>2
<1>4. a[m] \in Special
  BY DEF Closed, m
<1>5. CASE a[i] \in Special
  <2>1. PieceEnd(tok, c, i) = IF a[i + 1] \in tok.swallows THEN i + 1 ELSE i
    BY <1>2, <1>3, <1>5 DEF PieceEnd
  <2>2. PieceEnd(tok, a, i) = IF a[i + 1] \in tok.swallows THEN i + 1 ELSE i
    BY <1>3, <1>5 DEF PieceEnd, m
  <2>3. a[i + 1] \in tok.swallows => i + 1 # m
    <3>1. tok.swallows \cap Special = {}
      BY TextAssumption
    <3> QED BY <1>4, <3>1
  <2>4. PieceEnd(tok, a, i) \in i .. m - 1
    BY <1>2, <1>3, <2>2, <2>3
  <2> QED BY <2>1, <2>2, <2>4 DEF c, m
<1>6. CASE a[i] \notin Special
  <2>1. ASSUME NEW p \in tok.pieces, FitsAt(a, i, p) \/ FitsAt(c, i, p) PROVE i + Len(p) - 1 < m
    <3>1. Len(p) \in Nat /\ DOMAIN p = 1 .. Len(p)
      BY CacheAssumption DEF IsText
    <3> SUFFICES ASSUME m <= i + Len(p) - 1 PROVE FALSE
      BY <1>2, <1>3, <3>1
    <3>2. m - i + 1 \in 1 .. Len(p) /\ i + (m - i + 1) - 1 = m /\ m \in 1 .. m
      BY <1>2, <1>3, <3>1
    <3>3. a[m] = p[m - i + 1] \/ c[m] = p[m - i + 1]
      BY <2>1, <3>1, <3>2 DEF FitsAt
    <3>4. p[m - i + 1] \notin Special
      BY <3>1, <3>2, TextAssumption
    <3> QED BY <1>2, <1>4, <3>2, <3>3, <3>4
  <2>2. ASSUME NEW p \in tok.pieces PROVE FitsAt(a, i, p) <=> FitsAt(c, i, p)
    <3>1. Len(p) \in Nat /\ DOMAIN p = 1 .. Len(p)
      BY CacheAssumption DEF IsText
    <3>2. ASSUME i + Len(p) - 1 < m, NEW k \in 1 .. Len(p) PROVE c[i + k - 1] = a[i + k - 1]
      <4>1. i + k - 1 \in 1 .. m
        BY <1>2, <1>3, <3>1, <3>2, SMTT(40)
      <4> QED BY <1>2, <4>1
    <3>3. i + Len(p) - 1 < m => i + Len(p) - 1 <= m /\ i + Len(p) - 1 <= m + n
      BY <1>2, <1>3, <3>1
    <3> QED BY <1>2, <2>1, <3>1, <3>2, <3>3 DEF FitsAt, m
  <2>3. PieceEnd(tok, c, i) = PieceEnd(tok, a, i) + (i - i)
    BY <1>2, <1>3, <1>6, <2>2, PieceShift DEF m
  <2>4. PieceEnd(tok, a, i) \in i .. m
    BY <1>2, <1>3, PieceFits DEF m
  <2>5. PieceEnd(tok, a, i) # m
    <3>1. PieceEnd(tok, a, i) \in EndsAt(tok, a, i)
      BY <1>2, <1>3, <1>6, PieceIsLongest DEF m
    <3>2. \A e \in EndsAt(tok, a, i) : e # m
      <4> SUFFICES ASSUME NEW e \in EndsAt(tok, a, i) PROVE e # m
        OBVIOUS
      <4>1. CASE e = i
        BY <1>2, <1>3, <4>1
      <4>2. CASE e # i
        <5>1. PICK p \in tok.pieces : FitsAt(a, i, p) /\ e = i + Len(p) - 1
          BY <4>2 DEF EndsAt
        <5>2. Len(p) \in Nat
          BY CacheAssumption DEF IsText
        <5> QED BY <1>2, <1>3, <2>1, <5>1, <5>2
      <4> QED BY <4>1, <4>2
    <3> QED BY <3>1, <3>2
  <2>6. PieceEnd(tok, c, i) = PieceEnd(tok, a, i) /\ PieceEnd(tok, a, i) \in i .. m - 1
    BY <1>2, <1>3, <2>3, <2>4, <2>5
  <2> QED BY <2>6 DEF c, m
<1> QED BY <1>5, <1>6

-----------------------------------------------------------------------------
(* What follows a special token is tokenized apart, unless the special token *)
(* swallows its first character.                                            *)

\* A text that ends in a closed text is closed.
LEMMA ClosedJoin ==
  ASSUME NEW a, IsText(a), NEW b, Closed(b)
  PROVE  Closed(a \o b)
<1> DEFINE c == a \o b
<1>1. Joined(c, a, b)
  BY JoinAt DEF Closed
<1> HIDE DEF c
<1>2. Len(a) \in Nat /\ Len(b) \in Nat /\ Len(b) >= 1 /\ Len(c) = Len(a) + Len(b)
  BY <1>1 DEF Joined, Closed
<1>3. Len(b) \in 1 .. Len(b) /\ Len(c) >= 1
  BY <1>2
<1>4. c[Len(c)] = b[Len(b)]
  BY <1>1, <1>2, <1>3 DEF Joined
<1> QED BY <1>1, <1>3, <1>4 DEF Closed, Joined, c

\* The tokens behind a text are those of what is behind it.
LEMMA FromBehind ==
  ASSUME NEW tok \in Tokenizers, NEW a, IsText(a), NEW b, IsText(b), NEW i \in 1 .. Len(b) + 1
  PROVE  From(tok, a \o b)[Len(a) + i] = From(tok, b)[i]
<1> DEFINE c == a \o b
           m == Len(a)
           n == Len(b)
           F == From(tok, c)
           G == From(tok, b)
           S == {k \in 1 .. n + 1 : F[m + k] = G[k]}
<1>1. Joined(c, a, b)
  BY JoinAt
<1>2. \A k \in 1 .. n : PieceEnd(tok, c, m + k) = m + PieceEnd(tok, b, k)
  <2> SUFFICES ASSUME NEW k \in 1 .. n PROVE PieceEnd(tok, c, m + k) = m + PieceEnd(tok, b, k)
    OBVIOUS
  <2> QED BY PieceBehind
<1> HIDE DEF c, m, n
<1>3. /\ m \in Nat /\ n \in Nat /\ IsText(c) /\ Len(c) = m + n
      /\ \A k \in 1 .. n : c[m + k] = b[k]
  BY <1>1 DEF Joined, m, n
<1>4. /\ F[(m + n) + 1] = <<>>
      /\ \A k \in 1 .. m + n : F[k] = <<Token(tok, c, k)>> \o F[PieceEnd(tok, c, k) + 1]
  BY <1>3, FromAt
<1>5. /\ G[n + 1] = <<>>
      /\ \A k \in 1 .. n : /\ G[k] = <<Token(tok, b, k)>> \o G[PieceEnd(tok, b, k) + 1]
                           /\ PieceEnd(tok, b, k) \in k .. n
                           /\ PieceEnd(tok, b, k) + 1 \in k + 1 .. n + 1
  BY FromAt DEF n
<1> HIDE DEF F, G
<1>6. ASSUME NEW k \in 1 .. n PROVE Token(tok, c, m + k) = Token(tok, b, k)
  <2>1. c[m + k] = b[k]
    BY <1>3
  <2>2. CASE b[k] \in Special
    BY <2>1, <2>2 DEF Token
  <2>3. CASE b[k] \notin Special
    <3> DEFINE x == PieceEnd(tok, b, k)
    <3>1. /\ Token(tok, b, k) = SubSeq(b, k, x)
          /\ Token(tok, c, m + k) = SubSeq(c, m + k, m + x)
      BY <1>2, <2>1, <2>3, Zenon DEF Token
    <3>2. x \in k .. n
      BY <1>5
    <3> HIDE DEF x
    <3> DEFINE u == SubSeq(b, k, x)
               v == SubSeq(c, m + k, m + x)
    <3>3. Part(u, b, k, x)
      <4>1. k \in 1 .. Len(b) + 1 /\ x \in k - 1 .. Len(b)
        BY <1>3, <3>2 DEF n
      <4> QED BY <4>1, PartAt
    <3>4. Part(v, c, m + k, m + x)
      <4>1. m + k \in 1 .. Len(c) + 1 /\ m + x \in (m + k) - 1 .. Len(c)
        BY <1>3, <3>2
      <4> QED BY <1>3, <4>1, PartAt
    <3> HIDE DEF u, v
    <3>5. Len(u) = x - k + 1 /\ Len(v) = (m + x) - (m + k) + 1 /\ IsText(u) /\ IsText(v)
      BY <3>3, <3>4 DEF Part
    <3>6. ASSUME NEW z \in 1 .. x - k + 1 PROVE u[z] = v[z]
      <4>1. z \in 1 .. (m + x) - (m + k) + 1 /\ (m + k) + z - 1 = m + (k + z - 1) /\ k + z - 1 \in 1 .. n
        BY <1>3, <3>2
      <4>2. u[z] = b[k + z - 1] /\ v[z] = c[m + (k + z - 1)]
        BY <3>3, <3>4, <4>1 DEF Part
      <4> QED BY <1>3, <4>1, <4>2
    <3>7. Len(u) = Len(v)
      BY <1>3, <3>2, <3>5
    <3>8. u = v
      BY <3>5, <3>6, <3>7, TextEq
    <3> QED BY <3>1, <3>8 DEF u, v
  <2> QED BY <2>2, <2>3
<1>7. ASSUME NEW k \in 1 .. n + 1, \A j \in k + 1 .. n + 1 : j \in S PROVE k \in S
  <2>1. CASE k = n + 1
    <3>1. m + k = (m + n) + 1
      BY <1>3, <2>1
    <3> QED BY <1>4, <1>5, <2>1, <3>1
  <2>2. CASE k # n + 1
    <3> DEFINE x == PieceEnd(tok, b, k)
    <3>1. k \in 1 .. n /\ m + k \in 1 .. m + n
      BY <1>3, <2>2
    <3>2. /\ G[k] = <<Token(tok, b, k)>> \o G[x + 1]
          /\ F[m + k] = <<Token(tok, b, k)>> \o F[(m + x) + 1]
          /\ x + 1 \in k + 1 .. n + 1 /\ x \in k .. n
      BY <1>2, <1>4, <1>5, <1>6, <3>1
    <3> HIDE DEF x
    <3>3. F[m + (x + 1)] = G[x + 1] /\ (m + x) + 1 = m + (x + 1)
      <4>1. x + 1 \in S
        BY <1>7, <3>2
      <4> QED BY <1>3, <3>1, <3>2, <4>1
    <3> QED BY <3>2, <3>3
  <2> QED BY <2>1, <2>2
<1>8. \A k \in 1 .. n + 1 : k \in S
  <2> HIDE DEF S
  <2> QED BY <1>3, <1>7, DownTo
<1> QED BY <1>8 DEF F, G, c, m, n

\* Where the tokens of a text go on, if a special token is before it.
After(tok, b) == IF Len(b) >= 1 /\ b[1] \in tok.swallows THEN 2 ELSE 1

\* The tokens of a text that ends in a special token, and then the rest.
LEMMA FromBefore ==
  ASSUME NEW tok \in Tokenizers, NEW a, Closed(a), NEW b, IsText(b), NEW i \in 1 .. Len(a)
  PROVE  From(tok, a \o b)[i] = From(tok, a)[i] \o From(tok, b)[After(tok, b)]
<1> DEFINE c == a \o b
           m == Len(a)
           n == Len(b)
           F == From(tok, c)
           G == From(tok, a)
           h == After(tok, b)
           R == From(tok, b)[h]
           S == {k \in 1 .. m + 1 : k = m + 1 \/ F[k] = G[k] \o R}
<1>a. IsText(a) /\ m \in Nat /\ n \in Nat /\ m >= 1 /\ a[m] \in Special
  BY TextIs DEF Closed
<1>1. Joined(c, a, b)
  BY <1>a, JoinAt
<1>2. \A k \in 1 .. m - 1 : /\ PieceEnd(tok, c, k) = PieceEnd(tok, a, k)
                            /\ PieceEnd(tok, a, k) \in k .. m - 1
  BY PieceBefore, Zenon
<1>3. h \in 1 .. n + 1
  BY <1>a DEF After
<1>4. F[m + h] = R
  BY <1>a, <1>3, FromBehind
<1>5. IsText(R)
  BY <1>3, FromAt
<1> HIDE DEF c, m, n, h, R
<1>6. /\ IsText(c) /\ Len(c) = m + n
      /\ \A k \in 1 .. m : c[k] = a[k]
      /\ \A k \in 1 .. n : c[m + k] = b[k]
  BY <1>1 DEF Joined, m, n
<1>7. \A k \in 1 .. m + n : F[k] = <<Token(tok, c, k)>> \o F[PieceEnd(tok, c, k) + 1]
  BY <1>6, FromAt
<1>8. /\ G[m + 1] = <<>>
      /\ \A k \in 1 .. m : /\ G[k] = <<Token(tok, a, k)>> \o G[PieceEnd(tok, a, k) + 1]
                           /\ IsText(G[PieceEnd(tok, a, k) + 1])
  <2>1. /\ G[m + 1] = <<>> /\ \A k \in 1 .. m + 1 : IsText(G[k])
        /\ \A k \in 1 .. m : /\ G[k] = <<Token(tok, a, k)>> \o G[PieceEnd(tok, a, k) + 1]
                             /\ PieceEnd(tok, a, k) + 1 \in k + 1 .. m + 1
    BY <1>a, FromAt DEF m
  <2>2. \A k \in 1 .. m : k + 1 .. m + 1 \subseteq 1 .. m + 1
    BY <1>a
  <2> HIDE DEF G
  <2> QED BY <2>1, <2>2
<1> HIDE DEF F, G
<1>9. PieceEnd(tok, a, m) = m /\ PieceEnd(tok, c, m) + 1 = m + h
  <2>1. PieceEnd(tok, a, m) = m
    BY <1>a DEF PieceEnd, m
  <2>2. m \in 1 .. m /\ c[m] = a[m]
    BY <1>a, <1>6
  <2>3. PieceEnd(tok, c, m) = IF m < m + n /\ c[m + 1] \in tok.swallows THEN m + 1 ELSE m
    BY <1>a, <1>6, <2>2 DEF PieceEnd
  <2>4. (m < m + n <=> n >= 1) /\ (n >= 1 => c[m + 1] = b[1])
    BY <1>a, <1>6
  <2>5. h = IF n >= 1 /\ b[1] \in tok.swallows THEN 2 ELSE 1
    BY DEF h, After, n
  <2>6. CASE n >= 1 /\ b[1] \in tok.swallows
    BY <1>a, <2>1, <2>3, <2>4, <2>5, <2>6
  <2>7. CASE ~(n >= 1 /\ b[1] \in tok.swallows)
    BY <1>a, <2>1, <2>3, <2>4, <2>5, <2>7
  <2> QED BY <2>6, <2>7
<1>10. ASSUME NEW k \in 1 .. m PROVE Token(tok, c, k) = Token(tok, a, k)
  <2>1. c[k] = a[k]
    BY <1>6
  <2>2. CASE a[k] \in Special
    BY <2>1, <2>2 DEF Token
  <2>3. CASE a[k] \notin Special
    <3> DEFINE x == PieceEnd(tok, a, k)
    <3>1. k \in 1 .. m - 1
      <4>1. k # m
        BY <1>a, <2>3
      <4> QED BY <1>a, <4>1
    <3>2. /\ Token(tok, a, k) = SubSeq(a, k, x)
          /\ Token(tok, c, k) = SubSeq(c, k, x)
      BY <1>2, <2>1, <2>3, <3>1, Zenon DEF Token
    <3>3. x \in k .. m - 1
      BY <1>2, <3>1
    <3> HIDE DEF x
    <3> DEFINE u == SubSeq(a, k, x)
               v == SubSeq(c, k, x)
    <3>4. Part(u, a, k, x)
      <4>1. k \in 1 .. Len(a) + 1 /\ x \in k - 1 .. Len(a)
        BY <1>a, <3>3 DEF m
      <4> QED BY <1>a, <4>1, PartAt
    <3>5. Part(v, c, k, x)
      <4>1. k \in 1 .. Len(c) + 1 /\ x \in k - 1 .. Len(c)
        BY <1>a, <1>6, <3>3
      <4> QED BY <1>6, <4>1, PartAt
    <3> HIDE DEF u, v
    <3>6. Len(u) = x - k + 1 /\ Len(v) = x - k + 1 /\ IsText(u) /\ IsText(v)
      BY <3>4, <3>5 DEF Part
    <3>7. ASSUME NEW z \in 1 .. x - k + 1 PROVE u[z] = v[z]
      <4>1. k + z - 1 \in 1 .. m
        BY <1>a, <3>3
      <4>2. u[z] = a[k + z - 1] /\ v[z] = c[k + z - 1]
        BY <3>4, <3>5 DEF Part
      <4> QED BY <1>6, <4>1, <4>2
    <3>8. u = v
      BY <3>6, <3>7, TextEq
    <3> QED BY <3>2, <3>8 DEF u, v
  <2> QED BY <2>2, <2>3
<1>11. ASSUME NEW k \in 1 .. m + 1, \A j \in k + 1 .. m + 1 : j \in S PROVE k \in S
  <2> SUFFICES ASSUME k # m + 1 PROVE F[k] = G[k] \o R
    BY DEF S
  <2> DEFINE x == PieceEnd(tok, a, k)
             one == <<Token(tok, a, k)>>
  <2>1. k \in 1 .. m /\ k \in 1 .. m + n
    BY <1>a
  <2>2. F[k] = one \o F[PieceEnd(tok, c, k) + 1] /\ G[k] = one \o G[x + 1] /\ IsText(G[x + 1])
    <3>1. Token(tok, c, k) = Token(tok, a, k)
      BY <1>10, <2>1
    <3> QED BY <1>7, <1>8, <2>1, <3>1, Zenon
  <2>3. IsText(one)
    BY TextOne
  <2> HIDE DEF one
  <2>4. F[PieceEnd(tok, c, k) + 1] = G[x + 1] \o R
    <3>1. CASE k = m
      <4>1. F[PieceEnd(tok, c, k) + 1] = R /\ G[x + 1] = <<>>
        BY <1>4, <1>8, <1>9, <3>1
      <4> QED BY <1>5, <4>1, JoinNone
    <3>2. CASE k # m
      <4>1. k \in 1 .. m - 1
        BY <1>a, <2>1, <3>2
      <4>2. PieceEnd(tok, c, k) = x /\ x \in k .. m - 1
        BY <1>2, <4>1
      <4> HIDE DEF x
      <4>3. x + 1 \in k + 1 .. m + 1 /\ x + 1 # m + 1
        BY <1>a, <2>1, <4>2
      <4>4. x + 1 \in S
        BY <1>11, <4>3
      <4> QED BY <4>2, <4>3, <4>4
    <3> QED BY <3>1, <3>2
  <2> HIDE DEF x
  <2>5. F[k] = one \o (G[x + 1] \o R)
    BY <2>2, <2>4, Zenon
  <2>6. (one \o G[x + 1]) \o R = one \o (G[x + 1] \o R)
    <3> DEFINE g == G[x + 1]
    <3>1. IsText(g)
      BY <2>2
    <3> HIDE DEF g
    <3>2. (one \o g) \o R = one \o (g \o R)
      BY <1>5, <2>3, <3>1, JoinAssoc, SMTT(100)
    <3> QED BY <3>2, Zenon DEF g
  <2> QED BY <2>2, <2>5, <2>6
<1>12. \A k \in 1 .. m + 1 : k \in S
  <2> HIDE DEF S
  <2> QED BY <1>a, <1>11, DownTo
<1>13. i \in 1 .. m /\ i \in 1 .. m + 1 /\ i # m + 1
  BY <1>a DEF m
<1>14. F[i] = G[i] \o R
  BY <1>12, <1>13
<1> QED BY <1>14 DEF F, G, R, c, h

-----------------------------------------------------------------------------
(* Normalization. *)

Fold(tok, x) == IF x \in DOMAIN tok.folds THEN tok.folds[x] ELSE x

\* Folding keeps the length, and what is special.
LEMMA NormalIs ==
  ASSUME NEW tok \in Tokenizers, NEW s, IsText(s)
  PROVE  /\ IsText(Normal(tok, s)) /\ Len(Normal(tok, s)) = Len(s)
         /\ \A i \in 1 .. Len(s) :
               /\ Normal(tok, s)[i] = Fold(tok, s[i])
               /\ Normal(tok, s)[i] \in Special <=> s[i] \in Special
               /\ s[i] \in Special => Normal(tok, s)[i] = s[i]
<1> DEFINE n == Normal(tok, s)
<1>1. DOMAIN s = 1 .. Len(s) /\ Len(s) \in Nat
  BY TextIs
<1>2. n = [i \in 1 .. Len(s) |-> Fold(tok, s[i])]
  BY <1>1, Zenon DEF Normal, Fold
<1> HIDE DEF n
<1>3. \A i \in 1 .. Len(s) : n[i] = Fold(tok, s[i])
  BY <1>2
<1>4. n = [i \in 1 .. Len(s) |-> n[i]]
  BY <1>2, <1>3, Zenon
<1>5. IsText(n) /\ Len(n) = Len(s)
  BY <1>1, <1>4, TextFcn
<1>6. \A x : /\ Fold(tok, x) \in Special <=> x \in Special
             /\ x \in Special => Fold(tok, x) = x
  <2>1. \A x \in DOMAIN tok.folds : x \notin Special /\ tok.folds[x] \notin Special
    BY TextAssumption
  <2> QED BY <2>1 DEF Fold
<1> QED BY <1>3, <1>5, <1>6 DEF n

\* Folding characters keeps a closed text closed,
LEMMA NormalClosed ==
  ASSUME NEW tok \in Tokenizers, NEW a, Closed(a)
  PROVE  Closed(Normal(tok, a))
<1>1. IsText(a) /\ Len(a) \in 1 .. Len(a) /\ Len(a) >= 1
  BY TextIs DEF Closed
<1> QED BY <1>1, NormalIs DEF Closed

\* and takes no notice of a join.
LEMMA NormalJoin ==
  ASSUME NEW tok \in Tokenizers, NEW a, IsText(a), NEW b, IsText(b)
  PROVE  Normal(tok, a \o b) = Normal(tok, a) \o Normal(tok, b)
<1> DEFINE c == a \o b
           x == Normal(tok, a)
           y == Normal(tok, b)
           z == Normal(tok, c)
           w == x \o y
<1>1. Joined(c, a, b)
  BY JoinAt
<1>2. /\ IsText(x) /\ Len(x) = Len(a) /\ \A i \in 1 .. Len(a) : x[i] = Fold(tok, a[i])
      /\ IsText(y) /\ Len(y) = Len(b) /\ \A i \in 1 .. Len(b) : y[i] = Fold(tok, b[i])
  BY NormalIs
<1>3. IsText(z) /\ Len(z) = Len(c) /\ \A i \in 1 .. Len(c) : z[i] = Fold(tok, c[i])
  <2>1. IsText(c)
    BY <1>1 DEF Joined
  <2> HIDE DEF c
  <2> QED BY <2>1, NormalIs
<1>4. Joined(w, x, y)
  BY <1>2, JoinAt
<1> HIDE DEF c, x, y, z, w
<1>5. Len(a) \in Nat /\ Len(b) \in Nat /\ Len(z) = Len(a) + Len(b) /\ Len(w) = Len(a) + Len(b) /\ IsText(w)
  BY <1>1, <1>2, <1>3, <1>4 DEF Joined
<1>6. ASSUME NEW i \in 1 .. Len(z) PROVE z[i] = w[i]
  <2>1. CASE i <= Len(a)
    <3>1. i \in 1 .. Len(a) /\ i \in 1 .. Len(c)
      BY <1>1, <1>3, <1>5, <2>1
    <3>2. c[i] = a[i] /\ w[i] = x[i]
      BY <1>1, <1>2, <1>4, <3>1 DEF Joined
    <3> QED BY <1>2, <1>3, <3>1, <3>2
  <2>2. CASE ~(i <= Len(a))
    <3> DEFINE j == i - Len(a)
    <3>1. j \in 1 .. Len(b) /\ i = Len(a) + j /\ i \in 1 .. Len(c)
      BY <1>3, <1>5, <2>2
    <3> HIDE DEF j
    <3>2. c[i] = b[j] /\ w[i] = y[j]
      BY <1>1, <1>2, <1>4, <3>1 DEF Joined
    <3> QED BY <1>2, <1>3, <3>1, <3>2
  <2> QED BY <2>1, <2>2
<1>7. z = w
  BY <1>3, <1>5, <1>6, TextEq
<1> QED BY <1>7 DEF z, w, c, x, y

-----------------------------------------------------------------------------
(* Tokenizing a text in two parts, the first of which is closed. *)

Behind(tok, b) == From(tok, Normal(tok, b))[After(tok, Normal(tok, b))]

\* Behind a closed text, the rest is tokenized from a place that depends on the
\* rest alone.
LEMMA EncodeSplit ==
  ASSUME NEW tok \in Tokenizers, NEW a, Closed(a), NEW b, IsText(b)
  PROVE  Encode(tok, a \o b) = Encode(tok, a) \o Behind(tok, b)
<1> DEFINE x == Normal(tok, a)
           y == Normal(tok, b)
<1>1. IsText(a)
  BY DEF Closed
<1>2. Closed(x) /\ IsText(y)
  BY NormalClosed, NormalIs
<1>3. Normal(tok, a \o b) = x \o y
  BY <1>1, NormalJoin
<1>4. 1 \in 1 .. Len(x)
  BY <1>2, TextIs DEF Closed
<1> HIDE DEF x, y
<1>5. From(tok, x \o y)[1] = From(tok, x)[1] \o From(tok, y)[After(tok, y)]
  BY <1>2, <1>4, FromBefore, ZenonT(60)
<1>6. Encode(tok, a \o b) = From(tok, x \o y)[1] /\ Encode(tok, a) = From(tok, x)[1]
  BY <1>3, EncodeIs, Zenon DEF x
<1> QED BY <1>5, <1>6, Zenon DEF Behind, y

\* The tokens of the rest, which are its own just if nothing of it is swallowed.
LEMMA BehindIs ==
  ASSUME NEW tok \in Tokenizers, NEW b, IsText(b)
  PROVE  /\ IsText(Encode(tok, b)) /\ IsText(Behind(tok, b))
         /\ Behind(tok, b) = Encode(tok, b) <=> After(tok, Normal(tok, b)) = 1
<1> DEFINE y == Normal(tok, b)
           h == After(tok, y)
<1>1. IsText(y)
  BY NormalIs
<1>2. Encode(tok, b) = From(tok, y)[1] /\ Behind(tok, b) = From(tok, y)[h]
  BY EncodeIs, Zenon DEF Behind
<1> HIDE DEF y
<1>3. h \in 1 .. Len(y) + 1 /\ 1 \in 1 .. Len(y) + 1
  BY <1>1, TextIs DEF After
<1> HIDE DEF h
<1>4. IsText(From(tok, y)[1]) /\ IsText(From(tok, y)[h])
  BY <1>1, <1>3, FromAt
<1>5. From(tok, y)[h] = From(tok, y)[1] <=> h = 1
  BY <1>1, <1>3, FromDiffers
<1> QED BY <1>2, <1>4, <1>5 DEF h, y

\* Where a tokenizer keeps a character behind a special token apart, once.
LEMMA SameFirst ==
  ASSUME NEW tok \in Tokenizers, NEW b, IsText(b), Len(b) >= 1,
         NEW d, IsText(d), Len(d) >= 1, d[1] = b[1]
  PROVE  After(tok, Normal(tok, d)) = After(tok, Normal(tok, b))
<1>1. 1 \in 1 .. Len(b) /\ 1 \in 1 .. Len(d)
  BY TextIs
<1>2. /\ Len(Normal(tok, b)) >= 1 /\ Normal(tok, b)[1] = Fold(tok, b[1])
      /\ Len(Normal(tok, d)) >= 1 /\ Normal(tok, d)[1] = Fold(tok, d[1])
  BY <1>1, NormalIs
<1> QED BY <1>2 DEF After

\* it does so always.
Apart(tok, a, b) == Encode(tok, a \o b) = Encode(tok, a) \o Encode(tok, b)

LEMMA ApartOnce ==
  ASSUME NEW tok \in Tokenizers, NEW a, Closed(a), NEW b, IsText(b), Len(b) >= 1,
         Apart(tok, a, b), NEW d, IsText(d), Len(d) >= 1, d[1] = b[1]
  PROVE  /\ Behind(tok, d) = Encode(tok, d)
         /\ \A e : Closed(e) => Apart(tok, e, d)
<1>1. IsText(a)
  BY DEF Closed
<1>2. Encode(tok, a \o b) = Encode(tok, a) \o Behind(tok, b)
  BY EncodeSplit
<1>3. IsText(Encode(tok, a)) /\ IsText(Encode(tok, b)) /\ IsText(Behind(tok, b))
  BY <1>1, BehindIs
<1>4. Behind(tok, b) = Encode(tok, b)
  <2> DEFINE x == Encode(tok, a)
             y == Encode(tok, b)
             z == Behind(tok, b)
  <2>1. IsText(x) /\ IsText(y) /\ IsText(z) /\ x \o z = x \o y
    BY <1>2, <1>3, Zenon DEF Apart
  <2> HIDE DEF x, y, z
  <2>2. z = y
    BY <2>1, JoinCancel, Zenon
  <2> QED BY <2>2 DEF y, z
<1>5. After(tok, Normal(tok, d)) = 1
  BY <1>4, BehindIs, SameFirst
<1>6. Behind(tok, d) = Encode(tok, d)
  BY <1>5, BehindIs
<1> QED BY <1>6, EncodeSplit DEF Apart

-----------------------------------------------------------------------------
(* The end of a sequence of tokens. *)

EndsIn(t, s) == /\ Len(s) <= Len(t)
                /\ \A i \in 1 .. Len(s) : s[i] = t[(Len(t) - Len(s)) + i]

\* A suffix ends where the whole ends.
LEMMA SuffixIs ==
  ASSUME NEW s, IsText(s), NEW t, IsText(t), IsSuffix(s, t)
  PROVE  EndsIn(t, s)
<1> DEFINE m == Len(s)
           n == Len(t)
           u == Reverse(s)
           v == Reverse(t)
<1>1. m \in Nat /\ n \in Nat
  BY TextIs
<1>2. /\ IsText(u) /\ Len(u) = m /\ \A i \in 1 .. m : u[i] = s[m - i + 1]
      /\ IsText(v) /\ Len(v) = n /\ \A i \in 1 .. n : v[i] = t[n - i + 1]
  <2>1. /\ u = [i \in 1 .. m |-> s[(m - i) + 1]] /\ v = [i \in 1 .. n |-> t[(n - i) + 1]]
    BY Zenon DEF Reverse
  <2> HIDE DEF u, v, m, n
  <2>2. /\ \A i \in 1 .. m : u[i] = s[(m - i) + 1]
        /\ \A i \in 1 .. n : v[i] = t[(n - i) + 1]
    BY <2>1
  <2>3. u = [i \in 1 .. m |-> u[i]] /\ v = [i \in 1 .. n |-> v[i]]
    BY <2>1, <2>2, Zenon
  <2> QED BY <1>1, <2>2, <2>3, TextFcn
<1>3. Len(u) <= Len(v) /\ SubSeq(u, 1, Len(u)) = SubSeq(v, 1, Len(u))
  BY Zenon DEF IsSuffix, IsPrefix
<1> HIDE DEF m, n, u, v
<1>4. m <= n /\ SubSeq(u, 1, m) = SubSeq(v, 1, m)
  BY <1>2, <1>3
<1>5. \A i \in 1 .. m : u[i] = v[i]
  <2> DEFINE x == SubSeq(u, 1, m)
             y == SubSeq(v, 1, m)
  <2>1. Part(x, u, 1, m) /\ Part(y, v, 1, m)
    <3>1. /\ 1 \in 1 .. Len(u) + 1 /\ m \in 1 - 1 .. Len(u)
          /\ 1 \in 1 .. Len(v) + 1 /\ m \in 1 - 1 .. Len(v)
      BY <1>1, <1>2, <1>4
    <3> QED BY <1>2, <3>1, PartAt
  <2>2. x = y
    BY <1>4
  <2> HIDE DEF x, y
  <2> SUFFICES ASSUME NEW i \in 1 .. m PROVE u[i] = v[i]
    OBVIOUS
  <2>3. i \in 1 .. m - 1 + 1 /\ 1 + i - 1 = i
    BY <1>1
  <2>4. x[i] = u[i] /\ y[i] = v[i]
    BY <2>1, <2>3 DEF Part
  <2> QED BY <2>2, <2>4
<1>6. ASSUME NEW i \in 1 .. m PROVE s[i] = t[(n - m) + i]
  <2>1. m - i + 1 \in 1 .. m /\ m - i + 1 \in 1 .. n /\ m - (m - i + 1) + 1 = i
        /\ n - (m - i + 1) + 1 = (n - m) + i
    BY <1>1, <1>4
  <2> QED BY <1>2, <1>5, <2>1, SMTT(40)
<1> QED BY <1>4, <1>6 DEF EndsIn, m, n

\* The ends of the tokens of a text are the tokens from some place on.
LEMMA EndOfFrom ==
  ASSUME NEW tok \in Tokenizers, NEW s, IsText(s), NEW i \in 1 .. Len(s) + 1,
         NEW e, IsText(e), EndsIn(From(tok, s)[i], e)
  PROVE  \E j \in i .. Len(s) + 1 : e = From(tok, s)[j]
<1> DEFINE n == Len(s)
           F == From(tok, s)
           S == {k \in 1 .. n + 1 : EndsIn(F[k], e) => \E j \in k .. n + 1 : e = F[j]}
<1>1. n \in Nat /\ Len(e) \in Nat
  BY TextIs
<1>2. /\ F[n + 1] = <<>>
      /\ \A k \in 1 .. n : /\ F[k] = <<Token(tok, s, k)>> \o F[PieceEnd(tok, s, k) + 1]
                           /\ PieceEnd(tok, s, k) + 1 \in k + 1 .. n + 1
      /\ \A k \in 1 .. n + 1 : IsText(F[k])
  BY FromAt, Zenon
<1> HIDE DEF n, F
<1>3. ASSUME NEW k \in 1 .. n + 1, \A j \in k + 1 .. n + 1 : j \in S, EndsIn(F[k], e)
      PROVE  \E j \in k .. n + 1 : e = F[j]
  <2>1. IsText(F[k]) /\ Len(F[k]) \in Nat
    BY <1>2, TextIs
  <2>2. CASE Len(e) = Len(F[k])
    <3>1. \A x \in 1 .. Len(e) : e[x] = F[k][x]
      <4> SUFFICES ASSUME NEW x \in 1 .. Len(e) PROVE e[x] = F[k][x]
        OBVIOUS
      <4>1. (Len(F[k]) - Len(e)) + x = x
        BY <1>1, <2>2
      <4> QED BY <1>3, <4>1 DEF EndsIn
    <3>2. e = F[k]
      BY <2>1, <2>2, <3>1, TextEq
    <3>3. k \in k .. n + 1
      BY <1>1
    <3> QED BY <3>2, <3>3
  <2>3. CASE Len(e) # Len(F[k])
    <3>1. k # n + 1
      <4>1. k = n + 1 => Len(F[k]) = 0
        BY <1>2, TextNone
      <4>2. Len(e) <= Len(F[k])
        BY <1>3 DEF EndsIn
      <4> QED BY <1>1, <2>3, <4>1, <4>2
    <3>2. k \in 1 .. n
      BY <1>1, <3>1
    <3> DEFINE h == PieceEnd(tok, s, k) + 1
               one == Token(tok, s, k)
    <3>3. F[k] = <<one>> \o F[h] /\ h \in k + 1 .. n + 1
      BY <1>2, <3>2
    <3> HIDE DEF h, one
    <3>4. h \in 1 .. n + 1 /\ IsText(F[h])
      BY <1>1, <1>2, <3>2, <3>3
    <3>5. Headed(F[k], one, F[h])
      BY <3>3, <3>4, AfterOne
    <3>6. Len(F[h]) \in Nat /\ Len(F[k]) = Len(F[h]) + 1 /\ \A x \in 1 .. Len(F[h]) : F[k][x + 1] = F[h][x]
      BY <3>5 DEF Headed
    <3>7. EndsIn(F[h], e)
      <4>1. Len(e) <= Len(F[k]) /\ \A x \in 1 .. Len(e) : e[x] = F[k][(Len(F[k]) - Len(e)) + x]
        BY <1>3 DEF EndsIn
      <4>2. Len(e) <= Len(F[h])
        BY <1>1, <2>1, <2>3, <3>6, <4>1
      <4>3. ASSUME NEW x \in 1 .. Len(e) PROVE e[x] = F[h][(Len(F[h]) - Len(e)) + x]
        <5> DEFINE y == (Len(F[h]) - Len(e)) + x
        <5>1. y \in 1 .. Len(F[h]) /\ (Len(F[k]) - Len(e)) + x = y + 1
          BY <1>1, <3>6, <4>2
        <5> HIDE DEF y
        <5>2. e[x] = F[h][y]
          BY <3>6, <4>1, <5>1
        <5> QED BY <5>2 DEF y
      <4> QED BY <4>2, <4>3 DEF EndsIn
    <3>8. PICK j \in h .. n + 1 : e = F[j]
      BY <1>3, <3>3, <3>7
    <3>9. j \in k .. n + 1
      BY <1>1, <3>2, <3>3, <3>8
    <3> QED BY <3>8, <3>9
  <2> QED BY <2>2, <2>3
<1>4. \A k \in 1 .. n + 1 : k \in S
  <2>1. ASSUME NEW k \in 1 .. n + 1, \A j \in k + 1 .. n + 1 : j \in S PROVE k \in S
    <3>1. EndsIn(F[k], e) => \E j \in k .. n + 1 : e = F[j]
      <4> HIDE DEF S
      <4> QED BY <1>3, <2>1
    <3> QED BY <3>1
  <2> HIDE DEF S
  <2> QED BY <1>1, <2>1, DownTo
<1> QED BY <1>4 DEF n, F

-----------------------------------------------------------------------------
(* Special tokens, counted. *)

Spots(s) == {i \in DOMAIN s : s[i] \in Special}

\* There is a number of special tokens in a text,
LEMMA SpotsAre ==
  ASSUME NEW s, IsText(s)
  PROVE  /\ Spots(s) = {i \in 1 .. Len(s) : s[i] \in Special} /\ IsFiniteSet(Spots(s))
         /\ Specials(s) = Cardinality(Spots(s)) /\ Specials(s) \in Nat
<1>1. DOMAIN s = 1 .. Len(s) /\ Len(s) \in Nat
  BY TextIs
<1>2. Spots(s) \in SUBSET (1 .. Len(s)) /\ Spots(s) = {i \in 1 .. Len(s) : s[i] \in Special}
  BY <1>1 DEF Spots
<1>3. IsFiniteSet(Spots(s)) /\ Cardinality(Spots(s)) \in Nat
  BY <1>1, <1>2, PositionsFinite
<1> QED BY <1>2, <1>3 DEF Specials, Spots

\* which adds up,
LEMMA SpecialsJoin ==
  ASSUME NEW a, IsText(a), NEW b, IsText(b)
  PROVE  Specials(a \o b) = Specials(a) + Specials(b)
<1> DEFINE c == a \o b
           m == Len(a)
           n == Len(b)
           A == Spots(a)
           B == Spots(b)
           C == Spots(c)
           shift == [i \in B |-> m + i]
           Moved == {shift[i] : i \in B}
<1>1. Joined(c, a, b)
  BY JoinAt
<1> HIDE DEF c
<1>2. /\ m \in Nat /\ n \in Nat /\ IsText(c) /\ Len(c) = m + n
      /\ \A i \in 1 .. m : c[i] = a[i]
      /\ \A i \in 1 .. n : c[m + i] = b[i]
  BY <1>1 DEF Joined
<1>3. /\ A = {i \in 1 .. m : a[i] \in Special} /\ IsFiniteSet(A)
      /\ B = {i \in 1 .. n : b[i] \in Special} /\ IsFiniteSet(B)
      /\ C = {i \in 1 .. Len(c) : c[i] \in Special}
  BY <1>2, SpotsAre
<1> HIDE DEF m, n, A, B, C
<1>4. C = A \union Moved /\ A \cap Moved = {}
  <2>1. \A i \in B : shift[i] = m + i /\ i \in 1 .. n /\ b[i] \in Special
    BY <1>3
  <2>2. Moved = {m + i : i \in B}
    BY <2>1
  <2> HIDE DEF shift, Moved
  <2>3. ASSUME NEW k \in C PROVE k \in A \union Moved
    <3>1. k \in 1 .. m + n /\ c[k] \in Special
      BY <1>2, <1>3
    <3>2. CASE k <= m
      BY <1>2, <1>3, <3>1, <3>2
    <3>3. CASE ~(k <= m)
      <4>1. k - m \in 1 .. n /\ m + (k - m) = k
        BY <1>2, <3>1, <3>3
      <4>2. k - m \in B
        BY <1>2, <1>3, <3>1, <4>1
      <4> QED BY <2>2, <4>1, <4>2
    <3> QED BY <3>2, <3>3
  <2>4. ASSUME NEW k \in A PROVE k \in C /\ k \in 1 .. m
    BY <1>2, <1>3
  <2>5. ASSUME NEW i \in B PROVE m + i \in C /\ m + i \notin 1 .. m
    BY <1>2, <1>3
  <2> QED BY <2>2, <2>3, <2>4, <2>5
<1>5. IsFiniteSet(Moved) /\ Cardinality(Moved) = Cardinality(B)
  <2>1. \A i, j \in B : shift[i] = shift[j] => i = j
    <3> SUFFICES ASSUME NEW i \in B, NEW j \in B, shift[i] = shift[j] PROVE i = j
      OBVIOUS
    <3>1. m + i = m + j /\ i \in Int /\ j \in Int
      BY <1>3
    <3> QED BY <1>2, <3>1
  <2>2. shift \in [B -> Moved] /\ DOMAIN shift = B /\ \A q \in Moved : \E p \in B : shift[p] = q
    OBVIOUS
  <2> HIDE DEF shift, Moved
  <2>3. shift \in Surjection(B, Moved)
    BY <2>2 DEF Surjection
  <2>4. shift \in Injection(B, Moved)
    BY <2>1, <2>2 DEF Injection, IsInjective
  <2> QED BY <1>3, <2>3, <2>4, FS_Surjection
<1> HIDE DEF Moved
<1>6. Cardinality(A \union Moved) = Cardinality(A) + Cardinality(Moved) - Cardinality({})
  <2>1. IsFiniteSet(A) /\ IsFiniteSet(Moved) /\ A \cap Moved = {}
    BY <1>3, <1>4, <1>5
  <2>2. Cardinality(A \union Moved) = Cardinality(A) + Cardinality(Moved) - Cardinality(A \cap Moved)
    BY <2>1, FS_Union, Zenon
  <2> QED BY <2>1, <2>2, Zenon
<1>7. /\ Specials(c) = Cardinality(C) /\ Specials(a) = Cardinality(A) /\ Specials(a) \in Nat
      /\ Specials(b) = Cardinality(B) /\ Specials(b) \in Nat
  BY <1>2, SpotsAre DEF A, B, C
<1>8. Specials(c) = Specials(a) + Specials(b)
  <2>1. Cardinality(C) = Cardinality(A) + Cardinality(B) - 0
    BY <1>4, <1>5, <1>6, FS_EmptySet, Zenon
  <2> QED BY <1>7, <2>1
<1> QED BY <1>8 DEF c

\* Where nothing is special there is none.
LEMMA SpecialsNone ==
  ASSUME NEW s, IsText(s), \A i \in 1 .. Len(s) : s[i] \notin Special
  PROVE  Specials(s) = 0
<1>1. Spots(s) = {}
  BY SpotsAre
<1> QED BY <1>1, SpotsAre, FS_EmptySet

\* and a symbol that is none does not count.
LEMMA SpecialsOne ==
  ASSUME NEW x
  PROVE  Specials(<<x>>) = IF x \in Special THEN 1 ELSE 0
<1>1. IsText(<<x>>) /\ Len(<<x>>) = 1 /\ <<x>>[1] = x
  BY TextOne
<1>2. Spots(<<x>>) = IF x \in Special THEN {1} ELSE {}
  BY <1>1, SpotsAre
<1>3. Specials(<<x>>) = Cardinality(Spots(<<x>>))
  BY <1>1, SpotsAre
<1>4. Cardinality({1}) = 1 /\ Cardinality({}) = 0
  BY FS_Singleton, FS_EmptySet
<1> QED BY <1>2, <1>3, <1>4

\* Two texts that have their special tokens at the same places.
LEMMA SpecialsAlike ==
  ASSUME NEW r, IsText(r), NEW s, IsText(s), Len(r) = Len(s),
         \A i \in 1 .. Len(r) : r[i] \in Special <=> s[i] \in Special
  PROVE  Specials(r) = Specials(s)
<1>1. Spots(r) = Spots(s)
  BY SpotsAre
<1> QED BY <1>1, SpotsAre

\* A text cut in two.
LEMMA CutAt ==
  ASSUME NEW s, IsText(s), NEW i \in 1 .. Len(s) + 1, NEW j \in i .. Len(s) + 1,
         NEW k \in j - 1 .. Len(s)
  PROVE  SubSeq(s, i, k) = SubSeq(s, i, j - 1) \o SubSeq(s, j, k)
<1> DEFINE u == SubSeq(s, i, j - 1)
           v == SubSeq(s, j, k)
           w == SubSeq(s, i, k)
           c == u \o v
<1>1. Len(s) \in Nat
  BY TextIs
<1>2. Part(u, s, i, j - 1) /\ Part(v, s, j, k) /\ Part(w, s, i, k)
  <2>1. /\ j - 1 \in i - 1 .. Len(s) /\ j \in 1 .. Len(s) + 1 /\ k \in i - 1 .. Len(s)
    BY <1>1
  <2> QED BY <2>1, PartAt
<1> HIDE DEF u, v, w
<1>3. Joined(c, u, v)
  BY <1>2, JoinAt DEF Part
<1> HIDE DEF c
<1>4. /\ IsText(c) /\ Len(u) = (j - 1) - i + 1 /\ Len(v) = k - j + 1 /\ Len(c) = Len(u) + Len(v)
      /\ IsText(w) /\ Len(w) = k - i + 1
  BY <1>2, <1>3 DEF Joined, Part
<1>5. Len(c) = Len(w) /\ Len(u) = j - i
  BY <1>1, <1>4
<1>6. ASSUME NEW x \in 1 .. Len(w) PROVE w[x] = c[x]
  <2>1. w[x] = s[i + x - 1]
    BY <1>2, <1>4 DEF Part
  <2>2. CASE x <= j - i
    <3>1. x \in 1 .. (j - 1) - i + 1 /\ x \in 1 .. Len(u)
      BY <1>1, <1>4, <1>5, <2>2
    <3>2. c[x] = u[x] /\ u[x] = s[i + x - 1]
      BY <1>2, <1>3, <3>1 DEF Joined, Part
    <3> QED BY <2>1, <3>2
  <2>3. CASE ~(x <= j - i)
    <3> DEFINE y == x - (j - i)
    <3>1. y \in 1 .. k - j + 1 /\ y \in 1 .. Len(v) /\ Len(u) + y = x /\ j + y - 1 = i + x - 1
      BY <1>1, <1>4, <1>5, <2>3
    <3> HIDE DEF y
    <3>2. c[x] = v[y] /\ v[y] = s[i + x - 1]
      BY <1>2, <1>3, <3>1 DEF Joined, Part
    <3> QED BY <2>1, <3>2
  <2> QED BY <2>2, <2>3
<1>7. w = c
  BY <1>4, <1>5, <1>6, TextEq
<1> QED BY <1>7 DEF c, u, v, w

-----------------------------------------------------------------------------
(* The special tokens among the tokens of a text. *)

\* A token begins with the character it stands at; behind that one it has no
\* special token.
LEMMA TokenHead ==
  ASSUME NEW tok \in Tokenizers, NEW s, IsText(s), NEW i \in 1 .. Len(s)
  PROVE  /\ Token(tok, s, i)[1] = s[i]
         /\ \A k \in i + 1 .. PieceEnd(tok, s, i) : s[k] \notin Special
<1> DEFINE x == PieceEnd(tok, s, i)
<1>1. Len(s) \in Nat /\ x \in i .. Len(s)
  BY PieceFits, TextIs
<1>2. CASE s[i] \in Special
  <2>1. Token(tok, s, i) = <<s[i]>>
    BY <1>2 DEF Token
  <2>2. x = i \/ (x = i + 1 /\ s[i + 1] \in tok.swallows)
    BY <1>2 DEF PieceEnd
  <2>3. tok.swallows \cap Special = {}
    BY TextAssumption
  <2> HIDE DEF x
  <2>4. \A k \in i + 1 .. x : s[k] \notin Special
    <3>1. CASE x = i
      BY <1>1, <3>1
    <3>2. CASE x = i + 1 /\ s[i + 1] \in tok.swallows
      BY <1>1, <2>3, <3>2
    <3> QED BY <2>2, <3>1, <3>2
  <2> QED BY <2>1, <2>4 DEF x
<1>3. CASE s[i] \notin Special
  <2>1. Token(tok, s, i) = SubSeq(s, i, x)
    BY <1>3, Zenon DEF Token
  <2>2. x \in EndsAt(tok, s, i)
    BY <1>3, PieceIsLongest
  <2> HIDE DEF x
  <2>3. Part(SubSeq(s, i, x), s, i, x)
    <3>1. i \in 1 .. Len(s) + 1 /\ x \in i - 1 .. Len(s)
      BY <1>1
    <3> QED BY <3>1, PartAt
  <2>4. 1 \in 1 .. x - i + 1 /\ i + 1 - 1 = i
    BY <1>1
  <2>5. SubSeq(s, i, x)[1] = s[i]
    <3> DEFINE u == SubSeq(s, i, x)
    <3> HIDE DEF u
    <3>1. Part(u, s, i, x)
      BY <2>3 DEF u
    <3>2. u[1] = s[i]
      BY <2>4, <3>1 DEF Part
    <3> QED BY <3>2 DEF u
  <2>6. ASSUME NEW k \in i + 1 .. x PROVE s[k] \notin Special
    <3>1. x # i
      BY <1>1
    <3>2. PICK p \in tok.pieces : FitsAt(s, i, p) /\ x = i + Len(p) - 1
      BY <2>2, <3>1 DEF EndsAt
    <3>3. Len(p) \in Nat /\ DOMAIN p = 1 .. Len(p)
      BY CacheAssumption DEF IsText
    <3>4. k - i + 1 \in 1 .. Len(p) /\ i + (k - i + 1) - 1 = k
      BY <1>1, <3>2, <3>3
    <3>5. s[k] = p[k - i + 1] /\ p[k - i + 1] \notin Special
      BY <3>2, <3>3, <3>4, TextAssumption DEF FitsAt
    <3> QED BY <3>5
  <2> QED BY <2>1, <2>5, <2>6 DEF x
<1> QED BY <1>2, <1>3

\* The last token of a closed text is its last special token.
LEMMA LastToken ==
  ASSUME NEW tok \in Tokenizers, NEW a, Closed(a), NEW i \in 1 .. Len(a)
  PROVE  LET f == From(tok, a)[i] IN IsText(f) /\ Len(f) >= 1 /\ f[Len(f)][1] \in Special
<1> DEFINE m == Len(a)
           F == From(tok, a)
           Good(f) == IsText(f) /\ Len(f) >= 1 /\ f[Len(f)][1] \in Special
           S == {k \in 1 .. m + 1 : k = m + 1 \/ Good(F[k])}
<1>1. IsText(a) /\ m \in Nat /\ m >= 1 /\ a[m] \in Special
  BY TextIs DEF Closed
<1>2. /\ F[m + 1] = <<>>
      /\ \A k \in 1 .. m : F[k] = <<Token(tok, a, k)>> \o F[PieceEnd(tok, a, k) + 1]
  BY <1>1, FromAt
<1>3. \A k \in 1 .. m : Token(tok, a, k)[1] = a[k]
  BY <1>1, TokenHead
<1>4. PieceEnd(tok, a, m) = m
  BY <1>1 DEF PieceEnd
<1>5. \A k \in 1 .. m - 1 : PieceEnd(tok, a, k) \in k .. m - 1
  <2>1. IsText(<<>>)
    BY TextNone
  <2> QED BY <2>1, PieceBefore
<1> HIDE DEF m, F
<1>6. ASSUME NEW k \in 1 .. m + 1, \A j \in k + 1 .. m + 1 : j \in S, k # m + 1
      PROVE  Good(F[k])
  <2> DEFINE one == Token(tok, a, k)
             x == PieceEnd(tok, a, k)
  <2>1. k \in 1 .. m
    BY <1>1, <1>6
  <2>2. F[k] = <<one>> \o F[x + 1] /\ one[1] = a[k]
    BY <1>2, <1>3, <2>1
  <2> HIDE DEF one
  <2>3. CASE k = m
    <3>1. F[k] = <<one>> \o <<>>
      BY <1>2, <1>4, <2>2, <2>3
    <3>2. IsText(<<one>>) /\ Len(<<one>>) = 1 /\ <<one>>[1] = one
      BY TextOne
    <3>3. F[k] = <<one>>
      BY <3>1, <3>2, JoinNone
    <3>4. one[1] \in Special
      BY <1>1, <2>2, <2>3
    <3> DEFINE f == F[k]
    <3>5. IsText(f) /\ Len(f) = 1 /\ f[1] = one
      BY <3>2, <3>3
    <3> HIDE DEF f
    <3>6. Good(f)
      BY <3>4, <3>5
    <3> QED BY <3>6 DEF f
  <2>4. CASE k # m
    <3>1. k \in 1 .. m - 1
      BY <1>1, <2>1, <2>4
    <3>2. x \in k .. m - 1
      BY <1>5, <3>1
    <3> HIDE DEF x
    <3> DEFINE g == F[x + 1]
               f == F[k]
    <3>3. Good(g)
      <4>1. x + 1 \in k + 1 .. m + 1 /\ x + 1 # m + 1
        BY <1>1, <3>1, <3>2
      <4> QED BY <1>6, <4>1
    <3>4. f = <<one>> \o g
      BY <2>2
    <3> HIDE DEF g, f
    <3>5. Headed(f, one, g)
      BY <3>3, <3>4, AfterOne
    <3>6. Len(g) \in Nat /\ Len(f) = Len(g) + 1 /\ IsText(f) /\ \A z \in 1 .. Len(g) : f[z + 1] = g[z]
      BY <3>5 DEF Headed
    <3>7. Len(g) \in 1 .. Len(g)
      BY <3>3, <3>6
    <3>8. f[Len(f)] = g[Len(g)]
      BY <3>6, <3>7
    <3>9. Good(f)
      BY <3>3, <3>6, <3>8
    <3> QED BY <3>9 DEF f
  <2> QED BY <2>3, <2>4
<1>7. \A k \in 1 .. m + 1 : k \in S
  <2>1. ASSUME NEW k \in 1 .. m + 1, \A j \in k + 1 .. m + 1 : j \in S PROVE k \in S
    <3>1. k = m + 1 \/ Good(F[k])
      <4> HIDE DEF S, Good
      <4> QED BY <1>6, <2>1
    <3> QED BY <3>1
  <2> HIDE DEF S
  <2> QED BY <1>1, <2>1, DownTo
<1>8. i \in 1 .. m + 1 /\ i # m + 1
  BY <1>1 DEF m
<1>9. Good(F[i])
  <2> HIDE DEF Good
  <2> QED BY <1>7, <1>8
<1> QED BY <1>9 DEF F

\* The first characters of some tokens.
Heads(f) == [i \in DOMAIN f |-> f[i][1]]

\* The first character of a token in front.
LEMMA HeadsOf ==
  ASSUME NEW x, NEW g, IsText(g)
  PROVE  IsText(Heads(g)) /\ Heads(<<x>> \o g) = <<x[1]>> \o Heads(g)
<1> DEFINE f == <<x>> \o g
           u == Heads(f)
           h == Heads(g)
           v == <<x[1]>> \o h
<1>1. DOMAIN g = 1 .. Len(g) /\ Len(g) \in Nat
  BY TextIs
<1>2. Headed(f, x, g)
  BY AfterOne
<1> HIDE DEF f
<1>3. DOMAIN f = 1 .. Len(g) + 1 /\ f[1] = x /\ \A i \in 1 .. Len(g) : f[i + 1] = g[i]
  BY <1>2 DEF Headed
<1>4. u = [i \in 1 .. Len(g) + 1 |-> f[i][1]] /\ h = [i \in 1 .. Len(g) |-> g[i][1]]
  BY <1>1, <1>3, Zenon DEF Heads
<1> HIDE DEF u, h
<1>5. (\A i \in 1 .. Len(g) + 1 : u[i] = f[i][1]) /\ \A i \in 1 .. Len(g) : h[i] = g[i][1]
  BY <1>4
<1>6. u = [i \in 1 .. Len(g) + 1 |-> u[i]] /\ h = [i \in 1 .. Len(g) |-> h[i]]
  BY <1>4, <1>5, Zenon
<1>7. IsText(u) /\ Len(u) = Len(g) + 1 /\ IsText(h) /\ Len(h) = Len(g)
  <2>1. Len(g) + 1 \in Nat
    BY <1>1
  <2> QED BY <1>1, <1>6, <2>1, TextFcn
<1>8. Headed(v, x[1], h)
  BY <1>7, AfterOne
<1> HIDE DEF v
<1>9. IsText(v) /\ Len(v) = Len(g) + 1 /\ v[1] = x[1] /\ \A i \in 1 .. Len(g) : v[i + 1] = h[i]
  BY <1>7, <1>8 DEF Headed
<1>10. ASSUME NEW i \in 1 .. Len(g) + 1 PROVE u[i] = v[i]
  <2>1. CASE i = 1
    BY <1>1, <1>3, <1>5, <1>9, <2>1
  <2>2. CASE i # 1
    <3> DEFINE k == i - 1
    <3>1. k \in 1 .. Len(g) /\ i = k + 1
      BY <1>1, <2>2
    <3> HIDE DEF k
    <3> QED BY <1>3, <1>5, <1>9, <3>1
  <2> QED BY <2>1, <2>2
<1>11. u = v
  BY <1>7, <1>9, <1>10, TextEq
<1> QED BY <1>7, <1>11 DEF u, v, f, h

\* A text has as many special tokens as there are among its tokens.
LEMMA SpecialTokens ==
  ASSUME NEW tok \in Tokenizers, NEW s, IsText(s)
  PROVE  Specials(Heads(From(tok, s)[1])) = Specials(s)
<1> DEFINE n == Len(s)
           F == From(tok, s)
           rest(i) == SubSeq(s, i, n)
           S == {i \in 1 .. n + 1 : Specials(Heads(F[i])) = Specials(rest(i))}
<1>1. n \in Nat
  BY TextIs
<1>2. /\ F[n + 1] = <<>>
      /\ \A k \in 1 .. n : /\ F[k] = <<Token(tok, s, k)>> \o F[PieceEnd(tok, s, k) + 1]
                           /\ PieceEnd(tok, s, k) \in k .. n
      /\ \A k \in 1 .. n + 1 : IsText(F[k])
  BY FromAt, Zenon
<1>3. \A k \in 1 .. n : /\ Token(tok, s, k)[1] = s[k]
                        /\ \A j \in k + 1 .. PieceEnd(tok, s, k) : s[j] \notin Special
  BY TokenHead
<1>4. ASSUME NEW i \in 1 .. n + 1, NEW j \in i - 1 .. n PROVE Part(SubSeq(s, i, j), s, i, j)
  BY <1>4, PartAt
<1>5. ASSUME NEW i \in 1 .. n + 1, NEW j \in i .. n + 1, NEW k \in j - 1 .. n
      PROVE  SubSeq(s, i, k) = SubSeq(s, i, j - 1) \o SubSeq(s, j, k)
  BY <1>5, CutAt
<1> HIDE DEF n, F
<1>6. ASSUME NEW i \in 1 .. n + 1, \A j \in i + 1 .. n + 1 : j \in S
      PROVE  Specials(Heads(F[i])) = Specials(rest(i))
  <2>1. CASE i = n + 1
    <3>1. IsText(rest(i)) /\ Len(rest(i)) = 0
      <4>1. n \in i - 1 .. n /\ n - i + 1 = 0
        BY <1>1, <2>1
      <4> QED BY <1>4, <4>1 DEF Part
    <3>2. Specials(rest(i)) = 0
      <4> DEFINE u == rest(i)
      <4> HIDE DEF u
      <4>1. IsText(u) /\ \A k \in 1 .. Len(u) : u[k] \notin Special
        BY <3>1 DEF u
      <4>2. Specials(u) = 0
        BY <4>1, SpecialsNone
      <4> QED BY <4>2 DEF u
    <3>3. Heads(F[i]) = <<>>
      <4>1. F[i] = <<>> /\ DOMAIN <<>> = {}
        BY <1>2, <2>1
      <4>2. Heads(<<>>) = [k \in {} |-> <<>>[k][1]]
        BY <4>1, Zenon DEF Heads
      <4> QED BY <4>1, <4>2
    <3>4. Specials(<<>>) = 0
      <4>1. IsText(<<>>) /\ \A k \in 1 .. Len(<<>>) : <<>>[k] \notin Special
        BY TextNone
      <4> QED BY <4>1, SpecialsNone, Zenon
    <3> QED BY <3>2, <3>3, <3>4, Zenon
  <2>2. CASE i # n + 1
    <3> DEFINE x == PieceEnd(tok, s, i)
               one == Token(tok, s, i)
    <3>1. i \in 1 .. n
      BY <1>1, <2>2
    <3>2. /\ F[i] = <<one>> \o F[x + 1] /\ x \in i .. n
          /\ one[1] = s[i] /\ \A j \in i + 1 .. x : s[j] \notin Special
      BY <1>2, <1>3, <3>1
    <3> HIDE DEF x, one
    <3>3. x + 1 \in i + 1 .. n + 1 /\ x + 1 \in 1 .. n + 1
      BY <1>1, <3>1, <3>2
    <3>4. IsText(F[x + 1])
      BY <1>2, <3>3
    <3>5. Specials(Heads(F[i])) = Specials(<<s[i]>>) + Specials(Heads(F[x + 1]))
      <4> DEFINE g == F[x + 1]
      <4>1. IsText(g) /\ F[i] = <<one>> \o g
        BY <3>2, <3>4
      <4> HIDE DEF g
      <4>2. IsText(Heads(g)) /\ Heads(F[i]) = <<s[i]>> \o Heads(g)
        BY <3>2, <4>1, HeadsOf
      <4>3. IsText(<<s[i]>>)
        BY TextOne
      <4>4. Specials(<<s[i]>> \o Heads(g)) = Specials(<<s[i]>>) + Specials(Heads(g))
        BY <4>2, <4>3, SpecialsJoin
      <4> QED BY <4>2, <4>4, Zenon DEF g
    <3>6. Specials(rest(i)) = Specials(SubSeq(s, i, x)) + Specials(rest(x + 1))
      <4>1. SubSeq(s, i, n) = SubSeq(s, i, (x + 1) - 1) \o SubSeq(s, x + 1, n)
        <5>1. x + 1 \in i .. n + 1 /\ n \in (x + 1) - 1 .. n
          BY <1>1, <3>1, <3>2
        <5> QED BY <1>5, <3>1, <5>1
      <4>2. (x + 1) - 1 = x
        BY <1>1, <3>2
      <4>3. IsText(SubSeq(s, i, x)) /\ IsText(SubSeq(s, x + 1, n))
        <5>1. x \in i - 1 .. n /\ n \in (x + 1) - 1 .. n
          BY <1>1, <3>1, <3>2
        <5> QED BY <1>4, <3>3, <5>1 DEF Part
      <4>4. SubSeq(s, i, n) = SubSeq(s, i, x) \o SubSeq(s, x + 1, n)
        BY <4>1, <4>2, Zenon
      <4> DEFINE u == SubSeq(s, i, x)
                 v == SubSeq(s, x + 1, n)
      <4> HIDE DEF u, v
      <4>5. Specials(u \o v) = Specials(u) + Specials(v)
        BY <4>3, SpecialsJoin DEF u, v
      <4> QED BY <4>4, <4>5, Zenon DEF u, v
    <3>7. Specials(SubSeq(s, i, x)) = Specials(<<s[i]>>)
      <4> DEFINE u == SubSeq(s, i, x)
                 v == SubSeq(s, i + 1, x)
                 w == <<s[i]>>
      <4>1. u = SubSeq(s, i, (i + 1) - 1) \o v
        <5>1. i + 1 \in i .. n + 1 /\ x \in (i + 1) - 1 .. n
          BY <1>1, <3>1, <3>2
        <5> QED BY <1>5, <3>1, <5>1
      <4>2. SubSeq(s, i, (i + 1) - 1) = w
        <5> DEFINE y == SubSeq(s, i, i)
        <5>1. (i + 1) - 1 = i /\ i \in i - 1 .. n /\ i - i + 1 = 1 /\ i + 1 - 1 = i /\ 1 \in 1 .. 1
          BY <1>1, <3>1
        <5>2. Part(y, s, i, i)
          BY <1>4, <5>1
        <5> HIDE DEF y
        <5>3. IsText(y) /\ Len(y) = 1 /\ y[1] = s[i]
          BY <5>1, <5>2 DEF Part
        <5>4. IsText(w) /\ Len(w) = 1 /\ w[1] = s[i]
          BY TextOne
        <5> HIDE DEF w
        <5>5. \A k \in 1 .. Len(y) : y[k] = w[k]
          BY <5>3, <5>4
        <5>6. y = w
          BY <5>3, <5>4, <5>5, TextEq
        <5> QED BY <5>1, <5>6, Zenon DEF y
      <4>3. Part(v, s, i + 1, x)
        <5>1. i + 1 \in 1 .. n + 1 /\ x \in (i + 1) - 1 .. n
          BY <1>1, <3>1, <3>2
        <5> QED BY <1>4, <5>1
      <4>4. IsText(w)
        BY TextOne
      <4>5. u = w \o v
        BY <4>1, <4>2, Zenon
      <4> HIDE DEF u, v, w
      <4>6. Specials(v) = 0
        <5>1. IsText(v) /\ \A k \in 1 .. Len(v) : v[k] \notin Special
          <6> SUFFICES ASSUME NEW k \in 1 .. Len(v) PROVE v[k] \notin Special
            BY <4>3 DEF Part
          <6>1. v[k] = s[i + 1 + k - 1] /\ i + 1 + k - 1 \in i + 1 .. x
            <7>1. k \in 1 .. x - (i + 1) + 1
              BY <4>3 DEF Part
            <7>2. v[k] = s[i + 1 + k - 1]
              BY <4>3, <7>1 DEF Part
            <7> QED BY <1>1, <3>1, <3>2, <7>1, <7>2
          <6> QED BY <3>2, <6>1
        <5> QED BY <5>1, SpecialsNone
      <4>7. Specials(u) = Specials(w) + Specials(v) /\ Specials(w) \in Nat
        <5>1. IsText(v)
          BY <4>3 DEF Part
        <5> QED BY <4>4, <4>5, <5>1, SpecialsJoin, SpotsAre
      <4>8. Specials(u) = Specials(w)
        BY <4>6, <4>7
      <4> QED BY <4>8 DEF u, w
    <3>8. Specials(Heads(F[x + 1])) = Specials(rest(x + 1))
      BY <1>6, <3>3
    <3> QED BY <3>5, <3>6, <3>7, <3>8, Zenon
  <2> QED BY <2>1, <2>2
<1>7. \A i \in 1 .. n + 1 : i \in S
  <2>1. ASSUME NEW i \in 1 .. n + 1, \A j \in i + 1 .. n + 1 : j \in S PROVE i \in S
    <3>1. Specials(Heads(F[i])) = Specials(rest(i))
      <4> HIDE DEF S, rest
      <4> QED BY <1>6, <2>1
    <3> QED BY <3>1
  <2> HIDE DEF S
  <2> QED BY <1>1, <2>1, DownTo
<1>8. Specials(Heads(F[1])) = Specials(rest(1))
  <2>1. 1 \in 1 .. n + 1
    BY <1>1
  <2> HIDE DEF rest
  <2> QED BY <1>7, <2>1
<1>9. rest(1) = s
  <2> DEFINE u == rest(1)
  <2>1. Part(u, s, 1, n)
    <3>1. 1 \in 1 .. n + 1 /\ n \in 1 - 1 .. n
      BY <1>1
    <3> QED BY <1>4, <3>1
  <2> HIDE DEF u
  <2>2. IsText(u) /\ Len(u) = n /\ \A k \in 1 .. Len(u) : u[k] = s[k]
    <3>1. n - 1 + 1 = n /\ \A k \in 1 .. n : 1 + k - 1 = k
      BY <1>1
    <3> QED BY <2>1, <3>1 DEF Part
  <2>3. u = s
    BY <2>2, TextEq DEF n
  <2> QED BY <2>3 DEF u
<1> QED BY <1>8, <1>9, Zenon DEF F

\* The tokens of a text, with the special tokens that its text has.
LEMMA EncodedSpecials ==
  ASSUME NEW tok \in Tokenizers, NEW s, IsText(s)
  PROVE  Specials(Heads(Encode(tok, s))) = Specials(s)
<1> DEFINE n == Normal(tok, s)
<1>1. /\ IsText(n) /\ Len(n) = Len(s)
      /\ \A i \in 1 .. Len(n) : n[i] \in Special <=> s[i] \in Special
  BY NormalIs
<1>2. Encode(tok, s) = From(tok, n)[1]
  BY EncodeIs
<1> HIDE DEF n
<1>3. Specials(Heads(From(tok, n)[1])) = Specials(n)
  BY <1>1, SpecialTokens
<1>4. Specials(n) = Specials(s)
  BY <1>1, SpecialsAlike
<1> QED BY <1>2, <1>3, <1>4, Zenon

\* A text without special tokens has no token that begins with one.
LEMMA PlainTokens ==
  ASSUME NEW tok \in Tokenizers, NEW s, IsText(s), \A i \in 1 .. Len(s) : s[i] \notin Special
  PROVE  \A k \in 1 .. Len(Encode(tok, s)) : Encode(tok, s)[k][1] \notin Special
<1> DEFINE f == Encode(tok, s)
           h == Heads(f)
<1>1. IsText(f) /\ Specials(h) = 0
  BY BehindIs, EncodedSpecials, SpecialsNone
<1> HIDE DEF f
<1>2. IsText(h)
  BY <1>1, HeadsOf
<1>3. DOMAIN h = 1 .. Len(f) /\ \A k \in 1 .. Len(f) : h[k] = f[k][1]
  <2>1. DOMAIN f = 1 .. Len(f)
    BY <1>1, TextIs
  <2> QED BY <2>1 DEF Heads
<1> HIDE DEF h
<1>4. Spots(h) = {}
  BY <1>1, <1>2, SpotsAre, FS_EmptySet
<1>5. ASSUME NEW k \in 1 .. Len(f) PROVE f[k][1] \notin Special
  BY <1>3, <1>4 DEF Spots
<1> QED BY <1>5 DEF f

-----------------------------------------------------------------------------
(* The answer slot: what is behind the last special token of the prompt. *)

\* If the tokens of a plain text end those of the text behind a closed one, the
\* special token before it has swallowed nothing of it.
LEMMA SlotApart ==
  ASSUME NEW tok \in Tokenizers, NEW a, Closed(a), NEW b, IsText(b),
         \A i \in 1 .. Len(b) : b[i] \notin Special,
         IsSuffix(Encode(tok, b), Encode(tok, a \o b))
  PROVE  Behind(tok, b) = Encode(tok, b)
<1> DEFINE x == Encode(tok, a)
           e == Encode(tok, b)
           z == Behind(tok, b)
           t == x \o z
           y == Normal(tok, b)
           h == After(tok, y)
<1>1. IsText(a) /\ Closed(Normal(tok, a))
  BY NormalClosed DEF Closed
<1>2. IsText(x) /\ IsText(e) /\ IsText(z) /\ IsText(y)
  BY <1>1, BehindIs, NormalIs
<1>3. Joined(t, x, z)
  BY <1>2, JoinAt
<1>4. EndsIn(t, e)
  <2>1. IsSuffix(e, t)
    BY EncodeSplit
  <2>2. IsText(t)
    BY <1>3 DEF Joined
  <2> HIDE DEF t, e
  <2> QED BY <1>2, <2>1, <2>2, SuffixIs
<1>5. Len(x) >= 1 /\ x[Len(x)][1] \in Special
  <2> DEFINE w == Normal(tok, a)
  <2>1. x = From(tok, w)[1] /\ Closed(w)
    BY <1>1, EncodeIs
  <2> HIDE DEF w
  <2>2. 1 \in 1 .. Len(w)
    BY <2>1, TextIs DEF Closed
  <2>3. LET f == From(tok, w)[1] IN IsText(f) /\ Len(f) >= 1 /\ f[Len(f)][1] \in Special
    BY <2>1, <2>2, LastToken, Zenon
  <2> QED BY <2>1, <2>3, Zenon
<1>6. \A k \in 1 .. Len(e) : e[k][1] \notin Special
  BY PlainTokens
<1>7. z = From(tok, y)[h] /\ e = From(tok, y)[1]
  BY EncodeIs, Zenon DEF Behind
<1>8. h \in 1 .. Len(y) + 1 /\ (h = 1 \/ h = 2)
  BY <1>2, TextIs DEF After
<1>9. Behind(tok, b) = Encode(tok, b) <=> h = 1
  BY BehindIs
<1> HIDE DEF x, e, z, t, y, h
<1>10. Len(x) \in Nat /\ Len(z) \in Nat /\ Len(e) \in Nat /\ Len(t) = Len(x) + Len(z)
  BY <1>2, <1>3, TextIs DEF Joined
<1>11. Len(e) <= Len(z)
  <2> SUFFICES ASSUME ~(Len(e) <= Len(z)) PROVE FALSE
    OBVIOUS
  <2> DEFINE k == Len(e) - Len(z)
  <2>1. k \in 1 .. Len(e) /\ (Len(t) - Len(e)) + k = Len(x) /\ Len(x) \in 1 .. Len(x)
    BY <1>5, <1>10
  <2> HIDE DEF k
  <2>2. e[k] = t[Len(x)] /\ t[Len(x)] = x[Len(x)]
    BY <1>3, <1>4, <2>1 DEF EndsIn, Joined
  <2> QED BY <1>5, <1>6, <2>1, <2>2
<1>12. EndsIn(z, e)
  <2>1. ASSUME NEW i \in 1 .. Len(e) PROVE e[i] = z[(Len(z) - Len(e)) + i]
    <3> DEFINE k == (Len(z) - Len(e)) + i
    <3>1. k \in 1 .. Len(z) /\ (Len(t) - Len(e)) + i = Len(x) + k
      BY <1>10, <1>11
    <3> HIDE DEF k
    <3>2. e[i] = t[Len(x) + k] /\ t[Len(x) + k] = z[k]
      BY <1>3, <1>4, <3>1 DEF EndsIn, Joined
    <3> QED BY <3>2 DEF k
  <2> QED BY <1>11, <2>1 DEF EndsIn
<1>13. PICK j \in h .. Len(y) + 1 : e = From(tok, y)[j]
  BY <1>2, <1>7, <1>8, <1>12, EndOfFrom
<1>14. j = 1
  <2>1. j \in 1 .. Len(y) + 1 /\ 1 \in 1 .. Len(y) + 1
    BY <1>2, <1>8, TextIs
  <2> QED BY <1>2, <1>7, <1>13, <2>1, FromDiffers
<1>15. h = 1
  BY <1>8, <1>13, <1>14
<1> QED BY <1>9, <1>15

\* A code that adds one token to the slot adds the same one to the whole prompt.
AddsOne(tok, b, code, id) ==
    IsText(code) /\ Encode(tok, b \o code) = Append(Encode(tok, b), id)

LEMMA CodeAdds ==
  ASSUME NEW tok \in Tokenizers, NEW a, Closed(a), NEW b, IsText(b), Len(b) >= 1,
         Behind(tok, b) = Encode(tok, b), NEW code, NEW id, AddsOne(tok, b, code, id)
  PROVE  AddsOne(tok, a \o b, code, id)
<1> DEFINE c == b \o code
           x == Encode(tok, a)
           y == Encode(tok, b)
<1>1. IsText(a) /\ IsText(code)
  BY DEF Closed, AddsOne
<1>2. (a \o b) \o code = a \o c
  BY <1>1, JoinAssoc, SMTT(100)
<1>3. Joined(c, b, code)
  BY <1>1, JoinAt
<1>4. IsText(x) /\ IsText(y)
  BY <1>1, BehindIs
<1>5. Encode(tok, a \o b) = x \o y
  BY EncodeSplit
<1>6. Encode(tok, c) = Append(y, id)
  BY DEF AddsOne
<1> HIDE DEF c
<1>7. IsText(c) /\ Len(c) >= 1 /\ c[1] = b[1]
  <2>1. Len(b) \in Nat /\ Len(code) \in Nat /\ Len(c) = Len(b) + Len(code) /\ IsText(c)
    BY <1>3 DEF Joined
  <2>2. 1 \in 1 .. Len(b)
    BY <2>1
  <2> QED BY <1>3, <2>1, <2>2 DEF Joined
<1>8. Behind(tok, c) = Encode(tok, c)
  <2>1. After(tok, Normal(tok, b)) = 1
    BY BehindIs
  <2>2. After(tok, Normal(tok, c)) = 1
    BY <1>7, <2>1, SameFirst
  <2> QED BY <1>7, <2>2, BehindIs
<1>9. Encode(tok, a \o c) = x \o Append(y, id)
  <2>1. Encode(tok, a \o c) = x \o Behind(tok, c)
    BY <1>7, EncodeSplit
  <2> QED BY <1>6, <1>8, <2>1, Zenon
<1> HIDE DEF x, y
<1>10. x \o Append(y, id) = Append(x \o y, id)
  <2> DEFINE T == Range(x) \union Range(y) \union {id}
  <2>1. x \in Seq(T) /\ y \in Seq(T) /\ id \in T
    BY <1>4 DEF IsText
  <2> HIDE DEF T
  <2> QED BY <2>1
<1>11. Encode(tok, (a \o b) \o code) = Append(Encode(tok, a \o b), id)
  BY <1>2, <1>5, <1>9, <1>10, Zenon
<1> QED BY <1>1, <1>11 DEF AddsOne

-----------------------------------------------------------------------------
(* The registry of answer codes. *)

NoCodes == [codes |-> <<>>, ids |-> <<>>]
Registered(tok, tail, f, s) ==
    IF s = {} THEN NoCodes ELSE Register(tok, tail, f[s \ {Max(s)}], CodeCandidates[Max(s)])
Registries(tok, tail, S) == CHOOSE f : f = [s \in SUBSET S |-> Registered(tok, tail, f, s)]
Registry(tok, tail) ==
    FoldLeft(LAMBDA r, code : Register(tok, tail, r, code), NoCodes, CodeCandidates)

\* Every code is the token it adds to the tail, and no two are the same.
IsRegistry(tok, tail, r) ==
    LET Codes == Range(CodeCandidates)
    IN  /\ r.codes \in Seq(Codes) /\ r.ids = r.codes
        /\ \A k \in 1 .. Len(r.codes) :
              /\ IsText(r.codes[k])
              /\ Encode(tok, tail \o r.codes[k]) = Append(Encode(tok, tail), r.codes[k])
              /\ \A j \in 1 .. Len(r.codes) : r.codes[j] = r.codes[k] => j = k

\* The registry is the last of the registries, one for each number of candidates.
LEMMA RegistryIs ==
  ASSUME NEW tok, NEW tail
  PROVE  Registry(tok, tail) = Registries(tok, tail, DOMAIN CodeCandidates)[DOMAIN CodeCandidates]
BY Zenon DEF Registry, Registries, Registered, FoldLeft, MapThenFoldSet, NoCodes

\* The greatest of 1 .. n + 1.
LEMMA MaxLast ==
  ASSUME NEW n \in Nat, NEW s \in SUBSET (1 .. n + 1), n + 1 \in s
  PROVE  Max(s) = n + 1
<1>1. s \in SUBSET (0 .. n + 1) /\ s # {} /\ n + 1 \in Nat
  OBVIOUS
<1>2. Max(s) \in s /\ \A m \in s : m <= Max(s)
  BY <1>1, MaxNat
<1>3. Max(s) \in 1 .. n + 1 /\ n + 1 <= Max(s)
  BY <1>2
<1> QED BY <1>3

\* Each registry comes of the one before it and of the candidate behind.
LEMMA RegistriesAre ==
  ASSUME NEW tok, NEW tail, NEW n \in Nat
  PROVE  \A s \in SUBSET (1 .. n) :
            Registries(tok, tail, 1 .. n)[s] = Registered(tok, tail, Registries(tok, tail, 1 .. n), s)
<1> DEFINE Of(f, m) == [s \in SUBSET (1 .. m) |-> Registered(tok, tail, f, s)]
           Found == {m \in 0 .. n : \E f : f = Of(f, m)}
<1>1. 0 \in Found
  <2> DEFINE g == [s \in SUBSET (1 .. 0) |-> NoCodes]
  <2>1. \A s \in SUBSET (1 .. 0) : s = {}
    OBVIOUS
  <2>2. g = Of(g, 0)
    BY <2>1, Zenon DEF Registered
  <2> HIDE DEF g
  <2> QED BY <2>2
<1>2. ASSUME NEW m \in 0 .. n - 1, m \in Found PROVE m + 1 \in Found
  <2>1. PICK f : f = Of(f, m)
    BY <1>2
  <2> DEFINE P == SUBSET (1 .. m)
             Q == SUBSET (1 .. m + 1)
             last(h, s) == Register(tok, tail, h[s \ {m + 1}], CodeCandidates[m + 1])
             g == [s \in Q |-> IF m + 1 \in s THEN last(f, s) ELSE f[s]]
  <2>2. ASSUME NEW s \in P PROVE s \in Q /\ m + 1 \notin s /\ s \ {Max(s)} \in P
    <3>1. 1 .. m \subseteq 1 .. m + 1 /\ m + 1 \notin 1 .. m
      OBVIOUS
    <3>2. s \ {Max(s)} \subseteq s
      <4> DEFINE x == Max(s)
      <4> HIDE DEF x
      <4> QED OBVIOUS
    <3> QED BY <3>1, <3>2
  <2>3. ASSUME NEW s \in Q, m + 1 \notin s PROVE s \in P
    <3>1. \A k \in s : k \in 1 .. m
      BY <2>3
    <3> QED BY <3>1
  <2>4. ASSUME NEW s \in Q, m + 1 \in s PROVE s \ {m + 1} \in P /\ Max(s) = m + 1 /\ s # {}
    <3>1. \A k \in s \ {m + 1} : k \in 1 .. m
      OBVIOUS
    <3>2. Max(s) = m + 1
      BY <2>4, MaxLast
    <3> QED BY <2>4, <3>1, <3>2
  <2>a. f = [s \in P |-> Registered(tok, tail, f, s)]
    BY <2>1, Zenon
  <2> HIDE DEF P, Q
  <2>5. \A s \in P : g[s] = f[s]
    BY <2>2, Zenon
  <2>6. ASSUME NEW s \in Q PROVE g[s] = Registered(tok, tail, g, s)
    <3>1. CASE m + 1 \in s
      <4>1. g[s] = last(f, s)
        BY <3>1, Zenon
      <4>2. g[s \ {m + 1}] = f[s \ {m + 1}]
        BY <2>4, <2>5, <3>1, Zenon
      <4>3. Registered(tok, tail, g, s) = Register(tok, tail, g[s \ {m + 1}], CodeCandidates[m + 1])
        <5> HIDE DEF g
        <5> QED BY <2>4, <3>1, Zenon DEF Registered
      <4> HIDE DEF g
      <4> QED BY <4>1, <4>2, <4>3, Zenon
    <3>2. CASE m + 1 \notin s
      <4>1. g[s] = f[s] /\ s \in P
        BY <2>3, <3>2, Zenon
      <4>2. f[s] = Registered(tok, tail, f, s)
        BY <2>a, <4>1, Zenon
      <4>3. s \ {Max(s)} \in P
        BY <2>2, <4>1
      <4>4. g[s \ {Max(s)}] = f[s \ {Max(s)}]
        BY <2>5, <4>3, Zenon
      <4>5. Registered(tok, tail, f, s) = Registered(tok, tail, g, s)
        <5> HIDE DEF g
        <5> QED BY <4>4, Zenon DEF Registered
      <4> HIDE DEF g
      <4> QED BY <4>1, <4>2, <4>5, Zenon
    <3> QED BY <3>1, <3>2, Zenon
  <2>7. g = [s \in Q |-> g[s]]
    BY Zenon
  <2> HIDE DEF g
  <2>8. g = [s \in Q |-> Registered(tok, tail, g, s)]
    BY <2>6, <2>7, Zenon
  <2>9. m + 1 \in 0 .. n
    OBVIOUS
  <2> QED BY <2>8, <2>9, Zenon DEF Q
<1>3. n \in Found
  <2> HIDE DEF Found
  <2>1. n \in 0 .. n
    OBVIOUS
  <2> QED BY <1>1, <1>2, <2>1, StepByStep
<1>4. \E f : f = Of(f, n)
  BY <1>3, Zenon
<1> DEFINE F == Registries(tok, tail, 1 .. n)
<1>5. F = Of(F, n)
  BY <1>4, Zenon DEF Registries
<1> HIDE DEF F
<1>6. \A s \in SUBSET (1 .. n) : F[s] = Registered(tok, tail, F, s)
  BY <1>5, Zenon
<1> QED BY <1>6, Zenon DEF F

\* A text has at least one token, if it has a character.
LEMMA SomeToken ==
  ASSUME NEW tok \in Tokenizers, NEW s, IsText(s), Len(s) >= 1
  PROVE  IsText(Encode(tok, s)) /\ Len(Encode(tok, s)) >= 1
<1> DEFINE y == Normal(tok, s)
           F == From(tok, y)
           x == PieceEnd(tok, y, 1) + 1
<1>1. IsText(y) /\ Len(y) = Len(s) /\ Len(s) \in Nat
  BY NormalIs, TextIs
<1>2. Encode(tok, s) = F[1]
  BY EncodeIs
<1> HIDE DEF y
<1>3. 1 \in 1 .. Len(y)
  BY <1>1
<1>4. F[1] = <<Token(tok, y, 1)>> \o F[x] /\ x \in 1 + 1 .. Len(y) + 1
  BY <1>1, <1>3, FromAt
<1>5. x \in 1 .. Len(y) + 1
  <2> HIDE DEF x
  <2> QED BY <1>1, <1>4
<1>6. IsText(F[x])
  BY <1>1, <1>5, FromAt
<1> HIDE DEF F, x
<1>7. Headed(F[1], Token(tok, y, 1), F[x])
  BY <1>4, <1>6, AfterOne
<1>8. IsText(F[1]) /\ Len(F[1]) >= 1
  BY <1>7 DEF Headed
<1> QED BY <1>2, <1>8

\* Trying another candidate keeps what holds of a registry,
LEMMA RegisterKeeps ==
  ASSUME NEW tok \in Tokenizers, NEW tail, IsText(tail), Len(tail) >= 1,
         NEW r, IsRegistry(tok, tail, r), NEW code \in Range(CodeCandidates)
  PROVE  IsRegistry(tok, tail, Register(tok, tail, r, code))
<1> DEFINE Codes == Range(CodeCandidates)
           all == Encode(tok, tail \o code)
           slot == Encode(tok, tail)
           new == [codes |-> Append(r.codes, code), ids |-> Append(r.ids, Last(all))]
           good == /\ Front(all) = slot /\ Last(all)[1] \notin Special
                   /\ Last(all) \notin ToSet(r.ids) /\ Last(all) = code
<1>1. Register(tok, tail, r, code) = IF good THEN new ELSE r
  BY Zenon DEF Register
<1>2. IsText(code)
  <2>1. PICK i \in DOMAIN CodeCandidates : code = CodeCandidates[i]
    BY DEF Range
  <2> QED BY <2>1, TextAssumption
<1>3. IsText(all) /\ Len(all) >= 1
  <2> DEFINE s == tail \o code
  <2>1. Joined(s, tail, code)
    BY <1>2, JoinAt
  <2> HIDE DEF s
  <2>2. IsText(s) /\ Len(s) >= 1
    BY <2>1 DEF Joined
  <2>3. IsText(Encode(tok, s)) /\ Len(Encode(tok, s)) >= 1
    BY <2>2, SomeToken
  <2> QED BY <2>3 DEF s
<1>4. ASSUME good PROVE Encode(tok, tail \o code) = Append(slot, code)
  <2>1. Front(all) = slot /\ Last(all) = code
    BY <1>4
  <2> HIDE DEF all
  <2>2. all = Append(Front(all), Last(all))
    <3> DEFINE T == Range(all)
    <3>1. all \in Seq(T)
      BY <1>3 DEF IsText
    <3> HIDE DEF T
    <3> QED BY <1>3, <3>1 DEF Front, Last
  <2> QED BY <2>1, <2>2, Zenon DEF all
<1>5. ASSUME good PROVE IsRegistry(tok, tail, new)
  <2> DEFINE c == r.codes
             d == Append(c, code)
  <2>1. /\ c \in Seq(Codes) /\ r.ids = c
        /\ \A k \in 1 .. Len(c) :
              /\ IsText(c[k])
              /\ Encode(tok, tail \o c[k]) = Append(slot, c[k])
              /\ \A j \in 1 .. Len(c) : c[j] = c[k] => j = k
    BY Zenon DEF IsRegistry
  <2>2. new.codes = d /\ new.ids = d
    BY <1>5, <2>1
  <2>3. \A k \in 1 .. Len(c) : c[k] # code
    <3>1. code \notin ToSet(r.ids)
      BY <1>5
    <3> HIDE DEF c
    <3>2. DOMAIN c = 1 .. Len(c)
      BY <2>1
    <3> QED BY <2>1, <3>1, <3>2 DEF ToSet
  <2>4. Encode(tok, tail \o code) = Append(slot, code)
    BY <1>4, <1>5
  <2> HIDE DEF c, slot, Codes, new, all
  <2>5. /\ d \in Seq(Codes) /\ Len(d) = Len(c) + 1 /\ Len(c) \in Nat
        /\ d[Len(c) + 1] = code /\ \A k \in 1 .. Len(c) : d[k] = c[k]
    BY <2>1 DEF Codes
  <2> HIDE DEF d
  <2>6. ASSUME NEW k \in 1 .. Len(d)
        PROVE  /\ IsText(d[k])
               /\ Encode(tok, tail \o d[k]) = Append(slot, d[k])
               /\ \A j \in 1 .. Len(d) : d[j] = d[k] => j = k
    <3>1. \A j \in 1 .. Len(d) : j \in 1 .. Len(c) \/ j = Len(c) + 1
      BY <2>5
    <3>2. CASE k = Len(c) + 1
      <4>1. d[k] = code
        BY <2>5, <3>2
      <4>2. \A j \in 1 .. Len(d) : d[j] = d[k] => j = k
        BY <2>3, <2>5, <3>1, <3>2, <4>1
      <4> QED BY <1>2, <2>4, <4>1, <4>2, Zenon
    <3>3. CASE k \in 1 .. Len(c)
      <4>1. d[k] = c[k]
        BY <2>5, <3>3
      <4>2. \A j \in 1 .. Len(d) : d[j] = d[k] => j = k
        BY <2>1, <2>3, <2>5, <3>1, <3>3, <4>1
      <4> QED BY <2>1, <3>3, <4>1, <4>2, Zenon
    <3> QED BY <3>1, <3>2, <3>3
  <2> QED BY <2>2, <2>5, <2>6, Zenon DEF IsRegistry, Codes, slot
<1> HIDE DEF good, new
<1> QED BY <1>1, <1>5, Zenon

\* so that it holds of every one.
LEMMA RegistryHolds ==
  ASSUME NEW tok \in Tokenizers, NEW tail, IsText(tail), Len(tail) >= 1
  PROVE  IsRegistry(tok, tail, Registry(tok, tail))
<1> DEFINE n == Len(CodeCandidates)
           F == Registries(tok, tail, 1 .. n)
           S == {m \in 0 .. n : IsRegistry(tok, tail, F[1 .. m])}
<1>1. n \in Nat /\ DOMAIN CodeCandidates = 1 .. n
  BY TextAssumption, TextIs
<1>2. \A s \in SUBSET (1 .. n) : F[s] = Registered(tok, tail, F, s)
  <2>1. n \in Nat
    BY <1>1
  <2> HIDE DEF n
  <2> QED BY <2>1, RegistriesAre
<1>3. Registry(tok, tail) = F[1 .. n]
  BY <1>1, RegistryIs, Zenon
<1> HIDE DEF n, F
<1>4. 0 \in S
  <2>1. 1 .. 0 = {} /\ 1 .. 0 \in SUBSET (1 .. n) /\ 0 \in 0 .. n
    BY <1>1
  <2>2. F[1 .. 0] = NoCodes
    BY <1>2, <2>1, Zenon DEF Registered
  <2>3. NoCodes.codes = <<>> /\ NoCodes.ids = <<>> /\ <<>> \in Seq(Range(CodeCandidates)) /\ 1 .. Len(<<>>) = {}
    BY DEF NoCodes
  <2>4. IsRegistry(tok, tail, NoCodes)
    BY <2>3, Zenon DEF IsRegistry
  <2> QED BY <2>1, <2>2, <2>4
<1>5. ASSUME NEW m \in 0 .. n - 1, m \in S PROVE m + 1 \in S
  <2> DEFINE s == 1 .. m + 1
  <2>1. m \in Nat /\ s \in SUBSET (1 .. n) /\ m + 1 \in s /\ s # {} /\ s \ {m + 1} = 1 .. m /\ m + 1 \in 1 .. n /\ m + 1 \in 0 .. n
    BY <1>1
  <2>2. Max(s) = m + 1
    BY <2>1, MaxLast
  <2> HIDE DEF s
  <2>3. F[s] = Register(tok, tail, F[1 .. m], CodeCandidates[m + 1])
    BY <1>2, <2>1, <2>2, Zenon DEF Registered
  <2>4. CodeCandidates[m + 1] \in Range(CodeCandidates)
    BY <1>1, <2>1, Zenon DEF Range
  <2>5. IsRegistry(tok, tail, F[1 .. m])
    BY <1>5
  <2>6. IsRegistry(tok, tail, F[s])
    BY <2>3, <2>4, <2>5, RegisterKeeps
  <2> QED BY <2>1, <2>6 DEF s
<1>6. \A m \in 0 .. n : m \in S
  <2> HIDE DEF S
  <2> QED BY <1>1, <1>4, <1>5, StepByStep
<1>7. n \in 0 .. n
  BY <1>1
<1> QED BY <1>3, <1>6, <1>7

-----------------------------------------------------------------------------
(* A sequence of texts, one behind the other. *)

Flat(s) == CHOOSE f : f = [i \in 1 .. Len(s) |-> IF i = 1 THEN s[i] ELSE f[i - 1] \o s[i]]

\* Flattening is a recursion, too.
LEMMA FlatIs ==
  ASSUME NEW s
  PROVE  FlattenSeq(s) = IF Len(s) = 0 THEN s ELSE Flat(s)[Len(s)]
BY Zenon DEF FlattenSeq, Flat

\* Texts one behind the other are a text.
LEMMA FlatText ==
  ASSUME NEW s, IsText(s), \A i \in 1 .. Len(s) : IsText(s[i])
  PROVE  IsText(FlattenSeq(s))
<1> DEFINE n == Len(s)
           Next1(f, i) == IF i = 1 THEN s[i] ELSE f[i - 1] \o s[i]
           Of(f, m) == [i \in 1 .. m |-> Next1(f, i)]
           Found == {m \in 0 .. n : \E f : f = Of(f, m)}
<1>1. n \in Nat
  BY TextIs
<1>2. 0 \in Found
  <2> DEFINE g == [i \in {} |-> s[i]]
  <2>1. 1 .. 0 = {} /\ 0 \in 0 .. n
    BY <1>1
  <2>2. g = [i \in {} |-> Next1(g, i)]
    BY Zenon
  <2> HIDE DEF g
  <2>3. g = Of(g, 0)
    BY <2>1, <2>2, Zenon
  <2> QED BY <2>1, <2>3, Zenon
<1> HIDE DEF n
<1>3. ASSUME NEW m \in 0 .. n - 1, m \in Found PROVE m + 1 \in Found
  <2>1. PICK f : f = Of(f, m)
    BY <1>3
  <2> DEFINE g == [i \in 1 .. m + 1 |-> IF i = m + 1 THEN Next1(f, i) ELSE f[i]]
  <2>2. \A i \in 1 .. m : i \in 1 .. m + 1 /\ i # m + 1
    BY <1>1
  <2>3. \A i \in 1 .. m + 1 : i = m + 1 \/ i \in 1 .. m
    BY <1>1
  <2>4. \A i \in 1 .. m + 1 : i = 1 \/ i - 1 \in 1 .. m
    BY <1>1
  <2>5. \A i \in 1 .. m : g[i] = f[i]
    BY <2>2, Zenon
  <2>6. \A i \in 1 .. m + 1 : g[i] = Next1(f, i)
    <3>1. \A i \in 1 .. m : f[i] = Next1(f, i)
      BY <2>1, Zenon
    <3>2. \A i \in 1 .. m + 1 : g[i] = IF i = m + 1 THEN Next1(f, i) ELSE f[i]
      BY Zenon
    <3> HIDE DEF g, Next1
    <3> QED BY <2>3, <3>1, <3>2, Zenon
  <2>7. g = [i \in 1 .. m + 1 |-> g[i]]
    BY Zenon
  <2> HIDE DEF g
  <2>8. \A i \in 1 .. m + 1 : Next1(f, i) = Next1(g, i)
    BY <2>4, <2>5, Zenon
  <2>9. g = Of(g, m + 1)
    <3> HIDE DEF Next1
    <3> QED BY <2>6, <2>7, <2>8, Zenon
  <2>10. m + 1 \in 0 .. n
    BY <1>1
  <2> QED BY <2>9, <2>10, Zenon
<1>4. n \in Found
  <2> HIDE DEF Found
  <2>1. n \in 0 .. n
    BY <1>1
  <2> QED BY <1>1, <1>2, <1>3, <2>1, StepByStep
<1>5. Flat(s) = [i \in 1 .. n |-> IF i = 1 THEN s[i] ELSE Flat(s)[i - 1] \o s[i]]
  BY <1>4, Zenon DEF Flat, n
<1> DEFINE F == Flat(s)
<1>6. \A i \in 1 .. n : F[i] = IF i = 1 THEN s[i] ELSE F[i - 1] \o s[i]
  <2> HIDE DEF F
  <2>1. F = [i \in 1 .. n |-> IF i = 1 THEN s[i] ELSE F[i - 1] \o s[i]]
    BY <1>5 DEF F
  <2> QED BY <2>1, Zenon
<1> HIDE DEF F
<1> DEFINE S == {m \in 0 .. n : m = 0 \/ IsText(F[m])}
<1>7. 0 \in S
  BY <1>1
<1>8. ASSUME NEW m \in 0 .. n - 1, m \in S PROVE m + 1 \in S
  <2>1. m + 1 \in 1 .. n /\ m + 1 \in 0 .. n /\ (m + 1) - 1 = m /\ (m = 0 <=> m + 1 = 1)
    BY <1>1
  <2>2. IsText(s[m + 1])
    BY <2>1 DEF n
  <2>3. F[m + 1] = IF m = 0 THEN s[m + 1] ELSE F[m] \o s[m + 1]
    BY <1>6, <2>1
  <2>4. IsText(F[m + 1])
    BY <1>8, <2>2, <2>3, TextJoin
  <2> QED BY <2>1, <2>4
<1>9. \A m \in 0 .. n : m \in S
  <2> HIDE DEF S
  <2> QED BY <1>1, <1>7, <1>8, StepByStep
<1>10. n # 0 => IsText(F[n])
  <2>1. n \in 0 .. n
    BY <1>1
  <2> QED BY <1>9, <2>1
<1> QED BY <1>10, FlatIs DEF n, F

-----------------------------------------------------------------------------
(* What the start accepts. *)

\* The last special token of a text, or 0.
LEMMA LastSpecialIs ==
  ASSUME NEW s, IsText(s)
  PROVE  /\ LastSpecialEnd(s) \in 0 .. Len(s)
         /\ LastSpecialEnd(s) # 0 => s[LastSpecialEnd(s)] \in Special
         /\ \A k \in 1 .. Len(s) : s[k] \in Special => k <= LastSpecialEnd(s)
<1> DEFINE S == {0} \union {i \in DOMAIN s : s[i] \in Special}
<1>1. Len(s) \in Nat /\ DOMAIN s = 1 .. Len(s)
  BY TextIs
<1>2. S \in SUBSET (0 .. Len(s)) /\ S # {} /\ S = {0} \union {i \in 1 .. Len(s) : s[i] \in Special}
  BY <1>1
<1>3. LastSpecialEnd(s) = Max(S)
  BY DEF LastSpecialEnd
<1> HIDE DEF S
<1>4. Max(S) \in S /\ \A k \in S : k <= Max(S)
  BY <1>1, <1>2, MaxNat
<1> QED BY <1>2, <1>3, <1>4

\* The last place of a mark.
LEMMA MarkIs ==
  ASSUME NEW s, IsText(s), NEW mark, NEW i \in 1 .. Len(s), s[i] = mark
  PROVE  /\ Max(Where(s, mark)) \in 1 .. Len(s) /\ s[Max(Where(s, mark))] = mark
         /\ \A k \in 1 .. Len(s) : s[k] = mark => k <= Max(Where(s, mark))
<1> DEFINE S == Where(s, mark)
<1>1. Len(s) \in Nat /\ DOMAIN s = 1 .. Len(s)
  BY TextIs
<1>2. S = {k \in 1 .. Len(s) : s[k] = mark}
  BY <1>1 DEF Where
<1> HIDE DEF S
<1>3. S \in SUBSET (0 .. Len(s)) /\ S # {}
  BY <1>2
<1>4. Max(S) \in S /\ \A k \in S : k <= Max(S)
  BY <1>1, <1>3, MaxNat
<1>5. /\ Max(S) \in 1 .. Len(s) /\ s[Max(S)] = mark
      /\ \A k \in 1 .. Len(s) : s[k] = mark => k <= Max(S)
  BY <1>2, <1>4
<1> QED BY <1>5 DEF S

\* The parts of a template that is accepted.
PrefixFits(p) ==
    LET m == Max(Where(p, ContextMark))
    IN  Closed(p) /\ m \in 1 .. Len(p) - 1 /\ p[m] = ContextMark

SuffixFits(s) ==
    LET m == Max(Where(s, QuestionMark))
        e == LastSpecialEnd(s)
    IN  /\ IsText(s) /\ m \in 1 .. e - 1 /\ s[m] = QuestionMark
        /\ e \in 1 .. Len(s) - 1 /\ s[e] \in Special
        /\ \A k \in e + 1 .. Len(s) : s[k] \notin Special

\* A legal template is cut at a special token between its two marks.
LEMMA TemplateFits ==
  ASSUME NEW sk \in Skeletons, TemplateIsLegal(sk)
  PROVE  LET b == Boundary(sk)
             p == SubSeq(sk, 1, b)
             s == SubSeq(sk, b + 1, Len(sk)) \o AnswerPrefix
         IN  /\ PrefixFits(p) /\ SuffixFits(s) /\ IsText(sk)
             /\ Specials(sk) = Specials(p) + Specials(s)
<1> DEFINE n == Len(sk)
           b == Boundary(sk)
           m == Max(Where(sk, QuestionMark))
           c == Max(Where(sk, ContextMark))
           z == LastSpecialEnd(sk)
           p == SubSeq(sk, 1, b)
           u == SubSeq(sk, b + 1, n)
           s == u \o AnswerPrefix
           before == SubSeq(sk, 1, m - 1)
<1>1. IsText(sk) /\ n \in Nat /\ DOMAIN sk = 1 .. n
  BY CacheAssumption, TextIs
<1>2. /\ Cardinality(Where(sk, QuestionMark)) = 1 /\ Cardinality(Where(sk, ContextMark)) = 1
      /\ b >= c /\ z >= m
  BY DEF TemplateIsLegal
<1>3. Where(sk, QuestionMark) # {} /\ Where(sk, ContextMark) # {}
  BY <1>2, FS_EmptySet
<1>4. /\ m \in 1 .. n /\ sk[m] = QuestionMark
      /\ \A k \in 1 .. n : sk[k] = QuestionMark => k <= m
  <2>1. PICK i \in 1 .. n : sk[i] = QuestionMark
    BY <1>1, <1>3 DEF Where
  <2> QED BY <1>1, <2>1, MarkIs
<1>5. c \in 1 .. n /\ sk[c] = ContextMark
  <2>1. PICK i \in 1 .. n : sk[i] = ContextMark
    BY <1>1, <1>3 DEF Where
  <2> QED BY <1>1, <2>1, MarkIs
<1>6. z \in 0 .. n /\ (z # 0 => sk[z] \in Special)
  BY <1>1, LastSpecialIs
<1> HIDE DEF n, m, c, z
<1>7. Part(before, sk, 1, m - 1)
  <2>1. 1 \in 1 .. Len(sk) + 1 /\ m - 1 \in 1 - 1 .. Len(sk)
    BY <1>1, <1>4 DEF n
  <2> QED BY <1>1, <2>1, PartAt
<1>8. b = LastSpecialEnd(before)
  BY DEF Boundary, m
<1> HIDE DEF b, before
<1>9. b \in 1 .. m - 1 /\ sk[b] \in Special
  <2>1. IsText(before) /\ Len(before) = m - 1 /\ \A k \in 1 .. m - 1 : before[k] = sk[k]
    <3>1. m - 1 - 1 + 1 = m - 1 /\ \A k \in 1 .. m - 1 : 1 + k - 1 = k
      BY <1>1, <1>4
    <3> QED BY <1>7, <3>1 DEF Part
  <2>2. b \in 0 .. m - 1 /\ (b # 0 => before[b] \in Special)
    BY <1>8, <2>1, LastSpecialIs
  <2>3. b # 0
    BY <1>1, <1>2, <1>5, <2>2
  <2> QED BY <1>1, <1>4, <2>1, <2>2, <2>3
<1>10. c \in 1 .. b - 1 /\ z \in m + 1 .. n /\ sk[z] \in Special
  <2>1. c # b /\ z # m
    <3>1. ContextMark \notin Special /\ QuestionMark \notin Special
      BY TextAssumption
    <3>2. z # 0
      BY <1>1, <1>2, <1>4
    <3> QED BY <1>4, <1>5, <1>6, <1>9, <3>1, <3>2
  <2>2. z # 0
    BY <1>1, <1>2, <1>4
  <2> QED BY <1>1, <1>2, <1>4, <1>5, <1>6, <1>9, <2>1, <2>2
<1>11. Part(p, sk, 1, b) /\ Part(u, sk, b + 1, n)
  <2>1. /\ 1 \in 1 .. Len(sk) + 1 /\ b \in 1 - 1 .. Len(sk)
        /\ b + 1 \in 1 .. Len(sk) + 1 /\ n \in (b + 1) - 1 .. Len(sk)
    BY <1>1, <1>4, <1>9 DEF n
  <2> QED BY <1>1, <2>1, PartAt
<1>12. IsText(p) /\ Len(p) = b /\ \A k \in 1 .. b : p[k] = sk[k]
  <2> HIDE DEF p
  <2>1. b - 1 + 1 = b /\ \A k \in 1 .. b : 1 + k - 1 = k
    BY <1>1, <1>9
  <2> QED BY <1>11, <2>1 DEF Part
<1>13. IsText(u) /\ Len(u) = n - b /\ \A k \in 1 .. n - b : u[k] = sk[b + k]
  <2> HIDE DEF u
  <2>1. n - (b + 1) + 1 = n - b /\ \A k \in 1 .. n - b : (b + 1) + k - 1 = b + k
    BY <1>1, <1>9
  <2> QED BY <1>11, <2>1 DEF Part
<1>14. Specials(sk) = Specials(p) + Specials(u)
  <2>1. sk = SubSeq(sk, 1, n)
    <3> DEFINE v == SubSeq(sk, 1, n)
    <3>1. Part(v, sk, 1, n)
      <4>1. 1 \in 1 .. Len(sk) + 1 /\ n \in 1 - 1 .. Len(sk)
        BY <1>1 DEF n
      <4> QED BY <1>1, <4>1, PartAt
    <3> HIDE DEF v
    <3>2. IsText(v) /\ Len(v) = n /\ \A k \in 1 .. Len(v) : v[k] = sk[k]
      <4>1. n - 1 + 1 = n /\ \A k \in 1 .. n : 1 + k - 1 = k
        BY <1>1
      <4> QED BY <3>1, <4>1 DEF Part
    <3>3. v = sk
      BY <1>1, <3>2, TextEq DEF n
    <3> QED BY <3>3 DEF v
  <2>2. SubSeq(sk, 1, n) = SubSeq(sk, 1, (b + 1) - 1) \o u
    <3>1. /\ 1 \in 1 .. Len(sk) + 1 /\ b + 1 \in 1 .. Len(sk) + 1
          /\ n \in (b + 1) - 1 .. Len(sk)
      BY <1>1, <1>4, <1>9 DEF n
    <3> QED BY <1>1, <3>1, CutAt
  <2>3. (b + 1) - 1 = b
    BY <1>1, <1>9
  <2>4. sk = p \o u
    BY <2>1, <2>2, <2>3, Zenon
  <2> HIDE DEF p, u
  <2>5. Specials(p \o u) = Specials(p) + Specials(u)
    BY <1>12, <1>13, SpecialsJoin
  <2> QED BY <2>4, <2>5, Zenon
<1> HIDE DEF p, u
<1>15. Joined(s, u, AnswerPrefix) /\ IsText(AnswerPrefix)
  BY <1>13, TextAssumption, JoinAt
<1>16. Specials(s) = Specials(u)
  <2>1. IsText(AnswerPrefix) /\ \A i \in 1 .. Len(AnswerPrefix) : AnswerPrefix[i] \notin Special
    BY TextAssumption, TextIs
  <2>2. Specials(AnswerPrefix) = 0
    BY <2>1, SpecialsNone
  <2>3. Specials(s) = Specials(u) + Specials(AnswerPrefix) /\ Specials(u) \in Nat
    BY <1>13, <2>1, SpecialsJoin, SpotsAre
  <2> HIDE DEF s
  <2> QED BY <2>2, <2>3
<1> HIDE DEF s
<1>17. PrefixFits(p)
  <2> DEFINE x == Max(Where(p, ContextMark))
  <2>1. c \in 1 .. Len(p) /\ p[c] = ContextMark
    BY <1>1, <1>5, <1>9, <1>10, <1>12
  <2>2. x \in 1 .. Len(p) /\ p[x] = ContextMark
    BY <1>12, <2>1, MarkIs
  <2> HIDE DEF x
  <2>3. p[b] \in Special /\ b >= 1
    BY <1>1, <1>9, <1>12
  <2>4. ContextMark \notin Special
    BY TextAssumption
  <2>5. x \in 1 .. Len(p) - 1
    BY <1>1, <1>9, <1>12, <2>2, <2>3, <2>4
  <2>6. Closed(p)
    BY <1>12, <2>3 DEF Closed
  <2> QED BY <2>2, <2>5, <2>6 DEF PrefixFits, x
<1>18. SuffixFits(s)
  <2> DEFINE x == Max(Where(s, QuestionMark))
             e == LastSpecialEnd(s)
             l == Len(AnswerPrefix)
  <2>1. /\ IsText(s) /\ l \in Nat /\ Len(s) = (n - b) + l
        /\ \A k \in 1 .. n - b : s[k] = sk[b + k]
        /\ \A k \in 1 .. l : s[(n - b) + k] = AnswerPrefix[k]
    BY <1>13, <1>15 DEF Joined
  <2>2. l >= 1 /\ \A k \in 1 .. l : AnswerPrefix[k] \notin Special /\ AnswerPrefix[k] # QuestionMark
    <3>1. AnswerPrefix # <<>> /\ AnswerPrefix \in Seq(Range(AnswerPrefix)) /\ DOMAIN AnswerPrefix = 1 .. l
      BY <1>15, TextAssumption, TextIs
    <3>2. l # 0
      BY <3>1
    <3> QED BY <2>1, <3>1, <3>2, TextAssumption
  <2> HIDE DEF l
  <2>3. ASSUME NEW k \in 1 .. Len(s), s[k] \in Special \/ s[k] = QuestionMark PROVE k \in 1 .. n - b
    <3> SUFFICES ASSUME k \notin 1 .. n - b PROVE FALSE
      OBVIOUS
    <3> DEFINE j == k - (n - b)
    <3>1. j \in 1 .. l /\ k = (n - b) + j
      BY <1>1, <1>4, <1>9, <2>1
    <3> HIDE DEF j
    <3> QED BY <2>1, <2>2, <2>3, <3>1
  <2>4. m - b \in 1 .. Len(s) /\ s[m - b] = QuestionMark /\ z - b \in 1 .. Len(s) /\ s[z - b] \in Special
    <3>1. m - b \in 1 .. n - b /\ z - b \in 1 .. n - b /\ b + (m - b) = m /\ b + (z - b) = z
      BY <1>1, <1>4, <1>9, <1>10
    <3>2. s[m - b] = sk[m] /\ s[z - b] = sk[z]
      BY <2>1, <3>1
    <3>3. m - b \in 1 .. Len(s) /\ z - b \in 1 .. Len(s)
      BY <1>1, <1>9, <2>1, <3>1
    <3> QED BY <1>4, <1>10, <3>2, <3>3
  <2>5. x \in 1 .. Len(s) /\ s[x] = QuestionMark
    BY <2>1, <2>4, MarkIs
  <2>6. /\ e \in 0 .. Len(s) /\ (e # 0 => s[e] \in Special)
        /\ \A k \in 1 .. Len(s) : s[k] \in Special => k <= e
    BY <2>1, LastSpecialIs
  <2> HIDE DEF x, e
  <2>7. x \in 1 .. n - b /\ sk[b + x] = QuestionMark
    BY <2>1, <2>3, <2>5
  <2>8. b + x <= m
    <3>1. b + x \in 1 .. n
      BY <1>1, <1>4, <1>9, <2>7
    <3> QED BY <1>4, <2>7, <3>1
  <2>9. z - b <= e
    BY <2>4, <2>6
  <2>10. e \in 1 .. Len(s) /\ s[e] \in Special
    BY <1>1, <1>4, <1>9, <1>10, <2>6, <2>9
  <2>11. e \in 1 .. n - b
    BY <2>3, <2>10
  <2>12. x \in 1 .. e - 1 /\ e \in 1 .. Len(s) - 1
    BY <1>1, <1>4, <1>9, <1>10, <2>1, <2>2, <2>7, <2>8, <2>9, <2>11
  <2>13. \A k \in e + 1 .. Len(s) : s[k] \notin Special
    <3>1. \A k \in e + 1 .. Len(s) : k \in 1 .. Len(s) /\ ~(k <= e)
      BY <1>1, <1>9, <2>1, <2>10
    <3> QED BY <2>6, <3>1
  <2> QED BY <2>1, <2>5, <2>10, <2>12, <2>13, Zenon DEF SuffixFits, x, e
<1>19. Specials(sk) = Specials(p) + Specials(s)
  BY <1>14, <1>16, Zenon
<1> QED BY <1>1, <1>17, <1>18, <1>19, Zenon DEF b, p, s, u, n

-----------------------------------------------------------------------------
SlotText(c) == SubSeq(c.suffix, LastSpecialEnd(c.suffix) + 1, Len(c.suffix))

\* What a compiler is made of.
LEMMA CompilerFits ==
  ASSUME NEW c \in Compilers
  PROVE  /\ c.tokenizer \in Tokenizers /\ PrefixFits(c.prefix) /\ SuffixFits(c.suffix)
         /\ IsText(c.skeleton) /\ Specials(c.skeleton) = Specials(c.prefix) + Specials(c.suffix)
         /\ c.slot = Encode(c.tokenizer, SlotText(c)) /\ IsText(SlotText(c)) /\ Len(SlotText(c)) >= 1
         /\ \A k \in 1 .. Len(SlotText(c)) : SlotText(c)[k] \notin Special
         /\ IsRegistry(c.tokenizer, SlotText(c), [codes |-> c.codes, ids |-> c.ids])
         /\ Len(c.codes) >= MaxOptions
<1>1. PICK tok \in Tokenizers, skeleton \in Skeletons :
        c = PromptCompiler(tok, skeleton) /\ c # NoCompiler
  BY DEF Compilers
<1> DEFINE b == Boundary(skeleton)
           suffix == SubSeq(skeleton, b + 1, Len(skeleton)) \o AnswerPrefix
           tail == SubSeq(suffix, LastSpecialEnd(suffix) + 1, Len(suffix))
           registry == Registry(tok, tail)
           made == [ok |-> TRUE, tokenizer |-> tok, skeleton |-> skeleton,
                    prefix |-> SubSeq(skeleton, 1, b), suffix |-> suffix,
                    slot |-> Encode(tok, tail), codes |-> registry.codes, ids |-> registry.ids]
           good == TemplateIsLegal(skeleton) /\ Len(registry.codes) >= MaxOptions
<1>2. c = made /\ good
  <2>1. c = IF good THEN made ELSE NoCompiler
    BY <1>1, Zenon DEF PromptCompiler, Registry, NoCodes
  <2> HIDE DEF made, good
  <2> QED BY <1>1, <2>1, Zenon
<1>3. /\ c.tokenizer = tok /\ c.skeleton = skeleton /\ c.prefix = SubSeq(skeleton, 1, b)
      /\ c.suffix = suffix /\ c.slot = Encode(tok, tail)
      /\ c.codes = registry.codes /\ c.ids = registry.ids
  <2>1. /\ made.tokenizer = tok /\ made.skeleton = skeleton /\ made.prefix = SubSeq(skeleton, 1, b)
        /\ made.suffix = suffix /\ made.slot = Encode(tok, tail)
        /\ made.codes = registry.codes /\ made.ids = registry.ids
    <3> HIDE DEF b, suffix, tail, registry
    <3> QED OBVIOUS
  <2> HIDE DEF made
  <2> QED BY <1>2, <2>1, Zenon
<1>4. /\ PrefixFits(SubSeq(skeleton, 1, b)) /\ SuffixFits(suffix) /\ IsText(skeleton)
      /\ Specials(skeleton) = Specials(SubSeq(skeleton, 1, b)) + Specials(suffix)
  BY <1>2, TemplateFits, Zenon
<1>5. SlotText(c) = tail
  BY <1>3, Zenon DEF SlotText
<1>6. Len(registry.codes) >= MaxOptions
  BY <1>2
<1> HIDE DEF made, good, suffix
<1>7. IsText(tail) /\ Len(tail) >= 1 /\ \A k \in 1 .. Len(tail) : tail[k] \notin Special
  <2> DEFINE e == LastSpecialEnd(suffix)
  <2>1. /\ IsText(suffix) /\ e \in 1 .. Len(suffix) - 1
        /\ \A k \in e + 1 .. Len(suffix) : suffix[k] \notin Special
    BY <1>4, Zenon DEF SuffixFits
  <2>2. Len(suffix) \in Nat
    BY <2>1, TextIs
  <2> DEFINE l == Len(suffix)
  <2> HIDE DEF e
  <2>3. Part(SubSeq(suffix, e + 1, l), suffix, e + 1, l)
    <3>1. e + 1 \in 1 .. Len(suffix) + 1 /\ l \in (e + 1) - 1 .. Len(suffix)
      BY <2>1, <2>2
    <3> QED BY <2>1, <3>1, PartAt
  <2> DEFINE v == SubSeq(suffix, e + 1, l)
  <2> HIDE DEF v
  <2>4. Part(v, suffix, e + 1, l)
    BY <2>3 DEF v
  <2> HIDE DEF l
  <2>5. l \in Nat /\ e \in 1 .. l - 1
    BY <2>1, <2>2 DEF l
  <2>6. IsText(v) /\ Len(v) = l - e /\ \A k \in 1 .. l - e : v[k] = suffix[e + k]
    <3>1. l - (e + 1) + 1 = l - e /\ \A k \in 1 .. l - e : (e + 1) + k - 1 = e + k
      BY <2>5
    <3> QED BY <2>4, <3>1 DEF Part
  <2>7. Len(v) >= 1
    BY <2>5, <2>6
  <2>8. ASSUME NEW k \in 1 .. Len(v) PROVE v[k] \notin Special
    <3>1. e + k \in e + 1 .. l /\ v[k] = suffix[e + k]
      BY <2>5, <2>6
    <3> QED BY <2>1, <3>1 DEF l
  <2> QED BY <2>6, <2>7, <2>8 DEF v, e, l
<1> HIDE DEF tail
<1>8. IsRegistry(tok, tail, registry)
  BY <1>7, RegistryHolds
<1>9. IsRegistry(tok, tail, [codes |-> c.codes, ids |-> c.ids])
  <2> DEFINE r == [codes |-> c.codes, ids |-> c.ids]
  <2>1. r.codes = registry.codes /\ r.ids = registry.ids
    BY <1>3
  <2> HIDE DEF r, registry
  <2>2. IsRegistry(tok, tail, r)
    BY <1>8, <2>1, Zenon DEF IsRegistry
  <2> QED BY <2>2, Zenon DEF r
<1> HIDE DEF registry
<1> QED BY <1>3, <1>4, <1>5, <1>6, <1>7, <1>9, Zenon

-----------------------------------------------------------------------------
(* The texts of a request. *)

\* What is quoted begins with the quote and has no special token.
LEMMA DataIs ==
  ASSUME NEW t, IsText(t)
  PROVE  /\ IsText(AsData(t)) /\ Len(AsData(t)) >= 1 /\ AsData(t)[1] = Quote
         /\ Specials(AsData(t)) = 0
<1> DEFINE inside == [i \in DOMAIN t |-> IF t[i] \in Special THEN Escape ELSE t[i]]
           q == <<Quote>>
           v == q \o inside
           w == v \o q
<1>1. DOMAIN t = 1 .. Len(t) /\ Len(t) \in Nat
  BY TextIs
<1>2. Quote \notin Special /\ Escape \notin Special
  BY TextAssumption
<1>3. IsText(inside) /\ \A i \in 1 .. Len(inside) : inside[i] \notin Special
  <2>1. \A i \in 1 .. Len(t) : inside[i] \notin Special
    BY <1>1, <1>2
  <2>2. inside = [i \in 1 .. Len(t) |-> inside[i]]
    BY <1>1, Zenon
  <2> HIDE DEF inside
  <2>3. IsText(inside) /\ Len(inside) = Len(t)
    BY <1>1, <2>2, TextFcn
  <2> QED BY <2>1, <2>3
<1>4. AsData(t) = w
  BY Zenon DEF AsData
<1>5. IsText(q) /\ Len(q) = 1 /\ q[1] = Quote
  BY TextOne
<1>6. Specials(q) = 0
  BY <1>2, SpecialsOne
<1> HIDE DEF inside, q
<1>7. Specials(inside) = 0
  BY <1>3, SpecialsNone
<1>8. Joined(v, q, inside)
  BY <1>3, <1>5, JoinAt
<1>9. Specials(v) = Specials(q) + Specials(inside)
  BY <1>3, <1>5, SpecialsJoin
<1> HIDE DEF v
<1>10. IsText(v) /\ Len(v) >= 1 /\ 1 \in 1 .. Len(v) /\ v[1] = Quote
  BY <1>5, <1>8 DEF Joined
<1>11. Joined(w, v, q)
  BY <1>5, <1>10, JoinAt
<1>12. Specials(w) = Specials(v) + Specials(q)
  BY <1>5, <1>10, SpecialsJoin
<1> HIDE DEF w
<1>13. IsText(w) /\ Len(w) >= 1 /\ w[1] = Quote
  BY <1>5, <1>10, <1>11 DEF Joined
<1>14. Specials(w) = 0
  BY <1>6, <1>7, <1>9, <1>12
<1> QED BY <1>4, <1>13, <1>14

\* A mark that is to be replaced, in a text that goes on behind place e.
Marked(s, mark, e) ==
    /\ IsText(s) /\ mark \notin Special
    /\ Max(Where(s, mark)) \in 1 .. Len(s) /\ s[Max(Where(s, mark))] = mark
    /\ e \in Max(Where(s, mark)) + 1 .. Len(s) /\ s[e] \in Special

\* What the text by in its place makes of the text up to e: a closed text.
Opened(a, s, mark, e, by) ==
    /\ Closed(a) /\ Replace(s, mark, by) = a \o SubSeq(s, e + 1, Len(s))
    /\ a[1] = IF Max(Where(s, mark)) = 1 THEN by[1] ELSE s[1]
    /\ Specials(a) + Specials(SubSeq(s, e + 1, Len(s))) = Specials(s) + Specials(by)

LEMMA ReplaceIs ==
  ASSUME NEW s, NEW mark, NEW e, Marked(s, mark, e), NEW by, IsText(by), Len(by) >= 1
  PROVE  \E a : Opened(a, s, mark, e, by)
<1> DEFINE m == Max(Where(s, mark))
           n == Len(s)
           x == SubSeq(s, 1, m - 1)
           y == SubSeq(s, m + 1, e)
           z == SubSeq(s, e + 1, n)
           o == SubSeq(s, m, m)
           r == SubSeq(s, m + 1, n)
           f == x \o by
           a == f \o y
<1>0. IsText(s) /\ mark \notin Special /\ s[e] \in Special
  BY DEF Marked
<1>1. n \in Nat /\ m \in 1 .. n /\ e \in m + 1 .. n /\ s[m] = mark
  BY <1>0, TextIs DEF Marked
<1> USE <1>0
<1>2. Replace(s, mark, by) = f \o r
  BY Zenon DEF Replace
<1> HIDE DEF m
<1>3. /\ Part(x, s, 1, m - 1) /\ Part(y, s, m + 1, e) /\ Part(z, s, e + 1, n)
      /\ Part(o, s, m, m) /\ Part(r, s, m + 1, n)
  <2>1. /\ 1 \in 1 .. Len(s) + 1 /\ m - 1 \in 1 - 1 .. Len(s)
        /\ m + 1 \in 1 .. Len(s) + 1 /\ e \in (m + 1) - 1 .. Len(s)
        /\ e + 1 \in 1 .. Len(s) + 1 /\ n \in (e + 1) - 1 .. Len(s) /\ n \in (m + 1) - 1 .. Len(s)
        /\ m \in 1 .. Len(s) + 1 /\ m \in m - 1 .. Len(s)
    BY <1>1
  <2> HIDE DEF n
  <2> QED BY <2>1, PartAt
<1>4. r = y \o z
  <2>1. /\ m + 1 \in 1 .. Len(s) + 1 /\ e + 1 \in m + 1 .. Len(s) + 1 /\ n \in (e + 1) - 1 .. Len(s)
        /\ (e + 1) - 1 = e
    BY <1>1
  <2> HIDE DEF n
  <2>2. SubSeq(s, m + 1, n) = SubSeq(s, m + 1, (e + 1) - 1) \o SubSeq(s, e + 1, n)
    BY <2>1, CutAt
  <2> QED BY <2>1, <2>2
<1>5. Specials(s) = Specials(x) + Specials(o) + Specials(r)
  <2> DEFINE w == SubSeq(s, 1, n)
             v == SubSeq(s, m, n)
  <2>1. w = s
    <3>1. Part(w, s, 1, n)
      <4>1. 1 \in 1 .. Len(s) + 1 /\ n \in 1 - 1 .. Len(s)
        BY <1>1
      <4> QED BY <4>1, PartAt
    <3> HIDE DEF w
    <3>2. IsText(w) /\ Len(w) = n /\ \A k \in 1 .. Len(w) : w[k] = s[k]
      <4>1. n - 1 + 1 = n /\ \A k \in 1 .. n : 1 + k - 1 = k
        BY <1>1
      <4> QED BY <3>1, <4>1 DEF Part
    <3> QED BY <1>1, <3>2, TextEq
  <2>2. Part(v, s, m, n)
    <3>1. m \in 1 .. Len(s) + 1 /\ n \in m - 1 .. Len(s)
      BY <1>1
    <3> QED BY <3>1, PartAt
  <2>3. w = x \o v
    <3>1. 1 \in 1 .. Len(s) + 1 /\ m \in 1 .. Len(s) + 1 /\ n \in m - 1 .. Len(s)
      BY <1>1
    <3> QED BY <3>1, CutAt
  <2>4. v = o \o r
    <3>1. /\ m \in 1 .. Len(s) + 1 /\ m + 1 \in m .. Len(s) + 1 /\ n \in (m + 1) - 1 .. Len(s)
          /\ (m + 1) - 1 = m
      BY <1>1
    <3>2. SubSeq(s, m, n) = SubSeq(s, m, (m + 1) - 1) \o SubSeq(s, m + 1, n)
      <4> HIDE DEF n
      <4> QED BY <3>1, CutAt
    <3> QED BY <3>1, <3>2
  <2> HIDE DEF w, v, x, o, r
  <2>5. IsText(x) /\ IsText(v) /\ IsText(o) /\ IsText(r)
    BY <1>3, <2>2 DEF Part
  <2>6. /\ Specials(x \o v) = Specials(x) + Specials(v)
        /\ Specials(o \o r) = Specials(o) + Specials(r)
        /\ Specials(x) \in Nat /\ Specials(o) \in Nat /\ Specials(r) \in Nat
    BY <2>5, SpecialsJoin, SpotsAre
  <2>7. Specials(s) = Specials(x) + Specials(v) /\ Specials(v) = Specials(o) + Specials(r)
    BY <2>1, <2>3, <2>4, <2>6, Zenon
  <2> QED BY <2>6, <2>7
<1> HIDE DEF x, y, z, o, r, n
<1>6. Specials(o) = 0
  <2>1. IsText(o) /\ Len(o) = 1 /\ o[1] = mark
    <3>1. m - m + 1 = 1 /\ m + 1 - 1 = m /\ 1 \in 1 .. 1
      BY <1>1
    <3> QED BY <1>1, <1>3, <3>1 DEF Part
  <2> QED BY <2>1, SpecialsNone
<1>7. IsText(x) /\ IsText(y) /\ IsText(z)
  BY <1>3 DEF Part
<1>8. Closed(y)
  <2>1. Len(y) = e - m /\ y[e - m] = s[e] /\ e - m >= 1
    <3>1. e - (m + 1) + 1 = e - m /\ e - m \in 1 .. e - m /\ m + 1 + (e - m) - 1 = e
      BY <1>1
    <3>2. Len(y) = e - m /\ y[e - m] = s[e]
      BY <1>3, <3>1 DEF Part
    <3> QED BY <3>1, <3>2
  <2> QED BY <1>7, <2>1 DEF Closed
<1>9. Joined(f, x, by)
  BY <1>7, JoinAt
<1>10. IsText(f) /\ Len(f) >= 1 /\ f[1] = IF m = 1 THEN by[1] ELSE s[1]
  <2>1. Len(x) = m - 1 /\ \A k \in 1 .. m - 1 : x[k] = s[k]
    <3>1. m - 1 - 1 + 1 = m - 1 /\ \A k \in 1 .. m - 1 : 1 + k - 1 = k
      BY <1>1
    <3> QED BY <1>3, <3>1 DEF Part
  <2>2. IsText(f) /\ Len(f) >= 1
    BY <1>7, <1>9 DEF Joined
  <2>3. CASE m = 1
    <3>1. Len(x) + 1 = 1 /\ 1 \in 1 .. Len(by)
      BY <1>9, <2>1, <2>3 DEF Joined
    <3> QED BY <1>9, <2>2, <2>3, <3>1 DEF Joined
  <2>4. CASE m # 1
    <3>1. 1 \in 1 .. Len(x) /\ 1 \in 1 .. m - 1
      BY <1>1, <2>1, <2>4
    <3> QED BY <1>9, <2>1, <2>2, <2>4, <3>1 DEF Joined
  <2> QED BY <2>3, <2>4
<1>11. Joined(a, f, y) /\ Closed(a)
  BY <1>7, <1>8, <1>10, JoinAt, ClosedJoin
<1>12. a[1] = f[1]
  <2> HIDE DEF a
  <2>1. 1 \in 1 .. Len(f)
    BY <1>11 , <1>10 DEF Joined
  <2> QED BY <1>11, <2>1 DEF Joined
<1>13. f \o r = a \o z
  <2>1. IsText(f) /\ IsText(y) /\ IsText(z)
    BY <1>7, <1>10
  <2> HIDE <1>0 DEF f
  <2>2. (f \o y) \o z = f \o (y \o z)
    BY <2>1, JoinAssoc, SMTT(100)
  <2> QED BY <1>4, <2>2, Zenon DEF a
<1>14. Specials(a) + Specials(z) = Specials(s) + Specials(by)
  <2>1. /\ Specials(f) = Specials(x) + Specials(by) /\ Specials(a) = Specials(f) + Specials(y)
        /\ Specials(y \o z) = Specials(y) + Specials(z)
        /\ Specials(x) \in Nat /\ Specials(by) \in Nat /\ Specials(y) \in Nat /\ Specials(z) \in Nat
    BY <1>7, <1>10, SpecialsJoin, SpotsAre
  <2>2. Specials(r) = Specials(y) + Specials(z)
    BY <1>4, <2>1
  <2> HIDE DEF f, a
  <2> QED BY <1>5, <1>6, <2>1, <2>2
<1> HIDE DEF a, f
<1>15. /\ Closed(a) /\ Replace(s, mark, by) = a \o z /\ a[1] = IF m = 1 THEN by[1] ELSE s[1]
       /\ Specials(a) + Specials(z) = Specials(s) + Specials(by)
  BY <1>2, <1>10, <1>11, <1>12, <1>13, <1>14
<1>16. Opened(a, s, mark, e, by)
  BY <1>15, Zenon DEF Opened, z, n, m
<1> QED BY <1>16

\* The prefix of a document.
LEMMA PrefixTextIs ==
  ASSUME NEW c \in Compilers, NEW d, IsText(d)
  PROVE  Closed(PrefixText(c, d)) /\ Specials(PrefixText(c, d)) = Specials(c.prefix)
<1> DEFINE s == c.prefix
           m == Max(Where(s, ContextMark))
           by == AsData(d)
           e == Len(s)
           z == SubSeq(s, e + 1, Len(s))
<1>1. Closed(s) /\ m \in 1 .. Len(s) - 1 /\ s[m] = ContextMark
  BY CompilerFits, Zenon DEF PrefixFits
<1>2. IsText(s) /\ Len(s) \in Nat /\ s[Len(s)] \in Special
  BY <1>1, TextIs DEF Closed
<1>3. IsText(by) /\ Len(by) >= 1 /\ Specials(by) = 0
  BY DataIs
<1>4. ContextMark \notin Special
  BY TextAssumption
<1> HIDE DEF s, by
<1>5. m \in 1 .. Len(s) /\ e \in m + 1 .. Len(s) /\ s[e] \in Special
  <2> HIDE DEF m
  <2> QED BY <1>1, <1>2
<1> HIDE DEF e
<1>b. PICK a : Opened(a, s, ContextMark, e, by)
  <2>1. /\ Max(Where(s, ContextMark)) \in 1 .. Len(s)
        /\ s[Max(Where(s, ContextMark))] = ContextMark
        /\ e \in Max(Where(s, ContextMark)) + 1 .. Len(s)
    BY <1>1, <1>5, Zenon
  <2>2. Marked(s, ContextMark, e)
    BY <1>2, <1>4, <1>5, <2>1, Zenon DEF Marked
  <2> QED BY <1>3, <2>2, ReplaceIs, Zenon
<1>6. /\ Closed(a) /\ Replace(s, ContextMark, by) = a \o z
      /\ Specials(a) + Specials(z) = Specials(s) + Specials(by)
  BY <1>b, Zenon DEF Opened
<1>7. IsText(z) /\ Len(z) = 0
  <2>1. Part(z, s, e + 1, Len(s))
    <3>1. e + 1 \in 1 .. Len(s) + 1 /\ Len(s) \in (e + 1) - 1 .. Len(s)
      BY <1>2 DEF e
    <3> QED BY <1>2, <3>1, PartAt
  <2> HIDE DEF z
  <2>2. Len(s) - (e + 1) + 1 = 0
    BY <1>2 DEF e
  <2> QED BY <2>1, <2>2 DEF Part
<1> HIDE DEF z
<1>8. z = <<>>
  BY <1>7, TextNone, TextEq
<1>9. a \o z = a
  BY <1>6, <1>8, JoinNone DEF Closed
<1>10. Specials(z) = 0 /\ Specials(a) \in Nat /\ Specials(s) \in Nat
  BY <1>2, <1>6, <1>7, SpecialsNone, SpotsAre DEF Closed
<1>11. PrefixText(c, d) = a
  BY <1>6, <1>9, Zenon DEF PrefixText, s, by
<1>12. Specials(a) = Specials(s)
  BY <1>3, <1>6, <1>10
<1> QED BY <1>6, <1>11, <1>12 DEF s

\* A question that may be asked.
IsQuestion(q) == IsText(q.text) /\ q.options \in 0 .. MaxOptions

\* The codes of a question are in the registry: each adds its own token to the
\* slot, and no two add the same.
LEMMA CodesAre ==
  ASSUME NEW c \in Compilers, NEW q, IsQuestion(q)
  PROVE  /\ Part(SubSeq(c.codes, 1, q.options), c.codes, 1, q.options)
         /\ q.options \in Nat /\ q.options <= Len(c.codes) /\ c.ids = c.codes
         /\ \A k \in 1 .. Len(c.codes) :
               /\ IsText(c.codes[k])
               /\ Encode(c.tokenizer, SlotText(c) \o c.codes[k])
                     = Append(Encode(c.tokenizer, SlotText(c)), c.ids[k])
               /\ \A j \in 1 .. Len(c.codes) : c.ids[j] = c.ids[k] => j = k
<1> DEFINE r == [codes |-> c.codes, ids |-> c.ids]
           o == q.options
<1>1. IsRegistry(c.tokenizer, SlotText(c), r) /\ Len(c.codes) >= MaxOptions
  BY CompilerFits
<1>2. r.codes = c.codes /\ r.ids = c.ids
  OBVIOUS
<1> HIDE DEF r
<1>3. /\ c.codes \in Seq(Range(CodeCandidates)) /\ c.ids = c.codes
      /\ \A k \in 1 .. Len(c.codes) :
            /\ IsText(c.codes[k])
            /\ Encode(c.tokenizer, SlotText(c) \o c.codes[k])
                  = Append(Encode(c.tokenizer, SlotText(c)), c.codes[k])
            /\ \A j \in 1 .. Len(c.codes) : c.codes[j] = c.codes[k] => j = k
  BY <1>1, <1>2, Zenon DEF IsRegistry
<1>4. IsText(c.codes) /\ Len(c.codes) \in Nat
  BY <1>3, TextOf
<1>5. o \in Nat /\ o <= Len(c.codes)
  <2>1. o \in 0 .. MaxOptions /\ MaxOptions \in Nat
    BY TextAssumption DEF IsQuestion
  <2> HIDE DEF o
  <2> QED BY <1>1, <1>4, <2>1
<1> HIDE DEF o
<1>6. Part(SubSeq(c.codes, 1, o), c.codes, 1, o)
  <2>1. 1 \in 1 .. Len(c.codes) + 1 /\ o \in 1 - 1 .. Len(c.codes)
    BY <1>4, <1>5
  <2> QED BY <1>4, <2>1, PartAt
<1> QED BY <1>3, <1>5, <1>6, Zenon DEF o

\* The suffix of a question: a closed text, and the tail of every suffix.  They
\* all begin alike.
LEMMA SuffixIsText ==
  ASSUME NEW c \in Compilers, NEW q, IsQuestion(q)
  PROVE  \E a : /\ Closed(a) /\ Suffix(c, q) = a \o SlotText(c)
                /\ a[1] = IF Max(Where(c.suffix, QuestionMark)) = 1 THEN Quote ELSE c.suffix[1]
                /\ Specials(Suffix(c, q)) = Specials(c.suffix)
<1> DEFINE s == c.suffix
           m == Max(Where(s, QuestionMark))
           e == LastSpecialEnd(s)
           codes == SubSeq(c.codes, 1, q.options)
           by == AsData(q.text \o FlattenSeq(codes))
           z == SubSeq(s, e + 1, Len(s))
<1>1. IsText(codes) /\ \A i \in 1 .. Len(codes) : IsText(codes[i])
  <2>1. Part(codes, c.codes, 1, q.options) /\ q.options \in Nat /\ q.options <= Len(c.codes)
    BY CodesAre
  <2>2. \A k \in 1 .. Len(c.codes) : IsText(c.codes[k])
    BY CodesAre
  <2>3. IsText(c.codes) /\ Len(c.codes) \in Nat
    <3> DEFINE r == [codes |-> c.codes, ids |-> c.ids]
    <3>1. r.codes \in Seq(Range(CodeCandidates))
      <4>1. IsRegistry(c.tokenizer, SlotText(c), r)
        BY CompilerFits
      <4> HIDE DEF r
      <4> QED BY <4>1, Zenon DEF IsRegistry
    <3>2. c.codes \in Seq(Range(CodeCandidates))
      BY <3>1
    <3> QED BY <3>2, TextOf
  <2> HIDE DEF codes
  <2> DEFINE o == q.options
  <2>4. Part(codes, c.codes, 1, o) /\ o \in Nat /\ o <= Len(c.codes)
    BY <2>1
  <2> HIDE DEF o
  <2>5. IsText(codes) /\ Len(codes) = o /\ \A k \in 1 .. o : codes[k] = c.codes[k]
    <3>1. o - 1 + 1 = o /\ \A k \in 1 .. o : 1 + k - 1 = k
      BY <2>4
    <3> QED BY <2>4, <3>1 DEF Part
  <2>6. \A k \in 1 .. o : k \in 1 .. Len(c.codes)
    BY <2>3, <2>4
  <2> QED BY <2>2, <2>5, <2>6
<1> HIDE DEF codes
<1>2. IsText(FlattenSeq(codes))
  BY <1>1, FlatText
<1>3. IsText(q.text \o FlattenSeq(codes))
  <2>1. IsText(q.text)
    BY DEF IsQuestion
  <2> QED BY <1>2, <2>1, TextJoin
<1>4. IsText(by) /\ Len(by) >= 1 /\ by[1] = Quote /\ Specials(by) = 0
  BY <1>3, DataIs
<1>5. /\ IsText(s) /\ m \in 1 .. e - 1 /\ s[m] = QuestionMark
      /\ e \in 1 .. Len(s) - 1 /\ s[e] \in Special
  BY CompilerFits, Zenon DEF SuffixFits
<1>6. Len(s) \in Nat /\ QuestionMark \notin Special
  BY <1>5, TextIs, TextAssumption
<1>7. Suffix(c, q) = Replace(s, QuestionMark, by)
  BY Zenon DEF Suffix, codes
<1>8. SlotText(c) = z /\ IsText(z)
  <2>1. SlotText(c) = z
    BY Zenon DEF SlotText
  <2> QED BY <2>1, CompilerFits, Zenon
<1> HIDE DEF s, by, e, z
<1>9. m \in 1 .. Len(s) /\ e \in m + 1 .. Len(s)
  <2> HIDE DEF m
  <2> QED BY <1>5, <1>6
<1>a. PICK a : Opened(a, s, QuestionMark, e, by)
  <2>1. /\ Max(Where(s, QuestionMark)) \in 1 .. Len(s)
        /\ s[Max(Where(s, QuestionMark))] = QuestionMark
        /\ e \in Max(Where(s, QuestionMark)) + 1 .. Len(s)
    BY <1>5, <1>9, Zenon
  <2>2. Marked(s, QuestionMark, e)
    BY <1>5, <1>6, <2>1, Zenon DEF Marked
  <2> QED BY <1>4, <2>2, ReplaceIs, Zenon
<1>10. /\ Closed(a) /\ Replace(s, QuestionMark, by) = a \o SubSeq(s, e + 1, Len(s))
       /\ a[1] = IF m = 1 THEN by[1] ELSE s[1]
       /\ Specials(a) + Specials(SubSeq(s, e + 1, Len(s))) = Specials(s) + Specials(by)
  BY <1>a, Zenon DEF Opened
<1>11. Suffix(c, q) = a \o SlotText(c)
  BY <1>7, <1>8, <1>10, Zenon DEF z
<1>12. Specials(Suffix(c, q)) = Specials(s)
  <2>1. IsText(a)
    BY <1>10 DEF Closed
  <2>2. Specials(a \o z) = Specials(a) + Specials(z) /\ Specials(s) \in Nat
    BY <1>5, <1>8, <2>1, SpecialsJoin, SpotsAre
  <2>3. Specials(a) + Specials(z) = Specials(s) + 0
    BY <1>4, <1>10, Zenon DEF z
  <2> QED BY <1>8, <1>11, <2>2, <2>3
<1>13. a[1] = IF m = 1 THEN Quote ELSE s[1]
  BY <1>4, <1>10
<1> QED BY <1>10, <1>11, <1>12, <1>13, Zenon DEF s, m

-----------------------------------------------------------------------------
(* The whole prompt. *)

\* What the check of the probe comes to for every other request.
LEMMA PromptIsWhole ==
  ASSUME NEW c \in Compilers, Verified(c), NEW d, IsText(d), NEW q, IsQuestion(q), SlotIsKept(c, q)
  PROVE  LET whole == Encode(c.tokenizer, Render(c, d, q))
         IN  /\ PrefixIds(c, d) \o SuffixIds(c, q) = whole
             /\ \A k \in 1 .. q.options :
                   Encode(c.tokenizer, Render(c, d, q) \o c.codes[k]) = Append(whole, c.ids[k])
             /\ Specials(Heads(whole)) = Specials(c.skeleton)
<1> DEFINE tok == c.tokenizer
           p == PrefixText(c, d)
           s == Suffix(c, q)
           p0 == PrefixText(c, Probe.context)
           s0 == Suffix(c, Probe.question)
           t == SlotText(c)
           q0 == Probe.question
           first == IF Max(Where(c.suffix, QuestionMark)) = 1 THEN Quote ELSE c.suffix[1]
<1>1. tok \in Tokenizers /\ IsText(t) /\ Len(t) >= 1 /\ \A k \in 1 .. Len(t) : t[k] \notin Special
  BY CompilerFits
<1>2. IsText(Probe.context) /\ IsQuestion(q0)
  BY TextAssumption DEF IsQuestion
<1>3. Closed(p) /\ Closed(p0) /\ Specials(p) = Specials(c.prefix)
  BY <1>2, PrefixTextIs
<1>4. PICK a : Closed(a) /\ s = a \o t /\ a[1] = first /\ Specials(s) = Specials(c.suffix)
  BY SuffixIsText, Zenon
<1>5. PICK a0 : Closed(a0) /\ s0 = a0 \o t /\ a0[1] = first
  BY <1>2, SuffixIsText, Zenon
<1> HIDE DEF first, t
<1>6. Encode(tok, p0 \o s0) = Encode(tok, p0) \o Encode(tok, s0)
  BY Zenon DEF Verified, Render, PrefixIds, SuffixIds
<1>7. IsSuffix(Encode(tok, t), Encode(tok, s))
  <2>1. c.slot = Encode(tok, t)
    BY CompilerFits, Zenon DEF t
  <2> QED BY <2>1, Zenon DEF SlotIsKept, SuffixIds
<1>8. Specials(c.skeleton) = Specials(c.prefix) + Specials(c.suffix)
  BY CompilerFits
<1>9. \A k \in 1 .. q.options :
        IsText(c.codes[k]) /\ Encode(tok, t \o c.codes[k]) = Append(Encode(tok, t), c.ids[k])
  <2> DEFINE o == q.options
             n == Len(c.codes)
  <2>1. o \in Nat /\ o <= n /\ n \in Nat
    <3>1. o \in Nat /\ o <= n
      BY CodesAre
    <3>2. n >= MaxOptions /\ MaxOptions \in Nat
      BY CompilerFits, TextAssumption
    <3>3. n \in Nat
      <4> DEFINE r == [codes |-> c.codes, ids |-> c.ids]
      <4>1. IsRegistry(c.tokenizer, SlotText(c), r)
        BY CompilerFits
      <4> HIDE DEF r
      <4>2. r.codes \in Seq(Range(CodeCandidates))
        BY <4>1, Zenon DEF IsRegistry
      <4>3. c.codes \in Seq(Range(CodeCandidates))
        BY <4>2 DEF r
      <4> QED BY <4>3, TextOf
    <3> QED BY <3>1, <3>3
  <2>2. \A k \in 1 .. n :
          IsText(c.codes[k]) /\ Encode(tok, t \o c.codes[k]) = Append(Encode(tok, t), c.ids[k])
    BY CodesAre, Zenon DEF t
  <2> HIDE DEF o, n
  <2>3. \A k \in 1 .. o : k \in 1 .. n
    BY <2>1
  <2>4. \A k \in 1 .. o :
          IsText(c.codes[k]) /\ Encode(tok, t \o c.codes[k]) = Append(Encode(tok, t), c.ids[k])
    BY <2>2, <2>3, Zenon
  <2> QED BY <2>4, Zenon DEF o
<1>a. Render(c, d, q) = p \o s /\ PrefixIds(c, d) = Encode(tok, p) /\ SuffixIds(c, q) = Encode(tok, s)
  BY Zenon DEF Render, PrefixIds, SuffixIds
<1> HIDE DEF tok, p, s, p0, s0
<1>10. /\ IsText(s) /\ Len(s) >= 1 /\ s[1] = first
       /\ IsText(s0) /\ Len(s0) >= 1 /\ s0[1] = first
  <2>1. ASSUME NEW x, Closed(x), x[1] = first
        PROVE  IsText(x \o t) /\ Len(x \o t) >= 1 /\ (x \o t)[1] = first
    <3> DEFINE y == x \o t
    <3>1. IsText(x) /\ Len(x) \in Nat /\ Len(x) >= 1
      BY <2>1, TextIs DEF Closed
    <3>2. Joined(y, x, t)
      BY <1>1, <3>1, JoinAt
    <3> HIDE DEF y
    <3>3. 1 \in 1 .. Len(x)
      BY <3>1
    <3>4. IsText(y) /\ Len(y) >= 1 /\ y[1] = first
      BY <2>1, <3>1, <3>2, <3>3 DEF Joined
    <3> QED BY <3>4 DEF y
  <2> QED BY <1>4, <1>5, <2>1
<1>11. Encode(tok, p \o s) = Encode(tok, p) \o Encode(tok, s)
  <2>1. s[1] = s0[1]
    BY <1>10
  <2>2. Apart(tok, p0, s0)
    BY <1>6, Zenon DEF Apart
  <2>3. Apart(tok, p, s)
    BY <1>1, <1>3, <1>10, <2>1, <2>2, ApartOnce, Zenon
  <2> QED BY <2>3, Zenon DEF Apart
<1>12. Behind(tok, t) = Encode(tok, t)
  <2>1. IsSuffix(Encode(tok, t), Encode(tok, a \o t))
    BY <1>4, <1>7
  <2> QED BY <1>1, <1>4, <2>1, SlotApart
<1>13. IsText(p) /\ IsText(a) /\ Closed(p \o a) /\ p \o s = (p \o a) \o t
  <2>1. IsText(p) /\ IsText(a)
    BY <1>3, <1>4 DEF Closed
  <2>2. Closed(p \o a)
    BY <1>4, <2>1, ClosedJoin
  <2>3. (p \o a) \o t = p \o (a \o t)
    BY <1>1, <2>1, JoinAssoc, SMTT(100)
  <2> QED BY <1>4, <2>1, <2>2, <2>3
<1>14. ASSUME NEW k \in 1 .. q.options
       PROVE  Encode(tok, (p \o s) \o c.codes[k]) = Append(Encode(tok, p \o s), c.ids[k])
  <2> DEFINE code == c.codes[k]
             id == c.ids[k]
             x == p \o a
  <2>1. AddsOne(tok, t, code, id)
    BY <1>9, Zenon DEF AddsOne
  <2>2. Closed(x) /\ p \o s = x \o t
    BY <1>13
  <2> HIDE DEF code, id, x
  <2>3. AddsOne(tok, x \o t, code, id)
    BY <1>1, <1>12, <2>1, <2>2, CodeAdds, Zenon
  <2>4. Encode(tok, (x \o t) \o code) = Append(Encode(tok, x \o t), id)
    BY <2>3, Zenon DEF AddsOne
  <2> QED BY <2>2, <2>4, Zenon DEF code, id
<1>15. Specials(Heads(Encode(tok, p \o s))) = Specials(c.skeleton)
  <2>1. IsText(p \o s) /\ Specials(p \o s) = Specials(p) + Specials(s)
    BY <1>10, <1>13, TextJoin, SpecialsJoin
  <2>2. Specials(Heads(Encode(tok, p \o s))) = Specials(p \o s)
    BY <1>1, <2>1, EncodedSpecials
  <2> QED BY <1>3, <1>4, <1>8, <2>1, <2>2, Zenon
<1> QED BY <1>a, <1>11, <1>14, <1>15, Zenon DEF tok

-----------------------------------------------------------------------------
\* Whatever the compiler and the document, the prefix has a number of tokens.
LEMMA PrefixCounts ==
  ASSUME NEW c \in Compilers, NEW d \in Document
  PROVE  Len(PrefixOf[c][d].ids) \in Nat
<1>1. IsText(PrefixText(c, d)) /\ c.tokenizer \in Tokenizers
  BY CacheAssumption, CompilerFits, PrefixTextIs DEF Closed
<1>2. Len(PrefixIds(c, d)) \in Nat
  BY <1>1, BehindIs, TextIs DEF PrefixIds
<1>3. PrefixOf[c][d] = [key |-> PrefixText(c, d), ids |-> PrefixIds(c, d)]
  BY Zenon DEF PrefixOf
<1>4. PrefixOf[c][d].ids = PrefixIds(c, d)
  BY <1>3
<1> QED BY <1>2, <1>4, Zenon

-----------------------------------------------------------------------------
(* The size of a list of entries. *)

Counted(s) == IsText(s) /\ \A i \in DOMAIN s : Len(s[i].ids) \in Nat
Places(s) == UNION {{i} \X (1 .. Len(s[i].ids)) : i \in DOMAIN s}

\* A place is a pair of an entry and a token of it.
LEMMA PlacesAre ==
  ASSUME NEW s
  PROVE  /\ \A p \in Places(s) : /\ p = <<p[1], p[2]>>
                                 /\ p[1] \in DOMAIN s /\ p[2] \in 1 .. Len(s[p[1]].ids)
         /\ \A i, j : <<i, j>> \in Places(s) <=> i \in DOMAIN s /\ j \in 1 .. Len(s[i].ids)
<1>1. ASSUME NEW p \in Places(s)
      PROVE  p = <<p[1], p[2]>> /\ p[1] \in DOMAIN s /\ p[2] \in 1 .. Len(s[p[1]].ids)
  <2>1. PICK i \in DOMAIN s : p \in {i} \X (1 .. Len(s[i].ids))
    BY DEF Places
  <2>2. p = <<p[1], p[2]>> /\ p[1] = i /\ p[2] \in 1 .. Len(s[i].ids)
    BY <2>1
  <2> QED BY <2>2, Zenon
<1>2. ASSUME NEW i, NEW j
      PROVE  <<i, j>> \in Places(s) <=> i \in DOMAIN s /\ j \in 1 .. Len(s[i].ids)
  <2>1. <<i, j>> \in Places(s) <=> \E k \in DOMAIN s : <<i, j>> \in {k} \X (1 .. Len(s[k].ids))
    BY DEF Places
  <2>2. \A k \in DOMAIN s : <<i, j>> \in {k} \X (1 .. Len(s[k].ids))
                            <=> i = k /\ j \in 1 .. Len(s[k].ids)
    OBVIOUS
  <2> QED BY <2>1, <2>2, Zenon
<1> QED BY <1>1, <1>2

\* The size is a number.
LEMMA SizeCounts ==
  ASSUME NEW s, Counted(s)
  PROVE  IsFiniteSet(Places(s)) /\ Size(s) = Cardinality(Places(s)) /\ Size(s) \in Nat
<1> DEFINE row(i) == {i} \X (1 .. Len(s[i].ids))
           Rows == {row(i) : i \in DOMAIN s}
           f == [i \in DOMAIN s |-> row(i)]
<1>1. IsFiniteSet(DOMAIN s)
  <2>1. DOMAIN s = 1 .. Len(s) /\ Len(s) \in Nat
    BY DEF Counted, IsText
  <2> QED BY <2>1, FS_Interval
<1>2. IsFiniteSet(Rows)
  <2>1. f \in Surjection(DOMAIN s, Rows)
    <3> HIDE DEF row
    <3> QED BY DEF Surjection
  <2> HIDE DEF f, Rows
  <2> QED BY <1>1, <2>1, FS_Surjection
<1>3. \A R \in Rows : IsFiniteSet(R)
  <2> SUFFICES ASSUME NEW i \in DOMAIN s PROVE IsFiniteSet(row(i))
    OBVIOUS
  <2>1. IsFiniteSet({i}) /\ IsFiniteSet(1 .. Len(s[i].ids))
    <3>1. Len(s[i].ids) \in Int /\ 1 \in Int
      BY DEF Counted
    <3> QED BY <3>1, FS_Singleton, FS_Interval, Zenon
  <2> QED BY <2>1, FS_Product
<1>4. IsFiniteSet(UNION Rows)
  <2> HIDE DEF Rows
  <2> QED BY <1>2, <1>3, FS_UNION
<1>5. Places(s) = UNION Rows /\ Size(s) = Cardinality(UNION Rows)
  BY Zenon DEF Places, Size
<1> HIDE DEF Rows
<1> QED BY <1>4, <1>5, FS_CardinalityType

\* The size of two lists joined is the sum of theirs: the places of the
\* second are moved behind those of the first.
LEMMA SizeJoin ==
  ASSUME NEW r, NEW s, Counted(r), Counted(s)
  PROVE  Counted(r \o s) /\ Size(r \o s) = Size(r) + Size(s)
<1> DEFINE n == Len(r)
           m == Len(s)
           t == r \o s
           shift == [p \in Places(s) |-> <<p[1] + n, p[2]>>]
           Moved == {shift[p] : p \in Places(s)}
<1>1. /\ n \in Nat /\ m \in Nat /\ Len(t) = n + m /\ IsText(t)
      /\ DOMAIN r = 1 .. n /\ DOMAIN s = 1 .. m /\ DOMAIN t = 1 .. n + m
  <2>1. IsText(t) /\ Len(t) = n + m
    BY TextJoin DEF Counted
  <2> HIDE DEF t
  <2> QED BY <2>1 DEF Counted, IsText
<1>2. /\ \A i \in 1 .. n : t[i] = r[i]
      /\ \A i \in 1 .. m : t[i + n] = s[i]
  <2>1. r \in Seq(Range(r) \union Range(s)) /\ s \in Seq(Range(r) \union Range(s))
    BY DEF Counted, IsText
  <2> QED BY <1>1, <2>1
<1> HIDE DEF t, n, m
<1>3. \A i \in 1 .. n + m : \/ i \in 1 .. n
                            \/ i - n \in 1 .. m /\ (i - n) + n = i
  BY <1>1
<1>4. Counted(t)
  <2> SUFFICES ASSUME NEW i \in 1 .. n + m PROVE Len(t[i].ids) \in Nat
    BY <1>1 DEF Counted
  <2>1. CASE i \in 1 .. n
    BY <1>1, <1>2, <2>1 DEF Counted
  <2>2. CASE i - n \in 1 .. m /\ (i - n) + n = i
    <3>1. t[i] = s[i - n]
      BY <1>2, <2>2
    <3>2. Len(s[i - n].ids) \in Nat
      BY <1>1, <2>2 DEF Counted
    <3> QED BY <3>1, <3>2, Zenon
  <2> QED BY <1>3, <2>1, <2>2
<1>5. ASSUME NEW x, NEW k, DOMAIN x = 1 .. k, NEW p \in Places(x)
      PROVE  p[1] \in 1 .. k /\ p[2] \in 1 .. Len(x[p[1]].ids) /\ p = <<p[1], p[2]>>
  BY <1>5, PlacesAre, Zenon
<1>6. Places(t) = Places(r) \union Moved
  <2>1. ASSUME NEW p \in Places(t) PROVE p \in Places(r) \union Moved
    <3> DEFINE i == p[1]
               j == p[2]
    <3>1. i \in 1 .. n + m /\ j \in 1 .. Len(t[i].ids) /\ p = <<i, j>>
      BY <1>1, <1>5, Zenon
    <3> HIDE DEF i, j
    <3>2. CASE i \in 1 .. n
      <4>1. t[i] = r[i]
        BY <1>2, <3>2
      <4>2. p \in Places(r)
        BY <1>1, <3>1, <3>2, <4>1, PlacesAre, Zenon
      <4> QED BY <4>2
    <3>3. CASE i - n \in 1 .. m /\ (i - n) + n = i
      <4>1. t[i] = s[i - n]
        BY <1>2, <3>3
      <4>2. <<i - n, j>> \in Places(s)
        BY <1>1, <3>1, <3>3, <4>1, PlacesAre, Zenon
      <4>3. shift[<<i - n, j>>] = <<i, j>>
        BY <3>3, <4>2
      <4> QED BY <3>1, <4>2, <4>3, Zenon
    <3> QED BY <1>3, <3>1, <3>2, <3>3
  <2>2. ASSUME NEW p \in Places(r) PROVE p \in Places(t)
    <3> DEFINE i == p[1]
               j == p[2]
    <3>1. i \in 1 .. n /\ j \in 1 .. Len(r[i].ids) /\ p = <<i, j>>
      BY <1>1, <1>5, Zenon
    <3> HIDE DEF i, j
    <3>2. i \in 1 .. n + m /\ t[i] = r[i]
      BY <1>1, <1>2, <3>1
    <3> QED BY <1>1, <3>1, <3>2, PlacesAre, Zenon
  <2>3. ASSUME NEW p \in Places(s) PROVE shift[p] \in Places(t)
    <3> DEFINE i == p[1]
               j == p[2]
    <3>1. i \in 1 .. m /\ j \in 1 .. Len(s[i].ids) /\ shift[p] = <<i + n, j>>
      <4>1. shift[p] = <<p[1] + n, p[2]>>
        OBVIOUS
      <4> HIDE DEF shift
      <4> QED BY <1>1, <1>5, <4>1, Zenon
    <3> HIDE DEF i, j, shift
    <3>2. i + n \in 1 .. n + m /\ t[i + n] = s[i]
      BY <1>1, <1>2, <3>1
    <3>3. <<i + n, j>> \in Places(t)
      <4>1. j \in 1 .. Len(t[i + n].ids) /\ i + n \in DOMAIN t
        BY <1>1, <3>1, <3>2, Zenon
      <4> QED BY <4>1, PlacesAre, Zenon
    <3> QED BY <3>1, <3>3, Zenon
  <2> HIDE DEF shift
  <2> QED BY <2>1, <2>2, <2>3
<1>7. Places(r) \cap Moved = {}
  <2> SUFFICES ASSUME NEW p \in Places(s), shift[p] \in Places(r) PROVE FALSE
    OBVIOUS
  <2>1. shift[p] = <<p[1] + n, p[2]>>
    OBVIOUS
  <2>2. p[1] \in 1 .. m
    BY <1>1, <1>5, Zenon
  <2>3. shift[p][1] \in 1 .. n
    BY <1>1, <1>5, Zenon
  <2> HIDE DEF shift
  <2> QED BY <1>1, <2>1, <2>2, <2>3
<1>8. /\ IsFiniteSet(Moved) /\ Cardinality(Moved) = Cardinality(Places(s))
  <2>2. ASSUME NEW p \in Places(s), NEW q \in Places(s), shift[p] = shift[q] PROVE p = q
    <3>1. p[1] + n = q[1] + n /\ p[2] = q[2]
      BY <2>2
    <3>2. p[1] = q[1]
      <4>1. p[1] \in 1 .. m /\ q[1] \in 1 .. m
        BY <1>1, <1>5, Zenon
      <4> QED BY <1>1, <3>1, <4>1
    <3>3. p = <<p[1], p[2]>> /\ q = <<q[1], q[2]>>
      BY <1>1, <1>5, Zenon
    <3>4. <<p[1], p[2]>> = <<q[1], q[2]>>
      BY <3>1, <3>2, Zenon
    <3> QED BY <3>3, <3>4
  <2>3. shift \in Surjection(Places(s), Moved)
    <3>1. shift \in [Places(s) -> Moved]
      OBVIOUS
    <3>2. \A q \in Moved : \E p \in Places(s) : shift[p] = q
      OBVIOUS
    <3> HIDE DEF shift, Moved
    <3> QED BY <3>1, <3>2 DEF Surjection
  <2>4. shift \in Injection(Places(s), Moved)
    <3>1. shift \in [Places(s) -> Moved] /\ DOMAIN shift = Places(s)
      OBVIOUS
    <3> HIDE DEF shift, Moved
    <3> QED BY <2>2, <3>1 DEF Injection, IsInjective
  <2>5. IsFiniteSet(Places(s))
    BY SizeCounts
  <2> HIDE DEF shift, Moved
  <2> QED BY <2>3, <2>4, <2>5, FS_Surjection
<1>9. Size(t) = Size(r) + Size(s)
  <2>1. /\ IsFiniteSet(Places(r)) /\ Size(r) = Cardinality(Places(r)) /\ Size(r) \in Nat
        /\ Size(s) = Cardinality(Places(s)) /\ Size(s) \in Nat
        /\ Size(t) = Cardinality(Places(t))
    BY <1>4, SizeCounts
  <2> HIDE DEF Moved
  <2>2. Cardinality(Places(r) \union Moved)
          = Cardinality(Places(r)) + Cardinality(Moved) - Cardinality({})
    BY <1>7, <1>8, <2>1, FS_Union
  <2> QED BY <1>6, <1>8, <2>1, <2>2, FS_EmptySet
<1> QED BY <1>4, <1>9 DEF t

\* A single entry, and none.
LEMMA SizeOne ==
  ASSUME NEW e, Len(e.ids) \in Nat
  PROVE  Counted(<<e>>) /\ Size(<<e>>) = Len(e.ids)
<1> DEFINE n == Len(e.ids)
<1>1. Counted(<<e>>)
  <2>1. <<e>> \in Seq({e}) /\ DOMAIN <<e>> = {1} /\ <<e>>[1] = e
    BY SMT
  <2>2. IsText(<<e>>)
    BY <2>1, TextOf
  <2> QED BY <2>1, <2>2, Zenon DEF Counted
<1>2. Places(<<e>>) = {1} \X (1 .. n)
  <2>1. DOMAIN <<e>> = {1} /\ <<e>>[1] = e
    OBVIOUS
  <2>2. {{i} \X (1 .. Len(<<e>>[i].ids)) : i \in {1}} = {{1} \X (1 .. n)}
    BY <2>1
  <2> QED BY <2>1, <2>2 DEF Places
<1>3. n \in Nat
  OBVIOUS
<1> HIDE DEF n
<1>4. Cardinality({1} \X (1 .. n)) = n
  <2>1. IsFiniteSet({1}) /\ Cardinality({1}) = 1
    BY FS_Singleton, Zenon
  <2>2. IsFiniteSet(1 .. n) /\ Cardinality(1 .. n) = n
    BY <1>3, FS_Interval, SMTT(40)
  <2>3. Cardinality({1} \X (1 .. n)) = Cardinality({1}) * Cardinality(1 .. n)
    BY <2>1, <2>2, FS_Product, Zenon
  <2>4. Cardinality({1} \X (1 .. n)) = 1 * n
    BY <2>1, <2>2, <2>3, Zenon
  <2> QED BY <1>3, <2>4
<1>5. Size(<<e>>) = Cardinality(Places(<<e>>))
  BY <1>1, SizeCounts
<1>6. Size(<<e>>) = n
  BY <1>2, <1>4, <1>5, Zenon
<1> QED BY <1>1, <1>6 DEF n

LEMMA SizeNone == Counted(<<>>) /\ Size(<<>>) = 0
<1>1. <<>> \in Seq({}) /\ DOMAIN <<>> = {}
  OBVIOUS
<1>2. Counted(<<>>)
  BY <1>1, TextOf DEF Counted
<1>3. Places(<<>>) = {}
  BY <1>1 DEF Places
<1> QED BY <1>2, <1>3, SizeCounts, FS_EmptySet

\* A list cut in two, and what is counted is counted in its parts.
LEMMA SizeSplit ==
  ASSUME NEW s, Counted(s), NEW n \in 0 .. Len(s)
  PROVE  LET a == SubSeq(s, 1, n)
             b == SubSeq(s, n + 1, Len(s))
         IN  /\ Counted(a) /\ Counted(b) /\ Size(s) = Size(a) + Size(b)
             /\ s = a \o b /\ Len(a) = n /\ Len(b) = Len(s) - n
             /\ DOMAIN b = 1 .. Len(s) - n
             /\ \A i \in 1 .. n : a[i] = s[i]
             /\ \A i \in 1 .. Len(s) - n : b[i] = s[i + n]
<1> DEFINE a == SubSeq(s, 1, n)
           b == SubSeq(s, n + 1, Len(s))
           m == Len(s)
<1>1. s \in Seq(Range(s)) /\ m \in Nat /\ DOMAIN s = 1 .. m
  BY DEF Counted, IsText
<1>2. /\ a \in Seq(Range(s)) /\ Len(a) = n /\ DOMAIN a = 1 .. n
      /\ \A i \in 1 .. n : a[i] = s[i]
  BY <1>1
<1>3. /\ b \in Seq(Range(s)) /\ Len(b) = m - n /\ DOMAIN b = 1 .. m - n
      /\ \A i \in 1 .. m - n : b[i] = s[i + n]
  BY <1>1, DropFirst
<1>4. s = a \o b
  <2>1. 1 \in 1 .. m + 1 /\ n \in 1 - 1 .. m /\ m \in n .. m
    BY <1>1
  <2>2. a \o b = SubSeq(s, 1, m)
    <3> HIDE DEF m
    <3> QED BY <1>1, <2>1, ConcatAdjacentSubSeq, Zenon DEF m
  <2>3. SubSeq(s, 1, m) = s
    BY <1>1
  <2> QED BY <2>2, <2>3, Zenon
<1> HIDE DEF a, b
<1>5. Counted(a)
  <2>1. \A i \in 1 .. n : i \in 1 .. m
    BY <1>1
  <2> QED BY <1>1, <1>2, <2>1, TextOf DEF Counted
<1>6. Counted(b)
  <2>1. \A i \in 1 .. m - n : i + n \in 1 .. m
    BY <1>1
  <2> QED BY <1>1, <1>3, <2>1, TextOf DEF Counted
<1>7. Size(s) = Size(a) + Size(b)
  BY <1>4, <1>5, <1>6, SizeJoin
<1> QED BY <1>2, <1>3, <1>4, <1>5, <1>6, <1>7 DEF a, b

Distinct(s) == \A i, j \in DOMAIN s : s[i].key = s[j].key => i = j

\* Keys that differ are counted by the entries.
LEMMA KeysCount ==
  ASSUME NEW s, Counted(s), Distinct(s)
  PROVE  Cardinality(Keys(s)) = Len(s)
<1> DEFINE n == Len(s)
           f == [i \in 1 .. n |-> s[i].key]
<1>1. n \in Nat /\ DOMAIN s = 1 .. n
  BY DEF Counted, IsText
<1>2. Keys(s) = {f[i] : i \in 1 .. n}
  BY <1>1 DEF Keys
<1>3. f \in Surjection(1 .. n, Keys(s))
  <2>1. f \in [1 .. n -> Keys(s)] /\ \A k \in Keys(s) : \E i \in 1 .. n : f[i] = k
    <3> HIDE DEF n
    <3> QED BY <1>1 DEF Keys
  <2> HIDE DEF f
  <2> QED BY <2>1 DEF Surjection
<1>4. f \in Injection(1 .. n, Keys(s))
  <2>1. \A i, j \in 1 .. n : f[i] = f[j] => i = j
    <3> HIDE DEF n
    <3> QED BY <1>1 DEF Distinct
  <2>2. f \in [1 .. n -> Keys(s)] /\ DOMAIN f = 1 .. n
    BY <1>3 DEF Surjection
  <2> HIDE DEF f
  <2> QED BY <2>1, <2>2 DEF Injection, IsInjective
<1>5. IsFiniteSet(1 .. n) /\ Cardinality(1 .. n) = n
  <2> HIDE DEF n
  <2> QED BY <1>1, FS_Interval
<1> HIDE DEF f
<1>6. Cardinality(Keys(s)) = Cardinality(1 .. n)
  BY <1>3, <1>4, <1>5, FS_Surjection
<1> QED BY <1>5, <1>6

-----------------------------------------------------------------------------
(* What a hit and an insertion do to the list of entries. *)

\* Cutting an entry out of the list.
LEMMA CutOut ==
  ASSUME NEW T, NEW s \in Seq(T), NEW i \in 1 .. Len(s), NEW c,
         c = SubSeq(s, 1, i - 1) \o SubSeq(s, i + 1, Len(s))
  PROVE  /\ c \in Seq(T) /\ Len(c) = Len(s) - 1
         /\ \A j \in 1 .. i - 1 : c[j] = s[j]
         /\ \A j \in i .. Len(s) - 1 : c[j] = s[j + 1]
<1>1. TakenOut(c, T, s, i)
  BY TakeOutParts, Zenon
<1> QED BY <1>1, Zenon DEF TakenOut

\* Moving an entry to the end.
LEMMA MovedToEnd ==
  ASSUME NEW s, Counted(s), Distinct(s), NEW i \in DOMAIN s
  PROVE  LET r == Append(RemoveAt(s, i), s[i])
         IN  /\ Counted(r) /\ Distinct(r)
             /\ Size(r) = Size(s) /\ Len(r) = Len(s) /\ Keys(r) = Keys(s)
<1> DEFINE n == Len(s)
           a == SubSeq(s, 1, i)
           x == SubSeq(s, 1, i - 1)
           b == SubSeq(s, i + 1, n)
           cut == x \o b
           r == Append(cut, s[i])
<1>1. s \in Seq(Range(s)) /\ n \in Nat /\ DOMAIN s = 1 .. n
  BY DEF Counted, IsText
<1>2. i \in 1 .. n /\ i - 1 \in 0 .. n /\ i \in 0 .. n
  BY <1>1
<1>3. Counted(x) /\ x \in Seq(Range(s)) /\ Len(x) = i - 1
  <2>1. Counted(x)
    BY <1>2, SizeSplit
  <2>2. x \in Seq(Range(s)) /\ Len(x) = i - 1
    BY <1>1, <1>2
  <2> QED BY <2>1, <2>2
<1>4. Counted(a) /\ Counted(b) /\ Size(s) = Size(a) + Size(b)
  BY <1>2, SizeSplit
<1>5. a = x \o <<s[i]>>
  <2>1. a = Append(x, s[i])
    BY <1>1, <1>2
  <2> HIDE DEF a, x
  <2>2. x \in Seq(Range(s)) /\ s[i] \in Range(s)
    <3>1. s[i] \in Range(s)
      BY DEF Range
    <3> QED BY <1>3, <3>1
  <2> QED BY <2>1, <2>2, AppendIsConcat
<1>6. Counted(<<s[i]>>) /\ Size(<<s[i]>>) = Len(s[i].ids)
  BY SizeOne DEF Counted
<1>7. Size(a) = Size(x) + Size(<<s[i]>>)
  BY <1>3, <1>5, <1>6, SizeJoin
<1>8. Counted(cut) /\ Size(cut) = Size(x) + Size(b)
  BY <1>3, <1>4, SizeJoin
<1>9. /\ cut \in Seq(Range(s)) /\ Len(cut) = n - 1
      /\ \A j \in 1 .. n - 1 : cut[j] = IF j < i THEN s[j] ELSE s[j + 1]
  <2>1. /\ s \in Seq(Range(s)) /\ i \in 1 .. Len(s)
        /\ cut = SubSeq(s, 1, i - 1) \o SubSeq(s, i + 1, Len(s))
    BY <1>1, <1>2
  <2>2. \A j \in 1 .. n - 1 : IF j < i THEN j \in 1 .. i - 1 ELSE j \in i .. n - 1
    BY <1>1, <1>2
  <2>3. /\ cut \in Seq(Range(s)) /\ Len(cut) = n - 1
        /\ \A j \in 1 .. i - 1 : cut[j] = s[j]
        /\ \A j \in i .. n - 1 : cut[j] = s[j + 1]
    BY <2>1, CutOut, ZenonT(60)
  <2> HIDE DEF cut, n
  <2> QED BY <2>2, <2>3, Zenon
<1> HIDE DEF a, x, b, cut
<1>10. r = cut \o <<s[i]>>
  <2>1. s[i] \in Range(s)
    BY DEF Range
  <2> QED BY <1>9, <2>1, AppendIsConcat
<1>11. Counted(r) /\ Size(r) = Size(s)
  <2>1. Counted(r) /\ Size(r) = Size(cut) + Size(<<s[i]>>)
    BY <1>6, <1>8, <1>10, SizeJoin
  <2>2. Size(x) \in Nat /\ Size(b) \in Nat /\ Size(<<s[i]>>) \in Nat
    BY <1>3, <1>4, <1>6, SizeCounts
  <2> QED BY <1>4, <1>7, <1>8, <2>1, <2>2
<1>12. /\ Len(r) = n /\ DOMAIN r = 1 .. n
       /\ \A j \in 1 .. n : r[j] = IF j = n THEN s[i] ELSE IF j < i THEN s[j] ELSE s[j + 1]
  <2>1. s[i] \in Range(s)
    BY DEF Range
  <2> HIDE DEF n
  <2>2. /\ Len(r) = n /\ DOMAIN r = 1 .. n /\ r[n] = s[i]
        /\ \A j \in 1 .. n - 1 : r[j] = cut[j]
    BY <1>1, <1>9, <2>1
  <2>3. \A j \in 1 .. n : j = n \/ j \in 1 .. n - 1
    BY <1>1
  <2> HIDE DEF r
  <2> QED BY <1>9, <2>2, <2>3, Zenon
<1> DEFINE p == [j \in 1 .. n |-> IF j = n THEN i ELSE IF j < i THEN j ELSE j + 1]
<1>13. /\ \A j \in 1 .. n : p[j] \in 1 .. n /\ r[j] = s[p[j]]
       /\ \A j, k \in 1 .. n : p[j] = p[k] => j = k
       /\ \A k \in 1 .. n : \E j \in 1 .. n : p[j] = k
  <2> HIDE DEF n, r
  <2>1. \A j \in 1 .. n : p[j] \in 1 .. n /\ r[j] = s[p[j]]
    BY <1>1, <1>2, <1>12
  <2>2. \A j, k \in 1 .. n : p[j] = p[k] => j = k
    BY <1>1, <1>2
  <2>3. ASSUME NEW k \in 1 .. n PROVE \E j \in 1 .. n : p[j] = k
    <3>1. CASE k = i
      <4>1. n \in 1 .. n /\ p[n] = k
        BY <1>1, <1>2, <3>1
      <4> QED BY <4>1
    <3>2. CASE k < i
      <4>1. p[k] = k
        BY <1>1, <1>2, <3>2
      <4> QED BY <4>1
    <3>3. CASE k > i
      <4>1. k - 1 \in 1 .. n /\ p[k - 1] = k
        BY <1>1, <1>2, <3>3
      <4> QED BY <4>1
    <3> QED BY <1>2, <3>1, <3>2, <3>3
  <2> QED BY <2>1, <2>2, <2>3
<1> HIDE DEF p, r
<1>14. Distinct(r)
  <2> SUFFICES ASSUME NEW j \in 1 .. n, NEW k \in 1 .. n, r[j].key = r[k].key PROVE j = k
    BY <1>12 DEF Distinct
  <2>1. s[p[j]].key = s[p[k]].key /\ p[j] \in DOMAIN s /\ p[k] \in DOMAIN s
    BY <1>1, <1>13
  <2>2. p[j] = p[k]
    BY <2>1 DEF Distinct
  <2> QED BY <1>13, <2>2
<1>15. Keys(r) = Keys(s)
  <2>1. \A j \in 1 .. n : \E k \in 1 .. n : r[j] = s[k]
    BY <1>13
  <2>2. \A k \in 1 .. n : \E j \in 1 .. n : r[j] = s[k]
    BY <1>13
  <2>3. Keys(r) = {r[j].key : j \in 1 .. n} /\ Keys(s) = {s[j].key : j \in 1 .. n}
    BY <1>1, <1>12, Zenon DEF Keys
  <2> HIDE DEF n
  <2>4. ASSUME NEW k \in {r[j].key : j \in 1 .. n} PROVE k \in {s[j].key : j \in 1 .. n}
    BY <2>1
  <2>5. ASSUME NEW k \in {s[j].key : j \in 1 .. n} PROVE k \in {r[j].key : j \in 1 .. n}
    BY <2>2
  <2> QED BY <2>3, <2>4, <2>5
<1>16. RemoveAt(s, i) = cut
  BY DEF RemoveAt, cut, x, b
<1> QED BY <1>11, <1>12, <1>14, <1>15, <1>16 DEF r

\* How many entries go: enough of them, and no more than are needed.
Enters(k, ids) ==
    LET kept == SubSeq(items, k + 1, Len(items))
    IN  \/ kept = <<>>
        \/ Len(kept) < Entries /\ Size(kept) + Len(ids) <= TokenBudget

\* There is a number of entries to evict, and no smaller one would do.
LEMMA EvictedFits ==
  ASSUME Counted(items), NEW ids
  PROVE  /\ Evicted(ids) \in 0 .. Len(items) /\ Enters(Evicted(ids), ids)
         /\ \A k \in 0 .. Evicted(ids) - 1 : ~Enters(k, ids)
<1> DEFINE Enough == {k \in 0 .. Len(items) : Enters(k, ids)}
<1>1. Len(items) \in Nat
  BY DEF Counted, IsText
<1>2. Enough \in SUBSET Nat
  BY <1>1
<1>3. Len(items) \in Enough
  <2>1. SubSeq(items, Len(items) + 1, Len(items)) = <<>>
    <3>1. items \in Seq(Range(items))
      BY DEF Counted, IsText
    <3> QED BY <1>1, <3>1
  <2>2. Len(items) \in 0 .. Len(items)
    BY <1>1
  <2> QED BY <2>1, <2>2 DEF Enters
<1>4. Evicted(ids) = Min(Enough)
  BY Zenon DEF Evicted, Enters
<1>5. Min(Enough) \in Enough /\ \A k \in Enough : Min(Enough) <= k
  <2> HIDE DEF Enough
  <2> QED BY <1>2, <1>3, MinNat
<1> DEFINE n == Min(Enough)
<1>6. n \in 0 .. Len(items) /\ Enters(n, ids)
  BY <1>5
<1>7. ASSUME NEW k \in 0 .. n - 1 PROVE ~Enters(k, ids)
  <2>1. \A j \in Enough : n <= j
    BY <1>5
  <2> HIDE DEF n
  <2>2. k \in 0 .. Len(items) /\ ~(n <= k)
    BY <1>1, <1>6
  <2>3. k \notin Enough
    BY <2>1, <2>2
  <2> QED BY <2>2, <2>3
<1> HIDE DEF n
<1> QED BY <1>4, <1>6, <1>7 DEF n

\* Entering a document that is not there.
LEMMA Entered ==
  ASSUME Counted(items), Distinct(items), BudgetKept,
         NEW e, Len(e.ids) \in Nat, e.key \notin Keys(items), Cacheable(e.ids), Insert(e)
  PROVE  /\ Counted(items') /\ Distinct(items')
         /\ tokens' = Size(items') /\ tokens' <= TokenBudget /\ Len(items') <= Entries
         /\ e.key \in Keys(items')
         /\ \A k \in DOMAIN items :
               items[k].key \in Keys(items)' <=> k > Evicted(e.ids)
<1> DEFINE n == Evicted(e.ids)
           m == Len(items)
           old == SubSeq(items, 1, n)
           kept == SubSeq(items, n + 1, m)
<1>1. items \in Seq(Range(items)) /\ m \in Nat /\ DOMAIN items = 1 .. m
  BY DEF Counted, IsText
<1>2. n \in 0 .. m /\ (kept = <<>> \/ (Len(kept) < Entries /\ Size(kept) + Len(e.ids) <= TokenBudget))
  <2>1. n \in 0 .. m /\ Enters(n, e.ids)
    BY EvictedFits, Zenon
  <2> HIDE DEF n
  <2>2. Enters(n, e.ids) <=> \/ kept = <<>>
                             \/ Len(kept) < Entries /\ Size(kept) + Len(e.ids) <= TokenBudget
    BY Zenon DEF Enters
  <2> HIDE DEF kept
  <2> QED BY <2>1, <2>2, Zenon
<1> HIDE DEF n
<1>3. /\ Counted(old) /\ Counted(kept) /\ Size(items) = Size(old) + Size(kept)
      /\ Len(kept) = m - n /\ DOMAIN kept = 1 .. m - n
      /\ \A i \in 1 .. m - n : kept[i] = items[i + n]
  BY <1>2, SizeSplit
<1>4. items' = Append(kept, e) /\ tokens' = tokens - Size(old) + Len(e.ids)
  BY DEF Insert, n
<1> HIDE DEF old, kept
<1>5. Append(kept, e) = kept \o <<e>>
  <2>1. kept \in Seq(Range(kept) \union {e}) /\ e \in Range(kept) \union {e}
    BY <1>3 DEF Counted, IsText
  <2> QED BY <2>1, AppendIsConcat
<1>6. Counted(<<e>>) /\ Size(<<e>>) = Len(e.ids)
  BY SizeOne
<1>7. Counted(items') /\ Size(items') = Size(kept) + Len(e.ids)
  <2>1. Counted(kept \o <<e>>) /\ Size(kept \o <<e>>) = Size(kept) + Size(<<e>>)
    BY <1>3, <1>6, SizeJoin
  <2>2. items' = kept \o <<e>>
    BY <1>4, <1>5, Zenon
  <2> QED BY <1>6, <2>1, <2>2, Zenon
<1>8. Size(kept) \in Nat /\ Size(old) \in Nat /\ (kept = <<>> => Size(kept) = 0)
  BY <1>3, SizeCounts, SizeNone
<1>9. tokens' = Size(items') /\ tokens' <= TokenBudget
  BY <1>2, <1>3, <1>4, <1>7, <1>8, CacheAssumption DEF BudgetKept, Cacheable
<1>10. /\ Len(items') = m - n + 1 /\ DOMAIN items' = 1 .. m - n + 1
       /\ items'[m - n + 1] = e /\ \A i \in 1 .. m - n : items'[i] = items[i + n]
  <2>1. kept \in Seq(Range(kept) \union {e}) /\ e \in Range(kept) \union {e}
    BY <1>3 DEF Counted, IsText
  <2>2. /\ Len(items') = m - n + 1 /\ DOMAIN items' = 1 .. m - n + 1
        /\ items'[m - n + 1] = e /\ \A i \in 1 .. m - n : items'[i] = kept[i]
    <3> DEFINE T == Range(kept) \union {e}
    <3> HIDE DEF T
    <3> QED BY <1>3, <1>4, <2>1 DEF T
  <2> QED BY <1>3, <2>2
<1>11. Len(items') <= Entries
  <2>1. CASE kept = <<>>
    <3>1. Len(kept) = 0
      BY <2>1
    <3>2. Entries > 0
      BY DEF Cacheable
    <3> QED BY <1>1, <1>2, <1>3, <1>10, <3>1, <3>2, CacheAssumption
  <2>2. CASE Len(kept) < Entries
    BY <1>1, <1>2, <1>3, <1>10, <2>2, CacheAssumption
  <2> QED BY <1>2, <2>1, <2>2
<1>12. e.key \in Keys(items')
  <2>1. m - n + 1 \in 1 .. m - n + 1
    BY <1>1, <1>2
  <2> QED BY <1>10, <2>1, Zenon DEF Keys
<1>13. \A i \in 1 .. m - n + 1 : i = m - n + 1 \/ (i \in 1 .. m - n /\ i + n \in 1 .. m)
  BY <1>1, <1>2
<1>14. Distinct(items')
  <2> SUFFICES ASSUME NEW i \in 1 .. m - n + 1, NEW j \in 1 .. m - n + 1,
                      items'[i].key = items'[j].key
               PROVE  i = j
    BY <1>10, Zenon DEF Distinct
  <2>1. \A k \in 1 .. m : items[k].key # e.key
    BY <1>1 DEF Keys
  <2>2. CASE i \in 1 .. m - n /\ i + n \in 1 .. m /\ j \in 1 .. m - n /\ j + n \in 1 .. m
    <3>1. items[i + n].key = items[j + n].key
      BY <1>10, <2>2
    <3>2. i + n = j + n
      BY <1>1, <2>2, <3>1 DEF Distinct
    <3> QED BY <1>1, <1>2, <2>2, <3>2
  <2>3. CASE i = m - n + 1 /\ j \in 1 .. m - n /\ j + n \in 1 .. m
    BY <1>10, <2>1, <2>3
  <2>4. CASE j = m - n + 1 /\ i \in 1 .. m - n /\ i + n \in 1 .. m
    BY <1>10, <2>1, <2>4
  <2> QED BY <1>13, <2>2, <2>3, <2>4
<1>15. ASSUME NEW k \in DOMAIN items PROVE items[k].key \in Keys(items)' <=> k > n
  <2>1. k \in 1 .. m
    BY <1>1
  <2>2. ASSUME k > n PROVE items[k].key \in Keys(items)'
    <3>1. k - n \in 1 .. m - n /\ (k - n) + n = k /\ k - n \in 1 .. m - n + 1
      BY <1>1, <1>2, <2>1, <2>2
    <3>2. items'[k - n] = items[(k - n) + n]
      BY <1>10, <3>1
    <3>3. items'[k - n] = items[k] /\ k - n \in DOMAIN items'
      BY <1>10, <3>1, <3>2, Zenon
    <3> QED BY <3>3 DEF Keys
  <2>3. ASSUME items[k].key \in Keys(items)' PROVE k > n
    <3>1. PICK i \in 1 .. m - n + 1 : items[k].key = items'[i].key
      BY <1>10, <2>3 DEF Keys
    <3>2. i # m - n + 1
      BY <1>10, <3>1 DEF Keys
    <3>3. i \in 1 .. m - n /\ i + n \in 1 .. m
      BY <1>13, <3>2
    <3>4. items[k].key = items[i + n].key
      BY <1>10, <3>1, <3>3
    <3>5. k = i + n
      BY <1>1, <3>3, <3>4 DEF Distinct
    <3> QED BY <1>2, <3>3, <3>5
  <2> QED BY <2>2, <2>3
<1> QED BY <1>7, <1>9, <1>11, <1>12, <1>14, <1>15 DEF n

-----------------------------------------------------------------------------
(* The invariant. *)

\* A thread that wants a document has a compiler to read it with.
ThreadsFit ==
    /\ compiler \in Compilers \union {NoCompiler}
    /\ thread = [t \in Thread |-> thread[t]]
    /\ \A t \in Thread :
          /\ thread[t] = [pc |-> thread[t].pc, doc |-> thread[t].doc,
                          prefix |-> thread[t].prefix, jobs |-> thread[t].jobs]
          /\ thread[t].pc \in {"lookup", "tokenizing"} =>
                compiler \in Compilers /\ thread[t].doc \in Document

\* A thread that tokenizes is alone under the lock, and nobody else has
\* entered its document meanwhile.
Alone == \A t \in Thread : At(t, "tokenizing") =>
            holder = {t} /\ Wanted(t).key \notin Keys(items)

Stored == Counted(items) /\ Distinct(items)

IInv == TypeOK /\ ThreadsFit /\ Alone /\ Stored /\ BudgetKept

-----------------------------------------------------------------------------
LEMMA CompilerIs ==
  ASSUME NEW tok \in Tokenizers, NEW skeleton \in Skeletons
  PROVE  LET c == PromptCompiler(tok, skeleton)
         IN  c \in Compilers \union {NoCompiler} /\ c.ok \in BOOLEAN
<1> DEFINE b == Boundary(skeleton)
           suffix == SubSeq(skeleton, b + 1, Len(skeleton)) \o AnswerPrefix
           tail == SubSeq(suffix, LastSpecialEnd(suffix) + 1, Len(suffix))
           registry == FoldLeft(LAMBDA r, code : Register(tok, tail, r, code),
                                [codes |-> <<>>, ids |-> <<>>], CodeCandidates)
           made == [ok |-> TRUE, tokenizer |-> tok, skeleton |-> skeleton,
                    prefix |-> SubSeq(skeleton, 1, b), suffix |-> suffix,
                    slot |-> Encode(tok, tail), codes |-> registry.codes, ids |-> registry.ids]
           good == TemplateIsLegal(skeleton) /\ Len(registry.codes) >= MaxOptions
           c == PromptCompiler(tok, skeleton)
<1>1. c = IF good THEN made ELSE NoCompiler
  BY Zenon DEF PromptCompiler
<1>2. made.ok = TRUE /\ NoCompiler.ok = FALSE
  <2> HIDE DEF b, suffix, tail, registry
  <2> QED BY DEF NoCompiler
<1>3. c.ok \in BOOLEAN
  <2> HIDE DEF c, good, made
  <2> QED BY <1>1, <1>2
<1>4. c \in Compilers \union {NoCompiler}
  <2>1. c \in {PromptCompiler(x, y) : x \in Tokenizers, y \in Skeletons}
    OBVIOUS
  <2> HIDE DEF c, made, good
  <2> QED BY <2>1 DEF Compilers
<1> QED BY <1>3, <1>4, Zenon

\* The list of entries counts what it says, if its parts do.
LEMMA CountKept ==
  ASSUME Counted(items), Distinct(items), tokens = Size(items), tokens <= TokenBudget,
         Len(items) <= Entries
  PROVE  BudgetKept /\ tokens \in Nat
BY KeysCount, SizeCounts DEF BudgetKept

LEMMA InitIInv == Init => IInv
<1> SUFFICES ASSUME Init PROVE IInv
  OBVIOUS
<1>1. PICK tok \in Tokenizers, skeleton \in Skeletons : compiler = PromptCompiler(tok, skeleton)
  BY DEF Init
<1>2. compiler \in Compilers \union {NoCompiler} /\ compiler.ok \in BOOLEAN
  BY <1>1, CompilerIs, Zenon
<1>3. items = <<>> /\ tokens = 0 /\ holder = {} /\ thread = [t \in Thread |-> Idle]
  BY DEF Init
<1>4. \A t \in Thread : thread[t] = Idle
  BY <1>3
<1>5. TypeOK
  BY <1>2, <1>3, <1>4 DEF TypeOK, Idle
<1>6. ThreadsFit
  BY <1>2, <1>3, <1>4 DEF ThreadsFit, Idle
<1>7. Alone
  BY <1>4 DEF Alone, At, Idle
<1>8. Stored
  BY <1>3, SizeNone DEF Stored, Distinct
<1>9. BudgetKept
  <2>1. Len(items) = 0
    BY <1>3
  <2> QED BY <1>3, <1>8, <2>1, SizeNone, CountKept, CacheAssumption DEF Stored
<1> QED BY <1>5, <1>6, <1>7, <1>8, <1>9 DEF IInv

LEMMA HitKeeps == ASSUME IInv, NEW t \in Thread, Hit(t) PROVE IInv' /\ Keys(items)' = Keys(items)
<1>1. PICK i \in DOMAIN items : /\ items' = Append(RemoveAt(items, i), items[i])
                                /\ GoesWith(t, "questions", items[i].ids)
  BY DEF Hit
<1>2. /\ Counted(items') /\ Distinct(items') /\ Size(items') = Size(items)
      /\ Len(items') = Len(items) /\ Keys(items') = Keys(items)
  <2>1. Counted(items) /\ Distinct(items)
    BY DEF IInv, Stored
  <2> QED BY <1>1, <2>1, MovedToEnd
<1>3. UNCHANGED <<compiler, tokens, holder>> /\ holder = {} /\ At(t, "lookup")
  BY DEF Hit, LockIsFree
<1>4. /\ thread' = [thread EXCEPT ![t].pc = "questions", ![t].prefix = items[i].ids]
  BY <1>1 DEF GoesWith
<1>5. ThreadsFit' /\ TypeOK'
  <2>1. ThreadsFit'
    <3>1. thread' = [u \in Thread |-> thread'[u]]
      BY <1>4 DEF IInv, ThreadsFit
    <3>2. \A u \in Thread : u # t => thread'[u] = thread[u]
      BY <1>4 DEF IInv, ThreadsFit
    <3>3. thread'[t] = [pc |-> "questions", doc |-> thread[t].doc,
                        prefix |-> items[i].ids, jobs |-> thread[t].jobs]
      <4>1. thread'[t] = [thread[t] EXCEPT !.pc = "questions", !.prefix = items[i].ids]
        BY <1>4 DEF IInv, ThreadsFit
      <4>2. thread[t] = [pc |-> thread[t].pc, doc |-> thread[t].doc,
                         prefix |-> thread[t].prefix, jobs |-> thread[t].jobs]
        BY DEF IInv, ThreadsFit
      <4> QED BY <4>1, <4>2
    <3>4. ASSUME NEW u \in Thread
          PROVE  /\ thread'[u] = [pc |-> thread'[u].pc, doc |-> thread'[u].doc,
                                  prefix |-> thread'[u].prefix, jobs |-> thread'[u].jobs]
                 /\ thread'[u].pc \in {"lookup", "tokenizing"} =>
                       compiler \in Compilers /\ thread'[u].doc \in Document
      <4>1. CASE u = t
        BY <3>3, <4>1
      <4>2. CASE u # t
        BY <3>2, <4>2 DEF IInv, ThreadsFit
      <4> QED BY <4>1, <4>2
    <3> QED BY <1>3, <3>1, <3>4 DEF IInv, ThreadsFit
  <2>2. TypeOK'
    BY <1>3, <1>4 DEF IInv, ThreadsFit, TypeOK
  <2> QED BY <2>1, <2>2
<1>6. Alone'
  BY <1>3, <1>4 DEF IInv, ThreadsFit, Alone, At
<1>7. Stored' /\ BudgetKept'
  BY <1>2, <1>3 DEF IInv, Stored, BudgetKept
<1> QED BY <1>2, <1>5, <1>6, <1>7 DEF IInv

LEMMA MissKeeps == ASSUME IInv, NEW t \in Thread, Miss(t) PROVE IInv'
<1>1. /\ At(t, "lookup") /\ holder = {} /\ Wanted(t).key \notin Keys(items)
      /\ holder' = {t} /\ thread' = [thread EXCEPT ![t].pc = "tokenizing"]
      /\ compiler' = compiler /\ items' = items /\ tokens' = tokens
  BY DEF Miss, LockIsFree, Goes, cacheVars
<1>2. ThreadsFit' /\ TypeOK'
  BY <1>1 DEF IInv, ThreadsFit, TypeOK, At
<1>3. \A u \in Thread : /\ thread'[u].doc = thread[u].doc
                        /\ u # t => thread'[u] = thread[u]
  BY <1>1 DEF IInv, ThreadsFit
<1>4. Alone'
  <2>1. \A u \in Thread : Wanted(u)' = Wanted(u)
    BY <1>1, <1>3 DEF Wanted
  <2>2. \A u \in Thread : At(u, "tokenizing")' => u = t
    BY <1>1, <1>3 DEF IInv, Alone, At
  <2> QED BY <1>1, <2>1, <2>2 DEF Alone
<1>5. Stored' /\ BudgetKept'
  BY <1>1 DEF IInv, Stored, BudgetKept, Counted, Distinct
<1> QED BY <1>2, <1>4, <1>5 DEF IInv

\* Both ways out of the tokenizer leave the lock free.
LEMMA TokenizedKeeps ==
  ASSUME IInv, NEW t \in Thread, Tokenized(t)
  PROVE  /\ IInv'
         /\ \/ UNCHANGED items
            \/ /\ Len(Wanted(t).ids) \in Nat /\ Wanted(t).key \notin Keys(items)
               /\ Cacheable(Wanted(t).ids) /\ Insert(Wanted(t))
<1> DEFINE e == Wanted(t)
<1>1. At(t, "tokenizing") /\ compiler' = compiler /\ holder' = holder \ {t}
  BY DEF Tokenized, Unlock
<1>2. holder = {t} /\ e.key \notin Keys(items)
  BY <1>1 DEF IInv, Alone
<1>3. Len(e.ids) \in Nat
  <2>1. compiler \in Compilers /\ thread[t].doc \in Document
    BY <1>1 DEF IInv, ThreadsFit, At
  <2> QED BY <2>1, PrefixCounts DEF Wanted
<1>4. \/ UNCHANGED <<items, tokens>>
      \/ Cacheable(e.ids) /\ Insert(e)
  BY DEF Tokenized, Store, cacheVars
<1>5. \/ thread' = [thread EXCEPT ![t].pc = "questions", ![t].prefix = e.ids]
      \/ thread' = [thread EXCEPT ![t].pc = "refused"]
  BY DEF Tokenized, GoesWith, Goes
<1> HIDE DEF e
<1>6. Stored' /\ BudgetKept' /\ tokens' \in Nat
  <2>1. CASE UNCHANGED <<items, tokens>>
    BY <2>1 DEF IInv, TypeOK, Stored, BudgetKept
  <2>2. CASE Cacheable(e.ids) /\ Insert(e)
    <3>1. Counted(items) /\ Distinct(items) /\ BudgetKept
      BY DEF IInv, Stored
    <3>2. /\ Counted(items') /\ Distinct(items')
          /\ tokens' = Size(items') /\ tokens' <= TokenBudget /\ Len(items') <= Entries
      BY <1>2, <1>3, <2>2, <3>1, Entered
    <3>3. Cardinality(Keys(items')) = Len(items') /\ tokens' \in Nat
      BY <3>2, KeysCount, SizeCounts
    <3> QED BY <3>2, <3>3 DEF Stored, BudgetKept
  <2> QED BY <1>4, <2>1, <2>2
<1>7. /\ thread' = [u \in Thread |-> thread'[u]]
      /\ \A u \in Thread : u # t => thread'[u] = thread[u]
  BY <1>5 DEF IInv, ThreadsFit
<1>8. thread[t] = [pc |-> thread[t].pc, doc |-> thread[t].doc,
                   prefix |-> thread[t].prefix, jobs |-> thread[t].jobs]
  BY DEF IInv, ThreadsFit
<1>9. \/ thread'[t] = [pc |-> "questions", doc |-> thread[t].doc,
                       prefix |-> e.ids, jobs |-> thread[t].jobs]
      \/ thread'[t] = [pc |-> "refused", doc |-> thread[t].doc,
                       prefix |-> thread[t].prefix, jobs |-> thread[t].jobs]
  <2>1. \/ thread'[t] = [thread[t] EXCEPT !.pc = "questions", !.prefix = e.ids]
        \/ thread'[t] = [thread[t] EXCEPT !.pc = "refused"]
    BY <1>5 DEF IInv, ThreadsFit
  <2> QED BY <1>8, <2>1
<1>10. \A u \in Thread :
          /\ thread'[u] = [pc |-> thread'[u].pc, doc |-> thread'[u].doc,
                           prefix |-> thread'[u].prefix, jobs |-> thread'[u].jobs]
          /\ u = t => thread'[u].pc \in {"questions", "refused"}
  BY <1>7, <1>9 DEF IInv, ThreadsFit
<1>11. ThreadsFit'
  BY <1>1, <1>7, <1>10 DEF IInv, ThreadsFit
<1>12. TypeOK'
  BY <1>1, <1>2, <1>6, <1>7, <1>10 DEF IInv, TypeOK
<1>13. Alone'
  <2>1. \A u \in Thread : ~At(u, "tokenizing")'
    BY <1>1, <1>2, <1>7, <1>10 DEF IInv, Alone, At
  <2> QED BY <2>1 DEF Alone
<1> QED BY <1>2, <1>3, <1>4, <1>6, <1>11, <1>12, <1>13 DEF IInv, e

\* A step of a thread that neither holds the lock nor takes it.
LEMMA ElsewhereKeeps ==
  ASSUME IInv, NEW t \in Thread, UNCHANGED <<compiler, holder, items, tokens>>,
         NEW r, thread' = [thread EXCEPT ![t] = r],
         r = [pc |-> r.pc, doc |-> r.doc, prefix |-> r.prefix, jobs |-> r.jobs],
         r.pc \in {"idle", "lookup", "questions", "compiled", "refused"},
         r.pc = "lookup" => compiler \in Compilers /\ r.doc \in Document
  PROVE  IInv'
<1>1. /\ thread' = [u \in Thread |-> thread'[u]] /\ thread'[t] = r
      /\ \A u \in Thread : u # t => thread'[u] = thread[u]
  BY DEF IInv, ThreadsFit
<1>2. \A u \in Thread :
        /\ thread'[u] = [pc |-> thread'[u].pc, doc |-> thread'[u].doc,
                         prefix |-> thread'[u].prefix, jobs |-> thread'[u].jobs]
        /\ thread'[u].pc \in {"lookup", "tokenizing"} =>
              compiler \in Compilers /\ thread'[u].doc \in Document
  <2> SUFFICES ASSUME NEW u \in Thread
               PROVE  /\ thread'[u] = [pc |-> thread'[u].pc, doc |-> thread'[u].doc,
                                 prefix |-> thread'[u].prefix, jobs |-> thread'[u].jobs]
                      /\ thread'[u].pc \in {"lookup", "tokenizing"} =>
                            compiler \in Compilers /\ thread'[u].doc \in Document
    OBVIOUS
  <2>1. CASE u = t
    BY <1>1, <2>1
  <2>2. CASE u # t
    BY <1>1, <2>2 DEF IInv, ThreadsFit
  <2> QED BY <2>1, <2>2
<1>3. ThreadsFit' /\ TypeOK'
  BY <1>1, <1>2 DEF IInv, ThreadsFit, TypeOK
<1>4. Alone'
  <2> SUFFICES ASSUME NEW u \in Thread, At(u, "tokenizing")'
               PROVE  holder' = {u} /\ Wanted(u)'.key \notin Keys(items)'
    BY DEF Alone
  <2>1. u # t /\ thread'[u] = thread[u]
    BY <1>1 DEF At
  <2>2. At(u, "tokenizing") /\ Wanted(u)' = Wanted(u)
    BY <2>1 DEF At, Wanted
  <2> QED BY <2>2 DEF IInv, Alone
<1>5. Stored' /\ BudgetKept'
  BY DEF IInv, Stored, BudgetKept, Counted, Distinct
<1> QED BY <1>3, <1>4, <1>5 DEF IInv

LEMMA BeginKeeps ==
  ASSUME IInv, NEW t \in Thread, NEW d \in Document, Begin(t, d)
  PROVE  IInv'
<1>1. PICK p \in {"refused", "lookup"} : thread' = [thread EXCEPT ![t].doc = d, ![t].pc = p]
  <2>1. PICK q \in Asked : thread' = [thread EXCEPT ![t].doc = d,
                              ![t].pc = IF TooMany(q) THEN "refused" ELSE "lookup"]
    BY DEF Begin
  <2> QED BY <2>1
<1>2. thread[t] = [pc |-> thread[t].pc, doc |-> thread[t].doc,
                   prefix |-> thread[t].prefix, jobs |-> thread[t].jobs]
  BY DEF IInv, ThreadsFit
<1>3. thread' = [thread EXCEPT ![t] = thread'[t]]
  BY <1>1 DEF IInv, ThreadsFit
<1>4. UNCHANGED <<compiler, holder, items, tokens>> /\ compiler \in Compilers
  <2>1. compiler.ok /\ NoCompiler.ok = FALSE
    BY DEF Begin, NoCompiler
  <2>2. compiler # NoCompiler
    BY <2>1
  <2> QED BY <2>2 DEF Begin, cacheVars, IInv, ThreadsFit
<1>5. thread'[t] = [pc |-> p, doc |-> d, prefix |-> thread[t].prefix, jobs |-> thread[t].jobs]
  <2>1. thread'[t] = [thread[t] EXCEPT !.doc = d, !.pc = p]
    BY <1>1 DEF IInv, ThreadsFit
  <2> QED BY <1>2, <2>1
<1> DEFINE r == thread'[t]
<1>6. /\ r = [pc |-> r.pc, doc |-> r.doc, prefix |-> r.prefix, jobs |-> r.jobs]
      /\ r.pc = p /\ r.doc = d
  BY <1>5
<1>7. thread' = [thread EXCEPT ![t] = r]
  BY <1>3, Zenon
<1> HIDE DEF r
<1> QED BY <1>4, <1>6, <1>7, ElsewhereKeeps

LEMMA QuestionsKeep == ASSUME IInv, NEW t \in Thread, Questions(t) PROVE IInv'
<1>1. PICK jobs : \/ thread' = [thread EXCEPT ![t].pc = "compiled", ![t].jobs = jobs]
                  \/ thread' = [thread EXCEPT ![t].pc = "refused"]
  <2>1. \E r \in Legal :
          LET jobs == [i \in DOMAIN r |-> Job(t, r[i])]
          IN  \/ thread' = [thread EXCEPT ![t].pc = "compiled", ![t].jobs = jobs]
              \/ thread' = [thread EXCEPT ![t].pc = "refused"]
    BY Zenon DEF Questions
  <2> QED BY <2>1
<1>2. thread[t] = [pc |-> thread[t].pc, doc |-> thread[t].doc,
                   prefix |-> thread[t].prefix, jobs |-> thread[t].jobs]
  BY DEF IInv, ThreadsFit
<1>3. UNCHANGED <<compiler, holder, items, tokens>>
  BY DEF Questions, cacheVars
<1>4. thread' = [thread EXCEPT ![t] = thread'[t]]
  BY <1>1 DEF IInv, ThreadsFit
<1>5. \/ thread'[t] = [pc |-> "compiled", doc |-> thread[t].doc,
                       prefix |-> thread[t].prefix, jobs |-> jobs]
      \/ thread'[t] = [pc |-> "refused", doc |-> thread[t].doc,
                       prefix |-> thread[t].prefix, jobs |-> thread[t].jobs]
  <2>1. \/ thread'[t] = [thread[t] EXCEPT !.pc = "compiled", !.jobs = jobs]
        \/ thread'[t] = [thread[t] EXCEPT !.pc = "refused"]
    BY <1>1 DEF IInv, ThreadsFit
  <2> QED BY <1>2, <2>1
<1> DEFINE r == thread'[t]
<1>6. /\ r = [pc |-> r.pc, doc |-> r.doc, prefix |-> r.prefix, jobs |-> r.jobs]
      /\ r.pc \in {"compiled", "refused"}
  BY <1>5
<1>7. thread' = [thread EXCEPT ![t] = r]
  BY <1>4, Zenon
<1> HIDE DEF r
<1> QED BY <1>3, <1>6, <1>7, ElsewhereKeeps

LEMMA ReturnKeeps == ASSUME IInv, NEW t \in Thread, Return(t) PROVE IInv'
<1>1. thread' = [thread EXCEPT ![t] = Idle] /\ UNCHANGED <<compiler, holder, items, tokens>>
  BY DEF Return, cacheVars
<1>2. /\ Idle = [pc |-> Idle.pc, doc |-> Idle.doc, prefix |-> Idle.prefix, jobs |-> Idle.jobs]
      /\ Idle.pc = "idle"
  BY DEF Idle
<1> QED BY <1>1, <1>2, ElsewhereKeeps

LEMMA StutterKeeps == ASSUME IInv, UNCHANGED vars PROVE IInv'
BY DEF IInv, TypeOK, ThreadsFit, Alone, Wanted, At, Stored, BudgetKept, Counted, Distinct, vars

LEMMA NextIInv == IInv /\ [Next]_vars => IInv'
<1> SUFFICES ASSUME IInv, [Next]_vars PROVE IInv'
  OBVIOUS
<1>1. ASSUME NEW t \in Thread, Step(t) PROVE IInv'
  BY <1>1, HitKeeps, MissKeeps, TokenizedKeeps, QuestionsKeep, ReturnKeeps DEF Step
<1>2. ASSUME NEW t \in Thread, NEW d \in Document, Begin(t, d) PROVE IInv'
  BY <1>2, BeginKeeps
<1>3. CASE UNCHANGED vars
  BY <1>3, StutterKeeps
<1> QED BY <1>1, <1>2, <1>3 DEF Next, Refused

THEOREM Invariance == Spec => []IInv
BY InitIInv, NextIInv, PTL DEF Spec

-----------------------------------------------------------------------------
(* What the cache and the threads hold. *)

\* An entry holds the tokens of its own text, whoever put it there.
EntriesFit == \A i \in DOMAIN items : items[i].ids = Encode(compiler.tokenizer, items[i].key)

\* A job of a document.
JobFits(c, d, job) ==
    /\ job.question \in Questioned /\ SlotIsKept(c, job.question)
    /\ job.prompt = PrefixIds(c, d) \o SuffixIds(c, job.question)
    /\ job.candidates = SubSeq(c.ids, 1, job.question.options)

\* A thread goes on with the prefix of its own document.
Reads(c, x) ==
    /\ x.pc \in {"questions", "compiled"} =>
          c \in Compilers /\ x.doc \in Document /\ x.prefix = PrefixIds(c, x.doc)
    /\ x.pc = "compiled" => \A job \in ToSet(x.jobs) : JobFits(c, x.doc, job)

PromptInv == EntriesFit /\ \A t \in Thread : Reads(compiler, thread[t])

-----------------------------------------------------------------------------
LEMMA WantedIs ==
  ASSUME NEW t \in Thread, compiler \in Compilers, thread[t].doc \in Document
  PROVE  LET d == thread[t].doc
         IN  /\ Wanted(t).key = PrefixText(compiler, d) /\ Wanted(t).ids = PrefixIds(compiler, d)
             /\ Wanted(t).ids = Encode(compiler.tokenizer, Wanted(t).key)
<1> DEFINE d == thread[t].doc
           key == PrefixText(compiler, d)
           ids == PrefixIds(compiler, d)
<1>1. ids = Encode(compiler.tokenizer, key)
  BY Zenon DEF PrefixIds
<1>2. Wanted(t) = [key |-> key, ids |-> ids]
  BY Zenon DEF Wanted, PrefixOf
<1> HIDE DEF key, ids
<1>3. Wanted(t).key = key /\ Wanted(t).ids = ids
  BY <1>2
<1> QED BY <1>1, <1>3, Zenon DEF key, ids

\* A step that changes one thread and leaves the entries alone.
LEMMA ReadsKept ==
  ASSUME IInv, PromptInv, NEW t \in Thread, compiler' = compiler, EntriesFit',
         NEW r, thread' = [thread EXCEPT ![t] = r], Reads(compiler, r)
  PROVE  PromptInv'
<1>1. thread'[t] = r /\ \A u \in Thread : u # t => thread'[u] = thread[u]
  BY DEF IInv, ThreadsFit
<1>2. ASSUME NEW u \in Thread PROVE Reads(compiler, thread'[u])
  <2>1. CASE u = t
    BY <1>1, <2>1
  <2>2. CASE u # t
    BY <1>1, <2>2 DEF PromptInv
  <2> QED BY <2>1, <2>2
<1> QED BY <1>2 DEF PromptInv

\* A step that leaves the entries alone keeps their texts.
LEMMA EntriesKept == ASSUME PromptInv, UNCHANGED <<compiler, items>> PROVE EntriesFit'
BY DEF PromptInv, EntriesFit

\* A hit takes the tokens of the text that was looked up.
LEMMA HitReads == ASSUME IInv, PromptInv, NEW t \in Thread, Hit(t) PROVE PromptInv'
<1>1. PICK i \in DOMAIN items : /\ items[i].key = Wanted(t).key
                                /\ items' = Append(RemoveAt(items, i), items[i])
                                /\ GoesWith(t, "questions", items[i].ids)
  BY DEF Hit
<1>2. compiler' = compiler /\ At(t, "lookup")
  BY DEF Hit
<1>3. compiler \in Compilers /\ thread[t].doc \in Document
  BY <1>2 DEF At, IInv, ThreadsFit
<1>4. items[i].ids = PrefixIds(compiler, thread[t].doc)
  <2>1. items[i].ids = Encode(compiler.tokenizer, items[i].key)
    BY DEF PromptInv, EntriesFit
  <2> QED BY <1>1, <1>3, <2>1, WantedIs
<1>5. EntriesFit'
  <2> DEFINE T == Range(items)
  <2>1. items \in Seq(T) /\ i \in 1 .. Len(items)
    BY DEF IInv, Stored, Counted, IsText
  <2>2. \A e \in T : e.ids = Encode(compiler.tokenizer, e.key)
    BY DEF PromptInv, EntriesFit, Range
  <2>3. items[i] \in T
    BY DEF Range
  <2> HIDE DEF T
  <2>4. items' \in Seq(T)
    <3> DEFINE x == SubSeq(items, 1, i - 1)
               b == SubSeq(items, i + 1, Len(items))
    <3>1. items' = Append(x \o b, items[i])
      BY <1>1, Zenon DEF RemoveAt
    <3>2. x \in Seq(T) /\ b \in Seq(T)
      BY <2>1
    <3> HIDE DEF x, b
    <3> QED BY <2>3, <3>1, <3>2
  <2>5. \A k \in DOMAIN items' : items'[k] \in T
    BY <2>4
  <2> QED BY <1>2, <2>2, <2>5 DEF EntriesFit
<1> DEFINE ids == items[i].ids
           r == [thread[t] EXCEPT !.pc = "questions", !.prefix = ids]
<1>6. thread' = [thread EXCEPT ![t] = r]
  BY <1>1 DEF GoesWith, IInv, ThreadsFit
<1>7. thread[t] = [pc |-> thread[t].pc, doc |-> thread[t].doc,
                   prefix |-> thread[t].prefix, jobs |-> thread[t].jobs]
  BY DEF IInv, ThreadsFit
<1>8. r.pc = "questions" /\ r.doc = thread[t].doc /\ r.prefix = ids
  BY <1>7
<1>9. Reads(compiler, r)
  <2> HIDE DEF r
  <2> QED BY <1>3, <1>4, <1>8 DEF Reads
<1> HIDE DEF r
<1> QED BY <1>2, <1>5, <1>6, <1>9, ReadsKept

\* What is entered are the tokens of the text, and the thread goes on with them.
LEMMA TokenizedReads == ASSUME IInv, PromptInv, NEW t \in Thread, Tokenized(t) PROVE PromptInv'
<1> DEFINE e == Wanted(t)
<1>1. At(t, "tokenizing") /\ compiler' = compiler
  BY DEF Tokenized
<1>2. compiler \in Compilers /\ thread[t].doc \in Document
  BY <1>1 DEF At, IInv, ThreadsFit
<1>3. e.ids = PrefixIds(compiler, thread[t].doc) /\ e.ids = Encode(compiler.tokenizer, e.key)
  BY <1>2, WantedIs
<1>4. \/ UNCHANGED items
      \/ items' = Append(SubSeq(items, Evicted(e.ids) + 1, Len(items)), e)
  BY DEF Tokenized, Store, cacheVars, Insert
<1>5. \/ thread' = [thread EXCEPT ![t].pc = "questions", ![t].prefix = e.ids]
      \/ thread' = [thread EXCEPT ![t].pc = "refused"]
  BY DEF Tokenized, GoesWith, Goes
<1> HIDE DEF e
<1>6. EntriesFit'
  <2>1. CASE UNCHANGED items
    BY <1>1, <2>1, EntriesKept
  <2>2. CASE items' = Append(SubSeq(items, Evicted(e.ids) + 1, Len(items)), e)
    <3> DEFINE T == Range(items) \union {e}
               n == Evicted(e.ids)
    <3>1. items \in Seq(T) /\ e \in T
      <4>1. items \in Seq(Range(items))
        BY DEF IInv, Stored, Counted, IsText
      <4> QED BY <4>1
    <3>2. \A x \in T : x.ids = Encode(compiler.tokenizer, x.key)
      <4>1. \A x \in Range(items) : x.ids = Encode(compiler.tokenizer, x.key)
        BY DEF PromptInv, EntriesFit, Range
      <4> QED BY <1>3, <4>1
    <3>3. n \in 0 .. Len(items)
      BY EvictedFits DEF IInv, Stored
    <3>4. items' = Append(SubSeq(items, n + 1, Len(items)), e)
      BY <2>2
    <3> HIDE DEF T, n
    <3>5. items' \in Seq(T)
      BY <3>1, <3>3, <3>4
    <3>6. \A k \in DOMAIN items' : items'[k] \in T
      BY <3>5
    <3> QED BY <1>1, <3>2, <3>6 DEF EntriesFit
  <2> QED BY <1>4, <2>1, <2>2
<1>7. thread[t] = [pc |-> thread[t].pc, doc |-> thread[t].doc,
                   prefix |-> thread[t].prefix, jobs |-> thread[t].jobs]
  BY DEF IInv, ThreadsFit
<1>8. PICK r : /\ thread' = [thread EXCEPT ![t] = r]
               /\ \/ r.pc = "questions" /\ r.doc = thread[t].doc /\ r.prefix = e.ids
                  \/ r.pc = "refused"
  <2>1. CASE thread' = [thread EXCEPT ![t].pc = "questions", ![t].prefix = e.ids]
    <3> DEFINE r == [thread[t] EXCEPT !.pc = "questions", !.prefix = e.ids]
    <3>1. thread' = [thread EXCEPT ![t] = r]
      BY <2>1 DEF IInv, ThreadsFit
    <3>2. r.pc = "questions" /\ r.doc = thread[t].doc /\ r.prefix = e.ids
      BY <1>7
    <3> HIDE DEF r
    <3> QED BY <3>1, <3>2
  <2>2. CASE thread' = [thread EXCEPT ![t].pc = "refused"]
    <3> DEFINE r == [thread[t] EXCEPT !.pc = "refused"]
    <3>1. thread' = [thread EXCEPT ![t] = r]
      BY <2>2 DEF IInv, ThreadsFit
    <3>2. r.pc = "refused"
      BY <1>7
    <3> HIDE DEF r
    <3> QED BY <3>1, <3>2
  <2> QED BY <1>5, <2>1, <2>2
<1>9. Reads(compiler, r)
  BY <1>2, <1>3, <1>8 DEF Reads
<1> QED BY <1>1, <1>6, <1>8, <1>9, ReadsKept

\* Each job is the prefix that the thread holds and the suffix of its question.
LEMMA QuestionsRead == ASSUME IInv, PromptInv, NEW t \in Thread, Questions(t) PROVE PromptInv'
<1> DEFINE d == thread[t].doc
<1>1. At(t, "questions") /\ compiler' = compiler /\ items' = items
  BY DEF Questions, cacheVars
<1>2. compiler \in Compilers /\ d \in Document /\ thread[t].prefix = PrefixIds(compiler, d)
  BY <1>1 DEF At, PromptInv, Reads
<1>3. EntriesFit'
  BY <1>1, EntriesKept
<1>4. thread[t] = [pc |-> thread[t].pc, doc |-> d,
                   prefix |-> thread[t].prefix, jobs |-> thread[t].jobs]
  BY DEF IInv, ThreadsFit
<1>5. PICK l \in Legal :
        \/ thread' = [thread EXCEPT ![t].pc = "refused"]
        \/ /\ \A i \in DOMAIN l : SuffixOf[compiler][l[i]].kept
           /\ thread' = [thread EXCEPT ![t].pc = "compiled", ![t].jobs = [i \in DOMAIN l |-> Job(t, l[i])]]
  BY Zenon DEF Questions
<1> DEFINE jobs == [i \in DOMAIN l |-> Job(t, l[i])]
<1>6. CASE thread' = [thread EXCEPT ![t].pc = "refused"]
  <2> DEFINE r == [thread[t] EXCEPT !.pc = "refused"]
  <2>1. thread' = [thread EXCEPT ![t] = r]
    BY <1>6 DEF IInv, ThreadsFit
  <2>2. r.pc = "refused"
    BY <1>4
  <2> HIDE DEF r
  <2>3. Reads(compiler, r)
    BY <2>2 DEF Reads
  <2> QED BY <1>1, <1>3, <2>1, <2>3, ReadsKept
<1>7. CASE /\ \A i \in DOMAIN l : SuffixOf[compiler][l[i]].kept
           /\ thread' = [thread EXCEPT ![t].pc = "compiled", ![t].jobs = jobs]
  <2>1. ASSUME NEW job \in ToSet(jobs) PROVE JobFits(compiler, d, job)
    <3>1. PICK i \in DOMAIN l : job = Job(t, l[i])
      BY DEF ToSet
    <3> DEFINE q == l[i]
               s == SuffixOf[compiler][q]
    <3>2. q \in Questioned
      BY DEF Questioned, ToSet
    <3>3. s = [ids |-> SuffixIds(compiler, q), kept |-> SlotIsKept(compiler, q)]
      <4> HIDE DEF q
      <4> QED BY <1>2, <3>2, Zenon DEF SuffixOf
    <3>4. job = [question |-> q, prompt |-> thread[t].prefix \o s.ids,
                 candidates |-> SubSeq(compiler.ids, 1, q.options)]
      BY <3>1, Zenon DEF Job
    <3>5. s.kept
      BY <1>7
    <3> HIDE DEF q, s
    <3>6. s.ids = SuffixIds(compiler, q) /\ (s.kept <=> SlotIsKept(compiler, q))
      BY <3>3
    <3>7. /\ job.question = q /\ job.prompt = thread[t].prefix \o s.ids
          /\ job.candidates = SubSeq(compiler.ids, 1, q.options)
      BY <3>4
    <3> QED BY <1>2, <3>2, <3>5, <3>6, <3>7, Zenon DEF JobFits
  <2> HIDE DEF jobs
  <2> DEFINE r == [thread[t] EXCEPT !.pc = "compiled", !.jobs = jobs]
  <2>2. thread' = [thread EXCEPT ![t] = r]
    BY <1>7 DEF IInv, ThreadsFit
  <2>3. r.pc = "compiled" /\ r.doc = d /\ r.prefix = thread[t].prefix /\ r.jobs = jobs
    BY <1>4
  <2> HIDE DEF r
  <2>4. Reads(compiler, r)
    BY <1>2, <2>1, <2>3 DEF Reads
  <2> QED BY <1>1, <1>3, <2>2, <2>4, ReadsKept
<1> QED BY <1>5, <1>6, <1>7

\* A thread that begins, looks up in vain or is done reads nothing yet.
LEMMA ElsewhereReads ==
  ASSUME IInv, PromptInv, NEW t \in Thread, UNCHANGED <<compiler, items>>,
         NEW r, thread' = [thread EXCEPT ![t] = r], r.pc \in {"idle", "lookup", "tokenizing", "refused"}
  PROVE  PromptInv'
<1>1. Reads(compiler, r)
  BY DEF Reads
<1> QED BY <1>1, EntriesKept, ReadsKept

LEMMA OthersRead ==
  ASSUME IInv, PromptInv, NEW t \in Thread,
         Miss(t) \/ Return(t) \/ \E d \in Document : Begin(t, d)
  PROVE  PromptInv'
<1>1. UNCHANGED <<compiler, items>>
  BY DEF Miss, Return, Begin, cacheVars
<1>2. thread[t] = [pc |-> thread[t].pc, doc |-> thread[t].doc,
                   prefix |-> thread[t].prefix, jobs |-> thread[t].jobs]
  BY DEF IInv, ThreadsFit
<1>3. CASE Miss(t)
  <2> DEFINE r == [thread[t] EXCEPT !.pc = "tokenizing"]
  <2>1. thread' = [thread EXCEPT ![t] = r]
    BY <1>3 DEF Miss, Goes, IInv, ThreadsFit
  <2>2. r.pc = "tokenizing"
    BY <1>2
  <2> HIDE DEF r
  <2> QED BY <1>1, <2>1, <2>2, ElsewhereReads
<1>4. CASE Return(t)
  <2>1. thread' = [thread EXCEPT ![t] = Idle] /\ Idle.pc = "idle"
    BY <1>4 DEF Return, Idle
  <2> QED BY <1>1, <2>1, ElsewhereReads
<1>5. ASSUME NEW d \in Document, Begin(t, d) PROVE PromptInv'
  <2>1. PICK p \in {"refused", "lookup"} : thread' = [thread EXCEPT ![t].doc = d, ![t].pc = p]
    <3>1. PICK q \in Asked : thread' = [thread EXCEPT ![t].doc = d,
                                ![t].pc = IF TooMany(q) THEN "refused" ELSE "lookup"]
      BY <1>5 DEF Begin
    <3> QED BY <3>1
  <2> DEFINE r == [thread[t] EXCEPT !.doc = d, !.pc = p]
  <2>2. thread' = [thread EXCEPT ![t] = r]
    BY <2>1 DEF IInv, ThreadsFit
  <2>3. r.pc = p
    BY <1>2
  <2> HIDE DEF r
  <2> QED BY <1>1, <2>2, <2>3, ElsewhereReads
<1> QED BY <1>3, <1>4, <1>5

\* What the entries, the threads and the jobs hold are the tokens of their texts.
LEMMA PromptInvariance == Spec => []PromptInv
<1>1. Init => PromptInv
  <2> SUFFICES ASSUME Init PROVE PromptInv
    OBVIOUS
  <2>1. items = <<>> /\ \A t \in Thread : thread[t].pc = "idle"
    BY DEF Init, Idle
  <2> QED BY <2>1 DEF PromptInv, EntriesFit, Reads
<1>2. IInv /\ PromptInv /\ [Next]_vars => PromptInv'
  <2> SUFFICES ASSUME IInv, PromptInv, [Next]_vars PROVE PromptInv'
    OBVIOUS
  <2>1. ASSUME NEW t \in Thread, Step(t) PROVE PromptInv'
    BY <2>1, HitReads, TokenizedReads, QuestionsRead, OthersRead DEF Step
  <2>2. ASSUME NEW t \in Thread, NEW d \in Document, Begin(t, d) PROVE PromptInv'
    BY <2>2, OthersRead
  <2>3. CASE UNCHANGED vars
    BY <2>3 DEF vars, PromptInv, EntriesFit
  <2> QED BY <2>1, <2>2, <2>3 DEF Next, Refused
<1> QED BY <1>1, <1>2, Invariance, PTL DEF Spec

-----------------------------------------------------------------------------
\* A question of a request that is not refused may be asked.
LEMMA QuestionedIs == ASSUME NEW q \in Questioned PROVE IsQuestion(q)
<1>1. PICK r \in Legal : q \in ToSet(r)
  BY DEF Questioned
<1>2. PICK i \in DOMAIN r : q = r[i]
  BY <1>1 DEF ToSet
<1>3. r \in Asked /\ ~(r[i].options > MaxOptions)
  BY DEF Legal, TooMany
<1>4. IsText(r[i].text) /\ r[i].options \in Nat /\ MaxOptions \in Nat
  BY <1>3, TextAssumption, CacheAssumption
<1> QED BY <1>2, <1>3, <1>4 DEF IsQuestion

\* What holds of a job of a document that a checked compiler read.
LEMMA JobIsWhole ==
  ASSUME NEW c \in Checked, NEW d \in Document, NEW job, JobFits(c, d, job)
  PROVE  LET whole == Whole[c][d][job.question]
         IN  /\ job.prompt = whole.prompt
             /\ \A k \in 1 .. job.question.options :
                   Append(job.prompt, job.candidates[k]) = whole.coded[k]
             /\ IsInjective(job.candidates)
             /\ Specials([i \in DOMAIN job.prompt |-> job.prompt[i][1]]) = whole.specials
<1> DEFINE q == job.question
           text == Render(c, d, q)
           ids == Encode(c.tokenizer, text)
           o == q.options
           coded == [k \in 1 .. o |-> Encode(c.tokenizer, text \o c.codes[k])]
           specials == Specials(c.skeleton)
           whole == Whole[c][d][q]
<1>1. c \in Compilers /\ Verified(c) /\ IsText(d)
  BY CacheAssumption DEF Checked
<1>2. q \in Questioned /\ IsQuestion(q) /\ SlotIsKept(c, q)
  BY QuestionedIs DEF JobFits
<1>3. /\ PrefixIds(c, d) \o SuffixIds(c, q) = ids
      /\ \A k \in 1 .. o : Encode(c.tokenizer, text \o c.codes[k]) = Append(ids, c.ids[k])
      /\ Specials(Heads(ids)) = specials
  BY <1>1, <1>2, PromptIsWhole, Zenon
<1>4. whole = [prompt |-> ids, specials |-> specials, coded |-> coded]
  <2> HIDE DEF q
  <2> QED BY <1>2, Zenon DEF Whole
<1>5. job.prompt = ids /\ job.candidates = SubSeq(c.ids, 1, o)
  BY <1>3, Zenon DEF JobFits
<1>6. /\ Part(SubSeq(c.codes, 1, o), c.codes, 1, o) /\ c.ids = c.codes
      /\ o \in Nat /\ o <= Len(c.codes)
  BY <1>1, <1>2, CodesAre
<1>7. \A k \in 1 .. Len(c.codes) : \A j \in 1 .. Len(c.codes) : c.ids[j] = c.ids[k] => j = k
  BY <1>1, <1>2, CodesAre
<1> HIDE DEF text, ids, o, q, whole, specials
<1>8. Part(job.candidates, c.ids, 1, o)
  BY <1>5, <1>6, Zenon
<1>9. DOMAIN job.candidates = 1 .. o /\ \A k \in 1 .. o : job.candidates[k] = c.ids[k]
  <2>1. o - 1 + 1 = o /\ \A k \in 1 .. o : 1 + k - 1 = k
    BY <1>6
  <2> QED BY <1>8, <2>1, TextIs DEF Part
<1>10. IsInjective(job.candidates)
  <2>1. \A k \in 1 .. o : k \in 1 .. Len(c.codes)
    <3>1. Len(c.codes) \in Nat
      BY <1>6 DEF Part, IsText
    <3> QED BY <1>6, <3>1
  <2> QED BY <1>7, <1>9, <2>1 DEF IsInjective
<1>11. \A k \in 1 .. o : Append(job.prompt, job.candidates[k]) = coded[k]
  BY <1>3, <1>5, <1>9
<1>12. Specials([i \in DOMAIN job.prompt |-> job.prompt[i][1]]) = specials
  BY <1>3, <1>5, Zenon DEF Heads
<1> HIDE DEF coded
<1>13. whole.prompt = ids /\ whole.coded = coded /\ whole.specials = specials
  BY <1>4
<1> QED BY <1>5, <1>10, <1>11, <1>12, <1>13, Zenon DEF whole, q, o

-----------------------------------------------------------------------------
\* The state keeps its shape.
THEOREM TypeCorrect == Spec => []TypeOK
BY Invariance, PTL DEF IInv

\* However threads look up and enter documents, the running count is the size
\* of what is stored, no document is stored twice and both limits hold
\* (prompts.py:83-97).
THEOREM BudgetIsKept == Spec => []BudgetKept
BY Invariance, PTL DEF IInv

\* An entry goes only for the document just tokenized, which needs its room and
\* is stored, and after all that were used less recently (prompts.py:88-97).
THEOREM EvictionIsNeedful == Spec => NeedfulEviction
<1> DEFINE Dropped(i) == items[i].key \notin Keys(items)'
           Room(t, i) == \/ Len(items) - i + 1 >= Entries
                         \/ Size(SubSeq(items, i, Len(items))) + Len(Wanted(t).ids) > TokenBudget
           Needful(t, i) == /\ At(t, "tokenizing") /\ Wanted(t).key \in Keys(items)'
                            /\ \A j \in 1 .. i : Dropped(j)
                            /\ Room(t, i)
           Needed == \A i \in DOMAIN items : Dropped(i) => \E t \in Thread : Needful(t, i)
<1>1. ASSUME IInv, Keys(items)' = Keys(items) PROVE Needed
  BY <1>1 DEF Keys
<1>2. ASSUME UNCHANGED items PROVE Keys(items)' = Keys(items)
  BY <1>2 DEF Keys
<1>3. ASSUME IInv, NEW t \in Thread, Tokenized(t), ~UNCHANGED items PROVE Needed
  <2> DEFINE e == Wanted(t)
  <2>1. Len(e.ids) \in Nat /\ e.key \notin Keys(items) /\ Cacheable(e.ids) /\ Insert(e)
    BY <1>3, TokenizedKeeps
  <2>2. Counted(items) /\ Distinct(items) /\ BudgetKept
    BY <1>3 DEF IInv, Stored
  <2> HIDE DEF e
  <2> DEFINE n == Evicted(e.ids)
  <2>3. /\ e.key \in Keys(items)'
        /\ \A k \in DOMAIN items : items[k].key \in Keys(items)' <=> k > n
    BY <2>1, <2>2, Entered
  <2>4. n \in 0 .. Len(items) /\ \A k \in 0 .. n - 1 : ~Enters(k, e.ids)
    BY <2>2, EvictedFits
  <2>5. DOMAIN items = 1 .. Len(items) /\ Len(items) \in Nat
    BY <2>2 DEF Counted, IsText
  <2> HIDE DEF n
  <2> SUFFICES ASSUME NEW i \in DOMAIN items, Dropped(i) PROVE Needful(t, i)
    OBVIOUS
  <2>6. i \in 1 .. n
    BY <2>3, <2>4, <2>5
  <2>7. \A j \in 1 .. i : Dropped(j)
    BY <2>3, <2>4, <2>5, <2>6
  <2>8. i - 1 \in 0 .. n - 1 /\ (i - 1) + 1 = i /\ i - 1 \in 0 .. Len(items)
    BY <2>4, <2>5, <2>6
  <2> DEFINE kept == SubSeq(items, i, Len(items))
  <2>9. Len(kept) = Len(items) - i + 1 /\ Counted(kept)
    <3>1. /\ Len(SubSeq(items, (i - 1) + 1, Len(items))) = Len(items) - (i - 1)
          /\ Counted(SubSeq(items, (i - 1) + 1, Len(items)))
      BY <2>2, <2>8, SizeSplit
    <3> QED BY <2>5, <2>8, <3>1
  <2>10. ~(Len(kept) < Entries /\ Size(kept) + Len(e.ids) <= TokenBudget)
    BY <2>4, <2>8 DEF Enters
  <2> HIDE DEF kept
  <2>11. \/ Len(items) - i + 1 >= Entries
         \/ Size(kept) + Len(e.ids) > TokenBudget
    BY <2>1, <2>5, <2>9, <2>10, SizeCounts, CacheAssumption
  <2>12. At(t, "tokenizing")
    BY <1>3 DEF Tokenized
  <2> QED BY <2>3, <2>7, <2>11, <2>12, Zenon DEF kept, e
<1>4. IInv /\ [Next]_vars => [Needed]_vars
  <2> SUFFICES ASSUME IInv, Next PROVE Needed
    OBVIOUS
  <2>1. ASSUME NEW t \in Thread, Step(t) PROVE Needed
    <3>1. CASE Hit(t)
      BY <1>1, <3>1, HitKeeps
    <3>2. CASE Miss(t) \/ Questions(t) \/ Return(t)
      BY <1>1, <1>2, <3>2 DEF Miss, Questions, Return, cacheVars
    <3>3. CASE Tokenized(t)
      BY <1>1, <1>2, <1>3, <3>3
    <3> QED BY <2>1, <3>1, <3>2, <3>3 DEF Step
  <2>2. ASSUME NEW t \in Thread, NEW d \in Document, Begin(t, d) PROVE Needed
    BY <1>1, <1>2, <2>2 DEF Begin, cacheVars
  <2>3. CASE UNCHANGED vars
    BY <1>1, <1>2, <2>3 DEF vars
  <2> QED BY <2>1, <2>2, <2>3 DEF Next, Refused
<1>5. Spec => [][Needed]_vars
  BY <1>4, Invariance, PTL DEF Spec
<1> QED BY <1>5 DEF NeedfulEviction

\* Tokenizing the document apart, and reusing it from the cache, changes nothing:
\* what is scored is the tokenization of the whole text, the token scored for an
\* option is what its code adds to that text, no two options share one, and a
\* document that spells special tokens adds none (prompts.py:1-6, 50-53, 101-152,
\* 186-210).
THEOREM PromptsAreTheText == Spec => []PromptIsTheText
<1>1. PromptInv => PromptIsTheText
  <2> SUFFICES ASSUME PromptInv, NEW t \in Thread, At(t, "compiled"), compiler \in Checked,
                      NEW job \in ToSet(thread[t].jobs)
               PROVE  LET whole == Whole[compiler][thread[t].doc][job.question]
                      IN  /\ job.prompt = whole.prompt
                          /\ \A k \in 1 .. job.question.options :
                                Append(job.prompt, job.candidates[k]) = whole.coded[k]
                          /\ IsInjective(job.candidates)
                          /\ Specials([i \in DOMAIN job.prompt |-> job.prompt[i][1]]) = whole.specials
    BY Zenon DEF PromptIsTheText
  <2>1. thread[t].doc \in Document /\ JobFits(compiler, thread[t].doc, job)
    BY DEF PromptInv, Reads, At
  <2> QED BY <2>1, JobIsWhole, Zenon
<1> QED BY <1>1, PromptInvariance, PTL
=============================================================================
