----------------------------- MODULE CacheCheck -----------------------------
(***************************************************************************)
(* client.verify_cache against a gateway and an engine whose prefix cache  *)
(* may be broken: every question alone under a fresh salt (cold), then the *)
(* whole request twice under one more fresh salt (primed, warm), and a     *)
(* verdict on whether reuse changes answers.  The gateway scores a         *)
(* question in one or more calls, all with the question's prompt and the   *)
(* request's salt.  The engine keys its cache by the salt, evicts as it    *)
(* likes and tells how many tokens it reused, or does not tell.            *)
(***************************************************************************)
EXTENDS Integers, FiniteSets

CONSTANTS Question,   \* the questions are 1 .. Question, all on one document
          Chunks,     \* the scoring calls of each: options over logprob_chunk_size
          Answer,     \* the distributions a question may be answered with,
          Near,       \* the pairs of them within the tolerance,
          Selects,     \* and the option each of them selects
          Engines     \* what the engine may be: [answer, caches, tells]

Questions == 1 .. Question
Parts(q) == 1 .. Chunks[q]
ScoringCalls == UNION {{q} \X Parts(q) : q \in Questions}

\* answer[q][R] is the answer to q if just its calls R reuse what another call
\* has computed.  How much of the prompt a call reuses is not told apart.
ASSUME CheckAssumption ==
    /\ Question \in Nat \ {0} /\ Chunks \in [Questions -> Nat \ {0}]
    /\ Near \subseteq Answer \X Answer /\ \A a \in Answer : <<a, a>> \in Near
    /\ \A e \in Engines : /\ e.caches \in BOOLEAN /\ e.tells \in BOOLEAN
                          /\ \A q \in Questions : e.answer[q] \in [SUBSET Parts(q) -> Answer]

VARIABLES engine,   \* the engine, one of Engines
          step,     \* the request being made, or "over"
          todo,     \* the calls of that request without a reply yet
          cache,    \* the salts under which the engine holds the document
          evicted,  \* it dropped the shared salt before its last use
          reused,   \* the calls of each request computed with reuse
          verdict   \* "none", "passed", "failed", "raised"

vars == <<engine, step, todo, cache, evicted, reused, verdict>>

Shared == 0             \* the salt of the primed and the warm request
Steps == {"cold", "primed", "warm"}

TypeOK == /\ engine \in Engines
          /\ step \in Steps \union {"over"}
          /\ todo \subseteq ScoringCalls
          /\ cache \subseteq 0 .. Question
          /\ evicted \in BOOLEAN
          /\ reused \in [Steps -> SUBSET ScoringCalls]
          /\ verdict \in {"none", "passed", "failed", "raised"}

Init == /\ engine \in Engines
        /\ step = "cold" /\ todo = ScoringCalls
        /\ cache = {} /\ evicted = FALSE
        /\ reused = [s \in Steps |-> {}]
        /\ verdict = "none"

-----------------------------------------------------------------------------
(* Names of the form X_y are mutated forms of X: plausible bugs against     *)
(* which the properties are tried out.  The specification never uses them. *)

\* A namespace with a new uuid, hashed into the salt, is one nobody has used;
\* the calls of one question have it in common.
Salt_oneForAll(q) == Shared
Salt(q) == IF step = "cold" THEN q ELSE Shared

\* Cold requests are made one after the other, and each is serial; the gateway
\* makes the calls of the other two in any order, the first alone if it primes.
InTurn(q, c) == step = "cold" => \A k \in todo : q < k[1] \/ (q = k[1] /\ c <= k[2])

\* Calls of a fan-out overlap: the engine may compute one before another has
\* filled the cache, unless the request before has left it filled.
Overlap == step = "primed" \/ (step = "warm" /\ evicted)

\* One scoring call of the engine.
Score(q, c) ==
    /\ <<q, c>> \in todo
    /\ InTurn(q, c)
    /\ \/ /\ Salt(q) \in cache
          /\ reused' = [reused EXCEPT ![step] = @ \union {<<q, c>>}]
       \/ (Salt(q) \notin cache \/ Overlap) /\ UNCHANGED reused
    /\ cache' = IF engine.caches THEN cache \union {Salt(q)} ELSE cache
    /\ todo' = todo \ {<<q, c>>}
    /\ UNCHANGED <<engine, step, evicted, verdict>>

Evict(s) == /\ s \in cache
            /\ step # "over"
            /\ cache' = cache \ {s}
            /\ evicted' = (evicted \/ s = Shared)
            /\ UNCHANGED <<engine, step, todo, reused, verdict>>

NextRequest == /\ todo = {}
               /\ step \in {"cold", "primed"}
               /\ step' = IF step = "cold" THEN "primed" ELSE "warm"
               /\ todo' = ScoringCalls
               /\ UNCHANGED <<engine, cache, evicted, reused, verdict>>

\* The gateway refuses or cannot be reached.
RequestFails == /\ todo # {}
                /\ step' = "over" /\ todo' = {} /\ verdict' = "raised"
                /\ UNCHANGED <<engine, cache, evicted, reused>>

-----------------------------------------------------------------------------
(* The verdict. *)

\* The answer to a question in the response of a request.
Given(s, q) == engine.answer[q][{c \in Parts(q) : <<q, c>> \in reused[s]}]

Compared_firstOnly == {"primed"}

\* Both shared requests are compared with the cold ones.
Compared == {"primed", "warm"}

WithinTolerance == \A s \in Compared, q \in Questions : <<Given(s, q), Given("cold", q)>> \in Near
Agreement == \A s \in Compared, q \in Questions : Selects[Given(s, q)] = Selects[Given("cold", q)]

\* usage.backend_cached_prompt_tokens of a request: none if the engine does not
\* tell, or else the sum over its calls.
Usage(s) == IF engine.tells THEN Cardinality(reused[s]) ELSE 0

HitObserved_anywhere == \E s \in {"primed", "warm"} : Usage(s) > 0
HitObserved == Usage("warm") > 0

Judge == /\ step = "warm" /\ todo = {}
         /\ step' = "over"
         /\ verdict' = IF WithinTolerance /\ Agreement /\ HitObserved THEN "passed" ELSE "failed"
         /\ UNCHANGED <<engine, todo, cache, evicted, reused>>

Over == step = "over" /\ UNCHANGED vars

Next == \/ \E q \in Questions : \E c \in Parts(q) : Score(q, c)
        \/ \E s \in cache : Evict(s)
        \/ NextRequest \/ RequestFails \/ Judge \/ Over

Spec == Init /\ [][Next]_vars

-----------------------------------------------------------------------------
Agree(a, b) == <<a, b>> \in Near /\ Selects[a] = Selects[b]
Afresh(q) == engine.answer[q][{}]
ColdIsAfresh(q) == \A c \in Parts(q) : <<q, c>> \notin reused["cold"]

\* A pass is worth this much: the last request reused the document; the answer
\* to a question of one call was compared with one computed afresh and agrees
\* with it, in both requests, and so does that to any other question whose cold
\* calls happened to reuse nothing (at least the first of them never does).
Worth ==
    /\ \E q \in Questions : \E c \in Parts(q) : <<q, c>> \in reused["warm"]
    /\ \A q \in Questions :
          /\ <<q, 1>> \notin reused["cold"]
          /\ Chunks[q] = 1 => ColdIsAfresh(q)
          /\ ColdIsAfresh(q) => \A s \in {"primed", "warm"} : Agree(Given(s, q), Afresh(q))

\* A failure has a cause: reuse changes an answer, or the engine does not reuse,
\* does not tell, or has dropped the document.
HasCause ==
    \/ \E q \in Questions : \E R, S \in SUBSET Parts(q) :
          ~Agree(engine.answer[q][R], engine.answer[q][S])
    \/ ~engine.caches \/ ~engine.tells \/ evicted

\* Whatever the engine is and whenever it evicts, and however many calls a
\* question takes, a pass is worth that much and a failure has a cause
\* (client.py:277-321, service.py:153-163, 199-214).
VerdictIsRight == (verdict = "passed" => Worth) /\ (verdict = "failed" => HasCause)
=============================================================================
