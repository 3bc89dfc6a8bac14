--------------------------- MODULE ScoreAssembly ---------------------------
(***************************************************************************)
(* What one request scores and what it makes of the replies: service's     *)
(* division of the candidates into chunks, backend.parse_scores on each    *)
(* reply, and the assembly of the chunks into one answer per question.     *)
(* The calls complete in any order the execution mode allows, and the      *)
(* engine may spoil any of its replies.                                    *)
(***************************************************************************)
EXTENDS Integers, Sequences, FiniteSets, FiniteSetsExt

CONSTANTS Batch,     \* the number of questions
          MaxOptions,\* the largest number of options of one
          ChunkSize, \* backend.logprob_chunk_size
          Scores     \* the log-probabilities told apart

Masked == 1          \* a value parse_scores refuses: not finite, <= -9999 or > 1e-5

ASSUME AssemblyAssumption == /\ Batch \in Nat \ {0} /\ MaxOptions \in Nat \ {0, 1}
                             /\ ChunkSize \in Nat \ {0}
                             /\ Scores \subseteq Int /\ Masked \notin Scores

Asked == 1 .. Batch
Token == 1 .. MaxOptions     \* code_ids: the i-th stands for option i of every question

VARIABLES options,  \* the number of options of each question
          logits,   \* what the engine holds for each question: the truth
          mode,     \* "primed", "serial" or "parallel"
          primed,   \* primed_result
          results,  \* the results of the remaining calls, in the order of the calls
          status,   \* "scoring", "answered" or "error"
          response  \* the answers of the response

assemblyVars == <<options, logits, mode, primed, results, status, response>>
input == <<options, logits, mode>>

-----------------------------------------------------------------------------
(* Names of the form X_y are mutated forms of X: plausible bugs against     *)
(* which the properties are tried out.  The specification never uses them. *)

Starts_short(q) == {k * ChunkSize + 1 : k \in 0 .. options[q]} \intersect (1 .. options[q] - 1)

\* range(0, len(candidate_ids), size), counted from 1.
Starts(q) == {k * ChunkSize + 1 : k \in 0 .. options[q]} \intersect (1 .. options[q])

\* One item per chunk, question after question: <<question, first candidate>>.
Chunk(q, from) == [question |-> q, ids |-> {t \in from .. from + ChunkSize - 1 : t <= options[q]}]
Calls == UNION {{q} \X Starts(q) : q \in Asked}
UpTo(w) == {v \in Calls : v[1] < w[1] \/ (v[1] = w[1] /\ v[2] <= w[2])}
Nth(i) == CHOOSE w \in Calls : Cardinality(UpTo(w)) = i
Work == [i \in 1 .. Cardinality(Calls) |-> Chunk(Nth(i)[1], Nth(i)[2])]

Remaining == IF mode = "primed" THEN Tail(Work) ELSE Work

\* A truthful reply: the candidates and perhaps the sampled token besides;
\* the prompt tokens counted and, perhaps, those found in the cache.
PromptLen == 9
Unknown == -1
Truthful(w) == [finish : {"length"}, prompt : {PromptLen}, completion : {1}, cached : {Unknown, 5},
                row : {[t \in w.ids \union sampled |-> logits[w.question][t]] :
                         sampled \in {{}} \union {{u} : u \in Token}}]

\* A reply spoilt in one place.
Spoilt(w) ==
    UNION {{[r EXCEPT !.finish = "stop"], [r EXCEPT !.prompt = @ - 1], [r EXCEPT !.completion = 2],
            [r EXCEPT !.cached = PromptLen + 1]}
           \union {[r EXCEPT !.row = [t \in DOMAIN r.row \ {u} |-> r.row[t]]] : u \in w.ids}
           \union {[r EXCEPT !.row[u] = Masked] : u \in w.ids} : r \in Truthful(w)}

\* parse_scores: a reply it accepts, and what it keeps of one.
Valid(w, r) == /\ r.finish = "length"
               /\ \A t \in w.ids : t \in DOMAIN r.row /\ r.row[t] # Masked
               /\ r.prompt = PromptLen /\ r.completion = 1
               /\ r.cached = Unknown \/ r.cached \in 0 .. r.prompt

Kept(w, r) == [t \in w.ids |-> r.row[t]]

Nothing == <<>>

AssemblyInit ==
    /\ options \in [Asked -> 2 .. MaxOptions]
    /\ logits \in [Asked -> [Token -> Scores]]
    /\ mode \in {"primed", "serial", "parallel"} /\ (mode = "primed" => Len(Work) > 1)
    /\ primed = Nothing
    /\ results = [i \in DOMAIN Remaining |-> Nothing]
    /\ status = "scoring"
    /\ response = Nothing

-----------------------------------------------------------------------------
Prime == /\ mode = "primed" /\ primed = Nothing /\ status = "scoring"
         /\ \E r \in Truthful(Work[1]) \union Spoilt(Work[1]) :
              IF Valid(Work[1], r) THEN primed' = Kept(Work[1], r) /\ UNCHANGED status
                                   ELSE status' = "error" /\ UNCHANGED primed
         /\ UNCHANGED <<input, results, response>>

\* Serial execution takes the calls in order, gather takes them as they come.
Missing == {i \in DOMAIN results : results[i] = Nothing}
Returns(i) ==
    /\ status = "scoring" /\ (mode = "primed" => primed # Nothing)
    /\ i \in Missing /\ (mode = "serial" => i = Min(Missing))
    /\ \E r \in Truthful(Remaining[i]) \union Spoilt(Remaining[i]) :
         IF Valid(Remaining[i], r)
         THEN results' = [results EXCEPT ![i] = Kept(Remaining[i], r)] /\ UNCHANGED status
         ELSE status' = "error" /\ UNCHANGED results
    /\ UNCHANGED <<input, primed, response>>

Aligned_append == IF mode = "primed" THEN Append(results, primed) ELSE results

\* results.insert(0, primed_result), then zip(work, results).
Aligned == IF mode = "primed" THEN <<primed>> \o results ELSE results
Mine(q) == {i \in DOMAIN Work : Work[i].question = q}
Tokens(i) == DOMAIN Aligned[i]

\* Two chunks of a question share a token; its chunks do not cover it.
Duplicate == \E q \in Asked : \E i, j \in Mine(q) : i # j /\ Tokens(i) \intersect Tokens(j) # {}
Incomplete == \E q \in Asked : UNION {Tokens(i) : i \in Mine(q)} # 1 .. options[q]

Collected(q) == [t \in 1 .. options[q] |-> Aligned[CHOOSE i \in Mine(q) : t \in Tokens(i)][t]]

\* make_answer: probabilities grow with the scores, the first of the
\* likeliest options is selected.
Winner(s) == Min({t \in DOMAIN s : \A u \in DOMAIN s : s[t] >= s[u]})

Assemble == /\ status = "scoring" /\ Missing = {} /\ (mode = "primed" => primed # Nothing)
            /\ IF Duplicate \/ Incomplete
               THEN status' = "error" /\ UNCHANGED response
               ELSE /\ status' = "answered"
                    /\ response' = [q \in Asked |-> [scores |-> Collected(q),
                                                     selected |-> Winner(Collected(q))]]
            /\ UNCHANGED <<input, primed, results>>

AssemblyOver == status # "scoring" /\ UNCHANGED assemblyVars

AssemblyNext == Prime \/ (\E i \in DOMAIN results : Returns(i)) \/ Assemble \/ AssemblyOver

AssemblySpec == AssemblyInit /\ [][AssemblyNext]_assemblyVars

-----------------------------------------------------------------------------
\* A result holds scores for the candidates of its own call and no others
\* (backend.py:146-155).
AssemblyTypeOK ==
    /\ \A i \in DOMAIN results :
          results[i] = Nothing \/ results[i] \in [Remaining[i].ids -> Scores]
    /\ primed = Nothing \/ primed \in [Work[1].ids -> Scores]

\* A response tells for each question what the engine holds for its options,
\* all of them and in their order, and selects the best: however the options
\* were divided into calls, in whatever order these completed and whichever
\* of them primed the prefix (service.py:156-198, probabilities.py:16-20).  It
\* fails only because a reply was refused: the chunks of accepted replies
\* never overlap nor leave a gap (service.py:182-191).
AnswersAreTheEngines ==
    /\ status = "answered" => \A q \in Asked :
        /\ response[q].scores = [t \in 1 .. options[q] |-> logits[q][t]]
        /\ LET best == response[q].selected
           IN  \A t \in 1 .. options[q] : \/ logits[q][t] < logits[q][best]
                                          \/ logits[q][t] = logits[q][best] /\ t >= best
    /\ status = "error" => Missing # {} \/ (mode = "primed" /\ primed = Nothing)
=============================================================================
