----------------------------- MODULE TokenCache -----------------------------
(***************************************************************************)
(* prompts.PromptCompiler.compile in the threads that asyncio.to_thread    *)
(* runs it in, and the PrefixTokenCache they share: an LRU map bounded in  *)
(* entries and in tokens.  The lock is held while a document is tokenized, *)
(* so a thread may wait for another one's tokenizer, which may also raise. *)
(***************************************************************************)
EXTENDS Prompts

CONSTANTS Thread,       \* the worker threads
          Document,     \* the texts of the documents
          Tokenizers,   \* the tokenizers a model may have
          Skeletons,    \* the chat templates, rendered around the markers
          Entries,      \* service.prefix_cache_entries
          TokenBudget,  \* service.prefix_cache_tokens
          MaxModelLen,  \* model.max_model_len
          MaxTotal,     \* service.max_total_prompt_tokens
          MaxQuestions, \* service.max_questions
          Asked         \* the questions of a request: sequences of [text, options]

IsText(s) == s \in Seq(Range(s))

ASSUME CacheAssumption == /\ Entries \in Nat /\ TokenBudget \in Nat
                          /\ \A s \in Document \union Skeletons : IsText(s)
                          /\ \A tok \in Tokenizers : \A p \in tok.pieces : IsText(p)
                          /\ \A r \in Asked : \A i \in DOMAIN r : r[i].options \in Nat \ {0, 1}

\* Neither the marks nor what the gateway writes itself is a special token, no
\* piece has one in it, and folding neither makes nor unmakes one.
ASSUME TextAssumption ==
    /\ MaxOptions \in Nat /\ Probe.question.options \in 0 .. MaxOptions
    /\ IsText(Probe.context) /\ IsText(Probe.question.text)
    /\ \A r \in Asked : IsText(r) /\ \A i \in DOMAIN r : IsText(r[i].text)
    /\ IsText(CodeCandidates) /\ \A i \in DOMAIN CodeCandidates : IsText(CodeCandidates[i])
    /\ {ContextMark, QuestionMark, Quote, Escape} \cap Special = {} /\ ContextMark # QuestionMark
    /\ IsText(AnswerPrefix) /\ AnswerPrefix # <<>>
    /\ \A i \in DOMAIN AnswerPrefix : AnswerPrefix[i] \notin Special \union {QuestionMark}
    /\ \A tok \in Tokenizers :
          /\ tok.swallows \cap Special = {}
          /\ \A p \in tok.pieces : \A i \in DOMAIN p : p[i] \notin Special
          /\ \A x \in DOMAIN tok.folds : x \notin Special /\ tok.folds[x] \notin Special

VARIABLES compiler, \* what PromptCompiler.__init__ came to
          items,    \* _items as [key, ids], least recently used first
          tokens,   \* _tokens
          holder,   \* the threads inside `with self._lock`
          thread    \* per thread: [pc, doc, prefix, jobs]

vars == <<compiler, items, tokens, holder, thread>>
cacheVars == <<items, tokens>>

Idle == [pc |-> "idle", doc |-> <<>>, prefix |-> <<>>, jobs |-> <<>>]

TypeOK == /\ compiler.ok \in BOOLEAN
          /\ tokens \in Nat
          /\ holder \subseteq Thread
          /\ \A t \in Thread :
               thread[t].pc \in {"idle", "lookup", "tokenizing", "questions", "compiled", "refused"}

Init == /\ \E tok \in Tokenizers, skeleton \in Skeletons :
              compiler = PromptCompiler(tok, skeleton)
        /\ items = <<>> /\ tokens = 0 /\ holder = {}
        /\ thread = [t \in Thread |-> Idle]

-----------------------------------------------------------------------------
(* What a compiler makes of the documents and of the questions it may be    *)
(* asked: functions, so that each text is tokenized once.                   *)

Compilers == {PromptCompiler(tok, skeleton) : tok \in Tokenizers, skeleton \in Skeletons}
                \ {NoCompiler}
TooMany(r) == Len(r) > MaxQuestions \/ \E i \in DOMAIN r : r[i].options > MaxOptions
Legal == {r \in Asked : ~TooMany(r)}
Questioned == UNION {ToSet(r) : r \in Legal}

PrefixOf == [c \in Compilers |-> [d \in Document |->
               [key |-> PrefixText(c, d), ids |-> PrefixIds(c, d)]]]
SuffixOf == [c \in Compilers |-> [q \in Questioned |->
               [ids |-> SuffixIds(c, q), kept |-> SlotIsKept(c, q)]]]

-----------------------------------------------------------------------------
(* Names of the form X_y are mutated forms of X: plausible bugs against     *)
(* which the properties are tried out.  The specification never uses them. *)

\* The tokens of some entries, counted place by place.
Size(s) == Cardinality(UNION {{i} \X (1 .. Len(s[i].ids)) : i \in DOMAIN s})
Keys(s) == {s[i].key : i \in DOMAIN s}
At(t, p) == thread[t].pc = p
Goes(t, p) == thread' = [thread EXCEPT ![t].pc = p]
GoesWith(t, p, prefix) == thread' = [thread EXCEPT ![t].pc = p, ![t].prefix = prefix]

\* The prefix of its document: [key, ids]; the key is the digest of the text.
Wanted(t) == PrefixOf[compiler][thread[t].doc]

Begin(t, d) ==
    /\ compiler.ok
    /\ At(t, "idle")
    /\ \E r \in Asked : thread' = [thread EXCEPT ![t].doc = d,
                                        ![t].pc = IF TooMany(r) THEN "refused" ELSE "lookup"]
    /\ UNCHANGED <<compiler, holder, cacheVars>>

LockIsFree_noLock == TRUE
LockIsFree == holder = {}

Hit(t) == /\ At(t, "lookup") /\ LockIsFree
          /\ \E i \in DOMAIN items :
               /\ items[i].key = Wanted(t).key
               /\ items' = Append(RemoveAt(items, i), items[i])
               /\ GoesWith(t, "questions", items[i].ids)
          /\ UNCHANGED <<compiler, tokens, holder>>

Miss(t) == /\ At(t, "lookup") /\ LockIsFree
           /\ Wanted(t).key \notin Keys(items)
           /\ holder' = holder \union {t}
           /\ Goes(t, "tokenizing")
           /\ UNCHANGED <<compiler, cacheVars>>

Evicted_tooMany(ids) == Min({n \in 0 .. Len(items) :
                     LET kept == SubSeq(items, n + 1, Len(items))
                     IN  \/ kept = <<>>
                         \/ Len(kept) + 1 < Entries /\ Size(kept) + Len(ids) <= TokenBudget})

\* How many of the oldest entries have to go before the new one fits.
Evicted(ids) == Min({n \in 0 .. Len(items) :
                     LET kept == SubSeq(items, n + 1, Len(items))
                     IN  \/ kept = <<>>
                         \/ Len(kept) < Entries /\ Size(kept) + Len(ids) <= TokenBudget})

Insert(entry) ==
    LET n == Evicted(entry.ids)
    IN  /\ items' = Append(SubSeq(items, n + 1, Len(items)), entry)
        /\ tokens' = tokens - Size(SubSeq(items, 1, n)) + Len(entry.ids)

Cacheable(ids) == Entries > 0 /\ Len(ids) <= TokenBudget

Store_evictsFirst(entry) ==
    LET n == Evicted(entry.ids)
        kept == SubSeq(items, n + 1, Len(items))
    IN  /\ items' = IF Cacheable(entry.ids) THEN Append(kept, entry) ELSE kept
        /\ tokens' = tokens - Size(SubSeq(items, 1, n))
                      + (IF Cacheable(entry.ids) THEN Len(entry.ids) ELSE 0)

\* What may not be stored leaves the others alone.
Store(entry) == IF Cacheable(entry.ids) THEN Insert(entry) ELSE UNCHANGED cacheVars

Unlock_onSuccess(t, p) == holder' = IF p = "refused" THEN holder ELSE holder \ {t}
Unlock(t, p) == holder' = holder \ {t}

\* The tokenizer returned, or raised; either way the lock is released.
Tokenized(t) ==
    LET ids == Wanted(t).ids
    IN  /\ At(t, "tokenizing")
        /\ \/ /\ Store(Wanted(t))
              /\ GoesWith(t, "questions", ids) /\ Unlock(t, "questions")
           \/ UNCHANGED cacheVars /\ Goes(t, "refused") /\ Unlock(t, "refused")
        /\ UNCHANGED compiler

Job(t, question) == [question |-> question,
                     prompt |-> thread[t].prefix \o SuffixOf[compiler][question].ids,
                     candidates |-> SubSeq(compiler.ids, 1, question.options)]

\* The questions one by one: the slot, the length of the prompt, the total.
Questions(t) ==
    /\ At(t, "questions")
    /\ \E r \in Legal :
         LET jobs == [i \in DOMAIN r |-> Job(t, r[i])]
             fits == /\ \A i \in DOMAIN r : /\ SuffixOf[compiler][r[i]].kept
                                           /\ Len(jobs[i].prompt) + 1 <= MaxModelLen
                     /\ FoldSeq(LAMBDA job, n : n + Len(job.prompt), 0, jobs) <= MaxTotal
         IN  thread' = IF fits THEN [thread EXCEPT ![t].pc = "compiled", ![t].jobs = jobs]
                       ELSE [thread EXCEPT ![t].pc = "refused"]
    /\ UNCHANGED <<compiler, holder, cacheVars>>

\* The event loop takes the batch, or the error, and the thread is free.
Return(t) == /\ thread[t].pc \in {"compiled", "refused"}
             /\ thread' = [thread EXCEPT ![t] = Idle]
             /\ UNCHANGED <<compiler, holder, cacheVars>>

Step(t) == Hit(t) \/ Miss(t) \/ Tokenized(t) \/ Questions(t) \/ Return(t)

\* A tokenizer or a template that is refused ends the start of the gateway.
Refused == ~compiler.ok /\ UNCHANGED vars

Next == Refused \/ \E t \in Thread : Step(t) \/ \E d \in Document : Begin(t, d)

Spec == Init /\ [][Next]_vars

\* Threads run, the tokenizer returns, and the lock is granted to a thread
\* that keeps asking for it.
FairSpec == Spec /\ \A t \in Thread : WF_vars(Step(t)) /\ SF_vars(Hit(t) \/ Miss(t))

-----------------------------------------------------------------------------
\* The running count is the size of what is stored and both limits hold,
\* although threads look documents up and enter them concurrently: a key
\* entered twice would be counted twice (prompts.py:83-97).
BudgetKept == /\ tokens = Size(items) /\ tokens <= TokenBudget
              /\ Len(items) <= Entries /\ Cardinality(Keys(items)) = Len(items)

\* An entry is dropped only to make room that the document just tokenized
\* needs and gets, oldest first; so one that cannot be stored, longer than the
\* whole budget or read by a tokenizer that raised, evicts nothing
\* (prompts.py:88-97).
NeedfulEviction ==
    [][\A i \in DOMAIN items : items[i].key \notin Keys(items)' =>
          \E t \in Thread :
             /\ At(t, "tokenizing") /\ Wanted(t).key \in Keys(items)'
             /\ \A j \in 1 .. i : items[j].key \notin Keys(items)'
             /\ \/ Len(items) - i + 1 >= Entries
                \/ Size(SubSeq(items, i, Len(items))) + Len(Wanted(t).ids) > TokenBudget]_vars

\* Tokenizing the document apart and reusing it changes nothing: what is scored
\* is the tokenization of the whole text, the token scored for an option is what
\* its code adds to that text, no two options share one, and a document that
\* spells special tokens adds none.  For every tokenizer and template that the
\* start accepts and the check of the probe lets pass (prompts.py:1-6, 50-53,
\* 101-152, 186-210; tests/test_prompts.py:10-17, 32-35).
Specials(s) == Cardinality({i \in DOMAIN s : s[i] \in Special})
Checked == {c \in Compilers : Verified(c)}
Whole == [c \in Checked |-> [d \in Document |-> [q \in Questioned |->
            LET text == Render(c, d, q)
            IN  [prompt |-> Encode(c.tokenizer, text), specials |-> Specials(c.skeleton),
                 coded |-> [k \in 1 .. q.options |-> Encode(c.tokenizer, text \o c.codes[k])]]]]]
PromptIsTheText ==
    \A t \in Thread : At(t, "compiled") /\ compiler \in Checked =>
        \A job \in ToSet(thread[t].jobs) :
            LET whole == Whole[compiler][thread[t].doc][job.question]
            IN  /\ job.prompt = whole.prompt
                /\ \A k \in 1 .. job.question.options :
                      Append(job.prompt, job.candidates[k]) = whole.coded[k]
                /\ IsInjective(job.candidates)
                /\ Specials([i \in DOMAIN job.prompt |-> job.prompt[i][1]]) = whole.specials

\* Every compilation comes to an end: a tokenizer that raises does not keep
\* the lock from the other threads (prompts.py:83).
CompilationEnds == \A t \in Thread : thread[t].pc = "lookup" ~> thread[t].pc = "idle"
=============================================================================
