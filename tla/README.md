# LLMJsonVerifier: a TLA+ model of the gateway and its client

LLMJsonVerifier is a gateway in front of a vLLM engine. A client posts a
document with closed-set questions, or a JSON schema whose leaves are closed
sets; the gateway asks the engine for one token per question (or per chunk of
its options), reads the log-probabilities of the candidate tokens and returns a
distribution over the candidates. Nothing is persisted in the gateway: what is
hard about it is asyncio. Two bounded FIFO gates, a lock per cold prefix,
fan-outs that must be drained, timers, disconnects and shutdown can meet in any
order. This directory holds the specifications of those parts, the
configurations that check them with TLC, and proofs checked by TLAPS.

## 1. Inventory

| component | source (src/src/llm_json_verifier) | state | operations | what makes it correct |
|---|---|---|---|---|
| admission gate | admission.py | `active`, deque of futures | `acquire`, `release`, `slot` | slots accounted for, FIFO, no free slot beside a waiter |
| prefix primer | scheduler.py | warm hints (LRU with expiry), leases with lock and users | `prime` | one leader per cold prefix, only a score warms, no lost wake-up, no lease deleted in use |
| fail-fast gather | scheduler.py | the tasks it made | `gather_cancel_on_error` | returns only when no child is alive |
| classification service | service.py | `_tasks`, `_closing`, two gates, the primer | `classify`, `classify_schema`, `close`, `verify_backend` | each item scored once, nothing left behind, no call by a request that was cut, quiet after `close` |
| vLLM backend | backend.py | HTTP client, scoring gate | `score`, `_request`, `check_tokenizer`, `close` | bounded concurrency, refuses a malformed reply |
| prompt compiler | prompts.py | seam, answer codes, LRU cache of prefix tokens under an RLock | `__init__`, `compile`, `encode`, `render` | the prompt is the tokenization of the whole text, a code is one token, cache limits and count, lock released on errors |
| probabilities | probabilities.py | none | `make_answer` | the answer told is the engine's |
| schema compiler | schema_compiler.py | none | `compile_schema`, `assemble`, `verify_response` | the result is an instance of the schema |
| body-limit middleware | api.py | buffered body, two tasks | `__call__` | bounded buffer, one answer, no orphan task |
| API and lifespan | api.py | `ready`, `service` | routes, `lifespan`, `/readyz` | ready only between the checks and the shutdown; what is opened is closed |
| run log | runlog.py | the record file | `write`, `finish`, `observe`, `run_workers` | one record of every attempt that ended, whatever ends the run |
| gateway client | client.py | httpx client | `classify`, `benchmark`, `evaluate`, `verify_cache` | checks what it is told; summary agrees with the records; a right verdict on reuse |
| datasets | datasets.py | none | `parse_dataset`, `regression_cases`, `write_regression_dataset` | every case has a name of its own |
| command line | cli.py | none | `doctor` and the other commands | `doctor` closes what it opens |
| launcher, metrics, jsonio, config, errors, schemas | same names | none | pure functions, I/O | |

Interaction. `BodyLimitMiddleware` runs the FastAPI application as a task of
its own and cancels it on a disconnect. A route calls
`ClassificationService._run`, which registers its task, starts the deadline and
takes a slot of the first gate. `_classify` compiles in a thread
(`PromptCompiler.compile`, which shares the token cache with other threads),
perhaps primes the prefix, and scores the remaining items serially or through
`gather_cancel_on_error`; each scoring call takes a slot of the second gate for
its HTTP request. `close()` cancels every registered task, waits for them and
closes the HTTP client. `lifespan` creates the service, has it check the engine
(`verify_backend`), raises the flag `/readyz` looks at, and calls `close()` on
every way out; `doctor` does the same without serving. On the other side, `GatewayClient` sends requests and
`benchmark`/`evaluate` send many through `run_workers`, recording each attempt.

Hard behaviours: a grant that crosses a timeout or a cancellation; a cancelled
waiter that was just woken; a deadline, a queue timer and a disconnect on the
same suspension; a second cancellation during a drain; arrivals during
`close()`; hints that expire between two looks; threads that miss the same
document; a tokenizer that merges across the seam between document and
question; a start-up check that fails or is cancelled half-way, a readiness
probe that crosses the shutdown; an engine that reuses a prefix when it should
not, or not when it should, and does so within a question that is meant to be cold; a run that is interrupted between two records; results
that come in another order than the cases they belong to. PROJECT.json lists each
at its line ("hazards") with the properties aimed at it.

## 2. Modules

| module | models | used by |
|---|---|---|
| AdmissionGate | admission.py, as state and operations for a set of tasks | GateClients, ClassificationService (twice) |
| GateClients | the gate with arbitrary callers | MCGateClients, GateProofs, ClassificationService (ClassGate, ScoringGate) |
| SlotPool | abstract: owners and a line served in order (a set and its order of arrival) | refinement of GateClients |
| PrefixPrimer | scheduler.PrefixPrimer and the asyncio.Lock in it | PrimerClients, ClassificationService |
| PrimerClients | the primer with arbitrary callers | MCPrimerClients, PrimerProofs, ClassificationService (Priming) |
| PrimingBarrier | abstract: who primes, what is hot | refinement of PrimerClients |
| ClassificationService | service.py, gather_cancel_on_error, the scoring half of backend.py | MCClassificationService (three configurations), ServiceProofs |
| ServiceLife | abstract: requests inside, cut, their calls, `close()` | refinement of ClassificationService; part of Lifespan |
| Lifespan | create_app's lifespan, verify_backend and check_tokenizer, `/readyz`, `doctor` | MCLifespan, ApiProofs |
| ScoreAssembly | chunks, parse_scores, primed result, assembly, selection | MCScoreAssembly, AnswerProofs |
| Prompts | tokenizer, as_data, templates, seam, registry of answer codes, render, the check of the probe; operators only | TokenCache |
| TokenCache | PromptCompiler and PrefixTokenCache under compile threads | MCTokenCache, TokenCacheProofs |
| SchemaPlans | compile_schema call by call, materialize, assemble, verify_response | MCSchemaPlans, AnswerProofs |
| BodyLimit | BodyLimitMiddleware | MCBodyLimit.cfg, ApiProofs |
| RunRecords | runlog.py and the control of benchmark/evaluate | Evaluation, RunProofs |
| Evaluation | evaluate: parse_dataset, replies, figures, on top of RunRecords | MCRunRecords, RunProofs |
| CacheCheck | verify_cache, through the calls the gateway makes of a question, against an engine whose cache may be broken | MCCacheCheck, AnswerProofs |
| ProofBasics, GateProofs, PrimerProofs, ApiProofs, ServiceProofs, RunProofs, AnswerProofs, TokenCacheProofs | theorems and proofs | |

How they fit together. ClassificationService instantiates AdmissionGate twice
and PrefixPrimer once, so the service is checked with the real gates and not with their abstractions. That it uses them as their modules mean them to
be used is a property of its own: UsesGates and UsesPrimer say that its steps,
seen from a gate or from the primer, are steps of GateClients and PrimerClients.
What is shown there of arbitrary callers therefore holds inside the service.
ClassificationService is too large to be put inside a whole process: ServiceLife
says what it promises to whoever starts and stops it, the run `queue` and the
theorem ServiceLives show that it keeps that, and Lifespan is built on
ServiceLife alone. Evaluation conjoins to each action of RunRecords what it does
to the dataset, the replies and the report, so the theorems about runs carry over.

State and actions. Variables carry the attribute's name where there is one
(`active`, `waiters`, `leases`, `users`, `tasks`...); a future is named by the
task that awaits it, so `waiters` is a sequence of tasks and `at[t]`/`stage[t]`
say what has happened to the future: still pending, resolved, or cancelled, with
the task not yet resumed in the last two cases. Operations of the code are the
actions of the same meaning: `acquire` is `Enter`/`Enqueue`/`Reject` up to its
suspension and `Resume`/`Abandon` after it, `release` is `HandOn`, `prime` is
`Skip`/`Join` and `TakeOver`/`Follow`/`AbandonPrime`/`FirstReturns`/`FirstFails`.
PROJECT.json's "map" gives the lines of each definition. A definition named
`X_y` is a mutated form of `X`, the bug against which a property is tried; no
specification uses one.

### asyncio, as the models take it

* A coroutine runs undisturbed between two suspensions; each action is one such
  stretch. In ClassificationService a stretch that crosses several objects is a
  run of steps during which the variable `run` names the coroutine that holds
  the loop and only it moves.
* Ready tasks resume in any order: a superset of the loop's ready queue.
* `Task.cancel()` cancels the pending future a task awaits. If the future has
  its result already, the future keeps it and the task resumes with
  CancelledError all the same. This is the state in which `acquire` must pass on
  a granted slot and in which a lock's waiter must wake the next.
* A task cancelled before its first step runs no code.
* When several cancellations reach one task, an outer scope wins: the caller,
  then the deadline, then the gate's own timer, then an error on its way.
* `gather` completes at its first failed or cancelled child; a cancellation that
  crosses a child's failure may show as either. The drain,
  `gather(..., return_exceptions=True)`, waits for every child even if it is
  cancelled itself.
* `asyncio.Lock` is FIFO; a cancelled head of its queue wakes the next one.
* The server's `receive()` reports a disconnect once the client has left, and
  also when the response is complete.
* An HTTP answer and the resumption of its call are one step: the difference is
  covered by the cancellations that may precede it.
* The server stops letting requests in before it ends the lifespan, or does not
  (a forced exit): Lifespan lets requests run on, and come in, while the service
  closes. The coroutine of the lifespan, or of `doctor`, may itself be cancelled
  (forced exit, Ctrl-C) at any await.
* A compile thread whose request is gone goes on unobserved; its effect on the
  shared cache is in TokenCache, where threads are independent of requests.

## 3. Runs

Every run checks for deadlock as well; specifications end in an explicit
`Over`/`Terminated`/`Idle` step where the program has nothing left to do. The
names under "properties" are in PROJECT.json and defined, with the code they are
about, at the end of each module.

| run | instance | distinct states | shows |
|---|---|---|---|
| gate | 4 tasks, capacity 2, queue 2 | 1,151 | SlotAccounting, WorkConserving, FifoGrants; implements SlotPool; every wait ends |
| primer | 3 tasks, 2 keys, 3 lease objects, 1 hint | 15,467 | LeasesBalanced, NoLostWakeup, SingleLeader; implements PrimingBarrier; every follower gets on |
| fan_out | 2 requests of 2 items, primed and fanned out, 1 scoring slot | 515,609 | NothingLeftBehind, ScoredExactlyOnce; UsesPrimer |
| queue | 3 requests for 1 class slot with 1 queue place; serial, parallel and constant-only | 478,468 | AdmittedNeverShed; UsesGates; implements ServiceLife |
| live | 2 requests, a silent engine allowed | 49,852 | EveryRequestEnds, CloseCompletes |
| body | limit 3, pieces of 0 to 2 bytes | 964 | StayingClientIsAnswered, NoTaskSurvives, DisconnectEnds |
| assembly | 2 questions of 2 or 3 options, chunks of 2 | 9,472 | AnswersAreTheEngines |
| tokens | 2 threads, 6 tokenizers, 6 templates, 2 entries, budget of 11 tokens | 42,969 | BudgetKept, PromptIsTheText, NeedfulEviction, CompilationEnds |
| schemas | over two thousand trees of up to three levels, limits of 6 nodes, 2 or 3 questions and 2 or 3 options, all answers | 119,022 | RefusedIffIllegal, ObjectFitsSchema, ClientSeesThrough |
| records | 2 workers, 3 cases, 2 warm-ups, 4 datasets, 2 shuffles | 262,178 | OneRecordPerAttempt, EachCaseOnce, NoWriteAfterClose, SummaryTellsTheFile, ReportTellsTheFile, InterruptedRunEnds |
| lifespan | 2 requests with 2 calls each, 2 readiness probes, 2 calls in flight | 18,794 | ReadyMeansServing, NothingLeftOpen, ClientOutlivesUsers, LifeEnds |
| cache | 2 questions, of 2 calls and of 1, every engine | 927,450 | VerdictIsRight |

Why the bounds are enough to be interesting.

* gate: two slots and two queue places let a release meet a deque that holds a
  cancelled and a pending future, and let the queue be full of cancelled
  entries; with four tasks a newcomer, two waiters and an owner coexist.
* primer: one hint for two keys makes every second success evict; three tasks
  give a leader, a woken follower and one behind it; three lease objects let an
  old object of a key live on beside a new one, should the code allow it.
* fan_out, queue and live take different cuts of ClassificationService, whose
  full product is too large: `fan_out` is about the primed fan-out with every
  cut at every suspension, `queue` about the two gates and `close()`, `live`
  about progress. `queue` and `fan_out` use symmetry of the requests, which no
  definition tells apart; `live` uses none, as it checks liveness. The queue of
  scores is chosen so that AdmittedNeverShed's premise holds with nothing to
  spare in `queue` (1 * 2 <= 1 + 1).
* assembly: three options in chunks of two make a full and a short chunk; each
  reply may be spoilt in every one of the ways parse_scores refuses.
* tokens: documents exist whose prefixes fit together and that exclude each
  other; one spells a special token. A long one makes a prefix of 12, 11 or 10
  tokens, as the tokenizer takes it: more than the budget of 11, so that it may
  not be stored, just as much, so that it empties the cache, and less. The tokenizers give a token to each character, merge two of them, merge
  one with the quote, fold two into one, know a single code, or strip a blank;
  the templates are two legal ones and four that are refused. Ten of the pairs
  are accepted and nine of those pass the check of the probe. Two threads suffice
  for a double miss.
* schemas: nodes of each kind, empty containers, constants, values equal in
  Python but not in JSON (true and 1), equal in both (1 and 1.0), and trees that
  exceed each limit: of depth 4 against 3, of more than 6 nodes, with a third or
  fourth field against 2 or 3, and with a leaf of three candidates against 2. A tree
  is a function from the paths to its nodes. RefusedIffIllegal has rules of its own
  for candidates (LegalCandidates), written with JSON's equality and types and not
  with the keys of the compiler.
* records: two workers and three cases leave one worker busy while the other
  has returned; all of benchmark, evaluate and evaluate with rotation; a dataset
  that is accepted (with a blank line, default names and a given one), one whose
  given name is the default name of another line, one with a bad line and one
  without a case; the identity and a rotation as shuffles.
* lifespan: every combination of serve and doctor, with and without checks, with
  a service created, given, or given with somebody else's HTTP client; two
  requests leave one inside, cut, while the other arrives; two calls in flight
  are the limit and more than one per request.
* cache: one question takes two scoring calls and one takes one, so that a
  request has a call that may prime, a call of the same question behind it and one
  of another question; all engines that cache or not, tell or not, evict or not,
  and whose answer to a question depends in any way on which of its calls reuse:
  not at all, beyond the tolerance, or within it but with another selection.

Fairness. Weak fairness of a task's resumption says that the event loop runs
what is ready. There is none on arrivals, timers, disconnects, cancellations,
nor on the engine's answers in ClassificationService: EveryRequestEnds takes
the deadlines as its premise instead (`asyncio.timeout` around `_run`), and
CloseCompletes needs neither. GateClients assumes that the body of `slot()`
ends and PrimerClients that `first()` ends, which the deadline and the HTTP
timeout guarantee to their callers. TokenCache assumes that threads run, that
the tokenizer returns or raises, and, as `threading.RLock` promises no order,
strong fairness of getting the lock. BodyLimit assumes nothing of the
application. Lifespan assumes that a start-up check ends (the HTTP client's
timeout), that the loop unwinds a request that was cut, and that `close()` is
resumed once it is drained, which for the real service is what CloseCompletes
and ServiceLife show; loading a tokenizer may take for ever. RunRecords and
Evaluation assume that the loop runs the workers and the run that are ready, and
nothing of the gateway.

What the properties take for granted. AdmittedNeverShed has as its premise that
the scoring queue holds the fan-out of all admitted requests; the premise is a
sizing rule, without it the code does shed admitted requests. PromptIsTheText is
stated for tokenizers and templates which `__init__` accepts and which pass the
comparison of `check_tokenizer`, whose engine is assumed to have the gateway's
tokenizer; special tokens are spelled with `<`, the one character `as_data`
escapes.

Each module has a `TypeOK`. It documents the shape of the state and is the first
conjunct of every inductive invariant below, where it is proved; no run spends a
property on it.

What a pass of verify_cache does not say. README.md:124 of the repository says that
`verify-cache` compares the probabilities of cold and of warm caches, and the code
gives every cold question a fresh salt for it ("Fresh salts isolate the *engine*
cache", client.py:278). A question with more than `logprob_chunk_size` options,
however, is scored in several calls, and all of them have the question's prompt and
that one salt (service.py:153-163). The second call of a cold question may find what
the first has left in the engine's cache. If reuse changes what such a call returns,
then the cold answer, the primed and the warm one are changed alike, and
`verify_cache` passes: CacheCheck has such behaviours. The report tells that the cold
request reused tokens (`cold_cached_tokens`), but the verdict does not look at it.

VerdictIsRight says what a pass is worth (Worth): the warm request
reused the document; no first call of a cold question did; and whenever a cold
question was computed afresh, as each of one call is, both shared answers agree
with it. A failure has a cause (HasCause), but it need not be that reuse changes an
answer from a fresh one: two patterns of reuse that differ are enough.

## 4. Proofs

GateProofs, for every set of tasks (infinite ones included), every capacity
above 0 and every queue bound (`GateAssumption`, what `__init__` enforces):

* TypeCorrect, SlotsAccounted, NoIdleSlot, QueueIsFaithful: `Spec => []Inv` for
  TypeOK, SlotAccounting, WorkConserving and QueueFaithful.
* FifoAdmission: `Spec => FifoGrants`.
* ImplementsPool: `Spec => RefinesSlotPool`, the refinement the run `gate` checks.

The inductive invariant `IInv` is the four invariants together with the
finiteness of `Owners`. None is inductive alone: that a release frees room for
exactly one heir needs WorkConserving (a deque beside a free slot would let the
loop pop several), WorkConserving needs the count to be the number of owners,
and that a popped future is resolved once needs QueueFaithful. `PoppedFacts` is
the lemma about the loop of `release`, `HandOnEffect` says what the loop does to
the state, and there is one lemma per action. FifoAdmission follows from the same
invariant: the heir is the first pending future, and the fast path is taken only
past an empty deque. ImplementsPool has one lemma per action (EnterPools,
EnqueuePools, InterruptPools, HandOnPools, WithdrawPools). SlotPool keeps its line as a set and the
pairs of it in order of arrival, not as a sequence: the refinement mapping is
then the pending futures and their order in the deque (Places), where a sequence
would be a recursion over the deque of which the provers know nothing. That a
release serves the first of the line is HandOnPools; the cancelled entries it
pops are in no line, so popping them is no step of the pool. ProofBasics holds facts about finite sets of positions and
about removing elements of a sequence.

PrimerProofs, for every set of tasks, keys and lease identities and every
capacity above 0 (`PrimerAssumption`):

* TypeCorrect, LeaseIsShared, NoFollowerForgotten and OneLeader:
  `Spec => []Inv` for TypeOK, LeasesBalanced, NoLostWakeup and SingleLeader.
* ImplementsBarrier: `Spec => RefinesPrimingBarrier`, the refinement the run
  `primer` checks: every step maps to a step of PrimingBarrier or to a stutter
  (one lemma per action, PrimeStep to ExpiresStep). The barrier tells an answer of
  the engine from the end of the call, so that a failure which marks a prefix
  warm is no step of it.

The inductive invariant is LockInv (Inside, Distinct, Counted, Unused, Lined,
Held, Woke, HeadUp) with HintInv. The properties need each other: that the last
caller may delete the lease (Counted) rests on every caller of a key having the
key's lease (Inside), that a lease is as new when it belongs to no key (Unused)
on its queue listing only callers (Lined) and its lock being held by one (Held).
NoLostWakeup by itself is not inductive, as it leaves open that the woken task
is not the head; Woke and HeadUp say where the wake-up is. DepartInv is the
heart: the four ways out of `prime()` share its finally block.

ApiProofs, of BodyLimit, for every limit and every set of piece sizes
(`LimitAssumption`): TypeCorrect, StayingIsAnswered and NothingSurvives. Its `IInv` adds to the type invariant what holds in each phase
(Reading, Unstarted, Started, Closing) and, in Reasons, that a cut has a cause:
the watcher returns only for a closed channel and only the server's cancellation
or the watcher's return cut the application. Without Reasons a client that stays
could find its application cancelled and no answer sent.

RunProofs, for every number of cases and warm-ups and every number of workers
from one to the number of cases (`RunAssumption`): TypeCorrect, ClosedForGood
(`NoWriteAfterClose`), EachOnce (`EachCaseOnce`), OneRecordEach
(`OneRecordPerAttempt`) and SummaryIsTrue (`SummaryTellsTheFile`). The `IInv` says
what joins the workers, the shared iterator and the file: nobody works before the gather or after the drain (Early,
Closed), who sends holds an item that was taken and shares it with nobody
(JobsKnown, NoSharing), a rotation follows its primary's recorded success
(RotationsEarned), an attempt is told once, after it ended (ToldOnce,
ToldAfter), and without a failed write nothing taken is forgotten (NothingLost).
NoSharing is what makes the record of one worker harmless to another's attempt;
RotationsEarned is what keeps a second attempt at an item from being the first
one again. OneRecordPerAttempt needs a layer of its own, `TInv`: of the
warm-ups those sent and no longer pending, and no others, have a record, and one
only (WarmupsTold), and, unless a write failed, every primary that
is recorded as a success in a run that rotates has a rotation in flight or recorded
(RotationsTold). With ToldOnce, ToldAfter and NothingLost this gives every attempt
that was sent its one record once it has ended.
SummaryIsTrue needs another layer, `SInv`, proved on top of `IInv`: where the
header, the summary and the records of attempts are in the file (Filed), that what
once() returned for an item has been recorded, by nobody twice, and is touched by
no worker any more (Remembered), and that as long as no worker stopped every item
taken is at work or returned (Accounted), so that workers which all returned
(Exhausted) have left out nothing (Finished). The counts of the summary then follow
from bijections between items and records (CountRecords). Remembered is the heart
of it: the summary is computed from memory, and without it a record lost or
written twice would make memory and file differ. EvaluationIsRun says that an
evaluation is a run of RunRecords (every step maps to a step or a stutter;
refusing a bad dataset is the run that could not open its file), and
EvaluationIsRecorded carries four of these theorems over to evaluations, for
every dataset and shuffle. ReportIsTrue (`EvalSpec => []ReportTellsTheFile`) adds
what an evaluation knows beyond a run, `EInv`: a legal dataset gives each case a
name and a label of its own and the order is a shuffle of its cases (Sorted), what
once() returned, in the order it returned, is what the workers remember (Returned),
and the figures are those of that list (Reported). run_workers sorts by index
before the figures are counted. Enumerates shows, by counting, that the sorted
list leaves nothing out, so that its k-th entry meets the k-th case; Remembered
turns what was returned into what the file says.

ServiceProofs, for every set of requests, every bound on the items of one, every
size of both gates, every set of keys and lease identities and every number of
hints (`ServiceAssumption`):

* NothingStays, EveryItemOnce and NeverShed: `Spec => []Inv` for
  NothingLeftBehind, ScoredExactlyOnce and AdmittedNeverShed.
* ServiceLives: `Spec => RefinesServiceLife`.
* ClassGateUsed, ScoringGateUsed and PrimerUsed: the service is one of the callers
  GateClients and PrimerClients allow (GatesUsed: `Spec => UsesGates`).
* GatesArePools and PrimerIsBarrier: with the theorems of GateProofs and
  PrimerProofs, both gates in the service serve in order and implement SlotPool,
  and its primer implements PrimingBarrier, has one leader per key, balanced leases
  and no lost wake-up.

The `IInv` takes the invariant of GateProofs for each gate and ties together,
request by request, what the parts of the service know of it. Placed: its entry in
`_tasks`, its slot of the class gate and its place in the primer all follow where
its task stands, and whoever is registered once `close()` has begun is cut. OwnCall:
it has a scoring call of its own only while it awaits it. Gathered: the calls it
gathered live only inside the gather and its drain and are over when it unwinds,
and after a cut or a failure each one alive has been told. Slotted: what a call is
doing and what the scoring gate has of it agree. Counted: how often each item was
sent, from how far the request is and what state its call is in. They need each
other: ScoredExactlyOnce rests on Gathered (a child left over from a drain would
send its item later), Gathered on Slotted (a child whose slot does not follow its
state could neither end nor be cut), NothingLeftBehind on Placed and Slotted
(a request outside holds nothing, and neither do its calls).

A step moves one request or cuts several. UntouchedKeeps says that the others keep
their part of the invariant, so that there is one lemma per action about one
request: TaskStep for the task, CallStep for one of its calls, EndInv for the four
ways out of `_run`, CutAllInv for whatever cuts a set of requests (deadline, queue timer,
disconnect, `close()`). ServiceLives needs LifePosts: a call that begins finds
fewer than the limit in flight, as the calls in flight own slots of the scoring
gate. NeverShed counts: busy calls map one to one into pairs of a slot of the class
gate and an item (BusyFit), the queue of the scoring gate holds busy calls only,
cancelled entries included (QueuedFacts), and whoever asks is one more.

ApiProofs, of Lifespan (`Life`), for every set of requests, lanes and probes, every number of
calls in flight and every way to start: TypeCorrect, ReadinessIsTrue
(`ReadyMeansServing`), ClientIsLast (`ClientOutlivesUsers`) and EverythingIsClosed
(`NothingLeftOpen`). Its `IInv` says which requests may be inside before, during
and after serving, which checks have passed at each stage (Starting), that a call
belongs to a request that is inside (CallsInside), and how the stage of the
coroutine, the flag, the client and the service's `close()` go together (Serving,
ShuttingDown, Gone). CallsInside is what
makes an empty `_tasks` enough for closing the HTTP client.

TokenCacheProofs, for every set of threads, documents, tokenizers, templates and
requests and every limit: TypeCorrect, BudgetIsKept (`BudgetKept`),
EvictionIsNeedful (`NeedfulEviction`) and PromptsAreTheText (`PromptIsTheText`).

The `IInv` of the first three says that a thread which tokenizes is alone under
the lock and the key it is about to enter still missing (Alone), that whoever wants a
document has a compiler to read it with (ThreadsFit), and that stored entries
are sequences of tokens under keys of their own (Stored); with BudgetKept itself
these are inductive. The tokens in the cache are counted as a set of places
(Size), not by a fold: SizeSplit and SizeOne say what leaves with an evicted entry
and what comes with a new one. EvictedFits says that the eviction loop, which stops
at the first fit, keeps both limits.

PromptsAreTheText says of every request what the start checks of one: the check of
the probe carries over to all documents and questions. The argument runs as follows.

1. Tokenizing ends (FromIs), and from a place on it depends only on what stands
   from there on: a recursion over places is compared with another one by the last
   place at which the two would differ (FromDiffers; StepByStep and DownTo are the two
   directions of this induction, which needs no more than that a set of numbers has
   a least element).
2. No piece has a special token in it, so a token never reaches over one. What
   stands behind a text that ends in a special token (Closed) is therefore tokenized
   as if alone, except that the special token may swallow its first character
   (PieceBefore, PieceBehind, EncodeSplit).
3. Whether it does depends on that character alone (SameFirst). The templates cut
   the prefix behind a special token, and every suffix of a compiler begins with
   the same character (SuffixIsText); so if the whole text of the probe is its two
   parts, then that of every request is (ApartOnce).
4. A code was tried behind the slot, the text behind the last special token of the
   suffix. That the suffix ends in the tokens of the slot (`SlotIsKept`) means that
   nothing of the slot was swallowed (SlotApart, by counting tokens and by the first
   character of each), and so the code adds the same one token to the whole prompt
   (CodeAdds). The registry, a fold, keeps this and that the codes differ
   (RegistryHolds).
5. A token has a special token in front or has none, so the prompt has as many as
   its text (EncodedSpecials); quoting leaves none in a document (DataIs), and the
   template has the others (TemplateFits).

PromptInv then says that an entry of the cache has the tokens of its own text,
that a thread goes on with the prefix of its own document although an entry may be
evicted and entered again meanwhile, and that each of its jobs is made of this
prefix and of a suffix whose slot was kept.

The assumptions on the constants are that texts are sequences and that a question
has at least two options (`CacheAssumption`, as pydantic demands), and of what
tokenizers and markers may be (`TextAssumption`): the markers and what the gateway
writes itself (quotes, the escape, ANSWER_PREFIX) are no special tokens, ANSWER_PREFIX
is not empty and has no marker; the two markers differ (prompts.py:31-33); special tokens are matched before anything else, so no piece contains one, none swallows another
one, and folding characters neither makes nor unmakes one. TLC evaluates both for
the tokenizers of the run `tokens`, which are of each of these kinds. A special
token is one symbol, `<`, of the model, and what quoting makes of it another
(AsData); that no other character helps to spell one is taken for granted, as above.

AnswerProofs, of ScoreAssembly, for every number of questions and of options, every
size of a chunk and every set of scores (`AssemblyAssumption`): AssemblyTypeCorrect
and TheAnswersAreTheEngines (`AnswersAreTheEngines`). The work of a request is
written as the numbering of a set of calls, question after question, and
CallsNumbered shows by counting that it leaves none out and repeats none;
OneChunk, which is the arithmetic of `range(0, n, size)`, that the chunks of a
question cover its options and do not overlap; AcceptedIsExact that parse_scores
lets no flaw of a reply pass. The invariant, ResultsExact, is then that each result is missing or
exactly what the engine holds for the call at its place; AlignedIs carries this
over the re-insertion of the primed result, and WinnerIsBest is make_answer's
choice.

AnswerProofs, of CacheCheck, for every number of questions and of calls of each and
every engine: TheVerdictIsRight (`VerdictIsRight`). The invariant says that the
first cold call of a question finds nothing, its salt being its own and the others
waiting for it (ColdIsFresh), that the document of an engine that caches and has
not evicted is there for the warm request, and every call of that reuses it
(SharedIsHeld), and when there is a verdict (Judged). ColdIsFresh gives a pass its
meaning, SharedIsHeld a failure its cause.

AnswerProofs, of SchemaPlans, for every schema and all limits a server can be given:
RefusalsAreRight (`RefusedIffIllegal`), TheObjectFitsTheSchema (`ObjectFitsSchema`)
and TheClientSeesThrough (`ClientSeesThrough`). A schema is a function from paths
to nodes, and compile_schema is as many calls of `visit` as it has nodes, with the
calls still to be made in a list: the recursion of the code with its stack laid
open, so that an invariant of the traversal can be stated and proved step by step.

1. The invariant is Walk. Frontier: the paths in the list are distinct and not yet
   visited, the parent of one visited or waiting was visited, and each child of one
   visited was visited or waits; Counted: `nodes` is the number
   of paths visited, and both counts keep their limits; Drawn: the plan has at each
   visited path what the schema asks for, each field the leaf it was listed for, and
   that leaf the field's index; and no visited node has a flaw. WalkGrows carries it
   over a call (FrontierGrows, DrawnGrows).
2. A call that raises does so with reason (RaisesRightly). This is where the counts
   matter: the paths visited are part of the schema, so the limit on nodes cannot be
   exceeded unless the whole schema exceeds it, and the fields listed map one to one
   into its variable leaves (FieldsCount), the one at hand being one more.
3. A call that does not raise adds a path, so that after as many calls as there are
   paths none is left (StepTraverses), and then all is drawn (AllDrawn): a shortest
   path left out would be the child of one that was visited. A schema without flaws is therefore compiled and no other (CompiledIs).
4. As long as neither raises, two traversals under different limits agree
   (PlansAgree); the client's limits are the largest a server may have
   (LimitsAre), so what the server accepts has the same plan on both sides
   (ClientIsLaxer, SidesAgree).
   What legal means is written without the compiler's helpers; that the keys of two
   scalars are equal exactly if these are equal in JSON (KeysTell), and that the
   compiler's test of a type is the type (InstancesMatch), makes both one
   (LegalIsLawful).
5. The candidates of a field have keys of their own, so that looking a selection up by
   its key finds it and nothing else (OwnIsSelected), although 1 equals 1.0; a field
   sits at one place of the tree, so a selection that was changed shows there
   (HoldsSelection, VerdictIs).

The assumptions are that a schema is a finite tree with an object as its root
(`SchemasAssumption`; any other root is refused before it is visited) and that the
limits of a server are at most those config.py:54-62 allows (`LimitsAssumption`);
TLC evaluates both in the run `schemas`.

Model-checked only: every liveness property, as fairness and ENABLED are out of the
provers' reach. Every invariant and every action property a run checks is proved.

## 5. Not modelled

* The connection pool of the HTTP client. Readiness probes and start-up checks
  go past the scoring gate; the pool holds `max_in_flight + 2` connections
  (backend.py:44) and a request beyond them waits inside httpx. ServiceLife and
  ClassificationService count the scoring calls, which the gate bounds.
* what becomes of a readiness probe that waits for the engine while the shutdown
  closes the HTTP client. Lifespan has such probes; ClientOutlivesUsers asks only
  that none is sent once the client is being closed.
* the errors of service.py:185-191, raised when chunks overlap or leave out a
  candidate: parse_scores lets no such reply through, so they cannot occur.
* torn writes: a record that is partly on the disk. A failed write leaves
  nothing in RunRecords and ends the run without a summary.
* regression_cases and write_regression_dataset: a pure function, and one that writes a file.
* values of probabilities, metrics, latencies and ratios: floating point. Of the usage
  figures only the cached tokens are told apart (CacheCheck).
* settings, argument parsing, printing and exit codes, authorization, the
  launcher: straight-line code without state that lasts.
* the JSON and TOML grammars, pydantic's validation, FastAPI's routing: libraries.
* the wording of prompts and schema descriptions, `$defs` and
  `additionalProperties` (SchemaPlans abstracts them), the characters of a text
  beyond those that tokenizers and templates tell apart.

## 6. What is left

* Proofs: that Lifespan's picture of a service, closed once drained, is that of ServiceLife for every service.
* Models: torn records and what a reader of the file makes of them; the metrics
  as integer ratios, should a property about them be wanted.
