------------------------ MODULE ClassificationService ------------------------
(***************************************************************************)
(* service.ClassificationService with its two admission gates, its prefix  *)
(* primer, gather_cancel_on_error and the scoring half of the backend, on  *)
(* one event loop.  Each of Request arrives at most once; timers fire,     *)
(* clients disconnect, the engine answers, fails or stays silent, and      *)
(* close() runs, at any moment the loop is free.                           *)
(*                                                                         *)
(* `run` is the coroutine that has the loop.  While it is some request r,  *)
(* only r moves: a chain such as `release the slot, then ask for the next' *)
(* is a run of such steps and nothing comes between them.  With run = None *)
(* any ready task may go next, in any order.                               *)
(***************************************************************************)
EXTENDS Integers, Sequences, FiniteSets

CONSTANTS Request,          \* classification requests
          Jobs,             \* what a request may ask: [mode, work, key]
          MaxWork,          \* bound on the scoring calls of one request
          MaxActive,        \* service.max_active_requests
          MaxQueuedRequests,\* service.max_queued_requests
          MaxInFlight,      \* backend.max_in_flight
          MaxQueuedScores,  \* backend.max_queued_scores
          Key, Lease, HintEntries, None

\* What the settings accept (config.py:31-32, 58-59, 68).  "auto" stands for
\* a request whose prefix may be primed: automatic execution, prefix caching
\* on, at least prime_min_prefix_tokens; any other automatic request is
\* "parallel".  Work 0 is a constant-only schema.
ASSUME ServiceAssumption ==
    /\ MaxWork \in Nat \ {0}
    /\ MaxActive \in Nat \ {0} /\ MaxInFlight \in Nat \ {0}
    /\ MaxQueuedRequests \in Nat /\ MaxQueuedScores \in Nat
    /\ HintEntries \in Nat \ {0}
    /\ Jobs \subseteq [mode : {"auto", "parallel", "serial"}, work : 0 .. MaxWork, key : Key]
    /\ None \notin Request \union Key \union Lease

\* The scoring calls: <<r, 0>> is made by the task of r itself (priming, or
\* serial execution), <<r, i>> by the task that gather made for item i.
Item == 1 .. MaxWork
Unit == Request \X (0 .. MaxWork)
Own(r) == <<r, 0>>
UnitsOf(S) == S \X (0 .. MaxWork)

VARIABLES run,      \* the request whose coroutine has the event loop, or None
          req,      \* the task of each request
          unit,     \* the state of each scoring call
          ucut,     \* the cancel() calls a gathered task has not digested yet
          sent,     \* for each item of a live request, the HTTP calls made for it
          tasks,    \* self._tasks
          closer    \* close(), see ClosePhase; _closing is closer # "no"

VARIABLES active, waiters, at            \* self.admission
VARIABLES inFlight, scoreWaiters, slot   \* self.backend.admission
VARIABLES warm, stale, leases, users, locked, queue, stage, goal, lease   \* self.primer

Admission == INSTANCE AdmissionGate WITH
                 Task <- Request, Capacity <- MaxActive, MaxQueued <- MaxQueuedRequests
Scoring == INSTANCE AdmissionGate WITH
                 Task <- Unit, Capacity <- MaxInFlight, MaxQueued <- MaxQueuedScores,
                 active <- inFlight, waiters <- scoreWaiters, at <- slot
Primer == INSTANCE PrefixPrimer WITH Task <- Request

\* "cut": cancelled while it drains; it goes on draining, then raises, and the
\* HTTP client stays open ("abandoned").
ClosePhase == {"no", "draining", "cut", "closed", "abandoned"}

admissionVars == <<active, waiters, at>>
scoringVars == <<inFlight, scoreWaiters, slot>>
primerVars == <<warm, stale, leases, users, locked, queue, stage, goal, lease>>
taskVars == <<run, req, unit, ucut, sent, tasks, closer>>
vars == <<taskVars, admissionVars, scoringVars, primerVars>>

\* Where a task stands.  Suspended: "admission" (class gate), "compile"
\* (to_thread), "prime" (the lease lock), "inline" (its own scoring call),
\* "gather", "drain" (the second gather of gather_cancel_on_error).  With
\* the loop: "spread", "unwind", and "inline" around the call.
Parked == {"admission", "compile", "prime", "inline", "gather", "drain"}
Answers == {"ok", "busy", "error", "cancelled"}

Fresh == [pc |-> "idle",        \* where the task stands
          job |-> None,         \* what it was asked for
          cut |-> {},           \* the cancel() calls it has not digested yet
          raising |-> "none",   \* the exception on its way out
          scored |-> 0,         \* the items its own task has scored
          outcome |-> "none"]   \* how it ended

TypeOK ==
    /\ run \in Request \union {None}
    /\ req \in [Request -> [pc : {"idle", "spread", "unwind", "done"} \union Parked,
                            job : Jobs \union {None},
                            cut : SUBSET {"queue", "deadline", "caller"},
                            raising : {"none", "busy", "error", "cancelled"},
                            scored : 0 .. MaxWork,
                            outcome : Answers \union {"none", "timeout"}]]
    /\ unit \in [Unit -> Answers \union {"none", "new", "gate", "http"}]
    /\ ucut \in [Unit -> SUBSET {"queue", "cancel"}]
    /\ sent \in [Request -> [Item -> Nat]]
    /\ tasks \subseteq Request
    /\ closer \in ClosePhase
    /\ Admission!GateTypeOK /\ Scoring!GateTypeOK /\ Primer!PrimerTypeOK

Init ==
    /\ run = None
    /\ req = [r \in Request |-> Fresh]
    /\ unit = [u \in Unit |-> "none"]
    /\ ucut = [u \in Unit |-> {}]
    /\ sent = [r \in Request |-> [i \in Item |-> 0]]
    /\ tasks = {}
    /\ closer = "no"
    /\ Admission!GateInit /\ Scoring!GateInit /\ Primer!PrimerInit

-----------------------------------------------------------------------------
(* Names of the form X_y are mutated forms of X: plausible bugs against     *)
(* which the properties are tried out.  The specification never uses them. *)

Finished(u) == unit[u] \in Answers
Children(r) == {u \in {r} \X Item : unit[u] # "none"}
Live(r) == {u \in Children(r) : ~Finished(u)}
Leading(r) == stage[r] = "leading"

\* The cancellations that reach a scoring call: those of the task it runs in.
Cuts(u) == IF u[2] = 0 THEN req[u[1]].cut ELSE ucut[u]

\* The task of r has been resumed: normally, or with CancelledError.
Resumed(r, p) == run = None /\ req[r].pc = p /\ req[r].cut = {}
Cancelled(r, p) == run = None /\ req[r].pc = p /\ req[r].cut # {}

\* It suspends at p, goes on at p, or goes on by raising e.
Park(r, p) == run' = None /\ req' = [req EXCEPT ![r].pc = p]
Go(r, p) == run' = r /\ req' = [req EXCEPT ![r].pc = p]
Raise(r, e) == run' = r /\ req' = [req EXCEPT ![r].pc = "unwind", ![r].raising = e]

\* It is over: the finally block of _run.  What it and its finished children
\* refer to is garbage.
End(r, how) ==
    /\ run' = None
    /\ req' = [req EXCEPT ![r] = [Fresh EXCEPT !.pc = "done", !.outcome = how]]
    /\ unit' = [u \in Unit |-> IF u[1] = r /\ Finished(u) THEN "none" ELSE unit[u]]
    /\ ucut' = [u \in Unit |-> IF u[1] = r /\ Finished(u) THEN {} ELSE ucut[u]]
    /\ sent' = [sent EXCEPT ![r] = [i \in Item |-> 0]]
    /\ tasks' = tasks \ {r}

\* How a coroutine ends that the cancellations in c have stopped: the timer
\* of a gate converts only its own cancellation, then the request deadline
\* does; any other cancellation outlives both.
CutOutcome(c) == CASE "caller" \in c -> "cancelled"
                   [] "caller" \notin c /\ "deadline" \in c -> "timeout"
                   [] OTHER -> "busy"

CutAll_notChildren(S, why) ==
    /\ req' = [r \in Request |-> IF r \in S THEN [req[r] EXCEPT !.cut = @ \union {why}] ELSE req[r]]
    /\ Admission!Interrupt(S)
    /\ Scoring!Interrupt({Own(r) : r \in S})
    /\ Primer!InterruptPrime(S)
    /\ UNCHANGED ucut

\* cancel() of the tasks of the requests in S, by `why`.  A task in gather
\* hands it to its unfinished children; in drain it replaces the exception
\* on its way out.
CutAll(S, why) ==
    /\ req' = [r \in Request |->
                 IF r \notin S THEN req[r]
                 ELSE [req[r] EXCEPT !.cut = @ \union {why},
                                     !.raising = IF req[r].pc = "drain" THEN "cancelled" ELSE @]]
    /\ ucut' = [u \in Unit |-> IF u[1] \in S /\ u \in Live(u[1])
                               THEN ucut[u] \union {"cancel"} ELSE ucut[u]]
    /\ Admission!Interrupt(S)
    /\ Scoring!Interrupt(UnitsOf(S))
    /\ Primer!InterruptPrime(S)

-----------------------------------------------------------------------------
(* _run: the closing check, the class gate, the operation. *)

Refuse(r) == /\ Resumed(r, "idle")
             /\ closer # "no"
             /\ End(r, "busy")
             /\ UNCHANGED <<closer, admissionVars, scoringVars, primerVars>>

\* A constant-only schema needs no scoring: it only has to leave.
BeginOperation(r, j) ==
    IF j.work = 0
    THEN run' = r /\ req' = [req EXCEPT ![r].job = j, ![r].pc = "unwind"]
    ELSE run' = None /\ req' = [req EXCEPT ![r].job = j, ![r].pc = "compile"]

Arrive_registerLate(r) ==
    /\ Resumed(r, "idle")
    /\ closer = "no"
    /\ \E j \in Jobs :
         \/ /\ Admission!Enter(r)
            /\ tasks' = tasks \union {r}
            /\ BeginOperation(r, j)
         \/ /\ Admission!Enqueue(r)
            /\ req' = [req EXCEPT ![r].job = j, ![r].pc = "admission"]
            /\ UNCHANGED <<run, tasks>>
    /\ UNCHANGED <<unit, ucut, sent, closer, scoringVars, primerVars>>

Arrive(r) ==
    /\ Resumed(r, "idle")
    /\ closer = "no"
    /\ \E j \in Jobs :
         \/ /\ Admission!Enter(r)
            /\ tasks' = tasks \union {r}
            /\ BeginOperation(r, j)
            /\ UNCHANGED <<unit, ucut, sent>>
         \/ /\ Admission!Enqueue(r)
            /\ tasks' = tasks \union {r}
            /\ req' = [req EXCEPT ![r].job = j, ![r].pc = "admission"]
            /\ UNCHANGED <<run, unit, ucut, sent>>
         \/ Admission!Reject(r) /\ End(r, "busy")
    /\ UNCHANGED <<closer, scoringVars, primerVars>>

Admitted_grantWins(r) == /\ run = None
                         /\ req[r].pc = "admission"
                         /\ Admission!Resume(r)
                         /\ BeginOperation(r, req[r].job)
                         /\ UNCHANGED <<unit, ucut, sent, tasks, closer, scoringVars, primerVars>>

Admitted(r) == /\ Resumed(r, "admission")
               /\ Admission!Resume(r)
               /\ BeginOperation(r, req[r].job)
               /\ UNCHANGED <<unit, ucut, sent, tasks, closer, scoringVars, primerVars>>

NotAdmitted(r) == /\ Cancelled(r, "admission")
                  /\ Admission!Abandon(r)
                  /\ End(r, CutOutcome(req[r].cut))
                  /\ UNCHANGED <<closer, scoringVars, primerVars>>

\* The exception, or the result, leaves slot(), the deadline and _run.
Unwind(r) ==
    /\ run = r
    /\ req[r].pc = "unwind"
    /\ Admission!Release(r)
    /\ End(r, CASE req[r].raising = "none" -> "ok"
                [] req[r].raising = "cancelled" -> CutOutcome(req[r].cut)
                [] OTHER -> req[r].raising)
    /\ UNCHANGED <<closer, scoringVars, primerVars>>

-----------------------------------------------------------------------------
(* _classify: compile in a thread, prime, then score. *)

\* The task of r calls backend.score itself.
CallInline(r) == /\ unit' = [unit EXCEPT ![Own(r)] = "new"]
                 /\ Go(r, "inline")

Primes(r) == req[r].job.mode = "auto" /\ req[r].job.work > 1

\* The prompt compiler refuses the request, or it returns and, for a request
\* that may prime, prime() runs to its first suspension.
Compiled(r) ==
    /\ Resumed(r, "compile")
    /\ \/ Raise(r, "error") /\ UNCHANGED <<unit, primerVars>>
       \/ ~Primes(r) /\ Go(r, "spread") /\ UNCHANGED <<unit, primerVars>>
       \/ Primes(r) /\ Primer!Skip(r, req[r].job.key) /\ Go(r, "spread") /\ UNCHANGED unit
       \/ /\ Primes(r)
          /\ Primer!Join(r, req[r].job.key)
          /\ IF stage'[r] = "leading" THEN CallInline(r) ELSE Park(r, "prime") /\ UNCHANGED unit
    /\ UNCHANGED <<ucut, sent, tasks, closer, admissionVars, scoringVars>>

\* The await of to_thread is cancelled; the thread may go on, unobserved.
CompileCut(r) == /\ Cancelled(r, "compile")
                 /\ Raise(r, "cancelled")
                 /\ UNCHANGED <<unit, ucut, sent, tasks, closer,
                                admissionVars, scoringVars, primerVars>>

PrimeResumes(r) == /\ Resumed(r, "prime")
                   /\ \/ Primer!TakeOver(r) /\ CallInline(r)
                      \/ Primer!Follow(r) /\ Go(r, "spread") /\ UNCHANGED unit
                   /\ UNCHANGED <<ucut, sent, tasks, closer, admissionVars, scoringVars>>

PrimeCut(r) == /\ Cancelled(r, "prime")
               /\ Primer!AbandonPrime(r)
               /\ Raise(r, "cancelled")
               /\ UNCHANGED <<unit, ucut, sent, tasks, closer, admissionVars, scoringVars>>

-----------------------------------------------------------------------------
(* backend.score, by whichever task: the scoring gate around one HTTP call. *)

\* The first step of an inline call follows what its task did before.
HasLoop(u) == IF u[2] = 0 /\ unit[u] = "new" THEN run = u[1] ELSE run = None

\* When an inline call is over, its task goes on at once.
Becomes(u, s) == /\ unit' = [unit EXCEPT ![u] = s]
                 /\ run' = IF u[2] = 0 /\ s \in Answers THEN u[1] ELSE None

Post(u) == LET i == IF u[2] = 0 THEN req[u[1]].scored + 1 ELSE u[2]
           IN  sent' = [sent EXCEPT ![u[1]][i] = @ + 1]

CallStarts(u) ==
    /\ unit[u] = "new"
    /\ Cuts(u) = {}
    /\ \/ Scoring!Enter(u) /\ Becomes(u, "http") /\ Post(u)
       \/ Scoring!Enqueue(u) /\ Becomes(u, "gate") /\ UNCHANGED sent
       \/ Scoring!Reject(u) /\ Becomes(u, "busy") /\ UNCHANGED sent

CallNeverStarts_release(u) == /\ unit[u] = "new"
                              /\ Cuts(u) # {}
                              /\ Scoring!HandOn(u)
                              /\ Becomes(u, "cancelled")
                              /\ UNCHANGED sent

\* A task that is cancelled before its first step runs none of its code.
CallNeverStarts(u) == /\ unit[u] = "new"
                      /\ Cuts(u) # {}
                      /\ Becomes(u, "cancelled")
                      /\ UNCHANGED <<sent, scoringVars>>

CallAdmitted(u) == /\ unit[u] = "gate"
                   /\ Cuts(u) = {}
                   /\ Scoring!Resume(u)
                   /\ Becomes(u, "http")
                   /\ Post(u)

CallTurnedAway(u) == /\ unit[u] = "gate"
                     /\ Cuts(u) # {}
                     /\ Scoring!Abandon(u)
                     /\ Becomes(u, IF Cuts(u) = {"queue"} THEN "busy" ELSE "cancelled")
                     /\ UNCHANGED sent

\* The engine answers, with scores that parse_scores accepts or not.
CallAnswered(u) == /\ unit[u] = "http"
                   /\ Cuts(u) = {}
                   /\ Scoring!Release(u)
                   /\ \E s \in {"ok", "busy", "error"} : Becomes(u, s)
                   /\ UNCHANGED sent

CallCut_keepSlot(u) == /\ unit[u] = "http"
                       /\ Cuts(u) # {}
                       /\ Becomes(u, "cancelled")
                       /\ UNCHANGED <<sent, scoringVars>>

CallCut(u) == /\ unit[u] = "http"
              /\ Cuts(u) # {}
              /\ Scoring!Release(u)
              /\ Becomes(u, "cancelled")
              /\ UNCHANGED sent

CallRuns(u) == /\ HasLoop(u)
               /\ \/ CallStarts(u) \/ CallNeverStarts(u)
                  \/ CallAdmitted(u) \/ CallTurnedAway(u) \/ CallCut(u)
               /\ UNCHANGED <<req, ucut, tasks, closer, admissionVars, primerVars>>

EngineAnswers(u) == /\ HasLoop(u)
                    /\ CallAnswered(u)
                    /\ UNCHANGED <<req, ucut, tasks, closer, admissionVars, primerVars>>

-----------------------------------------------------------------------------
(* What the task of r does with the answer of its own call. *)

\* The leader's question is scored: the prefix is warm, the rest fans out.
LeaderDone(r) == /\ Leading(r)
                 /\ Primer!FirstReturns(r)
                 /\ unit' = [unit EXCEPT ![Own(r)] = "none"]
                 /\ run' = r
                 /\ req' = [req EXCEPT ![r].scored = 1, ![r].pc = "spread"]

SerialDone(r) ==
    LET n == req[r].scored + 1
        last == n = req[r].job.work
    IN  /\ ~Leading(r)
        /\ unit' = [unit EXCEPT ![Own(r)] = IF last THEN "none" ELSE "new"]
        /\ run' = r
        /\ req' = [req EXCEPT ![r].scored = n, ![r].pc = IF last THEN "unwind" ELSE "inline"]
        /\ UNCHANGED primerVars

InlineFails_warms(r) == /\ IF Leading(r) THEN Primer!FirstReturns(r) ELSE UNCHANGED primerVars
                        /\ unit' = [unit EXCEPT ![Own(r)] = "none"]
                        /\ Raise(r, unit[Own(r)])

InlineFails(r) == /\ IF Leading(r) THEN Primer!FirstFails(r) ELSE UNCHANGED primerVars
                  /\ unit' = [unit EXCEPT ![Own(r)] = "none"]
                  /\ Raise(r, unit[Own(r)])

InlineReturns(r) ==
    /\ run = r
    /\ req[r].pc = "inline"
    /\ \/ unit[Own(r)] = "ok" /\ (LeaderDone(r) \/ SerialDone(r))
       \/ unit[Own(r)] \in Answers \ {"ok"} /\ InlineFails(r)
    /\ UNCHANGED <<ucut, sent, tasks, closer, admissionVars, scoringVars>>

-----------------------------------------------------------------------------
(* gather_cancel_on_error: one task per remaining item. *)

Remaining_rescore(r) == 1 .. req[r].job.work

\* work[1:] after priming, all of it otherwise.
Remaining(r) == req[r].scored + 1 .. req[r].job.work

Spread(r) ==
    /\ run = r
    /\ req[r].pc = "spread"
    /\ IF req[r].job.mode = "serial" THEN CallInline(r)
       ELSE /\ unit' = [u \in Unit |-> IF u[1] = r /\ u[2] \in Remaining(r) THEN "new" ELSE unit[u]]
            /\ Park(r, "gather")
    /\ UNCHANGED <<ucut, sent, tasks, closer, admissionVars, scoringVars, primerVars>>

GatherReturns(r) == /\ Resumed(r, "gather")
                    /\ \A u \in Children(r) : unit[u] = "ok"
                    /\ Go(r, "unwind")
                    /\ UNCHANGED <<unit, ucut, sent, tasks, closer,
                                   admissionVars, scoringVars, primerVars>>

\* gather() raises at the first child that failed or was cancelled; when a
\* cancellation of r crosses a child's failure, r may see either.
Failures(r) == {unit[u] : u \in Children(r)} \intersect {"busy", "error"}

GatherSees(r) ==
    IF req[r].cut = {} THEN Failures(r)
    ELSE IF Live(r) = {} \/ \E u \in Children(r) : unit[u] \in Answers \ {"ok"}
         THEN Failures(r) \union {"cancelled"}
         ELSE {}

AfterGather_noDrain(r, e) == Raise(r, e)

AfterGather(r, e) == /\ run' = None
                     /\ req' = [req EXCEPT ![r].pc = "drain", ![r].raising = e]

GatherRaises(r) ==
    /\ run = None
    /\ req[r].pc = "gather"
    /\ \E e \in GatherSees(r) : AfterGather(r, e)
    /\ ucut' = [u \in Unit |-> IF u \in Live(r) THEN ucut[u] \union {"cancel"} ELSE ucut[u]]
    /\ Scoring!Interrupt(Live(r))
    /\ UNCHANGED <<unit, sent, tasks, closer, admissionVars, primerVars>>

Drained(r) == /\ run = None
              /\ req[r].pc = "drain"
              /\ Live(r) = {}
              /\ Go(r, "unwind")
              /\ UNCHANGED <<unit, ucut, sent, tasks, closer,
                             admissionVars, scoringVars, primerVars>>

-----------------------------------------------------------------------------
(* Timers, disconnects, expiring hints and close(). *)

CutShort(r, why) ==
    /\ run = None
    /\ req[r].pc \in Parked
    /\ why \notin req[r].cut
    /\ CutAll({r}, why)
    /\ UNCHANGED <<run, unit, sent, tasks, closer>>

\* asyncio.timeout inside acquire(), of the class gate or the scoring gate.
QueueTimer(r) == /\ req[r].pc = "admission" \/ unit[Own(r)] = "gate"
                 /\ CutShort(r, "queue")

Deadline(r) == CutShort(r, "deadline")

Disconnect(r) == CutShort(r, "caller")

ChildQueueTimer(u) ==
    /\ run = None
    /\ u[2] # 0
    /\ unit[u] = "gate"
    /\ "queue" \notin ucut[u]
    /\ ucut' = [ucut EXCEPT ![u] = @ \union {"queue"}]
    /\ Scoring!Interrupt({u})
    /\ UNCHANGED <<run, req, unit, sent, tasks, closer, admissionVars, primerVars>>

HintExpires(k) == run = None /\ Primer!Expire(k) /\ UNCHANGED <<taskVars, admissionVars, scoringVars>>

\* No task joins self._tasks after the flag is set, so the tasks that close()
\* gathers are done exactly when the set is empty.
Closed == tasks = {}

CloseBegins_noCancel == /\ run = None
                        /\ closer = "no"
                        /\ closer' = "draining"
                        /\ UNCHANGED <<run, req, unit, ucut, sent, tasks,
                                       admissionVars, scoringVars, primerVars>>

CloseBegins == /\ run = None
               /\ closer = "no"
               /\ closer' = "draining"
               /\ CutAll(tasks, "caller")
               /\ UNCHANGED <<run, unit, sent, tasks>>

\* Whoever awaits close() is cancelled: gather() cancels the tasks once more.
CloseCut == /\ run = None
            /\ closer = "draining"
            /\ closer' = "cut"
            /\ CutAll(tasks, "caller")
            /\ UNCHANGED <<run, unit, sent, tasks>>

\* gather() of the tasks returned, then backend.close(); or it raised.
CloseEnds == /\ run = None
             /\ \/ closer = "draining" /\ closer' = "closed"
                \/ closer = "cut" /\ closer' = "abandoned"
             /\ Closed
             /\ UNCHANGED <<run, req, unit, ucut, sent, tasks,
                            admissionVars, scoringVars, primerVars>>

\* Nothing is left to do.
Terminated == /\ closer \in {"closed", "abandoned"}
              /\ \A r \in Request : req[r].pc = "done"
              /\ UNCHANGED vars

-----------------------------------------------------------------------------
\* What the event loop runs by itself for r: no answer of the engine, no
\* timer and no thread is needed.
Turn(r) == \/ Admitted(r) \/ NotAdmitted(r) \/ Unwind(r)
           \/ CompileCut(r) \/ PrimeResumes(r) \/ PrimeCut(r) \/ InlineReturns(r)
           \/ Spread(r) \/ GatherReturns(r) \/ GatherRaises(r) \/ Drained(r)

Next ==
    \/ \E r \in Request : \/ Arrive(r) \/ Refuse(r) \/ Turn(r) \/ Compiled(r)
                          \/ QueueTimer(r) \/ Deadline(r) \/ Disconnect(r)
    \/ \E u \in Unit : CallRuns(u) \/ EngineAnswers(u) \/ ChildQueueTimer(u)
    \/ \E k \in Key : HintExpires(k)
    \/ CloseBegins
    \/ CloseCut
    \/ CloseEnds
    \/ Terminated

Spec == Init /\ [][Next]_vars

\* The loop runs what is ready.  The engine may stay silent, a compile thread
\* may hang, gate timers and clients may never interfere.
LoopFairness == /\ \A r \in Request : WF_vars(Turn(r))
                /\ \A u \in Unit : WF_vars(CallRuns(u))
                /\ WF_vars(CloseEnds)

\* asyncio.timeout around the whole of _run.
DeadlineFairness == \A r \in Request : WF_vars(Deadline(r))

FairSpec == Spec /\ LoopFairness

-----------------------------------------------------------------------------
\* A request that is over has left nothing behind: no gathered task, no place
\* in either gate or in the primer, no entry in self._tasks, although it may
\* have ended by an error, a timer or a disconnect at any of its suspensions
\* (service.py:97-107, scheduler.py:61-76).
NothingLeftBehind ==
    \A r \in Request : req[r].pc = "done" =>
        /\ r \notin tasks
        /\ at[r] = "out"
        /\ ~Primer!InPrime(r)
        /\ \A u \in UnitsOf({r}) : unit[u] = "none" /\ slot[u] = "out"

\* A request that is about to return a result sent every item to the engine
\* exactly once, the primed one included, and no request ever sends an item
\* twice (service.py:165-180).
ScoredExactlyOnce ==
    \A r \in Request :
        /\ \A i \in Item : sent[r][i] <= 1
        /\ req[r].pc = "unwind" /\ req[r].raising = "none" =>
              \A i \in 1 .. req[r].job.work : sent[r][i] = 1

\* The service keeps the promise of ServiceLife: the HTTP calls in flight are
\* at most max_in_flight and belong to requests in _tasks; once its deadline
\* fired, its client left or close() cancelled it, a request starts no further
\* one; close() reaches whoever is registered, lets nobody in after that, and is
\* over only when nobody is left, also if it is cancelled itself
\* (service.py:55-61, 91-107, backend.py:102-128, scheduler.py:72-76).
Life == INSTANCE ServiceLife WITH
           Lane <- 0 .. MaxWork,
           place <- [r \in Request |-> IF r \in tasks THEN "inside"
                                      ELSE IF req[r].pc = "idle" THEN "out" ELSE "left"],
           cut <- {r \in Request : req[r].cut # {}},
           calls <- {u \in Unit : unit[u] = "http"},
           closing <- IF closer = "cut" THEN "draining" ELSE closer
RefinesServiceLife == Life!ServiceSpec

\* The service is one of the callers that GateClients and PrimerClients allow:
\* each request and each call takes its way through a gate as slot() has it,
\* gives back what it was given and nothing else, and goes on without
\* CancelledError only if it was not cancelled (service.py:97-107,
\* backend.py:102-128).
CutInClassGate == {r \in Request : req[r].pc = "admission" /\ req[r].cut # {}}
ClassGate == INSTANCE GateClients WITH
                Task <- Request, Capacity <- MaxActive, MaxQueued <- MaxQueuedRequests,
                interrupted <- CutInClassGate
UsesClassGate == ClassGate!Spec

CutInScoringGate == {u \in Unit : unit[u] = "gate" /\ Cuts(u) # {}}
ScoringGate == INSTANCE GateClients WITH
                  Task <- Unit, Capacity <- MaxInFlight, MaxQueued <- MaxQueuedScores,
                  active <- inFlight, waiters <- scoreWaiters, at <- slot,
                  interrupted <- CutInScoringGate
UsesScoringGate == ScoringGate!Spec

UsesGates == UsesClassGate /\ UsesScoringGate

\* A leader, moreover, leaves prime() with a success only if the engine has
\* answered the question it primes with (service.py:160-172).
CutInPrime == {r \in Request : req[r].pc = "prime" /\ req[r].cut # {}}
PrimersAnswered == {r \in Request : Leading(r) /\ unit[Own(r)] = "ok"}
Priming == INSTANCE PrimerClients WITH
              Task <- Request, interrupted <- CutInPrime, scored <- PrimersAnswered
UsesPrimer == Priming!Spec

\* If the scoring queue is sized for the class gate, an admitted request is
\* never turned away by the scoring gate: whoever is about to ask finds room,
\* cancelled entries included (admission.py:37-38; shipped: 16, 64, 8, 1024).
Asking(u) == unit[u] = "new" /\ slot[u] = "out"
AdmittedNeverShed ==
    MaxActive * MaxWork <= MaxInFlight + MaxQueuedScores =>
        \A u \in Unit : Asking(u) => Scoring!CanEnter \/ ~Scoring!IsFull

\* If deadlines fire, every request ends, even if the engine never answers
\* (service.py:98, scheduler.py:72-76).
EveryRequestEnds ==
    DeadlineFairness => \A r \in Request : req[r].pc \in Parked ~> req[r].pc = "done"

\* close() ends without any help from the engine or a timer, cancelled or not
\* (service.py:55-61).
CloseCompletes == closer = "draining" ~> closer \in {"closed", "abandoned"}
=============================================================================
