----------------------------- MODULE RunRecords -----------------------------
(***************************************************************************)
(* client.benchmark and client.evaluate over runlog: a run opens its file  *)
(* of records, sends its requests through run_workers and writes one       *)
(* record per attempt as it completes, then a summary.  The gateway may    *)
(* fail or stay silent, a write may fail, and the run may be interrupted,  *)
(* all at any moment.  `log` is what is flushed, so every state is also    *)
(* one in which the process may have been killed.                          *)
(***************************************************************************)
EXTENDS Integers, Sequences, FiniteSets, FiniteSetsExt, SequencesExt

CONSTANTS Worker,   \* the tasks of run_workers: min(concurrency, repeats or cases)
          Cases,    \* repeats, or the number of cases
          Warmups   \* benchmark's warmup

ASSUME RunAssumption == /\ Cases \in Nat \ {0} /\ Warmups \in Nat
                        /\ IsFiniteSet(Worker) /\ Cardinality(Worker) \in 1 .. Cases

VARIABLES plan,     \* "benchmark", "evaluate" or "rotate" (evaluate --rotate)
          main,     \* the coroutine of the run itself
          warming,  \* the last warm-up it has sent
          worker,   \* its workers: [pc, job], a job being an attempt <<phase, index>>
          cut,      \* the workers with a cancel() to digest
          next,     \* the next item of the shared iterator
          results,  \* results: what once() returned for each index
          log,      \* the records flushed so far: [of, status]
          broken    \* a write has failed

vars == <<plan, main, warming, worker, cut, next, results, log, broken>>

Index == 1 .. Cases
Phase == {"warmup", "primary", "rotation"}
Status == {"succeeded", "failed", "canceled"}
Header == [of |-> <<"run", 0>>, status |-> "succeeded"]
NoJob == <<"none", 0>>
Final == {"finished", "raised"}   \* with finish() done, or by an exception
Quiet == {"none", "returned", "failed", "cancelled"}

TypeOK ==
    /\ plan \in {"benchmark", "evaluate", "rotate"}
    /\ main \in {"start", "warmup", "gather", "drain"} \union Final
    /\ warming \in 0 .. Warmups
    /\ worker \in [Worker -> [pc : Quiet \union {"new", "sending"},
                              job : {NoJob} \union (Phase \X Index)]]
    /\ cut \subseteq Worker
    /\ next \in 1 .. Cases + 1
    /\ results \in [Index -> {<<>>} \union (Status \X (Status \union {"none"}))]
    /\ log \in Seq([of : (Phase \union {"run", "summary"}) \X Nat, status : Status])
    /\ broken \in BOOLEAN

Init == /\ plan \in {"benchmark", "evaluate", "rotate"}
        /\ main = "start" /\ warming = 0
        /\ worker = [w \in Worker |-> [pc |-> "none", job |-> NoJob]]
        /\ cut = {}
        /\ next = 1
        /\ results = [i \in Index |-> <<>>]
        /\ log = <<>>
        /\ broken = FALSE

-----------------------------------------------------------------------------
(* Names of the form X_y are mutated forms of X: plausible bugs against     *)
(* which the properties are tried out.  The specification never uses them. *)

Write(of, s) == log' = Append(log, [of |-> of, status |-> s]) /\ UNCHANGED broken
WriteFails == broken' = TRUE /\ UNCHANGED log

Records(phase, s) == Cardinality({i \in DOMAIN log : log[i].of[1] = phase /\ log[i].status = s})
Sent(phase) == Cardinality({i \in DOMAIN log : log[i].of[1] = phase})

\* The tasks of run_workers start; none has run yet.
Spread == /\ main' = "gather"
          /\ worker' = [w \in Worker |-> [pc |-> "new", job |-> NoJob]]

\* open("x") may find the file, and writing the header may fail, which leaves
\* the file to the garbage collector: close() is in a finally that RunLog() is
\* not under.  Nothing is sent either way.
Open == /\ main = "start"
        /\ \/ main' = "raised" /\ UNCHANGED <<warming, worker, log, broken>>
           \/ WriteFails /\ main' = "raised" /\ UNCHANGED <<warming, worker>>
           \/ /\ Write(<<"run", 0>>, "succeeded")
              /\ IF plan = "benchmark" /\ Warmups > 0
                 THEN main' = "warmup" /\ warming' = 1 /\ UNCHANGED worker
                 ELSE Spread /\ UNCHANGED warming
        /\ UNCHANGED <<plan, cut, next, results>>

\* The warm-ups are awaited one after the other by the run itself.
Warmup == /\ main = "warmup"
          /\ \/ /\ \E s \in {"succeeded", "failed"} : Write(<<"warmup", warming>>, s)
                /\ IF warming = Warmups
                   THEN Spread /\ UNCHANGED warming
                   ELSE warming' = warming + 1 /\ UNCHANGED <<main, worker>>
             \/ WriteFails /\ main' = "raised" /\ UNCHANGED <<warming, worker>>
          /\ UNCHANGED <<plan, cut, next, results>>

WarmupCanceled_silent == /\ main = "warmup"
                         /\ main' = "raised"
                         /\ UNCHANGED <<plan, warming, worker, cut, next, results, log, broken>>

\* The run is cancelled in a warm-up: observe() records it, the file is closed.
WarmupCanceled == /\ main = "warmup"
                  /\ Write(<<"warmup", warming>>, "canceled")
                  /\ main' = "raised"
                  /\ UNCHANGED <<plan, warming, worker, cut, next, results>>

-----------------------------------------------------------------------------
(* worker(): the shared iterator and observe(). *)

\* Nothing is awaited between next(iterator) and the request.
TakeNext(w) ==
    IF next <= Cases
    THEN /\ worker' = [worker EXCEPT ![w] = [pc |-> "sending", job |-> <<"primary", next>>]]
         /\ next' = next + 1
    ELSE /\ worker' = [worker EXCEPT ![w] = [pc |-> "returned", job |-> NoJob]]
         /\ UNCHANGED next

Ends(w, how) == worker' = [worker EXCEPT ![w] = [pc |-> how, job |-> NoJob]] /\ UNCHANGED next

Starts(w) == /\ worker[w].pc = "new"
             /\ IF w \in cut THEN Ends(w, "cancelled") ELSE TakeNext(w)
             /\ UNCHANGED <<plan, main, warming, cut, results, log, broken>>

Rotates_always(job, s) == plan = "rotate" /\ job[1] = "primary"

\* Only a primary answer is worth a rotation.
Rotates(job, s) == plan = "rotate" /\ job[1] = "primary" /\ s = "succeeded"

\* once() returns the outcome of the primary attempt and of the rotation.
Outcome(job, s) == IF job[1] = "primary" THEN <<s, "none">> ELSE <<"succeeded", s>>

\* The gateway answered or failed; a failed attempt does not stop the run.
Observed(w) ==
    LET job == worker[w].job
    IN  /\ worker[w].pc = "sending"
        /\ w \notin cut
        /\ \E s \in {"succeeded", "failed"} :
             /\ Write(job, s)
             /\ IF Rotates(job, s)
                THEN /\ worker' = [worker EXCEPT ![w].job = <<"rotation", job[2]>>]
                     /\ UNCHANGED <<next, results>>
                ELSE /\ results' = [results EXCEPT ![job[2]] = Outcome(job, s)]
                     /\ TakeNext(w)
        /\ UNCHANGED <<plan, main, warming, cut>>

Canceled_silent(w) == /\ worker[w].pc = "sending"
                      /\ w \in cut
                      /\ Ends(w, "cancelled")
                      /\ UNCHANGED <<plan, main, warming, cut, results, log, broken>>

Canceled(w) == /\ worker[w].pc = "sending"
               /\ w \in cut
               /\ Write(worker[w].job, "canceled")
               /\ Ends(w, "cancelled")
               /\ UNCHANGED <<plan, main, warming, cut, results>>

\* The write in the finally block of observe() raises.
RecordLost(w) == /\ worker[w].pc = "sending"
                 /\ WriteFails
                 /\ Ends(w, "failed")
                 /\ UNCHANGED <<plan, main, warming, cut, results>>

-----------------------------------------------------------------------------
(* The run itself: gather, drain, finish, close. *)

Running == {w \in Worker : worker[w].pc \notin Quiet}
Stopped == {w \in Worker : worker[w].pc \in {"failed", "cancelled"}}

Complete_any == \E w \in Worker : worker[w].pc = "returned"

Complete == \A w \in Worker : worker[w].pc = "returned"

\* finish() writes what the returned events, not the file, add up to.
Finish == /\ main = "gather"
          /\ Complete
          /\ \/ Write(<<"summary", Cardinality({i \in Index : results[i] # <<>>})>>, "succeeded")
                /\ main' = "finished"
             \/ WriteFails /\ main' = "raised"
          /\ UNCHANGED <<plan, warming, worker, cut, next, results>>

GatherRaises_noDrain == /\ main = "gather"
                        /\ Stopped # {}
                        /\ main' = "raised"
                        /\ cut' = cut \union Running
                        /\ UNCHANGED <<plan, warming, worker, next, results, log, broken>>

GatherRaises_noCancel == /\ main = "gather"
                         /\ Stopped # {}
                         /\ main' = "drain"
                         /\ UNCHANGED <<plan, warming, worker, cut, next, results, log, broken>>

GatherRaises_waits == /\ main = "gather"
                      /\ Stopped # {}
                      /\ Running = {}
                      /\ main' = "drain"
                      /\ UNCHANGED <<plan, warming, worker, cut, next, results, log, broken>>

\* A worker failed, or was cancelled with the run: cancel the others.
GatherRaises == /\ main = "gather"
                /\ Stopped # {}
                /\ main' = "drain"
                /\ cut' = cut \union Running
                /\ UNCHANGED <<plan, warming, worker, next, results, log, broken>>

Drained == /\ main = "drain"
           /\ Running = {}
           /\ main' = "raised"
           /\ UNCHANGED <<plan, warming, worker, cut, next, results, log, broken>>

\* The run is cancelled (Ctrl-C): in gather or in drain its workers are
\* cancelled; between the last worker's return and its own resumption it only
\* loses the summary.
Interrupt == \/ WarmupCanceled
             \/ /\ main \in {"gather", "drain"}
                /\ Running \ cut # {}
                /\ cut' = cut \union Running
                /\ UNCHANGED <<plan, main, warming, worker, next, results, log, broken>>
             \/ /\ main = "gather"
                /\ Running = {}
                /\ main' = "drain"
                /\ UNCHANGED <<plan, warming, worker, cut, next, results, log, broken>>

Over == main \in Final /\ Running = {} /\ UNCHANGED vars

Next == \/ Open \/ Warmup \/ Finish \/ GatherRaises \/ Drained \/ Interrupt \/ Over
        \/ \E w \in Worker : Starts(w) \/ Observed(w) \/ Canceled(w) \/ RecordLost(w)

Spec == Init /\ [][Next]_vars

\* The loop runs what is ready; the gateway answers nobody for sure.
FairSpec == /\ Spec
            /\ WF_vars(Finish \/ GatherRaises \/ Drained)
            /\ \A w \in Worker : WF_vars(Starts(w)) /\ WF_vars(Canceled(w))

-----------------------------------------------------------------------------
Ended(job) == {i \in DOMAIN log : log[i].of = job}
InFlight == {worker[w].job : w \in Running} \ {NoJob}

\* The attempts sent so far: the warm-ups, the items taken from the iterator,
\* and the rotations of those recorded as a success.
Made == {"warmup"} \X (1 .. warming) \union {"primary"} \X (1 .. next - 1) \union
        {"rotation"} \X {i \in Index : plan = "rotate" /\ \E k \in DOMAIN log :
                            log[k] = [of |-> <<"primary", i>>, status |-> "succeeded"]}
Pending == InFlight \union (IF main = "warmup" THEN {<<"warmup", warming>>} ELSE {})

\* A run killed at any moment leaves a file that tells every attempt: those
\* still pending have no record, none has two, and unless a write failed every
\* other one that was sent has one, whatever ended it: warm-ups, answers and
\* rotations, succeeded, failed or canceled (runlog.py:28, 65-91, client.py:122,
\* 131, 196-209).
OneRecordPerAttempt ==
    /\ \A k, l \in DOMAIN log : log[k].of[1] \in Phase =>
           log[k].of \in Made \ Pending /\ (log[k].of = log[l].of => k = l)
    /\ ~broken => \A job \in Made \ Pending : Ended(job) # {}

\* The workers share the items: nobody sends an item somebody else has taken,
\* and a rotation is sent only after its primary answer was recorded as a
\* success (runlog.py:99-104, client.py:196-209).
EachCaseOnce ==
    /\ \A v, w \in Running : v # w /\ worker[v].job # NoJob /\ worker[w].job # NoJob =>
           worker[v].job[2] # worker[w].job[2]
    /\ \A i \in Index : <<"rotation", i>> \in InFlight \/ Ended(<<"rotation", i>>) # {} =>
           \E k \in DOMAIN log : log[k] = [of |-> <<"primary", i>>, status |-> "succeeded"]

\* The file is closed only when nobody can write to it any more
\* (runlog.py:109-113, client.py:156-157, 271-272).
NoWriteAfterClose == main \in Final => Running = {}

\* A summary closes a whole run: it comes last, every item was answered or
\* failed, none canceled, every success was rotated if asked for, and the
\* outcomes it counts, taken from memory, are those of the records
\* (client.py:133-138, 213-270, runlog.py:114, 124-133).
Among(phase, s) == Cardinality({i \in Index : results[i] # <<>> /\ results[i][phase] = s})
SummaryTellsTheFile ==
    main = "finished" =>
        /\ log[1] = Header /\ Last(log).of = <<"summary", Cases>>
        /\ Len(log) = 2 + Sent("warmup") + Sent("primary") + Sent("rotation")
        /\ Among(1, "succeeded") + Among(1, "failed") = Cases
        /\ \A s \in Status : Among(1, s) = Records("primary", s) /\ Among(2, s) = Records("rotation", s)
        /\ Sent("rotation") = IF plan = "rotate" THEN Among(1, "succeeded") ELSE 0

\* A run that has lost a worker, or is interrupted, comes to its end although
\* the gateway never answers the others (runlog.py:106-113).
InterruptedRunEnds == Stopped # {} \/ main = "drain" \/ cut # {} ~> main \in Final
=============================================================================
