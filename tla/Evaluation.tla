----------------------------- MODULE Evaluation -----------------------------
(***************************************************************************)
(* client.evaluate on top of RunRecords: the dataset that is read, checked *)
(* and perhaps shuffled before anything is sent, the answers of the        *)
(* gateway to each case and to its rotation, and the figures computed from *)
(* what the workers returned.  A case asks one question.                   *)
(***************************************************************************)
EXTENDS RunRecords

CONSTANTS Option,   \* the options of the question of each case
          Datasets, \* the files that may be given: sequences of lines
          Shuffles  \* what a seed may do to the cases: permutations of Index

\* A line is a case, blank, or no legal case; `expected' is its label.  An id
\* n stands for the name `line-n', and 0 for a case without an id.
ASSUME DatasetAssumption ==
    /\ \A d \in Datasets :
        /\ d \in Seq([kind : {"case", "blank", "bad"}, id : Nat, expected : Option])
        /\ Cardinality({n \in DOMAIN d : d[n].kind # "blank"}) \in {0, Cases}
    /\ \A p \in Shuffles : p \in [Index -> Index] /\ IsInjective(p)

VARIABLES dataset,  \* the lines of the file
          order,    \* cases: their line numbers in the order they are taken
          reply,    \* the option selected in the response of each attempt
          done,     \* the indices in the order in which once() returned
          report    \* the figures of the summary

evalVars == <<dataset, order, reply, done, report>>

NoReply == "none"
EvalTypeOK == /\ TypeOK
              /\ dataset \in Datasets \union {<<>>}
              /\ \A k \in DOMAIN order : order[k] \in DOMAIN dataset
              /\ reply \in [{"primary", "rotation"} \X Index -> Option \union {NoReply}]
              /\ \A k \in DOMAIN done : done[k] \in Index

EvalInit == /\ Init
            /\ dataset \in IF plan = "benchmark" THEN {<<>>} ELSE Datasets
            /\ order = <<>> /\ done = <<>> /\ report = <<>>
            /\ reply = [a \in {"primary", "rotation"} \X Index |-> NoReply]

-----------------------------------------------------------------------------
(* parse_dataset, before any request. *)

(* Names of the form X_y are mutated forms of X: plausible bugs against     *)
(* which the properties are tried out.  The specification never uses them. *)

CaseLines == {n \in DOMAIN dataset : dataset[n].kind # "blank"}

\* A case without an id is named after its line.
CaseId(n) == IF dataset[n].id = 0 THEN n ELSE dataset[n].id

Legal_sameNames == CaseLines # {} /\ \A n \in CaseLines : dataset[n].kind = "case"

Legal == /\ CaseLines # {}
         /\ \A n \in CaseLines : dataset[n].kind = "case"
         /\ \A m, n \in CaseLines : CaseId(m) = CaseId(n) => m = n

Ascending(S) == CHOOSE s \in [1 .. Cardinality(S) -> S] :
                     \A i, j \in DOMAIN s : i < j => s[i] < s[j]

\* Blank lines are skipped.
InFileOrder == Ascending(CaseLines)

\* The seed decides on the order of the cases.
Parse == /\ main = "start"
         /\ plan # "benchmark"
         /\ order = <<>>
         /\ IF Legal
            THEN \E p \in Shuffles : order' = [k \in Index |-> InFileOrder[p[k]]] /\ UNCHANGED main
            ELSE main' = "raised" /\ UNCHANGED order
         /\ UNCHANGED <<plan, warming, worker, cut, next, results, log, broken, dataset, reply, done, report>>

OpenRun == (plan = "benchmark" \/ order # <<>>) /\ Open /\ UNCHANGED evalVars

-----------------------------------------------------------------------------
(* once(), and the figures. *)

\* The record of a success holds the response; once() returns with its last.
Replied(w) ==
    /\ Observed(w)
    /\ LET job == worker[w].job
       IN  /\ IF Last(log').status = "succeeded"
              THEN \E o \in Option : reply' = [reply EXCEPT ![job] = o]
              ELSE UNCHANGED reply
           /\ done' = IF results' # results THEN Append(done, job[2]) ELSE done
    /\ UNCHANGED <<dataset, order, report>>

Runs_asCompleted == done

\* run_workers returns what once() returned in the order of the items.
Runs == Ascending(Range(done))

\* zip(cases, runs): the k-th case and the k-th pair of outcomes.
Answered == {k \in DOMAIN Runs : results[Runs[k]][1] = "succeeded"}
Compared == {k \in Answered : results[Runs[k]][2] = "succeeded"}
Selected(phase, k) == reply[<<phase, Runs[k]>>]

Mismatches == {[case |-> CaseId(order[k]), selected |-> Selected("primary", k)] :
                 k \in {k \in Answered : Selected("primary", k) # dataset[order[k]].expected}}

Figures == [correct |-> Cardinality({k \in Answered :
                            Selected("primary", k) = dataset[order[k]].expected}),
            questions |-> Cardinality(Answered),
            mismatches |-> Mismatches,
            compared |-> Cardinality(Compared),
            stable |-> Cardinality({k \in Compared :
                            Selected("rotation", k) = Selected("primary", k)})]

\* The figures are part of the summary; benchmark has none of them.
FinishRun == /\ Finish
             /\ report' = IF main' = "finished" /\ plan # "benchmark" THEN Figures ELSE report
             /\ UNCHANGED <<dataset, order, reply, done>>

EvalNext ==
    \/ Parse \/ OpenRun \/ FinishRun
    \/ (Warmup \/ GatherRaises \/ Drained \/ Interrupt \/ Over) /\ UNCHANGED evalVars
    \/ \E w \in Worker : \/ Replied(w)
                         \/ (Starts(w) \/ Canceled(w) \/ RecordLost(w)) /\ UNCHANGED evalVars

allVars == <<vars, evalVars>>
EvalSpec == EvalInit /\ [][EvalNext]_allVars

\* The loop runs what is ready; the gateway answers nobody for sure.
FairEvalSpec == /\ EvalSpec
                /\ WF_allVars(FinishRun \/ ((GatherRaises \/ Drained) /\ UNCHANGED evalVars))
                /\ \A w \in Worker : /\ WF_allVars(Starts(w) /\ UNCHANGED evalVars)
                                     /\ WF_allVars(Canceled(w) /\ UNCHANGED evalVars)

-----------------------------------------------------------------------------
\* Whoever reads the records of an evaluation that has ended gets the figures
\* of its summary, joining by the case id of each record: the summary has
\* paired every answer with the label of its own case, whatever the order in
\* which the answers came and however the cases were shuffled
\* (client.py:170-171, 189-262, runlog.py:102-114, datasets.py:31-47).
Successes(phase) == {log[i].of[2] : i \in {i \in DOMAIN log :
                   log[i].of[1] = phase /\ log[i].status = "succeeded"}}
LabelOf(id) == dataset[CHOOSE n \in CaseLines : CaseId(n) = id].expected
IdIn(i) == CaseId(order[i])
Right == {i \in Successes("primary") : reply[<<"primary", i>>] = LabelOf(IdIn(i))}
ReportTellsTheFile ==
    main = "finished" /\ plan # "benchmark" =>
        /\ report.questions = Cardinality(Successes("primary"))
        /\ report.correct = Cardinality(Right)
        /\ report.mismatches = {[case |-> IdIn(i), selected |-> reply[<<"primary", i>>]] :
                                  i \in Successes("primary") \ Right}
        /\ Cardinality(report.mismatches) = report.questions - report.correct
        /\ report.compared = Cardinality(Successes("rotation"))
        /\ report.stable = Cardinality({i \in Successes("rotation") :
                               reply[<<"rotation", i>>] = reply[<<"primary", i>>]})
=============================================================================
