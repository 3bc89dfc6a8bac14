----------------------------- MODULE RunProofs -----------------------------
(***************************************************************************)
(* What the file of records tells, for every set of workers, every number  *)
(* of cases and of warm-ups; and of every evaluation, which is such a run. *)
(***************************************************************************)
EXTENDS Evaluation, ProofBasics

Job == {"primary", "rotation"} \X Index
Record == [of : (Phase \union {"run", "summary"}) \X Nat, status : Status]

Sending(w) == worker[w].pc = "sending"
Flying(j) == \E w \in Worker : Sending(w) /\ worker[w].job = j
Told(j) == \E k \in DOMAIN log : log[k].of = j
Earned(i) == \E k \in DOMAIN log : log[k] = [of |-> <<"primary", i>>, status |-> "succeeded"]

\* The workers exist while the run gathers or drains them.
Early == main \in {"start", "warmup"} => \A w \in Worker : worker[w].pc = "none"
Closed == main \in Final => \A w \in Worker : worker[w].pc \in Quiet

\* Who sends has a job of an item that was taken, and nobody else's.
JobsKnown == \A w \in Worker : IF Sending(w) THEN worker[w].job \in Job /\ worker[w].job[2] < next
                                             ELSE worker[w].job = NoJob
NoSharing == \A v, w \in Worker : v # w /\ Sending(v) /\ Sending(w) => worker[v].job[2] # worker[w].job[2]

\* Rotations follow recorded successes.
RotationsEarned == \A i \in Index : Flying(<<"rotation", i>>) \/ Told(<<"rotation", i>>) => Earned(i)

\* An attempt is told once, after it ended, and only if its item was taken;
\* unless a write failed, what was taken is in flight or told.
ToldOnce == \A j \in Job, k, l \in DOMAIN log : log[k].of = j /\ log[l].of = j => k = l
ToldAfter == \A j \in Job : Told(j) => ~Flying(j) /\ j[2] < next
NothingLost == ~broken => \A i \in Index : i < next => Told(<<"primary", i>>) \/ Flying(<<"primary", i>>)

IInv == /\ TypeOK /\ Early /\ Closed /\ JobsKnown /\ NoSharing
        /\ RotationsEarned /\ ToldOnce /\ ToldAfter /\ NothingLost

-----------------------------------------------------------------------------
LEMMA Appended ==
  ASSUME log \in Seq(Record), NEW e \in Record, log' = Append(log, e)
  PROVE  /\ log' \in Seq(Record)
         /\ Len(log) \in Nat
         /\ DOMAIN log = 1 .. Len(log) /\ DOMAIN log' = 1 .. Len(log) + 1
         /\ log'[Len(log) + 1] = e
         /\ \A k \in DOMAIN log : log'[k] = log[k]
OBVIOUS

\* What a new record adds to what the file tells.
LEMMA NewsOf ==
  ASSUME log \in Seq(Record), NEW e \in Record, log' = Append(log, e)
  PROVE  /\ \A j : Told(j)' <=> Told(j) \/ e.of = j
         /\ \A i : Earned(i) => Earned(i)'
         /\ \A i : e = [of |-> <<"primary", i>>, status |-> "succeeded"] => Earned(i)'
         /\ ToldOnce /\ (e.of \in Job => ~Told(e.of)) => ToldOnce'
<1>1. /\ Len(log) \in Nat
      /\ DOMAIN log = 1 .. Len(log) /\ DOMAIN log' = 1 .. Len(log) + 1
      /\ log'[Len(log) + 1] = e
      /\ \A k \in DOMAIN log : log'[k] = log[k]
  BY Appended
<1>2. \A j : Told(j)' <=> Told(j) \/ e.of = j
  BY <1>1 DEF Told
<1>3. \A i : Earned(i) => Earned(i)'
  BY <1>1 DEF Earned
<1>4. \A i : e = [of |-> <<"primary", i>>, status |-> "succeeded"] => Earned(i)'
  <2> SUFFICES ASSUME NEW i, e = [of |-> <<"primary", i>>, status |-> "succeeded"]
               PROVE  Earned(i)'
    OBVIOUS
  <2>1. Len(log) + 1 \in DOMAIN log'
    BY <1>1
  <2> QED BY <1>1, <2>1 DEF Earned
<1>5. ASSUME ToldOnce, e.of \in Job => ~Told(e.of) PROVE ToldOnce'
  <2> SUFFICES ASSUME NEW j \in Job, NEW k \in DOMAIN log', NEW l \in DOMAIN log',
                      log'[k].of = j, log'[l].of = j
               PROVE  k = l
    BY DEF ToldOnce
  <2>1. CASE k \in DOMAIN log /\ l \in DOMAIN log
    BY <1>1, <1>5, <2>1 DEF ToldOnce
  <2>2. CASE k = Len(log) + 1 /\ l \in DOMAIN log
    BY <1>1, <1>5, <2>2 DEF Told
  <2>3. CASE l = Len(log) + 1 /\ k \in DOMAIN log
    BY <1>1, <1>5, <2>3 DEF Told
  <2> QED BY <1>1, <2>1, <2>2, <2>3
<1> QED BY <1>2, <1>3, <1>4, <1>5

\* The parts of the invariant that speak of attempts.
Attempts == NoSharing /\ RotationsEarned /\ ToldOnce /\ ToldAfter /\ NothingLost

\* A step that neither ends nor begins an attempt.
LEMMA Bystander ==
  ASSUME IInv, next' = next, broken \in BOOLEAN, broken' \in {broken, TRUE},
         \A w \in Worker : /\ Sending(w)' <=> Sending(w)
                           /\ Sending(w) => worker'[w].job = worker[w].job,
         \/ log' = log
         \/ \E e \in Record : e.of \notin Job /\ log' = Append(log, e)
  PROVE  Attempts'
<1>1. \A j : Flying(j)' <=> Flying(j)
  BY DEF Flying
<1>2. NoSharing'
  BY DEF IInv, NoSharing
<1>3. CASE log' = log
  <2>1. /\ \A j : Told(j)' <=> Told(j)
        /\ \A i : Earned(i)' <=> Earned(i)
        /\ ToldOnce'
    BY <1>3 DEF Told, Earned, IInv, ToldOnce
  <2>2. RotationsEarned'
    BY <1>1, <2>1 DEF IInv, RotationsEarned
  <2>3. ToldAfter'
    BY <1>1, <2>1 DEF IInv, ToldAfter
  <2>4. NothingLost'
    BY <1>1, <2>1 DEF IInv, NothingLost
  <2> QED BY <1>2, <2>1, <2>2, <2>3, <2>4 DEF Attempts
<1>4. ASSUME NEW e \in Record, e.of \notin Job, log' = Append(log, e) PROVE Attempts'
  <2>1. log \in Seq(Record)
    BY DEF IInv, TypeOK, Record
  <2>2. /\ \A j \in Job : Told(j)' <=> Told(j)
        /\ \A i : Earned(i) => Earned(i)'
        /\ ToldOnce'
    BY <1>4, <2>1, NewsOf DEF IInv
  <2>3. \A i \in Index : <<"rotation", i>> \in Job /\ <<"primary", i>> \in Job
    BY DEF Job
  <2>4. RotationsEarned'
    BY <1>1, <2>2, <2>3 DEF IInv, RotationsEarned
  <2>5. ToldAfter'
    BY <1>1, <2>2 DEF IInv, ToldAfter
  <2>6. NothingLost'
    BY <1>1, <2>2, <2>3 DEF IInv, NothingLost
  <2> QED BY <1>2, <2>2, <2>4, <2>5, <2>6 DEF Attempts
<1> QED BY <1>3, <1>4

\* A job: its phase, its item, and what tells it apart from another.
LEMMA JobParts ==
  ASSUME NEW j \in Job
  PROVE  /\ j[1] \in {"primary", "rotation"} /\ j[2] \in Index
         /\ j = <<j[1], j[2]>>
         /\ j # NoJob
         /\ \A s \in Status : [of |-> j, status |-> s] \in Record
BY DEF Job, NoJob, Index, Record, Phase

\* The attempt of w ends with a record, and w goes on with the rotation of a
\* success, with a fresh item, or not at all.
LEMMA AttemptEnds ==
  ASSUME IInv, NEW w \in Worker, Sending(w), NEW s \in Status, NEW new,
         log' = Append(log, [of |-> worker[w].job, status |-> s]),
         broken' = broken,
         worker' = [worker EXCEPT ![w] = new],
         \/ new.pc # "sending" /\ next' = next
         \/ /\ new.pc = "sending" /\ new.job = <<"rotation", worker[w].job[2]>>
            /\ worker[w].job[1] = "primary" /\ s = "succeeded"
            /\ next' = next
         \/ /\ new.pc = "sending" /\ new.job = <<"primary", next>>
            /\ next \in Index /\ next' = next + 1
  PROVE  Attempts'
<1> DEFINE job == worker[w].job
           e == [of |-> job, status |-> s]
<1>1. /\ next \in Nat /\ next' \in {next, next + 1} /\ Cases \in Nat
      /\ log \in Seq(Record)
      /\ worker'[w] = new
      /\ \A v \in Worker \ {w} : worker'[v] = worker[v]
  BY RunAssumption DEF IInv, TypeOK, Record
<1>2. /\ job \in Job /\ job[2] < next /\ e \in Record /\ Flying(job)
      /\ job[1] \in {"primary", "rotation"} /\ job[2] \in Index /\ job = <<job[1], job[2]>>
  BY JobParts DEF IInv, JobsKnown, Flying
<1>3. ~Told(job)
  BY <1>2 DEF IInv, ToldAfter
<1>4. /\ \A j : Told(j)' <=> Told(j) \/ job = j
      /\ \A i : Earned(i) => Earned(i)'
      /\ \A i : e = [of |-> <<"primary", i>>, status |-> "succeeded"] => Earned(i)'
      /\ ToldOnce'
  BY <1>1, <1>2, <1>3, NewsOf DEF IInv
<1>5. \A v \in Worker \ {w} : Sending(v) => /\ worker[v].job \in Job
                                           /\ worker[v].job[2] < next
                                           /\ worker[v].job[2] # job[2]
                                           /\ worker[v].job # job
  BY <1>1 DEF IInv, JobsKnown, NoSharing
<1>6. \A j : Flying(j)' <=> \/ \E v \in Worker \ {w} : Sending(v) /\ worker[v].job = j
                            \/ new.pc = "sending" /\ new.job = j
  BY <1>1 DEF Flying, Sending
<1>7. \A j : Flying(j)' => (Flying(j) /\ j # job) \/ (new.pc = "sending" /\ new.job = j)
  <2> SUFFICES ASSUME NEW j, Flying(j)', ~(new.pc = "sending" /\ new.job = j)
               PROVE  Flying(j) /\ j # job
    OBVIOUS
  <2>1. PICK v \in Worker \ {w} : Sending(v) /\ worker[v].job = j
    BY <1>6
  <2> QED BY <1>5, <2>1 DEF Flying
<1>8. \A j : Flying(j) => Flying(j)' \/ j = job
  BY <1>6 DEF Flying
<1>9. NoSharing'
  <2>1. ASSUME NEW v \in Worker \ {w}, Sending(v), new.pc = "sending"
        PROVE  worker[v].job[2] # new.job[2]
    <3>1. new.job[2] = job[2] \/ new.job[2] = next
      BY <2>1
    <3>2. worker[v].job[2] \in Index
      BY <1>5, <2>1, JobParts
    <3> QED BY <1>1, <1>5, <2>1, <3>1, <3>2 DEF Index
  <2>2. \A v \in Worker \ {w} : Sending(v)' <=> Sending(v)
    BY <1>1 DEF Sending
  <2>3. Sending(w)' <=> new.pc = "sending"
    BY <1>1 DEF Sending
  <2> QED BY <1>1, <2>1, <2>2, <2>3 DEF IInv, NoSharing
<1>10. RotationsEarned'
  <2> SUFFICES ASSUME NEW i \in Index, Flying(<<"rotation", i>>)' \/ Told(<<"rotation", i>>)'
               PROVE  Earned(i)'
    BY DEF RotationsEarned
  <2>1. CASE Flying(<<"rotation", i>>) \/ Told(<<"rotation", i>>)
    BY <1>4, <2>1 DEF IInv, RotationsEarned
  <2>2. CASE <<"rotation", i>> = job
    BY <1>2, <2>1, <2>2
  <2>3. CASE new.pc = "sending" /\ new.job = <<"rotation", i>>
    <3>1. job[1] = "primary" /\ s = "succeeded" /\ job[2] = i
      BY <2>3
    <3>2. e = [of |-> <<"primary", i>>, status |-> "succeeded"]
      BY <1>2, <3>1
    <3> QED BY <1>4, <3>2
  <2> QED BY <1>4, <1>7, <2>1, <2>2, <2>3
<1>11. ToldAfter'
  <2> SUFFICES ASSUME NEW j \in Job, Told(j)'
               PROVE  ~Flying(j)' /\ j[2] < next'
    BY DEF ToldAfter
  <2>1. j[2] \in Index /\ j = <<j[1], j[2]>>
    BY JobParts
  <2>2. Told(j) \/ j = job
    BY <1>4
  <2>3. j[2] < next
    BY <1>2, <2>2 DEF IInv, ToldAfter
  <2>4. j[2] < next'
    BY <1>1, <2>1, <2>3 DEF Index
  <2>5. ~(Flying(j) /\ j # job)
    BY <2>2 DEF IInv, ToldAfter
  <2>6. ~(new.pc = "sending" /\ new.job = j)
    <3>1. CASE new.job = <<"primary", next>>
      BY <1>1, <2>1, <2>3, <3>1 DEF Index
    <3>2. CASE /\ new.job = <<"rotation", job[2]>> /\ job[1] = "primary" /\ j = new.job
      \* The rotation of the item in flight was not told: it would have been
      \* earned by a record of the primary attempt, which has not ended.
      <4>1. j # job
        BY <3>2
      <4>2. Told(<<"rotation", job[2]>>)
        BY <2>2, <3>2, <4>1
      <4>3. Earned(job[2])
        BY <1>2, <4>2 DEF IInv, RotationsEarned
      <4>4. Told(<<"primary", job[2]>>)
        BY <4>3 DEF Earned, Told
      <4> QED BY <1>2, <1>3, <3>2, <4>4
    <3> QED BY <3>1, <3>2
  <2> QED BY <1>7, <2>4, <2>5, <2>6
<1>12. NothingLost'
  <2> SUFFICES ASSUME ~broken, NEW i \in Index, i < next'
               PROVE  Told(<<"primary", i>>)' \/ Flying(<<"primary", i>>)'
    BY DEF NothingLost
  <2>1. CASE i < next
    BY <1>4, <1>8, <2>1 DEF IInv, NothingLost
  <2>2. CASE i = next /\ next' = next + 1
    <3>1. new.pc = "sending" /\ new.job = <<"primary", i>>
      BY <1>1, <2>2
    <3> QED BY <1>6, <3>1
  <2>3. i \in Nat /\ next \in Nat
    BY <1>1 DEF Index
  <2>4. CASE next' = next
    BY <2>1, <2>4
  <2>5. CASE next' = next + 1
    <3>1. i < next \/ i = next
      BY <2>3, <2>5
    <3> QED BY <2>1, <2>2, <2>5, <3>1
  <2> QED BY <1>1, <2>4, <2>5
<1> QED BY <1>4, <1>9, <1>10, <1>11, <1>12 DEF Attempts

\* w, which has no attempt in flight, takes the next item or none.
LEMMA AttemptBegins ==
  ASSUME IInv, NEW w \in Worker, ~Sending(w), NEW new,
         UNCHANGED <<log, broken>>,
         worker' = [worker EXCEPT ![w] = new],
         \/ new.pc # "sending" /\ next' = next
         \/ /\ new.pc = "sending" /\ new.job = <<"primary", next>>
            /\ next \in Index /\ next' = next + 1
  PROVE  Attempts'
<1>1. /\ next \in Nat /\ next' \in {next, next + 1}
      /\ worker'[w] = new
      /\ \A v \in Worker \ {w} : worker'[v] = worker[v]
  BY RunAssumption DEF IInv, TypeOK
<1>2. /\ \A j : Told(j)' <=> Told(j)
      /\ \A i : Earned(i)' <=> Earned(i)
      /\ ToldOnce'
  BY DEF Told, Earned, IInv, ToldOnce
<1>3. \A j : Flying(j)' <=> Flying(j) \/ (new.pc = "sending" /\ new.job = j)
  BY <1>1 DEF Flying, Sending
<1>4. NoSharing'
  <2>1. ASSUME NEW v \in Worker \ {w}, Sending(v), new.pc = "sending"
        PROVE  worker[v].job[2] # new.job[2]
    <3>1. new.job[2] = next
      BY <2>1
    <3>2. worker[v].job[2] \in Index /\ worker[v].job[2] < next
      BY <2>1, JobParts DEF IInv, JobsKnown
    <3> QED BY <1>1, <3>1, <3>2 DEF Index
  <2>2. \A v \in Worker \ {w} : Sending(v)' <=> Sending(v)
    BY <1>1 DEF Sending
  <2>3. Sending(w)' <=> new.pc = "sending"
    BY <1>1 DEF Sending
  <2> QED BY <1>1, <2>1, <2>2, <2>3 DEF IInv, NoSharing
<1>5. RotationsEarned'
  BY <1>2, <1>3 DEF IInv, RotationsEarned
<1>6. ToldAfter'
  <2> SUFFICES ASSUME NEW j \in Job, Told(j)'
               PROVE  ~Flying(j)' /\ j[2] < next'
    BY DEF ToldAfter
  <2>1. j[2] \in Index /\ j[2] < next /\ ~Flying(j)
    BY <1>2, JobParts DEF IInv, ToldAfter
  <2>2. j[2] < next'
    BY <1>1, <2>1 DEF Index
  <2>3. ~(new.pc = "sending" /\ new.job = j)
    BY <1>1, <2>1 DEF Index
  <2> QED BY <1>3, <2>1, <2>2, <2>3
<1>7. NothingLost'
  <2> SUFFICES ASSUME ~broken, NEW i \in Index, i < next'
               PROVE  Told(<<"primary", i>>)' \/ Flying(<<"primary", i>>)'
    BY DEF NothingLost
  <2>1. CASE i < next
    BY <1>2, <1>3, <2>1 DEF IInv, NothingLost
  <2>2. CASE i = next /\ next' = next + 1
    <3>1. new.pc = "sending" /\ new.job = <<"primary", i>>
      BY <1>1, <2>2
    <3> QED BY <1>3, <3>1
  <2>3. i < next \/ (i = next /\ next' = next + 1)
    BY <1>1 DEF Index
  <2> QED BY <2>1, <2>2, <2>3
<1> QED BY <1>2, <1>4, <1>5, <1>6, <1>7 DEF Attempts

\* The write at the end of the attempt of w fails.
LEMMA AttemptLost ==
  ASSUME IInv, NEW w \in Worker, NEW new, new.pc # "sending",
         UNCHANGED <<log, next>>, broken' = TRUE,
         worker' = [worker EXCEPT ![w] = new]
  PROVE  Attempts'
<1>1. /\ worker'[w] = new
      /\ \A v \in Worker \ {w} : worker'[v] = worker[v]
  BY DEF IInv, TypeOK
<1>2. /\ \A j : Told(j)' <=> Told(j)
      /\ \A i : Earned(i)' <=> Earned(i)
      /\ ToldOnce'
  BY DEF Told, Earned, IInv, ToldOnce
<1>3. \A j : Flying(j)' => Flying(j)
  BY <1>1 DEF Flying, Sending
<1>4. NoSharing'
  BY <1>1 DEF IInv, NoSharing, Sending
<1>5. RotationsEarned'
  BY <1>2, <1>3 DEF IInv, RotationsEarned
<1>6. ToldAfter'
  BY <1>2, <1>3 DEF IInv, ToldAfter
<1>7. NothingLost'
  BY DEF NothingLost
<1> QED BY <1>2, <1>4, <1>5, <1>6, <1>7 DEF Attempts

-----------------------------------------------------------------------------
(* The steps, one after the other. *)

WorkerState == [pc : Quiet \union {"new", "sending"}, job : {NoJob} \union (Phase \X Index)]

\* A worker at work moves while the run gathers or drains.
LEMMA AtWork ==
  ASSUME IInv, NEW w \in Worker, worker[w].pc \in {"new", "sending"}
  PROVE  main \in {"gather", "drain"}
<1>1. main \in {"start", "warmup", "gather", "drain"} \union Final
  BY DEF IInv, TypeOK
<1>2. main \notin {"start", "warmup"}
  BY DEF IInv, Early
<1>3. main \notin Final
  BY DEF IInv, Closed, Quiet
<1> QED BY <1>1, <1>2, <1>3

\* What one worker's step does to the parts that are not about the records.
LEMMA WorkerMoves ==
  ASSUME IInv, NEW w \in Worker, worker[w].pc \in {"new", "sending"},
         NEW new \in WorkerState, worker' = [worker EXCEPT ![w] = new],
         UNCHANGED main, next' \in {next, next + 1},
         IF new.pc = "sending" THEN new.job \in Job /\ new.job[2] < next' ELSE new.job = NoJob
  PROVE  Early' /\ Closed' /\ JobsKnown' /\ worker' \in [Worker -> WorkerState]
<1>1. /\ worker \in [Worker -> WorkerState] /\ next \in Nat
      /\ worker'[w] = new
      /\ \A v \in Worker \ {w} : worker'[v] = worker[v]
  BY RunAssumption DEF IInv, TypeOK, WorkerState
<1>2. main \in {"gather", "drain"}
  BY AtWork
<1>3. Early' /\ Closed'
  BY <1>2 DEF Early, Closed, Final
<1>4. ASSUME NEW v \in Worker \ {w}, Sending(v) PROVE worker[v].job[2] < next'
  <2>1. worker[v].job[2] \in Nat /\ worker[v].job[2] < next
    BY <1>4, JobParts DEF IInv, JobsKnown, Index
  <2> QED BY <1>1, <2>1
<1>5. JobsKnown'
  BY <1>1, <1>4 DEF IInv, JobsKnown, Sending
<1> QED BY <1>1, <1>3, <1>5

LEMMA TakeNextEffect ==
  ASSUME IInv, NEW w \in Worker, TakeNext(w)
  PROVE  \E new \in WorkerState :
            /\ worker' = [worker EXCEPT ![w] = new]
            /\ next' \in 1 .. Cases + 1 /\ next' \in {next, next + 1}
            /\ \/ new.pc # "sending" /\ new.job = NoJob /\ next' = next
               \/ /\ new.pc = "sending" /\ new.job = <<"primary", next>>
                  /\ new.job \in Job /\ new.job[2] < next'
                  /\ next \in Index /\ next' = next + 1
<1>1. next \in 1 .. Cases + 1 /\ Cases \in Nat
  BY RunAssumption DEF IInv, TypeOK
<1>2. CASE next <= Cases
  <2> DEFINE new == [pc |-> "sending", job |-> <<"primary", next>>]
  <2>1. next \in Index /\ <<"primary", next>> \in Phase \X Index /\ <<"primary", next>> \in Job
    BY <1>1, <1>2 DEF Index, Phase, Job
  <2>2. new \in WorkerState
    BY <2>1 DEF WorkerState
  <2>3. worker' = [worker EXCEPT ![w] = new] /\ next' = next + 1
    BY <1>2 DEF TakeNext
  <2>4. next' \in 1 .. Cases + 1 /\ next < next'
    BY <1>1, <1>2, <2>3
  <2>5. new.pc = "sending" /\ new.job = <<"primary", next>> /\ new.job[2] = next
    OBVIOUS
  <2> WITNESS new \in WorkerState
  <2> HIDE DEF new
  <2> QED BY <2>1, <2>3, <2>4, <2>5
<1>3. CASE ~(next <= Cases)
  <2> DEFINE new == [pc |-> "returned", job |-> NoJob]
  <2>1. new \in WorkerState
    BY DEF WorkerState, Quiet
  <2>2. worker' = [worker EXCEPT ![w] = new] /\ next' = next
    BY <1>3 DEF TakeNext
  <2> QED BY <1>1, <2>1, <2>2
<1> QED BY <1>2, <1>3

\* A worker that ends is in one of the quiet states, without a job.
LEMMA EndsEffect ==
  ASSUME NEW w \in Worker, NEW how \in {"failed", "cancelled"}, Ends(w, how)
  PROVE  LET new == [pc |-> how, job |-> NoJob]
         IN  /\ new \in WorkerState /\ new.pc # "sending" /\ new.job = NoJob
             /\ worker' = [worker EXCEPT ![w] = new] /\ next' = next
BY DEF Ends, WorkerState, Quiet

LEMMA StartsInv ==
  ASSUME IInv, NEW w \in Worker, Starts(w)
  PROVE  IInv'
<1>1. worker[w].pc = "new" /\ UNCHANGED <<plan, main, warming, cut, results, log, broken>> /\ ~Sending(w)
  BY DEF Starts, Sending
<1>2. next \in 1 .. Cases + 1 /\ Cases \in Nat
  BY RunAssumption DEF IInv, TypeOK
<1>3. PICK new \in WorkerState :
            /\ worker' = [worker EXCEPT ![w] = new]
            /\ next' \in 1 .. Cases + 1 /\ next' \in {next, next + 1}
            /\ \/ new.pc # "sending" /\ new.job = NoJob /\ next' = next
               \/ /\ new.pc = "sending" /\ new.job = <<"primary", next>>
                  /\ new.job \in Job /\ new.job[2] < next'
                  /\ next \in Index /\ next' = next + 1
  BY <1>2, TakeNextEffect, EndsEffect DEF Starts
<1>4. Attempts'
  BY <1>1, <1>3, AttemptBegins
<1>5. Early' /\ Closed' /\ JobsKnown' /\ worker' \in [Worker -> WorkerState]
  BY <1>1, <1>3, WorkerMoves
<1>6. TypeOK'
  BY <1>1, <1>3, <1>5 DEF IInv, TypeOK, WorkerState
<1> QED BY <1>4, <1>5, <1>6 DEF IInv, Attempts

LEMMA ObservedInv ==
  ASSUME IInv, NEW w \in Worker, Observed(w)
  PROVE  IInv'
<1> DEFINE job == worker[w].job
<1>1. /\ worker[w].pc = "sending" /\ Sending(w)
      /\ UNCHANGED <<plan, main, warming, cut>>
  BY DEF Observed, Sending
<1>2. PICK s \in {"succeeded", "failed"} :
        /\ Write(job, s)
        /\ IF Rotates(job, s)
           THEN /\ worker' = [worker EXCEPT ![w].job = <<"rotation", job[2]>>]
                /\ UNCHANGED <<next, results>>
           ELSE /\ results' = [results EXCEPT ![job[2]] = Outcome(job, s)]
                /\ TakeNext(w)
  BY DEF Observed
<1>3. /\ job \in Job /\ job[2] \in Index /\ job[2] < next
      /\ [of |-> job, status |-> s] \in Record /\ s \in Status
  BY <1>1, JobParts DEF IInv, JobsKnown, Status
<1>4. next \in 1 .. Cases + 1 /\ Cases \in Nat /\ worker \in [Worker -> WorkerState]
      /\ results \in [Index -> {<<>>} \union (Status \X (Status \union {"none"}))]
      /\ log \in Seq(Record)
  BY RunAssumption DEF IInv, TypeOK, WorkerState, Record
<1>5. results' \in [Index -> {<<>>} \union (Status \X (Status \union {"none"}))]
  <2>1. Outcome(job, s) \in Status \X (Status \union {"none"})
    BY DEF Outcome, Status
  <2> QED BY <1>2, <1>4, <2>1
<1>6. \E new \in WorkerState :
        /\ worker' = [worker EXCEPT ![w] = new]
        /\ next' \in 1 .. Cases + 1 /\ next' \in {next, next + 1}
        /\ IF new.pc = "sending" THEN new.job \in Job /\ new.job[2] < next' ELSE new.job = NoJob
        /\ \/ new.pc # "sending" /\ next' = next
           \/ /\ new.pc = "sending" /\ new.job = <<"rotation", job[2]>>
              /\ job[1] = "primary" /\ s = "succeeded" /\ next' = next
           \/ /\ new.pc = "sending" /\ new.job = <<"primary", next>>
              /\ next \in Index /\ next' = next + 1
  <2>1. CASE Rotates(job, s)
    <3> DEFINE new == [pc |-> "sending", job |-> <<"rotation", job[2]>>]
    <3>1. job[1] = "primary" /\ s = "succeeded"
      BY <2>1 DEF Rotates
    <3>2. <<"rotation", job[2]>> \in Job /\ <<"rotation", job[2]>> \in Phase \X Index
      BY <1>3 DEF Job, Phase
    <3>3. new \in WorkerState
      BY <3>2 DEF WorkerState
    <3>4. [worker[w] EXCEPT !.job = <<"rotation", job[2]>>] = new
      <4>1. worker[w] \in WorkerState
        BY <1>4
      <4>2. worker[w] = [pc |-> "sending", job |-> worker[w].job]
        BY <1>1, <4>1 DEF WorkerState
      <4> QED BY <4>2
    <3>5. worker' = [worker EXCEPT ![w] = new] /\ next' = next
      BY <1>2, <1>4, <2>1, <3>4
    <3> QED BY <1>3, <1>4, <3>1, <3>2, <3>3, <3>5
  <2>2. CASE ~Rotates(job, s)
    <3>1. TakeNext(w)
      BY <1>2, <2>2
    <3> QED BY <3>1, TakeNextEffect
  <2> QED BY <2>1, <2>2
<1>7. PICK new \in WorkerState :
        /\ worker' = [worker EXCEPT ![w] = new]
        /\ next' \in 1 .. Cases + 1 /\ next' \in {next, next + 1}
        /\ IF new.pc = "sending" THEN new.job \in Job /\ new.job[2] < next' ELSE new.job = NoJob
        /\ \/ new.pc # "sending" /\ next' = next
           \/ /\ new.pc = "sending" /\ new.job = <<"rotation", job[2]>>
              /\ job[1] = "primary" /\ s = "succeeded" /\ next' = next
           \/ /\ new.pc = "sending" /\ new.job = <<"primary", next>>
              /\ next \in Index /\ next' = next + 1
  BY <1>6
<1>8. log' = Append(log, [of |-> job, status |-> s]) /\ broken' = broken
  BY <1>2 DEF Write
<1>9. Attempts'
  BY <1>1, <1>3, <1>7, <1>8, AttemptEnds
<1>10. Early' /\ Closed' /\ JobsKnown' /\ worker' \in [Worker -> WorkerState]
  BY <1>1, <1>7, WorkerMoves
<1>11. log' \in Seq(Record)
  BY <1>3, <1>4, <1>8
<1>12. TypeOK'
  BY <1>1, <1>5, <1>7, <1>8, <1>10, <1>11 DEF IInv, TypeOK, WorkerState, Record
<1> QED BY <1>9, <1>10, <1>12 DEF IInv, Attempts

LEMMA CanceledInv ==
  ASSUME IInv, NEW w \in Worker, Canceled(w)
  PROVE  IInv'
<1> DEFINE job == worker[w].job
           new == [pc |-> "cancelled", job |-> NoJob]
<1>1. /\ worker[w].pc = "sending" /\ Sending(w)
      /\ UNCHANGED <<plan, main, warming, cut, results, broken, next>>
      /\ log' = Append(log, [of |-> job, status |-> "canceled"])
  BY DEF Canceled, Sending, Write, Ends
<1>2. new \in WorkerState /\ new.pc # "sending" /\ new.job = NoJob /\ worker' = [worker EXCEPT ![w] = new]
  BY EndsEffect DEF Canceled
<1>3. job \in Job /\ "canceled" \in Status /\ [of |-> job, status |-> "canceled"] \in Record
  BY <1>1, JobParts DEF IInv, JobsKnown, Status
<1> HIDE DEF new
<1>4. Attempts'
  BY <1>1, <1>2, <1>3, AttemptEnds
<1>5. Early' /\ Closed' /\ JobsKnown' /\ worker' \in [Worker -> WorkerState]
  BY <1>1, <1>2, WorkerMoves
<1>6. TypeOK'
  BY <1>1, <1>3, <1>5 DEF IInv, TypeOK, WorkerState, Record
<1> QED BY <1>4, <1>5, <1>6 DEF IInv, Attempts

LEMMA RecordLostInv ==
  ASSUME IInv, NEW w \in Worker, RecordLost(w)
  PROVE  IInv'
<1> DEFINE new == [pc |-> "failed", job |-> NoJob]
<1>1. /\ worker[w].pc = "sending"
      /\ UNCHANGED <<plan, main, warming, cut, results, log, next>> /\ broken' = TRUE
  BY DEF RecordLost, WriteFails, Ends
<1>2. new \in WorkerState /\ new.pc # "sending" /\ new.job = NoJob /\ worker' = [worker EXCEPT ![w] = new]
  BY EndsEffect DEF RecordLost
<1> HIDE DEF new
<1>3. Attempts'
  BY <1>1, <1>2, AttemptLost
<1>4. Early' /\ Closed' /\ JobsKnown' /\ worker' \in [Worker -> WorkerState]
  BY <1>1, <1>2, WorkerMoves
<1>5. TypeOK'
  BY <1>1, <1>4 DEF IInv, TypeOK, WorkerState
<1> QED BY <1>3, <1>4, <1>5 DEF IInv, Attempts

\* The run's own steps: what all of them have in common.
LEMMA RunMoves ==
  ASSUME IInv, UNCHANGED <<plan, next, results>>,
         main' \in {"start", "warmup", "gather", "drain"} \union Final,
         warming' \in 0 .. Warmups, Early', Closed', cut' \subseteq Worker,
         broken' \in {broken, TRUE},
         \/ UNCHANGED worker
         \/ /\ main \in {"start", "warmup"}
            /\ worker' = [w \in Worker |-> [pc |-> "new", job |-> NoJob]],
         \/ log' = log
         \/ \E e \in Record : e.of \notin Job /\ log' = Append(log, e)
  PROVE  IInv'
<1>1. \A w \in Worker : /\ Sending(w)' <=> Sending(w)
                        /\ Sending(w) => worker'[w].job = worker[w].job
  BY DEF IInv, Early, Sending
<1>2. broken \in BOOLEAN /\ log \in Seq(Record)
  BY DEF IInv, TypeOK, Record
<1>3. Attempts'
  BY <1>1, <1>2, Bystander
<1>4. worker' \in [Worker -> WorkerState]
  BY DEF IInv, TypeOK, WorkerState
<1>5. JobsKnown'
  BY <1>1 DEF IInv, JobsKnown, Sending
<1>6. log' \in Seq(Record)
  BY <1>2
<1>7. TypeOK'
  BY <1>2, <1>4, <1>6 DEF IInv, TypeOK, WorkerState, Record
<1> QED BY <1>3, <1>5, <1>7 DEF IInv, Attempts

\* Records of the run that are not about an attempt at an item.
LEMMA OtherRecords ==
  ASSUME NEW n \in Nat, NEW s \in Status
  PROVE  /\ \A of \in {"warmup", "run", "summary"} \X {n} :
              [of |-> of, status |-> s] \in Record /\ [of |-> of, status |-> s].of \notin Job
BY DEF Record, Phase, Job

LEMMA OpenInv == ASSUME IInv, Open PROVE IInv'
<1>1. main = "start" /\ UNCHANGED <<plan, cut, next, results>>
  BY DEF Open
<1>2. cut' \subseteq Worker /\ broken \in BOOLEAN /\ warming' \in 0 .. Warmups
  <2>1. warming \in 0 .. Warmups /\ Warmups \in Nat
    BY RunAssumption DEF IInv, TypeOK
  <2> QED BY <1>1, <2>1 DEF IInv, TypeOK, Open
<1>3. \A w \in Worker : worker[w].pc = "none"
  BY <1>1 DEF IInv, Early
<1>4. CASE main' = "raised" /\ UNCHANGED <<worker, log>> /\ broken' \in {broken, TRUE}
  <2>1. Early' /\ Closed'
    BY <1>3, <1>4 DEF Early, Closed, Quiet
  <2> QED BY <1>1, <1>2, <1>4, <2>1, RunMoves DEF Final
<1>5. CASE /\ Write(<<"run", 0>>, "succeeded")
           /\ \/ main' = "warmup" /\ UNCHANGED worker
              \/ Spread
  <2>1. \E e \in Record : e.of \notin Job /\ log' = Append(log, e)
    BY <1>5, OtherRecords DEF Write, Status
  <2>2. Early' /\ Closed'
    BY <1>3, <1>5 DEF Early, Closed, Spread, Final
  <2>3. /\ broken' = broken /\ main' \in {"warmup", "gather"}
        /\ \/ UNCHANGED worker
           \/ worker' = [w \in Worker |-> [pc |-> "new", job |-> NoJob]]
    BY <1>5 DEF Write, Spread
  <2> QED BY <1>1, <1>2, <2>1, <2>2, <2>3, RunMoves
<1> QED BY <1>4, <1>5 DEF Open, WriteFails

LEMMA WarmupInv == ASSUME IInv, Warmup PROVE IInv'
<1>1. main = "warmup" /\ UNCHANGED <<plan, cut, next, results>>
  BY DEF Warmup
<1>2. cut' \subseteq Worker /\ broken \in BOOLEAN /\ warming \in Nat /\ warming' \in 0 .. Warmups
  <2>1. warming \in 0 .. Warmups /\ Warmups \in Nat
    BY RunAssumption DEF IInv, TypeOK
  <2> QED BY <1>1, <2>1 DEF IInv, TypeOK, Warmup
<1>3. \A w \in Worker : worker[w].pc = "none"
  BY <1>1 DEF IInv, Early
<1>4. CASE main' = "raised" /\ UNCHANGED worker /\ WriteFails
  <2>1. Early' /\ Closed'
    BY <1>3, <1>4 DEF Early, Closed, Quiet
  <2> QED BY <1>1, <1>2, <1>4, <2>1, RunMoves DEF Final, WriteFails
<1>5. ASSUME NEW s \in {"succeeded", "failed"}, Write(<<"warmup", warming>>, s),
             Spread \/ UNCHANGED <<main, worker>>
      PROVE  IInv'
  <2>2. \E e \in Record : e.of \notin Job /\ log' = Append(log, e)
    BY <1>2, <1>5, OtherRecords DEF Write, Status
  <2>3. Early' /\ Closed'
    BY <1>1, <1>3, <1>5 DEF Early, Closed, Spread, Final
  <2>4. /\ broken' = broken /\ main' \in {"warmup", "gather"}
        /\ \/ UNCHANGED worker
           \/ worker' = [w \in Worker |-> [pc |-> "new", job |-> NoJob]]
    BY <1>1, <1>5 DEF Write, Spread
  <2> QED BY <1>1, <1>2, <2>2, <2>3, <2>4, RunMoves
<1> QED BY <1>4, <1>5 DEF Warmup

LEMMA FinishInv == ASSUME IInv, Finish PROVE IInv'
<1> DEFINE n == Cardinality({i \in Index : results[i] # <<>>})
<1>1. main = "gather" /\ UNCHANGED <<plan, warming, worker, cut, next, results>> /\ main' \in Final
  BY DEF Finish, Final
<1>2. cut' \subseteq Worker /\ broken \in BOOLEAN /\ warming' \in 0 .. Warmups
  BY <1>1 DEF IInv, TypeOK
<1>3. Early' /\ Closed'
  BY <1>1 DEF Finish, Complete, Early, Closed, Quiet, Final
<1>4. n \in Nat
  <2>1. Cases \in Nat /\ {i \in Index : results[i] # <<>>} \in SUBSET (1 .. Cases)
    BY RunAssumption DEF Index
  <2> QED BY <2>1, PositionsFinite
<1>5. CASE Write(<<"summary", n>>, "succeeded")
  <2>1. \E e \in Record : e.of \notin Job /\ log' = Append(log, e)
    BY <1>4, <1>5, OtherRecords DEF Write, Status
  <2>2. broken' = broken
    BY <1>5 DEF Write
  <2> QED BY <1>1, <1>2, <1>3, <2>1, <2>2, RunMoves
<1>6. CASE WriteFails
  BY <1>1, <1>2, <1>3, <1>6, RunMoves DEF WriteFails
<1> QED BY <1>5, <1>6 DEF Finish

LEMMA GatherRaisesInv == ASSUME IInv, GatherRaises PROVE IInv'
<1>1. /\ main' = "drain" /\ cut' \subseteq Worker /\ warming' \in 0 .. Warmups
      /\ UNCHANGED <<plan, warming, worker, next, results, log, broken>>
  BY DEF GatherRaises, Running, IInv, TypeOK
<1>2. Early' /\ Closed'
  BY <1>1 DEF Early, Closed, Final
<1> QED BY <1>1, <1>2, RunMoves

LEMMA DrainedInv == ASSUME IInv, Drained PROVE IInv'
<1>1. /\ main' = "raised" /\ cut' \subseteq Worker /\ warming' \in 0 .. Warmups
      /\ UNCHANGED <<plan, warming, worker, next, results, log, broken>>
  BY DEF Drained, IInv, TypeOK
<1>2. Early' /\ Closed'
  BY <1>1 DEF Drained, Running, Early, Closed
<1> QED BY <1>1, <1>2, RunMoves DEF Final

LEMMA InterruptInv == ASSUME IInv, Interrupt PROVE IInv'
<1>1. /\ UNCHANGED <<plan, warming, worker, next, results, broken>> /\ cut' \subseteq Worker
      /\ warming' \in 0 .. Warmups
  BY DEF Interrupt, WarmupCanceled, Write, Running, IInv, TypeOK
<1>2. CASE WarmupCanceled
  <2>1. warming \in Nat /\ main = "warmup" /\ main' = "raised"
    BY <1>2, RunAssumption DEF IInv, TypeOK, WarmupCanceled
  <2>2. \E e \in Record : e.of \notin Job /\ log' = Append(log, e)
    BY <1>2, <2>1, OtherRecords DEF WarmupCanceled, Write, Status
  <2>3. Early' /\ Closed'
    BY <1>1, <2>1 DEF IInv, Early, Closed, Quiet
  <2> QED BY <1>1, <2>1, <2>2, <2>3, RunMoves DEF Final
<1>3. CASE main' \in {"gather", "drain"} /\ UNCHANGED log
  <2>1. Early' /\ Closed'
    BY <1>3 DEF Early, Closed, Final
  <2> QED BY <1>1, <1>3, <2>1, RunMoves
<1> QED BY <1>2, <1>3 DEF Interrupt

LEMMA InitInv == Init => IInv
<1> SUFFICES ASSUME Init PROVE IInv
  OBVIOUS
<1>1. TypeOK
  <2>1. worker \in [Worker -> WorkerState]
    BY DEF Init, WorkerState, Quiet
  <2>2. log \in Seq(Record)
    BY DEF Init
  <2>3. next \in 1 .. Cases + 1
    BY RunAssumption DEF Init
  <2>4. results \in [Index -> {<<>>} \union (Status \X (Status \union {"none"}))]
    BY DEF Init
  <2>5. warming \in 0 .. Warmups
    BY RunAssumption DEF Init
  <2> QED BY <2>1, <2>2, <2>3, <2>4, <2>5 DEF Init, TypeOK, WorkerState, Record
<1>2. Early /\ Closed /\ JobsKnown /\ NoSharing
  BY DEF Init, Early, Closed, Final, JobsKnown, NoSharing, Sending
<1>3. ToldOnce /\ \A j : ~Told(j) /\ ~Flying(j)
  BY DEF Init, ToldOnce, Told, Flying, Sending
<1>4. RotationsEarned /\ ToldAfter /\ NothingLost
  BY <1>3 DEF Init, RotationsEarned, ToldAfter, NothingLost, Index
<1> QED BY <1>1, <1>2, <1>3, <1>4 DEF IInv

LEMMA NextInv == IInv /\ [Next]_vars => IInv'
<1> SUFFICES ASSUME IInv, [Next]_vars PROVE IInv'
  OBVIOUS
<1>1. CASE Open BY <1>1, OpenInv
<1>2. CASE Warmup BY <1>2, WarmupInv
<1>3. CASE Finish BY <1>3, FinishInv
<1>4. CASE GatherRaises BY <1>4, GatherRaisesInv
<1>5. CASE Drained BY <1>5, DrainedInv
<1>6. CASE Interrupt BY <1>6, InterruptInv
<1>7. ASSUME NEW w \in Worker, Starts(w) PROVE IInv' BY <1>7, StartsInv
<1>8. ASSUME NEW w \in Worker, Observed(w) PROVE IInv' BY <1>8, ObservedInv
<1>9. ASSUME NEW w \in Worker, Canceled(w) PROVE IInv' BY <1>9, CanceledInv
<1>10. ASSUME NEW w \in Worker, RecordLost(w) PROVE IInv' BY <1>10, RecordLostInv
<1>11. CASE UNCHANGED vars
  <2>1. Early' /\ Closed' /\ cut' \subseteq Worker /\ warming' \in 0 .. Warmups
        /\ main' \in {"start", "warmup", "gather", "drain"} \union Final
    BY <1>11 DEF vars, IInv, Early, Closed, TypeOK
  <2> QED BY <1>11, <2>1, RunMoves DEF vars
<1> QED BY <1>1, <1>2, <1>3, <1>4, <1>5, <1>6, <1>7, <1>8, <1>9, <1>10, <1>11 DEF Next, Over

LEMMA Invariance == Spec => []IInv
BY InitInv, NextInv, PTL DEF Spec

-----------------------------------------------------------------------------
\* The state keeps its shape (client.py:94-121, runlog.py:99-115).
THEOREM TypeCorrect == Spec => []TypeOK
BY Invariance, PTL DEF IInv

\* The file is closed only when no worker can write to it any more, however
\* the run ends (runlog.py:109-113, client.py:156-157, 271-272).
THEOREM ClosedForGood == Spec => []NoWriteAfterClose
<1>1. IInv => NoWriteAfterClose
  BY DEF IInv, Closed, NoWriteAfterClose, Running
<1> QED BY <1>1, Invariance, PTL

\* What a job in flight is: the workers that run and have one, send it.
LEMMA InFlightFacts ==
  ASSUME IInv
  PROVE  /\ \A w \in Running : worker[w].job # NoJob => Sending(w)
         /\ \A j \in Job : j \in InFlight <=> Flying(j)
<1>1. \A w \in Running : worker[w].job # NoJob => Sending(w)
  BY DEF IInv, JobsKnown, Running
<1>2. ASSUME NEW j \in Job, j \in InFlight PROVE Flying(j)
  BY <1>1, <1>2 DEF InFlight, Flying, Running
<1>3. ASSUME NEW j \in Job, Flying(j) PROVE j \in InFlight
  BY <1>3, JobParts DEF InFlight, Flying, Running, Sending, Quiet
<1> QED BY <1>1, <1>2, <1>3

\* No two workers send attempts at the same item, and a rotation is sent only
\* for a primary attempt recorded as a success (runlog.py:99-104,
\* client.py:196-209).
THEOREM EachOnce == Spec => []EachCaseOnce
<1>1. ASSUME IInv PROVE EachCaseOnce
  <2>1. ASSUME NEW v \in Running, NEW w \in Running, v # w, worker[v].job # NoJob, worker[w].job # NoJob
        PROVE  worker[v].job[2] # worker[w].job[2]
    <3>1. Sending(v) /\ Sending(w)
      BY <1>1, <2>1, InFlightFacts
    <3> QED BY <1>1, <2>1, <3>1 DEF IInv, NoSharing, Running
  <2>2. ASSUME NEW i \in Index, <<"rotation", i>> \in InFlight \/ Ended(<<"rotation", i>>) # {}
        PROVE  Earned(i)
    <3>1. <<"rotation", i>> \in Job
      BY DEF Job
    <3>2. Flying(<<"rotation", i>>) \/ Told(<<"rotation", i>>)
      BY <1>1, <2>2, <3>1, InFlightFacts DEF Ended, Told
    <3> QED BY <1>1, <3>2 DEF IInv, RotationsEarned
  <2> QED BY <2>1, <2>2 DEF EachCaseOnce, Earned
<1>2. IInv => EachCaseOnce
  BY <1>1
<1> QED BY <1>2, Invariance, PTL

-----------------------------------------------------------------------------
(* The summary: what the workers returned is what was written. *)

Recorded(j, s) == \E k \in DOMAIN log : log[k] = [of |-> j, status |-> s]

\* The header is the first record, the summary the last, and a record of an
\* attempt is that of a job.
Filed ==
    /\ main = "start" => log = <<>>
    /\ main \in {"warmup", "gather", "drain", "finished"} => log # <<>> /\ log[1] = Header
    /\ \A k \in DOMAIN log : /\ log[k].of[1] \in {"primary", "rotation"} => log[k].of \in Job
                             /\ log[k].of[1] = "run" => k = 1
                             /\ log[k].of[1] = "summary" => main = "finished" /\ k = Len(log)

\* What once() returned for an item is what the records of its attempts say.
AsRecorded(i) ==
    /\ i < next
    /\ ~Flying(<<"primary", i>>) /\ ~Flying(<<"rotation", i>>)
    /\ results[i][1] \in {"succeeded", "failed"}
    /\ Recorded(<<"primary", i>>, results[i][1])
    /\ IF plan = "rotate" /\ results[i][1] = "succeeded"
       THEN results[i][2] \in {"succeeded", "failed"} /\ Recorded(<<"rotation", i>>, results[i][2])
       ELSE results[i][2] = "none" /\ ~Told(<<"rotation", i>>)
Remembered == \A i \in Index : results[i] # <<>> => AsRecorded(i)

\* Unless a worker stopped, what was taken is at work or has been returned.
AtWorkOn(i) == Flying(<<"primary", i>>) \/ Flying(<<"rotation", i>>)
Accounted == Stopped = {} => \A i \in Index : i < next => results[i] # <<>> \/ AtWorkOn(i)

Exhausted == \A w \in Worker : worker[w].pc = "returned" => next = Cases + 1
Rotating == \A i \in Index : Flying(<<"rotation", i>>) => plan = "rotate"
Finished == main = "finished" =>
    /\ log[Len(log)].of = <<"summary", Cases>>
    /\ \A i \in Index : results[i] # <<>>

SInv == Filed /\ Remembered /\ Accounted /\ Exhausted /\ Rotating /\ Finished

-----------------------------------------------------------------------------
\* Another record, of a job or of the run.
LEMMA FiledGrows ==
  ASSUME IInv, Filed, main \in {"start", "warmup", "gather", "drain"},
         NEW e \in Record, log' = Append(log, e), main' # "start",
         e.of[1] \in {"primary", "rotation"} => e.of \in Job,
         main = "start" => e = Header,
         e.of[1] = "run" => main = "start",
         e.of[1] = "summary" => main' = "finished"
  PROVE  Filed'
<1>1. /\ Len(log) \in Nat
      /\ DOMAIN log = 1 .. Len(log) /\ DOMAIN log' = 1 .. Len(log) + 1
      /\ log'[Len(log) + 1] = e
      /\ \A k \in DOMAIN log : log'[k] = log[k]
      /\ log' \in Seq(Record)
  BY Appended DEF IInv, TypeOK, Record
<1>2. Len(log') = Len(log) + 1 /\ log' # <<>>
  BY <1>1
<1>3. log'[1] = Header
  <2>1. CASE main = "start"
    BY <1>1, <2>1 DEF Filed
  <2>2. CASE main # "start"
    <3>1. log # <<>> /\ log[1] = Header
      BY <2>2 DEF Filed
    <3>2. 1 \in DOMAIN log
      BY <1>1, <3>1 DEF IInv, TypeOK
    <3> QED BY <1>1, <3>1, <3>2
  <2> QED BY <2>1, <2>2
<1>4. ASSUME NEW k \in DOMAIN log'
      PROVE  /\ log'[k].of[1] \in {"primary", "rotation"} => log'[k].of \in Job
             /\ log'[k].of[1] = "run" => k = 1
             /\ log'[k].of[1] = "summary" => main' = "finished" /\ k = Len(log')
  <2>1. CASE k \in DOMAIN log
    BY <1>1, <2>1 DEF Filed
  <2>2. CASE k = Len(log) + 1
    <3>1. main = "start" => k = 1
      BY <2>2 DEF Filed
    <3> QED BY <1>1, <1>2, <2>2, <3>1
  <2> QED BY <1>1, <2>1, <2>2
<1>5. Job' = Job
  BY DEF Job, Index
<1> QED BY <1>2, <1>3, <1>4, <1>5 DEF Filed

\* The file is left alone while the run goes on, or raises.
LEMMA FiledStays ==
  ASSUME Filed, log' = log, main \notin Final,
         main' = main \/ main' = "raised" \/ (main = "gather" /\ main' = "drain")
  PROVE  Filed'
<1>1. Job' = Job /\ main # "finished"
  BY DEF Job, Index, Final
<1> QED BY <1>1 DEF Filed

\* What a new record of a job adds.
LEMMA RecordedGrows ==
  ASSUME IInv, NEW e \in Record, log' = Append(log, e)
  PROVE  /\ \A j, s : Recorded(j, s) => Recorded(j, s)'
         /\ Recorded(e.of, e.status)'
         /\ \A j : Told(j)' <=> Told(j) \/ e.of = j
<1>1. /\ Len(log) \in Nat
      /\ DOMAIN log = 1 .. Len(log) /\ DOMAIN log' = 1 .. Len(log) + 1
      /\ log'[Len(log) + 1] = e
      /\ \A k \in DOMAIN log : log'[k] = log[k]
  BY Appended DEF IInv, TypeOK, Record
<1>2. \A j, s : Recorded(j, s) => Recorded(j, s)'
  BY <1>1 DEF Recorded
<1>3. Recorded(e.of, e.status)'
  <2>1. e = [of |-> e.of, status |-> e.status]
    BY DEF Record
  <2>2. Len(log) + 1 \in DOMAIN log'
    BY <1>1
  <2> QED BY <1>1, <2>1, <2>2 DEF Recorded
<1>4. \A j : Told(j)' <=> Told(j) \/ e.of = j
  BY <1>1 DEF Told
<1> QED BY <1>2, <1>3, <1>4

\* An item whose outcome is known is not touched by the step of a worker.
LEMMA StillAsRecorded ==
  ASSUME IInv, Remembered, NEW i \in Index, results[i] # <<>>, results'[i] = results[i],
         NEW w \in Worker, NEW new, worker' = [worker EXCEPT ![w] = new],
         plan' = plan, next' \in {next, next + 1},
         \/ log' = log
         \/ /\ Sending(w)
            /\ \E s \in Status : log' = Append(log, [of |-> worker[w].job, status |-> s]),
         new.pc = "sending" => \/ new.job = <<"primary", next>>
                               \/ Sending(w) /\ new.job[2] = worker[w].job[2]
  PROVE  AsRecorded(i)'
<1>1. AsRecorded(i) /\ i < next /\ next \in Nat /\ i \in Nat /\ next # i
  BY RunAssumption DEF Remembered, AsRecorded, IInv, TypeOK, Index
<1>2. ASSUME Sending(w) PROVE worker[w].job \in Job /\ worker[w].job[2] # i
  <2>1. worker[w].job \in Job /\ Flying(worker[w].job)
    BY <1>2 DEF IInv, JobsKnown, Flying
  <2>2. worker[w].job = <<worker[w].job[1], worker[w].job[2]>> /\ worker[w].job[1] \in {"primary", "rotation"}
    BY <2>1, JobParts
  <2> QED BY <1>1, <2>1, <2>2 DEF AsRecorded
<1>3. \A p \in {"primary", "rotation"} : ~Flying(<<p, i>>)'
  <2> SUFFICES ASSUME NEW p \in {"primary", "rotation"}, Flying(<<p, i>>)' PROVE FALSE
    OBVIOUS
  <2>1. ~Flying(<<p, i>>)
    BY <1>1 DEF AsRecorded
  <2>2. PICK v \in Worker : Sending(v)' /\ worker'[v].job = <<p, i>>
    BY DEF Flying
  <2>3. v = w
    BY <2>1, <2>2 DEF Flying, Sending, IInv, TypeOK
  <2>4. new.pc = "sending" /\ new.job = <<p, i>>
    BY <2>2, <2>3 DEF Sending, IInv, TypeOK
  <2> QED BY <1>1, <1>2, <2>4
<1>4. i < next'
  BY <1>1
<1>5. /\ \A j, s : Recorded(j, s) => Recorded(j, s)'
      /\ ~Told(<<"rotation", i>>) => ~Told(<<"rotation", i>>)'
  <2>1. CASE log' = log
    BY <2>1 DEF Recorded, Told
  <2>2. CASE log' # log
    <3>1. PICK s \in Status : log' = Append(log, [of |-> worker[w].job, status |-> s])
      BY <2>2
    <3>2. [of |-> worker[w].job, status |-> s] \in Record /\ worker[w].job # <<"rotation", i>>
      BY <1>2, <2>2, JobParts
    <3> QED BY <3>1, <3>2, RecordedGrows
  <2> QED BY <2>1, <2>2
<1> QED BY <1>1, <1>3, <1>4, <1>5 DEF AsRecorded

\* The other parts of SInv, after the step of a worker that had an item.
LEMMA StillAccounted ==
  ASSUME IInv, SInv, NEW w \in Worker, worker[w].pc \in {"new", "sending"},
         NEW new, worker' = [worker EXCEPT ![w] = new],
         \/ new.pc \in {"failed", "cancelled"}
         \/ /\ \A i \in Index : results[i] # <<>> => results'[i] # <<>>
            /\ Sending(w) => \/ results'[worker[w].job[2]] # <<>>
                             \/ new.pc = "sending" /\ new.job = <<"rotation", worker[w].job[2]>>
            /\ \/ next' = next
               \/ next' = next + 1 /\ new.pc = "sending" /\ new.job = <<"primary", next>>
  PROVE  Accounted'
<1>1. worker'[w] = new /\ \A v \in Worker \ {w} : worker'[v] = worker[v]
  BY DEF IInv, TypeOK
<1>2. CASE new.pc \in {"failed", "cancelled"}
  <2>1. w \in Stopped'
    BY <1>1, <1>2 DEF Stopped
  <2> QED BY <2>1 DEF Accounted
<1>3. CASE /\ \A i \in Index : results[i] # <<>> => results'[i] # <<>>
           /\ Sending(w) => \/ results'[worker[w].job[2]] # <<>>
                            \/ new.pc = "sending" /\ new.job = <<"rotation", worker[w].job[2]>>
           /\ \/ next' = next
              \/ next' = next + 1 /\ new.pc = "sending" /\ new.job = <<"primary", next>>
  <2> SUFFICES ASSUME Stopped' = {}, NEW i \in Index, i < next', results'[i] = <<>>
               PROVE  AtWorkOn(i)'
    BY DEF Accounted
  <2>1. Stopped = {}
    BY <1>1 DEF Stopped
  <2>2. next \in Nat /\ i \in Nat
    BY RunAssumption DEF IInv, TypeOK, Index
  <2>3. CASE i < next
    <3>1. AtWorkOn(i)
      BY <1>3, <2>1, <2>3 DEF SInv, Accounted
    <3>2. PICK v \in Worker, p \in {"primary", "rotation"} : Sending(v) /\ worker[v].job = <<p, i>>
      BY <3>1 DEF AtWorkOn, Flying
    <3>3. CASE v = w
      <4>1. new.pc = "sending" /\ new.job = <<"rotation", i>>
        BY <1>3, <3>2, <3>3
      <4>2. Flying(<<"rotation", i>>)'
        BY <1>1, <4>1 DEF Flying, Sending
      <4> QED BY <4>2 DEF AtWorkOn
    <3>4. CASE v # w
      <4>1. Flying(<<p, i>>)'
        BY <1>1, <3>2, <3>4 DEF Flying, Sending
      <4> QED BY <4>1 DEF AtWorkOn
    <3> QED BY <3>3, <3>4
  <2>4. CASE i = next /\ next' = next + 1
    <3>1. new.pc = "sending" /\ new.job = <<"primary", i>>
      BY <1>3, <2>2, <2>4
    <3>2. Flying(<<"primary", i>>)'
      BY <1>1, <3>1 DEF Flying, Sending
    <3> QED BY <3>2 DEF AtWorkOn
  <2> QED BY <1>3, <2>2, <2>3, <2>4
<1> QED BY <1>2, <1>3

LEMMA StillExhausted ==
  ASSUME IInv, SInv, NEW w \in Worker, worker[w].pc \in {"new", "sending"},
         NEW new, worker' = [worker EXCEPT ![w] = new],
         \/ next' = next /\ (new.pc = "returned" => next = Cases + 1)
         \/ next' = next + 1 /\ next \in Index /\ new.pc = "sending",
         new.pc = "sending" => \/ new.job[1] = "primary"
                               \/ plan = "rotate",
         UNCHANGED <<plan, main>>
  PROVE  Exhausted' /\ Rotating' /\ Finished'
<1>1. worker'[w] = new /\ \A v \in Worker \ {w} : worker'[v] = worker[v]
  BY DEF IInv, TypeOK
<1>2. Exhausted'
  BY <1>1, RunAssumption DEF SInv, Exhausted, Index
<1>3. Rotating'
  <2> SUFFICES ASSUME NEW i \in Index, Flying(<<"rotation", i>>)', plan # "rotate" PROVE FALSE
    BY DEF Rotating
  <2>1. ~Flying(<<"rotation", i>>)
    BY DEF SInv, Rotating
  <2>2. PICK v \in Worker : Sending(v)' /\ worker'[v].job = <<"rotation", i>>
    BY DEF Flying
  <2>3. v = w
    BY <1>1, <2>1, <2>2 DEF Flying, Sending
  <2> QED BY <1>1, <2>2, <2>3 DEF Sending
<1>4. Finished'
  BY AtWork DEF Finished
<1> QED BY <1>2, <1>3, <1>4

\* TakeNext, with what it means for the iterator.
LEMMA TakeNextFacts ==
  ASSUME IInv, NEW w \in Worker, TakeNext(w)
  PROVE  \E new :
            /\ worker' = [worker EXCEPT ![w] = new]
            /\ \/ next' = next /\ new.pc = "returned" /\ next = Cases + 1
               \/ /\ next' = next + 1 /\ next \in Index
                  /\ new.pc = "sending" /\ new.job = <<"primary", next>>
<1>1. next \in 1 .. Cases + 1 /\ Cases \in Nat
  BY RunAssumption DEF IInv, TypeOK
<1>2. CASE next <= Cases
  <2>1. next \in Index
    BY <1>1, <1>2 DEF Index
  <2> WITNESS [pc |-> "sending", job |-> <<"primary", next>>]
  <2> QED BY <1>2, <2>1 DEF TakeNext
<1>3. CASE ~(next <= Cases)
  <2>1. next = Cases + 1
    BY <1>1, <1>3
  <2> WITNESS [pc |-> "returned", job |-> NoJob]
  <2> QED BY <1>3, <2>1 DEF TakeNext
<1> QED BY <1>2, <1>3

LEMMA StartsSum ==
  ASSUME IInv, SInv, NEW w \in Worker, Starts(w)
  PROVE  SInv'
<1>1. worker[w].pc = "new" /\ UNCHANGED <<plan, main, cut, results, log, broken>> /\ ~Sending(w)
  BY DEF Starts, Sending
<1>2. PICK new : /\ worker' = [worker EXCEPT ![w] = new]
                 /\ \/ next' = next /\ new.pc \in {"failed", "cancelled"}
                    \/ next' = next /\ new.pc = "returned" /\ next = Cases + 1
                    \/ /\ next' = next + 1 /\ next \in Index
                       /\ new.pc = "sending" /\ new.job = <<"primary", next>>
  <2>1. CASE Ends(w, "cancelled")
    <3> WITNESS [pc |-> "cancelled", job |-> NoJob]
    <3> QED BY <2>1 DEF Ends
  <2>2. CASE TakeNext(w)
    BY <2>2, TakeNextFacts
  <2> QED BY <2>1, <2>2 DEF Starts
<1>3. main \notin Final
  BY <1>1, AtWork DEF Final
<1>4. Filed'
  BY <1>1, <1>3, FiledStays DEF SInv
<1>5. Remembered'
  <2>1. ASSUME NEW i \in Index, results'[i] # <<>> PROVE AsRecorded(i)'
    BY <1>1, <1>2, <2>1, StillAsRecorded DEF SInv
  <2> QED BY <2>1 DEF Remembered, Index
<1>6. Accounted'
  BY <1>1, <1>2, StillAccounted
<1>7. Exhausted' /\ Rotating' /\ Finished'
  <2>1. new.pc = "sending" => new.job[1] = "primary"
    BY <1>2
  <2>2. \/ next' = next /\ (new.pc = "returned" => next = Cases + 1)
        \/ next' = next + 1 /\ next \in Index /\ new.pc = "sending"
    BY <1>2
  <2> QED BY <1>1, <1>2, <2>1, <2>2, StillExhausted
<1> QED BY <1>4, <1>5, <1>6, <1>7 DEF SInv

\* The attempt of w has ended: its record, and what once() makes of it.
LEMMA ObservedSum ==
  ASSUME IInv, IInv', SInv, NEW w \in Worker, Observed(w)
  PROVE  SInv'
<1>1. PICK job : job = worker[w].job
  OBVIOUS
<1>2. PICK i : i = job[2]
  OBVIOUS
<1>3. /\ worker[w].pc = "sending" /\ Sending(w) /\ UNCHANGED <<plan, main, cut>>
  BY DEF Observed, Sending
<1>4. PICK s \in {"succeeded", "failed"} :
        /\ Write(job, s)
        /\ IF Rotates(job, s)
           THEN /\ worker' = [worker EXCEPT ![w].job = <<"rotation", i>>]
                /\ UNCHANGED <<next, results>>
           ELSE /\ results' = [results EXCEPT ![i] = Outcome(job, s)]
                /\ TakeNext(w)
  BY <1>1, <1>2 DEF Observed
<1> DEFINE e == [of |-> job, status |-> s]
<1>5. /\ job \in Job /\ i \in Index /\ i < next /\ job = <<job[1], i>>
      /\ job[1] \in {"primary", "rotation"} /\ e \in Record /\ Flying(job)
      /\ log' = Append(log, e) /\ s \in Status
  BY <1>3, <1>4, <1>1, <1>2, JobParts DEF IInv, JobsKnown, Status, Flying, Write
<1>6. main \in {"gather", "drain"} /\ main' = main
  BY <1>3, AtWork
<1>7. Filed'
  <2>1. e.of[1] \in {"primary", "rotation"} /\ e.of \in Job
    BY <1>5
  <2> QED BY <1>5, <1>6, <2>1, FiledGrows DEF SInv
<1>8. results[i] = <<>>
  <2>1. \A p \in {"primary", "rotation"} : Flying(<<p, i>>) => results[i] = <<>>
    BY <1>5 DEF SInv, Remembered, AsRecorded
  <2> QED BY <1>5, <2>1
<1>9. PICK new :
        /\ worker' = [worker EXCEPT ![w] = new]
        /\ \/ /\ Rotates(job, s) /\ UNCHANGED <<next, results>>
              /\ new.pc = "sending" /\ new.job = <<"rotation", i>>
           \/ /\ ~Rotates(job, s) /\ results' = [results EXCEPT ![i] = Outcome(job, s)]
              /\ \/ next' = next /\ new.pc = "returned" /\ next = Cases + 1
                 \/ /\ next' = next + 1 /\ next \in Index
                    /\ new.pc = "sending" /\ new.job = <<"primary", next>>
  <2>1. CASE Rotates(job, s)
    <3> WITNESS [worker[w] EXCEPT !.job = <<"rotation", i>>]
    <3>1. worker[w] \in [pc : Quiet \union {"new", "sending"}, job : {NoJob} \union (Phase \X Index)]
      BY DEF IInv, TypeOK
    <3> QED BY <1>3, <1>4, <2>1, <3>1
  <2>2. CASE ~Rotates(job, s)
    BY <1>4, <2>2, TakeNextFacts
  <2> QED BY <2>1, <2>2
<1>10. next' \in {next, next + 1} /\ next \in Nat /\ Cases \in Nat
  BY <1>9, RunAssumption DEF IInv, TypeOK
<1>11. results \in [Index -> {<<>>} \union (Status \X (Status \union {"none"}))]
  BY DEF IInv, TypeOK
<1>12. ASSUME NEW k \in Index, k # i, results'[k] # <<>> PROVE AsRecorded(k)'
  <2>1. results'[k] = results[k]
    BY <1>9, <1>11, <1>12
  <2>2. new.pc = "sending" => \/ new.job = <<"primary", next>>
                              \/ Sending(w) /\ new.job[2] = worker[w].job[2]
    BY <1>3, <1>9, <1>1, <1>2
  <2> QED BY <1>3, <1>5, <1>9, <1>10, <1>12, <2>1, <2>2, StillAsRecorded, <1>1 DEF SInv
<1>13. ASSUME results'[i] # <<>> PROVE AsRecorded(i)'
  <2>1. ~Rotates(job, s) /\ results'[i] = Outcome(job, s)
    BY <1>5, <1>8, <1>9, <1>11, <1>13
  <2>2. /\ i < next' /\ i # next
        /\ new.pc = "sending" => new.job = <<"primary", next>>
    BY <1>5, <1>9, <1>10, <2>1 DEF Index
  <2>3. \A v \in Worker \ {w} : /\ worker'[v] = worker[v] /\ worker'[w] = new
                                /\ Sending(v) => worker[v].job[2] # i
    BY <1>3, <1>9, <1>1, <1>2 DEF IInv, NoSharing, TypeOK
  <2>4. \A p \in {"primary", "rotation"} : ~Flying(<<p, i>>)'
    <3> SUFFICES ASSUME NEW p \in {"primary", "rotation"}, NEW v \in Worker,
                        Sending(v)', worker'[v].job = <<p, i>>
                 PROVE  FALSE
      BY DEF Flying
    <3>1. CASE v = w
      <4>1. worker'[w] = new
        BY <1>9 DEF IInv, TypeOK
      <4> QED BY <2>2, <3>1, <4>1 DEF Sending
    <3>2. CASE v # w
      BY <2>3, <3>2 DEF Sending
    <3> QED BY <3>1, <3>2
  <2>5. /\ \A j, t : Recorded(j, t) => Recorded(j, t)'
        /\ Recorded(job, s)'
        /\ \A j : Told(j)' <=> Told(j) \/ job = j
    BY <1>5, RecordedGrows
  <2>6. <<"rotation", i>> \in Job /\ <<"primary", i>> \in Job
    BY <1>5 DEF Job
  <2>7. CASE job[1] = "primary"
    <3>1. /\ results'[i] = <<s, "none">> /\ job = <<"primary", i>>
          /\ ~(plan = "rotate" /\ s = "succeeded")
      BY <1>5, <2>1, <2>7 DEF Outcome, Rotates
    <3>2. ~Told(<<"primary", i>>)
      BY <1>5, <2>6, <3>1 DEF IInv, ToldAfter
    <3>3. ~Told(<<"rotation", i>>)
      BY <1>5, <3>2, SMTT(40) DEF IInv, RotationsEarned, Earned, Told
    <3>4. ~Told(<<"rotation", i>>)'
      BY <2>5, <3>1, <3>3
    <3> QED BY <1>3, <2>2, <2>4, <2>5, <3>1, <3>4 DEF AsRecorded
  <2>8. CASE job[1] = "rotation"
    <3>1. results'[i] = <<"succeeded", s>> /\ job = <<"rotation", i>> /\ plan = "rotate"
      BY <1>5, <2>1, <2>8 DEF Outcome, SInv, Rotating
    <3>2. Recorded(<<"primary", i>>, "succeeded")
      BY <1>5, <3>1 DEF IInv, RotationsEarned, Earned, Recorded
    <3> QED BY <1>3, <2>2, <2>4, <2>5, <3>1, <3>2 DEF AsRecorded
  <2> QED BY <1>5, <2>7, <2>8
<1>14. Remembered'
  BY <1>12, <1>13 DEF Remembered, Index
<1>15. Accounted'
  <2>1. \A k \in Index : results[k] # <<>> => results'[k] # <<>>
    BY <1>8, <1>9, <1>11 DEF Outcome
  <2>2. \/ results'[i] # <<>>
        \/ new.pc = "sending" /\ new.job = <<"rotation", i>>
    BY <1>5, <1>9, <1>11 DEF Outcome
  <2>3. next' = next \/ (next' = next + 1 /\ new.pc = "sending" /\ new.job = <<"primary", next>>)
    BY <1>9
  <2> QED BY <1>3, <1>9, <1>1, <1>2, <2>1, <2>2, <2>3, StillAccounted
<1>16. Exhausted' /\ Rotating' /\ Finished'
  <2>1. new.pc = "sending" => new.job[1] = "primary" \/ plan = "rotate"
    BY <1>9 DEF Rotates
  <2>2. \/ next' = next /\ (new.pc = "returned" => next = Cases + 1)
        \/ next' = next + 1 /\ next \in Index /\ new.pc = "sending"
    BY <1>9
  <2> QED BY <1>3, <1>9, <2>1, <2>2, StillExhausted
<1> QED BY <1>7, <1>14, <1>15, <1>16 DEF SInv

\* The attempt of w was cut, or its record was lost: w stops, the others work on.
LEMMA StopsSum ==
  ASSUME IInv, SInv, NEW w \in Worker, Sending(w),
         NEW how \in {"failed", "cancelled"}, Ends(w, how), UNCHANGED <<plan, main, results>>,
         \/ log' = log
         \/ log' = Append(log, [of |-> worker[w].job, status |-> "canceled"])
  PROVE  SInv'
<1>1. worker[w].pc = "sending" /\ worker[w].job \in Job /\ "canceled" \in Status
  BY DEF Sending, IInv, JobsKnown, Status
<1>2. main \in {"gather", "drain"} /\ next' = next
  BY <1>1, AtWork DEF Ends
<1>3. PICK new : new = [pc |-> how, job |-> NoJob]
  OBVIOUS
<1>4. new.pc \in {"failed", "cancelled"} /\ worker' = [worker EXCEPT ![w] = new]
  BY <1>3 DEF Ends
<1>5. Filed'
  <2>1. CASE log' = log
    BY <1>2, <2>1, FiledStays DEF SInv, Final
  <2>2. CASE log' = Append(log, [of |-> worker[w].job, status |-> "canceled"])
    <3>1. PICK e \in Record : e = [of |-> worker[w].job, status |-> "canceled"]
      BY <1>1, JobParts
    <3>2. log' = Append(log, e) /\ e.of \in Job /\ e.of[1] \in {"primary", "rotation"}
      BY <1>1, <2>2, <3>1, JobParts
    <3> QED BY <1>2, <3>2, FiledGrows DEF SInv
  <2> QED BY <2>1, <2>2
<1>6. Remembered'
  <2>1. ASSUME NEW i \in Index, results'[i] # <<>> PROVE AsRecorded(i)'
    BY <1>1, <1>2, <1>4, <2>1, StillAsRecorded DEF SInv
  <2> QED BY <2>1 DEF Remembered, Index
<1>7. Accounted'
  BY <1>1, <1>2, <1>4, StillAccounted
<1>8. Exhausted' /\ Rotating' /\ Finished'
  BY <1>1, <1>2, <1>4, StillExhausted
<1> QED BY <1>5, <1>6, <1>7, <1>8 DEF SInv

LEMMA CanceledSum ==
  ASSUME IInv, SInv, NEW w \in Worker, Canceled(w)
  PROVE  SInv'
BY StopsSum DEF Canceled, Write, Sending

LEMMA RecordLostSum ==
  ASSUME IInv, SInv, NEW w \in Worker, RecordLost(w)
  PROVE  SInv'
BY StopsSum DEF RecordLost, WriteFails, Sending

\* The run's own steps: what all of them have in common.
LEMMA RunSum ==
  ASSUME IInv, SInv, UNCHANGED <<plan, next, results>>,
         \/ UNCHANGED worker
         \/ /\ main \in {"start", "warmup"}
            /\ worker' = [w \in Worker |-> [pc |-> "new", job |-> NoJob]],
         \/ log' = log
         \/ \E e \in Record : e.of \notin Job /\ log' = Append(log, e)
  PROVE  Remembered' /\ Accounted' /\ Exhausted' /\ Rotating'
<1>1. \A w \in Worker : /\ Sending(w)' <=> Sending(w)
                        /\ Sending(w) => worker'[w].job = worker[w].job
                        /\ worker'[w].pc \in {"failed", "cancelled", "returned"} =>
                              worker[w].pc = worker'[w].pc
                        /\ worker[w].pc \in {"failed", "cancelled"} =>
                              worker'[w].pc = worker[w].pc
  BY DEF IInv, Early, Sending
<1>2. \A j : Flying(j)' <=> Flying(j)
  BY <1>1 DEF Flying
<1>3. /\ \A j, s : Recorded(j, s) => Recorded(j, s)'
      /\ \A j \in Job : Told(j)' <=> Told(j)
  <2>1. CASE log' = log
    BY <2>1 DEF Recorded, Told
  <2>2. ASSUME NEW e \in Record, e.of \notin Job, log' = Append(log, e)
        PROVE  /\ \A j, s : Recorded(j, s) => Recorded(j, s)'
               /\ \A j \in Job : Told(j)' <=> Told(j)
    BY <2>2, RecordedGrows
  <2> QED BY <2>1, <2>2
<1>4. Remembered'
  <2> SUFFICES ASSUME NEW i \in Index, results'[i] # <<>> PROVE AsRecorded(i)'
    BY DEF Remembered, Index
  <2>1. AsRecorded(i) /\ <<"rotation", i>> \in Job
    BY DEF SInv, Remembered, Job
  <2>2. \A p \in {"primary", "rotation"} : ~Flying(<<p, i>>)'
    BY <1>2, <2>1 DEF AsRecorded
  <2> QED BY <1>3, <2>1, <2>2 DEF AsRecorded
<1>5. Accounted'
  <2> SUFFICES ASSUME Stopped' = {}, NEW i \in Index, i < next', results'[i] = <<>>
               PROVE  AtWorkOn(i)'
    BY DEF Accounted
  <2>1. Stopped = {}
    BY <1>1 DEF Stopped
  <2>2. AtWorkOn(i)
    BY <2>1 DEF SInv, Accounted
  <2>3. PICK p \in {"primary", "rotation"} : Flying(<<p, i>>)
    BY <2>2 DEF AtWorkOn
  <2>4. Flying(<<p, i>>)'
    BY <1>2, <2>3
  <2> QED BY <2>4 DEF AtWorkOn
<1>6. Exhausted'
  BY <1>1 DEF SInv, Exhausted
<1>7. Rotating'
  <2>1. \A i \in Index : Flying(<<"rotation", i>>)' => plan = "rotate"
    BY <1>2 DEF SInv, Rotating
  <2> QED BY <2>1 DEF Rotating, Index
<1> QED BY <1>4, <1>5, <1>6, <1>7

LEMMA OpenSum == ASSUME IInv, SInv, Open PROVE SInv'
<1>1. main = "start" /\ UNCHANGED <<plan, next, results>>
  BY DEF Open
<1>2. CASE main' = "raised" /\ UNCHANGED <<worker, log>>
  <2>1. Filed'
    BY <1>1, <1>2, FiledStays DEF SInv, Final
  <2>2. Finished'
    BY <1>2 DEF Finished
  <2> QED BY <1>1, <1>2, <2>1, <2>2, RunSum DEF SInv
<1>3. CASE /\ Write(<<"run", 0>>, "succeeded")
           /\ \/ main' = "warmup" /\ UNCHANGED worker
              \/ Spread
  <2>1. PICK e \in Record : e = Header
    BY DEF Header, Record, Status
  <2>2. /\ log' = Append(log, e) /\ e.of \notin Job /\ e.of[1] = "run"
        /\ main' \in {"warmup", "gather"}
        /\ \/ UNCHANGED worker
           \/ worker' = [w \in Worker |-> [pc |-> "new", job |-> NoJob]]
    BY <1>3, <2>1 DEF Write, Header, Job, Spread
  <2>3. Filed'
    BY <1>1, <2>1, <2>2, FiledGrows DEF SInv
  <2>4. Finished'
    BY <2>2 DEF Finished
  <2> QED BY <1>1, <2>2, <2>3, <2>4, RunSum DEF SInv
<1> QED BY <1>2, <1>3 DEF Open, WriteFails

\* The record of a warm-up.
LEMMA WarmupRecorded ==
  ASSUME IInv, SInv, main = "warmup", NEW s \in Status,
         Write(<<"warmup", warming>>, s),
         main' \in {"warmup", "gather", "raised"}
  PROVE  /\ Filed' /\ Finished'
         /\ \E e \in Record : e.of \notin Job /\ log' = Append(log, e)
<1>1. warming \in Nat
  BY RunAssumption DEF IInv, TypeOK
<1>2. PICK e \in Record : e = [of |-> <<"warmup", warming>>, status |-> s]
  BY <1>1 DEF Record, Phase
<1>3. log' = Append(log, e) /\ e.of \notin Job /\ e.of[1] = "warmup"
  BY <1>2 DEF Write, Job
<1>4. Filed'
  BY <1>3, FiledGrows DEF SInv
<1>5. Finished'
  BY DEF Finished
<1> QED BY <1>3, <1>4, <1>5

LEMMA WarmupSum == ASSUME IInv, SInv, Warmup PROVE SInv'
<1>1. main = "warmup" /\ UNCHANGED <<plan, next, results>>
  BY DEF Warmup
<1>2. CASE main' = "raised" /\ UNCHANGED <<worker, log>>
  <2>1. Filed'
    BY <1>1, <1>2, FiledStays DEF SInv, Final
  <2>2. Finished'
    BY <1>2 DEF Finished
  <2> QED BY <1>1, <1>2, <2>1, <2>2, RunSum DEF SInv
<1>3. ASSUME NEW s \in {"succeeded", "failed"}, Write(<<"warmup", warming>>, s),
             Spread \/ UNCHANGED <<main, worker>>
      PROVE  SInv'
  <2>1. /\ s \in Status /\ main' \in {"warmup", "gather"}
        /\ \/ UNCHANGED worker
           \/ worker' = [w \in Worker |-> [pc |-> "new", job |-> NoJob]]
    BY <1>1, <1>3 DEF Status, Spread
  <2>2. /\ Filed' /\ Finished'
        /\ \E e \in Record : e.of \notin Job /\ log' = Append(log, e)
    BY <1>1, <1>3, <2>1, WarmupRecorded
  <2> QED BY <1>1, <2>1, <2>2, RunSum DEF SInv
<1> QED BY <1>2, <1>3 DEF Warmup, WriteFails

\* When all workers have returned, every item has been taken and answered.
LEMMA AllReturned ==
  ASSUME IInv, SInv, Complete
  PROVE  /\ \A i \in Index : results[i] # <<>>
         /\ Cardinality({i \in Index : results[i] # <<>>}) = Cases
<1>1. Cases \in Nat \ {0} /\ next \in 1 .. Cases + 1
  BY RunAssumption DEF IInv, TypeOK
<1>2. next = Cases + 1
  <2>1. Worker # {}
    BY RunAssumption, FS_EmptySet
  <2> QED BY <2>1 DEF Complete, SInv, Exhausted
<1>3. ASSUME NEW i \in Index PROVE results[i] # <<>>
  <2>1. Stopped = {} /\ ~AtWorkOn(i)
    BY DEF Complete, Stopped, AtWorkOn, Flying, Sending
  <2>2. i < next
    BY <1>1, <1>2 DEF Index
  <2> QED BY <2>1, <2>2 DEF SInv, Accounted
<1>4. {i \in Index : results[i] # <<>>} = 1 .. Cases
  BY <1>3 DEF Index
<1>5. Cardinality(1 .. Cases) = Cases
  BY <1>1, FS_Interval
<1> QED BY <1>3, <1>4, <1>5

LEMMA FinishSum == ASSUME IInv, SInv, Finish PROVE SInv'
<1>1. main = "gather" /\ Complete /\ UNCHANGED <<plan, worker, next, results>>
  BY DEF Finish
<1>2. CASE main' = "raised" /\ log' = log
  <2>1. Filed'
    BY <1>1, <1>2, FiledStays DEF SInv, Final
  <2>2. Finished'
    BY <1>2 DEF Finished
  <2> QED BY <1>1, <1>2, <2>1, <2>2, RunSum DEF SInv
<1>3. CASE /\ Write(<<"summary", Cardinality({i \in Index : results[i] # <<>>})>>, "succeeded")
           /\ main' = "finished"
  <2>1. PICK e \in Record : e = [of |-> <<"summary", Cases>>, status |-> "succeeded"]
    BY RunAssumption DEF Record, Status
  <2>2. log' = Append(log, e) /\ e.of \notin Job /\ e.of[1] = "summary"
    BY <1>1, <1>3, <2>1, AllReturned DEF Write, Job
  <2>3. Filed'
    BY <1>1, <1>3, <2>2, FiledGrows DEF SInv
  <2>4. Finished'
    <3>1. log'[Len(log')] = e
      BY <2>2 DEF IInv, TypeOK
    <3>2. \A i \in Index : results'[i] # <<>>
      BY <1>1, AllReturned
    <3> QED BY <2>1, <3>1, <3>2 DEF Finished, Index
  <2> QED BY <1>1, <2>2, <2>3, <2>4, RunSum DEF SInv
<1> QED BY <1>2, <1>3 DEF Finish, WriteFails

\* The steps that write nothing, and go on, drain or raise.
LEMMA SilentSum ==
  ASSUME IInv, SInv, UNCHANGED <<plan, next, results, worker, log>>, main \notin Final,
         main' = main \/ main' = "raised" \/ (main = "gather" /\ main' = "drain")
  PROVE  SInv'
<1>1. Filed'
  BY FiledStays DEF SInv
<1>2. Finished'
  BY DEF Finished, Final
<1> QED BY <1>1, <1>2, RunSum DEF SInv

LEMMA InterruptSum == ASSUME IInv, SInv, Interrupt PROVE SInv'
<1>1. UNCHANGED <<plan, worker, next, results>>
  BY DEF Interrupt, WarmupCanceled
<1>2. CASE WarmupCanceled
  <2>1. /\ Filed' /\ Finished'
        /\ \E e \in Record : e.of \notin Job /\ log' = Append(log, e)
    BY <1>2, WarmupRecorded DEF WarmupCanceled, Status
  <2> QED BY <1>1, <2>1, RunSum DEF SInv
<1>3. CASE /\ UNCHANGED log /\ main \in {"gather", "drain"}
           /\ main' = main \/ (main = "gather" /\ main' = "drain")
  BY <1>1, <1>3, SilentSum DEF Final
<1> QED BY <1>2, <1>3 DEF Interrupt

LEMMA InitSum == Init => SInv
<1> SUFFICES ASSUME Init PROVE SInv
  OBVIOUS
<1>1. Filed
  BY DEF Init, Filed
<1>2. \A i \in Index : results[i] = <<>> /\ ~(i < next)
  BY RunAssumption DEF Init, Index
<1>3. Remembered /\ Accounted
  BY <1>2 DEF Remembered, Accounted
<1>4. Exhausted /\ Rotating /\ Finished
  BY DEF Init, Exhausted, Rotating, Flying, Sending, Finished
<1> QED BY <1>1, <1>3, <1>4 DEF SInv

LEMMA NextSum == IInv /\ IInv' /\ SInv /\ [Next]_vars => SInv'
<1> SUFFICES ASSUME IInv, IInv', SInv, [Next]_vars PROVE SInv'
  OBVIOUS
<1>1. CASE Open BY <1>1, OpenSum
<1>2. CASE Warmup BY <1>2, WarmupSum
<1>3. CASE Finish BY <1>3, FinishSum
<1>4. CASE GatherRaises BY <1>4, SilentSum DEF GatherRaises, Final
<1>5. CASE Drained BY <1>5, SilentSum DEF Drained, Final
<1>6. CASE Interrupt BY <1>6, InterruptSum
<1>7. ASSUME NEW w \in Worker, Starts(w) PROVE SInv' BY <1>7, StartsSum
<1>8. ASSUME NEW w \in Worker, Observed(w) PROVE SInv' BY <1>8, ObservedSum
<1>9. ASSUME NEW w \in Worker, Canceled(w) PROVE SInv' BY <1>9, CanceledSum
<1>10. ASSUME NEW w \in Worker, RecordLost(w) PROVE SInv' BY <1>10, RecordLostSum
<1>11. CASE UNCHANGED vars
  <2>1. Filed' /\ Finished'
    BY <1>11 DEF vars, SInv, Filed, Finished, Job, Index
  <2> QED BY <1>11, <2>1, RunSum DEF vars, SInv
<1> QED BY <1>1, <1>2, <1>3, <1>4, <1>5, <1>6, <1>7, <1>8, <1>9, <1>10, <1>11 DEF Next, Over

LEMMA Remembering == Spec => []SInv
BY Invariance, InitSum, NextSum, PTL DEF Spec

-----------------------------------------------------------------------------
(* One record of each attempt: IInv has the primary ones. *)

\* Each warm-up up to the last one sent is told, except for the one awaited.
WarmupsTold ==
    /\ main = "start" => warming = 0
    /\ main = "warmup" => warming \in 1 .. Warmups
    /\ \A k \in DOMAIN log : log[k].of[1] = "warmup" =>
          log[k].of[2] \in 1 .. warming /\ (main = "warmup" => log[k].of[2] # warming)
    /\ \A k, l \in DOMAIN log : log[k].of[1] = "warmup" /\ log[k].of = log[l].of => k = l
    /\ ~broken => \A n \in 1 .. warming : Told(<<"warmup", n>>) \/ (main = "warmup" /\ n = warming)

\* A success that is to be rotated has its rotation told or in flight.
RotationsTold ==
    /\ \A i \in Index : Told(<<"rotation", i>>) => plan = "rotate"
    /\ ~broken /\ plan = "rotate" => \A i \in Index :
          Earned(i) => Told(<<"rotation", i>>) \/ Flying(<<"rotation", i>>)

TInv == WarmupsTold /\ RotationsTold

LEMMA EarnedOnly ==
  ASSUME IInv, NEW e \in Record, log' = Append(log, e)
  PROVE  \A i : Earned(i)' => Earned(i) \/ e = [of |-> <<"primary", i>>, status |-> "succeeded"]
<1>1. /\ Len(log) \in Nat
      /\ DOMAIN log = 1 .. Len(log) /\ DOMAIN log' = 1 .. Len(log) + 1
      /\ log'[Len(log) + 1] = e
      /\ \A k \in DOMAIN log : log'[k] = log[k]
  BY Appended DEF IInv, TypeOK, Record
<1> QED BY <1>1 DEF Earned

\* No warm-up is awaited, or it goes on being awaited, or its record is lost.
LEMMA WarmupsStay ==
  ASSUME IInv, WarmupsTold, warming' = warming, broken' \in {broken, TRUE},
         log' = log \/ \E e \in Record : e.of[1] # "warmup" /\ log' = Append(log, e),
         main' = main \/ main' \notin {"start", "warmup"},
         main = "warmup" => main' = main \/ broken'
  PROVE  WarmupsTold'
<1>1. CASE log' = log
  BY <1>1 DEF WarmupsTold, Told
<1>2. ASSUME NEW e \in Record, e.of[1] # "warmup", log' = Append(log, e) PROVE WarmupsTold'
  <2>1. /\ Len(log) \in Nat
        /\ DOMAIN log = 1 .. Len(log) /\ DOMAIN log' = 1 .. Len(log) + 1
        /\ log'[Len(log) + 1] = e
        /\ \A k \in DOMAIN log : log'[k] = log[k]
    BY <1>2, Appended DEF IInv, TypeOK, Record
  <2>2. \A j : Told(j)' <=> Told(j) \/ e.of = j
    BY <1>2, RecordedGrows
  <2>3. \A k \in DOMAIN log' : k \in DOMAIN log \/ (k = Len(log) + 1 /\ log'[k] = e)
    BY <2>1
  <2>4. \A k \in DOMAIN log' : log'[k].of[1] = "warmup" => k \in DOMAIN log /\ log'[k] = log[k]
    BY <1>2, <2>1, <2>3
  <2>5. \A k, l \in DOMAIN log' : log'[k].of[1] = "warmup" /\ log'[k].of = log'[l].of => k = l
    BY <2>4 DEF WarmupsTold
  <2>6. \A k \in DOMAIN log' : log'[k].of[1] = "warmup" =>
          log'[k].of[2] \in 1 .. warming /\ (main' = "warmup" => log'[k].of[2] # warming)
    BY <2>4 DEF WarmupsTold
  <2>7. ~broken' => \A n \in 1 .. warming : Told(<<"warmup", n>>)' \/ (main' = "warmup" /\ n = warming)
    BY <2>2 DEF WarmupsTold
  <2> QED BY <2>5, <2>6, <2>7 DEF WarmupsTold
<1> QED BY <1>1, <1>2

\* The warm-up awaited is told, whatever ended it, and perhaps the next is sent.
LEMMA WarmupTold ==
  ASSUME IInv, WarmupsTold, main = "warmup", NEW s \in Status, Write(<<"warmup", warming>>, s),
         \/ warming' = warming /\ main' \notin {"start", "warmup"}
         \/ warming' = warming + 1 /\ main' = "warmup" /\ warming' \in 1 .. Warmups
  PROVE  WarmupsTold'
<1>1. warming \in Nat /\ warming >= 1
  BY RunAssumption DEF IInv, TypeOK, WarmupsTold
<1>2. PICK e \in Record : e = [of |-> <<"warmup", warming>>, status |-> s]
  BY <1>1 DEF Record, Phase
<1>3. log' = Append(log, e) /\ e.of = <<"warmup", warming>> /\ broken' = broken
  BY <1>2 DEF Write
<1>4. /\ Len(log) \in Nat
      /\ DOMAIN log = 1 .. Len(log) /\ DOMAIN log' = 1 .. Len(log) + 1
      /\ log'[Len(log) + 1] = e
      /\ \A k \in DOMAIN log : log'[k] = log[k]
  BY <1>3, Appended DEF IInv, TypeOK, Record
<1>5. \A j : Told(j)' <=> Told(j) \/ e.of = j
  BY <1>3, RecordedGrows
<1>6. \A k \in DOMAIN log' : \/ k \in DOMAIN log /\ log'[k] = log[k]
                             \/ k = Len(log) + 1 /\ log'[k] = e
  BY <1>4
<1>7. \A k \in DOMAIN log : log[k].of[1] = "warmup" =>
         log[k].of[2] \in 1 .. warming /\ log[k].of[2] # warming /\ log[k].of # e.of
  BY <1>3 DEF WarmupsTold
<1>8. \A k, l \in DOMAIN log' : log'[k].of[1] = "warmup" /\ log'[k].of = log'[l].of => k = l
  <2> SUFFICES ASSUME NEW k \in DOMAIN log', NEW l \in DOMAIN log',
                      log'[k].of[1] = "warmup", log'[k].of = log'[l].of
               PROVE  k = l
    OBVIOUS
  <2>1. log'[l].of[1] = "warmup"
    OBVIOUS
  <2> QED BY <1>6, <1>7, <2>1 DEF WarmupsTold
<1>9. \A k \in DOMAIN log' : log'[k].of[1] = "warmup" =>
         log'[k].of[2] \in 1 .. warming' /\ (main' = "warmup" => log'[k].of[2] # warming')
  <2> SUFFICES ASSUME NEW k \in DOMAIN log', log'[k].of[1] = "warmup"
               PROVE  log'[k].of[2] \in 1 .. warming' /\ (main' = "warmup" => log'[k].of[2] # warming')
    OBVIOUS
  <2>1. log'[k].of[2] \in 1 .. warming
    BY <1>1, <1>3, <1>6, <1>7
  <2> QED BY <1>1, <2>1
<1>10. ~broken' => \A n \in 1 .. warming' :
          Told(<<"warmup", n>>)' \/ (main' = "warmup" /\ n = warming')
  <2> SUFFICES ASSUME ~broken, NEW n \in 1 .. warming', ~(main' = "warmup" /\ n = warming')
               PROVE  Told(<<"warmup", n>>)'
    BY <1>3
  <2>1. n \in 1 .. warming
    BY <1>1
  <2>2. CASE n = warming
    BY <1>3, <1>5, <2>2
  <2>3. CASE n # warming
    BY <1>5, <2>1, <2>3 DEF WarmupsTold
  <2> QED BY <2>2, <2>3
<1>11. (main' = "start" => warming' = 0) /\ (main' = "warmup" => warming' \in 1 .. Warmups)
  OBVIOUS
<1> QED BY <1>8, <1>9, <1>10, <1>11 DEF WarmupsTold

\* No attempt at an item ends, unless its record is lost.
LEMMA RotationsStay ==
  ASSUME IInv, RotationsTold, plan' = plan, broken' \in {broken, TRUE},
         ~broken' => \A j : Flying(j) => Flying(j)',
         log' = log \/ \E e \in Record : e.of \notin Job /\ log' = Append(log, e)
  PROVE  RotationsTold'
<1>1. /\ \A i \in Index : Earned(i)' => Earned(i)
      /\ \A j \in Job : Told(j)' <=> Told(j)
  <2>1. CASE log' = log
    BY <2>1 DEF Earned, Told
  <2>2. ASSUME NEW e \in Record, e.of \notin Job, log' = Append(log, e)
        PROVE  /\ \A i \in Index : Earned(i)' => Earned(i)
               /\ \A j \in Job : Told(j)' <=> Told(j)
    <3>1. \A i \in Index : <<"primary", i>> \in Job
      BY DEF Job
    <3>2. \A i \in Index : e # [of |-> <<"primary", i>>, status |-> "succeeded"]
      BY <2>2, <3>1
    <3> QED BY <2>2, <3>2, RecordedGrows, EarnedOnly
  <2> QED BY <2>1, <2>2
<1>2. \A i \in Index : <<"rotation", i>> \in Job
  BY DEF Job
<1>3. \A i \in Index : Told(<<"rotation", i>>)' <=> Told(<<"rotation", i>>)
  BY <1>1, <1>2
<1>4. \A i \in Index : Told(<<"rotation", i>>)' => plan' = "rotate"
  BY <1>3 DEF RotationsTold
<1>5. ~broken' /\ plan' = "rotate" => \A i \in Index :
          Earned(i)' => Told(<<"rotation", i>>)' \/ Flying(<<"rotation", i>>)'
  BY <1>1, <1>3 DEF RotationsTold
<1>6. Index' = Index
  BY DEF Index
<1> QED BY <1>4, <1>5, <1>6 DEF RotationsTold

\* The attempt of w is told, and its rotation is sent if it earned one.
LEMMA RotationTold ==
  ASSUME IInv, SInv, RotationsTold, NEW w \in Worker, Sending(w), NEW s \in Status,
         plan' = plan, broken' = broken,
         log' = Append(log, [of |-> worker[w].job, status |-> s]),
         NEW new, worker' = [worker EXCEPT ![w] = new],
         Rotates(worker[w].job, s) =>
            new.pc = "sending" /\ new.job = <<"rotation", worker[w].job[2]>>
  PROVE  RotationsTold'
<1> DEFINE job == worker[w].job
<1>1. job \in Job /\ worker \in [Worker -> WorkerState]
  BY DEF IInv, JobsKnown, TypeOK, WorkerState
<1>2. PICK e \in Record : e = [of |-> job, status |-> s]
  BY <1>1, JobParts
<1>3. /\ log' = Append(log, e) /\ e.of = job
      /\ \A j : Told(j)' <=> Told(j) \/ job = j
  <2>1. log' = Append(log, e) /\ e.of = job
    BY <1>2
  <2> QED BY <2>1, RecordedGrows
<1>4. \A i : Earned(i)' => Earned(i) \/ (job = <<"primary", i>> /\ s = "succeeded")
  <2>1. \A i : Earned(i)' => Earned(i) \/ e = [of |-> <<"primary", i>>, status |-> "succeeded"]
    BY <1>3, EarnedOnly
  <2> QED BY <1>2, <2>1
<1>5. ASSUME NEW i \in Index, Told(<<"rotation", i>>)' PROVE plan = "rotate"
  <2>1. CASE Told(<<"rotation", i>>)
    BY <2>1 DEF RotationsTold
  <2>2. CASE job = <<"rotation", i>>
    BY <2>2 DEF SInv, Rotating, Flying
  <2> QED BY <1>3, <1>5, <2>1, <2>2
<1>6. ASSUME ~broken, plan = "rotate", NEW i \in Index, Earned(i)'
      PROVE  Told(<<"rotation", i>>)' \/ Flying(<<"rotation", i>>)'
  <2>1. CASE Told(<<"rotation", i>>)
    BY <1>3, <2>1
  <2>2. ASSUME NEW v \in Worker, Sending(v), worker[v].job = <<"rotation", i>>
        PROVE  Told(<<"rotation", i>>)' \/ Flying(<<"rotation", i>>)'
    <3>1. CASE v = w
      BY <1>3, <2>2, <3>1
    <3>2. CASE v # w
      <4>1. worker'[v] = worker[v]
        BY <1>1, <3>2
      <4> QED BY <2>2, <4>1 DEF Flying, Sending
    <3> QED BY <3>1, <3>2
  <2>3. CASE job = <<"primary", i>> /\ s = "succeeded"
    <3>1. Rotates(job, s) /\ job[2] = i
      BY <1>6, <2>3 DEF Rotates
    <3>2. worker'[w] = new /\ new.pc = "sending" /\ new.job = <<"rotation", i>>
      BY <1>1, <3>1
    <3> QED BY <3>2 DEF Flying, Sending
  <2>4. Earned(i) => Told(<<"rotation", i>>) \/ Flying(<<"rotation", i>>)
    BY <1>6 DEF RotationsTold
  <2> QED BY <1>4, <1>6, <2>1, <2>2, <2>3, <2>4 DEF Flying
<1>7. Index' = Index
  BY DEF Index
<1> QED BY <1>5, <1>6, <1>7 DEF RotationsTold

LEMMA OpenTold == ASSUME IInv, SInv, TInv, Open PROVE TInv'
<1>1. main = "start" /\ plan' = plan /\ log = <<>> /\ warming = 0
  BY DEF Open, SInv, Filed, TInv, WarmupsTold
<1>2. \A w \in Worker : ~Sending(w)
  BY <1>1 DEF IInv, Early, Sending
<1>3. \/ log' = log /\ broken' \in {broken, TRUE} /\ main' = "raised" /\ warming' = warming
      \/ /\ Write(<<"run", 0>>, "succeeded")
         /\ \/ main' = "gather" /\ warming' = warming
            \/ main' = "warmup" /\ warming' = 1 /\ Warmups > 0
  BY DEF Open, WriteFails, Spread
<1>4. \/ log' = log
      \/ \E e \in Record : e.of \notin Job /\ e.of[1] # "warmup" /\ log' = Append(log, e)
  <2>1. PICK e \in Record : e = Header
    BY DEF Header, Record, Status
  <2>2. e.of \notin Job /\ e.of[1] # "warmup"
    BY <2>1 DEF Header, Job
  <2>3. Write(<<"run", 0>>, "succeeded") => log' = Append(log, e)
    BY <2>1 DEF Write, Header
  <2> QED BY <1>3, <2>2, <2>3
<1>5. broken' \in {broken, TRUE}
  BY <1>3 DEF Write
<1>6. RotationsTold'
  BY <1>1, <1>2, <1>4, <1>5, RotationsStay DEF TInv, Flying
<1>7. WarmupsTold'
  <2>1. CASE warming' = warming
    <3>1. main' \notin {"start", "warmup"}
      <4>1. main' \in {"raised", "gather"} \/ warming' = 1
        BY <1>3, Zenon
      <4>2. warming' # 1
        BY <1>1, <2>1
      <4> QED BY <4>1, <4>2
    <3>2. log' = log \/ \E e \in Record : e.of[1] # "warmup" /\ log' = Append(log, e)
      BY <1>4
    <3> QED BY <1>1, <1>5, <2>1, <3>1, <3>2, WarmupsStay DEF TInv
  <2>2. CASE main' = "warmup" /\ warming' = 1 /\ Warmups > 0
    <3>1. log' = log \/ \E e \in Record : e.of[1] # "warmup" /\ log' = Append(log, e)
      BY <1>4
    <3>2. \A k \in DOMAIN log' : log'[k].of[1] # "warmup"
      <4>1. CASE log' = log
        BY <1>1, <4>1
      <4>2. ASSUME NEW e \in Record, e.of[1] # "warmup", log' = Append(log, e)
            PROVE  \A k \in DOMAIN log' : log'[k].of[1] # "warmup"
        BY <1>1, <4>2
      <4> QED BY <3>1, <4>1, <4>2
    <3>3. 1 \in 1 .. Warmups
      BY <2>2, RunAssumption
    <3>4. \A n \in 1 .. 1 : n = 1
      OBVIOUS
    <3> QED BY <2>2, <3>2, <3>3, <3>4 DEF WarmupsTold
  <2> QED BY <1>3, <2>1, <2>2
<1> QED BY <1>6, <1>7 DEF TInv

LEMMA WarmupKeepsTold == ASSUME IInv, SInv, TInv, Warmup PROVE TInv'
<1>1. main = "warmup" /\ plan' = plan /\ warming \in 1 .. Warmups /\ Warmups \in Nat
  BY RunAssumption DEF Warmup, TInv, WarmupsTold
<1>2. \A w \in Worker : ~Sending(w)
  BY <1>1 DEF IInv, Early, Sending
<1>3. CASE WriteFails /\ main' = "raised" /\ warming' = warming
  <2>1. log' = log /\ broken' = TRUE
    BY <1>3 DEF WriteFails
  <2>2. WarmupsTold'
    BY <1>3, <2>1, WarmupsStay DEF TInv
  <2>3. RotationsTold'
    BY <1>1, <2>1, RotationsStay DEF TInv
  <2> QED BY <2>2, <2>3 DEF TInv
<1>4. ASSUME NEW s \in {"succeeded", "failed"}, Write(<<"warmup", warming>>, s),
             IF warming = Warmups THEN Spread /\ warming' = warming
                                  ELSE warming' = warming + 1 /\ UNCHANGED <<main, worker>>
      PROVE  TInv'
  <2>1. s \in Status /\ broken' = broken
    BY <1>4 DEF Status, Write
  <2>2. \/ warming' = warming /\ main' \notin {"start", "warmup"}
        \/ warming' = warming + 1 /\ main' = "warmup" /\ warming' \in 1 .. Warmups
    BY <1>1, <1>4 DEF Spread
  <2>3. WarmupsTold'
    BY <1>1, <1>4, <2>1, <2>2, WarmupTold DEF TInv
  <2>4. \E e \in Record : e.of \notin Job /\ log' = Append(log, e)
    <3>1. warming \in Nat
      BY <1>1
    <3>2. PICK e \in Record : e = [of |-> <<"warmup", warming>>, status |-> s]
      BY <2>1, <3>1 DEF Record, Phase
    <3> QED BY <1>4, <3>2 DEF Write, Job
  <2>5. RotationsTold'
    BY <1>1, <1>2, <2>1, <2>4, RotationsStay DEF TInv, Flying
  <2> QED BY <2>3, <2>5 DEF TInv
<1> QED BY <1>3, <1>4 DEF Warmup

\* The other steps of the run: only the summary is written, and a warm-up that
\* was canceled.
LEMMA RunKeepsTold ==
  ASSUME IInv, SInv, TInv, Finish \/ GatherRaises \/ Drained \/ Interrupt
  PROVE  TInv'
<1>1. UNCHANGED <<plan, warming, worker>>
  BY DEF Finish, GatherRaises, Drained, Interrupt, WarmupCanceled
<1>2. \A j : Flying(j)' <=> Flying(j)
  BY <1>1 DEF Flying, Sending
<1>3. CASE WarmupCanceled
  <2>1. /\ main = "warmup" /\ main' = "raised" /\ "canceled" \in Status
        /\ Write(<<"warmup", warming>>, "canceled") /\ broken' = broken
    BY <1>3 DEF WarmupCanceled, Write, Status
  <2>2. WarmupsTold'
    BY <1>1, <2>1, WarmupTold DEF TInv
  <2>3. \E e \in Record : e.of \notin Job /\ log' = Append(log, e)
    BY <2>1, WarmupRecorded
  <2> QED BY <1>1, <1>2, <2>1, <2>2, <2>3, RotationsStay DEF TInv
<1>4. ASSUME log' = log \/ \E e \in Record : e.of \notin Job /\ e.of[1] # "warmup" /\ log' = Append(log, e),
             broken' \in {broken, TRUE}, main \notin {"start", "warmup"},
             main' \notin {"start", "warmup"}
      PROVE  TInv'
  <2>1. WarmupsTold'
    BY <1>1, <1>4, WarmupsStay DEF TInv
  <2>2. RotationsTold'
    BY <1>1, <1>2, <1>4, RotationsStay DEF TInv
  <2> QED BY <2>1, <2>2 DEF TInv
<1>5. CASE Finish
  <2>1. Cardinality({i \in Index : results[i] # <<>>}) = Cases /\ Cases \in Nat
    BY <1>5, AllReturned, RunAssumption DEF Finish
  <2>2. PICK e \in Record : e = [of |-> <<"summary", Cases>>, status |-> "succeeded"]
    BY <2>1 DEF Record, Status
  <2>3. e.of \notin Job /\ e.of[1] # "warmup"
    BY <2>2 DEF Job
  <2>4. log' = log \/ log' = Append(log, e)
    BY <1>5, <2>1, <2>2 DEF Finish, Write, WriteFails
  <2>5. /\ broken' \in {broken, TRUE}
        /\ main \notin {"start", "warmup"} /\ main' \notin {"start", "warmup"}
    BY <1>5 DEF Finish, Write, WriteFails
  <2> QED BY <1>4, <2>3, <2>4, <2>5
<1>6. CASE GatherRaises \/ Drained \/ (Interrupt /\ ~WarmupCanceled)
  BY <1>4, <1>6 DEF GatherRaises, Drained, Interrupt
<1> QED BY <1>3, <1>5, <1>6

LEMMA WorkerKeepsTold ==
  ASSUME IInv, SInv, TInv, NEW w \in Worker,
         Starts(w) \/ Observed(w) \/ Canceled(w) \/ RecordLost(w)
  PROVE  TInv'
<1>1. worker[w].pc \in {"new", "sending"} /\ UNCHANGED <<plan, main, warming>>
  BY DEF Starts, Observed, Canceled, RecordLost
<1>2. main \notin {"start", "warmup"} /\ worker \in [Worker -> WorkerState]
  BY <1>1, AtWork DEF IInv, TypeOK, WorkerState
<1>3. ASSUME log' = log \/ \E e \in Record : e.of[1] # "warmup" /\ log' = Append(log, e),
             broken' \in {broken, TRUE}
      PROVE  WarmupsTold'
  BY <1>1, <1>2, <1>3, WarmupsStay DEF TInv
<1>4. ASSUME Sending(w), NEW s \in Status, log' = Append(log, [of |-> worker[w].job, status |-> s])
      PROVE  \E e \in Record : e.of[1] # "warmup" /\ log' = Append(log, e)
  <2>1. worker[w].job \in Job
    BY <1>4 DEF IInv, JobsKnown
  <2> QED BY <1>4, <2>1, JobParts
<1>5. CASE Starts(w)
  <2>1. log' = log /\ broken' = broken /\ ~Sending(w)
    BY <1>5 DEF Starts, Sending
  <2>2. \A v \in Worker \ {w} : worker'[v] = worker[v]
    BY <1>2, <1>5 DEF Starts, Ends, TakeNext
  <2>3. \A j : Flying(j) => Flying(j)'
    BY <2>1, <2>2 DEF Flying, Sending
  <2> QED BY <1>1, <1>3, <2>1, <2>3, RotationsStay DEF TInv
<1>6. CASE Observed(w)
  <2>1. PICK s \in {"succeeded", "failed"} :
          /\ Write(worker[w].job, s)
          /\ IF Rotates(worker[w].job, s)
             THEN worker' = [worker EXCEPT ![w].job = <<"rotation", worker[w].job[2]>>]
             ELSE TakeNext(w)
    BY <1>6 DEF Observed
  <2>2. Sending(w) /\ s \in Status /\ broken' = broken
        /\ log' = Append(log, [of |-> worker[w].job, status |-> s])
    BY <1>6, <2>1 DEF Observed, Sending, Write, Status
  <2>3. \E new : /\ worker' = [worker EXCEPT ![w] = new]
                 /\ Rotates(worker[w].job, s) =>
                       new.pc = "sending" /\ new.job = <<"rotation", worker[w].job[2]>>
    <3>1. CASE Rotates(worker[w].job, s)
      <4> DEFINE new == [worker[w] EXCEPT !.job = <<"rotation", worker[w].job[2]>>]
      <4>1. worker[w] \in WorkerState /\ worker[w].pc = "sending"
        BY <1>2, <2>2 DEF Sending
      <4>2. new.pc = "sending" /\ new.job = <<"rotation", worker[w].job[2]>>
        BY <4>1 DEF WorkerState
      <4>3. worker' = [worker EXCEPT ![w] = new]
        BY <2>1, <3>1
      <4> QED BY <4>2, <4>3
    <3>2. CASE ~Rotates(worker[w].job, s)
      BY <2>1, <3>2 DEF TakeNext
    <3> QED BY <3>1, <3>2
  <2>4. RotationsTold'
    BY <1>1, <2>2, <2>3, RotationTold DEF TInv
  <2> QED BY <1>3, <1>4, <2>2, <2>4 DEF TInv
<1>7. CASE Canceled(w)
  <2>1. Sending(w) /\ "canceled" \in Status /\ broken' = broken
        /\ log' = Append(log, [of |-> worker[w].job, status |-> "canceled"])
        /\ worker' = [worker EXCEPT ![w] = [pc |-> "cancelled", job |-> NoJob]]
    BY <1>7 DEF Canceled, Sending, Write, Ends, Status
  <2>2. ~Rotates(worker[w].job, "canceled")
    BY DEF Rotates
  <2>3. RotationsTold'
    BY <1>1, <2>1, <2>2, RotationTold DEF TInv
  <2> QED BY <1>3, <1>4, <2>1, <2>3 DEF TInv
<1>8. CASE RecordLost(w)
  <2>1. log' = log /\ broken' = TRUE
    BY <1>8 DEF RecordLost, WriteFails
  <2> QED BY <1>1, <1>3, <2>1, RotationsStay DEF TInv
<1> QED BY <1>5, <1>6, <1>7, <1>8

LEMMA InitTold == Init => TInv
<1> SUFFICES ASSUME Init PROVE TInv
  OBVIOUS
<1>1. /\ log = <<>> /\ warming = 0 /\ main = "start"
      /\ \A j : ~Told(j) /\ \A i : ~Earned(i)
  BY DEF Init, Told, Earned
<1> QED BY <1>1 DEF TInv, WarmupsTold, RotationsTold

LEMMA NextTold == IInv /\ SInv /\ TInv /\ [Next]_vars => TInv'
<1> SUFFICES ASSUME IInv, SInv, TInv, [Next]_vars PROVE TInv'
  OBVIOUS
<1>1. CASE Open BY <1>1, OpenTold
<1>2. CASE Warmup BY <1>2, WarmupKeepsTold
<1>3. CASE Finish \/ GatherRaises \/ Drained \/ Interrupt BY <1>3, RunKeepsTold
<1>4. ASSUME NEW w \in Worker, Starts(w) \/ Observed(w) \/ Canceled(w) \/ RecordLost(w) PROVE TInv'
  BY <1>4, WorkerKeepsTold
<1>5. CASE UNCHANGED vars
  <2>1. /\ plan' = plan /\ main' = main /\ warming' = warming /\ worker' = worker
        /\ log' = log /\ broken' = broken
    BY <1>5 DEF vars
  <2>2. \A j : Flying(j) => Flying(j)'
    BY <2>1 DEF Flying, Sending
  <2> QED BY <2>1, <2>2, WarmupsStay, RotationsStay DEF TInv
<1> QED BY <1>1, <1>2, <1>3, <1>4, <1>5 DEF Next, Over

\* A run killed at any moment leaves one record, and no more, of every attempt
\* that was sent and has ended, warm-ups and rotations included, unless a write
\* failed, and none of the attempts still pending (runlog.py:28, 65-91,
\* client.py:122, 131, 196-209).
THEOREM OneRecordEach == Spec => []OneRecordPerAttempt
<1>1. ASSUME IInv, SInv, TInv PROVE OneRecordPerAttempt
  <2> DEFINE Done == Made \ Pending
             Rotated == {i \in Index : plan = "rotate" /\ Earned(i)}
  <2>1. \A j : j \in Made <=> \/ \E n \in 1 .. warming : j = <<"warmup", n>>
                              \/ \E i \in 1 .. next - 1 : j = <<"primary", i>>
                              \/ \E i \in Rotated : j = <<"rotation", i>>
    BY DEF Made, Earned
  <2>2. \A i : i \in Index /\ i < next <=> i \in 1 .. next - 1
    BY <1>1, RunAssumption DEF IInv, TypeOK, Index
  <2>3. \A j \in Job : j \in Pending <=> Flying(j)
    BY <1>1, InFlightFacts DEF Pending, Job
  <2>4. \A n : <<"warmup", n>> \in Pending <=> main = "warmup" /\ n = warming
    <3>1. \A w \in Running : worker[w].job # NoJob => worker[w].job \in Job
      BY <1>1, InFlightFacts DEF IInv, JobsKnown, Running
    <3>2. ASSUME NEW n, NEW w \in Running, worker[w].job = <<"warmup", n>> PROVE FALSE
      <4>1. worker[w].job \in Job
        BY <3>1, <3>2 DEF NoJob
      <4> QED BY <3>2, <4>1 DEF Job
    <3>3. \A n : <<"warmup", n>> \notin InFlight
      BY <3>2 DEF InFlight
    <3> QED BY <3>3 DEF Pending
  <2>5. ASSUME NEW k \in DOMAIN log, NEW l \in DOMAIN log, log[k].of[1] \in Phase
        PROVE  log[k].of \in Done /\ (log[k].of = log[l].of => k = l)
    <3>1. CASE log[k].of[1] = "warmup"
      <4>1. log[k] \in Record
        <5>1. log \in Seq(Record)
          BY <1>1 DEF IInv, TypeOK, Record
        <5> QED BY <5>1
      <4>2. log[k].of = <<"warmup", log[k].of[2]>>
        BY <3>1, <4>1 DEF Record
      <4>3. log[k].of[2] \in 1 .. warming /\ ~(main = "warmup" /\ log[k].of[2] = warming)
        BY <1>1, <3>1 DEF TInv, WarmupsTold
      <4> HIDE DEF Rotated
      <4>4. log[k].of \in Made /\ log[k].of \notin Pending
        BY <2>1, <2>4, <4>2, <4>3
      <4> QED BY <1>1, <3>1, <4>4 DEF TInv, WarmupsTold
    <3>2. CASE log[k].of[1] \in {"primary", "rotation"}
      <4>1. log[k].of \in Job /\ Told(log[k].of)
        BY <1>1, <3>2 DEF SInv, Filed, Told
      <4>2. log[k].of \notin Pending /\ log[k].of[2] < next
        BY <1>1, <2>3, <4>1 DEF IInv, ToldAfter
      <4>3. log[k].of[2] \in Index /\ log[k].of = <<log[k].of[1], log[k].of[2]>>
        BY <4>1 DEF Job
      <4>4. log[k].of \in Made
        <5>1. CASE log[k].of[1] = "primary"
          <6> HIDE DEF Rotated
          <6> QED BY <2>1, <2>2, <4>2, <4>3, <5>1
        <5>2. CASE log[k].of[1] = "rotation"
          <6>1. Earned(log[k].of[2]) /\ plan = "rotate"
            BY <1>1, <4>1, <4>3, <5>2 DEF IInv, RotationsEarned, TInv, RotationsTold
          <6> QED BY <2>1, <4>3, <5>2, <6>1
        <5> QED BY <3>2, <5>1, <5>2
      <4> QED BY <1>1, <4>1, <4>2, <4>4 DEF IInv, ToldOnce
    <3> QED BY <2>5, <3>1, <3>2 DEF Phase
  <2>6. ASSUME ~broken, NEW j \in Done PROVE Told(j)
    <3>1. CASE \E n \in 1 .. warming : j = <<"warmup", n>>
      BY <1>1, <2>4, <2>6, <3>1 DEF TInv, WarmupsTold
    <3>2. ASSUME NEW i \in 1 .. next - 1, j = <<"primary", i>> PROVE Told(j)
      <4>1. i \in Index /\ i < next /\ j \in Job
        BY <2>2, <3>2 DEF Job
      <4>2. ~Flying(j)
        BY <2>3, <2>6, <4>1
      <4> QED BY <1>1, <2>6, <3>2, <4>1, <4>2 DEF IInv, NothingLost
    <3>3. ASSUME NEW i \in Rotated, j = <<"rotation", i>> PROVE Told(j)
      <4>1. i \in Index /\ plan = "rotate" /\ Earned(i) /\ j \in Job
        BY <3>3 DEF Job
      <4>2. ~Flying(j)
        BY <2>3, <2>6, <4>1
      <4> QED BY <1>1, <2>6, <3>3, <4>1, <4>2 DEF TInv, RotationsTold
    <3> QED BY <2>1, <2>6, <3>1, <3>2, <3>3
  <2>7. ~broken => \A j \in Done : Ended(j) # {}
    BY <2>6 DEF Told, Ended
  <2> QED BY <2>5, <2>7 DEF OneRecordPerAttempt
<1>2. IInv /\ SInv /\ TInv => OneRecordPerAttempt
  BY <1>1
<1> QED BY <1>2, Invariance, Remembering, InitTold, NextTold, PTL DEF Spec

-----------------------------------------------------------------------------
(* The summary adds up. *)

\* As many records, about attempts of one phase, as items they are about.
LEMMA CountRecords ==
  ASSUME IInv, NEW p \in {"primary", "rotation"},
         NEW K \in SUBSET DOMAIN log, NEW S \in SUBSET Index,
         \A k \in K : log[k].of \in Job /\ log[k].of[1] = p /\ log[k].of[2] \in S,
         \A i \in S : \E k \in K : log[k].of = <<p, i>>
  PROVE  Cardinality(K) = Cardinality(S)
<1> DEFINE f == [k \in K |-> log[k].of[2]]
<1>1. f \in [K -> S]
  OBVIOUS
<1>2. ASSUME NEW k \in K, NEW l \in K, f[k] = f[l] PROVE k = l
  <2>1. log[k].of = <<p, f[k]>> /\ log[l].of = <<p, f[l]>>
    BY JobParts
  <2> QED BY <1>2, <2>1 DEF IInv, ToldOnce
<1>3. ASSUME NEW i \in S PROVE \E k \in K : f[k] = i
  <2>1. PICK k \in K : log[k].of = <<p, i>>
    OBVIOUS
  <2> QED BY <2>1
<1>4. f \in Bijection(K, S)
  BY <1>1, <1>2, <1>3 DEF Bijection, Injection, Surjection, IsInjective
<1>5. IsFiniteSet(K)
  <2>1. Len(log) \in Nat /\ K \in SUBSET (1 .. Len(log))
    BY DEF IInv, TypeOK
  <2> QED BY <2>1, PositionsFinite
<1>6. ExistsBijection(K, S)
  BY <1>4 DEF ExistsBijection
<1> QED BY <1>5, <1>6, FS_Bijection

\* When the run is finished, every item has its outcome, and the records of
\* its attempts have that status.
LEMMA OutcomesTold ==
  ASSUME IInv, SInv, main = "finished"
  PROVE  /\ \A i \in Index : results[i] # <<>> /\ AsRecorded(i)
         /\ \A k \in DOMAIN log : log[k].of[1] = "primary" =>
               /\ log[k].of \in Job
               /\ log[k].status = results[log[k].of[2]][1]
         /\ \A k \in DOMAIN log : log[k].of[1] = "rotation" =>
               /\ log[k].of \in Job
               /\ plan = "rotate" /\ results[log[k].of[2]][1] = "succeeded"
               /\ log[k].status = results[log[k].of[2]][2]
<1>1. \A i \in Index : results[i] # <<>> /\ AsRecorded(i)
  BY DEF SInv, Finished, Remembered
<1>2. \A j \in Job, k \in DOMAIN log : \A s : log[k].of = j /\ Recorded(j, s) => log[k].status = s
  BY DEF IInv, ToldOnce, Recorded
<1>3. ASSUME NEW k \in DOMAIN log, log[k].of[1] = "primary"
      PROVE  /\ log[k].of \in Job
             /\ log[k].status = results[log[k].of[2]][1]
  <2>1. log[k].of \in Job
    BY <1>3 DEF SInv, Filed
  <2>2. log[k].of = <<"primary", log[k].of[2]>> /\ log[k].of[2] \in Index
    BY <1>3, <2>1, JobParts
  <2>3. Recorded(log[k].of, results[log[k].of[2]][1])
    BY <1>1, <2>2 DEF AsRecorded
  <2> QED BY <1>2, <2>1, <2>3
<1>4. ASSUME NEW k \in DOMAIN log, log[k].of[1] = "rotation"
      PROVE  /\ log[k].of \in Job
             /\ plan = "rotate" /\ results[log[k].of[2]][1] = "succeeded"
             /\ log[k].status = results[log[k].of[2]][2]
  <2>1. log[k].of \in Job
    BY <1>4 DEF SInv, Filed
  <2>2. PICK i \in Index : log[k].of[2] = i /\ log[k].of = <<"rotation", i>>
    BY <1>4, <2>1, JobParts
  <2>3. Told(<<"rotation", i>>)
    BY <2>2 DEF Told
  <2>4. plan = "rotate" /\ results[i][1] = "succeeded" /\ Recorded(<<"rotation", i>>, results[i][2])
    BY <1>1, <2>3 DEF AsRecorded
  <2> QED BY <1>2, <2>1, <2>2, <2>4
<1> QED BY <1>1, <1>3, <1>4

\* Each status was returned as often as it was recorded.
LEMMA SameFigures ==
  ASSUME IInv, SInv, main = "finished", NEW s \in Status
  PROVE  Among(1, s) = Records("primary", s) /\ Among(2, s) = Records("rotation", s)
<1> DEFINE P == {k \in DOMAIN log : log[k].of[1] = "primary" /\ log[k].status = s}
           R == {k \in DOMAIN log : log[k].of[1] = "rotation" /\ log[k].status = s}
           A == {i \in Index : results[i] # <<>> /\ results[i][1] = s}
           B == {i \in Index : results[i] # <<>> /\ results[i][2] = s}
<1>1. Cardinality(P) = Cardinality(A)
  <2>1. ASSUME NEW k \in P
        PROVE  log[k].of \in Job /\ log[k].of[1] = "primary" /\ log[k].of[2] \in A
    BY OutcomesTold, JobParts
  <2>2. ASSUME NEW i \in A PROVE \E k \in P : log[k].of = <<"primary", i>>
    <3>1. i \in Index /\ AsRecorded(i) /\ results[i][1] = s
      BY OutcomesTold
    <3>2. PICK k \in DOMAIN log : log[k] = [of |-> <<"primary", i>>, status |-> s]
      BY <3>1 DEF AsRecorded, Recorded
    <3>3. k \in P
      BY <3>2
    <3> QED BY <3>2, <3>3
  <2> QED BY <2>1, <2>2, CountRecords
<1>2. Cardinality(R) = Cardinality(B)
  <2>1. ASSUME NEW k \in R
        PROVE  log[k].of \in Job /\ log[k].of[1] = "rotation" /\ log[k].of[2] \in B
    BY OutcomesTold, JobParts
  <2>2. ASSUME NEW i \in B PROVE \E k \in R : log[k].of = <<"rotation", i>>
    <3>1. AsRecorded(i) /\ results[i][2] # "none"
      BY OutcomesTold DEF Status
    <3>2. PICK k \in DOMAIN log : log[k] = [of |-> <<"rotation", i>>, status |-> s]
      BY <3>1 DEF AsRecorded, Recorded
    <3>3. k \in R
      BY <3>2
    <3> QED BY <3>2, <3>3
  <2> QED BY <2>1, <2>2, CountRecords
<1> QED BY <1>1, <1>2 DEF Among, Records

\* The successes and the failures are all the items.
LEMMA AllAnswered ==
  ASSUME IInv, SInv, main = "finished"
  PROVE  Among(1, "succeeded") + Among(1, "failed") = Cases
<1> DEFINE A == {i \in Index : results[i] # <<>> /\ results[i][1] = "succeeded"}
           B == {i \in Index : results[i] # <<>> /\ results[i][1] = "failed"}
<1>1. Cases \in Nat /\ IsFiniteSet(Index) /\ Cardinality(Index) = Cases
  <2>1. Cases \in Nat \ {0}
    BY RunAssumption
  <2> QED BY <2>1, FS_Interval DEF Index
<1>2. A \cap B = {} /\ A \union B = Index
  BY OutcomesTold DEF AsRecorded
<1>3. IsFiniteSet(A) /\ IsFiniteSet(B)
  BY <1>1, FS_Subset
<1>4. Cardinality(A) \in Nat /\ Cardinality(B) \in Nat
  BY <1>3, FS_CardinalityType
<1>5. Cardinality(A \union B) = Cardinality(A) + Cardinality(B) - 0
  BY <1>2, <1>3, FS_Union, FS_EmptySet
<1>6. Among(1, "succeeded") = Cardinality(A) /\ Among(1, "failed") = Cardinality(B)
  BY DEF Among
<1>7. Cases = Cardinality(A) + Cardinality(B) - 0
  BY <1>1, <1>2, <1>5
<1>8. PICK a \in Nat, b \in Nat : a = Cardinality(A) /\ b = Cardinality(B)
  BY <1>4
<1>9. Cases = a + b - 0
  BY <1>7, <1>8
<1>10. Cases = a + b
  BY <1>1, <1>9
<1> QED BY <1>6, <1>8, <1>10

\* Every success, and nothing else, was rotated if it was asked for.
LEMMA AllRotated ==
  ASSUME IInv, SInv, main = "finished"
  PROVE  Sent("rotation") = IF plan = "rotate" THEN Among(1, "succeeded") ELSE 0
<1> DEFINE R == {k \in DOMAIN log : log[k].of[1] = "rotation"}
           A == {i \in Index : results[i] # <<>> /\ results[i][1] = "succeeded"}
<1>1. CASE plan = "rotate"
  <2>1. ASSUME NEW k \in R
        PROVE  log[k].of \in Job /\ log[k].of[1] = "rotation" /\ log[k].of[2] \in A
    BY OutcomesTold, JobParts
  <2>2. ASSUME NEW i \in A PROVE \E k \in R : log[k].of = <<"rotation", i>>
    <3>1. PICK k \in DOMAIN log : log[k] = [of |-> <<"rotation", i>>, status |-> results[i][2]]
      BY <1>1, OutcomesTold DEF AsRecorded, Recorded
    <3>2. k \in R
      BY <3>1
    <3> QED BY <3>1, <3>2
  <2>3. Cardinality(R) = Cardinality(A)
    BY <2>1, <2>2, CountRecords
  <2> QED BY <1>1, <2>3 DEF Sent, Among
<1>2. CASE plan # "rotate"
  <2>1. R = {}
    BY <1>2, OutcomesTold
  <2> QED BY <1>2, <2>1, FS_EmptySet DEF Sent
<1> QED BY <1>1, <1>2

\* The cardinality of three disjoint sets and two other elements.
LEMMA FiveParts ==
  ASSUME NEW n \in Nat, NEW W \in SUBSET (1 .. n), NEW P \in SUBSET (1 .. n), NEW R \in SUBSET (1 .. n),
         NEW a, NEW b, a # b, a \notin W \union P \union R, b \notin W \union P \union R,
         W \cap P = {}, (W \union P) \cap R = {},
         1 .. n = ((W \union P) \union R) \union {a} \union {b}
  PROVE  n = 2 + Cardinality(W) + Cardinality(P) + Cardinality(R)
<1>1. IsFiniteSet(W) /\ IsFiniteSet(P) /\ IsFiniteSet(R)
  BY PositionsFinite
<1>2. Cardinality(W) \in Nat /\ Cardinality(P) \in Nat /\ Cardinality(R) \in Nat
  BY PositionsFinite
<1>3. IsFiniteSet(W \union P) /\ Cardinality(W \union P) = Cardinality(W) + Cardinality(P) - 0
  BY <1>1, FS_Union, FS_EmptySet
<1>4. /\ IsFiniteSet((W \union P) \union R)
      /\ Cardinality((W \union P) \union R) = Cardinality(W \union P) + Cardinality(R) - 0
  BY <1>1, <1>3, FS_Union, FS_EmptySet
<1>5. /\ IsFiniteSet(((W \union P) \union R) \union {a})
      /\ Cardinality(((W \union P) \union R) \union {a}) = Cardinality((W \union P) \union R) + 1
  BY <1>4, FS_AddElement
<1>6. Cardinality(((W \union P) \union R) \union {a} \union {b})
        = Cardinality(((W \union P) \union R) \union {a}) + 1
  BY <1>5, FS_AddElement
<1>7. Cardinality(1 .. n) = n
  BY FS_Interval
<1>8. PICK w \in Nat, p \in Nat, r \in Nat :
         w = Cardinality(W) /\ p = Cardinality(P) /\ r = Cardinality(R)
  BY <1>2
<1>9. n = w + p - 0 + r - 0 + 1 + 1
  BY <1>3, <1>4, <1>5, <1>6, <1>7, <1>8
<1> QED BY <1>8, <1>9

\* The header, the records of the attempts and the summary are all there is.
LEMMA LengthOfFile ==
  ASSUME IInv, SInv, main = "finished"
  PROVE  Len(log) = 2 + Sent("warmup") + Sent("primary") + Sent("rotation")
<1> DEFINE In(p) == {k \in DOMAIN log : log[k].of[1] = p}
<1>1. /\ Len(log) \in Nat /\ DOMAIN log = 1 .. Len(log)
      /\ \A k \in DOMAIN log : log[k].of[1] \in {"warmup", "primary", "rotation", "run", "summary"}
  <2>1. log \in Seq(Record)
    BY DEF IInv, TypeOK, Record
  <2>2. \A k \in DOMAIN log : log[k] \in Record
    BY <2>1
  <2> QED BY <2>1, <2>2 DEF Record, Phase
<1>2. /\ 1 \in DOMAIN log /\ log[1].of[1] = "run"
      /\ Len(log) \in DOMAIN log /\ log[Len(log)].of[1] = "summary"
  <2>1. log # <<>> /\ log[1] = Header /\ log[Len(log)].of = <<"summary", Cases>>
    BY DEF SInv, Filed, Finished
  <2> QED BY <1>1, <2>1 DEF Header, IInv, TypeOK
<1>3. \A k \in DOMAIN log : /\ log[k].of[1] = "run" => k = 1
                            /\ log[k].of[1] = "summary" => k = Len(log)
  BY DEF SInv, Filed
<1>4. 1 .. Len(log) = ((In("warmup") \union In("primary")) \union In("rotation")) \union {1} \union {Len(log)}
  BY <1>1, <1>2, <1>3
<1>5. /\ 1 # Len(log)
      /\ 1 \notin In("warmup") \union In("primary") \union In("rotation")
      /\ Len(log) \notin In("warmup") \union In("primary") \union In("rotation")
  BY <1>2
<1>6. In("warmup") \cap In("primary") = {} /\ (In("warmup") \union In("primary")) \cap In("rotation") = {}
  OBVIOUS
<1>7. \A p : In(p) \in SUBSET (1 .. Len(log)) /\ Cardinality(In(p)) = Sent(p)
  BY <1>1 DEF Sent
<1>8. PICK n, W, P, R : /\ n = Len(log)
                        /\ W = In("warmup") /\ P = In("primary") /\ R = In("rotation")
  OBVIOUS
<1> HIDE DEF In
<1>9. /\ n \in Nat /\ W \in SUBSET (1 .. n) /\ P \in SUBSET (1 .. n) /\ R \in SUBSET (1 .. n)
      /\ 1 # n /\ 1 \notin W \union P \union R /\ n \notin W \union P \union R
      /\ W \cap P = {} /\ (W \union P) \cap R = {}
      /\ 1 .. n = ((W \union P) \union R) \union {1} \union {n}
  <2>1. n \in Nat /\ W \in SUBSET (1 .. n) /\ P \in SUBSET (1 .. n) /\ R \in SUBSET (1 .. n)
    BY <1>1, <1>7, <1>8
  <2>2. 1 # n /\ 1 \notin W \union P \union R /\ n \notin W \union P \union R
    BY <1>5, <1>8
  <2>3. W \cap P = {} /\ (W \union P) \cap R = {}
    BY <1>6, <1>8
  <2> QED BY <1>4, <1>8, <2>1, <2>2, <2>3
<1>10. n = 2 + Cardinality(W) + Cardinality(P) + Cardinality(R)
  BY <1>9, FiveParts
<1> QED BY <1>7, <1>8, <1>10

\* A summary closes a whole run, comes last, and says of every item what its
\* records say, although it is computed from what the workers returned
\* (client.py:133-138, 213-270, runlog.py:114, 124-133).
THEOREM SummaryIsTrue == Spec => []SummaryTellsTheFile
<1>1. ASSUME IInv, SInv PROVE SummaryTellsTheFile
  <2> SUFFICES ASSUME main = "finished"
               PROVE  /\ log[1] = Header /\ Last(log).of = <<"summary", Cases>>
                      /\ Len(log) = 2 + Sent("warmup") + Sent("primary") + Sent("rotation")
                      /\ Among(1, "succeeded") + Among(1, "failed") = Cases
                      /\ \A s \in Status : /\ Among(1, s) = Records("primary", s)
                                           /\ Among(2, s) = Records("rotation", s)
                      /\ Sent("rotation") = IF plan = "rotate" THEN Among(1, "succeeded") ELSE 0
    BY DEF SummaryTellsTheFile
  <2>1. log[1] = Header /\ log[Len(log)].of = <<"summary", Cases>>
    BY <1>1 DEF SInv, Filed, Finished
  <2>2. Last(log) = log[Len(log)]
    BY DEF Last
  <2> QED BY <1>1, <2>1, <2>2, LengthOfFile, AllAnswered, SameFigures, AllRotated
<1>2. IInv /\ SInv => SummaryTellsTheFile
  BY <1>1
<1> QED BY <1>2, Invariance, Remembering, PTL

-----------------------------------------------------------------------------
(* An evaluation, with its dataset, replies and figures, is such a run. *)

LEMMA EvalStep == [EvalNext]_allVars => [Next]_vars
<1> SUFFICES ASSUME EvalNext PROVE [Next]_vars
  BY DEF allVars
<1>1. CASE Parse
  <2>1. CASE Legal
    BY <1>1, <2>1 DEF Parse, vars
  <2>2. CASE ~Legal
    BY <1>1, <2>2 DEF Parse, Open, Next
  <2> QED BY <2>1, <2>2
<1>2. CASE OpenRun
  BY <1>2 DEF OpenRun, Next
<1>3. CASE FinishRun
  BY <1>3 DEF FinishRun, Next
<1>4. CASE Warmup \/ GatherRaises \/ Drained \/ Interrupt \/ Over
  BY <1>4 DEF Next
<1>5. ASSUME NEW w \in Worker, Replied(w) \/ Starts(w) \/ Canceled(w) \/ RecordLost(w)
      PROVE  Next
  BY <1>5 DEF Replied, Next
<1> QED BY <1>1, <1>2, <1>3, <1>4, <1>5 DEF EvalNext

\* Reading and shuffling the dataset, and computing the figures, add nothing
\* to what the run does (client.py:160-272).
THEOREM EvaluationIsRun == EvalSpec => Spec
<1>1. EvalInit => Init
  BY DEF EvalInit
<1> QED BY <1>1, EvalStep, PTL DEF EvalSpec, Spec

\* One record per attempt, each case once, nothing written after the file is
\* closed, and a summary that says what the records say: in every evaluation,
\* for every dataset, every number of cases and of workers
\* (runlog.py:75-91, 99-114, client.py:189-270, 271-272).
THEOREM EvaluationIsRecorded ==
    EvalSpec => [](OneRecordPerAttempt /\ EachCaseOnce /\ NoWriteAfterClose /\ SummaryTellsTheFile)
BY EvaluationIsRun, OneRecordEach, EachOnce, ClosedForGood, SummaryIsTrue, PTL
-----------------------------------------------------------------------------
(* The report: its figures are those of the records. *)

\* A finite set of naturals has an ascending enumeration, which leaves nothing
\* out: the position of an element is the number of those up to it.
LEMMA Enumerates ==
  ASSUME NEW S \in SUBSET Nat, IsFiniteSet(S)
  PROVE  /\ Cardinality(S) \in Nat
         /\ Ascending(S) \in [1 .. Cardinality(S) -> S]
         /\ \A i, j \in 1 .. Cardinality(S) : i < j => Ascending(S)[i] < Ascending(S)[j]
         /\ \A x \in S : \E i \in 1 .. Cardinality(S) : Ascending(S)[i] = x
<1> DEFINE UpTo(x) == {y \in S : y <= x}
           rank == [x \in S |-> Cardinality(UpTo(x))]
<1>1. Cardinality(S) \in Nat
  BY FS_CardinalityType
<1> DEFINE n == Cardinality(S)
<1>2. n \in Nat /\ IsFiniteSet(1 .. n) /\ Cardinality(1 .. n) = n
  <2>1. n \in Nat
    BY <1>1
  <2> HIDE DEF n
  <2> QED BY <2>1, FS_Interval
<1>3. \A x \in S : /\ IsFiniteSet(UpTo(x)) /\ Cardinality(UpTo(x)) \in Nat
                   /\ Cardinality(UpTo(x)) <= n /\ Cardinality(UpTo(x)) # 0
  <2> SUFFICES ASSUME NEW x \in S
               PROVE  /\ IsFiniteSet(UpTo(x)) /\ Cardinality(UpTo(x)) \in Nat
                      /\ Cardinality(UpTo(x)) <= n /\ Cardinality(UpTo(x)) # 0
    OBVIOUS
  <2>1. UpTo(x) \in SUBSET S /\ x \in UpTo(x)
    OBVIOUS
  <2> HIDE DEF UpTo
  <2> QED BY <2>1, FS_Subset, FS_CardinalityType, FS_EmptySet
<1>4. \A x, y \in S : x < y => rank[x] < rank[y]
  <2> SUFFICES ASSUME NEW x \in S, NEW y \in S, x < y
               PROVE  Cardinality(UpTo(x)) < Cardinality(UpTo(y))
    OBVIOUS
  <2>1. UpTo(x) \in SUBSET UpTo(y) /\ UpTo(x) # UpTo(y)
    <3>1. x \in Nat /\ y \in Nat /\ y \in UpTo(y) /\ y \notin UpTo(x)
      OBVIOUS
    <3>2. \A z \in S : z <= x => z <= y
      BY <3>1
    <3> QED BY <3>1, <3>2
  <2>2. /\ Cardinality(UpTo(x)) \in Nat /\ Cardinality(UpTo(y)) \in Nat
        /\ Cardinality(UpTo(x)) <= Cardinality(UpTo(y))
        /\ Cardinality(UpTo(x)) # Cardinality(UpTo(y))
    <3>1. /\ IsFiniteSet(UpTo(y))
          /\ Cardinality(UpTo(x)) \in Nat /\ Cardinality(UpTo(y)) \in Nat
      BY <1>3
    <3> HIDE DEF UpTo
    <3> QED BY <2>1, <3>1, FS_Subset
  <2> HIDE DEF UpTo
  <2> QED BY <2>2
<1>5. rank \in Injection(S, 1 .. n)
  <2>1. \A x \in S : rank[x] \in 1 .. n
    <3> SUFFICES ASSUME NEW x \in S PROVE rank[x] \in 1 .. n
      OBVIOUS
    <3>1. rank[x] \in Nat /\ rank[x] <= n /\ rank[x] # 0
      BY <1>3
    <3> HIDE DEF rank, n
    <3> QED BY <1>2, <3>1
  <2>2. \A x, y \in S : rank[x] = rank[y] => x = y
    <3> SUFFICES ASSUME NEW x \in S, NEW y \in S, rank[x] = rank[y], x # y PROVE FALSE
      OBVIOUS
    <3>1. rank[x] \in 1 .. n /\ x \in Nat /\ y \in Nat /\ (x < y => rank[x] < rank[y])
                             /\ (y < x => rank[y] < rank[x])
      BY <1>4, <2>1
    <3> HIDE DEF rank, n
    <3> QED BY <1>2, <3>1
  <2>3. rank \in [S -> 1 .. n]
    BY <2>1
  <2>4. DOMAIN rank = S
    OBVIOUS
  <2> HIDE DEF rank, n
  <2> QED BY <2>2, <2>3, <2>4 DEF Injection, IsInjective
<1>6. \A i \in 1 .. n : \E x \in S : rank[x] = i
  <2>1. rank \in Surjection(S, 1 .. n)
    <3> HIDE DEF rank, n
    <3> QED BY <1>2, <1>5, FS_Injection DEF n
  <2> HIDE DEF rank, n
  <2> QED BY <2>1 DEF Surjection
<1> DEFINE s == [i \in 1 .. n |-> CHOOSE x \in S : rank[x] = i]
           Rising(t) == \A i, j \in DOMAIN t : i < j => t[i] < t[j]
<1>7. s \in [1 .. n -> S] /\ Rising(s)
  <2>1. \A i \in 1 .. n : s[i] \in S /\ rank[s[i]] = i
    <3> HIDE DEF rank, n
    <3> QED BY <1>6
  <2>2. s \in [1 .. n -> S] /\ DOMAIN s = 1 .. n
    BY <2>1
  <2>3. \A i, j \in 1 .. n : i < j => s[i] < s[j]
    <3> SUFFICES ASSUME NEW i \in 1 .. n, NEW j \in 1 .. n, i < j PROVE s[i] < s[j]
      OBVIOUS
    <3>1. PICK x \in S, y \in S : x = s[i] /\ y = s[j] /\ rank[x] = i /\ rank[y] = j
      <4> HIDE DEF s, rank, n
      <4> QED BY <2>1
    <3>2. x \in Nat /\ y \in Nat /\ i \in Int /\ j \in Int /\ (y < x => rank[y] < rank[x])
      <4>1. y < x => rank[y] < rank[x]
        BY <1>4
      <4> HIDE DEF rank, n
      <4> QED BY <4>1, <1>2
    <3> HIDE DEF rank, s, n
    <3> QED BY <3>1, <3>2
  <2> HIDE DEF rank, s, n
  <2> QED BY <2>2, <2>3
<1>8. Ascending(S) \in [1 .. n -> S] /\ Rising(Ascending(S))
  <2> HIDE DEF s
  <2> QED BY <1>7, Zenon DEF Ascending
<1>9. Ascending(S) \in Injection(1 .. n, S)
  <2> HIDE DEF n
  <2>1. \A i, j \in 1 .. n : i < j => Ascending(S)[i] < Ascending(S)[j]
    BY <1>8
  <2>2. \A i \in 1 .. n : Ascending(S)[i] \in S /\ Ascending(S)[i] \in Nat
    BY <1>8
  <2>3. \A i, j \in 1 .. n : Ascending(S)[i] = Ascending(S)[j] => i = j
    BY <1>2, <2>1, <2>2
  <2> QED BY <1>8, <2>3 DEF Injection, IsInjective
<1>10. Ascending(S) \in Surjection(1 .. n, S)
  <2>1. Cardinality(1 .. n) = Cardinality(S) /\ IsFiniteSet(S)
    BY <1>2
  <2> HIDE DEF n
  <2> QED BY <1>9, <2>1, FS_Injection
<1> QED BY <1>1, <1>8, <1>10 DEF Surjection

\* Nothing else enumerates 1 .. n: at the first position where it differed
\* from the identity, an element would come too late.
LEMMA EnumeratesInterval ==
  ASSUME NEW n \in Nat
  PROVE  Ascending(1 .. n) = [i \in 1 .. n |-> i]
<1> DEFINE s == Ascending(1 .. n)
           Moved == {i \in 1 .. n : s[i] # i}
<1>1. /\ s \in [1 .. n -> 1 .. n]
      /\ \A i, j \in 1 .. n : i < j => s[i] < s[j]
      /\ \A x \in 1 .. n : \E i \in 1 .. n : s[i] = x
  <2>1. (1 .. n) \in SUBSET Nat /\ IsFiniteSet(1 .. n) /\ Cardinality(1 .. n) = n
    BY FS_Interval
  <2> QED BY <2>1, Enumerates
<1> HIDE DEF s
<1>2. \A i \in 1 .. n : s[i] = i
  <2> SUFFICES ASSUME Moved # {} PROVE FALSE
    BY DEF Moved
  <2>1. Moved \in SUBSET Nat
    OBVIOUS
  <2>2. PICK k \in Moved : \A i \in Moved : k <= i
    <3> HIDE DEF Moved
    <3> QED BY <2>1, MinNat
  <2>3. k \in 1 .. n /\ s[k] # k /\ \A i \in 1 .. n : i < k => s[i] = i
    BY <2>2
  <2>4. PICK m \in 1 .. n : s[m] = k
    BY <1>1, <2>3
  <2>5. k < m
    BY <2>3, <2>4
  <2>6. s[k] \in 1 .. n /\ s[k] < k
    BY <1>1, <2>3, <2>4, <2>5
  <2>7. s[s[k]] = s[k] /\ s[s[k]] < s[k]
    BY <1>1, <2>3, <2>6
  <2> QED BY <2>6, <2>7
<1>3. DOMAIN s = 1 .. n /\ s = [i \in 1 .. n |-> s[i]]
  BY <1>1
<1> QED BY <1>2, <1>3 DEF s

\* The cases are as many lines of a legal dataset, each taken once.
Sorted == plan # "benchmark" =>
    /\ dataset \in Datasets
    /\ order # <<>> => Legal /\ order \in [Index -> CaseLines] /\ IsInjective(order)
    /\ main \notin {"start", "raised"} => order # <<>>

\* What has been returned is what once() has remembered.
Returned == done \in Seq(Index) /\ Range(done) = {i \in Index : results[i] # <<>>}

Reported == main = "finished" /\ plan # "benchmark" => report = Figures

EInv == Sorted /\ Returned /\ Reported

LEMMA CaseLinesFit ==
  ASSUME dataset \in Datasets, Legal
  PROVE  /\ CaseLines \in SUBSET Nat /\ IsFiniteSet(CaseLines) /\ Cardinality(CaseLines) = Cases
         /\ \A n \in CaseLines : CaseId(n) \in Nat /\ dataset[n].expected \in Option
<1>1. /\ dataset \in Seq([kind : {"case", "blank", "bad"}, id : Nat, expected : Option])
      /\ Cardinality(CaseLines) \in {0, Cases}
  BY DatasetAssumption DEF CaseLines
<1>2. /\ Len(dataset) \in Nat /\ DOMAIN dataset = 1 .. Len(dataset)
      /\ \A n \in DOMAIN dataset : dataset[n].id \in Nat /\ dataset[n].expected \in Option
  <2> DEFINE Line == [kind : {"case", "blank", "bad"}, id : Nat, expected : Option]
  <2>1. dataset \in Seq(Line)
    BY <1>1
  <2> HIDE DEF Line
  <2>2. /\ Len(dataset) \in Nat /\ DOMAIN dataset = 1 .. Len(dataset)
        /\ \A n \in DOMAIN dataset : dataset[n] \in Line
    BY <2>1
  <2> QED BY <2>2 DEF Line
<1>3. CaseLines \in SUBSET (1 .. Len(dataset)) /\ CaseLines # {}
  BY <1>2 DEF CaseLines, Legal
<1>4. IsFiniteSet(CaseLines) /\ Cardinality(CaseLines) # 0
  BY <1>2, <1>3, PositionsFinite, FS_EmptySet
<1>5. \A n \in CaseLines : n \in Nat /\ CaseId(n) \in Nat /\ dataset[n].expected \in Option
  BY <1>2, <1>3 DEF CaseId
<1> QED BY <1>1, <1>4, <1>5

\* A legal file is shuffled without losing or repeating a case.
LEMMA ParseSorts ==
  ASSUME Sorted, Parse
  PROVE  Sorted'
<1>1. /\ dataset' = dataset /\ plan' = plan /\ main = "start" /\ dataset \in Datasets /\ order = <<>>
      /\ CaseLines' = CaseLines /\ (Legal' <=> Legal)
  BY DEF Parse, Sorted, CaseLines, Legal, CaseId
<1>2. CASE ~Legal
  <2>1. main' = "raised" /\ order' = order
    BY <1>2 DEF Parse
  <2> QED BY <1>1, <2>1 DEF Sorted
<1>3. CASE Legal
  <2>1. PICK p \in Shuffles : order' = [k \in Index |-> InFileOrder[p[k]]] /\ main' = main
    BY <1>3 DEF Parse
  <2>2. /\ p \in [Index -> Index] /\ IsInjective(p)
        /\ \A k, l \in Index : p[k] = p[l] => k = l
    BY DatasetAssumption DEF IsInjective
  <2>3. /\ InFileOrder \in [Index -> CaseLines]
        /\ \A i, j \in Index : i < j => InFileOrder[i] < InFileOrder[j]
    BY <1>1, <1>3, CaseLinesFit, Enumerates DEF InFileOrder, Index
  <2>4. \A i, j \in Index : InFileOrder[i] = InFileOrder[j] => i = j
    <3>1. \A i \in Index : InFileOrder[i] \in Nat /\ i \in Int
      <4>1. CaseLines \in SUBSET Nat /\ Index \subseteq Int
        BY <1>1, <1>3, CaseLinesFit, RunAssumption DEF Index
      <4> QED BY <2>3, <4>1
    <3> QED BY <2>3, <3>1
  <2>5. order' \in [Index -> CaseLines] /\ IsInjective(order')
    <3>1. \A k \in Index : p[k] \in Index /\ order'[k] = InFileOrder[p[k]]
      BY <2>1, <2>2
    <3>2. DOMAIN order' = Index
      BY <2>1
    <3>3. \A k, l \in Index : order'[k] = order'[l] => k = l
      BY <2>2, <2>4, <3>1
    <3> QED BY <2>1, <2>3, <3>1, <3>2, <3>3 DEF IsInjective
  <2>6. main' = "start" /\ Index' = Index
    BY <1>1, <2>1 DEF Index
  <2> QED BY <1>1, <1>3, <2>5, <2>6 DEF Sorted
<1> QED BY <1>2, <1>3

\* once() is remembered in the order of return, of which nothing depends.
LEMMA RepliedReturns ==
  ASSUME IInv, Returned, NEW w \in Worker, Replied(w)
  PROVE  Returned'
<1>1. PICK s \in {"succeeded", "failed"} :
        \/ results' = results
        \/ results' = [results EXCEPT ![worker[w].job[2]] = Outcome(worker[w].job, s)]
  BY DEF Replied, Observed
<1>2. worker[w].job[2] \in Index /\ Sending(w)
  BY JobParts DEF Replied, Observed, IInv, JobsKnown, Sending
<1>3. DOMAIN results = Index /\ Index' = Index
  BY DEF IInv, TypeOK, Index
<1>4. done' = IF results' # results THEN Append(done, worker[w].job[2]) ELSE done
  BY DEF Replied
<1>5. CASE results' = results
  BY <1>3, <1>4, <1>5 DEF Returned
<1>6. CASE results' # results
  <2>1. \A i \in Index : results'[i] = IF i = worker[w].job[2] THEN Outcome(worker[w].job, s) ELSE results[i]
    BY <1>1, <1>2, <1>3, <1>6
  <2>2. Outcome(worker[w].job, s) # <<>>
    BY DEF Outcome
  <2>3. done' = Append(done, worker[w].job[2])
    BY <1>4, <1>6
  <2>4. done' \in Seq(Index) /\ Range(done') = Range(done) \union {worker[w].job[2]}
    <3>1. /\ done \in Seq(Index) /\ Len(done) \in Nat /\ DOMAIN done = 1 .. Len(done)
          /\ DOMAIN done' = 1 .. Len(done) + 1 /\ done' \in Seq(Index)
          /\ done'[Len(done) + 1] = worker[w].job[2]
          /\ \A k \in DOMAIN done : done'[k] = done[k]
      BY <1>2, <2>3 DEF Returned
    <3> QED BY <3>1 DEF Range
  <2>5. {i \in Index : results'[i] # <<>>} = {i \in Index : results[i] # <<>>} \union {worker[w].job[2]}
    BY <1>2, <2>1, <2>2
  <2> QED BY <1>3, <2>4, <2>5 DEF Returned
<1> QED BY <1>5, <1>6

LEMMA InitEval == EvalInit => EInv
<1> SUFFICES ASSUME EvalInit PROVE EInv
  OBVIOUS
<1>1. Sorted
  BY DEF EvalInit, Sorted, Init
<1>2. Returned
  BY DEF EvalInit, Init, Returned, Range
<1>3. Reported
  BY DEF EvalInit, Init, Reported
<1> QED BY <1>1, <1>2, <1>3 DEF EInv

LEMMA NextEval == IInv /\ EInv /\ [EvalNext]_allVars => EInv'
<1> SUFFICES ASSUME IInv, EInv, [EvalNext]_allVars PROVE EInv'
  OBVIOUS
<1> DEFINE Quietly == plan' = plan /\ UNCHANGED <<dataset, order>>
<1>1. ASSUME Quietly, main' = main \/ main' = "raised" \/ main \notin {"start", "raised"}
      PROVE  Sorted'
  <2>1. CaseLines' = CaseLines /\ (Legal' <=> Legal) /\ Index' = Index
    BY <1>1 DEF CaseLines, Legal, CaseId, Index
  <2> QED BY <1>1, <2>1 DEF EInv, Sorted
<1>2. ASSUME UNCHANGED <<results, done>> PROVE Returned'
  BY <1>2 DEF EInv, Returned, Index
<1>3. \A w \in Worker : main = "finished" => ~(Starts(w) \/ Observed(w) \/ Canceled(w) \/ RecordLost(w))
  BY DEF IInv, Closed, Final, Quiet, Starts, Observed, Canceled, RecordLost
<1>4. CASE Parse
  <2>1. Sorted'
    BY <1>4, ParseSorts DEF EInv
  <2>2. UNCHANGED <<results, done>> /\ main' # "finished"
    BY <1>4 DEF Parse
  <2> QED BY <1>2, <2>1, <2>2 DEF EInv, Reported
<1>5. CASE OpenRun
  <2>1. /\ UNCHANGED <<results, done, plan, dataset, order>> /\ main' # "finished"
        /\ plan # "benchmark" => order # <<>>
    BY <1>5 DEF OpenRun, Open, evalVars, Spread
  <2>2. Sorted'
    <3>1. CaseLines' = CaseLines /\ (Legal' <=> Legal) /\ Index' = Index
      BY <2>1 DEF CaseLines, Legal, CaseId, Index
    <3> QED BY <2>1, <3>1 DEF EInv, Sorted
  <2> QED BY <1>2, <2>1, <2>2 DEF EInv, Reported
<1>6. CASE FinishRun
  <2>1. UNCHANGED <<results, done, plan, dataset, order, reply>> /\ main = "gather" /\ main' \in {"finished", "raised"}
    BY <1>6 DEF FinishRun, Finish
  <2>2. Figures' = Figures
    BY <2>1 DEF Figures, Answered, Compared, Selected, Mismatches, Runs, CaseId
  <2>3. Reported'
    BY <1>6, <2>1, <2>2 DEF FinishRun, Reported
  <2> QED BY <1>1, <1>2, <2>1, <2>3 DEF EInv
<1>7. CASE (Warmup \/ GatherRaises \/ Drained \/ Interrupt) /\ UNCHANGED evalVars
  <2>1. UNCHANGED <<results, done, plan, dataset, order>> /\ main' # "finished"
                                                         /\ main \notin {"start", "raised"}
    BY <1>7 DEF Warmup, WarmupCanceled, GatherRaises, Drained, Interrupt, Spread, evalVars
  <2> QED BY <1>1, <1>2, <2>1 DEF EInv, Reported
<1>8. ASSUME NEW w \in Worker, Replied(w) PROVE EInv'
  <2>1. UNCHANGED <<main, plan, dataset, order>> /\ main # "finished"
    BY <1>3, <1>8 DEF Replied, Observed
  <2> QED BY <1>1, <1>8, <2>1, RepliedReturns DEF EInv, Reported
<1>9. ASSUME NEW w \in Worker, (Starts(w) \/ Canceled(w) \/ RecordLost(w)) /\ UNCHANGED evalVars PROVE EInv'
  <2>1. UNCHANGED <<main, plan, dataset, order, results, done>> /\ main # "finished"
    BY <1>3, <1>9 DEF Starts, Canceled, RecordLost, evalVars
  <2> QED BY <1>1, <1>2, <2>1 DEF EInv, Reported
<1>10. CASE UNCHANGED allVars
  <2>1. UNCHANGED <<main, plan, dataset, order, results, done, reply, report>>
    BY <1>10 DEF allVars, vars, evalVars
  <2>2. Figures' = Figures
    BY <2>1 DEF Figures, Answered, Compared, Selected, Mismatches, Runs, CaseId
  <2>3. Reported'
    BY <2>1, <2>2 DEF EInv, Reported
  <2> QED BY <1>1, <1>2, <2>1, <2>3 DEF EInv
<1>11. CASE Over /\ UNCHANGED evalVars
  BY <1>10, <1>11 DEF Over, allVars
<1> QED BY <1>4, <1>5, <1>6, <1>7, <1>8, <1>9, <1>10, <1>11 DEF EvalNext

LEMMA Reporting == EvalSpec => []EInv
<1>1. EvalSpec => []IInv
  BY EvaluationIsRun, Invariance, PTL
<1> QED BY <1>1, InitEval, NextEval, PTL DEF EvalSpec

\* The k-th outcome is that of the k-th case.
LEMMA RunsInOrder ==
  ASSUME IInv, SInv, EInv, main = "finished"
  PROVE  /\ DOMAIN Runs = Index /\ \A k \in Index : Runs[k] = k
         /\ Answered = Successes("primary") /\ Compared = Successes("rotation")
         /\ Answered \in SUBSET Index /\ Compared \in SUBSET Answered
<1>1. \A i \in Index : results[i] # <<>> /\ AsRecorded(i)
  BY OutcomesTold
<1>2. Range(done) = Index
  BY <1>1 DEF EInv, Returned
<1>3. Runs = [i \in Index |-> i]
  BY <1>2, EnumeratesInterval, RunAssumption DEF Runs, Index
<1>4. DOMAIN Runs = Index /\ \A k \in Index : Runs[k] = k
  BY <1>3
<1>5. /\ Answered = {k \in Index : results[k][1] = "succeeded"}
      /\ Compared = {k \in Answered : results[k][2] = "succeeded"}
  BY <1>4 DEF Answered, Compared
<1>6. Answered = Successes("primary")
  <2>1. ASSUME NEW k \in Answered PROVE k \in Successes("primary")
    <3>1. PICK l \in DOMAIN log : log[l] = [of |-> <<"primary", k>>, status |-> "succeeded"]
      BY <1>1, <1>5, <2>1 DEF AsRecorded, Recorded
    <3>2. log[l].of[1] = "primary" /\ log[l].status = "succeeded" /\ log[l].of[2] = k
      BY <3>1
    <3> QED BY <3>2 DEF Successes
  <2>2. ASSUME NEW l \in DOMAIN log, log[l].of[1] = "primary", log[l].status = "succeeded"
        PROVE  log[l].of[2] \in Answered
    BY <1>5, <2>2, OutcomesTold, JobParts
  <2> QED BY <2>1, <2>2 DEF Successes
<1>7. Compared = Successes("rotation")
  <2>1. ASSUME NEW k \in Compared PROVE k \in Successes("rotation")
    <3>1. PICK l \in DOMAIN log : log[l] = [of |-> <<"rotation", k>>, status |-> "succeeded"]
      BY <1>1, <1>5, <2>1 DEF AsRecorded, Recorded
    <3>2. log[l].of[1] = "rotation" /\ log[l].status = "succeeded" /\ log[l].of[2] = k
      BY <3>1
    <3> QED BY <3>2 DEF Successes
  <2>2. ASSUME NEW l \in DOMAIN log, log[l].of[1] = "rotation", log[l].status = "succeeded"
        PROVE  log[l].of[2] \in Compared
    BY <1>5, <2>2, OutcomesTold, JobParts
  <2> QED BY <2>1, <2>2 DEF Successes
<1> QED BY <1>4, <1>5, <1>6, <1>7

\* Whoever reads the records of an evaluation gets the figures of its summary:
\* each answer was compared with the label of its own case, and each rotation
\* with the answer it repeats, in whatever order the cases were taken and the
\* answers came (client.py:170-171, 189-262, runlog.py:102-114, datasets.py:31-47).
THEOREM ReportIsTrue == EvalSpec => []ReportTellsTheFile
<1>1. ASSUME IInv, SInv, EInv PROVE ReportTellsTheFile
  <2> SUFFICES ASSUME main = "finished", plan # "benchmark"
               PROVE  /\ report.questions = Cardinality(Successes("primary"))
                      /\ report.correct = Cardinality(Right)
                      /\ report.mismatches =
                            {[case |-> IdIn(i), selected |-> reply[<<"primary", i>>]] :
                               i \in Successes("primary") \ Right}
                      /\ Cardinality(report.mismatches) = report.questions - report.correct
                      /\ report.compared = Cardinality(Successes("rotation"))
                      /\ report.stable = Cardinality({i \in Successes("rotation") :
                                             reply[<<"rotation", i>>] = reply[<<"primary", i>>]})
    BY DEF ReportTellsTheFile
  <2> DEFINE S == Successes("primary")
             R == Successes("rotation")
             Case(i) == [case |-> IdIn(i), selected |-> reply[<<"primary", i>>]]
  <2>1. /\ dataset \in Datasets /\ Legal /\ order \in [Index -> CaseLines]
        /\ \A i, j \in Index : order[i] = order[j] => i = j
    BY <1>1 DEF EInv, Sorted, IsInjective
  <2>2. \A i \in Index : LabelOf(IdIn(i)) = dataset[order[i]].expected /\ IdIn(i) = CaseId(order[i])
    <3>1. \A n \in CaseLines : (CHOOSE m \in CaseLines : CaseId(m) = CaseId(n)) = n
      BY <2>1 DEF Legal
    <3> QED BY <2>1, <3>1 DEF LabelOf, IdIn
  <2>3. \A i, j \in Index : IdIn(i) = IdIn(j) => i = j
    BY <2>1, <2>2 DEF Legal
  <2>4. /\ S \in SUBSET Index /\ R \in SUBSET S /\ Answered = S /\ Compared = R
        /\ \A k \in S, p \in {"primary", "rotation"} : Selected(p, k) = reply[<<p, k>>]
    BY <1>1, RunsInOrder DEF Selected
  <2>5. Right = {k \in S : Selected("primary", k) = dataset[order[k]].expected}
    BY <2>2, <2>4 DEF Right
  <2>6. Mismatches = {Case(i) : i \in S \ Right}
    BY <2>2, <2>4, <2>5 DEF Mismatches
  <2>7. /\ report.questions = Cardinality(S) /\ report.correct = Cardinality(Right)
        /\ report.mismatches = Mismatches /\ report.compared = Cardinality(R)
        /\ report.stable = Cardinality({k \in R : Selected("rotation", k) = Selected("primary", k)})
    BY <1>1, <2>4, <2>5 DEF EInv, Reported, Figures
  <2>8. {k \in R : Selected("rotation", k) = Selected("primary", k)}
          = {i \in R : reply[<<"rotation", i>>] = reply[<<"primary", i>>]}
    BY <2>4
  <2>9. Cardinality(Mismatches) = Cardinality(S) - Cardinality(Right)
    <3> DEFINE D == S \ Right
               f == [i \in D |-> Case(i)]
    <3>1. IsFiniteSet(S) /\ Right \in SUBSET S
      BY <2>4, <2>5, PositionsFinite, RunAssumption DEF Index
    <3>2. IsFiniteSet(D) /\ Cardinality(D) = Cardinality(S) - Cardinality(S \cap Right)
      BY <3>1, FS_Difference
    <3>3. S \cap Right = Right
      BY <3>1
    <3>4. f \in Bijection(D, Mismatches)
      <4>1. \A i, j \in D : Case(i) = Case(j) => i = j
        BY <2>3, <2>4
      <4>2. f \in [D -> Mismatches] /\ (\A m \in Mismatches : \E i \in D : f[i] = m)
        BY <2>6
      <4>3. \A i, j \in D : f[i] = f[j] => i = j
        BY <4>1
      <4> QED BY <4>2, <4>3 DEF Bijection, Injection, Surjection, IsInjective
    <3>5. Cardinality(Mismatches) = Cardinality(D)
      BY <3>2, <3>4, FS_Bijection DEF ExistsBijection
    <3> QED BY <3>2, <3>3, <3>5
  <2> QED BY <2>6, <2>7, <2>8, <2>9
<1>2. IInv /\ SInv /\ EInv => ReportTellsTheFile
  BY <1>1
<1>3. EvalSpec => [](IInv /\ SInv)
  BY EvaluationIsRun, Invariance, Remembering, PTL
<1> QED BY <1>2, <1>3, Reporting, PTL
=============================================================================
