---------------------------- MODULE ServiceProofs ----------------------------
(***************************************************************************)
(* The safety properties of ClassificationService for every set of         *)
(* requests, every size of the two gates and every bound on the items.     *)
(*                                                                         *)
(* The invariant takes the invariant of GateProofs for each gate, and ties *)
(* together, request by request, what the parts of the service know of it: *)
(* where its task stands, its entry in _tasks, its place in the gates and  *)
(* in the primer, its scoring calls and the items it has sent.  A step     *)
(* moves one request (or cuts several), so most lemmas are about the part  *)
(* of one request, and UntouchedKeeps is about all the others.             *)
(***************************************************************************)
EXTENDS ClassificationService, ProofBasics

\* The gates as GateProofs knows them.
AP == INSTANCE GateProofs WITH
          Task <- Request, Capacity <- MaxActive, MaxQueued <- MaxQueuedRequests,
          interrupted <- CutInClassGate
SP == INSTANCE GateProofs WITH
          Task <- Unit, Capacity <- MaxInFlight, MaxQueued <- MaxQueuedScores,
          active <- inFlight, waiters <- scoreWaiters, at <- slot,
          interrupted <- CutInScoringGate

Stalled == {"pending", "granted", "cancelled"}
Queueing == {"waiting", "woken", "cancelled"}
Inside == {"compile", "prime", "inline", "spread", "gather", "drain", "unwind"}
Blank == {"idle", "done"}
Calls(r) == {r} \X Item

Coroutine == [pc : Inside \union Blank \union {"admission"},
              job : Jobs \union {None},
              cut : SUBSET {"queue", "deadline", "caller"},
              raising : {"none", "busy", "error", "cancelled"},
              scored : Nat,
              outcome : Answers \union {"none", "timeout"}]

ServiceTypes ==
    /\ run \in Request \union {None}
    /\ req \in [Request -> Coroutine]
    /\ unit \in [Unit -> Answers \union {"none", "new", "gate", "http"}]
    /\ ucut \in [Unit -> SUBSET {"queue", "cancel"}]
    /\ sent \in [Request -> [Item -> Nat]]
    /\ tasks \subseteq Request
    /\ closer \in ClosePhase
    /\ stage \in [Request -> {"out", "leading"} \union Queueing]

\* Its task, its entry in _tasks, and its places in the class gate and in the
\* primer; once close() has begun whoever is still registered is cut.
Placed(r) ==
    /\ r \in tasks <=> req[r].pc \notin Blank
    /\ req[r].pc \in Blank => req[r].cut = {}
    /\ req[r].pc \notin Blank => req[r].job \in Jobs
    /\ req[r].pc = "admission" <=> at[r] \in Stalled
    /\ req[r].pc \in Inside <=> at[r] = "holding"
    /\ req[r].pc = "prime" <=> stage[r] \in Queueing
    /\ stage[r] = "leading" => req[r].pc = "inline"
    /\ closer # "no" /\ r \in tasks => req[r].cut # {}

\* It has a scoring call of its own only while it awaits it, and has the loop
\* around that call; a result goes on only in a task that is not cut.
OwnCall(r) ==
    /\ unit[Own(r)] # "none" <=> req[r].pc = "inline"
    /\ run = r <=> \/ req[r].pc \in {"spread", "unwind"}
                   \/ req[r].pc = "inline" /\ unit[Own(r)] \in Answers \union {"new"}
    /\ req[r].pc = "spread" => req[r].cut = {}
    /\ req[r].pc = "inline" /\ unit[Own(r)] \in {"new", "ok"} => req[r].cut = {}

\* Its gathered calls live inside gather and drain, are over when it unwinds,
\* and all know of its cancellation or of the failure of one of them.
Gathered(r) ==
    \A u \in Calls(r) :
       /\ unit[u] # "none" => req[r].pc \in {"gather", "drain", "unwind"}
       /\ req[r].pc = "unwind" => unit[u] \in Answers \union {"none"}
       /\ (req[r].pc = "gather" /\ req[r].cut # {}) \/ req[r].pc = "drain" =>
             unit[u] \in Answers \union {"none"} \/ "cancel" \in ucut[u]

\* A call waits in the scoring gate, or holds a slot, as its state says.
Slotted(r) ==
    \A u \in UnitsOf({r}) : /\ unit[u] = "gate" <=> slot[u] \in Stalled
                            /\ unit[u] = "http" <=> slot[u] = "holding"

\* How often the item of a call in state s may have been sent.
Times(s) == CASE s \in {"none", "new", "gate"} -> {0}
              [] s \in {"http", "ok"} -> {1}
              [] OTHER -> {0, 1}

\* What it has sent: the first n items by itself, the others by its children.
Counted(r) ==
    LET n == req[r].scored
        w == req[r].job.work
    IN  /\ \A i \in Item : sent[r][i] <= 1
        /\ req[r].pc \in Blank \union {"admission", "compile", "prime"} =>
              n = 0 /\ \A i \in Item : sent[r][i] = 0
        /\ req[r].pc \in {"compile", "inline", "spread"} => n < w
        /\ req[r].pc = "prime" => w > 1
        /\ req[r].pc \in {"inline", "spread", "gather", "drain"} =>
              \A i \in Item : /\ i <= n => sent[r][i] = 1
                              /\ i > n /\ req[r].pc = "spread" => sent[r][i] = 0
                              /\ i > n + 1 /\ req[r].pc = "inline" => sent[r][i] = 0
        /\ req[r].pc = "inline" => sent[r][n + 1] \in Times(unit[Own(r)])
        /\ stage[r] = "leading" => n = 0 /\ w > 1
        /\ req[r].pc \in {"gather", "drain"} =>
              \A i \in Item : /\ i > n /\ i <= w => unit[<<r, i>>] # "none"
                              /\ i > n => sent[r][i] \in Times(unit[<<r, i>>])
                              /\ i <= n \/ i > w => unit[<<r, i>>] = "none"
        /\ req[r].pc = "drain" => req[r].raising # "none"
        /\ req[r].pc = "unwind" /\ req[r].raising = "none" =>
              \A i \in Item : i <= w => sent[r][i] = 1

Local(r) == Placed(r) /\ OwnCall(r) /\ Gathered(r) /\ Slotted(r) /\ Counted(r)

\* The inductive invariant.
IInv == /\ ServiceTypes
        /\ AP!IInv /\ SP!IInv
        /\ \A r \in Request : Local(r)

-----------------------------------------------------------------------------
LEMMA GatesAssumed == AP!GateAssumption /\ SP!GateAssumption
BY ServiceAssumption DEF AP!GateAssumption, SP!GateAssumption

LEMMA SameOperators ==
  /\ \A S : Admission!Cardinality(S) = AP!Cardinality(S) /\ Admission!Min(S) = AP!Min(S)
  /\ \A S : Scoring!Cardinality(S) = SP!Cardinality(S) /\ Scoring!Min(S) = SP!Min(S)
  /\ \A S : AP!Cardinality(S) = Cardinality(S) /\ SP!Cardinality(S) = Cardinality(S)
  /\ \A S : AP!IsFiniteSet(S) <=> IsFiniteSet(S)
  /\ \A S : SP!IsFiniteSet(S) <=> IsFiniteSet(S)
<1>1. \A S : Admission!Cardinality(S) = AP!Cardinality(S)
  BY Zenon DEF AP!Cardinality, Admission!Cardinality, AP!IsFiniteSet, Admission!IsFiniteSet
<1>2. \A S : Scoring!Cardinality(S) = SP!Cardinality(S)
  BY Zenon DEF SP!Cardinality, Scoring!Cardinality, SP!IsFiniteSet, Scoring!IsFiniteSet
<1>3. \A S : Admission!Min(S) = AP!Min(S) /\ Scoring!Min(S) = SP!Min(S)
  BY DEF AP!Min, Admission!Min, SP!Min, Scoring!Min
<1>4. \A S : AP!Cardinality(S) = Cardinality(S)
  BY DEF AP!Cardinality, Cardinality, AP!IsFiniteSet, IsFiniteSet
<1>5. \A S : SP!Cardinality(S) = Cardinality(S)
  BY DEF SP!Cardinality, Cardinality, SP!IsFiniteSet, IsFiniteSet
<1>6. \A S : (AP!IsFiniteSet(S) <=> IsFiniteSet(S)) /\ (SP!IsFiniteSet(S) <=> IsFiniteSet(S))
  BY DEF AP!IsFiniteSet, SP!IsFiniteSet, IsFiniteSet
<1> QED BY <1>1, <1>2, <1>3, <1>4, <1>5, <1>6

LEMMA AdmissionIsGate ==
  ASSUME NEW r \in Request
  PROVE  /\ Admission!Enter(r) => AP!Enter(r)
         /\ Admission!Enqueue(r) => AP!Enqueue(r)
         /\ Admission!HandOn(r) => AP!HandOn(r)
         /\ Admission!Resume(r) => AP!Resume(r)
         /\ Admission!Abandon(r) => AP!Abandon(r)
<1>1. Admission!Popped = AP!Popped /\ Admission!Heirs = AP!Heirs
  BY SameOperators
  DEF Admission!Popped, AP!Popped, Admission!Heirs, AP!Heirs, Admission!Live, AP!Live
<1>2. Admission!HandOn(r) => AP!HandOn(r)
  BY <1>1, SameOperators DEF Admission!HandOn, AP!HandOn, Admission!Live, AP!Live
<1>3. Admission!Without(r) = AP!Without(r)
  BY DEF Admission!Without, AP!Without
<1> QED BY <1>2, <1>3 
  DEF Admission!Enter, AP!Enter, Admission!Enqueue, AP!Enqueue, Admission!Resume, AP!Resume,
      Admission!Abandon, AP!Abandon, Admission!CanEnter, AP!CanEnter, Admission!IsFull, AP!IsFull

LEMMA Interrupted ==
  /\ \A S : Admission!Interrupt(S) => AP!Interrupt(S)
  /\ \A S : Scoring!Interrupt(S) => SP!Interrupt(S)
BY DEF Admission!Interrupt, AP!Interrupt, Scoring!Interrupt, SP!Interrupt

LEMMA ScoringIsGate ==
  ASSUME NEW u \in Unit
  PROVE  /\ Scoring!Enter(u) => SP!Enter(u)
         /\ Scoring!Enqueue(u) => SP!Enqueue(u)
         /\ Scoring!HandOn(u) => SP!HandOn(u)
         /\ Scoring!Resume(u) => SP!Resume(u)
         /\ Scoring!Abandon(u) => SP!Abandon(u)
<1>1. Scoring!Popped = SP!Popped /\ Scoring!Heirs = SP!Heirs
  BY SameOperators
  DEF Scoring!Popped, SP!Popped, Scoring!Heirs, SP!Heirs, Scoring!Live, SP!Live
<1>2. Scoring!HandOn(u) => SP!HandOn(u)
  BY <1>1, SameOperators DEF Scoring!HandOn, SP!HandOn, Scoring!Live, SP!Live
<1>3. Scoring!Without(u) = SP!Without(u)
  BY DEF Scoring!Without, SP!Without
<1> QED BY <1>2, <1>3
  DEF Scoring!Enter, SP!Enter, Scoring!Enqueue, SP!Enqueue, Scoring!Resume, SP!Resume,
      Scoring!Abandon, SP!Abandon, Scoring!CanEnter, SP!CanEnter, Scoring!IsFull, SP!IsFull

\* A step of one task may give a waiting one its slot; nothing else of it changes.
StillWaits(x, y) == x = y \/ (x \in Stalled /\ y \in Stalled)
AdmissionMoves(r, from, to) == /\ at[r] \in from
                               /\ at'[r] = to
                               /\ \A s \in Request \ {r} : StillWaits(at[s], at'[s])
                               /\ AP!IInv'

LEMMA AdmissionSteps ==
  ASSUME AP!IInv, NEW r \in Request
  PROVE  /\ Admission!Enter(r) => AdmissionMoves(r, {"out"}, "holding")
         /\ Admission!Enqueue(r) => AdmissionMoves(r, {"out"}, "pending")
         /\ Admission!Resume(r) => AdmissionMoves(r, {"granted"}, "holding")
         /\ Admission!Abandon(r) => AdmissionMoves(r, {"granted", "cancelled"}, "out")
         /\ Admission!Release(r) => AdmissionMoves(r, {"holding"}, "out")
<1>1. at \in [Request -> AP!Place]
  BY DEF AP!IInv, AP!GateTypeOK
<1>2. Admission!Enter(r) => AdmissionMoves(r, {"out"}, "holding")
  <2>1. Admission!Enter(r) => AP!IInv'
    BY AdmissionIsGate, GatesAssumed, AP!EnterInv
  <2> QED BY <1>1, <2>1 DEF Admission!Enter, AdmissionMoves, StillWaits
<1>3. Admission!Enqueue(r) => AdmissionMoves(r, {"out"}, "pending")
  <2>1. Admission!Enqueue(r) => AP!IInv'
    BY AdmissionIsGate, GatesAssumed, AP!EnqueueInv
  <2> QED BY <1>1, <2>1 DEF Admission!Enqueue, AdmissionMoves, StillWaits
<1>4. Admission!Resume(r) => AdmissionMoves(r, {"granted"}, "holding")
  <2>1. Admission!Resume(r) => AP!IInv'
    BY AdmissionIsGate, GatesAssumed, AP!ResumeInv
  <2> QED BY <1>1, <2>1 DEF Admission!Resume, AdmissionMoves, StillWaits
<1>5. ASSUME Admission!HandOn(r), r \in AP!Owners
      PROVE  /\ at'[r] = "out" /\ AP!IInv'
             /\ \A s \in Request \ {r} : StillWaits(at[s], at'[s])
  <2>1. AP!IInv'
    BY <1>5, AdmissionIsGate, GatesAssumed, AP!HandOnInv
  <2>2. \A s \in Admission!Heirs : at[s] = "pending"
    BY DEF Admission!Heirs, Admission!Live
  <2> QED BY <1>1, <1>5, <2>1, <2>2 DEF Admission!HandOn, StillWaits, Stalled
<1>6. Admission!Release(r) => AdmissionMoves(r, {"holding"}, "out")
  BY <1>5 DEF Admission!Release, AdmissionMoves, AP!Owners
<1>7. Admission!Abandon(r) => AdmissionMoves(r, {"granted", "cancelled"}, "out")
  <2>1. Admission!Abandon(r) => AP!IInv'
    BY AdmissionIsGate, GatesAssumed, AP!AbandonInv
  <2>2. CASE at[r] = "granted" /\ Admission!HandOn(r)
    BY <1>5, <2>2 DEF AdmissionMoves, AP!Owners
  <2> QED BY <1>1, <2>1, <2>2 DEF Admission!Abandon, AdmissionMoves, StillWaits
<1> QED BY <1>2, <1>3, <1>4, <1>6, <1>7

ScoringMoves(u, from, to) == /\ slot[u] \in from
                             /\ slot'[u] = to
                             /\ \A v \in Unit \ {u} : StillWaits(slot[v], slot'[v])
                             /\ SP!IInv'

LEMMA ScoringSteps ==
  ASSUME SP!IInv, NEW u \in Unit
  PROVE  /\ Scoring!Enter(u) => ScoringMoves(u, {"out"}, "holding")
         /\ Scoring!Enqueue(u) => ScoringMoves(u, {"out"}, "pending")
         /\ Scoring!Resume(u) => ScoringMoves(u, {"granted"}, "holding")
         /\ Scoring!Abandon(u) => ScoringMoves(u, {"granted", "cancelled"}, "out")
         /\ Scoring!Release(u) => ScoringMoves(u, {"holding"}, "out")
<1>1. slot \in [Unit -> SP!Place]
  BY DEF SP!IInv, SP!GateTypeOK
<1>2. Scoring!Enter(u) => ScoringMoves(u, {"out"}, "holding")
  <2>1. Scoring!Enter(u) => SP!IInv'
    BY ScoringIsGate, GatesAssumed, SP!EnterInv
  <2> QED BY <1>1, <2>1 DEF Scoring!Enter, ScoringMoves, StillWaits
<1>3. Scoring!Enqueue(u) => ScoringMoves(u, {"out"}, "pending")
  <2>1. Scoring!Enqueue(u) => SP!IInv'
    BY ScoringIsGate, GatesAssumed, SP!EnqueueInv
  <2> QED BY <1>1, <2>1 DEF Scoring!Enqueue, ScoringMoves, StillWaits
<1>4. Scoring!Resume(u) => ScoringMoves(u, {"granted"}, "holding")
  <2>1. Scoring!Resume(u) => SP!IInv'
    BY ScoringIsGate, GatesAssumed, SP!ResumeInv
  <2> QED BY <1>1, <2>1 DEF Scoring!Resume, ScoringMoves, StillWaits
<1>5. ASSUME Scoring!HandOn(u), u \in SP!Owners
      PROVE  /\ slot'[u] = "out" /\ SP!IInv'
             /\ \A v \in Unit \ {u} : StillWaits(slot[v], slot'[v])
  <2>1. SP!IInv'
    BY <1>5, ScoringIsGate, GatesAssumed, SP!HandOnInv
  <2>2. \A v \in Scoring!Heirs : slot[v] = "pending"
    BY DEF Scoring!Heirs, Scoring!Live
  <2> QED BY <1>1, <1>5, <2>1, <2>2 DEF Scoring!HandOn, StillWaits, Stalled
<1>6. Scoring!Release(u) => ScoringMoves(u, {"holding"}, "out")
  BY <1>5 DEF Scoring!Release, ScoringMoves, SP!Owners
<1>7. Scoring!Abandon(u) => ScoringMoves(u, {"granted", "cancelled"}, "out")
  <2>1. Scoring!Abandon(u) => SP!IInv'
    BY ScoringIsGate, GatesAssumed, SP!AbandonInv
  <2>2. CASE slot[u] = "granted" /\ Scoring!HandOn(u)
    BY <1>5, <2>2 DEF ScoringMoves, SP!Owners
  <2> QED BY <1>1, <2>1, <2>2 DEF Scoring!Abandon, ScoringMoves, StillWaits
<1> QED BY <1>2, <1>3, <1>4, <1>6, <1>7

\* Cancelling tasks leaves who waits waiting.
LEMMA InterruptSteps ==
  ASSUME AP!IInv, SP!IInv
  PROVE  /\ \A S \in SUBSET Request : Admission!Interrupt(S) =>
               AP!IInv' /\ \A s \in Request : StillWaits(at[s], at'[s])
         /\ \A S \in SUBSET Unit : Scoring!Interrupt(S) =>
               SP!IInv' /\ \A v \in Unit : StillWaits(slot[v], slot'[v])
<1>1. at \in [Request -> AP!Place] /\ slot \in [Unit -> SP!Place]
  BY DEF AP!IInv, AP!GateTypeOK, SP!IInv, SP!GateTypeOK
<1>2. \A S \in SUBSET Request : Admission!Interrupt(S) => AP!IInv'
  BY Interrupted, GatesAssumed, AP!InterruptInv
<1>3. \A S \in SUBSET Unit : Scoring!Interrupt(S) => SP!IInv'
  BY Interrupted, GatesAssumed, SP!InterruptInv
<1> QED BY <1>1, <1>2, <1>3 DEF Admission!Interrupt, Scoring!Interrupt, StillWaits, Stalled

\* Nobody touches a gate.
LEMMA GatesIdle ==
  /\ AP!IInv /\ UNCHANGED admissionVars =>
        AP!IInv' /\ \A s \in Request : StillWaits(at[s], at'[s])
  /\ SP!IInv /\ UNCHANGED scoringVars =>
        SP!IInv' /\ \A v \in Unit : StillWaits(slot[v], slot'[v])
BY DEF admissionVars, scoringVars, StillWaits,
       AP!IInv, AP!GateTypeOK, AP!Owners, AP!SlotAccounting, AP!WorkConserving, AP!QueueFaithful,
       SP!IInv, SP!GateTypeOK, SP!Owners, SP!SlotAccounting, SP!WorkConserving, SP!QueueFaithful

-----------------------------------------------------------------------------
StillQueues(x, y) == x = y \/ (x \in Queueing /\ y \in Queueing)
PrimerMoves(r, from, to) == /\ stage[r] \in from
                            /\ stage'[r] = to
                            /\ \A s \in Request \ {r} : StillQueues(stage[s], stage'[s])
                            /\ stage' \in [Request -> {"out", "leading"} \union Queueing]

LEMMA PrimerSteps ==
  ASSUME stage \in [Request -> {"out", "leading"} \union Queueing], NEW r \in Request
  PROVE  /\ \A k : Primer!Skip(r, k) => PrimerMoves(r, {"out"}, "out")
         /\ \A k : Primer!Join(r, k) => PrimerMoves(r, {"out"}, "leading") \/ PrimerMoves(r, {"out"}, "waiting")
         /\ Primer!TakeOver(r) => PrimerMoves(r, {"woken"}, "leading")
         /\ Primer!Follow(r) => PrimerMoves(r, {"woken"}, "out")
         /\ Primer!AbandonPrime(r) => PrimerMoves(r, {"woken", "cancelled"}, "out")
         /\ Primer!FirstReturns(r) => PrimerMoves(r, {"leading"}, "out")
         /\ Primer!FirstFails(r) => PrimerMoves(r, {"leading"}, "out")
<1>1. ASSUME NEW held, Primer!Depart(r, held)
      PROVE  /\ stage'[r] = "out"
             /\ \A s \in Request \ {r} : StillQueues(stage[s], stage'[s])
             /\ stage' \in [Request -> {"out", "leading"} \union Queueing]
  <2>1. \A q : \A s \in Primer!Woken(q, held) : stage[s] = "waiting"
    BY DEF Primer!Woken
  <2> QED BY <1>1, <2>1 DEF Primer!Depart, StillQueues, Queueing
<1>2. \A k : Primer!Skip(r, k) => PrimerMoves(r, {"out"}, "out")
  BY DEF Primer!Skip, PrimerMoves, StillQueues
<1>3. \A k : Primer!Join(r, k) => PrimerMoves(r, {"out"}, "leading") \/ PrimerMoves(r, {"out"}, "waiting")
  BY DEF Primer!Join, PrimerMoves, StillQueues, Queueing
<1>4. Primer!TakeOver(r) => PrimerMoves(r, {"woken"}, "leading")
  BY DEF Primer!TakeOver, PrimerMoves, StillQueues, Queueing
<1> QED BY <1>1, <1>2, <1>3, <1>4
  DEF Primer!Follow, Primer!AbandonPrime, Primer!FirstReturns, Primer!FirstFails, PrimerMoves

LEMMA PrimerIdle ==
  stage \in [Request -> {"out", "leading"} \union Queueing] =>
    /\ \A S : Primer!InterruptPrime(S) =>
          /\ stage' \in [Request -> {"out", "leading"} \union Queueing]
          /\ \A s \in Request : StillQueues(stage[s], stage'[s])
    /\ \A k : Primer!Expire(k) => stage' = stage
    /\ UNCHANGED primerVars => stage' = stage
BY DEF Primer!InterruptPrime, Primer!Expire, primerVars, StillQueues, Queueing

-----------------------------------------------------------------------------
Untouched(s) ==
    /\ req'[s] = req[s] /\ sent'[s] = sent[s]
    /\ \A u \in UnitsOf({s}) : unit'[u] = unit[u] /\ ucut'[u] = ucut[u] /\ StillWaits(slot[u], slot'[u])
    /\ s \in tasks' <=> s \in tasks
    /\ run' = s <=> run = s
    /\ StillWaits(at[s], at'[s])
    /\ StillQueues(stage[s], stage'[s])
    /\ closer' # "no" => closer # "no" \/ s \notin tasks

LEMMA UntouchedKeeps ==
  ASSUME NEW s \in Request, Local(s), Untouched(s)
  PROVE  Local(s)'
<1>1. Own(s) \in UnitsOf({s}) /\ Calls(s) \subseteq UnitsOf({s}) /\ \A i \in Item : <<s, i>> \in UnitsOf({s})
  BY ServiceAssumption DEF Own, UnitsOf, Item, Calls
<1>2. Placed(s)'
  BY DEF Local, Untouched, Placed, StillWaits, Stalled, StillQueues, Queueing
<1>3. OwnCall(s)'
  BY <1>1 DEF Local, Untouched, OwnCall
<1>4. Gathered(s)'
  BY <1>1 DEF Local, Untouched, Gathered
<1>5. Slotted(s)'
  BY <1>1, SMTT(40) DEF Local, Untouched, Slotted, StillWaits, Stalled
<1>6. Counted(s)'
  <2>1. /\ req'[s] = req[s] /\ sent'[s] = sent[s] /\ unit'[Own(s)] = unit[Own(s)]
        /\ \A i \in Item : unit'[<<s, i>>] = unit[<<s, i>>]
        /\ stage'[s] = "leading" <=> stage[s] = "leading"
    BY <1>1 DEF Untouched, StillQueues, Queueing
  <2>2. Counted(s)
    BY DEF Local
  <2> QED BY <2>1, <2>2 DEF Counted
<1> QED BY <1>2, <1>3, <1>4, <1>5, <1>6 DEF Local

\* A step of the task of r, or of a task it gathered, leaves the rest alone.
LEMMA OthersUntouched ==
  ASSUME NEW r \in Request, run \in {None, r}, run' \in {None, r},
         \A s \in Request \ {r} : /\ req'[s] = req[s] /\ sent'[s] = sent[s]
                                  /\ s \in tasks' <=> s \in tasks
                                  /\ StillWaits(at[s], at'[s])
                                  /\ StillQueues(stage[s], stage'[s]),
         \A u \in Unit \ UnitsOf({r}) : /\ unit'[u] = unit[u] /\ ucut'[u] = ucut[u]
                                        /\ StillWaits(slot[u], slot'[u]),
         closer' # "no" => closer # "no"
  PROVE  \A s \in Request \ {r} : Untouched(s)
<1>1. \A s \in Request \ {r} : UnitsOf({s}) \subseteq Unit \ UnitsOf({r})
  BY DEF UnitsOf, Unit
<1>2. \A s \in Request \ {r} : run' # s /\ run # s
  BY ServiceAssumption
<1> QED BY <1>1, <1>2 DEF Untouched

LEMMA OneMoves ==
  ASSUME IInv, NEW r \in Request, \A s \in Request \ {r} : Untouched(s),
         Local(r)', ServiceTypes', AP!IInv', SP!IInv'
  PROVE  IInv'
BY UntouchedKeeps DEF IInv

\* _run is over, at whatever point.
LEMMA EndInv ==
  ASSUME IInv, NEW r \in Request, NEW how \in Answers \union {"timeout"}, End(r, how),
         run \in {None, r},
         \A u \in UnitsOf({r}) : unit[u] \in Answers \union {"none"},
         at'[r] = "out", \A s \in Request \ {r} : StillWaits(at[s], at'[s]), AP!IInv',
         stage[r] = "out", UNCHANGED <<closer, scoringVars, primerVars>>
  PROVE  IInv'
<1>1. ServiceTypes /\ Slotted(r)
  BY DEF IInv, Local
<1>2. ServiceTypes'
  BY <1>1 DEF End, ServiceTypes, Coroutine, Fresh, Inside, Blank, Answers, ClosePhase, primerVars
<1>3. \A s \in Request \ {r} : Untouched(s)
  <2>1. \A u \in Unit \ UnitsOf({r}) : u[1] # r
    BY DEF Unit, UnitsOf
  <2> QED BY <1>1, <2>1, OthersUntouched DEF End, StillWaits, StillQueues, ServiceTypes, Coroutine, scoringVars, primerVars
<1>4. SP!IInv'
  BY GatesIdle DEF IInv
<1>5. /\ req'[r] = [Fresh EXCEPT !.pc = "done", !.outcome = how] /\ run' = None
      /\ r \notin tasks' /\ closer' = closer /\ at'[r] = "out" /\ stage'[r] = "out"
      /\ \A i \in Item : sent'[r][i] = 0
  BY <1>1 DEF End, ServiceTypes, Coroutine, primerVars
<1>6. \A u \in UnitsOf({r}) : /\ u \in Unit /\ unit'[u] = "none" /\ slot'[u] = slot[u]
                              /\ slot[u] \notin Stalled /\ slot[u] # "holding"
  <2>1. \A u \in UnitsOf({r}) : u \in Unit /\ u[1] = r
    BY DEF Unit, UnitsOf
  <2>2. \A u \in UnitsOf({r}) : unit'[u] = "none"
    BY <2>1 DEF End, Finished
  <2> QED BY <1>1, <2>1, <2>2 DEF Slotted, Answers, scoringVars
<1>7. Own(r) \in UnitsOf({r}) /\ Calls(r) \subseteq UnitsOf({r}) /\ \A i \in Item : <<r, i>> \in UnitsOf({r})
  BY ServiceAssumption DEF Own, UnitsOf, Item, Calls
<1>8. Local(r)'
  <2>1. Placed(r)'
    BY <1>5 DEF Placed, Blank, Fresh, Inside, Stalled, Queueing
  <2>2. OwnCall(r)' /\ Gathered(r)' /\ Slotted(r)'
    BY <1>5, <1>6, <1>7, ServiceAssumption DEF OwnCall, Gathered, Slotted, Fresh, Answers
  <2>3. Counted(r)'
    BY <1>5 DEF Counted, Fresh, Blank
  <2> QED BY <2>1, <2>2, <2>3 DEF Local
<1> QED BY <1>2, <1>3, <1>4, <1>8, OneMoves

-----------------------------------------------------------------------------
\* What the parts of the invariant say of a task in one place.
LEMMA Outside ==
  ASSUME IInv, NEW r \in Request, req[r].pc \in Blank \union {"admission", "compile", "prime", "unwind"}
  PROVE  /\ \A u \in UnitsOf({r}) : unit[u] \in Answers \union {"none"}
         /\ req[r].pc # "unwind" => \A u \in UnitsOf({r}) : unit[u] = "none"
         /\ req[r].pc # "prime" => stage[r] = "out"
<1>1. /\ OwnCall(r) /\ Gathered(r) /\ Placed(r)
      /\ stage[r] \in {"out", "leading"} \union Queueing
  BY DEF IInv, Local, ServiceTypes, Coroutine
<1>2. \A u \in UnitsOf({r}) : u = Own(r) \/ u \in Calls(r)
  BY ServiceAssumption DEF UnitsOf, Own, Calls, Item
<1>3. unit[Own(r)] = "none"
  BY <1>1 DEF OwnCall, Blank
<1>4. \A u \in Calls(r) : unit[u] \in Answers \union {"none"} /\ (req[r].pc # "unwind" => unit[u] = "none")
  BY <1>1 DEF Gathered, Blank
<1> QED BY <1>1, <1>2, <1>3, <1>4 DEF Placed, Blank

LEMMA RefuseInv == ASSUME IInv, NEW r \in Request, Refuse(r) PROVE IInv'
<1>1. /\ End(r, "busy") /\ run = None /\ req[r].pc \in Blank
      /\ UNCHANGED <<closer, admissionVars, scoringVars, primerVars>>
  BY DEF Refuse, Resumed, Blank
<1>2. AP!IInv /\ Placed(r) /\ at \in [Request -> AP!Place]
  BY DEF IInv, Local, AP!IInv, AP!GateTypeOK
<1>3. at'[r] = "out" /\ \A s \in Request \ {r} : StillWaits(at[s], at'[s])
  BY <1>1, <1>2 DEF Placed, Blank, AP!Place, Stalled, Inside, admissionVars, StillWaits
<1>4. AP!IInv'
  BY <1>1, <1>2, GatesIdle
<1> QED BY <1>1, <1>3, <1>4, Outside, EndInv DEF Answers, Blank

LEMMA NotAdmittedInv == ASSUME IInv, NEW r \in Request, NotAdmitted(r) PROVE IInv'
<1>1. /\ End(r, CutOutcome(req[r].cut)) /\ run = None /\ req[r].pc = "admission"
      /\ UNCHANGED <<closer, scoringVars, primerVars>>
      /\ Admission!Abandon(r)
  BY DEF NotAdmitted, Cancelled
<1>2. AdmissionMoves(r, {"granted", "cancelled"}, "out")
  BY <1>1, AdmissionSteps DEF IInv
<1>3. CutOutcome(req[r].cut) \in Answers \union {"timeout"}
  BY DEF CutOutcome, Answers
<1> QED BY <1>1, <1>2, <1>3, Outside, EndInv DEF AdmissionMoves

LEMMA UnwindInv == ASSUME IInv, NEW r \in Request, Unwind(r) PROVE IInv'
<1> DEFINE how == CASE req[r].raising = "none" -> "ok"
                    [] req[r].raising = "cancelled" -> CutOutcome(req[r].cut)
                    [] OTHER -> req[r].raising
<1>1. /\ End(r, how) /\ run = r /\ req[r].pc = "unwind"
      /\ UNCHANGED <<closer, scoringVars, primerVars>>
      /\ Admission!Release(r)
  BY DEF Unwind
<1>2. AdmissionMoves(r, {"holding"}, "out")
  BY <1>1, AdmissionSteps DEF IInv
<1>3. how \in Answers \union {"timeout"}
  BY DEF CutOutcome, Answers, IInv, ServiceTypes, Coroutine
<1> HIDE DEF how
<1> QED BY <1>1, <1>2, <1>3, Outside, EndInv DEF AdmissionMoves

-----------------------------------------------------------------------------
(* Steps that leave the scoring calls alone. *)

LEMMA BeginInv ==
  ASSUME IInv, NEW r \in Request, NEW j \in Jobs, BeginOperation(r, j),
         run = None, req[r].pc \in {"idle", "admission"}, req[r].cut = {},
         closer = "no" \/ r \in tasks, tasks' = tasks \union {r},
         at'[r] = "holding", \A s \in Request \ {r} : StillWaits(at[s], at'[s]), AP!IInv',
         UNCHANGED <<unit, ucut, sent, closer, scoringVars, primerVars>>
  PROVE  IInv'
<1>1. ServiceTypes /\ Local(r) /\ j.work \in Nat /\ j \in Jobs
  BY ServiceAssumption DEF IInv
<1>2. ServiceTypes'
  BY <1>1 DEF BeginOperation, ServiceTypes, Coroutine, Inside, primerVars
<1>3. \A s \in Request \ {r} : Untouched(s)
  <2>1. \A s \in Request \ {r} : req'[s] = req[s]
    BY <1>1 DEF BeginOperation, ServiceTypes, Coroutine
  <2>2. run' \in {None, r}
    BY DEF BeginOperation
  <2> QED BY <1>1, <2>1, <2>2, OthersUntouched DEF StillWaits, StillQueues, scoringVars, primerVars
<1>4. SP!IInv'
  BY GatesIdle DEF IInv
<1>5. /\ req'[r].job = j /\ req'[r].cut = {} /\ req'[r].scored = req[r].scored
      /\ req'[r].raising = req[r].raising
      /\ \/ run' = r /\ req'[r].pc = "unwind" /\ j.work = 0
         \/ run' = None /\ req'[r].pc = "compile" /\ j.work # 0
  BY <1>1 DEF BeginOperation, ServiceTypes, Coroutine
<1>6. \A u \in UnitsOf({r}) : unit[u] = "none"
  BY Outside DEF Blank
<1>7. Own(r) \in UnitsOf({r}) /\ Calls(r) \subseteq UnitsOf({r})
  BY ServiceAssumption DEF Own, UnitsOf, Item, Calls
<1>8. Local(r)'
  <2>1. Placed(r)'
    <3>1. stage'[r] = "out"
      BY Outside DEF Blank, primerVars
    <3> QED BY <1>1, <1>5, <3>1 DEF Local, Placed, Blank, Inside, Stalled, Queueing
  <2>2. OwnCall(r)' /\ Gathered(r)'
    BY <1>5, <1>6, <1>7, ServiceAssumption DEF OwnCall, Gathered
  <2>3. Slotted(r)'
    BY <1>1 DEF Local, Slotted, scoringVars
  <2>4. Counted(r)'
    <3>1. req[r].scored = 0 /\ \A i \in Item : sent[r][i] = 0
      BY <1>1 DEF Local, Counted, Blank
    <3>2. stage'[r] = "out"
      BY Outside DEF Blank, primerVars
    <3> QED BY <1>1, <1>5, <3>1, <3>2 DEF Counted, Blank, Item
  <2> QED BY <2>1, <2>2, <2>3, <2>4 DEF Local
<1> QED BY <1>2, <1>3, <1>4, <1>8, OneMoves

LEMMA ArriveInv == ASSUME IInv, NEW r \in Request, Arrive(r) PROVE IInv'
<1>1. /\ run = None /\ req[r].pc = "idle" /\ req[r].cut = {} /\ closer = "no"
      /\ UNCHANGED <<closer, scoringVars, primerVars>>
  BY DEF Arrive, Resumed
<1>2. PICK j \in Jobs :
         \/ /\ Admission!Enter(r) /\ tasks' = tasks \union {r} /\ BeginOperation(r, j)
            /\ UNCHANGED <<unit, ucut, sent>>
         \/ /\ Admission!Enqueue(r) /\ tasks' = tasks \union {r}
            /\ req' = [req EXCEPT ![r].job = j, ![r].pc = "admission"]
            /\ UNCHANGED <<run, unit, ucut, sent>>
         \/ Admission!Reject(r) /\ End(r, "busy")
  BY DEF Arrive
<1>3. /\ ServiceTypes /\ Local(r) /\ AP!IInv /\ SP!IInv
      /\ req[r].pc \in Blank \union {"admission", "compile", "prime", "unwind"}
  BY <1>1 DEF IInv, Blank
<1>4. CASE /\ Admission!Enter(r) /\ tasks' = tasks \union {r} /\ BeginOperation(r, j)
           /\ UNCHANGED <<unit, ucut, sent>>
  <2>1. AdmissionMoves(r, {"out"}, "holding")
    BY <1>3, <1>4, AdmissionSteps
  <2> QED BY <1>1, <1>4, <2>1, BeginInv DEF AdmissionMoves
<1>5. CASE Admission!Reject(r) /\ End(r, "busy")
  <2>1. at[r] = "out" /\ UNCHANGED admissionVars
    BY <1>5 DEF Admission!Reject, Admission!gateVars, admissionVars
  <2>2. AP!IInv' /\ at' = at
    BY <1>3, <2>1, GatesIdle DEF admissionVars
  <2> QED BY <1>1, <1>3, <1>5, <2>1, <2>2, Outside, EndInv DEF Answers, StillWaits
<1>6. CASE /\ Admission!Enqueue(r) /\ tasks' = tasks \union {r}
           /\ req' = [req EXCEPT ![r].job = j, ![r].pc = "admission"]
           /\ UNCHANGED <<run, unit, ucut, sent>>
  <2>1. AdmissionMoves(r, {"out"}, "pending")
    BY <1>3, <1>6, AdmissionSteps
  <2>2. /\ req'[r].job = j /\ req'[r].cut = {} /\ req'[r].scored = req[r].scored
        /\ req'[r].raising = req[r].raising /\ req'[r].pc = "admission"
        /\ \A s \in Request \ {r} : req'[s] = req[s]
    BY <1>1, <1>3, <1>6 DEF ServiceTypes, Coroutine
  <2>3. ServiceTypes'
    BY <1>1, <1>3, <1>6 DEF ServiceTypes, Coroutine, primerVars
  <2>4. \A s \in Request \ {r} : Untouched(s)
    BY <1>1, <1>6, <2>1, <2>2, OthersUntouched DEF AdmissionMoves, StillWaits, StillQueues, scoringVars, primerVars
  <2>5. SP!IInv'
    BY <1>1, <1>3, GatesIdle
  <2>6. \A u \in UnitsOf({r}) : unit[u] = "none"
    BY <1>1, <1>3, Outside
  <2>7. Own(r) \in UnitsOf({r}) /\ Calls(r) \subseteq UnitsOf({r})
    BY ServiceAssumption DEF Own, UnitsOf, Item, Calls
  <2>8. stage'[r] = "out"
    BY <1>1, <1>3, Outside DEF primerVars
  <2>9. Placed(r)' /\ OwnCall(r)' /\ Gathered(r)'
    BY <1>1, <1>6, <2>1, <2>2, <2>6, <2>7, <2>8, ServiceAssumption
    DEF AdmissionMoves, Placed, Blank, Inside, Stalled, Queueing, OwnCall, Gathered
  <2>10. Slotted(r)'
    BY <1>1, <1>3, <1>6 DEF Local, Slotted, scoringVars
  <2>11. Counted(r)'
    BY <1>1, <1>3, <1>6, <2>2, <2>8 DEF Local, Counted, Blank
  <2> QED BY <2>1, <2>3, <2>4, <2>5, <2>9, <2>10, <2>11, OneMoves DEF Local, AdmissionMoves
<1> QED BY <1>2, <1>4, <1>5, <1>6

LEMMA AdmittedInv == ASSUME IInv, NEW r \in Request, Admitted(r) PROVE IInv'
<1>1. /\ run = None /\ req[r].pc = "admission" /\ req[r].cut = {}
      /\ BeginOperation(r, req[r].job) /\ Admission!Resume(r)
      /\ UNCHANGED <<unit, ucut, sent, tasks, closer, scoringVars, primerVars>>
  BY DEF Admitted, Resumed
<1>2. AdmissionMoves(r, {"granted"}, "holding")
  BY <1>1, AdmissionSteps DEF IInv
<1>3. req[r].job \in Jobs /\ r \in tasks
  BY <1>1 DEF IInv, Local, Placed, Blank
<1> QED BY <1>1, <1>2, <1>3, BeginInv DEF AdmissionMoves

\* What a step of r that goes on inside the class gate does to req.
Moved(r, p, e, n) ==
    /\ req' \in [Request -> Coroutine]
    /\ req'[r].pc = p /\ req'[r].raising = e /\ req'[r].scored = n
    /\ req'[r].job = req[r].job /\ req'[r].cut = req[r].cut
    /\ \A s \in Request \ {r} : req'[s] = req[s]
LEMMA MovedFacts ==
  ASSUME req \in [Request -> Coroutine], NEW r \in Request, NEW x \in Coroutine,
         req' = [req EXCEPT ![r] = x], x.job = req[r].job, x.cut = req[r].cut
  PROVE  Moved(r, x.pc, x.raising, x.scored)
BY DEF Moved

LEMMA Going ==
  ASSUME req \in [Request -> Coroutine], NEW r \in Request, NEW p \in Inside,
         req' = [req EXCEPT ![r].pc = p]
  PROVE  Moved(r, p, req[r].raising, req[r].scored)
<1> DEFINE x == [req[r] EXCEPT !.pc = p]
<1>1. /\ x \in Coroutine /\ x.job = req[r].job /\ x.cut = req[r].cut
      /\ x.pc = p /\ x.raising = req[r].raising /\ x.scored = req[r].scored
  BY DEF Coroutine
<1>2. req' = [req EXCEPT ![r] = x]
  OBVIOUS
<1> HIDE DEF x
<1> QED BY <1>1, <1>2, MovedFacts

LEMMA Raising ==
  ASSUME req \in [Request -> Coroutine], NEW r \in Request, NEW p \in Inside,
         NEW e \in {"none", "busy", "error", "cancelled"},
         req' = [req EXCEPT ![r].pc = p, ![r].raising = e]
  PROVE  Moved(r, p, e, req[r].scored)
<1> DEFINE x == [req[r] EXCEPT !.pc = p, !.raising = e]
<1>1. /\ x \in Coroutine /\ x.job = req[r].job /\ x.cut = req[r].cut
      /\ x.pc = p /\ x.raising = e /\ x.scored = req[r].scored
  BY DEF Coroutine
<1>2. req' = [req EXCEPT ![r] = x]
  OBVIOUS
<1> HIDE DEF x
<1> QED BY <1>1, <1>2, MovedFacts

LEMMA ScoringOne ==
  ASSUME req \in [Request -> Coroutine], NEW r \in Request, NEW p \in Inside, NEW n \in Nat,
         req' = [req EXCEPT ![r].scored = n, ![r].pc = p]
  PROVE  Moved(r, p, req[r].raising, n)
<1> DEFINE x == [req[r] EXCEPT !.scored = n, !.pc = p]
<1>1. /\ x \in Coroutine /\ x.job = req[r].job /\ x.cut = req[r].cut
      /\ x.pc = p /\ x.raising = req[r].raising /\ x.scored = n
  BY DEF Coroutine
<1>2. req' = [req EXCEPT ![r] = x]
  OBVIOUS
<1> HIDE DEF x
<1> QED BY <1>1, <1>2, MovedFacts

\* The task of r goes on inside the class gate; no call asks for a slot or
\* gives one back.
LEMMA TaskStep ==
  ASSUME IInv, NEW r \in Request, run \in {None, r}, run' \in {None, r},
         NEW p \in Inside, NEW e \in {"none", "busy", "error", "cancelled"}, NEW n \in Nat,
         Moved(r, p, e, n), req[r].pc \in Inside,
         \A s \in Request \ {r} : StillQueues(stage[s], stage'[s]),
         stage' \in [Request -> {"out", "leading"} \union Queueing],
         p = "prime" <=> stage'[r] \in Queueing,
         stage'[r] = "leading" => p = "inline",
         unit' \in [Unit -> Answers \union {"none", "new", "gate", "http"}],
         \A u \in Unit : \/ unit'[u] = unit[u]
                         \/ u \in UnitsOf({r}) /\ unit[u] \notin {"gate", "http"} /\ unit'[u] \notin {"gate", "http"},
         UNCHANGED <<ucut, sent, tasks, closer, admissionVars, scoringVars>>,
         OwnCall(r)', Gathered(r)', Counted(r)'
  PROVE  IInv'
<1>1. AP!IInv' /\ SP!IInv'
  BY GatesIdle DEF IInv
<1>2. \A s \in Request \ {r} : Untouched(s)
  BY OthersUntouched DEF StillWaits, admissionVars, scoringVars, Moved
<1>3. Placed(r)'
  BY DEF IInv, Local, Placed, Inside, Blank, Stalled, admissionVars, Moved
<1>4. Slotted(r)'
  <2>1. UnitsOf({r}) \subseteq Unit
    BY DEF UnitsOf, Unit
  <2> QED BY <2>1 DEF IInv, Local, Slotted, scoringVars
<1>5. ServiceTypes'
  BY DEF IInv, ServiceTypes, Moved
<1> QED BY <1>1, <1>2, <1>3, <1>4, <1>5, OneMoves DEF Local

LEMMA OwnUnits ==
  ASSUME NEW r \in Request
  PROVE  /\ Own(r) \in Unit /\ Own(r) \in UnitsOf({r}) /\ Own(r) \notin Calls(r)
         /\ Calls(r) \subseteq Unit /\ Calls(r) \subseteq UnitsOf({r})
         /\ \A u \in UnitsOf({r}) : u = Own(r) \/ u \in Calls(r)
         /\ \A i \in Item : <<r, i>> \in Calls(r)
BY ServiceAssumption DEF Own, Unit, UnitsOf, Calls, Item

\* Its exception is on its way out, before it gathered anything.
LEMMA RaiseInv ==
  ASSUME IInv, NEW r \in Request, NEW e \in {"busy", "error", "cancelled"}, Raise(r, e),
         run \in {None, r}, req[r].pc \in {"compile", "prime", "inline"},
         unit[Own(r)] \in Answers \union {"none"},
         (unit' = unit /\ req[r].pc # "inline") \/ unit' = [unit EXCEPT ![Own(r)] = "none"],
         stage'[r] = "out", stage' \in [Request -> {"out", "leading"} \union Queueing],
         \A s \in Request \ {r} : StillQueues(stage[s], stage'[s]),
         UNCHANGED <<ucut, sent, tasks, closer, admissionVars, scoringVars>>
  PROVE  IInv'
<1>1. ServiceTypes /\ Local(r)
  BY DEF IInv
<1>2. Moved(r, "unwind", e, req[r].scored) /\ run' = r /\ req[r].scored \in Nat
  <2>1. req' = [req EXCEPT ![r].pc = "unwind", ![r].raising = e] /\ run' = r
    BY DEF Raise
  <2>2. req \in [Request -> Coroutine] /\ req[r].scored \in Nat /\ "unwind" \in Inside
    BY <1>1 DEF ServiceTypes, Coroutine, Inside
  <2> QED BY <2>1, <2>2, Raising
<1>3. unit' \in [Unit -> Answers \union {"none", "new", "gate", "http"}]
  BY <1>1, OwnUnits DEF ServiceTypes
<1>4. /\ unit'[Own(r)] = "none"
      /\ \A u \in Calls(r) : unit[u] = "none" /\ unit'[u] = "none"
      /\ \A u \in Unit : u # Own(r) => unit'[u] = unit[u]
  BY <1>1, OwnUnits DEF ServiceTypes, Local, OwnCall, Gathered
<1>5. OwnCall(r)' /\ Gathered(r)'
  BY <1>2, <1>4 DEF OwnCall, Gathered, Moved
<1>6. Counted(r)'
  BY <1>1, <1>2 DEF Counted, Local, Blank, Queueing, Moved
<1>7. "unwind" \in Inside /\ req[r].pc \in Inside /\ unit[Own(r)] \notin {"gate", "http"}
  BY DEF Inside, Answers
<1>8. \A u \in Unit : \/ unit'[u] = unit[u]
                      \/ u \in UnitsOf({r}) /\ unit[u] \notin {"gate", "http"} /\ unit'[u] \notin {"gate", "http"}
  BY <1>4, <1>7, OwnUnits
<1>9. stage'[r] \notin Queueing /\ stage'[r] # "leading" /\ run' \in {None, r}
  BY <1>2 DEF Queueing
<1>10. e \in {"none", "busy", "error", "cancelled"}
  OBVIOUS
<1> QED BY <1>2, <1>3, <1>5, <1>6, <1>7, <1>8, <1>9, <1>10, TaskStep

LEMMA CompileCutInv == ASSUME IInv, NEW r \in Request, CompileCut(r) PROVE IInv'
<1>1. /\ run = None /\ req[r].pc = "compile" /\ Raise(r, "cancelled")
      /\ UNCHANGED <<unit, ucut, sent, tasks, closer, admissionVars, scoringVars, primerVars>>
  BY DEF CompileCut, Cancelled
<1>2. stage[r] = "out" /\ unit[Own(r)] = "none" /\ stage' = stage
      /\ stage \in [Request -> {"out", "leading"} \union Queueing]
  BY <1>1, Outside, ServiceAssumption DEF UnitsOf, Own, primerVars, IInv, ServiceTypes, Coroutine
<1> QED BY <1>1, <1>2, RaiseInv DEF StillQueues

LEMMA PrimeCutInv == ASSUME IInv, NEW r \in Request, PrimeCut(r) PROVE IInv'
<1>1. /\ run = None /\ req[r].pc = "prime" /\ Raise(r, "cancelled") /\ Primer!AbandonPrime(r)
      /\ UNCHANGED <<unit, ucut, sent, tasks, closer, admissionVars, scoringVars>>
  BY DEF PrimeCut, Cancelled
<1>2. PrimerMoves(r, {"woken", "cancelled"}, "out")
  BY <1>1, PrimerSteps DEF IInv, ServiceTypes, Coroutine
<1>3. unit[Own(r)] = "none"
  BY <1>1, Outside, ServiceAssumption DEF UnitsOf, Own
<1> QED BY <1>1, <1>2, <1>3, RaiseInv DEF PrimerMoves

\* It calls score itself.
LEMMA CallInlineInv ==
  ASSUME IInv, NEW r \in Request, CallInline(r),
         run \in {None, r}, req[r].pc \in {"compile", "prime", "spread"}, req[r].cut = {},
         stage'[r] \in {"out", "leading"}, stage' \in [Request -> {"out", "leading"} \union Queueing],
         stage'[r] = "leading" => req[r].pc # "spread" /\ req[r].job.work > 1,
         \A s \in Request \ {r} : StillQueues(stage[s], stage'[s]),
         UNCHANGED <<ucut, sent, tasks, closer, admissionVars, scoringVars>>
  PROVE  IInv'
<1>1. ServiceTypes /\ Local(r)
  BY DEF IInv
<1>2. Moved(r, "inline", req[r].raising, req[r].scored) /\ run' = r
      /\ req[r].scored \in Nat /\ req[r].raising \in {"none", "busy", "error", "cancelled"}
  <2>1. req' = [req EXCEPT ![r].pc = "inline"] /\ run' = r
    BY DEF CallInline, Go
  <2>2. req \in [Request -> Coroutine] /\ "inline" \in Inside
        /\ req[r].scored \in Nat /\ req[r].raising \in {"none", "busy", "error", "cancelled"}
    BY <1>1 DEF ServiceTypes, Coroutine, Inside
  <2> QED BY <2>1, <2>2, Going
<1>3. unit' \in [Unit -> Answers \union {"none", "new", "gate", "http"}]
  BY <1>1, OwnUnits DEF ServiceTypes, CallInline
<1>4. /\ unit[Own(r)] = "none" /\ unit'[Own(r)] = "new"
      /\ \A u \in Calls(r) : unit[u] = "none" /\ unit'[u] = "none"
      /\ \A u \in Unit : u # Own(r) => unit'[u] = unit[u]
  BY <1>1, OwnUnits DEF ServiceTypes, Local, OwnCall, Gathered, CallInline
<1>5. OwnCall(r)' /\ Gathered(r)'
  BY <1>2, <1>4 DEF OwnCall, Gathered, Moved
<1>6. Counted(r)'
  <2>1. /\ \A i \in Item : sent[r][i] <= 1
        /\ \A i \in Item : /\ i <= req[r].scored => sent[r][i] = 1
                           /\ i > req[r].scored => sent[r][i] = 0
        /\ req[r].scored < req[r].job.work /\ (stage'[r] = "leading" => req[r].scored = 0)
        /\ req[r].job.work \in 0 .. MaxWork
    BY <1>1, ServiceAssumption DEF Local, Counted, Placed, Blank, Item
  <2>2. req[r].scored + 1 \in Item /\ 0 \in Times("new")
    BY <1>2, <2>1, ServiceAssumption DEF Item, Times
  <2>3. sent[r][req[r].scored + 1] = 0
    BY <1>2, <2>1, <2>2
  <2> QED BY <1>2, <1>4, <2>1, <2>2, <2>3 DEF Counted, Moved, Blank, Queueing, Item
<1>7. "inline" \in Inside /\ req[r].pc \in Inside
  BY DEF Inside
<1>8. \A u \in Unit : \/ unit'[u] = unit[u]
                      \/ u \in UnitsOf({r}) /\ unit[u] \notin {"gate", "http"} /\ unit'[u] \notin {"gate", "http"}
  BY <1>4, <1>7, OwnUnits
<1>9. stage'[r] \notin Queueing
  BY DEF Queueing
<1> QED BY <1>2, <1>3, <1>5, <1>6, <1>7, <1>8, <1>9, TaskStep

\* It goes on to the fan-out, or waits for the lease, before any call.
LEMMA MovesOnInv ==
  ASSUME IInv, NEW r \in Request, NEW p \in {"spread", "prime"},
         req' = [req EXCEPT ![r].pc = p], run' = IF p = "spread" THEN r ELSE None,
         run = None, req[r].pc \in {"compile", "prime"}, req[r].cut = {},
         stage'[r] = IF p = "spread" THEN "out" ELSE "waiting",
         p = "prime" => req[r].job.work > 1,
         stage' \in [Request -> {"out", "leading"} \union Queueing],
         \A s \in Request \ {r} : StillQueues(stage[s], stage'[s]),
         UNCHANGED <<unit, ucut, sent, tasks, closer, admissionVars, scoringVars>>
  PROVE  IInv'
<1>1. ServiceTypes /\ Local(r)
  BY DEF IInv
<1>2. Moved(r, p, req[r].raising, req[r].scored)
      /\ req[r].scored \in Nat /\ req[r].raising \in {"none", "busy", "error", "cancelled"}
  <2>1. req \in [Request -> Coroutine] /\ p \in Inside
        /\ req[r].scored \in Nat /\ req[r].raising \in {"none", "busy", "error", "cancelled"}
    BY <1>1 DEF ServiceTypes, Coroutine, Inside
  <2> QED BY <2>1, Going
<1>3. unit' \in [Unit -> Answers \union {"none", "new", "gate", "http"}]
  BY <1>1 DEF ServiceTypes
<1>4. unit'[Own(r)] = "none" /\ \A u \in Calls(r) : unit'[u] = "none"
  BY <1>1, OwnUnits DEF ServiceTypes, Local, OwnCall, Gathered
<1>5. OwnCall(r)' /\ Gathered(r)'
  BY <1>2, <1>4, ServiceAssumption DEF OwnCall, Gathered, Moved
<1>6. Counted(r)'
  <2>1. /\ \A i \in Item : sent[r][i] = 0
        /\ req[r].scored = 0 /\ 0 < req[r].job.work
    BY <1>1, ServiceAssumption DEF Local, Counted, Placed, Blank
  <2> QED BY <1>2, <2>1 DEF Counted, Moved, Blank, Queueing, Item
<1>7. p \in Inside /\ req[r].pc \in Inside /\ run \in {None, r} /\ run' \in {None, r}
  BY DEF Inside
<1>8. (p = "prime" <=> stage'[r] \in Queueing) /\ stage'[r] # "leading"
  BY DEF Queueing
<1>9. \A u \in Unit : unit'[u] = unit[u]
  OBVIOUS
<1> QED BY <1>2, <1>3, <1>5, <1>6, <1>7, <1>8, <1>9, TaskStep

LEMMA CompiledInv == ASSUME IInv, NEW r \in Request, Compiled(r) PROVE IInv'
<1>1. /\ run = None /\ req[r].pc = "compile" /\ req[r].cut = {}
      /\ UNCHANGED <<ucut, sent, tasks, closer, admissionVars, scoringVars>>
  BY DEF Compiled, Resumed
<1>2. /\ stage[r] = "out" /\ unit[Own(r)] = "none"
      /\ stage \in [Request -> {"out", "leading"} \union Queueing]
  BY <1>1, Outside, OwnUnits DEF IInv, ServiceTypes
<1>3. CASE Raise(r, "error") /\ UNCHANGED <<unit, primerVars>>
  <2>1. stage' = stage /\ unit' = unit
    BY <1>3 DEF primerVars
  <2> QED BY <1>1, <1>2, <1>3, <2>1, RaiseInv DEF StillQueues
<1>4. ASSUME Go(r, "spread"), unit' = unit, stage'[r] = "out",
             stage' \in [Request -> {"out", "leading"} \union Queueing],
             \A s \in Request \ {r} : StillQueues(stage[s], stage'[s])
      PROVE  IInv'
  BY <1>1, <1>4, MovesOnInv DEF Go
<1>5. CASE ~Primes(r) /\ Go(r, "spread") /\ UNCHANGED <<unit, primerVars>>
  BY <1>2, <1>4, <1>5 DEF primerVars, StillQueues
<1>6. CASE Primes(r) /\ Primer!Skip(r, req[r].job.key) /\ Go(r, "spread") /\ UNCHANGED unit
  <2>1. PrimerMoves(r, {"out"}, "out")
    BY <1>2, <1>6, PrimerSteps
  <2> QED BY <1>4, <1>6, <2>1 DEF PrimerMoves
<1>7. CASE /\ Primes(r)
           /\ Primer!Join(r, req[r].job.key)
           /\ IF stage'[r] = "leading" THEN CallInline(r) ELSE Park(r, "prime") /\ UNCHANGED unit
  <2>1. PrimerMoves(r, {"out"}, "leading") \/ PrimerMoves(r, {"out"}, "waiting")
    BY <1>2, <1>7, PrimerSteps
  <2>2. req[r].job.work > 1
    BY <1>7 DEF Primes
  <2>3. CASE PrimerMoves(r, {"out"}, "leading")
    BY <1>1, <1>7, <2>2, <2>3, CallInlineInv DEF PrimerMoves
  <2>4. CASE PrimerMoves(r, {"out"}, "waiting")
    BY <1>1, <1>7, <2>2, <2>4, MovesOnInv DEF PrimerMoves, Park
  <2> QED BY <2>1, <2>3, <2>4
<1> QED BY <1>3, <1>5, <1>6, <1>7 DEF Compiled

LEMMA PrimeResumesInv == ASSUME IInv, NEW r \in Request, PrimeResumes(r) PROVE IInv'
<1>1. /\ run = None /\ req[r].pc = "prime" /\ req[r].cut = {}
      /\ UNCHANGED <<ucut, sent, tasks, closer, admissionVars, scoringVars>>
  BY DEF PrimeResumes, Resumed
<1>2. stage \in [Request -> {"out", "leading"} \union Queueing] /\ req[r].job.work > 1
  BY <1>1 DEF IInv, ServiceTypes, Local, Counted
<1>3. CASE Primer!TakeOver(r) /\ CallInline(r)
  <2>1. PrimerMoves(r, {"woken"}, "leading")
    BY <1>2, <1>3, PrimerSteps
  <2> QED BY <1>1, <1>2, <1>3, <2>1, CallInlineInv DEF PrimerMoves
<1>4. CASE Primer!Follow(r) /\ Go(r, "spread") /\ UNCHANGED unit
  <2>1. PrimerMoves(r, {"woken"}, "out")
    BY <1>2, <1>4, PrimerSteps
  <2> QED BY <1>1, <1>4, <2>1, MovesOnInv DEF PrimerMoves, Go
<1> QED BY <1>3, <1>4 DEF PrimeResumes

\* Its own call succeeded: the item is counted, and it goes on at p.
LEMMA ScoredInv ==
  ASSUME IInv, NEW r \in Request, run = r, run' = r, req[r].pc = "inline", unit[Own(r)] = "ok",
         NEW p \in {"spread", "inline", "unwind"},
         req' = [req EXCEPT ![r].scored = req[r].scored + 1, ![r].pc = p],
         unit' = [unit EXCEPT ![Own(r)] = IF p = "inline" THEN "new" ELSE "none"],
         p = "unwind" <=> p # "spread" /\ req[r].scored + 1 = req[r].job.work,
         p = "spread" => req[r].scored + 1 < req[r].job.work,
         stage'[r] = "out", stage' \in [Request -> {"out", "leading"} \union Queueing],
         \A s \in Request \ {r} : StillQueues(stage[s], stage'[s]),
         UNCHANGED <<ucut, sent, tasks, closer, admissionVars, scoringVars>>
  PROVE  IInv'
<1> DEFINE n == req[r].scored + 1
<1>1. ServiceTypes /\ Local(r)
  BY DEF IInv
<1>2. Moved(r, p, req[r].raising, n)
      /\ n \in Nat /\ req[r].scored \in Nat /\ req[r].raising \in {"none", "busy", "error", "cancelled"}
  <2>1. req \in [Request -> Coroutine] /\ p \in Inside /\ n \in Nat
        /\ req[r].scored \in Nat /\ req[r].raising \in {"none", "busy", "error", "cancelled"}
    BY <1>1 DEF ServiceTypes, Coroutine, Inside
  <2> QED BY <2>1, ScoringOne
<1>3. unit' \in [Unit -> Answers \union {"none", "new", "gate", "http"}]
  BY <1>1, OwnUnits DEF ServiceTypes
<1>4. /\ unit'[Own(r)] = IF p = "inline" THEN "new" ELSE "none"
      /\ \A u \in Calls(r) : unit[u] = "none" /\ unit'[u] = "none"
      /\ \A u \in Unit : u # Own(r) => unit'[u] = unit[u]
  BY <1>1, OwnUnits DEF ServiceTypes, Local, OwnCall, Gathered
<1>5. req[r].cut = {}
  BY <1>1 DEF Local, OwnCall
<1>6. OwnCall(r)' /\ Gathered(r)'
  BY <1>2, <1>4, <1>5 DEF OwnCall, Gathered, Moved
<1>7. Counted(r)'
  <2>1. req[r].scored < req[r].job.work /\ req[r].job.work \in 0 .. MaxWork /\ req[r].job.work \in Nat
    BY <1>1, ServiceAssumption DEF Local, Counted, Placed, Blank
  <2>2. n \in Item /\ sent[r][n] = 1
    <3>1. n \in Item
      BY <1>2, <2>1, ServiceAssumption DEF Item
    <3>2. sent[r][n] \in Times("ok")
      BY <1>1 DEF Local, Counted
    <3> QED BY <3>1, <3>2 DEF Times
  <2>3. \A i \in Item : /\ sent[r][i] <= 1
                        /\ i <= n => sent[r][i] = 1
                        /\ i > n => sent[r][i] = 0
    <3>1. \A i \in Item : /\ sent[r][i] <= 1
                          /\ i <= req[r].scored => sent[r][i] = 1
                          /\ i > n => sent[r][i] = 0
      BY <1>1 DEF Local, Counted
    <3>2. \A i \in Item : i <= n => i <= req[r].scored \/ i = n
      BY <1>2 DEF Item
    <3> QED BY <2>2, <3>1, <3>2
  <2>4. p # "unwind" => n < req[r].job.work
    BY <1>2, <2>1
  <2>5. p = "unwind" => n = req[r].job.work
    OBVIOUS
  <2>6. p = "inline" => sent[r][n + 1] \in Times(unit'[Own(r)])
    <3>1. p = "inline" => n + 1 \in Item /\ n + 1 > n
      BY <1>2, <2>1, <2>4, ServiceAssumption DEF Item
    <3> QED BY <1>4, <2>3, <3>1 DEF Times
  <2>7. req'[r].pc = p /\ req'[r].scored = n /\ req'[r].job = req[r].job /\ sent' = sent
    BY <1>2 DEF Moved
  <2> HIDE DEF n
  <2>8. CASE p = "spread"
    BY <1>2, <2>1, <2>3, <2>4, <2>7, <2>8 DEF Counted, Blank, Queueing
  <2>9. CASE p = "inline"
    <3>1. \A i \in Item : i > n + 1 => i > n
      BY <1>2 DEF Item
    <3> QED BY <1>2, <2>1, <2>3, <2>4, <2>6, <2>7, <2>9, <3>1 DEF Counted, Blank, Queueing
  <2>10. CASE p = "unwind"
    BY <1>2, <2>1, <2>3, <2>5, <2>7, <2>10 DEF Counted, Blank, Queueing
  <2> QED BY <2>8, <2>9, <2>10
<1>8. p \in Inside /\ req[r].pc \in Inside
  BY DEF Inside
<1>9. \A u \in Unit : \/ unit'[u] = unit[u]
                      \/ u \in UnitsOf({r}) /\ unit[u] \notin {"gate", "http"} /\ unit'[u] \notin {"gate", "http"}
  BY <1>4, OwnUnits
<1>10. (p = "prime" <=> stage'[r] \in Queueing) /\ stage'[r] # "leading"
  BY DEF Queueing
<1> HIDE DEF n
<1> QED BY <1>2, <1>3, <1>6, <1>7, <1>8, <1>9, <1>10, TaskStep

LEMMA InlineReturnsInv == ASSUME IInv, NEW r \in Request, InlineReturns(r) PROVE IInv'
<1>1. /\ run = r /\ req[r].pc = "inline"
      /\ UNCHANGED <<ucut, sent, tasks, closer, admissionVars, scoringVars>>
  BY DEF InlineReturns
<1>2. /\ stage \in [Request -> {"out", "leading"} \union Queueing]
      /\ stage[r] # "leading" => stage[r] = "out"
      /\ stage[r] = "leading" => req[r].scored = 0 /\ req[r].job.work > 1
      /\ req[r].scored < req[r].job.work
  BY <1>1 DEF IInv, Local, ServiceTypes, Placed, Counted
<1>3. CASE unit[Own(r)] = "ok" /\ LeaderDone(r)
  <2>1. PrimerMoves(r, {"leading"}, "out") /\ stage[r] = "leading"
    BY <1>2, <1>3, PrimerSteps DEF LeaderDone, Leading
  <2>2. /\ req' = [req EXCEPT ![r].scored = req[r].scored + 1, ![r].pc = "spread"] /\ run' = r
        /\ unit' = [unit EXCEPT ![Own(r)] = "none"]
        /\ req[r].scored + 1 < req[r].job.work
    <3>1. req[r].scored + 1 = 1
      BY <1>2, <2>1
    <3> QED BY <1>2, <1>3, <2>1, <3>1 DEF LeaderDone
  <2> QED BY <1>1, <1>3, <2>1, <2>2, ScoredInv DEF PrimerMoves
<1>4. CASE unit[Own(r)] = "ok" /\ SerialDone(r)
  <2> DEFINE p == IF req[r].scored + 1 = req[r].job.work THEN "unwind" ELSE "inline"
  <2>1. /\ req' = [req EXCEPT ![r].scored = req[r].scored + 1, ![r].pc = p] /\ run' = r
        /\ unit' = [unit EXCEPT ![Own(r)] = IF p = "inline" THEN "new" ELSE "none"]
        /\ p \in {"spread", "inline", "unwind"}
        /\ p = "unwind" <=> p # "spread" /\ req[r].scored + 1 = req[r].job.work
        /\ p # "spread" /\ stage' = stage /\ stage[r] = "out"
    <3>1. CASE req[r].scored + 1 = req[r].job.work
      BY <1>2, <1>4, <3>1 DEF SerialDone, Leading, primerVars
    <3>2. CASE req[r].scored + 1 # req[r].job.work
      BY <1>2, <1>4, <3>2 DEF SerialDone, Leading, primerVars
    <3> QED BY <3>1, <3>2
  <2> HIDE DEF p
  <2>2. /\ stage'[r] = "out" /\ stage' \in [Request -> {"out", "leading"} \union Queueing]
        /\ \A s \in Request \ {r} : StillQueues(stage[s], stage'[s])
    BY <1>2, <2>1 DEF StillQueues
  <2> QED BY <1>1, <1>4, <2>1, <2>2, ScoredInv
<1>5. CASE unit[Own(r)] \in Answers \ {"ok"} /\ InlineFails(r)
  <2>1. /\ Raise(r, unit[Own(r)]) /\ unit' = [unit EXCEPT ![Own(r)] = "none"]
        /\ unit[Own(r)] \in {"busy", "error", "cancelled"} /\ unit[Own(r)] \in Answers
    BY <1>5 DEF InlineFails, Answers
  <2>2. CASE stage[r] = "leading"
    <3>1. PrimerMoves(r, {"leading"}, "out")
      BY <1>2, <1>5, <2>2, PrimerSteps DEF InlineFails, Leading
    <3> QED BY <1>1, <2>1, <3>1, RaiseInv DEF PrimerMoves
  <2>3. CASE stage[r] # "leading"
    <3>1. stage' = stage /\ stage[r] = "out"
      BY <1>2, <1>5, <2>3 DEF InlineFails, Leading, primerVars
    <3> QED BY <1>1, <1>2, <2>1, <3>1, RaiseInv DEF StillQueues
  <2> QED BY <2>2, <2>3
<1> QED BY <1>3, <1>4, <1>5 DEF InlineReturns

-----------------------------------------------------------------------------
(* gather_cancel_on_error. *)

LEMMA SpreadInv == ASSUME IInv, NEW r \in Request, Spread(r) PROVE IInv'
<1>1. /\ ServiceTypes /\ Local(r) /\ run = r /\ req[r].pc = "spread" /\ req[r].cut = {}
      /\ UNCHANGED <<ucut, sent, tasks, closer, admissionVars, scoringVars, primerVars>>
  BY DEF IInv, Spread, Local, OwnCall
<1>2. /\ stage' = stage /\ stage[r] = "out" /\ stage' \in [Request -> {"out", "leading"} \union Queueing]
      /\ \A s \in Request \ {r} : StillQueues(stage[s], stage'[s])
      /\ stage'[r] \notin Queueing
  BY <1>1 DEF primerVars, Local, Placed, ServiceTypes, StillQueues, Queueing
<1>3. CASE req[r].job.mode = "serial"
  <2>1. CallInline(r)
    BY <1>3 DEF Spread
  <2> QED BY <1>1, <1>2, <2>1, CallInlineInv
<1>4. CASE req[r].job.mode # "serial"
  <2>1. /\ unit' = [u \in Unit |-> IF u[1] = r /\ u[2] \in Remaining(r) THEN "new" ELSE unit[u]]
        /\ run' = None /\ req' = [req EXCEPT ![r].pc = "gather"]
    BY <1>4 DEF Spread, Park
  <2>2. /\ Moved(r, "gather", req[r].raising, req[r].scored)
        /\ req[r].scored \in Nat /\ req[r].raising \in {"none", "busy", "error", "cancelled"}
    <3>1. req \in [Request -> Coroutine] /\ "gather" \in Inside
          /\ req[r].scored \in Nat /\ req[r].raising \in {"none", "busy", "error", "cancelled"}
      BY <1>1 DEF ServiceTypes, Coroutine, Inside
    <3> QED BY <2>1, <3>1, Going
  <2>3. unit' \in [Unit -> Answers \union {"none", "new", "gate", "http"}]
    BY <1>1, <2>1 DEF ServiceTypes
  <2>4. unit[Own(r)] = "none" /\ \A u \in Calls(r) : unit[u] = "none"
    BY <1>1 DEF Local, OwnCall, Gathered
  <2>5. /\ unit'[Own(r)] = "none"
        /\ \A i \in Item : unit'[<<r, i>>] = IF i \in Remaining(r) THEN "new" ELSE "none"
        /\ \A u \in Calls(r) : unit'[u] \in {"none", "new"}
        /\ \A u \in Unit \ UnitsOf({r}) : unit'[u] = unit[u]
    <3>1. /\ Own(r)[1] = r /\ Own(r)[2] = 0 /\ 0 \notin Remaining(r)
          /\ \A i \in Item : <<r, i>>[1] = r /\ <<r, i>>[2] = i
          /\ \A u \in Unit \ UnitsOf({r}) : u[1] # r
      BY <2>2 DEF Own, Remaining, Unit, UnitsOf
    <3> QED BY <2>1, <2>4, <3>1, OwnUnits
  <2>6. OwnCall(r)' /\ Gathered(r)'
    BY <1>1, <2>1, <2>2, <2>5, ServiceAssumption DEF OwnCall, Gathered, Moved
  <2>7. Counted(r)'
    <3>1. /\ \A i \in Item : /\ sent[r][i] <= 1
                             /\ i <= req[r].scored => sent[r][i] = 1
                             /\ i > req[r].scored => sent[r][i] = 0
      BY <1>1 DEF Local, Counted
    <3>2. req[r].job.work \in Nat
      BY <1>1, ServiceAssumption DEF Local, Placed, Blank
    <3>3. \A i \in Item : i \in Remaining(r) <=> i > req[r].scored /\ i <= req[r].job.work
      BY <2>2, <3>2 DEF Remaining, Item
    <3>4. \A i \in Item : /\ i > req[r].scored /\ i <= req[r].job.work => unit'[<<r, i>>] # "none"
                          /\ i > req[r].scored => sent[r][i] \in Times(unit'[<<r, i>>])
                          /\ i <= req[r].scored \/ i > req[r].job.work => unit'[<<r, i>>] = "none"
      BY <2>2, <2>5, <3>1, <3>2, <3>3 DEF Times, Item
    <3> QED BY <1>1, <1>2, <2>2, <3>1, <3>4 DEF Counted, Moved, Blank
  <2>8. \A u \in Unit : \/ unit'[u] = unit[u]
                        \/ u \in UnitsOf({r}) /\ unit[u] \notin {"gate", "http"} /\ unit'[u] \notin {"gate", "http"}
    BY <2>4, <2>5, OwnUnits
  <2>9. "gather" \in Inside /\ req[r].pc \in Inside /\ run \in {None, r} /\ run' \in {None, r}
    BY <1>1, <2>1 DEF Inside
  <2> QED BY <1>1, <1>2, <2>2, <2>3, <2>6, <2>7, <2>8, <2>9, TaskStep
<1> QED BY <1>3, <1>4

\* Every gathered task is over, and r leaves.
LEMMA GatheredInv ==
  ASSUME IInv, NEW r \in Request, run = None, req[r].pc \in {"gather", "drain"}, Go(r, "unwind"),
         \A u \in Children(r) : unit[u] \in Answers,
         req[r].pc = "gather" => \A u \in Children(r) : unit[u] = "ok",
         UNCHANGED <<unit, ucut, sent, tasks, closer, admissionVars, scoringVars, primerVars>>
  PROVE  IInv'
<1>1. /\ ServiceTypes /\ Local(r) /\ stage' = stage
      /\ \A u \in Calls(r) : unit[u] # "none" => u \in Children(r)
  BY DEF IInv, primerVars, Children, Calls
<1>2. /\ stage[r] = "out" /\ stage' \in [Request -> {"out", "leading"} \union Queueing]
      /\ \A s \in Request \ {r} : StillQueues(stage[s], stage'[s])
      /\ stage'[r] \notin Queueing
  BY <1>1 DEF Local, Placed, ServiceTypes, StillQueues, Queueing
<1>3. /\ Moved(r, "unwind", req[r].raising, req[r].scored) /\ run' = r
      /\ req[r].scored \in Nat /\ req[r].raising \in {"none", "busy", "error", "cancelled"}
  <2>1. req \in [Request -> Coroutine] /\ "unwind" \in Inside
        /\ req[r].scored \in Nat /\ req[r].raising \in {"none", "busy", "error", "cancelled"}
    BY <1>1 DEF ServiceTypes, Coroutine, Inside
  <2> QED BY <2>1, Going DEF Go
<1>4. unit' \in [Unit -> Answers \union {"none", "new", "gate", "http"}]
  BY <1>1 DEF ServiceTypes
<1>5. unit[Own(r)] = "none" /\ \A u \in Calls(r) : unit[u] \in Answers \union {"none"}
  BY <1>1 DEF Local, OwnCall
<1>6. OwnCall(r)' /\ Gathered(r)'
  BY <1>3, <1>5 DEF OwnCall, Gathered, Moved
<1>7. Counted(r)'
  <2>1. \A i \in Item : sent[r][i] <= 1
    BY <1>1 DEF Local, Counted
  <2>2. req[r].pc = "gather" => \A i \in Item : i <= req[r].job.work => sent[r][i] = 1
    <3>1. ASSUME req[r].pc = "gather", NEW i \in Item, i <= req[r].job.work PROVE sent[r][i] = 1
      <4>1. CASE i <= req[r].scored
        BY <1>1, <3>1, <4>1 DEF Local, Counted
      <4>2. CASE i > req[r].scored
        <5>1. unit[<<r, i>>] # "none" /\ sent[r][i] \in Times(unit[<<r, i>>])
          BY <1>1, <3>1, <4>2 DEF Local, Counted
        <5>2. unit[<<r, i>>] = "ok"
          BY <1>1, <3>1, <5>1, OwnUnits
        <5> QED BY <5>1, <5>2 DEF Times
      <4> QED BY <1>3, <4>1, <4>2 DEF Item
    <3> QED BY <3>1
  <2>3. req[r].pc = "drain" => req[r].raising # "none"
    BY <1>1 DEF Local, Counted
  <2>4. /\ req'[r].pc = "unwind" /\ req'[r].job = req[r].job /\ req'[r].raising = req[r].raising
        /\ sent' = sent /\ stage'[r] # "leading"
    BY <1>1, <1>2, <1>3 DEF Moved
  <2>5. req'[r].raising = "none" => \A i \in Item : i <= req'[r].job.work => sent'[r][i] = 1
    BY <2>2, <2>3, <2>4
  <2> QED BY <2>1, <2>4, <2>5 DEF Counted, Blank
<1>8. "unwind" \in Inside /\ req[r].pc \in Inside /\ run \in {None, r} /\ run' \in {None, r}
  BY <1>3 DEF Inside
<1>9. \A u \in Unit : unit'[u] = unit[u]
  OBVIOUS
<1>10. "unwind" # "prime" /\ stage'[r] # "leading" /\ stage'[r] \notin Queueing
  BY <1>1, <1>2
<1> QED BY <1>2, <1>3, <1>4, <1>6, <1>7, <1>8, <1>9, <1>10, TaskStep

LEMMA GatherReturnsInv == ASSUME IInv, NEW r \in Request, GatherReturns(r) PROVE IInv'
BY GatheredInv DEF GatherReturns, Resumed, Answers

LEMMA DrainedInv == ASSUME IInv, NEW r \in Request, Drained(r) PROVE IInv'
BY GatheredInv DEF Drained, Live, Finished

LEMMA GatherRaisesInv == ASSUME IInv, NEW r \in Request, GatherRaises(r) PROVE IInv'
<1>1. PICK seen \in GatherSees(r) : AfterGather(r, seen)
  BY DEF GatherRaises
<1>2. /\ ServiceTypes /\ Local(r) /\ run = None /\ run' = None /\ req[r].pc = "gather"
      /\ req' = [req EXCEPT ![r].pc = "drain", ![r].raising = seen]
      /\ ucut' = [u \in Unit |-> IF u \in Live(r) THEN ucut[u] \union {"cancel"} ELSE ucut[u]]
      /\ UNCHANGED <<unit, sent, tasks, closer, admissionVars, primerVars>>
      /\ Scoring!Interrupt(Live(r))
  BY <1>1 DEF IInv, GatherRaises, AfterGather
<1>3. seen \in {"busy", "error", "cancelled"}
  BY DEF GatherSees, Failures
<1>4. Moved(r, "drain", seen, req[r].scored)
  <2>1. req \in [Request -> Coroutine] /\ "drain" \in Inside /\ seen \in {"none", "busy", "error", "cancelled"}
    BY <1>2, <1>3 DEF ServiceTypes, Inside
  <2>2. req' = [req EXCEPT ![r].pc = "drain", ![r].raising = seen]
    BY <1>2
  <2> QED BY <2>1, <2>2, Raising, Zenon
<1>5. Live(r) \subseteq Calls(r) /\ \A u \in Calls(r) : unit[u] \in Answers \union {"none"} \/ u \in Live(r)
  BY DEF Live, Children, Calls, Finished
<1>6. /\ SP!IInv' /\ AP!IInv' /\ \A v \in Unit : StillWaits(slot[v], slot'[v])
  <2>1. Live(r) \in SUBSET Unit
    BY <1>5, OwnUnits
  <2> QED BY <1>2, <2>1, InterruptSteps, GatesIdle DEF IInv
<1>7. ServiceTypes'
  <2>1. ucut' \in [Unit -> SUBSET {"queue", "cancel"}]
    BY <1>2 DEF ServiceTypes
  <2> QED BY <1>2, <1>4, <2>1 DEF ServiceTypes, Moved, primerVars
<1>8. \A s \in Request \ {r} : Untouched(s)
  <2>1. \A u \in Unit \ UnitsOf({r}) : u \notin Live(r)
    BY <1>5, OwnUnits
  <2> QED BY <1>2, <1>4, <1>6, <2>1, OthersUntouched DEF Moved, StillWaits, StillQueues, admissionVars, primerVars
<1>9. Local(r)'
  <2>1. Placed(r)'
    BY <1>2, <1>4 DEF Local, Placed, Moved, Blank, Inside, admissionVars, primerVars
  <2>2. OwnCall(r)'
    BY <1>2, <1>4 DEF Local, OwnCall, Moved
  <2>3. Gathered(r)'
    <3>1. \A u \in Calls(r) : u \in Live(r) => "cancel" \in ucut'[u]
      BY <1>2, OwnUnits
    <3> QED BY <1>2, <1>4, <1>5, <3>1 DEF Gathered, Moved
  <2>4. Slotted(r)'
    <3>1. UnitsOf({r}) \subseteq Unit
      BY DEF UnitsOf, Unit
    <3> QED BY <1>2, <1>6, <3>1 DEF Local, Slotted, StillWaits, Stalled
  <2>5. Counted(r)'
    <3>1. stage'[r] = stage[r]
      BY <1>2 DEF primerVars
    <3> QED BY <1>2, <1>3, <1>4, <3>1 DEF Local, Counted, Moved, Blank
  <2> QED BY <2>1, <2>2, <2>3, <2>4, <2>5 DEF Local
<1> QED BY <1>6, <1>7, <1>8, <1>9, OneMoves

-----------------------------------------------------------------------------
(* Cancellations, timers, close(). *)

LEMMA NobodyMoves ==
  ASSUME IInv, ServiceTypes', AP!IInv', SP!IInv', \A s \in Request : Untouched(s)
  PROVE  IInv'
BY UntouchedKeeps DEF IInv

AfterCut(q, why) == [q EXCEPT !.cut = q.cut \union {why},
                              !.raising = IF q.pc = "drain" THEN "cancelled" ELSE q.raising]

LEMMA AfterCutFacts ==
  ASSUME NEW q \in Coroutine, NEW why \in {"queue", "deadline", "caller"}
  PROVE  /\ AfterCut(q, why) \in Coroutine
         /\ AfterCut(q, why).pc = q.pc /\ AfterCut(q, why).job = q.job
         /\ AfterCut(q, why).scored = q.scored
         /\ AfterCut(q, why).cut = q.cut \union {why}
         /\ AfterCut(q, why).raising = IF q.pc = "drain" THEN "cancelled" ELSE q.raising
<1>1. PICK x \in {"none", "busy", "error", "cancelled"} :
           x = IF q.pc = "drain" THEN "cancelled" ELSE q.raising
  BY DEF Coroutine
<1>2. PICK c \in SUBSET {"queue", "deadline", "caller"} : c = q.cut \union {why}
  BY DEF Coroutine
<1> DEFINE y == [q EXCEPT !.cut = c, !.raising = x]
<1>3. /\ y \in Coroutine /\ y.pc = q.pc /\ y.job = q.job /\ y.scored = q.scored
      /\ y.cut = c /\ y.raising = x
  BY DEF Coroutine
<1>4. AfterCut(q, why) = y
  BY <1>1, <1>2 DEF AfterCut
<1> HIDE DEF y
<1> QED BY <1>1, <1>2, <1>3, <1>4

LEMMA CutAllParts ==
  ASSUME NEW S, NEW why, CutAll(S, why)
  PROVE  /\ req' = [r \in Request |-> IF r \notin S THEN req[r] ELSE AfterCut(req[r], why)]
         /\ ucut' = [u \in Unit |-> IF u[1] \in S /\ u \in Live(u[1])
                                    THEN ucut[u] \union {"cancel"} ELSE ucut[u]]
         /\ Admission!Interrupt(S)
         /\ Scoring!Interrupt(UnitsOf(S))
         /\ Primer!InterruptPrime(S)
BY Zenon DEF CutAll, AfterCut

\* Parked tasks are cancelled; who closes cancels all of them.
LEMMA CutAllInv ==
  ASSUME IInv, NEW S \in SUBSET tasks, NEW why \in {"queue", "deadline", "caller"},
         run = None, CutAll(S, why), UNCHANGED <<run, unit, sent, tasks>>,
         closer' \in ClosePhase, closer' # "no" => closer # "no" \/ S = tasks
  PROVE  IInv'
<1>1. ServiceTypes /\ S \in SUBSET Request
  BY DEF IInv, ServiceTypes
<1>2. /\ AP!IInv' /\ SP!IInv'
      /\ \A s \in Request : StillWaits(at[s], at'[s])
      /\ \A v \in Unit : StillWaits(slot[v], slot'[v])
  <2>1. UnitsOf(S) \in SUBSET Unit
    BY <1>1 DEF UnitsOf, Unit
  <2> QED BY <1>1, <2>1, InterruptSteps, CutAllParts DEF IInv
<1>3. /\ stage' \in [Request -> {"out", "leading"} \union Queueing]
      /\ \A s \in Request : StillQueues(stage[s], stage'[s])
  BY <1>1, PrimerIdle, CutAllParts DEF ServiceTypes
<1>4. \A s \in Request : s \notin S => req'[s] = req[s]
  BY CutAllParts
<1>5. \A s \in S : /\ req'[s] \in Coroutine
                   /\ req'[s].pc = req[s].pc /\ req'[s].job = req[s].job /\ req'[s].scored = req[s].scored
                   /\ req'[s].cut = req[s].cut \union {why}
                   /\ req'[s].raising = IF req[s].pc = "drain" THEN "cancelled" ELSE req[s].raising
  <2>1. \A s \in S : req'[s] = AfterCut(req[s], why) /\ req[s] \in Coroutine
    BY <1>1, CutAllParts DEF ServiceTypes
  <2> QED BY <2>1, AfterCutFacts
<1>6. ServiceTypes'
  <2>1. req' \in [Request -> Coroutine]
    <3>1. \A s \in Request : req'[s] \in Coroutine
      BY <1>1, <1>4, <1>5 DEF ServiceTypes
    <3> QED BY <3>1, CutAllParts
  <2>2. ucut' \in [Unit -> SUBSET {"queue", "cancel"}]
    BY <1>1, CutAllParts DEF ServiceTypes
  <2> QED BY <1>1, <1>3, <2>1, <2>2 DEF ServiceTypes
<1>7. ASSUME NEW s \in Request, s \notin S PROVE Local(s)'
  <2>1. \A u \in UnitsOf({s}) : u \in Unit /\ u[1] = s
    BY DEF Unit, UnitsOf
  <2>2. \A u \in UnitsOf({s}) : ucut'[u] = ucut[u]
    BY <1>7, <2>1, CutAllParts
  <2>3. Untouched(s)
    BY <1>2, <1>3, <1>4, <1>7, <2>1, <2>2 DEF Untouched
  <2> QED BY <1>7, <2>3, UntouchedKeeps DEF IInv
<1>8. ASSUME NEW s \in S PROVE Local(s)'
  <2>1. Local(s) /\ s \in Request /\ s \in tasks /\ s # None
    BY <1>1, ServiceAssumption DEF IInv
  <2>2. req[s].pc \notin Blank \union {"spread", "unwind"}
        /\ ~(req[s].pc = "inline" /\ unit[Own(s)] \in Answers \union {"new"})
    BY <2>1 DEF Local, OwnCall, Placed
  <2>3. Placed(s)'
    BY <1>2, <1>3, <1>5, <2>1, <2>2 DEF Local, Placed, StillWaits, Stalled, StillQueues, Queueing
  <2>4. OwnCall(s)'
    BY <1>5, <2>1, <2>2 DEF Local, OwnCall, Answers
  <2>5. Gathered(s)'
    <3>1. \A u \in Calls(s) : u \in Unit /\ u[1] = s
      BY <2>1 DEF Calls, Unit, Item
    <3>2. \A u \in Calls(s) : unit[u] \in Answers \union {"none"} \/ u \in Live(s)
      BY DEF Live, Children, Calls, Finished
    <3>3. \A u \in Calls(s) : u \in Live(s) => "cancel" \in ucut'[u]
      BY <3>1, CutAllParts
    <3> QED BY <1>5, <2>1, <3>2, <3>3 DEF Local, Gathered
  <2>6. Slotted(s)'
    <3>1. UnitsOf({s}) \subseteq Unit
      BY <2>1 DEF UnitsOf, Unit
    <3> QED BY <1>2, <2>1, <3>1 DEF Local, Slotted, StillWaits, Stalled
  <2>7. Counted(s)'
    <3>1. stage'[s] = "leading" <=> stage[s] = "leading"
      BY <1>3, <2>1 DEF StillQueues, Queueing
    <3> QED BY <1>5, <2>1, <2>2, <3>1 DEF Local, Counted, Blank
  <2> QED BY <2>3, <2>4, <2>5, <2>6, <2>7 DEF Local
<1> QED BY <1>2, <1>6, <1>7, <1>8 DEF IInv

LEMMA CutShortInv ==
  ASSUME IInv, NEW r \in Request, NEW why \in {"queue", "deadline", "caller"}, CutShort(r, why)
  PROVE  IInv'
<1>1. r \in tasks /\ {r} \in SUBSET tasks
  BY DEF CutShort, Parked, IInv, Local, Placed, Blank
<1>2. closer' = closer /\ closer \in ClosePhase
  BY DEF CutShort, IInv, ServiceTypes
<1> QED BY <1>1, <1>2, CutAllInv DEF CutShort

LEMMA CloseInv == ASSUME IInv, CloseBegins \/ CloseCut PROVE IInv'
BY CutAllInv DEF CloseBegins, CloseCut, ClosePhase

LEMMA ChildQueueTimerInv == ASSUME IInv, NEW u \in Unit, ChildQueueTimer(u) PROVE IInv'
<1> DEFINE r == u[1]
<1>1. /\ ServiceTypes /\ r \in Request /\ Local(r) /\ run = None /\ u \in UnitsOf({r})
      /\ ucut' = [ucut EXCEPT ![u] = @ \union {"queue"}]
      /\ UNCHANGED <<run, req, unit, sent, tasks, closer, admissionVars, primerVars>>
      /\ Scoring!Interrupt({u})
  BY DEF IInv, ChildQueueTimer, Unit, UnitsOf
<1>2. AP!IInv' /\ SP!IInv' /\ \A v \in Unit : StillWaits(slot[v], slot'[v])
  <2>1. {u} \in SUBSET Unit
    OBVIOUS
  <2> QED BY <1>1, <2>1, InterruptSteps, GatesIdle DEF IInv
<1>3. ServiceTypes'
  BY <1>1 DEF ServiceTypes, primerVars
<1> HIDE DEF r
<1>4. \A s \in Request \ {r} : Untouched(s)
  BY <1>1, <1>2, OthersUntouched DEF StillWaits, StillQueues, admissionVars, primerVars
<1>5. Local(r)'
  <2>1. Placed(r)' /\ OwnCall(r)' /\ Counted(r)'
    BY <1>1 DEF Local, Placed, OwnCall, Counted, admissionVars, primerVars
  <2>2. Gathered(r)'
    <3>1. \A v \in Calls(r) : "cancel" \in ucut[v] => "cancel" \in ucut'[v]
      BY <1>1, OwnUnits DEF ServiceTypes
    <3> QED BY <1>1, <3>1 DEF Local, Gathered
  <2>3. Slotted(r)'
    <3>1. UnitsOf({r}) \subseteq Unit
      BY <1>1 DEF UnitsOf, Unit
    <3> QED BY <1>1, <1>2, <3>1 DEF Local, Slotted, StillWaits, Stalled
  <2> QED BY <2>1, <2>2, <2>3 DEF Local
<1> QED BY <1>1, <1>2, <1>3, <1>4, <1>5, OneMoves

LEMMA QuietInv ==
  ASSUME IInv, UNCHANGED <<run, req, unit, ucut, sent, tasks, admissionVars, scoringVars>>,
         stage' = stage, closer' \in ClosePhase, closer' # "no" => closer # "no"
  PROVE  IInv'
<1>1. AP!IInv' /\ SP!IInv'
  BY GatesIdle DEF IInv
<1>2. ServiceTypes'
  BY DEF IInv, ServiceTypes
<1>3. \A s \in Request : Untouched(s)
  BY DEF Untouched, StillWaits, StillQueues, admissionVars, scoringVars
<1> QED BY <1>1, <1>2, <1>3, NobodyMoves

-----------------------------------------------------------------------------
(* backend.score. *)

LEMMA UnitFacts ==
  ASSUME NEW u \in Unit
  PROVE  /\ u[1] \in Request /\ u[2] \in 0 .. MaxWork /\ u[2] \in Nat /\ u = <<u[1], u[2]>>
         /\ u[2] = 0 => u = Own(u[1])
         /\ u[2] # 0 => u \in Calls(u[1]) /\ u[2] \in Item /\ u # Own(u[1])
         /\ u \in UnitsOf({u[1]})
BY ServiceAssumption DEF Unit, Own, Calls, Item, UnitsOf

\* How a call goes on: it does not end well when it is cut, and it is sent
\* exactly when it gets its slot.
Proceeds(u, s) ==
    /\ unit[u] \in {"new", "gate", "http"}
    /\ s \in Answers \union {"gate", "http"}
    /\ s = "ok" => unit[u] = "http" /\ Cuts(u) = {}
    /\ s = "gate" => unit[u] = "new"
    /\ \/ s # "http" /\ UNCHANGED sent
       \/ s = "http" /\ unit[u] # "http" /\ Post(u)

LEMMA SentOnce ==
  ASSUME NEW u \in Unit, NEW s, Proceeds(u, s), NEW before \in Times(unit[u]), NEW after,
         after = IF s = "http" THEN before + 1 ELSE before
  PROVE  after \in Times(s) /\ after <= 1
<1>1. CASE unit[u] = "new" \/ unit[u] = "gate"
  <2>1. before = 0
    BY <1>1 DEF Times
  <2> QED BY <1>1, <2>1 DEF Times, Proceeds, Answers
<1>2. CASE unit[u] = "http"
  <2>1. before = 1
    BY <1>2 DEF Times
  <2> QED BY <1>2, <2>1 DEF Times, Proceeds, Answers
<1> QED BY <1>1, <1>2 DEF Proceeds

\* The HTTP calls made for each item after a step of call u of r.
LEMMA CallCounted ==
  ASSUME IInv, NEW u \in Unit, HasLoop(u), NEW s, Becomes(u, s), Proceeds(u, s),
         NEW r \in Request, r = u[1], req' = req, stage' = stage
  PROVE  /\ Counted(r)' /\ sent' \in [Request -> [Item -> Nat]]
         /\ \A q \in Request \ {r} : sent'[q] = sent[q]
<1> DEFINE n == req[r].scored
           w == req[r].job.work
           i == IF u[2] = 0 THEN n + 1 ELSE u[2]
<1>1. /\ ServiceTypes /\ Local(r) /\ u = <<r, u[2]>> /\ u[2] \in 0 .. MaxWork
      /\ n \in Nat /\ unit[u] \in {"new", "gate", "http"} /\ r # None
  BY UnitFacts, ServiceAssumption DEF IInv, ServiceTypes, Coroutine, Proceeds
<1>2. /\ unit' = [unit EXCEPT ![u] = s]
      /\ \A v \in Unit : v # u => unit'[v] = unit[v]
      /\ unit'[u] = s
  BY <1>1 DEF Becomes, ServiceTypes
<1>3. CASE u[2] = 0
  <2>1. u = Own(r) /\ req[r].pc = "inline" /\ n < w /\ w \in 0 .. MaxWork /\ w \in Nat
    BY <1>1, <1>3, ServiceAssumption DEF Own, Local, OwnCall, Counted, Placed, Blank
  <2>2. n + 1 \in Item /\ i = n + 1
    BY <1>1, <1>3, <2>1, ServiceAssumption DEF Item
  <2>3. /\ \A k \in Item : /\ sent[r][k] <= 1
                           /\ k <= n => sent[r][k] = 1
                           /\ k > n + 1 => sent[r][k] = 0
        /\ sent[r][n + 1] \in Times(unit[u])
        /\ stage[r] = "leading" => n = 0 /\ w > 1
    BY <1>1, <2>1 DEF Local, Counted
  <2>4. /\ sent' \in [Request -> [Item -> Nat]]
        /\ \A q \in Request \ {r} : sent'[q] = sent[q]
        /\ \A k \in Item : k # n + 1 => sent'[r][k] = sent[r][k]
        /\ sent'[r][n + 1] = IF s = "http" THEN sent[r][n + 1] + 1 ELSE sent[r][n + 1]
    <3>1. CASE s = "http"
      <4>1. sent' = [sent EXCEPT ![r][n + 1] = @ + 1]
        BY <1>1, <1>3, <3>1 DEF Proceeds, Post
      <4> HIDE DEF n
      <4> QED BY <1>1, <2>2, <3>1, <4>1 DEF ServiceTypes
    <3>2. CASE s # "http"
      BY <1>1, <3>2 DEF Proceeds, ServiceTypes
    <3> QED BY <3>1, <3>2
  <2>5. sent'[r][n + 1] \in Times(s) /\ sent'[r][n + 1] <= 1
    <3>1. Proceeds(u, s) /\ u \in Unit
      OBVIOUS
    <3>2. sent[r][n + 1] \in Times(unit[u])
      BY <2>3
    <3>3. sent'[r][n + 1] = IF s = "http" THEN sent[r][n + 1] + 1 ELSE sent[r][n + 1]
      BY <2>4
    <3> HIDE DEF n
    <3> QED BY <3>1, <3>2, <3>3, SentOnce
  <2>6. \A k \in Item : /\ sent'[r][k] <= 1
                        /\ k <= n => sent'[r][k] = 1
                        /\ k > n + 1 => sent'[r][k] = 0
    BY <1>1, <2>2, <2>3, <2>4, <2>5 DEF Item
  <2> HIDE DEF n, w, i
  <2>7. req'[r].pc = "inline" /\ req'[r].scored = n /\ req'[r].job.work = w /\ unit'[Own(r)] = s /\ stage' = stage
    BY <1>2, <2>1, SMTT(40) DEF n, w
  <2>8. Counted(r)'
    BY <2>1, <2>3, <2>5, <2>6, <2>7 DEF Counted, Blank
  <2> QED BY <2>4, <2>8
<1>4. CASE u[2] # 0
  <2>1. /\ u \in Calls(r) /\ u[2] \in Item /\ req[r].pc \in {"gather", "drain"}
        /\ u[2] \in Nat
    <3>1. u \in Calls(r) /\ u[2] \in Item /\ u[2] \in Nat
      <4>1. u \in Calls(u[1]) /\ u[2] \in Item /\ u[2] \in Nat
        BY <1>4, UnitFacts
      <4>2. r = u[1]
        OBVIOUS
      <4> HIDE DEF i
      <4> QED BY <4>1, <4>2, Zenon
    <3>2. unit[u] \notin Answers \union {"none"}
      BY <1>1 DEF Answers
    <3>3. unit[u] # "none" => req[r].pc \in {"gather", "drain", "unwind"}
      BY <1>1, <3>1 DEF Local, Gathered
    <3>4. req[r].pc = "unwind" => unit[u] \in Answers \union {"none"}
      BY <1>1, <3>1 DEF Local, Gathered
    <3>5. unit[u] # "none"
      BY <3>2
    <3>6. req[r].pc \in {"gather", "drain"}
      BY <3>2, <3>3, <3>4, <3>5
    <3> QED BY <3>1, <3>6
  <2>2. /\ \A k \in Item : /\ sent[r][k] <= 1
                           /\ k <= n => sent[r][k] = 1
                           /\ k > n /\ k <= w => unit[<<r, k>>] # "none"
                           /\ k > n => sent[r][k] \in Times(unit[<<r, k>>])
                           /\ k <= n \/ k > w => unit[<<r, k>>] = "none"
        /\ stage[r] # "leading"
        /\ req[r].pc = "drain" => req[r].raising # "none"
    BY <1>1, <2>1 DEF Local, Counted, Placed
  <2>3. u[2] > n /\ ~(u[2] > w) /\ sent[r][u[2]] \in Times(unit[u])
    <3>1. unit[<<r, u[2]>>] # "none"
      BY <1>1
    <3>2. ~(u[2] <= n) /\ ~(u[2] > w)
      BY <2>1, <2>2, <3>1
    <3> QED BY <1>1, <2>1, <2>2, <3>2
  <2>4. /\ sent' \in [Request -> [Item -> Nat]]
        /\ \A q \in Request \ {r} : sent'[q] = sent[q]
        /\ \A k \in Item : k # u[2] => sent'[r][k] = sent[r][k]
        /\ sent'[r][u[2]] = IF s = "http" THEN sent[r][u[2]] + 1 ELSE sent[r][u[2]]
    <3>1. CASE s = "http"
      <4>1. sent' = [sent EXCEPT ![r][u[2]] = @ + 1]
        BY <1>1, <1>4, <3>1 DEF Proceeds, Post
      <4> QED BY <1>1, <2>1, <3>1, <4>1 DEF ServiceTypes
    <3>2. CASE s # "http"
      BY <1>1, <3>2 DEF Proceeds, ServiceTypes
    <3> QED BY <3>1, <3>2
  <2>5. sent'[r][u[2]] \in Times(s) /\ sent'[r][u[2]] <= 1
    BY <1>1, <2>3, <2>4, SentOnce, SMTT(40)
  <2>6. \A k \in Item : k # u[2] => unit'[<<r, k>>] = unit[<<r, k>>]
    <3>1. \A k \in Item : <<r, k>> \in Unit /\ (k # u[2] => <<r, k>> # u)
      BY <1>1 DEF Unit, Item
    <3> QED BY <1>2, <3>1
  <2>7. unit'[<<r, u[2]>>] = s /\ s # "none"
    BY <1>1, <1>2 DEF Proceeds, Answers
  <2>8. \A k \in Item : /\ sent'[r][k] <= 1
                        /\ k <= n => sent'[r][k] = 1
                        /\ k > n /\ k <= w => unit'[<<r, k>>] # "none"
                        /\ k > n => sent'[r][k] \in Times(unit'[<<r, k>>])
                        /\ k <= n \/ k > w => unit'[<<r, k>>] = "none"
    <3>1. ASSUME NEW k \in Item, k # u[2]
          PROVE  /\ sent'[r][k] <= 1
                 /\ k <= n => sent'[r][k] = 1
                 /\ k > n /\ k <= w => unit'[<<r, k>>] # "none"
                 /\ k > n => sent'[r][k] \in Times(unit'[<<r, k>>])
                 /\ k <= n \/ k > w => unit'[<<r, k>>] = "none"
      BY <2>2, <2>4, <2>6, <3>1
    <3>2. ~(u[2] <= n)
      BY <1>1, <2>1, <2>3
    <3> QED BY <2>3, <2>5, <2>7, <3>1, <3>2
  <2> HIDE DEF n, w, i
  <2>9. /\ req'[r].pc = req[r].pc /\ req'[r].scored = n /\ req'[r].job.work = w /\ stage' = stage
        /\ req'[r].raising = req[r].raising
    BY DEF n, w
  <2>10. Counted(r)'
    BY <2>1, <2>2, <2>8, <2>9 DEF Counted, Blank
  <2> QED BY <2>4, <2>10
<1> QED BY <1>3, <1>4

\* A step of call u of r: nothing else of the service moves.
LEMMA CallStep ==
  ASSUME IInv, NEW u \in Unit, HasLoop(u), NEW s, Becomes(u, s), Proceeds(u, s),
         SP!IInv', \A v \in Unit \ {u} : StillWaits(slot[v], slot'[v]),
         s = "gate" <=> slot'[u] \in Stalled, s = "http" <=> slot'[u] = "holding",
         UNCHANGED <<req, ucut, tasks, closer, admissionVars, primerVars>>
  PROVE  IInv'
<1>1. PICK r \in Request : r = u[1]
  BY UnitFacts
<1>2. /\ ServiceTypes /\ Local(r) /\ u \in UnitsOf({r}) /\ u = <<r, u[2]>> /\ r # None
      /\ unit[u] \in {"new", "gate", "http"} /\ s \in Answers \union {"gate", "http"}
      /\ stage' = stage /\ at' = at /\ req' = req /\ tasks' = tasks /\ closer' = closer /\ ucut' = ucut
  BY <1>1, UnitFacts, ServiceAssumption DEF IInv, Proceeds, primerVars, admissionVars
<1>3. /\ unit' = [unit EXCEPT ![u] = s]
      /\ \A v \in Unit : v # u => unit'[v] = unit[v]
      /\ unit'[u] = s
      /\ run' = IF u[2] = 0 /\ s \in Answers THEN r ELSE None
  BY <1>1, <1>2 DEF Becomes, ServiceTypes
<1>4. /\ Counted(r)' /\ sent' \in [Request -> [Item -> Nat]]
      /\ \A q \in Request \ {r} : sent'[q] = sent[q]
  BY <1>1, <1>2, CallCounted
<1>5. AP!IInv'
  BY GatesIdle DEF IInv
<1>6. ServiceTypes'
  BY <1>2, <1>3, <1>4 DEF ServiceTypes, Answers
<1>7. run \in {None, r} /\ run' \in {None, r}
  BY <1>1, <1>3 DEF HasLoop
<1>8. \A q \in Request \ {r} : Untouched(q)
  <2>1. \A v \in Unit \ UnitsOf({r}) : v # u
    BY <1>2
  <2> QED BY <1>2, <1>3, <1>4, <1>7, <2>1, OthersUntouched DEF StillWaits, StillQueues
<1>9. Placed(r)'
  BY <1>2 DEF Local, Placed
<1>10. Slotted(r)'
  <2>1. UnitsOf({r}) \subseteq Unit
    BY DEF UnitsOf, Unit
  <2>2. ASSUME NEW v \in UnitsOf({r}), v # u
        PROVE  (unit'[v] = "gate" <=> slot'[v] \in Stalled) /\ (unit'[v] = "http" <=> slot'[v] = "holding")
    BY <1>2, <1>3, <2>1, <2>2 DEF Local, Slotted, StillWaits, Stalled
  <2> QED BY <1>3, <2>2 DEF Slotted
<1>11. CASE u[2] = 0
  <2>1. u = Own(r) /\ Own(r) \notin Calls(r) /\ Calls(r) \subseteq Unit
    BY <1>2, <1>11, ServiceAssumption DEF Own, Calls, Item, Unit
  <2>2. OwnCall(r) /\ Gathered(r)
    BY <1>2 DEF Local
  <2>3. req[r].pc = "inline"
    BY <1>2, <2>1, <2>2 DEF OwnCall
  <2>4. s # "none" /\ s # "new" /\ (s = "ok" => req[r].cut = {})
    BY <1>1, <1>2, <1>11 DEF Proceeds, Cuts, Answers
  <2>5. OwnCall(r)'
    <3>1. unit'[Own(r)] = s /\ req'[r] = req[r] /\ (run' = r <=> s \in Answers)
      BY <1>2, <1>3, <1>11, <2>1
    <3> QED BY <2>3, <2>4, <3>1 DEF OwnCall
  <2>6. Gathered(r)'
    BY <1>2, <1>3, <2>1, <2>2 DEF Gathered
  <2> QED BY <1>2, <1>4, <1>5, <1>6, <1>8, <1>9, <1>10, <2>5, <2>6, OneMoves DEF Local
<1>12. CASE u[2] # 0
  <2>1. u # Own(r) /\ u \in Calls(r) /\ Own(r) \in Unit /\ Calls(r) \subseteq Unit
    BY <1>1, <1>12, UnitFacts, ServiceAssumption DEF Own, Calls, Item, Unit
  <2>2. OwnCall(r) /\ Gathered(r)
    BY <1>2 DEF Local
  <2>3. unit[u] \notin Answers \union {"none"}
    BY <1>2 DEF Answers
  <2>4. req[r].pc \in {"gather", "drain", "unwind"}
    BY <2>1, <2>2, <2>3 DEF Gathered
  <2>5. req[r].pc # "unwind"
    BY <2>1, <2>2, <2>3 DEF Gathered
  <2>6. (req[r].pc = "gather" /\ req[r].cut # {}) \/ req[r].pc = "drain" => "cancel" \in ucut[u]
    BY <2>1, <2>2, <2>3 DEF Gathered
  <2>7. run = None /\ run' = None
    BY <1>3, <1>12 DEF HasLoop
  <2>8. OwnCall(r)'
    BY <1>2, <1>3, <2>1, <2>2, <2>4, <2>5, <2>7 DEF OwnCall
  <2>9. Gathered(r)'
    <3>1. ASSUME NEW v \in Calls(r), v # u
          PROVE  /\ unit'[v] = unit[v]
                 /\ unit[v] # "none" => req[r].pc \in {"gather", "drain", "unwind"}
                 /\ (req[r].pc = "gather" /\ req[r].cut # {}) \/ req[r].pc = "drain" =>
                       unit[v] \in Answers \union {"none"} \/ "cancel" \in ucut[v]
      BY <1>3, <2>1, <2>2, <3>1 DEF Gathered
    <3> QED BY <1>2, <2>4, <2>5, <2>6, <3>1 DEF Gathered
  <2> QED BY <1>2, <1>4, <1>5, <1>6, <1>8, <1>9, <1>10, <2>8, <2>9, OneMoves DEF Local
<1> QED BY <1>11, <1>12

LEMMA CallRunsInv == ASSUME IInv, NEW u \in Unit, CallRuns(u) PROVE IInv'
<1>1. /\ ServiceTypes /\ SP!IInv /\ HasLoop(u) /\ u[1] \in Request /\ u \in UnitsOf({u[1]})
      /\ UNCHANGED <<req, ucut, tasks, closer, admissionVars, primerVars>>
  BY UnitFacts DEF IInv, CallRuns
<1>2. (unit[u] = "gate" <=> slot[u] \in Stalled) /\ (unit[u] = "http" <=> slot[u] = "holding")
  BY <1>1 DEF IInv, Local, Slotted
<1>3. CASE CallStarts(u) /\ Scoring!Enter(u)
  <2>1. Becomes(u, "http") /\ Post(u)
    BY <1>1, <1>3
    DEF CallStarts, Scoring!Enter, Scoring!Enqueue, Scoring!Reject, Scoring!CanEnter, Scoring!IsFull
  <2>2. ScoringMoves(u, {"out"}, "holding")
    BY <1>1, <1>3, ScoringSteps
  <2>3. Proceeds(u, "http")
    BY <1>3, <2>1 DEF CallStarts, Proceeds
  <2> QED BY <1>1, <2>1, <2>2, <2>3, CallStep DEF ScoringMoves, Stalled
<1>4. CASE CallStarts(u) /\ Scoring!Enqueue(u) /\ Becomes(u, "gate") /\ UNCHANGED sent
  <2>1. ScoringMoves(u, {"out"}, "pending")
    BY <1>1, <1>4, ScoringSteps
  <2>2. Proceeds(u, "gate")
    BY <1>4 DEF CallStarts, Proceeds
  <2> QED BY <1>1, <1>4, <2>1, <2>2, CallStep DEF ScoringMoves, Stalled
<1>5. CASE /\ unit[u] = "new" /\ UNCHANGED <<sent, scoringVars>>
           /\ Becomes(u, "busy") \/ Becomes(u, "cancelled")
  <2>1. SP!IInv' /\ slot' = slot /\ \A v \in Unit \ {u} : StillWaits(slot[v], slot'[v])
    BY <1>1, <1>5, GatesIdle DEF scoringVars
  <2>2. Proceeds(u, "busy") /\ Proceeds(u, "cancelled")
    BY <1>5 DEF Proceeds, Answers
  <2> QED BY <1>1, <1>2, <1>5, <2>1, <2>2, CallStep
<1>6. CASE CallAdmitted(u)
  <2>1. ScoringMoves(u, {"granted"}, "holding")
    BY <1>1, <1>6, ScoringSteps DEF CallAdmitted
  <2>2. Proceeds(u, "http") /\ Becomes(u, "http")
    BY <1>6 DEF CallAdmitted, Proceeds
  <2> QED BY <1>1, <2>1, <2>2, CallStep DEF ScoringMoves, Stalled
<1>7. CASE CallTurnedAway(u)
  <2>1. ScoringMoves(u, {"granted", "cancelled"}, "out")
    BY <1>1, <1>7, ScoringSteps DEF CallTurnedAway
  <2>2. PICK s \in {"busy", "cancelled"} : Becomes(u, s)
    BY <1>7 DEF CallTurnedAway
  <2>3. Proceeds(u, s)
    BY <1>7 DEF CallTurnedAway, Proceeds, Answers
  <2> QED BY <1>1, <2>1, <2>2, <2>3, CallStep DEF ScoringMoves, Stalled
<1>8. CASE CallCut(u)
  <2>1. ScoringMoves(u, {"holding"}, "out")
    BY <1>1, <1>8, ScoringSteps DEF CallCut
  <2>2. Becomes(u, "cancelled") /\ Proceeds(u, "cancelled")
    BY <1>8 DEF CallCut, Proceeds, Answers
  <2> QED BY <1>1, <2>1, <2>2, CallStep DEF ScoringMoves, Stalled
<1>9. CASE CallStarts(u) /\ Scoring!Reject(u) /\ Becomes(u, "busy") /\ UNCHANGED sent
  BY <1>5, <1>9 DEF CallStarts, Scoring!Reject, Scoring!gateVars, scoringVars
<1> QED BY <1>3, <1>4, <1>5, <1>6, <1>7, <1>8, <1>9 DEF CallRuns, CallStarts, CallNeverStarts

LEMMA EngineAnswersInv == ASSUME IInv, NEW u \in Unit, EngineAnswers(u) PROVE IInv'
<1>1. /\ SP!IInv /\ HasLoop(u)
      /\ UNCHANGED <<req, ucut, tasks, closer, admissionVars, primerVars>>
  BY DEF IInv, EngineAnswers
<1>2. ScoringMoves(u, {"holding"}, "out")
  BY <1>1, ScoringSteps DEF EngineAnswers, CallAnswered
<1>3. PICK s \in {"ok", "busy", "error"} : Becomes(u, s)
  BY DEF EngineAnswers, CallAnswered
<1>4. Proceeds(u, s)
  BY DEF EngineAnswers, CallAnswered, Proceeds, Answers
<1> QED BY <1>1, <1>2, <1>3, <1>4, CallStep DEF ScoringMoves, Stalled

LEMMA InitInv == Init => IInv
<1> SUFFICES ASSUME Init PROVE IInv
  OBVIOUS
<1>1. AP!IInv
  BY GatesAssumed, AP!InitInv
  DEF Init, Fresh, CutInClassGate, AP!Init, AP!GateInit, Admission!GateInit
<1>2. SP!IInv
  BY GatesAssumed, SP!InitInv
  DEF Init, CutInScoringGate, SP!Init, SP!GateInit, Scoring!GateInit
<1>3. ServiceTypes
  BY DEF Init, ServiceTypes, Coroutine, Fresh, Blank, ClosePhase, Primer!PrimerInit
<1>4. ASSUME NEW r \in Request PROVE Local(r)
  <2>1. /\ req[r] = Fresh /\ run # r /\ r \notin tasks /\ closer = "no"
        /\ at[r] = "out" /\ stage[r] = "out" /\ \A i \in Item : sent[r][i] = 0
    BY <1>4, ServiceAssumption DEF Init, Admission!GateInit, Primer!PrimerInit
  <2>2. UnitsOf({r}) \subseteq Unit /\ Own(r) \in UnitsOf({r}) /\ Calls(r) \subseteq UnitsOf({r})
        /\ \A i \in Item : <<r, i>> \in UnitsOf({r})
    BY <1>4, ServiceAssumption DEF Own, UnitsOf, Item, Calls, Unit
  <2>3. \A u \in UnitsOf({r}) : unit[u] = "none" /\ slot[u] = "out"
    BY <2>2 DEF Init, Scoring!GateInit
  <2>4. Placed(r)
    BY <2>1 DEF Placed, Blank, Fresh, Inside, Stalled, Queueing
  <2>5. OwnCall(r)
    BY <2>1, <2>2, <2>3 DEF OwnCall, Fresh, Answers
  <2>6. Gathered(r)
    BY <2>1, <2>2, <2>3 DEF Gathered, Fresh
  <2>7. Slotted(r)
    BY <2>3 DEF Slotted, Stalled
  <2>8. Counted(r)
    BY <2>1 DEF Counted, Fresh, Blank
  <2> QED BY <2>4, <2>5, <2>6, <2>7, <2>8 DEF Local
<1> QED BY <1>1, <1>2, <1>3, <1>4 DEF IInv

LEMMA NextInv == IInv /\ [Next]_vars => IInv'
<1> SUFFICES ASSUME IInv, [Next]_vars PROVE IInv'
  OBVIOUS
<1>1. ASSUME NEW r \in Request,
             Arrive(r) \/ Refuse(r) \/ Turn(r) \/ Compiled(r) \/ QueueTimer(r) \/ Deadline(r) \/ Disconnect(r)
      PROVE  IInv'
  <2>1. CASE Turn(r)
    BY <2>1, AdmittedInv, NotAdmittedInv, UnwindInv, CompileCutInv, PrimeResumesInv, PrimeCutInv,
       InlineReturnsInv, SpreadInv, GatherReturnsInv, GatherRaisesInv, DrainedInv DEF Turn
  <2> QED BY <1>1, <2>1, ArriveInv, RefuseInv, CompiledInv, CutShortInv
          DEF QueueTimer, Deadline, Disconnect
<1>2. ASSUME NEW u \in Unit, CallRuns(u) \/ EngineAnswers(u) \/ ChildQueueTimer(u)
      PROVE  IInv'
  BY <1>2, CallRunsInv, EngineAnswersInv, ChildQueueTimerInv
<1>3. ASSUME NEW k \in Key, HintExpires(k)
      PROVE  IInv'
  <2>1. stage' = stage
    BY <1>3, PrimerIdle DEF HintExpires, IInv, ServiceTypes
  <2>2. closer' = closer /\ closer \in ClosePhase
    BY <1>3 DEF HintExpires, taskVars, IInv, ServiceTypes
  <2> QED BY <1>3, <2>1, <2>2, QuietInv DEF HintExpires, taskVars
<1>4. CASE CloseEnds
  <2>1. stage' = stage
    BY <1>4 DEF CloseEnds, primerVars
  <2> QED BY <1>4, <2>1, QuietInv DEF CloseEnds, ClosePhase
<1>5. CASE UNCHANGED vars
  <2>1. stage' = stage /\ closer' = closer /\ closer \in ClosePhase
    BY <1>5 DEF vars, primerVars, taskVars, IInv, ServiceTypes
  <2> QED BY <1>5, <2>1, QuietInv DEF vars, taskVars
<1> QED BY <1>1, <1>2, <1>3, <1>4, <1>5, CloseInv DEF Next, Terminated

LEMMA Invariance == Spec => []IInv
BY InitInv, NextInv, PTL DEF Spec

-----------------------------------------------------------------------------
\* Whoever is nowhere in a gate is out of it.
LEMMA PlacesKnown ==
  ASSUME IInv
  PROVE  /\ \A r \in Request : at[r] \notin Stalled /\ at[r] # "holding" => at[r] = "out"
         /\ \A u \in Unit : slot[u] \notin Stalled /\ slot[u] # "holding" => slot[u] = "out"
BY DEF IInv, AP!IInv, SP!IInv, AP!GateTypeOK, SP!GateTypeOK, AP!Place, SP!Place, Stalled

\* A request that is over has left nothing behind: no gathered task, no place
\* in a gate or in the primer, no entry in self._tasks, wherever it was
\* stopped (service.py:97-107, scheduler.py:61-76).
THEOREM NothingStays == Spec => []NothingLeftBehind
<1>1. ASSUME IInv, NEW r \in Request, req[r].pc = "done"
      PROVE  /\ r \notin tasks /\ at[r] = "out" /\ ~Primer!InPrime(r)
             /\ \A u \in UnitsOf({r}) : unit[u] = "none" /\ slot[u] = "out"
  <2>1. Placed(r) /\ Slotted(r)
    BY <1>1 DEF IInv, Local
  <2>2. r \notin tasks /\ at[r] \notin Stalled /\ at[r] # "holding"
    BY <1>1, <2>1 DEF Placed, Blank, Inside
  <2>3. (\A u \in UnitsOf({r}) : unit[u] = "none") /\ stage[r] = "out"
    BY <1>1, Outside DEF Blank
  <2>4. ASSUME NEW u \in UnitsOf({r}) PROVE slot[u] = "out"
    <3>1. u \in Unit
      BY DEF UnitsOf, Unit
    <3> QED BY <1>1, <2>1, <2>3, <3>1, PlacesKnown DEF Slotted
  <2> QED BY <1>1, <2>2, <2>3, <2>4, PlacesKnown DEF Primer!InPrime
<1>2. IInv => NothingLeftBehind
  BY <1>1 DEF NothingLeftBehind
<1> QED BY <1>2, Invariance, PTL

\* No item is ever sent twice, and a request that is about to return a result
\* has sent each of its items exactly once, whether it primed, ran serially
\* or fanned out (service.py:165-180).
THEOREM EveryItemOnce == Spec => []ScoredExactlyOnce
<1>1. ASSUME IInv, NEW r \in Request
      PROVE  /\ \A i \in Item : sent[r][i] <= 1
             /\ req[r].pc = "unwind" /\ req[r].raising = "none" =>
                   \A i \in 1 .. req[r].job.work : sent[r][i] = 1
  <2>1. Placed(r) /\ Counted(r)
    BY <1>1 DEF IInv, Local
  <2>2. ASSUME req[r].pc = "unwind", req[r].raising = "none", NEW i \in 1 .. req[r].job.work
        PROVE  sent[r][i] = 1
    <3>1. req[r].job.work \in 0 .. MaxWork
      BY <2>1, <2>2, ServiceAssumption DEF Placed, Blank
    <3>2. i \in Item /\ i <= req[r].job.work
      BY <3>1, ServiceAssumption DEF Item
    <3> QED BY <2>1, <2>2, <3>2 DEF Counted
  <2> QED BY <2>1, <2>2 DEF Counted
<1>2. IInv => ScoredExactlyOnce
  BY <1>1 DEF ScoredExactlyOnce
<1> QED BY <1>2, Invariance, PTL

-----------------------------------------------------------------------------
(* The service implements ServiceLife. *)

SameView(s) == /\ s \in tasks' <=> s \in tasks
               /\ req'[s].pc = "idle" <=> req[s].pc = "idle"
               /\ req'[s].cut = {} <=> req[s].cut = {}
SameCalls == \A u \in Unit : unit'[u] = "http" <=> unit[u] = "http"

\* What ServiceLife sees of a step, one lemma per kind of step.
LEMMA LifeStutters ==
  ASSUME \A s \in Request : SameView(s), SameCalls,
         closer' = closer \/ (closer = "draining" /\ closer' = "cut")
  PROVE  UNCHANGED Life!serviceVars
BY DEF SameView, SameCalls, Life!serviceVars

LEMMA LifeEnters ==
  ASSUME NEW r \in Request, r \notin tasks, r \in tasks', req[r].pc = "idle",
         req'[r].cut = {} <=> req[r].cut = {}, \A s \in Request \ {r} : SameView(s),
         SameCalls, closer = "no", closer' = closer
  PROVE  Life!Enter(r)
BY DEF SameView, SameCalls, Life!Enter, Life!Moves

LEMMA LifeTurnsAway ==
  ASSUME NEW r \in Request, r \notin tasks, r \notin tasks', req[r].pc = "idle", req'[r].pc # "idle",
         req'[r].cut = {} <=> req[r].cut = {}, \A s \in Request \ {r} : SameView(s),
         SameCalls, closer' = closer
  PROVE  Life!TurnAway(r)
BY DEF SameView, SameCalls, Life!TurnAway, Life!Moves

LEMMA LifeLeaves ==
  ASSUME NEW r \in Request, r \in tasks, r \notin tasks', req'[r].pc # "idle", req'[r].cut = {},
         \A s \in Request \ {r} : SameView(s), \A u \in UnitsOf({r}) : unit[u] # "http",
         SameCalls, closer' = closer
  PROVE  Life!Leave(r)
<1>1. \A u \in Unit : u[1] = r => u \in UnitsOf({r})
  BY DEF Unit, UnitsOf
<1> QED BY <1>1 DEF SameView, SameCalls, Life!Leave, Life!Moves, Life!CallsOf

LEMMA LifeCuts ==
  ASSUME NEW r \in Request, r \in tasks, tasks' = tasks, req'[r].cut # {}, req'[r].pc # "idle",
         \A s \in Request \ {r} : SameView(s), SameCalls, closer' = closer
  PROVE  Life!CutRequest(r)
BY DEF SameView, SameCalls, Life!CutRequest, Life!Inside

LEMMA LifeCloses ==
  ASSUME IInv, closer = "no", closer' = "draining", tasks' = tasks, SameCalls,
         \A s \in Request : req'[s].pc = "idle" <=> req[s].pc = "idle",
         \A s \in Request : req'[s].cut = {} <=> req[s].cut = {} /\ s \notin tasks
  PROVE  Life!BeginClose
BY DEF SameCalls, Life!BeginClose, Life!Inside, IInv, ServiceTypes

LEMMA SameCardinality == \A S : Life!Cardinality(S) = Cardinality(S)
BY DEF Life!Cardinality, Cardinality, Life!IsFiniteSet, IsFiniteSet

\* A call has its slot while it is in flight, so one more than those in
\* flight is at most the number of slots.
LEMMA LifePosts ==
  ASSUME IInv, IInv', NEW u \in Unit, unit[u] # "http", unit'[u] = "http",
         \A v \in Unit \ {u} : unit'[v] = "http" <=> unit[v] = "http",
         u[1] \in tasks, req[u[1]].cut = {}, UNCHANGED <<req, tasks, closer>>
  PROVE  Life!Post(u)
<1> DEFINE C == {v \in Unit : unit[v] = "http"}
           D == {v \in Unit : unit'[v] = "http"}
<1>1. D = C \union {u} /\ u \notin C
  OBVIOUS
<1>2. D \subseteq SP!Owners'
  <2>1. \A v \in Unit : v[1] \in Request /\ v \in UnitsOf({v[1]})
    BY UnitFacts
  <2>2. \A v \in D : slot'[v] = "holding"
    BY <2>1 DEF IInv, Local, Slotted
  <2> QED BY <2>2 DEF SP!Owners
<1>3. IsFiniteSet(SP!Owners') /\ Cardinality(SP!Owners') <= MaxInFlight
  BY SameOperators DEF IInv, SP!IInv, SP!SlotAccounting, SP!GateTypeOK
<1> HIDE DEF C, D
<1>4. IsFiniteSet(D) /\ Cardinality(D) \in Nat /\ Cardinality(D) <= MaxInFlight
  <2>1. IsFiniteSet(D) /\ Cardinality(D) <= Cardinality(SP!Owners')
    BY <1>2, <1>3, FS_Subset
  <2>2. Cardinality(D) \in Nat /\ Cardinality(SP!Owners') \in Nat
    BY <1>3, <2>1, FS_CardinalityType
  <2> QED BY <1>3, <2>1, <2>2, ServiceAssumption
<1>5. IsFiniteSet(C) /\ Cardinality(D) = Cardinality(C) + 1 /\ Cardinality(C) \in Nat
  <2>1. IsFiniteSet(C)
    BY <1>1, <1>4, FS_Subset
  <2> QED BY <1>1, <2>1, FS_AddElement, FS_CardinalityType
<1>6. Life!Cardinality(C) < MaxInFlight
  BY <1>4, <1>5, SameCardinality, ServiceAssumption
<1>7. u[1] \in Request
  BY UnitFacts
<1> QED BY <1>1, <1>6, <1>7 DEF Life!Post, Life!Inside, C, D

LEMMA LifeEndsCall ==
  ASSUME NEW u \in Unit, unit[u] = "http", unit'[u] # "http",
         \A v \in Unit \ {u} : unit'[v] = "http" <=> unit[v] = "http",
         UNCHANGED <<req, tasks, closer>>
  PROVE  Life!EndCall(u)
BY DEF Life!EndCall


\* A step that gives no slot and takes none leaves the calls in flight.
LEMMA CallsStay ==
  ASSUME IInv, IInv', \A u \in Unit : slot'[u] = "holding" <=> slot[u] = "holding"
  PROVE  SameCalls
<1>1. \A u \in Unit : u[1] \in Request /\ u \in UnitsOf({u[1]})
  BY UnitFacts
<1> QED BY <1>1 DEF SameCalls, IInv, Local, Slotted

\* The task of r goes on inside _run; its cancellations stay what they are.
GoesOn(r) == /\ \A s \in Request \ {r} : req'[s] = req[s]
             /\ req'[r].cut = req[r].cut
             /\ req'[r].pc # "idle"

LEMMA GoingOn ==
  ASSUME IInv, IInv', NEW r \in Request, GoesOn(r), req[r].pc # "idle",
         UNCHANGED <<tasks, closer, scoringVars>>
  PROVE  UNCHANGED Life!serviceVars
<1>1. SameCalls
  BY CallsStay DEF scoringVars
<1>2. \A s \in Request : SameView(s)
  BY DEF SameView, GoesOn
<1> QED BY <1>1, <1>2, LifeStutters

LEMMA MovedGoesOn ==
  ASSUME NEW r \in Request, NEW p \in Inside, NEW e, NEW n, Moved(r, p, e, n)
  PROVE  GoesOn(r)
BY DEF Moved, GoesOn, Inside

LEMMA Goes ==
  ASSUME IInv, NEW r \in Request
  PROVE  /\ \A p \in Inside : Park(r, p) \/ Go(r, p) => GoesOn(r)
         /\ \A e \in {"busy", "error", "cancelled"} : Raise(r, e) \/ AfterGather(r, e) => GoesOn(r)
         /\ CallInline(r) => GoesOn(r)
<1>1. req \in [Request -> Coroutine] /\ req[r].scored \in Nat
  BY DEF IInv, ServiceTypes, Coroutine
<1>2. ASSUME NEW p \in Inside, req' = [req EXCEPT ![r].pc = p] PROVE GoesOn(r)
  BY <1>1, <1>2, Going, MovedGoesOn
<1>3. ASSUME NEW p \in Inside, NEW e \in {"none", "busy", "error", "cancelled"},
             req' = [req EXCEPT ![r].pc = p, ![r].raising = e]
      PROVE  GoesOn(r)
  BY <1>1, <1>3, Raising, MovedGoesOn, Zenon
<1>4. "unwind" \in Inside /\ "drain" \in Inside /\ "inline" \in Inside
  BY DEF Inside
<1> QED BY <1>2, <1>3, <1>4 DEF Park, Go, Raise, AfterGather, CallInline

LEMMA Begins ==
  ASSUME IInv, NEW r \in Request, NEW j \in Jobs, BeginOperation(r, j)
  PROVE  GoesOn(r)
<1>1. req \in [Request -> Coroutine]
  BY DEF IInv, ServiceTypes
<1>2. \A p \in {"compile", "unwind"} :
         /\ [req[r] EXCEPT !.job = j, !.pc = p].cut = req[r].cut
         /\ [req[r] EXCEPT !.job = j, !.pc = p].pc = p
  BY <1>1 DEF Coroutine
<1>3. ASSUME NEW p \in {"compile", "unwind"}, req' = [req EXCEPT ![r].job = j, ![r].pc = p]
      PROVE  GoesOn(r)
  <2>1. req' = [req EXCEPT ![r] = [req[r] EXCEPT !.job = j, !.pc = p]]
    BY <1>3
  <2> DEFINE x == [req[r] EXCEPT !.job = j, !.pc = p]
  <2>2. x.cut = req[r].cut /\ x.pc # "idle"
    BY <1>2
  <2> HIDE DEF x
  <2>3. req' = [req EXCEPT ![r] = x]
    BY <2>1 DEF x
  <2> QED BY <1>1, <2>2, <2>3 DEF GoesOn
<1> QED BY <1>3 DEF BeginOperation

\* The same of a request that arrives and is not refused.
LEMMA ArriveGoesOn ==
  ASSUME IInv, NEW r \in Request, Arrive(r)
  PROVE  \/ GoesOn(r) /\ tasks' = tasks \union {r} /\ UNCHANGED ucut
         \/ End(r, "busy")
<1>1. req \in [Request -> Coroutine]
  BY DEF IInv, ServiceTypes
<1>2. PICK j \in Jobs :
         \/ BeginOperation(r, j) /\ tasks' = tasks \union {r} /\ UNCHANGED ucut
         \/ /\ req' = [req EXCEPT ![r].job = j, ![r].pc = "admission"]
            /\ tasks' = tasks \union {r} /\ UNCHANGED ucut
         \/ End(r, "busy")
  BY DEF Arrive
<1>3. ASSUME req' = [req EXCEPT ![r].job = j, ![r].pc = "admission"] PROVE GoesOn(r)
  <2> DEFINE x == [req[r] EXCEPT !.job = j, !.pc = "admission"]
  <2>1. x.cut = req[r].cut /\ x.pc # "idle"
    BY <1>1 DEF Coroutine
  <2>2. req' = [req EXCEPT ![r] = x]
    BY <1>3
  <2> HIDE DEF x
  <2> QED BY <1>1, <2>1, <2>2 DEF GoesOn
<1> QED BY <1>2, <1>3, Begins

LEMMA EndFacts ==
  ASSUME IInv, NEW r \in Request, NEW how, End(r, how)
  PROVE  /\ \A s \in Request \ {r} : req'[s] = req[s]
         /\ req'[r].pc = "done" /\ req'[r].cut = {}
<1>1. req \in [Request -> Coroutine]
  BY DEF IInv, ServiceTypes
<1>2. [Fresh EXCEPT !.pc = "done", !.outcome = how].pc = "done"
      /\ [Fresh EXCEPT !.pc = "done", !.outcome = how].cut = {}
  BY DEF Fresh
<1>3. req' = [req EXCEPT ![r] = [Fresh EXCEPT !.pc = "done", !.outcome = how]]
  BY DEF End
<1> QED BY <1>1, <1>2, <1>3

\* What ServiceLife sees of a request whose _run is over.
LEMMA EndView ==
  ASSUME IInv, IInv', NEW r \in Request, NEW how, End(r, how), UNCHANGED scoringVars
  PROVE  /\ \A s \in Request \ {r} : SameView(s)
         /\ r \notin tasks' /\ req'[r].pc # "idle" /\ req'[r].cut = {}
         /\ SameCalls
<1>1. tasks' = tasks \ {r}
  BY DEF End
<1>2. SameCalls
  BY CallsStay DEF scoringVars
<1> QED BY <1>1, <1>2, EndFacts DEF SameView

LEMMA ArriveLives ==
  ASSUME IInv, IInv', NEW r \in Request, Arrive(r) \/ Refuse(r)
  PROVE  Life!Enter(r) \/ Life!TurnAway(r)
<1>1. /\ req[r].pc = "idle" /\ req[r].cut = {} /\ r \notin tasks
      /\ closer' = closer /\ UNCHANGED scoringVars
  BY DEF Arrive, Refuse, Resumed, IInv, Local, Placed, Blank
<1>2. ASSUME End(r, "busy") PROVE Life!TurnAway(r)
  BY <1>1, <1>2, EndView, LifeTurnsAway
<1>3. ASSUME Arrive(r), tasks' = tasks \union {r}, GoesOn(r) PROVE Life!Enter(r)
  <2>1. SameCalls
    BY <1>1, CallsStay DEF scoringVars
  <2>2. \A s \in Request \ {r} : SameView(s)
    BY <1>3 DEF SameView, GoesOn
  <2>3. r \in tasks' /\ req'[r].cut = req[r].cut /\ closer = "no"
    BY <1>3 DEF GoesOn, Arrive
  <2> QED BY <1>1, <2>1, <2>2, <2>3, LifeEnters
<1> QED BY <1>2, <1>3, ArriveGoesOn DEF Refuse

LEMMA EndLives ==
  ASSUME IInv, IInv', NEW r \in Request, NotAdmitted(r) \/ Unwind(r)
  PROVE  Life!Leave(r)
<1>1. PICK how : End(r, how)
  BY DEF NotAdmitted, Unwind
<1>2. /\ req[r].pc \in {"admission", "unwind"} /\ closer' = closer /\ UNCHANGED scoringVars
  BY DEF NotAdmitted, Unwind, Cancelled
<1>3. r \in tasks
  BY <1>2 DEF IInv, Local, Placed, Blank
<1>4. \A u \in UnitsOf({r}) : unit[u] # "http"
  BY <1>2, Outside DEF Answers
<1> QED BY <1>1, <1>2, <1>3, <1>4, EndView, LifeLeaves

\* What a task does by itself between arrival and end leaves it cut or not.
LEMMA TurnGoesOn ==
  ASSUME IInv, NEW r \in Request,
         \/ Admitted(r) \/ Compiled(r) \/ CompileCut(r) \/ PrimeResumes(r) \/ PrimeCut(r)
         \/ InlineReturns(r) \/ Spread(r) \/ GatherReturns(r) \/ GatherRaises(r) \/ Drained(r)
  PROVE  GoesOn(r)
<1>1. req \in [Request -> Coroutine]
  BY DEF IInv, ServiceTypes
<1>2. "compile" \in Inside /\ "prime" \in Inside /\ "spread" \in Inside /\ "gather" \in Inside
      /\ "unwind" \in Inside /\ "inline" \in Inside
  BY DEF Inside
<1>3. CASE Admitted(r)
  <2>1. req[r].job \in Jobs
    BY <1>3 DEF Admitted, Resumed, IInv, Local, Placed, Blank
  <2> QED BY <1>3, <2>1, Begins DEF Admitted
<1>4. CASE Compiled(r)
  BY <1>2, <1>4, Goes, Zenon DEF Compiled
<1>5. CASE CompileCut(r) \/ PrimeCut(r)
  BY <1>5, Goes DEF CompileCut, PrimeCut
<1>6. CASE PrimeResumes(r) \/ Spread(r) \/ GatherReturns(r) \/ Drained(r)
  BY <1>2, <1>6, Goes, Zenon DEF PrimeResumes, Spread, GatherReturns, Drained
<1>7. CASE GatherRaises(r)
  <2>1. PICK e \in {"busy", "error", "cancelled"} : AfterGather(r, e)
    BY <1>7 DEF GatherRaises, GatherSees, Failures
  <2> QED BY <2>1, Goes, Zenon
<1>8. CASE InlineReturns(r)
  <2>1. CASE unit[Own(r)] = "ok" /\ LeaderDone(r)
    <3>1. req' = [req EXCEPT ![r].scored = 1, ![r].pc = "spread"] /\ 1 \in Nat
      BY <2>1 DEF LeaderDone
    <3> QED BY <1>1, <1>2, <3>1, ScoringOne, MovedGoesOn, Zenon
  <2>2. CASE unit[Own(r)] = "ok" /\ SerialDone(r)
    <3>1. PICK p \in {"unwind", "inline"} :
             req' = [req EXCEPT ![r].scored = req[r].scored + 1, ![r].pc = p]
      BY <2>2, Zenon DEF SerialDone
    <3>2. p \in Inside /\ req[r].scored + 1 \in Nat
      BY <1>1, <1>2 DEF Coroutine
    <3> QED BY <1>1, <3>1, <3>2, ScoringOne, MovedGoesOn, Zenon
  <2>3. CASE unit[Own(r)] \in Answers \ {"ok"} /\ InlineFails(r)
    <3>1. Raise(r, unit[Own(r)]) /\ unit[Own(r)] \in {"busy", "error", "cancelled"}
      BY <2>3 DEF InlineFails, Answers
    <3> QED BY <3>1, Goes, Zenon
  <2> QED BY <1>8, <2>1, <2>2, <2>3 DEF InlineReturns
<1> QED BY <1>3, <1>4, <1>5, <1>6, <1>7, <1>8

\* It stays inside _run.
LEMMA TurnLives ==
  ASSUME IInv, IInv', NEW r \in Request,
         \/ Admitted(r) \/ Compiled(r) \/ CompileCut(r) \/ PrimeResumes(r) \/ PrimeCut(r)
         \/ InlineReturns(r) \/ Spread(r) \/ GatherReturns(r) \/ Drained(r)
  PROVE  UNCHANGED Life!serviceVars
<1>1. UNCHANGED <<tasks, closer, scoringVars>>
  BY DEF Admitted, Compiled, CompileCut, PrimeResumes, PrimeCut, InlineReturns, Spread,
         GatherReturns, Drained
<1>2. req[r].pc # "idle"
  BY DEF Admitted, Compiled, CompileCut, PrimeResumes, PrimeCut, InlineReturns, Spread,
         GatherReturns, Drained, Resumed, Cancelled
<1> QED BY <1>1, <1>2, TurnGoesOn, GoingOn

LEMMA CutViews ==
  ASSUME IInv, NEW S \in SUBSET tasks, NEW why \in {"queue", "deadline", "caller"}, CutAll(S, why)
  PROVE  /\ \A s \in Request : req'[s].pc = req[s].pc
         /\ \A s \in Request \ S : req'[s] = req[s]
         /\ \A s \in S : s \in Request /\ req'[s].cut # {}
         /\ \A u \in Unit : slot'[u] = "holding" <=> slot[u] = "holding"
<1>1. req \in [Request -> Coroutine] /\ tasks \subseteq Request
  BY DEF IInv, ServiceTypes
<1>2. req' = [r \in Request |-> IF r \notin S THEN req[r] ELSE AfterCut(req[r], why)]
      /\ Scoring!Interrupt(UnitsOf(S))
  BY CutAllParts
<1>3. ASSUME NEW s \in S
      PROVE  s \in Request /\ req'[s].pc = req[s].pc /\ req'[s].cut = req[s].cut \union {why}
  <2>1. s \in Request /\ req[s] \in Coroutine /\ req'[s] = AfterCut(req[s], why)
    BY <1>1, <1>2
  <2> QED BY <2>1, AfterCutFacts
<1>4. \A s \in Request \ S : req'[s] = req[s]
  BY <1>2
<1>5. \A u \in Unit : slot'[u] = "holding" <=> slot[u] = "holding"
  <2>1. slot' = [t \in Unit |-> IF t \in UnitsOf(S) /\ slot[t] = "pending" THEN "cancelled" ELSE slot[t]]
    BY <1>2 DEF Scoring!Interrupt
  <2> QED BY <2>1
<1> QED BY <1>3, <1>4, <1>5

LEMMA CutLives ==
  ASSUME IInv, IInv'
  PROVE  /\ \A r \in Request : QueueTimer(r) \/ Deadline(r) \/ Disconnect(r) => Life!CutRequest(r)
         /\ CloseBegins => Life!BeginClose
         /\ CloseCut => UNCHANGED Life!serviceVars
<1>1. \A s \in Request : s \in tasks <=> req[s].pc \notin Blank
  BY DEF IInv, Local, Placed
<1>2. tasks \subseteq Request
  BY DEF IInv, ServiceTypes
<1>3. ASSUME NEW r \in Request, NEW why \in {"queue", "deadline", "caller"}, CutShort(r, why)
      PROVE  Life!CutRequest(r)
  <2>1. r \in tasks /\ {r} \in SUBSET tasks /\ tasks' = tasks /\ closer' = closer
    BY <1>1, <1>3 DEF CutShort, Parked, Blank
  <2>2. /\ \A s \in Request : req'[s].pc = req[s].pc
        /\ \A s \in Request \ {r} : req'[s] = req[s]
        /\ req'[r].cut # {}
        /\ \A u \in Unit : slot'[u] = "holding" <=> slot[u] = "holding"
    BY <1>3, <2>1, CutViews DEF CutShort
  <2>3. req'[r].pc # "idle"
    BY <1>1, <2>1, <2>2 DEF Blank
  <2> QED BY <2>1, <2>2, <2>3, CallsStay, LifeCuts DEF SameView
<1>4. ASSUME CutAll(tasks, "caller"), tasks' = tasks
      PROVE  /\ \A s \in Request : req'[s].pc = "idle" <=> req[s].pc = "idle"
             /\ \A s \in Request : req'[s].cut = {} <=> req[s].cut = {} /\ s \notin tasks
             /\ SameCalls
  <2>1. /\ \A s \in Request : req'[s].pc = req[s].pc
        /\ \A s \in Request \ tasks : req'[s] = req[s]
        /\ \A s \in tasks : req'[s].cut # {}
        /\ \A u \in Unit : slot'[u] = "holding" <=> slot[u] = "holding"
    BY <1>4, CutViews
  <2> QED BY <2>1, CallsStay
<1>5. CloseBegins => Life!BeginClose
  BY <1>4, LifeCloses DEF CloseBegins
<1>6. ASSUME CloseCut PROVE UNCHANGED Life!serviceVars
  <2>1. \A s \in tasks : req[s].cut # {}
    BY <1>2, <1>6 DEF CloseCut, IInv, Local, Placed
  <2> QED BY <1>4, <1>6, <2>1, LifeStutters DEF CloseCut, SameView
<1> QED BY <1>3, <1>5, <1>6 DEF QueueTimer, Deadline, Disconnect


\* A call that has its turn may be posted, if its request is not cut.
LEMMA Uncut ==
  ASSUME IInv, NEW u \in Unit, unit[u] \in {"new", "gate"}, Cuts(u) = {}
  PROVE  u[1] \in tasks /\ req[u[1]].cut = {}
<1> DEFINE r == u[1]
<1>1. Placed(r) /\ OwnCall(r) /\ Gathered(r)
  BY UnitFacts DEF IInv, Local
<1>2. unit[u] \notin Answers \union {"none"}
  BY DEF Answers
<1>3. CASE u[2] = 0
  <2>1. u = Own(r) /\ req[r].cut = {}
    BY <1>3, UnitFacts DEF Cuts
  <2>2. req[r].pc = "inline"
    BY <1>1, <1>2, <2>1 DEF OwnCall
  <2> QED BY <1>1, <2>1, <2>2 DEF Placed, Blank
<1>4. CASE u[2] # 0
  <2>1. u \in Calls(r) /\ "cancel" \notin ucut[u]
    BY <1>4, UnitFacts DEF Cuts
  <2>2. unit[u] # "none" => req[r].pc \in {"gather", "drain", "unwind"}
    BY <1>1, <2>1 DEF Gathered
  <2>3. req[r].pc = "unwind" => unit[u] \in Answers \union {"none"}
    BY <1>1, <2>1 DEF Gathered
  <2>4. ~((req[r].pc = "gather" /\ req[r].cut # {}) \/ req[r].pc = "drain")
    BY <1>1, <1>2, <2>1 DEF Gathered
  <2>5. req[r].pc = "gather" /\ req[r].cut = {}
    BY <1>2, <2>2, <2>3, <2>4
  <2> QED BY <1>1, <2>5 DEF Placed, Blank
<1> QED BY <1>3, <1>4

LEMMA CallLives ==
  ASSUME IInv, IInv', NEW u \in Unit, CallRuns(u) \/ EngineAnswers(u)
  PROVE  Life!Post(u) \/ Life!EndCall(u) \/ UNCHANGED Life!serviceVars
<1>1. PICK s : Becomes(u, s)
  BY DEF CallRuns, EngineAnswers, CallStarts, CallNeverStarts, CallAdmitted, CallTurnedAway,
         CallCut, CallAnswered
<1>2. UNCHANGED <<req, tasks, closer>>
  BY DEF CallRuns, EngineAnswers
<1>3. /\ unit'[u] = s
      /\ \A v \in Unit \ {u} : unit'[v] = unit[v]
  BY <1>1 DEF Becomes, IInv, ServiceTypes
<1>4. CASE unit[u] # "http" /\ s # "http"
  BY <1>2, <1>3, <1>4, LifeStutters DEF SameView, SameCalls
<1>5. CASE unit[u] = "http" /\ s # "http"
  BY <1>2, <1>3, <1>5, LifeEndsCall
<1>6. CASE s = "http"
  <2>1. unit[u] \in {"new", "gate"} /\ Cuts(u) = {}
    <3>1. \A t \in Answers \union {"gate"} : ~Becomes(u, t)
      BY <1>3, <1>6 DEF Becomes, Answers, IInv, ServiceTypes
    <3> QED BY <3>1 DEF CallRuns, EngineAnswers, CallStarts, CallNeverStarts, CallAdmitted,
                        CallTurnedAway, CallCut, CallAnswered, Answers
  <2> QED BY <1>2, <1>3, <1>6, <2>1, Uncut, LifePosts
<1> QED BY <1>4, <1>5, <1>6

LEMMA CloseEndsLives ==
  ASSUME IInv, CloseEnds
  PROVE  Life!EndClose \/ Life!AbandonClose
<1>1. UNCHANGED <<req, unit, tasks>> /\ tasks = {}
  BY DEF CloseEnds, Closed
<1> QED BY <1>1 DEF CloseEnds, Life!EndClose, Life!AbandonClose, Life!Drained, Life!Inside

LEMMA IdleLives ==
  ASSUME UNCHANGED <<req, unit, tasks, closer>>
  PROVE  UNCHANGED Life!serviceVars
BY LifeStutters DEF SameView, SameCalls

LEMMA StepLives ==
  ASSUME IInv, IInv', [Next]_vars
  PROVE  [Life!ServiceNext]_Life!serviceVars
<1>1. \A u \in Unit : u \in Life!Call
  BY DEF Unit, Life!Call
<1>2. ASSUME NEW r \in Request, Turn(r) \/ Compiled(r)
      PROVE  Life!Leave(r) \/ UNCHANGED Life!serviceVars
  <2>1. CASE GatherRaises(r)
    <3>1. GoesOn(r) /\ req[r].pc # "idle"
      BY <2>1, TurnGoesOn DEF GatherRaises
    <3>2. \A v \in Unit : slot'[v] = "holding" <=> slot[v] = "holding"
      BY <2>1 DEF GatherRaises, Scoring!Interrupt
    <3>3. SameCalls
      BY <3>2, CallsStay
    <3>4. \A v \in Request : SameView(v)
      BY <2>1, <3>1 DEF SameView, GoesOn, GatherRaises
    <3> QED BY <2>1, <3>3, <3>4, LifeStutters DEF GatherRaises
  <2> QED BY <1>2, <2>1, TurnLives, EndLives DEF Turn
<1>3. ASSUME NEW u \in Unit, ChildQueueTimer(u) PROVE UNCHANGED Life!serviceVars
  BY <1>3, IdleLives DEF ChildQueueTimer
<1>4. ASSUME NEW k \in Key, HintExpires(k) PROVE UNCHANGED Life!serviceVars
  BY <1>4, IdleLives DEF HintExpires, taskVars
<1>5. UNCHANGED vars => UNCHANGED Life!serviceVars
  BY IdleLives DEF vars, taskVars
<1>6. ASSUME NEW r \in Request,
             Arrive(r) \/ Refuse(r) \/ QueueTimer(r) \/ Deadline(r) \/ Disconnect(r)
      PROVE  Life!RequestSteps(r)
  BY <1>6, ArriveLives, CutLives DEF Life!RequestSteps
<1>7. (\E r \in Request : Life!RequestSteps(r)) => Life!ServiceNext
  BY DEF Life!ServiceNext
<1>8. \A r \in Request : Life!Leave(r) => Life!RequestSteps(r)
  BY DEF Life!RequestSteps
<1>9. (\E u \in Unit : Life!Post(u) \/ Life!EndCall(u)) => Life!ServiceNext
  BY <1>1 DEF Life!ServiceNext
<1>10. Life!BeginClose \/ Life!EndClose \/ Life!AbandonClose => Life!ServiceNext
  BY DEF Life!ServiceNext
<1> QED BY <1>2, <1>3, <1>4, <1>5, <1>6, <1>7, <1>8, <1>9, <1>10, CallLives, CutLives,
           CloseEndsLives DEF Next, Terminated

\* The service implements ServiceLife: its HTTP calls are at most
\* max_in_flight and belong to registered requests nobody has cut, close()
\* reaches whoever is registered and is over only when nobody is left
\* (service.py:55-61, 91-107, backend.py:102-128, scheduler.py:72-76).
THEOREM ServiceLives == Spec => RefinesServiceLife
<1>1. Init => Life!ServiceInit
  BY DEF Init, Fresh, Life!ServiceInit
<1>2. IInv /\ IInv' /\ [Next]_vars => [Life!ServiceNext]_Life!serviceVars
  BY StepLives
<1> QED BY <1>1, <1>2, Invariance, PTL DEF Spec, RefinesServiceLife, Life!ServiceSpec

-----------------------------------------------------------------------------
(* The scoring queue holds whatever the class gate lets in. *)

\* The calls that hold a slot, wait for one or are about to ask.
Busy == {u \in Unit : unit[u] \in {"new", "gate", "http"}}
Seat(u) == <<u[1], IF u[2] = 0 THEN 1 ELSE u[2]>>

LEMMA TimesMonotone ==
  ASSUME NEW a \in Nat, NEW b \in Nat, NEW c \in Nat, a <= b
  PROVE  a * c <= b * c
<1>1. PICK d \in Nat : b = a + d
  <2>1. b - a \in Nat /\ b = a + (b - a)
    OBVIOUS
  <2> QED BY <2>1
<1>2. (a + d) * c = a * c + d * c /\ a * c \in Nat /\ d * c \in Nat
  OBVIOUS
<1> QED BY <1>1, <1>2

\* A request in the class gate makes its own call or one call per item.
LEMMA BusyFit ==
  ASSUME IInv
  PROVE  /\ IsFiniteSet(Busy) /\ Cardinality(Busy) \in Nat
         /\ Cardinality(Busy) <= MaxActive * MaxWork
<1> DEFINE Seats == AP!Owners \X Item
<1>1. \A u \in Busy : /\ u \in Unit /\ u[1] \in Request /\ unit[u] \notin Answers \union {"none"}
                      /\ u[2] = 0 => u = Own(u[1]) /\ req[u[1]].pc = "inline"
                      /\ u[2] # 0 => u[2] \in Item /\ req[u[1]].pc \in {"gather", "drain"}
  <2>1. ASSUME NEW u \in Busy
        PROVE  /\ u \in Unit /\ u[1] \in Request /\ unit[u] \notin Answers \union {"none"}
               /\ u[2] = 0 => u = Own(u[1])
               /\ u[2] # 0 => u \in Calls(u[1]) /\ u[2] \in Item
               /\ OwnCall(u[1]) /\ Gathered(u[1])
    BY UnitFacts DEF Busy, Answers, IInv, Local
  <2>2. ASSUME NEW u \in Busy, u[2] = 0 PROVE req[u[1]].pc = "inline"
    BY <2>1, <2>2 DEF OwnCall
  <2>3. ASSUME NEW u \in Busy, u[2] # 0 PROVE req[u[1]].pc \in {"gather", "drain"}
    BY <2>1, <2>3 DEF Gathered
  <2> QED BY <2>1, <2>2, <2>3
<1>2. \A u \in Busy : Seat(u) \in Seats
  <2>1. \A u \in Busy : u[1] \in AP!Owners
    <3>1. \A u \in Busy : req[u[1]].pc \in Inside
      BY <1>1 DEF Inside
    <3> QED BY <1>1, <3>1 DEF IInv, Local, Placed, AP!Owners
  <2> QED BY <1>1, <2>1, ServiceAssumption DEF Seat, Item
<1>3. \A u, v \in Busy : Seat(u) = Seat(v) => u = v
  <2>1. ASSUME NEW u \in Busy, NEW v \in Busy, Seat(u) = Seat(v)
        PROVE  u = v
    <3>1. u[1] = v[1] /\ (u[2] = 0 <=> v[2] = 0)
      BY <1>1, <2>1 DEF Seat
    <3>2. u[2] = v[2]
      BY <2>1, <3>1 DEF Seat
    <3>3. u = <<u[1], u[2]>> /\ v = <<v[1], v[2]>>
      BY <1>1, UnitFacts
    <3> QED BY <3>1, <3>2, <3>3
  <2> QED BY <2>1
<1>4. [u \in Busy |-> Seat(u)] \in Injection(Busy, Seats)
  BY <1>2, <1>3 DEF Injection, IsInjective
<1>5. IsFiniteSet(AP!Owners) /\ Cardinality(AP!Owners) \in Nat /\ Cardinality(AP!Owners) <= MaxActive
  BY SameOperators, FS_CardinalityType DEF IInv, AP!IInv, AP!SlotAccounting
<1>6. IsFiniteSet(Item) /\ Cardinality(Item) = MaxWork
  BY FS_Interval, ServiceAssumption DEF Item
<1>7. IsFiniteSet(Seats) /\ Cardinality(Seats) = Cardinality(AP!Owners) * MaxWork
  BY <1>5, <1>6, FS_Product
<1>8. Cardinality(Seats) <= MaxActive * MaxWork
  BY <1>5, <1>7, TimesMonotone, ServiceAssumption
<1> HIDE DEF Seats
<1>9. IsFiniteSet(Busy) /\ Cardinality(Busy) <= Cardinality(Seats)
  BY <1>4, <1>7, FS_Injection
<1>10. Cardinality(Busy) \in Nat /\ Cardinality(Seats) \in Nat /\ MaxActive * MaxWork \in Nat
  BY <1>7, <1>9, FS_CardinalityType, ServiceAssumption
<1> QED BY <1>8, <1>9, <1>10

\* The calls in the scoring gate, one by one.
LEMMA QueuedFacts ==
  ASSUME IInv, NEW Q, Q = {scoreWaiters[i] : i \in DOMAIN scoreWaiters}
  PROVE  /\ IsFiniteSet(SP!Owners \union Q)
         /\ Cardinality(SP!Owners \union Q) = inFlight + Len(scoreWaiters)
         /\ \A u \in SP!Owners \union Q : u \in Busy /\ slot[u] # "out"
<1>1. /\ scoreWaiters \in Seq(Unit) /\ Len(scoreWaiters) \in Nat
      /\ DOMAIN scoreWaiters = 1 .. Len(scoreWaiters)
      /\ \A i \in DOMAIN scoreWaiters : scoreWaiters[i] \in Unit
  BY DEF IInv, SP!IInv, SP!GateTypeOK
<1>2. /\ \A i, j \in DOMAIN scoreWaiters : scoreWaiters[i] = scoreWaiters[j] => i = j
      /\ \A i \in DOMAIN scoreWaiters : slot[scoreWaiters[i]] \in {"pending", "cancelled"}
  BY DEF IInv, SP!IInv, SP!QueueFaithful
<1> DEFINE n == Len(scoreWaiters)
<1>3. n \in Nat /\ IsFiniteSet(1 .. n) /\ Cardinality(1 .. n) = n
  <2>1. n \in Nat
    BY <1>1
  <2> HIDE DEF n
  <2> QED BY <2>1, FS_Interval
<1>4. [i \in 1 .. n |-> scoreWaiters[i]] \in Bijection(1 .. n, Q)
  BY <1>1, <1>2 DEF Bijection, Injection, Surjection, IsInjective
<1> HIDE DEF n
<1>5. IsFiniteSet(Q) /\ Cardinality(Q) = n
  BY <1>3, <1>4, FS_Bijection DEF ExistsBijection
<1>6. IsFiniteSet(SP!Owners) /\ Cardinality(SP!Owners) = inFlight /\ inFlight \in Nat
  BY SameOperators DEF IInv, SP!IInv, SP!SlotAccounting, SP!GateTypeOK
<1>7. SP!Owners \intersect Q = {}
  BY <1>2 DEF SP!Owners
<1>8. IsFiniteSet(SP!Owners \union Q) /\ Cardinality(SP!Owners \union Q) = inFlight + n
  <2>1. Cardinality(SP!Owners \intersect Q) = 0
    BY <1>7, FS_EmptySet
  <2>2. /\ IsFiniteSet(SP!Owners \union Q)
        /\ Cardinality(SP!Owners \union Q) = Cardinality(SP!Owners) + Cardinality(Q) - Cardinality(SP!Owners \intersect Q)
    BY <1>5, <1>6, FS_Union
  <2> QED BY <1>3, <1>5, <1>6, <2>1, <2>2
<1>9. \A u \in SP!Owners \union Q : u \in Unit /\ slot[u] \in Stalled \union {"holding"}
  BY <1>1, <1>2 DEF SP!Owners, Stalled
<1>10. \A u \in SP!Owners \union Q : u \in Busy /\ slot[u] # "out"
  <2>1. \A u \in Unit : u[1] \in Request /\ u \in UnitsOf({u[1]})
    BY UnitFacts
  <2> QED BY <1>9, <2>1 DEF IInv, Local, Slotted, Busy, Stalled
<1> QED BY <1>8, <1>10 DEF n

\* If the scoring queue is sized for the class gate, an admitted request is
\* never turned away by the scoring gate: whoever is about to ask finds room,
\* cancelled entries of the queue included (admission.py:34-40).
THEOREM NeverShed == Spec => []AdmittedNeverShed
<1>1. ASSUME IInv, MaxActive * MaxWork <= MaxInFlight + MaxQueuedScores,
             NEW u \in Unit, Asking(u), ~Scoring!CanEnter, Scoring!IsFull
      PROVE  FALSE
  <2> DEFINE Q == {scoreWaiters[i] : i \in DOMAIN scoreWaiters}
             A == SP!Owners \union Q
  <2>1. /\ inFlight = MaxInFlight /\ Len(scoreWaiters) >= MaxQueuedScores /\ Len(scoreWaiters) \in Nat
    <3>1. scoreWaiters # <<>> => inFlight = MaxInFlight
      BY <1>1 DEF IInv, SP!IInv, SP!WorkConserving
    <3>2. inFlight <= MaxInFlight /\ inFlight \in Nat /\ Len(scoreWaiters) \in Nat
      BY <1>1 DEF IInv, SP!IInv, SP!SlotAccounting, SP!GateTypeOK
    <3> QED BY <1>1, <3>1, <3>2, ServiceAssumption DEF Scoring!CanEnter, Scoring!IsFull
  <2>2. /\ IsFiniteSet(A) /\ Cardinality(A) = inFlight + Len(scoreWaiters)
        /\ \A v \in A : v \in Busy /\ slot[v] # "out"
    BY <1>1, QueuedFacts
  <2> HIDE DEF Q, A
  <2>3. u \notin A /\ u \in Busy
    BY <1>1, <2>2 DEF Asking, Busy
  <2>4. Cardinality(A \union {u}) = Cardinality(A) + 1 /\ IsFiniteSet(A \union {u})
    BY <2>2, <2>3, FS_AddElement
  <2>5. A \union {u} \subseteq Busy
    BY <2>2, <2>3
  <2>6. Cardinality(A \union {u}) <= Cardinality(Busy)
    BY <1>1, <2>5, BusyFit, FS_Subset
  <2>7. Cardinality(Busy) \in Nat /\ Cardinality(Busy) <= MaxActive * MaxWork /\ MaxActive * MaxWork \in Nat
    BY <1>1, BusyFit, ServiceAssumption
  <2> DEFINE most == MaxActive * MaxWork
  <2>8. most \in Nat /\ Cardinality(Busy) <= most /\ most <= MaxInFlight + MaxQueuedScores
    BY <1>1, <2>7
  <2> HIDE DEF most
  <2> QED BY <2>1, <2>2, <2>4, <2>6, <2>7, <2>8, ServiceAssumption
<1>2. IInv => AdmittedNeverShed
  BY <1>1 DEF AdmittedNeverShed
<1> QED BY <1>2, Invariance, PTL

-----------------------------------------------------------------------------
(* The service uses its gates and its primer as GateClients and             *)
(* PrimerClients let any caller use them.                                   *)


LEMMA AdmissionIsClassGate ==
  ASSUME NEW r \in Request
  PROVE  /\ Admission!Enter(r) => ClassGate!Enter(r)
         /\ Admission!Enqueue(r) => ClassGate!Enqueue(r)
         /\ Admission!Reject(r) => ClassGate!Reject(r)
         /\ Admission!Release(r) => ClassGate!Release(r)
         /\ Admission!Resume(r) => ClassGate!Resume(r)
         /\ Admission!Abandon(r) => ClassGate!Abandon(r)
<1>1. \A S : Admission!Cardinality(S) = ClassGate!Cardinality(S)
  BY Zenon DEF ClassGate!Cardinality, Admission!Cardinality,
               ClassGate!IsFiniteSet, Admission!IsFiniteSet
<1>2. \A S : Admission!Min(S) = ClassGate!Min(S)
  BY DEF Admission!Min, ClassGate!Min
<1>3. Admission!Popped = ClassGate!Popped /\ Admission!Heirs = ClassGate!Heirs
  BY <1>1, <1>2 DEF Admission!Popped, ClassGate!Popped, Admission!Heirs, ClassGate!Heirs,
                    Admission!Live, ClassGate!Live
<1>4. Admission!HandOn(r) => ClassGate!HandOn(r)
  BY <1>1, <1>3 DEF Admission!HandOn, ClassGate!HandOn, Admission!Live, ClassGate!Live
<1>5. Admission!Without(r) = ClassGate!Without(r)
  BY DEF Admission!Without, ClassGate!Without
<1> QED BY <1>4, <1>5
  DEF Admission!Enter, ClassGate!Enter, Admission!Enqueue, ClassGate!Enqueue,
      Admission!Reject, ClassGate!Reject, Admission!gateVars, ClassGate!gateVars,
      Admission!Release, ClassGate!Release, Admission!Resume, ClassGate!Resume,
      Admission!Abandon, ClassGate!Abandon, Admission!CanEnter, ClassGate!CanEnter,
      Admission!IsFull, ClassGate!IsFull

\* A task that nobody cuts, or that is not in the gate, looks the same to it.
LEMMA ClassGateIdle ==
  ASSUME IInv, IInv', UNCHANGED admissionVars,
         \A s \in Request : at[s] \in Stalled => (req'[s].cut = {} <=> req[s].cut = {})
  PROVE  UNCHANGED ClassGate!vars
<1>1. \A s \in Request : /\ req[s].pc = "admission" <=> at[s] \in Stalled
                         /\ req'[s].pc = "admission" <=> at'[s] \in Stalled
  BY DEF IInv, Local, Placed
<1>2. at' = at
  BY DEF admissionVars
<1>3. CutInClassGate' = CutInClassGate
  BY <1>1, <1>2 DEF CutInClassGate
<1> QED BY <1>3 DEF admissionVars, ClassGate!vars

\* One that leaves the gate, cut or not; the others are where they were.
LEMMA OthersInClassGate ==
  ASSUME NEW r \in Request, \A s \in Request \ {r} : req'[s] = req[s],
         req'[r].pc # "admission" \/ req'[r].cut = {}
  PROVE  /\ CutInClassGate' = CutInClassGate \ {r}
         /\ req[r].pc # "admission" \/ req[r].cut = {} =>
               CutInClassGate' = CutInClassGate /\ r \notin CutInClassGate
         /\ req[r].pc = "admission" /\ req[r].cut # {} => r \in CutInClassGate
BY DEF CutInClassGate

LEMMA ArriveUses ==
  ASSUME IInv, NEW r \in Request, Arrive(r)
  PROVE  ClassGate!Arrive(r)
<1>1. req[r].pc = "idle" /\ req[r].cut = {}
  BY DEF Arrive, Resumed
<1>2. (\A s \in Request \ {r} : req'[s] = req[s]) /\ req'[r].cut = {}
  BY <1>1, ArriveGoesOn, EndFacts DEF GoesOn
<1>3. CutInClassGate' = CutInClassGate
  BY <1>1, <1>2, OthersInClassGate
<1>4. Admission!Enter(r) \/ Admission!Enqueue(r) \/ Admission!Reject(r)
  BY DEF Arrive
<1> QED BY <1>3, <1>4, AdmissionIsClassGate DEF ClassGate!Arrive

LEMMA AdmittedUses ==
  ASSUME IInv, NEW r \in Request, Admitted(r)
  PROVE  ClassGate!Deliver(r)
<1>1. req[r].cut = {} /\ Admission!Resume(r)
  BY DEF Admitted, Resumed
<1>2. GoesOn(r)
  BY TurnGoesOn
<1>3. CutInClassGate' = CutInClassGate /\ r \notin CutInClassGate
  BY <1>1, <1>2, OthersInClassGate DEF GoesOn
<1> QED BY <1>1, <1>3, AdmissionIsClassGate DEF ClassGate!Deliver

LEMMA NotAdmittedUses ==
  ASSUME IInv, NEW r \in Request, NotAdmitted(r)
  PROVE  ClassGate!GiveUp(r)
<1>1. req[r].pc = "admission" /\ req[r].cut # {} /\ Admission!Abandon(r)
  BY DEF NotAdmitted, Cancelled
<1>2. /\ \A s \in Request \ {r} : req'[s] = req[s]
      /\ req'[r].cut = {}
  BY EndFacts DEF NotAdmitted
<1>3. CutInClassGate' = CutInClassGate \ {r} /\ r \in CutInClassGate
  BY <1>1, <1>2, OthersInClassGate
<1> QED BY <1>1, <1>3, AdmissionIsClassGate DEF ClassGate!GiveUp

LEMMA UnwindUses ==
  ASSUME IInv, NEW r \in Request, Unwind(r)
  PROVE  ClassGate!Leave(r)
<1>1. req[r].pc = "unwind" /\ Admission!Release(r)
  BY DEF Unwind
<1>2. /\ \A s \in Request \ {r} : req'[s] = req[s]
      /\ req'[r].cut = {}
  BY EndFacts DEF Unwind
<1>3. CutInClassGate' = CutInClassGate
  BY <1>1, <1>2, OthersInClassGate
<1> QED BY <1>1, <1>3, AdmissionIsClassGate DEF ClassGate!Leave

\* cancel() reaches the gate for those that wait in it.
LEMMA CutUsesClassGate ==
  ASSUME IInv, IInv', NEW S \in SUBSET tasks, NEW why \in {"queue", "deadline", "caller"},
         CutAll(S, why)
  PROVE  ClassGate!CutShort({s \in S : at[s] \in Stalled})
<1> DEFINE T == {s \in S : at[s] \in Stalled}
<1>1. /\ \A s \in Request : req'[s].pc = req[s].pc
      /\ \A s \in Request \ S : req'[s] = req[s]
      /\ \A s \in S : s \in Request /\ req'[s].cut # {}
  BY CutViews
<1>2. \A s \in Request : req[s].pc = "admission" <=> at[s] \in Stalled
  BY DEF IInv, Local, Placed
<1>3. CutInClassGate' = CutInClassGate \union T
  BY <1>1, <1>2 DEF CutInClassGate
<1>4. Admission!Interrupt(S)
  BY CutAllParts
<1>5. ClassGate!Interrupt(T)
  BY <1>4 DEF Admission!Interrupt, ClassGate!Interrupt, Stalled
<1>6. \A s \in T : ClassGate!Suspended(s)
  BY DEF ClassGate!Suspended, Stalled
<1> HIDE DEF T
<1>7. ClassGate!CutShort(T)
  BY <1>3, <1>5, <1>6 DEF ClassGate!CutShort
<1> QED BY <1>7 DEF T

\* What the timers, the clients and close() cut.
LEMMA CutSteps ==
  ASSUME IInv,
         \/ \E r \in Request : QueueTimer(r) \/ Deadline(r) \/ Disconnect(r)
         \/ CloseBegins \/ CloseCut
  PROVE  \E S \in SUBSET tasks, why \in {"queue", "deadline", "caller"} : CutAll(S, why)
<1>1. ASSUME NEW r \in Request, NEW why \in {"queue", "deadline", "caller"}, CutShort(r, why)
      PROVE  \E S \in SUBSET tasks : CutAll(S, why)
  <2>1. {r} \in SUBSET tasks
    BY <1>1 DEF CutShort, Parked, IInv, Local, Placed, Blank
  <2> QED BY <1>1, <2>1 DEF CutShort
<1>2. tasks \in SUBSET tasks
  OBVIOUS
<1> QED BY <1>1, <1>2 DEF QueueTimer, Deadline, Disconnect, CloseBegins, CloseCut

LEMMA StepUsesClassGate ==
  ASSUME IInv, IInv', [Next]_vars
  PROVE  [ClassGate!Next]_ClassGate!vars
<1>1. ASSUME NEW r \in Request, Arrive(r) \/ Admitted(r) \/ NotAdmitted(r) \/ Unwind(r)
      PROVE  ClassGate!Next
  BY <1>1, ArriveUses, AdmittedUses, NotAdmittedUses, UnwindUses DEF ClassGate!Next
<1>2. ASSUME NEW r \in Request, Refuse(r)
      PROVE  UNCHANGED ClassGate!vars
  <2>1. req[r].cut = {} /\ UNCHANGED admissionVars
    BY <1>2 DEF Refuse, Resumed
  <2>2. \A s \in Request : req'[s].cut = {} <=> req[s].cut = {}
    BY <1>2, <2>1, EndFacts DEF Refuse
  <2> QED BY <2>1, <2>2, ClassGateIdle
<1>3. ASSUME NEW r \in Request, Turn(r) \/ Compiled(r), ~(Admitted(r) \/ NotAdmitted(r) \/ Unwind(r))
      PROVE  UNCHANGED ClassGate!vars
  <2>1. UNCHANGED admissionVars
    BY <1>3 DEF Turn, Compiled, CompileCut, PrimeResumes, PrimeCut, InlineReturns, Spread,
                GatherReturns, GatherRaises, Drained
  <2>2. GoesOn(r)
    BY <1>3, TurnGoesOn DEF Turn
  <2> QED BY <2>1, <2>2, ClassGateIdle DEF GoesOn
<1>4. ASSUME NEW S \in SUBSET tasks, NEW why \in {"queue", "deadline", "caller"}, CutAll(S, why)
      PROVE  ClassGate!Next
  <2>1. {s \in S : at[s] \in Stalled} \in SUBSET Request
    BY DEF IInv, ServiceTypes
  <2> QED BY <1>4, <2>1, CutUsesClassGate DEF ClassGate!Next
<1>5. UNCHANGED <<req, admissionVars>> => UNCHANGED ClassGate!vars
  BY ClassGateIdle
<1>6. ASSUME NEW u \in Unit, CallRuns(u) \/ EngineAnswers(u) \/ ChildQueueTimer(u)
      PROVE  UNCHANGED ClassGate!vars
  BY <1>5, <1>6 DEF CallRuns, EngineAnswers, ChildQueueTimer
<1>7. (\E k \in Key : HintExpires(k)) \/ CloseEnds \/ UNCHANGED vars => UNCHANGED ClassGate!vars
  BY <1>5 DEF HintExpires, CloseEnds, vars, taskVars
<1> QED BY <1>1, <1>2, <1>3, <1>4, <1>6, <1>7, CutSteps DEF Next, Terminated

\* Whatever GateClients guarantees of a gate and arbitrary callers holds of the
\* class gate in the service: a request passes through it as slot() has it,
\* gives back its slot and no other, and goes on without CancelledError only if
\* it was not cancelled (service.py:97-107, admission.py:33-67).
THEOREM ClassGateUsed == Spec => UsesClassGate
<1>1. Init => ClassGate!Init
  BY DEF Init, Fresh, CutInClassGate, ClassGate!Init, ClassGate!GateInit, Admission!GateInit
<1>2. IInv /\ IInv' /\ [Next]_vars => [ClassGate!Next]_ClassGate!vars
  BY StepUsesClassGate
<1> QED BY <1>1, <1>2, Invariance, PTL DEF Spec, UsesClassGate, ClassGate!Spec

LEMMA ScoringIsScoringGate ==
  ASSUME NEW u \in Unit
  PROVE  /\ Scoring!Enter(u) => ScoringGate!Enter(u)
         /\ Scoring!Enqueue(u) => ScoringGate!Enqueue(u)
         /\ Scoring!Reject(u) => ScoringGate!Reject(u)
         /\ Scoring!Release(u) => ScoringGate!Release(u)
         /\ Scoring!Resume(u) => ScoringGate!Resume(u)
         /\ Scoring!Abandon(u) => ScoringGate!Abandon(u)
<1>1. \A S : Scoring!Cardinality(S) = ScoringGate!Cardinality(S)
  BY Zenon DEF ScoringGate!Cardinality, Scoring!Cardinality,
               ScoringGate!IsFiniteSet, Scoring!IsFiniteSet
<1>2. \A S : Scoring!Min(S) = ScoringGate!Min(S)
  BY DEF Scoring!Min, ScoringGate!Min
<1>3. Scoring!Popped = ScoringGate!Popped /\ Scoring!Heirs = ScoringGate!Heirs
  BY <1>1, <1>2 DEF Scoring!Popped, ScoringGate!Popped, Scoring!Heirs, ScoringGate!Heirs,
                    Scoring!Live, ScoringGate!Live
<1>4. Scoring!HandOn(u) => ScoringGate!HandOn(u)
  BY <1>1, <1>3 DEF Scoring!HandOn, ScoringGate!HandOn, Scoring!Live, ScoringGate!Live
<1>5. Scoring!Without(u) = ScoringGate!Without(u)
  BY DEF Scoring!Without, ScoringGate!Without
<1> QED BY <1>4, <1>5
  DEF Scoring!Enter, ScoringGate!Enter, Scoring!Enqueue, ScoringGate!Enqueue,
      Scoring!Reject, ScoringGate!Reject, Scoring!gateVars, ScoringGate!gateVars,
      Scoring!Release, ScoringGate!Release, Scoring!Resume, ScoringGate!Resume,
      Scoring!Abandon, ScoringGate!Abandon, Scoring!CanEnter, ScoringGate!CanEnter,
      Scoring!IsFull, ScoringGate!IsFull

LEMMA UnitsSlotted ==
  ASSUME IInv, NEW u \in Unit
  PROVE  unit[u] = "gate" <=> slot[u] \in Stalled
<1>1. u[1] \in Request /\ u \in UnitsOf({u[1]})
  BY UnitFacts
<1> QED BY <1>1 DEF IInv, Local, Slotted

\* A call that nobody cuts, or that is not in the gate, looks the same to it.
LEMMA ScoringGateIdle ==
  ASSUME IInv, IInv', UNCHANGED scoringVars,
         \A u \in Unit : slot[u] \in Stalled => (Cuts(u)' = {} <=> Cuts(u) = {})
  PROVE  UNCHANGED ScoringGate!vars
<1>1. \A u \in Unit : /\ unit[u] = "gate" <=> slot[u] \in Stalled
                      /\ unit'[u] = "gate" <=> slot'[u] \in Stalled
  <2>1. \A u \in Unit : u[1] \in Request /\ u \in UnitsOf({u[1]})
    BY UnitFacts
  <2> QED BY <2>1 DEF IInv, Local, Slotted
<1>2. slot' = slot
  BY DEF scoringVars
<1>3. CutInScoringGate' = CutInScoringGate
  BY <1>1, <1>2 DEF CutInScoringGate
<1> QED BY <1>3 DEF scoringVars, ScoringGate!vars

\* A step of a call itself.
LEMMA CallUses ==
  ASSUME IInv, IInv', NEW u \in Unit, CallRuns(u) \/ EngineAnswers(u)
  PROVE  \/ ScoringGate!Arrive(u) \/ ScoringGate!Deliver(u) \/ ScoringGate!GiveUp(u)
         \/ ScoringGate!Leave(u) \/ UNCHANGED ScoringGate!vars
<1>1. \A v \in Unit : Cuts(v)' = Cuts(v)
  BY DEF CallRuns, EngineAnswers, Cuts
<1>2. ASSUME NEW s, Becomes(u, s)
      PROVE  /\ unit'[u] = s
             /\ s # "gate" => CutInScoringGate' = CutInScoringGate \ {u}
             /\ Cuts(u) = {} \/ (unit[u] # "gate" /\ s # "gate") =>
                   CutInScoringGate' = CutInScoringGate /\ u \notin CutInScoringGate
             /\ unit[u] = "gate" /\ Cuts(u) # {} => u \in CutInScoringGate
  <2>1. unit'[u] = s /\ \A v \in Unit \ {u} : unit'[v] = unit[v]
    BY <1>2 DEF Becomes, IInv, ServiceTypes
  <2> QED BY <1>1, <2>1 DEF CutInScoringGate
<1>3. CASE CallStarts(u)
  <2>1. PICK s : Becomes(u, s)
    BY <1>3 DEF CallStarts
  <2>2. CutInScoringGate' = CutInScoringGate
    BY <1>2, <1>3, <2>1 DEF CallStarts
  <2>3. Scoring!Enter(u) \/ Scoring!Enqueue(u) \/ Scoring!Reject(u)
    BY <1>3 DEF CallStarts
  <2> QED BY <2>2, <2>3, ScoringIsScoringGate DEF ScoringGate!Arrive
<1>4. CASE CallNeverStarts(u)
  BY <1>1, <1>4, ScoringGateIdle DEF CallNeverStarts
<1>5. CASE CallAdmitted(u)
  <2>1. CutInScoringGate' = CutInScoringGate /\ u \notin CutInScoringGate
    BY <1>2, <1>5 DEF CallAdmitted
  <2> QED BY <1>5, <2>1, ScoringIsScoringGate DEF CallAdmitted, ScoringGate!Deliver
<1>6. CASE CallTurnedAway(u)
  <2>1. PICK s \in {"busy", "cancelled"} : Becomes(u, s)
    BY <1>6 DEF CallTurnedAway
  <2>2. CutInScoringGate' = CutInScoringGate \ {u} /\ u \in CutInScoringGate
    BY <1>2, <1>6, <2>1 DEF CallTurnedAway
  <2> QED BY <1>6, <2>2, ScoringIsScoringGate DEF CallTurnedAway, ScoringGate!GiveUp
<1>7. CASE CallCut(u) \/ CallAnswered(u)
  <2>1. /\ unit[u] = "http" /\ Scoring!Release(u)
        /\ \E s \in {"ok", "busy", "error", "cancelled"} : Becomes(u, s)
    BY <1>7 DEF CallCut, CallAnswered
  <2>2. CutInScoringGate' = CutInScoringGate
    BY <1>2, <2>1
  <2> QED BY <2>1, <2>2, ScoringIsScoringGate DEF ScoringGate!Leave
<1> QED BY <1>3, <1>4, <1>5, <1>6, <1>7 DEF CallRuns, EngineAnswers

\* cancel() of the calls in T, of which the gate notices those that wait in it.
LEMMA CutUsesScoringGate ==
  ASSUME IInv, NEW T \in SUBSET Unit, Scoring!Interrupt(T), unit' = unit,
         \A u \in T : unit[u] = "gate" => Cuts(u)' # {},
         \A u \in Unit \ T : Cuts(u)' = {} <=> Cuts(u) = {}
  PROVE  ScoringGate!CutShort({u \in T : slot[u] \in Stalled})
<1> DEFINE W == {u \in T : slot[u] \in Stalled}
<1>1. CutInScoringGate' = CutInScoringGate \union W
  BY UnitsSlotted DEF CutInScoringGate
<1>2. ScoringGate!Interrupt(W)
  BY DEF Scoring!Interrupt, ScoringGate!Interrupt, Stalled
<1>3. \A u \in W : ScoringGate!Suspended(u)
  BY DEF ScoringGate!Suspended, Stalled
<1> HIDE DEF W
<1>4. ScoringGate!CutShort(W)
  BY <1>1, <1>2, <1>3 DEF ScoringGate!CutShort
<1> QED BY <1>4 DEF W

LEMMA CutsUseScoringGate ==
  ASSUME IInv,
         \/ \E S \in SUBSET tasks, why \in {"queue", "deadline", "caller"} :
               CutAll(S, why) /\ unit' = unit
         \/ \E u \in Unit : ChildQueueTimer(u)
         \/ \E r \in Request : GatherRaises(r)
  PROVE  \E T \in SUBSET Unit : ScoringGate!CutShort(T)
<1>1. ucut \in [Unit -> SUBSET {"queue", "cancel"}]
  BY DEF IInv, ServiceTypes
<1>2. ASSUME NEW T \in SUBSET Unit, Scoring!Interrupt(T), unit' = unit,
             \A u \in T : unit[u] = "gate" => Cuts(u)' # {},
             \A u \in Unit \ T : Cuts(u)' = {} <=> Cuts(u) = {}
      PROVE  \E W \in SUBSET Unit : ScoringGate!CutShort(W)
  <2>1. {u \in T : slot[u] \in Stalled} \in SUBSET Unit
    OBVIOUS
  <2> QED BY <1>2, <2>1, CutUsesScoringGate
<1>3. ASSUME NEW S \in SUBSET tasks, NEW why \in {"queue", "deadline", "caller"},
             CutAll(S, why), unit' = unit
      PROVE  \E W \in SUBSET Unit : ScoringGate!CutShort(W)
  <2>1. UnitsOf(S) \in SUBSET Unit /\ \A u \in Unit : u \in UnitsOf(S) <=> u[1] \in S
    BY DEF UnitsOf, Unit, IInv, ServiceTypes
  <2>2. Scoring!Interrupt(UnitsOf(S))
    BY <1>3, CutAllParts
  <2>3. /\ \A s \in Request \ S : req'[s] = req[s]
        /\ \A s \in S : req'[s].cut # {}
    BY <1>3, CutViews
  <2>4. \A u \in Unit : /\ u[1] \notin S => ucut'[u] = ucut[u]
                        /\ u[1] \in S /\ u \in Live(u[1]) => ucut'[u] # {}
    BY <1>3, CutAllParts
  <2>5. \A u \in Unit : u[2] # 0 /\ unit[u] = "gate" => u \in Live(u[1])
    BY UnitFacts DEF Live, Children, Finished, Answers, Calls
  <2>6. \A u \in UnitsOf(S) : unit[u] = "gate" => Cuts(u)' # {}
    BY <2>1, <2>3, <2>4, <2>5 DEF Cuts
  <2>7. \A u \in Unit \ UnitsOf(S) : Cuts(u)' = Cuts(u)
    BY <2>1, <2>3, <2>4, UnitFacts DEF Cuts
  <2> QED BY <1>2, <1>3, <2>1, <2>2, <2>6, <2>7
<1>4. ASSUME NEW u \in Unit, ChildQueueTimer(u)
      PROVE  \E W \in SUBSET Unit : ScoringGate!CutShort(W)
  <2>1. /\ {u} \in SUBSET Unit /\ Scoring!Interrupt({u}) /\ unit' = unit /\ req' = req
        /\ u[2] # 0 /\ ucut' = [ucut EXCEPT ![u] = @ \union {"queue"}]
    BY <1>4 DEF ChildQueueTimer
  <2>2. Cuts(u)' # {} /\ \A v \in Unit \ {u} : Cuts(v)' = Cuts(v)
    BY <1>1, <2>1 DEF Cuts
  <2> QED BY <1>2, <2>1, <2>2
<1>5. ASSUME NEW r \in Request, GatherRaises(r)
      PROVE  \E W \in SUBSET Unit : ScoringGate!CutShort(W)
  <2>1. /\ Live(r) \in SUBSET Unit
        /\ \A u \in Live(r) : u[2] # 0
    <3>1. \A u \in {r} \X Item : u \in Unit /\ u[2] # 0
      BY ServiceAssumption DEF Item, Unit
    <3> QED BY <3>1 DEF Live, Children
  <2>2. /\ Scoring!Interrupt(Live(r)) /\ unit' = unit
        /\ ucut' = [u \in Unit |-> IF u \in Live(r) THEN ucut[u] \union {"cancel"} ELSE ucut[u]]
    BY <1>5 DEF GatherRaises
  <2>3. GoesOn(r)
    BY <1>5, TurnGoesOn
  <2>4. \A u \in Live(r) : Cuts(u)' # {}
    BY <2>1, <2>2 DEF Cuts
  <2>5. \A u \in Unit \ Live(r) : Cuts(u)' = Cuts(u)
    BY <2>2, <2>3, UnitFacts DEF Cuts, GoesOn
  <2> QED BY <1>2, <2>1, <2>2, <2>4, <2>5
<1> QED BY <1>3, <1>4, <1>5

\* A request that is over has no call in the gate.
LEMMA EndUsesScoringGate ==
  ASSUME IInv, IInv', NEW r \in Request, NEW how, End(r, how), UNCHANGED scoringVars,
         req[r].pc \in {"idle", "admission", "unwind"}
  PROVE  UNCHANGED ScoringGate!vars
<1>1. \A u \in UnitsOf({r}) : unit[u] # "gate"
  BY Outside DEF Answers, Blank
<1>2. ASSUME NEW u \in Unit, slot[u] \in Stalled PROVE Cuts(u)' = Cuts(u)
  <2>1. unit[u] = "gate" /\ u[1] # r /\ u[1] \in Request
    BY <1>1, <1>2, UnitsSlotted, UnitFacts
  <2>2. req'[u[1]] = req[u[1]]
    BY <2>1, EndFacts
  <2>3. ucut'[u] = ucut[u]
    BY <2>1 DEF End
  <2> QED BY <2>2, <2>3 DEF Cuts
<1> QED BY <1>2, ScoringGateIdle

LEMMA GoingOnUsesScoringGate ==
  ASSUME IInv, IInv', NEW r \in Request, GoesOn(r), UNCHANGED <<ucut, scoringVars>>
  PROVE  UNCHANGED ScoringGate!vars
<1>1. \A u \in Unit : Cuts(u)' = Cuts(u)
  BY UnitFacts DEF Cuts, GoesOn
<1> QED BY <1>1, ScoringGateIdle

LEMMA ArriveUsesScoringGate ==
  ASSUME IInv, IInv', NEW r \in Request, Arrive(r)
  PROVE  UNCHANGED ScoringGate!vars
<1>1. req[r].pc = "idle" /\ UNCHANGED scoringVars
  BY DEF Arrive, Resumed
<1>2. CASE \E how : End(r, how)
  BY <1>1, <1>2, EndUsesScoringGate
<1>3. CASE ~\E how : End(r, how)
  BY <1>1, <1>3, ArriveGoesOn, GoingOnUsesScoringGate
<1> QED BY <1>2, <1>3

LEMMA StepUsesScoringGate ==
  ASSUME IInv, IInv', [Next]_vars
  PROVE  [ScoringGate!Next]_ScoringGate!vars
<1>1. ASSUME NEW r \in Request, Refuse(r) \/ NotAdmitted(r) \/ Unwind(r)
      PROVE  UNCHANGED ScoringGate!vars
  BY <1>1, EndUsesScoringGate DEF Refuse, NotAdmitted, Unwind, Resumed, Cancelled
<1>2. ASSUME NEW r \in Request, Turn(r) \/ Compiled(r),
             ~(NotAdmitted(r) \/ Unwind(r) \/ GatherRaises(r))
      PROVE  UNCHANGED ScoringGate!vars
  <2>1. UNCHANGED <<ucut, scoringVars>>
    BY <1>2 DEF Turn, Admitted, Compiled, CompileCut, PrimeResumes, PrimeCut, InlineReturns,
                Spread, GatherReturns, Drained
  <2>2. GoesOn(r)
    BY <1>2, TurnGoesOn DEF Turn
  <2> QED BY <2>1, <2>2, GoingOnUsesScoringGate
<1>3. UNCHANGED <<req, ucut, scoringVars>> => UNCHANGED ScoringGate!vars
  BY ScoringGateIdle DEF Cuts
<1>4. (\E k \in Key : HintExpires(k)) \/ CloseEnds \/ UNCHANGED vars => UNCHANGED ScoringGate!vars
  BY <1>3 DEF HintExpires, CloseEnds, vars, taskVars
<1>5. \/ \E r \in Request : QueueTimer(r) \/ Deadline(r) \/ Disconnect(r) \/ GatherRaises(r)
      \/ \E u \in Unit : ChildQueueTimer(u)
      \/ CloseBegins \/ CloseCut
      => ScoringGate!Next
  <2>1. \/ \E r \in Request : QueueTimer(r) \/ Deadline(r) \/ Disconnect(r)
        \/ CloseBegins \/ CloseCut
        => unit' = unit
    BY DEF QueueTimer, Deadline, Disconnect, CutShort, CloseBegins, CloseCut
  <2> QED BY <2>1, CutSteps, CutsUseScoringGate DEF ScoringGate!Next
<1>6. ASSUME NEW u \in Unit, CallRuns(u) \/ EngineAnswers(u)
      PROVE  [ScoringGate!Next]_ScoringGate!vars
  BY <1>6, CallUses DEF ScoringGate!Next
<1> QED BY <1>1, <1>2, <1>4, <1>5, <1>6, ArriveUsesScoringGate DEF Next, Terminated, Turn

\* The same for the scoring gate and the scoring calls, of one request and of
\* all: no call holds a slot it was not given, or gives one up twice, however
\* the failure of a sibling, a timer or the request's end crosses its wait
\* (backend.py:102-128, scheduler.py:72-76, admission.py:33-67).
THEOREM ScoringGateUsed == Spec => UsesScoringGate
<1>1. Init => ScoringGate!Init
  BY DEF Init, CutInScoringGate, ScoringGate!Init, ScoringGate!GateInit, Scoring!GateInit
<1>2. IInv /\ IInv' /\ [Next]_vars => [ScoringGate!Next]_ScoringGate!vars
  BY StepUsesScoringGate
<1> QED BY <1>1, <1>2, Invariance, PTL DEF Spec, UsesScoringGate, ScoringGate!Spec

\* The operations are those of the primer; only ToSet and RemoveAt come from a
\* library.
LEMMA SameHints ==
  /\ \A k : Primer!IsWarm(k) <=> Priming!IsWarm(k)
  /\ \A s, x : Primer!Dropped(s, x) = Priming!Dropped(s, x)
  /\ \A k : Primer!Look(k) => Priming!Look(k)
  /\ \A k : Primer!MarkWarm(k) => Priming!MarkWarm(k)
<1>1. \A s : Primer!ToSet(s) = Priming!ToSet(s)
  BY DEF Primer!ToSet, Priming!ToSet
<1>2. \A s, i : Primer!RemoveAt(s, i) = Priming!RemoveAt(s, i)
  BY DEF Primer!RemoveAt, Priming!RemoveAt
<1>3. \A s, x : Primer!Dropped(s, x) = Priming!Dropped(s, x)
  BY <1>1, <1>2 DEF Primer!Dropped, Priming!Dropped
<1>4. \A k : Primer!IsWarm(k) <=> Priming!IsWarm(k)
  BY <1>1 DEF Primer!IsWarm, Priming!IsWarm
<1> QED BY <1>1, <1>3, <1>4 DEF Primer!Look, Priming!Look, Primer!MarkWarm, Priming!MarkWarm

LEMMA PrimerIsPriming ==
  ASSUME NEW r \in Request
  PROVE  /\ \A k : Primer!Skip(r, k) => Priming!Skip(r, k)
         /\ \A k : Primer!Join(r, k) => Priming!Join(r, k)
         /\ Primer!TakeOver(r) => Priming!TakeOver(r)
         /\ Primer!Follow(r) => Priming!Follow(r)
         /\ Primer!AbandonPrime(r) => Priming!AbandonPrime(r)
         /\ Primer!FirstReturns(r) => Priming!FirstReturns(r)
         /\ Primer!FirstFails(r) => Priming!FirstFails(r)
<1>1. \A held : Primer!Depart(r, held) => Priming!Depart(r, held)
  BY SameHints, Zenon DEF Primer!Depart, Priming!Depart, Primer!Woken, Priming!Woken
<1>2. \A k : Primer!Skip(r, k) => Priming!Skip(r, k)
  BY SameHints DEF Primer!Skip, Priming!Skip
<1>3. \A k : Primer!Join(r, k) => Priming!Join(r, k)
  BY SameHints, Zenon DEF Primer!Join, Priming!Join, Primer!LeaseFor, Priming!LeaseFor,
     Primer!Unreferenced, Priming!Unreferenced, Primer!LockIsFree, Priming!LockIsFree
<1>4. Primer!TakeOver(r) => Priming!TakeOver(r)
  BY SameHints, Zenon DEF Primer!TakeOver, Priming!TakeOver
<1> QED BY <1>1, <1>2, <1>3, <1>4, SameHints
  DEF Primer!Follow, Priming!Follow, Primer!AbandonPrime, Priming!AbandonPrime,
      Primer!FirstReturns, Priming!FirstReturns, Primer!FirstFails, Priming!FirstFails,
      Primer!hintVars, Priming!hintVars

LEMMA PrimingIdle ==
  ASSUME IInv, IInv', UNCHANGED primerVars,
         \A s \in Request : stage[s] \in Queueing => (req'[s].cut = {} <=> req[s].cut = {}),
         \A s \in Request : stage[s] = "leading" =>
            (unit'[Own(s)] = "ok" <=> unit[Own(s)] = "ok")
  PROVE  UNCHANGED Priming!vars
<1>1. \A s \in Request : /\ req[s].pc = "prime" <=> stage[s] \in Queueing
                         /\ req'[s].pc = "prime" <=> stage'[s] \in Queueing
  BY DEF IInv, Local, Placed
<1>2. stage' = stage
  BY DEF primerVars
<1>3. CutInPrime' = CutInPrime
  BY <1>1, <1>2 DEF CutInPrime
<1>4. PrimersAnswered' = PrimersAnswered
  BY <1>2 DEF PrimersAnswered, Leading, Own
<1> QED BY <1>3, <1>4 DEF primerVars, Priming!vars

\* A step of r in the primer; the others are where they were.
LEMMA OthersInPrime ==
  ASSUME IInv, IInv', NEW r \in Request, NEW from, NEW to, PrimerMoves(r, from, to),
         \A s \in Request \ {r} : req'[s] = req[s],
         \A s \in Request \ {r} : unit'[Own(s)] = unit[Own(s)],
         to \notin Queueing \/ req'[r].cut = {},
         to # "leading" \/ unit'[Own(r)] # "ok"
  PROVE  /\ CutInPrime' = CutInPrime \ {r}
         /\ req[r].pc # "prime" \/ req[r].cut = {} =>
               CutInPrime' = CutInPrime /\ r \notin CutInPrime
         /\ req[r].pc = "prime" /\ req[r].cut # {} => r \in CutInPrime
         /\ PrimersAnswered' = PrimersAnswered \ {r}
         /\ stage[r] # "leading" => PrimersAnswered' = PrimersAnswered
         /\ stage[r] = "leading" /\ unit[Own(r)] = "ok" => r \in PrimersAnswered
<1>1. \A s \in Request \ {r} : stage'[s] = "leading" <=> stage[s] = "leading"
  BY DEF PrimerMoves, StillQueues, Queueing
<1>2. stage'[r] = to
  BY DEF PrimerMoves
<1>3. \A s \in Request : Own(s)' = Own(s)
  BY DEF Own
<1>4. req'[r].pc = "prime" <=> stage'[r] \in Queueing
  BY DEF IInv, Local, Placed
<1> QED BY <1>1, <1>2, <1>3, <1>4 DEF CutInPrime, PrimersAnswered, Leading

LEMMA UnitsOfOthers ==
  ASSUME IInv, NEW r \in Request, NEW s \in Request \ {r}
  PROVE  /\ CallInline(r) => unit'[Own(s)] = unit[Own(s)]
         /\ \A x : unit' = [unit EXCEPT ![Own(r)] = x] => unit'[Own(s)] = unit[Own(s)]
         /\ unit' = unit => unit'[Own(s)] = unit[Own(s)]
<1>1. Own(s) # Own(r) /\ Own(s) \in Unit
  BY OwnUnits DEF Own
<1> QED BY <1>1 DEF CallInline, IInv, ServiceTypes

LEMMA CompiledPrimes ==
  ASSUME IInv, IInv', NEW r \in Request, Compiled(r)
  PROVE  (\E k \in Key : Priming!Prime(r, k)) \/ UNCHANGED Priming!vars
<1> DEFINE k == req[r].job.key
<1>1. /\ req[r].pc = "compile" /\ req[r].cut = {} /\ stage[r] = "out"
      /\ req[r].job \in Jobs /\ k \in Key
      /\ unit \in [Unit -> Answers \union {"none", "new", "gate", "http"}]
      /\ stage \in [Request -> {"out", "leading"} \union Queueing]
  <2>1. req[r].pc = "compile" /\ req[r].cut = {}
    BY DEF Compiled, Resumed
  <2>2. stage[r] = "out"
    BY <2>1, Outside
  <2>3. req[r].job \in Jobs
    BY <2>1 DEF IInv, Local, Placed, Blank, ServiceTypes, Coroutine
  <2>4. k \in Key
    BY <2>3, ServiceAssumption
  <2>5. /\ unit \in [Unit -> Answers \union {"none", "new", "gate", "http"}]
        /\ stage \in [Request -> {"out", "leading"} \union Queueing]
    BY DEF IInv, ServiceTypes
  <2> QED BY <2>1, <2>2, <2>3, <2>4, <2>5
<1>2. /\ \A s \in Request \ {r} : req'[s] = req[s]
      /\ req'[r].cut = {}
  BY <1>1, TurnGoesOn DEF GoesOn
<1>3. CASE UNCHANGED <<unit, primerVars>>
  BY <1>1, <1>2, <1>3, PrimingIdle
<1>4. CASE Primer!Skip(r, k) /\ UNCHANGED unit
  <2>1. PrimerMoves(r, {"out"}, "out")
    BY <1>1, <1>4, PrimerSteps
  <2>2. \A s \in Request \ {r} : unit'[Own(s)] = unit[Own(s)]
    BY <1>4
  <2>3. UNCHANGED <<CutInPrime, PrimersAnswered>>
    BY <1>1, <1>2, <2>1, <2>2, OthersInPrime
  <2> QED BY <1>1, <1>4, <2>3, PrimerIsPriming DEF Priming!Prime
<1>5. CASE /\ Primer!Join(r, k)
           /\ IF stage'[r] = "leading" THEN CallInline(r) ELSE Park(r, "prime") /\ UNCHANGED unit
  <2>1. \/ PrimerMoves(r, {"out"}, "leading") /\ CallInline(r)
        \/ PrimerMoves(r, {"out"}, "waiting") /\ UNCHANGED unit
    BY <1>1, <1>5, PrimerSteps DEF PrimerMoves
  <2>2. CallInline(r) => unit'[Own(r)] = "new"
    BY <1>1, OwnUnits DEF CallInline
  <2>3. \A s \in Request \ {r} : unit'[Own(s)] = unit[Own(s)]
    BY <2>1, UnitsOfOthers
  <2>4. UNCHANGED <<CutInPrime, PrimersAnswered>>
    BY <1>1, <1>2, <2>1, <2>2, <2>3, OthersInPrime
  <2> QED BY <1>1, <1>5, <2>4, PrimerIsPriming DEF Priming!Prime
<1> QED BY <1>3, <1>4, <1>5 DEF Compiled

LEMMA PrimeResumesUses ==
  ASSUME IInv, IInv', NEW r \in Request, PrimeResumes(r)
  PROVE  Priming!Deliver(r)
<1>1. /\ req[r].pc = "prime" /\ req[r].cut = {}
      /\ unit \in [Unit -> Answers \union {"none", "new", "gate", "http"}]
      /\ stage \in [Request -> {"out", "leading"} \union Queueing]
  BY DEF PrimeResumes, Resumed, IInv, ServiceTypes
<1>2. /\ \A s \in Request \ {r} : req'[s] = req[s]
      /\ req'[r].cut = {}
  BY <1>1, TurnGoesOn DEF GoesOn
<1>3. \/ PrimerMoves(r, {"woken"}, "leading") /\ CallInline(r)
      \/ PrimerMoves(r, {"woken"}, "out") /\ UNCHANGED unit
  BY <1>1, PrimerSteps DEF PrimeResumes
<1>4. CallInline(r) => unit'[Own(r)] = "new"
  BY <1>1, OwnUnits DEF CallInline
<1>5. \A s \in Request \ {r} : unit'[Own(s)] = unit[Own(s)]
  BY <1>3, UnitsOfOthers
<1>6. stage[r] # "leading"
  BY <1>3 DEF PrimerMoves
<1>7. UNCHANGED <<CutInPrime, PrimersAnswered>> /\ r \notin CutInPrime
  BY <1>1, <1>2, <1>3, <1>4, <1>5, <1>6, OthersInPrime
<1>8. Primer!TakeOver(r) \/ Primer!Follow(r)
  BY DEF PrimeResumes
<1> QED BY <1>7, <1>8, PrimerIsPriming DEF Priming!Deliver

LEMMA PrimeCutUses ==
  ASSUME IInv, IInv', NEW r \in Request, PrimeCut(r)
  PROVE  Priming!GiveUp(r)
<1>1. /\ req[r].pc = "prime" /\ req[r].cut # {} /\ unit' = unit /\ Primer!AbandonPrime(r)
      /\ stage \in [Request -> {"out", "leading"} \union Queueing]
  BY DEF PrimeCut, Cancelled, IInv, ServiceTypes
<1>2. GoesOn(r)
  BY TurnGoesOn
<1>3. PrimerMoves(r, {"woken", "cancelled"}, "out")
  BY <1>1, PrimerSteps
<1>4. CutInPrime' = CutInPrime \ {r} /\ r \in CutInPrime /\ PrimersAnswered' = PrimersAnswered
  BY <1>1, <1>2, <1>3, OthersInPrime DEF GoesOn, PrimerMoves, Queueing
<1> QED BY <1>1, <1>4, PrimerIsPriming DEF Priming!GiveUp

\* The answer to the leader's question, or its failure.
LEMMA LeaderUses ==
  ASSUME IInv, IInv', NEW r \in Request, InlineReturns(r), Leading(r)
  PROVE  Priming!FirstEnds(r)
<1>1. /\ req[r].pc = "inline" /\ stage[r] = "leading"
      /\ stage \in [Request -> {"out", "leading"} \union Queueing]
      /\ unit \in [Unit -> Answers \union {"none", "new", "gate", "http"}]
      /\ req \in [Request -> Coroutine]
  BY DEF InlineReturns, Leading, IInv, ServiceTypes
<1>2. /\ unit' = [unit EXCEPT ![Own(r)] = "none"]
      /\ \/ unit[Own(r)] = "ok" /\ Primer!FirstReturns(r)
         \/ Primer!FirstFails(r)
  BY DEF InlineReturns, LeaderDone, SerialDone, InlineFails
<1>3. PrimerMoves(r, {"leading"}, "out")
  BY <1>1, <1>2, PrimerSteps
<1>4. GoesOn(r)
  BY TurnGoesOn
<1>5. \A s \in Request \ {r} : unit'[Own(s)] = unit[Own(s)]
  BY <1>2, UnitsOfOthers
<1>6. /\ CutInPrime' = CutInPrime /\ PrimersAnswered' = PrimersAnswered \ {r}
      /\ unit[Own(r)] = "ok" => r \in PrimersAnswered
  BY <1>1, <1>3, <1>4, <1>5, OthersInPrime DEF GoesOn, Queueing
<1> QED BY <1>2, <1>6, PrimerIsPriming DEF Priming!FirstEnds

\* Every other step of a task.
LEMMA PassesBy ==
  ASSUME IInv, IInv', NEW r \in Request,
         \A s \in Request \ {r} : req'[s] = req[s],
         \A u \in Unit : u[1] # r => unit'[u] = unit[u],
         stage[r] = "out" \/ (req'[r].cut = req[r].cut /\ stage[r] # "leading"),
         UNCHANGED primerVars
  PROVE  UNCHANGED Priming!vars
<1>1. \A s \in Request : Own(s) \in Unit /\ Own(s)[1] = s
  BY OwnUnits DEF Own
<1> QED BY <1>1, PrimingIdle DEF Queueing

LEMMA TaskPassesBy ==
  ASSUME IInv, IInv', NEW r \in Request, Turn(r) \/ Arrive(r) \/ Refuse(r),
         ~PrimeResumes(r), ~PrimeCut(r), ~(InlineReturns(r) /\ Leading(r))
  PROVE  UNCHANGED Priming!vars
<1>1. UNCHANGED primerVars
  BY DEF Turn, Arrive, Refuse, Admitted, NotAdmitted, Unwind, CompileCut, Spread, InlineReturns,
         LeaderDone, SerialDone, InlineFails, GatherReturns, GatherRaises, Drained
<1>2. \A u \in Unit : u[1] # r => unit'[u] = unit[u]
  <2>1. \A u \in Unit : u[1] # r => \A x : [unit EXCEPT ![Own(r)] = x][u] = unit[u]
    BY DEF IInv, ServiceTypes, Own
  <2> QED BY <2>1, ZenonT(60) DEF Turn, Arrive, Refuse, Admitted, NotAdmitted, Unwind, CompileCut, Spread,
         CallInline, InlineReturns, SerialDone, InlineFails, GatherReturns, GatherRaises, Drained,
         LeaderDone, End
<1>3. stage[r] = "out" \/ (GoesOn(r) /\ stage[r] # "leading")
  <2>1. CASE Arrive(r) \/ Refuse(r) \/ NotAdmitted(r) \/ Unwind(r)
    BY <2>1, Outside DEF Arrive, Refuse, NotAdmitted, Unwind, Resumed, Cancelled, Blank
  <2>2. CASE Turn(r) /\ ~NotAdmitted(r) /\ ~Unwind(r)
    <3>1. GoesOn(r)
      BY <2>2, TurnGoesOn DEF Turn
    <3>2. stage[r] = "leading" => req[r].pc = "inline"
      BY DEF IInv, Local, Placed
    <3> QED BY <2>2, <3>1, <3>2 DEF Turn, Admitted, CompileCut, Spread, GatherReturns,
                 GatherRaises, Drained, Resumed, Cancelled, Leading
  <2> QED BY <2>1, <2>2
<1>4. \A s \in Request \ {r} : req'[s] = req[s]
  <2>1. CASE Arrive(r)
    BY <2>1, ArriveGoesOn, EndFacts DEF GoesOn
  <2>2. CASE Refuse(r) \/ NotAdmitted(r) \/ Unwind(r)
    BY <2>2, EndFacts DEF Refuse, NotAdmitted, Unwind
  <2> QED BY <2>1, <2>2, TurnGoesOn DEF Turn, GoesOn
<1> QED BY <1>1, <1>2, <1>3, <1>4, PassesBy DEF GoesOn

\* A scoring call, of which only a leader's answer matters.
LEMMA CallPasses ==
  ASSUME IInv, IInv', NEW u \in Unit, CallRuns(u) \/ EngineAnswers(u)
  PROVE  (\E r \in Request : Priming!FirstScored(r)) \/ UNCHANGED Priming!vars
<1>1. UNCHANGED <<req, primerVars>> /\ unit[u] \in {"new", "gate", "http"}
  BY DEF CallRuns, EngineAnswers, CallStarts, CallNeverStarts, CallAdmitted, CallTurnedAway,
         CallCut, CallAnswered
<1>2. PICK s : Becomes(u, s)
  BY DEF CallRuns, EngineAnswers, CallStarts, CallNeverStarts, CallAdmitted, CallTurnedAway,
         CallCut, CallAnswered
<1>3. unit'[u] = s /\ \A v \in Unit \ {u} : unit'[v] = unit[v]
  BY <1>2 DEF Becomes, IInv, ServiceTypes
<1>4. \A r \in Request : Own(r) \in Unit
  BY OwnUnits
<1>5. CASE \E r \in Request : u = Own(r) /\ stage[r] = "leading" /\ s = "ok"
  <2>1. PICK r \in Request : u = Own(r) /\ stage[r] = "leading" /\ s = "ok"
    BY <1>5
  <2>2. \A q \in Request \ {r} : Own(q) # u
    BY <2>1 DEF Own
  <2>3. stage' = stage
    BY <1>1 DEF primerVars
  <2>4. PrimersAnswered' = PrimersAnswered \union {r} /\ r \notin PrimersAnswered
    BY <1>1, <1>3, <1>4, <2>1, <2>2, <2>3 DEF PrimersAnswered, Leading, Own
  <2>5. CutInPrime' = CutInPrime
    BY <1>1 DEF CutInPrime
  <2>6. Priming!FirstScored(r)
    BY <1>1, <2>1, <2>4, <2>5 DEF Priming!FirstScored, primerVars
  <2> QED BY <2>1, <2>6
<1>6. CASE ~\E r \in Request : u = Own(r) /\ stage[r] = "leading" /\ s = "ok"
  <2>1. \A r \in Request : stage[r] = "leading" =>
           (unit'[Own(r)] = "ok" <=> unit[Own(r)] = "ok")
    BY <1>1, <1>3, <1>4, <1>6
  <2> QED BY <1>1, <2>1, PrimingIdle
<1> QED BY <1>5, <1>6

LEMMA CutUsesPrimer ==
  ASSUME IInv, NEW S \in SUBSET tasks, NEW why \in {"queue", "deadline", "caller"},
         CutAll(S, why), unit' = unit
  PROVE  \E T \in SUBSET Request : Priming!CutShort(T)
<1> DEFINE T == {s \in S : stage[s] \in Queueing}
<1>1. /\ \A s \in Request : req'[s].pc = req[s].pc
      /\ \A s \in Request \ S : req'[s] = req[s]
      /\ \A s \in S : s \in Request /\ req'[s].cut # {}
  BY CutViews
<1>2. \A s \in Request : req[s].pc = "prime" <=> stage[s] \in Queueing
  BY DEF IInv, Local, Placed
<1>3. CutInPrime' = CutInPrime \union T
  BY <1>1, <1>2 DEF CutInPrime
<1>4. Primer!InterruptPrime(S)
  BY CutAllParts
<1>5. Priming!InterruptPrime(T)
  BY <1>4 DEF Primer!InterruptPrime, Priming!InterruptPrime, Queueing
<1>6. \A s \in Request : stage'[s] = "leading" <=> stage[s] = "leading"
  BY <1>4 DEF Primer!InterruptPrime
<1>7. PrimersAnswered' = PrimersAnswered
  BY <1>6 DEF PrimersAnswered, Leading, Own
<1>8. T \in SUBSET Request /\ \A s \in T : stage[s] \in {"waiting", "woken", "cancelled"}
  BY <1>1 DEF Queueing
<1> HIDE DEF T
<1>9. Priming!CutShort(T)
  BY <1>3, <1>5, <1>7, <1>8 DEF Priming!CutShort
<1> QED BY <1>8, <1>9

LEMMA HintPasses ==
  ASSUME IInv, NEW k \in Key, HintExpires(k)
  PROVE  Priming!HintExpires(k)
<1>1. Primer!Expire(k) /\ UNCHANGED <<req, unit>> /\ stage' = stage
  BY DEF HintExpires, taskVars, Primer!Expire
<1>2. UNCHANGED <<CutInPrime, PrimersAnswered>>
  BY <1>1 DEF CutInPrime, PrimersAnswered, Leading, Own
<1>3. Priming!Expire(k)
  BY <1>1, SameHints DEF Primer!Expire, Priming!Expire
<1> QED BY <1>2, <1>3 DEF Priming!HintExpires

LEMMA StepUsesPrimer ==
  ASSUME IInv, IInv', [Next]_vars
  PROVE  [Priming!Next]_Priming!vars
<1>1. ASSUME NEW r \in Request, Turn(r) \/ Arrive(r) \/ Refuse(r) \/ Compiled(r)
      PROVE  [Priming!Next]_Priming!vars
  BY <1>1, TaskPassesBy, CompiledPrimes, PrimeResumesUses, PrimeCutUses, LeaderUses
  DEF Priming!Next
<1>2. ASSUME NEW u \in Unit, CallRuns(u) \/ EngineAnswers(u)
      PROVE  [Priming!Next]_Priming!vars
  BY <1>2, CallPasses DEF Priming!Next
<1>3. UNCHANGED <<req, unit, primerVars>> => UNCHANGED Priming!vars
  BY PrimingIdle
<1>4. (\E u \in Unit : ChildQueueTimer(u)) \/ CloseEnds \/ UNCHANGED vars => UNCHANGED Priming!vars
  BY <1>3 DEF ChildQueueTimer, CloseEnds, vars, taskVars
<1>5. \/ \E r \in Request : QueueTimer(r) \/ Deadline(r) \/ Disconnect(r)
      \/ CloseBegins \/ CloseCut
      => Priming!Next
  <2>1. \/ \E r \in Request : QueueTimer(r) \/ Deadline(r) \/ Disconnect(r)
        \/ CloseBegins \/ CloseCut
        => unit' = unit
    BY DEF QueueTimer, Deadline, Disconnect, CutShort, CloseBegins, CloseCut
  <2> QED BY <2>1, CutSteps, CutUsesPrimer DEF Priming!Next
<1>6. ASSUME NEW k \in Key, HintExpires(k) PROVE Priming!Next
  BY <1>6, HintPasses DEF Priming!Next
<1> QED BY <1>1, <1>2, <1>4, <1>5, <1>6 DEF Next, Terminated

\* The same for the primer: whoever leads leaves prime() with a success only
\* when the engine has answered it, and every other caller is one that
\* PrimerClients knows (service.py:160-172, scheduler.py:45-65).
THEOREM PrimerUsed == Spec => UsesPrimer
<1>1. Init => Priming!Init
  BY DEF Init, Fresh, CutInPrime, PrimersAnswered, Leading, Priming!Init, Priming!PrimerInit,
         Primer!PrimerInit
<1>2. IInv /\ IInv' /\ [Next]_vars => [Priming!Next]_Priming!vars
  BY StepUsesPrimer
<1> QED BY <1>1, <1>2, Invariance, PTL DEF Spec, UsesPrimer, Priming!Spec

-----------------------------------------------------------------------------
(* What GateProofs and PrimerProofs show of arbitrary callers, the service  *)
(* therefore has.                                                           *)

LEMMA ClassGateIsGate == [ClassGate!Next]_ClassGate!vars => [AP!Next]_AP!vars
<1>1. \A S : ClassGate!Cardinality(S) = AP!Cardinality(S)
  BY Zenon DEF ClassGate!Cardinality, AP!Cardinality, ClassGate!IsFiniteSet, AP!IsFiniteSet
<1>2. \A S : ClassGate!Min(S) = AP!Min(S)
  BY DEF ClassGate!Min, AP!Min
<1>3. ClassGate!Popped = AP!Popped /\ ClassGate!Heirs = AP!Heirs
  BY <1>1, <1>2 DEF ClassGate!Popped, AP!Popped, ClassGate!Heirs, AP!Heirs,
                    ClassGate!Live, AP!Live
<1>4. ASSUME NEW r \in Request
      PROVE  /\ ClassGate!HandOn(r) => AP!HandOn(r)
             /\ ClassGate!Without(r) = AP!Without(r)
  BY <1>1, <1>3 DEF ClassGate!HandOn, AP!HandOn, ClassGate!Live, AP!Live,
                    ClassGate!Without, AP!Without
<1>5. ASSUME NEW r \in Request
      PROVE  /\ ClassGate!Arrive(r) => AP!Arrive(r)
             /\ ClassGate!Deliver(r) => AP!Deliver(r)
             /\ ClassGate!GiveUp(r) => AP!GiveUp(r)
             /\ ClassGate!Leave(r) => AP!Leave(r)
  BY <1>4
  DEF ClassGate!Arrive, AP!Arrive, ClassGate!Deliver, AP!Deliver, ClassGate!GiveUp, AP!GiveUp,
      ClassGate!Leave, AP!Leave, ClassGate!Enter, AP!Enter, ClassGate!Enqueue, AP!Enqueue,
      ClassGate!Reject, AP!Reject, ClassGate!gateVars, AP!gateVars, ClassGate!Release, AP!Release,
      ClassGate!Resume, AP!Resume, ClassGate!Abandon, AP!Abandon,
      ClassGate!CanEnter, AP!CanEnter, ClassGate!IsFull, AP!IsFull
<1>6. ASSUME NEW S \in SUBSET Request
      PROVE  ClassGate!CutShort(S) => AP!CutShort(S)
  BY DEF ClassGate!CutShort, AP!CutShort, ClassGate!Suspended, AP!Suspended,
         ClassGate!Interrupt, AP!Interrupt
<1> QED BY <1>5, <1>6 DEF ClassGate!Next, AP!Next, ClassGate!vars, AP!vars

LEMMA ScoringGateIsGate == [ScoringGate!Next]_ScoringGate!vars => [SP!Next]_SP!vars
<1>1. \A S : ScoringGate!Cardinality(S) = SP!Cardinality(S)
  BY Zenon DEF ScoringGate!Cardinality, SP!Cardinality, ScoringGate!IsFiniteSet, SP!IsFiniteSet
<1>2. \A S : ScoringGate!Min(S) = SP!Min(S)
  BY DEF ScoringGate!Min, SP!Min
<1>3. ScoringGate!Popped = SP!Popped /\ ScoringGate!Heirs = SP!Heirs
  BY <1>1, <1>2 DEF ScoringGate!Popped, SP!Popped, ScoringGate!Heirs, SP!Heirs,
                    ScoringGate!Live, SP!Live
<1>4. ASSUME NEW u \in Unit
      PROVE  /\ ScoringGate!HandOn(u) => SP!HandOn(u)
             /\ ScoringGate!Without(u) = SP!Without(u)
  BY <1>1, <1>3 DEF ScoringGate!HandOn, SP!HandOn, ScoringGate!Live, SP!Live,
                    ScoringGate!Without, SP!Without
<1>5. ASSUME NEW u \in Unit
      PROVE  /\ ScoringGate!Arrive(u) => SP!Arrive(u)
             /\ ScoringGate!Deliver(u) => SP!Deliver(u)
             /\ ScoringGate!GiveUp(u) => SP!GiveUp(u)
             /\ ScoringGate!Leave(u) => SP!Leave(u)
  BY <1>4
  DEF ScoringGate!Arrive, SP!Arrive, ScoringGate!Deliver, SP!Deliver,
      ScoringGate!GiveUp, SP!GiveUp, ScoringGate!Leave, SP!Leave,
      ScoringGate!Enter, SP!Enter, ScoringGate!Enqueue, SP!Enqueue,
      ScoringGate!Reject, SP!Reject, ScoringGate!gateVars, SP!gateVars,
      ScoringGate!Release, SP!Release, ScoringGate!Resume, SP!Resume,
      ScoringGate!Abandon, SP!Abandon, ScoringGate!CanEnter, SP!CanEnter,
      ScoringGate!IsFull, SP!IsFull
<1>6. ASSUME NEW S \in SUBSET Unit
      PROVE  ScoringGate!CutShort(S) => SP!CutShort(S)
  BY DEF ScoringGate!CutShort, SP!CutShort, ScoringGate!Suspended, SP!Suspended,
         ScoringGate!Interrupt, SP!Interrupt
<1> QED BY <1>5, <1>6 DEF ScoringGate!Next, SP!Next, ScoringGate!vars, SP!vars

\* So both gates are used as admission.py means its gate to be used.
COROLLARY GatesUsed == Spec => UsesGates
BY ClassGateUsed, ScoringGateUsed DEF UsesGates

\* Both gates of the service serve a line strictly in order and never own more
\* slots than their capacity, whatever ends a request or a call
\* (service.py:97-107, backend.py:102-128, admission.py:1, 34, 64).
THEOREM GatesArePools ==
  Spec => /\ AP!FifoGrants /\ AP!RefinesSlotPool
          /\ SP!FifoGrants /\ SP!RefinesSlotPool
<1>1. AP!Spec => AP!FifoGrants /\ AP!RefinesSlotPool
  BY GatesAssumed, AP!FifoAdmission, AP!ImplementsPool
<1>2. SP!Spec => SP!FifoGrants /\ SP!RefinesSlotPool
  BY GatesAssumed, SP!FifoAdmission, SP!ImplementsPool
<1>3. ClassGate!Init => AP!Init
  BY DEF ClassGate!Init, AP!Init, ClassGate!GateInit, AP!GateInit
<1>4. ScoringGate!Init => SP!Init
  BY DEF ScoringGate!Init, SP!Init, ScoringGate!GateInit, SP!GateInit
<1>5. UsesClassGate => AP!Spec
  BY <1>3, ClassGateIsGate, PTL DEF UsesClassGate, ClassGate!Spec, AP!Spec
<1>6. UsesScoringGate => SP!Spec
  BY <1>4, ScoringGateIsGate, PTL DEF UsesScoringGate, ScoringGate!Spec, SP!Spec
<1> QED BY <1>1, <1>2, <1>5, <1>6, ClassGateUsed, ScoringGateUsed

\* The primer as PrimerProofs knows it.
PP == INSTANCE PrimerProofs WITH
         Task <- Request, interrupted <- CutInPrime, scored <- PrimersAnswered

LEMMA PrimingIsPrimer == [Priming!Next]_Priming!vars => [PP!Next]_PP!vars
<1>1. \A s : Priming!ToSet(s) = PP!ToSet(s)
  BY DEF Priming!ToSet, PP!ToSet
<1>2. \A s, i : Priming!RemoveAt(s, i) = PP!RemoveAt(s, i)
  BY DEF Priming!RemoveAt, PP!RemoveAt
<1>3. \A s, x : Priming!Dropped(s, x) = PP!Dropped(s, x)
  BY <1>1, <1>2 DEF Priming!Dropped, PP!Dropped
<1>4. \A k : Priming!IsWarm(k) <=> PP!IsWarm(k)
  BY <1>1 DEF Priming!IsWarm, PP!IsWarm
<1>5. \A k : /\ Priming!Look(k) => PP!Look(k)
             /\ Priming!MarkWarm(k) => PP!MarkWarm(k)
             /\ Priming!Expire(k) => PP!Expire(k)
  BY <1>1, <1>3, <1>4 DEF Priming!Look, PP!Look, Priming!MarkWarm, PP!MarkWarm,
                          Priming!Expire, PP!Expire
<1>6. ASSUME NEW r \in Request
      PROVE  /\ \A held : Priming!Depart(r, held) => PP!Depart(r, held)
             /\ \A k : Priming!Skip(r, k) => PP!Skip(r, k)
             /\ \A k : Priming!Join(r, k) => PP!Join(r, k)
             /\ Priming!TakeOver(r) => PP!TakeOver(r)
  <2>1. \A held : Priming!Depart(r, held) => PP!Depart(r, held)
    BY <1>3, Zenon DEF Priming!Depart, PP!Depart, Priming!Woken, PP!Woken
  <2>2. \A k : Priming!Skip(r, k) => PP!Skip(r, k)
    BY <1>4, <1>5 DEF Priming!Skip, PP!Skip
  <2>3. \A k : Priming!Join(r, k) => PP!Join(r, k)
    BY <1>4, <1>5, Zenon DEF Priming!Join, PP!Join, Priming!LeaseFor, PP!LeaseFor,
       Priming!Unreferenced, PP!Unreferenced, Priming!LockIsFree, PP!LockIsFree
  <2>4. Priming!TakeOver(r) => PP!TakeOver(r)
    BY <1>3, <1>4, <1>5, Zenon DEF Priming!TakeOver, PP!TakeOver
  <2> QED BY <2>1, <2>2, <2>3, <2>4
<1>7. ASSUME NEW r \in Request
      PROVE  /\ \A k : Priming!Prime(r, k) => PP!Prime(r, k)
             /\ Priming!Deliver(r) => PP!Deliver(r)
             /\ Priming!GiveUp(r) => PP!GiveUp(r)
             /\ Priming!FirstScored(r) => PP!FirstScored(r)
             /\ Priming!FirstEnds(r) => PP!FirstEnds(r)
  BY <1>4, <1>5, <1>6
  DEF Priming!Prime, PP!Prime, Priming!Deliver, PP!Deliver, Priming!GiveUp, PP!GiveUp,
      Priming!FirstScored, PP!FirstScored, Priming!FirstEnds, PP!FirstEnds,
      Priming!Follow, PP!Follow, Priming!AbandonPrime, PP!AbandonPrime,
      Priming!FirstReturns, PP!FirstReturns, Priming!FirstFails, PP!FirstFails,
      Priming!hintVars, PP!hintVars
<1>8. ASSUME NEW S \in SUBSET Request
      PROVE  Priming!CutShort(S) => PP!CutShort(S)
  BY DEF Priming!CutShort, PP!CutShort, Priming!InterruptPrime, PP!InterruptPrime
<1>9. ASSUME NEW k \in Key
      PROVE  Priming!HintExpires(k) => PP!HintExpires(k)
  BY <1>5 DEF Priming!HintExpires, PP!HintExpires
<1> QED BY <1>7, <1>8, <1>9 DEF Priming!Next, PP!Next, Priming!vars, PP!vars

\* In the service, too, one task primes a key at a time, only a success warms
\* it, and no follower is forgotten, whatever cuts the leader or its followers
\* (service.py:160-172, scheduler.py:24-27, 45-65).
THEOREM PrimerIsBarrier ==
  Spec => /\ PP!RefinesPrimingBarrier
          /\ [](PP!SingleLeader /\ PP!LeasesBalanced /\ PP!NoLostWakeup)
<1>1. PP!PrimerAssumption
  BY ServiceAssumption DEF PP!PrimerAssumption
<1>2. PP!Spec => /\ PP!RefinesPrimingBarrier
                 /\ []PP!SingleLeader /\ []PP!LeasesBalanced /\ []PP!NoLostWakeup
  BY <1>1, PP!ImplementsBarrier, PP!OneLeader, PP!LeaseIsShared, PP!NoFollowerForgotten
<1>3. Priming!Init => PP!Init
  BY DEF Priming!Init, PP!Init, Priming!PrimerInit, PP!PrimerInit
<1>4. UsesPrimer => PP!Spec
  BY <1>3, PrimingIsPrimer, PTL DEF UsesPrimer, Priming!Spec, PP!Spec
<1> QED BY <1>2, <1>4, PrimerUsed, PTL
=============================================================================
