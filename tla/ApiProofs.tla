------------------------------ MODULE ApiProofs ------------------------------
(***************************************************************************)
(* The safety properties of the two parts of api.py.  First the body-limit *)
(* middleware, for every limit and every division of the body into pieces; *)
(* then the life of a gateway process, for every set of requests and       *)
(* probes, every way to start it, and a service that does no more than     *)
(* ServiceLife allows.                                                     *)
(***************************************************************************)
EXTENDS BodyLimit, Lifespan, TLAPS

-----------------------------------------------------------------------------
(* The body-limit middleware. *)

\* While the body is read nothing has been started, answered or cut.
Reading == pc = "reading" => /\ app = "none" /\ cutTasks = {} /\ size <= MaxBytes
                             /\ \A a \in DOMAIN answers : answers[a] = 0

\* Without an application, the middleware reads or has ended with a refusal,
\* or because the other side left.
Unstarted == app = "none" =>
    /\ pc \in {"reading", "done"} /\ cutTasks = {} /\ answers["app"] = 0
    /\ answers["413"] + answers["422"] <= 1
    /\ answers["413"] = 1 <=> size > MaxBytes
    /\ pc = "done" => gone \/ dropped \/ answers["413"] + answers["422"] = 1

\* The application has the whole, bounded body and is the only one to answer.
Started == app # "none" =>
    /\ pc # "reading" /\ size <= MaxBytes
    /\ answers["413"] = 0 /\ answers["422"] = 0 /\ answers["app"] <= 1
    /\ app = "returned" => answers["app"] = 1

\* The watcher returns only for a closed channel and never fails, and what
\* is cut is cut for a reason: this is why a client that stays is answered.
Reasons == /\ watcher = "returned" => ChannelClosed
           /\ watcher # "failed"
           /\ pc = "waiting" => cutTasks = {} /\ app # "cancelled" /\ watcher # "cancelled"
           /\ "app" \in cutTasks \/ app = "cancelled" => dropped \/ ChannelClosed

\* On the way out both tasks are cut or over, and at the end both are over.
Closing == /\ pc = "closing" => Unfinished \subseteq cutTasks
           /\ pc = "done" /\ app # "none" => Unfinished = {}

BodyInv == BodyTypeOK /\ Reading /\ Unstarted /\ Started /\ Reasons /\ Closing

-----------------------------------------------------------------------------
LEMMA InitBodyInv == BodyInit => BodyInv
<1> SUFFICES ASSUME BodyInit PROVE BodyInv
  OBVIOUS
<1>1. answers \in [{"413", "422", "app"} -> Nat] /\ \A a \in DOMAIN answers : answers[a] = 0
  BY DEF BodyInit
<1>2. BodyTypeOK
  BY <1>1 DEF BodyInit, BodyTypeOK, Ended
<1>3. Reading /\ Unstarted
  BY <1>1, LimitAssumption DEF BodyInit, Reading, Unstarted
<1>4. Started /\ Reasons /\ Closing
  BY DEF BodyInit, Started, Reasons, Closing
<1> QED BY <1>2, <1>3, <1>4 DEF BodyInv

LEMMA NextBodyInv == BodyInv /\ [BodyNext]_bodyVars => BodyInv'
<1> SUFFICES ASSUME BodyInv, [BodyNext]_bodyVars PROVE BodyInv'
  OBVIOUS
<1> USE LimitAssumption DEF BodyInv, BodyTypeOK, Reading, Unstarted, Started, Reasons, Closing,
        Ended, ChannelClosed, Unfinished, clientVars
<1>1. ASSUME NEW n \in ChunkSizes, NEW more \in BOOLEAN, Chunk(n, more) PROVE BodyInv'
  <2>1. n \in Nat OBVIOUS
  <2> QED BY <1>1, <2>1 DEF Chunk, TooLarge, Answer
<1>2. CASE BodyAbandoned BY <1>2 DEF BodyAbandoned
<1>3. CASE Dropped BY <1>3 DEF Dropped
<1>4. CASE WaitEnds BY <1>4 DEF WaitEnds, CutOnReturn
<1>5. CASE Returns BY <1>5 DEF Returns, Settled
<1>6. CASE AppSteps BY <1>6 DEF AppSteps, Answer
<1>7. CASE AppCut BY <1>7 DEF AppCut
<1>8. CASE WatcherSteps BY <1>8 DEF WatcherSteps, Disconnected
<1>9. CASE Disconnect BY <1>9 DEF Disconnect
<1>10. CASE Drop BY <1>10 DEF Drop
<1>11. CASE UNCHANGED bodyVars BY <1>11 DEF bodyVars
<1> QED BY <1>1, <1>2, <1>3, <1>4, <1>5, <1>6, <1>7, <1>8, <1>9, <1>10, <1>11
        DEF BodyNext, Middleware, Idle

THEOREM BodyInvariance == BodySpec => []BodyInv
BY InitBodyInv, NextBodyInv, PTL DEF BodySpec

-----------------------------------------------------------------------------
\* The state keeps its shape; in particular the two tasks are created
\* together (api.py:90-91).
THEOREM BodyTypeCorrect == BodySpec => []BodyTypeOK
BY BodyInvariance, PTL DEF BodyInv

\* A client that stays has its one answer when the middleware returns, and a
\* body over the limit is refused for its size (api.py:41-58, 84-100).
THEOREM StayingIsAnswered == BodySpec => []StayingClientIsAnswered
<1>1. ASSUME BodyInv, app = "none" PROVE StayingClientIsAnswered
  BY <1>1 DEF BodyInv, BodyTypeOK, Unstarted, StayingClientIsAnswered
<1>2. ASSUME BodyInv, app # "none" PROVE StayingClientIsAnswered
  <2> DEFINE sent == answers["413"] + answers["422"] + answers["app"]
  <2>1. answers["413"] = 0 /\ answers["422"] = 0 /\ answers["app"] \in {0, 1}
    BY <1>2 DEF BodyInv, BodyTypeOK, Started
  <2>2. sent = answers["app"] /\ sent <= 1
    BY <2>1
  <2>3. ASSUME pc = "done", ~gone, ~dropped, app # "failed" PROVE answers["app"] = 1
    <3>1. app \in {"returned", "cancelled"}
      BY <1>2, <2>3 DEF BodyInv, BodyTypeOK, Closing, Unfinished, Ended
    <3>2. CASE app = "returned"
      BY <1>2, <3>2 DEF BodyInv, Started
    <3>3. CASE app = "cancelled"
      <4>1. \E a \in DOMAIN answers : answers[a] > 0
        BY <1>2, <2>3, <3>3 DEF BodyInv, Reasons, ChannelClosed
      <4>2. DOMAIN answers = {"413", "422", "app"}
        BY <1>2 DEF BodyInv, BodyTypeOK
      <4> QED BY <2>1, <4>1, <4>2
    <3> QED BY <3>1, <3>2, <3>3
  <2>4. size <= MaxBytes /\ size \in Nat
    BY <1>2 DEF BodyInv, BodyTypeOK, Started
  <2> QED BY <1>2, <2>1, <2>2, <2>3, <2>4, LimitAssumption DEF StayingClientIsAnswered
<1>3. BodyInv => StayingClientIsAnswered
  BY <1>1, <1>2
<1> QED BY <1>3, BodyInvariance, PTL

\* When the middleware returns, neither of its tasks is alive, however often
\* it is cancelled on the way (api.py:101-105).
THEOREM NothingSurvives == BodySpec => []NoTaskSurvives
<1>1. BodyInv => NoTaskSurvives
  BY DEF BodyInv, Closing, NoTaskSurvives, Unfinished
<1> QED BY <1>1, BodyInvariance, PTL
-----------------------------------------------------------------------------
(* The life of the process. *)

\* A call belongs to a request that is inside.
CallsInside == \A c \in calls : c[1] \in Inside

\* Until the application serves, the service has seen no request, and the
\* checks are passed in their order.
Starting ==
    /\ main \in {"loading"} \union Checks =>
          ~ready /\ closing = "no" /\ Inside = {}
    /\ main = "loading" /\ setup.service = "new" => client = "none"
    /\ main \in Checks => client = "open" /\ setup.verify
    /\ main = "tokenize" => "models" \in agreed
    /\ main = "score" => {"models", "tokenize"} \subseteq agreed

Serving == main = "serving" =>
    /\ ready /\ closing = "no" /\ client = "open" /\ setup.kind = "serve"
    /\ setup.verify => agreed = Checks

\* The flag is down before close() has run any further, and close() has cut
\* everybody: nobody can post any more.
ShuttingDown == main = "closing" => ~ready /\ closing = "draining" /\ client = "open"

Gone == main = "over" => /\ ~ready /\ Inside = {}
                         /\ client = "open" => setup.service = "guest" \/ hit

LifeInv == TypeOK /\ CallsInside /\ Starting /\ Serving /\ ShuttingDown /\ Gone

-----------------------------------------------------------------------------
LEMMA InitLifeInv == Init => LifeInv
<1> SUFFICES ASSUME Init PROVE LifeInv
  OBVIOUS
<1>1. TypeOK
  BY DEF Init, ServiceInit, TypeOK, ServiceTypeOK, Setups, Checks
<1>2. Inside = {} /\ CallsInside
  BY DEF Init, ServiceInit, Inside, CallsInside
<1>3. Starting /\ Serving /\ ShuttingDown /\ Gone
  BY <1>2 DEF Init, ServiceInit, Starting, Serving, ShuttingDown, Gone, Checks
<1> QED BY <1>1, <1>2, <1>3 DEF LifeInv

\* A step of a request or of a call leaves the calls with their requests,
\* and lets nobody in once the service closes.
LEMMA ServiceKeeps ==
    ASSUME ServiceTypeOK, CallsInside,
           \/ \E r \in Request : RequestSteps(r)
           \/ \E c \in Call : Post(c) \/ EndCall(c)
    PROVE  ServiceTypeOK' /\ CallsInside' /\ closing' = closing
<1> USE DEF ServiceTypeOK, CallsInside, Inside, Call
<1>1. ASSUME NEW r \in Request, Enter(r) \/ TurnAway(r) \/ CutRequest(r)
      PROVE  ServiceTypeOK' /\ CallsInside' /\ closing' = closing
  BY <1>1 DEF Enter, TurnAway, CutRequest, Moves
<1>2. ASSUME NEW r \in Request, Leave(r)
      PROVE  ServiceTypeOK' /\ CallsInside' /\ closing' = closing
  BY <1>2 DEF Leave, Moves, CallsOf
<1>3. ASSUME NEW c \in Call, Post(c) \/ EndCall(c)
      PROVE  ServiceTypeOK' /\ CallsInside' /\ closing' = closing
  BY <1>3 DEF Post, EndCall
<1> QED BY <1>1, <1>2, <1>3 DEF RequestSteps

\* The finally block begins with nobody lost.
LEMMA ShutKeeps ==
    ASSUME LifeInv, Shut, client' = "open", UNCHANGED <<setup, hit, probe>>,
           agreed' \subseteq Checks
    PROVE  LifeInv'
BY DEF LifeInv, TypeOK, ServiceTypeOK, CallsInside, Starting, Serving, ShuttingDown, Gone,
       Shut, BeginClose, Inside, Checks

\* The application goes up with all its checks passed, or doctor shuts down.
LEMMA ProceedKeeps ==
    ASSUME LifeInv, Proceed, client' = "open", UNCHANGED <<setup, hit, probe>>,
           agreed' \subseteq Checks, setup.verify => agreed' = Checks,
           closing = "no"
    PROVE  LifeInv'
<1>1. CASE setup.kind = "serve"
  BY <1>1 DEF LifeInv, TypeOK, ServiceTypeOK, CallsInside, Starting, Serving, ShuttingDown, Gone,
              Proceed, serviceVars, Inside, Checks
<1>2. CASE setup.kind # "serve"
  BY <1>2, ShutKeeps DEF Proceed
<1> QED BY <1>1, <1>2

LEMMA NextLifeInv == LifeInv /\ [Next]_vars => LifeInv'
<1> SUFFICES ASSUME LifeInv, [Next]_vars PROVE LifeInv'
  OBVIOUS
<1>1. CASE Load
  <2>1. main = "loading" /\ closing = "no" /\ agreed \subseteq Checks
    BY <1>1 DEF Load, LifeInv, TypeOK, Starting
  <2>2. CASE setup.verify /\ Shut
    BY <1>1, <2>1, <2>2, ShutKeeps DEF Load
  <2>3. CASE ~setup.verify /\ Proceed
    BY <1>1, <2>1, <2>3, ProceedKeeps DEF Load
  <2>4. CASE setup.verify /\ main' = "models" /\ UNCHANGED <<ready, serviceVars>>
    BY <1>1, <2>1, <2>4 DEF Load, LifeInv, TypeOK, ServiceTypeOK, CallsInside, Starting, Serving,
            ShuttingDown, Gone, serviceVars, Inside, Checks
  <2> QED BY <1>1, <2>2, <2>3, <2>4 DEF Load, Begin
<1>2. CASE LoadFails
  BY <1>2 DEF LoadFails, LifeInv, TypeOK, ServiceTypeOK, CallsInside, Starting, Serving,
          ShuttingDown, Gone, serviceVars, Inside, Checks
<1>3. CASE CheckPasses
  <2>1. main \in Checks /\ closing = "no" /\ client' = "open" /\ agreed' \subseteq Checks
    BY <1>3 DEF CheckPasses, LifeInv, TypeOK, Starting
  <2>2. CASE main = "score"
    BY <1>3, <2>1, <2>2, ProceedKeeps DEF CheckPasses, LifeInv, Starting, Checks
  <2>3. CASE main # "score"
    BY <1>3, <2>1, <2>3 DEF CheckPasses, After, LifeInv, TypeOK, ServiceTypeOK, CallsInside,
            Starting, Serving, ShuttingDown, Gone, serviceVars, Inside, Checks
  <2> QED BY <2>2, <2>3
<1>4. CASE CheckFails
  BY <1>4, ShutKeeps DEF CheckFails, LifeInv, TypeOK, Starting
<1>5. CASE Stop
  BY <1>5, ShutKeeps DEF Stop, LifeInv, TypeOK, Serving
<1>6. CASE CancelClose
  BY <1>6 DEF CancelClose, LifeInv, TypeOK, ServiceTypeOK, CallsInside, Starting, Serving,
          ShuttingDown, Gone, serviceVars, Inside, Checks
<1>7. CASE Closed
  BY <1>7 DEF Closed, AbandonClose, EndClose, Drained, LifeInv, TypeOK, ServiceTypeOK, CallsInside,
          Starting, Serving, ShuttingDown, Gone, Inside, Checks
<1>8. CASE Served
  <2>1. ServiceTypeOK' /\ CallsInside' /\ closing' = closing
    BY <1>8, ServiceKeeps DEF Served, LifeInv, TypeOK
  <2> QED BY <1>8, <2>1 DEF Served, Up, LifeInv, TypeOK, Starting, Serving, ShuttingDown, Gone, Checks
<1>9. ASSUME NEW p \in Probe, AskReady(p) \/ ProbeAnswered(p) PROVE LifeInv'
  <2>1. UNCHANGED <<serviceVars, setup, main, ready, client, agreed, hit>>
    BY <1>9 DEF AskReady, ProbeAnswered
  <2>2. PICK a \in {"asking", "unready", "error", "ready"} : probe' = [probe EXCEPT ![p] = a]
    BY <1>9 DEF AskReady, ProbeAnswered
  <2>3. TypeOK'
    BY <2>1, <2>2 DEF LifeInv, TypeOK, ServiceTypeOK, serviceVars
  <2> QED BY <2>1, <2>3 DEF LifeInv, CallsInside, Starting, Serving, ShuttingDown, Gone,
          serviceVars, Inside
<1>10. CASE UNCHANGED vars
  BY <1>10 DEF vars, serviceVars, LifeInv, TypeOK, ServiceTypeOK, CallsInside, Starting, Serving,
          ShuttingDown, Gone, Inside, Checks
<1> QED BY <1>1, <1>2, <1>3, <1>4, <1>5, <1>6, <1>7, <1>8, <1>9, <1>10 DEF Next, Over

THEOREM LifeInvariance == Spec => []LifeInv
BY InitLifeInv, NextLifeInv, PTL DEF Spec

-----------------------------------------------------------------------------
\* The state keeps its shape (api.py:118-133).
THEOREM LifeTypeCorrect == Spec => []TypeOK
BY LifeInvariance, PTL DEF LifeInv

\* Readiness is told exactly while the application serves
\* (api.py:124-133, 170-174).
THEOREM ReadinessIsTrue == Spec => []ReadyMeansServing
<1>1. LifeInv => ReadyMeansServing
  BY DEF LifeInv, TypeOK, Starting, Serving, ShuttingDown, Gone, ReadyMeansServing
<1> QED BY <1>1, LifeInvariance, PTL

\* Whatever ended the process has closed what it created
\* (api.py:126-133, cli.py:121-125, backend.py:50-52).
THEOREM EverythingIsClosed == Spec => []NothingLeftOpen
<1>1. LifeInv => NothingLeftOpen
  BY DEF LifeInv, Gone, CallsInside, NothingLeftOpen
<1> QED BY <1>1, LifeInvariance, PTL

\* Nobody calls on a client that was let go, and it is let go after its last
\* user (service.py:55-61, api.py:135-136, 172-175).
THEOREM ClientIsLast == Spec => ClientOutlivesUsers
<1>1. ASSUME LifeInv, [Next]_vars PROVE [CarefulStep]_vars
  <2>1. CASE Closed
    BY <1>1, <2>1 DEF Closed, AbandonClose, EndClose, Drained, LifeInv, CallsInside, CarefulStep,
            Inside, Asking
  <2>2. CASE Served
    BY <1>1, <2>2 DEF Served, Up, LifeInv, Serving, ShuttingDown, CarefulStep, Asking
  <2>3. ASSUME NEW p \in Probe, AskReady(p) PROVE CarefulStep
    <3>1. calls' = calls /\ client' = client
      BY <2>3 DEF AskReady, serviceVars
    <3>2. CASE ready
      BY <1>1, <3>1, <3>2 DEF LifeInv, TypeOK, Starting, Serving, ShuttingDown, Gone, CarefulStep
    <3>3. CASE ~ready
      BY <1>1, <2>3, <3>1, <3>3 DEF AskReady, LifeInv, TypeOK, CarefulStep, Asking
    <3> QED BY <3>2, <3>3
  <2>4. ASSUME NEW p \in Probe, ProbeAnswered(p) PROVE CarefulStep
    BY <1>1, <2>4 DEF ProbeAnswered, serviceVars, LifeInv, TypeOK, CarefulStep, Asking
  <2>5. CASE Load \/ LoadFails \/ CheckPasses \/ CheckFails \/ Stop \/ CancelClose
    <3>1. calls' = calls /\ probe' = probe /\ (client' # "closed" \/ client' = client)
      BY <2>5 DEF Load, LoadFails, CheckPasses, CheckFails, Stop, CancelClose, Begin, Proceed,
              Shut, BeginClose, serviceVars
    <3> QED BY <3>1 DEF CarefulStep, Asking
  <2>6. CASE UNCHANGED vars
    BY <2>6
  <2> QED BY <1>1, <2>1, <2>2, <2>3, <2>4, <2>5, <2>6 DEF Next, Over
<1> QED BY <1>1, LifeInvariance, PTL DEF Spec, ClientOutlivesUsers
=============================================================================
