------------------------------ MODULE Lifespan ------------------------------
(***************************************************************************)
(* The life of one gateway process: api.create_app's lifespan creates the  *)
(* service and its HTTP client, verifies the engine, raises the readiness  *)
(* flag, serves requests and /readyz, and closes everything; cli.doctor    *)
(* does the same without serving.  A check may fail, the process may be    *)
(* told to stop, and the coroutine may be cancelled, at any await.  What   *)
(* goes on inside the service is ServiceLife.                              *)
(***************************************************************************)
EXTENDS ServiceLife

CONSTANT Probe   \* the requests for /readyz

VARIABLES setup,   \* how the process was started
          main,    \* where the lifespan (or doctor) stands
          ready,   \* app.state.ready
          client,  \* the HTTP client of the backend: "none", "open", "closed"
          agreed,  \* the checks of verify_backend that have passed
          hit,     \* the coroutine was cancelled while it closes the service
          probe    \* each request for /readyz

vars == <<serviceVars, setup, main, ready, client, agreed, hit, probe>>

\* A service may be handed to create_app, with a client of its own ("owner")
\* or of somebody else ("guest"); otherwise it is created from the settings.
Setups == [kind : {"serve"}, verify : BOOLEAN, service : {"new", "owner", "guest"}]
              \union [kind : {"doctor"}, verify : {TRUE}, service : {"new"}]

\* check_tokenizer makes two requests, the scoring probe a third.
Checks == {"models", "tokenize", "score"}
After(check) == CASE check = "models" -> "tokenize"
                  [] check = "tokenize" -> "score"

TypeOK == /\ ServiceTypeOK
          /\ setup \in Setups
          /\ main \in {"loading", "serving", "closing", "over"} \union Checks
          /\ ready \in BOOLEAN /\ hit \in BOOLEAN
          /\ client \in {"none", "open", "closed"}
          /\ agreed \subseteq Checks
          /\ probe \in [Probe -> {"out", "asking", "ready", "unready", "error"}]

Init == /\ ServiceInit
        /\ setup \in Setups
        /\ main = "loading"
        /\ ready = FALSE
        /\ client = IF setup.service = "new" THEN "none" ELSE "open"
        /\ agreed = {}
        /\ hit = FALSE
        /\ probe = [p \in Probe |-> "out"]

-----------------------------------------------------------------------------
(* Start: create the service, check the engine, raise the flag. *)

(* Names of the form X_y are mutated forms of X: plausible bugs against     *)
(* which the properties are tried out.  The specification never uses them. *)

Shut_keepFlag == main' = "closing" /\ BeginClose /\ UNCHANGED ready

\* The finally block, up to the await in close().
Shut == main' = "closing" /\ ready' = FALSE /\ BeginClose

\* serve yields to the server; doctor is done with the engine.
Proceed == IF setup.kind = "serve"
           THEN main' = "serving" /\ ready' = TRUE /\ UNCHANGED serviceVars
           ELSE Shut

Begin_readyFirst == IF setup.verify
                    THEN /\ main' = "models"
                         /\ ready' = (setup.kind = "serve")
                         /\ UNCHANGED serviceVars
                    ELSE Proceed

Begin == IF setup.verify
         THEN main' = "models" /\ UNCHANGED <<ready, serviceVars>>
         ELSE Proceed

\* The compiler is loaded in a thread; the probe's own prompt may be refused.
Load == /\ main = "loading"
        /\ client' = "open"
        /\ \/ Begin
           \/ setup.verify /\ Shut
        /\ UNCHANGED <<setup, agreed, hit, probe>>

\* No tokenizer, or cancelled while it loads: there is nothing to close yet.
LoadFails == /\ main = "loading"
             /\ setup.service = "new"
             /\ main' = "over"
             /\ UNCHANGED <<serviceVars, setup, ready, client, agreed, hit, probe>>

CheckPasses == /\ main \in Checks
               /\ agreed' = agreed \union {main}
               /\ IF main = "score" THEN Proceed
                  ELSE main' = After(main) /\ UNCHANGED <<ready, serviceVars>>
               /\ UNCHANGED <<setup, client, hit, probe>>

CheckFails_leak == /\ main \in Checks
                   /\ main' = "over"
                   /\ UNCHANGED <<serviceVars, setup, ready, client, agreed, hit, probe>>

\* The engine cannot be reached, disagrees, or the coroutine is cancelled.
CheckFails == /\ main \in Checks
              /\ Shut
              /\ UNCHANGED <<setup, client, agreed, hit, probe>>

-----------------------------------------------------------------------------
(* Stop: lower the flag, close the service, let the client go. *)

\* The server calls for the end of the lifespan, or cancels it.
Stop == /\ main = "serving"
        /\ Shut
        /\ UNCHANGED <<setup, client, agreed, hit, probe>>

\* The server, or Ctrl-C, cancels the coroutine in close().
CancelClose == /\ main = "closing"
               /\ ~hit
               /\ hit' = TRUE
               /\ UNCHANGED <<serviceVars, setup, main, ready, client, agreed, probe>>

\* backend.close() leaves a client alone that it does not own; a cancelled
\* close() does not reach it, or cuts it short.
Closed == /\ main = "closing"
          /\ main' = "over"
          /\ IF hit THEN AbandonClose /\ UNCHANGED client
             ELSE EndClose /\ client' = IF setup.service = "guest" THEN client ELSE "closed"
          /\ UNCHANGED <<setup, ready, agreed, hit, probe>>

-----------------------------------------------------------------------------
(* While the application is up: requests, their calls, and /readyz.  The    *)
(* server may let requests run on, and come in, while the lifespan ends.    *)

Up == setup.kind = "serve" /\ main \in {"serving", "closing"}

Served == /\ Up
          /\ \/ \E r \in Request : RequestSteps(r)
             \/ \E c \in Call : Post(c) \/ EndCall(c)
          /\ UNCHANGED <<setup, main, ready, client, agreed, hit, probe>>

\* What the event loop does by itself with a request that was cut.
Unwinds(r) == /\ r \in cut
              /\ \/ Leave(r)
                 \/ \E c \in CallsOf(r) : EndCall(c)
              /\ UNCHANGED <<setup, main, ready, client, agreed, hit, probe>>

\* The flag is read and the request to the engine made in one stretch.
AskReady(p) == /\ Up
               /\ probe[p] = "out"
               /\ probe' = [probe EXCEPT ![p] = IF ready THEN "asking" ELSE "unready"]
               /\ UNCHANGED <<serviceVars, setup, main, ready, client, agreed, hit>>

\* No gate and no task set holds these: a client that is closed meanwhile
\* fails them.
ProbeAnswered(p) == /\ probe[p] = "asking"
                    /\ \E a \in {"error"} \union IF client = "open" THEN {"ready"} ELSE {} :
                          probe' = [probe EXCEPT ![p] = a]
                    /\ UNCHANGED <<serviceVars, setup, main, ready, client, agreed, hit>>

Over == main = "over" /\ UNCHANGED vars

Next == \/ Load \/ LoadFails \/ CheckPasses \/ CheckFails
        \/ Stop \/ CancelClose \/ Closed
        \/ Served
        \/ \E p \in Probe : AskReady(p) \/ ProbeAnswered(p)
        \/ Over

Spec == Init /\ [][Next]_vars

\* A check ends by an answer or by its HTTP timeout, and the loop unwinds what
\* was cut.  Loading may take for ever, and so may a request nobody cuts.
FairSpec == /\ Spec
            /\ WF_vars(CheckPasses \/ CheckFails)
            /\ WF_vars(Closed)
            /\ \A r \in Request : WF_vars(Unwinds(r))

-----------------------------------------------------------------------------
\* The flag is up exactly while the application serves: not before every check
\* asked for has passed, whatever failed on the way, and not once the service
\* closes, so that /readyz never calls on a client that is gone
\* (api.py:124-133, 170-174; docs/deployment.md:21: a failed probe prevents readiness).
ReadyMeansServing ==
    /\ main = "serving" => ready
    /\ ready => /\ main = "serving"
                /\ closing = "no" /\ client = "open"
                /\ setup.verify => agreed = Checks

\* The HTTP client outlives its users: it is let go only when no request is
\* left inside and no call in flight, and nobody calls on it after that
\* (service.py:55-61, api.py:131-133, 170-175).
Asking == {p \in Probe : probe[p] = "asking"}
CarefulStep == /\ client' = "closed" /\ client # "closed" => Inside' = {} /\ calls' = {}
               /\ client # "open" => calls' \subseteq calls /\ Asking' \subseteq Asking
ClientOutlivesUsers == [][CarefulStep]_vars

\* However the process came to its end (a failed start, a failed check, a
\* normal stop), what it created is closed; only a client of somebody else,
\* or one whose close() was cancelled, stays open
\* (api.py:126-133, cli.py:121-125, backend.py:50-52).
NothingLeftOpen ==
    main = "over" => /\ ~ready /\ Inside = {} /\ calls = {}
                     /\ client = "open" => setup.service = "guest" \/ hit

\* A start that has its compiler either serves or ends, and an application
\* that is told to stop ends, although its requests would go on for ever
\* (api.py:126-133, service.py:55-61).
LifeEnds == /\ main \in Checks ~> main \in {"serving", "over"}
            /\ main = "closing" ~> main = "over"
=============================================================================
