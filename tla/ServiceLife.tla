----------------------------- MODULE ServiceLife -----------------------------
(***************************************************************************)
(* What ClassificationService promises to whoever starts and stops it,     *)
(* without its gates, its primer and its fan-out: requests come and go,    *)
(* those inside make HTTP calls, a request that is cut makes no more of    *)
(* them, and close() turns newcomers away, cuts whoever is inside, and     *)
(* waits for them before it lets the HTTP client go.                       *)
(* ClassificationService implements this; Lifespan builds on it.           *)
(***************************************************************************)
EXTENDS Integers, FiniteSets

CONSTANTS Request,     \* the requests for a classification
          Lane,        \* tells the calls of one request apart
          MaxInFlight  \* backend.max_in_flight

VARIABLES place,    \* of each request: "out", "inside" (in _tasks) or "left"
          cut,      \* the requests with a cancellation under way
          calls,    \* the HTTP calls in flight
          closing   \* close(): "no", "draining", "closed", or "abandoned" by its caller

serviceVars == <<place, cut, calls, closing>>

Call == Request \X Lane
Inside == {r \in Request : place[r] = "inside"}
CallsOf(r) == {c \in calls : c[1] = r}

ServiceTypeOK == /\ place \in [Request -> {"out", "inside", "left"}]
                 /\ cut \subseteq Request
                 /\ calls \subseteq Call
                 /\ closing \in {"no", "draining", "closed", "abandoned"}

ServiceInit == /\ place = [r \in Request |-> "out"]
               /\ cut = {}
               /\ calls = {}
               /\ closing = "no"

-----------------------------------------------------------------------------
(* Names of the form X_y are mutated forms of X: plausible bugs against     *)
(* which the properties are tried out.  The specification never uses them. *)

Moves(r, from, to) == place[r] = from /\ place' = [place EXCEPT ![r] = to]

\* _run registers the task; or it, or the gate, turns the request away.
Enter(r) == closing = "no" /\ Moves(r, "out", "inside") /\ UNCHANGED <<cut, calls, closing>>

TurnAway(r) == Moves(r, "out", "left") /\ UNCHANGED <<cut, calls, closing>>

\* A scoring call got its slot and posts.
Post(c) == /\ c[1] \in Inside \ cut
           /\ c \notin calls
           /\ Cardinality(calls) < MaxInFlight
           /\ calls' = calls \union {c}
           /\ UNCHANGED <<place, cut, closing>>

\* The engine answered, the request failed, or the call was cut.
EndCall(c) == c \in calls /\ calls' = calls \ {c} /\ UNCHANGED <<place, cut, closing>>

\* A deadline, a disconnect or a queue timer.
CutRequest(r) == r \in Inside /\ cut' = cut \union {r} /\ UNCHANGED <<place, calls, closing>>

Leave(r) == /\ CallsOf(r) = {}
            /\ Moves(r, "inside", "left")
            /\ cut' = cut \ {r}
            /\ UNCHANGED <<calls, closing>>

BeginClose_noCancel == closing = "no" /\ closing' = "draining" /\ UNCHANGED <<place, cut, calls>>

BeginClose == /\ closing = "no"
              /\ closing' = "draining"
              /\ cut' = cut \union Inside
              /\ UNCHANGED <<place, calls>>

Drained_any == closing = "draining"

Drained == closing = "draining" /\ Inside = {}

\* The tasks are gathered; who awaits close() may have been cancelled meanwhile.
EndClose == Drained /\ closing' = "closed" /\ UNCHANGED <<place, cut, calls>>
AbandonClose == Drained /\ closing' = "abandoned" /\ UNCHANGED <<place, cut, calls>>

RequestSteps(r) == Enter(r) \/ TurnAway(r) \/ CutRequest(r) \/ Leave(r)

ServiceNext == \/ \E r \in Request : RequestSteps(r)
               \/ \E c \in Call : Post(c) \/ EndCall(c)
               \/ BeginClose \/ EndClose \/ AbandonClose

ServiceSpec == ServiceInit /\ [][ServiceNext]_serviceVars
=============================================================================
