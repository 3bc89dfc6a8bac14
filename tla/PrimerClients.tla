--------------------------- MODULE PrimerClients ---------------------------
(***************************************************************************)
(* A PrefixPrimer with arbitrary callers: any task may prime any key at    *)
(* any time, first() may return or fail at any time, hints expire at any   *)
(* time, and a task may be cancelled at any moment of its wait.            *)
(***************************************************************************)
EXTENDS PrefixPrimer

VARIABLES interrupted,  \* the waiting tasks that will resume with CancelledError
          scored        \* the leaders whose scoring call has succeeded

vars == <<warm, stale, leases, users, locked, queue, stage, goal, lease, interrupted, scored>>

TypeOK == PrimerTypeOK /\ interrupted \subseteq Task /\ scored \subseteq Task

Init == PrimerInit /\ interrupted = {} /\ scored = {}

-----------------------------------------------------------------------------
Prime(t, k) == (Skip(t, k) \/ Join(t, k)) /\ UNCHANGED <<interrupted, scored>>

\* Of one task, or of many at a moment (close() of the service).
CutShort(S) == /\ \A t \in S : stage[t] \in {"waiting", "woken", "cancelled"}
               /\ interrupted' = interrupted \union S
               /\ InterruptPrime(S)
               /\ UNCHANGED scored

Deliver(t) == /\ t \notin interrupted
              /\ TakeOver(t) \/ Follow(t)
              /\ UNCHANGED <<interrupted, scored>>

GiveUp(t) == /\ t \in interrupted
             /\ AbandonPrime(t)
             /\ interrupted' = interrupted \ {t}
             /\ UNCHANGED scored

\* The engine answers the leader's question.
FirstScored(t) == /\ stage[t] = "leading"
                  /\ t \notin scored
                  /\ scored' = scored \union {t}
                  /\ UNCHANGED <<warm, stale, leases, users, locked, queue, stage, goal,
                                 lease, interrupted>>

\* first() returns an answer or raises; a cancelled leader leaves it with an
\* exception, like a failed one, even if the answer has come.
FirstEnds(t) == /\ (t \in scored /\ FirstReturns(t)) \/ FirstFails(t)
                /\ scored' = scored \ {t}
                /\ UNCHANGED interrupted

HintExpires(k) == Expire(k) /\ UNCHANGED <<interrupted, scored>>

Next == \/ \E t \in Task : \/ \E k \in Key : Prime(t, k)
                           \/ Deliver(t) \/ GiveUp(t) \/ FirstScored(t) \/ FirstEnds(t)
        \/ \E S \in SUBSET Task : CutShort(S)
        \/ \E k \in Key : HintExpires(k)

Spec == Init /\ [][Next]_vars

\* The event loop runs every ready task and the leader's scoring call ends
\* (the backend client has a timeout), one way or the other.
Fairness == \A t \in Task : WF_vars(Deliver(t) \/ GiveUp(t)) /\ WF_vars(FirstEnds(t))

FairSpec == Spec /\ Fairness

-----------------------------------------------------------------------------
\* One leader per key, only while the key is cold, and only its success
\* warms the key: "Cancellation or failure never marks the prefix warm"
\* (scheduler.py:24-27, 45-65).
Barrier == INSTANCE PrimingBarrier WITH
              priming <- [k \in Key |-> Leaders(k)],
              scored <- scored,
              hot <- ToSet(warm) \ stale

RefinesPrimingBarrier == Barrier!Spec

\* Whoever waits behind a leader gets on, even if neither a hint expires nor
\* anybody is cancelled (scheduler.py:53-65).
EveryFollowerGetsOn ==
    \A t \in Task : stage[t] \in {"waiting", "woken", "cancelled"} ~> stage[t] \in {"out", "leading"}
=============================================================================
