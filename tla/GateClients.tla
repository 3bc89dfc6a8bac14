---------------------------- MODULE GateClients ----------------------------
(***************************************************************************)
(* An AdmissionGate with arbitrary users of slot(): any task may ask at    *)
(* any time, give its slot up at any time after it got it, and be          *)
(* interrupted (asyncio.timeout inside acquire(), or a cancellation from   *)
(* outside) at any moment of its wait.  Ready tasks resume in any order,   *)
(* which includes the order of the event loop's ready queue.               *)
(***************************************************************************)
EXTENDS AdmissionGate

VARIABLE interrupted   \* the suspended tasks that will resume with CancelledError

vars == <<active, waiters, at, interrupted>>

TypeOK == GateTypeOK /\ interrupted \subseteq Task

Init == GateInit /\ interrupted = {}

-----------------------------------------------------------------------------
Arrive(t) == /\ Enter(t) \/ Enqueue(t) \/ Reject(t)
             /\ UNCHANGED interrupted

\* Queue timers fire and callers cancel, perhaps many at a moment (close() of
\* the service); a second cancel() of a task changes nothing.
CutShort(S) == /\ \A t \in S : Suspended(t)
               /\ interrupted' = interrupted \union S
               /\ Interrupt(S)

\* The task is scheduled again: with its slot, or with the CancelledError.
Deliver(t) == /\ t \notin interrupted
              /\ Resume(t)
              /\ UNCHANGED interrupted

GiveUp(t) == /\ t \in interrupted
             /\ Abandon(t)
             /\ interrupted' = interrupted \ {t}

\* The end of the body of slot(), normal or exceptional.
Leave(t) == Release(t) /\ UNCHANGED interrupted

Next == \/ \E t \in Task : Arrive(t) \/ Deliver(t) \/ GiveUp(t) \/ Leave(t)
        \/ \E S \in SUBSET Task : CutShort(S)

Spec == Init /\ [][Next]_vars

\* The event loop runs every ready task, and the body of slot() ends: its
\* callers bound it (the request deadline, the HTTP timeout).  No fairness
\* on timers, arrivals or cancellations.
Fairness == \A t \in Task : /\ WF_vars(Deliver(t) \/ GiveUp(t))
                            /\ WF_vars(Leave(t))

FairSpec == Spec /\ Fairness

-----------------------------------------------------------------------------
\* The gate is FIFO: no step overtakes a pending waiter (admission.py:1, 34, 64).
FifoGrants == [][NoOvertaking]_vars

\* The gate implements the pool: an owner is a task that holds or was granted
\* a slot, the line is the pending part of the deque.
Line == {t \in Task : at[t] = "pending"}
Ahead == {p \in Line \X Line :
            \E i, j \in DOMAIN waiters : i < j /\ p = <<waiters[i], waiters[j]>>}

Pool == INSTANCE SlotPool WITH owners <- Owners, line <- Line, ahead <- Ahead

RefinesSlotPool == Pool!Spec

\* Every wait ends, with or without a slot, even if no timer ever fires
\* (admission.py:41-56, 63-67).
EveryWaitEnds == \A t \in Task : Suspended(t) ~> ~Suspended(t)
=============================================================================
