--------------------------- MODULE AdmissionGate ---------------------------
(***************************************************************************)
(* admission.AdmissionGate: `capacity` slots and a bounded FIFO of futures *)
(* of the tasks that wait for one.  The gate lives on one event loop, so a *)
(* coroutine runs undisturbed between two suspensions and every action     *)
(* below is one such stretch.                                              *)
(*                                                                         *)
(* The module holds the gate's state and operations only; GateClients      *)
(* closes it with arbitrary callers and ClassificationService instantiates *)
(* it twice, for the requests and for the scoring calls.                   *)
(***************************************************************************)
EXTENDS Integers, Sequences, FiniteSets, FiniteSetsExt

CONSTANTS Task,       \* the tasks that call acquire()
          Capacity,   \* capacity
          MaxQueued   \* max_queued

\* The ValueError of __init__ refuses anything else.
ASSUME GateAssumption == /\ Capacity \in Nat \ {0}
                         /\ MaxQueued \in Nat

VARIABLES active,    \* self.active
          waiters,   \* self._waiters, each future named by the task awaiting it
          at         \* where each task stands with this gate

gateVars == <<active, waiters, at>>

\* "out":       not in the gate
\* "pending":   suspended on a future nobody has touched
\* "granted":   its future has a result, the task has not resumed yet
\* "cancelled": its future was cancelled, the task has not resumed yet
\* "holding":   acquire() returned, release() is still to come
Place == {"out", "pending", "granted", "cancelled", "holding"}

GateTypeOK == /\ active \in Nat
              /\ waiters \in Seq(Task)
              /\ at \in [Task -> Place]

GateInit == /\ active = 0
            /\ waiters = <<>>
            /\ at = [t \in Task |-> "out"]

Suspended(t) == at[t] \in {"pending", "granted", "cancelled"}

-----------------------------------------------------------------------------
(* Names of the form X_y are mutated forms of X: plausible bugs against     *)
(* which the properties are tried out.  The specification never uses them. *)

CanEnter == active < Capacity /\ waiters = <<>>

IsFull == Len(waiters) >= MaxQueued

\* The positions among the first n futures that are not done().
Live(n) == {i \in 1 .. n : at[waiters[i]] = "pending"}

\* How many futures the loop of release() pops: it stops when the deque is
\* empty or when the slots freed so far are given away again.
Popped == Min({n \in 0 .. Len(waiters) :
                 \/ n = Len(waiters)
                 \/ Cardinality(Live(n)) >= Capacity - (active - 1)})

Heirs == {waiters[i] : i \in Live(Popped)}

-----------------------------------------------------------------------------
(* acquire() up to its first suspension: three ways to go. *)

Enter(t) == /\ at[t] = "out"
            /\ CanEnter
            /\ active' = active + 1
            /\ at' = [at EXCEPT ![t] = "holding"]
            /\ UNCHANGED waiters

Enqueue_front(t) == /\ at[t] = "out"
                    /\ ~CanEnter
                    /\ ~IsFull
                    /\ waiters' = <<t>> \o waiters
                    /\ at' = [at EXCEPT ![t] = "pending"]
                    /\ UNCHANGED active

Enqueue(t) == /\ at[t] = "out"
              /\ ~CanEnter
              /\ ~IsFull
              /\ waiters' = Append(waiters, t)
              /\ at' = [at EXCEPT ![t] = "pending"]
              /\ UNCHANGED active

\* BackendBusy "queue is full".
Reject(t) == /\ at[t] = "out"
             /\ ~CanEnter
             /\ IsFull
             /\ UNCHANGED gateVars

-----------------------------------------------------------------------------
(* release() of the slot that t owns, run by t. *)

HandOn_pop(t) ==
    LET pending == {i \in DOMAIN waiters : at[waiters[i]] = "pending"}
        last == Max(pending)
    IN  /\ active > 0
        /\ IF pending = {}
           THEN /\ active' = active - 1
                /\ waiters' = <<>>
                /\ at' = [at EXCEPT ![t] = "out"]
           ELSE /\ waiters' = SubSeq(waiters, 1, last - 1)
                /\ at' = [at EXCEPT ![t] = "out", ![waiters[last]] = "granted"]
                /\ UNCHANGED active

HandOn_dropGrant(t) ==
    /\ active > 0
    /\ active' = active - 1
    /\ at' = [at EXCEPT ![t] = "out"]
    /\ UNCHANGED waiters

HandOn(t) ==
    /\ active > 0
    /\ active' = (active - 1) + Cardinality(Live(Popped))
    /\ waiters' = SubSeq(waiters, Popped + 1, Len(waiters))
    /\ at' = [u \in Task |-> IF u = t THEN "out"
                             ELSE IF u \in Heirs THEN "granted" ELSE at[u]]

Release(t) == at[t] = "holding" /\ HandOn(t)

-----------------------------------------------------------------------------
(* The end of a suspension. *)

\* Task.cancel() of every task in S, whoever calls it (a timer, a caller):
\* a future that is still pending becomes cancelled, one that already has
\* its result keeps it and the task alone learns of the cancellation.
Interrupt(S) ==
    /\ at' = [t \in Task |-> IF t \in S /\ at[t] = "pending"
                             THEN "cancelled" ELSE at[t]]
    /\ UNCHANGED <<active, waiters>>

\* The awaited future delivers its result.
Resume(t) == /\ at[t] = "granted"
             /\ at' = [at EXCEPT ![t] = "holding"]
             /\ UNCHANGED <<active, waiters>>

\* deque.remove: nothing to do when release() already skipped the future.
Without_nop(t) == waiters

Without(t) == IF \E i \in DOMAIN waiters : waiters[i] = t
              THEN LET i == CHOOSE i \in DOMAIN waiters : waiters[i] = t
                   IN  SubSeq(waiters, 1, i - 1) \o SubSeq(waiters, i + 1, Len(waiters))
              ELSE waiters

\* The except branch of acquire(), entered with a CancelledError: pass on
\* the slot that was granted in the meantime, or leave the deque.
Abandon_keepGrant(t) ==
    /\ at[t] \in {"granted", "cancelled"}
    /\ waiters' = Without(t)
    /\ at' = [at EXCEPT ![t] = "out"]
    /\ UNCHANGED active

Abandon_alwaysRelease(t) ==
    /\ at[t] \in {"granted", "cancelled"}
    /\ active' = active - 1
    /\ waiters' = Without(t)
    /\ at' = [at EXCEPT ![t] = "out"]

Abandon(t) ==
    \/ at[t] = "granted" /\ HandOn(t)
    \/ /\ at[t] = "cancelled"
       /\ waiters' = Without(t)
       /\ at' = [at EXCEPT ![t] = "out"]
       /\ UNCHANGED active

-----------------------------------------------------------------------------
(* What every use of the gate must keep true. *)

\* The tasks a slot belongs to, resumed or not.
Owners == {t \in Task : at[t] \in {"holding", "granted"}}

\* The counter is the number of slots that have an owner, counting a slot
\* whose owner has not resumed yet, and never exceeds the capacity: no slot
\* is lost or given twice when a grant and a cancellation cross
\* (admission.py:45-48, 60-67).
SlotAccounting == active = Cardinality(Owners) /\ active <= Capacity

\* Nobody waits while a slot is free: also a deque that only holds cancelled
\* futures implies a full gate, otherwise the fast path of acquire() would
\* turn an idle gate's callers away (admission.py:34-38, 63).
WorkConserving == waiters # <<>> => active = Capacity

\* The deque lists each waiting task once, in states that release() knows,
\* and every pending future is in it: a pending future outside the deque
\* would never be resolved (admission.py:40, 51-53, 64-67).
QueueFaithful ==
    /\ \A i, j \in DOMAIN waiters : waiters[i] = waiters[j] => i = j
    /\ \A i \in DOMAIN waiters : at[waiters[i]] \in {"pending", "cancelled"}
    /\ \A t \in Task : at[t] = "pending" => \E i \in DOMAIN waiters : waiters[i] = t
    /\ Len(waiters) <= MaxQueued

\* A task that becomes the owner of a slot does so past no pending waiter:
\* neither an earlier one in the deque nor, for a newcomer on the fast
\* path, any one (the class promises FIFO admission, admission.py:1, 34, 64).
NoOvertaking ==
    \A t \in Owners' \ Owners : \A i \in DOMAIN waiters :
        \/ at[waiters[i]] # "pending"
        \/ waiters[i] \in Owners'
        \/ \E j \in 1 .. i - 1 : waiters[j] = t
=============================================================================
