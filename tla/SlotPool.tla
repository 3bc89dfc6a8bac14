------------------------------ MODULE SlotPool ------------------------------
(***************************************************************************)
(* What an AdmissionGate promises, with no futures, no cancelled entries   *)
(* and no moment between a grant and its delivery: at most Capacity owners *)
(* and a line of tasks that is served strictly in order, the moment a slot *)
(* is given up.                                                            *)
(***************************************************************************)
EXTENDS Integers, FiniteSets

CONSTANTS Task, Capacity, MaxQueued

VARIABLES owners,   \* the tasks a slot belongs to
          line,     \* the tasks waiting for one
          ahead     \* the pairs of them of which the first came before the second

poolVars == <<owners, line, ahead>>

Idle(t) == t \notin owners /\ t \notin line

Init == owners = {} /\ line = {} /\ ahead = {}

\* A free slot is only taken past an empty line.
Take(t) == /\ Idle(t)
           /\ line = {}
           /\ Cardinality(owners) < Capacity
           /\ owners' = owners \union {t}
           /\ UNCHANGED <<line, ahead>>

\* A task waits only when every slot is taken, behind all that wait.
Join(t) == /\ Idle(t)
           /\ Cardinality(owners) = Capacity
           /\ Cardinality(line) < MaxQueued
           /\ line' = line \union {t}
           /\ ahead' = ahead \union (line \X {t})
           /\ UNCHANGED owners

\* The tasks in S leave the line, the others keep their order.
StepOut(S) == /\ line' = line \ S
              /\ ahead' = ahead \intersect (line' \X line')

\* Impatience: any number of waiting tasks may leave.
Leave(S) == StepOut(S) /\ UNCHANGED owners

First(t) == \A u \in line : <<u, t>> \notin ahead

\* A slot given up belongs to the first of the line at once.
Give(t) == /\ t \in owners
           /\ \/ /\ line = {}
                 /\ owners' = owners \ {t}
                 /\ UNCHANGED <<line, ahead>>
              \/ \E heir \in line :
                 /\ First(heir)
                 /\ owners' = (owners \ {t}) \union {heir}
                 /\ StepOut({heir})

Next == \/ \E t \in Task : Take(t) \/ Join(t) \/ Give(t)
        \/ \E S \in SUBSET line : Leave(S)

Spec == Init /\ [][Next]_poolVars
=============================================================================
