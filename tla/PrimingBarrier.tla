--------------------------- MODULE PrimingBarrier ---------------------------
(***************************************************************************)
(* What PrefixPrimer promises, without locks, leases and queues: at most   *)
(* one task at a time primes a key, it does so only while the key is not   *)
(* known to be hot, and only a success makes a key hot.                    *)
(***************************************************************************)
EXTENDS Integers, FiniteSets

CONSTANTS Task, Key, HintEntries

VARIABLES priming,   \* for each key, the tasks that are scoring to prime it
          scored,    \* those of them whom the engine has answered
          hot        \* the keys that are believed to be in the engine's cache

barrierVars == <<priming, scored, hot>>

Init == priming = [k \in Key |-> {}] /\ scored = {} /\ hot = {}

Begin(t, k) == /\ priming[k] = {}
               /\ k \notin hot
               /\ priming' = [priming EXCEPT ![k] = {t}]
               /\ UNCHANGED <<scored, hot>>

Answer(k) == /\ scored' = scored \union priming[k]
             /\ UNCHANGED <<priming, hot>>

End(k) == /\ priming[k] # {}
          /\ priming' = [priming EXCEPT ![k] = {}]
          /\ scored' = scored \ priming[k]

\* Making room may cost other keys their hint.
Succeed(k) == /\ End(k)
              /\ priming[k] \subseteq scored
              /\ \E kept \in SUBSET hot :
                    /\ hot' = kept \union {k}
                    /\ Cardinality(hot') <= HintEntries

\* By an error or a cancellation, of which also an answer is no guarantee.
Fail(k) == End(k) /\ UNCHANGED hot

Cool(k) == /\ k \in hot
           /\ hot' = hot \ {k}
           /\ UNCHANGED <<priming, scored>>

Next == \E k \in Key : Answer(k) \/ Succeed(k) \/ Fail(k) \/ Cool(k) \/ \E t \in Task : Begin(t, k)

Spec == Init /\ [][Next]_barrierVars
=============================================================================
