---------------------------- MODULE PrefixPrimer ----------------------------
(***************************************************************************)
(* scheduler.PrefixPrimer: requests that miss the same cold prefix line up *)
(* behind one asyncio.Lock per key; its first holder, the leader, scores a *)
(* useful question and marks the prefix warm, the others then skip.        *)
(*                                                                         *)
(* The object and its operations; PrimerClients closes it with arbitrary   *)
(* callers and ClassificationService uses it between its two gates.  Every *)
(* action is what a task runs between two suspensions.                     *)
(***************************************************************************)
EXTENDS Integers, Sequences, FiniteSets, SequencesExt

CONSTANTS Task,      \* the tasks that call prime()
          Key,       \* the prefix keys
          Lease,     \* the identities a _Lease object can have
          HintEntries, \* capacity
          None       \* neither a key nor a lease

ASSUME PrimerAssumption == /\ HintEntries \in Nat \ {0}
                           /\ None \notin Key \union Lease

VARIABLES warm,     \* the keys of self._warm, least recently used first
          stale,    \* those of them whose expiry has passed
          leases,   \* self._leases
          users,    \* lease.users
          locked,   \* lease.lock._locked
          queue,    \* lease.lock._waiters, each future named by its task
          stage,    \* where each task stands in prime()
          goal,     \* the key argument of its call
          lease     \* its local variable `lease`

primerVars == <<warm, stale, leases, users, locked, queue, stage, goal, lease>>

lockVars == <<leases, users, locked, queue>>
hintVars == <<warm, stale>>

\* "out":       not in prime()
\* "waiting":   suspended on a pending future of the lock
\* "woken":     that future has its result, the task has not resumed yet
\* "cancelled": that future was cancelled, the task has not resumed yet
\* "leading":   inside first(), with the lock
Stage == {"out", "waiting", "woken", "cancelled", "leading"}

PrimerTypeOK ==
    /\ warm \in Seq(Key) /\ stale \subseteq ToSet(warm)
    /\ leases \in [Key -> Lease \union {None}]
    /\ users \in [Lease -> Nat]
    /\ locked \in [Lease -> BOOLEAN]
    /\ queue \in [Lease -> Seq(Task)]
    /\ stage \in [Task -> Stage]
    /\ goal \in [Task -> Key \union {None}]
    /\ lease \in [Task -> Lease \union {None}]

PrimerInit ==
    /\ warm = <<>> /\ stale = {}
    /\ leases = [k \in Key |-> None]
    /\ users = [l \in Lease |-> 0]
    /\ locked = [l \in Lease |-> FALSE]
    /\ queue = [l \in Lease |-> <<>>]
    /\ stage = [t \in Task |-> "out"]
    /\ goal = [t \in Task |-> None]
    /\ lease = [t \in Task |-> None]

InPrime(t) == stage[t] # "out"

-----------------------------------------------------------------------------
(* Names of the form X_y are mutated forms of X: plausible bugs against     *)
(* which the properties are tried out.  The specification never uses them. *)

\* deque.remove and OrderedDict.pop: each element occurs once.
Dropped(s, x) == IF x \in ToSet(s) THEN RemoveAt(s, CHOOSE i \in DOMAIN s : s[i] = x) ELSE s

(* The warm hints. *)

IsWarm(k) == k \in ToSet(warm) /\ k \notin stale

\* What _is_warm(k) leaves behind: an expired hint is deleted, a live one
\* becomes the most recently used.
Look(k) ==
    /\ warm' = IF IsWarm(k) THEN Append(Dropped(warm, k), k) ELSE Dropped(warm, k)
    /\ stale' = stale \ {k}

\* Entering a fresh expiry for k and evicting down to the capacity.
MarkWarm(k) ==
    LET w == Append(Dropped(warm, k), k)
        excess == IF Len(w) > HintEntries THEN Len(w) - HintEntries ELSE 0
    IN  /\ warm' = SubSeq(w, excess + 1, Len(w))
        /\ stale' = (stale \ {k}) \intersect ToSet(warm')

\* Time passes for one hint.
Expire(k) == /\ IsWarm(k)
             /\ stale' = stale \union {k}
             /\ UNCHANGED <<warm, leases, users, locked, queue, stage, goal, lease>>

-----------------------------------------------------------------------------
(* prime(key, first) up to its first suspension. *)

\* The prefix is warm: None at once.
Skip(t, k) == /\ stage[t] = "out"
              /\ IsWarm(k)
              /\ Look(k)
              /\ UNCHANGED <<leases, users, locked, queue, stage, goal, lease>>

Unreferenced(l) == /\ \A k \in Key : leases[k] # l
                   /\ \A t \in Task : lease[t] # l

\* asyncio.Lock.acquire() returns without waiting only if the lock is free
\* and every future in its queue is cancelled.
LockIsFree_barge(l) == ~locked[l]

LockIsFree(l) == ~locked[l] /\ \A i \in DOMAIN queue[l] : stage[queue[l][i]] = "cancelled"

\* setdefault returns the lease of the key, or a new object (unlocked, no
\* users, no queue: an unreferenced one).
LeaseFor(k, l) == \/ leases[k] = l
                  \/ leases[k] = None /\ Unreferenced(l)

\* The prefix is cold: join the lease and take its lock or queue for it.
\* After the fast path the second _is_warm sees what the first one saw.
Join(t, k) ==
    /\ stage[t] = "out"
    /\ ~IsWarm(k)
    /\ Look(k)
    /\ \E l \in Lease :
         /\ LeaseFor(k, l)
         /\ leases' = [leases EXCEPT ![k] = l]
         /\ users' = [users EXCEPT ![l] = @ + 1]
         /\ goal' = [goal EXCEPT ![t] = k]
         /\ lease' = [lease EXCEPT ![t] = l]
         /\ \/ /\ LockIsFree(l)
               /\ locked' = [locked EXCEPT ![l] = TRUE]
               /\ stage' = [stage EXCEPT ![t] = "leading"]
               /\ UNCHANGED queue
            \/ /\ ~LockIsFree(l)
               /\ queue' = [queue EXCEPT ![l] = Append(@, t)]
               /\ stage' = [stage EXCEPT ![t] = "waiting"]
               /\ UNCHANGED locked

-----------------------------------------------------------------------------
(* The ways out of prime(). *)

Woken_never(q, held) == {}

\* lock.release() or, for a cancelled waiter, the except branch of
\* lock.acquire(): wake the head of the queue unless it is done already;
\* a cancelled head will wake the next one when it leaves itself.
Woken(q, held) == IF ~held /\ q # <<>> /\ stage[Head(q)] = "waiting" THEN {Head(q)} ELSE {}

\* The end of `async with lease.lock` and the finally block.  `held`: the
\* lock stays with another task.
Depart_dropLease(t, held) ==
    LET l == lease[t]
        q == Dropped(queue[l], t)
    IN  /\ queue' = [queue EXCEPT ![l] = q]
        /\ locked' = [locked EXCEPT ![l] = held]
        /\ users' = [users EXCEPT ![l] = @ - 1]
        /\ leases' = [leases EXCEPT ![goal[t]] = None]
        /\ stage' = [u \in Task |-> IF u = t THEN "out"
                                    ELSE IF u \in Woken(q, held) THEN "woken" ELSE stage[u]]
        /\ goal' = [goal EXCEPT ![t] = None]
        /\ lease' = [lease EXCEPT ![t] = None]

Depart(t, held) ==
    LET l == lease[t]
        q == Dropped(queue[l], t)
    IN  /\ queue' = [queue EXCEPT ![l] = q]
        /\ locked' = [locked EXCEPT ![l] = held]
        /\ users' = [users EXCEPT ![l] = @ - 1]
        /\ leases' = [leases EXCEPT ![goal[t]] = IF users[l] = 1 THEN None ELSE @]
        /\ stage' = [u \in Task |-> IF u = t THEN "out"
                                    ELSE IF u \in Woken(q, held) THEN "woken" ELSE stage[u]]
        /\ goal' = [goal EXCEPT ![t] = None]
        /\ lease' = [lease EXCEPT ![t] = None]

\* first() returned: the hint is entered before the lock is released.
FirstReturns(t) == /\ stage[t] = "leading"
                   /\ MarkWarm(goal[t])
                   /\ Depart(t, FALSE)

FirstFails_warm(t) == /\ stage[t] = "leading"
                      /\ MarkWarm(goal[t])
                      /\ Depart(t, FALSE)

\* first() raised, or its task was cancelled in it.
FirstFails(t) == /\ stage[t] = "leading"
                 /\ Depart(t, FALSE)
                 /\ UNCHANGED hintVars

\* A woken waiter takes the lock and looks again.
TakeOver(t) ==
    /\ stage[t] = "woken"
    /\ Look(goal[t])
    /\ ~IsWarm(goal[t])
    /\ queue' = [queue EXCEPT ![lease[t]] = Dropped(@, t)]
    /\ locked' = [locked EXCEPT ![lease[t]] = TRUE]
    /\ stage' = [stage EXCEPT ![t] = "leading"]
    /\ UNCHANGED <<leases, users, goal, lease>>

Follow(t) == /\ stage[t] = "woken"
             /\ IsWarm(goal[t])
             /\ Look(goal[t])
             /\ Depart(t, FALSE)

\* Task.cancel() of the tasks in S that wait for the lock.
InterruptPrime(S) ==
    /\ stage' = [t \in Task |-> IF t \in S /\ stage[t] = "waiting"
                                THEN "cancelled" ELSE stage[t]]
    /\ UNCHANGED <<warm, stale, leases, users, locked, queue, goal, lease>>

\* CancelledError out of lock.acquire(), from either kind of future.
AbandonPrime(t) == /\ stage[t] \in {"woken", "cancelled"}
                   /\ Depart(t, locked[lease[t]])
                   /\ UNCHANGED hintVars

-----------------------------------------------------------------------------
(* What every use of the primer must keep true. *)

Leaders(k) == {t \in Task : stage[t] = "leading" /\ goal[t] = k}

\* The dictionary and the callers agree: a key has a lease exactly while some
\* task is in prime() for it, all of them share that object, and the count
\* that decides its deletion is theirs (scheduler.py:46-51, 62-65).
LeasesBalanced ==
    /\ \A t \in Task : InPrime(t) => lease[t] # None /\ leases[goal[t]] = lease[t]
    /\ \A k \in Key : leases[k] # None =>
          /\ users[leases[k]] > 0
          /\ users[leases[k]] = Cardinality({t \in Task : goal[t] = k})
    /\ \A l \in Lease : Unreferenced(l) => users[l] = 0 /\ ~locked[l] /\ queue[l] = <<>>

\* A free lock with tasks in its queue has one of them about to run: the one
\* that was woken, or a cancelled one that wakes the next as it leaves.
\* Otherwise a follower waits for ever (scheduler.py:53).
NoLostWakeup ==
    \A l \in Lease : queue[l] # <<>> /\ ~locked[l] =>
        \E i \in DOMAIN queue[l] :
            /\ stage[queue[l][i]] \in {"woken", "cancelled"}
            /\ \A j \in 1 .. i - 1 : stage[queue[l][j]] # "waiting"

\* The lock has its holder: at most one task per key is inside first(), and
\* a locked lock always has one (scheduler.py:53-56).
SingleLeader ==
    /\ \A k \in Key : Cardinality(Leaders(k)) <= 1
    /\ \A l \in Lease : locked[l] <=> \E t \in Task : stage[t] = "leading" /\ lease[t] = l
=============================================================================
