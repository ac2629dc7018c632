------------------------------ MODULE IdMutex ------------------------------
(***************************************************************************)
(* The keyed mutex every service of the application serialises its work    *)
(* with: class IdMutex, its bounded wait queue getFixedArray and the       *)
(* method decorator IdMute (src/src/utils/mutex.ts).                       *)
(*                                                                         *)
(* A process is one asynchronous call of a decorated method: it locks its  *)
(* key, runs the method and releases the key, whether the method returned  *)
(* or threw. lock() and release() contain no await, so each is one step.   *)
(* No construction site passes a lockTimeout, so startLockTimer returns at *)
(* once (line 36) and no timer is modelled.                                *)
(*                                                                         *)
(* Definitions said to be "faulty" are bugs this code does not have: each  *)
(* stands before the definition it would replace, and shows that a         *)
(* property notices the difference.                                        *)
(***************************************************************************)
EXTENDS Integers, Sequences, FiniteSets

CONSTANTS Procs,        \* asynchronous calls of decorated methods
          Keys,         \* lock ids
          Concurrently, \* constructor argument; 0 stands for undefined
          Limits,       \* limits the decorated methods pass; 0 stands for none
          ClearSets     \* sets of keys one clear(botId) call matches

ASSUME ProcsAssumption == IsFiniteSet(Procs)
ASSUME ConcurrentlyAssumption == Concurrently \in Nat
ASSUME LimitsAssumption == Limits \subseteq Nat
ASSUME ClearAssumption == ClearSets \subseteq SUBSET Keys

VARIABLES entries,  \* ids present in lockMap
          queue,    \* waiters of an entry, first come first
          limit,    \* length of the entry's getFixedArray; 0: plain array
          locked,   \* the entry's locked flag
          current,  \* the entry's count of holders, kept when Concurrently is set
          pc,       \* where each call is
          id,       \* the key it asked for
          stale     \* history: keys cleared under a holder, until it is gone

mapVars == <<entries, queue, limit, locked, current>>
vars == <<entries, queue, limit, locked, current, pc, id, stale>>

Cap == IF Concurrently = 0 THEN 1 ELSE Concurrently

Holders(k) == {p \in Procs : pc[p] = "holding" /\ id[p] = k}
Waiters(k) == {p \in Procs : pc[p] = "waiting" /\ id[p] = k}
QueueSet(q) == {q[i] : i \in 1..Len(q)}

Init == /\ entries = {}
        /\ queue = [k \in Keys |-> << >>]
        /\ limit = [k \in Keys |-> 0]
        /\ locked = [k \in Keys |-> FALSE]
        /\ current = [k \in Keys |-> 0]
        /\ pc = [p \in Procs |-> "idle"]
        /\ id \in [Procs -> Keys]
        /\ stale = {}

-----------------------------------------------------------------------------
(***************************************************************************)
(* lock(id, limit).                                                        *)
(***************************************************************************)

\* getFixedArray's push: a full queue drops its newest waiter, whose promise
\* then never settles, and takes the new one in its place.
Full(k) == limit[k] # 0 /\ Len(queue[k]) >= limit[k]
\* (faulty: the oldest waiter is dropped)
EvictedPlaceFirst(q) == 1
EvictedPlace(q) == Len(q)
\* (faulty: last come, first served)
PushInFront(q, full, p) == <<p>> \o q
FixedPush(q, full, p) ==
    Append(IF full THEN SubSeq(q, 1, EvictedPlace(q) - 1)
                        \o SubSeq(q, EvictedPlace(q) + 1, Len(q))
                   ELSE q, p)

\* (faulty: one place too many, one too few)
AtCapacityTooLate(n) == n > Concurrently
AtCapacityTooEarly(n) == n + 1 >= Concurrently
AtCapacity(n) == n >= Concurrently
\* (faulty: looks at the waiters, not at the flag)
IsLockedByWaiters(k) == k \in entries /\ queue[k] # << >>
IsLocked(k) == k \in entries /\ locked[k]

LockQueued(p, k) ==
    /\ pc[p] = "idle"
    /\ IsLocked(k)
    /\ queue' = [queue EXCEPT ![k] = FixedPush(@, Full(k), p)]
    /\ pc' = [q \in Procs |-> IF q = p THEN "waiting"
                              ELSE IF Full(k) /\ q = queue[k][EvictedPlace(queue[k])]
                                THEN "lost"
                              ELSE pc[q]]
    /\ id' = [id EXCEPT ![p] = k]
    /\ UNCHANGED <<entries, limit, locked, current, stale>>

LockTaken(p, k, lim) ==
    /\ pc[p] = "idle"
    /\ ~IsLocked(k)
    /\ LET old == IF k \in entries THEN current[k] ELSE 0
           new == IF Concurrently = 0 THEN old ELSE old + 1
       IN  /\ current' = [current EXCEPT ![k] = new]
           /\ locked' = [locked EXCEPT ![k] = Concurrently = 0 \/ AtCapacity(new)]
    /\ queue' = IF k \in entries THEN queue ELSE [queue EXCEPT ![k] = << >>]
    /\ limit' = IF k \in entries THEN limit ELSE [limit EXCEPT ![k] = lim]
    /\ entries' = entries \cup {k}
    /\ pc' = [pc EXCEPT ![p] = "holding"]
    /\ id' = [id EXCEPT ![p] = k]
    /\ UNCHANGED stale

(***************************************************************************)
(* release(id), called once by the decorator when the method settles. It   *)
(* carries no proof of ownership: it acts on whatever entry the id has.    *)
(***************************************************************************)

\* History: the key is clean again once nobody holds it.
StillStale(p) == IF Holders(id[p]) = {p} THEN stale \ {id[p]} ELSE stale

\* (faulty: pop() where shift() is meant: the newest waiter takes the place over)
ReleaseToNewest(p) ==
    LET k == id[p]
        n == Len(queue[k])
    IN  /\ pc[p] = "holding"
        /\ k \in entries /\ queue[k] # << >>
        /\ pc' = [pc EXCEPT ![p] = "idle", ![queue[k][n]] = "holding"]
        /\ queue' = [queue EXCEPT ![k] = SubSeq(@, 1, n - 1)]
        /\ UNCHANGED <<entries, limit, locked, current, id, stale>>

\* The first waiter takes the place over: the entry stays as it was.
ReleaseToWaiter(p) ==
    LET k == id[p] IN
    /\ pc[p] = "holding"
    /\ k \in entries /\ queue[k] # << >>
    /\ pc' = [pc EXCEPT ![p] = "idle", ![Head(queue[k])] = "holding"]
    /\ queue' = [queue EXCEPT ![k] = Tail(@)]
    /\ UNCHANGED <<entries, limit, locked, current, id, stale>>

\* (faulty: keeps the entry of a key nobody holds)
UnusedBelowZero(left) == Concurrently = 0 \/ left < 0
Unused(left) == Concurrently = 0 \/ left <= 0

\* Nobody waits: the entry is counted down and dropped when nobody holds it.
ReleaseLast(p) ==
    LET k == id[p]
        left == IF Concurrently # 0 /\ k \in entries THEN current[k] - 1 ELSE 0
    IN  /\ pc[p] = "holding"
        /\ k \in entries => queue[k] = << >>
        /\ pc' = [pc EXCEPT ![p] = "idle"]
        /\ IF Concurrently # 0 /\ k \in entries
             THEN /\ current' = [current EXCEPT ![k] = left]
                  /\ locked' = [locked EXCEPT ![k] = AtCapacity(left)]
             ELSE UNCHANGED <<current, locked>>
        /\ entries' = IF Unused(left) THEN entries \ {k} ELSE entries
        /\ stale' = StillStale(p)
        /\ UNCHANGED <<queue, limit, id>>

(***************************************************************************)
(* clear(botId): a stopping or reloading bot deletes every entry whose id  *)
(* contains its own. Waiters are forgotten; holders go on, and release     *)
(* what they find.                                                         *)
(***************************************************************************)
Clear(K) ==
    /\ K \cap entries # {}
    /\ entries' = entries \ K
    /\ pc' = [p \in Procs |->
                IF \E k \in K \cap entries : p \in QueueSet(queue[k]) THEN "lost" ELSE pc[p]]
    /\ stale' = stale \cup {k \in K : Holders(k) # {}}
    /\ UNCHANGED <<queue, limit, locked, current, id>>

-----------------------------------------------------------------------------
Lock(p) == \E k \in Keys : \/ LockQueued(p, k)
                           \/ \E lim \in Limits : LockTaken(p, k, lim)
Release(p) == ReleaseToWaiter(p) \/ ReleaseLast(p)

Next == \/ \E p \in Procs : Lock(p) \/ Release(p)
        \/ \E K \in ClearSets : Clear(K)

Spec == Init /\ [][Next]_vars

\* Fairness: a guarded method settles in the end (each of them bounds its I/O
\* with timeouts), so its release runs. Nobody is obliged to call one.
FairSpec == Spec /\ \A p \in Procs : WF_vars(Release(p))

-----------------------------------------------------------------------------
\* Type invariant of the lock map and of the calls.
TypeOK ==
    /\ entries \subseteq Keys
    /\ queue \in [Keys -> Seq(Procs)]
    /\ limit \in [Keys -> Nat]
    /\ locked \in [Keys -> BOOLEAN]
    /\ current \in [Keys -> 0..Concurrently]
    /\ pc \in [Procs -> {"idle", "waiting", "holding", "lost"}]
    /\ id \in [Procs -> Keys]
    /\ stale \subseteq Keys

\* A key never has more calls inside the guarded method than the mutex was
\* built for, unless a clear() took the entry from under a holder and some
\* holder since then has not yet left: the promise of @IdMute.
MutualExclusion ==
    \A k \in Keys \ stale : Cardinality(Holders(k)) <= Cap

\* No wake-up is lost: a call waits only while every place of its key is
\* taken, and a waiting call is in the queue of a live entry.
NoLostWakeup ==
    \A k \in Keys \ stale : \A p \in Waiters(k) :
        /\ k \in entries /\ p \in QueueSet(queue[k])
        /\ Cardinality(Holders(k)) = Cap

\* An entry does not outlive its holders: lockMap holds no key nobody uses.
NoLeakedEntry == \A k \in entries : Holders(k) # {}

\* No call enters a key past calls that wait for it: a fresh caller never
\* barges in, a call that comes to wait stands behind those that wait already,
\* and of two waiters the one ahead is served first.
EntersInTurn ==
    \A p \in Procs : \A k \in Keys \ stale :
         (pc[p] # "holding" /\ pc'[p] = "holding" /\ id'[p] = k)
           => \A q \in Waiters(k) \ {p} :
                /\ pc[p] = "waiting"
                /\ \E i, j \in 1..Len(queue[k]) : i < j /\ queue[k][i] = p /\ queue[k][j] = q
QueuesBehind ==
    \A p \in Procs : \A k \in Keys \ stale :
         (pc[p] # "waiting" /\ pc'[p] = "waiting" /\ id'[p] = k)
           => \A q \in Waiters(k) : pc'[q] = "waiting" =>
                \E i, j \in 1..Len(queue'[k]) : i < j /\ queue'[k][i] = q /\ queue'[k][j] = p
NoOvertaking == [][EntersInTurn /\ QueuesBehind]_vars

\* What callers see of the lock map is the abstract keyed lock: places taken,
\* handed over and given back, never more of them than the capacity. Stated
\* for an instance no bot clears (a clear() forgets waiters wholesale).
CallerView == [p \in Procs |-> CASE pc[p] = "idle"    -> "outside"
                                 [] pc[p] = "waiting" -> "waiting"
                                 [] pc[p] = "holding" -> "inside"
                                 [] OTHER             -> "lost"]
Abs == INSTANCE KeyedLock WITH Capacity <- Cap, state <- CallerView, key <- id
ImplementsKeyedLock == Abs!AbsSpec

\* Every waiting call runs in the end or is evicted: without a queue limit and
\* without clears, it runs.
WaiterServed == \A p \in Procs : pc[p] = "waiting" ~> pc[p] \in {"holding", "lost"}

\* A bounded queue of two places or more never evicts its first waiter: the
\* call next in line runs, whatever arrives behind it.
FirstInLineServed ==
    \A p \in Procs : \A k \in Keys :
        (queue[k] # << >> /\ Head(queue[k]) = p /\ pc[p] = "waiting") ~> pc[p] = "holding"
=============================================================================
