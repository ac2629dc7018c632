--------------------------- MODULE IdMutexProofs ---------------------------
(***************************************************************************)
(* Proofs about IdMutex, for every finite set of calls, every set of keys, *)
(* every capacity and queue limit, and with keys cleared at any moment.    *)
(***************************************************************************)
EXTENDS IdMutex, FiniteSetTheorems, SequenceTheorems, TLAPS

(***************************************************************************)
(* The inductive invariant.                                                *)
(***************************************************************************)

\* The queue of an entry lists the calls that wait for its key, each once.
QueueIsWaiters ==
    /\ \A k \in entries : \A i \in 1..Len(queue[k]) :
          pc[queue[k][i]] = "waiting" /\ id[queue[k][i]] = k
    /\ \A k \in entries : \A i, j \in 1..Len(queue[k]) :
          queue[k][i] = queue[k][j] => i = j
    /\ \A p \in Procs : pc[p] = "waiting" =>
          /\ id[p] \in entries
          /\ \E i \in 1..Len(queue[id[p]]) : queue[id[p]][i] = p

\* The bookkeeping of an entry: its flag says whether all places are taken,
\* and calls wait only behind a raised flag.
EntryBooks ==
    \A k \in entries :
        /\ Concurrently = 0 => locked[k]
        /\ Concurrently # 0 => /\ current[k] >= 1
                               /\ locked[k] <=> current[k] >= Concurrently
        /\ queue[k] # << >> => locked[k]

\* The number of places an entry counts as taken.
Taken(k) == IF Concurrently = 0 THEN 1 ELSE current[k]

\* An entry counts no holder that is not there; the entry of a key that was
\* not cleared under a holder counts them all, and has one if it has holders.
CountIsHolders ==
    /\ \A k \in entries : Taken(k) <= Cardinality(Holders(k))
    /\ \A k \in Keys \ stale :
          IF k \in entries THEN Cardinality(Holders(k)) = Taken(k)
                           ELSE Holders(k) = {}

IInv == TypeOK /\ QueueIsWaiters /\ EntryBooks /\ CountIsHolders

-----------------------------------------------------------------------------
(***************************************************************************)
(* Lemmas.                                                                 *)
(***************************************************************************)

\* The calls inside a key are finitely many, so counting them makes sense.
LEMMA HoldersFinite ==
    ASSUME NEW k \in Keys
    PROVE  IsFiniteSet(Holders(k)) /\ Cardinality(Holders(k)) \in Nat
<1>1. Holders(k) \subseteq Procs
  BY DEF Holders
<1>2. IsFiniteSet(Holders(k))
  BY <1>1, ProcsAssumption, FS_Subset
<1>. QED
  BY <1>2, FS_CardinalityType

\* What the bounded push leaves in the queue: the waiters that came before,
\* in their places, less the newest one if the queue was full, and the
\* newcomer at the end.
LEMMA FixedPushResult ==
    ASSUME NEW q \in Seq(Procs), NEW full \in BOOLEAN, NEW p \in Procs,
           full => Len(q) > 0
    PROVE  LET r == FixedPush(q, full, p)
               n == IF full THEN Len(q) ELSE Len(q) + 1
           IN  /\ r \in Seq(Procs)
               /\ Len(r) = n
               /\ r[n] = p
               /\ \A i \in 1..n-1 : r[i] = q[i]
<1>1. CASE full
  <2>1. /\ SubSeq(q, 1, Len(q) - 1) \in Seq(Procs)
        /\ Len(SubSeq(q, 1, Len(q) - 1)) = Len(q) - 1
        /\ \A i \in 1..Len(q)-1 : SubSeq(q, 1, Len(q) - 1)[i] = q[i]
    <3>1. Len(q) - 1 \in Int /\ \A i \in 1..Len(q)-1 : q[i] \in Procs
      BY <1>1, LenProperties, ElementOfSeq
    <3> DEFINE m == Len(q) - 1
    <3>2. /\ SubSeq(q, 1, m) \in Seq(Procs)
          /\ Len(SubSeq(q, 1, m)) = IF 1 <= m THEN m - 1 + 1 ELSE 0
          /\ \A i \in 1 .. m - 1 + 1 : SubSeq(q, 1, m)[i] = q[1 + i - 1]
      <4>1. 1 \in Int /\ m \in Int /\ \A i \in 1..m : q[i] \in Procs
        BY <3>1
      <4> HIDE DEF m
      <4>. QED
        BY <4>1, SubSeqProperties
    <3>3. Len(q) \in Nat /\ Len(q) > 0
      BY <1>1, LenProperties
    <3>4. Len(q) - 1 - 1 + 1 = Len(q) - 1 /\ \A i \in 1..Len(q)-1 : 1 + i - 1 = i
      BY <3>3
    <3>. QED
      BY <3>2, <3>3, <3>4
  <2>2. SubSeq(q, Len(q) + 1, Len(q)) = << >>
    OBVIOUS
  <2>3. FixedPush(q, full, p) = Append(SubSeq(q, 1, Len(q) - 1), p)
    BY <1>1, <2>1, <2>2 DEF FixedPush, EvictedPlace
  <2> DEFINE s == SubSeq(q, 1, Len(q) - 1)
  <2>4. s \in Seq(Procs) /\ Len(s) = Len(q) - 1 /\ \A i \in 1..Len(q)-1 : s[i] = q[i]
    BY <2>1
  <2> HIDE DEF s
  <2>5. /\ Append(s, p) \in Seq(Procs)
        /\ Len(Append(s, p)) = Len(q)
        /\ Append(s, p)[Len(q)] = p
        /\ \A i \in 1..Len(q)-1 : Append(s, p)[i] = q[i]
    BY <1>1, <2>4
  <2>. QED
    BY <1>1, <2>3, <2>5 DEF s
<1>2. CASE ~full
  BY <1>2 DEF FixedPush
<1>. QED
  BY <1>1, <1>2

\* A call that takes a place is one holder more.
LEMMA OneMoreHolder ==
    ASSUME TypeOK, NEW p \in Procs, NEW k \in Keys, pc[p] # "holding",
           Holders(k)' = Holders(k) \cup {p}
    PROVE  Cardinality(Holders(k)') = Cardinality(Holders(k)) + 1
<1>1. p \notin Holders(k)
  BY DEF Holders
<1>. QED
  BY <1>1, HoldersFinite, FS_AddElement

\* A call that gives its place back is one holder less.
LEMMA OneLessHolder ==
    ASSUME TypeOK, NEW p \in Procs, NEW k \in Keys, p \in Holders(k),
           Holders(k)' = Holders(k) \ {p}
    PROVE  Cardinality(Holders(k)') = Cardinality(Holders(k)) - 1
  BY HoldersFinite, FS_RemoveElement

-----------------------------------------------------------------------------
(***************************************************************************)
(* Type correctness of each operation.                                     *)
(***************************************************************************)
LEMMA InitIInv == Init => IInv
<1> SUFFICES ASSUME Init PROVE IInv
  OBVIOUS
<1>1. TypeOK
  BY ConcurrentlyAssumption DEF Init, TypeOK
<1>2. QueueIsWaiters /\ EntryBooks
  BY DEF Init, QueueIsWaiters, EntryBooks
<1>3. \A k \in Keys : Holders(k) = {}
  BY DEF Init, Holders
<1>. QED
  BY <1>1, <1>2, <1>3 DEF IInv, CountIsHolders, Init

(***************************************************************************)
(* lock() on a taken key: the caller queues, the newest waiter of a full   *)
(* queue is forgotten.                                                     *)
(***************************************************************************)
LEMMA LockQueuedIInv ==
    ASSUME IInv, NEW p \in Procs, NEW k \in Keys, LockQueued(p, k)
    PROVE  IInv'
<1> DEFINE q == queue[k]
           r == FixedPush(q, Full(k), p)
           n == IF Full(k) THEN Len(q) ELSE Len(q) + 1
<1> USE DEF IInv
<1>1. /\ q \in Seq(Procs)
      /\ Full(k) \in BOOLEAN
      /\ Full(k) => Len(q) > 0
      /\ k \in entries /\ locked[k] /\ pc[p] = "idle"
  BY DEF TypeOK, Full, LockQueued, IsLocked
<1>2. /\ r \in Seq(Procs) /\ Len(r) = n /\ r[n] = p
      /\ \A i \in 1..n-1 : r[i] = q[i]
  BY <1>1, FixedPushResult
<1>3. /\ queue' = [queue EXCEPT ![k] = r]
      /\ id' = [id EXCEPT ![p] = k]
      /\ pc' = [x \in Procs |-> IF x = p THEN "waiting"
                                ELSE IF Full(k) /\ x = q[Len(q)] THEN "lost" ELSE pc[x]]
      /\ UNCHANGED <<entries, limit, locked, current, stale>>
  BY DEF LockQueued, EvictedPlace
<1>4. TypeOK'
  BY <1>1, <1>2, <1>3 DEF TypeOK
<1>n. n \in Nat /\ n >= 1 /\ n - 1 \in 0..Len(q) /\ (Full(k) => n = Len(q)) /\ (~Full(k) => n = Len(q) + 1)
  BY <1>1, LenProperties
<1>q. q = queue[k] /\ \A i \in 1..Len(q) : q[i] \in Procs
  BY <1>1, ElementOfSeq
<1> HIDE DEF q, r, n
<1>5. QueueIsWaiters'
  <2>1. \A i \in 1..Len(q) : pc[q[i]] = "waiting" /\ id[q[i]] = k /\ q[i] # p
    BY <1>1, <1>q DEF QueueIsWaiters
  <2>2. \A i, j \in 1..Len(q) : q[i] = q[j] => i = j
    BY <1>1, <1>q DEF QueueIsWaiters
  <2>3. \A x \in Procs : x # p => id'[x] = id[x]
    BY <1>3 DEF TypeOK
  <2>4. Len(q) \in Nat
    BY <1>1, LenProperties
  <2>5. \A i \in 1..n-1 : i \in 1..Len(q) /\ (Full(k) => i # Len(q))
    BY <2>4, <1>n
  <2>6. \A i \in 1..n-1 : pc'[r[i]] = "waiting" /\ id'[r[i]] = k
    <3> TAKE i \in 1..n-1
    <3>1. r[i] = q[i] /\ q[i] \in Procs /\ q[i] # p /\ i \in 1..Len(q)
      BY <1>q, <1>2, <2>1, <2>5
    <3>2. Full(k) => q[i] # q[Len(q)]
      BY <1>1, <2>2, <2>5
    <3>. QED
      BY <3>1, <3>2, <1>3, <2>1, <2>3
  <2>7. pc'[r[n]] = "waiting" /\ id'[r[n]] = k
    BY <1>2, <1>3 DEF TypeOK
  <2>8. \A i \in 1..Len(r) : pc'[r[i]] = "waiting" /\ id'[r[i]] = k
    <3> TAKE i \in 1..Len(r)
    <3>1. i = n \/ i \in 1..n-1
      BY <1>2, <1>n
    <3>. QED
      BY <3>1, <2>6, <2>7
  <2>9. \A i, j \in 1..Len(r) : r[i] = r[j] => i = j
    <3> TAKE i, j \in 1..Len(r)
    <3>1. (i = n \/ i \in 1..n-1) /\ (j = n \/ j \in 1..n-1)
      BY <1>2, <1>n
    <3>2. \A m \in 1..n-1 : r[m] # p /\ r[m] = q[m] /\ m \in 1..Len(q)
      BY <1>2, <2>1, <2>5
    <3>3. r[n] = p
      BY <1>2
    <3>. QED
      BY <3>1, <3>2, <3>3, <2>2
  <2>10. \A l \in entries : l # k =>
            \A i \in 1..Len(queue[l]) : /\ queue[l][i] # p /\ queue[l][i] \in Procs
                                        /\ \A m \in 1..Len(q) : queue[l][i] # q[m]
    <3> TAKE l \in entries
    <3> HAVE l # k
    <3> TAKE i \in 1..Len(queue[l])
    <3>1. pc[queue[l][i]] = "waiting" /\ id[queue[l][i]] = l
      BY DEF QueueIsWaiters
    <3>2. queue[l] \in Seq(Procs)
      BY DEF TypeOK
    <3>3. queue[l][i] \in Procs
      BY <3>2, ElementOfSeq
    <3>. QED
      BY <3>1, <3>3, <1>1, <2>1
  <2>11. \A l \in entries : l # k =>
            \A i \in 1..Len(queue'[l]) : pc'[queue'[l][i]] = "waiting" /\ id'[queue'[l][i]] = l
    <3> SUFFICES ASSUME NEW l \in entries, l # k, NEW i \in 1..Len(queue'[l])
                 PROVE  pc'[queue'[l][i]] = "waiting" /\ id'[queue'[l][i]] = l
      OBVIOUS
    <3>0. queue'[l] = queue[l]
      <4>1. l \in Keys
        BY DEF TypeOK
      <4>2. queue \in [Keys -> Seq(Procs)]
        BY DEF TypeOK
      <4>. QED
        BY <1>3, <4>1, <4>2
    <3>1. queue'[l] = queue[l] /\ pc[queue[l][i]] = "waiting" /\ id[queue[l][i]] = l
      <4>1. i \in 1..Len(queue[l])
        BY <3>0
      <4>. QED
        BY <3>0, <4>1 DEF QueueIsWaiters
    <3>2. Full(k) => queue[l][i] # q[Len(q)]
      BY <3>1, <2>10, <1>1, LenProperties
    <3>. QED
      BY <3>1, <3>2, <2>10, <1>3, <2>3
  <2>12. \A x \in Procs : pc'[x] = "waiting" =>
            id'[x] \in entries /\ \E i \in 1..Len(queue'[id'[x]]) : queue'[id'[x]][i] = x
    <3> SUFFICES ASSUME NEW x \in Procs, pc'[x] = "waiting"
                 PROVE  id'[x] \in entries /\ \E i \in 1..Len(queue'[id'[x]]) : queue'[id'[x]][i] = x
      OBVIOUS
    <3>1. CASE x = p
      <4>1. queue'[k] = r /\ id'[p] = k
        BY <1>1, <1>3 DEF TypeOK
      <4>2. n \in 1..Len(r) /\ r[n] = p
        BY <1>2, <1>n
      <4>. QED
        BY <3>1, <4>1, <4>2, <1>1, <1>3
    <3>2. CASE x # p /\ id[x] # k
      BY <3>2, <1>3, <2>3 DEF TypeOK, QueueIsWaiters
    <3>3. CASE x # p /\ id[x] = k
      <4>1. pc[x] = "waiting" /\ (Full(k) => x # q[Len(q)])
        BY <3>3, <1>3
      <4>2. PICK i \in 1..Len(q) : q[i] = x
        BY <3>3, <4>1, <1>q DEF QueueIsWaiters
      <4>3. i \in 1..n-1
        BY <4>1, <4>2, <1>n, <2>4
      <4>4. queue'[k] = r
        BY <1>1, <1>3 DEF TypeOK
      <4>5. r[i] = x /\ i \in 1..Len(r)
        BY <4>2, <4>3, <1>2, <1>n
      <4>. QED
        BY <4>4, <4>5, <3>3, <2>3, <1>1
    <3>. QED
      BY <3>1, <3>2, <3>3
  <2>13. queue'[k] = r /\ entries' = entries /\ \A l \in entries : l # k => queue'[l] = queue[l]
    BY <1>3 DEF TypeOK
  <2>. QED
    BY <2>8, <2>9, <2>11, <2>12, <2>13 DEF QueueIsWaiters
<1>6. EntryBooks'
  BY <1>1, <1>3 DEF EntryBooks, TypeOK
<1>7. CountIsHolders'
  <2>1. \A x \in Procs : pc[x] = "holding" <=> pc'[x] = "holding"
    <3>1. Full(k) => q[Len(q)] \in Procs /\ pc[q[Len(q)]] = "waiting"
      BY <1>1, <1>q, LenProperties DEF QueueIsWaiters
    <3>. QED
      BY <3>1, <1>1, <1>3
  <2>2. \A x \in Procs : pc[x] = "holding" => id'[x] = id[x]
    BY <1>1, <1>3 DEF TypeOK
  <2>3. \A l \in Keys : Holders(l)' = Holders(l)
    BY <2>1, <2>2 DEF Holders
  <2>. QED
    BY <2>3, <1>3 DEF CountIsHolders, Taken, TypeOK
<1>. QED
  BY <1>4, <1>5, <1>6, <1>7

(***************************************************************************)
(* lock() on a free key: the caller takes a place.                         *)
(***************************************************************************)
LEMMA LockTakenIInv ==
    ASSUME IInv, NEW p \in Procs, NEW k \in Keys, NEW lim \in Limits, LockTaken(p, k, lim)
    PROVE  IInv'
<1> DEFINE old == IF k \in entries THEN current[k] ELSE 0
           new == IF Concurrently = 0 THEN old ELSE old + 1
<1> USE DEF IInv
<1>1. /\ pc[p] = "idle" /\ (k \in entries => ~locked[k] /\ queue[k] = << >>)
      /\ k \in entries => Concurrently # 0 /\ current[k] < Concurrently
  BY ConcurrentlyAssumption DEF LockTaken, IsLocked, EntryBooks, TypeOK
<1>2. old \in 0..Concurrently /\ new \in 0..Concurrently /\ (Concurrently # 0 => new >= 1)
  BY <1>1, ConcurrentlyAssumption DEF TypeOK
<1>3. /\ current' = [current EXCEPT ![k] = new]
      /\ locked' = [locked EXCEPT ![k] = (Concurrently = 0 \/ new >= Concurrently)]
      /\ queue' = [queue EXCEPT ![k] = << >>]
      /\ limit' = (IF k \in entries THEN limit ELSE [limit EXCEPT ![k] = lim])
      /\ entries' = entries \cup {k}
      /\ pc' = [pc EXCEPT ![p] = "holding"]
      /\ id' = [id EXCEPT ![p] = k]
      /\ stale' = stale
  <2>1. k \in entries => queue = [queue EXCEPT ![k] = << >>]
    BY <1>1 DEF TypeOK
  <2>. QED
    BY <2>1 DEF LockTaken, AtCapacity
<1> HIDE DEF old, new
<1>4. TypeOK'
  <2>1. (Concurrently = 0 \/ new >= Concurrently) \in BOOLEAN /\ lim \in Nat /\ << >> \in Seq(Procs)
    BY LimitsAssumption
  <2>. QED
    BY <1>2, <1>3, <2>1 DEF TypeOK
<1>5. QueueIsWaiters'
  <2>1. /\ queue'[k] = << >> /\ \A l \in Keys \ {k} : queue'[l] = queue[l]
        /\ pc'[p] = "holding" /\ \A x \in Procs \ {p} : pc'[x] = pc[x] /\ id'[x] = id[x]
    BY <1>3 DEF TypeOK
  <2>2. \A l \in entries : \A i \in 1..Len(queue[l]) : queue[l][i] \in Procs \ {p}
    <3> TAKE l \in entries
    <3> TAKE i \in 1..Len(queue[l])
    <3>1. queue[l] \in Seq(Procs) /\ pc[queue[l][i]] = "waiting"
      BY DEF TypeOK, QueueIsWaiters
    <3>. QED
      BY <3>1, <1>1, ElementOfSeq
  <2>3. \A l \in entries' : l = k \/ (l \in entries /\ l \in Keys \ {k})
    BY <1>3 DEF TypeOK
  <2>4. \A x \in Procs : pc'[x] = "waiting" =>
            id'[x] \in entries' /\ \E i \in 1..Len(queue'[id'[x]]) : queue'[id'[x]][i] = x
    <3> SUFFICES ASSUME NEW x \in Procs, pc'[x] = "waiting"
                 PROVE  id'[x] \in entries' /\ \E i \in 1..Len(queue'[id'[x]]) : queue'[id'[x]][i] = x
      OBVIOUS
    <3>1. x # p /\ pc[x] = "waiting" /\ id'[x] = id[x]
      BY <2>1
    <3>2. id[x] \in entries /\ \E i \in 1..Len(queue[id[x]]) : queue[id[x]][i] = x
      BY <3>1 DEF QueueIsWaiters
    <3>3. id[x] # k
      BY <3>2, <1>1
    <3>. QED
      BY <3>1, <3>2, <3>3, <2>1, <1>3 DEF TypeOK
  <2>. QED
    BY <2>1, <2>2, <2>3, <2>4 DEF QueueIsWaiters
<1>6. EntryBooks'
  BY <1>1, <1>2, <1>3 DEF EntryBooks, TypeOK
<1>7. CountIsHolders'
  <2>1. Holders(k)' = Holders(k) \cup {p} /\ \A l \in Keys \ {k} : Holders(l)' = Holders(l)
    BY <1>1, <1>3 DEF Holders, TypeOK
  <2>2. Cardinality(Holders(k)') = Cardinality(Holders(k)) + 1
    BY <2>1, <1>1, OneMoreHolder
  <2>3. \A l \in Keys \ {k} : current'[l] = current[l] /\ (l \in entries' <=> l \in entries)
    BY <1>3 DEF TypeOK
  <2>4. k \in entries' /\ current'[k] = new
    BY <1>3 DEF TypeOK
  <2>5. Cardinality(Holders(k)) \in Nat /\ old \in Nat
    BY HoldersFinite, <1>2, ConcurrentlyAssumption
  <2>6. Taken(k)' = (IF Concurrently = 0 THEN 1 ELSE new) /\ \A l \in Keys \ {k} : Taken(l)' = Taken(l)
    BY <2>3, <2>4 DEF Taken
  <2>7. Taken(k)' <= Cardinality(Holders(k)')
    BY <2>2, <2>5, <2>6, <1>1, <1>2 DEF CountIsHolders, Taken, old, new
  <2>8. k \notin stale => Cardinality(Holders(k)') = Taken(k)'
    <3>1. CASE k \in entries
      BY <3>1, <2>2, <2>5, <2>6, <1>1 DEF CountIsHolders, Taken, old, new
    <3>2. CASE k \notin entries
      <4> SUFFICES ASSUME k \notin stale PROVE Cardinality(Holders(k)') = Taken(k)'
        OBVIOUS
      <4>1. Cardinality(Holders(k)) = 0
        BY <3>2, FS_EmptySet DEF CountIsHolders
      <4>. QED
        BY <4>1, <3>2, <2>2, <2>6 DEF old, new
    <3>. QED
      BY <3>1, <3>2
  <2>9. \A l \in Keys \ {k} : Cardinality(Holders(l)') = Cardinality(Holders(l))
    BY <2>1
  <2>10. \A l \in entries' : Taken(l)' <= Cardinality(Holders(l)')
    BY <2>3, <2>6, <2>7, <2>9, <1>3 DEF CountIsHolders, TypeOK
  <2>11. \A l \in Keys \ stale :
            IF l \in entries' THEN Cardinality(Holders(l)') = Taken(l)' ELSE Holders(l)' = {}
    BY <2>1, <2>3, <2>4, <2>6, <2>8, <2>9 DEF CountIsHolders
  <2>. QED
    BY <2>10, <2>11, <1>3 DEF CountIsHolders
<1>. QED
  BY <1>4, <1>5, <1>6, <1>7

(***************************************************************************)
(* release() with a waiter: the place is handed over, the entry unchanged. *)
(***************************************************************************)
LEMMA ReleaseToWaiterIInv ==
    ASSUME IInv, NEW p \in Procs, ReleaseToWaiter(p)
    PROVE  IInv'
<1> USE DEF IInv
<1>0. PICK k \in Keys : k = id[p]
  BY DEF TypeOK
<1> DEFINE h == Head(queue[k])
           t == Tail(queue[k])
<1>1. /\ k \in Keys /\ k \in entries /\ pc[p] = "holding"
      /\ queue[k] \in Seq(Procs) /\ queue[k] # << >>
  BY <1>0 DEF ReleaseToWaiter, TypeOK
<1>2. /\ t \in Seq(Procs) /\ Len(t) = Len(queue[k]) - 1 /\ Len(t) \in Nat
      /\ \A i \in 1..Len(t) : t[i] = queue[k][i + 1]
      /\ h = queue[k][1] /\ h \in Procs /\ 1 \in 1..Len(queue[k])
  BY <1>1, HeadTailProperties, LenProperties, EmptySeq
<1>3. pc[h] = "waiting" /\ id[h] = k /\ h # p
  BY <1>1, <1>2 DEF QueueIsWaiters
<1>4. /\ pc' = [pc EXCEPT ![p] = "idle", ![h] = "holding"]
      /\ queue' = [queue EXCEPT ![k] = t]
      /\ UNCHANGED <<entries, limit, locked, current, id, stale>>
  BY <1>0 DEF ReleaseToWaiter
<1> HIDE DEF h, t
<1>5. TypeOK'
  BY <1>1, <1>2, <1>4 DEF TypeOK
<1>6. QueueIsWaiters'
  <2>1. /\ queue'[k] = t /\ \A l \in Keys \ {k} : queue'[l] = queue[l]
        /\ pc'[p] = "idle" /\ pc'[h] = "holding"
        /\ \A x \in Procs \ {p, h} : pc'[x] = pc[x]
    BY <1>1, <1>2, <1>3, <1>4 DEF TypeOK
  <2>2. \A l \in entries : \A i \in 1..Len(queue[l]) :
            /\ queue[l][i] \in Procs \ {p}
            /\ l # k => queue[l][i] # h
    <3> TAKE l \in entries
    <3> TAKE i \in 1..Len(queue[l])
    <3>1. queue[l] \in Seq(Procs) /\ pc[queue[l][i]] = "waiting" /\ id[queue[l][i]] = l
      BY DEF TypeOK, QueueIsWaiters
    <3>. QED
      BY <3>1, <1>1, <1>3, ElementOfSeq
  <2>3. \A i \in 1..Len(t) : i + 1 \in 1..Len(queue[k]) /\ i + 1 # 1
    BY <1>2, <1>1, LenProperties
  <2>4. \A i \in 1..Len(t) : t[i] \in Procs \ {p, h} /\ pc[t[i]] = "waiting" /\ id[t[i]] = k
    BY <1>1, <1>2, <2>2, <2>3 DEF QueueIsWaiters
  <2>5. \A i, j \in 1..Len(t) : t[i] = t[j] => i = j
    <3> TAKE i, j \in 1..Len(t)
    <3>1. queue[k][i + 1] = queue[k][j + 1] => i + 1 = j + 1
      BY <1>1, <2>3 DEF QueueIsWaiters
    <3>. QED
      BY <3>1, <1>2
  <2>6. \A x \in Procs : pc'[x] = "waiting" =>
            id[x] \in entries /\ \E i \in 1..Len(queue'[id[x]]) : queue'[id[x]][i] = x
    <3> SUFFICES ASSUME NEW x \in Procs, pc'[x] = "waiting"
                 PROVE  id[x] \in entries /\ \E i \in 1..Len(queue'[id[x]]) : queue'[id[x]][i] = x
      OBVIOUS
    <3>1. x \in Procs \ {p, h} /\ pc[x] = "waiting"
      BY <2>1
    <3>2. id[x] \in entries
      BY <3>1 DEF QueueIsWaiters
    <3>3. PICK i \in 1..Len(queue[id[x]]) : queue[id[x]][i] = x
      BY <3>1 DEF QueueIsWaiters
    <3>4. CASE id[x] = k
      <4>1. i # 1 /\ i \in 1..Len(queue[k])
        BY <3>1, <3>3, <3>4, <1>2
      <4>2. i - 1 \in 1..Len(t) /\ (i - 1) + 1 = i
        BY <4>1, <1>2, <1>1, LenProperties
      <4>3. t[i - 1] = x
        BY <4>2, <1>2, <3>3, <3>4
      <4>. QED
        BY <4>2, <4>3, <3>2, <3>4, <2>1
    <3>5. CASE id[x] # k
      BY <3>2, <3>3, <3>5, <2>1 DEF TypeOK
    <3>. QED
      BY <3>4, <3>5
  <2>7. \A l \in entries : l = k \/ l \in Keys \ {k}
    BY DEF TypeOK
  <2>8. \A l \in entries : \A i \in 1..Len(queue'[l]) :
            pc'[queue'[l][i]] = "waiting" /\ id[queue'[l][i]] = l
    <3> TAKE l \in entries
    <3>1. CASE l = k
      BY <3>1, <2>1, <2>4
    <3>2. CASE l # k
      BY <3>2, <2>1, <2>2, <2>7 DEF QueueIsWaiters
    <3>. QED
      BY <3>1, <3>2
  <2>9. \A l \in entries : \A i, j \in 1..Len(queue'[l]) : queue'[l][i] = queue'[l][j] => i = j
    <3> TAKE l \in entries
    <3>1. CASE l = k
      BY <3>1, <2>1, <2>5
    <3>2. CASE l # k
      BY <3>2, <2>1, <2>7 DEF QueueIsWaiters
    <3>. QED
      BY <3>1, <3>2
  <2>10. entries' = entries /\ id' = id
    BY <1>4
  <2>11. \A l \in entries' : \A i \in 1..Len(queue'[l]) :
            pc'[queue'[l][i]] = "waiting" /\ id'[queue'[l][i]] = l
    BY <2>8, <2>10
  <2>12. \A l \in entries' : \A i, j \in 1..Len(queue'[l]) : queue'[l][i] = queue'[l][j] => i = j
    BY <2>9, <2>10
  <2>13. \A x \in Procs : pc'[x] = "waiting" =>
            id'[x] \in entries' /\ \E i \in 1..Len(queue'[id'[x]]) : queue'[id'[x]][i] = x
    BY <2>6, <2>10
  <2>. QED
    BY <2>11, <2>12, <2>13 DEF QueueIsWaiters
<1>7. EntryBooks'
  BY <1>1, <1>2, <1>4 DEF EntryBooks, TypeOK
<1>8. CountIsHolders'
  <2>1. Holders(k)' = (Holders(k) \ {p}) \cup {h} /\ p \in Holders(k) /\ h \notin Holders(k)
    BY <1>0, <1>1, <1>2, <1>3, <1>4 DEF Holders, TypeOK
  <2>2. \A l \in Keys \ {k} : Holders(l)' = Holders(l)
    BY <1>0, <1>1, <1>2, <1>3, <1>4 DEF Holders, TypeOK
  <2>3. IsFiniteSet(Holders(k)) /\ Cardinality(Holders(k)) \in Nat
    BY <1>1, HoldersFinite
  <2>4. /\ IsFiniteSet(Holders(k) \ {p})
        /\ Cardinality(Holders(k) \ {p}) = Cardinality(Holders(k)) - 1
    BY <2>1, <2>3, FS_RemoveElement
  <2>5. Cardinality(Holders(k)') = Cardinality(Holders(k) \ {p}) + 1
    BY <2>1, <2>4, FS_AddElement
  <2>6. \A l \in Keys : Cardinality(Holders(l)') = Cardinality(Holders(l))
    <3>1. Cardinality(Holders(k)') = Cardinality(Holders(k))
      BY <2>3, <2>4, <2>5
    <3>. QED
      BY <3>1, <2>2
  <2>7. \A l \in Keys : Holders(l) = {} => Holders(l)' = {}
    BY <2>1, <2>2
  <2>8. \A l \in entries : l \in Keys
    BY DEF TypeOK
  <2>9. \A l \in Keys : Taken(l)' = Taken(l)
    BY <1>4 DEF Taken
  <2>. QED
    BY <2>6, <2>7, <2>8, <2>9, <1>4 DEF CountIsHolders
<1>. QED
  BY <1>5, <1>6, <1>7, <1>8

(***************************************************************************)
(* release() with nobody waiting: the place is given back, and the entry   *)
(* goes with its last place.                                               *)
(***************************************************************************)
LEMMA ReleaseLastIInv ==
    ASSUME IInv, NEW p \in Procs, ReleaseLast(p)
    PROVE  IInv'
<1> USE DEF IInv
<1>0. PICK k \in Keys : k = id[p]
  BY DEF TypeOK
<1> DEFINE left == IF Concurrently # 0 /\ k \in entries THEN current[k] - 1 ELSE 0
<1>1. k \in Keys /\ pc[p] = "holding" /\ (k \in entries => queue[k] = << >>)
  BY <1>0 DEF ReleaseLast, TypeOK
<1>2. /\ pc' = [pc EXCEPT ![p] = "idle"]
      /\ entries' = IF Concurrently = 0 \/ left <= 0 THEN entries \ {k} ELSE entries
      /\ stale' = StillStale(p)
      /\ UNCHANGED <<queue, limit, id>>
  BY <1>0 DEF ReleaseLast, Unused
<1>3. IF Concurrently # 0 /\ k \in entries
        THEN /\ current' = [current EXCEPT ![k] = left]
             /\ locked' = [locked EXCEPT ![k] = (left >= Concurrently)]
        ELSE current' = current /\ locked' = locked
  BY <1>0 DEF ReleaseLast, AtCapacity
<1>4. left \in 0..Concurrently /\ (Concurrently # 0 /\ k \in entries => left < Concurrently)
  <2>1. current[k] \in 0..Concurrently /\ (Concurrently # 0 /\ k \in entries => current[k] >= 1)
    BY <1>1 DEF TypeOK, EntryBooks
  <2>. QED
    BY <2>1, ConcurrentlyAssumption
<1>5. entries' \subseteq entries /\ stale' \subseteq stale /\ (\A l \in stale : l # k => l \in stale')
  BY <1>0, <1>2 DEF StillStale
<1>6. \A l \in entries : l # k => l \in entries'
  BY <1>2
<1>7. k \in entries' => Concurrently # 0 /\ k \in entries /\ current'[k] = left /\ left >= 1
  BY <1>1, <1>2, <1>3, <1>4, ConcurrentlyAssumption DEF TypeOK
<1>8. \A l \in Keys \ {k} : current'[l] = current[l] /\ locked'[l] = locked[l]
  BY <1>1, <1>3 DEF TypeOK
<1>10. TypeOK'
  <2>1. current' \in [Keys -> 0..Concurrently] /\ locked' \in [Keys -> BOOLEAN]
    <3>1. (left >= Concurrently) \in BOOLEAN
      OBVIOUS
    <3> HIDE DEF left
    <3>. QED
      BY <3>1, <1>1, <1>3, <1>4 DEF TypeOK
  <2>. QED
    BY <1>1, <1>2, <1>5, <2>1 DEF TypeOK
<1>11. QueueIsWaiters'
  <2>1. pc'[p] = "idle" /\ \A x \in Procs \ {p} : pc'[x] = pc[x]
    BY <1>2 DEF TypeOK
  <2>2. \A l \in entries : \A i \in 1..Len(queue[l]) : queue[l][i] \in Procs \ {p}
    <3> TAKE l \in entries
    <3> TAKE i \in 1..Len(queue[l])
    <3>1. queue[l] \in Seq(Procs) /\ pc[queue[l][i]] = "waiting"
      BY DEF TypeOK, QueueIsWaiters
    <3>. QED
      BY <3>1, <1>1, ElementOfSeq
  <2>3. \A x \in Procs : pc[x] = "waiting" => id[x] \in entries'
    <3> SUFFICES ASSUME NEW x \in Procs, pc[x] = "waiting" PROVE id[x] \in entries'
      OBVIOUS
    <3>1. id[x] \in entries /\ Len(queue[id[x]]) # 0
      BY DEF QueueIsWaiters
    <3>2. id[x] # k
      BY <3>1, <1>1
    <3>. QED
      BY <3>1, <3>2, <1>6
  <2>. QED
    BY <2>1, <2>2, <2>3, <1>2, <1>5 DEF QueueIsWaiters
<1>12. EntryBooks'
  <2>1. k \in entries' => (locked'[k] <=> current'[k] >= Concurrently)
    BY <1>1, <1>3, <1>7 DEF TypeOK
  <2>2. k \in entries' => queue'[k] = << >> /\ current'[k] >= 1 /\ Concurrently # 0
    BY <1>1, <1>2, <1>7
  <2>3. \A l \in entries' : l = k \/ (l \in entries /\ l \in Keys \ {k})
    BY <1>5 DEF TypeOK
  <2>. QED
    BY <2>1, <2>2, <2>3, <1>2, <1>8 DEF EntryBooks
<1>13. CountIsHolders'
  <2>1. p \in Holders(k) /\ Holders(k)' = Holders(k) \ {p}
    BY <1>0, <1>1, <1>2 DEF Holders, TypeOK
  <2>2. \A l \in Keys \ {k} : Holders(l)' = Holders(l)
    BY <1>0, <1>1, <1>2 DEF Holders, TypeOK
  <2>3. IsFiniteSet(Holders(k)) /\ Cardinality(Holders(k)) \in Nat
    BY <1>1, HoldersFinite
  <2>4. Cardinality(Holders(k)') = Cardinality(Holders(k)) - 1
    BY <2>1, <2>3, FS_RemoveElement
  <2>5. k \in entries' => Taken(k)' = Taken(k) - 1
    BY <1>7 DEF Taken
  <2>6. k \in entries' => Taken(k)' <= Cardinality(Holders(k)')
    <3> SUFFICES ASSUME k \in entries' PROVE Taken(k)' <= Cardinality(Holders(k)')
      OBVIOUS
    <3>1. Taken(k) <= Cardinality(Holders(k)) /\ Taken(k) = left + 1
      BY <1>7 DEF CountIsHolders, Taken, TypeOK
    <3>. QED
      BY <3>1, <2>3, <2>4, <2>5, <1>4
  <2>7. k \notin stale' => IF k \in entries' THEN Cardinality(Holders(k)') = Taken(k)'
                                            ELSE Holders(k)' = {}
    <3> SUFFICES ASSUME k \notin stale'
                 PROVE  IF k \in entries' THEN Cardinality(Holders(k)') = Taken(k)'
                                         ELSE Holders(k)' = {}
      OBVIOUS
    <3>1. CASE k \in stale
      <4>1. Holders(k) = {p}
        BY <1>0, <3>1, <1>2 DEF StillStale
      <4>2. Holders(k)' = {} /\ Cardinality(Holders(k)) = 1
        BY <4>1, <2>1, FS_Singleton
      <4>3. k \notin entries'
        <5> SUFFICES ASSUME k \in entries' PROVE FALSE
          OBVIOUS
        <5>1. Taken(k) <= 1 /\ Taken(k) = left + 1
          BY <4>2, <1>7 DEF CountIsHolders, Taken, TypeOK
        <5>. QED
          BY <5>1, <1>7, <1>4
      <4>. QED
        BY <4>2, <4>3
    <3>2. CASE k \notin stale
      <4>1. k \in entries
        BY <3>2, <2>1, <1>1 DEF CountIsHolders
      <4>2. Cardinality(Holders(k)) = Taken(k)
        BY <3>2, <4>1, <1>1 DEF CountIsHolders
      <4>3. CASE k \in entries'
        BY <4>2, <4>3, <2>4, <2>5
      <4>4. CASE k \notin entries'
        <5>1. Taken(k) = 1
          BY <4>1, <4>4, <1>2, <1>4, ConcurrentlyAssumption DEF Taken, EntryBooks, TypeOK
        <5>2. Cardinality(Holders(k)') = 0 /\ IsFiniteSet(Holders(k)')
          BY <5>1, <4>2, <2>4, <2>1, <2>3, FS_RemoveElement
        <5>. QED
          BY <5>2, <4>4, FS_EmptySet
      <4>. QED
        BY <4>3, <4>4
    <3>. QED
      BY <3>1, <3>2
  <2>8. \A l \in Keys \ {k} : Taken(l)' = Taken(l)
    BY <1>8 DEF Taken
  <2>9. \A l \in entries' : Taken(l)' <= Cardinality(Holders(l)')
    <3> TAKE l \in entries'
    <3>1. CASE l = k
      BY <3>1, <2>6
    <3>2. CASE l # k
      <4>1. l \in entries /\ l \in Keys \ {k}
        BY <3>2, <1>5 DEF TypeOK
      <4>2. Taken(l)' = Taken(l) /\ Holders(l)' = Holders(l)
        BY <4>1, <2>2, <2>8
      <4>3. Taken(l) <= Cardinality(Holders(l))
        BY <4>1 DEF CountIsHolders
      <4>. QED
        BY <4>2, <4>3
    <3>. QED
      BY <3>1, <3>2
  <2>10. \A l \in Keys \ stale' :
            IF l \in entries' THEN Cardinality(Holders(l)') = Taken(l)' ELSE Holders(l)' = {}
    <3> TAKE l \in Keys \ stale'
    <3>1. CASE l = k
      BY <3>1, <2>7
    <3>2. CASE l # k
      <4>1. l \in Keys \ stale /\ (l \in entries' <=> l \in entries)
        BY <3>2, <1>5, <1>6
      <4>2. Taken(l)' = Taken(l) /\ Holders(l)' = Holders(l)
        BY <4>1, <3>2, <2>2, <2>8
      <4>3. IF l \in entries THEN Cardinality(Holders(l)) = Taken(l) ELSE Holders(l) = {}
        BY <4>1 DEF CountIsHolders
      <4>. QED
        BY <4>1, <4>2, <4>3
    <3>. QED
      BY <3>1, <3>2
  <2>. QED
    BY <2>9, <2>10 DEF CountIsHolders
<1>. QED
  BY <1>10, <1>11, <1>12, <1>13

(***************************************************************************)
(* clear(): entries go, their waiters are forgotten, their holders remain. *)
(***************************************************************************)
LEMMA ClearIInv ==
    ASSUME IInv, NEW K \in ClearSets, Clear(K)
    PROVE  IInv'
<1> USE DEF IInv
<1>1. K \subseteq Keys
  BY ClearAssumption
<1>2. /\ entries' = entries \ K
      /\ stale' = stale \cup {k \in K : Holders(k) # {}}
      /\ UNCHANGED <<queue, limit, locked, current, id>>
  BY DEF Clear
<1>3. \A x \in Procs : pc'[x] = IF \E k \in K \cap entries : x \in QueueSet(queue[k])
                                THEN "lost" ELSE pc[x]
  BY DEF Clear
<1>4. \A x \in Procs : (\E k \in K \cap entries : x \in QueueSet(queue[k]))
                          <=> pc[x] = "waiting" /\ id[x] \in K
  BY DEF QueueSet, QueueIsWaiters
<1>5. TypeOK'
  BY <1>1, <1>2 DEF Clear, TypeOK
<1>6. QueueIsWaiters'
  <2>1. \A l \in entries' : \A i \in 1..Len(queue[l]) : queue[l][i] \in Procs
    <3> TAKE l \in entries'
    <3> TAKE i \in 1..Len(queue[l])
    <3>1. queue[l] \in Seq(Procs)
      BY <1>2 DEF TypeOK
    <3>. QED
      BY <3>1, ElementOfSeq
  <2>. QED
    BY <2>1, <1>2, <1>3, <1>4 DEF QueueIsWaiters
<1>7. EntryBooks'
  BY <1>2 DEF EntryBooks
<1>8. CountIsHolders'
  <2>1. \A l \in Keys : Holders(l)' = Holders(l)
    BY <1>2, <1>3, <1>4 DEF Holders
  <2>2. \A l \in Keys : Taken(l)' = Taken(l)
    BY <1>2 DEF Taken
  <2>. QED
    BY <2>1, <2>2, <1>1, <1>2 DEF CountIsHolders, TypeOK
<1>. QED
  BY <1>5, <1>6, <1>7, <1>8

-----------------------------------------------------------------------------
(***************************************************************************)
(* The invariant is inductive.                                             *)
(***************************************************************************)
LEMMA NextIInv == IInv /\ [Next]_vars => IInv'
<1> SUFFICES ASSUME IInv, [Next]_vars PROVE IInv'
  OBVIOUS
<1>1. CASE UNCHANGED vars
  <2>1. \A k \in Keys : Holders(k)' = Holders(k) /\ Taken(k)' = Taken(k)
    BY <1>1 DEF vars, Holders, Taken
  <2>2. entries \subseteq Keys /\ entries' = entries /\ stale' = stale
    BY <1>1 DEF IInv, TypeOK, vars
  <2>3. CountIsHolders'
    BY <2>1, <2>2 DEF IInv, CountIsHolders
  <2>4. TypeOK' /\ QueueIsWaiters' /\ EntryBooks'
    BY <1>1 DEF IInv, vars, TypeOK, QueueIsWaiters, EntryBooks
  <2>. QED
    BY <2>3, <2>4 DEF IInv
<1>2. ASSUME NEW p \in Procs, NEW k \in Keys, LockQueued(p, k) PROVE IInv'
  BY <1>2, LockQueuedIInv
<1>3. ASSUME NEW p \in Procs, NEW k \in Keys, NEW lim \in Limits, LockTaken(p, k, lim)
      PROVE  IInv'
  BY <1>3, LockTakenIInv
<1>4. ASSUME NEW p \in Procs, ReleaseToWaiter(p) PROVE IInv'
  BY <1>4, ReleaseToWaiterIInv
<1>5. ASSUME NEW p \in Procs, ReleaseLast(p) PROVE IInv'
  BY <1>5, ReleaseLastIInv
<1>6. ASSUME NEW K \in ClearSets, Clear(K) PROVE IInv'
  BY <1>6, ClearIInv
<1>. QED
  BY <1>1, <1>2, <1>3, <1>4, <1>5, <1>6 DEF Next, Lock, Release

LEMMA Invariance == Spec => []IInv
  BY InitIInv, NextIInv, PTL DEF Spec

(***************************************************************************)
(* What the invariant says of the properties.                              *)
(***************************************************************************)

\* Every state the lock map and its callers reach is well typed, and no
\* entry's count ever leaves 0..Concurrently: releases of cleared holders
\* (utils/mutex.ts release, which checks no ownership) never drive it below.
THEOREM TypeCorrect == Spec => []TypeOK
<1>1. IInv => TypeOK
  BY DEF IInv
<1>. QED
  BY <1>1, Invariance, PTL

\* For any number of calls, keys and places, with clears at any time: a key
\* no clear took from under a holder never has more calls inside than places.
THEOREM ExclusionHolds == Spec => []MutualExclusion
<1>1. IInv => MutualExclusion
  <2> SUFFICES ASSUME IInv, NEW k \in Keys \ stale
               PROVE  Cardinality(Holders(k)) <= Cap
    BY DEF MutualExclusion
  <2>1. CASE k \in entries
    <3>1. Cardinality(Holders(k)) = Taken(k)
      BY <2>1 DEF IInv, CountIsHolders
    <3>2. current[k] \in 0..Concurrently
      BY DEF IInv, TypeOK
    <3>. QED
      BY <3>1, <3>2, ConcurrentlyAssumption DEF Taken, Cap
  <2>2. CASE k \notin entries
    <3>1. Cardinality(Holders(k)) = 0
      BY <2>2, FS_EmptySet DEF IInv, CountIsHolders
    <3>. QED
      BY <3>1, ConcurrentlyAssumption DEF Cap
  <2>. QED
    BY <2>1, <2>2
<1>. QED
  BY <1>1, Invariance, PTL

\* A waiting call always has a full house in front of it, so some release is
\* still to come that will look at the queue: no wake-up is lost.
THEOREM NoLostWakeupHolds == Spec => []NoLostWakeup
<1>1. IInv => NoLostWakeup
  <2> SUFFICES ASSUME IInv, NEW k \in Keys \ stale, NEW p \in Waiters(k)
               PROVE  /\ k \in entries /\ p \in QueueSet(queue[k])
                      /\ Cardinality(Holders(k)) = Cap
    BY DEF NoLostWakeup
  <2>1. p \in Procs /\ pc[p] = "waiting" /\ id[p] = k
    BY DEF Waiters
  <2>2. k \in entries /\ p \in QueueSet(queue[k]) /\ Len(queue[k]) # 0
    BY <2>1 DEF IInv, QueueIsWaiters, QueueSet
  <2>3. locked[k]
    BY <2>2 DEF IInv, EntryBooks
  <2>4. Cardinality(Holders(k)) = Taken(k) /\ current[k] \in 0..Concurrently
    BY <2>2 DEF IInv, CountIsHolders, TypeOK
  <2>5. Taken(k) = Cap
    BY <2>2, <2>3, <2>4, ConcurrentlyAssumption DEF IInv, EntryBooks, Taken, Cap
  <2>. QED
    BY <2>2, <2>4, <2>5
<1>. QED
  BY <1>1, Invariance, PTL

\* The lock map never keeps an entry nobody holds.
THEOREM NoLeakedEntryHolds == Spec => []NoLeakedEntry
<1>1. IInv => NoLeakedEntry
  <2> SUFFICES ASSUME IInv, NEW k \in entries, Holders(k) = {} PROVE FALSE
    BY DEF NoLeakedEntry
  <2>1. Cardinality(Holders(k)) = 0
    BY FS_EmptySet
  <2>2. Taken(k) <= 0 /\ current[k] \in 0..Concurrently
    BY <2>1 DEF IInv, CountIsHolders, TypeOK
  <2>. QED
    BY <2>2, ConcurrentlyAssumption DEF Taken, IInv, EntryBooks
<1>. QED
  BY <1>1, Invariance, PTL

(***************************************************************************)
(* Order of service.                                                       *)
(***************************************************************************)
\* A call that enters a key enters it before every call that already waits
\* there, and only the first in line or a call nobody waits ahead of enters.
LEMMA NextEntersInTurn == IInv /\ [Next]_vars => [EntersInTurn]_vars
<1>1. ASSUME IInv, [Next]_vars PROVE [EntersInTurn]_vars
  <2> USE <1>1 DEF IInv
  <2> SUFFICES ASSUME NEW p \in Procs, NEW k \in Keys \ stale, NEW q \in Waiters(k) \ {p},
                      pc[p] # "holding", pc'[p] = "holding", id'[p] = k, Next
               PROVE  /\ pc[p] = "waiting"
                      /\ \E i, j \in 1..Len(queue[k]) :
                            i < j /\ queue[k][i] = p /\ queue[k][j] = q
    BY DEF EntersInTurn
  <2>0. /\ q \in Procs /\ pc[q] = "waiting" /\ id[q] = k /\ k \in entries
        /\ queue[k] # << >> /\ locked[k]
        /\ \E j \in 1..Len(queue[k]) : queue[k][j] = q
    BY DEF Waiters, QueueIsWaiters, EntryBooks
  <2>1. ASSUME NEW r \in Procs, NEW l \in Keys, LockQueued(r, l) PROVE FALSE
    BY <2>1 DEF LockQueued, TypeOK
  <2>2. ASSUME NEW r \in Procs, NEW l \in Keys, NEW lim \in Limits, LockTaken(r, l, lim)
        PROVE  FALSE
    <3>1. p = r
      BY <2>2 DEF LockTaken, TypeOK
    <3>2. l = k
      BY <2>2, <3>1 DEF LockTaken, TypeOK
    <3>. QED
      BY <2>2, <3>2, <2>0 DEF LockTaken, IsLocked
  <2>3. ASSUME NEW r \in Procs, ReleaseLast(r) PROVE FALSE
    BY <2>3 DEF ReleaseLast, TypeOK
  <2>4. ASSUME NEW K \in ClearSets, Clear(K) PROVE FALSE
    BY <2>4 DEF Clear, TypeOK
  <2>5. ASSUME NEW r \in Procs, ReleaseToWaiter(r)
        PROVE  /\ pc[p] = "waiting"
               /\ \E i, j \in 1..Len(queue[k]) : i < j /\ queue[k][i] = p /\ queue[k][j] = q
    <3>1. /\ id[r] \in entries /\ queue[id[r]] # << >> /\ queue[id[r]] \in Seq(Procs)
          /\ pc' = [pc EXCEPT ![r] = "idle", ![Head(queue[id[r]])] = "holding"]
          /\ id' = id
      BY <2>5 DEF ReleaseToWaiter, TypeOK
    <3>2. /\ Head(queue[id[r]]) = queue[id[r]][1] /\ 1 \in 1..Len(queue[id[r]])
          /\ Head(queue[id[r]]) \in Procs
      BY <3>1, HeadTailProperties, LenProperties, EmptySeq
    <3>3. p = Head(queue[id[r]])
      BY <3>1, <3>2 DEF TypeOK
    <3>4. pc[p] = "waiting" /\ id[p] = id[r]
      BY <3>1, <3>2, <3>3 DEF QueueIsWaiters
    <3>5. id[r] = k /\ queue[k][1] = p
      BY <3>1, <3>2, <3>3, <3>4
    <3>6. PICK j \in 1..Len(queue[k]) : queue[k][j] = q
      BY <2>0
    <3>7. j # 1
      BY <3>5, <3>6
    <3>. QED
      BY <3>2, <3>4, <3>5, <3>6, <3>7
  <2>. QED
    BY <2>1, <2>2, <2>3, <2>4, <2>5 DEF Next, Lock, Release
<1>. QED
  BY <1>1

\* A call comes to wait only by queueing, which puts it at the end of the
\* queue; the waiters that are not evicted keep their places before it.
LEMMA NextQueuesBehind == IInv /\ [Next]_vars => [QueuesBehind]_vars
<1> SUFFICES ASSUME IInv, Next,
                    NEW p \in Procs, NEW k \in Keys \ stale, NEW q \in Waiters(k),
                    pc[p] # "waiting", pc'[p] = "waiting", id'[p] = k, pc'[q] = "waiting"
             PROVE  \E i, j \in 1..Len(queue'[k]) :
                       i < j /\ queue'[k][i] = q /\ queue'[k][j] = p
  BY DEF QueuesBehind
<1> USE DEF IInv
<1>1. q \in Procs /\ pc[q] = "waiting" /\ id[q] = k /\ q # p
  BY DEF Waiters
<1>2. PICK i \in 1..Len(queue[k]) : queue[k][i] = q
  BY <1>1 DEF QueueIsWaiters
<1>3. ASSUME NEW r \in Procs, NEW l \in Keys, LockQueued(r, l)
      PROVE  \E m, j \in 1..Len(queue'[k]) :
                m < j /\ queue'[k][m] = q /\ queue'[k][j] = p
  <2>1. r = p
    BY <1>3 DEF LockQueued, TypeOK
  <2>2. l = k
    BY <1>3, <2>1 DEF LockQueued, TypeOK
  <2>3. LockQueued(p, k)
    BY <1>3, <2>1, <2>2
  <2>4. /\ queue[k] \in Seq(Procs) /\ Full(k) \in BOOLEAN
        /\ Full(k) => Len(queue[k]) > 0
    BY DEF TypeOK, Full
  <2> DEFINE n == IF Full(k) THEN Len(queue[k]) ELSE Len(queue[k]) + 1
             b == FixedPush(queue[k], Full(k), p)
  <2>5. Len(queue[k]) \in Nat
    BY <2>4, LenProperties
  <2>6. Len(b) = n /\ b[n] = p /\ \A m \in 1..n-1 : b[m] = queue[k][m]
    <3> DEFINE s == queue[k]
               f == Full(k)
    <3>1. s \in Seq(Procs) /\ f \in BOOLEAN /\ (f => Len(s) > 0)
      BY <2>4
    <3> HIDE DEF s, f
    <3>2. LET c == FixedPush(s, f, p)
              m == IF f THEN Len(s) ELSE Len(s) + 1
          IN  Len(c) = m /\ c[m] = p /\ \A x \in 1..m-1 : c[x] = s[x]
      BY <3>1, FixedPushResult
    <3>. QED
      BY <3>2 DEF s, f
  <2>7. queue'[k] = b
    BY <2>3 DEF LockQueued, TypeOK
  <2>8. Full(k) => i # Len(queue[k])
    BY <2>3, <1>1, <1>2 DEF LockQueued, EvictedPlace
  <2>9. i \in 1..n-1 /\ n \in Nat
    BY <1>2, <2>5, <2>8
  <2> HIDE DEF n, b
  <2>10. i \in 1..n /\ n \in 1..n /\ i < n
    BY <2>9
  <2>11. queue'[k][i] = q /\ queue'[k][n] = p /\ Len(queue'[k]) = n
    BY <1>2, <2>6, <2>7, <2>9
  <2>. QED
    BY <2>10, <2>11
<1>4. ASSUME NEW r \in Procs, NEW l \in Keys, NEW lim \in Limits, LockTaken(r, l, lim)
      PROVE  FALSE
  BY <1>4 DEF LockTaken, TypeOK
<1>5. ASSUME NEW r \in Procs, ReleaseToWaiter(r) PROVE FALSE
  BY <1>5 DEF ReleaseToWaiter, TypeOK
<1>6. ASSUME NEW r \in Procs, ReleaseLast(r) PROVE FALSE
  BY <1>6 DEF ReleaseLast, TypeOK
<1>7. ASSUME NEW K \in ClearSets, Clear(K) PROVE FALSE
  BY <1>7 DEF Clear, TypeOK
<1>. QED
  BY <1>3, <1>4, <1>5, <1>6, <1>7 DEF Next, Lock, Release

\* No call enters a key past a call that waits for it, and nobody is queued
\* ahead of a call that waits already.
THEOREM OrderKept == Spec => NoOvertaking
<1>. QED
  BY NextEntersInTurn, NextQueuesBehind, Invariance, PTL DEF Spec, NoOvertaking

-----------------------------------------------------------------------------
(***************************************************************************)
(* The lock map implements the abstract keyed lock.                        *)
(***************************************************************************)

LEMMA CallerViewType ==
    ASSUME TypeOK
    PROVE  /\ CallerView \in [Procs -> {"outside", "waiting", "inside", "lost"}]
           /\ \A p \in Procs : /\ CallerView[p] = "outside" <=> pc[p] = "idle"
                               /\ CallerView[p] = "waiting" <=> pc[p] = "waiting"
                               /\ CallerView[p] = "inside"  <=> pc[p] = "holding"
                               /\ CallerView[p] = "lost"    <=> pc[p] = "lost"
<1>1. \A p \in Procs : pc[p] \in {"idle", "waiting", "holding", "lost"}
  BY DEF TypeOK
<1>. QED
  BY <1>1 DEF CallerView

\* The abstract lock counts with an instance of its own of the same operator.
LEMMA SameCardinality == \A S : Abs!Cardinality(S) = Cardinality(S)
  BY DEF Abs!Cardinality, Cardinality

\* The abstract lock counts the calls inside a key as the lock map does.
LEMMA InsideIsHolders ==
    ASSUME TypeOK, NEW k \in Keys
    PROVE  Abs!Cardinality(Abs!Inside(k)) = Cardinality(Holders(k))
<1>1. Abs!Inside(k) = Holders(k)
  BY CallerViewType DEF Abs!Inside, Holders
<1>. QED
  BY <1>1, SameCardinality

LEMMA LockQueuedPostpones ==
    ASSUME IInv, IInv', stale = {}, NEW p \in Procs, NEW k \in Keys, LockQueued(p, k)
    PROVE  Abs!Postpone(p, k)
<1> USE DEF IInv
<1> DEFINE d == IF Full(k) THEN {queue[k][Len(queue[k])]} ELSE {}
<1>1. pc[p] = "idle" /\ k \in entries /\ locked[k] /\ queue[k] \in Seq(Procs)
  BY DEF LockQueued, IsLocked, TypeOK
<1>2. Full(k) => Len(queue[k]) \in 1..Len(queue[k])
  BY <1>1, LenProperties DEF Full, TypeOK
<1>3. \A x \in d : x \in Procs /\ pc[x] = "waiting" /\ id[x] = k
  BY <1>1, <1>2, ElementOfSeq DEF QueueIsWaiters
<1>4. Cardinality(d) <= 1
  <2>1. CASE Full(k)
    <3>1. d = {queue[k][Len(queue[k])]}
      BY <2>1
    <3>2. Cardinality({queue[k][Len(queue[k])]}) = 1
      BY FS_Singleton
    <3> HIDE DEF d
    <3>3. Cardinality(d) = 1
      BY <3>1, <3>2, Zenon
    <3>. QED
      BY <3>3
  <2>2. CASE ~Full(k)
    BY <2>2, FS_EmptySet
  <2>. QED
    BY <2>1, <2>2
<1>5. \A x \in Procs : pc'[x] = IF x = p THEN "waiting" ELSE IF x \in d THEN "lost" ELSE pc[x]
  BY DEF LockQueued, EvictedPlace
<1>6. id' = [id EXCEPT ![p] = k]
  BY DEF LockQueued
<1>7. Abs!Cardinality(Abs!Inside(k)) = Cap
  <2>1. Cardinality(Holders(k)) = Taken(k) /\ current[k] \in 0..Concurrently
    BY <1>1 DEF CountIsHolders, TypeOK
  <2>2. Taken(k) = Cap
    BY <2>1, <1>1, ConcurrentlyAssumption DEF Taken, Cap, EntryBooks
  <2>. QED
    BY <2>1, <2>2, InsideIsHolders
<1> HIDE DEF d
<1>8. d \in SUBSET {q \in Procs : CallerView[q] = "waiting" /\ id[q] = k}
  BY <1>3, CallerViewType
<1>9. CallerView' = [q \in Procs |-> IF q \in d THEN "lost"
                                     ELSE IF q = p THEN "waiting" ELSE CallerView[q]]
  <2>1. p \notin d
    BY <1>1, <1>3
  <2>2. \A q \in Procs : CallerView'[q] = IF q \in d THEN "lost"
                                          ELSE IF q = p THEN "waiting" ELSE CallerView[q]
    BY <1>5, <2>1 DEF CallerView
  <2>. QED
    BY <2>2 DEF CallerView
<1>10. CallerView[p] = "outside"
  BY <1>1 DEF CallerView
<1>11. \E dropped \in SUBSET {q \in Procs : CallerView[q] = "waiting" /\ id[q] = k} :
          /\ Abs!Cardinality(dropped) <= 1
          /\ CallerView' = [q \in Procs |-> IF q \in dropped THEN "lost"
                                            ELSE IF q = p THEN "waiting" ELSE CallerView[q]]
  BY <1>4, <1>8, <1>9, SameCardinality
<1>. QED
  BY <1>6, <1>7, <1>10, <1>11 DEF Abs!Postpone

LEMMA LockTakenAdmits ==
    ASSUME IInv, stale = {}, NEW p \in Procs, NEW k \in Keys, NEW lim \in Limits,
           LockTaken(p, k, lim)
    PROVE  Abs!Admit(p, k)
<1> USE DEF IInv
<1>1. /\ pc[p] = "idle" /\ ~(k \in entries /\ locked[k])
      /\ pc' = [pc EXCEPT ![p] = "holding"] /\ id' = [id EXCEPT ![p] = k]
  BY DEF LockTaken, IsLocked
<1>2. Cardinality(Holders(k)) < Cap
  <2>1. CASE k \in entries
    <3>1. Cardinality(Holders(k)) = Taken(k) /\ current[k] \in 0..Concurrently
      BY <2>1 DEF CountIsHolders, TypeOK
    <3>2. Concurrently # 0 /\ ~(current[k] >= Concurrently)
      BY <2>1, <1>1 DEF EntryBooks
    <3>. QED
      BY <3>1, <3>2, ConcurrentlyAssumption DEF Taken, Cap
  <2>2. CASE k \notin entries
    <3>1. Holders(k) = {}
      BY <2>2 DEF CountIsHolders
    <3>. QED
      BY <3>1, FS_EmptySet, ConcurrentlyAssumption DEF Cap
  <2>. QED
    BY <2>1, <2>2
<1>3. CallerView' = [CallerView EXCEPT ![p] = "inside"]
  BY <1>1 DEF CallerView, TypeOK
<1>4. CallerView[p] = "outside"
  BY <1>1 DEF CallerView
<1>5. Abs!Cardinality(Abs!Inside(k)) < Cap
  BY <1>2, InsideIsHolders
<1>. QED
  BY <1>1, <1>3, <1>4, <1>5 DEF Abs!Admit

LEMMA ReleaseToWaiterHandsOver ==
    ASSUME IInv, NEW p \in Procs, ReleaseToWaiter(p)
    PROVE  \E q \in Procs : Abs!HandOver(p, q)
<1> USE DEF IInv
<1>0. PICK k \in Keys : k = id[p]
  BY DEF TypeOK
<1>1. /\ k \in entries /\ pc[p] = "holding" /\ queue[k] \in Seq(Procs) /\ queue[k] # << >>
      /\ pc' = [pc EXCEPT ![p] = "idle", ![Head(queue[k])] = "holding"] /\ id' = id
  BY <1>0 DEF ReleaseToWaiter, TypeOK
<1>2. Head(queue[k]) = queue[k][1] /\ Head(queue[k]) \in Procs /\ 1 \in 1..Len(queue[k])
  BY <1>1, HeadTailProperties, LenProperties, EmptySeq
<1>3. PICK q \in Procs : q = Head(queue[k])
  BY <1>2
<1>4. pc[q] = "waiting" /\ id[q] = k /\ q # p
  BY <1>1, <1>2, <1>3 DEF QueueIsWaiters
<1>5. pc' = [pc EXCEPT ![p] = "idle", ![q] = "holding"]
  BY <1>1, <1>3
<1>6. CallerView' = [CallerView EXCEPT ![p] = "outside", ![q] = "inside"]
  <2>1. \A x \in Procs : pc'[x] = IF x = q THEN "holding" ELSE IF x = p THEN "idle" ELSE pc[x]
    BY <1>4, <1>5 DEF TypeOK
  <2>. QED
    BY <2>1, <1>4 DEF CallerView
<1>7. CallerView[p] = "inside" /\ CallerView[q] = "waiting"
  BY <1>1, <1>4, CallerViewType
<1>. QED
  BY <1>0, <1>1, <1>4, <1>6, <1>7 DEF Abs!HandOver

LEMMA ReleaseLastLeaves ==
    ASSUME IInv, NEW p \in Procs, ReleaseLast(p)
    PROVE  Abs!Leave(p)
<1> USE DEF IInv
<1>1. /\ pc[p] = "holding" /\ (id[p] \in entries => queue[id[p]] = << >>)
      /\ pc' = [pc EXCEPT ![p] = "idle"] /\ id' = id
  BY DEF ReleaseLast
<1>2. \A q \in Procs : id[q] = id[p] => pc[q] # "waiting"
  BY <1>1 DEF QueueIsWaiters
<1>3. CallerView' = [CallerView EXCEPT ![p] = "outside"]
  BY <1>1 DEF CallerView, TypeOK
<1>4. CallerView[p] = "inside" /\ \A q \in Procs : id[q] = id[p] => CallerView[q] # "waiting"
  BY <1>1, <1>2, CallerViewType
<1>. QED
  BY <1>1, <1>3, <1>4 DEF Abs!Leave

NoneStale == stale = {}

\* An instance no bot clears implements the abstract keyed lock: every step
\* of lock() and release() is an admission, a postponement, a handing over
\* or a leaving of KeyedLock, with Cap places per key.
THEOREM Implementation ==
    ASSUME ClearSets = {}
    PROVE  Spec => ImplementsKeyedLock
<1>1. Init => NoneStale /\ Abs!AbsInit
  <2> SUFFICES ASSUME Init PROVE NoneStale /\ Abs!AbsInit
    OBVIOUS
  <2>1. CallerView = [p \in Procs |-> "outside"]
    BY DEF Init, CallerView
  <2>. QED
    BY <2>1 DEF Init, Abs!AbsInit, NoneStale
<1>2. NoneStale /\ [Next]_vars => NoneStale'
  BY DEF Next, Lock, Release, LockQueued, LockTaken, ReleaseToWaiter, ReleaseLast,
         StillStale, vars, NoneStale
<1>3. IInv /\ IInv' /\ NoneStale /\ [Next]_vars => [Abs!AbsNext]_Abs!avars
  <2> SUFFICES ASSUME IInv, IInv', NoneStale, [Next]_vars
               PROVE  Abs!AbsNext \/ UNCHANGED Abs!avars
    OBVIOUS
  <2>1. CASE UNCHANGED vars
    BY <2>1 DEF vars, Abs!avars, CallerView
  <2>2. ASSUME NEW p \in Procs, NEW k \in Keys, LockQueued(p, k) PROVE Abs!AbsNext
    BY <2>2, LockQueuedPostpones DEF Abs!AbsNext, NoneStale
  <2>3. ASSUME NEW p \in Procs, NEW k \in Keys, NEW lim \in Limits, LockTaken(p, k, lim)
        PROVE  Abs!AbsNext
    BY <2>3, LockTakenAdmits DEF Abs!AbsNext, NoneStale
  <2>4. ASSUME NEW p \in Procs, ReleaseToWaiter(p) PROVE Abs!AbsNext
    BY <2>4, ReleaseToWaiterHandsOver DEF Abs!AbsNext
  <2>5. ASSUME NEW p \in Procs, ReleaseLast(p) PROVE Abs!AbsNext
    BY <2>5, ReleaseLastLeaves DEF Abs!AbsNext
  <2>. QED
    BY <2>1, <2>2, <2>3, <2>4, <2>5 DEF Next, Lock, Release
<1>. QED
  BY <1>1, <1>2, <1>3, Invariance, PTL DEF Spec, ImplementsKeyedLock, Abs!AbsSpec
=============================================================================
