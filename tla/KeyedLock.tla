----------------------------- MODULE KeyedLock -----------------------------
(***************************************************************************)
(* What the keyed lock of the code base promises to its callers, apart     *)
(* from how utils/mutex.ts keeps its books: a call to a method guarded by  *)
(* a key is outside, waiting for its key, inside the guarded method, or    *)
(* lost (its promise will never settle), and no key ever has more calls    *)
(* inside than the capacity it was built with.                             *)
(***************************************************************************)
EXTENDS Naturals, FiniteSets

CONSTANTS Procs,     \* the asynchronous calls that take the lock
          Keys,      \* the ids the lock is taken on
          Capacity   \* how many calls one key admits at a time

VARIABLES state,     \* where each call is
          key        \* the key of its current (or last) request

avars == <<state, key>>

Inside(k) == {p \in Procs : state[p] = "inside" /\ key[p] = k}

AbsInit == /\ state = [p \in Procs |-> "outside"]
           /\ key \in [Procs -> Keys]

(***************************************************************************)
(* A call asks for a key and is admitted at once if there is room, and is  *)
(* made to wait if there is none. One that has to wait may cost another    *)
(* waiter of the same key its place.                                       *)
(***************************************************************************)
Admit(p, k) ==
    /\ state[p] = "outside"
    /\ Cardinality(Inside(k)) < Capacity
    /\ state' = [state EXCEPT ![p] = "inside"]
    /\ key' = [key EXCEPT ![p] = k]

Postpone(p, k) ==
    /\ state[p] = "outside"
    /\ Cardinality(Inside(k)) = Capacity
    /\ \E dropped \in SUBSET {q \in Procs : state[q] = "waiting" /\ key[q] = k} :
         /\ Cardinality(dropped) <= 1
         /\ state' = [q \in Procs |-> IF q \in dropped THEN "lost"
                                      ELSE IF q = p THEN "waiting"
                                      ELSE state[q]]
    /\ key' = [key EXCEPT ![p] = k]

(***************************************************************************)
(* A call that leaves hands its place to a waiter of the same key, if any. *)
(***************************************************************************)
HandOver(p, q) ==
    /\ state[p] = "inside" /\ state[q] = "waiting" /\ key[q] = key[p]
    /\ state' = [state EXCEPT ![p] = "outside", ![q] = "inside"]
    /\ UNCHANGED key

Leave(p) ==
    /\ state[p] = "inside"
    /\ \A q \in Procs : key[q] = key[p] => state[q] # "waiting"
    /\ state' = [state EXCEPT ![p] = "outside"]
    /\ UNCHANGED key

AbsNext == \E p \in Procs :
              \/ \E k \in Keys : Admit(p, k) \/ Postpone(p, k)
              \/ \E q \in Procs : HandOver(p, q)
              \/ Leave(p)

AbsSpec == AbsInit /\ [][AbsNext]_avars
=============================================================================
