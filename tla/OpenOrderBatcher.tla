-------------------------- MODULE OpenOrderBatcher --------------------------
(***************************************************************************)
(* A burst of placements that share venue calls (openOrderBatcher.ts): the *)
(* orders of a burst are prepared at the same time, park at the send site, *)
(* leave in chunks, and go on with their answers one at a time. A bot has  *)
(* one place for a batcher (installOpenBatcher): the burst of another deal *)
(* takes it over, and the orders that come after are sent on their own.    *)
(***************************************************************************)
EXTENDS OrderClient

CONSTANTS Bursts, BurstOf, None,
          MaxChunk   \* MAX_BATCH_PLACE_CHUNK

ASSUME BurstAssumption == BurstOf \in [Orders -> Bursts]
ASSUME ChunkAssumption == MaxChunk \in Nat \ {0}
ASSUME NoneAssumption == None \notin Bursts

VARIABLES installed,   \* the bot's openBatcher
          burst,       \* per burst: has the caller begun, is it through
          flushed,     \* per burst: the batcher's flag
          awaited,     \* per burst: whose settled() the delivery awaits, or 0
          body,        \* per order: how far its placement is
          disturbed    \* history: bursts that lost their place or met a timer

batcherVars == <<installed, burst, flushed, awaited, body, disturbed>>
burstVars == <<world, clientVars, batcherVars>>

OrdersOf(b) == {o \in Orders : BurstOf[o] = b}
In(b, bodies, states) == {o \in OrdersOf(b) : bodies[o] \in states}
Parked(b, states) == {o \in In(b, body, {"parked"}) : stage[o] \in states}

\* Participants that have neither arrived nor bailed; one that is sent on its
\* own stays one of them until it settles.
Unaccounted == {"idle", "preparing", "alone", "aloneWorking"}
Pending(b, bodies) == In(b, bodies, Unaccounted)

Init == /\ world \in Worlds
        /\ ClientInit
        /\ installed = None
        /\ burst = [b \in Bursts |-> "idle"]
        /\ flushed = [b \in Bursts |-> FALSE]
        /\ awaited = [b \in Bursts |-> 0]
        /\ body = [o \in Orders |-> "idle"]
        /\ disturbed = {}

\* flush: what has parked is on its way, in loop order.
Flush(b, bodies) ==
    /\ flushed' = [flushed EXCEPT ![b] = TRUE]
    /\ stage' = [o \in Orders |-> IF o \in In(b, bodies, {"parked"}) THEN "queued" ELSE stage[o]]
Unflushed == UNCHANGED <<flushed, stage>>
FlushWhenAccounted(b) ==
    IF ~flushed[b] /\ Pending(b, body') = {} THEN Flush(b, body') ELSE Unflushed

-----------------------------------------------------------------------------
(* The bodies of a burst. *)

\* The orders are chosen, the batcher is installed and every body begins.
Install(b) ==
    /\ burst[b] = "idle" /\ b \in world.bursts
    /\ burst' = [burst EXCEPT ![b] = "open"]
    /\ installed' = b
    /\ body' = [o \in Orders |-> IF BurstOf[o] = b THEN "preparing" ELSE body[o]]
    /\ disturbed' = disturbed \cup ({installed} \ {None})
    /\ UNCHANGED <<world, clientVars, flushed, awaited>>

\* Faulty: an order that comes after the flush parks all the same.
ParksAnyway(o) == installed = BurstOf[o]
Parks(o) == installed = BurstOf[o] /\ ~flushed[BurstOf[o]]

\* send: the last to arrive sends the burst off.
Arrive(o) ==
    /\ body[o] = "preparing" /\ Parks(o)
    /\ body' = [body EXCEPT ![o] = "parked"]
    /\ FlushWhenAccounted(BurstOf[o])
    /\ UNCHANGED <<world, tries, live, answer, latched, installed, burst, awaited, disturbed>>

\* Outside its batch, the order is placed on its own.
ArriveAlone(o) ==
    /\ body[o] = "preparing" /\ ~Parks(o)
    /\ body' = [body EXCEPT ![o] = "alone"]
    /\ stage' = [stage EXCEPT ![o] = "send"]
    /\ UNCHANGED <<world, tries, live, answer, latched, installed, burst, flushed, awaited,
                   disturbed>>

\* settled: the body is through, with an answer or without having been sent.
Settle(o) ==
    LET b == BurstOf[o]
    IN /\ body[o] \in {"preparing", "working", "aloneWorking"}
       /\ body' = [body EXCEPT ![o] = "done"]
       /\ awaited' = [awaited EXCEPT ![b] = IF @ = o THEN 0 ELSE @]
       /\ FlushWhenAccounted(b)
       /\ UNCHANGED <<world, tries, live, answer, latched, installed, burst, disturbed>>

\* removeOpenBatcher, when every body is through.
Remove(b) ==
    /\ burst[b] = "open" /\ \A o \in OrdersOf(b) : body[o] = "done"
    /\ burst' = [burst EXCEPT ![b] = "over"]
    /\ installed' = IF installed = b THEN None ELSE installed
    /\ UNCHANGED <<world, clientVars, flushed, awaited, body, disturbed>>

-----------------------------------------------------------------------------
(* flush and deliver. *)

InFlight(b) == Parked(b, Travelling)
First(S, n) == {o \in S : Cardinality({p \in S : p < o}) < n}

SendChunk(b) ==
    LET chunk == First(Parked(b, {"queued"}), MaxChunk)
    IN /\ chunk # {} /\ InFlight(b) = {}
       /\ Become(chunk, Opens(chunk))
       /\ UNCHANGED <<world, tries, live, answer, latched, batcherVars>>

Batch(b) ==
    /\ Parked(b, {"batch"}) # {}
    /\ OpenOrdersBatch(Parked(b, {"batch"}))
    /\ UNCHANGED <<world, batcherVars>>

\* A chunk that is placed one at a time goes in its order.
Turn(o) == body[o] = "alone" \/ o \in First(InFlight(BurstOf[o]), 1)
PlaceOne(o) == Turn(o) /\ OpenOrder(o) /\ UNCHANGED <<world, batcherVars>>

\* The call throws: nothing of its chunk, nor of those that were to follow, is
\* confirmed, an order the chunk already placed on its own included.
Chunk(b, o) == Cardinality({p \in Parked(b, Stages) : p < o}) \div MaxChunk
Throws(b) ==
    LET left == {o \in Parked(b, Stages) :
                    \E p \in InFlight(b) : Chunk(b, p) <= Chunk(b, o)}
    IN /\ "throws" \in world.faults /\ left # {}
       /\ Become(left, "answered")
       /\ answer' = [o \in Orders |-> IF o \in left THEN "unconfirmed" ELSE answer[o]]
       /\ UNCHANGED <<world, tries, live, latched, batcherVars>>

AnsweredAlone(o) ==
    /\ body[o] = "alone" /\ stage[o] = "answered"
    /\ body' = [body EXCEPT ![o] = "aloneWorking"]
    /\ UNCHANGED <<world, clientVars, installed, burst, flushed, awaited, disturbed>>

\* Faulty: the next one is delivered while the last is at work.
AwaitsNobody(b) == TRUE
LastSettled(b) == awaited[b] = 0

\* When all the chunks are answered, one participant after the other goes on.
Deliver(o) ==
    LET b == BurstOf[o]
    IN /\ LastSettled(b) /\ Parked(b, Stages \ {"answered"}) = {}
       /\ o \in First(Parked(b, {"answered"}), 1)
       /\ body' = [body EXCEPT ![o] = "working"]
       /\ awaited' = [awaited EXCEPT ![b] = o]
       /\ UNCHANGED <<world, clientVars, installed, burst, flushed, disturbed>>

\* The timers: the burst leaves without those who never come, and goes on
\* without the settled() of one who never ends.
FlushTimer(b) ==
    /\ world.timers /\ burst[b] = "open" /\ ~flushed[b]
    /\ Flush(b, body)
    /\ disturbed' = disturbed \cup {b}
    /\ UNCHANGED <<world, tries, live, answer, latched, installed, burst, awaited, body>>

GuardTimer(b) ==
    /\ world.timers /\ awaited[b] # 0
    /\ awaited' = [awaited EXCEPT ![b] = 0]
    /\ disturbed' = disturbed \cup {b}
    /\ UNCHANGED <<world, clientVars, installed, burst, flushed, body>>

-----------------------------------------------------------------------------
BodyStep(o) == Arrive(o) \/ ArriveAlone(o) \/ Settle(o)
CallStep(o) == PlaceOne(o) \/ AnsweredAlone(o) \/ Deliver(o)
BurstStep(b) == Remove(b) \/ SendChunk(b) \/ Batch(b) \/ Throws(b)
                \/ FlushTimer(b) \/ GuardTimer(b)

Next == \/ \E b \in Bursts : Install(b) \/ BurstStep(b)
        \/ \E o \in Orders : BodyStep(o) \/ CallStep(o)

Spec == Init /\ [][Next]_burstVars

\* Calls answer or give up, timers fire, and a body that does not hang goes on.
Fairness == WF_burstVars(\/ \E b \in Bursts : BurstStep(b)
                         \/ \E o \in Orders : CallStep(o)
                         \/ \E o \in Orders \ world.hangs : BodyStep(o))
FairSpec == Spec /\ Fairness

-----------------------------------------------------------------------------
(***************************************************************************)
(* Orders, calls and bodies keep to the values the code gives them.        *)
(***************************************************************************)
TypeOK ==
    /\ world \in Worlds
    /\ stage \in [Orders -> Stages]
    /\ tries \in [Orders -> 0..Resends]
    /\ live \in [Orders -> Nat]
    /\ answer \in [Orders -> Answers]
    /\ latched \in BOOLEAN
    /\ installed \in Bursts \cup {None}
    /\ burst \in [Bursts -> {"idle", "open", "over"}]
    /\ flushed \in [Bursts -> BOOLEAN]
    /\ awaited \in [Bursts -> 0..N]
    /\ body \in [Orders -> {"idle", "preparing", "parked", "alone", "working",
                            "aloneWorking", "done"}]
    /\ disturbed \subseteq Bursts

(***************************************************************************)
(* No order is ever placed twice, and none is written off while the venue  *)
(* may hold it (spec 082, 1.1.3): an order that is refused is not there,   *)
(* one that is placed is there once.                                       *)
(***************************************************************************)
VenueAgrees ==
    \A o \in Orders : /\ live[o] <= 1
                      /\ answer[o] = "placed" => live[o] = 1
                      /\ answer[o] = "refused" => live[o] = 0

(***************************************************************************)
(* What the engine does with an answer runs with nothing of its burst      *)
(* alongside, in loop order and after the last chunk (spec 082, 7.3), as   *)
(* long as no timer fired and no other burst took the batcher's place.     *)
(***************************************************************************)
OneAtATime ==
    \A b \in Bursts \ disturbed :
        LET working == In(b, body, {"working", "aloneWorking", "alone"})
        IN \A o \in working : /\ working = {o}
                              /\ InFlight(b) = {}
                              /\ \A p \in OrdersOf(b) : p < o => body[p] = "done"

(***************************************************************************)
(* After the last of finitely many bursts nobody stays parked, though      *)
(* another body of the burst hangs before the send site or with its        *)
(* answer; and a burst none of whose bodies hangs comes to its end.        *)
(***************************************************************************)
BurstReturns ==
    <>[] /\ \A o \in Orders : body[o] # "parked"
         /\ \A b \in Bursts : burst[b] = "open" => world.hangs \cap OrdersOf(b) # {}
=============================================================================
