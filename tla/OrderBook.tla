----------------------------- MODULE OrderBook -----------------------------
(***************************************************************************)
(* What a bot remembers of one of its orders, and the operations on it     *)
(* (class MainBot, src/src/bot/main.ts). Orders of a bot share nothing but *)
(* the count that says whether the bot holds any, so the modules that use  *)
(* this one follow a single client order id.                               *)
(*                                                                         *)
(* Order rows are JavaScript objects: the map, a placement, a cancel and   *)
(* the unknown-order ladder hold references to them, some rows are written *)
(* in place and others replaced by copies, and the difference is what most *)
(* of the races here are about. So rows live in a heap of objects, and     *)
(* what a step does to the bot's memory and to the stored row is an        *)
(* expression over "book", one operator for one call.                      *)
(*                                                                         *)
(* A row keeps the order's status, whether it carries the venue's order id *)
(* (orderId # '-1'), its executedQty and its updateTime; the venue stamps  *)
(* its changes of the order 1, 2, 3, ...                                   *)
(***************************************************************************)
EXTENDS Naturals, FiniteSets

CONSTANTS Size,          \* the quantity of the order
          Objs,          \* the objects there are room for, numbered
          Cancelers,     \* the calls of cancelOrderOnExchange
          MaxAttempts,   \* unknownOrderMaxAttempts
          Worlds         \* the venues and the faults to meet, see terms

ASSUME SizeAssumption == Size \in Nat \ {0}
ASSUME ObjsAssumption == Objs \subseteq Nat \ {0}
ASSUME AttemptsAssumption == MaxAttempts \in Nat \ {0}
ASSUME WorldsAssumption ==
    \A w \in Worlds : /\ w.byId \in BOOLEAN /\ w.openOnly \in BOOLEAN
                     /\ w.lookups \in Nat /\ w.resends \in Nat
                     /\ DOMAIN w = {"byId", "openOnly", "lookups", "resends", "faults"}

VARIABLES
    book,      \* the map's row, its route, the heap and the stored row
    terms,     \* the venue the bot is on and what goes wrong, once and for all
    others,    \* the bot's map holds other orders
    stopped,   \* the bot was stopped: its listener and its map are gone
    place,     \* the placement: [pc, obj, ans, count]
    handle,    \* placementsInFlight: the promise of the venue's id
    cancel,    \* the cancels: [pc, obj, promote, ans] each
    ladder,    \* unknownOrderInFlight: [pc, just, obj, ans]
    attempts,  \* canceledMap
    queue,     \* orderQueue: the reports taken in and not yet processed
    processing,\* the report processOrderQueue is at
    venue,     \* the order at the venue: [st, exec, time]
    reports,   \* execution reports on their way
    faults     \* lookups that failed so far

orderVars == <<book, terms, others, stopped, place, handle, cancel, ladder,
               attempts, queue, processing, venue, reports, faults>>

ByExchangeId == terms.byId        \* coinbase, kraken, kucoin: addressed by orderId
OpenOrdersOnly == terms.openOnly  \* a client id is searched on the open orders list only
LookupFaults == terms.lookups     \* how many lookups fail for transport
Resends == terms.resends          \* how often a refused placement is sent again
Faults == terms.faults            \* the other things that go wrong, by name

None == 0

Live == {"NEW", "PARTIALLY_FILLED"}
Statuses == Live \cup {"FILLED", "CANCELED"}
Rows == [st : Statuses \cup {"none"}, oid : BOOLEAN, exec : 0..Size, time : Nat]
Blank == [st |-> "none", oid |-> FALSE, exec |-> 0, time |-> 0]
NewRow == [Blank EXCEPT !.st = "NEW"]

Books == [heap : [Objs -> Rows], map : Objs \cup {None}, routed : BOOLEAN,
          db : Rows]

Larger(m, n) == IF m < n THEN n ELSE m

Held(b) == b.map # None
HeldRow(b) == b.heap[b.map]

-----------------------------------------------------------------------------
(***************************************************************************)
(* The map. A row that is set live also asks the shared stream for its     *)
(* reports; deleting it ends that.                                         *)
(***************************************************************************)
SetOrder(b, o) ==
    [b EXCEPT !.map = o, !.routed = @ \/ b.heap[o].st \in Live]

DeleteOrder(b) == [b EXCEPT !.map = None, !.routed = FALSE]

Put(b, o, row) == [b EXCEPT !.heap[o] = row]

(***************************************************************************)
(* The stored row. An update never creates one and leaves a FILLED or      *)
(* CANCELED one alone; the write-ahead row is taken back only untouched.   *)
(***************************************************************************)
\* Faulty: an update overwrites whatever is stored.
OverwriteOnDb(b, row) == IF b.db.st # "none" THEN [b EXCEPT !.db = row] ELSE b

UpdateOrderOnDb(b, row) ==
    IF b.db.st \in Live THEN [b EXCEPT !.db = row] ELSE b

SaveOrderToDb(b, row) ==
    IF b.db.st = "none" THEN [b EXCEPT !.db = row] ELSE b

DeleteOrderFromDb(b) ==
    IF b.db.st = "NEW" /\ ~b.db.oid THEN [b EXCEPT !.db = Blank] ELSE b

(***************************************************************************)
(* adoptExchangeOrderId: the object the caller holds and the map's row get *)
(* the venue's id, unless the caller's object has one.                     *)
(***************************************************************************)
AdoptExchangeOrderId(b, o) ==
    IF b.heap[o].oid THEN b
    ELSE LET known == [b EXCEPT !.heap = [x \in Objs |->
                         IF x \in {o, b.map} THEN [b.heap[x] EXCEPT !.oid = TRUE]
                                             ELSE b.heap[x]]]
         IN IF Held(b) THEN UpdateOrderOnDb(SetOrder(known, b.map), HeldRow(known))
                       ELSE UpdateOrderOnDb(known, known.heap[o])

(***************************************************************************)
(* writeOffStatus: a row that states its whole size executed, on an order  *)
(* the venue acknowledged, did trade.                                      *)
(***************************************************************************)
WriteOffStatus(row) ==
    IF row.st = "FILLED" \/ (row.oid /\ row.exec >= Size) THEN "FILLED"
                                                         ELSE "CANCELED"

-----------------------------------------------------------------------------
(***************************************************************************)
(* Objects. Fresh holds the least object nobody refers to; Sweep blanks    *)
(* the objects nobody refers to any more (a bound, no code of the bot).    *)
(***************************************************************************)
References == {place.obj, ladder.obj} \cup {cancel[c].obj : c \in Cancelers}

Unreferenced == Objs \ (References \cup {book.map})
Fresh == {o \in Unreferenced : \A p \in Unreferenced : o <= p}

Sweep(b) ==
    [b EXCEPT !.heap = [o \in Objs |->
        IF o = b.map \/ o \in References' THEN b.heap[o] ELSE Blank]]

Tracked(b) == Held(b) \/ others
Acknowledged(b) == Held(b) /\ HeldRow(b).oid

(***************************************************************************)
(* awaitPlacementInFlight: whoever finds a row without an id while its     *)
(* placement is in flight waits for the placement's answer.                *)
(***************************************************************************)
\* Faulty: nobody waits (before spec 155).
NobodyAwaits(row) == FALSE

Awaits(row) == handle = "pending" /\ ~row.oid

(***************************************************************************)
(* _handleUnknownOrder: a caller joins the ladder that runs, or starts one *)
(* of its own with its own idea of whether the order was just placed.      *)
(***************************************************************************)
HandleUnknownOrder(just) ==
    ladder' = IF ladder.pc = "idle"
              THEN [ladder EXCEPT !.pc = "enter", !.just = just]
              ELSE ladder
=============================================================================
