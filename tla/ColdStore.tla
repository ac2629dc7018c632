------------------------------ MODULE ColdStore ------------------------------
(***************************************************************************)
(* The two stores a bot's history can be in: Mongo, where a running bot    *)
(* writes it, and the cold store (ClickHouse behind the market-archive     *)
(* service), which the bot's service only reaches by requests over the     *)
(* message broker. A request is answered in time or given up on, and one   *)
(* that is given up on may have done its work, may never do it, or may do  *)
(* it later: the broker keeps it.                                          *)
(*                                                                         *)
(* One bot. A row is a number that grows with its Mongo _id; what a store  *)
(* has of a row is the version of its content, 0 when it has none.         *)
(***************************************************************************)
EXTENDS Naturals, FiniteSets

CONSTANTS
    Orders, Transactions,   \* the rows of the two cold tables
    Old,                    \* those the bot has when it is first archived
    PageSize,               \* COLD_STORE_PAGE
    MaxVersion,             \* bound: contents a row goes through
    Requests,               \* un-archive requests that can be on their way
    Worlds                  \* what a start may choose from, see InitStores

\* 0 is no row: it is the id before the first (ZERO_ID).
ASSUME RowsAssumption ==
    /\ Orders \subseteq Nat \ {0} /\ Transactions \subseteq Nat \ {0}
    /\ IsFiniteSet(Orders) /\ IsFiniteSet(Transactions)
    /\ Orders \cap Transactions = {}
    /\ Old \subseteq Orders \cup Transactions
ASSUME PageAssumption == PageSize \in Nat \ {0}
ASSUME BoundsAssumption ==
    /\ MaxVersion \in Nat \ {0}
    /\ \A w \in Worlds : {w.mishaps, w.archives} \subseteq Nat

Rows == Orders \cup Transactions
TableRows == [orders |-> Orders, transactions |-> Transactions]

VARIABLES
    world,      \* what can happen in this start: the calls that can break,
                \* how often; the times the user archives the bot (bounds) and
                \* asks for it at once; whether the sweep runs; whether the
                \* archiver is alone while it does
    mongo,      \* what Mongo has of each row
    cold,       \* what the cold store has of each row
    latest,     \* ghost: the last content the bot wrote
    bot,        \* the bot's document: status, coldArchived, isDeleted
    late,       \* coldDelete requests given up on that the broker still has
    mishaps     \* what has gone wrong so far

data == <<world, mongo, cold, latest, bot, late>>
stores == <<data, mishaps>>

Nothing == [r \in Rows |-> 0]
Has(store) == {r \in Rows : store[r] > 0}
\* Faulty: a row that is there gets a second copy, or is kept.
Added(store, copy) == [r \in Rows |-> store[r] + copy[r]]
KeepsOld(store, copy) ==
    [r \in Rows |-> IF store[r] > 0 THEN store[r] ELSE copy[r]]
Over(store, copy) == [r \in Rows |-> IF copy[r] > 0 THEN copy[r] ELSE store[r]]
Without(store, gone) == [r \in Rows |-> IF r \in gone THEN 0 ELSE store[r]]
Only(store, these) == [r \in Rows |-> IF r \in these THEN store[r] ELSE 0]

\* The first rows of S, as many as a page holds.
PageOf(S) == {r \in S : Cardinality({s \in S : s < r}) < PageSize}

\* A call works, or it fails, where the world lets it.
Works == mishaps' = mishaps
Fails(kind) ==
    /\ kind \in world.broken
    /\ mishaps < world.mishaps
    /\ mishaps' = mishaps + 1

(***************************************************************************)
(* coldDelete of the bot's rows: every caller goes on whatever it returns. *)
(* It did its work, or it did not and failed, or the caller stopped        *)
(* waiting for what the broker has yet to deliver.                         *)
(***************************************************************************)
ColdDelete(kind) ==
    \/ cold' = Nothing /\ (Works \/ Fails(kind)) /\ UNCHANGED late
    \/ Fails(kind) /\ UNCHANGED <<cold, late>>
    \/ Fails("late") /\ late' = late + 1 /\ UNCHANGED cold

\* The broker hands over a coldDelete nobody waits for any more.
LateDelete ==
    /\ late > 0
    /\ late' = late - 1
    /\ cold' = Nothing
    /\ UNCHANGED <<world, mongo, latest, bot, mishaps>>

\* The bot has traded and was stopped.
InitStores ==
    /\ world \in Worlds
    /\ mongo = [r \in Rows |-> IF r \in Old THEN 1 ELSE 0]
    /\ cold = Nothing
    /\ latest = mongo
    /\ bot = [status |-> "closed", coldArchived |-> FALSE, isDeleted |-> FALSE]
    /\ late = 0
    /\ mishaps = 0
=============================================================================
