---------------------------- MODULE ColdArchiver -----------------------------
(***************************************************************************)
(* ColdStoreArchiver: copy, verify, delete. The history of a bot that was  *)
(* archived goes to the cold store page by page, orders first; each page   *)
(* is inserted there, counted there and only then deleted from Mongo.      *)
(* Between any two of these calls everybody else may move. Any failure     *)
(* ends the job; nothing starts it again.                                  *)
(***************************************************************************)
EXTENDS ColdStore

VARIABLE archiver   \* the job of the bot, "idle" when it is not in `running`

Before(at, table) == [at |-> at, table |-> table, last |-> 0, page |-> Nothing]
AtRest == Before("idle", "orders")

\* enqueueArchive: a bot whose job runs is passed over.
EnqueueArchive ==
    archiver' = IF archiver.at = "idle" THEN Before("read", "orders")
                ELSE archiver

GiveUp == archiver' = AtRest

\* Faulty: the id range is left out of the filter.
WholeTable(page) == TableRows[archiver.table]
\* The rows the page spans: its ids bound the count and the delete.
Spanned(page) ==
    {r \in TableRows[archiver.table] :
        (\E s \in Has(page) : s <= r) /\ (\E s \in Has(page) : r <= s)}

\* A page of the table's rows in Mongo, or the end of the table.
ReadPage ==
    LET left == {r \in TableRows[archiver.table] :
                    mongo[r] > 0 /\ r > archiver.last}
    IN  /\ archiver.at = "read"
        /\ \/ /\ Works
              /\ archiver' =
                    IF left # {} THEN
                        [archiver EXCEPT !.at = "insert",
                                         !.page = Only(mongo, PageOf(left))]
                    ELSE IF archiver.table = "orders" THEN
                        Before("read", "transactions")
                    ELSE Before("mark", "orders")
           \/ Fails("archive") /\ GiveUp
        /\ UNCHANGED data

\* coldInsert: a row that is there is replaced. Its answer may be lost.
InsertPage ==
    /\ archiver.at = "insert"
    /\ \/ /\ Works
          /\ cold' = Over(cold, archiver.page)
          /\ archiver' = [archiver EXCEPT !.at = "count"]
       \/ /\ Fails("archive") /\ GiveUp
          /\ cold' \in {cold, Over(cold, archiver.page)}
    /\ UNCHANGED <<world, mongo, latest, bot, late>>

\* coldCount of the page's id range; fewer rows than the page ends the job.
Copied ==
    Cardinality(Has(cold) \cap Spanned(archiver.page))
        >= Cardinality(Has(archiver.page))

CountPage ==
    /\ archiver.at = "count"
    /\ \/ /\ Works
          /\ IF Copied THEN archiver' = [archiver EXCEPT !.at = "delete"]
                       ELSE GiveUp
       \/ Fails("archive") /\ GiveUp
    /\ UNCHANGED data

\* The range goes from Mongo, and the next page begins after it.
DeletePage ==
    LET gone == Spanned(archiver.page)
        end == CHOOSE r \in Has(archiver.page) :
                    \A s \in Has(archiver.page) : s <= r
    IN  /\ archiver.at = "delete"
        /\ \/ /\ Works
              /\ mongo' = Without(mongo, gone)
              /\ archiver' = [archiver EXCEPT !.at = "read", !.last = end,
                                              !.page = Nothing]
           \/ /\ Fails("archive") /\ GiveUp
              /\ mongo' \in {mongo, Without(mongo, gone)}
        /\ UNCHANGED <<world, cold, latest, bot, late>>

\* Both tables are through: from here reads are routed to the cold store.
Routed ==
    IF bot.status = "gone" THEN bot ELSE [bot EXCEPT !.coldArchived = TRUE]

MarkCold ==
    /\ archiver.at = "mark"
    /\ \/ Works /\ bot' = Routed
       \/ Fails("archive") /\ bot' \in {bot, Routed}
    /\ GiveUp
    /\ UNCHANGED <<world, mongo, cold, latest, late>>

Archiving == ReadPage \/ InsertPage \/ CountPage \/ DeletePage \/ MarkCold
=============================================================================
