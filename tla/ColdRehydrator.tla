--------------------------- MODULE ColdRehydrator ----------------------------
(***************************************************************************)
(* Un-archiving: setArchiveStatus(archive = false) asks whether the bot is *)
(* cold; if it is, ColdStoreRehydrator brings the rows back, clears the    *)
(* flag and deletes the cold copies, in that order; then the bot's status  *)
(* goes back to closed. A failure rejects the request, which may come      *)
(* again. One rehydration of a bot runs at a time.                         *)
(***************************************************************************)
EXTENDS ColdStore

VARIABLE request    \* per un-archive request: where it is, the table it copies,
                    \* the rows of it that were copied (`skip` is how many)

Answered == [at |-> "idle", table |-> "orders", copied |-> {}]
Become(u, r) == request' = [request EXCEPT ![u] = r]
Reject(u) == Become(u, Answered)
Goes(u, to) == Become(u, [request[u] EXCEPT !.at = to])

Rehydrating(u) == request[u].at \in {"copy", "verify", "clear", "gc"}

\* The user asks for the bot back; nobody asks whether it is archived.
Unarchive(u) ==
    /\ request[u].at = "idle"
    /\ Goes(u, "look")
    /\ UNCHANGED stores

\* Is it cold? A read that fails counts as no.
Look(u) ==
    /\ request[u].at = "look"
    /\ \/ Works /\ Goes(u, IF bot.coldArchived /\ bot.status # "gone"
                           THEN "enter" ELSE "flip")
       \/ Fails("look") /\ Goes(u, "flip")
    /\ UNCHANGED data

\* rehydrateBot, possibly long after: other bots of the request come first,
\* and one that fails ends it. The flag is not read again.
Enter(u) ==
    /\ request[u].at = "enter"
    /\ \/ Works /\ IF \E v \in Requests : Rehydrating(v) THEN Reject(u)
                                                         ELSE Goes(u, "copy")
       \/ Fails("restore") /\ Reject(u)
    /\ UNCHANGED data

\* A page of the cold rows is put over what Mongo has, all of it or some.
CopyPage(u) ==
    LET r == request[u]
        page == PageOf((Has(cold) \cap TableRows[r.table]) \ r.copied)
        last == Cardinality(page) < PageSize
    IN  /\ r.at = "copy"
        /\ \/ /\ Works
              /\ mongo' = Over(mongo, Only(cold, page))
              /\ Become(u, [r EXCEPT !.copied = r.copied \cup page,
                                     !.at = IF last THEN "verify" ELSE "copy"])
           \/ /\ Fails("restore") /\ Reject(u)
              /\ \E part \in SUBSET page : mongo' = Over(mongo, Only(cold, part))
        /\ UNCHANGED <<world, cold, latest, bot, late>>

\* Mongo has at least as many rows of the table as were copied.
CameBack(u) ==
    Cardinality(Has(mongo) \cap TableRows[request[u].table])
        >= Cardinality(request[u].copied)

Verify(u) ==
    /\ request[u].at = "verify"
    /\ \/ /\ Works
          /\ IF ~CameBack(u) THEN Reject(u)
             ELSE IF request[u].table = "orders" THEN
                Become(u, [at |-> "copy", table |-> "transactions", copied |-> {}])
             ELSE Goes(u, "clear")
       \/ Fails("restore") /\ Reject(u)
    /\ UNCHANGED data

\* The update fails and did nothing, or it did its work: the bot is not cold
\* any more and its copies are left, for no request will look for them.
ClearFlag(u) ==
    LET cleared == [bot EXCEPT !.coldArchived = FALSE]
    IN  /\ request[u].at = "clear"
        /\ \/ Works /\ bot' = cleared /\ Goes(u, "gc")
           \/ Fails("restore") /\ UNCHANGED bot /\ Reject(u)
           \/ Fails("leave") /\ bot' = cleared /\ Reject(u)
        /\ UNCHANGED <<world, mongo, cold, latest, late>>

\* The cold copies go; that they are left is only logged.
DropCopies(u) ==
    /\ request[u].at = "gc"
    /\ ColdDelete("leave")
    /\ Goes(u, "flip")
    /\ UNCHANGED <<world, mongo, latest, bot>>

\* _setArchiveStatusImpl: the update only matches an archived bot.
Reopened ==
    IF bot.status = "archive" THEN [bot EXCEPT !.status = "closed"] ELSE bot

Flip(u) ==
    /\ request[u].at = "flip"
    /\ \/ Works /\ bot' = Reopened
       \/ Fails("restore") /\ bot' \in {bot, Reopened}
    /\ Reject(u)
    /\ UNCHANGED <<world, mongo, cold, latest, late>>

Restoring(u) ==
    \/ Look(u) \/ Enter(u) \/ CopyPage(u) \/ Verify(u)
    \/ ClearFlag(u) \/ DropCopies(u) \/ Flip(u)
=============================================================================
