----------------------------- MODULE ColdArchive -----------------------------
(***************************************************************************)
(* The cold archive of one bot: the user archives it, asks for it back,    *)
(* starts and stops it, deletes it; the archiver and the un-archive        *)
(* requests move its history; the daily cron job removes deleted bots and  *)
(* sweeps cold rows that belong to nobody. Each of them makes its calls    *)
(* one by one and the others move in between.                              *)
(*                                                                         *)
(* In a world that is `apart` nothing overlaps the archiver's job: no      *)
(* archiving begins while an un-archive request or the clean job is under  *)
(* way, neither of them while the archiver works, and an archived bot does *)
(* not write. The code does not see to that, it is the reader's to know    *)
(* that the properties below need it. Un-archive requests overlap one      *)
(* another, the clean job and a bot that runs again in every world.        *)
(***************************************************************************)
EXTENDS ColdArchiver, ColdRehydrator

VARIABLES
    cron,       \* the clean job: where it is, and the flag it read
    archives    \* how often the bot was archived

vars == <<stores, archiver, request, cron, archives>>

CronRest == [at |-> "idle", coldArchived |-> FALSE]

NobodyUnarchives == \A u \in Requests : request[u].at = "idle"
Apart(condition) == world.apart => condition

-----------------------------------------------------------------------------
(* The user and the bot *)

\* Only a stopped bot: its status flips and the job is queued.
Archive ==
    /\ bot.status = "closed" /\ ~bot.isDeleted
    /\ archives < world.archives
    /\ Apart(NobodyUnarchives /\ cron.at = "idle")
    /\ bot' = [bot EXCEPT !.status = "archive"]
    /\ archives' = archives + 1
    /\ EnqueueArchive
    /\ UNCHANGED <<world, mongo, cold, latest, late, mishaps, request, cron>>

AskForItBack(u) ==
    /\ u \in world.requests
    /\ Apart(archiver.at = "idle")
    /\ Unarchive(u)
    /\ UNCHANGED <<archiver, cron, archives>>

StartBot ==
    /\ bot.status = "closed" /\ ~bot.isDeleted
    /\ bot' = [bot EXCEPT !.status = "open"]
    /\ UNCHANGED <<world, mongo, cold, latest, late, mishaps,
                   archiver, request, cron, archives>>

StopBot ==
    /\ bot.status = "open"
    /\ bot' = [bot EXCEPT !.status = "closed"]
    /\ UNCHANGED <<world, mongo, cold, latest, late, mishaps,
                   archiver, request, cron, archives>>

(***************************************************************************)
(* A bot writes a new row or a row it finds. It also does after it was     *)
(* archived: closeAllDeals is posted to its worker and not waited for.     *)
(***************************************************************************)
Writes == bot.status = "open" \/ (bot.status = "archive" /\ ~world.apart)

Write(r) ==
    /\ Writes
    /\ latest[r] < MaxVersion
    /\ \/ mongo[r] > 0
       \/ latest[r] = 0 /\ \A s \in Rows : s < r => latest[s] > 0
    /\ latest' = [latest EXCEPT ![r] = latest[r] + 1]
    /\ mongo' = [mongo EXCEPT ![r] = latest[r] + 1]
    /\ UNCHANGED <<world, cold, bot, late, mishaps,
                   archiver, request, cron, archives>>

Delete ==
    /\ bot.status \in {"closed", "archive"} /\ ~bot.isDeleted
    /\ world.sweeps
    /\ bot' = [bot EXCEPT !.isDeleted = TRUE]
    /\ UNCHANGED <<world, mongo, cold, latest, late, mishaps,
                   archiver, request, cron, archives>>

-----------------------------------------------------------------------------
(* The clean job: premanenetlyDeleteBots, then the reconciler's sweep *)

CronGoes(to) == cron' = [cron EXCEPT !.at = to]

\* Bots deleted long enough ago are read with their flag.
CronStart ==
    /\ world.sweeps /\ cron.at = "idle"
    /\ Apart(archiver.at = "idle")
    /\ cron' = [at |-> IF bot.isDeleted /\ bot.status # "gone"
                       THEN "purge" ELSE "list",
                coldArchived |-> bot.coldArchived]
    /\ UNCHANGED stores

PurgeCold ==
    /\ cron.at = "purge"
    /\ IF cron.coldArchived THEN ColdDelete("sweep")
                            ELSE Works /\ UNCHANGED <<cold, late>>
    /\ CronGoes("orders")
    /\ UNCHANGED <<world, mongo, latest, bot>>

\* The bot's orders go from Mongo, then its transactions; a delete that fails
\* may have done its work, and what comes after it is left out.
PurgeRows(table, next) ==
    /\ cron.at = table
    /\ \/ Works /\ mongo' = Without(mongo, TableRows[table]) /\ CronGoes(next)
       \/ /\ Fails("sweep") /\ CronGoes("list")
          /\ mongo' \in {mongo, Without(mongo, TableRows[table])}
    /\ UNCHANGED <<world, cold, latest, bot, late>>

\* Last of all its document.
PurgeBot ==
    LET gone == [bot EXCEPT !.status = "gone"]
    IN  /\ cron.at = "document"
        /\ \/ Works /\ bot' = gone
           \/ Fails("sweep") /\ bot' \in {bot, gone}
        /\ CronGoes("list")
        /\ UNCHANGED <<world, mongo, cold, latest, late>>

PurgeMongo ==
    \/ PurgeRows("orders", "transactions")
    \/ PurgeRows("transactions", "document")
    \/ PurgeBot

\* sweep: has the bot rows in the cold store?
ListBots ==
    /\ cron.at = "list"
    /\ \/ Works /\ IF Has(cold) = {} THEN cron' = CronRest
                                     ELSE CronGoes("flags")
       \/ Fails("sweep") /\ cron' = CronRest
    /\ UNCHANGED data

\* Has it a document that says it is cold? A read that fails finds none.
\* Faulty: only a bot that is gone counts.
GoneOnly == bot.status = "gone"
Orphan == bot.status = "gone" \/ ~bot.coldArchived

ReadFlags ==
    /\ cron.at = "flags"
    /\ \/ Works /\ IF Orphan THEN CronGoes("gc") ELSE cron' = CronRest
       \/ Fails("flags") /\ CronGoes("gc")
    /\ UNCHANGED data

DropOrphans ==
    /\ cron.at = "gc"
    /\ ColdDelete("sweep")
    /\ cron' = CronRest
    /\ UNCHANGED <<world, mongo, latest, bot>>

CronJob == PurgeCold \/ PurgeMongo \/ ListBots \/ ReadFlags \/ DropOrphans

-----------------------------------------------------------------------------
\* The processes end, and with them what was under way.
Crash ==
    /\ archiver.at # "idle" => "archive" \in world.broken
    /\ ~NobodyUnarchives => "restore" \in world.broken
    /\ cron.at # "idle" => "sweep" \in world.broken
    /\ archiver.at # "idle" \/ ~NobodyUnarchives \/ cron.at # "idle"
    /\ mishaps < world.mishaps /\ mishaps' = mishaps + 1
    /\ archiver' = AtRest
    /\ request' = [u \in Requests |-> Answered]
    /\ cron' = CronRest
    /\ UNCHANGED <<data, archives>>

Init ==
    /\ InitStores
    /\ archiver = AtRest
    /\ request = [u \in Requests |-> Answered]
    /\ cron = CronRest
    /\ archives = 0

Archives == Archiving /\ UNCHANGED <<request, cron, archives>>
Restores(u) == Restoring(u) /\ UNCHANGED <<archiver, cron, archives>>
Sweeps == CronJob /\ UNCHANGED <<archiver, request, archives>>
StartsSweep == CronStart /\ UNCHANGED <<archiver, request, archives>>
LateArrives == LateDelete /\ UNCHANGED <<archiver, request, cron, archives>>

Next ==
    \/ Archive \/ StartBot \/ StopBot \/ Delete \/ Crash
    \/ \E u \in Requests : AskForItBack(u) \/ Restores(u)
    \/ \E r \in Rows : Write(r)
    \/ Archives \/ StartsSweep \/ Sweeps
    \/ LateArrives

Spec == Init /\ [][Next]_vars

(***************************************************************************)
(* Every call is answered or given up on after COLD_STORE_RPC_TIMEOUT_MS,  *)
(* so a job that began goes on; the clean job starts every day. The user   *)
(* owes nothing.                                                           *)
(***************************************************************************)
FairSpec ==
    /\ Spec
    /\ WF_vars(Archives)
    /\ \A u \in Requests : WF_vars(Restores(u))
    /\ WF_vars(StartsSweep) /\ WF_vars(Sweeps)

-----------------------------------------------------------------------------
(* Properties *)

(***************************************************************************)
(* The worlds in which the code keeps NothingLost and RoutedWhole: nothing *)
(* overlaps the archiver's job, flags can be read, no sweep follows a copy *)
(* that was given up, no second archiving a delete that is late, and a     *)
(* rehydration leaves copies only if no other request can have seen the    *)
(* flag before: that one would put them over the rows of a bot that runs.  *)
(***************************************************************************)
SafeWorld(w) ==
    /\ w.apart
    /\ "look" \notin w.broken /\ "flags" \notin w.broken
    /\ "archive" \in w.broken => ~w.sweeps
    /\ "late" \in w.broken => w.archives <= 1
    /\ {"leave", "late"} \cap w.broken # {} => \A u, v \in w.requests : u = v

\* Every variable keeps its type.
Contents == [Rows -> 0..MaxVersion]
TypeOK ==
    /\ {mongo, cold, latest, archiver.page} \subseteq Contents
    /\ bot \in [status : {"open", "closed", "archive", "gone"},
                coldArchived : BOOLEAN, isDeleted : BOOLEAN]
    /\ late \in Nat /\ mishaps \in 0..world.mishaps /\ archives \in 0..world.archives
    /\ archiver.at \in {"idle", "read", "insert", "count", "delete", "mark"}
    /\ archiver.table \in {"orders", "transactions"}
    /\ archiver.last \in Nat
    /\ \A u \in Requests :
        /\ request[u].at \in {"idle", "look", "enter", "copy", "verify",
                              "clear", "gc", "flip"}
        /\ request[u].table \in {"orders", "transactions"}
        /\ request[u].copied \subseteq Rows
    /\ cron \in [at : {"idle", "purge", "orders", "transactions", "document",
                       "list", "flags", "gc"},
                 coldArchived : BOOLEAN]

\* "Why it can't lose data" (coldStoreArchiver.ts:12): whatever fails and
\* whoever dies, the last content of every row of a bot nobody deleted is in
\* one of the two stores.
NothingLost ==
    bot.isDeleted \/ \A r \in Rows : latest[r] \in {mongo[r], cold[r]}

\* Reads go where the flag says (getBotOrders, coldReadOrders) and a bot loads
\* from Mongo. A cold bot has all its rows in the cold store, at every step of
\* a rehydration too ("never a window where reads route to a store that no
\* longer has the data"); one that can run has all of them in Mongo, unless
\* some copy of it was given up.
RoutedWhole ==
    \/ bot.isDeleted
    \/ /\ bot.coldArchived => cold = latest
       /\ bot.status \in {"closed", "open"} /\ "archive" \notin world.broken
            => mongo = latest

\* Cold rows that belong to nobody do not stay: the sweep gets them though
\* single sweeps fail, be they left by a rehydration whose delete failed, by a
\* crash between flag and delete, or by the removal of a deleted bot.
Orphaned ==
    /\ Has(cold) # {} /\ archiver.at = "idle"
    /\ bot.coldArchived => bot.status = "gone"
OrphansCollected == world.sweeps => (Orphaned ~> ~Orphaned)

=============================================================================
