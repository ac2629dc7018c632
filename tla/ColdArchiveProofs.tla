-------------------------- MODULE ColdArchiveProofs --------------------------
(***************************************************************************)
(* For any rows, page size, number of contents and of un-archive requests: *)
(* the cold archive's type invariant, in every world; and, in the worlds   *)
(* that are safe (SafeWorld), that no row is lost and that reads are       *)
(* routed to a store that has the data. Bots run, write and stop while     *)
(* un-archive requests are under way, and requests overlap each other.     *)
(***************************************************************************)
EXTENDS ColdArchive, FiniteSetTheorems, TLAPS

(***************************************************************************)
(* The shape of the variables, and that the archiver's page has a row.     *)
(***************************************************************************)
Statuses == {"open", "closed", "archive", "gone"}
Tables == {"orders", "transactions"}
HasPage == {"insert", "count", "delete"}

StoresShape ==
    /\ world \in Worlds
    /\ mongo \in Contents /\ cold \in Contents /\ latest \in Contents
    /\ late \in Nat /\ mishaps \in 0..world.mishaps
BotShape ==
    /\ bot \in [status : Statuses, coldArchived : BOOLEAN, isDeleted : BOOLEAN]
    /\ archives \in 0..world.archives
ArchiverShape ==
    /\ archiver \in [at : HasPage \cup {"idle", "read", "mark"}, table : Tables,
                      last : Nat, page : Contents]
    /\ archiver.at \in HasPage => /\ Has(archiver.page) # {}
                                  /\ Has(archiver.page) \subseteq TableRows[archiver.table]
Places == {"idle", "look", "enter", "copy", "verify", "clear", "gc", "flip"}
RequestShape ==
    request \in [Requests -> [at : Places, table : Tables, copied : SUBSET Rows]]
Purges == {"purge", "orders", "transactions", "document"}
CronPlaces == Purges \cup {"idle", "list", "flags", "gc"}
CronShape ==
    cron \in [at : CronPlaces, coldArchived : BOOLEAN]

Shape == StoresShape /\ BotShape /\ ArchiverShape /\ RequestShape /\ CronShape

-----------------------------------------------------------------------------
(* What holds of a bot that nobody deleted *)

\* Mongo has these rows as the bot last wrote them.
InMongo(S) == \A r \in S : mongo[r] = latest[r]

\* Mongo never has an old row, and what it lacks the cold store has.
RowsKept ==
    \A r \in Rows :
        /\ mongo[r] \in {0, latest[r]}
        /\ cold[r] <= latest[r]
        /\ latest[r] \in {mongo[r], cold[r]}

\* Who runs beside whom.
Turns ==
    /\ bot.status # "gone"
    /\ cron.at \notin Purges
    /\ cron.at # "idle" => world.sweeps
    /\ archiver.at # "idle" => /\ bot.status = "archive"
                               /\ cron.at = "idle"
                               /\ NobodyUnarchives
    /\ \A u \in Requests : request[u].at # "idle" => u \in world.requests
    /\ \A u, v \in Requests : Rehydrating(u) /\ Rehydrating(v) => u = v

\* The bot is not marked cold while somebody acts on its rows being in Mongo.
Unmarked ==
    \/ archiver.at # "idle" \/ late > 0 \/ cron.at = "gc"
    \/ bot.status # "archive"
    \/ \E u \in Requests : request[u].at \in {"gc", "flip"}

\* Where a request is that has not seen the flag, or is through with it; and
\* one that has seen it and counts on it, though it may be long ago.
Outside == {"idle", "look", "flip"}
Counts == {"enter", "copy", "verify", "clear"}

\* What a cold bot's flag says, and when the cold store may have anything.
Marked ==
    /\ Unmarked => ~bot.coldArchived
    /\ bot.coldArchived => \A r \in Rows : cold[r] = latest[r]
    /\ archives = 0 => /\ bot.status # "archive"
                       /\ \A u \in Requests : request[u].at \in Outside
                       /\ cron.at \notin {"flags", "gc"}
                       /\ \A r \in Rows : cold[r] = 0

\* What a request that saw the flag finds in the cold store: the flag is still
\* set, or nothing is left there, or another one is about to drop it; never old
\* rows of a bot that runs again.
Ahead ==
    \A u \in Requests : request[u].at \in Counts =>
        \/ bot.coldArchived
        \/ \A s \in Rows : cold[s] = 0
        \/ \E v \in Requests : request[v].at = "gc"

\* The rows are in Mongo when the cold copies can be dropped.
Loaded ==
    /\ late > 0 => /\ archiver.at = "idle" /\ archives >= world.archives
                   /\ InMongo(Rows)
    /\ cron.at = "gc" => InMongo(Rows)
    /\ "archive" \notin world.broken /\ ~bot.coldArchived /\ archiver.at = "idle"
         => InMongo(Rows)

\* What a request has brought back when it is at a step.
Fetched(u) ==
    LET r == request[u]
    IN  /\ r.at \in {"idle", "look", "enter"} => r.table = "orders" /\ r.copied = {}
        /\ r.at = "copy" => InMongo(r.copied)
        /\ r.at \in {"copy", "verify"} /\ r.table = "transactions"
              => InMongo(Orders)
        /\ r.at = "verify" => InMongo(TableRows[r.table])
        /\ r.at \in {"clear", "gc"} => InMongo(Rows)

\* What is no longer in Mongo when the archiver is at a step: the rows it is
\* through with; and what its page is: all the rows in its range, in the cold
\* store once they are inserted.
Through ==
    /\ archiver.at \in {"read", "insert", "count", "delete"} =>
         \A r \in TableRows[archiver.table] : r <= archiver.last => mongo[r] = 0
    /\ archiver.at # "idle" /\ archiver.table = "transactions" =>
         \A r \in Orders : mongo[r] = 0
    /\ archiver.at = "mark" => \A r \in Rows : mongo[r] = 0

PageRead ==
    archiver.at \in HasPage =>
      /\ \A r \in Rows : archiver.page[r] \in {0, mongo[r]}
      /\ \A r \in TableRows[archiver.table] :
            mongo[r] > 0 /\ (\E s \in Has(archiver.page) : r <= s)
              => archiver.page[r] = mongo[r]

PageCopied ==
    archiver.at \in {"count", "delete"} =>
      \A r \in Has(archiver.page) : cold[r] = archiver.page[r]

Live ==
    /\ RowsKept /\ Turns /\ Marked /\ Ahead /\ Loaded
    /\ \A u \in Requests : Fetched(u)
    /\ Through /\ PageRead /\ PageCopied

IInv == Shape /\ (SafeWorld(world) => bot.isDeleted \/ Live)

-----------------------------------------------------------------------------
(* Sets of rows and pages *)

LEMMA SmallestOf ==
  ASSUME NEW S \in SUBSET Nat, S # {}
  PROVE  \E x \in S : \A y \in S : x <= y
<1>1. \E x \in S : \A y \in S : <<y, x>> \notin OpToRel(<, Nat)
  BY NatLessThanWellFounded, WFMin
<1>2. \A x, y \in S : <<y, x>> \notin OpToRel(<, Nat) => x <= y
  BY DEF OpToRel
<1> QED
  BY <1>1, <1>2

LEMMA LargestOf ==
  ASSUME NEW S \in SUBSET Nat, IsFiniteSet(S), S # {}
  PROVE  \E x \in S : \A y \in S : y <= x
<1> DEFINE Tops(T) == {x \in T : \A y \in T : y <= x}
           Bad == {T \in SUBSET Nat : IsFiniteSet(T) /\ T # {} /\ Tops(T) = {}}
<1> SUFFICES ASSUME S \in Bad PROVE FALSE
  BY Zenon
<1>1. Bad \subseteq FiniteSubsetsOf(Nat)
  BY Zenon DEF FiniteSubsetsOf
<1>2. PICK T \in Bad : \A U \in Bad : <<U, T>> \notin StrictSubsetOrdering(Nat)
  <2> HIDE DEF Bad
  <2> QED
    BY <1>1, FS_StrictSubsetOrderingWellFounded, WFMin
<1>3. PICK e \in T : TRUE
  BY Zenon
<1> DEFINE U == T \ {e}
<1>4. IsFiniteSet(U) /\ U \in SUBSET Nat /\ T \in SUBSET Nat
  BY FS_RemoveElement
<1>5. <<U, T>> \in StrictSubsetOrdering(Nat)
  BY <1>3, <1>4 DEF StrictSubsetOrdering
<1>6. U = {} \/ Tops(U) # {}
  BY <1>2, <1>4, <1>5
<1>7. CASE U = {}
  <2>1. e \in Tops(T)
    BY <1>3, <1>4, <1>7
  <2> QED
    BY <2>1
<1>8. CASE Tops(U) # {}
  <2>1. PICK m \in U : \A y \in U : y <= m
    BY <1>8
  <2>2. e \in Nat /\ m \in Nat /\ \A y \in T : y \in Nat /\ (y = e \/ y \in U)
    BY <1>3, <1>4
  <2>3. (IF m <= e THEN e ELSE m) \in Tops(T)
    BY <1>3, <2>1, <2>2
  <2> QED
    BY <2>3
<1> QED
  BY <1>6, <1>7, <1>8

\* PageOf: part of the rows that are left, the smallest of them, some of them,
\* and all of them when it is not full.
LEMMA PageIsPart ==
  ASSUME NEW S
  PROVE  PageOf(S) \subseteq S
BY DEF PageOf

LEMMA PageIsPrefix ==
  ASSUME NEW S \in SUBSET Nat, IsFiniteSet(S),
         NEW s \in PageOf(S), NEW r \in S, r <= s
  PROVE  r \in PageOf(S)
<1> DEFINE Below(x) == {y \in S : y < x}
<1>1. Below(r) \subseteq Below(s) /\ Below(s) \subseteq S
  <2>1. s \in S
    BY PageIsPart
  <2>2. r \in Nat /\ s \in Nat
    BY <2>1
  <2>3. ASSUME NEW y \in S, y < r PROVE y < s
    BY <2>2, <2>3
  <2> QED
    BY <2>3
<1>2. IsFiniteSet(Below(s))
  BY <1>1, FS_Subset
<1>3. Cardinality(Below(r)) <= Cardinality(Below(s))
  BY <1>1, <1>2, FS_Subset
<1>4. Cardinality(Below(r)) \in Nat /\ Cardinality(Below(s)) \in Nat
  BY <1>1, <1>2, FS_Subset, FS_CardinalityType
<1>5. Cardinality(Below(s)) < PageSize
  BY DEF PageOf
<1>6. Cardinality(Below(r)) < PageSize
  <2> HIDE DEF Below
  <2> QED
    BY <1>3, <1>4, <1>5, PageAssumption
<1> QED
  BY <1>6 DEF PageOf

LEMMA PageStarts ==
  ASSUME NEW S \in SUBSET Nat, S # {}
  PROVE  PageOf(S) # {}
<1>1. PICK x \in S : \A y \in S : x <= y
  BY SmallestOf
<1>2. {y \in S : y < x} = {}
  <2>1. ASSUME NEW y \in S PROVE ~(y < x)
    BY <1>1
  <2> QED
    BY <2>1
<1>3. Cardinality({y \in S : y < x}) < PageSize
  BY <1>2, FS_EmptySet, PageAssumption
<1> QED
  BY <1>1, <1>3 DEF PageOf

LEMMA PageNotFull ==
  ASSUME NEW S \in SUBSET Nat, IsFiniteSet(S),
         Cardinality(PageOf(S)) < PageSize
  PROVE  PageOf(S) = S
<1> SUFFICES ASSUME S \ PageOf(S) # {} PROVE FALSE
  BY PageIsPart
<1>1. PICK x \in S \ PageOf(S) : \A y \in S \ PageOf(S) : x <= y
  BY SmallestOf
<1> DEFINE Below == {y \in S : y < x}
<1>2. Below \subseteq PageOf(S)
  <2>1. ASSUME NEW y \in S, y < x PROVE y \in PageOf(S)
    BY <1>1, <2>1
  <2> QED
    BY <2>1
<1>3. IsFiniteSet(PageOf(S))
  BY PageIsPart, FS_Subset
<1>4. Cardinality(Below) <= Cardinality(PageOf(S))
  BY <1>2, <1>3, FS_Subset
<1>5. Cardinality(Below) \in Nat /\ Cardinality(PageOf(S)) \in Nat
  BY <1>2, <1>3, FS_Subset, FS_CardinalityType
<1>6. Cardinality(Below) < PageSize
  <2> HIDE DEF Below
  <2> QED
    BY <1>4, <1>5, PageAssumption
<1> QED
  BY <1>1, <1>6 DEF PageOf

-----------------------------------------------------------------------------
(* Types *)

LEMMA RowFacts ==
  /\ Orders \subseteq Rows /\ Transactions \subseteq Rows
  /\ Rows \subseteq Nat \ {0} /\ IsFiniteSet(Rows)
  /\ TableRows["orders"] = Orders /\ TableRows["transactions"] = Transactions
  /\ \A t \in Tables : TableRows[t] \subseteq Rows
<1>1. IsFiniteSet(Rows)
  BY RowsAssumption, FS_Union DEF Rows
<1> QED
  BY <1>1, RowsAssumption DEF Rows, TableRows, Tables

LEMMA RowsAreNat == \A r \in Rows : r \in Nat /\ r <= r /\ ~(r <= 0)
<1> SUFFICES ASSUME NEW r \in Rows PROVE r \in Nat /\ r <= r /\ ~(r <= 0)
  OBVIOUS
<1>1. r \in Nat \ {0}
  BY RowsAssumption DEF Rows
<1> QED
  BY <1>1

\* What the stores' operators make of what a store has.
LEMMA StoreTypes ==
  ASSUME NEW store \in Contents, NEW copy \in Contents, NEW these
  PROVE  /\ Nothing \in Contents /\ Over(store, copy) \in Contents
         /\ Without(store, these) \in Contents /\ Only(store, these) \in Contents
<1>1. MaxVersion \in Nat /\ 0 \in 0..MaxVersion
  BY BoundsAssumption
<1>2. \A r \in Rows : store[r] \in 0..MaxVersion /\ copy[r] \in 0..MaxVersion
  BY DEF Contents
<1>3. Nothing \in Contents
  BY <1>1 DEF Nothing, Contents
<1>4. Over(store, copy) \in Contents
  BY <1>2 DEF Over, Contents
<1>5. Without(store, these) \in Contents
  BY <1>1, <1>2 DEF Without, Contents
<1>6. Only(store, these) \in Contents
  BY <1>1, <1>2 DEF Only, Contents
<1> QED
  BY <1>3, <1>4, <1>5, <1>6

LEMMA HasRows ==
  ASSUME NEW store
  PROVE  Has(store) \subseteq Rows
BY DEF Has

LEMMA CallTypes ==
  ASSUME StoresShape, world' = world,
         NEW kind, Works \/ Fails(kind)
  PROVE  mishaps' \in 0..world.mishaps
BY BoundsAssumption DEF StoresShape, Works, Fails

LEMMA RestTypes ==
  /\ AtRest \in [at : HasPage \cup {"idle", "read", "mark"}, table : Tables,
                 last : Nat, page : Contents]
  /\ \A at \in {"read", "mark"}, t \in Tables :
       Before(at, t) \in [at : HasPage \cup {"idle", "read", "mark"}, table : Tables,
                         last : Nat, page : Contents]
  /\ AtRest.at = "idle" /\ AtRest.table = "orders" /\ AtRest.last = 0
  /\ Answered \in [at : Places, table : Tables, copied : SUBSET Rows]
  /\ Answered.at = "idle"
<1>1. Nothing \in Contents
  BY BoundsAssumption DEF Nothing, Contents
<1>2. \A at \in {"idle", "read", "mark"}, t \in Tables :
        [at |-> at, table |-> t, last |-> 0, page |-> Nothing]
          \in [at : HasPage \cup {"idle", "read", "mark"}, table : Tables,
              last : Nat, page : Contents]
  BY <1>1
<1>3. "orders" \in Tables /\ "idle" \in {"idle", "read", "mark"}
      /\ {"read", "mark"} \subseteq {"idle", "read", "mark"}
  BY DEF Tables
<1>4. Answered \in [at : Places, table : Tables, copied : SUBSET Rows]
      /\ Answered.at = "idle"
  BY DEF Answered, Tables, Places
<1>5. AtRest.at = "idle" /\ AtRest.table = "orders" /\ AtRest.last = 0
  BY DEF AtRest, Before
<1> QED
  BY <1>2, <1>3, <1>4, <1>5, Zenon DEF AtRest, Before

LEMMA InitTypes == Init => Shape
<1> SUFFICES ASSUME Init PROVE Shape
  OBVIOUS
<1>1. MaxVersion \in Nat \ {0} /\ world.mishaps \in Nat /\ world.archives \in Nat
  BY BoundsAssumption DEF Init, InitStores
<1>2. StoresShape
  BY <1>1 DEF Init, InitStores, StoresShape, Contents, Nothing
<1>3. BotShape
  BY <1>1 DEF Init, InitStores, BotShape, Statuses
<1>4. ArchiverShape
  BY RestTypes, Zenon DEF Init, ArchiverShape, HasPage
<1>5. RequestShape
  BY RestTypes DEF Init, RequestShape
<1>6. CronShape
  BY DEF Init, CronShape, CronPlaces, CronRest
<1> QED
  BY <1>2, <1>3, <1>4, <1>5, <1>6 DEF Shape

\* What a step leaves alone keeps its shape.
LEMMA StillTypes ==
  ASSUME Shape
  PROVE  /\ UNCHANGED <<world, mongo, cold, latest, late, mishaps>> => StoresShape'
         /\ UNCHANGED <<world, bot, archives>> => BotShape'
         /\ UNCHANGED archiver => ArchiverShape'
         /\ UNCHANGED request => RequestShape'
         /\ UNCHANGED cron => CronShape'
<1>1. UNCHANGED <<world, mongo, cold, latest, late, mishaps>> => StoresShape'
  BY DEF Shape, StoresShape
<1>2. UNCHANGED <<world, bot, archives>> => BotShape'
  BY DEF Shape, BotShape
<1>3. UNCHANGED archiver => ArchiverShape'
  BY Zenon DEF Shape, ArchiverShape, Has
<1>4. UNCHANGED request => RequestShape'
  BY DEF Shape, RequestShape
<1>5. UNCHANGED cron => CronShape'
  BY DEF Shape, CronShape
<1> QED
  BY <1>1, <1>2, <1>3, <1>4, <1>5

LEMMA BotTypes ==
  ASSUME Shape,
         \/ Archive \/ StartBot \/ StopBot \/ Delete
         \/ \E r \in Rows : Write(r)
  PROVE  Shape'
<1>1. UNCHANGED <<world, late, mishaps, cold, request, cron>>
  BY DEF Archive, StartBot, StopBot, Delete, Write
<1>2. StoresShape'
  <2>1. CASE Archive \/ StartBot \/ StopBot \/ Delete
    BY <2>1, <1>1, StillTypes DEF Archive, StartBot, StopBot, Delete
  <2>2. ASSUME NEW r \in Rows, Write(r) PROVE StoresShape'
    <3>1. latest[r] + 1 \in 0..MaxVersion
      BY <2>2, BoundsAssumption DEF Write, Shape, StoresShape, Contents
    <3>2. mongo' \in Contents /\ latest' \in Contents
      BY <2>2, <3>1 DEF Write, Shape, StoresShape, Contents
    <3> QED
      BY <1>1, <3>2 DEF Shape, StoresShape
  <2> QED
    BY <2>1, <2>2
<1>3. BotShape'
  <2>1. CASE Archive
    BY <2>1, <1>1, BoundsAssumption
       DEF Archive, Shape, BotShape, StoresShape, Statuses
  <2>2. CASE StartBot
    BY <2>2, <1>1 DEF StartBot, Shape, BotShape, Statuses
  <2>3. CASE StopBot
    BY <2>3, <1>1 DEF StopBot, Shape, BotShape, Statuses
  <2>4. CASE Delete
    BY <2>4, <1>1 DEF Delete, Shape, BotShape, Statuses
  <2>5. ASSUME NEW r \in Rows, Write(r) PROVE BotShape'
    BY <2>5, StillTypes DEF Write
  <2> QED
    BY <2>1, <2>2, <2>3, <2>4, <2>5
<1>4. ArchiverShape'
  <2>1. CASE Archive
    <3>1. CASE archiver.at # "idle"
      BY <2>1, <3>1, StillTypes DEF Archive, EnqueueArchive
    <3>2. CASE archiver.at = "idle"
      <4>1. archiver' = Before("read", "orders")
        BY <2>1, <3>2 DEF Archive, EnqueueArchive
      <4>2. archiver'.at = "read"
        BY <4>1 DEF Before
      <4> QED
        BY <4>1, <4>2, RestTypes DEF ArchiverShape, HasPage, Tables
    <3> QED
      BY <3>1, <3>2
  <2>2. CASE ~Archive
    BY <2>2, StillTypes DEF StartBot, StopBot, Delete, Write
  <2> QED
    BY <2>1, <2>2
<1> QED
  BY <1>1, <1>2, <1>3, <1>4, StillTypes DEF Shape

LEMMA ColdDeleteTypes ==
  ASSUME StoresShape, world' = world, NEW kind, ColdDelete(kind)
  PROVE  cold' \in Contents /\ late' \in Nat /\ mishaps' \in 0..world.mishaps
<1>1. cold' \in Contents /\ late' \in Nat
  BY StoreTypes DEF ColdDelete, StoresShape
<1>2. mishaps' \in 0..world.mishaps
  BY CallTypes DEF ColdDelete
<1> QED
  BY <1>1, <1>2

LEMMA SweepTypes ==
  ASSUME Shape, Sweeps \/ StartsSweep \/ LateArrives
  PROVE  Shape'
<1>1. UNCHANGED <<world, latest, archiver, request, archives>>
  BY DEF Sweeps, StartsSweep, CronStart, CronJob, PurgeCold, PurgeMongo,
         PurgeRows, PurgeBot, ListBots, ReadFlags, DropOrphans, LateArrives,
         LateDelete, stores, data
<1>2. StoresShape'
  <2>1. CASE StartsSweep
    BY <2>1, StillTypes DEF StartsSweep, CronStart, stores, data
  <2>2. CASE LateArrives
    BY <2>2, StoreTypes DEF LateArrives, LateDelete, Shape, StoresShape
  <2>3. CASE PurgeCold
    <3>1. mongo' = mongo
      BY <2>3 DEF PurgeCold
    <3>2. cold' \in Contents /\ late' \in Nat /\ mishaps' \in 0..world.mishaps
      BY <2>3, <1>1, ColdDeleteTypes, CallTypes DEF PurgeCold, Shape, StoresShape
    <3> QED
      BY <1>1, <3>1, <3>2 DEF Shape, StoresShape
  <2>4. CASE PurgeMongo
    <3>1. mongo' \in Contents
      BY <2>4, StoreTypes DEF PurgeMongo, PurgeRows, PurgeBot, Shape, StoresShape
    <3>2. mishaps' \in 0..world.mishaps
      BY <2>4, <1>1, CallTypes DEF PurgeMongo, PurgeRows, PurgeBot, Shape
    <3> QED
      BY <2>4, <1>1, <3>1, <3>2
         DEF PurgeMongo, PurgeRows, PurgeBot, Shape, StoresShape
  <2>5. CASE ListBots \/ ReadFlags
    <3>1. mishaps' \in 0..world.mishaps
      BY <2>5, <1>1, CallTypes DEF ListBots, ReadFlags, Shape
    <3> QED
      BY <2>5, <3>1 DEF ListBots, ReadFlags, data, Shape, StoresShape
  <2>6. CASE DropOrphans
    <3>1. cold' \in Contents /\ late' \in Nat /\ mishaps' \in 0..world.mishaps
      BY <2>6, <1>1, ColdDeleteTypes DEF DropOrphans, Shape
    <3> QED
      BY <2>6, <1>1, <3>1 DEF DropOrphans, Shape, StoresShape
  <2> QED
    BY <2>1, <2>2, <2>3, <2>4, <2>5, <2>6 DEF Sweeps, CronJob
<1>3. BotShape'
  <2>1. CASE PurgeMongo
    BY <2>1, <1>1 DEF PurgeMongo, PurgeRows, PurgeBot, Shape, BotShape, Statuses
  <2>2. CASE ~PurgeMongo
    BY <2>2, <1>1, StillTypes DEF Sweeps, StartsSweep, CronStart, CronJob,
       PurgeCold, ListBots, ReadFlags, DropOrphans, LateArrives, LateDelete, stores, data
  <2> QED
    BY <2>1, <2>2
<1>4. CronShape'
  <2>1. CronRest \in [at : CronPlaces, coldArchived : BOOLEAN]
    BY DEF CronRest, CronPlaces
  <2>2. CASE StartsSweep
    BY <2>2 DEF StartsSweep, CronStart, CronShape, CronPlaces, Purges, Shape, BotShape
  <2>3. CASE LateArrives
    BY <2>3, StillTypes DEF LateArrives
  <2>4. \A to \in CronPlaces : CronGoes(to) => CronShape'
    BY DEF CronGoes, Shape, CronShape
  <2>5. {"orders", "transactions", "document", "list", "flags", "gc"} \subseteq CronPlaces
    BY DEF CronPlaces, Purges
  <2>6. CASE CronJob
    BY <2>6, <2>1, <2>4, <2>5 DEF CronJob, PurgeCold, PurgeMongo, PurgeRows,
       PurgeBot, ListBots, ReadFlags, DropOrphans, CronShape
  <2> QED
    BY <2>2, <2>3, <2>6 DEF Sweeps
<1> QED
  BY <1>1, <1>2, <1>3, <1>4, StillTypes DEF Shape

\* The archiver's page, when it has one to read.
LeftRows ==
    {r \in TableRows[archiver.table] : mongo[r] > 0 /\ r > archiver.last}

LEMMA PageFacts ==
  ASSUME Shape, LeftRows # {}
  PROVE  LET page == Only(mongo, PageOf(LeftRows))
         IN  /\ page \in Contents
             /\ Has(page) = PageOf(LeftRows) /\ Has(page) # {}
             /\ Has(page) \subseteq TableRows[archiver.table]
<1> DEFINE page == Only(mongo, PageOf(LeftRows))
<1>1. archiver.table \in Tables /\ mongo \in Contents
  BY DEF Shape, StoresShape, ArchiverShape
<1>2. LeftRows \subseteq TableRows[archiver.table] /\ LeftRows \subseteq Rows
      /\ LeftRows \in SUBSET Nat
  BY <1>1, RowFacts DEF LeftRows
<1>3. PageOf(LeftRows) \subseteq LeftRows /\ PageOf(LeftRows) # {}
  BY <1>2, PageIsPart, PageStarts
<1>4. \A r \in LeftRows : mongo[r] > 0
  BY DEF LeftRows
<1>5. Has(page) = PageOf(LeftRows)
  <2>1. \A r \in Rows : page[r] = IF r \in PageOf(LeftRows) THEN mongo[r] ELSE 0
    BY DEF Only
  <2> HIDE DEF page
  <2>2. \A r \in Rows : page[r] > 0 <=> r \in PageOf(LeftRows)
    BY <1>3, <1>4, <2>1
  <2>3. PageOf(LeftRows) \subseteq Rows
    BY <1>2, <1>3
  <2> QED
    BY <2>2, <2>3 DEF Has
<1>6. page \in Contents
  BY <1>1, StoreTypes
<1> QED
  BY <1>2, <1>3, <1>5, <1>6

LEMMA ArchivingTypes ==
  ASSUME Shape, Archives
  PROVE  Shape'
<1>1. UNCHANGED <<world, latest, late, request, cron, archives>>
  BY DEF Archives, Archiving, ReadPage, InsertPage, CountPage, DeletePage,
         MarkCold, data
<1>2. mishaps' \in 0..world.mishaps
  BY <1>1, CallTypes DEF Archives, Archiving, ReadPage, InsertPage, CountPage,
     DeletePage, MarkCold, Shape
<1>3. cold' \in Contents /\ mongo' \in Contents
  BY StoreTypes DEF Archives, Archiving, ReadPage, InsertPage, CountPage,
     DeletePage, MarkCold, Shape, StoresShape, ArchiverShape, data
<1>4. StoresShape'
  BY <1>1, <1>2, <1>3 DEF Shape, StoresShape
<1>5. BotShape'
  <2>1. CASE MarkCold
    BY <2>1, <1>1 DEF MarkCold, Routed, Shape, BotShape, Statuses
  <2>2. CASE ~MarkCold
    BY <2>2, <1>1, StillTypes DEF Archives, Archiving, ReadPage, InsertPage,
       CountPage, DeletePage, data
  <2> QED
    BY <2>1, <2>2
<1>6. ArchiverShape'
  <2> DEFINE Type == [at : HasPage \cup {"idle", "read", "mark"}, table : Tables,
                      last : Nat, page : Contents]
  <2>1. archiver \in Type /\ AtRest \in Type
    BY RestTypes DEF Shape, ArchiverShape
  <2>2. GiveUp => ArchiverShape'
    BY <2>1, RestTypes DEF GiveUp, ArchiverShape, HasPage
  <2>3. CASE ReadPage
    <3>1. CASE GiveUp
      BY <3>1, <2>2
    <3>2. CASE ~GiveUp /\ LeftRows # {}
      <4> DEFINE page == Only(mongo, PageOf(LeftRows))
      <4>1. archiver' = [archiver EXCEPT !.at = "insert", !.page = page]
        BY <2>3, <3>2 DEF ReadPage, LeftRows
      <4>2. page \in Contents /\ Has(page) # {}
            /\ Has(page) \subseteq TableRows[archiver.table]
        BY <3>2, PageFacts
      <4> HIDE DEF page
      <4>3. archiver' \in Type /\ archiver'.page = page
            /\ archiver'.table = archiver.table
        BY <2>1, <4>1, <4>2 DEF HasPage
      <4> QED
        BY <4>2, <4>3 DEF ArchiverShape
    <3>3. CASE ~GiveUp /\ LeftRows = {}
      <4>1. \/ archiver' = Before("read", "transactions")
            \/ archiver' = Before("mark", "orders")
        BY <2>3, <3>3 DEF ReadPage, LeftRows
      <4>2. archiver'.at \notin HasPage
        BY <4>1 DEF HasPage, Before
      <4>3. archiver' \in Type
        BY <4>1, RestTypes DEF Tables
      <4> QED
        BY <4>2, <4>3 DEF ArchiverShape
    <3> QED
      BY <3>1, <3>2, <3>3
  <2>4. CASE InsertPage \/ CountPage
    <3>1. CASE GiveUp
      BY <3>1, <2>2
    <3>2. CASE ~GiveUp
      <4>1. PICK at \in {"count", "delete"} : archiver' = [archiver EXCEPT !.at = at]
        BY <2>4, <3>2 DEF InsertPage, CountPage
      <4>2. archiver.at \in HasPage
        BY <2>4 DEF InsertPage, CountPage, HasPage
      <4>3. archiver' \in Type /\ archiver'.page = archiver.page
            /\ archiver'.table = archiver.table
        BY <2>1, <4>1 DEF HasPage
      <4> QED
        BY <4>2, <4>3 DEF ArchiverShape, Shape
    <3> QED
      BY <3>1, <3>2
  <2>5. CASE DeletePage
    <3>1. CASE GiveUp
      BY <3>1, <2>2
    <3>2. CASE ~GiveUp
      <4> DEFINE end == CHOOSE r \in Has(archiver.page) :
                           \A s \in Has(archiver.page) : s <= r
      <4>1. Has(archiver.page) # {} /\ Has(archiver.page) \in SUBSET Nat
            /\ IsFiniteSet(Has(archiver.page))
        <5>1. Has(archiver.page) \subseteq Rows /\ archiver.at \in HasPage
          BY <2>5, HasRows DEF DeletePage, HasPage
        <5> QED
          BY <5>1, RowFacts, FS_Subset DEF Shape, ArchiverShape
      <4>2. end \in Nat
        BY <4>1, LargestOf
      <4>3. archiver' = [archiver EXCEPT !.at = "read", !.last = end,
                                         !.page = Nothing]
        BY <2>5, <3>2 DEF DeletePage
      <4>4. Nothing \in Contents
        BY BoundsAssumption DEF Nothing, Contents
      <4> HIDE DEF end
      <4>5. archiver' \in Type /\ archiver'.at = "read"
        BY <2>1, <4>2, <4>3, <4>4
      <4> QED
        BY <4>5 DEF ArchiverShape, HasPage
    <3> QED
      BY <3>1, <3>2
  <2>6. CASE MarkCold
    BY <2>6, <2>2 DEF MarkCold
  <2> QED
    BY <2>3, <2>4, <2>5, <2>6 DEF Archives, Archiving
<1> QED
  BY <1>1, <1>4, <1>5, <1>6, StillTypes DEF Shape

LEMMA RequestTypes ==
  ASSUME RequestShape, NEW u \in Requests
  PROVE  /\ \A to \in Places : Goes(u, to) => RequestShape'
         /\ Reject(u) => RequestShape'
         /\ \A to \in Places, t \in Tables, rows \in SUBSET Rows :
              /\ Become(u, [request[u] EXCEPT !.copied = rows, !.at = to])
                   => RequestShape'
              /\ Become(u, [at |-> to, table |-> t, copied |-> rows])
                   => RequestShape'
<1> DEFINE Type == [at : Places, table : Tables, copied : SUBSET Rows]
<1>1. \A r \in Type : Become(u, r) => RequestShape'
  BY DEF Become, RequestShape
<1>2. request[u] \in Type
  BY DEF RequestShape
<1>3. Answered \in Type
  BY RestTypes
<1>4. \A to \in Places : [request[u] EXCEPT !.at = to] \in Type
  BY <1>2
<1>5. \A to \in Places, rows \in SUBSET Rows :
        [request[u] EXCEPT !.copied = rows, !.at = to] \in Type
  BY <1>2
<1>6. \A to \in Places, t \in Tables, rows \in SUBSET Rows :
        [at |-> to, table |-> t, copied |-> rows] \in Type
  OBVIOUS
<1> HIDE DEF Type
<1> QED
  BY <1>1, <1>3, <1>4, <1>5, <1>6, Zenon DEF Goes, Reject

LEMMA RestoringTypes ==
  ASSUME Shape, NEW u \in Requests, AskForItBack(u) \/ Restores(u)
  PROVE  Shape'
<1>1. UNCHANGED <<world, latest, archiver, cron, archives>>
  BY DEF AskForItBack, Restores, Unarchive, Restoring, Look, Enter, CopyPage,
         Verify, ClearFlag, DropCopies, Flip, stores, data
<1>2. StoresShape'
  <2>1. CASE AskForItBack(u)
    BY <2>1, StillTypes DEF AskForItBack, Unarchive, stores, data
  <2>2. CASE Look(u) \/ Enter(u) \/ Verify(u) \/ ClearFlag(u) \/ Flip(u)
    <3>1. mishaps' \in 0..world.mishaps
      BY <2>2, <1>1, CallTypes DEF Look, Enter, Verify, ClearFlag, Flip, Shape
    <3> QED
      BY <2>2, <3>1 DEF Look, Enter, Verify, ClearFlag, Flip, data, Shape, StoresShape
  <2>3. CASE CopyPage(u)
    <3>1. mongo' \in Contents
      BY <2>3, StoreTypes DEF CopyPage, Shape, StoresShape
    <3>2. mishaps' \in 0..world.mishaps
      BY <2>3, <1>1, CallTypes DEF CopyPage, Shape
    <3> QED
      BY <2>3, <3>1, <3>2 DEF CopyPage, Shape, StoresShape
  <2>4. CASE DropCopies(u)
    <3>1. cold' \in Contents /\ late' \in Nat /\ mishaps' \in 0..world.mishaps
      BY <2>4, <1>1, ColdDeleteTypes DEF DropCopies, Shape
    <3> QED
      BY <2>4, <1>1, <3>1 DEF DropCopies, Shape, StoresShape
  <2> QED
    BY <2>1, <2>2, <2>3, <2>4 DEF Restores, Restoring
<1>3. BotShape'
  <2>1. CASE ClearFlag(u)
    BY <2>1, <1>1 DEF ClearFlag, Shape, BotShape
  <2>2. CASE Flip(u)
    BY <2>2, <1>1 DEF Flip, Reopened, Shape, BotShape, Statuses
  <2>3. CASE ~ClearFlag(u) /\ ~Flip(u)
    BY <2>3, <1>1, StillTypes DEF AskForItBack, Restores, Unarchive, Restoring,
       Look, Enter, CopyPage, Verify, DropCopies, stores, data
  <2> QED
    BY <2>1, <2>2, <2>3
<1>4. RequestShape'
  <2>1. RequestShape /\ request[u].copied \subseteq Rows
    BY DEF Shape, RequestShape
  <2>2. CASE AskForItBack(u) \/ Look(u) \/ Enter(u) \/ ClearFlag(u)
             \/ DropCopies(u) \/ Flip(u)
    BY <2>1, <2>2, RequestTypes DEF AskForItBack, Unarchive, Look, Enter,
       ClearFlag, DropCopies, Flip, Places
  <2>3. CASE CopyPage(u)
    <3> DEFINE left == (Has(cold) \cap TableRows[request[u].table]) \ request[u].copied
               page == PageOf(left)
    <3>1. request[u].copied \cup page \in SUBSET Rows
      BY <2>1, HasRows, PageIsPart
    <3> HIDE DEF page
    <3>2. Reject(u)
          \/ \E to \in {"verify", "copy"} :
               Become(u, [request[u] EXCEPT !.copied = request[u].copied \cup page,
                                            !.at = to])
      BY <2>3 DEF CopyPage, page
    <3> DEFINE rows == request[u].copied \cup page
    <3>3. CASE Reject(u)
      BY <2>1, <3>3, RequestTypes
    <3>4. ASSUME NEW to \in {"verify", "copy"},
                 Become(u, [request[u] EXCEPT !.copied = rows, !.at = to])
          PROVE  RequestShape'
      <4>1. to \in Places /\ "orders" \in Tables /\ rows \in SUBSET Rows
        BY <3>1 DEF Places, Tables
      <4> HIDE DEF rows
      <4> QED
        BY <2>1, <3>4, <4>1, RequestTypes, Zenon
    <3> QED
      BY <3>2, <3>3, <3>4
  <2>4. CASE Verify(u)
    BY <2>1, <2>4, RequestTypes DEF Verify, Places, Tables
  <2> QED
    BY <2>2, <2>3, <2>4 DEF Restores, Restoring
<1> QED
  BY <1>1, <1>2, <1>3, <1>4, StillTypes DEF Shape

LEMMA CrashTypes ==
  ASSUME Shape, Crash
  PROVE  Shape'
<1>1. UNCHANGED <<world, mongo, cold, latest, bot, late, archives>>
  BY DEF Crash, data
<1>2. mishaps' \in 0..world.mishaps
  BY BoundsAssumption DEF Crash, Shape, StoresShape
<1>3. StoresShape'
  BY <1>1, <1>2 DEF Shape, StoresShape
<1>4. ArchiverShape'
  BY RestTypes DEF Crash, ArchiverShape, HasPage
<1>5. RequestShape'
  BY RestTypes DEF Crash, RequestShape
<1>6. CronShape'
  BY DEF Crash, CronRest, CronShape, CronPlaces
<1> QED
  BY <1>1, <1>3, <1>4, <1>5, <1>6, StillTypes DEF Shape

LEMMA StepTypes ==
  ASSUME Shape, [Next]_vars
  PROVE  Shape'
<1>1. CASE UNCHANGED vars
  BY <1>1, StillTypes DEF Shape, vars, stores, data
<1>2. CASE \/ Archive \/ StartBot \/ StopBot \/ Delete
           \/ \E r \in Rows : Write(r)
  BY <1>2, BotTypes
<1>3. CASE \/ Sweeps \/ StartsSweep \/ LateArrives
  BY <1>3, SweepTypes
<1>4. ASSUME NEW u \in Requests, AskForItBack(u) \/ Restores(u) PROVE Shape'
  BY <1>4, RestoringTypes
<1>5. CASE Archives \/ Crash
  BY <1>5, ArchivingTypes, CrashTypes
<1> QED
  BY <1>1, <1>2, <1>3, <1>4, <1>5 DEF Next

(***************************************************************************)
(* Whatever the world lets happen, every variable keeps its type.          *)
(***************************************************************************)
THEOREM TypeCorrect == Spec => []TypeOK
<1>1. Init => Shape
  BY InitTypes
<1>2. Shape /\ [Next]_vars => Shape'
  BY StepTypes
<1>3. Shape => TypeOK
  <2> SUFFICES ASSUME Shape PROVE TypeOK
    OBVIOUS
  <2>1. /\ {mongo, cold, latest, archiver.page} \subseteq Contents
        /\ late \in Nat /\ mishaps \in 0..world.mishaps
    BY DEF Shape, StoresShape, ArchiverShape
  <2>2. /\ bot \in [status : {"open", "closed", "archive", "gone"},
                    coldArchived : BOOLEAN, isDeleted : BOOLEAN]
        /\ archives \in 0..world.archives
    BY DEF Shape, BotShape, Statuses
  <2>3. /\ archiver.at \in {"idle", "read", "insert", "count", "delete", "mark"}
        /\ archiver.table \in {"orders", "transactions"}
        /\ archiver.last \in Nat
    BY DEF Shape, ArchiverShape, HasPage, Tables
  <2>4. \A u \in Requests :
          /\ request[u].at \in {"idle", "look", "enter", "copy", "verify",
                                "clear", "gc", "flip"}
          /\ request[u].table \in {"orders", "transactions"}
          /\ request[u].copied \subseteq Rows
    BY DEF Shape, RequestShape, Places, Tables
  <2>5. cron \in [at : {"idle", "purge", "orders", "transactions", "document",
                         "list", "flags", "gc"},
                  coldArchived : BOOLEAN]
    BY DEF Shape, CronShape, CronPlaces, Purges
  <2> QED
    BY <2>1, <2>2, <2>3, <2>4, <2>5, Zenon DEF TypeOK
<1> QED
  BY <1>1, <1>2, <1>3, PTL DEF Spec

-----------------------------------------------------------------------------
(* No row is lost, and reads find the data *)

Alive == SafeWorld(world) /\ Shape /\ Live /\ ~bot.isDeleted

\* What a step leaves alone stays true.
LEMMA StillLive ==
  ASSUME Live
  PROVE  /\ UNCHANGED <<mongo, cold, latest>> => RowsKept'
         /\ UNCHANGED <<world, bot, cron, archiver, request>> => Turns'
         /\ UNCHANGED <<bot, cold, latest, archives, archiver, late, cron, request>>
              => Marked'
         /\ UNCHANGED <<bot, cold, request>> => Ahead'
         /\ NobodyUnarchives' => Ahead'
         /\ UNCHANGED <<world, bot, mongo, latest, archives, archiver, late, cron>>
              => Loaded'
         /\ UNCHANGED <<mongo, latest, request>> => \A u \in Requests : Fetched(u)'
         /\ UNCHANGED <<archiver, mongo>> => Through' /\ PageRead'
         /\ UNCHANGED <<archiver, cold>> => PageCopied'
         /\ archiver'.at = "idle" => Through' /\ PageRead' /\ PageCopied'
<1>1. UNCHANGED <<mongo, cold, latest>> => RowsKept'
  BY DEF Live, RowsKept
<1>2. UNCHANGED <<world, bot, cron, archiver, request>> => Turns'
  BY Zenon DEF Live, Turns, NobodyUnarchives, Rehydrating
<1>3. UNCHANGED <<bot, cold, latest, archives, archiver, late, cron, request>>
        => Marked'
  BY DEF Live, Marked, Unmarked, NobodyUnarchives
<1>4. UNCHANGED <<world, bot, mongo, latest, archives, archiver, late, cron>> => Loaded'
  BY DEF Live, Loaded, InMongo
<1>5. UNCHANGED <<mongo, latest, request>> => \A u \in Requests : Fetched(u)'
  BY Zenon DEF Live, Fetched, InMongo
<1>6. UNCHANGED <<archiver, mongo>> => Through' /\ PageRead'
  BY Zenon DEF Live, Through, PageRead, Has
<1>7. UNCHANGED <<archiver, cold>> => PageCopied'
  BY Zenon DEF Live, PageCopied, Has
<1>8. archiver'.at = "idle" => Through' /\ PageRead' /\ PageCopied'
  BY DEF Through, PageRead, PageCopied, HasPage
<1>9. UNCHANGED <<bot, cold, request>> => Ahead'
  BY DEF Live, Ahead
<1>10. NobodyUnarchives' => Ahead'
  BY DEF Ahead, NobodyUnarchives, Counts
<1> QED
  BY <1>1, <1>2, <1>3, <1>4, <1>5, <1>6, <1>7, <1>8, <1>9, <1>10

LEMMA ArchiveLive ==
  ASSUME Alive, Archive
  PROVE  Live'
<1>1. /\ bot.status = "closed" /\ archives < world.archives
      /\ NobodyUnarchives /\ cron.at = "idle" /\ archiver.at = "idle"
      /\ ~bot.coldArchived /\ late = 0
  <2>1. bot.status = "closed" /\ archives < world.archives
        /\ NobodyUnarchives /\ cron.at = "idle"
    BY DEF Archive, Apart, Alive, SafeWorld
  <2>2. archiver.at = "idle"
    BY <2>1 DEF Alive, Live, Turns
  <2>3. ~bot.coldArchived
    BY <2>1 DEF Alive, Live, Marked, Unmarked
  <2>4. archives \in Nat /\ world.archives \in Nat /\ late \in Nat
    BY BoundsAssumption DEF Alive, Shape, StoresShape, BotShape
  <2>5. late = 0
    BY <2>1, <2>4 DEF Alive, Live, Loaded
  <2> QED
    BY <2>1, <2>2, <2>3, <2>5
<1>2. /\ bot' = [bot EXCEPT !.status = "archive"] /\ archives' = archives + 1
      /\ archiver' = Before("read", "orders")
      /\ UNCHANGED <<world, mongo, cold, latest, late, request, cron>>
  BY <1>1 DEF Archive, EnqueueArchive
<1>3. archiver'.at = "read" /\ archiver'.table = "orders" /\ archiver'.last = 0
  BY <1>2 DEF Before
<1>4. bot'.status = "archive" /\ bot'.coldArchived = bot.coldArchived
  BY <1>2 DEF Alive, Shape, BotShape
<1>5. Turns'
  BY <1>1, <1>2, <1>3, <1>4, Zenon DEF Alive, Live, Turns, NobodyUnarchives, Rehydrating
<1>6. Marked'
  <2>1. archives' # 0
    BY <1>2, BoundsAssumption DEF Alive, Shape, StoresShape, BotShape
  <2> QED
    BY <1>1, <1>4, <2>1 DEF Marked
<1>7. Loaded'
  BY <1>1, <1>2, <1>3 DEF Loaded
<1>8. Through'
  <2>1. TableRows[archiver'.table] = Orders
    BY <1>3, RowFacts
  <2>2. \A r \in Orders : ~(r <= archiver'.last)
    BY <1>3, RowsAssumption
  <2> QED
    BY <1>3, <2>1, <2>2 DEF Through
<1>9. PageRead' /\ PageCopied'
  BY <1>3 DEF PageRead, PageCopied, HasPage
<1>10. Ahead'
  BY <1>1, <1>2, StillLive DEF Alive, NobodyUnarchives
<1> QED
  BY <1>2, <1>5, <1>6, <1>7, <1>8, <1>9, <1>10, StillLive DEF Alive, Live

LEMMA StartStopLive ==
  ASSUME Alive, StartBot \/ StopBot
  PROVE  Live'
<1>1. /\ UNCHANGED <<world, mongo, cold, latest, late, archiver, request, cron, archives>>
      /\ bot.status \in {"closed", "open"} /\ bot'.status \in {"closed", "open"}
      /\ bot'.coldArchived = bot.coldArchived
  BY DEF StartBot, StopBot, Alive, Shape, BotShape
<1>2. archiver.at = "idle" /\ ~bot.coldArchived
  BY <1>1 DEF Alive, Live, Turns, Marked, Unmarked
<1>3. Turns'
  BY <1>1, <1>2 DEF Alive, Live, Turns, NobodyUnarchives, Rehydrating
<1>4. Marked'
  BY <1>1, <1>2 DEF Alive, Live, Marked, NobodyUnarchives
<1>5. Loaded'
  BY <1>1, <1>2 DEF Alive, Live, Loaded, InMongo
<1>6. Ahead'
  BY <1>1 DEF Alive, Live, Ahead
<1> QED
  BY <1>1, <1>3, <1>4, <1>5, <1>6, StillLive DEF Alive, Live

\* What Mongo has it keeps.
MongoGains == \A s \in Rows : mongo[s] = latest[s] => mongo'[s] = latest'[s]

LEMMA GainsKeep ==
  ASSUME MongoGains
  PROVE  /\ InMongo(Rows) => InMongo(Rows)'
         /\ InMongo(Orders) => InMongo(Orders)'
         /\ \A S \in SUBSET Rows : InMongo(S) => \A s \in S : mongo'[s] = latest'[s]
BY RowFacts DEF MongoGains, InMongo

\* So a request that stays where it is keeps what it brought back.
LEMMA FetchedKeeps ==
  ASSUME Alive, MongoGains, NEW v \in Requests, request'[v] = request[v]
  PROVE  Fetched(v)'
<1>1. /\ request'[v] = request[v] /\ Fetched(v)
      /\ request[v].copied \in SUBSET Rows /\ request[v].table \in Tables
  BY DEF Alive, Live, Shape, RequestShape
<1>2. TableRows[request[v].table] \in SUBSET Rows
  BY <1>1, RowFacts
<1>3. \A S \in SUBSET Rows : InMongo(S) => \A s \in S : mongo'[s] = latest'[s]
  BY GainsKeep
<1>4. /\ request'[v].copied = request[v].copied /\ request'[v].at = request[v].at
      /\ request'[v].table = request[v].table
  BY <1>1
<1>5. request[v].at = "copy" => \A s \in request[v].copied : mongo'[s] = latest'[s]
  BY <1>1, <1>3 DEF Fetched
<1>6. request[v].at = "verify" =>
        \A s \in TableRows[request[v].table] : mongo'[s] = latest'[s]
  BY <1>1, <1>2, <1>3 DEF Fetched
<1>7. /\ InMongo(Orders) => InMongo(Orders)'
      /\ InMongo(Rows) => InMongo(Rows)'
  BY GainsKeep
<1> QED
  BY <1>1, <1>4, <1>5, <1>6, <1>7 DEF Fetched, InMongo

LEMMA WriteLive ==
  ASSUME Alive, NEW r \in Rows, Write(r)
  PROVE  Live'
<1>1. /\ UNCHANGED <<world, cold, bot, late, archiver, request, cron, archives>>
      /\ bot.status = "open"
      /\ latest' = [latest EXCEPT ![r] = latest[r] + 1]
      /\ mongo' = [mongo EXCEPT ![r] = latest[r] + 1]
  BY DEF Write, Writes, Alive, SafeWorld
<1>2. archiver.at = "idle" /\ ~bot.coldArchived
  BY <1>1 DEF Alive, Live, Turns, Marked, Unmarked
<1>3. \A s \in Rows : /\ latest[s] \in Nat /\ mongo[s] \in Nat /\ cold[s] \in Nat
                      /\ latest'[s] = IF s = r THEN latest[r] + 1 ELSE latest[s]
                      /\ mongo'[s] = IF s = r THEN latest[r] + 1 ELSE mongo[s]
  BY <1>1, BoundsAssumption DEF Alive, Shape, StoresShape, Contents
<1>4. RowsKept'
  BY <1>1, <1>3 DEF Alive, Live, RowsKept
<1>5. Turns'
  BY <1>1, StillLive DEF Alive
<1>6. Marked'
  BY <1>1, <1>2 DEF Alive, Live, Marked, Unmarked, NobodyUnarchives
<1>7. MongoGains
  BY <1>3 DEF MongoGains
<1>8. Loaded'
  BY <1>1, <1>7, GainsKeep DEF Alive, Live, Loaded
<1>9. \A u \in Requests : Fetched(u)'
  BY <1>1, <1>7, FetchedKeeps
<1>10. Ahead' /\ Through' /\ PageRead' /\ PageCopied'
  BY <1>1, <1>2, StillLive DEF Alive
<1> QED
  BY <1>4, <1>5, <1>6, <1>8, <1>9, <1>10 DEF Live

LEMMA SweepStartsLive ==
  ASSUME Alive, StartsSweep
  PROVE  Live'
<1>1. /\ UNCHANGED <<world, mongo, cold, latest, bot, late, archiver, request, archives>>
      /\ cron'.at = "list" /\ world.sweeps /\ archiver.at = "idle"
  BY DEF StartsSweep, CronStart, stores, data, Apart, Alive, SafeWorld
<1>2. Turns'
  BY <1>1 DEF Alive, Live, Turns, NobodyUnarchives, Rehydrating, Purges
<1>3. Marked'
  BY <1>1 DEF Alive, Live, Marked, Unmarked
<1>4. Loaded'
  BY <1>1 DEF Alive, Live, Loaded, InMongo
<1> QED
  BY <1>1, <1>2, <1>3, <1>4, StillLive DEF Alive, Live

\* The cold store's rows can all go while Mongo has every row.
LEMMA DropKeeps ==
  ASSUME Alive, NEW kind, ColdDelete(kind), InMongo(Rows),
         UNCHANGED <<world, mongo, latest>>
  PROVE  /\ RowsKept'
         /\ \A s \in Rows : cold'[s] \in {0, cold[s]}
         /\ late' > 0 => late > 0 \/ "late" \in world.broken
<1>1. \A s \in Rows : /\ latest[s] \in Nat /\ mongo[s] \in Nat /\ cold[s] \in Nat
                      /\ mongo[s] = latest[s]
  BY BoundsAssumption DEF Alive, Shape, StoresShape, Contents, InMongo
<1>2. cold' = Nothing \/ cold' = cold
  BY DEF ColdDelete
<1>3. \A s \in Rows : cold'[s] \in {0, cold[s]}
  BY <1>2 DEF Nothing
<1>4. RowsKept'
  BY <1>1, <1>3 DEF Alive, Live, RowsKept
<1>5. late' > 0 => late > 0 \/ "late" \in world.broken
  BY DEF ColdDelete, Fails, Alive, Shape, StoresShape
<1> QED
  BY <1>3, <1>4, <1>5

\* A delete that is given up comes too late to find the bot archived again.
LEMMA LateOnlyOnce ==
  ASSUME Alive, archives # 0, "late" \in world.broken
  PROVE  archives >= world.archives
BY BoundsAssumption DEF Alive, SafeWorld, Shape, StoresShape, BotShape

LEMMA LateArrivesLive ==
  ASSUME Alive, LateArrives
  PROVE  Live'
<1>1. /\ UNCHANGED <<world, mongo, latest, bot, archiver, request, cron, archives>>
      /\ late > 0 /\ late' = late - 1 /\ cold' = Nothing
  BY DEF LateArrives, LateDelete
<1>2. archiver.at = "idle" /\ archives >= world.archives /\ InMongo(Rows)
      /\ ~bot.coldArchived /\ late \in Nat
  BY <1>1 DEF Alive, Live, Loaded, Marked, Unmarked, Shape, StoresShape
<1>3. \A s \in Rows : /\ latest[s] \in Nat /\ mongo[s] = latest[s] /\ cold'[s] = 0
  BY <1>1, <1>2, BoundsAssumption
     DEF Alive, Shape, StoresShape, Contents, InMongo, Nothing
<1>4. RowsKept'
  BY <1>1, <1>3 DEF RowsKept
<1>5. Turns'
  BY <1>1, StillLive DEF Alive
<1>6. Marked'
  BY <1>1, <1>2, <1>3 DEF Alive, Live, Marked, Unmarked, NobodyUnarchives
<1>7. Loaded'
  BY <1>1, <1>2 DEF Alive, Live, Loaded, InMongo
<1>8. Ahead'
  BY <1>3 DEF Ahead
<1>9. (\A u \in Requests : Fetched(u)') /\ Through' /\ PageRead' /\ PageCopied'
  BY <1>1, <1>2, StillLive DEF Alive
<1> QED
  BY <1>4, <1>5, <1>6, <1>7, <1>8, <1>9 DEF Live

LEMMA SweepLive ==
  ASSUME Alive, Sweeps
  PROVE  Live'
<1>1. /\ UNCHANGED <<world, mongo, latest, archiver, request, archives, bot>>
      /\ ListBots \/ ReadFlags \/ DropOrphans
      /\ cron.at \in {"list", "flags", "gc"}
      /\ cron'.at \in {"idle", "flags", "gc"}
  BY DEF Sweeps, CronJob, PurgeCold, PurgeMongo, PurgeRows, PurgeBot, ListBots,
         ReadFlags, CronGoes, DropOrphans, CronRest, data, Alive, Live, Turns,
         Purges, Shape, CronShape
<1>2. archiver.at = "idle" /\ world.sweeps /\ "archive" \notin world.broken
  BY <1>1 DEF Alive, Live, Turns, SafeWorld
<1>3. archives # 0 \/ cron'.at \notin {"flags", "gc"}
  <2>1. CASE ListBots
    <3>1. cron'.at \in {"flags", "gc"} => Has(cold) # {}
      BY <2>1 DEF ListBots, CronRest
    <3> QED
      BY <3>1 DEF Alive, Live, Marked, Has
  <2>2. CASE ReadFlags \/ DropOrphans
    BY <2>2 DEF ReadFlags, DropOrphans, Alive, Live, Marked
  <2> QED
    BY <1>1, <2>1, <2>2
<1>4. cron'.at = "gc" => ReadFlags /\ ~bot.coldArchived
  <2>1. ReadFlags /\ cron'.at = "gc" => Orphan
    BY DEF ReadFlags, Fails, CronRest, Alive, SafeWorld
  <2>2. cron'.at = "gc" => ReadFlags
    BY <1>1 DEF ListBots, DropOrphans, CronRest, CronGoes, Alive, Shape, CronShape
  <2> QED
    BY <2>1, <2>2 DEF Orphan, Alive, Live, Turns
<1>5. /\ RowsKept' /\ \A s \in Rows : cold'[s] \in {0, cold[s]}
      /\ late' > 0 => late > 0 \/ (DropOrphans /\ "late" \in world.broken)
      /\ cold' # cold => ~bot.coldArchived
  <2>1. CASE DropOrphans
    <3>1. InMongo(Rows) /\ ColdDelete("sweep") /\ ~bot.coldArchived
      BY <2>1 DEF DropOrphans, Alive, Live, Loaded, Marked, Unmarked
    <3> QED
      BY <1>1, <2>1, <3>1, DropKeeps
  <2>2. CASE ListBots \/ ReadFlags
    <3>1. UNCHANGED <<mongo, cold, latest, late>>
      BY <2>2 DEF ListBots, ReadFlags, data
    <3> QED
      BY <3>1, StillLive DEF Alive
  <2> QED
    BY <1>1, <2>1, <2>2
<1>6. Turns'
  BY <1>1, <1>2 DEF Alive, Live, Turns, NobodyUnarchives, Rehydrating, Purges
<1>7. Marked'
  <2>1. Unmarked' => ~bot.coldArchived
    <3>1. late' > 0 => late > 0 \/ cron.at = "gc"
      BY <1>5 DEF DropOrphans
    <3> QED
      BY <1>1, <1>4, <3>1 DEF Alive, Live, Marked, Unmarked
  <2>2. bot.coldArchived => \A s \in Rows : cold'[s] = latest[s]
    BY <1>5 DEF Alive, Live, Marked
  <2>3. archives = 0 => \A s \in Rows : cold'[s] = 0
    BY <1>5 DEF Alive, Live, Marked
  <2>4. archives = 0 => /\ bot.status # "archive"
                        /\ \A u \in Requests : request[u].at \in Outside
    BY DEF Alive, Live, Marked
  <2> QED
    BY <1>1, <1>3, <2>1, <2>2, <2>3, <2>4 DEF Marked
<1>8. Loaded'
  <2>1. late' > 0 => archives >= world.archives /\ InMongo(Rows)
    <3>1. CASE late > 0
      BY <3>1 DEF Alive, Live, Loaded
    <3>2. CASE DropOrphans /\ "late" \in world.broken
      <4>1. InMongo(Rows) /\ archives # 0
        BY <3>2 DEF DropOrphans, Alive, Live, Loaded, Marked
      <4> QED
        BY <3>2, <4>1, LateOnlyOnce
    <3> QED
      BY <1>5, <3>1, <3>2
  <2>2. ~bot.coldArchived => InMongo(Rows)
    BY <1>2 DEF Alive, Live, Loaded
  <2> QED
    BY <1>1, <1>2, <1>4, <2>1, <2>2 DEF Loaded, InMongo
<1>9. Ahead'
  BY <1>1, <1>5 DEF Alive, Live, Ahead
<1>10. (\A u \in Requests : Fetched(u)') /\ Through' /\ PageRead' /\ PageCopied'
  BY <1>1, <1>2, StillLive DEF Alive
<1> QED
  BY <1>5, <1>6, <1>7, <1>8, <1>9, <1>10 DEF Live

LEMMA CrashLive ==
  ASSUME Alive, Crash
  PROVE  Live'
<1>1. /\ UNCHANGED <<world, mongo, cold, latest, bot, late, archives>>
      /\ archiver'.at = "idle" /\ cron'.at = "idle"
      /\ \A u \in Requests : request'[u] = Answered
      /\ archiver.at # "idle" => "archive" \in world.broken
  BY RestTypes DEF Crash, data, CronRest
<1>0. \A u \in Requests : request'[u].at = "idle"
  BY <1>1, RestTypes
<1>2. Turns'
  BY <1>0, <1>1 DEF Alive, Live, Turns, NobodyUnarchives, Rehydrating, Purges
<1>3. Marked' /\ Ahead'
  BY <1>0, <1>1 DEF Alive, Live, Marked, Unmarked, Outside, Ahead, Counts
<1>4. Loaded'
  BY <1>1 DEF Alive, Live, Loaded, InMongo
<1>5. \A u \in Requests : Fetched(u)'
  BY <1>1 DEF Fetched, Answered
<1> QED
  BY <1>1, <1>2, <1>3, <1>4, <1>5, StillLive DEF Alive, Live

-----------------------------------------------------------------------------
(* Un-archiving *)

\* A request that moves: the others stay where they are.
LEMMA RequestMoves ==
  ASSUME RequestShape, NEW u \in Requests
  PROVE  /\ \A r : Become(u, r) => \A v \in Requests \ {u} : request'[v] = request[v]
         /\ \A r : Become(u, r) => request'[u] = r
         /\ \A to : Goes(u, to) => /\ request'[u].at = to
                                  /\ request'[u].table = request[u].table
                                  /\ request'[u].copied = request[u].copied
         /\ Reject(u) => request'[u].at = "idle"
<1>1. DOMAIN request = Requests
  BY DEF RequestShape
<1>2. \A r : Become(u, r) => /\ request'[u] = r
                            /\ \A v \in Requests \ {u} : request'[v] = request[v]
  BY <1>1 DEF Become, RequestShape
<1>3. request[u] \in [at : Places, table : Tables, copied : SUBSET Rows]
  BY DEF RequestShape
<1>4. \A to : Goes(u, to) => /\ request'[u].at = to
                            /\ request'[u].table = request[u].table
                            /\ request'[u].copied = request[u].copied
  BY <1>2, <1>3 DEF Goes
<1>5. Reject(u) => request'[u].at = "idle"
  BY <1>2, RestTypes DEF Reject
<1> QED
  BY <1>2, <1>4, <1>5

\* A request that is on its way has the archiver at rest; what the others are
\* at stays true of them.
LEMMA RestoreTurns ==
  ASSUME Alive, NEW u \in Requests, NEW r, Become(u, r),
         \/ request[u].at # "idle"
         \/ u \in world.requests /\ archiver.at = "idle",
         r.at \in {"copy", "verify", "clear", "gc"} =>
            \/ Rehydrating(u)
            \/ ~\E v \in Requests : Rehydrating(v),
         UNCHANGED <<world, archiver, cron>>,
         bot'.status \in {bot.status, "closed"}
  PROVE  Turns' /\ archiver.at = "idle"
<1>1. archiver.at = "idle" /\ u \in world.requests
  BY DEF Alive, Live, Turns, NobodyUnarchives
<1>2. /\ request'[u] = r
      /\ \A v \in Requests \ {u} : request'[v] = request[v]
  BY RequestMoves DEF Alive, Shape
<1>3. \A v, w \in Requests : Rehydrating(v)' /\ Rehydrating(w)' => v = w
  BY <1>2 DEF Alive, Live, Turns, Rehydrating
<1>4. \A v \in Requests : request'[v].at # "idle" => v \in world'.requests
  BY <1>1, <1>2 DEF Alive, Live, Turns
<1>5. bot'.status # "gone"
  BY DEF Alive, Live, Turns
<1> QED
  BY <1>1, <1>3, <1>4, <1>5 DEF Alive, Live, Turns

\* Steps that leave the stores as they are.
LEMMA QuietRestoreLive ==
  ASSUME Alive, NEW u \in Requests, NEW r, Become(u, r),
         \/ request[u].at # "idle"
         \/ u \in world.requests /\ archiver.at = "idle",
         r.at \in {"copy", "verify", "clear", "gc"} =>
            \/ Rehydrating(u)
            \/ ~\E v \in Requests : Rehydrating(v),
         r.at \in {"gc", "flip"} => ~bot'.coldArchived,
         request[u].at # "gc",
         r.at \in Counts => request[u].at \in Counts \/ bot'.coldArchived,
         r.at \in Outside \/ request[u].at \notin Outside \/ bot.coldArchived,
         UNCHANGED <<world, archiver, cron, archives, mongo, cold, latest, late>>,
         bot'.status \in {bot.status, "closed"},
         bot'.status # bot.status => ~bot'.coldArchived,
         \/ bot'.coldArchived = bot.coldArchived
         \/ /\ ~bot'.coldArchived /\ InMongo(Rows)
            /\ \/ r.at = "gc"
               \/ r.at = "idle" /\ \A v \in Requests \ {u} : request[v].at = "idle",
         Fetched(u)'
  PROVE  Live'
<1>1. Turns' /\ archiver.at = "idle"
  BY RestoreTurns
<1>2. /\ request'[u] = r
      /\ \A v \in Requests \ {u} : request'[v] = request[v]
  BY RequestMoves DEF Alive, Shape
<1>3. bot'.coldArchived => bot.coldArchived
  OBVIOUS
<1>4. Marked'
  <2>1. bot'.coldArchived => bot'.status = "archive"
    BY <1>3 DEF Alive, Live, Marked, Unmarked
  <2>2. Unmarked' => ~bot'.coldArchived
    BY <1>1, <1>2, <1>3, <2>1 DEF Alive, Live, Marked, Unmarked
  <2>3. archives = 0 => ~bot.coldArchived
    BY DEF Alive, Live, Marked, Unmarked
  <2>4. archives = 0 => \A v \in Requests : request'[v].at \in Outside
    BY <1>2, <2>3 DEF Alive, Live, Marked
  <2>5. archives = 0 => bot'.status # "archive"
    BY DEF Alive, Live, Marked
  <2> QED
    BY <1>1, <1>3, <2>2, <2>4, <2>5 DEF Alive, Live, Marked
<1>5. Loaded'
  BY DEF Alive, Live, Loaded, InMongo
<1>6. \A v \in Requests : Fetched(v)'
  BY <1>2 DEF Alive, Live, Fetched, InMongo
<1>7. RowsKept' /\ Through' /\ PageRead' /\ PageCopied'
  BY StillLive DEF Alive
<1>8. Ahead'
  <2>1. CASE bot'.coldArchived = bot.coldArchived
    <3>1. \A v \in Requests : request[v].at = "gc" => request'[v].at = "gc"
      BY <1>2
    <3>2. \A v \in Requests : request'[v].at \in Counts =>
                                request[v].at \in Counts \/ bot'.coldArchived
      BY <1>2
    <3> QED
      BY <2>1, <3>1, <3>2 DEF Alive, Live, Ahead
  <2>2. CASE r.at = "gc"
    BY <1>2, <2>2 DEF Ahead
  <2>3. CASE r.at = "idle" /\ \A v \in Requests \ {u} : request[v].at = "idle"
    BY <1>2, <2>3 DEF Ahead, Counts
  <2> QED
    BY <2>1, <2>2, <2>3
<1> QED
  BY <1>1, <1>4, <1>5, <1>6, <1>7, <1>8 DEF Live

LEMMA AskForItBackLive ==
  ASSUME Alive, NEW u \in Requests, AskForItBack(u)
  PROVE  Live'
<1> DEFINE r == [request[u] EXCEPT !.at = "look"]
<1>1. /\ request[u].at = "idle" /\ u \in world.requests /\ archiver.at = "idle"
      /\ Become(u, r)
      /\ UNCHANGED <<stores, archiver, cron, archives>>
  BY DEF AskForItBack, Unarchive, Goes, Apart, Alive, SafeWorld
<1>2. UNCHANGED <<world, mongo, cold, latest, bot, late>>
  BY <1>1 DEF stores, data
<1>3. request[u] \in [at : Places, table : Tables, copied : SUBSET Rows]
  BY DEF Alive, Shape, RequestShape
<1>4. r.at = "look" /\ r.table = request[u].table /\ r.copied = request[u].copied
  BY <1>3
<1>5. request'[u] = r
  BY <1>1, RequestMoves DEF Alive, Shape
<1> HIDE DEF r
<1>6. Fetched(u)'
  BY <1>1, <1>4, <1>5 DEF Alive, Live, Fetched
<1> QED
  BY <1>1, <1>2, <1>4, <1>6, QuietRestoreLive DEF Outside, Counts

LEMMA LookLive ==
  ASSUME Alive, NEW u \in Requests, Restores(u), Look(u)
  PROVE  Live'
<1>1. PICK to \in {"enter", "flip"} :
        /\ Goes(u, to)
        /\ to = "enter" <=> bot.coldArchived
  BY DEF Look, Fails, Alive, SafeWorld, Live, Turns
<1> DEFINE r == [request[u] EXCEPT !.at = to]
<1>2. /\ request[u].at = "look" /\ Become(u, r)
      /\ UNCHANGED <<world, mongo, cold, latest, bot, late, archiver, cron, archives>>
  BY <1>1 DEF Restores, Look, Goes, data
<1>3. request[u] \in [at : Places, table : Tables, copied : SUBSET Rows]
  BY DEF Alive, Shape, RequestShape
<1>4. r.at = to /\ r.table = request[u].table /\ r.copied = request[u].copied
  BY <1>3
<1>5. request'[u] = r
  BY <1>2, RequestMoves DEF Alive, Shape
<1> HIDE DEF r
<1>6. Fetched(u)'
  BY <1>1, <1>2, <1>4, <1>5 DEF Alive, Live, Fetched, Marked
<1> QED
  BY <1>1, <1>2, <1>4, <1>6, QuietRestoreLive DEF Outside, Counts

\* A request that is rejected leaves nothing behind but what the stores have.
LEMMA RejectFetched ==
  ASSUME Alive, NEW u \in Requests, Reject(u)
  PROVE  /\ Fetched(u)' /\ Answered.at = "idle" /\ Become(u, Answered)
         /\ Answered.at \in Outside /\ Answered.at \notin Counts
<1>1. request'[u] = Answered
  BY RequestMoves DEF Alive, Shape, Reject
<1> QED
  BY <1>1, RestTypes DEF Fetched, Answered, Reject, Outside, Counts

LEMMA EnterLive ==
  ASSUME Alive, NEW u \in Requests, Restores(u), Enter(u)
  PROVE  Live'
<1>1. /\ request[u].at = "enter"
      /\ UNCHANGED <<world, mongo, cold, latest, bot, late, archiver, cron, archives>>
  BY DEF Restores, Enter, data
<1>2. CASE Reject(u)
  BY <1>1, <1>2, RejectFetched, QuietRestoreLive
<1>3. CASE Goes(u, "copy") /\ ~\E v \in Requests : Rehydrating(v)
  <2> DEFINE r == [request[u] EXCEPT !.at = "copy"]
  <2>1. Become(u, r)
    BY <1>3 DEF Goes
  <2>2. request[u] \in [at : Places, table : Tables, copied : SUBSET Rows]
    BY DEF Alive, Shape, RequestShape
  <2>3. r.at = "copy" /\ r.table = request[u].table /\ r.copied = request[u].copied
    BY <2>2
  <2>4. request'[u] = r
    BY <2>1, RequestMoves DEF Alive, Shape
  <2> HIDE DEF r
  <2>5. Fetched(u)'
    BY <1>1, <2>3, <2>4 DEF Alive, Live, Fetched, InMongo
  <2> QED
    BY <1>1, <1>3, <2>1, <2>3, <2>5, QuietRestoreLive DEF Counts, Outside
<1> QED
  BY <1>2, <1>3 DEF Enter

LEMMA VerifyLive ==
  ASSUME Alive, NEW u \in Requests, Restores(u), Verify(u)
  PROVE  Live'
<1>1. /\ request[u].at = "verify"
      /\ UNCHANGED <<world, mongo, cold, latest, bot, late, archiver, cron, archives>>
  BY DEF Restores, Verify, data
<1>2. request[u] \in [at : Places, table : Tables, copied : SUBSET Rows]
  BY DEF Alive, Shape, RequestShape
<1>3. CASE Reject(u)
  BY <1>1, <1>3, RejectFetched, QuietRestoreLive
<1>4. CASE request[u].table = "orders"
           /\ Become(u, [at |-> "copy", table |-> "transactions", copied |-> {}])
  <2> DEFINE r == [at |-> "copy", table |-> "transactions", copied |-> {}]
  <2>1. request'[u] = r
    BY <1>4, RequestMoves DEF Alive, Shape
  <2>2. InMongo(Orders)
    BY <1>1, <1>4, RowFacts DEF Alive, Live, Fetched
  <2>3. Fetched(u)'
    BY <1>1, <2>1, <2>2 DEF Alive, Live, Fetched, InMongo
  <2>4. Rehydrating(u)
    BY <1>1 DEF Rehydrating
  <2> QED
    BY <1>1, <1>4, <2>3, <2>4, QuietRestoreLive DEF Counts, Outside
<1>5. CASE request[u].table = "transactions" /\ Goes(u, "clear")
  <2> DEFINE r == [request[u] EXCEPT !.at = "clear"]
  <2>1. Become(u, r)
    BY <1>5 DEF Goes
  <2>2. r.at = "clear" /\ request'[u] = r
    BY <1>2, <2>1, RequestMoves DEF Alive, Shape
  <2> HIDE DEF r
  <2>3. InMongo(Orders) /\ InMongo(Transactions)
    BY <1>1, <1>5, RowFacts DEF Alive, Live, Fetched
  <2>4. InMongo(Rows)
    BY <2>3 DEF InMongo, Rows
  <2>5. Fetched(u)'
    BY <1>1, <2>2, <2>4 DEF Alive, Live, Fetched, InMongo
  <2>6. Rehydrating(u)
    BY <1>1 DEF Rehydrating
  <2> QED
    BY <1>1, <2>1, <2>2, <2>5, <2>6, QuietRestoreLive DEF Counts, Outside
<1> QED
  BY <1>2, <1>3, <1>4, <1>5 DEF Verify, Tables

\* Where copies can be left no other request is under way.
LEMMA OneRequest ==
  ASSUME Alive, NEW u \in Requests, request[u].at # "idle",
         "leave" \in world.broken \/ "late" \in world.broken
  PROVE  \A v \in Requests \ {u} : request[v].at = "idle"
<1>1. \A v, w \in world.requests : v = w
  BY DEF Alive, SafeWorld
<1> QED
  BY <1>1 DEF Alive, Live, Turns

LEMMA ClearFlagLive ==
  ASSUME Alive, NEW u \in Requests, Restores(u), ClearFlag(u)
  PROVE  Live'
<1>1. /\ request[u].at = "clear"
      /\ UNCHANGED <<world, mongo, cold, latest, late, archiver, cron, archives>>
      /\ \/ Reject(u) /\ bot' = bot
         \/ Reject(u) /\ bot' = [bot EXCEPT !.coldArchived = FALSE]
                       /\ "leave" \in world.broken
         \/ Goes(u, "gc") /\ bot' = [bot EXCEPT !.coldArchived = FALSE]
  BY Zenon DEF Restores, ClearFlag, Fails
<1>2. InMongo(Rows)
  BY <1>1 DEF Alive, Live, Fetched
<1>3. /\ bot'.status = bot.status
      /\ bot'.coldArchived = bot.coldArchived \/ ~bot'.coldArchived
      /\ ~Reject(u) => ~bot'.coldArchived
      /\ bot' = bot \/ ~Reject(u) \/ "leave" \in world.broken
  <2>1. bot \in [status : Statuses, coldArchived : BOOLEAN, isDeleted : BOOLEAN]
    BY DEF Alive, Shape, BotShape
  <2>2. /\ [bot EXCEPT !.coldArchived = FALSE].status = bot.status
        /\ ~[bot EXCEPT !.coldArchived = FALSE].coldArchived
    BY <2>1
  <2>3. bot' = bot \/ bot' = [bot EXCEPT !.coldArchived = FALSE]
    BY <1>1
  <2>4. ~Reject(u) => bot' = [bot EXCEPT !.coldArchived = FALSE]
    BY <1>1, Zenon
  <2>5. bot' = bot \/ ~Reject(u) \/ "leave" \in world.broken
    <3>1. ~(Goes(u, "gc") /\ Reject(u))
      BY RequestMoves DEF Alive, Shape
    <3> QED
      BY <1>1, <3>1, Zenon
  <2> QED
    BY <2>2, <2>3, <2>4, <2>5
<1>4. CASE Reject(u)
  <2>1. "leave" \in world.broken =>
          \A v \in Requests \ {u} : request[v].at = "idle"
    BY <1>1, OneRequest
  <2> QED
    BY <1>1, <1>2, <1>3, <1>4, <2>1, RejectFetched, QuietRestoreLive
<1>5. CASE Goes(u, "gc") /\ ~Reject(u)
  <2> DEFINE r == [request[u] EXCEPT !.at = "gc"]
  <2>1. Become(u, r)
    BY <1>5 DEF Goes
  <2>2. request[u] \in [at : Places, table : Tables, copied : SUBSET Rows]
    BY DEF Alive, Shape, RequestShape
  <2>3. r.at = "gc" /\ request'[u] = r
    BY <2>1, <2>2, RequestMoves DEF Alive, Shape
  <2> HIDE DEF r
  <2>4. Fetched(u)'
    BY <1>1, <1>2, <2>3 DEF Alive, Live, Fetched, InMongo
  <2>5. Rehydrating(u)
    BY <1>1 DEF Rehydrating
  <2> QED
    BY <1>1, <1>2, <1>3, <1>5, <2>1, <2>3, <2>4, <2>5, QuietRestoreLive
       DEF Counts, Outside
<1> QED
  BY <1>1, <1>4, <1>5

LEMMA FlipLive ==
  ASSUME Alive, NEW u \in Requests, Restores(u), Flip(u)
  PROVE  Live'
<1>1. /\ request[u].at = "flip" /\ Reject(u)
      /\ UNCHANGED <<world, mongo, cold, latest, late, archiver, cron, archives>>
      /\ bot' = bot \/ bot' = [bot EXCEPT !.status = "closed"]
  BY DEF Restores, Flip, Reopened
<1>2. ~bot.coldArchived
  BY <1>1 DEF Alive, Live, Marked, Unmarked
<1>3. bot'.status \in {bot.status, "closed"} /\ bot'.coldArchived = bot.coldArchived
  BY <1>1 DEF Alive, Shape, BotShape
<1> QED
  BY <1>1, <1>2, <1>3, RejectFetched, QuietRestoreLive

\* Cold copies put over Mongo: Mongo gains them and keeps the rest.
LEMMA CopyKeeps ==
  ASSUME Alive, \A s \in Rows : cold[s] \in {0, latest[s]},
         NEW part \in SUBSET Has(cold), mongo' = Over(mongo, Only(cold, part)),
         UNCHANGED <<cold, latest>>
  PROVE  /\ RowsKept' /\ MongoGains /\ \A s \in part : mongo'[s] = latest'[s]
<1>1. \A s \in Rows : /\ latest[s] \in Nat /\ mongo[s] \in Nat /\ cold[s] \in Nat
  BY BoundsAssumption DEF Alive, Shape, StoresShape, Contents
<1>2. \A s \in Rows : mongo'[s] = IF Only(cold, part)[s] > 0
                                 THEN Only(cold, part)[s] ELSE mongo[s]
  BY DEF Over
<1>3. \A s \in Rows : Only(cold, part)[s] = IF s \in part THEN cold[s] ELSE 0
  BY DEF Only
<1>4. \A s \in part : s \in Rows /\ cold[s] > 0
  BY DEF Has
<1>5. \A s \in Rows : mongo'[s] = IF s \in part THEN latest[s] ELSE mongo[s]
  BY <1>1, <1>2, <1>3, <1>4
<1>6. RowsKept'
  BY <1>1, <1>5 DEF Alive, Live, RowsKept
<1> QED
  BY <1>4, <1>5, <1>6 DEF MongoGains

LEMMA CopyPageLive ==
  ASSUME Alive, NEW u \in Requests, Restores(u), CopyPage(u)
  PROVE  Live'
<1> DEFINE t == request[u].table
           left == (Has(cold) \cap TableRows[t]) \ request[u].copied
           page == PageOf(left)
           r == [request[u] EXCEPT
                    !.copied = request[u].copied \cup page,
                    !.at = IF Cardinality(page) < PageSize THEN "verify" ELSE "copy"]
<1>1. /\ request[u].at = "copy"
      /\ UNCHANGED <<world, bot, cold, latest, late, archiver, cron, archives>>
      /\ \/ mongo' = Over(mongo, Only(cold, page)) /\ Become(u, r)
         \/ /\ Reject(u)
            /\ \E part \in SUBSET page : mongo' = Over(mongo, Only(cold, part))
  BY DEF Restores, CopyPage
<1>2. request[u] \in [at : Places, table : Tables, copied : SUBSET Rows]
  BY DEF Alive, Shape, RequestShape
<1>3. /\ left \in SUBSET Nat /\ left \subseteq Has(cold) /\ IsFiniteSet(left)
      /\ Has(cold) \subseteq Rows /\ TableRows[t] \subseteq Rows
  <2>1. left \subseteq Rows /\ left \subseteq Has(cold) /\ Has(cold) \subseteq Rows
        /\ TableRows[t] \subseteq Rows
    BY <1>2, HasRows, RowFacts
  <2> QED
    BY <2>1, RowFacts, FS_Subset
<1>4. page \subseteq left
  BY PageIsPart
<1>5. Rehydrating(u)
  BY <1>1 DEF Rehydrating
<1>6. \A s \in Rows : cold[s] \in {0, latest[s]}
  <2>1. ~\E v \in Requests : request[v].at = "gc"
    BY <1>1, <1>5 DEF Alive, Live, Turns, Rehydrating
  <2>2. bot.coldArchived \/ \A s \in Rows : cold[s] = 0
    BY <1>1, <2>1 DEF Alive, Live, Ahead, Counts
  <2> QED
    BY <2>2 DEF Alive, Live, Marked
<1>7. \E part \in SUBSET Has(cold) : mongo' = Over(mongo, Only(cold, part))
                                   /\ (Reject(u) \/ part = page)
  BY <1>1, <1>3, <1>4
<1>8. RowsKept' /\ MongoGains
      /\ (Reject(u) \/ \A s \in page : mongo'[s] = latest'[s])
  <2>1. PICK part \in SUBSET Has(cold) : mongo' = Over(mongo, Only(cold, part))
                                       /\ (Reject(u) \/ part = page)
    BY <1>7
  <2>2. RowsKept' /\ MongoGains /\ \A s \in part : mongo'[s] = latest'[s]
    BY <1>1, <1>6, <2>1, CopyKeeps
  <2> HIDE DEF page
  <2> QED
    BY <2>1, <2>2
<1>9. Become(u, r) \/ (Reject(u) /\ Become(u, Answered))
  BY <1>1 DEF Reject
<1>10. r.at \in {"verify", "copy"} /\ Answered.at = "idle"
  BY <1>2, RestTypes
<1>11. Turns' /\ archiver.at = "idle"
  <2>1. CASE Become(u, r)
    <3> HIDE DEF r
    <3> QED
      BY <1>1, <1>5, <2>1, RestoreTurns
  <2>2. CASE Become(u, Answered)
    BY <1>1, <1>10, <2>2, RestoreTurns
  <2> QED
    BY <1>9, <2>1, <2>2
<1>12. /\ request'[u] = r \/ (Reject(u) /\ request'[u] = Answered)
       /\ \A v \in Requests \ {u} : request'[v] = request[v]
  BY <1>9, RequestMoves DEF Alive, Shape
<1>13. Marked'
  <2>1. request'[u].at \in {"verify", "copy", "idle"}
    BY <1>10, <1>12
  <2>2. Unmarked' => Unmarked
    BY <1>1, <1>12, <2>1 DEF Unmarked
  <2>3. archives # 0
    BY <1>1 DEF Alive, Live, Marked, Outside
  <2> QED
    BY <1>1, <1>11, <2>2, <2>3 DEF Alive, Live, Marked
<1>14. Loaded'
  BY <1>1, <1>8, GainsKeep DEF Alive, Live, Loaded
<1>15. Fetched(u)'
  <2>1. CASE Reject(u)
    BY <2>1, RejectFetched
  <2>2. CASE ~Reject(u)
    <3> DEFINE rows == request[u].copied \cup page
    <3>1. /\ request'[u] = r /\ r.copied = rows /\ r.table = t
          /\ r.at = "verify" => Cardinality(page) < PageSize
      BY <1>2, <1>12, <2>2
    <3>2. \A s \in rows : mongo'[s] = latest'[s]
      <4>1. InMongo(request[u].copied) /\ request[u].copied \in SUBSET Rows
        BY <1>1, <1>2 DEF Alive, Live, Fetched
      <4>2. \A s \in request[u].copied : mongo'[s] = latest'[s]
        BY <1>8, <4>1, GainsKeep
      <4>3. \A s \in page : mongo'[s] = latest'[s]
        BY <1>8, <2>2
      <4> HIDE DEF page
      <4> QED
        BY <4>2, <4>3
    <3>3. t = "transactions" => InMongo(Orders)'
      BY <1>1, <1>8, GainsKeep DEF Alive, Live, Fetched
    <3>4. r.at = "verify" => \A s \in TableRows[t] : mongo'[s] = latest'[s]
      <4> SUFFICES ASSUME r.at = "verify", NEW s \in TableRows[t]
                   PROVE  mongo'[s] = latest'[s]
        OBVIOUS
      <4>1. page = left
        <5> HIDE DEF left
        <5> QED
          BY <1>3, <3>1, PageNotFull
      <4>2. CASE s \in rows
        BY <3>2, <4>2
      <4>3. CASE s \notin rows
        <5>1. s \notin Has(cold) /\ s \in Rows
          BY <1>3, <4>1, <4>3
        <5>2. cold[s] = 0
          BY <5>1, BoundsAssumption DEF Has, Alive, Shape, StoresShape, Contents
        <5>3. mongo[s] = latest[s]
          BY <5>1, <5>2, BoundsAssumption
             DEF Alive, Live, RowsKept, Shape, StoresShape, Contents
        <5> QED
          BY <1>8, <5>1, <5>3 DEF MongoGains
      <4> QED
        BY <4>2, <4>3
    <3>6. /\ request'[u].at \in {"verify", "copy"} /\ request'[u].table = t
          /\ \A s \in request'[u].copied : mongo'[s] = latest'[s]
          /\ request'[u].at = "verify" => \A s \in TableRows[t] : mongo'[s] = latest'[s]
      <4> HIDE DEF r, rows
      <4> QED
        BY <1>10, <3>1, <3>2, <3>4
    <3> HIDE DEF t, page
    <3> QED
      BY <3>3, <3>6 DEF Fetched, InMongo
  <2> QED
    BY <2>1, <2>2
<1>16. \A v \in Requests : Fetched(v)'
  <2>1. \A v \in Requests \ {u} : Fetched(v)'
    BY <1>8, <1>12, FetchedKeeps
  <2> QED
    BY <1>15, <2>1
<1>17. Ahead'
  <2>1. \A v \in Requests : request'[v].at \in Counts => request[v].at \in Counts
    BY <1>1, <1>12 DEF Counts
  <2>2. \A v \in Requests : request[v].at = "gc" => request'[v].at = "gc"
    BY <1>1, <1>12
  <2> QED
    BY <1>1, <2>1, <2>2 DEF Alive, Live, Ahead
<1>18. Through' /\ PageRead' /\ PageCopied'
  BY <1>1, <1>11, StillLive DEF Alive
<1> QED
  BY <1>8, <1>11, <1>13, <1>14, <1>16, <1>17, <1>18 DEF Live

LEMMA DropCopiesLive ==
  ASSUME Alive, NEW u \in Requests, Restores(u), DropCopies(u)
  PROVE  Live'
<1> DEFINE r == [request[u] EXCEPT !.at = "flip"]
<1>1. /\ request[u].at = "gc" /\ ColdDelete("leave") /\ Become(u, r)
      /\ UNCHANGED <<world, mongo, latest, bot, archiver, cron, archives>>
  BY DEF Restores, DropCopies, Goes
<1>2. r.at = "flip" /\ request'[u] = r /\ request[u].at # "idle"
      /\ \A v \in Requests \ {u} : request'[v] = request[v]
  BY <1>1, RequestMoves DEF Alive, Shape, RequestShape
<1> HIDE DEF r
<1>3. InMongo(Rows) /\ ~bot.coldArchived
  BY <1>1 DEF Alive, Live, Fetched, Marked, Unmarked
<1>4. /\ RowsKept' /\ \A s \in Rows : cold'[s] \in {0, cold[s]}
      /\ late' > 0 => late > 0 \/ "late" \in world.broken
  BY <1>1, <1>3, DropKeeps
<1>5. /\ Turns' /\ archiver.at = "idle" /\ archives # 0
  BY <1>1, <1>2, RestoreTurns DEF Alive, Live, Marked, Outside
<1>6. Marked'
  BY <1>1, <1>3, <1>5 DEF Marked
<1>7. Loaded'
  <2>1. late' > 0 => archives >= world.archives
    BY <1>4, <1>5, LateOnlyOnce DEF Alive, Live, Loaded
  <2> QED
    BY <1>1, <1>3, <1>5, <2>1 DEF Loaded, InMongo
<1>8. \A v \in Requests : Fetched(v)'
  BY <1>1, <1>2 DEF Alive, Live, Fetched, InMongo
<1>9. Ahead'
  <2>1. CASE cold' = Nothing
    BY <2>1 DEF Ahead, Nothing
  <2>2. CASE "leave" \in world.broken \/ "late" \in world.broken
    BY <1>2, <2>2, OneRequest DEF Ahead, Counts
  <2> QED
    BY <1>1, <2>1, <2>2 DEF ColdDelete, Fails
<1>10. Through' /\ PageRead' /\ PageCopied'
  BY <1>1, <1>5, StillLive DEF Alive
<1> QED
  BY <1>4, <1>5, <1>6, <1>7, <1>8, <1>9, <1>10 DEF Live

LEMMA RestoringLive ==
  ASSUME Alive, NEW u \in Requests, AskForItBack(u) \/ Restores(u)
  PROVE  Live'
BY AskForItBackLive, LookLive, EnterLive, CopyPageLive, VerifyLive,
   ClearFlagLive, DropCopiesLive, FlipLive DEF Restores, Restoring

-----------------------------------------------------------------------------
(* Archiving *)

\* The archiver works alone.
LEMMA ArchiverAlone ==
  ASSUME Alive, archiver.at # "idle"
  PROVE  /\ bot.status = "archive" /\ cron.at = "idle" /\ NobodyUnarchives
         /\ ~bot.coldArchived /\ ~(late > 0) /\ archives # 0
<1>1. bot.status = "archive" /\ cron.at = "idle" /\ NobodyUnarchives
  BY DEF Alive, Live, Turns
<1>2. ~bot.coldArchived /\ archives # 0
  BY <1>1 DEF Alive, Live, Marked, Unmarked
<1>3. ~(late > 0)
  BY DEF Alive, Live, Loaded
<1> QED
  BY <1>1, <1>2, <1>3

\* Its steps keep Live when they keep what they are about.
LEMMA ArchiverGoes ==
  ASSUME Alive, archiver.at # "idle", Archives,
         UNCHANGED <<world, bot, latest, late, request, cron, archives>>,
         archiver'.at = "idle" => "archive" \in world.broken,
         RowsKept', Through', PageRead', PageCopied'
  PROVE  Live'
<1>1. Turns'
  BY ArchiverAlone DEF Alive, Live, Turns, NobodyUnarchives, Rehydrating
<1>2. Marked'
  BY ArchiverAlone DEF Marked
<1>3. Loaded'
  BY ArchiverAlone DEF Loaded
<1>4. \A u \in Requests : Fetched(u)'
  BY ArchiverAlone DEF Alive, Live, Fetched, NobodyUnarchives
<1>5. Ahead'
  BY ArchiverAlone, StillLive DEF Alive, NobodyUnarchives
<1> QED
  BY <1>1, <1>2, <1>3, <1>4, <1>5 DEF Live

LEMMA GiveUpIdle ==
  ASSUME GiveUp, Live
  PROVE  archiver'.at = "idle" /\ Through' /\ PageRead' /\ PageCopied'
BY RestTypes, StillLive DEF GiveUp

LEMMA ReadPageLive ==
  ASSUME Alive, Archives, ReadPage
  PROVE  Live'
<1>1. /\ archiver.at = "read"
      /\ UNCHANGED <<world, bot, mongo, cold, latest, late, request, cron, archives>>
  BY DEF Archives, ReadPage, data
<1>2. RowsKept'
  BY <1>1, StillLive DEF Alive
<1>3. /\ archiver.table \in Tables /\ archiver.last \in Nat
      /\ \A r \in Rows : mongo[r] \in Nat /\ r \in Nat
  BY RowsAreNat, BoundsAssumption
     DEF Alive, Shape, StoresShape, ArchiverShape, Contents
<1>4. CASE Fails("archive") /\ GiveUp
  BY <1>1, <1>2, <1>4, GiveUpIdle, ArchiverGoes DEF Fails, Alive
<1>5. CASE LeftRows # {} /\ ~(Fails("archive") /\ GiveUp)
  <2> DEFINE page == Only(mongo, PageOf(LeftRows))
  <2>1. archiver' = [archiver EXCEPT !.at = "insert", !.page = page]
    BY <1>5 DEF ReadPage, LeftRows
  <2>2. /\ Has(page) = PageOf(LeftRows) /\ Has(page) # {}
        /\ \A r \in Rows : page[r] = IF r \in PageOf(LeftRows) THEN mongo[r] ELSE 0
    BY <1>5, PageFacts DEF Alive, Only
  <2> HIDE DEF page
  <2>3. archiver'.at = "insert" /\ archiver'.page = page
        /\ archiver'.table = archiver.table /\ archiver'.last = archiver.last
    BY <2>1 DEF Alive, Shape, ArchiverShape
  <2>4. Through'
    BY <1>1, <2>3, Zenon DEF Alive, Live, Through
  <2>5. LeftRows \in SUBSET Nat /\ IsFiniteSet(LeftRows)
        /\ TableRows[archiver.table] \subseteq Rows
    <3>1. LeftRows \subseteq Rows /\ TableRows[archiver.table] \subseteq Rows
      BY <1>3, RowFacts DEF LeftRows
    <3> QED
      BY <3>1, RowFacts, FS_Subset
  <2>6. ASSUME NEW r \in TableRows[archiver.table], mongo[r] > 0,
               NEW s \in PageOf(LeftRows), r <= s
        PROVE  page[r] = mongo[r]
    <3>1. r \in LeftRows
      <4>1. r <= archiver.last => mongo[r] = 0
        BY <1>1 DEF Alive, Live, Through
      <4> QED
        BY <1>3, <2>5, <2>6, <4>1 DEF LeftRows
    <3> QED
      BY <2>2, <2>5, <2>6, <3>1, PageIsPrefix
  <2>7. \A r \in Rows : page[r] \in {0, mongo[r]}
    BY <2>2
  <2>8. PageRead' /\ PageCopied'
    BY <1>1, <2>2, <2>3, <2>6, <2>7 DEF PageRead, PageCopied
  <2> QED
    BY <1>1, <1>2, <2>3, <2>4, <2>8, ArchiverGoes
<1>6. CASE LeftRows = {} /\ ~(Fails("archive") /\ GiveUp)
  <2>1. \/ archiver.table = "orders" /\ archiver' = Before("read", "transactions")
        \/ archiver.table = "transactions" /\ archiver' = Before("mark", "orders")
    BY <1>3, <1>6 DEF ReadPage, LeftRows, Tables
  <2>2. \A r \in TableRows[archiver.table] : mongo[r] = 0
    <3> SUFFICES ASSUME NEW r \in TableRows[archiver.table] PROVE mongo[r] = 0
      OBVIOUS
    <3>1. r \in Rows
      BY <1>3, RowFacts
    <3>2. r <= archiver.last => mongo[r] = 0
      BY <1>1 DEF Alive, Live, Through
    <3>3. ~(mongo[r] > 0 /\ r > archiver.last)
      BY <1>6 DEF LeftRows
    <3> QED
      BY <1>3, <3>1, <3>2, <3>3
  <2>3. CASE archiver.table = "orders"
    <3>1. archiver'.at = "read" /\ archiver'.table = "transactions" /\ archiver'.last = 0
      BY <2>1, <2>3 DEF Before
    <3>2. \A r \in TableRows[archiver'.table] : ~(r <= archiver'.last)
      BY <3>1, RowFacts, RowsAreNat
    <3>3. \A r \in Orders : mongo'[r] = 0
      BY <1>1, <2>2, <2>3, RowFacts
    <3>4. Through'
      BY <3>1, <3>2, <3>3 DEF Through
    <3> QED
      BY <1>1, <1>2, <3>1, <3>4, ArchiverGoes DEF PageRead, PageCopied, HasPage
  <2>4. CASE archiver.table = "transactions"
    <3>1. archiver'.at = "mark" /\ archiver'.table = "orders"
      BY <2>1, <2>4 DEF Before
    <3>2. \A r \in Orders : mongo[r] = 0
      BY <1>1, <2>4 DEF Alive, Live, Through
    <3>3. \A r \in Rows : mongo'[r] = 0
      BY <1>1, <2>2, <2>4, <3>2, RowFacts DEF Rows
    <3>4. Through'
      BY <3>1, <3>3 DEF Through
    <3> QED
      BY <1>1, <1>2, <3>1, <3>4, ArchiverGoes DEF PageRead, PageCopied, HasPage
  <2> QED
    BY <2>1, <2>3, <2>4
<1> QED
  BY <1>4, <1>5, <1>6

\* What the page is worth while the archiver has it.
LEMMA PageLatest ==
  ASSUME Alive, archiver.at \in HasPage
  PROVE  /\ archiver.page \in Contents
         /\ \A r \in Rows : /\ {mongo[r], cold[r], latest[r], archiver.page[r]} \subseteq Nat
                            /\ archiver.page[r] \in {0, latest[r]}
                            /\ archiver.page[r] \in {0, mongo[r]}
         /\ Has(archiver.page) \subseteq Rows
         /\ Has(archiver.page) \subseteq Spanned(archiver.page)
<1>1. archiver.page \in Contents
  BY DEF Alive, Shape, ArchiverShape
<1>2. \A r \in Rows : {mongo[r], cold[r], latest[r], archiver.page[r]} \subseteq Nat
  BY <1>1, BoundsAssumption DEF Alive, Shape, StoresShape, Contents
<1>3. \A r \in Rows : archiver.page[r] \in {0, mongo[r]}
  BY DEF Alive, Live, PageRead
<1>4. \A r \in Rows : archiver.page[r] \in {0, latest[r]}
  BY <1>3 DEF Alive, Live, RowsKept
<1>5. Has(archiver.page) \subseteq Rows
  BY HasRows
<1>6. Has(archiver.page) \subseteq Spanned(archiver.page)
  <2>1. Has(archiver.page) \subseteq TableRows[archiver.table]
    BY DEF Alive, Shape, ArchiverShape
  <2>2. \A r \in Has(archiver.page) : r <= r
    BY <1>5, RowsAreNat
  <2> QED
    BY <2>1, <2>2 DEF Spanned
<1> QED
  BY <1>1, <1>2, <1>3, <1>4, <1>5, <1>6

LEMMA InsertPageLive ==
  ASSUME Alive, Archives, InsertPage
  PROVE  Live'
<1>1. /\ archiver.at = "insert"
      /\ UNCHANGED <<world, bot, mongo, latest, late, request, cron, archives>>
      /\ cold' \in {cold, Over(cold, archiver.page)}
  BY DEF Archives, InsertPage
<1>2. archiver.at \in HasPage
  BY <1>1 DEF HasPage
<1>3. \A r \in Rows : Over(cold, archiver.page)[r]
                       = IF archiver.page[r] > 0 THEN archiver.page[r] ELSE cold[r]
  BY DEF Over
<1>4. \A r \in Rows : cold'[r] = cold[r] \/ (archiver.page[r] > 0 /\ cold'[r] = latest[r])
  BY <1>1, <1>2, <1>3, PageLatest
<1>5. RowsKept'
  BY <1>1, <1>2, <1>4, PageLatest DEF Alive, Live, RowsKept
<1>6. CASE Fails("archive") /\ GiveUp
  BY <1>1, <1>5, <1>6, GiveUpIdle, ArchiverGoes DEF Fails, Alive
<1>7. CASE ~(Fails("archive") /\ GiveUp)
  <2>1. /\ cold' = Over(cold, archiver.page)
        /\ archiver' = [archiver EXCEPT !.at = "count"]
    BY <1>7 DEF InsertPage
  <2>2. archiver'.at = "count" /\ archiver'.page = archiver.page
        /\ archiver'.table = archiver.table /\ archiver'.last = archiver.last
    BY <2>1 DEF Alive, Shape, ArchiverShape
  <2>3. Through'
    BY <1>1, <2>2, Zenon DEF Alive, Live, Through
  <2>4. PageRead'
    BY <1>1, <1>2, <2>2, Zenon DEF Alive, Live, PageRead, Has
  <2>5. PageCopied'
    BY <1>3, <2>1, <2>2 DEF PageCopied, Has
  <2> QED
    BY <1>1, <1>5, <2>2, <2>3, <2>4, <2>5, ArchiverGoes
<1> QED
  BY <1>6, <1>7

\* The count finds the page: a copy is only given up when a call failed.
LEMMA PageIsCounted ==
  ASSUME Alive, archiver.at = "count"
  PROVE  Copied
<1> DEFINE there == Has(cold) \cap Spanned(archiver.page)
<1>1. archiver.at \in HasPage
  BY DEF HasPage
<1>2. \A r \in Has(archiver.page) : cold[r] = archiver.page[r]
  BY DEF Alive, Live, PageCopied
<1>3. Has(archiver.page) \subseteq there
  BY <1>1, <1>2, PageLatest DEF Has
<1>4. IsFiniteSet(there)
  <2>1. there \subseteq Rows
    BY HasRows
  <2> QED
    BY <2>1, RowFacts, FS_Subset
<1>5. Cardinality(Has(archiver.page)) <= Cardinality(there)
  BY <1>3, <1>4, FS_Subset
<1>6. Cardinality(Has(archiver.page)) \in Nat /\ Cardinality(there) \in Nat
  BY <1>3, <1>4, FS_Subset, FS_CardinalityType
<1>7. Cardinality(there) >= Cardinality(Has(archiver.page))
  <2> HIDE DEF there
  <2> QED
    BY <1>5, <1>6
<1> QED
  BY <1>7 DEF Copied

LEMMA CountPageLive ==
  ASSUME Alive, Archives, CountPage
  PROVE  Live'
<1>1. /\ archiver.at = "count"
      /\ UNCHANGED <<world, bot, mongo, cold, latest, late, request, cron, archives>>
  BY DEF Archives, CountPage, data
<1>2. RowsKept'
  BY <1>1, StillLive DEF Alive
<1>3. CASE Fails("archive") /\ GiveUp
  BY <1>1, <1>2, <1>3, GiveUpIdle, ArchiverGoes DEF Fails, Alive
<1>4. CASE ~(Fails("archive") /\ GiveUp)
  <2>1. archiver' = [archiver EXCEPT !.at = "delete"]
    BY <1>1, <1>4, PageIsCounted DEF CountPage
  <2>2. archiver'.at = "delete" /\ archiver'.page = archiver.page
        /\ archiver'.table = archiver.table /\ archiver'.last = archiver.last
    BY <2>1 DEF Alive, Shape, ArchiverShape
  <2>3. Through'
    BY <1>1, <2>2, Zenon DEF Alive, Live, Through
  <2>4. archiver.at \in HasPage
    BY <1>1 DEF HasPage
  <2>5. PageRead'
    BY <1>1, <2>2, <2>4, Zenon DEF Alive, Live, PageRead, Has
  <2>6. PageCopied'
    BY <1>1, <2>2, Zenon DEF Alive, Live, PageCopied, Has
  <2> QED
    BY <1>1, <1>2, <2>2, <2>3, <2>5, <2>6, ArchiverGoes
<1> QED
  BY <1>3, <1>4

\* What the delete takes from Mongo is in the page, and so in the cold store.
LEMMA DeletePageLive ==
  ASSUME Alive, Archives, DeletePage
  PROVE  Live'
<1> DEFINE page == archiver.page
           gone == Spanned(page)
           end == CHOOSE r \in Has(page) : \A s \in Has(page) : s <= r
<1>1. /\ archiver.at = "delete" /\ archiver.at \in HasPage
      /\ UNCHANGED <<world, bot, cold, latest, late, request, cron, archives>>
      /\ mongo' \in {mongo, Without(mongo, gone)}
  BY DEF Archives, DeletePage, HasPage
<1>2. \A r \in Rows : Without(mongo, gone)[r] = IF r \in gone THEN 0 ELSE mongo[r]
  BY DEF Without
<1>3. /\ archiver.table \in Tables /\ archiver.last \in Nat
      /\ TableRows[archiver.table] \subseteq Rows
  BY RowFacts DEF Alive, Shape, ArchiverShape
<1>4. ASSUME NEW r \in gone PROVE mongo[r] > 0 => cold[r] = latest[r]
  <2> SUFFICES ASSUME mongo[r] > 0 PROVE cold[r] = latest[r]
    OBVIOUS
  <2>1. r \in TableRows[archiver.table] /\ r \in Rows
        /\ \E s \in Has(page) : r <= s
    BY <1>3 DEF Spanned
  <2>2. page[r] = mongo[r]
    BY <1>1, <2>1 DEF Alive, Live, PageRead
  <2>3. r \in Has(page)
    BY <2>1, <2>2 DEF Has
  <2>4. cold[r] = page[r]
    BY <1>1, <2>3 DEF Alive, Live, PageCopied
  <2>5. page[r] \in {0, latest[r]} /\ mongo[r] \in Nat
    BY <1>1, <2>1, PageLatest
  <2> QED
    BY <2>2, <2>4, <2>5
<1>5. \A r \in Rows : \/ mongo'[r] = mongo[r]
                      \/ mongo'[r] = 0 /\ (mongo[r] > 0 => cold[r] = latest[r])
  BY <1>1, <1>2, <1>4
<1>6. RowsKept'
  BY <1>1, <1>5, PageLatest DEF Alive, Live, RowsKept
<1>7. CASE Fails("archive") /\ GiveUp
  BY <1>1, <1>6, <1>7, GiveUpIdle, ArchiverGoes DEF Fails, Alive
<1>8. CASE ~(Fails("archive") /\ GiveUp)
  <2>1. /\ mongo' = Without(mongo, gone)
        /\ archiver' = [archiver EXCEPT !.at = "read", !.last = end, !.page = Nothing]
    BY <1>8 DEF DeletePage
  <2>2. end \in Has(page) /\ end \in Rows /\ \A s \in Has(page) : s <= end
    <3>1. Has(page) # {} /\ Has(page) \in SUBSET Nat /\ IsFiniteSet(Has(page))
          /\ Has(page) \subseteq Rows
      <4>1. Has(page) \subseteq Rows /\ Has(page) # {}
        BY <1>1, HasRows DEF Alive, Shape, ArchiverShape
      <4> QED
        BY <4>1, RowFacts, FS_Subset
    <3> QED
      BY <3>1, LargestOf
  <2> HIDE DEF end
  <2>3. archiver'.at = "read" /\ archiver'.last = end
        /\ archiver'.table = archiver.table
    BY <2>1 DEF Alive, Shape, ArchiverShape
  <2>4. \A r \in Rows : mongo[r] = 0 => mongo'[r] = 0
    BY <1>2, <2>1
  <2>5. ASSUME NEW r \in TableRows[archiver.table], r <= end PROVE mongo'[r] = 0
    <3>1. r \in Rows /\ mongo[r] \in Nat
      BY <1>1, <1>3, PageLatest
    <3>2. CASE mongo[r] = 0
      BY <2>4, <3>1, <3>2
    <3>3. CASE mongo[r] > 0
      <4>1. page[r] = mongo[r]
        BY <1>1, <2>2, <2>5, <3>1, <3>3 DEF Alive, Live, PageRead
      <4>2. r \in Has(page)
        BY <3>1, <3>3, <4>1 DEF Has
      <4>3. r \in gone
        BY <1>1, <4>2, PageLatest
      <4> QED
        BY <1>2, <2>1, <3>1, <4>3
    <3> QED
      BY <3>1, <3>2, <3>3
  <2>6. archiver.table = "transactions" => \A r \in Orders : mongo'[r] = 0
    BY <1>1, <2>4, RowFacts DEF Alive, Live, Through
  <2>7. Through'
    BY <2>3, <2>5, <2>6 DEF Through
  <2> QED
    BY <1>1, <1>6, <2>3, <2>7, ArchiverGoes DEF PageRead, PageCopied, HasPage
<1> QED
  BY <1>7, <1>8

\* The flag is set when Mongo has nothing left.
LEMMA MarkColdLive ==
  ASSUME Alive, Archives, MarkCold
  PROVE  Live'
<1>1. /\ archiver.at = "mark" /\ GiveUp
      /\ UNCHANGED <<world, mongo, cold, latest, late, request, cron, archives>>
      /\ \/ bot' = bot /\ Fails("archive")
         \/ bot' = [bot EXCEPT !.coldArchived = TRUE]
  BY DEF Archives, MarkCold, Routed, Alive, Live, Turns
<1>2. archiver'.at = "idle" /\ RowsKept' /\ Through' /\ PageRead' /\ PageCopied'
  BY <1>1, GiveUpIdle, StillLive DEF Alive
<1>3. /\ bot'.status = bot.status
      /\ bot'.coldArchived \/ "archive" \in world.broken
  BY <1>1 DEF Alive, Shape, BotShape, Fails
<1>4. \A r \in Rows : cold[r] = latest[r]
  <2>1. \A r \in Rows : mongo[r] = 0
    BY <1>1 DEF Alive, Live, Through
  <2>2. \A r \in Rows : cold[r] \in Nat /\ latest[r] \in Nat
    BY BoundsAssumption DEF Alive, Shape, StoresShape, Contents
  <2> QED
    BY <2>1, <2>2 DEF Alive, Live, RowsKept
<1>5. Turns'
  BY <1>1, <1>2, <1>3, ArchiverAlone DEF Alive, Live, Turns, NobodyUnarchives, Rehydrating
<1>6. Marked'
  <2>1. /\ bot'.status = "archive" /\ cron'.at = "idle" /\ ~(late' > 0) /\ archives' # 0
        /\ \A u \in Requests : request'[u].at = "idle"
    BY <1>1, <1>3, ArchiverAlone DEF NobodyUnarchives
  <2>2. ~Unmarked'
    BY <1>2, <2>1 DEF Unmarked
  <2> QED
    BY <1>1, <1>4, <2>1, <2>2 DEF Marked
<1>7. Loaded'
  BY <1>1, <1>3, ArchiverAlone DEF Loaded
<1>8. \A u \in Requests : Fetched(u)'
  BY <1>1, StillLive DEF Alive
<1>9. Ahead'
  BY <1>1, ArchiverAlone, StillLive DEF Alive, NobodyUnarchives
<1> QED
  BY <1>2, <1>5, <1>6, <1>7, <1>8, <1>9 DEF Live

-----------------------------------------------------------------------------
(* The theorems *)

LEMMA InitLive == Init => Live
<1> SUFFICES ASSUME Init PROVE Live
  OBVIOUS
<1>1. /\ mongo = latest /\ cold = Nothing /\ late = 0 /\ archives = 0
      /\ bot.status = "closed" /\ ~bot.coldArchived
      /\ archiver.at = "idle" /\ cron.at = "idle"
      /\ \A u \in Requests : request[u] = Answered
  BY RestTypes DEF Init, InitStores, CronRest
<1>2. \A r \in Rows : latest[r] \in Nat /\ mongo[r] = latest[r] /\ cold[r] = 0
  BY <1>1 DEF Init, InitStores, Nothing
<1>3. \A u \in Requests : request[u].at = "idle" /\ ~Rehydrating(u)
  BY <1>1, RestTypes DEF Rehydrating
<1>4. RowsKept
  BY <1>2 DEF RowsKept
<1>5. Turns /\ Marked /\ Ahead
  BY <1>1, <1>2, <1>3 DEF Turns, Marked, NobodyUnarchives, Purges, Outside, Ahead, Counts
<1>6. Loaded
  BY <1>1, <1>2 DEF Loaded, InMongo
<1>7. \A u \in Requests : Fetched(u)
  BY <1>1 DEF Fetched, Answered
<1>8. Through /\ PageRead /\ PageCopied
  BY <1>1 DEF Through, PageRead, PageCopied, HasPage
<1> QED
  BY <1>4, <1>5, <1>6, <1>7, <1>8 DEF Live

\* A bot that is deleted stays so, whoever moves.
LEMMA DeletedStays ==
  ASSUME Shape, Next, bot.isDeleted
  PROVE  bot'.isDeleted
<1>1. bot' = bot \/ bot'.isDeleted = bot.isDeleted \/ bot'.isDeleted
  <2>1. CASE Archive \/ StartBot \/ StopBot \/ Delete \/ Crash
    BY <2>1 DEF Archive, StartBot, StopBot, Delete, Crash, data, Shape, BotShape
  <2>2. ASSUME NEW r \in Rows, Write(r) PROVE bot' = bot
    BY <2>2 DEF Write
  <2>3. ASSUME NEW u \in Requests, AskForItBack(u) \/ Restores(u)
        PROVE  bot' = bot \/ bot'.isDeleted = bot.isDeleted
    BY <2>3 DEF AskForItBack, Restores, Unarchive, Restoring, Look, Enter,
       CopyPage, Verify, ClearFlag, DropCopies, Flip, Reopened, stores, data,
       Shape, BotShape
  <2>4. CASE Archives
    BY <2>4 DEF Archives, Archiving, ReadPage, InsertPage, CountPage, DeletePage,
       MarkCold, Routed, data, Shape, BotShape
  <2>5. CASE StartsSweep \/ Sweeps \/ LateArrives
    BY <2>5 DEF StartsSweep, CronStart, Sweeps, CronJob, PurgeCold, PurgeMongo,
       PurgeRows, PurgeBot, ListBots, ReadFlags, DropOrphans, LateArrives, LateDelete,
       stores, data,
       Shape, BotShape
  <2> QED
    BY <2>1, <2>2, <2>3, <2>4, <2>5 DEF Next
<1> QED
  BY <1>1

LEMMA StepLive ==
  ASSUME Alive, [Next]_vars
  PROVE  bot'.isDeleted \/ Live'
<1>1. CASE UNCHANGED vars
  BY <1>1, StillLive DEF Alive, Live, vars, stores, data
<1>2. CASE Delete
  <2>1. bot'.isDeleted
    BY <1>2 DEF Delete, Alive, Shape, BotShape
  <2> QED
    BY <2>1
<1>3. CASE Archive \/ StartBot \/ StopBot \/ Crash
  BY <1>3, ArchiveLive, StartStopLive, CrashLive
<1>4. ASSUME NEW r \in Rows, Write(r) PROVE Live'
  BY <1>4, WriteLive
<1>5. ASSUME NEW u \in Requests, AskForItBack(u) \/ Restores(u) PROVE Live'
  BY <1>5, RestoringLive
<1>6. CASE Archives
  BY <1>6, ReadPageLive, InsertPageLive, CountPageLive, DeletePageLive, MarkColdLive
     DEF Archives, Archiving
<1>7. CASE StartsSweep \/ Sweeps \/ LateArrives
  BY <1>7, SweepStartsLive, SweepLive, LateArrivesLive
<1> QED
  BY <1>1, <1>2, <1>3, <1>4, <1>5, <1>6, <1>7 DEF Next

LEMMA WorldStays == [Next]_vars => world' = world
<1>1. CASE UNCHANGED vars
  BY <1>1 DEF vars, stores, data
<1>2. CASE Archive \/ StartBot \/ StopBot \/ Delete \/ Crash
  BY <1>2 DEF Archive, StartBot, StopBot, Delete, Crash, data
<1>3. ASSUME NEW r \in Rows, Write(r) PROVE world' = world
  BY <1>3 DEF Write
<1>4. ASSUME NEW u \in Requests, AskForItBack(u) \/ Restores(u) PROVE world' = world
  BY <1>4 DEF AskForItBack, Restores, Unarchive, Restoring, Look, Enter,
     CopyPage, Verify, ClearFlag, DropCopies, Flip, stores, data
<1>5. CASE Archives
  BY <1>5 DEF Archives, Archiving, ReadPage, InsertPage, CountPage, DeletePage,
     MarkCold, data
<1>6. CASE StartsSweep \/ Sweeps \/ LateArrives
  BY <1>6 DEF StartsSweep, CronStart, Sweeps, CronJob, PurgeCold, PurgeMongo,
     PurgeRows, PurgeBot, ListBots, ReadFlags, DropOrphans, LateArrives, LateDelete,
     stores, data
<1> QED
  BY <1>1, <1>2, <1>3, <1>4, <1>5, <1>6 DEF Next

LEMMA Invariance == Spec => []IInv
<1>1. Init => IInv
  BY InitTypes, InitLive DEF IInv
<1>2. IInv /\ [Next]_vars => IInv'
  <2> SUFFICES ASSUME IInv, [Next]_vars, SafeWorld(world)
               PROVE  Shape' /\ (bot'.isDeleted \/ Live')
    BY StepTypes, WorldStays DEF IInv
  <2>1. Shape'
    BY StepTypes DEF IInv
  <2>2. CASE bot.isDeleted
    <3>1. bot'.isDeleted
      BY <2>2, DeletedStays DEF IInv, vars, stores, data
    <3> QED
      BY <2>1, <3>1
  <2>3. CASE ~bot.isDeleted
    <3>1. Alive
      BY <2>3 DEF Alive, IInv
    <3> QED
      BY <2>1, <3>1, StepLive
  <2> QED
    BY <2>2, <2>3
<1> QED
  BY <1>1, <1>2, PTL DEF Spec

(***************************************************************************)
(* Whatever call of a copy, an un-archive request or a sweep fails, and    *)
(* whoever dies, each row of a bot nobody deleted is in one of the stores  *)
(* as it was last written, in a world that is safe. What such a world      *)
(* leaves out: whatever overlaps the archiver's job, a flag that cannot be *)
(* read, a sweep after a copy was given up, an archiving after a delete    *)
(* that is late, and two un-archive requests at once where a rehydration   *)
(* can leave the copies.                                                   *)
(***************************************************************************)
THEOREM NothingLostHolds == Spec => [](SafeWorld(world) => NothingLost)
<1>1. IInv => (SafeWorld(world) => NothingLost)
  BY DEF IInv, Live, RowsKept, NothingLost
<1> QED
  BY <1>1, Invariance, PTL

(***************************************************************************)
(* And it is where it is looked for in these worlds: all rows of a cold    *)
(* bot are in the cold store, and all rows of one that can run, or runs    *)
(* while another request is on its way, in Mongo when no copy was given    *)
(* up.                                                                     *)
(***************************************************************************)
THEOREM RoutedWholeHolds == Spec => [](SafeWorld(world) => RoutedWhole)
<1>1. IInv => (SafeWorld(world) => RoutedWhole)
  <2> SUFFICES ASSUME IInv, SafeWorld(world), ~bot.isDeleted PROVE RoutedWhole
    BY DEF RoutedWhole
  <2>1. mongo \in Contents /\ cold \in Contents /\ latest \in Contents
    BY DEF IInv, Shape, StoresShape
  <2>2. bot.coldArchived => cold = latest
    BY <2>1 DEF IInv, Live, Marked, Contents
  <2>3. ASSUME bot.status \in {"closed", "open"}, "archive" \notin world.broken
        PROVE  mongo = latest
    <3>1. archiver.at = "idle" /\ ~bot.coldArchived
      BY <2>3 DEF IInv, Live, Turns, Marked, Unmarked
    <3>2. InMongo(Rows)
      BY <2>3, <3>1 DEF IInv, Live, Loaded
    <3> QED
      BY <2>1, <3>2 DEF InMongo, Contents
  <2> QED
    BY <2>2, <2>3 DEF RoutedWhole
<1> QED
  BY <1>1, Invariance, PTL
=============================================================================
