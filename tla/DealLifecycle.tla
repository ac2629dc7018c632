--------------------------- MODULE DealLifecycle ----------------------------
(***************************************************************************)
(* The deals of a DCA bot from their base order to their close: fills,     *)
(* averaging by safety orders, close requests, new entries, the limit of   *)
(* the bot controller and stop() run as calls that interleave and wait for *)
(* each other's keys. Every entry order buys one coin.                     *)
(***************************************************************************)
EXTENDS DealCalls

NewDeal(how) ==
    [status |-> how, live |-> how # "none", stored |-> how,
     base |-> CASE how = "none" -> "none" [] how = "start" -> "resting" [] OTHER -> "done",
     tp |-> IF how = "open" THEN "resting" ELSE "none",
     so |-> [s \in SafetyOrders |->
               IF how = "open" /\ s \in world.ladder THEN "resting" ELSE "none"],
     tpQty |-> IF how = "open" THEN 1 ELSE 0,
     coins |-> IF how = "open" THEN 1 ELSE 0,     \* what the account holds
     ledger |-> IF how = "open" THEN 1 ELSE 0,    \* currentBalances
     sold |-> 0,                                  \* by take profits known filled
     closing |-> FALSE, profit |-> FALSE, booked |-> 0, closes |-> 0]

Init == /\ world \in Worlds
        /\ deal = [d \in Deals |-> NewDeal(world.deals[d])]
        /\ bot = [status |-> "open", afterTp |-> FALSE, pending |-> 0, gone |-> FALSE]
        /\ asked = {}
        /\ stack = [c \in Calls |-> << >>]
        /\ line = [k \in Keys |-> << >>]

Set(d, r) == deal' = [deal EXCEPT ![d] = r]
Booked(r) == [r EXCEPT !.booked = @ + 1, !.profit = TRUE]

-----------------------------------------------------------------------------
(* The venue and those who ask. *)

\* An order that rests executes; its report is on its way.
BaseFills(d) ==
    /\ ~bot.gone /\ "base" \in world.fills /\ deal[d].base = "resting"
    /\ Set(d, [deal[d] EXCEPT !.base = "filled", !.coins = @ + 1])
    /\ UNCHANGED <<world, bot, asked, stack, line>>

TpFills(d) ==
    /\ ~bot.gone /\ "tp" \in world.fills /\ deal[d].tp = "resting"
    /\ Set(d, [deal[d] EXCEPT !.tp = "filled", !.coins = @ - deal[d].tpQty])
    /\ UNCHANGED <<world, bot, asked, stack, line>>

SafetyOrderFills(d, s) ==
    /\ ~bot.gone /\ "so" \in world.fills /\ deal[d].so[s] = "resting"
    /\ Set(d, [deal[d] EXCEPT !.so[s] = "filled", !.coins = @ + 1])
    /\ UNCHANGED <<world, bot, asked, stack, line>>

\* The report of a filled order: processFilledOrder handles each order once.
Report(c) ==
    /\ c[1] \in {"base", "fill"} \cup SafetyOrders
    /\ ~bot.gone /\ Idle(c) /\ c \in Executed(c[2])
    /\ Step(c, <<Handler(c)>>, None)
    /\ Set(c[2], Known(c))
    /\ UNCHANGED <<world, bot, asked>>

\* A request reaches the bot: close a deal, stop, or a signal to open a deal.
Ask(c, how, f) ==
    /\ ~bot.gone /\ Idle(c) /\ <<c, how>> \in world.asks \ asked
    /\ asked' = asked \cup {<<c, how>>}
    /\ Step(c, <<f>>, None)
    /\ UNCHANGED <<world, deal, bot>>

AskClose(d, how) == Ask(<<"user", d>>, how, Frame("closeDealById", DealKey(d), d, how))
AskStop(how) == Ask(<<"stop", 0>>, how, StopFrame(how))

\* openNewDeal refuses at its entry while a stop is under way, and only there.
AskEntry(d) ==
    /\ deal[d].status = "none" /\ ~StopsInFlight
    /\ Ask(<<"entry", d>>, "entry", Frame("openNewDeal", NoKey, d, "entry"))

-----------------------------------------------------------------------------
(* What the deal's orders say of it. *)

\* getTPOrder: what the rows of the deal say it bought and did not sell.
Size(d) == (IF deal[d].base = "done" THEN 1 ELSE 0)
           + Cardinality({s \in SafetyOrders : deal[d].so[s] = "done"}) - deal[d].sold

\* A placement carries the size its caller read before it waited for the key.
Placing(d, how) == [Frame("placeOrders", DealKey(d), d, how) EXCEPT !.qty = Size(d)]

\* Faulty: only a deal that is closed counts, not one whose take profit filled.
FilledByStatus(d) == deal[d].status = "closed"

\* dealClosedByFilledTp
Filled(d) == deal[d].status = "closed" \/ deal[d].tp = "done"

WithoutLadder(r) ==
    [r EXCEPT !.so = [s \in SafetyOrders |-> IF @[s] = "resting" THEN "cancelled" ELSE @[s]]]

-----------------------------------------------------------------------------
(* startDeal: the base order is filled. *)

StartBegins(c) ==
    LET d == Top(c).deal
    IN /\ Runs(c, "startDeal", "begin")
       /\ Goto(c, IF deal[d].live /\ deal[d].status = "start" THEN "opens" ELSE "remainder")
       /\ UNCHANGED <<world, deal, bot, asked>>

\* After its awaits it opens the deal without a look at what became of it.
StartOpens(c) ==
    LET d == Top(c).deal
    IN /\ Runs(c, "startDeal", "opens")
       /\ Set(d, [deal[d] EXCEPT !.status = "open", !.stored = "open", !.ledger = 1])
       /\ Await(c, "placed", Placing(d, "ladder"))
       /\ UNCHANGED <<world, bot, asked>>

\* The base order of a deal that is over is sold, unless a take profit was placed.
\* A deal this call opened has a level complete: cancelled, it is not sold.
SellRemainder(c) ==
    LET d == Top(c).deal
        over == \/ Runs(c, "startDeal", "remainder") /\ deal[d].stored \in {"canceled", "closed"}
                \/ Runs(c, "startDeal", "placed") /\ deal[d].status = "closed"
    IN /\ Runs(c, "startDeal", "remainder") \/ Runs(c, "startDeal", "placed")
       /\ IF over /\ deal[d].tp = "none"
          THEN Set(d, [deal[d] EXCEPT !.coins = @ - 1])
          ELSE UNCHANGED deal
       /\ Return(c, FALSE)
       /\ UNCHANGED <<world, bot, asked>>

-----------------------------------------------------------------------------
(* placeOrders, under the key of the deal: a ladder, or a larger take profit. *)

PlaceBegins(c) ==
    LET d == Top(c).deal
    IN /\ Runs(c, "placeOrders", "begin")
       /\ CASE ~deal[d].live -> UNCHANGED deal /\ Return(c, FALSE)
            [] deal[d].live /\ Filled(d) -> Set(d, WithoutLadder(deal[d])) /\ Return(c, FALSE)
            [] OTHER -> UNCHANGED deal /\ Goto(c, Top(c).how)
       /\ UNCHANGED <<world, bot, asked>>

\* The safety orders go first.
PlaceLadder(c) ==
    LET d == Top(c).deal
    IN /\ Runs(c, "placeOrders", "ladder")
       /\ Set(d, [deal[d] EXCEPT !.so = [s \in SafetyOrders |->
                      IF s \in world.ladder THEN "resting" ELSE @[s]]])
       /\ Goto(c, "sends")
       /\ UNCHANGED <<world, bot, asked>>

\* A smaller take profit is cancelled; one that turns out to have filled is
\* handled, and nothing is placed.
PlaceCancels(c) ==
    LET d == Top(c).deal
    IN /\ Runs(c, "placeOrders", "resize")
       /\ CASE deal[d].tp = "filled" ->
                 /\ Set(d, Known(<<"fill", d>>))
                 /\ ReturnAnd(c, Just(<<"fill", d>>, Handler(<<"fill", d>>)))
            [] deal[d].tp = "resting" /\ deal[d].tpQty >= Top(c).qty ->
                 UNCHANGED deal /\ Return(c, FALSE)
            [] deal[d].tp = "resting" /\ deal[d].tpQty < Top(c).qty ->
                 Set(d, [deal[d] EXCEPT !.tp = "cancelled"]) /\ Goto(c, "sends")
            [] OTHER -> UNCHANGED deal /\ Goto(c, "sends")
       /\ UNCHANGED <<world, bot, asked>>

\* Looked at again before it is sent; the ladder of a deal that closed meanwhile
\* is pulled.
PlaceSends(c) ==
    LET d == Top(c).deal
    IN /\ Runs(c, "placeOrders", "sends")
       /\ CASE ~deal[d].live -> UNCHANGED deal
            [] deal[d].live /\ Filled(d) -> Set(d, WithoutLadder(deal[d]))
            [] OTHER -> Set(d, [deal[d] EXCEPT !.tp = "resting", !.tpQty = Top(c).qty])
       /\ Return(c, FALSE)
       /\ UNCHANGED <<world, bot, asked>>

-----------------------------------------------------------------------------
(* updateDeal: a safety order is filled. *)

\* The first thing it does, with no call in between, is to book the fill; one
\* of a deal that is over is sold instead.
LevelBooks(c) ==
    LET d == Top(c).deal
    IN /\ Runs(c, "updateDeal", "begin")
       /\ CASE deal[d].live /\ deal[d].status = "open" ->
                 Set(d, [deal[d] EXCEPT !.ledger = @ + 1]) /\ Goto(c, "sizes")
            [] ~deal[d].live \/ deal[d].status = "closed" ->
                 UNCHANGED deal /\ Goto(c, IF deal[d].live THEN "sells" ELSE "reads")
            [] OTHER -> UNCHANGED deal /\ Return(c, FALSE)
       /\ UNCHANGED <<world, bot, asked>>

LevelSizes(c) ==
    /\ Runs(c, "updateDeal", "sizes")
    /\ Await(c, "placed", Placing(Top(c).deal, "resize"))
    /\ UNCHANGED <<world, deal, bot, asked>>

LevelEnds(c) ==
    /\ Runs(c, "updateDeal", "placed")
    /\ Return(c, FALSE)
    /\ UNCHANGED <<world, deal, bot, asked>>

\* Faulty: a fill of a deal that left memory is not looked up.
LevelSellsOfKnown(c) ==
    LET d == Top(c).deal
    IN /\ Runs(c, "updateDeal", "sells") \/ Runs(c, "updateDeal", "reads")
       /\ IF Top(c).at = "sells" THEN Set(d, [deal[d] EXCEPT !.coins = @ - 1]) ELSE UNCHANGED deal
       /\ Return(c, FALSE)
       /\ UNCHANGED <<world, bot, asked>>

\* Every late fill is sold, of a deal that is gone if its row says closed (spec 112).
LevelSells(c) ==
    LET d == Top(c).deal
        sells == Top(c).at = "sells" \/ deal[d].stored = "closed"
    IN /\ Runs(c, "updateDeal", "sells") \/ Runs(c, "updateDeal", "reads")
       /\ IF sells THEN Set(d, [deal[d] EXCEPT !.coins = @ - 1]) ELSE UNCHANGED deal
       /\ Return(c, FALSE)
       /\ UNCHANGED <<world, bot, asked>>

-----------------------------------------------------------------------------
(* closeDeal: the deal is closed by a fill, or without an order. *)

CloseDealBegins(c) ==
    LET d == Top(c).deal
        mayClose == \/ deal[d].status = "open"
                    \/ deal[d].status = "canceled" /\ ~deal[d].profit /\ Top(c).how = "tp"
    IN /\ Runs(c, "closeDeal", "begin")
       /\ IF deal[d].live /\ mayClose THEN Goto(c, "settles") ELSE Return(c, FALSE)
       /\ UNCHANGED <<world, deal, bot, asked>>

CloseDealSettles(c) ==
    LET d == Top(c).deal
    IN /\ Runs(c, "closeDeal", "settles")
       /\ Set(d, IF Top(c).how = "tp" THEN [deal[d] EXCEPT !.closing = TRUE] ELSE deal[d])
       /\ Goto(c, IF Top(c).how = "tp" THEN "measures" ELSE "closes")
       /\ UNCHANGED <<world, bot, asked>>

\* What the take profit left of the ledger is sold before the deal is closed.
CloseDealMeasures(c) ==
    LET d == Top(c).deal
        remainder == deal[d].ledger - Top(c).qty
    IN /\ Runs(c, "closeDeal", "measures")
       /\ Set(d, IF remainder > 0 THEN [deal[d] EXCEPT !.coins = @ - remainder] ELSE deal[d])
       /\ Goto(c, IF remainder > 0 THEN "swept" ELSE "closes")
       /\ UNCHANGED <<world, bot, asked>>

CloseDealCloses(c) ==
    LET d == Top(c).deal
    IN /\ Runs(c, "closeDeal", "closes") \/ Runs(c, "closeDeal", "swept")
       /\ Set(d, [deal[d] EXCEPT !.status = "closed", !.ledger = @ - Top(c).qty])
       /\ Goto(c, IF Top(c).at = "swept" THEN "sweptBooks" ELSE "books")
       /\ UNCHANGED <<world, bot, asked>>

\* processDealClose, or the same for a caller that holds its key.
Release(d, own) ==
    Frame("processDealClose", IF own THEN NoKey ELSE ReleaseKey, d, "release")

\* What the ledger still holds is sold, unless a sweep was sent: then its
\* answer is booked, whatever the ledger says by now.
CloseDealBooks(c) ==
    LET d == Top(c).deal
        remainder == IF Top(c).at = "books" /\ Top(c).how = "tp" /\ deal[d].ledger > 0
                     THEN deal[d].ledger ELSE 0
    IN /\ Runs(c, "closeDeal", "books") \/ Runs(c, "closeDeal", "sweptBooks")
       /\ Set(d, Booked([deal[d] EXCEPT !.stored = deal[d].status, !.coins = @ - remainder]))
       /\ Await(c, "released", Release(d, FALSE))
       /\ UNCHANGED <<world, bot, asked>>

\* stop() is called and not awaited.
CloseDealEnds(c) ==
    /\ Runs(c, "closeDeal", "released")
    /\ IF Top(c).result THEN ReturnAnd(c, Just(After(c), StopFrame("none"))) ELSE Return(c, FALSE)
    /\ UNCHANGED <<world, deal, bot, asked>>

-----------------------------------------------------------------------------
(* closeDealById: the user, an indicator or a stop closes the deal. *)

CloseBegins(c) ==
    LET d == Top(c).deal
    IN /\ Runs(c, "closeDealById", "begin")
       /\ CASE ~deal[d].live ->
                 IF bot.afterTp /\ OpenDeals = {}
                 THEN ReturnAnd(c, Just(After(c), StopFrame("none"))) ELSE Return(c, FALSE)
            [] deal[d].live /\ (deal[d].status = "start" \/ Top(c).how = "cancel") ->
                 Goto(c, "cancels")
            [] deal[d].live /\ deal[d].status = "open" /\ Top(c).how # "cancel" ->
                 Goto(c, "sweeps")
            [] OTHER -> Return(c, FALSE)
       /\ UNCHANGED <<world, deal, bot, asked>>

\* After its await it cancels the deal without a look at what became of it.
CloseCancels(c) ==
    LET d == Top(c).deal
        cancelled == [deal[d] EXCEPT !.status = "canceled", !.stored = "canceled"]
    IN /\ Runs(c, "closeDealById", "cancels")
       /\ Set(d, IF deal[d].profit THEN Booked(cancelled) ELSE cancelled)
       /\ Await(c, "released", Release(d, Top(c).own))
       /\ UNCHANGED <<world, bot, asked>>

CloseReleased(c) ==
    LET d == Top(c).deal
    IN /\ Runs(c, "closeDealById", "released")
       /\ CASE Top(c).result -> Await(c, "stopped", StopFrame("none"))
            [] ~Top(c).result /\ deal[d].status = "open" -> Goto(c, "sweeps")
            [] OTHER -> Return(c, FALSE)
       /\ UNCHANGED <<world, deal, bot, asked>>

CloseStopped(c) ==
    /\ Runs(c, "closeDealById", "stopped")
    /\ Return(c, FALSE)
    /\ UNCHANGED <<world, deal, bot, asked>>

\* The deal's orders are cancelled; what executed is handled by itself.
CloseSweeps(c) ==
    LET d == Top(c).deal
    IN /\ Runs(c, "closeDealById", "sweeps")
       /\ Set(d, SweptDeal(deal[d]))
       /\ GotoAnd(c, IF deal[d].tp = "filled" THEN "sweptFilled" ELSE "swept", Handlers(d))
       /\ UNCHANGED <<world, bot, asked>>

\* closeSupersededByFill: only a fill the request's own sweep found counts.
CloseSupersededByFill(c) ==
    LET d == Top(c).deal
    IN \/ ~deal[d].live \/ deal[d].status # "open" \/ deal[d].closing
       \/ Top(c).at = "sweptFilled"

\* prepareTpOrder sizes the order by what the deal's take profits did not sell.
NothingToClose(d) == Size(d) <= 0

\* An open deal with nothing to close is closed before a fill is asked about.
ClosesEmpty(c) ==
    LET d == Top(c).deal
    IN /\ Runs(c, "closeDealById", "swept") \/ Runs(c, "closeDealById", "sweptFilled")
       /\ deal[d].live /\ deal[d].status = "open" /\ NothingToClose(d)

CloseGivesWay(c) ==
    /\ Runs(c, "closeDealById", "swept") \/ Runs(c, "closeDealById", "sweptFilled")
    /\ CloseSupersededByFill(c) /\ ~ClosesEmpty(c)
    /\ Return(c, FALSE)
    /\ UNCHANGED <<world, deal, bot, asked>>

\* The request sends its close order, and the venue answers.
CloseSends(c, answer) ==
    /\ answer \in world.answers
    /\ Runs(c, "closeDealById", "swept")
    /\ ~CloseSupersededByFill(c) /\ ~NothingToClose(Top(c).deal)

\* It executes at once: another take profit of the deal is filled.
CloseExecutes(c) ==
    LET d == Top(c).deal
    IN /\ CloseSends(c, "filled")
       /\ Set(d, [deal[d] EXCEPT !.tp = "done", !.coins = @ - Size(d), !.sold = @ + Size(d)])
       /\ ReturnAnd(c, Just(<<"sold", d>>, CloseByTp(d, Size(d))))
       /\ UNCHANGED <<world, bot, asked>>

\* With nothing to close, or when the venue knows of no position, the deal is
\* closed without an order.
CloseWithoutOrder(c) ==
    LET d == Top(c).deal
    IN /\ ClosesEmpty(c) \/ CloseSends(c, "flat")
       /\ Set(d, IF NothingToClose(d) THEN deal[d] ELSE [deal[d] EXCEPT !.coins = 0])
       /\ Await(c, "stopped", Frame("closeDeal", ClosingKey, d, "none"))
       /\ UNCHANGED <<world, bot, asked>>

\* Faulty: the take profit the request cancelled is not put back.
CloseGivesUp(c) ==
    /\ CloseSends(c, "refused")
    /\ Return(c, FALSE)
    /\ UNCHANGED <<world, deal, bot, asked>>

\* The venue refuses for good: the take profit is put back.
CloseRestores(c) ==
    LET d == Top(c).deal
    IN /\ CloseSends(c, "refused")
       /\ Set(d, IF deal[d].tp = "cancelled"
                 THEN [deal[d] EXCEPT !.tp = "resting", !.tpQty = Size(d)] ELSE deal[d])
       /\ Return(c, FALSE)
       /\ UNCHANGED <<world, bot, asked>>

-----------------------------------------------------------------------------
(* processDealClose: the deal leaves the bot, and the bot's limit is read. *)

\* Faulty: a deal that was released meanwhile is released again.
ReleaseRepeats(c) ==
    LET d == Top(c).deal
    IN /\ Runs(c, "processDealClose", "begin")
       /\ Set(d, [deal[d] EXCEPT !.closing = FALSE, !.live = FALSE, !.closes = @ + 1])
       /\ Goto(c, "sweeps")
       /\ UNCHANGED <<world, bot, asked>>

ReleaseBegins(c) ==
    LET d == Top(c).deal
    IN /\ Runs(c, "processDealClose", "begin")
       /\ Set(d, IF deal[d].live
                 THEN [deal[d] EXCEPT !.closing = FALSE, !.live = FALSE, !.closes = @ + 1]
                 ELSE [deal[d] EXCEPT !.closing = FALSE])
       /\ IF deal[d].live THEN Goto(c, "sweeps") ELSE Return(c, FALSE)
       /\ UNCHANGED <<world, bot, asked>>

ReleaseSweeps(c) ==
    LET d == Top(c).deal
    IN /\ Runs(c, "processDealClose", "sweeps")
       /\ Set(d, SweptDeal(deal[d]))
       /\ GotoAnd(c, "checks", Handlers(d))
       /\ UNCHANGED <<world, bot, asked>>

\* checkClosedDeals counts the stored rows.
LimitMet == /\ world.limit > 0
            /\ Cardinality({d \in Deals : deal[d].stored = "closed"}) >= world.limit

\* Faulty: the limit waits for the last deal.
StopsWhenEmpty == LimitMet /\ bot.status # "closed" /\ OpenDeals = {}

\* stopFromDealClose leaves it to a stop that still cancels start deals.
StopsFromClose == /\ LimitMet /\ bot.status # "closed"
                  /\ ~(StopsInFlight /\ \E d \in OpenDeals : deal[d].status = "start")

\* Faulty: the stop asks for the key its caller holds.
ReleaseChecksUnaware(c) ==
    LET seen == <<[Top(c) EXCEPT !.at = "ends", !.deals = OpenDeals]>> \o Tail(stack[c])
    IN /\ Runs(c, "processDealClose", "checks")
       /\ Step(c, IF StopsFromClose THEN <<StopFrame("leave")>> \o seen ELSE seen, None)
       /\ UNCHANGED <<world, deal, bot, asked>>

\* The deals that are open are taken before the limit is read, and the stop
\* it leads to is awaited with the key held.
ReleaseChecks(c) ==
    LET seen == <<[Top(c) EXCEPT !.at = "ends", !.deals = OpenDeals]>> \o Tail(stack[c])
        stop == [StopFrame("leave") EXCEPT !.own = TRUE]
    IN /\ Runs(c, "processDealClose", "checks")
       /\ Step(c, IF StopsFromClose THEN <<stop>> \o seen ELSE seen, None)
       /\ UNCHANGED <<world, deal, bot, asked>>

ReleaseEnds(c) ==
    /\ Runs(c, "processDealClose", "ends")
    /\ Return(c, bot.afterTp /\ Top(c).deals = {})
    /\ UNCHANGED <<world, deal, bot, asked>>

-----------------------------------------------------------------------------
(* stop: start deals are cancelled, open ones closed if the type says so. *)

\* Faulty: a stop that leaves its deals leaves the ones that start as well.
StopLeavesStarts(c) ==
    LET starts == {d \in Top(c).deals : deal[d].status = "start" /\ Top(c).how # "leave"}
    IN /\ Runs(c, "stop", "begin")
       /\ bot' = [bot EXCEPT !.afterTp = TRUE]
       /\ Step(c, <<[Top(c) EXCEPT !.at = "cancels", !.todo = starts]>> \o Tail(stack[c]), None)
       /\ UNCHANGED <<world, deal, asked>>

StopArms(c) ==
    LET starts == {d \in Top(c).deals : deal[d].status = "start"}
    IN /\ Runs(c, "stop", "begin")
       /\ bot' = [bot EXCEPT !.afterTp = TRUE]
       /\ Step(c, <<[Top(c) EXCEPT !.at = "cancels", !.todo = starts]>> \o Tail(stack[c]), None)
       /\ UNCHANGED <<world, deal, asked>>

\* One deal after the other, in the order they were opened.
First(S) == CHOOSE d \in S : \A e \in S : d <= e
StopAwaits(c, f) ==
    LET d == First(Top(c).todo)
    IN Step(c, <<f, [Top(c) EXCEPT !.todo = @ \ {d}]>> \o Tail(stack[c]), None)

StopCancels(c) ==
    LET d == First(Top(c).todo)
        cancel == [Frame("closeDealById", DealKey(d), d, "cancel") EXCEPT !.own = Top(c).own]
    IN /\ Runs(c, "stop", "cancels") /\ Top(c).todo # {}
       /\ StopAwaits(c, cancel)
       /\ UNCHANGED <<world, deal, bot, asked>>

StopChooses(c) ==
    LET open == {d \in Top(c).deals : Top(c).how \notin {"none", "leave"}
                                      /\ deal[d].status = "open"}
    IN /\ Runs(c, "stop", "cancels") /\ Top(c).todo = {}
       /\ Step(c, <<[Top(c) EXCEPT !.at = "closes", !.todo = open]>> \o Tail(stack[c]), None)
       /\ UNCHANGED <<world, deal, bot, asked>>

StopCloses(c) ==
    LET d == First(Top(c).todo)
    IN /\ Runs(c, "stop", "closes") /\ Top(c).todo # {}
       /\ StopAwaits(c, Frame("closeDealById", DealKey(d), d, Top(c).how))
       /\ UNCHANGED <<world, deal, bot, asked>>

\* Without a type, or with no deal to leave, the deals are dropped.
StopDrops(c) ==
    LET drops == Top(c).how = "none" \/ Top(c).deals = {}
    IN /\ Runs(c, "stop", "closes") /\ Top(c).todo = {}
       /\ deal' = [d \in Deals |-> IF drops THEN [deal[d] EXCEPT !.live = FALSE] ELSE deal[d]]
       /\ bot' = IF drops THEN [bot EXCEPT !.status = "closed"] ELSE bot
       /\ Goto(c, "ends")
       /\ UNCHANGED <<world, asked>>

\* A closed bot without deals is cleared and dropped: no report and no request
\* reaches it any more, its keys are free and whoever waited for one is lost.
StopEnds(c) ==
    LET drops == bot.status = "closed" /\ OpenDeals = {}
    IN /\ Runs(c, "stop", "ends")
       /\ bot' = [bot EXCEPT !.status = "closed", !.gone = @ \/ drops]
       /\ stack' = [stack EXCEPT ![c] = Returned(c, FALSE)]
       /\ line' = [k \in Keys |-> IF drops THEN << >> ELSE line[k]]
       /\ UNCHANGED <<world, deal, asked>>

-----------------------------------------------------------------------------
(* openNewDeal: a signal, or the reopening of a pair, opens a deal. *)

\* Faulty: what is about to be created is not counted.
EntryForgets(c) ==
    /\ Runs(c, "openNewDeal", "begin")
    /\ IF Cardinality(OpenDeals) < world.max THEN Goto(c, "counted") ELSE Return(c, FALSE)
    /\ UNCHANGED <<world, deal, bot, asked>>

\* checkMaxDeals counts what is open and what is pending.
EntryCounts(c) ==
    /\ Runs(c, "openNewDeal", "begin")
    /\ IF Cardinality(OpenDeals) + bot.pending < world.max
       THEN bot' = [bot EXCEPT !.pending = @ + 1] /\ Goto(c, "counted")
       ELSE UNCHANGED bot /\ Return(c, FALSE)
    /\ UNCHANGED <<world, deal, asked>>

ResetPending == [bot EXCEPT !.pending = IF @ > 0 THEN @ - 1 ELSE 0]

EntryReadsStatus(c) ==
    /\ Runs(c, "openNewDeal", "counted")
    /\ IF bot.status # "closed" THEN UNCHANGED bot /\ Goto(c, "creates")
                                ELSE bot' = ResetPending /\ Return(c, FALSE)
    /\ UNCHANGED <<world, deal, asked>>

CreateDeal(c) ==
    LET d == Top(c).deal
    IN /\ Runs(c, "openNewDeal", "creates")
       /\ Set(d, [deal[d] EXCEPT !.status = "start", !.stored = "start", !.live = TRUE])
       /\ bot' = ResetPending
       /\ Goto(c, "created")
       /\ UNCHANGED <<world, asked>>

EntryFindsDeal(c) ==
    LET d == Top(c).deal
    IN /\ Runs(c, "openNewDeal", "created")
       /\ IF deal[d].live THEN UNCHANGED bot /\ Goto(c, "sends")
                          ELSE bot' = ResetPending /\ Return(c, FALSE)
       /\ UNCHANGED <<world, deal, asked>>

\* Balances, prices and leverage are read in between; the deal is not looked at again.
EntrySends(c) ==
    LET d == Top(c).deal
    IN /\ Runs(c, "openNewDeal", "sends")
       /\ Set(d, [deal[d] EXCEPT !.base = "resting"])
       /\ Return(c, FALSE)
       /\ UNCHANGED <<world, bot, asked>>

-----------------------------------------------------------------------------
CallNext(c) ==
    \/ StartBegins(c) \/ StartOpens(c) \/ SellRemainder(c)
    \/ PlaceBegins(c) \/ PlaceLadder(c) \/ PlaceCancels(c) \/ PlaceSends(c)
    \/ LevelBooks(c) \/ LevelSizes(c) \/ LevelEnds(c) \/ LevelSells(c)
    \/ CloseDealBegins(c) \/ CloseDealSettles(c) \/ CloseDealMeasures(c) \/ CloseDealCloses(c)
    \/ CloseDealBooks(c) \/ CloseDealEnds(c)
    \/ CloseBegins(c) \/ CloseCancels(c) \/ CloseReleased(c) \/ CloseStopped(c)
    \/ CloseSweeps(c) \/ CloseGivesWay(c) \/ CloseExecutes(c) \/ CloseWithoutOrder(c)
    \/ CloseRestores(c)
    \/ ReleaseBegins(c) \/ ReleaseSweeps(c) \/ ReleaseChecks(c) \/ ReleaseEnds(c)
    \/ StopArms(c) \/ StopCancels(c) \/ StopChooses(c) \/ StopCloses(c)
    \/ StopDrops(c) \/ StopEnds(c)
    \/ EntryCounts(c) \/ EntryReadsStatus(c) \/ CreateDeal(c) \/ EntryFindsDeal(c)
    \/ EntrySends(c)

Hows == {"market", "cancel", "leave"}
Asks == \E how \in Hows : \/ AskStop(how)
                          \/ \E d \in Deals : AskClose(d, how) \/ AskEntry(d)

\* A fill whose key is free is booked before anything that waits for the venue
\* or the database goes on.
Urgent == {c \in Levels : Runs(c, "updateDeal", "begin")}
Turn(c) == Urgent = {} \/ c \in Urgent

Resume(c) == Report(c) \/ (~Idle(c) /\ Turn(c) /\ CallNext(c))

Next == \/ \E d \in Deals : \/ BaseFills(d) \/ TpFills(d)
                             \/ \E s \in SafetyOrders : SafetyOrderFills(d, s)
        \/ \E c \in Calls : Resume(c)
        \/ Asks

Spec == Init /\ [][Next]_dealVars

(***************************************************************************)
(* The event loop resumes every call that can go on, and the stream        *)
(* delivers its reports. No order need fill and nobody need ask. Requests  *)
(* are finitely many, so that it does not matter which call goes on first. *)
(***************************************************************************)
Fairness == WF_dealVars(\E c \in Calls : Resume(c))
FairSpec == Spec /\ Fairness

-----------------------------------------------------------------------------
Orders == {"none", "resting", "filled", "done", "cancelled"}
Statuses == {"none", "start", "open", "closed", "canceled"}

(***************************************************************************)
(* Every variable keeps to the values the code gives it, and whoever waits *)
(* for a key is a call.                                                    *)
(***************************************************************************)
TypeOK ==
    /\ world \in Worlds
    /\ deal \in [Deals -> [status : Statuses, live : BOOLEAN, stored : Statuses,
                           base : Orders, tp : Orders, so : [SafetyOrders -> Orders],
                           tpQty : Int, coins : Int, ledger : Int, sold : Int,
                           closing : BOOLEAN, profit : BOOLEAN, booked : Nat, closes : 0..1]]
    /\ bot \in [status : {"open", "closed"}, afterTp : BOOLEAN, pending : 0..world.max,
                gone : BOOLEAN]
    /\ asked \subseteq world.asks
    /\ \A k \in Keys : \A i \in DOMAIN line[k] : line[k][i][1] \in Calls
    /\ \A c \in Calls : \A i \in DOMAIN stack[c] : stack[c][i].key \in Keys \cup {NoKey}

(***************************************************************************)
(* A deal's profit is booked once, whatever fills and closes it at a time: *)
(* the bot's totals and the profit history are sums nobody recomputes. A   *)
(* cancel that queues behind the close books it again, asked by the user   *)
(* or by a stop that found the deal waiting for its base order; not        *)
(* claimed there.                                                          *)
(***************************************************************************)
CancelAsked == \E r \in asked : r[2] = "cancel"
SomeStart == \E d \in Deals : world.deals[d] = "start" \/ <<<<"entry", d>>, "entry">> \in asked
Stoppable == world.limit > 0 \/ \E r \in asked : r[1] = <<"stop", 0>>
MayCancel == CancelAsked \/ (SomeStart /\ Stoppable)
BookedOnce == ~MayCancel => \A d \in Deals : deal[d].booked <= 1

(***************************************************************************)
(* No deal sells more than it bought, though fills, close requests and the *)
(* sale of a late base order know little of each other (specs 112, 188).   *)
(***************************************************************************)
NeverOversold == \A d \in Deals : deal[d].coins >= 0

(***************************************************************************)
(* More deals than the limit are never open, however many signals arrive   *)
(* at once and whatever fills. A deal that is closed before it started     *)
(* leaves its place, and may open after another took it; not claimed there.*)
(***************************************************************************)
OnlySignals == world.limit = 0 /\ \A r \in asked : r[2] = "entry"
WithinMax == (SomeStart => OnlySignals) => Cardinality(OpenDeals) <= world.max

\* Nobody is in the middle of something.
Quiet == /\ \A c \in Calls : Idle(c) \/ ~Holds(c)
         /\ \A d \in Deals : Executed(d) = {}

(***************************************************************************)
(* Coins are covered: when nothing is under way, a deal that holds coins   *)
(* is in memory, open, and has a take profit of that size on the book; one *)
(* that left memory has no order there (specs 053, 083, 112, 160).         *)
(***************************************************************************)
Covered ==
    Quiet => \A d \in Deals :
        /\ deal[d].coins > 0 => /\ deal[d].live /\ deal[d].status = "open"
                                /\ deal[d].tp = "resting" /\ deal[d].tpQty = deal[d].coins
        /\ deal[d].status = "closed" => \A s \in SafetyOrders : deal[d].so[s] # "resting"

(***************************************************************************)
(* The same for a bot whose deals are all past their start and that nobody *)
(* cancels: fills, market closes, their refusals and stops in any order.   *)
(***************************************************************************)
CoveredOnceOpen == (~CancelAsked /\ ~SomeStart) => Covered

(***************************************************************************)
(* A stop that returns leaves none of the deals it found waiting for their *)
(* base order in start.                                                    *)
(***************************************************************************)
StopEndsStarts ==
    [][\A c \in Calls : StopEnds(c) =>
         \A d \in Top(c).deals : ~(deal[d].live /\ deal[d].status = "start")]_dealVars

(***************************************************************************)
(* Every close, fill and stop of the bot returns (spec 202): after the     *)
(* last of finitely many requests, nothing stays under way.                *)
(***************************************************************************)
CallsReturn == <>[](bot.gone \/ \A c \in Calls : Idle(c))

(***************************************************************************)
(* When as many deals are closed as the bot controller allows, the bot     *)
(* stops, whoever else stops it at the time.                               *)
(***************************************************************************)
LimitStops == LimitMet ~> bot.status = "closed"
=============================================================================
