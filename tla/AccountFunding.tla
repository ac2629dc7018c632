-------------------------- MODULE AccountFunding ---------------------------
(***************************************************************************)
(* The hedge legs that open on one exchange account and one pair, each of  *)
(* which is funded from the account's free balances under the account's    *)
(* funding lock: fundHedgeLegEntry and what follows it until the deal's    *)
(* orders rest at the venue (src/src/bot/dcaHelper.ts), the plan           *)
(* (baseFunding.ts) and what other deals hold (fundingReservation.ts).     *)
(*                                                                         *)
(* A leg needs one asset for its orders. If it is funded by the bot its    *)
(* base order is an entry on paper, backed by the other asset, and what    *)
(* its safety orders need and the account has not is traded for the other  *)
(* asset first. The price is 1 and there are no fees; a trade executes as  *)
(* a whole or not at all.                                                  *)
(***************************************************************************)
EXTENDS FundingLock, FiniteSets

CONSTANTS Legs,      \* what a leg can be: [need, mode, base, safety]
          Balances   \* the free balances to begin with

Assets == {"base", "quote"}
Other(x) == IF x = "base" THEN "quote" ELSE "base"

ASSUME SectionsAssumption == IsFiniteSet(Sections)
ASSUME LegsAssumption ==
    Legs \subseteq [need : Assets, mode : {"own", "diff", "all"},
                    base : Nat \ {0}, safety : Nat]
ASSUME BalancesAssumption == Balances \subseteq [Assets -> Nat]

VARIABLES
    legs,    \* the leg each deal opens
    free,    \* the free balances at the venue
    deals,   \* the stored deals: [status, entry, hold, pending]
    work,    \* what a call remembers: [at, seen, plan, out]
    trades,  \* the funding trade of each deal at the venue
    orders,  \* the deal's own orders
    strayed  \* what went on without the lease: a "trade", a "record" of no trade

fundingVars == <<legs, free, deals, work, trades, orders, strayed>>
vars == <<lockVars, fundingVars>>

Deals == Sections
Need(d) == legs[d].need
Spend(d) == Other(Need(d))
Holding == {"start", "open"}
Smaller(m, n) == IF m < n THEN m ELSE n
Minus(m, n) == IF m < n THEN 0 ELSE m - n

\* A sum, counted: every d has as many units of its own as f says.
Units(f) == UNION {{d} \X (1..f[d]) : d \in DOMAIN f}
Total(f) == Cardinality(Units(f))

NoBalances == [x \in Assets |-> 0]
Refusal == [kind |-> "refuse", entry |-> 0, hold |-> 0, trade |-> 0]
Memory(place, seen, plan, out) ==
    [at |-> place, seen |-> seen, plan |-> plan, out |-> out]
Blank == Memory("none", NoBalances, Refusal, "none")

Init ==
    /\ LockInit
    /\ legs \in [Deals -> Legs]
    /\ free \in Balances
    /\ deals = [d \in Deals |-> [status |-> "start", entry |-> 0, hold |-> 0,
                                 pending |-> 0]]
    /\ work = [d \in Deals |-> Blank]
    /\ trades = [d \in Deals |-> "none"]
    /\ orders = [d \in Deals |-> "none"]
    /\ strayed = {}

-----------------------------------------------------------------------------
(***************************************************************************)
(* What a deal reserves: the asset behind its entry until an order the     *)
(* entry pays for has a row, and the hold. (fundingReservation.ts)         *)
(***************************************************************************)
HasRows(d) == orders[d] # "none"

ReservedBy(d, x) ==
    IF deals[d].status \notin Holding THEN 0
    ELSE (IF x = Spend(d) /\ ~HasRows(d) THEN deals[d].entry ELSE 0)
         + (IF x = Need(d) THEN deals[d].hold ELSE 0)

\* Faulty: a deal whose trade is under way is not counted.
SettledOnly(d, x) ==
    Minus(Total([e \in {f \in Deals : deals[f].pending = 0} |-> ReservedBy(e, x)]),
          IF x = Need(d) THEN deals[d].hold ELSE 0)

ReservedFrom(d, x) ==
    Minus(Total([e \in Deals |-> ReservedBy(e, x)]),
          IF x = Need(d) THEN deals[d].hold ELSE 0)

(***************************************************************************)
(* planHedgeLegDealFunding: run on what the account has, fund the entry    *)
(* and trade for what is short, or refuse.                                 *)
(***************************************************************************)
\* Faulty: the entry's backing and the trade are not added up.
LargerOf(entry, trade) == IF entry < trade THEN trade ELSE entry

SpendNeeded(entry, trade) == entry + trade

PlanFor(leg, available) ==
    LET short == available[leg.need]
        other == available[Other(leg.need)]
        own == leg.base + leg.safety
        used == IF leg.mode = "diff" THEN Smaller(short, leg.safety) ELSE 0
        trade == leg.safety - used
    IN IF leg.mode = "own" \/ (leg.mode = "diff" /\ short >= own)
       THEN IF own > short THEN Refusal
            ELSE [kind |-> "held", entry |-> 0, hold |-> own, trade |-> 0]
       ELSE IF SpendNeeded(leg.base, trade) > other THEN Refusal
            ELSE [kind |-> "fund", entry |-> leg.base, hold |-> leg.safety,
                  trade |-> trade]

-----------------------------------------------------------------------------
At(d, place) == section[d] = "inside" /\ work[d].at = place
Goes(d, place) == work' = [work EXCEPT ![d].at = place]
Turns(d, memory) == work' = [work EXCEPT ![d] = memory]
Ends(d, out) == Turns(d, Memory("end", NoBalances, Refusal, out))
Finishes(d) == Turns(d, Memory("done", NoBalances, Refusal, "none"))
Retire(d) == deals' = [deals EXCEPT ![d].status = "closed"]

\* Faulty: a deal that is refused stays in start.
LeftInStart(d) == UNCHANGED deals /\ Ends(d, "refused")

Refuse(d) == Retire(d) /\ Ends(d, "refused")

AskFunding(d) ==
    /\ deals[d].status = "start"
    /\ Ask(d)
    /\ UNCHANGED fundingVars

Enter(d) ==
    /\ Take(d)
    /\ Goes(d, "read")
    /\ UNCHANGED <<legs, free, deals, trades, orders, strayed>>

NotAcquired(d) ==
    /\ Unavailable(d) \/ WaitOver(d)
    /\ UNCHANGED fundingVars

(***************************************************************************)
(* The balances are read first, for a deal that is still in start. The     *)
(* read and the placement of another deal's orders take turns, unless      *)
(* "placing": the rows of such orders are written before the venue has     *)
(* them, and the hold goes down after it, outside the lock.                *)
(***************************************************************************)
Calm(place) == "placing" \in wrong \/ \A e \in Deals : work[e].at # place

ReadBalances(d) ==
    /\ At(d, "read") /\ Calm("placing")
    /\ IF deals[d].status # "start" THEN Ends(d, "refused")
       ELSE Turns(d, Memory("plan", free, Refusal, "none"))
    /\ UNCHANGED <<lockVars, legs, free, deals, trades, orders, strayed>>

(***************************************************************************)
(* Then the reservations, less the deal's own hold, and the decision.      *)
(***************************************************************************)
After(plan) == IF plan.kind = "held" THEN "hold"
               ELSE IF plan.trade > 0 THEN "intend" ELSE "record"

Decide(d) ==
    /\ At(d, "plan")
    /\ LET plan == PlanFor(legs[d], [x \in Assets |->
                     Minus(work[d].seen[x], ReservedFrom(d, x))])
       IN \/ plan.kind = "refuse" /\ Refuse(d)
          \/ /\ plan.kind # "refuse"
             /\ Turns(d, Memory(After(plan), NoBalances, plan, "none"))
             /\ UNCHANGED deals
    /\ UNCHANGED <<lockVars, legs, free, trades, orders, strayed>>

(***************************************************************************)
(* Something it needs cannot be read: refused. Or a call throws: then the  *)
(* lock is released before the deal is retired.                            *)
(***************************************************************************)
Unreadable(d) ==
    /\ At(d, "read") \/ At(d, "plan")
    /\ \/ Refuse(d)
       \/ Ends(d, "thrown") /\ UNCHANGED deals
    /\ UNCHANGED <<lockVars, legs, free, trades, orders, strayed>>

(***************************************************************************)
(* A leg on the account's own funds: what its orders need is held for it.  *)
(***************************************************************************)
Hold(d) ==
    /\ At(d, "hold")
    /\ \/ /\ Owned(d)
          /\ deals' = [deals EXCEPT ![d].hold = work[d].plan.hold]
          /\ Ends(d, "held")
       \/ Disowned(d) /\ Refuse(d)
    /\ UNCHANGED <<wrong, holder, section, legs, free, trades, orders, strayed>>

(***************************************************************************)
(* A trade: the reservation and the intent are saved before it is sent.    *)
(***************************************************************************)
\* Faulty: the trade is sent first and recorded when it is done.
NotYet(deal, plan) == deal

Intent(deal, plan) ==
    [status |-> deal.status, entry |-> plan.entry, hold |-> plan.hold,
     pending |-> plan.trade]

Intend(d) ==
    /\ At(d, "intend")
    /\ \/ /\ deals[d].status # "start"
          /\ Ends(d, "refused")
          /\ UNCHANGED <<lost, deals>>
       \/ /\ deals[d].status = "start" /\ Owned(d)
          /\ deals' = [deals EXCEPT ![d] = Intent(@, work[d].plan)]
          /\ Goes(d, "send")
       \/ deals[d].status = "start" /\ Disowned(d) /\ Refuse(d)
    /\ UNCHANGED <<wrong, holder, section, legs, free, trades, orders, strayed>>

SendTrade(d) ==
    /\ At(d, "send")
    /\ trades' = [trades EXCEPT ![d] = "sent"]
    /\ Goes(d, "trade")
    /\ UNCHANGED <<lockVars, legs, free, deals, orders, strayed>>

(***************************************************************************)
(* It executed; or it did not, and the deal is retired. A trade that is    *)
(* not final when its time is up is left out.                              *)
(***************************************************************************)
Traded(d) ==
    /\ At(d, "trade")
    /\ \/ trades[d] = "done" /\ Goes(d, "record") /\ UNCHANGED deals
       \/ trades[d] = "never" /\ Refuse(d)
    /\ UNCHANGED <<lockVars, legs, free, trades, orders, strayed>>

(***************************************************************************)
(* The record, whether the key is still owned or not, and whether there    *)
(* was a trade or not.                                                     *)
(***************************************************************************)
Recorded(deal, plan) ==
    [status |-> deal.status, entry |-> plan.entry, hold |-> plan.hold, pending |-> 0]

RecordsNoTrade(d) == IF trades[d] = "none" THEN {"record"} ELSE {}

Record(d) ==
    /\ At(d, "record")
    /\ \/ /\ deals[d].status # "start"
          /\ Ends(d, "refused")
          /\ UNCHANGED <<lost, deals, strayed>>
       \/ /\ deals[d].status = "start"
          /\ \/ Owned(d) /\ UNCHANGED strayed
             \/ Disowned(d) /\ strayed' = strayed \cup RecordsNoTrade(d)
          /\ deals' = [deals EXCEPT ![d] = Recorded(@, work[d].plan)]
          /\ Ends(d, "virtual")
    /\ UNCHANGED <<wrong, holder, section, legs, free, trades, orders>>

Leave(d) ==
    /\ At(d, "end")
    /\ Release(d)
    /\ UNCHANGED fundingVars

-----------------------------------------------------------------------------
(***************************************************************************)
(* After the section, outside the lock. A deal that could not be funded is *)
(* retired; the others start: the rows of the orders are written ahead,    *)
(* the venue takes the orders on, and the hold goes down (startFundedDeal, *)
(* placeOrders, syncFundingHold).                                          *)
(***************************************************************************)
Out(d) == IF section[d] = "refused" THEN "thrown" ELSE work[d].out
Outside(d) == section[d] \in {"over", "refused"} /\ work[d].at \notin {"placing", "done"}

GiveUp(d) ==
    /\ Outside(d) /\ Out(d) \in {"thrown", "refused"}
    /\ IF Out(d) = "thrown" THEN Retire(d) ELSE UNCHANGED deals
    /\ Finishes(d)
    /\ UNCHANGED <<lockVars, legs, free, trades, orders, strayed>>

Starts(d) ==
    /\ deals' = [deals EXCEPT ![d].status = "open"]
    /\ orders' = [orders EXCEPT ![d] = "written"]
    /\ Goes(d, "placing")

WriteRows(d) ==
    /\ Outside(d) /\ Out(d) \in {"virtual", "held"} /\ Calm("plan")
    /\ \/ deals[d].status = "start" /\ Starts(d)
       \/ deals[d].status # "start" /\ Finishes(d) /\ UNCHANGED <<deals, orders>>
    /\ UNCHANGED <<lockVars, legs, free, trades, strayed>>

PlacedNeed(d) == deals[d].hold \* all of the orders the hold is for

\* Faulty: the take profit counts as placed too, and there is no floor.
BothSides(d) == deals[d].hold - (PlacedNeed(d) + deals[d].entry)

HoldRemaining(d) == Minus(deals[d].hold, PlacedNeed(d))

Affordable(d) == free[Need(d)] >= deals[d].hold /\ free[Spend(d)] >= deals[d].entry

Place(d) ==
    /\ work[d].at = "placing" /\ Calm("plan")
    /\ Finishes(d)
    /\ IF Affordable(d)
       THEN /\ free' = [free EXCEPT ![Need(d)] = @ - deals[d].hold,
                                    ![Spend(d)] = @ - deals[d].entry]
            /\ deals' = [deals EXCEPT ![d].hold = HoldRemaining(d)]
            /\ orders' = [orders EXCEPT ![d] = "resting"]
       ELSE UNCHANGED <<free, deals, orders>>
    /\ UNCHANGED <<lockVars, legs, trades, strayed>>

-----------------------------------------------------------------------------
(***************************************************************************)
(* The venue and a market order: whole, or not at all.                     *)
(***************************************************************************)
Execute(d) ==
    /\ trades[d] = "sent"
    /\ \/ /\ free[Spend(d)] >= deals[d].pending
          /\ trades' = [trades EXCEPT ![d] = "done"]
          /\ free' = [free EXCEPT ![Spend(d)] = @ - deals[d].pending,
                                  ![Need(d)] = @ + deals[d].pending]
       \/ trades' = [trades EXCEPT ![d] = "never"] /\ UNCHANGED free
    /\ UNCHANGED <<lockVars, legs, deals, work, orders, strayed>>

(***************************************************************************)
(* A deal in start is cancelled. Not modelled: between the decision and    *)
(* the base order of a held leg, whose base order is sent all the same.    *)
(***************************************************************************)
CloseDeal(d) ==
    /\ "close" \in wrong /\ deals[d].status = "start"
    /\ work[d].at \in {"none", "read"} \/ work[d].plan.kind = "fund"
         \/ work[d].out = "virtual"
    /\ Retire(d)
    /\ UNCHANGED <<lockVars, legs, free, work, trades, orders, strayed>>

(***************************************************************************)
(* The lease, seen from the section: it may run out while a trade is on    *)
(* its way. A trade is over before the key of a process that died lapses.  *)
(***************************************************************************)
Trading(d) == IF At(d, "send") \/ At(d, "trade") THEN {"trade"} ELSE {}

LeaseLapses ==
    /\ Lapse
    /\ section[holder] # "inside" => trades[holder] # "sent"
    /\ strayed' = strayed \cup Trading(holder)
    /\ UNCHANGED <<legs, free, deals, work, trades, orders>>

Unrenewed == holder # NoOne /\ (section[holder] # "inside" \/ holder \in lost)

HeartbeatStops(d) == Overstay(d) /\ UNCHANGED fundingVars

(***************************************************************************)
(* A call to the venue or the database is never answered.                  *)
(***************************************************************************)
Hang(d) ==
    /\ "hang" \in wrong
    /\ section[d] = "inside" /\ work[d].at \in {"read", "plan", "intend", "hold", "record"}
    /\ Turns(d, Memory("hung", NoBalances, Refusal, "none"))
    /\ UNCHANGED <<lockVars, legs, free, deals, trades, orders, strayed>>

(***************************************************************************)
(* The process dies before the deal's orders are written. A restart finds  *)
(* the deal in start: one with an intent goes by what became of its trade, *)
(* one with a record starts, any other is funded anew (resumeFundedEntry,  *)
(* placeBaseOrder).                                                        *)
(***************************************************************************)
Die(d) ==
    /\ work[d].at \notin {"placing", "done"}
    /\ Crash(d)
    /\ Turns(d, Blank)
    /\ UNCHANGED <<legs, free, deals, trades, orders, strayed>>

Back(d, place) == Moves(d, place) /\ UNCHANGED <<wrong, holder, lost>>

Resume(d) ==
    /\ trades[d] # "sent"
    /\ \/ /\ deals[d].pending > 0 /\ trades[d] # "done"
          /\ Retire(d) /\ Finishes(d)
       \/ /\ deals[d].pending > 0 /\ trades[d] = "done"
          /\ deals' = [deals EXCEPT ![d].pending = 0] /\ Ends(d, "virtual")
       \/ /\ deals[d].pending = 0
          /\ Ends(d, "virtual") /\ UNCHANGED deals
    /\ Back(d, "over")

\* Faulty: a deal with an intent but no finished trade is funded anew.
OnlyRecords(deal) == deal.entry > 0 /\ deal.pending = 0

Resumes(deal) == deal.entry > 0

Restart(d) ==
    /\ section[d] = "down"
    /\ \/ /\ deals[d].status # "start"
          /\ Finishes(d) /\ Back(d, "over") /\ UNCHANGED deals
       \/ deals[d].status = "start" /\ Resumes(deals[d]) /\ Resume(d)
       \/ /\ deals[d].status = "start" /\ ~Resumes(deals[d])
          /\ Back(d, "idle") /\ UNCHANGED <<work, deals>>
    /\ UNCHANGED <<legs, free, trades, orders, strayed>>

-----------------------------------------------------------------------------
InSection(d) ==
    \/ ReadBalances(d) \/ Decide(d) \/ Unreadable(d) \/ Hold(d) \/ Intend(d)
    \/ SendTrade(d) \/ Traded(d) \/ Record(d) \/ Leave(d)

AfterSection(d) == GiveUp(d) \/ WriteRows(d) \/ Place(d)

Onward(d) ==
    AskFunding(d) \/ Enter(d) \/ NotAcquired(d) \/ InSection(d) \/ Restart(d)

Decided(d) ==
    \/ work[d].at \in {"done", "hung"}
    \/ section[d] = "idle" /\ deals[d].status # "start"
AllDecided == (\A d \in Deals : Decided(d)) /\ UNCHANGED vars

Next ==
    \/ \E d \in Deals :
         \/ Onward(d) \/ AfterSection(d) \/ Execute(d)
         \/ CloseDeal(d) \/ HeartbeatStops(d) \/ Hang(d) \/ Die(d)
    \/ LeaseLapses
    \/ AllDecided

Spec == Init /\ [][Next]_vars

(***************************************************************************)
(* The event loop, the venue and the clock go on.                          *)
(***************************************************************************)
FairSpec ==
    /\ Spec
    /\ \A d \in Deals :
         /\ WF_vars(Onward(d))
         /\ SF_vars(AfterSection(d))
         /\ WF_vars(Execute(d))
         /\ WF_vars(HeartbeatStops(d) /\ work[d].at = "hung")
    /\ WF_vars(LeaseLapses /\ Unrenewed)

-----------------------------------------------------------------------------
TypeOK ==
    /\ wrong \in Worlds
    /\ holder \in Sections \cup {NoOne}
    /\ section \in [Sections -> {"idle", "asking", "inside", "over", "refused", "down"}]
    /\ lost \subseteq Sections
    /\ legs \in [Deals -> Legs]
    /\ free \in [Assets -> Nat]
    /\ deals \in [Deals -> [status : {"start", "open", "closed"}, entry : Nat,
                            hold : Nat, pending : Nat]]
    /\ \A d \in Deals :
         /\ work[d].at \in {"none", "read", "plan", "hold", "intend", "send", "trade",
                            "record", "end", "hung", "placing", "done"}
         /\ work[d].seen \in [Assets -> Nat]
    /\ trades \in [Deals -> {"none", "sent", "done", "never"}]
    /\ orders \in [Deals -> {"none", "written", "resting"}]
    /\ strayed \subseteq {"trade", "record"}

(***************************************************************************)
(* What a deal still takes out of the account: the trade that is on its    *)
(* way, the backing of its entry, and what its orders need of what is      *)
(* there already.                                                          *)
(***************************************************************************)
OnItsWay(d) == IF At(d, "send") \/ trades[d] = "sent" THEN deals[d].pending ELSE 0

Unplaced(d) == deals[d].status \in Holding /\ orders[d] # "resting"

Takes(d, x) ==
    (IF x = Spend(d) THEN OnItsWay(d) ELSE 0)
    + (IF x = Spend(d) /\ Unplaced(d) THEN deals[d].entry ELSE 0)
    + (IF x = Need(d) /\ Unplaced(d)
       THEN Minus(deals[d].hold, IF trades[d] = "done" THEN 0 ELSE deals[d].pending)
       ELSE 0)

Covered ==
    \A x \in Assets : Total([d \in Deals |-> Takes(d, x)]) <= free[x]

(***************************************************************************)
(* The account always has what all its funded deals together still take    *)
(* out of it, whatever the order in which they read, plan, trade, crash,   *)
(* are cancelled and place their orders; unless a lease ran out under a    *)
(* trade or a record. (fundingLock.ts, fundingReservation.ts)              *)
(***************************************************************************)
Solvent ==
    strayed = {} => Covered

(***************************************************************************)
(* A deal's funding trade is sent once, over any number of crashes and     *)
(* restarts: a deal that meant to trade is never funded anew.              *)
(***************************************************************************)
TradedOnce ==
    [][\A d \in Deals : trades'[d] = "sent" /\ trades[d] # "sent"
                          => trades[d] = "none"]_vars

(***************************************************************************)
(* A deal does not stay in start, holding nothing: it starts or is         *)
(* retired, unless its process keeps dying or one of its calls hangs.      *)
(***************************************************************************)
EveryDealDecided ==
    \A d \in Deals :
       <>(deals[d].status # "start") \/ []<>(section[d] = "down") \/ <>[](work[d].at = "hung")

(***************************************************************************)
(* No section keeps the account for ever, one that hangs included.         *)
(***************************************************************************)
LockFreed == \A d \in Deals : holder = d ~> holder # d
=============================================================================
