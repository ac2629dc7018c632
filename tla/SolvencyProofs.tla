--------------------------- MODULE SolvencyProofs ---------------------------
(***************************************************************************)
(* For any number of deals, any legs and balances: the type invariant of   *)
(* the funding of an account and, in the worlds in which the balances are  *)
(* not read while another deal places its orders, that the account has     *)
(* what its funded deals still take out of it.                             *)
(***************************************************************************)
EXTENDS FundingProofs, FiniteSetTheorems

-----------------------------------------------------------------------------
(* Sums *)

Sums(D) == [D -> Nat]
UnitsOf(f, d) == {d} \X (1..f[d])
Without(f, d) == [e \in DOMAIN f \ {d} |-> f[e]]

LEMMA UnitsOfOne ==
    ASSUME NEW D, NEW f \in Sums(D), NEW d \in D
    PROVE  IsFiniteSet(UnitsOf(f, d)) /\ Cardinality(UnitsOf(f, d)) = f[d]
<1>1. f[d] \in Nat
  BY DEF Sums
<1>2. IsFiniteSet(1..f[d]) /\ Cardinality(1..f[d]) = f[d]
  BY <1>1, FS_Interval
<1>3. IsFiniteSet({d}) /\ Cardinality({d}) = 1
  BY FS_Singleton
<1>4. IsFiniteSet({d} \X (1..f[d])) /\ Cardinality({d} \X (1..f[d])) = 1 * f[d]
  BY <1>2, <1>3, FS_Product
<1> QED BY <1>1, <1>4 DEF UnitsOf

LEMMA UnitsFinite ==
    ASSUME NEW D, IsFiniteSet(D), NEW f \in Sums(D)
    PROVE  IsFiniteSet(Units(f))
<1> DEFINE all == {UnitsOf(f, d) : d \in D}
           each == [d \in D |-> UnitsOf(f, d)]
<1>1. each \in Surjection(D, all)
  BY DEF Surjection
<1>2. IsFiniteSet(all)
  BY <1>1, FS_Surjection
<1>3. \A S \in all : IsFiniteSet(S)
  BY UnitsOfOne
<1>4. IsFiniteSet(UNION all)
  BY <1>2, <1>3, FS_UNION
<1>5. Units(f) = UNION all
  BY DEF Units, UnitsOf, Sums
<1> QED BY <1>4, <1>5

LEMMA TotalType ==
    ASSUME NEW D, IsFiniteSet(D), NEW f \in Sums(D)
    PROVE  Total(f) \in Nat
BY UnitsFinite, FS_CardinalityType DEF Total

\* What one has, and what the others have.
LEMMA TotalSplit ==
    ASSUME NEW D, IsFiniteSet(D), NEW f \in Sums(D), NEW d \in D
    PROVE  /\ Total(f) = f[d] + Total(Without(f, d))
           /\ Total(Without(f, d)) \in Nat
<1> DEFINE g == Without(f, d)
<1>1. IsFiniteSet(D \ {d}) /\ g \in Sums(D \ {d}) /\ DOMAIN f = D
  BY FS_RemoveElement DEF Without, Sums
<1>2. IsFiniteSet(Units(g)) /\ Total(g) \in Nat
  BY <1>1, UnitsFinite, TotalType
<1>3. Units(f) = UnitsOf(f, d) \cup Units(g)
  <2>1. \A u : u \in Units(f) <=> \E e \in D : u \in {e} \X (1..f[e])
    BY <1>1 DEF Units
  <2>2. \A u : u \in Units(g) <=> \E e \in D \ {d} : u \in {e} \X (1..f[e])
    BY <1>1 DEF Units, Without
  <2> HIDE DEF g
  <2> QED BY <2>1, <2>2 DEF UnitsOf
<1>4. UnitsOf(f, d) \cap Units(g) = {}
  <2>1. \A u \in UnitsOf(f, d) : u[1] = d
    BY DEF UnitsOf
  <2>2. \A u \in Units(g) : u[1] \in D \ {d}
    BY <1>1 DEF Units, Without
  <2> QED BY <2>1, <2>2
<1>5. IsFiniteSet(UnitsOf(f, d)) /\ Cardinality(UnitsOf(f, d)) = f[d] /\ f[d] \in Nat
  BY UnitsOfOne DEF Sums
<1>6. Cardinality(UnitsOf(f, d) \cup Units(g))
        = Cardinality(UnitsOf(f, d)) + Cardinality(Units(g)) - Cardinality({})
  <2> HIDE DEF g
  <2> QED BY <1>2, <1>4, <1>5, FS_Union
<1>7. Cardinality({}) = 0
  BY FS_EmptySet
<1> QED BY <1>2, <1>3, <1>5, <1>6, <1>7 DEF Total

\* Who has less has a smaller total.
LEMMA TotalMonotone ==
    ASSUME NEW D, IsFiniteSet(D), NEW f \in Sums(D), NEW g \in Sums(D),
           \A d \in D : f[d] <= g[d]
    PROVE  Total(f) <= Total(g)
<1>1. \A d \in D : f[d] \in Nat /\ g[d] \in Nat /\ 1..f[d] \subseteq 1..g[d]
  BY DEF Sums
<1>2. \A d \in D : {d} \X (1..f[d]) \subseteq {d} \X (1..g[d])
  BY <1>1
<1>3. Units(f) \subseteq Units(g)
  BY <1>2 DEF Units, Sums
<1>4. IsFiniteSet(Units(g))
  BY UnitsFinite
<1> QED BY <1>3, <1>4, FS_Subset DEF Total

-----------------------------------------------------------------------------
(* The types *)

Kinds == {"refuse", "held", "fund"}
Plans == [kind : Kinds, entry : Nat, hold : Nat, trade : Nat]
Outs == {"none", "refused", "thrown", "held", "virtual"}
Points == {"none", "read", "plan", "hold", "intend", "send", "trade", "record",
           "end", "hung", "placing", "done"}
Works == [at : Points, seen : [Assets -> Nat], plan : Plans, out : Outs]
StoredDeals == [status : {"start", "open", "closed"}, entry : Nat, hold : Nat,
                pending : Nat]

LockTypes ==
    /\ wrong \in Worlds
    /\ holder \in Sections \cup {NoOne}
    /\ section \in [Sections -> Places]
    /\ lost \subseteq Sections

Types ==
    /\ LockTypes
    /\ legs \in [Deals -> Legs]
    /\ free \in [Assets -> Nat]
    /\ deals \in [Deals -> StoredDeals]
    /\ work \in [Deals -> Works]
    /\ trades \in [Deals -> {"none", "sent", "done", "never"}]
    /\ orders \in [Deals -> {"none", "written", "resting"}]
    /\ strayed \subseteq {"trade", "record"}

LEMMA TypesMean == Types => TypeOK
<1> SUFFICES ASSUME Types PROVE TypeOK
  OBVIOUS
<1>1. \A d \in Deals : work[d].at \in Points /\ work[d].seen \in [Assets -> Nat]
  BY DEF Types, Works
<1> QED BY <1>1 DEF Types, LockTypes, TypeOK, Points, Places, StoredDeals

\* What a step of a deal leaves alone.
SameDeal(e) ==
    /\ section'[e] = section[e] /\ work'[e] = work[e] /\ deals'[e] = deals[e]
    /\ trades'[e] = trades[e] /\ orders'[e] = orders[e]
Only(d) == legs' = legs /\ wrong' = wrong /\ \A e \in Deals \ {d} : SameDeal(e)

LEMMA Smalls ==
    /\ NoBalances \in [Assets -> Nat] /\ Refusal \in Plans /\ Blank \in Works
    /\ Blank.at = "none" /\ Blank.out = "none" /\ Blank.plan = Refusal
    /\ Refusal.kind = "refuse"
<1>1. NoBalances \in [Assets -> Nat] /\ Refusal \in Plans
  BY DEF NoBalances, Refusal, Plans, Kinds
<1> QED BY <1>1 DEF Blank, Memory, Works, Points, Outs, Refusal

LEMMA MemoryType ==
    ASSUME NEW place \in Points, NEW seen \in [Assets -> Nat], NEW plan \in Plans,
           NEW out \in Outs
    PROVE  /\ Memory(place, seen, plan, out) \in Works
           /\ Memory(place, seen, plan, out).at = place
           /\ Memory(place, seen, plan, out).seen = seen
           /\ Memory(place, seen, plan, out).plan = plan
           /\ Memory(place, seen, plan, out).out = out
BY DEF Memory, Works

LEMMA WorkTurns ==
    ASSUME Types, NEW d \in Deals, NEW w \in Works, Turns(d, w)
    PROVE  /\ work' \in [Deals -> Works] /\ work'[d] = w
           /\ \A e \in Deals \ {d} : work'[e] = work[e]
BY DEF Types, Turns

LEMMA WorkGoes ==
    ASSUME Types, NEW d \in Deals, NEW place \in Points, Goes(d, place)
    PROVE  /\ work' \in [Deals -> Works]
           /\ work'[d].at = place /\ work'[d].plan = work[d].plan
           /\ work'[d].out = work[d].out
           /\ \A e \in Deals \ {d} : work'[e] = work[e]
<1>1. work[d] \in Works
  BY DEF Types
<1>2. [work[d] EXCEPT !.at = place] \in Works
  BY <1>1 DEF Works
<1>3. Turns(d, [work[d] EXCEPT !.at = place])
  BY DEF Goes, Turns
<1>4. /\ work' \in [Deals -> Works] /\ work'[d] = [work[d] EXCEPT !.at = place]
      /\ \A e \in Deals \ {d} : work'[e] = work[e]
  BY <1>2, <1>3, WorkTurns
<1>5. /\ [work[d] EXCEPT !.at = place].at = place
      /\ [work[d] EXCEPT !.at = place].plan = work[d].plan
      /\ [work[d] EXCEPT !.at = place].out = work[d].out
  BY <1>1 DEF Works
<1> QED BY <1>4, <1>5

LEMMA WorkEnds ==
    ASSUME Types, NEW d \in Deals, NEW out \in Outs, Ends(d, out)
    PROVE  /\ work' \in [Deals -> Works]
           /\ work'[d].at = "end" /\ work'[d].out = out /\ work'[d].plan = Refusal
           /\ \A e \in Deals \ {d} : work'[e] = work[e]
<1>1. "end" \in Points
  BY DEF Points
<1> QED BY <1>1, Smalls, MemoryType, WorkTurns DEF Ends

LEMMA WorkFinishes ==
    ASSUME Types, NEW d \in Deals, Finishes(d)
    PROVE  /\ work' \in [Deals -> Works]
           /\ work'[d].at = "done" /\ work'[d].out = "none" /\ work'[d].plan = Refusal
           /\ \A e \in Deals \ {d} : work'[e] = work[e]
<1>1. "done" \in Points /\ "none" \in Outs
  BY DEF Points, Outs
<1> QED BY <1>1, Smalls, MemoryType, WorkTurns DEF Finishes

LEMMA DealWritten ==
    ASSUME Types, NEW d \in Deals, NEW v \in StoredDeals, deals' = [deals EXCEPT ![d] = v]
    PROVE  /\ deals' \in [Deals -> StoredDeals] /\ deals'[d] = v
           /\ \A e \in Deals \ {d} : deals'[e] = deals[e]
BY DEF Types

LEMMA DealFields ==
    ASSUME Types, NEW d \in Deals
    PROVE  /\ deals[d].status \in {"start", "open", "closed"}
           /\ deals[d].entry \in Nat /\ deals[d].hold \in Nat /\ deals[d].pending \in Nat
           /\ work[d] \in Works /\ work[d].at \in Points /\ work[d].out \in Outs
           /\ work[d].plan \in Plans /\ work[d].plan.kind \in Kinds
           /\ work[d].plan.entry \in Nat /\ work[d].plan.hold \in Nat
           /\ work[d].plan.trade \in Nat
           /\ work[d].seen \in [Assets -> Nat]
<1>1. deals[d] \in StoredDeals /\ work[d] \in Works
  BY DEF Types
<1>2. work[d].plan \in Plans
  BY <1>1 DEF Works
<1> QED BY <1>1, <1>2 DEF StoredDeals, Works, Plans

\* One field of a deal: its status, its hold, its pending trade.
LEMMA DealStatus ==
    ASSUME Types, NEW d \in Deals, NEW v \in {"start", "open", "closed"},
           deals' = [deals EXCEPT ![d].status = v]
    PROVE  /\ deals' \in [Deals -> StoredDeals]
           /\ deals'[d].status = v /\ deals'[d].entry = deals[d].entry
           /\ deals'[d].hold = deals[d].hold /\ deals'[d].pending = deals[d].pending
           /\ \A e \in Deals \ {d} : deals'[e] = deals[e]
<1> DEFINE deal == [deals[d] EXCEPT !.status = v]
<1>1. deals[d] \in StoredDeals
  BY DEF Types
<1>2. /\ deal \in StoredDeals /\ deal.status = v /\ deal.entry = deals[d].entry
      /\ deal.hold = deals[d].hold /\ deal.pending = deals[d].pending
  BY <1>1 DEF StoredDeals
<1>3. deals' = [deals EXCEPT ![d] = deal]
  OBVIOUS
<1> HIDE DEF deal
<1> QED BY <1>2, <1>3, DealWritten

LEMMA DealHold ==
    ASSUME Types, NEW d \in Deals, NEW v \in Nat,
           deals' = [deals EXCEPT ![d].hold = v]
    PROVE  /\ deals' \in [Deals -> StoredDeals]
           /\ deals'[d].status = deals[d].status /\ deals'[d].entry = deals[d].entry
           /\ deals'[d].hold = v /\ deals'[d].pending = deals[d].pending
           /\ \A e \in Deals \ {d} : deals'[e] = deals[e]
<1> DEFINE deal == [deals[d] EXCEPT !.hold = v]
<1>1. deals[d] \in StoredDeals
  BY DEF Types
<1>2. /\ deal \in StoredDeals /\ deal.status = deals[d].status
      /\ deal.entry = deals[d].entry /\ deal.hold = v /\ deal.pending = deals[d].pending
  BY <1>1 DEF StoredDeals
<1>3. deals' = [deals EXCEPT ![d] = deal]
  OBVIOUS
<1> HIDE DEF deal
<1> QED BY <1>2, <1>3, DealWritten

LEMMA DealPending ==
    ASSUME Types, NEW d \in Deals, NEW v \in Nat,
           deals' = [deals EXCEPT ![d].pending = v]
    PROVE  /\ deals' \in [Deals -> StoredDeals]
           /\ deals'[d].status = deals[d].status /\ deals'[d].entry = deals[d].entry
           /\ deals'[d].hold = deals[d].hold /\ deals'[d].pending = v
           /\ \A e \in Deals \ {d} : deals'[e] = deals[e]
<1> DEFINE deal == [deals[d] EXCEPT !.pending = v]
<1>1. deals[d] \in StoredDeals
  BY DEF Types
<1>2. /\ deal \in StoredDeals /\ deal.status = deals[d].status
      /\ deal.entry = deals[d].entry /\ deal.hold = deals[d].hold /\ deal.pending = v
  BY <1>1 DEF StoredDeals
<1>3. deals' = [deals EXCEPT ![d] = deal]
  OBVIOUS
<1> HIDE DEF deal
<1> QED BY <1>2, <1>3, DealWritten

\* A deal that is given up, with what its call remembers.
LEMMA DealRefused ==
    ASSUME Types, NEW d \in Deals, Refuse(d)
    PROVE  /\ deals' \in [Deals -> StoredDeals] /\ work' \in [Deals -> Works]
           /\ deals'[d].status = "closed" /\ deals'[d].entry = deals[d].entry
           /\ deals'[d].hold = deals[d].hold /\ deals'[d].pending = deals[d].pending
           /\ work'[d].at = "end" /\ work'[d].out = "refused"
           /\ work'[d].plan = Refusal
           /\ \A e \in Deals \ {d} : deals'[e] = deals[e] /\ work'[e] = work[e]
<1>1. Ends(d, "refused") /\ "refused" \in Outs
  BY DEF Refuse, Outs
<1>2. deals' = [deals EXCEPT ![d].status = "closed"]
  BY DEF Refuse, Retire
<1> QED BY <1>1, <1>2, WorkEnds, DealStatus

-----------------------------------------------------------------------------
(* The course of a deal *)

\* The plan of a deal is still to be stored.
ToStore(d) == \/ At(d, "hold") \/ At(d, "intend")
              \/ At(d, "record") /\ trades[d] = "none"
Unfunded(d) ==
    \/ section[d] \in {"idle", "asking"} \/ At(d, "read") \/ At(d, "plan") \/ ToStore(d)
Trades(d) ==
    At(d, "send") \/ At(d, "trade") \/ (At(d, "record") /\ trades[d] # "none")

\* What is stored when a call is at a step, and what that step can still find.
Course(d) ==
    /\ Unfunded(d) => deals[d].entry = 0
    /\ deals[d].entry = 0 => deals[d].pending = 0
    /\ section[d] \in {"idle", "asking", "down"} => work[d].at = "none"
    /\ At(d, "plan") => deals[d].status = "start" /\ work[d].plan.kind = "refuse"
    /\ At(d, "hold") => work[d].plan.kind = "held"
    /\ At(d, "intend") \/ At(d, "record") \/ Trades(d) => work[d].plan.kind = "fund"
    /\ work[d].plan.kind = "held" => work[d].plan.entry = 0 /\ work[d].plan.trade = 0
    /\ Trades(d) => /\ deals[d].entry = work[d].plan.entry
                    /\ deals[d].hold = work[d].plan.hold
    /\ At(d, "record") => \/ trades[d] = "none" /\ work[d].plan.trade = 0
                          \/ trades[d] = "done"
    /\ section[d] = "inside" /\ trades[d] = "sent" => work[d].at = "trade"
    /\ work[d].out \in {"held", "virtual"} =>
         work[d].at \in {"end", "placing"} /\ deals[d].pending = 0
    /\ work[d].out # "none" => work[d].at \in {"end", "placing"}
    /\ work[d].at = "placing" =>
         deals[d].status = "open" /\ orders[d] = "written" /\ deals[d].pending = 0
    /\ orders[d] # "none" => work[d].at \in {"placing", "done"}

Courses == \A d \in Deals : Course(d)

FundedInv == IInv /\ Types /\ Courses

LEMMA CourseElsewhere ==
    ASSUME Courses, NEW d \in Deals, Only(d), Course(d)'
    PROVE  Courses'
<1>1. ASSUME NEW e \in Deals, e # d
      PROVE  Course(e)'
  <2>1. SameDeal(e) /\ Course(e)
    BY <1>1 DEF Only, Courses
  <2> QED BY <2>1 DEF SameDeal, Course, Unfunded, ToStore, Trades, At
<1> QED BY <1>1 DEF Courses

(***************************************************************************)
(* What a plan takes is there: the entry and the trade of one asset, and   *)
(* of the other what is not traded for.                                    *)
(***************************************************************************)
LEMMA PlanFits ==
    ASSUME NEW leg \in Legs, NEW available \in [Assets -> Nat]
    PROVE  LET plan == PlanFor(leg, available)
           IN  /\ plan \in Plans
               /\ plan.kind = "held" =>
                    plan.entry = 0 /\ plan.trade = 0 /\ plan.hold <= available[leg.need]
               /\ plan.kind = "fund" =>
                    /\ plan.entry + plan.trade <= available[Other(leg.need)]
                    /\ Minus(plan.hold, plan.trade) <= available[leg.need]
<1>1. /\ leg.need \in Assets /\ leg.base \in Nat /\ leg.safety \in Nat
      /\ Other(leg.need) \in Assets
  BY LegsAssumption DEF Other, Assets
<1>2. available[leg.need] \in Nat /\ available[Other(leg.need)] \in Nat
  BY <1>1
<1> DEFINE short == available[leg.need]
           used == IF leg.mode = "diff" THEN Smaller(short, leg.safety) ELSE 0
           trade == leg.safety - used
<1>3. used \in Nat /\ used <= leg.safety /\ used <= short
  BY <1>1, <1>2 DEF Smaller
<1>4. trade \in Nat /\ Minus(leg.safety, trade) = used
  BY <1>1, <1>3 DEF Minus
<1>5. \/ PlanFor(leg, available) = Refusal
      \/ /\ PlanFor(leg, available) = [kind |-> "held", entry |-> 0,
                                       hold |-> leg.base + leg.safety, trade |-> 0]
         /\ leg.base + leg.safety <= short
      \/ /\ PlanFor(leg, available) = [kind |-> "fund", entry |-> leg.base,
                                       hold |-> leg.safety, trade |-> trade]
         /\ leg.base + trade <= available[Other(leg.need)]
  <2> HIDE DEF used
  <2> QED BY <1>1, <1>2, <1>3 DEF PlanFor, SpendNeeded, used
<1>6. CASE PlanFor(leg, available) = Refusal
  BY <1>6, Smalls DEF Refusal
<1>7. CASE /\ PlanFor(leg, available) = [kind |-> "held", entry |-> 0,
                                         hold |-> leg.base + leg.safety, trade |-> 0]
           /\ leg.base + leg.safety <= short
  BY <1>1, <1>7 DEF Plans, Kinds
<1>8. CASE /\ PlanFor(leg, available) = [kind |-> "fund", entry |-> leg.base,
                                         hold |-> leg.safety, trade |-> trade]
           /\ leg.base + trade <= available[Other(leg.need)]
  <2> HIDE DEF trade, used
  <2> QED BY <1>1, <1>3, <1>4, <1>8 DEF Plans, Kinds
<1> QED BY <1>5, <1>6, <1>7, <1>8

LEMMA Reserves ==
    ASSUME Types
    PROVE  /\ \A x \in Assets : [e \in Deals |-> ReservedBy(e, x)] \in Sums(Deals)
           /\ \A d \in Deals, x \in Assets : ReservedFrom(d, x) \in Nat
           /\ IsFiniteSet(Deals)
<1>1. IsFiniteSet(Deals)
  BY SectionsAssumption DEF Deals
<1>2. ASSUME NEW e \in Deals, NEW x \in Assets
      PROVE  ReservedBy(e, x) \in Nat
  BY <1>2, DealFields DEF ReservedBy
<1>3. \A x \in Assets : [e \in Deals |-> ReservedBy(e, x)] \in Sums(Deals)
  BY <1>2 DEF Sums
<1>4. \A x \in Assets : Total([e \in Deals |-> ReservedBy(e, x)]) \in Nat
  BY <1>1, <1>3, TotalType
<1> QED BY <1>1, <1>3, <1>4, DealFields DEF ReservedFrom, Minus

-----------------------------------------------------------------------------
(* The steps of one deal *)

Stepped(d) == Types' /\ Only(d) /\ Course(d)'

\* The lock's part of a step.
LEMMA LockMoves ==
    ASSUME LockTypes, NEW s \in Sections, NEW place \in Places, Moves(s, place)
    PROVE  /\ section' \in [Sections -> Places] /\ section'[s] = place
           /\ \A t \in Sections \ {s} : section'[t] = section[t]
BY DEF Moves, LockTypes

LEMMA LockStep ==
    ASSUME LockTypes, NEW s \in Sections,
           \/ Ask(s) \/ Take(s) \/ Unavailable(s) \/ WaitOver(s) \/ Release(s) \/ Crash(s)
    PROVE  /\ LockTypes' /\ wrong' = wrong
           /\ \A t \in Sections \ {s} : section'[t] = section[t]
           /\ Ask(s) => section'[s] = "asking"
           /\ Take(s) => section'[s] = "inside"
           /\ Unavailable(s) \/ WaitOver(s) => section'[s] = "refused"
           /\ Release(s) => section'[s] = "over"
           /\ Crash(s) => section'[s] = "down"
<1>1. /\ Ask(s) => Moves(s, "asking")
      /\ Take(s) => Moves(s, "inside")
      /\ Unavailable(s) \/ WaitOver(s) => Moves(s, "refused")
      /\ Release(s) => Moves(s, "over")
      /\ Crash(s) => Moves(s, "down")
  BY DEF Ask, Take, Unavailable, WaitOver, Release, Crash
<1>2. {"asking", "inside", "refused", "over", "down"} \subseteq Places
  BY DEF Places
<1>3. wrong' = wrong /\ holder' \in Sections \cup {NoOne} /\ lost' \subseteq Sections
  BY DEF Ask, Take, Unavailable, WaitOver, Release, CompareAndDelete, Crash, LockTypes
<1> QED BY <1>1, <1>2, <1>3, LockMoves DEF LockTypes

LEMMA AskStepped ==
    ASSUME FundedInv, NEW d \in Deals, AskFunding(d)
    PROVE  Stepped(d)
<1>1. Ask(d) /\ UNCHANGED fundingVars /\ section[d] = "idle"
  BY DEF AskFunding, Ask
<1>2. /\ LockTypes' /\ wrong' = wrong /\ section'[d] = "asking"
      /\ \A e \in Deals \ {d} : section'[e] = section[e]
  BY <1>1, LockStep DEF FundedInv, Types, Deals
<1>3. UNCHANGED <<legs, free, deals, work, trades, orders, strayed>>
  BY <1>1 DEF fundingVars
<1>4. Types' /\ Only(d)
  BY <1>2, <1>3 DEF FundedInv, Types, Only, SameDeal
<1>5. Course(d) /\ Unfunded(d)
  BY <1>1 DEF FundedInv, Courses, Unfunded
<1>6. Course(d)'
  BY <1>1, <1>2, <1>3, <1>5 DEF Course, Unfunded, ToStore, Trades, At
<1> QED BY <1>4, <1>6 DEF Stepped

LEMMA EnterStepped ==
    ASSUME FundedInv, NEW d \in Deals, Enter(d)
    PROVE  Stepped(d)
<1>1. Take(d) /\ Goes(d, "read") /\ section[d] = "asking" /\ "read" \in Points
      /\ UNCHANGED <<legs, free, deals, trades, orders, strayed>>
  BY DEF Enter, Take, Points
<1>2. /\ LockTypes' /\ wrong' = wrong /\ section'[d] = "inside"
      /\ \A e \in Deals \ {d} : section'[e] = section[e]
  BY <1>1, LockStep DEF FundedInv, Types, Deals
<1>3. /\ work' \in [Deals -> Works]
      /\ work'[d].at = "read" /\ work'[d].plan = work[d].plan /\ work'[d].out = work[d].out
      /\ \A e \in Deals \ {d} : work'[e] = work[e]
  BY <1>1, WorkGoes DEF FundedInv
<1>4. Types' /\ Only(d)
  BY <1>1, <1>2, <1>3 DEF FundedInv, Types, Only, SameDeal
<1>5. Course(d) /\ Unfunded(d) /\ trades[d] = "none"
  BY <1>1 DEF FundedInv, Courses, Unfunded, IInv, TradeInv, Untraded
<1>6. Course(d)'
  BY <1>1, <1>2, <1>3, <1>5 DEF Course, Unfunded, ToStore, Trades, At
<1> QED BY <1>4, <1>6 DEF Stepped

LEMMA NotAcquiredStepped ==
    ASSUME FundedInv, NEW d \in Deals, NotAcquired(d)
    PROVE  Stepped(d)
<1>1. /\ Unavailable(d) \/ WaitOver(d)
      /\ section[d] = "asking"
      /\ UNCHANGED <<legs, free, deals, work, trades, orders, strayed>>
  BY DEF NotAcquired, Unavailable, WaitOver, fundingVars
<1>2. /\ LockTypes' /\ wrong' = wrong /\ section'[d] = "refused"
      /\ \A e \in Deals \ {d} : section'[e] = section[e]
  BY <1>1, LockStep DEF FundedInv, Types, Deals
<1>4. Types' /\ Only(d)
  BY <1>1, <1>2 DEF FundedInv, Types, Only, SameDeal
<1>5. Course(d)
  BY DEF FundedInv, Courses
<1>6. Course(d)'
  BY <1>1, <1>2, <1>5 DEF Course, Unfunded, ToStore, Trades, At
<1> QED BY <1>4, <1>6 DEF Stepped

\* A call that is over, whatever became of its deal.
LEMMA CourseEnds ==
    ASSUME FundedInv, NEW d \in Deals, Types',
           section'[d] \notin {"idle", "asking", "down"},
           section'[d] # "inside" \/ trades'[d] # "sent",
           work'[d].at \in {"end", "done"},
           work'[d].out \in {"none", "refused", "thrown"} \/ deals'[d].pending = 0,
           work'[d].at = "done" => work'[d].out = "none",
           work'[d].plan.kind = "held" =>
             work'[d].plan.entry = 0 /\ work'[d].plan.trade = 0,
           deals'[d].entry = deals[d].entry \/ deals'[d].entry > 0,
           deals'[d].entry = 0 => deals'[d].pending = 0,
           orders'[d] # "none" => work'[d].at = "done"
    PROVE  Course(d)'
<1>1. ~Unfunded(d)' /\ ~Trades(d)' /\ ~At(d, "plan")' /\ ~At(d, "hold")'
      /\ ~At(d, "intend")' /\ ~At(d, "record")'
  BY DEF Unfunded, Trades, ToStore, At
<1> QED BY <1>1 DEF Course

LEMMA ReadStepped ==
    ASSUME FundedInv, NEW d \in Deals, ReadBalances(d)
    PROVE  Stepped(d)
<1>1. /\ At(d, "read") /\ section[d] = "inside" /\ work[d].at = "read"
      /\ UNCHANGED <<lockVars, legs, free, deals, trades, orders, strayed>>
  BY DEF ReadBalances, At
<1>2. LockTypes' /\ section' = section /\ wrong' = wrong
  BY <1>1 DEF lockVars, LockTypes, FundedInv, Types
<1>3. Course(d) /\ trades[d] = "none"
  BY <1>1 DEF FundedInv, Courses, IInv, TradeInv, Untraded
<1>4. CASE deals[d].status # "start"
  <2>1. Ends(d, "refused") /\ "refused" \in Outs
    BY <1>4 DEF ReadBalances, Outs
  <2>2. /\ work' \in [Deals -> Works]
        /\ work'[d].at = "end" /\ work'[d].out = "refused" /\ work'[d].plan = Refusal
        /\ \A e \in Deals \ {d} : work'[e] = work[e]
    BY <2>1, WorkEnds DEF FundedInv
  <2>4. Types' /\ Only(d)
    BY <1>1, <1>2, <2>2 DEF FundedInv, Types, Only, SameDeal
  <2>5. orders[d] = "none" /\ (deals[d].entry = 0 => deals[d].pending = 0)
    BY <1>1, <1>3 DEF Course
  <2>6. Course(d)'
    BY <1>1, <1>2, <1>3, <2>2, <2>4, <2>5, Smalls, CourseEnds
  <2> QED BY <2>4, <2>6 DEF Stepped
<1>5. CASE deals[d].status = "start"
  <2>1. Turns(d, Memory("plan", free, Refusal, "none"))
    BY <1>5 DEF ReadBalances
  <2>2. "plan" \in Points /\ "none" \in Outs /\ free \in [Assets -> Nat]
    BY DEF Points, Outs, FundedInv, Types
  <2>3. /\ work' \in [Deals -> Works]
        /\ work'[d].at = "plan" /\ work'[d].out = "none" /\ work'[d].plan = Refusal
        /\ \A e \in Deals \ {d} : work'[e] = work[e]
    BY <2>1, <2>2, Smalls, MemoryType, WorkTurns DEF FundedInv
  <2>4. Types' /\ Only(d)
    BY <1>1, <1>2, <2>3 DEF FundedInv, Types, Only, SameDeal
  <2>5. Course(d)'
    BY <1>1, <1>2, <1>3, <1>5, <2>3, Smalls
       DEF Course, Unfunded, ToStore, Trades, At
  <2> QED BY <2>4, <2>5 DEF Stepped
<1> QED BY <1>4, <1>5

\* A deal that is refused in its section, in which its lease may be found lost.
InPlace(d) ==
    /\ section' = section /\ wrong' = wrong /\ holder' = holder
    /\ lost' \subseteq Sections
    /\ UNCHANGED <<legs, free, trades, orders>> /\ strayed' \subseteq {"trade", "record"}

LEMMA RefuseStepped ==
    ASSUME FundedInv, NEW d \in Deals, Refuse(d), InPlace(d), section[d] = "inside",
           trades[d] # "sent", work[d].at \notin {"placing", "done"}
    PROVE  Stepped(d)
<1>1. /\ deals' \in [Deals -> StoredDeals] /\ work' \in [Deals -> Works]
      /\ deals'[d].entry = deals[d].entry /\ deals'[d].pending = deals[d].pending
      /\ work'[d].at = "end" /\ work'[d].out = "refused" /\ work'[d].plan = Refusal
      /\ \A e \in Deals \ {d} : deals'[e] = deals[e] /\ work'[e] = work[e]
  BY DealRefused DEF FundedInv
<1>2. Types' /\ Only(d)
  BY <1>1 DEF FundedInv, Types, LockTypes, Only, SameDeal, InPlace
<1>3. Course(d)
  BY DEF FundedInv, Courses
<1>4. orders[d] = "none" /\ (deals[d].entry = 0 => deals[d].pending = 0)
  BY <1>3 DEF Course, FundedInv, Types
<1>5. Course(d)'
  BY <1>1, <1>2, <1>4, Smalls, CourseEnds DEF InPlace
<1> QED BY <1>2, <1>5 DEF Stepped

LEMMA DecideStepped ==
    ASSUME FundedInv, NEW d \in Deals, Decide(d)
    PROVE  Stepped(d)
<1> DEFINE available == [x \in Assets |-> Minus(work[d].seen[x], ReservedFrom(d, x))]
           plan == PlanFor(legs[d], available)
<1>1. /\ At(d, "plan") /\ section[d] = "inside" /\ work[d].at = "plan"
      /\ UNCHANGED <<lockVars, legs, free, trades, orders, strayed>>
  BY DEF Decide, At
<1>2. /\ LockTypes' /\ section' = section /\ wrong' = wrong /\ holder' = holder
      /\ lost' = lost
  BY <1>1 DEF lockVars, LockTypes, FundedInv, Types
<1>3. Course(d) /\ trades[d] = "none"
  BY <1>1 DEF FundedInv, Courses, IInv, TradeInv, Untraded
<1>4. available \in [Assets -> Nat]
  <2>1. \A x \in Assets : work[d].seen[x] \in Nat /\ ReservedFrom(d, x) \in Nat
    BY Reserves, DealFields DEF FundedInv
  <2> QED BY <2>1 DEF Minus
<1>5. legs[d] \in Legs
  BY DEF FundedInv, Types
<1>6. /\ plan \in Plans /\ plan.kind \in Kinds
      /\ plan.kind = "held" => plan.entry = 0 /\ plan.trade = 0
      /\ plan.trade \in Nat
  <2>1. plan \in Plans /\ (plan.kind = "held" => plan.entry = 0 /\ plan.trade = 0)
    BY <1>4, <1>5, PlanFits
  <2> HIDE DEF plan
  <2> QED BY <2>1 DEF Plans
<1>7. CASE Refuse(d)
  <2>1. InPlace(d)
    BY <1>1, <1>2 DEF InPlace, FundedInv, Types, LockTypes
  <2> QED BY <1>1, <1>3, <1>7, <2>1, RefuseStepped
<1>8. CASE /\ plan.kind # "refuse"
           /\ Turns(d, Memory(After(plan), NoBalances, plan, "none"))
           /\ UNCHANGED deals
  <2> HIDE DEF plan
  <2>1. /\ After(plan) \in {"hold", "intend", "record"} /\ After(plan) \in Points
        /\ After(plan) = "hold" <=> plan.kind = "held"
        /\ After(plan) = "record" => plan.trade = 0
    BY <1>6 DEF After, Points
  <2>2. "none" \in Outs
    BY DEF Outs
  <2>3. /\ work' \in [Deals -> Works]
        /\ work'[d].at = After(plan) /\ work'[d].out = "none" /\ work'[d].plan = plan
        /\ \A e \in Deals \ {d} : work'[e] = work[e]
    BY <1>6, <1>8, <2>1, <2>2, Smalls, MemoryType, WorkTurns DEF FundedInv
  <2>4. Types' /\ Only(d)
    BY <1>1, <1>2, <1>8, <2>3 DEF FundedInv, Types, Only, SameDeal
  <2>5. plan.kind # "held" => plan.kind = "fund"
    BY <1>6, <1>8 DEF Kinds
  <2>6. Unfunded(d) /\ deals[d].entry = 0
    BY <1>1, <1>3 DEF Unfunded, Course
  <2>7. Course(d)'
    BY <1>1, <1>2, <1>3, <1>6, <1>8, <2>1, <2>3, <2>5, <2>6
       DEF Course, Unfunded, ToStore, Trades, At
  <2> QED BY <2>4, <2>7 DEF Stepped
<1> QED BY <1>7, <1>8 DEF Decide

LEMMA UnreadableStepped ==
    ASSUME FundedInv, NEW d \in Deals, Unreadable(d)
    PROVE  Stepped(d)
<1>1. /\ section[d] = "inside" /\ work[d].at \in {"read", "plan"}
      /\ UNCHANGED <<lockVars, legs, free, trades, orders, strayed>>
  BY DEF Unreadable, At
<1>2. /\ LockTypes' /\ section' = section /\ wrong' = wrong /\ holder' = holder
      /\ lost' = lost
  BY <1>1 DEF lockVars, LockTypes, FundedInv, Types
<1>3. Course(d) /\ trades[d] = "none"
  BY <1>1 DEF FundedInv, Courses, IInv, TradeInv, Untraded
<1>4. CASE Refuse(d)
  <2>1. InPlace(d)
    BY <1>1, <1>2 DEF InPlace, FundedInv, Types, LockTypes
  <2> QED BY <1>1, <1>3, <1>4, <2>1, RefuseStepped
<1>5. CASE Ends(d, "thrown") /\ UNCHANGED deals
  <2>1. "thrown" \in Outs
    BY DEF Outs
  <2>2. /\ work' \in [Deals -> Works]
        /\ work'[d].at = "end" /\ work'[d].out = "thrown" /\ work'[d].plan = Refusal
        /\ \A e \in Deals \ {d} : work'[e] = work[e]
    BY <1>5, <2>1, WorkEnds DEF FundedInv
  <2>3. Types' /\ Only(d)
    BY <1>1, <1>2, <1>5, <2>2 DEF FundedInv, Types, Only, SameDeal
  <2>4. orders[d] = "none" /\ (deals[d].entry = 0 => deals[d].pending = 0)
    BY <1>1, <1>3 DEF Course
  <2>5. Course(d)'
    BY <1>1, <1>2, <1>3, <1>5, <2>2, <2>3, <2>4, Smalls, CourseEnds
  <2> QED BY <2>3, <2>5 DEF Stepped
<1> QED BY <1>4, <1>5 DEF Unreadable

LEMMA OwnedOrNot ==
    ASSUME Types, NEW d \in Deals, Owned(d) \/ Disowned(d)
    PROVE  lost' \subseteq Sections /\ (Owned(d) => holder = d)
BY DEF Owned, Disowned, Types, LockTypes, Deals

LEMMA HoldStepped ==
    ASSUME FundedInv, NEW d \in Deals, Hold(d)
    PROVE  Stepped(d)
<1>1. /\ section[d] = "inside" /\ work[d].at = "hold" /\ Unfunded(d)
      /\ UNCHANGED <<wrong, holder, section, legs, free, trades, orders, strayed>>
      /\ Owned(d) \/ Disowned(d)
  BY DEF Hold, At, Unfunded, ToStore
<1>2. lost' \subseteq Sections /\ strayed' \subseteq {"trade", "record"}
  BY <1>1, OwnedOrNot DEF FundedInv, Types
<1>3. Course(d) /\ trades[d] = "none"
  BY <1>1 DEF FundedInv, Courses, IInv, TradeInv, Untraded
<1>4. CASE Disowned(d) /\ Refuse(d)
  <2>1. InPlace(d)
    BY <1>1, <1>2 DEF InPlace
  <2> QED BY <1>1, <1>3, <1>4, <2>1, RefuseStepped
<1>5. CASE /\ deals' = [deals EXCEPT ![d].hold = work[d].plan.hold]
           /\ Ends(d, "held")
  <2>1. "held" \in Outs /\ work[d].plan.hold \in Nat
    BY DealFields DEF Outs, FundedInv
  <2>2. /\ work' \in [Deals -> Works]
        /\ work'[d].at = "end" /\ work'[d].out = "held" /\ work'[d].plan = Refusal
        /\ \A e \in Deals \ {d} : work'[e] = work[e]
    BY <1>5, <2>1, WorkEnds DEF FundedInv
  <2>3. /\ deals' \in [Deals -> StoredDeals]
        /\ deals'[d].entry = deals[d].entry /\ deals'[d].pending = deals[d].pending
        /\ \A e \in Deals \ {d} : deals'[e] = deals[e]
    BY <1>5, <2>1, DealHold DEF FundedInv
  <2>4. Types' /\ Only(d)
    BY <1>1, <1>2, <2>2, <2>3 DEF FundedInv, Types, LockTypes, Only, SameDeal
  <2>5. orders[d] = "none" /\ deals[d].pending = 0
    BY <1>1, <1>3 DEF Course
  <2>6. Course(d)'
    BY <1>1, <1>3, <2>2, <2>3, <2>4, <2>5, Smalls, CourseEnds
  <2> QED BY <2>4, <2>6 DEF Stepped
<1> QED BY <1>4, <1>5 DEF Hold

LEMMA IntendStepped ==
    ASSUME FundedInv, NEW d \in Deals, Intend(d)
    PROVE  Stepped(d)
<1>1. /\ section[d] = "inside" /\ work[d].at = "intend" /\ Unfunded(d)
      /\ UNCHANGED <<wrong, holder, section, legs, free, trades, orders, strayed>>
      /\ At(d, "intend")
  BY DEF Intend, At, Unfunded, ToStore
<1>2. lost' \subseteq Sections /\ strayed' \subseteq {"trade", "record"}
  BY OwnedOrNot DEF Intend, FundedInv, Types, LockTypes
<1>3. Course(d) /\ trades[d] = "none"
  BY <1>1 DEF FundedInv, Courses, IInv, TradeInv, Untraded
<1>4. CASE Disowned(d) /\ Refuse(d)
  <2>1. InPlace(d)
    BY <1>1, <1>2 DEF InPlace
  <2> QED BY <1>1, <1>3, <1>4, <2>1, RefuseStepped
<1>5. CASE Ends(d, "refused") /\ UNCHANGED deals
  <2>1. "refused" \in Outs
    BY DEF Outs
  <2>2. /\ work' \in [Deals -> Works]
        /\ work'[d].at = "end" /\ work'[d].out = "refused" /\ work'[d].plan = Refusal
        /\ \A e \in Deals \ {d} : work'[e] = work[e]
    BY <1>5, <2>1, WorkEnds DEF FundedInv
  <2>3. Types' /\ Only(d)
    BY <1>1, <1>2, <1>5, <2>2 DEF FundedInv, Types, LockTypes, Only, SameDeal
  <2>4. orders[d] = "none" /\ (deals[d].entry = 0 => deals[d].pending = 0)
    BY <1>1, <1>3 DEF Course, FundedInv, Types
  <2>5. Course(d)'
    BY <1>1, <1>3, <1>5, <2>2, <2>3, <2>4, Smalls, CourseEnds
  <2> QED BY <2>3, <2>5 DEF Stepped
<1>6. CASE /\ deals' = [deals EXCEPT ![d] = Intent(@, work[d].plan)]
           /\ Goes(d, "send")
  <2> DEFINE v == Intent(deals[d], work[d].plan)
  <2>1. /\ v \in StoredDeals /\ v.entry = work[d].plan.entry
        /\ v.hold = work[d].plan.hold
    BY DealFields DEF Intent, StoredDeals, FundedInv
  <2>2. deals' = [deals EXCEPT ![d] = v]
    BY <1>6
  <2>3. /\ deals' \in [Deals -> StoredDeals] /\ deals'[d] = v
        /\ \A e \in Deals \ {d} : deals'[e] = deals[e]
    <3> HIDE DEF v
    <3> QED BY <2>1, <2>2, DealWritten DEF FundedInv
  <2>4. "send" \in Points
    BY DEF Points
  <2>5. /\ work' \in [Deals -> Works]
        /\ work'[d].at = "send" /\ work'[d].plan = work[d].plan
        /\ work'[d].out = work[d].out
        /\ \A e \in Deals \ {d} : work'[e] = work[e]
    BY <1>6, <2>4, WorkGoes DEF FundedInv
  <2>6. Types' /\ Only(d)
    BY <1>1, <1>2, <2>3, <2>5 DEF FundedInv, Types, LockTypes, Only, SameDeal
  <2>7. work[d].plan.entry > 0 /\ work[d].plan.kind = "fund"
    BY <1>1, <1>3 DEF FundedInv, IInv, TradeInv, Planned, Resumes, Course
  <2>8. Course(d)'
    <3> HIDE DEF v
    <3> QED BY <1>1, <1>3, <2>1, <2>3, <2>5, <2>7
            DEF Course, Unfunded, ToStore, Trades, At
  <2> QED BY <2>6, <2>8 DEF Stepped
<1> QED BY <1>4, <1>5, <1>6 DEF Intend

LEMMA SendStepped ==
    ASSUME FundedInv, NEW d \in Deals, SendTrade(d)
    PROVE  Stepped(d) /\ trades'[d] = "sent" /\ trades[d] = "none" /\ work'[d].at = "trade"
<1>1. /\ section[d] = "inside" /\ work[d].at = "send" /\ At(d, "send") /\ Trades(d)
      /\ UNCHANGED <<lockVars, legs, free, deals, orders, strayed>>
      /\ trades' = [trades EXCEPT ![d] = "sent"] /\ Goes(d, "trade")
  BY DEF SendTrade, At, Trades
<1>2. LockTypes' /\ section' = section /\ wrong' = wrong
  BY <1>1 DEF lockVars, LockTypes, FundedInv, Types
<1>3. Course(d) /\ trades[d] = "none"
  BY <1>1 DEF FundedInv, Courses, IInv, TradeInv, Untraded
<1>4. "trade" \in Points
  BY DEF Points
<1>5. /\ work' \in [Deals -> Works]
      /\ work'[d].at = "trade" /\ work'[d].plan = work[d].plan /\ work'[d].out = work[d].out
      /\ \A e \in Deals \ {d} : work'[e] = work[e]
  BY <1>1, <1>4, WorkGoes DEF FundedInv
<1>6. /\ trades' \in [Deals -> {"none", "sent", "done", "never"}] /\ trades'[d] = "sent"
      /\ \A e \in Deals \ {d} : trades'[e] = trades[e]
  BY <1>1 DEF FundedInv, Types
<1>7. Types' /\ Only(d)
  BY <1>1, <1>2, <1>5, <1>6 DEF FundedInv, Types, Only, SameDeal
<1>8. Course(d)'
  BY <1>1, <1>2, <1>3, <1>5, <1>6 DEF Course, Unfunded, ToStore, Trades, At
<1> QED BY <1>3, <1>5, <1>6, <1>7, <1>8 DEF Stepped

LEMMA TradedStepped ==
    ASSUME FundedInv, NEW d \in Deals, Traded(d)
    PROVE  Stepped(d)
<1>1. /\ section[d] = "inside" /\ work[d].at = "trade" /\ Trades(d) /\ At(d, "trade")
      /\ UNCHANGED <<lockVars, legs, free, trades, orders, strayed>>
  BY DEF Traded, At, Trades
<1>2. /\ LockTypes' /\ section' = section /\ wrong' = wrong /\ holder' = holder
      /\ lost' = lost
  BY <1>1 DEF lockVars, LockTypes, FundedInv, Types
<1>3. Course(d)
  BY DEF FundedInv, Courses
<1>4. CASE trades[d] = "never" /\ Refuse(d)
  <2>1. InPlace(d)
    BY <1>1, <1>2 DEF InPlace, FundedInv, Types, LockTypes
  <2> QED BY <1>1, <1>3, <1>4, <2>1, RefuseStepped
<1>5. CASE trades[d] = "done" /\ Goes(d, "record") /\ UNCHANGED deals
  <2>1. "record" \in Points
    BY DEF Points
  <2>2. /\ work' \in [Deals -> Works]
        /\ work'[d].at = "record" /\ work'[d].plan = work[d].plan
        /\ work'[d].out = work[d].out
        /\ \A e \in Deals \ {d} : work'[e] = work[e]
    BY <1>5, <2>1, WorkGoes DEF FundedInv
  <2>3. Types' /\ Only(d)
    BY <1>1, <1>2, <1>5, <2>2 DEF FundedInv, Types, Only, SameDeal
  <2>4. work[d].plan.entry > 0 /\ work[d].plan.kind \in Kinds
    BY <1>1, DealFields DEF FundedInv, IInv, TradeInv, Planned, Resumes
  <2>5. Course(d)'
    BY <1>1, <1>2, <1>3, <1>5, <2>2, <2>4 DEF Course, Unfunded, ToStore, Trades, At
  <2> QED BY <2>3, <2>5 DEF Stepped
<1> QED BY <1>4, <1>5 DEF Traded

LEMMA RecordStepped ==
    ASSUME FundedInv, NEW d \in Deals, Record(d)
    PROVE  Stepped(d)
<1>1. /\ section[d] = "inside" /\ work[d].at = "record" /\ At(d, "record")
      /\ UNCHANGED <<wrong, holder, section, legs, free, trades, orders>>
  BY DEF Record, At
<1>2. lost' \subseteq Sections /\ strayed' \subseteq {"trade", "record"}
  BY OwnedOrNot DEF Record, RecordsNoTrade, FundedInv, Types, LockTypes
<1>3. Course(d) /\ trades[d] # "sent" /\ orders[d] = "none"
  BY <1>1 DEF FundedInv, Courses, Course, Types
<1>4. CASE Ends(d, "refused") /\ UNCHANGED deals
  <2>1. "refused" \in Outs
    BY DEF Outs
  <2>2. /\ work' \in [Deals -> Works]
        /\ work'[d].at = "end" /\ work'[d].out = "refused" /\ work'[d].plan = Refusal
        /\ \A e \in Deals \ {d} : work'[e] = work[e]
    BY <1>4, <2>1, WorkEnds DEF FundedInv
  <2>3. Types' /\ Only(d)
    BY <1>1, <1>2, <1>4, <2>2 DEF FundedInv, Types, LockTypes, Only, SameDeal
  <2>4. deals[d].entry = 0 => deals[d].pending = 0
    BY <1>3 DEF Course
  <2>5. Course(d)'
    BY <1>1, <1>3, <1>4, <2>2, <2>3, <2>4, Smalls, CourseEnds
  <2> QED BY <2>3, <2>5 DEF Stepped
<1>5. CASE /\ deals' = [deals EXCEPT ![d] = Recorded(@, work[d].plan)]
           /\ Ends(d, "virtual")
  <2> DEFINE v == Recorded(deals[d], work[d].plan)
  <2>1. v \in StoredDeals /\ v.entry = work[d].plan.entry /\ v.pending = 0
    BY DealFields DEF Recorded, StoredDeals, FundedInv
  <2>2. deals' = [deals EXCEPT ![d] = v]
    BY <1>5
  <2>3. /\ deals' \in [Deals -> StoredDeals] /\ deals'[d] = v
        /\ \A e \in Deals \ {d} : deals'[e] = deals[e]
    <3> HIDE DEF v
    <3> QED BY <2>1, <2>2, DealWritten DEF FundedInv
  <2>4. "virtual" \in Outs
    BY DEF Outs
  <2>5. /\ work' \in [Deals -> Works]
        /\ work'[d].at = "end" /\ work'[d].out = "virtual" /\ work'[d].plan = Refusal
        /\ \A e \in Deals \ {d} : work'[e] = work[e]
    BY <1>5, <2>4, WorkEnds DEF FundedInv
  <2>6. Types' /\ Only(d)
    BY <1>1, <1>2, <2>3, <2>5 DEF FundedInv, Types, LockTypes, Only, SameDeal
  <2>7. work[d].plan.entry > 0
    BY <1>1 DEF FundedInv, IInv, TradeInv, Planned, Resumes
  <2>8. Course(d)'
    <3> HIDE DEF v
    <3> QED BY <1>1, <1>3, <2>1, <2>3, <2>5, <2>6, <2>7, Smalls, CourseEnds
  <2> QED BY <2>6, <2>8 DEF Stepped
<1> QED BY <1>4, <1>5 DEF Record

LEMMA LeaveStepped ==
    ASSUME FundedInv, NEW d \in Deals, Leave(d)
    PROVE  Stepped(d)
<1>1. /\ section[d] = "inside" /\ work[d].at = "end" /\ Release(d)
      /\ UNCHANGED <<legs, free, deals, work, trades, orders, strayed>>
  BY DEF Leave, At, fundingVars
<1>2. /\ LockTypes' /\ wrong' = wrong /\ section'[d] = "over"
      /\ \A e \in Deals \ {d} : section'[e] = section[e]
  BY <1>1, LockStep DEF FundedInv, Types, Deals
<1>3. Types' /\ Only(d)
  BY <1>1, <1>2 DEF FundedInv, Types, Only, SameDeal
<1>4. Course(d)
  BY DEF FundedInv, Courses
<1>5. Course(d)'
  BY <1>1, <1>2, <1>4 DEF Course, Unfunded, ToStore, Trades, At
<1> QED BY <1>3, <1>5 DEF Stepped

LEMMA GiveUpStepped ==
    ASSUME FundedInv, NEW d \in Deals, GiveUp(d)
    PROVE  Stepped(d)
<1>1. /\ section[d] \in {"over", "refused"} /\ work[d].at \notin {"placing", "done"}
      /\ UNCHANGED <<lockVars, legs, free, trades, orders, strayed>>
      /\ Finishes(d) /\ (Retire(d) \/ UNCHANGED deals)
  BY DEF GiveUp, Outside
<1>2. LockTypes' /\ section' = section /\ wrong' = wrong
  BY <1>1 DEF lockVars, LockTypes, FundedInv, Types
<1>3. Course(d)
  BY DEF FundedInv, Courses
<1>4. /\ work' \in [Deals -> Works]
      /\ work'[d].at = "done" /\ work'[d].out = "none" /\ work'[d].plan = Refusal
      /\ \A e \in Deals \ {d} : work'[e] = work[e]
  BY <1>1, WorkFinishes DEF FundedInv
<1>5. /\ deals' \in [Deals -> StoredDeals] /\ deals'[d].entry = deals[d].entry
      /\ deals'[d].pending = deals[d].pending
      /\ \A e \in Deals \ {d} : deals'[e] = deals[e]
  BY <1>1, DealStatus DEF Retire, FundedInv, Types
<1>6. Types' /\ Only(d)
  BY <1>1, <1>2, <1>4, <1>5 DEF FundedInv, Types, Only, SameDeal
<1>7. orders[d] = "none" /\ (deals[d].entry = 0 => deals[d].pending = 0)
  BY <1>1, <1>3 DEF Course, FundedInv, Types
<1>8. Course(d)'
  BY <1>1, <1>2, <1>4, <1>5, <1>6, <1>7, Smalls, CourseEnds
<1> QED BY <1>6, <1>8 DEF Stepped

LEMMA WriteRowsStepped ==
    ASSUME FundedInv, NEW d \in Deals, WriteRows(d)
    PROVE  Stepped(d) /\ (work'[d].at = "placing" => deals[d].status = "start")
<1>1. /\ section[d] \in {"over", "refused"} /\ work[d].at \notin {"placing", "done"}
      /\ UNCHANGED <<lockVars, legs, free, trades, strayed>>
      /\ section[d] = "over" /\ work[d].out \in {"virtual", "held"}
  BY DEF WriteRows, Outside, Out
<1>2. LockTypes' /\ section' = section /\ wrong' = wrong
  BY <1>1 DEF lockVars, LockTypes, FundedInv, Types
<1>3. Course(d) /\ orders[d] = "none" /\ deals[d].pending = 0 /\ ~Unfunded(d)
  BY <1>1 DEF FundedInv, Courses, Course, Types, Unfunded, ToStore, At
<1>4. CASE deals[d].status = "start" /\ Starts(d)
  <2>1. /\ deals' \in [Deals -> StoredDeals] /\ deals'[d].status = "open"
        /\ deals'[d].entry = deals[d].entry
        /\ deals'[d].pending = 0
        /\ \A e \in Deals \ {d} : deals'[e] = deals[e]
    BY <1>3, <1>4, DealStatus DEF Starts, FundedInv
  <2>2. /\ orders' \in [Deals -> {"none", "written", "resting"}] /\ orders'[d] = "written"
        /\ \A e \in Deals \ {d} : orders'[e] = orders[e]
    BY <1>4 DEF Starts, FundedInv, Types
  <2>3. "placing" \in Points
    BY DEF Points
  <2>4. /\ work' \in [Deals -> Works]
        /\ work'[d].at = "placing" /\ work'[d].plan = work[d].plan
        /\ \A e \in Deals \ {d} : work'[e] = work[e]
    BY <1>4, <2>3, WorkGoes DEF Starts, FundedInv
  <2>5. Types' /\ Only(d)
    BY <1>1, <1>2, <2>1, <2>2, <2>4 DEF FundedInv, Types, Only, SameDeal
  <2>6. Course(d)'
    BY <1>1, <1>2, <1>3, <2>1, <2>2, <2>4 DEF Course, Unfunded, ToStore, Trades, At
  <2> QED BY <1>4, <2>5, <2>6 DEF Stepped
<1>5. CASE Finishes(d) /\ UNCHANGED <<deals, orders>>
  <2>1. /\ work' \in [Deals -> Works]
        /\ work'[d].at = "done" /\ work'[d].out = "none" /\ work'[d].plan = Refusal
        /\ \A e \in Deals \ {d} : work'[e] = work[e]
    BY <1>5, WorkFinishes DEF FundedInv
  <2>2. Types' /\ Only(d)
    BY <1>1, <1>2, <1>5, <2>1 DEF FundedInv, Types, Only, SameDeal
  <2>3. Course(d)'
    BY <1>1, <1>2, <1>3, <1>5, <2>1, <2>2, Smalls, CourseEnds
  <2> QED BY <2>1, <2>2, <2>3 DEF Stepped
<1> QED BY <1>4, <1>5 DEF WriteRows

LEMMA Sides ==
    ASSUME Types, NEW d \in Deals
    PROVE  /\ Need(d) \in Assets /\ Spend(d) \in Assets /\ Need(d) # Spend(d)
           /\ \A x \in Assets : x = Need(d) \/ x = Spend(d)
<1>1. legs[d].need \in Assets
  BY LegsAssumption DEF Types
<1> QED BY <1>1 DEF Need, Spend, Other, Assets

LEMMA PlaceStepped ==
    ASSUME FundedInv, NEW d \in Deals, Place(d)
    PROVE  Stepped(d) /\ work'[d].at = "done"
<1>1. /\ work[d].at = "placing" /\ Finishes(d)
      /\ UNCHANGED <<lockVars, legs, trades, strayed>>
  BY DEF Place
<1>2. LockTypes' /\ section' = section /\ wrong' = wrong
  BY <1>1 DEF lockVars, LockTypes, FundedInv, Types
<1>3. Course(d)
  BY DEF FundedInv, Courses
<1>4. /\ work' \in [Deals -> Works]
      /\ work'[d].at = "done" /\ work'[d].out = "none" /\ work'[d].plan = Refusal
      /\ \A e \in Deals \ {d} : work'[e] = work[e]
  BY <1>1, WorkFinishes DEF FundedInv
<1>5. /\ section[d] \notin {"idle", "asking", "down"}
      /\ section[d] # "inside" \/ trades[d] # "sent"
      /\ deals[d].entry = 0 => deals[d].pending = 0
  BY <1>1, <1>3 DEF Course
<1>6. CASE UNCHANGED <<free, deals, orders>>
  <2>1. Types' /\ Only(d)
    BY <1>1, <1>2, <1>4, <1>6 DEF FundedInv, Types, Only, SameDeal
  <2>2. Course(d)'
    BY <1>1, <1>2, <1>4, <1>5, <1>6, <2>1, Smalls, CourseEnds
  <2> QED BY <1>4, <2>1, <2>2 DEF Stepped
<1>7. CASE /\ Affordable(d)
           /\ free' = [free EXCEPT ![Need(d)] = @ - deals[d].hold,
                                   ![Spend(d)] = @ - deals[d].entry]
           /\ deals' = [deals EXCEPT ![d].hold = HoldRemaining(d)]
           /\ orders' = [orders EXCEPT ![d] = "resting"]
  <2>1. deals[d].hold \in Nat /\ deals[d].entry \in Nat /\ HoldRemaining(d) \in Nat
    BY DealFields DEF FundedInv, HoldRemaining, PlacedNeed, Minus
  <2>2. /\ deals' \in [Deals -> StoredDeals] /\ deals'[d].entry = deals[d].entry
        /\ deals'[d].pending = deals[d].pending
        /\ \A e \in Deals \ {d} : deals'[e] = deals[e]
    BY <1>7, <2>1, DealHold DEF FundedInv
  <2>3. free' \in [Assets -> Nat]
    <3>1. /\ free \in [Assets -> Nat]
          /\ free[Need(d)] - deals[d].hold \in Nat
          /\ free[Spend(d)] - deals[d].entry \in Nat
      BY <1>7, <2>1, Sides DEF Affordable, FundedInv, Types
    <3>2. \A x \in Assets : free'[x] \in Nat
      BY <1>7, <3>1, Sides DEF FundedInv
    <3> QED BY <1>7, <3>1, <3>2
  <2>4. /\ orders' \in [Deals -> {"none", "written", "resting"}]
        /\ \A e \in Deals \ {d} : orders'[e] = orders[e]
    BY <1>7 DEF FundedInv, Types
  <2>5. Types' /\ Only(d)
    BY <1>1, <1>2, <1>4, <2>2, <2>3, <2>4 DEF FundedInv, Types, Only, SameDeal
  <2>6. Course(d)'
    BY <1>1, <1>2, <1>4, <1>5, <2>2, <2>5, Smalls, CourseEnds
  <2> QED BY <1>4, <2>5, <2>6 DEF Stepped
<1> QED BY <1>6, <1>7 DEF Place

LEMMA ExecuteStepped ==
    ASSUME FundedInv, NEW d \in Deals, Execute(d)
    PROVE  Stepped(d) /\ trades[d] = "sent" /\ trades'[d] \in {"done", "never"}
<1>1. /\ trades[d] = "sent"
      /\ UNCHANGED <<lockVars, legs, deals, work, orders, strayed>>
  BY DEF Execute
<1>2. LockTypes' /\ section' = section /\ wrong' = wrong
  BY <1>1 DEF lockVars, LockTypes, FundedInv, Types
<1>3. Course(d) /\ ~Untraded(d)
  BY <1>1 DEF FundedInv, Courses, IInv, TradeInv
<1>4. /\ trades' \in [Deals -> {"none", "sent", "done", "never"}]
      /\ trades'[d] \in {"done", "never"}
      /\ \A e \in Deals \ {d} : trades'[e] = trades[e]
  BY DEF Execute, FundedInv, Types
<1>5. free' \in [Assets -> Nat]
  <2>1. deals[d].pending \in Nat /\ free \in [Assets -> Nat]
    BY DealFields DEF FundedInv, Types
  <2>2. CASE UNCHANGED free
    BY <2>1, <2>2
  <2>3. CASE /\ free[Spend(d)] >= deals[d].pending
             /\ free' = [free EXCEPT ![Spend(d)] = @ - deals[d].pending,
                                     ![Need(d)] = @ + deals[d].pending]
    <3>1. /\ free[Spend(d)] - deals[d].pending \in Nat
          /\ free[Need(d)] + deals[d].pending \in Nat
      BY <2>1, <2>3, Sides DEF FundedInv
    <3>2. \A x \in Assets : free'[x] \in Nat
      BY <2>1, <2>3, <3>1, Sides DEF FundedInv
    <3> QED BY <2>1, <2>3, <3>2
  <2> QED BY <2>2, <2>3 DEF Execute
<1>6. Types' /\ Only(d)
  BY <1>1, <1>2, <1>4, <1>5 DEF FundedInv, Types, Only, SameDeal
<1>7. Course(d)'
  BY <1>1, <1>2, <1>3, <1>4 DEF Course, Unfunded, ToStore, Trades, At, Untraded
<1> QED BY <1>1, <1>4, <1>6, <1>7 DEF Stepped

LEMMA CloseStepped ==
    ASSUME FundedInv, NEW d \in Deals, CloseDeal(d)
    PROVE  Stepped(d)
<1>1. /\ deals[d].status = "start" /\ Retire(d)
      /\ UNCHANGED <<lockVars, legs, free, work, trades, orders, strayed>>
      /\ work[d].at \in {"none", "read"} \/ work[d].plan.kind = "fund"
           \/ work[d].out = "virtual"
  BY DEF CloseDeal
<1>2. LockTypes' /\ section' = section /\ wrong' = wrong
  BY <1>1 DEF lockVars, LockTypes, FundedInv, Types
<1>3. Course(d)
  BY DEF FundedInv, Courses
<1>4. /\ deals' \in [Deals -> StoredDeals] /\ deals'[d].entry = deals[d].entry
      /\ deals'[d].hold = deals[d].hold /\ deals'[d].pending = deals[d].pending
      /\ \A e \in Deals \ {d} : deals'[e] = deals[e]
  BY <1>1, DealStatus DEF Retire, FundedInv
<1>5. Types' /\ Only(d)
  BY <1>1, <1>2, <1>4 DEF FundedInv, Types, Only, SameDeal
<1>6. ~At(d, "plan") /\ work[d].at # "placing"
  BY <1>1, <1>3 DEF Course, At
<1>7. Course(d)'
  BY <1>1, <1>2, <1>3, <1>4, <1>6 DEF Course, Unfunded, ToStore, Trades, At
<1> QED BY <1>5, <1>7 DEF Stepped

LEMMA HangStepped ==
    ASSUME FundedInv, NEW d \in Deals, Hang(d)
    PROVE  Stepped(d) /\ work'[d].at = "hung"
<1>1. /\ section[d] = "inside"
      /\ work[d].at \in {"read", "plan", "intend", "hold", "record"}
      /\ Turns(d, Memory("hung", NoBalances, Refusal, "none"))
      /\ UNCHANGED <<lockVars, legs, free, deals, trades, orders, strayed>>
  BY DEF Hang
<1>2. LockTypes' /\ section' = section /\ wrong' = wrong
  BY <1>1 DEF lockVars, LockTypes, FundedInv, Types
<1>3. Course(d)
  BY DEF FundedInv, Courses
<1>4. "hung" \in Points /\ "none" \in Outs
  BY DEF Points, Outs
<1>5. /\ work' \in [Deals -> Works]
      /\ work'[d].at = "hung" /\ work'[d].out = "none" /\ work'[d].plan = Refusal
      /\ \A e \in Deals \ {d} : work'[e] = work[e]
  BY <1>1, <1>4, Smalls, MemoryType, WorkTurns DEF FundedInv
<1>6. Types' /\ Only(d)
  BY <1>1, <1>2, <1>5 DEF FundedInv, Types, Only, SameDeal
<1>7. Course(d)'
  BY <1>1, <1>2, <1>3, <1>5, Smalls DEF Course, Unfunded, ToStore, Trades, At
<1> QED BY <1>5, <1>6, <1>7 DEF Stepped

LEMMA DieStepped ==
    ASSUME FundedInv, NEW d \in Deals, Die(d)
    PROVE  Stepped(d) /\ section'[d] = "down" /\ work'[d].at = "none"
<1>1. /\ work[d].at \notin {"placing", "done"} /\ Crash(d) /\ Turns(d, Blank)
      /\ UNCHANGED <<legs, free, deals, trades, orders, strayed>>
  BY DEF Die
<1>2. /\ LockTypes' /\ wrong' = wrong /\ section'[d] = "down"
      /\ \A e \in Deals \ {d} : section'[e] = section[e]
  BY <1>1, LockStep DEF FundedInv, Types, Deals
<1>3. Course(d)
  BY DEF FundedInv, Courses
<1>4. /\ work' \in [Deals -> Works] /\ work'[d] = Blank
      /\ \A e \in Deals \ {d} : work'[e] = work[e]
  BY <1>1, Smalls, WorkTurns DEF FundedInv
<1>5. Types' /\ Only(d)
  BY <1>1, <1>2, <1>4 DEF FundedInv, Types, Only, SameDeal
<1>6. Course(d)'
  BY <1>1, <1>2, <1>3, <1>4, Smalls DEF Course, Unfunded, ToStore, Trades, At
<1> QED BY <1>2, <1>4, <1>5, <1>6, Smalls DEF Stepped

LEMMA RestartStepped ==
    ASSUME FundedInv, NEW d \in Deals, Restart(d)
    PROVE  Stepped(d) /\ work'[d].at \in {"none", "end", "done"}
<1>1. /\ section[d] = "down" /\ UNCHANGED <<legs, free, trades, orders, strayed>>
      /\ UNCHANGED <<wrong, holder, lost>>
  BY DEF Restart, Resume, Back
<1>2. /\ Course(d) /\ work[d].at = "none" /\ orders[d] = "none"
      /\ work[d].out = "none" /\ (deals[d].entry = 0 => deals[d].pending = 0)
  BY <1>1 DEF FundedInv, Courses, Course, Types
<1>3. CASE ~Resumes(deals[d]) /\ Back(d, "idle") /\ UNCHANGED <<work, deals>>
  <2>1. /\ LockTypes' /\ section'[d] = "idle"
        /\ \A e \in Deals \ {d} : section'[e] = section[e]
    BY <1>1, <1>3, LockMoves DEF Back, FundedInv, Types, LockTypes, Places, Deals
  <2>2. Types' /\ Only(d)
    BY <1>1, <1>3, <2>1 DEF FundedInv, Types, Only, SameDeal
  <2>3. deals[d].entry = 0 /\ trades[d] = "none"
    BY <1>3, DealFields DEF FundedInv, IInv, TradeInv, Resumes
  <2>4. Course(d)'
    BY <1>1, <1>2, <1>3, <2>1, <2>3 DEF Course, Unfunded, ToStore, Trades, At
  <2> QED BY <1>2, <1>3, <2>2, <2>4 DEF Stepped
<1>4. ASSUME Back(d, "over"), Finishes(d) \/ Ends(d, "virtual"),
             \/ Retire(d) /\ Finishes(d)
             \/ UNCHANGED deals /\ (Finishes(d) \/ deals[d].pending = 0)
             \/ deals' = [deals EXCEPT ![d].pending = 0]
      PROVE  Stepped(d) /\ work'[d].at \in {"end", "done"}
  <2>1. /\ LockTypes' /\ section'[d] = "over"
        /\ \A e \in Deals \ {d} : section'[e] = section[e]
    BY <1>1, <1>4, LockMoves DEF Back, FundedInv, Types, LockTypes, Places, Deals
  <2>2. "virtual" \in Outs
    BY DEF Outs
  <2>3. /\ work' \in [Deals -> Works] /\ work'[d].plan = Refusal
        /\ \/ work'[d].at = "end" /\ work'[d].out = "virtual"
           \/ work'[d].at = "done" /\ work'[d].out = "none"
        /\ Finishes(d) => work'[d].at = "done" /\ work'[d].out = "none"
        /\ \A e \in Deals \ {d} : work'[e] = work[e]
    BY <1>4, <2>2, WorkFinishes, WorkEnds DEF FundedInv
  <2>4. /\ deals' \in [Deals -> StoredDeals] /\ deals'[d].entry = deals[d].entry
        /\ deals'[d].pending \in {0, deals[d].pending}
        /\ Finishes(d) \/ deals'[d].pending = 0
        /\ \A e \in Deals \ {d} : deals'[e] = deals[e]
    BY <1>4, DealStatus, DealPending DEF Retire, FundedInv, Types
  <2>5. Types' /\ Only(d)
    BY <1>1, <2>1, <2>3, <2>4 DEF FundedInv, Types, Only, SameDeal
  <2>6. Course(d)'
    BY <1>1, <1>2, <2>1, <2>3, <2>4, <2>5, Smalls, CourseEnds
  <2> QED BY <2>3, <2>5, <2>6 DEF Stepped
<1>5. CASE Finishes(d) /\ Back(d, "over") /\ UNCHANGED deals
  BY <1>4, <1>5
<1>6. CASE Resume(d)
  <2>1. /\ Back(d, "over")
        /\ Finishes(d) \/ Ends(d, "virtual")
        /\ \/ Retire(d) /\ Finishes(d)
           \/ UNCHANGED deals /\ deals[d].pending = 0
           \/ deals' = [deals EXCEPT ![d].pending = 0]
    BY <1>6 DEF Resume
  <2> QED BY <1>4, <2>1
<1> QED BY <1>3, <1>5, <1>6 DEF Restart

\* The steps of the lease alone.
LEMMA LeaseStepped ==
    ASSUME FundedInv, LeaseLapses \/ \E d \in Deals : HeartbeatStops(d)
    PROVE  Types' /\ UNCHANGED <<wrong, section, legs, free, deals, work, trades, orders>>
<1>1. UNCHANGED <<wrong, section, legs, free, deals, work, trades, orders>>
  BY DEF LeaseLapses, Lapse, HeartbeatStops, Overstay, fundingVars
<1>2. /\ holder' \in Sections \cup {NoOne} /\ lost' \subseteq Sections
      /\ strayed' \subseteq {"trade", "record"}
  BY DEF LeaseLapses, Lapse, HeartbeatStops, Overstay, fundingVars, Trading, FundedInv,
         Types, LockTypes, Deals
<1> QED BY <1>1, <1>2 DEF FundedInv, Types, LockTypes

-----------------------------------------------------------------------------
(* The types and the course of every deal are kept *)

LEMMA FundedInitially == Init => FundedInv
<1> SUFFICES ASSUME Init PROVE FundedInv
  OBVIOUS
<1>1. IInv
  BY Initially
<1>2. /\ section = [d \in Deals |-> "idle"] /\ work = [d \in Deals |-> Blank]
      /\ trades = [d \in Deals |-> "none"] /\ orders = [d \in Deals |-> "none"]
      /\ deals = [d \in Deals |-> [status |-> "start", entry |-> 0, hold |-> 0,
                                   pending |-> 0]]
      /\ strayed = {} /\ legs \in [Deals -> Legs] /\ free \in Balances
      /\ wrong \in Worlds /\ holder = NoOne /\ lost = {}
  BY DEF Init, LockInit, Deals
<1>3. LockTypes
  BY <1>2 DEF LockTypes, Places, Deals
<1>4. Types
  BY <1>2, <1>3, Smalls, BalancesAssumption DEF Types, StoredDeals
<1>5. Courses
  BY <1>2, Smalls DEF Courses, Course, Unfunded, ToStore, Trades, At
<1> QED BY <1>1, <1>4, <1>5 DEF FundedInv

LEMMA StepsOfADeal ==
    ASSUME FundedInv, NEW d \in Deals,
           \/ Onward(d) \/ AfterSection(d) \/ Execute(d) \/ CloseDeal(d) \/ Hang(d) \/ Die(d)
    PROVE  Stepped(d)
<1>1. CASE AskFunding(d) \/ Enter(d) \/ NotAcquired(d) \/ Restart(d)
  BY <1>1, AskStepped, EnterStepped, NotAcquiredStepped, RestartStepped
<1>2. CASE InSection(d)
  BY <1>2, ReadStepped, DecideStepped, UnreadableStepped, HoldStepped, IntendStepped,
     SendStepped, TradedStepped, RecordStepped, LeaveStepped DEF InSection
<1>3. CASE AfterSection(d)
  BY <1>3, GiveUpStepped, WriteRowsStepped, PlaceStepped DEF AfterSection
<1>4. CASE Execute(d) \/ CloseDeal(d) \/ Hang(d) \/ Die(d)
  BY <1>4, ExecuteStepped, CloseStepped, HangStepped, DieStepped
<1> QED BY <1>1, <1>2, <1>3, <1>4 DEF Onward

LEMMA FundedSteps == FundedInv /\ [Next]_vars => FundedInv'
<1> SUFFICES ASSUME FundedInv, [Next]_vars PROVE FundedInv'
  OBVIOUS
<1>1. IInv'
  BY Steps DEF FundedInv
<1>2. CASE UNCHANGED vars
  <2>1. Types'
    BY <1>2 DEF FundedInv, Types, LockTypes, vars, lockVars, fundingVars
  <2>2. Courses'
    BY <1>2 DEF FundedInv, Courses, Course, Unfunded, ToStore, Trades, At,
                vars, lockVars, fundingVars
  <2> QED BY <1>1, <2>1, <2>2 DEF FundedInv
<1>3. CASE LeaseLapses \/ \E d \in Deals : HeartbeatStops(d)
  <2>1. Types' /\ UNCHANGED <<section, deals, work, trades, orders>>
    BY <1>3, LeaseStepped
  <2>2. Courses'
    BY <2>1 DEF FundedInv, Courses, Course, Unfunded, ToStore, Trades, At
  <2> QED BY <1>1, <2>1, <2>2 DEF FundedInv
<1>4. ASSUME NEW d \in Deals,
             \/ Onward(d) \/ AfterSection(d) \/ Execute(d) \/ CloseDeal(d) \/ Hang(d)
             \/ Die(d)
      PROVE  FundedInv'
  <2>1. Stepped(d)
    BY <1>4, StepsOfADeal
  <2>2. Courses'
    BY <2>1, CourseElsewhere DEF Stepped, FundedInv
  <2> QED BY <1>1, <2>1, <2>2 DEF Stepped, FundedInv
<1> QED BY <1>2, <1>3, <1>4 DEF Next, AllDecided

(***************************************************************************)
(* Every variable of the funding keeps its type, in every world: no free   *)
(* balance goes below zero, and neither does what a deal holds, plans or   *)
(* has pending. (fundHedgeLegEntry, syncFundingHold)                       *)
(***************************************************************************)
THEOREM FundingTypeCorrect == Spec => []TypeOK
<1>1. Init => FundedInv
  BY FundedInitially
<1>2. FundedInv /\ [Next]_vars => FundedInv'
  BY FundedSteps
<1>3. FundedInv => TypeOK
  BY TypesMean DEF FundedInv
<1> QED BY <1>1, <1>2, <1>3, PTL DEF Spec

-----------------------------------------------------------------------------
(* What the deals take out of the account *)

Backing(d) == Minus(deals[d].hold, IF trades[d] = "done" THEN 0 ELSE deals[d].pending)
TakesOf(x) == [d \in Deals |-> Takes(d, x)]
Others(d, x) == Total([e \in Deals \ {d} |-> Takes(e, x)])

\* What a deal will take when its plan is stored.
PlanTakes(d, x) ==
    IF x = Spend(d) THEN work[d].plan.entry + work[d].plan.trade
    ELSE Minus(work[d].plan.hold, work[d].plan.trade)

LEMMA TakesParts ==
    ASSUME Types, NEW d \in Deals
    PROVE  /\ OnItsWay(d) \in Nat /\ Backing(d) \in Nat
           /\ Takes(d, Spend(d)) = OnItsWay(d) + (IF Unplaced(d) THEN deals[d].entry ELSE 0)
           /\ Takes(d, Need(d)) = (IF Unplaced(d) THEN Backing(d) ELSE 0)
           /\ \A x \in Assets : Takes(d, x) \in Nat
<1>1. /\ deals[d].hold \in Nat /\ deals[d].pending \in Nat /\ deals[d].entry \in Nat
  BY DealFields
<1>2. OnItsWay(d) \in Nat /\ Backing(d) \in Nat
  BY <1>1 DEF OnItsWay, Backing, Minus
<1>3. Need(d) # Spend(d) /\ \A x \in Assets : x = Need(d) \/ x = Spend(d)
  BY Sides
<1>4. \A x : Takes(d, x) = (IF x = Spend(d) THEN OnItsWay(d) ELSE 0)
                          + (IF x = Spend(d) /\ Unplaced(d) THEN deals[d].entry ELSE 0)
                          + (IF x = Need(d) /\ Unplaced(d) THEN Backing(d) ELSE 0)
  BY DEF Takes, Backing
<1>5. Takes(d, Spend(d)) = OnItsWay(d) + (IF Unplaced(d) THEN deals[d].entry ELSE 0)
  BY <1>1, <1>2, <1>3, <1>4
<1>6. Takes(d, Need(d)) = (IF Unplaced(d) THEN Backing(d) ELSE 0)
  BY <1>1, <1>2, <1>3, <1>4
<1> QED BY <1>1, <1>2, <1>3, <1>5, <1>6

\* The whole is what one takes and what the others take, of whom one may be
\* taken apart again.
Remaining(d, e, x) == Total([c \in Deals \ {d, e} |-> Takes(c, x)])

LEMMA TakesSplit ==
    ASSUME Types, NEW x \in Assets, NEW d \in Deals
    PROVE  /\ Total(TakesOf(x)) = Takes(d, x) + Others(d, x)
           /\ Others(d, x) \in Nat /\ Total(TakesOf(x)) \in Nat
           /\ \A e \in Deals \ {d} : /\ Others(e, x) = Takes(d, x) + Remaining(d, e, x)
                                     /\ Remaining(d, e, x) \in Nat
<1>1. IsFiniteSet(Deals) /\ \A e \in Deals : IsFiniteSet(Deals \ {e})
  BY SectionsAssumption, FS_RemoveElement DEF Deals
<1>2. \A e \in Deals : Takes(e, x) \in Nat
  BY TakesParts
<1>3. TakesOf(x) \in Sums(Deals) /\ TakesOf(x)[d] = Takes(d, x) /\ DOMAIN TakesOf(x) = Deals
  BY <1>2 DEF TakesOf, Sums
<1>4. Without(TakesOf(x), d) = [e \in Deals \ {d} |-> Takes(e, x)]
  BY DEF Without, TakesOf
<1>5. /\ Total(TakesOf(x)) = Takes(d, x) + Others(d, x)
      /\ Others(d, x) \in Nat /\ Total(TakesOf(x)) \in Nat
  BY <1>1, <1>3, <1>4, TotalSplit, TotalType DEF Others
<1>6. ASSUME NEW e \in Deals \ {d}
      PROVE  /\ Others(e, x) = Takes(d, x) + Remaining(d, e, x)
             /\ Remaining(d, e, x) \in Nat
  <2> DEFINE f == [c \in Deals \ {e} |-> Takes(c, x)]
  <2>1. f \in Sums(Deals \ {e}) /\ f[d] = Takes(d, x) /\ d \in Deals \ {e}
    BY <1>2, <1>6 DEF Sums
  <2>2. (Deals \ {e}) \ {d} = Deals \ {d, e}
    OBVIOUS
  <2>3. Without(f, d) = [c \in Deals \ {d, e} |-> Takes(c, x)]
    BY <2>2 DEF Without
  <2>4. IsFiniteSet(Deals \ {e})
    BY <1>1, <1>6
  <2>5. Total(f) = Takes(d, x) + Total(Without(f, d)) /\ Total(Without(f, d)) \in Nat
    <3> HIDE DEF f
    <3> QED BY <2>1, <2>4, TotalSplit
  <2> QED BY <2>3, <2>5 DEF Others, Remaining
<1> QED BY <1>5, <1>6

\* The same of the state after a step.
TakesKnown ==
    \A d \in Deals :
      /\ OnItsWay(d) \in Nat /\ Backing(d) \in Nat
      /\ Takes(d, Spend(d)) = OnItsWay(d) + (IF Unplaced(d) THEN deals[d].entry ELSE 0)
      /\ Takes(d, Need(d)) = (IF Unplaced(d) THEN Backing(d) ELSE 0)
      /\ \A x \in Assets : Takes(d, x) \in Nat
SplitKnown ==
    \A x \in Assets, d \in Deals :
      /\ Total(TakesOf(x)) = Takes(d, x) + Others(d, x)
      /\ Others(d, x) \in Nat
      /\ \A e \in Deals \ {d} : /\ Others(e, x) = Takes(d, x) + Remaining(d, e, x)
                                /\ Remaining(d, e, x) \in Nat

LEMMA TakesNext == Types' => TakesKnown' /\ SplitKnown'
<1>1. Types => TakesKnown
  BY TakesParts DEF TakesKnown
<1>2. Types => SplitKnown
  BY TakesSplit DEF SplitKnown
<1> QED BY <1>1, <1>2, PTL

\* A step of one deal changes what the others take of nobody.
LEMMA TakesElsewhere ==
    ASSUME NEW d \in Deals, Only(d)
    PROVE  \A x, e : e \in Deals \ {d} => Takes(e, x)' = Takes(e, x)
BY DEF Only, SameDeal, Takes, OnItsWay, Unplaced, Need, Spend, At

LEMMA OthersElsewhere ==
    ASSUME Types, Types', NEW d \in Deals, Only(d), NEW x \in Assets
    PROVE  /\ Others(d, x)' = Others(d, x)
           /\ \A e \in Deals \ {d} : Remaining(d, e, x)' = Remaining(d, e, x)
<1>1. \A e \in Deals \ {d} : Takes(e, x)' = Takes(e, x)
  BY TakesElsewhere
<1>2. [e \in Deals \ {d} |-> Takes(e, x)]' = [e \in Deals \ {d} |-> Takes(e, x)]
  BY <1>1
<1>3. \A e \in Deals \ {d} : [c \in Deals \ {d, e} |-> Takes(c, x)]'
                              = [c \in Deals \ {d, e} |-> Takes(c, x)]
  BY <1>1
<1> QED BY <1>2, <1>3 DEF Others, Remaining

-----------------------------------------------------------------------------
(* The account has it *)

\* A trade that is on its way has the account to itself.
Leased == \A d \in Deals : At(d, "send") \/ trades[d] = "sent" => holder = d

\* Rows are written for orders that are placed next.
RowsPlaced == \A d \in Deals : orders[d] = "written" => work[d].at = "placing"

\* Nothing moves between the two reads of who holds the account.
Reading ==
    \A d \in Deals : At(d, "plan") =>
      /\ \A e \in Deals : work[e].at # "placing"
      /\ holder = d => work[d].seen = free

\* The account has what a plan takes, besides what the others take.
Affords(d) == \A x \in Assets : PlanTakes(d, x) + Others(d, x) <= free[x]

Money ==
    /\ Leased /\ RowsPlaced /\ Reading /\ Covered
    /\ \A d \in Deals : ToStore(d) /\ holder = d => Affords(d)

Calmly == strayed = {} /\ "placing" \notin wrong
SolventInv == FundedInv /\ (Calmly => Money)

\* The token changes hands between a deal and nobody.
LeaseOf(d) == \A e \in Deals \ {d} : holder' = e <=> holder = e

\* The part of a deal in the conjuncts about all of them.
Mine(d) ==
    /\ At(d, "send") \/ trades[d] = "sent" => holder = d
    /\ orders[d] = "written" => work[d].at = "placing"
    /\ At(d, "plan") => /\ \A e \in Deals : work[e].at # "placing"
                        /\ holder = d => work[d].seen = free
    /\ work[d].at = "placing" => \A e \in Deals : ~At(e, "plan")
    /\ ToStore(d) /\ holder = d => Affords(d)

LEMMA MoneyKept ==
    ASSUME Types, Types', Money, NEW d \in Deals, Only(d), LeaseOf(d), Mine(d)',
           Covered',
           \A e \in Deals \ {d} : holder = e => free' = free \/ ~At(e, "plan"),
           \A e \in Deals \ {d} : ToStore(e) /\ holder = e => Affords(e)'
    PROVE  Money'
<1>1. \A e \in Deals \ {d} : /\ (At(e, "send") <=> At(e, "send")')
                             /\ (At(e, "plan") <=> At(e, "plan")')
                             /\ (ToStore(e) <=> ToStore(e)')
                             /\ trades'[e] = trades[e] /\ orders'[e] = orders[e]
                             /\ work'[e] = work[e] /\ (holder' = e <=> holder = e)
  BY DEF Only, SameDeal, At, ToStore, LeaseOf
<1>2. Leased'
  <2>1. ASSUME NEW e \in Deals, (At(e, "send") \/ trades[e] = "sent")'
        PROVE  holder' = e
    BY <1>1, <2>1 DEF Money, Leased, Mine
  <2> QED BY <2>1 DEF Leased
<1>3. RowsPlaced'
  <2>1. ASSUME NEW e \in Deals, orders'[e] = "written"
        PROVE  work'[e].at = "placing"
    BY <1>1, <2>1 DEF Money, RowsPlaced, Mine
  <2> QED BY <2>1 DEF RowsPlaced
<1>4. Reading'
  <2>1. ASSUME NEW e \in Deals, At(e, "plan")'
        PROVE  /\ \A c \in Deals : work'[c].at # "placing"
               /\ holder' = e => work'[e].seen = free'
    <3>1. CASE e = d
      BY <2>1, <3>1 DEF Mine
    <3>2. CASE e # d
      <4>1. At(e, "plan") /\ \A c \in Deals : work[c].at # "placing"
        BY <1>1, <2>1, <3>2 DEF Money, Reading
      <4>2. work'[d].at # "placing"
        BY <2>1 DEF Mine
      <4>3. \A c \in Deals : work'[c].at # "placing"
        BY <1>1, <4>1, <4>2
      <4>4. holder' = e => work'[e].seen = free'
        BY <1>1, <3>2, <4>1 DEF Money, Reading
      <4> QED BY <4>3, <4>4
    <3> QED BY <3>1, <3>2
  <2> QED BY <2>1 DEF Reading
<1>5. ASSUME NEW e \in Deals, (ToStore(e) /\ holder = e)'
      PROVE  Affords(e)'
  BY <1>1, <1>5 DEF Mine
<1> QED BY <1>2, <1>3, <1>4, <1>5 DEF Money

\* A step after which a deal takes no more than the account lost by it.
Pays(d) == \A x \in Assets : Takes(d, x)' - Takes(d, x) <= free'[x] - free[x]

LEMMA PaidFor ==
    ASSUME Types, Types', Money, NEW d \in Deals, Only(d), Pays(d)
    PROVE  /\ Covered'
           /\ \A e \in Deals \ {d} : ToStore(e) /\ holder = e => Affords(e)'
<1>0. ASSUME NEW x \in Assets
      PROVE  free[x] \in Nat /\ free'[x] \in Nat /\ Takes(d, x) \in Nat
             /\ Takes(d, x)' \in Nat
  BY <1>0, TakesParts, TakesNext DEF Types, TakesKnown
<1>1. ASSUME NEW x \in Assets
      PROVE  Total(TakesOf(x))' <= free'[x]
  <2>1. /\ Total(TakesOf(x)) = Takes(d, x) + Others(d, x)
        /\ Others(d, x) \in Nat
    BY TakesSplit
  <2>2. /\ Total(TakesOf(x))' = Takes(d, x)' + Others(d, x)'
    BY TakesNext DEF SplitKnown
  <2>3. Others(d, x)' = Others(d, x)
    BY OthersElsewhere
  <2>4. Total(TakesOf(x)) <= free[x]
    BY DEF Money, Covered, TakesOf
  <2>5. Takes(d, x)' - Takes(d, x) <= free'[x] - free[x]
    BY DEF Pays
  <2> QED BY <1>0, <2>1, <2>2, <2>3, <2>4, <2>5
<1>2. Covered'
  BY <1>1 DEF Covered, TakesOf
<1>3. ASSUME NEW e \in Deals \ {d}, ToStore(e), holder = e, NEW x \in Assets
      PROVE  PlanTakes(e, x)' + Others(e, x)' <= free'[x]
  <2>1. PlanTakes(e, x)' = PlanTakes(e, x)
    BY <1>3 DEF PlanTakes, Only, SameDeal, Spend, Need
  <2>2. PlanTakes(e, x) \in Nat
    BY <1>3, DealFields DEF PlanTakes, Minus
  <2>3. PlanTakes(e, x) + Others(e, x) <= free[x]
    BY <1>3 DEF Money, Affords
  <2>4. /\ Others(e, x) = Takes(d, x) + Remaining(d, e, x)
        /\ Remaining(d, e, x) \in Nat
    BY <1>3, TakesSplit
  <2>5. Others(e, x)' = Takes(d, x)' + Remaining(d, e, x)'
    BY <1>3, TakesNext DEF SplitKnown
  <2>6. Remaining(d, e, x)' = Remaining(d, e, x)
    BY <1>3, OthersElsewhere
  <2>7. Takes(d, x)' - Takes(d, x) <= free'[x] - free[x]
    BY <1>3 DEF Pays
  <2> QED BY <1>0, <1>3, <2>1, <2>2, <2>3, <2>4, <2>5, <2>6, <2>7
<1> QED BY <1>2, <1>3 DEF Affords

\* A deal that takes as little as before, of the same balances.
LEMMA TakesEased ==
    ASSUME Types, Types', NEW d \in Deals, Only(d), free' = free,
           OnItsWay(d)' <= OnItsWay(d),
           Unplaced(d)' => /\ Unplaced(d) /\ deals'[d].entry = deals[d].entry
                           /\ Backing(d)' <= Backing(d)
    PROVE  Pays(d)
<1>1. Spend(d)' = Spend(d) /\ Need(d)' = Need(d)
  BY DEF Only, Spend, Need
<1>2. /\ OnItsWay(d) \in Nat /\ Backing(d) \in Nat
      /\ Takes(d, Spend(d)) = OnItsWay(d) + (IF Unplaced(d) THEN deals[d].entry ELSE 0)
      /\ Takes(d, Need(d)) = (IF Unplaced(d) THEN Backing(d) ELSE 0)
  BY TakesParts
<1>3. /\ OnItsWay(d)' \in Nat /\ Backing(d)' \in Nat
      /\ Takes(d, Spend(d))' = OnItsWay(d)' + (IF Unplaced(d)' THEN deals'[d].entry ELSE 0)
      /\ Takes(d, Need(d))' = (IF Unplaced(d)' THEN Backing(d)' ELSE 0)
  BY TakesNext DEF TakesKnown
<1>4. deals[d].entry \in Nat
  BY DealFields
<1>5. Takes(d, Spend(d))' <= Takes(d, Spend(d)) /\ Takes(d, Need(d))' <= Takes(d, Need(d))
  BY <1>2, <1>3, <1>4
<1>6. \A x \in Assets : x = Need(d) \/ x = Spend(d)
  BY Sides
<1>7. \A x \in Assets : Takes(d, x)' <= Takes(d, x)
  BY <1>1, <1>5, <1>6
<1>8. \A x \in Assets : /\ Takes(d, x) \in Nat /\ Takes(d, x)' \in Nat
                        /\ free[x] \in Nat
  BY TakesParts, TakesNext DEF TakesKnown, Types
<1> QED BY <1>7, <1>8 DEF Pays

\* A step that neither plans nor stores a plan nor begins to place.
LEMMA QuietStep ==
    ASSUME FundedInv, Money, NEW d \in Deals, Stepped(d), LeaseOf(d), free' = free,
           OnItsWay(d)' <= OnItsWay(d),
           Unplaced(d)' => /\ Unplaced(d) /\ deals'[d].entry = deals[d].entry
                           /\ Backing(d)' <= Backing(d),
           (At(d, "send") \/ trades[d] = "sent")' => holder' = d,
           orders'[d] = "written" => work'[d].at = "placing",
           work'[d].at = "placing" => work[d].at = "placing",
           ~At(d, "plan")',
           (ToStore(d) /\ holder = d)' => Affords(d)'
    PROVE  Money'
<1>1. Types /\ Types' /\ Only(d)
  BY DEF FundedInv, Stepped
<1>2. Pays(d)
  BY <1>1, TakesEased
<1>3. work'[d].at = "placing" => \A e \in Deals : ~At(e, "plan")'
  <2> SUFFICES ASSUME work'[d].at = "placing", NEW e \in Deals PROVE ~At(e, "plan")'
    OBVIOUS
  <2>1. ~At(e, "plan")
    BY DEF Money, Reading
  <2> QED BY <1>1, <2>1 DEF Only, SameDeal, At
<1>4. Mine(d)'
  BY <1>3 DEF Mine
<1> QED BY <1>1, <1>2, <1>4, PaidFor, MoneyKept

\* A step by which nothing is sent, planned, written or placed.
Quiet(d) ==
    /\ LeaseOf(d) /\ free' = free
    /\ trades'[d] = trades[d] /\ orders'[d] = orders[d]
    /\ deals'[d].entry = deals[d].entry /\ deals'[d].hold = deals[d].hold
    /\ deals'[d].pending = deals[d].pending \/ trades[d] = "done"
    /\ deals'[d].status \in Holding => deals[d].status \in Holding
    /\ trades[d] = "sent" /\ holder = d => holder' = d
    /\ ~At(d, "send")' /\ ~At(d, "plan")' /\ ~ToStore(d)'
    /\ work[d].at # "placing" /\ work'[d].at # "placing"

LEMMA QuietKeeps ==
    ASSUME FundedInv, Money, NEW d \in Deals, Stepped(d), Quiet(d)
    PROVE  Money'
<1>1. Types /\ Types'
  BY DEF FundedInv, Stepped
<1>2. deals[d].pending \in Nat /\ Backing(d) \in Nat
  BY <1>1, DealFields, TakesParts
<1>3. OnItsWay(d)' <= OnItsWay(d)
  BY <1>2 DEF OnItsWay, Quiet
<1>4. Unplaced(d)' => /\ Unplaced(d) /\ deals'[d].entry = deals[d].entry
                      /\ Backing(d)' = Backing(d)
  BY DEF Unplaced, Quiet, Backing
<1>5. Unplaced(d)' => /\ Unplaced(d) /\ deals'[d].entry = deals[d].entry
                      /\ Backing(d)' <= Backing(d)
  BY <1>2, <1>4
<1>6. (At(d, "send") \/ trades[d] = "sent")' => holder' = d
  BY DEF Quiet, Money, Leased
<1>7. orders'[d] = "written" => work'[d].at = "placing"
  BY DEF Quiet, Money, RowsPlaced
<1> QED BY <1>3, <1>5, <1>6, <1>7, QuietStep DEF Quiet

LEMMA AskKeeps ==
    ASSUME FundedInv, Money, NEW d \in Deals, AskFunding(d)
    PROVE  Money'
<1>1. Stepped(d)
  BY AskStepped
<1>2. /\ section[d] = "idle" /\ section'[d] = "asking"
      /\ UNCHANGED <<holder, legs, free, deals, work, trades, orders>>
  BY DEF AskFunding, Ask, Moves, fundingVars, FundedInv, Types, LockTypes, Deals
<1>3. work[d].at = "none"
  BY <1>2 DEF FundedInv, Courses, Course
<1>4. Quiet(d)
  BY <1>2, <1>3 DEF Quiet, LeaseOf, At, ToStore
<1> QED BY <1>1, <1>4, QuietKeeps

LEMMA EnterKeeps ==
    ASSUME FundedInv, Money, NEW d \in Deals, Enter(d)
    PROVE  Money'
<1>1. Stepped(d)
  BY EnterStepped
<1>2. /\ section[d] = "asking" /\ holder = NoOne /\ holder' = d /\ Goes(d, "read")
      /\ UNCHANGED <<legs, free, deals, trades, orders>>
  BY DEF Enter, Take
<1>3. work[d].at = "none"
  BY <1>2 DEF FundedInv, Courses, Course
<1>4. work'[d].at = "read"
  <2>1. "read" \in Points
    BY DEF Points
  <2> QED BY <1>2, <2>1, WorkGoes DEF FundedInv
<1>5. LeaseOf(d)
  BY <1>2, NoOneAssumption DEF LeaseOf, Deals
<1>6. Quiet(d)
  BY <1>2, <1>3, <1>4, <1>5 DEF Quiet, At, ToStore
<1> QED BY <1>1, <1>6, QuietKeeps

LEMMA NotAcquiredKeeps ==
    ASSUME FundedInv, Money, NEW d \in Deals, NotAcquired(d)
    PROVE  Money'
<1>1. Stepped(d)
  BY NotAcquiredStepped
<1>2. /\ section[d] = "asking" /\ section'[d] = "refused"
      /\ holder' = holder \/ (holder = NoOne /\ holder' = d)
      /\ UNCHANGED <<legs, free, deals, work, trades, orders>>
  BY DEF NotAcquired, Unavailable, WaitOver, Moves, fundingVars, FundedInv, Types,
         LockTypes, Deals
<1>3. work[d].at = "none"
  BY <1>2 DEF FundedInv, Courses, Course
<1>4. LeaseOf(d)
  BY <1>2, NoOneAssumption DEF LeaseOf, Deals
<1>5. Quiet(d)
  BY <1>2, <1>3, <1>4 DEF Quiet, At, ToStore
<1> QED BY <1>1, <1>5, QuietKeeps

LEMMA LeaveKeeps ==
    ASSUME FundedInv, Money, NEW d \in Deals, Leave(d)
    PROVE  Money'
<1>1. Stepped(d)
  BY LeaveStepped
<1>2. /\ At(d, "end") /\ section'[d] = "over"
      /\ holder' = holder \/ (holder = d /\ holder' = NoOne)
      /\ UNCHANGED <<legs, free, deals, work, trades, orders>>
  BY DEF Leave, Release, CompareAndDelete, Moves, fundingVars, FundedInv, Types,
         LockTypes, Deals
<1>3. trades[d] # "sent"
  BY <1>2 DEF FundedInv, Courses, Course, At
<1>4. LeaseOf(d)
  BY <1>2, NoOneAssumption DEF LeaseOf, Deals
<1>5. Quiet(d)
  BY <1>2, <1>3, <1>4 DEF Quiet, At, ToStore
<1> QED BY <1>1, <1>5, QuietKeeps

\* A call that ends, its deal retired or not.
LEMMA EndKeeps ==
    ASSUME FundedInv, Money, NEW d \in Deals, Stepped(d),
           UNCHANGED <<holder, section, free, trades, orders>>,
           work[d].at # "placing",
           Refuse(d) \/ (UNCHANGED deals /\ \E out \in Outs : Ends(d, out))
    PROVE  Money'
<1>1. /\ work'[d].at = "end"
      /\ deals'[d].entry = deals[d].entry /\ deals'[d].hold = deals[d].hold
      /\ deals'[d].pending = deals[d].pending
      /\ deals'[d].status = deals[d].status \/ deals'[d].status = "closed"
  BY DealRefused, WorkEnds DEF FundedInv
<1> QED BY <1>1, QuietKeeps DEF Quiet, LeaseOf, At, ToStore, Holding

LEMMA UnreadableKeeps ==
    ASSUME FundedInv, Money, NEW d \in Deals, Unreadable(d)
    PROVE  Money'
<1>1. Stepped(d)
  BY UnreadableStepped
<1>2. /\ UNCHANGED <<holder, section, free, trades, orders>>
      /\ work[d].at # "placing"
      /\ Refuse(d) \/ (UNCHANGED deals /\ \E out \in Outs : Ends(d, out))
  BY DEF Unreadable, At, lockVars, Outs
<1> QED BY <1>1, <1>2, EndKeeps

LEMMA SendKeeps ==
    ASSUME FundedInv, Money, NEW d \in Deals, SendTrade(d)
    PROVE  Money'
<1>1. Stepped(d) /\ trades'[d] = "sent" /\ trades[d] = "none" /\ work'[d].at = "trade"
  BY SendStepped
<1>2. At(d, "send") /\ UNCHANGED <<holder, section, legs, free, deals, orders>>
  BY DEF SendTrade, lockVars
<1>3. Types /\ Types' /\ holder = d /\ orders[d] # "written"
  BY <1>1, <1>2 DEF FundedInv, Stepped, Money, Leased, RowsPlaced, At
<1>4. deals[d].pending \in Nat /\ Backing(d) \in Nat
  BY <1>3, DealFields, TakesParts
<1>5. OnItsWay(d)' = OnItsWay(d) /\ Backing(d)' = Backing(d) /\ (Unplaced(d)' => Unplaced(d))
  BY <1>1, <1>2 DEF OnItsWay, Backing, Unplaced
<1>6. OnItsWay(d)' <= OnItsWay(d) /\ Backing(d)' <= Backing(d)
  BY <1>3, <1>4, <1>5, TakesParts
<1> QED BY <1>1, <1>2, <1>3, <1>5, <1>6, QuietStep DEF LeaseOf, At, ToStore

LEMMA TradedKeeps ==
    ASSUME FundedInv, Money, NEW d \in Deals, Traded(d)
    PROVE  Money'
<1>1. Stepped(d)
  BY TradedStepped
<1>2. /\ work[d].at = "trade"
      /\ UNCHANGED <<holder, section, legs, free, trades, orders>>
  BY DEF Traded, At, lockVars
<1>3. CASE Refuse(d)
  BY <1>1, <1>2, <1>3, EndKeeps
<1>4. CASE trades[d] = "done" /\ Goes(d, "record") /\ UNCHANGED deals
  <2>1. "record" \in Points
    BY DEF Points
  <2>2. work'[d].at = "record"
    BY <1>4, <2>1, WorkGoes DEF FundedInv
  <2>3. Quiet(d)
    BY <1>2, <1>4, <2>2 DEF Quiet, LeaseOf, At, ToStore
  <2> QED BY <1>1, <2>3, QuietKeeps
<1> QED BY <1>3, <1>4 DEF Traded

LEMMA GiveUpKeeps ==
    ASSUME FundedInv, Money, NEW d \in Deals, GiveUp(d)
    PROVE  Money'
<1>1. Stepped(d)
  BY GiveUpStepped
<1>2. /\ work[d].at # "placing" /\ Finishes(d) /\ (Retire(d) \/ UNCHANGED deals)
      /\ UNCHANGED <<holder, section, legs, free, trades, orders>>
  BY DEF GiveUp, Outside, lockVars
<1>3. /\ work'[d].at = "done"
      /\ deals'[d].entry = deals[d].entry /\ deals'[d].hold = deals[d].hold
      /\ deals'[d].pending = deals[d].pending
      /\ deals'[d].status = deals[d].status \/ deals'[d].status = "closed"
  BY <1>2, WorkFinishes, DealStatus DEF Retire, FundedInv
<1>4. Quiet(d)
  BY <1>2, <1>3 DEF Quiet, LeaseOf, At, ToStore, Holding
<1> QED BY <1>1, <1>4, QuietKeeps

LEMMA HangKeeps ==
    ASSUME FundedInv, Money, NEW d \in Deals, Hang(d)
    PROVE  Money'
<1>1. Stepped(d) /\ work'[d].at = "hung"
  BY HangStepped
<1>2. work[d].at # "placing" /\ UNCHANGED <<lockVars, free, deals, trades, orders>>
  BY DEF Hang
<1>3. Quiet(d)
  BY <1>1, <1>2 DEF Quiet, LeaseOf, At, ToStore, lockVars
<1> QED BY <1>1, <1>3, QuietKeeps

LEMMA DieKeeps ==
    ASSUME FundedInv, Money, NEW d \in Deals, Die(d)
    PROVE  Money'
<1>1. Stepped(d) /\ section'[d] = "down" /\ work'[d].at = "none"
  BY DieStepped
<1>2. work[d].at # "placing" /\ UNCHANGED <<holder, free, deals, trades, orders>>
  BY DEF Die, Crash
<1>3. Quiet(d)
  BY <1>1, <1>2 DEF Quiet, LeaseOf, At, ToStore
<1> QED BY <1>1, <1>3, QuietKeeps

LEMMA RestartKeeps ==
    ASSUME FundedInv, Money, NEW d \in Deals, Restart(d)
    PROVE  Money'
<1>1. Stepped(d) /\ work'[d].at \in {"none", "end", "done"}
  BY RestartStepped
<1>2. section[d] = "down" /\ UNCHANGED <<holder, free, trades, orders>>
  BY DEF Restart, Resume, Back
<1>3. work[d].at = "none"
  BY <1>2 DEF FundedInv, Courses, Course
<1>4. \/ UNCHANGED deals
      \/ Retire(d)
      \/ trades[d] = "done" /\ deals' = [deals EXCEPT ![d].pending = 0]
  BY DEF Restart, Resume
<1>5. /\ deals'[d].entry = deals[d].entry /\ deals'[d].hold = deals[d].hold
      /\ deals'[d].pending = deals[d].pending \/ trades[d] = "done"
      /\ deals'[d].status = deals[d].status \/ deals'[d].status = "closed"
  BY <1>4, DealStatus, DealPending DEF Retire, FundedInv
<1>6. Quiet(d)
  BY <1>1, <1>2, <1>3, <1>5 DEF Quiet, LeaseOf, At, ToStore, Holding
<1> QED BY <1>1, <1>6, QuietKeeps

\* A cancelled deal may still be about to store a plan.
LEMMA CloseKeeps ==
    ASSUME FundedInv, Money, NEW d \in Deals, CloseDeal(d)
    PROVE  Money'
<1>1. Stepped(d)
  BY CloseStepped
<1>2. /\ deals[d].status = "start" /\ Retire(d)
      /\ UNCHANGED <<lockVars, legs, free, work, trades, orders, strayed>>
      /\ work[d].at \in {"none", "read"} \/ work[d].plan.kind = "fund"
           \/ work[d].out = "virtual"
  BY DEF CloseDeal
<1>3. Course(d)
  BY DEF FundedInv, Courses
<1>4. ~At(d, "plan") /\ work[d].at # "placing"
  BY <1>2, <1>3 DEF Course, At
<1>5. /\ deals'[d].entry = deals[d].entry /\ deals'[d].hold = deals[d].hold
      /\ deals'[d].pending = deals[d].pending /\ deals'[d].status = "closed"
  BY <1>2, DealStatus DEF Retire, FundedInv
<1>6. Types /\ Types' /\ Only(d)
  BY <1>1 DEF FundedInv, Stepped
<1>7. OnItsWay(d)' <= OnItsWay(d) /\ ~Unplaced(d)'
  <2>1. OnItsWay(d)' = OnItsWay(d) /\ ~Unplaced(d)'
    BY <1>2, <1>5 DEF OnItsWay, Unplaced, Holding, At, lockVars
  <2>2. OnItsWay(d) \in Nat
    BY <1>6, TakesParts
  <2> QED BY <2>1, <2>2
<1>8. (ToStore(d) /\ holder = d)' => Affords(d)'
  <2> SUFFICES ASSUME ToStore(d)', holder' = d, NEW x \in Assets
               PROVE  PlanTakes(d, x)' + Others(d, x)' <= free'[x]
    BY DEF Affords
  <2>1. ToStore(d) /\ holder = d
    BY <1>2 DEF ToStore, At, lockVars
  <2>2. PlanTakes(d, x)' = PlanTakes(d, x)
    BY <1>2 DEF PlanTakes, Spend, Need
  <2>3. Others(d, x)' = Others(d, x)
    BY <1>6, OthersElsewhere
  <2> QED BY <1>2, <2>1, <2>2, <2>3 DEF Money, Affords
<1>9. /\ (At(d, "send") \/ trades[d] = "sent")' => holder' = d
      /\ orders'[d] = "written" => work'[d].at = "placing"
      /\ LeaseOf(d) /\ free' = free /\ ~At(d, "plan")' /\ work'[d].at # "placing"
  BY <1>2, <1>4 DEF Money, Leased, RowsPlaced, LeaseOf, At, lockVars
<1> QED BY <1>1, <1>7, <1>8, <1>9, QuietStep

-----------------------------------------------------------------------------
(* The steps that plan, store a plan, place and trade *)

\* A plan whose takings the account has is stored.
LEMMA StoreKeeps ==
    ASSUME FundedInv, Money, NEW d \in Deals, Stepped(d), holder = d, holder' = d,
           free' = free, Affords(d), orders'[d] = orders[d],
           \A x \in Assets : Takes(d, x)' <= PlanTakes(d, x),
           work[d].at # "placing", work'[d].at # "placing", ~At(d, "plan")', ~ToStore(d)'
    PROVE  Money'
<1>1. Types /\ Types' /\ Only(d)
  BY DEF FundedInv, Stepped
<1>2. Covered'
  <2>1. ASSUME NEW x \in Assets
        PROVE  Total(TakesOf(x))' <= free'[x]
    <3>1. Total(TakesOf(x))' = Takes(d, x)' + Others(d, x)'
      BY <1>1, TakesNext DEF SplitKnown
    <3>2. Others(d, x)' = Others(d, x) /\ Others(d, x) \in Nat
      BY <1>1, OthersElsewhere, TakesSplit
    <3>3. Takes(d, x)' \in Nat /\ free[x] \in Nat
      BY <1>1, TakesNext DEF TakesKnown, Types
    <3>4. PlanTakes(d, x) \in Nat
      BY <1>1, DealFields DEF PlanTakes, Minus
    <3> QED BY <3>1, <3>2, <3>3, <3>4 DEF Affords
  <2> QED BY <2>1 DEF Covered, TakesOf
<1>3. Mine(d)'
  BY DEF Mine, Money, RowsPlaced
<1> QED BY <1>1, <1>2, <1>3, MoneyKept DEF LeaseOf

LEMMA ReadKeeps ==
    ASSUME FundedInv, Money, "placing" \notin wrong, NEW d \in Deals, ReadBalances(d)
    PROVE  Money'
<1>1. Stepped(d)
  BY ReadStepped
<1>2. /\ section[d] = "inside" /\ work[d].at = "read"
      /\ \A e \in Deals : work[e].at # "placing"
      /\ UNCHANGED <<holder, section, legs, free, deals, trades, orders>>
  BY DEF ReadBalances, At, Calm, lockVars
<1>3. CASE deals[d].status # "start"
  BY <1>1, <1>2, <1>3, EndKeeps DEF ReadBalances, Outs
<1>4. CASE deals[d].status = "start"
  <2>1. "plan" \in Points /\ "none" \in Outs /\ free \in [Assets -> Nat]
    BY DEF Points, Outs, FundedInv, Types
  <2>2. /\ work'[d].at = "plan" /\ work'[d].seen = free
        /\ \A e \in Deals \ {d} : work'[e] = work[e]
    BY <1>4, <2>1, Smalls, MemoryType, WorkTurns DEF FundedInv, ReadBalances
  <2>3. Types /\ Types' /\ Only(d)
    BY <1>1 DEF FundedInv, Stepped
  <2>4. /\ OnItsWay(d)' = OnItsWay(d) /\ Backing(d)' = Backing(d)
        /\ Unplaced(d)' => Unplaced(d)
        /\ OnItsWay(d) \in Nat /\ Backing(d) \in Nat
    BY <1>2, <2>2, <2>3, TakesParts DEF OnItsWay, Backing, Unplaced, At
  <2>5. OnItsWay(d)' <= OnItsWay(d) /\ Backing(d)' <= Backing(d)
    BY <2>4
  <2>6. Pays(d)
    BY <1>2, <2>3, <2>4, <2>5, TakesEased
  <2>7. orders[d] # "written" /\ (trades[d] = "sent" => holder = d)
    BY <1>2 DEF Money, RowsPlaced, Leased
  <2>8. Mine(d)'
    <3>1. \A e \in Deals : work'[e].at # "placing"
      BY <1>2, <2>2
    <3> QED BY <1>2, <2>2, <2>7, <3>1 DEF Mine, At, ToStore
  <2> QED BY <1>2, <2>3, <2>6, <2>8, PaidFor, MoneyKept DEF LeaseOf
<1> QED BY <1>3, <1>4

\* What the reservations leave to the holder is there besides what the others take.
LEMMA ReservedForOthers ==
    ASSUME FundedInv, Money, NEW d \in Deals, At(d, "plan"), holder = d, NEW x \in Assets
    PROVE  Others(d, x) \in Nat /\ Others(d, x) <= ReservedFrom(d, x)
<1>1. Types /\ Course(d)
  BY DEF FundedInv, Courses
<1>2. \A e \in Deals \ {d} : Takes(e, x) <= ReservedBy(e, x)
  <2> SUFFICES ASSUME NEW e \in Deals \ {d} PROVE Takes(e, x) <= ReservedBy(e, x)
    OBVIOUS
  <2>1. OnItsWay(e) = 0
    BY DEF Money, Leased, OnItsWay
  <2>2. orders[e] # "written"
    BY DEF Money, Reading, RowsPlaced
  <2>3. Unplaced(e) => deals[e].status \in Holding /\ ~HasRows(e)
    BY <1>1, <2>2 DEF Unplaced, HasRows, Types
  <2>4. deals[e].hold \in Nat /\ deals[e].pending \in Nat /\ deals[e].entry \in Nat
    BY <1>1, DealFields
  <2>5. Backing(e) <= deals[e].hold /\ Backing(e) \in Nat
    BY <2>4 DEF Backing, Minus
  <2>6. Takes(e, x) = (IF x = Spend(e) /\ Unplaced(e) THEN deals[e].entry ELSE 0)
                      + (IF x = Need(e) /\ Unplaced(e) THEN Backing(e) ELSE 0)
    BY <2>1, <2>4, <2>5 DEF Takes, Backing
  <2> QED BY <2>3, <2>4, <2>5, <2>6 DEF ReservedBy
<1> DEFINE f == [e \in Deals |-> ReservedBy(e, x)]
           mine == IF x = Need(d) THEN deals[d].hold ELSE 0
<1>3. f \in Sums(Deals) /\ IsFiniteSet(Deals) /\ f[d] = ReservedBy(d, x) /\ DOMAIN f = Deals
  BY <1>1, Reserves
<1>4. Total(f) = ReservedBy(d, x) + Total(Without(f, d)) /\ Total(Without(f, d)) \in Nat
  <2> HIDE DEF f
  <2> QED BY <1>3, TotalSplit
<1>5. ReservedBy(d, x) = mine /\ mine \in Nat
  <2>1. deals[d].status = "start" /\ deals[d].entry = 0 /\ deals[d].hold \in Nat
    BY <1>1, DealFields DEF Course, Unfunded
  <2> QED BY <2>1 DEF ReservedBy, Holding
<1>6. ReservedFrom(d, x) = Total(Without(f, d))
  <2>1. ReservedFrom(d, x) = Minus(Total(f), mine)
    BY DEF ReservedFrom
  <2> HIDE DEF f, mine
  <2> QED BY <1>4, <1>5, <2>1 DEF Minus
<1>7. Others(d, x) <= Total(Without(f, d))
  <2> DEFINE g == [e \in Deals \ {d} |-> Takes(e, x)]
             h == Without(f, d)
  <2>1. IsFiniteSet(Deals \ {d})
    BY <1>3, FS_RemoveElement
  <2>2. h = [e \in Deals \ {d} |-> ReservedBy(e, x)]
    BY DEF Without
  <2>3. \A e \in Deals : Takes(e, x) \in Nat /\ ReservedBy(e, x) \in Nat
    BY <1>1, <1>3, TakesParts DEF Sums
  <2>4. g \in Sums(Deals \ {d}) /\ h \in Sums(Deals \ {d})
    BY <2>2, <2>3 DEF Sums
  <2>5. \A e \in Deals \ {d} : g[e] <= h[e]
    BY <1>2, <2>2
  <2>6. Total(g) <= Total(h)
    <3> HIDE DEF g, h
    <3> QED BY <2>1, <2>4, <2>5, TotalMonotone
  <2> QED BY <2>6 DEF Others
<1>8. Others(d, x) \in Nat
  BY <1>1, TakesSplit
<1> QED BY <1>6, <1>7, <1>8

LEMMA DecideKeeps ==
    ASSUME FundedInv, Money, NEW d \in Deals, Decide(d)
    PROVE  Money'
<1> DEFINE available == [x \in Assets |-> Minus(work[d].seen[x], ReservedFrom(d, x))]
           plan == PlanFor(legs[d], available)
<1>1. Stepped(d)
  BY DecideStepped
<1>2. /\ At(d, "plan") /\ section[d] = "inside" /\ work[d].at = "plan"
      /\ UNCHANGED <<holder, section, legs, free, trades, orders>>
  BY DEF Decide, At, lockVars
<1>3. CASE Refuse(d)
  BY <1>1, <1>2, <1>3, EndKeeps
<1>4. CASE /\ plan.kind # "refuse"
           /\ Turns(d, Memory(After(plan), NoBalances, plan, "none"))
           /\ UNCHANGED deals
  <2>1. Types /\ Types' /\ Only(d) /\ orders[d] # "written" /\ trades[d] = "none"
    BY <1>1, <1>2 DEF FundedInv, Stepped, Money, RowsPlaced, IInv, TradeInv, Untraded
  <2>2. \A x \in Assets : work[d].seen[x] \in Nat /\ ReservedFrom(d, x) \in Nat
    BY <2>1, Reserves, DealFields
  <2>3. available \in [Assets -> Nat] /\ legs[d] \in Legs
    BY <2>1, <2>2 DEF Minus, Types
  <2>4. /\ plan \in Plans
        /\ plan.kind = "held" =>
             plan.entry = 0 /\ plan.trade = 0 /\ plan.hold <= available[Need(d)]
        /\ plan.kind = "fund" =>
             /\ plan.entry + plan.trade <= available[Spend(d)]
             /\ Minus(plan.hold, plan.trade) <= available[Need(d)]
    BY <2>3, PlanFits DEF Need, Spend
  <2>5. /\ plan.kind = "held" \/ plan.kind = "fund"
        /\ plan.entry \in Nat /\ plan.hold \in Nat /\ plan.trade \in Nat
    <3> HIDE DEF plan
    <3> QED BY <1>4, <2>4 DEF Plans, Kinds
  <2>6. /\ After(plan) \in Points /\ "none" \in Outs
        /\ After(plan) \notin {"send", "plan", "placing"}
    BY DEF After, Points, Outs
  <2>7. /\ work'[d].at = After(plan) /\ work'[d].plan = plan
        /\ \A e \in Deals \ {d} : work'[e] = work[e]
    <3> HIDE DEF plan
    <3> QED BY <1>4, <2>1, <2>4, <2>6, Smalls, MemoryType, WorkTurns
  <2>8. OnItsWay(d)' <= OnItsWay(d) /\ Backing(d)' <= Backing(d) /\ (Unplaced(d)' => Unplaced(d))
    <3> HIDE DEF plan
    <3>1. OnItsWay(d)' = OnItsWay(d) /\ Backing(d)' = Backing(d) /\ (Unplaced(d)' => Unplaced(d))
      BY <1>2, <1>4, <2>6, <2>7 DEF OnItsWay, Backing, Unplaced, At
    <3>2. OnItsWay(d) \in Nat /\ Backing(d) \in Nat
      BY <2>1, TakesParts
    <3> QED BY <3>1, <3>2
  <2>9. ASSUME holder = d, NEW x \in Assets
        PROVE  PlanTakes(d, x)' + Others(d, x)' <= free'[x]
    <3>1. PlanTakes(d, x)' \in Nat /\ PlanTakes(d, x)' <= available[x]
      <4>1. Spend(d)' = Spend(d) /\ Need(d) # Spend(d) /\ (x = Need(d) \/ x = Spend(d))
        BY <1>2, <2>1, <2>9, Sides DEF Spend, Need
      <4>2. /\ plan.entry + plan.trade \in Nat /\ Minus(plan.hold, plan.trade) \in Nat
            /\ plan.entry + plan.trade <= available[Spend(d)]
            /\ Minus(plan.hold, plan.trade) <= available[Need(d)]
        <5>1. available[Spend(d)] \in Nat /\ available[Need(d)] \in Nat
          BY <2>1, <2>3, Sides
        <5> HIDE DEF plan, available
        <5> QED BY <2>4, <2>5, <5>1 DEF Minus
      <4>3. PlanTakes(d, x)' = IF x = Spend(d) THEN plan.entry + plan.trade
                               ELSE Minus(plan.hold, plan.trade)
        <5> HIDE DEF plan
        <5> QED BY <2>7, <4>1 DEF PlanTakes
      <4> HIDE DEF plan, available
      <4> QED BY <4>1, <4>2, <4>3
    <3>2. Others(d, x) \in Nat /\ Others(d, x) <= ReservedFrom(d, x)
      BY <1>2, <2>9, ReservedForOthers
    <3>3. available[x] = Minus(free[x], ReservedFrom(d, x))
      BY <1>2, <2>9 DEF Money, Reading
    <3>4. free[x] \in Nat /\ ReservedFrom(d, x) \in Nat
      BY <2>1, <2>2, <2>9 DEF Types
    <3>5. Takes(d, x) \in Nat /\ Takes(d, x) + Others(d, x) <= free[x]
      <4>1. Total(TakesOf(x)) <= free[x]
        BY <2>9 DEF Money, Covered, TakesOf
      <4>2. Total(TakesOf(x)) = Takes(d, x) + Others(d, x) /\ Takes(d, x) \in Nat
        BY <2>1, <2>9, TakesSplit, TakesParts
      <4> QED BY <4>1, <4>2
    <3>6. Others(d, x)' = Others(d, x) /\ free'[x] = free[x]
      BY <1>2, <2>1, <2>9, OthersElsewhere
    <3> HIDE DEF available
    <3> QED BY <3>1, <3>2, <3>3, <3>4, <3>5, <3>6 DEF Minus
  <2>10. (ToStore(d) /\ holder = d)' => Affords(d)'
    BY <1>2, <2>9 DEF Affords
  <2>11. LeaseOf(d) /\ ~At(d, "plan")' /\ ~At(d, "send")' /\ work'[d].at # "placing"
    <3> HIDE DEF plan
    <3> QED BY <1>2, <2>6, <2>7 DEF LeaseOf, At
  <2> HIDE DEF plan
  <2> QED BY <1>1, <1>2, <1>4, <2>1, <2>8, <2>10, <2>11, QuietStep
<1> QED BY <1>3, <1>4 DEF Decide

\* What a deal takes once it has stored its plan.
LEMMA TakesStored ==
    ASSUME Types, Types', NEW d \in Deals, Only(d), trades[d] = "none", trades' = trades,
           deals'[d].entry = work[d].plan.entry, deals'[d].hold = work[d].plan.hold,
           deals'[d].pending = work[d].plan.trade
    PROVE  \A x \in Assets : Takes(d, x)' <= PlanTakes(d, x)
<1> SUFFICES ASSUME NEW x \in Assets PROVE Takes(d, x)' <= PlanTakes(d, x)
  OBVIOUS
<1>1. /\ Spend(d)' = Spend(d) /\ Need(d)' = Need(d) /\ Need(d) # Spend(d)
      /\ x = Need(d) \/ x = Spend(d)
  BY Sides DEF Only, Spend, Need
<1>2. /\ Takes(d, Spend(d))' = OnItsWay(d)' + (IF Unplaced(d)' THEN deals'[d].entry ELSE 0)
      /\ Takes(d, Need(d))' = (IF Unplaced(d)' THEN Backing(d)' ELSE 0)
  BY TakesNext DEF TakesKnown
<1>3. /\ work[d].plan.entry \in Nat /\ work[d].plan.hold \in Nat
      /\ work[d].plan.trade \in Nat
  BY DealFields
<1>4. /\ OnItsWay(d)' \in {0, work[d].plan.trade}
      /\ Backing(d)' = Minus(work[d].plan.hold, work[d].plan.trade)
  BY DEF OnItsWay, Backing
<1>5. Minus(work[d].plan.hold, work[d].plan.trade) \in Nat
  BY <1>3 DEF Minus
<1>6. CASE x = Spend(d)
  BY <1>1, <1>2, <1>3, <1>4, <1>6 DEF PlanTakes
<1>7. CASE x = Need(d)
  BY <1>1, <1>2, <1>4, <1>5, <1>7 DEF PlanTakes
<1> QED BY <1>1, <1>6, <1>7

LEMMA HoldKeeps ==
    ASSUME FundedInv, Money, NEW d \in Deals, Hold(d)
    PROVE  Money'
<1>1. Stepped(d)
  BY HoldStepped
<1>2. /\ section[d] = "inside" /\ work[d].at = "hold" /\ ToStore(d) /\ Unfunded(d)
      /\ UNCHANGED <<holder, section, free, trades, orders>>
  BY DEF Hold, At, ToStore, Unfunded
<1>3. /\ trades[d] = "none" /\ deals[d].entry = 0 /\ deals[d].pending = 0
      /\ work[d].plan.entry = 0 /\ work[d].plan.trade = 0
  BY <1>2 DEF FundedInv, Courses, Course, IInv, TradeInv, Untraded, At
<1>4. CASE Refuse(d)
  BY <1>1, <1>2, <1>4, EndKeeps
<1>5. CASE /\ Owned(d) /\ Ends(d, "held")
           /\ deals' = [deals EXCEPT ![d].hold = work[d].plan.hold]
  <2>1. "held" \in Outs /\ work[d].plan.hold \in Nat /\ holder = d
    BY <1>5, DealFields DEF Outs, Owned, FundedInv
  <2>2. /\ work'[d].at = "end"
        /\ deals'[d].entry = 0 /\ deals'[d].pending = 0
        /\ deals'[d].hold = work[d].plan.hold
    BY <1>3, <1>5, <2>1, WorkEnds, DealHold DEF FundedInv
  <2>3. Types /\ Types' /\ Only(d)
    BY <1>1 DEF FundedInv, Stepped
  <2>4. \A x \in Assets : Takes(d, x)' <= PlanTakes(d, x)
    BY <1>2, <1>3, <2>2, <2>3, TakesStored
  <2>5. Affords(d)
    BY <1>2, <2>1 DEF Money
  <2> QED BY <1>1, <1>2, <2>1, <2>2, <2>4, <2>5, StoreKeeps DEF At, ToStore
<1> QED BY <1>4, <1>5 DEF Hold

LEMMA IntendKeeps ==
    ASSUME FundedInv, Money, NEW d \in Deals, Intend(d)
    PROVE  Money'
<1>1. Stepped(d)
  BY IntendStepped
<1>2. /\ section[d] = "inside" /\ work[d].at = "intend" /\ ToStore(d) /\ At(d, "intend")
      /\ UNCHANGED <<holder, section, free, trades, orders>>
  BY DEF Intend, At, ToStore
<1>3. trades[d] = "none" /\ work[d].plan.kind = "fund"
  BY <1>2 DEF FundedInv, Courses, Course, IInv, TradeInv, Untraded
<1>4. CASE Refuse(d)
  BY <1>1, <1>2, <1>4, EndKeeps
<1>5. CASE Ends(d, "refused") /\ UNCHANGED deals
  BY <1>1, <1>2, <1>5, EndKeeps DEF Outs
<1>6. CASE /\ Owned(d) /\ Goes(d, "send")
           /\ deals' = [deals EXCEPT ![d] = Intent(@, work[d].plan)]
  <2> DEFINE v == Intent(deals[d], work[d].plan)
  <2>1. /\ v \in StoredDeals /\ v.entry = work[d].plan.entry
        /\ v.hold = work[d].plan.hold /\ v.pending = work[d].plan.trade
    BY DealFields DEF Intent, StoredDeals, FundedInv
  <2>2. deals' = [deals EXCEPT ![d] = v] /\ "send" \in Points /\ holder = d
    BY <1>6 DEF Points, Owned
  <2>3. deals'[d] = v /\ work'[d].at = "send"
    <3> HIDE DEF v
    <3> QED BY <1>6, <2>1, <2>2, DealWritten, WorkGoes DEF FundedInv
  <2>4. Types /\ Types' /\ Only(d)
    BY <1>1 DEF FundedInv, Stepped
  <2> HIDE DEF v
  <2>5. \A x \in Assets : Takes(d, x)' <= PlanTakes(d, x)
    BY <1>2, <1>3, <2>1, <2>3, <2>4, TakesStored
  <2>6. Affords(d)
    BY <1>2, <2>2 DEF Money
  <2> QED BY <1>1, <1>2, <2>2, <2>3, <2>5, <2>6, StoreKeeps DEF At, ToStore
<1> QED BY <1>4, <1>5, <1>6 DEF Intend

\* Of a trade that is done, or of a plan without one, as long as the lease is there.
LEMMA RecordKeeps ==
    ASSUME FundedInv, Money, strayed' = {}, NEW d \in Deals, Record(d)
    PROVE  Money'
<1>1. Stepped(d)
  BY RecordStepped
<1>2. /\ section[d] = "inside" /\ work[d].at = "record" /\ At(d, "record")
      /\ UNCHANGED <<holder, section, free, trades, orders>>
  BY DEF Record, At
<1>3. /\ work[d].plan.kind = "fund"
      /\ (trades[d] = "none" /\ work[d].plan.trade = 0) \/ trades[d] = "done"
  BY <1>2 DEF FundedInv, Courses, Course
<1>4. CASE Ends(d, "refused") /\ UNCHANGED deals
  BY <1>1, <1>2, <1>4, EndKeeps DEF Outs
<1>5. CASE /\ Owned(d) \/ strayed' = strayed \cup RecordsNoTrade(d)
           /\ deals' = [deals EXCEPT ![d] = Recorded(@, work[d].plan)]
           /\ Ends(d, "virtual")
  <2> DEFINE v == Recorded(deals[d], work[d].plan)
  <2>1. /\ v \in StoredDeals /\ v.entry = work[d].plan.entry
        /\ v.hold = work[d].plan.hold /\ v.pending = 0 /\ v.status = deals[d].status
    BY DealFields DEF Recorded, StoredDeals, FundedInv
  <2>2. deals' = [deals EXCEPT ![d] = v] /\ "virtual" \in Outs
    BY <1>5 DEF Outs
  <2>3. deals'[d] = v /\ work'[d].at = "end"
    <3> HIDE DEF v
    <3> QED BY <1>5, <2>1, <2>2, DealWritten, WorkEnds DEF FundedInv
  <2>4. Types /\ Types' /\ Only(d)
    BY <1>1 DEF FundedInv, Stepped
  <2> HIDE DEF v
  <2>5. CASE trades[d] = "none" /\ work[d].plan.trade = 0
    <3>1. ToStore(d) /\ holder = d
      BY <1>2, <1>5, <2>5 DEF ToStore, Owned, RecordsNoTrade
    <3>2. \A x \in Assets : Takes(d, x)' <= PlanTakes(d, x)
      BY <1>2, <1>3, <2>1, <2>3, <2>4, <2>5, TakesStored
    <3>3. Affords(d)
      BY <3>1 DEF Money
    <3> QED BY <1>1, <1>2, <2>3, <3>1, <3>2, <3>3, StoreKeeps DEF At, ToStore
  <2>6. CASE trades[d] = "done"
    <3>1. deals[d].entry = work[d].plan.entry /\ deals[d].hold = work[d].plan.hold
      BY <1>2, <2>6 DEF FundedInv, Courses, Course, Trades
    <3>2. Quiet(d)
      BY <1>2, <2>1, <2>3, <2>6, <3>1 DEF Quiet, LeaseOf, At, ToStore
    <3> QED BY <1>1, <3>2, QuietKeeps
  <2> QED BY <1>3, <2>5, <2>6
<1> QED BY <1>4, <1>5 DEF Record

\* The rows of the orders: the entry is still to be paid for.
LEMMA WriteRowsKeeps ==
    ASSUME FundedInv, Money, "placing" \notin wrong, NEW d \in Deals, WriteRows(d)
    PROVE  Money'
<1>1. Stepped(d)
  BY WriteRowsStepped
<1>2. /\ section[d] = "over" /\ work[d].at # "placing" /\ work[d].out \in {"virtual", "held"}
      /\ \A e \in Deals : work[e].at # "plan"
      /\ UNCHANGED <<holder, section, legs, free, trades>>
  BY DEF WriteRows, Outside, Out, Calm, lockVars
<1>3. Types /\ Types' /\ Only(d) /\ orders[d] = "none" /\ deals[d].pending = 0
  <2>1. Course(d) /\ work[d].at # "done"
    BY DEF FundedInv, Courses, WriteRows, Outside
  <2> QED BY <1>1, <1>2, <2>1 DEF FundedInv, Stepped, Course, Types
<1>4. CASE Finishes(d) /\ UNCHANGED <<deals, orders>>
  <2>1. work'[d].at = "done"
    BY <1>4, WorkFinishes DEF FundedInv
  <2>2. Quiet(d)
    BY <1>2, <1>4, <2>1 DEF Quiet, LeaseOf, At, ToStore
  <2> QED BY <1>1, <2>2, QuietKeeps
<1>5. CASE deals[d].status = "start" /\ Starts(d)
  <2>1. /\ deals'[d].status = "open" /\ deals'[d].entry = deals[d].entry
        /\ deals'[d].hold = deals[d].hold /\ deals'[d].pending = deals[d].pending
    BY <1>3, <1>5, DealStatus DEF Starts
  <2>2. "placing" \in Points
    BY DEF Points
  <2>3. /\ work'[d].at = "placing" /\ \A e \in Deals \ {d} : work'[e] = work[e]
    BY <1>3, <1>5, <2>2, WorkGoes DEF Starts
  <2>4. /\ OnItsWay(d)' = OnItsWay(d) /\ Backing(d)' = Backing(d) /\ Unplaced(d)
        /\ OnItsWay(d) \in Nat /\ Backing(d) \in Nat
    BY <1>2, <1>3, <1>5, <2>1, TakesParts
       DEF OnItsWay, Backing, Unplaced, At, Holding
  <2>5. OnItsWay(d)' <= OnItsWay(d) /\ Backing(d)' <= Backing(d)
    BY <2>4
  <2>6. Pays(d)
    BY <1>2, <1>3, <2>1, <2>4, <2>5, TakesEased
  <2>7. trades[d] = "sent" => holder = d
    BY DEF Money, Leased
  <2>8. Mine(d)'
    <3>1. \A e \in Deals : work'[e].at # "plan"
      BY <1>2, <2>3
    <3> QED BY <1>2, <2>3, <2>7, <3>1 DEF Mine, At, ToStore
  <2> QED BY <1>2, <1>3, <2>6, <2>8, PaidFor, MoneyKept DEF LeaseOf
<1> QED BY <1>4, <1>5 DEF WriteRows

\* What one deal takes is there.
LEMMA TakesThere ==
    ASSUME Types, Money, NEW d \in Deals, NEW x \in Assets
    PROVE  Takes(d, x) <= free[x]
<1>1. Total(TakesOf(x)) <= free[x]
  BY DEF Money, Covered, TakesOf
<1>2. Total(TakesOf(x)) = Takes(d, x) + Others(d, x) /\ Others(d, x) \in Nat
      /\ Takes(d, x) \in Nat /\ free[x] \in Nat
  BY TakesSplit, TakesParts DEF Types
<1> QED BY <1>1, <1>2

\* The orders are placed, and take what they were said to take.
LEMMA PlaceKeeps ==
    ASSUME FundedInv, Money, "placing" \notin wrong, NEW d \in Deals, Place(d)
    PROVE  Money'
<1>1. Stepped(d) /\ work'[d].at = "done"
  BY PlaceStepped
<1>2. /\ work[d].at = "placing" /\ \A e \in Deals : work[e].at # "plan"
      /\ UNCHANGED <<holder, section, legs, trades>>
  BY DEF Place, Calm, lockVars
<1>3. /\ Types /\ Types' /\ Only(d)
      /\ deals[d].status = "open" /\ orders[d] = "written" /\ deals[d].pending = 0
  BY <1>1, <1>2 DEF FundedInv, Stepped, Courses, Course
<1>4. /\ deals[d].hold \in Nat /\ deals[d].entry \in Nat
      /\ Need(d) \in Assets /\ Spend(d) \in Assets /\ Need(d) # Spend(d)
      /\ \A x \in Assets : x = Need(d) \/ x = Spend(d)
      /\ free[Need(d)] \in Nat /\ free[Spend(d)] \in Nat
  BY <1>3, DealFields, Sides DEF Types
<1>5. /\ Takes(d, Need(d)) = deals[d].hold
      /\ Takes(d, Spend(d)) = OnItsWay(d) + deals[d].entry
      /\ OnItsWay(d) = 0
  <2>1. Unplaced(d) /\ Backing(d) = deals[d].hold /\ OnItsWay(d) = 0
    BY <1>3, <1>4 DEF Unplaced, Backing, Minus, OnItsWay, Holding
  <2> QED BY <1>3, <2>1, TakesParts
<1>6. Affordable(d)
  <2>1. Takes(d, Need(d)) <= free[Need(d)] /\ Takes(d, Spend(d)) <= free[Spend(d)]
    BY <1>3, <1>4, TakesThere
  <2> QED BY <1>4, <1>5, <2>1 DEF Affordable
<1>7. /\ free' = [free EXCEPT ![Need(d)] = @ - deals[d].hold,
                              ![Spend(d)] = @ - deals[d].entry]
      /\ deals' = [deals EXCEPT ![d].hold = HoldRemaining(d)]
      /\ orders' = [orders EXCEPT ![d] = "resting"]
  BY <1>6 DEF Place
<1>8. orders'[d] = "resting"
  BY <1>3, <1>7 DEF Types
<1>9. /\ free'[Need(d)] = free[Need(d)] - deals[d].hold
      /\ free'[Spend(d)] = free[Spend(d)] - deals[d].entry
  BY <1>3, <1>4, <1>7 DEF Types
<1>10. Takes(d, Need(d))' = 0 /\ Takes(d, Spend(d))' = 0
  <2>1. /\ ~Unplaced(d)' /\ Need(d)' = Need(d) /\ Spend(d)' = Spend(d)
    BY <1>2, <1>8 DEF Unplaced, Need, Spend
  <2>2. OnItsWay(d)' = 0
    <3>1. deals'[d].pending = 0
      <4>1. HoldRemaining(d) \in Nat
        BY <1>4 DEF HoldRemaining, PlacedNeed, Minus
      <4> QED BY <1>3, <1>7, <4>1, DealHold
    <3> QED BY <3>1 DEF OnItsWay
  <2>3. /\ Takes(d, Spend(d))' = OnItsWay(d)' + (IF Unplaced(d)' THEN deals'[d].entry ELSE 0)
        /\ Takes(d, Need(d))' = (IF Unplaced(d)' THEN Backing(d)' ELSE 0)
    BY <1>3, TakesNext DEF TakesKnown
  <2> QED BY <2>1, <2>2, <2>3
<1>11. Pays(d)
  <2>1. \A x \in Assets : x = Need(d) \/ x = Spend(d)
    BY <1>4
  <2>2. /\ Takes(d, Need(d))' - Takes(d, Need(d)) <= free'[Need(d)] - free[Need(d)]
        /\ Takes(d, Spend(d))' - Takes(d, Spend(d)) <= free'[Spend(d)] - free[Spend(d)]
    BY <1>4, <1>5, <1>9, <1>10
  <2>3. ASSUME NEW x \in Assets
        PROVE  Takes(d, x)' - Takes(d, x) <= free'[x] - free[x]
    <3>1. Need(d)' = Need(d) /\ Spend(d)' = Spend(d)
      BY <1>2 DEF Need, Spend
    <3> QED BY <2>1, <2>2, <3>1
  <2> QED BY <2>3 DEF Pays
<1>12. Mine(d)'
  <2>1. trades[d] = "sent" => holder = d
    BY DEF Money, Leased
  <2> QED BY <1>1, <1>2, <1>8, <2>1 DEF Mine, At, ToStore
<1>13. \A e \in Deals : ~At(e, "plan")
  BY <1>2 DEF At
<1> QED BY <1>2, <1>3, <1>11, <1>12, <1>13, PaidFor, MoneyKept DEF LeaseOf

\* What was on its way arrives.
LEMMA ExecuteKeeps ==
    ASSUME FundedInv, Money, NEW d \in Deals, Execute(d)
    PROVE  Money'
<1>1. Stepped(d)
  BY StepsOfADeal
<1>2. /\ trades[d] = "sent" /\ UNCHANGED <<holder, section, legs, deals, work, orders>>
  BY DEF Execute, lockVars
<1>3. Types /\ Types' /\ Only(d) /\ holder = d
  BY <1>1, <1>2 DEF FundedInv, Stepped, Money, Leased
<1>4. ~At(d, "send") /\ ~At(d, "plan") /\ ~At(d, "hold") /\ ~At(d, "intend")
      /\ ~At(d, "record")
  BY <1>2 DEF FundedInv, Courses, Course, At
<1>5. /\ deals[d].pending \in Nat /\ deals[d].hold \in Nat /\ deals[d].entry \in Nat
      /\ Need(d) \in Assets /\ Spend(d) \in Assets /\ Need(d) # Spend(d)
      /\ free[Need(d)] \in Nat /\ free[Spend(d)] \in Nat
  BY <1>3, DealFields, Sides DEF Types
<1>6. orders[d] = "written" => work[d].at = "placing"
  BY DEF Money, RowsPlaced
<1>7. work[d].at = "placing" => \A e \in Deals : ~At(e, "plan")
  BY DEF Money, Reading
<1>8. CASE /\ trades' = [trades EXCEPT ![d] = "done"]
           /\ free' = [free EXCEPT ![Spend(d)] = @ - deals[d].pending,
                                   ![Need(d)] = @ + deals[d].pending]
  <2>1. /\ trades'[d] = "done"
        /\ free'[Need(d)] = free[Need(d)] + deals[d].pending
        /\ free'[Spend(d)] = free[Spend(d)] - deals[d].pending
    BY <1>3, <1>5, <1>8 DEF Types
  <2>2. /\ OnItsWay(d) = deals[d].pending /\ OnItsWay(d)' = 0
        /\ Backing(d) = Minus(deals[d].hold, deals[d].pending)
        /\ Backing(d)' = Minus(deals[d].hold, 0)
        /\ Unplaced(d)' = Unplaced(d)
        /\ Need(d)' = Need(d) /\ Spend(d)' = Spend(d)
    BY <1>2, <1>4, <2>1 DEF OnItsWay, Backing, Unplaced, Need, Spend, At
  <2>3. Backing(d)' - Backing(d) <= deals[d].pending /\ Backing(d) \in Nat /\ Backing(d)' \in Nat
    BY <1>5, <2>2 DEF Minus
  <2>4. /\ Takes(d, Spend(d)) = OnItsWay(d) + (IF Unplaced(d) THEN deals[d].entry ELSE 0)
        /\ Takes(d, Need(d)) = (IF Unplaced(d) THEN Backing(d) ELSE 0)
    BY <1>3, TakesParts
  <2>5. /\ Takes(d, Spend(d))' = OnItsWay(d)' + (IF Unplaced(d)' THEN deals'[d].entry ELSE 0)
        /\ Takes(d, Need(d))' = (IF Unplaced(d)' THEN Backing(d)' ELSE 0)
    BY <1>3, TakesNext DEF TakesKnown
  <2>6. Takes(d, Spend(d))' - Takes(d, Spend(d)) <= free'[Spend(d)] - free[Spend(d)]
    BY <1>2, <1>5, <2>1, <2>2, <2>4, <2>5
  <2>7. Takes(d, Need(d))' - Takes(d, Need(d)) <= free'[Need(d)] - free[Need(d)]
    BY <1>5, <2>1, <2>2, <2>3, <2>4, <2>5
  <2>8. Pays(d)
    <3>1. \A x \in Assets : x = Need(d) \/ x = Spend(d)
      BY <1>3, Sides
    <3> QED BY <2>2, <2>6, <2>7, <3>1 DEF Pays
  <2>9. Mine(d)'
    BY <1>2, <1>3, <1>4, <1>6, <1>7, <2>1 DEF Mine, At, ToStore
  <2>10. \A e \in Deals \ {d} : holder # e
    BY <1>3
  <2> QED BY <1>2, <1>3, <2>8, <2>9, <2>10, PaidFor, MoneyKept DEF LeaseOf
<1>9. CASE trades' = [trades EXCEPT ![d] = "never"] /\ UNCHANGED free
  <2>1. trades'[d] = "never"
    BY <1>3, <1>9 DEF Types
  <2>2. /\ OnItsWay(d) \in Nat /\ Backing(d) \in Nat /\ OnItsWay(d)' = 0
        /\ Backing(d)' = Backing(d) /\ (Unplaced(d)' => Unplaced(d))
    BY <1>2, <1>3, <1>4, <2>1, TakesParts DEF OnItsWay, Backing, Unplaced, At
  <2>3. OnItsWay(d)' <= OnItsWay(d) /\ Backing(d)' <= Backing(d)
    BY <2>2
  <2>4. /\ LeaseOf(d)
        /\ (At(d, "send") \/ trades[d] = "sent")' => holder' = d
        /\ orders'[d] = "written" => work'[d].at = "placing"
        /\ work'[d].at = "placing" => work[d].at = "placing"
        /\ ~At(d, "plan")' /\ ~ToStore(d)'
    BY <1>2, <1>3, <1>4, <1>6 DEF LeaseOf, At, ToStore
  <2> QED BY <1>1, <1>2, <1>9, <2>2, <2>3, <2>4, QuietStep
<1>10. \/ /\ trades' = [trades EXCEPT ![d] = "done"]
          /\ free' = [free EXCEPT ![Spend(d)] = @ - deals[d].pending,
                                  ![Need(d)] = @ + deals[d].pending]
       \/ trades' = [trades EXCEPT ![d] = "never"] /\ UNCHANGED free
  BY DEF Execute
<1> QED BY <1>8, <1>9, <1>10

\* A step of the lease alone, that takes it from nobody who needs it.
LEMMA MoneyStays ==
    ASSUME Money, UNCHANGED <<section, legs, free, deals, work, trades, orders>>,
           \A d \in Deals : holder' = d => holder = d,
           Leased'
    PROVE  Money'
<1>1. RowsPlaced' /\ Reading'
  BY DEF Money, RowsPlaced, Reading, At
<1>2. \A d, x : Takes(d, x)' = Takes(d, x)
  BY DEF Takes, OnItsWay, Unplaced, Need, Spend, At
<1>3. Covered'
  BY <1>2 DEF Money, Covered
<1>4. ASSUME NEW d \in Deals, (ToStore(d) /\ holder = d)', NEW x \in Assets
      PROVE  PlanTakes(d, x)' + Others(d, x)' <= free'[x]
  <2>1. PlanTakes(d, x) + Others(d, x) <= free[x]
    BY <1>4 DEF Money, Affords, ToStore, At
  <2>2. PlanTakes(d, x)' = PlanTakes(d, x)
    BY DEF PlanTakes, Spend, Need
  <2>3. Others(d, x)' = Others(d, x)
    BY <1>2 DEF Others
  <2> QED BY <2>1, <2>2, <2>3
<1>5. \A d \in Deals : (ToStore(d) /\ holder = d)' => Affords(d)'
  BY <1>4 DEF Affords
<1> QED BY <1>1, <1>3, <1>5 DEF Money

\* The lease runs out under nothing that is sent, or something strays.
LEMMA LeaseKeeps ==
    ASSUME FundedInv, Money, strayed' = {},
           LeaseLapses \/ \E d \in Deals : HeartbeatStops(d)
    PROVE  Money'
<1>1. /\ UNCHANGED <<wrong, section, legs, free, deals, work, trades, orders>>
  BY LeaseStepped
<1>2. \/ holder' = holder
      \/ /\ holder \in Deals /\ holder' = NoOne
         /\ ~At(holder, "send") /\ trades[holder] # "sent"
  <2>1. CASE LeaseLapses
    <3>1. /\ holder \in Deals /\ holder' = NoOne
          /\ section[holder] # "inside" => trades[holder] # "sent"
          /\ ~At(holder, "send") /\ ~At(holder, "trade")
      BY <2>1 DEF LeaseLapses, Lapse, Trading, FundedInv, Types, LockTypes, Deals
    <3>2. Course(holder)
      BY <3>1 DEF FundedInv, Courses
    <3> QED BY <3>1, <3>2 DEF Course, At
  <2>2. CASE \E d \in Deals : HeartbeatStops(d)
    BY <2>2 DEF HeartbeatStops, Overstay
  <2> QED BY <2>1, <2>2
<1>3. \A d \in Deals : holder' = d => holder = d
  BY <1>2, NoOneAssumption DEF Deals
<1>4. Leased'
  BY <1>1, <1>2 DEF Money, Leased, At
<1> QED BY <1>1, <1>3, <1>4, MoneyStays

-----------------------------------------------------------------------------
(* The account has what its deals take *)

LEMMA SolventInitially == Init => SolventInv
<1> SUFFICES ASSUME Init PROVE SolventInv
  OBVIOUS
<1>1. FundedInv
  BY FundedInitially
<1>2. /\ section = [d \in Deals |-> "idle"] /\ work = [d \in Deals |-> Blank]
      /\ trades = [d \in Deals |-> "none"] /\ orders = [d \in Deals |-> "none"]
      /\ deals = [d \in Deals |-> [status |-> "start", entry |-> 0, hold |-> 0,
                                   pending |-> 0]]
  BY DEF Init, LockInit, Deals
<1>3. Leased /\ RowsPlaced /\ Reading /\ \A d \in Deals : ~ToStore(d)
  BY <1>2 DEF Leased, RowsPlaced, Reading, ToStore, At
<1>4. ASSUME NEW x \in Assets
      PROVE  Total(TakesOf(x)) <= free[x]
  <2>1. Types
    BY <1>1 DEF FundedInv
  <2>2. \A d \in Deals : Takes(d, x) = 0
    BY <1>2 DEF Takes, OnItsWay, At, Minus
  <2>3. \A d \in Deals : {d} \X (1..0) = {}
    OBVIOUS
  <2>4. Units(TakesOf(x)) = {}
    BY <2>2, <2>3 DEF Units, TakesOf
  <2>5. free[x] \in Nat
    BY <1>4, <2>1 DEF Types
  <2> QED BY <2>4, <2>5, FS_EmptySet DEF Total
<1>5. Covered
  BY <1>4 DEF Covered, TakesOf
<1> QED BY <1>1, <1>3, <1>5 DEF SolventInv, Money

LEMMA SolventSteps == SolventInv /\ [Next]_vars => SolventInv'
<1> SUFFICES ASSUME SolventInv, [Next]_vars, Calmly' PROVE Money'
  BY FundedSteps DEF SolventInv
<1>1. FundedInv /\ FundedInv'
  BY FundedSteps DEF SolventInv
<1>2. CASE UNCHANGED vars
  <2>1. /\ UNCHANGED <<wrong, holder, section>>
        /\ UNCHANGED <<legs, free, deals, work, trades, orders, strayed>>
    BY <1>2 DEF vars, lockVars, fundingVars
  <2>2. Money
    BY <2>1 DEF SolventInv, Calmly
  <2>3. Leased'
    BY <2>1, <2>2 DEF Money, Leased, At
  <2> QED BY <2>1, <2>2, <2>3, MoneyStays
<1>3. CASE LeaseLapses \/ \E d \in Deals : HeartbeatStops(d)
  <2>1. wrong' = wrong /\ strayed \subseteq strayed'
    BY <1>3 DEF LeaseLapses, Lapse, HeartbeatStops, Overstay, fundingVars
  <2>2. Money /\ strayed' = {}
    BY <2>1 DEF SolventInv, Calmly
  <2> QED BY <1>1, <1>3, <2>2, LeaseKeeps
<1>4. ASSUME NEW d \in Deals,
             \/ Onward(d) \/ AfterSection(d) \/ Execute(d) \/ CloseDeal(d) \/ Hang(d)
             \/ Die(d)
      PROVE  Money'
  <2>1. wrong' = wrong
    BY <1>1, <1>4, StepsOfADeal DEF Stepped, Only
  <2>2. strayed \subseteq strayed'
    BY <1>4 DEF Onward, InSection, AfterSection, AskFunding, Enter, NotAcquired,
                ReadBalances, Decide, Unreadable, Hold, Intend, SendTrade, Traded, Record,
                Leave, GiveUp, WriteRows, Place, Execute, CloseDeal, Hang, Die, Restart,
                fundingVars
  <2>3. Money /\ strayed' = {} /\ "placing" \notin wrong
    BY <2>1, <2>2 DEF SolventInv, Calmly
  <2>4. CASE AskFunding(d) \/ Enter(d) \/ NotAcquired(d) \/ Restart(d)
    BY <1>1, <2>3, <2>4, AskKeeps, EnterKeeps, NotAcquiredKeeps, RestartKeeps
  <2>5. CASE InSection(d)
    BY <1>1, <2>3, <2>5, ReadKeeps, DecideKeeps, UnreadableKeeps, HoldKeeps, IntendKeeps,
       SendKeeps, TradedKeeps, RecordKeeps, LeaveKeeps DEF InSection
  <2>6. CASE AfterSection(d)
    BY <1>1, <2>3, <2>6, GiveUpKeeps, WriteRowsKeeps, PlaceKeeps DEF AfterSection
  <2>7. CASE Execute(d) \/ CloseDeal(d) \/ Hang(d) \/ Die(d)
    BY <1>1, <2>3, <2>7, ExecuteKeeps, CloseKeeps, HangKeeps, DieKeeps
  <2> QED BY <1>4, <2>4, <2>5, <2>6, <2>7 DEF Onward
<1> QED BY <1>2, <1>3, <1>4 DEF Next, AllDecided

(***************************************************************************)
(* Whatever the order in which the legs of any number of deals read, plan, *)
(* trade, crash, are cancelled and place their orders, the account has     *)
(* what its funded deals together still take out of it, as long as no      *)
(* lease ran out under a trade or a record, and in the worlds in which the *)
(* balances are not read while another deal places its orders: in the      *)
(* others it need not. (fundingLock.ts, fundingReservation.ts)             *)
(***************************************************************************)
THEOREM SolventHolds == Spec => []("placing" \notin wrong => Solvent)
<1>1. Init => SolventInv
  BY SolventInitially
<1>2. SolventInv /\ [Next]_vars => SolventInv'
  BY SolventSteps
<1>3. SolventInv => ("placing" \notin wrong => Solvent)
  BY DEF SolventInv, Calmly, Money, Solvent
<1> QED BY <1>1, <1>2, <1>3, PTL DEF Spec
=============================================================================
