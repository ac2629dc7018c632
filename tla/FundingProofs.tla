--------------------------- MODULE FundingProofs ---------------------------
(***************************************************************************)
(* For any number of deals, any legs and balances and any set of worlds:   *)
(* a lease that is renewed stays with its section, and a deal's funding    *)
(* trade is sent once.                                                     *)
(***************************************************************************)
EXTENDS AccountFunding, TLAPS

(***************************************************************************)
(* The shape of the variables: which functions and records they are. What  *)
(* the sums of reservations are does not matter here.                      *)
(***************************************************************************)
Places == {"idle", "asking", "inside", "over", "refused", "down"}

IsWork(w) == w = [at |-> w.at, seen |-> w.seen, plan |-> w.plan, out |-> w.out]

IsDeal(deal) == deal = [status |-> deal.status, entry |-> deal.entry,
                        hold |-> deal.hold, pending |-> deal.pending]

WorkShape ==
    /\ work = [d \in Deals |-> work[d]]
    /\ \A d \in Deals : IsWork(work[d])

DealsShape ==
    /\ deals = [d \in Deals |-> deals[d]]
    /\ \A d \in Deals : IsDeal(deals[d])

Shape ==
    /\ section \in [Sections -> Places]
    /\ legs \in [Deals -> Legs]
    /\ trades \in [Deals -> {"none", "sent", "done", "never"}]
    /\ WorkShape
    /\ DealsShape

(***************************************************************************)
(* A deal has not traded while it may still come to trade, and one that    *)
(* has can be told by its record.                                          *)
(***************************************************************************)
Untraded(d) ==
    \/ section[d] \in {"idle", "asking"}
    \/ section[d] = "inside" /\ work[d].at \in {"read", "plan", "hold", "intend", "send"}

Planned(d) == work[d].at \in {"intend", "send", "trade", "record"}

TradeInv ==
    \A d \in Deals :
      /\ Untraded(d) => trades[d] = "none"
      /\ trades[d] # "none" => Resumes(deals[d])
      /\ At(d, "send") => Resumes(deals[d])
      /\ Planned(d) => Resumes(work[d].plan)

IInv == Shape /\ TradeInv

LeaseStep ==
    \A s \in Sections :
       holder = s /\ section[s] = "inside" /\ s \notin lost /\ "outage" \notin wrong
         => holder' = s \/ section'[s] # "inside"

TradeStep ==
    \A d \in Deals : trades'[d] = "sent" /\ trades[d] # "sent" => trades[d] = "none"

-----------------------------------------------------------------------------
(***************************************************************************)
(* The lock does not know its sections: the lease.                         *)
(***************************************************************************)
LEMMA LeaseOfLock ==
    ASSUME section \in [Sections -> Places],
           NEW s \in Sections,
           \/ Ask(s) \/ Take(s) \/ Unavailable(s) \/ WaitOver(s) \/ Overstay(s)
           \/ Lapse \/ Release(s) \/ Crash(s)
    PROVE  LeaseStep
<1>1. CASE Take(s) \/ Unavailable(s)
  BY <1>1, NoOneAssumption DEF Take, Unavailable, LeaseStep
<1>2. CASE Ask(s) \/ WaitOver(s) \/ Overstay(s) \/ Crash(s)
  BY <1>2 DEF Ask, WaitOver, Overstay, Crash, LeaseStep
<1>3. CASE Lapse
  BY <1>3 DEF Lapse, Renewed, LeaseStep
<1>4. CASE Release(s)
  <2>1. section'[s] = "over"
    BY <1>4 DEF Release, Moves
  <2>2. ASSUME NEW t \in Sections, holder = t, t # s
        PROVE  holder' = t
    BY <1>4, <2>2 DEF Release, CompareAndDelete
  <2> QED BY <2>1, <2>2 DEF LeaseStep
<1> QED BY <1>1, <1>2, <1>3, <1>4

(***************************************************************************)
(* A plan to fund a deal gives it an entry.                                *)
(***************************************************************************)
LEMMA FundedHasEntry ==
    ASSUME NEW leg \in Legs, NEW available,
           PlanFor(leg, available).kind \notin {"refuse", "held"}
    PROVE  Resumes(PlanFor(leg, available))
<1>1. leg.base \in Nat /\ leg.base > 0
  BY LegsAssumption
<1> QED BY <1>1 DEF PlanFor, Refusal, Resumes

LEMMA AfterPlan ==
    ASSUME NEW plan, After(plan) # "hold"
    PROVE  plan.kind # "held" /\ After(plan) \in {"intend", "record"}
BY DEF After

(***************************************************************************)
(* What the ways to write down a call's progress do to it.                 *)
(***************************************************************************)
LEMMA GoesOn ==
    ASSUME WorkShape, NEW d \in Deals, NEW place, Goes(d, place)
    PROVE  /\ WorkShape'
           /\ work'[d].at = place /\ work'[d].plan = work[d].plan
           /\ \A e \in Deals \ {d} : work'[e] = work[e]
<1>1. work' = [e \in Deals |-> IF e = d THEN [work[d] EXCEPT !.at = place] ELSE work[e]]
  BY DEF WorkShape, Goes
<1>2. [work[d] EXCEPT !.at = place]
        = [at |-> place, seen |-> work[d].seen, plan |-> work[d].plan, out |-> work[d].out]
  BY DEF WorkShape, IsWork
<1> QED BY <1>1, <1>2 DEF WorkShape, IsWork

LEMMA Begins ==
    ASSUME WorkShape, NEW d \in Deals, NEW w, IsWork(w), Turns(d, w)
    PROVE  /\ WorkShape'
           /\ work'[d] = w
           /\ \A e \in Deals \ {d} : work'[e] = work[e]
BY DEF WorkShape, IsWork, Turns

LEMMA Remembers ==
    ASSUME WorkShape, NEW d \in Deals, NEW place, NEW seen, NEW plan, NEW out,
           Turns(d, Memory(place, seen, plan, out))
    PROVE  /\ WorkShape'
           /\ work'[d].at = place /\ work'[d].plan = plan
           /\ \A e \in Deals \ {d} : work'[e] = work[e]
<1>1. IsWork(Memory(place, seen, plan, out))
  BY DEF Memory, IsWork
<1>2. work'[d] = Memory(place, seen, plan, out)
  BY <1>1, Begins
<1>3. Memory(place, seen, plan, out).at = place /\ Memory(place, seen, plan, out).plan = plan
  BY DEF Memory
<1>4. WorkShape' /\ \A e \in Deals \ {d} : work'[e] = work[e]
  BY <1>1, Begins
<1> QED BY <1>2, <1>3, <1>4

LEMMA EndsThere ==
    ASSUME WorkShape, NEW d \in Deals, NEW out, Ends(d, out) \/ Finishes(d)
    PROVE  /\ WorkShape'
           /\ work'[d].at \in {"end", "done"}
           /\ \A e \in Deals \ {d} : work'[e] = work[e]
<1>1. CASE Ends(d, out)
  BY <1>1, Remembers DEF Ends
<1>2. CASE Finishes(d)
  BY <1>2, Remembers DEF Finishes
<1> QED BY <1>1, <1>2

LEMMA Written ==
    ASSUME DealsShape, NEW d \in Deals, NEW v, IsDeal(v),
           deals' = [deals EXCEPT ![d] = v]
    PROVE  /\ DealsShape'
           /\ deals'[d] = v
           /\ \A e \in Deals \ {d} : deals'[e] = deals[e]
BY DEF DealsShape, IsDeal

LEMMA OneFieldOfADeal ==
    ASSUME DealsShape, NEW d \in Deals, NEW v,
           \/ deals' = [deals EXCEPT ![d].status = v]
           \/ deals' = [deals EXCEPT ![d].hold = v]
           \/ deals' = [deals EXCEPT ![d].pending = v]
    PROVE  /\ DealsShape'
           /\ \A e \in Deals : deals'[e].entry = deals[e].entry
<1> DEFINE deal == deals[d]
<1>1. IsDeal(deal)
  BY DEF DealsShape
<1>2. deals' = [deals EXCEPT ![d] = [deal EXCEPT !.status = v]]
      \/ deals' = [deals EXCEPT ![d] = [deal EXCEPT !.hold = v]]
      \/ deals' = [deals EXCEPT ![d] = [deal EXCEPT !.pending = v]]
  OBVIOUS
<1>3. /\ IsDeal([deal EXCEPT !.status = v]) /\ [deal EXCEPT !.status = v].entry = deal.entry
      /\ IsDeal([deal EXCEPT !.hold = v]) /\ [deal EXCEPT !.hold = v].entry = deal.entry
      /\ IsDeal([deal EXCEPT !.pending = v]) /\ [deal EXCEPT !.pending = v].entry = deal.entry
  <2> HIDE DEF deal
  <2> QED BY <1>1 DEF IsDeal
<1>4. PICK w : deals' = [deals EXCEPT ![d] = w] /\ IsDeal(w) /\ w.entry = deal.entry
  <2> HIDE DEF deal
  <2> QED BY <1>2, <1>3
<1>5. /\ DealsShape'
      /\ deals'[d] = w
      /\ \A e \in Deals \ {d} : deals'[e] = deals[e]
  BY <1>4, Written
<1> QED BY <1>4, <1>5

-----------------------------------------------------------------------------
(***************************************************************************)
(* A step is one of these, as far as the invariant goes: the trades and    *)
(* entries stay, and the call of one deal comes to a place of which the    *)
(* invariant asks nothing new.                                             *)
(***************************************************************************)
Apart(d) == \A e \in Deals \ {d} : section'[e] = section[e] /\ work'[e] = work[e]

Kept ==
    /\ trades' = trades
    /\ \A e \in Deals : deals'[e].entry = deals[e].entry

LEMMA ElsewhereKept ==
    ASSUME TradeInv, NEW d \in Deals, Apart(d), Kept,
           (Untraded(d) => trades[d] = "none")',
           (At(d, "send") => Resumes(deals[d]))',
           (Planned(d) => Resumes(work[d].plan))'
    PROVE  TradeInv' /\ TradeStep
<1>1. \A e \in Deals : (Resumes(deals[e]))' <=> Resumes(deals[e])
  BY DEF Kept, Resumes
<1>2. ASSUME NEW e \in Deals, e # d
      PROVE  /\ Untraded(e)' <=> Untraded(e)
             /\ At(e, "send")' <=> At(e, "send")
             /\ Planned(e)' <=> Planned(e)
             /\ Resumes(work[e].plan)' <=> Resumes(work[e].plan)
  BY <1>2 DEF Apart, Untraded, At, Planned, Resumes
<1>3. trades' = trades
  BY DEF Kept
<1>4. ASSUME NEW e \in Deals
      PROVE  /\ Untraded(e)' => trades'[e] = "none"
             /\ trades'[e] # "none" => Resumes(deals[e])'
             /\ At(e, "send")' => Resumes(deals[e])'
             /\ Planned(e)' => Resumes(work[e].plan)'
  BY <1>1, <1>2, <1>3 DEF TradeInv
<1> QED BY <1>3, <1>4 DEF TradeInv, TradeStep

(***************************************************************************)
(* The same of the whole invariant, for a call that stays where it is, and *)
(* for one that moves.                                                     *)
(***************************************************************************)
LEMMA Stays ==
    ASSUME IInv, NEW d \in Deals, UNCHANGED <<section, legs>>, Kept,
           WorkShape', DealsShape',
           \A e \in Deals \ {d} : work'[e] = work[e],
           (Untraded(d) => trades[d] = "none")',
           (At(d, "send") => Resumes(deals[d]))',
           (Planned(d) => Resumes(work[d].plan))'
    PROVE  IInv' /\ TradeStep
<1>1. Apart(d)
  BY DEF Apart
<1>2. TradeInv' /\ TradeStep
  BY <1>1, ElsewhereKept DEF IInv
<1>3. Shape'
  BY DEF IInv, Shape, Kept
<1> QED BY <1>2, <1>3 DEF IInv

LEMMA MovesOn ==
    ASSUME IInv, NEW d \in Deals, NEW place \in Places, Moves(d, place),
           UNCHANGED legs, Kept, WorkShape', DealsShape',
           \A e \in Deals \ {d} : work'[e] = work[e],
           (Untraded(d) => trades[d] = "none")',
           (At(d, "send") => Resumes(deals[d]))',
           (Planned(d) => Resumes(work[d].plan))'
    PROVE  IInv' /\ TradeStep
<1>1. Apart(d) /\ section' \in [Sections -> Places]
  BY DEF Apart, Moves, IInv, Shape, Deals
<1>2. TradeInv' /\ TradeStep
  BY <1>1, ElsewhereKept DEF IInv
<1>3. Shape'
  BY <1>1 DEF IInv, Shape, Kept
<1> QED BY <1>2, <1>3 DEF IInv

LEMMA MovedThere ==
    ASSUME IInv, NEW d \in Deals, NEW place, Moves(d, place)
    PROVE  section'[d] = place
BY DEF Moves, IInv, Shape, Deals

LEMMA Unchanged ==
    ASSUME IInv, UNCHANGED <<section, legs, work, deals, trades>>
    PROVE  IInv' /\ TradeStep
BY DEF IInv, Shape, WorkShape, DealsShape, TradeInv, TradeStep, Untraded, At, Planned,
       Resumes, IsWork, IsDeal

-----------------------------------------------------------------------------
(***************************************************************************)
(* The call ends: nothing is asked of it any more.                         *)
(***************************************************************************)
LEMMA CallEnds ==
    ASSUME IInv, NEW d \in Deals, UNCHANGED <<section, legs, trades>>,
           NEW out, Ends(d, out) \/ Finishes(d), DealsShape',
           \A e \in Deals : deals'[e].entry = deals[e].entry
    PROVE  IInv' /\ TradeStep
<1>1. /\ WorkShape' /\ work'[d].at \in {"end", "done"}
      /\ \A e \in Deals \ {d} : work'[e] = work[e]
  BY EndsThere DEF IInv, Shape
<1>2. Kept
  BY DEF Kept
<1>3. (Untraded(d) => trades[d] = "none")' /\ ~At(d, "send")' /\ ~Planned(d)'
  BY <1>1 DEF Untraded, At, Planned, IInv, TradeInv
<1> QED BY <1>1, <1>2, <1>3, Stays

LEMMA RefuseStep ==
    ASSUME IInv, NEW d \in Deals, section[d] = "inside", UNCHANGED <<section, legs, trades>>,
           Refuse(d)
    PROVE  IInv' /\ TradeStep
<1>1. DealsShape' /\ \A e \in Deals : deals'[e].entry = deals[e].entry
  BY OneFieldOfADeal DEF Refuse, Retire, IInv, Shape
<1>2. Ends(d, "refused")
  BY DEF Refuse
<1> QED BY <1>1, <1>2, CallEnds

LEMMA NoDealWritten ==
    ASSUME IInv, UNCHANGED deals
    PROVE  DealsShape' /\ \A e \in Deals : deals'[e].entry = deals[e].entry
BY DEF IInv, Shape, DealsShape, IsDeal

LEMMA NoWorkWritten ==
    ASSUME IInv, UNCHANGED work
    PROVE  WorkShape' /\ \A e \in Deals : work'[e] = work[e]
BY DEF IInv, Shape, WorkShape, IsWork

(***************************************************************************)
(* The way into the section.                                               *)
(***************************************************************************)
LEMMA AskStep ==
    ASSUME IInv, NEW d \in Deals, AskFunding(d)
    PROVE  IInv' /\ TradeStep
<1>1. /\ section[d] = "idle" /\ Moves(d, "asking")
      /\ UNCHANGED <<legs, work, deals, trades>>
  BY DEF AskFunding, Ask, fundingVars
<1>2. section'[d] = "asking" /\ Kept /\ WorkShape' /\ DealsShape'
  BY <1>1, MovedThere, NoWorkWritten, NoDealWritten DEF Kept
<1>3. trades'[d] = "none"
  BY <1>1 DEF IInv, TradeInv, Untraded
<1>4. (Planned(d) => Resumes(work[d].plan))'
  BY <1>1 DEF IInv, TradeInv, Planned, Resumes
<1>5. ~At(d, "send")'
  BY <1>2 DEF At
<1> QED BY <1>1, <1>2, <1>3, <1>4, <1>5, MovesOn DEF Places

LEMMA EnterStep ==
    ASSUME IInv, NEW d \in Deals, Enter(d)
    PROVE  IInv' /\ TradeStep
<1>1. /\ section[d] = "asking" /\ Moves(d, "inside") /\ Goes(d, "read")
      /\ UNCHANGED <<legs, deals, trades>>
  BY DEF Enter, Take
<1>2. Kept /\ DealsShape'
  BY <1>1, NoDealWritten DEF Kept
<1>3. /\ WorkShape' /\ work'[d].at = "read"
      /\ \A e \in Deals \ {d} : work'[e] = work[e]
  BY <1>1, GoesOn DEF IInv, Shape
<1>4. trades'[d] = "none"
  BY <1>1 DEF IInv, TradeInv, Untraded
<1>5. ~At(d, "send")' /\ ~Planned(d)'
  BY <1>3 DEF At, Planned
<1> QED BY <1>1, <1>2, <1>3, <1>4, <1>5, MovesOn DEF Places

LEMMA NotAcquiredStep ==
    ASSUME IInv, NEW d \in Deals, NotAcquired(d)
    PROVE  IInv' /\ TradeStep
<1>1. Moves(d, "refused") /\ UNCHANGED <<legs, work, deals, trades>>
  BY DEF NotAcquired, Unavailable, WaitOver, fundingVars
<1>2. section'[d] = "refused" /\ Kept /\ WorkShape' /\ DealsShape'
  BY <1>1, MovedThere, NoWorkWritten, NoDealWritten DEF Kept
<1>3. (Planned(d) => Resumes(work[d].plan))'
  BY <1>1 DEF IInv, TradeInv, Planned, Resumes
<1>4. ~At(d, "send")' /\ ~Untraded(d)'
  BY <1>2 DEF At, Untraded
<1> QED BY <1>1, <1>2, <1>3, <1>4, MovesOn DEF Places

(***************************************************************************)
(* Inside the section, up to the decision.                                 *)
(***************************************************************************)
LEMMA ReadStep ==
    ASSUME IInv, NEW d \in Deals, ReadBalances(d)
    PROVE  IInv' /\ TradeStep
<1>1. section[d] = "inside" /\ work[d].at = "read" /\ UNCHANGED <<section, legs, deals, trades>>
  BY DEF ReadBalances, At, lockVars
<1>2. Kept /\ DealsShape' /\ \A e \in Deals : deals'[e].entry = deals[e].entry
  BY <1>1, NoDealWritten DEF Kept
<1>3. CASE Ends(d, "refused")
  BY <1>1, <1>2, <1>3, CallEnds
<1>4. CASE Turns(d, Memory("plan", free, Refusal, "none"))
  <2>1. /\ WorkShape' /\ work'[d].at = "plan"
        /\ \A e \in Deals \ {d} : work'[e] = work[e]
    BY <1>4, Remembers DEF IInv, Shape
  <2>2. trades'[d] = "none" /\ ~At(d, "send")' /\ ~Planned(d)'
    BY <1>1, <2>1 DEF IInv, TradeInv, Untraded, At, Planned
  <2> QED BY <1>1, <1>2, <2>1, <2>2, Stays
<1> QED BY <1>3, <1>4 DEF ReadBalances

LEMMA DecideStep ==
    ASSUME IInv, NEW d \in Deals, Decide(d)
    PROVE  IInv' /\ TradeStep
<1> DEFINE plan == PlanFor(legs[d], [x \in Assets |->
                     Minus(work[d].seen[x], ReservedFrom(d, x))])
<1>1. section[d] = "inside" /\ work[d].at = "plan" /\ UNCHANGED <<section, legs, trades>>
  BY DEF Decide, At, lockVars
<1>2. CASE Refuse(d)
  BY <1>1, <1>2, RefuseStep
<1>3. CASE /\ plan.kind # "refuse" /\ UNCHANGED deals
           /\ Turns(d, Memory(After(plan), NoBalances, plan, "none"))
  <2>1. legs[d] \in Legs
    BY DEF IInv, Shape, Deals
  <2>2. plan.kind # "held" => Resumes(plan)
    BY <1>3, <2>1, FundedHasEntry
  <2> HIDE DEF plan
  <2>3. /\ WorkShape' /\ work'[d].at = After(plan) /\ work'[d].plan = plan
        /\ \A e \in Deals \ {d} : work'[e] = work[e]
    BY <1>3, Remembers DEF IInv, Shape
  <2>4. \/ After(plan) = "hold"
        \/ After(plan) \in {"intend", "record"} /\ Resumes(plan)
    BY <2>2, AfterPlan
  <2>5. Kept /\ DealsShape'
    BY <1>1, <1>3, NoDealWritten DEF Kept
  <2>6. trades'[d] = "none"
    BY <1>1 DEF IInv, TradeInv, Untraded
  <2>7. ~At(d, "send")' /\ (Planned(d) => Resumes(work[d].plan))'
    BY <2>3, <2>4 DEF At, Planned, Resumes
  <2> QED BY <1>1, <2>3, <2>5, <2>6, <2>7, Stays
<1> QED BY <1>2, <1>3 DEF Decide

LEMMA UnreadableStep ==
    ASSUME IInv, NEW d \in Deals, Unreadable(d)
    PROVE  IInv' /\ TradeStep
<1>1. section[d] = "inside" /\ UNCHANGED <<section, legs, trades>>
  BY DEF Unreadable, At, lockVars
<1>2. CASE Refuse(d)
  BY <1>1, <1>2, RefuseStep
<1>3. CASE Ends(d, "thrown") /\ UNCHANGED deals
  BY <1>1, <1>3, CallEnds, NoDealWritten
<1> QED BY <1>2, <1>3 DEF Unreadable

LEMMA HoldStep ==
    ASSUME IInv, NEW d \in Deals, Hold(d)
    PROVE  IInv' /\ TradeStep
<1>1. section[d] = "inside" /\ UNCHANGED <<section, legs, trades>>
  BY DEF Hold, At
<1>2. CASE Refuse(d)
  BY <1>1, <1>2, RefuseStep
<1>3. CASE /\ deals' = [deals EXCEPT ![d].hold = work[d].plan.hold]
           /\ Ends(d, "held")
  <2>1. DealsShape' /\ \A e \in Deals : deals'[e].entry = deals[e].entry
    BY <1>3, OneFieldOfADeal DEF IInv, Shape
  <2> QED BY <1>1, <1>3, <2>1, CallEnds
<1> QED BY <1>2, <1>3 DEF Hold

(***************************************************************************)
(* The intent and the record give the deal its plan's entry.               *)
(***************************************************************************)
LEMMA PlanWritten ==
    ASSUME IInv, NEW d \in Deals, NEW plan, Resumes(plan),
           \/ deals' = [deals EXCEPT ![d] = Intent(@, plan)]
           \/ deals' = [deals EXCEPT ![d] = Recorded(@, plan)]
    PROVE  /\ DealsShape'
           /\ Resumes(deals[d])'
           /\ \A e \in Deals \ {d} : deals'[e] = deals[e]
<1> DEFINE deal == deals[d]
<1>1. IsDeal(deal)
  BY DEF IInv, Shape, DealsShape
<1>2. \/ deals' = [deals EXCEPT ![d] = Intent(deal, plan)]
      \/ deals' = [deals EXCEPT ![d] = Recorded(deal, plan)]
  OBVIOUS
<1>3. IsDeal(Intent(deal, plan)) /\ Intent(deal, plan).entry = plan.entry
  <2> HIDE DEF deal
  <2> QED BY <1>1 DEF IsDeal, Intent
<1>4. IsDeal(Recorded(deal, plan)) /\ Recorded(deal, plan).entry = plan.entry
  <2> HIDE DEF deal
  <2> QED BY <1>1 DEF IsDeal, Recorded
<1>5. DealsShape
  BY DEF IInv, Shape
<1>6. ASSUME NEW v, IsDeal(v), v.entry = plan.entry, deals' = [deals EXCEPT ![d] = v]
      PROVE  /\ DealsShape' /\ deals'[d].entry = plan.entry
             /\ \A e \in Deals \ {d} : deals'[e] = deals[e]
  BY <1>5, <1>6, Written
<1>7. DealsShape' /\ deals'[d].entry = plan.entry
      /\ \A e \in Deals \ {d} : deals'[e] = deals[e]
  <2> HIDE DEF deal
  <2> QED BY <1>2, <1>3, <1>4, <1>6
<1> QED BY <1>7 DEF Resumes

LEMMA PlanStep ==
    ASSUME IInv, NEW d \in Deals, section[d] = "inside",
           UNCHANGED <<section, legs, trades>>, WorkShape', DealsShape',
           \A e \in Deals \ {d} : work'[e] = work[e] /\ deals'[e] = deals[e],
           Resumes(deals[d])',
           (Untraded(d) => trades[d] = "none")',
           (Planned(d) => Resumes(work[d].plan))'
    PROVE  IInv' /\ TradeStep
<1>1. ASSUME NEW e \in Deals, e # d
      PROVE  /\ Untraded(e)' <=> Untraded(e)
             /\ At(e, "send")' <=> At(e, "send")
             /\ Planned(e)' <=> Planned(e)
             /\ Resumes(work[e].plan)' <=> Resumes(work[e].plan)
             /\ Resumes(deals[e])' <=> Resumes(deals[e])
  BY <1>1 DEF Untraded, At, Planned, Resumes
<1>2. ASSUME NEW e \in Deals
      PROVE  /\ Untraded(e)' => trades'[e] = "none"
             /\ trades'[e] # "none" => Resumes(deals[e])'
             /\ At(e, "send")' => Resumes(deals[e])'
             /\ Planned(e)' => Resumes(work[e].plan)'
  BY <1>1 DEF IInv, TradeInv
<1>3. Shape'
  BY DEF IInv, Shape
<1> QED BY <1>2, <1>3 DEF IInv, TradeInv, TradeStep

LEMMA IntendStep ==
    ASSUME IInv, NEW d \in Deals, Intend(d)
    PROVE  IInv' /\ TradeStep
<1>1. /\ section[d] = "inside" /\ work[d].at = "intend"
      /\ UNCHANGED <<section, legs, trades>>
  BY DEF Intend, At
<1>2. CASE Ends(d, "refused") /\ UNCHANGED deals
  BY <1>1, <1>2, CallEnds, NoDealWritten
<1>3. CASE Refuse(d)
  BY <1>1, <1>3, RefuseStep
<1>4. CASE deals' = [deals EXCEPT ![d] = Intent(@, work[d].plan)] /\ Goes(d, "send")
  <2>1. Resumes(work[d].plan) /\ trades[d] = "none"
    BY <1>1 DEF IInv, TradeInv, Planned, Untraded
  <2>2. DealsShape' /\ Resumes(deals[d])' /\ \A e \in Deals \ {d} : deals'[e] = deals[e]
    BY <1>4, <2>1, PlanWritten
  <2>3. /\ WorkShape' /\ work'[d].plan = work[d].plan
        /\ \A e \in Deals \ {d} : work'[e] = work[e]
    BY <1>4, GoesOn DEF IInv, Shape
  <2>4. trades'[d] = "none" /\ Resumes(work[d].plan)'
    BY <1>1, <2>1, <2>3 DEF Resumes
  <2> QED BY <1>1, <2>2, <2>3, <2>4, PlanStep
<1> QED BY <1>2, <1>3, <1>4 DEF Intend

LEMMA RecordStep ==
    ASSUME IInv, NEW d \in Deals, Record(d)
    PROVE  IInv' /\ TradeStep
<1>1. /\ section[d] = "inside" /\ work[d].at = "record"
      /\ UNCHANGED <<section, legs, trades>>
  BY DEF Record, At
<1>2. CASE Ends(d, "refused") /\ UNCHANGED deals
  BY <1>1, <1>2, CallEnds, NoDealWritten
<1>3. CASE deals' = [deals EXCEPT ![d] = Recorded(@, work[d].plan)] /\ Ends(d, "virtual")
  <2>1. Resumes(work[d].plan)
    BY <1>1 DEF IInv, TradeInv, Planned
  <2>2. DealsShape' /\ Resumes(deals[d])' /\ \A e \in Deals \ {d} : deals'[e] = deals[e]
    BY <1>3, <2>1, PlanWritten
  <2>3. /\ WorkShape' /\ work'[d].at \in {"end", "done"}
        /\ \A e \in Deals \ {d} : work'[e] = work[e]
    BY <1>3, EndsThere DEF IInv, Shape
  <2>4. ~Untraded(d)' /\ ~Planned(d)'
    BY <1>1, <2>3 DEF Untraded, Planned
  <2> QED BY <1>1, <2>2, <2>3, <2>4, PlanStep
<1> QED BY <1>2, <1>3 DEF Record

(***************************************************************************)
(* The trade.                                                              *)
(***************************************************************************)
LEMMA TradeChanges ==
    ASSUME IInv, NEW d \in Deals, UNCHANGED <<section, legs, deals>>,
           NEW v \in {"sent", "done", "never"}, trades' = [trades EXCEPT ![d] = v],
           v = "sent" => trades[d] = "none",
           WorkShape', \A e \in Deals \ {d} : work'[e] = work[e],
           ~Untraded(d)', Resumes(deals[d]), (Planned(d) => Resumes(work[d].plan))'
    PROVE  IInv' /\ TradeStep
<1>1. \A e \in Deals \ {d} : trades'[e] = trades[e]
  BY DEF IInv, Shape
<1>2. trades'[d] = v /\ trades' \in [Deals -> {"none", "sent", "done", "never"}]
  BY DEF IInv, Shape
<1>3. ASSUME NEW e \in Deals, e # d
      PROVE  /\ Untraded(e)' <=> Untraded(e)
             /\ At(e, "send")' <=> At(e, "send")
             /\ Planned(e)' <=> Planned(e)
             /\ Resumes(work[e].plan)' <=> Resumes(work[e].plan)
  BY <1>3 DEF Untraded, At, Planned, Resumes
<1>4. \A e \in Deals : Resumes(deals[e])' <=> Resumes(deals[e])
  BY DEF Resumes
<1>5. ASSUME NEW e \in Deals
      PROVE  /\ Untraded(e)' => trades'[e] = "none"
             /\ trades'[e] # "none" => Resumes(deals[e])'
             /\ At(e, "send")' => Resumes(deals[e])'
             /\ Planned(e)' => Resumes(work[e].plan)'
  <2>1. CASE e = d
    BY <2>1, <1>4
  <2>2. CASE e # d
    BY <2>2, <1>1, <1>3, <1>4 DEF IInv, TradeInv
  <2> QED BY <2>1, <2>2
<1>6. Shape'
  BY <1>2, NoDealWritten DEF IInv, Shape
<1>7. TradeStep
  BY <1>1, <1>2 DEF TradeStep
<1> QED BY <1>5, <1>6, <1>7 DEF IInv, TradeInv

LEMMA SendStep ==
    ASSUME IInv, NEW d \in Deals, SendTrade(d)
    PROVE  IInv' /\ TradeStep
<1>1. /\ section[d] = "inside" /\ work[d].at = "send" /\ Goes(d, "trade")
      /\ trades' = [trades EXCEPT ![d] = "sent"] /\ UNCHANGED <<section, legs, deals>>
  BY DEF SendTrade, At, lockVars
<1>2. /\ WorkShape' /\ work'[d].at = "trade" /\ work'[d].plan = work[d].plan
      /\ \A e \in Deals \ {d} : work'[e] = work[e]
  BY <1>1, GoesOn DEF IInv, Shape
<1>3. trades[d] = "none" /\ Resumes(deals[d]) /\ Resumes(work[d].plan)
  BY <1>1 DEF IInv, TradeInv, Untraded, At, Planned
<1>4. ~Untraded(d)' /\ Resumes(work[d].plan)'
  BY <1>1, <1>2, <1>3 DEF Untraded, Resumes
<1> QED BY <1>1, <1>2, <1>3, <1>4, TradeChanges

LEMMA ExecuteStep ==
    ASSUME IInv, NEW d \in Deals, Execute(d)
    PROVE  IInv' /\ TradeStep
<1>1. /\ trades[d] = "sent" /\ UNCHANGED <<section, legs, deals, work>>
      /\ \E v \in {"done", "never"} : trades' = [trades EXCEPT ![d] = v]
  BY DEF Execute, lockVars
<1>2. WorkShape' /\ \A e \in Deals : work'[e] = work[e]
  BY <1>1, NoWorkWritten
<1>3. ~Untraded(d) /\ Resumes(deals[d]) /\ (Planned(d) => Resumes(work[d].plan))
  BY <1>1 DEF IInv, TradeInv
<1>4. ~Untraded(d)' /\ (Planned(d) => Resumes(work[d].plan))'
  BY <1>1, <1>3 DEF Untraded, Planned, Resumes
<1> QED BY <1>1, <1>2, <1>3, <1>4, TradeChanges

LEMMA TradedStep ==
    ASSUME IInv, NEW d \in Deals, Traded(d)
    PROVE  IInv' /\ TradeStep
<1>1. /\ section[d] = "inside" /\ work[d].at = "trade"
      /\ UNCHANGED <<section, legs, trades>>
  BY DEF Traded, At, lockVars
<1>2. CASE Refuse(d)
  BY <1>1, <1>2, RefuseStep
<1>3. CASE Goes(d, "record") /\ UNCHANGED deals
  <2>1. /\ WorkShape' /\ work'[d].at = "record" /\ work'[d].plan = work[d].plan
        /\ \A e \in Deals \ {d} : work'[e] = work[e]
    BY <1>3, GoesOn DEF IInv, Shape
  <2>2. Kept /\ DealsShape'
    BY <1>1, <1>3, NoDealWritten DEF Kept
  <2>3. Resumes(work[d].plan)
    BY <1>1 DEF IInv, TradeInv, Planned
  <2>4. ~Untraded(d)' /\ ~At(d, "send")' /\ Resumes(work[d].plan)'
    BY <1>1, <2>1, <2>3 DEF Untraded, At, Resumes
  <2> QED BY <1>1, <2>1, <2>2, <2>4, Stays
<1> QED BY <1>2, <1>3 DEF Traded

(***************************************************************************)
(* The way out, and what comes after the section.                          *)
(***************************************************************************)
LEMMA LeaveStep ==
    ASSUME IInv, NEW d \in Deals, Leave(d)
    PROVE  IInv' /\ TradeStep
<1>1. /\ work[d].at = "end" /\ Moves(d, "over")
      /\ UNCHANGED <<legs, work, deals, trades>>
  BY DEF Leave, At, Release, fundingVars
<1>2. section'[d] = "over" /\ Kept /\ WorkShape' /\ DealsShape'
  BY <1>1, MovedThere, NoWorkWritten, NoDealWritten DEF Kept
<1>3. ~Untraded(d)' /\ ~At(d, "send")' /\ ~Planned(d)'
  BY <1>1, <1>2 DEF Untraded, At, Planned
<1> QED BY <1>1, <1>2, <1>3, MovesOn DEF Places

LEMMA GiveUpStep ==
    ASSUME IInv, NEW d \in Deals, GiveUp(d)
    PROVE  IInv' /\ TradeStep
<1>1. Finishes(d) /\ UNCHANGED <<section, legs, trades>> /\ (Retire(d) \/ UNCHANGED deals)
  BY DEF GiveUp, lockVars
<1>2. DealsShape' /\ \A e \in Deals : deals'[e].entry = deals[e].entry
  BY <1>1, OneFieldOfADeal, NoDealWritten DEF Retire, IInv, Shape
<1> QED BY <1>1, <1>2, CallEnds

LEMMA WriteRowsStep ==
    ASSUME IInv, NEW d \in Deals, WriteRows(d)
    PROVE  IInv' /\ TradeStep
<1>1. UNCHANGED <<section, legs, trades>>
  BY DEF WriteRows, lockVars
<1>2. CASE Finishes(d) /\ UNCHANGED deals
  BY <1>1, <1>2, CallEnds, NoDealWritten
<1>3. CASE Starts(d)
  <2>1. DealsShape' /\ \A e \in Deals : deals'[e].entry = deals[e].entry
    BY <1>3, OneFieldOfADeal DEF Starts, IInv, Shape
  <2>2. /\ WorkShape' /\ work'[d].at = "placing"
        /\ \A e \in Deals \ {d} : work'[e] = work[e]
    BY <1>3, GoesOn DEF Starts, IInv, Shape
  <2>3. (Untraded(d) => trades[d] = "none")' /\ ~At(d, "send")' /\ ~Planned(d)'
    BY <1>1, <2>2 DEF Untraded, At, Planned, IInv, TradeInv
  <2>4. Kept
    BY <1>1, <2>1 DEF Kept
  <2> QED BY <1>1, <2>1, <2>2, <2>3, <2>4, Stays
<1> QED BY <1>2, <1>3 DEF WriteRows

LEMMA PlaceStep ==
    ASSUME IInv, NEW d \in Deals, Place(d)
    PROVE  IInv' /\ TradeStep
<1>1. /\ Finishes(d) /\ UNCHANGED <<section, legs, trades>>
      /\ UNCHANGED deals \/ deals' = [deals EXCEPT ![d].hold = HoldRemaining(d)]
  BY DEF Place, lockVars
<1>2. DealsShape' /\ \A e \in Deals : deals'[e].entry = deals[e].entry
  BY <1>1, OneFieldOfADeal, NoDealWritten DEF IInv, Shape
<1> QED BY <1>1, <1>2, CallEnds

(***************************************************************************)
(* What happens to a call.                                                 *)
(***************************************************************************)
LEMMA CloseStep ==
    ASSUME IInv, NEW d \in Deals, CloseDeal(d)
    PROVE  IInv' /\ TradeStep
<1>1. Retire(d) /\ UNCHANGED <<section, legs, work, trades>>
  BY DEF CloseDeal, lockVars
<1>2. DealsShape' /\ \A e \in Deals : deals'[e].entry = deals[e].entry
  BY <1>1, OneFieldOfADeal DEF Retire, IInv, Shape
<1>3. WorkShape' /\ \A e \in Deals : work'[e] = work[e]
  BY <1>1, NoWorkWritten
<1>4. Kept
  BY <1>1, <1>2 DEF Kept
<1>5. (Untraded(d) => trades[d] = "none")' /\ (Planned(d) => Resumes(work[d].plan))'
  BY <1>1 DEF IInv, TradeInv, Untraded, Planned, Resumes
<1>6. (At(d, "send") => Resumes(deals[d]))'
  BY <1>1, <1>2 DEF IInv, TradeInv, At, Resumes
<1> QED BY <1>1, <1>2, <1>3, <1>4, <1>5, <1>6, Stays

LEMMA HangStep ==
    ASSUME IInv, NEW d \in Deals, Hang(d)
    PROVE  IInv' /\ TradeStep
<1>1. /\ Turns(d, Memory("hung", NoBalances, Refusal, "none"))
      /\ section[d] = "inside" /\ UNCHANGED <<section, legs, deals, trades>>
  BY DEF Hang, lockVars
<1>2. /\ WorkShape' /\ work'[d].at = "hung"
      /\ \A e \in Deals \ {d} : work'[e] = work[e]
  BY <1>1, Remembers DEF IInv, Shape
<1>3. Kept /\ DealsShape'
  BY <1>1, NoDealWritten DEF Kept
<1>4. ~Untraded(d)' /\ ~At(d, "send")' /\ ~Planned(d)'
  BY <1>1, <1>2 DEF Untraded, At, Planned
<1> QED BY <1>1, <1>2, <1>3, <1>4, Stays

LEMMA DieStep ==
    ASSUME IInv, NEW d \in Deals, Die(d)
    PROVE  IInv' /\ TradeStep
<1>1. /\ Moves(d, "down") /\ Turns(d, Memory("none", NoBalances, Refusal, "none"))
      /\ UNCHANGED <<legs, deals, trades>>
  BY DEF Die, Crash, Blank
<1>2. /\ WorkShape' /\ work'[d].at = "none"
      /\ \A e \in Deals \ {d} : work'[e] = work[e]
  BY <1>1, Remembers DEF IInv, Shape
<1>3. section'[d] = "down" /\ Kept /\ DealsShape'
  BY <1>1, MovedThere, NoDealWritten DEF Kept
<1>4. ~Untraded(d)' /\ ~At(d, "send")' /\ ~Planned(d)'
  BY <1>2, <1>3 DEF Untraded, At, Planned
<1> QED BY <1>1, <1>2, <1>3, <1>4, MovesOn DEF Places

LEMMA RestartStep ==
    ASSUME IInv, NEW d \in Deals, Restart(d)
    PROVE  IInv' /\ TradeStep
<1>1. UNCHANGED <<legs, trades>>
  BY DEF Restart
<1>2. CASE \/ Finishes(d) /\ Back(d, "over") /\ UNCHANGED deals
           \/ Resume(d)
  <2>1. /\ Moves(d, "over")
        /\ Finishes(d) \/ Ends(d, "virtual")
        /\ \/ Retire(d) \/ UNCHANGED deals
           \/ deals' = [deals EXCEPT ![d].pending = 0]
    BY <1>2 DEF Resume, Back
  <2>2. DealsShape' /\ \A e \in Deals : deals'[e].entry = deals[e].entry
    BY <2>1, OneFieldOfADeal, NoDealWritten DEF Retire, IInv, Shape
  <2>3. /\ WorkShape' /\ work'[d].at \in {"end", "done"}
        /\ \A e \in Deals \ {d} : work'[e] = work[e]
    BY <2>1, EndsThere DEF IInv, Shape
  <2>4. section'[d] = "over" /\ Kept
    BY <1>1, <2>1, <2>2, MovedThere DEF Kept
  <2>5. ~Untraded(d)' /\ ~At(d, "send")' /\ ~Planned(d)'
    BY <2>3, <2>4 DEF Untraded, At, Planned
  <2> QED BY <1>1, <2>1, <2>2, <2>3, <2>4, <2>5, MovesOn DEF Places
<1>3. CASE ~Resumes(deals[d]) /\ Back(d, "idle") /\ UNCHANGED <<work, deals>>
  <2>1. Moves(d, "idle")
    BY <1>3 DEF Back
  <2>2. section'[d] = "idle" /\ Kept /\ WorkShape' /\ DealsShape'
    BY <1>1, <1>3, <2>1, MovedThere, NoWorkWritten, NoDealWritten DEF Kept
  <2>3. trades'[d] = "none" /\ ~At(d, "send")'
    BY <1>1, <1>3, <2>2 DEF At, IInv, TradeInv
  <2>4. (Planned(d) => Resumes(work[d].plan))'
    BY <1>3 DEF IInv, TradeInv, Planned, Resumes
  <2> QED BY <1>1, <1>3, <2>1, <2>2, <2>3, <2>4, MovesOn DEF Places
<1> QED BY <1>2, <1>3 DEF Restart

LEMMA LapseStep ==
    ASSUME IInv, LeaseLapses \/ \E d \in Deals : HeartbeatStops(d)
    PROVE  IInv' /\ TradeStep
<1>1. UNCHANGED <<section, legs, work, deals, trades>>
  BY DEF LeaseLapses, Lapse, HeartbeatStops, Overstay, fundingVars
<1> QED BY <1>1, Unchanged

-----------------------------------------------------------------------------
LEMMA Initially == Init => IInv
<1> SUFFICES ASSUME Init PROVE IInv
  OBVIOUS
<1>1. section = [d \in Deals |-> "idle"] /\ trades = [d \in Deals |-> "none"]
      /\ legs \in [Deals -> Legs]
  BY DEF Init, LockInit, Deals
<1>2. work = [d \in Deals |-> Blank] /\ IsWork(Blank) /\ Blank.at = "none"
  BY DEF Init, Blank, Memory, IsWork
<1>3. WorkShape
  BY <1>2 DEF WorkShape
<1>4. DealsShape
  BY DEF Init, DealsShape, IsDeal
<1>5. Shape
  BY <1>1, <1>3, <1>4 DEF Shape, Places, Deals
<1>6. TradeInv
  BY <1>1, <1>2 DEF TradeInv, Untraded, At, Planned
<1> QED BY <1>5, <1>6 DEF IInv

LEMMA Steps == IInv /\ [Next]_vars => IInv' /\ TradeStep
<1> SUFFICES ASSUME IInv, [Next]_vars PROVE IInv' /\ TradeStep
  OBVIOUS
<1>1. CASE UNCHANGED vars
  BY <1>1, Unchanged DEF vars, lockVars, fundingVars
<1>2. CASE LeaseLapses
  BY <1>2, LapseStep
<1>3. CASE AllDecided
  BY <1>3, <1>1 DEF AllDecided
<1>4. ASSUME NEW d \in Deals, Onward(d)
      PROVE  IInv' /\ TradeStep
  <2>1. CASE AskFunding(d) \/ Enter(d) \/ NotAcquired(d) \/ Restart(d)
    BY <2>1, AskStep, EnterStep, NotAcquiredStep, RestartStep
  <2>2. CASE InSection(d)
    BY <2>2, ReadStep, DecideStep, UnreadableStep, HoldStep, IntendStep, SendStep,
       TradedStep, RecordStep, LeaveStep DEF InSection
  <2> QED BY <1>4, <2>1, <2>2 DEF Onward
<1>5. ASSUME NEW d \in Deals, AfterSection(d) \/ Execute(d)
      PROVE  IInv' /\ TradeStep
  BY <1>5, GiveUpStep, WriteRowsStep, PlaceStep, ExecuteStep DEF AfterSection
<1>6. ASSUME NEW d \in Deals, CloseDeal(d) \/ HeartbeatStops(d) \/ Hang(d) \/ Die(d)
      PROVE  IInv' /\ TradeStep
  BY <1>6, CloseStep, LapseStep, HangStep, DieStep
<1> QED BY <1>1, <1>2, <1>3, <1>4, <1>5, <1>6 DEF Next

(***************************************************************************)
(* The lock's steps are the only ones that touch the key.                  *)
(***************************************************************************)
LEMMA LeaseSteps == IInv /\ [Next]_vars => LeaseStep
<1> SUFFICES ASSUME IInv, [Next]_vars PROVE LeaseStep
  OBVIOUS
<1>1. CASE holder' = holder
  BY <1>1 DEF LeaseStep
<1>2. section \in [Sections -> Places]
  BY DEF IInv, Shape
<1>3. CASE LeaseLapses
  <2>1. Lapse
    BY <1>3 DEF LeaseLapses
  <2> QED BY <2>1 DEF Lapse, Renewed, LeaseStep
<1>4. ASSUME NEW d \in Deals, Enter(d) \/ NotAcquired(d) \/ Leave(d)
      PROVE  LeaseStep
  <2>1. Take(d) \/ Unavailable(d) \/ WaitOver(d) \/ Release(d)
    BY <1>4 DEF Enter, NotAcquired, Leave
  <2> QED BY <1>2, <2>1, LeaseOfLock DEF Deals
<1>5. ASSUME NEW d \in Deals,
             \/ AskFunding(d) \/ Restart(d) \/ Execute(d) \/ CloseDeal(d)
             \/ HeartbeatStops(d) \/ Hang(d) \/ Die(d) \/ AfterSection(d)
             \/ ReadBalances(d) \/ Decide(d) \/ Unreadable(d) \/ Hold(d) \/ Intend(d)
             \/ SendTrade(d) \/ Traded(d) \/ Record(d)
      PROVE  holder' = holder
  <2>1. CASE AskFunding(d) \/ Execute(d) \/ CloseDeal(d) \/ HeartbeatStops(d)
             \/ Hang(d) \/ Die(d)
    BY <2>1 DEF AskFunding, Ask, Execute, CloseDeal, HeartbeatStops, Overstay, Hang, Die,
                Crash, lockVars
  <2>2. CASE Restart(d)
    BY <2>2 DEF Restart, Resume, Back
  <2>3. CASE AfterSection(d)
    BY <2>3 DEF AfterSection, GiveUp, WriteRows, Place, lockVars
  <2>4. CASE ReadBalances(d) \/ Decide(d) \/ Unreadable(d) \/ SendTrade(d) \/ Traded(d)
    BY <2>4 DEF ReadBalances, Decide, Unreadable, SendTrade, Traded, lockVars
  <2>5. CASE Hold(d) \/ Intend(d) \/ Record(d)
    BY <2>5 DEF Hold, Intend, Record
  <2> QED BY <1>5, <2>1, <2>2, <2>3, <2>4, <2>5
<1>6. CASE UNCHANGED vars \/ AllDecided
  BY <1>1, <1>6 DEF AllDecided, vars, lockVars
<1> QED BY <1>1, <1>3, <1>4, <1>5, <1>6 DEF Next, Onward, InSection

(***************************************************************************)
(* The shape of the state, and what a deal's progress says of its trade.   *)
(***************************************************************************)
THEOREM Invariance == Spec => []IInv
<1>1. Init => IInv
  BY Initially
<1>2. IInv /\ [Next]_vars => IInv'
  BY Steps
<1> QED BY <1>1, <1>2, PTL DEF Spec

(***************************************************************************)
(* However its process dies and comes back, a deal trades for its funding  *)
(* once. (fundHedgeLegEntryLocked, resumeFundedEntry)                      *)
(***************************************************************************)
THEOREM TradedOnceHolds == Spec => TradedOnce
<1>1. IInv /\ [Next]_vars => TradeStep
  BY Steps
<1> QED BY <1>1, Invariance, PTL DEF Spec, TradedOnce, TradeStep

(***************************************************************************)
(* A section that is inside and renews its lease keeps it, whatever other  *)
(* sections do. (FundingLock.run, RedisClient.delIfValue)                  *)
(***************************************************************************)
THEOREM LeaseKeptHolds == Spec => LeaseKept
<1>1. IInv /\ [Next]_vars => LeaseStep
  BY LeaseSteps
<1>2. UNCHANGED vars => UNCHANGED lockVars
  BY DEF vars
<1> QED BY <1>1, <1>2, Invariance, PTL DEF Spec, LeaseKept, LeaseStep
=============================================================================
