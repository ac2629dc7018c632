----------------------------- MODULE DealCalls ------------------------------
(***************************************************************************)
(* The calls of one bot. JavaScript interleaves them at every await: a     *)
(* call is a stack of frames, of which the top one runs, and the methods   *)
(* wrapped in @IdMute hold their key for as long as their frame is there.  *)
(* The mutex is the one of IdMutex: first come first served, not reentrant *)
(* and, for these methods, without a timeout. A bot that is cleared loses  *)
(* its lines: who waited waits for ever, who held a key goes on.           *)
(***************************************************************************)
EXTENDS Integers, FiniteSets, SequencesExt

CONSTANTS N,             \* number of deals the bot has or may open
          SafetyOrders,  \* names of the safety orders of a deal
          Worlds         \* the situations a run starts from

ASSUME NAssumption == N \in Nat \ {0}

\* The other calls of a bot: a safety order is not named like one of them.
CallNames == {"base", "fill", "sold", "user", "entry", "stop", "after"}

ASSUME SafetyOrdersAssumption == /\ IsFiniteSet(SafetyOrders)
                                 /\ SafetyOrders \cap CallNames = {}

\* A bot has its deals waiting for their base order or open, and no more of
\* them than its limit.
ASSUME WorldsAssumption ==
    \A w \in Worlds :
        /\ w.deals \in [1..N -> {"none", "start", "open"}]
        /\ w.ladder \subseteq SafetyOrders
        /\ w.limit \in Nat
        /\ w.max \in Nat
        /\ Cardinality({d \in 1..N : w.deals[d] # "none"}) <= w.max

VARIABLES world,      \* what is asked of the bot and what the venue does
          deal,       \* per deal: memory, stored row, orders and coins
          bot,        \* the bot's own fields
          asked,      \* the requests already made
          stack,      \* per call: its frames, the running one first
          line        \* per key: who holds it, then who waits

dealVars == <<world, deal, bot, asked, stack, line>>

Deals == 1..N
Levels == SafetyOrders \X Deals
Direct == ({"base", "fill", "sold", "user", "entry"} \X Deals) \cup {<<"stop", 0>>}

\* The stop() a call starts and does not await is a call of its own.
After(c) == IF c[1] = "after" THEN c ELSE <<"after", c[2], c[1]>>
Calls == Levels \cup Direct \cup {After(c) : c \in Direct}

NoKey == <<"none", 0>>
DealKey(d) == <<"deal", d>>          \* closeDealById, placeOrders
UpdateKey(d) == <<"update", d>>      \* updateDeal
\* Faulty: closeDeal runs without a key.
ClosingUnlocked == NoKey
ClosingKey == <<"closing", 0>>       \* closeDeal
ReleaseKey == <<"release", 0>>       \* processDealClose
Keys == {DealKey(d) : d \in Deals} \cup {UpdateKey(d) : d \in Deals}
            \cup {ClosingKey, ReleaseKey}

Frame(op, key, d, how) ==
    [op |-> op, at |-> "begin", key |-> key, deal |-> d, how |-> how,
     own |-> FALSE, deals |-> {}, todo |-> {}, qty |-> 0, result |-> FALSE]

\* Deals the bot has in memory and counts as open: getOpenDeals.
OpenDeals == {d \in Deals : deal[d].live /\ deal[d].status \in {"start", "open"}}

Idle(c) == stack[c] = << >>
Top(c) == Head(stack[c])
\* A method that waits for its key begins when the line reaches it.
Holds(c) == (Top(c).key # NoKey /\ Top(c).at = "begin") =>
                /\ line[Top(c).key] # << >>
                /\ Head(line[Top(c).key]) = <<c, Len(stack[c])>>

\* The next step of call c is the one of method op at point at.
Runs(c, op, at) == ~Idle(c) /\ Top(c).op = op /\ Top(c).at = at /\ Holds(c)

(***************************************************************************)
(* Call c goes on with the given frames and leaves the calls in spawn to   *)
(* run by themselves: a frame that is new asks for its key, one that is    *)
(* gone releases its own. A stop that is already running is not doubled.   *)
(***************************************************************************)
Step(c, frames, spawn) ==
    LET fresh == {x \in DOMAIN spawn : Idle(x)}
        grown == IF Len(frames) > Len(stack[c]) THEN {<<c, Len(frames)>>} ELSE {}
        keyOf(t) == IF t[1] = c THEN Head(frames).key ELSE spawn[t[1]].key
        asking(k) == {t \in grown \cup {<<x, 1>> : x \in fresh} : keyOf(t) = k}
        released(k) == /\ Len(frames) < Len(stack[c]) /\ Top(c).key = k
                       /\ <<c, Len(stack[c])>> \in Range(line[k])
    IN /\ stack' = [x \in Calls |-> IF x = c THEN frames
                                    ELSE IF x \in fresh THEN <<spawn[x]>>
                                    ELSE stack[x]]
       /\ line' = [k \in Keys |-> (IF released(k) THEN Tail(line[k]) ELSE line[k])
                                  \o SetToSeq(asking(k))]

None == [x \in {} |-> {}]
Just(x, f) == [y \in {x} |-> f]
Moved(c, at) == <<[Top(c) EXCEPT !.at = at]>> \o Tail(stack[c])

Goto(c, at) == Step(c, Moved(c, at), None)
GotoAnd(c, at, spawn) == Step(c, Moved(c, at), spawn)

\* Await the method of frame f, then go on at the given point.
Await(c, at, f) == Step(c, <<f>> \o Moved(c, at), None)

Returned(c, value) ==
    LET rest == Tail(stack[c])
    IN IF rest = << >> THEN rest
       ELSE <<[Head(rest) EXCEPT !.result = value]>> \o Tail(rest)
Return(c, value) == Step(c, Returned(c, value), None)
ReturnAnd(c, spawn) == Step(c, Returned(c, FALSE), spawn)

\* stop() takes its deals in the step that calls it; a stop is under way as
\* long as its frame is there (stopsInFlight).
StopFrame(how) == [Frame("stop", NoKey, 0, how) EXCEPT !.deals = OpenDeals]
StopsInFlight == \E c \in Calls : \E i \in DOMAIN stack[c] : stack[c][i].op = "stop"

\* Orders of a deal that executed and whose report nobody handled yet, by the
\* call that will handle it.
State(c) == CASE c[1] = "base" -> deal[c[2]].base
              [] c[1] = "fill" -> deal[c[2]].tp
              [] OTHER -> deal[c[2]].so[c[1]]
Executed(d) == {c \in ({"base", "fill"} \cup SafetyOrders) \X {d} : State(c) = "filled"}

\* processFilledOrder runs the handler of a filled order and does not await it.
CloseByTp(d, qty) == [Frame("closeDeal", ClosingKey, d, "tp") EXCEPT !.qty = qty]
Handler(c) ==
    CASE c[1] = "base" -> Frame("startDeal", NoKey, c[2], "base")
      [] c[1] = "fill" -> CloseByTp(c[2], deal[c[2]].tpQty)
      [] OTHER -> Frame("updateDeal", UpdateKey(c[2]), c[2], "level")
Handlers(d) == [c \in Executed(d) |-> Handler(c)]

\* A filled order of the deal is known: its row counts from now on.
Known(c) ==
    LET r == deal[c[2]]
    IN CASE c[1] = "base" -> [r EXCEPT !.base = "done"]
         [] c[1] = "fill" -> [r EXCEPT !.tp = "done", !.sold = @ + r.tpQty]
         [] OTHER -> [r EXCEPT !.so[c[1]] = "done"]

\* cancelAllOrder of a deal: what rests is cancelled, what executed is processed.
Cancelled(o) == CASE o = "resting" -> "cancelled" [] o = "filled" -> "done" [] OTHER -> o
SweptDeal(r) ==
    [r EXCEPT !.base = Cancelled(@), !.tp = Cancelled(@),
              !.so = [s \in SafetyOrders |-> Cancelled(@[s])],
              !.sold = @ + (IF r.tp = "filled" THEN r.tpQty ELSE 0)]
=============================================================================
