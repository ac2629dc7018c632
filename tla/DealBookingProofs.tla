------------------------- MODULE DealBookingProofs --------------------------
(***************************************************************************)
(* More of a bot's deals, for any number of them and any world: the profit *)
(* of a deal is booked once, the deals that wait for their base order      *)
(* included, and no more deals are open than the bot may have. First where *)
(* the frames of a bot that nobody stops or cancels can be (Undisturbed),  *)
(* then what they say of their deals (Sane): BookedOnce. Then who asked    *)
(* for the deals in memory (Brought), and the count of the deals that are  *)
(* open or about to be created (Few): WithinMax.                           *)
(***************************************************************************)
EXTENDS DealLifecycleProofs

-----------------------------------------------------------------------------
(* Where the frames are when nobody stops the bot and nobody cancels *)

\* What never changes of a frame: which call it belongs to and which key it has.
Posted(x, q, f) ==
    /\ ~f.result /\ f.op # "stop" /\ f.how # "cancel"
    /\ f.op = "startDeal" => x = <<"base", f.deal>> /\ q = 1
    /\ f.op = "closeDealById" => x = <<"user", f.deal>> /\ q = 1 /\ f.key = DealKey(f.deal)
    /\ f.op = "placeOrders" => f.key = DealKey(f.deal)
    /\ f.op = "closeDeal" => f.how \in {"tp", "none"}
    /\ (f.op = "closeDeal" /\ f.how = "none") => x = <<"user", f.deal>> /\ q = 2

Ranked(x, s) == \A q \in 1..Len(s) : Posted(x, q, s[Len(s) + 1 - q])

Undisturbed == /\ ~bot.gone /\ ~bot.afterTp
               /\ \A x \in Calls : Ranked(x, stack[x])

Unstopped == ~CancelAsked /\ ~Stoppable

LEMMA RankedMoved ==
  ASSUME Stacked, NEW c \in Calls, ~Idle(c), Ranked(c, stack[c]), NEW g \in Frames,
         Posted(c, Len(stack[c]), g)
  PROVE  LET t == <<g>> \o Tail(stack[c]) IN t \in Seq(Frames) /\ Ranked(c, t)
<1> DEFINE t == <<g>> \o Tail(stack[c])
<1>1. /\ t \in Seq(Frames) /\ Len(t) = Len(stack[c]) /\ t[1] = g
      /\ \A i \in 2..Len(stack[c]) : t[i] = stack[c][i]
  BY TopChanged, FrameTypes DEF Idle
<1>2. Len(stack[c]) \in Nat
  BY FrameTypes
<1> HIDE DEF t
<1>3. ASSUME NEW q \in 1..Len(t) PROVE Posted(c, q, t[Len(t) + 1 - q])
  <2>1. CASE q = Len(t)
    <3>1. Len(t) + 1 - q = 1
      BY <1>1, <1>2, <2>1
    <3> QED
      BY <1>1, <2>1, <3>1
  <2>2. CASE q # Len(t)
    <3>1. Len(t) + 1 - q \in 2..Len(stack[c]) /\ q \in 1..Len(stack[c])
      BY <1>1, <1>2, <2>2
    <3> QED
      BY <1>1, <3>1 DEF Ranked
  <2> QED
    BY <2>1, <2>2
<1> QED
  BY <1>1, <1>3 DEF Ranked, t

LEMMA RankedPushed ==
  ASSUME Stacked, NEW c \in Calls, ~Idle(c), Ranked(c, stack[c]), NEW g \in Frames,
         Posted(c, Len(stack[c]), g), NEW f \in Frames, Posted(c, Len(stack[c]) + 1, f)
  PROVE  LET t == <<f>> \o (<<g>> \o Tail(stack[c])) IN t \in Seq(Frames) /\ Ranked(c, t)
<1> DEFINE t == <<f>> \o (<<g>> \o Tail(stack[c]))
<1>1. /\ t \in Seq(Frames) /\ Len(t) = Len(stack[c]) + 1 /\ t[1] = f /\ t[2] = g
      /\ \A i \in 2..Len(stack[c]) : t[i + 1] = stack[c][i]
  BY TopPushed, FrameTypes DEF Idle
<1>2. Len(stack[c]) \in Nat
  BY FrameTypes
<1> HIDE DEF t
<1>3. ASSUME NEW q \in 1..Len(t) PROVE Posted(c, q, t[Len(t) + 1 - q])
  <2>1. CASE q = Len(t)
    <3>1. Len(t) + 1 - q = 1
      BY <1>1, <1>2, <2>1
    <3> QED
      BY <1>1, <2>1, <3>1
  <2>2. CASE q = Len(stack[c])
    <3>1. Len(t) + 1 - q = 2
      BY <1>1, <1>2, <2>2
    <3> QED
      BY <1>1, <2>2, <3>1
  <2>3. CASE q < Len(stack[c])
    <3>1. /\ Len(stack[c]) + 1 - q \in 2..Len(stack[c]) /\ q \in 1..Len(stack[c])
          /\ Len(t) + 1 - q = (Len(stack[c]) + 1 - q) + 1
      BY <1>1, <1>2, <2>3
    <3>2. t[Len(t) + 1 - q] = stack[c][Len(stack[c]) + 1 - q]
      BY <1>1, <3>1
    <3> QED
      BY <3>1, <3>2 DEF Ranked
  <2> QED
    BY <1>1, <1>2, <2>1, <2>2, <2>3
<1> QED
  BY <1>1, <1>3 DEF Ranked, t

LEMMA RankedReturned ==
  ASSUME Stacked, NEW c \in Calls, ~Idle(c), Ranked(c, stack[c])
  PROVE  Returned(c, FALSE) \in Seq(Frames) /\ Ranked(c, Returned(c, FALSE))
<1> DEFINE t == Returned(c, FALSE)
<1>1. /\ t \in Seq(Frames) /\ Len(t) = Len(stack[c]) - 1
      /\ Len(stack[c]) > 1 => t[1] = [stack[c][2] EXCEPT !.result = FALSE]
      /\ \A i \in 2..(Len(stack[c]) - 1) : t[i] = stack[c][i + 1]
  BY TopPopped, FrameTypes DEF Returned, Idle
<1>2. Len(stack[c]) \in Nat /\ Len(stack[c]) > 0
  BY FrameTypes
<1> HIDE DEF t
<1>3. ASSUME NEW q \in 1..Len(t) PROVE Posted(c, q, t[Len(t) + 1 - q])
  <2> DEFINE e == stack[c][Len(stack[c]) + 1 - q]
  <2>0. q \in 1..Len(stack[c]) /\ Len(stack[c]) + 1 - q \in 1..Len(stack[c])
    BY <1>1, <1>2
  <2>1. Posted(c, q, e) /\ e \in Frames
    BY <2>0, FrameTypes DEF Ranked
  <2>2. CASE q = Len(t)
    <3>1. Len(t) + 1 - q = 1 /\ Len(stack[c]) + 1 - q = 2 /\ Len(stack[c]) > 1
      BY <1>1, <1>2, <2>2
    <3>2. t[Len(t) + 1 - q] = [e EXCEPT !.result = FALSE]
      BY <1>1, <3>1
    <3> HIDE DEF e
    <3> QED
      BY <2>1, <3>2 DEF Posted, Frames
  <2>3. CASE q < Len(t)
    <3>1. /\ Len(t) + 1 - q \in 2..(Len(stack[c]) - 1)
          /\ (Len(t) + 1 - q) + 1 = Len(stack[c]) + 1 - q
      BY <1>1, <1>2, <2>3
    <3>2. t[Len(t) + 1 - q] = e
      BY <1>1, <3>1
    <3> QED
      BY <2>1, <3>2
  <2> QED
    BY <1>1, <1>2, <2>2, <2>3
<1> QED
  BY <1>1, <1>3 DEF Ranked, t

PostedSpawn(spawn) == /\ Spawns(spawn)
                      /\ \A x \in DOMAIN spawn : Posted(x, 1, spawn[x])

LEMMA RankedStep ==
  ASSUME Stacked, Undisturbed, NEW c \in Calls, NEW frames \in Seq(Frames), Ranked(c, frames),
         NEW spawn, PostedSpawn(spawn), Step(c, frames, spawn),
         bot'.gone = bot.gone, bot'.afterTp = bot.afterTp
  PROVE  Undisturbed'
<1>1. /\ stack'[c] = frames
      /\ \A x \in Calls \ {c} :
              \/ stack'[x] = stack[x]
              \/ stack[x] = << >> /\ x \in DOMAIN spawn /\ stack'[x] = <<spawn[x]>>
  BY StepShape DEF PostedSpawn
<1>2. ASSUME NEW x \in Calls PROVE Ranked(x, stack'[x])
  <2>1. CASE x = c
    BY <1>1, <2>1
  <2>2. CASE stack'[x] = stack[x]
    BY <2>2 DEF Undisturbed
  <2>3. CASE x \in DOMAIN spawn /\ stack'[x] = <<spawn[x]>>
    <3>1. Posted(x, 1, spawn[x])
      BY <2>3 DEF PostedSpawn
    <3>2. \A q \in 1..Len(<<spawn[x]>>) : q = 1 /\ <<spawn[x]>>[Len(<<spawn[x]>>) + 1 - q] = spawn[x]
      OBVIOUS
    <3> QED
      BY <2>3, <3>1, <3>2 DEF Ranked
  <2> QED
    BY <1>1, <2>1, <2>2, <2>3
<1>3. ~bot'.gone /\ ~bot'.afterTp
  BY DEF Undisturbed
<1> QED
  BY <1>2, <1>3 DEF Undisturbed

LEMMA TopPosted ==
  ASSUME Shape, Undisturbed, NEW c \in Calls, NEW op, NEW b, Runs(c, op, b)
  PROVE  /\ Stacked /\ ~Idle(c) /\ Ranked(c, stack[c]) /\ Posted(c, Len(stack[c]), Top(c))
         /\ Top(c) \in Frames /\ Top(c).op = op /\ Top(c).at = b
         /\ op # "stop" => Top(c).deal \in Deals
         /\ \A a : Posted(c, Len(stack[c]), At(c, a))
         /\ \A a \in Points : At(c, a) \in Frames
<1>1. /\ ~Idle(c) /\ Top(c) \in Frames /\ Top(c).op = op /\ Top(c).at = b
      /\ Len(stack[c]) \in 1..Len(stack[c]) /\ Top(c) = FrameNo(c, Len(stack[c]))
      /\ op # "stop" => Top(c).deal \in Deals
      /\ \A a \in Points : At(c, a) \in Frames
  BY RunsTop
<1>2. Ranked(c, stack[c]) /\ Stacked
  BY DEF Undisturbed, Shape
<1>3. Posted(c, Len(stack[c]), Top(c))
  BY <1>1, <1>2 DEF Ranked, FrameNo
<1>4. ASSUME NEW a PROVE Posted(c, Len(stack[c]), At(c, a))
  <2>1. /\ At(c, a).op = Top(c).op /\ At(c, a).deal = Top(c).deal /\ At(c, a).how = Top(c).how
        /\ At(c, a).key = Top(c).key /\ At(c, a).result = Top(c).result
    BY <1>1 DEF At, Frames
  <2> HIDE DEF At
  <2> QED
    BY <1>3, <2>1 DEF Posted
<1> QED
  BY <1>1, <1>2, <1>3, <1>4

LEMMA NonePosted == PostedSpawn(None)
<1>1. DOMAIN None = {}
  BY DEF None
<1> QED
  BY <1>1, NoneSpawns DEF PostedSpawn

LEMMA JustPosted ==
  ASSUME NEW x \in Calls, NEW f \in Frames, f.at = "begin", Posted(x, 1, f)
  PROVE  PostedSpawn(Just(x, f))
<1>1. DOMAIN Just(x, f) = {x} /\ Just(x, f)[x] = f
  BY DEF Just
<1> QED
  BY <1>1, OneSpawn DEF PostedSpawn

\* The bot's switches stay as they are.
Unswitched == bot'.gone = bot.gone /\ bot'.afterTp = bot.afterTp

LEMMA GotoAndPosted ==
  ASSUME Shape, Undisturbed, NEW c \in Calls, NEW op, NEW b, Runs(c, op, b), NEW a \in Points,
         Unswitched, NEW spawn, PostedSpawn(spawn), GotoAnd(c, a, spawn)
  PROVE  Undisturbed'
<1>1. Step(c, <<At(c, a)>> \o Tail(stack[c]), spawn)
  BY DEF GotoAnd, Moved, At
<1>2. LET t == <<At(c, a)>> \o Tail(stack[c]) IN t \in Seq(Frames) /\ Ranked(c, t)
  BY TopPosted, RankedMoved
<1> QED
  BY <1>1, <1>2, TopPosted, RankedStep DEF Unswitched

LEMMA GotoPosted ==
  ASSUME Shape, Undisturbed, NEW c \in Calls, NEW op, NEW b, Runs(c, op, b), NEW a \in Points,
         Unswitched, Goto(c, a)
  PROVE  Undisturbed'
<1>1. GotoAnd(c, a, None)
  BY DEF Goto, GotoAnd
<1> QED
  BY <1>1, NonePosted, GotoAndPosted

LEMMA AwaitPosted ==
  ASSUME Shape, Undisturbed, NEW c \in Calls, NEW op, NEW b, Runs(c, op, b), NEW a \in Points,
         Unswitched, NEW f \in Frames, Posted(c, Len(stack[c]) + 1, f), Await(c, a, f)
  PROVE  Undisturbed'
<1>1. Step(c, <<f>> \o (<<At(c, a)>> \o Tail(stack[c])), None)
  BY DEF Await, Moved, At
<1>2. LET t == <<f>> \o (<<At(c, a)>> \o Tail(stack[c])) IN t \in Seq(Frames) /\ Ranked(c, t)
  BY TopPosted, RankedPushed
<1> QED
  BY <1>1, <1>2, TopPosted, NonePosted, RankedStep DEF Unswitched

LEMMA ReturnAndPosted ==
  ASSUME Shape, Undisturbed, NEW c \in Calls, NEW op, NEW b, Runs(c, op, b),
         Unswitched, NEW spawn, PostedSpawn(spawn), ReturnAnd(c, spawn)
  PROVE  Undisturbed'
<1>1. Step(c, Returned(c, FALSE), spawn)
  BY DEF ReturnAnd
<1>2. Returned(c, FALSE) \in Seq(Frames) /\ Ranked(c, Returned(c, FALSE))
  BY TopPosted, RankedReturned
<1> QED
  BY <1>1, <1>2, TopPosted, RankedStep DEF Unswitched

LEMMA ReturnPosted ==
  ASSUME Shape, Undisturbed, NEW c \in Calls, NEW op, NEW b, Runs(c, op, b),
         Unswitched, Return(c, FALSE)
  PROVE  Undisturbed'
<1>1. ReturnAnd(c, None)
  BY DEF Return, ReturnAnd
<1> QED
  BY <1>1, NonePosted, ReturnAndPosted

\* The fields of the frames that arrive.
LEMMA FrameFields ==
  ASSUME NEW op, NEW key, NEW d, NEW how
  PROVE  LET f == Frame(op, key, d, how)
         IN /\ f.op = op /\ f.at = "begin" /\ f.key = key /\ f.deal = d /\ f.how = how
            /\ f.result = FALSE
BY DEF Frame

LEMMA PlacingFields ==
  ASSUME NEW d, NEW how
  PROVE  LET f == Placing(d, how)
         IN /\ f.op = "placeOrders" /\ f.at = "begin" /\ f.key = DealKey(d) /\ f.deal = d
            /\ f.how = how /\ f.result = FALSE
BY DEF Placing, Frame

LEMMA CloserFields ==
  ASSUME NEW d, NEW n
  PROVE  LET f == CloseByTp(d, n)
         IN /\ f.op = "closeDeal" /\ f.at = "begin" /\ f.key = ClosingKey /\ f.deal = d
            /\ f.how = "tp" /\ f.result = FALSE
BY DEF CloseByTp, Frame

LEMMA HandlerFields ==
  ASSUME NEW c \in Reports
  PROVE  LET f == Handler(c)
         IN /\ f.at = "begin" /\ f.deal = c[2] /\ f.result = FALSE /\ f.how # "cancel"
            /\ f.op \in {"startDeal", "updateDeal", "closeDeal"}
            /\ f.op = "startDeal" => c[1] = "base"
            /\ f.op = "closeDeal" => c[1] = "fill" /\ f.how = "tp"
<1>1. CASE c[1] = "base"
  <2> DEFINE g == Frame("startDeal", NoKey, c[2], "base")
  <2>1. Handler(c) = g
    BY <1>1 DEF Handler
  <2>2. g.op = "startDeal" /\ g.at = "begin" /\ g.deal = c[2] /\ g.how = "base" /\ g.result = FALSE
    BY DEF Frame
  <2> HIDE DEF g
  <2> QED
    BY <1>1, <2>1, <2>2
<1>2. CASE c[1] = "fill"
  <2> DEFINE g == CloseByTp(c[2], deal[c[2]].tpQty)
  <2>1. Handler(c) = g
    BY <1>2 DEF Handler
  <2>2. g.op = "closeDeal" /\ g.at = "begin" /\ g.deal = c[2] /\ g.how = "tp" /\ g.result = FALSE
    BY DEF CloseByTp, Frame
  <2> HIDE DEF g
  <2> QED
    BY <1>2, <2>1, <2>2
<1>3. CASE c[1] \notin {"base", "fill"}
  <2> DEFINE g == Frame("updateDeal", UpdateKey(c[2]), c[2], "level")
  <2>1. Handler(c) = g
    BY <1>3 DEF Handler
  <2>2. g.op = "updateDeal" /\ g.at = "begin" /\ g.deal = c[2] /\ g.how = "level" /\ g.result = FALSE
    BY DEF Frame
  <2> HIDE DEF g
  <2> QED
    BY <2>1, <2>2
<1> QED
  BY <1>1, <1>2, <1>3

LEMMA HandlerPosted ==
  ASSUME NEW c \in Reports
  PROVE  Posted(c, 1, Handler(c))
<1>1. c = <<c[1], c[2]>>
  BY DEF Reports
<1> QED
  BY <1>1, HandlerFields DEF Posted

LEMMA HandlersPosted ==
  ASSUME Shape, NEW d \in Deals
  PROVE  PostedSpawn(Handlers(d))
<1>1. Executed(d) \subseteq Reports
  BY DEF Executed, Reports
<1>2. DOMAIN Handlers(d) = Executed(d) /\ \A c \in Executed(d) : Handlers(d)[c] = Handler(c)
  BY DEF Handlers
<1>3. Spawns(Handlers(d))
  BY HandlersType DEF Shape
<1> QED
  BY <1>1, <1>2, <1>3, HandlerPosted DEF PostedSpawn

-----------------------------------------------------------------------------
(* What the frames say of their deals *)

Unspent(r) == r.tp = "none" /\ r.booked = 0

\* A deal's books: one profit at most, and that of a deal that closed.
BooksRight(r) == /\ r.booked \in {0, 1}
                 /\ r.booked = 1 => r.status = "closed"
                 /\ r.booked = 0 => ~r.profit
                 /\ r.status \in {"none", "start"} => Unspent(r)

\* Two methods act on a look at the deal they took before they waited.
Opener(f) == f.op = "startDeal" /\ f.at = "opens"
Canceller(f) == f.op = "closeDealById" /\ f.at = "cancels"
Orderless(f) == f.op = "closeDeal" /\ f.how = "none"

\* Methods that run for a deal that opened.
Advanced(f) ==
    \/ f.op = "placeOrders" \/ Orderless(f)
    \/ f.op = "updateDeal" /\ f.at \in {"sizes", "placed"}
    \/ f.op = "closeDealById" /\ f.at \in {"sweeps", "swept", "sweptFilled", "stopped"}

\* What a frame says of its deal, among the deals D.
Meant(D, f) ==
    LET r == D[f.deal]
    IN /\ Closing(f) => r.booked = 0
       /\ Booking(f) => r.status = "closed"
       /\ (f.op = "closeDeal" /\ f.how = "tp") => r.tp # "none"
       /\ Opener(f) => r.status \in {"start", "canceled"} /\ Unspent(r)
       /\ Canceller(f) => r.status # "none" /\ Unspent(r)
       /\ Advanced(f) => r.status \notin {"none", "start"}
       /\ (f.op = "openNewDeal" /\ f.at \in Opening) => r.status = "none"

\* What is never under way at a time.
Clash(f, g) ==
    f.deal = g.deal /\ \/ Opener(f) /\ Advanced(g)
                       \/ Opener(g) /\ Advanced(f)
                       \/ Canceller(f) /\ Orderless(g)
                       \/ Canceller(g) /\ Orderless(f)
Apart == \A x, y \in Calls : \A q \in 1..Len(stack[x]), r \in 1..Len(stack[y]) :
             Clash(FrameNo(x, q), FrameNo(y, r)) => x = y /\ q = r

Sane == /\ \A d \in Deals : BooksRight(deal[d])
        /\ \A x \in Calls : \A q \in 1..Len(stack[x]) : Meant(deal, FrameNo(x, q))
        /\ Apart

Orderly == Undisturbed /\ Sane

\* The frames a step of call c leaves where they were.
Stays(c, x, q) == q \in 1..Len(stack[x]) /\ (x = c => q < Len(stack[c]))

\* What a frame may turn into, or call.
Fits(c, g) ==
    LET t == Top(c)
    IN /\ Opener(g) => deal[g.deal].status = "start"
       /\ Advanced(g) => \/ deal[g.deal].status = "open"
                         \/ t.deal = g.deal /\ (Advanced(t) \/ Opener(t))
       /\ (Canceller(g) \/ Orderless(g))
             => \/ c = <<"user", g.deal>> /\ Len(stack[c]) = 1
                \/ t.deal = g.deal /\ Orderless(t) /\ Orderless(g)

LEMMA PostedAt ==
  ASSUME Shape, Undisturbed, NEW x \in Calls, NEW q \in 1..Len(stack[x])
  PROVE  FrameNo(x, q) \in Frames /\ Posted(x, q, FrameNo(x, q))
BY FrameTypes DEF Shape, Undisturbed, Ranked, FrameNo

\* The running frame and where it is.
LEMMA TopKnown ==
  ASSUME Shape, Orderly, NEW c \in Calls, ~Idle(c)
  PROVE  /\ Top(c) \in Frames /\ Len(stack[c]) \in 1..Len(stack[c])
         /\ Top(c) = FrameNo(c, Len(stack[c]))
         /\ Posted(c, Len(stack[c]), Top(c)) /\ Meant(deal, Top(c))
         /\ \A a : /\ At(c, a).op = Top(c).op /\ At(c, a).at = a
                   /\ At(c, a).deal = Top(c).deal /\ At(c, a).how = Top(c).how
<1>1. /\ Top(c) \in Frames /\ Len(stack[c]) \in 1..Len(stack[c])
      /\ Top(c) = FrameNo(c, Len(stack[c]))
  BY FrameTypes DEF Shape
<1> QED
  BY <1>1, PostedAt, AtFields DEF Orderly, Sane

LEMMA FitsApart ==
  ASSUME Shape, Orderly, NEW c \in Calls, ~Idle(c), NEW g, Fits(c, g),
         NEW x \in Calls, NEW q, Stays(c, x, q)
  PROVE  ~Clash(g, FrameNo(x, q)) /\ ~Clash(FrameNo(x, q), g)
<1> DEFINE e == FrameNo(x, q)
           t == Top(c)
<1>1. /\ q \in 1..Len(stack[x]) /\ e \in Frames /\ Posted(x, q, e) /\ Meant(deal, e)
      /\ ~(x = c /\ q = Len(stack[c]))
  BY PostedAt DEF Stays, Orderly, Sane
<1>2. /\ Posted(c, Len(stack[c]), t) /\ t = FrameNo(c, Len(stack[c]))
      /\ Len(stack[c]) \in 1..Len(stack[c]) /\ Meant(deal, t)
  BY TopKnown
<1>3. ~Clash(t, e)
  BY <1>1, <1>2 DEF Orderly, Sane, Apart
<1> SUFFICES ASSUME e.deal = g.deal
             PROVE  /\ ~(Opener(g) /\ Advanced(e)) /\ ~(Opener(e) /\ Advanced(g))
                    /\ ~(Canceller(g) /\ Orderless(e)) /\ ~(Canceller(e) /\ Orderless(g))
  BY DEF Clash
<1> HIDE DEF e, t
<1>4. ~(Opener(g) /\ Advanced(e))
  BY <1>1 DEF Fits, Meant
<1>5. ~(Opener(e) /\ Advanced(g))
  <2> SUFFICES ASSUME Opener(e), Advanced(g) PROVE FALSE
    OBVIOUS
  <2>1. deal[g.deal].status # "open"
    BY <1>1 DEF Meant
  <2>2. t.deal = g.deal /\ (Advanced(t) \/ Opener(t))
    BY <2>1 DEF Fits, t
  <2>3. CASE Advanced(t)
    BY <2>2, <2>3, <1>3 DEF Clash
  <2>4. CASE Opener(t)
    <3>1. x = <<"base", g.deal>> /\ q = 1 /\ c = <<"base", g.deal>> /\ Len(stack[c]) = 1
      BY <1>1, <1>2, <2>2, <2>4 DEF Posted, Opener
    <3> QED
      BY <1>1, <3>1
  <2> QED
    BY <2>2, <2>3, <2>4
<1>6. ~(Canceller(g) /\ Orderless(e))
  <2> SUFFICES ASSUME Canceller(g), Orderless(e) PROVE FALSE
    OBVIOUS
  <2>1. c = <<"user", g.deal>> /\ Len(stack[c]) = 1
    BY DEF Fits, Canceller, Orderless
  <2>2. x = <<"user", g.deal>> /\ q = 2
    BY <1>1 DEF Posted, Orderless
  <2>3. x = c
    BY <2>1, <2>2
  <2>4. q \in 1..1
    BY <1>1, <2>1, <2>3
  <2> QED
    BY <2>2, <2>4
<1>7. ~(Canceller(e) /\ Orderless(g))
  <2> SUFFICES ASSUME Canceller(e), Orderless(g) PROVE FALSE
    OBVIOUS
  <2>1. x = <<"user", g.deal>> /\ q = 1
    BY <1>1 DEF Posted, Canceller
  <2>2. CASE c = <<"user", g.deal>> /\ Len(stack[c]) = 1
    BY <1>1, <2>1, <2>2
  <2>3. CASE t.deal = g.deal /\ Orderless(t)
    BY <1>3, <2>3 DEF Clash
  <2> QED
    BY <2>2, <2>3 DEF Fits, t
<1> QED
  BY <1>4, <1>5, <1>6, <1>7

\* Frames that have only begun do not clash.
LEMMA BegunApart ==
  ASSUME NEW f, NEW g, f.at = "begin", g.at = "begin"
  PROVE  ~Clash(f, g)
BY DEF Clash, Opener, Canceller

\* Where the frames after a step come from.
Left(c, x, q) == /\ Stays(c, x, q) /\ q \in 1..Len(stack[x])
                 /\ FrameNo(x, q)'.op = FrameNo(x, q).op
                 /\ FrameNo(x, q)'.at = FrameNo(x, q).at
                 /\ FrameNo(x, q)'.deal = FrameNo(x, q).deal
                 /\ FrameNo(x, q)'.how = FrameNo(x, q).how
Arrived(x, q, new) == FrameNo(x, q)' \in new
Went(c, x, q, gs) == x = c /\ q = Len(stack[c]) /\ FrameNo(x, q)' \in gs

(***************************************************************************)
(* A step of the bot keeps it sane if the books stay right, the frames it  *)
(* leaves alone still mean what they say, and what it adds fits.           *)
(***************************************************************************)
LEMMA SaneMoved ==
  ASSUME Shape, Shape', Orderly, NEW c \in Calls, ~Idle(c), NEW gs, NEW new,
         Moves(c, Len(stack[c]), gs, new),
         \A d \in Deals : BooksRight(deal'[d]),
         \A x \in Calls : \A q \in 1..Len(stack[x]) :
            Stays(c, x, q) => Meant(deal', FrameNo(x, q)),
         \A g \in gs : Fits(c, g) /\ Meant(deal', g),
         \A f \in new : f.at = "begin" /\ Fits(c, f) /\ Meant(deal', f),
         \A g \in gs : \A f \in new : ~Clash(g, f) /\ ~Clash(f, g)
  PROVE  Sane'
<1>1. ASSUME NEW x \in Calls, NEW q \in 1..Len(stack'[x])
      PROVE  Arrived(x, q, new) \/ Went(c, x, q, gs) \/ Left(c, x, q)
  BY StillThere DEF Stays, Arrived, Went, Left
<1>2. ASSUME NEW f, NEW e, f.op = e.op, f.at = e.at, f.deal = e.deal, f.how = e.how
      PROVE  /\ Meant(deal', e) => Meant(deal', f)
             /\ \A g : (Clash(f, g) <=> Clash(e, g)) /\ (Clash(g, f) <=> Clash(g, e))
  BY <1>2 DEF Meant, Clash, Closing, Booking, Opener, Canceller, Orderless, Advanced
<1>3. ASSUME NEW x \in Calls, NEW q \in 1..Len(stack'[x])
      PROVE  Meant(deal', FrameNo(x, q)')
  <2>1. CASE Arrived(x, q, new) \/ Went(c, x, q, gs)
    BY <2>1 DEF Arrived, Went
  <2>2. CASE Left(c, x, q)
    <3>1. Meant(deal', FrameNo(x, q))
      BY <2>2 DEF Left
    <3> QED
      BY <2>2, <3>1, <1>2 DEF Left
  <2> QED
    BY <1>1, <2>1, <2>2
<1>4. ASSUME NEW x \in Calls, NEW q \in 1..Len(stack'[x]), Left(c, x, q), NEW g, Fits(c, g)
      PROVE  ~Clash(g, FrameNo(x, q)') /\ ~Clash(FrameNo(x, q)', g)
  <2>1. ~Clash(g, FrameNo(x, q)) /\ ~Clash(FrameNo(x, q), g)
    BY <1>4, FitsApart DEF Left
  <2> QED
    BY <1>4, <2>1, <1>2 DEF Left
<1>5. ASSUME NEW x \in Calls, NEW q \in 1..Len(stack'[x]),
             NEW y \in Calls, NEW r \in 1..Len(stack'[y]),
             Clash(FrameNo(x, q)', FrameNo(y, r)')
      PROVE  x = y /\ q = r
  <2>1. CASE Left(c, x, q) /\ Left(c, y, r)
    <3>1. Clash(FrameNo(x, q), FrameNo(y, r)')
      BY <1>5, <1>2, <2>1 DEF Left
    <3>2. Clash(FrameNo(x, q), FrameNo(y, r))
      BY <3>1, <1>2, <2>1 DEF Left
    <3> QED
      BY <2>1, <3>2 DEF Left, Orderly, Sane, Apart
  <2>2. CASE Left(c, x, q) /\ (Arrived(y, r, new) \/ Went(c, y, r, gs))
    BY <1>4, <1>5, <2>2 DEF Arrived, Went
  <2>3. CASE Left(c, y, r) /\ (Arrived(x, q, new) \/ Went(c, x, q, gs))
    BY <1>4, <1>5, <2>3 DEF Arrived, Went
  <2>4. CASE Arrived(x, q, new) /\ Arrived(y, r, new)
    BY <1>5, <2>4, BegunApart DEF Arrived
  <2>5. CASE \/ Arrived(x, q, new) /\ Went(c, y, r, gs)
             \/ Arrived(y, r, new) /\ Went(c, x, q, gs)
    BY <1>5, <2>5 DEF Arrived, Went
  <2>6. CASE Went(c, x, q, gs) /\ Went(c, y, r, gs)
    BY <2>6 DEF Went
  <2>7. /\ Arrived(x, q, new) \/ Went(c, x, q, gs) \/ Left(c, x, q)
        /\ Arrived(y, r, new) \/ Went(c, y, r, gs) \/ Left(c, y, r)
    BY <1>1
  <2>8. CASE Left(c, x, q)
    BY <2>1, <2>2, <2>7, <2>8
  <2>9. CASE Arrived(x, q, new)
    BY <2>3, <2>4, <2>5, <2>7, <2>9
  <2>10. CASE Went(c, x, q, gs)
    BY <2>3, <2>5, <2>6, <2>7, <2>10
  <2> QED
    BY <2>7, <2>8, <2>9, <2>10
<1>6. Apart'
  BY <1>5 DEF Apart
<1>7. \A x \in Calls : \A q \in 1..Len(stack'[x]) : Meant(deal, FrameNo(x, q))'
  BY <1>3 DEF Meant
<1> QED
  BY <1>6, <1>7 DEF Sane

-----------------------------------------------------------------------------
(* Steps after which the deals' books are what they were *)

Alike(r, e) == /\ r.status = e.status /\ r.booked = e.booked /\ r.profit = e.profit
               /\ (r.tp = "none") <=> (e.tp = "none")
AllAlike == \A d \in Deals : Alike(deal'[d], deal[d])

LEMMA AlikeMeant ==
  ASSUME AllAlike, NEW f, f.deal \in Deals
  PROVE  Meant(deal, f) => Meant(deal', f)
BY DEF AllAlike, Alike, Meant, Unspent

LEMMA AlikeBooks ==
  ASSUME AllAlike, Orderly
  PROVE  \A d \in Deals : BooksRight(deal'[d])
BY DEF AllAlike, Alike, BooksRight, Unspent, Orderly, Sane

LEMMA FrameDeals ==
  ASSUME NEW f \in Frames, f.op # "stop"
  PROVE  f.deal \in Deals
BY DEF Frames

LEMMA SanePassive ==
  ASSUME Shape, Shape', Orderly, AllAlike, NEW c \in Calls, ~Idle(c), NEW gs, NEW new,
         Moves(c, Len(stack[c]), gs, new),
         \A g \in gs : g.deal \in Deals /\ Fits(c, g) /\ Meant(deal, g),
         \A f \in new : f.deal \in Deals /\ f.at = "begin" /\ Fits(c, f) /\ Meant(deal, f),
         \A g \in gs : \A f \in new : ~Clash(g, f) /\ ~Clash(f, g)
  PROVE  Sane'
<1>1. ASSUME NEW x \in Calls, NEW q \in 1..Len(stack[x])
      PROVE  Meant(deal', FrameNo(x, q))
  <2>1. /\ FrameNo(x, q) \in Frames /\ FrameNo(x, q).op # "stop"
        /\ Meant(deal, FrameNo(x, q))
    BY PostedAt DEF Orderly, Sane, Posted
  <2> QED
    BY <2>1, FrameDeals, AlikeMeant
<1>2. \A g \in gs : Fits(c, g) /\ Meant(deal', g)
  BY AlikeMeant
<1>3. \A f \in new : f.at = "begin" /\ Fits(c, f) /\ Meant(deal', f)
  BY AlikeMeant
<1> QED
  BY <1>1, <1>2, <1>3, AlikeBooks, SaneMoved

\* A frame that has begun nothing.
Modest(f) == /\ f.deal \in Deals /\ f.at = "begin"
             /\ f.op \in {"startDeal", "updateDeal", "closeDeal", "processDealClose"}
             /\ f.op = "closeDeal" => f.how = "tp" /\ deal[f.deal].tp # "none"

LEMMA ModestFits ==
  ASSUME NEW c, NEW f, Modest(f)
  PROVE  f.deal \in Deals /\ f.at = "begin" /\ Fits(c, f) /\ Meant(deal, f)
BY DEF Modest, Fits, Meant, Opener, Canceller, Orderless, Advanced, Closing, Booking

LEMMA BegunAside ==
  ASSUME NEW f, NEW g, f.at = "begin", g.at \notin {"opens", "cancels"}
  PROVE  ~Clash(f, g) /\ ~Clash(g, f)
BY DEF Clash, Opener, Canceller

LEMMA TopDeal ==
  ASSUME Shape, Orderly, NEW c \in Calls, ~Idle(c)
  PROVE  Top(c).deal \in Deals /\ Top(c).op # "stop"
BY TopKnown, FrameDeals DEF Posted

LEMMA GotoAndKeeps ==
  ASSUME Shape, Shape', Orderly, AllAlike, Unswitched,
         NEW c \in Calls, NEW op, NEW b, Runs(c, op, b), NEW a \in Points,
         Fits(c, At(c, a)), Meant(deal, At(c, a)),
         NEW spawn, PostedSpawn(spawn), \A f \in Spawned(spawn) : Modest(f),
         a \in {"opens", "cancels"} => Spawned(spawn) = {},
         GotoAnd(c, a, spawn)
  PROVE  Orderly'
<1>1. Undisturbed'
  BY GotoAndPosted DEF Orderly
<1>2. ~Idle(c) /\ At(c, a).deal \in Deals /\ At(c, a).at = a
  BY TopDeal, TopKnown DEF Runs
<1>3. Moves(c, Len(stack[c]), {At(c, a)}, Spawned(spawn))
  BY GotoAndStep DEF Unswitched, PostedSpawn, StepDone
<1> DEFINE gs == {At(c, a)}
           new == Spawned(spawn)
<1>4. \A f \in new : f.deal \in Deals /\ f.at = "begin" /\ Fits(c, f) /\ Meant(deal, f)
  BY ModestFits
<1>5. \A g \in gs : \A f \in new : ~Clash(g, f) /\ ~Clash(f, g)
  BY <1>2, <1>4, BegunAside
<1>7. \A g \in gs : g.deal \in Deals /\ Fits(c, g) /\ Meant(deal, g)
  BY <1>2
<1>8. Moves(c, Len(stack[c]), gs, new)
  BY <1>3
<1> HIDE DEF gs, new
<1>6. Sane'
  BY <1>2, <1>4, <1>5, <1>7, <1>8, SanePassive
<1> QED
  BY <1>1, <1>6 DEF Orderly

LEMMA GotoKeeps ==
  ASSUME Shape, Shape', Orderly, AllAlike, Unswitched,
         NEW c \in Calls, NEW op, NEW b, Runs(c, op, b), NEW a \in Points,
         Fits(c, At(c, a)), Meant(deal, At(c, a)), Goto(c, a)
  PROVE  Orderly'
<1>1. GotoAnd(c, a, None)
  BY DEF Goto, GotoAnd
<1>2. Spawned(None) = {} /\ PostedSpawn(None)
  BY NoneSpawns, NonePosted
<1> QED
  BY <1>1, <1>2, GotoAndKeeps

LEMMA AwaitKeeps ==
  ASSUME Shape, Shape', Orderly, AllAlike, Unswitched,
         NEW c \in Calls, NEW op, NEW b, Runs(c, op, b), NEW a \in Points \ {"opens", "cancels"},
         Fits(c, At(c, a)), Meant(deal, At(c, a)),
         NEW f \in Frames, f.at = "begin", Posted(c, Len(stack[c]) + 1, f),
         f.deal \in Deals, Fits(c, f), Meant(deal, f),
         Await(c, a, f)
  PROVE  Orderly'
<1>1. Undisturbed'
  BY AwaitPosted DEF Orderly
<1>2. ~Idle(c) /\ At(c, a).deal \in Deals /\ At(c, a).at = a
  BY TopDeal, TopKnown DEF Runs
<1>3. Moves(c, Len(stack[c]), {At(c, a)}, {f})
  BY AwaitStep DEF Unswitched, StepDone
<1>4. ~Clash(At(c, a), f) /\ ~Clash(f, At(c, a))
  BY <1>2, BegunAside
<1> DEFINE gs == {At(c, a)}
           new == {f}
<1>6. /\ \A g \in gs : g.deal \in Deals /\ Fits(c, g) /\ Meant(deal, g)
      /\ \A n \in new : n.deal \in Deals /\ n.at = "begin" /\ Fits(c, n) /\ Meant(deal, n)
      /\ \A g \in gs : \A n \in new : ~Clash(g, n) /\ ~Clash(n, g)
  BY <1>2, <1>4
<1>7. Moves(c, Len(stack[c]), gs, new)
  BY <1>3
<1> HIDE DEF gs, new
<1>5. Sane'
  BY <1>2, <1>6, <1>7, SanePassive
<1> QED
  BY <1>1, <1>5 DEF Orderly

LEMMA ReturnAndKeeps ==
  ASSUME Shape, Shape', Orderly, AllAlike, Unswitched,
         NEW c \in Calls, NEW op, NEW b, Runs(c, op, b),
         NEW spawn, PostedSpawn(spawn), \A f \in Spawned(spawn) : Modest(f),
         ReturnAnd(c, spawn)
  PROVE  Orderly'
<1>1. Undisturbed'
  BY ReturnAndPosted DEF Orderly
<1>2. ~Idle(c)
  BY DEF Runs
<1>3. Moves(c, Len(stack[c]), {}, Spawned(spawn))
  BY ReturnAndStep DEF Unswitched, PostedSpawn, StepDone
<1>4. \A f \in Spawned(spawn) : /\ f.deal \in Deals /\ f.at = "begin"
                                /\ Fits(c, f) /\ Meant(deal, f)
  BY ModestFits
<1> DEFINE gs == {}
           new == Spawned(spawn)
<1>6. /\ \A g \in gs : g.deal \in Deals /\ Fits(c, g) /\ Meant(deal, g)
      /\ \A g \in gs : \A n \in new : ~Clash(g, n) /\ ~Clash(n, g)
  OBVIOUS
<1>7. Moves(c, Len(stack[c]), gs, new)
  BY <1>3
<1>8. \A f \in new : f.deal \in Deals /\ f.at = "begin" /\ Fits(c, f) /\ Meant(deal, f)
  BY <1>4
<1> HIDE DEF gs, new
<1>5. Sane'
  BY <1>2, <1>6, <1>7, <1>8, SanePassive
<1> QED
  BY <1>1, <1>5 DEF Orderly

LEMMA ReturnKeeps ==
  ASSUME Shape, Shape', Orderly, AllAlike, Unswitched,
         NEW c \in Calls, NEW op, NEW b, Runs(c, op, b), Return(c, FALSE)
  PROVE  Orderly'
<1>1. ReturnAnd(c, None)
  BY DEF Return, ReturnAnd
<1>2. Spawned(None) = {} /\ PostedSpawn(None)
  BY NoneSpawns, NonePosted
<1> QED
  BY <1>1, <1>2, ReturnAndKeeps

\* Where a frame may go on.
Farther == {"sweeps", "swept", "sweptFilled", "stopped"}
Within == {"settles", "measures", "swept", "closes"}
MayTurn(r, op, b, a) ==
    \/ op = "startDeal" /\ (a = "opens" => r.status = "start")
    \/ op \in {"placeOrders", "processDealClose"}
    \/ op = "updateDeal" /\ (a \in {"sizes", "placed"} => r.status = "open" \/ b \in {"sizes", "placed"})
    \/ /\ op = "closeDeal" /\ a \notin {"books", "sweptBooks"}
       /\ a \in Within => b \in Within \/ r.status \in {"open", "canceled"}
    \/ /\ op = "closeDealById"
       /\ a = "cancels" => r.status = "start"
       /\ a \in Farther => r.status = "open" \/ b \in Farther
    \/ op = "openNewDeal" /\ (a \in Opening => b \in Opening)

LEMMA Turns ==
  ASSUME Shape, Orderly, NEW c \in Calls, NEW op, NEW b, Runs(c, op, b), NEW a,
         MayTurn(deal[Top(c).deal], op, b, a)
  PROVE  Fits(c, At(c, a)) /\ Meant(deal, At(c, a))
<1> DEFINE t == Top(c)
           g == At(c, a)
           r == deal[t.deal]
<1>1. /\ ~Idle(c) /\ t.op = op /\ t.at = b /\ Posted(c, Len(stack[c]), t) /\ Meant(deal, t)
      /\ g.op = op /\ g.at = a /\ g.deal = t.deal /\ g.how = t.how
  BY TopKnown DEF Runs
<1>2. BooksRight(r)
  BY <1>1, TopDeal DEF Orderly, Sane
<1>3. /\ Meant(deal, t) <=>
           /\ Closing(t) => r.booked = 0
           /\ Booking(t) => r.status = "closed"
           /\ (t.op = "closeDeal" /\ t.how = "tp") => r.tp # "none"
           /\ Opener(t) => r.status \in {"start", "canceled"} /\ Unspent(r)
           /\ Canceller(t) => r.status # "none" /\ Unspent(r)
           /\ Advanced(t) => r.status \notin {"none", "start"}
           /\ (t.op = "openNewDeal" /\ t.at \in Opening) => r.status = "none"
      /\ Meant(deal, g) <=>
           /\ Closing(g) => r.booked = 0
           /\ Booking(g) => r.status = "closed"
           /\ (g.op = "closeDeal" /\ g.how = "tp") => r.tp # "none"
           /\ Opener(g) => r.status \in {"start", "canceled"} /\ Unspent(r)
           /\ Canceller(g) => r.status # "none" /\ Unspent(r)
           /\ Advanced(g) => r.status \notin {"none", "start"}
           /\ (g.op = "openNewDeal" /\ g.at \in Opening) => r.status = "none"
  BY <1>1 DEF Meant
<1>4. Fits(c, g) <=>
        /\ Opener(g) => r.status = "start"
        /\ Advanced(g) => r.status = "open" \/ Advanced(t) \/ Opener(t)
        /\ (Canceller(g) \/ Orderless(g))
             => \/ c = <<"user", t.deal>> /\ Len(stack[c]) = 1
                \/ Orderless(t) /\ Orderless(g)
  BY <1>1 DEF Fits
<1> SUFFICES Fits(c, g) /\ Meant(deal, g)
  OBVIOUS
<1> HIDE DEF t, g, r
<1>5. CASE op = "closeDeal"
  <2>1. a \notin {"books", "sweptBooks"} /\ (a \in Within => b \in Within \/ r.status \in {"open", "canceled"})
    BY <1>5 DEF MayTurn, r, t
  <2>2. Closing(g) => r.booked = 0
    BY <1>1, <1>2, <1>3, <1>5, <2>1 DEF Closing, Within, BooksRight
  <2>3. ~Booking(g) /\ ~Opener(g) /\ ~Canceller(g) /\ (Orderless(g) <=> Orderless(t))
        /\ (Advanced(g) <=> Orderless(t)) /\ (Advanced(t) <=> Orderless(t))
    BY <1>1, <1>5, <2>1 DEF Booking, Opener, Canceller, Orderless, Advanced
  <2> QED
    BY <1>1, <1>3, <1>4, <1>5, <2>2, <2>3
<1>6. CASE op # "closeDeal"
  <2>1. ~Closing(g) /\ ~Booking(g) /\ ~Orderless(g)
    BY <1>1, <1>6 DEF Closing, Booking, Orderless
  <2>2. Opener(g) => r.status = "start"
    BY <1>1, <1>6 DEF Opener, MayTurn, r, t
  <2>3. Canceller(g) => r.status = "start" /\ c = <<"user", t.deal>> /\ Len(stack[c]) = 1
    BY <1>1, <1>6 DEF Canceller, MayTurn, Posted, r, t
  <2>4. Advanced(g) => r.status = "open" \/ Advanced(t)
    BY <1>1, <1>6 DEF Advanced, Orderless, MayTurn, Farther, r, t
  <2>5. (g.op = "openNewDeal" /\ g.at \in Opening) => r.status = "none"
    BY <1>1, <1>3, <1>6 DEF MayTurn, r, t
  <2>6. r.status = "start" => Unspent(r)
    BY <1>2 DEF BooksRight
  <2> QED
    BY <1>1, <1>3, <1>4, <1>6, <2>1, <2>2, <2>3, <2>4, <2>5, <2>6
<1> QED
  BY <1>5, <1>6

LEMMA AlikeSame ==
  ASSUME UNCHANGED deal
  PROVE  AllAlike
BY DEF AllAlike, Alike

LEMMA AlikeSet ==
  ASSUME Shape, NEW d \in Deals, NEW r, Set(d, r), Alike(r, deal[d])
  PROVE  AllAlike
BY DEF Shape, Set, AllAlike, Alike

LEMMA AlikeEdits ==
  ASSUME NEW e \in DealTypes, NEW n, NEW m
  PROVE  /\ Alike(e, e)
         /\ Alike([e EXCEPT !.coins = n], e) /\ Alike([e EXCEPT !.so = n], e)
         /\ Alike([e EXCEPT !.ledger = n], e) /\ Alike([e EXCEPT !.base = n], e)
         /\ Alike([e EXCEPT !.closing = n], e)
         /\ Alike([e EXCEPT !.base = n, !.coins = m], e)
         /\ Alike([e EXCEPT !.so = n, !.coins = m], e)
         /\ Alike([e EXCEPT !.closing = FALSE, !.live = FALSE, !.closes = n], e)
         /\ (e.tp # "none" /\ n # "none") =>
              /\ Alike([e EXCEPT !.tp = n], e) /\ Alike([e EXCEPT !.tp = n, !.tpQty = m], e)
              /\ Alike([e EXCEPT !.tp = n, !.coins = m], e)
              /\ Alike([e EXCEPT !.tp = n, !.sold = m], e)
BY DEF Alike, DealTypes

\* The deal a method runs for, and what it may set it to.
LEMMA DealOf ==
  ASSUME Shape, Orderly, NEW c \in Calls, NEW op, NEW b, Runs(c, op, b)
  PROVE  /\ Top(c).deal \in Deals /\ deal[Top(c).deal] \in DealTypes
         /\ Posted(c, Len(stack[c]), Top(c)) /\ Meant(deal, Top(c)) /\ Top(c) \in Frames
         /\ Top(c).op = op /\ Top(c).at = b /\ ~Idle(c)
         /\ BooksRight(deal[Top(c).deal])
BY TopKnown, TopDeal DEF Runs, Shape, Orderly, Sane

LEMMA StartKeeps ==
  ASSUME Shape, Shape', Orderly, NEW c \in Calls,
         StartBegins(c) \/ SellRemainder(c)
  PROVE  Orderly'
<1> DEFINE d == Top(c).deal
<1>1. CASE StartBegins(c)
  <2> DEFINE a == IF deal[d].live /\ deal[d].status = "start" THEN "opens" ELSE "remainder"
  <2>1. Runs(c, "startDeal", "begin") /\ Goto(c, a) /\ UNCHANGED <<bot, deal>>
    BY <1>1 DEF StartBegins
  <2>2. MayTurn(deal[d], "startDeal", "begin", a) /\ a \in Points
    BY DEF MayTurn, Points
  <2> HIDE DEF a
  <2> QED
    BY <2>1, <2>2, Turns, AlikeSame, GotoKeeps DEF Unswitched
<1>2. CASE SellRemainder(c)
  <2>1. PICK b \in {"remainder", "placed"} : Runs(c, "startDeal", b)
    BY <1>2 DEF SellRemainder
  <2>2. Return(c, FALSE) /\ UNCHANGED bot
    BY <1>2 DEF SellRemainder
  <2>3. UNCHANGED deal \/ Set(d, [deal[d] EXCEPT !.coins = @ - 1])
    BY <1>2 DEF SellRemainder
  <2>4. AllAlike
    BY <2>1, <2>3, DealOf, AlikeEdits, AlikeSame, AlikeSet
  <2> QED
    BY <2>1, <2>2, <2>4, ReturnKeeps DEF Unswitched
<1> QED
  BY <1>1, <1>2

\* An order that executed and was not handled: its handler may run.
LEMMA HandlerModest ==
  ASSUME NEW r \in Reports, State(r) = "filled"
  PROVE  Modest(Handler(r))
<1>1. r[2] \in Deals /\ r[1] \in {"base", "fill"} \cup SafetyOrders
  BY DEF Reports
<1>2. r[1] = "fill" => deal[r[2]].tp = "filled"
  BY DEF State
<1>3. /\ Handler(r).at = "begin" /\ Handler(r).deal = r[2]
      /\ Handler(r).op \in {"startDeal", "updateDeal", "closeDeal"}
      /\ Handler(r).op = "closeDeal" => r[1] = "fill" /\ Handler(r).how = "tp"
  BY HandlerFields
<1> QED
  BY <1>1, <1>2, <1>3 DEF Modest

LEMMA HandlersModest ==
  ASSUME NEW d \in Deals
  PROVE  \A f \in Spawned(Handlers(d)) : Modest(f)
<1>1. \A r \in Executed(d) : r \in Reports /\ State(r) = "filled"
  BY DEF Executed, Reports
<1>2. DOMAIN Handlers(d) = Executed(d) /\ \A r \in Executed(d) : Handlers(d)[r] = Handler(r)
  BY DEF Handlers
<1> QED
  BY <1>1, <1>2, HandlerModest DEF Spawned

LEMMA AlikeLadder ==
  ASSUME NEW e \in DealTypes
  PROVE  Alike(WithoutLadder(e), e)
BY AlikeEdits DEF WithoutLadder

\* The take profit of a deal that filled is known.
LEMMA AlikeKnown ==
  ASSUME Shape, NEW c \in Reports, State(c) = "filled"
  PROVE  Alike(Known(c), deal[c[2]])
<1> DEFINE e == deal[c[2]]
<1>1. e \in DealTypes /\ (c[1] = "fill" => e.tp = "filled")
  BY DEF Shape, Reports, State
<1>2. CASE c[1] = "base"
  BY <1>1, <1>2, AlikeEdits DEF Known
<1>3. CASE c[1] = "fill"
  BY <1>1, <1>3, AlikeEdits DEF Known
<1>4. CASE c[1] \notin {"base", "fill"}
  <2>1. Known(c) = [e EXCEPT !.so[c[1]] = "done"]
    BY <1>4 DEF Known
  <2> QED
    BY <1>1, <2>1 DEF Alike, DealTypes
<1> QED
  BY <1>2, <1>3, <1>4

LEMMA AlikeSwept ==
  ASSUME NEW e \in DealTypes
  PROVE  Alike(SweptDeal(e), e)
<1> DEFINE r == SweptDeal(e)
<1>1. r = [e EXCEPT !.base = Cancelled(e.base), !.tp = Cancelled(e.tp),
                    !.so = [s \in SafetyOrders |-> Cancelled(e.so[s])],
                    !.sold = e.sold + (IF e.tp = "filled" THEN e.tpQty ELSE 0)]
  BY DEF SweptDeal
<1>2. (Cancelled(e.tp) = "none") <=> (e.tp = "none")
  BY DEF Cancelled
<1> HIDE DEF r
<1>3. r.tp = Cancelled(e.tp) /\ r.status = e.status /\ r.booked = e.booked /\ r.profit = e.profit
  BY <1>1 DEF DealTypes
<1> QED
  BY <1>2, <1>3 DEF Alike, r

LEMMA PlaceKeeps ==
  ASSUME Shape, Shape', Orderly, NEW c \in Calls,
         PlaceBegins(c) \/ PlaceLadder(c) \/ PlaceCancels(c)
  PROVE  Orderly'
<1> DEFINE d == Top(c).deal
<1>1. CASE PlaceBegins(c)
  <2>1. Runs(c, "placeOrders", "begin") /\ UNCHANGED bot
    BY <1>1 DEF PlaceBegins
  <2>2. /\ d \in Deals /\ deal[d] \in DealTypes /\ Top(c).how \in {"ladder", "resize"}
    BY <2>1, DealOf DEF Frames
  <2>3. CASE Return(c, FALSE) /\ (UNCHANGED deal \/ Set(d, WithoutLadder(deal[d])))
    BY <2>1, <2>2, <2>3, AlikeLadder, AlikeSame, AlikeSet, ReturnKeeps DEF Unswitched
  <2>4. CASE Goto(c, Top(c).how) /\ UNCHANGED deal
    <3>1. PICK a \in {"ladder", "resize"} : Goto(c, a)
      BY <2>2, <2>4
    <3>2. MayTurn(deal[d], "placeOrders", "begin", a) /\ a \in Points
      BY DEF MayTurn, Points
    <3> QED
      BY <2>1, <2>4, <3>1, <3>2, Turns, AlikeSame, GotoKeeps DEF Unswitched
  <2> QED
    BY <1>1, <2>3, <2>4 DEF PlaceBegins
<1>2. CASE PlaceLadder(c)
  <2>1. Runs(c, "placeOrders", "ladder") /\ UNCHANGED bot /\ Goto(c, "sends")
    BY <1>2 DEF PlaceLadder
  <2>2. Set(d, [deal[d] EXCEPT !.so = [s \in SafetyOrders |->
                      IF s \in world.ladder THEN "resting" ELSE @[s]]])
    BY <1>2 DEF PlaceLadder
  <2>3. AllAlike
    BY <2>1, <2>2, DealOf, AlikeEdits, AlikeSet
  <2>4. MayTurn(deal[d], "placeOrders", "ladder", "sends") /\ "sends" \in Points
    BY DEF MayTurn, Points
  <2> QED
    BY <2>1, <2>3, <2>4, Turns, GotoKeeps DEF Unswitched
<1>3. CASE PlaceCancels(c)
  <2>1. Runs(c, "placeOrders", "resize") /\ UNCHANGED bot
    BY <1>3 DEF PlaceCancels
  <2>2. /\ d \in Deals /\ deal[d] \in DealTypes
        /\ MayTurn(deal[d], "placeOrders", "resize", "sends") /\ "sends" \in Points
    BY <2>1, DealOf DEF MayTurn, Points
  <2>3. CASE deal[d].tp = "filled"
    <3> DEFINE r == <<"fill", d>>
    <3>1. r \in Reports /\ r[2] = d /\ State(r) = "filled" /\ r \in Calls
      BY <2>2, <2>3, ReportCalls DEF Reports, State
    <3>2. Set(d, Known(r)) /\ ReturnAnd(c, Just(r, Handler(r)))
      BY <1>3, <2>3 DEF PlaceCancels
    <3>3. Handler(r) \in Frames /\ Handler(r).at = "begin" /\ Posted(r, 1, Handler(r))
      BY <3>1, HandlerType, HandlerPosted DEF Shape
    <3>4. Modest(Handler(r))
      BY <3>1, HandlerModest
    <3>5. AllAlike
      BY <2>2, <3>1, <3>2, AlikeKnown, AlikeSet
    <3> DEFINE spawn == Just(r, Handler(r))
    <3>6. PostedSpawn(spawn) /\ Spawned(spawn) = {Handler(r)}
      BY <3>1, <3>3, JustPosted, OneSpawn
    <3> HIDE DEF r, spawn
    <3>7. \A f \in Spawned(spawn) : Modest(f)
      BY <3>4, <3>6
    <3>8. ReturnAnd(c, spawn)
      BY <3>2 DEF spawn
    <3> QED
      BY <2>1, <3>5, <3>6, <3>7, <3>8, ReturnAndKeeps DEF Unswitched
  <2>4. CASE UNCHANGED deal /\ Return(c, FALSE)
    BY <2>1, <2>4, AlikeSame, ReturnKeeps DEF Unswitched
  <2>5. CASE deal[d].tp = "resting" /\ Set(d, [deal[d] EXCEPT !.tp = "cancelled"]) /\ Goto(c, "sends")
    <3>1. AllAlike
      BY <2>2, <2>5, AlikeEdits, AlikeSet
    <3> QED
      BY <2>1, <2>2, <2>5, <3>1, Turns, GotoKeeps DEF Unswitched
  <2>6. CASE UNCHANGED deal /\ Goto(c, "sends")
    BY <2>1, <2>2, <2>6, AlikeSame, Turns, GotoKeeps DEF Unswitched
  <2> QED
    BY <1>3, <2>3, <2>4, <2>5, <2>6 DEF PlaceCancels
<1> QED
  BY <1>1, <1>2, <1>3

LEMMA LevelKeeps ==
  ASSUME Shape, Shape', Orderly, NEW c \in Calls,
         LevelBooks(c) \/ LevelSizes(c) \/ LevelEnds(c) \/ LevelSells(c)
  PROVE  Orderly'
<1> DEFINE d == Top(c).deal
<1>1. CASE LevelBooks(c)
  <2>1. Runs(c, "updateDeal", "begin") /\ UNCHANGED bot
    BY <1>1 DEF LevelBooks
  <2>2. d \in Deals /\ deal[d] \in DealTypes
    BY <2>1, DealOf
  <2>3. CASE /\ deal[d].status = "open" /\ Goto(c, "sizes")
             /\ Set(d, [deal[d] EXCEPT !.ledger = @ + 1])
    <3>1. AllAlike
      BY <2>2, <2>3, AlikeEdits, AlikeSet
    <3>2. MayTurn(deal[d], "updateDeal", "begin", "sizes") /\ "sizes" \in Points
      BY <2>3 DEF MayTurn, Points
    <3> QED
      BY <2>1, <2>3, <3>1, <3>2, Turns, GotoKeeps DEF Unswitched
  <2>4. CASE UNCHANGED deal /\ (Goto(c, "sells") \/ Goto(c, "reads"))
    <3>1. PICK a \in {"sells", "reads"} : Goto(c, a)
      BY <2>4
    <3>2. MayTurn(deal[d], "updateDeal", "begin", a) /\ a \in Points
      BY DEF MayTurn, Points
    <3> QED
      BY <2>1, <2>4, <3>1, <3>2, AlikeSame, Turns, GotoKeeps DEF Unswitched
  <2>5. CASE UNCHANGED deal /\ Return(c, FALSE)
    BY <2>1, <2>5, AlikeSame, ReturnKeeps DEF Unswitched
  <2> QED
    BY <1>1, <2>3, <2>4, <2>5 DEF LevelBooks
<1>2. CASE LevelSizes(c)
  <2> DEFINE f == Placing(d, "resize")
  <2>1. Runs(c, "updateDeal", "sizes") /\ UNCHANGED <<bot, deal>> /\ Await(c, "placed", f)
    BY <1>2 DEF LevelSizes
  <2>2. d \in Deals /\ Meant(deal, Top(c)) /\ Advanced(Top(c))
    BY <2>1, DealOf DEF Advanced
  <2>3. /\ f \in Frames /\ f.at = "begin" /\ f.op = "placeOrders" /\ f.deal = d
        /\ f.how = "resize" /\ f.key = DealKey(d) /\ f.result = FALSE
    <3>1. f \in Frames
      BY <2>2, PlacingType DEF Placer
    <3> QED
      BY <3>1 DEF Placing, Frame
  <2>4. MayTurn(deal[d], "updateDeal", "sizes", "placed") /\ "placed" \in Points \ {"opens", "cancels"}
    BY DEF MayTurn, Points
  <2> HIDE DEF f
  <2>5. Posted(c, Len(stack[c]) + 1, f)
    BY <2>3 DEF Posted
  <2>6. Fits(c, f) /\ Meant(deal, f)
    BY <2>2, <2>3 DEF Fits, Meant, Opener, Canceller, Orderless, Advanced, Closing, Booking
  <2> QED
    BY <2>1, <2>2, <2>3, <2>4, <2>5, <2>6, AlikeSame, Turns, AwaitKeeps DEF Unswitched
<1>3. CASE LevelEnds(c)
  <2>1. Runs(c, "updateDeal", "placed") /\ Return(c, FALSE) /\ UNCHANGED <<bot, deal>>
    BY <1>3 DEF LevelEnds
  <2> QED
    BY <2>1, AlikeSame, ReturnKeeps DEF Unswitched
<1>4. CASE LevelSells(c)
  <2>1. PICK b \in {"sells", "reads"} : Runs(c, "updateDeal", b)
    BY <1>4 DEF LevelSells
  <2>2. Return(c, FALSE) /\ UNCHANGED bot
    BY <1>4 DEF LevelSells
  <2>3. UNCHANGED deal \/ Set(d, [deal[d] EXCEPT !.coins = @ - 1])
    BY <1>4 DEF LevelSells
  <2>4. AllAlike
    BY <2>1, <2>3, DealOf, AlikeEdits, AlikeSame, AlikeSet
  <2> QED
    BY <2>1, <2>2, <2>4, ReturnKeeps DEF Unswitched
<1> QED
  BY <1>1, <1>2, <1>3, <1>4

LEMMA CloseDealKeeps ==
  ASSUME Shape, Shape', Orderly, NEW c \in Calls,
         \/ CloseDealBegins(c) \/ CloseDealSettles(c) \/ CloseDealMeasures(c) \/ CloseDealEnds(c)
  PROVE  Orderly'
<1> DEFINE d == Top(c).deal
<1>1. CASE CloseDealBegins(c)
  <2>1. Runs(c, "closeDeal", "begin") /\ UNCHANGED <<bot, deal>>
    BY <1>1 DEF CloseDealBegins
  <2>2. CASE deal[d].status \in {"open", "canceled"} /\ Goto(c, "settles")
    <3>1. MayTurn(deal[d], "closeDeal", "begin", "settles") /\ "settles" \in Points
      BY <2>2 DEF MayTurn, Points
    <3> QED
      BY <2>1, <2>2, <3>1, AlikeSame, Turns, GotoKeeps DEF Unswitched
  <2>3. CASE Return(c, FALSE)
    BY <2>1, <2>3, AlikeSame, ReturnKeeps DEF Unswitched
  <2> QED
    BY <1>1, <2>2, <2>3 DEF CloseDealBegins
<1>2. CASE CloseDealSettles(c)
  <2> DEFINE a == IF Top(c).how = "tp" THEN "measures" ELSE "closes"
  <2>1. Runs(c, "closeDeal", "settles") /\ UNCHANGED bot /\ Goto(c, a)
    BY <1>2 DEF CloseDealSettles
  <2>2. Set(d, [deal[d] EXCEPT !.closing = TRUE]) \/ Set(d, deal[d])
    BY <1>2 DEF CloseDealSettles
  <2>3. AllAlike
    BY <2>1, <2>2, DealOf, AlikeEdits, AlikeSet
  <2>4. MayTurn(deal[d], "closeDeal", "settles", a) /\ a \in Points
    BY DEF MayTurn, Points, Within
  <2> HIDE DEF a
  <2> QED
    BY <2>1, <2>3, <2>4, Turns, GotoKeeps DEF Unswitched
<1>3. CASE CloseDealMeasures(c)
  <2> DEFINE rest == deal[d].ledger - Top(c).qty
             a == IF rest > 0 THEN "swept" ELSE "closes"
  <2>1. Runs(c, "closeDeal", "measures") /\ UNCHANGED bot /\ Goto(c, a)
    BY <1>3 DEF CloseDealMeasures
  <2>2. Set(d, [deal[d] EXCEPT !.coins = @ - rest]) \/ Set(d, deal[d])
    BY <1>3 DEF CloseDealMeasures
  <2>3. AllAlike
    BY <2>1, <2>2, DealOf, AlikeEdits, AlikeSet
  <2>4. MayTurn(deal[d], "closeDeal", "measures", a) /\ a \in Points
    BY DEF MayTurn, Points, Within
  <2> HIDE DEF a
  <2> QED
    BY <2>1, <2>3, <2>4, Turns, GotoKeeps DEF Unswitched
<1>4. CASE CloseDealEnds(c)
  <2>1. Runs(c, "closeDeal", "released") /\ UNCHANGED <<bot, deal>>
    BY <1>4 DEF CloseDealEnds
  <2>2. Return(c, FALSE)
    BY <1>4, <2>1, DealOf DEF CloseDealEnds, Posted
  <2> QED
    BY <2>1, <2>2, AlikeSame, ReturnKeeps DEF Unswitched
<1> QED
  BY <1>1, <1>2, <1>3, <1>4

LEMMA RequestKeeps ==
  ASSUME Shape, Shape', Orderly, NEW c \in Calls,
         CloseBegins(c) \/ CloseReleased(c) \/ CloseStopped(c) \/ CloseSweeps(c) \/
         CloseGivesWay(c) \/ CloseWithoutOrder(c) \/ CloseRestores(c)
  PROVE  Orderly'
<1> DEFINE d == Top(c).deal
<1>1. CASE CloseBegins(c)
  <2>1. Runs(c, "closeDealById", "begin") /\ UNCHANGED <<bot, deal>>
    BY <1>1 DEF CloseBegins
  <2>2. /\ \/ deal[d].status = "start" /\ Goto(c, "cancels")
           \/ deal[d].status = "open" /\ Goto(c, "sweeps")
           \/ Return(c, FALSE)
    BY <1>1, <2>1, DealOf DEF CloseBegins, Posted, Orderly, Undisturbed
  <2>3. /\ deal[d].status = "start" => MayTurn(deal[d], "closeDealById", "begin", "cancels")
        /\ deal[d].status = "open" => MayTurn(deal[d], "closeDealById", "begin", "sweeps")
        /\ {"cancels", "sweeps"} \subseteq Points
    BY DEF MayTurn, Points, Farther
  <2>4. CASE deal[d].status = "start" /\ Goto(c, "cancels")
    BY <2>1, <2>3, <2>4, AlikeSame, Turns, GotoKeeps DEF Unswitched
  <2>5. CASE deal[d].status = "open" /\ Goto(c, "sweeps")
    BY <2>1, <2>3, <2>5, AlikeSame, Turns, GotoKeeps DEF Unswitched
  <2>6. CASE Return(c, FALSE)
    BY <2>1, <2>6, AlikeSame, ReturnKeeps DEF Unswitched
  <2> QED
    BY <2>2, <2>4, <2>5, <2>6
<1>2. CASE CloseReleased(c)
  <2>1. Runs(c, "closeDealById", "released") /\ UNCHANGED <<bot, deal>>
    BY <1>2 DEF CloseReleased
  <2>2. \/ deal[d].status = "open" /\ Goto(c, "sweeps")
        \/ Return(c, FALSE)
    BY <1>2, <2>1, DealOf DEF CloseReleased, Posted
  <2>3. deal[d].status = "open" => MayTurn(deal[d], "closeDealById", "released", "sweeps")
    BY DEF MayTurn
  <2>4. CASE deal[d].status = "open" /\ Goto(c, "sweeps")
    <3>1. "sweeps" \in Points
      BY DEF Points
    <3> QED
      BY <2>1, <2>3, <2>4, <3>1, AlikeSame, Turns, GotoKeeps DEF Unswitched
  <2>5. CASE Return(c, FALSE)
    BY <2>1, <2>5, AlikeSame, ReturnKeeps DEF Unswitched
  <2> QED
    BY <2>2, <2>4, <2>5
<1>3. CASE CloseStopped(c)
  <2>1. Runs(c, "closeDealById", "stopped") /\ Return(c, FALSE) /\ UNCHANGED <<bot, deal>>
    BY <1>3 DEF CloseStopped
  <2> QED
    BY <2>1, AlikeSame, ReturnKeeps DEF Unswitched
<1>4. CASE CloseSweeps(c)
  <2> DEFINE a == IF deal[d].tp = "filled" THEN "sweptFilled" ELSE "swept"
  <2>1. /\ Runs(c, "closeDealById", "sweeps") /\ UNCHANGED bot /\ Set(d, SweptDeal(deal[d]))
        /\ GotoAnd(c, a, Handlers(d))
    BY <1>4 DEF CloseSweeps
  <2>2. d \in Deals /\ deal[d] \in DealTypes
    BY <2>1, DealOf
  <2>3. AllAlike
    BY <2>1, <2>2, AlikeSwept, AlikeSet
  <2>4. MayTurn(deal[d], "closeDealById", "sweeps", a) /\ a \in Points /\ a \notin {"opens", "cancels"}
    BY DEF MayTurn, Points, Farther
  <2>5. PostedSpawn(Handlers(d)) /\ \A f \in Spawned(Handlers(d)) : Modest(f)
    BY <2>2, HandlersPosted, HandlersModest
  <2> HIDE DEF a
  <2> QED
    BY <2>1, <2>3, <2>4, <2>5, Turns, GotoAndKeeps DEF Unswitched
<1>5. CASE CloseGivesWay(c)
  <2>1. PICK b \in {"swept", "sweptFilled"} : Runs(c, "closeDealById", b)
    BY <1>5 DEF CloseGivesWay
  <2>2. Return(c, FALSE) /\ UNCHANGED <<bot, deal>>
    BY <1>5 DEF CloseGivesWay
  <2> QED
    BY <2>1, <2>2, AlikeSame, ReturnKeeps DEF Unswitched
<1>6. CASE CloseWithoutOrder(c)
  <2> DEFINE f == Frame("closeDeal", ClosingKey, d, "none")
  <2>0. PICK b \in {"swept", "sweptFilled"} : Runs(c, "closeDealById", b)
    BY <1>6 DEF CloseWithoutOrder, ClosesEmpty, CloseSends
  <2>1. UNCHANGED bot /\ Await(c, "stopped", f)
    BY <1>6 DEF CloseWithoutOrder
  <2>2. /\ d \in Deals /\ deal[d] \in DealTypes /\ Meant(deal, Top(c)) /\ Advanced(Top(c))
        /\ c = <<"user", d>> /\ Len(stack[c]) = 1
    BY <2>0, DealOf DEF Advanced, Posted
  <2>3. Set(d, deal[d]) \/ Set(d, [deal[d] EXCEPT !.coins = 0])
    BY <1>6 DEF CloseWithoutOrder
  <2>4. AllAlike
    BY <2>2, <2>3, AlikeEdits, AlikeSet
  <2>5. /\ f \in Frames /\ f.at = "begin" /\ f.op = "closeDeal" /\ f.deal = d
        /\ f.how = "none" /\ f.result = FALSE
    BY <2>2, CloserType DEF Frame
  <2>6. MayTurn(deal[d], "closeDealById", b, "stopped") /\ "stopped" \in Points \ {"opens", "cancels"}
    BY DEF MayTurn, Points, Farther
  <2> HIDE DEF f
  <2>7. Posted(c, Len(stack[c]) + 1, f)
    BY <2>2, <2>5 DEF Posted
  <2>8. Fits(c, f) /\ Meant(deal, f)
    BY <2>2, <2>5 DEF Fits, Meant, Opener, Canceller, Orderless, Advanced, Closing, Booking
  <2> QED
    BY <2>0, <2>1, <2>2, <2>4, <2>5, <2>6, <2>7, <2>8, Turns, AwaitKeeps DEF Unswitched
<1>7. CASE CloseRestores(c)
  <2>1. Runs(c, "closeDealById", "swept") /\ UNCHANGED bot /\ Return(c, FALSE)
    BY <1>7 DEF CloseRestores, CloseSends
  <2>2. \/ Set(d, deal[d])
        \/ deal[d].tp = "cancelled" /\ Set(d, [deal[d] EXCEPT !.tp = "resting", !.tpQty = Size(d)])
    BY <1>7 DEF CloseRestores
  <2>3. AllAlike
    BY <2>1, <2>2, DealOf, AlikeEdits, AlikeSet
  <2> QED
    BY <2>1, <2>3, ReturnKeeps DEF Unswitched
<1> QED
  BY <1>1, <1>2, <1>3, <1>4, <1>5, <1>6, <1>7

-----------------------------------------------------------------------------
(* Steps that change a deal's books *)

LEMMA StaysKnown ==
  ASSUME Shape, Orderly, NEW c \in Calls, ~Idle(c),
         NEW x \in Calls, NEW q \in 1..Len(stack[x]), Stays(c, x, q)
  PROVE  LET e == FrameNo(x, q)
         IN /\ e \in Frames /\ e.deal \in Deals /\ Posted(x, q, e) /\ Meant(deal, e)
            /\ ~(x = c /\ q = Len(stack[c]))
            /\ ~Clash(Top(c), e) /\ ~Clash(e, Top(c))
<1>1. FrameNo(x, q) \in Frames /\ Posted(x, q, FrameNo(x, q)) /\ Meant(deal, FrameNo(x, q))
  BY PostedAt DEF Orderly, Sane
<1>2. FrameNo(x, q).deal \in Deals
  BY <1>1, FrameDeals DEF Posted
<1>3. ~(x = c /\ q = Len(stack[c])) /\ Len(stack[c]) \in 1..Len(stack[c])
      /\ Top(c) = FrameNo(c, Len(stack[c]))
  BY TopKnown DEF Stays
<1>4. ~Clash(Top(c), FrameNo(x, q)) /\ ~Clash(FrameNo(x, q), Top(c))
  BY <1>3 DEF Orderly, Sane, Apart
<1> QED
  BY <1>1, <1>2, <1>3, <1>4

LEMMA SaneSet ==
  ASSUME Shape, Shape', Orderly, NEW c \in Calls, ~Idle(c), NEW d \in Deals, NEW r,
         Set(d, r), BooksRight(r), NEW gs, NEW new, Moves(c, Len(stack[c]), gs, new),
         \A x \in Calls : \A q \in 1..Len(stack[x]) :
            Stays(c, x, q) /\ FrameNo(x, q).deal = d => Meant(deal', FrameNo(x, q)),
         \A g \in gs : Fits(c, g) /\ Meant(deal', g),
         \A f \in new : f.at = "begin" /\ Fits(c, f) /\ Meant(deal', f),
         \A g \in gs : g.at \notin {"opens", "cancels"}
  PROVE  Sane'
<1>1. deal'[d] = r /\ \A e \in Deals \ {d} : deal'[e] = deal[e]
  BY DEF Shape, Set
<1>2. \A e \in Deals : BooksRight(deal'[e])
  BY <1>1 DEF Orderly, Sane
<1>3. ASSUME NEW x \in Calls, NEW q \in 1..Len(stack[x]), Stays(c, x, q)
      PROVE  Meant(deal', FrameNo(x, q))
  <2> DEFINE e == FrameNo(x, q)
  <2>1. e.deal \in Deals /\ Meant(deal, e)
    BY <1>3, StaysKnown
  <2>2. CASE e.deal = d
    BY <1>3, <2>2
  <2>3. CASE e.deal # d
    <3>1. deal'[e.deal] = deal[e.deal]
      BY <1>1, <2>1, <2>3
    <3> HIDE DEF e
    <3>2. Meant(deal', e)
      BY <2>1, <3>1 DEF Meant
    <3> QED
      BY <3>2 DEF e
  <2> QED
    BY <2>2, <2>3
<1>4. \A g \in gs : \A f \in new : ~Clash(g, f) /\ ~Clash(f, g)
  BY BegunAside
<1> QED
  BY <1>2, <1>3, <1>4, SaneMoved

LEMMA StartOpensKeeps ==
  ASSUME Shape, Shape', Orderly, NEW c \in Calls, StartOpens(c)
  PROVE  Orderly'
<1> DEFINE d == Top(c).deal
           r == [deal[d] EXCEPT !.status = "open", !.stored = "open", !.ledger = 1]
           f == Placing(d, "ladder")
           g == At(c, "placed")
<1>1. Runs(c, "startDeal", "opens") /\ UNCHANGED bot /\ Set(d, r) /\ Await(c, "placed", f)
  BY DEF StartOpens
<1>2. /\ d \in Deals /\ deal[d] \in DealTypes /\ Meant(deal, Top(c)) /\ Opener(Top(c))
      /\ c = <<"base", d>> /\ Len(stack[c]) = 1 /\ BooksRight(deal[d]) /\ ~Idle(c)
  BY <1>1, DealOf DEF Opener, Posted
<1>3. /\ f \in Frames /\ f.at = "begin" /\ f.op = "placeOrders" /\ f.deal = d
      /\ f.how = "ladder" /\ f.key = DealKey(d) /\ f.result = FALSE
  <2>1. f \in Frames
    BY <1>2, PlacingType DEF Placer
  <2> QED
    BY <2>1 DEF Placing, Frame
<1>4. g.op = "startDeal" /\ g.at = "placed" /\ g.deal = d
  BY <1>1, <1>2, TopKnown DEF Runs
<1>5. r.status = "open" /\ r.booked = deal[d].booked /\ r.profit = deal[d].profit /\ r.tp = deal[d].tp
  BY <1>2 DEF DealTypes
<1>6. deal[d].booked = 0 /\ deal[d].status \in {"start", "canceled"} /\ deal[d].tp = "none"
  BY <1>2 DEF Meant, Unspent
<1>7. deal'[d] = r
  BY <1>1, <1>2 DEF Shape, Set
<1> HIDE DEF r, f, g
<1>8. Posted(c, Len(stack[c]) + 1, f)
  BY <1>3 DEF Posted
<1>9. Undisturbed'
  <2>1. "placed" \in Points
    BY DEF Points
  <2> QED
    BY <1>1, <1>3, <1>8, <2>1, AwaitPosted DEF Orderly, Unswitched
<1>10. Moves(c, Len(stack[c]), {g}, {f})
  <2>1. "placed" \in Points
    BY DEF Points
  <2> QED
    BY <1>1, <1>3, <2>1, AwaitStep DEF StepDone, g
<1>11. BooksRight(r)
  BY <1>2, <1>5, <1>6 DEF BooksRight
<1>12. Fits(c, f) /\ Meant(deal', f)
  BY <1>2, <1>3, <1>5, <1>7
     DEF Fits, Meant, Opener, Canceller, Orderless, Advanced, Closing, Booking
<1>13. Fits(c, g) /\ Meant(deal', g)
  BY <1>4 DEF Fits, Meant, Opener, Canceller, Orderless, Advanced, Closing, Booking
<1>14. ASSUME NEW x \in Calls, NEW q \in 1..Len(stack[x]), Stays(c, x, q), FrameNo(x, q).deal = d
       PROVE  Meant(deal', FrameNo(x, q))
  <2> DEFINE e == FrameNo(x, q)
  <2>1. /\ Posted(x, q, e) /\ Meant(deal, e) /\ ~(x = c /\ q = Len(stack[c]))
    BY <1>2, <1>14, StaysKnown
  <2>2. e.deal = d
    BY <1>14
  <2> HIDE DEF e, d
  <2>3. ~Opener(e)
    BY <1>2, <2>1, <2>2 DEF Posted, Opener
  <2>4. Closing(e) => deal'[d].booked = 0
    BY <1>5, <1>6, <1>7
  <2>5. ~Booking(e)
    BY <1>6, <2>1, <2>2 DEF Meant
  <2>6. Meant(deal', e)
    BY <1>5, <1>6, <1>7, <2>1, <2>2, <2>3, <2>4, <2>5 DEF Meant, Unspent
  <2> QED
    BY <2>6 DEF e
<1>15. Sane'
  <2> DEFINE gs == {g}
             new == {f}
  <2>1. /\ \A h \in gs : Fits(c, h) /\ Meant(deal', h) /\ h.at \notin {"opens", "cancels"}
        /\ \A h \in new : h.at = "begin" /\ Fits(c, h) /\ Meant(deal', h)
        /\ Moves(c, Len(stack[c]), gs, new)
    BY <1>3, <1>4, <1>10, <1>12, <1>13
  <2> HIDE DEF gs, new, d
  <2> QED
    BY <1>1, <1>2, <1>11, <1>14, <2>1, SaneSet
<1> QED
  BY <1>9, <1>15 DEF Orderly

\* A cancel and a placement of the same deal: one of them waits for its key.
LEMMA DealTurns ==
  ASSUME Shape, Orderly, NEW c \in Calls, NEW b, Runs(c, "placeOrders", b),
         NEW x \in Calls, NEW q \in 1..Len(stack[x]), Canceller(FrameNo(x, q))
  PROVE  FrameNo(x, q).deal # Top(c).deal
<1> SUFFICES ASSUME FrameNo(x, q).deal = Top(c).deal PROVE FALSE
  OBVIOUS
<1> DEFINE e == FrameNo(x, q)
           k == DealKey(Top(c).deal)
<1>1. Stacked /\ Locked /\ ~bot.gone
  BY DEF Shape, Orderly, Undisturbed
<1>2. /\ Top(c).key = k /\ Top(c).op = "placeOrders" /\ ~Idle(c) /\ Holds(c)
      /\ Top(c) = FrameNo(c, Len(stack[c])) /\ Top(c).deal \in Deals
  BY DealOf, TopKnown DEF Posted, Runs
<1>3. e.key = k /\ e.at # "begin" /\ e.op = "closeDealById"
  BY PostedAt DEF Orderly, Posted, Canceller
<1>4. k # NoKey
  BY <1>2, KeysApart
<1>5. Head(line[k]) = <<c, Len(stack[c])>>
  BY <1>1, <1>2, <1>4, HoldsHead
<1>6. Head(line[k]) = <<x, q>>
  BY <1>1, <1>3, <1>4 DEF Locked, InTurn
<1>7. x = c /\ q = Len(stack[c])
  BY <1>5, <1>6
<1> QED
  BY <1>2, <1>3, <1>7

LEMMA PlaceSendsKeeps ==
  ASSUME Shape, Shape', Orderly, NEW c \in Calls, PlaceSends(c)
  PROVE  Orderly'
<1> DEFINE d == Top(c).deal
           r == [deal[d] EXCEPT !.tp = "resting", !.tpQty = Top(c).qty]
<1>1. Runs(c, "placeOrders", "sends") /\ UNCHANGED bot /\ Return(c, FALSE)
  BY DEF PlaceSends
<1>2. /\ d \in Deals /\ deal[d] \in DealTypes /\ Meant(deal, Top(c)) /\ Advanced(Top(c))
      /\ BooksRight(deal[d]) /\ ~Idle(c)
  BY <1>1, DealOf DEF Advanced
<1>3. UNCHANGED deal \/ Set(d, WithoutLadder(deal[d])) \/ Set(d, r)
  BY DEF PlaceSends
<1>4. CASE UNCHANGED deal \/ Set(d, WithoutLadder(deal[d]))
  <2>1. AllAlike
    BY <1>2, <1>4, AlikeLadder, AlikeSame, AlikeSet
  <2> QED
    BY <1>1, <2>1, ReturnKeeps DEF Unswitched
<1>5. CASE Set(d, r)
  <2>1. /\ r.status = deal[d].status /\ r.booked = deal[d].booked
        /\ r.profit = deal[d].profit /\ r.tp = "resting"
    BY <1>2 DEF DealTypes
  <2>2. deal'[d] = r
    BY <1>2, <1>5 DEF Shape, Set
  <2>3. deal[d].status \notin {"none", "start"}
    BY <1>2 DEF Meant
  <2> HIDE DEF r
  <2>4. BooksRight(r)
    BY <1>2, <2>1, <2>3 DEF BooksRight
  <2>5. Undisturbed'
    BY <1>1, ReturnPosted DEF Orderly, Unswitched
  <2>6. Moves(c, Len(stack[c]), {}, {})
    BY <1>1, ReturnStep DEF StepDone
  <2>7. ASSUME NEW x \in Calls, NEW q \in 1..Len(stack[x]), Stays(c, x, q), FrameNo(x, q).deal = d
        PROVE  Meant(deal', FrameNo(x, q))
    <3> DEFINE e == FrameNo(x, q)
    <3>1. Meant(deal, e) /\ ~Clash(Top(c), e)
      BY <1>2, <2>7, StaysKnown
    <3>2. ~Canceller(e)
      BY <1>1, <2>7, DealTurns
    <3>3. e.deal = d /\ e.deal = Top(c).deal
      BY <2>7
    <3> HIDE DEF e, d
    <3>4. ~Opener(e)
      BY <1>2, <3>1, <3>3 DEF Clash
    <3>5. Meant(deal', e)
      BY <2>1, <2>2, <3>1, <3>2, <3>3, <3>4 DEF Meant
    <3> QED
      BY <3>5 DEF e
  <2>8. Sane'
    <3> DEFINE gs == {}
               new == {}
    <3>1. /\ \A h \in gs : Fits(c, h) /\ Meant(deal', h) /\ h.at \notin {"opens", "cancels"}
          /\ \A h \in new : h.at = "begin" /\ Fits(c, h) /\ Meant(deal', h)
          /\ Moves(c, Len(stack[c]), gs, new)
      BY <2>6
    <3> HIDE DEF gs, new, d
    <3> QED
      BY <1>2, <1>5, <2>4, <2>7, <3>1, SaneSet
  <2> QED
    BY <2>5, <2>8 DEF Orderly
<1> QED
  BY <1>3, <1>4, <1>5

LEMMA CloseDealClosesKeeps ==
  ASSUME Shape, Shape', Orderly, NEW c \in Calls, CloseDealCloses(c)
  PROVE  Orderly'
<1> DEFINE d == Top(c).deal
           r == [deal[d] EXCEPT !.status = "closed", !.ledger = @ - Top(c).qty]
<1>1. /\ UNCHANGED bot /\ Set(d, r)
      /\ \E b \in {"closes", "swept"}, a \in {"books", "sweptBooks"} :
            Runs(c, "closeDeal", b) /\ Goto(c, a)
  BY DEF CloseDealCloses
<1>2. PICK b \in {"closes", "swept"}, a \in {"books", "sweptBooks"} :
         Runs(c, "closeDeal", b) /\ Goto(c, a)
  BY <1>1
<1> DEFINE g == At(c, a)
           t == Top(c)
<1>3. /\ d \in Deals /\ deal[d] \in DealTypes /\ Meant(deal, t) /\ Posted(c, Len(stack[c]), t)
      /\ BooksRight(deal[d]) /\ ~Idle(c) /\ t.op = "closeDeal" /\ t.at = b /\ t.deal = d
      /\ a \in Points
  BY <1>2, DealOf DEF Points
<1>4. g.op = "closeDeal" /\ g.at = a /\ g.deal = d /\ g.how = t.how
  BY <1>2, <1>3, TopKnown
<1>5. /\ r.status = "closed" /\ r.booked = deal[d].booked
      /\ r.profit = deal[d].profit /\ r.tp = deal[d].tp
  BY <1>3 DEF DealTypes
<1>6. deal'[d] = r
  BY <1>1, <1>3 DEF Shape, Set
<1> HIDE DEF r, t
<1>7. deal[d].booked = 0
  BY <1>3 DEF Meant, Closing
<1>8. \/ t.how = "tp" /\ deal[d].tp # "none"
      \/ Orderless(t) /\ Advanced(t)
  BY <1>3 DEF Meant, Posted, Orderless, Advanced
<1>9. deal[d].status \notin {"none", "start"}
  BY <1>3, <1>8 DEF Meant, BooksRight, Unspent
<1>10. BooksRight(r)
  BY <1>3, <1>5, <1>7 DEF BooksRight
<1>11. Undisturbed'
  BY <1>1, <1>2, <1>3, GotoPosted DEF Orderly, Unswitched
<1>12. Moves(c, Len(stack[c]), {g}, {})
  BY <1>1, <1>2, <1>3, GotoStep DEF StepDone
<1>13. Fits(c, g)
  BY <1>3, <1>4 DEF Fits, t, Opener, Canceller, Orderless, Advanced
<1>14. Meant(deal', g)
  BY <1>3, <1>4, <1>5, <1>6, <1>7, <1>8 DEF Meant, Opener, Canceller, Orderless, Advanced
<1> HIDE DEF g
<1>15. ASSUME NEW x \in Calls, NEW q \in 1..Len(stack[x]), Stays(c, x, q), FrameNo(x, q).deal = d
       PROVE  Meant(deal', FrameNo(x, q))
  <2> DEFINE e == FrameNo(x, q)
  <2>1. Meant(deal, e) /\ ~Clash(t, e)
    BY <1>3, <1>15, StaysKnown DEF t
  <2>2. e.deal = d
    BY <1>15
  <2> HIDE DEF e, d
  <2>3. ~Opener(e)
    <3>1. CASE Advanced(t)
      BY <1>3, <2>1, <2>2, <3>1 DEF Clash
    <3>2. CASE deal[d].tp # "none"
      BY <2>1, <2>2, <3>2 DEF Meant, Unspent
    <3> QED
      BY <1>8, <3>1, <3>2
  <2>4. Meant(deal', e)
    BY <1>5, <1>6, <1>7, <1>9, <2>1, <2>2, <2>3 DEF Meant, Unspent
  <2> QED
    BY <2>4 DEF e
<1>16. Sane'
  <2> DEFINE gs == {g}
             new == {}
  <2>1. /\ \A h \in gs : Fits(c, h) /\ Meant(deal', h) /\ h.at \notin {"opens", "cancels"}
        /\ \A h \in new : h.at = "begin" /\ Fits(c, h) /\ Meant(deal', h)
        /\ Moves(c, Len(stack[c]), gs, new)
    BY <1>4, <1>12, <1>13, <1>14
  <2> HIDE DEF gs, new, d
  <2> QED
    BY <1>1, <1>3, <1>10, <1>15, <2>1, SaneSet
<1> QED
  BY <1>11, <1>16 DEF Orderly

LEMMA BookedFields ==
  ASSUME NEW e \in DealTypes, NEW n \in Int
  PROVE  LET r == Booked([e EXCEPT !.stored = e.status, !.coins = @ - n])
         IN r.status = e.status /\ r.booked = e.booked + 1 /\ r.profit = TRUE /\ r.tp = e.tp
<1> DEFINE f == [e EXCEPT !.stored = e.status, !.coins = @ - n]
<1>1. e.status \in Statuses /\ e.coins - n \in Int
  BY Fields
<1>2. \A v \in Statuses : \A a \in Int : [e EXCEPT !.stored = v, !.coins = a] \in DealTypes
  BY Zenon DEF DealTypes
<1>3. f \in DealTypes
  BY <1>1, <1>2
<1>4. f.status = e.status /\ f.booked = e.booked /\ f.tp = e.tp
  BY DEF DealTypes
<1> HIDE DEF f
<1>5. Booked(f) = [f EXCEPT !.booked = f.booked + 1, !.profit = TRUE]
  BY DEF Booked
<1>6. LET r == Booked(f) IN r.status = f.status /\ r.booked = f.booked + 1
                            /\ r.profit = TRUE /\ r.tp = f.tp
  BY <1>3, <1>5 DEF DealTypes
<1> QED
  BY <1>4, <1>6 DEF f

LEMMA CloseDealBooksKeeps ==
  ASSUME Shape, Shape', Orderly, NEW c \in Calls, CloseDealBooks(c)
  PROVE  Orderly'
<1> DEFINE d == Top(c).deal
           m == IF Top(c).at = "books" /\ Top(c).how = "tp" /\ deal[d].ledger > 0
                THEN deal[d].ledger ELSE 0
           r == Booked([deal[d] EXCEPT !.stored = deal[d].status, !.coins = @ - m])
           f == Release(d, FALSE)
           g == At(c, "released")
           t == Top(c)
<1>1. UNCHANGED bot /\ Set(d, r) /\ Await(c, "released", f)
  BY DEF CloseDealBooks
<1>2. PICK b \in {"books", "sweptBooks"} : Runs(c, "closeDeal", b)
  BY DEF CloseDealBooks
<1>3. /\ d \in Deals /\ deal[d] \in DealTypes /\ Meant(deal, t) /\ Posted(c, Len(stack[c]), t)
      /\ BooksRight(deal[d]) /\ ~Idle(c) /\ t.op = "closeDeal" /\ t.at = b /\ t.deal = d
      /\ "released" \in Points
  BY <1>2, DealOf DEF Points
<1>4. g.op = "closeDeal" /\ g.at = "released" /\ g.deal = d /\ g.how = t.how
  BY <1>2, <1>3, TopKnown
<1>5. deal[d].booked = 0 /\ deal[d].status = "closed"
  BY <1>3 DEF Meant, Closing, Booking
<1>6. r.status = "closed" /\ r.booked = 1 /\ r.profit = TRUE /\ r.tp = deal[d].tp
  <2> DEFINE e == deal[d]
  <2>1. e \in DealTypes /\ e.booked = 0 /\ e.status = "closed"
    BY <1>3, <1>5
  <2>2. m \in Int
    BY <2>1, Fields
  <2> HIDE DEF m, e
  <2>3. LET z == Booked([e EXCEPT !.stored = e.status, !.coins = @ - m])
        IN z.status = e.status /\ z.booked = e.booked + 1 /\ z.profit = TRUE /\ z.tp = e.tp
    BY <2>1, <2>2, BookedFields
  <2> QED
    BY <2>1, <2>3 DEF e
<1>7. deal'[d] = r
  BY <1>1, <1>3 DEF Shape, Set
<1>8. /\ f \in Frames /\ f.at = "begin" /\ f.op = "processDealClose" /\ f.deal = d
      /\ f.how = "release" /\ f.result = FALSE
  BY <1>3, ReleaseType DEF Release, Frame
<1> HIDE DEF r, t, f, m
<1>9. \/ t.how = "tp" /\ deal[d].tp # "none"
      \/ Orderless(t)
  BY <1>3 DEF Meant, Posted, Orderless
<1>10. BooksRight(r)
  BY <1>6 DEF BooksRight
<1>11. Posted(c, Len(stack[c]) + 1, f)
  BY <1>8 DEF Posted
<1>12. Undisturbed'
  BY <1>1, <1>2, <1>3, <1>8, <1>11, AwaitPosted DEF Orderly, Unswitched
<1>13. Moves(c, Len(stack[c]), {g}, {f})
  BY <1>1, <1>2, <1>3, <1>8, AwaitStep DEF StepDone
<1>14. Fits(c, g) /\ Fits(c, f)
  BY <1>3, <1>4, <1>8 DEF Fits, t, Opener, Canceller, Orderless, Advanced, Meant
<1>15. Meant(deal', g) /\ Meant(deal', f)
  BY <1>3, <1>4, <1>6, <1>7, <1>8, <1>9
     DEF Meant, Opener, Canceller, Orderless, Advanced, Closing, Booking
<1> HIDE DEF g
<1>16. ASSUME NEW x \in Calls, NEW q \in 1..Len(stack[x]), Stays(c, x, q), FrameNo(x, q).deal = d
       PROVE  Meant(deal', FrameNo(x, q))
  <2> DEFINE e == FrameNo(x, q)
  <2>1. Meant(deal, e) /\ ~Clash(t, e) /\ ~(x = c /\ q = Len(stack[c]))
    BY <1>3, <1>16, StaysKnown DEF t
  <2>2. e.deal = d
    BY <1>16
  <2>3. ~Closing(e)
    <3> SUFFICES ASSUME Closing(e) PROVE FALSE
      OBVIOUS
    <3>1. Head(line[ClosingKey]) = <<x, q>>
      BY ClosersHold DEF Orderly, Undisturbed
    <3>2. Head(line[ClosingKey]) = <<c, Len(stack[c])>>
      <4>1. /\ Len(stack[c]) \in 1..Len(stack[c]) /\ t = FrameNo(c, Len(stack[c]))
            /\ Closing(t)
        BY <1>3, TopKnown DEF t, Closing
      <4> QED
        BY <4>1, ClosersHold DEF Orderly, Undisturbed
    <3> QED
      BY <2>1, <3>1, <3>2
  <2> HIDE DEF e, d
  <2>4. ~Opener(e)
    BY <1>5, <2>1, <2>2 DEF Meant
  <2>5. ~Canceller(e)
    <3>1. CASE Orderless(t)
      BY <1>3, <2>1, <2>2, <3>1 DEF Clash
    <3>2. CASE deal[d].tp # "none"
      BY <2>1, <2>2, <3>2 DEF Meant, Unspent
    <3> QED
      BY <1>9, <3>1, <3>2
  <2>6. Meant(deal', e)
    BY <1>5, <1>6, <1>7, <2>1, <2>2, <2>3, <2>4, <2>5 DEF Meant
  <2> QED
    BY <2>6 DEF e
<1>17. Sane'
  <2> DEFINE gs == {g}
             new == {f}
  <2>1. /\ \A h \in gs : Fits(c, h) /\ Meant(deal', h) /\ h.at \notin {"opens", "cancels"}
        /\ \A h \in new : h.at = "begin" /\ Fits(c, h) /\ Meant(deal', h)
        /\ Moves(c, Len(stack[c]), gs, new)
    BY <1>4, <1>8, <1>13, <1>14, <1>15
  <2> HIDE DEF gs, new, d
  <2> QED
    BY <1>1, <1>3, <1>10, <1>16, <2>1, SaneSet
<1> QED
  BY <1>12, <1>17 DEF Orderly

LEMMA CloseCancelsKeeps ==
  ASSUME Shape, Shape', Orderly, NEW c \in Calls, CloseCancels(c)
  PROVE  Orderly'
<1> DEFINE d == Top(c).deal
           r == [deal[d] EXCEPT !.status = "canceled", !.stored = "canceled"]
           f == Release(d, Top(c).own)
           g == At(c, "released")
           t == Top(c)
<1>1. /\ Runs(c, "closeDealById", "cancels") /\ UNCHANGED bot /\ Await(c, "released", f)
      /\ Set(d, IF deal[d].profit THEN Booked(r) ELSE r)
  BY DEF CloseCancels
<1>2. /\ d \in Deals /\ deal[d] \in DealTypes /\ Meant(deal, t) /\ Posted(c, Len(stack[c]), t)
      /\ BooksRight(deal[d]) /\ ~Idle(c) /\ Canceller(t) /\ t.deal = d
      /\ "released" \in Points /\ t \in Frames
  BY <1>1, DealOf DEF Points, Canceller
<1>3. /\ deal[d].booked = 0 /\ deal[d].tp = "none" /\ ~deal[d].profit
      /\ deal[d].status # "none"
  BY <1>2 DEF Meant, Unspent, BooksRight
<1>4. g.op = "closeDealById" /\ g.at = "released" /\ g.deal = d
  BY <1>1, <1>2, TopKnown DEF Runs
<1>5. Set(d, r)
  BY <1>1, <1>3
<1>6. r.status = "canceled" /\ r.booked = 0 /\ ~r.profit /\ r.tp = "none"
  BY <1>2, <1>3 DEF DealTypes
<1>7. deal'[d] = r
  BY <1>2, <1>5 DEF Shape, Set
<1>8. /\ f \in Frames /\ f.at = "begin" /\ f.op = "processDealClose" /\ f.deal = d
      /\ f.how = "release" /\ f.result = FALSE
  <2>1. t.own \in BOOLEAN
    BY <1>2 DEF Frames
  <2> QED
    BY <1>2, <2>1, ReleaseType DEF Release, Frame
<1> HIDE DEF r, t, f
<1>9. BooksRight(r)
  BY <1>6 DEF BooksRight
<1>10. Posted(c, Len(stack[c]) + 1, f)
  BY <1>8 DEF Posted
<1>11. Undisturbed'
  BY <1>1, <1>2, <1>8, <1>10, AwaitPosted DEF Orderly, Unswitched
<1>12. Moves(c, Len(stack[c]), {g}, {f})
  BY <1>1, <1>2, <1>8, AwaitStep DEF StepDone
<1>13. Fits(c, g) /\ Fits(c, f)
  BY <1>4, <1>8 DEF Fits, Opener, Canceller, Orderless, Advanced
<1>14. Meant(deal', g) /\ Meant(deal', f)
  BY <1>4, <1>8 DEF Meant, Opener, Canceller, Orderless, Advanced, Closing, Booking
<1> HIDE DEF g
<1>15. ASSUME NEW x \in Calls, NEW q \in 1..Len(stack[x]), Stays(c, x, q), FrameNo(x, q).deal = d
       PROVE  Meant(deal', FrameNo(x, q))
  <2> DEFINE e == FrameNo(x, q)
  <2>1. Meant(deal, e) /\ ~Clash(t, e) /\ Posted(x, q, e)
    BY <1>2, <1>15, StaysKnown DEF t
  <2>2. e.deal = d
    BY <1>15
  <2> HIDE DEF e, d
  <2>3. ~Booking(e)
    <3> SUFFICES ASSUME Booking(e) PROVE FALSE
      OBVIOUS
    <3>1. e.op = "closeDeal" /\ e.how = "none"
      BY <1>3, <2>1, <2>2 DEF Booking, Meant, Posted
    <3> QED
      BY <1>2, <2>1, <2>2, <3>1 DEF Clash, Orderless
  <2>4. Meant(deal', e)
    BY <1>3, <1>6, <1>7, <2>1, <2>2, <2>3 DEF Meant, Unspent
  <2> QED
    BY <2>4 DEF e
<1>16. Sane'
  <2> DEFINE gs == {g}
             new == {f}
  <2>1. /\ \A h \in gs : Fits(c, h) /\ Meant(deal', h) /\ h.at \notin {"opens", "cancels"}
        /\ \A h \in new : h.at = "begin" /\ Fits(c, h) /\ Meant(deal', h)
        /\ Moves(c, Len(stack[c]), gs, new)
    BY <1>4, <1>8, <1>12, <1>13, <1>14
  <2> HIDE DEF gs, new, d
  <2> QED
    BY <1>2, <1>5, <1>9, <1>15, <2>1, SaneSet
<1> QED
  BY <1>11, <1>16 DEF Orderly

LEMMA CloseExecutesKeeps ==
  ASSUME Shape, Shape', Orderly, NEW c \in Calls, CloseExecutes(c)
  PROVE  Orderly'
<1> DEFINE d == Top(c).deal
           n == Size(d)
           r == [deal[d] EXCEPT !.tp = "done", !.coins = @ - n, !.sold = @ + n]
           f == CloseByTp(d, n)
           s == <<"sold", d>>
           spawn == Just(s, f)
           t == Top(c)
<1>1. /\ Runs(c, "closeDealById", "swept") /\ UNCHANGED bot /\ Set(d, r)
      /\ ReturnAnd(c, spawn)
  BY DEF CloseExecutes, CloseSends
<1>2. /\ d \in Deals /\ deal[d] \in DealTypes /\ Meant(deal, t) /\ Advanced(t)
      /\ BooksRight(deal[d]) /\ ~Idle(c) /\ c = <<"user", d>> /\ Len(stack[c]) = 1
      /\ t.deal = d
  BY <1>1, DealOf DEF Advanced, Posted
<1>3. n \in Int
  BY <1>2, PlacingType
<1>4. /\ f \in Frames /\ f.at = "begin" /\ f.op = "closeDeal" /\ f.deal = d
      /\ f.how = "tp" /\ f.result = FALSE
  BY <1>2, <1>3, SoldType DEF CloseByTp, Frame
<1>5. /\ r.status = deal[d].status /\ r.booked = deal[d].booked
      /\ r.profit = deal[d].profit /\ r.tp = "done"
  BY <1>2 DEF DealTypes
<1>6. deal'[d] = r
  BY <1>1, <1>2 DEF Shape, Set
<1>7. s \in Calls
  BY <1>2 DEF Calls, Direct
<1> HIDE DEF n, r, f, s, t, spawn
<1>8. Posted(s, 1, f)
  BY <1>4 DEF Posted
<1>9. PostedSpawn(spawn) /\ Spawned(spawn) = {f} /\ Spawns(spawn)
  BY <1>4, <1>7, <1>8, JustPosted, OneSpawn DEF spawn
<1>10. deal[d].status \notin {"none", "start"}
  BY <1>2 DEF Meant
<1>11. BooksRight(r)
  BY <1>2, <1>5, <1>10 DEF BooksRight
<1>12. Undisturbed'
  BY <1>1, <1>9, ReturnAndPosted DEF Orderly, Unswitched
<1>13. Moves(c, Len(stack[c]), {}, {f})
  BY <1>1, <1>9, ReturnAndStep DEF StepDone
<1>14. Fits(c, f) /\ Meant(deal', f)
  BY <1>4, <1>5, <1>6
     DEF Fits, Meant, Opener, Canceller, Orderless, Advanced, Closing, Booking
<1>15. ASSUME NEW x \in Calls, NEW q \in 1..Len(stack[x]), Stays(c, x, q), FrameNo(x, q).deal = d
       PROVE  Meant(deal', FrameNo(x, q))
  <2> DEFINE e == FrameNo(x, q)
  <2>1. Meant(deal, e) /\ ~Clash(t, e) /\ Posted(x, q, e) /\ ~(x = c /\ q = Len(stack[c]))
    BY <1>2, <1>15, StaysKnown DEF t
  <2>2. e.deal = d
    BY <1>15
  <2> HIDE DEF e, d
  <2>3. ~Opener(e)
    BY <1>2, <2>1, <2>2 DEF Clash
  <2>4. ~Canceller(e)
    BY <1>2, <2>1, <2>2 DEF Posted, Canceller
  <2>5. Meant(deal', e)
    BY <1>5, <1>6, <2>1, <2>2, <2>3, <2>4 DEF Meant
  <2> QED
    BY <2>5 DEF e
<1>16. Sane'
  <2> DEFINE gs == {}
             new == {f}
  <2>1. /\ \A h \in gs : Fits(c, h) /\ Meant(deal', h) /\ h.at \notin {"opens", "cancels"}
        /\ \A h \in new : h.at = "begin" /\ Fits(c, h) /\ Meant(deal', h)
        /\ Moves(c, Len(stack[c]), gs, new)
    BY <1>4, <1>13, <1>14
  <2> HIDE DEF gs, new, d
  <2> QED
    BY <1>1, <1>2, <1>11, <1>15, <2>1, SaneSet
<1> QED
  BY <1>12, <1>16 DEF Orderly

LEMMA PendingSwitches ==
  ASSUME Shape
  PROVE  /\ ResetPending.gone = bot.gone /\ ResetPending.afterTp = bot.afterTp
         /\ LET b == [bot EXCEPT !.pending = @ + 1]
            IN b.gone = bot.gone /\ b.afterTp = bot.afterTp
<1>1. bot \in BotTypes
  BY PendingType
<1> QED
  BY <1>1 DEF BotTypes, ResetPending

LEMMA CreateDealKeeps ==
  ASSUME Shape, Shape', Once, Orderly, NEW c \in Calls, CreateDeal(c)
  PROVE  Orderly'
<1> DEFINE d == Top(c).deal
           r == [deal[d] EXCEPT !.status = "start", !.stored = "start", !.live = TRUE]
           g == At(c, "created")
           t == Top(c)
<1>1. /\ Runs(c, "openNewDeal", "creates") /\ Goto(c, "created") /\ Set(d, r)
      /\ bot' = ResetPending
  BY DEF CreateDeal
<1>2. Unswitched
  BY <1>1, PendingSwitches DEF Unswitched
<1>3. /\ d \in Deals /\ deal[d] \in DealTypes /\ Meant(deal, t) /\ BooksRight(deal[d])
      /\ ~Idle(c) /\ t.op = "openNewDeal" /\ t.at = "creates" /\ t.deal = d
      /\ "created" \in Points
  BY <1>1, DealOf DEF Points
<1>4. g.op = "openNewDeal" /\ g.at = "created" /\ g.deal = d
  BY <1>1, <1>3, TopKnown DEF Runs
<1>5. c = <<"entry", d>> /\ Len(stack[c]) = 1
  <2>1. Entrant(c, Len(stack[c])) /\ t = FrameNo(c, Len(stack[c]))
    BY <1>3, TopKnown DEF Once
  <2> QED
    BY <1>3, <2>1 DEF Entrant
<1>6. deal[d].status = "none" /\ Unspent(deal[d])
  BY <1>3 DEF Meant, Opening, BooksRight
<1>7. /\ r.status = "start" /\ r.booked = deal[d].booked
      /\ r.profit = deal[d].profit /\ r.tp = deal[d].tp
  BY <1>3 DEF DealTypes
<1>8. deal'[d] = r
  BY <1>1, <1>3 DEF Shape, Set
<1> HIDE DEF r, t, g
<1>9. BooksRight(r)
  BY <1>3, <1>6, <1>7 DEF BooksRight, Unspent
<1>10. Undisturbed'
  BY <1>1, <1>2, <1>3, GotoPosted DEF Orderly
<1>11. Moves(c, Len(stack[c]), {g}, {})
  BY <1>1, <1>2, <1>3, GotoStep DEF StepDone, Unswitched, g
<1>12. Fits(c, g) /\ Meant(deal', g)
  BY <1>4 DEF Fits, Meant, Opener, Canceller, Orderless, Advanced, Closing, Booking, Opening
<1>13. ASSUME NEW x \in Calls, NEW q \in 1..Len(stack[x]), Stays(c, x, q), FrameNo(x, q).deal = d
       PROVE  Meant(deal', FrameNo(x, q))
  <2> DEFINE e == FrameNo(x, q)
  <2>1. Meant(deal, e) /\ ~(x = c /\ q = Len(stack[c]))
    BY <1>3, <1>13, StaysKnown
  <2>2. e.deal = d
    BY <1>13
  <2>3. e.op # "openNewDeal"
    <3>1. e.op = "openNewDeal" => x = <<"entry", e.deal>> /\ q = 1
      BY DEF Once, Entrant
    <3> HIDE DEF e
    <3> QED
      BY <1>5, <2>1, <2>2, <3>1
  <2> HIDE DEF e, d
  <2>4. Meant(deal', e)
    BY <1>6, <1>7, <1>8, <2>1, <2>2, <2>3 DEF Meant, Unspent
  <2> QED
    BY <2>4 DEF e
<1>14. Sane'
  <2> DEFINE gs == {g}
             new == {}
  <2>1. /\ \A h \in gs : Fits(c, h) /\ Meant(deal', h) /\ h.at \notin {"opens", "cancels"}
        /\ \A h \in new : h.at = "begin" /\ Fits(c, h) /\ Meant(deal', h)
        /\ Moves(c, Len(stack[c]), gs, new)
    BY <1>4, <1>11, <1>12
  <2> HIDE DEF gs, new, d
  <2> QED
    BY <1>1, <1>3, <1>9, <1>13, <2>1, SaneSet
<1> QED
  BY <1>10, <1>14 DEF Orderly

LEMMA EntryKeeps ==
  ASSUME Shape, Shape', Orderly, NEW c \in Calls,
         EntryCounts(c) \/ EntryReadsStatus(c) \/ EntryFindsDeal(c) \/ EntrySends(c)
  PROVE  Orderly'
<1> DEFINE d == Top(c).deal
<1>1. Unswitched
  BY PendingSwitches
     DEF EntryCounts, EntryReadsStatus, EntryFindsDeal, EntrySends, Unswitched
<1>2. CASE EntryCounts(c)
  <2>1. /\ Runs(c, "openNewDeal", "begin") /\ UNCHANGED deal
        /\ Goto(c, "counted") \/ Return(c, FALSE)
    BY <1>2 DEF EntryCounts
  <2>2. MayTurn(deal[d], "openNewDeal", "begin", "counted") /\ "counted" \in Points
    BY DEF MayTurn, Points, Opening
  <2> QED
    BY <1>1, <2>1, <2>2, AlikeSame, Turns, GotoKeeps, ReturnKeeps
<1>3. CASE EntryReadsStatus(c)
  <2>1. /\ Runs(c, "openNewDeal", "counted") /\ UNCHANGED deal
        /\ Goto(c, "creates") \/ Return(c, FALSE)
    BY <1>3 DEF EntryReadsStatus
  <2>2. MayTurn(deal[d], "openNewDeal", "counted", "creates") /\ "creates" \in Points
    BY DEF MayTurn, Points, Opening
  <2> QED
    BY <1>1, <2>1, <2>2, AlikeSame, Turns, GotoKeeps, ReturnKeeps
<1>4. CASE EntryFindsDeal(c)
  <2>1. /\ Runs(c, "openNewDeal", "created") /\ UNCHANGED deal
        /\ Goto(c, "sends") \/ Return(c, FALSE)
    BY <1>4 DEF EntryFindsDeal
  <2>2. MayTurn(deal[d], "openNewDeal", "created", "sends") /\ "sends" \in Points
    BY DEF MayTurn, Points, Opening
  <2> QED
    BY <1>1, <2>1, <2>2, AlikeSame, Turns, GotoKeeps, ReturnKeeps
<1>5. CASE EntrySends(c)
  <2>1. /\ Runs(c, "openNewDeal", "sends") /\ Return(c, FALSE)
        /\ Set(d, [deal[d] EXCEPT !.base = "resting"])
    BY <1>5 DEF EntrySends
  <2>2. AllAlike
    BY <2>1, DealOf, AlikeEdits, AlikeSet
  <2> QED
    BY <1>1, <2>1, <2>2, ReturnKeeps
<1> QED
  BY <1>2, <1>3, <1>4, <1>5

LEMMA ReleaseKeeps ==
  ASSUME Shape, Shape', Orderly, world.limit = 0, NEW c \in Calls,
         ReleaseBegins(c) \/ ReleaseSweeps(c) \/ ReleaseChecks(c) \/ ReleaseEnds(c)
  PROVE  Orderly'
<1> DEFINE d == Top(c).deal
<1>1. CASE ReleaseBegins(c)
  <2>1. Runs(c, "processDealClose", "begin") /\ UNCHANGED bot
    BY <1>1 DEF ReleaseBegins
  <2>2. \/ Set(d, [deal[d] EXCEPT !.closing = FALSE, !.live = FALSE, !.closes = @ + 1])
        \/ Set(d, [deal[d] EXCEPT !.closing = FALSE])
    BY <1>1 DEF ReleaseBegins
  <2>3. AllAlike
    BY <2>1, <2>2, DealOf, AlikeEdits, AlikeSet
  <2>4. Goto(c, "sweeps") \/ Return(c, FALSE)
    BY <1>1 DEF ReleaseBegins
  <2>5. MayTurn(deal[d], "processDealClose", "begin", "sweeps") /\ "sweeps" \in Points
    BY DEF MayTurn, Points
  <2> QED
    BY <2>1, <2>3, <2>4, <2>5, Turns, GotoKeeps, ReturnKeeps DEF Unswitched
<1>2. CASE ReleaseSweeps(c)
  <2>1. /\ Runs(c, "processDealClose", "sweeps") /\ UNCHANGED bot /\ Set(d, SweptDeal(deal[d]))
        /\ GotoAnd(c, "checks", Handlers(d))
    BY <1>2 DEF ReleaseSweeps
  <2>2. d \in Deals /\ deal[d] \in DealTypes
    BY <2>1, DealOf
  <2>3. AllAlike
    BY <2>1, <2>2, AlikeSwept, AlikeSet
  <2>4. MayTurn(deal[d], "processDealClose", "sweeps", "checks") /\ "checks" \in Points
    BY DEF MayTurn, Points
  <2>5. PostedSpawn(Handlers(d)) /\ \A f \in Spawned(Handlers(d)) : Modest(f)
    BY <2>2, HandlersPosted, HandlersModest
  <2> QED
    BY <2>1, <2>3, <2>4, <2>5, Turns, GotoAndKeeps DEF Unswitched
<1>3. CASE ReleaseChecks(c)
  <2> DEFINE g == [Top(c) EXCEPT !.at = "ends", !.deals = OpenDeals]
  <2>1. /\ Runs(c, "processDealClose", "checks") /\ UNCHANGED <<deal, bot>>
        /\ Step(c, <<g>> \o Tail(stack[c]), None)
    BY <1>3 DEF ReleaseChecks, StopsFromClose, LimitMet
  <2>2. OpenDeals \in SUBSET Deals /\ {} \in SUBSET Deals /\ "ends" \in Points
    BY DEF OpenDeals, Points
  <2>3. /\ Top(c) \in Frames /\ Top(c).op = "processDealClose" /\ Holds(c) /\ ~Idle(c)
        /\ Posted(c, Len(stack[c]), Top(c)) /\ Ranked(c, stack[c]) /\ Stacked
        /\ Top(c).deal \in Deals
    BY <2>1, TopPosted DEF Orderly, Runs
  <2>4. /\ g \in Frames /\ g.op = Top(c).op /\ g.key = Top(c).key /\ g.how = Top(c).how
        /\ g.at = "ends" /\ g.deal = Top(c).deal
    <3>1. g \in Frames
      BY <2>2, <2>3, SeeingType
    <3> QED
      BY <2>3, <3>1 DEF Frames
  <2>5. g.result = Top(c).result
    BY <2>3 DEF Frames
  <2> HIDE DEF g
  <2>6. Posted(c, Len(stack[c]), g)
    BY <2>3, <2>4, <2>5 DEF Posted
  <2> DEFINE frames == <<g>> \o Tail(stack[c])
  <2>7. frames \in Seq(Frames) /\ Ranked(c, frames)
    BY <2>3, <2>4, <2>6, RankedMoved
  <2>8. StepDone(c, Len(stack[c]), {g}, {})
    BY <2>1, <2>3, <2>4, NoneSpawns, MoveStep DEF Shape
  <2>9. Step(c, frames, None)
    BY <2>1
  <2> HIDE DEF frames
  <2>10. Undisturbed'
    BY <2>1, <2>3, <2>7, <2>9, NonePosted, RankedStep DEF Orderly
  <2>11. Fits(c, g) /\ Meant(deal, g)
    BY <2>3, <2>4 DEF Fits, Meant, Opener, Canceller, Orderless, Advanced, Closing, Booking
  <2>12. Sane'
    <3> DEFINE gs == {g}
               new == {}
    <3>1. /\ \A h \in gs : h.deal \in Deals /\ Fits(c, h) /\ Meant(deal, h)
          /\ \A f \in new : f.deal \in Deals /\ f.at = "begin" /\ Fits(c, f) /\ Meant(deal, f)
          /\ \A h \in gs : \A f \in new : ~Clash(h, f) /\ ~Clash(f, h)
          /\ Moves(c, Len(stack[c]), gs, new)
      BY <2>3, <2>4, <2>8, <2>11 DEF StepDone
    <3> HIDE DEF gs, new
    <3> QED
      BY <2>1, <2>3, <3>1, AlikeSame, SanePassive
  <2> QED
    BY <2>10, <2>12 DEF Orderly
<1>4. CASE ReleaseEnds(c)
  <2>1. Runs(c, "processDealClose", "ends") /\ UNCHANGED <<bot, deal>>
    BY <1>4 DEF ReleaseEnds
  <2>2. Return(c, FALSE)
    BY <1>4 DEF ReleaseEnds, Orderly, Undisturbed
  <2> QED
    BY <2>1, <2>2, AlikeSame, ReturnKeeps DEF Unswitched
<1> QED
  BY <1>1, <1>2, <1>3, <1>4

\* Nobody stops the bot.
LEMMA StopNever ==
  ASSUME Shape, Orderly, NEW c \in Calls,
         \/ StopArms(c) \/ StopCancels(c) \/ StopChooses(c) \/ StopCloses(c)
         \/ StopDrops(c) \/ StopEnds(c)
  PROVE  FALSE
<1>1. \E a : Runs(c, "stop", a)
  BY DEF StopArms, StopCancels, StopChooses, StopCloses, StopDrops, StopEnds
<1> QED
  BY <1>1, DealOf DEF Posted

LEMMA CallOrderly ==
  ASSUME Shape, Shape', Once, Orderly, world.limit = 0, NEW c \in Calls, CallNext(c)
  PROVE  Orderly'
<1>1. (StartBegins(c) \/ StartOpens(c) \/ SellRemainder(c)) => Orderly'
  BY StartKeeps, StartOpensKeeps
<1>2. (PlaceBegins(c) \/ PlaceLadder(c) \/ PlaceCancels(c) \/ PlaceSends(c)) => Orderly'
  BY PlaceKeeps, PlaceSendsKeeps
<1>3. (LevelBooks(c) \/ LevelSizes(c) \/ LevelEnds(c) \/ LevelSells(c)) => Orderly'
  BY LevelKeeps
<1>4. (CloseDealBegins(c) \/ CloseDealSettles(c) \/ CloseDealMeasures(c) \/ CloseDealCloses(c)
       \/ CloseDealBooks(c) \/ CloseDealEnds(c)) => Orderly'
  BY CloseDealKeeps, CloseDealClosesKeeps, CloseDealBooksKeeps
<1>5. (CloseBegins(c) \/ CloseCancels(c) \/ CloseReleased(c) \/ CloseStopped(c)
       \/ CloseSweeps(c)) => Orderly'
  BY RequestKeeps, CloseCancelsKeeps
<1>6. (CloseGivesWay(c) \/ CloseExecutes(c) \/ CloseWithoutOrder(c) \/ CloseRestores(c))
        => Orderly'
  BY RequestKeeps, CloseExecutesKeeps
<1>7. (ReleaseBegins(c) \/ ReleaseSweeps(c) \/ ReleaseChecks(c) \/ ReleaseEnds(c)) => Orderly'
  BY ReleaseKeeps
<1>8. (EntryCounts(c) \/ EntryReadsStatus(c) \/ CreateDeal(c) \/ EntryFindsDeal(c)
       \/ EntrySends(c)) => Orderly'
  BY EntryKeeps, CreateDealKeeps
<1> QED
  BY <1>1, <1>2, <1>3, <1>4, <1>5, <1>6, <1>7, <1>8, StopNever DEF CallNext

-----------------------------------------------------------------------------
(* Reports, requests and fills *)

\* A call begins.
LEMMA StartedKeeps ==
  ASSUME Shape, Shape', Orderly, AllAlike, Unswitched, NEW c \in Calls, Idle(c),
         NEW f \in Frames, f.at = "begin", f.op # "stop", ~Advanced(f), Meant(deal, f),
         Posted(c, 1, f), Step(c, <<f>>, None)
  PROVE  Orderly'
<1> DEFINE frames == <<f>>
<1>1. frames \in Seq(Frames) /\ Step(c, frames, None) /\ Len(frames) = 1 /\ frames[1] = f
  OBVIOUS
<1>2. Ranked(c, frames)
  <2>1. \A q \in 1..Len(frames) : q = 1 /\ Len(frames) + 1 - q = 1
    BY <1>1
  <2> QED
    BY <1>1, <2>1 DEF Ranked
<1>3. Moves(c, 1, {f}, {})
  BY StartStep DEF Shape, Orderly, Unswitched, StepDone
<1> HIDE DEF frames
<1>4. Undisturbed'
  BY <1>1, <1>2, NonePosted, RankedStep DEF Shape, Orderly, Unswitched
<1>5. ASSUME NEW x \in Calls, NEW q \in 1..Len(stack'[x])
      PROVE  \/ x = c /\ q = 1 /\ FrameNo(x, q)' = f
             \/ Left(c, x, q)
  <2> DEFINE gs == {f}
             new == {}
  <2>1. Moves(c, 1, gs, new) /\ \A g \in gs : g = f
    BY <1>3
  <2>2. Len(stack[c]) = 0
    BY DEF Idle
  <2> HIDE DEF gs
  <2>3. \/ x = c /\ q = 1 /\ FrameNo(x, q)' \in gs
        \/ /\ q \in 1..Len(stack[x])
           /\ x = c => q < 1
           /\ FrameNo(x, q)'.op = FrameNo(x, q).op
           /\ FrameNo(x, q)'.at = FrameNo(x, q).at
           /\ FrameNo(x, q)'.deal = FrameNo(x, q).deal
           /\ FrameNo(x, q)'.how = FrameNo(x, q).how
    BY <2>1, StillThere
  <2>4. (x = c /\ q \in 1..Len(stack[x])) => FALSE
    BY <2>2
  <2> QED
    BY <2>1, <2>3, <2>4 DEF Left, Stays
<1>6. ASSUME NEW h, NEW e, h.op = e.op, h.at = e.at, h.deal = e.deal, h.how = e.how
      PROVE  /\ Meant(deal', e) => Meant(deal', h)
             /\ \A g : (Clash(h, g) <=> Clash(e, g)) /\ (Clash(g, h) <=> Clash(g, e))
  BY <1>6 DEF Meant, Clash, Closing, Booking, Opener, Canceller, Orderless, Advanced
<1>7. ASSUME NEW e, e \in Frames, e.op # "stop", Meant(deal, e)
      PROVE  Meant(deal', e)
  BY <1>7, FrameDeals, AlikeMeant
<1>8. \A g : ~Clash(f, g) /\ ~Clash(g, f)
  BY DEF Clash, Opener, Canceller, Advanced
<1>9. ASSUME NEW x \in Calls, NEW q \in 1..Len(stack'[x])
      PROVE  Meant(deal', FrameNo(x, q)')
  <2>1. CASE FrameNo(x, q)' = f
    BY <1>7, <2>1
  <2>2. CASE Left(c, x, q)
    <3>1. /\ FrameNo(x, q) \in Frames /\ FrameNo(x, q).op # "stop"
          /\ Meant(deal, FrameNo(x, q))
      BY <2>2, PostedAt DEF Left, Orderly, Sane, Posted
    <3>2. Meant(deal', FrameNo(x, q))
      BY <1>7, <3>1
    <3> QED
      BY <1>6, <2>2, <3>2 DEF Left
  <2> QED
    BY <1>5, <2>1, <2>2
<1>10. ASSUME NEW x \in Calls, NEW q \in 1..Len(stack'[x]),
              NEW y \in Calls, NEW r \in 1..Len(stack'[y]),
              Clash(FrameNo(x, q)', FrameNo(y, r)')
       PROVE  x = y /\ q = r
  <2>1. Left(c, x, q) /\ Left(c, y, r)
    BY <1>5, <1>8, <1>10
  <2>2. Clash(FrameNo(x, q), FrameNo(y, r)')
    BY <1>6, <1>10, <2>1 DEF Left
  <2>3. Clash(FrameNo(x, q), FrameNo(y, r))
    BY <1>6, <2>1, <2>2 DEF Left
  <2> QED
    BY <2>1, <2>3 DEF Left, Orderly, Sane, Apart
<1>11. Apart'
  BY <1>10 DEF Apart
<1>12. \A x \in Calls : \A q \in 1..Len(stack'[x]) : Meant(deal, FrameNo(x, q))'
  BY <1>9 DEF Meant
<1>13. Sane'
  BY <1>11, <1>12, AlikeBooks DEF Sane
<1> QED
  BY <1>4, <1>13 DEF Orderly

LEMMA ReportKeeps ==
  ASSUME Shape, Shape', Orderly, NEW c \in Calls, Report(c)
  PROVE  Orderly'
<1>1. /\ Idle(c) /\ Step(c, <<Handler(c)>>, None) /\ Set(c[2], Known(c))
      /\ UNCHANGED bot /\ c \in Executed(c[2])
      /\ c[1] \in {"base", "fill"} \cup SafetyOrders
  BY DEF Report
<1>2. c \in Reports /\ c[2] \in Deals
  <2>1. c \in ({"base", "fill"} \cup SafetyOrders) \X {c[2]}
    BY <1>1 DEF Executed
  <2>2. CASE c \in Levels
    BY <2>1, <2>2 DEF Levels, Reports
  <2>3. CASE c \in {"base", "fill", "sold", "user", "entry"} \X Deals
    BY <2>1, <2>3 DEF Reports
  <2>4. c # <<"stop", 0>>
    BY <1>1, SafetyOrdersAssumption DEF CallNames
  <2>5. c \notin {After(x) : x \in Direct}
    <3> SUFFICES ASSUME NEW x \in Direct, c = After(x) PROVE FALSE
      OBVIOUS
    <3>1. x[1] # "after"
      BY DEF Direct
    <3>2. c[1] = "after"
      BY <3>1 DEF After
    <3> QED
      BY <1>1, <3>2, SafetyOrdersAssumption DEF CallNames
  <2> QED
    BY <2>2, <2>3, <2>4, <2>5 DEF Calls, Direct
<1>3. State(c) = "filled"
  BY <1>1 DEF Executed
<1>4. AllAlike
  BY <1>1, <1>2, <1>3, AlikeKnown, AlikeSet
<1> DEFINE f == Handler(c)
<1>5. f \in Frames /\ f.at = "begin" /\ Posted(c, 1, f)
  BY <1>2, HandlerType, HandlerPosted DEF Shape
<1>6. Modest(f)
  BY <1>2, <1>3, HandlerModest
<1>7. Step(c, <<f>>, None)
  BY <1>1
<1> HIDE DEF f
<1>8. f.op # "stop" /\ ~Advanced(f) /\ Meant(deal, f)
  BY <1>6, ModestFits DEF Modest, Advanced, Orderless
<1> QED
  BY <1>1, <1>4, <1>5, <1>7, <1>8, StartedKeeps DEF Unswitched

LEMMA AskKeeps ==
  ASSUME Shape, Shape', Orderly, Asks, Unstopped'
  PROVE  Orderly'
<1>1. PICK how \in Hows : \/ AskStop(how)
                          \/ \E d \in Deals : AskClose(d, how) \/ AskEntry(d)
  BY DEF Asks
<1>2. how \in Ways
  BY DEF Hows, Ways
<1>3. \A r \in asked' : r[2] # "cancel" /\ r[1] # <<"stop", 0>>
  BY DEF Unstopped, CancelAsked, Stoppable
<1>4. CASE AskStop(how)
  <2>1. <<<<"stop", 0>>, how>> \in asked'
    BY <1>4 DEF AskStop, Ask
  <2> QED
    BY <1>3, <2>1
<1>5. ASSUME NEW d \in Deals, AskClose(d, how)
      PROVE  Orderly'
  <2> DEFINE f == Frame("closeDealById", DealKey(d), d, how)
             c == <<"user", d>>
  <2>1. /\ Idle(c) /\ asked' = asked \cup {<<c, how>>} /\ Step(c, <<f>>, None)
        /\ UNCHANGED <<deal, bot>> /\ c \in Calls
    BY <1>5 DEF AskClose, Ask, Calls, Direct
  <2>2. /\ f \in Frames /\ f.at = "begin" /\ f.op = "closeDealById" /\ f.how = how
        /\ f.deal = d /\ f.key = DealKey(d) /\ f.result = FALSE
    BY <1>2, RequestType DEF Frame
  <2>3. how # "cancel"
    <3>1. <<c, how>> \in asked' /\ <<c, how>>[2] = how
      BY <2>1
    <3> HIDE DEF c
    <3> QED
      BY <1>3, <3>1
  <2>4. c = <<"user", d>>
    OBVIOUS
  <2> HIDE DEF f, c
  <2>5. Posted(c, 1, f) /\ ~Advanced(f) /\ Meant(deal, f)
    BY <2>2, <2>3, <2>4
       DEF Posted, Advanced, Orderless, Meant, Closing, Booking, Opener, Canceller
  <2> QED
    BY <2>1, <2>2, <2>5, AlikeSame, StartedKeeps DEF Unswitched
<1>6. ASSUME NEW d \in Deals, AskEntry(d)
      PROVE  Orderly'
  <2> DEFINE f == Frame("openNewDeal", NoKey, d, "entry")
             c == <<"entry", d>>
  <2>1. /\ Idle(c) /\ Step(c, <<f>>, None) /\ deal[d].status = "none"
        /\ UNCHANGED <<deal, bot>> /\ c \in Calls
    BY <1>6 DEF AskEntry, Ask, Calls, Direct
  <2>2. /\ f \in Frames /\ f.at = "begin" /\ f.op = "openNewDeal" /\ f.how = "entry"
        /\ f.deal = d /\ f.result = FALSE
    BY <1>2, RequestType DEF Frame
  <2> HIDE DEF f, c
  <2>3. Posted(c, 1, f) /\ ~Advanced(f) /\ Meant(deal, f)
    BY <2>1, <2>2
       DEF Posted, Advanced, Orderless, Meant, Closing, Booking, Opener, Canceller
  <2> QED
    BY <2>1, <2>2, <2>3, AlikeSame, StartedKeeps DEF Unswitched
<1> QED
  BY <1>1, <1>4, <1>5, <1>6

\* Steps that leave the calls alone.
LEMMA StillKeeps ==
  ASSUME Shape, Shape', Orderly, AllAlike, UNCHANGED <<bot, stack>>
  PROVE  Orderly'
<1>1. Undisturbed'
  BY DEF Orderly, Undisturbed
<1>2. ASSUME NEW x \in Calls, NEW q \in 1..Len(stack[x])
      PROVE  Meant(deal', FrameNo(x, q))
  <2>1. /\ FrameNo(x, q) \in Frames /\ FrameNo(x, q).op # "stop"
        /\ Meant(deal, FrameNo(x, q))
    BY PostedAt DEF Orderly, Sane, Posted
  <2> QED
    BY <2>1, FrameDeals, AlikeMeant
<1>3. \A x \in Calls : \A q \in 1..Len(stack'[x]) : Meant(deal, FrameNo(x, q))'
  BY <1>2 DEF FrameNo, Meant
<1>4. Apart'
  BY DEF Orderly, Sane, Apart, FrameNo
<1>5. Sane'
  BY <1>3, <1>4, AlikeBooks DEF Sane
<1> QED
  BY <1>1, <1>5 DEF Orderly

LEMMA FillsAlike ==
  ASSUME Shape, NEW d \in Deals,
         BaseFills(d) \/ TpFills(d) \/ \E s \in SafetyOrders : SafetyOrderFills(d, s)
  PROVE  AllAlike /\ UNCHANGED <<bot, stack>>
<1>1. deal[d] \in DealTypes
  BY DEF Shape
<1>2. CASE BaseFills(d)
  BY <1>1, <1>2, AlikeEdits, AlikeSet DEF BaseFills
<1>3. CASE TpFills(d)
  BY <1>1, <1>3, AlikeEdits, AlikeSet DEF TpFills
<1>4. ASSUME NEW s \in SafetyOrders, SafetyOrderFills(d, s)
      PROVE  AllAlike /\ UNCHANGED <<bot, stack>>
  <2> DEFINE r == [deal[d] EXCEPT !.so[s] = "filled", !.coins = @ + 1]
  <2>1. Set(d, r) /\ UNCHANGED <<bot, stack>>
    BY <1>4 DEF SafetyOrderFills
  <2>2. Alike(r, deal[d])
    BY <1>1 DEF Alike, DealTypes
  <2> HIDE DEF r
  <2> QED
    BY <2>1, <2>2, AlikeSet
<1> QED
  BY <1>2, <1>3, <1>4

\* What was asked stays asked.
LEMMA UnstoppedBefore ==
  ASSUME Next
  PROVE  world' = world /\ (Unstopped' => Unstopped)
<1>1. world' = world /\ asked \subseteq asked'
  <2>1. ASSUME NEW d, BaseFills(d) \/ TpFills(d) \/ \E s \in SafetyOrders : SafetyOrderFills(d, s)
        PROVE  UNCHANGED <<world, asked>>
    BY <2>1 DEF BaseFills, TpFills, SafetyOrderFills
  <2>2. ASSUME NEW c, Resume(c)
        PROVE  UNCHANGED <<world, asked>>
    BY <2>2, CallAsks DEF Resume, Report
  <2>3. ASSUME Asks
        PROVE  world' = world /\ asked \subseteq asked'
    BY <2>3 DEF Asks, AskStop, AskClose, AskEntry, Ask
  <2> QED
    BY <2>1, <2>2, <2>3 DEF Next
<1> QED
  BY <1>1 DEF Unstopped, CancelAsked, Stoppable

LEMMA NextOrderly ==
  ASSUME Shape, Shape', Once, Unstopped => Orderly, Next
  PROVE  (Unstopped => Orderly)'
<1> SUFFICES ASSUME Unstopped' PROVE Orderly'
  OBVIOUS
<1>1. Orderly /\ Unstopped
  BY UnstoppedBefore
<1>2. world.limit = 0
  <2>1. world.limit \in Nat
    BY WorldsAssumption DEF Shape
  <2>2. ~(world.limit > 0)
    BY <1>1 DEF Unstopped, Stoppable
  <2> QED
    BY <2>1, <2>2
<1>3. ASSUME NEW d \in Deals,
             BaseFills(d) \/ TpFills(d) \/ \E s \in SafetyOrders : SafetyOrderFills(d, s)
      PROVE  Orderly'
  BY <1>1, <1>3, FillsAlike, StillKeeps
<1>4. ASSUME NEW c \in Calls, Resume(c)
      PROVE  Orderly'
  BY <1>1, <1>2, <1>4, ReportKeeps, CallOrderly DEF Resume
<1> QED
  BY <1>1, <1>3, <1>4, AskKeeps DEF Next

LEMMA InitOrderly == Init => Orderly
<1> SUFFICES ASSUME Init PROVE Orderly
  OBVIOUS
<1>1. /\ world \in Worlds /\ deal = [d \in Deals |-> NewDeal(world.deals[d])]
      /\ ~bot.gone /\ ~bot.afterTp /\ stack = [c \in Calls |-> << >>]
  BY DEF Init
<1>2. \A d \in Deals : /\ deal[d].status = world.deals[d] /\ deal[d].booked = 0
                       /\ ~deal[d].profit
                       /\ deal[d].tp = IF world.deals[d] = "open" THEN "resting" ELSE "none"
  BY <1>1 DEF NewDeal
<1>3. \A d \in Deals : BooksRight(deal[d])
  BY <1>2 DEF BooksRight, Unspent
<1>4. \A x \in Calls : 1..Len(stack[x]) = {}
  BY <1>1
<1> QED
  BY <1>1, <1>3, <1>4 DEF Orderly, Undisturbed, Sane, Apart, Ranked

LEMMA OrderlyHolds == Spec => [](Unstopped => Orderly)
<1>1. Init => (Unstopped => Orderly)
  BY InitOrderly
<1>2. /\ Shape /\ Once /\ Shape' /\ (Unstopped => Orderly) /\ [Next]_dealVars
      => (Unstopped => Orderly)'
  <2> SUFFICES ASSUME Shape, Once, Shape', Unstopped => Orderly, [Next]_dealVars
               PROVE  (Unstopped => Orderly)'
    OBVIOUS
  <2>1. CASE Next
    BY <2>1, NextOrderly
  <2>2. CASE UNCHANGED dealVars
    <3>1. ASSUME Orderly PROVE Orderly'
      BY <2>2, <3>1, AlikeSame, StillKeeps DEF dealVars
    <3>2. Unstopped' => Unstopped
      BY <2>2 DEF dealVars, Unstopped, CancelAsked, Stoppable
    <3> QED
      BY <3>1, <3>2
  <2> QED
    BY <2>1, <2>2
<1> QED
  BY <1>1, <1>2, ShapeHolds, PTL DEF Spec

(***************************************************************************)
(* The profit of a deal is booked once, that of a deal that was still      *)
(* waiting for its base order when it was asked to close included: nobody  *)
(* cancels what is being closed, since the cancel acts on a look at a deal *)
(* without a take profit, and each close of the deal looks at its status   *)
(* after the one before it is done.                                        *)
(***************************************************************************)
THEOREM BookedOnceAlways == Spec => []BookedOnce
<1>1. Steady /\ (Unstopped => Orderly) => BookedOnce
  <2> SUFFICES ASSUME Steady, Unstopped => Orderly, ~MayCancel, NEW d \in Deals
               PROVE  deal[d].booked <= 1
    BY DEF BookedOnce
  <2>1. CASE Calm
    BY <2>1 DEF Steady, Settled, SettledDeals
  <2>2. CASE ~Calm
    <3>1. Unstopped
      BY <2>2 DEF MayCancel, Unstopped, Calm
    <3> QED
      BY <3>1 DEF Orderly, Sane, BooksRight
  <2> QED
    BY <2>1, <2>2
<1> QED
  BY <1>1, SteadyHolds, OrderlyHolds, PTL

-----------------------------------------------------------------------------
(* Who brought the deals that are in memory *)

EntryAsked(d) == <<<<"entry", d>>, "entry">> \in asked

\* A deal was there from the start or a signal asked for it; a signal stops nothing.
Brought == /\ \A d \in Deals :
                /\ deal[d].live => world.deals[d] # "none" \/ EntryAsked(d)
                /\ stack[<<"entry", d>>] # << >> => EntryAsked(d)
           /\ \A r \in asked : r[2] = "entry" => r[1] # <<"stop", 0>>

NotEntry(spawn) == \A x \in DOMAIN spawn : x[1] # "entry"

\* A step of call c that starts no entry.
Keeping(c) == \A d \in Deals : <<"entry", d>> # c => stack'[<<"entry", d>>] = stack[<<"entry", d>>]

LEMMA StepKeeping ==
  ASSUME NEW c, NEW frames, NEW spawn, NotEntry(spawn), Step(c, frames, spawn)
  PROVE  Keeping(c)
<1> SUFFICES ASSUME NEW d \in Deals, <<"entry", d>> # c
             PROVE  stack'[<<"entry", d>>] = stack[<<"entry", d>>]
  BY DEF Keeping
<1> DEFINE e == <<"entry", d>>
<1>1. e \in Calls /\ e # c
  BY DEF Calls, Direct
<1>2. e[1] = "entry"
  OBVIOUS
<1> HIDE DEF e
<1>3. e \notin DOMAIN spawn
  BY <1>2 DEF NotEntry
<1>4. stack'[e] = stack[e]
  BY <1>1, <1>3 DEF Step
<1> QED
  BY <1>4 DEF e

LEMMA JustNotEntry ==
  ASSUME NEW x, x[1] # "entry", NEW f
  PROVE  NotEntry(Just(x, f))
<1>1. DOMAIN Just(x, f) = {x}
  BY DEF Just
<1> QED
  BY <1>1 DEF NotEntry

LEMMA SpawnsNotEntry ==
  /\ NotEntry(None)
  /\ \A d : NotEntry(Handlers(d))
  /\ \A c, f : NotEntry(Just(After(c), f))
  /\ \A d, f : NotEntry(Just(<<"fill", d>>, f)) /\ NotEntry(Just(<<"sold", d>>, f))
<1>1. NotEntry(None)
  BY DEF NotEntry, None
<1>2. ASSUME NEW d PROVE NotEntry(Handlers(d))
  <2>1. DOMAIN Handlers(d) = Executed(d)
    BY DEF Handlers
  <2>2. \A x \in Executed(d) : x[1] \in {"base", "fill"} \cup SafetyOrders
    BY DEF Executed
  <2> QED
    BY <2>1, <2>2, SafetyOrdersAssumption DEF NotEntry, CallNames
<1>3. ASSUME NEW c, NEW f PROVE NotEntry(Just(After(c), f))
  <2>1. After(c)[1] # "entry"
    BY DEF After
  <2> QED
    BY <2>1, JustNotEntry
<1>4. ASSUME NEW d, NEW f
      PROVE  NotEntry(Just(<<"fill", d>>, f)) /\ NotEntry(Just(<<"sold", d>>, f))
  <2>1. <<"fill", d>>[1] # "entry" /\ <<"sold", d>>[1] # "entry"
    OBVIOUS
  <2> QED
    BY <2>1, JustNotEntry
<1> QED
  BY <1>1, <1>2, <1>3, <1>4

LEMMA MovesKeeping ==
  ASSUME NEW c
  PROVE  /\ \A a : Goto(c, a) => Keeping(c)
         /\ \A a, d : GotoAnd(c, a, Handlers(d)) => Keeping(c)
         /\ \A a, f : Await(c, a, f) => Keeping(c)
         /\ \A v : Return(c, v) => Keeping(c)
         /\ \A f : ReturnAnd(c, Just(After(c), f)) => Keeping(c)
         /\ \A d, f : ReturnAnd(c, Just(<<"fill", d>>, f)) => Keeping(c)
         /\ \A d, f : ReturnAnd(c, Just(<<"sold", d>>, f)) => Keeping(c)
         /\ \A frames : Step(c, frames, None) => Keeping(c)
BY StepKeeping, SpawnsNotEntry DEF Goto, GotoAnd, Await, Return, ReturnAnd

LEMMA CallKeeping ==
  ASSUME Shape, NEW c \in Calls, CallNext(c)
  PROVE  Keeping(c)
<1>1. (StartBegins(c) \/ StartOpens(c) \/ SellRemainder(c)) => Keeping(c)
  BY MovesKeeping DEF StartBegins, StartOpens, SellRemainder
<1>2. (PlaceBegins(c) \/ PlaceLadder(c) \/ PlaceCancels(c) \/ PlaceSends(c)) => Keeping(c)
  BY MovesKeeping DEF PlaceBegins, PlaceLadder, PlaceCancels, PlaceSends
<1>3. (LevelBooks(c) \/ LevelSizes(c) \/ LevelEnds(c) \/ LevelSells(c)) => Keeping(c)
  BY MovesKeeping DEF LevelBooks, LevelSizes, LevelEnds, LevelSells
<1>4. (CloseDealBegins(c) \/ CloseDealSettles(c) \/ CloseDealMeasures(c) \/ CloseDealCloses(c)
       \/ CloseDealBooks(c) \/ CloseDealEnds(c)) => Keeping(c)
  BY MovesKeeping DEF CloseDealBegins, CloseDealSettles, CloseDealMeasures, CloseDealCloses,
         CloseDealBooks, CloseDealEnds
<1>5. (CloseBegins(c) \/ CloseCancels(c) \/ CloseReleased(c) \/ CloseStopped(c)
       \/ CloseSweeps(c)) => Keeping(c)
  BY MovesKeeping DEF CloseBegins, CloseCancels, CloseReleased, CloseStopped, CloseSweeps
<1>6. (CloseGivesWay(c) \/ CloseExecutes(c) \/ CloseWithoutOrder(c) \/ CloseRestores(c))
        => Keeping(c)
  BY MovesKeeping DEF CloseGivesWay, CloseExecutes, CloseWithoutOrder, CloseRestores
<1>7. (ReleaseBegins(c) \/ ReleaseSweeps(c) \/ ReleaseChecks(c) \/ ReleaseEnds(c)) => Keeping(c)
  BY MovesKeeping DEF ReleaseBegins, ReleaseSweeps, ReleaseChecks, ReleaseEnds
<1>8. (StopArms(c) \/ StopCancels(c) \/ StopChooses(c) \/ StopCloses(c) \/ StopDrops(c))
        => Keeping(c)
  BY MovesKeeping DEF StopArms, StopCancels, StopChooses, StopCloses, StopDrops, StopAwaits
<1>9. StopEnds(c) => Keeping(c)
  <2> SUFFICES ASSUME StopEnds(c), NEW d \in Deals, <<"entry", d>> # c
               PROVE  stack'[<<"entry", d>>] = stack[<<"entry", d>>]
    BY DEF Keeping
  <2> DEFINE e == <<"entry", d>>
  <2>1. e \in Calls /\ e # c
    BY DEF Calls, Direct
  <2>2. stack' = [stack EXCEPT ![c] = Returned(c, FALSE)] /\ DOMAIN stack = Calls
    BY DEF StopEnds, Shape, Stacked
  <2> HIDE DEF e
  <2>3. stack'[e] = stack[e]
    BY <2>1, <2>2
  <2> QED
    BY <2>3 DEF e
<1>10. (EntryCounts(c) \/ EntryReadsStatus(c) \/ CreateDeal(c) \/ EntryFindsDeal(c)
        \/ EntrySends(c)) => Keeping(c)
  BY MovesKeeping DEF EntryCounts, EntryReadsStatus, CreateDeal, EntryFindsDeal, EntrySends
<1> QED
  BY <1>1, <1>2, <1>3, <1>4, <1>5, <1>6, <1>7, <1>8, <1>9, <1>10 DEF CallNext

\* No deal comes to memory but by CreateDeal.
NoneAppears == \A d \in Deals : deal'[d].live => deal[d].live

LEMMA CallAppears ==
  ASSUME Shape, NEW c \in Calls, CallNext(c), ~CreateDeal(c)
  PROVE  NoneAppears
<1>0. /\ Quietly => NoneAppears
      /\ \A d : (OthersKept(d) /\ (deal'[d].live => deal[d].live)) => NoneAppears
  BY DEF Quietly, OthersKept, SameBooks, NoneAppears
<1>1. (StartBegins(c) \/ StartOpens(c) \/ SellRemainder(c)) => NoneAppears
  BY <1>0, StartBeginsDoes, StartOpensDoes, SellRemainderDoes
<1>2. (PlaceBegins(c) \/ PlaceLadder(c) \/ PlaceCancels(c) \/ PlaceSends(c)) => NoneAppears
  BY <1>0, PlaceBeginsDoes, PlaceLadderDoes, PlaceCancelsDoes, PlaceSendsDoes
<1>3. (LevelBooks(c) \/ LevelSizes(c) \/ LevelEnds(c) \/ LevelSells(c)) => NoneAppears
  BY <1>0, LevelBooksDoes, LevelSizesDoes, LevelEndsDoes, LevelSellsDoes
<1>4. (CloseDealBegins(c) \/ CloseDealSettles(c) \/ CloseDealMeasures(c) \/ CloseDealCloses(c)
       \/ CloseDealBooks(c) \/ CloseDealEnds(c)) => NoneAppears
  BY <1>0, CloseDealBeginsDoes, CloseDealSettlesDoes, CloseDealMeasuresDoes,
         CloseDealClosesDoes, CloseDealBooksDoes, CloseDealEndsDoes
<1>5. (CloseBegins(c) \/ CloseCancels(c) \/ CloseReleased(c) \/ CloseStopped(c)
       \/ CloseSweeps(c)) => NoneAppears
  BY <1>0, CloseBeginsDoes, CloseCancelsDoes, CloseReleasedDoes, CloseStoppedDoes,
     CloseSweepsDoes
<1>6. (CloseGivesWay(c) \/ CloseExecutes(c) \/ CloseWithoutOrder(c) \/ CloseRestores(c))
        => NoneAppears
  BY <1>0, CloseGivesWayDoes, CloseExecutesDoes, CloseWithoutOrderDoes, CloseRestoresDoes
<1>7. (ReleaseBegins(c) \/ ReleaseSweeps(c) \/ ReleaseChecks(c) \/ ReleaseEnds(c)) => NoneAppears
  BY <1>0, ReleaseBeginsDoes, ReleaseSweepsDoes, ReleaseChecksDoes, ReleaseEndsDoes
<1>8. (StopArms(c) \/ StopCancels(c) \/ StopChooses(c) \/ StopCloses(c) \/ StopDrops(c)
       \/ StopEnds(c)) => NoneAppears
  BY <1>0, StopArmsDoes, StopCancelsDoes, StopChoosesDoes, StopClosesDoes, StopDropsDoes,
     StopEndsDoes DEF NoneAppears
<1>9. (EntryCounts(c) \/ EntryReadsStatus(c) \/ EntryFindsDeal(c) \/ EntrySends(c))
        => NoneAppears
  BY <1>0, EntryCountsDoes, EntryReadsStatusDoes, EntryFindsDealDoes, EntrySendsDoes
<1> QED
  BY <1>1, <1>2, <1>3, <1>4, <1>5, <1>6, <1>7, <1>8, <1>9 DEF CallNext

LEMMA CallBrought ==
  ASSUME Shape, Once, Brought, NEW c \in Calls, ~Idle(c), CallNext(c)
  PROVE  Brought'
<1>1. UNCHANGED <<world, asked>> /\ Keeping(c)
  BY CallAsks, CallKeeping
<1>2. ASSUME NEW d \in Deals, stack'[<<"entry", d>>] # << >>
      PROVE  EntryAsked(d)
  <2>1. CASE <<"entry", d>> = c
    BY <2>1 DEF Brought, Idle
  <2>2. CASE <<"entry", d>> # c
    BY <1>1, <1>2, <2>2 DEF Brought, Keeping
  <2> QED
    BY <2>1, <2>2
<1>3. ASSUME NEW d \in Deals, deal'[d].live
      PROVE  world.deals[d] # "none" \/ EntryAsked(d)
  <2>1. CASE CreateDeal(c)
    <3>1. Runs(c, "openNewDeal", "creates") /\ Set(Top(c).deal, [deal[Top(c).deal] EXCEPT
            !.status = "start", !.stored = "start", !.live = TRUE])
      BY <2>1 DEF CreateDeal
    <3>2. /\ Top(c) = FrameNo(c, Len(stack[c])) /\ Len(stack[c]) \in 1..Len(stack[c])
          /\ Top(c).op = "openNewDeal"
      BY <3>1, RunsTop
    <3>3. c = <<"entry", Top(c).deal>>
      BY <3>2 DEF Once, Entrant
    <3>4. CASE d = Top(c).deal
      BY <3>3, <3>4 DEF Brought, Idle
    <3>5. CASE d # Top(c).deal
      BY <1>3, <3>1, <3>5 DEF Set, Shape, Brought
    <3> QED
      BY <3>4, <3>5
  <2>2. CASE ~CreateDeal(c)
    BY <1>3, <2>2, CallAppears DEF NoneAppears, Brought
  <2> QED
    BY <2>1, <2>2
<1> QED
  BY <1>1, <1>2, <1>3 DEF Brought, EntryAsked

LEMMA AskBrought ==
  ASSUME Shape, Brought, Asks
  PROVE  Brought'
<1>1. PICK how \in Hows : \/ AskStop(how)
                          \/ \E d \in Deals : AskClose(d, how) \/ AskEntry(d)
  BY DEF Asks
<1>2. ASSUME NEW c \in Calls, NEW way, NEW f, Ask(c, way, f),
             (way = "entry" => c # <<"stop", 0>>),
             \A d \in Deals : c = <<"entry", d>> => way = "entry"
      PROVE  Brought'
  <2>1. /\ Step(c, <<f>>, None) /\ asked' = asked \cup {<<c, way>>} /\ UNCHANGED <<world, deal>>
    BY <1>2 DEF Ask
  <2>2. Keeping(c)
    BY <2>1, MovesKeeping
  <2>3. ASSUME NEW d \in Deals, stack'[<<"entry", d>>] # << >>
        PROVE  EntryAsked(d)'
    <3>1. CASE <<"entry", d>> = c
      BY <1>2, <2>1, <3>1 DEF EntryAsked
    <3>2. CASE <<"entry", d>> # c
      BY <2>1, <2>2, <2>3, <3>2 DEF EntryAsked, Brought, Keeping
    <3> QED
      BY <3>1, <3>2
  <2>4. \A d \in Deals : deal'[d].live => world'.deals[d] # "none" \/ EntryAsked(d)'
    BY <2>1 DEF Brought, EntryAsked
  <2>5. \A r \in asked' : r[2] = "entry" => r[1] # <<"stop", 0>>
    <3>1. ASSUME NEW r \in {<<c, way>>} PROVE r[2] = "entry" => r[1] # <<"stop", 0>>
      BY <1>2, <3>1
    <3> QED
      BY <2>1, <3>1 DEF Brought
  <2> QED
    BY <2>3, <2>4, <2>5 DEF Brought
<1>3. how # "entry"
  BY DEF Hows
<1>4. CASE AskStop(how)
  <2> DEFINE c == <<"stop", 0>>
             f == StopFrame(how)
  <2>1. /\ c \in Calls /\ Ask(c, how, f)
        /\ \A d \in Deals : c # <<"entry", d>>
    BY <1>4 DEF AskStop, Calls, Direct
  <2> HIDE DEF c, f
  <2> QED
    BY <1>2, <1>3, <2>1
<1>5. ASSUME NEW d \in Deals, AskClose(d, how)
      PROVE  Brought'
  <2> DEFINE c == <<"user", d>>
             f == Frame("closeDealById", DealKey(d), d, how)
  <2>1. /\ c \in Calls /\ Ask(c, how, f)
        /\ \A e \in Deals : c # <<"entry", e>>
    BY <1>5 DEF AskClose, Calls, Direct
  <2> HIDE DEF c, f
  <2> QED
    BY <1>2, <1>3, <2>1
<1>6. ASSUME NEW d \in Deals, AskEntry(d)
      PROVE  Brought'
  <2> DEFINE c == <<"entry", d>>
             f == Frame("openNewDeal", NoKey, d, "entry")
             way == "entry"
  <2>1. /\ c \in Calls /\ Ask(c, way, f) /\ c # <<"stop", 0>> /\ way = "entry"
    BY <1>6 DEF AskEntry, Calls, Direct
  <2> HIDE DEF c, f, way
  <2> QED
    BY <1>2, <2>1
<1> QED
  BY <1>1, <1>4, <1>5, <1>6

LEMMA NextBrought ==
  ASSUME Shape, Once, Brought, Next
  PROVE  Brought'
<1>1. ASSUME NEW d \in Deals,
             BaseFills(d) \/ TpFills(d) \/ \E s \in SafetyOrders : SafetyOrderFills(d, s)
      PROVE  Brought'
  <2>1. UNCHANGED <<world, asked, stack>>
    BY <1>1 DEF BaseFills, TpFills, SafetyOrderFills
  <2>2. Quietly
    BY <1>1, BaseFillsDoes, TpFillsDoes, SafetyOrderFillsDoes
  <2> QED
    BY <2>1, <2>2 DEF Brought, EntryAsked, Quietly, SameBooks
<1>2. ASSUME NEW c \in Calls, Report(c)
      PROVE  Brought'
  <2>1. /\ UNCHANGED <<world, asked>> /\ Step(c, <<Handler(c)>>, None)
        /\ c[1] \in {"base", "fill"} \cup SafetyOrders
    BY <1>2 DEF Report
  <2>2. Quietly
    BY <1>2, ReportDoes
  <2>3. Keeping(c)
    BY <2>1, MovesKeeping
  <2>4. c[1] # "entry"
    BY <2>1, SafetyOrdersAssumption DEF CallNames
  <2>5. \A d \in Deals : c # <<"entry", d>>
    BY <2>4
  <2> QED
    BY <2>1, <2>2, <2>3, <2>5 DEF Brought, EntryAsked, Quietly, SameBooks, Keeping
<1>3. ASSUME NEW c \in Calls, Resume(c)
      PROVE  Brought'
  BY <1>2, <1>3, CallBrought DEF Resume
<1> QED
  BY <1>1, <1>3, AskBrought DEF Next

LEMMA BroughtHolds == Spec => []Brought
<1>1. Init => Brought
  <2> SUFFICES ASSUME Init PROVE Brought
    OBVIOUS
  <2>1. /\ deal = [d \in Deals |-> NewDeal(world.deals[d])]
        /\ asked = {} /\ stack = [c \in Calls |-> << >>]
    BY DEF Init
  <2>2. \A d \in Deals : deal[d].live = (world.deals[d] # "none")
    BY <2>1 DEF NewDeal
  <2>3. \A d \in Deals : stack[<<"entry", d>>] = << >>
    BY <2>1 DEF Calls, Direct
  <2> QED
    BY <2>1, <2>2, <2>3 DEF Brought
<1>2. Shape /\ Once /\ Brought /\ [Next]_dealVars => Brought'
  <2>1. Shape /\ Once /\ Brought /\ Next => Brought'
    BY NextBrought
  <2>2. Brought /\ UNCHANGED dealVars => Brought'
    BY DEF dealVars, Brought, EntryAsked
  <2> QED
    BY <2>1, <2>2
<1> QED
  BY <1>1, <1>2, ShapeHolds, PTL DEF Spec

\* Without a deal that starts, the deals in memory are those of the beginning.
LEMMA FirstDeals ==
  ASSUME Shape, Brought, ~SomeStart
  PROVE  Cardinality(OpenDeals) <= world.max
<1> DEFINE S == {d \in 1..N : world.deals[d] # "none"}
<1>1. OpenDeals \subseteq S
  BY DEF OpenDeals, Brought, EntryAsked, SomeStart, Deals
<1>2. IsFiniteSet(Deals) /\ S \subseteq Deals
  BY DealsFinite DEF Deals
<1>3. IsFiniteSet(S)
  BY <1>2, FS_Subset
<1>4. Cardinality(S) <= world.max /\ world.max \in Nat
  BY WorldsAssumption DEF Shape
<1>5. Cardinality(OpenDeals) <= Cardinality(S)
  BY <1>1, <1>3, FS_Subset
<1>6. Cardinality(S) \in Nat /\ Cardinality(OpenDeals) \in Nat
  BY <1>3, FS_CardinalityType, DealsFinite
<1> QED
  BY <1>4, <1>5, <1>6

-----------------------------------------------------------------------------
(* How many deals are open when nobody asks for more than to open deals *)

\* What a method has seen of its deal.
Entered(D, f) ==
    LET r == D[f.deal]
    IN /\ f.op # "closeDealById"
       /\ f.op = "processDealClose" => r.status = "closed"
       /\ f.op = "startDeal" => r.base = "done"
       /\ f.op = "openNewDeal" => r.base = "none"
       /\ (f.op = "openNewDeal" /\ f.at \in {"created", "sends"})
             => r.live /\ r.status = "start"

\* Deals that are counted and not yet created.
Counted(f) == f.op = "openNewDeal" /\ f.at \in {"counted", "creates"}
Entering == {d \in Deals : \E x \in Calls : \E q \in 1..Len(stack[x]) :
                Counted(FrameNo(x, q)) /\ FrameNo(x, q).deal = d}

Few == /\ \A d \in Deals : /\ deal[d].status # "canceled"
                           /\ deal[d].status = "none" => deal[d].base = "none"
       /\ \A x \in Calls : \A q \in 1..Len(stack[x]) : Entered(deal, FrameNo(x, q))
       /\ Cardinality(OpenDeals) + Cardinality(Entering) <= world.max
       /\ Cardinality(Entering) <= bot.pending

\* What a step may do to a deal that it does not open.
Running(r) == r.live /\ r.status \in {"start", "open"}
Gentle(r, e) ==
    /\ (r.base = "none") <=> (e.base = "none")
    /\ e.base = "done" => r.base = "done"
    /\ r.status = "none" => e.status = "none"
    /\ e.status = "closed" => r.status = "closed"
    /\ e.status # "canceled" => r.status # "canceled"
    /\ Running(r) => Running(e)
    /\ (e.base = "none" /\ e.live /\ e.status = "start") => r.live /\ r.status = "start"
AllGentle == \A d \in Deals : Gentle(deal'[d], deal[d])

LEMMA GentleEntered ==
  ASSUME AllGentle, NEW f, f.deal \in Deals, Entered(deal, f)
  PROVE  Entered(deal', f)
BY DEF AllGentle, Gentle, Entered

LEMMA CountsFinite ==
  /\ IsFiniteSet(OpenDeals) /\ IsFiniteSet(Entering)
  /\ Cardinality(OpenDeals) \in Nat /\ Cardinality(Entering) \in Nat
<1>1. IsFiniteSet(Deals) /\ OpenDeals \subseteq Deals /\ Entering \subseteq Deals
  BY DealsFinite DEF OpenDeals, Entering
<1>2. IsFiniteSet(OpenDeals) /\ IsFiniteSet(Entering)
  BY <1>1, FS_Subset
<1> QED
  BY <1>2, FS_CardinalityType

LEMMA CountsFiniteNext ==
  /\ IsFiniteSet(OpenDeals') /\ IsFiniteSet(Entering')
  /\ Cardinality(OpenDeals') \in Nat /\ Cardinality(Entering') \in Nat
<1>1. IsFiniteSet(Deals) /\ OpenDeals' \subseteq Deals /\ Entering' \subseteq Deals
  BY DealsFinite DEF OpenDeals, Entering
<1>2. IsFiniteSet(OpenDeals') /\ IsFiniteSet(Entering')
  BY <1>1, FS_Subset
<1> QED
  BY <1>2, FS_CardinalityType

\* A frame that is there after a step, and what it says, comes from one of three.
LEMMA EnteredMoved ==
  ASSUME Shape, Shape', Orderly', NEW c, NEW p, NEW gs, NEW new, Moves(c, p, gs, new),
         \A x \in Calls : \A q \in 1..Len(stack[x]) :
            (x = c => q < p) => Entered(deal', FrameNo(x, q)),
         \A g \in gs : Entered(deal', g),
         \A f \in new : Entered(deal', f)
  PROVE  \A x \in Calls : \A q \in 1..Len(stack'[x]) : Entered(deal, FrameNo(x, q))'
<1> SUFFICES ASSUME NEW x \in Calls, NEW q \in 1..Len(stack'[x])
             PROVE  Entered(deal', FrameNo(x, q)')
  BY DEF Entered
<1> DEFINE f == FrameNo(x, q)'
           e == FrameNo(x, q)
<1>1. \/ f \in new \/ f \in gs
      \/ /\ q \in 1..Len(stack[x]) /\ (x = c => q < p)
         /\ f.op = e.op /\ f.at = e.at /\ f.deal = e.deal
  BY StillThere
<1>2. q \in 1..Len(stack[x]) /\ (x = c => q < p) => Entered(deal', e)
  OBVIOUS
<1> HIDE DEF f, e
<1>3. Entered(deal', f)
  BY <1>1, <1>2 DEF Entered
<1> QED
  BY <1>3 DEF f

(***************************************************************************)
(* A step that opens no deal and in which no entry goes on.                *)
(***************************************************************************)
LEMMA FewMoved ==
  ASSUME Shape, Shape', Orderly, Orderly', Few, AllGentle, world' = world,
         bot'.pending = bot.pending, NEW c, NEW p, NEW gs, NEW new, Moves(c, p, gs, new),
         \A g \in gs : Entered(deal', g) /\ ~Counted(g),
         \A f \in new : Entered(deal', f) /\ ~Counted(f)
  PROVE  Few'
<1>1. ASSUME NEW x \in Calls, NEW q \in 1..Len(stack[x])
      PROVE  Entered(deal', FrameNo(x, q))
  <2>1. FrameNo(x, q).deal \in Deals
    BY PostedAt, FrameDeals DEF Orderly, Posted
  <2> QED
    BY <2>1, GentleEntered DEF Few
<1>2. \A x \in Calls : \A q \in 1..Len(stack'[x]) : Entered(deal, FrameNo(x, q))'
  BY <1>1, EnteredMoved
<1>3. OpenDeals' \subseteq OpenDeals
  BY DEF OpenDeals, AllGentle, Gentle, Running
<1>4. Entering' \subseteq Entering
  <2> SUFFICES ASSUME NEW x \in Calls, NEW q \in 1..Len(stack'[x]), Counted(FrameNo(x, q)')
               PROVE  /\ q \in 1..Len(stack[x]) /\ Counted(FrameNo(x, q))
                      /\ FrameNo(x, q)'.deal = FrameNo(x, q).deal
    BY DEF Entering, Counted
  <2> DEFINE f == FrameNo(x, q)'
             e == FrameNo(x, q)
  <2>1. \/ f \in new \/ f \in gs
        \/ q \in 1..Len(stack[x]) /\ f.op = e.op /\ f.at = e.at /\ f.deal = e.deal
    BY StillThere
  <2> HIDE DEF f, e
  <2>2. Counted(f)
    BY DEF f
  <2>3. q \in 1..Len(stack[x]) /\ Counted(e) /\ f.deal = e.deal
    BY <2>1, <2>2 DEF Counted
  <2> QED
    BY <2>3 DEF f, e
<1>5. /\ Cardinality(OpenDeals') <= Cardinality(OpenDeals)
      /\ Cardinality(Entering') <= Cardinality(Entering)
  BY <1>3, <1>4, CountsFinite, FS_Subset
<1>6. /\ Cardinality(OpenDeals') + Cardinality(Entering') <= world.max
      /\ Cardinality(Entering') <= bot.pending
  <2>1. world.max \in Nat /\ bot.pending \in Nat
    BY PendingType DEF BotTypes
  <2> QED
    BY <1>5, <2>1, CountsFinite, CountsFiniteNext DEF Few
<1>7. \A d \in Deals : /\ deal'[d].status # "canceled"
                       /\ deal'[d].status = "none" => deal'[d].base = "none"
  BY DEF Few, AllGentle, Gentle
<1> QED
  BY <1>2, <1>6, <1>7 DEF Few

\* The base order of a deal is placed once, and stays done.
Based(r, e) == /\ (r.base = "none") <=> (e.base = "none")
               /\ e.base = "done" => r.base = "done"
AllBased == \A d \in Deals : Based(deal'[d], deal[d])

LEMMA QuietlyGentle ==
  ASSUME Quietly, AllBased
  PROVE  AllGentle
BY DEF Quietly, SameBooks, AllBased, Based, AllGentle, Gentle, Running

LEMMA BasedSame ==
  ASSUME UNCHANGED deal
  PROVE  AllBased
BY DEF AllBased, Based

LEMMA BasedSet ==
  ASSUME Shape, NEW d \in Deals, NEW r, Set(d, r), Based(r, deal[d])
  PROVE  AllBased
BY DEF Shape, Set, AllBased, Based

LEMMA BasedEdits ==
  ASSUME NEW e \in DealTypes, NEW n, NEW m, NEW k
  PROVE  /\ Based(e, e)
         /\ Based([e EXCEPT !.coins = n], e) /\ Based([e EXCEPT !.so = n], e)
         /\ Based([e EXCEPT !.ledger = n], e) /\ Based([e EXCEPT !.closing = n], e)
         /\ Based([e EXCEPT !.so = n, !.coins = m], e)
         /\ Based([e EXCEPT !.closing = FALSE, !.live = FALSE, !.closes = n], e)
         /\ Based([e EXCEPT !.tp = n], e) /\ Based([e EXCEPT !.tp = n, !.tpQty = m], e)
         /\ Based([e EXCEPT !.tp = n, !.coins = m], e)
         /\ Based([e EXCEPT !.tp = n, !.sold = m], e)
         /\ Based([e EXCEPT !.status = n, !.stored = m, !.ledger = k], e)
         /\ Based([e EXCEPT !.status = n, !.ledger = m], e)
         /\ Based([e EXCEPT !.status = n, !.stored = m, !.live = k], e)
         /\ Based(Booked([e EXCEPT !.stored = n, !.coins = m]), e)
BY DEF Based, DealTypes, Booked

LEMMA BasedLadder ==
  ASSUME NEW e \in DealTypes
  PROVE  Based(WithoutLadder(e), e)
BY BasedEdits DEF WithoutLadder

LEMMA BasedKnown ==
  ASSUME Shape, NEW c \in Reports, State(c) = "filled"
  PROVE  /\ Based(Known(c), deal[c[2]])
         /\ c[1] = "base" => Known(c).base = "done"
<1> DEFINE e == deal[c[2]]
<1>1. e \in DealTypes /\ (c[1] = "base" => e.base = "filled")
  BY DEF Shape, Reports, State
<1>2. CASE c[1] = "base"
  BY <1>1, <1>2 DEF Known, Based, DealTypes
<1>3. CASE c[1] = "fill"
  BY <1>1, <1>3, BasedEdits DEF Known
<1>4. CASE c[1] \notin {"base", "fill"}
  <2>1. Known(c) = [e EXCEPT !.so[c[1]] = "done"]
    BY <1>4 DEF Known
  <2> QED
    BY <1>1, <1>4, <2>1 DEF Based, DealTypes
<1> QED
  BY <1>2, <1>3, <1>4

LEMMA BasedSwept ==
  ASSUME NEW e \in DealTypes
  PROVE  Based(SweptDeal(e), e) /\ (e.base = "filled" => SweptDeal(e).base = "done")
<1> DEFINE r == SweptDeal(e)
<1>1. r = [e EXCEPT !.base = Cancelled(e.base), !.tp = Cancelled(e.tp),
                    !.so = [s \in SafetyOrders |-> Cancelled(e.so[s])],
                    !.sold = e.sold + (IF e.tp = "filled" THEN e.tpQty ELSE 0)]
  BY DEF SweptDeal
<1>2. /\ (Cancelled(e.base) = "none") <=> (e.base = "none")
      /\ e.base \in {"done", "filled"} => Cancelled(e.base) = "done"
  BY DEF Cancelled
<1> HIDE DEF r
<1>3. r.base = Cancelled(e.base)
  BY <1>1 DEF DealTypes
<1> QED
  BY <1>2, <1>3 DEF Based, r

\* A method goes on for its deal.
LEMMA TopEntered ==
  ASSUME Shape, Orderly, Few, AllGentle, NEW c \in Calls, ~Idle(c), Top(c).op # "openNewDeal"
  PROVE  \A a : Entered(deal', At(c, a)) /\ ~Counted(At(c, a))
<1>1. /\ Top(c).deal \in Deals /\ Entered(deal, Top(c))
      /\ \A a : At(c, a).op = Top(c).op /\ At(c, a).deal = Top(c).deal
  BY TopKnown, TopDeal DEF Few
<1>2. Entered(deal', Top(c))
  BY <1>1, GentleEntered
<1> QED
  BY <1>1, <1>2 DEF Entered, Counted

\* Most steps change neither whether a deal is open nor what entries see of it.
LEMMA FewGentle ==
  ASSUME Shape, Shape', Orderly, Orderly', Few, AllGentle, UNCHANGED <<world, bot>>,
         NEW c \in Calls, NEW op, NEW b, Runs(c, op, b), op # "openNewDeal",
         NEW gs, NEW new, Moves(c, Len(stack[c]), gs, new), \A g \in gs : \E a : g = At(c, a),
         \A f \in new : f.op \in {"placeOrders", "closeDeal", "updateDeal", "stop"}
  PROVE  Few'
<1>1. \A g \in gs : Entered(deal', g) /\ ~Counted(g)
  BY TopEntered DEF Runs
<1>2. \A f \in new : Entered(deal', f) /\ ~Counted(f)
  BY DEF Entered, Counted
<1> QED
  BY <1>1, <1>2, FewMoved

LEMMA FewGoes ==
  ASSUME Shape, Shape', Orderly, Orderly', Few, Quietly, AllBased, UNCHANGED <<world, bot>>,
         NEW c \in Calls, NEW op, NEW b, Runs(c, op, b), op # "openNewDeal",
         \/ Moves(c, Len(stack[c]), {}, {})
         \/ \E a : Moves(c, Len(stack[c]), {At(c, a)}, {})
         \/ \E a, e : Moves(c, Len(stack[c]), {At(c, a), At(c, e)}, {})
         \/ \E a, e, f : Moves(c, Len(stack[c]), {At(c, a), At(c, e), At(c, f)}, {})
  PROVE  Few'
<1>1. AllGentle
  BY QuietlyGentle
<1>2. ASSUME NEW gs, Moves(c, Len(stack[c]), gs, {}), \A g \in gs : \E a : g = At(c, a)
      PROVE  Few'
  <2> DEFINE new == {}
  <2>1. Moves(c, Len(stack[c]), gs, new)
        /\ \A f \in new : f.op \in {"placeOrders", "closeDeal", "updateDeal", "stop"}
    BY <1>2
  <2> HIDE DEF new
  <2> QED
    BY <1>1, <1>2, <2>1, FewGentle
<1>3. CASE Moves(c, Len(stack[c]), {}, {})
  <2> DEFINE gs == {}
  <2>1. Moves(c, Len(stack[c]), gs, {}) /\ \A g \in gs : \E a : g = At(c, a)
    BY <1>3
  <2> HIDE DEF gs
  <2> QED
    BY <1>2, <2>1
<1>4. ASSUME NEW a, NEW e, NEW f,
             \/ Moves(c, Len(stack[c]), {At(c, a)}, {})
             \/ Moves(c, Len(stack[c]), {At(c, a), At(c, e)}, {})
             \/ Moves(c, Len(stack[c]), {At(c, a), At(c, e), At(c, f)}, {})
      PROVE  Few'
  <2> DEFINE gs == {At(c, a), At(c, e), At(c, f)}
  <2>1. \A g \in gs : \E n : g = At(c, n)
    OBVIOUS
  <2>2. {At(c, a)} \subseteq gs /\ {At(c, a), At(c, e)} \subseteq gs /\ gs \subseteq gs
    OBVIOUS
  <2>3. Moves(c, Len(stack[c]), gs, {})
    <3>1. {} \subseteq {}
      OBVIOUS
    <3> QED
      BY <1>4, <2>2, <3>1, MovesMore
  <2> HIDE DEF gs
  <2> QED
    BY <1>2, <2>1, <2>3
<1> QED
  BY <1>3, <1>4

LEMMA StartFew ==
  ASSUME Shape, Orderly, Orderly', Few, NEW c \in Calls,
         StartBegins(c) \/ SellRemainder(c)
  PROVE  Few'
<1> DEFINE d == Top(c).deal
<1>1. CASE StartBegins(c)
  <2>1. PICK a : Shape' /\ Moves(c, Len(stack[c]), {At(c, a)}, {}) /\ Quietly
    BY <1>1, StartBeginsDoes
  <2>2. Runs(c, "startDeal", "begin") /\ UNCHANGED <<world, deal, bot>>
    BY <1>1 DEF StartBegins
  <2> QED
    BY <2>1, <2>2, BasedSame, FewGoes
<1>2. CASE SellRemainder(c)
  <2>1. /\ Runs(c, "startDeal", "remainder") \/ Runs(c, "startDeal", "placed")
        /\ UNCHANGED <<world, bot>>
        /\ UNCHANGED deal \/ Set(d, [deal[d] EXCEPT !.coins = @ - 1])
    BY <1>2 DEF SellRemainder
  <2>2. AllBased
    BY <2>1, DealOf, BasedEdits, BasedSame, BasedSet
  <2> QED
    BY <1>2, <2>1, <2>2, SellRemainderDoes, FewGoes
<1> QED
  BY <1>1, <1>2

\* A step that ends in the call of a placement or of a report's handler.
LEMMA FewCalls ==
  ASSUME Shape, Shape', Orderly, Orderly', Few, AllGentle, UNCHANGED <<world, bot>>,
         NEW c \in Calls, NEW op, NEW b, Runs(c, op, b), op # "openNewDeal",
         NEW f, f.op \in {"placeOrders", "closeDeal", "updateDeal", "stop"},
         NEW a, Moves(c, Len(stack[c]), {At(c, a)}, {f})
  PROVE  Few'
<1> DEFINE gs == {At(c, a)}
           new == {f}
<1>1. /\ \A g \in gs : \E e : g = At(c, e)
      /\ \A h \in new : h.op \in {"placeOrders", "closeDeal", "updateDeal", "stop"}
      /\ Moves(c, Len(stack[c]), gs, new)
  OBVIOUS
<1> HIDE DEF gs, new
<1> QED
  BY <1>1, FewGentle

LEMMA PlaceFew ==
  ASSUME Shape, Orderly, Orderly', Few, NEW c \in Calls,
         PlaceBegins(c) \/ PlaceLadder(c) \/ PlaceCancels(c) \/ PlaceSends(c)
  PROVE  Few'
<1> DEFINE d == Top(c).deal
<1>1. CASE PlaceBegins(c)
  <2>1. /\ Runs(c, "placeOrders", "begin") /\ UNCHANGED <<world, bot>>
        /\ UNCHANGED deal \/ Set(d, WithoutLadder(deal[d]))
    BY <1>1 DEF PlaceBegins
  <2>2. AllBased
    BY <2>1, DealOf, BasedLadder, BasedSame, BasedSet
  <2> QED
    BY <1>1, <2>1, <2>2, PlaceBeginsDoes, FewGoes
<1>2. CASE PlaceLadder(c)
  <2>1. /\ Runs(c, "placeOrders", "ladder") /\ UNCHANGED <<world, bot>>
        /\ Set(d, [deal[d] EXCEPT !.so = [s \in SafetyOrders |->
                      IF s \in world.ladder THEN "resting" ELSE @[s]]])
    BY <1>2 DEF PlaceLadder
  <2>2. AllBased
    BY <2>1, DealOf, BasedEdits, BasedSet
  <2> QED
    BY <1>2, <2>1, <2>2, PlaceLadderDoes, FewGoes
<1>3. CASE PlaceSends(c)
  <2>1. /\ Runs(c, "placeOrders", "sends") /\ UNCHANGED <<world, bot>>
        /\ \/ UNCHANGED deal \/ Set(d, WithoutLadder(deal[d]))
           \/ Set(d, [deal[d] EXCEPT !.tp = "resting", !.tpQty = Top(c).qty])
    BY <1>3 DEF PlaceSends
  <2>2. AllBased
    BY <2>1, DealOf, BasedLadder, BasedEdits, BasedSame, BasedSet
  <2> QED
    BY <1>3, <2>1, <2>2, PlaceSendsDoes, FewGoes
<1>4. CASE PlaceCancels(c)
  <2>1. Runs(c, "placeOrders", "resize") /\ UNCHANGED <<world, bot>>
    BY <1>4 DEF PlaceCancels
  <2>2. /\ d \in Deals /\ deal[d] \in DealTypes /\ "sends" \in Points
    BY <2>1, DealOf DEF Points
  <2>3. Shape' /\ Quietly
    BY <1>4, PlaceCancelsDoes
  <2>4. CASE deal[d].tp = "filled"
    <3> DEFINE r == <<"fill", d>>
    <3>1. r \in Reports /\ r[1] = "fill" /\ r[2] = d /\ State(r) = "filled" /\ r \in Calls
      BY <2>2, <2>4, ReportCalls DEF Reports, State
    <3>2. Set(d, Known(r)) /\ ReturnAnd(c, Just(r, Handler(r)))
      BY <1>4, <2>4 DEF PlaceCancels
    <3>3. PICK f \in Frames : /\ f = Handler(r) /\ f.at = "begin"
                              /\ f.op \in {"closeDeal", "updateDeal"}
      BY <3>1, HandlerType, HandlerFields DEF Shape
    <3>4. AllGentle
      BY <2>2, <2>3, <3>1, <3>2, BasedKnown, BasedSet, QuietlyGentle
    <3> DEFINE spawn == Just(r, f)
    <3>5. Spawns(spawn) /\ Spawned(spawn) = {f}
      BY <3>1, <3>3, OneSpawn
    <3>6. ReturnAnd(c, spawn)
      BY <3>2, <3>3
    <3> HIDE DEF r, spawn
    <3>7. Moves(c, Len(stack[c]), {}, {f})
      BY <2>1, <3>5, <3>6, ReturnAndStep DEF StepDone
    <3> DEFINE gs == {}
               new == {f}
    <3>8. /\ \A g \in gs : \E a : g = At(c, a)
          /\ \A h \in new : h.op \in {"placeOrders", "closeDeal", "updateDeal", "stop"}
          /\ Moves(c, Len(stack[c]), gs, new)
      BY <3>3, <3>7
    <3> HIDE DEF gs, new, d
    <3> QED
      BY <2>1, <2>3, <3>4, <3>8, FewGentle
  <2>5. CASE UNCHANGED deal /\ Return(c, FALSE)
    <3>1. Moves(c, Len(stack[c]), {}, {})
      BY <2>1, <2>5, ReturnStep DEF StepDone
    <3> QED
      BY <2>1, <2>3, <2>5, <3>1, BasedSame, FewGoes
  <2>6. CASE /\ Goto(c, "sends")
             /\ UNCHANGED deal \/ Set(d, [deal[d] EXCEPT !.tp = "cancelled"])
    <3>1. Moves(c, Len(stack[c]), {At(c, "sends")}, {})
      BY <2>1, <2>2, <2>6, GotoStep DEF StepDone
    <3>2. AllBased
      BY <2>2, <2>6, BasedEdits, BasedSame, BasedSet
    <3> QED
      BY <2>1, <2>3, <3>1, <3>2, FewGoes
  <2> QED
    BY <1>4, <2>4, <2>5, <2>6 DEF PlaceCancels
<1> QED
  BY <1>1, <1>2, <1>3, <1>4

LEMMA LevelFew ==
  ASSUME Shape, Orderly, Orderly', Few, NEW c \in Calls,
         LevelBooks(c) \/ LevelSizes(c) \/ LevelEnds(c) \/ LevelSells(c)
  PROVE  Few'
<1> DEFINE d == Top(c).deal
<1>1. CASE LevelBooks(c)
  <2>1. /\ Runs(c, "updateDeal", "begin") /\ UNCHANGED <<world, bot>>
        /\ UNCHANGED deal \/ Set(d, [deal[d] EXCEPT !.ledger = @ + 1])
    BY <1>1 DEF LevelBooks
  <2>2. AllBased
    BY <2>1, DealOf, BasedEdits, BasedSame, BasedSet
  <2> QED
    BY <1>1, <2>1, <2>2, LevelBooksDoes, FewGoes
<1>2. CASE LevelSizes(c)
  <2>1. Runs(c, "updateDeal", "sizes") /\ UNCHANGED <<world, deal, bot>>
    BY <1>2 DEF LevelSizes
  <2>2. PICK f : Placer(f) /\ Moves(c, Len(stack[c]), {At(c, "placed")}, {f})
    BY <1>2, LevelSizesDoes
  <2>3. Shape' /\ AllGentle
    BY <1>2, <2>1, LevelSizesDoes, BasedSame, QuietlyGentle
  <2>4. f.op \in {"placeOrders", "closeDeal", "updateDeal", "stop"}
    BY <2>2 DEF Placer
  <2> QED
    BY <2>1, <2>2, <2>3, <2>4, FewCalls
<1>3. CASE LevelEnds(c)
  <2>1. Runs(c, "updateDeal", "placed") /\ UNCHANGED <<world, deal, bot>>
    BY <1>3 DEF LevelEnds
  <2> QED
    BY <1>3, <2>1, LevelEndsDoes, BasedSame, FewGoes
<1>4. CASE LevelSells(c)
  <2>1. PICK b \in {"sells", "reads"} : Runs(c, "updateDeal", b)
    BY <1>4 DEF LevelSells
  <2>2. UNCHANGED <<world, bot>> /\ (UNCHANGED deal \/ Set(d, [deal[d] EXCEPT !.coins = @ - 1]))
    BY <1>4 DEF LevelSells
  <2>3. AllBased
    BY <2>1, <2>2, DealOf, BasedEdits, BasedSame, BasedSet
  <2> QED
    BY <1>4, <2>1, <2>2, <2>3, LevelSellsDoes, FewGoes
<1> QED
  BY <1>1, <1>2, <1>3, <1>4

LEMMA CloseDealFew ==
  ASSUME Shape, Orderly, Orderly', Few, NEW c \in Calls,
         CloseDealBegins(c) \/ CloseDealSettles(c) \/ CloseDealMeasures(c) \/ CloseDealEnds(c)
  PROVE  Few'
<1> DEFINE d == Top(c).deal
<1>1. CASE CloseDealBegins(c)
  <2>1. Runs(c, "closeDeal", "begin") /\ UNCHANGED <<world, deal, bot>>
    BY <1>1 DEF CloseDealBegins
  <2> QED
    BY <1>1, <2>1, CloseDealBeginsDoes, BasedSame, FewGoes
<1>2. CASE CloseDealSettles(c)
  <2>1. /\ Runs(c, "closeDeal", "settles") /\ UNCHANGED <<world, bot>>
        /\ Set(d, [deal[d] EXCEPT !.closing = TRUE]) \/ Set(d, deal[d])
    BY <1>2 DEF CloseDealSettles
  <2>2. AllBased
    BY <2>1, DealOf, BasedEdits, BasedSet
  <2> QED
    BY <1>2, <2>1, <2>2, CloseDealSettlesDoes, FewGoes
<1>3. CASE CloseDealMeasures(c)
  <2> DEFINE rest == deal[d].ledger - Top(c).qty
  <2>1. /\ Runs(c, "closeDeal", "measures") /\ UNCHANGED <<world, bot>>
        /\ Set(d, [deal[d] EXCEPT !.coins = @ - rest]) \/ Set(d, deal[d])
    BY <1>3 DEF CloseDealMeasures
  <2>2. AllBased
    BY <2>1, DealOf, BasedEdits, BasedSet
  <2> QED
    BY <1>3, <2>1, <2>2, CloseDealMeasuresDoes, FewGoes
<1>4. CASE CloseDealEnds(c)
  <2>1. Runs(c, "closeDeal", "released") /\ UNCHANGED <<world, deal, bot>>
    BY <1>4 DEF CloseDealEnds
  <2>2. Return(c, FALSE)
    BY <1>4, <2>1, DealOf DEF CloseDealEnds, Posted
  <2>3. Shape' /\ Quietly /\ Moves(c, Len(stack[c]), {}, {})
    BY <1>4, <2>1, <2>2, CloseDealEndsDoes, ReturnStep DEF StepDone
  <2> QED
    BY <2>1, <2>3, BasedSame, FewGoes
<1> QED
  BY <1>1, <1>2, <1>3, <1>4

\* A deal that is closed has had a take profit, so it was past its start.
LEMMA CloseDealClosesFew ==
  ASSUME Shape, Orderly, Orderly', Few, NEW c \in Calls, CloseDealCloses(c)
  PROVE  Few'
<1> DEFINE d == Top(c).deal
           t == Top(c)
           r == [deal[d] EXCEPT !.status = "closed", !.ledger = @ - Top(c).qty]
<1>1. PICK b \in {"closes", "swept"} : Runs(c, "closeDeal", b)
  BY DEF CloseDealCloses
<1>2. UNCHANGED <<world, bot>> /\ Set(d, r)
  BY DEF CloseDealCloses
<1>3. /\ d \in Deals /\ deal[d] \in DealTypes /\ Meant(deal, t) /\ Posted(c, Len(stack[c]), t)
      /\ BooksRight(deal[d]) /\ ~Idle(c) /\ t.op = "closeDeal" /\ t.at = b /\ t.deal = d
  BY <1>1, DealOf
<1>4. deal[d].status \notin {"none", "start"}
  <2>1. t.how = "tp" \/ Orderless(t)
    BY <1>3 DEF Posted, Orderless
  <2>2. t.how = "tp" => deal[d].tp # "none"
    BY <1>3 DEF Meant
  <2>3. Orderless(t) => deal[d].status \notin {"none", "start"}
    BY <1>3 DEF Meant, Advanced
  <2> QED
    BY <1>3, <2>1, <2>2, <2>3 DEF BooksRight, Unspent
<1>5. /\ r.status = "closed" /\ r.live = deal[d].live /\ Based(r, deal[d])
  BY <1>3, BasedEdits DEF DealTypes
<1>6. /\ deal'[d] = r /\ \A e \in Deals \ {d} : deal'[e] = deal[e]
  BY <1>2, <1>3 DEF Shape, Set
<1> HIDE DEF r, d, t
<1>7. Gentle(r, deal[d])
  BY <1>4, <1>5 DEF Based, Gentle, Running
<1>8. AllGentle
  BY <1>6, <1>7 DEF AllGentle, Gentle
<1>9. PICK a : Shape' /\ Moves(c, Len(stack[c]), {At(c, a)}, {})
  BY CloseDealClosesDoes
<1> DEFINE gs == {At(c, a)}
           new == {}
<1>10. /\ \A g \in gs : \E e : g = At(c, e)
       /\ \A f \in new : f.op \in {"placeOrders", "closeDeal", "updateDeal", "stop"}
       /\ Moves(c, Len(stack[c]), gs, new)
  BY <1>9
<1> HIDE DEF gs, new
<1> QED
  BY <1>1, <1>2, <1>8, <1>9, <1>10, FewGentle

\* Only a deal that is closed is released.
LEMMA CloseDealBooksFew ==
  ASSUME Shape, Orderly, Orderly', Few, NEW c \in Calls, CloseDealBooks(c)
  PROVE  Few'
<1> DEFINE d == Top(c).deal
           t == Top(c)
           m == IF Top(c).at = "books" /\ Top(c).how = "tp" /\ deal[d].ledger > 0
                THEN deal[d].ledger ELSE 0
           r == Booked([deal[d] EXCEPT !.stored = deal[d].status, !.coins = @ - m])
           f == Release(d, FALSE)
           g == At(c, "released")
<1>1. PICK b \in {"books", "sweptBooks"} : Runs(c, "closeDeal", b)
  BY DEF CloseDealBooks
<1>2. UNCHANGED <<world, bot>> /\ Set(d, r)
  BY DEF CloseDealBooks
<1>3. /\ d \in Deals /\ deal[d] \in DealTypes /\ Meant(deal, t)
      /\ ~Idle(c) /\ t.op = "closeDeal" /\ t.at = b /\ t.deal = d
  BY <1>1, DealOf
<1>4. deal[d].status = "closed"
  BY <1>3 DEF Meant, Booking
<1>5. AllBased
  <2>1. Based(r, deal[d])
    BY <1>3, BasedEdits
  <2> HIDE DEF r
  <2> QED
    BY <1>2, <1>3, <2>1, BasedSet
<1>6. /\ Shape' /\ OthersKept(d) /\ Moves(c, Len(stack[c]), {g}, {f})
      /\ deal'[d].status = deal[d].status /\ deal'[d].live = deal[d].live
  BY CloseDealBooksDoes
<1>7. f.op = "processDealClose" /\ f.deal = d
  BY DEF Release, Frame
<1> HIDE DEF r, f, m, d
<1>8. AllGentle
  BY <1>5, <1>6 DEF OthersKept, SameBooks, AllBased, Based, AllGentle, Gentle, Running
<1>9. Entered(deal', f) /\ ~Counted(f)
  BY <1>4, <1>6, <1>7 DEF Entered, Counted
<1>10. Entered(deal', g) /\ ~Counted(g)
  BY <1>3, <1>8, TopEntered
<1> DEFINE gs == {g}
           new == {f}
<1>11. /\ \A h \in gs : Entered(deal', h) /\ ~Counted(h)
       /\ \A h \in new : Entered(deal', h) /\ ~Counted(h)
       /\ Moves(c, Len(stack[c]), gs, new)
  BY <1>6, <1>9, <1>10
<1> HIDE DEF gs, new, g
<1> QED
  BY <1>2, <1>6, <1>8, <1>11, FewMoved

\* A deal is opened that waited for its base order, which is done.
LEMMA StartOpensFew ==
  ASSUME Shape, Orderly, Orderly', Few, NEW c \in Calls, StartOpens(c)
  PROVE  Few'
<1> DEFINE d == Top(c).deal
           t == Top(c)
           r == [deal[d] EXCEPT !.status = "open", !.stored = "open", !.ledger = 1]
<1>1. Runs(c, "startDeal", "opens") /\ UNCHANGED <<world, bot>> /\ Set(d, r)
  BY DEF StartOpens
<1>2. /\ d \in Deals /\ deal[d] \in DealTypes /\ Meant(deal, t)
      /\ ~Idle(c) /\ t.op = "startDeal" /\ t.at = "opens" /\ t.deal = d
  BY <1>1, DealOf
<1>3. deal[d].status = "start" /\ deal[d].base = "done"
  <2>1. Entered(deal, t)
    BY <1>2, TopKnown DEF Few
  <2>2. deal[d].status \in {"start", "canceled"} /\ deal[d].status # "canceled"
    BY <1>2 DEF Meant, Opener, Few
  <2> QED
    BY <1>2, <2>1, <2>2 DEF Entered
<1>4. AllBased
  <2>1. Based(r, deal[d])
    BY <1>2, BasedEdits
  <2> HIDE DEF r
  <2> QED
    BY <1>1, <1>2, <2>1, BasedSet
<1>5. PICK f : Placer(f) /\ Moves(c, Len(stack[c]), {At(c, "placed")}, {f})
  BY StartOpensDoes
<1>6. /\ Shape' /\ OthersKept(d)
      /\ deal'[d].status = "open" /\ deal'[d].live = deal[d].live
  BY StartOpensDoes
<1> DEFINE gs == {At(c, "placed")}
           new == {f}
<1>7. /\ \A g \in gs : \E a : g = At(c, a)
      /\ \A h \in new : h.op \in {"placeOrders", "closeDeal", "updateDeal", "stop"}
      /\ Moves(c, Len(stack[c]), gs, new)
  BY <1>5 DEF Placer
<1> HIDE DEF gs, new, r, d
<1>8. AllGentle
  BY <1>3, <1>4, <1>6 DEF OthersKept, SameBooks, AllBased, Based, AllGentle, Gentle, Running
<1> QED
  BY <1>1, <1>6, <1>7, <1>8, FewGentle

\* The reports of a deal's orders, once they are known.
LEMMA ReportEntered ==
  ASSUME NEW c \in Reports, deal'[c[2]].base = "done" \/ c[1] # "base"
  PROVE  Entered(deal', Handler(c)) /\ ~Counted(Handler(c))
BY HandlerFields DEF Entered, Counted

LEMMA ReleaseFew ==
  ASSUME Shape, Orderly, Orderly', Few, world.limit = 0, NEW c \in Calls,
         ReleaseBegins(c) \/ ReleaseSweeps(c) \/ ReleaseChecks(c) \/ ReleaseEnds(c)
  PROVE  Few'
<1> DEFINE d == Top(c).deal
<1>1. CASE ReleaseBegins(c)
  <2>1. Runs(c, "processDealClose", "begin") /\ UNCHANGED <<world, bot>>
    BY <1>1 DEF ReleaseBegins
  <2>2. \/ Set(d, [deal[d] EXCEPT !.closing = FALSE, !.live = FALSE, !.closes = @ + 1])
        \/ Set(d, [deal[d] EXCEPT !.closing = FALSE])
    BY <1>1 DEF ReleaseBegins
  <2>3. AllBased
    BY <2>1, <2>2, DealOf, BasedEdits, BasedSet
  <2>4. /\ Shape' /\ OthersKept(d) /\ Moves(c, Len(stack[c]), {At(c, "sweeps")}, {})
        /\ deal'[d].status = deal[d].status /\ deal'[d].live = FALSE
    BY <1>1, ReleaseBeginsDoes
  <2>5. deal[d].status = "closed" /\ d \in Deals
    <3> DEFINE t == Top(c)
    <3>1. t.op = "processDealClose" /\ Entered(deal, t) /\ t.deal = d /\ d \in Deals
      BY <2>1, DealOf, TopKnown DEF Few
    <3> HIDE DEF t, d
    <3> QED
      BY <3>1 DEF Entered
  <2> DEFINE gs == {At(c, "sweeps")}
             new == {}
  <2>6. /\ \A g \in gs : \E a : g = At(c, a)
        /\ \A h \in new : h.op \in {"placeOrders", "closeDeal", "updateDeal", "stop"}
        /\ Moves(c, Len(stack[c]), gs, new)
    BY <2>4
  <2> HIDE DEF gs, new, d
  <2>7. AllGentle
    BY <2>3, <2>4, <2>5 DEF OthersKept, SameBooks, AllBased, Based, AllGentle, Gentle, Running
  <2> QED
    BY <2>1, <2>4, <2>6, <2>7, FewGentle
<1>2. CASE ReleaseSweeps(c)
  <2>1. /\ Runs(c, "processDealClose", "sweeps") /\ UNCHANGED <<world, bot>>
        /\ Set(d, SweptDeal(deal[d])) /\ GotoAnd(c, "checks", Handlers(d))
    BY <1>2 DEF ReleaseSweeps
  <2>2. d \in Deals /\ deal[d] \in DealTypes /\ ~Idle(c) /\ Top(c).op = "processDealClose"
    BY <2>1, DealOf
  <2>3. AllBased
    BY <2>1, <2>2, BasedSwept, BasedSet
  <2>4. Shape' /\ AllGentle
    BY <1>2, <2>3, ReleaseSweepsDoes, QuietlyGentle
  <2>5. Moves(c, Len(stack[c]), {At(c, "checks")}, Spawned(Handlers(d)))
    <3>1. Spawns(Handlers(d)) /\ "checks" \in Points
      BY <2>2, HandlersPosted DEF PostedSpawn, Points
    <3> QED
      BY <2>1, <3>1, GotoAndStep DEF StepDone
  <2>6. ASSUME NEW f \in Spawned(Handlers(d))
        PROVE  Entered(deal', f) /\ ~Counted(f)
    <3>1. PICK r \in Executed(d) : f = Handler(r)
      BY DEF Spawned, Handlers
    <3>2. r \in Reports /\ r[2] = d /\ State(r) = "filled"
      BY <2>2, <3>1 DEF Executed, Reports
    <3>3. r[1] = "base" => deal[d].base = "filled"
      BY <3>2 DEF State
    <3>4. r[1] = "base" => deal'[d].base = "done"
      BY <2>1, <2>2, <3>3, BasedSwept DEF Set, Shape
    <3> QED
      BY <3>1, <3>2, <3>4, ReportEntered
  <2> DEFINE gs == {At(c, "checks")}
             new == Spawned(Handlers(d))
  <2>7. /\ \A g \in gs : Entered(deal', g) /\ ~Counted(g)
        /\ \A f \in new : Entered(deal', f) /\ ~Counted(f)
        /\ Moves(c, Len(stack[c]), gs, new)
    BY <2>2, <2>4, <2>5, <2>6, TopEntered
  <2> HIDE DEF gs, new, d
  <2> QED
    BY <2>1, <2>4, <2>7, FewMoved
<1>3. CASE ReleaseChecks(c)
  <2>1. Runs(c, "processDealClose", "checks") /\ UNCHANGED <<world, deal, bot>>
    BY <1>3 DEF ReleaseChecks
  <2> DEFINE t == Top(c)
  <2>2. /\ t \in Frames /\ t.op = "processDealClose" /\ ~Idle(c) /\ Holds(c) /\ Stacked
    BY <2>1, RunsTop DEF Shape
  <2> DEFINE g == [t EXCEPT !.at = "ends", !.deals = OpenDeals]
  <2>3. Step(c, <<g>> \o Tail(stack[c]), None)
    BY <1>3 DEF ReleaseChecks, StopsFromClose, LimitMet
  <2>4. g \in Frames /\ g.op = "processDealClose" /\ g.deal = t.deal
    <3>1. OpenDeals \in SUBSET Deals /\ {} \in SUBSET Deals /\ "ends" \in Points
      BY DEF OpenDeals, Points
    <3>2. g \in Frames
      BY <2>2, <3>1, SeeingType
    <3> QED
      BY <2>2, <3>2 DEF Frames
  <2>5. g.key = t.key
    BY <2>2 DEF Frames
  <2> HIDE DEF g
  <2>6. StepDone(c, Len(stack[c]), {g}, {})
    BY <2>1, <2>2, <2>3, <2>4, <2>5, NoneSpawns, MoveStep DEF Shape
  <2>7. Shape' /\ AllGentle
    BY <1>3, <2>1, ReleaseChecksDoes, BasedSame, QuietlyGentle
  <2>8. Entered(deal', g) /\ ~Counted(g)
    <3>1. Entered(deal', At(c, "ends")) /\ At(c, "ends").op = t.op /\ At(c, "ends").deal = t.deal
      BY <2>2, <2>7, TopEntered, TopKnown
    <3> HIDE DEF t
    <3> QED
      BY <2>2, <2>4, <3>1 DEF Entered, Counted
  <2> DEFINE gs == {g}
             new == {}
  <2>9. /\ \A h \in gs : Entered(deal', h) /\ ~Counted(h)
        /\ \A h \in new : Entered(deal', h) /\ ~Counted(h)
        /\ Moves(c, Len(stack[c]), gs, new)
    BY <2>6, <2>8 DEF StepDone
  <2> HIDE DEF gs, new
  <2> QED
    BY <2>1, <2>7, <2>9, FewMoved
<1>4. CASE ReleaseEnds(c)
  <2>1. Runs(c, "processDealClose", "ends") /\ UNCHANGED <<world, deal, bot>>
    BY <1>4 DEF ReleaseEnds
  <2> QED
    BY <1>4, <2>1, ReleaseEndsDoes, BasedSame, FewGoes
<1> QED
  BY <1>1, <1>2, <1>3, <1>4

-----------------------------------------------------------------------------
(* A signal's own steps *)

\* The entry that goes on is the only one of its deal.
LEMMA EntryOf ==
  ASSUME Shape, Once, Orderly, Few, NEW c \in Calls, NEW b, Runs(c, "openNewDeal", b)
  PROVE  LET d == Top(c).deal
         IN /\ d \in Deals /\ deal[d] \in DealTypes /\ ~Idle(c)
            /\ Top(c).op = "openNewDeal" /\ Top(c).at = b /\ Top(c) \in Frames
            /\ c = <<"entry", d>> /\ Len(stack[c]) = 1
            /\ Top(c) = FrameNo(c, Len(stack[c]))
            /\ b \in Opening => deal[d].status = "none"
            /\ deal[d].base = "none"
            /\ b \in {"created", "sends"} => deal[d].live /\ deal[d].status = "start"
            /\ Counted(Top(c)) => d \in Entering
<1> DEFINE d == Top(c).deal
           t == Top(c)
<1>1. /\ d \in Deals /\ deal[d] \in DealTypes /\ ~Idle(c) /\ t \in Frames
      /\ t.op = "openNewDeal" /\ t.at = b /\ t.deal = d /\ Meant(deal, t)
  BY DealOf
<1>2. t = FrameNo(c, Len(stack[c])) /\ Len(stack[c]) \in 1..Len(stack[c])
  BY <1>1, TopKnown
<1>3. Entrant(c, Len(stack[c])) /\ Entered(deal, t)
  BY <1>2 DEF Once, Few
<1>4. c = <<"entry", d>> /\ Len(stack[c]) = 1
  BY <1>1, <1>2, <1>3 DEF Entrant
<1>5. Counted(t) => d \in Entering
  BY <1>1, <1>2 DEF Entering
<1> HIDE DEF t, d
<1>6. /\ b \in Opening => deal[d].status = "none"
      /\ deal[d].base = "none"
      /\ b \in {"created", "sends"} => deal[d].live /\ deal[d].status = "start"
  BY <1>1, <1>3 DEF Meant, Entered
<1> QED
  BY <1>1, <1>2, <1>4, <1>5, <1>6 DEF t, d

LEMMA EnteringMoved ==
  ASSUME Shape, Once, NEW c \in Calls, NEW d \in Deals, c = <<"entry", d>>,
         Len(stack[c]) = 1, NEW gs, Moves(c, Len(stack[c]), gs, {}), \A g \in gs : g.deal = d
  PROVE  /\ Entering' \subseteq Entering \cup {d}
         /\ (\A g \in gs : ~Counted(g)) => Entering' \subseteq Entering \ {d}
<1>1. ASSUME NEW x \in Calls, NEW q \in 1..Len(stack'[x]), Counted(FrameNo(x, q)')
      PROVE  \/ FrameNo(x, q)' \in gs /\ FrameNo(x, q)'.deal = d
             \/ FrameNo(x, q)'.deal \in Entering \ {d} \/ FrameNo(x, q)'.deal \notin Deals
  <2> DEFINE f == FrameNo(x, q)'
             e == FrameNo(x, q)
  <2>1. \/ f \in gs
        \/ /\ q \in 1..Len(stack[x]) /\ (x = c => q < Len(stack[c]))
           /\ f.op = e.op /\ f.at = e.at /\ f.deal = e.deal
    BY StillThere
  <2>2. q \in 1..Len(stack[x]) => (e.op = "openNewDeal" => x = <<"entry", e.deal>> /\ q = 1)
    BY DEF Once, Entrant
  <2>3. q \in 1..Len(stack[x]) /\ Counted(e) /\ e.deal \in Deals => e.deal \in Entering
    BY DEF Entering
  <2>4. Counted(f)
    BY <1>1
  <2> HIDE DEF f, e
  <2>5. CASE f \in gs
    BY <2>5 DEF f
  <2>6. CASE f \notin gs
    <3>1. /\ q \in 1..Len(stack[x]) /\ (x = c => q < Len(stack[c])) /\ Counted(e)
          /\ f.deal = e.deal
      BY <2>1, <2>4, <2>6 DEF Counted
    <3>2. x = <<"entry", e.deal>> /\ q = 1
      BY <2>2, <3>1 DEF Counted
    <3>3. e.deal # d
      BY <3>1, <3>2
    <3>4. f.deal \in Entering \ {d} \/ f.deal \notin Deals
      BY <2>3, <3>1, <3>3
    <3> QED
      BY <3>4 DEF f
  <2> QED
    BY <2>5, <2>6
<1> SUFFICES ASSUME NEW e \in Entering'
             PROVE  /\ e \in Entering \cup {d}
                    /\ (\A g \in gs : ~Counted(g)) => e \in Entering \ {d}
  OBVIOUS
<1>2. PICK x \in Calls : \E q \in 1..Len(stack'[x]) :
          Counted(FrameNo(x, q)') /\ FrameNo(x, q)'.deal = e
  BY DEF Entering, Counted
<1>3. e \in Deals
  BY DEF Entering
<1> QED
  BY <1>1, <1>2, <1>3

\* A step of an entry that leaves the deals as they are.
LEMMA FewEntry ==
  ASSUME Shape, Shape', Orderly', Few, world' = world, UNCHANGED deal,
         NEW c \in Calls, NEW gs, Moves(c, Len(stack[c]), gs, {}),
         \A g \in gs : Entered(deal, g),
         Cardinality(OpenDeals) + Cardinality(Entering') <= world.max,
         Cardinality(Entering') <= bot'.pending
  PROVE  Few'
<1> DEFINE new == {}
<1>1. /\ \A x \in Calls : \A q \in 1..Len(stack[x]) :
            (x = c => q < Len(stack[c])) => Entered(deal', FrameNo(x, q))
      /\ \A g \in gs : Entered(deal', g)
      /\ \A f \in new : Entered(deal', f)
      /\ Moves(c, Len(stack[c]), gs, new)
  BY DEF Few
<1> HIDE DEF new
<1>2. \A x \in Calls : \A q \in 1..Len(stack'[x]) : Entered(deal, FrameNo(x, q))'
  BY <1>1, EnteredMoved
<1>3. OpenDeals' = OpenDeals
  BY DEF OpenDeals
<1> QED
  BY <1>2, <1>3 DEF Few

\* One more deal, or one less.
LEMMA OneMore ==
  ASSUME NEW S, IsFiniteSet(S), NEW T, NEW d
  PROVE  /\ T \subseteq S \cup {d} => Cardinality(T) <= Cardinality(S) + 1
         /\ T \subseteq S => Cardinality(T) <= Cardinality(S)
         /\ (d \in S /\ T \subseteq S \ {d}) => Cardinality(T) <= Cardinality(S) - 1
<1>1. /\ IsFiniteSet(S \cup {d}) /\ IsFiniteSet(S \ {d})
      /\ Cardinality(S \cup {d}) = IF d \in S THEN Cardinality(S) ELSE Cardinality(S) + 1
      /\ Cardinality(S \ {d}) = IF d \in S THEN Cardinality(S) - 1 ELSE Cardinality(S)
  BY FS_AddElement, FS_RemoveElement
<1>2. Cardinality(S) \in Nat
  BY FS_CardinalityType
<1>3. /\ T \subseteq S \cup {d} => Cardinality(T) <= Cardinality(S \cup {d})
      /\ T \subseteq S => Cardinality(T) <= Cardinality(S)
      /\ T \subseteq S \ {d} => Cardinality(T) <= Cardinality(S \ {d})
  BY <1>1, FS_Subset
<1>4. T \subseteq S \cup {d} => IsFiniteSet(T)
  BY <1>1, FS_Subset
<1>5. IsFiniteSet(T) => Cardinality(T) \in Nat
  BY FS_CardinalityType
<1>6. ASSUME T \subseteq S \cup {d} PROVE Cardinality(T) <= Cardinality(S) + 1
  BY <1>1, <1>2, <1>3, <1>4, <1>5, <1>6
<1>7. ASSUME d \in S, T \subseteq S \ {d} PROVE Cardinality(T) <= Cardinality(S) - 1
  <2>1. Cardinality(S \ {d}) = Cardinality(S) - 1
    BY <1>1, <1>7
  <2> QED
    BY <1>3, <1>7, <2>1
<1> QED
  BY <1>3, <1>6, <1>7

\* The counter of the deals that are pending.
LEMMA PendingSteps ==
  ASSUME Shape
  PROVE  /\ bot.pending \in Nat /\ world.max \in Nat
         /\ ResetPending.pending = IF bot.pending > 0 THEN bot.pending - 1 ELSE 0
         /\ [bot EXCEPT !.pending = @ + 1].pending = bot.pending + 1
<1>1. bot \in BotTypes /\ world.max \in Nat
  BY PendingType
<1> QED
  BY <1>1 DEF BotTypes, ResetPending

LEMMA EntryCountsFew ==
  ASSUME Shape, Once, Orderly, Orderly', Few, NEW c \in Calls, EntryCounts(c)
  PROVE  Few'
<1> DEFINE d == Top(c).deal
<1>1. /\ Runs(c, "openNewDeal", "begin") /\ UNCHANGED <<world, deal>>
      /\ IF Cardinality(OpenDeals) + bot.pending < world.max
         THEN bot' = [bot EXCEPT !.pending = @ + 1] /\ Goto(c, "counted")
         ELSE UNCHANGED bot /\ Return(c, FALSE)
  BY DEF EntryCounts
<1>2. /\ d \in Deals /\ c = <<"entry", d>> /\ Len(stack[c]) = 1 /\ Top(c) \in Frames
      /\ Top(c).op = "openNewDeal" /\ deal[d].base = "none" /\ "counted" \in Points
  BY <1>1, EntryOf DEF Points
<1>3. Shape' /\ bot'.gone = bot.gone
  BY EntryCountsDoes
<1>4. CASE bot' = [bot EXCEPT !.pending = @ + 1] /\ Goto(c, "counted")
           /\ Cardinality(OpenDeals) + bot.pending < world.max
  <2> DEFINE g == At(c, "counted")
             gs == {g}
  <2>1. Moves(c, Len(stack[c]), gs, {})
    BY <1>1, <1>2, <1>3, <1>4, GotoStep DEF StepDone
  <2>2. g.op = "openNewDeal" /\ g.at = "counted" /\ g.deal = d
    BY <1>2, AtFields
  <2> HIDE DEF d, g
  <2>3. Entered(deal, g)
    BY <1>2, <2>2 DEF Entered
  <2>4. /\ \A h \in gs : h.deal = d
        /\ \A h \in gs : Entered(deal, h)
    BY <2>2, <2>3
  <2> HIDE DEF gs
  <2>5. Entering' \subseteq Entering \cup {d}
    BY <1>2, <2>1, <2>4, EnteringMoved
  <2>6. Cardinality(Entering') <= Cardinality(Entering) + 1
    BY <2>5, CountsFinite, OneMore
  <2>7. bot'.pending = bot.pending + 1 /\ bot.pending \in Nat /\ world.max \in Nat
    BY <1>4, PendingSteps
  <2>8. /\ Cardinality(OpenDeals) + Cardinality(Entering') <= world.max
        /\ Cardinality(Entering') <= bot'.pending
    BY <1>4, <2>6, <2>7, CountsFinite, CountsFiniteNext DEF Few
  <2> QED
    BY <1>1, <1>3, <2>1, <2>4, <2>8, FewEntry
<1>5. CASE UNCHANGED bot /\ Return(c, FALSE)
  <2> DEFINE gs == {}
  <2>1. /\ Moves(c, Len(stack[c]), gs, {})
        /\ \A h \in gs : h.deal = d
        /\ \A h \in gs : ~Counted(h)
        /\ \A h \in gs : Entered(deal, h)
    BY <1>1, <1>3, <1>5, ReturnStep DEF StepDone
  <2> HIDE DEF gs, d
  <2>2. Entering' \subseteq Entering
    BY <1>2, <2>1, EnteringMoved
  <2>3. Cardinality(Entering') <= Cardinality(Entering)
    BY <2>2, CountsFinite, OneMore
  <2>4. /\ Cardinality(OpenDeals) + Cardinality(Entering') <= world.max
        /\ Cardinality(Entering') <= bot'.pending
    BY <1>5, <2>3, CountsFinite, CountsFiniteNext, PendingSteps DEF Few
  <2> QED
    BY <1>1, <1>3, <2>1, <2>4, FewEntry
<1> QED
  BY <1>1, <1>4, <1>5

LEMMA EntryReadsStatusFew ==
  ASSUME Shape, Once, Orderly, Orderly', Few, NEW c \in Calls, EntryReadsStatus(c)
  PROVE  Few'
<1> DEFINE d == Top(c).deal
<1>1. /\ Runs(c, "openNewDeal", "counted") /\ UNCHANGED <<world, deal>>
      /\ \/ UNCHANGED bot /\ Goto(c, "creates")
         \/ bot' = ResetPending /\ Return(c, FALSE)
  BY DEF EntryReadsStatus
<1>2. /\ d \in Deals /\ c = <<"entry", d>> /\ Len(stack[c]) = 1 /\ Top(c) \in Frames
      /\ Top(c).op = "openNewDeal" /\ deal[d].base = "none" /\ "creates" \in Points
      /\ d \in Entering
  <2>1. Counted(Top(c))
    BY <1>1, EntryOf DEF Counted
  <2> QED
    BY <1>1, <2>1, EntryOf DEF Points
<1>3. Shape' /\ bot'.gone = bot.gone
  BY EntryReadsStatusDoes
<1>4. CASE UNCHANGED bot /\ Goto(c, "creates")
  <2> DEFINE g == At(c, "creates")
             gs == {g}
  <2>1. Moves(c, Len(stack[c]), gs, {})
    BY <1>1, <1>2, <1>3, <1>4, GotoStep DEF StepDone
  <2>2. g.op = "openNewDeal" /\ g.at = "creates" /\ g.deal = d
    BY <1>2, AtFields
  <2> HIDE DEF d, g
  <2>3. Entered(deal, g)
    BY <1>2, <2>2 DEF Entered
  <2>4. /\ \A h \in gs : h.deal = d
        /\ \A h \in gs : Entered(deal, h)
    BY <2>2, <2>3
  <2> HIDE DEF gs
  <2>5. Entering' \subseteq Entering
    BY <1>2, <2>1, <2>4, EnteringMoved
  <2>6. Cardinality(Entering') <= Cardinality(Entering)
    BY <2>5, CountsFinite, OneMore
  <2>7. /\ Cardinality(OpenDeals) + Cardinality(Entering') <= world.max
        /\ Cardinality(Entering') <= bot'.pending
    BY <1>4, <2>6, CountsFinite, CountsFiniteNext, PendingSteps DEF Few
  <2> QED
    BY <1>1, <1>3, <2>1, <2>4, <2>7, FewEntry
<1>5. CASE bot' = ResetPending /\ Return(c, FALSE)
  <2> DEFINE gs == {}
  <2>1. /\ Moves(c, Len(stack[c]), gs, {})
        /\ \A h \in gs : h.deal = d
        /\ \A h \in gs : ~Counted(h)
        /\ \A h \in gs : Entered(deal, h)
    BY <1>1, <1>3, <1>5, ReturnStep DEF StepDone
  <2> HIDE DEF gs, d
  <2>2. Entering' \subseteq Entering \ {d}
    BY <1>2, <2>1, EnteringMoved
  <2>3. Cardinality(Entering') <= Cardinality(Entering) - 1
    BY <1>2, <2>2, CountsFinite, OneMore
  <2>4. /\ Cardinality(OpenDeals) + Cardinality(Entering') <= world.max
        /\ Cardinality(Entering') <= bot'.pending
    BY <1>5, <2>3, CountsFinite, CountsFiniteNext, PendingSteps DEF Few
  <2> QED
    BY <1>1, <1>3, <2>1, <2>4, FewEntry
<1> QED
  BY <1>1, <1>4, <1>5

\* The deal an entry created is still there when it looks at it.
LEMMA EntryFindsDealFew ==
  ASSUME Shape, Once, Orderly, Orderly', Few, NEW c \in Calls, EntryFindsDeal(c)
  PROVE  Few'
<1> DEFINE d == Top(c).deal
<1>1. Runs(c, "openNewDeal", "created") /\ UNCHANGED <<world, deal>>
  BY DEF EntryFindsDeal
<1>2. /\ d \in Deals /\ c = <<"entry", d>> /\ Len(stack[c]) = 1 /\ Top(c) \in Frames
      /\ Top(c).op = "openNewDeal" /\ deal[d].base = "none" /\ "sends" \in Points
      /\ deal[d].live /\ deal[d].status = "start"
  BY <1>1, EntryOf DEF Points
<1>3. Shape' /\ UNCHANGED bot /\ Goto(c, "sends")
  BY <1>2, EntryFindsDealDoes DEF EntryFindsDeal
<1> DEFINE g == At(c, "sends")
           gs == {g}
<1>4. Moves(c, Len(stack[c]), gs, {})
  BY <1>1, <1>2, <1>3, GotoStep DEF StepDone
<1>5. g.op = "openNewDeal" /\ g.at = "sends" /\ g.deal = d
  BY <1>2, AtFields
<1> HIDE DEF d, g
<1>6. Entered(deal, g) /\ ~Counted(g)
  BY <1>2, <1>5 DEF Entered, Counted
<1>7. /\ \A h \in gs : h.deal = d
      /\ \A h \in gs : Entered(deal, h) /\ ~Counted(h)
  BY <1>5, <1>6
<1> HIDE DEF gs
<1>8. Entering' \subseteq Entering
  BY <1>2, <1>4, <1>7, EnteringMoved
<1>9. Cardinality(Entering') <= Cardinality(Entering)
  BY <1>8, CountsFinite, OneMore
<1>10. /\ Cardinality(OpenDeals) + Cardinality(Entering') <= world.max
       /\ Cardinality(Entering') <= bot'.pending
  BY <1>3, <1>9, CountsFinite, CountsFiniteNext, PendingSteps DEF Few
<1> QED
  BY <1>1, <1>3, <1>4, <1>7, <1>10, FewEntry

\* The other frames of the deal an entry sets: none but what runs for any deal.
LEMMA OthersEntered ==
  ASSUME Shape, Once, Orderly, Few, NEW c \in Calls, NEW d \in Deals, c = <<"entry", d>>,
         Len(stack[c]) = 1, deal[d].base = "none", deal[d].status # "closed",
         \A e \in Deals \ {d} : deal'[e] = deal[e],
         NEW x \in Calls, NEW q \in 1..Len(stack[x]), x = c => q < Len(stack[c])
  PROVE  Entered(deal', FrameNo(x, q))
<1> DEFINE f == FrameNo(x, q)
<1>1. f.deal \in Deals /\ Entered(deal, f)
  BY PostedAt, FrameDeals DEF Orderly, Posted, Few
<1>2. f.op = "openNewDeal" => x = <<"entry", f.deal>> /\ q = 1
  BY DEF Once, Entrant
<1> HIDE DEF f
<1>3. CASE f.deal = d
  <2>1. f.op \notin {"openNewDeal", "startDeal", "processDealClose", "closeDealById"}
    BY <1>1, <1>2, <1>3 DEF Entered
  <2>2. Entered(deal', f)
    BY <2>1 DEF Entered
  <2> QED
    BY <2>2 DEF f
<1>4. CASE f.deal # d
  <2>1. Entered(deal', f)
    BY <1>1, <1>4 DEF Entered
  <2> QED
    BY <2>1 DEF f
<1> QED
  BY <1>3, <1>4

LEMMA CreateDealFew ==
  ASSUME Shape, Once, Orderly, Orderly', Few, NEW c \in Calls, CreateDeal(c)
  PROVE  Few'
<1> DEFINE d == Top(c).deal
           r == [deal[d] EXCEPT !.status = "start", !.stored = "start", !.live = TRUE]
<1>1. /\ Runs(c, "openNewDeal", "creates") /\ Set(d, r) /\ world' = world
      /\ bot' = ResetPending /\ Goto(c, "created")
  BY DEF CreateDeal
<1>2. /\ d \in Deals /\ c = <<"entry", d>> /\ Len(stack[c]) = 1 /\ Top(c) \in Frames
      /\ Top(c).op = "openNewDeal" /\ deal[d].base = "none" /\ deal[d].status = "none"
      /\ deal[d] \in DealTypes /\ d \in Entering
  <2>1. Counted(Top(c))
    BY <1>1, EntryOf DEF Counted
  <2> QED
    BY <1>1, <2>1, EntryOf DEF Opening
<1>3. Shape' /\ Moves(c, Len(stack[c]), {At(c, "created")}, {})
  BY CreateDealDoes
<1> DEFINE g == At(c, "created")
           gs == {g}
           new == {}
<1>4. g.op = "openNewDeal" /\ g.at = "created" /\ g.deal = d
  BY <1>2, AtFields
<1>5. r.status = "start" /\ r.live = TRUE /\ r.base = "none"
  BY <1>2 DEF DealTypes
<1>6. deal'[d] = r /\ \A e \in Deals \ {d} : deal'[e] = deal[e]
  BY <1>1, <1>2 DEF Shape, Set
<1> HIDE DEF d, g, r
<1>7. Entered(deal', g) /\ ~Counted(g)
  BY <1>4, <1>5, <1>6 DEF Entered, Counted
<1>8. /\ \A h \in gs : h.deal = d
      /\ \A h \in gs : ~Counted(h)
      /\ \A h \in gs : Entered(deal', h)
      /\ \A f \in new : Entered(deal', f)
      /\ Moves(c, Len(stack[c]), gs, {})
      /\ Moves(c, Len(stack[c]), gs, new)
  BY <1>3, <1>4, <1>7 DEF g
<1> HIDE DEF gs, new
<1>9. \A x \in Calls : \A q \in 1..Len(stack[x]) :
         (x = c => q < Len(stack[c])) => Entered(deal', FrameNo(x, q))
  BY <1>2, <1>6, OthersEntered
<1>10. \A x \in Calls : \A q \in 1..Len(stack'[x]) : Entered(deal, FrameNo(x, q))'
  BY <1>3, <1>8, <1>9, EnteredMoved
<1>11. Entering' \subseteq Entering \ {d}
  BY <1>2, <1>8, EnteringMoved
<1>12. OpenDeals' \subseteq OpenDeals \cup {d}
  BY <1>6 DEF OpenDeals
<1>13. /\ Cardinality(Entering') <= Cardinality(Entering) - 1
       /\ Cardinality(OpenDeals') <= Cardinality(OpenDeals) + 1
  BY <1>2, <1>11, <1>12, CountsFinite, OneMore
<1>14. /\ Cardinality(OpenDeals') + Cardinality(Entering') <= world.max
       /\ Cardinality(Entering') <= bot'.pending
  BY <1>1, <1>13, CountsFinite, CountsFiniteNext, PendingSteps DEF Few
<1>15. \A e \in Deals : /\ deal'[e].status # "canceled"
                        /\ deal'[e].status = "none" => deal'[e].base = "none"
  BY <1>5, <1>6 DEF Few
<1> QED
  BY <1>1, <1>10, <1>14, <1>15 DEF Few

LEMMA EntrySendsFew ==
  ASSUME Shape, Once, Orderly, Orderly', Few, NEW c \in Calls, EntrySends(c)
  PROVE  Few'
<1> DEFINE d == Top(c).deal
           r == [deal[d] EXCEPT !.base = "resting"]
<1>1. /\ Runs(c, "openNewDeal", "sends") /\ Set(d, r) /\ UNCHANGED <<world, bot>>
  BY DEF EntrySends
<1>2. /\ d \in Deals /\ c = <<"entry", d>> /\ Len(stack[c]) = 1 /\ Top(c) \in Frames
      /\ Top(c).op = "openNewDeal" /\ deal[d].base = "none"
      /\ deal[d].live /\ deal[d].status = "start" /\ deal[d] \in DealTypes
  BY <1>1, EntryOf
<1>3. Shape' /\ Quietly /\ Moves(c, Len(stack[c]), {}, {})
  BY EntrySendsDoes
<1>4. r.status = "start"
  BY <1>2 DEF DealTypes
<1>5. deal'[d] = r /\ \A e \in Deals \ {d} : deal'[e] = deal[e]
  BY <1>1, <1>2 DEF Shape, Set
<1> DEFINE gs == {}
           new == {}
<1>6. /\ \A h \in gs : h.deal = d
      /\ \A h \in gs : ~Counted(h)
      /\ \A h \in gs : Entered(deal', h)
      /\ \A f \in new : Entered(deal', f)
      /\ Moves(c, Len(stack[c]), gs, {})
      /\ Moves(c, Len(stack[c]), gs, new)
  BY <1>3
<1> HIDE DEF gs, new, r, d
<1>7. \A x \in Calls : \A q \in 1..Len(stack[x]) :
         (x = c => q < Len(stack[c])) => Entered(deal', FrameNo(x, q))
  BY <1>2, <1>5, OthersEntered
<1>8. \A x \in Calls : \A q \in 1..Len(stack'[x]) : Entered(deal, FrameNo(x, q))'
  BY <1>3, <1>6, <1>7, EnteredMoved
<1>9. Entering' \subseteq Entering /\ OpenDeals' = OpenDeals
  BY <1>2, <1>3, <1>6, EnteringMoved DEF OpenDeals, Quietly, SameBooks
<1>10. Cardinality(Entering') <= Cardinality(Entering)
  BY <1>9, CountsFinite, OneMore
<1>11. /\ Cardinality(OpenDeals') + Cardinality(Entering') <= world.max
       /\ Cardinality(Entering') <= bot'.pending
  BY <1>1, <1>9, <1>10, CountsFinite, CountsFiniteNext, PendingSteps DEF Few
<1>12. \A e \in Deals : /\ deal'[e].status # "canceled"
                        /\ deal'[e].status = "none" => deal'[e].base = "none"
  BY <1>4, <1>5 DEF Few
<1> QED
  BY <1>1, <1>8, <1>11, <1>12 DEF Few

-----------------------------------------------------------------------------
(* Every step *)

\* Nobody closes a deal by hand.
LEMMA RequestNever ==
  ASSUME Shape, Orderly, Few, NEW c \in Calls,
         \/ CloseBegins(c) \/ CloseCancels(c) \/ CloseReleased(c) \/ CloseStopped(c)
         \/ CloseSweeps(c) \/ CloseGivesWay(c) \/ CloseExecutes(c) \/ CloseWithoutOrder(c)
         \/ CloseRestores(c)
  PROVE  FALSE
<1>1. \E a : Runs(c, "closeDealById", a)
  BY DEF CloseBegins, CloseCancels, CloseReleased, CloseStopped, CloseSweeps, CloseGivesWay,
         CloseExecutes, CloseWithoutOrder, ClosesEmpty, CloseRestores, CloseSends
<1>2. ~Idle(c) /\ Top(c).op = "closeDealById"
  BY <1>1 DEF Runs
<1>3. Entered(deal, Top(c))
  BY <1>2, TopKnown DEF Few
<1> QED
  BY <1>2, <1>3 DEF Entered

LEMMA CallFew ==
  ASSUME Shape, Once, Orderly, Orderly', Few, world.limit = 0, NEW c \in Calls, CallNext(c)
  PROVE  Few'
<1>1. (StartBegins(c) \/ StartOpens(c) \/ SellRemainder(c)) => Few'
  BY StartFew, StartOpensFew
<1>2. (PlaceBegins(c) \/ PlaceLadder(c) \/ PlaceCancels(c) \/ PlaceSends(c)) => Few'
  BY PlaceFew
<1>3. (LevelBooks(c) \/ LevelSizes(c) \/ LevelEnds(c) \/ LevelSells(c)) => Few'
  BY LevelFew
<1>4. (CloseDealBegins(c) \/ CloseDealSettles(c) \/ CloseDealMeasures(c) \/ CloseDealCloses(c)
       \/ CloseDealBooks(c) \/ CloseDealEnds(c)) => Few'
  BY CloseDealFew, CloseDealClosesFew, CloseDealBooksFew
<1>5. (ReleaseBegins(c) \/ ReleaseSweeps(c) \/ ReleaseChecks(c) \/ ReleaseEnds(c)) => Few'
  BY ReleaseFew
<1>6. (EntryCounts(c) \/ EntryReadsStatus(c) \/ CreateDeal(c) \/ EntryFindsDeal(c)
       \/ EntrySends(c)) => Few'
  BY EntryCountsFew, EntryReadsStatusFew, CreateDealFew, EntryFindsDealFew, EntrySendsFew
<1> QED
  BY <1>1, <1>2, <1>3, <1>4, <1>5, <1>6, RequestNever, StopNever DEF CallNext

LEMMA ReportFew ==
  ASSUME Shape, Orderly, Orderly', Few, NEW c \in Calls, Report(c)
  PROVE  Few'
<1>1. /\ Idle(c) /\ Step(c, <<Handler(c)>>, None) /\ Set(c[2], Known(c))
      /\ UNCHANGED <<world, bot>> /\ c \in Executed(c[2])
      /\ c[1] \in {"base", "fill"} \cup SafetyOrders
  BY DEF Report
<1>2. c \in Reports /\ c[2] \in Deals
  <2>1. c \in ({"base", "fill"} \cup SafetyOrders) \X {c[2]}
    BY <1>1 DEF Executed
  <2>2. CASE c \in Levels
    BY <2>1, <2>2 DEF Levels, Reports
  <2>3. CASE c \in {"base", "fill", "sold", "user", "entry"} \X Deals
    BY <2>1, <2>3 DEF Reports
  <2>4. c # <<"stop", 0>>
    BY <1>1, SafetyOrdersAssumption DEF CallNames
  <2>5. c \notin {After(x) : x \in Direct}
    <3> SUFFICES ASSUME NEW x \in Direct, c = After(x) PROVE FALSE
      OBVIOUS
    <3>1. x[1] # "after"
      BY DEF Direct
    <3>2. c[1] = "after"
      BY <3>1 DEF After
    <3> QED
      BY <1>1, <3>2, SafetyOrdersAssumption DEF CallNames
  <2> QED
    BY <2>2, <2>3, <2>4, <2>5 DEF Calls, Direct
<1>3. State(c) = "filled"
  BY <1>1 DEF Executed
<1>4. /\ Shape' /\ Quietly
  BY ReportDoes
<1>5. Based(Known(c), deal[c[2]]) /\ (c[1] = "base" => Known(c).base = "done")
  BY <1>2, <1>3, BasedKnown
<1>6. AllGentle
  BY <1>1, <1>2, <1>4, <1>5, BasedSet, QuietlyGentle
<1>7. deal'[c[2]].base = "done" \/ c[1] # "base"
  BY <1>1, <1>2, <1>5 DEF Set, Shape
<1> DEFINE g == Handler(c)
           gs == {g}
           new == {}
<1>8. g \in Frames /\ g.at = "begin"
  BY <1>2, HandlerType DEF Shape
<1>9. Entered(deal', g) /\ ~Counted(g)
  BY <1>2, <1>7, ReportEntered
<1>10. Step(c, <<g>>, None)
  BY <1>1
<1> HIDE DEF g
<1>11. StepDone(c, 1, {g}, {})
  BY <1>1, <1>8, <1>10, StartStep DEF Shape
<1>12. /\ \A h \in gs : Entered(deal', h) /\ ~Counted(h)
       /\ \A h \in new : Entered(deal', h) /\ ~Counted(h)
       /\ Moves(c, 1, gs, new)
  BY <1>9, <1>11 DEF StepDone
<1> HIDE DEF gs, new
<1> QED
  BY <1>1, <1>4, <1>6, <1>12, FewMoved

\* A signal's deal was never there.
LEMMA AskEntryFew ==
  ASSUME Shape, Orderly, Orderly', Few, NEW d \in Deals, AskEntry(d)
  PROVE  Few'
<1> DEFINE c == <<"entry", d>>
           f == Frame("openNewDeal", NoKey, d, "entry")
           gs == {f}
           new == {}
<1>1. /\ Ask(c, "entry", f) /\ c \in Calls /\ deal[d].status = "none" /\ UNCHANGED deal
  BY DEF AskEntry, Ask, Calls, Direct
<1>2. /\ f \in Frames /\ f.at = "begin" /\ f.op = "openNewDeal" /\ f.deal = d
  BY RequestType DEF Frame, Ways
<1> HIDE DEF c, f
<1>3. Shape' /\ Moves(c, 1, {f}, {}) /\ UNCHANGED <<world, bot>>
  BY <1>1, <1>2, AskDoes
<1>4. AllGentle
  BY <1>1 DEF AllGentle, Gentle
<1>5. Entered(deal', f) /\ ~Counted(f)
  BY <1>1, <1>2 DEF Few, Entered, Counted
<1>6. /\ \A h \in gs : Entered(deal', h) /\ ~Counted(h)
      /\ \A h \in new : Entered(deal', h) /\ ~Counted(h)
      /\ Moves(c, 1, gs, new)
  BY <1>3, <1>5
<1> HIDE DEF gs, new
<1> QED
  BY <1>3, <1>4, <1>6, FewMoved

\* Fills, and what changes nothing.
LEMMA StillFew ==
  ASSUME Shape, Orderly, Few, AllGentle, UNCHANGED <<world, bot, stack>>
  PROVE  Few'
<1>1. ASSUME NEW x \in Calls, NEW q \in 1..Len(stack'[x])
      PROVE  Entered(deal, FrameNo(x, q))'
  <2>1. FrameNo(x, q).deal \in Deals /\ Entered(deal, FrameNo(x, q))
    BY PostedAt, FrameDeals DEF Orderly, Posted, Few
  <2>2. Entered(deal', FrameNo(x, q))
    BY <2>1, GentleEntered
  <2>3. FrameNo(x, q)' = FrameNo(x, q)
    BY DEF FrameNo
  <2> QED
    BY <2>2, <2>3 DEF Entered
<1>2. Entering' = Entering
  BY DEF Entering, Counted, FrameNo
<1>3. OpenDeals' \subseteq OpenDeals
  BY DEF OpenDeals, AllGentle, Gentle, Running
<1>4. Cardinality(OpenDeals') <= Cardinality(OpenDeals)
  BY <1>3, CountsFinite, FS_Subset
<1>5. /\ Cardinality(OpenDeals') + Cardinality(Entering') <= world.max
      /\ Cardinality(Entering') <= bot.pending
  BY <1>2, <1>4, CountsFinite, CountsFiniteNext, PendingSteps DEF Few
<1>6. \A e \in Deals : /\ deal'[e].status # "canceled"
                       /\ deal'[e].status = "none" => deal'[e].base = "none"
  BY DEF Few, AllGentle, Gentle
<1> QED
  BY <1>1, <1>5, <1>6 DEF Few

LEMMA FillsFew ==
  ASSUME Shape, Orderly, Few, NEW d \in Deals,
         BaseFills(d) \/ TpFills(d) \/ \E s \in SafetyOrders : SafetyOrderFills(d, s)
  PROVE  Few'
<1>1. UNCHANGED <<world, bot, stack>> /\ deal[d] \in DealTypes
  BY DEF BaseFills, TpFills, SafetyOrderFills, Shape
<1>2. Quietly
  BY BaseFillsDoes, TpFillsDoes, SafetyOrderFillsDoes
<1>3. AllBased
  <2>1. CASE BaseFills(d)
    <3> DEFINE r == [deal[d] EXCEPT !.base = "filled", !.coins = @ + 1]
    <3>1. Set(d, r) /\ Based(r, deal[d])
      BY <1>1, <2>1 DEF BaseFills, Based, DealTypes
    <3> HIDE DEF r
    <3> QED
      BY <3>1, BasedSet
  <2>2. CASE TpFills(d)
    BY <1>1, <2>2, BasedEdits, BasedSet DEF TpFills
  <2>3. ASSUME NEW s \in SafetyOrders, SafetyOrderFills(d, s)
        PROVE  AllBased
    <3> DEFINE r == [deal[d] EXCEPT !.so[s] = "filled", !.coins = @ + 1]
    <3>1. Set(d, r) /\ Based(r, deal[d])
      BY <1>1, <2>3 DEF SafetyOrderFills, Based, DealTypes
    <3> HIDE DEF r
    <3> QED
      BY <3>1, BasedSet
  <2> QED
    BY <2>1, <2>2, <2>3
<1> QED
  BY <1>1, <1>2, <1>3, QuietlyGentle, StillFew

\* World and requests only add up.
LEMMA SignalsBefore ==
  ASSUME Next, OnlySignals'
  PROVE  OnlySignals
<1>1. world' = world /\ asked \subseteq asked'
  <2>1. ASSUME NEW d, BaseFills(d) \/ TpFills(d) \/ \E s \in SafetyOrders : SafetyOrderFills(d, s)
        PROVE  UNCHANGED <<world, asked>>
    BY <2>1 DEF BaseFills, TpFills, SafetyOrderFills
  <2>2. ASSUME NEW c, Resume(c)
        PROVE  UNCHANGED <<world, asked>>
    BY <2>2, CallAsks DEF Resume, Report
  <2>3. ASSUME Asks
        PROVE  world' = world /\ asked \subseteq asked'
    BY <2>3 DEF Asks, AskStop, AskClose, AskEntry, Ask
  <2> QED
    BY <2>1, <2>2, <2>3 DEF Next
<1> QED
  BY <1>1 DEF OnlySignals

\* A request to stop or to close is no signal.
LEMMA SignalAsks ==
  ASSUME Asks, OnlySignals'
  PROVE  \E d \in Deals : AskEntry(d)
<1>1. PICK how \in Hows : AskStop(how) \/ \E d \in Deals : AskClose(d, how) \/ AskEntry(d)
  BY DEF Asks
<1>2. \A c, f : ~Ask(c, how, f)
  <2> SUFFICES ASSUME NEW c, NEW f, Ask(c, how, f) PROVE FALSE
    OBVIOUS
  <2>1. <<c, how>> \in asked'
    BY DEF Ask
  <2>2. <<c, how>>[2] = how /\ how # "entry"
    BY DEF Hows
  <2> QED
    BY <2>1, <2>2 DEF OnlySignals
<1> QED
  BY <1>1, <1>2 DEF AskStop, AskClose

\* Signals cancel nothing and stop nothing.
LEMMA SignalsUnstopped ==
  ASSUME Shape, Brought, OnlySignals
  PROVE  Unstopped
<1>1. \A r \in asked : r[2] # "cancel" /\ r[1] # <<"stop", 0>>
  BY DEF Brought, OnlySignals
<1>2. ~(world.limit > 0)
  BY DEF OnlySignals
<1> QED
  BY <1>1, <1>2 DEF Unstopped, CancelAsked, Stoppable

LEMMA NextFew ==
  ASSUME Shape, Once, Orderly, Orderly', OnlySignals => Few, Next
  PROVE  (OnlySignals => Few)'
<1> SUFFICES ASSUME OnlySignals' PROVE Few'
  OBVIOUS
<1>1. Few /\ world.limit = 0
  BY SignalsBefore DEF OnlySignals
<1>2. ASSUME NEW d \in Deals,
             BaseFills(d) \/ TpFills(d) \/ \E s \in SafetyOrders : SafetyOrderFills(d, s)
      PROVE  Few'
  BY <1>1, <1>2, FillsFew
<1>3. ASSUME NEW c \in Calls, Resume(c)
      PROVE  Few'
  BY <1>1, <1>3, ReportFew, CallFew DEF Resume
<1>4. ASSUME Asks PROVE Few'
  BY <1>1, <1>4, SignalAsks, AskEntryFew
<1> QED
  BY <1>2, <1>3, <1>4 DEF Next

LEMMA InitFew == Init => Few
<1> SUFFICES ASSUME Init PROVE Few
  OBVIOUS
<1>1. /\ world \in Worlds /\ deal = [d \in Deals |-> NewDeal(world.deals[d])]
      /\ bot.pending = 0 /\ stack = [c \in Calls |-> << >>]
  BY DEF Init
<1>2. world.deals \in [1..N -> {"none", "start", "open"}] /\ world.max \in Nat
  BY <1>1, WorldsAssumption
<1>3. \A d \in Deals : world.deals[d] \in {"none", "start", "open"}
  BY <1>2 DEF Deals
<1>4. \A d \in Deals : /\ deal[d].status = world.deals[d]
                       /\ deal[d].live = (world.deals[d] # "none")
                       /\ world.deals[d] = "none" => deal[d].base = "none"
  BY <1>1, <1>3 DEF NewDeal
<1>5. \A x \in Calls : 1..Len(stack[x]) = {}
  BY <1>1
<1>6. Entering = {}
  BY <1>5 DEF Entering
<1>7. Cardinality(Entering) = 0
  BY <1>6, FS_EmptySet
<1> DEFINE S == {d \in 1..N : world.deals[d] # "none"}
<1>8. Cardinality(S) <= world.max
  BY <1>1, WorldsAssumption
<1>9. IsFiniteSet(S) /\ OpenDeals \subseteq S
  <2>1. S \subseteq Deals /\ IsFiniteSet(Deals)
    BY DealsFinite DEF Deals
  <2>2. IsFiniteSet(S)
    BY <2>1, FS_Subset
  <2>3. OpenDeals \subseteq S
    BY <1>4 DEF OpenDeals, Deals
  <2> QED
    BY <2>2, <2>3
<1>10. /\ Cardinality(OpenDeals) <= Cardinality(S)
       /\ Cardinality(S) \in Nat /\ Cardinality(OpenDeals) \in Nat
  <2> HIDE DEF S
  <2>1. Cardinality(OpenDeals) <= Cardinality(S) /\ IsFiniteSet(OpenDeals)
    BY <1>9, FS_Subset
  <2> QED
    BY <1>9, <2>1, FS_CardinalityType
<1> HIDE DEF S
<1>11. /\ Cardinality(OpenDeals) + Cardinality(Entering) <= world.max
       /\ Cardinality(Entering) <= bot.pending
  BY <1>1, <1>2, <1>7, <1>8, <1>10
<1>12. \A d \in Deals : /\ deal[d].status # "canceled"
                        /\ deal[d].status = "none" => deal[d].base = "none"
  BY <1>3, <1>4
<1> QED
  BY <1>5, <1>11, <1>12 DEF Few

LEMMA FewHolds == Spec => [](OnlySignals => Few)
<1>1. Init => (OnlySignals => Few)
  BY InitFew
<1>2. /\ Shape /\ Once /\ Brought /\ (Unstopped => Orderly) /\ (OnlySignals => Few)
      /\ Shape' /\ Brought' /\ (Unstopped => Orderly)' /\ [Next]_dealVars
      => (OnlySignals => Few)'
  <2> SUFFICES ASSUME Shape, Once, Brought, Unstopped => Orderly, OnlySignals => Few,
                      Shape', Brought', (Unstopped => Orderly)', [Next]_dealVars, OnlySignals'
               PROVE  Few'
    OBVIOUS
  <2>1. CASE Next
    <3>1. Orderly
      BY <2>1, SignalsBefore, SignalsUnstopped
    <3>2. Unstopped'
      <4>1. \A r \in asked' : r[2] # "cancel" /\ r[1] # <<"stop", 0>>
        BY DEF Brought, OnlySignals
      <4>2. ~(world'.limit > 0)
        BY DEF OnlySignals
      <4> QED
        BY <4>1, <4>2 DEF Unstopped, CancelAsked, Stoppable
    <3> QED
      BY <2>1, <3>1, <3>2, NextFew
  <2>2. CASE UNCHANGED dealVars
    <3>1. OnlySignals /\ AllGentle /\ UNCHANGED <<world, bot, stack>>
      BY <2>2 DEF dealVars, OnlySignals, AllGentle, Gentle
    <3> QED
      BY <3>1, SignalsUnstopped, StillFew
  <2> QED
    BY <2>1, <2>2
<1> QED
  BY <1>1, <1>2, ShapeHolds, BroughtHolds, OrderlyHolds, PTL DEF Spec

(***************************************************************************)
(* More deals than the bot may have are never open, however many signals   *)
(* arrive at once: an entry counts itself in the step in which it counts   *)
(* the deals, and gives its place up in the step that makes its deal one   *)
(* that counts; nothing that fills or closes makes a deal count again.     *)
(***************************************************************************)
THEOREM WithinMaxHolds == Spec => []WithinMax
<1>1. Shape /\ Brought /\ (OnlySignals => Few) => WithinMax
  <2> SUFFICES ASSUME Shape, Brought, OnlySignals => Few, SomeStart => OnlySignals
               PROVE  Cardinality(OpenDeals) <= world.max
    BY DEF WithinMax
  <2>1. CASE ~SomeStart
    BY <2>1, FirstDeals
  <2>2. CASE Few
    <3>1. /\ Cardinality(OpenDeals) + Cardinality(Entering) <= world.max
          /\ world.max \in Nat
      BY <2>2, WorldsAssumption DEF Few, Shape
    <3> QED
      BY <3>1, CountsFinite
  <2> QED
    BY <2>1, <2>2
<1> QED
  BY <1>1, ShapeHolds, BroughtHolds, FewHolds, PTL
=============================================================================
