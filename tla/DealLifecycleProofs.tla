------------------------ MODULE DealLifecycleProofs -------------------------
(***************************************************************************)
(* For any number of deals and safety orders and any world: the type       *)
(* invariant of a bot's deals, and that a deal's profit is booked once     *)
(* where the deals are past their start. First the calls and their lines   *)
(* (Shape), what each action does to them, the entry of a deal (Once), and *)
(* what closeDeal makes of its key (Settled).                              *)
(***************************************************************************)
EXTENDS DealLifecycle, FiniteSetTheorems, SequenceTheorems, WellFoundedInduction, TLAPS

(***************************************************************************)
(* The frames of the bot's methods, each with its key.                     *)
(***************************************************************************)
Ops == {"startDeal", "placeOrders", "updateDeal", "closeDeal", "closeDealById",
        "processDealClose", "stop", "openNewDeal"}

Points == {"begin", "opens", "remainder", "placed", "ladder", "resize", "sends", "sizes",
           "sells", "reads", "settles", "measures", "swept", "closes", "sweptBooks",
           "books", "released", "cancels", "sweeps", "sweptFilled", "stopped", "checks",
           "ends", "counted", "creates", "created"}

Ways == {"base", "level", "ladder", "resize", "tp", "none", "release", "market",
         "cancel", "leave", "entry"}

Frames ==
    {f \in [op : Ops, at : Points, key : Keys \cup {NoKey}, deal : Deals \cup {0},
            how : Ways, own : BOOLEAN, deals : SUBSET Deals, todo : SUBSET Deals,
            qty : Int, result : BOOLEAN] :
        /\ f.op # "stop" => f.deal \in Deals
        /\ f.op = "stop" => f.key = NoKey
        /\ f.op = "placeOrders" => f.how \in {"ladder", "resize"}
        /\ f.op = "closeDeal" => f.key = ClosingKey}

\* Frame number q of call x, counted from the one that was there first.
FrameNo(x, q) == stack[x][Len(stack[x]) + 1 - q]

DealTypes == [status : Statuses, live : BOOLEAN, stored : Statuses,
              base : Orders, tp : Orders, so : [SafetyOrders -> Orders],
              tpQty : Int, coins : Int, ledger : Int, sold : Int,
              closing : BOOLEAN, profit : BOOLEAN, booked : Nat, closes : Nat]

BotTypes == [status : {"open", "closed"}, afterTp : BOOLEAN, pending : 0..world.max,
             gone : BOOLEAN]

Tokens == Calls \X Nat
Stacked == /\ stack \in [Calls -> Seq(Frames)]
           /\ line \in [Keys -> Seq(Tokens)]

(***************************************************************************)
(* Whoever runs in a method that has a key is at the head of the key's     *)
(* line, as long as the bot is there.                                      *)
(***************************************************************************)
InTurn(x, q) ==
    LET f == FrameNo(x, q)
    IN (f.key # NoKey /\ f.at # "begin")
         => line[f.key] # << >> /\ Head(line[f.key]) = <<x, q>>
Locked == ~bot.gone => \A x \in Calls : \A q \in 1..Len(stack[x]) : InTurn(x, q)

-----------------------------------------------------------------------------
(* Sequences *)

LEMMA SetToSeqType ==
  ASSUME NEW S, IsFiniteSet(S)
  PROVE  SetToSeq(S) \in Seq(S)
<1>1. PICK f \in [1..Cardinality(S) -> S] : IsInjective(f)
  <2>1. Cardinality(S) \in Nat /\ ExistsBijection(1..Cardinality(S), S)
    BY FS_CardinalityType
  <2>2. PICK f \in Bijection(1..Cardinality(S), S) : TRUE
    BY <2>1 DEF ExistsBijection
  <2> QED
    BY <2>2 DEF Bijection, Injection, IsInjective
<1>2. SetToSeq(S) \in [1..Cardinality(S) -> S]
  BY <1>1 DEF SetToSeq
<1>3. Cardinality(S) \in Nat
  BY FS_CardinalityType
<1> QED
  BY <1>2, <1>3, SeqDef

LEMMA TopChanged ==
  ASSUME NEW S, NEW s \in Seq(S), s # << >>, NEW g \in S
  PROVE  LET t == <<g>> \o Tail(s)
         IN /\ t \in Seq(S) /\ Len(t) = Len(s) /\ t[1] = g
            /\ \A i \in 2..Len(s) : t[i] = s[i]
BY HeadTailProperties

LEMMA TopPushed ==
  ASSUME NEW S, NEW s \in Seq(S), s # << >>, NEW f \in S, NEW g \in S
  PROVE  LET t == <<f>> \o (<<g>> \o Tail(s))
         IN /\ t \in Seq(S) /\ Len(t) = Len(s) + 1 /\ t[1] = f /\ t[2] = g
            /\ \A i \in 2..Len(s) : t[i + 1] = s[i]
            /\ <<f, g>> \o Tail(s) = t
<1> DEFINE t == <<f>> \o (<<g>> \o Tail(s))
           u == <<f, g>> \o Tail(s)
<1>1. Tail(s) \in Seq(S) /\ Len(Tail(s)) = Len(s) - 1 /\ \A i \in 1..(Len(s) - 1) : Tail(s)[i] = s[i + 1]
  BY HeadTailProperties
<1>2. Len(s) \in Nat /\ Len(s) > 0
  BY EmptySeq
<1> HIDE DEF t, u
<1>3. t \in Seq(S) /\ Len(t) = Len(s) + 1 /\ t[1] = f /\ t[2] = g
  BY <1>1, <1>2 DEF t
<1>4. \A i \in 1..(Len(s) - 1) : t[i + 2] = Tail(s)[i]
  BY <1>1, <1>2 DEF t
<1>5. u \in Seq(S) /\ Len(u) = Len(s) + 1 /\ u[1] = f /\ u[2] = g
  BY <1>1, <1>2 DEF u
<1>6. \A i \in 1..(Len(s) - 1) : u[i + 2] = Tail(s)[i]
  BY <1>1, <1>2 DEF u
<1>7. \A i \in 2..Len(s) : t[i + 1] = s[i]
  <2> TAKE i \in 2..Len(s)
  <2>1. i - 1 \in 1..(Len(s) - 1) /\ (i - 1) + 2 = i + 1 /\ (i - 1) + 1 = i
    BY <1>2
  <2> QED
    BY <2>1, <1>1, <1>4
<1>8. \A i \in 1..Len(t) : t[i] = u[i]
  <2> TAKE i \in 1..Len(t)
  <2>1. CASE i > 2
    <3>1. i - 2 \in 1..(Len(s) - 1) /\ (i - 2) + 2 = i
      BY <1>2, <1>3, <2>1
    <3> QED
      BY <3>1, <1>4, <1>6
  <2> QED
    BY <2>1, <1>2, <1>3, <1>5
<1>9. t = u
  BY <1>3, <1>5, <1>8, SeqEqual
<1> QED
  BY <1>3, <1>7, <1>9 DEF t, u

LEMMA TopPopped ==
  ASSUME NEW s \in Seq(Frames), s # << >>, NEW v \in BOOLEAN
  PROVE  LET rest == Tail(s)
             t == IF rest = << >> THEN rest
                  ELSE <<[Head(rest) EXCEPT !.result = v]>> \o Tail(rest)
         IN /\ t \in Seq(Frames) /\ Len(t) = Len(s) - 1
            /\ Len(s) > 1 => t[1] = [s[2] EXCEPT !.result = v]
            /\ \A i \in 2..(Len(s) - 1) : t[i] = s[i + 1]
<1> DEFINE rest == Tail(s)
           g == [Head(rest) EXCEPT !.result = v]
           t == IF rest = << >> THEN rest ELSE <<g>> \o Tail(rest)
<1>1. /\ rest \in Seq(Frames) /\ Len(rest) = Len(s) - 1
      /\ \A i \in 1..(Len(s) - 1) : rest[i] = s[i + 1]
  BY HeadTailProperties
<1>2. Len(s) \in Nat /\ Len(s) > 0
  BY EmptySeq
<1>3. CASE rest = << >>
  <2>1. Len(s) = 1 /\ t = << >> /\ t \in Seq(Frames) /\ Len(t) = 0
    BY <1>1, <1>2, <1>3, EmptySeq
  <2> QED
    BY <2>1
<1>4. CASE rest # << >>
  <2>1. Head(rest) \in Frames /\ Head(rest) = rest[1]
    BY <1>1, <1>4, HeadTailProperties
  <2>2. g \in Frames
    BY <2>1 DEF Frames
  <2>3. Len(s) > 1
    BY <1>1, <1>2, <1>4, EmptySeq
  <2>4. g = [s[2] EXCEPT !.result = v]
    <3>1. 1 \in 1..(Len(s) - 1) /\ 1 + 1 = 2
      BY <2>3, <1>2
    <3>2. Head(rest) = s[2]
      BY <2>1, <3>1, <1>1
    <3> QED
      BY <3>2
  <2> HIDE DEF g, rest
  <2>5. /\ t \in Seq(Frames) /\ Len(t) = Len(rest) /\ t[1] = g
        /\ \A i \in 2..Len(rest) : t[i] = rest[i]
    BY <1>1, <1>4, <2>2, TopChanged
  <2>6. \A i \in 2..(Len(s) - 1) : t[i] = s[i + 1]
    BY <2>5, <1>1, <1>2
  <2>7. t \in Seq(Frames) /\ Len(t) = Len(s) - 1 /\ t[1] = [s[2] EXCEPT !.result = v]
    BY <2>4, <2>5, <1>1
  <2> HIDE DEF t
  <2>8. /\ t \in Seq(Frames) /\ Len(t) = Len(s) - 1
        /\ Len(s) > 1 => t[1] = [s[2] EXCEPT !.result = v]
        /\ \A i \in 2..(Len(s) - 1) : t[i] = s[i + 1]
    BY <2>6, <2>7
  <2> QED
    BY <2>8 DEF t, g, rest
<1> QED
  BY <1>3, <1>4

-----------------------------------------------------------------------------
(* One step of a call *)

\* The calls a step leaves to run by themselves.
Spawns(spawn) ==
    /\ IsFiniteSet(DOMAIN spawn)
    /\ \A x \in DOMAIN spawn : /\ spawn[x] \in Frames /\ spawn[x].at = "begin"
                               /\ x \in Calls \/ spawn[x].key = NoKey

LEMMA KeysApart ==
  /\ NoKey \notin Keys
  /\ ClosingKey \in Keys /\ ReleaseKey \in Keys
  /\ \A d \in Deals : DealKey(d) \in Keys /\ UpdateKey(d) \in Keys
BY DEF Keys, NoKey, ClosingKey, ReleaseKey, DealKey, UpdateKey

(***************************************************************************)
(* What a step does to the stacks and to the line of a key.                *)
(***************************************************************************)
Releases(c, frames, k) ==
    /\ Len(frames) < Len(stack[c]) /\ Top(c).key = k
    /\ <<c, Len(stack[c])>> \in Range(line[k])

LEMMA StepShape ==
  ASSUME Stacked, NEW c \in Calls, NEW frames \in Seq(Frames), NEW spawn, Spawns(spawn),
         Step(c, frames, spawn)
  PROVE  /\ Stacked'
         /\ stack'[c] = frames
         /\ \A x \in Calls \ {c} :
              \/ stack'[x] = stack[x]
              \/ stack[x] = << >> /\ x \in DOMAIN spawn /\ stack'[x] = <<spawn[x]>>
         /\ \A k \in Keys : \E s \in Seq(Tokens) :
              line'[k] = (IF Releases(c, frames, k) THEN Tail(line[k]) ELSE line[k]) \o s
<1> DEFINE fresh == {x \in DOMAIN spawn : Idle(x)}
           grown == IF Len(frames) > Len(stack[c]) THEN {<<c, Len(frames)>>} ELSE {}
           keyOf(t) == IF t[1] = c THEN Head(frames).key ELSE spawn[t[1]].key
           asking(k) == {t \in grown \cup {<<x, 1>> : x \in fresh} : keyOf(t) = k}
<1>1. /\ stack' = [x \in Calls |-> IF x = c THEN frames
                                   ELSE IF x \in fresh THEN <<spawn[x]>> ELSE stack[x]]
      /\ line' = [k \in Keys |-> (IF Releases(c, frames, k) THEN Tail(line[k]) ELSE line[k])
                                 \o SetToSeq(asking(k))]
  BY DEF Step, Releases
<1>2. Len(frames) \in Nat /\ Len(stack[c]) \in Nat
  BY DEF Stacked
<1>3. \A k \in Keys : SetToSeq(asking(k)) \in Seq(Tokens)
  <2> TAKE k \in Keys
  <2>1. IsFiniteSet(fresh)
    BY FS_Subset DEF Spawns
  <2>2. IsFiniteSet({<<x, 1>> : x \in fresh})
    <3> DEFINE T == {<<x, 1>> : x \in fresh}
               h == [x \in fresh |-> <<x, 1>>]
    <3>1. h \in Surjection(fresh, T)
      BY DEF Surjection
    <3> QED
      BY <2>1, <3>1, FS_Surjection
  <2>3. IsFiniteSet(grown)
    BY FS_EmptySet, FS_Singleton
  <2>4. IsFiniteSet(asking(k))
    BY <2>2, <2>3, FS_Union, FS_Subset
  <2>5. asking(k) \subseteq Tokens
    <3> SUFFICES ASSUME NEW t \in asking(k) PROVE t \in Tokens
      OBVIOUS
    <3>1. CASE t \in grown
      BY <3>1, <1>2 DEF Tokens
    <3>2. CASE t \notin grown
      <4>1. PICK x \in fresh : t = <<x, 1>>
        BY <3>2
      <4>2. t[1] = x /\ (x = c \/ spawn[x].key = k)
        BY <4>1
      <4>3. x \in Calls
        BY <4>1, <4>2, KeysApart DEF Spawns
      <4> QED
        BY <4>1, <4>3 DEF Tokens
    <3> QED
      BY <3>1, <3>2
  <2>6. SetToSeq(asking(k)) \in Seq(asking(k))
    BY <2>4, SetToSeqType
  <2> QED
    BY <2>5, <2>6, SeqMonotonic
<1> HIDE DEF asking
<1>4. \A x \in Calls : stack'[x] \in Seq(Frames)
  BY <1>1 DEF Stacked, Spawns
<1>5. \A k \in Keys : line'[k] \in Seq(Tokens)
  <2> TAKE k \in Keys
  <2>1. line[k] \in Seq(Tokens)
    BY DEF Stacked
  <2>2. Releases(c, frames, k) => line[k] # << >>
    BY <2>1 DEF Releases, Range
  <2>3. (IF Releases(c, frames, k) THEN Tail(line[k]) ELSE line[k]) \in Seq(Tokens)
    BY <2>1, <2>2, HeadTailProperties
  <2> QED
    BY <2>3, <1>1, <1>3, ConcatProperties
<1>6. Stacked'
  BY <1>1, <1>4, <1>5 DEF Stacked
<1>7. \A x \in Calls \ {c} :
              \/ stack'[x] = stack[x]
              \/ stack[x] = << >> /\ x \in DOMAIN spawn /\ stack'[x] = <<spawn[x]>>
  BY <1>1 DEF Idle
<1>8. \A k \in Keys : \E s \in Seq(Tokens) :
              line'[k] = (IF Releases(c, frames, k) THEN Tail(line[k]) ELSE line[k]) \o s
  BY <1>1, <1>3
<1> QED
  BY <1>1, <1>6, <1>7, <1>8

(***************************************************************************)
(* How the frames change when call c goes on: the one with number p is     *)
(* replaced by one of gs, the ones above it go, those in new arrive, and   *)
(* of the rest no more than the value an awaited method returns changes.   *)
(***************************************************************************)
Moves(c, p, gs, new) ==
    \A x \in Calls : \A q \in 1..Len(stack'[x]) :
        LET f == stack'[x][Len(stack'[x]) + 1 - q]
        IN \/ f \in new
           \/ x = c /\ q = p /\ f \in gs
           \/ /\ q \in 1..Len(stack[x])
              /\ x = c => q < p
              /\ f = [FrameNo(x, q) EXCEPT !.result = f.result]

\* What the step of a call comes to.
StepDone(c, p, gs, new) == Stacked' /\ Locked' /\ Moves(c, p, gs, new)

LEMMA FrameTypes ==
  ASSUME Stacked
  PROVE  /\ \A x \in Calls : /\ stack[x] \in Seq(Frames) /\ Len(stack[x]) \in Nat
                             /\ \A i \in 1..Len(stack[x]) : stack[x][i] \in Frames
                             /\ \A q \in 1..Len(stack[x]) : FrameNo(x, q) \in Frames
                             /\ ~Idle(x) => /\ Len(stack[x]) > 0
                                            /\ Top(x) = stack[x][1]
                                            /\ Top(x) = FrameNo(x, Len(stack[x]))
                                            /\ Top(x) \in Frames
         /\ \A k \in Keys : line[k] \in Seq(Tokens)
<1>1. \A k \in Keys : line[k] \in Seq(Tokens)
  BY DEF Stacked
<1> SUFFICES ASSUME NEW x \in Calls
             PROVE  /\ stack[x] \in Seq(Frames) /\ Len(stack[x]) \in Nat
                    /\ \A i \in 1..Len(stack[x]) : stack[x][i] \in Frames
                    /\ \A q \in 1..Len(stack[x]) : FrameNo(x, q) \in Frames
                    /\ ~Idle(x) => /\ Len(stack[x]) > 0
                                   /\ Top(x) = stack[x][1]
                                   /\ Top(x) = FrameNo(x, Len(stack[x]))
                                   /\ Top(x) \in Frames
  BY <1>1
<1>2. stack[x] \in Seq(Frames) /\ Len(stack[x]) \in Nat
  BY DEF Stacked
<1>3. \A i \in 1..Len(stack[x]) : stack[x][i] \in Frames
  BY <1>2
<1>4. \A q \in 1..Len(stack[x]) : FrameNo(x, q) \in Frames
  BY <1>2, <1>3 DEF FrameNo
<1>5. ASSUME ~Idle(x)
      PROVE  /\ Len(stack[x]) > 0 /\ Top(x) = stack[x][1]
             /\ Top(x) = FrameNo(x, Len(stack[x])) /\ Top(x) \in Frames
  <2>1. Len(stack[x]) > 0
    BY <1>2, <1>5, EmptySeq DEF Idle
  <2>2. Top(x) = stack[x][1]
    BY <1>2, <1>5, HeadTailProperties DEF Idle, Top
  <2> QED
    BY <1>2, <1>3, <2>1, <2>2 DEF FrameNo
<1> QED
  BY <1>2, <1>3, <1>4, <1>5

LEMMA HoldsHead ==
  ASSUME Stacked, Locked, ~bot.gone, NEW c \in Calls, ~Idle(c), Holds(c), Top(c).key # NoKey
  PROVE  line[Top(c).key] # << >> /\ Head(line[Top(c).key]) = <<c, Len(stack[c])>>
<1>1. CASE Top(c).at = "begin"
  BY <1>1 DEF Holds
<1>2. CASE Top(c).at # "begin"
  <2>1. Len(stack[c]) \in 1..Len(stack[c]) /\ Top(c) = FrameNo(c, Len(stack[c]))
    BY FrameTypes
  <2>2. InTurn(c, Len(stack[c]))
    BY <2>1 DEF Locked
  <2> QED
    BY <1>2, <2>1, <2>2 DEF InTurn
<1> QED
  BY <1>1, <1>2

LEMMA LineKept ==
  ASSUME NEW s \in Seq(Tokens), s # << >>, NEW t \in Seq(Tokens)
  PROVE  s \o t # << >> /\ Head(s \o t) = Head(s)
<1>1. Len(s) \in Nat /\ Len(s) > 0
  BY EmptySeq
<1>2. s \o t \in Seq(Tokens) /\ Len(s \o t) = Len(s) + Len(t) /\ (s \o t)[1] = s[1]
  BY <1>1
<1>3. s \o t # << >>
  BY <1>1, <1>2
<1> QED
  BY <1>2, <1>3, HeadTailProperties

(***************************************************************************)
(* A step keeps whoever runs at the head of the line: what arrives has not *)
(* begun, and only the head leaves.                                        *)
(***************************************************************************)
LEMMA StepLocked ==
  ASSUME Stacked, Locked, ~bot.gone' => ~bot.gone,
         NEW c \in Calls, NEW frames \in Seq(Frames), NEW spawn, Spawns(spawn),
         Step(c, frames, spawn), Idle(c) \/ Holds(c),
         NEW p \in Nat, NEW gs, NEW new, Moves(c, p, gs, new),
         \A f \in new : f.at = "begin",
         ~Idle(c) => p = Len(stack[c]),
         \A g \in gs : \/ g.at = "begin" \/ g.key = NoKey
                       \/ /\ ~Idle(c) /\ g.key = Top(c).key
                          /\ Len(frames) >= Len(stack[c])
  PROVE  Locked'
<1> SUFFICES ASSUME ~bot.gone', NEW x \in Calls, NEW q \in 1..Len(stack'[x]),
                    FrameNo(x, q)'.key # NoKey, FrameNo(x, q)'.at # "begin"
             PROVE  /\ line'[FrameNo(x, q)'.key] # << >>
                    /\ Head(line'[FrameNo(x, q)'.key]) = <<x, q>>
  BY DEF Locked, InTurn
<1> DEFINE f == FrameNo(x, q)'
           k == FrameNo(x, q)'.key
<1>0. ~bot.gone
  OBVIOUS
<1>1. Stacked'
  BY StepShape
<1>2. f \in Frames
  <2>1. stack'[x] \in Seq(Frames)
    BY <1>1 DEF Stacked
  <2>2. Len(stack'[x]) + 1 - q \in 1..Len(stack'[x])
    BY <2>1
  <2> QED
    BY <2>1, <2>2 DEF FrameNo
<1>3. k \in Keys
  BY <1>2 DEF Frames
<1>4. line[k] \in Seq(Tokens)
  BY <1>3, FrameTypes
<1>5. PICK s \in Seq(Tokens) :
        line'[k] = (IF Releases(c, frames, k) THEN Tail(line[k]) ELSE line[k]) \o s
  <2>1. \A j \in Keys : \E s \in Seq(Tokens) :
        line'[j] = (IF Releases(c, frames, j) THEN Tail(line[j]) ELSE line[j]) \o s
    BY StepShape
  <2> HIDE DEF k
  <2> QED
    BY <2>1, <1>3
<1>6. Releases(c, frames, k) => ~Idle(c) /\ Head(line[k]) = <<c, Len(stack[c])>>
  <2> SUFFICES ASSUME Releases(c, frames, k)
               PROVE  ~Idle(c) /\ Head(line[k]) = <<c, Len(stack[c])>>
    OBVIOUS
  <2>1. Len(frames) \in Nat /\ stack[c] \in Seq(Frames)
    BY FrameTypes
  <2>2. ~Idle(c)
    BY <2>1 DEF Releases, Idle
  <2>3. Top(c).key = k /\ k # NoKey
    BY <1>3, KeysApart DEF Releases
  <2> QED
    BY <2>2, <2>3, <1>0, HoldsHead
<1>7. \/ x = c /\ q = p /\ f \in gs
      \/ /\ q \in 1..Len(stack[x])
         /\ x = c => q < p
         /\ f = [FrameNo(x, q) EXCEPT !.result = f.result]
  BY DEF Moves, FrameNo
<1>8. CASE x = c /\ q = p /\ f \in gs
  <2>1. ~Idle(c) /\ k = Top(c).key /\ ~(Len(frames) < Len(stack[c]))
    <3>1. Len(frames) \in Nat /\ Len(stack[c]) \in Nat
      BY FrameTypes
    <3> QED
      BY <3>1, <1>8
  <2>2. line[k] # << >> /\ Head(line[k]) = <<c, Len(stack[c])>>
    BY <2>1, <1>0, HoldsHead
  <2>3. line'[k] = line[k] \o s
    BY <2>1, <1>5 DEF Releases
  <2> QED
    BY <2>1, <2>2, <2>3, <1>4, <1>8, LineKept
<1>9. CASE /\ q \in 1..Len(stack[x])
           /\ x = c => q < p
           /\ f = [FrameNo(x, q) EXCEPT !.result = f.result]
  <2>1. FrameNo(x, q) \in Frames
    BY <1>9, FrameTypes
  <2>2. FrameNo(x, q).key = k /\ FrameNo(x, q).at # "begin"
    BY <2>1, <1>9 DEF Frames
  <2>3. line[k] # << >> /\ Head(line[k]) = <<x, q>>
    BY <2>2, <1>0, <1>9 DEF Locked, InTurn
  <2>4. ~Releases(c, frames, k)
    <3> SUFFICES ASSUME Releases(c, frames, k) PROVE FALSE
      OBVIOUS
    <3>1. x = c /\ q = Len(stack[c]) /\ p = Len(stack[c])
      BY <2>3, <1>6
    <3> QED
      BY <3>1, <1>9
  <2> QED
    BY <2>3, <2>4, <1>4, <1>5, LineKept
<1> QED
  BY <1>7, <1>8, <1>9

\* The frames a step leaves to run by themselves.
Spawned(spawn) == {spawn[x] : x \in DOMAIN spawn}

LEMMA OthersMove ==
  ASSUME Stacked, NEW c \in Calls, NEW frames \in Seq(Frames), NEW spawn, Spawns(spawn),
         Step(c, frames, spawn)
  PROVE  /\ stack'[c] = frames
         /\ \A x \in Calls \ {c} : \A q \in 1..Len(stack'[x]) :
              LET f == stack'[x][Len(stack'[x]) + 1 - q]
              IN \/ f \in Spawned(spawn)
                 \/ q \in 1..Len(stack[x]) /\ f = [FrameNo(x, q) EXCEPT !.result = f.result]
<1>1. /\ stack'[c] = frames
      /\ \A x \in Calls \ {c} :
              \/ stack'[x] = stack[x]
              \/ stack[x] = << >> /\ x \in DOMAIN spawn /\ stack'[x] = <<spawn[x]>>
  BY StepShape
<1> SUFFICES ASSUME NEW x \in Calls \ {c}, NEW q \in 1..Len(stack'[x])
             PROVE  LET f == stack'[x][Len(stack'[x]) + 1 - q]
                    IN \/ f \in Spawned(spawn)
                       \/ q \in 1..Len(stack[x]) /\ f = [FrameNo(x, q) EXCEPT !.result = f.result]
  BY <1>1
<1>2. CASE stack'[x] = stack[x]
  <2>1. FrameNo(x, q) \in Frames /\ q \in 1..Len(stack[x])
    BY <1>2, FrameTypes
  <2>2. FrameNo(x, q) = [FrameNo(x, q) EXCEPT !.result = FrameNo(x, q).result]
    BY <2>1 DEF Frames
  <2> QED
    BY <1>2, <2>1, <2>2 DEF FrameNo
<1>3. CASE x \in DOMAIN spawn /\ stack'[x] = <<spawn[x]>>
  <2>1. q = 1 /\ stack'[x][Len(stack'[x]) + 1 - q] = spawn[x]
    BY <1>3
  <2> QED
    BY <1>3, <2>1 DEF Spawned
<1> QED
  BY <1>1, <1>2, <1>3

LEMMA SpawnedNew ==
  ASSUME NEW spawn, Spawns(spawn)
  PROVE  \A f \in Spawned(spawn) : f.at = "begin"
BY DEF Spawns, Spawned

LEMMA NoneSpawns == Spawns(None) /\ Spawned(None) = {}
<1>1. DOMAIN None = {}
  BY DEF None
<1> QED
  BY <1>1, FS_EmptySet DEF Spawns, Spawned

LEMMA MoveStep ==
  ASSUME Stacked, Locked, ~bot.gone' => ~bot.gone,
         NEW c \in Calls, ~Idle(c), Holds(c), NEW g \in Frames, g.key = Top(c).key,
         NEW spawn, Spawns(spawn), Step(c, <<g>> \o Tail(stack[c]), spawn)
  PROVE  StepDone(c, Len(stack[c]), {g}, Spawned(spawn))
<1> DEFINE frames == <<g>> \o Tail(stack[c])
<1>1. /\ frames \in Seq(Frames) /\ Len(frames) = Len(stack[c]) /\ frames[1] = g
      /\ \A i \in 2..Len(stack[c]) : frames[i] = stack[c][i]
  BY TopChanged, FrameTypes DEF Idle
<1> HIDE DEF frames
<1>2. Step(c, frames, spawn)
  BY DEF frames
<1>3. Moves(c, Len(stack[c]), {g}, Spawned(spawn))
  <2> SUFFICES ASSUME NEW q \in 1..Len(frames)
               PROVE  LET f == frames[Len(frames) + 1 - q]
                      IN \/ q = Len(stack[c]) /\ f \in {g}
                         \/ /\ q \in 1..Len(stack[c]) /\ q < Len(stack[c])
                            /\ f = [FrameNo(c, q) EXCEPT !.result = f.result]
    BY <1>1, <1>2, OthersMove DEF Moves
  <2>1. CASE q = Len(stack[c])
    BY <1>1, <2>1, FrameTypes
  <2>2. CASE q # Len(stack[c])
    <3>1. q < Len(stack[c]) /\ q \in 1..Len(stack[c]) /\ Len(stack[c]) + 1 - q \in 2..Len(stack[c])
      BY <1>1, <2>2, FrameTypes
    <3>2. frames[Len(frames) + 1 - q] = FrameNo(c, q) /\ FrameNo(c, q) \in Frames
      BY <3>1, <1>1, FrameTypes DEF FrameNo
    <3>3. FrameNo(c, q) = [FrameNo(c, q) EXCEPT !.result = FrameNo(c, q).result]
      BY <3>2 DEF Frames
    <3> QED
      BY <3>1, <3>2, <3>3
  <2> QED
    BY <2>1, <2>2
<1>4. Stacked'
  BY <1>1, <1>2, StepShape
<1>5. Len(stack[c]) \in Nat /\ Len(frames) >= Len(stack[c])
  BY <1>1, FrameTypes
<1>6. Locked'
  BY <1>1, <1>2, <1>3, <1>5, StepLocked, SpawnedNew
<1> QED
  BY <1>3, <1>4, <1>6 DEF StepDone

LEMMA PushStep ==
  ASSUME Stacked, Locked, ~bot.gone' => ~bot.gone,
         NEW c \in Calls, ~Idle(c), Holds(c), NEW g \in Frames, g.key = Top(c).key,
         NEW f \in Frames, f.at = "begin", Step(c, <<f>> \o (<<g>> \o Tail(stack[c])), None)
  PROVE  StepDone(c, Len(stack[c]), {g}, {f})
<1> DEFINE frames == <<f>> \o (<<g>> \o Tail(stack[c]))
<1>1. /\ frames \in Seq(Frames) /\ Len(frames) = Len(stack[c]) + 1
      /\ frames[1] = f /\ frames[2] = g
      /\ \A i \in 2..Len(stack[c]) : frames[i + 1] = stack[c][i]
  BY TopPushed, FrameTypes DEF Idle
<1> HIDE DEF frames
<1>2. Step(c, frames, None)
  BY DEF frames
<1>3. Moves(c, Len(stack[c]), {g}, {f})
  <2> SUFFICES ASSUME NEW q \in 1..Len(frames)
               PROVE  LET h == frames[Len(frames) + 1 - q]
                      IN \/ h = f
                         \/ q = Len(stack[c]) /\ h = g
                         \/ /\ q \in 1..Len(stack[c]) /\ q < Len(stack[c])
                            /\ h = [FrameNo(c, q) EXCEPT !.result = h.result]
    <3>1. /\ stack'[c] = frames
          /\ \A x \in Calls \ {c} : \A q \in 1..Len(stack'[x]) :
               LET h == stack'[x][Len(stack'[x]) + 1 - q]
               IN q \in 1..Len(stack[x]) /\ h = [FrameNo(x, q) EXCEPT !.result = h.result]
      BY <1>1, <1>2, OthersMove, NoneSpawns
    <3> QED
      BY <3>1 DEF Moves
  <2>1. CASE q = Len(frames)
    BY <1>1, <2>1, FrameTypes
  <2>2. CASE q = Len(stack[c])
    BY <1>1, <2>2, FrameTypes
  <2>3. CASE q < Len(stack[c])
    <3>1. /\ q \in 1..Len(stack[c]) /\ Len(stack[c]) + 1 - q \in 2..Len(stack[c])
          /\ Len(frames) + 1 - q = (Len(stack[c]) + 1 - q) + 1
      BY <1>1, <2>3, FrameTypes
    <3>2. frames[Len(frames) + 1 - q] = FrameNo(c, q) /\ FrameNo(c, q) \in Frames
      BY <3>1, <1>1, FrameTypes DEF FrameNo
    <3>3. FrameNo(c, q) = [FrameNo(c, q) EXCEPT !.result = FrameNo(c, q).result]
      BY <3>2 DEF Frames
    <3> QED
      BY <2>3, <3>1, <3>2, <3>3
  <2> QED
    BY <1>1, <2>1, <2>2, <2>3, FrameTypes
<1>4. Stacked'
  BY <1>1, <1>2, StepShape, NoneSpawns
<1>5. Len(stack[c]) \in Nat /\ Len(frames) >= Len(stack[c])
  BY <1>1, FrameTypes
<1>6. Locked'
  BY <1>1, <1>2, <1>3, <1>5, StepLocked, NoneSpawns
<1> QED
  BY <1>3, <1>4, <1>6 DEF StepDone

LEMMA ReturnedFrames ==
  ASSUME Stacked, NEW c \in Calls, ~Idle(c), NEW v \in BOOLEAN
  PROVE  /\ Returned(c, v) \in Seq(Frames) /\ Len(Returned(c, v)) = Len(stack[c]) - 1
         /\ \A q \in 1..Len(Returned(c, v)) :
              LET h == Returned(c, v)[Len(Returned(c, v)) + 1 - q]
              IN /\ q \in 1..Len(stack[c]) /\ q < Len(stack[c])
                 /\ h = [FrameNo(c, q) EXCEPT !.result = h.result]
<1> DEFINE frames == Returned(c, v)
<1>1. /\ frames \in Seq(Frames) /\ Len(frames) = Len(stack[c]) - 1
      /\ Len(stack[c]) > 1 => frames[1] = [stack[c][2] EXCEPT !.result = v]
      /\ \A i \in 2..(Len(stack[c]) - 1) : frames[i] = stack[c][i + 1]
  BY TopPopped, FrameTypes DEF Returned, Idle
<1> HIDE DEF frames
<1>2. ASSUME NEW q \in 1..Len(frames)
      PROVE  LET h == frames[Len(frames) + 1 - q]
             IN /\ q \in 1..Len(stack[c]) /\ q < Len(stack[c])
                /\ h = [FrameNo(c, q) EXCEPT !.result = h.result]
  <2>1. q \in 1..Len(stack[c]) /\ q < Len(stack[c]) /\ Len(stack[c]) \in Nat
    BY <1>1, FrameTypes
  <2>2. FrameNo(c, q) \in Frames
    BY <2>1, FrameTypes
  <2>3. CASE q = Len(frames)
    <3>1. frames[Len(frames) + 1 - q] = [FrameNo(c, q) EXCEPT !.result = v]
      BY <1>1, <2>1, <2>3 DEF FrameNo
    <3>2. [FrameNo(c, q) EXCEPT !.result = v].result = v
      BY <2>2 DEF Frames
    <3> QED
      BY <2>1, <3>1, <3>2
  <2>4. CASE q < Len(frames)
    <3>1. /\ Len(frames) + 1 - q \in 2..(Len(stack[c]) - 1)
          /\ Len(stack[c]) + 1 - q = (Len(frames) + 1 - q) + 1
      BY <1>1, <2>1, <2>4
    <3>2. frames[Len(frames) + 1 - q] = FrameNo(c, q)
      BY <3>1, <1>1 DEF FrameNo
    <3>3. FrameNo(c, q) = [FrameNo(c, q) EXCEPT !.result = FrameNo(c, q).result]
      BY <2>2 DEF Frames
    <3> QED
      BY <2>1, <3>2, <3>3
  <2> QED
    BY <1>1, <2>1, <2>3, <2>4
<1> QED
  BY <1>1, <1>2 DEF frames

LEMMA PopStep ==
  ASSUME Stacked, Locked, ~bot.gone' => ~bot.gone,
         NEW c \in Calls, ~Idle(c), Holds(c), NEW v \in BOOLEAN,
         NEW spawn, Spawns(spawn), Step(c, Returned(c, v), spawn)
  PROVE  StepDone(c, Len(stack[c]), {}, Spawned(spawn))
<1> DEFINE frames == Returned(c, v)
<1>1. /\ frames \in Seq(Frames) /\ Len(frames) = Len(stack[c]) - 1
      /\ \A q \in 1..Len(frames) :
           LET h == frames[Len(frames) + 1 - q]
           IN /\ q \in 1..Len(stack[c]) /\ q < Len(stack[c])
              /\ h = [FrameNo(c, q) EXCEPT !.result = h.result]
  BY ReturnedFrames
<1> HIDE DEF frames
<1>2. Step(c, frames, spawn)
  BY DEF frames
<1>3. Moves(c, Len(stack[c]), {}, Spawned(spawn))
  <2>1. /\ stack'[c] = frames
        /\ \A x \in Calls \ {c} : \A q \in 1..Len(stack'[x]) :
             LET h == stack'[x][Len(stack'[x]) + 1 - q]
             IN \/ h \in Spawned(spawn)
                \/ q \in 1..Len(stack[x]) /\ h = [FrameNo(x, q) EXCEPT !.result = h.result]
    BY <1>1, <1>2, OthersMove
  <2> QED
    BY <1>1, <2>1 DEF Moves
<1>4. Stacked'
  BY <1>1, <1>2, StepShape
<1>5. Len(stack[c]) \in Nat
  BY FrameTypes
<1>6. Locked'
  BY <1>1, <1>2, <1>3, <1>5, StepLocked, SpawnedNew
<1> QED
  BY <1>3, <1>4, <1>6 DEF StepDone

LEMMA StartStep ==
  ASSUME Stacked, Locked, ~bot.gone' => ~bot.gone,
         NEW c \in Calls, Idle(c), NEW f \in Frames, f.at = "begin", Step(c, <<f>>, None)
  PROVE  StepDone(c, 1, {f}, {})
<1> DEFINE frames == <<f>>
<1>1. frames \in Seq(Frames) /\ Len(frames) = 1 /\ frames[1] = f
  OBVIOUS
<1> HIDE DEF frames
<1>0. Step(c, frames, None)
  BY DEF frames
<1>2. Moves(c, 1, {f}, {})
  <2>1. /\ stack'[c] = frames
        /\ \A x \in Calls \ {c} : \A q \in 1..Len(stack'[x]) :
             LET h == stack'[x][Len(stack'[x]) + 1 - q]
             IN q \in 1..Len(stack[x]) /\ h = [FrameNo(x, q) EXCEPT !.result = h.result]
    BY <1>1, <1>0, OthersMove, NoneSpawns
  <2>2. \A q \in 1..Len(stack'[c]) : q = 1 /\ stack'[c][Len(stack'[c]) + 1 - q] = f
    BY <2>1, <1>1
  <2>3. \A q \in 1..Len(stack'[c]) : q = 1 /\ stack'[c][Len(stack'[c]) + 1 - q] \in {f}
    BY <2>2
  <2> QED
    BY <2>1, <2>3 DEF Moves
<1>3. Stacked'
  BY <1>1, <1>0, StepShape, NoneSpawns
<1>4. Locked'
  <2>1. \A g \in {f} : g.at = "begin"
    OBVIOUS
  <2> QED
    BY <1>0, <1>1, <1>2, <2>1, StepLocked, NoneSpawns
<1> QED
  BY <1>2, <1>3, <1>4 DEF StepDone

-----------------------------------------------------------------------------
(* What an action may use of the state, and what it has to give back *)

Shape == /\ world \in Worlds
         /\ deal \in [Deals -> DealTypes]
         /\ bot \in BotTypes
         /\ asked \subseteq world.asks
         /\ Stacked
         /\ Locked

At(c, a) == [Top(c) EXCEPT !.at = a]

LEMMA RunsTop ==
  ASSUME Shape, NEW c \in Calls, NEW op, NEW a, Runs(c, op, a)
  PROVE  /\ ~Idle(c) /\ Holds(c)
         /\ Top(c) \in Frames /\ Top(c).op = op /\ Top(c).at = a
         /\ Len(stack[c]) \in 1..Len(stack[c]) /\ Top(c) = FrameNo(c, Len(stack[c]))
         /\ op # "stop" => Top(c).deal \in Deals
         /\ \A b \in Points : At(c, b) \in Frames /\ At(c, b).key = Top(c).key
<1>1. ~Idle(c) /\ Holds(c) /\ Top(c).op = op /\ Top(c).at = a
  BY DEF Runs
<1>2. Stacked
  BY DEF Shape
<1>3. /\ Top(c) \in Frames /\ Len(stack[c]) \in 1..Len(stack[c])
      /\ Top(c) = FrameNo(c, Len(stack[c]))
  BY <1>1, <1>2, FrameTypes
<1>4. op # "stop" => Top(c).deal \in Deals
  BY <1>1, <1>3 DEF Frames
<1>5. \A b \in Points : At(c, b) \in Frames /\ At(c, b).key = Top(c).key
  BY <1>3 DEF At, Frames
<1> QED
  BY <1>1, <1>3, <1>4, <1>5

LEMMA FrameType ==
  ASSUME NEW op \in Ops, NEW key \in Keys \cup {NoKey}, NEW d \in Deals \cup {0},
         NEW how \in Ways,
         op # "stop" => d \in Deals, op = "stop" => key = NoKey,
         op = "placeOrders" => how \in {"ladder", "resize"},
         op = "closeDeal" => key = ClosingKey
  PROVE  LET f == Frame(op, key, d, how)
         IN /\ f \in Frames /\ f.op = op /\ f.at = "begin" /\ f.key = key /\ f.deal = d
            /\ f.how = how
<1> DEFINE f == Frame(op, key, d, how)
<1>1. f = [op |-> op, at |-> "begin", key |-> key, deal |-> d, how |-> how,
           own |-> FALSE, deals |-> {}, todo |-> {}, qty |-> 0, result |-> FALSE]
  BY DEF Frame
<1>2. {} \in SUBSET Deals /\ 0 \in Int /\ FALSE \in BOOLEAN /\ "begin" \in Points
  BY DEF Points
<1> HIDE DEF f
<1>3. f.op = op /\ f.at = "begin" /\ f.key = key /\ f.deal = d /\ f.how = how
  BY <1>1
<1>4. f \in [op : Ops, at : Points, key : Keys \cup {NoKey}, deal : Deals \cup {0},
            how : Ways, own : BOOLEAN, deals : SUBSET Deals, todo : SUBSET Deals,
            qty : Int, result : BOOLEAN]
  BY <1>1, <1>2
<1>5. f \in Frames
  BY <1>3, <1>4 DEF Frames
<1> QED
  BY <1>3, <1>5 DEF f

LEMMA FrameSized ==
  ASSUME NEW f \in Frames, NEW v \in Int
  PROVE  LET g == [f EXCEPT !.qty = v]
         IN /\ g \in Frames /\ g.op = f.op /\ g.at = f.at /\ g.key = f.key
            /\ g.deal = f.deal /\ g.how = f.how
BY DEF Frames

LEMMA StopType ==
  ASSUME NEW how \in Ways
  PROVE  /\ StopFrame(how) \in Frames /\ StopFrame(how).at = "begin"
         /\ StopFrame(how).op = "stop" /\ StopFrame(how).how = how
         /\ StopFrame(how).key = NoKey
<1>1. Frame("stop", NoKey, 0, how) \in Frames /\ OpenDeals \subseteq Deals
  BY FrameType DEF Ops, OpenDeals
<1> QED
  BY <1>1 DEF StopFrame, Frame, Frames

\* A deal whose fields for status, memory and books are those of another.
SameBooks(r, e) == /\ r.status = e.status /\ r.live = e.live
                   /\ r.booked = e.booked /\ r.closes = e.closes

\* The deals keep their types, and those fields.
Retyped == deal' \in [Deals -> DealTypes]
Quietly == Retyped /\ \A e \in Deals : SameBooks(deal'[e], deal[e])

LEMMA SetType ==
  ASSUME deal \in [Deals -> DealTypes], NEW d \in Deals, NEW r \in DealTypes, Set(d, r)
  PROVE  /\ Retyped
         /\ deal'[d] = r
         /\ \A e \in Deals \ {d} : deal'[e] = deal[e]
         /\ SameBooks(r, deal[d]) => Quietly
BY DEF Set, Retyped, Quietly, SameBooks

\* The other deals keep them.
OthersKept(d) == \A e \in Deals \ {d} : SameBooks(deal'[e], deal[e])

LEMMA SetOthers ==
  ASSUME deal \in [Deals -> DealTypes], NEW d \in Deals, NEW r \in DealTypes, Set(d, r)
  PROVE  Retyped /\ deal'[d] = r /\ OthersKept(d)
BY DEF Set, Retyped, OthersKept, SameBooks


LEMMA DealsKept ==
  ASSUME Shape, UNCHANGED deal
  PROVE  Quietly
BY DEF Shape, Quietly, SameBooks, Retyped

LEMMA MovesMore ==
  ASSUME NEW c, NEW p, NEW gs, NEW new, NEW hs, NEW more,
         Moves(c, p, gs, new), gs \subseteq hs, new \subseteq more
  PROVE  Moves(c, p, hs, more)
BY DEF Moves

LEMMA GotoAndStep ==
  ASSUME Shape, NEW c \in Calls, NEW op, NEW b, Runs(c, op, b), NEW a \in Points,
         bot'.gone = bot.gone, NEW spawn, Spawns(spawn), GotoAnd(c, a, spawn)
  PROVE  StepDone(c, Len(stack[c]), {At(c, a)}, Spawned(spawn))
<1>1. Step(c, <<At(c, a)>> \o Tail(stack[c]), spawn)
  BY DEF GotoAnd, Moved, At
<1> QED
  BY <1>1, RunsTop, MoveStep DEF Shape

LEMMA GotoStep ==
  ASSUME Shape, NEW c \in Calls, NEW op, NEW b, Runs(c, op, b), NEW a \in Points,
         bot'.gone = bot.gone, Goto(c, a)
  PROVE  StepDone(c, Len(stack[c]), {At(c, a)}, {})
<1>1. GotoAnd(c, a, None)
  BY DEF Goto, GotoAnd
<1> QED
  BY <1>1, NoneSpawns, GotoAndStep

LEMMA AwaitStep ==
  ASSUME Shape, NEW c \in Calls, NEW op, NEW b, Runs(c, op, b), NEW a \in Points,
         bot'.gone = bot.gone, NEW f \in Frames, f.at = "begin", Await(c, a, f)
  PROVE  StepDone(c, Len(stack[c]), {At(c, a)}, {f})
<1>1. Step(c, <<f>> \o (<<At(c, a)>> \o Tail(stack[c])), None)
  BY DEF Await, Moved, At
<1> QED
  BY <1>1, RunsTop, PushStep DEF Shape

LEMMA ReturnAndStep ==
  ASSUME Shape, NEW c \in Calls, NEW op, NEW b, Runs(c, op, b),
         bot'.gone = bot.gone, NEW spawn, Spawns(spawn), ReturnAnd(c, spawn)
  PROVE  StepDone(c, Len(stack[c]), {}, Spawned(spawn))
BY RunsTop, PopStep DEF Shape, ReturnAnd

LEMMA ReturnStep ==
  ASSUME Shape, NEW c \in Calls, NEW op, NEW b, Runs(c, op, b), NEW v \in BOOLEAN,
         bot'.gone = bot.gone, Return(c, v)
  PROVE  StepDone(c, Len(stack[c]), {}, {})
<1>1. Step(c, Returned(c, v), None)
  BY DEF Return
<1> QED
  BY <1>1, NoneSpawns, RunsTop, PopStep DEF Shape

LEMMA ShapeKept ==
  ASSUME Shape, NEW c, NEW p, NEW gs, NEW new, StepDone(c, p, gs, new),
         Retyped, bot' \in BotTypes, UNCHANGED <<world, asked>>
  PROVE  Shape' /\ Moves(c, p, gs, new)
BY DEF Shape, StepDone, BotTypes, Retyped

LEMMA ShapeQuiet ==
  ASSUME Shape, NEW c, NEW p, NEW gs, NEW new, StepDone(c, p, gs, new),
         Quietly, UNCHANGED <<world, bot, asked>>
  PROVE  Shape' /\ Moves(c, p, gs, new) /\ Quietly
BY ShapeKept DEF Shape, BotTypes, Quietly

-----------------------------------------------------------------------------
(* The frames that arrive *)

LEMMA OneSpawn ==
  ASSUME NEW x, NEW f \in Frames, f.at = "begin", x \in Calls \/ f.key = NoKey
  PROVE  Spawns(Just(x, f)) /\ Spawned(Just(x, f)) = {f}
<1>1. DOMAIN Just(x, f) = {x} /\ Just(x, f)[x] = f
  BY DEF Just
<1>2. IsFiniteSet({x})
  BY FS_Singleton
<1> QED
  BY <1>1, <1>2 DEF Spawns, Spawned

LEMMA StopSpawn ==
  ASSUME NEW c
  PROVE  /\ Spawns(Just(After(c), StopFrame("none")))
         /\ Spawned(Just(After(c), StopFrame("none"))) = {StopFrame("none")}
BY StopType, OneSpawn DEF Ways

Reports == ({"base", "fill"} \cup SafetyOrders) \X Deals

LEMMA ReportCalls == Reports \subseteq Calls
BY DEF Reports, Calls, Levels, Direct

LEMMA KnownType ==
  ASSUME deal \in [Deals -> DealTypes], NEW c \in Reports
  PROVE  Known(c) \in DealTypes
<1>1. deal[c[2]] \in DealTypes /\ c[2] \in Deals /\ c[1] \in {"base", "fill"} \cup SafetyOrders
  BY DEF Reports
<1>2. CASE c[1] = "base"
  BY <1>1, <1>2 DEF Known, DealTypes, Orders
<1>3. CASE c[1] = "fill"
  <2> DEFINE r == deal[c[2]]
  <2>1. Known(c) = [r EXCEPT !.tp = "done", !.sold = r.sold + r.tpQty]
    BY <1>3 DEF Known
  <2>2. "done" \in Orders /\ r.sold + r.tpQty \in Int
    BY <1>1 DEF Orders, DealTypes
  <2> HIDE DEF r
  <2>3. r \in DealTypes
    BY <1>1 DEF r
  <2> QED
    BY <2>1, <2>2, <2>3 DEF DealTypes
<1>4. CASE c[1] \notin {"base", "fill"}
  <2>1. c[1] \in SafetyOrders
    BY <1>1, <1>4
  <2>2. Known(c) = [deal[c[2]] EXCEPT !.so[c[1]] = "done"]
    BY <1>4 DEF Known
  <2>3. "done" \in Orders
    BY DEF Orders
  <2> QED
    BY <1>1, <2>1, <2>2, <2>3 DEF DealTypes
<1> QED
  BY <1>2, <1>3, <1>4

LEMMA HandlerType ==
  ASSUME deal \in [Deals -> DealTypes], NEW c \in Reports
  PROVE  /\ Handler(c) \in Frames /\ Handler(c).at = "begin"
         /\ Handler(c).op \in {"startDeal", "updateDeal", "closeDeal"}
         /\ Handler(c).how # "cancel"
<1>1. deal[c[2]] \in DealTypes /\ c[2] \in Deals /\ c[1] \in {"base", "fill"} \cup SafetyOrders
  BY DEF Reports
<1>2. CASE c[1] = "base"
  <2> DEFINE g == Frame("startDeal", NoKey, c[2], "base")
  <2>1. Handler(c) = g
    BY <1>2 DEF Handler
  <2>2. /\ "startDeal" \in Ops /\ "base" \in Ways /\ NoKey \in Keys \cup {NoKey}
        /\ "startDeal" \notin {"stop", "placeOrders", "closeDeal"}
        /\ c[2] \in Deals /\ c[2] \in Deals \cup {0}
    BY <1>1 DEF Ops, Ways
  <2>3. g \in Frames
    BY <2>2, FrameType
  <2>4. g.at = "begin"
    BY <2>2, FrameType
  <2>5. g.op = "startDeal" /\ g.how = "base"
    BY <2>2, FrameType
  <2> HIDE DEF g
  <2> QED
    BY <2>1, <2>3, <2>4, <2>5
<1>3. CASE c[1] = "fill"
  <2> DEFINE g == Frame("closeDeal", ClosingKey, c[2], "tp")
  <2>1. Handler(c) = [g EXCEPT !.qty = deal[c[2]].tpQty]
    BY <1>3 DEF Handler, CloseByTp, Frame
  <2>2. g \in Frames /\ g.at = "begin" /\ g.op = "closeDeal" /\ g.how = "tp"
    BY <1>1, FrameType, KeysApart DEF Ops, Ways
  <2>3. deal[c[2]].tpQty \in Int
    BY <1>1 DEF DealTypes
  <2> HIDE DEF g
  <2> DEFINE h == [g EXCEPT !.qty = deal[c[2]].tpQty]
  <2>4. h \in Frames /\ h.at = g.at /\ h.op = g.op /\ h.how = g.how
    BY <2>2, <2>3, FrameSized
  <2>5. Handler(c) = h
    BY <2>1
  <2> HIDE DEF h
  <2> QED
    BY <2>2, <2>4, <2>5
<1>4. CASE c[1] \notin {"base", "fill"}
  <2>1. Handler(c) = Frame("updateDeal", UpdateKey(c[2]), c[2], "level")
    BY <1>4 DEF Handler
  <2> QED
    BY <2>1, <1>1, FrameType, KeysApart DEF Ops, Ways
<1> QED
  BY <1>2, <1>3, <1>4

LEMMA HandlersType ==
  ASSUME deal \in [Deals -> DealTypes], NEW d \in Deals
  PROVE  /\ Spawns(Handlers(d))
         /\ \A f \in Spawned(Handlers(d)) : \E c \in Reports : f = Handler(c)
<1>1. Executed(d) \subseteq Reports
  BY DEF Executed, Reports
<1>2. IsFiniteSet(Executed(d))
  <2>1. IsFiniteSet({"base", "fill"})
    <3>1. {"base", "fill"} = {"base"} \cup {"fill"}
      OBVIOUS
    <3>2. IsFiniteSet({"base"}) /\ IsFiniteSet({"fill"})
      BY FS_Singleton
    <3>3. IsFiniteSet({"base"} \cup {"fill"})
      BY <3>2, FS_Union
    <3> QED
      BY <3>1, <3>3
  <2>2. IsFiniteSet({"base", "fill"} \cup SafetyOrders)
    BY <2>1, FS_Union, SafetyOrdersAssumption
  <2>3. IsFiniteSet({d})
    BY FS_Singleton
  <2>4. IsFiniteSet(({"base", "fill"} \cup SafetyOrders) \X {d})
    BY <2>2, <2>3, FS_Product
  <2> QED
    BY <2>4, FS_Subset DEF Executed
<1>3. DOMAIN Handlers(d) = Executed(d) /\ \A c \in Executed(d) : Handlers(d)[c] = Handler(c)
  BY DEF Handlers
<1> QED
  BY <1>1, <1>2, <1>3, HandlerType, ReportCalls DEF Spawns, Spawned

Placer(f) == f \in Frames /\ f.at = "begin" /\ f.op = "placeOrders" /\ f.how # "cancel"

LEMMA PlacingType ==
  ASSUME Shape, NEW d \in Deals, NEW how \in {"ladder", "resize"}
  PROVE  Placer(Placing(d, how)) /\ Size(d) \in Int
<1> DEFINE g == Frame("placeOrders", DealKey(d), d, how)
<1>1. Size(d) \in Int
  <2>1. deal[d].sold \in Int
    BY DEF Shape, DealTypes
  <2>2. Cardinality({s \in SafetyOrders : deal[d].so[s] = "done"}) \in Nat
    BY FS_Subset, FS_CardinalityType, SafetyOrdersAssumption
  <2> QED
    BY <2>1, <2>2 DEF Size
<1>2. /\ "placeOrders" \in Ops /\ how \in Ways /\ DealKey(d) \in Keys \cup {NoKey}
      /\ "placeOrders" \notin {"stop", "closeDeal"} /\ d \in Deals \cup {0}
  BY KeysApart DEF Ops, Ways
<1>3. g \in Frames
  BY <1>2, FrameType
<1>4. g.at = "begin"
  BY <1>2, FrameType
<1>5. g.op = "placeOrders" /\ g.how = how
  BY <1>2, FrameType
<1> HIDE DEF g
<1> DEFINE h == [g EXCEPT !.qty = Size(d)]
<1>6. h \in Frames /\ h.at = g.at /\ h.op = g.op /\ h.how = g.how
  BY <1>1, <1>3, FrameSized
<1>7. Placing(d, how) = h
  BY DEF Placing, g
<1> HIDE DEF h
<1>8. h.how # "cancel"
  BY <1>5, <1>6
<1> QED
  BY <1>1, <1>4, <1>5, <1>6, <1>7, <1>8 DEF Placer

LEMMA CloserType ==
  ASSUME NEW d \in Deals, NEW how \in {"tp", "none"}
  PROVE  LET f == Frame("closeDeal", ClosingKey, d, how)
         IN f \in Frames /\ f.at = "begin" /\ f.op = "closeDeal" /\ f.how = how
<1>1. /\ "closeDeal" \in Ops /\ how \in Ways /\ ClosingKey \in Keys \cup {NoKey}
      /\ "closeDeal" \notin {"stop", "placeOrders"} /\ d \in Deals \cup {0}
  BY KeysApart DEF Ops, Ways
<1> DEFINE g == Frame("closeDeal", ClosingKey, d, how)
<1>2. g \in Frames
  BY <1>1, FrameType
<1>3. g.at = "begin"
  BY <1>1, FrameType
<1>4. g.op = "closeDeal" /\ g.how = how
  BY <1>1, FrameType
<1> HIDE DEF g
<1> QED
  BY <1>2, <1>3, <1>4 DEF g

LEMMA SoldType ==
  ASSUME NEW d \in Deals, NEW qty \in Int
  PROVE  LET f == CloseByTp(d, qty)
         IN f \in Frames /\ f.at = "begin" /\ f.op = "closeDeal" /\ f.how = "tp"
<1> DEFINE g == Frame("closeDeal", ClosingKey, d, "tp")
           h == [g EXCEPT !.qty = qty]
<1>1. g \in Frames /\ g.at = "begin" /\ g.op = "closeDeal" /\ g.how = "tp"
  BY CloserType
<1> HIDE DEF g
<1>2. h \in Frames /\ h.at = g.at /\ h.op = g.op /\ h.how = g.how
  BY <1>1, FrameSized
<1>3. CloseByTp(d, qty) = h
  BY DEF CloseByTp, g
<1> HIDE DEF h
<1> QED
  BY <1>1, <1>2, <1>3

LEMMA RequestType ==
  ASSUME NEW d \in Deals, NEW how \in Ways
  PROVE  /\ LET f == Frame("closeDealById", DealKey(d), d, how)
            IN f \in Frames /\ f.at = "begin" /\ f.op = "closeDealById" /\ f.how = how
         /\ LET f == Frame("openNewDeal", NoKey, d, "entry")
            IN f \in Frames /\ f.at = "begin" /\ f.op = "openNewDeal" /\ f.how = "entry"
               /\ f.deal = d
<1>1. /\ "closeDealById" \in Ops /\ how \in Ways /\ DealKey(d) \in Keys \cup {NoKey}
      /\ "closeDealById" \notin {"stop", "placeOrders", "closeDeal"} /\ d \in Deals \cup {0}
      /\ "openNewDeal" \in Ops /\ "entry" \in Ways /\ NoKey \in Keys \cup {NoKey}
      /\ "openNewDeal" \notin {"stop", "placeOrders", "closeDeal"}
  BY KeysApart DEF Ops, Ways
<1> DEFINE g == Frame("closeDealById", DealKey(d), d, how)
           h == Frame("openNewDeal", NoKey, d, "entry")
<1>2. g \in Frames
  BY <1>1, FrameType
<1>3. g.at = "begin"
  BY <1>1, FrameType
<1>4. g.op = "closeDealById" /\ g.how = how
  BY <1>1, FrameType
<1>5. h \in Frames
  BY <1>1, FrameType
<1>6. h.at = "begin" /\ h.deal = d
  BY <1>1, FrameType
<1>7. h.op = "openNewDeal" /\ h.how = "entry"
  BY <1>1, FrameType
<1> HIDE DEF g, h
<1>8. g \in Frames /\ g.at = "begin" /\ g.op = "closeDealById" /\ g.how = how
  BY <1>2, <1>3, <1>4
<1>9. h \in Frames /\ h.at = "begin" /\ h.op = "openNewDeal" /\ h.how = "entry" /\ h.deal = d
  BY <1>5, <1>6, <1>7
<1> QED
  BY <1>8, <1>9 DEF g, h

LEMMA ReleaseType ==
  ASSUME NEW d \in Deals, NEW own \in BOOLEAN
  PROVE  /\ Release(d, own) \in Frames /\ Release(d, own).at = "begin"
         /\ Release(d, own).op = "processDealClose" /\ Release(d, own).how = "release"
<1>1. /\ "processDealClose" \in Ops /\ "release" \in Ways
      /\ (IF own THEN NoKey ELSE ReleaseKey) \in Keys \cup {NoKey}
      /\ "processDealClose" \notin {"stop", "placeOrders", "closeDeal"} /\ d \in Deals \cup {0}
  BY KeysApart DEF Ops, Ways
<1>2. Release(d, own) \in Frames
  BY <1>1, FrameType DEF Release
<1>3. Release(d, own).at = "begin"
  BY DEF Release, Frame
<1>4. Release(d, own).op = "processDealClose" /\ Release(d, own).how = "release"
  BY DEF Release, Frame
<1> QED
  BY <1>2, <1>3, <1>4

-----------------------------------------------------------------------------
(* The actions: each keeps the shape of the state, and moves these frames. *)

LEMMA Edits ==
  ASSUME NEW e \in DealTypes
  PROVE  /\ \A v \in Statuses : [e EXCEPT !.status = v] \in DealTypes
         /\ \A v \in Statuses : [e EXCEPT !.stored = v] \in DealTypes
         /\ \A v \in BOOLEAN : [e EXCEPT !.live = v] \in DealTypes
         /\ \A v \in Orders : [e EXCEPT !.base = v] \in DealTypes
         /\ \A v \in Orders : [e EXCEPT !.tp = v] \in DealTypes
         /\ \A v \in [SafetyOrders -> Orders] : [e EXCEPT !.so = v] \in DealTypes
         /\ \A v \in Int : [e EXCEPT !.tpQty = v] \in DealTypes
         /\ \A v \in Int : [e EXCEPT !.coins = v] \in DealTypes
         /\ \A v \in Int : [e EXCEPT !.ledger = v] \in DealTypes
         /\ \A v \in Int : [e EXCEPT !.sold = v] \in DealTypes
         /\ \A v \in BOOLEAN : [e EXCEPT !.closing = v] \in DealTypes
         /\ \A v \in BOOLEAN : [e EXCEPT !.profit = v] \in DealTypes
         /\ \A v \in Nat : [e EXCEPT !.booked = v] \in DealTypes
         /\ \A v \in Nat : [e EXCEPT !.closes = v] \in DealTypes
BY Zenon DEF DealTypes

LEMMA Fields ==
  ASSUME NEW e \in DealTypes
  PROVE  /\ e.status \in Statuses /\ e.stored \in Statuses /\ e.live \in BOOLEAN
         /\ e.base \in Orders /\ e.tp \in Orders /\ e.so \in [SafetyOrders -> Orders]
         /\ e.tpQty \in Int /\ e.coins \in Int /\ e.ledger \in Int /\ e.sold \in Int
         /\ e.closing \in BOOLEAN /\ e.profit \in BOOLEAN
         /\ e.booked \in Nat /\ e.closes \in Nat
BY DEF DealTypes

LEMMA Named ==
  /\ {"start", "open", "closed", "canceled"} \subseteq Statuses
  /\ {"resting", "filled", "done", "cancelled"} \subseteq Orders
BY DEF Statuses, Orders

LEMMA Opened ==
  ASSUME NEW e \in DealTypes
  PROVE  LET r == [e EXCEPT !.status = "open", !.stored = "open", !.ledger = 1]
         IN /\ r \in DealTypes /\ r.status = "open"
            /\ r.live = e.live /\ r.booked = e.booked /\ r.closes = e.closes
<1>1. "open" \in Statuses /\ 1 \in Int
  BY DEF Statuses
<1>2. \A v \in Statuses : \A n \in Int :
        [e EXCEPT !.status = v, !.stored = v, !.ledger = n] \in DealTypes
  BY Zenon DEF DealTypes
<1> QED
  BY <1>1, <1>2 DEF DealTypes

LEMMA Sold ==
  ASSUME NEW e \in DealTypes, NEW n \in Int
  PROVE  LET r == [e EXCEPT !.coins = @ - n] IN r \in DealTypes /\ SameBooks(r, e)
BY DEF DealTypes, SameBooks

LEMMA LadderChanged ==
  ASSUME NEW e \in DealTypes, NEW S
  PROVE  /\ WithoutLadder(e) \in DealTypes /\ SameBooks(WithoutLadder(e), e)
         /\ LET r == [e EXCEPT !.so = [s \in SafetyOrders |-> IF s \in S THEN "resting" ELSE @[s]]]
            IN r \in DealTypes /\ SameBooks(r, e)
<1> DEFINE u == [s \in SafetyOrders |-> IF e.so[s] = "resting" THEN "cancelled" ELSE e.so[s]]
           v == [s \in SafetyOrders |-> IF s \in S THEN "resting" ELSE e.so[s]]
<1>1. u \in [SafetyOrders -> Orders] /\ v \in [SafetyOrders -> Orders]
  BY Fields, Named
<1>2. WithoutLadder(e) = [e EXCEPT !.so = u]
  BY DEF WithoutLadder
<1> HIDE DEF u, v
<1>3. /\ [e EXCEPT !.so = u] \in DealTypes /\ SameBooks([e EXCEPT !.so = u], e)
      /\ [e EXCEPT !.so = v] \in DealTypes /\ SameBooks([e EXCEPT !.so = v], e)
  BY <1>1, Edits DEF SameBooks, DealTypes
<1> QED
  BY <1>2, <1>3 DEF v

LEMMA TakeProfitSet ==
  ASSUME NEW e \in DealTypes, NEW o \in Orders, NEW n \in Int
  PROVE  /\ LET r == [e EXCEPT !.tp = o] IN r \in DealTypes /\ SameBooks(r, e)
         /\ LET r == [e EXCEPT !.tp = o, !.tpQty = n] IN r \in DealTypes /\ SameBooks(r, e)
<1>1. [e EXCEPT !.tp = o] \in DealTypes /\ [e EXCEPT !.tp = o, !.tpQty = n] \in DealTypes
  BY Zenon DEF DealTypes
<1> QED
  BY <1>1 DEF SameBooks, DealTypes

LEMMA KnownBooks ==
  ASSUME deal \in [Deals -> DealTypes], NEW c \in Reports
  PROVE  SameBooks(Known(c), deal[c[2]])
<1>1. deal[c[2]] \in DealTypes /\ c[2] \in Deals
  BY DEF Reports
<1> QED
  BY <1>1 DEF Known, SameBooks, DealTypes

LEMMA Swept ==
  ASSUME NEW e \in DealTypes
  PROVE  SweptDeal(e) \in DealTypes /\ SameBooks(SweptDeal(e), e)
<1> DEFINE b == Cancelled(e.base)
           t == Cancelled(e.tp)
           u == [s \in SafetyOrders |-> Cancelled(e.so[s])]
           n == e.sold + (IF e.tp = "filled" THEN e.tpQty ELSE 0)
<1>1. \A o \in Orders : Cancelled(o) \in Orders
  BY Named DEF Cancelled
<1>2. b \in Orders /\ t \in Orders /\ u \in [SafetyOrders -> Orders] /\ n \in Int
  BY <1>1, Fields
<1>3. SweptDeal(e) = [e EXCEPT !.base = b, !.tp = t, !.so = u, !.sold = n]
  BY DEF SweptDeal
<1> HIDE DEF b, t, u, n
<1>4. [e EXCEPT !.base = b, !.tp = t, !.so = u, !.sold = n] \in DealTypes
  BY <1>2, Zenon DEF DealTypes
<1>5. SameBooks([e EXCEPT !.base = b, !.tp = t, !.so = u, !.sold = n], e)
  BY DEF SameBooks, DealTypes
<1> QED
  BY <1>3, <1>4, <1>5

LEMMA Executes ==
  ASSUME NEW e \in DealTypes, NEW o \in Orders, NEW n \in Int, NEW m \in Int
  PROVE  /\ LET r == [e EXCEPT !.tp = o, !.coins = @ - n, !.sold = @ + m]
            IN r \in DealTypes /\ SameBooks(r, e)
         /\ LET r == [e EXCEPT !.tp = o, !.coins = @ - n]
            IN r \in DealTypes /\ SameBooks(r, e)
         /\ LET r == [e EXCEPT !.base = o, !.coins = @ + n]
            IN r \in DealTypes /\ SameBooks(r, e)
         /\ LET r == [e EXCEPT !.base = o]
            IN r \in DealTypes /\ SameBooks(r, e)
         /\ LET r == [e EXCEPT !.coins = n]
            IN r \in DealTypes /\ SameBooks(r, e)
         /\ LET r == [e EXCEPT !.ledger = @ + n]
            IN r \in DealTypes /\ SameBooks(r, e)
<1>1. e.coins - n \in Int /\ e.sold + m \in Int /\ e.coins + n \in Int /\ e.ledger + n \in Int
  BY Fields
<1>2. \A a, b \in Int : /\ [e EXCEPT !.tp = o, !.coins = a, !.sold = b] \in DealTypes
                        /\ [e EXCEPT !.tp = o, !.coins = a] \in DealTypes
                        /\ [e EXCEPT !.base = o, !.coins = a] \in DealTypes
                        /\ [e EXCEPT !.base = o] \in DealTypes
                        /\ [e EXCEPT !.coins = a] \in DealTypes
                        /\ [e EXCEPT !.ledger = a] \in DealTypes
  BY Zenon DEF DealTypes
<1>3. \A a, b \in Int : /\ SameBooks([e EXCEPT !.tp = o, !.coins = a, !.sold = b], e)
                        /\ SameBooks([e EXCEPT !.tp = o, !.coins = a], e)
                        /\ SameBooks([e EXCEPT !.base = o, !.coins = a], e)
                        /\ SameBooks([e EXCEPT !.base = o], e)
                        /\ SameBooks([e EXCEPT !.coins = a], e)
                        /\ SameBooks([e EXCEPT !.ledger = a], e)
  BY DEF SameBooks, DealTypes
<1> QED
  BY <1>1, <1>2, <1>3

LEMMA Averages ==
  ASSUME NEW e \in DealTypes, NEW s \in SafetyOrders, NEW o \in Orders, NEW n \in Int
  PROVE  LET r == [e EXCEPT !.so[s] = o, !.coins = @ + n]
         IN r \in DealTypes /\ SameBooks(r, e)
<1> DEFINE u == [e.so EXCEPT ![s] = o]
<1>1. u \in [SafetyOrders -> Orders] /\ e.coins + n \in Int
  BY Fields
<1>2. [e EXCEPT !.so[s] = o, !.coins = @ + n] = [e EXCEPT !.so = u, !.coins = e.coins + n]
  BY DEF DealTypes
<1> HIDE DEF u
<1>3. \A a \in Int : [e EXCEPT !.so = u, !.coins = a] \in DealTypes
  BY <1>1, Zenon DEF DealTypes
<1>4. \A a \in Int : SameBooks([e EXCEPT !.so = u, !.coins = a], e)
  BY DEF SameBooks, DealTypes
<1> QED
  BY <1>1, <1>2, <1>3, <1>4

LEMMA Settles ==
  ASSUME NEW e \in DealTypes, NEW n \in Int
  PROVE  /\ LET r == [e EXCEPT !.closing = TRUE] IN r \in DealTypes /\ SameBooks(r, e)
         /\ LET r == [e EXCEPT !.closing = FALSE] IN r \in DealTypes /\ SameBooks(r, e)
         /\ LET r == [e EXCEPT !.status = "closed", !.ledger = @ - n]
            IN /\ r \in DealTypes /\ r.status = "closed"
               /\ r.live = e.live /\ r.booked = e.booked /\ r.closes = e.closes
<1>1. [e EXCEPT !.closing = TRUE] \in DealTypes /\ [e EXCEPT !.closing = FALSE] \in DealTypes
  BY Edits
<1>2. \A v \in Statuses : \A a \in Int : [e EXCEPT !.status = v, !.ledger = a] \in DealTypes
  BY Zenon DEF DealTypes
<1>3. e.ledger - n \in Int /\ "closed" \in Statuses
  BY Fields, Named
<1>4. [e EXCEPT !.status = "closed", !.ledger = e.ledger - n] \in DealTypes
  BY <1>2, <1>3
<1> QED
  BY <1>1, <1>4 DEF SameBooks, DealTypes

LEMMA Books ==
  ASSUME NEW e \in DealTypes, NEW n \in Int
  PROVE  LET r == Booked([e EXCEPT !.stored = e.status, !.coins = @ - n])
         IN /\ r \in DealTypes /\ r.status = e.status /\ r.live = e.live
            /\ r.booked = e.booked + 1 /\ r.closes = e.closes
<1> DEFINE f == [e EXCEPT !.stored = e.status, !.coins = @ - n]
<1>1. e.status \in Statuses /\ e.coins - n \in Int /\ e.booked \in Nat
  BY Fields
<1>2. \A v \in Statuses : \A a \in Int : [e EXCEPT !.stored = v, !.coins = a] \in DealTypes
  BY Zenon DEF DealTypes
<1>3. f \in DealTypes
  BY <1>1, <1>2
<1>4. SameBooks(f, e)
  BY DEF SameBooks, DealTypes
<1> HIDE DEF f
<1>5. f.booked + 1 \in Nat /\ TRUE \in BOOLEAN
  BY <1>3, Fields
<1>6. \A a \in Nat : \A v \in BOOLEAN : [f EXCEPT !.booked = a, !.profit = v] \in DealTypes
  BY <1>3, Zenon DEF DealTypes
<1>7. [f EXCEPT !.booked = f.booked + 1, !.profit = TRUE] \in DealTypes
  BY <1>5, <1>6
<1>8. Booked(f) = [f EXCEPT !.booked = f.booked + 1, !.profit = TRUE]
  BY DEF Booked
<1>9. LET r == Booked(f) IN r \in DealTypes /\ r.status = f.status /\ r.live = f.live
                            /\ r.booked = f.booked + 1 /\ r.closes = f.closes
  BY <1>3, <1>7, <1>8 DEF DealTypes
<1> QED
  BY <1>4, <1>9 DEF f, SameBooks


LEMMA Cancels ==
  ASSUME NEW e \in DealTypes
  PROVE  LET r == [e EXCEPT !.status = "canceled", !.stored = "canceled"]
         IN /\ r \in DealTypes /\ r.status = "canceled" /\ r.live = e.live
            /\ r.booked = e.booked /\ r.closes = e.closes
            /\ Booked(r) \in DealTypes /\ Booked(r).status = "canceled"
            /\ Booked(r).live = e.live /\ Booked(r).closes = e.closes
<1> DEFINE r == [e EXCEPT !.status = "canceled", !.stored = "canceled"]
<1>1. \A v \in Statuses : [e EXCEPT !.status = v, !.stored = v] \in DealTypes
  BY Zenon DEF DealTypes
<1>2. r \in DealTypes
  BY <1>1, Named
<1>3. r.status = "canceled" /\ r.live = e.live /\ r.booked = e.booked /\ r.closes = e.closes
  BY DEF DealTypes
<1> HIDE DEF r
<1>4. r.booked + 1 \in Nat /\ TRUE \in BOOLEAN
  BY <1>2, Fields
<1>5. \A a \in Nat : \A v \in BOOLEAN : [r EXCEPT !.booked = a, !.profit = v] \in DealTypes
  BY <1>2, Zenon DEF DealTypes
<1>6. [r EXCEPT !.booked = r.booked + 1, !.profit = TRUE] \in DealTypes
  BY <1>4, <1>5
<1>7. Booked(r) = [r EXCEPT !.booked = r.booked + 1, !.profit = TRUE]
  BY DEF Booked
<1>8. /\ Booked(r) \in DealTypes /\ Booked(r).status = r.status
      /\ Booked(r).live = r.live /\ Booked(r).closes = r.closes
  BY <1>2, <1>6, <1>7 DEF DealTypes
<1> QED
  BY <1>2, <1>3, <1>8 DEF r

LEMMA Leaves ==
  ASSUME NEW e \in DealTypes
  PROVE  /\ LET r == [e EXCEPT !.closing = FALSE, !.live = FALSE, !.closes = @ + 1]
            IN /\ r \in DealTypes /\ r.status = e.status /\ r.live = FALSE
               /\ r.booked = e.booked /\ r.closes = e.closes + 1
         /\ LET r == [e EXCEPT !.live = FALSE]
            IN /\ r \in DealTypes /\ r.status = e.status /\ r.live = FALSE
               /\ r.booked = e.booked /\ r.closes = e.closes
         /\ LET r == [e EXCEPT !.status = "start", !.stored = "start", !.live = TRUE]
            IN /\ r \in DealTypes /\ r.status = "start" /\ r.live = TRUE
               /\ r.booked = e.booked /\ r.closes = e.closes
<1>1. e.closes + 1 \in Nat /\ "start" \in Statuses /\ {TRUE, FALSE} \subseteq BOOLEAN
  BY Fields, Named
<1>2. \A n \in Nat : \A v \in Statuses : \A b \in BOOLEAN :
        /\ [e EXCEPT !.closing = b, !.live = b, !.closes = n] \in DealTypes
        /\ [e EXCEPT !.live = b] \in DealTypes
        /\ [e EXCEPT !.status = v, !.stored = v, !.live = b] \in DealTypes
  BY Zenon DEF DealTypes
<1>3. /\ [e EXCEPT !.closing = FALSE, !.live = FALSE, !.closes = e.closes + 1] \in DealTypes
      /\ [e EXCEPT !.live = FALSE] \in DealTypes
      /\ [e EXCEPT !.status = "start", !.stored = "start", !.live = TRUE] \in DealTypes
  BY <1>1, <1>2
<1> QED
  BY <1>3 DEF DealTypes


LEMMA StartBeginsDoes ==
  ASSUME Shape, NEW c \in Calls, StartBegins(c)
  PROVE  LET d == Top(c).deal
             a == IF deal[d].live /\ deal[d].status = "start" THEN "opens" ELSE "remainder"
         IN Shape' /\ Moves(c, Len(stack[c]), {At(c, a)}, {}) /\ Quietly
<1> DEFINE d == Top(c).deal
           a == IF deal[d].live /\ deal[d].status = "start" THEN "opens" ELSE "remainder"
<1>1. a \in Points /\ Goto(c, a) /\ Runs(c, "startDeal", "begin")
  BY DEF StartBegins, Points
<1>2. UNCHANGED <<world, deal, bot, asked>>
  BY DEF StartBegins
<1> HIDE DEF a
<1>3. StepDone(c, Len(stack[c]), {At(c, a)}, {})
  BY <1>1, <1>2, GotoStep
<1> QED
  BY <1>2, <1>3, DealsKept, ShapeQuiet DEF a

LEMMA StartOpensDoes ==
  ASSUME Shape, NEW c \in Calls, StartOpens(c)
  PROVE  LET d == Top(c).deal
         IN /\ Shape' /\ OthersKept(d)
            /\ \E f : Placer(f) /\ Moves(c, Len(stack[c]), {At(c, "placed")}, {f})
            /\ deal'[d].status = "open" /\ deal'[d].live = deal[d].live
            /\ deal'[d].booked = deal[d].booked /\ deal'[d].closes = deal[d].closes
<1> DEFINE d == Top(c).deal
           r == [deal[d] EXCEPT !.status = "open", !.stored = "open", !.ledger = 1]
           f == Placing(d, "ladder")
<1>1. Runs(c, "startDeal", "opens") /\ Set(d, r) /\ Await(c, "placed", f)
      /\ UNCHANGED <<world, bot, asked>>
  BY DEF StartOpens
<1>2. d \in Deals /\ deal[d] \in DealTypes
  BY <1>1, RunsTop DEF Shape
<1>3. /\ r \in DealTypes /\ r.status = "open"
      /\ r.live = deal[d].live /\ r.booked = deal[d].booked /\ r.closes = deal[d].closes
  BY <1>2, Opened
<1>4. Placer(f)
  BY <1>2, PlacingType
<1> HIDE DEF f, r, d
<1>5. Retyped /\ deal'[d] = r /\ OthersKept(d)
  BY <1>1, <1>2, <1>3, SetOthers DEF Shape
<1>6. StepDone(c, Len(stack[c]), {At(c, "placed")}, {f})
  BY <1>1, <1>4, AwaitStep DEF Points, Placer
<1>7. Shape' /\ Moves(c, Len(stack[c]), {At(c, "placed")}, {f})
  BY <1>1, <1>5, <1>6, ShapeKept DEF Shape, BotTypes
<1> QED
  BY <1>3, <1>4, <1>5, <1>7 DEF d

LEMMA SellRemainderDoes ==
  ASSUME Shape, NEW c \in Calls, SellRemainder(c)
  PROVE  Shape' /\ Moves(c, Len(stack[c]), {}, {}) /\ Quietly
<1> DEFINE d == Top(c).deal
           r == [deal[d] EXCEPT !.coins = @ - 1]
<1>1. /\ Runs(c, "startDeal", "remainder") \/ Runs(c, "startDeal", "placed")
      /\ Return(c, FALSE) /\ UNCHANGED <<world, bot, asked>>
  BY DEF SellRemainder
<1>2. d \in Deals /\ deal[d] \in DealTypes
  BY <1>1, RunsTop DEF Shape
<1>3. r \in DealTypes /\ SameBooks(r, deal[d])
  BY <1>2, Sold
<1>4. Set(d, r) \/ UNCHANGED deal
  BY DEF SellRemainder
<1> HIDE DEF r, d
<1>5. Quietly
  BY <1>2, <1>3, <1>4, SetType, DealsKept DEF Shape
<1>6. StepDone(c, Len(stack[c]), {}, {})
  BY <1>1, ReturnStep
<1> QED
  BY <1>1, <1>5, <1>6, ShapeQuiet

Reported == {Handler(r) : r \in Reports}

LEMMA PlaceBeginsDoes ==
  ASSUME Shape, NEW c \in Calls, PlaceBegins(c)
  PROVE  Shape' /\ Moves(c, Len(stack[c]), {At(c, "ladder"), At(c, "resize")}, {}) /\ Quietly
<1> DEFINE d == Top(c).deal
           new == {At(c, "ladder"), At(c, "resize")}
<1>1. Runs(c, "placeOrders", "begin") /\ UNCHANGED <<world, bot, asked>>
  BY DEF PlaceBegins
<1>2. d \in Deals /\ deal[d] \in DealTypes /\ Top(c).how \in {"ladder", "resize"}
  BY <1>1, RunsTop DEF Shape, Frames
<1>3. \/ UNCHANGED deal /\ Return(c, FALSE)
      \/ Set(d, WithoutLadder(deal[d])) /\ Return(c, FALSE)
      \/ UNCHANGED deal /\ Goto(c, Top(c).how)
  BY DEF PlaceBegins
<1>4. Quietly
  <2>1. WithoutLadder(deal[d]) \in DealTypes /\ SameBooks(WithoutLadder(deal[d]), deal[d])
    BY <1>2, LadderChanged
  <2> HIDE DEF d
  <2> QED
    BY <1>2, <1>3, <2>1, SetType, DealsKept DEF Shape
<1>5. CASE Return(c, FALSE)
  <2>1. StepDone(c, Len(stack[c]), {}, {})
    BY <1>1, <1>5, ReturnStep
  <2> QED
    BY <1>1, <1>4, <2>1, MovesMore, ShapeQuiet
<1>6. CASE Goto(c, Top(c).how)
  <2>1. StepDone(c, Len(stack[c]), {At(c, Top(c).how)}, {})
    BY <1>1, <1>2, <1>6, GotoStep DEF Points
  <2> QED
    BY <1>1, <1>2, <1>4, <2>1, MovesMore, ShapeQuiet
<1> QED
  BY <1>3, <1>5, <1>6

LEMMA PlaceLadderDoes ==
  ASSUME Shape, NEW c \in Calls, PlaceLadder(c)
  PROVE  Shape' /\ Moves(c, Len(stack[c]), {At(c, "sends")}, {}) /\ Quietly
<1> DEFINE d == Top(c).deal
           r == [deal[d] EXCEPT !.so = [s \in SafetyOrders |->
                      IF s \in world.ladder THEN "resting" ELSE @[s]]]
<1>1. /\ Runs(c, "placeOrders", "ladder") /\ Goto(c, "sends") /\ Set(d, r)
      /\ UNCHANGED <<world, bot, asked>>
  BY DEF PlaceLadder
<1>2. d \in Deals /\ deal[d] \in DealTypes
  BY <1>1, RunsTop DEF Shape
<1>3. r \in DealTypes /\ SameBooks(r, deal[d])
  BY <1>2, LadderChanged
<1> HIDE DEF r, d
<1>4. Quietly
  BY <1>1, <1>2, <1>3, SetType, DealsKept DEF Shape
<1>5. StepDone(c, Len(stack[c]), {At(c, "sends")}, {})
  BY <1>1, GotoStep DEF Points
<1> QED
  BY <1>1, <1>4, <1>5, ShapeQuiet

LEMMA PlaceCancelsDoes ==
  ASSUME Shape, NEW c \in Calls, PlaceCancels(c)
  PROVE  Shape' /\ Moves(c, Len(stack[c]), {At(c, "sends")}, Reported) /\ Quietly
<1> DEFINE d == Top(c).deal
           o == <<"fill", d>>
           r == [deal[d] EXCEPT !.tp = "cancelled"]
<1>1. Runs(c, "placeOrders", "resize") /\ UNCHANGED <<world, bot, asked>>
  BY DEF PlaceCancels
<1>2. d \in Deals /\ deal[d] \in DealTypes
  BY <1>1, RunsTop DEF Shape
<1>3. o \in Reports /\ o[2] = d
  BY <1>2 DEF Reports
<1>4. \/ Set(d, Known(o)) /\ ReturnAnd(c, Just(o, Handler(o)))
      \/ UNCHANGED deal /\ Return(c, FALSE)
      \/ Set(d, r) /\ Goto(c, "sends")
      \/ UNCHANGED deal /\ Goto(c, "sends")
  BY DEF PlaceCancels
<1>5. /\ Known(o) \in DealTypes /\ SameBooks(Known(o), deal[d])
      /\ r \in DealTypes /\ SameBooks(r, deal[d])
  <2>1. Known(o) \in DealTypes /\ SameBooks(Known(o), deal[d])
    BY <1>3, KnownType, KnownBooks DEF Shape
  <2>2. "cancelled" \in Orders /\ 0 \in Int
    BY Named
  <2>3. r \in DealTypes /\ SameBooks(r, deal[d])
    BY <1>2, <2>2, TakeProfitSet
  <2> QED
    BY <2>1, <2>3
<1>6. /\ Spawns(Just(o, Handler(o))) /\ Spawned(Just(o, Handler(o))) = {Handler(o)}
      /\ Handler(o) \in Reported
  BY <1>3, HandlerType, ReportCalls, OneSpawn DEF Shape, Reported
<1> HIDE DEF r, d, o
<1>7. Quietly
  BY <1>2, <1>4, <1>5, SetType, DealsKept DEF Shape
<1>8. CASE ReturnAnd(c, Just(o, Handler(o)))
  <2>1. StepDone(c, Len(stack[c]), {}, {Handler(o)})
    BY <1>1, <1>6, <1>8, ReturnAndStep
  <2> QED
    BY <1>1, <1>6, <1>7, <2>1, MovesMore, ShapeQuiet
<1>9. CASE Return(c, FALSE)
  <2>1. StepDone(c, Len(stack[c]), {}, {})
    BY <1>1, <1>9, ReturnStep
  <2> QED
    BY <1>1, <1>7, <2>1, MovesMore, ShapeQuiet
<1>10. CASE Goto(c, "sends")
  <2>1. StepDone(c, Len(stack[c]), {At(c, "sends")}, {})
    BY <1>1, <1>10, GotoStep DEF Points
  <2> QED
    BY <1>1, <1>7, <2>1, MovesMore, ShapeQuiet
<1> QED
  BY <1>4, <1>8, <1>9, <1>10

LEMMA PlaceSendsDoes ==
  ASSUME Shape, NEW c \in Calls, PlaceSends(c)
  PROVE  Shape' /\ Moves(c, Len(stack[c]), {}, {}) /\ Quietly
<1> DEFINE d == Top(c).deal
           r == [deal[d] EXCEPT !.tp = "resting", !.tpQty = Top(c).qty]
<1>1. Runs(c, "placeOrders", "sends") /\ Return(c, FALSE) /\ UNCHANGED <<world, bot, asked>>
  BY DEF PlaceSends
<1>2. d \in Deals /\ deal[d] \in DealTypes /\ Top(c).qty \in Int
  BY <1>1, RunsTop DEF Shape, Frames
<1>3. UNCHANGED deal \/ Set(d, WithoutLadder(deal[d])) \/ Set(d, r)
  BY DEF PlaceSends
<1>4. /\ WithoutLadder(deal[d]) \in DealTypes /\ SameBooks(WithoutLadder(deal[d]), deal[d])
      /\ r \in DealTypes /\ SameBooks(r, deal[d])
  <2>1. "resting" \in Orders
    BY Named
  <2> QED
    BY <1>2, <2>1, LadderChanged, TakeProfitSet
<1> HIDE DEF r, d
<1>5. Quietly
  BY <1>2, <1>3, <1>4, SetType, DealsKept DEF Shape
<1>6. StepDone(c, Len(stack[c]), {}, {})
  BY <1>1, ReturnStep
<1> QED
  BY <1>1, <1>5, <1>6, ShapeQuiet

LEMMA LevelBooksDoes ==
  ASSUME Shape, NEW c \in Calls, LevelBooks(c)
  PROVE  /\ Shape' /\ Quietly
         /\ Moves(c, Len(stack[c]), {At(c, "sizes"), At(c, "sells"), At(c, "reads")}, {})
<1> DEFINE d == Top(c).deal
           r == [deal[d] EXCEPT !.ledger = @ + 1]
           a == IF deal[d].live THEN "sells" ELSE "reads"
           gs == {At(c, "sizes"), At(c, "sells"), At(c, "reads")}
<1>1. Runs(c, "updateDeal", "begin") /\ UNCHANGED <<world, bot, asked>>
  BY DEF LevelBooks
<1>2. d \in Deals /\ deal[d] \in DealTypes
  BY <1>1, RunsTop DEF Shape
<1>3. \/ Set(d, r) /\ Goto(c, "sizes")
      \/ UNCHANGED deal /\ Goto(c, a)
      \/ UNCHANGED deal /\ Return(c, FALSE)
  BY DEF LevelBooks
<1>4. r \in DealTypes /\ SameBooks(r, deal[d])
  <2>1. "done" \in Orders /\ 1 \in Int
    BY Named
  <2> QED
    BY <1>2, <2>1, Executes
<1>5. a \in {"sells", "reads"}
  OBVIOUS
<1> HIDE DEF r, d, a
<1>6. Quietly
  BY <1>2, <1>3, <1>4, SetType, DealsKept DEF Shape
<1>7. \A b \in {"sizes", "sells", "reads"} :
        Goto(c, b) => StepDone(c, Len(stack[c]), {At(c, b)}, {}) /\ {At(c, b)} \subseteq gs
  BY <1>1, GotoStep DEF Points
<1>8. Return(c, FALSE) => StepDone(c, Len(stack[c]), {}, {})
  BY <1>1, ReturnStep
<1>9. \E hs : hs \subseteq gs /\ StepDone(c, Len(stack[c]), hs, {})
  <2>1. CASE Return(c, FALSE)
    BY <2>1, <1>8
  <2>2. CASE Goto(c, "sizes") \/ Goto(c, a)
    BY <2>2, <1>5, <1>7
  <2> QED
    BY <1>3, <2>1, <2>2
<1> QED
  BY <1>1, <1>6, <1>9, MovesMore, ShapeQuiet

LEMMA LevelSizesDoes ==
  ASSUME Shape, NEW c \in Calls, LevelSizes(c)
  PROVE  /\ Shape' /\ Quietly
         /\ \E f : Placer(f) /\ Moves(c, Len(stack[c]), {At(c, "placed")}, {f})
<1> DEFINE d == Top(c).deal
           f == Placing(d, "resize")
<1>1. Runs(c, "updateDeal", "sizes") /\ Await(c, "placed", f)
      /\ UNCHANGED <<world, deal, bot, asked>>
  BY DEF LevelSizes
<1>2. Placer(f)
  BY <1>1, RunsTop, PlacingType
<1> HIDE DEF f
<1>3. StepDone(c, Len(stack[c]), {At(c, "placed")}, {f})
  BY <1>1, <1>2, AwaitStep DEF Points, Placer
<1> QED
  BY <1>1, <1>2, <1>3, DealsKept, ShapeQuiet

LEMMA LevelEndsDoes ==
  ASSUME Shape, NEW c \in Calls, LevelEnds(c)
  PROVE  Shape' /\ Moves(c, Len(stack[c]), {}, {}) /\ Quietly
<1>1. Runs(c, "updateDeal", "placed") /\ Return(c, FALSE) /\ UNCHANGED <<world, deal, bot, asked>>
  BY DEF LevelEnds
<1>2. StepDone(c, Len(stack[c]), {}, {})
  BY <1>1, ReturnStep
<1> QED
  BY <1>1, <1>2, DealsKept, ShapeQuiet

LEMMA LevelSellsDoes ==
  ASSUME Shape, NEW c \in Calls, LevelSells(c)
  PROVE  Shape' /\ Moves(c, Len(stack[c]), {}, {}) /\ Quietly
<1> DEFINE d == Top(c).deal
           r == [deal[d] EXCEPT !.coins = @ - 1]
<1>1. /\ Runs(c, "updateDeal", "sells") \/ Runs(c, "updateDeal", "reads")
      /\ Return(c, FALSE) /\ UNCHANGED <<world, bot, asked>>
  BY DEF LevelSells
<1>2. d \in Deals /\ deal[d] \in DealTypes
  BY <1>1, RunsTop DEF Shape
<1>3. r \in DealTypes /\ SameBooks(r, deal[d])
  BY <1>2, Sold
<1>4. Set(d, r) \/ UNCHANGED deal
  BY DEF LevelSells
<1> HIDE DEF r, d
<1>5. Quietly
  BY <1>2, <1>3, <1>4, SetType, DealsKept DEF Shape
<1>6. StepDone(c, Len(stack[c]), {}, {})
  BY <1>1, ReturnStep
<1> QED
  BY <1>1, <1>5, <1>6, ShapeQuiet

\* closeDeal

Fresh(d) == deal[d].status = "open" \/ (deal[d].status = "canceled" /\ ~deal[d].profit)

LEMMA CloseDealBeginsDoes ==
  ASSUME Shape, NEW c \in Calls, CloseDealBegins(c)
  PROVE  LET d == Top(c).deal
         IN /\ Shape' /\ Quietly
            /\ \/ deal[d].live /\ Fresh(d) /\ Moves(c, Len(stack[c]), {At(c, "settles")}, {})
               \/ Moves(c, Len(stack[c]), {}, {})
<1> DEFINE d == Top(c).deal
<1>1. Runs(c, "closeDeal", "begin") /\ UNCHANGED <<world, deal, bot, asked>>
  BY DEF CloseDealBegins
<1>2. \/ deal[d].live /\ Fresh(d) /\ Goto(c, "settles")
      \/ Return(c, FALSE)
  BY DEF CloseDealBegins, Fresh
<1> HIDE DEF d
<1>3. Goto(c, "settles") => StepDone(c, Len(stack[c]), {At(c, "settles")}, {})
  BY <1>1, GotoStep DEF Points
<1>4. Return(c, FALSE) => StepDone(c, Len(stack[c]), {}, {})
  BY <1>1, ReturnStep
<1>5. CASE Return(c, FALSE)
  BY <1>1, <1>4, <1>5, DealsKept, ShapeQuiet
<1>6. CASE deal[d].live /\ Fresh(d) /\ Goto(c, "settles")
  BY <1>1, <1>3, <1>6, DealsKept, ShapeQuiet DEF d
<1> QED
  BY <1>2, <1>5, <1>6

LEMMA CloseDealSettlesDoes ==
  ASSUME Shape, NEW c \in Calls, CloseDealSettles(c)
  PROVE  /\ Shape' /\ Quietly
         /\ Moves(c, Len(stack[c]), {At(c, "measures"), At(c, "closes")}, {})
<1> DEFINE d == Top(c).deal
           r == IF Top(c).how = "tp" THEN [deal[d] EXCEPT !.closing = TRUE] ELSE deal[d]
           a == IF Top(c).how = "tp" THEN "measures" ELSE "closes"
<1>1. /\ Runs(c, "closeDeal", "settles") /\ UNCHANGED <<world, bot, asked>>
      /\ Set(d, r) /\ Goto(c, a)
  BY DEF CloseDealSettles
<1>2. d \in Deals /\ deal[d] \in DealTypes
  BY <1>1, RunsTop DEF Shape
<1>3. r \in DealTypes /\ SameBooks(r, deal[d])
  <2>1. SameBooks(deal[d], deal[d]) /\ 0 \in Int
    BY DEF SameBooks
  <2> QED
    BY <1>2, <2>1, Settles
<1>4. a \in Points /\ At(c, a) \in {At(c, "measures"), At(c, "closes")}
  BY DEF Points
<1> HIDE DEF r, d, a
<1>5. Quietly
  BY <1>1, <1>2, <1>3, SetType DEF Shape
<1>6. StepDone(c, Len(stack[c]), {At(c, a)}, {})
  BY <1>1, <1>4, GotoStep
<1>7. Shape' /\ Moves(c, Len(stack[c]), {At(c, a)}, {})
  BY <1>1, <1>5, <1>6, ShapeQuiet
<1> QED
  BY <1>4, <1>5, <1>7, MovesMore

LEMMA CloseDealMeasuresDoes ==
  ASSUME Shape, NEW c \in Calls, CloseDealMeasures(c)
  PROVE  /\ Shape' /\ Quietly
         /\ Moves(c, Len(stack[c]), {At(c, "swept"), At(c, "closes")}, {})
<1> DEFINE d == Top(c).deal
           rest == deal[d].ledger - Top(c).qty
           r == IF rest > 0 THEN [deal[d] EXCEPT !.coins = @ - rest] ELSE deal[d]
           a == IF rest > 0 THEN "swept" ELSE "closes"
<1>1. /\ Runs(c, "closeDeal", "measures") /\ UNCHANGED <<world, bot, asked>>
      /\ Set(d, r) /\ Goto(c, a)
  BY DEF CloseDealMeasures
<1>2. d \in Deals /\ deal[d] \in DealTypes /\ Top(c).qty \in Int
  BY <1>1, RunsTop DEF Shape, Frames
<1>3. rest \in Int
  BY <1>2, Fields
<1>4. a \in Points /\ At(c, a) \in {At(c, "swept"), At(c, "closes")}
  BY DEF Points
<1> HIDE DEF rest, a
<1>5. r \in DealTypes /\ SameBooks(r, deal[d])
  <2>1. SameBooks(deal[d], deal[d])
    BY DEF SameBooks
  <2> QED
    BY <1>2, <1>3, <2>1, Sold
<1> HIDE DEF r, d
<1>6. Quietly
  BY <1>1, <1>2, <1>5, SetType DEF Shape
<1>7. StepDone(c, Len(stack[c]), {At(c, a)}, {})
  BY <1>1, <1>4, GotoStep
<1>8. Shape' /\ Moves(c, Len(stack[c]), {At(c, a)}, {})
  BY <1>1, <1>6, <1>7, ShapeQuiet
<1> QED
  BY <1>4, <1>6, <1>8, MovesMore

LEMMA CloseDealClosesDoes ==
  ASSUME Shape, NEW c \in Calls, CloseDealCloses(c)
  PROVE  LET d == Top(c).deal
             a == IF Top(c).at = "swept" THEN "sweptBooks" ELSE "books"
         IN /\ Shape' /\ Moves(c, Len(stack[c]), {At(c, a)}, {}) /\ OthersKept(d)
            /\ deal'[d].status = "closed" /\ deal'[d].live = deal[d].live
            /\ deal'[d].booked = deal[d].booked /\ deal'[d].closes = deal[d].closes
<1> DEFINE d == Top(c).deal
           r == [deal[d] EXCEPT !.status = "closed", !.ledger = @ - Top(c).qty]
           a == IF Top(c).at = "swept" THEN "sweptBooks" ELSE "books"
<1>1. /\ Runs(c, "closeDeal", "closes") \/ Runs(c, "closeDeal", "swept")
      /\ Set(d, r) /\ Goto(c, a) /\ UNCHANGED <<world, bot, asked>>
  BY DEF CloseDealCloses
<1>2. d \in Deals /\ deal[d] \in DealTypes /\ Top(c).qty \in Int
  BY <1>1, RunsTop DEF Shape, Frames
<1>3. /\ r \in DealTypes /\ r.status = "closed"
      /\ r.live = deal[d].live /\ r.booked = deal[d].booked /\ r.closes = deal[d].closes
  BY <1>2, Settles
<1>4. a \in Points
  BY DEF Points
<1> HIDE DEF r, d, a
<1>5. Retyped /\ deal'[d] = r /\ OthersKept(d)
  BY <1>1, <1>2, <1>3, SetOthers DEF Shape
<1>6. StepDone(c, Len(stack[c]), {At(c, a)}, {})
  BY <1>1, <1>4, GotoStep
<1>7. Shape' /\ Moves(c, Len(stack[c]), {At(c, a)}, {})
  BY <1>1, <1>5, <1>6, ShapeKept DEF Shape, BotTypes
<1> QED
  BY <1>3, <1>5, <1>7 DEF d, a

LEMMA CloseDealBooksDoes ==
  ASSUME Shape, NEW c \in Calls, CloseDealBooks(c)
  PROVE  LET d == Top(c).deal
         IN /\ Shape' /\ OthersKept(d)
            /\ Moves(c, Len(stack[c]), {At(c, "released")}, {Release(d, FALSE)})
            /\ deal'[d].status = deal[d].status /\ deal'[d].live = deal[d].live
            /\ deal'[d].booked = deal[d].booked + 1 /\ deal'[d].closes = deal[d].closes
<1> DEFINE d == Top(c).deal
           rest == IF Top(c).at = "books" /\ Top(c).how = "tp" /\ deal[d].ledger > 0
                   THEN deal[d].ledger ELSE 0
           r == Booked([deal[d] EXCEPT !.stored = deal[d].status, !.coins = @ - rest])
           f == Release(d, FALSE)
<1>1. /\ Runs(c, "closeDeal", "books") \/ Runs(c, "closeDeal", "sweptBooks")
      /\ Set(d, r) /\ Await(c, "released", f) /\ UNCHANGED <<world, bot, asked>>
  BY DEF CloseDealBooks
<1>2. d \in Deals /\ deal[d] \in DealTypes
  BY <1>1, RunsTop DEF Shape
<1>3. rest \in Int
  BY <1>2, Fields
<1> HIDE DEF rest
<1>4. /\ r \in DealTypes /\ r.status = deal[d].status /\ r.live = deal[d].live
      /\ r.booked = deal[d].booked + 1 /\ r.closes = deal[d].closes
  BY <1>2, <1>3, Books
<1>5. f \in Frames /\ f.at = "begin"
  BY <1>2, ReleaseType
<1> HIDE DEF r, d, f
<1>6. Retyped /\ deal'[d] = r /\ OthersKept(d)
  BY <1>1, <1>2, <1>4, SetOthers DEF Shape
<1>7. StepDone(c, Len(stack[c]), {At(c, "released")}, {f})
  BY <1>1, <1>5, AwaitStep DEF Points
<1>8. Shape' /\ Moves(c, Len(stack[c]), {At(c, "released")}, {f})
  BY <1>1, <1>6, <1>7, ShapeKept DEF Shape, BotTypes
<1> QED
  BY <1>4, <1>6, <1>8 DEF d, f

LEMMA CloseDealEndsDoes ==
  ASSUME Shape, NEW c \in Calls, CloseDealEnds(c)
  PROVE  Shape' /\ Moves(c, Len(stack[c]), {}, {StopFrame("none")}) /\ Quietly
<1> DEFINE spawn == Just(After(c), StopFrame("none"))
<1>1. /\ Runs(c, "closeDeal", "released") /\ UNCHANGED <<world, deal, bot, asked>>
      /\ ReturnAnd(c, spawn) \/ Return(c, FALSE)
  BY DEF CloseDealEnds
<1>2. Spawns(spawn) /\ Spawned(spawn) = {StopFrame("none")}
  BY StopSpawn
<1> HIDE DEF spawn
<1>3. \/ StepDone(c, Len(stack[c]), {}, {StopFrame("none")})
      \/ StepDone(c, Len(stack[c]), {}, {})
  BY <1>1, <1>2, ReturnAndStep, ReturnStep
<1> QED
  BY <1>1, <1>3, DealsKept, ShapeQuiet, MovesMore

\* closeDealById

LEMMA CloseBeginsDoes ==
  ASSUME Shape, NEW c \in Calls, CloseBegins(c)
  PROVE  LET d == Top(c).deal
         IN /\ Shape' /\ Quietly
            /\ \/ /\ deal[d].live /\ (deal[d].status = "start" \/ Top(c).how = "cancel")
                  /\ Moves(c, Len(stack[c]), {At(c, "cancels")}, {})
               \/ Moves(c, Len(stack[c]), {At(c, "sweeps")}, {StopFrame("none")})
<1> DEFINE d == Top(c).deal
           spawn == Just(After(c), StopFrame("none"))
<1>1. Runs(c, "closeDealById", "begin") /\ UNCHANGED <<world, deal, bot, asked>>
  BY DEF CloseBegins
<1>2. \/ ReturnAnd(c, spawn)
      \/ Return(c, FALSE)
      \/ /\ deal[d].live /\ (deal[d].status = "start" \/ Top(c).how = "cancel")
         /\ Goto(c, "cancels")
      \/ Goto(c, "sweeps")
  BY DEF CloseBegins
<1>3. Spawns(spawn) /\ Spawned(spawn) = {StopFrame("none")}
  BY StopSpawn
<1> HIDE DEF spawn, d
<1>4. CASE ReturnAnd(c, spawn)
  <2>1. StepDone(c, Len(stack[c]), {}, {StopFrame("none")})
    BY <1>1, <1>3, <1>4, ReturnAndStep
  <2> QED
    BY <1>1, <2>1, DealsKept, ShapeQuiet, MovesMore
<1>5. CASE Return(c, FALSE)
  <2>1. StepDone(c, Len(stack[c]), {}, {})
    BY <1>1, <1>5, ReturnStep
  <2> QED
    BY <1>1, <2>1, DealsKept, ShapeQuiet, MovesMore
<1>6. CASE Goto(c, "sweeps")
  <2>1. StepDone(c, Len(stack[c]), {At(c, "sweeps")}, {})
    BY <1>1, <1>6, GotoStep DEF Points
  <2> QED
    BY <1>1, <2>1, DealsKept, ShapeQuiet, MovesMore
<1>7. CASE /\ deal[d].live /\ (deal[d].status = "start" \/ Top(c).how = "cancel")
           /\ Goto(c, "cancels")
  <2>1. StepDone(c, Len(stack[c]), {At(c, "cancels")}, {})
    BY <1>1, <1>7, GotoStep DEF Points
  <2> QED
    BY <1>1, <1>7, <2>1, DealsKept, ShapeQuiet DEF d
<1> QED
  BY <1>2, <1>4, <1>5, <1>6, <1>7

LEMMA CloseCancelsDoes ==
  ASSUME Shape, NEW c \in Calls, CloseCancels(c)
  PROVE  LET d == Top(c).deal
         IN /\ Shape' /\ OthersKept(d)
            /\ \E own \in BOOLEAN :
                 Moves(c, Len(stack[c]), {At(c, "released")}, {Release(d, own)})
            /\ deal'[d].status = "canceled" /\ deal'[d].live = deal[d].live
            /\ deal'[d].closes = deal[d].closes
            /\ ~deal[d].profit => deal'[d].booked = deal[d].booked
<1> DEFINE d == Top(c).deal
           k == [deal[d] EXCEPT !.status = "canceled", !.stored = "canceled"]
           r == IF deal[d].profit THEN Booked(k) ELSE k
           f == Release(d, Top(c).own)
<1>1. /\ Runs(c, "closeDealById", "cancels")
      /\ Set(d, r) /\ Await(c, "released", f) /\ UNCHANGED <<world, bot, asked>>
  BY DEF CloseCancels
<1>2. d \in Deals /\ deal[d] \in DealTypes /\ Top(c).own \in BOOLEAN
  BY <1>1, RunsTop DEF Shape, Frames
<1>3. /\ k \in DealTypes /\ k.status = "canceled" /\ k.live = deal[d].live
      /\ k.booked = deal[d].booked /\ k.closes = deal[d].closes
      /\ Booked(k) \in DealTypes /\ Booked(k).status = "canceled"
      /\ Booked(k).live = deal[d].live /\ Booked(k).closes = deal[d].closes
  BY <1>2, Cancels
<1>4. f \in Frames /\ f.at = "begin"
  BY <1>2, ReleaseType
<1> HIDE DEF k, d, f
<1>5. /\ r \in DealTypes /\ r.status = "canceled" /\ r.live = deal[d].live
      /\ r.closes = deal[d].closes
      /\ ~deal[d].profit => r.booked = deal[d].booked
  BY <1>3
<1> HIDE DEF r
<1>6. Retyped /\ deal'[d] = r /\ OthersKept(d)
  BY <1>1, <1>2, <1>5, SetOthers DEF Shape
<1>7. StepDone(c, Len(stack[c]), {At(c, "released")}, {f})
  BY <1>1, <1>4, AwaitStep DEF Points
<1>8. Shape' /\ Moves(c, Len(stack[c]), {At(c, "released")}, {f})
  BY <1>1, <1>6, <1>7, ShapeKept DEF Shape, BotTypes
<1> QED
  BY <1>2, <1>5, <1>6, <1>8 DEF d, f

LEMMA CloseReleasedDoes ==
  ASSUME Shape, NEW c \in Calls, CloseReleased(c)
  PROVE  /\ Shape' /\ Quietly
         /\ Moves(c, Len(stack[c]), {At(c, "stopped"), At(c, "sweeps")}, {StopFrame("none")})
<1> DEFINE gs == {At(c, "stopped"), At(c, "sweeps")}
<1>1. Runs(c, "closeDealById", "released") /\ UNCHANGED <<world, deal, bot, asked>>
  BY DEF CloseReleased
<1>2. \/ Await(c, "stopped", StopFrame("none"))
      \/ Goto(c, "sweeps")
      \/ Return(c, FALSE)
  BY DEF CloseReleased
<1>3. CASE Await(c, "stopped", StopFrame("none"))
  <2>1. StepDone(c, Len(stack[c]), {At(c, "stopped")}, {StopFrame("none")})
    BY <1>1, <1>3, AwaitStep, StopType DEF Points, Ways
  <2> QED
    BY <1>1, <2>1, DealsKept, ShapeQuiet, MovesMore
<1>4. CASE Goto(c, "sweeps")
  <2>1. StepDone(c, Len(stack[c]), {At(c, "sweeps")}, {})
    BY <1>1, <1>4, GotoStep DEF Points
  <2> QED
    BY <1>1, <2>1, DealsKept, ShapeQuiet, MovesMore
<1>5. CASE Return(c, FALSE)
  <2>1. StepDone(c, Len(stack[c]), {}, {})
    BY <1>1, <1>5, ReturnStep
  <2> QED
    BY <1>1, <2>1, DealsKept, ShapeQuiet, MovesMore
<1> QED
  BY <1>2, <1>3, <1>4, <1>5

LEMMA CloseStoppedDoes ==
  ASSUME Shape, NEW c \in Calls, CloseStopped(c)
  PROVE  Shape' /\ Moves(c, Len(stack[c]), {}, {}) /\ Quietly
<1>1. /\ Runs(c, "closeDealById", "stopped") /\ Return(c, FALSE)
      /\ UNCHANGED <<world, deal, bot, asked>>
  BY DEF CloseStopped
<1>2. StepDone(c, Len(stack[c]), {}, {})
  BY <1>1, ReturnStep
<1> QED
  BY <1>1, <1>2, DealsKept, ShapeQuiet

LEMMA CloseSweepsDoes ==
  ASSUME Shape, NEW c \in Calls, CloseSweeps(c)
  PROVE  /\ Shape' /\ Quietly
         /\ Moves(c, Len(stack[c]), {At(c, "swept"), At(c, "sweptFilled")}, Reported)
<1> DEFINE d == Top(c).deal
           r == SweptDeal(deal[d])
           a == IF deal[d].tp = "filled" THEN "sweptFilled" ELSE "swept"
<1>1. /\ Runs(c, "closeDealById", "sweeps") /\ UNCHANGED <<world, bot, asked>>
      /\ Set(d, r) /\ GotoAnd(c, a, Handlers(d))
  BY DEF CloseSweeps
<1>2. d \in Deals /\ deal[d] \in DealTypes
  BY <1>1, RunsTop DEF Shape
<1>3. r \in DealTypes /\ SameBooks(r, deal[d])
  BY <1>2, Swept
<1>4. Spawns(Handlers(d)) /\ Spawned(Handlers(d)) \subseteq Reported
  BY <1>2, HandlersType DEF Shape, Reported
<1>5. a \in Points /\ At(c, a) \in {At(c, "swept"), At(c, "sweptFilled")}
  BY DEF Points
<1> HIDE DEF r, d, a
<1>6. Quietly
  BY <1>1, <1>2, <1>3, SetType DEF Shape
<1>7. StepDone(c, Len(stack[c]), {At(c, a)}, Spawned(Handlers(d)))
  BY <1>1, <1>4, <1>5, GotoAndStep
<1>8. Shape' /\ Moves(c, Len(stack[c]), {At(c, a)}, Spawned(Handlers(d)))
  BY <1>1, <1>6, <1>7, ShapeQuiet
<1> QED
  BY <1>4, <1>5, <1>6, <1>8, MovesMore

LEMMA CloseGivesWayDoes ==
  ASSUME Shape, NEW c \in Calls, CloseGivesWay(c)
  PROVE  Shape' /\ Moves(c, Len(stack[c]), {}, {}) /\ Quietly
<1>1. /\ Runs(c, "closeDealById", "swept") \/ Runs(c, "closeDealById", "sweptFilled")
      /\ Return(c, FALSE) /\ UNCHANGED <<world, deal, bot, asked>>
  BY DEF CloseGivesWay
<1>2. StepDone(c, Len(stack[c]), {}, {})
  BY <1>1, ReturnStep
<1> QED
  BY <1>1, <1>2, DealsKept, ShapeQuiet

\* A close of a deal that waits for the key.
Closers == {f \in Frames : f.at = "begin" /\ f.op = "closeDeal" /\ f.how # "cancel"}

LEMMA CloseExecutesDoes ==
  ASSUME Shape, NEW c \in Calls, CloseExecutes(c)
  PROVE  Shape' /\ Moves(c, Len(stack[c]), {}, Closers) /\ Quietly
<1> DEFINE d == Top(c).deal
           r == [deal[d] EXCEPT !.tp = "done", !.coins = @ - Size(d), !.sold = @ + Size(d)]
           f == CloseByTp(d, Size(d))
           spawn == Just(<<"sold", d>>, f)
<1>1. /\ Runs(c, "closeDealById", "swept") /\ UNCHANGED <<world, bot, asked>>
      /\ Set(d, r) /\ ReturnAnd(c, spawn)
  BY DEF CloseExecutes, CloseSends
<1>2. d \in Deals /\ deal[d] \in DealTypes
  BY <1>1, RunsTop DEF Shape
<1>3. Size(d) \in Int
  BY <1>2, PlacingType
<1>4. r \in DealTypes /\ SameBooks(r, deal[d])
  <2>1. "done" \in Orders
    BY Named
  <2> QED
    BY <1>2, <1>3, <2>1, Executes
<1>5. f \in Closers
  BY <1>2, <1>3, SoldType DEF Closers
<1>6. <<"sold", d>> \in Calls
  BY <1>2 DEF Calls, Direct
<1> HIDE DEF f
<1>7. Spawns(spawn) /\ Spawned(spawn) = {f}
  BY <1>5, <1>6, OneSpawn DEF Closers
<1> HIDE DEF r, d, spawn
<1>8. Quietly
  BY <1>1, <1>2, <1>4, SetType DEF Shape
<1>9. StepDone(c, Len(stack[c]), {}, {f})
  BY <1>1, <1>7, ReturnAndStep
<1>10. Shape' /\ Moves(c, Len(stack[c]), {}, {f})
  BY <1>1, <1>8, <1>9, ShapeQuiet
<1> QED
  BY <1>5, <1>8, <1>10, MovesMore

LEMMA CloseWithoutOrderDoes ==
  ASSUME Shape, NEW c \in Calls, CloseWithoutOrder(c)
  PROVE  Shape' /\ Moves(c, Len(stack[c]), {At(c, "stopped")}, Closers) /\ Quietly
<1> DEFINE d == Top(c).deal
           r == IF NothingToClose(d) THEN deal[d] ELSE [deal[d] EXCEPT !.coins = 0]
           f == Frame("closeDeal", ClosingKey, d, "none")
<1>1. /\ Runs(c, "closeDealById", "swept") \/ Runs(c, "closeDealById", "sweptFilled")
      /\ UNCHANGED <<world, bot, asked>> /\ Set(d, r) /\ Await(c, "stopped", f)
  BY DEF CloseWithoutOrder, ClosesEmpty, CloseSends
<1>2. d \in Deals /\ deal[d] \in DealTypes
  BY <1>1, RunsTop DEF Shape
<1>3. r \in DealTypes /\ SameBooks(r, deal[d])
  <2>1. "done" \in Orders /\ 0 \in Int /\ SameBooks(deal[d], deal[d])
    BY Named DEF SameBooks
  <2>2. LET e == [deal[d] EXCEPT !.coins = 0] IN e \in DealTypes /\ SameBooks(e, deal[d])
    BY <1>2, <2>1, Executes
  <2> QED
    BY <1>2, <2>1, <2>2
<1>4. f \in Closers
  BY <1>2, CloserType DEF Closers
<1> HIDE DEF r, d, f
<1>5. Quietly
  BY <1>1, <1>2, <1>3, SetType DEF Shape
<1>6. StepDone(c, Len(stack[c]), {At(c, "stopped")}, {f})
  BY <1>1, <1>4, AwaitStep DEF Points, Closers
<1>7. Shape' /\ Moves(c, Len(stack[c]), {At(c, "stopped")}, {f})
  BY <1>1, <1>5, <1>6, ShapeQuiet
<1> QED
  BY <1>4, <1>5, <1>7, MovesMore

LEMMA CloseRestoresDoes ==
  ASSUME Shape, NEW c \in Calls, CloseRestores(c)
  PROVE  Shape' /\ Moves(c, Len(stack[c]), {}, {}) /\ Quietly
<1> DEFINE d == Top(c).deal
           r == [deal[d] EXCEPT !.tp = "resting", !.tpQty = Size(d)]
<1>1. /\ Runs(c, "closeDealById", "swept") /\ UNCHANGED <<world, bot, asked>>
      /\ Set(d, r) \/ Set(d, deal[d])
      /\ Return(c, FALSE)
  BY DEF CloseRestores, CloseSends
<1>2. d \in Deals /\ deal[d] \in DealTypes
  BY <1>1, RunsTop DEF Shape
<1>3. Size(d) \in Int /\ "resting" \in Orders
  BY <1>2, PlacingType, Named
<1>4. r \in DealTypes /\ SameBooks(r, deal[d]) /\ SameBooks(deal[d], deal[d])
  BY <1>2, <1>3, TakeProfitSet DEF SameBooks
<1> HIDE DEF r, d
<1>5. Quietly
  BY <1>1, <1>2, <1>4, SetType DEF Shape
<1>6. StepDone(c, Len(stack[c]), {}, {})
  BY <1>1, ReturnStep
<1> QED
  BY <1>1, <1>5, <1>6, ShapeQuiet

\* processDealClose

LEMMA ReleaseBeginsDoes ==
  ASSUME Shape, NEW c \in Calls, ReleaseBegins(c)
  PROVE  LET d == Top(c).deal
         IN /\ Shape' /\ OthersKept(d)
            /\ Moves(c, Len(stack[c]), {At(c, "sweeps")}, {})
            /\ deal'[d].status = deal[d].status /\ deal'[d].live = FALSE
            /\ deal'[d].booked = deal[d].booked
            /\ deal'[d].closes = IF deal[d].live THEN deal[d].closes + 1 ELSE deal[d].closes
<1> DEFINE d == Top(c).deal
           k == [deal[d] EXCEPT !.closing = FALSE, !.live = FALSE, !.closes = @ + 1]
           u == [deal[d] EXCEPT !.closing = FALSE]
           r == IF deal[d].live THEN k ELSE u
<1>1. /\ Runs(c, "processDealClose", "begin") /\ UNCHANGED <<world, bot, asked>>
      /\ Set(d, r)
      /\ Goto(c, "sweeps") \/ Return(c, FALSE)
  BY DEF ReleaseBegins
<1>2. d \in Deals /\ deal[d] \in DealTypes /\ deal[d].live \in BOOLEAN
  BY <1>1, RunsTop, Fields DEF Shape
<1>3. /\ k \in DealTypes /\ k.status = deal[d].status /\ k.live = FALSE
      /\ k.booked = deal[d].booked /\ k.closes = deal[d].closes + 1
  BY <1>2, Leaves
<1>4. u \in DealTypes /\ SameBooks(u, deal[d])
  <2>1. 0 \in Int
    OBVIOUS
  <2> QED
    BY <1>2, <2>1, Settles
<1> HIDE DEF k, u, d
<1>5. /\ r \in DealTypes /\ r.status = deal[d].status /\ r.live = FALSE
      /\ r.booked = deal[d].booked
      /\ r.closes = IF deal[d].live THEN deal[d].closes + 1 ELSE deal[d].closes
  <2>1. CASE deal[d].live
    BY <1>3, <2>1
  <2>2. CASE deal[d].live = FALSE
    BY <1>4, <2>2 DEF SameBooks
  <2> QED
    BY <1>2, <2>1, <2>2
<1> HIDE DEF r
<1>6. Retyped /\ deal'[d] = r /\ OthersKept(d)
  BY <1>1, <1>2, <1>5, SetOthers DEF Shape
<1>7. Shape' /\ Moves(c, Len(stack[c]), {At(c, "sweeps")}, {})
  <2>1. CASE Goto(c, "sweeps")
    <3>1. StepDone(c, Len(stack[c]), {At(c, "sweeps")}, {})
      BY <1>1, <2>1, GotoStep DEF Points
    <3> QED
      BY <1>1, <1>6, <3>1, ShapeKept DEF Shape, BotTypes
  <2>2. CASE Return(c, FALSE)
    <3>1. StepDone(c, Len(stack[c]), {}, {})
      BY <1>1, <2>2, ReturnStep
    <3> QED
      BY <1>1, <1>6, <3>1, ShapeKept, MovesMore DEF Shape, BotTypes
  <2> QED
    BY <1>1, <2>1, <2>2
<1> QED
  BY <1>5, <1>6, <1>7 DEF d

LEMMA ReleaseSweepsDoes ==
  ASSUME Shape, NEW c \in Calls, ReleaseSweeps(c)
  PROVE  Shape' /\ Moves(c, Len(stack[c]), {At(c, "checks")}, Reported) /\ Quietly
<1> DEFINE d == Top(c).deal
           r == SweptDeal(deal[d])
<1>1. /\ Runs(c, "processDealClose", "sweeps") /\ UNCHANGED <<world, bot, asked>>
      /\ Set(d, r) /\ GotoAnd(c, "checks", Handlers(d))
  BY DEF ReleaseSweeps
<1>2. d \in Deals /\ deal[d] \in DealTypes
  BY <1>1, RunsTop DEF Shape
<1>3. r \in DealTypes /\ SameBooks(r, deal[d])
  BY <1>2, Swept
<1>4. Spawns(Handlers(d)) /\ Spawned(Handlers(d)) \subseteq Reported
  BY <1>2, HandlersType DEF Shape, Reported
<1> HIDE DEF r, d
<1>5. Quietly
  BY <1>1, <1>2, <1>3, SetType DEF Shape
<1>6. StepDone(c, Len(stack[c]), {At(c, "checks")}, Spawned(Handlers(d)))
  BY <1>1, <1>4, GotoAndStep DEF Points
<1> QED
  BY <1>1, <1>4, <1>5, <1>6, ShapeQuiet, MovesMore

Stops == {f \in Frames : f.at = "begin" /\ f.op = "stop" /\ f.how # "cancel"}

LEMMA SeeingType ==
  ASSUME NEW e \in Frames, NEW a \in Points, NEW S \in SUBSET Deals, NEW T \in SUBSET Deals
  PROVE  /\ LET g == [e EXCEPT !.at = a, !.deals = S]
            IN g \in Frames /\ g.op = e.op /\ g.key = e.key /\ g.how = e.how /\ g.at = a
               /\ g.deal = e.deal
         /\ LET g == [e EXCEPT !.at = a, !.todo = T]
            IN g \in Frames /\ g.op = e.op /\ g.key = e.key /\ g.how = e.how /\ g.at = a
               /\ g.deal = e.deal /\ g.todo = T
         /\ LET g == [e EXCEPT !.todo = T]
            IN g \in Frames /\ g.op = e.op /\ g.key = e.key /\ g.how = e.how /\ g.at = e.at
               /\ g.deal = e.deal /\ g.todo = T
BY DEF Frames

LEMMA ReleaseChecksDoes ==
  ASSUME Shape, NEW c \in Calls, ReleaseChecks(c)
  PROVE  /\ Shape' /\ Quietly
         /\ \E g \in Frames : /\ g.op = "processDealClose" /\ g.how = Top(c).how
                              /\ Moves(c, Len(stack[c]), {g}, Stops)
<1> DEFINE g == [Top(c) EXCEPT !.at = "ends", !.deals = OpenDeals]
           f == [StopFrame("leave") EXCEPT !.own = TRUE]
<1>1. /\ Runs(c, "processDealClose", "checks") /\ UNCHANGED <<world, deal, bot, asked>>
      /\ \/ Step(c, <<f>> \o (<<g>> \o Tail(stack[c])), None)
         \/ Step(c, <<g>> \o Tail(stack[c]), None)
  BY DEF ReleaseChecks
<1>2. ~Idle(c) /\ Holds(c) /\ Top(c) \in Frames /\ Top(c).op = "processDealClose"
  BY <1>1, RunsTop
<1>3. OpenDeals \in SUBSET Deals /\ "ends" \in Points
  BY DEF OpenDeals, Points
<1>4. g \in Frames /\ g.op = "processDealClose" /\ g.key = Top(c).key /\ g.how = Top(c).how
  <2>1. {} \in SUBSET Deals
    OBVIOUS
  <2>2. g \in Frames
    BY <2>1, <1>2, <1>3, SeeingType
  <2>3. g.op = Top(c).op /\ g.key = Top(c).key /\ g.how = Top(c).how
    BY <1>2 DEF Frames
  <2> QED
    BY <2>2, <2>3, <1>2
<1>5. f \in Stops
  <2>1. /\ StopFrame("leave") \in Frames /\ StopFrame("leave").at = "begin"
        /\ StopFrame("leave").op = "stop" /\ StopFrame("leave").how = "leave"
    BY StopType DEF Ways
  <2> QED
    BY <2>1 DEF Stops, Frames
<1> HIDE DEF f, g
<1>6. \/ StepDone(c, Len(stack[c]), {g}, {f})
      \/ StepDone(c, Len(stack[c]), {g}, {})
  <2>1. f \in Frames /\ f.at = "begin"
    BY <1>5 DEF Stops
  <2> QED
    BY <1>1, <1>2, <1>4, <2>1, PushStep, MoveStep, NoneSpawns DEF Shape
<1>7. Shape' /\ Moves(c, Len(stack[c]), {g}, {f})
  BY <1>1, <1>6, DealsKept, ShapeQuiet, MovesMore
<1>8. Moves(c, Len(stack[c]), {g}, Stops)
  BY <1>5, <1>7, MovesMore
<1> QED
  BY <1>1, <1>4, <1>7, <1>8, DealsKept

LEMMA ReleaseEndsDoes ==
  ASSUME Shape, NEW c \in Calls, ReleaseEnds(c)
  PROVE  Shape' /\ Moves(c, Len(stack[c]), {}, {}) /\ Quietly
<1> DEFINE v == bot.afterTp /\ Top(c).deals = {}
<1>1. /\ Runs(c, "processDealClose", "ends") /\ Return(c, v)
      /\ UNCHANGED <<world, deal, bot, asked>>
  BY DEF ReleaseEnds
<1>2. v \in BOOLEAN
  OBVIOUS
<1> HIDE DEF v
<1>3. StepDone(c, Len(stack[c]), {}, {})
  BY <1>1, <1>2, ReturnStep
<1> QED
  BY <1>1, <1>3, DealsKept, ShapeQuiet

\* stop

LEMMA FirstIn ==
  ASSUME NEW S \in SUBSET Deals, S # {}
  PROVE  First(S) \in S
<1>1. Deals \subseteq Nat
  BY NAssumption DEF Deals
<1>2. \E d \in S : \A e \in S : ~(<<e, d>> \in OpToRel(<, Nat))
  BY <1>1, NatLessThanWellFounded, WFMin
<1>3. \E d \in S : \A e \in S : d <= e
  <2>1. PICK d \in S : \A e \in S : ~(<<e, d>> \in OpToRel(<, Nat))
    BY <1>2
  <2>2. \A e \in S : ~(e < d)
    BY <1>1, <2>1 DEF OpToRel
  <2>3. \A e \in S : d <= e
    BY <1>1, <2>2
  <2> QED
    BY <2>3
<1> QED
  BY <1>3 DEF First

\* A stop that goes on with other deals to see to.
Stopping(c, g) == g \in Frames /\ g.op = "stop" /\ g.how = Top(c).how /\ g.at # "begin"

LEMMA StopArmsDoes ==
  ASSUME Shape, NEW c \in Calls, StopArms(c)
  PROVE  /\ Shape' /\ Quietly /\ bot'.gone = bot.gone
         /\ \E g : /\ Stopping(c, g)
                   /\ (\A d \in Deals : deal[d].status # "start") => g.todo = {}
                   /\ Moves(c, Len(stack[c]), {g}, {})
<1> DEFINE S == {d \in Top(c).deals : deal[d].status = "start"}
           g == [Top(c) EXCEPT !.at = "cancels", !.todo = S]
<1>1. /\ Runs(c, "stop", "begin") /\ UNCHANGED <<world, deal, asked>>
      /\ bot' = [bot EXCEPT !.afterTp = TRUE]
      /\ Step(c, <<g>> \o Tail(stack[c]), None)
  BY DEF StopArms
<1>2. ~Idle(c) /\ Holds(c) /\ Top(c) \in Frames /\ Top(c).op = "stop"
  BY <1>1, RunsTop
<1>3. S \in SUBSET Deals /\ "cancels" \in Points
  BY <1>2 DEF Frames, Points
<1>4. (\A d \in Deals : deal[d].status # "start") => S = {}
  BY <1>3
<1> HIDE DEF S
<1>5. g \in Frames
  BY <1>2, <1>3, SeeingType
<1>6. g.op = Top(c).op /\ g.key = Top(c).key /\ g.how = Top(c).how /\ g.at = "cancels" /\ g.todo = S
  BY <1>2 DEF Frames
<1> HIDE DEF g
<1>7. bot \in BotTypes /\ bot' \in BotTypes /\ bot'.gone = bot.gone
  BY <1>1 DEF Shape, BotTypes
<1>8. StepDone(c, Len(stack[c]), {g}, {})
  BY <1>1, <1>2, <1>5, <1>6, <1>7, MoveStep, NoneSpawns DEF Shape
<1>9. Quietly
  BY <1>1, DealsKept
<1>10. Shape' /\ Moves(c, Len(stack[c]), {g}, {})
  BY <1>1, <1>7, <1>8, <1>9, ShapeKept DEF Quietly
<1>11. Stopping(c, g)
  BY <1>2, <1>5, <1>6 DEF Stopping
<1> QED
  BY <1>4, <1>6, <1>7, <1>9, <1>10, <1>11

LEMMA StopCancelsDoes ==
  ASSUME Shape, NEW c \in Calls, StopCancels(c)
  PROVE  /\ Shape' /\ Quietly
         /\ \E f, g \in Frames :
              /\ f.op = "closeDealById" /\ f.at = "begin" /\ f.how = "cancel"
              /\ Stopping(c, g) /\ Moves(c, Len(stack[c]), {g}, {f})
<1> DEFINE d == First(Top(c).todo)
           k == Frame("closeDealById", DealKey(d), d, "cancel")
           f == [k EXCEPT !.own = Top(c).own]
           T == Top(c).todo \ {d}
           g == [Top(c) EXCEPT !.todo = T]
<1>1. /\ Runs(c, "stop", "cancels") /\ Top(c).todo # {} /\ UNCHANGED <<world, deal, bot, asked>>
      /\ Step(c, <<f, g>> \o Tail(stack[c]), None)
  BY DEF StopCancels, StopAwaits
<1>2. /\ ~Idle(c) /\ Holds(c) /\ Top(c) \in Frames /\ Top(c).op = "stop" /\ Top(c).at = "cancels"
      /\ stack[c] \in Seq(Frames) /\ stack[c] # << >>
  BY <1>1, RunsTop, FrameTypes DEF Shape, Idle
<1>3. Top(c).todo \in SUBSET Deals /\ Top(c).own \in BOOLEAN
  BY <1>2 DEF Frames
<1>4. d \in Deals /\ T \in SUBSET Deals /\ "cancel" \in Ways
  BY <1>1, <1>3, FirstIn DEF Ways
<1>5. k \in Frames /\ k.at = "begin" /\ k.op = "closeDealById" /\ k.how = "cancel"
  BY <1>4, RequestType
<1> HIDE DEF k, T, d
<1>6. f \in Frames /\ f.at = "begin" /\ f.op = "closeDealById" /\ f.how = "cancel"
  BY <1>3, <1>5 DEF Frames
<1>7. g \in Frames
  BY <1>2, <1>4 DEF Frames
<1>8. g.op = Top(c).op /\ g.key = Top(c).key /\ g.how = Top(c).how /\ g.at = "cancels"
  BY <1>2 DEF Frames
<1> HIDE DEF f, g
<1>9. Step(c, <<f>> \o (<<g>> \o Tail(stack[c])), None)
  <2>1. <<f, g>> \o Tail(stack[c]) = <<f>> \o (<<g>> \o Tail(stack[c]))
    BY <1>2, <1>6, <1>7, TopPushed
  <2> QED
    BY <1>1, <2>1
<1>10. StepDone(c, Len(stack[c]), {g}, {f})
  BY <1>1, <1>2, <1>6, <1>7, <1>8, <1>9, PushStep DEF Shape
<1>11. Shape' /\ Moves(c, Len(stack[c]), {g}, {f}) /\ Quietly
  BY <1>1, <1>10, DealsKept, ShapeQuiet
<1>12. Stopping(c, g)
  BY <1>2, <1>7, <1>8 DEF Stopping
<1> QED
  BY <1>6, <1>7, <1>11, <1>12

LEMMA StopChoosesDoes ==
  ASSUME Shape, NEW c \in Calls, StopChooses(c)
  PROVE  /\ Shape' /\ Quietly
         /\ \E g : /\ Stopping(c, g) /\ g.at = "closes"
                   /\ Moves(c, Len(stack[c]), {g}, {})
<1> DEFINE T == {d \in Top(c).deals : Top(c).how \notin {"none", "leave"}
                                      /\ deal[d].status = "open"}
           g == [Top(c) EXCEPT !.at = "closes", !.todo = T]
<1>1. /\ Runs(c, "stop", "cancels") /\ UNCHANGED <<world, deal, bot, asked>>
      /\ Step(c, <<g>> \o Tail(stack[c]), None)
  BY DEF StopChooses
<1>2. ~Idle(c) /\ Holds(c) /\ Top(c) \in Frames /\ Top(c).op = "stop"
  BY <1>1, RunsTop
<1>3. T \in SUBSET Deals /\ "closes" \in Points
  BY <1>2 DEF Frames, Points
<1> HIDE DEF T
<1>4. g \in Frames
  BY <1>2, <1>3, SeeingType
<1>5. g.op = Top(c).op /\ g.key = Top(c).key /\ g.how = Top(c).how /\ g.at = "closes"
  BY <1>2 DEF Frames
<1> HIDE DEF g
<1>6. StepDone(c, Len(stack[c]), {g}, {})
  BY <1>1, <1>2, <1>4, <1>5, MoveStep, NoneSpawns DEF Shape
<1>7. Shape' /\ Moves(c, Len(stack[c]), {g}, {}) /\ Quietly
  BY <1>1, <1>6, DealsKept, ShapeQuiet
<1> QED
  BY <1>2, <1>4, <1>5, <1>7 DEF Stopping

LEMMA StopClosesDoes ==
  ASSUME Shape, NEW c \in Calls, StopCloses(c)
  PROVE  /\ Shape' /\ Quietly
         /\ \E f, g \in Frames :
              /\ f.op = "closeDealById" /\ f.at = "begin" /\ f.how = Top(c).how
              /\ Stopping(c, g) /\ g.at = "closes" /\ Moves(c, Len(stack[c]), {g}, {f})
<1> DEFINE d == First(Top(c).todo)
           f == Frame("closeDealById", DealKey(d), d, Top(c).how)
           T == Top(c).todo \ {d}
           g == [Top(c) EXCEPT !.todo = T]
<1>1. /\ Runs(c, "stop", "closes") /\ Top(c).todo # {} /\ UNCHANGED <<world, deal, bot, asked>>
      /\ Step(c, <<f, g>> \o Tail(stack[c]), None)
  BY DEF StopCloses, StopAwaits
<1>2. /\ ~Idle(c) /\ Holds(c) /\ Top(c) \in Frames /\ Top(c).op = "stop" /\ Top(c).at = "closes"
      /\ stack[c] \in Seq(Frames) /\ stack[c] # << >>
  BY <1>1, RunsTop, FrameTypes DEF Shape, Idle
<1>3. Top(c).todo \in SUBSET Deals /\ Top(c).how \in Ways
  BY <1>2 DEF Frames
<1>4. d \in Deals /\ T \in SUBSET Deals
  BY <1>1, <1>3, FirstIn
<1>5. f \in Frames /\ f.at = "begin" /\ f.op = "closeDealById" /\ f.how = Top(c).how
  BY <1>3, <1>4, RequestType
<1> HIDE DEF f, T, d
<1>6. g \in Frames
  BY <1>2, <1>4 DEF Frames
<1>7. g.op = Top(c).op /\ g.key = Top(c).key /\ g.how = Top(c).how /\ g.at = "closes"
  BY <1>2 DEF Frames
<1> HIDE DEF g
<1>8. Step(c, <<f>> \o (<<g>> \o Tail(stack[c])), None)
  <2>1. <<f, g>> \o Tail(stack[c]) = <<f>> \o (<<g>> \o Tail(stack[c]))
    BY <1>2, <1>5, <1>6, TopPushed
  <2> QED
    BY <1>1, <2>1
<1>9. StepDone(c, Len(stack[c]), {g}, {f})
  BY <1>1, <1>2, <1>5, <1>6, <1>7, <1>8, PushStep DEF Shape
<1>10. Shape' /\ Moves(c, Len(stack[c]), {g}, {f}) /\ Quietly
  BY <1>1, <1>9, DealsKept, ShapeQuiet
<1>11. Stopping(c, g)
  BY <1>2, <1>6, <1>7 DEF Stopping
<1> QED
  BY <1>5, <1>6, <1>7, <1>10, <1>11

LEMMA StopDropsDoes ==
  ASSUME Shape, NEW c \in Calls, StopDrops(c)
  PROVE  /\ Shape' /\ Moves(c, Len(stack[c]), {At(c, "ends")}, {}) /\ bot'.gone = bot.gone
         /\ \A d \in Deals : /\ deal'[d].status = deal[d].status
                             /\ deal'[d].live => deal[d].live
                             /\ deal'[d].booked = deal[d].booked
                             /\ deal'[d].closes = deal[d].closes
<1> DEFINE drops == Top(c).how = "none" \/ Top(c).deals = {}
<1>1. /\ Runs(c, "stop", "closes") /\ Goto(c, "ends") /\ UNCHANGED <<world, asked>>
      /\ deal' = [d \in Deals |-> IF drops THEN [deal[d] EXCEPT !.live = FALSE] ELSE deal[d]]
      /\ bot' = IF drops THEN [bot EXCEPT !.status = "closed"] ELSE bot
  BY DEF StopDrops
<1>2. bot \in BotTypes /\ bot' \in BotTypes /\ bot'.gone = bot.gone
  BY <1>1 DEF Shape, BotTypes
<1>3. \A d \in Deals : LET r == [deal[d] EXCEPT !.live = FALSE]
                       IN /\ r \in DealTypes /\ r.status = deal[d].status /\ r.live = FALSE
                          /\ r.booked = deal[d].booked /\ r.closes = deal[d].closes
  <2> TAKE d \in Deals
  <2>1. deal[d] \in DealTypes
    BY DEF Shape
  <2> QED
    BY <2>1, Leaves
<1>4. deal \in [Deals -> DealTypes]
  BY DEF Shape
<1> HIDE DEF drops
<1>5. Retyped
  BY <1>1, <1>3, <1>4 DEF Retyped
<1>6. \A d \in Deals : /\ deal'[d].status = deal[d].status
                       /\ deal'[d].live => deal[d].live
                       /\ deal'[d].booked = deal[d].booked
                       /\ deal'[d].closes = deal[d].closes
  BY <1>1, <1>3
<1>7. StepDone(c, Len(stack[c]), {At(c, "ends")}, {})
  BY <1>1, <1>2, GotoStep DEF Points
<1> QED
  BY <1>1, <1>2, <1>5, <1>6, <1>7, ShapeKept


LEMMA StopEndsDoes ==
  ASSUME Shape, NEW c \in Calls, StopEnds(c)
  PROVE  /\ Shape' /\ Moves(c, Len(stack[c]), {}, {}) /\ Quietly
         /\ bot'.gone => bot.gone \/ OpenDeals = {}
<1> DEFINE drops == bot.status = "closed" /\ OpenDeals = {}
           frames == Returned(c, FALSE)
<1>1. /\ Runs(c, "stop", "ends") /\ UNCHANGED <<world, deal, asked>>
      /\ bot' = [bot EXCEPT !.status = "closed", !.gone = @ \/ drops]
      /\ stack' = [stack EXCEPT ![c] = frames]
      /\ line' = [k \in Keys |-> IF drops THEN << >> ELSE line[k]]
  BY DEF StopEnds
<1>2. ~Idle(c) /\ Stacked /\ Locked
  BY <1>1, RunsTop DEF Shape
<1>3. /\ frames \in Seq(Frames) /\ Len(frames) = Len(stack[c]) - 1
      /\ \A q \in 1..Len(frames) :
           LET h == frames[Len(frames) + 1 - q]
           IN /\ q \in 1..Len(stack[c]) /\ q < Len(stack[c])
              /\ h = [FrameNo(c, q) EXCEPT !.result = h.result]
  BY <1>2, ReturnedFrames
<1> HIDE DEF frames, drops
<1>4. Stacked'
  <2>1. \A k \in Keys : << >> \in Seq(Tokens) /\ line[k] \in Seq(Tokens)
    BY <1>2, EmptySeq DEF Stacked
  <2> QED
    BY <1>1, <1>2, <1>3, <2>1 DEF Stacked
<1>5. ASSUME NEW x \in Calls, NEW q \in 1..Len(stack'[x])
      PROVE  LET h == stack'[x][Len(stack'[x]) + 1 - q]
             IN /\ q \in 1..Len(stack[x])
                /\ x = c => q < Len(stack[c])
                /\ h = [FrameNo(x, q) EXCEPT !.result = h.result]
  <2>1. CASE x = c
    <3>1. stack'[c] = frames
      BY <1>1, <1>2 DEF Stacked
    <3> QED
      BY <1>3, <2>1, <3>1
  <2>2. CASE x # c
    <3>1. stack'[x] = stack[x]
      BY <1>1, <1>2, <2>2 DEF Stacked
    <3>2. FrameNo(x, q) \in Frames
      BY <1>2, <3>1, FrameTypes
    <3>3. FrameNo(x, q) = [FrameNo(x, q) EXCEPT !.result = FrameNo(x, q).result]
      BY <3>2 DEF Frames
    <3> QED
      BY <2>2, <3>1, <3>3 DEF FrameNo
  <2> QED
    BY <2>1, <2>2
<1>6. Moves(c, Len(stack[c]), {}, {})
  BY <1>5 DEF Moves
<1>7. /\ bot' \in BotTypes /\ drops \in BOOLEAN /\ bot.gone \in BOOLEAN
      /\ bot'.gone = (bot.gone \/ drops)
  BY <1>1 DEF Shape, BotTypes, drops
<1>8. Locked'
  <2> SUFFICES ASSUME ~bot.gone', NEW x \in Calls, NEW q \in 1..Len(stack'[x]),
                      FrameNo(x, q)'.key # NoKey, FrameNo(x, q)'.at # "begin"
               PROVE  /\ line'[FrameNo(x, q)'.key] # << >>
                      /\ Head(line'[FrameNo(x, q)'.key]) = <<x, q>>
    BY DEF Locked, InTurn
  <2>1. ~bot.gone /\ ~drops
    BY <1>7
  <2>2. q \in 1..Len(stack[x]) /\ FrameNo(x, q) \in Frames
    BY <1>2, <1>5, FrameTypes
  <2>3. FrameNo(x, q)' = [FrameNo(x, q) EXCEPT !.result = FrameNo(x, q)'.result]
    BY <1>5 DEF FrameNo
  <2>4. FrameNo(x, q)'.key = FrameNo(x, q).key /\ FrameNo(x, q)'.at = FrameNo(x, q).at
    BY <2>2, <2>3 DEF Frames
  <2>5. line[FrameNo(x, q).key] # << >> /\ Head(line[FrameNo(x, q).key]) = <<x, q>>
    BY <1>2, <2>1, <2>2, <2>4 DEF Locked, InTurn
  <2>6. FrameNo(x, q).key \in Keys
    BY <2>2, <2>4 DEF Frames
  <2>7. line'[FrameNo(x, q).key] = line[FrameNo(x, q).key]
    BY <1>1, <2>1, <2>6
  <2> QED
    BY <2>4, <2>5, <2>7
<1>9. Quietly
  BY <1>1, DealsKept
<1>10. Shape'
  BY <1>1, <1>4, <1>7, <1>8, <1>9 DEF Shape, Quietly, Retyped, BotTypes
<1> QED
  BY <1>6, <1>7, <1>9, <1>10 DEF drops


\* openNewDeal

LEMMA DealsFinite == IsFiniteSet(Deals) /\ Cardinality(OpenDeals) \in Nat
<1>1. IsFiniteSet(Deals)
  BY NAssumption, FS_Interval DEF Deals
<1>2. OpenDeals \subseteq Deals
  BY DEF OpenDeals
<1> QED
  BY <1>1, <1>2, FS_Subset, FS_CardinalityType

LEMMA PendingType ==
  ASSUME Shape
  PROVE  /\ bot \in BotTypes /\ world.max \in Nat
         /\ ResetPending \in BotTypes /\ ResetPending.gone = bot.gone
         /\ bot.pending < world.max
              => LET b == [bot EXCEPT !.pending = @ + 1] IN b \in BotTypes /\ b.gone = bot.gone
<1>1. bot \in BotTypes /\ world.max \in Nat
  BY WorldsAssumption DEF Shape
<1>2. bot.pending \in 0..world.max
  BY <1>1 DEF BotTypes
<1>3. (IF bot.pending > 0 THEN bot.pending - 1 ELSE 0) \in 0..world.max
  BY <1>1, <1>2
<1>4. bot.pending < world.max => bot.pending + 1 \in 0..world.max
  BY <1>1, <1>2
<1>5. \A n \in 0..world.max : LET b == [bot EXCEPT !.pending = n] IN b \in BotTypes /\ b.gone = bot.gone
  BY <1>1 DEF BotTypes
<1> QED
  BY <1>1, <1>3, <1>4, <1>5 DEF ResetPending

LEMMA EntryCountsDoes ==
  ASSUME Shape, NEW c \in Calls, EntryCounts(c)
  PROVE  /\ Shape' /\ Moves(c, Len(stack[c]), {At(c, "counted")}, {}) /\ Quietly
         /\ bot'.gone = bot.gone
<1>1. Runs(c, "openNewDeal", "begin") /\ UNCHANGED <<world, deal, asked>>
  BY DEF EntryCounts
<1>2. \/ bot' = [bot EXCEPT !.pending = @ + 1] /\ bot.pending < world.max /\ Goto(c, "counted")
      \/ UNCHANGED bot /\ Return(c, FALSE)
  <2>1. bot.pending \in Nat /\ Cardinality(OpenDeals) \in Nat /\ world.max \in Nat
    BY DealsFinite, PendingType DEF BotTypes
  <2>2. Cardinality(OpenDeals) + bot.pending < world.max => bot.pending < world.max
    BY <2>1
  <2>3. IF Cardinality(OpenDeals) + bot.pending < world.max
        THEN bot' = [bot EXCEPT !.pending = @ + 1] /\ Goto(c, "counted")
        ELSE UNCHANGED bot /\ Return(c, FALSE)
    BY DEF EntryCounts
  <2> QED
    BY <2>2, <2>3
<1>3. bot' \in BotTypes /\ bot'.gone = bot.gone
  BY <1>2, PendingType
<1>4. Quietly
  BY <1>1, DealsKept
<1>5. CASE Goto(c, "counted")
  <2>1. StepDone(c, Len(stack[c]), {At(c, "counted")}, {})
    BY <1>1, <1>3, <1>5, GotoStep DEF Points
  <2> QED
    BY <1>1, <1>3, <1>4, <2>1, ShapeKept DEF Quietly
<1>6. CASE Return(c, FALSE)
  <2>1. StepDone(c, Len(stack[c]), {}, {})
    BY <1>1, <1>3, <1>6, ReturnStep
  <2> QED
    BY <1>1, <1>3, <1>4, <2>1, ShapeKept, MovesMore DEF Quietly
<1> QED
  BY <1>2, <1>5, <1>6

LEMMA EntryReadsStatusDoes ==
  ASSUME Shape, NEW c \in Calls, EntryReadsStatus(c)
  PROVE  /\ Shape' /\ Moves(c, Len(stack[c]), {At(c, "creates")}, {}) /\ Quietly
         /\ bot'.gone = bot.gone
<1>1. Runs(c, "openNewDeal", "counted") /\ UNCHANGED <<world, deal, asked>>
  BY DEF EntryReadsStatus
<1>2. \/ UNCHANGED bot /\ Goto(c, "creates")
      \/ bot' = ResetPending /\ Return(c, FALSE)
  BY DEF EntryReadsStatus
<1>3. bot' \in BotTypes /\ bot'.gone = bot.gone
  BY <1>2, PendingType
<1>4. Quietly
  BY <1>1, DealsKept
<1>5. CASE Goto(c, "creates")
  <2>1. StepDone(c, Len(stack[c]), {At(c, "creates")}, {})
    BY <1>1, <1>3, <1>5, GotoStep DEF Points
  <2> QED
    BY <1>1, <1>3, <1>4, <2>1, ShapeKept DEF Quietly
<1>6. CASE Return(c, FALSE)
  <2>1. StepDone(c, Len(stack[c]), {}, {})
    BY <1>1, <1>3, <1>6, ReturnStep
  <2> QED
    BY <1>1, <1>3, <1>4, <2>1, ShapeKept, MovesMore DEF Quietly
<1> QED
  BY <1>2, <1>5, <1>6

LEMMA CreateDealDoes ==
  ASSUME Shape, NEW c \in Calls, CreateDeal(c)
  PROVE  LET d == Top(c).deal
         IN /\ Shape' /\ OthersKept(d) /\ bot'.gone = bot.gone
            /\ Moves(c, Len(stack[c]), {At(c, "created")}, {})
            /\ deal'[d].status = "start" /\ deal'[d].live = TRUE
            /\ deal'[d].booked = deal[d].booked /\ deal'[d].closes = deal[d].closes
<1> DEFINE d == Top(c).deal
           r == [deal[d] EXCEPT !.status = "start", !.stored = "start", !.live = TRUE]
<1>1. /\ Runs(c, "openNewDeal", "creates") /\ UNCHANGED <<world, asked>>
      /\ Set(d, r) /\ bot' = ResetPending /\ Goto(c, "created")
  BY DEF CreateDeal
<1>2. d \in Deals /\ deal[d] \in DealTypes
  BY <1>1, RunsTop DEF Shape
<1>3. /\ r \in DealTypes /\ r.status = "start" /\ r.live = TRUE
      /\ r.booked = deal[d].booked /\ r.closes = deal[d].closes
  BY <1>2, Leaves
<1>4. bot' \in BotTypes /\ bot'.gone = bot.gone
  BY <1>1, PendingType
<1> HIDE DEF r, d
<1>5. Retyped /\ deal'[d] = r /\ OthersKept(d)
  BY <1>1, <1>2, <1>3, SetOthers DEF Shape
<1>6. StepDone(c, Len(stack[c]), {At(c, "created")}, {})
  BY <1>1, <1>4, GotoStep DEF Points
<1>7. Shape' /\ Moves(c, Len(stack[c]), {At(c, "created")}, {})
  BY <1>1, <1>4, <1>5, <1>6, ShapeKept
<1> QED
  BY <1>3, <1>4, <1>5, <1>7 DEF d

LEMMA EntryFindsDealDoes ==
  ASSUME Shape, NEW c \in Calls, EntryFindsDeal(c)
  PROVE  /\ Shape' /\ Moves(c, Len(stack[c]), {At(c, "sends")}, {}) /\ Quietly
         /\ bot'.gone = bot.gone
<1>1. Runs(c, "openNewDeal", "created") /\ UNCHANGED <<world, deal, asked>>
  BY DEF EntryFindsDeal
<1>2. \/ UNCHANGED bot /\ Goto(c, "sends")
      \/ bot' = ResetPending /\ Return(c, FALSE)
  BY DEF EntryFindsDeal
<1>3. bot' \in BotTypes /\ bot'.gone = bot.gone
  BY <1>2, PendingType
<1>4. Quietly
  BY <1>1, DealsKept
<1>5. CASE Goto(c, "sends")
  <2>1. StepDone(c, Len(stack[c]), {At(c, "sends")}, {})
    BY <1>1, <1>3, <1>5, GotoStep DEF Points
  <2> QED
    BY <1>1, <1>3, <1>4, <2>1, ShapeKept DEF Quietly
<1>6. CASE Return(c, FALSE)
  <2>1. StepDone(c, Len(stack[c]), {}, {})
    BY <1>1, <1>3, <1>6, ReturnStep
  <2> QED
    BY <1>1, <1>3, <1>4, <2>1, ShapeKept, MovesMore DEF Quietly
<1> QED
  BY <1>2, <1>5, <1>6

LEMMA EntrySendsDoes ==
  ASSUME Shape, NEW c \in Calls, EntrySends(c)
  PROVE  Shape' /\ Moves(c, Len(stack[c]), {}, {}) /\ Quietly
<1> DEFINE d == Top(c).deal
           r == [deal[d] EXCEPT !.base = "resting"]
<1>1. /\ Runs(c, "openNewDeal", "sends") /\ Return(c, FALSE) /\ UNCHANGED <<world, bot, asked>>
      /\ Set(d, r)
  BY DEF EntrySends
<1>2. d \in Deals /\ deal[d] \in DealTypes
  BY <1>1, RunsTop DEF Shape
<1>3. r \in DealTypes /\ SameBooks(r, deal[d])
  <2>1. "resting" \in Orders /\ 0 \in Int
    BY Named
  <2> QED
    BY <1>2, <2>1, Executes
<1> HIDE DEF r, d
<1>4. Quietly
  BY <1>1, <1>2, <1>3, SetType DEF Shape
<1>5. StepDone(c, Len(stack[c]), {}, {})
  BY <1>1, ReturnStep
<1> QED
  BY <1>1, <1>4, <1>5, ShapeQuiet

\* Reports and requests, and the venue

LEMMA ReportDoes ==
  ASSUME Shape, NEW c \in Calls, Report(c)
  PROVE  Shape' /\ Moves(c, 1, Reported, {}) /\ Quietly
<1>1. /\ Idle(c) /\ Step(c, <<Handler(c)>>, None) /\ Set(c[2], Known(c))
      /\ UNCHANGED <<world, bot, asked>> /\ c \in Executed(c[2])
      /\ c[1] \in {"base", "fill"} \cup SafetyOrders
  BY DEF Report
<1>2. c \in Reports /\ c[2] \in Deals
  <2>1. c \in ({"base", "fill"} \cup SafetyOrders) \X {c[2]}
    BY <1>1 DEF Executed
  <2>2. CASE c \in Levels
    BY <2>1, <2>2 DEF Levels, Reports
  <2>3. CASE c \in {"base", "fill", "sold", "user", "entry"} \X Deals
    BY <2>1, <2>3 DEF Reports
  <2>4. c # <<"stop", 0>>
    BY <1>1, SafetyOrdersAssumption DEF CallNames
  <2>5. c \notin {After(x) : x \in Direct}
    <3> SUFFICES ASSUME NEW x \in Direct, c = After(x) PROVE FALSE
      OBVIOUS
    <3>1. x[1] # "after"
      BY DEF Direct
    <3>2. c[1] = "after"
      BY <3>1 DEF After
    <3> QED
      BY <1>1, <3>2, SafetyOrdersAssumption DEF CallNames
  <2> QED
    BY <2>2, <2>3, <2>4, <2>5 DEF Calls, Direct
<1>3. Handler(c) \in Frames /\ Handler(c).at = "begin" /\ Handler(c) \in Reported
  BY <1>2, HandlerType DEF Shape, Reported
<1>4. Known(c) \in DealTypes /\ SameBooks(Known(c), deal[c[2]])
  BY <1>2, KnownType, KnownBooks DEF Shape
<1>5. Quietly
  BY <1>1, <1>2, <1>4, SetType DEF Shape
<1>6. StepDone(c, 1, {Handler(c)}, {})
  BY <1>1, <1>3, StartStep DEF Shape
<1> QED
  BY <1>1, <1>3, <1>5, <1>6, ShapeQuiet, MovesMore

LEMMA AskDoes ==
  ASSUME Shape, NEW c \in Calls, NEW how, NEW f \in Frames, f.at = "begin", Ask(c, how, f)
  PROVE  /\ Shape' /\ Moves(c, 1, {f}, {}) /\ Quietly
         /\ UNCHANGED <<world, bot>> /\ asked' = asked \cup {<<c, how>>} /\ Idle(c)
<1>1. /\ Idle(c) /\ Step(c, <<f>>, None) /\ UNCHANGED <<world, deal, bot>>
      /\ asked' = asked \cup {<<c, how>>} /\ <<c, how>> \in world.asks
  BY DEF Ask
<1>2. StepDone(c, 1, {f}, {})
  BY <1>1, StartStep DEF Shape
<1>3. Quietly
  BY <1>1, DealsKept
<1>4. Shape'
  BY <1>1, <1>2, <1>3 DEF Shape, StepDone, BotTypes, Quietly, Retyped
<1> QED
  BY <1>1, <1>2, <1>3, <1>4 DEF StepDone

LEMMA BaseFillsDoes ==
  ASSUME Shape, NEW d \in Deals, BaseFills(d)
  PROVE  Shape' /\ Quietly
<1> DEFINE r == [deal[d] EXCEPT !.base = "filled", !.coins = @ + 1]
<1>1. Set(d, r) /\ UNCHANGED <<world, bot, asked, stack, line>>
  BY DEF BaseFills
<1>2. deal[d] \in DealTypes /\ "filled" \in Orders /\ 1 \in Int
  BY Named DEF Shape
<1>3. r \in DealTypes /\ SameBooks(r, deal[d])
  BY <1>2, Executes
<1> HIDE DEF r
<1>4. Quietly
  BY <1>1, <1>3, SetType DEF Shape
<1> QED
  BY <1>1, <1>4 DEF Shape, Quietly, Retyped, Stacked, Locked, InTurn, FrameNo, BotTypes

LEMMA TpFillsDoes ==
  ASSUME Shape, NEW d \in Deals, TpFills(d)
  PROVE  Shape' /\ Quietly
<1> DEFINE n == deal[d].tpQty
           r == [deal[d] EXCEPT !.tp = "filled", !.coins = @ - n]
<1>1. Set(d, r) /\ UNCHANGED <<world, bot, asked, stack, line>>
  BY DEF TpFills
<1>2. deal[d] \in DealTypes /\ "filled" \in Orders /\ n \in Int
  BY Named, Fields DEF Shape
<1> HIDE DEF n
<1>3. r \in DealTypes /\ SameBooks(r, deal[d])
  BY <1>2, Executes
<1> HIDE DEF r
<1>4. Quietly
  BY <1>1, <1>3, SetType DEF Shape
<1> QED
  BY <1>1, <1>4 DEF Shape, Quietly, Retyped, Stacked, Locked, InTurn, FrameNo, BotTypes

LEMMA SafetyOrderFillsDoes ==
  ASSUME Shape, NEW d \in Deals, NEW s \in SafetyOrders, SafetyOrderFills(d, s)
  PROVE  Shape' /\ Quietly
<1> DEFINE r == [deal[d] EXCEPT !.so[s] = "filled", !.coins = @ + 1]
<1>1. Set(d, r) /\ UNCHANGED <<world, bot, asked, stack, line>>
  BY DEF SafetyOrderFills
<1>2. deal[d] \in DealTypes /\ "filled" \in Orders /\ 1 \in Int
  BY Named DEF Shape
<1>3. r \in DealTypes /\ SameBooks(r, deal[d])
  BY <1>2, Averages
<1> HIDE DEF r
<1>4. Quietly
  BY <1>1, <1>3, SetType DEF Shape
<1> QED
  BY <1>1, <1>4 DEF Shape, Quietly, Retyped, Stacked, Locked, InTurn, FrameNo, BotTypes


-----------------------------------------------------------------------------
(* A deal is opened once, and leaves the bot once *)

\* The entry of a deal is the only one, and opens what was never open.
Entrant(x, q) ==
    LET f == FrameNo(x, q)
    IN f.op = "openNewDeal" =>
         /\ x = <<"entry", f.deal>> /\ q = 1
         /\ (f.at \in {"begin", "counted", "creates"})
              => ~deal[f.deal].live /\ deal[f.deal].closes = 0

Once == /\ \A d \in Deals : /\ deal[d].status = "none" => ~deal[d].live /\ deal[d].closes = 0
                            /\ deal[d].live => deal[d].closes = 0
                            /\ deal[d].closes \in 0..1
        /\ \A x \in Calls : \A q \in 1..Len(stack[x]) : Entrant(x, q)

\* What a step that opens no deal does to them.
Aged == \A d \in Deals :
            /\ deal'[d].status = "none" => deal[d].status = "none"
            /\ deal'[d].live => deal[d].live
            /\ \/ deal'[d].closes = deal[d].closes
               \/ deal[d].live /\ ~deal'[d].live /\ deal'[d].closes = deal[d].closes + 1

NoEntry(gs) == \A g \in gs : g.op # "openNewDeal"

LEMMA QuietlyAged == Quietly => Aged
BY DEF Quietly, SameBooks, Aged

LEMMA AtFields ==
  ASSUME NEW c, Top(c) \in Frames, NEW a
  PROVE  /\ At(c, a).op = Top(c).op /\ At(c, a).at = a /\ At(c, a).deal = Top(c).deal
         /\ At(c, a).how = Top(c).how /\ At(c, a).todo = Top(c).todo
BY DEF At, Frames

\* A frame that is neither new nor moved is one that was there.
LEMMA StillThere ==
  ASSUME Shape, NEW c, NEW p, NEW gs, NEW new, Moves(c, p, gs, new),
         NEW x \in Calls, NEW q \in 1..Len(stack'[x])
  PROVE  LET f == FrameNo(x, q)'
             e == FrameNo(x, q)
         IN \/ f \in new
            \/ x = c /\ q = p /\ f \in gs
            \/ /\ q \in 1..Len(stack[x]) /\ e \in Frames
               /\ x = c => q < p
               /\ f.op = e.op /\ f.at = e.at /\ f.deal = e.deal /\ f.how = e.how
               /\ f.todo = e.todo
<1> DEFINE f == FrameNo(x, q)'
<1>1. \/ f \in new
      \/ x = c /\ q = p /\ f \in gs
      \/ /\ q \in 1..Len(stack[x])
         /\ x = c => q < p
         /\ f = [FrameNo(x, q) EXCEPT !.result = f.result]
  BY DEF Moves, FrameNo
<1>2. q \in 1..Len(stack[x]) => FrameNo(x, q) \in Frames
  BY FrameTypes DEF Shape
<1> HIDE DEF f
<1>3. ASSUME q \in 1..Len(stack[x]), f = [FrameNo(x, q) EXCEPT !.result = f.result]
      PROVE  /\ f.op = FrameNo(x, q).op /\ f.at = FrameNo(x, q).at
             /\ f.deal = FrameNo(x, q).deal /\ f.how = FrameNo(x, q).how
             /\ f.todo = FrameNo(x, q).todo
  BY <1>2, <1>3 DEF Frames
<1> QED
  BY <1>1, <1>2, <1>3 DEF f

LEMMA DealsOnce ==
  ASSUME Shape, Retyped, Once, Aged
  PROVE  \A d \in Deals : /\ deal'[d].status = "none" => ~deal'[d].live /\ deal'[d].closes = 0
                          /\ deal'[d].live => deal'[d].closes = 0
                          /\ deal'[d].closes \in 0..1
                          /\ (~deal[d].live /\ deal[d].closes = 0)
                               => ~deal'[d].live /\ deal'[d].closes = 0
<1> TAKE d \in Deals
<1>1. /\ deal[d].status = "none" => ~deal[d].live /\ deal[d].closes = 0
      /\ deal[d].live => deal[d].closes = 0
      /\ deal[d].closes \in 0..1
  BY DEF Once
<1>2. /\ deal'[d].status = "none" => deal[d].status = "none"
      /\ deal'[d].live => deal[d].live
      /\ \/ deal'[d].closes = deal[d].closes
         \/ deal[d].live /\ ~deal'[d].live /\ deal'[d].closes = deal[d].closes + 1
  BY DEF Aged
<1>3. deal[d].live \in BOOLEAN /\ deal'[d].live \in BOOLEAN
  <2>1. deal[d] \in DealTypes /\ deal'[d] \in DealTypes
    BY DEF Shape, Retyped
  <2> QED
    BY <2>1, Fields
<1> QED
  BY <1>1, <1>2, <1>3

LEMMA OnceKept ==
  ASSUME Shape, Once, Shape', Aged,
         NEW c, NEW p, NEW gs, NEW new, Moves(c, p, gs, new), NoEntry(gs), NoEntry(new)
  PROVE  Once'
<1>1. Retyped
  BY DEF Shape, Retyped, DealTypes
<1> SUFFICES ASSUME NEW x \in Calls, NEW q \in 1..Len(stack'[x])
             PROVE  Entrant(x, q)'
  BY <1>1, DealsOnce DEF Once
<1> SUFFICES ASSUME FrameNo(x, q)'.op = "openNewDeal"
             PROVE  LET f == FrameNo(x, q)'
                    IN /\ x = <<"entry", f.deal>> /\ q = 1
                       /\ (f.at \in {"begin", "counted", "creates"})
                            => ~deal'[f.deal].live /\ deal'[f.deal].closes = 0
  BY DEF Entrant
<1> DEFINE f == FrameNo(x, q)'
           e == FrameNo(x, q)
<1>2. /\ q \in 1..Len(stack[x]) /\ e \in Frames
      /\ f.op = e.op /\ f.at = e.at /\ f.deal = e.deal
  BY StillThere DEF NoEntry
<1>3. Entrant(x, q)
  BY <1>2 DEF Once
<1>4. e.deal \in Deals
  BY <1>2 DEF Frames
<1> QED
  BY <1>1, <1>2, <1>3, <1>4, DealsOnce DEF Entrant


Opening == {"begin", "counted", "creates"}

LEMMA EntryKept ==
  ASSUME Shape, Once, Shape', Quietly, NEW c \in Calls, NEW a, NEW b,
         Runs(c, "openNewDeal", b), Moves(c, Len(stack[c]), {At(c, a)}, {}),
         a \in Opening => b \in Opening
  PROVE  Once'
<1>1. Retyped /\ Aged
  BY QuietlyAged DEF Quietly
<1>2. \A d \in Deals : (~deal[d].live /\ deal[d].closes = 0)
                          => ~deal'[d].live /\ deal'[d].closes = 0
  BY <1>1, DealsOnce
<1> SUFFICES ASSUME NEW x \in Calls, NEW q \in 1..Len(stack'[x]),
                    FrameNo(x, q)'.op = "openNewDeal"
             PROVE  LET f == FrameNo(x, q)'
                    IN /\ x = <<"entry", f.deal>> /\ q = 1
                       /\ f.at \in Opening => ~deal'[f.deal].live /\ deal'[f.deal].closes = 0
  BY <1>1, DealsOnce DEF Once, Entrant, Opening
<1> DEFINE f == FrameNo(x, q)'
           e == FrameNo(x, q)
<1>3. CASE x = c /\ q = Len(stack[c]) /\ f \in {At(c, a)}
  <2>1. /\ Top(c) \in Frames /\ Top(c) = e /\ q \in 1..Len(stack[x])
        /\ Top(c).op = "openNewDeal" /\ Top(c).at = b /\ Top(c).deal \in Deals
    BY <1>3, RunsTop
  <2>2. f.at = a /\ f.deal = e.deal
    BY <1>3, <2>1, AtFields
  <2>3. Entrant(x, q)
    BY <2>1 DEF Once
  <2> QED
    BY <1>2, <2>1, <2>2, <2>3 DEF Entrant, Opening
<1>4. CASE q \in 1..Len(stack[x]) /\ e \in Frames
           /\ f.op = e.op /\ f.at = e.at /\ f.deal = e.deal
  <2>1. Entrant(x, q)
    BY <1>4 DEF Once
  <2>2. e.deal \in Deals
    BY <1>4 DEF Frames
  <2> QED
    BY <1>2, <1>4, <2>1, <2>2 DEF Entrant, Opening
<1> QED
  BY <1>3, <1>4, StillThere

LEMMA CreatedOnce ==
  ASSUME Shape, Once, NEW c \in Calls, CreateDeal(c)
  PROVE  Once'
<1> DEFINE d == Top(c).deal
<1>1. Runs(c, "openNewDeal", "creates")
  BY DEF CreateDeal
<1>2. /\ Top(c) \in Frames /\ d \in Deals /\ Top(c) = FrameNo(c, Len(stack[c]))
      /\ Top(c).op = "openNewDeal" /\ Top(c).at = "creates" /\ Len(stack[c]) \in 1..Len(stack[c])
  BY <1>1, RunsTop
<1>3. c = <<"entry", d>> /\ Len(stack[c]) = 1 /\ ~deal[d].live /\ deal[d].closes = 0
  <2>1. Entrant(c, Len(stack[c]))
    BY <1>2 DEF Once
  <2> QED
    BY <1>2, <2>1 DEF Entrant
<1>4. /\ Shape' /\ OthersKept(d) /\ Moves(c, 1, {At(c, "created")}, {})
      /\ deal'[d].status = "start" /\ deal'[d].closes = 0
  BY <1>3, CreateDealDoes
<1>5. At(c, "created").at = "created" /\ At(c, "created").deal = d
  BY <1>2, AtFields
<1> HIDE DEF d
<1>6. \A e \in Deals : /\ deal'[e].status = "none" => ~deal'[e].live /\ deal'[e].closes = 0
                       /\ deal'[e].live => deal'[e].closes = 0
                       /\ deal'[e].closes \in 0..1
  BY <1>2, <1>4 DEF Once, OthersKept, SameBooks
<1>7. ASSUME NEW x \in Calls, NEW q \in 1..Len(stack'[x])
      PROVE  Entrant(x, q)'
  <2> DEFINE f == FrameNo(x, q)'
             e == FrameNo(x, q)
  <2>1. CASE x = c /\ q = 1 /\ f \in {At(c, "created")}
    BY <1>3, <1>5, <2>1 DEF Entrant
  <2>2. CASE q \in 1..Len(stack[x]) /\ e \in Frames /\ (x = c => q < 1)
             /\ f.op = e.op /\ f.at = e.at /\ f.deal = e.deal
    <3>1. Entrant(x, q)
      BY <2>2 DEF Once
    <3>2. SUFFICES ASSUME e.op = "openNewDeal" PROVE Entrant(x, q)'
      BY <2>2 DEF Entrant
    <3>3. e.deal \in Deals \ {d}
      BY <1>3, <2>2, <3>1, <3>2 DEF Frames, Entrant
    <3> QED
      BY <1>4, <2>2, <3>1, <3>2, <3>3 DEF Entrant, OthersKept, SameBooks
  <2> QED
    BY <1>4, <2>1, <2>2, StillThere
<1> QED
  BY <1>6, <1>7 DEF Once

LEMMA EntryAskedOnce ==
  ASSUME Shape, Once, NEW d \in Deals, AskEntry(d)
  PROVE  Shape' /\ Once'
<1> DEFINE c == <<"entry", d>>
           g == Frame("openNewDeal", NoKey, d, "entry")
<1>1. Ask(c, "entry", g) /\ deal[d].status = "none"
  BY DEF AskEntry
<1>2. c \in Calls
  BY DEF Calls, Direct
<1>3. g \in Frames /\ g.at = "begin" /\ g.op = "openNewDeal" /\ g.deal = d
  BY RequestType DEF Ways
<1> HIDE DEF g
<1>4. Shape' /\ Moves(c, 1, {g}, {}) /\ Quietly
  BY <1>1, <1>2, <1>3, AskDoes
<1>5. Retyped /\ Aged
  BY <1>4, QuietlyAged DEF Quietly
<1>6. ~deal'[d].live /\ deal'[d].closes = 0
  BY <1>1, <1>5, DealsOnce DEF Once
<1>7. ASSUME NEW x \in Calls, NEW q \in 1..Len(stack'[x])
      PROVE  Entrant(x, q)'
  <2> DEFINE f == FrameNo(x, q)'
             e == FrameNo(x, q)
  <2>1. CASE x = c /\ q = 1 /\ f \in {g}
    BY <1>3, <1>6, <2>1 DEF Entrant
  <2>2. CASE q \in 1..Len(stack[x]) /\ e \in Frames
             /\ f.op = e.op /\ f.at = e.at /\ f.deal = e.deal
    <3>1. Entrant(x, q)
      BY <2>2 DEF Once
    <3>2. e.op = "openNewDeal" => e.deal \in Deals
      BY <2>2 DEF Frames
    <3> QED
      BY <1>5, <2>2, <3>1, <3>2, DealsOnce DEF Entrant
  <2> QED
    BY <1>4, <2>1, <2>2, StillThere
<1> QED
  BY <1>4, <1>5, <1>7, DealsOnce DEF Once

LEMMA ReportedFrames ==
  ASSUME Shape
  PROVE  \A f \in Reported : /\ f \in Frames /\ f.at = "begin"
                             /\ f.op \in {"startDeal", "updateDeal", "closeDeal"}
                             /\ f.how # "cancel"
BY HandlerType DEF Reported, Shape

LEMMA NewFrames ==
  ASSUME Shape
  PROVE  /\ NoEntry({}) /\ NoEntry(Reported) /\ NoEntry(Closers) /\ NoEntry(Stops)
         /\ NoEntry({StopFrame("none")})
         /\ \A f : Placer(f) => NoEntry({f})
         /\ \A c \in Calls : \A op, a : Runs(c, op, a) /\ op # "openNewDeal" =>
              \A b : At(c, b).op # "openNewDeal"
<1>1. NoEntry({}) /\ NoEntry(Closers) /\ NoEntry(Stops)
  BY DEF NoEntry, Closers, Stops
<1>2. NoEntry(Reported)
  BY ReportedFrames DEF NoEntry
<1>3. NoEntry({StopFrame("none")})
  BY StopType DEF NoEntry, Ways
<1>4. \A f : Placer(f) => NoEntry({f})
  BY DEF NoEntry, Placer
<1>5. \A c \in Calls : \A op, a : Runs(c, op, a) /\ op # "openNewDeal" =>
        \A b : At(c, b).op # "openNewDeal"
  BY RunsTop, AtFields
<1> QED
  BY <1>1, <1>2, <1>3, <1>4, <1>5


LEMMA StartOnce ==
  ASSUME Shape, Once, NEW c \in Calls,
         StartBegins(c) \/ SellRemainder(c)
  PROVE  Shape' /\ Once'
<1>1. CASE StartBegins(c)
  <2> DEFINE a == IF deal[Top(c).deal].live /\ deal[Top(c).deal].status = "start"
                   THEN "opens" ELSE "remainder"
  <2>1. Runs(c, "startDeal", "begin")
    BY <1>1 DEF StartBegins
  <2>2. NoEntry({At(c, a)}) /\ NoEntry({})
    BY <2>1, NewFrames DEF NoEntry
  <2>3. Shape' /\ Moves(c, Len(stack[c]), {At(c, a)}, {}) /\ Quietly
    BY <1>1, StartBeginsDoes
  <2> QED
    BY <2>2, <2>3, QuietlyAged, OnceKept
<1>2. CASE SellRemainder(c)
  BY <1>2, NewFrames, SellRemainderDoes, QuietlyAged, OnceKept
<1> QED
  BY <1>1, <1>2

LEMMA PlaceOnce ==
  ASSUME Shape, Once, NEW c \in Calls,
         PlaceBegins(c) \/ PlaceLadder(c) \/ PlaceCancels(c) \/ PlaceSends(c)
  PROVE  Shape' /\ Once'
<1>1. CASE PlaceBegins(c)
  <2>1. Runs(c, "placeOrders", "begin")
    BY <1>1 DEF PlaceBegins
  <2>2. NoEntry({At(c, "ladder"), At(c, "resize")}) /\ NoEntry({})
    BY <2>1, NewFrames DEF NoEntry
  <2> QED
    BY <1>1, <2>2, PlaceBeginsDoes, QuietlyAged, OnceKept
<1>2. CASE PlaceLadder(c)
  <2>1. Runs(c, "placeOrders", "ladder")
    BY <1>2 DEF PlaceLadder
  <2>2. NoEntry({At(c, "sends")}) /\ NoEntry({})
    BY <2>1, NewFrames DEF NoEntry
  <2> QED
    BY <1>2, <2>2, PlaceLadderDoes, QuietlyAged, OnceKept
<1>3. CASE PlaceCancels(c)
  <2>1. Runs(c, "placeOrders", "resize")
    BY <1>3 DEF PlaceCancels
  <2>2. NoEntry({At(c, "sends")}) /\ NoEntry(Reported)
    BY <2>1, NewFrames DEF NoEntry
  <2> QED
    BY <1>3, <2>2, PlaceCancelsDoes, QuietlyAged, OnceKept
<1>4. CASE PlaceSends(c)
  BY <1>4, NewFrames, PlaceSendsDoes, QuietlyAged, OnceKept
<1> QED
  BY <1>1, <1>2, <1>3, <1>4

LEMMA LevelOnce ==
  ASSUME Shape, Once, NEW c \in Calls,
         LevelBooks(c) \/ LevelSizes(c) \/ LevelEnds(c) \/ LevelSells(c)
  PROVE  Shape' /\ Once'
<1>1. CASE LevelBooks(c)
  <2>1. Runs(c, "updateDeal", "begin")
    BY <1>1 DEF LevelBooks
  <2>2. NoEntry({At(c, "sizes"), At(c, "sells"), At(c, "reads")}) /\ NoEntry({})
    BY <2>1, NewFrames DEF NoEntry
  <2> QED
    BY <1>1, <2>2, LevelBooksDoes, QuietlyAged, OnceKept
<1>2. CASE LevelSizes(c)
  <2>1. Runs(c, "updateDeal", "sizes")
    BY <1>2 DEF LevelSizes
  <2>2. PICK f : Placer(f) /\ Moves(c, Len(stack[c]), {At(c, "placed")}, {f})
    BY <1>2, LevelSizesDoes
  <2>3. NoEntry({At(c, "placed")}) /\ NoEntry({f})
    BY <2>1, <2>2, NewFrames DEF NoEntry
  <2> QED
    BY <1>2, <2>2, <2>3, LevelSizesDoes, QuietlyAged, OnceKept
<1>3. CASE LevelEnds(c)
  BY <1>3, NewFrames, LevelEndsDoes, QuietlyAged, OnceKept
<1>4. CASE LevelSells(c)
  BY <1>4, NewFrames, LevelSellsDoes, QuietlyAged, OnceKept
<1> QED
  BY <1>1, <1>2, <1>3, <1>4

LEMMA CloseDealOnce ==
  ASSUME Shape, Once, NEW c \in Calls,
         CloseDealBegins(c) \/ CloseDealSettles(c) \/ CloseDealMeasures(c) \/
         CloseDealEnds(c)
  PROVE  Shape' /\ Once'
<1>1. CASE CloseDealBegins(c)
  <2>1. Runs(c, "closeDeal", "begin")
    BY <1>1 DEF CloseDealBegins
  <2>2. NoEntry({At(c, "settles")}) /\ NoEntry({})
    BY <2>1, NewFrames DEF NoEntry
  <2> QED
    BY <1>1, <2>2, CloseDealBeginsDoes, QuietlyAged, OnceKept
<1>2. CASE CloseDealSettles(c)
  <2>1. Runs(c, "closeDeal", "settles")
    BY <1>2 DEF CloseDealSettles
  <2>2. NoEntry({At(c, "measures"), At(c, "closes")}) /\ NoEntry({})
    BY <2>1, NewFrames DEF NoEntry
  <2> QED
    BY <1>2, <2>2, CloseDealSettlesDoes, QuietlyAged, OnceKept
<1>3. CASE CloseDealMeasures(c)
  <2>1. Runs(c, "closeDeal", "measures")
    BY <1>3 DEF CloseDealMeasures
  <2>2. NoEntry({At(c, "swept"), At(c, "closes")}) /\ NoEntry({})
    BY <2>1, NewFrames DEF NoEntry
  <2> QED
    BY <1>3, <2>2, CloseDealMeasuresDoes, QuietlyAged, OnceKept
<1>4. CASE CloseDealEnds(c)
  BY <1>4, NewFrames, CloseDealEndsDoes, QuietlyAged, OnceKept
<1> QED
  BY <1>1, <1>2, <1>3, <1>4

LEMMA RequestOnce ==
  ASSUME Shape, Once, NEW c \in Calls,
         CloseBegins(c) \/ CloseReleased(c) \/ CloseStopped(c) \/ CloseSweeps(c) \/
         CloseGivesWay(c) \/ CloseExecutes(c) \/ CloseWithoutOrder(c) \/
         CloseRestores(c)
  PROVE  Shape' /\ Once'
<1>1. CASE CloseBegins(c)
  <2>1. Runs(c, "closeDealById", "begin")
    BY <1>1 DEF CloseBegins
  <2>2. /\ NoEntry({At(c, "cancels")}) /\ NoEntry({})
        /\ NoEntry({At(c, "sweeps")}) /\ NoEntry({StopFrame("none")})
    BY <2>1, NewFrames DEF NoEntry
  <2> QED
    BY <1>1, <2>2, CloseBeginsDoes, QuietlyAged, OnceKept
<1>2. CASE CloseReleased(c)
  <2>1. Runs(c, "closeDealById", "released")
    BY <1>2 DEF CloseReleased
  <2>2. NoEntry({At(c, "stopped"), At(c, "sweeps")}) /\ NoEntry({StopFrame("none")})
    BY <2>1, NewFrames DEF NoEntry
  <2> QED
    BY <1>2, <2>2, CloseReleasedDoes, QuietlyAged, OnceKept
<1>3. CASE CloseStopped(c)
  BY <1>3, NewFrames, CloseStoppedDoes, QuietlyAged, OnceKept
<1>4. CASE CloseSweeps(c)
  <2>1. Runs(c, "closeDealById", "sweeps")
    BY <1>4 DEF CloseSweeps
  <2>2. NoEntry({At(c, "swept"), At(c, "sweptFilled")}) /\ NoEntry(Reported)
    BY <2>1, NewFrames DEF NoEntry
  <2> QED
    BY <1>4, <2>2, CloseSweepsDoes, QuietlyAged, OnceKept
<1>5. CASE CloseGivesWay(c)
  BY <1>5, NewFrames, CloseGivesWayDoes, QuietlyAged, OnceKept
<1>6. CASE CloseExecutes(c)
  BY <1>6, NewFrames, CloseExecutesDoes, QuietlyAged, OnceKept
<1>7. CASE CloseWithoutOrder(c)
  <2>1. Runs(c, "closeDealById", "swept") \/ Runs(c, "closeDealById", "sweptFilled")
    BY <1>7 DEF CloseWithoutOrder, ClosesEmpty, CloseSends
  <2>2. NoEntry({At(c, "stopped")}) /\ NoEntry(Closers)
    BY <2>1, NewFrames DEF NoEntry
  <2> QED
    BY <1>7, <2>2, CloseWithoutOrderDoes, QuietlyAged, OnceKept
<1>8. CASE CloseRestores(c)
  BY <1>8, NewFrames, CloseRestoresDoes, QuietlyAged, OnceKept
<1> QED
  BY <1>1, <1>2, <1>3, <1>4, <1>5, <1>6, <1>7, <1>8

LEMMA ReleaseOnce ==
  ASSUME Shape, Once, NEW c \in Calls,
         ReleaseSweeps(c) \/ ReleaseEnds(c)
  PROVE  Shape' /\ Once'
<1>1. CASE ReleaseSweeps(c)
  <2>1. Runs(c, "processDealClose", "sweeps")
    BY <1>1 DEF ReleaseSweeps
  <2>2. NoEntry({At(c, "checks")}) /\ NoEntry(Reported)
    BY <2>1, NewFrames DEF NoEntry
  <2> QED
    BY <1>1, <2>2, ReleaseSweepsDoes, QuietlyAged, OnceKept
<1>2. CASE ReleaseEnds(c)
  BY <1>2, NewFrames, ReleaseEndsDoes, QuietlyAged, OnceKept
<1> QED
  BY <1>1, <1>2


\* The actions that change where a deal stands.

LEMMA MovedOnce ==
  ASSUME Shape, Once, Shape', NEW d \in Deals, OthersKept(d),
         deal'[d].status # "none" \/ deal'[d].status = deal[d].status,
         deal'[d].live => deal[d].live,
         \/ deal'[d].closes = deal[d].closes
         \/ deal[d].live /\ ~deal'[d].live /\ deal'[d].closes = deal[d].closes + 1,
         NEW c \in Calls, NEW gs, NEW new, Moves(c, Len(stack[c]), gs, new),
         NoEntry(gs), NoEntry(new)
  PROVE  Once'
<1>1. Aged
  BY DEF OthersKept, SameBooks, Aged
<1> QED
  BY <1>1, OnceKept

LEMMA StandingOnce ==
  ASSUME Shape, Once, NEW c \in Calls,
         StartOpens(c) \/ CloseDealCloses(c) \/ CloseDealBooks(c) \/ CloseCancels(c) \/ ReleaseBegins(c)
  PROVE  Shape' /\ Once'
<1> DEFINE d == Top(c).deal
<1>1. CASE StartOpens(c)
  <2>1. Runs(c, "startDeal", "opens")
    BY <1>1 DEF StartOpens
  <2>2. d \in Deals /\ NoEntry({At(c, "placed")})
    BY <2>1, RunsTop, NewFrames DEF NoEntry
  <2>3. PICK f : Placer(f) /\ Moves(c, Len(stack[c]), {At(c, "placed")}, {f})
    BY <1>1, StartOpensDoes
  <2>4. NoEntry({f})
    BY <2>3, NewFrames
  <2>5. /\ Shape' /\ OthersKept(d) /\ deal'[d].status = "open" /\ deal'[d].live = deal[d].live
        /\ deal'[d].closes = deal[d].closes
    BY <1>1, StartOpensDoes
  <2> QED
    BY <2>2, <2>3, <2>4, <2>5, MovedOnce
<1>2. CASE CloseDealCloses(c)
  <2>1. Runs(c, "closeDeal", "closes") \/ Runs(c, "closeDeal", "swept")
    BY <1>2 DEF CloseDealCloses
  <2> DEFINE a == IF Top(c).at = "swept" THEN "sweptBooks" ELSE "books"
  <2>2. d \in Deals /\ NoEntry({At(c, a)}) /\ NoEntry({})
    BY <2>1, RunsTop, NewFrames DEF NoEntry
  <2>3. /\ Shape' /\ OthersKept(d) /\ deal'[d].status = "closed" /\ deal'[d].live = deal[d].live
        /\ deal'[d].closes = deal[d].closes /\ Moves(c, Len(stack[c]), {At(c, a)}, {})
    BY <1>2, CloseDealClosesDoes
  <2> QED
    BY <2>2, <2>3, MovedOnce
<1>3. CASE CloseDealBooks(c)
  <2>1. Runs(c, "closeDeal", "books") \/ Runs(c, "closeDeal", "sweptBooks")
    BY <1>3 DEF CloseDealBooks
  <2> DEFINE f == Release(d, FALSE)
  <2>2. d \in Deals /\ NoEntry({At(c, "released")})
    BY <2>1, RunsTop, NewFrames DEF NoEntry
  <2>3. NoEntry({f})
    BY <2>2, ReleaseType DEF NoEntry
  <2>4. /\ Shape' /\ OthersKept(d) /\ deal'[d].status = deal[d].status
        /\ deal'[d].live = deal[d].live /\ deal'[d].closes = deal[d].closes
        /\ Moves(c, Len(stack[c]), {At(c, "released")}, {f})
    BY <1>3, CloseDealBooksDoes
  <2> QED
    BY <2>2, <2>3, <2>4, MovedOnce
<1>4. CASE CloseCancels(c)
  <2>1. Runs(c, "closeDealById", "cancels")
    BY <1>4 DEF CloseCancels
  <2>2. d \in Deals /\ NoEntry({At(c, "released")})
    BY <2>1, RunsTop, NewFrames DEF NoEntry
  <2>3. PICK own \in BOOLEAN : Moves(c, Len(stack[c]), {At(c, "released")}, {Release(d, own)})
    BY <1>4, CloseCancelsDoes
  <2>4. NoEntry({Release(d, own)})
    BY <2>2, ReleaseType DEF NoEntry
  <2>5. /\ Shape' /\ OthersKept(d) /\ deal'[d].status = "canceled"
        /\ deal'[d].live = deal[d].live /\ deal'[d].closes = deal[d].closes
    BY <1>4, CloseCancelsDoes
  <2> QED
    BY <2>2, <2>3, <2>4, <2>5, MovedOnce
<1>5. CASE ReleaseBegins(c)
  <2>1. Runs(c, "processDealClose", "begin")
    BY <1>5 DEF ReleaseBegins
  <2>2. d \in Deals /\ NoEntry({At(c, "sweeps")}) /\ NoEntry({})
    BY <2>1, RunsTop, NewFrames DEF NoEntry
  <2>3. /\ Shape' /\ OthersKept(d) /\ Moves(c, Len(stack[c]), {At(c, "sweeps")}, {})
        /\ deal'[d].status = deal[d].status /\ deal'[d].live = FALSE
        /\ deal'[d].closes = IF deal[d].live THEN deal[d].closes + 1 ELSE deal[d].closes
    BY <1>5, ReleaseBeginsDoes
  <2>4. deal[d].live \in BOOLEAN
    BY <2>2, Fields DEF Shape
  <2> QED
    BY <2>2, <2>3, <2>4, MovedOnce
<1> QED
  BY <1>1, <1>2, <1>3, <1>4, <1>5

LEMMA StopOnce ==
  ASSUME Shape, Once, NEW c \in Calls,
         \/ ReleaseChecks(c) \/ StopArms(c) \/ StopCancels(c) \/ StopChooses(c) \/ StopCloses(c)
         \/ StopDrops(c) \/ StopEnds(c)
  PROVE  Shape' /\ Once'
<1>1. \A g : Stopping(c, g) => NoEntry({g})
  BY DEF Stopping, NoEntry
<1>2. \A f : f.op = "closeDealById" => NoEntry({f})
  BY DEF NoEntry
<1>3. CASE ReleaseChecks(c)
  <2>1. PICK g \in Frames : g.op = "processDealClose" /\ Moves(c, Len(stack[c]), {g}, Stops)
    BY <1>3, ReleaseChecksDoes
  <2>2. NoEntry({g}) /\ NoEntry(Stops)
    BY <2>1, NewFrames DEF NoEntry
  <2>3. Shape' /\ Quietly
    BY <1>3, ReleaseChecksDoes
  <2> QED
    BY <2>1, <2>2, <2>3, QuietlyAged, OnceKept
<1>4. CASE StopArms(c)
  <2>1. PICK g : Stopping(c, g) /\ Moves(c, Len(stack[c]), {g}, {})
    BY <1>4, StopArmsDoes
  <2>2. Shape' /\ Quietly
    BY <1>4, StopArmsDoes
  <2> QED
    BY <1>1, <2>1, <2>2, NewFrames, QuietlyAged, OnceKept
<1>5. CASE StopCancels(c)
  <2>1. PICK f, g \in Frames : f.op = "closeDealById" /\ Stopping(c, g)
                               /\ Moves(c, Len(stack[c]), {g}, {f})
    BY <1>5, StopCancelsDoes
  <2>2. Shape' /\ Quietly
    BY <1>5, StopCancelsDoes
  <2> QED
    BY <1>1, <1>2, <2>1, <2>2, QuietlyAged, OnceKept
<1>6. CASE StopChooses(c)
  <2>1. PICK g : Stopping(c, g) /\ Moves(c, Len(stack[c]), {g}, {})
    BY <1>6, StopChoosesDoes
  <2>2. Shape' /\ Quietly
    BY <1>6, StopChoosesDoes
  <2> QED
    BY <1>1, <2>1, <2>2, NewFrames, QuietlyAged, OnceKept
<1>7. CASE StopCloses(c)
  <2>1. PICK f, g \in Frames : f.op = "closeDealById" /\ Stopping(c, g)
                               /\ Moves(c, Len(stack[c]), {g}, {f})
    BY <1>7, StopClosesDoes
  <2>2. Shape' /\ Quietly
    BY <1>7, StopClosesDoes
  <2> QED
    BY <1>1, <1>2, <2>1, <2>2, QuietlyAged, OnceKept
<1>8. CASE StopDrops(c)
  <2>1. Runs(c, "stop", "closes")
    BY <1>8 DEF StopDrops
  <2>2. NoEntry({At(c, "ends")}) /\ NoEntry({})
    BY <2>1, NewFrames DEF NoEntry
  <2>3. Shape' /\ Moves(c, Len(stack[c]), {At(c, "ends")}, {}) /\ Aged
    BY <1>8, StopDropsDoes DEF Aged
  <2> QED
    BY <2>2, <2>3, OnceKept
<1>9. CASE StopEnds(c)
  BY <1>9, StopEndsDoes, NewFrames, QuietlyAged, OnceKept
<1> QED
  BY <1>3, <1>4, <1>5, <1>6, <1>7, <1>8, <1>9

LEMMA EntryOnce ==
  ASSUME Shape, Once, NEW c \in Calls,
         \/ EntryCounts(c) \/ EntryReadsStatus(c) \/ CreateDeal(c) \/ EntryFindsDeal(c)
         \/ EntrySends(c)
  PROVE  Shape' /\ Once'
<1>1. CASE EntryCounts(c)
  <2>1. Runs(c, "openNewDeal", "begin")
    BY <1>1 DEF EntryCounts
  <2> QED
    BY <1>1, <2>1, EntryCountsDoes, EntryKept DEF Opening
<1>2. CASE EntryReadsStatus(c)
  <2>1. Runs(c, "openNewDeal", "counted")
    BY <1>2 DEF EntryReadsStatus
  <2> QED
    BY <1>2, <2>1, EntryReadsStatusDoes, EntryKept DEF Opening
<1>3. CASE CreateDeal(c)
  BY <1>3, CreateDealDoes, CreatedOnce
<1>4. CASE EntryFindsDeal(c)
  <2>1. Runs(c, "openNewDeal", "created")
    BY <1>4 DEF EntryFindsDeal
  <2> QED
    BY <1>4, <2>1, EntryFindsDealDoes, EntryKept DEF Opening
<1>5. CASE EntrySends(c)
  BY <1>5, NewFrames, EntrySendsDoes, QuietlyAged, OnceKept
<1> QED
  BY <1>1, <1>2, <1>3, <1>4, <1>5


LEMMA OnceStill ==
  ASSUME Shape, Once, Shape', Quietly, UNCHANGED stack
  PROVE  Once'
<1>1. Retyped /\ Aged
  BY QuietlyAged DEF Quietly
<1>2. ASSUME NEW x \in Calls, NEW q \in 1..Len(stack'[x])
      PROVE  Entrant(x, q)'
  <2>1. FrameNo(x, q)' = FrameNo(x, q) /\ q \in 1..Len(stack[x])
    BY DEF FrameNo
  <2>2. Entrant(x, q) /\ FrameNo(x, q) \in Frames
    BY <2>1, FrameTypes DEF Once, Shape
  <2>3. FrameNo(x, q).op = "openNewDeal" => FrameNo(x, q).deal \in Deals
    BY <2>2 DEF Frames
  <2> QED
    BY <1>1, <2>1, <2>2, <2>3, DealsOnce DEF Entrant
<1> QED
  BY <1>1, <1>2, DealsOnce DEF Once

LEMMA CallOnce ==
  ASSUME Shape, Once, NEW c \in Calls, CallNext(c)
  PROVE  Shape' /\ Once'
BY StartOnce, PlaceOnce, LevelOnce, CloseDealOnce, RequestOnce, ReleaseOnce, StandingOnce,
   StopOnce, EntryOnce DEF CallNext

LEMMA AskOnce ==
  ASSUME Shape, Once, Asks
  PROVE  Shape' /\ Once'
<1>1. PICK how \in Hows : \/ AskStop(how)
                          \/ \E d \in Deals : AskClose(d, how) \/ AskEntry(d)
  BY DEF Asks
<1>2. how \in Ways
  BY DEF Hows, Ways
<1>3. CASE AskStop(how)
  <2> DEFINE f == StopFrame(how)
             c == <<"stop", 0>>
  <2>1. Ask(c, how, f) /\ c \in Calls
    BY <1>3 DEF AskStop, Calls, Direct
  <2>2. f \in Frames /\ f.at = "begin" /\ f.op = "stop"
    BY <1>2, StopType
  <2> HIDE DEF f, c
  <2>3. NoEntry({f}) /\ NoEntry({})
    BY <2>2 DEF NoEntry
  <2>4. Shape' /\ Moves(c, 1, {f}, {}) /\ Quietly
    BY <2>1, <2>2, AskDoes
  <2> QED
    BY <2>3, <2>4, QuietlyAged, OnceKept
<1>4. ASSUME NEW d \in Deals, AskClose(d, how)
      PROVE  Shape' /\ Once'
  <2> DEFINE f == Frame("closeDealById", DealKey(d), d, how)
             c == <<"user", d>>
  <2>1. Ask(c, how, f) /\ c \in Calls
    BY <1>4 DEF AskClose, Calls, Direct
  <2>2. f \in Frames /\ f.at = "begin" /\ f.op = "closeDealById"
    BY <1>2, RequestType
  <2> HIDE DEF f, c
  <2>3. NoEntry({f}) /\ NoEntry({})
    BY <2>2 DEF NoEntry
  <2>4. Shape' /\ Moves(c, 1, {f}, {}) /\ Quietly
    BY <2>1, <2>2, AskDoes
  <2> QED
    BY <2>3, <2>4, QuietlyAged, OnceKept
<1> QED
  BY <1>1, <1>3, <1>4, EntryAskedOnce

LEMMA NextOnce ==
  ASSUME Shape, Once, Next
  PROVE  Shape' /\ Once'
<1>1. ASSUME NEW d \in Deals, BaseFills(d)
      PROVE  Shape' /\ Once'
  <2>1. UNCHANGED stack
    BY <1>1 DEF BaseFills
  <2> QED
    BY <1>1, <2>1, BaseFillsDoes, OnceStill
<1>2. ASSUME NEW d \in Deals, TpFills(d)
      PROVE  Shape' /\ Once'
  <2>1. UNCHANGED stack
    BY <1>2 DEF TpFills
  <2> QED
    BY <1>2, <2>1, TpFillsDoes, OnceStill
<1>3. ASSUME NEW d \in Deals, NEW s \in SafetyOrders, SafetyOrderFills(d, s)
      PROVE  Shape' /\ Once'
  <2>1. UNCHANGED stack
    BY <1>3 DEF SafetyOrderFills
  <2> QED
    BY <1>3, <2>1, SafetyOrderFillsDoes, OnceStill
<1>4. ASSUME NEW c \in Calls, Report(c)
      PROVE  Shape' /\ Once'
  BY <1>4, ReportDoes, NewFrames, QuietlyAged, OnceKept
<1>5. ASSUME NEW c \in Calls, Resume(c)
      PROVE  Shape' /\ Once'
  BY <1>4, <1>5, CallOnce DEF Resume
<1> QED
  BY <1>1, <1>2, <1>3, <1>5, AskOnce DEF Next

LEMMA InitShape == Init => Shape /\ Once
<1> SUFFICES ASSUME Init PROVE Shape /\ Once
  OBVIOUS
<1>1. /\ world \in Worlds /\ deal = [d \in Deals |-> NewDeal(world.deals[d])]
      /\ bot = [status |-> "open", afterTp |-> FALSE, pending |-> 0, gone |-> FALSE]
      /\ asked = {} /\ stack = [c \in Calls |-> << >>] /\ line = [k \in Keys |-> << >>]
  BY DEF Init
<1>2. \A d \in Deals : world.deals[d] \in {"none", "start", "open"}
  BY <1>1, WorldsAssumption DEF Deals
<1>3. ASSUME NEW how \in {"none", "start", "open"}
      PROVE  /\ NewDeal(how) \in DealTypes /\ NewDeal(how).closes = 0
             /\ how = NewDeal(how).status
             /\ how = "none" => ~NewDeal(how).live
  <2> DEFINE u == [s \in SafetyOrders |->
                     IF how = "open" /\ s \in world.ladder THEN "resting" ELSE "none"]
  <2>1. u \in [SafetyOrders -> Orders]
    BY DEF Orders
  <2>2. NewDeal(how) = [status |-> how, live |-> how # "none", stored |-> how,
          base |-> CASE how = "none" -> "none" [] how = "start" -> "resting" [] OTHER -> "done",
          tp |-> IF how = "open" THEN "resting" ELSE "none", so |-> u,
          tpQty |-> IF how = "open" THEN 1 ELSE 0, coins |-> IF how = "open" THEN 1 ELSE 0,
          ledger |-> IF how = "open" THEN 1 ELSE 0, sold |-> 0,
          closing |-> FALSE, profit |-> FALSE, booked |-> 0, closes |-> 0]
    BY DEF NewDeal
  <2> HIDE DEF u
  <2>3. CASE how = "none"
    <3>1. NewDeal(how) = [status |-> "none", live |-> FALSE, stored |-> "none",
            base |-> "none", tp |-> "none", so |-> u, tpQty |-> 0, coins |-> 0, ledger |-> 0,
            sold |-> 0, closing |-> FALSE, profit |-> FALSE, booked |-> 0, closes |-> 0]
      BY <2>2, <2>3
    <3>2. NewDeal(how) \in DealTypes
      BY <2>1, <3>1 DEF DealTypes, Statuses, Orders
    <3>3. NewDeal(how).closes = 0 /\ NewDeal(how).status = "none" /\ NewDeal(how).live = FALSE
      BY <3>1
    <3> QED
      BY <2>3, <3>2, <3>3
  <2>4. CASE how = "start"
    BY <2>1, <2>2, <2>4 DEF DealTypes, Statuses, Orders
  <2>5. CASE how = "open"
    BY <2>1, <2>2, <2>5 DEF DealTypes, Statuses, Orders
  <2> QED
    BY <2>3, <2>4, <2>5
<1>4. deal \in [Deals -> DealTypes]
  BY <1>1, <1>2, <1>3
<1>5. 0 \in 0..world.max
  <2>1. world \in Worlds
    BY <1>1
  <2>2. world.max \in Nat
    BY <2>1, WorldsAssumption
  <2> QED
    BY <2>2
<1>6. bot \in BotTypes
  BY <1>1, <1>5 DEF BotTypes
<1>7. \A x \in Calls : stack[x] = << >> /\ Len(stack[x]) = 0
  BY <1>1
<1>8. Stacked
  BY <1>1, EmptySeq DEF Stacked
<1>9. \A x \in Calls : 1..Len(stack[x]) = {}
  BY <1>7
<1>10. Shape
  BY <1>1, <1>4, <1>6, <1>8, <1>9 DEF Shape, Locked
<1>11. \A d \in Deals : /\ deal[d].status = "none" => ~deal[d].live /\ deal[d].closes = 0
                        /\ deal[d].live => deal[d].closes = 0
                        /\ deal[d].closes \in 0..1
  <2> TAKE d \in Deals
  <2> DEFINE how == world.deals[d]
  <2>1. how \in {"none", "start", "open"} /\ deal[d] = NewDeal(how)
    BY <1>1, <1>2
  <2> HIDE DEF how
  <2>2. /\ deal[d].closes = 0 /\ deal[d].status = how
        /\ how = "none" => ~deal[d].live
    BY <1>3, <2>1
  <2> QED
    BY <2>2
<1> QED
  BY <1>9, <1>10, <1>11 DEF Once

LEMMA Stutters ==
  ASSUME Shape, Once, UNCHANGED dealVars
  PROVE  Shape' /\ Once'
<1>1. Shape'
  BY DEF dealVars, Shape, Stacked, Locked, InTurn, FrameNo, BotTypes
<1>2. Quietly /\ UNCHANGED stack
  BY DealsKept DEF dealVars
<1> QED
  BY <1>1, <1>2, OnceStill

LEMMA ShapeHolds == Spec => [](Shape /\ Once)
<1>1. Init => Shape /\ Once
  BY InitShape
<1>2. (Shape /\ Once) /\ [Next]_dealVars => (Shape /\ Once)'
  BY NextOnce, Stutters
<1> QED
  BY <1>1, <1>2, PTL DEF Spec

LEMMA ShapeTypes == Shape /\ Once => TypeOK
<1> SUFFICES ASSUME Shape, Once PROVE TypeOK
  OBVIOUS
<1>1. \A d \in Deals : deal[d] \in DealTypes /\ deal[d].closes \in 0..1
  BY DEF Shape, Once
<1>2. deal \in [Deals -> [status : Statuses, live : BOOLEAN, stored : Statuses,
                           base : Orders, tp : Orders, so : [SafetyOrders -> Orders],
                           tpQty : Int, coins : Int, ledger : Int, sold : Int,
                           closing : BOOLEAN, profit : BOOLEAN, booked : Nat, closes : 0..1]]
  BY <1>1 DEF DealTypes, Shape
<1>3. \A k \in Keys : \A i \in DOMAIN line[k] : line[k][i][1] \in Calls
  <2> TAKE k \in Keys
  <2>1. line[k] \in Seq(Tokens)
    BY FrameTypes DEF Shape
  <2>2. \A i \in DOMAIN line[k] : line[k][i] \in Tokens
    BY <2>1
  <2> QED
    BY <2>2 DEF Tokens
<1>4. \A c \in Calls : \A i \in DOMAIN stack[c] : stack[c][i].key \in Keys \cup {NoKey}
  <2> TAKE c \in Calls
  <2>1. stack[c] \in Seq(Frames)
    BY FrameTypes DEF Shape
  <2>2. \A i \in DOMAIN stack[c] : stack[c][i] \in Frames
    BY <2>1
  <2> QED
    BY <2>2 DEF Frames
<1> QED
  BY <1>2, <1>3, <1>4 DEF TypeOK, Shape, BotTypes

(***************************************************************************)
(* Every variable keeps to the values the code gives it. What takes a      *)
(* proof is that a deal leaves the bot at most once (closes): a deal comes *)
(* to memory by the one entry that opens it, which found it never opened,  *)
(* and processDealClose counts only deals it takes out of memory.          *)
(***************************************************************************)
THEOREM TypeCorrect == Spec => []TypeOK
<1> QED
  BY ShapeHolds, ShapeTypes, PTL


-----------------------------------------------------------------------------
(* The books of a bot whose deals are past their start, and that nobody cancels *)

\* closeDeal from its first look at the deal until the profit is booked.
Closing(f) == f.op = "closeDeal" /\ f.at \in {"settles", "measures", "swept", "closes",
                                              "books", "sweptBooks"}
Booking(f) == f.op = "closeDeal" /\ f.at \in {"books", "sweptBooks"}

\* Where such a bot's methods never get.
Plain(f) == /\ f.how # "cancel" /\ f.op # "openNewDeal"
            /\ f.op = "startDeal" => f.at \in {"begin", "remainder"}
            /\ f.op = "closeDealById" => f.at \notin {"cancels", "released"}
            /\ (f.op = "stop" /\ f.at = "cancels") => f.todo = {}

Sound(f) == /\ Plain(f)
            /\ Closing(f) => deal[f.deal].booked = 0
            /\ Booking(f) => deal[f.deal].status = "closed"

\* One closeDeal at a time is past its begin.
Alone == \A x, y \in Calls : \A q \in 1..Len(stack[x]), r \in 1..Len(stack[y]) :
           Closing(FrameNo(x, q)) /\ Closing(FrameNo(y, r)) => x = y /\ q = r

SettledDeals == \A d \in Deals : /\ deal[d].status \in {"none", "open", "closed"}
                                 /\ deal[d].booked \in {0, 1}
                                 /\ deal[d].booked = 1 => deal[d].status = "closed"

Settled == /\ SettledDeals
           /\ \A x \in Calls : \A q \in 1..Len(stack[x]) : Sound(FrameNo(x, q))
           /\ Alone
           /\ bot.gone => \A d \in Deals : ~(deal[d].live /\ deal[d].status = "open")

Calm == ~CancelAsked /\ ~SomeStart
Steady == Calm => Settled

\* What most steps do to the deals.
Lasting == \A d \in Deals : /\ deal'[d].status = deal[d].status
                            /\ deal'[d].booked = deal[d].booked
                            /\ deal'[d].live => deal[d].live

LEMMA QuietlyLasting == Quietly => Lasting
BY DEF Quietly, SameBooks, Lasting

LEMMA SettledKept ==
  ASSUME Shape, Shape', Settled, Lasting, bot'.gone => bot.gone \/ OpenDeals = {},
         NEW c \in Calls, NEW p, NEW gs, NEW new, Moves(c, p, gs, new),
         \A f \in new : Plain(f) /\ ~Closing(f),
         \A g \in gs : /\ Plain(g) /\ ~Booking(g)
                       /\ Closing(g) => /\ p \in 1..Len(stack[c]) /\ Closing(FrameNo(c, p))
                                        /\ g.deal = FrameNo(c, p).deal
  PROVE  Settled'
<1>1. ASSUME NEW x \in Calls, NEW q \in 1..Len(stack'[x])
      PROVE  LET f == FrameNo(x, q)'
                 e == FrameNo(x, q)
             IN /\ Plain(f)
                /\ Closing(f) => q \in 1..Len(stack[x]) /\ Closing(e) /\ f.deal = e.deal
                /\ Booking(f) => q \in 1..Len(stack[x]) /\ Booking(e) /\ f.deal = e.deal
  <2> DEFINE f == FrameNo(x, q)'
             e == FrameNo(x, q)
  <2>1. CASE f \in new
    BY <2>1 DEF Booking, Closing
  <2>2. CASE x = c /\ q = p /\ f \in gs
    BY <2>2
  <2>3. CASE /\ q \in 1..Len(stack[x]) /\ e \in Frames
             /\ f.op = e.op /\ f.at = e.at /\ f.deal = e.deal /\ f.how = e.how
             /\ f.todo = e.todo
    <3>1. Sound(e)
      BY <2>3 DEF Settled
    <3>2. Plain(f)
      BY <2>3, <3>1 DEF Sound, Plain
    <3> QED
      BY <2>3, <3>2 DEF Closing, Booking
  <2> QED
    BY <2>1, <2>2, <2>3, StillThere
<1>2. ASSUME NEW x \in Calls, NEW q \in 1..Len(stack[x]), Closing(FrameNo(x, q))
      PROVE  FrameNo(x, q).deal \in Deals
  <2>1. FrameNo(x, q) \in Frames
    BY FrameTypes DEF Shape
  <2> QED
    BY <1>2, <2>1 DEF Frames, Closing
<1>3. ASSUME NEW x \in Calls, NEW q \in 1..Len(stack'[x])
      PROVE  Sound(FrameNo(x, q))'
  <2> DEFINE f == FrameNo(x, q)'
             e == FrameNo(x, q)
  <2>1. Closing(f) => deal'[f.deal].booked = 0
    BY <1>1, <1>2 DEF Settled, Sound, Lasting
  <2>2. Booking(f) => deal'[f.deal].status = "closed"
    <3>1. Booking(f) => q \in 1..Len(stack[x]) /\ Booking(e) /\ Closing(e) /\ f.deal = e.deal
      BY <1>1 DEF Booking, Closing
    <3> QED
      BY <3>1, <1>2 DEF Settled, Sound, Lasting
  <2>3. Plain(f)
    BY <1>1
  <2> QED
    BY <2>1, <2>2, <2>3 DEF Sound, Plain, Closing, Booking
<1>4. Alone'
  BY <1>1 DEF Settled, Alone, Closing
<1>5. SettledDeals'
  BY DEF Settled, SettledDeals, Lasting
<1>6. bot'.gone => \A d \in Deals : ~(deal'[d].live /\ deal'[d].status = "open")
  BY DEF Settled, Lasting, OpenDeals
<1> QED
  BY <1>3, <1>4, <1>5, <1>6 DEF Settled

\* Frames that close nothing.
Asides(gs) == \A g \in gs : Plain(g) /\ ~Closing(g)

LEMMA SettledAside ==
  ASSUME Shape, Shape', Settled, Lasting, bot'.gone => bot.gone \/ OpenDeals = {},
         NEW c \in Calls, NEW p, NEW gs, NEW new, Moves(c, p, gs, new),
         Asides(gs), Asides(new)
  PROVE  Settled'
<1>1. \A g \in gs : Plain(g) /\ ~Booking(g) /\ ~Closing(g)
  BY DEF Asides, Booking, Closing
<1>2. \A f \in new : Plain(f) /\ ~Closing(f)
  BY DEF Asides
<1> QED
  BY <1>1, <1>2, SettledKept

LEMMA NewAsides ==
  ASSUME Shape
  PROVE  /\ Asides({}) /\ Asides(Reported) /\ Asides(Closers) /\ Asides(Stops)
         /\ Asides({StopFrame("none")})
         /\ \A f : Placer(f) => Asides({f})
         /\ \A d \in Deals, own \in BOOLEAN : Asides({Release(d, own)})
<1>1. Asides({}) /\ Asides(Closers) /\ Asides(Stops)
  BY DEF Asides, Closers, Stops, Plain, Closing
<1>2. Asides(Reported)
  BY ReportedFrames DEF Asides, Plain, Closing
<1>3. Asides({StopFrame("none")})
  BY StopType DEF Asides, Ways, Plain, Closing
<1>4. \A f : Placer(f) => Asides({f})
  BY DEF Asides, Placer, Plain, Closing
<1>5. \A d \in Deals, own \in BOOLEAN : Asides({Release(d, own)})
  BY ReleaseType DEF Asides, Plain, Closing
<1> QED
  BY <1>1, <1>2, <1>3, <1>4, <1>5

LEMMA TopPlain ==
  ASSUME Shape, Settled, NEW c \in Calls, NEW op, NEW b, Runs(c, op, b)
  PROVE  /\ Sound(Top(c)) /\ Top(c).op = op /\ Top(c).at = b /\ Top(c).how # "cancel"
         /\ \A a : /\ At(c, a).op = op /\ At(c, a).at = a /\ At(c, a).how # "cancel"
                   /\ At(c, a).deal = Top(c).deal
<1>1. /\ Top(c) \in Frames /\ Top(c).op = op /\ Top(c).at = b
      /\ Len(stack[c]) \in 1..Len(stack[c]) /\ Top(c) = FrameNo(c, Len(stack[c]))
  BY RunsTop
<1>2. Sound(Top(c))
  BY <1>1 DEF Settled
<1> QED
  BY <1>1, <1>2, AtFields DEF Sound, Plain


LEMMA StartSettled ==
  ASSUME Shape, Settled, NEW c \in Calls,
         StartBegins(c) \/ StartOpens(c) \/ SellRemainder(c)
  PROVE  Settled'
<1>1. CASE StartBegins(c)
  <2> DEFINE a == IF deal[Top(c).deal].live /\ deal[Top(c).deal].status = "start"
                   THEN "opens" ELSE "remainder"
  <2>1. Runs(c, "startDeal", "begin") /\ UNCHANGED bot
    BY <1>1 DEF StartBegins
  <2>2. a = "remainder"
    BY <2>1, RunsTop DEF Settled, SettledDeals
  <2>3. Asides({At(c, a)}) /\ Asides({})
    BY <2>1, <2>2, TopPlain DEF Asides, Plain, Closing
  <2>4. Shape' /\ Moves(c, Len(stack[c]), {At(c, a)}, {}) /\ Quietly
    BY <1>1, StartBeginsDoes
  <2> QED
    BY <2>1, <2>3, <2>4, QuietlyLasting, SettledAside
<1>2. CASE StartOpens(c)
  <2>1. Runs(c, "startDeal", "opens")
    BY <1>2 DEF StartOpens
  <2> QED
    BY <2>1, TopPlain DEF Sound, Plain
<1>3. CASE SellRemainder(c)
  <2>1. UNCHANGED bot
    BY <1>3 DEF SellRemainder
  <2> QED
    BY <1>3, <2>1, NewAsides, SellRemainderDoes, QuietlyLasting, SettledAside
<1> QED
  BY <1>1, <1>2, <1>3

LEMMA PlaceSettled ==
  ASSUME Shape, Settled, NEW c \in Calls,
         PlaceBegins(c) \/ PlaceLadder(c) \/ PlaceCancels(c) \/ PlaceSends(c)
  PROVE  Settled'
<1>1. CASE PlaceBegins(c)
  <2>1. Runs(c, "placeOrders", "begin") /\ UNCHANGED bot
    BY <1>1 DEF PlaceBegins
  <2>2. Asides({At(c, "ladder"), At(c, "resize")})
    BY <2>1, TopPlain DEF Asides, Plain, Closing
  <2> QED
    BY <1>1, <2>1, <2>2, NewAsides, PlaceBeginsDoes, QuietlyLasting, SettledAside
<1>2. CASE PlaceLadder(c)
  <2>1. Runs(c, "placeOrders", "ladder") /\ UNCHANGED bot
    BY <1>2 DEF PlaceLadder
  <2>2. Asides({At(c, "sends")})
    BY <2>1, TopPlain DEF Asides, Plain, Closing
  <2> QED
    BY <1>2, <2>1, <2>2, NewAsides, PlaceLadderDoes, QuietlyLasting, SettledAside
<1>3. CASE PlaceCancels(c)
  <2>1. Runs(c, "placeOrders", "resize") /\ UNCHANGED bot
    BY <1>3 DEF PlaceCancels
  <2>2. Asides({At(c, "sends")})
    BY <2>1, TopPlain DEF Asides, Plain, Closing
  <2> QED
    BY <1>3, <2>1, <2>2, NewAsides, PlaceCancelsDoes, QuietlyLasting, SettledAside
<1>4. CASE PlaceSends(c)
  <2>1. UNCHANGED bot
    BY <1>4 DEF PlaceSends
  <2> QED
    BY <1>4, <2>1, NewAsides, PlaceSendsDoes, QuietlyLasting, SettledAside
<1> QED
  BY <1>1, <1>2, <1>3, <1>4

LEMMA LevelSettled ==
  ASSUME Shape, Settled, NEW c \in Calls,
         LevelBooks(c) \/ LevelSizes(c) \/ LevelEnds(c) \/ LevelSells(c)
  PROVE  Settled'
<1>1. CASE LevelBooks(c)
  <2>1. Runs(c, "updateDeal", "begin") /\ UNCHANGED bot
    BY <1>1 DEF LevelBooks
  <2>2. Asides({At(c, "sizes"), At(c, "sells"), At(c, "reads")})
    BY <2>1, TopPlain DEF Asides, Plain, Closing
  <2> QED
    BY <1>1, <2>1, <2>2, NewAsides, LevelBooksDoes, QuietlyLasting, SettledAside
<1>2. CASE LevelSizes(c)
  <2>1. Runs(c, "updateDeal", "sizes") /\ UNCHANGED bot
    BY <1>2 DEF LevelSizes
  <2>2. PICK f : Placer(f) /\ Moves(c, Len(stack[c]), {At(c, "placed")}, {f})
    BY <1>2, LevelSizesDoes
  <2>3. Asides({At(c, "placed")}) /\ Asides({f})
    BY <2>1, <2>2, TopPlain, NewAsides DEF Asides, Plain, Closing
  <2> QED
    BY <1>2, <2>1, <2>2, <2>3, LevelSizesDoes, QuietlyLasting, SettledAside
<1>3. CASE LevelEnds(c)
  <2>1. UNCHANGED bot
    BY <1>3 DEF LevelEnds
  <2> QED
    BY <1>3, <2>1, NewAsides, LevelEndsDoes, QuietlyLasting, SettledAside
<1>4. CASE LevelSells(c)
  <2>1. UNCHANGED bot
    BY <1>4 DEF LevelSells
  <2> QED
    BY <1>4, <2>1, NewAsides, LevelSellsDoes, QuietlyLasting, SettledAside
<1> QED
  BY <1>1, <1>2, <1>3, <1>4

LEMMA RequestSettled ==
  ASSUME Shape, Settled, NEW c \in Calls,
         CloseBegins(c) \/ CloseCancels(c) \/ CloseReleased(c) \/ CloseStopped(c) \/
         CloseSweeps(c) \/ CloseGivesWay(c) \/ CloseExecutes(c) \/
         CloseWithoutOrder(c) \/ CloseRestores(c)
  PROVE  Settled'
<1>1. CASE CloseBegins(c)
  <2>1. Runs(c, "closeDealById", "begin") /\ UNCHANGED bot
    BY <1>1 DEF CloseBegins
  <2>2. Moves(c, Len(stack[c]), {At(c, "sweeps")}, {StopFrame("none")})
    <3>1. deal[Top(c).deal].status # "start" /\ Top(c).how # "cancel"
      BY <2>1, RunsTop, TopPlain DEF Settled, SettledDeals
    <3> QED
      BY <1>1, <3>1, CloseBeginsDoes
  <2>3. Asides({At(c, "sweeps")}) /\ Asides({StopFrame("none")})
    BY <2>1, TopPlain, NewAsides DEF Asides, Plain, Closing
  <2> QED
    BY <1>1, <2>1, <2>2, <2>3, CloseBeginsDoes, QuietlyLasting, SettledAside
<1>2. CASE CloseCancels(c)
  <2>1. Runs(c, "closeDealById", "cancels")
    BY <1>2 DEF CloseCancels
  <2> QED
    BY <2>1, TopPlain DEF Sound, Plain
<1>3. CASE CloseReleased(c)
  <2>1. Runs(c, "closeDealById", "released")
    BY <1>3 DEF CloseReleased
  <2> QED
    BY <2>1, TopPlain DEF Sound, Plain
<1>4. CASE CloseStopped(c)
  <2>1. UNCHANGED bot
    BY <1>4 DEF CloseStopped
  <2> QED
    BY <1>4, <2>1, NewAsides, CloseStoppedDoes, QuietlyLasting, SettledAside
<1>5. CASE CloseSweeps(c)
  <2>1. Runs(c, "closeDealById", "sweeps") /\ UNCHANGED bot
    BY <1>5 DEF CloseSweeps
  <2>2. Asides({At(c, "swept"), At(c, "sweptFilled")})
    BY <2>1, TopPlain DEF Asides, Plain, Closing
  <2> QED
    BY <1>5, <2>1, <2>2, NewAsides, CloseSweepsDoes, QuietlyLasting, SettledAside
<1>6. CASE CloseGivesWay(c)
  <2>1. UNCHANGED bot
    BY <1>6 DEF CloseGivesWay
  <2> QED
    BY <1>6, <2>1, NewAsides, CloseGivesWayDoes, QuietlyLasting, SettledAside
<1>7. CASE CloseExecutes(c)
  <2>1. UNCHANGED bot
    BY <1>7 DEF CloseExecutes
  <2> QED
    BY <1>7, <2>1, NewAsides, CloseExecutesDoes, QuietlyLasting, SettledAside
<1>8. CASE CloseWithoutOrder(c)
  <2>1. /\ Runs(c, "closeDealById", "swept") \/ Runs(c, "closeDealById", "sweptFilled")
        /\ UNCHANGED bot
    BY <1>8 DEF CloseWithoutOrder, ClosesEmpty, CloseSends
  <2>2. Asides({At(c, "stopped")})
    BY <2>1, TopPlain DEF Asides, Plain, Closing
  <2> QED
    BY <1>8, <2>1, <2>2, NewAsides, CloseWithoutOrderDoes, QuietlyLasting, SettledAside
<1>9. CASE CloseRestores(c)
  <2>1. UNCHANGED bot
    BY <1>9 DEF CloseRestores
  <2> QED
    BY <1>9, <2>1, NewAsides, CloseRestoresDoes, QuietlyLasting, SettledAside
<1> QED
  BY <1>1, <1>2, <1>3, <1>4, <1>5, <1>6, <1>7, <1>8, <1>9

LEMMA ReleaseSettled ==
  ASSUME Shape, Settled, NEW c \in Calls,
         ReleaseBegins(c) \/ ReleaseSweeps(c) \/ ReleaseChecks(c) \/
         ReleaseEnds(c)
  PROVE  Settled'
<1>1. CASE ReleaseBegins(c)
  <2>1. Runs(c, "processDealClose", "begin") /\ UNCHANGED bot
    BY <1>1 DEF ReleaseBegins
  <2>2. Asides({At(c, "sweeps")}) /\ Asides({})
    BY <2>1, TopPlain DEF Asides, Plain, Closing
  <2>3. Lasting
    BY <1>1, ReleaseBeginsDoes DEF OthersKept, SameBooks, Lasting
  <2> QED
    BY <1>1, <2>1, <2>2, <2>3, ReleaseBeginsDoes, SettledAside
<1>2. CASE ReleaseSweeps(c)
  <2>1. Runs(c, "processDealClose", "sweeps") /\ UNCHANGED bot
    BY <1>2 DEF ReleaseSweeps
  <2>2. Asides({At(c, "checks")})
    BY <2>1, TopPlain DEF Asides, Plain, Closing
  <2> QED
    BY <1>2, <2>1, <2>2, NewAsides, ReleaseSweepsDoes, QuietlyLasting, SettledAside
<1>3. CASE ReleaseChecks(c)
  <2>1. Runs(c, "processDealClose", "checks") /\ UNCHANGED bot
    BY <1>3 DEF ReleaseChecks
  <2>2. PICK g \in Frames : /\ g.op = "processDealClose" /\ g.how = Top(c).how
                            /\ Moves(c, Len(stack[c]), {g}, Stops)
    BY <1>3, ReleaseChecksDoes
  <2>3. Asides({g}) /\ Asides(Stops)
    BY <2>1, <2>2, TopPlain, NewAsides DEF Asides, Plain, Closing
  <2> QED
    BY <1>3, <2>1, <2>2, <2>3, ReleaseChecksDoes, QuietlyLasting, SettledAside
<1>4. CASE ReleaseEnds(c)
  <2>1. UNCHANGED bot
    BY <1>4 DEF ReleaseEnds
  <2> QED
    BY <1>4, <2>1, NewAsides, ReleaseEndsDoes, QuietlyLasting, SettledAside
<1> QED
  BY <1>1, <1>2, <1>3, <1>4


LEMMA ClosersHold ==
  ASSUME Shape, ~bot.gone, NEW x \in Calls, NEW q \in 1..Len(stack[x]), Closing(FrameNo(x, q))
  PROVE  Head(line[ClosingKey]) = <<x, q>>
<1>1. FrameNo(x, q) \in Frames
  BY FrameTypes DEF Shape
<1>2. FrameNo(x, q).key = ClosingKey /\ FrameNo(x, q).at # "begin" /\ ClosingKey # NoKey
  BY <1>1, KeysApart DEF Closing, Frames
<1>3. InTurn(x, q)
  BY DEF Shape, Locked
<1> QED
  BY <1>2, <1>3 DEF InTurn

LEMMA CloseDealBeginsSettled ==
  ASSUME Shape, Settled, NEW c \in Calls, CloseDealBegins(c)
  PROVE  Settled'
<1> DEFINE d == Top(c).deal
           p == Len(stack[c])
<1>1. Runs(c, "closeDeal", "begin") /\ UNCHANGED bot
  BY DEF CloseDealBegins
<1>2. /\ Top(c) \in Frames /\ Top(c) = FrameNo(c, p) /\ p \in 1..Len(stack[c]) /\ d \in Deals
      /\ Top(c).op = "closeDeal" /\ Top(c).at = "begin" /\ Top(c).key = ClosingKey
      /\ ~Idle(c) /\ Holds(c)
  BY <1>1, RunsTop DEF Frames
<1>3. Shape' /\ Quietly /\ Lasting
  BY CloseDealBeginsDoes, QuietlyLasting
<1>4. CASE Moves(c, p, {}, {})
  BY <1>1, <1>3, <1>4, NewAsides, SettledAside
<1>5. CASE deal[d].live /\ Fresh(d) /\ Moves(c, p, {At(c, "settles")}, {})
  <2>1. deal[d].status = "open" /\ deal[d].booked = 0 /\ ~bot.gone
    BY <1>2, <1>5 DEF Fresh, Settled, SettledDeals
  <2>2. ASSUME NEW x \in Calls, NEW q \in 1..Len(stack[x])
        PROVE  ~Closing(FrameNo(x, q))
    <3> SUFFICES ASSUME Closing(FrameNo(x, q)) PROVE FALSE
      OBVIOUS
    <3>1. Head(line[ClosingKey]) = <<x, q>>
      BY <2>1, ClosersHold
    <3>2. Head(line[ClosingKey]) = <<c, p>>
      BY <1>2, KeysApart DEF Holds
    <3> QED
      BY <1>2, <3>1, <3>2 DEF Closing
  <2>3. /\ Plain(At(c, "settles")) /\ At(c, "settles").deal = d /\ ~Booking(At(c, "settles"))
    BY <1>1, TopPlain DEF Plain, Booking
  <2>4. deal'[d].booked = 0
    BY <1>2, <1>3, <2>1 DEF Lasting
  <2> HIDE DEF d
  <2>5. ASSUME NEW x \in Calls, NEW q \in 1..Len(stack'[x])
        PROVE  Sound(FrameNo(x, q))' /\ (Closing(FrameNo(x, q))' => x = c /\ q = p)
    <3> DEFINE f == FrameNo(x, q)'
               e == FrameNo(x, q)
    <3>1. CASE x = c /\ q = p /\ f = At(c, "settles")
      BY <3>1, <2>3, <2>4 DEF Sound, Plain, Booking
    <3>2. CASE /\ q \in 1..Len(stack[x]) /\ e \in Frames
               /\ f.op = e.op /\ f.at = e.at /\ f.deal = e.deal /\ f.how = e.how
               /\ f.todo = e.todo
      BY <2>2, <3>2 DEF Settled, Sound, Plain, Closing, Booking
    <3> QED
      BY <1>5, <3>1, <3>2, StillThere
  <2>6. SettledDeals' /\ Alone'
    BY <1>3, <2>5 DEF Settled, SettledDeals, Lasting, Alone
  <2>7. ~bot'.gone
    BY <1>1, <2>1
  <2> QED
    BY <2>5, <2>6, <2>7 DEF Settled
<1> QED
  BY <1>4, <1>5, CloseDealBeginsDoes

LEMMA CloseDealGoesOnSettled ==
  ASSUME Shape, Settled, NEW c \in Calls, CloseDealSettles(c) \/ CloseDealMeasures(c)
  PROVE  Settled'
<1> DEFINE gs == {At(c, "measures"), At(c, "swept"), At(c, "closes")}
           p == Len(stack[c])
<1>1. PICK b \in {"settles", "measures"} : Runs(c, "closeDeal", b) /\ UNCHANGED bot
  BY DEF CloseDealSettles, CloseDealMeasures
<1>2. Shape' /\ Quietly /\ Moves(c, p, gs, {})
  <2>1. CASE CloseDealSettles(c)
    <3>1. Moves(c, p, {At(c, "measures"), At(c, "closes")}, {}) /\ Shape' /\ Quietly
      BY <2>1, CloseDealSettlesDoes
    <3> QED
      BY <3>1, MovesMore
  <2>2. CASE CloseDealMeasures(c)
    <3>1. Moves(c, p, {At(c, "swept"), At(c, "closes")}, {}) /\ Shape' /\ Quietly
      BY <2>2, CloseDealMeasuresDoes
    <3> QED
      BY <3>1, MovesMore
  <2> QED
    BY <2>1, <2>2
<1>3. p \in 1..Len(stack[c]) /\ Top(c) = FrameNo(c, p) /\ Closing(Top(c))
  BY <1>1, RunsTop DEF Closing
<1>4. \A g \in gs : Plain(g) /\ ~Booking(g) /\ g.deal = FrameNo(c, p).deal
  BY <1>1, <1>3, TopPlain DEF Plain, Booking
<1> HIDE DEF gs, p
<1> QED
  BY <1>1, <1>2, <1>3, <1>4, QuietlyLasting, SettledKept

LEMMA CloseDealClosesSettled ==
  ASSUME Shape, Settled, NEW c \in Calls, CloseDealCloses(c)
  PROVE  Settled'
<1> DEFINE d == Top(c).deal
           p == Len(stack[c])
           a == IF Top(c).at = "swept" THEN "sweptBooks" ELSE "books"
           g == At(c, a)
<1>1. PICK b \in {"closes", "swept"} : Runs(c, "closeDeal", b) /\ UNCHANGED bot
  BY DEF CloseDealCloses
<1>2. /\ Top(c) \in Frames /\ Top(c) = FrameNo(c, p) /\ p \in 1..Len(stack[c]) /\ d \in Deals
      /\ Closing(Top(c)) /\ Sound(Top(c))
  BY <1>1, RunsTop, TopPlain DEF Closing
<1>3. /\ Shape' /\ Moves(c, p, {g}, {}) /\ OthersKept(d)
      /\ deal'[d].status = "closed" /\ deal'[d].live = deal[d].live
      /\ deal'[d].booked = deal[d].booked
  BY CloseDealClosesDoes
<1>4. Plain(g) /\ g.deal = d
  BY <1>1, TopPlain DEF Plain
<1>5. deal[d].booked = 0
  BY <1>2 DEF Sound
<1> HIDE DEF d, a, g, p
<1>6. \A e \in Deals : /\ deal'[e].booked = deal[e].booked
                       /\ deal'[e].status = deal[e].status \/ deal'[e].status = "closed"
                       /\ deal'[e].live = deal[e].live
  BY <1>2, <1>3 DEF OthersKept, SameBooks
<1>7. ASSUME NEW x \in Calls, NEW q \in 1..Len(stack'[x])
      PROVE  /\ Sound(FrameNo(x, q))'
             /\ Closing(FrameNo(x, q))' => q \in 1..Len(stack[x]) /\ Closing(FrameNo(x, q))
  <2> DEFINE f == FrameNo(x, q)'
             e == FrameNo(x, q)
  <2>1. CASE x = c /\ q = p /\ f = g
    BY <2>1, <1>2, <1>3, <1>4, <1>5 DEF Sound, Plain, Closing, Booking
  <2>2. CASE /\ q \in 1..Len(stack[x]) /\ e \in Frames
             /\ f.op = e.op /\ f.at = e.at /\ f.deal = e.deal /\ f.how = e.how
             /\ f.todo = e.todo
    <3>1. Sound(e) /\ (Closing(e) => e.deal \in Deals)
      BY <2>2 DEF Settled, Closing, Frames
    <3>2. (Booking(f) => Closing(e)) /\ (Closing(f) => Closing(e))
      BY <2>2 DEF Closing, Booking
    <3> QED
      BY <2>2, <1>6, <3>1, <3>2 DEF Sound, Plain, Closing, Booking
  <2> QED
    BY <1>3, <2>1, <2>2, StillThere
<1>8. Alone'
  BY <1>7 DEF Settled, Alone
<1>9. SettledDeals' /\ (bot'.gone => \A e \in Deals : ~(deal'[e].live /\ deal'[e].status = "open"))
  BY <1>1, <1>6 DEF Settled, SettledDeals
<1> QED
  BY <1>7, <1>8, <1>9 DEF Settled

LEMMA CloseDealBooksSettled ==
  ASSUME Shape, Settled, NEW c \in Calls, CloseDealBooks(c)
  PROVE  Settled'
<1> DEFINE d == Top(c).deal
           p == Len(stack[c])
           g == At(c, "released")
           n == Release(d, FALSE)
<1>1. PICK b \in {"books", "sweptBooks"} : Runs(c, "closeDeal", b) /\ UNCHANGED bot
  BY DEF CloseDealBooks
<1>2. /\ Top(c) \in Frames /\ Top(c) = FrameNo(c, p) /\ p \in 1..Len(stack[c]) /\ d \in Deals
      /\ Closing(Top(c)) /\ Booking(Top(c)) /\ Sound(Top(c))
  BY <1>1, RunsTop, TopPlain DEF Closing, Booking
<1>3. /\ Shape' /\ Moves(c, p, {g}, {n}) /\ OthersKept(d)
      /\ deal'[d].status = deal[d].status /\ deal'[d].live = deal[d].live
      /\ deal'[d].booked = deal[d].booked + 1
  BY CloseDealBooksDoes
<1>4. Asides({g}) /\ Asides({n})
  <2>1. g.op = "closeDeal" /\ g.at = "released" /\ g.how # "cancel"
    BY <1>1, TopPlain
  <2>2. Asides({n})
    BY <1>2, NewAsides
  <2> HIDE DEF g, n
  <2> QED
    BY <2>1, <2>2 DEF Asides, Plain, Closing
<1>5. deal[d].booked = 0 /\ deal[d].status = "closed"
  BY <1>2 DEF Sound
<1> HIDE DEF d, g, n, p
<1>6. \A e \in Deals : /\ deal'[e].status = deal[e].status /\ deal'[e].live = deal[e].live
                       /\ IF e = d THEN deal'[e].booked = 1 /\ deal'[e].status = "closed"
                                   ELSE deal'[e].booked = deal[e].booked
  BY <1>2, <1>3, <1>5 DEF OthersKept, SameBooks
<1>7. ASSUME NEW x \in Calls, NEW q \in 1..Len(stack'[x])
      PROVE  Sound(FrameNo(x, q))' /\ ~Closing(FrameNo(x, q))'
  <2> DEFINE f == FrameNo(x, q)'
             e == FrameNo(x, q)
  <2>1. CASE f \in {n} \/ f \in {g}
    BY <2>1, <1>4 DEF Asides, Sound, Plain, Closing, Booking
  <2>2. CASE /\ q \in 1..Len(stack[x]) /\ e \in Frames /\ (x = c => q < p)
             /\ f.op = e.op /\ f.at = e.at /\ f.deal = e.deal /\ f.how = e.how
             /\ f.todo = e.todo
    <3>1. Sound(e) /\ ~Closing(e)
      BY <1>2, <2>2 DEF Settled, Alone
    <3> QED
      BY <2>2, <3>1 DEF Sound, Plain, Closing, Booking
  <2> QED
    BY <1>3, <2>1, <2>2, StillThere
<1>8. Alone'
  BY <1>7 DEF Alone
<1>9. SettledDeals' /\ (bot'.gone => \A e \in Deals : ~(deal'[e].live /\ deal'[e].status = "open"))
  BY <1>1, <1>6 DEF Settled, SettledDeals
<1> QED
  BY <1>7, <1>8, <1>9 DEF Settled


LEMMA CloseDealSettled ==
  ASSUME Shape, Settled, NEW c \in Calls,
         \/ CloseDealBegins(c) \/ CloseDealSettles(c) \/ CloseDealMeasures(c)
         \/ CloseDealCloses(c) \/ CloseDealBooks(c) \/ CloseDealEnds(c)
  PROVE  Settled'
<1>1. CASE CloseDealEnds(c)
  <2>1. UNCHANGED bot
    BY <1>1 DEF CloseDealEnds
  <2> QED
    BY <1>1, <2>1, NewAsides, CloseDealEndsDoes, QuietlyLasting, SettledAside
<1> QED
  BY <1>1, CloseDealBeginsSettled, CloseDealGoesOnSettled, CloseDealClosesSettled,
     CloseDealBooksSettled

LEMMA StopSettled ==
  ASSUME Shape, Settled, NEW c \in Calls,
         \/ StopArms(c) \/ StopCancels(c) \/ StopChooses(c) \/ StopCloses(c)
         \/ StopDrops(c) \/ StopEnds(c)
  PROVE  Settled'
<1>1. CASE StopArms(c)
  <2>1. Runs(c, "stop", "begin")
    BY <1>1 DEF StopArms
  <2>2. PICK g : /\ Stopping(c, g)
                 /\ (\A d \in Deals : deal[d].status # "start") => g.todo = {}
                 /\ Moves(c, Len(stack[c]), {g}, {})
    BY <1>1, StopArmsDoes
  <2>3. g.todo = {}
    BY <2>2 DEF Settled, SettledDeals
  <2>4. Asides({g})
    BY <2>1, <2>2, <2>3, TopPlain DEF Asides, Plain, Closing, Stopping
  <2> QED
    BY <1>1, <2>2, <2>4, NewAsides, StopArmsDoes, QuietlyLasting, SettledAside
<1>2. CASE StopCancels(c)
  <2>1. Runs(c, "stop", "cancels") /\ Top(c).todo # {}
    BY <1>2 DEF StopCancels
  <2> QED
    BY <2>1, TopPlain DEF Sound, Plain
<1>3. CASE StopChooses(c)
  <2>1. Runs(c, "stop", "cancels") /\ UNCHANGED bot
    BY <1>3 DEF StopChooses
  <2>2. PICK g : /\ Stopping(c, g) /\ g.at = "closes"
                 /\ Moves(c, Len(stack[c]), {g}, {})
    BY <1>3, StopChoosesDoes
  <2>3. Asides({g})
    BY <2>1, <2>2, TopPlain DEF Asides, Plain, Closing, Stopping
  <2> QED
    BY <1>3, <2>1, <2>2, <2>3, NewAsides, StopChoosesDoes, QuietlyLasting, SettledAside
<1>4. CASE StopCloses(c)
  <2>1. Runs(c, "stop", "closes") /\ UNCHANGED bot
    BY <1>4 DEF StopCloses
  <2>2. PICK f, g \in Frames :
               /\ f.op = "closeDealById" /\ f.at = "begin" /\ f.how = Top(c).how
               /\ Stopping(c, g) /\ g.at = "closes" /\ Moves(c, Len(stack[c]), {g}, {f})
    BY <1>4, StopClosesDoes
  <2>3. Asides({g}) /\ Asides({f})
    BY <2>1, <2>2, TopPlain DEF Asides, Plain, Closing, Stopping
  <2> QED
    BY <1>4, <2>1, <2>2, <2>3, StopClosesDoes, QuietlyLasting, SettledAside
<1>5. CASE StopDrops(c)
  <2>1. Runs(c, "stop", "closes")
    BY <1>5 DEF StopDrops
  <2>2. Asides({At(c, "ends")})
    BY <2>1, TopPlain DEF Asides, Plain, Closing
  <2>3. Lasting
    BY <1>5, StopDropsDoes DEF Lasting
  <2> QED
    BY <1>5, <2>2, <2>3, NewAsides, StopDropsDoes, SettledAside
<1>6. CASE StopEnds(c)
  BY <1>6, NewAsides, StopEndsDoes, QuietlyLasting, SettledAside
<1> QED
  BY <1>1, <1>2, <1>3, <1>4, <1>5, <1>6

\* Nobody opens a deal.
LEMMA EntrySettled ==
  ASSUME Shape, Settled, NEW c \in Calls,
         \/ EntryCounts(c) \/ EntryReadsStatus(c) \/ CreateDeal(c) \/ EntryFindsDeal(c)
         \/ EntrySends(c)
  PROVE  FALSE
<1>1. \E a : Runs(c, "openNewDeal", a)
  BY DEF EntryCounts, EntryReadsStatus, CreateDeal, EntryFindsDeal, EntrySends
<1> QED
  BY <1>1, TopPlain DEF Sound, Plain

LEMMA CallSettled ==
  ASSUME Shape, Settled, NEW c \in Calls, CallNext(c)
  PROVE  Settled'
BY StartSettled, PlaceSettled, LevelSettled, CloseDealSettled, RequestSettled, ReleaseSettled,
   StopSettled, EntrySettled DEF CallNext

LEMMA SettledStill ==
  ASSUME Shape, Shape', Settled, Quietly, UNCHANGED <<bot, stack>>
  PROVE  Settled'
<1>1. Lasting
  BY QuietlyLasting
<1>2. ASSUME NEW x \in Calls, NEW q \in 1..Len(stack[x])
      PROVE  /\ Sound(FrameNo(x, q)) /\ FrameNo(x, q)' = FrameNo(x, q)
             /\ Closing(FrameNo(x, q)) => FrameNo(x, q).deal \in Deals
             /\ Booking(FrameNo(x, q)) => Closing(FrameNo(x, q))
  <2>1. FrameNo(x, q) \in Frames /\ Sound(FrameNo(x, q))
    BY FrameTypes DEF Shape, Settled
  <2> QED
    BY <2>1 DEF FrameNo, Frames, Closing, Booking
<1>3. \A x \in Calls : \A q \in 1..Len(stack'[x]) : Sound(FrameNo(x, q))'
  BY <1>1, <1>2 DEF Sound, Lasting, Plain, Closing, Booking
<1>4. Alone'
  BY <1>2 DEF Settled, Alone, Closing
<1>5. SettledDeals' /\ (bot'.gone => \A e \in Deals : ~(deal'[e].live /\ deal'[e].status = "open"))
  BY <1>1 DEF Settled, SettledDeals, Lasting
<1> QED
  BY <1>3, <1>4, <1>5 DEF Settled


LEMMA CallAsks ==
  ASSUME NEW c, CallNext(c)
  PROVE  UNCHANGED <<world, asked>>
<1>1. (StartBegins(c) \/ StartOpens(c) \/ SellRemainder(c))
        => UNCHANGED <<world, asked>>
  BY DEF StartBegins, StartOpens, SellRemainder
<1>2. (PlaceBegins(c) \/ PlaceLadder(c) \/ PlaceCancels(c) \/ PlaceSends(c))
        => UNCHANGED <<world, asked>>
  BY DEF PlaceBegins, PlaceLadder, PlaceCancels, PlaceSends
<1>3. (LevelBooks(c) \/ LevelSizes(c) \/ LevelEnds(c) \/ LevelSells(c))
        => UNCHANGED <<world, asked>>
  BY DEF LevelBooks, LevelSizes, LevelEnds, LevelSells
<1>4. (CloseDealBegins(c) \/ CloseDealSettles(c) \/ CloseDealMeasures(c) \/ CloseDealCloses(c)
       \/ CloseDealBooks(c) \/ CloseDealEnds(c)) => UNCHANGED <<world, asked>>
  BY DEF CloseDealBegins, CloseDealSettles, CloseDealMeasures, CloseDealCloses,
         CloseDealBooks, CloseDealEnds
<1>5. (CloseBegins(c) \/ CloseCancels(c) \/ CloseReleased(c) \/ CloseStopped(c)
       \/ CloseSweeps(c)) => UNCHANGED <<world, asked>>
  BY DEF CloseBegins, CloseCancels, CloseReleased, CloseStopped, CloseSweeps
<1>6. (CloseGivesWay(c) \/ CloseExecutes(c) \/ CloseWithoutOrder(c) \/ CloseRestores(c))
        => UNCHANGED <<world, asked>>
  BY DEF CloseGivesWay, CloseExecutes, CloseWithoutOrder, CloseRestores
<1>7. (ReleaseBegins(c) \/ ReleaseSweeps(c) \/ ReleaseChecks(c) \/ ReleaseEnds(c))
        => UNCHANGED <<world, asked>>
  BY DEF ReleaseBegins, ReleaseSweeps, ReleaseChecks, ReleaseEnds
<1>8. (StopArms(c) \/ StopCancels(c) \/ StopChooses(c) \/ StopCloses(c) \/ StopDrops(c)
       \/ StopEnds(c)) => UNCHANGED <<world, asked>>
  BY DEF StopArms, StopCancels, StopChooses, StopCloses, StopDrops, StopEnds
<1>9. (EntryCounts(c) \/ EntryReadsStatus(c) \/ CreateDeal(c) \/ EntryFindsDeal(c)
       \/ EntrySends(c)) => UNCHANGED <<world, asked>>
  BY DEF EntryCounts, EntryReadsStatus, CreateDeal, EntryFindsDeal, EntrySends
<1> QED
  BY <1>1, <1>2, <1>3, <1>4, <1>5, <1>6, <1>7, <1>8, <1>9 DEF CallNext

\* What was asked stays asked.
LEMMA CalmBefore ==
  ASSUME Next, Calm'
  PROVE  Calm
<1>1. world' = world /\ asked \subseteq asked'
  <2>1. ASSUME NEW d, BaseFills(d) \/ TpFills(d) \/ \E s \in SafetyOrders : SafetyOrderFills(d, s)
        PROVE  UNCHANGED <<world, asked>>
    BY <2>1 DEF BaseFills, TpFills, SafetyOrderFills
  <2>2. ASSUME NEW c, Resume(c)
        PROVE  UNCHANGED <<world, asked>>
    BY <2>2, CallAsks DEF Resume, Report
  <2>3. ASSUME Asks
        PROVE  world' = world /\ asked \subseteq asked'
    BY <2>3 DEF Asks, AskStop, AskClose, AskEntry, Ask
  <2> QED
    BY <2>1, <2>2, <2>3 DEF Next
<1> QED
  BY <1>1 DEF Calm, CancelAsked, SomeStart

LEMMA AskSettled ==
  ASSUME Shape, Settled, Asks, Calm'
  PROVE  Settled'
<1>1. PICK how \in Hows : \/ AskStop(how)
                          \/ \E d \in Deals : AskClose(d, how) \/ AskEntry(d)
  BY DEF Asks
<1>2. how \in Ways
  BY DEF Hows, Ways
<1>3. ASSUME NEW c \in Calls, NEW f \in Frames, f.at = "begin", f.how = how,
             f.op \in {"stop", "closeDealById"}, Ask(c, how, f)
      PROVE  Settled'
  <2>1. Shape' /\ Moves(c, 1, {f}, {}) /\ Quietly /\ UNCHANGED bot
        /\ asked' = asked \cup {<<c, how>>}
    BY <1>3, AskDoes
  <2>2. how # "cancel"
    <3>1. \A r \in asked' : r[2] # "cancel"
      BY DEF Calm, CancelAsked
    <3>2. <<c, how>> \in asked' /\ <<c, how>>[2] = how
      BY <2>1
    <3> QED
      BY <3>1, <3>2
  <2>3. Asides({f}) /\ Asides({})
    BY <1>3, <2>2 DEF Asides, Plain, Closing
  <2> QED
    BY <2>1, <2>3, QuietlyLasting, SettledAside
<1>4. CASE AskStop(how)
  <2> DEFINE f == StopFrame(how)
             c == <<"stop", 0>>
  <2>1. Ask(c, how, f) /\ c \in Calls
    BY <1>4 DEF AskStop, Calls, Direct
  <2>2. f \in Frames /\ f.at = "begin" /\ f.op = "stop" /\ f.how = how
    BY <1>2, StopType
  <2> HIDE DEF f, c
  <2> QED
    BY <1>3, <2>1, <2>2
<1>5. ASSUME NEW d \in Deals, AskClose(d, how)
      PROVE  Settled'
  <2> DEFINE f == Frame("closeDealById", DealKey(d), d, how)
             c == <<"user", d>>
  <2>1. Ask(c, how, f) /\ c \in Calls
    BY <1>5 DEF AskClose, Calls, Direct
  <2>2. f \in Frames /\ f.at = "begin" /\ f.op = "closeDealById" /\ f.how = how
    BY <1>2, RequestType
  <2> HIDE DEF f, c
  <2> QED
    BY <1>3, <2>1, <2>2
<1>6. ASSUME NEW d \in Deals, AskEntry(d)
      PROVE  FALSE
  <2>1. <<<<"entry", d>>, "entry">> \in asked'
    BY <1>6 DEF AskEntry, Ask
  <2> QED
    BY <2>1 DEF Calm, SomeStart
<1> QED
  BY <1>1, <1>4, <1>5, <1>6

LEMMA NextSteady ==
  ASSUME Shape, Shape', Steady, Next
  PROVE  Steady'
<1> SUFFICES ASSUME Calm' PROVE Settled'
  BY DEF Steady
<1>1. Settled
  BY CalmBefore DEF Steady
<1>2. ASSUME NEW d \in Deals,
             BaseFills(d) \/ TpFills(d) \/ \E s \in SafetyOrders : SafetyOrderFills(d, s)
      PROVE  Settled'
  <2>1. UNCHANGED <<bot, stack>>
    BY <1>2 DEF BaseFills, TpFills, SafetyOrderFills
  <2>2. Quietly
    BY <1>2, BaseFillsDoes, TpFillsDoes, SafetyOrderFillsDoes
  <2> QED
    BY <1>1, <2>1, <2>2, SettledStill
<1>3. ASSUME NEW c \in Calls, Report(c)
      PROVE  Settled'
  <2>1. UNCHANGED bot
    BY <1>3 DEF Report
  <2> QED
    BY <1>1, <1>3, <2>1, NewAsides, ReportDoes, QuietlyLasting, SettledAside
<1>4. ASSUME NEW c \in Calls, Resume(c)
      PROVE  Settled'
  BY <1>1, <1>3, <1>4, CallSettled DEF Resume
<1> QED
  BY <1>1, <1>2, <1>4, AskSettled DEF Next

LEMMA InitSteady == Init => Steady
<1> SUFFICES ASSUME Init, Calm PROVE Settled
  BY DEF Steady
<1>1. /\ world \in Worlds /\ deal = [d \in Deals |-> NewDeal(world.deals[d])]
      /\ ~bot.gone /\ stack = [c \in Calls |-> << >>]
  BY DEF Init
<1>2. \A d \in Deals : deal[d].status = world.deals[d] /\ deal[d].booked = 0
  BY <1>1 DEF NewDeal
<1>3. \A d \in Deals : world.deals[d] \in {"none", "open"}
  BY <1>1, WorldsAssumption DEF Deals, Calm, SomeStart
<1>4. SettledDeals
  BY <1>2, <1>3 DEF SettledDeals
<1>5. \A x \in Calls : 1..Len(stack[x]) = {}
  BY <1>1
<1> QED
  BY <1>1, <1>4, <1>5 DEF Settled, Alone

LEMMA SteadyHolds == Spec => []Steady
<1>1. Init => Steady
  BY InitSteady
<1>2. Shape /\ Shape' /\ Steady /\ [Next]_dealVars => Steady'
  <2>1. CASE Next
    BY <2>1, NextSteady
  <2>2. CASE UNCHANGED dealVars
    <3>1. ASSUME Shape, Shape', Settled PROVE Settled'
      <4>1. Quietly /\ UNCHANGED <<bot, stack>>
        BY <2>2, <3>1, DealsKept DEF dealVars
      <4> QED
        BY <3>1, <4>1, SettledStill
    <3>2. Calm' => Calm
      BY <2>2 DEF dealVars, Calm, CancelAsked, SomeStart
    <3> QED
      BY <3>1, <3>2 DEF Steady
  <2> QED
    BY <2>1, <2>2
<1> QED
  BY <1>1, <1>2, ShapeHolds, PTL DEF Spec

(***************************************************************************)
(* A bot whose deals are all past their start books the profit of each     *)
(* deal once, whatever fills, closes and stops it in what order, unless    *)
(* somebody asks for a cancel: the queue of closeDeal lets one close of    *)
(* the deal past the look at its status.                                   *)
(***************************************************************************)
THEOREM BookedOnceHolds == Spec => [](~SomeStart => BookedOnce)
<1>1. Shape /\ Steady => (~SomeStart => BookedOnce)
  BY DEF Steady, Calm, Settled, SettledDeals, BookedOnce, MayCancel
<1> QED
  BY <1>1, ShapeHolds, SteadyHolds, PTL

=============================================================================
