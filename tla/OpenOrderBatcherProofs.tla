----------------------- MODULE OpenOrderBatcherProofs -----------------------
(***************************************************************************)
(* Theorems about bursts, for any number of orders and bursts, any size of *)
(* chunks, any number of re-sends and any worlds.                          *)
(***************************************************************************)
EXTENDS OpenOrderBatcher, FiniteSetTheorems, TLAPS

ClientTypes ==
    /\ stage \in [Orders -> Stages]
    /\ tries \in [Orders -> 0..Resends]
    /\ live \in [Orders -> Nat]
    /\ answer \in [Orders -> Answers]
    /\ latched \in BOOLEAN

\* An order that waits to be sent is not at the venue, no order is there twice,
\* and a verdict is given once, with the last word of the venue.
Sent ==
    \A o \in Orders :
        /\ live[o] \in {0, 1}
        /\ stage[o] \in {"none", "queued", "batch", "send"} => live[o] = 0
        /\ answer[o] = "placed" => live[o] = 1 /\ stage[o] = "answered"
        /\ answer[o] = "refused" => live[o] = 0 /\ stage[o] = "answered"

\* What has not arrived, or is parked in a burst that has not left, is not sent.
Unsent ==
    \A o \in Orders :
        (body[o] \in {"idle", "preparing"} \/ (body[o] = "parked" /\ ~flushed[BurstOf[o]]))
            => stage[o] = "none"

\* The bodies of a burst begin with it and it ends with them.
Spans ==
    \A b \in Bursts :
        /\ burst[b] = "idle" => ~flushed[b] /\ \A o \in OrdersOf(b) : body[o] = "idle"
        /\ burst[b] = "open" => \A o \in OrdersOf(b) : body[o] # "idle"
        /\ burst[b] = "over" => \A o \in OrdersOf(b) : body[o] = "done"

\* A burst nobody disturbed has the bot's place, leaves when all are accounted
\* for, and lets one order go on at a time, those before it being through.
Orderly ==
    \A b \in Bursts \ disturbed :
        /\ burst[b] = "open" => installed = b
        /\ \A o \in OrdersOf(b) :
            /\ body[o] \notin {"alone", "aloneWorking"}
            /\ body[o] = "preparing" => ~flushed[b]
            /\ body[o] = "working" =>
                /\ flushed[b] /\ awaited[b] = o
                /\ \A p \in OrdersOf(b) : /\ p < o => body[p] = "done"
                                          /\ body[p] = "parked" => stage[p] = "answered"

IInv == TypeOK /\ Sent /\ Unsent /\ Spans /\ Orderly

-----------------------------------------------------------------------------
(* The client. *)

LEMMA OneOrder ==
    ASSUME ClientTypes, Sent, NEW o \in Orders, OpenOrder(o)
    PROVE  /\ ClientTypes' /\ Sent'
           /\ stage[o] \in {"send", "ask"} /\ stage'[o] # "none"
           /\ \A p \in Orders : p # o => stage'[p] = stage[p]
  <1> USE ResendsAssumption DEF ClientTypes, Sent, Stages, Answers
  <1>1. CASE Placed(o)
    BY <1>1 DEF Placed, Answered
  <1>2. CASE Refused(o)
    BY <1>2 DEF Refused, Answered
  <1>3. CASE Lost(o)
    BY <1>3 DEF Lost, Answered, TriesLeft
  <1>4. CASE Resolved(o)
    BY <1>4 DEF Resolved, Answered
  <1>5. QED
    BY <1>1, <1>2, <1>3, <1>4 DEF OpenOrder

LEMMA SeveralOrders ==
    ASSUME ClientTypes, Sent, NEW S \in SUBSET Orders, OpenOrdersBatch(S),
           \A o \in S : stage[o] = "batch"
    PROVE  /\ ClientTypes' /\ Sent'
           /\ \A p \in S : stage'[p] # "none"
           /\ \A p \in Orders \ S : stage'[p] = stage[p]
  <1> USE DEF ClientTypes, Sent, Stages, Answers
  <1>1. CASE BatchAnswers(S)
    BY <1>1 DEF BatchAnswers, Land, Become
  <1>2. CASE BatchDeclined(S)
    BY <1>2 DEF BatchDeclined, Become
  <1>3. CASE BatchLost(S)
    BY <1>3 DEF BatchLost, Land, Become, AskedFirst
  <1>4. QED
    BY <1>1, <1>2, <1>3 DEF OpenOrdersBatch

-----------------------------------------------------------------------------
(* The burst, by what its steps may change. *)

Away(o) == body[o] \notin {"idle", "preparing"} /\ (body[o] = "parked" => flushed[BurstOf[o]])

\* Orders that are on their way stay the same to the bodies: nobody but the
\* client moves, and what was answered stays answered.
LEMMA OnTheWay ==
    ASSUME IInv, ClientTypes', Sent', UNCHANGED <<world, batcherVars>>,
           NEW S \in SUBSET Orders,
           \A o \in S : /\ stage[o] # "none" \/ Away(o)
                        /\ stage[o] = "answered" => stage'[o] = "answered",
           \A o \in Orders \ S : stage'[o] = stage[o]
    PROVE  IInv'
  <1>1. TypeOK'
    BY DEF IInv, TypeOK, ClientTypes, batcherVars
  <1>2. Unsent'
    BY DEF IInv, Unsent, Away, batcherVars
  <1>3. Spans'
    BY DEF IInv, Spans, OrdersOf, batcherVars
  <1>4. Orderly'
    BY DEF IInv, Orderly, OrdersOf, batcherVars
  <1>5. QED
    BY <1>1, <1>2, <1>3, <1>4 DEF IInv

\* A body that moves and, being the last its burst waits for, sends it off.
LEMMA MayFlush ==
    ASSUME IInv, NEW b \in Bursts, FlushWhenAccounted(b), UNCHANGED burst,
           NEW o \in OrdersOf(b),
           body' \in [Orders -> {"idle", "preparing", "parked", "alone", "working",
                                 "aloneWorking", "done"}],
           body'[o] \in {"parked", "done"}, body'[o] = "parked" => body[o] = "preparing",
           \A p \in Orders \ {o} : body'[p] = body[p]
    PROVE  /\ flushed' \in [Bursts -> BOOLEAN] /\ stage' \in [Orders -> Stages]
           /\ \A p \in Orders :
                \/ stage'[p] = stage[p]
                \/ /\ stage[p] = "none" /\ stage'[p] = "queued" /\ body'[p] = "parked"
                   /\ p \in OrdersOf(b) /\ ~flushed[b] /\ flushed'[b]
           /\ \A c \in Bursts \ {b} : flushed'[c] = flushed[c]
           /\ flushed[b] => flushed'[b]
           /\ flushed'[b] /\ ~flushed[b] =>
                  \A p \in OrdersOf(b) : body'[p] # "preparing"
  <1> DEFINE off == ~flushed[b] /\ Pending(b, body') = {}
  <1>1. TypeOK /\ Unsent
    BY DEF IInv
  <1>2. CASE ~off
    BY <1>1, <1>2 DEF TypeOK, FlushWhenAccounted, Unflushed
  <1>3. CASE off
    <2>1. Flush(b, body')
      BY <1>3 DEF FlushWhenAccounted
    <2>2. \A p \in OrdersOf(b) : body'[p] # "preparing"
      BY <1>3 DEF Pending, In, Unaccounted
    <2>3. \A p \in OrdersOf(b) : body'[p] = "parked" => stage[p] = "none"
      BY <1>1, <1>3 DEF Unsent, OrdersOf
    <2>4. QED
      BY <1>1, <1>3, <2>1, <2>2, <2>3 DEF Flush, In, TypeOK, Stages, OrdersOf
  <1>4. QED
    BY <1>2, <1>3

-----------------------------------------------------------------------------
(* The steps. *)

LEMMA InitInv == Init => IInv
  <1> SUFFICES ASSUME Init PROVE IInv
    OBVIOUS
  <1> USE DEF Init, ClientInit
  <1>1. TypeOK
    <2>1. 0 \in 0..Resends /\ 0 \in 0..N /\ 0 \in Nat
      BY ResendsAssumption, NAssumption
    <2>2. awaited \in [Bursts -> 0..N] /\ tries \in [Orders -> 0..Resends] /\ live \in [Orders -> Nat]
      BY <2>1
    <2>3. latched \in BOOLEAN /\ flushed \in [Bursts -> BOOLEAN]
      OBVIOUS
    <2>4. QED
      BY <2>2, <2>3 DEF TypeOK, Stages, Answers
  <1>2. Sent /\ Unsent
    BY DEF Sent, Unsent
  <1>3. Spans /\ Orderly
    BY DEF Spans, Orderly, OrdersOf
  <1>4. QED
    BY <1>1, <1>2, <1>3 DEF IInv

LEMMA InstallInv ==
    ASSUME IInv, NEW b \in Bursts, Install(b)
    PROVE  IInv'
  <1> USE DEF Install, clientVars
  <1>1. TypeOK'
    BY DEF IInv, TypeOK
  <1>2. Sent'
    BY DEF IInv, Sent
  <1>3. \A o \in OrdersOf(b) : body[o] = "idle"
    BY DEF IInv, Spans
  <1>4. Unsent'
    BY <1>3 DEF IInv, TypeOK, Unsent, OrdersOf
  <1>5. Spans'
    BY DEF IInv, TypeOK, Spans, OrdersOf
  <1>6. Orderly'
    <2> SUFFICES ASSUME NEW c \in (Bursts \ disturbed)'
                 PROVE  Orderly!(c)'
      BY DEF Orderly
    <2>1. CASE c = b
      <3>1. ~flushed'[b]
        BY DEF IInv, Spans
      <3>2. QED
        BY <2>1, <3>1 DEF IInv, TypeOK, OrdersOf
    <2>2. CASE c # b
      <3>1. burst[c] # "open"
        BY <2>2, NoneAssumption DEF IInv, Orderly, TypeOK
      <3>2. burst'[c] # "open" /\ \A o \in OrdersOf(c) : body'[o] = body[o]
        BY <2>2, <3>1 DEF IInv, TypeOK, OrdersOf
      <3>3. \A o \in OrdersOf(c) : body[o] \in {"idle", "done"}
        BY <3>1 DEF IInv, Spans, TypeOK
      <3>4. QED
        BY <3>2, <3>3 DEF OrdersOf
    <2>3. QED
      BY <2>1, <2>2
  <1>7. QED
    BY <1>1, <1>2, <1>4, <1>5, <1>6 DEF IInv

LEMMA RemoveInv ==
    ASSUME IInv, NEW b \in Bursts, Remove(b)
    PROVE  IInv'
  <1> USE DEF Remove, clientVars
  <1>1. TypeOK'
    BY DEF IInv, TypeOK
  <1>2. Sent' /\ Unsent'
    BY DEF IInv, Sent, Unsent
  <1>3. Spans'
    BY DEF IInv, TypeOK, Spans, OrdersOf
  <1>4. Orderly'
    BY DEF IInv, TypeOK, Orderly, OrdersOf
  <1>5. QED
    BY <1>1, <1>2, <1>3, <1>4 DEF IInv

\* A body of burst b ends or parks, and may be the one the burst waits for.
LEMMA BodyInv ==
    ASSUME IInv, NEW o \in Orders, Arrive(o) \/ Settle(o)
    PROVE  IInv'
  <1> DEFINE b == BurstOf[o]
             States == {"idle", "preparing", "parked", "alone", "working",
                        "aloneWorking", "done"}
  <1>1. b \in Bursts /\ o \in OrdersOf(b)
    BY BurstAssumption DEF OrdersOf
  <1>2. /\ body[o] \in {"preparing", "working", "aloneWorking"}
        /\ body'[o] \in {"parked", "done"}
        /\ body'[o] = "parked" => body[o] = "preparing" /\ ~flushed[b]
        /\ body' \in [Orders -> States]
        /\ \A p \in Orders \ {o} : body'[p] = body[p]
    BY DEF IInv, TypeOK, Arrive, Settle, Parks
  <1>3. /\ FlushWhenAccounted(b)
        /\ UNCHANGED <<world, tries, live, answer, latched, installed, burst, disturbed>>
        /\ awaited' \in [Bursts -> 0..N]
        /\ \A c \in Bursts : awaited'[c] = awaited[c] \/ (c = b /\ awaited[c] = o)
    <2>1. CASE Arrive(o)
      BY <2>1 DEF Arrive, IInv, TypeOK
    <2>2. CASE Settle(o)
      BY <2>2, NAssumption, <1>1 DEF Settle, IInv, TypeOK
    <2>3. QED
      BY <2>1, <2>2
  <1>4. /\ flushed' \in [Bursts -> BOOLEAN] /\ stage' \in [Orders -> Stages]
        /\ \A p \in Orders :
             \/ stage'[p] = stage[p]
             \/ /\ stage[p] = "none" /\ stage'[p] = "queued" /\ body'[p] = "parked"
                /\ p \in OrdersOf(b) /\ ~flushed[b] /\ flushed'[b]
        /\ \A c \in Bursts \ {b} : flushed'[c] = flushed[c]
        /\ flushed[b] => flushed'[b]
        /\ flushed'[b] /\ ~flushed[b] => \A p \in OrdersOf(b) : body'[p] # "preparing"
    BY <1>1, <1>2, <1>3, MayFlush
  <1>5. TypeOK'
    BY <1>2, <1>3, <1>4 DEF IInv, TypeOK
  <1>6. Sent'
    BY <1>3, <1>4 DEF IInv, Sent
  <1>7. Unsent'
    BY <1>1, <1>2, <1>4, BurstAssumption DEF IInv, Unsent, OrdersOf, TypeOK
  <1>8. burst[b] = "open"
    BY <1>1, <1>2 DEF IInv, Spans, TypeOK
  <1>9. Spans'
    BY <1>2, <1>3, <1>4, <1>8 DEF IInv, Spans, OrdersOf
  <1>10. Orderly'
    <2> SUFFICES ASSUME NEW c \in Bursts \ disturbed
                 PROVE  Orderly!(c)'
      BY <1>3 DEF Orderly
    <2>1. CASE c # b
      <3>1. \A p \in OrdersOf(c) : body'[p] = body[p] /\ stage'[p] = stage[p]
        BY <1>1, <1>2, <1>4, <2>1 DEF OrdersOf
      <3>2. QED
        BY <1>3, <1>4, <2>1, <3>1 DEF IInv, Orderly, OrdersOf
    <2>2. CASE c = b
      <3>1. /\ installed' = installed /\ burst' = burst
            /\ burst[b] = "open" => installed = b
            /\ \A p \in OrdersOf(b) :
                 /\ body[p] \notin {"alone", "aloneWorking"}
                 /\ body[p] = "preparing" => ~flushed[b]
                 /\ body[p] = "working" =>
                      /\ flushed[b] /\ awaited[b] = p
                      /\ \A q \in OrdersOf(b) : /\ q < p => body[q] = "done"
                                                /\ body[q] = "parked" => stage[q] = "answered"
        BY <1>3, <2>2 DEF IInv, Orderly
      <3>2. ASSUME NEW p \in OrdersOf(b)
            PROVE  /\ body'[p] \notin {"alone", "aloneWorking"}
                   /\ body'[p] = "preparing" => ~flushed'[b]
        BY <1>2, <1>4, <3>1 DEF OrdersOf
      <3>3. ASSUME NEW p \in OrdersOf(b), body'[p] = "working"
            PROVE  /\ flushed'[b] /\ awaited'[b] = p
                   /\ \A q \in OrdersOf(b) : /\ q < p => body'[q] = "done"
                                             /\ body'[q] = "parked" => stage'[q] = "answered"
        <4>1. p # o /\ body[p] = "working"
          BY <1>2, <3>3 DEF OrdersOf
        <4>2. body'[o] = "done"
          BY <1>2, <3>1, <4>1
        <4>3. QED
          BY <1>1, <1>2, <1>3, <1>4, <3>1, <4>1, <4>2 DEF OrdersOf
      <3>4. QED
        BY <2>2, <3>1, <3>2, <3>3 DEF OrdersOf
    <2>3. QED
      BY <2>1, <2>2
  <1>11. QED
    BY <1>5, <1>6, <1>7, <1>9, <1>10 DEF IInv

LEMMA ArriveAloneInv ==
    ASSUME IInv, NEW o \in Orders, ArriveAlone(o)
    PROVE  IInv'
  <1> DEFINE b == BurstOf[o]
  <1> USE DEF ArriveAlone
  <1>1. b \in Bursts /\ o \in OrdersOf(b)
    BY BurstAssumption DEF OrdersOf
  <1>2. TypeOK'
    BY DEF IInv, TypeOK, Stages
  <1>3. stage[o] = "none"
    BY DEF IInv, Unsent
  <1>4. Sent'
    BY <1>3 DEF IInv, Sent, TypeOK
  <1>5. Unsent'
    BY DEF IInv, Unsent, TypeOK
  <1>6. burst[b] = "open"
    BY <1>1 DEF IInv, Spans, TypeOK
  <1>7. Spans'
    BY <1>1, <1>6 DEF IInv, Spans, OrdersOf, TypeOK
  <1>8. b \in disturbed
    BY <1>1, <1>6 DEF IInv, Orderly, Parks
  <1>9. Orderly'
    BY <1>1, <1>8 DEF IInv, Orderly, OrdersOf, TypeOK
  <1>10. QED
    BY <1>2, <1>4, <1>5, <1>7, <1>9 DEF IInv

LEMMA AnsweredAloneInv ==
    ASSUME IInv, NEW o \in Orders, AnsweredAlone(o)
    PROVE  IInv'
  <1> DEFINE b == BurstOf[o]
  <1> USE DEF AnsweredAlone, clientVars
  <1>1. b \in Bursts /\ o \in OrdersOf(b)
    BY BurstAssumption DEF OrdersOf
  <1>2. TypeOK'
    BY DEF IInv, TypeOK
  <1>3. Sent' /\ Unsent'
    BY DEF IInv, Sent, Unsent, TypeOK
  <1>4. Spans'
    BY <1>1 DEF IInv, Spans, OrdersOf, TypeOK
  <1>5. b \in disturbed
    BY <1>1 DEF IInv, Orderly
  <1>6. Orderly'
    BY <1>1, <1>5 DEF IInv, Orderly, OrdersOf, TypeOK
  <1>7. QED
    BY <1>2, <1>3, <1>4, <1>6 DEF IInv

\* The first of a set of orders has none of them before it.
LEMMA FirstOfAll ==
    ASSUME NEW S \in SUBSET Orders, NEW o \in First(S, 1), NEW p \in S, p < o
    PROVE  FALSE
  <1> DEFINE before == {q \in S : q < o}
  <1>1. IsFiniteSet(before)
    <2>1. IsFiniteSet(Orders)
      BY NAssumption, FS_Interval DEF Orders
    <2>2. QED
      BY <2>1, FS_Subset
  <1>2. Cardinality(before) \in Nat /\ Cardinality(before) < 1
    BY <1>1, FS_CardinalityType DEF First
  <1>3. before = {}
    BY <1>1, <1>2, FS_EmptySet
  <1>4. QED
    BY <1>3

LEMMA DeliverInv ==
    ASSUME IInv, NEW o \in Orders, Deliver(o)
    PROVE  IInv'
  <1> DEFINE b == BurstOf[o]
  <1> USE DEF Deliver, clientVars
  <1>1. b \in Bursts /\ o \in OrdersOf(b)
    BY BurstAssumption DEF OrdersOf
  <1>2. body[o] = "parked" /\ stage[o] = "answered" /\ o # 0 /\ o \in 0..N
    BY NAssumption DEF First, Parked, In, Orders
  <1>3. TypeOK'
    BY <1>2 DEF IInv, TypeOK
  <1>4. Sent'
    BY DEF IInv, Sent
  <1>5. Unsent'
    BY DEF IInv, Unsent, TypeOK
  <1>6. burst[b] = "open" /\ flushed[b]
    BY <1>1, <1>2 DEF IInv, Spans, Unsent, TypeOK
  <1>7. Spans'
    BY <1>1, <1>6 DEF IInv, Spans, OrdersOf, TypeOK
  <1>8. ASSUME NEW p \in OrdersOf(b), body[p] = "parked"
        PROVE  stage[p] = "answered" /\ ~(p < o)
    <2>1. stage[p] = "answered"
      BY <1>8 DEF Parked, In, IInv, TypeOK, OrdersOf
    <2>2. p \in Parked(b, {"answered"})
      BY <1>8, <2>1 DEF Parked, In
    <2>3. Parked(b, {"answered"}) \in SUBSET Orders
      BY DEF Parked, In, OrdersOf
    <2>4. o \in First(Parked(b, {"answered"}), 1)
      OBVIOUS
    <2>5. QED
      BY ONLY <2>1, <2>2, <2>3, <2>4, FirstOfAll
  <1>9. Orderly'
    <2> SUFFICES ASSUME NEW c \in Bursts \ disturbed
                 PROVE  Orderly!(c)'
      BY DEF Orderly
    <2>1. CASE c # b
      BY <1>1, <2>1 DEF IInv, Orderly, OrdersOf, TypeOK
    <2>2. CASE c = b
      <3>1. ASSUME NEW p \in OrdersOf(b), p # o
            PROVE  body[p] \in {"parked", "done"} /\ (p < o => body[p] = "done")
        <4>1. body[p] # "working"
          BY <1>1, <2>2, <3>1, NAssumption DEF IInv, Orderly, LastSettled, Orders, OrdersOf
        <4>2. body[p] \notin {"idle", "preparing", "alone", "aloneWorking"}
          BY <1>1, <1>6, <2>2 DEF IInv, Orderly, Spans
        <4>3. QED
          BY <1>8, <4>1, <4>2 DEF IInv, TypeOK, OrdersOf
      <3>2. /\ body'[o] = "working" /\ awaited'[b] = o
            /\ \A p \in OrdersOf(b) : p # o => body'[p] = body[p]
            /\ ~(o < o)
        BY <1>1, NAssumption DEF IInv, TypeOK, OrdersOf, Orders
      <3>3. QED
        BY <1>1, <1>6, <1>8, <2>2, <3>1, <3>2 DEF IInv, Orderly, OrdersOf
    <2>3. QED
      BY <2>1, <2>2
  <1>10. QED
    BY <1>3, <1>4, <1>5, <1>7, <1>9 DEF IInv

\* What a timer fires in is disturbed from then on.
LEMMA TimerInv ==
    ASSUME IInv, NEW b \in Bursts, FlushTimer(b) \/ GuardTimer(b)
    PROVE  IInv'
  <1>1. CASE GuardTimer(b)
    <2> USE <1>1 DEF GuardTimer, clientVars
    <2>1. TypeOK'
      BY NAssumption DEF IInv, TypeOK
    <2>2. Sent' /\ Unsent' /\ Spans'
      BY DEF IInv, Sent, Unsent, Spans, OrdersOf
    <2>3. Orderly'
      BY DEF IInv, TypeOK, Orderly, OrdersOf
    <2>4. QED
      BY <2>1, <2>2, <2>3 DEF IInv
  <1>2. CASE FlushTimer(b)
    <2> USE <1>2 DEF FlushTimer, Flush, In
    <2>1. TypeOK'
      BY DEF IInv, TypeOK, Stages
    <2>2. \A p \in Orders :
             \/ stage'[p] = stage[p]
             \/ stage[p] = "none" /\ stage'[p] = "queued" /\ p \in OrdersOf(b) /\ body[p] = "parked"
      BY DEF IInv, TypeOK, Unsent, OrdersOf
    <2>3. Sent'
      BY <2>2 DEF IInv, Sent
    <2>4. Unsent'
      BY <2>2, BurstAssumption DEF IInv, Unsent, TypeOK, OrdersOf
    <2>5. Spans'
      BY DEF IInv, Spans, TypeOK, OrdersOf
    <2>6. Orderly'
      BY <2>2 DEF IInv, TypeOK, Orderly, OrdersOf
    <2>7. QED
      BY <2>1, <2>3, <2>4, <2>5, <2>6 DEF IInv
  <1>3. QED
    BY <1>1, <1>2

LEMMA SendChunkInv ==
    ASSUME IInv, NEW b \in Bursts, SendChunk(b)
    PROVE  IInv'
  <1> DEFINE chunk == First(Parked(b, {"queued"}), MaxChunk)
  <1>1. chunk \in SUBSET Orders /\ \A o \in chunk : stage[o] = "queued"
    BY DEF First, Parked, In, OrdersOf
  <1>2. Opens(chunk) \in {"send", "batch"}
    BY DEF Opens
  <1>3. /\ stage' = [o \in Orders |-> IF o \in chunk THEN Opens(chunk) ELSE stage[o]]
        /\ UNCHANGED <<world, tries, live, answer, latched, batcherVars>>
    BY DEF SendChunk, Become
  <1> HIDE DEF chunk
  <1>4. ClientTypes'
    BY <1>2, <1>3 DEF IInv, TypeOK, ClientTypes, Stages
  <1>5. Sent'
    BY <1>1, <1>2, <1>3 DEF IInv, Sent
  <1>6. QED
    BY <1>1, <1>3, <1>4, <1>5, OnTheWay

LEMMA BatchInv ==
    ASSUME IInv, NEW b \in Bursts, Batch(b)
    PROVE  IInv'
  <1> DEFINE S == Parked(b, {"batch"})
  <1>1. S \in SUBSET Orders /\ \A o \in S : stage[o] = "batch"
    BY DEF Parked, In, OrdersOf
  <1>2. OpenOrdersBatch(S) /\ UNCHANGED <<world, batcherVars>>
    BY DEF Batch
  <1>3. ClientTypes /\ Sent
    BY DEF IInv, TypeOK, ClientTypes
  <1> HIDE DEF S
  <1>4. ClientTypes' /\ Sent' /\ \A p \in Orders \ S : stage'[p] = stage[p]
    BY <1>1, <1>2, <1>3, SeveralOrders
  <1>5. QED
    BY <1>1, <1>2, <1>4, OnTheWay

LEMMA PlaceOneInv ==
    ASSUME IInv, NEW o \in Orders, PlaceOne(o)
    PROVE  IInv'
  <1>1. OpenOrder(o) /\ UNCHANGED <<world, batcherVars>>
    BY DEF PlaceOne
  <1>2. ClientTypes /\ Sent
    BY DEF IInv, TypeOK, ClientTypes
  <1>3. /\ ClientTypes' /\ Sent'
        /\ stage[o] \in {"send", "ask"}
        /\ \A p \in Orders : p # o => stage'[p] = stage[p]
    BY <1>1, <1>2, OneOrder
  <1> DEFINE S == {o}
  <1>4. /\ S \in SUBSET Orders
        /\ \A p \in S : stage[p] # "none" /\ stage[p] # "answered"
        /\ \A p \in Orders \ S : stage'[p] = stage[p]
    BY <1>3
  <1> HIDE DEF S
  <1>5. QED
    BY <1>1, <1>3, <1>4, OnTheWay

LEMMA ThrowsInv ==
    ASSUME IInv, NEW b \in Bursts, Throws(b)
    PROVE  IInv'
  <1> DEFINE left == {o \in Parked(b, Stages) : \E p \in InFlight(b) : Chunk(b, p) <= Chunk(b, o)}
  <1>1. /\ left # {}
        /\ stage' = [o \in Orders |-> IF o \in left THEN "answered" ELSE stage[o]]
        /\ answer' = [o \in Orders |-> IF o \in left THEN "unconfirmed" ELSE answer[o]]
        /\ UNCHANGED <<world, tries, live, latched, batcherVars>>
    BY DEF Throws, Become
  <1>2. left \in SUBSET Orders /\ \A o \in left : body[o] = "parked" /\ BurstOf[o] = b
    BY DEF Parked, In, OrdersOf
  <1>3. flushed[b]
    <2>1. PICK p \in InFlight(b) : TRUE
      BY <1>1
    <2>2. p \in Orders /\ body[p] = "parked" /\ BurstOf[p] = b /\ stage[p] # "none"
      BY <2>1 DEF InFlight, Parked, In, OrdersOf, Travelling
    <2>3. QED
      BY <2>2 DEF IInv, Unsent
  <1> HIDE DEF left
  <1>4. \A o \in left : Away(o) /\ stage'[o] = "answered"
    BY <1>1, <1>2, <1>3 DEF Away
  <1>5. ClientTypes'
    BY <1>1 DEF IInv, TypeOK, ClientTypes, Stages, Answers
  <1>6. Sent'
    BY <1>1 DEF IInv, Sent
  <1>7. QED
    BY <1>1, <1>2, <1>4, <1>5, <1>6, OnTheWay

LEMMA Invariance == Spec => []IInv
  <1>1. ASSUME IInv, [Next]_burstVars
        PROVE  IInv'
    <2>1. CASE \E b \in Bursts : Install(b) \/ BurstStep(b)
      BY <1>1, <2>1, InstallInv, RemoveInv, SendChunkInv, BatchInv, ThrowsInv, TimerInv
      DEF BurstStep
    <2>2. CASE \E o \in Orders : BodyStep(o) \/ CallStep(o)
      BY <1>1, <2>2, BodyInv, ArriveAloneInv, PlaceOneInv, AnsweredAloneInv, DeliverInv
      DEF BodyStep, CallStep
    <2>3. CASE UNCHANGED burstVars
      BY <1>1, <2>3 DEF burstVars, clientVars, batcherVars, IInv, TypeOK, Sent, Unsent,
                        Spans, Orderly, OrdersOf
    <2>4. QED
      BY <1>1, <2>1, <2>2, <2>3 DEF Next
  <1>2. QED
    BY <1>1, InitInv, PTL DEF Spec

(***************************************************************************)
(* Orders, calls and bodies keep to the values the code gives them.        *)
(***************************************************************************)
THEOREM TypeCorrect == Spec => []TypeOK
  <1>1. IInv => TypeOK
    BY DEF IInv
  <1>2. QED
    BY <1>1, Invariance, PTL

(***************************************************************************)
(* No order is placed twice and no answer contradicts the venue, whatever  *)
(* is lost, declined or thrown (exchange.ts, openOrder, openOrdersBatch).  *)
(***************************************************************************)
THEOREM VenueAgreesHolds == Spec => []VenueAgrees
  <1>1. IInv => VenueAgrees
    BY DEF IInv, Sent, VenueAgrees
  <1>2. QED
    BY <1>1, Invariance, PTL

(***************************************************************************)
(* A burst that no timer and no other burst disturbs has one body at work, *)
(* none before it is left, and none of its orders is on its way            *)
(* (openOrderBatcher.ts, deliver).                                         *)
(***************************************************************************)
THEOREM OneAtATimeHolds == Spec => []OneAtATime
  <1>1. ASSUME IInv PROVE OneAtATime
    <2> SUFFICES ASSUME NEW b \in Bursts \ disturbed,
                        NEW o \in In(b, body, {"working", "aloneWorking", "alone"})
                 PROVE  /\ In(b, body, {"working", "aloneWorking", "alone"}) = {o}
                        /\ InFlight(b) = {}
                        /\ \A p \in OrdersOf(b) : p < o => body[p] = "done"
      BY DEF OneAtATime
    <2>1. /\ o \in OrdersOf(b) /\ body[o] = "working" /\ awaited[b] = o
          /\ \A p \in OrdersOf(b) : /\ p < o => body[p] = "done"
                                    /\ body[p] = "parked" => stage[p] = "answered"
      BY <1>1 DEF In, IInv, Orderly
    <2>2. \A p \in In(b, body, {"working", "aloneWorking", "alone"}) : awaited[b] = p
      BY <1>1 DEF In, IInv, Orderly
    <2>3. InFlight(b) = {}
      BY <2>1 DEF InFlight, Parked, In, Travelling
    <2>4. QED
      BY <2>1, <2>2, <2>3
  <1>2. QED
    BY <1>1, Invariance, PTL
=============================================================================
