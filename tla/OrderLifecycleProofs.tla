------------------------ MODULE OrderLifecycleProofs ------------------------
(***************************************************************************)
(* For any quantity, any number of objects, cancels, attempts and worlds:  *)
(* the type invariant of an order's life; that a refused order is retired; *)
(* in the worlds where the ladder does not run out of attempts, that       *)
(* nothing is written off while its placement is in flight; and, where     *)
(* orders are sent once and look-ups tell what is, that a filled order     *)
(* stays filled.                                                           *)
(***************************************************************************)
EXTENDS OrderLifecycle, TLAPS

(***************************************************************************)
(* Whoever goes on with a row holds a reference to it.                     *)
(***************************************************************************)
Holding == {"wait", "search", "searched", "send", "answered"}
Pointed ==
    /\ place.pc \notin {"idle", "done"} => place.obj # None
    /\ ladder.pc \in {"wait", "search", "searched"} => ladder.obj # None
    /\ \A c \in Cancelers : cancel[c].pc \in Holding => cancel[c].obj # None

(***************************************************************************)
(* What the answer of a placement can be at each of its steps.             *)
(***************************************************************************)
PlaceKinds ==
    /\ place.pc = "idle" => place.ans.kind = "none"
    /\ place.pc \in {"saving", "sent", "local", "resending"}
         => place.ans.kind \in {"none", "refused"}
    /\ place.pc = "answered" => place.ans.kind \in {"accepted", "refused", "lost"}
    /\ place.pc = "refused" => place.ans.kind = "refused"
    /\ place.pc \in {"accepted", "repairing", "repaired"} => place.ans.kind = "accepted"
    /\ place.pc \in {"lost", "ladder", "denied"} => place.ans.kind = "lost"
    /\ place.ans.kind = "accepted" => Landed

Shape == TypeOK /\ Pointed /\ PlaceKinds

-----------------------------------------------------------------------------
(* The operations on a book *)

LEMMA Constants ==
  /\ Size \in Nat /\ Size > 0 /\ 0 \in 0..Size
  /\ None \notin Objs /\ Objs \subseteq Nat
  /\ MaxAttempts \in Nat
BY SizeAssumption, ObjsAssumption, AttemptsAssumption DEF None

LEMMA NewRows == Blank \in Rows /\ NewRow \in Rows
BY Constants DEF Blank, NewRow, Rows, Statuses, Live

LEMMA BookFields ==
  ASSUME NEW b \in Books
  PROVE  /\ b.heap \in [Objs -> Rows] /\ b.map \in Objs \cup {None}
         /\ b.routed \in BOOLEAN /\ b.db \in Rows
         /\ \A o \in Objs : b.heap[o] \in Rows
         /\ Held(b) => b.map \in Objs /\ HeldRow(b) \in Rows
BY DEF Books, Held, HeldRow

LEMMA RowFields ==
  ASSUME NEW r \in Rows
  PROVE  /\ r.st \in Statuses \cup {"none"} /\ r.oid \in BOOLEAN
         /\ r.exec \in 0..Size /\ r.time \in Nat
         /\ r.exec \in Nat
         /\ r = [st |-> r.st, oid |-> r.oid, exec |-> r.exec, time |-> r.time]
BY Constants DEF Rows

LEMMA SetOrderType ==
  ASSUME NEW b \in Books, NEW o \in Objs
  PROVE  SetOrder(b, o) \in Books
BY DEF SetOrder, Books

LEMMA DeleteOrderType ==
  ASSUME NEW b \in Books
  PROVE  DeleteOrder(b) \in Books
BY DEF DeleteOrder, Books

LEMMA PutType ==
  ASSUME NEW b \in Books, NEW o \in Objs, NEW r \in Rows
  PROVE  Put(b, o, r) \in Books
BY DEF Put, Books

LEMMA UpdateType ==
  ASSUME NEW b \in Books, NEW r \in Rows
  PROVE  UpdateOrderOnDb(b, r) \in Books
BY DEF UpdateOrderOnDb, Books

LEMMA SaveType ==
  ASSUME NEW b \in Books, NEW r \in Rows
  PROVE  SaveOrderToDb(b, r) \in Books
BY DEF SaveOrderToDb, Books

LEMMA DeleteRowType ==
  ASSUME NEW b \in Books
  PROVE  DeleteOrderFromDb(b) \in Books
BY NewRows DEF DeleteOrderFromDb, Books

LEMMA SweepType ==
  ASSUME NEW b \in Books
  PROVE  Sweep(b) \in Books
BY NewRows DEF Sweep, Books

LEMMA AdoptType ==
  ASSUME NEW b \in Books, NEW o \in Objs
  PROVE  AdoptExchangeOrderId(b, o) \in Books
<1> DEFINE known == [b EXCEPT !.heap = [x \in Objs |->
                       IF x \in {o, b.map} THEN [b.heap[x] EXCEPT !.oid = TRUE]
                                           ELSE b.heap[x]]]
<1>1. \A r \in Rows : [r EXCEPT !.oid = TRUE] \in Rows
  BY DEF Rows
<1>2. known \in Books /\ known.map = b.map
  BY <1>1, BookFields DEF Books
<1>3. Held(b) => known.map \in Objs /\ HeldRow(known) \in Rows
  BY <1>2, BookFields DEF Held, HeldRow
<1>4. known.heap[o] \in Rows
  BY <1>2, BookFields
<1> HIDE DEF known
<1>5. Held(b) => UpdateOrderOnDb(SetOrder(known, b.map), HeldRow(known)) \in Books
  BY <1>2, <1>3, SetOrderType, UpdateType
<1>6. UpdateOrderOnDb(known, known.heap[o]) \in Books
  BY <1>2, <1>4, UpdateType
<1> QED
  BY <1>5, <1>6 DEF AdoptExchangeOrderId, known

LEMMA MergeType ==
  ASSUME NEW r \in Rows, NEW a \in Answers
  PROVE  MergeAnswer(r, a) \in Rows
BY RowFields DEF MergeAnswer, Answers, Rows, Larger, Statuses

-----------------------------------------------------------------------------
(* The placement *)

PlaceStates ==
    [pc : {"idle", "saving", "sent", "answered", "accepted", "refused", "local",
           "lost", "ladder", "denied", "repairing", "repaired", "resending", "done"},
     obj : Objs \cup {None}, ans : Answers, count : 0..Resends]

LadderStates ==
    [pc : {"idle", "enter", "wait", "search", "searched", "ask", "told"},
     just : BOOLEAN, obj : Objs \cup {None}, ans : Answers]

CancelStates ==
    [pc : {"idle", "wait", "search", "searched", "send", "answered", "ladder", "done"},
     obj : Objs \cup {None}, promote : BOOLEAN, ans : Answers]

LEMMA PlaceMoves ==
  ASSUME Shape
  PROVE  /\ place \in PlaceStates
         /\ handle \in {"none", "pending", "acked", "nothing"}
         /\ ladder \in LadderStates /\ cancel \in [Cancelers -> CancelStates]
         /\ PlaceDone => place' \in PlaceStates /\ place'.pc = "done" /\ place'.ans = place.ans
BY DEF Shape, TypeOK, PlaceStates, LadderStates, CancelStates, PlaceDone

LEMMA PlaceTypes ==
  ASSUME Shape, UNCHANGED placeOther,
         book' \in Books, place' \in PlaceStates,
         handle' \in {"none", "pending", "acked", "nothing"},
         ladder' = ladder,
         place'.pc \notin {"idle", "done"} => place'.obj # None
  PROVE  TypeOK' /\ Pointed'
BY DEF Shape, TypeOK, Pointed, placeOther, Reports, Resends, LookupFaults, PlaceStates

LEMMA PlaceBeginShape == ASSUME Shape, PlaceBegin PROVE Shape'
<1>1. PICK o \in Fresh : /\ place' = [place EXCEPT !.pc = "saving", !.obj = o]
                         /\ book' = Sweep(SetOrder(Put(book, o, NewRow), o))
  BY DEF PlaceBegin
<1>2. o \in Objs
  BY DEF Fresh, Unreferenced
<1>3. book' \in Books
  BY <1>1, <1>2, NewRows, PutType, SetOrderType, SweepType DEF Shape, TypeOK
<1>b. place' \in PlaceStates /\ place'.obj # None
  BY <1>1, <1>2, Constants, PlaceMoves DEF PlaceStates
<1>4. TypeOK' /\ Pointed'
  BY <1>3, <1>b, PlaceMoves, PlaceTypes DEF PlaceBegin
<1>5. PlaceKinds'
  BY <1>1 DEF PlaceBegin, Shape, TypeOK, PlaceKinds, placeOther, Landed
<1> QED
  BY <1>4, <1>5 DEF Shape

LEMMA SaveShape ==
  ASSUME Shape, PlaceSend \/ PlaceGuarded \/ PlaceZeroQuote
  PROVE  Shape'
<1> DEFINE saved == SaveOrderToDb(book, NewRow)
<1>1. saved \in Books /\ DeleteOrderFromDb(DeleteOrder(saved)) \in Books
  BY NewRows, SaveType, DeleteOrderType, DeleteRowType DEF Shape, TypeOK
<1> HIDE DEF saved
<1>2. book' \in Books
  BY <1>1, SweepType DEF saved, PlaceSend, PlaceGuarded, PlaceZeroQuote
<1>a. place.pc = "saving" /\ place.obj # None
  BY DEF PlaceSend, PlaceGuarded, PlaceZeroQuote, Shape, Pointed
<1>b. place' \in PlaceStates /\ (place'.pc # "done" => place'.obj # None)
  BY <1>a, PlaceMoves DEF PlaceSend, PlaceGuarded, PlaceZeroQuote, PlaceStates
<1>3. TypeOK' /\ Pointed'
  BY <1>2, <1>b, PlaceMoves, PlaceTypes DEF PlaceSend, PlaceGuarded, PlaceZeroQuote
<1>4. PlaceKinds'
  BY DEF PlaceSend, PlaceGuarded, PlaceZeroQuote, PlaceDone, Shape, TypeOK, PlaceKinds,
         placeOther, Landed
<1> QED
  BY <1>3, <1>4 DEF Shape

LEMMA AnsweredShape == ASSUME Shape, PlaceAnswered PROVE Shape'
<1>a. /\ place.ans.kind \in {"accepted", "refused", "lost"}
      /\ place.obj # None /\ book \in Books
  BY DEF PlaceAnswered, Shape, TypeOK, Pointed, PlaceKinds
<1>b. place' \in PlaceStates /\ place'.obj # None
  BY <1>a, PlaceMoves DEF PlaceAnswered, PlaceStates
<1>1. TypeOK' /\ Pointed'
  BY <1>a, <1>b, PlaceTypes DEF PlaceAnswered, Settled
<1>2. PlaceKinds'
  BY DEF PlaceAnswered, Shape, TypeOK, PlaceKinds, placeOther, Landed
<1> QED
  BY <1>1, <1>2 DEF Shape

LEMMA MergedOverType ==
  ASSUME Shape, place.pc = "accepted"
  PROVE  /\ MergedOver \in Objs /\ book.heap[MergedOver] \in Rows
         /\ MergeAnswer(book.heap[MergedOver], place.ans) \in Rows
<1>1. MergedOver \in Objs /\ book.heap[MergedOver] \in Rows /\ place.ans \in Answers
  BY BookFields DEF Shape, TypeOK, Pointed, MergedOver, Held
<1> QED
  BY <1>1, MergeType

LEMMA MergedType ==
  ASSUME Shape, place.pc \in {"accepted", "repaired"}
  PROVE  Merged \in Rows
<1>1. place.ans \in Answers
  BY DEF Shape, TypeOK
<1>2. CASE place.pc = "repaired"
  BY <1>1, <1>2 DEF Merged, Answers, Rows
<1>3. CASE place.pc = "accepted"
  BY <1>3, MergedOverType DEF Merged
<1> QED
  BY <1>2, <1>3

\* The merge waits in the answer while the order is cancelled at the venue.
LEMMA RepairMoves ==
  ASSUME Shape, PlaceRepair
  PROVE  /\ place \in PlaceStates /\ place' \in PlaceStates
         /\ place.pc = "accepted" /\ place'.pc = "repairing"
         /\ place'.obj = place.obj /\ place.obj # None /\ place'.count = place.count
         /\ place'.ans.kind = place.ans.kind
<1> DEFINE row == MergeAnswer(book.heap[MergedOver], place.ans)
           ans == [kind |-> "accepted", st |-> row.st, exec |-> row.exec, time |-> row.time]
<1>1. /\ place \in PlaceStates /\ place.pc = "accepted" /\ place.obj # None
      /\ place.ans.kind = "accepted"
  BY PlaceMoves DEF PlaceRepair, Shape, Pointed, PlaceKinds
<1>2. row \in Rows
  BY <1>1, MergedOverType
<1>3. place' = [place EXCEPT !.pc = "repairing", !.ans = ans]
  BY DEF PlaceRepair
<1> HIDE DEF row
<1>4. ans \in Answers /\ ans.kind = "accepted"
  BY <1>2, RowFields DEF Answers, AnswerKinds
<1> HIDE DEF ans
<1> QED
  BY <1>1, <1>3, <1>4 DEF PlaceStates

LEMMA AcceptedShape ==
  ASSUME Shape, PlaceRepair \/ PlaceAccepted
  PROVE  Shape'
<1>1. book \in Books /\ place \in PlaceStates
  BY DEF Shape, TypeOK, PlaceStates
<1>2. CASE PlaceRepair
  <2>1. TypeOK' /\ Pointed'
    BY <1>1, <1>2, RepairMoves, PlaceMoves, PlaceTypes DEF PlaceRepair
  <2>2. PlaceKinds'
    BY <1>2, RepairMoves DEF PlaceRepair, Shape, PlaceKinds, placeOther, Landed
  <2> QED
    BY <2>1, <2>2 DEF Shape
<1>3. CASE PlaceAccepted
  <2>1. Merged \in Rows
    BY <1>3, MergedType DEF PlaceAccepted
  <2>2. PICK o \in Fresh :
          book' = Sweep(UpdateOrderOnDb(SetOrder(Put(book, o, Merged), o), Merged))
    BY <1>3 DEF PlaceAccepted
  <2>3. o \in Objs
    BY DEF Fresh, Unreferenced
  <2>4. book' \in Books
    BY <1>1, <2>1, <2>2, <2>3, PutType, SetOrderType, UpdateType, SweepType
  <2>5. TypeOK' /\ Pointed'
    BY <1>1, <1>3, <2>4, PlaceTypes DEF PlaceAccepted, PlaceDone, PlaceStates, Shape, TypeOK
  <2>6. PlaceKinds'
    BY <1>3 DEF PlaceAccepted, PlaceDone, Shape, TypeOK, PlaceKinds, placeOther, Landed
  <2> QED
    BY <2>5, <2>6 DEF Shape
<1> QED
  BY <1>2, <1>3

LEMMA RetireType ==
  ASSUME Shape, NEW b \in Books, place.obj # None
  PROVE  Retire(b) \in Books
<1>1. book.heap[place.obj] \in Rows
  BY BookFields DEF Shape, TypeOK
<1>2. [book.heap[place.obj] EXCEPT !.st = "CANCELED"] \in Rows
  BY <1>1 DEF Rows, Statuses
<1> QED
  BY <1>2, UpdateType DEF Retire

LEMMA ResendShape ==
  ASSUME Shape, PlaceRetry \/ PlaceResend
  PROVE  Shape'
<1>1. book' \in Books
  BY SetOrderType, SweepType DEF PlaceRetry, PlaceResend, Shape, TypeOK, Pointed
<1>a. place.obj # None /\ place.count \in 0..Resends /\ Resends \in Nat
  BY PlaceMoves, WorldsAssumption
  DEF PlaceRetry, PlaceResend, PlaceStates, Shape, TypeOK, Pointed, Resends
<1>b. place' \in PlaceStates /\ place'.obj # None
  <2>1. CASE PlaceRetry
    <3>1. place.count + 1 \in 0..Resends
      BY <1>a, <2>1 DEF PlaceRetry
    <3> QED
      BY <1>a, <2>1, <3>1, PlaceMoves DEF PlaceRetry, PlaceStates
  <2>2. CASE PlaceResend
    BY <1>a, <2>2, PlaceMoves DEF PlaceResend, PlaceStates
  <2> QED
    BY <2>1, <2>2
<1>2. TypeOK' /\ Pointed'
  BY <1>1, <1>b, PlaceMoves, PlaceTypes DEF PlaceRetry, PlaceResend
<1>3. PlaceKinds'
  BY DEF PlaceRetry, PlaceResend, Shape, TypeOK, PlaceKinds, placeOther, Landed
<1> QED
  BY <1>2, <1>3 DEF Shape

LEMMA WriteOffsShape ==
  ASSUME Shape, PlaceRefused \/ PlaceLocal \/ PlaceDenied
  PROVE  Shape'
<1>1. place.obj # None /\ book \in Books /\ Forget(book) \in Books
  BY DeleteOrderType
  DEF PlaceRefused, PlaceLocal, PlaceDenied, Forget, Shape, TypeOK, Pointed
<1>2. /\ Retire(Forget(book)) \in Books
      /\ DeleteOrderFromDb(Forget(book)) \in Books
      /\ Retire(DeleteOrder(book)) \in Books
  BY <1>1, RetireType, DeleteOrderType, DeleteRowType
<1>3. book' \in Books
  BY <1>1, <1>2, SweepType DEF PlaceRefused, PlaceLocal, PlaceDenied
<1>4. TypeOK' /\ Pointed'
  BY <1>3, PlaceMoves, PlaceTypes DEF PlaceRefused, PlaceLocal, PlaceDenied
<1>5. PlaceKinds'
  BY DEF PlaceRefused, PlaceLocal, PlaceDenied, PlaceDone, Shape, TypeOK, PlaceKinds,
         placeOther, Landed
<1> QED
  BY <1>4, <1>5 DEF Shape

LEMMA LostShape == ASSUME Shape, PlaceLost PROVE Shape'
<1>1. CASE ladder' = ladder
  <2>1. book' \in Books
    BY SweepType DEF PlaceLost, Shape, TypeOK
  <2>a. place.obj # None
    BY DEF PlaceLost, Shape, Pointed
  <2>b. place' \in PlaceStates /\ (place'.pc # "done" => place'.obj # None)
    BY <2>a, PlaceMoves DEF PlaceLost, PlaceStates
  <2>2. TypeOK' /\ Pointed'
    BY <1>1, <2>1, <2>b, PlaceMoves, PlaceTypes DEF PlaceLost
  <2>3. PlaceKinds'
    BY DEF PlaceLost, PlaceDone, Shape, TypeOK, PlaceKinds, placeOther, Landed
  <2> QED
    BY <2>2, <2>3 DEF Shape
<1>2. CASE ladder' # ladder
  <2>1. /\ place' = [place EXCEPT !.pc = "ladder"] /\ book' = book
        /\ ladder' = [ladder EXCEPT !.pc = "enter", !.just = TRUE]
        /\ place.pc = "lost" /\ UNCHANGED <<handle, placeOther>>
    BY <1>2 DEF PlaceLost, HandleUnknownOrder
  <2>2. TypeOK' /\ Pointed'
    BY <2>1 DEF Shape, TypeOK, Pointed, placeOther, Reports, Resends, LookupFaults
  <2>3. PlaceKinds'
    BY <2>1 DEF Shape, TypeOK, PlaceKinds, placeOther, Landed
  <2> QED
    BY <2>2, <2>3 DEF Shape
<1> QED
  BY <1>1, <1>2

LEMMA PlaceShape == ASSUME Shape, PlaceNext PROVE Shape'
BY PlaceBeginShape, SaveShape, AnsweredShape, AcceptedShape, ResendShape,
   WriteOffsShape, LostShape DEF PlaceNext

-----------------------------------------------------------------------------
(* The ladder *)

LEMMA LadderTypes ==
  ASSUME Shape, UNCHANGED ladderOther,
         book' \in Books, place' \in PlaceStates, cancel' \in [Cancelers -> CancelStates],
         ladder' \in LadderStates, attempts' \in 0..MaxAttempts,
         ladder'.pc \in {"wait", "search", "searched"} => ladder'.obj # None,
         place'.pc \notin {"idle", "done"} => place'.obj # None,
         \A c \in Cancelers : cancel'[c].pc \in Holding => cancel'[c].obj # None
  PROVE  TypeOK' /\ Pointed'
BY DEF Shape, TypeOK, Pointed, ladderOther, Reports, Resends, LookupFaults, PlaceStates,
       CancelStates, LadderStates

LEMMA Waiting ==
  ASSUME Shape
  PROVE  /\ book \in Books /\ attempts \in Nat /\ attempts <= MaxAttempts
         /\ place.pc \notin {"idle", "done"} => place.obj # None
         /\ \A c \in Cancelers : cancel[c].pc \in Holding => cancel[c].obj # None
         /\ ladder.pc \in {"wait", "search", "searched"} => ladder.obj # None
BY Constants DEF Shape, TypeOK, Pointed

\* A step that only moves the ladder on and writes the book.
LEMMA GoesOnShape ==
  ASSUME Shape, GoesOn, book' \in Books, attempts' \in 0..MaxAttempts,
         NEW pc \in {"enter", "wait", "search", "ask"}, NEW o \in Objs \cup {None},
         pc \in {"wait", "search"} => o # None,
         Again(pc, o)
  PROVE  Shape'
<1>1. ladder' \in LadderStates /\ ladder'.pc = pc /\ ladder'.obj = o
  BY PlaceMoves DEF Again, LadderStates
<1>2. /\ place' \in PlaceStates /\ cancel' \in [Cancelers -> CancelStates]
      /\ UNCHANGED ladderOther /\ place' = place /\ cancel' = cancel
  BY PlaceMoves DEF GoesOn
<1>3. TypeOK' /\ Pointed'
  BY <1>1, <1>2, Waiting, LadderTypes DEF GoesOn
<1>4. PlaceKinds'
  BY DEF GoesOn, ladderOther, Shape, PlaceKinds, Landed
<1> QED
  BY <1>3, <1>4 DEF Shape

LEMMA EnterShape == ASSUME Shape, LadderEnter PROVE Shape'
<1>1. book \in Books /\ attempts' \in 0..MaxAttempts /\ GoesOn
  BY Waiting, Constants DEF LadderEnter, Counted
<1>2. ASSUME NEW row, NEW o \in Objs, RoundOf(row, o), book' \in Books
      PROVE  Shape'
  <2>1. o # None
    BY Constants
  <2>2. \E pc \in {"wait", "search", "ask"} : Again(pc, o)
    BY <1>2 DEF RoundOf
  <2> QED
    BY <1>1, <1>2, <2>1, <2>2, GoesOnShape
<1>3. CASE Held(book) /\ RoundOf(HeldRow(book), book.map) /\ book' = Sweep(book)
  <2>1. book.map \in Objs /\ book' \in Books
    BY <1>1, <1>3, BookFields, SweepType
  <2> QED
    BY <1>2, <1>3, <2>1
<1>4. ASSUME NEW o \in Fresh, RoundOf(book.db, o), book' = Sweep(Put(book, o, book.db))
      PROVE  Shape'
  <2>1. o \in Objs
    BY DEF Fresh, Unreferenced
  <2>2. book' \in Books
    BY <1>1, <1>4, <2>1, BookFields, PutType, SweepType
  <2> QED
    BY <1>2, <1>4, <2>1, <2>2
<1>5. CASE Again("ask", None) /\ book' = Sweep(book)
  BY <1>1, <1>5, SweepType, GoesOnShape
<1> QED
  BY <1>3, <1>4, <1>5 DEF LadderEnter

LEMMA WaitedShape == ASSUME Shape, LadderWaited PROVE Shape'
<1> DEFINE b == IF handle = "acked" THEN AdoptExchangeOrderId(book, ladder.obj) ELSE book
<1>1. ladder.obj \in Objs /\ ladder.obj # None /\ book \in Books
  BY Waiting, PlaceMoves DEF LadderWaited, LadderStates
<1>2. b \in Books
  BY <1>1, AdoptType
<1> HIDE DEF b
<1>3. \E pc \in {"ask", "search"} : Again(pc, ladder.obj)
  BY DEF LadderWaited, b
<1>4. book' \in Books /\ attempts' \in 0..MaxAttempts /\ GoesOn
  BY <1>2, SweepType DEF LadderWaited, b, Shape, TypeOK
<1> QED
  BY <1>1, <1>3, <1>4, GoesOnShape

LEMMA RepeatShape == ASSUME Shape, Repeat PROVE Shape'
<1>1. book' \in Books /\ attempts' \in 0..MaxAttempts
  BY SweepType DEF Repeat, Shape, TypeOK
<1> QED
  BY <1>1, GoesOnShape DEF Repeat

\* The end of the ladder, for all who wait for it.
LEMMA FinishShape ==
  ASSUME Shape, NEW found \in BOOLEAN, Finish(found), UNCHANGED ladderOther,
         book' \in Books, attempts' = 0
  PROVE  Shape'
<1>1. NoAnswer \in Answers
  BY Constants DEF NoAnswer, Answers, AnswerKinds
<1>2. ladder' \in LadderStates /\ ladder'.pc = "idle"
  BY <1>1 DEF Finish, LadderStates
<1>3. /\ place' \in PlaceStates /\ (place'.pc \notin {"idle", "done"} => place'.obj # None)
      /\ place'.ans = place.ans
      /\ \/ place'.pc = place.pc
         \/ place.pc = "ladder" /\ place'.pc \in {"done", "denied"}
  BY PlaceMoves, Waiting DEF Finish, PlaceStates
<1>4. /\ cancel' \in [Cancelers -> CancelStates]
      /\ \A c \in Cancelers : cancel'[c].pc \in Holding => cancel'[c].obj # None
  BY PlaceMoves, Waiting DEF Finish, CancelStates, Holding
<1>5. TypeOK' /\ Pointed'
  BY <1>2, <1>3, <1>4, Constants, LadderTypes
<1>6. PlaceKinds'
  BY <1>3 DEF ladderOther, Shape, PlaceKinds, Landed
<1> QED
  BY <1>5, <1>6 DEF Shape

LEMMA StampType ==
  ASSUME NEW r \in Rows
  PROVE  Stamp(r) \in Rows
BY DEF Stamp, WriteOffStatus, Rows, Statuses

LEMMA WrittenOffType ==
  ASSUME NEW b \in Books
  PROVE  WrittenOff(b) \in Books
<1>1. CASE Held(b) /\ HeldRow(b).st = "NEW"
  <2>1. b.map \in Objs /\ Stamp(HeldRow(b)) \in Rows
    BY <1>1, BookFields, StampType
  <2> QED
    BY <1>1, <2>1, PutType, DeleteOrderType, UpdateType DEF WrittenOff
<1>2. CASE ~(Held(b) /\ HeldRow(b).st = "NEW")
  <2>1. Stamp(b.db) \in Rows
    BY BookFields, StampType
  <2> QED
    BY <1>2, <2>1, DeleteOrderType, UpdateType DEF WrittenOff
<1> QED
  BY <1>1, <1>2

LEMMA WriteOffShape == ASSUME Shape, WriteOff PROVE Shape'
<1>1. book' \in Books
  BY Waiting, WrittenOffType, SweepType DEF WriteOff
<1> QED
  BY <1>1, FinishShape DEF WriteOff

LEMMA KeepsShape == ASSUME Shape, LadderKeeps PROVE Shape'
<1>1. book' \in Books
  BY Waiting, SweepType DEF LadderKeeps
<1> QED
  BY <1>1, FinishShape DEF LadderKeeps

LEMMA SearchedShape == ASSUME Shape, LadderSearched PROVE Shape'
<1>1. CASE WriteOff
  BY <1>1, WriteOffShape
<1>2. CASE Repeat
  BY <1>2, RepeatShape
<1>3. CASE /\ Again("ask", ladder.obj) /\ GoesOn /\ UNCHANGED attempts
           /\ book' = Sweep(IF ladder.ans.kind = "found"
                            THEN AdoptExchangeOrderId(book, ladder.obj) ELSE book)
  <2>1. ladder.obj \in Objs /\ book \in Books
    BY Waiting, PlaceMoves DEF LadderSearched, LadderStates
  <2>2. book' \in Books /\ attempts' \in 0..MaxAttempts
    BY <1>3, <2>1, AdoptType, SweepType DEF Shape, TypeOK
  <2> QED
    BY <1>3, <2>1, <2>2, GoesOnShape
<1> QED
  BY <1>1, <1>2, <1>3 DEF LadderSearched

LEMMA DescribedType ==
  ASSUME NEW r \in Rows, NEW a \in Answers
  PROVE  Described(r, a) \in Rows
BY DEF Described, Rows, Answers

LEMMA RecordedType ==
  ASSUME NEW b \in Books, NEW o \in Objs, NEW r \in Rows
  PROVE  Recorded(b, o, r) \in Books
<1> DEFINE put == DeleteOrder(Put(b, o, r))
<1>1. put \in Books
  BY PutType, DeleteOrderType
<1> HIDE DEF put
<1>2. [put EXCEPT !.db = r] \in Books
  BY <1>1 DEF Books
<1> QED
  BY <1>2, SetOrderType DEF Recorded, put

LEMMA FoundShape == ASSUME Shape, LadderFound PROVE Shape'
<1>1. book \in Books /\ ladder.ans \in Answers
  BY Waiting, PlaceMoves DEF LadderStates
<1>2. book' \in Books
  <2>1. CASE book' = Sweep(book)
    BY <1>1, <2>1, SweepType
  <2>2. ASSUME NEW o \in IF Held(book) THEN {book.map} ELSE Fresh,
               book' = Sweep(Recorded(book, o,
                         Described(IF Held(book) THEN HeldRow(book) ELSE book.db, ladder.ans)))
        PROVE  book' \in Books
    <3>1. o \in Objs /\ (IF Held(book) THEN HeldRow(book) ELSE book.db) \in Rows
      BY <1>1, BookFields DEF Fresh, Unreferenced
    <3> QED
      BY <1>1, <2>2, <3>1, DescribedType, RecordedType, SweepType
  <2> QED
    BY <2>1, <2>2 DEF LadderFound
<1> QED
  BY <1>2, FinishShape DEF LadderFound

LEMMA LadderShape == ASSUME Shape, LadderNext PROVE Shape'
BY EnterShape, WaitedShape, SearchedShape, FoundShape, KeepsShape, WriteOffShape,
   RepeatShape DEF LadderNext, LadderDenied, LadderGivesUp

-----------------------------------------------------------------------------
(* The cancels *)

LEMMA CancelTypes ==
  ASSUME Shape, UNCHANGED cancelOther,
         book' \in Books, cancel' \in [Cancelers -> CancelStates],
         \/ ladder' = ladder
         \/ HandleUnknownOrder(FALSE),
         \A c \in Cancelers : cancel'[c].pc \in Holding => cancel'[c].obj # None
  PROVE  Shape'
<1>1. ladder' \in LadderStates
  BY PlaceMoves DEF HandleUnknownOrder, LadderStates
<1>2. ladder'.pc \in {"wait", "search", "searched"} => ladder'.obj # None
  BY Waiting, PlaceMoves DEF HandleUnknownOrder, LadderStates
<1>3. TypeOK' /\ Pointed'
  BY <1>1, <1>2 DEF Shape, TypeOK, Pointed, cancelOther, Reports, Resends, LookupFaults,
     CancelStates, LadderStates
<1>4. PlaceKinds'
  BY DEF cancelOther, Shape, PlaceKinds, Landed
<1> QED
  BY <1>3, <1>4 DEF Shape

LEMMA GoesType ==
  ASSUME Shape, NEW c \in Cancelers,
         NEW pc \in {"search", "send", "ladder", "done"}, NEW o \in Objs \cup {None},
         Goes(c, pc, o), pc \in Holding => o # None
  PROVE  /\ cancel' \in [Cancelers -> CancelStates]
         /\ \A d \in Cancelers : cancel'[d].pc \in Holding => cancel'[d].obj # None
<1>1. \A d \in Cancelers : cancel'[d] = IF d = c THEN [cancel[c] EXCEPT !.pc = pc, !.obj = o]
                                                ELSE cancel[d]
  BY PlaceMoves DEF Goes
<1>2. [cancel[c] EXCEPT !.pc = pc, !.obj = o] \in CancelStates
  BY PlaceMoves DEF CancelStates
<1>3. /\ [cancel[c] EXCEPT !.pc = pc, !.obj = o].pc = pc
      /\ [cancel[c] EXCEPT !.pc = pc, !.obj = o].obj = o
  BY PlaceMoves DEF CancelStates
<1>4. DOMAIN cancel' = Cancelers /\ cancel' = [d \in Cancelers |-> cancel'[d]]
  BY PlaceMoves DEF Goes
<1>5. \A d \in Cancelers : cancel'[d] \in CancelStates
  BY <1>1, <1>2, PlaceMoves
<1> QED
  BY <1>1, <1>3, <1>4, <1>5, Waiting

LEMMA CancelBeginShape ==
  ASSUME Shape, NEW c \in Cancelers, CancelBegin(c)
  PROVE  Shape'
<1>1. PICK promote \in BOOLEAN :
         cancel' = [cancel EXCEPT ![c].pc = FirstStep(HeldRow(book)),
                                  ![c].obj = book.map, ![c].promote = promote]
  BY DEF CancelBegin
<1>2. book.map \in Objs /\ book.map # None /\ book \in Books
  BY Waiting, BookFields DEF CancelBegin, Held
<1>3. FirstStep(HeldRow(book)) \in {"wait", "search", "send"}
  BY DEF FirstStep
<1> DEFINE new == [cancel[c] EXCEPT !.pc = FirstStep(HeldRow(book)), !.obj = book.map,
                                    !.promote = promote]
<1>4. new \in CancelStates /\ new.obj = book.map
  BY <1>2, <1>3, PlaceMoves DEF CancelStates
<1>5. /\ \A d \in Cancelers : cancel'[d] = IF d = c THEN new ELSE cancel[d]
      /\ cancel' = [d \in Cancelers |-> cancel'[d]]
  BY <1>1, PlaceMoves DEF CancelStates
<1> HIDE DEF new
<1>6. cancel' \in [Cancelers -> CancelStates]
  BY <1>4, <1>5, PlaceMoves
<1>7. \A d \in Cancelers : cancel'[d].pc \in Holding => cancel'[d].obj # None
  BY <1>2, <1>4, <1>5, Waiting
<1> QED
  BY <1>2, <1>6, <1>7, CancelTypes DEF CancelBegin

LEMMA CancelHolds ==
  ASSUME Shape, NEW c \in Cancelers, cancel[c].pc \in Holding
  PROVE  /\ cancel[c].obj \in Objs /\ cancel[c].obj # None
         /\ cancel[c].ans \in Answers /\ book \in Books
BY PlaceMoves, Waiting DEF CancelStates

LEMMA CancelWaitedShape ==
  ASSUME Shape, NEW c \in Cancelers, CancelWaited(c)
  PROVE  Shape'
<1> DEFINE b == IF handle = "acked" THEN AdoptExchangeOrderId(book, cancel[c].obj) ELSE book
<1>1. cancel[c].obj \in Objs /\ cancel[c].obj # None /\ book \in Books
  BY CancelHolds DEF CancelWaited, Holding
<1>2. b \in Books
  BY <1>1, AdoptType
<1>3. \E pc \in {"search", "send"} : Goes(c, pc, cancel[c].obj)
  BY DEF CancelWaited
<1>4. book' = Sweep(b) /\ UNCHANGED <<ladder, cancelOther>>
  BY DEF CancelWaited
<1> HIDE DEF b
<1> QED
  BY <1>1, <1>2, <1>3, <1>4, SweepType, GoesType, CancelTypes

LEMMA CancelSearchedShape ==
  ASSUME Shape, NEW c \in Cancelers, CancelSearched(c)
  PROVE  Shape'
<1>1. cancel[c].obj \in Objs /\ cancel[c].obj # None /\ book \in Books
  BY CancelHolds DEF CancelSearched, Holding
<1>2. AdoptExchangeOrderId(book, cancel[c].obj) \in Books
  BY <1>1, AdoptType
<1>3. book' \in Books
  BY <1>1, <1>2, SweepType DEF CancelSearched
<1>4. \/ Goes(c, "send", cancel[c].obj) \/ Goes(c, "ladder", None) \/ Goes(c, "done", None)
  BY DEF CancelSearched
<1>5. /\ cancel' \in [Cancelers -> CancelStates]
      /\ \A d \in Cancelers : cancel'[d].pc \in Holding => cancel'[d].obj # None
  BY <1>1, <1>4, GoesType DEF Holding
<1> QED
  BY <1>3, <1>5, CancelTypes DEF CancelSearched

LEMMA CancelEndedShape ==
  ASSUME Shape, NEW c \in Cancelers, CancelUnknown(c) \/ CancelRefused(c)
  PROVE  Shape'
<1>1. book' \in Books
  BY Waiting, SweepType DEF CancelUnknown, CancelRefused
<1>2. /\ cancel' \in [Cancelers -> CancelStates]
      /\ \A d \in Cancelers : cancel'[d].pc \in Holding => cancel'[d].obj # None
  BY GoesType DEF CancelUnknown, CancelRefused, Holding
<1> QED
  BY <1>1, <1>2, CancelTypes DEF CancelUnknown, CancelRefused

LEMMA ConfirmedRow ==
  ASSUME Shape, NEW c \in Cancelers, CancelConfirmed(c)
  PROVE  [st |-> EndStatus(cancel[c].ans, cancel[c].promote), oid |-> TRUE,
          exec |-> Executed(Known(cancel[c].obj), cancel[c].ans.exec),
          time |-> cancel[c].ans.time] \in Rows
<1> DEFINE o == cancel[c].obj
           ans == cancel[c].ans
<1>1. o \in Objs /\ ans \in Answers /\ book \in Books
  BY CancelHolds DEF CancelConfirmed, Holding
<1>2. ans.exec \in 0..Size /\ ans.time \in Nat /\ ans.st \in Statuses \cup {"none"}
  BY <1>1 DEF Answers
<1>3. EndStatus(ans, cancel[c].promote) \in Statuses \cup {"none"}
  BY <1>2 DEF EndStatus, Statuses
<1>4. book.heap[o].exec \in 0..Size /\ (Held(book) => HeldRow(book).exec \in 0..Size)
  BY <1>1, BookFields, RowFields
<1>5. Known(o) \in 0..Size
  BY <1>4, Constants DEF Known, Larger
<1>6. Executed(Known(o), ans.exec) \in 0..Size
  BY <1>2, <1>5 DEF Executed, Larger
<1> HIDE DEF o, ans
<1> QED
  BY <1>2, <1>3, <1>6 DEF Rows, o, ans

LEMMA ConfirmedShape ==
  ASSUME Shape, NEW c \in Cancelers, CancelConfirmed(c)
  PROVE  Shape'
<1> DEFINE o == cancel[c].obj
           ans == cancel[c].ans
           row == [st |-> EndStatus(ans, cancel[c].promote), oid |-> TRUE,
                   exec |-> Executed(Known(o), ans.exec), time |-> ans.time]
           set == SetOrder(Put(book, o, row), o)
           kept == IF ans.exec = 0 /\ row.exec = 0 THEN DeleteOrder(set) ELSE set
<1>1. o \in Objs /\ ans \in Answers /\ book \in Books
  BY CancelHolds DEF CancelConfirmed, Holding
<1>2. row \in Rows
  BY ConfirmedRow
<1>3. book' = Sweep(UpdateOrderOnDb(kept, row)) /\ Goes(c, "done", None)
      /\ UNCHANGED <<ladder, cancelOther>>
  BY DEF CancelConfirmed
<1> HIDE DEF o, ans, row
<1>4. set \in Books
  BY <1>1, <1>2, PutType, SetOrderType
<1> HIDE DEF set
<1>5. kept \in Books
  BY <1>4, DeleteOrderType
<1> HIDE DEF kept
<1>6. book' \in Books
  BY <1>2, <1>3, <1>5, UpdateType, SweepType
<1>7. /\ cancel' \in [Cancelers -> CancelStates]
      /\ \A d \in Cancelers : cancel'[d].pc \in Holding => cancel'[d].obj # None
  BY <1>3, GoesType DEF Holding
<1> QED
  BY <1>3, <1>6, <1>7, CancelTypes

LEMMA CancelShape == ASSUME Shape, NEW c \in Cancelers, CancelNext(c) PROVE Shape'
BY CancelBeginShape, CancelWaitedShape, CancelSearchedShape, CancelEndedShape,
   ConfirmedShape DEF CancelNext

-----------------------------------------------------------------------------
(* The user stream and the venue *)

LEMMA RestTypes ==
  ASSUME Shape
  PROVE  /\ queue \subseteq Reports /\ processing \in Reports /\ reports \subseteq Reports
         /\ venue \in Reports /\ NoReport \in Reports
         /\ terms \in Worlds /\ others \in BOOLEAN /\ stopped \in BOOLEAN
         /\ Resends \in Nat /\ LookupFaults \in Nat /\ faults \in 0..LookupFaults
BY Constants, WorldsAssumption
DEF Shape, TypeOK, Resends, LookupFaults, NoReport, Reports

LEMMA ReportTypes ==
  ASSUME Shape, UNCHANGED reportsOther, book' \in Books,
         queue' \subseteq Reports, processing' \in Reports, reports' \subseteq Reports
  PROVE  Shape'
<1>1. TypeOK' /\ Pointed'
  BY DEF Shape, TypeOK, Pointed, reportsOther, Reports, Resends, LookupFaults
<1>2. PlaceKinds'
  BY DEF reportsOther, Shape, PlaceKinds, Landed
<1> QED
  BY <1>1, <1>2 DEF Shape

LEMMA ReportRow ==
  ASSUME Shape
  PROVE  [st |-> processing.st, oid |-> TRUE, exec |-> processing.exec,
          time |-> processing.time] \in Rows
BY RestTypes DEF Reports, Rows

LEMMA ReportShape == ASSUME Shape, ReportNext PROVE Shape'
<1>1. ASSUME NEW r \in reports, ReportArrives(r)
      PROVE  Shape'
  BY <1>1, RestTypes, Waiting, ReportTypes DEF ReportArrives, Insert
<1>2. CASE ReportBegin
  BY <1>2, RestTypes, Waiting, ReportTypes DEF ReportBegin, Earliest
<1>3. CASE ReportProcess
  <2> DEFINE new == [st |-> processing.st, oid |-> TRUE, exec |-> processing.exec,
                     time |-> processing.time]
             stored == DeleteOrder(UpdateOrderOnDb(book, new))
  <2>1. new \in Rows /\ book \in Books
    BY ReportRow, Waiting
  <2>2. /\ book' = book
           \/ \E o \in Fresh :
                book' = Sweep(IF Stays(new) THEN SetOrder(Put(stored, o, new), o) ELSE stored)
        /\ queue' = Remaining /\ processing' = NoReport
        /\ UNCHANGED <<reports, reportsOther>>
    BY <1>3 DEF ReportProcess
  <2> HIDE DEF new
  <2>3. stored \in Books
    BY <2>1, UpdateType, DeleteOrderType
  <2> HIDE DEF stored
  <2>4. book' \in Books
    BY <2>1, <2>2, <2>3, PutType, SetOrderType, SweepType DEF Fresh, Unreferenced
  <2> QED
    BY <2>2, <2>4, RestTypes, ReportTypes DEF Remaining
<1> QED
  BY <1>1, <1>2, <1>3 DEF ReportNext

LEMMA AnswerType ==
  ASSUME Shape, NEW kind \in AnswerKinds
  PROVE  Answer(kind) \in Answers /\ Answer(kind).kind = kind
BY RestTypes DEF Answer, Answers, Reports

LEMMA BecomesType ==
  ASSUME Shape, NEW st \in Statuses, NEW exec \in 0..Size, Becomes(st, exec)
  PROVE  /\ venue' \in Reports /\ reports' \subseteq Reports
         /\ venue' = [st |-> st, exec |-> exec, time |-> venue.time + 1]
         /\ reports' = reports \cup {venue'}
         /\ venue'.st = st /\ venue'.st # "none"
BY RestTypes DEF Becomes, Reports, Statuses, Live

\* A step of the venue: it answers and changes the order, the bot does nothing.
LEMMA VenueTypes ==
  ASSUME Shape,
         UNCHANGED <<book, terms, others, stopped, handle, attempts, queue, processing>>,
         place' \in PlaceStates, ladder' \in LadderStates,
         cancel' \in [Cancelers -> CancelStates],
         venue' \in Reports, reports' \subseteq Reports, faults' \in 0..LookupFaults,
         place'.pc \notin {"idle", "done"} => place'.obj # None,
         ladder'.pc \in {"wait", "search", "searched"} => ladder'.obj # None,
         \A c \in Cancelers : cancel'[c].pc \in Holding => cancel'[c].obj # None
  PROVE  TypeOK' /\ Pointed'
BY DEF Shape, TypeOK, Pointed, Reports, Resends, LookupFaults, PlaceStates, CancelStates,
       LadderStates

LEMMA VenueFrame ==
  ASSUME Shape
  PROVE  /\ place \in PlaceStates /\ ladder \in LadderStates
         /\ cancel \in [Cancelers -> CancelStates]
         /\ venue \in Reports /\ reports \subseteq Reports /\ faults \in 0..LookupFaults
BY PlaceMoves, RestTypes

LEMMA VenueOrderShape ==
  ASSUME Shape, VenueAccept \/ VenueFill
  PROVE  Shape'
<1>1. \E st \in Statuses, exec \in 0..Size : Becomes(st, exec)
  <2>1. CASE VenueAccept
    BY <2>1, Constants DEF VenueAccept, Statuses, Live
  <2>2. CASE VenueFill
    <3>1. PICK q \in (venue.exec + 1)..Size :
             Becomes(IF q = Size THEN "FILLED" ELSE "PARTIALLY_FILLED", q)
      BY <2>2 DEF VenueFill
    <3>2. q \in 0..Size
      BY RestTypes, Constants DEF Reports
    <3> QED
      BY <3>1, <3>2 DEF Statuses, Live
  <2> QED
    BY <2>1, <2>2
<1>2. venue' \in Reports /\ reports' \subseteq Reports /\ venue'.st # "none"
  BY <1>1, BecomesType
<1>3. TypeOK' /\ Pointed'
  BY <1>2, VenueFrame, Waiting, VenueTypes DEF VenueAccept, VenueFill
<1>4. PlaceKinds'
  BY <1>2 DEF VenueAccept, VenueFill, Shape, PlaceKinds, Landed
<1> QED
  BY <1>3, <1>4 DEF Shape

LEMMA VenueAnswerShape == ASSUME Shape, VenueAnswer PROVE Shape'
<1>1. PICK kind \in {"accepted", "refused", "lost"} :
         /\ place' = [place EXCEPT !.pc = "answered", !.ans = Answer(kind)]
         /\ kind = "accepted" => Landed
  BY DEF VenueAnswer
<1>2. Answer(kind) \in Answers /\ Answer(kind).kind = kind
  BY AnswerType DEF AnswerKinds
<1>3. place.obj # None
  BY Waiting DEF VenueAnswer
<1>4. place' \in PlaceStates /\ place'.obj # None /\ place'.pc = "answered"
      /\ place'.ans.kind = kind
  BY <1>1, <1>2, <1>3, VenueFrame DEF PlaceStates
<1>5. TypeOK' /\ Pointed'
  BY <1>4, VenueFrame, Waiting, VenueTypes DEF VenueAnswer
<1>6. PlaceKinds'
  BY <1>1, <1>4 DEF VenueAnswer, PlaceKinds, Landed
<1> QED
  BY <1>5, <1>6 DEF Shape

LEMMA FaultsType ==
  ASSUME Shape, NEW kind, NEW finds, Lookup(kind, finds) \/ Lags(kind)
  PROVE  faults' \in 0..LookupFaults
BY RestTypes DEF Lookup, Lags

LEMMA VenueDescribeShape == ASSUME Shape, VenueDescribe PROVE Shape'
<1>1. PICK kind \in {"found", "absent", "unreliable", "failed"} :
         /\ Lookup(kind, Landed) \/ Lags(kind)
         /\ ladder' = [ladder EXCEPT !.pc = "told", !.ans = Answer(kind)]
  BY DEF VenueDescribe
<1>2. Answer(kind) \in Answers
  BY AnswerType DEF AnswerKinds
<1>3. ladder' \in LadderStates /\ ladder'.pc = "told" /\ faults' \in 0..LookupFaults
  BY <1>1, <1>2, VenueFrame, FaultsType DEF LadderStates
<1>4. TypeOK' /\ Pointed'
  BY <1>3, VenueFrame, Waiting, VenueTypes DEF VenueDescribe
<1>5. PlaceKinds'
  BY DEF VenueDescribe, Shape, PlaceKinds, Landed
<1> QED
  BY <1>4, <1>5 DEF Shape

\* An answer to one cancel.
LEMMA CancelAnswered ==
  ASSUME Shape, NEW c \in Cancelers, cancel[c].pc \in Holding, NEW a \in Answers,
         NEW pc \in {"searched", "answered"},
         cancel' = [cancel EXCEPT ![c].pc = pc, ![c].ans = a]
  PROVE  /\ cancel' \in [Cancelers -> CancelStates]
         /\ \A d \in Cancelers : cancel'[d].pc \in Holding => cancel'[d].obj # None
         /\ \A d \in Cancelers \ {c} : cancel'[d] = cancel[d]
         /\ cancel'[c].pc = pc /\ cancel'[c].ans = a /\ cancel'[c].obj = cancel[c].obj
<1> DEFINE new == [cancel[c] EXCEPT !.pc = pc, !.ans = a]
<1>1. new \in CancelStates /\ new.obj = cancel[c].obj /\ new.pc = pc /\ new.ans = a
  BY PlaceMoves DEF CancelStates
<1>2. /\ \A d \in Cancelers : cancel'[d] = IF d = c THEN new ELSE cancel[d]
      /\ cancel' = [d \in Cancelers |-> cancel'[d]]
  BY PlaceMoves DEF CancelStates
<1> HIDE DEF new
<1> QED
  BY <1>1, <1>2, PlaceMoves, Waiting

LEMMA VenueSearchShape == ASSUME Shape, VenueSearch PROVE Shape'
<1>1. PICK kind \in {"found", "absent", "failed"} :
         /\ Lookup(kind, Listed)
         /\ \/ /\ ladder.pc = "search"
               /\ ladder' = [ladder EXCEPT !.pc = "searched", !.ans = Answer(kind)]
               /\ UNCHANGED cancel
            \/ \E c \in Cancelers :
                 /\ cancel[c].pc = "search"
                 /\ cancel' = [cancel EXCEPT ![c].pc = "searched",
                                             ![c].ans = Answer(kind)]
                 /\ UNCHANGED ladder
  BY DEF VenueSearch
<1>2. Answer(kind) \in Answers /\ faults' \in 0..LookupFaults
  BY <1>1, AnswerType, FaultsType DEF AnswerKinds
<1>3. /\ ladder' \in LadderStates
      /\ ladder'.pc \in {"wait", "search", "searched"} => ladder'.obj # None
  BY <1>1, <1>2, VenueFrame, Waiting DEF LadderStates
<1>4. /\ cancel' \in [Cancelers -> CancelStates]
      /\ \A d \in Cancelers : cancel'[d].pc \in Holding => cancel'[d].obj # None
  <2>1. CASE cancel' = cancel
    BY <2>1, VenueFrame, Waiting
  <2>2. ASSUME NEW c \in Cancelers, cancel[c].pc = "search",
               cancel' = [cancel EXCEPT ![c].pc = "searched", ![c].ans = Answer(kind)]
        PROVE  <1>4!1 /\ <1>4!2
    BY <1>2, <2>2, CancelAnswered DEF Holding
  <2> QED
    BY <1>1, <2>1, <2>2
<1>5. TypeOK' /\ Pointed'
  BY <1>2, <1>3, <1>4, VenueFrame, Waiting, VenueTypes DEF VenueSearch
<1>6. PlaceKinds'
  BY DEF VenueSearch, Shape, PlaceKinds, Landed
<1> QED
  BY <1>5, <1>6 DEF Shape

LEMMA VenueCancelShape ==
  ASSUME Shape, NEW c \in Cancelers, VenueCancel(c)
  PROVE  Shape'
<1>1. /\ venue' \in Reports /\ reports' \subseteq Reports
      /\ Landed => venue'.st # "none"
  <2>1. CASE Becomes("CANCELED", venue.exec)
    BY <2>1, BecomesType, RestTypes DEF Reports, Statuses
  <2>2. CASE UNCHANGED <<venue, reports>>
    BY <2>2, VenueFrame DEF Landed
  <2> QED
    BY <2>1, <2>2 DEF VenueCancel
<1>2. PICK a \in Answers : Answered(c, a)
  <2>1. ASSUME NEW q \in 0..Size
        PROVE  [kind |-> "cancelled", st |-> "CANCELED", exec |-> q,
                time |-> venue.time + 1] \in Answers
    BY <2>1, RestTypes DEF Answers, AnswerKinds, Reports, Statuses
  <2>2. ASSUME NEW q \in (IF "understated" \in Faults THEN 0..venue.exec ELSE {venue.exec})
        PROVE  q \in 0..Size
    BY <2>2, RestTypes, Constants DEF Reports
  <2>3. \A kind \in {"lost", "cancelled", "unknown", "refused"} : Answer(kind) \in Answers
    BY AnswerType DEF AnswerKinds
  <2> QED
    BY <2>1, <2>2, <2>3 DEF VenueCancel
<1>3. /\ cancel' \in [Cancelers -> CancelStates]
      /\ \A d \in Cancelers : cancel'[d].pc \in Holding => cancel'[d].obj # None
  BY <1>2, CancelAnswered DEF VenueCancel, Answered, Holding
<1>4. TypeOK' /\ Pointed'
  BY <1>1, <1>3, VenueFrame, Waiting, VenueTypes DEF VenueCancel
<1>5. PlaceKinds'
  BY <1>1 DEF VenueCancel, Shape, PlaceKinds, Landed
<1> QED
  BY <1>4, <1>5 DEF Shape

LEMMA VenueRepairShape == ASSUME Shape, VenueRepair PROVE Shape'
<1>1. /\ venue' \in Reports /\ reports' \subseteq Reports
      /\ Landed => venue'.st # "none"
  <2>1. CASE Becomes("CANCELED", venue.exec)
    BY <2>1, BecomesType, RestTypes DEF Reports, Statuses
  <2>2. CASE UNCHANGED <<venue, reports>>
    BY <2>2, VenueFrame DEF Landed
  <2> QED
    BY <2>1, <2>2 DEF VenueRepair
<1>2. place' \in PlaceStates /\ place'.obj # None /\ place'.pc = "repaired"
      /\ place'.ans = place.ans
  BY VenueFrame, Waiting DEF VenueRepair, PlaceStates
<1>3. TypeOK' /\ Pointed'
  BY <1>1, <1>2, VenueFrame, Waiting, VenueTypes DEF VenueRepair
<1>4. PlaceKinds'
  BY <1>1, <1>2 DEF VenueRepair, Shape, PlaceKinds, Landed
<1> QED
  BY <1>3, <1>4 DEF Shape

LEMMA VenueShape == ASSUME Shape, VenueNext PROVE Shape'
BY VenueOrderShape, VenueAnswerShape, VenueDescribeShape, VenueSearchShape,
   VenueRepairShape, VenueCancelShape DEF VenueNext

LEMMA StopShape == ASSUME Shape, Stop PROVE Shape'
<1>1. [book EXCEPT !.map = None, !.routed = FALSE] \in Books
  BY Waiting DEF Books
<1>2. book' \in Books
  BY <1>1, SweepType DEF Stop
<1>b. others' \in BOOLEAN /\ stopped' \in BOOLEAN
  BY Zenon DEF Stop
<1>c. UNCHANGED <<terms, place, handle, cancel, ladder, attempts, queue, processing,
                  venue, reports, faults>>
  BY DEF Stop
<1>3. TypeOK' /\ Pointed'
  BY <1>2, <1>b, <1>c DEF Shape, TypeOK, Pointed, Reports, Resends, LookupFaults
<1>4. PlaceKinds'
  BY DEF Stop, Shape, PlaceKinds, Landed
<1> QED
  BY <1>3, <1>4 DEF Shape

LEMMA StillShape == ASSUME Shape, UNCHANGED orderVars PROVE Shape'
BY DEF orderVars, Shape, TypeOK, Pointed, PlaceKinds, Landed, Reports, Resends, LookupFaults

LEMMA InitShape == ASSUME Init PROVE Shape
<1>1. NoAnswer \in Answers /\ terms \in Worlds /\ Resends \in Nat /\ LookupFaults \in Nat
  BY Constants, WorldsAssumption
  DEF NoAnswer, Answers, AnswerKinds, Init, Resends, LookupFaults
<1>2. book \in Books
  BY NewRows DEF Init, Books
<1>a. others \in BOOLEAN /\ stopped \in BOOLEAN
  BY Zenon DEF Init
<1>b. /\ place \in PlaceStates /\ cancel \in [Cancelers -> CancelStates]
      /\ ladder \in LadderStates
  BY <1>1 DEF Init, PlaceStates, CancelStates, LadderStates
<1>c. /\ handle = "none" /\ attempts \in 0..MaxAttempts /\ queue = {} /\ reports = {}
      /\ processing \in Reports /\ venue \in Reports /\ faults \in 0..LookupFaults
  BY <1>1, Constants DEF Init, NoReport, Reports
<1>3. TypeOK
  BY <1>1, <1>2, <1>a, <1>b, <1>c DEF TypeOK, PlaceStates, CancelStates, LadderStates
<1> QED
  BY <1>3 DEF Shape, Pointed, PlaceKinds, Init, NoAnswer, Holding

LEMMA ShapeStep == ASSUME Shape, [Next]_orderVars PROVE Shape'
BY PlaceShape, LadderShape, CancelShape, ReportShape, VenueShape, StopShape, StillShape
DEF Next, Ended

(***************************************************************************)
(* Every variable keeps to the values the code gives it: statuses and      *)
(* states are known ones, an order never executes more than its quantity,  *)
(* the ladder makes at most unknownOrderMaxAttempts attempts, and whoever  *)
(* goes on with a row has one.                                             *)
(***************************************************************************)
THEOREM TypeCorrect == Spec => []TypeOK
<1>1. Init => Shape
  BY InitShape
<1>2. Shape /\ [Next]_orderVars => Shape'
  BY ShapeStep
<1>3. Shape => TypeOK
  BY DEF Shape
<1> QED
  BY <1>1, <1>2, <1>3, PTL DEF Spec

-----------------------------------------------------------------------------
(* A refused order is retired *)

\* A book that nobody ever told of the order.
Unknown(b) ==
    /\ \A o \in Objs : ~b.heap[o].oid
    /\ ~b.db.oid /\ b.db.st \in {"none", "NEW", "CANCELED"}

\* No row of it is open.
Gone(b) == ~Held(b) /\ b.db.st \notin Live

\* Until an order is on the venue's book nothing is known of it.
Unplaced ==
    ~Landed =>
      /\ Unknown(book)
      /\ reports = {} /\ queue = {} /\ processing = NoReport
      /\ handle # "acked"
      /\ ladder.ans.kind # "found"
      /\ \A c \in Cancelers : cancel[c].ans.kind \notin {"found", "cancelled"}

\* An order the venue refused is not on its book, but when it is sent again.
NeverTaken ==
    place.pc # "sent" /\ place.ans.kind \in {"none", "refused"} => ~Landed

Retired ==
    place.pc = "done" /\ place.ans.kind \in {"none", "refused"} => Gone(book)

RefusedInv == Shape /\ Unplaced /\ NeverTaken /\ Retired

LEMMA SweepFields ==
  ASSUME NEW b \in Books
  PROVE  /\ Sweep(b).map = b.map /\ Sweep(b).db = b.db /\ Sweep(b).routed = b.routed
         /\ Held(Sweep(b)) <=> Held(b)
         /\ \A o \in Objs : Sweep(b).heap[o] = IF o = b.map \/ o \in References'
                                               THEN b.heap[o] ELSE Blank
BY DEF Sweep, Books, Held

LEMMA SweepKnows ==
  ASSUME NEW b \in Books
  PROVE  /\ Unknown(b) => Unknown(Sweep(b))
         /\ Gone(b) <=> Gone(Sweep(b))
BY SweepFields DEF Unknown, Gone, Blank

LEMMA PutFields ==
  ASSUME NEW b \in Books, NEW o \in Objs, NEW r \in Rows
  PROVE  /\ Put(b, o, r).map = b.map /\ Put(b, o, r).db = b.db
         /\ Put(b, o, r).routed = b.routed
         /\ \A x \in Objs : Put(b, o, r).heap[x] = IF x = o THEN r ELSE b.heap[x]
BY DEF Put, Books

LEMMA SetFields ==
  ASSUME NEW b \in Books, NEW o \in Objs
  PROVE  /\ SetOrder(b, o).map = o /\ SetOrder(b, o).db = b.db
         /\ SetOrder(b, o).heap = b.heap
BY DEF SetOrder, Books

LEMMA DeleteFields ==
  ASSUME NEW b \in Books
  PROVE  /\ DeleteOrder(b).map = None /\ DeleteOrder(b).db = b.db
         /\ DeleteOrder(b).heap = b.heap /\ ~Held(DeleteOrder(b))
BY DEF DeleteOrder, Books, Held

LEMMA UpdateFields ==
  ASSUME NEW b \in Books, NEW r
  PROVE  /\ UpdateOrderOnDb(b, r).map = b.map /\ UpdateOrderOnDb(b, r).heap = b.heap
         /\ UpdateOrderOnDb(b, r).db = IF b.db.st \in Live THEN r ELSE b.db
BY DEF UpdateOrderOnDb, Books

LEMMA SaveFields ==
  ASSUME NEW b \in Books, NEW r
  PROVE  /\ SaveOrderToDb(b, r).map = b.map /\ SaveOrderToDb(b, r).heap = b.heap
         /\ SaveOrderToDb(b, r).db = IF b.db.st = "none" THEN r ELSE b.db
BY DEF SaveOrderToDb, Books

LEMMA TakeBackFields ==
  ASSUME NEW b \in Books
  PROVE  /\ DeleteOrderFromDb(b).map = b.map /\ DeleteOrderFromDb(b).heap = b.heap
         /\ DeleteOrderFromDb(b).db = IF b.db.st = "NEW" /\ ~b.db.oid THEN Blank ELSE b.db
BY DEF DeleteOrderFromDb, Books

LEMMA NewRowFields ==
  /\ NewRow.st = "NEW" /\ NewRow.oid = FALSE /\ NewRow.exec = 0 /\ NewRow.time = 0
  /\ Blank.st = "none" /\ Blank.oid = FALSE /\ Blank.exec = 0 /\ Blank.time = 0
BY DEF NewRow, Blank

LEMMA StampFields ==
  ASSUME NEW r \in Rows
  PROVE  /\ Stamp(r).oid = r.oid /\ Stamp(r).exec = r.exec /\ Stamp(r).time = r.time
         /\ Stamp(r).st = WriteOffStatus(r) /\ Stamp(r).st \in {"FILLED", "CANCELED"}
BY DEF Stamp, Rows, WriteOffStatus

\* Writing off an order nobody knows.
LEMMA WrittenOffUnknown ==
  ASSUME NEW b \in Books, Unknown(b)
  PROVE  /\ Unknown(WrittenOff(b))
         /\ Gone(b) => Gone(WrittenOff(b))
<1>1. CASE Held(b) /\ HeldRow(b).st = "NEW"
  <2> DEFINE row == Stamp(HeldRow(b))
  <2>1. b.map \in Objs /\ HeldRow(b) \in Rows /\ ~HeldRow(b).oid
    BY <1>1, BookFields DEF Unknown, HeldRow
  <2>2. row \in Rows /\ ~row.oid /\ row.st = "CANCELED"
    BY <1>1, <2>1, StampType, StampFields DEF WriteOffStatus
  <2> HIDE DEF row
  <2> DEFINE put == Put(b, b.map, row)
  <2>a. /\ put.db = b.db
        /\ \A x \in Objs : put.heap[x] = IF x = b.map THEN row ELSE b.heap[x]
    BY <2>1, <2>2, PutFields
  <2>b. put \in Books
    BY <2>1, <2>2, PutType
  <2> HIDE DEF put
  <2>3. put \in Books /\ Unknown(put)
    BY <2>2, <2>a, <2>b DEF Unknown
  <2>4. UpdateOrderOnDb(DeleteOrder(put), row) = WrittenOff(b)
    BY <1>1 DEF WrittenOff, put, row
  <2>5. DeleteOrder(put) \in Books /\ Unknown(DeleteOrder(put))
    BY <2>3, DeleteOrderType, DeleteFields DEF Unknown
  <2>6. Unknown(UpdateOrderOnDb(DeleteOrder(put), row))
    BY <2>2, <2>5, UpdateFields DEF Unknown
  <2> QED
    BY <1>1, <2>4, <2>6 DEF Gone
<1>2. CASE ~(Held(b) /\ HeldRow(b).st = "NEW") /\ b.db.st # "none"
  <2> DEFINE row == Stamp(b.db)
  <2>1. row \in Rows /\ ~row.oid /\ row.st = "CANCELED"
    BY BookFields, StampType, StampFields DEF WriteOffStatus, Unknown
  <2> HIDE DEF row
  <2>2. WrittenOff(b) = UpdateOrderOnDb(DeleteOrder(b), row)
    BY <1>2 DEF WrittenOff, row
  <2>3. DeleteOrder(b) \in Books /\ Unknown(DeleteOrder(b))
    BY DeleteOrderType, DeleteFields DEF Unknown
  <2>4. Unknown(UpdateOrderOnDb(DeleteOrder(b), row))
    BY <2>1, <2>3, UpdateFields DEF Unknown
  <2>5. Gone(UpdateOrderOnDb(DeleteOrder(b), row))
    BY <2>1, <2>3, UpdateFields, DeleteFields DEF Gone, Held, Live
  <2> QED
    BY <2>2, <2>4, <2>5
<1>3. CASE ~(Held(b) /\ HeldRow(b).st = "NEW") /\ b.db.st = "none"
  BY <1>3 DEF WrittenOff
<1> QED
  BY <1>1, <1>2, <1>3

\* What does not change the venue's order, or what the bot was told of it.
Silent ==
    /\ UNCHANGED <<venue, reports>>
    /\ queue' \subseteq queue
    /\ processing' \in {processing, NoReport}
    /\ handle' # "acked" \/ handle' = handle
    /\ ladder'.ans \in {ladder.ans, NoAnswer}
    /\ \A c \in Cancelers : cancel'[c].ans = cancel[c].ans

LEMMA SilentStep ==
  ASSUME Unplaced, Silent, ~Landed => Unknown(book')
  PROVE  Unplaced'
BY DEF Unplaced, Silent, Landed, NoAnswer

LEMMA UpdateUnknown ==
  ASSUME NEW b \in Books, NEW r \in Rows, Unknown(b), ~r.oid,
         r.st \in {"none", "NEW", "CANCELED"}
  PROVE  Unknown(UpdateOrderOnDb(b, r))
BY UpdateFields DEF Unknown

LEMMA SetUnknown ==
  ASSUME NEW b \in Books, NEW o \in Objs, Unknown(b)
  PROVE  Unknown(SetOrder(b, o))
BY SetFields DEF Unknown

LEMMA DeleteUnknown ==
  ASSUME NEW b \in Books, Unknown(b)
  PROVE  Unknown(DeleteOrder(b)) /\ ~Held(DeleteOrder(b))
BY DeleteFields DEF Unknown

LEMMA PutUnknown ==
  ASSUME NEW b \in Books, NEW o \in Objs, NEW r \in Rows, Unknown(b), ~r.oid
  PROVE  Unknown(Put(b, o, r))
BY PutFields DEF Unknown

LEMMA SaveUnknown ==
  ASSUME NEW b \in Books, Unknown(b)
  PROVE  Unknown(SaveOrderToDb(b, NewRow))
BY SaveFields, NewRowFields DEF Unknown

LEMMA TakeBackUnknown ==
  ASSUME NEW b \in Books, Unknown(b)
  PROVE  /\ Unknown(DeleteOrderFromDb(b))
         /\ DeleteOrderFromDb(b).db.st \notin Live
         /\ Held(DeleteOrderFromDb(b)) <=> Held(b)
BY TakeBackFields, NewRowFields DEF Unknown, Live, Held

LEMMA RetireUnknown ==
  ASSUME Shape, NEW b \in Books, Unknown(book), Unknown(b), place.obj # None
  PROVE  /\ Unknown(Retire(b)) /\ Retire(b).db.st \notin Live
         /\ Held(Retire(b)) <=> Held(b)
<1> DEFINE row == [book.heap[place.obj] EXCEPT !.st = "CANCELED"]
<1>1. place.obj \in Objs /\ book \in Books
  BY Waiting, PlaceMoves DEF PlaceStates
<1>2. book.heap[place.obj] \in Rows /\ ~book.heap[place.obj].oid
  BY <1>1, BookFields DEF Unknown
<1>3. row \in Rows /\ ~row.oid /\ row.st = "CANCELED"
  BY <1>2 DEF Rows, Statuses
<1>4. Retire(b) = UpdateOrderOnDb(b, row)
  BY DEF Retire
<1> HIDE DEF row
<1>5. Unknown(UpdateOrderOnDb(b, row))
  BY <1>3, UpdateUnknown
<1> QED
  BY <1>3, <1>4, <1>5, UpdateFields DEF Held, Live

LEMMA ForgetUnknown ==
  ASSUME book \in Books, Unknown(book)
  PROVE  Unknown(Forget(book)) /\ ~Held(Forget(book)) /\ Forget(book) \in Books
BY DeleteUnknown, DeleteOrderType DEF Forget, Tracked

LEMMA PlaceUnplaced ==
  ASSUME RefusedInv, ~Landed, PlaceNext
  PROVE  Unplaced' /\ Retired'
<1>1. /\ book \in Books /\ Unknown(book) /\ NewRow \in Rows /\ ~NewRow.oid
      /\ Shape /\ Unplaced /\ Retired
      /\ place.pc \notin {"idle", "done"} => place.obj # None
      /\ place.ans.kind # "accepted"
  BY Waiting, NewRows, NewRowFields DEF RefusedInv, Unplaced, Shape, PlaceKinds
<1>2. CASE PlaceBegin
  <2>1. PICK o \in Fresh : book' = Sweep(SetOrder(Put(book, o, NewRow), o))
    BY <1>2 DEF PlaceBegin
  <2>2. o \in Objs
    BY DEF Fresh, Unreferenced
  <2>3. Put(book, o, NewRow) \in Books /\ Unknown(Put(book, o, NewRow))
    BY <1>1, <2>2, PutType, PutUnknown
  <2>4. /\ SetOrder(Put(book, o, NewRow), o) \in Books
        /\ Unknown(SetOrder(Put(book, o, NewRow), o))
    BY <2>2, <2>3, SetOrderType, SetUnknown
  <2>5. Unknown(book')
    BY <2>1, <2>4, SweepKnows
  <2>6. Silent /\ place'.pc # "done"
    BY <1>1, <1>2, PlaceMoves DEF PlaceBegin, Silent, placeOther, PlaceStates
  <2> QED
    BY <1>1, <2>5, <2>6, SilentStep DEF Retired
<1>3. CASE PlaceSend \/ PlaceGuarded \/ PlaceZeroQuote
  <2> DEFINE saved == SaveOrderToDb(book, NewRow)
  <2>1. saved \in Books /\ Unknown(saved)
    BY <1>1, SaveType, SaveUnknown
  <2> HIDE DEF saved
  <2>2. DeleteOrder(saved) \in Books /\ Unknown(DeleteOrder(saved)) /\ ~Held(DeleteOrder(saved))
    BY <2>1, DeleteOrderType, DeleteUnknown
  <2> DEFINE back == DeleteOrderFromDb(DeleteOrder(saved))
  <2>3. back \in Books /\ Unknown(back) /\ Gone(back)
    BY <2>2, DeleteRowType, TakeBackUnknown DEF Gone
  <2> HIDE DEF back
  <2>4. \/ book' = Sweep(saved) /\ place'.pc # "done"
        \/ book' = Sweep(back)
    BY <1>3, <1>1, PlaceMoves
    DEF PlaceSend, PlaceGuarded, PlaceZeroQuote, saved, back, PlaceStates
  <2>5. Unknown(book') /\ (place'.pc = "done" => Gone(book'))
    BY <2>1, <2>3, <2>4, SweepKnows
  <2>6. Silent
    BY <1>3 DEF PlaceSend, PlaceGuarded, PlaceZeroQuote, Silent, placeOther
  <2> QED
    BY <1>1, <2>5, <2>6, SilentStep DEF Retired
<1>4. CASE PlaceAnswered \/ PlaceRetry
  <2>1. Silent /\ book' = book /\ place'.pc # "done"
    BY <1>1, <1>4, PlaceMoves
    DEF PlaceAnswered, PlaceRetry, Silent, placeOther, Settled, PlaceStates, Shape, PlaceKinds
  <2> QED
    BY <1>1, <2>1, SilentStep DEF Retired
<1>5. CASE PlaceRepair \/ PlaceAccepted
  BY <1>1, <1>5 DEF PlaceRepair, PlaceAccepted, Shape, PlaceKinds
<1>6. CASE PlaceResend
  <2>1. place.obj \in Objs
    BY <1>1, <1>6, PlaceMoves DEF PlaceResend, PlaceStates
  <2>2. Unknown(book')
    BY <1>1, <1>6, <2>1, SetOrderType, SetUnknown, SweepKnows DEF PlaceResend
  <2>3. Silent /\ place'.pc # "done"
    BY <1>6, PlaceMoves DEF PlaceResend, Silent, placeOther, PlaceStates
  <2> QED
    BY <1>1, <2>2, <2>3, SilentStep DEF Retired
<1>7. CASE PlaceRefused \/ PlaceLocal
  <2>1. ~Acknowledged(book) /\ place.obj # None
    BY <1>1, <1>7, BookFields
    DEF PlaceRefused, PlaceLocal, Acknowledged, Unknown, HeldRow
  <2>2. Unknown(Forget(book)) /\ ~Held(Forget(book)) /\ Forget(book) \in Books
    BY <1>1, ForgetUnknown
  <2>3. /\ Unknown(Retire(Forget(book))) /\ Gone(Retire(Forget(book)))
        /\ Retire(Forget(book)) \in Books
    BY <1>1, <2>1, <2>2, RetireUnknown, RetireType DEF Gone
  <2>4. /\ Unknown(DeleteOrderFromDb(Forget(book))) /\ Gone(DeleteOrderFromDb(Forget(book)))
        /\ DeleteOrderFromDb(Forget(book)) \in Books
    BY <2>2, TakeBackUnknown, DeleteRowType DEF Gone
  <2>5. Unknown(book') /\ Gone(book')
    BY <1>7, <2>1, <2>3, <2>4, SweepKnows DEF PlaceRefused, PlaceLocal
  <2>6. Silent
    BY <1>7 DEF PlaceRefused, PlaceLocal, Silent, placeOther
  <2> QED
    BY <1>1, <2>5, <2>6, SilentStep DEF Retired
<1>8. CASE PlaceLost
  <2>1. book' = book \/ book' = Sweep(book)
    BY <1>8 DEF PlaceLost
  <2>2. Unknown(book')
    BY <1>1, <2>1, SweepKnows
  <2>a. ladder'.ans = ladder.ans
    BY <1>1, <1>8, PlaceMoves DEF PlaceLost, HandleUnknownOrder, LadderStates
  <2>3. Silent
    BY <1>8, <2>a DEF PlaceLost, Silent, placeOther
  <2>4. place'.ans.kind = "lost"
    BY <1>1, <1>8, PlaceMoves DEF PlaceLost, PlaceStates, Shape, PlaceKinds
  <2> QED
    BY <1>1, <2>2, <2>3, <2>4, SilentStep DEF Retired
<1>9. CASE PlaceDenied
  <2>1. place.obj # None /\ DeleteOrder(book) \in Books /\ Unknown(DeleteOrder(book))
    BY <1>1, <1>9, DeleteOrderType, DeleteUnknown DEF PlaceDenied
  <2>2. Unknown(Retire(DeleteOrder(book))) /\ Retire(DeleteOrder(book)) \in Books
    BY <1>1, <2>1, RetireUnknown, RetireType
  <2>3. Unknown(book')
    BY <1>1, <1>9, <2>2, SweepKnows DEF PlaceDenied
  <2>4. Silent
    BY <1>9 DEF PlaceDenied, Silent, placeOther
  <2>5. place'.ans.kind = "lost"
    BY <1>1, <1>9, PlaceMoves DEF PlaceDenied, Shape, PlaceKinds
  <2> QED
    BY <1>1, <2>3, <2>4, <2>5, SilentStep DEF Retired
<1> QED
  BY <1>2, <1>3, <1>4, <1>5, <1>6, <1>7, <1>8, <1>9 DEF PlaceNext

LEMMA OthersUnplaced ==
  ASSUME RefusedInv, ~Landed, Silent, Unknown(book'), Gone(book) => Gone(book'),
         place' = place \/ place'.ans.kind = "lost"
  PROVE  Unplaced' /\ Retired'
BY SilentStep DEF RefusedInv, Retired

LEMMA NobodyKnows ==
  ASSUME RefusedInv, ~Landed
  PROVE  /\ Shape /\ Unplaced /\ book \in Books /\ Unknown(book)
         /\ Held(book) => book.map \in Objs /\ HeldRow(book) \in Rows /\ ~HeldRow(book).oid
BY Waiting, BookFields DEF RefusedInv, Unplaced, Unknown, HeldRow

LEMMA LadderUnplaced ==
  ASSUME RefusedInv, ~Landed, LadderNext
  PROVE  Unplaced' /\ Retired'
<1>1. /\ book \in Books /\ Unknown(book) /\ Shape /\ Unplaced
      /\ handle # "acked" /\ ladder.ans.kind # "found"
  BY NobodyKnows DEF Unplaced
<1>2. ASSUME NEW found, Finish(found), UNCHANGED ladderOther
      PROVE  /\ Silent
             /\ place' = place \/ place'.ans.kind = "lost"
  <2>1. ladder'.ans = NoAnswer
    BY <1>2 DEF Finish
  <2>2. \A c \in Cancelers : cancel'[c].ans = cancel[c].ans
    BY <1>2, PlaceMoves, <1>1 DEF Finish, CancelStates
  <2>3. place' = place \/ (place.pc = "ladder" /\ place'.ans = place.ans)
    BY <1>2, PlaceMoves, <1>1 DEF Finish, PlaceStates
  <2> QED
    BY <1>1, <1>2, <2>1, <2>2, <2>3 DEF Silent, ladderOther, Shape, PlaceKinds
<1>3. ASSUME NEW pc, NEW o, Again(pc, o), GoesOn
      PROVE  Silent /\ place' = place
  <2>1. ladder'.ans = ladder.ans
    BY <1>1, <1>3, PlaceMoves DEF Again, LadderStates
  <2> QED
    BY <1>3, <2>1 DEF GoesOn, ladderOther, Silent
<1>4. Unknown(Sweep(book)) /\ (Gone(book) => Gone(Sweep(book)))
  BY <1>1, SweepKnows
<1>5. CASE LadderEnter
  <2>1. \E pc, o : Again(pc, o)
    BY <1>5 DEF LadderEnter, RoundOf
  <2>2. Silent /\ place' = place
    BY <1>3, <1>5, <2>1 DEF LadderEnter
  <2>3. ASSUME NEW o \in Fresh, book' = Sweep(Put(book, o, book.db))
        PROVE  Unknown(book') /\ (Gone(book) => Gone(book'))
    <3>1. o \in Objs /\ book.db \in Rows /\ ~book.db.oid
      BY <1>1, BookFields DEF Fresh, Unreferenced, Unknown
    <3>2. /\ Put(book, o, book.db) \in Books /\ Unknown(Put(book, o, book.db))
          /\ Gone(book) => Gone(Put(book, o, book.db))
      BY <1>1, <3>1, PutType, PutUnknown, PutFields DEF Gone, Held
    <3> QED
      BY <2>3, <3>2, SweepKnows
  <2>4. Unknown(book') /\ (Gone(book) => Gone(book'))
    BY <1>4, <1>5, <2>3 DEF LadderEnter
  <2> QED
    BY <2>2, <2>4, OthersUnplaced
<1>6. CASE LadderWaited
  <2>1. book' = Sweep(book)
    BY <1>1, <1>6 DEF LadderWaited
  <2>2. \E pc : Again(pc, ladder.obj)
    BY <1>6 DEF LadderWaited
  <2> QED
    BY <1>3, <1>4, <1>6, <2>1, <2>2, OthersUnplaced DEF LadderWaited
<1>7. CASE WriteOff
  <2>1. WrittenOff(book) \in Books /\ Unknown(WrittenOff(book))
        /\ (Gone(book) => Gone(WrittenOff(book)))
    BY <1>1, WrittenOffType, WrittenOffUnknown
  <2>2. Unknown(book') /\ (Gone(book) => Gone(book'))
    BY <1>7, <2>1, SweepKnows DEF WriteOff
  <2> QED
    BY <1>2, <1>7, <2>2, OthersUnplaced DEF WriteOff
<1>8. CASE Repeat
  BY <1>3, <1>4, <1>8, OthersUnplaced DEF Repeat
<1>9. CASE LadderSearched /\ Again("ask", ladder.obj) /\ GoesOn
           /\ book' = Sweep(IF ladder.ans.kind = "found"
                            THEN AdoptExchangeOrderId(book, ladder.obj) ELSE book)
  BY <1>1, <1>3, <1>4, <1>9, OthersUnplaced
<1>10. CASE LadderKeeps
  BY <1>2, <1>4, <1>10, OthersUnplaced DEF LadderKeeps
<1>11. CASE LadderFound
  BY <1>1, <1>11 DEF LadderFound
<1> QED
  BY <1>5, <1>6, <1>7, <1>8, <1>9, <1>10, <1>11
  DEF LadderNext, LadderSearched, LadderDenied, LadderGivesUp

LEMMA CancelUnplaced ==
  ASSUME RefusedInv, ~Landed, NEW c \in Cancelers, CancelNext(c)
  PROVE  Unplaced' /\ Retired'
<1>1. /\ book \in Books /\ Unknown(book) /\ Shape /\ Unplaced
      /\ handle # "acked" /\ cancel[c].ans.kind \notin {"found", "cancelled"}
  BY NobodyKnows DEF Unplaced
<1>2. Unknown(Sweep(book)) /\ (Gone(book) => Gone(Sweep(book)))
  BY <1>1, SweepKnows
<1>3. book' = book \/ book' = Sweep(book)
  BY <1>1 DEF CancelNext, CancelBegin, CancelWaited, CancelSearched, CancelUnknown,
              CancelRefused, CancelConfirmed
<1>4. \A d \in Cancelers : cancel'[d].ans = cancel[d].ans
  <2>1. ASSUME NEW pc, NEW o, Goes(c, pc, o)
        PROVE  \A d \in Cancelers : cancel'[d].ans = cancel[d].ans
    BY <1>1, <2>1, PlaceMoves DEF Goes, CancelStates
  <2>2. CASE CancelBegin(c)
    BY <1>1, <2>2, PlaceMoves DEF CancelBegin, CancelStates
  <2>3. CASE ~CancelBegin(c)
    <3>1. \E pc, o : Goes(c, pc, o)
      BY <2>3 DEF CancelNext, CancelWaited, CancelSearched, CancelUnknown, CancelRefused,
                  CancelConfirmed
    <3> QED
      BY <2>1, <3>1
  <2> QED
    BY <2>2, <2>3
<1>5. ladder'.ans = ladder.ans
  <2>1. ladder' = ladder \/ HandleUnknownOrder(FALSE)
    BY DEF CancelNext, CancelBegin, CancelWaited, CancelSearched, CancelUnknown,
           CancelRefused, CancelConfirmed
  <2> QED
    BY <1>1, <2>1, PlaceMoves DEF HandleUnknownOrder, LadderStates
<1>6. UNCHANGED cancelOther
  BY DEF CancelNext, CancelBegin, CancelWaited, CancelSearched, CancelUnknown,
         CancelRefused, CancelConfirmed
<1>7. Silent /\ place' = place
  BY <1>4, <1>5, <1>6 DEF Silent, cancelOther
<1> QED
  BY <1>1, <1>2, <1>3, <1>7, OthersUnplaced

LEMMA ReportUnplaced ==
  ASSUME RefusedInv, ~Landed
  PROVE  ~ReportNext
BY NobodyKnows DEF Unplaced, ReportNext, ReportBegin, ReportProcess, Earliest

LEMMA StopUnplaced ==
  ASSUME RefusedInv, ~Landed, Stop
  PROVE  Unplaced' /\ Retired'
<1> DEFINE b == [book EXCEPT !.map = None, !.routed = FALSE]
<1>1. book \in Books /\ Unknown(book)
  BY NobodyKnows
<1>2. b \in Books /\ Unknown(b) /\ (Gone(book) => Gone(b))
  BY <1>1 DEF Books, Unknown, Gone, Held
<1>3. book' = Sweep(b)
  BY DEF Stop
<1> HIDE DEF b
<1>4. Unknown(book') /\ (Gone(book) => Gone(book'))
  BY <1>2, <1>3, SweepKnows
<1>5. Silent /\ place' = place
  BY DEF Stop, Silent
<1> QED
  BY <1>4, <1>5, OthersUnplaced

\* An order that landed stays so.
LEMMA StaysLanded == ASSUME Shape, [Next]_orderVars, Landed PROVE Landed'
<1>1. ASSUME NEW st \in Statuses, NEW exec \in 0..Size, Becomes(st, exec)
      PROVE  Landed'
  BY <1>1, BecomesType DEF Landed
<1>2. venue.exec \in 0..Size
  BY RestTypes DEF Reports
<1>3. ASSUME NEW q \in (venue.exec + 1)..Size PROVE q \in 0..Size
  BY <1>2, <1>3, Constants
<1>4. CASE VenueNext
  BY <1>1, <1>2, <1>3, <1>4, Constants
  DEF VenueNext, VenueAccept, VenueFill, VenueAnswer, VenueDescribe, VenueSearch,
      VenueRepair, VenueCancel, Landed, Statuses, Live
<1>5. CASE PlaceNext
  BY <1>5 DEF PlaceNext, PlaceBegin, PlaceSend, PlaceGuarded, PlaceZeroQuote, PlaceAnswered,
     PlaceRepair, PlaceAccepted, PlaceRetry, PlaceResend, PlaceRefused, PlaceLocal,
     PlaceLost, PlaceDenied, placeOther, Landed
<1>6. CASE LadderNext
  BY <1>6 DEF LadderNext, LadderEnter, LadderWaited, LadderSearched, LadderDenied,
     LadderFound, LadderKeeps, LadderGivesUp, WriteOff, Repeat, GoesOn, ladderOther, Landed
<1>7. ASSUME NEW c \in Cancelers, CancelNext(c) PROVE Landed'
  BY <1>7 DEF CancelNext, CancelBegin, CancelWaited, CancelSearched, CancelUnknown,
     CancelRefused, CancelConfirmed, cancelOther, Landed
<1>8. CASE ReportNext
  BY <1>8 DEF ReportNext, ReportArrives, ReportBegin, ReportProcess, reportsOther, Landed
<1>9. CASE Stop \/ UNCHANGED orderVars
  BY <1>9 DEF Stop, orderVars, Landed
<1> QED
  BY <1>4, <1>5, <1>6, <1>7, <1>8, <1>9 DEF Next, Ended

LEMMA VenueUnplaced ==
  ASSUME RefusedInv, VenueNext
  PROVE  Unplaced' /\ NeverTaken' /\ Retired'
<1>1. /\ Shape /\ Unplaced /\ NeverTaken /\ Retired /\ book' = book /\ handle' = handle
      /\ queue' = queue /\ processing' = processing
  BY DEF RefusedInv, VenueNext, VenueAccept, VenueFill, VenueAnswer, VenueDescribe,
         VenueSearch, VenueRepair, VenueCancel
<1>2. CASE VenueAnswer
  <2>1. PICK kind \in {"accepted", "refused", "lost"} :
           /\ place' = [place EXCEPT !.pc = "answered", !.ans = Answer(kind)]
           /\ kind = "refused" => ~Landed
    BY <1>2 DEF VenueAnswer
  <2>2. place'.pc = "answered" /\ place'.ans.kind = kind
    BY <1>1, <2>1, AnswerType, PlaceMoves DEF AnswerKinds, PlaceStates
  <2>3. UNCHANGED <<venue, reports, ladder, cancel>>
    BY <1>2 DEF VenueAnswer
  <2>4. Unplaced'
    BY <1>1, <2>3 DEF Unplaced, Landed
  <2>5. NeverTaken' /\ Retired'
    BY <2>1, <2>2, <2>3 DEF NeverTaken, Retired, Landed
  <2> QED
    BY <2>4, <2>5
<1>3. CASE VenueAccept
  <2>1. place.pc = "sent" /\ place' = place
    BY <1>3 DEF VenueAccept
  <2>2. Landed'
    BY <1>1, <1>3, BecomesType, Constants DEF VenueAccept, Statuses, Live, Landed
  <2> QED
    BY <2>1, <2>2 DEF Unplaced, NeverTaken, Retired
<1>4. CASE ~VenueAnswer /\ ~VenueAccept /\ Landed
  <2>1. Landed'
    BY <1>1, <1>4, StaysLanded DEF Next
  <2>2. place' = place \/ (place.pc = "repairing" /\ place'.ans = place.ans)
    BY <1>1, <1>4, PlaceMoves
    DEF VenueNext, VenueFill, VenueDescribe, VenueSearch, VenueRepair, VenueCancel, PlaceStates
  <2>3. place.pc = "sent" \/ place.ans.kind \notin {"none", "refused"}
    BY <1>1, <1>4 DEF NeverTaken
  <2>4. place' = place \/ place'.ans.kind = "accepted"
    BY <1>1, <2>2 DEF Shape, PlaceKinds
  <2> QED
    BY <1>1, <2>1, <2>3, <2>4 DEF Unplaced, NeverTaken, Retired
<1>5. CASE ~VenueAnswer /\ ~VenueAccept /\ ~Landed
  <2>1. venue.st = "none"
    BY <1>5 DEF Landed
  <2>2. ~VenueFill /\ ~VenueRepair
    BY <1>1, <1>5, <2>1 DEF VenueFill, VenueRepair, Shape, PlaceKinds, Live
  <2>3. CASE VenueDescribe
    <3>1. PICK kind \in {"absent", "failed"} :
             ladder' = [ladder EXCEPT !.pc = "told", !.ans = Answer(kind)]
      BY <1>5, <2>1, <2>3 DEF VenueDescribe, Lookup, Lags
    <3>2. ladder'.ans.kind = kind
      BY <1>1, <3>1, AnswerType, PlaceMoves DEF AnswerKinds, LadderStates
    <3>3. UNCHANGED <<venue, reports, place, cancel>>
      BY <2>3 DEF VenueDescribe
    <3> QED
      BY <1>1, <3>2, <3>3 DEF Unplaced, NeverTaken, Retired, Landed
  <2>4. CASE VenueSearch
    <3>1. PICK kind \in {"absent", "failed"} :
         \/ /\ ladder' = [ladder EXCEPT !.pc = "searched", !.ans = Answer(kind)]
            /\ UNCHANGED cancel
         \/ \E c \in Cancelers :
              /\ cancel[c].pc = "search"
              /\ cancel' = [cancel EXCEPT ![c].pc = "searched", ![c].ans = Answer(kind)]
              /\ UNCHANGED ladder
      BY <1>5, <2>1, <2>4 DEF VenueSearch, Lookup, Listed, Live
    <3>2. Answer(kind) \in Answers /\ Answer(kind).kind = kind
      BY <1>1, AnswerType DEF AnswerKinds
    <3>3. ladder' = ladder \/ ladder'.ans.kind = kind
      BY <1>1, <3>1, <3>2, PlaceMoves DEF LadderStates
    <3>4. \A d \in Cancelers : cancel'[d] = cancel[d] \/ cancel'[d].ans.kind = kind
      <4>1. CASE cancel' = cancel
        BY <4>1
      <4>2. ASSUME NEW c \in Cancelers, cancel[c].pc = "search",
                   cancel' = [cancel EXCEPT ![c].pc = "searched", ![c].ans = Answer(kind)]
            PROVE  \A d \in Cancelers : cancel'[d] = cancel[d] \/ cancel'[d].ans.kind = kind
        <5>1. /\ \A d \in Cancelers \ {c} : cancel'[d] = cancel[d]
              /\ cancel'[c].ans = Answer(kind)
          BY <1>1, <3>2, <4>2, CancelAnswered DEF Holding
        <5> QED
          BY <3>2, <5>1
      <4> QED
        BY <3>1, <4>1, <4>2
    <3>5. UNCHANGED <<venue, reports, place>>
      BY <2>4 DEF VenueSearch
    <3> QED
      BY <1>1, <3>3, <3>4, <3>5 DEF Unplaced, NeverTaken, Retired, Landed
  <2>5. ASSUME NEW c \in Cancelers, VenueCancel(c)
        PROVE  Unplaced' /\ NeverTaken' /\ Retired'
    <3>1. PICK kind \in {"unknown", "refused", "lost"} : Answered(c, Answer(kind))
      BY <2>1, <2>5 DEF VenueCancel, Live
    <3>2. Answer(kind) \in Answers /\ Answer(kind).kind = kind
      BY <1>1, AnswerType DEF AnswerKinds
    <3>3. \A d \in Cancelers : cancel'[d] = cancel[d] \/ cancel'[d].ans.kind = kind
      <4>1. cancel[c].pc \in Holding
        BY <2>5 DEF VenueCancel, Holding
      <4>2. cancel' = [cancel EXCEPT ![c].pc = "answered", ![c].ans = Answer(kind)]
        BY <3>1 DEF Answered
      <4>3. /\ \A d \in Cancelers \ {c} : cancel'[d] = cancel[d]
            /\ cancel'[c].ans = Answer(kind)
        BY <1>1, <3>2, <4>1, <4>2, CancelAnswered
      <4> QED
        BY <3>2, <4>3
    <3>4. UNCHANGED <<venue, reports, place, ladder>>
      BY <2>1, <2>5 DEF VenueCancel, Live
    <3> QED
      BY <1>1, <3>3, <3>4 DEF Unplaced, NeverTaken, Retired, Landed
  <2> QED
    BY <1>5, <2>2, <2>3, <2>4, <2>5 DEF VenueNext
<1> QED
  BY <1>2, <1>3, <1>4, <1>5

\* Only the venue answers the placement.
LEMMA AnswerKept ==
  ASSUME Shape, PlaceNext \/ LadderNext \/ ReportNext \/ Stop \/ UNCHANGED orderVars
                \/ \E c \in Cancelers : CancelNext(c)
  PROVE  /\ place'.ans.kind = place.ans.kind /\ venue' = venue
         /\ place.pc = "sent" => place' = place
         /\ place.pc = "done" => place' = place
<1>1. CASE PlaceNext
  BY <1>1, PlaceMoves, RepairMoves DEF PlaceNext, PlaceBegin, PlaceSend, PlaceGuarded, PlaceZeroQuote,
     PlaceAnswered, PlaceRepair, PlaceAccepted, PlaceRetry, PlaceResend, PlaceRefused,
     PlaceLocal, PlaceLost, PlaceDenied, PlaceStates, placeOther
<1>2. CASE LadderNext
  <2>1. ASSUME NEW found, Finish(found)
        PROVE  /\ place'.ans = place.ans
               /\ place.pc \in {"sent", "done"} => place' = place
    BY <2>1, PlaceMoves DEF Finish, PlaceStates
  <2>2. (\E found : Finish(found)) \/ place' = place
    BY <1>2 DEF LadderNext, LadderEnter, LadderWaited, LadderSearched, LadderDenied,
       LadderFound, LadderKeeps, LadderGivesUp, WriteOff, Repeat, GoesOn
  <2>3. venue' = venue
    BY <1>2 DEF LadderNext, LadderEnter, LadderWaited, LadderSearched, LadderDenied,
       LadderFound, LadderKeeps, LadderGivesUp, WriteOff, Repeat, GoesOn, ladderOther
  <2> QED
    BY <2>1, <2>2, <2>3
<1>3. CASE \E c \in Cancelers : CancelNext(c)
  BY <1>3 DEF CancelNext, CancelBegin, CancelWaited, CancelSearched, CancelUnknown,
     CancelRefused, CancelConfirmed, cancelOther
<1>4. CASE ReportNext
  BY <1>4 DEF ReportNext, ReportArrives, ReportBegin, ReportProcess, reportsOther
<1>5. CASE Stop \/ UNCHANGED orderVars
  BY <1>5 DEF Stop, orderVars
<1> QED
  BY <1>1, <1>2, <1>3, <1>4, <1>5

LEMMA RefusedStep == ASSUME RefusedInv, [Next]_orderVars PROVE RefusedInv'
<1>1. Shape' /\ (Landed => Landed') /\ Shape
  BY ShapeStep, StaysLanded DEF RefusedInv
<1>2. CASE VenueNext
  BY <1>1, <1>2, VenueUnplaced DEF RefusedInv
<1>3. CASE PlaceNext \/ LadderNext \/ ReportNext \/ Stop \/ UNCHANGED orderVars
           \/ \E c \in Cancelers : CancelNext(c)
  <2>1. /\ place'.ans.kind = place.ans.kind /\ venue' = venue
        /\ place.pc = "sent" => place' = place
    BY <1>1, <1>3, AnswerKept
  <2>2. CASE Landed
    BY <1>1, <2>1, <2>2 DEF RefusedInv, Unplaced, NeverTaken, Retired
  <2>3. CASE ~Landed
    <3>1. ~Landed'
      BY <2>1, <2>3 DEF Landed
    <3>2. Unplaced' /\ Retired'
      <4>1. CASE UNCHANGED orderVars
        BY <4>1 DEF orderVars, RefusedInv, Unplaced, Retired, Unknown, Gone, Held, Landed
      <4> QED
        BY <1>3, <2>3, <4>1, PlaceUnplaced, LadderUnplaced, CancelUnplaced, ReportUnplaced,
           StopUnplaced
    <3> QED
      BY <1>1, <3>1, <3>2 DEF RefusedInv, NeverTaken
  <2> QED
    BY <2>2, <2>3
<1> QED
  BY <1>2, <1>3 DEF Next, Ended

LEMMA InitRefused == ASSUME Init PROVE RefusedInv
BY InitShape DEF Init, RefusedInv, Unplaced, NeverTaken, Retired, Unknown, Blank, NoAnswer,
   NoReport, Landed

(***************************************************************************)
(* An order that the venue refused or a guard stopped leaves no row that   *)
(* reads as open, in the map or stored, whatever cancels, look-ups, a stop *)
(* or an earlier send of it did meanwhile.                                 *)
(***************************************************************************)
THEOREM RefusedIsRetiredHolds == Spec => []RefusedIsRetired
<1>1. Init => RefusedInv
  BY InitRefused
<1>2. RefusedInv /\ [Next]_orderVars => RefusedInv'
  BY RefusedStep
<1>3. RefusedInv => RefusedIsRetired
  BY DEF RefusedInv, Retired, Gone, RefusedIsRetired
<1> QED
  BY <1>1, <1>2, <1>3, PTL DEF Spec

-----------------------------------------------------------------------------
(* Nothing is written off while its placement is in flight *)

\* Whoever says that the order is cancelled is right; a cancel that came too
\* late is answered with the whole order filled.
Evidence ==
    /\ venue.st = "FILLED" => venue.exec = Size
    /\ \A r \in reports \cup queue \cup {processing} :
         r.st = "CANCELED" => venue.st = "CANCELED"
    /\ ladder.ans.st = "CANCELED" => venue.st = "CANCELED"
    /\ \A c \in Cancelers :
         /\ cancel[c].ans.st = "CANCELED" => venue.st = "CANCELED"
         /\ cancel[c].ans.kind = "cancelled" /\ cancel[c].ans.st # "CANCELED" =>
              cancel[c].ans.st = "FILLED" /\ cancel[c].ans.exec = Size

\* Before the placement there is nothing, and what a handle's state says of it.
Begins ==
    /\ place.pc = "idle" => /\ handle = "none" /\ book.db = Blank /\ ~Held(book) /\ ~Landed
                            /\ ladder.pc = "idle" /\ place.count = 0
                            /\ \A c \in Cancelers : cancel[c].pc = "idle"
    /\ place.pc = "resending" => place.count # 0
    /\ ladder.pc = "idle" => attempts = 0
    /\ handle = "pending" => place.pc \in {"saving", "sent", "answered"}

\* The first send of the placement is not answered yet.
InFlight == handle = "pending" /\ place.count = 0

\* Its own object is untouched; a report may have told the bot of the order, by
\* another object in the map and by the stored row.
RowsInFlight(b) ==
    /\ b.heap[place.obj] = NewRow
    /\ place.pc = "saving" => b.db = Blank /\ ~Landed
    /\ place.pc # "saving" => b.db = NewRow \/ b.db.oid
    /\ Held(b) => /\ HeldRow(b).oid <=> b.db.oid
                  /\ ~HeldRow(b).oid => b.map = place.obj
    /\ b.db.st = "CANCELED" => venue.st = "CANCELED"

\* A cancel waits for the placement, or it holds a row with the venue's id.
CancelInFlight(c) ==
    /\ cancel[c].pc \in {"idle", "wait", "send", "answered", "ladder", "done"}
    /\ cancel[c].pc \in {"send", "answered"} => book.heap[cancel[c].obj].oid
    /\ cancel[c].pc \in {"send", "answered", "ladder"} => book.db.oid

\* The ladder asks by the venue's id, and only failed look-ups are counted.
LadderInFlight ==
    /\ ladder.pc \in {"idle", "enter", "ask", "told"}
    /\ ladder.pc # "idle" => book.db.oid
    /\ ladder.pc \in {"ask", "told"} /\ ladder.obj # None => book.heap[ladder.obj].oid
    /\ ladder.pc = "told" => ladder.ans.kind \in {"found", "failed"}
    /\ ladder.pc = "told" /\ ladder.ans.kind = "failed" => attempts <= faults
    /\ ladder.pc = "enter" => attempts <= faults
    /\ ladder.pc = "ask" => attempts <= faults + 1

Flight == /\ RowsInFlight(book) /\ LadderInFlight
          /\ \A c \in Cancelers : CancelInFlight(c)

FlightInv == /\ RefusedInv /\ Evidence /\ Begins
             /\ Patient(terms) /\ InFlight => Flight

\* A cancelled order stays so.
LEMMA StaysCanceled ==
  ASSUME Shape, [Next]_orderVars, venue.st = "CANCELED"
  PROVE  venue'.st = "CANCELED"
<1>1. CASE VenueNext
  <2>1. ~(\E exec : Becomes("NEW", exec) /\ ~Landed)
    BY DEF Landed
  <2>2. UNCHANGED venue
    BY <1>1 DEF VenueNext, VenueAccept, VenueFill, VenueAnswer, VenueDescribe, VenueSearch,
       VenueRepair, VenueCancel, Landed, Live
  <2> QED
    BY <2>2
<1>2. CASE ~VenueNext
  <2>1. venue' = venue
    BY <1>2, AnswerKept DEF Next, Ended
  <2> QED
    BY <2>1
<1> QED
  BY <1>1, <1>2

LEMMA EvidenceKept ==
  ASSUME Evidence,
         venue.st = "CANCELED" => venue'.st = "CANCELED",
         venue'.st = "FILLED" => venue'.exec = Size,
         reports' \subseteq reports \cup {venue'}, queue' \subseteq queue \cup reports,
         processing' \in queue \cup {processing, NoReport},
         ladder'.ans \in {ladder.ans, NoAnswer} \/ ladder'.ans.st = venue'.st,
         \A c \in Cancelers :
           \/ cancel'[c].ans = cancel[c].ans
           \/ /\ cancel'[c].ans.st = "CANCELED" => venue'.st = "CANCELED"
              /\ cancel'[c].ans.kind = "cancelled" /\ cancel'[c].ans.st # "CANCELED" =>
                   cancel'[c].ans.st = "FILLED" /\ cancel'[c].ans.exec = Size
  PROVE  Evidence'
<1>1. \A r \in reports' \cup queue' \cup {processing'} :
        r.st = "CANCELED" => venue'.st = "CANCELED"
  BY DEF Evidence, NoReport
<1>2. ladder'.ans.st = "CANCELED" => venue'.st = "CANCELED"
  BY DEF Evidence, NoAnswer
<1>3. \A c \in Cancelers :
        /\ cancel'[c].ans.st = "CANCELED" => venue'.st = "CANCELED"
        /\ cancel'[c].ans.kind = "cancelled" /\ cancel'[c].ans.st # "CANCELED" =>
             cancel'[c].ans.st = "FILLED" /\ cancel'[c].ans.exec = Size
  BY DEF Evidence
<1> QED
  BY <1>1, <1>2, <1>3 DEF Evidence

LEMMA EvidenceVenue == ASSUME Shape, Evidence, VenueNext PROVE Evidence'
<1>1. venue.st = "CANCELED" => venue'.st = "CANCELED"
  BY StaysCanceled DEF Next
<1>2. queue' = queue /\ processing' = processing
  BY DEF VenueNext, VenueAccept, VenueFill, VenueAnswer, VenueDescribe, VenueSearch,
     VenueRepair, VenueCancel
<1>3. venue.st = "FILLED" => venue.exec = Size
  BY DEF Evidence
<1>a. \A st, exec : Becomes(st, exec) =>
        venue'.st = st /\ venue'.exec = exec /\ reports' \subseteq reports \cup {venue'}
  BY DEF Becomes
<1>4. /\ venue'.st = "FILLED" => venue'.exec = Size
      /\ reports' \subseteq reports \cup {venue'}
  <2>1. CASE UNCHANGED <<venue, reports>>
    BY <1>3, <2>1
  <2>2. CASE VenueAccept
    BY <1>a, <2>2 DEF VenueAccept
  <2>3. CASE VenueFill
    <3>1. PICK q \in (venue.exec + 1)..Size :
            Becomes(IF q = Size THEN "FILLED" ELSE "PARTIALLY_FILLED", q)
      BY <2>3 DEF VenueFill
    <3> QED
      BY <1>a, <3>1
  <2>4. CASE Becomes("CANCELED", venue.exec)
    BY <1>a, <2>4
  <2> QED
    BY <2>1, <2>2, <2>3, <2>4 DEF VenueNext, VenueAnswer, VenueDescribe, VenueSearch,
       VenueRepair, VenueCancel
<1>5. CASE VenueAccept \/ VenueFill \/ VenueAnswer \/ VenueRepair
  <2>1. UNCHANGED <<ladder, cancel>>
    BY <1>5 DEF VenueAccept, VenueFill, VenueAnswer, VenueRepair
  <2> QED
    BY <1>1, <1>2, <1>4, <2>1, EvidenceKept
<1>6. CASE VenueDescribe
  <2>1. ladder'.ans.st = venue'.st /\ cancel' = cancel
    BY <1>6, PlaceMoves DEF VenueDescribe, Answer, LadderStates
  <2> QED
    BY <1>1, <1>2, <1>4, <2>1, EvidenceKept
<1>7. CASE VenueSearch
  <2>1. PICK kind \in {"found", "absent", "failed"} :
          \/ /\ ladder' = [ladder EXCEPT !.pc = "searched", !.ans = Answer(kind)]
             /\ UNCHANGED cancel
          \/ \E c \in Cancelers :
               /\ cancel' = [cancel EXCEPT ![c].pc = "searched", ![c].ans = Answer(kind)]
               /\ UNCHANGED ladder
    BY <1>7 DEF VenueSearch
  <2>2. venue' = venue
    BY <1>7 DEF VenueSearch
  <2>3. CASE /\ ladder' = [ladder EXCEPT !.pc = "searched", !.ans = Answer(kind)]
             /\ UNCHANGED cancel
    <3>1. ladder'.ans.st = venue'.st
      BY <2>2, <2>3, PlaceMoves DEF Answer, LadderStates
    <3> QED
      BY <1>1, <1>2, <1>4, <2>3, <3>1, EvidenceKept
  <2>4. CASE \E c \in Cancelers :
               /\ cancel' = [cancel EXCEPT ![c].pc = "searched", ![c].ans = Answer(kind)]
               /\ UNCHANGED ladder
    <3>1. PICK c \in Cancelers :
               /\ cancel' = [cancel EXCEPT ![c].pc = "searched", ![c].ans = Answer(kind)]
               /\ UNCHANGED ladder
      BY <2>4
    <3>2. \A d \in Cancelers : cancel'[d].ans = IF d = c THEN Answer(kind) ELSE cancel[d].ans
      BY <3>1, PlaceMoves DEF CancelStates
    <3>3. Answer(kind).st = venue'.st /\ Answer(kind).kind # "cancelled"
      BY <2>1, <2>2 DEF Answer
    <3>4. \A d \in Cancelers :
           \/ cancel'[d].ans = cancel[d].ans
           \/ /\ cancel'[d].ans.st = "CANCELED" => venue'.st = "CANCELED"
              /\ cancel'[d].ans.kind = "cancelled" /\ cancel'[d].ans.st # "CANCELED" =>
                   cancel'[d].ans.st = "FILLED" /\ cancel'[d].ans.exec = Size
      BY <3>2, <3>3
    <3> QED
      BY <1>1, <1>2, <1>4, <3>1, <3>4, EvidenceKept
  <2> QED
    BY <2>1, <2>3, <2>4
<1>8. CASE \E c \in Cancelers : VenueCancel(c)
  <2>1. PICK c \in Cancelers : VenueCancel(c)
    BY <1>8
  <2>2. \E ans : /\ Answered(c, ans)
                 /\ ans.st = "CANCELED" => venue'.st = "CANCELED"
                 /\ ans.kind = "cancelled" /\ ans.st # "CANCELED" =>
                      ans.st = "FILLED" /\ ans.exec = Size
    <3>1. CASE venue.st \in Live /\ Becomes("CANCELED", venue.exec)
      <4>1. venue'.st = "CANCELED"
        BY <1>a, <3>1
      <4>2. Answer("lost").kind = "lost"
        BY DEF Answer
      <4>3. CASE \E q \in (IF "understated" \in Faults THEN 0..venue.exec ELSE {venue.exec}) :
                   Answered(c, [kind |-> "cancelled", st |-> "CANCELED", exec |-> q,
                                time |-> venue.time + 1])
        BY <4>1, <4>3
      <4> QED
        BY <2>1, <3>1, <4>1, <4>2, <4>3 DEF VenueCancel, Live, Answer
    <3>2. CASE UNCHANGED <<venue, reports>>
      <4>1. CASE venue.st = "FILLED" /\ Answered(c, Answer("cancelled"))
        BY <1>3, <4>1 DEF Answer
      <4>2. CASE \E kind \in {"unknown", "refused"} : Answered(c, Answer(kind))
        BY <3>2, <4>2 DEF Answer
      <4>3. ~(venue.st \in Live /\ Becomes("CANCELED", venue.exec))
        BY <1>a, <3>2 DEF Live
      <4> QED
        BY <2>1, <4>1, <4>2, <4>3 DEF VenueCancel
    <3> QED
      BY <2>1, <3>1, <3>2 DEF VenueCancel
  <2>3. PICK ans : /\ Answered(c, ans)
                   /\ ans.st = "CANCELED" => venue'.st = "CANCELED"
                   /\ ans.kind = "cancelled" /\ ans.st # "CANCELED" =>
                        ans.st = "FILLED" /\ ans.exec = Size
    BY <2>2
  <2>4. \A d \in Cancelers : cancel'[d].ans = IF d = c THEN ans ELSE cancel[d].ans
    BY <2>3, PlaceMoves DEF Answered, CancelStates
  <2>5. \A d \in Cancelers :
         \/ cancel'[d].ans = cancel[d].ans
         \/ /\ cancel'[d].ans.st = "CANCELED" => venue'.st = "CANCELED"
            /\ cancel'[d].ans.kind = "cancelled" /\ cancel'[d].ans.st # "CANCELED" =>
                 cancel'[d].ans.st = "FILLED" /\ cancel'[d].ans.exec = Size
    BY <2>3, <2>4
  <2>6. ladder' = ladder
    BY <2>1 DEF VenueCancel
  <2> QED
    BY <1>1, <1>2, <1>4, <2>5, <2>6, EvidenceKept
<1> QED
  BY <1>5, <1>6, <1>7, <1>8 DEF VenueNext

\* A step of the ladder ends it, or moves it on and nobody else.
LEMMA LadderMoves ==
  ASSUME Shape, LadderNext
  PROVE  /\ \/ \E found : Finish(found)
            \/ (\E pc, o : Again(pc, o)) /\ GoesOn
         /\ UNCHANGED ladderOther
BY DEF LadderNext, LadderEnter, RoundOf, LadderWaited, LadderSearched, LadderDenied,
   LadderFound, LadderKeeps, LadderGivesUp, WriteOff, Repeat, GoesOn

\* A step of a cancel sends it on, and may start a ladder.
LEMMA CancelMoves ==
  ASSUME Shape, NEW c \in Cancelers, CancelNext(c)
  PROVE  /\ \A d \in Cancelers : /\ d # c => cancel'[d] = cancel[d]
                                 /\ cancel'[d].ans = cancel[d].ans
         /\ ladder' = ladder \/ HandleUnknownOrder(FALSE)
         /\ UNCHANGED cancelOther
<1>1. /\ ladder' = ladder \/ HandleUnknownOrder(FALSE)
      /\ UNCHANGED cancelOther
  BY DEF CancelNext, CancelBegin, CancelWaited, CancelSearched, CancelUnknown,
         CancelRefused, CancelConfirmed
<1>2. ASSUME NEW pc, NEW o, Goes(c, pc, o)
      PROVE  \A d \in Cancelers : /\ d # c => cancel'[d] = cancel[d]
                                  /\ cancel'[d].ans = cancel[d].ans
  BY <1>2, PlaceMoves DEF Goes, CancelStates
<1>3. CASE CancelBegin(c)
  BY <1>1, <1>3, PlaceMoves DEF CancelBegin, CancelStates
<1>4. CASE ~CancelBegin(c)
  <2>1. \E pc, o : Goes(c, pc, o)
    BY <1>4 DEF CancelNext, CancelWaited, CancelSearched, CancelUnknown, CancelRefused,
                CancelConfirmed
  <2> QED
    BY <1>1, <1>2, <2>1
<1> QED
  BY <1>3, <1>4

LEMMA AnswersKept ==
  ASSUME Shape, [Next]_orderVars, ~VenueNext
  PROVE  /\ ladder'.ans \in {ladder.ans, NoAnswer}
         /\ \A c \in Cancelers : cancel'[c].ans = cancel[c].ans
<1>1. CASE LadderNext
  <2>1. ASSUME NEW found, Finish(found)
        PROVE  /\ ladder'.ans = NoAnswer
               /\ \A c \in Cancelers : cancel'[c].ans = cancel[c].ans
    BY <2>1, PlaceMoves DEF Finish, CancelStates
  <2>2. ASSUME NEW pc, NEW o, Again(pc, o), GoesOn
        PROVE  ladder'.ans = ladder.ans /\ cancel' = cancel
    BY <2>2, PlaceMoves DEF Again, LadderStates, GoesOn
  <2> QED
    BY <1>1, <2>1, <2>2, LadderMoves
<1>2. ASSUME HandleUnknownOrder(TRUE) \/ HandleUnknownOrder(FALSE) \/ ladder' = ladder
      PROVE  ladder'.ans = ladder.ans
  BY <1>2, PlaceMoves DEF HandleUnknownOrder, LadderStates
<1>3. CASE \E c \in Cancelers : CancelNext(c)
  BY <1>2, <1>3, CancelMoves
<1>4. CASE PlaceNext
  <2>1. cancel' = cancel /\ (HandleUnknownOrder(TRUE) \/ ladder' = ladder)
    BY <1>4 DEF PlaceNext, PlaceBegin, PlaceSend, PlaceGuarded, PlaceZeroQuote,
       PlaceAnswered, PlaceRepair, PlaceAccepted, PlaceRetry, PlaceResend, PlaceRefused,
       PlaceLocal, PlaceLost, PlaceDenied, placeOther
  <2> QED
    BY <1>2, <2>1
<1>5. CASE ReportNext \/ Stop \/ UNCHANGED orderVars
  BY <1>5 DEF ReportNext, ReportArrives, ReportBegin, ReportProcess, reportsOther, Stop,
     orderVars
<1> QED
  BY <1>1, <1>3, <1>4, <1>5 DEF Next, Ended

LEMMA EvidenceStep == ASSUME Shape, Evidence, [Next]_orderVars PROVE Evidence'
<1>1. CASE VenueNext
  BY <1>1, EvidenceVenue
<1>2. CASE ~VenueNext
  <2>1. venue' = venue
    BY <1>2, AnswerKept DEF Next, Ended
  <2>2. CASE ReportNext
    <3>1. UNCHANGED <<ladder, cancel>>
      BY <2>2 DEF ReportNext, ReportArrives, ReportBegin, ReportProcess, reportsOther
    <3>2. /\ reports' \subseteq reports /\ queue' \subseteq queue \cup reports
          /\ processing' \in queue \cup {processing, NoReport}
      BY <2>2 DEF ReportNext, ReportArrives, ReportBegin, ReportProcess, Insert, Earliest,
         Remaining
    <3> QED
      BY <2>1, <3>1, <3>2, EvidenceKept DEF Evidence
  <2>3. CASE ~ReportNext
    <3>1. UNCHANGED <<reports, queue, processing>>
      BY <1>2, <2>3 DEF Next, Ended, orderVars, Stop, PlaceNext, PlaceBegin, PlaceSend,
         PlaceGuarded, PlaceZeroQuote, PlaceAnswered, PlaceRepair, PlaceAccepted, PlaceRetry,
         PlaceResend, PlaceRefused, PlaceLocal, PlaceLost, PlaceDenied, placeOther,
         LadderNext, LadderEnter, LadderWaited, LadderSearched, LadderDenied, LadderFound,
         LadderKeeps, LadderGivesUp, WriteOff, Repeat, GoesOn, ladderOther,
         CancelNext, CancelBegin, CancelWaited, CancelSearched, CancelUnknown,
         CancelRefused, CancelConfirmed, cancelOther
    <3>2. /\ ladder'.ans \in {ladder.ans, NoAnswer}
          /\ \A c \in Cancelers : cancel'[c].ans = cancel[c].ans
      BY <1>2, <2>3, AnswersKept
    <3> QED
      BY <2>1, <3>1, <3>2, EvidenceKept DEF Evidence
  <2> QED
    BY <2>2, <2>3
<1> QED
  BY <1>1, <1>2

\* Nothing happens before the placement but its beginning and a stop.
LEMMA IdleStep ==
  ASSUME RefusedInv, Begins, [Next]_orderVars, place.pc = "idle", ~PlaceBegin, ~Stop
  PROVE  UNCHANGED orderVars
<1>1. /\ ladder.pc = "idle" /\ ~Held(book) /\ ~Landed
      /\ \A c \in Cancelers : cancel[c].pc = "idle"
  BY DEF Begins
<1>2. ~PlaceNext
  BY DEF PlaceNext, PlaceSend, PlaceGuarded, PlaceZeroQuote, PlaceAnswered, PlaceRepair,
     PlaceAccepted, PlaceRetry, PlaceResend, PlaceRefused, PlaceLocal, PlaceLost, PlaceDenied
<1>3. ~LadderNext
  BY <1>1 DEF LadderNext, LadderEnter, LadderWaited, LadderSearched, LadderDenied,
     LadderFound, LadderKeeps, LadderGivesUp
<1>4. \A c \in Cancelers : ~CancelNext(c)
  BY <1>1 DEF CancelNext, CancelBegin, CancelWaited, CancelSearched, CancelUnknown,
     CancelRefused, CancelConfirmed
<1>5. ~ReportNext
  BY <1>1, ReportUnplaced
<1>6. ~VenueNext
  BY <1>1 DEF VenueNext, VenueAccept, VenueFill, VenueAnswer, VenueDescribe, VenueSearch,
     VenueRepair, VenueCancel, Landed, Live
<1> QED
  BY <1>2, <1>3, <1>4, <1>5, <1>6 DEF Next, Ended

\* Where a step of the placement may lead.
LEMMA PlaceLeads ==
  ASSUME Shape, PlaceNext
  PROVE  /\ place'.pc # "idle"
         /\ place'.pc = "resending" => place'.count # 0
         /\ handle' = "pending" =>
              \/ PlaceBegin /\ place'.pc = "saving" /\ place'.count = place.count
              \/ PlaceResend /\ place'.pc = "saving" /\ place'.count = place.count
              \/ PlaceSend /\ place'.pc = "sent" /\ place'.count = place.count
              \/ handle = "pending" /\ place.pc \notin {"saving", "sent", "answered"}
         /\ ladder' = ladder \/ (attempts' = attempts /\ ladder'.pc # "idle")
         /\ attempts' = attempts
<1>1. place \in PlaceStates /\ ladder \in LadderStates /\ Resends \in Nat
  BY PlaceMoves, WorldsAssumption DEF Shape, TypeOK, Resends
<1>2. attempts' = attempts
  BY DEF PlaceNext, PlaceBegin, PlaceSend, PlaceGuarded, PlaceZeroQuote,
     PlaceAnswered, PlaceRepair, PlaceAccepted, PlaceRetry, PlaceResend, PlaceRefused,
     PlaceLocal, PlaceLost, PlaceDenied, placeOther
<1>3. CASE PlaceBegin \/ PlaceResend
  BY <1>1, <1>2, <1>3 DEF PlaceBegin, PlaceResend, PlaceStates
<1>4. CASE PlaceSend \/ PlaceGuarded
  BY <1>1, <1>2, <1>4 DEF PlaceSend, PlaceGuarded, PlaceStates
<1>5. CASE PlaceAnswered
  BY <1>1, <1>2, <1>5 DEF PlaceAnswered, PlaceStates, Shape, PlaceKinds, Settled
<1>6. CASE PlaceRetry
  <2>1. place.count \in Nat /\ place'.count = place.count + 1 /\ place'.pc = "resending"
    BY <1>1, <1>6 DEF PlaceRetry, PlaceStates
  <2> QED
    BY <1>2, <1>6, <2>1 DEF PlaceRetry
<1>7. CASE PlaceRepair
  BY <1>1, <1>2, <1>7, RepairMoves DEF PlaceRepair
<1>8. CASE PlaceZeroQuote \/ PlaceAccepted \/ PlaceRefused \/ PlaceLocal \/ PlaceDenied
  <2>1. place'.pc = "done" /\ ladder' = ladder
    BY <1>8, PlaceMoves
    DEF PlaceZeroQuote, PlaceAccepted, PlaceRefused, PlaceLocal, PlaceDenied
  <2>2. handle' = "nothing" \/ (handle' = handle /\ place.pc \notin {"saving", "sent", "answered"})
    BY <1>8 DEF PlaceZeroQuote, PlaceAccepted, PlaceRefused, PlaceLocal, PlaceDenied
  <2> QED
    BY <1>2, <2>1, <2>2
<1>9. CASE PlaceLost
  <2>1. place'.pc \in {"done", "ladder"} /\ handle' = handle /\ place.pc = "lost"
    BY <1>1, <1>9 DEF PlaceLost, PlaceDone, PlaceStates
  <2>2. ladder' = ladder \/ ladder'.pc # "idle"
    BY <1>1, <1>9 DEF PlaceLost, HandleUnknownOrder, LadderStates
  <2> QED
    BY <1>2, <2>1, <2>2
<1> QED
  BY <1>3, <1>4, <1>5, <1>6, <1>7, <1>8, <1>9 DEF PlaceNext

LEMMA BeginsStep == ASSUME RefusedInv, Begins, [Next]_orderVars PROVE Begins'
<1>0. Shape /\ place \in PlaceStates /\ ladder \in LadderStates
  BY PlaceMoves DEF RefusedInv
<1>1. place.pc # "idle" =>
        /\ place'.pc # "idle"
        /\ place'.pc = "resending" => place'.count # 0
        /\ ladder'.pc = "idle" => attempts' = 0
        /\ handle' = "pending" => place'.pc \in {"saving", "sent", "answered"}
  <2>1. CASE PlaceNext
    BY <1>0, <2>1, PlaceLeads DEF Begins
  <2>2. CASE LadderNext
    <3>1. UNCHANGED ladderOther
      BY <1>0, <2>2, LadderMoves
    <3>2. ASSUME NEW found, Finish(found)
          PROVE  \/ place' = place
                 \/ place.pc = "ladder" /\ place'.pc \in {"done", "denied"}
      BY <1>0, <3>2 DEF Finish, PlaceStates
    <3>3. place' = place \/ (place.pc = "ladder" /\ place'.pc \in {"done", "denied"})
      BY <1>0, <2>2, <3>2, LadderMoves DEF GoesOn
    <3>4. ladder'.pc = "idle" => attempts' = 0
      <4>1. ASSUME NEW o, Again("ask", o) \/ Again("enter", o) \/ Again("search", o)
                          \/ Again("wait", o)
            PROVE  ladder'.pc # "idle"
        BY <1>0, <4>1 DEF Again, LadderStates
      <4> QED
        BY <2>2, <4>1 DEF LadderNext, LadderEnter, RoundOf, LadderWaited, LadderSearched,
           LadderDenied, LadderFound, LadderKeeps, LadderGivesUp, WriteOff, Repeat
    <3> QED
      BY <3>1, <3>3, <3>4 DEF Begins, ladderOther
  <2>3. CASE \E c \in Cancelers : CancelNext(c)
    <3>1. UNCHANGED cancelOther /\ (ladder' = ladder \/ HandleUnknownOrder(FALSE))
      BY <1>0, <2>3, CancelMoves
    <3>2. ladder'.pc = "idle" => ladder.pc = "idle"
      BY <1>0, <3>1 DEF HandleUnknownOrder, LadderStates
    <3> QED
      BY <3>1, <3>2 DEF Begins, cancelOther
  <2>4. CASE ReportNext
    BY <2>4 DEF Begins, ReportNext, ReportArrives, ReportBegin, ReportProcess, reportsOther
  <2>5. CASE Stop \/ UNCHANGED orderVars
    BY <2>5 DEF Begins, Stop, orderVars
  <2>6. CASE VenueNext
    <3>1. UNCHANGED <<handle, attempts>>
      BY <2>6 DEF VenueNext, VenueAccept, VenueFill, VenueAnswer, VenueDescribe, VenueSearch,
         VenueRepair, VenueCancel
    <3>2. \/ place' = place
          \/ place.pc = "sent" /\ place'.pc = "answered"
          \/ place.pc = "repairing" /\ place'.pc = "repaired"
      BY <1>0, <2>6 DEF VenueNext, VenueAccept, VenueFill, VenueAnswer, VenueDescribe,
         VenueSearch, VenueRepair, VenueCancel, PlaceStates
    <3>3. ladder'.pc = "idle" => ladder.pc = "idle"
      BY <1>0, <2>6 DEF VenueNext, VenueAccept, VenueFill, VenueAnswer, VenueDescribe,
         VenueSearch, VenueRepair, VenueCancel, LadderStates
    <3> QED
      BY <3>1, <3>2, <3>3 DEF Begins
  <2> QED
    BY <2>1, <2>2, <2>3, <2>4, <2>5, <2>6 DEF Next, Ended
<1>2. CASE place.pc # "idle"
  BY <1>1, <1>2 DEF Begins
<1>3. CASE PlaceBegin
  <2>1. place'.pc = "saving" /\ ladder' = ladder /\ attempts' = attempts
    BY <1>0, <1>3 DEF PlaceBegin, PlaceStates, placeOther
  <2> QED
    BY <2>1 DEF Begins
<1>4. CASE place.pc = "idle" /\ Stop
  <2> DEFINE b == [book EXCEPT !.map = None, !.routed = FALSE]
  <2>1. book' = Sweep(b)
    BY <1>4 DEF Stop
  <2>2. b \in Books /\ b.db = book.db /\ ~Held(b)
    BY <1>0, Waiting DEF Books, Held
  <2> HIDE DEF b
  <2>3. book'.db = book.db /\ ~Held(book')
    BY <2>1, <2>2, SweepFields
  <2>4. UNCHANGED <<place, handle, cancel, ladder, attempts, venue>>
    BY <1>4 DEF Stop
  <2> QED
    BY <2>3, <2>4, <1>4 DEF Begins, Landed
<1>5. CASE place.pc = "idle" /\ ~Stop /\ ~PlaceBegin
  <2>1. UNCHANGED orderVars
    BY <1>5, IdleStep
  <2> QED
    BY <2>1 DEF orderVars, Begins, Landed, Held
<1> QED
  BY <1>2, <1>3, <1>4, <1>5

-----------------------------------------------------------------------------
(* Each step of anybody while the first send is in flight *)

LEMMA InFlightFacts ==
  ASSUME FlightInv, Patient(terms), InFlight
  PROVE  /\ Shape /\ Unplaced /\ Flight
         /\ handle = "pending" /\ place.count = 0
         /\ place.pc \in {"saving", "sent", "answered"}
         /\ place.obj \in Objs /\ book \in Books
         /\ attempts \in Nat /\ faults \in Nat
         /\ faults < MaxAttempts /\ MaxAttempts \in Nat
         /\ book.db.oid => Landed /\ place.pc # "saving"
<1>1. Shape /\ Unplaced /\ Flight /\ Begins
  BY DEF FlightInv, RefusedInv
<1>2. place.pc \in {"saving", "sent", "answered"} /\ handle = "pending" /\ place.count = 0
  BY <1>1 DEF Begins, InFlight
<1>3. place.obj \in Objs /\ book \in Books /\ attempts \in Nat
  BY <1>1, <1>2, Waiting, PlaceMoves DEF PlaceStates
<1>4. faults \in Nat /\ faults < MaxAttempts /\ MaxAttempts \in Nat
  BY <1>1, Constants, WorldsAssumption DEF Shape, TypeOK, Patient, LookupFaults
<1>5. book.db.oid => Landed
  BY <1>1 DEF Unplaced, Unknown
<1>6. book.db.oid => place.pc # "saving"
  BY <1>1, NewRowFields DEF Flight, RowsInFlight
<1> QED
  BY <1>1, <1>2, <1>3, <1>4, <1>5, <1>6

LEMMA RowsKept ==
  ASSUME place.obj \in Objs, NEW b \in Books, RowsInFlight(b), place' = place,
         venue' = venue, book' = Sweep(b)
  PROVE  RowsInFlight(book)'
<1>1. /\ book'.map = b.map /\ book'.db = b.db /\ (Held(book') <=> Held(b))
      /\ \A o \in Objs : book'.heap[o] = IF o = b.map \/ o \in References'
                                         THEN b.heap[o] ELSE Blank
  BY SweepFields
<1>2. book'.heap[place.obj] = b.heap[place.obj]
  BY <1>1 DEF References
<1>3. Held(b) => HeldRow(book') = HeldRow(b)
  BY <1>1, BookFields DEF HeldRow
<1> QED
  BY <1>1, <1>2, <1>3 DEF RowsInFlight, Landed

\* Whatever one knows the order by is not forgotten.
LEMMA CancelKept ==
  ASSUME Shape, NEW c \in Cancelers, CancelInFlight(c), cancel'[c] = cancel[c],
         NEW b \in Books, book' = Sweep(b),
         \A x \in Objs : book.heap[x].oid => b.heap[x].oid,
         book.db.oid => b.db.oid
  PROVE  CancelInFlight(c)'
<1>1. /\ book'.db = b.db
      /\ \A o \in Objs : o \in References' => book'.heap[o] = b.heap[o]
  BY SweepFields
<1>2. cancel'[c].obj \in References'
  BY DEF References
<1>3. cancel[c].pc \in {"send", "answered"} => cancel[c].obj \in Objs
  BY CancelHolds DEF Holding
<1> QED
  BY <1>1, <1>2, <1>3 DEF CancelInFlight

LEMMA LadderKept ==
  ASSUME Shape, LadderInFlight, UNCHANGED <<ladder, attempts, faults>>,
         NEW b \in Books, book' = Sweep(b),
         \A x \in Objs : book.heap[x].oid => b.heap[x].oid,
         book.db.oid => b.db.oid
  PROVE  LadderInFlight'
<1>1. /\ book'.db = b.db
      /\ \A o \in Objs : o \in References' => book'.heap[o] = b.heap[o]
  BY SweepFields
<1>2. ladder'.obj \in References'
  BY DEF References
<1>3. ladder.obj # None => ladder.obj \in Objs
  BY PlaceMoves DEF LadderStates
<1> QED
  BY <1>1, <1>2, <1>3 DEF LadderInFlight

LEMMA FlightKept ==
  ASSUME Shape, Flight, place.obj \in Objs, UNCHANGED <<place, venue>>,
         NEW b \in Books, RowsInFlight(b), book' = Sweep(b),
         \A x \in Objs : book.heap[x].oid => b.heap[x].oid,
         book.db.oid => b.db.oid
  PROVE  /\ RowsInFlight(book)'
         /\ UNCHANGED <<ladder, attempts, faults>> => LadderInFlight'
         /\ \A c \in Cancelers : cancel'[c] = cancel[c] => CancelInFlight(c)'
BY RowsKept, CancelKept, LadderKept DEF Flight

LEMMA FreshFacts ==
  ASSUME Shape, NEW o \in Fresh
  PROVE  /\ o \in Objs /\ o # book.map /\ o # place.obj /\ o # ladder.obj
         /\ \A c \in Cancelers : o # cancel[c].obj
BY DEF Fresh, Unreferenced, References

LEMMA BeginFlight ==
  ASSUME FlightInv, PlaceBegin PROVE Flight'
<1>1. PICK o \in Fresh : /\ place' = [place EXCEPT !.pc = "saving", !.obj = o]
                         /\ book' = Sweep(SetOrder(Put(book, o, NewRow), o))
  BY DEF PlaceBegin
<1>2. /\ Shape /\ book \in Books /\ place \in PlaceStates /\ o \in Objs /\ o # None
      /\ NewRow \in Rows
  BY Waiting, PlaceMoves, FreshFacts, NewRows, Constants DEF FlightInv, RefusedInv
<1>3. /\ book.db = Blank /\ ~Landed /\ ladder.pc = "idle" /\ UNCHANGED <<ladder, cancel, venue>>
      /\ \A c \in Cancelers : cancel[c].pc = "idle"
  BY DEF FlightInv, Begins, PlaceBegin, placeOther
<1> DEFINE b == SetOrder(Put(book, o, NewRow), o)
<1>4. b \in Books /\ b.map = o /\ b.db = book.db /\ b.heap[o] = NewRow
  BY <1>2, PutType, PutFields, SetOrderType, SetFields
<1>5. book' = Sweep(b)
  BY <1>1
<1> HIDE DEF b
<1>6. book'.map = o /\ book'.db = Blank /\ book'.heap[o] = NewRow
  BY <1>2, <1>3, <1>4, <1>5, SweepFields
<1>7. place'.pc = "saving" /\ place'.obj = o
  BY <1>1, <1>2 DEF PlaceStates
<1>8. RowsInFlight(book)'
  BY <1>3, <1>6, <1>7, NewRowFields DEF RowsInFlight, HeldRow, Landed
<1>9. LadderInFlight' /\ \A c \in Cancelers : CancelInFlight(c)'
  BY <1>3 DEF LadderInFlight, CancelInFlight
<1> QED
  BY <1>8, <1>9 DEF Flight

LEMMA SendFlight ==
  ASSUME FlightInv, Patient(terms), InFlight, PlaceSend PROVE Flight'
<1>1. /\ Shape /\ Unplaced /\ Flight /\ place.obj \in Objs /\ book \in Books
      /\ place \in PlaceStates /\ place.pc = "saving"
  BY InFlightFacts, PlaceMoves DEF PlaceSend
<1> DEFINE b == SaveOrderToDb(book, NewRow)
<1>2. book.db = Blank /\ ~Landed
  BY <1>1 DEF Flight, RowsInFlight
<1>3. b \in Books /\ b.map = book.map /\ b.heap = book.heap /\ b.db = NewRow
  BY <1>1, <1>2, SaveType, SaveFields, NewRows, NewRowFields
<1>4. place'.pc = "sent" /\ place'.obj = place.obj /\ book' = Sweep(b)
      /\ UNCHANGED <<ladder, cancel, venue, attempts, faults>>
  BY <1>1 DEF PlaceSend, PlaceStates, placeOther
<1> HIDE DEF b
<1>5. /\ book'.map = b.map /\ book'.db = b.db /\ (Held(book') <=> Held(b))
      /\ \A o \in Objs : book'.heap[o] = IF o = b.map \/ o \in References'
                                         THEN b.heap[o] ELSE Blank
  BY <1>3, <1>4, SweepFields
<1>6. book'.heap[place.obj] = NewRow
  BY <1>1, <1>3, <1>4, <1>5 DEF References, Flight, RowsInFlight
<1>7. Held(book) => HeldRow(book') = HeldRow(book) /\ ~HeldRow(book).oid
                    /\ book.map = place.obj
  BY <1>1, <1>2, <1>3, <1>5, NewRowFields, BookFields DEF Flight, RowsInFlight, HeldRow
<1>8. RowsInFlight(book)'
  BY <1>2, <1>3, <1>4, <1>5, <1>6, <1>7, NewRowFields DEF RowsInFlight, Held
<1>9. ladder.pc = "idle" /\ \A c \in Cancelers : cancel[c].pc \in {"idle", "wait", "done"}
  BY <1>1, <1>2, NewRowFields DEF Flight, LadderInFlight, CancelInFlight
<1>10. LadderInFlight' /\ \A c \in Cancelers : CancelInFlight(c)'
  BY <1>4, <1>9 DEF LadderInFlight, CancelInFlight
<1> QED
  BY <1>8, <1>10 DEF Flight

LEMMA PlaceFlight ==
  ASSUME FlightInv, Patient(terms), PlaceNext, InFlight' PROVE Flight'
<1>1. Shape /\ Begins /\ place \in PlaceStates
  BY PlaceMoves DEF FlightInv, RefusedInv
<1>2. CASE PlaceBegin
  BY <1>2, BeginFlight
<1>3. CASE PlaceSend
  <2>1. InFlight
    BY <1>1, <1>3 DEF InFlight, PlaceSend, PlaceStates
  <2> QED
    BY <1>3, <2>1, SendFlight
<1>4. CASE PlaceResend
  <2>1. place'.count # 0
    BY <1>1, <1>4 DEF PlaceResend, PlaceStates, Begins
  <2> QED
    BY <2>1 DEF InFlight
<1> QED
  BY <1>1, <1>2, <1>3, <1>4, PlaceLeads DEF InFlight, Begins

LEMMA EnterFlight ==
  ASSUME FlightInv, Patient(terms), InFlight, LadderEnter PROVE Flight'
<1>1. /\ Shape /\ Flight /\ place.obj \in Objs /\ book \in Books /\ ladder \in LadderStates
      /\ book.db.oid /\ attempts \in Nat /\ faults \in Nat /\ attempts <= faults
      /\ Held(book) => book.map \in Objs /\ HeldRow(book).oid
  BY InFlightFacts, PlaceMoves, BookFields DEF LadderEnter, Flight, LadderInFlight, RowsInFlight
<1>2. attempts' = attempts + 1 /\ UNCHANGED <<place, cancel, venue, faults>>
  BY DEF LadderEnter, Counted, GoesOn, ladderOther
<1>3. ASSUME NEW b \in Books, RowsInFlight(b), book' = Sweep(b),
             \A x \in Objs : book.heap[x].oid => b.heap[x].oid, b.db.oid,
             NEW o, Again("ask", o), o # None => o \in Objs /\ b.heap[o].oid
      PROVE  Flight'
  <2>1. RowsInFlight(book)' /\ \A c \in Cancelers : CancelInFlight(c)'
    BY <1>1, <1>2, <1>3, FlightKept
  <2>2. ladder'.pc = "ask" /\ ladder'.obj = o
    BY <1>1, <1>3 DEF Again, LadderStates
  <2>3. o # None => book'.heap[o].oid
    BY <1>3, <2>2, SweepFields DEF References
  <2>4. book'.db.oid
    BY <1>3, SweepFields
  <2>5. LadderInFlight'
    BY <1>1, <1>2, <2>2, <2>3, <2>4 DEF LadderInFlight
  <2> QED
    BY <2>1, <2>5 DEF Flight
<1>4. CASE Held(book) /\ RoundOf(HeldRow(book), book.map) /\ book' = Sweep(book)
  BY <1>1, <1>3, <1>4 DEF RoundOf, HeldRow, Flight
<1>5. CASE ~Held(book) /\ \E o \in Fresh :
             RoundOf(book.db, o) /\ book' = Sweep(Put(book, o, book.db))
  <2>1. PICK o \in Fresh : RoundOf(book.db, o) /\ book' = Sweep(Put(book, o, book.db))
    BY <1>5
  <2> DEFINE b == Put(book, o, book.db)
  <2>2. o \in Objs /\ o # place.obj /\ book.db \in Rows
    BY <1>1, FreshFacts, BookFields
  <2>3. /\ b \in Books /\ b.map = book.map /\ b.db = book.db
        /\ \A x \in Objs : b.heap[x] = IF x = o THEN book.db ELSE book.heap[x]
    BY <1>1, <2>2, PutType, PutFields
  <2>4. book' = Sweep(b) /\ Again("ask", o)
    BY <1>1, <2>1 DEF RoundOf
  <2> HIDE DEF b
  <2>5. RowsInFlight(b)
    BY <1>1, <1>5, <2>2, <2>3 DEF Flight, RowsInFlight, Held
  <2> QED
    BY <1>1, <1>3, <2>2, <2>3, <2>4, <2>5
<1>6. CASE Again("ask", None) /\ book' = Sweep(book)
  BY <1>1, <1>3, <1>6 DEF Flight
<1> QED
  BY <1>4, <1>5, <1>6 DEF LadderEnter

LEMMA DeniedFlight ==
  ASSUME FlightInv, Patient(terms), InFlight, LadderDenied PROVE Flight'
<1>1. /\ Shape /\ Flight /\ place.obj \in Objs /\ book \in Books /\ ladder \in LadderStates
      /\ book.db.oid /\ ladder.ans.kind = "failed" /\ attempts <= faults
  BY InFlightFacts, PlaceMoves DEF LadderDenied, Flight, LadderInFlight
<1>2. Repeat
  BY <1>1 DEF LadderDenied, Final, Definitive
<1>3. /\ UNCHANGED <<place, cancel, venue, faults, attempts>> /\ book' = Sweep(book)
      /\ ladder'.pc = "enter"
  BY <1>1, <1>2 DEF Repeat, GoesOn, ladderOther, Again, LadderStates
<1>4. RowsInFlight(book)' /\ \A c \in Cancelers : CancelInFlight(c)'
  BY <1>1, <1>3, FlightKept DEF Flight
<1>5. book'.db.oid
  BY <1>1, <1>3, SweepFields
<1>6. LadderInFlight'
  BY <1>1, <1>3, <1>5 DEF LadderInFlight
<1> QED
  BY <1>4, <1>6 DEF Flight

LEMMA DescribedFields ==
  ASSUME NEW r \in Rows, NEW ans
  PROVE  Described(r, ans).oid = r.oid /\ Described(r, ans).st = ans.st
BY DEF Described, Rows

LEMMA RecordedFields ==
  ASSUME NEW b \in Books, NEW o \in Objs, NEW r \in Rows
  PROVE  /\ Recorded(b, o, r).map \in {None, o} /\ Recorded(b, o, r).db = r
         /\ \A x \in Objs : Recorded(b, o, r).heap[x] = IF x = o THEN r ELSE b.heap[x]
<1> DEFINE d == DeleteOrder(Put(b, o, r))
           written == [d EXCEPT !.db = r]
<1>1. d \in Books /\ d.map = None
      /\ \A x \in Objs : d.heap[x] = IF x = o THEN r ELSE b.heap[x]
  BY PutType, PutFields, DeleteOrderType, DeleteFields
<1> HIDE DEF d
<1>2. written \in Books /\ written.map = None /\ written.db = r /\ written.heap = d.heap
  BY <1>1 DEF Books
<1>3. Recorded(b, o, r) = IF r.st = "CANCELED" THEN written ELSE SetOrder(written, o)
  BY DEF Recorded, d
<1> HIDE DEF written
<1> QED
  BY <1>1, <1>2, <1>3, SetFields

LEMMA FoundFlight ==
  ASSUME FlightInv, Patient(terms), InFlight, LadderFound PROVE Flight'
<1>1. /\ Shape /\ Flight /\ place.obj \in Objs /\ book \in Books /\ ladder \in LadderStates
      /\ book.db.oid /\ place.pc \in {"saving", "sent", "answered"} /\ place.pc # "saving"
      /\ Held(book) => book.map \in Objs /\ HeldRow(book) \in Rows /\ HeldRow(book).oid
      /\ book.db \in Rows /\ cancel \in [Cancelers -> CancelStates]
  BY InFlightFacts, PlaceMoves, BookFields DEF LadderFound, Flight, LadderInFlight, RowsInFlight
<1>2. ladder'.pc = "idle" /\ UNCHANGED <<place, venue, faults>>
      /\ \A c \in Cancelers : \/ cancel'[c] = cancel[c]
                              \/ cancel'[c].pc = "done"
  BY <1>1 DEF LadderFound, Finish, ladderOther, CancelStates
<1>3. ASSUME NEW b \in Books, RowsInFlight(b), book' = Sweep(b),
             \A x \in Objs : book.heap[x].oid => b.heap[x].oid, b.db.oid
      PROVE  Flight'
  <2>1. RowsInFlight(book)' /\ \A c \in Cancelers : cancel'[c] = cancel[c] => CancelInFlight(c)'
    BY <1>1, <1>2, <1>3, FlightKept
  <2>2. \A c \in Cancelers : CancelInFlight(c)'
    BY <1>2, <2>1 DEF CancelInFlight
  <2>3. LadderInFlight'
    BY <1>2 DEF LadderInFlight
  <2> QED
    BY <2>1, <2>2, <2>3 DEF Flight
<1>4. CASE book' = Sweep(book)
  BY <1>1, <1>3, <1>4 DEF Flight
<1> DEFINE row == IF Held(book) THEN HeldRow(book) ELSE book.db
           new == Described(row, ladder.ans)
<1>5. CASE \E o \in IF Held(book) THEN {book.map} ELSE Fresh :
             book' = Sweep(Recorded(book, o, new)) /\ row.st \notin {"none", ladder.ans.st}
  <2>1. PICK o \in IF Held(book) THEN {book.map} ELSE Fresh :
             book' = Sweep(Recorded(book, o, new)) /\ row.st \notin {"none", ladder.ans.st}
    BY <1>5
  <2>2. o \in Objs /\ o # place.obj
    BY <1>1, FreshFacts, NewRowFields DEF Flight, RowsInFlight, HeldRow
  <2>3. row \in Rows /\ row.oid
    BY <1>1
  <2> HIDE DEF row
  <2>4. new.oid /\ new.st = ladder.ans.st
    BY <2>3, DescribedFields
  <2>5. new \in Rows
    BY <1>1, <2>3, DescribedType DEF LadderStates
  <2> HIDE DEF new
  <2> DEFINE b == Recorded(book, o, new)
  <2>6. b \in Books
    BY <1>1, <2>2, <2>5, RecordedType
  <2>7. /\ b.map \in {None, o} /\ b.db = new
        /\ \A x \in Objs : b.heap[x] = IF x = o THEN new ELSE book.heap[x]
    BY <1>1, <2>2, <2>5, RecordedFields
  <2>8. book' = Sweep(b)
    BY <2>1
  <2> HIDE DEF b
  <2>9. b.db.st = "CANCELED" => venue.st = "CANCELED"
    BY <2>4, <2>7 DEF FlightInv, Evidence
  <2>10. RowsInFlight(b)
    BY <1>1, <2>2, <2>4, <2>7, <2>9 DEF Flight, RowsInFlight, Held, HeldRow
  <2> QED
    BY <1>3, <2>4, <2>6, <2>7, <2>8, <2>10
<1> QED
  BY <1>4, <1>5 DEF LadderFound

LEMMA LadderFlight ==
  ASSUME FlightInv, Patient(terms), InFlight, LadderNext PROVE Flight'
<1>1. /\ Flight /\ attempts \in Nat /\ faults \in Nat /\ MaxAttempts \in Nat
      /\ faults < MaxAttempts
  BY InFlightFacts
<1>2. ladder.pc \notin {"wait", "searched"}
      /\ ~(ladder.pc = "enter" /\ attempts = MaxAttempts)
  BY <1>1 DEF Flight, LadderInFlight
<1> QED
  BY <1>2, EnterFlight, DeniedFlight, FoundFlight
  DEF LadderNext, LadderWaited, LadderSearched, LadderKeeps, LadderGivesUp

LEMMA StopFlight ==
  ASSUME FlightInv, Patient(terms), InFlight, Stop PROVE Flight'
<1> DEFINE b == [book EXCEPT !.map = None, !.routed = FALSE]
<1>1. Shape /\ Flight /\ place.obj \in Objs /\ book \in Books
  BY InFlightFacts
<1>2. b \in Books /\ b.map = None /\ b.db = book.db /\ b.heap = book.heap
  BY <1>1 DEF Books
<1>3. book' = Sweep(b) /\ UNCHANGED <<place, venue, cancel, ladder, attempts, faults>>
  BY DEF Stop
<1> HIDE DEF b
<1>4. RowsInFlight(b)
  BY <1>1, <1>2 DEF Flight, RowsInFlight, Held
<1> QED
  BY <1>1, <1>2, <1>3, <1>4, FlightKept DEF Flight

LEMMA ReportFlight ==
  ASSUME FlightInv, Patient(terms), InFlight, ReportNext PROVE Flight'
<1>1. /\ Shape /\ Unplaced /\ Flight /\ place.obj \in Objs /\ book \in Books
      /\ place.pc \in {"saving", "sent", "answered"}
  BY InFlightFacts
<1>2. UNCHANGED <<place, venue, cancel, ladder, attempts, faults>>
  BY DEF ReportNext, ReportArrives, ReportBegin, ReportProcess, reportsOther
<1>3. CASE book' = book
  BY <1>1, <1>2, <1>3 DEF Flight, RowsInFlight, LadderInFlight, CancelInFlight, Landed
<1>4. CASE ReportProcess /\ book' # book
  <2> DEFINE new == [st |-> processing.st, oid |-> TRUE, exec |-> processing.exec,
                     time |-> processing.time]
             stored == DeleteOrder(UpdateOrderOnDb(book, new))
  <2>1. PICK o \in Fresh :
          book' = Sweep(IF Stays(new) THEN SetOrder(Put(stored, o, new), o) ELSE stored)
    BY <1>4 DEF ReportProcess
  <2>2. processing # NoReport
    BY <1>4 DEF ReportProcess
  <2>3. Landed /\ place.pc # "saving"
    BY <1>1, <2>2 DEF Unplaced, Flight, RowsInFlight
  <2>4. new \in Rows
    BY <1>1, <2>2, ReportTypes, ReportRow DEF Shape, TypeOK
  <2>5. new.oid /\ (new.st = "CANCELED" => venue.st = "CANCELED")
    BY DEF FlightInv, Evidence
  <2> HIDE DEF new
  <2>6. o \in Objs /\ o # place.obj
    BY <1>1, FreshFacts
  <2>7. /\ stored \in Books /\ stored.map = None /\ stored.heap = book.heap
        /\ stored.db = IF book.db.st \in Live THEN new ELSE book.db
    BY <1>1, <2>4, UpdateType, UpdateFields, DeleteOrderType, DeleteFields
  <2> HIDE DEF stored
  <2>8. stored.db.oid /\ (stored.db.st = "CANCELED" => venue.st = "CANCELED")
    BY <1>1, <2>3, <2>5, <2>7, NewRowFields DEF Flight, RowsInFlight, Live
  <2> DEFINE b == IF Stays(new) THEN SetOrder(Put(stored, o, new), o) ELSE stored
  <2>9. /\ b \in Books /\ b.map \in {None, o} /\ b.db = stored.db
        /\ \A x \in Objs : b.heap[x] = book.heap[x] \/ (x = o /\ b.heap[x] = new)
        /\ b.map = o => b.heap[o] = new
    <3>1. Put(stored, o, new) \in Books /\ Put(stored, o, new).db = stored.db
          /\ \A x \in Objs : Put(stored, o, new).heap[x] = IF x = o THEN new ELSE book.heap[x]
      BY <2>4, <2>6, <2>7, PutType, PutFields
    <3>2. /\ SetOrder(Put(stored, o, new), o) \in Books
          /\ SetOrder(Put(stored, o, new), o).map = o
          /\ SetOrder(Put(stored, o, new), o).db = stored.db
          /\ SetOrder(Put(stored, o, new), o).heap = Put(stored, o, new).heap
      BY <2>6, <3>1, SetOrderType, SetFields
    <3>3. None # o
      BY <2>6, Constants
    <3> QED
      BY <2>6, <2>7, <3>1, <3>2, <3>3
  <2>10. book' = Sweep(b)
    BY <2>1
  <2> HIDE DEF b
  <2>11. RowsInFlight(b)
    BY <1>1, <2>3, <2>5, <2>6, <2>8, <2>9 DEF Flight, RowsInFlight, Held, HeldRow
  <2>12. b.db.oid /\ \A x \in Objs : book.heap[x].oid => b.heap[x].oid
    BY <2>5, <2>8, <2>9
  <2> QED
    BY <1>1, <1>2, <2>9, <2>10, <2>11, <2>12, FlightKept DEF Flight
<1> QED
  BY <1>3, <1>4 DEF ReportNext, ReportArrives, ReportBegin

LEMMA CancelBeginFlight ==
  ASSUME FlightInv, Patient(terms), InFlight, NEW c \in Cancelers, CancelBegin(c)
  PROVE  CancelInFlight(c)'
<1>1. /\ Shape /\ Flight /\ handle = "pending" /\ cancel \in [Cancelers -> CancelStates]
  BY InFlightFacts, PlaceMoves
<1>2. PICK promote \in BOOLEAN :
         cancel' = [cancel EXCEPT ![c].pc = FirstStep(HeldRow(book)),
                                  ![c].obj = book.map, ![c].promote = promote]
  BY DEF CancelBegin
<1>3. cancel'[c].pc = FirstStep(HeldRow(book)) /\ cancel'[c].obj = book.map /\ book' = book
  BY <1>1, <1>2 DEF CancelBegin, CancelStates
<1>4. HeldRow(book).oid \in BOOLEAN
  BY <1>1, Waiting, BookFields, RowFields DEF CancelBegin
<1>5. FirstStep(HeldRow(book)) = IF HeldRow(book).oid THEN "send" ELSE "wait"
  BY <1>1, <1>4 DEF FirstStep, Awaits
<1>6. HeldRow(book).oid => book.db.oid /\ book.heap[book.map].oid
  BY <1>1 DEF CancelBegin, Flight, RowsInFlight, HeldRow
<1> QED
  BY <1>3, <1>5, <1>6 DEF CancelInFlight

LEMMA CancelledStatus ==
  ASSUME NEW ans, NEW promote, EndStatus(ans, promote) = "CANCELED",
         ans.st # "CANCELED" => ans.exec = Size
  PROVE  ans.st = "CANCELED"
BY Constants DEF EndStatus

LEMMA ConfirmedFlight ==
  ASSUME FlightInv, Patient(terms), InFlight, NEW c \in Cancelers, CancelConfirmed(c)
  PROVE  Flight'
<1> DEFINE o == cancel[c].obj
           ans == cancel[c].ans
           row == [st |-> EndStatus(ans, cancel[c].promote), oid |-> TRUE,
                   exec |-> Executed(Known(o), ans.exec), time |-> ans.time]
           set == SetOrder(Put(book, o, row), o)
           kept == IF ans.exec = 0 /\ row.exec = 0 THEN DeleteOrder(set) ELSE set
           b == UpdateOrderOnDb(kept, row)
<1>1. /\ Shape /\ Flight /\ place.obj \in Objs /\ cancel \in [Cancelers -> CancelStates]
      /\ place.pc \in {"saving", "sent", "answered"} /\ (book.db.oid => place.pc # "saving")
  BY InFlightFacts, PlaceMoves
<1>2. /\ o \in Objs /\ o # None /\ book \in Books /\ book.db.oid /\ book.heap[o].oid
  BY <1>1, CancelHolds DEF CancelConfirmed, Holding, Flight, CancelInFlight
<1>3. o # place.obj
  BY <1>1, <1>2, NewRowFields DEF Flight, RowsInFlight
<1>4. row \in Rows
  BY <1>1, ConfirmedRow DEF CancelConfirmed
<1>5. row.st = "CANCELED" => venue.st = "CANCELED"
  <2>1. ans.kind = "cancelled"
    BY DEF CancelConfirmed
  <2>2. ans.st # "CANCELED" => ans.exec = Size
    BY <2>1 DEF FlightInv, Evidence
  <2>3. ans.st = "CANCELED" => venue.st = "CANCELED"
    BY DEF FlightInv, Evidence
  <2> QED
    BY <2>2, <2>3, CancelledStatus
<1>6. row.oid
  OBVIOUS
<1>7. book' = Sweep(b) /\ Goes(c, "done", None) /\ UNCHANGED <<ladder, cancelOther>>
  BY DEF CancelConfirmed
<1> HIDE DEF ans, row
<1>8. /\ set \in Books /\ set.map = o /\ set.db = book.db
      /\ \A x \in Objs : set.heap[x] = IF x = o THEN row ELSE book.heap[x]
  <2> DEFINE put == Put(book, o, row)
  <2>1. /\ put \in Books /\ put.db = book.db
        /\ \A x \in Objs : put.heap[x] = IF x = o THEN row ELSE book.heap[x]
    BY <1>2, <1>4, PutType, PutFields
  <2> HIDE DEF put, o
  <2>2. /\ SetOrder(put, o) \in Books /\ SetOrder(put, o).map = o
        /\ SetOrder(put, o).db = put.db /\ SetOrder(put, o).heap = put.heap
    BY <1>2, <2>1, SetOrderType, SetFields
  <2> QED
    BY <2>1, <2>2 DEF put
<1> HIDE DEF set
<1>9. kept \in Books /\ kept.map \in {None, o} /\ kept.db = book.db /\ kept.heap = set.heap
  BY <1>8, DeleteOrderType, DeleteFields
<1> HIDE DEF kept
<1>10. b \in Books /\ b.map \in {None, o} /\ b.heap = set.heap
       /\ b.db = IF book.db.st \in Live THEN row ELSE book.db
  BY <1>4, <1>9, UpdateType, UpdateFields
<1> HIDE DEF b, o
<1>11. RowsInFlight(b)
  BY <1>1, <1>2, <1>3, <1>5, <1>6, <1>8, <1>10 DEF Flight, RowsInFlight, Held, HeldRow
<1>12. /\ b.db.oid
       /\ \A x \in Objs : book.heap[x].oid => b.heap[x].oid
  BY <1>2, <1>6, <1>8, <1>10
<1>13. UNCHANGED <<place, venue, ladder, attempts, faults>>
  BY <1>7 DEF cancelOther
<1>14. \A d \in Cancelers : IF d = c THEN cancel'[d].pc = "done" ELSE cancel'[d] = cancel[d]
  BY <1>1, <1>7 DEF Goes, CancelStates
<1>15. RowsInFlight(book)' /\ LadderInFlight'
       /\ \A d \in Cancelers : cancel'[d] = cancel[d] => CancelInFlight(d)'
  BY <1>1, <1>2, <1>7, <1>10, <1>11, <1>12, <1>13, FlightKept
<1>16. CancelInFlight(c)'
  BY <1>14 DEF CancelInFlight
<1> QED
  BY <1>14, <1>15, <1>16 DEF Flight

LEMMA CancelFlight ==
  ASSUME FlightInv, Patient(terms), InFlight, NEW c \in Cancelers, CancelNext(c)
  PROVE  Flight'
<1>1. /\ Shape /\ Flight /\ place.obj \in Objs /\ book \in Books /\ handle = "pending"
      /\ cancel \in [Cancelers -> CancelStates] /\ ladder \in LadderStates
      /\ faults \in Nat /\ Begins
  BY InFlightFacts, PlaceMoves DEF FlightInv
<1>2. UNCHANGED <<place, venue, attempts, faults>>
      /\ \A d \in Cancelers : d # c => cancel'[d] = cancel[d]
  BY <1>1, CancelMoves DEF cancelOther
<1>3. RowsInFlight(book)
  BY <1>1 DEF Flight
<1>4. ASSUME book' = Sweep(book) \/ book' = book, CancelInFlight(c)', LadderInFlight'
      PROVE  Flight'
  <2>1. CASE book' = Sweep(book)
    <3>1. RowsInFlight(book)' /\ \A d \in Cancelers : cancel'[d] = cancel[d] => CancelInFlight(d)'
      BY <1>1, <1>2, <1>3, <2>1, FlightKept
    <3> QED
      BY <1>2, <1>4, <3>1 DEF Flight
  <2>2. CASE book' = book
    <3>1. RowsInFlight(book)'
      BY <1>2, <1>3, <2>2 DEF RowsInFlight, Landed
    <3>2. \A d \in Cancelers : d # c => CancelInFlight(d)'
      BY <1>1, <1>2, <2>2 DEF Flight, CancelInFlight
    <3> QED
      BY <1>4, <3>1, <3>2 DEF Flight
  <2> QED
    BY <1>4, <2>1, <2>2
<1>5. CASE CancelBegin(c)
  <2>1. CancelInFlight(c)'
    BY <1>5, CancelBeginFlight
  <2>2. book' = book /\ ladder' = ladder
    BY <1>5 DEF CancelBegin
  <2>3. LadderInFlight'
    BY <1>1, <1>2, <2>2 DEF Flight, LadderInFlight
  <2> QED
    BY <1>4, <2>1, <2>2, <2>3
<1>6. ~CancelWaited(c) /\ ~CancelSearched(c)
  BY <1>1 DEF CancelWaited, CancelSearched, Flight, CancelInFlight
<1>7. CASE CancelUnknown(c)
  <2>1. /\ book' = Sweep(book) /\ HandleUnknownOrder(FALSE) /\ book.db.oid
        /\ Goes(c, "ladder", None)
    BY <1>1, <1>7 DEF CancelUnknown, Flight, CancelInFlight
  <2>2. cancel'[c].pc = "ladder"
    BY <1>1, <2>1 DEF Goes, CancelStates
  <2>3. book'.db.oid
    BY <1>1, <2>1, SweepFields
  <2>4. CancelInFlight(c)'
    BY <2>2, <2>3 DEF CancelInFlight
  <2>5. CASE ladder.pc = "idle"
    <3>1. ladder'.pc = "enter" /\ attempts' = 0
      BY <1>1, <1>2, <2>1, <2>5 DEF HandleUnknownOrder, LadderStates, Begins
    <3>2. LadderInFlight'
      BY <1>1, <1>2, <2>3, <3>1 DEF LadderInFlight
    <3> QED
      BY <1>4, <2>1, <2>4, <3>2
  <2>6. CASE ladder.pc # "idle"
    <3>1. ladder' = ladder
      BY <2>1, <2>6 DEF HandleUnknownOrder
    <3>2. LadderInFlight'
      BY <1>1, <1>2, <1>3, <2>1, <3>1, FlightKept
    <3> QED
      BY <1>4, <2>1, <2>4, <3>2
  <2> QED
    BY <2>5, <2>6
<1>8. CASE CancelRefused(c)
  <2>1. book' = Sweep(book) /\ ladder' = ladder /\ Goes(c, "done", None)
    BY <1>8 DEF CancelRefused
  <2>2. cancel'[c].pc = "done"
    BY <1>1, <2>1 DEF Goes, CancelStates
  <2>3. CancelInFlight(c)'
    BY <2>2 DEF CancelInFlight
  <2>4. LadderInFlight'
    BY <1>1, <1>2, <1>3, <2>1, FlightKept
  <2> QED
    BY <1>4, <2>1, <2>3, <2>4
<1> QED
  BY <1>5, <1>6, <1>7, <1>8, ConfirmedFlight DEF CancelNext

LEMMA VenueFlight ==
  ASSUME FlightInv, Patient(terms), InFlight, VenueNext PROVE Flight'
<1>1. /\ Shape /\ Unplaced /\ Flight /\ place \in PlaceStates /\ ladder \in LadderStates
      /\ cancel \in [Cancelers -> CancelStates] /\ faults \in Nat
      /\ place.pc \in {"saving", "sent", "answered"} /\ (book.db.oid => Landed)
  BY InFlightFacts, PlaceMoves
<1>2. venue.st = "CANCELED" => venue'.st = "CANCELED"
  BY <1>1, StaysCanceled DEF Next
<1>3. UNCHANGED <<book, attempts>>
  BY DEF VenueNext, VenueAccept, VenueFill, VenueAnswer, VenueDescribe, VenueSearch,
     VenueRepair, VenueCancel
<1>4. /\ place' = place \/ (place.pc = "sent" /\ place'.pc = "answered" /\ place'.obj = place.obj)
      /\ place.pc = "saving" /\ ~Landed => ~Landed'
  BY <1>1 DEF VenueNext, VenueAccept, VenueFill, VenueAnswer, VenueDescribe, VenueSearch,
     VenueRepair, VenueCancel, PlaceStates, Landed, Live
<1>5. RowsInFlight(book)'
  BY <1>1, <1>2, <1>3, <1>4 DEF Flight, RowsInFlight
<1>6. ASSUME cancel' = cancel
      PROVE  \A c \in Cancelers : CancelInFlight(c)'
  BY <1>1, <1>3, <1>6 DEF Flight, CancelInFlight
<1>7. ASSUME UNCHANGED <<ladder, faults>>
      PROVE  LadderInFlight'
  BY <1>1, <1>3, <1>7 DEF Flight, LadderInFlight
<1>8. CASE VenueAccept \/ VenueFill \/ VenueAnswer \/ VenueRepair
  <2>1. UNCHANGED <<cancel, ladder, faults>>
    BY <1>8 DEF VenueAccept, VenueFill, VenueAnswer, VenueRepair
  <2> QED
    BY <1>5, <1>6, <1>7, <2>1 DEF Flight
<1>9. CASE VenueDescribe
  <2>1. PICK kind \in {"found", "absent", "unreliable", "failed"} :
         /\ Lookup(kind, Landed) \/ Lags(kind)
         /\ ladder' = [ladder EXCEPT !.pc = "told", !.ans = Answer(kind)]
    BY <1>9 DEF VenueDescribe
  <2>2. ladder.pc = "ask" /\ cancel' = cancel
    BY <1>9 DEF VenueDescribe
  <2>3. book.db.oid /\ Landed /\ attempts <= faults + 1
    BY <1>1, <2>2 DEF Flight, LadderInFlight
  <2>4. Answer(kind).kind = kind
    BY DEF Answer
  <2>5. ladder'.pc = "told" /\ ladder'.ans.kind = kind /\ ladder'.obj = ladder.obj
    BY <1>1, <2>1, <2>4 DEF LadderStates
  <2>6. ~Lags(kind)
    BY DEF Lags, Patient, Faults
  <2>7. \/ kind = "found"
        \/ kind = "failed" /\ faults' = faults + 1
    BY <2>1, <2>3, <2>6 DEF Lookup
  <2>8. ladder.obj # None => book.heap[ladder.obj].oid
    BY <1>1, <2>2 DEF Flight, LadderInFlight
  <2>9. LadderInFlight'
    BY <1>3, <2>3, <2>5, <2>7, <2>8 DEF LadderInFlight
  <2> QED
    BY <1>5, <1>6, <2>2, <2>9 DEF Flight
<1>10. ~VenueSearch
  BY <1>1 DEF VenueSearch, Flight, LadderInFlight, CancelInFlight
<1>11. CASE \E c \in Cancelers : VenueCancel(c)
  <2>1. PICK c \in Cancelers : VenueCancel(c)
    BY <1>11
  <2>2. /\ cancel[c].pc = "send" /\ UNCHANGED <<ladder, faults>>
        /\ \E ans : Answered(c, ans)
    BY <2>1 DEF VenueCancel
  <2>3. \A d \in Cancelers : IF d = c THEN /\ cancel'[d].pc = "answered"
                                           /\ cancel'[d].obj = cancel[d].obj
                                      ELSE cancel'[d] = cancel[d]
    BY <1>1, <2>2 DEF Answered, CancelStates
  <2>4. \A d \in Cancelers : CancelInFlight(d)'
    BY <1>1, <1>3, <2>2, <2>3 DEF Flight, CancelInFlight
  <2> QED
    BY <1>5, <1>7, <2>2, <2>4 DEF Flight
<1> QED
  BY <1>8, <1>9, <1>10, <1>11 DEF VenueNext

LEMMA FlightStep == ASSUME FlightInv, [Next]_orderVars PROVE FlightInv'
<1>1. RefusedInv' /\ Evidence' /\ Begins' /\ Shape /\ RefusedInv /\ Begins
  BY RefusedStep, EvidenceStep, BeginsStep DEF FlightInv, RefusedInv
<1>2. terms' = terms
  BY DEF Next, Ended, orderVars, PlaceNext, PlaceBegin, PlaceSend, PlaceGuarded,
     PlaceZeroQuote, PlaceAnswered, PlaceRepair, PlaceAccepted, PlaceRetry, PlaceResend,
     PlaceRefused, PlaceLocal, PlaceLost, PlaceDenied, placeOther, LadderNext, LadderEnter,
     LadderWaited, LadderSearched, LadderDenied, LadderFound, LadderKeeps, LadderGivesUp,
     WriteOff, Repeat, GoesOn, ladderOther, CancelNext, CancelBegin, CancelWaited,
     CancelSearched, CancelUnknown, CancelRefused, CancelConfirmed, cancelOther, ReportNext,
     ReportArrives, ReportBegin, ReportProcess, reportsOther, Stop, VenueNext, VenueAccept,
     VenueFill, VenueAnswer, VenueDescribe, VenueSearch, VenueRepair, VenueCancel
<1>3. ASSUME Patient(terms), InFlight'
      PROVE  Flight'
  <2>1. CASE PlaceNext
    BY <1>3, <2>1, PlaceFlight
  <2>2. CASE ~PlaceNext
    <3>1. handle' = handle
      BY <2>2 DEF Next, Ended, orderVars, LadderNext, LadderEnter,
         LadderWaited, LadderSearched, LadderDenied, LadderFound, LadderKeeps, LadderGivesUp,
         WriteOff, Repeat, GoesOn, ladderOther, CancelNext, CancelBegin, CancelWaited,
         CancelSearched, CancelUnknown, CancelRefused, CancelConfirmed, cancelOther, ReportNext,
         ReportArrives, ReportBegin, ReportProcess, reportsOther, Stop, VenueNext, VenueAccept,
         VenueFill, VenueAnswer, VenueDescribe, VenueSearch, VenueRepair, VenueCancel
    <3>2. place'.count = place.count
      <4>1. CASE VenueNext
        BY <1>1, <4>1, PlaceMoves DEF VenueNext, VenueAccept, VenueFill, VenueAnswer,
           VenueDescribe, VenueSearch, VenueRepair, VenueCancel, PlaceStates
      <4>2. CASE LadderNext
        BY <1>1, <4>2, PlaceMoves, LadderMoves DEF Finish, GoesOn, PlaceStates
      <4>3. CASE ~LadderNext /\ ~VenueNext
        BY <2>2, <4>3 DEF Next, Ended, orderVars, CancelNext, CancelBegin, CancelWaited,
           CancelSearched, CancelUnknown, CancelRefused, CancelConfirmed, cancelOther,
           ReportNext, ReportArrives, ReportBegin, ReportProcess, reportsOther, Stop
      <4> QED
        BY <4>1, <4>2, <4>3
    <3>3. InFlight
      BY <1>3, <3>1, <3>2 DEF InFlight
    <3>4. CASE UNCHANGED orderVars
      <4>1. Flight
        BY <1>3, <3>3 DEF FlightInv
      <4>2. UNCHANGED <<place, venue, ladder, attempts, faults, cancel, book>>
        BY <3>4 DEF orderVars
      <4>3. RowsInFlight(book)'
        BY <4>1, <4>2 DEF Flight, RowsInFlight, Landed
      <4>4. LadderInFlight' /\ \A c \in Cancelers : CancelInFlight(c)'
        BY <4>1, <4>2 DEF Flight, LadderInFlight, CancelInFlight
      <4> QED
        BY <4>3, <4>4 DEF Flight
    <3> QED
      BY <1>3, <2>2, <3>3, <3>4, LadderFlight, CancelFlight, ReportFlight, StopFlight,
         VenueFlight DEF Next, Ended
  <2> QED
    BY <2>1, <2>2
<1> QED
  BY <1>1, <1>2, <1>3 DEF FlightInv, Patient

LEMMA InitFlight == ASSUME Init PROVE FlightInv
BY InitRefused, NewRowFields
DEF Init, FlightInv, Evidence, Begins, InFlight, NoReport, NoAnswer, Landed, Held

(***************************************************************************)
(* In a world where the ladder keeps an attempt for each look-up that may  *)
(* fail, and where no venue denies an order it took on, no cancel, ladder  *)
(* or report concludes that an order was never placed while the answer to  *)
(* its first send is on its way.                                           *)
(***************************************************************************)
THEOREM NoWriteOffInFlightHolds == Spec => [](Patient(terms) => NoWriteOffInFlight)
<1>1. Init => FlightInv
  BY InitFlight
<1>2. FlightInv /\ [Next]_orderVars => FlightInv'
  BY FlightStep
<1>3. FlightInv => (Patient(terms) => NoWriteOffInFlight)
  BY NewRowFields DEF FlightInv, InFlight, Flight, RowsInFlight, NoWriteOffInFlight
<1> QED
  BY <1>1, <1>2, <1>3, PTL DEF Spec


-----------------------------------------------------------------------------
(* A filled order stays filled *)

\* Worlds where the ladder has attempts left, a refused placement is not sent
\* again, and an answer to a look-up is not overtaken by the order's changes.
Timely(w) == /\ Patient(w) /\ w.resends = 0
             /\ ~w.openOnly /\ "overtaking" \notin w.faults

\* There the answer to a look-up is true when the ladder takes it up.
LookedUp ==
    /\ ladder.pc \in {"told", "searched"} => ladder.ans.kind \in {"found", "absent", "failed"}
    /\ ladder.pc = "told" /\ ladder.ans.kind = "found" => ladder.ans.st = venue.st
    /\ ladder.pc \in {"told", "searched"} /\ ladder.ans.kind = "absent" => ~Landed

\* Once the placement is acknowledged only failed look-ups are counted.
LadderCounted ==
    /\ ladder.pc \in {"told", "searched"} /\ ladder.ans.kind = "failed" => attempts <= faults
    /\ ladder.pc = "enter" => attempts <= faults
    /\ ladder.pc \in {"wait", "search", "searched", "ask"} => attempts <= faults + 1

\* A row retired without an id is one of a cancelled order.
Clean(b) == \A o \in {place.obj, b.map} \cap Objs :
                Orphaned(b.heap[o]) => venue.st = "CANCELED"

Timed == Timely(terms) =>
    /\ LookedUp
    /\ place.pc \in {"saving", "sent", "answered"} => handle = "pending"
    /\ handle = "acked" => LadderCounted
    /\ place.pc = "accepted" => handle = "acked" /\ Clean(book)
    /\ place.pc \in {"repairing", "repaired"} => venue.st = "CANCELED"

\* A report states what the order became.
Telling == \A r \in (reports \cup queue \cup {processing}) \ {NoReport} : r.st # "none"

FinalInv == FlightInv /\ Telling /\ Timed

\* A filled row of book b is one in book c, in the database and in the map.
FinalKept(b, c) ==
    /\ b.db.st = "FILLED" => c.db.st = "FILLED"
    /\ Held(b) /\ HeldRow(b).st = "FILLED" /\ Held(c) => HeldRow(c).st = "FILLED"

\* What puts nothing into the map and leaves the rows' statuses alone.
Tame(b, c) ==
    /\ c.map \in {b.map, None}
    /\ b.db.st = "FILLED" => c.db.st = "FILLED"
    /\ \A o \in {place.obj, c.map} \cap Objs : /\ c.heap[o].st = b.heap[o].st
                                               /\ b.heap[o].oid => c.heap[o].oid

LEMMA TameSame == ASSUME NEW b PROVE Tame(b, b)
BY DEF Tame

LEMMA TameThen ==
  ASSUME NEW a, NEW b, NEW c, Tame(a, b), Tame(b, c)
  PROVE  Tame(a, c)
<1>1. ASSUME NEW o \in {place.obj, c.map} \cap Objs
      PROVE  c.heap[o].st = a.heap[o].st /\ (a.heap[o].oid => c.heap[o].oid)
  BY <1>1, Constants DEF Tame
<1> QED
  BY <1>1 DEF Tame

LEMMA TameOps ==
  ASSUME NEW b \in Books, NEW r
  PROVE  /\ Tame(b, UpdateOrderOnDb(b, r)) /\ Tame(b, DeleteOrder(b))
         /\ Tame(b, SaveOrderToDb(b, r)) /\ Tame(b, DeleteOrderFromDb(b))
<1>1. Tame(b, UpdateOrderOnDb(b, r))
  BY UpdateFields DEF Tame, Live
<1>2. Tame(b, DeleteOrder(b))
  BY DeleteFields DEF Tame
<1>3. Tame(b, SaveOrderToDb(b, r))
  BY SaveFields DEF Tame
<1>4. Tame(b, DeleteOrderFromDb(b))
  BY TakeBackFields DEF Tame
<1> QED
  BY <1>1, <1>2, <1>3, <1>4

LEMMA TameAdopt ==
  ASSUME NEW b \in Books, NEW o \in Objs
  PROVE  Tame(b, AdoptExchangeOrderId(b, o))
<1> DEFINE known == [b EXCEPT !.heap = [x \in Objs |->
                       IF x \in {o, b.map} THEN [b.heap[x] EXCEPT !.oid = TRUE]
                                           ELSE b.heap[x]]]
<1>1. \A x \in Objs : [b.heap[x] EXCEPT !.oid = TRUE] \in Rows
                      /\ [b.heap[x] EXCEPT !.oid = TRUE].st = b.heap[x].st
                      /\ [b.heap[x] EXCEPT !.oid = TRUE].oid
  BY BookFields DEF Rows
<1>2. known \in Books /\ known.map = b.map /\ known.db = b.db
      /\ \A x \in Objs : /\ known.heap[x].st = b.heap[x].st
                         /\ b.heap[x].oid => known.heap[x].oid
  BY <1>1, BookFields DEF Books
<1> HIDE DEF known
<1>3. Tame(b, known)
  BY <1>2 DEF Tame
<1>4. CASE b.heap[o].oid
  BY <1>4, TameSame DEF AdoptExchangeOrderId
<1>5. CASE ~b.heap[o].oid /\ Held(b)
  <2> DEFINE set == SetOrder(known, b.map)
  <2>1. b.map \in Objs
    BY <1>5, BookFields
  <2>2. set \in Books /\ set.map = known.map /\ set.db = known.db /\ set.heap = known.heap
    BY <1>2, <2>1, SetOrderType, SetFields
  <2>3. AdoptExchangeOrderId(b, o) = UpdateOrderOnDb(set, HeldRow(known))
    BY <1>5 DEF AdoptExchangeOrderId, known
  <2> HIDE DEF set
  <2>4. Tame(known, set)
    BY <2>2 DEF Tame
  <2>5. Tame(set, UpdateOrderOnDb(set, HeldRow(known))) /\ Tame(b, set)
    BY <1>3, <2>2, <2>4, TameOps, TameThen
  <2> QED
    BY <2>3, <2>5, TameThen
<1>6. CASE ~b.heap[o].oid /\ ~Held(b)
  <2>1. AdoptExchangeOrderId(b, o) = UpdateOrderOnDb(known, known.heap[o])
    BY <1>6 DEF AdoptExchangeOrderId, known
  <2>2. Tame(known, UpdateOrderOnDb(known, known.heap[o]))
    BY <1>2, TameOps
  <2> QED
    BY <1>3, <2>1, <2>2, TameThen
<1> QED
  BY <1>4, <1>5, <1>6

\* Sweeping keeps what is in the map and what the placement holds.
LEMMA TameSweep ==
  ASSUME NEW b \in Books, Tame(book, b), book \in Books, book' \in {b, Sweep(b)}
  PROVE  /\ FinalKept(book, book')
         /\ Clean(book) /\ place' = place /\ (venue.st = "CANCELED" => venue'.st = "CANCELED")
              => Clean(book)'
<1>1. /\ book'.map = b.map /\ book'.db = b.db
      /\ \A o \in {place'.obj, b.map} \cap Objs : book'.heap[o] = b.heap[o]
  BY SweepFields DEF References
<1>2. FinalKept(book, book')
  BY <1>1, BookFields DEF FinalKept, Tame, Held, HeldRow
<1>3. ASSUME Clean(book), place' = place, venue.st = "CANCELED" => venue'.st = "CANCELED"
      PROVE  Clean(book)'
  <2> SUFFICES ASSUME NEW o \in {place.obj, book'.map} \cap Objs, Orphaned(book'.heap[o])
               PROVE  venue'.st = "CANCELED"
    BY <1>3 DEF Clean, Orphaned
  <2>1. o \in {place.obj, book.map} /\ book'.heap[o] = b.heap[o]
    BY <1>1, <1>3, Constants DEF Tame
  <2>2. Orphaned(book.heap[o])
    BY <1>1, <2>1 DEF Tame, Orphaned
  <2> QED
    BY <1>3, <2>1, <2>2 DEF Clean
<1> QED
  BY <1>2, <1>3

\* The steps that write a row the map keeps, or sends the order again.
Writes == \/ PlaceBegin \/ PlaceResend \/ PlaceAccepted \/ ReportProcess \/ LadderFound
          \/ \E c \in Cancelers : CancelConfirmed(c)

\* The ladder gives up, or the venue denies the order.
Denying == \/ ladder.pc = "enter" /\ attempts = MaxAttempts
           \/ ladder.pc \in {"searched", "told"} /\ Definitive(ladder.ans.kind)

Tamely == \E b \in Books : Tame(book, b) /\ book' \in {b, Sweep(b)}

LEMMA TamelyBy ==
  ASSUME NEW b \in Books, Tame(book, b), book' \in {b, Sweep(b)}
  PROVE  Tamely
BY DEF Tamely

LEMMA PlaceTame ==
  ASSUME Shape, PlaceNext, ~Writes
  PROVE  Tamely
<1>1. book \in Books /\ Tame(book, book)
  BY Waiting, TameSame
<1>2. CASE UNCHANGED book \/ book' = Sweep(book)
  BY <1>1, <1>2 DEF Tamely
<1>3. CASE PlaceSend \/ PlaceGuarded
  <2>1. SaveOrderToDb(book, NewRow) \in Books /\ Tame(book, SaveOrderToDb(book, NewRow))
    BY <1>1, TameOps, SaveType, NewRows
  <2>2. book' = Sweep(SaveOrderToDb(book, NewRow))
    BY <1>3 DEF PlaceSend, PlaceGuarded
  <2> QED
    BY <2>1, <2>2 DEF Tamely
<1>4. CASE PlaceZeroQuote
  <2> DEFINE saved == SaveOrderToDb(book, NewRow)
             dropped == DeleteOrder(saved)
             b == DeleteOrderFromDb(dropped)
  <2>1. saved \in Books /\ Tame(book, saved)
    BY <1>1, TameOps, SaveType, NewRows
  <2>2. book' = Sweep(b)
    BY <1>4 DEF PlaceZeroQuote
  <2> HIDE DEF saved
  <2>3. dropped \in Books /\ Tame(saved, dropped)
    BY <2>1, TameOps, DeleteOrderType
  <2> HIDE DEF dropped
  <2>4. b \in Books /\ Tame(dropped, b)
    BY <2>3, TameOps, DeleteRowType
  <2> HIDE DEF b
  <2>5. Tame(book, b)
    BY <2>1, <2>3, <2>4, TameThen
  <2> QED
    BY <2>2, <2>4, <2>5 DEF Tamely
<1>5. Forget(book) \in Books /\ Tame(book, Forget(book))
  BY <1>1, TameOps, DeleteOrderType DEF Forget
<1>6. DeleteOrder(book) \in Books /\ Tame(book, DeleteOrder(book))
  BY <1>1, TameOps, DeleteOrderType
<1>7. CASE PlaceRefused \/ PlaceLocal \/ PlaceDenied
  <2>1. place.obj \in Objs
    BY <1>7, Waiting, PlaceMoves DEF PlaceRefused, PlaceLocal, PlaceDenied, PlaceStates
  <2>2. ASSUME NEW b \in Books, Tame(book, b)
        PROVE  /\ Retire(b) \in Books /\ Tame(book, Retire(b))
               /\ DeleteOrderFromDb(b) \in Books /\ Tame(book, DeleteOrderFromDb(b))
    <3> DEFINE r == [book.heap[place.obj] EXCEPT !.st = "CANCELED"]
    <3>1. r \in Rows
      BY <1>1, <2>1, BookFields DEF Rows, Statuses
    <3>2. Retire(b) = UpdateOrderOnDb(b, r)
      BY DEF Retire
    <3> HIDE DEF r
    <3>3. Retire(b) \in Books /\ Tame(b, Retire(b))
      BY <2>2, <3>1, <3>2, UpdateType, TameOps
    <3>4. DeleteOrderFromDb(b) \in Books /\ Tame(b, DeleteOrderFromDb(b))
      BY <2>2, DeleteRowType, TameOps
    <3> QED
      BY <2>2, <3>3, <3>4, TameThen
  <2>3. \/ book' = Sweep(book) \/ book' = Sweep(Retire(Forget(book)))
        \/ book' = Sweep(DeleteOrderFromDb(Forget(book)))
        \/ book' = Sweep(Retire(DeleteOrder(book)))
    BY <1>7 DEF PlaceRefused, PlaceLocal, PlaceDenied
  <2> QED
    BY <1>1, <1>5, <1>6, <2>2, <2>3 DEF Tamely
<1>8. PlaceAnswered \/ PlaceRepair \/ PlaceRetry \/ PlaceLost
        => UNCHANGED book \/ book' = Sweep(book)
  BY DEF PlaceAnswered, PlaceRepair, PlaceRetry, PlaceLost
<1> QED
  BY <1>2, <1>3, <1>4, <1>7, <1>8 DEF PlaceNext, Writes

LEMMA LadderTame ==
  ASSUME Shape, LadderNext, ~Writes
  PROVE  Tamely \/ (Denying /\ book' = Sweep(WrittenOff(book)))
<1>1. book \in Books /\ Tame(book, book)
  BY Waiting, TameSame
<1>2. CASE book' = Sweep(book)
  BY <1>1, <1>2 DEF Tamely
<1>3. ASSUME NEW o \in Fresh, book' = Sweep(Put(book, o, book.db))
      PROVE  Tamely
  <2> DEFINE b == Put(book, o, book.db)
  <2>1. o \in Objs /\ o # book.map /\ o # place.obj /\ book.db \in Rows
    BY <1>1, <1>3, FreshFacts, BookFields
  <2>2. b \in Books /\ b.map = book.map /\ b.db = book.db
        /\ \A x \in Objs : b.heap[x] = IF x = o THEN book.db ELSE book.heap[x]
    BY <1>1, <2>1, PutType, PutFields
  <2> HIDE DEF b
  <2>3. Tame(book, b)
    BY <2>1, <2>2 DEF Tame
  <2> QED
    BY <1>3, <2>2, <2>3 DEF Tamely, b
<1>4. CASE LadderEnter
  BY <1>2, <1>3, <1>4 DEF LadderEnter
<1>5. ASSUME ladder.obj \in Objs, book' = Sweep(AdoptExchangeOrderId(book, ladder.obj))
      PROVE  Tamely
  BY <1>1, <1>5, TameAdopt, AdoptType DEF Tamely
<1>6. ladder.pc \in {"wait", "searched"} => ladder.obj \in Objs
  BY Waiting, PlaceMoves DEF LadderStates
<1>7. CASE LadderWaited
  BY <1>2, <1>5, <1>6, <1>7 DEF LadderWaited
<1>8. CASE LadderSearched
  BY <1>2, <1>5, <1>6, <1>8
  DEF LadderSearched, WriteOff, Repeat, Denying, NotHeld, Definitive
<1>9. CASE LadderDenied
  BY <1>2, <1>9 DEF LadderDenied, WriteOff, Repeat, Denying, Final
<1>10. CASE LadderKeeps
  BY <1>2, <1>10 DEF LadderKeeps
<1>11. CASE LadderGivesUp
  BY <1>11 DEF LadderGivesUp, WriteOff, Denying
<1> QED
  BY <1>4, <1>7, <1>8, <1>9, <1>10, <1>11 DEF LadderNext, Writes

LEMMA StepTame ==
  ASSUME Shape, [Next]_orderVars, ~Writes
  PROVE  Tamely \/ (Denying /\ book' = Sweep(WrittenOff(book)))
<1>1. book \in Books /\ Tame(book, book)
  BY Waiting, TameSame
<1>2. CASE UNCHANGED book \/ book' = Sweep(book)
  BY <1>1, <1>2 DEF Tamely
<1>3. CASE \E c \in Cancelers : CancelNext(c)
  <2>1. PICK c \in Cancelers : CancelNext(c)
    BY <1>3
  <2>2. CASE cancel[c].obj \in Objs /\ book' = Sweep(AdoptExchangeOrderId(book, cancel[c].obj))
    BY <1>1, <2>2, TameAdopt, AdoptType DEF Tamely
  <2>3. cancel[c].pc \in {"wait", "searched"} => cancel[c].obj \in Objs
    BY CancelHolds DEF Holding
  <2>4. ~CancelConfirmed(c)
    BY DEF Writes
  <2> QED
    BY <1>2, <2>1, <2>2, <2>3, <2>4
    DEF CancelNext, CancelBegin, CancelWaited, CancelSearched, CancelUnknown, CancelRefused
<1>4. CASE Stop
  <2> DEFINE b == [book EXCEPT !.map = None, !.routed = FALSE]
  <2>1. b \in Books /\ b.map = None /\ b.db = book.db /\ b.heap = book.heap
    BY <1>1 DEF Books
  <2>2. book' = Sweep(b)
    BY <1>4 DEF Stop
  <2> HIDE DEF b
  <2>3. Tame(book, b)
    BY <2>1 DEF Tame
  <2> QED
    BY <2>1, <2>2, <2>3 DEF Tamely
<1>5. CASE ReportNext
  BY <1>2, <1>5 DEF ReportNext, ReportArrives, ReportBegin, Writes
<1>6. CASE VenueNext
  BY <1>2, <1>6 DEF VenueNext, VenueAccept, VenueFill, VenueAnswer, VenueDescribe,
     VenueSearch, VenueRepair, VenueCancel
<1>7. CASE UNCHANGED orderVars
  BY <1>2, <1>7 DEF orderVars
<1> QED
  BY <1>3, <1>4, <1>5, <1>6, <1>7, PlaceTame, LadderTame DEF Next, Ended

-----------------------------------------------------------------------------
(* What the ladder knows there *)

\* The ladder's turns: only a round that is begun is counted, and a round is
\* repeated only if it told nothing.
Turns ==
    \/ UNCHANGED <<ladder, attempts>>
    \/ ladder'.pc = "idle"
    \/ /\ ladder.pc = "enter" /\ ladder'.pc \in {"wait", "search", "ask"}
       /\ attempts' = attempts + 1
    \/ /\ attempts' = attempts
       /\ \/ ladder.pc = "idle" /\ ladder'.pc = "enter"
          \/ ladder.pc = "wait" /\ ladder'.pc \in {"search", "ask"}
          \/ ladder.pc = "searched" /\ ladder'.pc = "ask"
          \/ /\ ladder.pc = "searched" /\ ladder.ans.kind \notin {"found", "absent"}
             /\ ladder'.pc = "enter"
          \/ ladder.pc = "told" /\ ladder.ans.kind # "found" /\ ladder'.pc = "enter"

LEMMA LadderTurns ==
  ASSUME Shape, [Next]_orderVars, ~VenueNext
  PROVE  faults' = faults /\ Turns
<1>1. ladder \in LadderStates
  BY PlaceMoves
<1>2. CASE LadderNext
  <2>1. faults' = faults
    BY <1>2, LadderMoves DEF ladderOther
  <2>2. ASSUME NEW pc, NEW o, Again(pc, o)
        PROVE  ladder'.pc = pc
    BY <1>1, <2>2 DEF Again, LadderStates
  <2>3. ASSUME NEW found, Finish(found)
        PROVE  ladder'.pc = "idle"
    BY <2>3 DEF Finish
  <2>4. CASE LadderEnter
    <3>1. \E pc \in {"wait", "search", "ask"} : \E o : Again(pc, o)
      BY <2>4 DEF LadderEnter, RoundOf
    <3> QED
      BY <2>1, <2>2, <2>4, <3>1 DEF LadderEnter, Counted, Turns
  <2>5. CASE LadderWaited
    BY <2>1, <2>2, <2>5 DEF LadderWaited, Turns
  <2>6. CASE LadderSearched
    BY <2>1, <2>2, <2>3, <2>6 DEF LadderSearched, WriteOff, Repeat, NotHeld, Turns
  <2>7. CASE LadderDenied
    BY <2>1, <2>2, <2>3, <2>7 DEF LadderDenied, WriteOff, Repeat, Turns
  <2>8. CASE LadderFound \/ LadderKeeps \/ LadderGivesUp
    BY <2>1, <2>3, <2>8 DEF LadderFound, LadderKeeps, LadderGivesUp, WriteOff, Turns
  <2> QED
    BY <1>2, <2>4, <2>5, <2>6, <2>7, <2>8 DEF LadderNext
<1>3. ASSUME HandleUnknownOrder(TRUE) \/ HandleUnknownOrder(FALSE) \/ ladder' = ladder,
             attempts' = attempts
      PROVE  Turns
  BY <1>1, <1>3 DEF HandleUnknownOrder, LadderStates, Turns
<1>4. CASE \E c \in Cancelers : CancelNext(c)
  BY <1>3, <1>4, CancelMoves DEF cancelOther
<1>5. CASE PlaceNext
  <2>1. /\ faults' = faults /\ attempts' = attempts
        /\ HandleUnknownOrder(TRUE) \/ ladder' = ladder
    BY <1>5 DEF PlaceNext, PlaceBegin, PlaceSend, PlaceGuarded, PlaceZeroQuote,
       PlaceAnswered, PlaceRepair, PlaceAccepted, PlaceRetry, PlaceResend, PlaceRefused,
       PlaceLocal, PlaceLost, PlaceDenied, placeOther
  <2> QED
    BY <1>3, <2>1
<1>6. CASE ReportNext \/ Stop \/ UNCHANGED orderVars
  BY <1>3, <1>6 DEF ReportNext, ReportArrives, ReportBegin, ReportProcess, reportsOther, Stop,
     orderVars
<1> QED
  BY <1>2, <1>4, <1>5, <1>6 DEF Next, Ended

\* An answer that the ladder has is that of a venue that has not moved on.
LEMMA LookedUpStep ==
  ASSUME Shape, Timely(terms), LookedUp, [Next]_orderVars
  PROVE  LookedUp'
<1>1. ladder \in LadderStates /\ place \in PlaceStates /\ cancel \in [Cancelers -> CancelStates]
  BY PlaceMoves
<1>2. CASE ~VenueNext
  <2>1. venue' = venue /\ Turns
    BY <1>2, LadderTurns, AnswerKept DEF Next, Ended
  <2> QED
    BY <2>1 DEF Turns, LookedUp, Landed
<1>3. ASSUME ladder' = ladder, NEW st, NEW exec,
             Becomes(st, exec) \/ venue' = venue
      PROVE  LookedUp'
  BY <1>3 DEF Becomes, LookupAnswered, LookedUp, Timely, Faults, Landed
<1>4. CASE VenueAccept \/ VenueFill \/ VenueAnswer \/ VenueRepair
  BY <1>3, <1>4 DEF VenueAccept, VenueFill, VenueAnswer, VenueRepair
<1>5. CASE \E c \in Cancelers : VenueCancel(c)
  BY <1>3, <1>5 DEF VenueCancel
<1>6. CASE VenueDescribe
  <2>1. PICK kind \in {"found", "absent", "unreliable", "failed"} :
         /\ Lookup(kind, Landed) \/ Lags(kind)
         /\ ladder' = [ladder EXCEPT !.pc = "told", !.ans = Answer(kind)]
    BY <1>6 DEF VenueDescribe
  <2>2. venue' = venue
    BY <1>6 DEF VenueDescribe
  <2>3. ladder'.pc = "told" /\ ladder'.ans = Answer(kind)
    BY <1>1, <2>1 DEF LadderStates
  <2>4. Answer(kind).kind = kind /\ Answer(kind).st = venue.st
    BY DEF Answer
  <2>5. ~Lags(kind)
    BY DEF Lags, Timely, Patient, Faults
  <2>6. kind # "unreliable" /\ (kind = "absent" => ~Landed)
    BY <2>1, <2>5 DEF Lookup
  <2> QED
    BY <2>2, <2>3, <2>4, <2>6 DEF LookedUp, Landed
<1>7. CASE VenueSearch
  <2>1. venue' = venue
    BY <1>7 DEF VenueSearch
  <2>2. CASE ladder' = ladder
    BY <1>3, <2>1, <2>2
  <2>3. CASE ladder' # ladder
    <3>1. PICK kind \in {"found", "absent", "failed"} :
            /\ Lookup(kind, Listed)
            /\ ladder' = [ladder EXCEPT !.pc = "searched", !.ans = Answer(kind)]
      BY <1>7, <2>3 DEF VenueSearch
    <3>2. ladder'.pc = "searched" /\ ladder'.ans.kind = kind
      BY <1>1, <3>1 DEF LadderStates, Answer
    <3>3. kind = "absent" => ~Landed
      BY <3>1 DEF Lookup, Listed, OpenOrdersOnly, Timely
    <3> QED
      BY <2>1, <3>2, <3>3 DEF LookedUp, Landed
  <2> QED
    BY <2>2, <2>3
<1> QED
  BY <1>2, <1>4, <1>5, <1>6, <1>7 DEF VenueNext

\* Only the placement settles the handle or begins another one.
LEMMA HandleMoves ==
  ASSUME Shape, [Next]_orderVars
  PROVE  /\ terms' = terms
         /\ handle' = handle \/ PlaceNext
         /\ handle' = "acked" => handle = "acked" \/ PlaceAnswered
         /\ attempts \in Nat /\ faults \in Nat
<1>1. attempts \in Nat /\ faults \in Nat
  BY Waiting, Constants DEF Shape, TypeOK
<1>2. CASE PlaceNext
  BY <1>1, <1>2 DEF PlaceNext, PlaceBegin, PlaceSend, PlaceGuarded,
     PlaceZeroQuote, PlaceAnswered, PlaceRepair, PlaceAccepted, PlaceRetry, PlaceResend,
     PlaceRefused, PlaceLocal, PlaceLost, PlaceDenied, placeOther
<1>3. CASE ~PlaceNext
  <2>1. UNCHANGED <<terms, handle>>
    BY <1>3 DEF Next, Ended, orderVars, LadderNext, LadderEnter,
     LadderWaited, LadderSearched, LadderDenied, LadderFound, LadderKeeps, LadderGivesUp,
     WriteOff, Repeat, GoesOn, ladderOther, CancelNext, CancelBegin, CancelWaited,
     CancelSearched, CancelUnknown, CancelRefused, CancelConfirmed, cancelOther, ReportNext,
     ReportArrives, ReportBegin, ReportProcess, reportsOther, Stop, VenueNext, VenueAccept,
     VenueFill, VenueAnswer, VenueDescribe, VenueSearch, VenueRepair, VenueCancel
  <2> QED
    BY <1>1, <2>1
<1> QED
  BY <1>2, <1>3

\* There a placement's answer that travels is that of the first send.
LEMMA OnceSent ==
  ASSUME FinalInv, Timely(terms)
  PROVE  /\ Shape /\ Patient(terms) /\ place.count = 0
         /\ place.pc \in {"saving", "sent", "answered"} => InFlight /\ Flight
         /\ place.pc # "resending" /\ ~PlaceRetry
         /\ handle = "acked" => Landed
<1>1. Shape /\ Patient(terms) /\ FlightInv /\ Begins /\ Timed /\ Unplaced
  BY DEF FinalInv, FlightInv, RefusedInv, Timely
<1>2. place.count \in 0..0 /\ Resends = 0
  BY <1>1 DEF Shape, TypeOK, Resends, Timely
<1>3. place.pc \in {"saving", "sent", "answered"} => handle = "pending"
  BY <1>1 DEF Timed
<1> QED
  BY <1>1, <1>2, <1>3 DEF FlightInv, InFlight, Begins, Unplaced, PlaceRetry

LEMMA StillWithin ==
  ASSUME NEW a \in Nat, NEW m \in Nat, NEW n \in Nat, m <= n
  PROVE  /\ a <= m => a <= n
         /\ a <= m + 1 => a <= n + 1
<1>1. m + 1 <= n + 1
  OBVIOUS
<1>2. a <= m + 1 => a <= n + 1
  BY <1>1
<1> QED
  BY <1>2

\* Once the placement is acknowledged the ladder counts nothing but failures.
LEMMA CountedStep ==
  ASSUME FinalInv, Timely(terms), [Next]_orderVars, handle' = "acked"
  PROVE  LadderCounted'
<1>1. /\ Shape /\ attempts \in Nat /\ faults \in Nat /\ ladder \in LadderStates
      /\ LookedUp
  BY OnceSent, HandleMoves, PlaceMoves DEF FinalInv, Timed
<1>2. CASE handle # "acked"
  <2>1. PlaceAnswered
    BY <1>1, <1>2, HandleMoves
  <2>2. UNCHANGED <<ladder, attempts, faults>> /\ Flight
    BY <2>1, OnceSent DEF PlaceAnswered, placeOther
  <2> QED
    BY <1>1, <2>2 DEF Flight, LadderInFlight, LadderCounted
<1>3. CASE handle = "acked" /\ ~VenueNext
  <2>1. faults' = faults /\ Turns
    BY <1>1, <1>3, LadderTurns
  <2>2. LadderCounted /\ Landed
    BY <1>3, OnceSent DEF FinalInv, Timed
  <2>3. ladder.pc = "idle" => attempts = 0
    BY DEF FinalInv, FlightInv, Begins
  <2>4. CASE UNCHANGED <<ladder, attempts>> \/ ladder'.pc = "idle"
    BY <2>1, <2>2, <2>4 DEF LadderCounted
  <2>5. CASE ladder.pc = "enter" /\ attempts' = attempts + 1
               /\ ladder'.pc \in {"wait", "search", "ask"}
    BY <1>1, <2>1, <2>2, <2>5 DEF LadderCounted
  <2>6. CASE attempts' = attempts /\ ladder.pc \in {"wait", "searched"}
               /\ ladder'.pc \in {"search", "ask"}
    BY <1>1, <2>1, <2>2, <2>6 DEF LadderCounted
  <2>7. CASE attempts' = attempts /\ ladder.pc \in {"idle", "searched", "told"}
               /\ (ladder.pc # "idle" => ladder.ans.kind = "failed")
               /\ ladder'.pc = "enter"
    BY <1>1, <2>1, <2>2, <2>3, <2>7 DEF LadderCounted
  <2>8. /\ ladder.pc = "told" /\ ladder.ans.kind # "found" => ladder.ans.kind = "failed"
        /\ ladder.pc = "searched" /\ ladder.ans.kind \notin {"found", "absent"}
             => ladder.ans.kind = "failed"
    BY <1>1, <2>2 DEF LookedUp
  <2> QED
    BY <2>1, <2>4, <2>5, <2>6, <2>7, <2>8 DEF Turns
<1>4. CASE handle = "acked" /\ VenueNext
  <2>1. LadderCounted
    BY <1>4 DEF FinalInv, Timed
  <2>2. attempts' = attempts
    BY <1>4 DEF VenueNext, VenueAccept, VenueFill, VenueAnswer, VenueDescribe, VenueSearch,
       VenueRepair, VenueCancel
  <2>3. ASSUME NEW kind, NEW finds, Lookup(kind, finds) \/ Lags(kind)
        PROVE  /\ faults' \in Nat /\ faults <= faults'
               /\ kind = "failed" => faults' = faults + 1
    BY <1>1, <2>3 DEF Lookup, Lags
  <2>4. ASSUME ladder' = ladder, faults' \in Nat, faults <= faults'
        PROVE  LadderCounted'
    <3>1. attempts \in Nat /\ faults \in Nat /\ faults' \in Nat /\ faults <= faults'
      BY <1>1, <2>4
    <3>2. /\ attempts <= faults => attempts <= faults'
          /\ attempts <= faults + 1 => attempts <= faults' + 1
      BY <3>1, StillWithin
    <3>3. /\ attempts <= faults => attempts' <= faults'
          /\ attempts <= faults + 1 => attempts' <= faults' + 1
      BY <2>2, <3>2
    <3> QED
      BY <2>1, <2>4, <3>3 DEF LadderCounted
  <2>5. CASE VenueAccept \/ VenueFill \/ VenueAnswer \/ VenueRepair
               \/ \E c \in Cancelers : VenueCancel(c)
    BY <1>1, <2>4, <2>5 DEF VenueAccept, VenueFill, VenueAnswer, VenueRepair, VenueCancel
  <2>6. ASSUME NEW kind, NEW pc \in {"told", "searched"}, faults' \in Nat, faults <= faults',
               kind = "failed" => faults' = faults + 1, ladder.pc \in {"ask", "search"},
               ladder' = [ladder EXCEPT !.pc = pc, !.ans = Answer(kind)]
        PROVE  LadderCounted'
    <3>1. ladder'.pc = pc /\ ladder'.ans.kind = kind
      BY <1>1, <2>6 DEF LadderStates, Answer
    <3>2. attempts <= faults + 1
      BY <2>1, <2>6 DEF LadderCounted
    <3> QED
      BY <1>1, <2>2, <2>6, <3>1, <3>2 DEF LadderCounted
  <2>7. CASE VenueDescribe
    <3>1. PICK kind \in {"found", "absent", "unreliable", "failed"} :
            /\ Lookup(kind, Landed) \/ Lags(kind)
            /\ ladder' = [ladder EXCEPT !.pc = "told", !.ans = Answer(kind)]
      BY <2>7 DEF VenueDescribe
    <3> QED
      BY <2>3, <2>6, <2>7, <3>1 DEF VenueDescribe
  <2>8. CASE VenueSearch
    <3>1. PICK kind \in {"found", "absent", "failed"} :
            /\ Lookup(kind, Listed)
            /\ \/ /\ ladder.pc = "search"
                  /\ ladder' = [ladder EXCEPT !.pc = "searched", !.ans = Answer(kind)]
               \/ ladder' = ladder
      BY <2>8 DEF VenueSearch
    <3>2. /\ faults' \in Nat /\ faults <= faults'
          /\ kind = "failed" => faults' = faults + 1
      BY <2>3, <3>1
    <3> QED
      BY <2>4, <2>6, <3>1, <3>2
  <2> QED
    BY <1>4, <2>5, <2>7, <2>8 DEF VenueNext
<1> QED
  BY <1>2, <1>3, <1>4

\* So it never gives an acknowledged order up, nor is the order denied to it.
LEMMA NotDenied ==
  ASSUME FinalInv, Timely(terms), handle = "acked"
  PROVE  ~Denying
<1>1. LookedUp /\ LadderCounted /\ Landed /\ faults \in 0..LookupFaults
  BY OnceSent DEF FinalInv, Timed, Shape, TypeOK
<1>2. LookupFaults \in Nat /\ LookupFaults < MaxAttempts /\ MaxAttempts \in Nat
  <2>1. terms.lookups \in Nat
    BY OnceSent, WorldsAssumption DEF Shape, TypeOK
  <2> QED
    BY <2>1, OnceSent, Constants DEF Patient, LookupFaults
<1>3. faults < MaxAttempts /\ attempts \in 0..MaxAttempts
  BY <1>1, <1>2, OnceSent DEF Shape, TypeOK
<1>4. ladder.pc = "enter" => attempts # MaxAttempts
  BY <1>1, <1>2, <1>3 DEF LadderCounted
<1>5. ladder.pc \in {"searched", "told"} => ladder.ans.kind \in {"found", "failed"}
  BY <1>1 DEF LookedUp
<1> QED
  BY <1>4, <1>5 DEF Denying, Definitive

-----------------------------------------------------------------------------
(* The placement there *)

\* Where the placement goes while others step.
LEMMA PlaceStays ==
  ASSUME Shape, [Next]_orderVars, ~PlaceNext
  PROVE  /\ handle' = handle
         /\ \/ place' = place
            \/ place.pc = "sent" /\ place'.pc = "answered"
            \/ place.pc = "repairing" /\ place'.pc = "repaired"
            \/ place.pc = "ladder" /\ place'.pc \in {"done", "denied"}
<1>1. place \in PlaceStates /\ handle' = handle
  BY PlaceMoves, HandleMoves
<1>2. CASE VenueNext
  BY <1>1, <1>2 DEF VenueNext, VenueAccept, VenueFill, VenueAnswer, VenueDescribe,
     VenueSearch, VenueRepair, VenueCancel, PlaceStates
<1>3. CASE LadderNext
  <2>1. ASSUME NEW found, Finish(found)
        PROVE  place' = place \/ (place.pc = "ladder" /\ place'.pc \in {"done", "denied"})
    BY <1>1, <2>1 DEF Finish, PlaceStates
  <2> QED
    BY <1>1, <1>3, <2>1, LadderMoves DEF GoesOn
<1>4. CASE \E c \in Cancelers : CancelNext(c)
  BY <1>1, <1>4, CancelMoves DEF cancelOther
<1>5. CASE ReportNext \/ Stop \/ UNCHANGED orderVars
  BY <1>1, <1>5 DEF ReportNext, ReportArrives, ReportBegin, ReportProcess, reportsOther, Stop,
     orderVars
<1> QED
  BY <1>2, <1>3, <1>4, <1>5 DEF Next, Ended

\* Where the placement itself goes.
LEMMA PlaceGoes ==
  ASSUME Shape, PlaceNext
  PROVE  /\ place'.pc = "saving" => PlaceBegin \/ PlaceResend
         /\ place'.pc = "sent" => PlaceSend
         /\ place'.pc # "answered"
         /\ place'.pc = "accepted" => PlaceAnswered /\ place.ans.kind = "accepted"
         /\ place'.pc = "repairing" => PlaceRepair
         /\ place'.pc # "repaired"
<1>1. place \in PlaceStates /\ (PlaceDone => place'.pc = "done")
  BY PlaceMoves
<1>2. CASE PlaceBegin \/ PlaceSend \/ PlaceGuarded \/ PlaceRetry \/ PlaceResend
  BY <1>1, <1>2 DEF PlaceBegin, PlaceSend, PlaceGuarded, PlaceRetry, PlaceResend, PlaceStates
<1>6. CASE PlaceRepair
  BY <1>6, RepairMoves
<1>3. CASE PlaceAnswered
  BY <1>1, <1>3 DEF PlaceAnswered, PlaceStates, Shape, PlaceKinds
<1>4. CASE PlaceZeroQuote \/ PlaceAccepted \/ PlaceRefused \/ PlaceLocal \/ PlaceDenied
  BY <1>1, <1>4 DEF PlaceZeroQuote, PlaceAccepted, PlaceRefused, PlaceLocal, PlaceDenied
<1>5. CASE PlaceLost
  BY <1>1, <1>5 DEF PlaceLost, PlaceStates
<1> QED
  BY <1>2, <1>3, <1>4, <1>5, <1>6 DEF PlaceNext

\* What a book's rows say of a cancelled order is so of the swept one.
LEMMA CleanSwept ==
  ASSUME NEW b \in Books, Clean(b), book' \in {b, Sweep(b)}, place' = place,
         venue.st = "CANCELED" => venue'.st = "CANCELED"
  PROVE  Clean(book)'
<1> SUFFICES ASSUME NEW o \in {place.obj, book'.map} \cap Objs, Orphaned(book'.heap[o])
             PROVE  venue'.st = "CANCELED"
  BY DEF Clean, Orphaned
<1>1. book'.map = b.map /\ book'.heap[o] = b.heap[o]
  BY SweepFields DEF References
<1>2. Orphaned(b.heap[o])
  BY <1>1 DEF Orphaned
<1> QED
  BY <1>1, <1>2 DEF Clean

\* A row written with the venue's id, or as the venue states it, is no such one.
LEMMA CleanWritten ==
  ASSUME NEW b, NEW o \in Objs, Clean(book), b.map \in {None, o},
         \A x \in Objs \ {o} : b.heap[x] = book.heap[x],
         Orphaned(b.heap[o]) => venue.st = "CANCELED"
  PROVE  Clean(b)
<1> SUFFICES ASSUME NEW x \in {place.obj, b.map} \cap Objs, Orphaned(b.heap[x])
             PROVE  venue.st = "CANCELED"
  BY DEF Clean
<1>1. CASE x = o
  BY <1>1
<1>2. CASE x # o
  BY <1>2, Constants DEF Clean
<1> QED
  BY <1>1, <1>2

LEMMA ReportWrites ==
  ASSUME Shape, ReportProcess
  PROVE  \/ book' = book
         \/ LET new == [st |-> processing.st, oid |-> TRUE, exec |-> processing.exec,
                        time |-> processing.time]
                row == IF Held(book) THEN HeldRow(book) ELSE book.db
            IN /\ ~Unfills(row, processing)
               /\ \E b \in Books, o \in Fresh :
                    /\ book' = Sweep(b) /\ b.map \in {None, o}
                    /\ \A x \in Objs \ {o} : b.heap[x] = book.heap[x]
                    /\ b.map = o => b.heap[o] = new
                    /\ b.map = None => b.heap = book.heap
                    /\ b.db = IF book.db.st \in Live THEN new ELSE book.db
<1> DEFINE new == [st |-> processing.st, oid |-> TRUE, exec |-> processing.exec,
                   time |-> processing.time]
           row == IF Held(book) THEN HeldRow(book) ELSE book.db
           updated == UpdateOrderOnDb(book, new)
           stored == DeleteOrder(updated)
           put(o) == Put(stored, o, new)
           set(o) == SetOrder(put(o), o)
<1>1. CASE book' = book
  BY <1>1
<1>2. CASE book' # book
  <2>1. PICK o \in Fresh : book' = Sweep(IF Stays(new) THEN set(o) ELSE stored)
    BY <1>2 DEF ReportProcess
  <2>2. ~Unfills(row, processing)
    BY <1>2 DEF ReportProcess
  <2>3. o \in Objs /\ new \in Rows /\ book \in Books
    BY FreshFacts, ReportRow, Waiting
  <2> HIDE DEF new
  <2>4. /\ updated \in Books /\ updated.heap = book.heap
        /\ updated.db = IF book.db.st \in Live THEN new ELSE book.db
    BY <2>3, UpdateType, UpdateFields
  <2> HIDE DEF updated
  <2>5. stored \in Books /\ stored.map = None /\ stored.db = updated.db
        /\ stored.heap = updated.heap
    BY <2>4, DeleteOrderType, DeleteFields
  <2> HIDE DEF stored
  <2>6. put(o) \in Books /\ put(o).db = stored.db
        /\ \A x \in Objs : put(o).heap[x] = IF x = o THEN new ELSE stored.heap[x]
    BY <2>3, <2>5, PutType, PutFields
  <2> HIDE DEF put
  <2>7. set(o) \in Books /\ set(o).map = o /\ set(o).db = put(o).db
        /\ set(o).heap = put(o).heap
    BY <2>3, <2>6, SetOrderType, SetFields
  <2> HIDE DEF set
  <2> DEFINE b == IF Stays(new) THEN set(o) ELSE stored
  <2>8. b \in Books /\ book' = Sweep(b) /\ b.map \in {None, o} /\ b.db = updated.db
    BY <2>1, <2>5, <2>6, <2>7
  <2>9. /\ \A x \in Objs \ {o} : b.heap[x] = book.heap[x]
        /\ b.map = o => b.heap[o] = new
        /\ b.map = None => b.heap = book.heap
    BY <2>3, <2>4, <2>5, <2>6, <2>7, Constants
  <2> HIDE DEF b
  <2>10. \E c \in Books, p \in Fresh :
            /\ book' = Sweep(c) /\ c.map \in {None, p}
            /\ \A x \in Objs \ {p} : c.heap[x] = book.heap[x]
            /\ c.map = p => c.heap[p] = new
            /\ c.map = None => c.heap = book.heap
            /\ c.db = IF book.db.st \in Live THEN new ELSE book.db
    BY <2>4, <2>8, <2>9
  <2> QED
    BY <2>2, <2>10, Zenon DEF new
<1> QED
  BY <1>1, <1>2

\* What the row is that the ladder records.
LEMMA FoundWrites ==
  ASSUME Shape, LadderFound
  PROVE  \/ book' = Sweep(book)
         \/ \E b \in Books, o \in Objs :
              /\ book' = Sweep(b) /\ b.map \in {None, o}
              /\ \A x \in Objs \ {o} : b.heap[x] = book.heap[x]
              /\ b.heap[o].st = ladder.ans.st /\ b.db.st = ladder.ans.st
<1> DEFINE row == IF Held(book) THEN HeldRow(book) ELSE book.db
           new == Described(row, ladder.ans)
<1>1. CASE book' = Sweep(book)
  BY <1>1
<1>2. CASE book' # Sweep(book)
  <2>1. PICK o \in IF Held(book) THEN {book.map} ELSE Fresh :
              book' = Sweep(Recorded(book, o, new))
    BY <1>2 DEF LadderFound
  <2>2. book \in Books /\ ladder.ans \in Answers /\ ladder.ans.kind = "found"
        /\ row.st # "none"
    BY <1>2, Waiting, PlaceMoves DEF LadderFound, LadderStates
  <2>3. o \in Objs /\ row \in Rows
    BY <2>2, BookFields, FreshFacts
  <2>4. new.st = ladder.ans.st
    BY <2>3, DescribedFields
  <2>5. new \in Rows
    BY <2>2, <2>3, DescribedType
  <2> HIDE DEF new
  <2>6. Recorded(book, o, new) \in Books
    BY <2>2, <2>3, <2>5, RecordedType
  <2>7. /\ Recorded(book, o, new).map \in {None, o} /\ Recorded(book, o, new).db = new
        /\ \A x \in Objs : Recorded(book, o, new).heap[x] = IF x = o THEN new ELSE book.heap[x]
    BY <2>2, <2>3, <2>5, RecordedFields
  <2> QED
    BY <2>1, <2>3, <2>4, <2>6, <2>7
<1> QED
  BY <1>1, <1>2

\* What the row is that a confirmed cancel writes.
LEMMA ConfirmedWrites ==
  ASSUME Shape, NEW c \in Cancelers, CancelConfirmed(c)
  PROVE  LET ans == cancel[c].ans
             st == EndStatus(ans, cancel[c].promote)
         IN /\ cancel[c].ans.kind = "cancelled"
            /\ \E b \in Books, o \in Objs :
                 /\ book' = Sweep(b) /\ b.map \in {None, o}
                 /\ \A x \in Objs \ {o} : b.heap[x] = book.heap[x]
                 /\ b.heap[o].st = st /\ b.heap[o].oid
                 /\ b.db.st = IF book.db.st \in Live THEN st ELSE book.db.st
<1> DEFINE o == cancel[c].obj
           ans == cancel[c].ans
           row == [st |-> EndStatus(ans, cancel[c].promote), oid |-> TRUE,
                   exec |-> Executed(Known(o), ans.exec), time |-> ans.time]
           put == Put(book, o, row)
           set == SetOrder(put, o)
           kept == IF ans.exec = 0 /\ row.exec = 0 THEN DeleteOrder(set) ELSE set
           b == UpdateOrderOnDb(kept, row)
<1>1. book' = Sweep(b) /\ ans.kind = "cancelled" /\ cancel[c].pc = "answered"
  BY DEF CancelConfirmed
<1>2. o \in Objs /\ book \in Books
  BY <1>1, CancelHolds DEF Holding
<1>3. row.st = EndStatus(ans, cancel[c].promote) /\ row.oid
  OBVIOUS
<1>4. row \in Rows
  BY <1>1, ConfirmedRow
<1> HIDE DEF row
<1>5. put \in Books /\ put.map = book.map /\ put.db = book.db
      /\ \A x \in Objs : put.heap[x] = IF x = o THEN row ELSE book.heap[x]
  BY <1>2, <1>4, PutType, PutFields
<1> HIDE DEF put
<1>6. set \in Books /\ set.map = o /\ set.db = put.db /\ set.heap = put.heap
  BY <1>2, <1>5, SetOrderType, SetFields
<1> HIDE DEF set
<1>7. kept \in Books /\ kept.map \in {None, o} /\ kept.db = set.db /\ kept.heap = set.heap
  BY <1>6, DeleteOrderType, DeleteFields
<1> HIDE DEF kept
<1>8. b \in Books /\ b.map = kept.map /\ b.heap = kept.heap
      /\ b.db = IF kept.db.st \in Live THEN row ELSE kept.db
  BY <1>4, <1>7, UpdateType, UpdateFields
<1> HIDE DEF b
<1>9. /\ b.map \in {None, o}
      /\ \A x \in Objs \ {o} : b.heap[x] = book.heap[x]
      /\ b.heap[o] = row
      /\ b.db.st = IF book.db.st \in Live THEN row.st ELSE book.db.st
  BY <1>2, <1>5, <1>6, <1>7, <1>8
<1> QED
  BY <1>1, <1>2, <1>3, <1>8, <1>9

\* What the order may become.
LEMMA BecomesWhat ==
  ASSUME Shape, VenueNext
  PROVE  reports' = reports \/ \E st \in Statuses : \E exec : Becomes(st, exec)
<1>1. {"NEW", "PARTIALLY_FILLED", "FILLED", "CANCELED"} \subseteq Statuses
  BY DEF Statuses, Live
<1>2. CASE VenueAccept
  BY <1>1, <1>2 DEF VenueAccept
<1>3. CASE VenueFill
  <2>1. PICK q \in (venue.exec + 1)..Size :
          Becomes(IF q = Size THEN "FILLED" ELSE "PARTIALLY_FILLED", q)
    BY <1>3 DEF VenueFill
  <2>2. (IF q = Size THEN "FILLED" ELSE "PARTIALLY_FILLED") \in Statuses
    BY <1>1
  <2> QED
    BY <2>1, <2>2
<1>4. CASE \E c \in Cancelers : VenueCancel(c)
  BY <1>1, <1>4 DEF VenueCancel
<1>5. CASE VenueRepair
  BY <1>1, <1>5 DEF VenueRepair
<1>6. CASE VenueAnswer \/ VenueDescribe \/ VenueSearch
  BY <1>6 DEF VenueAnswer, VenueDescribe, VenueSearch
<1> QED
  BY <1>2, <1>3, <1>4, <1>5, <1>6 DEF VenueNext

LEMMA TellingStep ==
  ASSUME Shape, Telling, [Next]_orderVars
  PROVE  Telling'
<1>1. ASSUME reports' \subseteq reports, queue' \subseteq queue \cup reports,
             processing' \in queue \cup {processing, NoReport}
      PROVE  Telling'
  BY <1>1 DEF Telling
<1>2. CASE VenueNext
  <2>1. UNCHANGED <<queue, processing>>
    BY <1>2 DEF VenueNext, VenueAccept, VenueFill, VenueAnswer, VenueDescribe, VenueSearch,
       VenueRepair, VenueCancel
  <2>2. ASSUME NEW st \in Statuses, NEW exec, Becomes(st, exec)
        PROVE  Telling'
    <3>1. reports' = reports \cup {[st |-> st, exec |-> exec, time |-> venue.time + 1]}
      BY <2>2 DEF Becomes
    <3>2. [st |-> st, exec |-> exec, time |-> venue.time + 1].st # "none"
      BY DEF Statuses, Live
    <3> QED
      BY <2>1, <3>1, <3>2 DEF Telling
  <2>3. reports' = reports \/ \E st \in Statuses : \E exec : Becomes(st, exec)
    BY <1>2, BecomesWhat
  <2> QED
    BY <1>1, <2>1, <2>2, <2>3
<1>3. CASE ReportNext
  BY <1>1, <1>3 DEF ReportNext, ReportArrives, ReportBegin, ReportProcess, Insert, Earliest,
     Remaining
<1>4. CASE ~VenueNext /\ ~ReportNext
  <2>1. UNCHANGED <<reports, queue, processing>>
    BY <1>4 DEF Next, Ended, orderVars, Stop, PlaceNext, PlaceBegin, PlaceSend,
       PlaceGuarded, PlaceZeroQuote, PlaceAnswered, PlaceRepair, PlaceAccepted, PlaceRetry,
       PlaceResend, PlaceRefused, PlaceLocal, PlaceLost, PlaceDenied, placeOther,
       LadderNext, LadderEnter, LadderWaited, LadderSearched, LadderDenied, LadderFound,
       LadderKeeps, LadderGivesUp, WriteOff, Repeat, GoesOn, ladderOther,
       CancelNext, CancelBegin, CancelWaited, CancelSearched, CancelUnknown,
       CancelRefused, CancelConfirmed, cancelOther
  <2> QED
    BY <1>1, <2>1
<1> QED
  BY <1>2, <1>3, <1>4

\* While the placement's answer is in hand no row of it reads as never placed.
LEMMA CleanStep ==
  ASSUME FinalInv, Timely(terms), [Next]_orderVars, place'.pc = "accepted"
  PROVE  handle' = "acked" /\ Clean(book)'
<1>1. /\ Shape /\ book \in Books /\ place \in PlaceStates /\ Evidence
      /\ venue.st = "CANCELED" => venue'.st = "CANCELED"
  BY OnceSent, Waiting, PlaceMoves, StaysCanceled DEF FinalInv, FlightInv
<1>2. CASE PlaceNext
  <2>1. PlaceAnswered /\ place.ans.kind = "accepted"
    BY <1>1, <1>2, PlaceGoes
  <2>2. handle' = "acked" /\ book' = book /\ place'.obj = place.obj /\ venue' = venue
    BY <1>1, <2>1 DEF PlaceAnswered, Settled, placeOther, PlaceStates
  <2>3. RowsInFlight(book)
    BY <2>1, OnceSent DEF PlaceAnswered, Flight
  <2>4. ASSUME NEW o \in {place.obj, book.map} \cap Objs
        PROVE  ~Orphaned(book.heap[o])
    BY <2>3, <2>4, NewRowFields, Constants DEF RowsInFlight, Orphaned, Held, HeldRow
  <2>5. Clean(book)'
    BY <2>2, <2>4 DEF Clean, Orphaned
  <2> QED
    BY <2>2, <2>5
<1>3. CASE ~PlaceNext
  <2>1. place' = place /\ handle' = handle /\ place.pc = "accepted"
    BY <1>1, <1>3, PlaceStays
  <2>2. handle = "acked" /\ Clean(book)
    BY <2>1 DEF FinalInv, Timed
  <2>3. ~Denying
    BY <2>2, NotDenied
  <2>4. CASE Tamely
    <3>1. PICK b \in Books : Tame(book, b) /\ book' \in {b, Sweep(b)}
      BY <2>4 DEF Tamely
    <3> QED
      BY <1>1, <2>1, <2>2, <3>1, TameSweep
  <2>5. ASSUME NEW b \in Books, NEW o \in Objs, book' = Sweep(b), b.map \in {None, o},
               \A x \in Objs \ {o} : b.heap[x] = book.heap[x],
               Orphaned(b.heap[o]) => venue.st = "CANCELED"
        PROVE  Clean(book)'
    <3>1. Clean(b)
      BY <2>2, <2>5, CleanWritten
    <3> QED
      BY <1>1, <2>1, <2>5, <3>1, CleanSwept
  <2>6. CASE ReportProcess
    <3>1. CASE book' = book
      BY <1>1, <2>1, <2>2, <3>1, CleanSwept
    <3>2. CASE book' # book
      <4> DEFINE new == [st |-> processing.st, oid |-> TRUE, exec |-> processing.exec,
                         time |-> processing.time]
      <4>1. PICK b \in Books, o \in Fresh :
              /\ book' = Sweep(b) /\ b.map \in {None, o}
              /\ \A x \in Objs \ {o} : b.heap[x] = book.heap[x]
              /\ b.map = o => b.heap[o] = new
              /\ b.map = None => b.heap = book.heap
        BY <1>1, <2>6, <3>2, ReportWrites
      <4>2. o \in Objs /\ o # place.obj
        BY <1>1, FreshFacts
      <4>3. new.oid = TRUE
        OBVIOUS
      <4> HIDE DEF new
      <4>4. Clean(b)
        <5> SUFFICES ASSUME NEW x \in {place.obj, b.map} \cap Objs, Orphaned(b.heap[x])
                     PROVE  venue.st = "CANCELED"
          BY DEF Clean
        <5>1. CASE x = place.obj
          <6>1. Orphaned(book.heap[x])
            BY <4>1, <4>2, <5>1
          <6> QED
            BY <2>2, <5>1, <6>1 DEF Clean
        <5>2. CASE x # place.obj
          BY <4>1, <4>2, <4>3, <5>2, Constants DEF Orphaned
        <5> QED
          BY <5>1, <5>2
      <4>5. b \in Books /\ book' = Sweep(b)
        BY <4>1
      <4> QED
        BY <1>1, <2>1, <2>2, <4>4, <4>5, CleanSwept
    <3> QED
      BY <3>1, <3>2
  <2>7. CASE LadderFound
    <3>1. CASE book' = Sweep(book)
      BY <1>1, <2>1, <2>2, <3>1, CleanSwept
    <3>2. CASE book' # Sweep(book)
      <4>1. PICK b \in Books, o \in Objs :
              /\ book' = Sweep(b) /\ b.map \in {None, o}
              /\ \A x \in Objs \ {o} : b.heap[x] = book.heap[x]
              /\ b.heap[o].st = ladder.ans.st
        BY <1>1, <2>7, <3>2, FoundWrites
      <4>2. Orphaned(b.heap[o]) => venue.st = "CANCELED"
        BY <1>1, <4>1 DEF Orphaned, Evidence
      <4>3. /\ b \in Books /\ o \in Objs /\ book' = Sweep(b) /\ b.map \in {None, o}
            /\ \A x \in Objs \ {o} : b.heap[x] = book.heap[x]
        BY <4>1
      <4> QED
        BY <2>1, <2>2, <2>5, <4>2, <4>3
    <3> QED
      BY <3>1, <3>2
  <2>8. CASE \E c \in Cancelers : CancelConfirmed(c)
    <3>1. PICK c \in Cancelers : CancelConfirmed(c)
      BY <2>8
    <3>2. PICK b \in Books, o \in Objs :
            /\ book' = Sweep(b) /\ b.map \in {None, o}
            /\ \A x \in Objs \ {o} : b.heap[x] = book.heap[x]
            /\ b.heap[o].oid
      BY <1>1, <3>1, ConfirmedWrites
    <3>3. Orphaned(b.heap[o]) => venue.st = "CANCELED"
      BY <3>2 DEF Orphaned
    <3>4. /\ b \in Books /\ o \in Objs /\ book' = Sweep(b) /\ b.map \in {None, o}
          /\ \A x \in Objs \ {o} : b.heap[x] = book.heap[x]
      BY <3>2
    <3> QED
      BY <2>1, <2>2, <2>5, <3>3, <3>4
  <2>9. Writes => ReportProcess \/ LadderFound \/ \E c \in Cancelers : CancelConfirmed(c)
    BY <1>3 DEF Writes, PlaceNext
  <2> QED
    BY <1>1, <2>1, <2>2, <2>3, <2>4, <2>6, <2>7, <2>8, <2>9, StepTame
<1> QED
  BY <1>2, <1>3

\* The invariant of those worlds is one.
LEMMA FinalInvStep ==
  ASSUME FinalInv, [Next]_orderVars
  PROVE  FinalInv'
<1>1. FlightInv' /\ Telling' /\ Shape /\ terms' = terms
  BY FlightStep, TellingStep, HandleMoves DEF FinalInv, FlightInv, RefusedInv
<1>2. ASSUME Timely(terms)
      PROVE  Timed'
  <2>1. LookedUp'
    BY <1>1, <1>2, LookedUpStep DEF FinalInv, Timed
  <2>2. handle' = "acked" => LadderCounted'
    BY <1>2, CountedStep
  <2>3. place'.pc = "accepted" => handle' = "acked" /\ Clean(book)'
    BY <1>2, CleanStep
  <2>4. ASSUME place'.pc \in {"saving", "sent", "answered"}
        PROVE  handle' = "pending"
    <3>1. CASE PlaceNext
      <4>1. PlaceBegin \/ PlaceSend
        BY <1>1, <1>2, <2>4, <3>1, PlaceGoes, OnceSent DEF PlaceResend
      <4>2. place.pc = "saving" => handle = "pending"
        BY <1>2 DEF FinalInv, Timed
      <4> QED
        BY <4>1, <4>2 DEF PlaceBegin, PlaceSend
    <3>2. CASE ~PlaceNext
      <4>1. handle' = handle /\ place.pc \in {"saving", "sent", "answered"}
        BY <1>1, <2>4, <3>2, PlaceStays
      <4> QED
        BY <1>2, <4>1 DEF FinalInv, Timed
    <3> QED
      BY <3>1, <3>2
  <2>5. ASSUME place'.pc \in {"repairing", "repaired"}
        PROVE  venue'.st = "CANCELED"
    <3>1. CASE PlaceNext
      <4>1. PlaceRepair
        BY <1>1, <2>5, <3>1, PlaceGoes
      <4>2. Clean(book) /\ Orphaned(book.heap[MergedOver])
        BY <1>2, <4>1 DEF PlaceRepair, FinalInv, Timed
      <4>3. MergedOver \in {place.obj, book.map} \cap Objs
        BY <1>1, <4>1, MergedOverType DEF PlaceRepair, MergedOver
      <4>4. venue.st = "CANCELED"
        BY <4>2, <4>3 DEF Clean
      <4> QED
        BY <1>1, <4>4, StaysCanceled
    <3>2. CASE ~PlaceNext
      <4>1. place.pc \in {"repairing", "repaired"}
        BY <1>1, <2>5, <3>2, PlaceStays
      <4> QED
        BY <1>1, <1>2, <4>1, StaysCanceled DEF FinalInv, Timed
    <3> QED
      BY <3>1, <3>2
  <2> QED
    BY <1>1, <1>2, <2>1, <2>2, <2>3, <2>4, <2>5 DEF Timed
<1> QED
  BY <1>1, <1>2 DEF FinalInv, Timed

LEMMA InitFinal == ASSUME Init PROVE FinalInv
<1>1. Telling
  BY DEF Init, Telling
<1>2. Timed
  BY DEF Init, Timed, LookedUp
<1> QED
  BY <1>1, <1>2, InitFlight DEF FinalInv

\* What the write-off makes of a filled row.
LEMMA WrittenOffKeeps ==
  ASSUME NEW b \in Books
  PROVE  /\ WrittenOff(b) \in Books
         /\ WrittenOff(b).map = None \/ WrittenOff(b) = b
         /\ b.db.st = "FILLED" => WrittenOff(b).db.st = "FILLED"
<1>1. CASE Held(b) /\ HeldRow(b).st = "NEW"
  <2> DEFINE row == Stamp(HeldRow(b))
             put == Put(b, b.map, row)
             gone == DeleteOrder(put)
  <2>1. WrittenOff(b) = UpdateOrderOnDb(gone, row)
    BY <1>1 DEF WrittenOff
  <2>2. b.map \in Objs /\ row \in Rows
    BY <1>1, BookFields, StampType
  <2> HIDE DEF row
  <2>3. put \in Books /\ put.db = b.db
    BY <2>2, PutType, PutFields
  <2> HIDE DEF put
  <2>4. gone \in Books /\ gone.map = None /\ gone.db = b.db
    BY <2>3, DeleteOrderType, DeleteFields
  <2> HIDE DEF gone
  <2>5. /\ UpdateOrderOnDb(gone, row) \in Books /\ UpdateOrderOnDb(gone, row).map = None
        /\ b.db.st = "FILLED" => UpdateOrderOnDb(gone, row).db.st = "FILLED"
    BY <2>2, <2>4, UpdateType, UpdateFields DEF Live
  <2> QED
    BY <2>1, <2>5
<1>2. CASE ~(Held(b) /\ HeldRow(b).st = "NEW") /\ b.db.st # "none"
  <2> DEFINE row == Stamp(b.db)
             gone == DeleteOrder(b)
  <2>1. WrittenOff(b) = UpdateOrderOnDb(gone, row)
    BY <1>2 DEF WrittenOff
  <2>2. row \in Rows
    BY BookFields, StampType
  <2> HIDE DEF row
  <2>3. gone \in Books /\ gone.map = None /\ gone.db = b.db
    BY DeleteOrderType, DeleteFields
  <2> HIDE DEF gone
  <2>4. /\ UpdateOrderOnDb(gone, row) \in Books /\ UpdateOrderOnDb(gone, row).map = None
        /\ b.db.st = "FILLED" => UpdateOrderOnDb(gone, row).db.st = "FILLED"
    BY <2>2, <2>3, UpdateType, UpdateFields DEF Live
  <2> QED
    BY <2>1, <2>4
<1>3. CASE ~(Held(b) /\ HeldRow(b).st = "NEW") /\ b.db.st = "none"
  BY <1>3 DEF WrittenOff
<1> QED
  BY <1>1, <1>2, <1>3

-----------------------------------------------------------------------------
(* Each step after the order filled *)

LEMMA AcceptedFinal ==
  ASSUME FinalInv, Timely(terms), PlaceAccepted, venue.st = "FILLED"
  PROVE  FinalKept(book, book')
<1> DEFINE row == Merged
<1>1. Shape /\ book \in Books /\ place \in PlaceStates
  BY OnceSent, Waiting, PlaceMoves
<1>2. place.pc = "accepted"
  BY DEF PlaceAccepted, FinalInv, Timed
<1>3. MergedOver \in Objs /\ book.heap[MergedOver] \in Rows
      /\ (Held(book) => MergedOver = book.map)
  BY <1>1, <1>2, MergedOverType DEF MergedOver
<1>4. row \in Rows /\ (book.heap[MergedOver].st = "FILLED" => row.st = "FILLED")
  BY <1>1, <1>2, <1>3, MergedType DEF Merged, MergeAnswer
<1>5. PICK o \in Fresh : book' = Sweep(UpdateOrderOnDb(SetOrder(Put(book, o, row), o), row))
  BY DEF PlaceAccepted
<1>6. o \in Objs
  BY <1>1, FreshFacts
<1> HIDE DEF row
<1> DEFINE put == Put(book, o, row)
           set == SetOrder(put, o)
           b == UpdateOrderOnDb(set, row)
<1>7. put \in Books /\ put.db = book.db /\ put.heap[o] = row
  BY <1>1, <1>4, <1>6, PutType, PutFields
<1> HIDE DEF put
<1>8. set \in Books /\ set.map = o /\ set.db = put.db /\ set.heap = put.heap
  BY <1>6, <1>7, SetOrderType, SetFields
<1> HIDE DEF set
<1>9. /\ b \in Books /\ b.map = o /\ b.heap = set.heap
      /\ set.db.st = "FILLED" => b.db.st = "FILLED"
  BY <1>4, <1>8, UpdateType, UpdateFields DEF Live
<1>10. book' = Sweep(b)
  BY <1>5 DEF put, set
<1> HIDE DEF b
<1>11. book'.map = o /\ book'.heap[o] = row /\ (book.db.st = "FILLED" => book'.db.st = "FILLED")
  BY <1>6, <1>7, <1>8, <1>9, <1>10, SweepFields
<1> QED
  BY <1>3, <1>4, <1>11 DEF FinalKept, Held, HeldRow

LEMMA ReportFinal ==
  ASSUME FinalInv, Timely(terms), ReportProcess, venue.st = "FILLED"
  PROVE  FinalKept(book, book')
<1> DEFINE new == [st |-> processing.st, oid |-> TRUE, exec |-> processing.exec,
                   time |-> processing.time]
           row == IF Held(book) THEN HeldRow(book) ELSE book.db
<1>1. Shape /\ book \in Books /\ processing # NoReport
  BY OnceSent, Waiting DEF ReportProcess
<1>2. CASE book' = book
  BY <1>2 DEF FinalKept
<1>3. CASE book' # book
  <2>1. PICK b \in Books, o \in Fresh :
          /\ book' = Sweep(b) /\ b.map \in {None, o}
          /\ b.map = o => b.heap[o] = new
          /\ b.db = IF book.db.st \in Live THEN new ELSE book.db
    BY <1>1, <1>3, ReportWrites
  <2>2. ~Unfills(row, processing)
    BY <1>1, <1>3, ReportWrites
  <2>3. processing.st \in Statuses \ {"CANCELED"} /\ new.st = processing.st
    BY <1>1 DEF FinalInv, FlightInv, Evidence, Telling, Shape, TypeOK, Reports
  <2>4. row.st = "FILLED" => new.st = "FILLED"
    BY <2>2, <2>3 DEF Unfills, Statuses
  <2> HIDE DEF new
  <2>5. o \in Objs /\ o # None
    BY <1>1, FreshFacts, Constants
  <2>6. /\ book'.map = b.map /\ (b.map = o => book'.heap[o] = new)
        /\ book.db.st = "FILLED" => book'.db.st = "FILLED"
    BY <2>1, <2>5, SweepFields DEF Live
  <2> QED
    BY <2>1, <2>4, <2>5, <2>6 DEF FinalKept, Held, HeldRow
<1> QED
  BY <1>2, <1>3

LEMMA FoundFinal ==
  ASSUME FinalInv, Timely(terms), LadderFound, venue.st = "FILLED"
  PROVE  FinalKept(book, book')
<1>1. Shape /\ book \in Books /\ ladder.ans.st = "FILLED"
  BY OnceSent, Waiting DEF LadderFound, FinalInv, Timed, LookedUp
<1>2. CASE book' = Sweep(book)
  BY <1>1, <1>2, SweepFields, BookFields DEF FinalKept, Held, HeldRow
<1>3. CASE book' # Sweep(book)
  <2>1. PICK b \in Books, o \in Objs :
          /\ book' = Sweep(b) /\ b.map \in {None, o}
          /\ b.heap[o].st = ladder.ans.st /\ b.db.st = ladder.ans.st
    BY <1>1, <1>3, FoundWrites
  <2>2. /\ book'.map = b.map /\ (b.map = o => book'.heap[o].st = "FILLED")
        /\ book'.db.st = "FILLED"
    BY <1>1, <2>1, SweepFields
  <2> QED
    BY <2>1, <2>2 DEF FinalKept, Held, HeldRow
<1> QED
  BY <1>2, <1>3

LEMMA ConfirmedFinal ==
  ASSUME FinalInv, Timely(terms), NEW c \in Cancelers, CancelConfirmed(c),
         venue.st = "FILLED"
  PROVE  FinalKept(book, book')
<1> DEFINE st == EndStatus(cancel[c].ans, cancel[c].promote)
<1>1. Shape /\ cancel[c].ans.kind = "cancelled"
  BY OnceSent DEF CancelConfirmed
<1>2. cancel[c].ans.st = "FILLED" /\ cancel[c].ans.exec = Size
  BY <1>1 DEF FinalInv, FlightInv, Evidence
<1>3. st = "FILLED"
  BY <1>2, Constants DEF EndStatus
<1>4. PICK b \in Books, o \in Objs :
        /\ book' = Sweep(b) /\ b.map \in {None, o}
        /\ b.heap[o].st = st
        /\ b.db.st = IF book.db.st \in Live THEN st ELSE book.db.st
  BY <1>1, ConfirmedWrites
<1> HIDE DEF st
<1>5. /\ book'.map = b.map /\ (b.map = o => book'.heap[o].st = "FILLED")
      /\ book.db.st = "FILLED" => book'.db.st = "FILLED"
  BY <1>3, <1>4, SweepFields DEF Live
<1> QED
  BY <1>4, <1>5 DEF FinalKept, Held, HeldRow

LEMMA FinalStep ==
  ASSUME FinalInv, Timely(terms), [Next]_orderVars, venue.st = "FILLED"
  PROVE  FinalKept(book, book')
<1>1. Shape /\ book \in Books
  BY OnceSent, Waiting
<1>2. CASE Tamely
  BY <1>1, <1>2, TameSweep DEF Tamely
<1>3. CASE book' = Sweep(WrittenOff(book))
  <2>1. CASE WrittenOff(book) = book
    BY <1>1, <1>3, <2>1, SweepFields, BookFields DEF FinalKept, Held, HeldRow
  <2>2. CASE WrittenOff(book) # book
    <3>1. /\ book'.map = None
          /\ book.db.st = "FILLED" => book'.db.st = "FILLED"
      BY <1>1, <1>3, <2>2, WrittenOffKeeps, SweepFields
    <3> QED
      BY <3>1 DEF FinalKept, Held
  <2> QED
    BY <2>1, <2>2
<1>4. ~PlaceBegin /\ ~PlaceResend
  BY OnceSent DEF PlaceBegin, PlaceResend, FinalInv, FlightInv, Begins, Landed
<1> QED
  BY <1>1, <1>2, <1>3, <1>4, StepTame, AcceptedFinal, ReportFinal, FoundFinal,
     ConfirmedFinal DEF Writes

(***************************************************************************)
(* In the worlds that are Timely (the ladder has attempts left, an order   *)
(* is sent once and does not change while the answer to a look-up travels) *)
(* no answer or report reopens the FILLED row of an order that filled, in  *)
(* the database or in the map, however many cancels, look-ups and reports  *)
(* are under way.                                                          *)
(***************************************************************************)
THEOREM FilledIsFinalHolds == Spec /\ Timely(terms) => FilledIsFinal
<1>1. Init => FinalInv
  BY InitFinal
<1>2. FinalInv /\ [Next]_orderVars => FinalInv'
  BY FinalInvStep
<1>3. Timely(terms) /\ FinalInv /\ [Next]_orderVars => Timely(terms)'
  BY HandleMoves DEF FinalInv, FlightInv, RefusedInv, Timely, Patient
<1>4. Timely(terms) /\ FinalInv /\ [Next]_orderVars =>
        [venue.st = "FILLED" =>
         /\ book.db.st = "FILLED" => book'.db.st = "FILLED"
         /\ Held(book) /\ HeldRow(book).st = "FILLED" /\ Held(book)'
              => HeldRow(book').st = "FILLED"]_orderVars
  BY FinalStep DEF FinalKept, Held
<1> QED
  BY <1>1, <1>2, <1>3, <1>4, PTL DEF Spec, FilledIsFinal
=============================================================================
