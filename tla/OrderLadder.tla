---------------------------- MODULE OrderLadder ----------------------------
(***************************************************************************)
(* _runUnknownOrderLadder (src/src/bot/main.ts): ask the venue what became *)
(* of an order, several times if need be, and record what it says. One     *)
(* ladder runs per order; whoever asks meanwhile joins it.                 *)
(*                                                                         *)
(* ladder.pc: "enter" (to start a round), "wait" for the placement's       *)
(* answer, "search" by client id, "ask" about the order, "searched" and    *)
(* "told" with the answer in hand. ladder.obj is the row the round began   *)
(* with ("local"): the map may hold another object by now.                 *)
(***************************************************************************)
EXTENDS OrderVenue

ladderOther == <<terms, others, stopped, handle, queue, processing, venue, reports,
                 faults>>
GoesOn == UNCHANGED <<place, cancel, ladderOther>>

(***************************************************************************)
(* The ladder ends, with a row or without, for all who joined it.          *)
(***************************************************************************)
Finish(found) ==
    /\ ladder' = [pc |-> "idle", just |-> FALSE, obj |-> None, ans |-> NoAnswer]
    /\ place' = IF place.pc # "ladder" THEN place
                ELSE IF found THEN [place EXCEPT !.pc = "done", !.obj = None]
                ELSE [place EXCEPT !.pc = "denied"]
    /\ cancel' = [c \in Cancelers |-> IF cancel[c].pc # "ladder" THEN cancel[c]
                                      ELSE [cancel[c] EXCEPT !.pc = "done", !.obj = None]]

Again(pc, obj) == ladder' = [ladder EXCEPT !.pc = pc, !.obj = obj]

(***************************************************************************)
(* A round: the row is the map's, on a venue addressed by exchange id else *)
(* the stored one. There an order that is being placed waits for its       *)
(* answer first, and one without an id is searched before it is asked for. *)
(***************************************************************************)
RoundOf(row, o) ==
    Again(IF ~ByExchangeId \/ row.oid THEN "ask"
          ELSE IF Awaits(row) THEN "wait" ELSE "search", o)

\* Faulty: a round is not counted.
NotCounted(n) == n

Counted(n) == n + 1

LadderEnter ==
    /\ ladder.pc = "enter" /\ attempts < MaxAttempts
    /\ attempts' = Counted(attempts)
    /\ GoesOn
    /\ \/ /\ Held(book)
          /\ RoundOf(HeldRow(book), book.map)
          /\ book' = Sweep(book)
       \/ /\ ~Held(book) /\ ByExchangeId /\ book.db.st # "none"
          /\ \E o \in Fresh :
               RoundOf(book.db, o) /\ book' = Sweep(Put(book, o, book.db))
       \/ /\ ~Held(book) /\ ~(ByExchangeId /\ book.db.st # "none")
          /\ Again("ask", None)
          /\ book' = Sweep(book)

LadderWaited ==
    /\ ladder.pc = "wait" /\ handle # "pending"
    /\ GoesOn /\ UNCHANGED attempts
    /\ LET b == IF handle = "acked" THEN AdoptExchangeOrderId(book, ladder.obj) ELSE book
       IN /\ Again(IF b.heap[ladder.obj].oid THEN "ask" ELSE "search", ladder.obj)
          /\ book' = Sweep(b)

(***************************************************************************)
(* The write-off ends the ladder. It takes the map's row if that is NEW,   *)
(* else the stored one whatever it says, and the order leaves the map.     *)
(***************************************************************************)
Stamp(row) == [row EXCEPT !.st = WriteOffStatus(row)]

WrittenOff(b) ==
    IF Held(b) /\ HeldRow(b).st = "NEW"
    THEN LET row == Stamp(HeldRow(b))
         IN UpdateOrderOnDb(DeleteOrder(Put(b, b.map, row)), row)
    ELSE IF b.db.st # "none" THEN UpdateOrderOnDb(DeleteOrder(b), Stamp(b.db)) ELSE b

WriteOff ==
    /\ attempts' = 0
    /\ Finish((Held(book) /\ HeldRow(book).st = "NEW") \/ book.db.st # "none")
    /\ UNCHANGED ladderOther
    /\ book' = Sweep(WrittenOff(book))

(***************************************************************************)
(* The round told nothing and is repeated after a sleep.                   *)
(***************************************************************************)
Repeat ==
    /\ Again("enter", None)
    /\ GoesOn /\ UNCHANGED attempts
    /\ book' = Sweep(book)

(***************************************************************************)
(* Out of attempts: an order that was just placed is left for the          *)
(* reconcile to find, any other is written off.                            *)
(***************************************************************************)
LadderKeeps ==
    /\ ladder.pc = "enter" /\ attempts = MaxAttempts /\ ladder.just
    /\ attempts' = 0
    /\ Finish(FALSE)
    /\ UNCHANGED ladderOther
    /\ book' = Sweep(book)

LadderGivesUp ==
    ladder.pc = "enter" /\ attempts = MaxAttempts /\ ~ladder.just /\ WriteOff

(***************************************************************************)
(* A search finds the order and its id is adopted; or the order never      *)
(* reached the venue, which is final; or the search failed.                *)
(***************************************************************************)
\* Faulty: a search that failed passes for one that found nothing.
FailedIsNotHeld(kind) == kind \in {"absent", "failed"}

NotHeld(kind) == kind = "absent"

LadderSearched ==
    /\ ladder.pc = "searched"
    /\ \/ /\ \/ ladder.ans.kind = "found"
             \/ NotHeld(ladder.ans.kind) /\ book.heap[ladder.obj].oid
          /\ Again("ask", ladder.obj)
          /\ GoesOn /\ UNCHANGED attempts
          /\ book' = Sweep(IF ladder.ans.kind = "found"
                           THEN AdoptExchangeOrderId(book, ladder.obj) ELSE book)
       \/ NotHeld(ladder.ans.kind) /\ ~book.heap[ladder.obj].oid /\ WriteOff
       \/ ladder.ans.kind # "found" /\ ~NotHeld(ladder.ans.kind) /\ Repeat

(***************************************************************************)
(* The venue does not describe the order. A denial of an order without an  *)
(* exchange id is final, unless the order was just placed and the venue    *)
(* says the same of orders it has not got round to.                        *)
(***************************************************************************)
Definitive(kind) == kind \in {"absent", "unreliable"}

Final ==
    /\ Definitive(ladder.ans.kind)
    /\ ~(ladder.just /\ ladder.ans.kind = "unreliable")
    /\ ladder.obj # None /\ ~book.heap[ladder.obj].oid

LadderDenied ==
    /\ ladder.pc = "told" /\ ladder.ans.kind # "found"
    /\ IF Final THEN WriteOff ELSE Repeat

(***************************************************************************)
(* The venue describes the order: the row the bot has by now, the map's or *)
(* the stored one, takes the answer's status and fills if it says other,   *)
(* in place, in the database whatever is stored, and in the map unless the *)
(* order is cancelled. Only a FILLED order is returned.                    *)
(***************************************************************************)
Described(row, ans) ==
    [row EXCEPT !.st = ans.st, !.time = ans.time,
                !.exec = IF ans.exec > 0 THEN ans.exec ELSE @]

Recorded(b, o, row) ==
    LET written == [DeleteOrder(Put(b, o, row)) EXCEPT !.db = row]
    IN IF row.st = "CANCELED" THEN written ELSE SetOrder(written, o)

LadderFound ==
    /\ ladder.pc = "told" /\ ladder.ans.kind = "found"
    /\ attempts' = 0
    /\ Finish(ladder.ans.st = "FILLED" /\ (Held(book) \/ book.db.st # "none"))
    /\ UNCHANGED ladderOther
    /\ LET row == IF Held(book) THEN HeldRow(book) ELSE book.db IN
       \/ /\ row.st \in {"none", ladder.ans.st}
          /\ book' = Sweep(book)
       \/ /\ row.st \notin {"none", ladder.ans.st}
          /\ \E o \in IF Held(book) THEN {book.map} ELSE Fresh :
               book' = Sweep(Recorded(book, o, Described(row, ladder.ans)))
=============================================================================
