-------------------------- MODULE OrderPlacement ---------------------------
(***************************************************************************)
(* sendOrderToExchange (src/src/bot/main.ts): an order is put into the     *)
(* map, stored ahead, sent, and then recorded as the venue answered.       *)
(*                                                                         *)
(* place.pc says which await the call is at: "saving" the write-ahead row, *)
(* "sent" to the venue, "answered" while the answer travels, then one of   *)
(* "accepted", "refused", "local" or "lost" with the answer in hand, and   *)
(* "ladder" while the unknown-order ladder runs for it; "repairing" and    *)
(* "repaired" around the cancel of an order that was retired too early,    *)
(* and "resending" in the sleep before a refused order is sent again.      *)
(* Left out: the sizing of the request, re-sends under another client id,  *)
(* market orders' top-ups and the fees.                                    *)
(***************************************************************************)
EXTENDS OrderVenue

placeOther == <<terms, others, stopped, cancel, attempts, queue, processing, venue,
                reports, faults>>

(***************************************************************************)
(* The row enters the map and the placement is in flight before anything   *)
(* is awaited: a cancel can see the row from here on.                      *)
(***************************************************************************)
PlaceBegin ==
    /\ place.pc = "idle" /\ ~stopped
    /\ handle' = "pending"
    /\ UNCHANGED <<placeOther, ladder>>
    /\ \E o \in Fresh :
         /\ place' = [place EXCEPT !.pc = "saving", !.obj = o]
         /\ book' = Sweep(SetOrder(Put(book, o, NewRow), o))

PlaceDone == place' = [place EXCEPT !.pc = "done", !.obj = None]

(***************************************************************************)
(* The row is stored. Then a guard answers instead of the venue and the    *)
(* handle is settled; or the quote amount rounds to zero and the order is  *)
(* taken back at once; or it is sent. A re-send stores nothing, its row is *)
(* there; and its amount is the one of the first send, which did not round *)
(* to zero, as long as the symbol's precision stays what it was.           *)
(***************************************************************************)
PlaceSend ==
    /\ place.pc = "saving"
    /\ place' = [place EXCEPT !.pc = "sent"]
    /\ UNCHANGED <<handle, placeOther, ladder>>
    /\ book' = Sweep(SaveOrderToDb(book, NewRow))

PlaceGuarded ==
    /\ place.pc = "saving"
    /\ place' = [place EXCEPT !.pc = "local"]
    /\ handle' = "nothing"
    /\ UNCHANGED <<placeOther, ladder>>
    /\ book' = Sweep(SaveOrderToDb(book, NewRow))

PlaceZeroQuote ==
    /\ place.pc = "saving" /\ place.count = 0
    /\ PlaceDone
    /\ handle' = "nothing"
    /\ UNCHANGED <<placeOther, ladder>>
    /\ book' = Sweep(DeleteOrderFromDb(DeleteOrder(SaveOrderToDb(book, NewRow))))

(***************************************************************************)
(* beginPlacement's send: whatever the answer is, it settles the handle,   *)
(* before the placement itself goes on with it.                            *)
(***************************************************************************)
Settled(kind) == IF kind = "accepted" THEN "acked" ELSE "nothing"

PlaceAnswered ==
    /\ place.pc = "answered"
    /\ handle' = Settled(place.ans.kind)
    /\ place' = [place EXCEPT !.pc = place.ans.kind]
    /\ UNCHANGED <<book, placeOther, ladder>>

(***************************************************************************)
(* Accepted: the answer is merged over the map's row, or over the object   *)
(* the placement began with. What the user stream brought meanwhile is     *)
(* kept: a status past NEW, and an execution ahead of the answer's.        *)
(***************************************************************************)
\* Faulty: the answer's execution is taken as it is (before spec 193).
TakeAnswer(ord, ans) ==
    [st |-> IF ord.st = "NEW" THEN ans.st
            ELSE IF "FILLED" \in {ord.st, ans.st} THEN "FILLED" ELSE ord.st,
     oid |-> TRUE, exec |-> ans.exec, time |-> Larger(ord.time, ans.time)]

MergeAnswer(ord, ans) ==
    [st |-> IF ord.st = "NEW" THEN ans.st
            ELSE IF "FILLED" \in {ord.st, ans.st} THEN "FILLED" ELSE ord.st,
     oid |-> TRUE,
     exec |-> Larger(ord.exec, ans.exec),
     time |-> Larger(ord.time, ans.time)]

MergedOver == IF Held(book) THEN book.map ELSE place.obj

(***************************************************************************)
(* cancelOrphanedPlacement: the row was retired as CANCELED while it had   *)
(* no id, so no cancel reached the venue. If the answer shows the order    *)
(* open it is cancelled there, whatever comes of that. The merge was made  *)
(* before and waits in place.ans: it is recorded as it is afterwards.      *)
(***************************************************************************)
\* Faulty: the answer is recorded without a look at what became of the row.
NeverOrphaned(row) == FALSE

Orphaned(row) == row.st = "CANCELED" /\ ~row.oid

PlaceRepair ==
    /\ place.pc = "accepted" /\ Orphaned(book.heap[MergedOver]) /\ place.ans.st \in Live
    /\ LET row == MergeAnswer(book.heap[MergedOver], place.ans)
       IN place' = [place EXCEPT !.pc = "repairing",
                     !.ans = [kind |-> "accepted", st |-> row.st, exec |-> row.exec,
                              time |-> row.time]]
    /\ UNCHANGED <<book, handle, placeOther, ladder>>

Merged ==
    IF place.pc = "repaired"
    THEN [st |-> place.ans.st, oid |-> TRUE, exec |-> place.ans.exec,
          time |-> place.ans.time]
    ELSE MergeAnswer(book.heap[MergedOver], place.ans)

PlaceAccepted ==
    /\ \/ place.pc = "repaired"
       \/ /\ place.pc = "accepted"
          /\ ~(Orphaned(book.heap[MergedOver]) /\ place.ans.st \in Live)
    /\ PlaceDone
    /\ UNCHANGED <<handle, placeOther, ladder>>
    /\ \E o \in Fresh :
         book' = Sweep(UpdateOrderOnDb(SetOrder(Put(book, o, Merged), o), Merged))

(***************************************************************************)
(* The write-off. While the bot holds orders the row leaves the map; the   *)
(* stored row of an order the venue refused is retired, and that of an     *)
(* order a guard stopped is taken back.                                    *)
(***************************************************************************)
\* Faulty: the row of an order that was refused stays in the map.
Keep(b) == b

Forget(b) == IF Tracked(book) THEN DeleteOrder(b) ELSE b

\* Faulty: the stored row is retired only while orders are held (before spec 206).
RetireHeld(b) ==
    IF Tracked(book)
    THEN UpdateOrderOnDb(b, [book.heap[place.obj] EXCEPT !.st = "CANCELED"]) ELSE b

Retire(b) == UpdateOrderOnDb(b, [book.heap[place.obj] EXCEPT !.st = "CANCELED"])

(***************************************************************************)
(* Some refusals are taken as passing (the venue's balance lags): after a  *)
(* sleep the same object is put into the map and sent once more, whatever  *)
(* became of it meanwhile.                                                 *)
(***************************************************************************)
PlaceRetry ==
    /\ place.pc = "refused" /\ place.count < Resends
    /\ place' = [place EXCEPT !.pc = "resending", !.count = @ + 1]
    /\ UNCHANGED <<book, handle, placeOther, ladder>>

PlaceResend ==
    /\ place.pc = "resending"
    /\ place' = [place EXCEPT !.pc = "saving"]
    /\ handle' = "pending"
    /\ UNCHANGED <<placeOther, ladder>>
    /\ book' = Sweep(SetOrder(book, place.obj))

PlaceRefused ==
    /\ place.pc = "refused"
    /\ PlaceDone
    /\ UNCHANGED <<handle, placeOther, ladder>>
    /\ book' = Sweep(IF Acknowledged(book) THEN book ELSE Retire(Forget(book)))

PlaceLocal ==
    /\ place.pc = "local"
    /\ PlaceDone
    /\ UNCHANGED <<handle, placeOther, ladder>>
    /\ book' = Sweep(IF Acknowledged(book) THEN book ELSE DeleteOrderFromDb(Forget(book)))

(***************************************************************************)
(* The answer was lost. A row the stream has acknowledged is kept; with    *)
(* orders in the map the venue is asked; a stopped bot leaves the row.     *)
(***************************************************************************)
PlaceLost ==
    /\ place.pc = "lost"
    /\ UNCHANGED <<handle, placeOther>>
    /\ IF Acknowledged(book) \/ ~Tracked(book)
       THEN PlaceDone /\ UNCHANGED ladder /\ book' = Sweep(book)
       ELSE /\ place' = [place EXCEPT !.pc = "ladder"]
            /\ HandleUnknownOrder(TRUE)
            /\ UNCHANGED book

(***************************************************************************)
(* The ladder came back with nothing ("denied"; a ladder that has a row to *)
(* return ends the placement). A row still held is kept.                   *)
(***************************************************************************)
PlaceDenied ==
    /\ place.pc = "denied"
    /\ PlaceDone
    /\ UNCHANGED <<handle, placeOther, ladder>>
    /\ book' = Sweep(IF Held(book) \/ ~Tracked(book) THEN book
                     ELSE Retire(DeleteOrder(book)))
=============================================================================
