---------------------------- MODULE OrderCancel ----------------------------
(***************************************************************************)
(* cancelOrderOnExchange (src/src/bot/main.ts), as a running bot calls it  *)
(* on a resting order it holds, removing it from the map (removeFromLocal).*)
(*                                                                         *)
(* cancel[c].pc: "wait" for the placement's answer, "search" by client id, *)
(* "send" to the venue, "searched" and "answered" with the answer in hand, *)
(* "ladder" while the unknown-order ladder runs. Left out: batches primed  *)
(* for Kraken, and the re-sends and lookups of refused cancels, which are  *)
(* for a bot that is stopping or a deal that is no longer open.            *)
(***************************************************************************)
EXTENDS OrderVenue

cancelOther == <<terms, others, stopped, place, handle, attempts, queue, processing,
                 venue, reports, faults>>

Goes(c, pc, obj) == cancel' = [cancel EXCEPT ![c].pc = pc, ![c].obj = obj]

(***************************************************************************)
(* The cancel waits for an answer that is on its way. Where orders are     *)
(* addressed by exchange id, one without an id is searched first.          *)
(***************************************************************************)
FirstStep(row) ==
    IF Awaits(row) THEN "wait"
    ELSE IF ByExchangeId /\ ~row.oid THEN "search" ELSE "send"

CancelBegin(c) ==
    /\ cancel[c].pc = "idle" /\ ~stopped
    /\ Held(book) /\ HeldRow(book).st \in Live
    /\ \E promote \in BOOLEAN :
         cancel' = [cancel EXCEPT ![c].pc = FirstStep(HeldRow(book)),
                                  ![c].obj = book.map, ![c].promote = promote]
    /\ UNCHANGED <<book, ladder, cancelOther>>

CancelWaited(c) ==
    /\ cancel[c].pc = "wait" /\ handle # "pending"
    /\ UNCHANGED <<ladder, cancelOther>>
    /\ LET b == IF handle = "acked" THEN AdoptExchangeOrderId(book, cancel[c].obj) ELSE book
       IN /\ Goes(c, IF ByExchangeId /\ ~b.heap[cancel[c].obj].oid THEN "search" ELSE "send",
                  cancel[c].obj)
          /\ book' = Sweep(b)

CancelSearched(c) ==
    /\ cancel[c].pc = "searched"
    /\ UNCHANGED cancelOther
    /\ \/ /\ \/ cancel[c].ans.kind = "found"
             \/ cancel[c].ans.kind = "absent" /\ book.heap[cancel[c].obj].oid
          /\ Goes(c, "send", cancel[c].obj)
          /\ UNCHANGED ladder
          /\ book' = Sweep(IF cancel[c].ans.kind = "found"
                           THEN AdoptExchangeOrderId(book, cancel[c].obj) ELSE book)
       \/ /\ cancel[c].ans.kind = "absent" /\ ~book.heap[cancel[c].obj].oid
          /\ Goes(c, "ladder", None)
          /\ HandleUnknownOrder(FALSE)
          /\ book' = Sweep(book)
       \/ /\ cancel[c].ans.kind = "failed"
          /\ Goes(c, "done", None)
          /\ UNCHANGED ladder
          /\ book' = Sweep(book)

(***************************************************************************)
(* The venue does not know the order: the ladder asks what became of it.   *)
(* Any other refusal is reported and the order stays as it is.             *)
(***************************************************************************)
CancelUnknown(c) ==
    /\ cancel[c].pc = "answered" /\ cancel[c].ans.kind = "unknown"
    /\ Goes(c, "ladder", None)
    /\ HandleUnknownOrder(FALSE)
    /\ UNCHANGED cancelOther
    /\ book' = Sweep(book)

CancelRefused(c) ==
    /\ cancel[c].pc = "answered" /\ cancel[c].ans.kind \in {"refused", "lost"}
    /\ Goes(c, "done", None)
    /\ UNCHANGED <<ladder, cancelOther>>
    /\ book' = Sweep(book)

(***************************************************************************)
(* Cancelled: the answer is copied onto the caller's object. A re-size     *)
(* (promote is FALSE) takes an order short of its size as CANCELED; else   *)
(* a cancelled order that states fills counts as FILLED. What was executed *)
(* never becomes less than the bot knew, from its object or from the map.  *)
(***************************************************************************)
Known(o) == Larger(book.heap[o].exec, IF Held(book) THEN HeldRow(book).exec ELSE 0)

\* Faulty: the answer's execution replaces what was known (before spec 220).
AnswerOnly(known, stated) == stated

\* Faulty: what the answer states is added to what was known.
AddsUp(known, stated) == known + stated

Executed(known, stated) == Larger(known, stated)

EndStatus(ans, promote) ==
    LET st == IF ~promote /\ ans.exec < Size THEN "CANCELED" ELSE ans.st
    IN IF ans.exec # 0 /\ st = "CANCELED" /\ promote THEN "FILLED" ELSE st

CancelConfirmed(c) ==
    /\ cancel[c].pc = "answered" /\ cancel[c].ans.kind = "cancelled"
    /\ UNCHANGED <<ladder, cancelOther>>
    /\ LET o == cancel[c].obj
           ans == cancel[c].ans
           row == [st |-> EndStatus(ans, cancel[c].promote), oid |-> TRUE,
                   exec |-> Executed(Known(o), ans.exec), time |-> ans.time]
           set == SetOrder(Put(book, o, row), o)
           kept == IF ans.exec = 0 /\ row.exec = 0 THEN DeleteOrder(set) ELSE set
       IN /\ Goes(c, "done", None)
          /\ book' = Sweep(UpdateOrderOnDb(kept, row))
=============================================================================
