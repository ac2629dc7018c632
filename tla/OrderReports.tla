---------------------------- MODULE OrderReports ---------------------------
(***************************************************************************)
(* Execution reports from the user stream to the order's row: SharedStream *)
(* routes a report, accountCallback takes it in, processOrderQueue works   *)
(* the queue off one report at a time and convertExecutionReportToOrder    *)
(* merges each onto the row (src/src/bot/main.ts, sharedStream.ts).        *)
(*                                                                         *)
(* A report's conversions are one step with its merge. Left out: duplicate *)
(* reports, liquidations, and the top-up of an under-filled market order.  *)
(***************************************************************************)
EXTENDS OrderVenue

reportsOther == <<terms, others, stopped, place, handle, cancel, ladder, attempts,
                  venue, faults>>

NoReport == [st |-> "none", exec |-> 0, time |-> 0]

(***************************************************************************)
(* A report reaches the queue if it is routed to the bot and the map holds *)
(* its order. The queue is sorted by the venue's time whenever a report is *)
(* pushed; no two reports of an order share theirs, so it is a set whose   *)
(* earliest report is the next.                                            *)
(***************************************************************************)
Insert(q, report) == q \cup {report}

Earliest(q) == {r \in q : \A other \in q : r.time <= other.time}

Takes == book.routed /\ Held(book) /\ ~stopped

ReportArrives(report) ==
    /\ MayArrive(report)
    /\ reports' = reports \ {report}
    /\ queue' = IF Takes THEN Insert(queue, report) ELSE queue
    /\ UNCHANGED <<book, processing, reportsOther>>

ReportBegin ==
    /\ processing = NoReport
    /\ processing' \in Earliest(queue)
    /\ UNCHANGED <<book, queue, reports, reportsOther>>

(***************************************************************************)
(* executionReportRewindsOrder: an acknowledgement older than the row.     *)
(* executionReportUnfillsOrder: a filled order would be live again.        *)
(***************************************************************************)
Rewinds(row, report) ==
    report.st = "NEW" /\ row.st # "NEW" /\ 0 < report.time /\ report.time < row.time

\* Faulty: a late part-fill may reopen a filled order (before spec 114).
NeverUnfills(row, report) == FALSE

Unfills(row, report) == row.st = "FILLED" /\ report.st \in Live

Stays(row) == row.st # "CANCELED" \/ row.exec > 0

\* The report is found in the queue again: one that sorts ahead of it may have come.
Remaining == queue \ {processing}

ReportProcess ==
    /\ processing # NoReport
    /\ queue' = Remaining
    /\ processing' = NoReport
    /\ UNCHANGED <<reports, reportsOther>>
    /\ LET row == IF Held(book) THEN HeldRow(book) ELSE book.db
           new == [st |-> processing.st, oid |-> TRUE, exec |-> processing.exec,
                   time |-> processing.time]
           stored == DeleteOrder(UpdateOrderOnDb(book, new))
       IN \/ /\ row.st = "none" \/ Rewinds(row, processing) \/ Unfills(row, processing)
             /\ UNCHANGED book
          \/ /\ ~(row.st = "none" \/ Rewinds(row, processing) \/ Unfills(row, processing))
             /\ \E o \in Fresh :
                  book' = Sweep(IF Stays(new) THEN SetOrder(Put(stored, o, new), o)
                                              ELSE stored)
=============================================================================
