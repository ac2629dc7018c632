---------------------------- MODULE OrderVenue -----------------------------
(***************************************************************************)
(* The exchange as the bot meets it through exchange/exchange.ts and the   *)
(* user stream: no code of it is in the repository. A request is handled   *)
(* in one step and its answer waits until the bot takes it up. An answer   *)
(* is [kind, st, exec, time], the last three describing the order.         *)
(***************************************************************************)
EXTENDS OrderBook

Landed == venue.st # "none"
Answer(kind) == [kind |-> kind, st |-> venue.st, exec |-> venue.exec,
                 time |-> venue.time]
AnswerKinds == {"none", "accepted", "refused", "local", "lost", "found",
                "absent", "unreliable", "failed", "cancelled", "unknown"}
Answers == [kind : AnswerKinds, st : Statuses \cup {"none"}, exec : 0..Size,
            time : Nat]
NoAnswer == [kind |-> "none", st |-> "none", exec |-> 0, time |-> 0]

(***************************************************************************)
(* The order comes to the book and trades piece by piece. Without the      *)
(* fault "overtaking" it does not change while a lookup's answer travels.  *)
(***************************************************************************)
LookupAnswered == \/ ladder.pc \in {"told", "searched"}
                  \/ \E c \in Cancelers : cancel[c].pc = "searched"

Becomes(st, exec) ==
    /\ LookupAnswered => "overtaking" \in Faults
    /\ LET next == [st |-> st, exec |-> exec, time |-> venue.time + 1]
       IN venue' = next /\ reports' = reports \cup {next}

VenueAccept ==
    /\ place.pc = "sent" /\ ~Landed
    /\ Becomes("NEW", 0)
    /\ UNCHANGED <<book, terms, others, stopped, place, handle, cancel, ladder,
                   attempts, queue, processing, faults>>

VenueFill ==
    /\ venue.st \in Live
    /\ \E q \in (venue.exec + 1)..Size :
         Becomes(IF q = Size THEN "FILLED" ELSE "PARTIALLY_FILLED", q)
    /\ UNCHANGED <<book, terms, others, stopped, place, handle, cancel, ladder,
                   attempts, queue, processing, faults>>

(***************************************************************************)
(* The placement is answered: accepted as the order is by now, refused, or *)
(* the answer is lost, after the order landed or before it could.          *)
(***************************************************************************)
VenueAnswer ==
    /\ place.pc = "sent"
    /\ \/ Landed /\ place' = [place EXCEPT !.pc = "answered", !.ans = Answer("accepted")]
       \/ ~Landed /\ place' = [place EXCEPT !.pc = "answered", !.ans = Answer("refused")]
       \/ /\ "lost" \in Faults
          /\ place' = [place EXCEPT !.pc = "answered", !.ans = Answer("lost")]
    /\ UNCHANGED <<book, terms, others, stopped, handle, cancel, ladder, attempts,
                   queue, processing, venue, reports, faults>>

(***************************************************************************)
(* A lookup by the id the venue knows. A call that fails says nothing; a   *)
(* venue whose reads lag denies an order it has just taken on.             *)
(***************************************************************************)
Lookup(kind, finds) ==
    \/ kind = (IF finds THEN "found" ELSE "absent") /\ UNCHANGED faults
    \/ kind = "failed" /\ faults < LookupFaults /\ faults' = faults + 1

Lags(kind) ==
    kind = "unreliable" /\ "lagging" \in Faults /\ venue.st = "NEW" /\ UNCHANGED faults

VenueDescribe ==
    /\ ladder.pc = "ask"
    /\ \E kind \in {"found", "absent", "unreliable", "failed"} :
         /\ Lookup(kind, Landed) \/ Lags(kind)
         /\ ladder' = [ladder EXCEPT !.pc = "told", !.ans = Answer(kind)]
    /\ UNCHANGED <<book, terms, others, stopped, place, handle, cancel, attempts,
                   queue, processing, venue, reports>>

(***************************************************************************)
(* A search by client order id: one of its own, or the open orders list.   *)
(***************************************************************************)
Listed == IF OpenOrdersOnly THEN venue.st \in Live ELSE Landed

VenueSearch ==
    /\ \E kind \in {"found", "absent", "failed"} :
         /\ Lookup(kind, Listed)
         /\ \/ /\ ladder.pc = "search"
               /\ ladder' = [ladder EXCEPT !.pc = "searched", !.ans = Answer(kind)]
               /\ UNCHANGED cancel
            \/ \E c \in Cancelers :
                 /\ cancel[c].pc = "search"
                 /\ cancel' = [cancel EXCEPT ![c].pc = "searched",
                                             ![c].ans = Answer(kind)]
                 /\ UNCHANGED ladder
    /\ UNCHANGED <<book, terms, others, stopped, place, handle, attempts, queue,
                   processing, venue, reports>>

(***************************************************************************)
(* A cancel takes effect, and its answer states what was executed or, with *)
(* the fault "understated", less; or the answer is lost. One that comes    *)
(* too late is answered with the filled order. And a venue may refuse a    *)
(* cancel or not know the order for reasons of its own.                    *)
(***************************************************************************)
Answered(c, ans) ==
    cancel' = [cancel EXCEPT ![c].pc = "answered", ![c].ans = ans]

VenueCancel(c) ==
    /\ cancel[c].pc = "send"
    /\ \/ /\ venue.st \in Live
          /\ Becomes("CANCELED", venue.exec)
          /\ \/ \E q \in (IF "understated" \in Faults THEN 0..venue.exec ELSE {venue.exec}) :
                  Answered(c, [kind |-> "cancelled", st |-> "CANCELED", exec |-> q,
                               time |-> venue.time + 1])
             \/ "lost" \in Faults /\ Answered(c, Answer("lost"))
       \/ /\ venue.st = "FILLED"
          /\ Answered(c, Answer("cancelled"))
          /\ UNCHANGED <<venue, reports>>
       \/ /\ \E kind \in {"unknown", "refused"} : Answered(c, Answer(kind))
          /\ UNCHANGED <<venue, reports>>
    /\ UNCHANGED <<book, terms, others, stopped, place, handle, ladder, attempts,
                   queue, processing, faults>>

\* The cancel of a placement that was retired too early. (If it is refused the
\* bot only logs that, for the operator to see: not followed further.)
VenueRepair ==
    /\ place.pc = "repairing"
    /\ place' = [place EXCEPT !.pc = "repaired"]
    /\ \/ venue.st \in Live /\ Becomes("CANCELED", venue.exec)
       \/ venue.st \notin Live /\ UNCHANGED <<venue, reports>>
    /\ UNCHANGED <<book, terms, others, stopped, handle, cancel, ladder, attempts,
                   queue, processing, faults>>

(***************************************************************************)
(* The user stream hands a report on, in the venue's order or not.         *)
(***************************************************************************)
MayArrive(report) ==
    "reordered" \in Faults \/ \A r \in reports : report.time <= r.time
=============================================================================
