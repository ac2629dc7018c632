-------------------------- MODULE OrderLifecycle ---------------------------
(***************************************************************************)
(* One order of a bot from its placement to its end: the placement, the    *)
(* cancels, the unknown-order ladder, the user stream's reports and stop() *)
(* run concurrently over the same rows, and interleave at every await.     *)
(***************************************************************************)
EXTENDS OrderPlacement, OrderLadder, OrderCancel, OrderReports

Init ==
    /\ book = [heap |-> [o \in Objs |-> Blank], map |-> None, routed |-> FALSE,
               db |-> Blank]
    /\ terms \in Worlds
    /\ others \in BOOLEAN
    /\ stopped = FALSE
    /\ place = [pc |-> "idle", obj |-> None, ans |-> NoAnswer, count |-> 0]
    /\ handle = "none"
    /\ cancel = [c \in Cancelers |->
                  [pc |-> "idle", obj |-> None, promote |-> FALSE, ans |-> NoAnswer]]
    /\ ladder = [pc |-> "idle", just |-> FALSE, obj |-> None, ans |-> NoAnswer]
    /\ attempts = 0
    /\ queue = {}
    /\ processing = NoReport
    /\ venue = NoReport
    /\ reports = {}
    /\ faults = 0

(***************************************************************************)
(* stop() ends with clearClassProperties: the maps are replaced by empty   *)
(* ones and the bot's stream listener is gone. What was awaited goes on.   *)
(***************************************************************************)
Stop ==
    /\ "stop" \in Faults /\ ~stopped
    /\ stopped' = TRUE
    /\ others' = FALSE
    /\ UNCHANGED <<terms, place, handle, cancel, ladder, attempts, queue,
                   processing, venue, reports, faults>>
    /\ book' = Sweep([book EXCEPT !.map = None, !.routed = FALSE])

PlaceNext == \/ PlaceBegin \/ PlaceSend \/ PlaceGuarded \/ PlaceZeroQuote
             \/ PlaceAnswered \/ PlaceRepair \/ PlaceAccepted \/ PlaceRetry
             \/ PlaceResend \/ PlaceRefused \/ PlaceLocal \/ PlaceLost \/ PlaceDenied

LadderNext == \/ LadderEnter \/ LadderWaited \/ LadderSearched
              \/ LadderDenied \/ LadderFound \/ LadderKeeps \/ LadderGivesUp

CancelNext(c) == \/ CancelBegin(c) \/ CancelWaited(c) \/ CancelSearched(c)
                 \/ CancelUnknown(c) \/ CancelRefused(c) \/ CancelConfirmed(c)

ReportNext == (\E r \in reports : ReportArrives(r)) \/ ReportBegin \/ ReportProcess

VenueNext == \/ VenueAccept \/ VenueFill \/ VenueAnswer \/ VenueDescribe
             \/ VenueSearch \/ VenueRepair
             \/ \E c \in Cancelers : VenueCancel(c)

Over(pc) == pc \in {"idle", "done"}

\* Nothing is under way and nothing is on its way.
Quiet == /\ Over(place.pc) /\ ladder.pc = "idle"
         /\ \A c \in Cancelers : Over(cancel[c].pc)
         /\ queue = {} /\ processing = NoReport /\ reports = {}

\* The order's story may end here, so that any other standstill is a deadlock.
Ended == Quiet /\ UNCHANGED orderVars

Next == \/ PlaceNext \/ LadderNext \/ ReportNext \/ VenueNext \/ Stop \/ Ended
        \/ \E c \in Cancelers : CancelNext(c)

Spec == Init /\ [][Next]_orderVars

(***************************************************************************)
(* The bot's event loop runs every continuation that is ready, every call  *)
(* of the venue is answered (the client gives up on one that is not), and  *)
(* the stream delivers. The venue need not trade and no cancel need begin. *)
(***************************************************************************)
Fairness ==
    /\ WF_orderVars(PlaceNext) /\ WF_orderVars(LadderNext) /\ WF_orderVars(ReportNext)
    /\ WF_orderVars(VenueAnswer) /\ WF_orderVars(VenueDescribe)
    /\ WF_orderVars(VenueRepair)
    /\ WF_orderVars(ladder.pc = "search" /\ VenueSearch /\ UNCHANGED cancel)
    /\ \A c \in Cancelers :
         /\ WF_orderVars(VenueCancel(c))
         /\ WF_orderVars(cancel[c].pc = "search" /\ VenueSearch /\ cancel'[c] # cancel[c])
         /\ WF_orderVars(cancel[c].pc # "idle" /\ CancelNext(c))

FairSpec == Spec /\ Fairness

-----------------------------------------------------------------------------
Reports == [st : Statuses \cup {"none"}, exec : 0..Size, time : Nat]

(***************************************************************************)
(* Every variable keeps to the values the code gives it.                   *)
(***************************************************************************)
TypeOK ==
    /\ book \in Books
    /\ terms \in Worlds /\ others \in BOOLEAN /\ stopped \in BOOLEAN
    /\ place \in [pc : {"idle", "saving", "sent", "answered", "accepted", "refused",
                        "local", "lost", "ladder", "denied", "repairing", "repaired",
                        "resending", "done"},
                  obj : Objs \cup {None}, ans : Answers, count : 0..Resends]
    /\ handle \in {"none", "pending", "acked", "nothing"}
    /\ cancel \in [Cancelers ->
                    [pc : {"idle", "wait", "search", "searched", "send", "answered",
                           "ladder", "done"},
                     obj : Objs \cup {None}, promote : BOOLEAN, ans : Answers]]
    /\ ladder \in [pc : {"idle", "enter", "wait", "search", "searched", "ask", "told"},
                   just : BOOLEAN, obj : Objs \cup {None}, ans : Answers]
    /\ attempts \in 0..MaxAttempts
    /\ queue \subseteq Reports /\ processing \in Reports
    /\ venue \in Reports /\ reports \subseteq Reports
    /\ faults \in 0..LookupFaults

(***************************************************************************)
(* No silent orphan: when nothing is under way, an order that rests at the *)
(* venue has a live stored row, which a restart loads, and a running bot   *)
(* holds it in its map, where reports and reconciles find it (specs 154,   *)
(* 155, 192, 223 and the write-off guards of sendOrderToExchange).         *)
(***************************************************************************)
NoOrphan ==
    Quiet /\ venue.st \in Live =>
        /\ book.db.st \in Live
        /\ ~stopped => Held(book) /\ HeldRow(book).st \in Live

(***************************************************************************)
(* The same of an order nobody cancels, however often the look-ups fail    *)
(* and whatever the venue denies just after the placement: its own ladder  *)
(* leaves it to the reconcile (_runUnknownOrderLadder, justPlaced).        *)
(***************************************************************************)
KeptUnlessCancelled == (\A c \in Cancelers : cancel[c].pc = "idle") => NoOrphan

(***************************************************************************)
(* No lost fill: when nothing is under way, what the venue executed is in  *)
(* the row the running bot holds or in the stored one (specs 193, 220). On *)
(* a venue whose cancel answers state less, an answer of nothing executed  *)
(* is taken at its word if no report came before it; and where the stream  *)
(* reorders, an older part-fill may be the last report: not claimed there. *)
(***************************************************************************)
NoLostFill ==
    Quiet /\ ~stopped /\ Faults \cap {"understated", "reordered"} = {} =>
        \/ venue.exec = book.db.exec
        \/ Held(book) /\ venue.exec = HeldRow(book).exec

(***************************************************************************)
(* Nobody concludes that an order was never placed while its placement's   *)
(* answer is on its way (specs 155 and 192). Between two sends a cancel    *)
(* may; that is what the repair of a re-sent placement is for.             *)
(***************************************************************************)
NoWriteOffInFlight ==
    handle = "pending" /\ place.count = 0 /\ venue.st # "CANCELED" =>
        /\ book.db.st # "CANCELED"
        /\ place.obj # None => book.heap[place.obj].st # "CANCELED"

\* The worlds it holds in: the ladder has attempts left when the last look-up
\* failed, and no venue denies an order that it took on.
Patient(w) == w.lookups < MaxAttempts /\ "lagging" \notin w.faults

(***************************************************************************)
(* An order the venue refused, or that a guard stopped, leaves no row that *)
(* reads as open, the bot being stopped meanwhile included (spec 206).     *)
(***************************************************************************)
RefusedIsRetired ==
    Quiet /\ place.pc = "done" /\ place.ans.kind \in {"none", "refused"} =>
        ~Held(book) /\ book.db.st \notin Live

(***************************************************************************)
(* What an order of a running bot is known to have executed never becomes  *)
(* less, in the stored row or, while it is there, in the map (specs 059,   *)
(* 193, 220): no answer of the venue to a placement, a cancel or a lookup  *)
(* takes it back, and no report does but a part-fill that is older than    *)
(* the row, which executionReportRewindsOrder lets pass.                   *)
(***************************************************************************)
OlderPartFill ==
    /\ processing.st = "PARTIALLY_FILLED" /\ processing' = NoReport
    /\ processing.time < (IF Held(book) THEN HeldRow(book) ELSE book.db).time

ExecutedGrows ==
    [][~stopped /\ ~OlderPartFill =>
         /\ book'.db.exec >= book.db.exec
         /\ Held(book) /\ Held(book)' => HeldRow(book').exec >= HeldRow(book).exec
      ]_orderVars

(***************************************************************************)
(* The FILLED row of an order that filled is final, in the database and    *)
(* in the map: no answer or report that describes an earlier moment        *)
(* reopens it (specs 090, 114).                                            *)
(***************************************************************************)
FilledIsFinal ==
    [][venue.st = "FILLED" =>
         /\ book.db.st = "FILLED" => book'.db.st = "FILLED"
         /\ Held(book) /\ HeldRow(book).st = "FILLED" /\ Held(book)'
              => HeldRow(book').st = "FILLED"]_orderVars

(***************************************************************************)
(* A placement and a cancel that began come to an end: no waiter of a      *)
(* placement's answer or of the ladder is left behind.                     *)
(***************************************************************************)
PlacementEnds == (place.pc = "saving") ~> (place.pc = "done")
CancelEnds == \A c \in Cancelers : (cancel[c].pc # "idle") ~> (cancel[c].pc = "done")
=============================================================================
