-------------------------- MODULE MCDealLifecycle ---------------------------
(***************************************************************************)
(* Instances of DealLifecycle for TLC: each world is a start of its own.   *)
(***************************************************************************)
EXTENDS DealLifecycle

World(deals, fills, asks, limit, max) ==
    [deals |-> deals, fills |-> fills, asks |-> asks, limit |-> limit, max |-> max,
     answers |-> {"filled"}, ladder |-> {}]

Closes(d, hows) == {<<"user", d>>} \X hows
Stops(hows) == {<<"stop", 0>>} \X hows
Entries(S) == {<<<<"entry", d>>, "entry">> : d \in S}

Both == {"base", "tp"}

\* The limit of the bot controller is met while another deal waits for its base order.
AtLimit == World(<<"open", "start", "none">>, Both, {}, 1, 3)
\* The same while a second deal is open.
AtLimitOpen == World(<<"open", "open", "none">>, Both, {}, 1, 3)
\* The user closes a deal while its take profit fills and the bot is stopped.
Asked == World(<<"open", "open", "none">>, {"tp"}, Closes(1, {"market"}) \cup Stops({"market"}), 0, 3)
\* The user cancels a deal that fills.
Cancelling == World(<<"open", "open", "none">>, {"tp"}, Closes(1, {"cancel"}), 0, 3)
\* The venue may refuse the close, and the bot is stopped leaving its deals.
Refused == [World(<<"open", "open", "none">>, {"tp"},
                  Closes(1, {"market"}) \cup Stops({"leave"}), 0, 3) EXCEPT !.answers = {"filled", "refused"}]
\* The venue may know of no position when a close arrives.
Flat == [World(<<"open", "open", "none">>, {"tp"}, Closes(1, {"market"}) \cup Closes(2, {"market"}),
               0, 3) EXCEPT !.answers = {"filled", "flat"}]
\* Signals arrive together, at a bot that may have fewer deals than they ask for.
Signals == World(<<"none", "none", "none">>, Both, Entries(1..3), 0, 2)
\* The user closes a deal that starts while it fills.
Started == World(<<"start", "none", "none">>, Both, Closes(1, {"market"}), 0, 3)
\* Stopping cancels the deals that start, and a signal arrives while it does.
Stopping == World(<<"start", "start", "none">>, {"base"}, Stops({"leave"}), 0, 3)
Late == World(<<"start", "none", "none">>, {"base"}, Entries({2}) \cup Stops({"market"}), 0, 3)

\* With a ladder of safety orders.
Laddered(deals, fills, asks, ladder) ==
    [World(deals, fills, asks, 0, 3) EXCEPT !.ladder = ladder]
\* One safety order fills as the take profit does.
Averaged == Laddered(<<"open", "none", "none">>, {"so", "tp"}, {}, {"so1"})
\* A deal starts and averages.
Climbed == Laddered(<<"start", "none", "none">>, {"base", "so", "tp"}, {}, {"so1"})
\* The user closes a deal while a safety order fills, and the venue may refuse.
AveragedClose == [Laddered(<<"open", "none", "none">>, {"so"}, Closes(1, {"market"}), {"so1"})
                    EXCEPT !.answers = {"filled", "refused"}]
\* The bot is stopped with its deals closed.
AveragedStop == Laddered(<<"open", "open", "none">>, {"so"}, Stops({"market"}), {"so1"})
\* NeverOversold fails in these, the first two with so1 and so2: two safety orders fill at a time and the update of
\* the second waits for the first while the deal closes; a close request finds the
\* take profit filled and its handler not yet at work.
TwoLevels == Laddered(<<"open", "none", "none">>, {"so", "tp"}, {}, {"so1", "so2"})
TwoLevelsClose == Laddered(<<"open", "none", "none">>, {"so"}, Closes(1, {"market"}), {"so1", "so2"})
ClosedTwice == Laddered(<<"open", "none", "none">>, {"so", "tp"}, Closes(1, {"market"}), {"so1"})

PassWorlds == {AtLimit, AtLimitOpen, Asked, Cancelling, Refused, Flat, Signals, Started, Stopping, Late,
               Averaged, Climbed, AveragedClose, AveragedStop}
Deadlock == {World(<<"open", "start", "none">>, Both, Closes(2, {"cancel"}), 1, 3)}
Stranded == {AtLimit}
=============================================================================
