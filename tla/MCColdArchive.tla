---------------------------- MODULE MCColdArchive ----------------------------
(***************************************************************************)
(* Instances of ColdArchive for TLC: three orders, one of them yet to be   *)
(* written, and a transaction; pages of two rows.                          *)
(***************************************************************************)
EXTENDS ColdArchive

CONSTANTS u1, u2

MCOrders == 1..3
MCTransactions == {4}
MCOld == {1, 2, 4}

World(broken, n, requests, times, sweeps, apart) ==
    [broken |-> broken, mishaps |-> n, requests |-> requests,
     archives |-> times, sweeps |-> sweeps, apart |-> apart]

PassWorlds == {World({"archive", "restore", "leave"}, 2, {u1}, 2, FALSE, TRUE),
               World({"restore", "leave", "sweep"}, 2, {u1}, 2, TRUE, TRUE),
               World({"restore"}, 1, {u1, u2}, 2, FALSE, TRUE),
               World({"restore", "leave", "late"}, 2, {u1}, 1, FALSE, TRUE)}
\* A copy that is given up, and the next sweep.
GivenUp == {World({"archive"}, 1, {}, 1, TRUE, TRUE)}
\* The code is known to fail in these too, NothingLost and in the last one
\* RoutedWhole: the sweep cannot read the flags; a delete arrives after it was
\* given up; the archiver overlaps the bot's worker, an un-archive request or
\* the sweep; of two requests that saw the flag one leaves the copies, and the
\* other finds them when the bot runs again; the flag cannot be read when the
\* bot is asked back.
Misread == {World({"flags"}, 1, {}, 1, TRUE, TRUE)}
Delayed == {World({"restore", "late"}, 1, {u1}, 2, FALSE, TRUE)}
Together == {World({}, 0, {u1}, 1, TRUE, FALSE)}
Twice == {World({"leave"}, 1, {u1, u2}, 1, FALSE, TRUE)}
Unread == {World({"look"}, 1, {u1}, 1, FALSE, TRUE)}

\* What the theorems about safe worlds leave out is just these.
ASSUME WorldsAssumption ==
    /\ \A w \in PassWorlds : SafeWorld(w)
    /\ \A w \in GivenUp \cup Misread \cup Delayed \cup Together \cup Twice \cup Unread :
          ~SafeWorld(w)
=============================================================================
