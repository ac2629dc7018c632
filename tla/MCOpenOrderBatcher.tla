------------------------ MODULE MCOpenOrderBatcher --------------------------
(***************************************************************************)
(* Instances of OpenOrderBatcher for TLC: a burst of three orders in two   *)
(* chunks, and one of two orders that belongs to another deal of the bot.  *)
(***************************************************************************)
EXTENDS OpenOrderBatcher

CONSTANTS first, second

MCBursts == {first, second}
MCBurstOf == [o \in Orders |-> IF o <= 3 THEN first ELSE second]

World(bursts, faults, timers, hangs) ==
    [bursts |-> bursts, faults |-> faults, timers |-> timers, hangs |-> hangs]

\* Answers are lost; batches are declined and calls throw; a body hangs and a
\* timer sends the others off; the burst of another deal takes the place over.
MCWorlds == {World({first}, {"lost"}, FALSE, {}),
             World({first}, {"declined", "throws"}, FALSE, {}),
             World({first}, {}, TRUE, {2}),
             World(MCBursts, {}, FALSE, {})}
=============================================================================
