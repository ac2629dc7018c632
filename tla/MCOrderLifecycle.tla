------------------------- MODULE MCOrderLifecycle --------------------------
(***************************************************************************)
(* Instances of OrderLifecycle for TLC. A run goes through all the worlds  *)
(* of a set, each of which is a start of its own.                          *)
(***************************************************************************)
EXTENDS OrderLifecycle

\* Room for a row per reference and one that is being written.
Objs5 == 1..5

World(byId, openOnly, lookups, resends, wrong) ==
    [byId |-> byId, openOnly |-> openOnly, lookups |-> lookups,
     resends |-> resends, faults |-> wrong]

ByClientId(wrong) == World(FALSE, FALSE, 1, 0, wrong)

SafetyWorlds == {ByClientId({"lost", "reordered"}),
                 World(TRUE, FALSE, 1, 0, {"lost", "stop"}),
                 World(TRUE, FALSE, 0, 1, {"reordered", "understated"})}
FairWorlds == {World(TRUE, FALSE, 1, 1, {"lost", "lagging"})}
\* For an order of size 3, where one part-fill can overtake another.
Pieces == {ByClientId({}), World(TRUE, FALSE, 0, 0, {"reordered"})}
\* The code is known to fail in these: FilledIsFinal with two cancels of an
\* order that is sent again, NoOrphan, FilledIsFinal, NoLostFill.
Repaired == {World(TRUE, FALSE, 0, 1, {})}
Lagging == {ByClientId({"lost", "lagging"})}
Overtaking == {ByClientId({"overtaking"})}
OpenOnly == {World(TRUE, TRUE, 1, 0, {"lost"})}
=============================================================================
