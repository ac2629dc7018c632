-------------------------- MODULE MCAccountFunding --------------------------
(***************************************************************************)
(* Two legs on an account with a few coins of each asset.                  *)
(***************************************************************************)
EXTENDS AccountFunding

Leg(need, mode, safety) ==
    [need |-> need, mode |-> mode, base |-> 1, safety |-> safety]
MCLegs == {Leg("base", "diff", 1), Leg("base", "own", 0), Leg("quote", "all", 1)}
MCBalances == {[x \in Assets |-> IF x = "base" THEN 2 ELSE 3]}

Account == {{"crash", "close"}, {"outage"}, {"hang"}}
Overlapping == {{"placing"}}
=============================================================================
