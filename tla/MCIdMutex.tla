----------------------------- MODULE MCIdMutex -----------------------------
(***************************************************************************)
(* Instances of IdMutex for TLC: a plain mutex, a counting one whose keys  *)
(* bots clear, and one with bounded wait queues.                           *)
(***************************************************************************)
EXTENDS IdMutex, TLC

CONSTANTS k1, k2

ClearsBoth == {{k1}, {k1, k2}}
NoClears == {}
Symmetry == Permutations(Procs)
=============================================================================
