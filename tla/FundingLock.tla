---------------------------- MODULE FundingLock ----------------------------
(***************************************************************************)
(* The lock of an exchange account that funding sections run under, across *)
(* processes (class FundingLock, src/src/bot/fundingLock.ts): a key in     *)
(* redis that holds the token of one call of run, expires by itself and is *)
(* renewed while the section runs, for a bounded time.                     *)
(*                                                                         *)
(* Time is left out: what a clock decides may happen at any moment. Only   *)
(* what the code derives from its durations is kept: a key that is renewed *)
(* does not expire, and neither does one that was found owned before the   *)
(* write that follows.                                                     *)
(***************************************************************************)
EXTENDS Naturals

CONSTANTS Sections, \* the calls of run, one for each deal to be funded
          NoOne,
          Worlds    \* sets of what goes wrong, by name: "outage", "crash", ...

ASSUME NoOneAssumption == NoOne \notin Sections
ASSUME WorldsAssumption ==
    \A w \in Worlds : w \subseteq {"outage", "crash", "hang", "close", "placing"}

VARIABLES wrong,    \* what goes wrong in this world
          holder,   \* whose token is in the key
          section,  \* where each call stands
          lost      \* the calls that know they do not own the key any more

lockVars == <<wrong, holder, section, lost>>

LockInit ==
    /\ wrong \in Worlds
    /\ holder = NoOne
    /\ section = [s \in Sections |-> "idle"]
    /\ lost = {}

Moves(s, place) == section' = [section EXCEPT ![s] = place]

Ask(s) ==
    /\ section[s] = "idle"
    /\ Moves(s, "asking")
    /\ UNCHANGED <<wrong, holder, lost>>

(***************************************************************************)
(* SET NX succeeds; or the store does not answer, though it may have set   *)
(* the key; or someone else's token is there until the wait is over.       *)
(***************************************************************************)
Take(s) ==
    /\ section[s] = "asking" /\ holder = NoOne
    /\ holder' = s
    /\ Moves(s, "inside")
    /\ UNCHANGED <<wrong, lost>>

Unavailable(s) ==
    /\ section[s] = "asking" /\ "outage" \in wrong
    /\ \/ UNCHANGED holder
       \/ holder = NoOne /\ holder' = s
    /\ Moves(s, "refused")
    /\ UNCHANGED <<wrong, lost>>

WaitOver(s) ==
    /\ section[s] = "asking" /\ holder # NoOne
    /\ Moves(s, "refused")
    /\ UNCHANGED <<wrong, holder, lost>>

(***************************************************************************)
(* The heartbeat notices that the section ran past its maximum. It is the  *)
(* last renewal that a section can prevent: the key lapses from then on.   *)
(***************************************************************************)
\* Faulty: a section is renewed for as long as it runs.
NeverTooLong(s) == FALSE

TooLong(s) == section[s] = "inside" /\ s \notin lost

Overstay(s) ==
    /\ TooLong(s)
    /\ lost' = lost \cup {s}
    /\ UNCHANGED <<wrong, holder, section>>

(***************************************************************************)
(* owned(): the two answers. One that finds another's token is remembered, *)
(* a store that does not answer says nothing and counts as not owned.      *)
(***************************************************************************)
Owned(s) == s \notin lost /\ holder = s /\ UNCHANGED lost

Disowned(s) ==
    \/ s \in lost /\ UNCHANGED lost
    \/ s \notin lost /\ holder # s /\ lost' = lost \cup {s}
    \/ s \notin lost /\ "outage" \in wrong /\ UNCHANGED lost

(***************************************************************************)
(* The key expires: nobody renews it, or no renewal gets through.          *)
(***************************************************************************)
Renewed(s) == section[s] = "inside" /\ s \notin lost /\ "outage" \notin wrong

Lapse ==
    /\ holder # NoOne /\ ~Renewed(holder)
    /\ holder' = NoOne
    /\ UNCHANGED <<wrong, section, lost>>

(***************************************************************************)
(* The section is over, by return or throw: the key is deleted if it still *)
(* holds this call's token. Without an answer it is left to expire.        *)
(***************************************************************************)
\* Faulty: a plain DEL.
WhateverIsThere(s) == NoOne

CompareAndDelete(s) == IF holder = s THEN NoOne ELSE holder

Release(s) ==
    /\ section[s] = "inside"
    /\ Moves(s, "over")
    /\ \/ holder' = CompareAndDelete(s)
       \/ "outage" \in wrong /\ UNCHANGED holder
    /\ lost' = lost \ {s}
    /\ UNCHANGED wrong

(***************************************************************************)
(* The process of a call dies, and comes back with the call to be made.    *)
(***************************************************************************)
Crash(s) ==
    /\ "crash" \in wrong
    /\ section[s] \in {"asking", "inside", "over", "refused"}
    /\ Moves(s, "down")
    /\ lost' = lost \ {s}
    /\ UNCHANGED <<wrong, holder>>

(***************************************************************************)
(* The key leaves a section that is inside and did not overstay only if    *)
(* the store does not answer its renewals: nobody else's release takes it. *)
(***************************************************************************)
LeaseKept ==
    [][\A s \in Sections :
         holder = s /\ section[s] = "inside" /\ s \notin lost /\ "outage" \notin wrong
           => holder' = s \/ section'[s] # "inside"]_lockVars
=============================================================================
