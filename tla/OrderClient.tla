---------------------------- MODULE OrderClient -----------------------------
(***************************************************************************)
(* How the exchange client places orders (src/src/exchange/exchange.ts):   *)
(* openOrder sends an order, asks the venue about it when the answer says  *)
(* nothing, and sends it again only if the venue does not have it;         *)
(* openOrdersBatch sends several in one call and falls back to openOrder,  *)
(* one order after the other. The connector may lose an answer, before or  *)
(* after the venue took the order on. A request that gave up is taken not  *)
(* to arrive later: the venue's denial is final.                           *)
(*                                                                         *)
(* Definitions said to be "faulty" are bugs this code does not have.       *)
(***************************************************************************)
EXTENDS Integers, FiniteSets

CONSTANTS N,         \* number of orders
          Resends,   \* OPEN_ORDER_RESEND_ATTEMPTS
          Worlds     \* the situations a run starts from

ASSUME NAssumption == N \in Nat
ASSUME ResendsAssumption == Resends \in Nat

VARIABLES world,     \* what goes wrong
          stage,     \* per order: where the client has it
          tries,     \* per order: how often openOrder asked about it
          live,      \* per order: how many of it the venue has taken on
          answer,    \* per order: what the client answered
          latched    \* unsupportedOpenBatch: the connector has no batch route

clientVars == <<stage, tries, live, answer, latched>>

Orders == 1..N
Stages == {"none", "queued", "batch", "send", "ask", "answered"}
Answers == {"none", "placed", "refused", "unconfirmed"}
Travelling == {"batch", "send", "ask"}

ClientInit ==
    /\ stage = [o \in Orders |-> "none"]
    /\ tries = [o \in Orders |-> 0]
    /\ live = [o \in Orders |-> 0]
    /\ answer = [o \in Orders |-> "none"]
    /\ latched = FALSE

Answered(o, a) == /\ stage' = [stage EXCEPT ![o] = "answered"]
                  /\ answer' = [answer EXCEPT ![o] = a]

-----------------------------------------------------------------------------
(* openOrder *)

Placed(o) ==
    /\ stage[o] = "send"
    /\ live' = [live EXCEPT ![o] = @ + 1]
    /\ Answered(o, "placed")
    /\ UNCHANGED <<tries, latched>>

Refused(o) ==
    /\ stage[o] = "send"
    /\ Answered(o, "refused")
    /\ UNCHANGED <<tries, live, latched>>

\* Faulty: one more question than there are attempts.
TriesLeftOver(o) == tries[o] <= Resends
TriesLeft(o) == tries[o] < Resends

\* The answer says nothing, whether the order landed or not.
Lost(o) ==
    /\ stage[o] = "send" /\ "lost" \in world.faults
    /\ live' \in {live, [live EXCEPT ![o] = @ + 1]}
    /\ IF TriesLeft(o)
       THEN /\ stage' = [stage EXCEPT ![o] = "ask"]
            /\ tries' = [tries EXCEPT ![o] = @ + 1]
            /\ UNCHANGED answer
       ELSE Answered(o, "unconfirmed") /\ UNCHANGED tries
    /\ UNCHANGED latched

\* resolveAmbiguousPlacement: the venue has it, denies it, or does not say.
Resolved(o) ==
    /\ stage[o] = "ask"
    /\ \/ live[o] > 0 /\ Answered(o, "placed")
       \/ live[o] = 0 /\ stage' = [stage EXCEPT ![o] = "send"] /\ UNCHANGED answer
       \/ "lost" \in world.faults /\ Answered(o, "unconfirmed")
    /\ UNCHANGED <<tries, live, latched>>

OpenOrder(o) == Placed(o) \/ Refused(o) \/ Lost(o) \/ Resolved(o)

-----------------------------------------------------------------------------
(* openOrdersBatch *)

\* Less than two orders, or a connector without the route: one at a time.
Opens(chunk) == IF Cardinality(chunk) < 2 \/ latched THEN "send" ELSE "batch"

Become(S, st) == stage' = [o \in Orders |-> IF o \in S THEN st ELSE stage[o]]
Land(S) == live' = [o \in Orders |-> IF o \in S THEN live[o] + 1 ELSE live[o]]

\* Every order of the batch is placed or refused.
BatchAnswers(S) ==
    \E placed \in SUBSET S :
        /\ Land(placed) /\ Become(S, "answered")
        /\ answer' = [o \in Orders |-> IF o \in placed THEN "placed"
                                       ELSE IF o \in S THEN "refused" ELSE answer[o]]
        /\ UNCHANGED <<tries, latched>>

\* The whole batch is refused, or the connector does not know the route.
BatchDeclined(S) ==
    /\ "declined" \in world.faults
    /\ latched' \in {latched, TRUE}
    /\ Become(S, "send")
    /\ UNCHANGED <<tries, live, answer>>

\* Faulty: a batch whose answer was lost is sent again order by order.
SentAgain == "send"
AskedFirst == "ask"

\* Nothing is known of the batch: each order is asked about before it is sent.
BatchLost(S) ==
    /\ "lost" \in world.faults
    /\ \E landed \in SUBSET S : Land(landed)
    /\ Become(S, AskedFirst)
    /\ UNCHANGED <<tries, answer, latched>>

OpenOrdersBatch(S) == BatchAnswers(S) \/ BatchDeclined(S) \/ BatchLost(S)
=============================================================================
