------------------------- MODULE SettlementContract -------------------------
(***************************************************************************)
(* What settling a list of asks against a list of bids promises, without   *)
(* the passes that BuildSettlement makes to get there.  The answer comes   *)
(* in one step: the orders are refused, or every order is filled but for   *)
(* the end of the last one on the side with more assets, each bid pays     *)
(* exactly its price and that total is shared among the asks.              *)
(***************************************************************************)
EXTENDS SettlementRules

CONSTANTS
    Pending, Refused,  \* the outcome before the answer, and when the orders are refused
    Inputs             \* the asks, bids and seller fee ratio that may come in

VARIABLES askOrders, bidOrders, lookup, outcome

contractVars == <<askOrders, bidOrders, lookup, outcome>>

ContractInit ==
    /\ \E in \in Inputs : askOrders = in[1] /\ bidOrders = in[2] /\ lookup = in[3]
    /\ outcome = Pending

Refuse ==
    /\ outcome = Pending
    /\ ~CanSettle(askOrders, bidOrders) \/ lookup.kind = "missing"
    /\ outcome' = Refused
    /\ UNCHANGED <<askOrders, bidOrders, lookup>>

Settle ==
    /\ outcome = Pending
    /\ CanSettle(askOrders, bidOrders) /\ lookup.kind # "missing"
    /\ \E received \in FairShares(askOrders, bidOrders) :
          outcome' = [received |-> received, left |-> OrderLeft(askOrders, bidOrders)]
    /\ UNCHANGED <<askOrders, bidOrders, lookup>>

ContractNext == Refuse \/ Settle

ContractSpec == ContractInit /\ [][ContractNext]_contractVars
=============================================================================
