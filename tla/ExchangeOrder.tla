--------------------------- MODULE ExchangeOrder ---------------------------
(***************************************************************************)
(* The orders of x/exchange: what an ask and a bid are, what they put on   *)
(* hold and how an order is split when only part of its assets is filled.  *)
(***************************************************************************)
EXTENDS Coins

CONSTANTS
    Account,     \* the addresses that own orders
    Market,      \* the market ids
    ExternalId,  \* the external ids that orders may carry
    NoExt        \* the empty external id

Order ==
    [type : {"ask", "bid"}, market : Market, owner : Account,
     adenom : Denom, assets : Nat, pdenom : Denom, price : Nat,
     fees : Coins, partial : BOOLEAN, ext : ExternalId \cup {NoExt}]

(* AskOrder.Validate, BidOrder.Validate: an ask has at most one fee coin. *)
ValidOrder(o) ==
    /\ o.assets > 0 /\ o.price > 0 /\ o.adenom # o.pdenom
    /\ o.type = "ask" =>
          \A d, e \in Denom : o.fees[d] > 0 /\ o.fees[e] > 0 => d = e

(* AskOrder.GetHoldAmount leaves a fee in the price denomination out: it   *)
(* comes out of the price.  BidOrder.GetHoldAmount holds everything.       *)
GetHoldAmount(o) ==
    IF o.type = "ask"
    THEN Plus(Coin(o.adenom, o.assets),
              [d \in Denom |-> IF d = o.pdenom THEN 0 ELSE o.fees[d]])
    ELSE Plus(o.fees, Coin(o.pdenom, o.price))

(* AskOrder.CopyChange, BidOrder.CopyChange *)
CopyChange(o, newAssets, newPrice, newFees) ==
    [type |-> o.type, market |-> o.market, owner |-> o.owner,
     adenom |-> o.adenom, assets |-> newAssets,
     pdenom |-> o.pdenom, price |-> newPrice,
     fees |-> newFees, partial |-> o.partial, ext |-> o.ext]

(* As it would be if Split did not ask whether partial fills are allowed. *)
MutCanSplit(o, filled) ==
    /\ filled \in 1..(o.assets - 1)
    /\ (o.price * filled) % o.assets = 0
    /\ \A d \in Denom : (o.fees[d] * filled) % o.assets = 0

(* The conditions of Order.Split under which it returns no error. *)
CanSplit(o, filled) ==
    /\ filled \in 1..(o.assets - 1)
    /\ o.partial
    /\ (o.price * filled) % o.assets = 0
    /\ \A d \in Denom : (o.fees[d] * filled) % o.assets = 0

(* The two orders that Order.Split returns. *)
SplitFilled(o, filled) ==
    CopyChange(o, filled, (o.price * filled) \div o.assets,
               [d \in Denom |-> (o.fees[d] * filled) \div o.assets])

SplitUnfilled(o, filled) ==
    LET done == SplitFilled(o, filled)
    IN  CopyChange(o, o.assets - filled, o.price - done.price,
                   Minus(o.fees, done.fees))

(* FeeRatio.applyLooselyTo: price * fee / ratio price, rounded up. *)
ApplyToLoosely(ratio, price) ==
    (price * ratio.fee + ratio.price - 1) \div ratio.price
=============================================================================
