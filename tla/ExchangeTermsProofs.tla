------------------------ MODULE ExchangeTermsProofs ------------------------
(***************************************************************************)
(* What no message of the exchange does to an order: change its terms      *)
(* other than by filling part of it, or use its id again.                  *)
(***************************************************************************)
EXTENDS ExchangeIndexProofs

(* n is what may become of the order o. *)
Keeps(o, n) ==
    /\ n = CopyChange(WithExt(o, n.ext), n.assets, n.price, n.fees)
    /\ n.assets <= o.assets /\ n.price * o.assets = o.price * n.assets
    /\ \A d \in Denom : n.fees[d] * o.assets = o.fees[d] * n.assets
    /\ n.assets = o.assets \/ o.partial

LEMMA KeepsExt ==
    ASSUME NEW o \in Order, NEW ext
    PROVE  Keeps(o, WithExt(o, ext))
<1> DEFINE n == WithExt(o, ext)
<1>1. /\ n.type = o.type /\ n.market = o.market /\ n.owner = o.owner /\ n.adenom = o.adenom
      /\ n.assets = o.assets /\ n.pdenom = o.pdenom /\ n.price = o.price
      /\ n.fees = o.fees /\ n.partial = o.partial /\ n.ext = ext
  BY DEF WithExt
<1>2. n = CopyChange(WithExt(o, n.ext), n.assets, n.price, n.fees)
  BY <1>1 DEF CopyChange, WithExt
<1>3. o.assets \in Nat
  BY DEF Order
<1> HIDE DEF n
<1> QED BY <1>1, <1>2, <1>3 DEF Keeps, n

LEMMA KeepsSame ==
    ASSUME NEW o \in Order
    PROVE  Keeps(o, o)
<1>1. o = WithExt(o, o.ext)
  BY DEF WithExt, Order
<1> QED BY <1>1, KeepsExt

LEMMA ExactDivision ==
    ASSUME NEW x \in Nat, NEW a \in Nat, 0 < a, x % a = 0
    PROVE  x \div a \in Nat /\ a * (x \div a) = x
OBVIOUS

LEMMA Distributes ==
    ASSUME NEW n \in Int, NEW q \in Int, NEW a \in Int, NEW f \in Int
    PROVE  (n - q) * a = n * a - a * q /\ n * (a - f) = n * a - n * f
OBVIOUS

(* A whole-number part and what is left of it are in proportion. *)
LEMMA Proportion ==
    ASSUME NEW n \in Nat, NEW f \in Nat, NEW a \in Nat, 0 < f, f < a, (n * f) % a = 0
    PROVE  (n - (n * f) \div a) * a = n * (a - f)
<1> DEFINE x == n * f
           q == x \div a
<1>1. x \in Nat /\ 0 < a
  OBVIOUS
<1>2. q \in Nat /\ a * q = x
  <2>1. x % a = 0
    OBVIOUS
  <2> HIDE DEF x
  <2> QED BY <1>1, <2>1, ExactDivision
<1> HIDE DEF q
<1>3. (n - q) * a = n * a - a * q /\ n * (a - f) = n * a - n * f
  BY <1>2, Distributes
<1>4. (n - q) * a = n * (a - f)
  BY <1>2, <1>3
<1> QED BY <1>4 DEF q

LEMMA KeepsSplit ==
    ASSUME NEW o \in Order, NEW f, CanSplit(o, f)
    PROVE  Keeps(o, SplitUnfilled(o, f))
<1> DEFINE done == SplitFilled(o, f)
           n    == SplitUnfilled(o, f)
<1>1. /\ o.assets \in Nat /\ o.price \in Nat /\ f \in 1..(o.assets - 1)
      /\ \A d \in Denom : o.fees[d] \in Nat
  BY DEF Order, Coins, CanSplit
<1>2. f \in Nat /\ 0 < f /\ f < o.assets /\ o.assets - f <= o.assets
  BY <1>1
<1>3. done.price = (o.price * f) \div o.assets
  BY DEF SplitFilled, CopyChange
<1>4. n = CopyChange(o, o.assets - f, o.price - done.price, Minus(o.fees, done.fees))
  BY DEF SplitUnfilled
<1>5. /\ n.assets = o.assets - f /\ n.price = o.price - done.price /\ n.ext = o.ext
      /\ n.fees = Minus(o.fees, done.fees)
  BY <1>4 DEF CopyChange
<1>p. ASSUME NEW x \in Nat, (x * f) % o.assets = 0
      PROVE  (x - (x * f) \div o.assets) * o.assets = x * (o.assets - f)
  BY Zenon, <1>1, <1>2, <1>p, Proportion
<1>6. n.price * o.assets = o.price * n.assets
  <2>1. (o.price * f) % o.assets = 0
    BY DEF CanSplit
  <2>2. (o.price - (o.price * f) \div o.assets) * o.assets = o.price * (o.assets - f)
    BY <1>1, <1>p, <2>1
  <2>3. n.price = o.price - (o.price * f) \div o.assets
    BY <1>3, <1>5
  <2> HIDE DEF n
  <2> QED BY ONLY <1>5, <2>2, <2>3
<1>7. ASSUME NEW d \in Denom
      PROVE  n.fees[d] * o.assets = o.fees[d] * n.assets
  <2>1. n.fees[d] = o.fees[d] - (o.fees[d] * f) \div o.assets
    BY <1>5 DEF Minus, SplitFilled, CopyChange
  <2>2. (o.fees[d] * f) % o.assets = 0
    BY DEF CanSplit
  <2>3. (o.fees[d] - (o.fees[d] * f) \div o.assets) * o.assets = o.fees[d] * (o.assets - f)
    BY <1>1, <1>p, <2>2
  <2> HIDE DEF n
  <2> QED BY ONLY <1>5, <2>1, <2>3
<1>8. n = CopyChange(WithExt(o, n.ext), n.assets, n.price, n.fees)
  BY <1>4, <1>5 DEF CopyChange, WithExt
<1>9. o.partial
  BY DEF CanSplit
<1> HIDE DEF n, done
<1> QED BY <1>2, <1>5, <1>6, <1>7, <1>8, <1>9 DEF Keeps, n
-----------------------------------------------------------------------------
(* The orders after a step, one by one. *)
TermsKept ==
    \A id \in DOMAIN orders' :
        IF id \notin DOMAIN orders THEN id > lastOrderID /\ id = lastOrderID'
        ELSE Keeps(orders[id], orders'[id])

LEMMA SameOrders ==
    ASSUME BookInv, DOMAIN orders' \subseteq DOMAIN orders,
           \A id \in DOMAIN orders' : orders'[id] = orders[id]
    PROVE  TermsKept
BY KeepsSame DEF TermsKept, BookInv

LEMMA SettledTerms ==
    ASSUME IInv, NEW m, NEW askIds \in IdLists, NEW bidIds \in IdLists,
           MarketSettle(m, askIds, bidIds)
    PROVE  TermsKept
<1> DEFINE asks == [i \in DOMAIN askIds |-> orders[askIds[i]]]
           bids == [i \in DOMAIN bidIds |-> orders[bidIds[i]]]
           part == PartialId(askIds, bidIds, asks, bids)
           full == (Range(askIds) \cup Range(bidIds)) \ part
           left == OrderLeft(asks, bids)
<1>1. /\ CanSettle(asks, bids)
      /\ orders' = [id \in DOMAIN orders \ full |-> IF id \in part THEN left ELSE orders[id]]
  BY Zenon DEF MarketSettle
<1>2. Len(asks) > 0 /\ Len(bids) > 0
  BY Zenon, <1>1 DEF CanSettle
<1>3. /\ askIds[Len(askIds)] \in DOMAIN orders /\ bidIds[Len(bidIds)] \in DOMAIN orders
      /\ LastOf(asks) = orders[askIds[Len(askIds)]]
      /\ LastOf(bids) = orders[bidIds[Len(bidIds)]]
  BY <1>2, LastOrder
<1> HIDE DEF asks, bids
<1>4. ASSUME NEW id \in part
      PROVE  Keeps(orders[id], left)
  <2>1. CASE Excess(asks, bids) > 0
    <3>1. id = askIds[Len(askIds)] /\ left = SplitUnfilled(LastOf(asks), LastFilled(asks, bids))
      BY <1>4, <2>1 DEF PartialId, OrderLeft
    <3>2. CanSplit(LastOf(asks), LastFilled(asks, bids)) /\ LastOf(asks) \in Order
      BY <1>1, <1>3, <2>1 DEF CanSettle, IInv, BookInv
    <3> QED BY <1>3, <3>1, <3>2, KeepsSplit
  <2>2. CASE ~(Excess(asks, bids) > 0) /\ Excess(bids, asks) > 0
    <3>1. id = bidIds[Len(bidIds)] /\ left = SplitUnfilled(LastOf(bids), LastFilled(bids, asks))
      BY <1>4, <2>2 DEF PartialId, OrderLeft
    <3>2. CanSplit(LastOf(bids), LastFilled(bids, asks)) /\ LastOf(bids) \in Order
      BY <1>1, <1>3, <2>2 DEF CanSettle, IInv, BookInv
    <3> QED BY <1>3, <3>1, <3>2, KeepsSplit
  <2> QED BY <1>4, <2>1, <2>2 DEF PartialId
<1> HIDE DEF part, full, left
<1>5. ASSUME NEW id \in DOMAIN orders'
      PROVE  id \in DOMAIN orders /\ Keeps(orders[id], orders'[id])
  <2>1. id \in DOMAIN orders /\ orders[id] \in Order
        /\ orders'[id] = IF id \in part THEN left ELSE orders[id]
    BY <1>1 DEF IInv, BookInv
  <2> QED BY <1>4, <2>1, KeepsSame
<1> QED BY <1>5 DEF TermsKept

LEMMA TermsStep ==
    ASSUME IInv, [Next]_vars
    PROVE  TermsKept
<1>0. BookInv
  BY DEF IInv
<1>1. ASSUME UNCHANGED orders
      PROVE  TermsKept
  BY <1>0, <1>1, SameOrders
<1>2. ASSUME NEW ids, deleteOrders(ids)
      PROVE  TermsKept
  BY <1>0, <1>2, SameOrders DEF deleteOrders, WithoutOrders
<1>3. ASSUME NEW o, NEW f, CreateOrder(o, f)
      PROVE  TermsKept
  <2>1. orders' = Put(orders, lastOrderID + 1, o) /\ lastOrderID' = lastOrderID + 1
    BY Zenon, <1>3 DEF CreateOrder, SetLastOrderID
  <2>2. lastOrderID + 1 > lastOrderID /\ lastOrderID + 1 \notin DOMAIN orders
    BY <1>0 DEF BookInv
  <2>3. \A id \in DOMAIN orders : orders'[id] = orders[id] /\ orders[id] \in Order
    BY <1>0, <2>1, <2>2 DEF BookInv, Put
  <2> QED BY <2>1, <2>2, <2>3, KeepsSame DEF TermsKept, Put
<1>4. ASSUME NEW id \in DOMAIN orders, NEW x, SetOrderExternalID(id, x)
      PROVE  TermsKept
  <2>1. orders' = Put(orders, id, WithExt(orders[id], x))
    BY <1>4 DEF SetOrderExternalID
  <2>2. \A j \in DOMAIN orders : orders[j] \in Order
    BY <1>0 DEF BookInv
  <2> QED BY <2>1, <2>2, KeepsSame, KeepsExt DEF TermsKept, Put
<1>5. CASE OrderStep
  <2>1. ASSUME NEW m, NEW u, NEW ids, NEW f, NEW c, FillBids(m, u, ids, f, c)
        PROVE  TermsKept
    BY Zenon, <1>2, <2>1 DEF FillBids
  <2>2. ASSUME NEW m, NEW u, NEW ids, NEW f, NEW c, FillAsks(m, u, ids, f, c)
        PROVE  TermsKept
    BY Zenon, <1>2, <2>2 DEF FillAsks
  <2>3. ASSUME NEW id, CancelOrder(id)
        PROVE  TermsKept
    BY <1>2, <2>3 DEF CancelOrder
  <2>4. ASSUME NEW m, NEW c, ManageFees(m, c)
        PROVE  TermsKept
    BY <1>1, <2>4 DEF ManageFees, bookVars
  <2>5. ASSUME NEW m, NEW u, NEW amount, WithdrawMarketFunds(m, u, amount)
        PROVE  TermsKept
    BY <1>1, <2>5 DEF WithdrawMarketFunds, orderVars
  <2>6. ASSUME NEW m, UpdateUserSettlementAllowed(m)
        PROVE  TermsKept
    BY <1>1, <2>6 DEF UpdateUserSettlementAllowed, bookVars
  <2> QED BY <1>3, <1>4, <1>5, <2>1, <2>2, <2>3, <2>4, <2>5, <2>6, SettledTerms DEF OrderStep
<1>6. ASSUME NEW m, CloseMarket(m)
      PROVE  TermsKept
  <2>1. deleteOrders(Cancelled(m))
    BY Zenon, <1>6 DEF CloseMarket
  <2> QED BY <1>2, <2>1
<1>7. CASE CommitStep
  BY <1>1, <1>7, CommitKeepsOrders DEF orderVars
<1>8. CASE FlagStep
  BY Zenon, <1>1, <1>8 DEF FlagStep, UpdateAcceptingOrders, UpdateAcceptingCommitments,
                    orderVars, bookVars
<1>9. CASE UNCHANGED orderVars
  BY <1>1, <1>9 DEF orderVars
<1> QED BY <1>5, <1>6, <1>7, <1>8, <1>9 DEF Next, Send, vars

(* In every behaviour an order keeps its id, owner, market, kind and       *)
(* denominations, gets smaller only by a partial fill that it allows, at   *)
(* the price per unit it was created with, and its id is never used again. *)
THEOREM OrdersTermsCorrect == Spec => OrdersKeepTheirTerms
<1>1. IInv /\ [Next]_vars =>
         [\A id \in DOMAIN orders' :
             IF id \notin DOMAIN orders THEN id > lastOrderID /\ id = lastOrderID'
             ELSE LET o == orders[id]
                      n == orders'[id]
                  IN  /\ n = CopyChange(WithExt(o, n.ext), n.assets, n.price, n.fees)
                      /\ n.assets <= o.assets /\ n.price * o.assets = o.price * n.assets
                      /\ \A d \in Denom : n.fees[d] * o.assets = o.fees[d] * n.assets
                      /\ n.assets = o.assets \/ o.partial]_vars
  BY Zenon, TermsStep DEF TermsKept, Keeps
<1> QED BY <1>1, Invariance, PTL DEF Spec, OrdersKeepTheirTerms
=============================================================================
