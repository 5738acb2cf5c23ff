------------------------------- MODULE Orders -------------------------------
(***************************************************************************)
(* The order book of x/exchange (keeper/orders.go, keeper/fulfillment.go): *)
(* orders, their indexes and the holds on their owners' coins.  A message  *)
(* that fails changes nothing, so every action is a message that succeeds. *)
(* Permissions and required attributes are left open: whoever could be     *)
(* allowed to send a message is.                                           *)
(***************************************************************************)
EXTENDS Hold, KVStore, SettlementRules, ExchangeFees, Functions

CONSTANTS
    MarketAddr,      \* market id |-> its account (GetMarketAddress)
    FeeCollector,    \* the exchange's fee collector
    OrderInputs,     \* the orders that users try to create
    CreationFees,    \* the fees that users offer with a message
    FillFees,        \* the settlement fees that users offer with a fill
    FeeChanges,      \* [remove, add] of a GovManageFees message
    MaxOrders,       \* bound on the number of orders ever created
    MaxSettle        \* bound on the number of orders on each side of a settlement

VARIABLES
    acceptingOrders, \* the markets that accept orders
    userSettle,      \* the markets that allow user settlement
    fees,            \* market |-> fee schedule
    orders,          \* order id |-> order
    lastOrderID,
    orderIdx,        \* market-, owner- and asset-to-order entries
    extIdx           \* <<market, external id>> |-> order id

ASSUME OrdersAssumption ==
    /\ Account \subseteq Holder
    /\ MarketAddr \in [Market -> Holder] /\ FeeCollector \in Holder
    /\ OrderInputs \subseteq Order
    /\ CreationFees \subseteq Coins /\ FillFees \subseteq Coins
    /\ \A c \in FeeChanges : c.remove \in FeeSchedule /\ c.add \in FeeSchedule
    /\ MaxOrders \in Nat /\ MaxSettle \in Nat

marketVars == <<acceptingOrders, userSettle, fees>>
bookVars   == <<orders, lastOrderID, orderIdx, extIdx>>
orderVars  == <<acceptingOrders, userSettle, fees, orders, lastOrderID, orderIdx, extIdx>>

OrdersInit ==
    /\ orders = EmptyStore /\ lastOrderID = 0
    /\ orderIdx = {} /\ extIdx = EmptyStore
-----------------------------------------------------------------------------
(* CollectFee, CollectFees: from the payers to the market, then the        *)
(* exchange's part from the market to the fee collector.                   *)
CanCollect(b, h, m, in) ==
    LET paid == TotalOf(in)
        cut  == CalculateExchangeSplit(paid)
        b1   == Moved(b, in, Only(MarketAddr[m], paid))
    IN  /\ CanMove(b, h, in, Only(MarketAddr[m], paid))
        /\ CanSend(b1, h, MarketAddr[m], cut)

Collected(b, m, in) ==
    LET paid == TotalOf(in)
    IN  Sent(Moved(b, in, Only(MarketAddr[m], paid)), MarketAddr[m], FeeCollector,
             CalculateExchangeSplit(paid))
-----------------------------------------------------------------------------
(* createConstantIndexEntries *)
IndexEntries(id, o) ==
    {<<"market", o.market, id>>, <<"owner", o.owner, id>>, <<"asset", o.adenom, id>>}

ExternalKey(o) == <<o.market, o.ext>>

(* As it would be if an external id in use were not refused. *)
MutCanSetOrder(ext, id, o) == TRUE

(* setOrderInStore *)
CanSetOrder(ext, id, o) ==
    o.ext # NoExt /\ ExternalKey(o) \in DOMAIN ext => ext[ExternalKey(o)] = id

SetExternal(ext, id, o) == IF o.ext = NoExt THEN ext ELSE Put(ext, ExternalKey(o), id)

(* As it would be if the external-id entry of a deleted order stayed. *)
MutWithoutExternal(ext, ids) == ext

(* deleteAndDeIndexOrder of several orders *)
WithoutExternal(ext, ids) ==
    [k \in {j \in DOMAIN ext : \A id \in ids : j # ExternalKey(orders[id])} |-> ext[k]]

WithoutOrders(ids) == [id \in DOMAIN orders \ ids |-> orders[id]]

WithoutEntries(ids) == orderIdx \ UNION {IndexEntries(id, orders[id]) : id \in ids}

deleteOrders(ids) ==
    /\ orders' = WithoutOrders(ids)
    /\ orderIdx' = WithoutEntries(ids)
    /\ extIdx' = WithoutExternal(extIdx, ids)
    /\ UNCHANGED lastOrderID
-----------------------------------------------------------------------------
(* nextOrderID, setLastOrderID *)
SetLastOrderID(id) == lastOrderID' = id

CreationFeeOf(f, type) == IF type = "ask" THEN f.createAsk ELSE f.createBid

validateFees(f, o, creationFee) ==
    /\ validateFlatFee(CreationFeeOf(f, o.type), creationFee)
    /\ IF o.type = "ask"
       THEN validateFlatFee(f.sellerFlat, o.fees) /\ validateAskPrice(f, o)
       ELSE validateBuyerSettlementFee(f, o.pdenom, o.price, o.fees)

(* placeHoldOnOrder comes after the creation fee is paid. *)
HoldFits(b, h, o) == ValidateNewHold(b, h, o.owner, GetHoldAmount(o))

(* CreateAskOrder, CreateBidOrder *)
CreateOrder(o, creationFee) ==
    LET id == lastOrderID + 1
        in == Only(o.owner, creationFee)
        b1 == Collected(bal, o.market, in)
    IN  /\ lastOrderID < MaxOrders
        /\ ValidOrder(o)
        /\ o.market \in acceptingOrders
        /\ validateFees(fees[o.market], o, creationFee)
        /\ CanCollect(bal, hold, o.market, in)
        /\ CanSetOrder(extIdx, id, o)
        /\ HoldFits(b1, hold, o)
        /\ bal' = b1
        /\ hold' = AddHold(hold, o.owner, GetHoldAmount(o))
        /\ orders' = Put(orders, id, o)
        /\ SetLastOrderID(id)
        /\ orderIdx' = orderIdx \cup IndexEntries(id, o)
        /\ extIdx' = SetExternal(extIdx, id, o)
        /\ UNCHANGED marketVars

(* CancelOrder: by the owner or by an admin of the market. *)
CancelOrder(id) ==
    /\ CanRelease(hold, orders[id].owner, GetHoldAmount(orders[id]))
    /\ hold' = ReleaseHold(hold, orders[id].owner, GetHoldAmount(orders[id]))
    /\ deleteOrders({id})
    /\ UNCHANGED <<bal, marketVars>>

WithExt(o, ext) ==
    [type |-> o.type, market |-> o.market, owner |-> o.owner,
     adenom |-> o.adenom, assets |-> o.assets, pdenom |-> o.pdenom,
     price |-> o.price, fees |-> o.fees, partial |-> o.partial, ext |-> ext]

(* MarketSetOrderExternalID: the old entry goes before the new one is set. *)
SetOrderExternalID(id, ext) ==
    LET o    == orders[id]
        new  == WithExt(o, ext)
        kept == IF o.ext = NoExt THEN extIdx ELSE Del(extIdx, ExternalKey(o))
    IN  /\ o.ext # ext
        /\ CanSetOrder(kept, id, new)
        /\ orders' = Put(orders, id, new)
        /\ extIdx' = SetExternal(kept, id, new)
        /\ UNCHANGED <<ledger, marketVars, lastOrderID, orderIdx>>
-----------------------------------------------------------------------------
(* Amounts per account of a set of orders. *)
ByOwner(ids, amount(_)) ==
    [a \in Holder |-> [d \in Denom |->
        MapThenSumSet(LAMBDA id : amount(id)[d],
                      {id \in ids : orders[id].owner = a})]]

AssetCoins(o) == Coin(o.adenom, o.assets)
PriceCoins(o) == Coin(o.pdenom, o.price)

(* closeSettlement: the holds first, then the assets, the price and the    *)
(* fees, each from what is spendable at that point.  rel, aIn, ... are     *)
(* amounts per account.                                                    *)
CanCloseSettlement(m, rel, aIn, aOut, pIn, pOut, feeIn) ==
    LET h1 == ReleaseAll(hold, rel)
        b1 == Moved(bal, aIn, aOut)
        b2 == Moved(b1, pIn, pOut)
    IN  /\ CanReleaseAll(hold, rel)
        /\ CanMove(bal, h1, aIn, aOut)
        /\ CanMove(b1, h1, pIn, pOut)
        /\ CanCollect(b2, h1, m, feeIn)

SettledBalances(m, aIn, aOut, pIn, pOut, feeIn) ==
    Collected(Moved(Moved(bal, aIn, aOut), pIn, pOut), m, feeIn)

Held(id)       == GetHoldAmount(orders[id])
AssetsIn(id)   == AssetCoins(orders[id])
PriceIn(id)    == PriceCoins(orders[id])
FeesOf(id)     == orders[id].fees

(* The seller's fee when they get the price: the flat fee and the ratio. *)
SellerFee(id) ==
    LET o == orders[id]
    IN  Plus(o.fees, Coin(o.pdenom,
            calculateSellerSettlementRatioFee(fees[o.market], o.pdenom, o.price)))

PriceDenoms(ids) == {orders[id].pdenom : id \in ids}

(* getAskOrders, getBidOrders for a user who takes the other side. *)
CanTake(m, ids, type, user) ==
    /\ m \in acceptingOrders /\ m \in userSettle
    /\ ids # {} /\ Cardinality(ids) <= MaxSettle
    /\ \A id \in ids : /\ orders[id].type = type /\ orders[id].market = m
                       /\ orders[id].owner # user

(* FillBids *)
FillBids(m, seller, ids, flatFee, creationFee) ==
    LET assets == ByOwner(ids, AssetsIn)
        price  == ByOwner(ids, PriceIn)
        total  == TotalOf(price)
        ratio  == [d \in Denom |-> IF total[d] = 0 THEN 0
                     ELSE calculateSellerSettlementRatioFee(fees[m], d, total[d])]
        in     == [a \in Holder |-> IF a = seller THEN Plus(flatFee, ratio)
                                    ELSE ByOwner(ids, FeesOf)[a]]
        sold   == Only(seller, TotalOf(assets))
        b1     == SettledBalances(m, sold, assets, price, Only(seller, total), in)
    IN  /\ CanTake(m, ids, "bid", seller)
        /\ validateFlatFee(fees[m].createAsk, creationFee)
        /\ validateFlatFee(fees[m].sellerFlat, flatFee)
        /\ \A d \in PriceDenoms(ids) : SellerRatioFound(fees[m], d)
        /\ CanCloseSettlement(m, ByOwner(ids, Held), sold, assets, price,
                              Only(seller, total), in)
        /\ CanCollect(b1, ReleaseAll(hold, ByOwner(ids, Held)), m, Only(seller, creationFee))
        /\ hold' = ReleaseAll(hold, ByOwner(ids, Held))
        /\ bal' = Collected(b1, m, Only(seller, creationFee))
        /\ deleteOrders(ids)
        /\ UNCHANGED marketVars

(* FillAsks: the message's total price is a single coin. *)
FillAsks(m, buyer, ids, buyerFees, creationFee) ==
    LET assets == ByOwner(ids, AssetsIn)
        price  == ByOwner(ids, PriceIn)
        total  == TotalOf(price)
        in     == [a \in Holder |-> IF a = buyer THEN buyerFees
                                    ELSE ByOwner(ids, SellerFee)[a]]
        paid   == Only(buyer, total)
        b1     == SettledBalances(m, assets, Only(buyer, TotalOf(assets)), paid, price, in)
    IN  /\ CanTake(m, ids, "ask", buyer)
        /\ validateFlatFee(fees[m].createBid, creationFee)
        /\ \E d \in Denom : /\ PriceDenoms(ids) = {d}
                            /\ SellerRatioFound(fees[m], d)
                            /\ validateBuyerSettlementFee(fees[m], d, total[d], buyerFees)
        /\ CanCloseSettlement(m, ByOwner(ids, Held), assets,
                              Only(buyer, TotalOf(assets)), paid, price, in)
        /\ CanCollect(b1, ReleaseAll(hold, ByOwner(ids, Held)), m, Only(buyer, creationFee))
        /\ hold' = ReleaseAll(hold, ByOwner(ids, Held))
        /\ bal' = Collected(b1, m, Only(buyer, creationFee))
        /\ deleteOrders(ids)
        /\ UNCHANGED marketVars
-----------------------------------------------------------------------------
(* Amounts per owner of the orders of a list. *)
InList(list, amount(_)) ==
    [a \in Holder |-> [d \in Denom |->
        MapThenSumSet(LAMBDA i : amount(i)[d], {i \in DOMAIN list : list[i].owner = a})]]

BothLists(l1, amount1(_), l2, amount2(_)) ==
    [a \in Holder |-> Plus(InList(l1, amount1)[a], InList(l2, amount2)[a])]

(* The id of the order that is only filled in part, as a set. *)
PartialId(askIds, bidIds, asks, bids) ==
    IF Excess(asks, bids) > 0 THEN {askIds[Len(askIds)]}
    ELSE IF Excess(bids, asks) > 0 THEN {bidIds[Len(bidIds)]}
    ELSE {}

(* What the asks pay: their flat fee and the ratio of what they received   *)
(* (setFeesToPay).                                                         *)
AskFees(f, o, received) ==
    Plus(o.fees, Coin(o.pdenom, calculateSellerSettlementRatioFee(f, o.pdenom, received)))

(* SettleOrders: the settlement that BuildSettlement returns, as           *)
(* SettlementContract has it, then closeSettlement.  The message says      *)
(* whether it expects a partial order; one of the two choices succeeds.    *)
MarketSettle(m, askIds, bidIds) ==
    LET asks  == [i \in DOMAIN askIds |-> orders[askIds[i]]]
        bids  == [i \in DOMAIN bidIds |-> orders[bidIds[i]]]
        ask   == FilledPart(asks, bids)
        bid   == FilledPart(bids, asks)
        part  == PartialId(askIds, bidIds, asks, bids)
        full  == (Range(askIds) \cup Range(bidIds)) \ part
        rel   == BothLists(ask, LAMBDA i : GetHoldAmount(ask[i]),
                           bid, LAMBDA i : GetHoldAmount(bid[i]))
        aIn   == InList(ask, LAMBDA i : AssetCoins(ask[i]))
        aOut  == InList(bid, LAMBDA i : AssetCoins(bid[i]))
        pIn   == InList(bid, LAMBDA i : PriceCoins(bid[i]))
    IN  /\ IsInjective(askIds) /\ IsInjective(bidIds)
        /\ \A i \in DOMAIN asks : asks[i].type = "ask" /\ asks[i].market = m
        /\ \A i \in DOMAIN bids : bids[i].type = "bid" /\ bids[i].market = m
        /\ CanSettle(asks, bids)
        /\ SellerRatioFound(fees[m], asks[1].pdenom)
        /\ \E received \in FairShares(asks, bids) :
              LET pOut  == InList(ask, LAMBDA i : Coin(ask[i].pdenom, received[i]))
                  feeIn == BothLists(ask, LAMBDA i : AskFees(fees[m], ask[i], received[i]),
                                     bid, LAMBDA i : bid[i].fees)
              IN  /\ CanCloseSettlement(m, rel, aIn, aOut, pIn, pOut, feeIn)
                  /\ bal' = SettledBalances(m, aIn, aOut, pIn, pOut, feeIn)
        /\ hold' = ReleaseAll(hold, rel)
        /\ orders' = [id \in DOMAIN orders \ full |->
                         IF id \in part THEN OrderLeft(asks, bids) ELSE orders[id]]
        /\ orderIdx' = WithoutEntries(full)
        /\ extIdx' = WithoutExternal(extIdx, full)
        /\ UNCHANGED <<lastOrderID, marketVars>>
-----------------------------------------------------------------------------
(* MarketUpdateAcceptingOrders, MarketUpdateUserSettle: an error when the  *)
(* flag already has the value.                                             *)
UpdateAcceptingOrders(m) ==
    /\ acceptingOrders' = IF m \in acceptingOrders THEN acceptingOrders \ {m}
                          ELSE acceptingOrders \cup {m}
    /\ UNCHANGED <<ledger, userSettle, fees, bookVars>>

UpdateUserSettlementAllowed(m) ==
    /\ userSettle' = IF m \in userSettle THEN userSettle \ {m} ELSE userSettle \cup {m}
    /\ UNCHANGED <<ledger, acceptingOrders, fees, bookVars>>

(* GovManageFees *)
ManageFees(m, change) ==
    /\ fees' = [n \in Market |-> IF n = m THEN UpdateFees(fees[n], change.remove, change.add)
                               ELSE fees[n]]
    /\ UNCHANGED <<ledger, acceptingOrders, userSettle, bookVars>>

(* MarketWithdraw: the market's funds, to any account. *)
WithdrawMarketFunds(m, to, amount) ==
    /\ amount # NoCoins
    /\ CanSend(bal, hold, MarketAddr[m], amount)
    /\ bal' = Sent(bal, MarketAddr[m], to, amount)
    /\ UNCHANGED <<hold, orderVars>>

(* CancelAllOrdersForMarket cancels in the order of the ids and only logs   *)
(* an error.  ReleaseHold has by then released the denoms it could.  The   *)
(* amounts released once the orders up to id are done:                     *)
ReleasedTo(m) ==
    LET step[id \in 0..lastOrderID] ==
            IF id = 0 THEN NoLedger
            ELSE IF id \notin DOMAIN orders \/ orders[id].market # m THEN step[id - 1]
            ELSE [a \in Holder |-> [d \in Denom |->
                    IF a = orders[id].owner /\ step[id - 1][a][d] + Held(id)[d] <= hold[a][d]
                    THEN step[id - 1][a][d] + Held(id)[d] ELSE step[id - 1][a][d]]]
    IN  step

Cancelled(m) ==
    {id \in DOMAIN orders : /\ orders[id].market = m
                            /\ \A d \in Denom : ReleasedTo(m)[id - 1][orders[id].owner][d]
                                     + Held(id)[d] <= hold[orders[id].owner][d]}
=============================================================================
