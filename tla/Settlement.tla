----------------------------- MODULE Settlement -----------------------------
(***************************************************************************)
(* BuildSettlement of x/exchange, one step per turn of its loops: the      *)
(* assets are matched in order, at most one order is split, the asks get   *)
(* their price, what the bids offer above that is spread over the asks,    *)
(* and the fees and transfers are worked out and checked.                  *)
(***************************************************************************)
EXTENDS SettlementRules, SequencesExt

CONSTANTS
    Pending, Refused,
    Inputs       \* the asks, bids and seller fee ratio that may come in

VARIABLES
    askOrders, bidOrders, lookup,   \* the arguments of BuildSettlement
    phase,      \* where in BuildSettlement the run is
    err,        \* the check that refused the orders, "" while none has
    askOFs, bidOFs,    \* the fulfillments of the asks and of the bids
    a, b,       \* the indexes of the loops
    partialLeft,       \* settlement.PartialOrderLeft
    leftover, totalLeftover, addPrice, firstPass   \* locals of allocatePrice

vars == <<askOrders, bidOrders, lookup, phase, err, askOFs, bidOFs, a, b,
          partialLeft, leftover, totalLeftover, addPrice, firstPass>>

inputs == <<askOrders, bidOrders, lookup>>
priceLocals == <<leftover, totalLeftover, addPrice, firstPass>>

(* newOrderFulfillment *)
newOrderFulfillment(o) ==
    [order |-> o, assetDists |-> <<>>, priceDists |-> <<>>,
     assetsFilled |-> 0, assetsUnfilled |-> o.assets,
     priceApplied |-> 0, priceLeft |-> o.price, feesToPay |-> NoCoins]

newOrderFulfillments(orders) == [i \in DOMAIN orders |-> newOrderFulfillment(orders[i])]

Dist(of, amount) == [addr |-> of.order.owner, amt |-> amount]

(* DistributeAssets records the amount on one side, with the other's owner. *)
DistributeAssets(of, other, amount) ==
    [of EXCEPT !.assetsUnfilled = @ - amount, !.assetsFilled = @ + amount,
               !.assetDists = Append(@, Dist(other, amount))]

(* As it would be if the distribution named the order's own owner. *)
MutDistributePrice(of, other, amount) ==
    [of EXCEPT !.priceLeft = @ - amount, !.priceApplied = @ + amount,
               !.priceDists = Append(@, Dist(of, amount))]

(* DistributePrice, likewise. *)
DistributePrice(of, other, amount) ==
    [of EXCEPT !.priceLeft = @ - amount, !.priceApplied = @ + amount,
               !.priceDists = Append(@, Dist(other, amount))]

(* distributePrice between the asks' and the bids' current fulfillment. *)
distributePrice(amount) ==
    /\ askOFs' = [askOFs EXCEPT ![a] = DistributePrice(@, bidOFs[b], amount)]
    /\ bidOFs' = [bidOFs EXCEPT ![b] = DistributePrice(@, askOFs[a], amount)]

Fail(reason) ==
    /\ phase' = "failed" /\ err' = reason
    /\ UNCHANGED <<askOFs, bidOFs, a, b, partialLeft, priceLocals, inputs>>

Goto(next) == phase' = next /\ UNCHANGED <<err, inputs>>

Init ==
    /\ \E in \in Inputs : askOrders = in[1] /\ bidOrders = in[2] /\ lookup = in[3]
    /\ phase = "start" /\ err = ""
    /\ askOFs = newOrderFulfillments(askOrders)
    /\ bidOFs = newOrderFulfillments(bidOrders)
    /\ a = 1 /\ b = 1 /\ partialLeft = NoOrder
    /\ leftover = 0 /\ totalLeftover = 0 /\ addPrice = 0 /\ firstPass = TRUE

(* validateCanSettle *)
validateCanSettle ==
    /\ phase = "start"
    /\ IF askOrders # <<>> /\ bidOrders # <<>> /\ SameDenoms(askOrders, bidOrders)
       THEN Goto("assets") /\ UNCHANGED <<askOFs, bidOFs, a, b, partialLeft, priceLocals>>
       ELSE Fail("cannot settle")

(* getFulfillmentAssetsAmt, and getFulfillmentPriceAmt below *)
getFulfillmentAssetsAmt(of1, of2) == Min({of1.assetsUnfilled, of2.assetsUnfilled})

(* One turn of the loop of allocateAssets. *)
allocateAssets ==
    /\ phase = "assets" /\ a <= Len(askOFs) /\ b <= Len(bidOFs)
    /\ LET ask == askOFs[a]
           bid == bidOFs[b]
           amt == getFulfillmentAssetsAmt(ask, bid)
       IN  IF amt <= 0 THEN Fail("no assets left")
           ELSE /\ askOFs' = [askOFs EXCEPT ![a] = DistributeAssets(@, bid, amt)]
                /\ bidOFs' = [bidOFs EXCEPT ![b] = DistributeAssets(@, ask, amt)]
                /\ a' = IF ask.assetsUnfilled = amt THEN a + 1 ELSE a
                /\ b' = IF bid.assetsUnfilled = amt THEN b + 1 ELSE b
                /\ Goto("assets") /\ UNCHANGED <<partialLeft, priceLocals>>

assetsAllocated ==
    /\ phase = "assets" /\ (a > Len(askOFs) \/ b > Len(bidOFs))
    /\ Goto("split") /\ UNCHANGED <<askOFs, bidOFs, a, b, partialLeft, priceLocals>>

(* What stops splitOrderFulfillments on one list, "" when nothing does. *)
splitError(OFs, alreadySplit) ==
    LET bad(i) == \/ OFs[i].assetsFilled = 0
                  \/ OFs[i].assetsUnfilled # 0 /\ i # Len(OFs)
        end    == OFs[Len(OFs)]
    IN  IF \E i \in DOMAIN OFs : bad(i) THEN "not filled"
        ELSE IF end.assetsUnfilled = 0 THEN ""
        ELSE IF alreadySplit THEN "both partial"
        ELSE IF CanSplit(end.order, end.assetsFilled) THEN "" ELSE "cannot split"

(* SplitOrder keeps the filled part in the fulfillment. *)
SplitOrder(of) ==
    IF of.assetsUnfilled = 0 THEN of
    ELSE LET filled == SplitFilled(of.order, of.assetsFilled)
         IN  [of EXCEPT !.order = filled, !.assetsUnfilled = 0,
                        !.priceLeft = filled.price - of.priceApplied]

(* splitPartial: the asks first, then the bids. *)
splitPartial ==
    /\ phase = "split"
    /\ LET lastAsk == askOFs[Len(askOFs)]
           lastBid == bidOFs[Len(bidOFs)]
           askErr  == splitError(askOFs, FALSE)
           bidErr  == splitError(bidOFs, lastAsk.assetsUnfilled # 0)
       IN  CASE askErr # "" -> Fail(askErr)
             [] askErr = "" /\ bidErr # "" -> Fail(bidErr)
             [] OTHER ->
                  /\ askOFs' = [askOFs EXCEPT ![Len(askOFs)] = SplitOrder(@)]
                  /\ bidOFs' = [bidOFs EXCEPT ![Len(bidOFs)] = SplitOrder(@)]
                  /\ partialLeft' =
                       CASE lastAsk.assetsUnfilled # 0 ->
                              SplitUnfilled(lastAsk.order, lastAsk.assetsFilled)
                         [] lastBid.assetsUnfilled # 0 ->
                              SplitUnfilled(lastBid.order, lastBid.assetsFilled)
                         [] OTHER -> NoOrder
                  /\ Goto("price") /\ UNCHANGED <<a, b, priceLocals>>

PriceLeftOf(of) == of.priceLeft
PriceAppliedOf(of) == of.priceApplied
OrderPriceOf(of) == of.order.price
AssetsFilledOf(of) == of.assetsFilled

(* allocatePrice starts: the asks may not want more than the bids offer. *)
allocatePrice ==
    /\ phase = "price"
    /\ IF Total(PriceLeftOf, askOFs) > Total(PriceLeftOf, bidOFs)
       THEN Fail("ask price above bid price")
       ELSE /\ a' = 1 /\ b' = 1
            /\ Goto("asks") /\ UNCHANGED <<askOFs, bidOFs, partialLeft, priceLocals>>

getFulfillmentPriceAmt(of1, of2) == Min({of1.priceLeft, of2.priceLeft})

(* As it would be if a bid with no price left stayed the current one. *)
MutNextBid(amount) == b

(* The current bid after the amount came out of it. *)
nextBid(amount) == IF bidOFs[b].priceLeft = amount THEN b + 1 ELSE b

(* The condition of the inner loop of the first pass. *)
BothHavePriceLeft == askOFs[a].priceLeft > 0 /\ bidOFs[b].priceLeft > 0

(* First pass: ask a gets what it still wants of what bid b still has. *)
giveAskItsPrice ==
    /\ phase = "asks" /\ a <= Len(askOFs) /\ BothHavePriceLeft
    /\ LET amt == getFulfillmentPriceAmt(askOFs[a], bidOFs[b])
       IN  distributePrice(amt) /\ b' = nextBid(amt)
    /\ Goto("asks") /\ UNCHANGED <<a, partialLeft, priceLocals>>

nextAsk ==
    /\ phase = "asks" /\ a <= Len(askOFs) /\ ~BothHavePriceLeft
    /\ a' = a + 1
    /\ Goto("asks") /\ UNCHANGED <<askOFs, bidOFs, b, partialLeft, priceLocals>>

(* The first pass is over: what is left of the bids is spread. *)
startLeftovers ==
    /\ phase = "asks" /\ a > Len(askOFs)
    /\ totalLeftover' = Total(OrderPriceOf, bidOFs) - Total(PriceAppliedOf, askOFs)
    /\ leftover' = totalLeftover' /\ a' = 0 /\ firstPass' = TRUE
    /\ Goto("leftover") /\ UNCHANGED <<askOFs, bidOFs, b, partialLeft, addPrice>>

(* As it would be if the share were rounded up. *)
MutLeftoverShare(i) ==
    (totalLeftover * askOFs[i].assetsFilled) \div Total(AssetsFilledOf, askOFs) + 1

(* An ask's share of the leftovers by assets, truncated. *)
leftoverShare(i) ==
    (totalLeftover * askOFs[i].assetsFilled) \div Total(AssetsFilledOf, askOFs)

(* As it would be if no ask got at least one after the first pass. *)
MutLeftoverFor(share) == Min({share, leftover})

(* What an ask gets: at least one, and only what there is. *)
leftoverFor(share) == Min({IF share = 0 THEN 1 ELSE share, leftover})

(* One turn of the leftover loop up to where the price is handed out: the  *)
(* next ask, and how much it gets.  The code panics when no bid is left.   *)
pickLeftover ==
    /\ phase = "leftover" /\ leftover # 0
    /\ LET na    == IF a = Len(askOFs) THEN 1 ELSE a + 1
           first == firstPass /\ a # Len(askOFs)
           share == leftoverShare(na)
       IN  IF b > Len(bidOFs) THEN Fail("panic")
           ELSE /\ a' = na /\ firstPass' = first
                /\ IF share = 0 /\ first
                   THEN Goto("leftover") /\ UNCHANGED addPrice
                   ELSE /\ addPrice' = leftoverFor(share)
                        /\ Goto("spread")
                /\ UNCHANGED <<askOFs, bidOFs, b, partialLeft, leftover, totalLeftover>>

(* The loop over bids whose price left does not exceed what the ask gets. *)
BidUsedUp == addPrice # 0 /\ b <= Len(bidOFs) /\ bidOFs[b].priceLeft <= addPrice

spreadWholeBid ==
    /\ phase = "spread" /\ BidUsedUp
    /\ distributePrice(bidOFs[b].priceLeft)
    /\ addPrice' = addPrice - bidOFs[b].priceLeft
    /\ leftover' = leftover - bidOFs[b].priceLeft
    /\ b' = b + 1
    /\ Goto("spread") /\ UNCHANGED <<a, partialLeft, totalLeftover, firstPass>>

(* The rest comes out of the current bid. *)
spreadRest ==
    /\ phase = "spread" /\ ~BidUsedUp
    /\ IF addPrice # 0 /\ b <= Len(bidOFs)
       THEN /\ distributePrice(addPrice)
            /\ leftover' = leftover - addPrice
            /\ b' = nextBid(addPrice)
       ELSE UNCHANGED <<askOFs, bidOFs, leftover, b>>
    /\ Goto("leftover") /\ UNCHANGED <<a, partialLeft, totalLeftover, addPrice, firstPass>>

(* setFeesToPay for one ask: its flat fee and, in the price denomination,  *)
(* the ratio of what it really gets.                                       *)
askFees(of) ==
    IF lookup.kind = "none" THEN of.order.fees
    ELSE Plus(of.order.fees,
              Coin(of.order.pdenom, ApplyToLoosely(lookup, of.priceApplied)))

(* orderFulfillment.Validate *)
ValidFulfillment(of) ==
    /\ of.order.assets = of.assetsFilled
    /\ IF of.order.type = "ask" THEN of.order.price <= of.priceApplied
                                ELSE of.order.price = of.priceApplied

(* getAssetTransfer and getPriceTransfer: every amount is positive and the *)
(* amounts add up to what the fulfillment says.                            *)
DistAmt(dist) == dist.amt

ValidTransfer(dists, amount) ==
    /\ amount > 0 /\ \A i \in DOMAIN dists : dists[i].amt > 0
    /\ Total(DistAmt, dists) = amount

(* The fees, the last checks, the transfers and the filled orders: the     *)
(* assets go out of the asks, the price out of the bids.                   *)
finish ==
    /\ phase = "leftover" /\ leftover = 0
    /\ IF lookup.kind = "missing" THEN Fail("no seller ratio")
       ELSE IF ~ \A of \in ToSet(askOFs) \cup ToSet(bidOFs) : ValidFulfillment(of)
       THEN Fail("does not add up")
       ELSE IF ~ /\ \A of \in ToSet(askOFs) : ValidTransfer(of.assetDists, of.assetsFilled)
                 /\ \A of \in ToSet(bidOFs) : ValidTransfer(of.priceDists, of.priceApplied)
       THEN Fail("bad transfer")
       ELSE /\ askOFs' = [i \in DOMAIN askOFs |-> [askOFs[i] EXCEPT !.feesToPay = askFees(askOFs[i])]]
            /\ bidOFs' = [i \in DOMAIN bidOFs |-> [bidOFs[i] EXCEPT !.feesToPay = bidOFs[i].order.fees]]
            /\ Goto("done") /\ UNCHANGED <<a, b, partialLeft, priceLocals>>

Next ==
    \/ validateCanSettle \/ allocateAssets \/ assetsAllocated \/ splitPartial
    \/ allocatePrice \/ giveAskItsPrice \/ nextAsk \/ startLeftovers
    \/ pickLeftover \/ spreadWholeBid \/ spreadRest \/ finish

Spec == Init /\ [][Next]_vars

(* BuildSettlement is a function call: it keeps running until it returns.  *)
FairSpec == Spec /\ WF_vars(Next)
-----------------------------------------------------------------------------
Sides == ToSet(askOFs) \cup ToSet(bidOFs)

(* The checks that BuildSettlement keeps for the case that its own passes  *)
(* went wrong never fire, and the panic at the end of the bids is never    *)
(* reached: orders are only refused for what they ask for.                 *)
OnlyInputsRefused ==
    err \notin {"panic", "no assets left", "both partial", "does not add up", "bad transfer"}

(* The amount sent to an address by the distributions of one side. *)
SentTo(addr, OFs, dists(_)) ==
    Total(LAMBDA of : Total(LAMBDA d : IF d.addr = addr THEN d.amt ELSE 0, dists(of)), OFs)

OwnedBy(addr, OFs, amount(_)) ==
    Total(LAMBDA of : IF of.order.owner = addr THEN amount(of) ELSE 0, OFs)

(* At every moment what the asks gave is what the bids got, for the assets *)
(* and for the price, and no bid pays more than its price: no pass of      *)
(* allocateAssets or allocatePrice makes, loses or overdraws an amount     *)
(* (the overfill check of DistributePrice is for bids only).  In the end   *)
(* the transfers, which are built from the asks' asset distributions and   *)
(* the bids' price distributions only, give every buyer the assets its     *)
(* bids were filled with and every seller the price its asks got.          *)
FlowsBalance ==
    /\ Total(AssetsFilledOf, askOFs) = Total(AssetsFilledOf, bidOFs)
    /\ Total(PriceAppliedOf, askOFs) = Total(PriceAppliedOf, bidOFs)
    /\ \A i \in DOMAIN bidOFs : bidOFs[i].priceLeft >= 0
    /\ \A of \in Sides : {of.assetsUnfilled, of.priceApplied} \subseteq Nat
    /\ phase = "done" =>
          \A addr \in Account :
             /\ SentTo(addr, askOFs, LAMBDA of : of.assetDists) = OwnedBy(addr, bidOFs, AssetsFilledOf)
             /\ SentTo(addr, bidOFs, LAMBDA of : of.priceDists) = OwnedBy(addr, askOFs, PriceAppliedOf)

Outcome ==
    CASE phase = "failed" -> Refused
      [] phase = "done" -> [received |-> [i \in DOMAIN askOFs |-> askOFs[i].priceApplied],
                            left |-> partialLeft]
      [] OTHER -> Pending

Contract == INSTANCE SettlementContract WITH outcome <- Outcome

(* BuildSettlement implements its contract: it refuses exactly the orders  *)
(* that cannot be settled, and otherwise shares the price fairly and       *)
(* leaves the right order.                                                 *)
ImplementsContract == Contract!ContractSpec

(* BuildSettlement returns: the loop over the leftovers, which goes round  *)
(* the asks until nothing is left, ends.                                   *)
Returns == <>(phase \in {"done", "failed"})
=============================================================================
