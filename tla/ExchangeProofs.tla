--------------------------- MODULE ExchangeProofs ---------------------------
(***************************************************************************)
(* For every number of users, markets, denominations and orders: no coins  *)
(* on hold are ever spent, and the indexes agree with the records.         *)
(***************************************************************************)
EXTENDS Exchange, HoldLemmas

LedgerInv == bal \in Ledger /\ hold \in Ledger /\ Backed(bal, hold)

MarketInv ==
    /\ acceptingOrders \subseteq Market /\ userSettle \subseteq Market
    /\ acceptingCommitments \subseteq Market /\ closed \subseteq Market
    /\ fees \in [Market -> FeeSchedule]
    /\ commit \in [Market -> Ledger]

BookInv ==
    /\ lastOrderID \in Nat
    /\ DOMAIN orders \subseteq 1..lastOrderID
    /\ \A id \in DOMAIN orders : orders[id] \in Order
    /\ OrderIndexesExact

PaymentInv ==
    /\ DOMAIN payments \subseteq Party \X PaymentId
    /\ \A k \in DOMAIN payments : payments[k] \in Payment
    /\ PaymentIndexExact

(* The inductive invariant. *)
IInv == LedgerInv /\ MarketInv /\ BookInv /\ PaymentInv

(* What an order puts on hold is an amount of coins (GetHoldAmount). *)
LEMMA HoldAmountType ==
    ASSUME NEW o \in Order
    PROVE  GetHoldAmount(o) \in Coins
<1>1. o.adenom \in Denom /\ o.assets \in Nat /\ o.pdenom \in Denom /\ o.price \in Nat
      /\ o.fees \in Coins
  BY DEF Order
<1>2. \A d \in Denom : o.fees[d] \in Nat
  BY <1>1 DEF Coins
<1> QED BY <1>1, <1>2 DEF GetHoldAmount, Coins, Plus, Coin

(* Collecting a fee and its exchange split leaves the holds covered. *)
LEMMA CollectedBacked ==
    ASSUME NEW b \in Ledger, NEW h \in Ledger, NEW m, NEW in,
           Backed(b, h), CanCollect(b, h, m, in)
    PROVE  Collected(b, m, in) \in Ledger /\ Backed(Collected(b, m, in), h)
<1> DEFINE paid == TotalOf(in)
           b1   == Moved(b, in, Only(MarketAddr[m], paid))
<1>1. CanMove(b, h, in, Only(MarketAddr[m], paid))
      /\ CanSend(b1, h, MarketAddr[m], CalculateExchangeSplit(paid))
  BY DEF CanCollect
<1>2. b1 \in Ledger /\ Backed(b1, h)
  BY <1>1, MovedBacked
<1>3. Collected(b, m, in) = Sent(b1, MarketAddr[m], FeeCollector, CalculateExchangeSplit(paid))
  BY DEF Collected
<1> HIDE DEF b1, paid
<1> QED BY <1>1, <1>2, <1>3, SentBacked

(* closeSettlement leaves the holds that remain covered. *)
LEMMA CloseBacked ==
    ASSUME LedgerInv, NEW m, NEW rel, NEW aIn, NEW aOut, NEW pIn, NEW pOut, NEW feeIn,
           CanCloseSettlement(m, rel, aIn, aOut, pIn, pOut, feeIn)
    PROVE  LET h1 == ReleaseAll(hold, rel)
               b3 == SettledBalances(m, aIn, aOut, pIn, pOut, feeIn)
           IN  h1 \in Ledger /\ b3 \in Ledger /\ Backed(b3, h1)
<1> DEFINE h1 == ReleaseAll(hold, rel)
           b1 == Moved(bal, aIn, aOut)
           b2 == Moved(b1, pIn, pOut)
<1>1. /\ CanReleaseAll(hold, rel) /\ CanMove(bal, h1, aIn, aOut)
      /\ CanMove(b1, h1, pIn, pOut) /\ CanCollect(b2, h1, m, feeIn)
  BY DEF CanCloseSettlement
<1>2. h1 \in Ledger /\ Backed(bal, h1)
  BY <1>1, ReleaseAllBacked DEF LedgerInv
<1>3. SettledBalances(m, aIn, aOut, pIn, pOut, feeIn) = Collected(b2, m, feeIn)
  BY DEF SettledBalances
<1> HIDE DEF h1
<1>4. b1 \in Ledger /\ Backed(b1, h1)
  BY <1>1, <1>2, MovedBacked DEF LedgerInv
<1> HIDE DEF b1
<1>5. b2 \in Ledger /\ Backed(b2, h1)
  BY <1>1, <1>2, <1>4, MovedBacked
<1> HIDE DEF b2
<1>6. Collected(b2, m, feeIn) \in Ledger /\ Backed(Collected(b2, m, feeIn), h1)
  BY <1>1, <1>2, <1>5, CollectedBacked
<1> QED BY <1>2, <1>3, <1>6 DEF h1
-----------------------------------------------------------------------------
LEMMA CreateOrderLedger ==
    ASSUME IInv, NEW o \in OrderInputs, NEW f \in CreationFees, CreateOrder(o, f)
    PROVE  LedgerInv'
<1> DEFINE b1 == Collected(bal, o.market, Only(o.owner, f))
<1>1. CanCollect(bal, hold, o.market, Only(o.owner, f))
      /\ HoldFits(b1, hold, o) /\ bal' = b1 /\ hold' = AddHold(hold, o.owner, GetHoldAmount(o))
  BY DEF CreateOrder
<1>2. b1 \in Ledger /\ Backed(b1, hold)
  BY <1>1, CollectedBacked DEF IInv, LedgerInv
<1>3. GetHoldAmount(o) \in Coins
  BY HoldAmountType, OrdersAssumption
<1> HIDE DEF b1
<1>4. ValidateNewHold(b1, hold, o.owner, GetHoldAmount(o))
  BY <1>1 DEF HoldFits
<1> QED BY <1>1, <1>2, <1>3, <1>4, AddHoldBacked DEF IInv, LedgerInv

LEMMA FillBidsLedger ==
    ASSUME IInv, NEW m, NEW u, NEW ids, NEW f, NEW c, FillBids(m, u, ids, f, c)
    PROVE  LedgerInv'
<1> DEFINE assets == ByOwner(ids, AssetsIn)
           price  == ByOwner(ids, PriceIn)
           total  == TotalOf(price)
           ratio  == [d \in Denom |-> IF total[d] = 0 THEN 0
                        ELSE calculateSellerSettlementRatioFee(fees[m], d, total[d])]
           in     == [a \in Holder |-> IF a = u THEN Plus(f, ratio)
                                       ELSE ByOwner(ids, FeesOf)[a]]
           sold   == Only(u, TotalOf(assets))
           rel    == ByOwner(ids, Held)
           b1     == SettledBalances(m, sold, assets, price, Only(u, total), in)
           h1     == ReleaseAll(hold, rel)
<1>1. /\ CanCloseSettlement(m, rel, sold, assets, price, Only(u, total), in)
      /\ CanCollect(b1, h1, m, Only(u, c))
      /\ hold' = h1 /\ bal' = Collected(b1, m, Only(u, c))
  BY Zenon DEF FillBids
<1>2. h1 \in Ledger /\ b1 \in Ledger /\ Backed(b1, h1)
  BY <1>1, CloseBacked DEF IInv
<1> HIDE DEF b1, h1
<1> QED BY <1>1, <1>2, CollectedBacked DEF LedgerInv

LEMMA FillAsksLedger ==
    ASSUME IInv, NEW m, NEW u, NEW ids, NEW f, NEW c, FillAsks(m, u, ids, f, c)
    PROVE  LedgerInv'
<1> DEFINE assets == ByOwner(ids, AssetsIn)
           price  == ByOwner(ids, PriceIn)
           total  == TotalOf(price)
           in     == [a \in Holder |-> IF a = u THEN f ELSE ByOwner(ids, SellerFee)[a]]
           paid   == Only(u, total)
           rel    == ByOwner(ids, Held)
           b1     == SettledBalances(m, assets, Only(u, TotalOf(assets)), paid, price, in)
           h1     == ReleaseAll(hold, rel)
<1>1. /\ CanCloseSettlement(m, rel, assets, Only(u, TotalOf(assets)), paid, price, in)
      /\ CanCollect(b1, h1, m, Only(u, c))
      /\ hold' = h1 /\ bal' = Collected(b1, m, Only(u, c))
  BY DEF FillAsks
<1>2. h1 \in Ledger /\ b1 \in Ledger /\ Backed(b1, h1)
  BY Zenon, <1>1, CloseBacked DEF IInv
<1> HIDE DEF b1, h1
<1> QED BY <1>1, <1>2, CollectedBacked DEF LedgerInv

LEMMA MarketSettleLedger ==
    ASSUME IInv, NEW m, NEW askIds, NEW bidIds, MarketSettle(m, askIds, bidIds)
    PROVE  LedgerInv'
<1> DEFINE asks == [i \in DOMAIN askIds |-> orders[askIds[i]]]
           bids == [i \in DOMAIN bidIds |-> orders[bidIds[i]]]
           ask  == FilledPart(asks, bids)
           bid  == FilledPart(bids, asks)
           rel  == BothLists(ask, LAMBDA i : GetHoldAmount(ask[i]),
                             bid, LAMBDA i : GetHoldAmount(bid[i]))
           aIn  == InList(ask, LAMBDA i : AssetCoins(ask[i]))
           aOut == InList(bid, LAMBDA i : AssetCoins(bid[i]))
           pIn  == InList(bid, LAMBDA i : PriceCoins(bid[i]))
           pOut(r)  == InList(ask, LAMBDA i : Coin(ask[i].pdenom, r[i]))
           feeIn(r) == BothLists(ask, LAMBDA i : AskFees(fees[m], ask[i], r[i]),
                                 bid, LAMBDA i : bid[i].fees)
<1>1. PICK r \in FairShares(asks, bids) :
         /\ CanCloseSettlement(m, rel, aIn, aOut, pIn, pOut(r), feeIn(r))
         /\ bal' = SettledBalances(m, aIn, aOut, pIn, pOut(r), feeIn(r))
  BY Zenon DEF MarketSettle
<1>2. hold' = ReleaseAll(hold, rel)
  BY Zenon DEF MarketSettle
<1> HIDE DEF rel, aIn, aOut, pIn, pOut, feeIn, asks, bids
<1>3. hold' \in Ledger /\ bal' \in Ledger /\ Backed(bal', hold')
  BY <1>1, <1>2, CloseBacked DEF IInv
<1> QED BY <1>3 DEF LedgerInv

LEMMA OrderLedger ==
    ASSUME IInv, OrderStep
    PROVE  LedgerInv'
<1>1. ASSUME NEW id \in DOMAIN orders, CancelOrder(id)
      PROVE  LedgerInv'
  <2>1. GetHoldAmount(orders[id]) \in Coins
    BY HoldAmountType DEF IInv, BookInv
  <2> QED BY <1>1, <2>1, ReleaseHoldBacked DEF CancelOrder, IInv, LedgerInv
<1>2. ASSUME NEW m, NEW u, NEW amount, WithdrawMarketFunds(m, u, amount)
      PROVE  LedgerInv'
  BY <1>2, SentBacked DEF WithdrawMarketFunds, IInv, LedgerInv
<1>3. ASSUME UNCHANGED ledger
      PROVE  LedgerInv'
  BY <1>3 DEF ledger, IInv, LedgerInv
<1>4. ASSUME NEW id, NEW x, SetOrderExternalID(id, x)
      PROVE  LedgerInv'
  BY <1>3, <1>4 DEF SetOrderExternalID
<1>5. ASSUME NEW m, NEW c, ManageFees(m, c)
      PROVE  LedgerInv'
  BY <1>3, <1>5 DEF ManageFees
<1>6. ASSUME NEW m, UpdateUserSettlementAllowed(m)
      PROVE  LedgerInv'
  BY <1>3, <1>6 DEF UpdateUserSettlementAllowed
<1> QED BY <1>1, <1>2, <1>4, <1>5, <1>6, CreateOrderLedger, FillBidsLedger,
           FillAsksLedger, MarketSettleLedger DEF OrderStep
-----------------------------------------------------------------------------
LEMMA CommitFundsLedger ==
    ASSUME IInv, NEW m, NEW a, NEW amount \in CommitAmounts, NEW f,
           CommitFunds(m, a, amount, f)
    PROVE  LedgerInv'
<1> DEFINE b1 == Collected(bal, m, Only(a, f))
<1>1. /\ CanCollect(bal, hold, m, Only(a, f)) /\ ValidateNewHold(b1, hold, a, amount)
      /\ bal' = b1 /\ hold' = AddHold(hold, a, amount)
  BY DEF CommitFunds
<1>2. b1 \in Ledger /\ Backed(b1, hold)
  BY <1>1, CollectedBacked DEF IInv, LedgerInv
<1> HIDE DEF b1
<1>3. amount \in Coins
  BY CommitmentsAssumption
<1> QED BY <1>1, <1>2, <1>3, AddHoldBacked DEF IInv, LedgerInv

(* What SettleCommitments commits again is covered, for every account. *)
LEMMA SettleCommitmentsLedger ==
    ASSUME IInv, NEW m, NEW s, SettleCommitments(m, s)
    PROVE  LedgerInv'
<1> DEFINE used == InputsAndFees(s)
           h1   == ReleaseAll(hold, used)
           b1   == Moved(bal, s.in, s.out)
           paid == Only(MarketAddr[m], TotalOf(s.fees))
           b2   == Moved(b1, s.fees, paid)
<1>1. /\ CanReleaseAll(hold, used) /\ CanMove(bal, h1, s.in, s.out)
      /\ CanMove(b1, h1, s.fees, paid)
      /\ \A a \in Holder : ValidateNewHold(b2, h1, a, s.out[a])
      /\ bal' = b2 /\ hold' = [a \in Holder |-> Plus(h1[a], s.out[a])]
  BY Zenon DEF SettleCommitments
<1>2. h1 \in Ledger /\ Backed(bal, h1)
  BY Zenon, <1>1, ReleaseAllBacked DEF IInv, LedgerInv
<1>3. s.out \in Ledger
  BY Zenon, <1>1 DEF CanMove
<1> HIDE DEF h1
<1>4. b1 \in Ledger /\ Backed(b1, h1)
  BY Zenon, <1>1, <1>2, MovedBacked DEF IInv, LedgerInv
<1> HIDE DEF b1
<1>5. b2 \in Ledger /\ Backed(b2, h1)
  BY Zenon, <1>1, <1>2, <1>4, MovedBacked
<1> HIDE DEF b2
<1>6. ASSUME NEW a \in Holder, NEW d \in Denom
      PROVE  hold'[a][d] \in Nat /\ hold'[a][d] <= b2[a][d]
  <2>1. h1[a][d] \in Nat /\ s.out[a][d] \in Nat /\ b2[a][d] \in Nat
    BY <1>2, <1>3, <1>5 DEF Ledger, Coins
  <2>2. hold'[a][d] = h1[a][d] + s.out[a][d]
    BY Zenon, <1>1 DEF Plus
  <2>3. s.out[a][d] <= b2[a][d] - h1[a][d]
    BY Zenon, <1>1 DEF ValidateNewHold, Covers, Spendable, Minus
  <2> QED BY <2>1, <2>2, <2>3
<1>7. hold' \in Ledger
  <2>1. hold' = [a \in Holder |-> [d \in Denom |-> hold'[a][d]]]
    BY Zenon, <1>1 DEF Plus
  <2> QED BY <1>6, <2>1 DEF Ledger, Coins
<1> QED BY Zenon, <1>1, <1>5, <1>6, <1>7 DEF LedgerInv, Backed, Covers

LEMMA CommitLedger ==
    ASSUME IInv, CommitStep
    PROVE  LedgerInv'
<1>1. ASSUME NEW m, NEW rel, ReleaseCommitments(m, rel)
      PROVE  LedgerInv'
  BY Zenon, <1>1, ReleaseAllBacked DEF ReleaseCommitments, IInv, LedgerInv
<1>2. ASSUME NEW m, NEW n, NEW u, NEW amount, TransferCommitments(u, m, n, amount)
      PROVE  LedgerInv'
  BY <1>2 DEF TransferCommitments, ledger, IInv, LedgerInv
<1> QED BY <1>1, <1>2, CommitFundsLedger, SettleCommitmentsLedger DEF CommitStep
-----------------------------------------------------------------------------
LEMMA AcceptPaymentLedger ==
    ASSUME IInv, NEW t, AcceptPayment(t)
    PROVE  LedgerInv'
<1> DEFINE k  == signed[t][1]
           p  == payments[k]
           h1 == ReleaseHold(hold, k[1], p.samount)
           b1 == Sent(bal, k[1], p.target, p.samount)
<1>1. /\ k \in DOMAIN payments /\ CanRelease(hold, k[1], p.samount)
      /\ CanSend(bal, h1, k[1], p.samount) /\ CanSend(b1, h1, p.target, p.tamount)
      /\ hold' = h1 /\ bal' = Sent(b1, p.target, k[1], p.tamount)
  BY Zenon DEF AcceptPayment, CanAccept
<1> HIDE DEF k, p
<1>2. p.samount \in Coins
  BY Zenon, <1>1 DEF CanSend
<1>3. h1 \in Ledger /\ Backed(bal, h1)
  BY Zenon, <1>1, <1>2, ReleaseHoldBacked DEF IInv, LedgerInv
<1> HIDE DEF h1
<1>4. b1 \in Ledger /\ Backed(b1, h1)
  BY Zenon, <1>1, <1>3, SentBacked DEF IInv, LedgerInv
<1> HIDE DEF b1
<1> QED BY Zenon, <1>1, <1>3, <1>4, SentBacked DEF LedgerInv

LEMMA PaymentLedger ==
    ASSUME IInv, PaymentStep
    PROVE  LedgerInv'
<1>1. ASSUME NEW k, NEW t, NEW offer \in Offers, CreatePayment(k, t, offer)
      PROVE  LedgerInv'
  <2>1. offer[1] \in Coins
    BY PaymentsAssumption
  <2> QED BY Zenon, <1>1, <2>1, AddHoldBacked DEF CreatePayment, IInv, LedgerInv
<1>2. ASSUME NEW keys, deletePaymentsAndReleaseHolds(keys)
      PROVE  LedgerInv'
  BY <1>2, ReleaseAllBacked DEF deletePaymentsAndReleaseHolds, IInv, LedgerInv
<1>3. ASSUME UNCHANGED ledger
      PROVE  LedgerInv'
  BY <1>3 DEF ledger, IInv, LedgerInv
<1> QED BY Zenon, <1>1, <1>2, <1>3, AcceptPaymentLedger
        DEF PaymentStep, SignAccept, RejectPayment, AcceptRefused, RejectPayments,
            CancelPayments, UpdatePaymentTarget
-----------------------------------------------------------------------------
LEMMA LedgerStep ==
    ASSUME IInv, [Next]_vars
    PROVE  LedgerInv'
<1>1. ASSUME NEW m, CloseMarket(m)
      PROVE  LedgerInv'
  <2> DEFINE r1 == ReleasedTo(m)[lastOrderID]
             h1 == ReleaseAll(hold, r1)
             r2 == CommitmentsReleased(m, h1)
  <2>1. /\ CanReleaseAll(hold, r1) /\ CanReleaseAll(h1, r2)
        /\ hold' = ReleaseAll(h1, r2) /\ bal' = bal
    BY Zenon, <1>1 DEF CloseMarket
  <2> HIDE DEF r1, r2
  <2>2. h1 \in Ledger /\ Backed(bal, h1)
    BY <2>1, ReleaseAllBacked DEF IInv, LedgerInv
  <2> HIDE DEF h1
  <2> QED BY <2>1, <2>2, ReleaseAllBacked DEF IInv, LedgerInv
<1>2. ASSUME NEW from, NEW to, NEW amount, Send(from, to, amount)
      PROVE  LedgerInv'
  BY <1>2, SentBacked DEF Send, IInv, LedgerInv
<1>3. ASSUME UNCHANGED ledger
      PROVE  LedgerInv'
  BY <1>3 DEF ledger, IInv, LedgerInv
<1>4. CASE FlagStep
  BY <1>3, <1>4 DEF FlagStep, UpdateAcceptingOrders, UpdateAcceptingCommitments
<1>5. CASE UNCHANGED vars
  BY <1>3, <1>5 DEF vars
<1> QED BY <1>1, <1>2, <1>4, <1>5, OrderLedger, CommitLedger, PaymentLedger DEF Next
-----------------------------------------------------------------------------
(* Governance's fee changes leave a schedule of fees. *)
LEMMA UpdateFeesType ==
    ASSUME NEW old \in FeeSchedule, NEW remove \in FeeSchedule, NEW add \in FeeSchedule
    PROVE  UpdateFees(old, remove, add) \in FeeSchedule
<1>1. ASSUME NEW a \in Coins, NEW b \in Coins, NEW c \in Coins
      PROVE  UpdateFlatFees(a, b, c) \in Coins
  BY DEF UpdateFlatFees, Coins
<1>2. ASSUME NEW a \in [Denom -> Ratio], NEW b \in [Denom -> Ratio],
             NEW c \in [Denom -> Ratio]
      PROVE  UpdateFeeRatios(a, b, c) \in [Denom -> Ratio]
  <2>1. NoRatio \in Ratio
    BY DEF NoRatio, Ratio
  <2> QED BY <2>1 DEF UpdateFeeRatios
<1>3. [d \in Denom |-> UpdateFeeRatios(old.buyerRatio[d], remove.buyerRatio[d],
                                       add.buyerRatio[d])] \in [Denom -> [Denom -> Ratio]]
  <2>1. /\ old.buyerRatio \in [Denom -> [Denom -> Ratio]]
        /\ remove.buyerRatio \in [Denom -> [Denom -> Ratio]]
        /\ add.buyerRatio \in [Denom -> [Denom -> Ratio]]
    BY DEF FeeSchedule
  <2> QED BY Zenon, <1>2, <2>1
<1>4. /\ UpdateFlatFees(old.createAsk, remove.createAsk, add.createAsk) \in Coins
      /\ UpdateFlatFees(old.createBid, remove.createBid, add.createBid) \in Coins
      /\ UpdateFlatFees(old.createCommitment, remove.createCommitment,
                        add.createCommitment) \in Coins
      /\ UpdateFlatFees(old.sellerFlat, remove.sellerFlat, add.sellerFlat) \in Coins
      /\ UpdateFlatFees(old.buyerFlat, remove.buyerFlat, add.buyerFlat) \in Coins
  BY <1>1 DEF FeeSchedule
<1>5. UpdateFeeRatios(old.sellerRatio, remove.sellerRatio, add.sellerRatio)
         \in [Denom -> Ratio]
  BY Zenon, <1>2 DEF FeeSchedule
<1>6. (IF add.bips > 0 THEN add.bips ELSE IF remove.bips > 0 THEN 0 ELSE old.bips) \in Nat
  BY DEF FeeSchedule
<1> QED BY Zenon, <1>3, <1>4, <1>5, <1>6 DEF UpdateFees, FeeSchedule

(* A ledger given by its amounts. *)
LEMMA LedgerByAmounts ==
    ASSUME NEW l, l = [a \in Holder |-> [d \in Denom |-> l[a][d]]],
           \A a \in Holder, d \in Denom : l[a][d] \in Nat
    PROVE  l \in Ledger
BY DEF Ledger, Coins

LEMMA SetCommitmentType ==
    ASSUME NEW c \in [Market -> Ledger], NEW m \in Market, NEW a, NEW amount \in Coins
    PROVE  setCommitmentAmount(c, m, a, amount) \in [Market -> Ledger]
<1>1. ASSUME NEW n \in Market, NEW x \in Holder
      PROVE  (IF n = m /\ x = a THEN amount ELSE c[n][x]) \in Coins
  BY DEF Ledger
<1> QED BY <1>1 DEF setCommitmentAmount, Ledger

LEMMA AddCommitmentType ==
    ASSUME NEW c \in [Market -> Ledger], NEW m \in Market, NEW a \in Holder,
           NEW amount \in Coins
    PROVE  addCommitmentAmount(c, m, a, amount) \in [Market -> Ledger]
<1>1. c[m][a] \in Coins
  BY DEF Ledger
<1>2. Plus(c[m][a], amount) \in Coins
  BY <1>1 DEF Plus, Coins
<1> QED BY <1>2, SetCommitmentType DEF addCommitmentAmount

LEMMA MarketStep ==
    ASSUME IInv, [Next]_vars
    PROVE  MarketInv'
<1> USE DEF MarketInv
<1>0. MarketInv /\ Managed \subseteq Market /\ Closable \subseteq Market
  BY ExchangeAssumption DEF IInv
<1>1. ASSUME UNCHANGED <<acceptingOrders, userSettle, acceptingCommitments, closed, fees>>,
             commit' \in [Market -> Ledger]
      PROVE  MarketInv'
  BY <1>0, <1>1
<1>2. ASSUME UNCHANGED <<marketVars, commitVars, closed>>
      PROVE  MarketInv'
  BY <1>0, <1>2 DEF marketVars, commitVars
<1>3. ASSUME NEW m \in Market, NEW u \in User, NEW amount \in CommitAmounts, NEW f,
             CommitFunds(m, u, amount, f)
      PROVE  commit' \in [Market -> Ledger]
  <2>1. u \in Holder /\ amount \in Coins
    BY Zenon, OrdersAssumption, CommitmentsAssumption, ExchangeAssumption
  <2> QED BY <1>0, <1>3, <2>1, AddCommitmentType DEF CommitFunds
<1>4. ASSUME NEW m \in Market, NEW rel \in ReleaseInputs, ReleaseCommitments(m, rel)
      PROVE  commit' \in [Market -> Ledger]
  <2>1. ASSUME NEW a \in Holder
        PROVE  Released(m, rel)[a] \in Coins
    <3>1. commit[m][a] \in Coins
      BY <1>0 DEF Ledger
    <3>2. CASE a \in DOMAIN rel
      <4>1. rel[a] \in Coins /\ Covers(commit[m][a], rel[a])
        BY Zenon, <1>4, <3>2, CommitmentsAssumption DEF ReleaseCommitments
      <4>2. Minus(commit[m][a], rel[a]) \in Coins
        BY <3>1, <4>1 DEF Minus, Covers, Coins
      <4>3. NoCoins \in Coins
        BY DEF NoCoins, Coins
      <4>4. Released(m, rel)[a] = IF rel[a] = NoCoins THEN NoCoins
                                  ELSE Minus(commit[m][a], rel[a])
        BY <3>2 DEF Released
      <4> QED BY <4>2, <4>3, <4>4
    <3> QED BY Zenon, <3>1, <3>2 DEF Released
  <2>2. Released(m, rel) \in Ledger
    BY <2>1 DEF Released, Ledger
  <2> QED BY Zenon, <1>0, <1>4, <2>2 DEF ReleaseCommitments
<1>5. ASSUME NEW m \in Market, NEW s, SettleCommitments(m, s)
      PROVE  commit' \in [Market -> Ledger]
  <2>1. ASSUME NEW a \in Holder, NEW d \in Denom
        PROVE  Recommitted(m, s)[a][d] \in Nat
    <3>1. s.out \in Ledger /\ InputsAndFees(s) \in Ledger
      BY Zenon, <1>5 DEF SettleCommitments, CanMove, CanReleaseAll
    <3>2. s.out[a][d] \in Nat /\ InputsAndFees(s)[a][d] \in Nat /\ commit[m][a][d] \in Nat
      BY <1>0, <3>1 DEF Ledger, Coins
    <3>3. InputsAndFees(s)[a][d] <= commit[m][a][d]
      BY Zenon, <1>5 DEF SettleCommitments, Covers
    <3>4. Recommitted(m, s)[a][d] = commit[m][a][d] - InputsAndFees(s)[a][d] + s.out[a][d]
      BY DEF Recommitted, Plus, Minus
    <3> QED BY <3>2, <3>3, <3>4
  <2>2. Recommitted(m, s) = [a \in Holder |-> [d \in Denom |-> Recommitted(m, s)[a][d]]]
    BY Zenon DEF Recommitted, Plus
  <2>3. Recommitted(m, s) \in Ledger
    BY <2>1, <2>2, LedgerByAmounts
  <2> QED BY Zenon, <1>0, <1>5, <2>3 DEF SettleCommitments
<1>6. ASSUME NEW m \in Market, NEW n \in Market, NEW u \in User, NEW amount \in MoveAmounts,
             TransferCommitments(u, m, n, amount)
      PROVE  commit' \in [Market -> Ledger]
  <2> DEFINE left == Minus(commit[m][u], amount)
             c1   == setCommitmentAmount(commit, m, CastAddr[u], left)
  <2>0. u \in Holder /\ amount \in Coins
    BY Zenon, OrdersAssumption, ExchangeAssumption
  <2>1. u \in Holder /\ amount \in Coins /\ commit[m][u] \in Coins
    BY <1>0, <2>0 DEF Ledger
  <2>2. Covers(commit[m][u], amount) /\ commit' = addCommitmentAmount(c1, n, u, amount)
    BY Zenon, <1>6 DEF TransferCommitments
  <2>3. left \in Coins
    BY <2>1, <2>2 DEF Minus, Covers, Coins
  <2> HIDE DEF left
  <2>4. c1 \in [Market -> Ledger]
    BY <1>0, <2>3, SetCommitmentType
  <2> HIDE DEF c1
  <2> QED BY <2>1, <2>2, <2>4, AddCommitmentType
<1>7. ASSUME CommitStep, UNCHANGED closed
      PROVE  MarketInv'
  <2>1. commit' \in [Market -> Ledger]
    BY <1>3, <1>4, <1>5, <1>6, <1>7 DEF CommitStep
  <2>2. UNCHANGED <<acceptingOrders, userSettle, acceptingCommitments, closed, fees>>
    BY ZenonT(30), <1>7 DEF CommitStep, CommitFunds, ReleaseCommitments, SettleCommitments,
                TransferCommitments, orderVars
  <2> QED BY <1>1, <2>1, <2>2
<1>8. ASSUME NEW m \in Market, NEW c \in FeeChanges, ManageFees(m, c),
             UNCHANGED <<commitVars, closed>>
      PROVE  MarketInv'
  <2>0. c.remove \in FeeSchedule /\ c.add \in FeeSchedule
    BY OrdersAssumption
  <2>1. \A n \in Market : UpdateFees(fees[n], c.remove, c.add) \in FeeSchedule
    BY <1>0, <2>0, UpdateFeesType
  <2>2. fees' \in [Market -> FeeSchedule]
    BY <1>0, <1>8, <2>1 DEF ManageFees
  <2> QED BY <1>0, <1>8, <2>2 DEF ManageFees, commitVars
<1>9. ASSUME OrderStep, UNCHANGED <<commitVars, paymentVars, closed>>
      PROVE  MarketInv'
  <2>1. ASSUME NEW m \in Managed, UpdateUserSettlementAllowed(m)
        PROVE  MarketInv'
    BY <1>0, <1>9, <2>1 DEF UpdateUserSettlementAllowed, commitVars
  <2>2. ASSUME UNCHANGED marketVars
        PROVE  MarketInv'
    BY <1>2, <1>9, <2>2
  <2>3. ASSUME NEW m, NEW u, NEW ids, NEW f, NEW c, FillBids(m, u, ids, f, c)
        PROVE  UNCHANGED marketVars
    BY Zenon, <2>3 DEF FillBids
  <2>4. ASSUME NEW m, NEW u, NEW ids, NEW f, NEW c, FillAsks(m, u, ids, f, c)
        PROVE  UNCHANGED marketVars
    BY Zenon, <2>4 DEF FillAsks
  <2>5. ASSUME NEW m, NEW askIds, NEW bidIds, MarketSettle(m, askIds, bidIds)
        PROVE  UNCHANGED marketVars
    BY <2>5, Zenon DEF MarketSettle
  <2>6. ASSUME NEW o, NEW f, CreateOrder(o, f)
        PROVE  UNCHANGED marketVars
    BY Zenon, <2>6 DEF CreateOrder
  <2>7. ASSUME NEW m, NEW u, NEW amount, WithdrawMarketFunds(m, u, amount)
        PROVE  UNCHANGED marketVars
    BY <2>7 DEF WithdrawMarketFunds, orderVars, marketVars
  <2>8. ASSUME NEW id, CancelOrder(id)
        PROVE  UNCHANGED marketVars
    BY <2>8 DEF CancelOrder
  <2>9. ASSUME NEW id, NEW x, SetOrderExternalID(id, x)
        PROVE  UNCHANGED marketVars
    BY <2>9 DEF SetOrderExternalID
  <2> QED BY Zenon, <1>8, <1>9, <2>1, <2>2, <2>3, <2>4, <2>5, <2>6, <2>7, <2>8, <2>9
          DEF OrderStep
<1>10. ASSUME NEW m \in Closable, CloseMarket(m)
       PROVE  MarketInv'
  <2>1. commit' \in [Market -> Ledger]
    <3>1. \A n \in Market, a \in Holder : commit[n][a] \in Coins
      BY <1>0 DEF Ledger
    <3>2. NoCoins \in Coins
      BY DEF NoCoins, Coins
    <3>3. PICK test :
             commit' = [n \in Market |-> [a \in Holder |->
                           IF test[n][a] THEN NoCoins ELSE commit[n][a]]]
      <4> DEFINE r2 == CommitmentsReleased(m, ReleaseAll(hold, ReleasedTo(m)[lastOrderID]))
      <4> DEFINE test == [n \in Market |-> [a \in Holder |-> n = m /\ r2[a] = commit[n][a]]]
      <4>1. commit' = [n \in Market |-> [a \in Holder |->
                         IF n = m /\ r2[a] = commit[n][a] THEN NoCoins ELSE commit[n][a]]]
        BY Zenon, <1>10 DEF CloseMarket
      <4> HIDE DEF r2
      <4>2. commit' = [n \in Market |-> [a \in Holder |->
                         IF test[n][a] THEN NoCoins ELSE commit[n][a]]]
        BY Zenon, <4>1
      <4> QED BY Zenon, <4>2
    <3>4. \A n \in Market : commit'[n] \in Ledger
      BY <3>1, <3>2, <3>3 DEF Ledger
    <3> QED BY <3>3, <3>4
  <2> QED BY Zenon, <1>0, <1>10, <2>1 DEF CloseMarket
<1>11. ASSUME FlagStep, closed' = closed \ (acceptingOrders' \cup acceptingCommitments')
       PROVE  MarketInv'
  <2>1. ASSUME NEW m \in Managed, UpdateAcceptingOrders(m) /\ UNCHANGED commitVars
        PROVE  MarketInv'
    BY <1>0, <1>11, <2>1 DEF UpdateAcceptingOrders, commitVars
  <2>2. ASSUME NEW m \in Managed, NEW b, UpdateAcceptingCommitments(m, b)
        PROVE  MarketInv'
    BY <1>0, <1>11, <2>2 DEF UpdateAcceptingCommitments, orderVars
  <2> QED BY <1>11, <2>1, <2>2 DEF FlagStep
<1>12. CASE \E from, to \in User, amount \in TransferAmounts : Send(from, to, amount)
  BY <1>2, <1>12 DEF Send, orderVars, marketVars, commitVars
<1>13. CASE PaymentStep /\ UNCHANGED <<orderVars, commitVars, closed>>
  BY <1>2, <1>13 DEF orderVars, marketVars, commitVars
<1>14. CASE UNCHANGED vars
  BY <1>2, <1>14 DEF vars, orderVars, marketVars, commitVars
<1> QED BY Zenon, <1>7, <1>9, <1>10, <1>11, <1>12, <1>13, <1>14 DEF Next
=============================================================================
