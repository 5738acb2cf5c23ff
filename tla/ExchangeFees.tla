---------------------------- MODULE ExchangeFees ----------------------------
(***************************************************************************)
(* The fees of a market (x/exchange/keeper/market.go): the options and     *)
(* ratios that a market has, how governance changes them, and the checks   *)
(* of a fee that a user offers.  An option or a ratio of amount zero means *)
(* that the store has no entry for that denomination.                      *)
(***************************************************************************)
EXTENDS ExchangeOrder

CONSTANT ExchangeSplit  \* denomination |-> the exchange's share, in basis points

Ratio   == [price : Nat, fee : Nat]
NoRatio == [price |-> 0, fee |-> 0]

FeeSchedule ==
    [createAsk : Coins, createBid : Coins, createCommitment : Coins,
     sellerFlat : Coins, buyerFlat : Coins,
     sellerRatio : [Denom -> Ratio],
     buyerRatio : [Denom -> [Denom -> Ratio]],   \* price denom, fee denom
     bips : Nat]

(* updateFlatFees, updateFeeRatios: delete the entries to remove, then set *)
(* the ones to add.                                                        *)
UpdateFlatFees(old, remove, add) ==
    [d \in Denom |-> IF add[d] > 0 THEN add[d]
                     ELSE IF remove[d] > 0 THEN 0 ELSE old[d]]

UpdateFeeRatios(old, remove, add) ==
    [d \in Denom |-> IF add[d].price > 0 THEN add[d]
                     ELSE IF remove[d].price > 0 THEN NoRatio ELSE old[d]]

UpdateFees(old, remove, add) ==
    [createAsk |-> UpdateFlatFees(old.createAsk, remove.createAsk, add.createAsk),
     createBid |-> UpdateFlatFees(old.createBid, remove.createBid, add.createBid),
     createCommitment |-> UpdateFlatFees(old.createCommitment,
                                         remove.createCommitment, add.createCommitment),
     sellerFlat |-> UpdateFlatFees(old.sellerFlat, remove.sellerFlat, add.sellerFlat),
     buyerFlat |-> UpdateFlatFees(old.buyerFlat, remove.buyerFlat, add.buyerFlat),
     sellerRatio |-> UpdateFeeRatios(old.sellerRatio, remove.sellerRatio, add.sellerRatio),
     buyerRatio |-> [d \in Denom |-> UpdateFeeRatios(old.buyerRatio[d],
                                         remove.buyerRatio[d], add.buyerRatio[d])],
     bips |-> IF add.bips > 0 THEN add.bips
              ELSE IF remove.bips > 0 THEN 0 ELSE old.bips]

(* validateFlatFee: one coin that reaches an option, unless there is none. *)
validateFlatFee(options, fee) ==
    \/ options = NoCoins
    \/ \E d \in Denom : options[d] > 0 /\ options[d] <= fee[d]

(* getSellerSettlementRatio returns an error when the market has ratios    *)
(* but none for the denomination of the price.                             *)
HasSellerRatio(fees) == \E d \in Denom : fees.sellerRatio[d].price > 0

SellerRatioFound(fees, pdenom) ==
    HasSellerRatio(fees) => fees.sellerRatio[pdenom].price > 0

calculateSellerSettlementRatioFee(fees, pdenom, price) ==
    IF HasSellerRatio(fees) THEN ApplyToLoosely(fees.sellerRatio[pdenom], price) ELSE 0

(* As it would be if the price were not compared with the fees. *)
MutValidateAskPrice(fees, o) == SellerRatioFound(fees, o.pdenom)

(* The price has to be more than what comes out of it.  Without a ratio    *)
(* and without a flat fee in the price's denomination any price will do.   *)
validateAskPrice(fees, o) ==
    /\ SellerRatioFound(fees, o.pdenom)
    /\ HasSellerRatio(fees) \/ o.fees[o.pdenom] > 0 =>
          o.fees[o.pdenom] + calculateSellerSettlementRatioFee(fees, o.pdenom, o.price)
             < o.price

(* What validateBuyerSettlementFee decides: one coin of the fee pays a flat *)
(* option and another one a ratio option, or one coin pays both.  BuyerFee *)
(* has the loop and shows that it decides this.                            *)
PaysFlat(fees, d, n) == fees.buyerFlat[d] > 0 /\ fees.buyerFlat[d] <= n

PaysRatio(fees, pdenom, price, d, n) ==
    /\ fees.buyerRatio[pdenom][d].price > 0
    /\ ApplyToLoosely(fees.buyerRatio[pdenom][d], price) <= n

HasBuyerRatio(fees) == \E d, e \in Denom : fees.buyerRatio[d][e].price > 0

validateBuyerSettlementFee(fees, pdenom, price, fee) ==
    LET offered   == {d \in Denom : fee[d] > 0}
        flatReq   == fees.buyerFlat # NoCoins
        ratioReq  == HasBuyerRatio(fees)
        flat(d)   == PaysFlat(fees, d, fee[d])
        ratio(d)  == PaysRatio(fees, pdenom, price, d, fee[d])
        both(d)   == /\ flat(d) /\ ratio(d)
                     /\ PaysRatio(fees, pdenom, price, d, fee[d] - fees.buyerFlat[d])
    IN  CASE ~flatReq /\ ~ratioReq -> TRUE
          [] flatReq /\ ~ratioReq -> \E d \in offered : flat(d)
          [] ~flatReq /\ ratioReq -> \E d \in offered : ratio(d)
          [] OTHER -> \E d, e \in offered :
                         IF d = e THEN both(d) ELSE flat(d) /\ ratio(e)

(* The exchange's part of a fee, rounded up. *)
CalculateExchangeSplit(fee) ==
    [d \in Denom |-> (fee[d] * ExchangeSplit[d] + 9999) \div 10000]
=============================================================================
