----------------------------- MODULE MCExchange -----------------------------
(***************************************************************************)
(* The exchange for TLC: two users, two denominations, one or two markets. *)
(* A run looks at one part (orders, commitments, payments) or at a bit of  *)
(* all of them, by what it lets users try.                                 *)
(***************************************************************************)
EXTENDS Exchange

CONSTANTS ann, bob, mktOne, mktTwo, collector, castAnn, castBob, apple, usd,
          one, two, x1, x2

MCDenom    == {apple, usd}
MCHolder   == {ann, bob, mktOne, mktTwo, collector, castAnn, castBob}
FewHolders == {ann, bob, mktOne, collector}
MCUser     == {ann, bob}
OneMarket  == {one}
TwoMarkets == {one, two}
MCMarketAddr == [m \in Market |-> IF m = one THEN mktOne ELSE mktTwo]
MCCast     == [a \in {ann, bob} |-> IF a = ann THEN castAnn ELSE castBob]
NoCast     == [a \in {ann, bob} |-> collector]   \* for runs without transfers
MCSplit    == [d \in Denom |-> 500]

Nothing == {}
Free    == {NoCoins}
Two(a, p) == Plus(Coin(apple, a), Coin(usd, p))

(* Ann has the apples, Bob has the money; each has a little of the other. *)
MCFunds == [a \in Holder |-> CASE a = ann -> Two(3, 6) [] a = bob -> Two(1, 9)
                               [] OTHER -> NoCoins]
-----------------------------------------------------------------------------
NoFees ==
    [createAsk |-> NoCoins, createBid |-> NoCoins, createCommitment |-> NoCoins,
     sellerFlat |-> NoCoins, buyerFlat |-> NoCoins,
     sellerRatio |-> [d \in Denom |-> NoRatio],
     buyerRatio |-> [d \in Denom |-> [e \in Denom |-> NoRatio]], bips |-> 0]

Third == [d \in Denom |-> IF d = usd THEN [price |-> 3, fee |-> 1] ELSE NoRatio]

SomeFees == [NoFees EXCEPT !.createAsk = Coin(usd, 1), !.sellerRatio = Third,
                           !.buyerFlat = Coin(usd, 1)]

MCFees == {SomeFees}

Ask(owner, m, n, p, f, part, x) ==
    [type |-> "ask", market |-> m, owner |-> owner, adenom |-> apple, assets |-> n,
     pdenom |-> usd, price |-> p, fees |-> f, partial |-> part, ext |-> x]

Bid(owner, m, n, p, f, part, x) == [Ask(owner, m, n, p, f, part, x) EXCEPT !.type = "bid"]

MCOrders ==
    {Ask(ann, one, 2, 4, NoCoins, TRUE, NoExt), Ask(ann, one, 1, 1, Coin(usd, 1), FALSE, NoExt),
     Ask(ann, one, 1, 3, Coin(usd, 1), FALSE, x1),
     Bid(bob, one, 1, 3, Coin(usd, 1), FALSE, x1), Bid(bob, one, 2, 4, Coin(usd, 2), TRUE, NoExt),
     Bid(ann, one, 2, 4, Coin(usd, 2), FALSE, NoExt)}

OfferedFees == {NoCoins, Coin(usd, 1)}
OneUsd      == {Coin(usd, 1)}
OneOf(a, c) == [x \in {a} |-> c]

-----------------------------------------------------------------------------
(* Commitments of one denomination and of both. *)
MCReleases == {OneOf(ann, NoCoins), OneOf(ann, Coin(usd, 1)), OneOf(bob, Coin(usd, 2)),
               [a \in {ann, bob} |-> IF a = ann THEN Coin(apple, 1) ELSE NoCoins]}

(* Ann's apple for Bob's money, with a fee of Bob; Bob's money to Ann, who *)
(* pays the fee; more out than in, which is refused.                       *)
Swap(annIn, bobIn, annFee, bobFee) ==
    [in |-> [a \in Holder |-> CASE a = ann -> annIn [] a = bob -> bobIn [] OTHER -> NoCoins],
     out |-> [a \in Holder |-> CASE a = ann -> bobIn [] a = bob -> annIn [] OTHER -> NoCoins],
     fees |-> [a \in Holder |-> CASE a = ann -> annFee [] a = bob -> bobFee [] OTHER -> NoCoins]]

MCSettles  == {Swap(Coin(apple, 1), Coin(usd, 1), NoCoins, Coin(usd, 1)),
               Swap(NoCoins, Coin(usd, 2), Coin(usd, 1), NoCoins),
               Swap(NoCoins, Coin(usd, 1), NoCoins, Coin(usd, 1)),
               [Swap(NoCoins, Coin(usd, 1), NoCoins, NoCoins) EXCEPT !.out[ann] = Coin(usd, 2)]}

CommitFees == {[NoFees EXCEPT !.createCommitment = Coin(usd, 1)]}
DropFee    == {[remove |-> [NoFees EXCEPT !.createCommitment = Coin(usd, 1)], add |-> NoFees]}
-----------------------------------------------------------------------------
MCOffers   == {<<Coin(usd, 1), Coin(apple, 1)>>, <<Coin(usd, 1), NoCoins>>}
-----------------------------------------------------------------------------
(* One of everything. *)
FewOrders  == {Ask(ann, one, 1, 2, NoCoins, FALSE, x1), Bid(bob, one, 1, 2, Coin(usd, 1), TRUE, x1)}
OneSwap    == {Swap(NoCoins, Coin(usd, 1), NoCoins, NoCoins)}
OneRelease == {OneOf(bob, NoCoins)}
OneId      == {x1}
OneFee     == {NoFees}
TinyFunds  == [a \in Holder |-> CASE a = ann -> Two(1, 1) [] a = bob -> Two(0, 3)
                               [] OTHER -> NoCoins]
=============================================================================
