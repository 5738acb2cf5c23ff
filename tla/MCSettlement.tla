---------------------------- MODULE MCSettlement ----------------------------
(***************************************************************************)
(* Settlement for TLC: every list of up to MaxAsks asks and MaxBids bids   *)
(* made of a few shapes of orders (prices that divide by the assets and    *)
(* prices that do not, with and without a fee and partial fills).          *)
(***************************************************************************)
EXTENDS Settlement

CONSTANTS MaxAsks, MaxBids, Seller, Buyer, Other, ast, usd, gas, AnyMarket

Shape(type, owner, n, p, fees, part) ==
    [type |-> type, market |-> AnyMarket, owner |-> owner, adenom |-> ast, assets |-> n,
     pdenom |-> usd, price |-> p, fees |-> fees, partial |-> part, ext |-> NoExt]

AskShapes ==
    {Shape("ask", Seller, 1, 2, NoCoins, FALSE),
     Shape("ask", Other, 2, 4, Coin(usd, 2), TRUE),
     Shape("ask", Seller, 3, 3, Coin(gas, 3), TRUE),
     Shape("ask", Other, 3, 4, NoCoins, TRUE)}

BidShapes ==
    {Shape("bid", Buyer, 1, 2, NoCoins, FALSE),
     Shape("bid", Other, 2, 6, Coin(gas, 1), TRUE),
     Shape("bid", Buyer, 3, 9, Plus(Coin(usd, 3), Coin(gas, 3)), TRUE),
     Shape("bid", Buyer, 4, 7, NoCoins, FALSE)}

Lists(S, n) == UNION {[1..k -> S] : k \in 1..n}

Lookups == {[kind |-> "none", price |-> 1, fee |-> 0],
            [kind |-> "ratio", price |-> 4, fee |-> 1]}

(* An ask for another asset, and a market without a ratio for the price:   *)
(* the lists that are refused before or after the passes.                  *)
OddInputs ==
    {<< <<[Shape("ask", Seller, 1, 2, NoCoins, FALSE) EXCEPT !.adenom = gas]>>,
        <<Shape("bid", Buyer, 1, 2, NoCoins, FALSE)>>,
        [kind |-> "none", price |-> 1, fee |-> 0]>>,
     << <<Shape("ask", Seller, 1, 2, NoCoins, FALSE)>>,
        <<Shape("bid", Buyer, 1, 2, NoCoins, FALSE)>>,
        [kind |-> "missing", price |-> 1, fee |-> 0]>>}

MCInputs == OddInputs \cup (Lists(AskShapes, MaxAsks) \X Lists(BidShapes, MaxBids) \X Lookups)

MCDenom == {ast, usd, gas}
MCAccount == {Seller, Buyer, Other}
MCMarket == {AnyMarket}
=============================================================================
