------------------------------- MODULE Coins -------------------------------
(***************************************************************************)
(* Amounts of coins, as the Cosmos SDK gives them to the keepers           *)
(* (sdk.Coins, code outside src/): an amount for every denomination, zero  *)
(* for the ones that a Go value leaves out.                                *)
(***************************************************************************)
EXTENDS Integers

CONSTANT Denom       \* the denominations

Coins == [Denom -> Nat]

NoCoins == [d \in Denom |-> 0]

(* sdk.NewCoin(d, n) *)
Coin(d, n) == [e \in Denom |-> IF e = d THEN n ELSE 0]

(* Coins.Add and Coins.Sub; Sub is used where it cannot go negative. *)
Plus(c, e) == [d \in Denom |-> c[d] + e[d]]

Minus(c, e) == [d \in Denom |-> c[d] - e[d]]

(* Does c have at least the coins e? *)
Covers(c, e) == \A d \in Denom : e[d] <= c[d]
=============================================================================
