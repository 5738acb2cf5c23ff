------------------------------ MODULE MCTxFees ------------------------------
(***************************************************************************)
(* Instance of TxFees for TLC: a payer, one who has an allowance, and a    *)
(* recipient of fees.                                                      *)
(***************************************************************************)
EXTENDS TxFees, TLC

CONSTANTS ann, bob, gus, rex, collector, nhash, alt

MCAccount == {ann, bob, gus, rex, collector}
MCDenom == {nhash, alt}
MCPayees == <<NoOne, rex>>

Msg(type, n, d, to, bips, inner) ==
    [type |-> type, amount |-> n, denom |-> d, to |-> to, bips |-> bips, inner |-> inner]

SendMsg   == Msg("send", 1, nhash, rex, Unset, <<>>)
AssessUsd == Msg("assess", 1, Usd, rex, 5000, <<>>)
AssessOwn == Msg("assess", 3, nhash, rex, Unset, <<>>)
Settle    == Msg("settle", 1, nhash, NoOne, Unset, <<>>)
ExecMsg   == Msg("exec", 0, nhash, NoOne, Unset, <<AssessUsd, SendMsg>>)

(* The base fee is 2. *)
Pay(payer, granter, n, m, msgs) ==
    [payer |-> payer, granter |-> granter, fee |-> Plus(Coin(nhash, n), Coin(alt, m)),
     gas |-> 2, msgs |-> msgs]

(* Two of a type; a fee of no more than the base fee; calls within a       *)
(* message; fees that a handler adds.                                      *)
MCTx == {Pay(ann, NoOne, 6, 1, <<SendMsg, SendMsg>>),
         Pay(ann, NoOne, 5, 0, <<AssessUsd, AssessOwn>>),
         Pay(bob, gus, 2, 0, <<SendMsg>>),
         Pay(bob, gus, 4, 0, <<ExecMsg>>),
         Pay(bob, NoOne, 3, 2, <<Settle, Settle>>)}

MCFunds == [a \in MCAccount |->
    CASE a = ann -> Plus(Coin(nhash, 9), Coin(alt, 2))
      [] a = bob -> Plus(Coin(nhash, 4), Coin(alt, 2))
      [] a = gus -> Plus(Coin(nhash, 8), Coin(alt, 1))
      [] OTHER   -> NoCoins]

(* What both of Bob's transactions need. *)
MCGrants == [k \in {<<gus, bob>>} |-> Coin(nhash, 6)]

MCProposed == {[amount |-> 1, denom |-> nhash, recipient |-> NoOne, bips |-> Unset],
               [amount |-> 3, denom |-> nhash, recipient |-> rex, bips |-> Unset],
               [amount |-> 1, denom |-> alt, recipient |-> rex, bips |-> 10000]}
=============================================================================
