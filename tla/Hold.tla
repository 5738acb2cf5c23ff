-------------------------------- MODULE Hold --------------------------------
(***************************************************************************)
(* x/hold and the part of the bank that it plugs into.  Coins on hold stay *)
(* in the account and are left out of what the bank lets it spend.         *)
(* Vesting accounts, whose coins the bank also locks, are not modelled.    *)
(***************************************************************************)
EXTENDS Coins, FiniteSetsExt

CONSTANT Holder      \* every address that holds coins

VARIABLES
    bal,             \* bank balances
    hold             \* amounts on hold (the store of x/hold)

ledger == <<bal, hold>>

Ledger == [Holder -> Coins]

NoLedger == [a \in Holder |-> NoCoins]

Only(a, c) == [x \in Holder |-> IF x = a THEN c ELSE NoCoins]

(* SpendableCoins with the hold keeper's GetLockedCoins taken away. *)
Spendable(b, h, a) == Minus(b[a], h[a])

(* As it would be if coins already on hold were counted again. *)
MutValidateNewHold(b, h, a, funds) == Covers(b[a], funds)

(* ValidateNewHold and AddHold *)
ValidateNewHold(b, h, a, funds) == Covers(Spendable(b, h, a), funds)

AddHold(h, a, funds) == [x \in Holder |-> IF x = a THEN Plus(h[x], funds) ELSE h[x]]

(* ReleaseHold: setHoldCoinAmount refuses to go below zero. *)
CanRelease(h, a, funds) == Covers(h[a], funds)

ReleaseHold(h, a, funds) == [x \in Holder |-> IF x = a THEN Minus(h[x], funds) ELSE h[x]]

(* ReleaseHold for several accounts at once, amounts per account in rel. *)
CanReleaseAll(h, rel) == rel \in Ledger /\ \A a \in Holder : CanRelease(h, a, rel[a])

ReleaseAll(h, rel) == [a \in Holder |-> Minus(h[a], rel[a])]

(* The bank's SendCoins and InputOutputCoinsProv: every input is taken     *)
(* from spendable coins before the outputs are added.                      *)
CanMove(b, h, in, out) ==
    /\ in \in Ledger /\ out \in Ledger
    /\ \A a \in Holder : Covers(Spendable(b, h, a), in[a])

Moved(b, in, out) == [a \in Holder |-> Plus(Minus(b[a], in[a]), out[a])]

CanSend(b, h, from, funds) == funds \in Coins /\ Covers(Spendable(b, h, from), funds)

Sent(b, from, to, funds) == Moved(b, Only(from, funds), Only(to, funds))

(* The coins that the accounts of a ledger have together. *)
TotalOf(l) == [d \in Denom |-> MapThenSumSet(LAMBDA a : l[a][d], Holder)]

(* HoldAccountBalancesInvariant (x/hold/keeper/invariants.go): the bank    *)
(* balance of every account covers what is on hold there.                  *)
Backed(b, h) == \A a \in Holder : Covers(b[a], h[a])
=============================================================================
