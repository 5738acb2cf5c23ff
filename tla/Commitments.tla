---------------------------- MODULE Commitments ----------------------------
(***************************************************************************)
(* Commitments of x/exchange (keeper/commitments.go): coins that an        *)
(* account puts on hold for a market to move.                              *)
(***************************************************************************)
EXTENDS Orders

CONSTANTS
    CastAddr,        \* account |-> the address made of the bytes of its bech32 string
    CommitAmounts,   \* amounts that users commit and markets transfer
    ReleaseInputs,   \* entries of a release: account |-> amount, none for all of it
    SettleInputs,    \* [in, out, fees] of a commitment settlement
    MaxCommitted     \* bound on what an account commits to a market

VARIABLES
    acceptingCommitments,  \* the markets that accept commitments
    commit                 \* market |-> address |-> amount; no entry is no coins

ASSUME CommitmentsAssumption ==
    /\ CastAddr \in [Account -> Holder]
    /\ CommitAmounts \subseteq Coins
    /\ \A rel \in ReleaseInputs : \A a \in DOMAIN rel : rel[a] \in Coins

commitVars == <<acceptingCommitments, commit>>

CommitmentsInit == commit = [m \in Market |-> NoLedger]

(* setCommitmentAmount, addCommitmentAmount *)
setCommitmentAmount(c, m, a, amount) ==
    [n \in Market |-> [x \in Holder |-> IF n = m /\ x = a THEN amount ELSE c[n][x]]]

addCommitmentAmount(c, m, a, amount) == setCommitmentAmount(c, m, a, Plus(c[m][a], amount))

InBound(old, amount) == \A d \in Denom : old[d] + amount[d] <= MaxCommitted

(* CommitFunds: collect the creation fee, then hold and record the funds. *)
CommitFunds(m, a, amount, fee) ==
    LET b1 == Collected(bal, m, Only(a, fee))
    IN  /\ amount # NoCoins
        /\ validateFlatFee(fees[m].createCommitment, fee)
        /\ CanCollect(bal, hold, m, Only(a, fee))
        /\ m \in acceptingCommitments /\ InBound(commit[m][a], amount)
        /\ ValidateNewHold(b1, hold, a, amount)
        /\ bal' = b1
        /\ hold' = AddHold(hold, a, amount)
        /\ commit' = addCommitmentAmount(commit, m, a, amount)
        /\ UNCHANGED <<orderVars, acceptingCommitments>>

(* What ReleaseCommitment leaves of the market's commitments. *)
Released(m, rel) ==
    [a \in Holder |-> IF a \notin DOMAIN rel THEN commit[m][a]
                      ELSE IF rel[a] = NoCoins THEN NoCoins
                      ELSE Minus(commit[m][a], rel[a])]

ToRelease(m, rel) ==
    [a \in Holder |-> IF a \notin DOMAIN rel THEN NoCoins
                      ELSE IF rel[a] = NoCoins THEN commit[m][a] ELSE rel[a]]

(* ReleaseCommitments of the market's admin. *)
ReleaseCommitments(m, rel) ==
    /\ \A a \in DOMAIN rel : commit[m][a] # NoCoins /\ Covers(commit[m][a], rel[a])
    /\ CanReleaseAll(hold, ToRelease(m, rel))
    /\ hold' = ReleaseAll(hold, ToRelease(m, rel))
    /\ commit' = [n \in Market |-> IF n = m THEN Released(m, rel) ELSE commit[n]]
    /\ UNCHANGED <<bal, orderVars, acceptingCommitments>>

(* MsgMarketCommitmentSettleRequest.Validate *)
Balanced(s) == s.in # NoLedger /\ TotalOf(s.in) = TotalOf(s.out)

InputsAndFees(s) == [a \in Holder |-> Plus(s.in[a], s.fees[a])]

(* As it would be if the outputs were held but not recorded. *)
MutRecommitted(m, s) ==
    [a \in Holder |-> Minus(commit[m][a], InputsAndFees(s)[a])]

(* What is committed to the market after a settlement. *)
Recommitted(m, s) ==
    [a \in Holder |-> Plus(Minus(commit[m][a], InputsAndFees(s)[a]), s.out[a])]

(* SettleCommitments: release inputs and fees, move the inputs to the      *)
(* outputs and the fees to the market, commit the outputs.  The transfers  *)
(* that BuildCommitmentTransfers makes of the inputs and outputs add up to *)
(* them.                                                                   *)
SettleCommitments(m, s) ==
    LET used == InputsAndFees(s)
        h1   == ReleaseAll(hold, used)
        b1   == Moved(bal, s.in, s.out)
        paid == Only(MarketAddr[m], TotalOf(s.fees))
        b2   == Moved(b1, s.fees, paid)
    IN  /\ Balanced(s)
        /\ \A a \in Holder : Covers(commit[m][a], used[a])
        /\ CanReleaseAll(hold, used)
        /\ CanMove(bal, h1, s.in, s.out)
        /\ CanMove(b1, h1, s.fees, paid)
        /\ \A a \in Holder : ValidateNewHold(b2, h1, a, s.out[a])
        /\ bal' = b2
        /\ hold' = [a \in Holder |-> Plus(h1[a], s.out[a])]
        /\ commit' = [n \in Market |-> IF n = m THEN Recommitted(m, s) ELSE commit[n]]
        /\ UNCHANGED <<orderVars, acceptingCommitments>>

(* TransferCommitments writes what is left in the current market under     *)
(* sdk.AccAddress(req.Account), the bytes of the bech32 string, and not    *)
(* under the account's address (keeper/commitments.go:442).                *)
TransferCommitments(a, current, new, amount) ==
    LET left == Minus(commit[current][a], amount)
        c1   == setCommitmentAmount(commit, current, CastAddr[a], left)
    IN  /\ current # new /\ amount # NoCoins
        /\ new \in acceptingCommitments
        /\ commit[current][a] # NoCoins /\ Covers(commit[current][a], amount)
        /\ InBound(commit[new][a], amount)
        /\ commit' = addCommitmentAmount(c1, new, a, amount)
        /\ UNCHANGED <<ledger, orderVars, acceptingCommitments>>

(* MarketUpdateAcceptingCommitments: an admin who is not the authority may *)
(* only turn it on when the market has a commitment fee.                   *)
UpdateAcceptingCommitments(m, byAuthority) ==
    /\ \/ byAuthority
       \/ m \in acceptingCommitments
       \/ fees[m].bips > 0 \/ fees[m].createCommitment # NoCoins
    /\ acceptingCommitments' = IF m \in acceptingCommitments THEN acceptingCommitments \ {m}
                               ELSE acceptingCommitments \cup {m}
    /\ UNCHANGED <<ledger, orderVars, commit>>
=============================================================================
