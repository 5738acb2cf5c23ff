------------------------------ MODULE Exchange ------------------------------
(***************************************************************************)
(* The exchange: orders, commitments and payments that share the bank's    *)
(* balances and the holds of x/hold.  A step is one message (or one       *)
(* governance proposal) that succeeds.                                     *)
(***************************************************************************)
EXTENDS Commitments, Payments

CONSTANTS
    User,            \* the accounts that sign messages
    InitialFunds,    \* address |-> coins at the start
    InitialFees,     \* the fee schedules that markets start with
    TransferAmounts, \* amounts of the bank's sends, and of withdrawals
    MoveAmounts,     \* amounts of TransferCommitments
    Managed,         \* the markets whose flags change
    Closable         \* the markets that governance closes

VARIABLE closed      \* markets closed by governance and not opened since

ASSUME ExchangeAssumption ==
    /\ User \subseteq Account
    /\ InitialFunds \in Ledger /\ InitialFees \subseteq FeeSchedule
    /\ TransferAmounts \subseteq Coins /\ MoveAmounts \subseteq Coins
    /\ Managed \subseteq Market /\ Closable \subseteq Market

vars == <<ledger, orderVars, commitVars, paymentVars, closed>>

Init ==
    /\ bal = InitialFunds /\ hold = NoLedger
    /\ acceptingOrders = Market /\ userSettle = Market
    /\ acceptingCommitments = Market
    /\ \E f \in InitialFees : fees = [m \in Market |-> f]
    /\ OrdersInit /\ CommitmentsInit /\ PaymentsInit
    /\ closed = {}
-----------------------------------------------------------------------------
(* As it would be if the commitments were left alone. *)
MutCommitmentsReleased(m, h) == NoLedger

(* ReleaseAllCommitmentsForMarket: per denom, like the orders. *)
CommitmentsReleased(m, h) ==
    [a \in Holder |-> [d \in Denom |-> IF commit[m][a][d] <= h[a][d] THEN commit[m][a][d] ELSE 0]]

(* CloseMarket *)
CloseMarket(m) ==
    LET r1 == ReleasedTo(m)[lastOrderID]
        h1 == ReleaseAll(hold, r1)
        r2 == CommitmentsReleased(m, h1)
    IN  /\ CanReleaseAll(hold, r1) /\ CanReleaseAll(h1, r2)
        /\ acceptingOrders' = acceptingOrders \ {m}
        /\ acceptingCommitments' = acceptingCommitments \ {m}
        /\ hold' = ReleaseAll(h1, r2)
        /\ deleteOrders(Cancelled(m))
        /\ commit' = [n \in Market |-> [a \in Holder |->
                         IF n = m /\ r2[a] = commit[n][a] THEN NoCoins ELSE commit[n][a]]]
        /\ closed' = closed \cup {m}
        /\ UNCHANGED <<bal, userSettle, fees, paymentVars>>

(* The bank's MsgSend by a user. *)
Send(from, to, amount) ==
    /\ from # to /\ amount # NoCoins
    /\ CanSend(bal, hold, from, amount)
    /\ bal' = Sent(bal, from, to, amount)
    /\ UNCHANGED <<hold, orderVars, commitVars, paymentVars, closed>>
-----------------------------------------------------------------------------
IdLists == {<<>>} \cup UNION {[1..n -> DOMAIN orders] : n \in 1..MaxSettle}

OrderStep ==
    \/ \E o \in OrderInputs, f \in CreationFees : CreateOrder(o, f)
    \/ \E id \in DOMAIN orders : CancelOrder(id)
    \/ \E id \in DOMAIN orders, x \in ExternalId \cup {NoExt} : SetOrderExternalID(id, x)
    \/ \E m \in Market, u \in User, ids \in SUBSET DOMAIN orders,
          f \in FillFees, c \in CreationFees :
            \/ FillBids(m, u, ids, f, c)
            \/ FillAsks(m, u, ids, f, c)
    \/ \E m \in Market, askIds, bidIds \in IdLists : MarketSettle(m, askIds, bidIds)
    \/ \E m \in Market, c \in FeeChanges : ManageFees(m, c)
    \/ \E m \in Market, u \in User, amount \in TransferAmounts :
            WithdrawMarketFunds(m, u, amount)
    \/ \E m \in Managed : UpdateUserSettlementAllowed(m)

CommitStep ==
    \/ \E m \in Market, u \in User, amount \in CommitAmounts, f \in CreationFees :
            CommitFunds(m, u, amount, f)
    \/ \E m \in Market, rel \in ReleaseInputs : ReleaseCommitments(m, rel)
    \/ \E m \in Market, s \in SettleInputs : SettleCommitments(m, s)
    \/ \E m, n \in Market, u \in User, amount \in MoveAmounts :
            TransferCommitments(u, m, n, amount)

PaymentStep ==
    \/ \E s \in Party, x \in PaymentId, t \in Party \cup {NoTarget}, offer \in Offers :
            CreatePayment(<<s, x>>, t, offer)
    \/ \E t \in Party, k \in DOMAIN payments : SignAccept(t, k) \/ RejectPayment(k, t)
    \/ \E t \in Party : AcceptPayment(t) \/ AcceptRefused(t)
    \/ \E t \in Party, sources \in SUBSET Party : RejectPayments(t, sources)
    \/ \E s \in Party, ids \in SUBSET PaymentId : CancelPayments(s, ids)
    \/ \E k \in DOMAIN payments, t \in Party \cup {NoTarget} : UpdatePaymentTarget(k, t)

(* Opening a closed market again takes it out of closed. *)
FlagStep ==
    \E m \in Managed :
        \/ UpdateAcceptingOrders(m) /\ UNCHANGED commitVars
        \/ \E byAuthority \in BOOLEAN : UpdateAcceptingCommitments(m, byAuthority)

Next ==
    \/ OrderStep /\ UNCHANGED <<commitVars, paymentVars, closed>>
    \/ CommitStep /\ UNCHANGED <<paymentVars, closed>>
    \/ PaymentStep /\ UNCHANGED <<orderVars, commitVars, closed>>
    \/ /\ FlagStep /\ UNCHANGED paymentVars
       /\ closed' = closed \ (acceptingOrders' \cup acceptingCommitments')
    \/ \E m \in Closable : CloseMarket(m)
    \/ \E from, to \in User, amount \in TransferAmounts : Send(from, to, amount)

Spec == Init /\ [][Next]_vars
-----------------------------------------------------------------------------
TypeOK ==
    /\ bal \in Ledger /\ hold \in Ledger
    /\ acceptingOrders \subseteq Market /\ userSettle \subseteq Market
    /\ acceptingCommitments \subseteq Market /\ closed \subseteq Market
    /\ fees \in [Market -> FeeSchedule]
    /\ lastOrderID \in Nat
    /\ DOMAIN orders \subseteq 1..lastOrderID
    /\ \A id \in DOMAIN orders : orders[id] \in Order
    /\ commit \in [Market -> Ledger]
    /\ DOMAIN payments \subseteq Party \X PaymentId
    /\ \A k \in DOMAIN payments : payments[k] \in Payment

(* What the bank holds in an account always covers the holds on it, so     *)
(* that no sequence of orders, commitments, payments, settlements and bank *)
(* sends spends coins that are on hold (HoldAccountBalancesInvariant).     *)
HoldBacked == Backed(bal, hold)

(* What the orders, commitments and payments of an account claim of it. *)
Claims(a, d) ==
    MapThenSumSet(LAMBDA id : Held(id)[d], {id \in DOMAIN orders : orders[id].owner = a})
      + MapThenSumSet(LAMBDA m : commit[m][a][d], Market)
      + MapThenSumSet(LAMBDA k : payments[k].samount[d], {k \in DOMAIN payments : k[1] = a})

(* The hold on an account is exactly what its open orders, commitments and *)
(* payments claim: releasing one never eats the hold of another, nothing   *)
(* stays on hold for a claim that is gone (01_concepts.md:152-154).        *)
HoldsMatchClaims == \A a \in Holder, d \in Denom : hold[a][d] = Claims(a, d)

(* The market, owner, asset and external-id indexes have the entries of    *)
(* the orders in the store, no more and no fewer: what setOrderInStore and *)
(* deleteAndDeIndexOrder keep up through fills, splits and id changes.     *)
OrderIndexesExact ==
    /\ \A e \in orderIdx : \E id \in DOMAIN orders : e \in IndexEntries(id, orders[id])
    /\ \A id \in DOMAIN orders : IndexEntries(id, orders[id]) \subseteq orderIdx
    /\ \A x \in DOMAIN extIdx : /\ extIdx[x] \in DOMAIN orders
                                /\ ExternalKey(orders[extIdx[x]]) = x
                                /\ orders[extIdx[x]].ext # NoExt
    /\ \A id \in DOMAIN orders : orders[id].ext # NoExt =>
          /\ ExternalKey(orders[id]) \in DOMAIN extIdx
          /\ extIdx[ExternalKey(orders[id])] = id

(* The target index, through which RejectPayments finds what to delete,    *)
(* has exactly the targets that the payments have now.                     *)
PaymentIndexExact ==
    \A t \in Party, s \in Party, x \in PaymentId :
        <<t, s, x>> \in targetIdx
           <=> <<s, x>> \in DOMAIN payments /\ payments[<<s, x>>].target = t

(* When governance has closed a market and no one has opened it again, no  *)
(* order and no commitment is left there (CloseMarket swallows the errors  *)
(* of the cancellations and releases).                                     *)
ClosedMarketEmpty ==
    \A m \in closed : /\ \A id \in DOMAIN orders : orders[id].market # m
                      /\ commit[m] = NoLedger

(* The state can be exported and loaded again: InitGenesis does not panic  *)
(* on an order id above the last one, an invalid or ambiguous order, or a  *)
(* claim without a hold, and the hold module can place the holds.          *)
GenesisLoads ==
    /\ \A id \in DOMAIN orders : id <= lastOrderID /\ ValidOrder(orders[id])
    /\ \A i, j \in DOMAIN orders : i # j /\ orders[i].ext # NoExt =>
          ExternalKey(orders[i]) # ExternalKey(orders[j])
    /\ \A a \in Holder, d \in Denom : Claims(a, d) <= hold[a][d] /\ hold[a][d] <= bal[a][d]
-----------------------------------------------------------------------------
ClaimsEnded(a) ==
    \/ \E id \in DOMAIN orders : /\ orders[id].owner = a
                                 /\ \/ id \notin DOMAIN orders'
                                    \/ orders'[id].assets < orders[id].assets
    \/ \E m \in Market : ~Covers(commit'[m][a], commit[m][a])
    \/ \E k \in DOMAIN payments \ DOMAIN payments' : k[1] = a

(* Whoever's order is filled or cancelled, whose commitment is settled or  *)
(* whose payment is accepted pays with coins on hold only: a step of       *)
(* somebody else leaves them at least the spendable coins they had.        *)
EndedClaimsCostNothing ==
    [][\A a \in User : ClaimsEnded(a) => Covers(Spendable(bal', hold', a), Spendable(bal, hold, a))]_vars

(* An order keeps its id, owner, market, kind and denominations until it   *)
(* is gone; only a partial fill makes it smaller, when it allows that, and *)
(* keeps the price per unit of assets.  Ids are never used again.          *)
OrdersKeepTheirTerms ==
    [][\A id \in DOMAIN orders' :
          IF id \notin DOMAIN orders THEN id > lastOrderID /\ id = lastOrderID'
          ELSE LET o == orders[id]
                   n == orders'[id]
               IN  /\ n = CopyChange(WithExt(o, n.ext), n.assets, n.price, n.fees)
                   /\ n.assets <= o.assets /\ n.price * o.assets = o.price * n.assets
                   /\ \A d \in Denom : n.fees[d] * o.assets = o.fees[d] * n.assets
                   /\ n.assets = o.assets \/ o.partial]_vars

(* A target that accepts a payment gives and gets what the payment said    *)
(* when they signed, whatever the source did to it in the meantime.        *)
AcceptedAsSigned ==
    [][\A t \in Party :
          signed[t] # NoMsg /\ signed'[t] = NoMsg /\ payments' # payments =>
             LET s == signed[t][1][1]
                 p == signed[t][2]
             IN  bal' = Sent(Sent(bal, s, t, p.samount), t, s, p.tamount)]_vars

(* TransferCommitments takes from one market what it gives to another: what *)
(* an account has committed changes only with the hold on it.              *)
TransferKeepsTotal ==
    [][\A a \in Holder, d \in Denom :
          hold'[a][d] = hold[a][d] =>
             MapThenSumSet(LAMBDA m : commit'[m][a][d], Market)
                = MapThenSumSet(LAMBDA m : commit[m][a][d], Market)]_vars
=============================================================================
