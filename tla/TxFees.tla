------------------------------- MODULE TxFees -------------------------------
(***************************************************************************)
(* The fees of a transaction from the mempool to its end: the ante handler *)
(* (internal/antewrapper) checks them and takes the base fee, the message  *)
(* router (internal/handlers) runs up the fees of every message, and the   *)
(* fee handler charges what is left when all messages have gone through.   *)
(* When one fails, only what the ante handler did stays.  Governance       *)
(* changes the schedule (MsgFees) between transactions.                    *)
(***************************************************************************)
EXTENDS MsgFees

CONSTANTS Tx,            \* [payer, granter, fee, gas, msgs]
          FloorDenom, FloorPrice,
          InitialFunds, InitialGrants,
          FeeTypes, ProposedFees, ProposedRates, ProposedDenoms,
          Idle

VARIABLES bal,
          grants,        \* <<granter, grantee>> -> what may still be spent
          pool,          \* the mempool
          exec,          \* the transaction that is being delivered
          finished,      \* transaction -> how it ended
          stale          \* history: in the mempool since before the last change of the schedule

chain == <<bal, grants, pool, exec, finished, stale>>

vars == <<feeVars, chain>>
-----------------------------------------------------------------------------
(* The ante handler. *)

(* CalculateBaseFee *)
CalculateBaseFee(tx) == Coin(FloorDenom, FloorPrice * tx.gas)

EnsureSufficientFloorAndMsgFees(tx, additional) ==
    Covers(tx.fee, Plus(CalculateBaseFee(tx), additional))

UsesGrant(tx) == tx.granter \notin {NoOne, tx.payer}

DeductFeesFrom(tx) == IF UsesGrant(tx) THEN tx.granter ELSE tx.payer

GrantKey(tx) == <<tx.granter, tx.payer>>

(* UseGrantedFees of the fee grant module, with a basic allowance: code    *)
(* outside src/.  An allowance with nothing left is removed.               *)
CanUseGrantedFees(tx, fee) ==
    UsesGrant(tx) => GrantKey(tx) \in DOMAIN grants /\ Covers(grants[GrantKey(tx)], fee)

GrantsAfter(tx, fee) ==
    IF ~UsesGrant(tx) THEN grants
    ELSE IF grants[GrantKey(tx)] = fee THEN Del(grants, GrantKey(tx))
         ELSE Put(grants, GrantKey(tx), Minus(grants[GrantKey(tx)], fee))

(* When checkDeductBaseFee returns no error. *)
CanDeductBaseFee(tx) ==
    /\ CanCalculate(tx.msgs)
    /\ CanUseGrantedFees(tx, CalculateBaseFee(tx))
    /\ Covers(bal[DeductFeesFrom(tx)], CalculateAdditionalFeesToBePaid(tx.msgs).total)
    /\ Covers(bal[DeductFeesFrom(tx)], CalculateBaseFee(tx))

(* As it would be if the mempool asked for the base fee only. *)
MutPassesCheck(tx) == EnsureSufficientFloorAndMsgFees(tx, NoCoins) /\ CanDeductBaseFee(tx)

(* The decorators on the mempool's side. *)
PassesCheck(tx) ==
    /\ CanCalculate(tx.msgs)
    /\ EnsureSufficientFloorAndMsgFees(tx, CalculateAdditionalFeesToBePaid(tx.msgs).total)
    /\ CanDeductBaseFee(tx)

CheckTx(tx) ==
    /\ exec = Idle /\ tx \notin pool \cup DOMAIN finished
    /\ PassesCheck(tx)
    /\ pool' = pool \cup {tx}
    /\ stale' = stale \ {tx}
    /\ UNCHANGED <<feeVars, bal, grants, exec, finished>>

(* A check after a block: what no longer passes leaves the mempool. *)
RecheckTx(tx) ==
    /\ exec = Idle /\ tx \in pool /\ ~PassesCheck(tx)
    /\ pool' = pool \ {tx}
    /\ UNCHANGED <<feeVars, bal, grants, exec, finished, stale>>

Item(m, nested) == [msg |-> m, nested |-> nested]

(* The items of a list of messages. *)
Items(msgs, nested) == [i \in DOMAIN msgs |-> Item(msgs[i], nested)]

(* ProvenanceDeductFeeDecorator, in a block: the base fee goes to the fee  *)
(* collector.                                                              *)
BeginTx(tx) ==
    /\ exec = Idle /\ tx \in pool
    /\ pool' = pool \ {tx}
    /\ CanDeductBaseFee(tx)
    /\ LET base == CalculateBaseFee(tx)
           paid == SendCoins(bal, DeductFeesFrom(tx), FeeCollector, base)
           used == GrantsAfter(tx, base)
       IN  /\ bal' = paid /\ grants' = used
           /\ exec' = [tx |-> tx, todo |-> Items(tx.msgs, FALSE), usedFees |-> EmptyStore,
                       baseFeeCharged |-> base, kept |-> [bal |-> paid, grants |-> used],
                       start |-> [bal |-> bal, grants |-> grants], ran |-> <<>>]
    /\ UNCHANGED <<feeVars, finished, stale>>

RefuseTx(tx) ==
    /\ exec = Idle /\ tx \in pool /\ ~CanDeductBaseFee(tx)
    /\ pool' = pool \ {tx}
    /\ UNCHANGED <<feeVars, bal, grants, exec, finished, stale>>
-----------------------------------------------------------------------------
(* The messages. *)

UsedFor(used, key) == IF key \in DOMAIN used THEN used[key] ELSE NoCoins

(* As it would be if a second fee of a type replaced the first. *)
MutConsumeFee(used, coins, type, recipient) ==
    IF coins = NoCoins THEN used ELSE Put(used, <<type, recipient>>, coins)

(* FeeGasMeter.ConsumeFee *)
ConsumeFee(used, coins, type, recipient) ==
    IF coins = NoCoins THEN used
    ELSE Put(used, <<type, recipient>>, Plus(UsedFor(used, <<type, recipient>>), coins))

(* FeeConsumedDistributions, and FeeConsumed, its sum. *)
FeeConsumedDistributions(used) ==
    [p \in Payee |-> [d \in Denom |->
        MapThenSumSet(LAMBDA key : used[key][d], {key \in DOMAIN used : key[2] = p})]]

FeeConsumed(used) == SentCoins(FeeConsumedDistributions(used))

(* consumeMsgFees: when it returns no error, and what it leaves used. *)
CanConsume(m) ==
    /\ CanCalculate(<<m>>)
    /\ LET dist == CalculateAdditionalFeesToBePaid(<<m>>)
       IN  dist.total # NoCoins =>
              EnsureSufficientFloorAndMsgFees(exec.tx, Plus(FeeConsumed(exec.usedFees), dist.total))

Consumed(m) ==
    LET dist == CalculateAdditionalFeesToBePaid(<<m>>)
    IN  FoldLeft(LAMBDA used, p : ConsumeFee(used, dist.to[p], m.type, p), exec.usedFees, PayeeOrder)

(* ConsumeMsgFee, as the exchange uses it while it handles a message of    *)
(* its own: no one looks whether the transaction offers that much.         *)
HandlerFee(used, m) ==
    IF m.type # "settle" THEN used ELSE ConsumeFee(used, Coin(m.denom, m.amount), m.type, NoOne)

(* What the handlers do that fees depend on: a transfer of the payer's     *)
(* coins.  Code of other modules.                                          *)
CanHandle(m) == m.type = "send" => bal[exec.tx.payer][m.denom] >= m.amount

Handled(m) ==
    IF m.type = "send" THEN SendCoins(bal, exec.tx.payer, m.to, Coin(m.denom, m.amount)) ELSE bal

(* The route of a message that goes through.  Messages it carries (an      *)
(* authorized execution, a contract's calls) take the same route.          *)
RunMessage ==
    /\ exec # Idle /\ exec.todo # <<>>
    /\ LET m == Head(exec.todo).msg
       IN  /\ CanConsume(m) /\ CanHandle(m)
           /\ bal' = Handled(m)
           /\ exec' = [exec EXCEPT !.todo = Items(m.inner, TRUE) \o Tail(@),
                                   !.usedFees = HandlerFee(Consumed(m), m),
                                   !.ran = Append(@, <<m, TRUE>>)]
    /\ UNCHANGED <<feeVars, grants, pool, finished, stale>>

(* A contract goes on after a call that failed: what the call did is       *)
(* undone, but not the fees that were already used for it.                 *)
CatchFailure ==
    /\ exec # Idle /\ exec.todo # <<>> /\ Head(exec.todo).nested
    /\ LET m == Head(exec.todo).msg
       IN  exec' = IF ~CanConsume(m) THEN [exec EXCEPT !.todo = Tail(@)]
                   ELSE [exec EXCEPT !.todo = Tail(@), !.usedFees = Consumed(m),
                                     !.ran = Append(@, <<m, FALSE>>)]
    /\ UNCHANGED <<feeVars, bal, grants, pool, finished, stale>>

(* How a transaction that fails ends: what was there after the ante        *)
(* handler stays (the SDK's cached store, code outside src/).              *)
Fail ==
    /\ bal' = exec.kept.bal /\ grants' = exec.kept.grants
    /\ finished' = Put(finished, exec.tx, "failed")
    /\ exec' = Idle
    /\ UNCHANGED <<feeVars, pool, stale>>

(* A message fails, for its fees or for reasons of its own. *)
MessageFails == exec # Idle /\ exec.todo # <<>> /\ Fail
-----------------------------------------------------------------------------
(* The fee handler. *)

UnchargedFees == Minus(exec.tx.fee, exec.baseFeeCharged)

Deducted == DeductFeesDistributions(bal, DeductFeesFrom(exec.tx), UnchargedFees,
                                    FeeConsumedDistributions(exec.usedFees))

CanInvoke == CanUseGrantedFees(exec.tx, UnchargedFees) /\ Deducted.ok

(* MsgFeeInvoker.Invoke *)
Invoke ==
    /\ exec # Idle /\ exec.todo = <<>> /\ CanInvoke
    /\ bal' = Deducted.bal
    /\ grants' = GrantsAfter(exec.tx, UnchargedFees)
    /\ finished' = Put(finished, exec.tx, "ok")
    /\ exec' = Idle
    /\ UNCHANGED <<feeVars, pool, stale>>

InvokeFails == exec # Idle /\ exec.todo = <<>> /\ ~CanInvoke /\ Fail
-----------------------------------------------------------------------------
(* A passed proposal.  Its messages carry no fee: they have no fee meter. *)
ProposalPasses ==
    /\ exec = Idle
    /\ \/ \E t \in FeeTypes, f \in ProposedFees : AddMsgFee(t, f) \/ UpdateMsgFee(t, f)
       \/ \E t \in FeeTypes : RemoveMsgFee(t)
       \/ \E n \in ProposedRates : UpdateNhashPerUsdMilParam(n)
       \/ \E d \in ProposedDenoms : UpdateConversionFeeDenomParam(d)
    /\ stale' = pool
    /\ UNCHANGED <<bal, grants, pool, exec, finished>>

(* The fee grant module's message: code outside src/. *)
RevokeAllowance ==
    /\ exec = Idle
    /\ \E k \in DOMAIN grants : grants' = Del(grants, k)
    /\ UNCHANGED <<feeVars, bal, pool, exec, finished, stale>>

Init ==
    /\ msgFees = EmptyStore
    /\ nhashPerUsdMil \in ProposedRates /\ conversionFeeDenom \in ProposedDenoms
    /\ bal = InitialFunds /\ grants = InitialGrants
    /\ pool = {} /\ exec = Idle /\ finished = EmptyStore /\ stale = {}

Next ==
    \/ \E tx \in Tx : CheckTx(tx) \/ RecheckTx(tx) \/ BeginTx(tx) \/ RefuseTx(tx)
    \/ RunMessage \/ CatchFailure \/ MessageFails \/ Invoke \/ InvokeFails
    \/ ProposalPasses \/ RevokeAllowance

Spec == Init /\ [][Next]_vars
-----------------------------------------------------------------------------
(* Properties. *)

Ends(how) == exec # Idle /\ exec' = Idle /\ finished'[exec.tx] = how

(* What p gets for a message: the splits of the listed and of the assessed *)
(* fee, each rounded down.                                                 *)
ShareOf(p, m) ==
    LET listed == m.type \in DOMAIN msgFees /\ msgFees[m.type].recipient = p
        f      == msgFees[m.type]
    IN  Plus(IF listed THEN Coin(f.denom, (f.amount * f.bips) \div 10000) ELSE NoCoins,
             IF m.type = "assess" /\ m.to = p
             THEN Coin(conversionFeeDenom, (Converted(m.amount, m.denom) * GetBips(m)) \div 10000)
             ELSE NoCoins)

SharesOf(p) == FoldLeft(LAMBDA sum, r : Plus(sum, ShareOf(p, r[1])), NoCoins, exec.ran)

(* The least the fee collector is owed: all that was used but the shares.  *)
OwedFor(r) ==
    LET m == r[1]
        f == msgFees[m.type]
    IN  Plus(Plus(IF m.type \in DOMAIN msgFees THEN Coin(f.denom, f.amount) ELSE NoCoins,
                  IF m.type = "assess" THEN Coin(conversionFeeDenom, Converted(m.amount, m.denom))
                  ELSE NoCoins),
             IF m.type = "settle" /\ r[2] THEN Coin(m.denom, m.amount) ELSE NoCoins)

Owed == FoldLeft(LAMBDA sum, r : Plus(sum, OwedFor(r)), NoCoins, exec.ran)

GrantLeft(g, tx) == IF GrantKey(tx) \in DOMAIN g THEN g[GrantKey(tx)] ELSE NoCoins

(* A transaction that goes through costs the account that pays for it      *)
(* exactly the fee it offers, less what comes back to it as a share, and   *)
(* its allowance the whole fee; one that fails costs both the base fee and *)
(* nothing else, and leaves every other account as it was                  *)
(* (checkDeductBaseFee, MsgFeeInvoker.Invoke).                             *)
ChargedStep ==
    LET tx    == exec.tx
        payer == DeductFeesFrom(tx)
        base  == Coin(FloorDenom, FloorPrice * tx.gas)
        took(fee) == UsesGrant(tx) =>
            GrantLeft(grants', tx) = Minus(GrantLeft(exec.start.grants, tx), fee)
    IN  /\ Ends("ok") => /\ Plus(bal'[payer], Minus(tx.fee, base)) = Plus(bal[payer], SharesOf(payer))
                         /\ took(tx.fee)
        /\ Ends("failed") => /\ bal' = SendCoins(exec.start.bal, payer, FeeCollector, base)
                             /\ took(base)
                             /\ Covers(tx.fee, base)

ChargedAsOffered == [][ChargedStep]_vars

(* When a transaction goes through, every recipient has got its share of   *)
(* each message that ran, of calls within messages and of calls that       *)
(* failed after they were charged, and the fee collector at least all the  *)
(* rest of the fees used (FeeGasMeter, DeductFeesDistributions).           *)
SharesStep ==
    Ends("ok") =>
       /\ \A p \in Account \ {FeeCollector, DeductFeesFrom(exec.tx)} :
             bal'[p] = Plus(bal[p], SharesOf(p))
       /\ LET shares == FoldLeft(LAMBDA sum, p : IF p = NoOne THEN sum ELSE Plus(sum, SharesOf(p)),
                                 NoCoins, PayeeOrder)
          IN  Covers(bal'[FeeCollector], Plus(bal[FeeCollector], Minus(Owed, shares)))

SharesPaid == [][SharesStep]_vars

Plain(tx) == \A i \in DOMAIN tx.msgs : tx.msgs[i].type \notin {"exec", "settle"}

(* What the mempool let in is not refused for its fees later: as long as   *)
(* the schedule is the one it was checked against and none of its messages *)
(* brings fees that are not seen in advance, every message may use its     *)
(* fees, and at the end the fee handler charges the rest if the payer      *)
(* still has it and the allowance is still there                           *)
(* (EnsureSufficientFloorAndMsgFees in CheckTx and in consumeMsgFees).     *)
AdmittedNotRefused ==
    exec # Idle /\ Plain(exec.tx) /\ exec.tx \notin stale =>
       IF exec.todo # <<>> THEN CanConsume(Head(exec.todo).msg)
       ELSE LET rest == Minus(exec.tx.fee, exec.baseFeeCharged)
            IN  /\ Covers(bal[DeductFeesFrom(exec.tx)], rest)
                /\ UsesGrant(exec.tx) => /\ GrantKey(exec.tx) \in DOMAIN grants
                                         /\ Covers(grants[GrantKey(exec.tx)], rest)
                => CanInvoke
=============================================================================
