------------------------------ MODULE Payments ------------------------------
(***************************************************************************)
(* Payments of x/exchange (keeper/payments.go): an offer of a source to    *)
(* give and to be given coins, which its target accepts or rejects.        *)
(***************************************************************************)
EXTENDS Hold, KVStore

CONSTANTS
    Party,           \* the accounts that make and accept payments
    PaymentId,       \* external ids of payments
    NoTarget,        \* a payment without a target
    NoMsg,           \* no acceptance under way
    Offers           \* <<source amount, target amount>> of the payments tried

VARIABLES
    payments,        \* <<source, external id>> |-> payment
    targetIdx,       \* the target-to-payment entries <<target, source, external id>>
    signed           \* target |-> the acceptance it signed that is not in a block yet

ASSUME PaymentsAssumption ==
    /\ Party \subseteq Holder /\ NoTarget \notin Party
    /\ Offers \subseteq Coins \X Coins

paymentVars == <<payments, targetIdx, signed>>

Payment == [target : Party \cup {NoTarget}, samount : Coins, tamount : Coins]

PaymentsInit ==
    payments = EmptyStore /\ targetIdx = {} /\ signed = [t \in Party |-> NoMsg]

IndexOf(target, k) == IF target = NoTarget THEN {} ELSE {<<target, k[1], k[2]>>}

(* As it would be if the entry of the old target stayed. *)
MutReindex(k, target) == targetIdx \cup IndexOf(target, k)

(* setPaymentInStore keeps the index in step with the target. *)
Reindex(k, target) ==
    (targetIdx \ (IF k \in DOMAIN payments THEN IndexOf(payments[k].target, k) ELSE {}))
       \cup IndexOf(target, k)

(* deletePaymentsAndReleaseHolds: the amounts per source *)
SourceAmounts(keys) ==
    [a \in Holder |-> [d \in Denom |->
        MapThenSumSet(LAMBDA k : payments[k].samount[d], {k \in keys : k[1] = a})]]

deletePaymentsAndReleaseHolds(keys) ==
    /\ CanReleaseAll(hold, SourceAmounts(keys))
    /\ hold' = ReleaseAll(hold, SourceAmounts(keys))
    /\ payments' = [k \in DOMAIN payments \ keys |-> payments[k]]
    /\ targetIdx' = targetIdx \ UNION {IndexOf(payments[k].target, k) : k \in keys}
    /\ UNCHANGED <<bal, signed>>

(* CreatePayment *)
CreatePayment(k, target, offer) ==
    LET p == [target |-> target, samount |-> offer[1], tamount |-> offer[2]]
    IN  /\ offer # <<NoCoins, NoCoins>>
        /\ k \notin DOMAIN payments
        /\ ValidateNewHold(bal, hold, k[1], offer[1])
        /\ hold' = AddHold(hold, k[1], offer[1])
        /\ targetIdx' = Reindex(k, target)
        /\ payments' = Put(payments, k, p)
        /\ UNCHANGED <<bal, signed>>

(* The target signs an acceptance of the payment as it is now.  Messages   *)
(* of others may come first, so it is delivered to a later state.          *)
SignAccept(t, k) ==
    /\ payments[k].target = t /\ signed[t] = NoMsg
    /\ signed' = [x \in Party |-> IF x = t THEN <<k, payments[k]>> ELSE signed[x]]
    /\ UNCHANGED <<ledger, payments, targetIdx>>

(* As it would be if the target's amount were not compared. *)
MutMatches(p, existing) == p.target = existing.target /\ p.samount = existing.samount

(* AcceptPayment compares the message's copy of the payment with the store. *)
Matches(p, existing) == /\ p.target = existing.target
                        /\ p.samount = existing.samount /\ p.tamount = existing.tamount

CanAccept(t) ==
    LET k      == signed[t][1]
        p      == payments[k]
        source == k[1]
        h1     == ReleaseHold(hold, source, p.samount)
        b1     == Sent(bal, source, p.target, p.samount)
    IN  /\ k \in DOMAIN payments /\ p.target # NoTarget
        /\ Matches(signed[t][2], p)
        /\ CanRelease(hold, source, p.samount)
        /\ CanSend(bal, h1, source, p.samount)
        /\ CanSend(b1, h1, p.target, p.tamount)

AcceptPayment(t) ==
    LET k == signed[t][1]
        p == payments[k]
    IN  /\ signed[t] # NoMsg
        /\ CanAccept(t)
        /\ hold' = ReleaseHold(hold, k[1], p.samount)
        /\ bal' = Sent(Sent(bal, k[1], p.target, p.samount), p.target, k[1], p.tamount)
        /\ payments' = Del(payments, k)
        /\ targetIdx' = targetIdx \ IndexOf(p.target, k)
        /\ signed' = [x \in Party |-> IF x = t THEN NoMsg ELSE signed[x]]

(* The message is refused, and leaves no trace. *)
AcceptRefused(t) ==
    /\ signed[t] # NoMsg /\ ~CanAccept(t)
    /\ signed' = [x \in Party |-> IF x = t THEN NoMsg ELSE signed[x]]
    /\ UNCHANGED <<ledger, payments, targetIdx>>

(* RejectPayment: by the target. *)
RejectPayment(k, target) ==
    /\ payments[k].target = target
    /\ deletePaymentsAndReleaseHolds({k})

(* RejectPayments finds a source's payments through the index. *)
PaymentsFrom(target, source) ==
    {k \in DOMAIN payments : k[1] = source /\ <<target, k[1], k[2]>> \in targetIdx}

RejectPayments(target, sources) ==
    /\ sources # {} /\ \A s \in sources : PaymentsFrom(target, s) # {}
    /\ deletePaymentsAndReleaseHolds(UNION {PaymentsFrom(target, s) : s \in sources})

(* CancelPayments: by the source. *)
CancelPayments(source, ids) ==
    /\ ids # {} /\ \A x \in ids : <<source, x>> \in DOMAIN payments
    /\ deletePaymentsAndReleaseHolds({<<source, x>> : x \in ids})

(* UpdatePaymentTarget: by the source, to another target or to none. *)
UpdatePaymentTarget(k, target) ==
    LET p == payments[k]
    IN  /\ p.target # target
        /\ payments' = Put(payments, k, [target |-> target, samount |-> p.samount,
                                         tamount |-> p.tamount])
        /\ targetIdx' = Reindex(k, target)
        /\ UNCHANGED <<ledger, signed>>
=============================================================================
