------------------------------ MODULE MsgFees ------------------------------
(***************************************************************************)
(* x/msgfees: the schedule of additional fees per type of message, which   *)
(* governance changes, what a message costs under it, and how the fees a   *)
(* transaction has run up are handed out.                                  *)
(***************************************************************************)
EXTENDS Coins, KVStore, SequencesExt

CONSTANTS Account, FeeCollector, NoOne,
          PayeeOrder,        \* NoOne, then the recipients, as their addresses sort
          Usd, Unset

VARIABLES msgFees,             \* type of message -> [amount, denom, recipient, bips]
          nhashPerUsdMil, conversionFeeDenom

feeVars == <<msgFees, nhashPerUsdMil, conversionFeeDenom>>

Payee == Account \cup {NoOne}        \* NoOne stands for the fee collector

MaxBips == 10000
DefaultMsgFeeBips == 5000
-----------------------------------------------------------------------------
(* What messages cost. *)

(* SplitCoinByBips: the recipient's part of n, rounded down. *)
SplitCoinByBips(n, bips) == (n * bips) \div MaxBips

(* MsgFeesDistribution.  The module's part is under NoOne. *)
NoFees == [total |-> NoCoins, to |-> [p \in Payee |-> NoCoins]]

(* Increase: n of denomination d, of which the recipient gets its part. *)
Increase(dist, n, d, bips, recipient) ==
    LET part    == IF recipient = NoOne THEN 0 ELSE SplitCoinByBips(n, bips)
        gets(p) == CASE p = NoOne     -> n - part
                     [] p = recipient -> part
                     [] OTHER         -> 0
    IN  [total |-> Plus(dist.total, Coin(d, n)),
         to    |-> [p \in Payee |-> Plus(dist.to[p], Coin(d, gets(p)))]]

(* ConvertDenomToHash, and when it returns no error. *)
CanConvert(d) == d \in {Usd, conversionFeeDenom}

Converted(n, d) == IF d = Usd THEN n * nhashPerUsdMil ELSE n

(* MsgAssessCustomMsgFeeRequest.GetBips *)
GetBips(m) == IF m.bips = Unset THEN MaxBips ELSE m.bips

(* One round of CalculateAdditionalFeesToBePaid: the fee its type has in   *)
(* the schedule, and for an assessment also the amount assessed.           *)
WithFeesOf(dist, m) ==
    LET listed == IF m.type \notin DOMAIN msgFees THEN dist
                  ELSE LET f == msgFees[m.type]
                       IN  Increase(dist, f.amount, f.denom, f.bips, f.recipient)
    IN  IF m.type # "assess" THEN listed
        ELSE Increase(listed, Converted(m.amount, m.denom), conversionFeeDenom, GetBips(m), m.to)

CanCalculate(msgs) == \A i \in DOMAIN msgs : msgs[i].type = "assess" => CanConvert(msgs[i].denom)

CalculateAdditionalFeesToBePaid(msgs) == FoldLeft(WithFeesOf, NoFees, msgs)
-----------------------------------------------------------------------------
(* Handing out. *)

(* The bank's SendCoins: code outside src/. *)
SendCoins(bal, from, to, coins) ==
    LET taken == [bal EXCEPT ![from] = Minus(@, coins)]
    IN  [taken EXCEPT ![to] = Plus(@, coins)]

(* A send of several in a row: the first that fails ends them. *)
SendOn(run, from, to, coins) ==
    IF run.ok /\ Covers(run.bal[from], coins)
    THEN [ok |-> TRUE, bal |-> SendCoins(run.bal, from, to, coins)]
    ELSE [ok |-> FALSE, bal |-> run.bal]

PayeeAddr(p) == IF p = NoOne THEN FeeCollector ELSE p

SentCoins(fees) == FoldLeft(LAMBDA sum, p : Plus(sum, fees[p]), NoCoins, PayeeOrder)

(* As it would be if what no payee is due were not swept up. *)
MutDeductFeesDistributions(bal, acc, remainingFees, fees) ==
    IF Covers(remainingFees, SentCoins(fees))
    THEN FoldLeft(LAMBDA run, p : SendOn(run, acc, PayeeAddr(p), fees[p]),
                  [ok |-> TRUE, bal |-> bal], PayeeOrder)
    ELSE [ok |-> FALSE, bal |-> bal]

(* DeductFeesDistributions: every payee in order, then the rest of the     *)
(* remaining fees to the fee collector.                                    *)
DeductFeesDistributions(bal, acc, remainingFees, fees) ==
    LET paid == FoldLeft(LAMBDA run, p : SendOn(run, acc, PayeeAddr(p), fees[p]),
                         [ok |-> TRUE, bal |-> bal], PayeeOrder)
    IN  IF Covers(remainingFees, SentCoins(fees))
        THEN SendOn(paid, acc, FeeCollector, Minus(remainingFees, SentCoins(fees)))
        ELSE [ok |-> FALSE, bal |-> bal]
-----------------------------------------------------------------------------
(* Governance. *)

(* DetermineBips *)
DetermineBips(recipient, bips) ==
    IF recipient = NoOne THEN 0 ELSE IF bips = Unset THEN DefaultMsgFeeBips ELSE bips

(* SetMsgFee with what a proposal asks for. *)
SetMsgFee(type, f) ==
    /\ msgFees' = Put(msgFees, type, [amount |-> f.amount, denom |-> f.denom,
                                      recipient |-> f.recipient,
                                      bips |-> DetermineBips(f.recipient, f.bips)])
    /\ UNCHANGED <<nhashPerUsdMil, conversionFeeDenom>>

AddMsgFee(type, f) == type \notin DOMAIN msgFees /\ SetMsgFee(type, f)

UpdateMsgFee(type, f) == type \in DOMAIN msgFees /\ SetMsgFee(type, f)

RemoveMsgFee(type) ==
    /\ type \in DOMAIN msgFees
    /\ msgFees' = Del(msgFees, type)
    /\ UNCHANGED <<nhashPerUsdMil, conversionFeeDenom>>

UpdateNhashPerUsdMilParam(n) ==
    /\ nhashPerUsdMil' = n
    /\ UNCHANGED <<msgFees, conversionFeeDenom>>

UpdateConversionFeeDenomParam(d) ==
    /\ conversionFeeDenom' = d
    /\ UNCHANGED <<msgFees, nhashPerUsdMil>>
=============================================================================
