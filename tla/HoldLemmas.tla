----------------------------- MODULE HoldLemmas -----------------------------
(***************************************************************************)
(* What the operations on balances and holds preserve: amounts stay        *)
(* natural numbers and every balance goes on covering the hold on it.      *)
(***************************************************************************)
EXTENDS Hold, TLAPS

(* A ledger with coins in one account is a ledger. *)
LEMMA OnlyType ==
    ASSUME NEW a, NEW c \in Coins
    PROVE  Only(a, c) \in Ledger
BY DEF Only, Ledger, Coins, NoCoins

(* Money that moves out of spendable coins (InputOutputCoinsProv) leaves   *)
(* the holds covered.                                                      *)
LEMMA MovedBacked ==
    ASSUME NEW b \in Ledger, NEW h \in Ledger, NEW in, NEW out,
           Backed(b, h), CanMove(b, h, in, out)
    PROVE  Moved(b, in, out) \in Ledger /\ Backed(Moved(b, in, out), h)
<1>1. in \in Ledger /\ out \in Ledger
  BY DEF CanMove
<1>2. ASSUME NEW a \in Holder, NEW d \in Denom
      PROVE  /\ Moved(b, in, out)[a][d] \in Nat
             /\ h[a][d] <= Moved(b, in, out)[a][d]
  <2>1. /\ b[a][d] \in Nat /\ h[a][d] \in Nat
        /\ in[a][d] \in Nat /\ out[a][d] \in Nat
    BY <1>1 DEF Ledger, Coins
  <2>2. in[a][d] <= b[a][d] - h[a][d]
    BY DEF CanMove, Covers, Spendable, Minus
  <2>3. Moved(b, in, out)[a][d] = b[a][d] - in[a][d] + out[a][d]
    BY DEF Moved, Plus, Minus
  <2> QED BY <2>1, <2>2, <2>3
<1>3. Moved(b, in, out) = [a \in Holder |-> [d \in Denom |-> Moved(b, in, out)[a][d]]]
  BY DEF Moved, Plus
<1>4. Moved(b, in, out) \in Ledger
  BY <1>2, <1>3 DEF Ledger, Coins
<1> QED BY <1>2, <1>4 DEF Backed, Covers

(* The same for SendCoins. *)
LEMMA SentBacked ==
    ASSUME NEW b \in Ledger, NEW h \in Ledger, NEW from, NEW to, NEW funds,
           Backed(b, h), CanSend(b, h, from, funds)
    PROVE  Sent(b, from, to, funds) \in Ledger /\ Backed(Sent(b, from, to, funds), h)
<1>1. Only(from, funds) \in Ledger /\ Only(to, funds) \in Ledger
  BY OnlyType DEF CanSend
<1>2. ASSUME NEW a \in Holder
      PROVE  Covers(Spendable(b, h, a), Only(from, funds)[a])
  <2>1. CASE a = from
    BY <2>1 DEF CanSend, Only
  <2>2. CASE a # from
    <3>1. Only(from, funds)[a] = NoCoins
      BY <2>2 DEF Only
    <3>2. ASSUME NEW d \in Denom PROVE NoCoins[d] <= Spendable(b, h, a)[d]
      <4>1. b[a][d] \in Nat /\ h[a][d] \in Nat /\ h[a][d] <= b[a][d]
        BY DEF Ledger, Coins, Backed, Covers
      <4> QED BY <4>1 DEF NoCoins, Spendable, Minus
    <3> QED BY <3>1, <3>2 DEF Covers
  <2> QED BY <2>1, <2>2
<1>3. CanMove(b, h, Only(from, funds), Only(to, funds))
  BY <1>1, <1>2 DEF CanMove
<1> QED BY <1>3, MovedBacked DEF Sent

(* Releasing what is on hold leaves the rest covered. *)
LEMMA ReleaseAllBacked ==
    ASSUME NEW b \in Ledger, NEW h \in Ledger, NEW rel,
           Backed(b, h), CanReleaseAll(h, rel)
    PROVE  ReleaseAll(h, rel) \in Ledger /\ Backed(b, ReleaseAll(h, rel))
<1>1. ASSUME NEW a \in Holder, NEW d \in Denom
      PROVE  /\ ReleaseAll(h, rel)[a][d] \in Nat
             /\ ReleaseAll(h, rel)[a][d] <= b[a][d]
  <2>1. b[a][d] \in Nat /\ h[a][d] \in Nat /\ rel[a][d] \in Nat
    BY DEF Ledger, Coins, CanReleaseAll
  <2>2. rel[a][d] <= h[a][d] /\ h[a][d] <= b[a][d]
    BY DEF CanReleaseAll, CanRelease, Covers, Backed
  <2>3. ReleaseAll(h, rel)[a][d] = h[a][d] - rel[a][d]
    BY DEF ReleaseAll, Minus
  <2> QED BY <2>1, <2>2, <2>3
<1>2. ReleaseAll(h, rel) = [a \in Holder |-> [d \in Denom |-> ReleaseAll(h, rel)[a][d]]]
  BY DEF ReleaseAll, Minus
<1>3. ReleaseAll(h, rel) \in Ledger
  BY <1>1, <1>2 DEF Ledger, Coins
<1> QED BY <1>1, <1>3 DEF Backed, Covers

(* ReleaseHold of one account is a special case. *)
LEMMA ReleaseHoldBacked ==
    ASSUME NEW b \in Ledger, NEW h \in Ledger, NEW a, NEW funds \in Coins,
           Backed(b, h), CanRelease(h, a, funds)
    PROVE  ReleaseHold(h, a, funds) \in Ledger /\ Backed(b, ReleaseHold(h, a, funds))
<1>1. ASSUME NEW x \in Holder, NEW d \in Denom
      PROVE  /\ ReleaseHold(h, a, funds)[x][d] \in Nat
             /\ ReleaseHold(h, a, funds)[x][d] <= b[x][d]
  <2>1. b[x][d] \in Nat /\ h[x][d] \in Nat /\ funds[d] \in Nat /\ h[x][d] <= b[x][d]
    BY DEF Ledger, Coins, Backed, Covers
  <2>2. CASE x = a
    <3>1. funds[d] <= h[x][d]
      BY <2>2 DEF CanRelease, Covers
    <3>2. ReleaseHold(h, a, funds)[x][d] = h[x][d] - funds[d]
      BY <2>2 DEF ReleaseHold, Minus
    <3> QED BY <2>1, <3>1, <3>2
  <2>3. CASE x # a
    <3>1. ReleaseHold(h, a, funds)[x][d] = h[x][d]
      BY <2>3 DEF ReleaseHold
    <3> QED BY <2>1, <3>1
  <2> QED BY <2>2, <2>3
<1>2. ASSUME NEW x \in Holder PROVE ReleaseHold(h, a, funds)[x] \in Coins
  <2>1. ReleaseHold(h, a, funds)[x] =
           IF x = a THEN [d \in Denom |-> h[x][d] - funds[d]] ELSE h[x]
    BY DEF ReleaseHold, Minus
  <2>2. h[x] \in Coins
    BY DEF Ledger
  <2> QED BY <1>1, <2>1, <2>2 DEF Coins
<1>3. ReleaseHold(h, a, funds) \in Ledger
  BY <1>2 DEF Ledger, ReleaseHold
<1> QED BY <1>1, <1>3 DEF Backed, Covers

(* A hold that passes ValidateNewHold is covered. *)
LEMMA AddHoldBacked ==
    ASSUME NEW b \in Ledger, NEW h \in Ledger, NEW a, NEW funds \in Coins,
           Backed(b, h), ValidateNewHold(b, h, a, funds)
    PROVE  AddHold(h, a, funds) \in Ledger /\ Backed(b, AddHold(h, a, funds))
<1>1. ASSUME NEW x \in Holder, NEW d \in Denom
      PROVE  /\ AddHold(h, a, funds)[x][d] \in Nat
             /\ AddHold(h, a, funds)[x][d] <= b[x][d]
  <2>1. b[x][d] \in Nat /\ h[x][d] \in Nat /\ funds[d] \in Nat /\ h[x][d] <= b[x][d]
    BY DEF Ledger, Coins, Backed, Covers
  <2>2. CASE x = a
    <3>1. funds[d] <= b[x][d] - h[x][d]
      BY <2>2 DEF ValidateNewHold, Covers, Spendable, Minus
    <3>2. AddHold(h, a, funds)[x][d] = h[x][d] + funds[d]
      BY <2>2 DEF AddHold, Plus
    <3> QED BY <2>1, <3>1, <3>2
  <2>3. CASE x # a
    <3>1. AddHold(h, a, funds)[x][d] = h[x][d]
      BY <2>3 DEF AddHold
    <3> QED BY <2>1, <3>1
  <2> QED BY <2>2, <2>3
<1>2. ASSUME NEW x \in Holder PROVE AddHold(h, a, funds)[x] \in Coins
  <2>1. AddHold(h, a, funds)[x] =
           IF x = a THEN [d \in Denom |-> h[x][d] + funds[d]] ELSE h[x]
    BY DEF AddHold, Plus
  <2>2. h[x] \in Coins
    BY DEF Ledger
  <2> QED BY <1>1, <2>1, <2>2 DEF Coins
<1>3. AddHold(h, a, funds) \in Ledger
  BY <1>2 DEF Ledger, AddHold
<1> QED BY <1>1, <1>3 DEF Backed, Covers
=============================================================================
