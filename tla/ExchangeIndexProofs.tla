------------------------ MODULE ExchangeIndexProofs ------------------------
(***************************************************************************)
(* The rest of the inductive invariant: every message of the exchange      *)
(* keeps the indexes of orders and payments exact.  Then the theorems.     *)
(***************************************************************************)
EXTENDS ExchangeProofs, SequenceTheorems

LEMMA DeletePayments ==
    ASSUME PaymentInv, NEW keys, keys \subseteq DOMAIN payments,
           payments' = [k \in DOMAIN payments \ keys |-> payments[k]],
           targetIdx' = targetIdx \ UNION {IndexOf(payments[k].target, k) : k \in keys}
    PROVE  PaymentInv'
<1>1. /\ DOMAIN payments' \subseteq Party \X PaymentId
      /\ \A k \in DOMAIN payments' : payments'[k] \in Payment
  BY DEF PaymentInv
<1>2. ASSUME NEW t \in Party, NEW s \in Party, NEW x \in PaymentId
      PROVE  <<t, s, x>> \in targetIdx'
                <=> <<s, x>> \in DOMAIN payments' /\ payments'[<<s, x>>].target = t
  <2>1. <<t, s, x>> \in targetIdx
           <=> <<s, x>> \in DOMAIN payments /\ payments[<<s, x>>].target = t
    BY DEF PaymentInv, PaymentIndexExact
  <2>2. \A k \in keys : <<t, s, x>> \in IndexOf(payments[k].target, k)
                           => k = <<s, x>> /\ payments[k].target = t
    <3>1. \A k \in keys : k = <<k[1], k[2]>>
      BY DEF PaymentInv
    <3> QED BY <3>1 DEF IndexOf
  <2>3. CASE <<s, x>> \in keys
    <3>1. <<s, x>> \notin DOMAIN payments'
      BY <2>3
    <3>2. ASSUME <<t, s, x>> \in targetIdx
          PROVE  <<t, s, x>> \in IndexOf(payments[<<s, x>>].target, <<s, x>>)
      BY <2>1, <3>2, PaymentsAssumption DEF IndexOf
    <3> QED BY <2>3, <3>1, <3>2
  <2>4. CASE <<s, x>> \notin keys
    BY <2>1, <2>2, <2>4
  <2> QED BY <2>3, <2>4
<1> QED BY Zenon, <1>1, <1>2 DEF PaymentInv, PaymentIndexExact

(* setPaymentInStore *)
LEMMA SetPayment ==
    ASSUME PaymentInv, NEW k \in Party \X PaymentId, NEW p \in Payment,
           payments' = Put(payments, k, p), targetIdx' = Reindex(k, p.target)
    PROVE  PaymentInv'
<1>1. /\ DOMAIN payments' \subseteq Party \X PaymentId
      /\ \A j \in DOMAIN payments' : payments'[j] \in Payment
  BY DEF PaymentInv, Put
<1>2. ASSUME NEW t \in Party, NEW s \in Party, NEW x \in PaymentId
      PROVE  <<t, s, x>> \in targetIdx'
                <=> <<s, x>> \in DOMAIN payments' /\ payments'[<<s, x>>].target = t
  <2>1. <<t, s, x>> \in targetIdx
           <=> <<s, x>> \in DOMAIN payments /\ payments[<<s, x>>].target = t
    BY DEF PaymentInv, PaymentIndexExact
  <2>2. k = <<k[1], k[2]>>
    OBVIOUS
  <2>3. CASE k = <<s, x>>
    <3>1. k \in DOMAIN payments' /\ payments'[k] = p
      BY DEF Put
    <3>2. k[1] = s /\ k[2] = x
      BY <2>3
    <3>3. ASSUME NEW u
          PROVE  <<t, s, x>> \in IndexOf(u, k) <=> u = t
      BY <3>2, PaymentsAssumption DEF IndexOf
    <3>4. <<t, s, x>> \in targetIdx' <=> p.target = t
      <4>1. CASE k \in DOMAIN payments
        BY <2>1, <2>3, <3>3, <4>1 DEF Reindex
      <4>2. CASE k \notin DOMAIN payments
        BY <2>1, <2>3, <3>3, <4>2 DEF Reindex
      <4> QED BY <4>1, <4>2
    <3> QED BY <2>3, <3>1, <3>4
  <2>4. CASE k # <<s, x>>
    <3>1. <<s, x>> \in DOMAIN payments' <=> <<s, x>> \in DOMAIN payments
      BY <2>4 DEF Put
    <3>2. <<s, x>> \in DOMAIN payments => payments'[<<s, x>>] = payments[<<s, x>>]
      BY <2>4 DEF Put
    <3>3. \A u : <<t, s, x>> \notin IndexOf(u, k)
      BY <2>2, <2>4 DEF IndexOf
    <3>4. <<t, s, x>> \in targetIdx' <=> <<t, s, x>> \in targetIdx
      BY <3>3 DEF Reindex
    <3> QED BY <2>1, <3>1, <3>2, <3>4
  <2> QED BY <2>3, <2>4
<1> QED BY <1>1, <1>2 DEF PaymentInv, PaymentIndexExact

LEMMA PaymentIndexStep ==
    ASSUME IInv, [Next]_vars
    PROVE  PaymentInv'
<1>0. PaymentInv
  BY DEF IInv
<1>1. ASSUME UNCHANGED <<payments, targetIdx>>
      PROVE  PaymentInv'
  BY <1>0, <1>1 DEF PaymentInv, PaymentIndexExact
<1>2. ASSUME NEW s \in Party, NEW x \in PaymentId, NEW t \in Party \cup {NoTarget},
             NEW offer \in Offers, CreatePayment(<<s, x>>, t, offer)
      PROVE  PaymentInv'
  <2> DEFINE p == [target |-> t, samount |-> offer[1], tamount |-> offer[2]]
  <2>0. offer[1] \in Coins /\ offer[2] \in Coins
    BY PaymentsAssumption
  <2>1. p \in Payment /\ p.target = t
    BY <2>0 DEF Payment
  <2>2. payments' = Put(payments, <<s, x>>, p) /\ targetIdx' = Reindex(<<s, x>>, t)
    BY <1>2 DEF CreatePayment
  <2> HIDE DEF p
  <2> QED BY <1>0, <2>1, <2>2, SetPayment
<1>3. ASSUME NEW keys, keys \subseteq DOMAIN payments, deletePaymentsAndReleaseHolds(keys)
      PROVE  PaymentInv'
  BY <1>0, <1>3, DeletePayments DEF deletePaymentsAndReleaseHolds
<1>4. ASSUME NEW t, AcceptPayment(t)
      PROVE  PaymentInv'
  <2> DEFINE k == signed[t][1]
  <2>1. k \in DOMAIN payments /\ payments' = Del(payments, k)
        /\ targetIdx' = targetIdx \ IndexOf(payments[k].target, k)
    BY Zenon, <1>4 DEF AcceptPayment, CanAccept
  <2> HIDE DEF k
  <2>2. payments' = [j \in DOMAIN payments \ {k} |-> payments[j]]
    BY <2>1 DEF Del
  <2>3. UNION {IndexOf(payments[j].target, j) : j \in {k}} = IndexOf(payments[k].target, k)
    OBVIOUS
  <2>4. {k} \subseteq DOMAIN payments
    BY <2>1
  <2> QED BY Zenon, <1>0, <2>1, <2>2, <2>3, <2>4, DeletePayments
<1>5. ASSUME NEW k \in DOMAIN payments, NEW t \in Party \cup {NoTarget},
             UpdatePaymentTarget(k, t)
      PROVE  PaymentInv'
  <2> DEFINE p == [target |-> t, samount |-> payments[k].samount,
                   tamount |-> payments[k].tamount]
  <2>1. p \in Payment /\ p.target = t /\ k \in Party \X PaymentId
    BY <1>0 DEF Payment, PaymentInv
  <2>2. payments' = Put(payments, k, p) /\ targetIdx' = Reindex(k, t)
    BY <1>5 DEF UpdatePaymentTarget
  <2> HIDE DEF p
  <2> QED BY <1>0, <2>1, <2>2, SetPayment
<1>6. CASE PaymentStep
  <2>1. ASSUME NEW t, NEW sources, RejectPayments(t, sources)
        PROVE  PaymentInv'
    <3>1. UNION {PaymentsFrom(t, s) : s \in sources} \subseteq DOMAIN payments
      BY DEF PaymentsFrom
    <3> QED BY <1>3, <2>1, <3>1 DEF RejectPayments
  <2>2. ASSUME NEW s, NEW ids, CancelPayments(s, ids)
        PROVE  PaymentInv'
    <3>1. {<<s, x>> : x \in ids} \subseteq DOMAIN payments
      BY <2>2 DEF CancelPayments
    <3> QED BY <1>3, <2>2, <3>1 DEF CancelPayments
  <2>3. ASSUME NEW k \in DOMAIN payments, NEW t, RejectPayment(k, t)
        PROVE  PaymentInv'
    <3>1. {k} \subseteq DOMAIN payments
      OBVIOUS
    <3> QED BY <1>3, <2>3, <3>1 DEF RejectPayment
  <2> QED BY Zenon, <1>1, <1>2, <1>4, <1>5, <1>6, <2>1, <2>2, <2>3
          DEF PaymentStep, SignAccept, AcceptRefused
<1>7. CASE UNCHANGED paymentVars
  BY <1>1, <1>7 DEF paymentVars
<1> QED BY <1>6, <1>7 DEF Next, CloseMarket, Send, vars
-----------------------------------------------------------------------------
(* What deletes orders, and may replace others by orders with the same     *)
(* market, owner, assets denomination and external id, keeps the indexes.  *)
LEMMA ReplaceOrders ==
    ASSUME BookInv, NEW gone, gone \subseteq DOMAIN orders,
           DOMAIN orders' = DOMAIN orders \ gone,
           \A id \in DOMAIN orders' :
               /\ orders'[id] \in Order
               /\ orders'[id].market = orders[id].market
               /\ orders'[id].owner = orders[id].owner
               /\ orders'[id].adenom = orders[id].adenom
               /\ orders'[id].ext = orders[id].ext,
           orderIdx' = WithoutEntries(gone), extIdx' = WithoutExternal(extIdx, gone),
           UNCHANGED lastOrderID
    PROVE  BookInv'
<1>0. \A id \in DOMAIN orders' :
         /\ IndexEntries(id, orders'[id]) = IndexEntries(id, orders[id])
         /\ ExternalKey(orders'[id]) = ExternalKey(orders[id])
  BY DEF IndexEntries, ExternalKey
<1>1. ASSUME NEW e \in orderIdx'
      PROVE  \E id \in DOMAIN orders' : e \in IndexEntries(id, orders'[id])
  <2>1. e \in orderIdx /\ \A id \in gone : e \notin IndexEntries(id, orders[id])
    BY <1>1 DEF WithoutEntries
  <2>2. PICK id \in DOMAIN orders : e \in IndexEntries(id, orders[id])
    BY <2>1 DEF BookInv, OrderIndexesExact
  <2>3. id \in DOMAIN orders'
    BY <2>1, <2>2
  <2> QED BY <1>0, <2>2, <2>3
<1>2. ASSUME NEW id \in DOMAIN orders'
      PROVE  IndexEntries(id, orders'[id]) \subseteq orderIdx'
  <2>1. IndexEntries(id, orders[id]) \subseteq orderIdx
    BY DEF BookInv, OrderIndexesExact
  <2>2. \A j \in gone : j # id
    OBVIOUS
  <2>3. \A j \in gone : \A e \in IndexEntries(id, orders[id]) : e \notin IndexEntries(j, orders[j])
    BY <2>2 DEF IndexEntries
  <2> QED BY <1>0, <2>1, <2>3 DEF WithoutEntries
<1>3. ASSUME NEW x \in DOMAIN extIdx'
      PROVE  /\ extIdx'[x] \in DOMAIN orders' /\ ExternalKey(orders'[extIdx'[x]]) = x
             /\ orders'[extIdx'[x]].ext # NoExt
  <2>1. /\ x \in DOMAIN extIdx /\ extIdx'[x] = extIdx[x]
        /\ \A id \in gone : x # ExternalKey(orders[id])
    BY <1>3 DEF WithoutExternal
  <2>2. /\ extIdx[x] \in DOMAIN orders /\ ExternalKey(orders[extIdx[x]]) = x
        /\ orders[extIdx[x]].ext # NoExt
    BY <2>1 DEF BookInv, OrderIndexesExact
  <2> QED BY <1>0, <2>1, <2>2
<1>4. ASSUME NEW id \in DOMAIN orders', orders'[id].ext # NoExt
      PROVE  /\ ExternalKey(orders'[id]) \in DOMAIN extIdx'
             /\ extIdx'[ExternalKey(orders'[id])] = id
  <2> DEFINE x == ExternalKey(orders[id])
  <2>1. x \in DOMAIN extIdx /\ extIdx[x] = id
    BY <1>4 DEF BookInv, OrderIndexesExact
  <2>2. ASSUME NEW j \in gone
        PROVE  x # ExternalKey(orders[j])
    <3>1. SUFFICES ASSUME x = ExternalKey(orders[j])
                   PROVE  FALSE
      OBVIOUS
    <3>2. orders[j].ext # NoExt
      BY <1>4, <3>1 DEF ExternalKey
    <3>3. extIdx[x] = j
      BY <3>1, <3>2 DEF BookInv, OrderIndexesExact
    <3> QED BY <2>1, <3>3
  <2>3. x \in DOMAIN extIdx' /\ extIdx'[x] = id
    BY <2>1, <2>2 DEF WithoutExternal
  <2> QED BY <1>0, <2>3
<1>5. OrderIndexesExact'
  BY Zenon, <1>1, <1>2, <1>3, <1>4 DEF OrderIndexesExact, IndexEntries, ExternalKey
<1> QED BY <1>5 DEF BookInv

LEMMA DeleteOrders ==
    ASSUME BookInv, NEW ids, ids \subseteq DOMAIN orders, deleteOrders(ids)
    PROVE  BookInv'
<1>1. /\ DOMAIN orders' = DOMAIN orders \ ids
      /\ \A id \in DOMAIN orders' : orders'[id] = orders[id] /\ orders'[id] \in Order
  BY DEF deleteOrders, WithoutOrders, BookInv
<1> QED BY <1>1, ReplaceOrders DEF deleteOrders

(* setOrderInStore of a new order *)
LEMMA NewOrder ==
    ASSUME BookInv, NEW o \in Order, NEW f, CreateOrder(o, f)
    PROVE  BookInv'
<1> DEFINE new == lastOrderID + 1
<1>1. /\ orders' = Put(orders, new, o) /\ lastOrderID' = new
      /\ orderIdx' = orderIdx \cup IndexEntries(new, o)
      /\ extIdx' = SetExternal(extIdx, new, o) /\ CanSetOrder(extIdx, new, o)
  BY Zenon DEF CreateOrder, SetLastOrderID
<1>2. new \in Nat /\ new \notin DOMAIN orders /\ 1..lastOrderID \subseteq 1..new
      /\ new \in 1..new
  BY DEF BookInv
<1> HIDE DEF new
<1>3. /\ DOMAIN orders' = DOMAIN orders \cup {new} /\ orders'[new] = o
      /\ \A id \in DOMAIN orders : orders'[id] = orders[id]
  BY <1>1, <1>2 DEF Put
<1>4. o.ext # NoExt => ExternalKey(o) \notin DOMAIN extIdx
  BY <1>1, <1>2 DEF CanSetOrder, BookInv, OrderIndexesExact
<1>5. \A e \in orderIdx' : \E id \in DOMAIN orders' : e \in IndexEntries(id, orders'[id])
  BY Zenon, <1>1, <1>3 DEF BookInv, OrderIndexesExact
<1>6. \A id \in DOMAIN orders' : IndexEntries(id, orders'[id]) \subseteq orderIdx'
  BY Zenon, <1>1, <1>3 DEF BookInv, OrderIndexesExact
<1>7. \A x \in DOMAIN extIdx' : /\ extIdx'[x] \in DOMAIN orders'
                                /\ ExternalKey(orders'[extIdx'[x]]) = x
                                /\ orders'[extIdx'[x]].ext # NoExt
  BY <1>1, <1>3 DEF BookInv, OrderIndexesExact, SetExternal, Put
<1>8. ASSUME NEW id \in DOMAIN orders', orders'[id].ext # NoExt
      PROVE  /\ ExternalKey(orders'[id]) \in DOMAIN extIdx'
             /\ extIdx'[ExternalKey(orders'[id])] = id
  BY <1>1, <1>3, <1>4, <1>8 DEF BookInv, OrderIndexesExact, SetExternal, Put
<1>9. OrderIndexesExact'
  BY <1>5, <1>6, <1>7, <1>8 DEF OrderIndexesExact, IndexEntries, ExternalKey
<1> QED BY Zenon, <1>1, <1>2, <1>3, <1>9 DEF BookInv

(* MarketSetOrderExternalID *)
LEMMA NewExternalID ==
    ASSUME BookInv, NEW id \in DOMAIN orders, NEW ext \in ExternalId \cup {NoExt},
           SetOrderExternalID(id, ext)
    PROVE  BookInv'
<1> DEFINE o    == orders[id]
           new  == WithExt(o, ext)
           kept == IF o.ext = NoExt THEN extIdx ELSE Del(extIdx, ExternalKey(o))
<1>1. /\ o.ext # ext /\ CanSetOrder(kept, id, new) /\ orders' = Put(orders, id, new)
      /\ extIdx' = SetExternal(kept, id, new) /\ UNCHANGED <<lastOrderID, orderIdx>>
  BY Zenon DEF SetOrderExternalID
<1>2. /\ new \in Order /\ IndexEntries(id, new) = IndexEntries(id, o)
      /\ ExternalKey(new) = <<o.market, ext>> /\ new.ext = ext
  BY Zenon DEF WithExt, Order, BookInv, IndexEntries, ExternalKey
<1> HIDE DEF new
<1>3. /\ DOMAIN orders' = DOMAIN orders /\ orders'[id] = new
      /\ \A j \in DOMAIN orders : j # id => orders'[j] = orders[j]
  BY <1>1 DEF Put
<1>4. /\ DOMAIN kept \subseteq DOMAIN extIdx
      /\ \A x \in DOMAIN kept : kept[x] = extIdx[x]
      /\ \A x \in DOMAIN extIdx : x # ExternalKey(o) => x \in DOMAIN kept
  BY DEF Del
<1>5. ASSUME NEW x \in DOMAIN kept
      PROVE  /\ kept[x] \in DOMAIN orders /\ kept[x] # id
             /\ ExternalKey(orders[kept[x]]) = x /\ orders[kept[x]].ext # NoExt
  <2>1. /\ kept[x] \in DOMAIN orders /\ ExternalKey(orders[kept[x]]) = x
        /\ orders[kept[x]].ext # NoExt
    BY Zenon, <1>4 DEF BookInv, OrderIndexesExact
  <2>2. CASE o.ext = NoExt
    BY Zenon, <2>1, <2>2
  <2>3. CASE o.ext # NoExt
    BY <2>1, <2>3 DEF Del
  <2> QED BY Zenon, <2>1, <2>2, <2>3
<1>6. ext # NoExt => ExternalKey(new) \notin DOMAIN kept
  BY Zenon, <1>1, <1>2, <1>5 DEF CanSetOrder
<1>7. ASSUME NEW j \in DOMAIN orders, j # id, orders[j].ext # NoExt
      PROVE  ExternalKey(orders[j]) \in DOMAIN kept /\ kept[ExternalKey(orders[j])] = j
  <2>1. ExternalKey(orders[j]) \in DOMAIN extIdx /\ extIdx[ExternalKey(orders[j])] = j
    BY <1>7 DEF BookInv, OrderIndexesExact
  <2>2. ExternalKey(orders[j]) # ExternalKey(o)
    <3>1. SUFFICES ASSUME ExternalKey(orders[j]) = ExternalKey(o) PROVE FALSE
      OBVIOUS
    <3>2. o.ext # NoExt
      BY <1>7, <3>1 DEF ExternalKey
    <3>3. extIdx[ExternalKey(o)] = id
      BY <3>2 DEF BookInv, OrderIndexesExact
    <3> QED BY <1>7, <2>1, <3>1, <3>3
  <2> QED BY Zenon, <1>4, <2>1, <2>2
<1> HIDE DEF kept
<1>8. /\ \A e \in orderIdx' : \E j \in DOMAIN orders' : e \in IndexEntries(j, orders'[j])
      /\ \A j \in DOMAIN orders' : IndexEntries(j, orders'[j]) \subseteq orderIdx'
  <2>1. \A j \in DOMAIN orders : IndexEntries(j, orders'[j]) = IndexEntries(j, orders[j])
    BY <1>2, <1>3
  <2> QED BY Zenon, <1>1, <1>3, <2>1 DEF BookInv, OrderIndexesExact
<1>9. \A x \in DOMAIN extIdx' : /\ extIdx'[x] \in DOMAIN orders'
                                /\ ExternalKey(orders'[extIdx'[x]]) = x
                                /\ orders'[extIdx'[x]].ext # NoExt
  BY Zenon, <1>1, <1>2, <1>3, <1>5 DEF SetExternal, Put
<1>10. ASSUME NEW j \in DOMAIN orders', orders'[j].ext # NoExt
       PROVE  /\ ExternalKey(orders'[j]) \in DOMAIN extIdx'
              /\ extIdx'[ExternalKey(orders'[j])] = j
  <2>1. CASE j = id
    BY <1>1, <1>2, <1>3, <1>10, <2>1 DEF SetExternal, Put
  <2>2. CASE j # id
    <3>1. ExternalKey(orders[j]) \in DOMAIN kept /\ kept[ExternalKey(orders[j])] = j
      BY <1>3, <1>7, <1>10, <2>2
    <3> QED BY Zenon, <1>1, <1>2, <1>3, <1>6, <2>2, <3>1 DEF SetExternal, Put
  <2> QED BY <2>1, <2>2
<1>11. OrderIndexesExact'
  BY Zenon, <1>8, <1>9, <1>10 DEF OrderIndexesExact, IndexEntries, ExternalKey
<1> QED BY Zenon, <1>1, <1>2, <1>3, <1>11 DEF BookInv
-----------------------------------------------------------------------------
(* The filled part of an amount is at most the amount (Order.Split). *)
LEMMA PartOf ==
    ASSUME NEW n \in Nat, NEW f \in Nat, NEW a \in Nat, 0 < f, f < a
    PROVE  (n * f) \div a \in 0..n
<1> DEFINE q == (n * f) \div a
<1>1. n * f \in Nat /\ n * f <= n * a
  OBVIOUS
<1>2. q \in Nat /\ a * q <= n * f
  BY <1>1
<1> HIDE DEF q
<1>3. a * q <= a * n
  BY <1>1, <1>2
<1>4. q <= n
  BY <1>2, <1>3
<1> QED BY <1>2, <1>4 DEF q

(* What Order.Split leaves is an order with the same market, owner, assets *)
(* denomination and external id.                                           *)
LEMMA SplitType ==
    ASSUME NEW o \in Order, NEW f, CanSplit(o, f)
    PROVE  /\ SplitUnfilled(o, f) \in Order
           /\ SplitUnfilled(o, f).market = o.market
           /\ SplitUnfilled(o, f).owner = o.owner
           /\ SplitUnfilled(o, f).adenom = o.adenom
           /\ SplitUnfilled(o, f).ext = o.ext
<1> DEFINE done == SplitFilled(o, f)
           n    == SplitUnfilled(o, f)
<1>1. /\ o.assets \in Nat /\ o.price \in Nat /\ f \in 1..(o.assets - 1)
      /\ \A d \in Denom : o.fees[d] \in Nat
  BY DEF Order, Coins, CanSplit
<1>2. o.assets - f \in Nat /\ f \in Nat /\ 0 < f /\ f < o.assets
  BY <1>1
<1>3. done.price = (o.price * f) \div o.assets
  BY Zenon DEF SplitFilled, CopyChange
<1>4. o.price - done.price \in Nat
  BY <1>1, <1>2, <1>3, PartOf
<1>5. ASSUME NEW d \in Denom
      PROVE  o.fees[d] - done.fees[d] \in Nat
  <2>1. done.fees[d] = (o.fees[d] * f) \div o.assets
    BY Zenon DEF SplitFilled, CopyChange
  <2>2. (o.fees[d] * f) \div o.assets \in 0..o.fees[d]
    BY Zenon, <1>1, <1>2, PartOf
  <2> QED BY <1>1, <2>1, <2>2
<1>6. Minus(o.fees, done.fees) \in Coins
  BY Zenon, <1>5 DEF Minus, Coins
<1>7. n = CopyChange(o, o.assets - f, o.price - done.price, Minus(o.fees, done.fees))
  BY DEF SplitUnfilled
<1> HIDE DEF done, n
<1> QED BY <1>2, <1>4, <1>6, <1>7 DEF CopyChange, Order, n

(* The last order of a list of ids. *)
LEMMA LastOrder ==
    ASSUME NEW ids \in IdLists
    PROVE  LET list == [i \in DOMAIN ids |-> orders[ids[i]]]
           IN  Len(list) > 0 => /\ ids[Len(ids)] \in DOMAIN orders
                                /\ LastOf(list) = orders[ids[Len(ids)]]
<1> DEFINE list == [i \in DOMAIN ids |-> orders[ids[i]]]
           S    == {orders[id] : id \in DOMAIN orders}
<1>1. PICK n \in Nat : ids \in [1..n -> DOMAIN orders] /\ Len(ids) = n
  <2>1. CASE ids = <<>>
    <3>1. ids \in [1..0 -> DOMAIN orders] /\ Len(ids) = 0
      BY <2>1
    <3> QED BY <3>1
  <2>2. CASE \E n \in 1..MaxSettle : ids \in [1..n -> DOMAIN orders]
    <3>1. PICK n \in 1..MaxSettle : ids \in [1..n -> DOMAIN orders]
      BY <2>2
    <3>2. n \in Nat
      OBVIOUS
    <3>3. Len(ids) = n
      BY <3>1, <3>2
    <3> QED BY <3>1, <3>2, <3>3
  <2> QED BY <2>1, <2>2 DEF IdLists
<1>2. list \in [1..n -> S]
  BY <1>1
<1>3. Len(list) = n
  BY <1>2, <1>1
<1>4. ASSUME n > 0
      PROVE  list[n] = orders[ids[n]] /\ ids[n] \in DOMAIN orders
  BY <1>1, <1>4
<1> HIDE DEF list
<1>5. Len(list) > 0 => ids[Len(ids)] \in DOMAIN orders /\ LastOf(list) = orders[ids[Len(ids)]]
  BY <1>1, <1>3, <1>4 DEF LastOf
<1> QED BY <1>5 DEF list

LEMMA SettledBook ==
    ASSUME IInv, NEW m, NEW askIds \in IdLists, NEW bidIds \in IdLists,
           MarketSettle(m, askIds, bidIds)
    PROVE  BookInv'
<1> DEFINE asks == [i \in DOMAIN askIds |-> orders[askIds[i]]]
           bids == [i \in DOMAIN bidIds |-> orders[bidIds[i]]]
           part == PartialId(askIds, bidIds, asks, bids)
           full == (Range(askIds) \cup Range(bidIds)) \ part
           left == OrderLeft(asks, bids)
<1>1. /\ CanSettle(asks, bids)
      /\ orders' = [id \in DOMAIN orders \ full |-> IF id \in part THEN left ELSE orders[id]]
      /\ orderIdx' = WithoutEntries(full) /\ extIdx' = WithoutExternal(extIdx, full)
      /\ UNCHANGED lastOrderID
  BY Zenon DEF MarketSettle
<1>2. full \subseteq DOMAIN orders
  <2>1. ASSUME NEW ids \in IdLists, NEW i \in DOMAIN ids
        PROVE  ids[i] \in DOMAIN orders
    BY DEF IdLists
  <2> QED BY Zenon, <2>1 DEF Range
<1>3. Len(asks) > 0 /\ Len(bids) > 0
  BY Zenon, <1>1 DEF CanSettle
<1>4. /\ askIds[Len(askIds)] \in DOMAIN orders
      /\ LastOf(asks) = orders[askIds[Len(askIds)]]
  BY <1>3, LastOrder
<1>5. /\ bidIds[Len(bidIds)] \in DOMAIN orders
      /\ LastOf(bids) = orders[bidIds[Len(bidIds)]]
  BY <1>3, LastOrder
<1> HIDE DEF asks, bids
<1>6. ASSUME NEW id \in part
      PROVE  /\ left \in Order /\ left.market = orders[id].market
             /\ left.owner = orders[id].owner /\ left.adenom = orders[id].adenom
             /\ left.ext = orders[id].ext
  <2>1. CASE Excess(asks, bids) > 0
    <3>1. id = askIds[Len(askIds)] /\ left = SplitUnfilled(LastOf(asks), LastFilled(asks, bids))
      BY <1>6, <2>1 DEF PartialId, OrderLeft
    <3>2. CanSplit(LastOf(asks), LastFilled(asks, bids)) /\ LastOf(asks) \in Order
      BY Zenon, <1>1, <1>4, <2>1 DEF CanSettle, IInv, BookInv
    <3> HIDE DEF left
    <3>3. /\ left \in Order /\ left.market = LastOf(asks).market
          /\ left.owner = LastOf(asks).owner /\ left.adenom = LastOf(asks).adenom
          /\ left.ext = LastOf(asks).ext
      BY Zenon, <3>1, <3>2, SplitType
    <3> QED BY Zenon, <1>4, <3>1, <3>3
  <2>2. CASE ~(Excess(asks, bids) > 0) /\ Excess(bids, asks) > 0
    <3>1. id = bidIds[Len(bidIds)] /\ left = SplitUnfilled(LastOf(bids), LastFilled(bids, asks))
      BY <1>6, <2>2 DEF PartialId, OrderLeft
    <3>2. CanSplit(LastOf(bids), LastFilled(bids, asks)) /\ LastOf(bids) \in Order
      BY Zenon, <1>1, <1>5, <2>2 DEF CanSettle, IInv, BookInv
    <3> HIDE DEF left
    <3>3. /\ left \in Order /\ left.market = LastOf(bids).market
          /\ left.owner = LastOf(bids).owner /\ left.adenom = LastOf(bids).adenom
          /\ left.ext = LastOf(bids).ext
      BY Zenon, <3>1, <3>2, SplitType
    <3> QED BY Zenon, <1>5, <3>1, <3>3
  <2> QED BY Zenon, <1>6, <2>1, <2>2 DEF PartialId
<1> HIDE DEF part, full, left
<1>7. /\ DOMAIN orders' = DOMAIN orders \ full
      /\ \A id \in DOMAIN orders' :
            /\ orders'[id] \in Order
            /\ orders'[id].market = orders[id].market
            /\ orders'[id].owner = orders[id].owner
            /\ orders'[id].adenom = orders[id].adenom
            /\ orders'[id].ext = orders[id].ext
  BY <1>1, <1>6 DEF IInv, BookInv
<1> QED BY Zenon, <1>1, <1>2, <1>7, ReplaceOrders DEF IInv

LEMMA CommitKeepsOrders ==
    ASSUME CommitStep
    PROVE  UNCHANGED orderVars
<1>1. ASSUME NEW m, NEW u, NEW amount, NEW f, CommitFunds(m, u, amount, f)
      PROVE  UNCHANGED orderVars
  BY Zenon, <1>1 DEF CommitFunds
<1>2. ASSUME NEW m, NEW rel, ReleaseCommitments(m, rel)
      PROVE  UNCHANGED orderVars
  BY Zenon, <1>2 DEF ReleaseCommitments
<1>3. ASSUME NEW m, NEW s, SettleCommitments(m, s)
      PROVE  UNCHANGED orderVars
  BY Zenon, <1>3 DEF SettleCommitments
<1>4. ASSUME NEW m, NEW n, NEW u, NEW amount, TransferCommitments(u, m, n, amount)
      PROVE  UNCHANGED orderVars
  BY Zenon, <1>4 DEF TransferCommitments
<1> QED BY Zenon, <1>1, <1>2, <1>3, <1>4 DEF CommitStep

LEMMA BookStep ==
    ASSUME IInv, [Next]_vars
    PROVE  BookInv'
<1>0. BookInv
  BY DEF IInv
<1>1. ASSUME UNCHANGED bookVars
      PROVE  BookInv'
  BY Zenon, <1>0, <1>1 DEF bookVars, BookInv, OrderIndexesExact
<1>2. CASE OrderStep
  <2>1. ASSUME NEW o \in OrderInputs, NEW f, CreateOrder(o, f)
        PROVE  BookInv'
    <3>1. o \in Order
      BY Zenon, OrdersAssumption
    <3> QED BY Zenon, <1>0, <2>1, <3>1, NewOrder
  <2>2. ASSUME NEW id \in DOMAIN orders, CancelOrder(id)
        PROVE  BookInv'
    <3>1. {id} \subseteq DOMAIN orders
      OBVIOUS
    <3> QED BY <1>0, <2>2, <3>1, DeleteOrders DEF CancelOrder
  <2>3. ASSUME NEW m, NEW u, NEW ids \in SUBSET DOMAIN orders, NEW f, NEW c,
               FillBids(m, u, ids, f, c)
        PROVE  BookInv'
    <3>1. deleteOrders(ids)
      BY Zenon, <2>3 DEF FillBids
    <3> QED BY <1>0, <3>1, DeleteOrders
  <2>4. ASSUME NEW m, NEW u, NEW ids \in SUBSET DOMAIN orders, NEW f, NEW c,
               FillAsks(m, u, ids, f, c)
        PROVE  BookInv'
    <3>1. deleteOrders(ids)
      BY Zenon, <2>4 DEF FillAsks
    <3> QED BY <1>0, <3>1, DeleteOrders
  <2>5. ASSUME NEW m, NEW c, ManageFees(m, c)
        PROVE  BookInv'
    BY <1>1, <2>5 DEF ManageFees
  <2>6. ASSUME NEW m, NEW u, NEW amount, WithdrawMarketFunds(m, u, amount)
        PROVE  BookInv'
    BY <1>1, <2>6 DEF WithdrawMarketFunds, orderVars, bookVars
  <2>7. ASSUME NEW m, UpdateUserSettlementAllowed(m)
        PROVE  BookInv'
    BY <1>1, <2>7 DEF UpdateUserSettlementAllowed
  <2> QED BY Zenon, <1>0, <1>2, <2>1, <2>2, <2>3, <2>4, <2>5, <2>6, <2>7, NewExternalID,
             SettledBook DEF OrderStep
<1>3. ASSUME NEW m, CloseMarket(m)
      PROVE  BookInv'
  <2>1. Cancelled(m) \subseteq DOMAIN orders
    BY DEF Cancelled
  <2>2. deleteOrders(Cancelled(m))
    BY Zenon, <1>3 DEF CloseMarket
  <2> HIDE DEF Cancelled
  <2> QED BY <1>0, <2>1, <2>2, DeleteOrders
<1>4. CASE CommitStep
  <2>1. UNCHANGED orderVars
    BY <1>4, CommitKeepsOrders
  <2> QED BY <1>1, <2>1 DEF orderVars, bookVars
<1>5. CASE FlagStep
  BY Zenon, <1>1, <1>5 DEF FlagStep, UpdateAcceptingOrders, UpdateAcceptingCommitments,
                    orderVars, bookVars
<1>6. CASE UNCHANGED orderVars
  BY <1>1, <1>6 DEF orderVars, bookVars
<1> QED BY Zenon, <1>2, <1>3, <1>4, <1>5, <1>6 DEF Next, Send, vars
-----------------------------------------------------------------------------
LEMMA InitIInv == Init => IInv
<1> SUFFICES ASSUME Init PROVE IInv
  OBVIOUS
<1>1. NoLedger \in Ledger
  BY DEF NoLedger, Ledger, NoCoins, Coins
<1>2. LedgerInv
  <2>1. \A a \in Holder, d \in Denom : 0 <= InitialFunds[a][d]
    BY ExchangeAssumption DEF Ledger, Coins
  <2>2. bal = InitialFunds /\ hold = NoLedger /\ InitialFunds \in Ledger
    BY ExchangeAssumption DEF Init
  <2>3. Backed(InitialFunds, NoLedger)
    BY Zenon, <2>1 DEF Backed, Covers, NoLedger, NoCoins
  <2> QED BY <1>1, <2>2, <2>3 DEF LedgerInv
<1>3. MarketInv
  BY <1>1, ExchangeAssumption DEF Init, MarketInv, CommitmentsInit
<1>4. BookInv
  BY Zenon DEF Init, OrdersInit, BookInv, OrderIndexesExact, EmptyStore
<1>5. PaymentInv
  BY DEF Init, PaymentsInit, PaymentInv, PaymentIndexExact, EmptyStore
<1> QED BY <1>2, <1>3, <1>4, <1>5 DEF IInv

LEMMA StepIInv == IInv /\ [Next]_vars => IInv'
BY LedgerStep, MarketStep, BookStep, PaymentIndexStep DEF IInv

LEMMA IInvImplies ==
    IInv => TypeOK /\ HoldBacked /\ OrderIndexesExact /\ PaymentIndexExact
BY Zenon DEF IInv, LedgerInv, MarketInv, BookInv, PaymentInv, TypeOK, HoldBacked

(* The inductive invariant holds of the exchange, for any constants. *)
THEOREM Invariance == Spec => []IInv
BY InitIInv, StepIInv, PTL DEF Spec

(* Balances, holds, orders, fees, commitments and payments are well formed *)
(* after any sequence of messages: no amount goes below zero.              *)
THEOREM TypeCorrect == Spec => []TypeOK
BY Invariance, IInvImplies, PTL

(* Coins on hold are never spent: no message of the exchange or the bank,  *)
(* in any order, leaves an account with less than the holds on it.         *)
THEOREM HoldsAreBacked == Spec => []HoldBacked
BY Invariance, IInvImplies, PTL

(* Creations, cancellations, fills, partial fills, id changes and closings *)
(* keep the four indexes of the orders equal to what is in the store.      *)
THEOREM OrderIndexesCorrect == Spec => []OrderIndexesExact
BY Invariance, IInvImplies, PTL

(* The target-to-payment index is what the payments say.                   *)
THEOREM PaymentIndexCorrect == Spec => []PaymentIndexExact
BY Invariance, IInvImplies, PTL
-----------------------------------------------------------------------------
(* A target signs acceptances of payments to them only. *)
SignedByTarget == \A t \in Party : signed[t] # NoMsg => signed[t][2].target = t

LEMMA SignedStep ==
    ASSUME SignedByTarget, [Next]_vars
    PROVE  SignedByTarget'
<1>1. CASE UNCHANGED signed
  BY <1>1 DEF SignedByTarget
<1>2. ASSUME NEW t \in Party, NEW k, SignAccept(t, k)
      PROVE  SignedByTarget'
  BY Zenon, <1>2 DEF SignAccept, SignedByTarget
<1>3. ASSUME NEW t \in Party, AcceptPayment(t) \/ AcceptRefused(t)
      PROVE  SignedByTarget'
  <2>1. signed' = [x \in Party |-> IF x = t THEN NoMsg ELSE signed[x]]
    BY Zenon, <1>3 DEF AcceptPayment, AcceptRefused
  <2> QED BY Zenon, <2>1 DEF SignedByTarget
<1>4. CASE PaymentStep
  BY Zenon, <1>1, <1>2, <1>3, <1>4
     DEF PaymentStep, CreatePayment, RejectPayment, RejectPayments, CancelPayments,
         UpdatePaymentTarget, deletePaymentsAndReleaseHolds
<1> QED BY Zenon, <1>1, <1>4 DEF Next, CloseMarket, Send, vars, paymentVars

LEMMA AcceptStep ==
    ASSUME SignedByTarget, [Next]_vars, NEW t \in Party,
           signed[t] # NoMsg, signed'[t] = NoMsg, payments' # payments
    PROVE  LET s == signed[t][1][1]
               p == signed[t][2]
           IN  bal' = Sent(Sent(bal, s, t, p.samount), t, s, p.tamount)
<1>1. ASSUME UNCHANGED signed
      PROVE  FALSE
  BY <1>1
<1>2. ASSUME UNCHANGED payments
      PROVE  FALSE
  BY <1>2
<1>3. PICK u \in Party : AcceptPayment(u)
  <2>1. PaymentStep
    BY Zenon, <1>1 DEF Next, CloseMarket, Send, vars, paymentVars
  <2> QED BY Zenon, <1>1, <1>2, <2>1
          DEF PaymentStep, CreatePayment, RejectPayment, RejectPayments, CancelPayments,
              UpdatePaymentTarget, deletePaymentsAndReleaseHolds, SignAccept, AcceptRefused
<1>4. u = t
  BY Zenon, <1>3 DEF AcceptPayment
<1> DEFINE k == signed[t][1]
           p == payments[k]
           q == signed[t][2]
<1>5. /\ p.target = t /\ p.samount = q.samount /\ p.tamount = q.tamount
      /\ bal' = Sent(Sent(bal, k[1], p.target, p.samount), p.target, k[1], p.tamount)
  BY Zenon, <1>3, <1>4 DEF AcceptPayment, CanAccept, Matches, SignedByTarget
<1> QED BY Zenon, <1>5

(* A target who accepts a payment gives and gets what it said when they    *)
(* signed, whatever its source and others did to it in the meantime.       *)
THEOREM AcceptsAreAsSigned == Spec => AcceptedAsSigned
<1>1. Init => SignedByTarget
  BY DEF Init, PaymentsInit, SignedByTarget
<1>2. SignedByTarget /\ [Next]_vars => SignedByTarget'
  BY SignedStep
<1>3. SignedByTarget /\ [Next]_vars =>
         [\A t \in Party :
             signed[t] # NoMsg /\ signed'[t] = NoMsg /\ payments' # payments =>
                LET s == signed[t][1][1]
                    p == signed[t][2]
                IN  bal' = Sent(Sent(bal, s, t, p.samount), t, s, p.tamount)]_vars
  BY Zenon, AcceptStep
<1> QED BY <1>1, <1>2, <1>3, PTL DEF Spec, AcceptedAsSigned
=============================================================================
