---------------------------- MODULE FundsProofs ----------------------------
(***************************************************************************)
(* What holds of Funds for every choice of its constants.  The proof has   *)
(* one invariant per component; a step of one leaves the others' alone or  *)
(* touches them through SendCoins.                                         *)
(***************************************************************************)
EXTENDS Funds, TLAPS

SanctionInv ==
    /\ sanctioned \subseteq Address /\ params \in Params
    /\ DOMAIN temp \subseteq Address \X ProposalId
    /\ TempEntriesJustified

(* Proposals get new numbers, and the funds holder proposes nothing. *)
GovInv ==
    /\ nextId \in Nat
    /\ \A id \in DOMAIN props :
          /\ id \in ProposalId /\ id < nextId
          /\ props[id] \in Proposal /\ props[id].by # Holder

QuarantineInv ==
    /\ optIn \subseteq Members
    /\ \A k \in DOMAIN records : k \in Address \X SUBSET Address /\ records[k] \in Record
    /\ \A x \in DOMAIN suffixes : x \in Address \X Address /\ suffixes[x] \subseteq SUBSET Address
    /\ RecordsFound

BankInv == bal \in [Address -> Nat] /\ signer \in Address

(* The inductive invariant *)
IInv == SanctionInv /\ GovInv /\ QuarantineInv /\ BankInv
-----------------------------------------------------------------------------
(* The messages of a proposal *)

LEMMA MessageTypes ==
    ASSUME NEW msgs \in Proposals
    PROVE  /\ \A i \in DOMAIN msgs : i \in Nat /\ msgs[i] \in Message
           /\ \A I \in SUBSET DOMAIN msgs : I # {} => \E i \in I : \A j \in I : j <= i
BY Zenon, FundsAssumption

LEMMA AppliedMessages ==
    ASSUME NEW msgs, NEW d
    PROVE  /\ DOMAIN Applied(msgs, d) = DOMAIN msgs
           /\ \A i \in DOMAIN msgs : /\ Applied(msgs, d)[i].kind = msgs[i].kind \/ Applied(msgs, d)[i] = msgs[i]
                                     /\ Applied(msgs, d)[i].addrs # {} => Applied(msgs, d)[i] = msgs[i]
BY Zenon DEF Applied

(* One of the messages that name an address decides. *)
LEMMA OneDecides ==
    ASSUME NEW msgs \in Proposals, NEW d, NEW a, Names(Applied(msgs, d), a),
           ~Decides(Applied(msgs, d), "sanction", a)
    PROVE  \E i \in DOMAIN msgs : a \in msgs[i].addrs /\ msgs[i].kind = "unsanction"
<1> DEFINE m == Applied(msgs, d)
           I == {i \in DOMAIN msgs : a \in m[i].addrs}
<1>1. DOMAIN m = DOMAIN msgs /\ \A i \in I : m[i] = msgs[i]
  BY Zenon, AppliedMessages
<1>2. I \in SUBSET DOMAIN msgs /\ I # {}
  BY Zenon, <1>1 DEF Names
<1>3. PICK i \in I : \A j \in I : j <= i
  <2> HIDE DEF I
  <2> QED BY Zenon, <1>2, MessageTypes
<1>4. i \in Nat /\ msgs[i] \in Message /\ \A j \in DOMAIN msgs : j \in Nat
  BY Zenon, MessageTypes
<1>5. \A j \in DOMAIN m : j > i => a \notin m[j].addrs
  BY <1>1, <1>3, <1>4
<1>6. m[i].kind # "sanction"
  BY Zenon, <1>1, <1>5 DEF Decides
<1> QED BY Zenon, <1>1, <1>4, <1>6 DEF Message, Kind

LEMMA SanctionDecides ==
    ASSUME NEW msgs \in Proposals, NEW d, NEW a, Decides(Applied(msgs, d), "sanction", a),
           CanSanction(Applied(msgs, d))
    PROVE  /\ a \notin Unsanctionable
           /\ \E i \in DOMAIN msgs : a \in msgs[i].addrs /\ msgs[i].kind = "sanction"
<1> DEFINE m == Applied(msgs, d)
<1>1. PICK i \in DOMAIN m : m[i].kind = "sanction" /\ a \in m[i].addrs
  BY Zenon DEF Decides
<1>2. i \in DOMAIN msgs /\ m[i] = msgs[i]
  BY Zenon, <1>1, AppliedMessages
<1> QED BY Zenon, <1>1, <1>2 DEF CanSanction

(* What a message names are addresses. *)
LEMMA NamedAddress ==
    ASSUME NEW msgs \in Proposals, NEW d, NEW a, Names(Applied(msgs, d), a)
    PROVE  a \in Address
<1>1. PICK i \in DOMAIN msgs : Applied(msgs, d)[i] = msgs[i] /\ a \in msgs[i].addrs
  BY AppliedMessages DEF Names
<1> QED BY Zenon, <1>1, MessageTypes DEF Message
-----------------------------------------------------------------------------
(* The hooks and messages of x/sanction *)

LEMMA OpenHookStep ==
    ASSUME NEW id \in ProposalId, NEW msgs \in Proposals, NEW d, NEW p,
           SanctionInv, OpenHook(id, msgs, d), props' = Put(props, id, p), p.msgs = msgs,
           id \in DOMAIN props => props[id].msgs = msgs
    PROVE  SanctionInv'
<1> DEFINE m   == Applied(msgs, d)
           new == {a \in Address : Names(m, a)}
           add == {<<a, id>> : a \in new}
<1>1. /\ CanSanction(m) /\ sanctioned' = sanctioned /\ params' = params
      /\ temp' = [k \in DOMAIN temp \cup add |->
                    IF k[2] = id /\ k[1] \in new
                    THEN IF Decides(m, "sanction", k[1]) THEN "sanction" ELSE "unsanction"
                    ELSE temp[k]]
      /\ propIndex' = propIndex \cup {<<id, a>> : a \in new}
  BY Zenon DEF OpenHook, AddTempEntries
<1>2. DOMAIN temp' = DOMAIN temp \cup add
  BY Zenon, <1>1
<1>3. add \subseteq Address \X ProposalId
  OBVIOUS
<1>4. propIndex' = {<<k[2], k[1]>> : k \in DOMAIN temp'}
  <2>1. propIndex = {<<k[2], k[1]>> : k \in DOMAIN temp}
    BY Zenon DEF SanctionInv, TempEntriesJustified
  <2>2. {<<k[2], k[1]>> : k \in add} = {<<id, a>> : a \in new}
    <3>1. \A a \in new : <<a, id>> \in add /\ <<<<a, id>>[2], <<a, id>>[1]>> = <<id, a>>
      BY Zenon
    <3>2. \A k \in add : \E a \in new : k = <<a, id>>
      BY Zenon
    <3>3. ASSUME NEW x \in {<<k[2], k[1]>> : k \in add} PROVE x \in {<<id, a>> : a \in new}
      <4>1. PICK k \in add : x = <<k[2], k[1]>>
        BY Zenon
      <4>2. PICK a \in new : k = <<a, id>>
        BY Zenon, <3>2
      <4>3. x = <<id, a>>
        BY Zenon, <4>1, <4>2
      <4> HIDE DEF new, add
      <4> QED BY Zenon, <4>2, <4>3
    <3>4. ASSUME NEW x \in {<<id, a>> : a \in new} PROVE x \in {<<k[2], k[1]>> : k \in add}
      <4>1. PICK a \in new : x = <<id, a>>
        BY Zenon
      <4> HIDE DEF new, add
      <4> QED BY Zenon, <3>1, <4>1
    <3> HIDE DEF new, add
    <3> QED BY Zenon, <3>3, <3>4
  <2>3. {<<k[2], k[1]>> : k \in DOMAIN temp \cup add}
          = {<<k[2], k[1]>> : k \in DOMAIN temp} \cup {<<k[2], k[1]>> : k \in add}
    <3> HIDE DEF add
    <3> QED BY Zenon
  <2> HIDE DEF add, new
  <2> QED BY Zenon, <1>1, <1>2, <2>1, <2>2, <2>3
<1>5. /\ id \in DOMAIN props' /\ props'[id].msgs = msgs
      /\ \A i \in DOMAIN props : i \in DOMAIN props' /\ props'[i].msgs = props[i].msgs
  BY Zenon DEF Put
<1>6. ASSUME NEW k \in DOMAIN temp'
      PROVE  /\ k[2] \in DOMAIN props'
             /\ \E i \in DOMAIN props'[k[2]].msgs :
                   k[1] \in props'[k[2]].msgs[i].addrs /\ props'[k[2]].msgs[i].kind = temp'[k]
             /\ temp'[k] = "sanction" => k[1] \notin Unsanctionable
  <2>1. CASE k[2] = id /\ k[1] \in new
    <3>1. CASE Decides(m, "sanction", k[1])
      <4>1. temp'[k] = "sanction"
        BY Zenon, <1>1, <1>2, <2>1, <3>1
      <4> QED BY <1>1, <1>5, <2>1, <3>1, <4>1, SanctionDecides
    <3>2. CASE ~Decides(m, "sanction", k[1])
      <4>1. temp'[k] = "unsanction"
        BY Zenon, <1>1, <1>2, <2>1, <3>2
      <4>2. \E i \in DOMAIN msgs : k[1] \in msgs[i].addrs /\ msgs[i].kind = "unsanction"
        BY ZenonT(60), <2>1, <3>2, OneDecides
      <4> QED BY Zenon, <1>5, <2>1, <4>1, <4>2
    <3> QED BY Zenon, <3>1, <3>2
  <2>2. CASE ~(k[2] = id /\ k[1] \in new)
    <3>1. k \in DOMAIN temp /\ temp'[k] = temp[k]
      BY <1>1, <1>2, <2>2
    <3>2. /\ k[2] \in DOMAIN props
          /\ \E i \in DOMAIN props[k[2]].msgs :
                k[1] \in props[k[2]].msgs[i].addrs /\ props[k[2]].msgs[i].kind = temp[k]
          /\ temp[k] = "sanction" => k[1] \notin Unsanctionable
      BY Zenon, <3>1 DEF SanctionInv, TempEntriesJustified
    <3> QED BY Zenon, <1>5, <3>1, <3>2
  <2> QED BY ONLY Zenon, <2>1, <2>2
<1>7. TempEntriesJustified'
  BY ZenonT(60), <1>1, <1>4, <1>6 DEF TempEntriesJustified, SanctionInv
<1> QED BY Zenon, <1>1, <1>2, <1>3, <1>7 DEF SanctionInv

(* Taking entries from the index and from the store *)
LEMMA FlipMinus ==
    ASSUME NEW D, NEW G
    PROVE  {<<k[2], k[1]>> : k \in D} \ G = {<<k[2], k[1]>> : k \in {x \in D : <<x[2], x[1]>> \notin G}}
BY Zenon

(* Entries that stay are still justified by their proposals. *)
LEMMA FewerEntries ==
    ASSUME NEW id, NEW G, SanctionInv, props' = Del(props, id),
           temp' = [k \in {x \in DOMAIN temp : <<x[2], x[1]>> \notin G} |-> temp[k]],
           propIndex' = propIndex \ G,
           \A k \in DOMAIN temp : k[2] = id => <<k[2], k[1]>> \in G,
           sanctioned' \subseteq Address, sanctioned' \cap Unsanctionable = {}, params' = params
    PROVE  SanctionInv'
<1>1. DOMAIN temp' = {x \in DOMAIN temp : <<x[2], x[1]>> \notin G}
  BY Zenon
<1>2. propIndex' = {<<k[2], k[1]>> : k \in DOMAIN temp'}
  <2>1. propIndex = {<<k[2], k[1]>> : k \in DOMAIN temp}
    BY Zenon DEF SanctionInv, TempEntriesJustified
  <2>2. {<<k[2], k[1]>> : k \in DOMAIN temp} \ G
          = {<<k[2], k[1]>> : k \in {x \in DOMAIN temp : <<x[2], x[1]>> \notin G}}
    BY ZenonT(60), FlipMinus
  <2> QED BY <1>1, <2>1, <2>2, Zenon
<1>3. ASSUME NEW k \in DOMAIN temp'
      PROVE  /\ k[2] \in DOMAIN props'
             /\ \E i \in DOMAIN props'[k[2]].msgs :
                   k[1] \in props'[k[2]].msgs[i].addrs /\ props'[k[2]].msgs[i].kind = temp'[k]
             /\ temp'[k] = "sanction" => k[1] \notin Unsanctionable
  <2>1. k \in DOMAIN temp /\ temp'[k] = temp[k] /\ k[2] # id
    BY Zenon, <1>1
  <2>2. /\ k[2] \in DOMAIN props
        /\ \E i \in DOMAIN props[k[2]].msgs :
              k[1] \in props[k[2]].msgs[i].addrs /\ props[k[2]].msgs[i].kind = temp[k]
        /\ temp[k] = "sanction" => k[1] \notin Unsanctionable
    BY Zenon, <2>1 DEF SanctionInv, TempEntriesJustified
  <2>3. k[2] \in DOMAIN props' /\ props'[k[2]] = props[k[2]]
    BY Zenon, <2>1, <2>2 DEF Del
  <2> QED BY Zenon, <2>1, <2>2, <2>3
<1>4. TempEntriesJustified'
  BY ZenonT(60), <1>2, <1>3 DEF TempEntriesJustified
<1> QED BY Zenon, <1>1, <1>4 DEF SanctionInv

LEMMA ClosedHookStep ==
    ASSUME NEW id, SanctionInv, ClosedHook(id), props' = Del(props, id)
    PROVE  SanctionInv'
<1> DEFINE G == {k \in propIndex : k[1] = id}
<1>1. /\ temp' = [k \in {x \in DOMAIN temp : <<x[2], x[1]>> \notin G} |-> temp[k]]
      /\ propIndex' = propIndex \ G /\ sanctioned' = sanctioned /\ params' = params
  BY Zenon DEF ClosedHook
<1>2. \A k \in DOMAIN temp : k[2] = id => <<k[2], k[1]>> \in G
  BY Zenon DEF SanctionInv, TempEntriesJustified
<1>3. sanctioned' \subseteq Address /\ sanctioned' \cap Unsanctionable = {}
  BY Zenon, <1>1 DEF SanctionInv, TempEntriesJustified
<1> HIDE DEF G
<1> QED BY Zenon, <1>1, <1>2, <1>3, FewerEntries

(* The entries of a proposal that passes are for addresses that it names. *)
LEMMA ExecutedStep ==
    ASSUME NEW id \in DOMAIN props, SanctionInv, GovInv, Executed(props[id].msgs),
           props' = Del(props, id)
    PROVE  SanctionInv'
<1> DEFINE msgs == props[id].msgs
           G == {<<x[2], x[1]>> : x \in {y \in DOMAIN temp : Names(msgs, y[1])}}
<1>1. \A x \in DOMAIN temp : Names(msgs, x[1]) <=> <<x[2], x[1]>> \in G
  BY Zenon
<1>2. /\ CanSanction(msgs) /\ params' = params
      /\ sanctioned' = {a \in Address : IF Names(msgs, a) THEN Decides(msgs, "sanction", a)
                                         ELSE a \in sanctioned}
      /\ temp' = [k \in {x \in DOMAIN temp : ~Names(msgs, x[1])} |-> temp[k]]
      /\ propIndex' = propIndex \ G
  BY Zenon DEF Executed
<1>3. {x \in DOMAIN temp : ~Names(msgs, x[1])} = {x \in DOMAIN temp : <<x[2], x[1]>> \notin G}
  <2> HIDE DEF G
  <2> QED BY Zenon, <1>1
<1>4. temp' = [k \in {x \in DOMAIN temp : <<x[2], x[1]>> \notin G} |-> temp[k]]
  <2> HIDE DEF G
  <2> QED BY Zenon, <1>2, <1>3
<1>5. \A k \in DOMAIN temp : k[2] = id => <<k[2], k[1]>> \in G
  <2>1. \A k \in DOMAIN temp : k[2] = id => Names(msgs, k[1])
    BY Zenon DEF SanctionInv, TempEntriesJustified, Names
  <2> HIDE DEF G
  <2> QED BY Zenon, <1>1, <2>1
<1>6. \A a \in Address : Decides(msgs, "sanction", a) => a \notin Unsanctionable
  BY Zenon, <1>2 DEF CanSanction, Decides
<1>7. sanctioned' \subseteq Address /\ sanctioned' \cap Unsanctionable = {}
  BY Zenon, <1>2, <1>6 DEF SanctionInv, TempEntriesJustified
<1> HIDE DEF G
<1> QED BY Zenon, <1>2, <1>4, <1>5, <1>7, FewerEntries
-----------------------------------------------------------------------------
(* The records of x/quarantine *)

LEMMA AddedRecord ==
    ASSUME QuarantineInv, NEW from \in Address, NEW to \in Address, NEW n \in Nat,
           records' = AddQuarantinedCoins(from, to, n), UNCHANGED <<optIn, suffixes>>
    PROVE  QuarantineInv'
<1> DEFINE key == <<to, {from}>>
           old == IF key \in DOMAIN records THEN records[key].coins ELSE 0
<1>1. old \in Nat
  BY Zenon DEF QuarantineInv, Record
<1>2. /\ DOMAIN records' = DOMAIN records \cup {key}
      /\ \A k \in DOMAIN records : k # key => records'[k] = records[k]
      /\ records'[key] = [un |-> {from}, acc |-> {}, coins |-> n + old,
                          declined |-> IsAutoDecline(to, {from})]
  BY Zenon DEF AddQuarantinedCoins, Put
<1>3. IsAutoDecline(to, {from}) \in BOOLEAN
  BY Zenon DEF IsAutoDecline
<1>4. records'[key] \in Record
  <2> HIDE DEF old
  <2> QED BY <1>1, <1>2, <1>3 DEF Record
<1>5. \A k \in DOMAIN records' : k \in Address \X SUBSET Address /\ records'[k] \in Record
  <2>1. key \in Address \X SUBSET Address
    BY Zenon
  <2> HIDE DEF key, old
  <2> QED BY Zenon, <1>2, <1>4, <2>1 DEF QuarantineInv
<1>6. ASSUME NEW k \in DOMAIN records'
      PROVE  /\ records'[k].un # {} /\ records'[k].un \cap records'[k].acc = {}
             /\ records'[k].un \cup records'[k].acc = k[2]
             /\ \A f \in k[2] : k[2] \in Found(k[1], {f})'
  <2>1. CASE k = key
    <3>1. records'[k].un = {from} /\ records'[k].acc = {} /\ k[1] = to /\ k[2] = {from}
      <4>1. records'[k] = [un |-> {from}, acc |-> {}, coins |-> n + old,
                           declined |-> IsAutoDecline(to, {from})]
        <5> HIDE DEF key, old
        <5> QED BY Zenon, <1>2, <2>1
      <4>2. k[1] = to /\ k[2] = {from}
        BY Zenon, <2>1
      <4> HIDE DEF key, old
      <4> QED BY <4>1, <4>2
    <3>2. {from} \in Found(to, {from})'
      BY <1>2 DEF Found, Suffixes
    <3> QED BY Zenon, <3>1, <3>2
  <2>2. CASE k # key
    <3>1. k \in DOMAIN records /\ records'[k] = records[k]
      BY Zenon, <1>2, <2>2
    <3>2. /\ records[k].un # {} /\ records[k].un \cap records[k].acc = {}
          /\ records[k].un \cup records[k].acc = k[2]
          /\ \A f \in k[2] : k[2] \in Found(k[1], {f})
      BY Zenon, <3>1 DEF QuarantineInv, RecordsFound
    <3>3. \A f \in k[2] : k[2] \in Found(k[1], {f})'
      BY <1>2, <3>2 DEF Found, Suffixes
    <3> QED BY Zenon, <3>1, <3>2, <3>3
  <2> QED BY Zenon, <2>1, <2>2
<1>7. \A x \in DOMAIN suffixes' :
         suffixes'[x] # {} /\ \A s \in suffixes'[x] : x[2] \in s /\ <<x[1], s>> \in DOMAIN records'
  BY Zenon, <1>2 DEF QuarantineInv, RecordsFound
<1>8. RecordsFound'
  BY Zenon, <1>6, <1>7 DEF RecordsFound
<1> QED BY Zenon, <1>5, <1>8 DEF QuarantineInv

(* A record that is released goes with its index entries; one that is      *)
(* accepted in part stays with them.                                       *)
LEMMA AcceptedRecords ==
    ASSUME QuarantineInv, NEW to \in Address, NEW froms,
           records' = Accepted(to, froms), suffixes' = Unindexed(to, Released(to, froms)),
           optIn' = optIn
    PROVE  QuarantineInv'
<1> DEFINE rel  == Released(to, froms)
           gone == {<<to, s>> : s \in rel}
           part == {<<to, s>> : s \in Touched(to, froms)} \ gone
           after(r) == [un |-> r.un \ froms, acc |-> r.acc \cup (r.un \cap froms), coins |-> r.coins,
                        declined |-> IsAutoDecline(to, r.un \ froms)]
           left(x) == IF x[1] = to THEN {s \in suffixes[x] : s \notin rel \/ x[2] \notin s}
                      ELSE suffixes[x]
<1>1. /\ DOMAIN records' = DOMAIN records \ gone
      /\ \A k \in DOMAIN records' : records'[k] = IF k \in part THEN after(records[k]) ELSE records[k]
  BY Zenon DEF Accepted
<1>2. /\ DOMAIN suffixes' = {x \in DOMAIN suffixes : left(x) # {}}
      /\ \A x \in DOMAIN suffixes' : suffixes'[x] = left(x)
  BY Zenon DEF Unindexed
<1>3. ASSUME NEW k \in DOMAIN records', k \in part
      PROVE  ~(records[k].un \subseteq froms) /\ k \in DOMAIN records
  <2>1. PICK s \in Touched(to, froms) : k = <<to, s>>
    BY Zenon, <1>3
  <2>2. s \notin rel
    BY Zenon, <1>3, <2>1
  <2> QED BY Zenon, <1>1, <2>1, <2>2 DEF Released
<1>4. \A k \in DOMAIN records :
         /\ k \in Address \X SUBSET Address /\ records[k] \in Record
         /\ records[k].un # {} /\ records[k].un \cap records[k].acc = {}
         /\ records[k].un \cup records[k].acc = k[2]
         /\ \A f \in k[2] : k[2] \in Found(k[1], {f})
  BY Zenon DEF QuarantineInv, RecordsFound
<1>5. ASSUME NEW k \in DOMAIN records'
      PROVE  /\ k \in Address \X SUBSET Address /\ records'[k] \in Record
             /\ records'[k].un # {} /\ records'[k].un \cap records'[k].acc = {}
             /\ records'[k].un \cup records'[k].acc = k[2]
  <2>1. k \in DOMAIN records
    BY Zenon, <1>1
  <2>2. CASE k \in part
    <3>1. records'[k] = after(records[k])
      BY <1>1, <2>2, Zenon
    <3>2. ~(records[k].un \subseteq froms)
      BY Zenon, <1>3, <2>2
    <3>3. IsAutoDecline(to, records[k].un \ froms) \in BOOLEAN
      BY Zenon DEF IsAutoDecline
    <3>4. /\ records'[k].un = records[k].un \ froms
          /\ records'[k].acc = records[k].acc \cup (records[k].un \cap froms)
      BY <3>1
    <3>5. records[k] \in Record
      BY Zenon, <1>4, <2>1
    <3>6. records'[k] \in Record
      BY ONLY <3>1, <3>3, <3>5 DEF Record
    <3> HIDE DEF part
    <3> QED BY Zenon, <1>4, <2>1, <3>2, <3>4, <3>6
  <2>3. CASE k \notin part
    <3>1. records'[k] = records[k]
      BY <1>1, <2>3, Zenon
    <3> QED BY Zenon, <1>4, <2>1, <3>1
  <2> QED BY Zenon, <2>2, <2>3
<1>6. ASSUME NEW k \in DOMAIN records', NEW f \in k[2] PROVE k[2] \in Found(k[1], {f})'
  <2>1. k \in DOMAIN records /\ k \notin gone /\ k = <<k[1], k[2]>>
    BY <1>1, <1>4
  <2>2. k[2] \in Found(k[1], {f})
    BY Zenon, <1>4, <2>1
  <2>3. CASE k[2] = {f}
    BY <2>1, <2>3 DEF Found, Suffixes
  <2>4. CASE k[2] # {f}
    <3>1. <<k[1], f>> \in DOMAIN suffixes /\ k[2] \in suffixes[<<k[1], f>>]
      BY Zenon, <2>2, <2>4 DEF Found, Suffixes
    <3>2. k[2] \in left(<<k[1], f>>)
      <4>1. k[1] = to => k[2] \notin rel
        BY Zenon, <2>1
      <4> QED BY Zenon, <3>1, <4>1
    <3>3. <<k[1], f>> \in DOMAIN suffixes' /\ k[2] \in suffixes'[<<k[1], f>>]
      <4> HIDE DEF left
      <4> QED BY Zenon, <1>2, <3>1, <3>2
    <3> QED BY ZenonT(60), <2>1, <3>3 DEF Found, Suffixes
  <2> QED BY Zenon, <2>3, <2>4
<1>7. ASSUME NEW x \in DOMAIN suffixes'
      PROVE  /\ x \in Address \X Address /\ suffixes'[x] \subseteq SUBSET Address
             /\ suffixes'[x] # {}
             /\ \A s \in suffixes'[x] : x[2] \in s /\ <<x[1], s>> \in DOMAIN records'
  <2>1. /\ x \in DOMAIN suffixes /\ suffixes'[x] = left(x) /\ suffixes'[x] # {}
        /\ left(x) \subseteq suffixes[x]
    BY Zenon, <1>2
  <2>2. /\ x \in Address \X Address /\ suffixes[x] \subseteq SUBSET Address
        /\ \A s \in suffixes[x] : x[2] \in s /\ <<x[1], s>> \in DOMAIN records
    BY Zenon, <2>1 DEF QuarantineInv, RecordsFound
  <2>3. ASSUME NEW s \in suffixes'[x] PROVE x[2] \in s /\ <<x[1], s>> \in DOMAIN records'
    <3>1. x[2] \in s /\ <<x[1], s>> \in DOMAIN records
      BY Zenon, <2>1, <2>2
    <3>2. x[1] = to => s \notin rel
      BY Zenon, <2>1, <3>1
    <3>3. <<x[1], s>> \notin gone
      BY Zenon, <3>2
    <3> HIDE DEF gone
    <3> QED BY Zenon, <1>1, <3>1, <3>3
  <2> QED BY Zenon, <2>1, <2>2, <2>3
<1>8. RecordsFound'
  BY Zenon, <1>5, <1>6, <1>7 DEF RecordsFound
<1> QED BY Zenon, <1>5, <1>7, <1>8 DEF QuarantineInv

LEMMA DeclinedRecords ==
    ASSUME QuarantineInv, NEW to \in Address, NEW froms,
           records' = Declined(to, froms), UNCHANGED <<suffixes, optIn>>
    PROVE  QuarantineInv'
<1> DEFINE some == {<<to, s>> : s \in Found(to, froms)}
           after(r) == [un |-> r.un \cup (r.acc \cap froms), acc |-> r.acc \ froms, coins |-> r.coins,
                        declined |-> TRUE]
<1>1. /\ DOMAIN records' = DOMAIN records
      /\ \A k \in DOMAIN records : records'[k] = IF k \in some THEN after(records[k]) ELSE records[k]
  BY Zenon DEF Declined
<1>2. ASSUME NEW k \in DOMAIN records'
      PROVE  /\ k \in Address \X SUBSET Address /\ records'[k] \in Record
             /\ records'[k].un # {} /\ records'[k].un \cap records'[k].acc = {}
             /\ records'[k].un \cup records'[k].acc = k[2]
  <2>1. /\ k \in DOMAIN records /\ k \in Address \X SUBSET Address /\ records[k] \in Record
        /\ records[k].un # {} /\ records[k].un \cap records[k].acc = {}
        /\ records[k].un \cup records[k].acc = k[2]
    BY Zenon, <1>1 DEF QuarantineInv, RecordsFound
  <2>2. CASE records'[k] = records[k]
    BY Zenon, <2>1, <2>2
  <2>3. CASE records'[k] = after(records[k])
    <3>1. /\ records'[k].un = records[k].un \cup (records[k].acc \cap froms)
          /\ records'[k].acc = records[k].acc \ froms
      BY <2>3
    <3>2. records'[k] \in Record
      BY <2>1, <2>3 DEF Record
    <3> QED BY Zenon, <2>1, <3>1, <3>2
  <2>4. records'[k] = records[k] \/ records'[k] = after(records[k])
    <3> HIDE DEF after, some
    <3> QED BY Zenon, <1>1, <2>1
  <2> QED BY Zenon, <2>2, <2>3, <2>4
<1>3. \A k \in DOMAIN records' : \A f \in k[2] : k[2] \in Found(k[1], {f})'
  <2>1. \A k \in DOMAIN records : \A f \in k[2] : k[2] \in Found(k[1], {f})
    BY Zenon DEF QuarantineInv, RecordsFound
  <2>2. ASSUME NEW a, NEW F PROVE Found(a, F)' = Found(a, F)
    BY Zenon, <1>1 DEF Found, Suffixes
  <2> QED BY Zenon, <1>1, <2>1, <2>2
<1>4. RecordsFound'
  BY ZenonT(60), <1>1, <1>2, <1>3 DEF RecordsFound, QuarantineInv
<1> QED BY Zenon, <1>2, <1>4 DEF QuarantineInv
-----------------------------------------------------------------------------
(* Sends *)

LEMMA MovedType ==
    ASSUME BankInv, NEW from \in Address, NEW to, NEW n \in Nat, n <= bal[from]
    PROVE  /\ Moved(from, to, n) \in [Address -> Nat]
           /\ \A a \in Address : /\ Moved(from, to, n)[a] < bal[a] => a = from
                                 /\ Moved(from, to, n)[a] > bal[a] => a = to /\ a # from
<1>1. \A a \in Address : bal[a] \in Nat
  BY Zenon DEF BankInv
<1> QED BY <1>1 DEF Moved

LEMMA SendStep ==
    ASSUME QuarantineInv, BankInv, NEW from \in Address, NEW to \in Address, NEW n \in Nat,
           from # Holder, SendCoins(from, to, n)
    PROVE  QuarantineInv' /\ BankInv' /\ MoveStep
<1> DEFINE dest == IF Waits(from, to) THEN Holder ELSE to
<1>1. /\ ~IsSanctionedAddr(from) /\ n <= bal[from] /\ bal' = Moved(from, dest, n) /\ signer' = from
      /\ optIn' = optIn /\ suffixes' = suffixes
      /\ records' = IF Waits(from, to) THEN AddQuarantinedCoins(from, to, n) ELSE records
  BY Zenon DEF SendCoins
<1>2. QuarantineInv'
  <2>1. CASE Waits(from, to)
    BY Zenon, <1>1, <2>1, AddedRecord
  <2>2. CASE ~Waits(from, to)
    <3>1. records' = records
      BY Zenon, <1>1, <2>2
    <3> QED BY <1>1, <3>1 DEF QuarantineInv, RecordsFound, Found, Suffixes
  <2> QED BY Zenon, <2>1, <2>2
<1>3. /\ bal' \in [Address -> Nat]
      /\ \A a \in Address : (bal'[a] < bal[a] => a = from) /\ (bal'[a] > bal[a] => a = dest /\ a # from)
  <2> HIDE DEF dest
  <2> QED BY Zenon, <1>1, MovedType
<1>4. BankInv'
  BY Zenon, <1>1, <1>3 DEF BankInv
<1>5. ASSUME NEW a \in Address, bal'[a] > bal[a], a \in optIn PROVE IsAutoAccept(a, signer')
  <2>1. a = dest /\ a # from
    BY Zenon, <1>3, <1>5
  <2>2. a # Holder
    BY Zenon, <1>5, FundsAssumption DEF QuarantineInv
  <2>3. a = to /\ ~Waits(from, to)
    BY Zenon, <2>1, <2>2
  <2> QED BY Zenon, <1>1, <1>5, <2>1, <2>3 DEF Waits
<1>6. MoveStep
  BY ONLY Zenon, <1>1, <1>3, <1>5 DEF MoveStep
<1> QED BY Zenon, <1>2, <1>4, <1>6

(* A step that moves nothing *)
LEMMA NoMove == ASSUME BankInv, bal' = bal PROVE MoveStep
<1>1. \A a \in Address : bal[a] \in Nat
  BY Zenon DEF BankInv
<1> QED BY <1>1 DEF MoveStep

LEMMA SameSanctions ==
    ASSUME SanctionInv, UNCHANGED <<sanctioned, temp, propIndex, params>>, props' = props
    PROVE  SanctionInv'
BY Zenon DEF SanctionInv, TempEntriesJustified

LEMMA SameRecords ==
    ASSUME QuarantineInv, UNCHANGED <<records, suffixes>>, optIn' \subseteq Members
    PROVE  QuarantineInv'
BY DEF QuarantineInv, RecordsFound, Found, Suffixes

LEMMA SameGov == ASSUME GovInv, UNCHANGED <<props, nextId>> PROVE GovInv'
BY Zenon DEF GovInv

LEMMA ClosedGov == ASSUME GovInv, NEW id, Closed(id) PROVE GovInv'
BY Zenon DEF GovInv, Closed, Del
-----------------------------------------------------------------------------
(* Each action keeps the invariant and moves coins only as it may. *)

LEMMA SendKeeps ==
    ASSUME IInv, NEW from \in Address, NEW to \in Address, NEW n \in Amounts, from # Holder,
           Send(from, to, n)
    PROVE  IInv' /\ MoveStep
<1>1. n \in Nat
  BY Zenon, FundsAssumption
<1>2. QuarantineInv' /\ BankInv' /\ MoveStep
  BY Zenon, <1>1, SendStep DEF Send, IInv
<1>3. SanctionInv' /\ GovInv'
  BY Zenon, SameSanctions, SameGov DEF Send, IInv, sanctionVars
<1> QED BY Zenon, <1>2, <1>3 DEF IInv

LEMMA SubmitKeeps ==
    ASSUME IInv, NEW by \in Address, NEW msgs \in Proposals, NEW n \in Amounts,
           SubmitProposal(by, msgs, n)
    PROVE  IInv' /\ MoveStep
<1> DEFINE p == [msgs |-> msgs, by |-> by, deposit |-> n, voting |-> n >= GovMinDeposit]
<1>1. /\ n \in Nat /\ Gov \in Address /\ GovMinDeposit \in Nat
      /\ nextId \in ProposalId /\ by # Holder /\ SendCoins(by, Gov, n) /\ OpenHook(nextId, msgs, n)
      /\ props' = Put(props, nextId, p) /\ nextId' = nextId + 1
  BY Zenon, FundsAssumption DEF SubmitProposal
<1>2. QuarantineInv' /\ BankInv' /\ MoveStep
  BY Zenon, <1>1, SendStep DEF IInv
<1>3. p \in Proposal /\ p.msgs = msgs /\ p.by = by
  BY <1>1 DEF Proposal
<1>4. nextId \notin DOMAIN props /\ nextId \in Nat
  BY DEF IInv, GovInv
<1> HIDE DEF p
<1>5. SanctionInv'
  BY Zenon, <1>1, <1>3, <1>4, OpenHookStep DEF IInv
<1>6. GovInv'
  <2>1. \A id \in DOMAIN props' : id = nextId \/ (id \in DOMAIN props /\ id # nextId /\ props'[id] = props[id])
    BY Zenon, <1>1, <1>4 DEF Put
  <2>2. props'[nextId] = p
    BY Zenon, <1>1 DEF Put
  <2>3. \A id \in DOMAIN props : id \in ProposalId /\ id < nextId /\ id < nextId + 1
    <3>1. \A id \in DOMAIN props : id \in ProposalId /\ id < nextId
      BY Zenon DEF IInv, GovInv
    <3>2. \A id \in DOMAIN props : id \in Nat
      BY Zenon, <3>1, SanctionAssumption
    <3> QED BY <1>4, <3>1, <3>2
  <2>4. nextId < nextId + 1 /\ nextId + 1 \in Nat
    BY <1>4
  <2> QED BY Zenon, <1>1, <1>3, <2>1, <2>2, <2>3, <2>4 DEF IInv, GovInv
<1> QED BY Zenon, <1>2, <1>5, <1>6 DEF IInv

LEMMA DepositKeeps ==
    ASSUME IInv, NEW id \in DOMAIN props, NEW n \in Amounts, Deposit(id, n)
    PROVE  IInv' /\ MoveStep
<1> DEFINE q == props[id]
           d == q.deposit + n
           p == [msgs |-> q.msgs, by |-> q.by, deposit |-> d, voting |-> q.voting \/ d >= GovMinDeposit]
<1>1. /\ n \in Nat /\ Gov \in Address /\ GovMinDeposit \in Nat
      /\ SendCoins(q.by, Gov, n) /\ OpenHook(id, q.msgs, d)
      /\ props' = Put(props, id, p) /\ nextId' = nextId
  BY Zenon, FundsAssumption DEF Deposit
<1>2. /\ id \in ProposalId /\ q \in Proposal /\ q.by \in Address /\ q.by # Holder
      /\ q.msgs \in Proposals /\ q.deposit \in Nat /\ q.voting \in BOOLEAN
  BY Zenon DEF IInv, GovInv, Proposal
<1>3. QuarantineInv' /\ BankInv' /\ MoveStep
  BY Zenon, <1>1, <1>2, SendStep DEF IInv
<1>4. p.msgs = q.msgs /\ p.by = q.by
  BY Zenon
<1>5. d \in Nat /\ (q.voting \/ d >= GovMinDeposit) \in BOOLEAN
  BY <1>1, <1>2
<1>6. p \in Proposal
  <2> HIDE DEF d, q
  <2> QED BY ONLY Zenon, <1>2, <1>5 DEF Proposal
<1> HIDE DEF p, d
<1>7. SanctionInv'
  BY Zenon, <1>1, <1>2, <1>4, OpenHookStep DEF IInv
<1>8. GovInv'
  <2>1. \A i \in DOMAIN props' : i \in DOMAIN props /\ (props'[i] = props[i] \/ (i = id /\ props'[i] = p))
    BY Zenon, <1>1 DEF Put
  <2> QED BY Zenon, <1>1, <1>2, <1>4, <1>6, <2>1 DEF IInv, GovInv
<1> QED BY Zenon, <1>3, <1>7, <1>8 DEF IInv

(* The end of a proposal, with the deposit given back *)
LEMMA RefundStep ==
    ASSUME IInv, NEW id \in DOMAIN props, Refund(id)
    PROVE  QuarantineInv' /\ BankInv' /\ MoveStep
<1>1. props[id].by \in Address /\ props[id].deposit \in Nat
  BY Zenon DEF IInv, GovInv, Proposal
<1>2. Gov \in Address /\ Gov # Holder
  BY Zenon, FundsAssumption
<1> QED BY Zenon, <1>1, <1>2, SendStep DEF Refund, IInv

LEMMA BurnStep ==
    ASSUME IInv, NEW id \in DOMAIN props, Burn(id)
    PROVE  QuarantineInv' /\ BankInv' /\ MoveStep
<1>1. props[id].deposit \in Nat /\ \A a \in Address : bal[a] \in Nat
  BY Zenon DEF IInv, GovInv, Proposal, BankInv
<1>2. Gov \in Address /\ ~IsSanctionedAddr(Gov)
  BY Zenon, FundsAssumption DEF IsSanctionedAddr
<1>3. /\ props[id].deposit <= bal[Gov] /\ signer' = Gov
      /\ bal' = [a \in Address |-> bal[a] - (IF a = Gov THEN props[id].deposit ELSE 0)]
  BY Zenon DEF Burn
<1>4. BankInv'
  BY <1>1, <1>2, <1>3 DEF BankInv
<1>5. QuarantineInv'
  BY Zenon, SameRecords DEF Burn, quarantineVars, IInv, QuarantineInv
<1>6. \A a \in Address : bal'[a] <= bal[a] /\ (bal'[a] < bal[a] => a = Gov)
  BY <1>1, <1>2, <1>3
<1>7. MoveStep
  <2>1. \A a \in Address : bal'[a] \in Nat
    BY Zenon, <1>4 DEF BankInv
  <2> QED BY <1>1, <1>2, <1>6, <2>1 DEF MoveStep
<1> QED BY Zenon, <1>4, <1>5, <1>7

LEMMA EndKeeps ==
    ASSUME IInv, NEW id \in DOMAIN props, EndRejected(id) \/ EndFailed(id) \/ EndPassed(id)
    PROVE  IInv' /\ MoveStep
<1>1. Closed(id) /\ (Refund(id) \/ Burn(id)) /\ (ClosedHook(id) \/ Executed(props[id].msgs))
  BY Zenon DEF EndRejected, EndFailed, EndPassed
<1>2. QuarantineInv' /\ BankInv' /\ MoveStep
  BY Zenon, <1>1, RefundStep, BurnStep
<1>3. GovInv' /\ props' = Del(props, id)
  BY Zenon, <1>1, ClosedGov DEF Closed, IInv
<1>4. SanctionInv'
  BY Zenon, <1>1, <1>3, ClosedHookStep, ExecutedStep DEF IInv
<1> QED BY Zenon, <1>2, <1>3, <1>4 DEF IInv

LEMMA ParamsKeep ==
    ASSUME IInv, NEW p \in NewParams, UpdateParams(p)
    PROVE  IInv' /\ MoveStep
<1>1. p \in Params /\ Gov \in Address
  BY Zenon, SanctionAssumption, FundsAssumption
<1>2. SanctionInv'
  BY Zenon, <1>1 DEF UpdateParams, UpdateSanctionParams, IInv, SanctionInv, TempEntriesJustified
<1>3. GovInv' /\ QuarantineInv'
  BY Zenon, SameGov, SameRecords DEF UpdateParams, quarantineVars, IInv, QuarantineInv
<1>4. BankInv' /\ MoveStep
  BY Zenon, <1>1, NoMove DEF UpdateParams, IInv, BankInv
<1> QED BY Zenon, <1>2, <1>3, <1>4 DEF IInv

(* The messages of x/quarantine but Accept *)
LEMMA AnswerKeeps ==
    ASSUME IInv, NEW to \in Members,
           \/ OptIn(to) \/ OptOut(to) \/ \E x \in Answers : Decline(to, x[1], x[2])
           \/ \E f \in Updates : UpdateAutoResponses(to, f)
    PROVE  IInv' /\ MoveStep
<1>1. to \in Address
  BY Zenon, FundsAssumption
<1>2. /\ UNCHANGED <<sanctioned, temp, propIndex, params, suffixes, bal, props, nextId>>
      /\ signer' = to /\ optIn' \subseteq optIn \cup {to}
  BY Zenon DEF OptIn, OptOut, Decline, UpdateAutoResponses, sanctionVars
<1>3. QuarantineInv'
  <2>1. CASE records' = records
    BY Zenon, <1>2, <2>1, SameRecords DEF IInv, QuarantineInv
  <2>2. CASE \E x \in Answers : Decline(to, x[1], x[2])
    BY Zenon, <1>1, <1>2, <2>2, DeclinedRecords DEF Decline, IInv
  <2> QED BY Zenon, <2>1, <2>2 DEF OptIn, OptOut, UpdateAutoResponses
<1>4. BankInv' /\ MoveStep
  BY Zenon, <1>1, <1>2, NoMove DEF IInv, BankInv
<1> QED BY Zenon, <1>2, <1>3, <1>4, SameSanctions, SameGov DEF IInv

LEMMA AcceptKeeps ==
    ASSUME IInv, NEW to \in Members, NEW froms, NEW permanent, Accept(to, froms, permanent)
    PROVE  IInv' /\ MoveStep
<1> DEFINE total == Owed({<<to, s>> : s \in Released(to, froms)})
<1>1. to \in Address /\ to # Holder /\ Holder \in Address /\ ~IsSanctionedAddr(Holder)
  BY Zenon, FundsAssumption DEF IsSanctionedAddr
<1>2. /\ total \in 0..bal[Holder] /\ bal' = Moved(Holder, to, total) /\ signer' = to
      /\ records' = Accepted(to, froms) /\ suffixes' = Unindexed(to, Released(to, froms))
      /\ UNCHANGED <<sanctioned, temp, propIndex, params, optIn, props, nextId>>
  BY Zenon DEF Accept, sanctionVars
<1>3. QuarantineInv'
  BY Zenon, <1>1, <1>2, AcceptedRecords DEF IInv
<1> HIDE DEF total
<1>4. bal[Holder] \in Nat
  BY Zenon, <1>1 DEF IInv, BankInv
<1>5. total \in Nat /\ total <= bal[Holder]
  BY <1>2, <1>4
<1>6. /\ bal' \in [Address -> Nat]
      /\ \A a \in Address : (bal'[a] < bal[a] => a = Holder) /\ (bal'[a] > bal[a] => a = to)
  BY Zenon, <1>1, <1>2, <1>5, MovedType DEF IInv
<1>7. BankInv' /\ MoveStep
  BY Zenon, <1>1, <1>2, <1>6 DEF BankInv, MoveStep, IsAutoAccept
<1> QED BY Zenon, <1>2, <1>3, <1>7, SameSanctions, SameGov DEF IInv
-----------------------------------------------------------------------------
LEMMA InitHolds == Init => IInv
<1> SUFFICES ASSUME Init PROVE IInv
  BY Zenon
<1>1. SanctionInv
  BY Zenon, SanctionAssumption DEF Init, SanctionInv, TempEntriesJustified, EmptyStore
<1>2. GovInv
  BY Zenon DEF Init, GovInv, EmptyStore
<1>3. BankInv
  BY Zenon, FundsAssumption DEF Init, BankInv
<1>4. /\ optIn = {} /\ records = GenesisRecords /\ suffixes = IndexOf(GenesisRecords)
      /\ Members \subseteq Address
  BY Zenon, FundsAssumption DEF Init
<1> DEFINE many == {k \in DOMAIN records : \E f \in k[2] : k[2] # {f}}
<1>5. /\ DOMAIN suffixes = UNION {{k[1]} \X k[2] : k \in many}
      /\ \A x \in DOMAIN suffixes : suffixes[x] = {k[2] : k \in {y \in many : y[1] = x[1] /\ x[2] \in y[2]}}
  BY Zenon, <1>4 DEF IndexOf
<1>6. \A k \in DOMAIN records : /\ k \in Address \X SUBSET Address /\ records[k] \in Record
                                /\ k[2] # {} /\ records[k].un = k[2] /\ records[k].acc = {}
  BY Zenon, <1>4, FundsAssumption
<1>7. ASSUME NEW k \in DOMAIN records, NEW f \in k[2] PROVE k[2] \in Found(k[1], {f})
  <2>1. k = <<k[1], k[2]>>
    BY <1>6
  <2>2. k[2] \in Suffixes(k[1], f)
    <3>1. CASE k[2] = {f}
      BY Zenon, <3>1 DEF Suffixes
    <3>2. CASE k[2] # {f}
      <4>1. k \in many
        BY Zenon, <3>2
      <4>2. <<k[1], f>> \in DOMAIN suffixes /\ k[2] \in suffixes[<<k[1], f>>]
        <5> HIDE DEF many
        <5>1. <<k[1], f>> \in DOMAIN suffixes
          BY <1>5, <4>1
        <5>2. k \in {y \in many : y[1] = <<k[1], f>>[1] /\ <<k[1], f>>[2] \in y[2]}
          BY Zenon, <4>1
        <5> QED BY Zenon, <1>5, <5>1, <5>2
      <4> QED BY Zenon, <4>2 DEF Suffixes
    <3> QED BY Zenon, <3>1, <3>2
  <2> QED BY Zenon, <2>1, <2>2 DEF Found
<1>8. ASSUME NEW x \in DOMAIN suffixes
      PROVE  /\ x \in Address \X Address /\ suffixes[x] \subseteq SUBSET Address
             /\ suffixes[x] # {} /\ \A s \in suffixes[x] : x[2] \in s /\ <<x[1], s>> \in DOMAIN records
  <2>1. PICK k \in many : x \in {k[1]} \X k[2]
    <3> HIDE DEF many
    <3> QED BY ZenonT(60), <1>5
  <2>2. k \in DOMAIN records /\ x[1] = k[1] /\ x[2] \in k[2]
    BY Zenon, <2>1
  <2>3. x \in Address \X Address
    BY Zenon, <1>6, <2>1, <2>2
  <2>4. k[2] \in suffixes[x]
    <3> HIDE DEF many
    <3> QED BY Zenon, <1>5, <2>1, <2>2
  <2>5. ASSUME NEW s \in suffixes[x] PROVE s \in SUBSET Address /\ x[2] \in s /\ <<x[1], s>> \in DOMAIN records
    <3>1. PICK y \in many : s = y[2] /\ y[1] = x[1] /\ x[2] \in y[2]
      <4> HIDE DEF many
      <4> QED BY <1>5
    <3>2. y \in DOMAIN records /\ y = <<y[1], y[2]>> /\ y[2] \in SUBSET Address
      BY <1>6, <3>1
    <3> QED BY Zenon, <3>1, <3>2
  <2> QED BY Zenon, <2>3, <2>4, <2>5
<1>9. QuarantineInv
  BY ZenonT(60), <1>4, <1>6, <1>7, <1>8 DEF QuarantineInv, RecordsFound
<1> QED BY Zenon, <1>1, <1>2, <1>3, <1>9 DEF IInv

LEMMA StepHolds == IInv /\ [Next]_vars => IInv' /\ [MoveStep]_vars
<1> SUFFICES ASSUME IInv, [Next]_vars PROVE IInv' /\ [MoveStep]_vars
  BY Zenon
<1>1. CASE \E from \in Address \ (Blocked \cup {Holder}), to \in Address, n \in Amounts : Send(from, to, n)
  BY Zenon, <1>1, SendKeeps
<1>2. CASE Governed
  BY Zenon, <1>2, SubmitKeeps, DepositKeeps, EndKeeps, ParamsKeep DEF Governed
<1>3. CASE \E to \in Members : Answered(to)
  BY Zenon, <1>3, AnswerKeeps, AcceptKeeps DEF Answered
<1>4. CASE UNCHANGED vars
  <2>1. UNCHANGED <<sanctioned, temp, propIndex, params, optIn, auto, records, suffixes,
                    bal, props, nextId, signer>>
    BY Zenon, <1>4 DEF vars, sanctionVars, quarantineVars
  <2>2. optIn' \subseteq Members
    BY Zenon, <2>1 DEF IInv, QuarantineInv
  <2> QED BY Zenon, <1>4, <2>1, <2>2, SameSanctions, SameGov, SameRecords DEF IInv, BankInv
<1> QED BY Zenon, <1>1, <1>2, <1>3, <1>4 DEF Next

(* The inductive invariant holds in every reachable state. *)
THEOREM Invariance == Spec => []IInv
BY InitHolds, StepHolds, PTL DEF Spec

(* Temporary sanctions last as long as an open proposal asks for them, and *)
(* deleting them through the index misses none (proposalGovHook,           *)
(* DeleteGovPropTempEntries, DeleteAddrTempEntries).                       *)
THEOREM Justified == Spec => []TempEntriesJustified
<1>1. IInv => TempEntriesJustified
  BY Zenon DEF IInv, SanctionInv
<1> QED BY <1>1, Invariance, PTL

(* No record of quarantined funds is out of reach of its recipient         *)
(* (SetQuarantineRecord and the suffix index).                             *)
THEOREM AllFound == Spec => []RecordsFound
<1>1. IInv => RecordsFound
  BY Zenon DEF IInv, QuarantineInv
<1> QED BY <1>1, Invariance, PTL

(* Sends, deposits, refunds and releases take no coins from a sanctioned   *)
(* account and give none to an account that has opted in without its       *)
(* consent (the two SendRestrictionFn).                                    *)
THEOREM AllMovesAllowed == Spec => MovesAllowed
BY Invariance, StepHolds, PTL DEF Spec, MovesAllowed
=============================================================================
