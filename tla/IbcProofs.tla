----------------------------- MODULE IbcProofs -----------------------------
(***************************************************************************)
(* What holds of Ibc for any channels, contracts, limiters, memos and      *)
(* numbers of packets.  The packets that are sent and those that arrive    *)
(* have an invariant each, and no step changes what both are about.        *)
(***************************************************************************)
EXTENDS Ibc, TLAPS

(* A sequence that the channel has given out *)
Sent(p) == p[1] \in Channel /\ p[2] \in Nat /\ p[2] < nextSeq[p[1]]

SendInv ==
    /\ nextSeq \in [Channel -> Nat]
    /\ \A p \in DOMAIN flight \cup DOMAIN fate \cup forgotten : Sent(p)
    /\ \A p \in DOMAIN flight : p \notin DOMAIN fate
    /\ \A e \in sends : e[1] # NoContract
    /\ \A p \in DOMAIN callbacks : callbacks[p] = flight[p].callback
    /\ CallbacksExact
    /\ UndoneIfReturned

(* Whoever may acknowledge a packet is the one that took it. *)
RecvInv ==
    /\ DOMAIN taker \subseteq DOMAIN acks
    /\ \A key \in DOMAIN ackActors :
          /\ ackActors[key].packet \in DOMAIN taker
          /\ taker[ackActors[key].packet] = ackActors[key].contract
    /\ AckedByTaker
    /\ CreditedUnlessRefused

(* The inductive invariant *)
IInv == SendInv /\ RecvInv

sendVars == <<sends, undos, nextSeq, flight, fate, callbacks, told, forgotten>>
recvVars == <<receives, markers, kept, executed, acks, ackActors, taker, acker>>
-----------------------------------------------------------------------------
(* A step that changes nothing of one side keeps its invariant. *)
LEMMA SendUnchanged ==
    ASSUME SendInv, UNCHANGED sendVars
    PROVE  SendInv'
BY Zenon DEF SendInv, Sent, CallbacksExact, UndoneIfReturned, sendVars

LEMMA RecvUnchanged ==
    ASSUME RecvInv, UNCHANGED recvVars
    PROVE  RecvInv'
BY Zenon DEF RecvInv, AckedByTaker, CreditedUnlessRefused, recvVars

LEMMA InitInv == Init => IInv
<1> SUFFICES ASSUME Init PROVE IInv
  BY Zenon
<1>1. /\ DOMAIN flight = {} /\ DOMAIN fate = {} /\ DOMAIN callbacks = {} /\ DOMAIN told = {}
      /\ DOMAIN acks = {} /\ DOMAIN kept = {} /\ DOMAIN markers = {} /\ DOMAIN ackActors = {}
      /\ DOMAIN taker = {} /\ DOMAIN acker = {}
  BY Zenon DEF Init, HooksInit, EmptyStore
<1>2. SendInv
  BY Zenon, <1>1 DEF SendInv, CallbacksExact, UndoneIfReturned, Init, RateInit
<1>3. RecvInv
  BY Zenon, <1>1 DEF RecvInv, AckedByTaker, CreditedUnlessRefused, Init, RateInit
<1> QED BY Zenon, <1>2, <1>3 DEF IInv
-----------------------------------------------------------------------------
(* Packets that are sent *)

LEMMA SendPacketStep ==
    ASSUME IInv, NEW c \in Channel, NEW k \in Contract \cup {NoContract}, SendPacket(c, k)
    PROVE  IInv'
<1>0. PICK p : p = <<c, nextSeq[c]>>
  BY Zenon
<1>1. /\ \/ sends' = sends
         \/ sends' = sends \cup {<<limiter, p>>} /\ limiter # NoContract
      /\ flight' = Put(flight, p, [callback |-> k, answer |-> "none"])
      /\ nextSeq' = [d \in Channel |-> IF d = c THEN nextSeq[c] + 1 ELSE nextSeq[d]]
      /\ k = NoContract => callbacks' = callbacks
      /\ k # NoContract => callbacks' = Put(callbacks, p, k)
      /\ UNCHANGED <<undos, fate, told, forgotten, recvVars>>
  BY Zenon, <1>0 DEF SendPacket, CheckAndUpdateRateLimits, IsContractConfigured, StorePacketCallback, history, recvVars
<1>2. SendInv
  BY Zenon DEF IInv
<1>3. p[1] = c /\ p[2] = nextSeq[c] /\ nextSeq[c] \in Nat /\ ~Sent(p)
  BY <1>0, <1>2 DEF SendInv, Sent
<1>4. nextSeq' \in [Channel -> Nat] /\ \A q : Sent(q) => Sent(q)'
  BY <1>1, <1>2 DEF SendInv, Sent
<1>5. Sent(p)'
  BY <1>1, <1>3 DEF Sent
<1>6. p \notin DOMAIN flight /\ p \notin DOMAIN fate /\ p \notin forgotten
  BY Zenon, <1>2, <1>3 DEF SendInv
<1>7. p \notin DOMAIN callbacks
  BY Zenon, <1>2, <1>6 DEF SendInv, CallbacksExact
<1>8. /\ DOMAIN flight' = DOMAIN flight \cup {p} /\ flight'[p].callback = k
      /\ \A q \in DOMAIN flight : flight'[q] = flight[q]
  BY Zenon, <1>1, <1>6 DEF Put
<1>9. /\ DOMAIN callbacks' = IF k = NoContract THEN DOMAIN callbacks ELSE DOMAIN callbacks \cup {p}
      /\ k # NoContract => callbacks'[p] = k
      /\ \A q \in DOMAIN callbacks : callbacks'[q] = callbacks[q]
  BY Zenon, <1>1, <1>7 DEF Put
<1>10. \A q \in DOMAIN callbacks : q \in DOMAIN flight
  BY Zenon, <1>2 DEF SendInv, CallbacksExact
<1>11. CallbacksExact'
  <2>1. \A q \in DOMAIN flight' \cup DOMAIN callbacks' : q \in DOMAIN callbacks' <=>
          /\ q \in DOMAIN flight' /\ flight'[q].callback # NoContract
          /\ q \notin forgotten'
    BY <1>1, <1>2, <1>6, <1>7, <1>8, <1>9 DEF SendInv, CallbacksExact
  <2> QED BY Zenon, <1>1, <1>2, <2>1 DEF SendInv, CallbacksExact
<1>12. UndoneIfReturned'
  BY Zenon, <1>1, <1>2, <1>6 DEF SendInv, UndoneIfReturned
<1>13. \A e \in sends' : e[1] # NoContract
  BY <1>1, <1>2 DEF SendInv
<1>14. \A q \in DOMAIN callbacks' : callbacks'[q] = flight'[q].callback
  BY Zenon, <1>2, <1>7, <1>8, <1>9, <1>10 DEF SendInv
<1>15. \A q \in DOMAIN flight' \cup DOMAIN fate' \cup forgotten' : Sent(q)'
  BY Zenon, <1>1, <1>2, <1>4, <1>5, <1>8 DEF SendInv
<1>16. \A q \in DOMAIN flight' : q \notin DOMAIN fate'
  BY Zenon, <1>1, <1>2, <1>6, <1>8 DEF SendInv
<1>17. SendInv'
  BY Zenon, <1>4, <1>11, <1>12, <1>13, <1>14, <1>15, <1>16 DEF SendInv
<1> QED BY Zenon, <1>1, <1>17, RecvUnchanged DEF IInv

LEMMA PacketAnsweredStep ==
    ASSUME IInv, NEW p \in DOMAIN flight, NEW a, PacketAnswered(p, a)
    PROVE  IInv'
<1>1. /\ flight' = Put(flight, p, [callback |-> flight[p].callback, answer |-> a])
      /\ UNCHANGED <<sends, undos, nextSeq, fate, callbacks, told, forgotten, recvVars>>
  BY Zenon DEF PacketAnswered, rateVars, hookVars, history, recvVars
<1>2. SendInv
  BY Zenon DEF IInv
<1>3. /\ DOMAIN flight' = DOMAIN flight
      /\ \A q \in DOMAIN flight : flight'[q].callback = flight[q].callback
  BY Zenon, <1>1 DEF Put
<1>4. \A q : Sent(q)' = Sent(q)
  BY Zenon, <1>1 DEF Sent
<1>5. CallbacksExact'
  BY Zenon, <1>1, <1>2, <1>3 DEF SendInv, CallbacksExact
<1>6. \A q \in DOMAIN callbacks' : callbacks'[q] = flight'[q].callback
  BY Zenon, <1>1, <1>2, <1>3 DEF SendInv, CallbacksExact
<1>7. UndoneIfReturned'
  BY Zenon, <1>1, <1>2 DEF SendInv, UndoneIfReturned
<1>8. SendInv'
  BY Zenon, <1>1, <1>2, <1>3, <1>4, <1>5, <1>6, <1>7 DEF SendInv
<1> QED BY Zenon, <1>1, <1>8, RecvUnchanged DEF IInv

(* A packet ends: of its callback and of what the limiter is told the      *)
(* handlers decide, in the hypotheses.                                     *)
LEMMA PacketEndsStep ==
    ASSUME IInv, NEW p \in DOMAIN flight, NEW how, NEW heard \in BOOLEAN,
           PacketEnds(p, how, heard),
           how = "timeout" \/ ~CallbackFails(p),
           \/ undos' = undos /\ (heard => limiter = NoContract)
           \/ undos' = undos \cup {<<limiter, p>>} /\ how \in {"error", "timeout"}
    PROVE  IInv'
<1>1. PICK l : l = IF heard THEN limiter ELSE NoContract
  BY Zenon
<1>2. /\ flight' = Del(flight, p)
      /\ fate' = Put(fate, p, [how |-> how, callback |-> flight[p].callback, limiter |-> l])
      /\ callbacks' = Del(callbacks, p)
      /\ UNCHANGED <<sends, nextSeq, forgotten, recvVars>>
  BY Zenon, <1>1 DEF PacketEnds, DeletePacketCallback, recvVars
<1>3. told' = IF p \in DOMAIN callbacks /\ callbacks[p] \notin Broken THEN Put(told, p, how) ELSE told
  BY Zenon DEF PacketEnds
<1>4. SendInv
  BY Zenon DEF IInv
<1>5. p \notin DOMAIN fate /\ Sent(p)
  BY Zenon, <1>4 DEF SendInv
<1>6. p \notin DOMAIN told
  BY Zenon, <1>4, <1>5 DEF SendInv, CallbacksExact
<1>7. /\ DOMAIN flight' = DOMAIN flight \ {p}
      /\ \A q \in DOMAIN flight' : flight'[q] = flight[q]
  BY Zenon, <1>2 DEF Del
<1>8. /\ DOMAIN callbacks' = DOMAIN callbacks \ {p}
      /\ \A q \in DOMAIN callbacks' : callbacks'[q] = callbacks[q]
  BY Zenon, <1>2 DEF Del
<1>9. /\ DOMAIN fate' = DOMAIN fate \cup {p}
      /\ fate'[p].how = how /\ fate'[p].callback = flight[p].callback /\ fate'[p].limiter = l
      /\ \A q \in DOMAIN fate : fate'[q] = fate[q]
  BY Zenon, <1>2, <1>5 DEF Put
<1>10. /\ \A q \in DOMAIN told' : \/ q \in DOMAIN told /\ told'[q] = told[q]
                                  \/ q = p /\ told'[q] = how
       /\ DOMAIN told \subseteq DOMAIN told'
       /\ p \in DOMAIN callbacks /\ callbacks[p] \notin Broken => p \in DOMAIN told'
  BY Zenon, <1>3, <1>6 DEF Put
<1>11. CallbacksExact'
  <2>1. \A q \in DOMAIN flight' \cup DOMAIN callbacks' : q \in DOMAIN callbacks' <=>
          /\ q \in DOMAIN flight' /\ flight'[q].callback # NoContract
          /\ q \notin forgotten'
    BY ZenonT(60), <1>2, <1>4, <1>7, <1>8 DEF SendInv, CallbacksExact
  <2>2. \A q \in DOMAIN told' : q \in DOMAIN fate' /\ told'[q] = fate'[q].how
    BY ONLY Zenon, <1>4, <1>9, <1>10 DEF SendInv, CallbacksExact
  <2>3. ASSUME NEW q \in DOMAIN fate'
        PROVE  \/ q \in DOMAIN told'
               \/ fate'[q].callback = NoContract \/ q \in forgotten'
               \/ fate'[q].how = "timeout" /\ fate'[q].callback \in Broken
    <3>1. CASE q # p
      BY Zenon, <1>2, <1>4, <1>9, <1>10, <2>3, <3>1 DEF SendInv, CallbacksExact
    <3>2. CASE q = p
      <4>1. p \in DOMAIN callbacks => callbacks[p] = flight[p].callback
        BY Zenon, <1>4 DEF SendInv
      <4>2. p \in DOMAIN callbacks \/ flight[p].callback = NoContract \/ p \in forgotten
        BY Zenon, <1>4 DEF SendInv, CallbacksExact
      <4> QED BY Zenon, <1>2, <1>9, <1>10, <3>2, <4>1, <4>2 DEF CallbackFails
    <3> QED BY Zenon, <3>1, <3>2
  <2> QED BY Zenon, <2>1, <2>2, <2>3 DEF CallbacksExact
<1>12. UndoneIfReturned'
  <2>1. \A e \in undos' : e[2] \in DOMAIN fate' /\ fate'[e[2]].how \in {"error", "timeout"}
    BY <1>4, <1>9 DEF SendInv, UndoneIfReturned
  <2>2. ASSUME NEW q \in DOMAIN fate', <<fate'[q].limiter, q>> \in sends'
        PROVE  <<fate'[q].limiter, q>> \in undos'
    <3>1. CASE q # p
      BY Zenon, <1>2, <1>4, <1>9, <2>2, <3>1 DEF SendInv, UndoneIfReturned
    <3>2. CASE q = p
      <4>1. l # NoContract
        BY ONLY Zenon, <1>2, <1>4, <1>9, <2>2, <3>2 DEF SendInv
      <4> QED BY Zenon, <1>1, <1>9, <3>2, <4>1
    <3> QED BY Zenon, <3>1, <3>2
  <2> QED BY Zenon, <2>1, <2>2 DEF UndoneIfReturned
<1>13. \A q : Sent(q)' = Sent(q)
  BY Zenon, <1>2 DEF Sent
<1>14. \A q \in DOMAIN callbacks' : callbacks'[q] = flight'[q].callback
  BY Zenon, <1>4, <1>7, <1>8 DEF SendInv, CallbacksExact
<1>15. \A q \in DOMAIN flight' \cup DOMAIN fate' \cup forgotten' : Sent(q)'
  BY ONLY Zenon, <1>2, <1>4, <1>7, <1>9, <1>13 DEF SendInv
<1>16. \A q \in DOMAIN flight' : q \notin DOMAIN fate'
  BY ONLY Zenon, <1>4, <1>7, <1>9 DEF SendInv
<1>17. SendInv'
  BY Zenon, <1>2, <1>4, <1>11, <1>12, <1>14, <1>15, <1>16 DEF SendInv
<1> QED BY Zenon, <1>2, <1>17, RecvUnchanged DEF IInv

LEMMA OnAcknowledgementStep ==
    ASSUME IInv, NEW p \in DOMAIN flight, NEW heard \in BOOLEAN, OnAcknowledgementPacket(p, heard)
    PROVE  IInv'
<1>1. PICK how : how = flight[p].answer
  BY Zenon
<1>2. PacketEnds(p, how, heard) /\ ~CallbackFails(p)
  BY Zenon, <1>1 DEF OnAcknowledgementPacket
<1>3. \/ undos' = undos /\ (heard => limiter = NoContract)
      \/ undos' = undos \cup {<<limiter, p>>} /\ how \in {"error", "timeout"}
  BY Zenon, <1>1 DEF OnAcknowledgementPacket, IsAckError, RevertSentPacket, IsContractConfigured
<1> QED BY Zenon, <1>2, <1>3, PacketEndsStep

LEMMA OnTimeoutStep ==
    ASSUME IInv, NEW p \in DOMAIN flight, NEW heard \in BOOLEAN, OnTimeoutPacket(p, heard)
    PROVE  IInv'
<1>1. PacketEnds(p, "timeout", heard)
  BY Zenon DEF OnTimeoutPacket
<1>2. \/ undos' = undos /\ (heard => limiter = NoContract)
      \/ undos' = undos \cup {<<limiter, p>>}
  BY Zenon DEF OnTimeoutPacket, RevertSentPacket, IsContractConfigured
<1> QED BY Zenon, <1>1, <1>2, PacketEndsStep

LEMMA RestartStep ==
    ASSUME IInv, Restart
    PROVE  IInv'
<1>1. /\ DOMAIN callbacks' = {} /\ DOMAIN ackActors' = {}
      /\ forgotten' = forgotten \cup DOMAIN callbacks
      /\ UNCHANGED <<sends, undos, nextSeq, flight, fate, told>>
      /\ UNCHANGED <<receives, markers, kept, executed, acks, taker, acker>>
  BY Zenon DEF Restart, HooksRestart, EmptyStore, rateVars, coreVars
<1>2. SendInv /\ RecvInv
  BY Zenon DEF IInv
<1>3. \A q : Sent(q)' = Sent(q)
  BY Zenon, <1>1 DEF Sent
<1>4. \A q \in DOMAIN callbacks : q \in DOMAIN flight
  BY Zenon, <1>2 DEF SendInv, CallbacksExact
<1>5. CallbacksExact'
  <2>1. \A q \in DOMAIN flight : flight[q].callback = NoContract \/ q \in forgotten'
    BY Zenon, <1>1, <1>2 DEF SendInv, CallbacksExact
  <2> QED BY Zenon, <1>1, <1>2, <2>1 DEF SendInv, CallbacksExact
<1>6. UndoneIfReturned'
  BY Zenon, <1>1, <1>2 DEF SendInv, UndoneIfReturned
<1>7. SendInv'
  BY Zenon, <1>1, <1>2, <1>3, <1>4, <1>5, <1>6 DEF SendInv
<1>8. RecvInv'
  BY Zenon, <1>1, <1>2 DEF RecvInv, AckedByTaker, CreditedUnlessRefused
<1> QED BY Zenon, <1>7, <1>8 DEF IInv
-----------------------------------------------------------------------------
(* Packets that arrive *)

LEMMA MarkersOf ==
    ASSUME NEW c, NEW memo
    PROVE  DOMAIN AddUpdateMarker(c, memo) = DOMAIN markers \cup {c}
BY Zenon DEF AddUpdateMarker, Put

LEMMA OnRecvStep ==
    ASSUME IInv, NEW c \in Channel, NEW n, NEW home \in BOOLEAN, NEW route, NEW memo, NEW ends,
           OnRecvPacket(<<c, n>>, home, route, memo, ends)
    PROVE  IInv'
<1>0. PICK p : p = <<c, n>>
  BY Zenon
<1>1. PICK ack : ack = OnRecvPacketOverride(route, ends)
  BY Zenon
<1>2. /\ p \notin DOMAIN acks /\ p[1] = c /\ acks' = Put(acks, p, ack)
      /\ UNCHANGED <<sendVars, acker>>
  BY Zenon, <1>0, <1>1 DEF OnRecvPacket, sendVars
<1>3. SendInv /\ RecvInv
  BY Zenon DEF IInv
<1>4. SendInv'
  BY Zenon, <1>2, <1>3, SendUnchanged
<1>5. /\ DOMAIN acks' = DOMAIN acks \cup {p} /\ acks'[p] = ack
      /\ \A q \in DOMAIN acks : acks'[q] = acks[q]
  BY ONLY Zenon, <1>2 DEF Put
<1>6. /\ p \notin DOMAIN kept /\ p \notin DOMAIN taker /\ p \notin DOMAIN acker
      /\ DOMAIN kept \subseteq DOMAIN acks /\ DOMAIN acker \subseteq DOMAIN taker
  BY Zenon, <1>2, <1>3 DEF RecvInv, CreditedUnlessRefused, AckedByTaker
<1>7. CASE ack = "error"
  <2>1. UNCHANGED <<receives, markers, kept, executed, ackActors, taker>>
    BY Zenon, <1>1, <1>7 DEF OnRecvPacket
  <2>2. CreditedUnlessRefused'
    BY Zenon, <1>3, <1>5, <1>6, <1>7, <2>1 DEF RecvInv, CreditedUnlessRefused
  <2>3. RecvInv'
    BY Zenon, <1>2, <1>3, <1>5, <2>1, <2>2 DEF RecvInv, AckedByTaker
  <2> QED BY Zenon, <1>4, <2>3 DEF IInv
<1>8. CASE ack # "error"
  <2>1. /\ markers' = IF home THEN markers ELSE AddUpdateMarker(c, memo)
        /\ receives' = receives \/ receives' = receives \cup {<<limiter, p>>}
        /\ kept' = Put(kept, p, [home |-> home, route |-> route])
        /\ executed' = IF route = NoContract THEN executed ELSE executed \cup {p}
    BY Zenon, <1>0, <1>1, <1>2, <1>8 DEF OnRecvPacket, CheckAndUpdateRateLimits
  <2>2. /\ ackActors' = IF ack = "pending"
                        THEN Put(ackActors, AckKey(p), [contract |-> route, packet |-> p]) ELSE ackActors
        /\ taker' = IF ack = "pending" THEN Put(taker, p, route) ELSE taker
    BY Zenon, <1>0, <1>1, <1>8 DEF OnRecvPacket, StorePacketAckActor
  <2>3. /\ DOMAIN kept' = DOMAIN kept \cup {p} /\ kept'[p].home = home /\ kept'[p].route = route
        /\ \A q \in DOMAIN kept : kept'[q] = kept[q]
    BY ONLY Zenon, <1>6, <2>1 DEF Put
  <2>4. DOMAIN markers' = IF home THEN DOMAIN markers ELSE DOMAIN markers \cup {c}
    BY Zenon, <2>1, MarkersOf
  <2>5. CreditedUnlessRefused'
    <3>1. \A q \in DOMAIN acks' : q \in DOMAIN kept' <=> acks'[q] # "error"
      BY ONLY Zenon, <1>3, <1>5, <1>8, <2>3 DEF RecvInv, CreditedUnlessRefused
    <3>2. \A q \in DOMAIN kept' : q \in DOMAIN acks' /\ (kept'[q].route # NoContract => q \in executed')
      BY Zenon, <1>3, <1>5, <2>1, <2>3 DEF RecvInv, CreditedUnlessRefused
    <3>3. ASSUME NEW d \in Channel
          PROVE  d \in DOMAIN markers' <=> \E q \in DOMAIN kept' : q[1] = d /\ ~kept'[q].home
      <4>1. d \in DOMAIN markers <=> \E q \in DOMAIN kept : q[1] = d /\ ~kept[q].home
        BY ONLY Zenon, <1>3 DEF RecvInv, CreditedUnlessRefused
      <4>2. (\E q \in DOMAIN kept' : q[1] = d /\ ~kept'[q].home)
              <=> \/ \E q \in DOMAIN kept : q[1] = d /\ ~kept[q].home
                  \/ c = d /\ ~home
        BY ONLY Zenon, <1>2, <1>6, <2>3
      <4> QED BY ONLY Zenon, <2>4, <4>1, <4>2
    <3>4. \A e \in receives' : e[2] \in DOMAIN kept'
      BY <1>3, <2>1, <2>3 DEF RecvInv, CreditedUnlessRefused
    <3> QED BY ONLY Zenon, <3>1, <3>2, <3>3, <3>4 DEF CreditedUnlessRefused
  <2>6. /\ DOMAIN taker \subseteq DOMAIN taker' /\ DOMAIN taker' \subseteq DOMAIN taker \cup {p}
        /\ \A q \in DOMAIN taker : taker'[q] = taker[q]
        /\ ack = "pending" => p \in DOMAIN taker' /\ taker'[p] = route
    BY Zenon, <1>6, <2>2 DEF Put
  <2>7. ASSUME NEW key \in DOMAIN ackActors'
        PROVE  \/ key \in DOMAIN ackActors /\ ackActors'[key] = ackActors[key]
               \/ ack = "pending" /\ ackActors'[key] = [contract |-> route, packet |-> p]
    BY Zenon, <2>2, <2>7 DEF Put
  <2>8. \A key \in DOMAIN ackActors' : /\ ackActors'[key].packet \in DOMAIN taker'
                                       /\ taker'[ackActors'[key].packet] = ackActors'[key].contract
    BY ONLY <1>3, <2>6, <2>7 DEF RecvInv
  <2>9. AckedByTaker'
    BY Zenon, <1>2, <1>3, <2>6 DEF RecvInv, AckedByTaker
  <2>10. DOMAIN taker' \subseteq DOMAIN acks'
    BY Zenon, <1>3, <1>5, <2>6 DEF RecvInv
  <2>11. RecvInv'
    BY Zenon, <2>5, <2>8, <2>9, <2>10 DEF RecvInv
  <2> QED BY Zenon, <1>4, <2>11 DEF IInv
<1> QED BY Zenon, <1>7, <1>8

LEMMA EmitIBCAckStep ==
    ASSUME IInv, NEW k, NEW c, NEW n, NEW p \in DOMAIN acks, NEW reply, EmitIBCAck(k, c, n, p, reply)
    PROVE  IInv'
<1>1. PICK ack : ack = AckOfReply(reply)
  BY Zenon
<1>2. /\ acks[p] = "pending" /\ acks' = Put(acks, p, ack) /\ acker' = Put(acker, p, k)
      /\ <<c, n>> \in DOMAIN ackActors /\ ackActors[<<c, n>>] = [contract |-> k, packet |-> p]
      /\ UNCHANGED <<sendVars, receives, markers, kept, executed, ackActors, taker>>
  BY Zenon, <1>1 DEF EmitIBCAck, MayAck, sendVars, rateVars, hookVars
<1>3. SendInv /\ RecvInv
  BY Zenon DEF IInv
<1>4. ack # "error"
  BY Zenon, <1>1 DEF AckOfReply
<1>5. /\ DOMAIN acks' = DOMAIN acks /\ acks'[p] = ack
      /\ \A q \in DOMAIN acks : q # p => acks'[q] = acks[q]
  BY Zenon, <1>2 DEF Put
<1>6. p \in DOMAIN taker /\ taker[p] = k
  BY <1>2, <1>3 DEF RecvInv
<1>7. /\ DOMAIN acker' = DOMAIN acker \cup {p} /\ acker'[p] = k
      /\ \A q \in DOMAIN acker : q # p => acker'[q] = acker[q]
  BY Zenon, <1>2 DEF Put
<1>8. CreditedUnlessRefused'
  BY Zenon, <1>2, <1>3, <1>4, <1>5 DEF RecvInv, CreditedUnlessRefused
<1>9. AckedByTaker'
  BY Zenon, <1>2, <1>3, <1>6, <1>7 DEF RecvInv, AckedByTaker
<1>10. RecvInv'
  BY Zenon, <1>2, <1>3, <1>5, <1>8, <1>9 DEF RecvInv
<1> QED BY Zenon, <1>2, <1>3, <1>10, SendUnchanged DEF IInv
-----------------------------------------------------------------------------
LEMMA NextInv == IInv /\ [Next]_vars => IInv'
<1> SUFFICES ASSUME IInv, [Next]_vars PROVE IInv'
  BY Zenon
<1>0. ASSUME UNCHANGED <<sendVars, recvVars>> PROVE IInv'
  BY Zenon, <1>0, SendUnchanged, RecvUnchanged DEF IInv
<1>1. ASSUME NEW c \in Outgoing, NEW k \in Contract \cup {NoContract}, SendPacket(c, k) PROVE IInv'
  BY Zenon, <1>1, SendPacketStep, IbcAssumption
<1>2. ASSUME NEW p \in DOMAIN flight, NEW a \in Answers, PacketAnswered(p, a) PROVE IInv'
  BY Zenon, <1>2, PacketAnsweredStep
<1>3. ASSUME NEW p \in DOMAIN flight, NEW h \in BOOLEAN,
             OnAcknowledgementPacket(p, h) \/ OnTimeoutPacket(p, h)
      PROVE  IInv'
  BY Zenon, <1>3, OnAcknowledgementStep, OnTimeoutStep
<1>4. ASSUME NEW c \in Channel, NEW n \in 1 .. MaxPackets, NEW home \in BOOLEAN,
             NEW route \in Contract \cup {NoContract}, NEW memo \in Memos, NEW ends \in Ends,
             OnRecvPacket(<<c, n>>, home, route, memo, ends)
      PROVE  IInv'
  BY Zenon, <1>4, OnRecvStep
<1>5. ASSUME NEW k \in Contract, NEW c \in Channel, NEW n \in 1 .. MaxPackets, NEW p \in DOMAIN acks,
             NEW reply \in Replies, EmitIBCAck(k, c, n, p, reply)
      PROVE  IInv'
  BY Zenon, <1>5, EmitIBCAckStep
<1>6. ASSUME OracleStep PROVE IInv'
  BY Zenon, <1>0, <1>6 DEF OracleStep, sendVars, recvVars, rateVars, hookVars, coreVars, history
<1>7. ASSUME Govern PROVE IInv'
  BY Zenon, <1>0, <1>7 DEF Govern, UpdateParams, UpdateHooksParams, sendVars, recvVars, rateVars, hookVars,
                    coreVars, history
<1>8. ASSUME UNCHANGED vars PROVE IInv'
  BY Zenon, <1>0, <1>8 DEF vars, sendVars, recvVars, rateVars, hookVars, coreVars, history
<1> QED BY Zenon, <1>1, <1>2, <1>3, <1>4, <1>5, <1>6, <1>7, <1>8, RestartStep DEF Next

LEMMA Invariance == Spec => []IInv
<1>1. Init => IInv
  BY Zenon, InitInv
<1>2. IInv /\ [Next]_vars => IInv'
  BY Zenon, NextInv
<1> QED BY <1>1, <1>2, PTL DEF Spec

(* CreditedUnlessRefused: an error acknowledgement leaves no coins, marker *)
(* or count behind, and coins that were kept are never refused.            *)
THEOREM Credited == Spec => []CreditedUnlessRefused
<1>1. IInv => CreditedUnlessRefused
  BY Zenon DEF IInv, RecvInv
<1> QED BY <1>1, Invariance, PTL

(* UndoneIfReturned: undo calls of RevertSentPacket are for packets that   *)
(* came back, and for each the limiter that counted it if still named.     *)
THEOREM Undone == Spec => []UndoneIfReturned
<1>1. IInv => UndoneIfReturned
  BY Zenon DEF IInv, SendInv
<1> QED BY <1>1, Invariance, PTL

(* CallbacksExact: callbacks are stored for the packets in flight that     *)
(* asked for one, and told how their packet ended.                         *)
THEOREM CallbacksKept == Spec => []CallbacksExact
<1>1. IInv => CallbacksExact
  BY Zenon DEF IInv, SendInv
<1> QED BY <1>1, Invariance, PTL

(* AckedByTaker: EmitIBCAck acknowledges for the contract that took the    *)
(* packet, also when two packets share the key of their actor.             *)
THEOREM AcknowledgedRightly == Spec => []AckedByTaker
<1>1. IInv => AckedByTaker
  BY Zenon DEF IInv, RecvInv
<1> QED BY <1>1, Invariance, PTL
=============================================================================
