-------------------------------- MODULE Ibc --------------------------------
(***************************************************************************)
(* Packets between this chain and others.  The transfer stack of app.go is *)
(* the hooks around the rate limiter around the transfer application;      *)
(* oracle queries go straight to the channel.  The channel keeper, the     *)
(* transfer application, the other chain and the contracts are outside     *)
(* src/.  Of the channel keeper the modules rely on this: a packet's       *)
(* commitment is there until the packet is acknowledged or times out, and  *)
(* never both; a packet is received once, in any order; a handler that     *)
(* fails leaves no trace; and what OnRecvPacket did is kept only when its  *)
(* acknowledgement is not an error.                                        *)
(***************************************************************************)
EXTENDS IbcHooks, Oracle, FiniteSets

CONSTANTS
    Broken,          \* contracts whose callback fails
    Memos,           \* memos of the packets that arrive
    AllowLists,      \* what governance may allow
    Outgoing,        \* channels that transfers are sent on
    MaxPackets       \* bound on the packets sent and received, queries too

Packet == Channel \X (Nat \ {0})

ASSUME IbcAssumption ==
    /\ Counterparty \in [Channel -> Channel]
    /\ NoContract \notin Contract \cup Limiter
    /\ Broken \subseteq Contract /\ Memos \subseteq Memo
    /\ AllowLists \subseteq SUBSET Contract /\ Outgoing \subseteq Channel
    /\ MaxPackets \in Nat

VARIABLES
    nextSeq,         \* channel |-> next sequence to send
    flight,          \* packet sent and not ended |-> its callback, what came of it
    fate,            \* packet ended |-> how, its callback, the limiter then named if it heard
    acks,            \* packet received |-> its acknowledgement
    kept,            \* packet received whose coins are here |-> whether home, its route
    executed,        \* packets received whose contract ran
    told,            \* history: packet |-> what its callback was told
    taker,           \* history: packet |-> contract that will acknowledge it
    acker,           \* history: packet |-> contract that acknowledged it
    forgotten        \* history: packets whose callback an import dropped

coreVars == <<nextSeq, flight, fate, acks, kept, executed>>
history == <<told, taker, acker, forgotten>>
vars == <<rateVars, hookVars, oracleVars, coreVars, history>>

Init ==
    /\ RateInit /\ HooksInit /\ OracleInit
    /\ nextSeq = [c \in Channel |-> 1]
    /\ flight = EmptyStore /\ fate = EmptyStore
    /\ acks = EmptyStore /\ kept = EmptyStore /\ executed = {}
    /\ told = EmptyStore /\ taker = EmptyStore /\ acker = EmptyStore
    /\ forgotten = {}

MorePackets ==
    Cardinality(DOMAIN flight) + Cardinality(DOMAIN fate) + Cardinality(DOMAIN acks)
        + querySeq <= MaxPackets

(* SendPacket through the stack: the limiter is asked, the memo loses its  *)
(* callback, the packet is sent, the callback is stored under its sequence *)
SendPacket(c, k) ==
    LET p == <<c, nextSeq[c]>> IN
    /\ MorePackets
    /\ sends' = CheckAndUpdateRateLimits(sends, p)
    /\ flight' = Put(flight, p, [callback |-> k, answer |-> "none"])
    /\ nextSeq' = [d \in Channel |-> IF d = c THEN nextSeq[c] + 1 ELSE nextSeq[d]]
    /\ StorePacketCallback(p, k)
    /\ UNCHANGED <<limiter, receives, undos, ackActors, allowed, markers, oracleVars,
                   fate, acks, kept, executed, history>>

Answers == {"result", "error", "garbled", "expired"}

(* The other chain receives the packet and acknowledges it, perhaps with   *)
(* bytes that do not decode, or its timeout passes first.                  *)
PacketAnswered(p, a) ==
    /\ flight[p].answer = "none"
    /\ flight' = Put(flight, p, [callback |-> flight[p].callback, answer |-> a])
    /\ UNCHANGED <<rateVars, hookVars, oracleVars, nextSeq, fate, acks, kept,
                   executed, history>>

(* The commitment goes and the transfer application keeps or returns the   *)
(* coins; then the callback, if there is one, is told and deleted.         *)
PacketEnds(p, how, heard) ==
    /\ flight' = Del(flight, p)
    /\ fate' = Put(fate, p, [how |-> how, callback |-> flight[p].callback,
                             limiter |-> IF heard THEN limiter ELSE NoContract])
    /\ told' = IF p \in DOMAIN callbacks /\ callbacks[p] \notin Broken
               THEN Put(told, p, how) ELSE told
    /\ callbacks' = DeletePacketCallback(p)
    /\ UNCHANGED <<limiter, sends, receives, ackActors, allowed, markers, oracleVars, nextSeq,
                   acks, kept, executed, taker, acker, forgotten>>

CallbackFails(p) == p \in DOMAIN callbacks /\ callbacks[p] \in Broken

(* A callback that fails fails the whole handler. *)
OnAcknowledgementPacket(p, heard) ==
    /\ flight[p].answer \in {"result", "error"}
    /\ ~CallbackFails(p)
    /\ IF IsAckError(flight[p].answer) THEN RevertSentPacket(p, heard)
       ELSE ~heard /\ undos' = undos
    /\ PacketEnds(p, flight[p].answer, heard)

MutOnTimeoutPacket(p, heard) ==
    /\ flight[p].answer = "expired"
    /\ ~CallbackFails(p)
    /\ RevertSentPacket(p, heard)
    /\ PacketEnds(p, "timeout", heard)

(* Here a callback that fails is dropped. *)
OnTimeoutPacket(p, heard) ==
    /\ flight[p].answer = "expired"
    /\ RevertSentPacket(p, heard)
    /\ PacketEnds(p, "timeout", heard)

(* What may become of a packet that arrives: only a contract fails, or     *)
(* answers later, and only a limiter that is configured refuses.           *)
MayEnd(route, ends) ==
    /\ ends \in {"failed", "async"} => route # NoContract
    /\ ends = "limited" => IsContractConfigured

OnRecvPacket(p, home, route, memo, ends) ==
    LET ack == OnRecvPacketOverride(route, ends) IN
    /\ MorePackets
    /\ p \notin DOMAIN acks
    /\ MayEnd(route, ends)
    /\ acks' = Put(acks, p, ack)
    /\ IF ack = "error"
       THEN UNCHANGED <<receives, markers, kept, executed, ackActors, taker>>
       ELSE /\ markers' = IF home THEN markers ELSE AddUpdateMarker(p[1], memo)
            /\ receives' = CheckAndUpdateRateLimits(receives, p)
            /\ kept' = Put(kept, p, [home |-> home, route |-> route])
            /\ executed' = IF route = NoContract THEN executed ELSE executed \cup {p}
            /\ ackActors' = IF ack = "pending" THEN StorePacketAckActor(p, route) ELSE ackActors
            /\ taker' = IF ack = "pending" THEN Put(taker, p, route) ELSE taker
    /\ UNCHANGED <<limiter, sends, undos, callbacks, allowed, oracleVars, nextSeq, flight,
                   fate, told, acker, forgotten>>

(* MsgEmitIBCAck of contract k, which is asked for the packet and for a    *)
(* result or an error.  WriteAcknowledgement wants the capability of the   *)
(* packet's channel here, and a packet not acknowledged so far; the actor  *)
(* stays in the store.                                                     *)
EmitIBCAck(k, channel, n, p, reply) ==
    /\ MayAck(k, <<channel, n>>, p)
    /\ p[1] = channel /\ acks[p] = "pending"
    /\ acks' = Put(acks, p, AckOfReply(reply))
    /\ acker' = Put(acker, p, k)
    /\ UNCHANGED <<rateVars, hookVars, oracleVars, nextSeq, flight, fate, kept, executed, told,
                   taker, forgotten>>

(* Export and import of the chain's state *)
Restart ==
    /\ HooksRestart
    /\ forgotten' = forgotten \cup DOMAIN callbacks
    /\ UNCHANGED <<rateVars, oracleVars, coreVars, told, taker, acker>>

OracleStep ==
    /\ \/ MorePackets /\ SendQuery
       \/ \E n \in DOMAIN queries, a \in Answers : QueryAnswered(n, a)
       \/ \E n \in DOMAIN queries : OnQueryAcknowledged(n) \/ OnQueryTimeout(n)
    /\ UNCHANGED <<rateVars, hookVars, coreVars, history>>

Govern ==
    /\ \/ \E l \in Limiter \cup {NoContract} : UpdateParams(l) /\ UNCHANGED hookVars
       \/ \E a \in AllowLists : UpdateHooksParams(a) /\ UNCHANGED rateVars
    /\ UNCHANGED <<oracleVars, coreVars, history>>

Next ==
    \/ \E c \in Outgoing, k \in Contract \cup {NoContract} : SendPacket(c, k)
    \/ \E p \in DOMAIN flight :
          \/ \E a \in Answers : PacketAnswered(p, a)
          \/ \E heard \in BOOLEAN : OnAcknowledgementPacket(p, heard) \/ OnTimeoutPacket(p, heard)
    \/ \E c \in Channel, n \in 1 .. MaxPackets, home \in BOOLEAN,
          route \in Contract \cup {NoContract}, memo \in Memos, ends \in Ends :
          OnRecvPacket(<<c, n>>, home, route, memo, ends)
    \/ \E k \in Contract, c \in Channel, n \in 1 .. MaxPackets, p \in DOMAIN acks,
          reply \in Replies : EmitIBCAck(k, c, n, p, reply)
    \/ OracleStep \/ Govern \/ Restart

Spec == Init /\ [][Next]_vars

(* Anyone may relay a packet that has been answered or has timed out, and  *)
(* relayers that are paid to do so keep trying.                            *)
Relayed(p) == p \in DOMAIN flight /\ \E h \in BOOLEAN : OnAcknowledgementPacket(p, h) \/ OnTimeoutPacket(p, h)
QueryRelayed(n) ==
    /\ n \in DOMAIN queries /\ (OnQueryAcknowledged(n) \/ OnQueryTimeout(n))
    /\ UNCHANGED <<rateVars, hookVars, coreVars, history>>

FairSpec ==
    /\ Spec
    /\ \A c \in Outgoing, n \in 1 .. MaxPackets : WF_vars(Relayed(<<c, n>>))
    /\ \A n \in 1 .. MaxPackets : WF_vars(QueryRelayed(n))
-----------------------------------------------------------------------------
(* Coins that arrive are here exactly when the sender's chain is not told  *)
(* to return them: a packet is acknowledged with an error only if nothing  *)
(* of it was kept - no coins, no marker, no count at the limiter - also    *)
(* when a contract that took the coins answers later, with a failure; and  *)
(* a packet routed to a contract is kept only if the contract ran.         *)
CreditedUnlessRefused ==
    /\ \A p \in DOMAIN acks : p \in DOMAIN kept <=> acks[p] # "error"
    /\ \A p \in DOMAIN kept : p \in DOMAIN acks /\ (kept[p].route # NoContract => p \in executed)
    /\ \A c \in Channel : c \in DOMAIN markers <=>
          \E p \in DOMAIN kept : p[1] = c /\ ~kept[p].home
    /\ \A e \in receives : e[2] \in DOMAIN kept

(* The limiter is told of a packet that came back, and of no other: undo   *)
(* calls are only for packets refused or timed out, and for each of those  *)
(* the contract named at that time has one, if it counted the packet and   *)
(* the call succeeded.                                                     *)
UndoneIfReturned ==
    /\ \A e \in undos : e[2] \in DOMAIN fate /\ fate[e[2]].how \in {"error", "timeout"}
    /\ \A p \in DOMAIN fate :
          LET e == <<fate[p].limiter, p>> IN
          e \in sends => e \in undos

(* A callback is stored for exactly the packets in flight that asked for   *)
(* one, and once the packet has ended the contract has been told how, with *)
(* one exception: a contract that fails on a timeout.  (An import of the   *)
(* chain's state drops callbacks; those packets are left out.)             *)
CallbacksExact ==
    /\ \A p \in DOMAIN flight \cup DOMAIN callbacks : p \in DOMAIN callbacks <=>
          /\ p \in DOMAIN flight /\ flight[p].callback # NoContract
          /\ p \notin forgotten
    /\ \A p \in DOMAIN told : p \in DOMAIN fate /\ told[p] = fate[p].how
    /\ \A p \in DOMAIN fate :
          \/ p \in DOMAIN told
          \/ fate[p].callback = NoContract \/ p \in forgotten
          \/ fate[p].how = "timeout" /\ fate[p].callback \in Broken

(* An acknowledgement that a contract gives later is given by the contract *)
(* that took the packet, whichever packets share its actor's key.          *)
AckedByTaker == \A p \in DOMAIN acker : p \in DOMAIN taker /\ acker[p] = taker[p]

(* A packet that timed out ends even when its callback fails, one that was *)
(* answered ends unless the answer does not decode or the callback fails,  *)
(* and so does a query: the coins or the answer are not waited for forever.*)
PacketsEnd ==
    /\ \A c \in Outgoing, n \in 1 .. MaxPackets :
          LET p == <<c, n>> IN
          (/\ p \in DOMAIN flight
           /\ \/ flight[p].answer = "expired"
              \/ flight[p].answer \in {"result", "error"} /\ flight[p].callback \notin Broken)
          ~> p \in DOMAIN fate
    /\ \A n \in 1 .. MaxPackets :
          (n \in DOMAIN queries /\ queries[n] \in {"result", "error", "expired"})
          ~> n \in DOMAIN queryEvents
=============================================================================
