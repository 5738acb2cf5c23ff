------------------------------ MODULE IbcHooks ------------------------------
(***************************************************************************)
(* x/ibchooks: what surrounds the transfer of coins over IBC.  A sender    *)
(* may name a contract that is told how the packet ends (its callback); a  *)
(* packet that arrives may be routed to a contract, which may ask to       *)
(* acknowledge it later; and a voucher that arrives has a marker, whose    *)
(* transfer authorities the packet's memo lists.                           *)
(*                                                                         *)
(* A packet is <<the channel's name on this chain, sequence>>.             *)
(***************************************************************************)
EXTENDS RateLimit, KVStore

CONSTANTS
    Channel,         \* names of channels
    Counterparty,    \* each channel's name on the other chain
    Contract,        \* contracts that take or send packets
    Account

(* The marker part of a memo *)
Memo == [restricted : BOOLEAN, auths : SUBSET Account, forced : BOOLEAN]

VARIABLES
    callbacks,       \* packet sent |-> contract
    ackActors,       \* <<channel on the other chain, sequence>> |-> contract, packet
    allowed,         \* Params.AllowedAsyncAckContracts
    markers          \* channel |-> marker of the vouchers it brings

hookVars == <<callbacks, ackActors, allowed, markers>>

HooksInit ==
    /\ callbacks = EmptyStore /\ ackActors = EmptyStore
    /\ allowed = {} /\ markers = EmptyStore

(* SendPacketAfterHook, of a packet that asked for callback k *)
StorePacketCallback(p, k) ==
    callbacks' = IF k = NoContract THEN callbacks ELSE Put(callbacks, p, k)

MutDeletePacketCallback(p) == callbacks

DeletePacketCallback(p) == Del(callbacks, p)

(* The first packet makes the marker; a later one replaces the grants of a *)
(* restricted marker and leaves any other alone.                           *)
AddUpdateMarker(c, memo) ==
    IF c \notin DOMAIN markers THEN Put(markers, c, memo)
    ELSE IF ~markers[c].restricted THEN markers
    ELSE Put(markers, c, [restricted |-> TRUE, auths |-> memo.auths, forced |-> memo.forced])

(* GetPacketAckKey takes the packet's SOURCE channel: the name the other   *)
(* chain gives it.                                                         *)
AckKey(p) == <<Counterparty[p[1]], p[2]>>

StorePacketAckActor(p, k) == Put(ackActors, AckKey(p), [contract |-> k, packet |-> p])

(* What a packet that arrives says and meets: `home` when it brings back   *)
(* coins of this chain, the contract it is routed to, its memo, and how    *)
(* far it gets.                                                            *)
Ends == {"badMemo", "limited", "refused", "failed", "done", "async"}

(* OnRecvPacketOverride: an error wherever a step fails, nothing yet when  *)
(* an allowed contract will acknowledge, and otherwise success.            *)
OnRecvPacketOverride(route, ends) ==
    IF ends \in {"badMemo", "limited", "refused", "failed"} THEN "error"
    ELSE IF ends = "async" THEN IF route \in allowed THEN "pending" ELSE "error"
    ELSE "result"

MutMayAck(k, key, p) == key \in DOMAIN ackActors /\ ackActors[key].contract = k

(* EmitIBCAck is for the contract on record, which must come up with the   *)
(* packet on record (hashPacket leaves the data out).                      *)
MayAck(k, key, p) == key \in DOMAIN ackActors /\ ackActors[key] = [contract |-> k, packet |-> p]

Replies == {"ack_response", "ack_error"}

MutAckOfReply(reply) == IF reply = "ack_error" THEN "error" ELSE "result"

(* An error the contract reports later makes a SUCCESS acknowledgement     *)
(* (NewSuccessAckError): the coins have been taken.                        *)
AckOfReply(reply) == IF reply = "ack_error" THEN "failure" ELSE "result"

UpdateHooksParams(a) ==
    /\ allowed' = a
    /\ UNCHANGED <<callbacks, ackActors, markers>>

(* ExportGenesis and InitGenesis carry the parameters alone; the markers   *)
(* are in the genesis of x/marker.                                         *)
HooksRestart ==
    /\ callbacks' = EmptyStore /\ ackActors' = EmptyStore
    /\ UNCHANGED <<allowed, markers>>
=============================================================================
