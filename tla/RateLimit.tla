----------------------------- MODULE RateLimit -----------------------------
(***************************************************************************)
(* x/ibcratelimit: the middleware around the transfer application that     *)
(* reports each transfer to a contract governance has named, and reports   *)
(* it again when a transfer that was sent comes back.  The contract keeps  *)
(* the quotas and is code outside src/; here it is the log of the calls it *)
(* accepted, each with the packet it is about.  (The packet it is shown    *)
(* before it is sent has no sequence yet; the log has the one it gets.)    *)
(***************************************************************************)
CONSTANTS
    Limiter,         \* contracts that limit rates
    NoContract       \* the empty address

VARIABLES
    limiter,         \* Params.ContractAddress
    sends,           \* <<contract, packet>> of the "send_packet" calls
    receives,        \* of the "recv_packet" calls
    undos            \* of the "undo_send" calls

rateVars == <<limiter, sends, receives, undos>>

RateInit ==
    /\ limiter = NoContract
    /\ sends = {} /\ receives = {} /\ undos = {}

IsContractConfigured == limiter # NoContract

(* A call that the contract accepts; without a contract none is made.  A   *)
(* call it refuses stops the transfer.                                     *)
CheckAndUpdateRateLimits(log, p) ==
    IF IsContractConfigured THEN log \cup {<<limiter, p>>} ELSE log

MutIsAckError(ack) == ack \in {"error", "result"}

IsAckError(ack) == ack = "error"

(* The contract that is named NOW is told that p came back; when the call  *)
(* fails (~heard) only an event says so.                                   *)
RevertSentPacket(p, heard) ==
    undos' = IF IsContractConfigured /\ heard
             THEN undos \cup {<<limiter, p>>} ELSE undos

UpdateParams(l) ==
    /\ limiter' = l
    /\ UNCHANGED <<sends, receives, undos>>
=============================================================================
