------------------------------- MODULE Oracle -------------------------------
(***************************************************************************)
(* x/oracle: a query is sent to the oracle of another chain, with a minute *)
(* to answer, and the sender waits for the event that reports its end.     *)
(***************************************************************************)
EXTENDS Naturals, KVStore

VARIABLES
    querySeq,        \* next sequence on the query channel
    queries,         \* sequence |-> what came of the packet so far
    queryEvents      \* sequence |-> the event emitted at its end

oracleVars == <<querySeq, queries, queryEvents>>

OracleInit ==
    /\ querySeq = 1
    /\ queries = EmptyStore /\ queryEvents = EmptyStore

(* SendQueryOracle: QueryOracle, SendQuery and createOutgoingPacket, which *)
(* returns the sequence it read before sending.                            *)
SendQuery ==
    /\ queries' = Put(queries, querySeq, "none")
    /\ querySeq' = querySeq + 1
    /\ UNCHANGED queryEvents

(* What the channel and the other chain do with a query (outside src/) *)
QueryAnswered(n, a) ==
    /\ queries[n] = "none"
    /\ queries' = Put(queries, n, a)
    /\ UNCHANGED <<querySeq, queryEvents>>

QueryEnds(n, event) ==
    /\ queries' = Del(queries, n)
    /\ queryEvents' = Put(queryEvents, n, event)
    /\ UNCHANGED querySeq

(* An answer that does not decode is an error: the packet stays. *)
OnQueryAcknowledged(n) ==
    /\ queries[n] \in {"result", "error"}
    /\ QueryEnds(n, queries[n])

OnQueryTimeout(n) ==
    /\ queries[n] = "expired"
    /\ QueryEnds(n, "timeout")
=============================================================================
