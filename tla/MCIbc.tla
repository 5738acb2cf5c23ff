------------------------------- MODULE MCIbc -------------------------------
(***************************************************************************)
(* Instance of Ibc for TLC: two channels that bear the same name on the    *)
(* chains at their other ends, and a contract whose callback fails.        *)
(***************************************************************************)
EXTENDS Ibc, TLC

CONSTANTS ann

MCCounterparty == [c \in Channel |-> "channel-0"]
MCMemos == {[restricted |-> FALSE, auths |-> {}, forced |-> FALSE],
            [restricted |-> TRUE, auths |-> {ann}, forced |-> FALSE]}
MCAllowLists == {Contract}
=============================================================================
