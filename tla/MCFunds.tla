------------------------------ MODULE MCFunds ------------------------------
(***************************************************************************)
(* Instance of Funds for TLC: Ann has coins and is proposed to be         *)
(* sanctioned, Bob quarantines, and a record to Bob from Ann and Cy comes  *)
(* with the genesis state.                                                 *)
(***************************************************************************)
EXTENDS Funds, TLC

CONSTANTS ann, bob, cy, gov, holder

MCAddress == {ann, bob, cy, gov, holder}
MCUnsanctionable == {gov, holder}
MCBlocked == {gov}
MCProposalId == 1..2
MCParams == {[sanction |-> 0, unsanction |-> 1], [sanction |-> 1, unsanction |-> 2]}

MCBalances == [a \in MCAddress |-> CASE a = ann -> 2 [] a = holder -> 1 [] OTHER -> 0]

MCRecords == <<bob, {ann, cy}>> :> [un |-> {ann, cy}, acc |-> {}, coins |-> 1, declined |-> FALSE]

On(a) == [kind |-> "sanction", addrs |-> {a}]
Off(a) == [kind |-> "unsanction", addrs |-> {a}]

MCProposals == {<<On(ann)>>, <<Off(ann), On(gov)>>, <<On(ann), Off(ann)>>}

MCAnswers == {<<{ann}, TRUE>>, <<{ann}, FALSE>>, <<{cy}, FALSE>>, <<{ann, cy}, FALSE>>, <<{gov}, FALSE>>}
MCUpdates == {ann :> "decline", ann :> "none"}
=============================================================================
