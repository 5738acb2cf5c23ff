------------------------------ MODULE Sanction ------------------------------
(***************************************************************************)
(* x/sanction: addresses that may not send, for good or for as long as a   *)
(* governance proposal with enough deposit is open.  A proposal carries a  *)
(* sequence of messages, which name sets of addresses.                     *)
(***************************************************************************)
EXTENDS Accounts

CONSTANTS
    Unsanctionable,  \* module accounts and the quarantine's funds holder
    ProposalId,      \* the numbers that proposals get
    NewParams        \* params that governance sets

Kind == {"sanction", "unsanction"}

Message == [kind : Kind, addrs : SUBSET Address]

(* The deposits that make a proposal work at once; zero, the default,      *)
(* stands for never.                                                       *)
Params == [Kind -> Nat]

ASSUME SanctionAssumption ==
    /\ Unsanctionable \subseteq Address /\ ProposalId \subseteq Nat
    /\ NewParams \subseteq Params

VARIABLES
    sanctioned,      \* addresses with a permanent entry
    temp,            \* <<address, proposal>> |-> kind of its temporary entry
    propIndex,       \* <<proposal, address>> of the temporary entries
    params           \* ImmediateSanctionMinDeposit and ImmediateUnsanctionMinDeposit

sanctionVars == <<sanctioned, temp, propIndex, params>>

(* getLatestTempEntry: the entry of the youngest proposal counts. *)
LatestTemp(a) ==
    {temp[k] : k \in {x \in DOMAIN temp : /\ x[1] = a
                                          /\ \A y \in DOMAIN temp : y[1] = a => y[2] <= x[2]}}

(* IsSanctionedAddr *)
IsSanctionedAddr(a) ==
    /\ a \notin Unsanctionable
    /\ \/ "sanction" \in LatestTemp(a)
       \/ "unsanction" \notin LatestTemp(a) /\ a \in sanctioned
-----------------------------------------------------------------------------
Names(msgs, a) == \E i \in DOMAIN msgs : a \in msgs[i].addrs

(* Of several messages about an address the last one decides. *)
Decides(msgs, kind, a) ==
    \E i \in DOMAIN msgs :
        /\ msgs[i].kind = kind /\ a \in msgs[i].addrs
        /\ \A j \in DOMAIN msgs : j > i => a \notin msgs[j].addrs

CanSanction(msgs) ==
    \A i \in DOMAIN msgs : msgs[i].kind = "sanction" => msgs[i].addrs \cap Unsanctionable = {}

(* SanctionAddresses and UnsanctionAddresses, for the messages of a        *)
(* proposal in their order; every temporary entry of an address goes.      *)
Executed(msgs) ==
    /\ CanSanction(msgs)
    /\ sanctioned' = {a \in Address : IF Names(msgs, a) THEN Decides(msgs, "sanction", a)
                                      ELSE a \in sanctioned}
    /\ temp' = [k \in {x \in DOMAIN temp : ~Names(msgs, x[1])} |-> temp[k]]
    /\ propIndex' = propIndex \ {<<x[2], x[1]>> : x \in {y \in DOMAIN temp : Names(msgs, y[1])}}
    /\ UNCHANGED params

(* The messages for which a deposit is enough *)
Immediate(m, deposit) == params[m.kind] > 0 /\ deposit >= params[m.kind]

Applied(msgs, deposit) ==
    [i \in DOMAIN msgs |-> IF Immediate(msgs[i], deposit) THEN msgs[i]
                           ELSE [kind |-> msgs[i].kind, addrs |-> {}]]

(* addTempEntries for a set of messages that already apply *)
AddTempEntries(id, msgs) ==
    LET new == {a \in Address : Names(msgs, a)}
    IN  /\ temp' = [k \in DOMAIN temp \cup {<<a, id>> : a \in new} |->
                       IF k[2] = id /\ k[1] \in new
                       THEN IF Decides(msgs, "sanction", k[1]) THEN "sanction" ELSE "unsanction"
                       ELSE temp[k]]
        /\ propIndex' = propIndex \cup {<<id, a>> : a \in new}

(* proposalGovHook for a proposal that is open: an address that cannot be  *)
(* sanctioned makes it panic, and the message that called it fails.        *)
OpenHook(id, msgs, deposit) ==
    /\ CanSanction(Applied(msgs, deposit))
    /\ AddTempEntries(id, Applied(msgs, deposit))
    /\ UNCHANGED <<sanctioned, params>>

(* As it would be if only the entries, and not the index, went. *)
MutClosedHook(id) ==
    /\ temp' = [k \in {x \in DOMAIN temp : x[2] # id} |-> temp[k]]
    /\ UNCHANGED <<propIndex, sanctioned, params>>

(* proposalGovHook for one that is rejected, failed or deleted:            *)
(* DeleteGovPropTempEntries                                                *)
ClosedHook(id) ==
    LET gone == {k \in propIndex : k[1] = id}
    IN  /\ temp' = [k \in {x \in DOMAIN temp : <<x[2], x[1]>> \notin gone} |-> temp[k]]
        /\ propIndex' = propIndex \ gone
        /\ UNCHANGED <<sanctioned, params>>

(* UpdateParams *)
UpdateSanctionParams(p) == params' = p /\ UNCHANGED <<sanctioned, temp, propIndex>>
=============================================================================
