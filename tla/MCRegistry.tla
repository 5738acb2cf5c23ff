---------------------------- MODULE MCRegistry -----------------------------
(***************************************************************************)
(* Instance of Attribute and of Metadata for TLC.  The two share no state, *)
(* so each is checked with the other one at rest.                          *)
(*                                                                         *)
(* Names: a root that governance owns, one name below it, and an account   *)
(* that is given two values under it.  Metadata: two scopes of one         *)
(* specification, with one and with several owners, two sessions of        *)
(* different contract specifications, and a signer another one authorized. *)
(***************************************************************************)
EXTENDS Attribute, Metadata, TLC

CONSTANTS ann, gov, mod, s1, s2, sp, c1, c2,
    MaxLoad          \* entries in the stores of x/metadata, see Load

MCAddress == {ann, gov, mod}
MCSegLen == [s \in {"data", "root", "sub"} |-> IF s = "sub" THEN 3 ELSE 4]
MCValueLen == [v \in Value |-> IF v = "x" THEN 1 ELSE 2]
MCAccountData == <<"data">>
MCNames == <<"root">> :> [addr |-> gov, restricted |-> TRUE]
MCParams == [min |-> 1, max |-> 9, levels |-> 2]
MCNewParams == {MCParams, [min |-> 4, max |-> 9, levels |-> 2]}
MCNamesSaid == {<<"root">>, <<"sub", "root">>}
MCRecords == {[addr |-> ann, restricted |-> FALSE], [addr |-> gov, restricted |-> TRUE]}
MCDates == {NoDate, 0, 1}
MCKeys == {<<ann, <<"sub", "root">>, "x">>, <<ann, <<"sub", "root">>, "y">>, <<ann, <<"data">>, "x">>}

P(a, opt) == [addr |-> a, role |-> "owner", optional |-> opt]
OneRole == [r \in Role |-> 1]
MCScopeWrites ==
    {<<s1, [spec |-> sp, owners |-> {P(ann, FALSE)}, access |-> {}, rollup |-> FALSE]>>,
     <<s1, [spec |-> sp, owners |-> {P(ann, TRUE), P(gov, TRUE)}, access |-> {}, rollup |-> TRUE]>>,
     <<s2, [spec |-> sp, owners |-> {P(gov, FALSE)}, access |-> {}, rollup |-> FALSE]>>}
MCSessionWrites ==
    {<<<<s1, "u">>, [spec |-> c1, parties |-> {P(ann, FALSE)}]>>,
     <<<<s1, "v">>, [spec |-> c2, parties |-> {P(ann, FALSE)}]>>}
MCScopeSpecs == sp :> [owners |-> {gov}, contracts |-> {c1, c2}, roles |-> OneRole]
MCContractSpecs == [c \in ContractSpec |-> [owners |-> {gov}, roles |-> OneRole]]
MCRecordSpecs == [x \in {<<c1, "q">>, <<c1, "r">>, <<c2, "r">>} |-> OneRole]
MCScopeSpecWrites == {<<sp, [MCScopeSpecs[sp] EXCEPT !.contracts = {c1}]>>}
MCContractSpecWrites == {<<c, MCContractSpecs[c]>> : c \in ContractSpec}
MCRecordRoles == {OneRole}
MCNewParties == {P(gov, FALSE)}
MCSigners == {{ann}, {gov}}
MCGranted == {<<gov, ann>>}

VARIABLE part        \* which of the two is checked

(* How far the stores of x/metadata are from the genesis state *)
Load ==
    Cardinality(DOMAIN scopes) + Cardinality(DOMAIN sessions) + Cardinality(DOMAIN records)
    + Cardinality(navs) + Cardinality({s \in Scope : Holders(s) # {}})
    + Cardinality(UNION {scopes[s].access : s \in DOMAIN scopes})
    + Cardinality({c \in ContractSpec : \A i \in DOMAIN scopeSpecs : c \notin scopeSpecs[i].contracts})
    + Cardinality(DOMAIN MCRecordSpecs \ DOMAIN recordSpecs)
    + Cardinality(DOMAIN recordSpecs \ DOMAIN MCRecordSpecs)

MCInit ==
    /\ Init /\ MetadataInit
    /\ part \in {"names", "metadata"}
    /\ part = "metadata" => maxLen = CHOOSE m \in MaxLengths : TRUE

MCNext ==
    \/ part = "names" /\ Next /\ UNCHANGED <<mdVars, part>>
    \/ part = "metadata" /\ MetadataNext /\ Load' <= MaxLoad /\ UNCHANGED <<vars, part>>

(* Blocks keep coming. *)
MCSpec ==
    /\ MCInit /\ [][MCNext]_<<vars, mdVars, part>>
    /\ WF_vars(part = "names" /\ BeginBlock /\ UNCHANGED <<mdVars, part>>)
=============================================================================
