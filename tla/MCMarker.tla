------------------------------ MODULE MCMarker ------------------------------
(***************************************************************************)
(* Marker for TLC: two accounts and governance, a denomination that gets   *)
(* markers of several kinds and one that may get none.                     *)
(***************************************************************************)
EXTENDS Marker, FiniteSetsExt

CONSTANTS ann, bob, gov, fee, ibc, mAst, mUsd, ast, usd

MCDenom == {ast, usd}

MCAddress == {ann, bob, gov, fee, ibc, mAst, mUsd}

MCMarkerAddr == [d \in Denom |-> IF d = ast THEN mAst ELSE mUsd]

(* Attributes: the market needs a name below "kyc", which bob has. *)
Kyc == <<"*", "kyc">>

MCAttribute == {Kyc}

MCAttributesOf == [a \in Address |-> IF a = bob THEN { <<"us", "kyc">> } ELSE { <<"kyc">> }]

Ask(d, status, manager, n, access, terms) ==
    [denom |-> d, status |-> status, manager |-> manager, supply |-> n, access |-> access,
     terms |-> terms, nav |-> FALSE]

FixedRestricted(attrs) ==
    [restricted |-> TRUE, fixed |-> TRUE, gov |-> TRUE, forced |-> FALSE, attrs |-> attrs]

Floating == [restricted |-> FALSE, fixed |-> FALSE, gov |-> TRUE, forced |-> FALSE, attrs |-> {}]

Only(a, perms) == [x \in Address |-> IF x = a THEN perms ELSE {}]

AllRights == Access \ {"transfer", "force_transfer"}

LifeMarkers == {Ask(ast, Proposed, ann, 1, Only(ann, AllRights), FixedRestricted({})),
                Ask(ast, Active, NoAddress, 1, Only(ann, AllRights), Floating)}

LifeGrants == { <<bob, {"transfer", "force_transfer"}>> }

MCInitialFunds == [a \in Address |-> IF a = bob THEN Coin(usd, 1) ELSE NoCoins]

SupplyOf(funds) == [d \in Denom |-> MapThenSumSet(LAMBDA a : funds[a][d], Address)]

MCInitialSupply == SupplyOf(MCInitialFunds)

MCLimits == { <<ann, bob, [limit |-> Coin(ast, 1), allow |-> {bob}]>> }

MCChanges == { <<{}, {Kyc}>>, <<{Kyc}, {}>> }

(* States that differ only in who signed the last step are one: no step    *)
(* depends on it, and the properties look at the step's own signers.       *)
StateView == <<bal, supply, markers, deny, navs, grants, maxSupply>>
=============================================================================
