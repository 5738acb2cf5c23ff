------------------------------- MODULE Marker -------------------------------
(***************************************************************************)
(* x/marker: the life of a denomination, from a proposal to its removal,   *)
(* with the supply, the access list, the transfers of restricted coins and *)
(* the block's own work.  A handler is atomic: a message that fails leaves *)
(* no trace, so only the ones that succeed are steps.                      *)
(***************************************************************************)
EXTENDS MarkerRestriction

CONSTANTS
    Authority,       \* the governance module account
    Usd,             \* the price denomination that needs no marker
    Blocked,         \* addresses that may not receive funds
    Keyed,           \* accounts with a signed transaction, groups and markets
    IbcEscrow,       \* the escrow account of the IBC channel
    OpenDenom,       \* denominations that pass the unrestricted denom regex
    EnableGovernance,
    BurnedElsewhere, \* denominations that other modules burn (slashing)
    InitialFunds, InitialSupply, InitialMaxSupply,
    MaxRecorded,     \* bound: supply recorded for a marker that is not active
    Caller,          \* the accounts that send messages
    NewMarkers,      \* the markers that are asked for
    Grants,          \* <<address, permissions>> of the access grants tried
    Amounts,         \* amounts of one denomination
    Limits,          \* <<granter, grantee, authorization>> that accounts give
    DenyTargets,     \* addresses put on the send-deny list
    AttrChanges,     \* <<remove, add>> of required attributes
    NewMaxSupplies,
    Agents           \* sets of transfer agents of a send

VARIABLES
    bal,             \* bank balances
    supply,          \* the bank's supply
    markers,         \* denomination |-> marker
    deny,            \* the send-deny list, <<denomination, address>>
    navs,            \* <<denomination, price denomination>> with a net asset value
    grants,          \* <<grantee, granter>> |-> MarkerTransferAuthorization
    maxSupply,       \* parameter
    signers          \* history: who stands behind the last step

vars == <<bal, supply, markers, deny, navs, grants, maxSupply, signers>>

bank == <<bal, supply>>

Request == [denom : Denom, status : Proposed..Active, manager : Address \cup {NoAddress},
            supply : Nat, access : [Address -> SUBSET Access], terms : Terms, nav : BOOLEAN]

Authorization == [limit : Coins, allow : SUBSET Address]

ASSUME MarkerAssumption ==
    /\ Authority \in Address /\ Caller \subseteq Address
    /\ IbcEscrow \in Address \ {FeeCollector}
    /\ Usd \in Denom /\ Amounts \subseteq Nat /\ InitialMaxSupply \in Nat
    /\ NewMaxSupplies \subseteq Nat /\ MaxRecorded \in Nat
    /\ InitialFunds \in [Address -> Coins] /\ InitialSupply \in Coins
    /\ NewMarkers \subseteq Request
    /\ Grants \subseteq Address \X (SUBSET Access)
    /\ Limits \subseteq Address \X Address \X Authorization /\ DenyTargets \subseteq Address
    /\ AttrChanges \subseteq (SUBSET Attribute) \X (SUBSET Attribute)
    /\ EnableGovernance \in BOOLEAN /\ Agents \subseteq SUBSET Address

TypeOK ==
    /\ bal \in [Address -> Coins] /\ supply \in Coins
    /\ DOMAIN markers \subseteq Denom /\ \A d \in DOMAIN markers : markers[d] \in Marker
    /\ deny \subseteq Denom \X Address /\ navs \subseteq Denom \X Denom
    /\ \A k \in DOMAIN grants : k \in Address \X Address /\ grants[k] \in Authorization
    /\ maxSupply \in Nat /\ signers \subseteq Address

Init ==
    /\ bal = InitialFunds /\ supply = InitialSupply
    /\ markers = EmptyStore /\ deny = {} /\ navs = {} /\ grants = EmptyStore
    /\ maxSupply = InitialMaxSupply /\ signers = {}
-----------------------------------------------------------------------------
(* The bank: SendCoins, with the restriction asked for beforehand. *)
Sent(b, from, to, c) ==
    LET less == [a \in Address |-> IF a = from THEN Minus(b[a], c) ELSE b[a]]
    IN  [a \in Address |-> IF a = to THEN Plus(less[a], c) ELSE less[a]]

(* CurrentEscrow and CurrentCirculation *)
Escrow(d) == bal[MarkerAddr[d]][d]

(* AdjustCirculation: mint into the marker's account, or burn from it. *)
CanAdjust(d, n) == supply[d] <= n + Escrow(d)

Adjusted(d, n) ==
    [a \in Address |-> IF a = MarkerAddr[d] THEN Minus(Plus(bal[a], Coin(d, n)), Coin(d, supply[d]))
                       ELSE bal[a]]

SupplySet(d, n) == [e \in Denom |-> IF e = d THEN n ELSE supply[e]]

AdjustCirculation(d, n) == CanAdjust(d, n) /\ bal' = Adjusted(d, n) /\ supply' = SupplySet(d, n)

(* SetMarker, which panics on a marker that is not valid *)
SetMarker(d, m) == Validate(d, m) /\ markers' = Put(markers, d, m)

(* As it would be if the recorded supply were not updated. *)
MutTracked(m, n) == m

(* IncreaseSupply and DecreaseSupply record the supply of a fixed marker. *)
Tracked(m, n) == IF m.terms.fixed THEN SetSupply(m, n) ELSE m

GovernedBy(s, d) == s = Authority /\ markers[d].terms.gov
-----------------------------------------------------------------------------
(* AddMarkerAccount; a net asset value may come with the marker. *)
AddMarkerAccount(d, m, nav) ==
    /\ d \notin DOMAIN markers /\ MarkerAddr[d] \notin Keyed
    /\ SetMarker(d, m)
    /\ nav => d # Usd
    /\ navs' = IF nav THEN navs \cup {<<d, Usd>>} ELSE navs
    /\ UNCHANGED <<deny, grants, maxSupply>>

RequestOk(r) == (r.terms.forced \/ r.terms.attrs # {}) => r.terms.restricted

WithGov(t, gov) == [restricted |-> t.restricted, fixed |-> t.fixed, gov |-> t.gov \/ gov,
                    forced |-> t.forced, attrs |-> t.attrs]

(* AddMarker: governance may ask for more than others. *)
AddMarker(from, r) ==
    LET byGov   == from = Authority
        manager == IF r.manager # NoAddress \/ r.status = Active THEN r.manager ELSE from
        m       == NewMarkerAccount(r.status, manager, r.supply, r.access,
                                    WithGov(r.terms, ~byGov /\ EnableGovernance))
    IN  /\ RequestOk(r) /\ (r.status = Proposed => r.manager # NoAddress)
        /\ ~byGov => r.status # Active /\ r.denom \in OpenDenom
        /\ AddMarkerAccount(r.denom, m, r.nav)
        /\ IF r.status = Active THEN AdjustCirculation(r.denom, r.supply) ELSE UNCHANGED bank
        /\ signers' = {from}

(* AddFinalizeActivateMarker: a marker that could be finalized and then    *)
(* activated by its manager, in one message.                               *)
AddFinalizeActivateMarker(from, r) ==
    LET terms == WithGov(r.terms, EnableGovernance)
        m(s)  == NewMarkerAccount(s, r.manager, r.supply, r.access, terms)
    IN  /\ RequestOk(r) /\ r.manager # NoAddress /\ r.denom \in OpenDenom
        /\ \E a \in Address : r.access[a] # {}
        /\ Validate(r.denom, m(Proposed)) /\ Validate(r.denom, m(Finalized))
        /\ supply[r.denom] <= r.supply
        /\ AddMarkerAccount(r.denom, m(Active), r.nav)
        /\ AdjustCirculation(r.denom, r.supply)
        /\ signers' = {from}
-----------------------------------------------------------------------------
(* accountControlsAllSupply *)
accountControlsAllSupply(a, d) == bal[a][d] = markers[d].supply

(* AddAccess and RemoveAccess *)
MayChangeAccess(a, d) ==
    LET m == markers[d]
    IN  \/ m.status = Proposed /\ a = m.manager
        \/ /\ m.status \in {Finalized, Active}
           /\ \/ m.status = Finalized /\ a = m.manager
              \/ HasAccess(m, a, "admin")
              \/ accountControlsAllSupply(a, d)

AddAccess(caller, d, grant) ==
    /\ MayChangeAccess(caller, d)
    /\ SetMarker(d, GrantAccess(markers[d], grant[1], grant[2]))
    /\ signers' = {caller}
    /\ UNCHANGED <<bank, deny, navs, grants, maxSupply>>

RemoveAccess(caller, d, a) ==
    /\ MayChangeAccess(caller, d)
    /\ SetMarker(d, RevokeAccess(markers[d], a))
    /\ signers' = {caller}
    /\ UNCHANGED <<bank, deny, navs, grants, maxSupply>>

(* FinalizeMarker *)
FinalizeMarker(caller, d) ==
    LET m == markers[d]
    IN  /\ m.manager = caller /\ m.status = Proposed
        /\ supply[d] <= m.supply
        /\ SetMarker(d, SetStatus(m, Finalized))
        /\ signers' = {caller}
        /\ UNCHANGED <<bank, deny, navs, grants, maxSupply>>

(* ActivateMarker *)
ActivateMarker(caller, d) ==
    LET m == markers[d]
    IN  /\ m.manager = caller /\ m.status = Finalized
        /\ supply[d] <= m.supply
        /\ AdjustCirculation(d, m.supply)
        /\ SetMarker(d, SetStatus(m, Active))
        /\ signers' = {caller}
        /\ UNCHANGED <<deny, navs, grants, maxSupply>>

(* CancelMarker and DeleteMarker: is the whole supply in the marker? *)
AllInEscrow(d) == supply[d] <= Escrow(d)

(* CancelMarker; cancelling twice does nothing. *)
CancelMarker(caller, d) ==
    LET m == markers[d]
    IN  /\ \/ m.status \in {Finalized, Active} /\ HasAccess(m, caller, "delete") /\ AllInEscrow(d)
           \/ m.status = Proposed /\ (HasAccess(m, caller, "delete") \/ m.manager = caller)
        /\ SetMarker(d, SetStatus(m, Cancelled))
        /\ signers' = {caller}
        /\ UNCHANGED <<bank, deny, navs, grants, maxSupply>>

(* DeleteMarker burns the supply and leaves the marker to the next block. *)
DeleteMarker(caller, d) ==
    LET m == markers[d]
    IN  /\ HasAccess(m, caller, "delete") \/ m.manager = caller
        /\ m.status = Cancelled /\ AllInEscrow(d)
        /\ \A e \in Denom \ {d} : bal[MarkerAddr[d]][e] = 0
        /\ AdjustCirculation(d, 0)
        /\ SetMarker(d, SetStatus(Tracked(m, 0), Destroyed))
        /\ signers' = {caller}
        /\ UNCHANGED <<deny, navs, grants, maxSupply>>
-----------------------------------------------------------------------------
(* WithdrawCoins, from the balances b *)
CanWithdraw(b, caller, to, d, c) ==
    /\ HasAccess(markers[d], caller, "withdraw")
    /\ validateSendToMarker(markers, to, {caller})
    /\ markers[d].status = Active /\ to \notin Blocked
    /\ BypassAllowed(markers, to, c)
    /\ Covers(b[MarkerAddr[d]], c)

Withdraw(caller, to, d, c) ==
    /\ CanWithdraw(bal, caller, to, d, c)
    /\ bal' = Sent(bal, MarkerAddr[d], to, c)
    /\ signers' = {caller}
    /\ UNCHANGED <<supply, markers, deny, navs, grants, maxSupply>>

(* MintCoin and the supply increase proposal before activation *)
RecordMore(d, n) ==
    LET m == markers[d]
    IN  /\ m.status \in {Proposed, Finalized} /\ m.supply + n <= MaxRecorded
        /\ SetMarker(d, SetSupply(m, m.supply + n))
        /\ UNCHANGED bank

(* IncreaseSupply; paid are the balances in the end. *)
IncreaseSupply(d, n, paid) ==
    LET total == supply[d] + n
    IN  /\ markers[d].status = Active
        /\ total <= maxSupply
        /\ SetMarker(d, Tracked(markers[d], total))
        /\ supply' = SupplySet(d, total)
        /\ bal' = paid

(* Mint; with a recipient the new coins are withdrawn at once. *)
Mint(caller, d, n, to) ==
    LET minted == Adjusted(d, supply[d] + n)
    IN  /\ HasAccess(markers[d], caller, "mint")
        /\ \/ to = NoAddress /\ RecordMore(d, n)
           \/ to = NoAddress /\ IncreaseSupply(d, n, minted)
           \/ /\ to # NoAddress /\ CanWithdraw(minted, caller, to, d, Coin(d, n))
              /\ IncreaseSupply(d, n, Sent(minted, MarkerAddr[d], to, Coin(d, n)))
        /\ signers' = {caller}
        /\ UNCHANGED <<deny, navs, grants, maxSupply>>

(* DecreaseSupply *)
DecreaseSupply(d, n) ==
    /\ n <= supply[d] /\ n <= Escrow(d)
    /\ SetMarker(d, Tracked(markers[d], supply[d] - n))
    /\ AdjustCirculation(d, supply[d] - n)

(* BurnCoin *)
Burn(caller, d, n) ==
    LET m == markers[d]
    IN  /\ HasAccess(m, caller, "burn")
        /\ \/ /\ m.status \in {Proposed, Finalized} /\ n <= m.supply
              /\ SetMarker(d, SetSupply(m, m.supply - n))
              /\ UNCHANGED bank
           \/ m.status = Active /\ DecreaseSupply(d, n)
        /\ signers' = {caller}
        /\ UNCHANGED <<deny, navs, grants, maxSupply>>
-----------------------------------------------------------------------------
(* authz, code outside src/: an account gives, renews or takes back the    *)
(* right to move its restricted coins.                                     *)
Grant(granter, grantee, auth) ==
    /\ granter # grantee /\ auth.limit # NoCoins /\ ~IsMarker(markers, granter)
    /\ grants' = Put(grants, <<grantee, granter>>, auth)
    /\ signers' = {granter}
    /\ UNCHANGED <<bank, markers, deny, navs, maxSupply>>

Revoke(granter, grantee) ==
    /\ <<grantee, granter>> \in DOMAIN grants
    /\ grants' = Del(grants, <<grantee, granter>>)
    /\ signers' = {granter}
    /\ UNCHANGED <<bank, markers, deny, navs, maxSupply>>

(* Accept: what is left of an authorization is saved without its list. *)
Left(auth, c) == [limit |-> Minus(auth.limit, c), allow |-> {}]

(* As it would be if the authorization were only looked at. *)
MutAuthzHandler(admin, from, to, c) ==
    /\ <<admin, from>> \in DOMAIN grants
    /\ LET auth == grants[<<admin, from>>]
       IN  Covers(auth.limit, c) /\ (auth.allow # {} => to \in auth.allow)
    /\ UNCHANGED grants

(* authzHandler *)
authzHandler(admin, from, to, c) ==
    /\ <<admin, from>> \in DOMAIN grants
    /\ LET auth == grants[<<admin, from>>]
       IN  /\ Covers(auth.limit, c) /\ (auth.allow # {} => to \in auth.allow)
           /\ grants' = IF auth.limit = c THEN Del(grants, <<admin, from>>)
                        ELSE Put(grants, <<admin, from>>, Left(auth, c))

canForceTransferFrom(from) == from \in Keyed \/ IsMarker(markers, from)

(* TransferCoin *)
Transfer(admin, from, to, d, n) ==
    LET m     == markers[d]
        c     == Coin(d, n)
        force == HasAccess(m, admin, "force_transfer")
    IN  /\ m.status = Active /\ m.terms.restricted
        /\ HasAccess(m, admin, "transfer") \/ force
        /\ validateSendToMarker(markers, to, {admin})
        /\ \/ admin = from /\ UNCHANGED grants
           \/ /\ admin # from /\ m.terms.forced /\ force /\ canForceTransferFrom(from)
              /\ UNCHANGED grants
           \/ /\ admin # from /\ ~(m.terms.forced /\ force)
              /\ authzHandler(admin, from, to, c)
        /\ to \notin Blocked /\ BypassAllowed(markers, to, c) /\ Covers(bal[from], c)
        /\ bal' = Sent(bal, from, to, c)
        /\ signers' = {admin}
        /\ UNCHANGED <<supply, markers, deny, navs, maxSupply>>

(* IbcTransferCoin: the escrow account of the channel gets the transfer    *)
(* right on the way.  The receiver is an address of the other chain.       *)
IbcTransfer(admin, sender, receiver, d, n) ==
    LET m == markers[d]
        c == Coin(d, n)
    IN  /\ n > 0 /\ d \notin IbcDenom
        /\ m.terms.restricted /\ HasAccess(m, admin, "transfer")
        /\ \/ admin = sender /\ UNCHANGED grants
           \/ admin # sender /\ authzHandler(admin, sender, receiver, c)
        /\ SetMarker(d, GrantAccess(m, IbcEscrow, {"transfer"}))
        /\ Covers(bal[sender], c) /\ sender \notin Blocked
        /\ bal' = Sent(bal, sender, IbcEscrow, c)
        /\ signers' = {admin}
        /\ UNCHANGED <<supply, deny, navs, maxSupply>>

(* The bank's MsgSend, code outside src/, under SendRestrictionFn; the     *)
(* transfer agents in the context stand behind the send too.               *)
Send(from, to, agents, c) ==
    /\ to \notin Blocked /\ Covers(bal[from], c)
    /\ SendAllowed(markers, deny, from, to, agents, c)
    /\ bal' = Sent(bal, from, to, c)
    /\ signers' = agents \cup (IF IsMarker(markers, from) THEN {} ELSE {from})
    /\ UNCHANGED <<supply, markers, deny, navs, grants, maxSupply>>
-----------------------------------------------------------------------------
MayManageTransfers(by, d) ==
    /\ markers[d].terms.restricted
    /\ IF by = Authority THEN markers[d].terms.gov ELSE HasAccess(markers[d], by, "transfer")

UpdateRequiredAttributes(by, d, change) ==
    LET t == markers[d].terms
    IN  /\ MayManageTransfers(by, d)
        /\ change[1] \subseteq t.attrs /\ change[2] \cap (t.attrs \ change[1]) = {}
        /\ SetMarker(d, SetTerms(markers[d],
               [restricted |-> t.restricted, fixed |-> t.fixed, gov |-> t.gov, forced |-> t.forced,
                attrs |-> (t.attrs \ change[1]) \cup change[2]]))
        /\ signers' = {by}
        /\ UNCHANGED <<bank, deny, navs, grants, maxSupply>>

(* UpdateForcedTransfer, for governance *)
UpdateForcedTransfer(d) ==
    LET t == markers[d].terms
    IN  /\ t.restricted /\ t.gov
        /\ SetMarker(d, SetTerms(markers[d],
               [restricted |-> t.restricted, fixed |-> t.fixed, gov |-> t.gov,
                forced |-> ~t.forced, attrs |-> t.attrs]))
        /\ signers' = {Authority}
        /\ UNCHANGED <<bank, deny, navs, grants, maxSupply>>

(* UpdateSendDenyList, one address at a time *)
UpdateSendDenyList(by, d, a) ==
    /\ MayManageTransfers(by, d)
    /\ deny' = IF <<d, a>> \in deny THEN deny \ {<<d, a>>} ELSE deny \cup {<<d, a>>}
    /\ signers' = {by}
    /\ UNCHANGED <<bank, markers, navs, grants, maxSupply>>

(* AddNetAssetValues *)
AddNetAssetValues(by, d, price) ==
    /\ GovernedBy(by, d) \/ markers[d].access[by] # {}
    /\ price # d /\ (price = Usd \/ price \in DOMAIN markers)
    /\ navs' = navs \cup {<<d, price>>}
    /\ signers' = {by}
    /\ UNCHANGED <<bank, markers, deny, grants, maxSupply>>
-----------------------------------------------------------------------------
(* The proposals of governance, for the markers that allow it. *)

SupplyIncreaseProposal(d, n, to) ==
    LET minted == Adjusted(d, supply[d] + n)
    IN  /\ markers[d].terms.gov
        /\ \/ RecordMore(d, n)
           \/ to = NoAddress /\ IncreaseSupply(d, n, minted)
           \/ /\ to # NoAddress /\ BypassAllowed(markers, to, Coin(d, n))
              /\ IncreaseSupply(d, n, Sent(minted, MarkerAddr[d], to, Coin(d, n)))
        /\ signers' = {Authority}
        /\ UNCHANGED <<deny, navs, grants, maxSupply>>

SupplyDecreaseProposal(d, n) ==
    /\ markers[d].terms.gov
    /\ DecreaseSupply(d, n)
    /\ signers' = {Authority}
    /\ UNCHANGED <<deny, navs, grants, maxSupply>>

SetAdministratorProposal(d, grant) ==
    /\ markers[d].terms.gov
    /\ SetMarker(d, GrantAccess(markers[d], grant[1], grant[2]))
    /\ signers' = {Authority}
    /\ UNCHANGED <<bank, deny, navs, grants, maxSupply>>

RemoveAdministratorProposal(d, a) ==
    /\ markers[d].terms.gov
    /\ SetMarker(d, RevokeAccess(markers[d], a))
    /\ signers' = {Authority}
    /\ UNCHANGED <<bank, deny, navs, grants, maxSupply>>

ChangeStatusProposal(d, s) ==
    LET m == markers[d]
    IN  /\ m.terms.gov /\ m.status <= s
        /\ \/ s \notin {Active, Destroyed} /\ UNCHANGED bank
           \/ s = Active /\ AdjustCirculation(d, m.supply)
           \/ s = Destroyed /\ m.status = Cancelled /\ AdjustCirculation(d, 0)
        /\ SetMarker(d, SetStatus(m, s))
        /\ signers' = {Authority}
        /\ UNCHANGED <<deny, navs, grants, maxSupply>>

WithdrawEscrowProposal(d, to, c) ==
    /\ markers[d].terms.gov
    /\ BypassAllowed(markers, to, c) /\ Covers(bal[MarkerAddr[d]], c)
    /\ bal' = Sent(bal, MarkerAddr[d], to, c)
    /\ signers' = {Authority}
    /\ UNCHANGED <<supply, markers, deny, navs, grants, maxSupply>>

UpdateParams(max) ==
    /\ maxSupply' = max
    /\ signers' = {Authority}
    /\ UNCHANGED <<bank, markers, deny, navs, grants>>
-----------------------------------------------------------------------------
(* Another module burns coins, by which the supply falls behind. *)
BurnElsewhere(a, d, n) ==
    /\ d \in BurnedElsewhere /\ n <= bal[a][d]
    /\ bal' = [x \in Address |-> IF x = a THEN Minus(bal[a], Coin(d, n)) ELSE bal[x]]
    /\ supply' = SupplySet(d, supply[d] - n)
    /\ signers' = {a}
    /\ UNCHANGED <<markers, deny, navs, grants, maxSupply>>

OffTarget(d) ==
    markers[d].status = Active /\ markers[d].terms.fixed /\ markers[d].supply # supply[d]

(* As it would be if the deny list outlived its marker. *)
MutRemoveMarkers(gone) ==
    /\ markers' = [d \in DOMAIN markers \ gone |-> markers[d]]
    /\ navs' = {k \in navs : k[1] \notin gone}
    /\ deny' = deny

(* RemoveMarker, for each of them *)
RemoveMarkers(gone) ==
    /\ markers' = [d \in DOMAIN markers \ gone |-> markers[d]]
    /\ navs' = {k \in navs : k[1] \notin gone}
    /\ deny' = {k \in deny : k[1] \notin gone}

(* BeginBlocker: it panics when a supply is too large and cannot be burned. *)
BeginBlocker ==
    LET off == {d \in DOMAIN markers : OffTarget(d)}
        own(a) == [d \in Denom |-> IF d \in off /\ a = MarkerAddr[d]
                                   THEN bal[a][d] + markers[d].supply - supply[d] ELSE bal[a][d]]
    IN  /\ \A d \in off : CanAdjust(d, markers[d].supply)
        /\ bal' = [a \in Address |-> own(a)]
        /\ supply' = [d \in Denom |-> IF d \in off THEN markers[d].supply ELSE supply[d]]
        /\ RemoveMarkers({d \in DOMAIN markers : markers[d].status = Destroyed})
        /\ signers' = {}
        /\ UNCHANGED <<grants, maxSupply>>
-----------------------------------------------------------------------------
(* What holders of rights in a marker ask for *)
Managed(a, d) ==
    \/ \E g \in Grants : AddAccess(a, d, g)
    \/ \E g \in Grants : RemoveAccess(a, d, g[1])
    \/ FinalizeMarker(a, d) \/ ActivateMarker(a, d) \/ CancelMarker(a, d) \/ DeleteMarker(a, d)
    \/ \E n \in Amounts, to \in Caller \cup {NoAddress} : Mint(a, d, n, to)
    \/ \E n \in Amounts : Burn(a, d, n)
    \/ \E n \in Amounts, e \in Denom, to \in Address : Withdraw(a, to, d, Coin(e, n))
    \/ \E change \in AttrChanges : UpdateRequiredAttributes(a, d, change)
    \/ \E x \in DenyTargets : UpdateSendDenyList(a, d, x)
    \/ \E price \in Denom : AddNetAssetValues(a, d, price)

Moved(a, d, n) ==
    \/ \E from, to \in Address : Transfer(a, from, to, d, n)
    \/ \E from, to \in Caller : IbcTransfer(a, from, to, d, n)

(* What governance decides about a marker *)
Governed(d) ==
    \/ \E n \in Amounts, to \in Address \cup {NoAddress} : SupplyIncreaseProposal(d, n, to)
    \/ \E n \in Amounts : SupplyDecreaseProposal(d, n)
    \/ \E g \in Grants : SetAdministratorProposal(d, g)
    \/ \E g \in Grants : RemoveAdministratorProposal(d, g[1])
    \/ \E s \in Proposed..Destroyed : ChangeStatusProposal(d, s)
    \/ \E n \in Amounts, e \in Denom, to \in Address : WithdrawEscrowProposal(d, to, Coin(e, n))
    \/ UpdateForcedTransfer(d)

Next ==
    \/ \E a \in Caller, r \in NewMarkers : AddMarker(a, r)
    \/ \E a \in Caller, r \in NewMarkers : AddFinalizeActivateMarker(a, r)
    \/ \E a \in Caller, d \in DOMAIN markers : Managed(a, d)
    \/ \E a \in Caller, d \in DOMAIN markers, n \in Amounts : Moved(a, d, n)
    \/ \E d \in DOMAIN markers : Governed(d)
    \/ \E l \in Limits : Grant(l[1], l[2], l[3])
    \/ \E l \in Limits : Revoke(l[1], l[2])
    \/ \E from, to \in Address, agents \in Agents, d \in Denom, n \in Amounts :
          Send(from, to, agents, Coin(d, n))
    \/ \E a \in Address, d \in Denom, n \in Amounts : BurnElsewhere(a, d, n)
    \/ \E max \in NewMaxSupplies : UpdateParams(max)
    \/ BeginBlocker

Spec == Init /\ [][Next]_vars
-----------------------------------------------------------------------------
(* The invariant that the module registers (keeper/invariants.go) and on   *)
(* which BeginBlocker counts: the bank's supply of an active marker with a *)
(* fixed supply is what the marker records.  Burns of other modules may    *)
(* bring it below until the next block, but nothing brings it above, so a  *)
(* block has nothing to burn and does not panic.                           *)
SupplyInvariant ==
    \A d \in DOMAIN markers : markers[d].status = Active /\ markers[d].terms.fixed =>
        /\ supply[d] <= markers[d].supply
        /\ d \notin BurnedElsewhere => supply[d] = markers[d].supply

NoSupplyLeft == \A d \in DOMAIN markers : markers[d].status = Destroyed => supply[d] <= 0

NoRecordsLeft == \A k \in deny \cup navs : k[1] \in DOMAIN markers

(* A denomination can be given to a new marker without leftovers of the    *)
(* old one: when a marker is destroyed the bank has no supply of its coin  *)
(* and no account holds any (DeleteMarker, ChangeStatusProposal), and when *)
(* the next block removes the marker its deny list and its net asset       *)
(* values go with it (RemoveMarker).                                       *)
NothingLeft ==
    /\ NoSupplyLeft /\ NoRecordsLeft
    /\ \A d \in DOMAIN markers : markers[d].status = Destroyed => \A a \in Address : bal[a][d] = 0

FeeStep ==
    \A d \in Denom : Restricted(markers, d) => bal'[FeeCollector][d] <= bal[FeeCollector][d]

(* A restricted coin never reaches the fee collector, whoever sends it,    *)
(* with a bypass or without (SendRestrictionFn).                           *)
FeeCollectorKeptOut == [][FeeStep]_vars

Forced(s, d) ==
    d \in DOMAIN markers /\ markers[d].terms.forced /\ HasAccess(markers[d], s, "force_transfer")

LimitOf(gs, s, a, d) == IF <<s, a>> \in DOMAIN gs THEN gs[<<s, a>>].limit[d] ELSE 0

(* Coins leave a holder's account only in a step that the holder signed,   *)
(* or by a forced transfer, or for as much as an authorization that the    *)
(* holder gave to a transfer agent shrinks (TransferCoin, authzHandler).   *)
HolderConsents(a, d) ==
    \/ a \in signers'
    \/ \E s \in signers' :
          \/ Forced(s, d)
          \/ /\ Restricted(markers, d) /\ markers[d].access[s] \cap {"transfer", "force_transfer"} # {}
             /\ LimitOf(grants, s, a, d) - LimitOf(grants', s, a, d) = bal[a][d] - bal'[a][d]

(* Coins leave a marker's account only by a right that someone has in it,  *)
(* by governance where the marker allows it, or by a forced transfer.      *)
(* (Governance may also burn what lies there when it makes the marker.)    *)
MarkerConsents(m, own, d) ==
    \E s \in signers' :
        \/ s = Authority /\ m.terms.gov
        \/ HasAccess(m, s, "withdraw") \/ Forced(s, d)
        \/ own /\ (HasAccess(m, s, "burn") \/ HasAccess(m, s, "delete") \/ m.manager = s)

Consents(a, d) ==
    \/ HolderConsents(a, d)
    \/ IsMarker(markers, a) /\ MarkerConsents(MarkerAt(markers, a), MarkerAddr[d] = a, d)
    \/ a = MarkerAddr[d] /\ d \notin DOMAIN markers /\ Authority \in signers'

ConsentStep == \A a \in Address, d \in Denom : bal'[a][d] < bal[a][d] => Consents(a, d)

(* No account loses coins without the consent above. *)
MovedByConsent == [][ConsentStep]_vars
=============================================================================
