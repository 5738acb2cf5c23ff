--------------------------- MODULE MarkerAccount ---------------------------
(***************************************************************************)
(* The marker account of x/marker (types/marker.go): a denomination's      *)
(* account, which holds its escrow and says who may do what with it.       *)
(***************************************************************************)
EXTENDS Coins, KVStore

CONSTANTS
    Address,         \* every address
    MarkerAddr,      \* denomination |-> address of its marker
    NoAddress,       \* no manager, no recipient
    IbcDenom,        \* the denominations of vouchers, "ibc/..."
    Attribute        \* the lists of required attributes are sets of these

ASSUME MarkerAddrAssumption ==
    /\ MarkerAddr \in [Denom -> Address] /\ NoAddress \notin Address
    /\ \A d, e \in Denom : MarkerAddr[d] = MarkerAddr[e] => d = e

(* MarkerStatus; the code compares them as numbers. *)
Proposed  == 1
Finalized == 2
Active    == 3
Cancelled == 4
Destroyed == 5

Access == {"mint", "burn", "deposit", "withdraw", "delete", "admin", "transfer",
           "force_transfer"}

(* What is fixed, or seldom changes, in a marker. *)
Terms == [restricted : BOOLEAN, fixed : BOOLEAN, gov : BOOLEAN, forced : BOOLEAN,
          attrs : SUBSET Attribute]

Marker == [status : Proposed..Destroyed, manager : Address \cup {NoAddress}, supply : Nat,
           access : [Address -> SUBSET Access], terms : Terms]

NoAccess == [a \in Address |-> {}]

(* NewMarkerAccount: from Active on a marker has no manager. *)
NewMarkerAccount(status, manager, n, access, terms) ==
    [status |-> status, manager |-> IF status >= Active THEN NoAddress ELSE manager,
     supply |-> n, access |-> access, terms |-> terms]

(* SetStatus: activation ends the manager's role. *)
SetStatus(m, s) ==
    [status |-> s, manager |-> IF s = Active THEN NoAddress ELSE m.manager,
     supply |-> m.supply, access |-> m.access, terms |-> m.terms]

SetSupply(m, n) ==
    [status |-> m.status, manager |-> m.manager, supply |-> n, access |-> m.access,
     terms |-> m.terms]

SetAccess(m, access) ==
    [status |-> m.status, manager |-> m.manager, supply |-> m.supply, access |-> access,
     terms |-> m.terms]

SetTerms(m, terms) ==
    [status |-> m.status, manager |-> m.manager, supply |-> m.supply, access |-> m.access,
     terms |-> terms]

(* GrantAccess merges with what the address already has; RevokeAccess      *)
(* removes all of it.                                                      *)
GrantAccess(m, a, perms) ==
    SetAccess(m, [x \in Address |-> IF x = a THEN m.access[x] \cup perms ELSE m.access[x]])

RevokeAccess(m, a) == SetAccess(m, [x \in Address |-> IF x = a THEN {} ELSE m.access[x]])

HasAccess(m, a, perm) == a \in Address /\ perm \in m.access[a]

AtLeastOneAddrHasAccess(m, addrs, perm) == \E a \in addrs : HasAccess(m, a, perm)

SomeoneHas(m, perm) == \E a \in Address : perm \in m.access[a]

(* ValidateGrantsForMarkerType and ValidateIbcDenom *)
ValidGrants(d, m) ==
    \A a \in Address :
        /\ m.access[a] \cap {"transfer", "force_transfer"} # {} => m.terms.restricted
        /\ d \in IbcDenom => m.access[a] \cap {"mint", "burn"} = {}

(* Validate *)
Validate(d, m) ==
    /\ m.status < Active /\ m.manager = NoAddress => SomeoneHas(m, "admin")
    /\ m.status = Finalized /\ m.supply = 0 => SomeoneHas(m, "mint")
    /\ ValidGrants(d, m)
    /\ d \in IbcDenom => ~m.terms.fixed
    /\ m.access[MarkerAddr[d]] = {} /\ m.manager # MarkerAddr[d]
    /\ m.terms.forced => m.terms.restricted
=============================================================================
