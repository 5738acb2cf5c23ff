-------------------------------- MODULE Name --------------------------------
(***************************************************************************)
(* x/name: the tree of names, each bound to the address that owns it, and  *)
(* the index by address.  A name is the sequence of its segments, the one  *)
(* it is known by first and the root last, in the form that Normalize      *)
(* gives it.                                                               *)
(***************************************************************************)
EXTENDS Accounts, Sequences

CONSTANTS
    Segment,         \* what names are made of
    SegLen,          \* the length of each segment
    Uuid,            \* segments that are UUIDs, which may be of any length
    Authority        \* governance

Name == Seq(Segment) \ {<<>>}

NameRecord == [addr : Address, restricted : BOOLEAN]

NameParams == [min : Nat, max : Nat, levels : Nat]

VARIABLES
    names,           \* name |-> record
    addrIndex,       \* <<address, name>> |-> record
    nameParams

nameVars == <<names, addrIndex, nameParams>>

(* Normalize accepts the name *)
Normalizes(n) ==
    /\ \A i \in 1..Len(n) : /\ SegLen[n[i]] >= nameParams.min
                            /\ SegLen[n[i]] <= nameParams.max \/ n[i] \in Uuid
    /\ Len(n) <= nameParams.levels

ResolvesTo(n, a) == n \in DOMAIN names /\ names[n].addr = a

(* addRecord, for every name of a set of names that are not bound *)
Bound(N, r) == [n \in DOMAIN names \cup N |-> IF n \in N THEN r ELSE names[n]]

Indexed(N, r) ==
    LET new == {r.addr} \X N
    IN  [x \in DOMAIN addrIndex \cup new |-> IF x \in new THEN r ELSE addrIndex[x]]

(* The names above a name, and the name itself *)
Levels(n) == {SubSeq(n, i, Len(n)) : i \in 1..Len(n)}

(* The index that goes with the names *)
IndexOf(N) == [x \in {<<N[n].addr, n>> : n \in DOMAIN N} |-> N[x[2]]]
-----------------------------------------------------------------------------
(* MsgBindName: the owner of the parent, or anyone if the parent is not    *)
(* restricted, binds one more segment.                                     *)
BindName(by, parent, segment, r) ==
    LET n == <<segment>> \o parent
    IN  /\ parent \in DOMAIN names
        /\ names[parent].restricted => ResolvesTo(parent, by)
        /\ Normalizes(n)
        /\ n \notin DOMAIN names
        /\ names' = Bound({n}, r)
        /\ addrIndex' = Indexed({n}, r)
        /\ UNCHANGED nameParams

(* UpdateNameRecord: the index follows the owner *)
Reindexed(n, r) ==
    Put(IF names[n].addr = r.addr THEN addrIndex ELSE Del(addrIndex, <<names[n].addr, n>>),
        <<r.addr, n>>, r)

(* MsgModifyName, of the owner or of governance *)
ModifyName(by, n, r) ==
    /\ n \in DOMAIN names
    /\ by \in {Authority, names[n].addr}
    /\ Normalizes(n)
    /\ names' = Put(names, n, r)
    /\ addrIndex' = Reindexed(n, r)
    /\ UNCHANGED nameParams

(* MsgCreateRootName, of governance: the levels that are missing are bound *)
(* as well.                                                                *)
CreateRootName(n, r) ==
    LET missing == Levels(n) \ DOMAIN names
    IN  /\ n \notin DOMAIN names
        /\ Normalizes(n)
        /\ names' = Bound(missing, r)
        /\ addrIndex' = Indexed(missing, r)
        /\ UNCHANGED nameParams

(* MsgUpdateParams, of governance *)
UpdateNameParams(p) ==
    /\ nameParams' = p
    /\ UNCHANGED <<names, addrIndex>>

(* DeleteName and DeleteRecord; what becomes of the attributes is in       *)
(* Attribute.                                                              *)
UnbindName(by, n) ==
    /\ Normalizes(n)
    /\ ResolvesTo(n, by)
    /\ names' = Del(names, n)
    /\ addrIndex' = Del(addrIndex, <<names[n].addr, n>>)
    /\ UNCHANGED nameParams
=============================================================================
