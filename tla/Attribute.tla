----------------------------- MODULE Attribute -----------------------------
(***************************************************************************)
(* x/attribute on top of x/name: values that the owner of a name gives to  *)
(* accounts under that name, until a date or for good.  Besides the        *)
(* attributes the store has a lookup, which counts per name and account,   *)
(* and the queue of expiration dates that BeginBlocker works off.          *)
(***************************************************************************)
EXTENDS Name, FiniteSets

CONSTANTS
    Account,         \* accounts and scopes, which may have attributes
    Value,
    ValueLen,        \* the length of each value
    Type,            \* AttributeType
    AccountData,     \* the name AccountDataName
    AttrModule,      \* the account of the module, which owns AccountData
    GenesisNames,    \* name |-> record
    GenesisParams,
    NoValue,         \* an empty value
    Limit,           \* MaxExpiredAttributionCount
    \* What the messages say
    Dates,           \* expiration dates
    Records,         \* name records
    Names,           \* names to bind, change and delete
    Keys,            \* attributes to set and delete
    NewNameParams,
    MaxLengths,      \* MaxValueLength
    \* Bounds
    MaxTime,         \* of block times, which stop there
    MaxCount         \* of the counts in the lookup

NoDate == -1

(* A key has no room for the type or the date of an attribute. *)
Key == Account \X Name \X Value

ASSUME AttributeAssumption ==
    /\ AccountData \in Name /\ AttrModule \in Address
    /\ GenesisParams \in NameParams /\ NewNameParams \subseteq NameParams
    /\ Records \subseteq NameRecord /\ Names \subseteq Name /\ Keys \subseteq Key
    /\ DOMAIN GenesisNames \subseteq Name /\ Keys \subseteq Key
    /\ \A n \in DOMAIN GenesisNames : GenesisNames[n] \in NameRecord
    /\ NoValue \notin Value
    /\ Dates \subseteq Nat \cup {NoDate}
    /\ MaxTime \in Nat /\ MaxCount \in Nat /\ Limit \in Nat

VARIABLES
    attrs,           \* key |-> the attribute's type and date
    lookup,          \* <<name, account>> |-> count
    expiry,          \* <<date, key>>
    maxLen,          \* MaxValueLength
    now              \* block time

vars == <<nameVars, attrs, lookup, expiry, maxLen, now>>

(* InitGenesis of a name record, and                                       *)
(* EnsureModuleAccountAndAccountDataNameRecord                             *)
ImportedNames(N) == Put(N, AccountData, [addr |-> AttrModule, restricted |-> TRUE])

(* The chain starts without attributes. *)
Init ==
    /\ names = ImportedNames(GenesisNames)
    /\ addrIndex = IndexOf(names)
    /\ nameParams = GenesisParams
    /\ attrs = EmptyStore /\ lookup = EmptyStore /\ expiry = {}
    /\ maxLen \in MaxLengths
    /\ now = 0
-----------------------------------------------------------------------------
(* IncAttrNameAddressLookup *)
Inc(f, x) == Put(f, x, 1 + IF x \in DOMAIN f THEN f[x] ELSE 0)

(* DecAttrNameAddressLookup, for every key of a set *)
LookupWithout(K) ==
    LET gone(x) == Cardinality({k \in K : x = <<k[2], k[1]>>})
    IN  [x \in {y \in DOMAIN lookup : lookup[y] > gone(y)} |-> lookup[x] - gone(x)]

AttrsWithout(K) == [k \in DOMAIN attrs \ K |-> attrs[k]]

(* deleteAttributeExpireLookup and addAttributeExpireLookup *)
ExpiryWithout(K) == expiry \ {<<attrs[k].exp, k>> : k \in K}

Due(k, date) == IF date = NoDate THEN {} ELSE {<<date, k>>}

(* ValidateExpirationDate *)
ValidDate(date) == date = NoDate \/ date >= now

(* What SetAttribute asks for *)
MaySet(owner, k) ==
    /\ ValueLen[k[3]] <= maxLen
    /\ Normalizes(k[2])
    /\ ResolvesTo(k[2], owner)
    /\ <<k[2], k[1]>> \in DOMAIN lookup => lookup[<<k[2], k[1]>>] < MaxCount
-----------------------------------------------------------------------------
(* MsgAddAttribute: an attribute with the same key is replaced *)
AddAttribute(owner, k, type, date) ==
    /\ ValidDate(date)
    /\ MaySet(owner, k)
    /\ attrs' = Put(attrs, k, [type |-> type, exp |-> date])
    /\ lookup' = Inc(lookup, <<k[2], k[1]>>)
    /\ expiry' = expiry \cup Due(k, date)
    /\ UNCHANGED <<nameVars, maxLen, now>>

(* MsgUpdateAttribute: the new value and type, with no date *)
UpdateAttribute(owner, k, type, value, newType) ==
    LET new == <<k[1], k[2], value>>
    IN  /\ MaySet(owner, new)
        /\ k \in DOMAIN attrs /\ attrs[k].type = type
        /\ attrs' = Put(AttrsWithout({k}), new, [type |-> newType, exp |-> NoDate])
        /\ lookup' = Inc(LookupWithout({k}), <<k[2], k[1]>>)
        /\ expiry' = ExpiryWithout({k})
        /\ UNCHANGED <<nameVars, maxLen, now>>

(* MsgUpdateAttributeExpiration *)
UpdateAttributeExpiration(owner, k, date) ==
    /\ ValidDate(date)
    /\ Normalizes(k[2]) /\ ResolvesTo(k[2], owner)
    /\ k \in DOMAIN attrs
    /\ attrs' = Put(attrs, k, [type |-> attrs[k].type, exp |-> date])
    /\ expiry' = ExpiryWithout({k}) \cup Due(k, date)
    /\ UNCHANGED <<nameVars, lookup, maxLen, now>>

(* The attributes that DeleteAttribute finds: names are spelled in their   *)
(* normal form in the store, and compared with the one in the message.     *)
Deleted(a, n, normal, values) ==
    {k \in DOMAIN attrs : k[1] = a /\ k[2] = n /\ normal /\ k[3] \in values}

(* MsgDeleteAttribute, of every value, and MsgDeleteDistinctAttribute; the *)
(* message may spell the name in another way than the normal one.  A name  *)
(* that is not bound has no owner to ask.                                  *)
DeleteAttribute(owner, a, n, normal, values) ==
    LET K == Deleted(a, n, normal, values)
    IN  /\ normal /\ n \in DOMAIN names => ResolvesTo(n, owner)
        /\ K # {}
        /\ attrs' = AttrsWithout(K)
        /\ lookup' = LookupWithout(K)
        /\ expiry' = ExpiryWithout(K)
        /\ UNCHANGED <<nameVars, maxLen, now>>

(* As it would be if only the owner's own attributes went. *)
MutPurged(owner, n) == {k \in DOMAIN attrs : k[2] = n /\ k[1] = owner}

(* The attributes that PurgeAttribute finds through the lookup *)
Purged(owner, n) == {k \in DOMAIN attrs : k[2] = n /\ <<n, k[1]>> \in DOMAIN lookup}

(* MsgDeleteName: the attributes go with the name, their dates stay in the *)
(* queue.                                                                  *)
DeleteName(owner, n) ==
    LET K == Purged(owner, n)
    IN  /\ UnbindName(owner, n)
        /\ attrs' = AttrsWithout(K)
        /\ lookup' = LookupWithout(K)
        /\ UNCHANGED <<expiry, maxLen, now>>

(* MsgSetAccountData: what is there is deleted; nothing is set when the    *)
(* new value is empty.                                                     *)
SetAccountData(a, value) ==
    LET K == {k \in DOMAIN attrs : k[1] = a /\ k[2] = AccountData}
        new == <<a, AccountData, value>>
    IN  /\ AccountData \in DOMAIN names
        /\ K # {} => ResolvesTo(AccountData, AttrModule)
        /\ value # NoValue => MaySet(AttrModule, new)
        /\ attrs' = IF value = NoValue THEN AttrsWithout(K)
                    ELSE Put(AttrsWithout(K), new, [type |-> CHOOSE t \in Type : TRUE, exp |-> NoDate])
        /\ lookup' = IF value = NoValue THEN LookupWithout(K)
                     ELSE Inc(LookupWithout(K), <<AccountData, a>>)
        /\ expiry' = ExpiryWithout(K)
        /\ UNCHANGED <<nameVars, maxLen, now>>

(* MsgUpdateParams, of governance *)
UpdateParams(m) ==
    /\ maxLen' = m
    /\ UNCHANGED <<nameVars, attrs, lookup, expiry, now>>
-----------------------------------------------------------------------------
(* The dates DeleteExpiredAttributes works off: the oldest first, until    *)
(* the limit of attributes deleted is reached.                             *)
WorkedOff(P, due) ==
    LET hit == {x[2] : x \in P} \cap DOMAIN attrs
        last(x) == /\ x[2] \in hit
                   /\ \A y \in P : y[1] <= x[1] /\ (y[2] = x[2] => y = x)
    IN  /\ \A x \in P, y \in due \ P : x[1] <= y[1]
        /\ P # due => Limit # 0 /\ Cardinality(hit) = Limit /\ \E x \in P : last(x)
        /\ Limit # 0 => Cardinality(hit) <= Limit

(* As it would be if the dates beyond the limit were dropped. *)
MutBeginBlock ==
    /\ now' = IF now < MaxTime THEN now + 1 ELSE now
    /\ LET due == {x \in expiry : x[1] < now'}
       IN  \E P \in SUBSET due :
              LET K == {x[2] : x \in P} \cap DOMAIN attrs
              IN  /\ WorkedOff(P, due)
                  /\ attrs' = AttrsWithout(K)
                  /\ lookup' = LookupWithout(K)
                  /\ expiry' = expiry \ due
    /\ UNCHANGED <<nameVars, maxLen>>

(* BeginBlocker *)
BeginBlock ==
    /\ now' = IF now < MaxTime THEN now + 1 ELSE now
    /\ LET due == {x \in expiry : x[1] < now'}
       IN  \E P \in SUBSET due :
              LET K == {x[2] : x \in P} \cap DOMAIN attrs
              IN  /\ WorkedOff(P, due)
                  /\ attrs' = AttrsWithout(K)
                  /\ lookup' = LookupWithout(K)
                  /\ expiry' = expiry \ P
    /\ UNCHANGED <<nameVars, maxLen>>

(* The chain is exported and started again: ExportGenesis and InitGenesis. *)
(* Names that the params no longer allow make it fail; attributes that are *)
(* past their date are left out, and lookup and queue are made anew.       *)
Restart ==
    LET K == {k \in DOMAIN attrs : ~ValidDate(attrs[k].exp)}
        kept == DOMAIN attrs \ K
    IN  /\ \A n \in DOMAIN names \cup {k[2] : k \in kept} : Normalizes(n)
        /\ names' = ImportedNames(names)
        /\ addrIndex' = IndexOf(names')
        /\ attrs' = AttrsWithout(K)
        /\ lookup' = [x \in {<<k[2], k[1]>> : k \in kept} |->
                         Cardinality({k \in kept : x = <<k[2], k[1]>>})]
        /\ expiry' = UNION {Due(k, attrs[k].exp) : k \in kept}
        /\ UNCHANGED <<nameParams, maxLen, now>>
-----------------------------------------------------------------------------
NamesOnly == UNCHANGED <<attrs, lookup, expiry, maxLen, now>>

NameMessage(by) ==
    \E n \in Names :
       \/ \E r \in Records : BindName(by, Tail(n), Head(n), r) /\ NamesOnly
       \/ \E r \in Records : ModifyName(by, n, r) /\ NamesOnly
       \/ DeleteName(by, n)

AttributeMessage(by) ==
    \E k \in Keys :
       \/ \E t \in Type, d \in Dates : AddAttribute(by, k, t, d)
       \/ \E t, u \in Type, w \in Value : UpdateAttribute(by, k, t, w, u)
       \/ \E d \in Dates : UpdateAttributeExpiration(by, k, d)
       \/ \E normal \in BOOLEAN, V \in {{k[3]}, Value} : DeleteAttribute(by, k[1], k[2], normal, V)

Governed ==
    \/ \E n \in Names, r \in Records : CreateRootName(n, r) /\ NamesOnly
    \/ \E p \in NewNameParams : UpdateNameParams(p) /\ NamesOnly
    \/ \E m \in MaxLengths : UpdateParams(m)

Next ==
    \/ \E by \in Address \ {AttrModule} : NameMessage(by) \/ AttributeMessage(by)
    \/ Governed
    \/ \E k \in Keys : k[2] = AccountData /\ \E v \in {k[3], NoValue} : SetAccountData(k[1], v)
    \/ BeginBlock
    \/ Restart

Spec == Init /\ [][Next]_vars

(* Blocks keep coming. *)
FairSpec == Spec /\ WF_vars(BeginBlock)
-----------------------------------------------------------------------------
(* Every attribute belongs to a name that is bound, and the lookup counts  *)
(* no fewer attributes of a name and an account than there are, so that    *)
(* the attributes go when the name goes (IncAttrNameAddressLookup,         *)
(* DecAttrNameAddressLookup, PurgeAttribute).                              *)
AttributesHaveNames ==
    \A k \in DOMAIN attrs :
       /\ k[2] \in DOMAIN names
       /\ <<k[2], k[1]>> \in DOMAIN lookup
       /\ Cardinality({x \in DOMAIN attrs : x[1] = k[1] /\ x[2] = k[2]}) <= lookup[<<k[2], k[1]>>]

(* A late attribute is one past its date. *)
Late(k) == k \in DOMAIN attrs /\ attrs[k].exp # NoDate /\ attrs[k].exp < now

(* Late attributes go, however many there are (DeleteExpiredAttributes     *)
(* with its limit, and dates that are changed).                            *)
LateOnesGo == \A k \in Keys : Late(k) ~> ~Late(k)

=============================================================================
