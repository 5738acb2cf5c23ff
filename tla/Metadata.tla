------------------------------ MODULE Metadata ------------------------------
(***************************************************************************)
(* x/metadata: scopes with their sessions and records, the specifications  *)
(* these follow, the indexes through which the keeper finds who uses a     *)
(* specification, and the coin whose holder is the value owner of a scope. *)
(* Parties are ordinary accounts: neither contracts nor markers.           *)
(***************************************************************************)
EXTENDS Accounts, FiniteSets

CONSTANTS
    Scope,           \* identifiers of scopes
    ContractSpec,    \* identifiers of contract specifications
    Role,            \* PartyType
    Blocked,         \* addresses that may not receive coins
    Granted,         \* <<granter, grantee>> of generic authorizations
    NoAddr,          \* an empty address
    GenesisScopeSpecs, GenesisContractSpecs, GenesisRecordSpecs,
    \* What the messages say
    ScopeWrites,     \* <<scope, what is written>>
    SessionWrites,   \* <<<<scope, uuid>>, what is written>>
    RecordNames,
    ScopeSpecWrites, \* <<identifier, what is written>>
    ContractSpecWrites,
    RecordRoles,     \* the responsible parties of record specifications
    NewParties,      \* parties to add as owners
    Readers,         \* addresses to give access to
    Signers          \* sets of signers

Party == [addr : Address, role : Role, optional : BOOLEAN]

VARIABLES
    scopes,          \* [spec, owners, access, rollup]
    sessions,        \* <<scope, uuid>> |-> [spec, parties]
    records,         \* <<scope, name>> |-> [session, spec]
    scopeSpecs,      \* [owners, contracts, roles]
    contractSpecs,   \* [owners, roles]
    recordSpecs,     \* <<contract specification, name>> |-> roles
    index,           \* <<kind, from, to>>
    coins,           \* scope |-> the balance of each address
    navs,            \* scopes with a net asset value
    movers           \* history: who signed the last step, if it moved a coin

specVars == <<scopeSpecs, contractSpecs, recordSpecs>>

mdVars == <<scopes, sessions, records, specVars, index, coins, navs, movers>>
-----------------------------------------------------------------------------
(* Signatures.  An authorization counts as a signature. *)

Addrs(P) == {p.addr : p \in P}

Authorized(S) == S \cup {x[1] : x \in {g \in Granted : g[2] \in S}}

(* validateAllRequiredSigned *)
AllRequiredSigned(required, S) == required \subseteq Authorized(S)

(* GetRequiredPartyAddresses *)
RequiredAddrs(P) == Addrs({p \in P : ~p.optional})

(* validateRolesPresent: each party fills one of the required roles *)
RolesPresent(P, roles) == \A r \in Role : Cardinality({p \in P : p.role = r}) >= roles[r]

(* validateAllRequiredPartiesSigned *)
AllRequiredPartiesSigned(req, available, roles, S) ==
    /\ AllRequiredSigned(RequiredAddrs(req), S)
    /\ RolesPresent({p \in available : p.addr \in Authorized(S)}, roles)

SameParty(p, q) == p.addr = q.addr /\ p.role = q.role

(* ValidateOwnersBasic, and ValidatePartiesBasic of a session *)
ValidParties(P, rollup) ==
    /\ P # {}
    /\ \A p, q \in P : SameParty(p, q) => p = q
    /\ ~rollup => \A p \in P : ~p.optional

(* The signatures a change of a scope asks for, with the roles of spec *)
OwnersSigned(scope, spec, S) ==
    IF ~scope.rollup THEN AllRequiredSigned(Addrs(scope.owners), S)
    ELSE /\ spec \in DOMAIN scopeSpecs
         /\ AllRequiredPartiesSigned(scope.owners, scope.owners, scopeSpecs[spec].roles, S)
-----------------------------------------------------------------------------
(* The value owner. *)

Holders(s) == {a \in Address : coins[s][a] > 0}

(* DenomOwner returns no error *)
OneOwner(s) == Cardinality(Holders(s)) <= 1

ValueOwner(s) == IF Holders(s) = {} THEN NoAddr ELSE CHOOSE a \in Holders(s) : TRUE

(* A coin minted and sent, sent, or sent and burned *)
MovedCoin(s, from, to) ==
    [a \in Address |-> coins[s][a] + (IF a = to THEN 1 ELSE 0) - (IF a = from THEN 1 ELSE 0)]

(* As it would be if a deleted scope left its coin behind. *)
MutSetScopeValueOwner(s, new) ==
    IF new = NoAddr THEN coins[s] ELSE MovedCoin(s, ValueOwner(s), new)

(* SetScopeValueOwner *)
SetScopeValueOwner(s, new) == MovedCoin(s, ValueOwner(s), new)

MovedBy(S) == movers' = IF coins' = coins THEN {} ELSE S

(* ValidateScopeValueOwnersSigners *)
ValueOwnersSigned(existing, proposed, S) == existing \ {NoAddr, proposed} \subseteq Authorized(S)
-----------------------------------------------------------------------------
(* Indexes. *)

ScopeKeys(s, scope) ==
    {<<"address", a, s>> : a \in scope.access \cup Addrs(scope.owners)} \cup {<<"scopeSpec", scope.spec, s>>}

ScopeSpecKeys(id, spec) ==
    {<<"address", a, id>> : a \in spec.owners} \cup {<<"contractSpec", c, id>> : c \in spec.contracts}

ContractSpecKeys(id, spec) == {<<"address", a, id>> : a \in spec.owners}

(* The keys that the stored entry has, if there is one *)
KeysIn(store, id, keys) == IF id \in DOMAIN store THEN keys ELSE {}

(* indexScope, indexScopeSpecification, indexContractSpecification *)
Reindex(old, new) == (index \cup (new \ old)) \ (old \ new)

UsedThrough(kind, id) == \E x \in index : x[1] = kind /\ x[2] = id
-----------------------------------------------------------------------------
(* Scopes. *)

(* writeScopeToState *)
WriteScopeToState(s, scope) ==
    /\ scopes' = Put(scopes, s, scope)
    /\ index' = Reindex(KeysIn(scopes, s, ScopeKeys(s, scopes[s])), ScopeKeys(s, scope))

(* ValidateWriteScope: who has to sign.  The current value owner is looked *)
(* up when the scope exists and the message names one; other signatures    *)
(* are not needed when nothing but the value owner changes.                *)
MayWriteScope(S, s, new, vo) ==
    LET exists == s \in DOMAIN scopes
        own    == IF exists /\ vo # NoAddr THEN ValueOwner(s) ELSE NoAddr
        same   == exists /\ scopes[s] = new
        onlyChangeIsValueOwner == same /\ own \notin {NoAddr, vo}
    IN  /\ ~onlyChangeIsValueOwner =>
              /\ new.spec \in DOMAIN scopeSpecs
              /\ RolesPresent(new.owners, scopeSpecs[new.spec].roles)
              /\ exists /\ ~(same /\ own = vo /\ ~new.rollup) => OwnersSigned(scopes[s], new.spec, S)
        /\ ValueOwnersSigned({own}, vo, S)

(* MsgWriteScope; usd: a net asset value is given *)
WriteScope(S, s, new, vo, usd) ==
    /\ ValidParties(new.owners, new.rollup)
    /\ MayWriteScope(S, s, new, vo)
    /\ vo # NoAddr => vo \notin Blocked /\ OneOwner(s)
    /\ coins' = IF vo = NoAddr THEN coins ELSE [coins EXCEPT ![s] = SetScopeValueOwner(s, vo)]
    /\ WriteScopeToState(s, new)
    /\ navs' = IF usd THEN navs \cup {s} ELSE navs
    /\ MovedBy(S)
    /\ UNCHANGED <<sessions, records, specVars>>

(* As it would be if the record that is left were not looked for. *)
MutSessionsWithout(ids, recs) == [x \in DOMAIN sessions \ ids |-> sessions[x]]

(* RemoveSession: sessions without records *)
SessionsWithout(ids, recs) ==
    [x \in {y \in DOMAIN sessions : y \in ids => \E r \in DOMAIN recs : recs[r].session = y} |-> sessions[x]]

(* ValidateDeleteScope *)
MayDeleteScope(S, s) ==
    /\ s \in DOMAIN scopes
    /\ IF scopes[s].rollup /\ scopes[s].spec \notin DOMAIN scopeSpecs
       THEN AllRequiredSigned(RequiredAddrs(scopes[s].owners), S)
       ELSE OwnersSigned(scopes[s], scopes[s].spec, S)
    /\ OneOwner(s) /\ ValueOwnersSigned({ValueOwner(s)}, NoAddr, S)

(* Sessions go with their last record. *)
RemoveScope(s) ==
    LET gone == {r \in DOMAIN records : r[1] = s}
    IN  /\ coins' = [coins EXCEPT ![s] = SetScopeValueOwner(s, NoAddr)]
        /\ records' = [r \in DOMAIN records \ gone |-> records[r]]
        /\ sessions' = SessionsWithout({records[r].session : r \in gone}, records')
        /\ index' = Reindex(ScopeKeys(s, scopes[s]), {})
        /\ scopes' = Del(scopes, s)

(* MsgDeleteScope *)
DeleteScope(S, s) ==
    /\ MayDeleteScope(S, s)
    /\ RemoveScope(s)
    /\ navs' = navs \ {s}
    /\ MovedBy(S)
    /\ UNCHANGED specVars

OnlyScope == movers' = {} /\ UNCHANGED <<sessions, records, specVars, coins, navs>>

(* MsgAddScopeDataAccess and MsgDeleteScopeDataAccess *)
AddScopeDataAccess(S, s, a) ==
    /\ s \in DOMAIN scopes /\ a \notin scopes[s].access
    /\ OwnersSigned(scopes[s], scopes[s].spec, S)
    /\ WriteScopeToState(s, [scopes[s] EXCEPT !.access = @ \cup {a}])
    /\ OnlyScope

DeleteScopeDataAccess(S, s, a) ==
    /\ s \in DOMAIN scopes /\ a \in scopes[s].access
    /\ OwnersSigned(scopes[s], scopes[s].spec, S)
    /\ WriteScopeToState(s, [scopes[s] EXCEPT !.access = @ \ {a}])
    /\ OnlyScope

(* ValidateUpdateScopeOwners, and the scope with other owners *)
UpdateScopeOwners(S, s, owners) ==
    LET scope == scopes[s]
    IN  /\ ValidParties(owners, scope.rollup)
        /\ scope.spec \in DOMAIN scopeSpecs
        /\ RolesPresent(owners, scopeSpecs[scope.spec].roles)
        /\ OwnersSigned(scope, scope.spec, S)
        /\ WriteScopeToState(s, [scope EXCEPT !.owners = owners])
        /\ OnlyScope

(* MsgAddScopeOwner and MsgDeleteScopeOwner *)
AddScopeOwner(S, s, p) ==
    /\ s \in DOMAIN scopes /\ \A q \in scopes[s].owners : ~SameParty(p, q)
    /\ UpdateScopeOwners(S, s, scopes[s].owners \cup {p})

DeleteScopeOwner(S, s, a) ==
    /\ s \in DOMAIN scopes /\ a \in Addrs(scopes[s].owners)
    /\ UpdateScopeOwners(S, s, {p \in scopes[s].owners : p.addr # a})

(* ValidateUpdateValueOwners *)
MayUpdateValueOwners(S, X, new) ==
    LET current == {ValueOwner(s) : s \in X}
    IN  X # {} /\ current \cap {NoAddr, new} = {} /\ ValueOwnersSigned(current, new, S)

(* SetScopeValueOwners, of scopes whose owner is not the new one *)
SetScopeValueOwners(S, X, new) ==
    /\ new \notin Blocked
    /\ coins' = [s \in Scope |-> IF s \in X THEN MovedCoin(s, ValueOwner(s), new) ELSE coins[s]]
    /\ MovedBy(S)
    /\ UNCHANGED <<scopes, sessions, records, specVars, index, navs>>

(* MsgUpdateValueOwners and MsgMigrateValueOwner *)
UpdateValueOwners(S, X, new) ==
    /\ \A s \in X : OneOwner(s)
    /\ MayUpdateValueOwners(S, X, new)
    /\ SetScopeValueOwners(S, X, new)

MigrateValueOwner(S, from, new) ==
    LET X == {s \in Scope : coins[s][from] > 0}
    IN  MayUpdateValueOwners(S, X, new) /\ SetScopeValueOwners(S, X, new)

(* MsgAddNetAssetValues *)
AddNetAssetValues(S, s) ==
    /\ s \in DOMAIN scopes
    /\ AllRequiredSigned(Addrs(scopes[s].owners), S)
    /\ navs' = navs \cup {s}
    /\ movers' = {}
    /\ UNCHANGED <<scopes, sessions, records, specVars, index, coins>>
-----------------------------------------------------------------------------
(* Sessions and records. *)

(* ValidateWriteSession, scopes that do and do not use party rollup *)
SessionSigned(S, scope, id, new, roles) ==
    IF ~scope.rollup
    THEN RolesPresent(new.parties, roles) /\ AllRequiredSigned(Addrs(scope.owners), S)
    ELSE /\ \A p \in new.parties : \E q \in scope.owners : SameParty(p, q)
         /\ IF id \in DOMAIN sessions
            THEN LET old == sessions[id].parties
                 IN  /\ RolesPresent(new.parties, roles)
                     /\ AllRequiredPartiesSigned(old \cup scope.owners, old, roles, S)
            ELSE AllRequiredPartiesSigned(scope.owners, new.parties, roles, S)

(* ValidateWriteSession *)
MayWriteSession(S, id, new) ==
    /\ id \in DOMAIN sessions => new.spec = sessions[id].spec
    /\ id[1] \in DOMAIN scopes
    /\ LET scope == scopes[id[1]]
       IN  /\ ValidParties(new.parties, scope.rollup)
           /\ new.spec \in DOMAIN contractSpecs
           /\ scope.spec \in DOMAIN scopeSpecs /\ new.spec \in scopeSpecs[scope.spec].contracts
           /\ SessionSigned(S, scope, id, new, contractSpecs[new.spec].roles)

(* MsgWriteSession *)
WriteSession(S, id, new) ==
    /\ MayWriteSession(S, id, new)
    /\ sessions' = Put(sessions, id, new)
    /\ movers' = {}
    /\ UNCHANGED <<scopes, records, specVars, index, coins, navs>>

(* ValidateWriteRecord; given: the message names the specification *)
MayWriteRecord(S, id, name, given) ==
    LET r       == <<id[1], name>>
        old     == IF r \in DOMAIN records /\ records[r].session \in DOMAIN sessions \ {id}
                   THEN sessions[records[r].session].parties ELSE {}
        spec    == <<sessions[id].spec, name>>
        parties == sessions[id].parties
        scope   == scopes[id[1]]
    IN  /\ id[1] \in DOMAIN scopes /\ id \in DOMAIN sessions
        /\ given /\ r \in DOMAIN records => records[r].spec = spec
        /\ spec \in DOMAIN recordSpecs
        /\ IF ~scope.rollup
           THEN /\ RolesPresent(parties, recordSpecs[spec])
                /\ AllRequiredSigned(Addrs(parties \cup old), S)
           ELSE AllRequiredPartiesSigned(scope.owners \cup parties \cup old, parties, recordSpecs[spec], S)

(* MsgWriteRecord.  The record follows the specification of its session,   *)
(* and one that leaves a session takes the session along if it is empty.   *)
WriteRecord(S, id, name, given) ==
    LET r == <<id[1], name>>
    IN  /\ MayWriteRecord(S, id, name, given)
        /\ records' = Put(records, r, [session |-> id, spec |-> <<sessions[id].spec, name>>])
        /\ sessions' = IF r \in DOMAIN records /\ records[r].session # id
                       THEN SessionsWithout({records[r].session}, records') ELSE sessions
        /\ movers' = {}
        /\ UNCHANGED <<scopes, specVars, index, coins, navs>>

(* ValidateDeleteRecord *)
MayDeleteRecord(S, r) ==
    /\ r \in DOMAIN records
    /\ r[1] \in DOMAIN scopes =>
          LET scope == scopes[r[1]]
          IN  IF ~scope.rollup THEN AllRequiredSigned(Addrs(scope.owners), S)
              ELSE IF records[r].spec \notin DOMAIN recordSpecs
                   THEN AllRequiredSigned(RequiredAddrs(scope.owners), S)
                   ELSE AllRequiredPartiesSigned(scope.owners, scope.owners, recordSpecs[records[r].spec], S)

(* MsgDeleteRecord, RemoveRecord *)
DeleteRecord(S, r) ==
    /\ MayDeleteRecord(S, r)
    /\ records' = Del(records, r)
    /\ sessions' = SessionsWithout({records[r].session}, records')
    /\ movers' = {}
    /\ UNCHANGED <<scopes, specVars, index, coins, navs>>
-----------------------------------------------------------------------------
(* Specifications. *)

OnlySpecs == movers' = {} /\ UNCHANGED <<scopes, sessions, records, coins, navs>>

(* SetScopeSpecification *)
SetScopeSpecification(id, spec) ==
    /\ scopeSpecs' = Put(scopeSpecs, id, spec)
    /\ index' = Reindex(KeysIn(scopeSpecs, id, ScopeSpecKeys(id, scopeSpecs[id])), ScopeSpecKeys(id, spec))
    /\ UNCHANGED <<contractSpecs, recordSpecs>>
    /\ OnlySpecs

(* getNewContractSpecIDs *)
NewContractSpecs(id, new) ==
    new.contracts \ (IF id \in DOMAIN scopeSpecs THEN scopeSpecs[id].contracts ELSE {})

(* MsgWriteScopeSpecification *)
WriteScopeSpecification(S, id, new) ==
    /\ id \in DOMAIN scopeSpecs => AllRequiredSigned(scopeSpecs[id].owners, S)
    /\ NewContractSpecs(id, new) \subseteq DOMAIN contractSpecs
    /\ SetScopeSpecification(id, new)

(* RemoveScopeSpecification, isScopeSpecUsed *)
RemoveScopeSpecification(id) ==
    /\ ~UsedThrough("scopeSpec", id)
    /\ index' = Reindex(ScopeSpecKeys(id, scopeSpecs[id]), {})
    /\ scopeSpecs' = Del(scopeSpecs, id)

(* MsgDeleteScopeSpecification *)
DeleteScopeSpecification(S, id) ==
    /\ id \in DOMAIN scopeSpecs
    /\ AllRequiredSigned(scopeSpecs[id].owners, S)
    /\ RemoveScopeSpecification(id)
    /\ UNCHANGED <<contractSpecs, recordSpecs>>
    /\ OnlySpecs

(* MsgAddContractSpecToScopeSpec and MsgDeleteContractSpecFromScopeSpec *)
AddContractSpecToScopeSpec(S, c, id) ==
    /\ c \in DOMAIN contractSpecs /\ id \in DOMAIN scopeSpecs
    /\ AllRequiredSigned(scopeSpecs[id].owners, S)
    /\ c \notin scopeSpecs[id].contracts
    /\ SetScopeSpecification(id, [scopeSpecs[id] EXCEPT !.contracts = @ \cup {c}])

DeleteContractSpecFromScopeSpec(S, c, id) ==
    /\ id \in DOMAIN scopeSpecs
    /\ AllRequiredSigned(scopeSpecs[id].owners, S)
    /\ c \in scopeSpecs[id].contracts
    /\ SetScopeSpecification(id, [scopeSpecs[id] EXCEPT !.contracts = @ \ {c}])

(* MsgWriteContractSpecification *)
WriteContractSpecification(S, id, new) ==
    /\ id \in DOMAIN contractSpecs => AllRequiredSigned(contractSpecs[id].owners, S)
    /\ contractSpecs' = Put(contractSpecs, id, new)
    /\ index' = Reindex(KeysIn(contractSpecs, id, ContractSpecKeys(id, contractSpecs[id])), ContractSpecKeys(id, new))
    /\ UNCHANGED <<scopeSpecs, recordSpecs>>
    /\ OnlySpecs

(* RemoveContractSpecification.  isContractSpecUsed does not look for      *)
(* sessions, nor isRecordSpecUsed for records.                             *)
RemoveContractSpecification(id) ==
    /\ ~UsedThrough("contractSpec", id)
    /\ index' = Reindex(ContractSpecKeys(id, contractSpecs[id]), {})
    /\ contractSpecs' = Del(contractSpecs, id)

(* MsgDeleteContractSpecification: its record specifications go with it *)
DeleteContractSpecification(S, id) ==
    /\ id \in DOMAIN contractSpecs
    /\ AllRequiredSigned(contractSpecs[id].owners, S)
    /\ recordSpecs' = [x \in {y \in DOMAIN recordSpecs : y[1] # id} |-> recordSpecs[x]]
    /\ RemoveContractSpecification(id)
    /\ UNCHANGED scopeSpecs
    /\ OnlySpecs

(* MsgWriteRecordSpecification and MsgDeleteRecordSpecification *)
WriteRecordSpecification(S, id, roles) ==
    /\ id[1] \in DOMAIN contractSpecs
    /\ AllRequiredSigned(contractSpecs[id[1]].owners, S)
    /\ recordSpecs' = Put(recordSpecs, id, roles)
    /\ UNCHANGED <<scopeSpecs, contractSpecs, index>>
    /\ OnlySpecs

DeleteRecordSpecification(S, id) ==
    /\ id \in DOMAIN recordSpecs /\ id[1] \in DOMAIN contractSpecs
    /\ AllRequiredSigned(contractSpecs[id[1]].owners, S)
    /\ recordSpecs' = Del(recordSpecs, id)
    /\ UNCHANGED <<scopeSpecs, contractSpecs, index>>
    /\ OnlySpecs
-----------------------------------------------------------------------------
(* The coin is a coin: its holder may send it (bank, code outside src/). *)
SendScopeCoin(S, s, from, to) ==
    /\ coins[s][from] > 0 /\ to # from /\ to \notin Blocked
    /\ from \in Authorized(S)
    /\ coins' = [coins EXCEPT ![s] = MovedCoin(s, from, to)]
    /\ movers' = S
    /\ UNCHANGED <<scopes, sessions, records, specVars, index, navs>>

AllKeys ==
    UNION {ScopeKeys(s, scopes[s]) : s \in DOMAIN scopes}
    \cup UNION {ScopeSpecKeys(i, scopeSpecs[i]) : i \in DOMAIN scopeSpecs}
    \cup UNION {ContractSpecKeys(i, contractSpecs[i]) : i \in DOMAIN contractSpecs}

(* ExportGenesis and InitGenesis: the indexes are made anew, and net asset *)
(* values are exported scope by scope.                                     *)
MetadataRestart ==
    /\ index' = AllKeys
    /\ navs' = navs \cap DOMAIN scopes
    /\ movers' = {}
    /\ UNCHANGED <<scopes, sessions, records, specVars, coins>>

(* The chain starts with specifications and no scopes. *)
MetadataInit ==
    /\ scopes = EmptyStore /\ sessions = EmptyStore /\ records = EmptyStore
    /\ scopeSpecs = GenesisScopeSpecs /\ contractSpecs = GenesisContractSpecs
    /\ recordSpecs = GenesisRecordSpecs
    /\ index = AllKeys /\ navs = {} /\ movers = {}
    /\ coins = [s \in Scope |-> [a \in Address |-> 0]]

ScopeMessage(S) ==
    \/ \E w \in ScopeWrites, vo \in Address \cup {NoAddr}, usd \in BOOLEAN : WriteScope(S, w[1], w[2], vo, usd)
    \/ \E s \in Scope :
          \/ DeleteScope(S, s)
          \/ \E a \in Readers : AddScopeDataAccess(S, s, a) \/ DeleteScopeDataAccess(S, s, a)
          \/ \E p \in NewParties : AddScopeOwner(S, s, p)
          \/ \E a \in Address : DeleteScopeOwner(S, s, a)
          \/ AddNetAssetValues(S, s)
    \/ \E X \in SUBSET Scope, new \in Address : UpdateValueOwners(S, X, new)
    \/ \E from, new \in Address : MigrateValueOwner(S, from, new)

RecordMessage(S) ==
    \/ \E w \in SessionWrites :
          \/ WriteSession(S, w[1], w[2])
          \/ \E n \in RecordNames, given \in BOOLEAN : WriteRecord(S, w[1], n, given)
    \/ \E s \in Scope, n \in RecordNames : DeleteRecord(S, <<s, n>>)

SpecMessage(S) ==
    \/ \E w \in ScopeSpecWrites :
          \/ WriteScopeSpecification(S, w[1], w[2])
          \/ DeleteScopeSpecification(S, w[1])
          \/ \E c \in ContractSpec :
                AddContractSpecToScopeSpec(S, c, w[1]) \/ DeleteContractSpecFromScopeSpec(S, c, w[1])
    \/ \E w \in ContractSpecWrites :
          WriteContractSpecification(S, w[1], w[2]) \/ DeleteContractSpecification(S, w[1])
    \/ \E c \in ContractSpec, n \in RecordNames :
          \/ \E roles \in RecordRoles : WriteRecordSpecification(S, <<c, n>>, roles)
          \/ DeleteRecordSpecification(S, <<c, n>>)

MetadataNext ==
    \/ \E S \in Signers :
          \/ ScopeMessage(S) \/ RecordMessage(S) \/ SpecMessage(S)
          \/ \E s \in Scope, from, to \in Address : SendScopeCoin(S, s, from, to)
    \/ MetadataRestart

MetadataSpec == MetadataInit /\ [][MetadataNext]_mdVars
-----------------------------------------------------------------------------
(* Properties. *)

(* Whatever is deleted, nothing that is left refers to it where the keeper *)
(* relies on that: a scope to its specification, a specification to its    *)
(* contract specifications, a record to its scope and to a session with    *)
(* the specification the record follows; and the indexes, through which    *)
(* the guards of the deletions look, say what the stores say               *)
(* (isScopeSpecUsed, isContractSpecUsed, RemoveSession, indexScope).       *)
NothingDangles ==
    /\ \A s \in DOMAIN scopes : scopes[s].spec \in DOMAIN scopeSpecs
    /\ \A i \in DOMAIN scopeSpecs : scopeSpecs[i].contracts \subseteq DOMAIN contractSpecs
    /\ \A i \in DOMAIN recordSpecs : i[1] \in DOMAIN contractSpecs
    /\ \A r \in DOMAIN records :
          /\ r[1] \in DOMAIN scopes /\ records[r].session[1] = r[1]
          /\ records[r].session \in DOMAIN sessions
          /\ records[r].spec = <<sessions[records[r].session].spec, r[2]>>
    /\ navs \subseteq DOMAIN scopes
    /\ index = AllKeys

(* Only a holder's consent takes the coin of a scope from the holder; a    *)
(* scope that is there gets its coin only by consent of the owners it      *)
(* requires; and there is one coin at most, and none without the scope,    *)
(* which is why a scope may be created without asking who holds its coin   *)
(* (ValidateWriteScope, SetScopeValueOwner, RemoveScope).                  *)
ValueOwnerStep ==
    \A s \in Scope :
       /\ \A a \in Address : coins'[s][a] < coins[s][a] => a \in Authorized(movers')
       /\ Holders(s) = {} /\ Holders(s)' # {} /\ s \in DOMAIN scopes =>
             RequiredAddrs(scopes[s].owners) \subseteq Authorized(movers')
       /\ \A a, b \in Address : coins'[s][a] > 0 /\ coins'[s][b] > 0 => a = b /\ coins'[s][a] = 1
       /\ Holders(s)' # {} => s \in DOMAIN scopes'

ValueOwnerConsents == [][ValueOwnerStep]_mdVars
=============================================================================
