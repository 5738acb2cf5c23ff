------------------------------- MODULE Funds -------------------------------
(***************************************************************************)
(* Sends of the bank under the restrictions of x/sanction and x/quarantine *)
(* in the order of app.go, with the governance proposals that sanction.    *)
(* The bank and governance are code outside src/.  A message that fails    *)
(* leaves no trace, so only the ones that succeed are steps.               *)
(***************************************************************************)
EXTENDS Sanction, Quarantine, FiniteSetsExt

CONSTANTS
    Gov,             \* the governance module account, which holds the deposits
    Blocked,         \* module accounts, to which no one may send
    Balances,        \* at genesis
    GenesisRecords,  \* <<to, senders>> |-> record, at genesis
    GovMinDeposit,   \* a proposal with this deposit is voted on
    Amounts,         \* amounts sent and deposited
    Proposals,       \* the sequences of messages that are proposed
    Members,         \* the accounts that opt in and answer
    Answers,         \* the senders they accept or decline, and whether for good
    Updates          \* sender |-> auto-response, as they are updated

ASSUME FundsAssumption ==
    /\ Gov \in Address /\ Holder \in Address \ {Gov} /\ {Gov, Holder} \subseteq Unsanctionable
    /\ Gov \in Blocked /\ Members \subseteq Address \ {Gov, Holder}
    /\ Balances \in [Address -> Nat] /\ GovMinDeposit \in Nat /\ Amounts \subseteq Nat \ {0}
    /\ \A msgs \in Proposals :
          /\ \A i \in DOMAIN msgs : i \in Nat /\ msgs[i] \in Message
          /\ \A I \in SUBSET DOMAIN msgs : I # {} => \E i \in I : \A j \in I : j <= i
    /\ Answers \subseteq ((SUBSET Address) \ {{}}) \X BOOLEAN
    /\ \A f \in Updates : DOMAIN f \subseteq Address
    /\ \A k \in DOMAIN GenesisRecords :
          /\ k \in Members \X SUBSET Address /\ GenesisRecords[k] \in Record
          /\ k[2] # {} /\ GenesisRecords[k].un = k[2] /\ GenesisRecords[k].acc = {}

VARIABLES
    bal,             \* balances
    props,           \* open proposals
    nextId,
    signer           \* history: the account behind the last step

vars == <<sanctionVars, quarantineVars, bal, props, nextId, signer>>

Proposal == [msgs : Proposals, by : Address, deposit : Nat, voting : BOOLEAN]

(* addQuarantineRecordSuffixIndexes, for the records of the genesis state *)
IndexOf(recs) ==
    LET many == {k \in DOMAIN recs : \E f \in k[2] : k[2] # {f}}
    IN  [x \in UNION {{k[1]} \X k[2] : k \in many} |-> {k[2] : k \in {y \in many : y[1] = x[1] /\ x[2] \in y[2]}}]

Init ==
    /\ sanctioned = {} /\ temp = EmptyStore /\ propIndex = {} /\ params \in NewParams
    /\ optIn = {} /\ auto = EmptyStore
    /\ records = GenesisRecords /\ suffixes = IndexOf(GenesisRecords)
    /\ bal = Balances /\ props = EmptyStore /\ nextId = 1 /\ signer = Gov
-----------------------------------------------------------------------------
Moved(from, to, n) ==
    [a \in Address |-> bal[a] - (IF a = from THEN n ELSE 0) + (IF a = to THEN n ELSE 0)]

(* As it would be if sanctions were not looked at. *)
MutUnsanctioned(from, to, n) ==
    /\ n <= bal[from]
    /\ bal' = Moved(from, IF Waits(from, to) THEN Holder ELSE to, n)
    /\ records' = IF Waits(from, to) THEN AddQuarantinedCoins(from, to, n) ELSE records
    /\ signer' = from
    /\ UNCHANGED <<optIn, auto, suffixes>>

(* As it would be if the coins did not go to the funds holder. *)
MutNotHeld(from, to, n) ==
    /\ ~IsSanctionedAddr(from) /\ n <= bal[from]
    /\ bal' = Moved(from, to, n)
    /\ records' = IF Waits(from, to) THEN AddQuarantinedCoins(from, to, n) ELSE records
    /\ signer' = from
    /\ UNCHANGED <<optIn, auto, suffixes>>

(* SendCoins under both restrictions *)
SendCoins(from, to, n) ==
    /\ ~IsSanctionedAddr(from) /\ n <= bal[from]
    /\ bal' = Moved(from, IF Waits(from, to) THEN Holder ELSE to, n)
    /\ records' = IF Waits(from, to) THEN AddQuarantinedCoins(from, to, n) ELSE records
    /\ signer' = from
    /\ UNCHANGED <<optIn, auto, suffixes>>

(* The bank's MsgSend *)
Send(from, to, n) ==
    /\ to \notin Blocked
    /\ SendCoins(from, to, n)
    /\ UNCHANGED <<sanctionVars, props, nextId>>
-----------------------------------------------------------------------------
(* Governance: a proposal with its first deposit, and further deposits of  *)
(* its proposer *)
SubmitProposal(by, msgs, n) ==
    /\ nextId \in ProposalId /\ by \notin Blocked \cup {Holder}
    /\ SendCoins(by, Gov, n)
    /\ OpenHook(nextId, msgs, n)
    /\ props' = Put(props, nextId, [msgs |-> msgs, by |-> by, deposit |-> n,
                                    voting |-> n >= GovMinDeposit])
    /\ nextId' = nextId + 1

Deposit(id, n) ==
    LET p == props[id]
        d == p.deposit + n
    IN  /\ SendCoins(p.by, Gov, n)
        /\ OpenHook(id, p.msgs, d)
        /\ props' = Put(props, id, [msgs |-> p.msgs, by |-> p.by, deposit |-> d,
                                    voting |-> p.voting \/ d >= GovMinDeposit])
        /\ UNCHANGED nextId

(* A proposal ends: the deposit is given back, or burned. *)
Refund(id) == SendCoins(Gov, props[id].by, props[id].deposit)

Burn(id) ==
    /\ props[id].deposit <= bal[Gov]
    /\ bal' = [a \in Address |-> bal[a] - (IF a = Gov THEN props[id].deposit ELSE 0)]
    /\ signer' = Gov
    /\ UNCHANGED quarantineVars

Closed(id) == props' = Del(props, id) /\ UNCHANGED nextId

(* The deposit period, or the vote, ends without success. *)
EndRejected(id) == (Refund(id) \/ Burn(id)) /\ ClosedHook(id) /\ Closed(id)

(* The vote passes, but a message of the proposal fails. *)
EndFailed(id) == props[id].voting /\ Refund(id) /\ ClosedHook(id) /\ Closed(id)

EndPassed(id) == props[id].voting /\ Refund(id) /\ Executed(props[id].msgs) /\ Closed(id)

UpdateParams(p) ==
    /\ UpdateSanctionParams(p)
    /\ signer' = Gov
    /\ UNCHANGED <<quarantineVars, bal, props, nextId>>
-----------------------------------------------------------------------------
(* The messages of x/quarantine *)
OptIn(to) ==
    /\ optIn' = optIn \cup {to}
    /\ signer' = to
    /\ UNCHANGED <<sanctionVars, auto, records, suffixes, bal, props, nextId>>

OptOut(to) ==
    /\ optIn' = optIn \ {to}
    /\ signer' = to
    /\ UNCHANGED <<sanctionVars, auto, records, suffixes, bal, props, nextId>>

Forever(to, froms, permanent, response) ==
    IF permanent THEN Responded(to, [f \in froms |-> response]) ELSE auto

Owed(keys) == MapThenSumSet(LAMBDA k : records[k].coins, keys)

Accept(to, froms, permanent) ==
    LET gone  == Released(to, froms)
        total == Owed({<<to, s>> : s \in gone})
    IN  /\ total \in 0..bal[Holder]
        /\ bal' = Moved(Holder, to, total)
        /\ records' = Accepted(to, froms)
        /\ suffixes' = Unindexed(to, gone)
        /\ auto' = Forever(to, froms, permanent, "accept")
        /\ signer' = to
        /\ UNCHANGED <<sanctionVars, optIn, props, nextId>>

Decline(to, froms, permanent) ==
    /\ records' = Declined(to, froms)
    /\ auto' = Forever(to, froms, permanent, "decline")
    /\ signer' = to
    /\ UNCHANGED <<sanctionVars, optIn, suffixes, bal, props, nextId>>

UpdateAutoResponses(to, f) ==
    /\ auto' = Responded(to, f)
    /\ signer' = to
    /\ UNCHANGED <<sanctionVars, optIn, records, suffixes, bal, props, nextId>>
-----------------------------------------------------------------------------
Governed ==
    \/ \E by \in Address, msgs \in Proposals, n \in Amounts : SubmitProposal(by, msgs, n)
    \/ \E id \in DOMAIN props : \/ \E n \in Amounts : Deposit(id, n)
                                \/ EndRejected(id) \/ EndFailed(id) \/ EndPassed(id)
    \/ \E p \in NewParams : UpdateParams(p)

Answered(to) ==
    \/ OptIn(to) \/ OptOut(to)
    \/ \E x \in Answers : Accept(to, x[1], x[2]) \/ Decline(to, x[1], x[2])
    \/ \E f \in Updates : UpdateAutoResponses(to, f)

Next ==
    \/ \E from \in Address \ (Blocked \cup {Holder}), to \in Address, n \in Amounts : Send(from, to, n)
    \/ Governed
    \/ \E to \in Members : Answered(to)

Spec == Init /\ [][Next]_vars
-----------------------------------------------------------------------------
(* The state without its history, which no step reads *)
StateView == <<sanctionVars, quarantineVars, bal, props, nextId>>

TypeOK ==
    /\ sanctioned \subseteq Address /\ params \in Params
    /\ \A k \in DOMAIN temp : k \in Address \X ProposalId /\ temp[k] \in Kind
    /\ propIndex \subseteq ProposalId \X Address
    /\ optIn \subseteq Members
    /\ \A k \in DOMAIN auto : k \in Address \X Address /\ auto[k] \in Response
    /\ \A k \in DOMAIN records : k \in Address \X SUBSET Address /\ records[k] \in Record
    /\ \A x \in DOMAIN suffixes : x \in Address \X Address /\ suffixes[x] \subseteq SUBSET Address
    /\ bal \in [Address -> Nat] /\ signer \in Address
    /\ \A id \in DOMAIN props : id \in ProposalId /\ props[id] \in Proposal

(* A temporary entry exists only while a proposal is open whose messages   *)
(* name the address, a sanction only for a message that sanctions it; the  *)
(* index by proposal has exactly these entries, or else the hook would     *)
(* miss some; and an address that cannot be sanctioned never is            *)
(* (proposalGovHook, addTempEntries, DeleteAddrTempEntries).               *)
TempEntriesJustified ==
    /\ propIndex = {<<k[2], k[1]>> : k \in DOMAIN temp}
    /\ \A k \in DOMAIN temp :
          /\ k[2] \in DOMAIN props
          /\ \E i \in DOMAIN props[k[2]].msgs :
                k[1] \in props[k[2]].msgs[i].addrs /\ props[k[2]].msgs[i].kind = temp[k]
          /\ temp[k] = "sanction" => k[1] \notin Unsanctionable
    /\ sanctioned \cap Unsanctionable = {}

(* The module's registered invariant (FundsHolderBalanceInvariant): the    *)
(* funds holder can pay every record.                                      *)
FundsHolderBalance == bal[Holder] >= Owed(DOMAIN records)

(* Every record can be found, to be accepted or declined, from any of its  *)
(* senders, and the index leads to records only (SetQuarantineRecord).     *)
RecordsFound ==
    /\ \A k \in DOMAIN records :
          /\ records[k].un # {} /\ records[k].un \cap records[k].acc = {}
          /\ records[k].un \cup records[k].acc = k[2]
          /\ \A f \in k[2] : k[2] \in Found(k[1], {f})
    /\ \A x \in DOMAIN suffixes :
          suffixes[x] # {} /\ \A s \in suffixes[x] : x[2] \in s /\ <<x[1], s>> \in DOMAIN records

Gone(to) == {k \in DOMAIN records \ DOMAIN records' : k[1] = to}

ReleaseStep ==
    /\ \A to \in Address :
          Gone(to) # {} => signer' = to /\ bal'[to] - bal[to] = Owed(Gone(to))
    /\ \A k \in DOMAIN records \cap DOMAIN records' :
          /\ records'[k].coins >= records[k].coins
          /\ records'[k].acc # records[k].acc => signer' = k[1]
    /\ records' # records =>
          bal'[Holder] - bal[Holder] = (Owed(DOMAIN records))' - Owed(DOMAIN records)

(* What waits for an account is not lost: a record goes only when the      *)
(* account accepts, which gets all of it, and until then only grows, by    *)
(* what the funds holder gets (AcceptQuarantinedFunds,                     *)
(* AddQuarantinedCoins).                                                   *)
ReleasedInFull == [][ReleaseStep]_vars

MoveStep ==
    \A a \in Address :
        /\ bal'[a] < bal[a] => ~IsSanctionedAddr(a)
        /\ bal'[a] > bal[a] /\ a \in optIn => IsAutoAccept(a, signer')

(* No coins leave an account while it is sanctioned, by a send or as a     *)
(* deposit, and none reach one that has opted in, not even a deposit that  *)
(* is given back, unless it accepts the sender or takes them itself        *)
(* (the two SendRestrictionFn).                                            *)
MovesAllowed == [][MoveStep]_vars
=============================================================================
