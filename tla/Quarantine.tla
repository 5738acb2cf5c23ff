----------------------------- MODULE Quarantine -----------------------------
(***************************************************************************)
(* x/quarantine: funds sent to an account that has opted in wait with the  *)
(* funds holder until the account accepts their senders.  A record of      *)
(* several senders comes from a genesis state only.  Amounts are of one    *)
(* denomination.                                                           *)
(***************************************************************************)
EXTENDS Accounts

CONSTANT Holder      \* GetFundsHolder

Response == {"accept", "decline"}

Record == [un : SUBSET Address, acc : SUBSET Address, coins : Nat, declined : BOOLEAN]

VARIABLES
    optIn,           \* addresses that have opted in
    auto,            \* <<to, from>> |-> auto-response
    records,         \* <<to, all senders>> |-> record
    suffixes         \* <<to, from>> |-> sets of senders, of records of several senders

quarantineVars == <<optIn, auto, records, suffixes>>

(* IsAutoAccept for one sender; IsAutoDecline for any of several *)
IsAutoAccept(to, from) ==
    to = from \/ (<<to, from>> \in DOMAIN auto /\ auto[<<to, from>>] = "accept")

IsAutoDecline(to, froms) ==
    \E f \in froms \ {to} : <<to, f>> \in DOMAIN auto /\ auto[<<to, f>>] = "decline"

(* SetAutoResponse, for the senders in the domain of f *)
Responded(to, f) ==
    LET set == {<<to, x>> : x \in {y \in DOMAIN f : f[y] \in Response}}
        del == {<<to, x>> : x \in {y \in DOMAIN f : f[y] \notin Response}}
    IN  [k \in (DOMAIN auto \ del) \cup set |-> IF k \in set THEN f[k[2]] ELSE auto[k]]

(* GetQuarantineRecords: the records to an address that any of the senders *)
(* has a part in, as far as the index knows.                               *)
Suffixes(to, f) ==
    {{f}} \cup (IF <<to, f>> \in DOMAIN suffixes THEN suffixes[<<to, f>>] ELSE {})

Found(to, froms) == {s \in UNION {Suffixes(to, f) : f \in froms} : <<to, s>> \in DOMAIN records}

(* As it would be if the index kept what is released. *)
MutUnindexed(to, gone) == suffixes

(* deleteQuarantineRecordSuffixIndexes, for the records gone *)
Unindexed(to, gone) ==
    LET left(k) == IF k[1] = to THEN {s \in suffixes[k] : s \notin gone \/ k[2] \notin s}
                   ELSE suffixes[k]
    IN  [k \in {x \in DOMAIN suffixes : left(x) # {}} |-> left(k)]
-----------------------------------------------------------------------------
(* SendRestrictionFn: does what is sent have to wait? *)
Waits(from, to) == from \notin {to, Holder} /\ to \in optIn /\ ~IsAutoAccept(to, from)

(* As it would be if what waits already were forgotten. *)
MutAddQuarantinedCoins(from, to, n) ==
    Put(records, <<to, {from}>>,
        [un |-> {from}, acc |-> {}, coins |-> n, declined |-> IsAutoDecline(to, {from})])

(* AddQuarantinedCoins from one sender, who is not accepted *)
AddQuarantinedCoins(from, to, n) ==
    LET k == <<to, {from}>>
    IN  Put(records, k,
            [un |-> {from}, acc |-> {},
             coins |-> n + (IF k \in DOMAIN records THEN records[k].coins ELSE 0),
             declined |-> IsAutoDecline(to, {from})])

(* AcceptFrom, and the state of the records after it; a record of which    *)
(* every sender is accepted is released.                                   *)
Touched(to, froms) == {s \in Found(to, froms) : records[<<to, s>>].un \cap froms # {}}

Released(to, froms) == {s \in Touched(to, froms) : records[<<to, s>>].un \subseteq froms}

Accepted(to, froms) ==
    LET gone    == {<<to, s>> : s \in Released(to, froms)}
        part    == {<<to, s>> : s \in Touched(to, froms)} \ gone
        after(r) == [un |-> r.un \ froms, acc |-> r.acc \cup (r.un \cap froms), coins |-> r.coins,
                     declined |-> IsAutoDecline(to, r.un \ froms)]
    IN  [k \in DOMAIN records \ gone |-> IF k \in part THEN after(records[k]) ELSE records[k]]

(* DeclineQuarantinedFunds *)
Declined(to, froms) ==
    LET some     == {<<to, s>> : s \in Found(to, froms)}
        after(r) == [un |-> r.un \cup (r.acc \cap froms), acc |-> r.acc \ froms, coins |-> r.coins,
                     declined |-> TRUE]
    IN  [k \in DOMAIN records |-> IF k \in some THEN after(records[k]) ELSE records[k]]
=============================================================================
