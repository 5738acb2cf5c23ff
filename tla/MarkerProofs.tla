---------------------------- MODULE MarkerProofs ----------------------------
(***************************************************************************)
(* What holds of Marker for every choice of its constants.                 *)
(***************************************************************************)
EXTENDS Marker, TLAPS

(* The part of the type invariant that the supply depends on.  That no     *)
(* supply is ever negative rests on the sum of the balances, which is left *)
(* to TLC.                                                                 *)
AnyMarker ==
    [status : Proposed..Destroyed, manager : Address \cup {NoAddress}, supply : Int,
     access : [Address -> SUBSET Access], terms : Terms]

Types ==
    /\ DOMAIN markers \subseteq Denom /\ \A d \in DOMAIN markers : markers[d] \in AnyMarker
    /\ supply \in [Denom -> Int]

(* What the supply n of marker m's coin d has to be. *)
Matches(d, m, n) ==
    /\ m.status = Active /\ m.terms.fixed =>
          n <= m.supply /\ (d \notin BurnedElsewhere => n = m.supply)
    /\ m.status = Destroyed => n <= 0

Matched == \A d \in DOMAIN markers : Matches(d, markers[d], supply[d])

(* The inductive invariant *)
IInv == Types /\ Matched /\ NoRecordsLeft

(* Its last two parts say what the properties say. *)
LEMMA MatchedImplies == Matched => SupplyInvariant /\ NoSupplyLeft
BY Zenon DEF Matched, Matches, SupplyInvariant, NoSupplyLeft

-----------------------------------------------------------------------------
(* The setters of a marker account return marker accounts. *)

LEMMA SetStatusType ==
    ASSUME NEW m \in AnyMarker, NEW s \in Proposed..Destroyed PROVE SetStatus(m, s) \in AnyMarker
BY Zenon DEF SetStatus, AnyMarker

LEMMA SetSupplyType ==
    ASSUME NEW m \in AnyMarker, NEW n \in Int PROVE SetSupply(m, n) \in AnyMarker
BY Zenon DEF SetSupply, AnyMarker

LEMMA SetAccessType ==
    ASSUME NEW m \in AnyMarker, NEW f \in [Address -> SUBSET Access] PROVE SetAccess(m, f) \in AnyMarker
BY Zenon DEF SetAccess, AnyMarker

LEMMA SetTermsType ==
    ASSUME NEW m \in AnyMarker, NEW t \in Terms PROVE SetTerms(m, t) \in AnyMarker
BY Zenon DEF SetTerms, AnyMarker

LEMMA GrantAccessType ==
    ASSUME NEW m \in AnyMarker, NEW a, NEW p \in SUBSET Access PROVE GrantAccess(m, a, p) \in AnyMarker
<1> DEFINE f == [x \in Address |-> IF x = a THEN m.access[x] \cup p ELSE m.access[x]]
<1>1. m.access \in [Address -> SUBSET Access] BY Zenon DEF AnyMarker
<1>2. f \in [Address -> SUBSET Access] BY Zenon, <1>1
<1>3. SetAccess(m, f) \in AnyMarker BY Zenon, <1>2, SetAccessType
<1> QED BY Zenon, <1>3 DEF GrantAccess

LEMMA RevokeAccessType ==
    ASSUME NEW m \in AnyMarker, NEW a PROVE RevokeAccess(m, a) \in AnyMarker
<1> DEFINE f == [x \in Address |-> IF x = a THEN {} ELSE m.access[x]]
<1>1. m.access \in [Address -> SUBSET Access] BY Zenon DEF AnyMarker
<1>2. f \in [Address -> SUBSET Access] BY Zenon, <1>1
<1>3. SetAccess(m, f) \in AnyMarker BY Zenon, <1>2, SetAccessType
<1> QED BY Zenon, <1>3 DEF RevokeAccess

LEMMA NewMarkerType ==
    ASSUME NEW s \in Proposed..Destroyed, NEW a \in Address \cup {NoAddress}, NEW n \in Nat,
           NEW f \in [Address -> SUBSET Access], NEW t \in Terms
    PROVE  NewMarkerAccount(s, a, n, f, t) \in AnyMarker
BY DEF NewMarkerAccount, AnyMarker

LEMMA WithGovType == ASSUME NEW t \in Terms, NEW g \in BOOLEAN PROVE WithGov(t, g) \in Terms
BY Zenon DEF WithGov, Terms

(* A supply that is set to what it is stays the same. *)
LEMMA SupplySame == ASSUME supply \in [Denom -> Int], NEW d \in Denom PROVE SupplySet(d, supply[d]) = supply
BY Zenon DEF SupplySet

-----------------------------------------------------------------------------
(* A handler that stores one marker and sets the supply of its coin keeps  *)
(* the invariant if the two match.                                         *)
LEMMA Stored ==
    ASSUME IInv, NEW d \in Denom, NEW m \in AnyMarker, NEW n \in Int,
           SetMarker(d, m), supply' = SupplySet(d, n), Matches(d, m, n),
           deny' = deny, navs' \subseteq navs \cup {<<d, Usd>>}
    PROVE  IInv'
<1>1. markers' = Put(markers, d, m) BY Zenon DEF SetMarker
<1>2. DOMAIN markers' = DOMAIN markers \cup {d} BY Zenon, <1>1 DEF Put
<1>3. markers'[d] = m /\ \A e \in DOMAIN markers \ {d} : markers'[e] = markers[e] BY Zenon, <1>1 DEF Put
<1>4. supply'[d] = n /\ \A e \in Denom \ {d} : supply'[e] = supply[e] BY Zenon DEF SupplySet
<1>5. supply' \in [Denom -> Int] BY Zenon DEF SupplySet, IInv, Types
<1>6. Types' BY Zenon, <1>2, <1>3, <1>5 DEF IInv, Types
<1>7. Matched'
  <2> SUFFICES ASSUME NEW e \in DOMAIN markers' PROVE Matches(e, markers'[e], supply'[e])
      BY Zenon DEF Matched, Matches
  <2>1. CASE e = d BY Zenon, <2>1, <1>3, <1>4
  <2>2. CASE e # d
    <3>1. e \in DOMAIN markers /\ e \in Denom BY Zenon, <2>2, <1>2 DEF IInv, Types
    <3>2. markers'[e] = markers[e] /\ supply'[e] = supply[e] BY Zenon, <3>1, <2>2, <1>3, <1>4
    <3>3. Matches(e, markers[e], supply[e]) BY Zenon, <3>1 DEF IInv, Matched
    <3> QED BY Zenon, <3>2, <3>3
  <2> QED BY Zenon, <2>1, <2>2
<1>8. NoRecordsLeft' BY <1>2 DEF IInv, NoRecordsLeft
<1> QED BY Zenon, <1>6, <1>7, <1>8 DEF IInv

(* The same for a handler that leaves the bank's supply alone. *)
LEMMA StoredOnly ==
    ASSUME IInv, NEW d \in Denom, NEW m \in AnyMarker, SetMarker(d, m), UNCHANGED supply,
           Matches(d, m, supply[d]), deny' = deny, navs' \subseteq navs \cup {<<d, Usd>>}
    PROVE  IInv'
<1>1. supply \in [Denom -> Int] BY Zenon DEF IInv, Types
<1>2. supply' = SupplySet(d, supply[d]) BY Zenon, <1>1, SupplySame
<1>3. supply[d] \in Int BY Zenon, <1>1
<1> QED BY Zenon, <1>2, <1>3, Stored

(* Steps that touch neither markers nor the supply. *)
LEMMA Untouched ==
    ASSUME IInv, UNCHANGED <<supply, markers>>, \A k \in deny' \cup navs' : k[1] \in DOMAIN markers
    PROVE  IInv'
BY Zenon DEF IInv, Types, Matched, Matches, NoRecordsLeft
-----------------------------------------------------------------------------
(* One lemma for the actions of each kind. *)

(* AdjustCirculation sets the supply of one coin. *)
LEMMA AddMarkerKeeps == ASSUME IInv, NEW a \in Caller, NEW r \in NewMarkers, AddMarker(a, r) PROVE IInv'
<1> DEFINE manager == IF r.manager # NoAddress \/ r.status = Active THEN r.manager ELSE a
           g == ~(a = Authority) /\ EnableGovernance
           m == NewMarkerAccount(r.status, manager, r.supply, r.access, WithGov(r.terms, g))
           d == r.denom
<1>1. /\ AddMarkerAccount(d, m, r.nav)
      /\ IF r.status = Active THEN AdjustCirculation(d, r.supply) ELSE UNCHANGED bank
      BY Zenon DEF AddMarker
<1>2. r \in Request /\ a \in Address BY Zenon, MarkerAssumption
<1>3. /\ r.denom \in Denom /\ r.status \in Proposed..Active /\ r.manager \in Address \cup {NoAddress}
      /\ r.supply \in Nat /\ r.access \in [Address -> SUBSET Access] /\ r.terms \in Terms
      BY Zenon, <1>2 DEF Request
<1>4. r.status \in Proposed..Destroyed /\ r.status # Destroyed BY <1>3 DEF Proposed, Active, Destroyed
<1>5. manager \in Address \cup {NoAddress} BY Zenon, <1>2, <1>3
<1>6. g \in BOOLEAN BY Zenon
<1>7. WithGov(r.terms, g) \in Terms BY Zenon, <1>3, <1>6, WithGovType
<1>8. m \in AnyMarker BY ZenonT(60), <1>3, <1>4, <1>5, <1>7, NewMarkerType
<1>9. m.status = r.status /\ m.supply = r.supply BY Zenon DEF NewMarkerAccount
<1>10. SetMarker(d, m) /\ deny' = deny /\ navs' \subseteq navs \cup {<<d, Usd>>}
       BY Zenon, <1>1 DEF AddMarkerAccount
<1> HIDE DEF m, d
<1>11. d \in Denom BY Zenon, <1>3 DEF d
<1>12. CASE r.status = Active
  <2>1. supply' = SupplySet(d, r.supply) BY Zenon, <1>1, <1>12 DEF AdjustCirculation
  <2>2. Matches(d, m, r.supply) BY <1>3, <1>4, <1>9 DEF Matches
  <2>3. r.supply \in Int BY <1>3
  <2> QED BY Zenon, <2>1, <2>2, <2>3, <1>8, <1>10, <1>11, Stored
<1>13. CASE r.status # Active
  <2>1. UNCHANGED supply BY Zenon, <1>1, <1>13 DEF bank
  <2>2. Matches(d, m, supply[d]) BY Zenon, <1>13, <1>4, <1>9 DEF Matches
  <2> QED BY Zenon, <2>1, <2>2, <1>8, <1>10, <1>11, StoredOnly
<1> QED BY Zenon, <1>12, <1>13

LEMMA AddFinalizeActivateKeeps ==
    ASSUME IInv, NEW a \in Caller, NEW r \in NewMarkers, AddFinalizeActivateMarker(a, r) PROVE IInv'
<1> DEFINE m == NewMarkerAccount(Active, r.manager, r.supply, r.access, WithGov(r.terms, EnableGovernance))
           d == r.denom
<1>1. AddMarkerAccount(d, m, r.nav) /\ AdjustCirculation(d, r.supply) BY Zenon DEF AddFinalizeActivateMarker
<1>2. r \in Request BY Zenon, MarkerAssumption
<1>3. /\ r.denom \in Denom /\ r.manager \in Address \cup {NoAddress}
      /\ r.supply \in Nat /\ r.access \in [Address -> SUBSET Access] /\ r.terms \in Terms
      BY Zenon, <1>2 DEF Request
<1>4. Active \in Proposed..Destroyed /\ Active # Destroyed BY DEF Proposed, Active, Destroyed
<1>5. WithGov(r.terms, EnableGovernance) \in Terms BY Zenon, <1>3, WithGovType, MarkerAssumption
<1>6. m \in AnyMarker BY Zenon, <1>3, <1>4, <1>5, NewMarkerType
<1>7. m.status = Active /\ m.supply = r.supply BY Zenon DEF NewMarkerAccount
<1>8. SetMarker(d, m) /\ deny' = deny /\ navs' \subseteq navs \cup {<<d, Usd>>}
      BY Zenon, <1>1 DEF AddMarkerAccount
<1>9. supply' = SupplySet(d, r.supply) BY Zenon, <1>1 DEF AdjustCirculation
<1> HIDE DEF m, d
<1>10. Matches(d, m, r.supply) BY <1>3, <1>4, <1>7 DEF Matches
<1>11. d \in Denom /\ r.supply \in Int BY <1>3 DEF d
<1> QED BY Zenon, <1>6, <1>8, <1>9, <1>10, <1>11, Stored

(* A change of the access list or of the terms other than the supply's. *)
LEMMA SameSupply ==
    ASSUME IInv, NEW d \in DOMAIN markers, NEW m \in AnyMarker, SetMarker(d, m), UNCHANGED <<supply, deny, navs>>,
           m.status = markers[d].status, m.supply = markers[d].supply, m.terms.fixed = markers[d].terms.fixed
    PROVE  IInv'
<1>1. d \in Denom BY Zenon DEF IInv, Types
<1>2. Matches(d, markers[d], supply[d]) BY Zenon DEF IInv, Matched
<1>3. Matches(d, m, supply[d]) BY Zenon, <1>2 DEF Matches
<1> QED BY Zenon, <1>1, <1>3, StoredOnly

(* A marker that is not active, nor destroyed, matches every supply. *)
LEMMA NotActive ==
    ASSUME IInv, NEW d \in DOMAIN markers, NEW m \in AnyMarker, SetMarker(d, m), UNCHANGED <<supply, deny, navs>>,
           m.status \notin {Active, Destroyed}
    PROVE  IInv'
<1>1. d \in Denom BY Zenon DEF IInv, Types
<1>2. Matches(d, m, supply[d]) BY Zenon DEF Matches
<1> QED BY Zenon, <1>1, <1>2, StoredOnly

(* Where the supply is fixed, what is recorded follows what is minted and  *)
(* burned.                                                                 *)
LEMMA TrackedType ==
    ASSUME NEW m \in AnyMarker, NEW n \in Int
    PROVE  /\ Tracked(m, n) \in AnyMarker /\ Tracked(m, n).status = m.status
           /\ Tracked(m, n).terms = m.terms
           /\ m.terms.fixed => Tracked(m, n).supply = n
<1>1. CASE m.terms.fixed
  <2>1. Tracked(m, n) = SetSupply(m, n) BY Zenon, <1>1 DEF Tracked
  <2>2. SetSupply(m, n) \in AnyMarker BY Zenon, SetSupplyType
  <2>3. /\ SetSupply(m, n).status = m.status /\ SetSupply(m, n).terms = m.terms
        /\ SetSupply(m, n).supply = n
        BY Zenon DEF SetSupply
  <2> QED BY Zenon, <2>1, <2>2, <2>3
<1>2. CASE ~m.terms.fixed
  <2>1. Tracked(m, n) = m BY Zenon, <1>2 DEF Tracked
  <2> QED BY Zenon, <2>1, <1>2
<1> QED BY Zenon, <1>1, <1>2

LEMMA TrackedKeeps ==
    ASSUME IInv, NEW d \in DOMAIN markers, NEW n \in Int, SetMarker(d, Tracked(markers[d], n)),
           supply' = SupplySet(d, n), UNCHANGED <<deny, navs>>,
           markers[d].status = Destroyed => n <= 0
    PROVE  IInv'
<1> DEFINE m == Tracked(markers[d], n)
<1>1. d \in Denom /\ markers[d] \in AnyMarker BY Zenon DEF IInv, Types
<1>2. /\ m \in AnyMarker /\ m.status = markers[d].status /\ m.terms = markers[d].terms
      /\ markers[d].terms.fixed => m.supply = n
      BY Zenon, <1>1, TrackedType
<1>3. SetMarker(d, m) BY Zenon
<1> HIDE DEF m
<1>4. Matches(d, m, n) BY <1>2 DEF Matches
<1> QED BY Zenon, <1>1, <1>2, <1>3, <1>4, Stored

LEMMA IncreaseKeeps ==
    ASSUME IInv, NEW d \in DOMAIN markers, NEW n \in Nat, NEW paid,
           IncreaseSupply(d, n, paid), UNCHANGED <<deny, navs>>
    PROVE  IInv'
<1> DEFINE t == supply[d] + n
<1>1. supply[d] \in Int BY Zenon DEF IInv, Types
<1>2. markers[d].status = Active /\ SetMarker(d, Tracked(markers[d], t)) /\ supply' = SupplySet(d, t)
      BY Zenon DEF IncreaseSupply
<1>3. t \in Int BY <1>1
<1>4. markers[d].status # Destroyed BY <1>2 DEF Active, Destroyed
<1> HIDE DEF t
<1> QED BY Zenon, <1>2, <1>3, <1>4, TrackedKeeps

LEMMA DecreaseKeeps ==
    ASSUME IInv, NEW d \in DOMAIN markers, NEW n \in Nat, DecreaseSupply(d, n), UNCHANGED <<deny, navs>>
    PROVE  IInv'
<1> DEFINE t == supply[d] - n
<1>1. supply[d] \in Int BY Zenon DEF IInv, Types
<1>2. SetMarker(d, Tracked(markers[d], t)) /\ supply' = SupplySet(d, t)
      BY Zenon DEF DecreaseSupply, AdjustCirculation
<1>3. t \in Int BY <1>1
<1>4. markers[d].status = Destroyed => supply[d] <= 0 BY Zenon DEF IInv, Matched, Matches
<1>5. markers[d].status = Destroyed => t <= 0 BY <1>1, <1>4
<1> HIDE DEF t
<1> QED BY Zenon, <1>2, <1>3, <1>5, TrackedKeeps

(* The recorded supply changes freely before activation. *)
LEMMA RecordMoreKeeps ==
    ASSUME IInv, NEW d \in DOMAIN markers, NEW n \in Nat, RecordMore(d, n), UNCHANGED <<deny, navs>>
    PROVE  IInv'
<1> DEFINE m == SetSupply(markers[d], markers[d].supply + n)
<1>1. markers[d] \in AnyMarker BY Zenon DEF IInv, Types
<1>2. markers[d].supply + n \in Int BY <1>1 DEF AnyMarker
<1>3. m \in AnyMarker BY Zenon, <1>1, <1>2, SetSupplyType
<1>4. SetMarker(d, m) /\ UNCHANGED supply /\ markers[d].status \in {Proposed, Finalized}
      BY Zenon DEF RecordMore, bank
<1>5. m.status = markers[d].status BY Zenon DEF SetSupply
<1> HIDE DEF m
<1>6. m.status \notin {Active, Destroyed} BY <1>4, <1>5 DEF Proposed, Finalized, Active, Destroyed
<1> QED BY Zenon, <1>3, <1>4, <1>6, NotActive

LEMMA AccessKeeps ==
    ASSUME IInv, NEW d \in DOMAIN markers, NEW m, UNCHANGED <<supply, deny, navs>>, SetMarker(d, m),
           \/ \E a \in Address, p \in SUBSET Access : m = GrantAccess(markers[d], a, p)
           \/ \E a : m = RevokeAccess(markers[d], a)
    PROVE  IInv'
<1>1. markers[d] \in AnyMarker BY Zenon DEF IInv, Types
<1>2. m \in AnyMarker BY Zenon, <1>1, GrantAccessType, RevokeAccessType
<1>3. /\ m.status = markers[d].status /\ m.supply = markers[d].supply
      /\ m.terms.fixed = markers[d].terms.fixed
      BY DEF GrantAccess, RevokeAccess, SetAccess
<1> QED BY Zenon, <1>2, <1>3, SameSupply

LEMMA TermsKeeps ==
    ASSUME IInv, NEW d \in DOMAIN markers, NEW t \in Terms, t.fixed = markers[d].terms.fixed,
           UNCHANGED <<supply, deny, navs>>, SetMarker(d, SetTerms(markers[d], t))
    PROVE  IInv'
<1> DEFINE m == SetTerms(markers[d], t)
<1>1. markers[d] \in AnyMarker BY Zenon DEF IInv, Types
<1>2. m \in AnyMarker BY Zenon, <1>1, SetTermsType
<1>3. /\ m.status = markers[d].status /\ m.supply = markers[d].supply
      /\ m.terms.fixed = markers[d].terms.fixed
      BY Zenon DEF SetTerms
<1> HIDE DEF m
<1>4. SetMarker(d, m) BY Zenon DEF m
<1> QED BY Zenon, <1>2, <1>3, <1>4, SameSupply

(* A change of status; the supply of the coin becomes n. *)
LEMMA StatusKeeps ==
    ASSUME IInv, NEW d \in DOMAIN markers, NEW s \in Proposed..Destroyed, NEW n \in Int,
           NEW w \in AnyMarker, SetMarker(d, SetStatus(w, s)), supply' = SupplySet(d, n),
           UNCHANGED <<deny, navs>>, s = Active => n = w.supply, s = Destroyed => n <= 0
    PROVE  IInv'
<1> DEFINE m == SetStatus(w, s)
<1>1. d \in Denom BY Zenon DEF IInv, Types
<1>2. m \in AnyMarker BY Zenon, <1>1, SetStatusType
<1>3. m.status = s /\ m.supply = w.supply BY Zenon DEF SetStatus
<1>4. SetMarker(d, m) BY Zenon
<1> HIDE DEF m
<1>5. Matches(d, m, n) BY <1>3, <1>2 DEF Matches, AnyMarker
<1> QED BY Zenon, <1>1, <1>2, <1>4, <1>5, Stored

LEMMA FinalizeKeeps == ASSUME IInv, NEW a, NEW d \in DOMAIN markers, FinalizeMarker(a, d) PROVE IInv'
<1>1. markers[d] \in AnyMarker /\ d \in Denom /\ supply \in [Denom -> Int] BY Zenon DEF IInv, Types
<1>2. SetMarker(d, SetStatus(markers[d], Finalized)) /\ UNCHANGED <<supply, deny, navs>>
      BY Zenon DEF FinalizeMarker, bank
<1>3. /\ Finalized \in Proposed..Destroyed /\ Finalized # Active /\ Finalized # Destroyed
      BY DEF Proposed, Finalized, Active, Destroyed
<1>4. supply' = SupplySet(d, supply[d]) /\ supply[d] \in Int BY Zenon, <1>1, <1>2, SupplySame
<1> QED BY Zenon, <1>1, <1>2, <1>3, <1>4, StatusKeeps

LEMMA ActivateKeeps == ASSUME IInv, NEW a, NEW d \in DOMAIN markers, ActivateMarker(a, d) PROVE IInv'
<1>1. markers[d] \in AnyMarker BY Zenon DEF IInv, Types
<1>2. /\ SetMarker(d, SetStatus(markers[d], Active)) /\ UNCHANGED <<deny, navs>>
      /\ supply' = SupplySet(d, markers[d].supply)
      BY Zenon DEF ActivateMarker, AdjustCirculation
<1>3. Active \in Proposed..Destroyed /\ Active # Destroyed BY DEF Proposed, Active, Destroyed
<1>4. markers[d].supply \in Int BY Zenon, <1>1 DEF AnyMarker
<1> QED BY Zenon, <1>1, <1>2, <1>3, <1>4, StatusKeeps

LEMMA CancelKeeps == ASSUME IInv, NEW a, NEW d \in DOMAIN markers, CancelMarker(a, d) PROVE IInv'
<1>1. markers[d] \in AnyMarker /\ d \in Denom /\ supply \in [Denom -> Int] BY Zenon DEF IInv, Types
<1>2. SetMarker(d, SetStatus(markers[d], Cancelled)) /\ UNCHANGED <<supply, deny, navs>>
      BY Zenon DEF CancelMarker, bank
<1>3. /\ Cancelled \in Proposed..Destroyed /\ Cancelled # Active /\ Cancelled # Destroyed
      BY DEF Proposed, Cancelled, Active, Destroyed
<1>4. supply' = SupplySet(d, supply[d]) /\ supply[d] \in Int BY Zenon, <1>1, <1>2, SupplySame
<1> QED BY Zenon, <1>1, <1>2, <1>3, <1>4, StatusKeeps

LEMMA DeleteKeeps == ASSUME IInv, NEW a, NEW d \in DOMAIN markers, DeleteMarker(a, d) PROVE IInv'
<1>1. Tracked(markers[d], 0) \in AnyMarker BY TrackedType DEF IInv, Types
<1>2. /\ SetMarker(d, SetStatus(Tracked(markers[d], 0), Destroyed)) /\ UNCHANGED <<deny, navs>>
      /\ supply' = SupplySet(d, 0)
      BY Zenon DEF DeleteMarker, AdjustCirculation
<1>3. Destroyed \in Proposed..Destroyed /\ Active # Destroyed BY DEF Proposed, Active, Destroyed
<1>4. 0 \in Int /\ 0 <= 0 OBVIOUS
<1> QED BY Zenon, <1>1, <1>2, <1>3, <1>4, StatusKeeps

LEMMA ChangeStatusKeeps ==
    ASSUME IInv, NEW d \in DOMAIN markers, NEW s \in Proposed..Destroyed, ChangeStatusProposal(d, s)
    PROVE  IInv'
<1>1. markers[d] \in AnyMarker /\ d \in Denom /\ supply \in [Denom -> Int] BY Zenon DEF IInv, Types
<1>2. SetMarker(d, SetStatus(markers[d], s)) /\ UNCHANGED <<deny, navs>> BY Zenon DEF ChangeStatusProposal
<1>3. Active # Destroyed BY DEF Active, Destroyed
<1>4. CASE s \notin {Active, Destroyed} /\ UNCHANGED bank
  <2>1. supply' = SupplySet(d, supply[d]) /\ supply[d] \in Int BY Zenon, <1>1, <1>4, SupplySame DEF bank
  <2> QED BY Zenon, <2>1, <1>1, <1>2, <1>4, StatusKeeps
<1>5. CASE s = Active /\ AdjustCirculation(d, markers[d].supply)
  <2>1. supply' = SupplySet(d, markers[d].supply) BY Zenon, <1>5 DEF AdjustCirculation
  <2>2. markers[d].supply \in Int BY Zenon, <1>1 DEF AnyMarker
  <2> QED BY Zenon, <2>1, <2>2, <1>1, <1>2, <1>3, <1>5, StatusKeeps
<1>6. CASE s = Destroyed /\ AdjustCirculation(d, 0)
  <2>1. supply' = SupplySet(d, 0) BY Zenon, <1>6 DEF AdjustCirculation
  <2>2. 0 \in Int /\ 0 <= 0 OBVIOUS
  <2> QED BY Zenon, <2>1, <2>2, <1>1, <1>2, <1>3, <1>6, StatusKeeps
<1> QED BY Zenon, <1>4, <1>5, <1>6 DEF ChangeStatusProposal

LEMMA MintKeeps ==
    ASSUME IInv, NEW a, NEW d \in DOMAIN markers, NEW n \in Nat, NEW to, Mint(a, d, n, to) PROVE IInv'
<1>1. UNCHANGED <<deny, navs>> BY Zenon DEF Mint
<1>2. RecordMore(d, n) \/ \E paid : IncreaseSupply(d, n, paid) BY Zenon DEF Mint
<1> QED BY Zenon, <1>1, <1>2, RecordMoreKeeps, IncreaseKeeps

LEMMA BurnKeeps == ASSUME IInv, NEW a, NEW d \in DOMAIN markers, NEW n \in Nat, Burn(a, d, n) PROVE IInv'
<1> DEFINE m == SetSupply(markers[d], markers[d].supply - n)
<1>1. UNCHANGED <<deny, navs>> BY Zenon DEF Burn
<1>2. CASE markers[d].status \in {Proposed, Finalized} /\ SetMarker(d, m) /\ UNCHANGED supply
  <2>1. markers[d] \in AnyMarker BY Zenon DEF IInv, Types
  <2>2. markers[d].supply - n \in Int BY <2>1 DEF AnyMarker
  <2>3. m \in AnyMarker BY Zenon, <2>1, <2>2, SetSupplyType
  <2>4. m.status = markers[d].status BY Zenon DEF SetSupply
  <2> HIDE DEF m
  <2>5. m.status \notin {Active, Destroyed} BY <1>2, <2>4 DEF Proposed, Finalized, Active, Destroyed
  <2> QED BY Zenon, <1>1, <1>2, <2>3, <2>5, NotActive
<1>3. CASE DecreaseSupply(d, n) BY Zenon, <1>1, <1>3, DecreaseKeeps
<1> QED BY Zenon, <1>2, <1>3 DEF Burn, bank

LEMMA UpdateAttributesKeeps ==
    ASSUME IInv, NEW a, NEW d \in DOMAIN markers, NEW change \in AttrChanges,
           UpdateRequiredAttributes(a, d, change)
    PROVE  IInv'
<1> DEFINE o == markers[d].terms
           t == [restricted |-> o.restricted, fixed |-> o.fixed, gov |-> o.gov, forced |-> o.forced,
                 attrs |-> (o.attrs \ change[1]) \cup change[2]]
<1>1. o \in Terms BY Zenon DEF IInv, Types, AnyMarker
<1>2. change[2] \subseteq Attribute BY Zenon, MarkerAssumption
<1>3. t \in Terms BY Zenon, <1>1, <1>2 DEF Terms
<1>4. SetMarker(d, SetTerms(markers[d], t)) /\ UNCHANGED <<supply, deny, navs>>
      BY Zenon DEF UpdateRequiredAttributes, bank
<1>5. t.fixed = o.fixed BY Zenon
<1> HIDE DEF t
<1> QED BY Zenon, <1>3, <1>4, <1>5, TermsKeeps

LEMMA UpdateForcedKeeps ==
    ASSUME IInv, NEW d \in DOMAIN markers, UpdateForcedTransfer(d) PROVE IInv'
<1> DEFINE o == markers[d].terms
           t == [restricted |-> o.restricted, fixed |-> o.fixed, gov |-> o.gov, forced |-> ~o.forced,
                 attrs |-> o.attrs]
<1>1. o \in Terms BY Zenon DEF IInv, Types, AnyMarker
<1>2. t \in Terms BY Zenon, <1>1 DEF Terms
<1>3. SetMarker(d, SetTerms(markers[d], t)) /\ UNCHANGED <<supply, deny, navs>>
      BY Zenon DEF UpdateForcedTransfer, bank
<1>4. t.fixed = o.fixed BY Zenon
<1> HIDE DEF t
<1> QED BY Zenon, <1>2, <1>3, <1>4, TermsKeeps

(* The handlers that holders of rights call *)
LEMMA ManagedKeeps == ASSUME IInv, NEW a \in Caller, NEW d \in DOMAIN markers, Managed(a, d) PROVE IInv'
<1>1. CASE \E g \in Grants : AddAccess(a, d, g)
  <2>1. PICK g \in Grants : AddAccess(a, d, g) BY Zenon, <1>1
  <2>2. g[1] \in Address /\ g[2] \in SUBSET Access BY Zenon, MarkerAssumption
  <2>3. SetMarker(d, GrantAccess(markers[d], g[1], g[2])) /\ UNCHANGED <<supply, deny, navs>>
        BY Zenon, <2>1 DEF AddAccess, bank
  <2> QED BY Zenon, <2>2, <2>3, AccessKeeps
<1>2. CASE \E g \in Grants : RemoveAccess(a, d, g[1])
  <2>1. PICK g \in Grants : RemoveAccess(a, d, g[1]) BY Zenon, <1>2
  <2>2. SetMarker(d, RevokeAccess(markers[d], g[1])) /\ UNCHANGED <<supply, deny, navs>>
        BY Zenon, <2>1 DEF RemoveAccess, bank
  <2> QED BY Zenon, <2>2, AccessKeeps
<1>3. CASE FinalizeMarker(a, d) BY Zenon, <1>3, FinalizeKeeps
<1>4. CASE ActivateMarker(a, d) BY Zenon, <1>4, ActivateKeeps
<1>5. CASE CancelMarker(a, d) BY Zenon, <1>5, CancelKeeps
<1>6. CASE DeleteMarker(a, d) BY Zenon, <1>6, DeleteKeeps
<1>7. CASE \E n \in Amounts, to \in Caller \cup {NoAddress} : Mint(a, d, n, to)
      BY Zenon, <1>7, MintKeeps, MarkerAssumption
<1>8. CASE \E n \in Amounts : Burn(a, d, n) BY Zenon, <1>8, BurnKeeps, MarkerAssumption
<1>9. CASE \E n \in Amounts, e \in Denom, to \in Address : Withdraw(a, to, d, Coin(e, n))
  <2>1. UNCHANGED <<supply, markers, deny, navs>> BY Zenon, <1>9 DEF Withdraw
  <2> QED BY Zenon, <2>1, Untouched DEF IInv, NoRecordsLeft
<1>10. CASE \E change \in AttrChanges : UpdateRequiredAttributes(a, d, change)
       BY Zenon, <1>10, UpdateAttributesKeeps
<1>11. CASE \E x \in DenyTargets : UpdateSendDenyList(a, d, x)
  <2>1. PICK x : UpdateSendDenyList(a, d, x) BY Zenon, <1>11
  <2>2. UNCHANGED <<supply, markers, navs>> /\ deny' \subseteq deny \cup {<<d, x>>}
        BY Zenon, <2>1 DEF UpdateSendDenyList, bank
  <2> QED BY <2>2, Untouched DEF IInv, NoRecordsLeft
<1>12. CASE \E price \in Denom : AddNetAssetValues(a, d, price)
  <2>1. PICK price : AddNetAssetValues(a, d, price) BY Zenon, <1>12
  <2>2. UNCHANGED <<supply, markers, deny>> /\ navs' \subseteq navs \cup {<<d, price>>}
        BY Zenon, <2>1 DEF AddNetAssetValues, bank
  <2> QED BY <2>2, Untouched DEF IInv, NoRecordsLeft
<1> QED BY Zenon, <1>1, <1>2, <1>3, <1>4, <1>5, <1>6, <1>7, <1>8, <1>9, <1>10, <1>11, <1>12 DEF Managed

LEMMA MovedKeeps ==
    ASSUME IInv, NEW a \in Caller, NEW d \in DOMAIN markers, NEW n \in Amounts, Moved(a, d, n) PROVE IInv'
<1>1. CASE \E from, to \in Address : Transfer(a, from, to, d, n)
  <2>1. UNCHANGED <<supply, markers, deny, navs>> BY Zenon, <1>1 DEF Transfer
  <2> QED BY Zenon, <2>1, Untouched DEF IInv, NoRecordsLeft
<1>2. CASE \E from, to \in Caller : IbcTransfer(a, from, to, d, n)
  <2>1. /\ SetMarker(d, GrantAccess(markers[d], IbcEscrow, {"transfer"}))
        /\ UNCHANGED <<supply, deny, navs>>
        BY Zenon, <1>2 DEF IbcTransfer
  <2>2. IbcEscrow \in Address /\ {"transfer"} \in SUBSET Access BY Zenon, MarkerAssumption DEF Access
  <2> QED BY Zenon, <2>1, <2>2, AccessKeeps
<1> QED BY Zenon, <1>1, <1>2 DEF Moved

(* The proposals of governance *)
LEMMA GovernedKeeps == ASSUME IInv, NEW d \in DOMAIN markers, Governed(d) PROVE IInv'
<1>1. CASE \E n \in Amounts, to \in Address \cup {NoAddress} : SupplyIncreaseProposal(d, n, to)
  <2>1. PICK n \in Amounts, to \in Address \cup {NoAddress} : SupplyIncreaseProposal(d, n, to) BY Zenon, <1>1
  <2>2. UNCHANGED <<deny, navs>> /\ n \in Nat BY Zenon, <2>1, MarkerAssumption DEF SupplyIncreaseProposal
  <2>3. RecordMore(d, n) \/ \E paid : IncreaseSupply(d, n, paid) BY Zenon, <2>1 DEF SupplyIncreaseProposal
  <2> QED BY Zenon, <2>2, <2>3, RecordMoreKeeps, IncreaseKeeps
<1>2. CASE \E n \in Amounts : SupplyDecreaseProposal(d, n)
  <2>1. PICK n \in Amounts : SupplyDecreaseProposal(d, n) BY Zenon, <1>2
  <2>2. DecreaseSupply(d, n) /\ UNCHANGED <<deny, navs>> /\ n \in Nat
        BY Zenon, <2>1, MarkerAssumption DEF SupplyDecreaseProposal
  <2> QED BY Zenon, <2>2, DecreaseKeeps
<1>3. CASE \E g \in Grants : SetAdministratorProposal(d, g)
  <2>1. PICK g \in Grants : SetAdministratorProposal(d, g) BY Zenon, <1>3
  <2>2. g[1] \in Address /\ g[2] \in SUBSET Access BY Zenon, MarkerAssumption
  <2>3. SetMarker(d, GrantAccess(markers[d], g[1], g[2])) /\ UNCHANGED <<supply, deny, navs>>
        BY Zenon, <2>1 DEF SetAdministratorProposal, bank
  <2> QED BY Zenon, <2>2, <2>3, AccessKeeps
<1>4. CASE \E g \in Grants : RemoveAdministratorProposal(d, g[1])
  <2>1. PICK g \in Grants : RemoveAdministratorProposal(d, g[1]) BY Zenon, <1>4
  <2>2. SetMarker(d, RevokeAccess(markers[d], g[1])) /\ UNCHANGED <<supply, deny, navs>>
        BY Zenon, <2>1 DEF RemoveAdministratorProposal, bank
  <2> QED BY Zenon, <2>2, AccessKeeps
<1>5. CASE \E s \in Proposed..Destroyed : ChangeStatusProposal(d, s) BY Zenon, <1>5, ChangeStatusKeeps
<1>6. CASE \E n \in Amounts, e \in Denom, to \in Address : WithdrawEscrowProposal(d, to, Coin(e, n))
  <2>1. UNCHANGED <<supply, markers, deny, navs>> BY Zenon, <1>6 DEF WithdrawEscrowProposal
  <2> QED BY Zenon, <2>1, Untouched DEF IInv, NoRecordsLeft
<1>7. CASE UpdateForcedTransfer(d) BY Zenon, <1>7, UpdateForcedKeeps
<1> QED BY Zenon, <1>1, <1>2, <1>3, <1>4, <1>5, <1>6, <1>7 DEF Governed

LEMMA BurnElsewhereKeeps ==
    ASSUME IInv, NEW a, NEW d \in Denom, NEW n \in Nat, BurnElsewhere(a, d, n) PROVE IInv'
<1>1. /\ d \in BurnedElsewhere /\ supply' = SupplySet(d, supply[d] - n)
      /\ UNCHANGED <<markers, deny, navs>>
      BY Zenon DEF BurnElsewhere
<1>2. supply \in [Denom -> Int] BY Zenon DEF IInv, Types
<1>3. /\ supply' \in [Denom -> Int] /\ supply'[d] = supply[d] - n
      /\ \A e \in Denom \ {d} : supply'[e] = supply[e]
      BY <1>1, <1>2 DEF SupplySet
<1>4. Types' BY Zenon, <1>1, <1>3 DEF IInv, Types
<1>5. Matched'
  <2> SUFFICES ASSUME NEW e \in DOMAIN markers PROVE Matches(e, markers[e], supply'[e])
      BY Zenon, <1>1 DEF Matched, Matches
  <2>1. e \in Denom /\ markers[e] \in AnyMarker BY Zenon DEF IInv, Types
  <2>2. Matches(e, markers[e], supply[e]) BY Zenon DEF IInv, Matched
  <2>3. CASE e = d
    <3>1. supply'[e] \in Int /\ supply[e] \in Int /\ supply'[e] <= supply[e] BY <1>2, <1>3, <2>3
    <3>2. markers[e].supply \in Int BY ONLY Zenon, <2>1 DEF AnyMarker
    <3> QED BY <1>1, <2>2, <2>3, <3>1, <3>2 DEF Matches
  <2>4. CASE e # d BY Zenon, <2>1, <2>2, <2>4, <1>3
  <2> QED BY Zenon, <2>3, <2>4
<1>6. NoRecordsLeft' BY Zenon, <1>1 DEF IInv, NoRecordsLeft
<1> QED BY Zenon, <1>4, <1>5, <1>6 DEF IInv

LEMMA BeginBlockerKeeps == ASSUME IInv, BeginBlocker PROVE IInv'
<1> DEFINE off  == {d \in DOMAIN markers : OffTarget(d)}
           gone == {d \in DOMAIN markers : markers[d].status = Destroyed}
<1>1. /\ supply' = [d \in Denom |-> IF d \in off THEN markers[d].supply ELSE supply[d]]
      /\ markers' = [d \in DOMAIN markers \ gone |-> markers[d]]
      /\ navs' = {k \in navs : k[1] \notin gone} /\ deny' = {k \in deny : k[1] \notin gone}
      BY Zenon DEF BeginBlocker, RemoveMarkers
<1>2. /\ DOMAIN markers \subseteq Denom /\ \A d \in DOMAIN markers : markers[d] \in AnyMarker
      /\ supply \in [Denom -> Int]
      BY Zenon DEF IInv, Types
<1>3. \A d \in DOMAIN markers : markers[d].supply \in Int BY ONLY Zenon, <1>2 DEF AnyMarker
<1>4. supply' \in [Denom -> Int] BY Zenon, <1>1, <1>2, <1>3
<1>5. DOMAIN markers' = DOMAIN markers \ gone /\ \A d \in DOMAIN markers' : markers'[d] = markers[d]
      BY Zenon, <1>1
<1>6. Types' BY Zenon, <1>2, <1>4, <1>5 DEF Types
<1>7. Matched'
  <2> SUFFICES ASSUME NEW d \in DOMAIN markers' PROVE Matches(d, markers'[d], supply'[d])
      BY Zenon DEF Matched, Matches
  <2>1. d \in DOMAIN markers /\ d \in Denom /\ markers'[d] = markers[d] BY Zenon, <1>2, <1>5
  <2>2. Matches(d, markers[d], supply[d]) BY Zenon, <2>1 DEF IInv, Matched
  <2>3. supply'[d] = IF d \in off THEN markers[d].supply ELSE supply[d] BY Zenon, <1>1, <2>1
  <2>4. markers[d].status # Destroyed BY Zenon, <1>5, <2>1
  <2>5. markers[d].supply \in Int BY Zenon, <2>1, <1>3
  <2> HIDE DEF off
  <2> QED BY <2>1, <2>2, <2>3, <2>4, <2>5 DEF Matches
<1>8. NoRecordsLeft' BY Zenon, <1>1, <1>5 DEF IInv, NoRecordsLeft
<1> QED BY Zenon, <1>6, <1>7, <1>8 DEF IInv

LEMMA InitEstablishes == Init => IInv
<1> SUFFICES ASSUME Init PROVE IInv BY Zenon
<1>1. DOMAIN markers = {} BY Zenon DEF Init, EmptyStore
<1>2. supply \in [Denom -> Int] BY MarkerAssumption DEF Init, Coins
<1> QED BY Zenon, <1>1, <1>2 DEF Init, IInv, Types, Matched, NoRecordsLeft

LEMMA NextKeeps == IInv /\ [Next]_vars => IInv'
<1> SUFFICES ASSUME IInv, [Next]_vars PROVE IInv' BY Zenon
<1>1. CASE \E a \in Caller, r \in NewMarkers : AddMarker(a, r) BY Zenon, <1>1, AddMarkerKeeps
<1>2. CASE \E a \in Caller, r \in NewMarkers : AddFinalizeActivateMarker(a, r)
      BY Zenon, <1>2, AddFinalizeActivateKeeps
<1>3. CASE \E a \in Caller, d \in DOMAIN markers : Managed(a, d) BY Zenon, <1>3, ManagedKeeps
<1>4. CASE \E a \in Caller, d \in DOMAIN markers, n \in Amounts : Moved(a, d, n) BY Zenon, <1>4, MovedKeeps
<1>5. CASE \E d \in DOMAIN markers : Governed(d) BY Zenon, <1>5, GovernedKeeps
<1>6. CASE UNCHANGED <<supply, markers, deny, navs>> BY Zenon, <1>6, Untouched DEF IInv, NoRecordsLeft
<1>7. CASE \E l \in Limits : Grant(l[1], l[2], l[3]) BY Zenon, <1>6, <1>7 DEF Grant, bank
<1>8. CASE \E l \in Limits : Revoke(l[1], l[2]) BY Zenon, <1>6, <1>8 DEF Revoke, bank
<1>9. CASE \E from, to \in Address, agents \in Agents, d \in Denom, n \in Amounts :
               Send(from, to, agents, Coin(d, n))
      BY Zenon, <1>6, <1>9 DEF Send
<1>10. CASE \E a \in Address, d \in Denom, n \in Amounts : BurnElsewhere(a, d, n)
       BY Zenon, <1>10, BurnElsewhereKeeps, MarkerAssumption
<1>11. CASE \E max \in NewMaxSupplies : UpdateParams(max) BY Zenon, <1>6, <1>11 DEF UpdateParams, bank
<1>12. CASE BeginBlocker BY Zenon, <1>12, BeginBlockerKeeps
<1>13. CASE UNCHANGED vars BY Zenon, <1>6, <1>13 DEF vars
<1> QED BY Zenon, <1>1, <1>2, <1>3, <1>4, <1>5, <1>7, <1>8, <1>9, <1>10, <1>11, <1>12, <1>13 DEF Next

(* IInv is invariant. *)
THEOREM Invariance == Spec => []IInv
BY InitEstablishes, NextKeeps, PTL DEF Spec

(* The registered invariant of the module, for any number of accounts,     *)
(* denominations and requests: the supply of an active marker with a fixed *)
(* supply is what it records, or less after burns elsewhere, so that       *)
(* BeginBlocker never has to burn.                                         *)
THEOREM SupplyHolds == Spec => []SupplyInvariant
<1>1. IInv => SupplyInvariant BY Zenon, MatchedImplies DEF IInv
<1> QED BY <1>1, Invariance, PTL

(* A destroyed marker has no supply, and deny lists and net asset values   *)
(* are only those of markers that exist.                                   *)
THEOREM CleanRemoval == Spec => [](NoSupplyLeft /\ NoRecordsLeft)
<1>1. IInv => NoSupplyLeft /\ NoRecordsLeft BY Zenon, MatchedImplies DEF IInv
<1> QED BY <1>1, Invariance, PTL
-----------------------------------------------------------------------------
(* Balances: what the two ways to change them do. *)

Ints == [Denom -> Int]

Balances == bal \in [Address -> Ints]

LEMMA CoinInts == ASSUME NEW d \in Denom, NEW n \in Nat PROVE Coin(d, n) \in Coins /\ Coin(d, n) \in Ints
BY DEF Coin, Coins, Ints

LEMMA CoinOnly ==
    ASSUME NEW d \in Denom, NEW n \in Nat
    PROVE  Coin(d, n)[d] = n /\ \A e \in Denom : Coin(d, n)[e] > 0 => e = d
BY DEF Coin

(* The balances n are b after c went from one account to another. *)
IsSent(n, b, from, to, c) ==
    /\ n \in [Address -> Ints]
    /\ \A a \in Address, d \in Denom :
          n[a][d] = b[a][d] - (IF a = from THEN c[d] ELSE 0) + (IF a = to THEN c[d] ELSE 0)

LEMMA SentValue ==
    ASSUME NEW b \in [Address -> Ints], NEW from \in Address, NEW to \in Address, NEW c \in Ints
    PROVE  IsSent(Sent(b, from, to, c), b, from, to, c)
<1> DEFINE less == [x \in Address |-> IF x = from THEN Minus(b[x], c) ELSE b[x]]
<1>1. \A x \in Ints : Minus(x, c) \in Ints /\ Plus(x, c) \in Ints BY DEF Minus, Plus, Ints
<1>2. less \in [Address -> Ints] BY Zenon, <1>1
<1>3. Sent(b, from, to, c) = [x \in Address |-> IF x = to THEN Plus(less[x], c) ELSE less[x]] BY Zenon DEF Sent
<1>4. Sent(b, from, to, c) \in [Address -> Ints] BY Zenon, <1>1, <1>2, <1>3
<1> SUFFICES ASSUME NEW a \in Address, NEW d \in Denom
             PROVE  Sent(b, from, to, c)[a][d] =
                    b[a][d] - (IF a = from THEN c[d] ELSE 0) + (IF a = to THEN c[d] ELSE 0)
    BY Zenon, <1>4 DEF IsSent
<1>5. less[a][d] = b[a][d] - (IF a = from THEN c[d] ELSE 0) BY DEF Minus, Ints
<1>6. Sent(b, from, to, c)[a] = IF a = to THEN Plus(less[a], c) ELSE less[a] BY Zenon, <1>3
<1>7. less[a] \in Ints /\ less[a][d] \in Int /\ c[d] \in Int BY Zenon, <1>2 DEF Ints
<1> HIDE DEF less
<1>8. Plus(less[a], c)[d] = less[a][d] + c[d] BY Zenon DEF Plus
<1>9. Sent(b, from, to, c)[a][d] = less[a][d] + (IF a = to THEN c[d] ELSE 0) BY <1>6, <1>7, <1>8
<1> QED BY Zenon, <1>4, <1>5, <1>9

LEMMA AdjustedValue ==
    ASSUME Balances, supply \in Ints, NEW d \in Denom, NEW n \in Int
    PROVE  /\ Adjusted(d, n) \in [Address -> Ints]
           /\ \A a \in Address, e \in Denom : Adjusted(d, n)[a][e] =
                 IF a = MarkerAddr[d] /\ e = d THEN bal[a][e] + n - supply[d] ELSE bal[a][e]
<1> DEFINE new(x) == Minus(Plus(x, Coin(d, n)), Coin(d, supply[d]))
<1>1. supply[d] \in Int BY Zenon DEF Ints
<1>2. \A x \in Ints : new(x) = [y \in Denom |-> IF y = d THEN x[y] + n - supply[d] ELSE x[y]]
      BY <1>1 DEF Minus, Plus, Coin, Ints
<1>3. \A x \in Ints : new(x) \in Ints BY <1>1, <1>2 DEF Ints
<1>4. Adjusted(d, n) = [x \in Address |-> IF x = MarkerAddr[d] THEN new(bal[x]) ELSE bal[x]] BY Zenon DEF Adjusted
<1> HIDE DEF new
<1>5. Adjusted(d, n) \in [Address -> Ints] BY Zenon, <1>3, <1>4 DEF Balances
<1> SUFFICES ASSUME NEW a \in Address, NEW e \in Denom
             PROVE  Adjusted(d, n)[a][e] =
                    IF a = MarkerAddr[d] /\ e = d THEN bal[a][e] + n - supply[d] ELSE bal[a][e]
    BY Zenon, <1>5
<1>6. Adjusted(d, n)[a] = IF a = MarkerAddr[d] THEN new(bal[a]) ELSE bal[a] BY Zenon, <1>4
<1>7. bal[a] \in Ints BY Zenon DEF Balances
<1>8. new(bal[a])[e] = IF e = d THEN bal[a][e] + n - supply[d] ELSE bal[a][e] BY ONLY Zenon, <1>2, <1>7
<1> QED BY Zenon, <1>5, <1>6, <1>8

(* What is shown of every step. *)
Good == Balances' /\ FeeStep /\ ConsentStep

LEMMA NoMove == ASSUME Balances, UNCHANGED bal PROVE Good
<1>1. \A a \in Address, d \in Denom : bal[a][d] \in Int BY Zenon DEF Balances, Ints
<1>2. FeeCollector \in Address BY Zenon, RestrictionAssumption
<1>3. FeeStep BY <1>1, <1>2 DEF FeeStep
<1>4. ConsentStep BY <1>1 DEF ConsentStep
<1> QED BY Zenon, <1>3, <1>4 DEF Good, Balances

LEMMA SendGood ==
    ASSUME Balances, NEW from \in Address, NEW to \in Address, NEW c \in Coins,
           bal' = Sent(bal, from, to, c),
           \A e \in Denom : Restricted(markers, e) /\ c[e] > 0 => to # FeeCollector,
           \A e \in Denom : c[e] > 0 /\ bal'[from][e] = bal[from][e] - c[e] => Consents(from, e)
    PROVE  Good
<1>1. c \in Ints /\ \A e \in Denom : c[e] \in Nat BY DEF Coins, Ints
<1>2. bal \in [Address -> Ints] BY Zenon DEF Balances
<1>3. \A a \in Address, e \in Denom : bal[a][e] \in Int BY ONLY Zenon, <1>2 DEF Ints
<1>4. bal' \in [Address -> Ints] /\ \A a \in Address, e \in Denom :
          bal'[a][e] = bal[a][e] - (IF a = from THEN c[e] ELSE 0) + (IF a = to THEN c[e] ELSE 0)
  <2>1. IsSent(Sent(bal, from, to, c), bal, from, to, c) BY Zenon, <1>1, <1>2, SentValue
  <2>2. IsSent(bal', bal, from, to, c) BY <2>1, Zenon
  <2> QED BY Zenon, <2>2 DEF IsSent
<1>5. FeeStep
  <2> SUFFICES ASSUME NEW e \in Denom, Restricted(markers, e)
               PROVE  bal'[FeeCollector][e] <= bal[FeeCollector][e]
      BY Zenon DEF FeeStep
  <2>1. FeeCollector \in Address BY Zenon, RestrictionAssumption
  <2>2. c[e] \in Nat /\ bal[FeeCollector][e] \in Int BY Zenon, <1>1, <1>3, <2>1
  <2>3. to = FeeCollector => c[e] = 0 BY <2>2
  <2>4. bal'[FeeCollector][e] = bal[FeeCollector][e] - (IF FeeCollector = from THEN c[e] ELSE 0)
                                + (IF FeeCollector = to THEN c[e] ELSE 0)
        BY Zenon, <1>4, <2>1
  <2> QED BY ONLY <2>2, <2>3, <2>4
<1>6. ConsentStep
  <2> SUFFICES ASSUME NEW a \in Address, NEW e \in Denom, bal'[a][e] < bal[a][e] PROVE Consents(a, e)
      BY Zenon DEF ConsentStep
  <2>1. c[e] \in Nat /\ bal[a][e] \in Int BY Zenon, <1>1, <1>3
  <2>2. bal'[a][e] = bal[a][e] - (IF a = from THEN c[e] ELSE 0) + (IF a = to THEN c[e] ELSE 0) BY Zenon, <1>4
  <2>3. a = from /\ a # to /\ c[e] > 0 /\ bal'[a][e] = bal[a][e] - c[e] BY <2>1, <2>2
  <2> QED BY Zenon, <2>3
<1> QED BY Zenon, <1>4, <1>5, <1>6 DEF Good, Balances

LEMMA AdjustGood ==
    ASSUME Balances, supply \in Ints, NEW d \in Denom, NEW n \in Int, bal' = Adjusted(d, n),
           n < supply[d] => Consents(MarkerAddr[d], d)
    PROVE  Good
<1>1. supply[d] \in Int BY Zenon DEF Ints
<1>2. \A a \in Address, e \in Denom : bal[a][e] \in Int BY Zenon DEF Balances, Ints
<1>3. bal' \in [Address -> Ints] /\ \A a \in Address, e \in Denom :
          bal'[a][e] = IF a = MarkerAddr[d] /\ e = d THEN bal[a][e] + n - supply[d] ELSE bal[a][e]
      BY AdjustedValue
<1>4. FeeStep
  <2>1. FeeCollector \in Address /\ MarkerAddr[d] # FeeCollector BY ONLY Zenon, RestrictionAssumption
  <2>2. \A e \in Denom : bal'[FeeCollector][e] = bal[FeeCollector][e] BY Zenon, <1>3, <2>1
  <2> QED BY ONLY <1>2, <2>1, <2>2 DEF FeeStep
<1>5. ConsentStep
  <2> SUFFICES ASSUME NEW a \in Address, NEW e \in Denom, bal'[a][e] < bal[a][e] PROVE Consents(a, e)
      BY Zenon DEF ConsentStep
  <2>1. bal[a][e] \in Int BY Zenon, <1>2
  <2>2. bal'[a][e] = IF a = MarkerAddr[d] /\ e = d THEN bal[a][e] + n - supply[d] ELSE bal[a][e] BY Zenon, <1>3
  <2>3. a = MarkerAddr[d] /\ e = d BY <2>1, <2>2
  <2>4. n < supply[d] BY <1>1, <2>1, <2>2, <2>3
  <2> QED BY Zenon, <2>3, <2>4
<1> QED BY Zenon, <1>3, <1>4, <1>5 DEF Good, Balances

LEMMA BypassFee ==
    ASSUME NEW to, NEW c, BypassAllowed(markers, to, c)
    PROVE  \A e \in Denom : Restricted(markers, e) /\ c[e] > 0 => to # FeeCollector
BY Zenon DEF BypassAllowed

(* Coins that are minted and sent on in the same step *)
LEMMA MintSendGood ==
    ASSUME Balances, supply \in Ints, NEW d \in Denom, NEW n \in Nat, NEW to \in Address,
           BypassAllowed(markers, to, Coin(d, n)),
           bal' = Sent(Adjusted(d, supply[d] + n), MarkerAddr[d], to, Coin(d, n))
    PROVE  Good
<1> DEFINE b == Adjusted(d, supply[d] + n)
           c == Coin(d, n)
           at == MarkerAddr[d]
<1>1. supply[d] \in Int /\ supply[d] + n \in Int BY DEF Ints
<1>2. at \in Address /\ at # FeeCollector /\ FeeCollector \in Address
      BY Zenon, MarkerAddrAssumption, RestrictionAssumption
<1>3. \A a \in Address, e \in Denom : bal[a][e] \in Int BY Zenon DEF Balances, Ints
<1>4. c \in Ints /\ c[d] = n /\ \A e \in Denom \ {d} : c[e] = 0 BY Zenon, CoinInts DEF Coin
<1>5. b \in [Address -> Ints] /\ \A a \in Address, e \in Denom :
          b[a][e] = IF a = at /\ e = d THEN bal[a][e] + n ELSE bal[a][e]
  <2>1. b \in [Address -> Ints] /\ \A a \in Address, e \in Denom : b[a][e] =
            IF a = at /\ e = d THEN bal[a][e] + (supply[d] + n) - supply[d] ELSE bal[a][e]
        BY ONLY ZenonT(60), <1>1, Balances, supply \in Ints, d \in Denom, AdjustedValue
  <2>2. n \in Int OBVIOUS
  <2> HIDE DEF b, at
  <2> QED BY ONLY <1>1, <1>3, <2>1, <2>2
<1> HIDE DEF b, c, at
<1>6. bal' \in [Address -> Ints] /\ \A a \in Address, e \in Denom :
          bal'[a][e] = b[a][e] - (IF a = at THEN c[e] ELSE 0) + (IF a = to THEN c[e] ELSE 0)
  <2>1. IsSent(Sent(b, at, to, c), b, at, to, c) BY Zenon, <1>2, <1>4, <1>5, SentValue
  <2>2. bal' = Sent(b, at, to, c) BY Zenon DEF b, c, at
  <2>3. IsSent(bal', b, at, to, c) BY <2>1, <2>2, Zenon
  <2> QED BY Zenon, <2>3 DEF IsSent
<1>7. \A a \in Address, e \in Denom : bal'[a][e] = bal[a][e] + (IF a = to THEN c[e] ELSE 0)
  <2> TAKE a \in Address, e \in Denom
  <2>1. bal[a][e] \in Int BY Zenon, <1>3
  <2>2. bal'[a][e] = b[a][e] - (IF a = at THEN c[e] ELSE 0) + (IF a = to THEN c[e] ELSE 0) BY Zenon, <1>6
  <2>3. b[a][e] = IF a = at /\ e = d THEN bal[a][e] + n ELSE bal[a][e] BY Zenon, <1>5
  <2>4. n \in Int /\ c[e] \in Int /\ (e # d => c[e] = 0) BY Zenon, <1>4, CoinInts DEF Ints
  <2> QED BY ONLY <1>4, <2>1, <2>2, <2>3, <2>4
<1>8. \A e \in Denom : Restricted(markers, e) /\ c[e] > 0 => to # FeeCollector BY Zenon, BypassFee DEF c
<1>9. \A e \in Denom : c[e] \in Nat BY <1>4
<1>10. FeeStep
  <2> SUFFICES ASSUME NEW e \in Denom, Restricted(markers, e)
               PROVE  bal'[FeeCollector][e] <= bal[FeeCollector][e]
      BY Zenon DEF FeeStep
  <2>1. c[e] \in Nat /\ bal[FeeCollector][e] \in Int BY Zenon, <1>2, <1>3, <1>9
  <2>2. ~(c[e] > 0) => c[e] = 0 BY ONLY <2>1
  <2>3. to = FeeCollector => c[e] = 0 BY Zenon, <1>8, <2>2
  <2>4. bal'[FeeCollector][e] = bal[FeeCollector][e] + (IF FeeCollector = to THEN c[e] ELSE 0) BY Zenon, <1>2, <1>7
  <2> QED BY ONLY <2>1, <2>3, <2>4
<1>11. ConsentStep
  <2> SUFFICES ASSUME NEW a \in Address, NEW e \in Denom PROVE ~(bal'[a][e] < bal[a][e])
      BY Zenon DEF ConsentStep
  <2>1. c[e] \in Nat /\ bal[a][e] \in Int BY Zenon, <1>3, <1>9
  <2>2. bal'[a][e] = bal[a][e] + (IF a = to THEN c[e] ELSE 0) BY Zenon, <1>7
  <2> QED BY ONLY <2>1, <2>2
<1> QED BY Zenon, <1>6, <1>10, <1>11 DEF Good, Balances
-----------------------------------------------------------------------------
(* Whose consent the steps of Marker have *)

Limited == \A k \in DOMAIN grants : grants[k].limit \in Ints

(* The invariant that the action properties rest on *)
Sound == IInv /\ Balances /\ Limited

LEMMA OwnMarker ==
    ASSUME DOMAIN markers \subseteq Denom, NEW d \in DOMAIN markers
    PROVE  IsMarker(markers, MarkerAddr[d]) /\ MarkerAt(markers, MarkerAddr[d]) = markers[d]
<1>1. \E e \in DOMAIN markers : MarkerAddr[e] = MarkerAddr[d] BY Zenon
<1>2. \A e \in DOMAIN markers : MarkerAddr[e] = MarkerAddr[d] => e = d BY Zenon, MarkerAddrAssumption
<1>3. (CHOOSE e \in DOMAIN markers : MarkerAddr[e] = MarkerAddr[d]) = d BY Zenon, <1>1, <1>2
<1> QED BY ZenonT(60), <1>1, <1>3 DEF IsMarker, MarkerAt

LEMMA OwnConsent ==
    ASSUME DOMAIN markers \subseteq Denom, NEW d \in DOMAIN markers, NEW e \in Denom,
           MarkerConsents(markers[d], MarkerAddr[e] = MarkerAddr[d], e)
    PROVE  Consents(MarkerAddr[d], e)
<1>1. IsMarker(markers, MarkerAddr[d]) /\ MarkerAt(markers, MarkerAddr[d]) = markers[d] BY Zenon, OwnMarker
<1>2. MarkerConsents(MarkerAt(markers, MarkerAddr[d]), MarkerAddr[e] = MarkerAddr[d], e) BY <1>1, Zenon
<1> QED BY <1>1, <1>2, Zenon DEF Consents

LEMMA Facts ==
    ASSUME Sound
    PROVE  /\ Balances /\ supply \in Ints /\ DOMAIN markers \subseteq Denom
           /\ \A d \in Denom : MarkerAddr[d] \in Address
BY Zenon, MarkerAddrAssumption DEF Sound, IInv, Types, Ints

(* Coins that go from the marker of d, where the step has its consent *)
LEMMA EscrowGood ==
    ASSUME Sound, NEW d \in DOMAIN markers, NEW to \in Address, NEW e \in Denom, NEW n \in Nat,
           MarkerConsents(markers[d], MarkerAddr[e] = MarkerAddr[d], e),
           BypassAllowed(markers, to, Coin(e, n)), bal' = Sent(bal, MarkerAddr[d], to, Coin(e, n))
    PROVE  Good
<1>1. Balances /\ DOMAIN markers \subseteq Denom /\ MarkerAddr[d] \in Address BY Zenon, Facts
<1>2. Consents(MarkerAddr[d], e) BY Zenon, <1>1, OwnConsent
<1>3. Coin(e, n) \in Coins /\ \A x \in Denom : Coin(e, n)[x] > 0 => x = e BY Zenon, CoinInts, CoinOnly
<1>4. \A x \in Denom : Restricted(markers, x) /\ Coin(e, n)[x] > 0 => to # FeeCollector BY Zenon, BypassFee
<1> HIDE DEF Good
<1>5. \A x \in Denom : Coin(e, n)[x] > 0 /\ bal'[MarkerAddr[d]][x] = bal[MarkerAddr[d]][x] - Coin(e, n)[x]
          => Consents(MarkerAddr[d], x)
      BY <1>2, <1>3, Zenon
<1> QED BY Zenon, <1>1, <1>3, <1>4, <1>5, SendGood

LEMMA WithdrawGood ==
    ASSUME Sound, NEW a \in Caller, NEW d \in DOMAIN markers, NEW e \in Denom, NEW n \in Nat,
           NEW to \in Address, Withdraw(a, to, d, Coin(e, n))
    PROVE  Good
<1>1. /\ HasAccess(markers[d], a, "withdraw") /\ BypassAllowed(markers, to, Coin(e, n))
      /\ bal' = Sent(bal, MarkerAddr[d], to, Coin(e, n)) /\ signers' = {a}
      BY Zenon DEF Withdraw, CanWithdraw
<1>2. MarkerConsents(markers[d], MarkerAddr[e] = MarkerAddr[d], e) BY Zenon, <1>1 DEF MarkerConsents
<1> QED BY Zenon, <1>1, <1>2, EscrowGood

LEMMA WithdrawEscrowGood ==
    ASSUME Sound, NEW d \in DOMAIN markers, NEW e \in Denom, NEW n \in Nat, NEW to \in Address,
           WithdrawEscrowProposal(d, to, Coin(e, n))
    PROVE  Good
<1>1. /\ markers[d].terms.gov /\ BypassAllowed(markers, to, Coin(e, n))
      /\ bal' = Sent(bal, MarkerAddr[d], to, Coin(e, n)) /\ signers' = {Authority}
      BY Zenon DEF WithdrawEscrowProposal
<1>2. MarkerConsents(markers[d], MarkerAddr[e] = MarkerAddr[d], e) BY Zenon, <1>1 DEF MarkerConsents
<1> QED BY Zenon, <1>1, <1>2, EscrowGood

(* AdjustCirculation on a marker that exists *)
LEMMA AdjustOwnGood ==
    ASSUME Sound, NEW d \in DOMAIN markers, NEW n \in Int, bal' = Adjusted(d, n),
           n < supply[d] => MarkerConsents(markers[d], TRUE, d)
    PROVE  Good
<1>1. Balances /\ supply \in Ints /\ DOMAIN markers \subseteq Denom BY Zenon, Facts
<1>2. ASSUME n < supply[d] PROVE Consents(MarkerAddr[d], d)
  <2>2. MarkerConsents(markers[d], TRUE, d) BY ZenonT(60), <1>2
  <2>1. MarkerConsents(markers[d], MarkerAddr[d] = MarkerAddr[d], d) BY Zenon, <2>2 DEF MarkerConsents
  <2> QED BY Zenon, <1>1, <2>1, OwnConsent
<1> QED BY Zenon, <1>1, <1>2, AdjustGood

LEMMA ActivateGood ==
    ASSUME Sound, NEW a \in Caller, NEW d \in DOMAIN markers, ActivateMarker(a, d)
    PROVE  Good
<1>1. supply[d] <= markers[d].supply /\ bal' = Adjusted(d, markers[d].supply)
      BY Zenon DEF ActivateMarker, AdjustCirculation
<1>2. markers[d].supply \in Int /\ supply[d] \in Int BY Zenon DEF Sound, IInv, Types, AnyMarker
<1>3. ~(markers[d].supply < supply[d]) BY <1>1, <1>2
<1> QED BY ZenonT(60), <1>1, <1>2, <1>3, AdjustOwnGood

LEMMA DeleteGood ==
    ASSUME Sound, NEW a \in Caller, NEW d \in DOMAIN markers, DeleteMarker(a, d)
    PROVE  Good
<1>1. /\ HasAccess(markers[d], a, "delete") \/ markers[d].manager = a
      /\ bal' = Adjusted(d, 0) /\ signers' = {a}
      BY Zenon DEF DeleteMarker, AdjustCirculation
<1>2. MarkerConsents(markers[d], TRUE, d) BY Zenon, <1>1 DEF MarkerConsents
<1>3. 0 \in Int OBVIOUS
<1> QED BY <1>1, <1>2, <1>3, AdjustOwnGood, Zenon

LEMMA DecreaseGood ==
    ASSUME Sound, NEW d \in DOMAIN markers, NEW n \in Nat, DecreaseSupply(d, n),
           MarkerConsents(markers[d], TRUE, d)
    PROVE  Good
<1>1. bal' = Adjusted(d, supply[d] - n) BY Zenon DEF DecreaseSupply, AdjustCirculation
<1>2. supply[d] - n \in Int BY DEF Sound, IInv, Types
<1> QED BY ZenonT(60), <1>1, <1>2, AdjustOwnGood

LEMMA BurnGood ==
    ASSUME Sound, NEW a \in Caller, NEW d \in DOMAIN markers, NEW n \in Nat, Burn(a, d, n)
    PROVE  Good
<1>1. CASE UNCHANGED bank BY Zenon, <1>1, NoMove DEF Sound, bank
<1>2. CASE DecreaseSupply(d, n)
  <2>1. MarkerConsents(markers[d], TRUE, d) BY Zenon DEF Burn, MarkerConsents
  <2> QED BY Zenon, <1>2, <2>1, DecreaseGood
<1> QED BY Zenon, <1>1, <1>2 DEF Burn

(* IncreaseSupply, alone or with the coins sent on *)
LEMMA IncreaseGood ==
    ASSUME Sound, NEW d \in DOMAIN markers, NEW n \in Nat, bal' = Adjusted(d, supply[d] + n)
    PROVE  Good
<1>1. supply[d] + n \in Int /\ ~(supply[d] + n < supply[d]) BY DEF Sound, IInv, Types
<1> QED BY ZenonT(60), <1>1, AdjustOwnGood

LEMMA MintGood ==
    ASSUME Sound, NEW a \in Caller, NEW d \in DOMAIN markers, NEW n \in Nat,
           NEW to \in Address \cup {NoAddress}, Mint(a, d, n, to)
    PROVE  Good
<1>1. CASE RecordMore(d, n) BY Zenon, <1>1, NoMove DEF Sound, RecordMore, bank
<1>2. CASE IncreaseSupply(d, n, Adjusted(d, supply[d] + n))
  <2>1. bal' = Adjusted(d, supply[d] + n) BY Zenon, <1>2 DEF IncreaseSupply
  <2> QED BY Zenon, <2>1, IncreaseGood
<1>3. CASE /\ to # NoAddress /\ CanWithdraw(Adjusted(d, supply[d] + n), a, to, d, Coin(d, n))
           /\ IncreaseSupply(d, n, Sent(Adjusted(d, supply[d] + n), MarkerAddr[d], to, Coin(d, n)))
  <2>1. BypassAllowed(markers, to, Coin(d, n)) BY Zenon, <1>3 DEF CanWithdraw
  <2>2. bal' = Sent(Adjusted(d, supply[d] + n), MarkerAddr[d], to, Coin(d, n)) BY Zenon, <1>3 DEF IncreaseSupply
  <2>3. Balances /\ supply \in Ints /\ d \in Denom /\ to \in Address BY Zenon, <1>3, Facts
  <2> QED BY Zenon, <2>1, <2>2, <2>3, MintSendGood
<1> QED BY Zenon, <1>1, <1>2, <1>3 DEF Mint

LEMMA SupplyIncreaseGood ==
    ASSUME Sound, NEW d \in DOMAIN markers, NEW n \in Nat, NEW to \in Address \cup {NoAddress},
           SupplyIncreaseProposal(d, n, to)
    PROVE  Good
<1>1. CASE RecordMore(d, n) BY Zenon, <1>1, NoMove DEF Sound, RecordMore, bank
<1>2. CASE IncreaseSupply(d, n, Adjusted(d, supply[d] + n))
  <2>1. bal' = Adjusted(d, supply[d] + n) BY Zenon, <1>2 DEF IncreaseSupply
  <2> QED BY Zenon, <2>1, IncreaseGood
<1>3. CASE /\ to # NoAddress /\ BypassAllowed(markers, to, Coin(d, n))
           /\ IncreaseSupply(d, n, Sent(Adjusted(d, supply[d] + n), MarkerAddr[d], to, Coin(d, n)))
  <2>1. bal' = Sent(Adjusted(d, supply[d] + n), MarkerAddr[d], to, Coin(d, n)) BY Zenon, <1>3 DEF IncreaseSupply
  <2>2. Balances /\ supply \in Ints /\ d \in Denom /\ to \in Address BY Zenon, <1>3, Facts
  <2> QED BY Zenon, <1>3, <2>1, <2>2, MintSendGood
<1> QED BY Zenon, <1>1, <1>2, <1>3 DEF SupplyIncreaseProposal

LEMMA ChangeStatusGood ==
    ASSUME Sound, NEW d \in DOMAIN markers, NEW s, ChangeStatusProposal(d, s)
    PROVE  Good
<1>1. MarkerConsents(markers[d], TRUE, d) BY Zenon DEF ChangeStatusProposal, MarkerConsents
<1>2. markers[d].supply \in Int BY Zenon DEF Sound, IInv, Types, AnyMarker
<1>3. CASE UNCHANGED bank BY Zenon, <1>3, NoMove DEF Sound, bank
<1>4. CASE bal' = Adjusted(d, markers[d].supply) BY ZenonT(60), <1>1, <1>2, <1>4, AdjustOwnGood
<1>5. CASE bal' = Adjusted(d, 0)
  <2>1. 0 \in Int OBVIOUS
  <2> QED BY <1>1, <1>5, <2>1, AdjustOwnGood, Zenon
<1> QED BY Zenon, <1>3, <1>4, <1>5 DEF ChangeStatusProposal, AdjustCirculation

LEMMA AddMarkerGood ==
    ASSUME Sound, NEW a \in Caller, NEW r \in NewMarkers, AddMarker(a, r)
    PROVE  Good
<1>1. r.denom \in Denom /\ r.supply \in Int BY MarkerAssumption DEF Request
<1>2. CASE UNCHANGED bank BY Zenon, <1>2, NoMove DEF Sound, bank
<1>3. CASE r.status = Active /\ AdjustCirculation(r.denom, r.supply)
  <2>1. a = Authority /\ signers' = {a} /\ r.denom \notin DOMAIN markers
        BY Zenon, <1>3 DEF AddMarker, AddMarkerAccount
  <2>2. Consents(MarkerAddr[r.denom], r.denom) BY Zenon, <2>1 DEF Consents
  <2>3. bal' = Adjusted(r.denom, r.supply) BY Zenon, <1>3 DEF AdjustCirculation
  <2>4. Balances /\ supply \in Ints BY Zenon, Facts
  <2> QED BY Zenon, <1>1, <2>2, <2>3, <2>4, AdjustGood
<1> QED BY Zenon, <1>2, <1>3 DEF AddMarker

LEMMA AddFinalizeActivateGood ==
    ASSUME Sound, NEW a \in Caller, NEW r \in NewMarkers, AddFinalizeActivateMarker(a, r)
    PROVE  Good
<1>1. r.denom \in Denom /\ r.supply \in Int BY MarkerAssumption DEF Request
<1>2. bal' = Adjusted(r.denom, r.supply) /\ supply[r.denom] <= r.supply
      BY Zenon DEF AddFinalizeActivateMarker, AdjustCirculation
<1>3. Balances /\ supply \in Ints BY Zenon, Facts
<1>4. ~(r.supply < supply[r.denom]) BY <1>1, <1>2, <1>3 DEF Ints
<1> QED BY Zenon, <1>1, <1>2, <1>3, <1>4, AdjustGood

(* A use of an authorization takes from its limit what is sent. *)
LEMMA AuthzTakes ==
    ASSUME Limited, NEW s, NEW from, NEW to, NEW d \in Denom, NEW n \in Nat,
           authzHandler(s, from, to, Coin(d, n))
    PROVE  /\ LimitOf(grants, s, from, d) - LimitOf(grants', s, from, d) = n
           /\ Limited'
<1> DEFINE k == <<s, from>>
           c == Coin(d, n)
<1>1. k \in DOMAIN grants /\ grants[k].limit \in Ints BY Zenon DEF authzHandler, Limited
<1>2. c \in Ints /\ c[d] = n BY Zenon, CoinInts DEF Coin
<1>3. grants[k].limit[d] \in Int BY ONLY Zenon, <1>1 DEF Ints
<1>4. LimitOf(grants, s, from, d) = grants[k].limit[d] BY ONLY Zenon, <1>1 DEF LimitOf
<1>5. CASE grants[k].limit = c /\ grants' = Del(grants, k)
  <2>1. DOMAIN grants' = DOMAIN grants \ {k} /\ \A x \in DOMAIN grants' : grants'[x] = grants[x]
        BY ONLY Zenon, <1>5 DEF Del
  <2>2. LimitOf(grants', s, from, d) = 0 BY Zenon, <2>1 DEF LimitOf
  <2>3. Limited' BY Zenon, <2>1 DEF Limited
  <2>4. LimitOf(grants, s, from, d) = n BY Zenon, <1>2, <1>4, <1>5
  <2> QED BY <2>2, <2>3, <2>4
<1>6. CASE grants' = Put(grants, k, Left(grants[k], c))
  <2>1. /\ DOMAIN grants' = DOMAIN grants /\ grants'[k] = Left(grants[k], c)
        /\ \A x \in DOMAIN grants \ {k} : grants'[x] = grants[x]
        BY Zenon, <1>1, <1>6 DEF Put
  <2>2. Left(grants[k], c).limit = Minus(grants[k].limit, c) BY Zenon DEF Left
  <2>3. Minus(grants[k].limit, c) \in Ints /\ Minus(grants[k].limit, c)[d] = grants[k].limit[d] - n
        BY <1>1, <1>2 DEF Minus, Ints
  <2>4. Limited' BY Zenon, <2>1, <2>2, <2>3 DEF Limited
  <2>5. LimitOf(grants', s, from, d) = grants[k].limit[d] - n BY Zenon, <1>1, <2>1, <2>2, <2>3 DEF LimitOf
  <2> QED BY ONLY <1>3, <1>4, <2>4, <2>5, n \in Nat
<1> QED BY Zenon, <1>5, <1>6 DEF authzHandler

(* s may move n of the coin d out of the account from. *)
Entitled(s, from, d, n) ==
    \/ s = from
    \/ Forced(s, d)
    \/ /\ Restricted(markers, d) /\ markers[d].access[s] \cap {"transfer", "force_transfer"} # {}
       /\ LimitOf(grants, s, from, d) - LimitOf(grants', s, from, d) = n

(* A transfer in the name of a holder, with the right to transfer *)
LEMMA AgentSendGood ==
    ASSUME Sound, NEW s \in Caller, NEW d \in DOMAIN markers, NEW n \in Nat,
           NEW from \in Address, NEW to \in Address, signers' = {s},
           \A e \in Denom : Restricted(markers, e) /\ Coin(d, n)[e] > 0 => to # FeeCollector,
           bal' = Sent(bal, from, to, Coin(d, n)),
           Entitled(s, from, d, n)
    PROVE  Good
<1>1. Balances /\ d \in Denom BY Zenon, Facts
<1>2. Coin(d, n) \in Coins /\ Coin(d, n)[d] = n /\ \A e \in Denom : Coin(d, n)[e] > 0 => e = d
      BY Zenon, <1>1, CoinInts, CoinOnly
<1>3. ASSUME bal'[from][d] = bal[from][d] - n PROVE Consents(from, d)
  <2>1. bal[from][d] \in Int BY Zenon, <1>1 DEF Balances, Ints
  <2>2. bal[from][d] - bal'[from][d] = n BY ONLY <1>3, <2>1, n \in Nat
  <2>3. HolderConsents(from, d) BY Zenon, <2>2 DEF HolderConsents, Entitled
  <2> QED BY Zenon, <2>3 DEF Consents
<1>4. \A e \in Denom : Coin(d, n)[e] > 0 /\ bal'[from][e] = bal[from][e] - Coin(d, n)[e]
          => Consents(from, e)
      BY Zenon, <1>2, <1>3
<1> QED BY Zenon, <1>1, <1>2, <1>4, SendGood

LEMMA TransferGood ==
    ASSUME Sound, NEW a \in Caller, NEW d \in DOMAIN markers, NEW n \in Nat,
           NEW from \in Address, NEW to \in Address, Transfer(a, from, to, d, n)
    PROVE  Good /\ Limited'
<1>1. /\ bal' = Sent(bal, from, to, Coin(d, n)) /\ signers' = {a} /\ markers[d].terms.restricted
      /\ HasAccess(markers[d], a, "transfer") \/ HasAccess(markers[d], a, "force_transfer")
      /\ BypassAllowed(markers, to, Coin(d, n)) /\ d \in Denom
      BY Zenon, Facts DEF Transfer
<1>2. \A e \in Denom : Restricted(markers, e) /\ Coin(d, n)[e] > 0 => to # FeeCollector BY Zenon, <1>1, BypassFee
<1>3. Restricted(markers, d) /\ markers[d].access[a] \cap {"transfer", "force_transfer"} # {}
      BY Zenon, <1>1 DEF Restricted, HasAccess
<1>4. CASE a = from /\ UNCHANGED grants
  <2>1. Entitled(a, from, d, n) BY Zenon, <1>4 DEF Entitled
  <2>2. Good BY Zenon, <1>1, <1>2, <2>1, AgentSendGood
  <2> QED BY Zenon, <1>4, <2>2 DEF Sound, Limited
<1>5. CASE markers[d].terms.forced /\ HasAccess(markers[d], a, "force_transfer") /\ UNCHANGED grants
  <2>1. Entitled(a, from, d, n) BY Zenon, <1>5 DEF Forced, Entitled
  <2>2. Good BY Zenon, <1>1, <1>2, <2>1, AgentSendGood
  <2> QED BY Zenon, <1>5, <2>2 DEF Sound, Limited
<1>6. CASE authzHandler(a, from, to, Coin(d, n))
  <2>1. LimitOf(grants, a, from, d) - LimitOf(grants', a, from, d) = n /\ Limited'
        BY Zenon, <1>1, <1>6, AuthzTakes DEF Sound
  <2>2. Entitled(a, from, d, n) BY Zenon, <1>3, <2>1 DEF Entitled
  <2>3. Good BY Zenon, <1>1, <1>2, <2>2, AgentSendGood
  <2> QED BY Zenon, <2>1, <2>3
<1> QED BY Zenon, <1>4, <1>5, <1>6 DEF Transfer

LEMMA IbcTransferGood ==
    ASSUME Sound, NEW a \in Caller, NEW d \in DOMAIN markers, NEW n \in Nat,
           NEW from \in Caller, NEW to \in Caller, IbcTransfer(a, from, to, d, n)
    PROVE  Good /\ Limited'
<1>1. /\ bal' = Sent(bal, from, IbcEscrow, Coin(d, n)) /\ signers' = {a}
      /\ markers[d].terms.restricted /\ HasAccess(markers[d], a, "transfer") /\ d \in Denom
      BY Zenon, Facts DEF IbcTransfer
<1>2. IbcEscrow \in Address /\ IbcEscrow # FeeCollector /\ from \in Address BY Zenon, MarkerAssumption
<1>3. Restricted(markers, d) /\ markers[d].access[a] \cap {"transfer", "force_transfer"} # {}
      BY Zenon, <1>1 DEF Restricted, HasAccess
<1>4. CASE a = from /\ UNCHANGED grants
  <2>1. Entitled(a, from, d, n) BY Zenon, <1>4 DEF Entitled
  <2>2. Good BY Zenon, <1>1, <1>2, <2>1, AgentSendGood
  <2> QED BY Zenon, <1>4, <2>2 DEF Sound, Limited
<1>5. CASE authzHandler(a, from, to, Coin(d, n))
  <2>1. LimitOf(grants, a, from, d) - LimitOf(grants', a, from, d) = n /\ Limited'
        BY Zenon, <1>1, <1>5, AuthzTakes DEF Sound
  <2>2. Entitled(a, from, d, n) BY Zenon, <1>3, <2>1 DEF Entitled
  <2>3. Good BY Zenon, <1>1, <1>2, <2>2, AgentSendGood
  <2> QED BY Zenon, <2>1, <2>3
<1> QED BY Zenon, <1>4, <1>5 DEF IbcTransfer

LEMMA SendStepGood ==
    ASSUME Sound, NEW from \in Address, NEW to \in Address, NEW agents \in Agents, NEW d \in Denom,
           NEW n \in Nat, Send(from, to, agents, Coin(d, n))
    PROVE  Good
<1> DEFINE c == Coin(d, n)
<1>1. c \in Coins /\ Balances BY Zenon, CoinInts, Facts
<1>2. /\ SendAllowed(markers, deny, from, to, agents, c) /\ bal' = Sent(bal, from, to, c)
      /\ signers' = agents \cup (IF IsMarker(markers, from) THEN {} ELSE {from})
      BY Zenon DEF Send
<1> HIDE DEF c
<1>3. ASSUME NEW e \in Denom, Restricted(markers, e), c[e] > 0 PROVE to # FeeCollector
  <2>1. CASE from \in ModuleSender BY Zenon, <1>2, <1>3, <2>1, BypassFee DEF SendAllowed
  <2>2. CASE from \notin ModuleSender
        BY Zenon, <1>2, <1>3, <2>2 DEF SendAllowed, validateSendDenom, mayMoveRestricted, Restricted
  <2> QED BY Zenon, <2>1, <2>2
<1>4. ASSUME NEW e \in Denom PROVE Consents(from, e)
  <2>1. CASE ~IsMarker(markers, from)
    <3>1. from \in signers' BY ONLY Zenon, <1>2, <2>1
    <3> QED BY Zenon, <3>1 DEF Consents, HolderConsents
  <2>2. CASE IsMarker(markers, from)
    <3>1. PICK x \in DOMAIN markers : MarkerAddr[x] = from BY ONLY Zenon, <2>2 DEF IsMarker
    <3>2. from \notin ModuleSender BY Zenon, <3>1, Facts, RestrictionAssumption
    <3>3. AtLeastOneAddrHasAccess(MarkerAt(markers, from), agents, "withdraw")
          BY Zenon, <1>2, <2>2, <3>2 DEF SendAllowed, mayLeaveMarker
    <3>4. MarkerConsents(MarkerAt(markers, from), MarkerAddr[e] = from, e)
          BY Zenon, <1>2, <2>2, <3>3 DEF AtLeastOneAddrHasAccess, MarkerConsents
    <3> QED BY Zenon, <2>2, <3>4 DEF Consents
  <2> QED BY Zenon, <2>1, <2>2
<1> QED BY Zenon, <1>1, <1>2, <1>3, <1>4, SendGood

LEMMA BurnElsewhereGood ==
    ASSUME Sound, NEW a \in Address, NEW d \in Denom, NEW n \in Nat, BurnElsewhere(a, d, n)
    PROVE  Good
<1> DEFINE c == Coin(d, n)
<1>1. c \in Ints /\ \A e \in Denom : c[e] \in Nat BY Zenon, CoinInts DEF Coins
<1>2. bal \in [Address -> Ints] BY Zenon, Facts DEF Balances
<1>3. bal' = [x \in Address |-> IF x = a THEN Minus(bal[a], c) ELSE bal[x]] /\ signers' = {a}
      BY Zenon DEF BurnElsewhere
<1> HIDE DEF c
<1>4. Minus(bal[a], c) \in Ints /\ \A e \in Denom : Minus(bal[a], c)[e] = bal[a][e] - c[e]
      BY <1>1, <1>2 DEF Minus, Ints
<1>5. Balances' BY Zenon, <1>2, <1>3, <1>4 DEF Balances
<1>6. FeeCollector \in Address BY Zenon, RestrictionAssumption
<1>7. \A x \in Address, e \in Denom : bal[x][e] \in Int BY Zenon, <1>2 DEF Ints
<1>8. \A x \in Address, e \in Denom : bal'[x][e] <= bal[x][e] /\ (x # a => bal'[x][e] = bal[x][e])
  <2> TAKE x \in Address, e \in Denom
  <2>1. CASE x = a
    <3>1. bal'[x][e] = bal[x][e] - c[e] BY Zenon, <1>3, <1>4, <2>1
    <3> QED BY <1>1, <1>7, <2>1, <3>1
  <2>2. CASE x # a
    <3>1. bal'[x][e] = bal[x][e] BY Zenon, <1>3, <2>2
    <3> QED BY <1>7, <2>2, <3>1
  <2> QED BY Zenon, <2>1, <2>2
<1>9. FeeStep BY Zenon, <1>6, <1>8 DEF FeeStep
<1>10. ConsentStep
  <2> SUFFICES ASSUME NEW x \in Address, NEW e \in Denom, bal'[x][e] < bal[x][e] PROVE Consents(x, e)
      BY Zenon DEF ConsentStep
  <2>1. x = a BY <1>7, <1>8
  <2> QED BY Zenon, <1>3, <2>1 DEF Consents, HolderConsents
<1> QED BY Zenon, <1>5, <1>9, <1>10 DEF Good

LEMMA BeginBlockerGood == ASSUME Sound, BeginBlocker PROVE Good
<1> DEFINE off == {d \in DOMAIN markers : OffTarget(d)}
           own(a) == [d \in Denom |-> IF d \in off /\ a = MarkerAddr[d]
                                      THEN bal[a][d] + markers[d].supply - supply[d] ELSE bal[a][d]]
<1>1. bal' = [a \in Address |-> own(a)] BY Zenon DEF BeginBlocker
<1>2. bal \in [Address -> Ints] /\ supply \in Ints /\ off \subseteq Denom BY Zenon, Facts DEF Balances
<1>3. \A d \in off : markers[d].supply \in Int /\ supply[d] <= markers[d].supply
      BY Zenon, MatchedImplies DEF Sound, IInv, Types, AnyMarker, OffTarget, SupplyInvariant
<1>4. \A a \in Address, d \in Denom : bal[a][d] \in Int /\ supply[d] \in Int BY Zenon, <1>2 DEF Ints
<1>5. \A a \in Address : own(a) \in Ints BY <1>3, <1>4 DEF Ints
<1>6. \A a \in Address, d \in Denom :
          own(a)[d] = IF d \in off /\ a = MarkerAddr[d] THEN bal[a][d] + markers[d].supply - supply[d]
                      ELSE bal[a][d]
      BY Zenon
<1> HIDE DEF off, own
<1>7. Balances' BY Zenon, <1>1, <1>5 DEF Balances
<1>8. \A a \in Address, d \in Denom : bal'[a][d] >= bal[a][d]
  <2> TAKE a \in Address, d \in Denom
  <2>1. bal'[a][d] = own(a)[d] BY Zenon, <1>1
  <2>2. CASE d \in off /\ a = MarkerAddr[d]
    <3>1. bal'[a][d] = bal[a][d] + markers[d].supply - supply[d] BY Zenon, <1>6, <2>1, <2>2
    <3> QED BY <1>3, <1>4, <2>2, <3>1
  <2>3. CASE ~(d \in off /\ a = MarkerAddr[d]) BY <1>4, <1>6, <2>1, <2>3
  <2> QED BY Zenon, <2>2, <2>3
<1>9. FeeStep
  <2> SUFFICES ASSUME NEW d \in Denom PROVE bal'[FeeCollector][d] <= bal[FeeCollector][d] BY Zenon DEF FeeStep
  <2>1. FeeCollector \in Address /\ FeeCollector # MarkerAddr[d] BY Zenon, RestrictionAssumption
  <2>2. bal'[FeeCollector][d] = bal[FeeCollector][d] BY Zenon, <1>1, <1>6, <2>1
  <2> QED BY <1>4, <2>1, <2>2
<1>10. ConsentStep
  <2> SUFFICES ASSUME NEW a \in Address, NEW d \in Denom PROVE ~(bal'[a][d] < bal[a][d]) BY Zenon DEF ConsentStep
  <2>1. bal'[a][d] \in Int BY Zenon, <1>7 DEF Balances, Ints
  <2> QED BY <1>4, <1>8, <2>1
<1> QED BY Zenon, <1>7, <1>9, <1>10 DEF Good

LEMMA SameGood == ASSUME Sound, UNCHANGED bank, UNCHANGED grants PROVE Good /\ Limited'
BY Zenon, NoMove DEF Sound, bank, Limited

LEMMA GrantsSame == ASSUME Sound, Good, UNCHANGED grants PROVE Good /\ Limited'
BY Zenon DEF Sound, Limited

LEMMA ManagedGood == ASSUME Sound, NEW a \in Caller, NEW d \in DOMAIN markers, Managed(a, d) PROVE Good /\ Limited'
<1>1. CASE \E g \in Grants : AddAccess(a, d, g) BY Zenon, <1>1, SameGood DEF AddAccess
<1>2. CASE \E g \in Grants : RemoveAccess(a, d, g[1]) BY Zenon, <1>2, SameGood DEF RemoveAccess
<1>3. CASE FinalizeMarker(a, d) BY Zenon, <1>3, SameGood DEF FinalizeMarker
<1>4. CASE ActivateMarker(a, d)
  <2>1. UNCHANGED grants BY Zenon, <1>4 DEF ActivateMarker
  <2> QED BY Zenon, <1>4, <2>1, ActivateGood, GrantsSame
<1>5. CASE CancelMarker(a, d) BY Zenon, <1>5, SameGood DEF CancelMarker
<1>6. CASE DeleteMarker(a, d)
  <2>1. UNCHANGED grants BY Zenon, <1>6 DEF DeleteMarker
  <2> QED BY Zenon, <1>6, <2>1, DeleteGood, GrantsSame
<1>7. ASSUME NEW n \in Amounts, NEW to \in Caller \cup {NoAddress}, Mint(a, d, n, to) PROVE Good /\ Limited'
  <2>1. UNCHANGED grants /\ n \in Nat /\ to \in Address \cup {NoAddress} BY Zenon, <1>7, MarkerAssumption DEF Mint
  <2> QED BY Zenon, <1>7, <2>1, MintGood, GrantsSame
<1>8. ASSUME NEW n \in Amounts, Burn(a, d, n) PROVE Good /\ Limited'
  <2>1. UNCHANGED grants /\ n \in Nat BY Zenon, <1>8, MarkerAssumption DEF Burn
  <2> QED BY Zenon, <1>8, <2>1, BurnGood, GrantsSame
<1>9. ASSUME NEW n \in Amounts, NEW e \in Denom, NEW to \in Address, Withdraw(a, to, d, Coin(e, n))
      PROVE  Good /\ Limited'
  <2>1. UNCHANGED grants /\ n \in Nat BY Zenon, <1>9, MarkerAssumption DEF Withdraw
  <2> QED BY Zenon, <1>9, <2>1, WithdrawGood, GrantsSame
<1>10. CASE \E change \in AttrChanges : UpdateRequiredAttributes(a, d, change)
       BY Zenon, <1>10, SameGood DEF UpdateRequiredAttributes
<1>11. CASE \E x \in DenyTargets : UpdateSendDenyList(a, d, x) BY Zenon, <1>11, SameGood DEF UpdateSendDenyList
<1>12. CASE \E price \in Denom : AddNetAssetValues(a, d, price) BY Zenon, <1>12, SameGood DEF AddNetAssetValues
<1> QED BY Zenon, <1>1, <1>2, <1>3, <1>4, <1>5, <1>6, <1>7, <1>8, <1>9, <1>10, <1>11, <1>12 DEF Managed

LEMMA GovernedGood == ASSUME Sound, NEW d \in DOMAIN markers, Governed(d) PROVE Good /\ Limited'
<1>1. ASSUME NEW n \in Amounts, NEW to \in Address \cup {NoAddress}, SupplyIncreaseProposal(d, n, to)
      PROVE  Good /\ Limited'
  <2>1. UNCHANGED grants /\ n \in Nat BY Zenon, <1>1, MarkerAssumption DEF SupplyIncreaseProposal
  <2> QED BY Zenon, <1>1, <2>1, SupplyIncreaseGood, GrantsSame
<1>2. ASSUME NEW n \in Amounts, SupplyDecreaseProposal(d, n) PROVE Good /\ Limited'
  <2>1. UNCHANGED grants /\ n \in Nat /\ DecreaseSupply(d, n)
        BY Zenon, <1>2, MarkerAssumption DEF SupplyDecreaseProposal
  <2>2. MarkerConsents(markers[d], TRUE, d) BY Zenon, <1>2 DEF SupplyDecreaseProposal, MarkerConsents
  <2> QED BY Zenon, <2>1, <2>2, DecreaseGood, GrantsSame
<1>3. CASE \E g \in Grants : SetAdministratorProposal(d, g) BY Zenon, <1>3, SameGood DEF SetAdministratorProposal
<1>4. CASE \E g \in Grants : RemoveAdministratorProposal(d, g[1])
      BY Zenon, <1>4, SameGood DEF RemoveAdministratorProposal
<1>5. ASSUME NEW s \in Proposed..Destroyed, ChangeStatusProposal(d, s) PROVE Good /\ Limited'
  <2>1. UNCHANGED grants BY Zenon, <1>5 DEF ChangeStatusProposal
  <2> QED BY Zenon, <1>5, <2>1, ChangeStatusGood, GrantsSame
<1>6. ASSUME NEW n \in Amounts, NEW e \in Denom, NEW to \in Address,
             WithdrawEscrowProposal(d, to, Coin(e, n))
      PROVE  Good /\ Limited'
  <2>1. UNCHANGED grants /\ n \in Nat BY Zenon, <1>6, MarkerAssumption DEF WithdrawEscrowProposal
  <2> QED BY Zenon, <1>6, <2>1, WithdrawEscrowGood, GrantsSame
<1>7. CASE UpdateForcedTransfer(d) BY Zenon, <1>7, SameGood DEF UpdateForcedTransfer
<1> QED BY Zenon, <1>1, <1>2, <1>3, <1>4, <1>5, <1>6, <1>7 DEF Governed

LEMMA LimitsKept ==
    ASSUME Limited, NEW l \in Limits, Grant(l[1], l[2], l[3]) \/ Revoke(l[1], l[2])
    PROVE  Limited'
<1>1. l[3].limit \in Ints BY MarkerAssumption DEF Authorization, Coins, Ints
<1>2. CASE Grant(l[1], l[2], l[3])
  <2> DEFINE k == <<l[2], l[1]>>
  <2>1. grants' = Put(grants, k, l[3]) BY Zenon, <1>2 DEF Grant
  <2>2. DOMAIN grants' = DOMAIN grants \cup {k} /\ grants'[k] = l[3]
        /\ \A x \in DOMAIN grants \ {k} : grants'[x] = grants[x]
        BY Zenon, <2>1 DEF Put
  <2> QED BY Zenon, <1>1, <2>2 DEF Limited
<1>3. CASE Revoke(l[1], l[2]) BY Zenon, <1>3 DEF Revoke, Del, Limited
<1> QED BY Zenon, <1>2, <1>3

LEMMA StepGood == Sound /\ [Next]_vars => Good /\ Limited'
<1> SUFFICES ASSUME Sound, [Next]_vars PROVE Good /\ Limited' BY Zenon
<1>1. ASSUME NEW a \in Caller, NEW r \in NewMarkers, AddMarker(a, r) PROVE Good /\ Limited'
  <2>1. UNCHANGED grants BY Zenon, <1>1 DEF AddMarker, AddMarkerAccount
  <2> QED BY Zenon, <1>1, <2>1, AddMarkerGood, GrantsSame
<1>2. ASSUME NEW a \in Caller, NEW r \in NewMarkers, AddFinalizeActivateMarker(a, r) PROVE Good /\ Limited'
  <2>1. UNCHANGED grants BY Zenon, <1>2 DEF AddFinalizeActivateMarker, AddMarkerAccount
  <2> QED BY Zenon, <1>2, <2>1, AddFinalizeActivateGood, GrantsSame
<1>3. CASE \E a \in Caller, d \in DOMAIN markers : Managed(a, d) BY Zenon, <1>3, ManagedGood
<1>4. ASSUME NEW a \in Caller, NEW d \in DOMAIN markers, NEW n \in Amounts, Moved(a, d, n)
      PROVE  Good /\ Limited'
  <2>1. n \in Nat BY Zenon, MarkerAssumption
  <2> QED BY Zenon, <1>4, <2>1, TransferGood, IbcTransferGood DEF Moved
<1>5. CASE \E d \in DOMAIN markers : Governed(d) BY Zenon, <1>5, GovernedGood
<1>6. ASSUME NEW l \in Limits, Grant(l[1], l[2], l[3]) \/ Revoke(l[1], l[2]) PROVE Good /\ Limited'
  <2>1. UNCHANGED bal BY Zenon, <1>6 DEF Grant, Revoke, bank
  <2> QED BY Zenon, <1>6, <2>1, NoMove, LimitsKept DEF Sound
<1>7. ASSUME NEW from \in Address, NEW to \in Address, NEW agents \in Agents, NEW d \in Denom,
             NEW n \in Amounts, Send(from, to, agents, Coin(d, n))
      PROVE  Good /\ Limited'
  <2>1. UNCHANGED grants /\ n \in Nat BY Zenon, <1>7, MarkerAssumption DEF Send
  <2> QED BY Zenon, <1>7, <2>1, SendStepGood, GrantsSame
<1>8. ASSUME NEW a \in Address, NEW d \in Denom, NEW n \in Amounts, BurnElsewhere(a, d, n)
      PROVE  Good /\ Limited'
  <2>1. UNCHANGED grants /\ n \in Nat BY Zenon, <1>8, MarkerAssumption DEF BurnElsewhere
  <2> QED BY Zenon, <1>8, <2>1, BurnElsewhereGood, GrantsSame
<1>9. CASE \E max \in NewMaxSupplies : UpdateParams(max) BY Zenon, <1>9, SameGood DEF UpdateParams
<1>10. CASE BeginBlocker
  <2>1. UNCHANGED grants BY Zenon, <1>10 DEF BeginBlocker
  <2> QED BY Zenon, <1>10, <2>1, BeginBlockerGood, GrantsSame
<1>11. CASE UNCHANGED vars BY Zenon, <1>11, SameGood DEF vars, bank
<1> QED BY Zenon, <1>1, <1>2, <1>3, <1>4, <1>5, <1>6, <1>7, <1>8, <1>9, <1>10, <1>11 DEF Next

(* Sound is invariant. *)
THEOREM Soundness == Spec => []Sound
<1>1. Init => Sound
  <2> SUFFICES ASSUME Init PROVE Balances /\ Limited BY Zenon, InitEstablishes DEF Sound
  <2>1. Coins \subseteq Ints BY DEF Coins, Ints
  <2>2. Balances BY Zenon, <2>1, MarkerAssumption DEF Init, Balances
  <2>3. Limited BY Zenon DEF Init, Limited, EmptyStore
  <2> QED BY Zenon, <2>2, <2>3
<1>2. Sound /\ [Next]_vars => Sound' BY Zenon, NextKeeps, StepGood DEF Sound, Good
<1> QED BY <1>1, <1>2, PTL DEF Spec

(* However coins are sent, with a bypass of the restriction or without, no *)
(* step adds a restricted coin to the fee collector's account.             *)
THEOREM FeesUnrestricted == Spec => FeeCollectorKeptOut
<1>1. Sound /\ [Next]_vars => [FeeStep]_vars BY Zenon, StepGood DEF Good
<1> QED BY <1>1, Soundness, PTL DEF Spec, FeeCollectorKeptOut

(* In every step, an account that loses coins signed for it, or gave an    *)
(* authorization that shrinks by the same amount, or is under a forced     *)
(* transfer; and a marker's account loses coins only by a right in that    *)
(* marker or by governance.                                                *)
THEOREM Consent == Spec => MovedByConsent
<1>1. Sound /\ [Next]_vars => [ConsentStep]_vars BY Zenon, StepGood DEF Good
<1> QED BY <1>1, Soundness, PTL DEF Spec, MovedByConsent
=============================================================================
