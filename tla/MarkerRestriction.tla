------------------------- MODULE MarkerRestriction -------------------------
(***************************************************************************)
(* The restriction that x/marker puts on every send of the bank            *)
(* (keeper/send_restrictions.go).  Markers ms and the send-deny list dl    *)
(* are parameters, so that any module that moves coins can ask.            *)
(***************************************************************************)
EXTENDS MarkerAccount, Sequences

CONSTANTS
    FeeCollector,
    ModuleSender,    \* the marker and the IBC transfer module accounts
    ReqAttrBypass,   \* the module accounts that required attributes pass over
    AttributesOf     \* address |-> names of its attributes, each a sequence of segments

ASSUME RestrictionAssumption ==
    /\ FeeCollector \in Address /\ ModuleSender \subseteq Address
    /\ \A d \in Denom : MarkerAddr[d] \notin ModuleSender \cup {FeeCollector}
    /\ \A a \in Address : AttributesOf[a] \subseteq Seq(STRING)
    /\ Attribute \subseteq Seq(STRING) \ {<<>>}

(* GetMarker(addr) finds a marker of this denomination. *)
IsMarker(ms, a) == \E d \in DOMAIN ms : MarkerAddr[d] = a

MarkerAt(ms, a) == ms[CHOOSE d \in DOMAIN ms : MarkerAddr[d] = a]

Restricted(ms, d) == d \in DOMAIN ms /\ ms[d].terms.restricted

(* MatchAttribute: "*.x" stands for every name below x. *)
MatchAttribute(req, name) ==
    IF req[1] = "*"
    THEN /\ Len(name) >= Len(req)
         /\ SubSeq(name, Len(name) - Len(req) + 2, Len(name)) = SubSeq(req, 2, Len(req))
    ELSE name = req

findMissingAttributes(required, names) ==
    {req \in required : \A n \in names : ~MatchAttribute(req, n)}

(* validateSendToMarker, and the same check of SendRestrictionFn: coins    *)
(* enter a restricted marker only with the deposit right of one of by.     *)
validateSendToMarker(ms, to, by) ==
    IsMarker(ms, to) /\ MarkerAt(ms, to).terms.restricted =>
        AtLeastOneAddrHasAccess(MarkerAt(ms, to), by, "deposit")

(* SendRestrictionFn, the part for coins that leave a marker account. *)
mayLeaveMarker(ms, from, admins, c) ==
    IsMarker(ms, from) =>
        /\ AtLeastOneAddrHasAccess(MarkerAt(ms, from), admins, "withdraw")
        /\ \A d \in DOMAIN ms : MarkerAddr[d] = from /\ ms[d].status # Active => c[d] = 0

(* validateSendDenom for a restricted denomination *)
mayMoveRestricted(ms, dl, from, to, admins, d) ==
    /\ to # FeeCollector
    /\ \/ AtLeastOneAddrHasAccess(ms[d], admins, "transfer")
       \/ /\ <<d, from>> \notin dl
          /\ \/ HasAccess(ms[d], from, "transfer")
             \/ /\ ~IsMarker(ms, to)
                /\ IF ms[d].terms.attrs = {} THEN from \in ReqAttrBypass
                   ELSE \/ to \in ReqAttrBypass
                        \/ findMissingAttributes(ms[d].terms.attrs, AttributesOf[to]) = {}

(* validateSendDenom *)
validateSendDenom(ms, dl, from, to, admins, d) ==
    d \in DOMAIN ms => /\ ms[d].status = Active
                       /\ ms[d].terms.restricted => mayMoveRestricted(ms, dl, from, to, admins, d)

(* As it would be if a bypass let everything through. *)
MutBypassAllowed(ms, to, c) == TRUE

(* SendRestrictionFn with a bypass, or from a module that has checked. *)
BypassAllowed(ms, to, c) ==
    to = FeeCollector => \A d \in Denom : c[d] > 0 => ~Restricted(ms, d)

(* SendRestrictionFn without one *)
SendAllowed(ms, dl, from, to, admins, c) ==
    IF from \in ModuleSender THEN BypassAllowed(ms, to, c)
    ELSE /\ mayLeaveMarker(ms, from, admins, c)
         /\ validateSendToMarker(ms, to, IF admins # {} THEN admins ELSE {from})
         /\ \A d \in Denom : c[d] > 0 => validateSendDenom(ms, dl, from, to, admins, d)
=============================================================================
