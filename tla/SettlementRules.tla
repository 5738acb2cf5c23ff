-------------------------- MODULE SettlementRules --------------------------
(***************************************************************************)
(* The terms in which a settlement of asks and bids is described, as       *)
(* functions of the two lists of orders: which lists can be settled, what  *)
(* is left of the order that is filled in part, which shares of the price  *)
(* are fair.                                                               *)
(***************************************************************************)
EXTENDS ExchangeOrder, Sequences, FiniteSetsExt

CONSTANT NoOrder     \* nothing is left of any order

Total(amount(_), list) ==
    MapThenSumSet(LAMBDA i : amount(list[i]), DOMAIN list)

AssetsOf(o) == o.assets
PriceOf(o)  == o.price

(* One asset denomination and one price denomination on both sides. *)
SameDenoms(asks, bids) ==
    LET all == {asks[i] : i \in DOMAIN asks} \cup {bids[i] : i \in DOMAIN bids}
    IN  \A o, p \in all : o.adenom = p.adenom /\ o.pdenom = p.pdenom

(* The assets that the first list has and the second has no use for. *)
Excess(list, other) == Total(AssetsOf, list) - Total(AssetsOf, other)

LastOf(list) == list[Len(list)]

(* The assets of the last order of the list that get filled. *)
LastFilled(list, other) == LastOf(list).assets - Excess(list, other)

(* The list with only the filled part of its last order. *)
FilledPart(list, other) ==
    IF Excess(list, other) <= 0 THEN list
    ELSE [list EXCEPT ![Len(list)] = SplitFilled(@, LastFilled(list, other))]

CanSettle(asks, bids) ==
    /\ Len(asks) > 0 /\ Len(bids) > 0 /\ SameDenoms(asks, bids)
    /\ Excess(asks, bids) > 0 => CanSplit(LastOf(asks), LastFilled(asks, bids))
    /\ Excess(bids, asks) > 0 => CanSplit(LastOf(bids), LastFilled(bids, asks))
    /\ Total(PriceOf, FilledPart(asks, bids)) <= Total(PriceOf, FilledPart(bids, asks))

(* What stays on the books of a partially filled order. *)
OrderLeft(asks, bids) ==
    IF Excess(asks, bids) > 0 THEN SplitUnfilled(LastOf(asks), LastFilled(asks, bids))
    ELSE IF Excess(bids, asks) > 0 THEN SplitUnfilled(LastOf(bids), LastFilled(bids, asks))
    ELSE NoOrder

(* An ask gets its price and, of what the bids offer above that, its share *)
(* by assets; rounding moves less than one unit per ask.  The ways to share *)
(* the bids' price in which that is so.                                    *)
FairShares(asks, bids) ==
    LET filled == FilledPart(asks, bids)
        paid   == Total(PriceOf, FilledPart(bids, asks))
        over   == paid - Total(PriceOf, filled)
        assets == Total(AssetsOf, filled)
        least  == [i \in DOMAIN asks |->
                      filled[i].price + (over * filled[i].assets) \div assets]
    IN  {received \in {[i \in DOMAIN asks |-> least[i] + extra[i]] :
                          extra \in [DOMAIN asks -> 0..Len(asks) - 1]} :
            Total(LAMBDA n : n, received) = paid}
=============================================================================
