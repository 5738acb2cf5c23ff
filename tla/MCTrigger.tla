----------------------------- MODULE MCTrigger -----------------------------
(* Trigger on a small instance. *)
EXTENDS TriggerGenesis

Other   == [kind |-> "other"]
Fail    == [kind |-> "fail"]
Create(e, acts) == [kind |-> "create", event |-> e, actions |-> acts]
DestroyMsg(id)  == [kind |-> "destroy", id |-> id]

At(h)   == [kind |-> "height", at |-> h]
After(t) == [kind |-> "time", at |-> t]
Attr(v) == [name |-> "k", value |-> v]
OnTx(n, v) == [kind |-> "tx", name |-> n, attrs |-> {Attr(v)}]
Ev(n, v) == [type |-> n, attrs |-> {Attr(v)}]

MCTriggerEvent == {OnTx("sold", "b"), At(2), After(1)}
MCAbciEvent == {Ev("sold", "a"), Ev("Sold", "b"), Ev("sold", "b")}
MCNamePrefix == [n \in {"sold", "Sold"} |-> "h(sold)"]
MCActionList == {<<Other, Fail>>, <<Other, Create(At(3), <<Other>>)>>, <<DestroyMsg(1)>>}
=============================================================================
