------------------------------ MODULE Trigger ------------------------------
(***************************************************************************)
(* The x/trigger module: users register a trigger (an event to wait for    *)
(* and the messages to run), the end blocker moves the triggers whose      *)
(* event happened to a queue, and the begin blocker of a later block runs  *)
(* the queued triggers, a bounded number and a bounded gas per block.      *)
(*                                                                         *)
(* The loops of the two blockers are steps of their own, one per           *)
(* iteration; `phase' keeps every other operation out while they run, as   *)
(* the single-threaded block execution does.  A transaction whose message  *)
(* returns an error or runs out of gas writes nothing, so it is not a      *)
(* step.                                                                   *)
(***************************************************************************)
EXTENDS Integers, Sequences, KVStore

CONSTANTS
    Owner,              \* accounts
    TriggerEvent,       \* the events a message may ask to wait for
    AbciEvent,          \* the events transactions emit
    ActionList,         \* the message lists a trigger may carry
    TxGas,              \* gas a create message may find on its meter
    NamePrefix,         \* event name -> listener prefix (hash of its lower case)
    MaximumActions,     \* triggers run per block
    MaximumQueueGas,    \* gas run per block
    MaximumTriggerGas,  \* gas one trigger may carry
    SetGasLimitCost,    \* gas of writing a gas limit
    WriteCost,          \* gas of the other writes of a message
    GasMod,             \* 2^64, the width of the gas arithmetic
    MaxTriggers,        \* bound: identifiers after which transactions create no more
    MaxEvents,          \* bound: transaction events per block
    MaxHeight, MaxTime  \* bounds: where height and time stop advancing

ASSUME GasAssumption ==
    /\ MaximumActions \in Nat \ {0}
    /\ MaximumQueueGas \in Nat
    /\ MaximumTriggerGas \in Nat
    /\ MaximumTriggerGas <= MaximumQueueGas
    /\ SetGasLimitCost \in Nat \ {0}
    /\ WriteCost \in Nat \ {0}
    /\ GasMod \in Nat \ {0}
    /\ MaximumTriggerGas < GasMod
    /\ TxGas \subseteq Nat

ASSUME BoundAssumption ==
    MaxTriggers \in Nat /\ MaxEvents \in Nat /\ MaxHeight \in Nat /\ MaxTime \in Nat

VARIABLES
    phase,      \* where block execution stands
    height,     \* ctx.BlockHeight()
    time,       \* ctx.BlockTime()
    events,     \* the block's transaction events so far
    store,      \* next id, triggers, listeners, gas limits, other modules' writes
    queue,      \* start index, length, items by index
    processed,  \* actionsProcessed of ProcessTriggers
    gasUsed,    \* gasConsumed of ProcessTriggers
    run,        \* the trigger being run: id, messages, next message, gas left
    cache,      \* the CacheContext the messages write to
    pending     \* detected triggers DetectBlockEvents has yet to queue

vars == <<phase, height, time, events, store, queue, processed, gasUsed,
          run, cache, pending>>
-----------------------------------------------------------------------------
(* Events and the listener index. *)

EventPrefix(e) == CASE e.kind = "tx"     -> NamePrefix[e.name]
                    [] e.kind = "height" -> "block-height"
                    [] e.kind = "time"   -> "block-time"

EventOrder(e) == IF e.kind = "tx" THEN 0 ELSE e.at

ListenerKey(id, e) == <<EventPrefix(e), EventOrder(e), id>>

(* An empty value in the trigger's attribute matches any value. *)
AttributeMatches(a, b) == a.name = b.name /\ (a.value = "" \/ a.value = b.value)

Matches(e, ev) ==
    /\ e.name = ev.type
    /\ \A a \in e.attrs : \E b \in ev.attrs : AttributeMatches(a, b)

(* A height or a time to wait for must lie in the future. *)
ValidateContext(e) == CASE e.kind = "tx"     -> TRUE
                        [] e.kind = "height" -> e.at > height
                        [] e.kind = "time"   -> e.at > time
-----------------------------------------------------------------------------
(* The registry. *)

(* The gas limit a trigger gets when g is left after its other writes: an  *)
(* unsigned subtraction, capped.                                           *)
GasLimitFor(g) == LET left == (g - SetGasLimitCost) % GasMod
                  IN  IF left < MaximumTriggerGas THEN left ELSE MaximumTriggerGas

(* Mutant: the purchased gas limit is not charged to the creator. *)
MutChargeWritesOnly(g) == WriteCost + SetGasLimitCost

(* What a creation takes from a meter that has g left: its writes, and the *)
(* gas limit itself.                                                       *)
CreateCharge(g) == WriteCost + SetGasLimitCost + GasLimitFor(g - WriteCost)

(* The module's store, and the writes of the other modules. *)
Store(n, t, l, g, e) ==
    [nextID |-> n, triggers |-> t, listeners |-> l, gasLimits |-> g, effects |-> e]

RegisterTrigger(s, t, g) ==
    Store(s.nextID + 1, Put(s.triggers, s.nextID, t),
          s.listeners \cup {ListenerKey(s.nextID, t.event)},
          Put(s.gasLimits, s.nextID, GasLimitFor(g - WriteCost)), s.effects)

(* Mutant: the listener is left behind. *)
MutUnregisterKeepListener(s, id) ==
    Store(s.nextID, Del(s.triggers, id), s.listeners, s.gasLimits, s.effects)

UnregisterTrigger(s, id) ==
    Store(s.nextID, Del(s.triggers, id),
          s.listeners \ {ListenerKey(id, s.triggers[id].event)}, s.gasLimits, s.effects)

RemoveGasLimit(s, id) ==
    Store(s.nextID, s.triggers, s.listeners, Del(s.gasLimits, id), s.effects)

(* Another module's write, kept to tell what was flushed. *)
AddEffect(s, x) ==
    Store(s.nextID, s.triggers, s.listeners, s.gasLimits, s.effects \cup {x})

(* The checks and the writes of the two messages. *)
CreateOK(e, g) == ValidateContext(e) /\ g >= CreateCharge(g)

DestroyOK(s, owner, id) == id \in DOMAIN s.triggers /\ s.triggers[id].owner = owner

Destroy(s, id) == RemoveGasLimit(UnregisterTrigger(s, id), id)
-----------------------------------------------------------------------------
(* The queue. *)

QueueIsEmpty == queue.length = 0

QueuePeek == queue.items[queue.start]

Enqueue(q, item) ==
    [start |-> q.start, length |-> q.length + 1,
     items |-> Put(q.items, q.start + q.length, item)]

Dequeue(q) ==
    [start |-> q.start + 1, length |-> q.length - 1, items |-> Del(q.items, q.start)]
-----------------------------------------------------------------------------
NoRun == [id |-> 0, owner |-> "", actions |-> <<>>, pos |-> 1, gas |-> 0]

(* Default genesis: identifiers and queue indexes start at 1. *)
Init ==
    /\ phase = "idle"
    /\ height = 0 /\ time = 0
    /\ events = <<>>
    /\ store = Store(1, EmptyStore, {}, EmptyStore, {})
    /\ queue = [start |-> 1, length |-> 0, items |-> EmptyStore]
    /\ processed = 0 /\ gasUsed = 0
    /\ run = NoRun
    /\ cache = store
    /\ pending = {}
-----------------------------------------------------------------------------
(* Begin blocker. *)

(* A block starts.  Heights and times beyond the bounds look alike. *)
BeginBlock ==
    /\ phase = "idle"
    /\ phase' = "begin"
    /\ height' = IF height < MaxHeight THEN height + 1 ELSE height
    /\ time' \in time..MaxTime
    /\ UNCHANGED <<events, store, queue, processed, gasUsed, run, cache, pending>>

(* Mutant: a head that exactly fits is held back. *)
MutCanProcessStrict ==
    /\ ~QueueIsEmpty
    /\ processed < MaximumActions
    /\ store.gasLimits[QueuePeek.id] + gasUsed < MaximumQueueGas

(* The loop's condition and its early return for a head that does not fit. *)
CanProcess ==
    /\ ~QueueIsEmpty
    /\ processed < MaximumActions
    /\ store.gasLimits[QueuePeek.id] + gasUsed <= MaximumQueueGas

(* One iteration of ProcessTriggers up to the call of runActions. *)
ProcessNext ==
    /\ phase = "begin"
    /\ CanProcess
    /\ LET item == QueuePeek
           gasLimit == store.gasLimits[item.id]
       IN  /\ processed' = processed + 1
           /\ gasUsed' = gasUsed + gasLimit
           /\ queue' = Dequeue(queue)
           /\ store' = RemoveGasLimit(store, item.id)
           /\ cache' = store'
           /\ run' = [id |-> item.id, owner |-> item.trigger.owner,
                      actions |-> item.trigger.actions, pos |-> 1, gas |-> gasLimit]
    /\ phase' = "run"
    /\ UNCHANGED <<height, time, events, pending>>

Msg == run.actions[run.pos]

MsgPending == phase = "run" /\ run.pos <= Len(run.actions)

Effect == <<run.id, run.pos, Len(run.actions)>>

(* The message succeeded for the given gas; go on to the next. *)
Advance(gas) ==
    run' = [id |-> run.id, owner |-> run.owner, actions |-> run.actions,
            pos |-> run.pos + 1, gas |-> run.gas - gas]

(* A message of the running trigger succeeds, on the cache. *)
RunMsgOK ==
    /\ MsgPending
    /\ \/ /\ Msg.kind = "other"
          /\ run.gas >= WriteCost
          /\ cache' = AddEffect(cache, Effect)
          /\ Advance(WriteCost)
       \/ /\ Msg.kind = "create"
          /\ CreateOK(Msg.event, run.gas)
          /\ LET t == [owner |-> run.owner, event |-> Msg.event, actions |-> Msg.actions]
             IN  cache' = AddEffect(RegisterTrigger(cache, t, run.gas), Effect)
          /\ Advance(CreateCharge(run.gas))
       \/ /\ Msg.kind = "destroy"
          /\ run.gas >= WriteCost
          /\ DestroyOK(cache, run.owner, Msg.id)
          /\ cache' = AddEffect(Destroy(cache, Msg.id), Effect)
          /\ Advance(WriteCost)
    /\ UNCHANGED <<phase, height, time, events, store, queue, processed, gasUsed, pending>>

(* Mutant: the cache is flushed although a message failed. *)
MutFailFlushes ==
    /\ MsgPending
    /\ \/ Msg.kind = "fail"
       \/ Msg.kind = "other" /\ run.gas < WriteCost
       \/ Msg.kind = "create" /\ ~CreateOK(Msg.event, run.gas)
       \/ Msg.kind = "destroy"
          /\ (run.gas < WriteCost \/ ~DestroyOK(cache, run.owner, Msg.id))
    /\ phase' = "begin"
    /\ run' = NoRun
    /\ store' = cache
    /\ cache' = store'
    /\ UNCHANGED <<height, time, events, queue, processed, gasUsed, pending>>

(* A message returns an error, panics or runs out of gas: runActions       *)
(* returns without flushing the cache.                                     *)
RunMsgFail ==
    /\ MsgPending
    /\ \/ Msg.kind = "fail"
       \/ Msg.kind = "other" /\ run.gas < WriteCost
       \/ Msg.kind = "create" /\ ~CreateOK(Msg.event, run.gas)
       \/ Msg.kind = "destroy"
          /\ (run.gas < WriteCost \/ ~DestroyOK(cache, run.owner, Msg.id))
    /\ phase' = "begin"
    /\ run' = NoRun
    /\ cache' = store
    /\ UNCHANGED <<height, time, events, store, queue, processed, gasUsed, pending>>

(* All messages succeeded: flush. *)
Flush ==
    /\ phase = "run"
    /\ run.pos > Len(run.actions)
    /\ store' = cache
    /\ phase' = "begin"
    /\ run' = NoRun
    /\ UNCHANGED <<height, time, events, queue, processed, gasUsed, cache, pending>>

(* ProcessTriggers returns. *)
EndProcess ==
    /\ phase = "begin"
    /\ ~CanProcess
    /\ phase' = "deliver"
    /\ processed' = 0 /\ gasUsed' = 0
    /\ UNCHANGED <<height, time, events, store, queue, run, cache, pending>>
-----------------------------------------------------------------------------
(* Transactions. *)

CreateTrigger(owner, e, actions, g) ==
    /\ phase = "deliver"
    /\ store.nextID <= MaxTriggers
    /\ CreateOK(e, g)
    /\ store' = RegisterTrigger(store, [owner |-> owner, event |-> e, actions |-> actions], g)
    /\ cache' = store'
    /\ UNCHANGED <<phase, height, time, events, queue, processed, gasUsed,
                   run, pending>>

DestroyTrigger(owner, id) ==
    /\ phase = "deliver"
    /\ DestroyOK(store, owner, id)
    /\ store' = Destroy(store, id)
    /\ cache' = store'
    /\ UNCHANGED <<phase, height, time, events, queue, processed, gasUsed,
                   run, pending>>

(* Any other transaction, by the event it emits. *)
EmitEvent(ev) ==
    /\ phase = "deliver"
    /\ Len(events) < MaxEvents
    /\ events' = Append(events, ev)
    /\ UNCHANGED <<phase, height, time, store, queue, processed, gasUsed,
                   run, cache, pending>>
-----------------------------------------------------------------------------
(* End blocker. *)

(* detectTransactionEvents compares a trigger with the block's first event *)
(* under its prefix and remembers the trigger, whatever the outcome.       *)
FirstEvent(prefix) ==
    {i \in DOMAIN events :
        /\ NamePrefix[events[i].type] = prefix
        /\ \A j \in 1..(i - 1) : NamePrefix[events[j].type] # prefix}

DetectedTx(e) ==
    e.kind = "tx" /\ \E i \in FirstEvent(EventPrefix(e)) : Matches(e, events[i])

(* Mutant: the height itself is too early. *)
MutDetectedAfterHeight(e) == e.kind = "height" /\ height > e.at

DetectedHeight(e) == e.kind = "height" /\ height >= e.at

DetectedTime(e) == e.kind = "time" /\ time >= e.at

Detected ==
    {l[3] : l \in {k \in store.listeners :
                     LET e == store.triggers[k[3]].event
                     IN  DetectedTx(e) \/ DetectedHeight(e) \/ DetectedTime(e)}}

(* Transaction events first, in the order of the events; then heights,     *)
(* then times, each in listener order.                                     *)
Rank(e) == CASE e.kind = "tx"     -> <<1, CHOOSE i \in FirstEvent(EventPrefix(e)) : TRUE>>
             [] e.kind = "height" -> <<2, e.at>>
             [] e.kind = "time"   -> <<3, e.at>>

Precedes(a, b) ==
    LET ra == Rank(store.triggers[a].event)
        rb == Rank(store.triggers[b].event)
    IN  \/ ra[1] < rb[1]
        \/ ra[1] = rb[1] /\ ra[2] < rb[2]
        \/ ra = rb /\ a < b

EndBlock ==
    /\ phase = "deliver"
    /\ phase' = "end"
    /\ pending' = Detected
    /\ UNCHANGED <<height, time, events, store, queue, processed, gasUsed,
                   run, cache>>

(* One iteration of DetectBlockEvents: unregister, then queue. *)
QueueTrigger(id) ==
    /\ phase = "end"
    /\ id \in pending
    /\ \A other \in pending \ {id} : Precedes(id, other)
    /\ queue' = Enqueue(queue, [id |-> id, trigger |-> store.triggers[id]])
    /\ store' = UnregisterTrigger(store, id)
    /\ cache' = store'
    /\ pending' = pending \ {id}
    /\ UNCHANGED <<phase, height, time, events, processed, gasUsed, run>>

Commit ==
    /\ phase = "end"
    /\ pending = {}
    /\ phase' = "idle"
    /\ events' = <<>>
    /\ UNCHANGED <<height, time, store, queue, processed, gasUsed,
                   run, cache, pending>>
-----------------------------------------------------------------------------
BlockStep ==
    \/ BeginBlock \/ ProcessNext \/ RunMsgOK \/ RunMsgFail \/ Flush \/ EndProcess
    \/ EndBlock \/ (\E id \in pending : QueueTrigger(id)) \/ Commit

Tx ==
    \/ \E o \in Owner, e \in TriggerEvent, a \in ActionList, g \in TxGas :
           CreateTrigger(o, e, a, g)
    \/ \E o \in Owner, id \in DOMAIN store.triggers : DestroyTrigger(o, id)
    \/ \E ev \in AbciEvent : EmitEvent(ev)

Next == BlockStep \/ Tx

Spec == Init /\ [][Next]_vars

(* Consensus keeps producing blocks and a block's execution terminates;    *)
(* nobody has to send transactions.                                        *)
FairSpec == Spec /\ WF_vars(BlockStep)
-----------------------------------------------------------------------------
(* Properties. *)

Registered == DOMAIN store.triggers

QueuedID(i) == queue.items[i].id

Queued == {QueuedID(i) : i \in DOMAIN queue.items}

(* Every variable keeps the shape the code gives it. *)
TypeOK ==
    /\ phase \in {"idle", "begin", "run", "deliver", "end"}
    /\ height \in 0..MaxHeight /\ time \in 0..MaxTime
    /\ \A s \in {store, cache} :
         /\ s.nextID \in Nat \ {0}
         /\ DOMAIN s.triggers \subseteq 1..(s.nextID - 1)
         /\ s.gasLimits \in [DOMAIN s.gasLimits -> 0..MaximumTriggerGas]
    /\ queue.start \in Nat \ {0} /\ queue.length \in Nat
    /\ processed \in 0..MaximumActions /\ gasUsed \in 0..MaximumQueueGas
    /\ run.gas \in 0..MaximumTriggerGas /\ run.pos \in Nat \ {0}

(* The queue has an item at every index the counters claim and nowhere     *)
(* else, so QueuePeek and getQueueItem never panic with "queue index not   *)
(* found".                                                                 *)
QueueIsContiguous ==
    DOMAIN queue.items = queue.start..(queue.start + queue.length - 1)

(* A trigger is single-shot: it is registered, or queued once, or gone;    *)
(* the one being run is in neither place.                                  *)
SingleShot ==
    /\ Registered \cap Queued = {}
    /\ \A i, j \in DOMAIN queue.items : QueuedID(i) = QueuedID(j) => i = j
    /\ phase = "run" => run.id \notin Registered \cup Queued
    /\ Queued \subseteq 1..(store.nextID - 1)

(* "every trigger should have a gas limit": exactly the registered and the *)
(* queued triggers have one, in the store and in the cache of a running    *)
(* trigger, so GetGasLimit never panics and no limit outlives its trigger. *)
GasLimitForEveryTrigger ==
    \A s \in {store, cache} : DOMAIN s.gasLimits = DOMAIN s.triggers \cup Queued

(* The listener index has exactly the entry of every registered trigger:   *)
(* event detection finds every trigger and never one that is gone.         *)
ListenersMatchTriggers ==
    \A s \in {store, cache} :
        s.listeners = {ListenerKey(id, s.triggers[id].event) : id \in DOMAIN s.triggers}

(* The queue, the registry, the gas limits and the listener index are      *)
(* separate keys, written by both messages, the end blocker, the           *)
(* dispatcher and the actions of triggers; together they stay consistent.  *)
RegistryConsistent ==
    /\ QueueIsContiguous
    /\ SingleShot
    /\ GasLimitForEveryTrigger
    /\ ListenersMatchTriggers

(* The messages of a trigger take effect together or not at all, however   *)
(* far runActions got before one failed.                                   *)
ActionsAtomic ==
    \A x \in store.effects : \A k \in 1..x[3] : <<x[1], k, x[3]>> \in store.effects

(* Between blocks nothing that is due is still waiting, and nothing was    *)
(* queued before it was due.                                               *)
FiresOnTime ==
    /\ phase = "idle" => \A id \in Registered :
           LET e == store.triggers[id].event
           IN  (e.kind = "height" => height < e.at) /\ (e.kind = "time" => time < e.at)
    /\ \A i \in DOMAIN queue.items :
           LET e == queue.items[i].trigger.event
           IN  (e.kind = "height" => height >= e.at) /\ (e.kind = "time" => time >= e.at)

(* A trigger created by a trigger carries strictly less gas than was left  *)
(* to its creator, so triggers that re-create themselves die out.          *)
NestedGasStep ==
    phase = "run" =>
        \A id \in DOMAIN cache'.triggers \ DOMAIN cache.triggers :
            cache'.gasLimits[id] < run.gas /\ run'.gas + cache'.gasLimits[id] < run.gas

NestedGasDecreases == [][NestedGasStep]_vars

(* Identifiers, when a trigger creates at most one other. *)
TriggerID == 1..(2 * MaxTriggers)

(* The throttle never wedges the queue: every queued trigger is run.       *)
QueuedTriggersRun ==
    \A id \in TriggerID : (id \in Queued) ~> (id \notin Queued)

(* "fire when a transaction event matching the user defined one has been   *)
(* emitted" (spec/02_state.md): once the end blocker is done, no trigger   *)
(* that some event of the block matches is still registered.               *)
MatchingEventFires ==
    (phase = "end" /\ pending = {}) =>
        \A id \in Registered : LET e == store.triggers[id].event IN
            e.kind = "tx" => \A i \in DOMAIN events : ~Matches(e, events[i])
=============================================================================
