--------------------------- MODULE TriggerProofs ---------------------------
(***************************************************************************)
(* The safety of the trigger registry and its queue, for every value of    *)
(* the constants: any owners, events, message lists, limits and bounds.    *)
(***************************************************************************)
EXTENDS Trigger, TLAPS

(* What TypeOK says of one store. *)
StoreOK(s) ==
    /\ s.nextID \in Nat \ {0}
    /\ DOMAIN s.triggers \subseteq 1..(s.nextID - 1)
    /\ s.gasLimits \in [DOMAIN s.gasLimits -> 0..MaximumTriggerGas]

(* What the other conjuncts of the invariant say of one store, given the   *)
(* identifiers that are queued.                                            *)
RegistryOK(s, q) ==
    /\ DOMAIN s.gasLimits = DOMAIN s.triggers \cup q
    /\ s.listeners = {ListenerKey(id, s.triggers[id].event) : id \in DOMAIN s.triggers}
    /\ DOMAIN s.triggers \cap q = {}
    /\ q \subseteq 1..(s.nextID - 1)

(* Gas limits are within the cap, whatever the subtraction wraps to. *)
LEMMA GasLimitRange ==
    ASSUME NEW g \in Int
    PROVE  GasLimitFor(g) \in 0..MaximumTriggerGas
  <1>1. (g - SetGasLimitCost) % GasMod \in 0..(GasMod - 1)
    BY GasAssumption
  <1>. QED
    BY <1>1, GasAssumption DEF GasLimitFor

(* RegisterTrigger keeps a store well formed. *)
LEMMA RegisterKeeps ==
    ASSUME NEW s, NEW q, NEW t, NEW g \in Int, StoreOK(s), RegistryOK(s, q)
    PROVE  /\ StoreOK(RegisterTrigger(s, t, g))
           /\ RegistryOK(RegisterTrigger(s, t, g), q)
           /\ RegisterTrigger(s, t, g).nextID = s.nextID + 1
           /\ DOMAIN RegisterTrigger(s, t, g).triggers = DOMAIN s.triggers \cup {s.nextID}
  <1>. DEFINE r == RegisterTrigger(s, t, g)
  <1>1. /\ r.nextID = s.nextID + 1
        /\ r.triggers = Put(s.triggers, s.nextID, t)
        /\ r.listeners = s.listeners \cup {ListenerKey(s.nextID, t.event)}
        /\ r.gasLimits = Put(s.gasLimits, s.nextID, GasLimitFor(g - WriteCost))
    BY DEF RegisterTrigger, Store
  <1>2. GasLimitFor(g - WriteCost) \in 0..MaximumTriggerGas
    BY GasLimitRange, GasAssumption
  <1>. HIDE DEF r
  <1>3. StoreOK(r)
    BY <1>1, <1>2 DEF StoreOK, Put
  <1>4. DOMAIN r.gasLimits = DOMAIN r.triggers \cup q
    BY <1>1 DEF RegistryOK, Put
  <1>5. r.listeners = {ListenerKey(id, r.triggers[id].event) : id \in DOMAIN r.triggers}
    <2>1. s.nextID \notin DOMAIN s.triggers
      BY DEF StoreOK
    <2>. QED
      BY <1>1, <2>1 DEF RegistryOK, Put
  <1>6. DOMAIN r.triggers \cap q = {} /\ q \subseteq 1..(r.nextID - 1)
    BY <1>1 DEF RegistryOK, StoreOK, Put
  <1>. QED
    BY Zenon, <1>1, <1>3, <1>4, <1>5, <1>6 DEF RegistryOK, Put, r

(* UnregisterTrigger followed by queueing the trigger: its gas limit stays. *)
LEMMA UnregisterKeeps ==
    ASSUME NEW s, NEW q, NEW id \in DOMAIN s.triggers, StoreOK(s), RegistryOK(s, q)
    PROVE  /\ StoreOK(UnregisterTrigger(s, id))
           /\ RegistryOK(UnregisterTrigger(s, id), q \cup {id})
           /\ UnregisterTrigger(s, id).nextID = s.nextID
           /\ DOMAIN UnregisterTrigger(s, id).triggers = DOMAIN s.triggers \ {id}
  <1>. DEFINE r == UnregisterTrigger(s, id)
  <1>1. /\ r.nextID = s.nextID
        /\ r.triggers = Del(s.triggers, id)
        /\ r.listeners = s.listeners \ {ListenerKey(id, s.triggers[id].event)}
        /\ r.gasLimits = s.gasLimits
    BY DEF UnregisterTrigger, Store
  <1>. HIDE DEF r
  <1>2. StoreOK(r)
    BY <1>1 DEF StoreOK, Del
  <1>3. r.listeners = {ListenerKey(i, r.triggers[i].event) : i \in DOMAIN r.triggers}
    <2>1. \A i, j : \A e, f : ListenerKey(i, e) = ListenerKey(j, f) => i = j
      BY DEF ListenerKey
    <2>. QED
      BY <1>1, <2>1 DEF RegistryOK, Del
  <1>. QED
    BY Zenon, <1>1, <1>2, <1>3 DEF RegistryOK, StoreOK, Del, r

(* RemoveGasLimit, once the trigger has left the queue and is unregistered. *)
LEMMA RemoveGasLimitKeeps ==
    ASSUME NEW s, NEW q, NEW id \in q, StoreOK(s), RegistryOK(s, q)
    PROVE  /\ StoreOK(RemoveGasLimit(s, id))
           /\ RegistryOK(RemoveGasLimit(s, id), q \ {id})
           /\ RemoveGasLimit(s, id).nextID = s.nextID
           /\ RemoveGasLimit(s, id).triggers = s.triggers
  <1>. DEFINE r == RemoveGasLimit(s, id)
  <1>1. /\ r.nextID = s.nextID
        /\ r.triggers = s.triggers
        /\ r.listeners = s.listeners
        /\ r.gasLimits = Del(s.gasLimits, id)
    BY DEF RemoveGasLimit, Store
  <1>. HIDE DEF r
  <1>2. StoreOK(r)
    BY <1>1 DEF StoreOK, Del
  <1>3. DOMAIN r.gasLimits = DOMAIN r.triggers \cup (q \ {id})
    BY <1>1 DEF RegistryOK, Del
  <1>. QED
    BY <1>1, <1>2, <1>3 DEF RegistryOK, r

(* DestroyTrigger's writes leave nothing of the trigger. *)
LEMMA DestroyKeeps ==
    ASSUME NEW s, NEW q, NEW id \in DOMAIN s.triggers, StoreOK(s), RegistryOK(s, q)
    PROVE  /\ StoreOK(Destroy(s, id))
           /\ RegistryOK(Destroy(s, id), q)
           /\ Destroy(s, id).nextID = s.nextID
           /\ DOMAIN Destroy(s, id).triggers = DOMAIN s.triggers \ {id}
  <1>. DEFINE u == UnregisterTrigger(s, id)
  <1>1. /\ StoreOK(u) /\ RegistryOK(u, q \cup {id}) /\ u.nextID = s.nextID
        /\ DOMAIN u.triggers = DOMAIN s.triggers \ {id}
    BY UnregisterKeeps
  <1>2. id \notin q
    BY DEF RegistryOK
  <1>. HIDE DEF u
  <1>3. (q \cup {id}) \ {id} = q
    BY <1>2
  <1>4. /\ StoreOK(RemoveGasLimit(u, id)) /\ RegistryOK(RemoveGasLimit(u, id), (q \cup {id}) \ {id})
        /\ RemoveGasLimit(u, id).nextID = u.nextID
        /\ RemoveGasLimit(u, id).triggers = u.triggers
    BY Zenon, <1>1, RemoveGasLimitKeeps
  <1>. QED
    BY <1>1, <1>3, <1>4 DEF Destroy, u

(* Other modules' writes do not touch the registry. *)
LEMMA EffectKeeps ==
    ASSUME NEW s, NEW q, NEW x, StoreOK(s), RegistryOK(s, q)
    PROVE  /\ StoreOK(AddEffect(s, x))
           /\ RegistryOK(AddEffect(s, x), q)
           /\ AddEffect(s, x).nextID = s.nextID
           /\ AddEffect(s, x).triggers = s.triggers
  BY DEF AddEffect, Store, StoreOK, RegistryOK

-----------------------------------------------------------------------------
(* The inductive invariant: both stores are well formed for the queued     *)
(* identifiers, the cache is a copy while nothing runs, and the trigger    *)
(* being run has left registry and queue for good (its identifier is below *)
(* every one the cache may still hand out).                                *)
QueueOK ==
    /\ QueueIsContiguous
    /\ \A i, j \in DOMAIN queue.items : QueuedID(i) = QueuedID(j) => i = j

CacheOK ==
    /\ phase # "run" => cache = store
    /\ phase = "run" =>
         /\ run.id \in 1..(store.nextID - 1)
         /\ run.id \notin DOMAIN store.triggers \cup DOMAIN cache.triggers \cup Queued
         /\ cache.nextID >= store.nextID

PendingOK ==
    /\ pending \subseteq Registered
    /\ phase # "end" => pending = {}

IInv ==
    /\ TypeOK
    /\ QueueOK
    /\ RegistryOK(store, Queued)
    /\ RegistryOK(cache, Queued)
    /\ CacheOK
    /\ PendingOK

LEMMA TypeOKStores == TypeOK => StoreOK(store) /\ StoreOK(cache)
  BY DEF TypeOK, StoreOK

(* The invariant implies the properties the runs check. *)
LEMMA IInvImplies ==
    IInv => /\ QueueIsContiguous /\ SingleShot
            /\ GasLimitForEveryTrigger /\ ListenersMatchTriggers
  <1>. SUFFICES ASSUME IInv
                PROVE  /\ QueueIsContiguous /\ SingleShot
                       /\ GasLimitForEveryTrigger /\ ListenersMatchTriggers
    OBVIOUS
  <1>1. QueueIsContiguous
    BY DEF IInv, QueueOK
  <1>2. SingleShot
    BY DEF IInv, QueueOK, RegistryOK, CacheOK, SingleShot, Registered
  <1>3. GasLimitForEveryTrigger /\ ListenersMatchTriggers
    BY DEF IInv, RegistryOK, GasLimitForEveryTrigger, ListenersMatchTriggers
  <1>. QED
    BY <1>1, <1>2, <1>3

LEMMA InitIInv == Init => IInv
  <1>. SUFFICES ASSUME Init PROVE IInv
    OBVIOUS
  <1>1. /\ store.nextID = 1 /\ DOMAIN store.triggers = {} /\ store.listeners = {}
        /\ DOMAIN store.gasLimits = {} /\ cache = store
        /\ store.gasLimits \in [{} -> 0..MaximumTriggerGas]
    BY DEF Init, Store, EmptyStore
  <1>2. queue.start = 1 /\ queue.length = 0 /\ DOMAIN queue.items = {}
    BY DEF Init, EmptyStore
  <1>3. Queued = {}
    BY <1>2 DEF Queued
  <1>4. TypeOK
    <2>1. \A s \in {store, cache} : StoreOK(s)
      BY <1>1 DEF StoreOK
    <2>2. run.gas \in 0..MaximumTriggerGas /\ run.pos \in Nat \ {0}
      <3>1. run.gas = 0 /\ run.pos = 1
        BY DEF Init, NoRun
      <3>. QED
        BY <3>1, GasAssumption
    <2>. QED
      BY <1>2, <2>1, <2>2, GasAssumption, BoundAssumption DEF Init, TypeOK, StoreOK
  <1>5. QueueOK
    BY <1>2 DEF QueueOK, QueueIsContiguous
  <1>6. RegistryOK(store, Queued) /\ RegistryOK(cache, Queued)
    BY Zenon, <1>1, <1>3 DEF RegistryOK
  <1>7. CacheOK /\ PendingOK
    BY <1>1 DEF Init, CacheOK, PendingOK
  <1>. QED
    BY <1>4, <1>5, <1>6, <1>7 DEF IInv

(* Taking the head off the queue. *)
LEMMA DequeueKeeps ==
    ASSUME TypeOK, QueueOK, queue.length # 0, queue' = Dequeue(queue)
    PROVE  /\ queue.start \in DOMAIN queue.items
           /\ QueueOK'
           /\ queue'.start \in Nat \ {0} /\ queue'.length \in Nat
           /\ Queued' = Queued \ {QueuePeek.id}
           /\ QueuePeek.id \in Queued
  <1>1. /\ queue'.start = queue.start + 1 /\ queue'.length = queue.length - 1
        /\ queue'.items = Del(queue.items, queue.start)
    BY DEF Dequeue
  <1>2. queue.start \in DOMAIN queue.items
    <2>1. queue.start \in Nat /\ queue.length \in Nat
      BY Zenon DEF TypeOK
    <2>2. queue.start \in queue.start..(queue.start + queue.length - 1)
      BY <2>1
    <2> QED BY Zenon, <2>2 DEF QueueOK, QueueIsContiguous
  <1>3. /\ DOMAIN queue'.items = DOMAIN queue.items \ {queue.start}
        /\ \A i \in DOMAIN queue'.items : queue'.items[i] = queue.items[i]
    BY <1>1 DEF Del
  <1>4. QueueIsContiguous'
    <2>1. /\ queue.start \in Nat /\ queue.length \in Nat
          /\ DOMAIN queue.items = queue.start..(queue.start + queue.length - 1)
      BY DEF TypeOK, QueueOK, QueueIsContiguous
    <2>2. DOMAIN queue'.items = (queue.start + 1)..(queue.start + queue.length - 1)
      BY <1>3, <2>1
    <2>3. queue'.start + queue'.length - 1 = queue.start + queue.length - 1
      BY <1>1, <2>1
    <2>. QED
      BY <1>1, <2>2, <2>3 DEF QueueIsContiguous
  <1>5. QueueOK'
    BY <1>3, <1>4 DEF QueueOK, QueuedID
  <1>6. Queued' = Queued \ {QueuePeek.id}
    BY <1>2, <1>3 DEF QueueOK, Queued, QueuedID, QueuePeek
  <1>7. QueuePeek.id \in Queued
    BY <1>2 DEF Queued, QueuedID, QueuePeek
  <1>. QED
    BY <1>1, <1>2, <1>5, <1>6, <1>7 DEF TypeOK

(* An interval with one more element. *)
LEMMA IntervalExtends ==
    ASSUME NEW a \in Nat, NEW b \in Nat
    PROVE  (a..(a + b - 1)) \cup {a + b} = a..(a + b)
  OBVIOUS

(* Adding an item at the end. *)
LEMMA EnqueueKeeps ==
    ASSUME TypeOK, QueueOK, NEW id, NEW t, id \notin Queued,
           queue' = Enqueue(queue, [id |-> id, trigger |-> t])
    PROVE  /\ QueueOK'
           /\ queue'.start \in Nat \ {0} /\ queue'.length \in Nat
           /\ Queued' = Queued \cup {id}
  <1>. DEFINE n == queue.start + queue.length
  <1>1. /\ queue'.start = queue.start /\ queue'.length = queue.length + 1
        /\ queue'.items = Put(queue.items, n, [id |-> id, trigger |-> t])
    BY DEF Enqueue
  <1>0. /\ queue.start \in Nat /\ queue.length \in Nat
        /\ DOMAIN queue.items = queue.start..(queue.start + queue.length - 1)
    BY DEF TypeOK, QueueOK, QueueIsContiguous
  <1>2. n \in Nat /\ n \notin DOMAIN queue.items
    BY <1>0
  <1>. HIDE DEF n
  <1>3. /\ DOMAIN queue'.items = DOMAIN queue.items \cup {n}
        /\ \A i \in DOMAIN queue.items : queue'.items[i] = queue.items[i]
        /\ queue'.items[n].id = id
    BY <1>1, <1>2 DEF Put
  <1>4. QueueIsContiguous'
    <2>1. DOMAIN queue'.items = queue.start..(queue.start + queue.length)
      BY Zenon, <1>0, <1>3, IntervalExtends DEF n
    <2>2. queue'.start + queue'.length - 1 = queue.start + queue.length
      BY <1>0, <1>1
    <2>. QED
      BY <1>1, <2>1, <2>2 DEF QueueIsContiguous
  <1>5. QueueOK'
    BY <1>3, <1>4 DEF QueueOK, Queued, QueuedID
  <1>6. Queued' = Queued \cup {id}
    BY <1>3 DEF Queued, QueuedID
  <1>. QED
    BY <1>1, <1>5, <1>6 DEF TypeOK

-----------------------------------------------------------------------------
(* Steps.  Each action keeps the invariant. *)

LEMMA ProcessNextKeeps == IInv /\ ProcessNext => IInv'
  <1>. SUFFICES ASSUME IInv, ProcessNext PROVE IInv'
    OBVIOUS
  <1>. DEFINE id == QueuePeek.id
              r == RemoveGasLimit(store, id)
  <1>1. /\ StoreOK(store) /\ RegistryOK(store, Queued) /\ TypeOK /\ QueueOK
    BY TypeOKStores DEF IInv
  <1>2. /\ queue.length # 0 /\ queue' = Dequeue(queue)
        /\ store' = r /\ cache' = r /\ phase' = "run"
        /\ run'.id = id /\ run'.pos = 1 /\ run'.gas = store.gasLimits[id]
        /\ processed' = processed + 1 /\ processed < MaximumActions
        /\ gasUsed' = gasUsed + store.gasLimits[id]
        /\ store.gasLimits[id] + gasUsed <= MaximumQueueGas
        /\ UNCHANGED <<height, time, events, pending>>
        /\ pending = {}
    BY DEF ProcessNext, CanProcess, QueueIsEmpty, IInv, PendingOK
  <1>3. /\ QueueOK' /\ queue'.start \in Nat \ {0} /\ queue'.length \in Nat
        /\ Queued' = Queued \ {id} /\ id \in Queued
    BY <1>1, <1>2, DequeueKeeps
  <1>4. /\ StoreOK(r) /\ RegistryOK(r, Queued \ {id})
        /\ r.nextID = store.nextID /\ r.triggers = store.triggers
    BY Zenon, <1>1, <1>3, RemoveGasLimitKeeps
  <1>. HIDE DEF r, id
  <1>5. store.gasLimits[id] \in 0..MaximumTriggerGas
    BY <1>1, <1>3 DEF StoreOK, RegistryOK
  <1>6. StoreOK(store') /\ StoreOK(cache')
    BY <1>2, <1>4
  <1>7. /\ processed' \in 0..MaximumActions /\ gasUsed' \in 0..MaximumQueueGas
        /\ run'.gas \in 0..MaximumTriggerGas /\ run'.pos \in Nat \ {0}
    BY <1>1, <1>2, <1>5, GasAssumption DEF TypeOK
  <1>8. TypeOK'
    BY <1>1, <1>2, <1>3, <1>6, <1>7 DEF TypeOK, StoreOK
  <1>9. CacheOK'
    <2>1. id \in 1..(store.nextID - 1) /\ id \notin DOMAIN store.triggers
      BY <1>1, <1>3 DEF RegistryOK
    <2>. QED
      BY <1>1, <1>2, <1>3, <1>4, <2>1 DEF CacheOK, StoreOK
  <1>10. PendingOK'
    BY <1>2 DEF PendingOK
  <1>11. RegistryOK(store', Queued') /\ RegistryOK(cache', Queued')
    BY <1>2, <1>3, <1>4
  <1>. QED
    BY <1>3, <1>8, <1>9, <1>10, <1>11 DEF IInv

(* What is common to the ways a message of a trigger succeeds: the cache   *)
(* stays well formed and hands out larger identifiers only.                *)
LEMMA RunMsgOKCache ==
    ASSUME IInv, RunMsgOK
    PROVE  /\ StoreOK(cache') /\ RegistryOK(cache', Queued)
           /\ cache'.nextID >= cache.nextID
           /\ DOMAIN cache'.triggers \subseteq DOMAIN cache.triggers \cup {cache.nextID}
           /\ run'.id = run.id /\ run'.pos = run.pos + 1
           /\ run'.gas \in 0..MaximumTriggerGas
  <1>1. /\ StoreOK(cache) /\ RegistryOK(cache, Queued)
        /\ run.gas \in 0..MaximumTriggerGas /\ run.gas \in Int
        /\ cache.nextID \in Nat
    BY TypeOKStores DEF IInv, TypeOK
  <1>2. CASE Msg.kind = "other" /\ run.gas >= WriteCost
             /\ cache' = AddEffect(cache, Effect) /\ Advance(WriteCost)
    <2>1. run'.id = run.id /\ run'.pos = run.pos + 1 /\ run'.gas = run.gas - WriteCost
      BY <1>2 DEF Advance
    <2>2. run'.gas \in 0..MaximumTriggerGas
      BY <1>1, <1>2, <2>1, GasAssumption
    <2>. QED
      BY <1>1, <1>2, <2>1, <2>2, EffectKeeps
  <1>3. ASSUME Msg.kind = "create", CreateOK(Msg.event, run.gas),
               NEW t, cache' = AddEffect(RegisterTrigger(cache, t, run.gas), Effect),
               Advance(CreateCharge(run.gas))
        PROVE  /\ StoreOK(cache') /\ RegistryOK(cache', Queued)
               /\ cache'.nextID >= cache.nextID
               /\ DOMAIN cache'.triggers \subseteq DOMAIN cache.triggers \cup {cache.nextID}
               /\ run'.id = run.id /\ run'.pos = run.pos + 1
               /\ run'.gas \in 0..MaximumTriggerGas
    <2>. DEFINE r == RegisterTrigger(cache, t, run.gas)
                c == CreateCharge(run.gas)
    <2>1. /\ StoreOK(r) /\ RegistryOK(r, Queued) /\ r.nextID = cache.nextID + 1
          /\ DOMAIN r.triggers = DOMAIN cache.triggers \cup {cache.nextID}
      BY <1>1, RegisterKeeps
    <2>2. c \in Nat
      <3>1. GasLimitFor(run.gas - WriteCost) \in 0..MaximumTriggerGas
        BY <1>1, GasAssumption, GasLimitRange
      <3>. QED
        BY <3>1, GasAssumption DEF CreateCharge
    <2>3. run.gas >= c
      BY <1>3 DEF CreateOK
    <2>4. run'.id = run.id /\ run'.pos = run.pos + 1 /\ run'.gas = run.gas - c
      BY <1>3 DEF Advance
    <2>. HIDE DEF r, c
    <2>5. run'.gas \in 0..MaximumTriggerGas
      BY <1>1, <2>2, <2>3, <2>4, GasAssumption
    <2>6. cache' = AddEffect(r, Effect)
      BY <1>3 DEF r
    <2>7. /\ StoreOK(cache') /\ RegistryOK(cache', Queued)
          /\ cache'.nextID = r.nextID /\ cache'.triggers = r.triggers
      BY <2>1, <2>6, EffectKeeps
    <2>. QED
      BY <1>1, <2>1, <2>4, <2>5, <2>7
  <1>4. CASE Msg.kind = "destroy" /\ run.gas >= WriteCost
             /\ DestroyOK(cache, run.owner, Msg.id)
             /\ cache' = AddEffect(Destroy(cache, Msg.id), Effect) /\ Advance(WriteCost)
    <2>. DEFINE r == Destroy(cache, Msg.id)
    <2>1. run'.id = run.id /\ run'.pos = run.pos + 1 /\ run'.gas = run.gas - WriteCost
      BY <1>4 DEF Advance
    <2>2. run'.gas \in 0..MaximumTriggerGas
      BY <1>1, <1>4, <2>1, GasAssumption
    <2>3. Msg.id \in DOMAIN cache.triggers
      BY <1>4 DEF DestroyOK
    <2>4. /\ StoreOK(r) /\ RegistryOK(r, Queued) /\ r.nextID = cache.nextID
          /\ DOMAIN r.triggers = DOMAIN cache.triggers \ {Msg.id}
      BY Zenon, <1>1, <2>3, DestroyKeeps
    <2>5. cache' = AddEffect(r, Effect)
      BY <1>4
    <2>. HIDE DEF r
    <2>6. /\ StoreOK(cache') /\ RegistryOK(cache', Queued)
          /\ cache'.nextID = r.nextID /\ cache'.triggers = r.triggers
      BY <2>4, <2>5, EffectKeeps
    <2>. QED
      BY <1>1, <2>1, <2>2, <2>4, <2>6
  <1>. QED
    BY Zenon, <1>2, <1>3, <1>4 DEF RunMsgOK

LEMMA SameQueue ==
    ASSUME QueueOK, queue' = queue
    PROVE  QueueOK' /\ Queued' = Queued
  BY Zenon DEF QueueOK, QueueIsContiguous, Queued, QueuedID

LEMMA RunMsgOKKeeps == IInv /\ RunMsgOK => IInv'
  <1>. SUFFICES ASSUME IInv, RunMsgOK PROVE IInv'
    OBVIOUS
  <1>1. /\ phase = "run"
        /\ UNCHANGED <<phase, height, time, events, store, queue, processed, gasUsed, pending>>
    BY DEF RunMsgOK, MsgPending
  <1>2. /\ StoreOK(cache') /\ RegistryOK(cache', Queued)
        /\ cache'.nextID >= cache.nextID
        /\ DOMAIN cache'.triggers \subseteq DOMAIN cache.triggers \cup {cache.nextID}
        /\ run'.id = run.id /\ run'.pos = run.pos + 1
        /\ run'.gas \in 0..MaximumTriggerGas
    BY RunMsgOKCache
  <1>3. QueueOK' /\ Queued' = Queued
    BY <1>1, SameQueue DEF IInv
  <1>4. StoreOK(store) /\ StoreOK(cache)
    BY TypeOKStores DEF IInv
  <1>5. TypeOK'
    BY <1>1, <1>2, <1>4 DEF IInv, TypeOK, StoreOK
  <1>6. CacheOK'
    <2>1. /\ run.id \in 1..(store.nextID - 1) /\ cache.nextID >= store.nextID
          /\ run.id \notin DOMAIN store.triggers \cup DOMAIN cache.triggers \cup Queued
      BY <1>1 DEF IInv, CacheOK
    <2>2. run.id # cache.nextID /\ cache'.nextID >= store.nextID
      BY <1>2, <1>4, <2>1 DEF StoreOK
    <2>. QED
      BY Zenon, <1>1, <1>2, <1>3, <2>1, <2>2 DEF CacheOK
  <1>7. PendingOK'
    BY <1>1 DEF IInv, PendingOK, Registered
  <1>8. RegistryOK(store', Queued') /\ RegistryOK(cache', Queued')
    BY <1>1, <1>2, <1>3 DEF IInv
  <1>. QED
    BY <1>3, <1>5, <1>6, <1>7, <1>8 DEF IInv

LEMMA NoRunTypes == NoRun.gas \in 0..MaximumTriggerGas /\ NoRun.pos \in Nat \ {0}
  <1>1. NoRun.gas = 0 /\ NoRun.pos = 1
    BY DEF NoRun
  <1>. QED
    BY <1>1, GasAssumption

LEMMA RunMsgFailKeeps == IInv /\ RunMsgFail => IInv'
  <1>. SUFFICES ASSUME IInv, RunMsgFail PROVE IInv'
    OBVIOUS
  <1>1. /\ phase = "run" /\ phase' = "begin" /\ run' = NoRun /\ cache' = store
            /\ UNCHANGED <<height, time, events, store, queue, processed, gasUsed, pending>>
    BY DEF RunMsgFail, MsgPending
  <1>2. QueueOK' /\ Queued' = Queued
    BY <1>1, SameQueue DEF IInv
  <1>3. TypeOK'
    BY <1>1, NoRunTypes DEF IInv, TypeOK
  <1>4. CacheOK' /\ PendingOK'
    BY <1>1 DEF IInv, CacheOK, PendingOK, Registered
  <1>. QED
    BY <1>1, <1>2, <1>3, <1>4 DEF IInv

LEMMA FlushKeeps == IInv /\ Flush => IInv'
  <1>. SUFFICES ASSUME IInv, Flush PROVE IInv'
    OBVIOUS
  <1>1. /\ phase = "run" /\ phase' = "begin" /\ run' = NoRun /\ store' = cache
        /\ UNCHANGED <<height, time, events, queue, processed, gasUsed, cache, pending>>
    BY DEF Flush
  <1>2. QueueOK' /\ Queued' = Queued
    BY <1>1, SameQueue DEF IInv
  <1>3. TypeOK'
    BY <1>1, NoRunTypes DEF IInv, TypeOK
  <1>4. CacheOK' /\ PendingOK'
    BY <1>1 DEF IInv, CacheOK, PendingOK, Registered
  <1>. QED
    BY <1>1, <1>2, <1>3, <1>4 DEF IInv

(* The steps that leave both stores and the queue alone. *)
LEMMA BlockFrameKeeps ==
    ASSUME IInv, BeginBlock \/ EndProcess \/ EndBlock \/ Commit
                 \/ (\E ev \in AbciEvent : EmitEvent(ev)) \/ UNCHANGED vars
    PROVE  IInv'
  <1>1. UNCHANGED <<store, queue, run, cache>>
    BY DEF BeginBlock, EndProcess, EndBlock, Commit, EmitEvent, vars
  <1>2. QueueOK' /\ Queued' = Queued
    BY <1>1, SameQueue DEF IInv
  <1>3. /\ phase' \in {"idle", "begin", "run", "deliver", "end"}
        /\ phase' = "run" <=> phase = "run"
    BY Zenon DEF BeginBlock, EndProcess, EndBlock, Commit, EmitEvent, vars, IInv, TypeOK
  <1>4. height' \in 0..MaxHeight /\ time' \in 0..MaxTime
    <2>1. height \in 0..MaxHeight /\ time \in 0..MaxTime
      BY DEF IInv, TypeOK
    <2>2. CASE BeginBlock
      BY <2>1, <2>2, BoundAssumption DEF BeginBlock
    <2>3. CASE ~BeginBlock
      BY <2>1, <2>3 DEF EndProcess, EndBlock, Commit, EmitEvent, vars
    <2>. QED
      BY <2>2, <2>3
  <1>5. /\ processed' \in 0..MaximumActions /\ gasUsed' \in 0..MaximumQueueGas
    <2>1. /\ processed \in 0..MaximumActions /\ gasUsed \in 0..MaximumQueueGas
      BY DEF IInv, TypeOK
    <2>2. CASE EndProcess
      BY <2>2, GasAssumption DEF EndProcess
    <2>3. CASE ~EndProcess
      BY <2>1, <2>3 DEF BeginBlock, EndBlock, Commit, EmitEvent, vars
    <2>. QED
      BY <2>2, <2>3
  <1>6. TypeOK'
    BY <1>1, <1>3, <1>4, <1>5 DEF IInv, TypeOK
  <1>7. CacheOK'
    BY <1>1, <1>2, <1>3 DEF IInv, CacheOK
  <1>8. PendingOK'
    <2>1. CASE EndBlock
      <3>1. Detected \subseteq {l[3] : l \in store.listeners}
        BY DEF Detected
      <3>2. \A l \in store.listeners : l[3] \in DOMAIN store.triggers
        BY DEF IInv, RegistryOK, ListenerKey
      <3>. QED
        BY <1>1, <2>1, <3>1, <3>2 DEF EndBlock, PendingOK, Registered
    <2>2. CASE BeginBlock \/ EndProcess \/ Commit
               \/ (\E ev \in AbciEvent : EmitEvent(ev)) \/ UNCHANGED vars
      BY <1>1, <2>2
         DEF BeginBlock, EndProcess, Commit, EmitEvent, vars, IInv, PendingOK, Registered
    <2>. QED
      BY <2>1, <2>2
  <1>. QED
    BY <1>1, <1>2, <1>6, <1>7, <1>8 DEF IInv

(* A transaction replaces the store by a well-formed one. *)
LEMMA TxStoreKeeps ==
    ASSUME IInv, phase = "deliver", StoreOK(store'), RegistryOK(store', Queued),
           cache' = store',
           UNCHANGED <<phase, height, time, events, queue, processed, gasUsed,
                       run, pending>>
    PROVE  IInv'
  <1>1. QueueOK' /\ Queued' = Queued
    BY SameQueue DEF IInv
  <1>2. TypeOK'
    BY DEF IInv, TypeOK, StoreOK
  <1>3. CacheOK' /\ PendingOK'
    BY DEF IInv, CacheOK, PendingOK
  <1>. QED
    BY <1>1, <1>2, <1>3 DEF IInv

LEMMA CreateTriggerKeeps ==
    ASSUME IInv, NEW o, NEW e, NEW a, NEW g \in TxGas, CreateTrigger(o, e, a, g)
    PROVE  IInv'
  <1>1. StoreOK(store) /\ RegistryOK(store, Queued) /\ g \in Int
    BY TypeOKStores, GasAssumption DEF IInv
  <1>2. StoreOK(store') /\ RegistryOK(store', Queued)
    BY Zenon, <1>1, RegisterKeeps DEF CreateTrigger
  <1>. QED
    BY <1>2, TxStoreKeeps DEF CreateTrigger

LEMMA DestroyTriggerKeeps ==
    ASSUME IInv, NEW o, NEW id, DestroyTrigger(o, id)
    PROVE  IInv'
  <1>1. StoreOK(store) /\ RegistryOK(store, Queued) /\ id \in DOMAIN store.triggers
    BY TypeOKStores DEF IInv, DestroyTrigger, DestroyOK
  <1>2. StoreOK(store') /\ RegistryOK(store', Queued)
    BY <1>1, DestroyKeeps DEF DestroyTrigger
  <1>. QED
    BY <1>2, TxStoreKeeps DEF DestroyTrigger

LEMMA QueueTriggerKeeps ==
    ASSUME IInv, NEW id \in pending, QueueTrigger(id)
    PROVE  IInv'
  <1>. DEFINE r == UnregisterTrigger(store, id)
  <1>1. /\ StoreOK(store) /\ RegistryOK(store, Queued) /\ TypeOK /\ QueueOK
        /\ id \in DOMAIN store.triggers /\ id \notin Queued
    BY Zenon, TypeOKStores DEF IInv, PendingOK, Registered, RegistryOK
  <1>2. /\ phase = "end" /\ store' = r /\ cache' = r /\ pending' = pending \ {id}
        /\ queue' = Enqueue(queue, [id |-> id, trigger |-> store.triggers[id]])
        /\ UNCHANGED <<phase, height, time, events, processed, gasUsed, run>>
    BY DEF QueueTrigger
  <1>3. /\ StoreOK(r) /\ RegistryOK(r, Queued \cup {id})
        /\ DOMAIN r.triggers = DOMAIN store.triggers \ {id}
    BY Zenon, <1>1, UnregisterKeeps
  <1>. HIDE DEF r
  <1>4. /\ QueueOK' /\ queue'.start \in Nat \ {0} /\ queue'.length \in Nat
        /\ Queued' = Queued \cup {id}
    BY Zenon, <1>1, <1>2, EnqueueKeeps
  <1>5. StoreOK(store') /\ StoreOK(cache')
    BY Zenon, <1>2, <1>3
  <1>6. TypeOK'
    BY Zenon, <1>1, <1>2, <1>4, <1>5 DEF TypeOK, StoreOK
  <1>7. CacheOK' /\ PendingOK'
    BY Zenon, <1>2, <1>3 DEF IInv, CacheOK, PendingOK, Registered
  <1>8. RegistryOK(store', Queued') /\ RegistryOK(cache', Queued')
    BY Zenon, <1>2, <1>3, <1>4
  <1>. QED
    BY <1>4, <1>6, <1>7, <1>8 DEF IInv

LEMMA StepIInv == IInv /\ [Next]_vars => IInv'
  <1>. SUFFICES ASSUME IInv, [Next]_vars PROVE IInv'
    OBVIOUS
  <1>1. CASE ProcessNext \/ RunMsgOK \/ RunMsgFail \/ Flush
    BY <1>1, ProcessNextKeeps, RunMsgOKKeeps, RunMsgFailKeeps, FlushKeeps
  <1>2. CASE BeginBlock \/ EndProcess \/ EndBlock \/ Commit
             \/ (\E ev \in AbciEvent : EmitEvent(ev)) \/ UNCHANGED vars
    BY <1>2, BlockFrameKeeps
  <1>3. CASE \E id \in pending : QueueTrigger(id)
    BY <1>3, QueueTriggerKeeps
  <1>4. CASE \E o \in Owner, e \in TriggerEvent, a \in ActionList, g \in TxGas :
                 CreateTrigger(o, e, a, g)
    BY <1>4, CreateTriggerKeeps
  <1>5. CASE \E o \in Owner, id \in DOMAIN store.triggers : DestroyTrigger(o, id)
    BY <1>5, DestroyTriggerKeeps
  <1>. QED
    BY <1>1, <1>2, <1>3, <1>4, <1>5 DEF Next, BlockStep, Tx

(* The inductive invariant holds of every behaviour of the block loop.     *)
THEOREM Invariance == Spec => []IInv
  BY InitIInv, StepIInv, PTL DEF Spec

(* Every variable keeps its shape; in particular no gas limit exceeds      *)
(* MaximumTriggerGas although it comes from an unsigned subtraction, and a *)
(* block never processes more triggers or gas than the two limits.         *)
THEOREM TypeCorrect == Spec => []TypeOK
  <1>1. IInv => TypeOK
    BY DEF IInv
  <1>. QED
    BY <1>1, Invariance, PTL

(* QueuePeek, getQueueItem and Dequeue never miss an item; a trigger is    *)
(* registered, queued once, running or gone, and never two of these;       *)
(* GetGasLimit never panics for a registered or queued trigger and no gas  *)
(* limit outlives its trigger; the listener index holds the entries of the *)
(* registered triggers, and nothing else.                                  *)
THEOREM RegistryCorrect == Spec => []RegistryConsistent
  <1>1. IInv => RegistryConsistent
    BY IInvImplies DEF RegistryConsistent
  <1>. QED
    BY <1>1, Invariance, PTL
=============================================================================
