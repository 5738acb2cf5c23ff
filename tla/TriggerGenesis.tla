--------------------------- MODULE TriggerGenesis ---------------------------
(***************************************************************************)
(* Export and import of the x/trigger state between two blocks: a chain    *)
(* that is exported and started again from its genesis file goes on with   *)
(* the same registry and the same queue.  What a restart does is a         *)
(* function of the state, so it is stated of every state between blocks    *)
(* and is not an action.                                                   *)
(***************************************************************************)
EXTENDS Trigger, FiniteSets, SequencesExt

(* Key order of the queue store is index order. *)
AllQueueItems ==
    LET indexes == SetToSortSeq(DOMAIN queue.items, <)
    IN  [i \in DOMAIN indexes |-> queue.items[indexes[i]]]

ExportGenesis ==
    [triggerID |-> store.nextID, queueStart |-> queue.start,
     triggers |-> store.triggers, gasLimits |-> store.gasLimits,
     queued |-> AllQueueItems]

(* GenesisState.Validate.  Stored triggers passed ValidateBasic. *)
Validate(gs) ==
    LET queuedIDs == {gs.queued[i].id : i \in DOMAIN gs.queued}
    IN  /\ gs.triggerID # 0 /\ gs.queueStart # 0
        /\ Cardinality(DOMAIN gs.triggers) + Len(gs.queued) = Cardinality(DOMAIN gs.gasLimits)
        /\ \A id \in DOMAIN gs.triggers \cup queuedIDs :
               id <= gs.triggerID /\ id \in DOMAIN gs.gasLimits
        /\ DOMAIN gs.triggers \cap queuedIDs = {}
        /\ Cardinality(queuedIDs) = Len(gs.queued)

(* Mutant: the queue is enqueued from index 1 on. *)
MutInitQueueAtOne(gs) == FoldLeft(Enqueue, [start |-> 1, length |-> 0, items |-> EmptyStore],
                                  gs.queued)

(* The queue part of InitGenesis. *)
InitQueue(gs) ==
    FoldLeft(Enqueue, [start |-> gs.queueStart, length |-> 0, items |-> EmptyStore], gs.queued)

(* The registry part: triggers and listeners are set again.  The effects   *)
(* are the other modules' state, which their own genesis carries over.     *)
InitStore(gs) ==
    Store(gs.triggerID, gs.triggers,
          {ListenerKey(id, gs.triggers[id].event) : id \in DOMAIN gs.triggers},
          gs.gasLimits, store.effects)
-----------------------------------------------------------------------------
(* Export followed by import: what ExportGenesis wrote always passes       *)
(* GenesisState.Validate, and InitGenesis gives back the next identifier,  *)
(* the triggers, the listener index, the gas limits and the queue with its *)
(* indexes.                                                                *)
GenesisRoundTrip ==
    phase = "idle" => /\ Validate(ExportGenesis)
                      /\ InitStore(ExportGenesis) = store
                      /\ InitQueue(ExportGenesis) = queue
=============================================================================
