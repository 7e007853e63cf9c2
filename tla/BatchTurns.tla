----------------------------- MODULE BatchTurns -----------------------------
(***************************************************************************)
(* The batch queue as it is meant to be read: every scheduler pass and     *)
(* every queue request sees the downloads as they are and takes effect at  *)
(* once.  It states what the planning functions of queue.rs promise before *)
(* interleavings come in; module BatchQueue adds those.                    *)
(***************************************************************************)
EXTENDS BatchPolicy

CONSTANT Parent     \* the download each download follows, or NoGid

ASSUME TurnsAssumption == Parent \in [Gid -> Gid \cup {NoGid}]

VARIABLE items      \* the pending downloads, with their queue metadata

TypeOK == IsListing(items)

(***************************************************************************)
(* Any downloads a session may start from.  Children carry no batch of     *)
(* their own: they inherit it from the download they belong to.            *)
(***************************************************************************)
Init ==
    \E D \in SUBSET Gid :
        items \in [D -> {[status |-> s, batch |-> b, held |-> h, parent |-> NoGid] :
                             s \in Pending, b \in Target, h \in BOOLEAN}]

Join(g) ==
    /\ g \notin DOMAIN items
    /\ \E b \in IF Parent[g] \in DOMAIN items THEN {Unassigned} ELSE Target :
          items' = [h \in DOMAIN items \cup {g} |->
                       IF h = g THEN [status |-> "waiting", batch |-> b, held |-> FALSE,
                                      parent |-> Parent[g]]
                       ELSE items[h]]

Leave(g) ==
    /\ g \in DOMAIN items
    /\ items[g].status = "active"
    /\ items' = [h \in DOMAIN items \ {g} |-> items[h]]

Begin(g) ==
    /\ g \in DOMAIN items
    /\ items[g].status = "waiting"
    /\ items' = [items EXCEPT ![g].status = "active"]

Pause(g) ==
    /\ g \in DOMAIN items
    /\ items[g].status \in Unpaused
    /\ items' = [items EXCEPT ![g].status = "paused", ![g].held = FALSE]

Resume(g) ==
    /\ g \in DOMAIN items
    /\ items[g].status = "paused"
    /\ ~items[g].held
    /\ items' = [items EXCEPT ![g].status = "waiting"]

SetBatch(g) ==
    /\ g \in DOMAIN items
    /\ \E b \in Target : items' = [items EXCEPT ![g].batch = b]

Schedule == items' = CarryOut(items, PlanBatchPolicy(items))
HoldBatch(t) == items' = CarryOut(items, PlanHoldBatch(items, t))
StartBatch(t) == items' = CarryOut(items, PlanStartBatch(items, t))

Next ==
    \/ \E g \in Gid : \/ Join(g) \/ Leave(g) \/ Begin(g)
                      \/ Pause(g) \/ Resume(g) \/ SetBatch(g)
    \/ Schedule
    \/ \E t \in Target : HoldBatch(t) \/ StartBatch(t)

Spec == Init /\ [][Next]_items

-----------------------------------------------------------------------------
Scheduled == CarryOut(items, PlanBatchPolicy(items))

(***************************************************************************)
(* After a pass every unpaused download belongs to one and the same batch, *)
(* whatever children, stale flags or user pauses the pass found            *)
(* (plan_batch_policy, "batches run one at a time, lowest number first").  *)
(***************************************************************************)
OneBatchInPlay == Cardinality(UnpausedBatches(Scheduled)) <= 1

(***************************************************************************)
(* A pass leaves nothing to do for the next one: it cannot hold and        *)
(* release the same downloads on every tick.                               *)
(***************************************************************************)
PassSettles == PlanBatchPolicy(Scheduled) = {}

(***************************************************************************)
(* The turn is never lost: as long as a download runs or is held, some     *)
(* download is unpaused after a pass.                                      *)
(***************************************************************************)
TurnIsGiven ==
    (\E g \in DOMAIN items : items[g].status \in Unpaused \/ HeldPaused(items[g]))
        => UnpausedBatches(Scheduled) # {}

(***************************************************************************)
(* A batch the user holds stays down: the pass that follows the request    *)
(* runs nothing of it and owns none of its pauses (plan_hold_batch,        *)
(* "otherwise the next pass would hand the turn straight back").           *)
(***************************************************************************)
HeldBatchStaysDown ==
    \A t \in Target :
        LET held == CarryOut(items, PlanHoldBatch(items, t))
            next == CarryOut(held, PlanBatchPolicy(held))
        IN  \A g \in DOMAIN next :
                EffectiveBatch(next, g) = t =>
                    next[g].status = "paused" /\ ~next[g].held

(***************************************************************************)
(* A batch the user starts keeps the turn through the following pass, with *)
(* every one of its downloads unpaused; the other batches are all paused   *)
(* (plan_start_batch).                                                     *)
(***************************************************************************)
StartedBatchRuns ==
    \A t \in Target :
        LET started == CarryOut(items, PlanStartBatch(items, t))
            next == CarryOut(started, PlanBatchPolicy(started))
        IN  (\E g \in DOMAIN items : EffectiveBatch(items, g) = t) =>
                \A g \in DOMAIN next :
                    (next[g].status \in Unpaused) <=> (EffectiveBatch(next, g) = t)

(***************************************************************************)
(* A pause the user made is left alone by every pass.                      *)
(***************************************************************************)
UserPausesUntouched ==
    \A g \in DOMAIN items :
        items[g].status = "paused" /\ ~items[g].held => Scheduled[g] = items[g]
=============================================================================
