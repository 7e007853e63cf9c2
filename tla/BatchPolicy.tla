---------------------------- MODULE BatchPolicy ----------------------------
(***************************************************************************)
(* The pure part of the batch queue (src/daemon/queue.rs): which batch a   *)
(* download belongs to, and which downloads the scheduler, a "hold batch"  *)
(* and a "start batch" request want to pause or resume.                    *)
(*                                                                         *)
(* A listing is a function from the gids that are listed to items; the     *)
(* order of the listing plays no part in any of these decisions.           *)
(***************************************************************************)
EXTENDS Naturals, FiniteSets

CONSTANTS
    Gid,        \* identifiers aria2 and the torrent engine give to downloads
    NoGid,      \* "belongsTo" of a download that has no parent
    MaxBatch    \* highest batch number a user may choose

ASSUME PolicyAssumption == /\ NoGid \notin Gid
                           /\ IsFiniteSet(Gid)
                           /\ MaxBatch \in Nat

(***************************************************************************)
(* QueueBatchTarget derives Ord with Unassigned last, so it is the natural *)
(* after every batch number; it also stands for the batch None.            *)
(***************************************************************************)
Unassigned == MaxBatch + 1
Target == 0 .. Unassigned

Stopped == {"complete", "error", "removed"}
Unpaused == {"active", "waiting"}
Pending == Unpaused \cup {"paused"}

Item == [status : Pending \cup Stopped, batch : Target, held : BOOLEAN,
         parent : Gid \cup {NoGid}]
IsListing(items) == DOMAIN items \subseteq Gid /\ items \in [DOMAIN items -> Item]

Entry == [batch : Target, held : BOOLEAN]
NoEntry == [batch |-> Unassigned, held |-> FALSE]
Queue == [Gid -> Entry]

Action == [kind : {"Hold", "HoldByUser", "KeepPausedByUser", "Release"}, gid : Gid]

IsPending(item) == item.status \in Pending
PendingOf(items) == [g \in {h \in DOMAIN items : IsPending(items[h])} |-> items[g]]

(***************************************************************************)
(* The least element of a set of naturals; Least is a set with at most one *)
(* element because Iterator::min returns None on an empty iterator.        *)
(***************************************************************************)
Least(S) == {m \in S : \A n \in S : m <= n}

(***************************************************************************)
(* attach_metadata: a download without a batch of its own takes that of    *)
(* its nearest recorded ancestor, which need not be listed any more.       *)
(***************************************************************************)
Recorded(queue, g) == IF g \in Gid THEN queue[g].batch ELSE Unassigned

Ancestors(items, g) ==
    LET hops == 0 .. Cardinality({h \in DOMAIN items : items[h].parent # NoGid})
        up[k \in hops] ==
            IF k = 0 THEN items[g].parent
            ELSE IF up[k - 1] \in DOMAIN items THEN items[up[k - 1]].parent ELSE NoGid
    IN  up

BatchOf(queue, items, g) ==
    IF queue[g].batch # Unassigned THEN queue[g].batch
    ELSE LET up == Ancestors(items, g)
             nearest == Least({k \in DOMAIN up : Recorded(queue, up[k]) # Unassigned})
         IN  IF nearest = {} THEN Unassigned
             ELSE Recorded(queue, up[CHOOSE k \in nearest : TRUE])

AttachMetadata(queue, items) ==
    [g \in DOMAIN items |-> [items[g] EXCEPT !.held = queue[g].held,
                                             !.batch = BatchOf(queue, items, g)]]

(***************************************************************************)
(* effective_batch: at most four hops towards the download that was queued.*)
(***************************************************************************)
Up(items, g) == IF items[g].parent \in DOMAIN items THEN items[g].parent ELSE g

EffectiveBatch(items, g) ==
    IF items[g].batch # Unassigned THEN items[g].batch
    ELSE items[Up(items, Up(items, Up(items, Up(items, g))))].batch

(***************************************************************************)
(* plan_batch_policy.  The batch in play is the lowest one with an         *)
(* unpaused download, or else the lowest one the scheduler holds.          *)
(***************************************************************************)
UnpausedBatches(items) ==
    {EffectiveBatch(items, g) : g \in {h \in DOMAIN items : items[h].status \in Unpaused}}

HeldPausedByAnyone(item) == item.status = "paused"
HeldPaused(item) == item.status = "paused" /\ item.held

HeldBatches(items) ==
    {EffectiveBatch(items, g) : g \in {h \in DOMAIN items : HeldPaused(items[h])}}

InPlayUnpausedOnly(items) == Least(UnpausedBatches(PendingOf(items)))
InPlay(items) ==
    LET pending == PendingOf(items)
    IN  IF UnpausedBatches(pending) # {} THEN Least(UnpausedBatches(pending))
        ELSE Least(HeldBatches(pending))

PlanReleasingAll(items) ==
    {[kind |-> "Release", gid |-> g] :
         g \in {h \in DOMAIN items : IsPending(items[h]) /\ HeldPaused(items[h])}}

PlanByOwnBatch(items) ==
    LET pending == PendingOf(items)
        later(g) == \E t \in InPlay(items) : items[g].batch > t
        own(g) == EffectiveBatch(pending, g) \in InPlay(items)
    IN  {[kind |-> "Hold", gid |-> g] :
             g \in {h \in DOMAIN pending : pending[h].status \in Unpaused /\ later(h)}}
        \cup
        {[kind |-> "Release", gid |-> g] :
             g \in {h \in DOMAIN pending : HeldPaused(pending[h]) /\ own(h)}}

PlanBatchPolicy(items) ==
    LET pending == PendingOf(items)
        later(g) == \E t \in InPlay(items) : EffectiveBatch(pending, g) > t
        own(g) == EffectiveBatch(pending, g) \in InPlay(items)
    IN  {[kind |-> "Hold", gid |-> g] :
             g \in {h \in DOMAIN pending : pending[h].status \in Unpaused /\ later(h)}}
        \cup
        {[kind |-> "Release", gid |-> g] :
             g \in {h \in DOMAIN pending : HeldPaused(pending[h]) /\ own(h)}}

(***************************************************************************)
(* plan_hold_batch: the user keeps a batch paused until told otherwise.    *)
(***************************************************************************)
PlanHoldUnpausedOnly(items, target) ==
    {[kind |-> "HoldByUser", gid |-> g] :
         g \in {h \in DOMAIN items : /\ EffectiveBatch(items, h) = target
                                     /\ items[h].status \in Unpaused}}

PlanHoldBatch(items, target) ==
    LET mine == {g \in DOMAIN items : EffectiveBatch(items, g) = target}
    IN  {[kind |-> "HoldByUser", gid |-> g] :
             g \in {h \in mine : items[h].status \in Unpaused}}
        \cup
        {[kind |-> "KeepPausedByUser", gid |-> g] : g \in {h \in mine : HeldPaused(items[h])}}

(***************************************************************************)
(* plan_start_batch: a batch gets the turn and the others are parked.      *)
(***************************************************************************)
PlanStartHeldOnly(items, target) ==
    LET own(g) == EffectiveBatch(items, g) = target
    IN  {[kind |-> "Release", gid |-> g] :
             g \in {h \in DOMAIN items : HeldPaused(items[h]) /\ own(h)}}
        \cup
        {[kind |-> "Hold", gid |-> g] :
             g \in {h \in DOMAIN items : items[h].status \in Unpaused /\ ~own(h)}}

PlanStartBatch(items, target) ==
    LET own(g) == EffectiveBatch(items, g) = target
    IN  {[kind |-> "Release", gid |-> g] :
             g \in {h \in DOMAIN items : items[h].status = "paused" /\ own(h)}}
        \cup
        {[kind |-> "Hold", gid |-> g] :
             g \in {h \in DOMAIN items : items[h].status \in Unpaused /\ ~own(h)}}

(***************************************************************************)
(* What becomes of a download when an action goes through, and of a whole  *)
(* listing when every action of a plan does.                               *)
(***************************************************************************)
CarriedUnpaused(item, kind) ==
    [item EXCEPT !.held = (kind = "Hold"),
                 !.status = IF kind = "Release" THEN "unpaused" ELSE "paused"]

Carried(item, kind) ==
    [item EXCEPT !.held = (kind = "Hold"),
                 !.status = IF kind = "Release" THEN "waiting" ELSE "paused"]

CarryOut(items, plan) ==
    [g \in DOMAIN items |->
        IF \E a \in plan : a.gid = g
        THEN Carried(items[g], (CHOOSE a \in plan : a.gid = g).kind)
        ELSE items[g]]
=============================================================================
