------------------------- MODULE BatchQueue_proofs -------------------------
(***************************************************************************)
(* Proofs about BatchQueue, for every set of downloads, torrents and       *)
(* clients and every number of requests.                                   *)
(***************************************************************************)
EXTENDS BatchQueue, TLAPS

USE PolicyAssumption, QueueAssumption

-----------------------------------------------------------------------------
(***************************************************************************)
(* Listings and plans.                                                     *)
(***************************************************************************)
LEMMA UnassignedType == Unassigned \in Target /\ NoEntry \in Entry
  BY DEF Unassigned, Target, NoEntry, Entry

(* Adding answered downloads to a listing gives a listing of both. *)
LEMMA ListedType ==
  ASSUME NEW items, IsListing(items), NEW S \in SUBSET Gid,
         \A g \in S : aria[g] \in Pending \cup Stopped
  PROVE  /\ IsListing(Listed(items, S))
         /\ DOMAIN Listed(items, S) = DOMAIN items \cup S
  <1>1. \A g \in S : ItemOf(g) \in Item
    BY UnassignedType DEF ItemOf, Item
  <1> QED
    BY <1>1 DEF Listed, IsListing

(* The empty listing is a listing. *)
LEMMA EmptyType == IsListing(EmptyListing) /\ DOMAIN EmptyListing = {}
  BY DEF IsListing, EmptyListing

(* The batch looked up for a download is a batch. *)
LEMMA BatchOfType ==
  ASSUME NEW q \in Queue, NEW items, NEW g \in Gid
  PROVE  BatchOf(q, items, g) \in Target
  <1>1. \A h : Recorded(q, h) \in Target
    BY UnassignedType DEF Recorded, Queue, Entry
  <1>2. q[g].batch \in Target
    BY DEF Queue, Entry
  <1> QED
    BY <1>1, <1>2, UnassignedType DEF BatchOf

(* Attaching the saved metadata keeps the listing and its downloads. *)
LEMMA AttachType ==
  ASSUME NEW q \in Queue, NEW items, IsListing(items)
  PROVE  /\ IsListing(AttachMetadata(q, items))
         /\ DOMAIN AttachMetadata(q, items) = DOMAIN items
  <1>1. \A g \in DOMAIN items : /\ items[g] \in Item
                                /\ q[g].held \in BOOLEAN
                                /\ BatchOf(q, items, g) \in Target
    BY BatchOfType DEF IsListing, Queue, Entry
  <1> QED
    BY <1>1 DEF AttachMetadata, IsListing, Item

(* The policy plans only holds and releases of downloads it was shown. *)
LEMMA PolicyPlanType ==
  ASSUME NEW items, IsListing(items)
  PROVE  /\ PlanBatchPolicy(items) \subseteq Action
         /\ \A a \in PlanBatchPolicy(items) :
               a.gid \in DOMAIN items /\ a.kind \in {"Hold", "Release"}
  <1>1. DOMAIN PendingOf(items) \subseteq DOMAIN items
    BY DEF PendingOf
  <1>2. \A a \in PlanBatchPolicy(items) :
            \E g \in DOMAIN items : \/ a = [kind |-> "Hold", gid |-> g]
                                    \/ a = [kind |-> "Release", gid |-> g]
    BY <1>1, Zenon DEF PlanBatchPolicy
  <1> QED
    BY <1>2 DEF IsListing, Action

(* The scheduler releases what it sees as held, and nothing else. *)
LEMMA ReleasesAreHeld ==
  ASSUME NEW L, NEW a \in PlanBatchPolicy(L), a.kind = "Release"
  PROVE  a.gid \in DOMAIN L /\ HeldPaused(L[a.gid])
  <1>1. PICK g \in DOMAIN PendingOf(L) :
            \/ a = [kind |-> "Hold", gid |-> g]
            \/ a = [kind |-> "Release", gid |-> g] /\ HeldPaused(PendingOf(L)[g])
    BY DEF PlanBatchPolicy
  <1>2. g \in DOMAIN L /\ PendingOf(L)[g] = L[g]
    BY DEF PendingOf
  <1> QED
    BY <1>1, <1>2

(* Holding a batch plans actions only. *)
LEMMA HoldPlanType ==
  ASSUME NEW items, IsListing(items), NEW t
  PROVE  PlanHoldBatch(items, t) \subseteq Action
  <1>1. \A a \in PlanHoldBatch(items, t) :
            \E g \in DOMAIN items : \/ a = [kind |-> "HoldByUser", gid |-> g]
                                    \/ a = [kind |-> "KeepPausedByUser", gid |-> g]
    BY Zenon DEF PlanHoldBatch
  <1> QED
    BY <1>1 DEF IsListing, Action

(* Starting a batch plans actions only. *)
LEMMA StartPlanType ==
  ASSUME NEW items, IsListing(items), NEW t
  PROVE  PlanStartBatch(items, t) \subseteq Action
  <1>1. \A a \in PlanStartBatch(items, t) :
            \E g \in DOMAIN items : \/ a = [kind |-> "Release", gid |-> g]
                                    \/ a = [kind |-> "Hold", gid |-> g]
    BY Zenon DEF PlanStartBatch
  <1> QED
    BY <1>1 DEF IsListing, Action

(* An item whose action was carried out is an item. *)
LEMMA CarriedType ==
  ASSUME NEW item \in Item, NEW kind
  PROVE  Carried(item, kind) \in Item
  BY DEF Carried, Item, Pending, Unpaused

(* The three writes to a saved entry keep the saved queue well typed. *)
LEMMA QueueUpdate ==
  ASSUME NEW q \in Queue, NEW g, NEW b \in Target, NEW h \in BOOLEAN
  PROVE  /\ [q EXCEPT ![g].batch = b] \in Queue
         /\ [q EXCEPT ![g].held = h] \in Queue
         /\ [q EXCEPT ![g] = NoEntry] \in Queue
  BY UnassignedType DEF Queue, Entry

(* Pauses that end leave the others standing. *)
LEMMA StandsType == ASSUME TypeOK, PausesStand PROVE stands' \subseteq Clients
  BY DEF TypeOK, PausesStand

-----------------------------------------------------------------------------
(***************************************************************************)
(* Type correctness.                                                       *)
(***************************************************************************)
LEMMA InitType == Init => TypeOK
  <1> SUFFICES ASSUME Init PROVE TypeOK
    OBVIOUS
  <1>1. aria \in [Gid -> AriaStatus] /\ session \in [Gid -> Saved] /\ queue \in Queue
    BY DEF Init, AriaStatus, Saved, Pending, Unpaused, Queue
  <1>2. Idle.view = EmptyListing /\ NoRequest.acts = {} /\ Unassigned \in Target
    BY UnassignedType DEF Idle, NoRequest
  <1> QED
    BY <1>1, <1>2, EmptyType
       DEF Init, TypeOK, Idle, NoRequest, Runtime, Request, RuntimePc, RequestPc, Ops

(* A request that ends leaves the requests well typed. *)
LEMMA RequestEnd ==
  ASSUME NEW r \in [Clients -> Request], NEW c
  PROVE  [r EXCEPT ![c] = NoRequest] \in [Clients -> Request]
  <1>1. NoRequest \in Request
    BY UnassignedType DEF NoRequest, Request, Ops, RequestPc
  <1> QED
    BY <1>1

(* So does one that moves to another step, *)
LEMMA RequestStep ==
  ASSUME NEW r \in [Clients -> Request], NEW c, NEW pc \in RequestPc
  PROVE  [r EXCEPT ![c].pc = pc] \in [Clients -> Request]
  <1>1. \A d \in Clients : [r[d] EXCEPT !.pc = pc] \in Request
    BY DEF Request
  <1> QED
    BY <1>1

(* one that gets its actions, *)
LEMMA RequestUpdate ==
  ASSUME NEW r \in [Clients -> Request], NEW c, NEW pc \in RequestPc,
         NEW acts \in SUBSET Action
  PROVE  /\ [r EXCEPT ![c].acts = acts, ![c].pc = pc] \in [Clients -> Request]
         /\ [r EXCEPT ![c].pc = pc, ![c].acts = acts] \in [Clients -> Request]
  <1>1. \A d \in Clients :
           /\ [r[d] EXCEPT !.acts = acts, !.pc = pc] \in Request
           /\ [r[d] EXCEPT !.pc = pc, !.acts = acts] \in Request
    BY DEF Request
  <1> QED
    BY <1>1

(* and one that gets the downloads it has left. *)
LEMMA RequestLeft ==
  ASSUME NEW r \in [Clients -> Request], NEW c, NEW pc \in RequestPc,
         NEW left \in SUBSET Gid
  PROVE  [r EXCEPT ![c].left = left, ![c].pc = pc] \in [Clients -> Request]
  <1>1. \A d \in Clients : [r[d] EXCEPT !.left = left, !.pc = pc] \in Request
    BY DEF Request
  <1> QED
    BY <1>1

(* What the three lists of a refresh add to its view is a listing. *)
LEMMA ViewType ==
  ASSUME TypeOK
  PROVE  /\ \A S \in SUBSET Pending : \A T \in SUBSET Gid :
               /\ IsListing(Listed(rt.view, WithStatus(T, S)))
               /\ IsListing(Listed(EmptyListing, WithStatus(T, S)))
         /\ \A S : \A T \in SUBSET Gid : WithStatus(T, S) \subseteq Gid
  <1>1. \A S : \A T \in SUBSET Gid : WithStatus(T, S) \subseteq Gid
    BY DEF WithStatus
  <1>2. ASSUME NEW S \in SUBSET Pending, NEW T \in SUBSET Gid
        PROVE  \A g \in WithStatus(T, S) : aria[g] \in Pending \cup Stopped
    BY DEF WithStatus
  <1> QED
    BY <1>1, <1>2, ListedType, EmptyType DEF TypeOK

(* Every step of a refresh keeps the types. *)
LEMMA RefreshType ==
  ASSUME TypeOK, NEW p \in Clients \cup {Ticker}
  PROVE  /\ TellActive(p) => TypeOK'
         /\ TellWaiting => TypeOK'
         /\ TellStopped => TypeOK'
         /\ MergeLists => TypeOK'
         /\ Plan => TypeOK'
         /\ \A a \in rt.todo : ApplyAccepted(a) \/ ApplyRefused(a) => TypeOK'
         /\ EndApply => TypeOK'
         /\ Publish => TypeOK'
  <1> USE DEF Runtime, RuntimePc
  <1>a. "refreshing" \in RequestPc /\ "refresh" \in RequestPc
    BY DEF RequestPc
  <1>q. req \in [Clients -> Request]
    BY DEF TypeOK
  <1>b. AriaGid \subseteq Gid /\ {"active"} \subseteq Pending
        /\ {"waiting", "paused"} \subseteq Pending
    BY DEF AriaGid, Pending, Unpaused
  <1>1. ASSUME TellActive(p) PROVE TypeOK'
    <2>1. IsListing(rt'.view)
      BY <1>1, <1>b, ViewType DEF TellActive, Idle
    <2>2. rt' \in Runtime(rt'.view)
      BY <1>1 DEF TellActive, Idle
    <2>3. req' \in [Clients -> Request]
      BY <1>1, <1>a, <1>q, RequestStep DEF TellActive
    <2>4. acked' \subseteq Gid
      BY <1>1 DEF TellActive, TypeOK
    <2> QED
      BY <1>1, <2>1, <2>2, <2>3, <2>4 DEF TellActive, TypeOK, ariaVars, storeVars, ghosts
  <1>2. ASSUME TellWaiting PROVE TypeOK'
    <2>1. IsListing(rt'.view)
      BY <1>2, <1>b, ViewType DEF TellWaiting, TypeOK
    <2>2. rt' \in Runtime(rt'.view)
      BY <1>2 DEF TellWaiting, TypeOK
    <2> QED
      BY <1>2, <2>1, <2>2 DEF TellWaiting, TypeOK, ariaVars, storeVars, ghosts
  <1>3. ASSUME TellStopped PROVE TypeOK'
    <2>1. rt'.view = rt.view /\ rt' \in Runtime(rt'.view)
      BY <1>3, <1>b, ViewType DEF TellStopped, TypeOK
    <2> QED
      BY <1>3, <2>1 DEF TellStopped, TypeOK, ariaVars, storeVars, ghosts
  <1>4. ASSUME MergeLists PROVE TypeOK'
    <2>1. IsListing(rt'.view)
      BY <1>4, ViewType, AttachType DEF MergeLists, TypeOK
    <2>2. history' \subseteq Gid
      BY <1>4, ViewType DEF MergeLists, TypeOK
    <2>3. rt' \in Runtime(rt'.view)
      BY <1>4, <2>2 DEF MergeLists, TypeOK
    <2> QED
      BY <1>4, <2>1, <2>2, <2>3 DEF MergeLists, TypeOK, ariaVars, storeVars, ghosts
  <1>5. ASSUME Plan PROVE TypeOK'
    <2>1. rt'.view = rt.view /\ rt' \in Runtime(rt'.view)
      BY <1>5, PolicyPlanType DEF Plan, TypeOK
    <2> QED
      BY <1>5, <2>1 DEF Plan, TypeOK, ariaVars, storeVars, ghosts
  <1>6. ASSUME NEW a \in rt.todo, ApplyAccepted(a) PROVE TypeOK'
    <2>1. IsListing(rt'.view)
      BY <1>6, CarriedType DEF ApplyAccepted, TypeOK, IsListing
    <2>2. rt' \in Runtime(rt'.view)
      BY <1>6 DEF ApplyAccepted, TypeOK
    <2>3. aria' \in [Gid -> AriaStatus]
      BY <1>6 DEF ApplyAccepted, TypeOK, Effect, Running, AriaStatus, Pending, Unpaused
    <2>4. queue' \in Queue
      BY <1>6, QueueUpdate, UnassignedType DEF ApplyAccepted, TypeOK
    <2>5. owned' \subseteq Gid /\ acked' \subseteq Gid
      BY <1>6 DEF ApplyAccepted, TypeOK, OwnedAfter, Action
    <2> QED
      BY <1>6, <2>1, <2>2, <2>3, <2>4, <2>5, StandsType DEF ApplyAccepted, TypeOK
  <1>7. ASSUME NEW a \in rt.todo, ApplyRefused(a) PROVE TypeOK'
    <2>1. rt'.view = rt.view /\ rt' \in Runtime(rt'.view)
      BY <1>7 DEF ApplyRefused, TypeOK
    <2> QED
      BY <1>7, <2>1 DEF ApplyRefused, TypeOK, ariaVars, storeVars, ghosts
  <1>8. ASSUME EndApply PROVE TypeOK'
    <2>1. rt' \in Runtime(rt'.view) /\ IsListing(rt'.view)
      <3>1. CASE rt.job = "refresh"
        BY <1>8, <3>1 DEF EndApply, TypeOK
      <3>2. CASE rt.job # "refresh"
        <4>1. rt' = Idle
          BY <1>8, <3>2 DEF EndApply
        <4> QED
          BY <4>1, EmptyType DEF Idle
      <3> QED
        BY <3>1, <3>2
    <2>2. req' \in [Clients -> Request]
      BY <1>8, <1>a, <1>q, RequestStep, RequestEnd DEF EndApply, Ended, Goto
    <2>3. disk' \in Queue
      BY <1>8 DEF EndApply, TypeOK
    <2> QED
      BY <1>8, <2>1, <2>2, <2>3 DEF EndApply, TypeOK, ariaVars, ghosts
  <1>9. ASSUME Publish PROVE TypeOK'
    <2>1. rt' \in Runtime(rt'.view) /\ IsListing(rt'.view)
      BY <1>9, EmptyType DEF Publish, TypeOK, Idle
    <2>2. queue' \in Queue
      BY <1>9, UnassignedType DEF Publish, TypeOK, Queue
    <2>3. req' \in [Clients -> Request]
      BY <1>9, <1>q, RequestEnd DEF Publish
    <2> QED
      BY <1>9, <2>1, <2>2, <2>3 DEF Publish, TypeOK, ariaVars, ghosts
  <1> QED
    BY <1>1, <1>2, <1>3, <1>4, <1>5, <1>6, <1>7, <1>8, <1>9

(* Sending a request keeps the types of the requests and their count. *)
LEMMA SendType ==
  ASSUME TypeOK, NEW c, NEW op \in Ops, NEW pc \in RequestPc,
         NEW g \in Gid \cup {NoGid}, NEW t \in Target, NEW torrents \in SUBSET Gid
  PROVE  /\ Send(c, op, pc, g, t)
                => req' \in [Clients -> Request] /\ issued' \in 0 .. MaxRequests
         /\ SendToAll(c, op, torrents)
                => req' \in [Clients -> Request] /\ issued' \in 0 .. MaxRequests
  <1>1. [op |-> op, pc |-> pc, gid |-> g, target |-> t, acts |-> {}, left |-> {}] \in Request
    BY DEF Request
  <1>2. [NoRequest EXCEPT !.op = op, !.left = torrents,
                          !.pc = IF torrents = {} THEN "save" ELSE "torrents"] \in Request
    BY UnassignedType DEF NoRequest, Request, RequestPc
  <1> QED
    <2>1. req \in [Clients -> Request] /\ issued \in 0 .. MaxRequests
      BY DEF TypeOK
    <2>2. issued < MaxRequests => issued + 1 \in 0 .. MaxRequests
      BY <2>1
    <2> QED
      BY <1>1, <1>2, <2>1, <2>2 DEF Send, SendToAll

(* A new request keeps the types, *)
LEMMA NewRequestType ==
  ASSUME TypeOK, NEW c \in Clients, NewRequest(c)
  PROVE  TypeOK'
  <1> USE DEF ariaVars, storeVars, ghosts
  <1>t. Unassigned \in Target /\ Ops = Ops /\ {} \in SUBSET Gid
    BY UnassignedType
  <1>s. \A g : /\ Running(g) \in AriaStatus
               /\ {"active", "paused", "removed", "gone"} \subseteq AriaStatus
    BY DEF Running, AriaStatus, Pending, Unpaused, Stopped
  <1>w. \A S : WithStatus(AriaGid, S) \subseteq Gid /\ WithStatus(Torrents, S) \subseteq Gid
    BY DEF WithStatus, AriaGid
  <1>o. \A op \in Ops : op = op
    OBVIOUS
  <1>1. ASSUME NEW g \in Gid, Pause(c, g) PROVE TypeOK'
    <2>1. req' \in [Clients -> Request] /\ issued' \in 0 .. MaxRequests
      BY <1>1, <1>t, SendType DEF Pause, Ops, RequestPc
    <2> QED
      BY <1>1, <2>1, <1>s DEF Pause, TypeOK
  <1>2. ASSUME NEW g \in Gid, Resume(c, g) PROVE TypeOK'
    <2>1. queue[g].batch \in Target
      BY DEF TypeOK, Queue, Entry
    <2>2. req' \in [Clients -> Request] /\ issued' \in 0 .. MaxRequests
      BY <1>2, <2>1, <1>t, SendType DEF Resume, Ops, RequestPc
    <2> QED
      BY <1>2, <2>2 DEF Resume, TypeOK
  <1>3. ASSUME NEW g \in Gid, AddPaused(c, g) PROVE TypeOK'
    <2>1. req' \in [Clients -> Request] /\ issued' \in 0 .. MaxRequests
      BY <1>3, <1>t, SendType DEF AddPaused, Ops, RequestPc
    <2> QED
      BY <1>3, <2>1, <1>s DEF AddPaused, TypeOK
  <1>4. ASSUME NEW g \in Gid, Cancel(c, g) PROVE TypeOK'
    <2>1. req' \in [Clients -> Request] /\ issued' \in 0 .. MaxRequests
      BY <1>4, <1>t, SendType DEF Cancel, Ops, RequestPc
    <2> QED
      BY <1>4, <2>1, <1>s DEF Cancel, TypeOK
  <1>5. ASSUME NEW g \in Gid, RemoveHistory(c, g) PROVE TypeOK'
    <2>1. req' \in [Clients -> Request] /\ issued' \in 0 .. MaxRequests
      BY <1>5, <1>t, SendType DEF RemoveHistory, Ops, RequestPc
    <2> QED
      BY <1>5, <2>1 DEF RemoveHistory, TypeOK
  <1>6. ASSUME NEW g \in Gid, NEW b \in Target, SetBatch(c, g, b) PROVE TypeOK'
    <2>1. req' \in [Clients -> Request] /\ issued' \in 0 .. MaxRequests
      BY <1>6, SendType DEF SetBatch, Ops, RequestPc
    <2>2. queue' \in Queue
      BY <1>6, QueueUpdate DEF SetBatch, TypeOK
    <2> QED
      BY <1>6, <2>1, <2>2 DEF SetBatch, TypeOK
  <1>7. ASSUME NEW g \in Gid, NEW b \in Target, Add(c, g, b) PROVE TypeOK'
    <2>1. req' \in [Clients -> Request] /\ issued' \in 0 .. MaxRequests
      BY <1>7, SendType DEF Add, Ops, RequestPc
    <2> QED
      BY <1>7, <2>1, <1>s DEF Add, TypeOK
  <1>8. ASSUME NEW t \in Target, HoldBatch(c, t) \/ StartBatch(c, t) PROVE TypeOK'
    <2>1. req' \in [Clients -> Request] /\ issued' \in 0 .. MaxRequests
      BY <1>8, SendType DEF HoldBatch, StartBatch, Ops, RequestPc
    <2> QED
      BY <1>8, <2>1 DEF HoldBatch, StartBatch, TypeOK
  <1>9. ASSUME PauseAll(c) PROVE TypeOK'
    <2>1. req' \in [Clients -> Request] /\ issued' \in 0 .. MaxRequests
      BY <1>9, <1>t, <1>w, SendType DEF PauseAll, Ops, RequestPc
    <2>2. aria' \in [Gid -> AriaStatus] /\ owned' \subseteq Gid
      BY <1>9, <1>s, <1>w DEF PauseAll, TypeOK
    <2> QED
      BY <1>9, <2>1, <2>2 DEF PauseAll, TypeOK
  <1>10. ASSUME ResumeAll(c) PROVE TypeOK'
    <2>1. req' \in [Clients -> Request] /\ issued' \in 0 .. MaxRequests
      BY <1>10, <1>t, <1>w, SendType DEF ResumeAll, Ops, RequestPc
    <2>2. aria' \in [Gid -> AriaStatus] /\ owned' \subseteq Gid /\ acked' \subseteq Gid
      BY <1>10 DEF ResumeAll, TypeOK, AriaStatus, Pending, Unpaused
    <2> QED
      BY <1>10, <2>1, <2>2, StandsType DEF ResumeAll, TypeOK
  <1>11. ASSUME PurgeHistory(c) PROVE TypeOK'
    <2>1. req' \in [Clients -> Request] /\ issued' \in 0 .. MaxRequests
      BY <1>11, <1>t, SendType DEF PurgeHistory, Ops, RequestPc
    <2> QED
      BY <1>11, <2>1 DEF PurgeHistory, TypeOK
  <1> QED
    BY <1>1, <1>2, <1>3, <1>4, <1>5, <1>6, <1>7, <1>8, <1>9, <1>10, <1>11 DEF NewRequest

(* a request under way does, *)
LEMMA ContinueType ==
  ASSUME TypeOK, NEW c \in Clients, Continue(c)
  PROVE  TypeOK'
  <1> USE DEF ariaVars, storeVars, ghosts
  <1>a. /\ {"refresh", "save", "forget", "clear", "queue", "applying"} \subseteq RequestPc
        /\ {} \in SUBSET Action /\ {} \in SUBSET Gid
    BY DEF RequestPc
  <1>s. \A g : {Running(g), "paused", "active", "gone"} \subseteq AriaStatus
    BY DEF Running, AriaStatus, Pending, Unpaused
  <1>q. req \in [Clients -> Request]
    BY DEF TypeOK
  <1>r. \A pc \in RequestPc : Goto(c, pc) => req' \in [Clients -> Request]
    BY <1>q, RequestStep DEF Goto
  <1>e. Ended(c) => req' \in [Clients -> Request]
    BY <1>q, RequestEnd DEF Ended
  <1>1. ASSUME Mark(c) PROVE TypeOK'
    <2>1. queue' \in Queue
      BY <1>1, QueueUpdate, UnassignedType DEF Mark, TypeOK
    <2>2. req' \in [Clients -> Request]
      BY <1>1, <1>a, <1>r DEF Mark
    <2>3. owned' \subseteq Gid
      BY <1>1 DEF Mark, TypeOK, WithStatus
    <2> QED
      BY <1>1, <2>1, <2>2, <2>3 DEF Mark, TypeOK
  <1>2. ASSUME Unpause(c) PROVE TypeOK'
    <2>1. req' \in [Clients -> Request]
      BY <1>2, <1>a, <1>r, <1>e DEF Unpause
    <2>2. aria' \in [Gid -> AriaStatus] /\ owned' \subseteq Gid /\ acked' \subseteq Gid
      BY <1>2, <1>s DEF Unpause, TypeOK
    <2> QED
      BY <1>2, <2>1, <2>2, StandsType DEF Unpause, TypeOK
  <1>3. ASSUME Save(c) PROVE TypeOK'
    <2>1. req' \in [Clients -> Request]
      BY <1>3, <1>a, <1>r DEF Save
    <2>2. session' \in [Gid -> Saved]
      BY <1>3 DEF Save, TypeOK, SaveSession, Saved
    <2> QED
      BY <1>3, <2>1, <2>2 DEF Save, TypeOK
  <1>4. ASSUME ClearHeld(c) PROVE TypeOK'
    <2>1. queue' \in Queue
      <3>1. queue \in Queue
        BY DEF TypeOK
      <3>2. ASSUME NEW g \in Gid PROVE [queue[g] EXCEPT !.held = FALSE] \in Entry
        BY <3>1 DEF Queue, Entry
      <3> QED
        BY <1>4, <3>2 DEF ClearHeld, Queue
    <2>2. req' \in [Clients -> Request]
      BY <1>4, <1>a, <1>r DEF ClearHeld
    <2> QED
      BY <1>4, <2>1, <2>2 DEF ClearHeld, TypeOK
  <1>5. ASSUME PlanRequest(c) PROVE TypeOK'
    <2>1. IsListing(snap)
      BY DEF TypeOK
    <2>2. PICK acts \in SUBSET Action :
              req' = [req EXCEPT ![c].acts = acts,
                                 ![c].pc = IF acts = {} THEN "refresh" ELSE "queue"]
      BY <1>5, <2>1, HoldPlanType, StartPlanType DEF PlanRequest
    <2>3. req' \in [Clients -> Request]
      BY <2>2, <1>a, RequestUpdate DEF TypeOK
    <2> QED
      BY <1>5, <2>3 DEF PlanRequest, TypeOK
  <1>6. ASSUME TakeRuntime(c) PROVE TypeOK'
    <2>1. req' \in [Clients -> Request]
      BY <1>6, <1>a, RequestUpdate DEF TakeRuntime, TypeOK
    <2>2. rt' \in Runtime(rt'.view) /\ IsListing(rt'.view)
      BY <1>6, EmptyType DEF TakeRuntime, TypeOK, Idle, Runtime, RuntimePc, Request
    <2> QED
      BY <1>6, <2>1, <2>2 DEF TakeRuntime, TypeOK
  <1>7. ASSUME Remember(c) PROVE TypeOK'
    <2>1. req[c].target \in Target
      BY DEF TypeOK, Request
    <2>2. queue' \in Queue
      BY <1>7, <2>1, QueueUpdate DEF Remember, TypeOK
    <2>3. req' \in [Clients -> Request]
      BY <1>7, <1>a, <1>r DEF Remember
    <2> QED
      BY <1>7, <2>2, <2>3 DEF Remember, TypeOK
  <1>8. ASSUME RemoveResult(c) PROVE TypeOK'
    <2>1. req' \in [Clients -> Request]
      BY <1>8, <1>a, <1>r DEF RemoveResult
    <2>2. aria' \in [Gid -> AriaStatus]
      BY <1>8, <1>s DEF RemoveResult, TypeOK
    <2> QED
      BY <1>8, <2>1, <2>2 DEF RemoveResult, TypeOK
  <1>9. ASSUME Forget(c) PROVE TypeOK'
    <2>1. req' \in [Clients -> Request]
      BY <1>9, <1>a, <1>r DEF Forget
    <2>2. queue' \in Queue
      BY <1>9, QueueUpdate, UnassignedType DEF Forget, TypeOK
    <2> QED
      BY <1>9, <2>1, <2>2 DEF Forget, TypeOK
  <1>10. ASSUME TellActive(c) PROVE TypeOK'
    <2>1. IsListing(rt'.view)
      <3>1. AriaGid \subseteq Gid /\ {"active"} \subseteq Pending
        BY DEF AriaGid, Pending, Unpaused
      <3> QED
        BY <1>10, <3>1, ViewType DEF TellActive, Idle
    <2>2. rt' \in Runtime(rt'.view)
      BY <1>10 DEF TellActive, Idle, Runtime, RuntimePc
    <2>3. req' \in [Clients -> Request]
      <3>1. "refreshing" \in RequestPc
        BY DEF RequestPc
      <3> QED
        BY <1>10, <3>1, <1>q, RequestStep DEF TellActive
    <2> QED
      BY <1>10, <2>1, <2>2, <2>3 DEF TellActive, TypeOK
  <1>11. ASSUME NEW t \in Torrents, NextTorrent(c, t) PROVE TypeOK'
    <2>1. req' \in [Clients -> Request]
      <3> DEFINE left == req[c].left \ {t}
                 pc == IF req[c].left = {t} THEN "save" ELSE req[c].pc
      <3>1. left \in SUBSET Gid /\ pc \in RequestPc
        BY <1>a DEF TypeOK, Request
      <3>2. Ended(c) \/ req' = [req EXCEPT ![c].left = left, ![c].pc = pc]
        BY <1>11, <1>q DEF NextTorrent, Request
      <3> HIDE DEF left, pc
      <3>3. [req EXCEPT ![c].left = left, ![c].pc = pc] \in [Clients -> Request]
        BY <1>q, <3>1, RequestLeft
      <3> QED
        BY <3>2, <3>3, <1>e
    <2>2. aria' \in [Gid -> AriaStatus] /\ owned' \subseteq Gid /\ acked' \subseteq Gid
      BY <1>11, <1>s DEF NextTorrent, TypeOK
    <2> QED
      BY <1>11, <2>1, <2>2, StandsType DEF NextTorrent, TypeOK
  <1>12. ASSUME PauseAdded(c) PROVE TypeOK'
    <2>1. req' \in [Clients -> Request]
      BY <1>12, <1>a, <1>r, <1>e DEF PauseAdded
    <2>2. aria' \in [Gid -> AriaStatus] /\ owned' \subseteq Gid
      BY <1>12, <1>s DEF PauseAdded, TypeOK
    <2> QED
      BY <1>12, <2>1, <2>2 DEF PauseAdded, TypeOK
  <1> QED
    BY <1>1, <1>2, <1>3, <1>4, <1>5, <1>6, <1>7, <1>8, <1>9, <1>10, <1>11, <1>12 DEF Continue

(* aria2 and the clock do, *)
LEMMA EnvironmentType ==
  ASSUME TypeOK, Environment
  PROVE  TypeOK'
  <1> USE DEF ariaVars, storeVars, ghosts
  <1>1. ASSUME NEW g \in Gid, Begin(g) PROVE TypeOK'
    BY <1>1 DEF Begin, TypeOK, AriaStatus, Pending, Unpaused
  <1>2. ASSUME NEW g \in Gid, Finish(g) PROVE TypeOK'
    <2>1. aria' \in [Gid -> AriaStatus]
      BY <1>2 DEF Finish, TypeOK, Running, AriaStatus, Pending, Unpaused, Stopped
    <2> QED
      BY <1>2, <2>1 DEF Finish, TypeOK
  <1> QED
    BY <1>1, <1>2 DEF Environment

(* the faults do, *)
LEMMA FaultType ==
  ASSUME TypeOK, Fault
  PROVE  TypeOK'
  <1> USE DEF ariaVars, storeVars, ghosts
  <1>r. Reloaded \in [Gid -> AriaStatus]
    BY DEF Reloaded, TypeOK, AriaStatus, Saved, Pending, Unpaused
  <1>q. req \in [Clients -> Request]
    BY DEF TypeOK
  <1>f. ASSUME NEW f \in {"timeouts", "ariaExits", "daemonExits"}
        PROVE  /\ [faults EXCEPT !.timeouts = @ + 1]
                     \in [timeouts : Nat, ariaExits : Nat, daemonExits : Nat]
               /\ [faults EXCEPT !.ariaExits = @ + 1]
                     \in [timeouts : Nat, ariaExits : Nat, daemonExits : Nat]
               /\ [faults EXCEPT !.daemonExits = @ + 1]
                     \in [timeouts : Nat, ariaExits : Nat, daemonExits : Nat]
    BY DEF TypeOK
  <1>i. Idle \in Runtime(Idle.view) /\ IsListing(Idle.view)
    BY EmptyType DEF Idle, Runtime, RuntimePc
  <1>1. ASSUME NEW a \in rt.todo, ReplyLost(a) PROVE TypeOK'
    <2>1. rt' \in Runtime(rt'.view) /\ IsListing(rt'.view)
      BY <1>1 DEF ReplyLost, TypeOK, Runtime, RuntimePc
    <2>2. aria' \in [Gid -> AriaStatus]
      BY <1>1 DEF ReplyLost, TypeOK, Effect, Running, AriaStatus, Pending, Unpaused
    <2>3. owned' \subseteq Gid /\ acked' \subseteq Gid
      BY <1>1 DEF ReplyLost, TypeOK
    <2> QED
      BY <1>1, <1>f, <2>1, <2>2, <2>3, StandsType DEF ReplyLost, TypeOK
  <1>2. ASSUME FetchFails PROVE TypeOK'
    <2>1. req' \in [Clients -> Request]
      BY <1>2, <1>q, RequestEnd DEF FetchFails
    <2>2. faults' \in [timeouts : Nat, ariaExits : Nat, daemonExits : Nat]
      BY <1>2, <1>f DEF FetchFails, TypeOK
    <2> QED
      BY <1>2, <1>i, <2>1, <2>2 DEF FetchFails, TypeOK
  <1>3. ASSUME Autosave PROVE TypeOK'
    <2>1. session' \in [Gid -> Saved]
      BY <1>3 DEF Autosave, SaveSession, Saved
    <2> QED
      BY <1>3, <2>1 DEF Autosave, TypeOK
  <1>4. ASSUME AriaExit PROVE TypeOK'
    BY <1>4, <1>f DEF AriaExit, TypeOK
  <1>5. ASSUME Respawn PROVE TypeOK'
    BY <1>5, <1>r, StandsType DEF Respawn, TypeOK
  <1>6. ASSUME DaemonExit PROVE TypeOK'
    <2>1. req' \in [Clients -> Request]
      BY <1>6, UnassignedType DEF DaemonExit, NoRequest, Request, Ops, RequestPc
    <2> QED
      BY <1>6, <1>f, <1>i, <1>r, <2>1, EmptyType DEF DaemonExit, TypeOK
  <1> QED
    BY <1>1, <1>2, <1>3, <1>4, <1>5, <1>6 DEF Fault

(* and every step without a fault does. *)
LEMMA CalmType ==
  ASSUME TypeOK, Calm
  PROVE  TypeOK'
  <1>1. CASE RefreshStep
    <2>1. Ticker \in Clients \cup {Ticker}
      OBVIOUS
    <2> QED
      BY <1>1, <2>1, RefreshType DEF RefreshStep
  <1> QED
    BY <1>1, ContinueType, NewRequestType, EnvironmentType DEF Calm

(***************************************************************************)
(* The state keeps its shape whatever requests, refreshes and faults do,   *)
(* for any number of downloads, clients, requests and faults.              *)
(***************************************************************************)
THEOREM TypeCorrect == Spec => []TypeOK
  <1>1. TypeOK /\ [Next]_vars => TypeOK'
    <2>1. TypeOK /\ UNCHANGED vars => TypeOK'
      BY DEF TypeOK, vars
    <2> QED
      BY <2>1, CalmType, FaultType DEF Next
  <1> QED
    BY <1>1, InitType, PTL DEF Spec

-----------------------------------------------------------------------------
(***************************************************************************)
(* Every pause has an owner.  Publishing a snapshot drops the entries it   *)
(* does not show, so the proof needs to know that a refresh has listed     *)
(* whatever the scheduler holds by the time it publishes; forgetting an    *)
(* entry needs to know that its download is over.                          *)
(***************************************************************************)
Over == Stopped \cup {"gone"}

UnknownNotHeld == \A g \in Gid : aria[g] = "none" => ~queue[g].held

HeldAreListed ==
    /\ rt.pc \in {"stopped", "merge", "plan", "publish"} \/ (rt.pc = "apply" /\ rt.job = "refresh")
          => \A g \in AriaGid : Paused(g) /\ queue[g].held => g \in DOMAIN rt.view
    /\ rt.pc \in {"plan", "publish"} \/ (rt.pc = "apply" /\ rt.job = "refresh")
          => \A g \in Torrents : aria[g] \in Pending /\ queue[g].held => g \in DOMAIN rt.view

PlansAreListed ==
    rt.pc = "apply" /\ rt.job = "refresh" => \A a \in rt.todo : a.gid \in DOMAIN rt.view

HistoryIsOver ==
    /\ \A g \in history : aria[g] \in Over
    /\ rt.pc = "merge" => \A g \in rt.stopped : aria[g] \in Over

ForgottenAreOver ==
    \A c \in Clients :
        /\ req[c].op \in {"Cancel", "RemoveHistory"}
              => req[c].gid \in Gid /\ aria[req[c].gid] \in Over
        /\ req[c].pc = "forget" => req[c].op \in {"Cancel", "RemoveHistory"}

OwnedInv ==
    /\ OwnedPauses /\ UnknownNotHeld /\ HeldAreListed /\ PlansAreListed
    /\ HistoryIsOver /\ ForgottenAreOver

(* Every start from a saved session and queue satisfies it. *)
LEMMA OwnedInit == Init => OwnedInv
  <1> SUFFICES ASSUME Init PROVE OwnedInv
    OBVIOUS
  <1>1. /\ rt.pc = "idle" /\ history = {}
        /\ \A c \in Clients : req[c].pc = "idle" /\ req[c].op = "none"
    BY DEF Init, Idle, NoRequest
  <1>2. OwnedPauses
    BY DEF Init, OwnedPauses, Paused
  <1>3. UnknownNotHeld
    <2> SUFFICES ASSUME NEW g \in Gid, aria[g] = "none" PROVE ~queue[g].held
      BY DEF UnknownNotHeld
    <2>1. session[g] = "absent"
      BY DEF Init, Saved
    <2> QED
      BY <2>1 DEF Init, NoEntry
  <1> QED
    BY <1>1, <1>2, <1>3
       DEF OwnedInv, HeldAreListed, PlansAreListed, HistoryIsOver, ForgottenAreOver

(* An action carried out writes its mark with its pause, so ownership is kept. *)
LEMMA OwnedApply ==
  ASSUME TypeOK, OwnedInv, NEW a \in rt.todo, ApplyAccepted(a)
  PROVE  OwnedInv'
  <1>1. /\ rt.pc = "apply" /\ rt'.pc = "apply" /\ rt'.job = rt.job
        /\ DOMAIN rt'.view = DOMAIN rt.view /\ rt'.todo \subseteq rt.todo
    BY DEF ApplyAccepted, TypeOK, Runtime
  <1>2. a.gid \in Gid /\ a.kind \in {"Hold", "HoldByUser", "KeepPausedByUser", "Release"}
    BY DEF TypeOK, Runtime, Action
  <1>3. rt.job = "refresh" => a.gid \in DOMAIN rt.view
    BY <1>1 DEF OwnedInv, PlansAreListed
  <1>4. \A g \in Gid : g # a.gid => aria'[g] = aria[g] /\ queue'[g] = queue[g]
    BY DEF ApplyAccepted, TypeOK, Queue
  <1>5. aria'[a.gid] = Effect(a) /\ (queue'[a.gid].held <=> a.kind = "Hold")
    BY <1>2 DEF ApplyAccepted, TypeOK, Queue, Entry
  <1>6. Effect(a) = "none" => a.kind # "Hold"
    BY DEF Effect
  <1>7. OwnedPauses'
    <2> SUFFICES ASSUME NEW g \in Gid, aria'[g] = "paused", ~queue'[g].held
                 PROVE  g \in owned'
      BY DEF OwnedPauses, Paused
    <2>1. owned' = OwnedAfter(a)
      BY DEF ApplyAccepted
    <2>2. CASE g = a.gid
      <3>1. a.kind # "Hold" /\ Effect(a) = "paused"
        BY <1>5, <2>2
      <3>2. a.kind # "Release"
        BY <3>1 DEF Effect, Running
      <3> QED
        BY <1>2, <2>1, <2>2, <3>1, <3>2 DEF OwnedAfter
    <2>3. CASE g # a.gid
      <3>1. g \in owned
        BY <1>4, <2>3 DEF OwnedInv, OwnedPauses, Paused
      <3> QED
        BY <2>1, <2>3, <3>1 DEF OwnedAfter
    <2> QED
      BY <2>2, <2>3
  <1>8. UnknownNotHeld'
    BY <1>4, <1>5, <1>6 DEF OwnedInv, UnknownNotHeld
  <1>9. HeldAreListed'
    <2>1. CASE rt.job = "refresh"
      BY <1>1, <1>3, <1>4, <2>1 DEF OwnedInv, HeldAreListed, Paused, AriaGid
    <2>2. CASE rt.job # "refresh"
      BY <1>1, <2>2 DEF HeldAreListed
    <2> QED
      BY <2>1, <2>2
  <1>10. PlansAreListed'
    BY <1>1 DEF OwnedInv, PlansAreListed
  <1>11. HistoryIsOver' /\ ForgottenAreOver'
    <2>1. aria[a.gid] \in Over => aria'[a.gid] = aria[a.gid]
      BY <1>2, <1>5 DEF ApplyAccepted, Accepted, Effect, Over, Stopped, Unpaused
    <2>2. history' = history /\ req' = req /\ history \subseteq Gid
      BY DEF ApplyAccepted, TypeOK
    <2> QED
      BY <1>1, <1>4, <2>1, <2>2 DEF OwnedInv, HistoryIsOver, ForgottenAreOver
  <1> QED
    BY <1>7, <1>8, <1>9, <1>10, <1>11 DEF OwnedInv

(* Every step of a refresh keeps ownership. *)
LEMMA OwnedRefresh ==
  ASSUME TypeOK, OwnedInv, NEW p \in Clients \cup {Ticker}
  PROVE  /\ TellActive(p) => OwnedInv'
         /\ TellWaiting => OwnedInv'
         /\ TellStopped => OwnedInv'
         /\ MergeLists => OwnedInv'
         /\ Plan => OwnedInv'
         /\ \A a \in rt.todo : ApplyAccepted(a) \/ ApplyRefused(a) => OwnedInv'
         /\ EndApply => OwnedInv'
         /\ Publish => OwnedInv'
  <1> USE DEF OwnedInv, OwnedPauses, UnknownNotHeld, HeldAreListed, PlansAreListed,
              HistoryIsOver, ForgottenAreOver, Paused, ariaVars, storeVars, ghosts
  <1>1. ASSUME TellActive(p) PROVE OwnedInv'
    <2>1. rt'.pc = "waiting"
      BY <1>1 DEF TellActive, Idle
    <2> QED
      BY <1>1, <2>1 DEF TellActive, TypeOK, Request
  <1>2. ASSUME TellWaiting PROVE OwnedInv'
    <2>1. rt'.pc = "stopped" /\ DOMAIN rt'.view
              = DOMAIN rt.view \cup WithStatus(AriaGid, {"waiting", "paused"})
      BY <1>2 DEF TellWaiting, TypeOK, Runtime, Listed
    <2> QED
      BY <1>2, <2>1 DEF TellWaiting, WithStatus
  <1>3. ASSUME TellStopped PROVE OwnedInv'
    <2>1. rt'.pc = "merge" /\ rt'.view = rt.view /\ rt'.stopped = WithStatus(AriaGid, Stopped)
      BY <1>3 DEF TellStopped, TypeOK, Runtime
    <2> QED
      BY <1>3, <2>1 DEF TellStopped, WithStatus, Over
  <1>4. ASSUME MergeLists PROVE OwnedInv'
    <2>1. /\ rt'.pc = "plan"
          /\ DOMAIN rt'.view = DOMAIN rt.view \cup WithStatus(Torrents, Pending)
      BY <1>4 DEF MergeLists, TypeOK, Runtime, Listed, AttachMetadata
    <2> QED
      BY <1>4, <2>1 DEF MergeLists, WithStatus, Over
  <1>5. ASSUME Plan PROVE OwnedInv'
    <2>1. /\ rt'.pc \in {"publish", "apply"} /\ rt'.view = rt.view
          /\ rt'.todo = PlanBatchPolicy(rt.view)
      BY <1>5 DEF Plan, TypeOK, Runtime
    <2>2. \A a \in rt'.todo : a.gid \in DOMAIN rt'.view
      BY <2>1, PolicyPlanType DEF TypeOK
    <2> QED
      BY <1>5, <2>1, <2>2 DEF Plan
  <1>6. ASSUME NEW a \in rt.todo, ApplyAccepted(a) PROVE OwnedInv'
    BY <1>6, OwnedApply DEF OwnedInv
  <1>7. ASSUME NEW a \in rt.todo, ApplyRefused(a) PROVE OwnedInv'
    <2>1. /\ rt'.pc = rt.pc /\ rt'.job = rt.job /\ rt'.view = rt.view
          /\ rt'.todo \subseteq rt.todo
      BY <1>7 DEF ApplyRefused, TypeOK, Runtime
    <2> QED
      BY <1>7, <2>1 DEF ApplyRefused
  <1>8. ASSUME EndApply PROVE OwnedInv'
    <2>1. CASE rt.job = "refresh"
      <3>1. rt'.pc = "publish" /\ rt'.view = rt.view /\ req' = req
        BY <1>8, <2>1 DEF EndApply, TypeOK, Runtime
      <3> QED
        BY <1>8, <2>1, <3>1 DEF EndApply
    <2>2. CASE rt.job # "refresh"
      <3>1. rt' = Idle /\ (Ended(rt.by) \/ Goto(rt.by, "refresh"))
        BY <1>8, <2>2 DEF EndApply
      <3>2. rt'.pc = "idle"
        BY <3>1 DEF Idle
      <3>3. \A c \in Clients :
               \/ req'[c].pc = "idle" /\ req'[c].op = "none"
               \/ /\ req'[c].op = req[c].op /\ req'[c].gid = req[c].gid
                  /\ req'[c].pc \in {req[c].pc, "refresh"}
        BY <3>1 DEF Ended, Goto, TypeOK, Request, NoRequest
      <3>4. ForgottenAreOver'
        BY <1>8, <3>3 DEF EndApply
      <3> QED
        BY <1>8, <3>2, <3>4 DEF EndApply
    <2> QED
      BY <2>1, <2>2
  <1>9. ASSUME Publish PROVE OwnedInv'
    <2>1. rt'.pc = "idle"
      BY <1>9 DEF Publish, Idle
    <2>2. \A g \in Gid : queue'[g] = queue[g] \/ (queue'[g] = NoEntry /\ g \notin DOMAIN rt.view)
      BY <1>9 DEF Publish, Shown
    <2>3. \A c \in Clients : req'[c] = req[c] \/ (req'[c].pc = "idle" /\ req'[c].op = "none")
      BY <1>9 DEF Publish, TypeOK, NoRequest
    <2>4. ~NoEntry.held
      BY DEF NoEntry
    <2>5. \A g \in Gid : Paused(g) /\ queue[g].held => queue'[g] = queue[g]
      BY <1>9, <2>2 DEF Publish, AriaGid, Pending
    <2>6. OwnedPauses'
      BY <1>9, <2>5 DEF Publish
    <2>7. UnknownNotHeld'
      BY <1>9, <2>2, <2>4 DEF Publish
    <2>8. HistoryIsOver' /\ ForgottenAreOver'
      BY <1>9, <2>1, <2>3 DEF Publish
    <2> QED
      BY <2>1, <2>6, <2>7, <2>8
  <1> QED
    BY <1>1, <1>2, <1>3, <1>4, <1>5, <1>6, <1>7, <1>8, <1>9

(***************************************************************************)
(* What a step of a client or of the engines has to show: it touches       *)
(* neither the refresh nor downloads that are over, marks nothing held,    *)
(* and leaves the downloads of aria2 alone while a refresh looks at them.  *)
(***************************************************************************)
LEMMA OwnedFrame ==
  ASSUME TypeOK, OwnedInv, rt' = rt, history' \subseteq history,
         \A g \in Gid : queue'[g].held => queue[g].held,
         \A g \in Gid : aria[g] \in Over => aria'[g] \in Over,
         \A g \in Gid : aria'[g] = "none" => aria[g] = "none",
         \A g \in AriaGid : aria'[g] = "paused" => aria[g] = "paused" \/ rt.pc = "idle",
         \A t \in Torrents : aria'[t] \in Pending => aria[t] \in Pending \cup {"none"}
  PROVE  UnknownNotHeld' /\ HeldAreListed' /\ PlansAreListed' /\ HistoryIsOver'
  <1>1. UnknownNotHeld'
    BY DEF OwnedInv, UnknownNotHeld
  <1>2. AriaGid \subseteq Gid
    BY DEF AriaGid
  <1>3. \A g \in Gid : aria[g] = "none" => ~queue'[g].held
    BY DEF OwnedInv, UnknownNotHeld
  <1>4. HeldAreListed'
    <2>1. ASSUME NEW g \in AriaGid, aria'[g] = "paused", queue'[g].held, rt.pc # "idle"
          PROVE  Paused(g) /\ queue[g].held
      BY <1>2, <2>1 DEF Paused
    <2>2. ASSUME NEW t \in Torrents, aria'[t] \in Pending, queue'[t].held
          PROVE  aria[t] \in Pending /\ queue[t].held
      BY <1>3, <2>2
    <2> QED
      BY <2>1, <2>2 DEF OwnedInv, HeldAreListed, Paused
  <1>5. PlansAreListed'
    BY DEF OwnedInv, PlansAreListed
  <1>6. HistoryIsOver'
    <2>1. history \subseteq Gid /\ rt.stopped \subseteq Gid
      BY DEF TypeOK, Runtime
    <2> QED
      BY <2>1 DEF OwnedInv, HistoryIsOver
  <1> QED
    BY <1>1, <1>4, <1>5, <1>6

(* A new request keeps ownership, *)
LEMMA OwnedNewRequest ==
  ASSUME TypeOK, OwnedInv, NEW c \in Clients, NewRequest(c)
  PROVE  OwnedInv'
  <1> USE DEF ariaVars, storeVars, ghosts
  <1>a. AriaGid \cap Torrents = {} /\ AriaGid \cup Torrents = Gid
    BY DEF AriaGid
  <1>b. \A g : Running(g) \in Unpaused /\ Unpaused \subseteq Pending /\ Pending \cap Over = {}
    BY DEF Running, Unpaused, Pending, Over, Stopped
  <1>c. {"removed", "gone"} \subseteq Over /\ "paused" \in Pending /\ "paused" \notin Unpaused
        /\ "none" \notin Pending \cup Over
    BY DEF Over, Stopped, Unpaused, Pending
  <1>t. /\ aria \in [Gid -> AriaStatus] /\ queue \in Queue /\ history \subseteq Gid
        /\ owned \subseteq Gid
    BY DEF TypeOK
  <1>p. \A g \in Gid : aria[g] = "paused" /\ ~queue[g].held => g \in owned
    BY DEF OwnedInv, OwnedPauses, Paused
  <1>s. ASSUME NEW op, NEW pc, NEW g, NEW t, Send(c, op, pc, g, t),
               \A h \in Gid : aria[h] \in Over => aria'[h] \in Over,
               op \in {"Cancel", "RemoveHistory"} => g \in Gid /\ aria'[g] \in Over,
               pc # "forget" \/ op \in {"Cancel", "RemoveHistory"}
        PROVE  ForgottenAreOver'
    <2>1. \A d \in Clients : \/ req'[d] = req[d]
                             \/ req'[d].pc = pc /\ req'[d].op = op /\ req'[d].gid = g
      BY <1>s DEF Send, TypeOK
    <2> QED
      BY <1>s, <2>1 DEF OwnedInv, ForgottenAreOver
  <1>1. ASSUME NEW g \in Gid, Pause(c, g) PROVE OwnedInv'
    <2>1. \A h \in Gid : aria'[h] = IF h = g THEN "paused" ELSE aria[h]
      BY <1>1, <1>t DEF Pause
    <2>2. UnknownNotHeld' /\ HeldAreListed' /\ PlansAreListed' /\ HistoryIsOver'
      BY <1>1, <2>1, <1>a, <1>b, <1>c, OwnedFrame DEF Pause, CanCall
    <2>3. ForgottenAreOver'
      BY <1>1, <2>1, <1>b, <1>c, <1>s DEF Pause
    <2>4. OwnedPauses'
      BY <1>1, <2>1, <1>p DEF Pause, OwnedPauses, Paused
    <2> QED
      BY <2>2, <2>3, <2>4 DEF OwnedInv
  <1>2. ASSUME NEW g \in Gid, Resume(c, g) PROVE OwnedInv'
    <2>2. UnknownNotHeld' /\ HeldAreListed' /\ PlansAreListed' /\ HistoryIsOver'
      BY <1>2, <1>c, OwnedFrame DEF Resume
    <2>3. ForgottenAreOver'
      BY <1>2, <1>s DEF Resume
    <2>4. OwnedPauses'
      BY <1>2, <1>p DEF Resume, OwnedPauses, Paused
    <2> QED
      BY <2>2, <2>3, <2>4 DEF OwnedInv
  <1>3. ASSUME NEW g \in Gid, AddPaused(c, g) PROVE OwnedInv'
    <2>1. \A h \in Gid : IF h = g THEN aria'[h] = IF g \in Torrents THEN "active" ELSE "paused"
                         ELSE aria'[h] = aria[h]
      BY <1>3, <1>t DEF AddPaused
    <2>2. UnknownNotHeld' /\ HeldAreListed' /\ PlansAreListed' /\ HistoryIsOver'
      BY <1>3, <2>1, <1>a, <1>b, <1>c, OwnedFrame DEF AddPaused, CanCall
    <2>3. ForgottenAreOver'
      BY <1>3, <2>1, <1>c, <1>s DEF AddPaused
    <2>4. OwnedPauses'
      BY <1>3, <2>1, <1>p DEF AddPaused, OwnedPauses, Paused
    <2> QED
      BY <2>2, <2>3, <2>4 DEF OwnedInv
  <1>4. ASSUME NEW g \in Gid, Cancel(c, g) PROVE OwnedInv'
    <2>1. \A h \in Gid : IF h = g THEN aria'[h] \in {"removed", "gone"} ELSE aria'[h] = aria[h]
      BY <1>4, <1>t DEF Cancel
    <2>2. UnknownNotHeld' /\ HeldAreListed' /\ PlansAreListed' /\ HistoryIsOver'
      BY <1>4, <2>1, <1>a, <1>b, <1>c, OwnedFrame DEF Cancel
    <2>3. ForgottenAreOver'
      BY <1>4, <2>1, <1>c, <1>s DEF Cancel
    <2>4. OwnedPauses'
      BY <1>4, <2>1, <1>p DEF Cancel, OwnedPauses, Paused
    <2> QED
      BY <2>2, <2>3, <2>4 DEF OwnedInv
  <1>5. ASSUME NEW g \in Gid, RemoveHistory(c, g) PROVE OwnedInv'
    <2>1. aria[g] \in Over
      BY <1>5 DEF RemoveHistory, OwnedInv, HistoryIsOver
    <2>2. UnknownNotHeld' /\ HeldAreListed' /\ PlansAreListed' /\ HistoryIsOver'
      BY <1>5, <1>c, OwnedFrame DEF RemoveHistory
    <2>3. ForgottenAreOver'
      BY <1>5, <2>1, <1>s DEF RemoveHistory
    <2>4. OwnedPauses'
      BY <1>5, <1>p DEF RemoveHistory, OwnedPauses, Paused
    <2> QED
      BY <2>2, <2>3, <2>4 DEF OwnedInv
  <1>6. ASSUME NEW g \in Gid, NEW b \in Target, SetBatch(c, g, b) PROVE OwnedInv'
    <2>1. \A h \in Gid : queue'[h].held = queue[h].held
      BY <1>6, <1>t DEF SetBatch, Queue, Entry
    <2>2. UnknownNotHeld' /\ HeldAreListed' /\ PlansAreListed' /\ HistoryIsOver'
      BY <1>6, <2>1, <1>c, OwnedFrame DEF SetBatch
    <2>3. ForgottenAreOver'
      BY <1>6, <1>s DEF SetBatch
    <2>4. OwnedPauses'
      BY <1>6, <2>1, <1>p DEF SetBatch, OwnedPauses, Paused
    <2> QED
      BY <2>2, <2>3, <2>4 DEF OwnedInv
  <1>7. ASSUME NEW g \in Gid, NEW b \in Target, Add(c, g, b) PROVE OwnedInv'
    <2>1. \A h \in Gid : aria'[h] = IF h = g THEN Running(g) ELSE aria[h]
      BY <1>7, <1>t DEF Add
    <2>2. UnknownNotHeld' /\ HeldAreListed' /\ PlansAreListed' /\ HistoryIsOver'
      BY <1>7, <2>1, <1>a, <1>b, <1>c, OwnedFrame DEF Add
    <2>3. ForgottenAreOver'
      BY <1>7, <2>1, <1>c, <1>s DEF Add
    <2>4. OwnedPauses'
      BY <1>7, <2>1, <1>b, <1>c, <1>p DEF Add, OwnedPauses, Paused
    <2> QED
      BY <2>2, <2>3, <2>4 DEF OwnedInv
  <1>8. ASSUME NEW t \in Target, HoldBatch(c, t) \/ StartBatch(c, t) PROVE OwnedInv'
    <2>2. UnknownNotHeld' /\ HeldAreListed' /\ PlansAreListed' /\ HistoryIsOver'
      BY <1>8, <1>c, OwnedFrame DEF HoldBatch, StartBatch
    <2>3. ForgottenAreOver'
      BY <1>8, <1>s DEF HoldBatch, StartBatch
    <2>4. OwnedPauses'
      BY <1>8, <1>p DEF HoldBatch, StartBatch, OwnedPauses, Paused
    <2> QED
      BY <2>2, <2>3, <2>4 DEF OwnedInv
  <1>n. ASSUME NEW op, NEW torrents, op \in {"PauseAll", "ResumeAll"}, SendToAll(c, op, torrents),
               \A h \in Gid : aria[h] \in Over => aria'[h] \in Over
        PROVE  ForgottenAreOver'
    <2>1. \A d \in Clients : \/ req'[d] = req[d]
                             \/ req'[d].pc # "forget" /\ req'[d].op = op
      BY <1>n DEF SendToAll, TypeOK, NoRequest
    <2> QED
      BY <1>n, <2>1 DEF OwnedInv, ForgottenAreOver
  <1>9. ASSUME PauseAll(c) PROVE OwnedInv'
    <2>1. \A h \in Gid : aria'[h] = IF h \in AriaGid /\ aria[h] \in Unpaused THEN "paused"
                                    ELSE aria[h]
      BY <1>9 DEF PauseAll, WithStatus
    <2>2. UnknownNotHeld' /\ HeldAreListed' /\ PlansAreListed' /\ HistoryIsOver'
      BY <1>9, <2>1, <1>a, <1>b, <1>c, OwnedFrame DEF PauseAll
    <2>3. ForgottenAreOver'
      BY <1>9, <2>1, <1>b, <1>c, <1>n DEF PauseAll
    <2>4. OwnedPauses'
      BY <1>9, <2>1, <1>p DEF PauseAll, OwnedPauses, Paused, WithStatus
    <2> QED
      BY <2>2, <2>3, <2>4 DEF OwnedInv
  <1>10. ASSUME ResumeAll(c) PROVE OwnedInv'
    <2>1. \A h \in Gid : aria'[h] = IF h \in AriaGid /\ aria[h] = "paused" THEN "waiting"
                                    ELSE aria[h]
      BY <1>10 DEF ResumeAll, WithStatus
    <2>2. UnknownNotHeld' /\ HeldAreListed' /\ PlansAreListed' /\ HistoryIsOver'
      BY <1>10, <2>1, <1>a, <1>b, <1>c, OwnedFrame DEF ResumeAll
    <2>3. ForgottenAreOver'
      BY <1>10, <2>1, <1>b, <1>c, <1>n DEF ResumeAll
    <2>4. OwnedPauses'
      BY <1>10, <2>1, <1>a, <1>p DEF ResumeAll, OwnedPauses, Paused
    <2> QED
      BY <2>2, <2>3, <2>4 DEF OwnedInv
  <1>11. ASSUME PurgeHistory(c) PROVE OwnedInv'
    <2>2. UnknownNotHeld' /\ HeldAreListed' /\ PlansAreListed' /\ HistoryIsOver'
      BY <1>11, <1>c, OwnedFrame DEF PurgeHistory
    <2>3. ForgottenAreOver'
      BY <1>11, <1>s DEF PurgeHistory
    <2>4. OwnedPauses'
      BY <1>11, <1>p DEF PurgeHistory, OwnedPauses, Paused
    <2> QED
      BY <2>2, <2>3, <2>4 DEF OwnedInv
  <1> QED
    BY <1>1, <1>2, <1>3, <1>4, <1>5, <1>6, <1>7, <1>8, <1>9, <1>10, <1>11 DEF NewRequest

(* a request under way does, *)
LEMMA OwnedContinue ==
  ASSUME TypeOK, OwnedInv, NEW c \in Clients, Continue(c)
  PROVE  OwnedInv'
  <1> USE DEF ariaVars, storeVars, ghosts
  <1>a. AriaGid \cap Torrents = {} /\ AriaGid \cup Torrents = Gid
    BY DEF AriaGid
  <1>b. \A g : Running(g) \in Unpaused /\ Unpaused \subseteq Pending /\ Pending \cap Over = {}
    BY DEF Running, Unpaused, Pending, Over, Stopped
  <1>c. {"removed", "gone"} \subseteq Over /\ "paused" \in Pending /\ "paused" \notin Unpaused
        /\ "none" \notin Pending \cup Over
    BY DEF Over, Stopped, Unpaused, Pending
  <1>t. /\ aria \in [Gid -> AriaStatus] /\ queue \in Queue /\ history \subseteq Gid
        /\ owned \subseteq Gid /\ req \in [Clients -> Request]
    BY DEF TypeOK
  <1>p. \A g \in Gid : aria[g] = "paused" /\ ~queue[g].held => g \in owned
    BY DEF OwnedInv, OwnedPauses, Paused
  <1>g. ASSUME \A h \in Gid : aria[h] \in Over => aria'[h] \in Over,
               NEW pc, pc = "forget" => req[c].op \in {"Cancel", "RemoveHistory"},
               Goto(c, pc) \/ Ended(c)
        PROVE  ForgottenAreOver'
    <2>1. \A d \in Clients :
             \/ req'[d].pc = "idle" /\ req'[d].op = "none"
             \/ /\ req'[d].op = req[d].op /\ req'[d].gid = req[d].gid
                /\ req'[d].pc = IF d = c THEN pc ELSE req[d].pc
      BY <1>g, <1>t DEF Goto, Ended, Request, NoRequest
    <2> QED
      BY <1>g, <2>1 DEF OwnedInv, ForgottenAreOver
  <1>1. ASSUME Mark(c) PROVE OwnedInv'
    <2>1. \A h \in Gid : queue'[h].held = IF h = req[c].gid THEN FALSE ELSE queue[h].held
      BY <1>1, <1>t DEF Mark, Queue, Entry
    <2>2. UnknownNotHeld' /\ HeldAreListed' /\ PlansAreListed' /\ HistoryIsOver'
      BY <1>1, <2>1, <1>c, OwnedFrame DEF Mark
    <2>3. ForgottenAreOver'
      BY <1>1, <1>g DEF Mark
    <2>4. OwnedPauses'
      BY <1>1, <2>1, <1>p DEF Mark, OwnedPauses, Paused, WithStatus
    <2> QED
      BY <2>2, <2>3, <2>4 DEF OwnedInv
  <1>2. ASSUME Unpause(c) PROVE OwnedInv'
    <2>1. \A h \in Gid : aria'[h] = aria[h] \/ (aria[h] = "paused" /\ aria'[h] = Running(h))
      BY <1>2, <1>t DEF Unpause
    <2>2. UnknownNotHeld' /\ HeldAreListed' /\ PlansAreListed' /\ HistoryIsOver'
      BY <1>2, <2>1, <1>a, <1>b, <1>c, OwnedFrame DEF Unpause
    <2>3. ForgottenAreOver'
      BY <1>2, <2>1, <1>b, <1>c, <1>g DEF Unpause
    <2>4. OwnedPauses'
      <3>1. \A h \in Gid : aria'[h] = "paused" /\ h \in owned => h \in owned'
        BY <1>2, <1>b, <1>c, <1>t DEF Unpause
      <3> QED
        BY <1>2, <2>1, <3>1, <1>b, <1>c, <1>p DEF Unpause, OwnedPauses, Paused
    <2> QED
      BY <2>2, <2>3, <2>4 DEF OwnedInv
  <1>3. ASSUME Save(c) PROVE OwnedInv'
    <2>2. UnknownNotHeld' /\ HeldAreListed' /\ PlansAreListed' /\ HistoryIsOver'
      BY <1>3, <1>c, OwnedFrame DEF Save
    <2>3. ForgottenAreOver'
      BY <1>3, <1>g DEF Save
    <2>4. OwnedPauses'
      BY <1>3, <1>p DEF Save, OwnedPauses, Paused
    <2> QED
      BY <2>2, <2>3, <2>4 DEF OwnedInv
  <1>4. ASSUME ClearHeld(c) PROVE OwnedInv'
    <2>1. \A h \in Gid : ~queue'[h].held
      BY <1>4, <1>t DEF ClearHeld, Queue, Entry
    <2>2. UnknownNotHeld' /\ HeldAreListed' /\ PlansAreListed' /\ HistoryIsOver'
      BY <1>4, <2>1, <1>c, OwnedFrame DEF ClearHeld
    <2>3. ForgottenAreOver'
      BY <1>4, <1>g DEF ClearHeld
    <2>4. OwnedPauses'
      BY <1>4, <1>p DEF ClearHeld, OwnedPauses, Paused
    <2> QED
      BY <2>2, <2>3, <2>4 DEF OwnedInv
  <1>h. ASSUME NEW acts, NEW pc, pc # "forget",
               \/ req' = [req EXCEPT ![c].acts = acts, ![c].pc = pc]
               \/ req' = [req EXCEPT ![c].pc = pc, ![c].acts = acts]
               \/ req' = [req EXCEPT ![c].pc = pc],
               \A h \in Gid : aria[h] \in Over => aria'[h] \in Over
        PROVE  ForgottenAreOver'
    <2>1. \A d \in Clients : /\ req'[d].op = req[d].op /\ req'[d].gid = req[d].gid
                             /\ req'[d].pc \in {pc, req[d].pc}
      BY <1>h, <1>t DEF Request
    <2>2. \A d \in Clients : req'[d].pc = "forget" => req[d].pc = "forget"
      BY <1>h, <2>1
    <2> QED
      BY <1>h, <2>1, <2>2 DEF OwnedInv, ForgottenAreOver
  <1>5. ASSUME PlanRequest(c) PROVE OwnedInv'
    <2>2. UnknownNotHeld' /\ HeldAreListed' /\ PlansAreListed' /\ HistoryIsOver'
      BY <1>5, <1>c, OwnedFrame DEF PlanRequest
    <2>3. ForgottenAreOver'
      BY <1>5, <1>h DEF PlanRequest
    <2>4. OwnedPauses'
      BY <1>5, <1>p DEF PlanRequest, OwnedPauses, Paused
    <2> QED
      BY <2>2, <2>3, <2>4 DEF OwnedInv
  <1>6. ASSUME TakeRuntime(c) PROVE OwnedInv'
    <2>1. rt'.pc = "apply" /\ rt'.job = "request"
      BY <1>6 DEF TakeRuntime, Idle
    <2>2. UnknownNotHeld' /\ HeldAreListed' /\ PlansAreListed' /\ HistoryIsOver'
      BY <1>6, <2>1 DEF TakeRuntime, OwnedInv, UnknownNotHeld, HeldAreListed,
                        PlansAreListed, HistoryIsOver
    <2>3. ForgottenAreOver'
      BY <1>6, <1>h DEF TakeRuntime
    <2>4. OwnedPauses'
      BY <1>6, <1>p DEF TakeRuntime, OwnedPauses, Paused
    <2> QED
      BY <2>2, <2>3, <2>4 DEF OwnedInv
  <1>7. ASSUME Remember(c) PROVE OwnedInv'
    <2>1. \A h \in Gid : queue'[h].held = queue[h].held
      BY <1>7, <1>t DEF Remember, Queue, Entry
    <2>2. UnknownNotHeld' /\ HeldAreListed' /\ PlansAreListed' /\ HistoryIsOver'
      BY <1>7, <2>1, <1>c, OwnedFrame DEF Remember
    <2>3. ForgottenAreOver'
      BY <1>7, <1>g DEF Remember
    <2>4. OwnedPauses'
      BY <1>7, <2>1, <1>p DEF Remember, OwnedPauses, Paused
    <2> QED
      BY <2>2, <2>3, <2>4 DEF OwnedInv
  <1>8. ASSUME RemoveResult(c) PROVE OwnedInv'
    <2>1. \A h \in Gid : \/ aria'[h] = aria[h]
                         \/ aria'[h] = "gone" /\ h \in AriaGid \cup {req[c].gid}
      BY <1>8 DEF RemoveResult
    <2>2. UnknownNotHeld' /\ HeldAreListed' /\ PlansAreListed' /\ HistoryIsOver'
      <3>1. "gone" \notin Pending \cup {"none"}
        BY <1>b, <1>c
      <3> QED
        BY <1>8, <2>1, <3>1, <1>a, <1>c, OwnedFrame DEF RemoveResult
    <2>3. ForgottenAreOver'
      BY <1>8, <2>1, <1>c, <1>g DEF RemoveResult
    <2>4. OwnedPauses'
      BY <1>8, <2>1, <1>p DEF RemoveResult, OwnedPauses, Paused
    <2> QED
      BY <2>2, <2>3, <2>4 DEF OwnedInv
  <1>9. ASSUME Forget(c) PROVE OwnedInv'
    <2>1. req[c].gid \in Gid /\ aria[req[c].gid] \in Over
      BY <1>9 DEF Forget, OwnedInv, ForgottenAreOver
    <2>2. \A h \in Gid : queue'[h] = IF h = req[c].gid THEN NoEntry ELSE queue[h]
      BY <1>9, <1>t DEF Forget, Queue
    <2>3. ~NoEntry.held
      BY DEF NoEntry
    <2>4. UnknownNotHeld' /\ HeldAreListed' /\ PlansAreListed' /\ HistoryIsOver'
      BY <1>9, <2>2, <2>3, <1>c, OwnedFrame DEF Forget
    <2>5. ForgottenAreOver'
      BY <1>9, <1>g DEF Forget
    <2>6. OwnedPauses'
      <3>1. aria[req[c].gid] # "paused"
        BY <2>1, <1>b, <1>c
      <3> QED
        BY <1>9, <2>1, <2>2, <3>1, <1>p DEF Forget, OwnedPauses, Paused
    <2> QED
      BY <2>4, <2>5, <2>6 DEF OwnedInv
  <1>10. ASSUME TellActive(c) PROVE OwnedInv'
    BY <1>10, OwnedRefresh
  <1>11. ASSUME NEW t \in Torrents, NextTorrent(c, t) PROVE OwnedInv'
    <2>1. \A h \in Gid : \/ aria'[h] = aria[h] /\ (h \in owned => h \in owned' \/ h = t)
                         \/ h = t /\ aria[t] \in Pending /\ aria'[t] \in {"paused", "active"}
      BY <1>11, <1>b, <1>c, <1>t DEF NextTorrent
    <2>2. UnknownNotHeld' /\ HeldAreListed' /\ PlansAreListed' /\ HistoryIsOver'
      BY <1>11, <2>1, <1>a, <1>b, <1>c, OwnedFrame DEF NextTorrent
    <2>3. ForgottenAreOver'
      <3>1. \A d \in Clients :
               \/ req'[d].pc = "idle" /\ req'[d].op = "none"
               \/ /\ req'[d].op = req[d].op /\ req'[d].gid = req[d].gid
                  /\ req'[d].pc \in {"save", req[d].pc}
        BY <1>11, <1>t DEF NextTorrent, Ended, Request, NoRequest
      <3> QED
        BY <1>11, <2>1, <3>1, <1>b DEF OwnedInv, ForgottenAreOver
    <2>4. OwnedPauses'
      <3>1. aria'[t] = "paused" => t \in owned' \/ (aria' = aria /\ owned' = owned)
        BY <1>11, <1>t DEF NextTorrent
      <3>2. \A h \in Gid : h # t /\ h \in owned => h \in owned'
        BY <1>11 DEF NextTorrent
      <3> QED
        BY <1>11, <2>1, <3>1, <3>2, <1>p DEF NextTorrent, OwnedPauses, Paused
    <2> QED
      BY <2>2, <2>3, <2>4 DEF OwnedInv
  <1>12. ASSUME PauseAdded(c) PROVE OwnedInv'
    <2>1. \A h \in Gid : \/ aria'[h] = aria[h]
                         \/ h \in Torrents /\ aria[h] \in Unpaused /\ aria'[h] = "paused"
      BY <1>12, <1>t DEF PauseAdded
    <2>2. UnknownNotHeld' /\ HeldAreListed' /\ PlansAreListed' /\ HistoryIsOver'
      BY <1>12, <2>1, <1>a, <1>b, <1>c, OwnedFrame DEF PauseAdded
    <2>3. ForgottenAreOver'
      BY <1>12, <2>1, <1>b, <1>c, <1>g DEF PauseAdded
    <2>4. OwnedPauses'
      BY <1>12, <1>p, <1>t DEF PauseAdded, OwnedPauses, Paused
    <2> QED
      BY <2>2, <2>3, <2>4 DEF OwnedInv
  <1> QED
    BY <1>1, <1>2, <1>3, <1>4, <1>5, <1>6, <1>7, <1>8, <1>9, <1>10, <1>11, <1>12 DEF Continue

(* and so do aria2 and the clock. *)
LEMMA OwnedEnvironment ==
  ASSUME TypeOK, OwnedInv, Environment
  PROVE  OwnedInv'
  <1> USE DEF ariaVars, storeVars, ghosts
  <1>b. \A g : Running(g) \in Unpaused /\ Unpaused \subseteq Pending /\ Pending \cap Over = {}
    BY DEF Running, Unpaused, Pending, Over, Stopped
  <1>c. {"complete", "error"} \subseteq Over /\ "paused" \notin Unpaused
        /\ {"active", "waiting"} = Unpaused /\ "none" \notin Pending \cup Over
        /\ AriaGid \subseteq Gid
    BY DEF Over, Stopped, Unpaused, Pending, AriaGid
  <1>p. \A g \in Gid : aria[g] = "paused" /\ ~queue[g].held => g \in owned
    BY DEF OwnedInv, OwnedPauses, Paused
  <1>1. ASSUME NEW g \in Gid, Begin(g) \/ Finish(g)
        PROVE  /\ UNCHANGED <<rt, req, queue, history, owned>>
               /\ \A h \in Gid : \/ aria'[h] = aria[h]
                                 \/ aria[h] \in Unpaused /\ aria'[h] \in {"active", "complete", "error"}
                                 \/ aria[h] = "none" /\ aria'[h] \in Unpaused
    BY <1>1, <1>b, <1>c DEF Begin, Finish, TypeOK
  <1>2. PICK g \in Gid : Begin(g) \/ Finish(g)
    BY DEF Environment
  <1>3. /\ UNCHANGED <<rt, req, queue, history, owned>>
        /\ \A h \in Gid : \/ aria'[h] = aria[h]
                          \/ aria[h] \in Unpaused /\ aria'[h] \in {"active", "complete", "error"}
                          \/ aria[h] = "none" /\ aria'[h] \in Unpaused
    BY <1>1, <1>2
  <1>4. \A h \in Gid : /\ aria[h] \in Over => aria'[h] \in Over
                       /\ aria'[h] = "none" => aria[h] = "none"
                       /\ aria'[h] = "paused" => aria[h] = "paused"
                       /\ aria'[h] \in Pending => aria[h] \in Pending \cup {"none"}
    BY <1>3, <1>b, <1>c
  <1>5. UnknownNotHeld' /\ HeldAreListed' /\ PlansAreListed' /\ HistoryIsOver'
    BY <1>3, <1>4, <1>c, OwnedFrame
  <1>6. ForgottenAreOver'
    BY <1>3, <1>4 DEF OwnedInv, ForgottenAreOver
  <1>7. OwnedPauses'
    BY <1>3, <1>4, <1>p DEF OwnedPauses, Paused
  <1> QED
    BY <1>5, <1>6, <1>7 DEF OwnedInv

(***************************************************************************)
(* Without faults no interleaving of refreshes and requests leaves a pause *)
(* that neither the scheduler nor the user will end, however many          *)
(* downloads, torrents, clients and requests there are.                    *)
(***************************************************************************)
THEOREM PausesAreOwned == CalmSpec => []OwnedPauses
  <1>1. Init => TypeOK /\ OwnedInv
    BY InitType, OwnedInit
  <1>2. TypeOK /\ OwnedInv /\ [Calm]_vars => (TypeOK /\ OwnedInv)'
    <2>1. CASE UNCHANGED vars
      BY <2>1 DEF vars, TypeOK, OwnedInv, OwnedPauses, UnknownNotHeld, HeldAreListed,
                  PlansAreListed, HistoryIsOver, ForgottenAreOver, Paused
    <2>2. ASSUME TypeOK, OwnedInv, RefreshStep PROVE OwnedInv'
      <3>1. Ticker \in Clients \cup {Ticker}
        OBVIOUS
      <3> QED
        BY <2>2, <3>1, OwnedRefresh DEF RefreshStep
    <2>3. ASSUME TypeOK, OwnedInv, Calm PROVE OwnedInv'
      BY <2>2, <2>3, OwnedContinue, OwnedNewRequest, OwnedEnvironment DEF Calm
    <2> QED
      BY <2>1, <2>3, CalmType
  <1>3. OwnedInv => OwnedPauses
    BY DEF OwnedInv
  <1> QED
    BY <1>1, <1>2, <1>3, PTL DEF CalmSpec

-----------------------------------------------------------------------------
(***************************************************************************)
(* The bookkeeping on disk.  The strengthening says when a plan that is    *)
(* being applied has changed something.                                    *)
(***************************************************************************)
SavedInv == disk = queue \/ (rt.pc = "apply" /\ rt.applied)

(* Every step keeps what is saved in agreement with what is in memory. *)
LEMMA SavedStep ==
  ASSUME TypeOK, SavedInv, Next
  PROVE  SavedInv'
  <1> USE DEF SavedInv, QueueFree, ariaVars, storeVars, ghosts
  <1>t. queue \in Queue
    BY DEF TypeOK
  <1>1. ASSUME NEW a \in rt.todo, ApplyAccepted(a) PROVE SavedInv'
    BY <1>1 DEF ApplyAccepted, TypeOK, Runtime
  <1>2. ASSUME NEW a \in rt.todo, ApplyRefused(a) \/ ReplyLost(a) PROVE SavedInv'
    BY <1>2 DEF ApplyRefused, ReplyLost, TypeOK, Runtime
  <1>3. ASSUME EndApply PROVE SavedInv'
    BY <1>3 DEF EndApply
  <1>4. ASSUME Plan PROVE SavedInv'
    BY <1>4 DEF Plan
  <1>5. ASSUME TellWaiting \/ TellStopped \/ MergeLists \/ \E p : TellActive(p) PROVE SavedInv'
    BY <1>5 DEF TellWaiting, TellStopped, MergeLists, TellActive
  <1>6. ASSUME Publish PROVE SavedInv'
    BY <1>6 DEF Publish
  <1>7. ASSUME NEW c \in Clients, Continue(c) PROVE SavedInv'
    <2>1. ASSUME Mark(c) PROVE SavedInv'
      <3>1. ~queue[req[c].gid].held /\ req[c].gid \in Gid => queue' = queue
        <4>1. \A e \in Entry : ~e.held => [e EXCEPT !.held = FALSE] = e
          BY DEF Entry
        <4> QED
          BY <2>1, <1>t, <4>1 DEF Mark, Queue
      <3>2. req[c].gid \notin Gid => queue' = queue
        BY <2>1, <1>t DEF Mark, Queue
      <3> QED
        BY <2>1, <3>1, <3>2 DEF Mark
    <2>2. ASSUME TakeRuntime(c) PROVE SavedInv'
      BY <2>2 DEF TakeRuntime
    <2>3. ASSUME ClearHeld(c) \/ Forget(c) \/ Remember(c) PROVE SavedInv'
      BY <2>3 DEF ClearHeld, Forget, Remember
    <2>4. ASSUME \/ Unpause(c) \/ Save(c) \/ PlanRequest(c) \/ RemoveResult(c)
                 \/ PauseAdded(c) \/ \E t \in Torrents : NextTorrent(c, t)
          PROVE  SavedInv'
      BY <2>4 DEF Unpause, Save, PlanRequest, RemoveResult, PauseAdded, NextTorrent
    <2> QED
      BY <1>5, <1>7, <2>1, <2>2, <2>3, <2>4 DEF Continue
  <1>8. ASSUME NEW c \in Clients, NewRequest(c) PROVE SavedInv'
    <2>1. ASSUME NEW g \in Gid, NEW b \in Target, SetBatch(c, g, b) PROVE SavedInv'
      BY <2>1 DEF SetBatch
    <2>2. ASSUME NEW g \in Gid, \/ Pause(c, g) \/ Resume(c, g) \/ AddPaused(c, g)
                                \/ Cancel(c, g) \/ RemoveHistory(c, g)
                                \/ \E b \in Target : Add(c, g, b)
          PROVE  SavedInv'
      BY <2>2 DEF Pause, Resume, AddPaused, Cancel, RemoveHistory, Add
    <2>3. ASSUME \/ \E t \in Target : HoldBatch(c, t) \/ StartBatch(c, t)
                 \/ PauseAll(c) \/ ResumeAll(c) \/ PurgeHistory(c)
          PROVE  SavedInv'
      BY <2>3 DEF HoldBatch, StartBatch, PauseAll, ResumeAll, PurgeHistory
    <2> QED
      BY <1>8, <2>1, <2>2, <2>3 DEF NewRequest
  <1>9. ASSUME Environment PROVE SavedInv'
    BY <1>9 DEF Environment, Begin, Finish
  <1>10. ASSUME FetchFails \/ Autosave \/ AriaExit \/ Respawn \/ DaemonExit PROVE SavedInv'
    BY <1>10 DEF FetchFails, Autosave, AriaExit, Respawn, DaemonExit
  <1> QED
    BY <1>1, <1>2, <1>3, <1>4, <1>5, <1>6, <1>7, <1>8, <1>9, <1>10
       DEF Next, Calm, Fault, RefreshStep

(***************************************************************************)
(* Outside of a plan that is being applied, queue-state.json says what the *)
(* daemon believes, through lost replies and restarts: an exit there       *)
(* forgets no batch and no hold.                                           *)
(***************************************************************************)
THEOREM BookkeepingIsSaved == Spec => []SavedUnlessApplying
  <1>1. Init => SavedInv
    BY DEF Init, SavedInv
  <1>2. TypeOK /\ SavedInv /\ [Next]_vars => SavedInv'
    <2>1. SavedInv /\ UNCHANGED vars => SavedInv'
      BY DEF SavedInv, vars
    <2> QED
      BY <2>1, SavedStep
  <1>3. SavedInv => SavedUnlessApplying
    BY DEF SavedInv, SavedUnlessApplying, QueueFree
  <1> QED
    BY <1>1, <1>2, <1>3, TypeCorrect, PTL DEF Spec

-----------------------------------------------------------------------------
(***************************************************************************)
(* Pauses of the user through restarts.  A download whose pause is kept is *)
(* not held, in memory or on disk, so no plan made from now on releases    *)
(* it; the pauses an answer promises are in the saved session too, and the *)
(* refresh in progress does not plan to end them.                          *)
(***************************************************************************)
Quiet == {"paused", "removed", "gone"}
Kept(g) == aria[g] \in Quiet /\ ~queue[g].held /\ ~disk[g].held

RequestsFit ==
    \A c \in Clients :
        /\ req[c].pc = "mark" => req[c].op = "Pause" /\ req[c].gid \in Gid
        /\ rt.pc # "idle" /\ rt.by = c => req[c].pc \in {"refreshing", "applying"}

StandsFit ==
    \A c \in stands :
        /\ req[c].op = "Pause" /\ req[c].pc \in {"save", "refresh"} /\ req[c].gid \in Gid
        /\ Kept(req[c].gid)

SavedPaused(g) == g \notin Torrents => session[g] \in {"paused", "absent"}
NotPlanned(g) ==
    /\ rt.pc = "plan" /\ g \in DOMAIN rt.view => ~rt.view[g].held
    /\ rt.pc = "apply" /\ rt.job = "refresh" => \A a \in rt.todo : a.gid = g => a.kind # "Release"
AckedFit == \A g \in acked : Kept(g) /\ SavedPaused(g) /\ NotPlanned(g)

AckedInv == SavedInv /\ RequestsFit /\ StandsFit /\ AckedFit

(* No pause is acknowledged at first. *)
LEMMA AckedInit == Init => AckedInv
  <1> SUFFICES ASSUME Init PROVE AckedInv
    OBVIOUS
  <1>1. SavedInv /\ RequestsFit /\ StandsFit
    BY DEF Init, SavedInv, RequestsFit, StandsFit, Idle, NoRequest
  <1>2. AckedFit
    <2> SUFFICES ASSUME NEW g \in acked PROVE Kept(g) /\ SavedPaused(g) /\ NotPlanned(g)
      BY DEF AckedFit
    <2>1. g \in Gid /\ aria[g] = "paused" /\ ~queue[g].held /\ disk = queue
      BY DEF Init
    <2>2. session[g] = "paused"
      BY <2>1 DEF Init
    <2> QED
      BY <2>1, <2>2 DEF Init, Idle, Kept, Quiet, SavedPaused, NotPlanned
  <1> QED
    BY <1>1, <1>2 DEF AckedInv

(* Steps that change no download, entry, saved session or pause. *)
NoChange == UNCHANGED <<aria, session, queue, disk>>

(* The steps that change neither a download nor the saved queue. *)
LEMMA NoChangeSteps ==
  ASSUME \/ \E p \in Clients \cup {Ticker} : TellActive(p)
         \/ TellWaiting \/ TellStopped \/ MergeLists \/ Plan
         \/ \E a \in rt.todo : ApplyRefused(a)
         \/ \E c \in Clients : \/ PlanRequest(c) \/ TakeRuntime(c) \/ PurgeHistory(c)
                               \/ \E g \in Gid : Resume(c, g) \/ RemoveHistory(c, g)
                               \/ \E t \in Target : HoldBatch(c, t) \/ StartBatch(c, t)
         \/ FetchFails \/ AriaExit
  PROVE  NoChange
  BY DEF NoChange, TellActive, TellWaiting, TellStopped, MergeLists, Plan, ApplyRefused,
     PlanRequest, TakeRuntime, PurgeHistory, Resume, RemoveHistory, HoldBatch, StartBatch,
     FetchFails, AriaExit, ariaVars, storeVars, ghosts

(***************************************************************************)
(* A download that is not running is held by nobody's step: Hold is        *)
(* accepted only for one that runs.                                        *)
(***************************************************************************)
LEMMA HeldStep ==
  ASSUME TypeOK, Next, NEW g \in Gid, Kept(g)
  PROVE  ~queue'[g].held /\ ~disk'[g].held
  <1> USE DEF ariaVars, storeVars, ghosts
  <1>t. queue \in [Gid -> Entry] /\ disk \in [Gid -> Entry]
    BY DEF TypeOK, Queue
  <1>k. ~queue[g].held /\ ~disk[g].held /\ aria[g] \notin Unpaused
    BY DEF Kept, Quiet, Unpaused
  <1>n. ~NoEntry.held
    BY DEF NoEntry
  <1>1. ASSUME NEW a \in rt.todo, ApplyAccepted(a) PROVE ~queue'[g].held /\ ~disk'[g].held
    <2>1. a.gid = g => a.kind # "Hold"
      BY <1>1, <1>k DEF ApplyAccepted, Accepted
    <2>2. queue' = [queue EXCEPT ![a.gid] = [queue[a.gid] EXCEPT !.held = (a.kind = "Hold")]]
      BY <1>1, <1>t DEF ApplyAccepted
    <2>3. CASE a.gid = g
      <3>1. queue'[g] = [queue[g] EXCEPT !.held = (a.kind = "Hold")]
        BY <1>t, <2>2, <2>3
      <3>2. queue'[g].held <=> (a.kind = "Hold")
        BY <1>t, <3>1 DEF Entry
      <3> QED
        BY <1>1, <1>k, <2>1, <2>3, <3>2 DEF ApplyAccepted
    <2>4. CASE a.gid # g
      BY <1>1, <1>t, <1>k, <2>2, <2>4 DEF ApplyAccepted
    <2> QED
      BY <2>3, <2>4
  <1>2. ASSUME EndApply PROVE ~queue'[g].held /\ ~disk'[g].held
    BY <1>2, <1>k DEF EndApply
  <1>3. ASSUME Publish PROVE ~queue'[g].held /\ ~disk'[g].held
    BY <1>3, <1>k, <1>n DEF Publish
  <1>4. ASSUME NEW c \in Clients, Mark(c) PROVE ~queue'[g].held /\ ~disk'[g].held
    BY <1>4, <1>t, <1>k DEF Mark
  <1>5. ASSUME NEW c \in Clients, ClearHeld(c) PROVE ~queue'[g].held /\ ~disk'[g].held
    <2>1. ~queue'[g].held
      BY <1>5, <1>t DEF ClearHeld, Entry
    <2> QED
      BY <1>5, <1>k, <2>1 DEF ClearHeld
  <1>6. ASSUME NEW c \in Clients, Remember(c) PROVE ~queue'[g].held /\ ~disk'[g].held
    BY <1>6, <1>t, <1>k DEF Remember, Entry
  <1>7. ASSUME NEW c \in Clients, Forget(c) PROVE ~queue'[g].held /\ ~disk'[g].held
    BY <1>7, <1>t, <1>k, <1>n DEF Forget
  <1>8. ASSUME NEW c \in Clients, NEW h \in Gid, NEW b \in Target, SetBatch(c, h, b)
        PROVE  ~queue'[g].held /\ ~disk'[g].held
    BY <1>8, <1>t, <1>k DEF SetBatch, Entry
  <1>9. ASSUME DaemonExit PROVE ~queue'[g].held /\ ~disk'[g].held
    BY <1>9, <1>k DEF DaemonExit
  <1>10. ASSUME NEW c \in Clients,
                \/ Unpause(c) \/ Save(c) \/ PauseAdded(c) \/ RemoveResult(c)
                \/ \E t \in Torrents : NextTorrent(c, t)
                \/ PauseAll(c) \/ ResumeAll(c)
                \/ \E h \in Gid : \/ Pause(c, h) \/ AddPaused(c, h) \/ Cancel(c, h)
                                  \/ \E b \in Target : Add(c, h, b)
         PROVE  UNCHANGED <<queue, disk>>
    BY <1>10 DEF Unpause, Save, PauseAdded, RemoveResult, NextTorrent, PauseAll, ResumeAll, Pause,
       AddPaused, Cancel, Add
  <1>11. ASSUME Environment \/ Autosave \/ Respawn \/ \E a \in rt.todo : ReplyLost(a)
         PROVE  UNCHANGED <<queue, disk>>
    BY <1>11 DEF Environment, Begin, Finish, Autosave, Respawn, ReplyLost
  <1>12. NoChange \/ UNCHANGED <<queue, disk>> => ~queue'[g].held /\ ~disk'[g].held
    BY <1>k DEF NoChange
  <1> QED
    BY <1>1, <1>2, <1>3, <1>4, <1>5, <1>6, <1>7, <1>8, <1>9, <1>10, <1>11, <1>12, NoChangeSteps
       DEF Next, Calm, Fault, RefreshStep, Continue, NewRequest

(***************************************************************************)
(* What starts a download that is paused or over: the user, who takes back *)
(* what was promised; a release the refresh in progress has planned; or a  *)
(* restart with a saved session in which it was not paused.                *)
(***************************************************************************)
Starts(g) ==
    \/ PausesStand /\ g \notin acked'
    \/ /\ PausesStand /\ rt.pc = "apply" /\ rt.job = "refresh"
       /\ \E a \in rt.todo : a.gid = g /\ a.kind = "Release"
    \/ /\ PausesStand \/ stands' = {}
       /\ ~SavedPaused(g)

(* A download that does not run starts only by a step no standing pause forbids. *)
LEMMA QuietStep ==
  ASSUME TypeOK, Next, NEW g \in Gid, aria[g] \in Quiet
  PROVE  aria'[g] \in Quiet \/ (aria'[g] \in Unpaused /\ Starts(g))
  <1> USE DEF ariaVars, storeVars, ghosts
  <1> DEFINE Goal == aria'[g] \in Quiet \/ (aria'[g] \in Unpaused /\ Starts(g))
  <1>t. aria \in [Gid -> AriaStatus] /\ session \in [Gid -> Saved] /\ Torrents \subseteq Gid
    BY QueueAssumption DEF TypeOK
  <1>k. aria[g] \notin Unpaused /\ aria[g] \notin {"none", "complete", "error"}
    BY DEF Quiet, Unpaused
  <1>r. \A h : Running(h) \in Unpaused
    BY DEF Running, Unpaused
  <1>u. aria'[g] = aria[g] => Goal
    OBVIOUS
  <1>e. rt.pc = "apply" /\ rt.job # "request" => rt.job = "refresh"
    BY DEF TypeOK, Runtime
  <1>1. ASSUME NEW a \in rt.todo, ApplyAccepted(a) \/ ReplyLost(a) PROVE Goal
    <2>1. /\ rt.pc = "apply" /\ Accepted(a) /\ aria' = [aria EXCEPT ![a.gid] = Effect(a)]
          /\ PausesStand /\ (rt.job = "request" => a.gid \notin acked')
      BY <1>1 DEF ApplyAccepted, ReplyLost
    <2>2. CASE a.gid # g
      BY <1>t, <1>u, <2>1, <2>2
    <2>3. CASE a.gid = g
      <3>1. aria'[g] = Effect(a)
        BY <1>t, <2>1, <2>3
      <3>2. CASE a.kind = "Release"
        <4>1. aria'[g] \in Unpaused
          BY <1>r, <3>1, <3>2 DEF Effect
        <4>2. Starts(g)
          BY <1>e, <2>1, <2>3, <3>2 DEF Starts
        <4> QED
          BY <4>1, <4>2
      <3>3. CASE a.kind = "KeepPausedByUser"
        BY <1>u, <2>3, <3>1, <3>3 DEF Effect
      <3>4. CASE a.kind \notin {"Release", "KeepPausedByUser"}
        BY <3>1, <3>4 DEF Effect, Quiet
      <3> QED
        BY <3>2, <3>3, <3>4
    <2> QED
      BY <2>2, <2>3
  <1>2. ASSUME NEW c \in Clients, Unpause(c) PROVE Goal
    <2>1. CASE UNCHANGED aria
      BY <1>u, <2>1
    <2>2. CASE aria' # aria
      <3>1. /\ aria' = [aria EXCEPT ![req[c].gid] = Running(req[c].gid)]
            /\ acked' = acked \ {req[c].gid} /\ PausesStand
        BY <1>2, <2>2 DEF Unpause
      <3>2. CASE req[c].gid = g
        BY <1>t, <1>r, <3>1, <3>2 DEF Starts
      <3>3. CASE req[c].gid # g
        BY <1>t, <1>u, <3>1, <3>3
      <3> QED
        BY <3>2, <3>3
    <2> QED
      BY <2>1, <2>2
  <1>3. ASSUME NEW c \in Clients, ResumeAll(c) PROVE Goal
    <2>1. CASE g \in WithStatus(AriaGid, {"paused"})
      BY <1>3, <2>1 DEF ResumeAll, Starts, WithStatus, Unpaused
    <2>2. CASE g \notin WithStatus(AriaGid, {"paused"})
      BY <1>3, <1>u, <2>2 DEF ResumeAll
    <2> QED
      BY <2>1, <2>2
  <1>4. ASSUME NEW c \in Clients, NEW h \in Torrents, NextTorrent(c, h) PROVE Goal
    <2>1. CASE UNCHANGED aria
      BY <1>u, <2>1
    <2>2. CASE aria' # aria /\ req[c].op = "PauseAll"
      BY <1>4, <1>t, <1>u, <2>2 DEF NextTorrent, Quiet
    <2>3. CASE aria' # aria /\ req[c].op # "PauseAll"
      <3>1. aria' = [aria EXCEPT ![h] = "active"] /\ acked' = acked \ {h} /\ PausesStand
        BY <1>4, <2>3 DEF NextTorrent
      <3> QED
        BY <1>t, <1>u, <3>1 DEF Starts, Unpaused
    <2> QED
      BY <2>1, <2>2, <2>3
  <1>5. ASSUME NEW c \in Clients, PauseAll(c) \/ RemoveResult(c) PROVE Goal
    BY <1>5, <1>u DEF PauseAll, RemoveResult, Quiet
  <1>6. ASSUME NEW c \in Clients, PauseAdded(c) PROVE Goal
    BY <1>6, <1>t, <1>u DEF PauseAdded, Quiet
  <1>7. ASSUME NEW c \in Clients, NEW h \in Gid, Pause(c, h) \/ Cancel(c, h) PROVE Goal
    BY <1>7, <1>t, <1>u DEF Pause, Cancel, Quiet
  <1>8. ASSUME NEW c \in Clients, NEW h \in Gid, AddPaused(c, h) \/ \E b \in Target : Add(c, h, b)
        PROVE  Goal
    BY <1>8, <1>t, <1>u, <1>k DEF AddPaused, Add
  <1>9. ASSUME NEW c \in Clients,
               \/ Mark(c) \/ Save(c) \/ ClearHeld(c) \/ Remember(c) \/ Forget(c)
               \/ \E h \in Gid : \E b \in Target : SetBatch(c, h, b)
        PROVE  Goal
    BY <1>9, <1>u DEF Mark, Save, ClearHeld, Remember, Forget, SetBatch
  <1>10. ASSUME EndApply \/ Publish \/ Autosave PROVE Goal
    BY <1>10, <1>u DEF EndApply, Publish, Autosave
  <1>11. ASSUME Environment PROVE Goal
    <2>1. ASSUME NEW h \in Gid, Begin(h) PROVE Goal
      BY <2>1, <1>t, <1>u, <1>k DEF Begin, Unpaused
    <2>2. ASSUME NEW h \in Gid, Finish(h) PROVE Goal
      BY <2>2, <1>t, <1>u, <1>k DEF Finish, Unpaused
    <2> QED
      BY <1>11, <2>1, <2>2 DEF Environment
  <1>12. ASSUME Respawn \/ DaemonExit PROVE Goal
    <2>1. aria' = Reloaded /\ (PausesStand \/ stands' = {})
      BY <1>12 DEF Respawn, DaemonExit
    <2>2. CASE SavedPaused(g)
      BY <1>t, <1>u, <2>1, <2>2 DEF SavedPaused, Reloaded, Quiet
    <2>3. CASE ~SavedPaused(g)
      <3>1. session[g] = "waiting" /\ g \notin Torrents
        BY <1>t, <2>3 DEF SavedPaused, Saved
      <3>2. aria'[g] = "waiting"
        BY <1>k, <2>1, <3>1 DEF Reloaded
      <3> QED
        BY <2>1, <2>3, <3>2 DEF Starts, Unpaused
    <2> QED
      BY <2>2, <2>3
  <1>13. NoChange => Goal
    BY <1>u DEF NoChange
  <1> HIDE DEF Goal
  <1>14. Goal
    BY <1>1, <1>2, <1>3, <1>4, <1>5, <1>6, <1>7, <1>8, <1>9, <1>10, <1>11, <1>12, <1>13,
       NoChangeSteps DEF Next, Calm, Fault, RefreshStep, Continue, NewRequest
  <1> QED
    BY <1>14 DEF Goal

(***************************************************************************)
(* A request moves on by steps of its own client, each from its own place; *)
(* the refresh or queue request in progress moves only the one it serves.  *)
(***************************************************************************)
Others(c) == \A d \in Clients : d # c => req'[d] = req[d]

(* A request under way moves nobody else's, and reaches the mark only as it began. *)
LEMMA ContinueOwn ==
  ASSUME TypeOK, NEW c \in Clients, Continue(c)
  PROVE  /\ Others(c) /\ req[c].pc \notin {"idle", "refreshing", "applying"}
         /\ req'[c].pc # "mark"
         /\ req[c].pc = "refresh" => TellActive(c)
         /\ req[c].pc = "save" => Save(c)
  <1> USE DEF ariaVars, storeVars, ghosts, Goto, Ended, Others
  <1>q. req \in [Clients -> Request]
    BY DEF TypeOK
  <1>n. NoRequest.pc = "idle"
    BY DEF NoRequest
  <1>1. CASE Mark(c) \/ Unpause(c) \/ ClearHeld(c) \/ Remember(c) \/ RemoveResult(c) \/ Forget(c)
    BY <1>1, <1>q, <1>n DEF Mark, Unpause, ClearHeld, Remember, RemoveResult, Forget, Request
  <1>2. CASE Save(c)
    BY <1>2, <1>q DEF Save, Request
  <1>3. CASE PauseAdded(c)
    BY <1>3, <1>q, <1>n DEF PauseAdded, Request
  <1>4. CASE PlanRequest(c)
    BY <1>4, <1>q DEF PlanRequest, Request
  <1>5. CASE TakeRuntime(c)
    BY <1>5, <1>q DEF TakeRuntime, Request
  <1>6. CASE TellActive(c)
    BY <1>6, <1>q DEF TellActive, Request
  <1>7. ASSUME NEW t \in Torrents, NextTorrent(c, t)
        PROVE  /\ Others(c) /\ req[c].pc = "torrents" /\ req'[c].pc # "mark"
    BY <1>7, <1>q, <1>n DEF NextTorrent, Request
  <1> QED
    BY <1>1, <1>2, <1>3, <1>4, <1>5, <1>6, <1>7 DEF Continue

(* A new request moves nobody else's, and only a pause begins at the mark. *)
LEMMA NewRequestOwn ==
  ASSUME TypeOK, NEW c \in Clients, NewRequest(c)
  PROVE  /\ Others(c) /\ req[c].pc = "idle" /\ UNCHANGED rt
         /\ req'[c].pc = "mark" => req'[c].op = "Pause" /\ req'[c].gid \in Gid
  <1> USE DEF Others, Send
  <1>q. req \in [Clients -> Request]
    BY DEF TypeOK
  <1>1. ASSUME NEW g \in Gid, Pause(c, g)
        PROVE  /\ Others(c) /\ req[c].pc = "idle" /\ UNCHANGED rt
               /\ req'[c].op = "Pause" /\ req'[c].gid \in Gid
    BY <1>1, <1>q DEF Pause
  <1>2. ASSUME NEW g \in Gid, Resume(c, g) \/ AddPaused(c, g) \/ Cancel(c, g) \/ RemoveHistory(c, g)
        PROVE  /\ Others(c) /\ req[c].pc = "idle" /\ UNCHANGED rt /\ req'[c].pc # "mark"
    BY <1>2, <1>q DEF Resume, AddPaused, Cancel, RemoveHistory
  <1>3. ASSUME NEW g \in Gid, NEW b \in Target, SetBatch(c, g, b) \/ Add(c, g, b)
        PROVE  /\ Others(c) /\ req[c].pc = "idle" /\ UNCHANGED rt /\ req'[c].pc # "mark"
    BY <1>3, <1>q DEF SetBatch, Add
  <1>4. ASSUME NEW t \in Target, HoldBatch(c, t) \/ StartBatch(c, t)
        PROVE  /\ Others(c) /\ req[c].pc = "idle" /\ UNCHANGED rt /\ req'[c].pc # "mark"
    BY <1>4, <1>q DEF HoldBatch, StartBatch
  <1>5. CASE PauseAll(c) \/ ResumeAll(c)
    <2>1. PICK op, torrents : SendToAll(c, op, torrents)
      BY <1>5 DEF PauseAll, ResumeAll
    <2>2. /\ req[c].pc = "idle"
          /\ req'[c] = [NoRequest EXCEPT !.op = op, !.left = torrents,
                                         !.pc = IF torrents = {} THEN "save" ELSE "torrents"]
          /\ \A d \in Clients : d # c => req'[d] = req[d]
      BY <2>1, <1>q DEF SendToAll
    <2>3. req'[c].pc # "mark"
      BY <2>2 DEF NoRequest
    <2> QED
      BY <1>5, <2>2, <2>3 DEF PauseAll, ResumeAll
  <1>6. CASE PurgeHistory(c)
    BY <1>6, <1>q DEF PurgeHistory
  <1> QED
    BY <1>1, <1>2, <1>3, <1>4, <1>5, <1>6 DEF NewRequest

(* The daemon's own steps and the faults: the client they serve, if any.   *)
LEMMA OtherSteps ==
  ASSUME TypeOK, RequestsFit, Next, NEW c \in Clients
  PROVE  \/ Continue(c) \/ NewRequest(c)
         \/ req'[c] = req[c]
         \/ /\ rt.pc # "idle" /\ rt.by = c
            /\ req'[c] = NoRequest \/ req'[c] = [req[c] EXCEPT !.pc = "refresh"]
            /\ rt' = Idle
         \/ stands' = {} /\ req'[c] = NoRequest /\ rt' = Idle
  <1> USE DEF ariaVars, storeVars, ghosts
  <1>q. req \in [Clients -> Request]
    BY DEF TypeOK
  <1>1. ASSUME NEW d \in Clients, Continue(d) \/ NewRequest(d), d # c PROVE req'[c] = req[c]
    BY <1>1, ContinueOwn, NewRequestOwn DEF Others
  <1>2. CASE \/ TellActive(Ticker) \/ TellWaiting \/ TellStopped \/ MergeLists \/ Plan
             \/ \E a \in rt.todo : ApplyAccepted(a) \/ ApplyRefused(a) \/ ReplyLost(a)
             \/ Environment \/ Autosave \/ AriaExit \/ Respawn
    BY <1>2, QueueAssumption DEF TellActive, TellWaiting, TellStopped, MergeLists, Plan, ApplyAccepted,
       ApplyRefused, ReplyLost, Environment, Begin, Finish, Autosave, AriaExit, Respawn
  <1>3. CASE EndApply
    BY <1>3, <1>q DEF EndApply, Ended, Goto
  <1>4. CASE Publish \/ FetchFails
    BY <1>4, <1>q DEF Publish, FetchFails
  <1>5. CASE DaemonExit
    BY <1>5 DEF DaemonExit
  <1> QED
    BY <1>1, <1>2, <1>3, <1>4, <1>5 DEF Next, Calm, Fault, RefreshStep

(* A request at the mark is a pause, and one whose refresh runs waits for it. *)
LEMMA RequestsFitStep ==
  ASSUME TypeOK, RequestsFit, Next
  PROVE  RequestsFit'
  <1> USE DEF ariaVars, storeVars, ghosts
  <1>q. req \in [Clients -> Request]
    BY DEF TypeOK
  <1>n. NoRequest.pc = "idle"
    BY DEF NoRequest
  <1> SUFFICES ASSUME NEW c \in Clients
               PROVE  /\ req'[c].pc = "mark" => req'[c].op = "Pause" /\ req'[c].gid \in Gid
                      /\ rt'.pc # "idle" /\ rt'.by = c => req'[c].pc \in {"refreshing", "applying"}
    BY DEF RequestsFit
  <1>1. req'[c].pc = "mark" => req'[c].op = "Pause" /\ req'[c].gid \in Gid
    <2>1. CASE req'[c] = req[c]
      BY <2>1 DEF RequestsFit
    <2>2. CASE req'[c] = [req[c] EXCEPT !.pc = "refresh"]
      BY <1>q, <2>2 DEF Request
    <2> QED
      BY <1>n, <2>1, <2>2, OtherSteps, ContinueOwn, NewRequestOwn
  <1>2. ASSUME rt'.pc # "idle", rt'.by = c PROVE req'[c].pc \in {"refreshing", "applying"}
    <2>1. CASE TellActive(c)
      BY <1>q, <2>1 DEF TellActive
    <2>2. CASE TakeRuntime(c)
      BY <1>q, <2>2 DEF TakeRuntime
    <2>3. CASE Continue(c) /\ ~TellActive(c) /\ ~TakeRuntime(c)
      <3>1. UNCHANGED rt
        BY <2>3 DEF Continue, Mark, Unpause, Save, ClearHeld, PlanRequest, PauseAdded, Remember,
           RemoveResult, Forget, NextTorrent
      <3>2. req[c].pc \notin {"refreshing", "applying"}
        BY <2>3, ContinueOwn
      <3> QED
        BY <1>2, <3>1, <3>2 DEF RequestsFit
    <2>4. CASE NewRequest(c)
      <3>1. UNCHANGED rt /\ req[c].pc = "idle"
        BY <2>4, NewRequestOwn
      <3> QED
        BY <1>2, <3>1 DEF RequestsFit
    <2>5. CASE ~Continue(c) /\ ~NewRequest(c)
      <3>1. rt.by = c /\ rt.pc # "idle"
        <4>1. ASSUME NEW d \in Clients, Continue(d) \/ NewRequest(d), d # c PROVE UNCHANGED rt
          <5>1. CASE NewRequest(d)
            BY <5>1, NewRequestOwn
          <5>2. CASE Continue(d)
            BY <1>2, <4>1, <5>2 DEF Continue, TellActive, TakeRuntime, Mark, Unpause, Save, ClearHeld,
               PlanRequest, PauseAdded, Remember, RemoveResult, Forget, NextTorrent, Idle
          <5> QED
            BY <4>1, <5>1, <5>2
        <4>2. CASE TellActive(Ticker)
          BY <1>2, <4>2, QueueAssumption DEF TellActive, Idle
        <4>3. CASE \/ TellWaiting \/ TellStopped \/ MergeLists \/ Plan
                   \/ \E a \in rt.todo : ApplyAccepted(a) \/ ApplyRefused(a) \/ ReplyLost(a)
          BY <1>2, <4>3 DEF TellWaiting, TellStopped, MergeLists, Plan, ApplyAccepted, ApplyRefused,
             ReplyLost, TypeOK, Runtime
        <4>4. CASE EndApply
          BY <1>2, <4>4 DEF EndApply, TypeOK, Runtime, Idle
        <4>5. CASE Publish \/ FetchFails \/ DaemonExit
          BY <1>2, <4>5 DEF Publish, FetchFails, DaemonExit, Idle
        <4>6. CASE Environment \/ Autosave \/ AriaExit \/ Respawn
          BY <1>2, <4>6 DEF Environment, Begin, Finish, Autosave, AriaExit, Respawn
        <4> QED
          BY <1>2, <2>5, <4>1, <4>2, <4>3, <4>4, <4>5, <4>6 DEF Next, Calm, Fault, RefreshStep
      <3>2. req[c].pc \in {"refreshing", "applying"}
        BY <3>1 DEF RequestsFit
      <3>3. rt' # Idle
        BY <1>2 DEF Idle
      <3>4. req'[c] = req[c]
        BY <2>5, <3>3, <1>2, OtherSteps
      <3> QED
        BY <3>2, <3>4
    <2> QED
      BY <2>1, <2>2, <2>3, <2>4, <2>5
  <1> QED
    BY <1>1, <1>2

(* How the pauses that stand, and those that were promised, change.        *)
LEMMA StandsChange ==
  ASSUME Next
  PROVE  \/ UNCHANGED stands \/ PausesStand \/ stands' = {}
         \/ \E p \in Clients \cup {Ticker} : TellActive(p)
         \/ \E c \in Clients : Mark(c)
  <1> USE DEF ariaVars, storeVars, ghosts
  <1>1. ASSUME NEW c \in Clients, Continue(c), ~TellActive(c), ~Mark(c)
        PROVE  UNCHANGED stands \/ PausesStand
    BY <1>1 DEF Continue, Unpause, Save, ClearHeld, PlanRequest, TakeRuntime, PauseAdded, Remember,
       RemoveResult, Forget, NextTorrent
  <1>2. ASSUME NEW c \in Clients, NewRequest(c) PROVE UNCHANGED stands \/ PausesStand
    BY <1>2 DEF NewRequest, Pause, Resume, AddPaused, Cancel, RemoveHistory, SetBatch, Add, HoldBatch,
       StartBatch, PauseAll, ResumeAll, PurgeHistory
  <1>3. CASE \/ TellWaiting \/ TellStopped \/ MergeLists \/ Plan \/ EndApply \/ Publish
             \/ \E a \in rt.todo : ApplyAccepted(a) \/ ApplyRefused(a) \/ ReplyLost(a)
             \/ Environment \/ FetchFails \/ Autosave \/ AriaExit \/ Respawn \/ DaemonExit
    BY <1>3 DEF TellWaiting, TellStopped, MergeLists, Plan, EndApply, Publish, ApplyAccepted, ApplyRefused,
       ReplyLost, Environment, Begin, Finish, FetchFails, Autosave, AriaExit, Respawn, DaemonExit
  <1> QED
    BY <1>1, <1>2, <1>3 DEF Next, Calm, Fault, RefreshStep

(* Nothing but the start of a refresh acknowledges a pause. *)
LEMMA AckedChange ==
  ASSUME Next, ~\E p \in Clients \cup {Ticker} : TellActive(p)
  PROVE  acked' \subseteq acked
  <1> USE DEF ariaVars, storeVars, ghosts
  <1>1. ASSUME NEW c \in Clients, Continue(c), ~TellActive(c) PROVE acked' \subseteq acked
    BY <1>1 DEF Continue, Mark, Unpause, Save, ClearHeld, PlanRequest, TakeRuntime, PauseAdded, Remember,
       RemoveResult, Forget, NextTorrent
  <1>2. ASSUME NEW c \in Clients, NewRequest(c) PROVE acked' \subseteq acked
    BY <1>2 DEF NewRequest, Pause, Resume, AddPaused, Cancel, RemoveHistory, SetBatch, Add, HoldBatch,
       StartBatch, PauseAll, ResumeAll, PurgeHistory
  <1>3. CASE \/ TellWaiting \/ TellStopped \/ MergeLists \/ Plan \/ EndApply \/ Publish
             \/ \E a \in rt.todo : ApplyAccepted(a) \/ ApplyRefused(a) \/ ReplyLost(a)
             \/ Environment \/ FetchFails \/ Autosave \/ AriaExit \/ Respawn \/ DaemonExit
    BY <1>3 DEF TellWaiting, TellStopped, MergeLists, Plan, EndApply, Publish, ApplyAccepted, ApplyRefused,
       ReplyLost, Environment, Begin, Finish, FetchFails, Autosave, AriaExit, Respawn, DaemonExit
  <1> QED
    BY <1>1, <1>2, <1>3 DEF Next, Calm, Fault, RefreshStep

(***************************************************************************)
(* A pause that stands is kept by every step: Mark takes the hold off in   *)
(* memory and on disk, and what starts the download ends its standing.     *)
(***************************************************************************)
LEMMA StandsStep ==
  ASSUME TypeOK, AckedInv, Next
  PROVE  StandsFit'
  <1> USE DEF AckedInv
  <1>q. req \in [Clients -> Request] /\ stands \subseteq Clients
    BY DEF TypeOK
  <1>t. queue \in [Gid -> Entry] /\ disk \in [Gid -> Entry]
    BY DEF TypeOK, Queue
  <1> SUFFICES ASSUME NEW c \in stands'
               PROVE  /\ req'[c].op = "Pause" /\ req'[c].pc \in {"save", "refresh"}
                      /\ req'[c].gid \in Gid /\ Kept(req[c].gid)'
    BY DEF StandsFit
  <1>1. (c \in stands /\ ~TellActive(c)) \/ (c \in Clients /\ Mark(c) /\ aria[req[c].gid] = "paused")
    BY StandsChange DEF PausesStand, TellActive, Mark
  <1>2. CASE c \in Clients /\ Mark(c) /\ aria[req[c].gid] = "paused"
    <2> DEFINE g == req[c].gid
    <2>1. req[c].op = "Pause" /\ g \in Gid
      BY <1>2 DEF Mark, RequestsFit
    <2>2. /\ req'[c].op = "Pause" /\ req'[c].pc \in {"save", "refresh"} /\ req'[c].gid = g
          /\ UNCHANGED aria
      BY <1>2, <1>q, <2>1 DEF Mark, Goto, Request, ariaVars
    <2>3. queue'[g].held = FALSE
      BY <1>2, <1>t, <2>1 DEF Mark, Entry
    <2>4. disk = queue
      BY <1>2 DEF Mark, QueueFree, SavedInv
    <2>5. ~disk'[g].held
      BY <1>2, <2>3, <2>4 DEF Mark
    <2> QED
      BY <1>2, <2>1, <2>2, <2>3, <2>5 DEF Kept, Quiet
  <1>3. CASE c \in stands /\ ~TellActive(c)
    <2> DEFINE g == req[c].gid
    <2>1. /\ c \in Clients /\ req[c].op = "Pause" /\ req[c].pc \in {"save", "refresh"} /\ g \in Gid
          /\ Kept(g)
      BY <1>q, <1>3 DEF StandsFit
    <2>2. /\ req'[c].op = "Pause" /\ req'[c].pc \in {"save", "refresh"} /\ req'[c].gid = g
      <3>1. CASE Continue(c)
        <4>1. Save(c)
          BY <1>3, <2>1, <3>1, ContinueOwn
        <4> QED
          BY <1>q, <2>1, <4>1 DEF Save, Goto, Request
      <3>2. ~NewRequest(c)
        BY <2>1, NewRequestOwn
      <3>3. ~(rt.pc # "idle" /\ rt.by = c)
        BY <2>1 DEF RequestsFit
      <3> QED
        BY <2>1, <3>1, <3>2, <3>3, OtherSteps
    <2>3. ~queue'[g].held /\ ~disk'[g].held
      BY <2>1, HeldStep
    <2>4. aria'[g] \in Quiet
      <3>1. aria[g] \in Quiet
        BY <2>1 DEF Kept
      <3>2. Starts(g) => PausesStand
        BY DEF Starts
      <3>3. PausesStand => aria'[g] \notin Unpaused
        BY DEF PausesStand
      <3> QED
        BY <2>1, <3>1, <3>2, <3>3, QuietStep
    <2> QED
      BY <2>1, <2>2, <2>3, <2>4 DEF Kept
  <1> QED
    BY <1>1, <1>2, <1>3

(* What a refresh has listed and planned about a promised pause.           *)
LEMMA NotPlannedStep ==
  ASSUME TypeOK, Next, NEW g \in Gid, Kept(g), NotPlanned(g)
  PROVE  NotPlanned(g)'
  <1> USE DEF ariaVars, storeVars, ghosts
  <1>1. UNCHANGED rt => NotPlanned(g)'
    BY DEF NotPlanned
  <1>2. rt'.pc \notin {"plan", "apply"} => NotPlanned(g)'
    BY DEF NotPlanned
  <1>3. CASE MergeLists
    <2>1. /\ rt'.pc = "plan"
          /\ rt'.view = AttachMetadata(queue, Listed(rt.view, WithStatus(Torrents, Pending)))
      BY <1>3 DEF MergeLists, TypeOK, Runtime
    <2>2. g \in DOMAIN rt'.view => (rt'.view[g].held <=> queue[g].held)
      <3>1. ASSUME NEW items, IsListing(items), g \in DOMAIN items
            PROVE  AttachMetadata(queue, items)[g].held <=> queue[g].held
        <4>1. items[g] \in Item
          BY <3>1 DEF IsListing
        <4>2. queue[g].held \in BOOLEAN
          BY DEF TypeOK, Queue, Entry
        <4> QED
          BY <3>1, <4>1, <4>2 DEF AttachMetadata, Item
      <3>2. IsListing(Listed(rt.view, WithStatus(Torrents, Pending)))
        BY <1>3, ListedType, QueueAssumption DEF TypeOK, WithStatus
      <3> QED
        BY <2>1, <3>1, <3>2 DEF AttachMetadata
    <2> QED
      BY <2>1, <2>2 DEF NotPlanned, Kept
  <1>4. CASE Plan
    <2>1. rt.pc = "plan" /\ rt'.todo = PlanBatchPolicy(rt.view)
      BY <1>4 DEF Plan, TypeOK, Runtime
    <2>2. ASSUME NEW a \in rt'.todo, a.gid = g PROVE a.kind # "Release"
      <3>1. g \in DOMAIN rt.view => ~rt.view[g].held
        BY <2>1 DEF NotPlanned
      <3>2. a.kind = "Release" => g \in DOMAIN rt.view /\ HeldPaused(rt.view[g])
        BY <2>1, <2>2, ReleasesAreHeld DEF TypeOK
      <3> QED
        BY <3>1, <3>2 DEF HeldPaused
    <2>3. rt'.pc # "plan"
      BY <1>4 DEF Plan, TypeOK, Runtime
    <2> QED
      BY <2>2, <2>3 DEF NotPlanned
  <1>5. CASE \E a \in rt.todo : ApplyAccepted(a) \/ ApplyRefused(a) \/ ReplyLost(a)
    <2> DEFINE OnePlanLess ==
            rt.pc = "apply" /\ rt'.pc = rt.pc /\ rt'.job = rt.job /\ rt'.todo \subseteq rt.todo
    <2>r. rt \in Runtime(rt.view)
      BY DEF TypeOK
    <2>1. ASSUME NEW a \in rt.todo, ApplyAccepted(a) PROVE OnePlanLess
      BY <2>r, <2>1 DEF ApplyAccepted, Runtime
    <2>2. ASSUME NEW a \in rt.todo, ApplyRefused(a) PROVE OnePlanLess
      BY <2>r, <2>2 DEF ApplyRefused, Runtime
    <2>3. ASSUME NEW a \in rt.todo, ReplyLost(a) PROVE OnePlanLess
      BY <2>r, <2>3 DEF ReplyLost, Runtime
    <2>4. OnePlanLess
      BY <1>5, <2>1, <2>2, <2>3
    <2> QED
      BY <2>4 DEF NotPlanned
  <1>6. CASE TellWaiting \/ TellStopped \/ EndApply \/ Publish \/ FetchFails \/ DaemonExit
    <2>1. rt'.pc \notin {"plan", "apply"}
      <3>r. rt \in Runtime(rt.view)
        BY DEF TypeOK
      <3>1. CASE TellWaiting \/ TellStopped
        BY <3>r, <3>1 DEF TellWaiting, TellStopped, Runtime
      <3>2. CASE EndApply
        BY <3>r, <3>2 DEF EndApply, Idle, Runtime
      <3>3. CASE Publish \/ FetchFails \/ DaemonExit
        BY <3>3 DEF Publish, FetchFails, DaemonExit, Idle
      <3> QED
        BY <1>6, <3>1, <3>2, <3>3
    <2> QED
      BY <1>2, <2>1
  <1>7. ASSUME NEW p \in Clients \cup {Ticker}, TellActive(p) PROVE NotPlanned(g)'
    BY <1>2, <1>7 DEF TellActive, Idle
  <1>8. ASSUME NEW c \in Clients, TakeRuntime(c) PROVE NotPlanned(g)'
    BY <1>8 DEF TakeRuntime, Idle, NotPlanned
  <1>9. ASSUME NEW c \in Clients, Continue(c), ~TellActive(c), ~TakeRuntime(c) PROVE UNCHANGED rt
    BY <1>9 DEF Continue, Mark, Unpause, Save, ClearHeld, PlanRequest, PauseAdded, Remember,
       RemoveResult, Forget, NextTorrent
  <1>10. ASSUME NEW c \in Clients, NewRequest(c) PROVE UNCHANGED rt
    BY <1>10, NewRequestOwn
  <1>11. CASE Environment \/ Autosave \/ AriaExit \/ Respawn
    BY <1>1, <1>11 DEF Environment, Begin, Finish, Autosave, AriaExit, Respawn
  <1> QED
    BY <1>1, <1>3, <1>4, <1>5, <1>6, <1>7, <1>8, <1>9, <1>10, <1>11
       DEF Next, Calm, Fault, RefreshStep

(* The saved session of a promised pause: it is only ever saved again.     *)
LEMMA SavedPausedStep ==
  ASSUME TypeOK, Next, NEW g \in Gid, Kept(g), SavedPaused(g)
  PROVE  SavedPaused(g)'
  <1> USE DEF ariaVars, storeVars, ghosts
  <1>1. session' = session \/ session' = SaveSession
    <2>1. ASSUME NEW c \in Clients, Continue(c)
          PROVE  session' = session \/ session' = SaveSession
      BY <2>1 DEF Continue, TellActive, TakeRuntime, Mark, Unpause, Save, ClearHeld, PlanRequest,
         PauseAdded, Remember, RemoveResult, Forget, NextTorrent
    <2>2. ASSUME NEW c \in Clients, NewRequest(c) PROVE UNCHANGED session
      BY <2>2 DEF NewRequest, Pause, Resume, AddPaused, Cancel, RemoveHistory, SetBatch, Add, HoldBatch,
         StartBatch, PauseAll, ResumeAll, PurgeHistory
    <2>3. CASE RefreshStep \/ Environment \/ Fault
      BY <2>3 DEF RefreshStep, Environment, Fault, TellActive, TellWaiting, TellStopped, MergeLists, Plan,
         EndApply, Publish, ApplyAccepted, ApplyRefused, ReplyLost, Begin, Finish, FetchFails,
         Autosave, AriaExit, Respawn, DaemonExit
    <2> QED
      BY <2>1, <2>2, <2>3 DEF Next, Calm
  <1>2. g \notin Torrents => SaveSession[g] \in {"paused", "absent"}
    BY DEF SaveSession, Kept, Quiet, Unpaused
  <1> QED
    BY <1>1, <1>2 DEF SavedPaused

(* Every step keeps the acknowledged pauses standing. *)
LEMMA AckedStep ==
  ASSUME TypeOK, AckedInv, Next
  PROVE  AckedFit'
  <1> USE DEF AckedInv
  <1> SUFFICES ASSUME NEW g \in acked' PROVE Kept(g)' /\ SavedPaused(g)' /\ NotPlanned(g)'
    BY DEF AckedFit
  <1>1. CASE g \in acked
    <2>1. g \in Gid /\ Kept(g) /\ SavedPaused(g) /\ NotPlanned(g)
      BY <1>1 DEF TypeOK, AckedFit
    <2>2. ~Starts(g)
      BY <2>1 DEF Starts, NotPlanned
    <2>3. aria'[g] \in Quiet
      BY <2>1, <2>2, QuietStep DEF Kept
    <2> QED
      BY <2>1, <2>3, HeldStep, SavedPausedStep, NotPlannedStep DEF Kept
  <1>2. CASE g \notin acked
    <2>1. PICK p \in Clients \cup {Ticker} : TellActive(p)
      BY <1>2, AckedChange
    <2>2. /\ p \in stands /\ req[p].gid = g /\ (g \in Torrents \/ session[g] = "paused")
          /\ UNCHANGED <<aria, session, queue, disk>> /\ rt'.pc = "waiting"
      BY <1>2, <2>1 DEF TellActive, Idle, ariaVars, storeVars
    <2>3. Kept(g)
      BY <2>2 DEF StandsFit
    <2> QED
      BY <2>2, <2>3 DEF Kept, SavedPaused, NotPlanned
  <1> QED
    BY <1>1, <1>2

(***************************************************************************)
(* A pause the user was promised holds until the user ends it, for any     *)
(* number of downloads, clients and requests, lost replies, and restarts   *)
(* of aria2 and of the daemon at any moment.                               *)
(***************************************************************************)
THEOREM PausesOutliveRestarts == Spec => []AckedPausesHold
  <1>1. TypeOK /\ AckedInv /\ [Next]_vars => AckedInv'
    <2>1. AckedInv /\ UNCHANGED vars => AckedInv'
      BY DEF AckedInv, SavedInv, RequestsFit, StandsFit, AckedFit, Kept, SavedPaused, NotPlanned, vars
    <2>2. TypeOK /\ AckedInv /\ Next => AckedInv'
      BY SavedStep, RequestsFitStep, StandsStep, AckedStep DEF AckedInv
    <2> QED
      BY <2>1, <2>2
  <1>2. AckedInv => AckedPausesHold
    BY DEF AckedInv, AckedFit, AckedPausesHold, Kept, Quiet, Unpaused
  <1> QED
    BY <1>1, <1>2, AckedInit, TypeCorrect, PTL DEF Spec
=============================================================================
