----------------------- MODULE BatchQueue_refinement -----------------------
(***************************************************************************)
(* BatchQueue implements PauseOwnership: without faults, whatever the      *)
(* interleaving, the scheduler ends its own pauses only, and a pause of    *)
(* the user begins and ends while a request about that download is served. *)
(***************************************************************************)
EXTENDS BatchQueue_proofs

-----------------------------------------------------------------------------
(***************************************************************************)
(* The strengthening.  Where a request stands says what it is.             *)
(***************************************************************************)
Fits(r) ==
    /\ r.pc = "mark" => r.op = "Pause" /\ r.gid \in Gid
    /\ r.pc = "unpause" => r.op = "Resume" /\ r.gid \in Gid
    /\ r.pc = "pause" => r.op = "Add"
    /\ r.pc = "clear" => r.op = "PauseAll"
    /\ r.pc = "torrents" => r.op \in {"PauseAll", "ResumeAll"}
    /\ r.pc \in {"plan", "queue", "applying"} => r.op \in {"Resume", "HoldBatch", "StartBatch"}

OpsFit == \A c \in Clients : Fits(req[c])

(* The runtime mutex applies a plan of a refresh or of a request being served. *)
JobsFit ==
    /\ rt.pc # "apply" => rt.job = "refresh"
    /\ rt.pc = "apply" /\ rt.job = "request" => rt.by \in Clients /\ req[rt.by].pc = "applying"
    /\ rt.pc = "apply" /\ rt.job = "refresh" => \A a \in rt.todo : a.kind \in {"Hold", "Release"}

(***************************************************************************)
(* A refresh plans with the marks it read when it merged its lists.  A     *)
(* request may clear one before the plan is applied; it then waits for the *)
(* mutex to save or to refresh, so it is still open when the release that  *)
(* overtakes it goes through.                                              *)
(***************************************************************************)
Cleared(g) == \E c \in Clients : g \in About(c) /\ req[c].pc \in {"save", "refresh"}
MayStart(g) == queue[g].held \/ aria[g] \in Over \/ Cleared(g)
ReleasesFit ==
    /\ rt.pc = "plan" => \A g \in DOMAIN rt.view : HeldPaused(rt.view[g]) => MayStart(g)
    /\ rt.pc = "apply" /\ rt.job = "refresh"
          => \A a \in rt.todo : a.kind = "Release" => MayStart(a.gid)

ServedInv == OpsFit /\ JobsFit /\ ReleasesFit

(* No request is under way at first. *)
LEMMA ServedInit == Init => ServedInv
  BY DEF Init, ServedInv, OpsFit, Fits, JobsFit, ReleasesFit, Idle, NoRequest

-----------------------------------------------------------------------------
(***************************************************************************)
(* A step moves at most one request, and none that waits for the mutex     *)
(* while another holds it.                                                 *)
(***************************************************************************)
MovesOnly(c) == Fits(req'[c]) /\ \A d \in Clients : d # c => req'[d] = req[d]

(* A new request moves only the client that sent it, and no refresh. *)
LEMMA NewRequestMoves ==
  ASSUME TypeOK, NEW c \in Clients, NewRequest(c)
  PROVE  req[c].pc = "idle" /\ rt' = rt /\ MovesOnly(c)
  <1> USE DEF ariaVars, storeVars, ghosts, MovesOnly
  <1>s. ASSUME NEW op, NEW pc, NEW g, NEW t, Send(c, op, pc, g, t)
        PROVE  /\ req[c].pc = "idle"
               /\ \A d \in Clients : d # c => req'[d] = req[d]
               /\ req'[c].op = op /\ req'[c].pc = pc /\ req'[c].gid = g
    BY <1>s DEF Send, TypeOK
  <1>a. ASSUME NEW op \in {"PauseAll", "ResumeAll"}, NEW torrents, SendToAll(c, op, torrents)
        PROVE  req[c].pc = "idle" /\ MovesOnly(c)
    BY <1>a DEF SendToAll, TypeOK, NoRequest, Fits
  <1>1. ASSUME NEW g \in Gid, Pause(c, g) \/ Resume(c, g) \/ AddPaused(c, g)
        PROVE  req[c].pc = "idle" /\ rt' = rt /\ MovesOnly(c)
    BY <1>1, <1>s DEF Pause, Resume, AddPaused, Fits
  <1>2. ASSUME NEW g \in Gid, Cancel(c, g) \/ RemoveHistory(c, g)
                              \/ \E b \in Target : SetBatch(c, g, b) \/ Add(c, g, b)
        PROVE  req[c].pc = "idle" /\ rt' = rt /\ MovesOnly(c)
    BY <1>2, <1>s DEF Cancel, RemoveHistory, SetBatch, Add, Fits
  <1>3. ASSUME NEW t \in Target, HoldBatch(c, t) \/ StartBatch(c, t)
        PROVE  req[c].pc = "idle" /\ rt' = rt /\ MovesOnly(c)
    BY <1>3, <1>s DEF HoldBatch, StartBatch, Fits
  <1>4. ASSUME PauseAll(c) \/ ResumeAll(c)
        PROVE  req[c].pc = "idle" /\ rt' = rt /\ MovesOnly(c)
    BY <1>4, <1>a DEF PauseAll, ResumeAll
  <1>5. ASSUME PurgeHistory(c)
        PROVE  req[c].pc = "idle" /\ rt' = rt /\ MovesOnly(c)
    BY <1>5, <1>s DEF PurgeHistory, Fits
  <1> QED
    BY <1>1, <1>2, <1>3, <1>4, <1>5 DEF NewRequest

(* A request under way moves only itself, and starts a refresh only when none runs. *)
LEMMA ContinueMoves ==
  ASSUME TypeOK, OpsFit, NEW c \in Clients, Continue(c)
  PROVE  /\ MovesOnly(c)
         /\ rt' = rt \/ (rt.pc = "idle" /\ (TakeRuntime(c) \/ TellActive(c)))
         /\ req[c].pc \in {"save", "refresh"} => rt.pc = "idle"
         /\ req[c].pc # "applying"
  <1> USE DEF ariaVars, storeVars, ghosts, MovesOnly
  <1>t. req \in [Clients -> Request] /\ Fits(req[c])
    BY DEF TypeOK, OpsFit
  <1>g. ASSUME NEW pc, Goto(c, pc) PROVE  /\ \A d \in Clients : d # c => req'[d] = req[d]
                                          /\ req'[c].op = req[c].op /\ req'[c].pc = pc
                                          /\ req'[c].gid = req[c].gid
    BY <1>g, <1>t DEF Goto, Request
  <1>e. ASSUME Ended(c) PROVE MovesOnly(c)
    BY <1>e, <1>t DEF Ended, NoRequest, Fits
  <1>1. ASSUME Mark(c) \/ ClearHeld(c) \/ Remember(c) \/ RemoveResult(c) \/ Forget(c)
        PROVE  MovesOnly(c) /\ rt' = rt /\ req[c].pc \notin {"save", "refresh", "applying"}
    BY <1>1, <1>g DEF Mark, ClearHeld, Remember, RemoveResult, Forget, Fits
  <1>2. ASSUME Unpause(c) \/ PauseAdded(c)
        PROVE  MovesOnly(c) /\ rt' = rt /\ req[c].pc \notin {"save", "refresh", "applying"}
    BY <1>2, <1>g, <1>e DEF Unpause, PauseAdded, Fits
  <1>3. ASSUME Save(c)
        PROVE  MovesOnly(c) /\ rt' = rt /\ rt.pc = "idle" /\ req[c].pc # "applying"
    BY <1>3, <1>g DEF Save, Fits
  <1>4. ASSUME PlanRequest(c)
        PROVE  MovesOnly(c) /\ rt' = rt /\ req[c].pc \notin {"save", "refresh", "applying"}
    BY <1>4, <1>t DEF PlanRequest, Fits, Request
  <1>5. ASSUME TakeRuntime(c) \/ TellActive(c)
        PROVE  MovesOnly(c) /\ rt.pc = "idle" /\ req[c].pc # "applying"
    BY <1>5, <1>t DEF TakeRuntime, TellActive, Fits, Request
  <1>6. ASSUME NEW u \in Torrents, NextTorrent(c, u)
        PROVE  MovesOnly(c) /\ rt' = rt /\ req[c].pc \notin {"save", "refresh", "applying"}
    BY <1>6, <1>t, <1>e DEF NextTorrent, Fits, Request
  <1> QED
    BY <1>1, <1>2, <1>3, <1>4, <1>5, <1>6 DEF Continue

(* A step of a refresh moves a request only as the refresh begins or ends. *)
LEMMA RefreshMoves ==
  ASSUME TypeOK, ServedInv, RefreshStep
  PROVE  OpsFit' /\ (req' = req \/ rt'.pc \in {"idle", "waiting"} \/ rt' = Idle)
  <1> USE DEF ariaVars, storeVars, ghosts
  <1>t. req \in [Clients -> Request] /\ \A c \in Clients : Fits(req[c])
    BY DEF TypeOK, ServedInv, OpsFit
  <1>1. CASE TellActive(Ticker)
    BY <1>1, <1>t, QueueAssumption DEF TellActive, OpsFit
  <1>2. CASE \/ TellWaiting \/ TellStopped \/ MergeLists \/ Plan
             \/ \E a \in rt.todo : ApplyAccepted(a) \/ ApplyRefused(a)
    BY <1>2, <1>t DEF TellWaiting, TellStopped, MergeLists, Plan, ApplyAccepted, ApplyRefused, OpsFit
  <1>3. CASE EndApply
    <2>1. rt' = Idle \/ req' = req
      BY <1>3 DEF EndApply
    <2>2. \A c \in Clients : \/ req'[c] = req[c] \/ req'[c].pc \in {"idle", "refresh"}
      BY <1>3, <1>t DEF EndApply, Ended, Goto, NoRequest, Request
    <2> QED
      BY <1>t, <2>1, <2>2 DEF OpsFit, Fits
  <1>4. CASE Publish
    BY <1>4, <1>t DEF Publish, OpsFit, Fits, NoRequest
  <1> QED
    BY <1>1, <1>2, <1>3, <1>4 DEF RefreshStep

-----------------------------------------------------------------------------
(***************************************************************************)
(* A download that is over stays over.                                     *)
(***************************************************************************)
OverIsFinal == \A g \in Gid : aria[g] \in Over => aria'[g] \in Over

(* A download that is over never comes back, short of a fault. *)
LEMMA OverStays ==
  ASSUME TypeOK, Calm
  PROVE  OverIsFinal
  <1> USE DEF ariaVars, storeVars, ghosts, OverIsFinal
  <1>b. Pending \cap Over = {} /\ Unpaused \subseteq Pending /\ "paused" \in Pending
        /\ "none" \notin Over /\ {"removed", "gone"} \subseteq Over
    BY DEF Unpaused, Pending, Over, Stopped
  <1>t. aria \in [Gid -> AriaStatus]
    BY DEF TypeOK
  <1>1. ASSUME NEW a \in rt.todo, ApplyAccepted(a), NEW g \in Gid, aria[g] \in Over
        PROVE  aria'[g] \in Over
    BY <1>1, <1>b, <1>t DEF ApplyAccepted, Accepted, Effect
  <1>2. ASSUME RefreshStep PROVE aria' = aria \/ \E a \in rt.todo : ApplyAccepted(a)
    BY <1>2 DEF RefreshStep, TellActive, TellWaiting, TellStopped, MergeLists, Plan, ApplyRefused,
                EndApply, Publish
  <1>3. ASSUME NEW c \in Clients, Continue(c) PROVE OverIsFinal
    <2>1. ASSUME Unpause(c) \/ PauseAdded(c) PROVE OverIsFinal
      BY <2>1, <1>b, <1>t DEF Unpause, PauseAdded
    <2>2. ASSUME NEW u \in Torrents, NextTorrent(c, u) PROVE OverIsFinal
      BY <2>2, <1>b, <1>t DEF NextTorrent
    <2>3. ASSUME RemoveResult(c) PROVE OverIsFinal
      BY <2>3, <1>b DEF RemoveResult
    <2> QED
      BY <1>3, <2>1, <2>2, <2>3
         DEF Continue, Mark, Save, ClearHeld, PlanRequest, TakeRuntime, Remember, Forget, TellActive
  <1>4. ASSUME NEW c \in Clients, NewRequest(c) PROVE OverIsFinal
    <2>1. ASSUME NEW g \in Gid, \/ Pause(c, g) \/ AddPaused(c, g) \/ Cancel(c, g)
                                \/ \E b \in Target : Add(c, g, b)
          PROVE  OverIsFinal
      BY <2>1, <1>b, <1>t DEF Pause, AddPaused, Cancel, Add
    <2>2. ASSUME PauseAll(c) \/ ResumeAll(c) PROVE OverIsFinal
      BY <2>2, <1>b DEF PauseAll, ResumeAll, WithStatus
    <2> QED
      BY <1>4, <2>1, <2>2
         DEF NewRequest, Resume, RemoveHistory, SetBatch, HoldBatch, StartBatch, PurgeHistory
  <1>5. ASSUME NEW g \in Gid, Begin(g) \/ Finish(g) PROVE OverIsFinal
    BY <1>5, <1>b, <1>t DEF Begin, Finish, Over, Stopped
  <1> QED
    BY <1>1, <1>2, <1>3, <1>4, <1>5 DEF Calm, Environment

-----------------------------------------------------------------------------
(***************************************************************************)
(* While a refresh has the mutex, a request that clears the mark of a      *)
(* download stays open.                                                    *)
(***************************************************************************)
LEMMA ClearingStaysOpen ==
  ASSUME TypeOK, OwnedInv, ServedInv, NEW c \in Clients, NewRequest(c) \/ Continue(c),
         rt.pc # "idle", NEW g \in Gid, MayStart(g)
  PROVE  MayStart(g)'
  <1> USE DEF ariaVars, storeVars, ghosts
  <1>t. queue \in Queue /\ req \in [Clients -> Request]
    BY DEF TypeOK
  <1>1. CASE aria[g] \in Over
    <2>1. Calm
      BY DEF Calm
    <2> QED
      BY <1>1, <2>1, OverStays DEF MayStart, OverIsFinal
  <1>2. CASE Cleared(g)
    <2>1. PICK d \in Clients : g \in About(d) /\ req[d].pc \in {"save", "refresh"}
      BY <1>2 DEF Cleared
    <2>2. req'[d] = req[d]
      BY <2>1, NewRequestMoves, ContinueMoves DEF ServedInv, MovesOnly
    <2>3. g \in About(d)' /\ req'[d].pc \in {"save", "refresh"}
      BY <2>1, <2>2 DEF About
    <2> QED
      BY <2>3 DEF MayStart, Cleared
  <1>3. CASE queue[g].held /\ NewRequest(c)
    <2>1. queue'[g].held
      BY <1>3, <1>t DEF NewRequest, Pause, Resume, AddPaused, Cancel, RemoveHistory, SetBatch, Add,
                        HoldBatch, StartBatch, PauseAll, ResumeAll, PurgeHistory, Queue, Entry
    <2> QED
      BY <2>1 DEF MayStart
  <1>4. CASE queue[g].held /\ Continue(c)
    <2>f. Fits(req[c])
      BY DEF ServedInv, OpsFit
    <2>1. CASE Mark(c)
      <3>1. CASE req[c].gid = g
        <4>1. req'[c].op = "Pause" /\ req'[c].gid = g /\ req'[c].pc \in {"save", "refresh"}
          BY <2>1, <2>f, <3>1, <1>t DEF Mark, Goto, Fits, Request
        <4>2. g \in About(c)'
          BY <4>1 DEF About
        <4> QED
          BY <4>1, <4>2 DEF MayStart, Cleared
      <3>2. CASE req[c].gid # g
        <4>1. queue'[g].held
          BY <2>1, <3>2, <1>4, <1>t DEF Mark, Queue
        <4> QED
          BY <4>1 DEF MayStart
      <3> QED
        BY <3>1, <3>2
    <2>2. CASE ClearHeld(c)
      <3>1. req'[c].op = "PauseAll" /\ req'[c].pc = "refresh"
        BY <2>2, <2>f, <1>t DEF ClearHeld, Goto, Fits, Request
      <3>2. g \in About(c)'
        BY <3>1 DEF About
      <3> QED
        BY <3>1, <3>2 DEF MayStart, Cleared
    <2>3. CASE Forget(c)
      <3>1. req[c].gid \in Gid /\ aria[req[c].gid] \in Over /\ aria' = aria
        BY <2>3 DEF Forget, OwnedInv, ForgottenAreOver
      <3>2. req[c].gid # g => queue'[g] = queue[g]
        BY <2>3, <1>t DEF Forget, Queue
      <3> QED
        BY <1>4, <3>1, <3>2 DEF MayStart
    <2>4. CASE ~(Mark(c) \/ ClearHeld(c) \/ Forget(c))
      <3>1. queue'[g].held
        BY <1>4, <2>4, <1>t DEF Continue, Unpause, Save, PlanRequest, TakeRuntime, PauseAdded,
                                Remember, RemoveResult, TellActive, NextTorrent, Queue, Entry
      <3> QED
        BY <3>1 DEF MayStart
    <2> QED
      BY <2>1, <2>2, <2>3, <2>4
  <1> QED
    BY <1>1, <1>2, <1>3, <1>4 DEF MayStart

(* Every step of a refresh keeps the requests served. *)
LEMMA ServedRefresh ==
  ASSUME TypeOK, OwnedInv, ServedInv, RefreshStep
  PROVE  ServedInv'
  <1> USE DEF ariaVars, storeVars, ghosts
  <1>t. /\ OpsFit /\ JobsFit /\ ReleasesFit /\ rt.todo \subseteq Action
        /\ queue \in Queue /\ IsListing(rt.view)
    BY DEF ServedInv, TypeOK, Runtime
  <1>o. OpsFit'
    BY RefreshMoves
  <1>1. CASE TellActive(Ticker) \/ TellWaiting \/ TellStopped
    <2>1. rt'.pc \in {"waiting", "stopped", "merge"} /\ rt'.job = "refresh"
      BY <1>1, <1>t DEF TellActive, TellWaiting, TellStopped, JobsFit, Idle, TypeOK, Runtime
    <2> QED
      BY <1>o, <2>1 DEF ServedInv, JobsFit, ReleasesFit
  <1>2. CASE MergeLists
    <2> DEFINE view == Listed(rt.view, WithStatus(Torrents, Pending))
    <2>1. IsListing(view)
      BY ViewType, QueueAssumption
    <2>2. rt'.pc = "plan" /\ rt'.job = "refresh" /\ rt'.view = AttachMetadata(queue, view)
      BY <1>2, <1>t DEF MergeLists, JobsFit, TypeOK, Runtime
    <2> HIDE DEF view
    <2>3. \A g \in DOMAIN view : view[g] \in Item /\ g \in Gid
      BY <2>1 DEF IsListing
    <2>4. \A g \in DOMAIN rt'.view : HeldPaused(rt'.view[g]) => g \in Gid /\ queue[g].held
      BY <2>2, <2>3 DEF AttachMetadata, HeldPaused, Item
    <2>5. queue' = queue
      BY <1>2 DEF MergeLists
    <2> QED
      BY <1>o, <2>2, <2>4, <2>5 DEF ServedInv, JobsFit, ReleasesFit, MayStart
  <1>3. CASE Plan
    <2>1. /\ rt'.pc \in {"publish", "apply"} /\ rt'.job = "refresh"
          /\ rt'.todo = PlanBatchPolicy(rt.view)
      BY <1>3, <1>t DEF Plan, JobsFit, TypeOK, Runtime
    <2>2. \A a \in rt'.todo : a.kind \in {"Hold", "Release"}
      BY <2>1, <1>t, PolicyPlanType
    <2>3. \A a \in rt'.todo : a.kind = "Release" =>
              a.gid \in DOMAIN rt.view /\ HeldPaused(rt.view[a.gid])
      BY <2>1, ReleasesAreHeld
    <2>4. \A a \in rt'.todo : a.kind = "Release" => MayStart(a.gid)
      BY <1>3, <1>t, <2>3 DEF Plan, ReleasesFit
    <2>5. aria' = aria /\ queue' = queue /\ req' = req
      BY <1>3 DEF Plan
    <2>6. \A g : MayStart(g) => MayStart(g)'
      BY <2>5 DEF MayStart, Cleared, About
    <2> QED
      BY <1>o, <2>1, <2>2, <2>4, <2>6 DEF ServedInv, JobsFit, ReleasesFit
  <1>4. ASSUME NEW a \in rt.todo, ApplyAccepted(a) \/ ApplyRefused(a) PROVE ServedInv'
    <2>1. /\ rt.pc = "apply" /\ rt'.pc = "apply" /\ rt'.job = rt.job /\ rt'.by = rt.by
          /\ rt'.todo = rt.todo \ {a} /\ req' = req
      BY <1>4 DEF ApplyAccepted, ApplyRefused, TypeOK, Runtime
    <2>2. JobsFit'
      BY <1>t, <2>1 DEF JobsFit
    <2>3. ASSUME NEW b \in rt'.todo, b.kind = "Release", rt.job = "refresh"
          PROVE  MayStart(b.gid)'
      <3>1. b \in rt.todo /\ b # a /\ b \in Action /\ a \in Action
        BY <1>t, <2>1
      <3>2. MayStart(b.gid)
        BY <1>t, <2>1, <2>3, <3>1 DEF ReleasesFit
      <3>3. CASE Cleared(b.gid)
        BY <2>1, <3>3 DEF MayStart, Cleared, About
      <3>4. CASE aria[b.gid] \in Over
        <4>1. aria'[b.gid] \in Over
          BY <1>4, <3>1, <3>4, OverStays DEF OverIsFinal, Calm, RefreshStep, Action
        <4> QED
          BY <4>1 DEF MayStart
      <3>5. CASE queue[b.gid].held
        <4>1. a.kind \in {"Hold", "Release"}
          BY <1>t, <2>1, <2>3 DEF JobsFit
        <4>2. b.gid = a.gid => a.kind = "Hold"
          BY <2>3, <3>1, <4>1 DEF Action
        <4>3. queue'[b.gid].held
          <5>1. CASE ApplyRefused(a)
            BY <3>5, <5>1 DEF ApplyRefused
          <5>2. CASE ApplyAccepted(a) /\ b.gid = a.gid
            <6>1. queue'[a.gid].held = TRUE
              BY <1>t, <3>1, <4>2, <5>2 DEF ApplyAccepted, Queue, Entry, Action
            <6> QED
              BY <5>2, <6>1
          <5>3. CASE ApplyAccepted(a) /\ b.gid # a.gid
            BY <1>t, <3>1, <3>5, <5>3 DEF ApplyAccepted, Queue, Action
          <5> QED
            BY <1>4, <5>1, <5>2, <5>3
        <4> QED
          BY <4>3 DEF MayStart
      <3> QED
        BY <3>2, <3>3, <3>4, <3>5 DEF MayStart
    <2> QED
      BY <1>o, <2>1, <2>2, <2>3 DEF ServedInv, ReleasesFit
  <1>5. CASE EndApply \/ Publish
    <2>1. rt'.pc \in {"idle", "publish"} /\ rt'.job = "refresh"
      BY <1>5, <1>t DEF EndApply, Publish, Idle, TypeOK, Runtime, JobsFit
    <2> QED
      BY <1>o, <2>1 DEF ServedInv, JobsFit, ReleasesFit
  <1> QED
    BY <1>1, <1>2, <1>3, <1>4, <1>5 DEF RefreshStep

(* Every step of a request does, *)
LEMMA ServedRequests ==
  ASSUME TypeOK, OwnedInv, ServedInv, NEW c \in Clients, NewRequest(c) \/ Continue(c)
  PROVE  ServedInv'
  <1>t. OpsFit /\ JobsFit /\ ReleasesFit
    BY DEF ServedInv
  <1>1. MovesOnly(c)
    BY <1>t, NewRequestMoves, ContinueMoves
  <1>2. OpsFit'
    BY <1>t, <1>1 DEF MovesOnly, OpsFit
  <1>3. CASE rt' = rt
    <2>1. JobsFit'
      <3>1. ASSUME rt.pc = "apply", rt.job = "request"
            PROVE  rt.by \in Clients /\ req'[rt.by].pc = "applying"
        BY <1>t, <1>1, <3>1, NewRequestMoves, ContinueMoves DEF JobsFit, MovesOnly
      <3> QED
        BY <1>t, <1>3, <3>1 DEF JobsFit
    <2>2. rt.view \in [DOMAIN rt.view -> Item] /\ DOMAIN rt.view \subseteq Gid /\ rt.todo \subseteq Action
      BY DEF TypeOK, Runtime, IsListing
    <2>3. rt.pc \in {"plan", "apply"} => \A g \in Gid : MayStart(g) => MayStart(g)'
      BY ClearingStaysOpen
    <2>4. \A a \in rt.todo : a.gid \in Gid
      BY <2>2 DEF Action
    <2>5. ReleasesFit'
      BY <1>t, <1>3, <2>2, <2>3, <2>4 DEF ReleasesFit
    <2> QED
      BY <1>2, <2>1, <2>5 DEF ServedInv
  <1>4. CASE TellActive(c)
    <2>1. rt'.pc = "waiting" /\ rt'.job = "refresh"
      BY <1>4 DEF TellActive, Idle
    <2> QED
      BY <1>2, <2>1 DEF ServedInv, JobsFit, ReleasesFit
  <1>5. CASE TakeRuntime(c)
    <2>1. /\ rt'.pc = "apply" /\ rt'.job = "request" /\ rt'.by = c
          /\ req'[c].pc = "applying"
      BY <1>5 DEF TakeRuntime, Idle, TypeOK, Request
    <2> QED
      BY <1>2, <2>1 DEF ServedInv, JobsFit, ReleasesFit
  <1> QED
    BY <1>t, <1>3, <1>4, <1>5, NewRequestMoves, ContinueMoves

(* and so do aria2 and the clock. *)
LEMMA ServedEnvironment ==
  ASSUME TypeOK, ServedInv, Environment
  PROVE  ServedInv'
  <1> USE DEF ariaVars, storeVars, ghosts
  <1>1. UNCHANGED <<rt, req, queue>>
    BY DEF Environment, Begin, Finish
  <1>2. \A g \in Gid : aria[g] \in Over => aria'[g] \in Over
    BY OverStays DEF Calm, OverIsFinal
  <1>3. \A g \in Gid : MayStart(g) => MayStart(g)'
    BY <1>1, <1>2 DEF MayStart, Cleared, About
  <1>4. DOMAIN rt.view \subseteq Gid /\ \A a \in rt.todo : a.gid \in Gid
    BY DEF TypeOK, Runtime, IsListing, Action
  <1> QED
    BY <1>1, <1>3, <1>4 DEF ServedInv, OpsFit, JobsFit, ReleasesFit

-----------------------------------------------------------------------------
(***************************************************************************)
(* The simulation.  A step is allowed for a download when it stays in the  *)
(* same hands, or goes where PauseOwnership lets it go.                    *)
(***************************************************************************)
Open == UNION {About(c) : c \in Clients}
Allowed(g) ==
    \/ Phase(g)' = Phase(g)
    \/ <<Phase(g), Phase(g)'>> \in Ownership!Engine \cup Ownership!Scheduler
    \/ g \in Open \cup Open' /\ <<Phase(g), Phase(g)'>> \in Ownership!User

(* What each state of a download and its mark is in the abstract specification. *)
LEMMA PhaseIs ==
  ASSUME NEW g
  PROVE  /\ aria[g] = "none" => Phase(g) = "none"
         /\ aria[g] \in Unpaused => Phase(g) = "runs"
         /\ aria[g] = "paused" /\ queue[g].held => Phase(g) = "held"
         /\ aria[g] = "paused" /\ ~queue[g].held => Phase(g) = "paused"
         /\ aria[g] \in Over => Phase(g) = "done"
         /\ Phase(g) \in Ownership!Phase
  BY DEF Phase, Unpaused, Over, Stopped, Ownership!Phase

(* The six kinds of changes that a step may make to a download. *)
LEMMA AllowedChanges ==
  ASSUME TypeOK, NEW g \in Gid
  PROVE  /\ aria'[g] = aria[g] /\ (aria[g] = "paused" => queue'[g].held = queue[g].held) => Allowed(g)
         /\ aria[g] \in Unpaused \cup {"none"} /\ aria'[g] \in Unpaused => Allowed(g)
         /\ aria[g] \in Pending \cup Over /\ aria'[g] \in Over => Allowed(g)
         /\ aria[g] \in Unpaused /\ aria'[g] = "paused" /\ queue'[g].held => Allowed(g)
         /\ aria[g] = "paused" /\ queue[g].held /\ aria'[g] \in Unpaused => Allowed(g)
         /\ g \in Open \cup Open' /\ aria[g] \in Unpaused /\ aria'[g] = "paused" => Allowed(g)
         /\ g \in Open \cup Open' /\ aria[g] = "paused" /\ aria'[g] \in Unpaused => Allowed(g)
         /\ g \in Open \cup Open' /\ aria[g] = "none" /\ aria'[g] = "paused" /\ ~queue'[g].held
                => Allowed(g)
         /\ g \in Open \cup Open' /\ aria'[g] = aria[g] /\ ~queue'[g].held => Allowed(g)
  <1> USE DEF Allowed, Ownership!Engine, Ownership!Scheduler, Ownership!User
  <1> DEFINE old == Phase(g)
             new == Phase(g)'
  <1>1. /\ aria[g] = "none" => old = "none"
        /\ aria[g] \in Unpaused => old = "runs"
        /\ aria[g] = "paused" /\ queue[g].held => old = "held"
        /\ aria[g] = "paused" /\ ~queue[g].held => old = "paused"
        /\ aria[g] \in Over => old = "done"
    BY PhaseIs
  <1>2. /\ aria'[g] = "none" => new = "none"
        /\ aria'[g] \in Unpaused => new = "runs"
        /\ aria'[g] = "paused" /\ queue'[g].held => new = "held"
        /\ aria'[g] = "paused" /\ ~queue'[g].held => new = "paused"
        /\ aria'[g] \in Over => new = "done"
    BY DEF Phase, Unpaused, Over, Stopped
  <1>3. aria[g] \in Unpaused \cup {"paused", "none"} \cup Over /\ Pending = Unpaused \cup {"paused"}
    BY DEF TypeOK, AriaStatus, Pending, Over
  <1> HIDE DEF old, new
  <1>4. aria'[g] = aria[g] /\ (aria[g] = "paused" => queue'[g].held = queue[g].held) => old = new
    BY <1>1, <1>2, <1>3
  <1> QED
    BY <1>1, <1>2, <1>3, <1>4 DEF old, new

(* A step of a refresh moves each download as the abstract specification allows, *)
LEMMA RefreshAllowed ==
  ASSUME TypeOK, OwnedInv, ServedInv, RefreshStep, NEW g \in Gid
  PROVE  Allowed(g)
  <1> USE DEF ariaVars, storeVars, ghosts
  <1>t. /\ aria \in [Gid -> AriaStatus] /\ queue \in Queue /\ rt.todo \subseteq Action
        /\ rt.job \in {"refresh", "request"}
    BY DEF TypeOK, Runtime
  <1>1. CASE \/ TellActive(Ticker) \/ TellWaiting \/ TellStopped \/ MergeLists \/ Plan
             \/ (\E a \in rt.todo : ApplyRefused(a)) \/ EndApply
    <2>1. aria' = aria /\ queue' = queue
      BY <1>1 DEF TellActive, TellWaiting, TellStopped, MergeLists, Plan, ApplyRefused, EndApply
    <2> QED
      BY <2>1, AllowedChanges
  <1>2. CASE Publish
    <2>1. aria' = aria /\ queue'[g] \in {queue[g], NoEntry}
      BY <1>2 DEF Publish
    <2>2. aria[g] = "paused" /\ queue[g].held => queue'[g] = queue[g]
      BY <1>2 DEF Publish, OwnedInv, HeldAreListed, Paused, Shown, AriaGid, Pending
    <2>3. queue[g].held \in BOOLEAN /\ NoEntry.held = FALSE
      BY <1>t DEF Queue, Entry, NoEntry
    <2> QED
      BY <2>1, <2>2, <2>3, AllowedChanges
  <1>3. ASSUME NEW a \in rt.todo, ApplyAccepted(a) PROVE Allowed(g)
    <2>1. rt.pc = "apply" /\ Accepted(a) /\ a \in Action
      BY <1>3, <1>t DEF ApplyAccepted
    <2>2. CASE g # a.gid
      <3>1. aria'[g] = aria[g] /\ queue'[g] = queue[g]
        BY <1>3, <1>t, <2>2 DEF ApplyAccepted, Queue
      <3> QED
        BY <3>1, AllowedChanges
    <2>3. ASSUME g = a.gid PROVE aria'[g] = Effect(a) /\ (queue'[g].held <=> a.kind = "Hold")
      BY <1>3, <1>t, <2>3 DEF ApplyAccepted, Queue, Entry
    <2>4. ASSUME rt.job = "request" PROVE g \in Open
      <3>1. rt.by \in Clients /\ req[rt.by].pc = "applying"
        BY <2>1, <2>4 DEF ServedInv, JobsFit
      <3>2. req[rt.by].op \in {"Resume", "HoldBatch", "StartBatch"}
        BY <3>1 DEF ServedInv, OpsFit, Fits
      <3>3. g \in About(rt.by)
        BY <3>1, <3>2 DEF About
      <3> QED
        BY <3>1, <3>3 DEF Open
    <2>5. ASSUME a.kind \notin {"Hold", "Release"} PROVE rt.job = "request"
      BY <1>t, <2>1, <2>5 DEF ServedInv, JobsFit
    <2>6. CASE g = a.gid /\ a.kind = "Hold"
      <3>1. aria[g] \in Unpaused /\ aria'[g] = "paused" /\ queue'[g].held
        BY <2>1, <2>3, <2>6 DEF Accepted, Effect
      <3> QED
        BY <3>1, AllowedChanges
    <2>7. CASE g = a.gid /\ a.kind = "Release"
      <3>1. aria[g] = "paused" /\ aria'[g] \in Unpaused
        BY <2>1, <2>3, <2>7 DEF Accepted, Effect, Running, Unpaused
      <3>2. CASE rt.job = "refresh"
        <4>1. queue[g].held \/ Cleared(g)
          <5>1. MayStart(g)
            BY <2>1, <2>7, <3>2 DEF ServedInv, ReleasesFit
          <5>2. aria[g] \notin Over
            BY <3>1 DEF Over, Stopped
          <5> QED
            BY <5>1, <5>2 DEF MayStart
        <4>2. Cleared(g) => g \in Open
          BY DEF Cleared, Open
        <4> QED
          BY <3>1, <4>1, <4>2, AllowedChanges
      <3>3. CASE rt.job = "request"
        BY <2>4, <3>1, <3>3, AllowedChanges
      <3> QED
        BY <1>t, <3>2, <3>3
    <2>8. CASE g = a.gid /\ a.kind = "HoldByUser"
      <3>1. aria[g] \in Unpaused /\ aria'[g] = "paused"
        BY <2>1, <2>3, <2>8 DEF Accepted, Effect
      <3> QED
        BY <2>4, <2>5, <2>8, <3>1, AllowedChanges
    <2>9. CASE g = a.gid /\ a.kind = "KeepPausedByUser"
      <3>1. aria'[g] = aria[g] /\ ~queue'[g].held
        BY <2>3, <2>9 DEF Effect
      <3> QED
        BY <2>4, <2>5, <2>9, <3>1, AllowedChanges
    <2> QED
      BY <2>1, <2>2, <2>6, <2>7, <2>8, <2>9 DEF Action
  <1> QED
    BY <1>1, <1>2, <1>3 DEF RefreshStep

(* a request under way does, *)
LEMMA ContinueAllowed ==
  ASSUME TypeOK, OwnedInv, ServedInv, NEW c \in Clients, Continue(c), NEW g \in Gid
  PROVE  Allowed(g)
  <1> USE DEF ariaVars, storeVars, ghosts
  <1>t. /\ aria \in [Gid -> AriaStatus] /\ queue \in Queue /\ req \in [Clients -> Request]
        /\ Fits(req[c])
    BY DEF TypeOK, ServedInv, OpsFit
  <1>u. "paused" \in Pending /\ \A h : Running(h) \in Unpaused
    BY DEF Running, Unpaused, Pending
  <1>o. About(c) \subseteq Open
    BY DEF Open
  <1>1. CASE Mark(c)
    <2>1. aria' = aria /\ req[c].gid \in About(c)
      BY <1>1, <1>t DEF Mark, Fits, About
    <2>2. CASE g = req[c].gid
      <3>1. ~queue'[g].held
        BY <1>1, <1>t, <2>2 DEF Mark, Queue, Entry
      <3> QED
        BY <1>o, <2>1, <2>2, <3>1, AllowedChanges
    <2>3. CASE g # req[c].gid
      <3>1. queue'[g] = queue[g]
        BY <1>1, <1>t, <2>3 DEF Mark, Queue
      <3> QED
        BY <2>1, <3>1, AllowedChanges
    <2> QED
      BY <2>2, <2>3
  <1>2. CASE Unpause(c)
    <2>1. req[c].gid \in About(c)
      BY <1>2, <1>t DEF Unpause, Fits, About
    <2>2. \/ aria'[g] = aria[g]
          \/ g = req[c].gid /\ aria[g] = "paused" /\ aria'[g] = Running(g)
      BY <1>2, <1>t DEF Unpause
    <2>3. queue' = queue
      BY <1>2 DEF Unpause
    <2> QED
      BY <1>u, <1>o, <2>1, <2>2, <2>3, AllowedChanges
  <1>3. CASE Save(c) \/ PlanRequest(c) \/ TakeRuntime(c) \/ TellActive(c)
    <2>1. aria' = aria /\ queue' = queue
      BY <1>3 DEF Save, PlanRequest, TakeRuntime, TellActive
    <2> QED
      BY <2>1, AllowedChanges
  <1>4. CASE ClearHeld(c)
    <2>1. g \in About(c)
      BY <1>4, <1>t DEF ClearHeld, Fits, About
    <2>2. aria' = aria /\ ~queue'[g].held
      BY <1>4, <1>t DEF ClearHeld, Queue, Entry
    <2> QED
      BY <1>o, <2>1, <2>2, AllowedChanges
  <1>5. CASE Remember(c)
    <2>1. aria' = aria /\ queue'[g].held = queue[g].held
      BY <1>5, <1>t DEF Remember, Queue, Entry
    <2> QED
      BY <2>1, AllowedChanges
  <1>6. CASE RemoveResult(c)
    <2>1. queue' = queue /\ (aria'[g] = aria[g] \/ (aria[g] \in Stopped /\ aria'[g] = "gone"))
      BY <1>6 DEF RemoveResult
    <2> QED
      BY <2>1, AllowedChanges DEF Over
  <1>7. CASE Forget(c)
    <2>1. aria' = aria /\ aria[req[c].gid] \in Over
      BY <1>7 DEF Forget, OwnedInv, ForgottenAreOver
    <2>2. g # req[c].gid => queue'[g] = queue[g]
      BY <1>7, <1>t DEF Forget, Queue
    <2> QED
      BY <2>1, <2>2, AllowedChanges
  <1>8. ASSUME NEW t \in Torrents, NextTorrent(c, t) PROVE Allowed(g)
    <2>1. g \in About(c)
      BY <1>8, <1>t DEF NextTorrent, Fits, About
    <2>2. queue' = queue
      BY <1>8 DEF NextTorrent
    <2>3. \/ aria'[g] = aria[g]
          \/ aria[g] \in Unpaused /\ aria'[g] = "paused"
          \/ aria[g] = "paused" /\ aria'[g] \in Unpaused
      BY <1>8, <1>t DEF NextTorrent, Unpaused
    <2> QED
      BY <1>o, <2>1, <2>2, <2>3, AllowedChanges
  <1>9. CASE PauseAdded(c)
    <2>1. g = req[c].gid => g \in About(c)
      BY <1>9, <1>t DEF PauseAdded, Fits, About
    <2>2. queue' = queue
      BY <1>9 DEF PauseAdded
    <2>3. aria'[g] = aria[g] \/ (g = req[c].gid /\ aria[g] \in Unpaused /\ aria'[g] = "paused")
      BY <1>9, <1>t DEF PauseAdded
    <2> QED
      BY <1>o, <2>1, <2>2, <2>3, AllowedChanges
  <1> QED
    BY <1>1, <1>2, <1>3, <1>4, <1>5, <1>6, <1>7, <1>8, <1>9 DEF Continue

(* a new request does, *)
LEMMA NewRequestAllowed ==
  ASSUME TypeOK, OwnedInv, NEW c \in Clients, NewRequest(c), NEW g \in Gid
  PROVE  Allowed(g)
  <1> USE DEF ariaVars, storeVars, ghosts
  <1>t. aria \in [Gid -> AriaStatus] /\ queue \in Queue /\ req \in [Clients -> Request]
    BY DEF TypeOK
  <1>u. "active" \in Unpaused /\ "waiting" \in Unpaused /\ \A h : Running(h) \in Unpaused
    BY DEF Running, Unpaused
  <1>o. About(c)' \subseteq Open'
    BY DEF Open
  <1>s. ASSUME NEW op \in {"Pause", "Add"}, NEW pc, pc # "idle", NEW t, Send(c, op, pc, g, t)
        PROVE  g \in About(c)'
    <2>1. req'[c].op = op /\ req'[c].pc = pc /\ req'[c].gid = g
      BY <1>s, <1>t DEF Send
    <2> QED
      BY <1>s, <2>1 DEF About
  <1>a. ASSUME NEW op \in {"PauseAll", "ResumeAll"}, NEW torrents, SendToAll(c, op, torrents)
        PROVE  g \in About(c)'
    <2>1. req'[c].op = op /\ req'[c].pc # "idle"
      BY <1>a, <1>t DEF SendToAll, NoRequest
    <2> QED
      BY <2>1 DEF About
  <1>1. ASSUME NEW h \in Gid, Pause(c, h) PROVE Allowed(g)
    <2>1. queue' = queue /\ aria[h] \in Unpaused /\ aria'[h] = "paused"
      BY <1>1, <1>t DEF Pause
    <2>2. h # g => aria'[g] = aria[g]
      BY <1>1 DEF Pause
    <2>3. h = g => g \in About(c)'
      BY <1>1, <1>s DEF Pause
    <2> QED
      BY <1>o, <2>1, <2>2, <2>3, AllowedChanges
  <1>2. ASSUME NEW h \in Gid, AddPaused(c, h) PROVE Allowed(g)
    <2>1. queue' = queue /\ aria[h] = "none" /\ aria'[h] \in {"active", "paused"} /\ ~queue[h].held
      BY <1>2, <1>t DEF AddPaused, OwnedInv, UnknownNotHeld
    <2>2. h # g => aria'[g] = aria[g]
      BY <1>2 DEF AddPaused
    <2>3. h = g => g \in About(c)'
      BY <1>2, <1>s DEF AddPaused
    <2> QED
      BY <1>u, <1>o, <2>1, <2>2, <2>3, AllowedChanges
  <1>3. ASSUME NEW h \in Gid, Cancel(c, h) PROVE Allowed(g)
    <2>1. /\ queue' = queue /\ (h # g => aria'[g] = aria[g])
          /\ aria[h] \in Pending /\ aria'[h] \in {"gone", "removed"}
      BY <1>3, <1>t DEF Cancel
    <2> QED
      BY <2>1, AllowedChanges DEF Over, Stopped
  <1>4. ASSUME NEW h \in Gid, NEW b \in Target, Add(c, h, b) PROVE Allowed(g)
    <2>1. /\ queue' = queue /\ (h # g => aria'[g] = aria[g])
          /\ aria[h] = "none" /\ aria'[h] = Running(h)
      BY <1>4, <1>t DEF Add
    <2> QED
      BY <1>u, <2>1, AllowedChanges
  <1>5. ASSUME NEW h \in Gid, NEW b \in Target, SetBatch(c, h, b) PROVE Allowed(g)
    <2>1. aria' = aria /\ queue'[g].held = queue[g].held
      BY <1>5, <1>t DEF SetBatch, Queue, Entry
    <2> QED
      BY <2>1, AllowedChanges
  <1>6. CASE \/ \E h \in Gid : Resume(c, h) \/ RemoveHistory(c, h)
             \/ (\E t \in Target : HoldBatch(c, t) \/ StartBatch(c, t)) \/ PurgeHistory(c)
    <2>1. aria' = aria /\ queue' = queue
      BY <1>6 DEF Resume, RemoveHistory, HoldBatch, StartBatch, PurgeHistory
    <2> QED
      BY <2>1, AllowedChanges
  <1>7. CASE PauseAll(c) \/ ResumeAll(c)
    <2>1. g \in About(c)' /\ queue' = queue
      BY <1>7, <1>a DEF PauseAll, ResumeAll
    <2>2. \/ aria'[g] = aria[g]
          \/ aria[g] \in Unpaused /\ aria'[g] = "paused"
          \/ aria[g] = "paused" /\ aria'[g] \in Unpaused
      BY <1>7, <1>u DEF PauseAll, ResumeAll, WithStatus
    <2> QED
      BY <1>o, <2>1, <2>2, AllowedChanges
  <1> QED
    BY <1>1, <1>2, <1>3, <1>4, <1>5, <1>6, <1>7 DEF NewRequest

(* and so do aria2 and the clock. *)
LEMMA EnvironmentAllowed ==
  ASSUME TypeOK, Environment, NEW g \in Gid
  PROVE  Allowed(g)
  <1> USE DEF ariaVars, storeVars, ghosts
  <1>1. PICK h \in Gid : Begin(h) \/ Finish(h)
    BY DEF Environment
  <1>2. queue' = queue
    BY <1>1 DEF Begin, Finish
  <1>3. \/ aria'[g] = aria[g]
        \/ aria[g] \in Unpaused /\ aria'[g] \in Unpaused \cup {"complete", "error"}
        \/ aria[g] = "none" /\ aria'[g] \in Unpaused
    BY <1>1 DEF Begin, Finish, TypeOK, Running, Unpaused
  <1> QED
    BY <1>2, <1>3, AllowedChanges DEF Over, Stopped, Pending

-----------------------------------------------------------------------------
(***************************************************************************)
(* Both invariants hold together, and the abstract specification follows   *)
(* every step.                                                             *)
(***************************************************************************)
THEOREM RequestsAreServed == CalmSpec => [](TypeOK /\ OwnedInv /\ ServedInv)
  <1>1. Init => TypeOK /\ OwnedInv /\ ServedInv
    BY InitType, OwnedInit, ServedInit
  <1>2. TypeOK /\ OwnedInv /\ ServedInv /\ [Calm]_vars => (TypeOK /\ OwnedInv /\ ServedInv)'
    <2>1. ASSUME TypeOK, OwnedInv, ServedInv, UNCHANGED vars PROVE (TypeOK /\ OwnedInv /\ ServedInv)'
      <3>1. TypeOK' /\ OwnedInv'
        BY <2>1 DEF vars, TypeOK, OwnedInv, OwnedPauses, UnknownNotHeld, HeldAreListed,
                    PlansAreListed, HistoryIsOver, ForgottenAreOver, Paused
      <3>2. ServedInv'
        BY <2>1 DEF vars, ServedInv, OpsFit, JobsFit, ReleasesFit, MayStart, Cleared, About
      <3> QED
        BY <3>1, <3>2
    <2>2. ASSUME TypeOK, OwnedInv, ServedInv, Calm PROVE TypeOK' /\ OwnedInv' /\ ServedInv'
      <3>1. TypeOK'
        BY <2>2, CalmType
      <3>2. OwnedInv'
        <4>1. CASE RefreshStep
          BY <2>2, <4>1, OwnedRefresh DEF RefreshStep
        <4> QED
          BY <2>2, <4>1, OwnedContinue, OwnedNewRequest, OwnedEnvironment DEF Calm
      <3>3. ServedInv'
        BY <2>2, ServedRefresh, ServedRequests, ServedEnvironment DEF Calm
      <3> QED
        BY <3>1, <3>2, <3>3
    <2> QED
      BY <2>1, <2>2
  <1> QED
    BY <1>1, <1>2, PTL DEF CalmSpec

(***************************************************************************)
(* The batch queue implements PauseOwnership, for any downloads, torrents, *)
(* clients and requests.                                                   *)
(***************************************************************************)
THEOREM QueueImplementsOwnership == CalmSpec => PausesHaveOwners
  <1> DEFINE phases == [g \in Gid |-> Phase(g)]
  <1>1. Init => phases \in [Gid -> Ownership!Phase \ {"done"}] /\ Open = {}
    <2> SUFFICES ASSUME Init PROVE phases \in [Gid -> Ownership!Phase \ {"done"}] /\ Open = {}
      OBVIOUS
    <2>1. \A g \in Gid : aria[g] \in {"none", "waiting", "paused"}
      BY DEF Init, Saved
    <2>2. \A g \in Gid : Phase(g) \in Ownership!Phase \ {"done"}
      BY <2>1 DEF Phase, Ownership!Phase, Unpaused
    <2>3. Open = {}
      BY DEF Open, About, Init, NoRequest
    <2> QED
      BY <2>2, <2>3
  <1>2. TypeOK /\ OwnedInv /\ ServedInv /\ TypeOK' /\ Calm =>
            /\ Open' \subseteq Gid
            /\ phases' \in [Gid -> Ownership!Phase]
            /\ \A g \in Gid : Allowed(g)
    <2> SUFFICES ASSUME TypeOK, OwnedInv, ServedInv, TypeOK', Calm
                 PROVE  /\ Open' \subseteq Gid
                        /\ phases' \in [Gid -> Ownership!Phase]
                        /\ \A g \in Gid : Allowed(g)
      OBVIOUS
    <2>1. Open' \subseteq Gid
      BY DEF Open, About
    <2>2. phases' \in [Gid -> Ownership!Phase]
      BY DEF Phase, Ownership!Phase
    <2>3. \A g \in Gid : Allowed(g)
      BY RefreshAllowed, ContinueAllowed, NewRequestAllowed, EnvironmentAllowed DEF Calm
    <2> QED
      BY <2>1, <2>2, <2>3
  <1>3. Init => Ownership!Init
    BY <1>1 DEF Ownership!Init, Open
  <1>4. TypeOK /\ OwnedInv /\ ServedInv /\ TypeOK' /\ [Calm]_vars =>
            [Ownership!Next]_<<phases, Open>>
    <2> SUFFICES ASSUME TypeOK, OwnedInv, ServedInv, TypeOK', [Calm]_vars
                 PROVE  [Ownership!Next]_<<phases, Open>>
      OBVIOUS
    <2>1. CASE UNCHANGED vars
      BY <2>1 DEF vars, Phase, Open, About
    <2>2. CASE Calm
      BY <1>2, <2>2 DEF Ownership!Next, Allowed, Open
    <2> QED
      BY <2>1, <2>2
  <1> QED
    BY <1>3, <1>4, RequestsAreServed, PTL DEF CalmSpec, PausesHaveOwners, Ownership!Spec, Open
=============================================================================
