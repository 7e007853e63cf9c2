----------------------------- MODULE BatchQueue -----------------------------
(***************************************************************************)
(* The batch queue of the daemon: the refresh loop and the request         *)
(* handlers of src/daemon/reconcile.rs over the bookkeeping of             *)
(* src/daemon/queue.rs, next to an aria2 process that moves on its own.    *)
(*                                                                         *)
(* A refresh holds the runtime mutex from its first RPC to its last step,  *)
(* so at most one refresh or queue request is in progress: rt.  A client's *)
(* request goes through several awaits; between any two of them the ticker *)
(* or another client may run.  Torrents live in the embedded engine, whose *)
(* calls need no runtime mutex.                                            *)
(***************************************************************************)
EXTENDS BatchPolicy

CONSTANTS
    Torrents,       \* gids served by the embedded torrent engine
    Parent,         \* the download each download follows, or NoGid
    Clients,        \* connections that send requests
    Ticker,         \* the task of the daemon's poll loop
    Slots,          \* downloads aria2 runs at once
    MaxRequests,    \* bound: requests sent in a behaviour
    MaxTimeouts,    \* bound: RPCs whose reply is lost
    MaxAriaExits,   \* bound: unexpected ends of the aria2 process
    MaxDaemonExits  \* bound: ends of the daemon

ASSUME QueueAssumption ==
    /\ Torrents \subseteq Gid
    /\ Parent \in [Gid -> Gid \cup {NoGid}]
    /\ Ticker \notin Clients
    /\ Slots \in Nat /\ MaxRequests \in Nat
    /\ MaxTimeouts \in Nat /\ MaxAriaExits \in Nat /\ MaxDaemonExits \in Nat

VARIABLES
    aria,       \* what the engines do with each download
    session,    \* aria2's saved session: how each download comes back
    up,         \* the aria2 process is alive
    queue,      \* QueueState in memory; NoEntry is an absent entry
    disk,       \* queue-state.json
    snap,       \* current_downloads of the last published snapshot
    history,    \* gids in history_downloads
    rt,         \* the holder of the runtime mutex and how far it is
    req,        \* the request each client is waiting for
    issued,     \* number of requests sent
    faults,     \* number of faults of each kind so far
    owned,      \* history: downloads whose pause is the user's doing
    stands,     \* history: clients whose pause has stood since they marked it
    acked       \* history: downloads whose pause request has been carried out

ariaVars == <<aria, session, up>>
storeVars == <<queue, disk>>
ghosts == <<owned, stands, acked>>
vars == <<aria, session, up, queue, disk, snap, history, rt, req, issued, faults,
          owned, stands, acked>>

AriaGid == Gid \ Torrents
AriaStatus == Pending \cup Stopped \cup {"none", "gone"}
Saved == {"absent", "waiting", "paused"}
EmptyListing == [g \in {} |-> NoEntry]

Idle == [pc |-> "idle", by |-> Ticker, job |-> "refresh", view |-> EmptyListing,
         stopped |-> {}, todo |-> {}, applied |-> FALSE, failed |-> FALSE]

NoRequest == [op |-> "none", pc |-> "idle", gid |-> NoGid, target |-> Unassigned,
              acts |-> {}, left |-> {}]

Ops == {"none", "Pause", "Resume", "PauseAll", "ResumeAll", "SetBatch", "HoldBatch",
        "StartBatch", "Add", "Cancel", "RemoveHistory", "PurgeHistory"}
RequestPc == {"idle", "mark", "unpause", "plan", "queue", "applying", "torrents", "pause",
              "save", "clear", "remember", "forget", "rpc", "refresh", "refreshing"}
RuntimePc == {"idle", "waiting", "stopped", "merge", "plan", "apply", "publish"}

Request == [op : Ops, pc : RequestPc, gid : Gid \cup {NoGid}, target : Target,
            acts : SUBSET Action, left : SUBSET Gid]
Runtime(view) == [pc : RuntimePc, by : Clients \cup {Ticker}, job : {"refresh", "request"},
                  view : {view}, stopped : SUBSET Gid, todo : SUBSET Action,
                  applied : BOOLEAN, failed : BOOLEAN]

TypeOK ==
    /\ aria \in [Gid -> AriaStatus]
    /\ session \in [Gid -> Saved]
    /\ up \in BOOLEAN
    /\ queue \in Queue /\ disk \in Queue
    /\ IsListing(snap)
    /\ history \subseteq Gid
    /\ rt \in Runtime(rt.view) /\ IsListing(rt.view)
    /\ req \in [Clients -> Request]
    /\ issued \in 0 .. MaxRequests
    /\ faults \in [timeouts : Nat, ariaExits : Nat, daemonExits : Nat]
    /\ owned \subseteq Gid /\ stands \subseteq Clients /\ acked \subseteq Gid

(***************************************************************************)
(* Locks and calls.                                                        *)
(***************************************************************************)
QueueFree == rt.pc # "apply"
CanCall(g) == g \in Torrents \/ (rt.pc = "idle" /\ up)

ItemOf(g) == [status |-> aria[g], batch |-> Unassigned, held |-> FALSE, parent |-> Parent[g]]
WithStatus(S, statuses) == {g \in S : aria[g] \in statuses}
Listed(items, S) ==
    [g \in DOMAIN items \cup S |-> IF g \in DOMAIN items THEN items[g] ELSE ItemOf(g)]

Running(g) == IF g \in Torrents THEN "active" ELSE "waiting"

(***************************************************************************)
(* A fresh daemon: aria2 has loaded its session, queue-state.json has been *)
(* read, nothing has been published yet.  Pauses the scheduler does not    *)
(* claim were made by the user of an earlier run.                          *)
(***************************************************************************)
Init ==
    /\ session \in {s \in [Gid -> Saved] :
                        \A g \in Gid : g \in Torrents \/ Parent[g] # NoGid => s[g] = "absent"}
    /\ aria = [g \in Gid |-> IF session[g] = "absent" THEN "none" ELSE session[g]]
    /\ up = TRUE
    /\ queue \in {q \in Queue : \A g \in Gid : session[g] = "absent" => q[g] = NoEntry}
    /\ disk = queue
    /\ snap = EmptyListing
    /\ history = {}
    /\ rt = Idle
    /\ req = [c \in Clients |-> NoRequest]
    /\ issued = 0
    /\ faults = [timeouts |-> 0, ariaExits |-> 0, daemonExits |-> 0]
    /\ owned = {g \in Gid : aria[g] = "paused" /\ ~queue[g].held}
    /\ acked = owned /\ stands = {}

(* A pause no longer stands once its download runs again. *)
PausesStand == stands' = {c \in stands : aria'[req[c].gid] \notin Unpaused}

Ended(c) == req' = [req EXCEPT ![c] = NoRequest]
Goto(c, pc) == req' = [req EXCEPT ![c].pc = pc]

-----------------------------------------------------------------------------
(***************************************************************************)
(* The refresh: perform_refresh, one action per await that matters.        *)
(***************************************************************************)
TellActive(p) ==
    /\ rt.pc = "idle" /\ up
    /\ p \in Clients => req[p].pc = "refresh"
    /\ rt' = [Idle EXCEPT !.pc = "waiting", !.by = p,
                          !.view = Listed(EmptyListing, WithStatus(AriaGid, {"active"}))]
    /\ req' = IF p \in Clients THEN [req EXCEPT ![p].pc = "refreshing"] ELSE req
    /\ stands' = stands \ {p}
    /\ acked' = IF p \in stands /\ req[p].gid \in owned
                   /\ (req[p].gid \in Torrents \/ session[req[p].gid] = "paused")
                THEN acked \cup {req[p].gid} ELSE acked
    /\ UNCHANGED <<ariaVars, storeVars, snap, history, issued, faults, owned>>

TellWaiting ==
    /\ rt.pc = "waiting" /\ up
    /\ rt' = [rt EXCEPT !.pc = "stopped",
                        !.view = Listed(@, WithStatus(AriaGid, {"waiting", "paused"}))]
    /\ UNCHANGED <<ariaVars, storeVars, snap, history, req, issued, faults, ghosts>>

TellStopped ==
    /\ rt.pc = "stopped" /\ up
    /\ rt' = [rt EXCEPT !.pc = "merge", !.stopped = WithStatus(AriaGid, Stopped)]
    /\ UNCHANGED <<ariaVars, storeVars, snap, history, req, issued, faults, ghosts>>

(* Torrent lists, merge_terminal_events, attach_metadata. *)
MergeLists ==
    /\ rt.pc = "merge"
    /\ LET view == Listed(rt.view, WithStatus(Torrents, Pending))
           merged == history \cup rt.stopped \cup WithStatus(Torrents, Stopped)
       IN  /\ history' = merged
           /\ rt' = [rt EXCEPT !.pc = "plan", !.stopped = merged,
                               !.view = AttachMetadata(queue, view)]
    /\ UNCHANGED <<ariaVars, storeVars, snap, req, issued, faults, ghosts>>

Plan ==
    /\ rt.pc = "plan"
    /\ LET todo == PlanBatchPolicy(rt.view)
       IN  rt' = [rt EXCEPT !.todo = todo, !.pc = IF todo = {} THEN "publish" ELSE "apply"]
    /\ UNCHANGED <<ariaVars, storeVars, snap, history, req, issued, faults, ghosts>>

(***************************************************************************)
(* apply_queue_actions: one engine call after the other, under the queue   *)
(* lock.  A call that fails leaves its download as it was.                 *)
(***************************************************************************)
Accepted(a) ==
    CASE a.kind = "KeepPausedByUser" -> TRUE
      [] a.kind = "Release" -> (a.gid \in Torrents \/ up) /\ aria[a.gid] = "paused"
      [] OTHER -> (a.gid \in Torrents \/ up) /\ aria[a.gid] \in Unpaused

Effect(a) ==
    CASE a.kind = "KeepPausedByUser" -> aria[a.gid]
      [] a.kind = "Release" -> Running(a.gid)
      [] OTHER -> "paused"

OwnedAfter(a) ==
    IF a.kind \in {"KeepPausedByUser", "HoldByUser"} THEN owned \cup {a.gid}
    ELSE owned \ {a.gid}

ApplyAccepted(a) ==
    /\ rt.pc = "apply" /\ a \in rt.todo
    /\ Accepted(a)
    /\ aria' = [aria EXCEPT ![a.gid] = Effect(a)]
    /\ queue' = [queue EXCEPT ![a.gid].held = (a.kind = "Hold")]
    /\ rt' = [rt EXCEPT !.todo = @ \ {a}, !.applied = TRUE,
                        !.view = [g \in DOMAIN @ |-> IF g = a.gid THEN Carried(@[g], a.kind)
                                                     ELSE @[g]]]
    /\ owned' = OwnedAfter(a) /\ PausesStand
    /\ acked' = IF rt.job = "request" THEN acked \ {a.gid} ELSE acked
    /\ UNCHANGED <<session, up, disk, snap, history, req, issued, faults>>

ApplyRefused(a) ==
    /\ rt.pc = "apply" /\ a \in rt.todo
    /\ ~Accepted(a)
    /\ rt' = [rt EXCEPT !.todo = @ \ {a}, !.failed = TRUE]
    /\ UNCHANGED <<ariaVars, storeVars, snap, history, req, issued, faults, ghosts>>

EndApplyUnsaved ==
    /\ rt.pc = "apply" /\ rt.todo = {}
    /\ IF rt.job = "refresh"
       THEN rt' = [rt EXCEPT !.pc = "publish"] /\ req' = req
       ELSE /\ rt' = Idle
            /\ IF rt.failed THEN Ended(rt.by) ELSE Goto(rt.by, "refresh")
    /\ UNCHANGED <<ariaVars, storeVars, snap, history, issued, faults, ghosts>>

EndApply ==
    /\ rt.pc = "apply" /\ rt.todo = {}
    /\ disk' = IF rt.applied THEN queue ELSE disk
    /\ IF rt.job = "refresh"
       THEN rt' = [rt EXCEPT !.pc = "publish"] /\ req' = req
       ELSE /\ rt' = Idle
            /\ IF rt.failed THEN Ended(rt.by) ELSE Goto(rt.by, "refresh")
    /\ UNCHANGED <<ariaVars, queue, snap, history, issued, faults, ghosts>>

(* The snapshot is stored, then prune_queue_state keeps what it shows. *)
Shown == DOMAIN rt.view \cup rt.stopped
PublishPruningByOldSnapshot ==
    /\ rt.pc = "publish"
    /\ snap' = rt.view
    /\ queue' = [g \in Gid |-> IF g \in DOMAIN snap \cup history THEN queue[g] ELSE NoEntry]
    /\ disk' = IF queue' # queue THEN queue' ELSE disk
    /\ rt' = Idle
    /\ req' = IF rt.by \in Clients THEN [req EXCEPT ![rt.by] = NoRequest] ELSE req
    /\ UNCHANGED <<ariaVars, history, issued, faults, ghosts>>

Publish ==
    /\ rt.pc = "publish"
    /\ snap' = rt.view
    /\ LET live == Shown \cup {Parent[g] : g \in Shown}
       IN  queue' = [g \in Gid |-> IF g \in live THEN queue[g] ELSE NoEntry]
    /\ disk' = IF queue' # queue THEN queue' ELSE disk
    /\ rt' = Idle
    /\ req' = IF rt.by \in Clients THEN [req EXCEPT ![rt.by] = NoRequest] ELSE req
    /\ UNCHANGED <<ariaVars, history, issued, faults, ghosts>>

-----------------------------------------------------------------------------
(***************************************************************************)
(* Requests.  A call the engine refuses ends the request with an error and *)
(* changes nothing, so only accepted calls are steps.                      *)
(***************************************************************************)
Send(c, op, pc, g, target) ==
    /\ req[c].pc = "idle"
    /\ issued < MaxRequests
    /\ issued' = issued + 1
    /\ req' = [req EXCEPT ![c] = [op |-> op, pc |-> pc, gid |-> g, target |-> target,
                                  acts |-> {}, left |-> {}]]

Pause(c, g) ==
    /\ CanCall(g) /\ aria[g] \in Unpaused
    /\ Send(c, "Pause", "mark", g, Unassigned)
    /\ aria' = [aria EXCEPT ![g] = "paused"]
    /\ owned' = owned \cup {g}
    /\ UNCHANGED <<session, up, storeVars, snap, history, rt, faults, stands, acked>>

MarkUnsaved(c) ==
    /\ req[c].pc = "mark" /\ QueueFree
    /\ queue' = [queue EXCEPT ![req[c].gid].held = FALSE]
    /\ owned' = owned \cup ({req[c].gid} \cap WithStatus(Gid, {"paused"}))
    /\ stands' = IF aria[req[c].gid] = "paused" THEN stands \cup {c} ELSE stands
    /\ Goto(c, IF req[c].gid \in Torrents THEN "refresh" ELSE "save")
    /\ UNCHANGED <<ariaVars, disk, snap, history, rt, issued, faults, acked>>

(* user_pause_download *)
Mark(c) ==
    /\ req[c].pc = "mark" /\ QueueFree
    /\ LET g == req[c].gid
       IN  /\ queue' = [queue EXCEPT ![g].held = FALSE]
           /\ disk' = IF queue[g].held THEN queue' ELSE disk
           /\ owned' = owned \cup ({g} \cap WithStatus(Gid, {"paused"}))
           /\ stands' = IF aria[g] = "paused" THEN stands \cup {c} ELSE stands
           /\ Goto(c, IF g \in Torrents THEN "refresh" ELSE "save")
    /\ UNCHANGED <<ariaVars, snap, history, rt, issued, faults, acked>>

(***************************************************************************)
(* Resuming a download the scheduler holds gives its batch the turn; the   *)
(* batch is the one recorded for this very gid (batch_target_of).          *)
(***************************************************************************)
Resume(c, g) ==
    /\ QueueFree /\ aria[g] # "none"
    /\ IF queue[g].held THEN Send(c, "Resume", "plan", g, queue[g].batch)
       ELSE Send(c, "Resume", "unpause", g, Unassigned)
    /\ UNCHANGED <<ariaVars, storeVars, snap, history, rt, faults, ghosts>>

Unpause(c) ==
    /\ req[c].pc = "unpause"
    /\ LET g == req[c].gid
       IN  \/ /\ CanCall(g) /\ aria[g] = "paused"
              /\ aria' = [aria EXCEPT ![g] = Running(g)]
              /\ owned' = owned \ {g} /\ acked' = acked \ {g} /\ PausesStand
              /\ Goto(c, IF g \in Torrents THEN "refresh" ELSE "save")
           \/ /\ g \in Torrents \/ rt.pc = "idle"
              /\ aria[g] # "paused" \/ ~up
              /\ Ended(c)
              /\ UNCHANGED <<aria, ghosts>>
    /\ UNCHANGED <<session, up, storeVars, snap, history, rt, issued, faults>>

SaveSession ==
    [g \in Gid |-> CASE g \in Torrents -> "absent"
                     [] aria[g] = "paused" -> "paused"
                     [] aria[g] \in Unpaused \cup {"error"} -> "waiting"
                     [] OTHER -> "absent"]

(* save_aria2_session; a failure is only logged. *)
Save(c) ==
    /\ req[c].pc = "save" /\ rt.pc = "idle"
    /\ session' = IF up THEN SaveSession ELSE session
    /\ Goto(c, CASE req[c].op \in {"Cancel", "RemoveHistory"} -> "forget"
                 [] req[c].op = "PauseAll" -> "clear"
                 [] OTHER -> "refresh")
    /\ UNCHANGED <<aria, up, storeVars, snap, history, rt, issued, faults, ghosts>>

(***************************************************************************)
(* Pause all and resume all: aria2 at once, then the torrents one by one.  *)
(***************************************************************************)
SendToAll(c, op, torrents) ==
    /\ req[c].pc = "idle"
    /\ issued < MaxRequests
    /\ issued' = issued + 1
    /\ req' = [req EXCEPT ![c] = [NoRequest EXCEPT !.op = op, !.left = torrents,
                                      !.pc = IF torrents = {} THEN "save" ELSE "torrents"]]

PauseAll(c) ==
    /\ rt.pc = "idle" /\ up
    /\ SendToAll(c, "PauseAll", WithStatus(Torrents, Unpaused))
    /\ aria' = [g \in Gid |-> IF g \in WithStatus(AriaGid, Unpaused) THEN "paused" ELSE aria[g]]
    /\ owned' = owned \cup WithStatus(AriaGid, Unpaused)
    /\ UNCHANGED <<session, up, storeVars, snap, history, rt, faults, stands, acked>>

ResumeAll(c) ==
    /\ rt.pc = "idle" /\ up
    /\ SendToAll(c, "ResumeAll", WithStatus(Torrents, {"paused"}))
    /\ aria' = [g \in Gid |-> IF g \in WithStatus(AriaGid, {"paused"}) THEN "waiting"
                              ELSE aria[g]]
    /\ owned' = owned \ AriaGid /\ acked' = acked \ AriaGid /\ PausesStand
    /\ UNCHANGED <<session, up, storeVars, snap, history, rt, faults>>

NextTorrent(c, t) ==
    /\ req[c].pc = "torrents" /\ t \in req[c].left
    /\ LET wanted == IF req[c].op = "PauseAll" THEN Unpaused ELSE {"paused"}
       IN  IF aria[t] \in wanted
           THEN /\ aria' = [aria EXCEPT ![t] = IF req[c].op = "PauseAll" THEN "paused"
                                               ELSE "active"]
                /\ req' = [req EXCEPT ![c].left = @ \ {t},
                                      ![c].pc = IF req[c].left = {t} THEN "save" ELSE @]
                /\ owned' = IF req[c].op = "PauseAll" THEN owned \cup {t} ELSE owned \ {t}
                /\ acked' = IF req[c].op = "PauseAll" THEN acked ELSE acked \ {t}
                /\ PausesStand
           ELSE Ended(c) /\ UNCHANGED <<aria, ghosts>>
    /\ UNCHANGED <<session, up, storeVars, snap, history, rt, issued, faults>>

(* clear_held: whatever the scheduler paused is the user's from now on. *)
ClearHeld(c) ==
    /\ req[c].pc = "clear" /\ QueueFree
    /\ queue' = [g \in Gid |-> [queue[g] EXCEPT !.held = FALSE]]
    /\ disk' = IF queue' # queue THEN queue' ELSE disk
    /\ owned' = owned \cup {g \in Gid : aria[g] = "paused" /\ queue[g].held}
    /\ Goto(c, "refresh")
    /\ UNCHANGED <<ariaVars, snap, history, rt, issued, faults, stands, acked>>

SetBatchUnvalidated(c, g, b) ==
    /\ QueueFree
    /\ Send(c, "SetBatch", "refresh", g, b)
    /\ queue' = [queue EXCEPT ![g].batch = b + 1]
    /\ disk' = queue'
    /\ UNCHANGED <<ariaVars, snap, history, rt, faults, ghosts>>

SetBatch(c, g, b) ==
    /\ QueueFree
    /\ Send(c, "SetBatch", "refresh", g, b)
    /\ queue' = [queue EXCEPT ![g].batch = b]
    /\ disk' = queue'
    /\ UNCHANGED <<ariaVars, snap, history, rt, faults, ghosts>>

HoldBatch(c, t) ==
    /\ Send(c, "HoldBatch", "plan", NoGid, t)
    /\ UNCHANGED <<ariaVars, storeVars, snap, history, rt, faults, ghosts>>

StartBatch(c, t) ==
    /\ Send(c, "StartBatch", "plan", NoGid, t)
    /\ UNCHANGED <<ariaVars, storeVars, snap, history, rt, faults, ghosts>>

(* The plan is made from the published snapshot, before the mutex is taken. *)
PlanRequest(c) ==
    /\ req[c].pc = "plan"
    /\ LET acts == IF req[c].op = "HoldBatch" THEN PlanHoldBatch(snap, req[c].target)
                   ELSE PlanStartBatch(snap, req[c].target)
       IN  req' = [req EXCEPT ![c].acts = acts,
                              ![c].pc = IF acts = {} THEN "refresh" ELSE "queue"]
    /\ UNCHANGED <<ariaVars, storeVars, snap, history, rt, issued, faults, ghosts>>

(* apply_queue_request *)
TakeRuntime(c) ==
    /\ req[c].pc = "queue" /\ rt.pc = "idle"
    /\ rt' = [Idle EXCEPT !.pc = "apply", !.by = c, !.job = "request", !.todo = req[c].acts]
    /\ req' = [req EXCEPT ![c].pc = "applying", ![c].acts = {}]
    /\ UNCHANGED <<ariaVars, storeVars, snap, history, issued, faults, ghosts>>

(***************************************************************************)
(* AddHttpUrl carries a batch; AddDownload carries none but may ask aria2  *)
(* to add the download paused.                                             *)
(***************************************************************************)
Add(c, g, b) ==
    /\ CanCall(g) /\ aria[g] = "none" /\ Parent[g] = NoGid
    /\ Send(c, "Add", "remember", g, b)
    /\ aria' = [aria EXCEPT ![g] = Running(g)]
    /\ UNCHANGED <<session, up, storeVars, snap, history, rt, faults, ghosts>>

AddPaused(c, g) ==
    /\ CanCall(g) /\ aria[g] = "none" /\ Parent[g] = NoGid
    /\ Send(c, "Add", IF g \in Torrents THEN "pause" ELSE "save", g, Unassigned)
    /\ aria' = [aria EXCEPT ![g] = IF g \in Torrents THEN "active" ELSE "paused"]
    /\ owned' = owned \cup ({g} \ Torrents)
    /\ UNCHANGED <<session, up, storeVars, snap, history, rt, faults, stands, acked>>

(* A torrent is added running and paused by a second call. *)
PauseAdded(c) ==
    /\ req[c].pc = "pause"
    /\ LET t == req[c].gid
       IN  /\ t \in Torrents
           /\ IF aria[t] \in Unpaused
              THEN /\ aria' = [aria EXCEPT ![t] = "paused"]
                   /\ owned' = owned \cup {t}
                   /\ Goto(c, "save")
              ELSE Ended(c) /\ UNCHANGED <<aria, owned>>
    /\ UNCHANGED <<session, up, storeVars, snap, history, rt, issued, faults, stands, acked>>

(* remember_download_batch *)
Remember(c) ==
    /\ req[c].pc = "remember" /\ QueueFree
    /\ LET g == req[c].gid
           b == req[c].target
       IN  /\ queue' = IF b = Unassigned THEN queue ELSE [queue EXCEPT ![g].batch = b]
           /\ disk' = IF b = Unassigned THEN disk ELSE queue'
           /\ Goto(c, IF g \in Torrents THEN "refresh" ELSE "save")
    /\ UNCHANGED <<ariaVars, snap, history, rt, issued, faults, ghosts>>

Cancel(c, g) ==
    /\ CanCall(g) /\ aria[g] \in Pending
    /\ Send(c, "Cancel", IF g \in Torrents THEN "forget" ELSE "save", g, Unassigned)
    /\ aria' = [aria EXCEPT ![g] = IF g \in Torrents THEN "gone" ELSE "removed"]
    /\ UNCHANGED <<session, up, storeVars, snap, history, rt, faults, ghosts>>

(* The front ends offer it for the entries of the history. *)
RemoveHistory(c, g) ==
    /\ g \in history
    /\ Send(c, "RemoveHistory", IF g \in Torrents THEN "forget" ELSE "rpc", g, Unassigned)
    /\ history' = history \ {g}
    /\ UNCHANGED <<ariaVars, storeVars, snap, rt, faults, ghosts>>

PurgeHistory(c) ==
    /\ Send(c, "PurgeHistory", "rpc", NoGid, Unassigned)
    /\ history' = {}
    /\ UNCHANGED <<ariaVars, storeVars, snap, rt, faults, ghosts>>

(* removeDownloadResult or purgeDownloadResult; a failure is only logged. *)
RemoveResult(c) ==
    /\ req[c].pc = "rpc" /\ rt.pc = "idle"
    /\ LET dropped == IF req[c].op = "PurgeHistory" THEN AriaGid ELSE {req[c].gid}
       IN  aria' = [g \in Gid |-> IF up /\ g \in dropped /\ aria[g] \in Stopped THEN "gone"
                                  ELSE aria[g]]
    /\ Goto(c, "save")
    /\ UNCHANGED <<session, up, storeVars, snap, history, rt, issued, faults, ghosts>>

(* forget_download_queue *)
Forget(c) ==
    /\ req[c].pc = "forget" /\ QueueFree
    /\ queue' = [queue EXCEPT ![req[c].gid] = NoEntry]
    /\ disk' = IF queue' # queue THEN queue' ELSE disk
    /\ Goto(c, "refresh")
    /\ UNCHANGED <<ariaVars, snap, history, rt, issued, faults, ghosts>>

-----------------------------------------------------------------------------
(***************************************************************************)
(* aria2 and the torrent engine on their own.  A download that completes   *)
(* may be followed by others (the content of a torrent or metalink).       *)
(***************************************************************************)
Begin(g) ==
    /\ up /\ g \in AriaGid /\ aria[g] = "waiting"
    /\ Cardinality(WithStatus(AriaGid, {"active"})) < Slots
    /\ aria' = [aria EXCEPT ![g] = "active"]
    /\ UNCHANGED <<session, up, storeVars, snap, history, rt, req, issued, faults, ghosts>>

Finish(g) ==
    /\ g \in Torrents \/ up
    /\ aria[g] = "active"
    /\ \/ aria' = [h \in Gid |-> IF h = g THEN "complete"
                                 ELSE IF Parent[h] = g /\ aria[h] = "none" THEN Running(h)
                                 ELSE aria[h]]
       \/ aria' = [aria EXCEPT ![g] = "error"]
    /\ UNCHANGED <<session, up, storeVars, snap, history, rt, req, issued, faults, ghosts>>

-----------------------------------------------------------------------------
(***************************************************************************)
(* Faults.                                                                 *)
(***************************************************************************)
(* The engine carried an action out but its reply came too late. *)
ReplyLost(a) ==
    /\ faults.timeouts < MaxTimeouts
    /\ rt.pc = "apply" /\ a \in rt.todo
    /\ a.kind # "KeepPausedByUser" /\ Accepted(a)
    /\ aria' = [aria EXCEPT ![a.gid] = Effect(a)]
    /\ rt' = [rt EXCEPT !.todo = @ \ {a}, !.failed = TRUE]
    /\ faults' = [faults EXCEPT !.timeouts = @ + 1]
    /\ owned' = IF a.kind = "Release" THEN owned \ {a.gid} ELSE owned
    /\ PausesStand
    /\ acked' = IF rt.job = "request" THEN acked \ {a.gid} ELSE acked
    /\ UNCHANGED <<session, up, storeVars, snap, history, req, issued>>

(* An RPC of the refresh fails: the refresh gives up, its client gets an error. *)
FetchFails ==
    /\ rt.pc \in {"waiting", "stopped", "merge"}
    /\ \/ ~up /\ UNCHANGED faults
       \/ /\ faults.timeouts < MaxTimeouts
          /\ faults' = [faults EXCEPT !.timeouts = @ + 1]
    /\ rt' = Idle
    /\ req' = IF rt.by \in Clients THEN [req EXCEPT ![rt.by] = NoRequest] ELSE req
    /\ UNCHANGED <<ariaVars, storeVars, snap, history, issued, ghosts>>

(* aria2 saves its session every few seconds; only worth a step before an exit. *)
Autosave ==
    /\ up
    /\ faults.ariaExits < MaxAriaExits \/ faults.daemonExits < MaxDaemonExits
    /\ session' = SaveSession
    /\ UNCHANGED <<aria, up, storeVars, snap, history, rt, req, issued, faults, ghosts>>

AriaExit ==
    /\ up /\ faults.ariaExits < MaxAriaExits
    /\ up' = FALSE
    /\ faults' = [faults EXCEPT !.ariaExits = @ + 1]
    /\ UNCHANGED <<aria, session, storeVars, snap, history, rt, req, issued, ghosts>>

(* What a new aria2 process knows: the session file it is given. *)
Reloaded ==
    [g \in Gid |-> CASE g \in Torrents \/ aria[g] = "none" -> aria[g]
                     [] session[g] = "absent" -> "gone"
                     [] OTHER -> session[g]]

(* check_child_exit, at the start of the next refresh *)
Respawn ==
    /\ ~up /\ rt.pc = "idle"
    /\ up' = TRUE
    /\ aria' = Reloaded /\ PausesStand
    /\ owned' = {g \in owned : Reloaded[g] = "paused"}
    /\ UNCHANGED <<session, storeVars, snap, history, rt, req, issued, faults, acked>>

(* The daemon ends and is started again by its service manager. *)
DaemonExit ==
    /\ faults.daemonExits < MaxDaemonExits
    /\ faults' = [faults EXCEPT !.daemonExits = @ + 1]
    /\ up' = TRUE
    /\ aria' = Reloaded
    /\ queue' = disk
    /\ snap' = EmptyListing
    /\ rt' = Idle
    /\ req' = [c \in Clients |-> NoRequest]
    /\ owned' = {g \in owned : Reloaded[g] = "paused"} /\ stands' = {}
    /\ UNCHANGED <<session, disk, history, issued, acked>>

-----------------------------------------------------------------------------
RefreshStep ==
    \/ TellActive(Ticker) \/ TellWaiting \/ TellStopped \/ MergeLists \/ Plan
    \/ \E a \in rt.todo : ApplyAccepted(a) \/ ApplyRefused(a)
    \/ EndApply \/ Publish

Continue(c) ==
    \/ Mark(c) \/ Unpause(c) \/ Save(c) \/ ClearHeld(c) \/ PlanRequest(c) \/ TakeRuntime(c)
    \/ PauseAdded(c) \/ Remember(c) \/ RemoveResult(c) \/ Forget(c) \/ TellActive(c)
    \/ \E t \in Torrents : NextTorrent(c, t)

NewRequest(c) ==
    \/ \E g \in Gid : \/ Pause(c, g) \/ Resume(c, g) \/ AddPaused(c, g)
                      \/ Cancel(c, g) \/ RemoveHistory(c, g)
                      \/ \E b \in Target : SetBatch(c, g, b) \/ Add(c, g, b)
    \/ \E t \in Target : HoldBatch(c, t) \/ StartBatch(c, t)
    \/ PauseAll(c) \/ ResumeAll(c) \/ PurgeHistory(c)

Environment == \E g \in Gid : Begin(g) \/ Finish(g)

Calm == RefreshStep \/ (\E c \in Clients : Continue(c) \/ NewRequest(c)) \/ Environment

Fault ==
    \/ \E a \in rt.todo : ReplyLost(a)
    \/ FetchFails \/ Autosave \/ AriaExit \/ Respawn \/ DaemonExit

Next == Calm \/ Fault

(* Without faults, and with them. *)
CalmSpec == Init /\ [][Calm]_vars
Spec == Init /\ [][Next]_vars
-----------------------------------------------------------------------------
Paused(g) == aria[g] = "paused"
Live == WithStatus(Gid, Pending)

(***************************************************************************)
(* Every pause has an owner: a paused download is either marked held, so   *)
(* the scheduler starts it again, or the user paused it.  Without faults   *)
(* no interleaving of refreshes and requests leaves a pause nobody will    *)
(* ever end (queue.rs, QueueEntry.held).                                   *)
(***************************************************************************)
OwnedPauses == \A g \in Gid : Paused(g) /\ ~queue[g].held => g \in owned

(***************************************************************************)
(* A pause request that has been carried out and saved, and that has stood *)
(* until its own refresh begins, holds until the user resumes the download *)
(* through restarts of aria2 and of the daemon and whatever the scheduler  *)
(* does.                                                                   *)
(***************************************************************************)
AckedPausesHold == \A g \in acked : aria[g] \notin Unpaused

(***************************************************************************)
(* queue-state.json lags behind memory only while actions are being        *)
(* applied, so an exit at any other moment loses no bookkeeping.           *)
(***************************************************************************)
SavedUnlessApplying == QueueFree => disk = queue

(***************************************************************************)
(* "Pause all" is final: until it has forgotten the scheduler's holds no   *)
(* refresh starts anything again (queue.rs:63).                            *)
(***************************************************************************)
PausingAll == \E c \in Clients : req[c].op = "PauseAll" /\ req[c].pc \in {"save", "clear"}
PauseAllSticks ==
    [][\A g \in Gid : Paused(g) /\ PausingAll => aria'[g] \notin Unpaused]_vars

(***************************************************************************)
(* The step that publishes a refresh and prunes the bookkeeping keeps the  *)
(* batch of every download that is unfinished (queue.rs:10).  Requests may *)
(* change batches at any moment, also while a refresh stands before this   *)
(* step: the property is about the refresh's own step only.                *)
(***************************************************************************)
Publishes == rt.pc = "publish" /\ rt'.pc = "idle"
RefreshKeepsBatches ==
    [][Publishes => \A g \in Live : queue'[g].batch = queue[g].batch]_vars

(***************************************************************************)
(* Resuming a download the scheduler holds starts it: the plan of the      *)
(* request releases the download it names (reconcile.rs:1010).             *)
(***************************************************************************)
ResumeStartsTheDownload ==
    \A c \in Clients :
        req[c].op = "Resume" /\ req[c].pc = "queue" =>
            LET g == req[c].gid
            IN  g \in DOMAIN snap /\ HeldPaused(snap[g])
                    => [kind |-> "Release", gid |-> g] \in req[c].acts

(***************************************************************************)
(* The queue implements PauseOwnership: no scheduler step ends a pause of  *)
(* the user or takes it over, unless a request about that very download is *)
(* still being served.                                                     *)
(***************************************************************************)
Phase(g) ==
    CASE aria[g] = "none" -> "none"
      [] aria[g] \in Unpaused -> "runs"
      [] aria[g] = "paused" -> IF queue[g].held THEN "held" ELSE "paused"
      [] OTHER -> "done"

About(c) ==
    CASE req[c].pc = "idle" \/ req[c].op = "SetBatch" -> {}
      [] req[c].op \in {"PauseAll", "ResumeAll", "HoldBatch", "StartBatch"} -> Gid
      [] req[c].op = "Resume" /\ req[c].pc \in {"plan", "queue", "applying"} -> Gid
      [] OTHER -> {req[c].gid} \cap Gid

Ownership == INSTANCE PauseOwnership WITH
    phase <- [g \in Gid |-> Phase(g)],
    open <- UNION {About(c) : c \in Clients}

PausesHaveOwners == Ownership!Spec

(***************************************************************************)
(* What the scheduling of the daemon justifies: the poll loop ticks for    *)
(* ever and awaits its RPCs, and a handler that can go on does.  Nobody    *)
(* has to send a request and a download may run for ever.                  *)
(***************************************************************************)
ScheduledSpec ==
    /\ CalmSpec
    /\ WF_vars(RefreshStep)
    /\ \A c \in Clients : WF_vars(Continue(c))

(* A download that is started also ends one way or the other. *)
DownloadsEnd == \A g \in Gid : WF_vars(Begin(g)) /\ WF_vars(Finish(g))

(***************************************************************************)
(* A download the scheduler holds does not wait for ever: its batch comes  *)
(* up, or the user takes the pause over (README.md:94, README.md:100).     *)
(***************************************************************************)
HeldGetsItsTurn ==
    DownloadsEnd => \A g \in Gid : (Paused(g) /\ queue[g].held) ~> ~(Paused(g) /\ queue[g].held)

(***************************************************************************)
(* However requests and refreshes crossed, once the requests stop the      *)
(* queue settles: from some point on only one batch has unpaused downloads *)
(* (README.md:93).  ScheduledSpec suffices: no download has to finish.     *)
(***************************************************************************)
Now == AttachMetadata(queue, Listed(EmptyListing, Live))
SettlesOnOneBatch == <>[](Cardinality(UnpausedBatches(Now)) <= 1)
=============================================================================
