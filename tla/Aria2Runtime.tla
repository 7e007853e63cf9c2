---------------------------- MODULE Aria2Runtime ----------------------------
(***************************************************************************)
(* The aria2 process the daemon keeps running and the settings it has to   *)
(* work under (src/daemon/reconcile.rs: ensure_runtime, spawn_runtime,     *)
(* check_child_exit, perform_refresh, run).  The poll loop and every       *)
(* request that changes a setting refresh at the same time; they meet at   *)
(* the runtime mutex, which check_child_exit gives up for a second between *)
(* noticing an exit and starting another process.                          *)
(***************************************************************************)
EXTENDS Naturals, FiniteSets

CONSTANTS
    Client,         \* clients whose requests change settings and refresh
    Limit,          \* effective_limit_bps; 0 is no limit
    Slots,          \* queue_slots
    MaxChanges,     \* BOUND: settings requests
    MaxFaults       \* BOUND: exits, failed spawns, calls and saves, daemon restarts

ASSUME RuntimeAssumption ==
    /\ 0 \in Limit /\ Limit \subseteq Nat
    /\ Slots # {} /\ Slots \subseteq 1 .. 16
    /\ "poll" \notin Client
    /\ {MaxChanges, MaxFaults} \subseteq Nat

Poller == "poll"
Refresher == Client \cup {Poller}

VARIABLES
    aria,           \* the process in the runtime slot, or NoAria
    spawning,       \* the process spawn_runtime waits for, or NoAria
    desired,        \* desired_limit_bps and desired_slots (0 is None)
    settings,       \* the settings in memory
    stateFile,      \* state.toml
    lifecycle,      \* aria2_status.lifecycle of the snapshot
    refresh,        \* where each refresh is, and the limit it has read
    daemonUp,
    marks,          \* history variable: what the properties except, see below
    budget          \* BOUND: changes and faults so far

runtimeVars == <<aria, spawning, desired, settings, stateFile, lifecycle, refresh, daemonUp,
                 marks, budget>>

Process == [alive : BOOLEAN, limit : Limit, slots : Slots \cup {0}]
NoAria == [alive |-> FALSE, limit |-> 0, slots |-> 0]
NoMarks == [unsaved |-> FALSE,      \* the last save of the settings failed
            misled |-> FALSE,       \* a respawn failed beside another process
            unlimited |-> FALSE,    \* the process is newer than desired_limit_bps
            fresh |-> {},           \* refreshes begun since the last change
            inForce |-> FALSE]      \* one of those has ended well

RuntimeTypeOK ==
    /\ {aria, spawning} \subseteq Process
    /\ desired \in [limit : Limit, slots : Slots \cup {0}]
    /\ {settings, stateFile} \subseteq [limit : Limit, slots : Slots]
    /\ lifecycle \in {"Starting", "Ready", "Restarting", "Failed"}
    /\ refresh \in [Refresher -> [pc : {"idle", "ensure", "spawn", "check", "window", "respawn",
                                        "take", "list", "limit", "slots"}, limit : Limit]]
    /\ daemonUp \in BOOLEAN
    /\ marks \in [unsaved : BOOLEAN, misled : BOOLEAN, unlimited : BOOLEAN,
                  fresh : SUBSET Refresher, inForce : BOOLEAN]
    /\ budget \in [changes : 0 .. MaxChanges, faults : 0 .. MaxFaults]
    /\ Cardinality({r \in Refresher : refresh[r].pc \in {"spawn", "respawn", "list", "limit", "slots"}}) <= 1

Resting == [r \in Refresher |-> [pc |-> "idle", limit |-> 0]]
RuntimeInit ==
    /\ aria = NoAria /\ spawning = NoAria
    /\ desired = [limit |-> 0, slots |-> 0]
    /\ settings = [limit |-> 0, slots |-> CHOOSE s \in Slots : TRUE] /\ stateFile = settings
    /\ lifecycle = "Starting" /\ refresh = Resting /\ daemonUp = TRUE
    /\ marks = NoMarks /\ budget = [changes |-> 0, faults |-> 0]

At(r, place) == refresh[r].pc = place
GoTo(r, place) == refresh' = [refresh EXCEPT ![r].pc = place]
RuntimeFree ==
    \A r \in Refresher : refresh[r].pc \notin {"spawn", "respawn", "list", "limit", "slots"}
Faulty == budget.faults < MaxFaults /\ budget' = [budget EXCEPT !.faults = @ + 1]

configured == <<settings, stateFile, daemonUp>>

-----------------------------------------------------------------------------
(* The settings requests and the poll loop start a refresh. *)

PollTick ==
    /\ daemonUp /\ At(Poller, "idle")
    /\ GoTo(Poller, "ensure")
    /\ marks' = [marks EXCEPT !.fresh = @ \cup {Poller}]
    /\ UNCHANGED <<aria, spawning, desired, lifecycle, configured, budget>>

(***************************************************************************)
(* Memory changes first; a save that fails ends the request with an error  *)
(* and leaves it changed.                                                  *)
(***************************************************************************)
MayChange(c) == daemonUp /\ At(c, "idle") /\ budget.changes < MaxChanges
Counted(cost) == budget' = [budget EXCEPT !.changes = @ + 1, !.faults = @ + cost]

ChangeUnsaved(c) ==
    /\ MayChange(c)
    /\ settings' \in [limit : Limit, slots : Slots] /\ settings' # settings
    /\ Counted(0) /\ GoTo(c, "ensure")
    /\ marks' = [marks EXCEPT !.unsaved = FALSE, !.fresh = {c}, !.inForce = FALSE]
    /\ UNCHANGED <<aria, spawning, desired, lifecycle, stateFile, daemonUp>>

ChangeSettings(c) ==
    /\ MayChange(c)
    /\ settings' \in [limit : Limit, slots : Slots] /\ settings' # settings
    /\ \/ /\ stateFile' = settings'
          /\ Counted(0) /\ GoTo(c, "ensure")
          /\ marks' = [marks EXCEPT !.unsaved = FALSE, !.fresh = {c}, !.inForce = FALSE]
       \/ /\ budget.faults < MaxFaults /\ Counted(1)
          /\ marks' = [marks EXCEPT !.unsaved = TRUE, !.fresh = {}, !.inForce = FALSE]
          /\ UNCHANGED <<stateFile, refresh>>
    /\ UNCHANGED <<aria, spawning, desired, lifecycle, daemonUp>>

-----------------------------------------------------------------------------
(***************************************************************************)
(* spawn_runtime, with the mutex held: the process starts with the slots   *)
(* of the settings and they are noted before it answers.                   *)
(***************************************************************************)
SpawnKeepingSlots(r, place, status) ==
    /\ lifecycle' = status
    /\ spawning' = [alive |-> TRUE, limit |-> 0, slots |-> settings.slots]
    /\ GoTo(r, place)
    /\ UNCHANGED <<aria, desired, configured, marks, budget>>

Spawn(r, place, status) ==
    /\ lifecycle' = status
    /\ spawning' = [alive |-> TRUE, limit |-> 0, slots |-> settings.slots]
    /\ desired' = [desired EXCEPT !.slots = settings.slots]
    /\ GoTo(r, place)
    /\ UNCHANGED <<aria, configured, marks, budget>>

(* A refresh that fails: a request is answered with it, the poll loop records it. *)
Fails(r, status) ==
    /\ GoTo(r, "idle")
    /\ lifecycle' = IF r = Poller THEN "Failed" ELSE status

EnsureRuntime(r) ==
    /\ At(r, "ensure") /\ RuntimeFree
    /\ IF aria = NoAria THEN Spawn(r, "spawn", "Starting")
       ELSE GoTo(r, "check") /\ UNCHANGED <<aria, spawning, desired, lifecycle, configured, marks, budget>>

(* aria2c cannot be started at all. *)
SpawnRefused(r) ==
    /\ RuntimeFree /\ Faulty
    /\ \/ At(r, "ensure") /\ aria = NoAria /\ Fails(r, "Starting")
       \/ At(r, "window") /\ Fails(r, "Restarting")
    /\ marks' = [marks EXCEPT !.fresh = @ \ {r}]
    /\ UNCHANGED <<aria, spawning, desired, configured>>

(* The slot's former process, if another request put one there, is killed. *)
SpawnReady(r) ==
    /\ refresh[r].pc \in {"spawn", "respawn"}
    /\ aria' = spawning /\ spawning' = NoAria
    /\ lifecycle' = "Ready"
    /\ GoTo(r, IF At(r, "spawn") THEN "check" ELSE "take")
    /\ marks' = [marks EXCEPT !.misled = FALSE, !.unlimited = desired.limit # 0]
    /\ UNCHANGED <<desired, configured, budget>>

(* No answer within ten seconds: the new process is killed, desired_slots stays. *)
SpawnFails(r) ==
    /\ refresh[r].pc \in {"spawn", "respawn"}
    /\ Faulty
    /\ spawning' = NoAria
    /\ Fails(r, lifecycle)
    /\ marks' = [marks EXCEPT !.fresh = @ \ {r}, !.misled = @ \/ aria # NoAria]
    /\ UNCHANGED <<aria, desired, configured>>

(* check_child_exit *)
ExitedUnlessFailed == aria # NoAria /\ ~aria.alive /\ lifecycle # "Failed"
Exited == aria # NoAria /\ ~aria.alive

FindRunning(r) ==
    /\ At(r, "check") /\ RuntimeFree /\ ~Exited
    /\ GoTo(r, "take")
    /\ UNCHANGED <<aria, spawning, desired, lifecycle, configured, marks, budget>>

NoticeExitQuietly(r) ==
    /\ At(r, "check") /\ RuntimeFree /\ Exited
    /\ aria' = NoAria
    /\ GoTo(r, "window")
    /\ UNCHANGED <<spawning, desired, lifecycle, configured, marks, budget>>

NoticeExit(r) ==
    /\ At(r, "check") /\ RuntimeFree /\ Exited
    /\ aria' = NoAria /\ lifecycle' = "Restarting"
    /\ GoTo(r, "window")
    /\ UNCHANGED <<spawning, desired, configured, marks, budget>>

Respawn(r) ==
    /\ At(r, "window") /\ RuntimeFree
    /\ Spawn(r, "respawn", "Restarting")

-----------------------------------------------------------------------------
(* The rest of perform_refresh keeps the mutex. *)

TakeRuntimeOf(r) ==
    /\ At(r, "take") /\ RuntimeFree
    /\ IF aria = NoAria
       THEN Fails(r, lifecycle) /\ marks' = [marks EXCEPT !.fresh = @ \ {r}]
       ELSE GoTo(r, "list") /\ UNCHANGED <<lifecycle, marks>>
    /\ UNCHANGED <<aria, spawning, desired, configured, budget>>

ListDownloads(r) ==
    /\ At(r, "list") /\ aria.alive
    /\ refresh' = [refresh EXCEPT ![r] = [pc |-> "limit", limit |-> settings.limit]]
    /\ UNCHANGED <<aria, spawning, desired, lifecycle, configured, marks, budget>>

ApplyLimit(r) ==
    /\ At(r, "limit")
    /\ IF desired.limit = refresh[r].limit THEN UNCHANGED <<aria, desired, marks>>
       ELSE /\ aria.alive
            /\ aria' = [aria EXCEPT !.limit = refresh[r].limit]
            /\ desired' = [desired EXCEPT !.limit = refresh[r].limit]
            /\ marks' = [marks EXCEPT !.unlimited = FALSE]
    /\ refresh' = [refresh EXCEPT ![r] = [pc |-> "slots", limit |-> 0]]
    /\ UNCHANGED <<spawning, lifecycle, configured, budget>>

(* Slots that cannot be set are left for a later refresh. *)
ApplySlots(r) ==
    /\ At(r, "slots") /\ GoTo(r, "idle")
    /\ \/ /\ desired.slots = settings.slots
          /\ marks' = [marks EXCEPT !.inForce = @ \/ r \in marks.fresh, !.fresh = @ \ {r}]
          /\ UNCHANGED <<aria, desired, budget>>
       \/ /\ desired.slots # settings.slots /\ aria.alive
          /\ aria' = [aria EXCEPT !.slots = settings.slots]
          /\ desired' = [desired EXCEPT !.slots = settings.slots]
          /\ marks' = [marks EXCEPT !.inForce = @ \/ r \in marks.fresh, !.fresh = @ \ {r},
                           !.misled = FALSE]
          /\ UNCHANGED budget
       \/ /\ desired.slots # settings.slots
          /\ IF aria.alive THEN Faulty ELSE UNCHANGED budget
          /\ marks' = [marks EXCEPT !.fresh = @ \ {r}]
          /\ UNCHANGED <<aria, desired>>
    /\ UNCHANGED <<spawning, lifecycle, configured>>

(* A call that gets no answer ends the refresh. *)
RefreshStops(r) ==
    /\ At(r, "list") \/ (At(r, "limit") /\ desired.limit # refresh[r].limit)
    /\ IF aria.alive THEN Faulty ELSE UNCHANGED budget
    /\ refresh' = [refresh EXCEPT ![r] = [pc |-> "idle", limit |-> 0]]
    /\ lifecycle' = IF r = Poller THEN "Failed" ELSE lifecycle
    /\ marks' = [marks EXCEPT !.fresh = @ \ {r}]
    /\ UNCHANGED <<aria, spawning, desired, configured>>

RefreshOf(r) ==
    \/ EnsureRuntime(r) \/ SpawnRefused(r) \/ SpawnReady(r) \/ SpawnFails(r)
    \/ FindRunning(r) \/ NoticeExit(r) \/ Respawn(r) \/ TakeRuntimeOf(r)
    \/ ListDownloads(r) \/ ApplyLimit(r) \/ ApplySlots(r) \/ RefreshStops(r)

-----------------------------------------------------------------------------
ProcessExits ==
    /\ aria.alive /\ Faulty
    /\ aria' = [aria EXCEPT !.alive = FALSE]
    /\ UNCHANGED <<spawning, desired, lifecycle, refresh, configured, marks>>

(* aria2 ends with its daemon. *)
DaemonStops ==
    /\ daemonUp /\ Faulty
    /\ daemonUp' = FALSE
    /\ aria' = NoAria /\ spawning' = NoAria
    /\ refresh' = Resting
    /\ UNCHANGED <<desired, settings, stateFile, lifecycle, marks>>

DaemonStarts ==
    /\ ~daemonUp /\ daemonUp' = TRUE
    /\ settings' = stateFile
    /\ desired' = [limit |-> 0, slots |-> 0]
    /\ lifecycle' = "Starting" /\ marks' = NoMarks
    /\ UNCHANGED <<aria, spawning, stateFile, refresh, budget>>

-----------------------------------------------------------------------------
RuntimeNext ==
    \/ PollTick
    \/ \E c \in Client : ChangeSettings(c)
    \/ \E r \in Refresher : RefreshOf(r)
    \/ ProcessExits \/ DaemonStops \/ DaemonStarts

RuntimeFairness ==
    /\ WF_runtimeVars(PollTick)
    /\ \A r \in Refresher : WF_runtimeVars(RefreshOf(r))

RuntimeSpec == RuntimeInit /\ [][RuntimeNext]_runtimeVars /\ RuntimeFairness

-----------------------------------------------------------------------------
(***************************************************************************)
(* Once a refresh begun after the last change of the settings has ended    *)
(* well, aria2 works under them, whatever exits, failed starts and other   *)
(* refreshes came between.  Two exceptions are the code's own: the slots   *)
(* of a process beside which a respawn failed (desired_slots was noted for *)
(* the process that never answered), and the limit of a process newer than *)
(* desired_limit_bps, which no respawn resets.                             *)
(***************************************************************************)
SettingsInForce ==
    marks.inForce /\ aria.alive =>
        /\ marks.misled \/ aria.slots = settings.slots
        /\ marks.unlimited \/ aria.limit = settings.limit

(***************************************************************************)
(* The snapshot calls the runtime ready only while there is a process.     *)
(***************************************************************************)
ReadyHasProcess == daemonUp /\ lifecycle = "Ready" => aria # NoAria

(***************************************************************************)
(* What the daemon works with is in state.toml, or the request that        *)
(* changed it was answered with an error.                                  *)
(***************************************************************************)
SettingsAreSaved == daemonUp /\ ~marks.unsaved => stateFile = settings

(***************************************************************************)
(* The daemon never stays without an aria2 that runs: the poll loop gives  *)
(* it another one whatever failed before.                                  *)
(***************************************************************************)
AriaComesBack == (daemonUp /\ ~aria.alive) ~> (aria.alive \/ ~daemonUp)
=============================================================================
