----------------------------- MODULE Bootstrap -----------------------------
(***************************************************************************)
(* What a user interface does to find or get a daemon before it opens      *)
(* (src/bootstrap.rs), with the units it installs (src/daemon/service.rs), *)
(* the marker and the socket of a daemon (src/daemon/marker.rs, mod.rs,    *)
(* server.rs).  A daemon that starts overwrites the marker and takes the   *)
(* socket over, whoever had them; one that ends with an error removes the  *)
(* marker, one that is killed leaves it.                                   *)
(***************************************************************************)
EXTENDS Naturals, FiniteSets

CONSTANTS
    Scope,          \* the service managers there are
    MaxStarts       \* BOUND: daemon processes ever started
ASSUME BootAssumption == Scope \subseteq {"user", "system"} /\ MaxStarts \in Nat \ {0}

Launcher == Scope \cup {"shell"}
Build == {"old", "new"}     \* "new" is the build of the interface that opens
Pid == 1 .. MaxStarts
Nobody == 0

VARIABLES
    unit,       \* build id in the unit file of each scope, "none" without one
    loaded,     \* the unit systemd has loaded: it starts what that one names
    daemon,     \* the daemon each launcher runs: its pid, or Nobody
    buildOf,    \* build of each process ever started
    marker,     \* pid in the .daemon file, or Nobody
    bound,      \* the running processes that have bound the socket path
    socket,     \* pid that accepts connections on the socket path, or Nobody
    boot,       \* the opening interface: where it is, what it decided
    starts      \* processes started

bootVars == <<unit, loaded, daemon, buildOf, marker, bound, socket, boot, starts>>

Unit == Build \cup {"none"}
BootPc == {"marker", "stale", "detect", "fetch", "outdated", "absent",
           "write", "reload", "run", "wait", "ui", "exit"}
BootTypeOK ==
    /\ unit \in [Scope -> Unit] /\ loaded \in [Scope -> Unit]
    /\ daemon \in [Launcher -> Pid \cup {Nobody}]
    /\ buildOf \in [Pid -> Build]
    /\ bound \in SUBSET Pid
    /\ marker \in Pid \cup {Nobody} /\ socket \in Pid \cup {Nobody}
    /\ boot \in [pc : BootPc, built : [Scope -> Unit], active : SUBSET Scope, seen : 0 .. MaxStarts,
                 choice : Scope \cup {"none"}, mode : {"none", "ensure", "update"}]
    /\ starts \in 0 .. MaxStarts

Alive(p) == \E l \in Launcher : daemon[l] = p /\ p # Nobody
Answers == socket # Nobody /\ Alive(socket)
Active(scope) == daemon[scope] # Nobody

(***************************************************************************)
(* An interface notes of each service whether it is active and the build   *)
(* of its unit (ServiceInstallStatus), and works with these notes until it *)
(* ends.  seen, for the property only, is the number of processes started  *)
(* by then.                                                                *)
(***************************************************************************)
NewBoot == [pc |-> "marker", built |-> [s \in Scope |-> "none"], active |-> {}, seen |-> 0,
            choice |-> "none", mode |-> "none"]
NotedActive == boot.choice \in boot.active
NotedBuild == IF boot.choice \in Scope THEN boot.built[boot.choice] ELSE "none"

BootInit ==
    /\ unit = [s \in Scope |-> "none"] /\ loaded = unit
    /\ daemon = [l \in Launcher |-> Nobody]
    /\ buildOf = [p \in Pid |-> "old"]
    /\ marker = Nobody /\ bound = {} /\ socket = Nobody /\ starts = 0
    /\ boot = NewBoot

units == <<unit, loaded>>
processes == <<daemon, buildOf, marker, starts>>
sockets == <<bound, socket>>
world == <<units, processes, sockets>>
Step(pc) == boot' = [boot EXCEPT !.pc = pc]
Ends(pc) == boot' = [NewBoot EXCEPT !.pc = pc]

(* daemon::run: the marker is written before the socket is bound. *)
Launch(l, build) ==
    /\ starts < MaxStarts /\ starts' = starts + 1
    /\ daemon' = [daemon EXCEPT ![l] = starts']
    /\ buildOf' = [buildOf EXCEPT ![starts'] = build]
    /\ marker' = starts'

(* server::run: the path is taken over, whoever had bound it. *)
Listen(l) ==
    /\ daemon[l] \notin bound \cup {Nobody}
    /\ bound' = bound \cup {daemon[l]}
    /\ socket' = daemon[l]
    /\ UNCHANGED <<units, processes, boot>>

(***************************************************************************)
(* The world: services are installed by hand and uninstalled while no      *)
(* interface is open, started (also by systemd, Restart=always) and killed *)
(* at any moment, and anybody may make systemd read its units again.  The  *)
(* program at the path of an older unit may have been replaced by now.     *)
(***************************************************************************)
Closed == boot.pc \in {"marker", "ui", "exit"}
Program(scope) == IF loaded[scope] = "none" THEN unit[scope] ELSE loaded[scope]
Runs(scope) == IF Program(scope) = "new" THEN {"new"} ELSE Build

InstallByHand(scope) ==
    /\ Closed
    /\ unit' \in {[unit EXCEPT ![scope] = u] : u \in Unit}
    /\ loaded' \in {loaded, [loaded EXCEPT ![scope] = unit'[scope]]}
    /\ UNCHANGED <<processes, sockets, boot>>

ReloadByHand(scope) ==
    /\ loaded' = [loaded EXCEPT ![scope] = unit[scope]]
    /\ UNCHANGED <<unit, processes, sockets, boot>>

StartByHand(l) ==
    /\ daemon[l] = Nobody
    /\ IF l \in Scope
       THEN Program(l) # "none" /\ \E build \in Runs(l) : Launch(l, build)
       ELSE \E build \in Build : Launch(l, build)
    /\ UNCHANGED <<units, sockets, boot>>

(* Killed: the marker stays.  An error in a task: DaemonMarker is dropped. *)
DaemonEnds(l) ==
    /\ daemon[l] # Nobody
    /\ daemon' = [daemon EXCEPT ![l] = Nobody]
    /\ marker' \in {marker, Nobody}
    /\ bound' = bound \ {daemon[l]}
    /\ socket' = IF socket = daemon[l] THEN Nobody ELSE socket
    /\ UNCHANGED <<units, buildOf, starts, boot>>

-----------------------------------------------------------------------------
Opens ==
    /\ boot.pc \in {"ui", "exit"}
    /\ Step("marker")
    /\ UNCHANGED world

(* run_default_flow: read_live_daemon_marker; a stale marker is removed.   *)
ReadMarker ==
    /\ boot.pc = "marker"
    /\ IF marker = Nobody THEN Step("detect")
       ELSE IF ~Alive(marker) THEN Step("stale")
       ELSE IF buildOf[marker] = "new" THEN Ends("ui") ELSE Step("detect")
    /\ UNCHANGED world

RemoveStaleMarker ==
    /\ boot.pc = "stale"
    /\ marker' = Nobody
    /\ Step("detect")
    /\ UNCHANGED <<units, daemon, buildOf, starts, sockets>>

(* detect_service_install_status: noted before anybody is asked. *)
DetectServices ==
    /\ boot.pc = "detect"
    /\ boot' = [boot EXCEPT !.pc = "fetch", !.built = unit, !.active = {s \in Scope : Active(s)},
                           !.seen = starts]
    /\ UNCHANGED world

(* fetch_daemon_snapshot_with_timeout; an answer may also come too late. *)
FetchSnapshot ==
    /\ boot.pc = "fetch"
    /\ \/ Answers /\ Step("outdated")
       \/ Step("absent")
    /\ UNCHANGED world

(* Where the preparation of a service begins: a unit of this build is left *)
(* alone, and so is a service seen active with one, unless it is updated.  *)
Prepares(scope, mode) ==
    boot' = [boot EXCEPT !.choice = scope, !.mode = mode,
                         !.pc = IF boot.built[scope] # "new" THEN "write"
                                ELSE IF mode = "ensure" /\ scope \in boot.active THEN "wait"
                                ELSE "run"]

(* handle_outdated_daemon: an installed service may be updated, or none. *)
KeepDaemon ==
    /\ boot.pc = "outdated"
    /\ Ends("ui")
    /\ UNCHANGED world
UpdateService(scope) ==
    /\ boot.pc = "outdated" /\ boot.built[scope] # "none"
    /\ Prepares(scope, "update")
    /\ UNCHANGED world

(* No daemon: prepare one of the services, continue without, or quit. *)
ContinueOrQuit ==
    /\ boot.pc = "absent"
    /\ Ends("ui") \/ Ends("exit")
    /\ UNCHANGED world
EnsureService(scope) ==
    /\ boot.pc = "absent"
    /\ Prepares(scope, "ensure")
    /\ UNCHANGED world

(***************************************************************************)
(* ensure_*_service_ready and restart_*_service_for_update, with install_* *)
(* of service.rs: the unit is written, systemd reads its units, and the    *)
(* service is restarted if it was noted active, or started, which leaves   *)
(* alone what runs by now.  Each is a command that may fail.               *)
(***************************************************************************)
WriteUnitUnread ==
    /\ boot.pc = "write"
    /\ unit' = [unit EXCEPT ![boot.choice] = "new"]
    /\ Step("run")
    /\ UNCHANGED <<loaded, processes, sockets>>

WriteUnit ==
    /\ boot.pc = "write"
    /\ unit' = [unit EXCEPT ![boot.choice] = "new"]
    /\ Step("reload")
    /\ UNCHANGED <<loaded, processes, sockets>>

ReloadUnits ==
    /\ boot.pc = "reload"
    /\ loaded' = [loaded EXCEPT ![boot.choice] = unit[boot.choice]]
    /\ Step("run")
    /\ UNCHANGED <<unit, processes, sockets>>

(* A first installation enables the service, which only starts it. *)
NeedsRestart == NotedActive /\ NotedBuild # "none"
RunService ==
    /\ boot.pc = "run"
    /\ IF NeedsRestart \/ ~Active(boot.choice)
       THEN \E build \in Runs(boot.choice) : Launch(boot.choice, build)
       ELSE UNCHANGED processes
    /\ Step("wait")
    /\ UNCHANGED <<units, sockets>>

(* Any of these commands fails, or the interface is interrupted. *)
BreakOff ==
    /\ boot.pc \in {"write", "reload", "run", "wait"}
    /\ Ends("exit")
    /\ UNCHANGED world

(* wait_for_daemon_build_id; it gives up as BreakOff does. *)
WaitForBuild ==
    /\ boot.pc = "wait" /\ Answers /\ buildOf[socket] = "new"
    /\ Ends("ui")
    /\ UNCHANGED world

BootNext ==
    \/ \E l \in Launcher : Listen(l) \/ StartByHand(l) \/ DaemonEnds(l)
    \/ \E s \in Scope : \/ InstallByHand(s) \/ ReloadByHand(s)
                        \/ UpdateService(s) \/ EnsureService(s)
    \/ Opens \/ ReadMarker \/ RemoveStaleMarker \/ DetectServices \/ FetchSnapshot
    \/ KeepDaemon \/ ContinueOrQuit
    \/ WriteUnit \/ ReloadUnits \/ RunService \/ BreakOff \/ WaitForBuild

BootSpec == BootInit /\ [][BootNext]_bootVars

-----------------------------------------------------------------------------
(***************************************************************************)
(* While an interface waits for the daemon of a service it has noted       *)
(* active and prepared, whatever process that service runs was started     *)
(* after the look at the services; and where it has written the unit over  *)
(* one of another build, it runs this build, whoever kills and starts the  *)
(* service meanwhile and whatever earlier interfaces left half done        *)
(* (bootstrap.rs:406-471).  It excepts a service noted inactive, which     *)
(* "start" leaves alone if somebody has started it since, and one that is  *)
(* merely ensured with a unit that names this build already.               *)
(***************************************************************************)
PreparedServiceIsReplaced ==
    boot.pc = "wait" /\ NotedActive /\ Active(boot.choice) =>
        /\ boot.mode = "update" \/ NotedBuild = "old" => daemon[boot.choice] > boot.seen
        /\ NotedBuild = "old" => buildOf[daemon[boot.choice]] = "new"
=============================================================================
