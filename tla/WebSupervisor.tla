--------------------------- MODULE WebSupervisor ---------------------------
(***************************************************************************)
(* The task that keeps the web server in step with the settings            *)
(* (src/web/mod.rs: supervise, start_server, set_web_snapshot) and the     *)
(* request that changes them (SetWebUiSettings).  The supervisor works     *)
(* with the settings it read at the start of a round; a request changes    *)
(* them and the published status at any moment of that round.              *)
(***************************************************************************)
EXTENDS Naturals

CONSTANTS
    WebConfig,      \* address, port and cookie lifetime
    MaxWebChanges,  \* BOUND: settings requests
    MaxWebFaults    \* BOUND: failed binds and servers that end

ASSUME SupervisorAssumption ==
    "none" \notin WebConfig /\ WebConfig # {} /\ {MaxWebChanges, MaxWebFaults} \subseteq Nat

Off == "none"       \* the web ui is disabled, no server

VARIABLES
    wanted,     \* the web settings: a configuration, or Off
    read,       \* DesiredWebConfig of this round
    active,     \* configuration of the server started last, or Off
    serving,    \* its task has not ended
    shown,      \* web_ui.status of the snapshot
    round,      \* where the supervisor is
    requested,  \* where the settings request is
    webChanges, webFaults

webVars == <<wanted, read, active, serving, shown, round, requested, webChanges, webFaults>>

SupervisorTypeOK ==
    /\ {wanted, read, active} \subseteq WebConfig \cup {Off}
    /\ serving \in BOOLEAN /\ (serving => active # Off)
    /\ shown \in {"Disabled", "Starting", "Listening", "Failed"}
    /\ round \in {"sleep", "read", "start", "bind", "publish", "failed"}
    /\ requested \in {"idle", "saved"}
    /\ webChanges \in 0 .. MaxWebChanges /\ webFaults \in 0 .. MaxWebFaults

SupervisorInit ==
    /\ wanted = CHOOSE c \in WebConfig : TRUE
    /\ read = wanted /\ active = Off /\ serving = FALSE /\ shown = "Disabled"
    /\ round = "sleep" /\ requested = "idle" /\ webChanges = 0 /\ webFaults = 0

WebTrouble == webFaults < MaxWebFaults /\ webFaults' = webFaults + 1

-----------------------------------------------------------------------------
ReadDesired ==
    /\ round = "sleep"
    /\ read' = wanted /\ round' = "read"
    /\ UNCHANGED <<wanted, active, serving, shown, requested, webChanges, webFaults>>

(* A server that is unwanted, outdated or ended is shut down or aborted. *)
OutdatedUnlessEnded == active # Off /\ read # active
Outdated == active # Off /\ (read # active \/ ~serving)

DropOutdated ==
    /\ round = "read"
    /\ active' = IF Outdated THEN Off ELSE active
    /\ round' = IF read # Off /\ active' = Off THEN "start" ELSE "sleep"
    /\ shown' = IF read = Off THEN "Disabled" ELSE shown
    /\ UNCHANGED <<wanted, read, serving, requested, webChanges, webFaults>>

StopOutdated ==
    /\ round = "read"
    /\ IF Outdated THEN active' = Off /\ serving' = FALSE ELSE UNCHANGED <<active, serving>>
    /\ round' = IF read # Off /\ active' = Off THEN "start" ELSE "sleep"
    /\ shown' = IF read = Off THEN "Disabled" ELSE shown
    /\ UNCHANGED <<wanted, read, requested, webChanges, webFaults>>

StartServer ==
    /\ round = "start"
    /\ shown' = "Starting" /\ round' = "bind"
    /\ UNCHANGED <<wanted, read, active, serving, requested, webChanges, webFaults>>

Bind ==
    /\ round = "bind"
    /\ \/ active' = read /\ serving' = TRUE /\ round' = "publish" /\ UNCHANGED webFaults
       \/ WebTrouble /\ round' = "failed" /\ UNCHANGED <<active, serving>>
    /\ UNCHANGED <<wanted, read, shown, requested, webChanges>>

PublishStart ==
    /\ round \in {"publish", "failed"}
    /\ shown' = IF round = "publish" THEN "Listening" ELSE "Failed"
    /\ round' = "sleep"
    /\ UNCHANGED <<wanted, read, active, serving, requested, webChanges, webFaults>>

ServerEnds ==
    /\ serving /\ WebTrouble
    /\ serving' = FALSE
    /\ UNCHANGED <<wanted, read, active, shown, round, requested, webChanges>>

-----------------------------------------------------------------------------
(* SetWebUiSettings: the settings are saved, later the status is reset. *)
SaveWebSettings ==
    /\ requested = "idle" /\ webChanges < MaxWebChanges
    /\ wanted' \in WebConfig \cup {Off}
    /\ requested' = "saved" /\ webChanges' = webChanges + 1
    /\ UNCHANGED <<read, active, serving, shown, round, webFaults>>

ResetStatus ==
    /\ requested = "saved"
    /\ shown' = "Starting" /\ requested' = "idle"
    /\ UNCHANGED <<wanted, read, active, serving, round, webChanges, webFaults>>

Supervise == ReadDesired \/ StopOutdated \/ StartServer \/ Bind \/ PublishStart
SupervisorNext == Supervise \/ ServerEnds \/ SaveWebSettings \/ ResetStatus
SupervisorFairness == WF_webVars(Supervise) /\ WF_webVars(ResetStatus)
SupervisorSpec == SupervisorInit /\ [][SupervisorNext]_webVars /\ SupervisorFairness

-----------------------------------------------------------------------------
(***************************************************************************)
(* The web server ends up serving the settings in force, or off, and stays *)
(* so, whatever moment of a round they change at and whatever binds fail.  *)
(***************************************************************************)
InStep == IF wanted = Off THEN active = Off ELSE active = wanted /\ serving
WebFollowsSettings == <>[]InStep
=============================================================================
