----------------------------- MODULE MCServices -----------------------------
(***************************************************************************)
(* The parts of the daemon that share no state, each checked by itself:    *)
(* a behaviour takes steps of one part only.  What holds of every          *)
(* behaviour of each part holds of their interleavings too.                *)
(***************************************************************************)
EXTENDS DownloadRetries, Aria2Runtime, WebAuth, WebSupervisor, Bootstrap, AddRequests, Torrents

VARIABLE part
Parts == {"retries", "runtime", "auth", "web", "boot", "adds", "torrents"}
vars == <<part, retryVars, runtimeVars, authVars, webVars, bootVars, addVars, torrentVars>>

Init ==
    /\ part \in Parts
    /\ RetryInit /\ RuntimeInit /\ AuthInit /\ SupervisorInit /\ BootInit /\ AddInit
    /\ TorrentInit

Retries == /\ part = "retries" /\ RetryNext
           /\ UNCHANGED <<part, runtimeVars, authVars, webVars, bootVars, addVars, torrentVars>>
Runtime == /\ part = "runtime" /\ RuntimeNext
           /\ UNCHANGED <<part, retryVars, authVars, webVars, bootVars, addVars, torrentVars>>
Auth == /\ part = "auth" /\ AuthNext
        /\ UNCHANGED <<part, retryVars, runtimeVars, webVars, bootVars, addVars, torrentVars>>
Web == /\ part = "web" /\ SupervisorNext
       /\ UNCHANGED <<part, retryVars, runtimeVars, authVars, bootVars, addVars, torrentVars>>
Boot == /\ part = "boot" /\ BootNext
        /\ UNCHANGED <<part, retryVars, runtimeVars, authVars, webVars, addVars, torrentVars>>
Adds == /\ part = "adds" /\ AddNext
        /\ UNCHANGED <<part, retryVars, runtimeVars, authVars, webVars, bootVars, torrentVars>>
Engine == /\ part = "torrents" /\ TorrentNext
          /\ UNCHANGED <<part, retryVars, runtimeVars, authVars, webVars, bootVars, addVars>>

Next == Retries \/ Runtime \/ Auth \/ Web \/ Boot \/ Adds \/ Engine

(* Each part's own fairness, asked of the behaviours of that part. *)
Fairness ==
    /\ WF_retryVars(part = "retries" /\ RetryPass)
    /\ \A j \in Job : WF_retryVars(part = "retries" /\ ComesDue(j))
    /\ WF_runtimeVars(part = "runtime" /\ PollTick)
    /\ \A r \in Refresher : WF_runtimeVars(part = "runtime" /\ RefreshOf(r))
    /\ WF_webVars(part = "web" /\ Supervise)
    /\ WF_webVars(part = "web" /\ ResetStatus)

Spec == Init /\ [][Next]_vars /\ Fairness

-----------------------------------------------------------------------------
ServicesTypeOK ==
    /\ RetryTypeOK /\ RuntimeTypeOK /\ AuthTypeOK /\ SupervisorTypeOK /\ BootTypeOK
    /\ AddTypeOK /\ TorrentTypeOK

(* WebFollowsSettings and AriaComesBack of the behaviours of their part. *)
WebServerFollows == part = "web" => WebFollowsSettings
DaemonRegainsAria == part = "runtime" => AriaComesBack
=============================================================================
