-------------------------- MODULE DownloadRetries --------------------------
(***************************************************************************)
(* Failed downloads and what the daemon does about them                    *)
(* (src/daemon/reconcile.rs): every refresh merges aria2's results into    *)
(* the history, schedules or submits another attempt of what has failed    *)
(* and tells a webhook about notable ends; meanwhile users cancel          *)
(* downloads and remove or purge history entries.                          *)
(*                                                                         *)
(* Time is abstract: a scheduled retry comes due at any later moment.      *)
(***************************************************************************)
EXTENDS DownloadHistory, FiniteSets

CONSTANTS
    Big,            \* jobs of at least WEBHOOK_MIN_BYTES
    DailyAfter,     \* DAILY_RETRY_AFTER
    MaxResults,     \* stopped_history_limit, which is also aria2's own limit
    MaxAdds,        \* BOUND: times users add one download
    MaxMeddling     \* BOUND: cancels, erasures, RPCs that fail, exits and webhook switches in all

ASSUME RetryAssumption ==
    /\ Big \subseteq Job /\ IsFiniteSet(Job)
    /\ {DailyAfter, MaxAdds, MaxMeddling} \subseteq Nat
    /\ MaxResults \in Nat \ {0}

VARIABLES
    running,    \* attempts aria2 has that have not ended
    results,    \* ended attempts aria2 remembers, in the order they ended
    used,       \* attempts aria2 has been given, per job
    history,    \* history_downloads, saved whenever it changes
    retries,    \* retry_state: RetryEntry of each job, or NoRetry
    retryFile,  \* retry-state.json
    pass,       \* the refresh in progress, which holds the runtime mutex
    removal,    \* the cancel, remove or purge request in progress
    hooks,      \* webhook settings and what process_webhook_events remembers
    told,       \* history variable: messages sent, per event
    added,      \* history variable: times users added each job
    spent       \* history variable: how often each kind of meddling happened

retryVars == <<running, results, used, history, retries, retryFile, pass, removal, hooks,
               told, added, spent>>

NoGid == <<>>
NoRetry == [gid |-> NoGid]
Retry == [gid : Attempt, retries : 0 .. MaxAttempts, due : {"no", "later", "now"},
          daily : BOOLEAN]
NewRetry(a) == [gid |-> a, retries |-> 0, due |-> "no", daily |-> FALSE]
HasRetry(j) == retries[j] # NoRetry

NoPass == [pc |-> "idle", list |-> <<>>, hooked |-> FALSE, todo |-> {}]
NoRemoval == [op |-> "none", pc |-> "idle", gid |-> NoGid]
Meddling == {"cancel", "erasure", "refusal", "lost", "leftover", "ariaExit", "daemonExit", "toggle"}
QuietHooks == [enabled |-> TRUE, initialized |-> FALSE, seen |-> {}, daily |-> {},
               restarts |-> 0, restartsTold |-> 0]

RetryTypeOK ==
    /\ running \subseteq Attempt
    /\ results \in Seq(Result) /\ history \in Seq(Result)
    /\ used \in [Job -> 0 .. MaxAttempts]
    /\ retries \in [Job -> Retry \cup {NoRetry}]
    /\ retryFile \in [Job -> Retry \cup {NoRetry}]
    /\ pass \in [pc : {"idle", "told", "merged", "submit", "announce"}, list : Seq(Result),
                 hooked : BOOLEAN, todo : SUBSET Job]
    /\ removal \in [op : {"none", "cancel", "remove", "purge"}, pc : {"idle", "result", "forget"},
                    gid : Attempt \cup {NoGid}]
    /\ hooks \in [enabled : BOOLEAN, initialized : BOOLEAN, seen : SUBSET Result,
                  daily : SUBSET Attempt, restarts : 0 .. MaxMeddling, restartsTold : 0 .. MaxMeddling]
    /\ told \in [Result -> Nat]
    /\ added \in [Job -> 0 .. MaxAdds]
    /\ spent \in [Meddling -> 0 .. MaxMeddling]

RetryInit ==
    /\ running = {} /\ results = <<>> /\ history = <<>>
    /\ used = [j \in Job |-> 0]
    /\ retries = [j \in Job |-> NoRetry] /\ retryFile = retries
    /\ pass = NoPass /\ removal = NoRemoval /\ hooks = QuietHooks
    /\ told = [e \in Result |-> 0]
    /\ added = [j \in Job |-> 0]
    /\ spent = [kind \in Meddling |-> 0]

ariaSide == <<running, results, used, added>>
daemonSide == <<history, retries, retryFile, pass, hooks, told>>
MeddlingSoFar == spent["cancel"] + spent["erasure"] + spent["refusal"] + spent["lost"]
                     + spent["leftover"] + spent["ariaExit"] + spent["daemonExit"] + spent["toggle"]
Meddle(kind) ==
    /\ MeddlingSoFar < MaxMeddling
    /\ spent' = [spent EXCEPT ![kind] = @ + 1]

-----------------------------------------------------------------------------
(* aria2 and its users. *)

Add(j) ==
    /\ added[j] < MaxAdds /\ used[j] < MaxAttempts
    /\ pass.pc = "idle"
    /\ used' = [used EXCEPT ![j] = @ + 1]
    /\ running' = running \cup {<<j, used'[j]>>}
    /\ added' = [added EXCEPT ![j] = @ + 1]
    /\ UNCHANGED <<results, daemonSide, removal, spent>>

(* aria2 keeps at most MaxResults results and drops the oldest. *)
Keep(ended) == IF Len(ended) > MaxResults THEN Tail(ended) ELSE ended
End(a, status) ==
    /\ running' = running \ {a}
    /\ results' = Keep(Append(results, [gid |-> a, status |-> status]))
    /\ UNCHANGED <<used, added>>

AttemptEnds(a) ==
    /\ a \in running
    /\ \E status \in {"complete", "error"} : End(a, status)
    /\ UNCHANGED <<daemonSide, removal, spent>>

-----------------------------------------------------------------------------
(* perform_refresh. *)

TellStoppedResults ==
    /\ pass.pc = "idle"
    /\ pass' = [NoPass EXCEPT !.pc = "told", !.list = results]
    /\ UNCHANGED <<ariaSide, history, retries, retryFile, hooks, told, removal, spent>>

MergeHistory ==
    /\ pass.pc = "told"
    /\ history' = MergeTerminalEvents(history, pass.list)
    /\ pass' = [pass EXCEPT !.pc = "merged", !.list = history', !.hooked = hooks.enabled]
    /\ UNCHANGED <<ariaSide, retries, retryFile, hooks, told, removal, spent>>

(* remove_completed_retry_entries *)
Succeeded(entry, j, list) ==
    \E a \in WithEnd(list, "complete") : JobOf(a) = j \/ entry.gid = a
StillWanted(list) ==
    [j \in Job |-> IF HasRetry(j) /\ Succeeded(retries[j], j, list) THEN NoRetry
                   ELSE retries[j]]

(***************************************************************************)
(* The first half of process_download_retries: an entry for every job that *)
(* failed, with a date for its next attempt if its last one is what failed *)
(* and there is no date yet.                                               *)
(***************************************************************************)
Entry(entries, a) ==
    IF entries[JobOf(a)] = NoRetry THEN NewRetry(a) ELSE entries[JobOf(a)]
Unscheduled(entries, list) ==
    {a \in WithEnd(list, "error") : Entry(entries, a).gid = a /\ Entry(entries, a).due = "no"}
BecomesDaily(entry) == entry.retries > DailyAfter /\ ~entry.daily

ScheduledIgnoringAttempt(entries, list) ==
    [j \in Job |->
        LET failed == {a \in WithEnd(list, "error") : JobOf(a) = j}
        IN  IF failed = {} THEN entries[j]
            ELSE LET e == Entry(entries, CHOOSE a \in failed : TRUE)
                 IN  IF e.due = "no"
                     THEN [e EXCEPT !.due = "later", !.daily = @ \/ BecomesDaily(e)] ELSE e]

ScheduledOnce(entries, list) ==
    [j \in Job |->
        LET failed == {a \in Unscheduled(entries, list) : JobOf(a) = j}
        IN  IF failed = {} \/ entries[j] # NoRetry THEN entries[j]
            ELSE [NewRetry(CHOOSE a \in failed : TRUE) EXCEPT !.due = "later"]]

Scheduled(entries, list) ==
    [j \in Job |->
        LET failed == {a \in Unscheduled(entries, list) : JobOf(a) = j}
        IN  IF failed = {} THEN entries[j]
            ELSE LET e == Entry(entries, CHOOSE a \in failed : TRUE)
                 IN  [e EXCEPT !.due = "later", !.daily = @ \/ BecomesDaily(e)]]

ScheduleRetries ==
    /\ pass.pc = "merged"
    /\ LET remaining == StillWanted(pass.list)
       IN  /\ retries' = Scheduled(remaining, pass.list)
           /\ hooks' = [hooks EXCEPT !.daily = @ \cup
                  {a \in Unscheduled(remaining, pass.list) : BecomesDaily(Entry(remaining, a))}]
    /\ pass' = [pass EXCEPT !.pc = "submit", !.todo = {j \in Job : retries'[j] # NoRetry
                                                                /\ retries'[j].due = "now"}]
    /\ UNCHANGED <<ariaSide, history, retryFile, told, removal, spent>>

(* A due entry: addUri, then the result of the attempt that failed is dropped. *)
Submitted(e, a) == [e EXCEPT !.gid = a, !.retries = @ + 1, !.due = "no"]

SubmitRetry(j) ==
    /\ pass.pc = "submit" /\ j \in pass.todo
    /\ used[j] < MaxAttempts
    /\ LET a == <<j, used[j] + 1>>
       IN  /\ running' = running \cup {a}
           /\ retries' = [retries EXCEPT ![j] = Submitted(@, a)]
    /\ used' = [used EXCEPT ![j] = @ + 1]
    /\ \/ /\ results' = Without(results, retries[j].gid)
          /\ UNCHANGED spent
       \/ /\ Meddle("leftover")
          /\ UNCHANGED results
    /\ pass' = [pass EXCEPT !.todo = @ \ {j}]
    /\ UNCHANGED <<history, retryFile, hooks, told, removal, added>>

SubmitRefused(j) ==
    /\ pass.pc = "submit" /\ j \in pass.todo
    /\ Meddle("refusal")
    /\ retries' = [retries EXCEPT ![j].due = "later"]
    /\ pass' = [pass EXCEPT !.todo = @ \ {j}]
    /\ UNCHANGED <<ariaSide, history, retryFile, hooks, told, removal>>

(* The answer is lost (rpc_request_timeout_secs): aria2 has an attempt that *)
(* the entry knows nothing of, and another one is made later.               *)
SubmitUnanswered(j) ==
    /\ pass.pc = "submit" /\ j \in pass.todo
    /\ used[j] < MaxAttempts
    /\ Meddle("lost")
    /\ used' = [used EXCEPT ![j] = @ + 1]
    /\ running' = running \cup {<<j, used'[j]>>}
    /\ retries' = [retries EXCEPT ![j].due = "later"]
    /\ pass' = [pass EXCEPT !.todo = @ \ {j}]
    /\ UNCHANGED <<results, history, retryFile, hooks, told, removal, added>>

(* The state is saved once, after the whole list. *)
SaveRetries ==
    /\ pass.pc = "submit"
    /\ \A j \in pass.todo : used[j] = MaxAttempts
    /\ retryFile' = retries
    /\ pass' = [pass EXCEPT !.pc = "announce", !.todo = {}]
    /\ UNCHANGED <<ariaSide, history, retries, hooks, told, removal, spent>>

(***************************************************************************)
(* process_webhook_events: of failures only the one that makes a job daily *)
(* is told.  Its first run takes the history as known.                     *)
(***************************************************************************)
KnownAtStart(h, list) == h.seen
KnownAll(h, list) == IF h.initialized THEN h.seen ELSE h.seen \cup ToSet(list)
Known(h, list) ==
    IF h.initialized THEN h.seen
    ELSE h.seen \cup {e \in ToSet(list) : e.gid \notin h.daily}

News(h, list) ==
    {e \in ToSet(list) : /\ JobOf(e.gid) \in Big
                         /\ e.status = "error" => e.gid \in h.daily
                         /\ e \notin Known(h, list)}

AnnounceOff ==
    /\ pass.pc = "announce" /\ ~pass.hooked
    /\ hooks' = [hooks EXCEPT !.daily = {}]
    /\ pass' = NoPass
    /\ UNCHANGED <<ariaSide, history, retries, retryFile, told, removal, spent>>

Announce ==
    /\ pass.pc = "announce" /\ pass.hooked
    /\ told' = [e \in Result |-> told[e] + IF e \in News(hooks, pass.list) THEN 1 ELSE 0]
    /\ hooks' = [hooks EXCEPT !.initialized = TRUE, !.daily = {}, !.restartsTold = hooks.restarts,
                     !.seen = Known(hooks, pass.list) \cup News(hooks, pass.list)]
    /\ pass' = NoPass
    /\ UNCHANGED <<ariaSide, history, retries, retryFile, removal, spent>>

-----------------------------------------------------------------------------
(* Time, and the requests. *)

ComesDue(j) ==
    /\ HasRetry(j) /\ retries[j].due = "later" /\ used[j] < MaxAttempts
    /\ retries' = [retries EXCEPT ![j].due = "now"]
    /\ retryFile' = IF retryFile[j] = retries[j] THEN [retryFile EXCEPT ![j].due = "now"]
                    ELSE retryFile
    /\ UNCHANGED <<ariaSide, history, pass, hooks, told, removal, spent>>

ToggleWebhooks ==
    /\ Meddle("toggle")
    /\ hooks' = [hooks EXCEPT !.enabled = ~@]
    /\ UNCHANGED <<ariaSide, history, retries, retryFile, pass, told, removal>>

NewRemoval(op, next, a) ==
    /\ removal = NoRemoval
    /\ Meddle(IF op = "cancel" THEN "cancel" ELSE "erasure")
    /\ removal' = [op |-> op, pc |-> next, gid |-> a]

CancelDownload(a) ==
    /\ NewRemoval("cancel", "forget", a)
    /\ a \in running /\ pass.pc = "idle"
    /\ End(a, "removed")
    /\ UNCHANGED daemonSide

RemoveEntry(a) ==
    /\ NewRemoval("remove", "result", a)
    /\ a \in GidsOf(history)
    /\ history' = Without(history, a)
    /\ UNCHANGED <<ariaSide, retries, retryFile, pass, hooks, told>>

PurgeEntries ==
    /\ NewRemoval("purge", "result", NoGid)
    /\ history' = <<>>
    /\ UNCHANGED <<ariaSide, retries, retryFile, pass, hooks, told>>

(* aria2.removeDownloadResult and aria2.purgeDownloadResult *)
DropResults ==
    /\ removal.pc = "result" /\ pass.pc = "idle"
    /\ results' = IF removal.op = "purge" THEN <<>>
                  ELSE Without(results, removal.gid)
    /\ removal' = [removal EXCEPT !.pc = "forget"]
    /\ UNCHANGED <<running, used, added, daemonSide, spent>>

(* forget_download_retry and clear_download_retries wait for the retry lock. *)
Forgotten(entries, a) ==
    [j \in Job |-> IF entries[j] # NoRetry /\ (a = NoGid \/ entries[j].gid = a) THEN NoRetry
                   ELSE entries[j]]
ForgetRetry ==
    /\ removal.pc = "forget" /\ pass.pc # "submit"
    /\ retries' = Forgotten(retries, removal.gid)
    /\ retryFile' = IF retries' = retries THEN retryFile ELSE retries'
    /\ removal' = NoRemoval
    /\ UNCHANGED <<ariaSide, history, pass, hooks, told, spent>>

-----------------------------------------------------------------------------
(***************************************************************************)
(* A new aria2 process starts from the session file: what had not ended    *)
(* and what had failed begins again under its gid, unless it is newer than *)
(* the file.                                                               *)
(***************************************************************************)
Reload ==
    /\ \E back \in SUBSET (running \cup WithEnd(results, "error")) : running' = back
    /\ results' = <<>>
    /\ UNCHANGED <<used, added>>

AriaRestarts ==
    /\ pass.pc = "idle"
    /\ Reload
    /\ Meddle("ariaExit")
    /\ hooks' = [hooks EXCEPT !.restarts = @ + 1]
    /\ UNCHANGED <<history, retries, retryFile, pass, told, removal>>

DaemonRestarts ==
    /\ Reload
    /\ Meddle("daemonExit")
    /\ retries' = retryFile
    /\ pass' = NoPass /\ removal' = NoRemoval
    /\ hooks' = [QuietHooks EXCEPT !.enabled = hooks.enabled]
    /\ UNCHANGED <<history, retryFile, told>>

-----------------------------------------------------------------------------
RetryPass ==
    \/ TellStoppedResults \/ MergeHistory \/ ScheduleRetries
    \/ \E j \in Job : SubmitRetry(j) \/ SubmitRefused(j) \/ SubmitUnanswered(j)
    \/ SaveRetries \/ AnnounceOff \/ Announce

RetryNext ==
    \/ RetryPass
    \/ \E j \in Job : Add(j) \/ ComesDue(j)
    \/ \E a \in Attempt : AttemptEnds(a) \/ CancelDownload(a) \/ RemoveEntry(a)
    \/ PurgeEntries \/ DropResults \/ ForgetRetry \/ ToggleWebhooks
    \/ AriaRestarts \/ DaemonRestarts

RetryFairness ==
    /\ WF_retryVars(RetryPass)
    /\ \A j \in Job : WF_retryVars(ComesDue(j))

RetrySpec == RetryInit /\ [][RetryNext]_retryVars /\ RetryFairness

-----------------------------------------------------------------------------
NoExits == spent["ariaExit"] = 0 /\ spent["daemonExit"] = 0

(***************************************************************************)
(* Retries never multiply a download: the unfinished attempts of a job are *)
(* at most as many as users asked for, whatever crosses the refresh that   *)
(* submits them, unless aria2 was restarted, the answer to a retry was     *)
(* lost, or history entries were erased (a refresh that has already read   *)
(* the results merges them back).                                          *)
(***************************************************************************)
OneAttemptEach ==
    NoExits /\ spent["erasure"] = 0 /\ spent["lost"] = 0 =>
        \A j \in Job : Cardinality({a \in running : JobOf(a) = j}) <= added[j]

(***************************************************************************)
(* No end of a download is announced twice, across restarts of the daemon  *)
(* and however often webhooks are switched off and on.                     *)
(***************************************************************************)
AnnouncedOnce == \A e \in Result : told[e] <= 1

(***************************************************************************)
(* The failure that makes a job daily is announced by the refresh that     *)
(* notices it, in the daemon's first refresh too.                          *)
(***************************************************************************)
DailyIsAnnounced ==
    [][\A a \in hooks.daily :
          pass.pc = "announce" /\ pass.hooked /\ pass'.pc = "idle" /\ JobOf(a) \in Big
          /\ hooks'.daily = {} /\ UNCHANGED spent
              => told'[[gid |-> a, status |-> "error"]] = 1]_retryVars

(***************************************************************************)
(* A download that failed is tried again: as long as nobody interferes,    *)
(* its error does not stay the last word.                                  *)
(***************************************************************************)
Abandoned(j) ==
    /\ NoExits /\ removal = NoRemoval
    /\ used[j] < MaxAttempts
    /\ \E a \in WithEnd(history, "error") : JobOf(a) = j
    /\ ~\E a \in running : JobOf(a) = j
FailedIsRetried == \A j \in Job : Abandoned(j) ~> ~Abandoned(j)
=============================================================================
