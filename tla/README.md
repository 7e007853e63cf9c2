# AriaTUI, specified

A TLA+ development of the AriaTUI daemon: modules that model its state and steps,
TLC configurations that check them on small instances, and TLAPS proofs of what
matters most. Paths below are relative to the repository root; `reconcile.rs` and
`queue.rs` are `src/daemon/reconcile.rs` and `src/daemon/queue.rs`.

## The system

AriaTUI is one binary that runs as a TUI, as a command line and as a daemon. The
daemon owns an `aria2c` child process, which it drives over JSON-RPC, and an
embedded torrent engine. Front ends send it requests: TUI and command line over a
Unix socket, browsers and qBittorrent clients over HTTP. A poll loop refreshes the
daemon's picture of the downloads and makes the decisions that need no user: which
batch of the queue runs, which failed download is tried again, what limit applies.

| Part | State it keeps | Operations | Hard because |
|---|---|---|---|
| Queue policy (`queue.rs`) | none: functions of a listing | attach metadata, plan a pass, plan hold/start batch | children inherit batches; a pass must settle and never lose the turn |
| Refresh loop and requests (`reconcile.rs`) | `queue_state` + `queue-state.json`, the published snapshot, the runtime mutex | `perform_refresh`; `Pause`, `Resume`, `PauseAll`, `ResumeAll`, `SetDownloadBatch`, `HoldQueueBatch`, `StartQueueBatch`, the adds, `Cancel`, `RemoveHistory`, `PurgeHistory` | every request is several awaits; the refresh reads aria2 in three calls; plans are made from old snapshots; files are written at some of the steps only |
| Download retries (`reconcile.rs`) | `retry_state` + its file, `daily_failure_events` | schedule, submit, promote to daily, forget | a crash between submit and save; old errors in the history |
| History (`history.rs`) | `history_downloads` + its file | merge, deduplicate, remove, purge | gids change between attempts; removal races the merge |
| aria2 runtime (`child.rs`, `reconcile.rs`) | the runtime slot, desired limit and slots, lifecycle | spawn, wait for readiness, detect exit, respawn | a window without a runtime; settings a new process does not have |
| Torrent engine (`torrent_engine.rs`) | librqbit's session | add, pause, resume, cancel, list | needs no runtime mutex, so it interleaves with a refresh |
| Settings (`state.rs`) | `state.toml` | the `Set...` requests | memory changes before the file does |
| Web pairing and sessions (`web/mod.rs`) | pairings, sessions, revocations | pair, approve, verify, revoke | expiry against approval; a signature outlives the process that revoked it |
| Web supervisor (`web/mod.rs`) | the running server | start, restart, stop | the port may still be taken |
| Webhooks (`reconcile.rs`, `webhook.rs`) | events seen, restart count | filter and send | the first pass after being enabled |
| Start of a daemon (`bootstrap.rs`, `daemon/marker.rs`, `daemon/service.rs`) | the marker file, unit files | find, keep, update, start | markers of dead processes; two service managers; a preparation is several commands that fail one by one |
| Speed, ETA, schedule (`speed.rs`, `eta.rs`, `schedule.rs`) | samples per download | estimate, simulate the queue, resolve the limit of the hour | outliers, boundaries of phases, retries that reset counters |
| TUI (`tui/`) | a snapshot, selections, one dialog | draw, poll, keys, dialogs | selections are positions in lists that change; the daemon may be away |
| Web pages (`web/server.rs`) | a page and its script's fetches | links, forms, dialogs, background refresh | overlapping fetches, unsaved text |
| Command line (`control.rs`) | snapshots it polls | `events`, `download wait`, edits of lists, single requests | a snapshot is put together from several answers |

How they interact: requests and the poll loop run as tasks of one process and share
`DaemonState`. A refresh holds the runtime mutex from its first RPC to its last step; a
request takes it for each RPC it makes. The queue bookkeeping has a mutex of its own,
which the application of a plan holds throughout. The published snapshot is what the
hold, start and resume requests plan from. aria2 starts, ends and saves downloads
whenever it likes, and it may exit; the service manager restarts the daemon.

What makes each part correct:

* policy: after a pass at most one batch runs, a second pass changes nothing, the turn
  is given whenever there is someone to give it to, a pause of the user is left alone;
* refresh and requests: every pause has an owner who will end it, an acknowledged pause
  outlives everything but a resume, the bookkeeping file is never behind except while a
  plan is applied, a batch stays recorded for as long as its download is unfinished, the
  queue settles and nobody it holds waits for ever;
* retries: a failure is tried again, by one attempt at a time, and announced once;
* runtime: the daemon always gets an aria2 back, which has the settings the daemon believes
  it has;
* settings: what the daemon works with is on file; an edit that was answered is what
  everybody sees from then on; a list edit does to the list what it says;
* torrents: none is faster than the limit, one shown as sequential is read sequentially;
* adds: a key that was answered adds nothing more;
* web: a revoked session stays out, an approved one stays in, the server follows the settings;
* start: nobody waits for the daemon of a service it has prepared while an old one runs there;
* front ends: the terminal reconnects, a page never goes back and catches up, unsaved text
  stays unless its user sends or discards it, events replay to the snapshot;
* estimates: outliers need confirmation, the projection spends every byte and every second.

`PROJECT.json` lists the hazards at their lines, with the properties that cover them.

## The modules

| Module | Models | From |
|---|---|---|
| `BatchPolicy` | the pure decisions of the queue | `queue.rs` |
| `BatchTurns` | those decisions taken at once, on any listing: what the policy alone promises | `queue.rs`, `reconcile.rs` |
| `PauseOwnership` | the promise about pauses, without refreshes, locks and files | `README.md` |
| `BatchQueue` | refresh loop, request handlers, bookkeeping file, aria2 and torrent engine, with faults | `reconcile.rs` |
| `BatchQueue_proofs`, `BatchQueue_refinement` | theorems about `BatchQueue`; that it implements `PauseOwnership` | |
| `BatchTurns_proofs`, `Aria2Runtime_proofs`, `DownloadRetries_proofs`, `SettingsEdits_proofs` | theorems about one module each | |
| `Services_proofs` | theorems about `AddRequests`, `Torrents`, `Bootstrap`, `WebAuth` and `WebSupervisor`; the types of `MCServices` | |
| `FrontEnds_proofs` | theorems about `CliClient` and `WebPage` | |
| `DownloadHistory` | merging, identity and deduplication of the history | `history.rs` |
| `DownloadRetries` | retries, webhook announcements, cancels and erasures around a refresh | `reconcile.rs` |
| `Aria2Runtime` | the aria2 process and the settings it works under | `reconcile.rs`, `child.rs` |
| `AddRequests` | adds with an idempotency key | `reconcile.rs`, `daemon/server.rs` |
| `Torrents` | limits and sequential reading of the torrent engine | `torrent_engine.rs`, `reconcile.rs` |
| `WebAuth` | pairing, sessions, revocation | `web/mod.rs`, `web/server.rs` |
| `WebSupervisor` | the task that runs the web server | `web/mod.rs` |
| `Bootstrap` | how a front end finds or gets its daemon | `bootstrap.rs`, `daemon/` |
| `SettingsEdits` | rules and schedule edited by three programs, and the refresh that shows them | `web/server.rs`, `control.rs`, `tui/app.rs`, `reconcile.rs` |
| `ListView` | filters, search and sorts of the lists | `list_view.rs` |
| `TuiApp` | the terminal interface, on `ListView` | `tui/app.rs` |
| `WebPage` | the script of the web pages | `web/server.rs` |
| `CliClient` | `events` and `download wait` | `control.rs` |
| `SpeedTracker` | the outlier filter of the displayed speed | `speed.rs` |
| `EtaProjection` | the queue simulation behind the scheduled ETA | `eta.rs` |
| `MCBatchTurns`, `MCBatchQueue`, `MCTerminal`, `MCSettings` | instances for TLC | |
| `MCServices`, `MCFrontEnds` | the modules that share no state, checked together | |

`BatchQueue` is built from `BatchPolicy` and implements `PauseOwnership` by the mapping
at its end (`Ownership`). `BatchTurns` shares `BatchPolicy` and is its atomic reading.

### From code to `BatchQueue`

| Variable | In the code |
|---|---|
| `aria`, `session`, `up` | what aria2 and librqbit do with each download, aria2's saved session, whether the child lives (all outside `src/`) |
| `queue`, `disk` | `DaemonState.queue_state` and `queue-state.json`; `NoEntry` is an absent entry |
| `snap`, `history` | `current_downloads` of the published snapshot, gids of `history_downloads` |
| `rt` | who holds the runtime mutex, how far it is, the listing it has gathered and the plan it applies |
| `req` | each client's request: the await it is at and what it remembers across awaits |
| `issued`, `faults` | counters behind the bounds |
| `owned`, `stands`, `acked` | history variables: pauses that are the user's doing; requests whose pause has stood since they marked it; downloads whose pause was promised so and saved |

A refresh is `TellActive`, `TellWaiting`, `TellStopped`, `MergeLists`, `Plan`, one
`ApplyAccepted`, `ApplyRefused` or `ReplyLost` for each action, `EndApply`, `Publish`
(which prunes and saves). Between any two of them aria2 moves, torrents are paused
or resumed and requests go on, except that RPCs wait for the runtime mutex (`CanCall`)
and the bookkeeping waits for a plan being applied (`QueueFree`). A request starts with
the call that can be refused (`Pause`, `Add`, ...), goes through the awaits that follow
(`Mark`, `Unpause`, `PauseAdded`, `PlanRequest`, `TakeRuntime`, `Remember`,
`RemoveResult`, `Save`, `ClearHeld`, `Forget`) and ends in a refresh of its own.

Abstractions: a download is its gid, status, batch and parent; sizes, names and options
are left out. A call aria2 refuses ends the request at once and is no step. The wait of
one second before a respawn, and the second child a request could spawn in it, are left
to the module on the runtime. A plan is a set of actions applied in any order, which
includes the order of the code. Everything between the last RPC of a refresh and the
pruning that shares no lock with a request is one step. The file writes succeed.

### The other modules

Each has one variable per piece of state of the code (named in its `VARIABLES`), one action
per step between two awaits or lock releases, and the failures the code handles.

* `DownloadRetries`: a refresh is `TellStoppedResults`, `MergeHistory`, `ScheduleRetries`,
  `SubmitRetry`, `SubmitRefused` or `SubmitUnanswered` (aria2 has the new attempt, the answer
  is lost) per due entry, `SaveRetries`, `Announce`. The failed attempt's result may stay with
  aria2 when the call that drops it fails ("leftover"). Downloads end, users cancel and erase,
  either process exits between any two. A job is what `download_identity` gives; `ComesDue`
  stands for the clock.
* `Aria2Runtime`: the poll loop and every settings request refresh; the mutex is given up
  between `NoticeExit` and `Respawn`. `marks` is a history variable: a refresh begun after
  the last change has ended well, and the two cases in which the code's own notes mislead it.
* `AddRequests`: `Lookup`, `Find`, `Resolve`, `Submit`, `PauseNew`, `RefreshAfterAdd`,
  `RecordKey` per connection. `keyOf` and `answered` are history variables.
* `Torrents`: the limit goes to aria2, then the session (`RefreshTorrents`); an add works
  with the limit it read (`BeginAdd`, `AddTorrent`).
* `WebAuth`: an approval is `IssueToken`, `FindPairing`, `RecordSession`, a revocation one
  `RevokeOne` per session, since each map has its own lock. The signing secret is made by the
  first approval, in memory before it is on disk (`Ensured`); if that save fails
  (`SecretNotSaved`) the approval is refused and later ones sign with it, and it gets to disk
  with the next setting that is saved (`SaveState`) or not at all.
* `WebSupervisor`: a round is `ReadDesired`, `StopOutdated`, `StartServer`, `Bind`,
  `PublishStart`; a request is `SaveWebSettings`, `ResetStatus`.
* `Bootstrap`: marker, a look at the services (`DetectServices`, with the build of each unit and
  whether it is active), snapshot, then keep, update, continue, quit or prepare a service. That is
  up to three commands, each decided by what was noted and each able to fail: the unit is
  written (`WriteUnit`), systemd reads it (`ReloadUnits`; `loaded` is what it would start), the
  service is started or restarted (`RunService`), and the interface waits for its build
  (`WaitForBuild`) or breaks off (`BreakOff`) at any of these points. Interfaces open one after the
  other, so the next one finds what the last one left. Daemons start and end meanwhile, by hand
  or by a service manager, and units are installed and removed by hand in between.
* `SettingsEdits`: each editor changes a copy and sends the whole list (`RulesSentBy`,
  `LimitsSentBy` are the lists a program can make of it), `Store` validates and saves, the
  request's own refresh publishes (`Lock`, `ReadState`, `Publish`). The fallback rule, which
  the daemon appends again, is left out of the lists.
* `TuiApp`: a turn of the loop is `Draw`, then `Tick` or a key. A request is answered in one
  step with one of the outcomes the daemon can give; one that fails ends the interface.
* `WebPage`: what the daemon would show is a version; a fetch is answered and continued in
  two steps, with the epochs, flags and aborts of the script. Text not sent yet is in a form of
  the page or in the dialog (`text`); `dirty` are the forms marked is-dirty and `focus` is where the
  focused control is, since these two, and not the text, are what the script looks at. An answer
  replaces the page (`ShowPage`), patches it (`PatchPage`: the mark goes, only the focused control
  is spared) or fills the dialog (`FillDialog`). Dialogs are closed and the schedule editor opened
  without any fetch (`CloseDialog`, `ShowScheduleEditor`).
* `CliClient`: the snapshot is published from three answers, as in a refresh.
* `SpeedTracker`: `robust_rate` in whole hundredths, with the samples that feed it.
* `EtaProjection`: bytes and seconds as multiples of `1/Scale`, with which every division of
  the instance is exact.

`MCServices` and `MCFrontEnds` put modules side by side that share no variable: a behaviour
picks one `part` and takes steps of it alone. A property of one module holds of every
interleaving of the modules if it holds of its own steps, so nothing is lost, and the states
add up where interleavings would multiply them. `SettingsEdits`, `Aria2Runtime` and `Torrents`
each have the refresh they need; that the refresh of `BatchQueue` runs them under one mutex
is why each may have it to itself.

## The runs

| Run | Instance | Question and answer |
|---|---|---|
| `MCBatchTurns` | 3 downloads, one a child; batches 0, 1, none; 11,000 states | Do the planning functions keep their promises on every listing, flags and user pauses included? Yes. |
| `QueueRequests` | an aria2 download and a torrent, 2 clients, 2 requests, no faults; 2.4 million states | Does every pause keep an owner, and does the queue implement `PauseOwnership`, whatever crosses what? Yes. |
| `QueueRestarts` | 1 download, 2 requests, one lost reply, one aria2 exit, one daemon exit; 3.9 million states | Does an acknowledged pause hold, and is the file behind only during a plan? Yes. |
| `QueueLive` | an aria2 download and a torrent, 1 request, `ScheduledSpec`; 175,000 states | Does a held download get its turn if downloads end, and does the queue settle on one batch even if they do not? Yes. |
| `QueuePauseAll` | 2 downloads, 1 request | "a later refresh never resurrects downloads the user stopped on purpose" (`queue.rs:63`): a refresh inside the request does. |
| `QueueLostBatch` | 2 downloads, 1 request | "so batch assignments survive" (`queue.rs:10`): the pruning step of a refresh drops the batch of a download no list showed (a user's own change of batch does not count). |
| `QueueOrphan` | 2 downloads, one aria2 exit | "a scheduler-held download is started again when its batch comes up" (`README.md:100`): not one whose release was lost with aria2's session. |
| `QueueResumeChild` | 3 downloads, one a child | "hand it the turn" (`reconcile.rs:1010`): a child's own entry has no batch, so another batch gets it. |
| `Services` | seven parts, see below; 924,000 states | Do the daemon's other services keep their promises under exits, refusals and crossing requests? Yes, with the exceptions the properties name. |
| `FrontEnds` | six parts, see below; 991,000 states | Do the programs in front of the daemon, and its estimates? Yes. |
| `TuiDialogs` | 3 downloads, 2 keys, one change by others | "`b` set the batch of the selected download" (`README.md:106`): Enter acts on whatever is under the cursor by then. |
| `RuleDelete` | 2 rules, one page | Each row has a Delete button (`web/server.rs:3890`): every one of them deletes the first rule. |

Bounds. The policy's decisions compare a download with the batch in play and with its
ancestors: three downloads, two numbered batches and "none" give every order of batches,
ties, and a child with and without a listed parent. In `BatchQueue` a hazard needs one
download that moves, one that makes the scheduler act, and two things in flight: two
requests, or a request and the poll loop, which always runs. With faults one download is
enough for what those properties relate, its file entry, its session entry and its state;
two requests let a resume follow a pause, and each fault happens once, at every moment.
`MaxBatch = 0` leaves two batches, 0 and none, which is all the runs with two downloads
can tell apart; unassigned sorts last as in the code. Symmetry is used among clients, or
among downloads where none is special, and never for liveness. `CalmView` leaves out the
saved session, the file, the counters of faults, `stands` and `acked`, which nothing reads without
faults, and the published snapshot once no request is left that plans from it.

`Services`: one job with three attempts, two erasures, exits or switches reach a retry of a
retry, the daily promotion (`DailyAfter = 0` brings the eleventh retry to the first) and a
result lost to `MaxResults`; one client beside the poll loop, two changes and two faults let
an exit fall into a respawn or a save fail before it; two browsers and two pins let a pin be
given twice, two daemon runs let a cookie outlive its daemon; three web changes and two
faults let the settings return to an earlier value while a bind fails; three daemon processes
are one by hand or killed, one to replace and its successor, with any number of interfaces
before and after, and one service manager, since an interface prepares one service (the
theorem is for both); two connections with one key overlap in
every way; three limits let a torrent be added between two of them.
`FrontEnds`: three downloads, three keys and one change by others put another download under
a cursor or a dialog; two versions, two interactions, an edit and a failed fetch overlap on
a page (a search after typing, or a dialog over the form typed in); two downloads and two moves show one in both lists and in none; two requests of three
editors over up to three rules and two hours; nine refreshes with three unusual ones after 0,
4, 5 or 7 usual rates, on both sides of the five rates the filter needs and of the three that
confirm; three downloads in two batches, one or two slots, two hours of any capacity and every
offset into the first.

Fairness. `ScheduledSpec`: the poll loop ticks for ever and every RPC has a time limit, so
a refresh goes on (weak fairness of `RefreshStep`); a handler that can go on is scheduled
by the runtime (weak fairness of `Continue(c)`). That is enough for the queue to settle.
`HeldGetsItsTurn` also needs downloads to end; that is no promise of the code, so it is the
property's premise (`DownloadsEnd`: weak fairness of `Begin(g)` and `Finish(g)`). Sending
requests is never fair, and liveness is stated without faults: a daemon that keeps being
killed finishes nothing. `Aria2Runtime` is fair to the poll loop and to refreshes that have
begun, `DownloadRetries` to refreshes and to the clock (`ComesDue`), `WebSupervisor` to its
endless loop and the end of a request; their faults are bounded, and retrying for ever is
what the code does about them. `TuiApp` is fair to the loop (`Draw`, `Tick`: the user stops
typing now and then), `WebPage` to the timer and to answers. In the two combined modules each
condition is asked of the behaviours of its part only.

## The proofs

Every theorem is for all values of the constants that satisfy the named assumptions of the
module it is about, and for any number of steps: any finite set of downloads, any clients,
browsers, keys and editors, any parents, limits and bounds. The assumptions say that bounds
are naturals, that a name stands for one thing only (the poll loop is no client, a free mutex
no editor), that there is something to ask for (a key, a hash), and what the code fixes
(`Aria2Runtime` knows 1 to 16 slots, `WebAuth` a pin for every browser). Each safety theorem goes the same way: an inductive invariant is implied by the
initial states and kept by every step, one step of the proof per action, and it implies the
property. The runs check the same formulas on instances.

**`BatchQueue_proofs`.**
* `TypeCorrect`: plans name gids (`PolicyPlanType`, `HoldPlanType`, `StartPlanType`), and
  the inherited batch is a batch (`BatchOfType`).
* `PausesAreOwned` (without faults). Not inductive as it stands: publishing drops the entries
  of what a refresh has not shown, and forgetting drops an entry, so a held pause could lose
  its flag. `OwnedInv` adds what rules it out: a download nobody has added is not held
  (`UnknownNotHeld`); once a refresh has asked for the waiting downloads, every held pause is
  in its listing (`HeldAreListed`), and the plan it applies names listed downloads only
  (`PlansAreListed`); the history holds downloads that are over (`HistoryIsOver`), and so is
  whatever a request is about to forget (`ForgottenAreOver`). The argument for
  `HeldAreListed` is the mutex: while a refresh runs, only torrents can become paused, and
  they are listed after it has stopped waiting.
* `BookkeepingIsSaved` (all faults), by `SavedInv`: the file may differ only while a plan is
  applied and has changed something.
* `PausesOutliveRestarts` (all faults): a promised pause holds through lost replies and exits
  of either process. `AckedInv` adds that the download is held neither in memory nor on
  file (`Kept`: a plan releases what is held), that the saved session has it paused
  (`SavedPaused`: a restart reloads it), that the refresh in progress has not planned its
  release (`NotPlanned`), and the same of memory and file for pauses marked and not yet
  promised (`StandsFit`). `QuietStep` lists all that can start a paused download. The first
  attempt at this proof showed that the promise was stated too strongly for more than two
  requests: a pause undone and made again by another request before the first one's refresh
  began was still counted as promised to the first. `stands` is what was missing.

**`BatchQueue_refinement`.** `QueueImplementsOwnership`: without faults every step is one of
`PauseOwnership` or a stutter. `RefreshAllowed`, `ContinueAllowed`, `NewRequestAllowed` and
`EnvironmentAllowed` map the steps. Beyond `OwnedInv` it takes `ServedInv`: where a request
stands says what it is (`OpsFit`), who holds the mutex serves what it applies (`JobsFit`), and
a release that is planned is of a held download, of one that is over, or of one whose mark a
request has just cleared, which then still waits for the mutex (`ReleasesFit`). The last is
the crossing the abstract specification allows for.

**`BatchTurns_proofs`.** All the promises of the planning functions, on every listing of
pending downloads (`TurnsInv`): `OneBatchAtATime`, `PassesSettle`, `TheTurnIsNeverLost`,
`HeldStaysHeld`, `StartedKeepsRunning`, `UserPausesAreKept`. `InPlayIs` characterises the
batch in play; `CarriedOut` and `PassDoes` say what a plan makes of each download, since a
plan names each download once; `SameBatches` that carrying it out changes no batch.

**`Aria2Runtime_proofs`.** `SettingsReachAria` needs most of `RuntimeInv`: what the daemon
has noted of its process is true of it, but for the two cases that mislead it (`NotedIsTrue`);
a refresh begun since the last change brings its limit, and one on its way with an older
limit keeps the mutex from the others (`FreshBringsTheLimit`). `ReadyIsTrue` and
`SettingsSurviveRestarts` are parts of it.

**`DownloadRetries_proofs`.** First what the lists of the model hold: which elements remain of a
list from which some are taken (`ItemsAtItems`, `WithoutItems`) or that is deduplicated
(`DeduplicateItems`), and what the merge of history and results lists (`MergedList`). Both are
recursive functions; their unfolding (`ItemsAtUnfolds`) comes from the least list on which it
could fail. With these:
* `RetryTypes`, by `EntriesInv`: whatever is shown, remembered or to be retried was once given
  to aria2 (`OnlyGiven`), restarts are counted (`RestartsCounted`), and the entry of a retry that
  is due is of an attempt (`DueEntries`).
* `NoSecondAnnouncement`, by `NewsInv` and `OnlyAnnounceTells`: what a refresh is about to
  announce was not announced before. That rests on how news is told from old results: a
  result known to the history or to the retries is no news (`ResultsFit`, `ListFits`), an entry
  that still has retries has not been told as failed (`EntriesUntold`), what was told stays
  known (`ToldStays`), and a retry becomes a daily one in one refresh only (`DailyFits`).
* `DailyFailureIsTold`, an action property.
* `OneAttemptIfDropped`: counted are not the attempts that run but all that are `Open`, those
  that run or may be made again: a failure aria2 still remembers or a refresh has read, the one
  in the history unless the job's entry is for another attempt, the one an entry is due for.
  They are never more than the downloads asked for (`OpenBounded`): an add opens one; a retry
  opens one and closes the one it was due for (`RetryOpens`); forgetting a cancelled retry
  closes it and opens at most the failure in the history (`ForgettingOpens`), which shows one
  end of each job (`OneEnd`). What is shown or due has ended (`ShownIsOver`, `DueIsOver`), and a
  refresh that schedules works with the history as it is (`ListIsHistory`). The theorem is for
  runs without leftover results: a leftover counts as open though its retry runs, and that it
  is not made again meanwhile depends on the order of aria2's results.

**`SettingsEdits_proofs`.** `EditsAreVisible`: every change is counted; what is shown, what a
refresh has read and what is stored are each at least as new as the one before
(`NewestIsStored`), because one refresh at a time is between reading and publishing
(`OneRefresh`). The lists themselves do not matter to it. `SettingsTypes`: what any program sends
is again a list of rules (`EditsAreLists`), and requests on their way and changes counted are
together no more than requests sent. `DragsLandBeside`: removing and inserting are stated row by
row (`RowsLeft`, `RowsWithOneMore`), and the four cases of before or after, from above or from
below, give the insertion point (`DropLands`). `FirstRuleGoes` says what the Delete button does
in place of `DeleteRemovesItsRow`: the index the filter compares with is always an earlier row's,
except for the first row (`FirstRowLeaves`), so that one is dropped.

**`Services_proofs`.**
* `AnsweredKeysAddNothing`, an action property of `AddRequests`. `AddInv`: what was promised for a
  key is recorded, shown and exists (`PromisesKept`); a download being added belongs to one
  connection and was promised to nobody, so an old promise cannot come back (`HeldAreFresh`);
  a request gets past the look-up only if the promise it came after no longer stands
  (`AskersAreRight`).
* `LimitReachesTorrents`: `LimitsAgree` relates the session's limit, the one noted and the one
  a refresh still works with. `SequentialHasReader`.
* `ServicesAreReplaced` (`Bootstrap`), by `BootInv`: what an interface is about to do follows from
  its notes; once it has written the unit and had it read, nothing changes either any more
  (`UnitReplaced`: by hand units are read again but not installed meanwhile), so whatever starts
  the service from then on starts this build; and the restart gives it a process younger than the
  notes, which only a younger one can follow.
* `RevocationHolds` (`WebAuth`): a token whose revocation is over is listed as revoked
  or has expired (`RevokedOrExpired`), since expired tokens are dropped from that list.
  `SessionsAreKept`, an action property: the sessions known were signed with the secret in
  memory (`SessionsAreSigned`), and memory and file never hold two different ones (`OneSecret`).
* `SupervisorTypes` (`WebSupervisor`): that what serves has a configuration takes that a round
  starts or binds a server only with settings that want one (`StartsWhatIsWanted`).
* `ServicesTypes`: the type invariant of `MCServices`. `ServicesInv` conjoins the invariants of the
  parts; a step is one part's step and leaves the other parts alone.

**`FrontEnds_proofs`.**
* `EventsAreComplete` (`CliClient`): a poll that reports nothing about a download must have
  told its state before. That fails for one in both lists of one snapshot unless what is over
  stays over in every later list (`OverIsOver`), which follows the answers of the refresh.
* `PagesNeverGoBack` and `TextIsKept` (`WebPage`), action properties: at most one fetch under
  way is of the present epoch (`CurrentIsAlone`) and at most one is a refresh, an overtaken one
  included (`RefreshIsAlone`); the two flags say so (`FlagsAreTrue`); an answer of the present
  epoch is as new as the page (`AnswersAreNew`). `refreshing` could be cleared by an
  overtaken refresh; `RefreshIsAlone` is why it is not another one's flag. `TextIsKept` then goes
  by who owns an answer that is shown (`ContinueShows`): of the present epoch, and a refresh only
  while nothing is marked and nothing has the focus.

Only model-checked:
* liveness with its fairness, and the `violation` runs;
* `OneAttemptEach` with leftover results (`Services` checks it);
* `OutliersNeedConfirmation` and `BatchEndsWithItsBytes`: sorted sequences, medians, sums;
* the types of `SpeedTracker`, `EtaProjection` and `TuiApp` (in `FrontEndsTypeOK`): sorted sequences, sums;
* that the recursive function inside `Ancestors` gives the nearest batch: proved is that it gives
  a batch, and what the policy makes of any batch.

## Not modelled, and the plan

Next, theorems: `OneAttemptEach` with leftover results; the types of `TuiApp`.

Left out, and why:

* drawing and field editing of the TUI (`tui/draw.rs`, `tui/forms.rs`), HTML of the web
  server: layout; what they show is the snapshot;
* the qBittorrent API (`web/server.rs`): translates to the adds, pauses and cancels modelled;
* `daemon/permissions.rs`: one check per request, no state;
* exponential averages, slew limit and ETA smoothing (`speed.rs`), the capacity model
  (`eta.rs`): floating-point filters without control of their own;
* parsing of arguments, units, links and rules' patterns; unit texts, paths, build scripts;
* the browser extension: one request per link, in another process;
* file writes that fail or are cut off half way (`state.toml` and `queue-state.json` are
  written in place): the models' writes succeed or are refused as a whole;
* paging of the waiting list, `summarize_queue`.

## Findings

* `PauseAllSticks` (`reconcile.rs:1092`): everything is paused first, the held flags are
  cleared several awaits later; a refresh in between starts a batch again.
* `RefreshKeepsBatches` (`reconcile.rs:772`): a download that goes from waiting to active
  between the calls for active and for waiting downloads is in no list and loses its entry.
* `OwnedPauses` with an aria2 exit (`reconcile.rs:706`): a release is on file before it is in
  aria2's session; the new process loads a pause nobody owns.
* `ResumeStartsTheDownload` (`reconcile.rs:1012`): resuming a held child starts the batch of
  its own entry, not the one it inherits, and may park its siblings instead.
* `DialogsActOnTheirDownload` (`tui/app.rs:640`): the batch and cancel dialogs act on the row
  selected when Enter is pressed.
* `DeleteRemovesItsRow` (`web/server.rs:2313`): every Delete button of the routing page deletes
  the first rule.

Behaviours the models have and no document speaks of, so that no run states them, and the
exceptions the properties make for them:

* An exit between the submission of a retry and `save` submits it again, and so does a lost
  answer to `addUri`; erasing a history entry while a refresh has read aria2's results brings
  it back (`OneAttemptEach`).
* A job whose failure and success aria2 both remembers shows them in turns, one per refresh, and
  its entry is dropped every second time. A cancelled retry is forgotten, and the failure the
  history still shows is scheduled anew.
* `desired_limit_bps` survives the process it was sent to, so a respawned aria2 runs without
  a limit until the limit changes; `desired_slots` is noted for a process that never answered
  (`SettingsInForce`). `Failed` is never set back to `Ready` by later refreshes.
* Revocations and idempotency keys are in memory only; two adds with one key that overlap
  both add (`RevokedStaysOut` and `AnsweredKeyAddsNothing` are stated accordingly). The
  published status of the web server may stay "Starting".
* A byte counter that goes back while outliers are counted does not reset their count
  (`OutliersNeedConfirmation`).
* A torrent added again while its hash is still marked sequential is shown as such without a
  reader (`ShownSequentialIsRead`).
* Three programs read a whole list and write it back: concurrent edits are lost, which
  `OwnEditsVisible` does not exclude. A list that fails validation stays in memory and blocks
  later saves.
* Any request that fails ends the terminal interface, and "disconnected" replaces an open
  dialog. Editing a rule another client has removed panics.
* `download wait` ends with "not found" or "ambiguous" when a snapshot has the download in
  none or both of its lists; `events` may skip intermediate states.
* Updating a daemon does not stop one of the other service manager.
* A service started between the look at the services and the user's answer is only asked to
  start and keeps its old process (`PreparedServiceIsReplaced`).
* A preparation that breaks off leaves the service half done, and the next one is misled by the
  unit, which names the new build already: after an exit before the restart, "ensure" leaves the
  old daemon alone and waits in vain; after an exit before systemd has read the unit, "update"
  skips the reading and restarts the service from the old one (`PreparedServiceIsReplaced`).
* A search strips is-dirty from every form of the page when its answer is patched in: text typed in
  another form of that page is then protected by the focus only, and the next background
  refresh may overwrite it. The schedule editor leaves its form marked when it is closed, which
  keeps background refreshes away until a link or form (`UnsavedTextStays`, `PageCatchesUp`).
* If the first save of the web secret fails, approvals go on with a secret a restart forgets, unless
  another setting is saved before (`SessionsSurvive`).
