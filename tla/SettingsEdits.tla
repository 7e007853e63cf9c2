--------------------------- MODULE SettingsEdits ---------------------------
(***************************************************************************)
(* Routing rules and the schedule are edited by three programs (the web    *)
(* pages, the terminal interface, the command line), each of which reads   *)
(* the published snapshot, changes its copy of the list and sends the      *)
(* whole list back.  The daemon (src/daemon/reconcile.rs) stores it under  *)
(* the state lock, saves state.toml, and answers after a refresh of its    *)
(* own has published a new snapshot.                                       *)
(***************************************************************************)
EXTENDS Integers, FiniteSets, Sequences, SequencesExt

CONSTANTS
    Editor,         \* [Editor -> program] is ProgramOf
    ProgramOf,
    FirstRules,     \* routing rules at start-up, each rule once
    NewRule,        \* a rule somebody adds
    BadRule,        \* a rule state.toml is not saved with
    Hours,          \* BOUND: slots of the schedule (24 in the code)
    MaxRules,       \* BOUND: rules of a list
    MaxSettings,    \* BOUND: requests sent
    MaxRefreshFaults  \* BOUND: refreshes that fail

Programs == {"web", "tui", "cli"}
Ticking == "ticking"   \* the poll loop, which refreshes without a request

ASSUME SettingsAssumption ==
    /\ ProgramOf \in [Editor -> Programs] /\ {Ticking, "free"} \cap Editor = {}
    /\ IsFiniteSet(Editor)
    /\ FirstRules \in Seq(Range(FirstRules)) /\ Len(FirstRules) <= MaxRules
    /\ {Hours, MaxRules, MaxSettings, MaxRefreshFaults} \subseteq Nat

VARIABLES
    settings,    \* routing and schedule of PersistedState, and how often it changed
    onDisk,      \* state.toml
    shownNow,   \* scheduler and routing of the snapshot
    copy,        \* snapshot each editor works from
    sent,        \* list each editor has sent, then the change it made
    stage,       \* progress of each request, and of the poll loop
    runtimeLock, \* who holds the runtime mutex, or "free"
    latest,      \* settings each refresh has read
    answered,    \* last change whose request was answered with success
    requests, refreshFaults

settingsVars == <<settings, onDisk, shownNow, copy, sent, stage, runtimeLock, latest, answered,
                  requests, refreshFaults>>

Nothing == [of |-> "nothing", is |-> 0]
Rules == Range(FirstRules) \cup {NewRule, BadRule}
Limits == [0 .. Hours - 1 -> {"capped", "unlimited"}]
Settings == [rules : UNION {[1 .. n -> Rules] : n \in 0 .. MaxRules}, limits : Limits,
             change : 0 .. MaxSettings]
Refreshers == Editor \cup {Ticking}

SettingsTypeOK ==
    /\ {settings, onDisk, shownNow} \subseteq Settings
    /\ \A e \in Editor : copy[e] \in Settings /\ sent[e].of \in {"nothing", "change", "rules", "limits"}
    /\ stage \in [Refreshers -> {"idle", "editing", "sent", "stored", "locked", "read"}]
    /\ runtimeLock \in Refreshers \cup {"free"} /\ \A r \in Refreshers : latest[r] \in Settings
    /\ answered \in 0 .. MaxSettings /\ requests \in 0 .. MaxSettings
    /\ refreshFaults \in 0 .. MaxRefreshFaults

First == [rules |-> FirstRules, limits |-> [h \in 0 .. Hours - 1 |-> "unlimited"], change |-> 0]
SettingsInit ==
    /\ settings = First /\ onDisk = First /\ shownNow = First
    /\ copy = [e \in Editor |-> First] /\ sent = [e \in Editor |-> Nothing]
    /\ stage = [r \in Refreshers |-> "idle"] /\ runtimeLock = "free"
    /\ latest = [r \in Refreshers |-> First]
    /\ answered = 0 /\ requests = 0 /\ refreshFaults = 0

-----------------------------------------------------------------------------
(* The lists an edit makes of the rules read.  Every program leaves out    *)
(* the fallback "*", which the daemon appends again (normalize_rules); row *)
(* numbers are those of the page or table, from 1.                         *)
Positions(list) == 1 .. Len(list)
Exchanged(list, i, j) == [list EXCEPT ![i] = list[j], ![j] = list[i]]
Clamped(i, list) == IF i < 1 THEN 1 ELSE IF i > Len(list) THEN Len(list) ELSE i

MovedBySwap(list, i, delta) == Exchanged(list, i, Clamped(i + delta, list))
MovedByInsertion(list, i, delta) ==
    InsertAt(RemoveAt(list, i), Clamped(i + delta, list), list[i])

(* reorder_rule: source dropped before or after target *)
InsertionUnshifted(source, target, where) == IF where = "after" THEN target + 1 ELSE target
Insertion(source, target, where) ==
    IF where = "after" THEN target + (IF source > target THEN 1 ELSE 0)
    ELSE target - (IF source < target THEN 1 ELSE 0)
Reordered(list, source, target, where) ==
    LET at == Insertion(source, target, where)
    IN  InsertAt(RemoveAt(list, source), IF at < Len(list) THEN at ELSE Len(list), list[source])

(* delete_rule, with index_to_nonfallback of the row counted from 0 *)
IndexToNonfallback(full, row) ==
    LET before == IF row < full + 1 THEN row ELSE full + 1 IN IF before > 0 THEN before - 1 ELSE 0
InOrder(list, kept) ==
    [n \in 1 .. Cardinality(kept) |-> list[CHOOSE k \in kept : Cardinality({m \in kept : m <= k}) = n]]
DeletedByWeb(list, i) ==
    InOrder(list, {k \in Positions(list) : k - 1 # IndexToNonfallback(i - 1, k - 1)})

WebRules(list) ==
    {MovedBySwap(list, i, delta) : i \in Positions(list), delta \in {-1, 1}}
    \cup (UNION {{Reordered(list, i, j, where) : j \in Positions(list) \ {i}, where \in {"before", "after"}} :
                    i \in Positions(list)})
    \cup {[list EXCEPT ![i] = NewRule] : i \in Positions(list)} \cup {Append(list, NewRule)}
TuiRules(list) ==
    {Exchanged(list, i, i + 1) : i \in 1 .. Len(list) - 1}
    \cup {RemoveAt(list, i) : i \in Positions(list)}
    \cup {[list EXCEPT ![i] = NewRule] : i \in Positions(list)} \cup {Append(list, NewRule)}
(* The command line alone sends rules it has not validated. *)
CliRules(list) ==
    {MovedByInsertion(list, i, delta) : i \in Positions(list), delta \in {-1, 1}}
    \cup {RemoveAt(list, i) : i \in Positions(list)}
    \cup {[list EXCEPT ![i] = rule] : i \in Positions(list), rule \in {NewRule, BadRule}}
    \cup {InsertAt(list, i, rule) : i \in 1 .. Len(list) + 1, rule \in {NewRule, BadRule}}
RulesSentBy(e, list) ==
    CASE ProgramOf[e] = "web" -> WebRules(list)
      [] ProgramOf[e] = "tui" -> TuiRules(list)
      [] ProgramOf[e] = "cli" -> CliRules(list)

(* Pages and dialogs take start < end <= Hours; the command line walks     *)
(* round the clock, and from one hour to itself changes nothing.           *)
InRange(e, h, from, to) ==
    IF ProgramOf[e] # "cli" \/ from <= to THEN from <= h /\ h < to ELSE h >= from \/ h < to
RangesOf(e) ==
    IF ProgramOf[e] = "cli" THEN (0 .. Hours - 1) \X (0 .. Hours - 1)
    ELSE {range \in (0 .. Hours - 1) \X (1 .. Hours) : range[1] < range[2]}
LimitsSentBy(e, limits) ==
    {[h \in DOMAIN limits |-> IF InRange(e, h, range[1], range[2]) THEN limit ELSE limits[h]] :
        range \in RangesOf(e), limit \in {"capped", "unlimited"}}

-----------------------------------------------------------------------------
(* A command or the handler of a form reads the snapshot and sends; the    *)
(* terminal interface keeps reading it while its table is shown.           *)
ReadSnapshot(e) ==
    /\ stage[e] = "idle" \/ (stage[e] = "editing" /\ ProgramOf[e] = "tui")
    /\ stage' = [stage EXCEPT ![e] = "editing"] /\ copy' = [copy EXCEPT ![e] = shownNow]
    /\ requests < MaxSettings
    /\ UNCHANGED <<settings, onDisk, shownNow, sent, runtimeLock, latest, answered, requests,
                   refreshFaults>>

Send(e, list, edited) ==
    /\ stage[e] = "editing" /\ requests < MaxSettings /\ requests' = requests + 1
    /\ sent' = [sent EXCEPT ![e] = [of |-> list, is |-> edited]]
    /\ stage' = [stage EXCEPT ![e] = "sent"] /\ copy' = [copy EXCEPT ![e] = First]
    /\ UNCHANGED <<settings, onDisk, shownNow, runtimeLock, latest, answered, refreshFaults>>

SendRules(e) == \E list \in RulesSentBy(e, copy[e].rules) : Len(list) <= MaxRules /\ Send(e, "rules", list)
DeleteRow(e, i) == ProgramOf[e] = "web" /\ i \in Positions(copy[e].rules)
                   /\ Send(e, "rules", DeletedByWeb(copy[e].rules, i))
SendLimits(e) == \E limits \in LimitsSentBy(e, copy[e].limits) : Send(e, "limits", limits)

(* SetDownloadRouting, SetSchedule: memory is changed first; a list that   *)
(* does not validate stays there, is not saved and fails the request.      *)
Valid(s) == BadRule \notin Range(s.rules)
Store(e) ==
    /\ stage[e] = "sent"
    /\ settings' = [settings EXCEPT ![sent[e].of] = sent[e].is, !.change = @ + 1]
    /\ IF Valid(settings')
       THEN /\ onDisk' = settings' /\ stage' = [stage EXCEPT ![e] = "stored"]
            /\ sent' = [sent EXCEPT ![e] = [of |-> "change", is |-> settings'.change]]
       ELSE /\ stage' = [stage EXCEPT ![e] = "idle"] /\ sent' = [sent EXCEPT ![e] = Nothing]
            /\ UNCHANGED onDisk
    /\ UNCHANGED <<shownNow, copy, runtimeLock, latest, answered, requests, refreshFaults>>

-----------------------------------------------------------------------------
(* perform_refresh: the runtime mutex, then the state, then the snapshot. *)
NoMutex == TRUE
MutexIsFree == runtimeLock = "free"

Lock(r) ==
    /\ stage[r] = (IF r = Ticking THEN "idle" ELSE "stored") /\ MutexIsFree
    /\ runtimeLock' = r /\ stage' = [stage EXCEPT ![r] = "locked"]
    /\ UNCHANGED <<settings, onDisk, shownNow, copy, sent, latest, answered, requests, refreshFaults>>

ReadState(r) ==
    /\ stage[r] = "locked"
    /\ latest' = [latest EXCEPT ![r] = settings] /\ stage' = [stage EXCEPT ![r] = "read"]
    /\ UNCHANGED <<settings, onDisk, shownNow, copy, sent, runtimeLock, answered, requests, refreshFaults>>

(* The request is answered when its own refresh is over. *)
RefreshOver(r) ==
    /\ runtimeLock' = "free" /\ stage' = [stage EXCEPT ![r] = "idle"]
    /\ latest' = [latest EXCEPT ![r] = First]
    /\ sent' = IF r = Ticking THEN sent ELSE [sent EXCEPT ![r] = Nothing]
    /\ UNCHANGED <<settings, onDisk, copy, requests>>
Publish(r) ==
    /\ stage[r] = "read" /\ RefreshOver(r) /\ shownNow' = latest[r]
    /\ answered' = IF r # Ticking /\ sent[r].is > answered THEN sent[r].is ELSE answered
    /\ UNCHANGED refreshFaults
RefreshFails(r) ==
    /\ stage[r] \in {"locked", "read"} /\ RefreshOver(r)
    /\ refreshFaults < MaxRefreshFaults /\ refreshFaults' = refreshFaults + 1
    /\ UNCHANGED <<shownNow, answered>>

SettingsNext ==
    \/ \E e \in Editor :
        \/ ReadSnapshot(e) \/ SendRules(e) \/ SendLimits(e) \/ Store(e)
        \/ \E i \in 1 .. MaxRules : DeleteRow(e, i)
    \/ \E r \in Refreshers : Lock(r) \/ ReadState(r) \/ Publish(r) \/ RefreshFails(r)
SettingsSpec == SettingsInit /\ [][SettingsNext]_settingsVars

-----------------------------------------------------------------------------
(* Once an edit has been answered with success, every snapshot anybody is  *)
(* shown has it or a later one, whatever refreshes are under way.          *)
OwnEditsVisible == shownNow.change >= answered

(* A rule dragged on a page lands right before or right after the rule it  *)
(* is dropped on, and the other rules keep their order.                    *)
LandsBeside(list, i, j, where) ==
    LET moved == Reordered(list, i, j, where)
        at == CHOOSE k \in Positions(moved) : moved[k] = list[i]
        beside == IF where = "before" THEN at + 1 ELSE at - 1
    IN  /\ RemoveAt(moved, at) = RemoveAt(list, i)
        /\ beside \in Positions(moved) /\ moved[beside] = list[j]
DraggedLandsBeside ==
    \A e \in Editor : LET list == copy[e].rules IN IsInjective(list) =>
        \A i, j \in Positions(list) : i # j =>
            \A where \in {"before", "after"} : LandsBeside(list, i, j, where)

(* The Delete button of a row of the routing page takes out the rule of    *)
(* that row (src/web/server.rs:3890).                                      *)
DeleteRemovesItsRow ==
    [][\A e \in Editor : \A i \in 1 .. MaxRules :
           DeleteRow(e, i) => sent'[e].is = RemoveAt(copy[e].rules, i)]_settingsVars
=============================================================================
