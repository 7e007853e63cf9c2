------------------------------- MODULE TuiApp -------------------------------
(***************************************************************************)
(* The terminal interface (src/tui/app.rs): one loop draws the snapshot it *)
(* holds, waits for a key or a timeout, and either refreshes the snapshot  *)
(* or handles the key.  Most keys and every submitted dialog are a request *)
(* to the daemon, whose answer replaces the snapshot; a request that fails *)
(* ends the interface.  Meanwhile downloads end and arrive, other clients  *)
(* edit the routing rules, and the daemon may be away.                     *)
(* Selections are positions in lists that change under them.               *)
(***************************************************************************)
EXTENDS ListView

CONSTANTS
    Gid, Rule,
    About,       \* what the row of each download says (records of ListView)
    Ends,        \* and the status it has in the history
    NoGid,
    MaxOutside,  \* BOUND: changes made by others
    MaxKeys,     \* BOUND: keys pressed, moves of the selection apart
    MaxLosses    \* BOUND: requests that fail and refreshes that time out

ASSUME TuiAssumption ==
    /\ NoGid \notin Gid /\ DOMAIN About = Gid /\ DOMAIN Ends = Gid
    /\ {MaxOutside, MaxKeys, MaxLosses} \subseteq Nat

(* The tabs that matter: the lists, the rules, and one for the tabs whose  *)
(* editors send one setting as a whole.                                    *)
Tab == {"current", "history", "routing", "settings"}

VARIABLES
    kept,     \* the daemon's lists: downloads, history, routing rules
    away,     \* the daemon does not answer
    held,     \* UiApp.snapshot
    tab,
    cursor,   \* current_index, history_index, routing_index
    chosen,   \* search, filter and sort of the current downloads
    modal,    \* the dialog: its kind, its rule index, the row it was opened on
    loop,     \* "draw", "wait", "remembered" (a key half handled), "closed", "panicked"
    painted,  \* download highlighted on the screen
    asked,    \* the request about a download just sent
    outside, keys, losses

tuiVars == <<kept, away, held, tab, cursor, chosen, modal, loop, painted, asked,
             outside, keys, losses>>

Dialog(kind, index, gid) == [kind |-> kind, index |-> index, on |-> gid]
NoDialog == Dialog("none", 0, NoGid)
NothingAsked == [kind |-> "none", gid |-> NoGid, on |-> NoGid, from |-> "none"]

Rows(list) == [i \in DOMAIN list |-> About[list[i]] @@ [gid |-> list[i]]]
PastRows(list) ==
    [i \in DOMAIN list |-> [About[list[i]] EXCEPT !.status = Ends[list[i]]] @@ [gid |-> list[i]]]

VisibleNow(lists, choice) ==
    CurrentVisible(Rows(lists.current), choice.search, choice.filter, choice.sort)
VisiblePast(lists) == HistoryVisible(PastRows(lists.past), "", "all", "recent")

Under(rows, i) == IF i < Len(rows) THEN rows[i + 1].gid ELSE NoGid
CurrentSelected == Under(VisibleNow(held, chosen), cursor.current)
HistorySelected == Under(VisiblePast(held), cursor.past)

(* normalize_indices, after every change of the snapshot or of a filter *)
MovedIndex(i, len, delta) ==
    IF len = 0 \/ i + delta < 0 THEN 0 ELSE IF i + delta >= len THEN len - 1 ELSE i + delta
NormalizedListOnly(lists, choice) ==
    [cursor EXCEPT !.current = MovedIndex(@, Len(VisibleNow(lists, choice)), 0)]
NormalizedCursor(lists, choice) ==
    [current |-> MovedIndex(cursor.current, Len(VisibleNow(lists, choice)), 0),
     past    |-> MovedIndex(cursor.past, Len(VisiblePast(lists)), 0),
     routing |-> MovedIndex(cursor.routing, Len(lists.rules) + 1, 0)]

CursorInside ==
    /\ cursor.current <= IF VisibleNow(held, chosen) = <<>> THEN 0
                         ELSE Len(VisibleNow(held, chosen)) - 1
    /\ cursor.past <= IF held.past = <<>> THEN 0 ELSE Len(held.past) - 1
    /\ cursor.routing <= Len(held.rules)

TuiTypeOK ==
    /\ \A lists \in {kept, held} : /\ Range(lists.current) \cup Range(lists.past) \subseteq Gid
                                   /\ Range(lists.rules) \subseteq Rule
    /\ away \in BOOLEAN /\ tab \in Tab
    /\ modal.kind \in {"none", "add", "filename", "batch", "cancel", "rule", "newrule", "fallback",
                       "setting", "search", "disconnected", "error"}
    /\ loop \in {"draw", "wait", "remembered", "closed", "panicked"} /\ painted \in Gid \cup {NoGid}
    /\ CursorInside
    /\ outside \in 0 .. MaxOutside /\ keys \in 0 .. MaxKeys /\ losses \in 0 .. MaxLosses

TuiInit ==
    /\ \E g, h \in Gid : About[g].name < About[h].name
                        /\ kept = [current |-> <<g, h>>, past |-> <<>>, rules |-> SetToSeq(Rule)]
    /\ held = [current |-> <<>>, past |-> <<>>, rules |-> <<>>]
    /\ away = FALSE /\ tab = "current" /\ cursor = [current |-> 0, past |-> 0, routing |-> 0]
    /\ chosen = [search |-> "", filter |-> "all", sort |-> "queue"]
    /\ modal = NoDialog /\ loop = "draw" /\ painted = NoGid /\ asked = NothingAsked
    /\ outside = 0 /\ keys = 0 /\ losses = 0

-----------------------------------------------------------------------------
(* What others do to the daemon's lists. *)
Elsewhere == outside < MaxOutside /\ outside' = outside + 1
             /\ UNCHANGED <<held, tab, cursor, chosen, modal, loop, painted, asked, keys, losses>>

Unlisted == Gid \ (Range(kept.current) \cup Range(kept.past))

DownloadArrives == \E g \in Unlisted :
    Elsewhere /\ kept' = [kept EXCEPT !.current = Append(@, g)] /\ UNCHANGED away
DownloadEnds == \E g \in Range(kept.current) :
    /\ Elsewhere /\ UNCHANGED away
    /\ kept' = [kept EXCEPT !.current = Remove(@, g), !.past = <<g>> \o @]
RuleRemovedElsewhere == \E r \in Range(kept.rules) :
    Elsewhere /\ kept' = [kept EXCEPT !.rules = Remove(@, r)] /\ UNCHANGED away
DaemonLeaves == Elsewhere /\ ~away /\ away' = TRUE /\ UNCHANGED kept
DaemonReturns ==
    /\ away /\ away' = FALSE
    /\ UNCHANGED <<kept, held, tab, cursor, chosen, modal, loop, painted, asked, outside, keys, losses>>

-----------------------------------------------------------------------------
(* A request: what the daemon does with it, and whether it takes it. *)
AboutDownload == {"pause", "resume", "cancel", "position"}
Takes(request, lists) == request.kind \in AboutDownload => request.gid \in Range(lists.current)

Swapped(s, i, j) == [s EXCEPT ![i] = s[j], ![j] = s[i]]
Moved(list, g, delta) ==
    LET i == CHOOSE k \in DOMAIN list : list[k] = g
    IN  Swapped(list, i, MovedIndex(i - 1, Len(list), delta) + 1)

Outcomes(request, lists) ==
    CASE request.kind = "cancel" ->
            {[lists EXCEPT !.current = Remove(@, request.gid), !.past = <<request.gid>> \o @]}
      [] request.kind = "position" ->
            {[lists EXCEPT !.current = Moved(@, request.gid, request.delta)]}
      [] request.kind = "forget" -> {[lists EXCEPT !.past = Remove(@, request.gid)]}
      [] request.kind = "purge"  -> {[lists EXCEPT !.past = <<>>]}
      [] request.kind = "rules"  -> {[lists EXCEPT !.rules = request.rules]}
      [] request.kind = "add"    -> {[lists EXCEPT !.current = Append(@, g)] : g \in Unlisted} \cup {lists}
      [] OTHER                   -> {lists}

Note(request) ==
    asked' = IF "gid" \in DOMAIN request
             THEN [kind |-> request.kind, gid |-> request.gid, on |-> request.on, from |-> request.from]
             ELSE asked

(* The interface ends when the daemon is away, refuses the request, or     *)
(* fails, before it has done its work or after.                            *)
RequestEnds(request) ==
    /\ loop' = "closed" /\ Note(request)
    /\ \/ (away \/ ~Takes(request, kept)) /\ UNCHANGED <<kept, losses>>
       \/ /\ ~away /\ Takes(request, kept)
          /\ losses < MaxLosses /\ losses' = losses + 1
          /\ kept' \in Outcomes(request, kept) \cup {kept}
    /\ UNCHANGED <<held, cursor, modal>>

RequestServed(request) ==
    /\ ~away /\ Takes(request, kept)
    /\ kept' \in Outcomes(request, kept)
    /\ held' = kept' /\ cursor' = NormalizedCursor(kept', chosen)
    /\ loop' = "draw" /\ Note(request) /\ UNCHANGED losses

-----------------------------------------------------------------------------
Draw ==
    /\ loop = "draw"
    /\ painted' = CASE tab = "current" -> CurrentSelected
                    [] tab = "history" -> HistorySelected
                    [] OTHER           -> NoGid
    /\ loop' = "wait" /\ asked' = NothingAsked
    /\ UNCHANGED <<kept, away, held, tab, cursor, chosen, modal, outside, keys, losses>>

(* No key within the refresh interval: the snapshot is fetched, within     *)
(* half a second or not at all.                                            *)
TickServedLeavingDialog ==
    /\ ~away /\ held' = kept /\ cursor' = NormalizedCursor(kept, chosen)
    /\ UNCHANGED <<modal, losses>>
TickServed ==
    /\ ~away /\ held' = kept /\ cursor' = NormalizedCursor(kept, chosen)
    /\ modal' = IF modal.kind = "disconnected" THEN NoDialog ELSE modal
    /\ UNCHANGED losses
TickLost ==
    /\ \/ away /\ UNCHANGED losses
       \/ ~away /\ losses < MaxLosses /\ losses' = losses + 1
    /\ modal' = Dialog("disconnected", 0, NoGid)
    /\ UNCHANGED <<held, cursor>>
Tick ==
    /\ loop = "wait" /\ loop' = "draw"
    /\ TickServed \/ TickLost
    /\ UNCHANGED <<kept, away, tab, chosen, painted, asked, outside, keys>>

-----------------------------------------------------------------------------
(* Keys without a dialog. *)
Key ==
    /\ loop = "wait" /\ keys < MaxKeys /\ keys' = keys + 1
    /\ UNCHANGED <<away, painted, outside>>
Plain == Key /\ modal = NoDialog

MoveSelection == \E delta \in {-1, 1} :
    /\ loop = "wait" /\ modal = NoDialog /\ tab # "settings"
    /\ cursor' = CASE tab = "current" ->
                        [cursor EXCEPT !.current = MovedIndex(@, Len(VisibleNow(held, chosen)), delta)]
                   [] tab = "history" ->
                        [cursor EXCEPT !.past = MovedIndex(@, Len(VisiblePast(held)), delta)]
                   [] tab = "routing" ->
                        [cursor EXCEPT !.routing = MovedIndex(@, Len(held.rules) + 1, delta)]
    /\ loop' = "draw"
    /\ UNCHANGED <<kept, away, held, tab, chosen, modal, painted, asked, outside, keys, losses>>

ChangeTab ==
    /\ Plain /\ tab' \in Tab \ {tab} /\ loop' = "draw"
    /\ UNCHANGED <<kept, held, cursor, chosen, modal, asked, losses>>

(* f and s on the list of current downloads *)
ChangeOrder ==
    /\ Plain /\ tab = "current"
    /\ \/ chosen' = [chosen EXCEPT !.filter = Cycled(CurrentFilters, @)]
       \/ chosen' = [chosen EXCEPT !.sort = Cycled(CurrentSorts, @)]
    /\ cursor' = NormalizedCursor(held, chosen') /\ loop' = "draw"
    /\ UNCHANGED <<kept, held, tab, modal, asked, losses>>

Quit == /\ loop = "wait" /\ loop' = "closed"
        /\ UNCHANGED <<kept, away, held, tab, cursor, chosen, modal, painted, asked, outside, keys, losses>>

(* Keys that act at once.  p, r and c act on the row selected among the    *)
(* current downloads on whichever tab they are pressed.                    *)
Now(request) ==
    /\ RequestServed(request) \/ RequestEnds(request)
    /\ UNCHANGED <<tab, chosen, modal>>

OnSelected(kind, from) == [kind |-> kind, gid |-> CurrentSelected, on |-> painted, from |-> from]

ActOnSelected ==
    /\ Plain /\ CurrentSelected # NoGid
    /\ \/ \E kind \in {"pause", "resume", "cancel"} : Now(OnSelected(kind, tab))
       \/ tab = "current" /\ Now(OnSelected("batch", tab))
       \/ /\ tab = "current" /\ About[CurrentSelected].status \in {"waiting", "paused"}
          /\ \E delta \in {-1, 1} : Now(OnSelected("position", tab) @@ [delta |-> delta])

ActOnHistory ==
    /\ Plain /\ tab = "history"
    /\ \/ /\ HistorySelected # NoGid
          /\ Now([kind |-> "forget", gid |-> HistorySelected, on |-> painted, from |-> tab])
       \/ Now([kind |-> "purge"])

(* Pausing, resuming or starting everything or a batch; switching a mode. *)
ActOnAll == Plain /\ tab \in {"current", "settings"} /\ Now([kind |-> "all"])

DeleteRule ==
    /\ Plain /\ tab = "routing" /\ cursor.routing < Len(held.rules)
    /\ Now([kind |-> "rules", rules |-> RemoveAt(held.rules, cursor.routing + 1)])

(* J and K on a rule: the selection follows it. *)
MoveRule == \E delta \in {-1, 1} :
    LET target == MovedIndex(cursor.routing, Len(held.rules), delta)
        request == [kind |-> "rules", rules |-> Swapped(held.rules, cursor.routing + 1, target + 1)]
    IN  /\ Plain /\ tab = "routing" /\ cursor.routing < Len(held.rules) /\ target # cursor.routing
        /\ \/ /\ ~away /\ kept' \in Outcomes(request, kept) /\ held' = kept'
              /\ cursor' = [NormalizedCursor(kept', chosen) EXCEPT !.routing = target]
              /\ loop' = "draw" /\ UNCHANGED <<asked, losses>>
           \/ RequestEnds(request)
        /\ UNCHANGED <<tab, chosen, modal>>

-----------------------------------------------------------------------------
(* Keys that open a dialog. *)
Opens(dialog) ==
    /\ Plain /\ modal' = dialog /\ loop' = "draw"
    /\ UNCHANGED <<kept, held, tab, cursor, chosen, asked, losses>>

OpenOnDownload ==
    /\ CurrentSelected # NoGid
    /\ \/ tab = "current" /\ Opens(Dialog("batch", 0, painted))
       \/ Opens(Dialog("cancel", 0, painted))
OpenOnRule ==
    /\ tab = "routing"
    /\ \/ Opens(Dialog("newrule", 0, NoGid))
       \/ IF cursor.routing < Len(held.rules) THEN Opens(Dialog("rule", cursor.routing, NoGid))
          ELSE Opens(Dialog("fallback", 0, NoGid))
OpenOther ==
    \/ tab # "routing" /\ Opens(Dialog("add", 0, NoGid))
    \/ tab = "current" /\ Opens(Dialog("search", 0, NoGid))
    \/ tab \in {"current", "settings"} /\ Opens(Dialog("setting", 0, NoGid))

-----------------------------------------------------------------------------
(* Keys in a dialog. *)
InDialog(kind) == Key /\ modal.kind = kind
Becomes(dialog) ==
    /\ modal' = dialog /\ loop' = "draw"
    /\ UNCHANGED <<kept, held, tab, cursor, chosen, asked, losses>>

Dismiss == \E kind \in {"add", "batch", "cancel", "rule", "newrule", "fallback", "setting", "search",
                        "disconnected", "error"} : InDialog(kind) /\ Becomes(NoDialog)
Reconsider == InDialog("filename") /\ Becomes(Dialog("add", 0, NoGid))

(* What was typed is no number, address or name: most forms say so, the    *)
(* editors of settings and rules end the interface.                        *)
Invalid ==
    \/ \E kind \in {"add", "batch", "filename", "setting"} :
            InDialog(kind) /\ Becomes(Dialog("error", 0, NoGid))
    \/ /\ \E kind \in {"rule", "newrule", "fallback", "setting"} : InDialog(kind)
       /\ loop' = "closed"
       /\ UNCHANGED <<kept, held, tab, cursor, chosen, modal, asked, losses>>

Submits(request) ==
    /\ \/ RequestServed(request) /\ modal' = NoDialog
       \/ RequestEnds(request)
    /\ UNCHANGED <<tab, chosen>>

(* A link is resolved first; the user may be asked for the name. *)
SubmitLink ==
    /\ InDialog("add")
    /\ \/ ~away /\ Becomes(Dialog("filename", 0, NoGid))
       \/ Submits([kind |-> "add"])
SubmitName == InDialog("filename") /\ Submits([kind |-> "add"])
SubmitSetting == InDialog("setting") /\ Submits([kind |-> "setting"])
SubmitSearch == \E word \in {""} \cup UNION {About[g].words : g \in Gid} :
    /\ InDialog("search")
    /\ chosen' = [chosen EXCEPT !.search = word]
    /\ cursor' = NormalizedCursor(held, chosen') /\ modal' = NoDialog /\ loop' = "draw"
    /\ UNCHANGED <<kept, held, tab, asked, losses>>

(* The dialogs on a download name it only now: the row selected by then.   *)
SubmitForSelected(kind) ==
    IF CurrentSelected = NoGid THEN Becomes(NoDialog)
    ELSE Submits([kind |-> kind, gid |-> CurrentSelected, on |-> modal.on, from |-> "dialog"])
SubmitOnDownload == \E kind \in {"batch", "cancel"} : InDialog(kind) /\ SubmitForSelected(kind)

(* "Remember this decision" is a request of its own, before the cancel. *)
RememberChoice ==
    /\ InDialog("cancel")
    /\ \/ /\ ~away /\ held' = kept /\ cursor' = NormalizedCursor(kept, chosen)
          /\ loop' = "remembered" /\ UNCHANGED <<kept, modal, asked, losses>>
       \/ RequestEnds([kind |-> "setting"])
    /\ UNCHANGED <<tab, chosen>>
ThenCancel ==
    /\ loop = "remembered" /\ SubmitForSelected("cancel")
    /\ UNCHANGED <<away, painted, outside, keys>>

(* The rule at the index noted when the editor was opened is replaced by   *)
(* what was typed; there may be no such rule any more.                     *)
SubmitRule == \E r \in Rule :
    /\ InDialog("rule")
    /\ IF modal.index < Len(held.rules)
       THEN Submits([kind |-> "rules", rules |-> [held.rules EXCEPT ![modal.index + 1] = r]])
       ELSE loop' = "panicked" /\ UNCHANGED <<kept, held, tab, cursor, chosen, modal, asked, losses>>
SubmitNewRule == \E r \in Rule \ Range(held.rules) :
    InDialog("newrule") /\ Submits([kind |-> "rules", rules |-> Append(held.rules, r)])
SubmitFallback == InDialog("fallback") /\ Submits([kind |-> "rules", rules |-> held.rules])

DialogKey ==
    \/ Dismiss \/ Reconsider \/ Invalid \/ SubmitLink \/ SubmitName \/ SubmitSetting
    \/ SubmitSearch \/ SubmitOnDownload \/ RememberChoice \/ ThenCancel
    \/ SubmitRule \/ SubmitNewRule \/ SubmitFallback

-----------------------------------------------------------------------------
TuiNext ==
    \/ DownloadArrives \/ DownloadEnds \/ RuleRemovedElsewhere \/ DaemonLeaves \/ DaemonReturns
    \/ Draw \/ Tick \/ MoveSelection \/ ChangeTab \/ ChangeOrder \/ Quit
    \/ ActOnSelected \/ ActOnHistory \/ ActOnAll \/ DeleteRule \/ MoveRule
    \/ OpenOnDownload \/ OpenOnRule \/ OpenOther \/ DialogKey

(* The loop draws and polls forever; a user stops typing now and then. *)
TuiFairness == WF_tuiVars(Draw) /\ WF_tuiVars(Tick) /\ WF_tuiVars(ThenCancel)
TuiSpec == TuiInit /\ [][TuiNext]_tuiVars /\ TuiFairness

-----------------------------------------------------------------------------
(* Once the daemon answers again and stays, the "disconnected" dialog goes *)
(* away by itself (or the interface was closed).                           *)
Reconnects ==
    <>[](~away) => <>[](modal.kind # "disconnected" \/ loop \in {"closed", "panicked"})

(* README.md:106: "b set the batch of the selected download"; draw.rs:576  *)
(* offers "c cancel" on the list of current downloads alone.  A dialog     *)
(* keeps no download, only the selected position.                          *)
DialogsActOnTheirDownload == asked.from = "dialog" => asked.gid = asked.on
=============================================================================
