------------------------------ MODULE WebPage ------------------------------
(***************************************************************************)
(* The script of the web pages (src/web/server.rs, from "let script").     *)
(* A page is fetched again by a link, a form, an editor dialog or the      *)
(* background refresh, and patched into the one shown.  Fetches overlap:   *)
(* an interaction aborts the ones before it, too late for an answer that   *)
(* has arrived, and every continuation compares the epoch it started in    *)
(* with the present one.                                                   *)
(* What the daemon would show is a version number.  Text not sent yet is   *)
(* in a form of the page or in the dialog over it, which lies outside the  *)
(* part that is patched; a form marked is-dirty, or a control that has the *)
(* focus, keeps the background refresh away from the body.                 *)
(***************************************************************************)
EXTENDS Naturals

CONSTANTS
    MaxVersion,       \* BOUND: changes of what the daemon would show
    MaxInteractions,  \* BOUND: links followed, searches, forms sent, dialogs opened
    MaxEdits,         \* BOUND: times somebody types in a form
    MaxNetFaults      \* BOUND: fetches that fail

ASSUME PageAssumption == {MaxVersion, MaxInteractions, MaxEdits, MaxNetFaults} \subseteq Nat

View == {"list", "editor"}     \* pages that refresh themselves, and those that do not
Place == {"form", "dialog"}
Focus == Place \cup {"live", "nowhere"}     \* "live": a search field, which sends itself

VARIABLES
    version,    \* what the daemon would show
    view,       \* path of the page
    shown,      \* version of the page's body
    text,       \* places with text that has not been sent
    dirty,      \* places with a form marked is-dirty
    focus,      \* where the control that has the focus is
    epoch,      \* requestEpoch
    flights,    \* fetches under way
    interacting,  \* interactionInFlight
    refreshing,   \* refreshInFlight
    ticking,    \* the refresh timer was started
    dialogOpen,
    edits, netFaults

forms == <<text, dirty, focus>>
pageVars == <<version, view, shown, forms, epoch, flights, interacting, refreshing, ticking,
              dialogOpen, edits, netFaults>>

Form == {"submit", "dialogForm"}
Flight == [kind : {"navigate", "search", "dialog", "refresh"} \cup Form, epoch : 0 .. MaxInteractions,
           to : View, seen : 0 .. MaxVersion, arrived : BOOLEAN, saved : BOOLEAN]

PageTypeOK ==
    /\ version \in 0 .. MaxVersion /\ shown \in 0 .. version /\ view \in View
    /\ epoch \in 0 .. MaxInteractions /\ flights \subseteq Flight
    /\ text \subseteq Place /\ dirty \subseteq Place /\ focus \in Focus
    /\ {interacting, refreshing, ticking, dialogOpen} \subseteq BOOLEAN
    /\ edits \in 0 .. MaxEdits /\ netFaults \in 0 .. MaxNetFaults

(* The timer is started by the first page alone, if that one refreshes. *)
PageInit ==
    /\ version = 0 /\ shown = 0 /\ view \in View /\ ticking = (view = "list")
    /\ text = {} /\ dirty = {} /\ focus = "nowhere" /\ dialogOpen = FALSE
    /\ epoch = 0 /\ flights = {} /\ interacting = FALSE /\ refreshing = FALSE
    /\ edits = 0 /\ netFaults = 0

-----------------------------------------------------------------------------
DaemonMovesOn ==
    /\ version < MaxVersion /\ version' = version + 1
    /\ UNCHANGED <<view, shown, forms, epoch, flights, interacting, refreshing, ticking, dialogOpen,
                   edits, netFaults>>

(* What the user can reach: an open dialog is modal. *)
OnPage == {"form", "nowhere"} \cup {f \in {"live"} : view = "list"}
Reach == IF dialogOpen THEN {"dialog", "nowhere"} ELSE OnPage

Type(p) ==
    /\ edits < MaxEdits /\ edits' = edits + 1
    /\ p \in Reach
    /\ text' = text \cup {p} /\ dirty' = dirty \cup {p} /\ focus' = p
    /\ UNCHANGED <<version, view, shown, epoch, flights, interacting, refreshing, ticking,
                   dialogOpen, netFaults>>

(* A control that loses the focus may report a change, which marks its form. *)
Remarked == {dirty, dirty \cup (text \cap {focus})}
MoveFocus ==
    /\ focus' \in Reach \ {focus}
    /\ dirty' \in Remarked
    /\ UNCHANGED <<version, view, shown, text, epoch, flights, interacting, refreshing, ticking,
                   dialogOpen, edits, netFaults>>

(* closeAppDialog, or the key Escape: what is in the dialog goes with it,  *)
(* and the browser gives the focus back to the page.                       *)
CloseDialog ==
    /\ dialogOpen /\ dialogOpen' = FALSE
    /\ text' = text \ {"dialog"} /\ dirty' = dirty \ {"dialog"}
    /\ focus' \in OnPage
    /\ UNCHANGED <<version, view, shown, epoch, flights, interacting, refreshing, ticking,
                   edits, netFaults>>

(* showScheduleEditor overwrites the limit, and leaves the form marked. *)
ShowScheduleEditor ==
    /\ ~dialogOpen /\ view = "list"
    /\ text' = text \ {"form"} /\ focus' = "form"
    /\ UNCHANGED <<version, view, shown, dirty, epoch, flights, interacting, refreshing, ticking,
                   dialogOpen, edits, netFaults>>

(* navigate, openAppDialog, submit: a new epoch; fetches that have not     *)
(* been answered are aborted.                                              *)
Launched(kind, to, e) ==
    [kind |-> kind, epoch |-> e, to |-> to, seen |-> 0, arrived |-> FALSE, saved |-> FALSE]
Interact(kind, to) ==
    /\ epoch < MaxInteractions /\ epoch' = epoch + 1
    /\ flights' = {f \in flights : f.arrived} \cup {Launched(kind, to, epoch + 1)}
    /\ interacting' = TRUE
    /\ refreshing' = (\E f \in flights : f.kind = "refresh" /\ f.arrived)
    /\ UNCHANGED <<version, view, shown, forms, ticking, dialogOpen, edits, netFaults>>

(* A search field sends itself, by a timer that may outlive its page; a    *)
(* form sent may lead to another page.                                     *)
Navigate == \E to \in View : Interact("navigate", to)
Search == (view = "list" \/ epoch > 0) /\ Interact("search", "list")
OpenDialog == Interact("dialog", view)
Submit == \E to \in View : Interact(IF dialogOpen THEN "dialogForm" ELSE "submit", to)

(* subtleRefresh, every 1.8 seconds while nothing else is in flight *)
StartRefresh ==
    /\ ticking /\ ~refreshing /\ ~interacting
    /\ refreshing' = TRUE /\ flights' = flights \cup {Launched("refresh", view, epoch)}
    /\ UNCHANGED <<version, view, shown, forms, epoch, interacting, ticking, dialogOpen, edits,
                   netFaults>>

-----------------------------------------------------------------------------
(* The daemon handles a form, then the page it redirects to is rendered. *)
FormSaved(f) ==
    /\ f \in flights /\ f.kind \in Form /\ ~f.saved /\ ~f.arrived
    /\ version' = IF version < MaxVersion THEN version + 1 ELSE version
    /\ flights' = (flights \ {f}) \cup {[f EXCEPT !.saved = TRUE]}
    /\ UNCHANGED <<view, shown, forms, epoch, interacting, refreshing, ticking, dialogOpen, edits,
                   netFaults>>

Answered(f) ==
    /\ f \in flights /\ ~f.arrived /\ (f.kind \in Form => f.saved)
    /\ flights' = (flights \ {f}) \cup {[f EXCEPT !.seen = version, !.arrived = TRUE]}
    /\ UNCHANGED <<version, view, shown, forms, epoch, interacting, refreshing, ticking, dialogOpen,
                   edits, netFaults>>

-----------------------------------------------------------------------------
(* What follows the await, and the `finally' blocks. *)
CurrentUnlessRefresh(f) == f.kind = "refresh" \/ f.epoch = epoch
Current(f) == f.epoch = epoch

ConcludedIfCurrent(f) ==
    /\ flights' = flights \ {f}
    /\ IF Current(f) THEN /\ refreshing' = (refreshing /\ f.kind # "refresh")
                          /\ interacting' = (interacting /\ f.kind = "refresh")
       ELSE UNCHANGED <<refreshing, interacting>>
Concluded(f) ==
    /\ flights' = flights \ {f}
    /\ refreshing' = (refreshing /\ f.kind # "refresh")
    /\ interacting' = (interacting /\ (f.kind = "refresh" \/ ~Current(f)))

(* applyDocument: another page replaces the body, the same page is patched *)
(* and every control set to what the answer says.                          *)
Refocused(f) == IF focus = "dialog" THEN {"dialog"}
                ELSE {"nowhere"} \cup {place \in {focus} : f.to = view}
ShowPage(f) ==
    /\ view' = f.to /\ shown' = f.seen
    /\ text' = text \ {"form"} /\ dirty' = dirty \ {"form"}
    /\ focus' \in Refocused(f)

(* With preserveFocus the form loses its mark before its controls are      *)
(* looked at, so only the control that has the focus is spared.            *)
PatchPage(f) ==
    \/ ShowPage(f)
    \/ /\ f.to = view /\ focus = "form"
       /\ shown' = f.seen /\ dirty' = dirty \ {"form"}
       /\ UNCHANGED <<view, text, focus>>

(* updateAppDialog and showModal *)
FillDialog ==
    /\ text' = text \ {"dialog"}
    /\ dirty' \in {d \ {"dialog"} : d \in Remarked}
    /\ UNCHANGED <<view, shown>>
KeepPage == UNCHANGED <<view, shown, forms>>

(* subtleRefresh leaves the body alone while a form is being edited. *)
NotEditing == FALSE
Editing == dirty # {} \/ focus # "nowhere"

Continue(f) ==
    /\ f \in flights /\ f.arrived /\ Concluded(f)
    /\ IF ~Current(f) THEN KeepPage /\ UNCHANGED dialogOpen
       ELSE CASE f.kind \in {"navigate", "submit"} -> ShowPage(f) /\ UNCHANGED dialogOpen
              [] f.kind = "search" -> PatchPage(f) /\ UNCHANGED dialogOpen
              [] f.kind = "dialog" ->
                    FillDialog /\ dialogOpen' = TRUE /\ focus' \in {"dialog", "nowhere"}
              [] f.kind = "dialogForm" ->
                    \/ /\ view' = f.to /\ shown' = f.seen /\ dialogOpen' = FALSE
                       /\ text' = {} /\ dirty' = {}
                       /\ focus' \in IF f.to = view THEN OnPage ELSE {"nowhere"}
                    \/ FillDialog /\ UNCHANGED dialogOpen     \* the editor's next page
                       /\ focus' \in IF dialogOpen THEN {"dialog", "nowhere"} ELSE {focus}
              [] f.kind = "refresh" ->
                    (IF Editing THEN KeepPage ELSE PatchPage(f)) /\ UNCHANGED dialogOpen
    /\ UNCHANGED <<version, epoch, ticking, edits, netFaults>>

FetchFails(f) ==
    /\ f \in flights /\ ~f.arrived /\ netFaults < MaxNetFaults /\ netFaults' = netFaults + 1
    /\ Concluded(f)
    /\ KeepPage /\ UNCHANGED <<version, epoch, ticking, dialogOpen, edits>>

Saves == \E f \in flights : FormSaved(f)
Answers == \E f \in flights : Answered(f)
Continues == \E f \in flights : Continue(f)
PageNext ==
    \/ DaemonMovesOn \/ StartRefresh
    \/ (\E p \in Place : Type(p)) \/ MoveFocus \/ CloseDialog \/ ShowScheduleEditor
    \/ Navigate \/ Search \/ OpenDialog \/ Submit
    \/ Saves \/ Answers \/ Continues \/ \E f \in flights : FetchFails(f)

(* The timer of a visible page ticks, and the daemon answers. *)
PageFairness ==
    WF_pageVars(StartRefresh) /\ WF_pageVars(Saves) /\ WF_pageVars(Answers) /\ WF_pageVars(Continues)
PageSpec == PageInit /\ [][PageNext]_pageVars /\ PageFairness

-----------------------------------------------------------------------------
(* A page once shown is never replaced by an older state of the same page, *)
(* whatever order the answers come in.                                     *)
ViewNeverGoesBack == [][view' = view => shown' >= shown]_pageVars

(***************************************************************************)
(* Text that has not been sent, in a form that is marked or has the focus, *)
(* goes only with the answer to the user's own last link, search or form,  *)
(* with the dialog the user closes, or when the user opens the schedule    *)
(* editor anew: never by a background refresh or an answer that has been   *)
(* overtaken; nor does a mark go otherwise (web/server.rs:5624).  Text     *)
(* whose mark a search has stripped is safe only as long as it has the     *)
(* focus.                                                                  *)
(***************************************************************************)
Guarded(p) == p \in text /\ (p \in dirty \/ focus = p)
OwnAnswer == interacting /\ ~interacting'
OwnChoice(p) == \/ p = "dialog" /\ dialogOpen /\ ~dialogOpen'
                \/ p = "form" /\ ShowScheduleEditor
UnsavedTextStays ==
    [][\A p \in Place : Guarded(p) =>
          \/ p \in text' /\ (p \in dirty => p \in dirty')
          \/ OwnAnswer \/ OwnChoice(p)]_pageVars

(* A page that refreshes itself ends up showing what the daemon has, once  *)
(* nobody has a form marked or a control in focus any more.                *)
PageCatchesUp == ticking /\ <>[](dirty = {} /\ focus = "nowhere") => <>[](shown = version)
=============================================================================
