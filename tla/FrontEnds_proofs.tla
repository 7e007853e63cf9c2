-------------------------- MODULE FrontEnds_proofs --------------------------
(***************************************************************************)
(* Proofs about two programs in front of the daemon: the command line's    *)
(* "events" (module CliClient), for any downloads and moves, and the       *)
(* script of the web pages (WebPage), for any number of versions,          *)
(* interactions, edits and failed fetches.                                 *)
(***************************************************************************)
EXTENDS CliClient, WebPage, TLAPS

-----------------------------------------------------------------------------
(* "events"                                                                *)

(***************************************************************************)
(* The current lists hold unfinished downloads and the history finished    *)
(* ones.  A download shown as finished is: in aria2, in every answer since *)
(* and in every later snapshot, and in no later list of current downloads. *)
(***************************************************************************)
ListsFit ==
    \A lists \in {seen, published, previous} : \A d \in Watched :
        lists.current[d] \in Running \cup Queued \cup {Absent} /\ lists.past[d] \in Over \cup {Absent}
OverIsOver ==
    /\ seen.past = NoLists.past
    /\ \A d \in Watched : published.past[d] # Absent =>
           inAria[d] = published.past[d] /\ seen.current[d] = Absent
    /\ \A d \in Watched : previous.past[d] # Absent =>
           /\ published.past[d] = previous.past[d]
           /\ previous.current[d] = Absent => published.current[d] = Absent

CliInv == CliTypeOK /\ ListsFit /\ OverIsOver /\ EventsReplay

USE DEF Running, Queued, Over, Absent

(* A client that has read nothing satisfies it. *)
LEMMA CliStart == CliInit => CliInv
  BY CliAssumption DEF CliInit, CliInv, CliTypeOK, ListsFit, OverIsOver, EventsReplay, NoLists, Lists,
     States, Entries

(* What aria2 has moved on from is not over. *)
LEMMA MovesStep == ASSUME CliInv, Moves PROVE CliInv'
PROOF
<1> USE DEF CliInv, CliTypeOK, Moves
<1>1. PICK d \in Watched : \E status \in NextStates(inAria[d]) :
          inAria' = [inAria EXCEPT ![d] = status] /\ moves < MaxMoves /\ moves' = moves + 1
  OBVIOUS
<1>0. PICK status \in NextStates(inAria[d]) :
          inAria' = [inAria EXCEPT ![d] = status] /\ moves < MaxMoves /\ moves' = moves + 1
  BY <1>1
<1>2. inAria[d] \notin Over /\ status \in States
  BY <1>0 DEF NextStates, States
<1>3. CliTypeOK'
  BY <1>0, <1>2, CliAssumption
<1>4. ListsFit' /\ EventsReplay'
  BY DEF ListsFit, EventsReplay, Entries, LastEntry
<1>5. OverIsOver'
  BY <1>0, <1>2 DEF OverIsOver, ListsFit
<1>6. QED
  BY <1>3, <1>4, <1>5

(* A read of one of the three lists keeps it. *)
LEMMA ReadsStep == ASSUME CliInv, ReadActive \/ ReadWaiting \/ ReadStopped PROVE CliInv'
PROOF
<1> USE DEF CliInv, CliTypeOK, Lists, States, Filled, ThoseIn
<1>1. CASE ReadActive
  <2>1. seen' = [current |-> [d \in Watched |-> IF inAria[d] \in Running THEN inAria[d] ELSE Absent],
                 past |-> [d \in Watched |-> Absent]]
    BY <1>1 DEF ReadActive, NoLists
  <2>2. UNCHANGED <<inAria, published, previous, told, watch, answer, moves>> /\ reading' = "waiting"
    BY <1>1 DEF ReadActive
  <2>3. CliTypeOK'
    BY <2>1, <2>2
  <2>4. ListsFit' /\ EventsReplay'
    BY <2>1, <2>2 DEF ListsFit, EventsReplay, Entries, LastEntry
  <2>5. OverIsOver'
    BY <2>1, <2>2 DEF NoLists, OverIsOver, ListsFit
  <2>6. QED
    BY <2>3, <2>4, <2>5
<1>2. CASE ReadWaiting
  <2>1. seen' = [current |-> [d \in Watched |-> IF inAria[d] \in Queued THEN inAria[d] ELSE seen.current[d]],
                 past |-> seen.past]
    BY <1>2 DEF ReadWaiting
  <2>2. CliTypeOK' /\ ListsFit' /\ EventsReplay'
    BY <1>2, <2>1 DEF ReadWaiting, ListsFit, EventsReplay, Entries, LastEntry
  <2>3. OverIsOver'
    BY <1>2, <2>1 DEF ReadWaiting, OverIsOver, ListsFit
  <2>4. QED
    BY <2>2, <2>3
<1>3. CASE ReadStopped
  <2>1. published' = [current |-> seen.current,
                      past |-> [d \in Watched |-> IF inAria[d] \in Over THEN inAria[d] ELSE seen.past[d]]]
    BY <1>3 DEF ReadStopped
  <2>2. seen' = NoLists /\ UNCHANGED <<inAria, previous, told, watch>>
    BY <1>3 DEF ReadStopped
  <2>3. /\ {published', seen'} \subseteq Lists
        /\ UNCHANGED <<answer, moves>> /\ reading' = "active"
    BY <1>3, <2>1, <2>2 DEF ReadStopped, NoLists
  <2>4. CliTypeOK'
    BY <2>2, <2>3
  <2>5. ListsFit'
    BY <2>1, <2>2 DEF NoLists, ListsFit
  <2>6. EventsReplay'
    BY <2>2 DEF EventsReplay, Entries, LastEntry
  <2>7. OverIsOver'
    BY <2>1, <2>2 DEF NoLists, OverIsOver, ListsFit
  <2>8. QED
    BY <2>4, <2>5, <2>6, <2>7
<1>4. QED
  BY <1>1, <1>2, <1>3

(***************************************************************************)
(* A poll compares a snapshot with one before it: the last entry of a      *)
(* download is either told now or was the only one before.                 *)
(***************************************************************************)
LEMMA PollStep == ASSUME CliInv, PollEvents PROVE CliInv'
PROOF
<1> USE DEF CliInv
<1>1. /\ UNCHANGED <<inAria, seen, reading, published, watch, answer, moves>> /\ watch = "running"
      /\ previous' = published /\ told' = [d \in Watched |-> LastToldOf(published, d)]
  BY DEF PollEvents, Compared
<1>2. ASSUME NEW d \in Watched
      PROVE  LastToldOf(published, d) \in States
  BY DEF CliTypeOK, Lists, LastToldOf, LastEntry, FirstEntry
<1>3. CliTypeOK' /\ ListsFit' /\ OverIsOver'
  BY <1>1, <1>2 DEF CliTypeOK, ListsFit, OverIsOver
<1>4. ASSUME NEW d \in Watched, Entries(published, d) # {}
      PROVE  LastToldOf(published, d) = LastEntry(published, d)
  <2> DEFINE last == LastEntry(published, d)
  <2>1. last # Absent /\ last \in Entries(published, d)
    BY <1>4 DEF Entries, LastEntry
  <2>2. CASE last # FirstEntry(previous, d)
    BY <2>1, <2>2 DEF LastToldOf, Reported
  <2>3. CASE last = FirstEntry(previous, d)
    <3>1. Entries(previous, d) # {} /\ told[d] = LastEntry(previous, d)
      BY <1>1, <2>1, <2>3 DEF Entries, FirstEntry, EventsReplay
    <3>2. Entries(published, d) = {last} /\ last = LastEntry(previous, d)
      BY <2>1, <2>3 DEF Entries, LastEntry, FirstEntry, ListsFit, OverIsOver
    <3>3. Reported(published, d) = {}
      BY <2>3, <3>2 DEF Reported
    <3>4. QED
      BY <3>1, <3>2, <3>3 DEF LastToldOf
  <2>4. QED
    BY <2>2, <2>3
<1>5. EventsReplay'
  BY <1>1, <1>4 DEF EventsReplay, Entries, LastEntry
<1>6. QED
  BY <1>3, <1>5

(* Every step of the client keeps it. *)
LEMMA CliStep == CliInv /\ [CliNext]_cliVars => CliInv'
PROOF
<1> SUFFICES ASSUME CliInv, [CliNext]_cliVars PROVE CliInv'
  OBVIOUS
<1>1. CASE StartEvents
  <2> USE DEF CliInv
  <2>1. CliTypeOK' /\ ListsFit' /\ OverIsOver'
    BY <1>1 DEF StartEvents, CliTypeOK, Lists, ListsFit, OverIsOver, LastEntry
  <2>2. EventsReplay'
    BY <1>1 DEF StartEvents, EventsReplay, Entries, LastEntry
  <2>3. QED
    BY <2>1, <2>2
<1>2. CASE EndEvents \/ PollWait
  BY <1>2 DEF EndEvents, PollWait, CliInv, CliTypeOK, ListsFit, OverIsOver, EventsReplay, Entries, LastEntry
<1>3. CASE UNCHANGED cliVars
  BY <1>3 DEF cliVars, CliInv, CliTypeOK, ListsFit, OverIsOver, EventsReplay, Entries, LastEntry
<1>4. QED
  BY <1>1, <1>2, <1>3, MovesStep, ReadsStep, PollStep DEF CliNext

(***************************************************************************)
(* Every snapshot, and what "events" remembers of them, keeps a download   *)
(* that is over where it was shown as such.                                *)
(***************************************************************************)
THEOREM CliInvariant == CliSpec => []CliInv
  BY CliStart, CliStep, PTL DEF CliSpec

(***************************************************************************)
(* The events told, applied in order to the first snapshot, give the state *)
(* of every download in the last one, for any downloads and moves, also    *)
(* when a snapshot had a download in both lists or in none.                *)
(***************************************************************************)
THEOREM EventsAreComplete == CliSpec => []EventsReplay
<1>1. CliInv => EventsReplay
  BY DEF CliInv
<1>2. QED
  BY <1>1, CliInvariant, PTL

-----------------------------------------------------------------------------
(* The script of the web pages                                             *)

(***************************************************************************)
(* Of the fetches under way at most one belongs to the present epoch, and  *)
(* at most one is a refresh, an old one included; the two flags say so.    *)
(* An answer is no newer than what the daemon has, and one of the present  *)
(* epoch is as new as what is shown: nothing else may have been shown      *)
(* since it arrived.                                                       *)
(***************************************************************************)
NoneAhead == \A f \in flights : f.epoch <= epoch
CurrentIsAlone == \A f, g \in flights : f.epoch = epoch /\ g.epoch = epoch => f = g
RefreshIsAlone == \A f, g \in flights : f.kind = "refresh" /\ g.kind = "refresh" => f = g
FlagsAreTrue ==
    /\ refreshing <=> \E f \in flights : f.kind = "refresh"
    /\ interacting <=> \E f \in flights : f.kind # "refresh" /\ f.epoch = epoch
AnswersAreNew == \A f \in flights : f.epoch = epoch /\ f.arrived => f.seen >= shown
AnswersAreReal == \A f \in flights : f.seen <= version

FlightsInv ==
    NoneAhead /\ CurrentIsAlone /\ RefreshIsAlone /\ FlagsAreTrue /\ AnswersAreNew /\ AnswersAreReal
PageInv == PageTypeOK /\ FlightsInv

(* The page as it is first served satisfies it. *)
LEMMA PageStart == PageInit => PageInv
PROOF
<1> SUFFICES ASSUME PageInit PROVE PageInv
  OBVIOUS
<1>1. PageTypeOK
  <2>1. {MaxVersion, MaxInteractions, MaxEdits, MaxNetFaults} \subseteq Nat
    BY PageAssumption
  <2>2. {interacting, refreshing, ticking, dialogOpen} \subseteq BOOLEAN
    BY DEF PageInit
  <2>3. QED
    BY <2>1, <2>2 DEF PageInit, PageTypeOK, Focus
<1>2. FlightsInv
  BY DEF PageInit, FlightsInv, NoneAhead, CurrentIsAlone, RefreshIsAlone, FlagsAreTrue, AnswersAreNew,
     AnswersAreReal
<1>3. QED
  BY <1>1, <1>2 DEF PageInv

(* A fetch keeps its kind and epoch; what it has not got changes nothing.  *)
LEMMA FetchGoesOn ==
  ASSUME PageInv, NEW f \in flights, NEW g \in Flight,
         g.kind = f.kind, g.epoch = f.epoch, g.arrived => g.seen >= shown,
         g.seen <= version', version \in Nat, version' \in Nat, version <= version',
         flights' = (flights \ {f}) \cup {g},
         UNCHANGED <<shown, epoch, interacting, refreshing>>
  PROVE  FlightsInv' /\ flights' \subseteq Flight
PROOF
<1> USE DEF PageInv, FlightsInv
<1>1. flights' \subseteq Flight
  BY DEF PageTypeOK
<1>2. NoneAhead' /\ AnswersAreNew'
  BY DEF NoneAhead, AnswersAreNew
<1>6. AnswersAreReal'
  <2>1. \A h \in flights : h.seen \in Nat /\ h.seen <= version
    BY PageAssumption DEF AnswersAreReal, PageTypeOK, Flight
  <2>2. QED
    BY <2>1 DEF AnswersAreReal
<1>3. CurrentIsAlone' /\ RefreshIsAlone'
  BY DEF CurrentIsAlone, RefreshIsAlone
<1>4. FlagsAreTrue'
  <2>1. \A h : (\E e \in flights' : e.kind = h) <=> (\E e \in flights : e.kind = h)
    OBVIOUS
  <2>2. (\E e \in flights' : e.kind # "refresh" /\ e.epoch = epoch)
        <=> (\E e \in flights : e.kind # "refresh" /\ e.epoch = epoch)
    OBVIOUS
  <2>3. QED
    BY <2>1, <2>2 DEF FlagsAreTrue
<1>5. QED
  BY <1>1, <1>2, <1>3, <1>4, <1>6

(* Every step that starts a request keeps it. *)
LEMMA LaunchStep ==
  ASSUME PageInv, Navigate \/ Search \/ OpenDialog \/ Submit \/ StartRefresh
  PROVE  PageInv'
PROOF
<1> USE PageAssumption DEF PageInv, PageTypeOK
<1>1. ASSUME NEW kind \in {"navigate", "search", "dialog"} \cup Form, NEW to \in View, Interact(kind, to)
      PROVE  PageInv'
  <2> DEFINE f == Launched(kind, to, epoch + 1)
  <2>1. /\ f \in Flight /\ f.kind = kind /\ f.epoch = epoch + 1 /\ ~f.arrived /\ f.seen = 0
        /\ epoch' = epoch + 1 /\ epoch' \in 0 .. MaxInteractions
        /\ flights' = {g \in flights : g.arrived} \cup {f}
        /\ interacting' = TRUE /\ refreshing' = (\E g \in flights : g.kind = "refresh" /\ g.arrived)
        /\ UNCHANGED <<version, view, shown, text, dirty, focus, ticking, dialogOpen, edits, netFaults>>
    BY <1>1 DEF Interact, Launched, Flight, forms
  <2> HIDE DEF f
  <2>2. PageTypeOK'
    BY <2>1
  <2>3. \A g \in flights : g.epoch < epoch'
    BY <2>1 DEF FlightsInv, NoneAhead, Flight
  <2>4. NoneAhead' /\ CurrentIsAlone' /\ AnswersAreNew'
    BY <2>1, <2>3 DEF NoneAhead, CurrentIsAlone, AnswersAreNew, Flight
  <2>7. AnswersAreReal'
    BY <2>1 DEF FlightsInv, AnswersAreReal
  <2>5. RefreshIsAlone' /\ FlagsAreTrue'
    BY <1>1, <2>1, <2>3 DEF FlightsInv, RefreshIsAlone, FlagsAreTrue, Form
  <2>6. QED
    BY <2>2, <2>4, <2>5, <2>7 DEF FlightsInv
<1>2. CASE StartRefresh
  <2> DEFINE f == Launched("refresh", view, epoch)
  <2>1. /\ f \in Flight /\ f.kind = "refresh" /\ f.epoch = epoch /\ ~f.arrived /\ f.seen = 0
        /\ ~refreshing /\ ~interacting /\ refreshing' = TRUE
        /\ flights' = flights \cup {f}
        /\ UNCHANGED <<version, view, shown, text, dirty, focus, epoch, interacting, ticking, dialogOpen,
                       edits, netFaults>>
    BY <1>2 DEF StartRefresh, Launched, Flight, forms
  <2> HIDE DEF f
  <2>2. PageTypeOK'
    BY <2>1
  <2>3. \A g \in flights : g.kind # "refresh" /\ g.epoch # epoch
    BY <2>1 DEF FlightsInv, FlagsAreTrue
  <2>4. QED
    BY <2>1, <2>2, <2>3
       DEF FlightsInv, NoneAhead, CurrentIsAlone, RefreshIsAlone, FlagsAreTrue, AnswersAreNew,
           AnswersAreReal, Flight
<1>3. view \in View /\ "list" \in View
  BY DEF View
<1>4. CASE Navigate \/ Search \/ OpenDialog
  BY <1>1, <1>3, <1>4 DEF Navigate, Search, OpenDialog
<1>5. CASE Submit
  BY <1>1, <1>5 DEF Submit, Form
<1>6. QED
  BY <1>2, <1>4, <1>5

(* A fetch whose form is saved, and one that has its answer.               *)
LEMMA WhenSaved ==
  ASSUME NEW f \in Flight
  PROVE  LET g == [f EXCEPT !.saved = TRUE]
         IN  g \in Flight /\ g.kind = f.kind /\ g.epoch = f.epoch /\ g.seen = f.seen
             /\ (g.arrived <=> f.arrived)
  BY DEF Flight

(* An answer changes only what its request has seen. *)
LEMMA WithAnswer ==
  ASSUME NEW f \in Flight, NEW v \in 0 .. MaxVersion
  PROVE  LET g == [f EXCEPT !.seen = v, !.arrived = TRUE]
         IN  g \in Flight /\ g.kind = f.kind /\ g.epoch = f.epoch /\ g.seen = v
  BY DEF Flight

(* An answer that arrives keeps it. *)
LEMMA AnswerStep ==
  ASSUME PageInv, NEW f \in flights, FormSaved(f) \/ Answered(f)
  PROVE  PageInv'
PROOF
<1> USE PageAssumption DEF PageInv, PageTypeOK
<1>1. CASE FormSaved(f)
  <2> DEFINE g == [f EXCEPT !.saved = TRUE]
  <2>0. version \in Nat /\ version' \in 0 .. MaxVersion /\ version' \in Nat /\ version <= version'
    BY <1>1 DEF FormSaved
  <2>1. g \in Flight /\ g.kind = f.kind /\ g.epoch = f.epoch /\ ~g.arrived /\ g.seen <= version'
    <3>1. f \in Flight /\ ~f.arrived /\ f.seen <= version
      BY <1>1 DEF FormSaved, FlightsInv, AnswersAreReal
    <3>2. f.seen \in Nat
      BY <3>1 DEF Flight
    <3>3. g \in Flight /\ g.kind = f.kind /\ g.epoch = f.epoch /\ ~g.arrived /\ g.seen = f.seen
      BY <3>1, WhenSaved
    <3>4. QED
      BY <2>0, <3>1, <3>2, <3>3
  <2> HIDE DEF g
  <2>2. FlightsInv' /\ flights' \subseteq Flight
    BY <1>1, <2>0, <2>1, FetchGoesOn DEF FormSaved, g
  <2>3. PageTypeOK'
    BY <1>1, <2>2 DEF FormSaved, forms
  <2>4. QED
    BY <2>2, <2>3
<1>2. CASE Answered(f)
  <2> DEFINE g == [f EXCEPT !.seen = version, !.arrived = TRUE]
  <2>0. f \in Flight /\ version \in 0 .. MaxVersion /\ version \in Nat /\ shown \in 0 .. version
    OBVIOUS
  <2>1. version' = version /\ version >= shown /\ version <= version
    BY <1>2, <2>0 DEF Answered
  <2>2. g \in Flight /\ g.kind = f.kind /\ g.epoch = f.epoch /\ g.seen = version
    BY <2>0, WithAnswer
  <2> HIDE DEF g
  <2>3. FlightsInv' /\ flights' \subseteq Flight
    <3>1. /\ flights' = (flights \ {f}) \cup {g}
          /\ UNCHANGED <<shown, epoch, interacting, refreshing>>
      BY <1>2 DEF Answered, g
    <3>2. QED
      BY <2>0, <2>1, <2>2, <3>1, FetchGoesOn
  <2>4. PageTypeOK'
    BY <1>2, <2>3 DEF Answered, forms
  <2>5. QED
    BY <2>3, <2>4
<1>3. QED
  BY <1>1, <1>2

(* A fetch that ends takes its flag with it, if the flag is its own.       *)
LEMMA EndStep ==
  ASSUME PageInv, NEW f \in flights, Concluded(f), UNCHANGED <<epoch, version>>,
         shown' = shown \/ Current(f)
  PROVE  FlightsInv'
PROOF
<1> USE DEF PageInv, FlightsInv, Concluded, Current
<1>1. flights' = flights \ {f}
  OBVIOUS
<1>2. NoneAhead' /\ CurrentIsAlone' /\ RefreshIsAlone'
  BY <1>1 DEF NoneAhead, CurrentIsAlone, RefreshIsAlone
<1>3. AnswersAreNew' /\ AnswersAreReal'
  BY <1>1 DEF AnswersAreNew, AnswersAreReal, CurrentIsAlone
<1>4. FlagsAreTrue'
  <2>1. refreshing' <=> \E g \in flights' : g.kind = "refresh"
    BY <1>1 DEF FlagsAreTrue, RefreshIsAlone
  <2>2. interacting' <=> \E g \in flights' : g.kind # "refresh" /\ g.epoch = epoch'
    BY <1>1 DEF FlagsAreTrue, CurrentIsAlone
  <2>3. QED
    BY <2>1, <2>2 DEF FlagsAreTrue
<1>5. QED
  BY <1>2, <1>3, <1>4

(* Only the answer of the present epoch is shown, and a refresh only while *)
(* nothing is marked or has the focus.                                     *)
LEMMA ContinueShows ==
  ASSUME PageInv, NEW f \in flights, Continue(f)
  PROVE  /\ f.arrived /\ Concluded(f) /\ UNCHANGED <<version, epoch, ticking, edits, netFaults>>
         /\ dialogOpen' \in BOOLEAN /\ text' \subseteq Place /\ dirty' \subseteq Place /\ focus' \in Focus
         /\ \/ KeepPage
            \/ /\ Current(f)
               /\ (view' = f.to /\ shown' = f.seen) \/ UNCHANGED <<view, shown>>
               /\ f.kind = "refresh" => dirty = {} /\ focus = "nowhere"
PROOF
<1>1. f.arrived /\ Concluded(f) /\ UNCHANGED <<version, epoch, ticking, edits, netFaults>>
  BY DEF Continue
<1>2. /\ f.kind \in {"navigate", "search", "dialog", "submit", "dialogForm", "refresh"}
      /\ dialogOpen \in BOOLEAN /\ text \subseteq Place /\ dirty \subseteq Place /\ focus \in Focus
  BY DEF PageInv, PageTypeOK, Flight, Form
<1> DEFINE Typed == text' \subseteq Place /\ dirty' \subseteq Place /\ focus' \in Focus
<1>3. KeepPage => Typed
  BY <1>2 DEF KeepPage, forms
<1>4. PatchPage(f) => Typed /\ (view' = f.to /\ shown' = f.seen)
  BY <1>2 DEF PatchPage, ShowPage, Refocused, Focus
<1>5. FillDialog => text' \subseteq Place /\ dirty' \subseteq Place /\ UNCHANGED <<view, shown>>
  BY <1>2 DEF FillDialog, Remarked
<1>6. CASE ~Current(f)
  BY <1>1, <1>2, <1>3, <1>6 DEF Continue
<1>7. CASE Current(f) /\ f.kind \in {"navigate", "search", "submit"}
  BY <1>1, <1>2, <1>4, <1>7 DEF Continue, PatchPage
<1>8. CASE Current(f) /\ f.kind = "dialog"
  BY <1>1, <1>2, <1>5, <1>8 DEF Continue, Focus, Place
<1>9. CASE Current(f) /\ f.kind = "dialogForm"
  <2>1. \/ /\ view' = f.to /\ shown' = f.seen /\ dialogOpen' = FALSE
           /\ text' = {} /\ dirty' = {} /\ focus' \in OnPage \cup {"nowhere"}
        \/ /\ FillDialog /\ UNCHANGED dialogOpen
           /\ focus' \in {"dialog", "nowhere", focus}
    BY <1>9 DEF Continue
  <2>2. QED
    BY <1>1, <1>2, <1>5, <1>9, <2>1 DEF OnPage, Focus, Place
<1>10. CASE Current(f) /\ f.kind = "refresh"
  BY <1>1, <1>2, <1>3, <1>4, <1>10 DEF Continue, Editing
<1>11. QED
  BY <1>2, <1>6, <1>7, <1>8, <1>9, <1>10

(* Every step of the page keeps it. *)
LEMMA PageStep == PageInv /\ [PageNext]_pageVars => PageInv'
PROOF
<1> SUFFICES ASSUME PageInv, [PageNext]_pageVars PROVE PageInv'
  OBVIOUS
<1> DEFINE ByHand == (\E p \in Place : Type(p)) \/ MoveFocus \/ CloseDialog \/ ShowScheduleEditor
<1>1. CASE DaemonMovesOn \/ ByHand \/ UNCHANGED pageVars
  <2> USE DEF DaemonMovesOn, Type, MoveFocus, CloseDialog, ShowScheduleEditor, pageVars, forms
  <2>1. UNCHANGED <<view, shown, epoch, flights, interacting, refreshing, ticking, netFaults>>
    BY <1>1
  <2>2. /\ version \in Nat /\ version' \in 0 .. MaxVersion /\ version <= version' /\ shown \in 0 .. version
        /\ edits' \in 0 .. MaxEdits
    BY <1>1, PageAssumption DEF PageInv, PageTypeOK
  <2>3. AnswersAreReal'
    <3>1. \A f \in flights : f.seen \in Nat /\ f.seen <= version
      BY PageAssumption DEF PageInv, FlightsInv, AnswersAreReal, PageTypeOK, Flight
    <3>2. QED
      BY <2>1, <2>2, <3>1 DEF AnswersAreReal
  <2>4. FlightsInv'
    BY <2>1, <2>3
       DEF PageInv, FlightsInv, NoneAhead, CurrentIsAlone, RefreshIsAlone, FlagsAreTrue, AnswersAreNew
  <2>5. /\ {interacting', refreshing', ticking', dialogOpen'} \subseteq BOOLEAN
        /\ text' \subseteq Place /\ dirty' \subseteq Place /\ focus' \in Focus
    BY <1>1 DEF Reach, OnPage, Remarked, Focus, Place, PageInv, PageTypeOK
  <2>6. PageTypeOK'
    BY <2>1, <2>2, <2>5 DEF PageInv, PageTypeOK
  <2>7. QED
    BY <2>4, <2>6 DEF PageInv
<1>2. ASSUME NEW f \in flights, Continue(f) PROVE PageInv'
  <2>1. FlightsInv'
    BY <1>2, ContinueShows, EndStep DEF KeepPage
  <2>2. f \in Flight /\ f.epoch \in 0 .. MaxInteractions
    BY DEF PageInv, PageTypeOK, Flight
  <2>3. view' \in View /\ shown' \in 0 .. version'
    <3>1. f.to \in View /\ f.seen \in 0 .. version
      BY <2>2, PageAssumption DEF Flight, PageInv, FlightsInv, AnswersAreReal, PageTypeOK
    <3>2. QED
      BY <1>2, <3>1, ContinueShows DEF KeepPage, PageInv, PageTypeOK
  <2>4. {refreshing', interacting'} \subseteq BOOLEAN /\ flights' \subseteq Flight
    BY <1>2, ContinueShows DEF Concluded, PageInv, PageTypeOK
  <2>5. PageTypeOK'
    BY <1>2, <2>3, <2>4, ContinueShows DEF PageInv, PageTypeOK
  <2>6. QED
    BY <2>1, <2>5 DEF PageInv
<1>3. ASSUME NEW f \in flights, FetchFails(f) PROVE PageInv'
  <2>1. FlightsInv'
    BY <1>3, EndStep DEF FetchFails, KeepPage
  <2>2. PageTypeOK'
    BY <1>3, PageAssumption DEF FetchFails, KeepPage, forms, Concluded, PageInv, PageTypeOK
  <2>3. QED
    BY <2>1, <2>2 DEF PageInv
<1>4. QED
  BY <1>1, <1>2, <1>3, LaunchStep, AnswerStep DEF PageNext, Saves, Answers, Continues

(***************************************************************************)
(* The epochs and the flags do what they are for, however many fetches are *)
(* aborted, fail or are answered late.                                     *)
(***************************************************************************)
THEOREM PageInvariant == PageSpec => []PageInv
  BY PageStart, PageStep, PTL DEF PageSpec

(***************************************************************************)
(* A page is never replaced by an older state of itself, in whatever order *)
(* the answers of overlapping fetches come in.                             *)
(***************************************************************************)
THEOREM PagesNeverGoBack == PageSpec => ViewNeverGoesBack
<1>1. PageInv /\ [PageNext]_pageVars => [view' = view => shown' >= shown]_pageVars
  <2> SUFFICES ASSUME PageInv, PageNext PROVE shown' >= shown \/ UNCHANGED shown
    BY DEF PageInv, PageTypeOK
  <2>1. ASSUME NEW f \in flights, Continue(f) PROVE shown' >= shown \/ UNCHANGED shown
    BY <2>1, ContinueShows DEF KeepPage, Current, PageInv, FlightsInv, AnswersAreNew
  <2>2. ASSUME NEW f \in flights, FormSaved(f) \/ Answered(f) \/ FetchFails(f) PROVE UNCHANGED shown
    BY <2>2 DEF FormSaved, Answered, FetchFails, KeepPage
  <2>3. CASE \/ DaemonMovesOn \/ (\E p \in Place : Type(p)) \/ MoveFocus \/ CloseDialog
             \/ ShowScheduleEditor \/ Navigate \/ Search \/ OpenDialog \/ Submit \/ StartRefresh
    BY <2>3 DEF DaemonMovesOn, Type, MoveFocus, CloseDialog, ShowScheduleEditor, Navigate, Search,
       OpenDialog, Submit, StartRefresh, Interact
  <2>4. QED
    BY <2>1, <2>2, <2>3 DEF PageNext, Saves, Answers, Continues
<1>2. QED
  BY <1>1, PageInvariant, PTL DEF PageSpec, ViewNeverGoesBack

(***************************************************************************)
(* Text not sent, in a form that is marked or has the focus, goes only     *)
(* with the answer to the user's own last interaction, with the dialog the *)
(* user closes, or as the user opens the schedule editor anew: never with  *)
(* a background refresh or the answer to an interaction that was           *)
(* overtaken.                                                              *)
(***************************************************************************)
THEOREM TextIsKept == PageSpec => UnsavedTextStays
<1> DEFINE Stays(p) == p \in text' /\ (p \in dirty => p \in dirty')
<1>1. PageInv /\ PageNext =>
          \A p \in Place : Guarded(p) => Stays(p) \/ OwnAnswer \/ OwnChoice(p)
  <2> SUFFICES ASSUME PageInv, PageNext, NEW p \in Place, Guarded(p)
               PROVE  Stays(p) \/ OwnAnswer \/ OwnChoice(p)
    OBVIOUS
  <2>1. ASSUME NEW f \in flights, Continue(f) PROVE Stays(p) \/ OwnAnswer
    <3>1. CASE KeepPage
      BY <3>1 DEF KeepPage, forms, Guarded
    <3>2. CASE Current(f) /\ f.kind = "refresh" /\ dirty = {} /\ focus = "nowhere"
      BY <3>2 DEF Guarded, Place
    <3>3. CASE Current(f) /\ f.kind # "refresh"
      <4>1. interacting
        BY <3>3 DEF PageInv, FlightsInv, FlagsAreTrue, Current
      <4>2. ~interacting'
        BY <2>1, <3>3 DEF Continue, Concluded
      <4>3. QED
        BY <4>1, <4>2 DEF OwnAnswer
    <3>4. QED
      BY <2>1, <3>1, <3>2, <3>3, ContinueShows
  <2>2. ASSUME NEW f \in flights, FormSaved(f) \/ Answered(f) \/ FetchFails(f) PROVE Stays(p)
    BY <2>2 DEF FormSaved, Answered, FetchFails, KeepPage, forms, Guarded
  <2>3. CASE DaemonMovesOn \/ Navigate \/ Search \/ OpenDialog \/ Submit \/ StartRefresh
    BY <2>3 DEF DaemonMovesOn, Navigate, Search, OpenDialog, Submit, StartRefresh, Interact, forms, Guarded
  <2>4. ASSUME (\E q \in Place : Type(q)) \/ MoveFocus PROVE Stays(p)
    BY <2>4 DEF Type, MoveFocus, Remarked, Guarded
  <2>5. CASE CloseDialog
    BY <2>5 DEF CloseDialog, OwnChoice, Guarded
  <2>6. CASE ShowScheduleEditor
    BY <2>6 DEF ShowScheduleEditor, OwnChoice, Guarded, Place
  <2>7. QED
    BY <2>1, <2>2, <2>3, <2>4, <2>5, <2>6 DEF PageNext, Saves, Answers, Continues
<1>2. PageInv /\ [PageNext]_pageVars =>
          [\A p \in Place : Guarded(p) =>
              \/ p \in text' /\ (p \in dirty => p \in dirty')
              \/ OwnAnswer \/ OwnChoice(p)]_pageVars
  BY <1>1
<1>3. QED
  BY <1>2, PageInvariant, PTL DEF PageSpec, UnsavedTextStays
=============================================================================
