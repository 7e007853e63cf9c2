----------------------------- MODULE CliClient -----------------------------
(***************************************************************************)
(* Two long-running commands of the command line (src/control.rs):         *)
(* "events" turns the differences between two polled snapshots into        *)
(* events, and "download wait" polls until one download is in a wanted     *)
(* state.  Both see the daemon's snapshot, which a refresh puts together   *)
(* from several answers of aria2: a download that moves meanwhile can be   *)
(* in both lists, or in none.                                              *)
(***************************************************************************)
EXTENDS Naturals, FiniteSets

CONSTANTS
    Watched,      \* downloads
    Subject,      \* the one "download wait" waits for
    Goal,         \* --until
    MaxMoves      \* BOUND: changes of state in aria2

ASSUME CliAssumption == Subject \in Watched /\ MaxMoves \in Nat

Running == {"active"}
Queued  == {"waiting", "paused"}
Over    == {"complete", "error", "removed"}
Absent  == "absent"

VARIABLES
    inAria,     \* status of each download in aria2
    seen,       \* answers of the refresh under way
    reading,    \* list the refresh reads next
    published,  \* current_downloads and history_downloads of the snapshot
    previous,   \* events: snapshot compared with
    told,       \* events: state last told of each download, by event or first snapshot
    watch,      \* events: "start", "running" or "done"
    answer,     \* wait: "polling" or how it ended
    moves

cliVars == <<inAria, seen, reading, published, previous, told, watch, answer, moves>>

States == Running \cup Queued \cup Over \cup {Absent}
Lists == [current : [Watched -> States], past : [Watched -> States]]
NoLists == [current |-> [d \in Watched |-> Absent], past |-> [d \in Watched |-> Absent]]

CliTypeOK ==
    /\ inAria \in [Watched -> States]
    /\ {seen, published, previous} \subseteq Lists
    /\ reading \in {"active", "waiting", "stopped"}
    /\ told \in [Watched -> States]
    /\ watch \in {"start", "running", "done"}
    /\ answer \in {"polling", "reached", "missing", "ambiguous", "late"}
    /\ moves \in 0 .. MaxMoves

CliInit ==
    /\ inAria \in [Watched -> Queued \cup {Absent}]
    /\ published = NoLists /\ seen = NoLists /\ reading = "active"
    /\ previous = NoLists /\ told = [d \in Watched |-> Absent]
    /\ watch = "start" /\ answer = "polling" /\ moves = 0

-----------------------------------------------------------------------------
(* aria2, and requests of other clients *)
NextStates(status) ==
    CASE status = "waiting" -> {"active", "paused", "removed"}
      [] status = "paused"  -> {"waiting", "removed"}
      [] status = "active"  -> {"complete", "error", "waiting", "paused", "removed"}
      [] status = Absent    -> {"waiting"}
      [] OTHER              -> {}
Moves == \E d \in Watched : \E status \in NextStates(inAria[d]) :
    /\ moves < MaxMoves /\ moves' = moves + 1
    /\ inAria' = [inAria EXCEPT ![d] = status]
    /\ UNCHANGED <<seen, reading, published, previous, told, watch, answer>>

(* perform_refresh: tellActive, tellWaiting, tellStopped, then the snapshot. *)
ThoseIn(states) == {d \in Watched : inAria[d] \in states}
Filled(list, states) == [d \in Watched |-> IF d \in ThoseIn(states) THEN inAria[d] ELSE list[d]]
ReadActive ==
    /\ reading = "active" /\ reading' = "waiting"
    /\ seen' = [NoLists EXCEPT !.current = Filled(@, Running)]
    /\ UNCHANGED <<inAria, published, previous, told, watch, answer, moves>>
ReadWaiting ==
    /\ reading = "waiting" /\ reading' = "stopped"
    /\ seen' = [seen EXCEPT !.current = Filled(@, Queued)]
    /\ UNCHANGED <<inAria, published, previous, told, watch, answer, moves>>
ReadStopped ==
    /\ reading = "stopped" /\ reading' = "active"
    /\ published' = [seen EXCEPT !.past = Filled(@, Over)] /\ seen' = NoLists
    /\ UNCHANGED <<inAria, previous, told, watch, answer, moves>>

-----------------------------------------------------------------------------
(* events: the first entry of a download in a snapshot, and the last: its  *)
(* entry among the current downloads comes before that in the history      *)
FirstEntry(lists, d) == IF lists.current[d] # Absent THEN lists.current[d] ELSE lists.past[d]
LastEntry(lists, d)  == IF lists.past[d] # Absent THEN lists.past[d] ELSE lists.current[d]
Entries(lists, d)    == {lists.current[d], lists.past[d]} \ {Absent}

(* Every entry unlike the first one of the snapshot before is an event. *)
Reported(lists, d) == Entries(lists, d) \ {FirstEntry(previous, d)}
LastToldOf(lists, d) ==
    IF LastEntry(lists, d) \in Reported(lists, d) THEN LastEntry(lists, d)
    ELSE IF Reported(lists, d) # {} THEN FirstEntry(lists, d) ELSE told[d]

FirstOnly(lists) == previous
Compared(lists) == lists

StartEvents ==
    /\ watch = "start" /\ watch' = "running" /\ previous' = published
    /\ told' = [d \in Watched |-> LastEntry(published, d)]
    /\ UNCHANGED <<inAria, seen, reading, published, answer, moves>>
PollEvents ==
    /\ watch = "running" /\ previous' = Compared(published)
    /\ told' = [d \in Watched |-> LastToldOf(published, d)]
    /\ UNCHANGED <<inAria, seen, reading, published, watch, answer, moves>>
(* --count is reached, or a request fails *)
EndEvents ==
    /\ watch = "running" /\ watch' = "done"
    /\ UNCHANGED <<inAria, seen, reading, published, previous, told, answer, moves>>

-----------------------------------------------------------------------------
(* download wait: the selector must match exactly one entry of the         *)
(* snapshot; the time limit counts only after a look at the state.         *)
Matches == Cardinality({list \in DOMAIN published : published[list][Subject] # Absent})
PollWait ==
    /\ answer = "polling"
    /\ \/ Matches = 0 /\ answer' = "missing"
       \/ Matches = 2 /\ answer' = "ambiguous"
       \/ Matches = 1 /\ FirstEntry(published, Subject) \in Goal /\ answer' = "reached"
       \/ Matches = 1 /\ FirstEntry(published, Subject) \notin Goal /\ answer' = "late"
    /\ UNCHANGED <<inAria, seen, reading, published, previous, told, watch, moves>>

CliNext == Moves \/ ReadActive \/ ReadWaiting \/ ReadStopped
           \/ StartEvents \/ PollEvents \/ EndEvents \/ PollWait
CliSpec == CliInit /\ [][CliNext]_cliVars

-----------------------------------------------------------------------------
(* Whoever applies the events, in order, to the first snapshot knows the   *)
(* state of every download in the snapshot compared last, also when a      *)
(* download was in both of its lists or missing from one snapshot.         *)
EventsReplay ==
    watch = "running" =>
        \A d \in Watched : Entries(previous, d) # {} => told[d] = LastEntry(previous, d)
=============================================================================
