---------------------------- MODULE MCFrontEnds ----------------------------
(***************************************************************************)
(* The programs in front of the daemon and the estimates they show, each   *)
(* checked by itself: a behaviour takes steps of one part only, as in      *)
(* MCServices.                                                             *)
(***************************************************************************)
EXTENDS MCTerminal, WebPage, CliClient, MCSettings, SpeedTracker, EtaProjection

VARIABLE part
Parts == {"tui", "page", "cli", "settings", "speed", "eta"}
vars == <<part, tuiVars, pageVars, cliVars, settingsVars, speedVars, etaVars>>

(* A part that does not move starts in one state only. *)
Init ==
    /\ part \in Parts
    /\ IF part = "tui" THEN TuiInit ELSE TuiInit /\ kept.current = <<"d1", "d2">>
    /\ IF part = "page" THEN PageInit ELSE PageInit /\ view = "list"
    /\ IF part = "cli" THEN CliInit ELSE CliInit /\ inAria = [d \in Watched |-> Absent]
    /\ SettingsInit
    /\ IF part = "speed" THEN SpeedInit ELSE SpeedInit /\ recent = <<>>
    /\ IF part = "eta" THEN EtaInit
       ELSE /\ EtaInit /\ batchOf = [i \in Item |-> 0] /\ wasActive = {} /\ slots = 1
            /\ activeBatch = NoBatch /\ capacity = [h \in 0 .. Clock - 1 |-> 1] /\ startsIn = Scale

Tui == /\ part = "tui" /\ TuiNext
       /\ UNCHANGED <<part, pageVars, cliVars, settingsVars, speedVars, etaVars>>
Page == /\ part = "page" /\ PageNext
        /\ UNCHANGED <<part, tuiVars, cliVars, settingsVars, speedVars, etaVars>>
Cli == /\ part = "cli" /\ CliNext
       /\ UNCHANGED <<part, tuiVars, pageVars, settingsVars, speedVars, etaVars>>
Edits == /\ part = "settings" /\ SettingsNext
         /\ UNCHANGED <<part, tuiVars, pageVars, cliVars, speedVars, etaVars>>
Speed == /\ part = "speed" /\ SpeedNext
         /\ UNCHANGED <<part, tuiVars, pageVars, cliVars, settingsVars, etaVars>>
Eta == /\ part = "eta" /\ EtaNext
       /\ UNCHANGED <<part, tuiVars, pageVars, cliVars, settingsVars, speedVars>>

Next == Tui \/ Page \/ Cli \/ Edits \/ Speed \/ Eta

(* Each part's own fairness, asked of the behaviours of that part. *)
Fairness ==
    /\ WF_tuiVars(part = "tui" /\ Draw) /\ WF_tuiVars(part = "tui" /\ Tick)
    /\ WF_tuiVars(part = "tui" /\ ThenCancel)
    /\ WF_pageVars(part = "page" /\ StartRefresh) /\ WF_pageVars(part = "page" /\ Saves)
    /\ WF_pageVars(part = "page" /\ Answers) /\ WF_pageVars(part = "page" /\ Continues)

Spec == Init /\ [][Next]_vars /\ Fairness

-----------------------------------------------------------------------------
(* Downloads of equal weight. *)
Sizes == <<1, 2, 1>>
Weights == <<1, 1, 1>>

(* The state of a part that does not move is not looked at again. *)
FrontEndsTypeOK ==
    CASE part = "tui" -> TuiTypeOK
      [] part = "page" -> PageTypeOK
      [] part = "cli" -> CliTypeOK
      [] part = "settings" -> SettingsTypeOK
      [] part = "speed" -> SpeedTypeOK
      [] part = "eta" -> EtaTypeOK

(* Reconnects and PageCatchesUp of the behaviours of their part. *)
TerminalReconnects == part = "tui" => Reconnects
ShownPageCatchesUp == part = "page" => PageCatchesUp
=============================================================================
