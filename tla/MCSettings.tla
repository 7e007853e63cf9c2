----------------------------- MODULE MCSettings -----------------------------
(* A browser, a command line and a terminal, and two rules to begin with.  *)
EXTENDS SettingsEdits

Program == [page |-> "web", command |-> "cli", terminal |-> "tui"]
OneProgram == [page |-> "web"]
TwoRules == <<"a", "b">>
=============================================================================
