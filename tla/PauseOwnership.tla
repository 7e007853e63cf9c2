--------------------------- MODULE PauseOwnership ---------------------------
(***************************************************************************)
(* What the queue promises about pauses, without refreshes, locks or       *)
(* files: a paused download is in the hands of the scheduler ("held") or   *)
(* of the user ("paused").  The scheduler ends its own pauses only; a      *)
(* pause of the user is made and ended while a request about that download *)
(* is being served (README.md:100).                                        *)
(***************************************************************************)
CONSTANT Gid

VARIABLES
    phase,      \* who has each download in hand
    open        \* the downloads that requests being served are about

Phase == {"none", "runs", "held", "paused", "done"}

Engine == {<<"none", "runs">>, <<"runs", "done">>, <<"held", "done">>, <<"paused", "done">>}
Scheduler == {<<"runs", "held">>, <<"held", "runs">>}
User == {<<"none", "paused">>, <<"runs", "paused">>, <<"held", "paused">>,
         <<"paused", "runs">>}

Init == phase \in [Gid -> Phase \ {"done"}] /\ open = {}

Next ==
    /\ open' \subseteq Gid
    /\ phase' \in [Gid -> Phase]
    /\ \A g \in Gid :
          LET step == <<phase[g], phase'[g]>>
          IN  \/ phase'[g] = phase[g]
              \/ step \in Engine \cup Scheduler
              \/ g \in open \cup open' /\ step \in User

Spec == Init /\ [][Next]_<<phase, open>>
=============================================================================
