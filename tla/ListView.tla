------------------------------ MODULE ListView ------------------------------
(***************************************************************************)
(* Searching, filtering and sorting the two lists of downloads             *)
(* (src/list_view.rs), for the TUI and the web pages.  A row is a record;  *)
(* its text is the set of words a search can find in it.                   *)
(***************************************************************************)
EXTENDS Integers, Sequences, SequencesExt

CurrentFilters == <<"all", "active", "waiting", "paused", "held">>
CurrentSorts   == <<"queue", "batch", "name", "progress", "speed", "eta">>
HistoryFilters == <<"all", "complete", "error", "removed">>
HistorySorts   == <<"recent", "name", "size", "status">>

(* The choice after `now', round and round. *)
Cycled(choices, now) ==
    choices[((CHOOSE i \in DOMAIN choices : choices[i] = now) % Len(choices)) + 1]

NoEta == -1

MatchesSearch(row, search) == search = "" \/ search \in row.words
MatchesCurrentFilter(row, filter) ==
    CASE filter = "all"  -> TRUE
      [] filter = "held" -> row.held
      [] OTHER           -> row.status = filter
MatchesHistoryFilter(row, filter) == filter = "all" \/ row.status = filter

(* Rust's sort_by is stable: rows that compare equal keep their order. *)
StableSort(s, Before(_, _)) ==
    LET Earlier(i, j) == Before(s[i], s[j]) \/ (~Before(s[j], s[i]) /\ i < j)
        order == SortSeq([i \in DOMAIN s |-> i], Earlier)
    IN  [i \in DOMAIN s |-> s[order[i]]]

(* Unassigned downloads come after every numbered batch, those without an  *)
(* ETA after those with one.                                               *)
LastIfNone(value, none, a, b) == value[a] # none /\ (value[b] = none \/ value[a] < value[b])

CurrentBefore(sort, a, b) ==
    CASE sort = "queue"    -> FALSE
      [] sort = "batch"    -> LastIfNone([x \in {a, b} |-> x.batch], -1, a, b)
      [] sort = "name"     -> a.name < b.name
      [] sort = "progress" -> \/ a.completed > b.completed
                              \/ a.completed = b.completed /\ a.total > b.total
      [] sort = "speed"    -> a.speed > b.speed
      [] sort = "eta"      -> LastIfNone([x \in {a, b} |-> x.eta], NoEta, a, b)

StatusRank(status) ==
    CHOOSE i \in 1 .. 7 :
        <<"complete", "error", "removed", "paused", "waiting", "active", "unknown">>[i] = status

HistoryBefore(sort, a, b) ==
    CASE sort = "recent" -> FALSE
      [] sort = "name"   -> a.name < b.name
      [] sort = "size"   -> a.total > b.total
      [] sort = "status" -> StatusRank(a.status) < StatusRank(b.status)

CurrentVisible(rows, search, filter, sort) ==
    StableSort(SelectSeq(rows, LAMBDA row : /\ MatchesCurrentFilter(row, filter)
                                            /\ MatchesSearch(row, search)),
               LAMBDA a, b : CurrentBefore(sort, a, b))

HistoryVisible(rows, search, filter, sort) ==
    StableSort(SelectSeq(rows, LAMBDA row : /\ MatchesHistoryFilter(row, filter)
                                            /\ MatchesSearch(row, search)),
               LAMBDA a, b : HistoryBefore(sort, a, b))
=============================================================================
