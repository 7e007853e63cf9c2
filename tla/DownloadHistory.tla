-------------------------- MODULE DownloadHistory --------------------------
(***************************************************************************)
(* The history of ended downloads (src/history.rs) as operators on         *)
(* sequences of items, newest first.  An attempt is what aria2 calls a     *)
(* gid: a job (a source URI with an output path, the code's "identity")    *)
(* and which of its attempts it is.                                        *)
(***************************************************************************)
EXTENDS Naturals, Sequences, SequencesExt

CONSTANTS
    Job,            \* identities of downloads
    MaxAttempts     \* BOUND: attempts aria2 is ever given per job

ASSUME HistoryAssumption == MaxAttempts \in Nat \ {0}

Attempt == Job \X (1 .. MaxAttempts)
JobOf(a) == a[1]
Ended == {"complete", "error", "removed"}
Result == [gid : Attempt, status : Ended]

GidsOf(items) == {items[i].gid : i \in DOMAIN items}
WithEnd(items, status) == {a \in GidsOf(items) :
                              \E i \in DOMAIN items : items[i] = [gid |-> a, status |-> status]}

(* The items at some places of a list, in their order. *)
ItemsAt(items, places) ==
    LET upTo[n \in 0 .. Len(items)] ==
            IF n = 0 THEN <<>>
            ELSE IF n \in places THEN Append(upTo[n - 1], items[n]) ELSE upTo[n - 1]
    IN  upTo[Len(items)]

Without(items, a) == ItemsAt(items, {i \in DOMAIN items : items[i].gid # a})

(* deduplicate: of the ends of one job only the first in the list is kept.  *)
(* seen_gids has what is before an item, seen_downloads the ends among them *)
(* that were not dropped for their gid.                                     *)
Final(item) == item.status \in {"complete", "error"}
SeenGid(items, i) == \E k \in 1 .. i - 1 : items[k].gid = items[i].gid
SeenDownload(items, i) ==
    \E k \in 1 .. i - 1 : /\ Final(items[k]) /\ ~SeenGid(items, k)
                          /\ JobOf(items[k].gid) = JobOf(items[i].gid)

Deduplicate(items) ==
    ItemsAt(items, {i \in DOMAIN items : /\ ~SeenGid(items, i)
                                         /\ Final(items[i]) => ~SeenDownload(items, i)})

(***************************************************************************)
(* merge_terminal_events: what is new goes first, latest end first; what   *)
(* is known keeps its place and takes the status just reported.            *)
(***************************************************************************)
Latest(item, stopped) ==
    LET again == {i \in DOMAIN stopped : stopped[i].gid = item.gid}
    IN  IF again = {} THEN item ELSE stopped[CHOOSE i \in again : TRUE]

MergeTerminalEvents(existing, stopped) ==
    LET fresh == ItemsAt(stopped, {i \in DOMAIN stopped : stopped[i].gid \notin GidsOf(existing)})
        known == [i \in DOMAIN existing |-> Latest(existing[i], stopped)]
    IN  Deduplicate(Reverse(fresh) \o known)
=============================================================================
