--------------------------- MODULE MCBatchQueue ---------------------------
(* Two or three downloads; the configurations choose which are torrents.   *)
EXTENDS BatchQueue, TLC

CONSTANTS g1, g2, g3, c1, c2

MCOne == {g1}
MCTwo == {g1, g2}
MCThree == {g1, g2, g3}
MCSecond == {g2}
MCNoParents == [g \in Gid |-> NoGid]
MCFollows == [g \in Gid |-> IF g = g2 THEN g1 ELSE NoGid]
MCOneClient == {c1}
MCTwoClients == {c1, c2}
AnyGid == Permutations(Gid) \cup Permutations(Clients)
AnyClient == Permutations(Clients)

(* Without faults the saved session and the file are never read back, and  *)
(* the published snapshot only by requests that plan.                      *)
Planning == issued < MaxRequests \/ \E c \in Clients : req[c].pc = "plan"
CalmView == <<aria, queue, [rt EXCEPT !.applied = FALSE], IF Planning THEN snap ELSE EmptyListing,
              history, req, issued, owned>>
=============================================================================
