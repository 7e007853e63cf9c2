------------------------- MODULE BatchTurns_proofs -------------------------
(***************************************************************************)
(* Proofs about BatchTurns, for every set of downloads, every parent       *)
(* relation between them and every number of batches.                      *)
(***************************************************************************)
EXTENDS BatchTurns, FiniteSetTheorems, WellFoundedInduction, TLAPS

USE PolicyAssumption

-----------------------------------------------------------------------------
(***************************************************************************)
(* A nonempty set of naturals has one least element, and a set whose       *)
(* elements are all equal has at most one.                                 *)
(***************************************************************************)
LEMMA LeastIsOne ==
  ASSUME NEW S \in SUBSET Nat, S # {}
  PROVE  \E m \in S : Least(S) = {m} /\ \A n \in S : m <= n
  <1> DEFINE Below == {ss \in Nat \X Nat : ss[1] < ss[2]}
  <1>1. IsWellFoundedOn(Below, Nat)
    BY NatLessThanWellFounded DEF OpToRel
  <1>2. PICK m \in S : \A n \in S : ~(<<n, m>> \in Below)
    BY <1>1, WFMin
  <1>3. ASSUME NEW n \in S PROVE m <= n
    <2>1. n \in Nat /\ m \in Nat /\ ~(n < m)
      BY <1>2
    <2> QED
      BY <2>1
  <1>4. Least(S) = {m}
    <2>1. ASSUME NEW k \in S, \A n \in S : k <= n PROVE k = m
      <3>1. k \in Nat /\ m \in Nat /\ k <= m /\ m <= k
        BY <1>3, <2>1
      <3> QED
        BY <3>1
    <2> QED
      BY <1>3, <2>1 DEF Least
  <1> QED
    BY <1>3, <1>4

(* A set whose members are all equal has at most one. *)
LEMMA AtMostOne ==
  ASSUME NEW S, \A x, y \in S : x = y
  PROVE  Cardinality(S) <= 1
  <1>1. CASE S = {}
    BY <1>1, FS_EmptySet
  <1>2. CASE S # {}
    <2>1. PICK x : S = {x}
      BY <1>2
    <2>2. Cardinality({x}) = 1
      BY FS_Singleton, Zenon
    <2> QED
      BY <2>1, <2>2
  <1> QED
    BY <1>1, <1>2

-----------------------------------------------------------------------------
(***************************************************************************)
(* Listings of pending downloads: the only ones that the planning          *)
(* functions and the requests of this module meet.                         *)
(***************************************************************************)
AllPending(L) == IsListing(L) /\ \A g \in DOMAIN L : IsPending(L[g])

(* Of a listing that is all pending, the pending part is the whole. *)
LEMMA PendingIsAll ==
  ASSUME NEW L, AllPending(L)
  PROVE  PendingOf(L) = L
  BY DEF AllPending, PendingOf, IsListing

(* A function to pending items is a pending listing. *)
LEMMA PendingListing ==
  ASSUME NEW D \in SUBSET Gid, NEW L \in [D -> Item], \A g \in D : IsPending(L[g])
  PROVE  AllPending(L)
  BY DEF AllPending, IsListing

(* The batch that counts for a download is a natural number. *)
LEMMA EffectiveType ==
  ASSUME NEW L, IsListing(L), NEW g \in DOMAIN L
  PROVE  EffectiveBatch(L, g) \in Target /\ EffectiveBatch(L, g) \in Nat
  <1>1. \A h \in DOMAIN L : Up(L, h) \in DOMAIN L
    BY DEF Up
  <1>2. \A h \in DOMAIN L : L[h].batch \in Target
    BY DEF IsListing, Item
  <1>3. Target \subseteq Nat
    BY DEF Target, Unassigned
  <1> QED
    BY <1>1, <1>2, <1>3 DEF EffectiveBatch

(* Two listings with the same downloads, batches and parents agree on which *)
(* batch a download counts to.                                              *)
LEMMA SameBatches ==
  ASSUME NEW L, NEW M, DOMAIN M = DOMAIN L,
         \A g \in DOMAIN L : M[g].batch = L[g].batch /\ M[g].parent = L[g].parent
  PROVE  \A g \in DOMAIN L : EffectiveBatch(M, g) = EffectiveBatch(L, g)
  <1>1. \A h \in DOMAIN L : Up(L, h) \in DOMAIN L /\ Up(M, h) = Up(L, h)
    BY DEF Up
  <1>2. ASSUME NEW g \in DOMAIN L PROVE EffectiveBatch(M, g) = EffectiveBatch(L, g)
    <2> DEFINE h == Up(L, Up(L, Up(L, Up(L, g))))
    <2>1. h \in DOMAIN L /\ Up(M, Up(M, Up(M, Up(M, g)))) = h
      BY <1>1
    <2> QED
      BY <2>1 DEF EffectiveBatch
  <1> QED
    BY <1>2

(* A plan names each download once: what it does to it is then determined. *)
Names(plan, L) ==
    /\ plan \subseteq [kind : {"Hold", "HoldByUser", "KeepPausedByUser", "Release"}, gid : DOMAIN L]
    /\ \A a, b \in plan : a.gid = b.gid => a = b

(* A release leaves its item waiting and unmarked, a hold leaves it paused and marked. *)
LEMMA CarriedItem ==
  ASSUME NEW L, AllPending(L), NEW g \in DOMAIN L, NEW kind
  PROVE  /\ Carried(L[g], kind).status = IF kind = "Release" THEN "waiting" ELSE "paused"
         /\ Carried(L[g], kind).held <=> (kind = "Hold")
  <1>1. L[g] \in Item
    BY DEF AllPending, IsListing
  <1> QED
    BY <1>1 DEF Carried, Item

(* A plan carried out changes exactly the downloads it names, and no batch. *)
LEMMA CarriedOut ==
  ASSUME NEW L, AllPending(L), NEW plan, Names(plan, L)
  PROVE  LET M == CarryOut(L, plan)
         IN  /\ AllPending(M) /\ DOMAIN M = DOMAIN L
             /\ \A g \in DOMAIN L : EffectiveBatch(M, g) = EffectiveBatch(L, g)
             /\ \A a \in plan : M[a.gid] = Carried(L[a.gid], a.kind)
             /\ \A g \in DOMAIN L : (\A a \in plan : a.gid # g) => M[g] = L[g]
  <1> DEFINE M == CarryOut(L, plan)
  <1>1. DOMAIN M = DOMAIN L /\ \A g \in DOMAIN L : (\A a \in plan : a.gid # g) => M[g] = L[g]
    BY DEF CarryOut
  <1>2. ASSUME NEW a \in plan PROVE M[a.gid] = Carried(L[a.gid], a.kind)
    <2>1. (CHOOSE b \in plan : b.gid = a.gid) = a
      BY DEF Names
    <2> QED
      BY <2>1 DEF CarryOut, Names
  <1>3. ASSUME NEW g \in DOMAIN L
        PROVE  /\ M[g] \in Item /\ IsPending(M[g])
               /\ M[g].batch = L[g].batch /\ M[g].parent = L[g].parent
    <2>1. L[g] \in Item /\ IsPending(L[g])
      BY DEF AllPending, IsListing
    <2>2. CASE \A a \in plan : a.gid # g
      BY <1>1, <2>1, <2>2
    <2>3. ASSUME NEW a \in plan, a.gid = g
          PROVE  /\ M[g] \in Item /\ IsPending(M[g])
                 /\ M[g].batch = L[g].batch /\ M[g].parent = L[g].parent
      <3>1. M[g] = Carried(L[g], a.kind)
        BY <1>2, <2>3
      <3> QED
        BY <2>1, <3>1 DEF Carried, Item, IsPending, Pending, Unpaused
    <2> QED
      BY <2>2, <2>3
  <1>4. AllPending(M)
    BY <1>1, <1>3 DEF AllPending, IsListing, CarryOut
  <1>5. \A g \in DOMAIN L : EffectiveBatch(M, g) = EffectiveBatch(L, g)
    BY <1>1, <1>3, SameBatches
  <1> HIDE DEF M
  <1> QED
    BY <1>1, <1>2, <1>4, <1>5 DEF M

-----------------------------------------------------------------------------
(***************************************************************************)
(* The batch in play: no batch with an unpaused download is below it, it   *)
(* has one if there is any, and otherwise it is one that is held.          *)
(***************************************************************************)
LEMMA InPlayIs ==
  ASSUME NEW L, AllPending(L)
  PROVE  \/ /\ InPlay(L) = {}
            /\ \A g \in DOMAIN L : L[g].status \notin Unpaused /\ ~HeldPaused(L[g])
         \/ \E t \in Nat :
              /\ InPlay(L) = {t}
              /\ \A g \in DOMAIN L : L[g].status \in Unpaused => t <= EffectiveBatch(L, g)
              /\ \E g \in DOMAIN L :
                    /\ EffectiveBatch(L, g) = t
                    /\ \/ L[g].status \in Unpaused
                       \/ /\ HeldPaused(L[g])
                          /\ \A h \in DOMAIN L : L[h].status \notin Unpaused
  <1>1. \A g \in DOMAIN L : EffectiveBatch(L, g) \in Nat
    BY EffectiveType DEF AllPending
  <1>2. UnpausedBatches(L) \in SUBSET Nat /\ HeldBatches(L) \in SUBSET Nat
    BY <1>1 DEF UnpausedBatches, HeldBatches
  <1>3. PendingOf(L) = L
    BY PendingIsAll
  <1>4. CASE UnpausedBatches(L) # {}
    <2>1. PICK t \in UnpausedBatches(L) : Least(UnpausedBatches(L)) = {t}
                                          /\ \A n \in UnpausedBatches(L) : t <= n
      BY <1>2, <1>4, LeastIsOne
    <2>2. InPlay(L) = {t} /\ t \in Nat
      BY <1>2, <1>3, <1>4, <2>1 DEF InPlay
    <2>3. \A g \in DOMAIN L : L[g].status \in Unpaused => t <= EffectiveBatch(L, g)
      BY <2>1 DEF UnpausedBatches
    <2>4. \E g \in DOMAIN L : EffectiveBatch(L, g) = t /\ L[g].status \in Unpaused
      BY <2>1 DEF UnpausedBatches
    <2> QED
      BY <2>2, <2>3, <2>4
  <1>5. CASE UnpausedBatches(L) = {} /\ HeldBatches(L) # {}
    <2>1. PICK t \in HeldBatches(L) : Least(HeldBatches(L)) = {t}
      BY <1>2, <1>5, LeastIsOne
    <2>2. InPlay(L) = {t} /\ t \in Nat
      BY <1>2, <1>3, <1>5, <2>1 DEF InPlay
    <2>3. \A g \in DOMAIN L : L[g].status \notin Unpaused
      BY <1>5 DEF UnpausedBatches
    <2>4. \E g \in DOMAIN L : EffectiveBatch(L, g) = t /\ HeldPaused(L[g])
      BY <2>1 DEF HeldBatches
    <2> QED
      BY <2>2, <2>3, <2>4
  <1>6. CASE UnpausedBatches(L) = {} /\ HeldBatches(L) = {}
    <2>1. InPlay(L) = {}
      BY <1>3, <1>6 DEF InPlay, Least
    <2>2. \A g \in DOMAIN L : L[g].status \notin Unpaused /\ ~HeldPaused(L[g])
      BY <1>6 DEF UnpausedBatches, HeldBatches
    <2> QED
      BY <2>1, <2>2
  <1> QED
    BY <1>4, <1>5, <1>6

(***************************************************************************)
(* What a pass of the scheduler does to each download.                     *)
(***************************************************************************)
After(L) == CarryOut(L, PlanBatchPolicy(L))
PassHolds(L, g) == L[g].status \in Unpaused /\ \E t \in InPlay(L) : EffectiveBatch(L, g) > t
PassReleases(L, g) == HeldPaused(L[g]) /\ EffectiveBatch(L, g) \in InPlay(L)

(* A pass of the policy, download by download. *)
LEMMA PassDoes ==
  ASSUME NEW L, AllPending(L)
  PROVE  /\ AllPending(After(L)) /\ DOMAIN After(L) = DOMAIN L
         /\ \A g \in DOMAIN L : EffectiveBatch(After(L), g) = EffectiveBatch(L, g)
         /\ \A g \in DOMAIN L : PassHolds(L, g) => After(L)[g] = Carried(L[g], "Hold")
         /\ \A g \in DOMAIN L : PassReleases(L, g) => After(L)[g] = Carried(L[g], "Release")
         /\ \A g \in DOMAIN L : ~PassHolds(L, g) /\ ~PassReleases(L, g) => After(L)[g] = L[g]
  <1> DEFINE plan == PlanBatchPolicy(L)
  <1>1. plan = {[kind |-> "Hold", gid |-> g] : g \in {h \in DOMAIN L : PassHolds(L, h)}}
               \cup {[kind |-> "Release", gid |-> g] : g \in {h \in DOMAIN L : PassReleases(L, h)}}
    BY PendingIsAll DEF PlanBatchPolicy, PassHolds, PassReleases
  <1>2. \A g \in DOMAIN L : ~(PassHolds(L, g) /\ PassReleases(L, g))
    BY DEF PassHolds, PassReleases, HeldPaused, Unpaused
  <1> HIDE DEF plan
  <1>3. Names(plan, L)
    BY <1>1, <1>2 DEF Names
  <1>4. \A g \in DOMAIN L : PassHolds(L, g) => [kind |-> "Hold", gid |-> g] \in plan
    BY <1>1
  <1>5. \A g \in DOMAIN L : PassReleases(L, g) => [kind |-> "Release", gid |-> g] \in plan
    BY <1>1
  <1>6. \A a \in plan : PassHolds(L, a.gid) \/ PassReleases(L, a.gid)
    BY <1>1
  <1>7. After(L) = CarryOut(L, plan)
    BY DEF After, plan
  <1>8. /\ AllPending(After(L)) /\ DOMAIN After(L) = DOMAIN L
        /\ \A g \in DOMAIN L : EffectiveBatch(After(L), g) = EffectiveBatch(L, g)
        /\ \A a \in plan : After(L)[a.gid] = Carried(L[a.gid], a.kind)
        /\ \A g \in DOMAIN L : (\A a \in plan : a.gid # g) => After(L)[g] = L[g]
    BY <1>3, <1>7, CarriedOut
  <1>9. ASSUME NEW g \in DOMAIN L, PassHolds(L, g) PROVE After(L)[g] = Carried(L[g], "Hold")
    BY <1>4, <1>8, <1>9
  <1>10. ASSUME NEW g \in DOMAIN L, PassReleases(L, g) PROVE After(L)[g] = Carried(L[g], "Release")
    BY <1>5, <1>8, <1>10
  <1>11. ASSUME NEW g \in DOMAIN L, ~PassHolds(L, g), ~PassReleases(L, g)
         PROVE  After(L)[g] = L[g]
    BY <1>6, <1>8, <1>11
  <1> QED
    BY <1>8, <1>9, <1>10, <1>11

-----------------------------------------------------------------------------
(***************************************************************************)
(* What the passes promise, for any listing of pending downloads.          *)
(***************************************************************************)
LEMMA PassUnpausesOne ==
  ASSUME NEW L, AllPending(L), NEW t, InPlay(L) = {t},
         NEW g \in DOMAIN L, After(L)[g].status \in Unpaused
  PROVE  EffectiveBatch(L, g) = t
  <1>1. t \in Nat /\ EffectiveBatch(L, g) \in Nat
    BY InPlayIs, EffectiveType DEF AllPending
  <1>2. CASE PassHolds(L, g)
    <2>1. After(L)[g].status = "paused"
      BY <1>2, PassDoes, CarriedItem
    <2> QED
      BY <2>1 DEF Unpaused
  <1>3. CASE PassReleases(L, g)
    BY <1>3 DEF PassReleases
  <1>4. CASE ~PassHolds(L, g) /\ ~PassReleases(L, g)
    <2>1. L[g].status \in Unpaused
      BY <1>4, PassDoes
    <2>2. t <= EffectiveBatch(L, g) /\ ~(EffectiveBatch(L, g) > t)
      BY <1>4, <2>1, InPlayIs DEF PassHolds
    <2> QED
      BY <1>1, <2>2
  <1> QED
    BY <1>2, <1>3, <1>4

(* When a download runs or is held, the pass leaves one batch in play and it runs. *)
LEMMA PassKeepsATurn ==
  ASSUME NEW L, AllPending(L),
         \E g \in DOMAIN L : L[g].status \in Unpaused \/ HeldPaused(L[g])
  PROVE  \E t \in Nat : InPlay(L) = {t} /\ \E g \in DOMAIN L :
            EffectiveBatch(L, g) = t /\ After(L)[g].status \in Unpaused
  <1>1. PICK t \in Nat, g \in DOMAIN L :
            /\ InPlay(L) = {t} /\ EffectiveBatch(L, g) = t
            /\ L[g].status \in Unpaused \/ HeldPaused(L[g])
    BY InPlayIs
  <1>2. CASE L[g].status \in Unpaused
    <2>1. ~PassHolds(L, g)
      BY <1>1 DEF PassHolds
    <2>2. ~PassReleases(L, g)
      BY <1>2 DEF PassReleases, HeldPaused, Unpaused
    <2> QED
      BY <1>1, <1>2, <2>1, <2>2, PassDoes
  <1>3. CASE HeldPaused(L[g])
    <2>1. PassReleases(L, g)
      BY <1>1, <1>3 DEF PassReleases
    <2>2. After(L)[g].status = "waiting"
      BY <2>1, PassDoes, CarriedItem
    <2> QED
      BY <1>1, <2>2 DEF Unpaused
  <1> QED
    BY <1>1, <1>2, <1>3

(* A pass never touches a download the user paused. *)
LEMMA PassLeavesUserPauses ==
  ASSUME NEW L, AllPending(L), NEW g \in DOMAIN L, L[g].status = "paused", ~L[g].held
  PROVE  After(L)[g] = L[g]
  <1>1. ~PassHolds(L, g) /\ ~PassReleases(L, g)
    BY DEF PassHolds, PassReleases, HeldPaused, Unpaused
  <1> QED
    BY <1>1, PassDoes

(* Nothing to hold and nothing to release is nothing to do. *)
LEMMA NothingToDo ==
  ASSUME NEW L, AllPending(L), \A g \in DOMAIN L : ~PassHolds(L, g) /\ ~PassReleases(L, g)
  PROVE  PlanBatchPolicy(L) = {}
  BY PendingIsAll DEF PlanBatchPolicy, PassHolds, PassReleases

(* After a pass at most one batch is unpaused. *)
LEMMA PassGivesOneTurn ==
  ASSUME NEW L, AllPending(L)
  PROVE  Cardinality(UnpausedBatches(After(L))) <= 1
  <1> DEFINE B == UnpausedBatches(After(L))
  <1>1. ASSUME NEW x \in B, NEW y \in B PROVE x = y
    <2>1. PICK g, h \in DOMAIN L : /\ x = EffectiveBatch(L, g) /\ After(L)[g].status \in Unpaused
                                   /\ y = EffectiveBatch(L, h) /\ After(L)[h].status \in Unpaused
      BY PassDoes DEF UnpausedBatches
    <2>2. CASE InPlay(L) = {}
      <3>1. ~PassHolds(L, g) /\ ~PassReleases(L, g)
        BY <2>2 DEF PassHolds, PassReleases
      <3>2. L[g].status \in Unpaused
        BY <2>1, <3>1, PassDoes
      <3> QED
        BY <2>2, <3>2, InPlayIs
    <2>3. CASE \E t : InPlay(L) = {t}
      BY <2>1, <2>3, PassUnpausesOne
    <2> QED
      BY <2>2, <2>3, InPlayIs
  <1> QED
    BY <1>1, AtMostOne

(* A second pass has nothing to do. *)
LEMMA SecondPassIdle ==
  ASSUME NEW L, AllPending(L)
  PROVE  PlanBatchPolicy(After(L)) = {}
  <1> DEFINE M == After(L)
  <1>1. /\ AllPending(M) /\ DOMAIN M = DOMAIN L
        /\ \A g \in DOMAIN L : EffectiveBatch(M, g) = EffectiveBatch(L, g)
    BY PassDoes
  <1>2. CASE \A g \in DOMAIN L : L[g].status \notin Unpaused /\ ~HeldPaused(L[g])
    <2>1. \A g \in DOMAIN L : ~PassHolds(L, g) /\ ~PassReleases(L, g)
      BY <1>2 DEF PassHolds, PassReleases
    <2>2. \A g \in DOMAIN L : M[g] = L[g]
      BY <2>1, PassDoes
    <2>3. \A g \in DOMAIN M : ~PassHolds(M, g) /\ ~PassReleases(M, g)
      BY <1>1, <1>2, <2>2 DEF PassHolds, PassReleases
    <2> QED
      BY <1>1, <2>3, NothingToDo
  <1>3. CASE \E g \in DOMAIN L : L[g].status \in Unpaused \/ HeldPaused(L[g])
    <2>1. PICK t \in Nat : InPlay(L) = {t} /\ \E g \in DOMAIN L :
                              EffectiveBatch(L, g) = t /\ M[g].status \in Unpaused
      BY <1>3, PassKeepsATurn
    <2>2. ASSUME NEW g \in DOMAIN L, M[g].status \in Unpaused PROVE EffectiveBatch(M, g) = t
      BY <1>1, <2>1, <2>2, PassUnpausesOne
    <2>3. InPlay(M) = {t}
      BY <1>1, <2>1, <2>2, InPlayIs
    <2>4. ASSUME NEW g \in DOMAIN L PROVE ~PassHolds(M, g)
      BY <2>1, <2>2, <2>3 DEF PassHolds
    <2>5. ASSUME NEW g \in DOMAIN L, HeldPaused(M[g]) PROVE EffectiveBatch(L, g) # t
      <3>1. CASE PassHolds(L, g)
        BY <2>1, <3>1 DEF PassHolds
      <3>2. CASE PassReleases(L, g)
        BY <2>5, <3>2, PassDoes, CarriedItem DEF HeldPaused
      <3>3. CASE ~PassHolds(L, g) /\ ~PassReleases(L, g)
        <4>1. HeldPaused(L[g])
          BY <2>5, <3>3, PassDoes
        <4> QED
          BY <2>1, <3>3, <4>1 DEF PassReleases
      <3> QED
        BY <3>1, <3>2, <3>3
    <2>6. ASSUME NEW g \in DOMAIN L PROVE ~PassReleases(M, g)
      BY <1>1, <2>3, <2>5 DEF PassReleases
    <2> QED
      BY <1>1, <2>4, <2>6, NothingToDo
  <1> QED
    BY <1>2, <1>3

-----------------------------------------------------------------------------
(***************************************************************************)
(* The requests that hold and start a batch.                               *)
(***************************************************************************)
LEMMA HoldDoes ==
  ASSUME NEW L, AllPending(L), NEW t
  PROVE  LET M == CarryOut(L, PlanHoldBatch(L, t))
         IN  /\ AllPending(M) /\ DOMAIN M = DOMAIN L
             /\ \A g \in DOMAIN L : EffectiveBatch(M, g) = EffectiveBatch(L, g)
             /\ \A g \in DOMAIN L : EffectiveBatch(L, g) = t =>
                    M[g].status = "paused" /\ ~M[g].held
  <1> DEFINE plan == PlanHoldBatch(L, t)
             M == CarryOut(L, plan)
             Taken(g) == EffectiveBatch(L, g) = t /\ L[g].status \in Unpaused
             Owned(g) == EffectiveBatch(L, g) = t /\ HeldPaused(L[g])
  <1>1. plan = {[kind |-> "HoldByUser", gid |-> g] : g \in {h \in DOMAIN L : Taken(h)}}
               \cup {[kind |-> "KeepPausedByUser", gid |-> g] : g \in {h \in DOMAIN L : Owned(h)}}
    BY DEF PlanHoldBatch
  <1>2. \A g \in DOMAIN L : ~(Taken(g) /\ Owned(g))
    BY DEF HeldPaused, Unpaused
  <1> HIDE DEF plan
  <1>3. Names(plan, L)
    BY <1>1, <1>2 DEF Names
  <1>4. /\ AllPending(M) /\ DOMAIN M = DOMAIN L
        /\ \A g \in DOMAIN L : EffectiveBatch(M, g) = EffectiveBatch(L, g)
        /\ \A a \in plan : M[a.gid] = Carried(L[a.gid], a.kind)
        /\ \A g \in DOMAIN L : (\A a \in plan : a.gid # g) => M[g] = L[g]
    BY <1>3, CarriedOut
  <1>5. ASSUME NEW g \in DOMAIN L, EffectiveBatch(L, g) = t
        PROVE  M[g].status = "paused" /\ ~M[g].held
    <2>1. CASE Taken(g)
      <3>1. [kind |-> "HoldByUser", gid |-> g] \in plan
        BY <1>1, <2>1
      <3>2. M[g] = Carried(L[g], "HoldByUser")
        BY <1>4, <3>1
      <3> HIDE DEF M
      <3> QED
        BY <3>2, CarriedItem
    <2>2. CASE Owned(g)
      <3>1. [kind |-> "KeepPausedByUser", gid |-> g] \in plan
        BY <1>1, <2>2
      <3>2. M[g] = Carried(L[g], "KeepPausedByUser")
        BY <1>4, <3>1
      <3> HIDE DEF M
      <3> QED
        BY <3>2, CarriedItem
    <2>3. CASE ~Taken(g) /\ ~Owned(g)
      <3>1. M[g] = L[g]
        BY <1>1, <1>4, <2>3
      <3>2. L[g].status \in Pending
        BY DEF AllPending, IsPending
      <3> QED
        BY <1>5, <2>3, <3>1, <3>2 DEF HeldPaused, Pending
    <2> QED
      BY <2>1, <2>2, <2>3
  <1> QED
    BY <1>4, <1>5 DEF plan

(* After a start exactly the downloads of that batch are unpaused. *)
LEMMA StartDoes ==
  ASSUME NEW L, AllPending(L), NEW t
  PROVE  LET M == CarryOut(L, PlanStartBatch(L, t))
         IN  /\ AllPending(M) /\ DOMAIN M = DOMAIN L
             /\ \A g \in DOMAIN L : EffectiveBatch(M, g) = EffectiveBatch(L, g)
             /\ \A g \in DOMAIN L : (M[g].status \in Unpaused) <=> (EffectiveBatch(L, g) = t)
  <1> DEFINE plan == PlanStartBatch(L, t)
             M == CarryOut(L, plan)
             Freed(g) == L[g].status = "paused" /\ EffectiveBatch(L, g) = t
             Parked(g) == L[g].status \in Unpaused /\ EffectiveBatch(L, g) # t
  <1>1. plan = {[kind |-> "Release", gid |-> g] : g \in {h \in DOMAIN L : Freed(h)}}
               \cup {[kind |-> "Hold", gid |-> g] : g \in {h \in DOMAIN L : Parked(h)}}
    BY DEF PlanStartBatch
  <1>2. \A g \in DOMAIN L : ~(Freed(g) /\ Parked(g))
    OBVIOUS
  <1> HIDE DEF plan
  <1>3. Names(plan, L)
    BY <1>1, <1>2 DEF Names
  <1>4. /\ AllPending(M) /\ DOMAIN M = DOMAIN L
        /\ \A g \in DOMAIN L : EffectiveBatch(M, g) = EffectiveBatch(L, g)
        /\ \A a \in plan : M[a.gid] = Carried(L[a.gid], a.kind)
        /\ \A g \in DOMAIN L : (\A a \in plan : a.gid # g) => M[g] = L[g]
    BY <1>3, CarriedOut
  <1>5. ASSUME NEW g \in DOMAIN L
        PROVE  (M[g].status \in Unpaused) <=> (EffectiveBatch(L, g) = t)
    <2>1. CASE Freed(g)
      <3>1. [kind |-> "Release", gid |-> g] \in plan
        BY <1>1, <2>1
      <3>2. M[g].status = "waiting"
        BY <1>4, <3>1, CarriedItem
      <3> QED
        BY <2>1, <3>2 DEF Unpaused
    <2>2. CASE Parked(g)
      <3>1. [kind |-> "Hold", gid |-> g] \in plan
        BY <1>1, <2>2
      <3>2. M[g].status = "paused"
        BY <1>4, <3>1, CarriedItem
      <3> QED
        BY <2>2, <3>2 DEF Unpaused
    <2>3. CASE ~Freed(g) /\ ~Parked(g)
      <3>1. M[g] = L[g]
        BY <1>1, <1>4, <2>3
      <3>2. L[g].status \in Pending
        BY DEF AllPending, IsPending
      <3> QED
        BY <2>3, <3>1, <3>2 DEF Pending, Unpaused
    <2> QED
      BY <2>1, <2>2, <2>3
  <1> QED
    BY <1>4, <1>5 DEF plan

(* A pass that finds one batch unpaused, and all of it, has nothing to do. *)
LEMMA StartedKeepsTheTurn ==
  ASSUME NEW L, AllPending(L), NEW t,
         \A g \in DOMAIN L : (L[g].status \in Unpaused) <=> (EffectiveBatch(L, g) = t),
         \E g \in DOMAIN L : EffectiveBatch(L, g) = t
  PROVE  \A g \in DOMAIN L : After(L)[g] = L[g]
  <1>1. InPlay(L) = {t} /\ t \in Nat
    BY InPlayIs
  <1>2. \A g \in DOMAIN L : ~PassHolds(L, g)
    BY <1>1 DEF PassHolds
  <1>3. \A g \in DOMAIN L : ~PassReleases(L, g)
    BY <1>1 DEF PassReleases, HeldPaused, Unpaused
  <1> QED
    BY <1>2, <1>3, PassDoes

-----------------------------------------------------------------------------
(***************************************************************************)
(* The inductive invariant: the listing is one of pending downloads, since *)
(* a download that ends leaves it.                                         *)
(***************************************************************************)
TurnsInv == AllPending(items)

(* Every listing the runs begin with satisfies the invariant. *)
LEMMA TurnsInit == Init => TurnsInv
  <1> SUFFICES ASSUME Init PROVE TurnsInv
    OBVIOUS
  <1>1. PICK D \in SUBSET Gid :
            items \in [D -> {[status |-> s, batch |-> b, held |-> h, parent |-> NoGid] :
                                s \in Pending, b \in Target, h \in BOOLEAN}]
    BY DEF Init
  <1>2. \A g \in D : items[g] \in Item /\ IsPending(items[g])
    BY <1>1 DEF Item, IsPending
  <1> QED
    BY <1>1, <1>2 DEF TurnsInv, AllPending, IsListing

(* Every step keeps it. *)
LEMMA TurnsStep == TurnsInv /\ [Next]_items => TurnsInv'
  <1> SUFFICES ASSUME TurnsInv, [Next]_items PROVE TurnsInv'
    OBVIOUS
  <1> USE DEF TurnsInv
  <1>0. DOMAIN items \subseteq Gid /\ \A g \in DOMAIN items : items[g] \in Item /\ IsPending(items[g])
    BY DEF AllPending, IsListing
  <1>1. ASSUME NEW D \in SUBSET Gid, items' \in [D -> Item], \A h \in D : IsPending(items'[h])
        PROVE  TurnsInv'
    BY <1>1, PendingListing
  <1>2. ASSUME NEW g \in Gid, Join(g) PROVE TurnsInv'
    <2> DEFINE joined(b) == [status |-> "waiting", batch |-> b, held |-> FALSE, parent |-> Parent[g]]
               batches == IF Parent[g] \in DOMAIN items THEN {Unassigned} ELSE Target
    <2>1. PICK b \in batches :
              items' = [h \in DOMAIN items \cup {g} |-> IF h = g THEN joined(b) ELSE items[h]]
      BY <1>2 DEF Join
    <2>2. Parent[g] \in Gid \cup {NoGid} /\ b \in Target
      BY TurnsAssumption DEF Target, Unassigned
    <2>3. joined(b) \in Item /\ IsPending(joined(b))
      BY <2>2 DEF Item, IsPending, Pending, Unpaused
    <2> HIDE DEF joined, batches
    <2>4. /\ items' \in [DOMAIN items \cup {g} -> Item]
          /\ \A h \in DOMAIN items \cup {g} : IsPending(items'[h])
      BY <1>0, <2>1, <2>3
    <2> QED
      BY <1>0, <1>1, <2>4
  <1>3. ASSUME NEW g \in Gid, Leave(g) PROVE TurnsInv'
    <2>1. /\ items' \in [DOMAIN items \ {g} -> Item]
          /\ \A h \in DOMAIN items \ {g} : IsPending(items'[h])
      BY <1>0, <1>3 DEF Leave
    <2> QED
      BY <1>0, <1>1, <2>1
  <1>4. ASSUME NEW g \in DOMAIN items, DOMAIN items' = DOMAIN items,
               items' = [h \in DOMAIN items |-> items'[h]],
               \A h \in DOMAIN items \ {g} : items'[h] = items[h],
               items'[g] \in Item, IsPending(items'[g])
        PROVE  TurnsInv'
    <2>1. /\ items' \in [DOMAIN items -> Item]
          /\ \A h \in DOMAIN items : IsPending(items'[h])
      BY <1>0, <1>4
    <2> QED
      BY <1>0, <1>1, <2>1
  <1>5. ASSUME NEW g \in Gid, Begin(g) \/ Pause(g) \/ Resume(g) \/ SetBatch(g) PROVE TurnsInv'
    <2>1. g \in DOMAIN items /\ items[g] \in Item /\ IsPending(items[g])
      BY <1>0, <1>5 DEF Begin, Pause, Resume, SetBatch
    <2>2. CASE Begin(g)
      <3>1. items'[g] \in Item /\ IsPending(items'[g])
        BY <2>1, <2>2 DEF Begin, Item, IsPending, Pending, Unpaused
      <3> QED
        BY <1>4, <2>1, <2>2, <3>1 DEF Begin
    <2>3. CASE Pause(g)
      <3>1. items'[g] \in Item /\ IsPending(items'[g])
        BY <2>1, <2>3 DEF Pause, Item, IsPending, Pending, Unpaused
      <3> QED
        BY <1>4, <2>1, <2>3, <3>1 DEF Pause
    <2>4. CASE Resume(g)
      <3>1. items'[g] \in Item /\ IsPending(items'[g])
        BY <2>1, <2>4 DEF Resume, Item, IsPending, Pending, Unpaused
      <3> QED
        BY <1>4, <2>1, <2>4, <3>1 DEF Resume
    <2>5. CASE SetBatch(g)
      <3>1. items'[g] \in Item /\ IsPending(items'[g])
        BY <2>1, <2>5 DEF SetBatch, Item, IsPending
      <3> QED
        BY <1>4, <2>1, <2>5, <3>1 DEF SetBatch
    <2> QED
      BY <1>5, <2>2, <2>3, <2>4, <2>5
  <1>6. CASE Schedule
    BY <1>6, PassDoes DEF Schedule, After
  <1>7. ASSUME NEW t \in Target, HoldBatch(t) PROVE TurnsInv'
    BY <1>7, HoldDoes DEF HoldBatch
  <1>8. ASSUME NEW t \in Target, StartBatch(t) PROVE TurnsInv'
    BY <1>8, StartDoes DEF StartBatch
  <1>9. CASE UNCHANGED items
    BY <1>9
  <1> QED
    BY <1>2, <1>3, <1>5, <1>6, <1>7, <1>8, <1>9 DEF Next

(***************************************************************************)
(* Type correctness, and that only pending downloads are ever listed.      *)
(***************************************************************************)
THEOREM TurnsInvariant == Spec => []TurnsInv
  BY TurnsInit, TurnsStep, PTL DEF Spec

(* Every reachable listing is one of items, with the types they have.      *)
THEOREM TurnsTypes == Spec => []TypeOK
  <1>1. TurnsInv => TypeOK
    BY DEF TurnsInv, AllPending, TypeOK
  <1> QED
    BY <1>1, TurnsInvariant, PTL

-----------------------------------------------------------------------------
(***************************************************************************)
(* After every pass at most one batch has unpaused downloads.              *)
(***************************************************************************)
THEOREM OneBatchAtATime == Spec => []OneBatchInPlay
  <1>1. TurnsInv => OneBatchInPlay
    BY PassGivesOneTurn DEF TurnsInv, OneBatchInPlay, Scheduled, After
  <1> QED
    BY <1>1, TurnsInvariant, PTL

(***************************************************************************)
(* A second pass in a row never has anything to do.                        *)
(***************************************************************************)
THEOREM PassesSettle == Spec => []PassSettles
  <1>1. TurnsInv => PassSettles
    BY SecondPassIdle DEF TurnsInv, PassSettles, Scheduled, After
  <1> QED
    BY <1>1, TurnsInvariant, PTL

(***************************************************************************)
(* Whenever anything runs or is held, a pass leaves something to run.      *)
(***************************************************************************)
THEOREM TheTurnIsNeverLost == Spec => []TurnIsGiven
  <1>1. TurnsInv => TurnIsGiven
    <2> SUFFICES ASSUME TurnsInv,
                        \E g \in DOMAIN items : items[g].status \in Unpaused \/ HeldPaused(items[g])
                 PROVE  UnpausedBatches(Scheduled) # {}
      BY DEF TurnIsGiven
    <2>1. \E g \in DOMAIN items : After(items)[g].status \in Unpaused
      BY PassKeepsATurn DEF TurnsInv
    <2> QED
      BY <2>1, PassDoes DEF TurnsInv, UnpausedBatches, Scheduled, After
  <1> QED
    BY <1>1, TurnsInvariant, PTL

(***************************************************************************)
(* A batch the user holds stays down through the next pass, and nothing of *)
(* it is left for the scheduler to resume.                                 *)
(***************************************************************************)
THEOREM HeldStaysHeld == Spec => []HeldBatchStaysDown
  <1>1. TurnsInv => HeldBatchStaysDown
    <2> SUFFICES ASSUME TurnsInv, NEW t \in Target
                 PROVE  LET held == CarryOut(items, PlanHoldBatch(items, t))
                        IN  \A g \in DOMAIN After(held) :
                                EffectiveBatch(After(held), g) = t =>
                                    After(held)[g].status = "paused" /\ ~After(held)[g].held
      BY DEF HeldBatchStaysDown, After
    <2> DEFINE held == CarryOut(items, PlanHoldBatch(items, t))
    <2>1. /\ AllPending(held) /\ DOMAIN held = DOMAIN items
          /\ \A g \in DOMAIN items : EffectiveBatch(held, g) = t =>
                 held[g].status = "paused" /\ ~held[g].held
      BY HoldDoes DEF TurnsInv
    <2> HIDE DEF held
    <2>2. /\ DOMAIN After(held) = DOMAIN held
          /\ \A g \in DOMAIN held : EffectiveBatch(After(held), g) = EffectiveBatch(held, g)
      BY <2>1, PassDoes
    <2>3. \A g \in DOMAIN held : EffectiveBatch(held, g) = t => After(held)[g] = held[g]
      BY <2>1, PassLeavesUserPauses
    <2>4. \A g \in DOMAIN After(held) : EffectiveBatch(After(held), g) = t =>
              After(held)[g].status = "paused" /\ ~After(held)[g].held
      BY <2>1, <2>2, <2>3
    <2> QED
      BY <2>4 DEF held
  <1> QED
    BY <1>1, TurnsInvariant, PTL

(***************************************************************************)
(* A batch the user starts runs, all of it and nothing else, through the   *)
(* next pass.                                                              *)
(***************************************************************************)
THEOREM StartedKeepsRunning == Spec => []StartedBatchRuns
  <1>1. TurnsInv => StartedBatchRuns
    <2> SUFFICES ASSUME TurnsInv, NEW t \in Target,
                        \E g \in DOMAIN items : EffectiveBatch(items, g) = t
                 PROVE  LET started == CarryOut(items, PlanStartBatch(items, t))
                        IN  \A g \in DOMAIN After(started) :
                                (After(started)[g].status \in Unpaused)
                                    <=> (EffectiveBatch(After(started), g) = t)
      BY DEF StartedBatchRuns, After
    <2> DEFINE started == CarryOut(items, PlanStartBatch(items, t))
    <2>1. /\ AllPending(started) /\ DOMAIN started = DOMAIN items
          /\ \A g \in DOMAIN items : EffectiveBatch(started, g) = EffectiveBatch(items, g)
          /\ \A g \in DOMAIN items :
                 (started[g].status \in Unpaused) <=> (EffectiveBatch(items, g) = t)
      BY StartDoes DEF TurnsInv
    <2> HIDE DEF started
    <2>2. /\ DOMAIN After(started) = DOMAIN started
          /\ \A g \in DOMAIN started : EffectiveBatch(After(started), g) = EffectiveBatch(started, g)
      BY <2>1, PassDoes
    <2>3. \A g \in DOMAIN started : After(started)[g] = started[g]
      BY <2>1, StartedKeepsTheTurn
    <2>4. \A g \in DOMAIN After(started) :
              (After(started)[g].status \in Unpaused) <=> (EffectiveBatch(After(started), g) = t)
      BY <2>1, <2>2, <2>3
    <2> QED
      BY <2>4 DEF started
  <1> QED
    BY <1>1, TurnsInvariant, PTL

(***************************************************************************)
(* No pass touches a pause that the user made.                             *)
(***************************************************************************)
THEOREM UserPausesAreKept == Spec => []UserPausesUntouched
  <1>1. TurnsInv => UserPausesUntouched
    BY PassLeavesUserPauses DEF TurnsInv, UserPausesUntouched, Scheduled, After
  <1> QED
    BY <1>1, TurnsInvariant, PTL
=============================================================================
