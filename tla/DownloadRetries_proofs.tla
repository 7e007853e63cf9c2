----------------------- MODULE DownloadRetries_proofs -----------------------
(***************************************************************************)
(* Proofs about the history of ended downloads and their retries: what the *)
(* operators on lists return, the type invariant of DownloadRetries, that  *)
(* no end of a download is ever announced twice, and that retries never    *)
(* multiply a download.                                                    *)
(***************************************************************************)
EXTENDS DownloadRetries, SequenceTheorems, FiniteSetTheorems, WellFoundedInduction, TLAPS

(* Every set of numbers that has a member has a least one: induction over    *)
(* the lists of the history is by the shortest list that breaks a claim.     *)
LEMMA LeastNat ==
  ASSUME NEW T \in SUBSET Nat, T # {}
  PROVE  \E m \in T : \A n \in T : m <= n
  <1> DEFINE R == OpToRel(<, Nat)
  <1>1. IsWellFoundedOn(R, Nat)
    BY NatLessThanWellFounded
  <1>2. PICK m \in T : \A n \in T : ~(<<n, m>> \in R)
    BY <1>1, WFMin
  <1>3. \A n \in T : <<n, m>> \in R <=> n < m
    BY DEF OpToRel
  <1>4. \A n \in T : n \in Nat
    OBVIOUS
  <1>5. \A n \in T : ~(n < m)
    BY <1>2, <1>3
  <1> QED
    BY <1>4, <1>5

-----------------------------------------------------------------------------
(***************************************************************************)
(* What ItemsAt picks, by induction over the places it has looked at.      *)
(***************************************************************************)
Grown(items, places, s, n) == IF n \in places THEN Append(s, items[n]) ELSE s
UpTo(items, places, g, N) ==
    g = [n \in 0 .. N |-> IF n = 0 THEN <<>> ELSE Grown(items, places, g[n - 1], n)]
Grows(items, places, g, N) == g[0] = <<>> /\ \A n \in 1 .. N : g[n] = Grown(items, places, g[n - 1], n)

(* The recursive function inside ItemsAt exists. *)
LEMMA UpToExists ==
  ASSUME NEW items, NEW places, NEW N \in Nat
  PROVE  \E g : UpTo(items, places, g, N)
  <1> DEFINE T == {n \in Nat : ~\E g : UpTo(items, places, g, n)}
  <1> SUFFICES ASSUME T # {} PROVE FALSE
    OBVIOUS
  <1>1. PICK m \in T : \A n \in T : m <= n
    BY LeastNat, T \in SUBSET Nat
  <1>m. m \in Nat
    OBVIOUS
  <1>2. m # 0
    <2>1. UpTo(items, places, [n \in 0 .. 0 |-> <<>>], 0)
      BY DEF UpTo
    <2> QED
      BY <2>1
  <1>3. m - 1 \in Nat /\ m - 1 \notin T
    BY <1>1, <1>2
  <1>4. PICK g : UpTo(items, places, g, m - 1)
    BY <1>3
  <1> DEFINE h == [n \in 0 .. m |-> IF n = m THEN Grown(items, places, g[n - 1], n) ELSE g[n]]
  <1>5. \A n \in 0 .. m - 1 : g[n] = IF n = 0 THEN <<>> ELSE Grown(items, places, g[n - 1], n)
    BY <1>4 DEF UpTo
  <1>6. h = [n \in 0 .. m |-> h[n]]
    OBVIOUS
  <1>7. h[m] = Grown(items, places, g[m - 1], m)
    BY <1>m
  <1>8. \A n \in 0 .. m - 1 : h[n] = g[n]
    BY <1>m
  <1> HIDE DEF h
  <1>9. \A n \in 0 .. m : h[n] = IF n = 0 THEN <<>> ELSE Grown(items, places, h[n - 1], n)
    <2> TAKE n \in 0 .. m
    <2>1. CASE n = m
      BY <2>1, <1>7, <1>8, <1>m, <1>2
    <2>2. CASE n # m /\ n # 0
      <3>1. n \in 0 .. m - 1 /\ n - 1 \in 0 .. m - 1
        BY <2>2, <1>m
      <3> QED
        BY <3>1, <2>2, <1>5, <1>8
    <2>3. CASE n # m /\ n = 0
      BY <2>3, <1>5, <1>8, <1>m
    <2> QED
      BY <2>1, <2>2, <2>3
  <1>10. h = [n \in 0 .. m |-> IF n = 0 THEN <<>> ELSE Grown(items, places, h[n - 1], n)]
    BY <1>6, <1>9, Zenon
  <1>11. UpTo(items, places, h, m)
    BY <1>10 DEF UpTo
  <1> QED
    BY <1>1, <1>11

(* ItemsAt is that function's value at the end of the list. *)
LEMMA ItemsAtUnfolds ==
  ASSUME NEW items, NEW places, Len(items) \in Nat
  PROVE  \E g : UpTo(items, places, g, Len(items)) /\ ItemsAt(items, places) = g[Len(items)]
  <1> DEFINE G == CHOOSE g : UpTo(items, places, g, Len(items))
  <1>1. UpTo(items, places, G, Len(items))
    BY UpToExists
  <1>2. ItemsAt(items, places) = G[Len(items)]
    BY Zenon DEF ItemsAt, UpTo, Grown
  <1> QED
    BY <1>1, <1>2

(* r holds the items at those of the first n places that are picked; from    *)
(* says where each of them was.                                              *)
Picks(items, places, n, r, from) ==
    /\ from \in [1 .. Len(r) -> places \cap (1 .. n)]
    /\ \A i \in 1 .. Len(r) : r[i] = items[from[i]]
    /\ \A i, k \in 1 .. Len(r) : i < k => from[i] < from[k]
    /\ \A p \in places \cap (1 .. n) : \E i \in 1 .. Len(r) : from[i] = p
Picked(S, items, places, n, r) == r \in Seq(S) /\ \E from : Picks(items, places, n, r, from)

(* Looking at one more place keeps it so. *)
LEMMA PickedGrows ==
  ASSUME NEW S, NEW items \in Seq(S), NEW places, NEW n \in 1 .. Len(items),
         NEW r, Picked(S, items, places, n - 1, r)
  PROVE  Picked(S, items, places, n, Grown(items, places, r, n))
  <1>1. PICK from : Picks(items, places, n - 1, r, from)
    BY DEF Picked
  <1>2. r \in Seq(S) /\ Len(r) \in Nat /\ n \in Nat
    BY DEF Picked
  <1>3. CASE n \notin places
    <2>1. places \cap (1 .. n) = places \cap (1 .. n - 1)
      BY <1>3
    <2>2. Picks(items, places, n, r, from)
      BY <1>1, <2>1 DEF Picks
    <2> QED
      BY <1>2, <1>3, <2>2 DEF Picked, Grown
  <1>4. CASE n \in places
    <2> DEFINE s == Append(r, items[n])
               m == Len(r) + 1
               to == [i \in 1 .. m |-> IF i = m THEN n ELSE from[i]]
    <2>1. s \in Seq(S) /\ Len(s) = m /\ s[m] = items[n] /\ \A i \in 1 .. Len(r) : s[i] = r[i]
      BY <1>2
    <2>2. \A i \in 1 .. Len(r) : from[i] \in places /\ from[i] \in 1 .. n - 1
      BY <1>1 DEF Picks
    <2>3. to \in [1 .. m -> places \cap (1 .. n)]
      BY <1>2, <1>4, <2>2
    <2>4. to[m] = n /\ \A i \in 1 .. Len(r) : to[i] = from[i]
      BY <1>2
    <2> HIDE DEF to, s
    <2>5. \A i \in 1 .. m : s[i] = items[to[i]]
      BY <1>1, <1>2, <2>1, <2>4 DEF Picks
    <2>6. \A i, k \in 1 .. m : i < k => to[i] < to[k]
      <3> TAKE i, k \in 1 .. m
      <3>1. CASE k = m
        BY <3>1, <1>2, <2>2, <2>4
      <3>2. CASE k # m /\ i < k
        BY <3>2, <1>1, <1>2, <2>4 DEF Picks
      <3> QED
        BY <3>1, <3>2
    <2>7. \A p \in places \cap (1 .. n) : \E i \in 1 .. m : to[i] = p
      <3> TAKE p \in places \cap (1 .. n)
      <3>1. CASE p = n
        BY <3>1, <1>2, <2>4
      <3>2. CASE p # n
        <4>1. p \in places \cap (1 .. n - 1)
          BY <3>2
        <4>2. PICK i \in 1 .. Len(r) : from[i] = p
          BY <4>1, <1>1 DEF Picks
        <4> QED
          BY <4>2, <1>2, <2>4
      <3> QED
        BY <3>1, <3>2
    <2>8. Picks(items, places, n, s, to)
      BY <2>1, <2>3, <2>5, <2>6, <2>7 DEF Picks
    <2> QED
      BY <1>4, <2>1, <2>8 DEF Picked, Grown, s
  <1> QED
    BY <1>3, <1>4

(* So it is at the end of the list. *)
LEMMA ItemsAtPicks ==
  ASSUME NEW S, NEW items \in Seq(S), NEW places \in SUBSET (DOMAIN items)
  PROVE  Picked(S, items, places, Len(items), ItemsAt(items, places))
  <1>1. Len(items) \in Nat
    OBVIOUS
  <1>2. PICK g : UpTo(items, places, g, Len(items)) /\ ItemsAt(items, places) = g[Len(items)]
    BY <1>1, ItemsAtUnfolds
  <1>3. \A n \in 0 .. Len(items) : g[n] = IF n = 0 THEN <<>> ELSE Grown(items, places, g[n - 1], n)
    BY <1>2 DEF UpTo
  <1>4. Picked(S, items, places, 0, <<>>)
    <2>1. Picks(items, places, 0, <<>>, <<>>)
      BY DEF Picks
    <2> QED
      BY <2>1 DEF Picked
  <1> DEFINE T == {n \in 0 .. Len(items) : ~Picked(S, items, places, n, g[n])}
  <1>5. T = {}
    <2> SUFFICES ASSUME T # {} PROVE FALSE
      OBVIOUS
    <2>1. PICK m \in T : \A n \in T : m <= n
      <3>1. T \in SUBSET Nat
        OBVIOUS
      <3> QED
        BY <3>1, LeastNat
    <2>2. m \in 1 .. Len(items)
      BY <1>3, <1>4, <1>1
    <2>3. m - 1 \in 0 .. Len(items) /\ m - 1 \notin T
      BY <2>1, <2>2, <1>1
    <2>4. Picked(S, items, places, m - 1, g[m - 1])
      BY <2>3
    <2>5. Picked(S, items, places, m, Grown(items, places, g[m - 1], m))
      BY <2>2, <2>4, PickedGrows
    <2>6. g[m] = Grown(items, places, g[m - 1], m)
      BY <1>3, <2>2
    <2> QED
      BY <2>5, <2>6
  <1> QED
    BY <1>1, <1>2, <1>5

(* ItemsAt(items, places) is a list of the items at those places, every one  *)
(* of them, in their order: what remove and merge_terminal_events filter.    *)
LEMMA ItemsAtItems ==
  ASSUME NEW S, NEW items \in Seq(S), NEW places \in SUBSET (DOMAIN items)
  PROVE  LET r == ItemsAt(items, places) IN
         /\ r \in Seq(S)
         /\ \A i \in DOMAIN r : \E p \in places : r[i] = items[p]
         /\ \A p \in places : \E i \in DOMAIN r : r[i] = items[p]
         /\ \A i, k \in DOMAIN r : i < k =>
               \E p, q \in places : p < q /\ r[i] = items[p] /\ r[k] = items[q]
  <1> DEFINE r == ItemsAt(items, places)
  <1>1. PICK from : Picks(items, places, Len(items), r, from)
    BY ItemsAtPicks DEF Picked
  <1>2. r \in Seq(S)
    BY ItemsAtPicks DEF Picked
  <1> HIDE DEF r
  <1>3. DOMAIN r = 1 .. Len(r) /\ places \cap (1 .. Len(items)) = places
    BY <1>2
  <1>4. \A i \in DOMAIN r : from[i] \in places /\ r[i] = items[from[i]]
    BY <1>1, <1>3 DEF Picks
  <1>5. \A p \in places : \E i \in DOMAIN r : r[i] = items[p]
    BY <1>1, <1>3, <1>4 DEF Picks
  <1>6. \A i, k \in DOMAIN r : i < k =>
               \E p, q \in places : p < q /\ r[i] = items[p] /\ r[k] = items[q]
    BY <1>1, <1>3, <1>4 DEF Picks
  <1>7. \A i \in DOMAIN r : \E p \in places : r[i] = items[p]
    BY <1>4
  <1> QED
    BY <1>2, <1>5, <1>6, <1>7, Zenon DEF r
(* As a set: the items at those places. *)
LEMMA ItemsAtToSet ==
  ASSUME NEW S, NEW items \in Seq(S), NEW places \in SUBSET (DOMAIN items)
  PROVE  /\ ItemsAt(items, places) \in Seq(S)
         /\ ToSet(ItemsAt(items, places)) = {items[p] : p \in places}
  <1> DEFINE r == ItemsAt(items, places)
  <1>1. /\ r \in Seq(S)
        /\ \A i \in DOMAIN r : \E p \in places : r[i] = items[p]
        /\ \A p \in places : \E i \in DOMAIN r : r[i] = items[p]
    BY ItemsAtItems, Zenon
  <1> HIDE DEF r
  <1>2. \A x : x \in ToSet(r) <=> \E i \in DOMAIN r : x = r[i]
    BY DEF ToSet
  <1>3. \A x : x \in {items[p] : p \in places} <=> \E p \in places : x = items[p]
    OBVIOUS
  <1>4. ToSet(r) = {items[p] : p \in places}
    BY <1>1, <1>2, <1>3
  <1> QED
    BY <1>1, <1>4 DEF r

-----------------------------------------------------------------------------
(***************************************************************************)
(* The operators of src/history.rs, as sets of items.                      *)
(***************************************************************************)
OneEach(items) == \A x, y \in items : x.gid = y.gid => x = y
OneFinalEach(items) ==
    \A x, y \in items : Final(x) /\ Final(y) /\ JobOf(x.gid) = JobOf(y.gid) => x = y

(* remove drops the items of one attempt and nothing else. *)
LEMMA WithoutItems ==
  ASSUME NEW items \in Seq(Result), NEW a
  PROVE  /\ Without(items, a) \in Seq(Result)
         /\ ToSet(Without(items, a)) = {x \in ToSet(items) : x.gid # a}
  <1> DEFINE places == {i \in DOMAIN items : items[i].gid # a}
  <1>1. places \in SUBSET (DOMAIN items)
    OBVIOUS
  <1>2. {items[p] : p \in places} = {x \in ToSet(items) : x.gid # a}
    BY DEF ToSet
  <1> QED
    BY <1>1, <1>2, ItemsAtToSet DEF Without

(* deduplicate keeps one item of an attempt and one end of a job, and every  *)
(* item with neither before it.                                              *)
LEMMA DeduplicateItems ==
  ASSUME NEW items \in Seq(Result)
  PROVE  /\ Deduplicate(items) \in Seq(Result)
         /\ ToSet(Deduplicate(items)) \subseteq ToSet(items)
         /\ OneEach(ToSet(Deduplicate(items)))
         /\ OneFinalEach(ToSet(Deduplicate(items)))
         /\ \A i \in DOMAIN items :
               ~SeenGid(items, i) /\ (Final(items[i]) => ~SeenDownload(items, i))
                   => items[i] \in ToSet(Deduplicate(items))
  <1> DEFINE places == {i \in DOMAIN items : /\ ~SeenGid(items, i)
                                             /\ Final(items[i]) => ~SeenDownload(items, i)}
             r == ItemsAt(items, places)
  <1>0. places \in SUBSET (DOMAIN items)
    OBVIOUS
  <1>1. r \in Seq(Result) /\ ToSet(r) = {items[p] : p \in places}
    <2> HIDE DEF places
    <2> QED
      BY <1>0, ItemsAtToSet
  <1>2. Deduplicate(items) = r
    BY DEF Deduplicate
  <1> HIDE DEF r
  <1>4. \A p, q \in places : items[p].gid = items[q].gid => p = q
    <2>1. ASSUME NEW p \in places, NEW q \in places, items[p].gid = items[q].gid, p < q
          PROVE  FALSE
      BY <2>1 DEF SeenGid
    <2> QED
      BY <2>1
  <1>5. \A p, q \in places :
          Final(items[p]) /\ Final(items[q]) /\ JobOf(items[p].gid) = JobOf(items[q].gid) => p = q
    <2>1. ASSUME NEW p \in places, NEW q \in places, Final(items[p]), Final(items[q]),
                 JobOf(items[p].gid) = JobOf(items[q].gid), p < q
          PROVE  FALSE
      <3>1. p \in 1 .. q - 1
        BY <2>1
      <3> QED
        BY <2>1, <3>1 DEF SeenDownload
    <2> QED
      BY <2>1
  <1>6. OneEach(ToSet(r)) /\ OneFinalEach(ToSet(r))
    <2> HIDE DEF places
    <2> QED
      BY <1>1, <1>4, <1>5 DEF OneEach, OneFinalEach
  <1>7. ToSet(r) \subseteq ToSet(items)
    BY <1>1 DEF ToSet
  <1>8. \A i \in DOMAIN items : i \in places => items[i] \in ToSet(r)
    <2> HIDE DEF places
    <2> QED
      BY <1>1
  <1> QED
    BY <1>1, <1>2, <1>6, <1>7, <1>8

(* The list that merge_terminal_events hands to deduplicate: what is new,    *)
(* latest first, then what is known with the status just reported.           *)
FreshIn(existing, stopped) ==
    ItemsAt(stopped, {i \in DOMAIN stopped : stopped[i].gid \notin GidsOf(existing)})
KnownIn(existing, stopped) == [i \in DOMAIN existing |-> Latest(existing[i], stopped)]
LEMMA MergedList ==
  ASSUME NEW existing \in Seq(Result), NEW stopped \in Seq(Result)
  PROVE  LET fresh == FreshIn(existing, stopped)
             all == Reverse(fresh) \o KnownIn(existing, stopped)
         IN  /\ MergeTerminalEvents(existing, stopped) = Deduplicate(all)
             /\ all \in Seq(Result)
             /\ fresh \in Seq(Result) /\ ToSet(fresh) \subseteq ToSet(stopped)
             /\ \A i \in 1 .. Len(fresh) : all[i] = fresh[(Len(fresh) - i) + 1]
             /\ \A i \in DOMAIN all : i > Len(fresh) =>
                   /\ i - Len(fresh) \in DOMAIN existing
                   /\ all[i] = Latest(existing[i - Len(fresh)], stopped)
             /\ ToSet(all) \subseteq ToSet(existing) \cup ToSet(stopped)
             /\ DOMAIN all = 1 .. Len(fresh) + Len(existing)
  <1> DEFINE fresh == FreshIn(existing, stopped)
             known == KnownIn(existing, stopped)
             back == Reverse(fresh)
             all == back \o known
  <1>1. MergeTerminalEvents(existing, stopped) = Deduplicate(all)
    BY DEF MergeTerminalEvents, FreshIn, KnownIn
  <1>2. fresh \in Seq(Result) /\ ToSet(fresh) \subseteq ToSet(stopped)
    <2> DEFINE places == {i \in DOMAIN stopped : stopped[i].gid \notin GidsOf(existing)}
    <2>1. places \in SUBSET (DOMAIN stopped)
      OBVIOUS
    <2>2. {stopped[p] : p \in places} \subseteq ToSet(stopped)
      BY DEF ToSet
    <2> QED
      BY <2>1, <2>2, ItemsAtToSet DEF FreshIn
  <1> HIDE DEF fresh
  <1>3. /\ back \in Seq(Result) /\ Len(back) = Len(fresh)
        /\ \A i \in 1 .. Len(fresh) : back[i] = fresh[(Len(fresh) - i) + 1]
    BY <1>2 DEF Reverse
  <1>4. \A x \in Result : Latest(x, stopped) \in Result /\ Latest(x, stopped) \in {x} \cup ToSet(stopped)
    <2> TAKE x \in Result
    <2> DEFINE again == {i \in DOMAIN stopped : stopped[i].gid = x.gid}
    <2>1. CASE again = {}
      BY <2>1 DEF Latest
    <2>2. CASE again # {}
      <3>1. PICK i \in DOMAIN stopped : Latest(x, stopped) = stopped[i]
        BY <2>2 DEF Latest
      <3> QED
        BY <3>1 DEF ToSet
    <2> QED
      BY <2>1, <2>2
  <1>5. /\ known \in Seq(Result) /\ Len(known) = Len(existing) /\ DOMAIN existing = 1 .. Len(existing)
        /\ \A i \in DOMAIN existing : known[i] = Latest(existing[i], stopped)
    BY <1>4 DEF KnownIn
  <1> HIDE DEF back, known
  <1>6. /\ all \in Seq(Result) /\ Len(all) = Len(fresh) + Len(existing)
        /\ DOMAIN all = 1 .. Len(fresh) + Len(existing)
        /\ \A i \in 1 .. Len(fresh) : all[i] = back[i]
        /\ \A i \in DOMAIN all : i > Len(fresh) =>
              i - Len(fresh) \in DOMAIN existing /\ all[i] = known[i - Len(fresh)]
    <2>1. Len(fresh) \in Nat /\ Len(existing) \in Nat
      BY <1>2
    <2>2. all \in Seq(Result) /\ Len(all) = Len(back) + Len(known)
      BY <1>3, <1>5, ConcatProperties
    <2>3. DOMAIN all = 1 .. Len(fresh) + Len(existing)
      BY <2>2, <1>3, <1>5
    <2>4. \A i \in 1 .. Len(fresh) : all[i] = back[i]
      BY <1>3, <1>5, <2>1
    <2>5. \A i \in DOMAIN all : i > Len(fresh) =>
              i - Len(fresh) \in DOMAIN existing /\ all[i] = known[i - Len(fresh)]
      BY <1>3, <1>5, <2>1, <2>3
    <2> QED
      BY <1>3, <1>5, <2>2, <2>3, <2>4, <2>5
  <1> HIDE DEF all
  <1>7. ASSUME NEW i \in DOMAIN all
        PROVE  all[i] \in ToSet(existing) \cup ToSet(stopped)
    <2>0. i \in Nat /\ Len(fresh) \in Nat
      BY <1>2, <1>6
    <2>1. CASE i <= Len(fresh)
      <3>1. (Len(fresh) - i) + 1 \in DOMAIN fresh
        BY <2>0, <2>1, <1>2, <1>6
      <3>2. all[i] \in ToSet(fresh)
        BY <2>0, <2>1, <3>1, <1>3, <1>6 DEF ToSet
      <3> QED
        BY <3>2, <1>2
    <2>2. CASE i > Len(fresh)
      <3>1. existing[i - Len(fresh)] \in Result /\ existing[i - Len(fresh)] \in ToSet(existing)
        BY <2>2, <1>6 DEF ToSet
      <3> QED
        BY <2>2, <3>1, <1>4, <1>5, <1>6
    <2> QED
      BY <2>0, <2>1, <2>2
  <1>8. ToSet(all) \subseteq ToSet(existing) \cup ToSet(stopped)
    BY <1>7 DEF ToSet
  <1>9. \A i \in 1 .. Len(fresh) : all[i] = fresh[(Len(fresh) - i) + 1]
    BY <1>3, <1>6
  <1>10. \A i \in DOMAIN all : i > Len(fresh) =>
              /\ i - Len(fresh) \in DOMAIN existing
              /\ all[i] = Latest(existing[i - Len(fresh)], stopped)
    BY <1>5, <1>6
  <1> QED
    BY <1>1, <1>2, <1>6, <1>8, <1>9, <1>10 DEF fresh, back, known, all

(* merge_terminal_events makes up nothing and leaves one item of an attempt  *)
(* and one end of a job.                                                     *)
LEMMA MergeItems ==
  ASSUME NEW existing \in Seq(Result), NEW stopped \in Seq(Result)
  PROVE  LET merged == MergeTerminalEvents(existing, stopped)
         IN  /\ merged \in Seq(Result)
             /\ ToSet(merged) \subseteq ToSet(existing) \cup ToSet(stopped)
             /\ OneEach(ToSet(merged)) /\ OneFinalEach(ToSet(merged))
  <1> DEFINE all == Reverse(FreshIn(existing, stopped)) \o KnownIn(existing, stopped)
  <1>1. /\ MergeTerminalEvents(existing, stopped) = Deduplicate(all)
        /\ all \in Seq(Result) /\ ToSet(all) \subseteq ToSet(existing) \cup ToSet(stopped)
    BY MergedList
  <1> HIDE DEF all
  <1> QED
    BY <1>1, DeduplicateItems

-----------------------------------------------------------------------------
(***************************************************************************)
(* Entries, results and attempts.                                          *)
(***************************************************************************)
Err(a) == [gid |-> a, status |-> "error"]

(* An attempt is a job and a number, which an empty list is not. *)
LEMMA Attempts ==
  ASSUME NEW a \in Attempt
  PROVE  JobOf(a) \in Job /\ a[2] \in 1 .. MaxAttempts /\ a # NoGid
  BY DEF Attempt, NoGid, JobOf

(* A result is of an attempt, and a failure says no more than that. *)
LEMMA Results ==
  /\ \A a \in Attempt : Err(a) \in Result /\ Err(a).gid = a /\ Err(a).status = "error"
  /\ \A e \in Result : e.gid \in Attempt /\ (e.status = "error" => e = Err(e.gid))
  BY DEF Result, Err, Ended

(* The next attempt of a job. *)
LEMMA NextAttempt ==
  ASSUME NEW j \in Job, NEW n \in 1 .. MaxAttempts
  PROVE  <<j, n>> \in Attempt /\ JobOf(<<j, n>>) = j /\ <<j, n>>[2] = n
  BY DEF Attempt, JobOf

(* A job without an entry is told from every entry. *)
LEMMA Entries ==
  /\ NoRetry \notin Retry
  /\ \A r \in Retry : /\ r # NoRetry /\ r.gid \in Attempt /\ r.retries \in 0 .. MaxAttempts
                       /\ r.due \in {"no", "later", "now"} /\ r.daily \in BOOLEAN
  <1>1. \A r \in Retry : /\ r.gid \in Attempt /\ r.retries \in 0 .. MaxAttempts
                         /\ r.due \in {"no", "later", "now"} /\ r.daily \in BOOLEAN
    BY DEF Retry
  <1>2. NoRetry.gid \notin Attempt
    BY DEF Attempt, NoRetry, NoGid
  <1> QED
    BY <1>1, <1>2

(* aria2 remembers one more result, at the price of the oldest. *)
LEMMA KeptItems ==
  ASSUME NEW items \in Seq(Result), NEW x \in Result
  PROVE  /\ Keep(Append(items, x)) \in Seq(Result)
         /\ ToSet(Keep(Append(items, x))) \subseteq ToSet(items) \cup {x}
  <1> DEFINE more == Append(items, x)
  <1>1. /\ more \in Seq(Result) /\ more # <<>> /\ Len(more) = Len(items) + 1
        /\ \A i \in 1 .. Len(items) : more[i] = items[i]
        /\ more[Len(items) + 1] = x
    BY AppendProperties
  <1> HIDE DEF more
  <1>2. /\ Tail(more) \in Seq(Result) /\ Len(Tail(more)) = Len(items)
        /\ \A i \in 1 .. Len(items) : Tail(more)[i] = more[i + 1]
    BY <1>1, HeadTailProperties
  <1>3. ToSet(more) \subseteq ToSet(items) \cup {x}
    <2>1. \A i \in DOMAIN more : more[i] \in ToSet(items) \cup {x}
      BY <1>1 DEF ToSet
    <2> QED
      BY <2>1 DEF ToSet
  <1>4. ToSet(Tail(more)) \subseteq ToSet(more)
    <2>1. \A i \in DOMAIN Tail(more) : i + 1 \in DOMAIN more /\ Tail(more)[i] = more[i + 1]
      BY <1>1, <1>2
    <2> QED
      BY <2>1 DEF ToSet
  <1> QED
    BY <1>1, <1>2, <1>3, <1>4 DEF Keep, more

(* GidsOf, as the results it looks at. *)
LEMMA GidsOfItems ==
  ASSUME NEW items \in Seq(Result)
  PROVE  GidsOf(items) = {e.gid : e \in ToSet(items)} /\ GidsOf(items) \subseteq Attempt
  <1>1. \A i \in DOMAIN items : items[i] \in Result /\ items[i].gid \in Attempt
    BY Results
  <1> QED
    BY <1>1 DEF GidsOf, ToSet

(* WithEnd, as the results it looks for. *)
LEMMA WithEndItems ==
  ASSUME NEW items \in Seq(Result), NEW status
  PROVE  WithEnd(items, status) = {a \in Attempt : [gid |-> a, status |-> status] \in ToSet(items)}
  <1>1. \A i \in DOMAIN items : items[i] \in Result /\ items[i].gid \in Attempt
    BY Results
  <1>2. GidsOf(items) \subseteq Attempt
    BY GidsOfItems
  <1>3. \A a : a \in WithEnd(items, status) <=>
              a \in Attempt /\ [gid |-> a, status |-> status] \in ToSet(items)
    BY <1>1, <1>2 DEF WithEnd, GidsOf, ToSet
  <1> QED
    BY <1>3

(* Nor is there anything in an empty list. *)
LEMMA NoItems == ToSet(<<>>) = {} /\ <<>> \in Seq(Result)
  BY DEF ToSet

(* The items of a list of results are results. *)
LEMMA ToSetIsResults ==
  ASSUME NEW items \in Seq(Result)
  PROVE  ToSet(items) \subseteq Result
  BY DEF ToSet

(* Scheduling gives a date to the entry of an attempt that failed, and leaves *)
(* the other jobs alone.                                                     *)
LEMMA ScheduledEntries ==
  ASSUME NEW entries \in [Job -> Retry \cup {NoRetry}], NEW list \in Seq(Result)
  PROVE  /\ \A a \in Unscheduled(entries, list) :
               /\ a \in Attempt /\ Err(a) \in ToSet(list)
               /\ Entry(entries, a) \in Retry
               /\ Entry(entries, a).gid = a /\ Entry(entries, a).due = "no"
         /\ \A j \in Job :
               \/ /\ Scheduled(entries, list)[j] = entries[j]
                  /\ \A a \in Unscheduled(entries, list) : JobOf(a) # j
               \/ \E a \in Unscheduled(entries, list) :
                     /\ JobOf(a) = j
                     /\ Scheduled(entries, list)[j] =
                          [Entry(entries, a) EXCEPT !.due = "later",
                                                    !.daily = @ \/ BecomesDaily(Entry(entries, a))]
  <1>1. ASSUME NEW a \in Unscheduled(entries, list)
        PROVE  /\ a \in Attempt /\ Err(a) \in ToSet(list)
               /\ Entry(entries, a) \in Retry
               /\ Entry(entries, a).gid = a /\ Entry(entries, a).due = "no"
    <2>1. a \in WithEnd(list, "error") /\ Entry(entries, a).gid = a /\ Entry(entries, a).due = "no"
      BY DEF Unscheduled
    <2>2. a \in Attempt /\ Err(a) \in ToSet(list)
      BY <2>1, WithEndItems DEF Err
    <2>3. JobOf(a) \in Job
      BY <2>2, Attempts
    <2>4. NewRetry(a) \in Retry
      BY <2>2, HistoryAssumption DEF NewRetry, Retry
    <2> QED
      BY <2>1, <2>2, <2>3, <2>4 DEF Entry
  <1>2. ASSUME NEW j \in Job
        PROVE  \/ /\ Scheduled(entries, list)[j] = entries[j]
                  /\ \A a \in Unscheduled(entries, list) : JobOf(a) # j
               \/ \E a \in Unscheduled(entries, list) :
                     /\ JobOf(a) = j
                     /\ Scheduled(entries, list)[j] =
                          [Entry(entries, a) EXCEPT !.due = "later",
                                                    !.daily = @ \/ BecomesDaily(Entry(entries, a))]
    <2> DEFINE failed == {a \in Unscheduled(entries, list) : JobOf(a) = j}
               c == CHOOSE a \in failed : TRUE
    <2>1. CASE failed = {}
      BY <2>1 DEF Scheduled
    <2>2. CASE failed # {}
      <3>1. c \in failed
        BY <2>2
      <3>2. Scheduled(entries, list)[j] =
                [Entry(entries, c) EXCEPT !.due = "later",
                                          !.daily = @ \/ BecomesDaily(Entry(entries, c))]
        BY <2>2 DEF Scheduled
      <3> HIDE DEF c
      <3> QED
        BY <3>1, <3>2
    <2> QED
      BY <2>1, <2>2
  <1> QED
    BY <1>1, <1>2

-----------------------------------------------------------------------------
(***************************************************************************)
(* The type invariant.  Nothing the daemon holds is about an attempt aria2 *)
(* was never given, so an entry's count of retries is bounded because the  *)
(* attempts of its job are; the restarts hooks counts are exits of aria2;  *)
(* what is to be submitted has an entry that is due.                       *)
(***************************************************************************)
Given(a) == a[2] <= used[JobOf(a)]
Shown == ToSet(results) \cup ToSet(history) \cup ToSet(pass.list)
EntryGiven(j, entry) ==
    entry # NoRetry => /\ JobOf(entry.gid) = j /\ Given(entry.gid)
                       /\ entry.retries <= used[j]
OnlyGiven ==
    /\ \A a \in running : Given(a)
    /\ \A e \in Shown \cup hooks.seen : Given(e.gid)
    /\ \A e \in Result : told[e] # 0 => Given(e.gid)
    /\ \A j \in Job : EntryGiven(j, retries[j]) /\ EntryGiven(j, retryFile[j])
RestartsCounted == hooks.restarts <= spent["ariaExit"] /\ hooks.restartsTold <= hooks.restarts
DueEntries ==
    \A j \in pass.todo : pass.pc = "submit" /\ HasRetry(j) /\ retries[j].due = "now"
EntriesInv == RetryTypeOK /\ OnlyGiven /\ RestartsCounted /\ DueEntries

(* Meddling adds one to what is spent of its kind, within the bound. *)
LEMMA Meddled ==
  ASSUME RetryTypeOK, NEW kind \in Meddling, Meddle(kind)
  PROVE  /\ spent' \in [Meddling -> 0 .. MaxMeddling]
         /\ spent'[kind] = spent[kind] + 1
         /\ \A other \in Meddling : other # kind => spent'[other] = spent[other]
  <1>1. spent \in [Meddling -> 0 .. MaxMeddling] /\ MaxMeddling \in Nat
    BY RetryAssumption DEF RetryTypeOK
  <1>2. \A other \in Meddling : spent[other] \in Nat
    BY <1>1
  <1>3. spent[kind] + 1 <= MaxMeddling
    <2>1. MeddlingSoFar + 1 <= MaxMeddling
      <3>1. MeddlingSoFar \in Nat
        BY <1>2 DEF MeddlingSoFar, Meddling
      <3> QED
        BY <3>1, <1>1 DEF Meddle
    <2>2. spent[kind] <= MeddlingSoFar
      BY <1>2 DEF MeddlingSoFar, Meddling
    <2>3. MeddlingSoFar \in Nat
      BY <1>2 DEF MeddlingSoFar, Meddling
    <2> QED
      BY <1>1, <1>2, <2>1, <2>2, <2>3
  <1>4. spent' = [spent EXCEPT ![kind] = @ + 1]
    BY DEF Meddle
  <1> QED
    BY <1>1, <1>2, <1>3, <1>4

(* A job is given one attempt more: what was given before still is. *)
LEMMA GivenStays ==
  ASSUME RetryTypeOK, used' \in [Job -> 0 .. MaxAttempts],
         \A j \in Job : used[j] <= used'[j],
         NEW a \in Attempt, Given(a)
  PROVE  Given(a)'
  <1>1. JobOf(a) \in Job /\ a[2] \in Nat
    BY Attempts, HistoryAssumption
  <1>2. a[2] <= used[JobOf(a)]
    BY DEF Given
  <1>3. used[JobOf(a)] \in Nat /\ used'[JobOf(a)] \in Nat /\ used[JobOf(a)] <= used'[JobOf(a)]
    BY <1>1, HistoryAssumption DEF RetryTypeOK
  <1>4. a[2] <= used'[JobOf(a)]
    BY <1>1, <1>2, <1>3
  <1> QED
    BY <1>4 DEF Given

(* Nor is what was given forgotten by a step that gives nothing. *)
LEMMA OnlyGivenStays ==
  ASSUME EntriesInv, RetryTypeOK', UNCHANGED used,
         running' \subseteq running \cup GidsOf(results), Shown' \subseteq Shown \cup {e \in Result : e.gid \in running},
         hooks.seen' \subseteq hooks.seen \cup Shown,
         \A e \in Result : told'[e] # 0 => told[e] # 0 \/ e \in Shown,
         \A j \in Job : EntryGiven(j, retries'[j]) /\ EntryGiven(j, retryFile'[j])
  PROVE  OnlyGiven'
  <1>1. \A a : Given(a)' <=> Given(a)
    BY DEF Given
  <1>2. \A a \in GidsOf(results) : Given(a)
    <2>1. results \in Seq(Result)
      BY DEF EntriesInv, RetryTypeOK
    <2>2. GidsOf(results) = {e.gid : e \in ToSet(results)}
      BY <2>1, GidsOfItems
    <2> QED
      BY <2>2 DEF EntriesInv, OnlyGiven, Shown
  <1>3. (\A j \in Job : EntryGiven(j, retries[j]) /\ EntryGiven(j, retryFile[j]))'
    BY DEF EntryGiven, Given
  <1>4. (\A a \in running : Given(a))'
    BY <1>1, <1>2 DEF OnlyGiven, EntriesInv
  <1>5. (\A e \in Shown \cup hooks.seen : Given(e.gid))'
    BY <1>1 DEF OnlyGiven, EntriesInv
  <1>6. (\A e \in Result : told[e] # 0 => Given(e.gid))'
    BY <1>1 DEF OnlyGiven, EntriesInv
  <1> QED
    BY <1>3, <1>4, <1>5, <1>6 DEF OnlyGiven

(* A refresh keeps them: scheduling and submitting change entries, submitting *)
(* the counts with them.                                                      *)
LEMMA RefreshKeepsEntries ==
  ASSUME EntriesInv, RetryPass
  PROVE  EntriesInv'
  <1> USE DEF ariaSide
  <1>r. /\ retries \in [Job -> Retry \cup {NoRetry}] /\ pass.list \in Seq(Result)
        /\ used \in [Job -> 0 .. MaxAttempts] /\ MaxAttempts \in Nat \ {0}
        /\ results \in Seq(Result) /\ history \in Seq(Result)
    BY HistoryAssumption DEF EntriesInv, RetryTypeOK
  <1>1. CASE TellStoppedResults
    BY <1>1 DEF TellStoppedResults, NoPass, EntriesInv, RetryTypeOK, OnlyGiven, Shown, RestartsCounted, DueEntries,
                EntryGiven, Given, HasRetry
  <1>2. CASE MergeHistory
    <2>1. /\ MergeTerminalEvents(history, pass.list) \in Seq(Result)
          /\ ToSet(MergeTerminalEvents(history, pass.list)) \subseteq ToSet(history) \cup ToSet(pass.list)
      BY <1>r, MergeItems
    <2> QED
      BY <1>2, <2>1 DEF MergeHistory, EntriesInv, RetryTypeOK, OnlyGiven, Shown, RestartsCounted, DueEntries,
                EntryGiven, Given, HasRetry
  <1>3. CASE ScheduleRetries
    <2> DEFINE remaining == StillWanted(pass.list)
               failed == Unscheduled(remaining, pass.list)
    <2>1. /\ remaining \in [Job -> Retry \cup {NoRetry}]
          /\ \A j \in Job : remaining[j] \in {NoRetry, retries[j]}
      BY <1>r DEF StillWanted
    <2>2. \A j \in Job : EntryGiven(j, remaining[j])
      BY <2>1 DEF EntriesInv, OnlyGiven, EntryGiven
    <2>s. /\ retries' = Scheduled(remaining, pass.list)
          /\ hooks' = [hooks EXCEPT !.daily = @ \cup {a \in failed : BecomesDaily(Entry(remaining, a))}]
          /\ pass' = [pass EXCEPT !.pc = "submit", !.todo = {j \in Job : retries'[j] # NoRetry
                                                                /\ retries'[j].due = "now"}]
          /\ UNCHANGED <<running, results, used, added, history, retryFile, told, removal, spent>>
      BY <1>3 DEF ScheduleRetries
    <2> HIDE DEF remaining
    <2>3. /\ \A a \in failed : /\ a \in Attempt /\ Err(a) \in ToSet(pass.list)
                               /\ Entry(remaining, a) \in Retry
                               /\ Entry(remaining, a).gid = a /\ Entry(remaining, a).due = "no"
          /\ \A j \in Job :
               \/ /\ Scheduled(remaining, pass.list)[j] = remaining[j]
                  /\ \A a \in failed : JobOf(a) # j
               \/ \E a \in failed :
                     /\ JobOf(a) = j
                     /\ Scheduled(remaining, pass.list)[j] =
                          [Entry(remaining, a) EXCEPT !.due = "later",
                                                      !.daily = @ \/ BecomesDaily(Entry(remaining, a))]
      BY <2>1, <1>r, ScheduledEntries
    <2> HIDE DEF failed
    <2>4. ASSUME NEW j \in Job
          PROVE  retries'[j] \in Retry \cup {NoRetry} /\ EntryGiven(j, retries'[j])
      <3>1. CASE retries'[j] = remaining[j]
        BY <3>1, <2>1, <2>2
      <3>2. ASSUME NEW a \in failed, JobOf(a) = j,
                   retries'[j] = [Entry(remaining, a) EXCEPT !.due = "later",
                                    !.daily = @ \/ BecomesDaily(Entry(remaining, a))]
            PROVE  retries'[j] \in Retry \cup {NoRetry} /\ EntryGiven(j, retries'[j])
        <4> DEFINE e == Entry(remaining, a)
        <4>1. e \in Retry /\ e.gid = a /\ a \in Attempt /\ Err(a) \in ToSet(pass.list)
          BY <2>3
        <4>2. Given(a)
          BY <4>1, Results DEF EntriesInv, OnlyGiven, Shown
        <4>3. e.retries \in Nat /\ e.retries <= used[j]
          <5>1. CASE remaining[j] = NoRetry
            BY <5>1, <3>2, <1>r DEF Entry, NewRetry
          <5>2. CASE remaining[j] # NoRetry
            BY <5>2, <3>2, <4>1, <2>2, Entries DEF Entry, EntryGiven
          <5> QED
            BY <5>1, <5>2
        <4> HIDE DEF e
        <4>4. /\ retries'[j] \in Retry /\ retries'[j].gid = a /\ retries'[j].retries = e.retries
          BY <4>1, <3>2 DEF Retry, BecomesDaily, e
        <4> QED
          BY <4>2, <4>3, <4>4, <3>2 DEF EntryGiven
      <3> QED
        BY <2>3, <2>s, <3>1, <3>2
    <2>5. retries' \in [Job -> Retry \cup {NoRetry}]
      <3>1. retries' = [j \in Job |-> retries'[j]]
        BY <2>s DEF Scheduled
      <3> QED
        BY <3>1, <2>4
    <2>6. RetryTypeOK'
      BY <2>s, <2>3, <2>5 DEF EntriesInv, RetryTypeOK
    <2>7. OnlyGiven'
      <3>1. Shown' = Shown
        BY <2>s DEF Shown, EntriesInv, RetryTypeOK
      <3> QED
        BY <3>1, <2>s, <2>4, <2>6, OnlyGivenStays DEF EntriesInv, RetryTypeOK, OnlyGiven
    <2>8. DueEntries' /\ RestartsCounted'
      BY <2>s DEF EntriesInv, RetryTypeOK, DueEntries, RestartsCounted, HasRetry
    <2> QED
      BY <2>6, <2>7, <2>8 DEF EntriesInv
  <1>4. ASSUME NEW j \in Job, SubmitRetry(j) \/ SubmitUnanswered(j)
        PROVE  EntriesInv'
    <2>n. PICK n : n = used[j] + 1
      OBVIOUS
    <2>a. PICK a : a = <<j, n>>
      OBVIOUS
    <2>1. /\ pass.pc = "submit" /\ j \in pass.todo /\ used[j] < MaxAttempts
          /\ running' = running \cup {a}
          /\ used' = [used EXCEPT ![j] = @ + 1]
          /\ results' = Without(results, retries[j].gid) \/ results' = results
          /\ spent' = spent \/ Meddle("leftover") \/ Meddle("lost")
          /\ pass' = [pass EXCEPT !.todo = @ \ {j}]
          /\ UNCHANGED <<history, retryFile, hooks, told, removal, added>>
      <3>1. CASE SubmitRetry(j)
        BY <3>1, <2>n, <2>a DEF SubmitRetry
      <3>2. CASE SubmitUnanswered(j)
        <4>1. used'[j] = n
          BY <3>2, <1>r, <2>n DEF SubmitUnanswered
        <4> QED
          BY <3>2, <4>1, <2>n, <2>a DEF SubmitUnanswered
      <3> QED
        BY <1>4, <3>1, <3>2
    <2>e. PICK e : /\ e = Submitted(retries[j], a) \/ e = [retries[j] EXCEPT !.due = "later"]
                   /\ retries' = [retries EXCEPT ![j] = e]
      BY <1>4, <2>n, <2>a DEF SubmitRetry, SubmitUnanswered
    <2>2. /\ used[j] \in Nat /\ n \in 1 .. MaxAttempts /\ used' \in [Job -> 0 .. MaxAttempts]
          /\ used'[j] = n /\ \A i \in Job : used[i] <= used'[i]
      BY <1>r, <2>1, <2>n
    <2>3. a \in Attempt /\ JobOf(a) = j /\ a[2] = n
      BY <2>2, <2>a, NextAttempt
    <2>4. retries[j] \in Retry /\ retries[j].due = "now" /\ retries[j].retries <= used[j]
      BY <2>1, <1>r DEF EntriesInv, DueEntries, HasRetry, OnlyGiven, EntryGiven
    <2>5. /\ e \in Retry /\ e.gid \in {a, retries[j].gid}
          /\ e.retries \in {retries[j].retries, retries[j].retries + 1}
      <3>1. retries[j].retries + 1 \in 0 .. MaxAttempts
        <4>1. retries[j].retries \in Nat
          BY <2>4, Entries
        <4> QED
          BY <4>1, <1>r, <2>1, <2>2, <2>4
      <3> QED
        BY <2>3, <2>4, <2>e, <3>1 DEF Submitted, Retry
    <2>6. results' \in Seq(Result) /\ ToSet(results') \subseteq ToSet(results)
      BY <1>r, <2>1, WithoutItems
    <2>7. /\ spent' \in [Meddling -> 0 .. MaxMeddling]
          /\ spent'["ariaExit"] = spent["ariaExit"]
      <3>1. CASE spent' = spent
        BY <3>1 DEF EntriesInv, RetryTypeOK
      <3>2. CASE Meddle("leftover")
        BY <3>2, Meddled DEF EntriesInv, Meddling
      <3>3. CASE Meddle("lost")
        BY <3>3, Meddled DEF EntriesInv, Meddling
      <3> QED
        BY <2>1, <3>1, <3>2, <3>3
    <2>8. RetryTypeOK'
      BY <2>1, <2>e, <2>2, <2>3, <2>5, <2>6, <2>7 DEF EntriesInv, RetryTypeOK
    <2>9. \A b \in Attempt : Given(b) => Given(b)'
      BY <2>2, GivenStays DEF EntriesInv
    <2>10. Given(a)'
      BY <2>2, <2>3 DEF Given
    <2>11. OnlyGiven'
      <3>1. \A b \in running' : Given(b)'
        BY <2>1, <2>9, <2>10, Zenon DEF EntriesInv, RetryTypeOK, OnlyGiven
      <3>2. (\A x \in Shown \cup hooks.seen : Given(x.gid))'
        <4>1. Shown' \subseteq Shown /\ hooks'.seen = hooks.seen
          BY <2>1, <2>6 DEF Shown, EntriesInv, RetryTypeOK
        <4>2. Shown \cup hooks.seen \subseteq Result
          BY <1>r, ToSetIsResults DEF Shown, EntriesInv, RetryTypeOK
        <4> QED
          BY <4>1, <4>2, <2>9, Results DEF EntriesInv, OnlyGiven
      <3>3. (\A x \in Result : told[x] # 0 => Given(x.gid))'
        BY <2>1, <2>9, Results DEF EntriesInv, OnlyGiven
      <3>4. ASSUME NEW i \in Job
            PROVE  EntryGiven(i, retryFile[i])' /\ (i # j => EntryGiven(i, retries[i])')
        <4>1. /\ retryFile[i] # NoRetry => retryFile[i].gid \in Attempt /\ retryFile[i].retries \in Nat
              /\ retries[i] # NoRetry => retries[i].gid \in Attempt /\ retries[i].retries \in Nat
          BY Entries DEF EntriesInv, RetryTypeOK
        <4>2. EntryGiven(i, retryFile[i]) /\ EntryGiven(i, retries[i])
          BY DEF EntriesInv, OnlyGiven
        <4>3. i # j => retries'[i] = retries[i]
          BY <2>e, <1>r
        <4>4. used[i] <= used'[i] /\ used[i] \in Nat /\ used'[i] \in Nat
          BY <2>2, <1>r
        <4>5. EntryGiven(i, retryFile[i])'
          BY <2>1, <2>9, <4>1, <4>2, <4>4 DEF EntryGiven
        <4>6. i # j => EntryGiven(i, retries[i])'
          BY <2>9, <4>1, <4>2, <4>3, <4>4 DEF EntryGiven
        <4> QED
          BY <4>5, <4>6
      <3>5. EntryGiven(j, retries[j])'
        <4>1. retries'[j] = e
          BY <2>e, <1>r
        <4>g. PICK g : g = retries[j].gid
          OBVIOUS
        <4>2. g \in Attempt /\ retries[j].retries \in Nat /\ retries[j] # NoRetry
          BY <2>4, <4>g, Entries
        <4>3. JobOf(g) = j /\ Given(g)
          BY <4>2, <4>g DEF EntriesInv, OnlyGiven, EntryGiven
        <4>4. Given(g)'
          BY <2>9, <4>2, <4>3
        <4>5. e.gid = a \/ e.gid = g
          BY <2>5, <4>g
        <4>6. JobOf(e.gid) = j /\ Given(e.gid)'
          BY <4>3, <4>4, <4>5, <2>3, <2>10
        <4>7. e.retries <= used'[j]
          BY <4>2, <2>n, <2>2, <2>4, <2>5
        <4> QED
          BY <4>1, <4>6, <4>7 DEF EntryGiven
      <3> QED
        BY <3>1, <3>2, <3>3, <3>4, <3>5 DEF OnlyGiven
    <2>12. DueEntries' /\ RestartsCounted'
      BY <2>1, <2>e, <2>7, <1>r DEF EntriesInv, RetryTypeOK, DueEntries, RestartsCounted, HasRetry
    <2> QED
      BY <2>8, <2>11, <2>12 DEF EntriesInv
  <1>5. ASSUME NEW j \in Job, SubmitRefused(j)
        PROVE  EntriesInv'
    <2>1. retries[j] \in Retry /\ [retries[j] EXCEPT !.due = "later"] \in Retry
      <3>1. retries[j] \in Retry
        BY <1>5, <1>r DEF SubmitRefused, EntriesInv, DueEntries, HasRetry
      <3> QED
        BY <3>1 DEF Retry
    <2>2. spent' \in [Meddling -> 0 .. MaxMeddling] /\ spent'["ariaExit"] = spent["ariaExit"]
      BY <1>5, Meddled DEF SubmitRefused, EntriesInv, Meddling
    <2>3. /\ retries' = [retries EXCEPT ![j].due = "later"]
          /\ pass' = [pass EXCEPT !.todo = @ \ {j}]
          /\ UNCHANGED <<ariaSide, history, retryFile, hooks, told, removal>>
      BY <1>5 DEF SubmitRefused
    <2>4. RetryTypeOK'
      BY <1>r, <2>1, <2>2, <2>3 DEF EntriesInv, RetryTypeOK
    <2>5. \A i \in Job : EntryGiven(i, retries'[i])
      BY <1>r, <2>1, <2>3, Entries DEF EntriesInv, OnlyGiven, EntryGiven, Retry
    <2>6. OnlyGiven'
      <3>1. Shown' = Shown
        BY <2>3 DEF Shown, EntriesInv, RetryTypeOK
      <3> QED
        BY <3>1, <2>3, <2>4, <2>5, OnlyGivenStays DEF EntriesInv, OnlyGiven
    <2> QED
      BY <1>r, <2>2, <2>3, <2>4, <2>6 DEF EntriesInv, RetryTypeOK, DueEntries, RestartsCounted, HasRetry
  <1>6. CASE SaveRetries
    BY <1>6 DEF SaveRetries, EntriesInv, RetryTypeOK, OnlyGiven, Shown, RestartsCounted, DueEntries,
                EntryGiven, Given, HasRetry
  <1>7. CASE AnnounceOff
    <2>1. /\ hooks' = [hooks EXCEPT !.daily = {}] /\ pass' = NoPass
          /\ UNCHANGED <<ariaSide, history, retries, retryFile, told, removal, spent>>
      BY <1>7 DEF AnnounceOff
    <2>2. RetryTypeOK'
      <3>1. hooks' \in [enabled : BOOLEAN, initialized : BOOLEAN, seen : SUBSET Result,
                  daily : SUBSET Attempt, restarts : 0 .. MaxMeddling, restartsTold : 0 .. MaxMeddling]
        BY <2>1 DEF EntriesInv, RetryTypeOK
      <3>2. /\ pass' = NoPass
            /\ UNCHANGED <<ariaSide, history, retries, retryFile, told, removal, spent>>
        BY <2>1
      <3> QED
        BY <3>1, <3>2 DEF EntriesInv, RetryTypeOK, NoPass
    <2>3. Shown' \subseteq Shown
      BY <2>1 DEF Shown, NoPass, ToSet
    <2>4. OnlyGiven'
      BY <2>1, <2>2, <2>3, OnlyGivenStays DEF EntriesInv, RetryTypeOK, OnlyGiven
    <2> QED
      BY <2>1, <2>2, <2>4 DEF EntriesInv, RetryTypeOK, DueEntries, RestartsCounted, NoPass
  <1>8. CASE Announce
    <2>1. /\ Known(hooks, pass.list) \subseteq hooks.seen \cup ToSet(pass.list)
          /\ News(hooks, pass.list) \subseteq ToSet(pass.list)
          /\ ToSet(pass.list) \subseteq Result
      BY <1>r, ToSetIsResults DEF Known, News
    <2>2. /\ told' \in [Result -> Nat]
          /\ \A e \in Result : told'[e] # 0 => told[e] # 0 \/ e \in ToSet(pass.list)
      BY <1>8, <2>1 DEF Announce, EntriesInv, RetryTypeOK
    <2>3. /\ hooks'.seen = Known(hooks, pass.list) \cup News(hooks, pass.list)
          /\ hooks'.restarts = hooks.restarts /\ hooks'.restartsTold = hooks.restarts
          /\ pass' = NoPass
          /\ UNCHANGED <<ariaSide, history, retries, retryFile, removal, spent>>
      BY <1>8 DEF Announce, EntriesInv, RetryTypeOK
    <2>4. RetryTypeOK'
      <3>1. hooks' = [hooks EXCEPT !.initialized = TRUE, !.daily = {}, !.restartsTold = hooks.restarts,
                         !.seen = Known(hooks, pass.list) \cup News(hooks, pass.list)]
        BY <1>8 DEF Announce
      <3>2. Known(hooks, pass.list) \cup News(hooks, pass.list) \in SUBSET Result
        BY <2>1 DEF EntriesInv, RetryTypeOK
      <3>3. hooks' \in [enabled : BOOLEAN, initialized : BOOLEAN, seen : SUBSET Result,
                  daily : SUBSET Attempt, restarts : 0 .. MaxMeddling, restartsTold : 0 .. MaxMeddling]
        <4> DEFINE all == Known(hooks, pass.list) \cup News(hooks, pass.list)
        <4> HIDE DEF all
        <4> QED
          BY <3>1, <3>2 DEF EntriesInv, RetryTypeOK, all
      <3> QED
        BY <2>2, <2>3, <3>3 DEF EntriesInv, RetryTypeOK, NoPass
    <2>5. Shown' \subseteq Shown
      BY <2>3 DEF Shown, NoPass, ToSet
    <2>6. OnlyGiven'
      BY <2>1, <2>2, <2>3, <2>4, <2>5, OnlyGivenStays DEF EntriesInv, OnlyGiven, Shown
    <2> QED
      BY <2>3, <2>4, <2>6 DEF EntriesInv, RetryTypeOK, DueEntries, RestartsCounted, NoPass
  <1> QED
    BY <1>1, <1>2, <1>3, <1>4, <1>5, <1>6, <1>7, <1>8 DEF RetryPass

(* An attempt that ends leaves one result, and aria2 may drop another. *)
LEMMA EndItems ==
  ASSUME RetryTypeOK, NEW a \in Attempt, NEW status \in Ended, End(a, status)
  PROVE  LET x == [gid |-> a, status |-> status]
         IN  /\ x \in Result /\ x.gid = a /\ x.status = status
             /\ results' \in Seq(Result) /\ ToSet(results') \subseteq ToSet(results) \cup {x}
             /\ running' = running \ {a} /\ UNCHANGED <<used, added>>
  BY KeptItems DEF End, RetryTypeOK, Result

(* What a new aria2 process begins with had not ended, or had failed. *)
LEMMA ReloadItems ==
  ASSUME RetryTypeOK, Reload
  PROVE  /\ \A a \in running' : a \in running \/ (a \in Attempt /\ Err(a) \in ToSet(results))
         /\ running' \subseteq running \cup GidsOf(results) /\ running' \subseteq Attempt
         /\ results' = <<>> /\ ToSet(results') = {} /\ UNCHANGED <<used, added>>
  <1>1. results \in Seq(Result) /\ running \subseteq Attempt
    BY DEF RetryTypeOK
  <1>2. WithEnd(results, "error") = {a \in Attempt : Err(a) \in ToSet(results)}
    BY <1>1, WithEndItems DEF Err
  <1>3. WithEnd(results, "error") \subseteq GidsOf(results)
    BY DEF WithEnd
  <1>4. /\ running' \subseteq running \cup WithEnd(results, "error")
        /\ results' = <<>> /\ UNCHANGED <<used, added>>
    BY DEF Reload
  <1>5. ToSet(results') = {}
    BY <1>4 DEF ToSet
  <1> QED
    BY <1>1, <1>2, <1>3, <1>4, <1>5

(* So do users and time, and exits of either process. *)
LEMMA OthersKeepEntries ==
  ASSUME EntriesInv, [RetryNext]_retryVars, ~RetryPass
  PROVE  EntriesInv'
  <1> USE DEF ariaSide, daemonSide
  <1>r. /\ retries \in [Job -> Retry \cup {NoRetry}] /\ retryFile \in [Job -> Retry \cup {NoRetry}]
        /\ used \in [Job -> 0 .. MaxAttempts] /\ MaxAttempts \in Nat \ {0}
        /\ results \in Seq(Result) /\ history \in Seq(Result) /\ running \subseteq Attempt
        /\ RetryTypeOK
    BY HistoryAssumption DEF EntriesInv, RetryTypeOK
  <1>s. ToSet(<<>>) = {} /\ <<>> \in Seq(Result)
    BY NoItems
  <1>0. CASE UNCHANGED retryVars
    BY <1>0 DEF retryVars, EntriesInv, RetryTypeOK, OnlyGiven, Shown, RestartsCounted, DueEntries,
                EntryGiven, Given, HasRetry
  <1>1. ASSUME NEW j \in Job, Add(j)
        PROVE  EntriesInv'
    <2>n. PICK n : n = used[j] + 1
      OBVIOUS
    <2>a. PICK a : a = <<j, n>>
      OBVIOUS
    <2>1. /\ used' = [used EXCEPT ![j] = @ + 1] /\ used[j] < MaxAttempts
          /\ added' = [added EXCEPT ![j] = @ + 1] /\ added[j] < MaxAdds
          /\ running' = running \cup {a}
          /\ UNCHANGED <<results, daemonSide, removal, spent>>
      BY <1>1, <1>r, <2>n, <2>a DEF Add
    <2>2. /\ used[j] \in Nat /\ n \in 1 .. MaxAttempts /\ used' \in [Job -> 0 .. MaxAttempts]
          /\ used'[j] = n /\ \A i \in Job : used[i] <= used'[i]
      BY <1>r, <2>1, <2>n
    <2>3. a \in Attempt /\ JobOf(a) = j /\ a[2] = n
      BY <2>2, <2>a, NextAttempt
    <2>4. added' \in [Job -> 0 .. MaxAdds]
      BY <2>1, RetryAssumption DEF EntriesInv, RetryTypeOK
    <2>5. RetryTypeOK'
      BY <1>r, <2>1, <2>2, <2>3, <2>4 DEF RetryTypeOK
    <2>9. \A b \in Attempt : Given(b) => Given(b)'
      BY <2>2, GivenStays DEF EntriesInv
    <2>10. Given(a)'
      BY <2>2, <2>3 DEF Given
    <2>11. OnlyGiven'
      <3>1. \A b \in running' : Given(b)'
        BY <1>r, <2>1, <2>9, <2>10, Zenon DEF EntriesInv, OnlyGiven
      <3>2. (\A e \in Shown \cup hooks.seen : Given(e.gid))'
        <4>1. Shown' = Shown /\ hooks' = hooks
          BY <2>1 DEF Shown
        <4>2. Shown \cup hooks.seen \subseteq Result
          BY <1>r, ToSetIsResults DEF Shown, RetryTypeOK
        <4> QED
          BY <4>1, <4>2, <2>9, Results DEF EntriesInv, OnlyGiven
      <3>3. (\A e \in Result : told[e] # 0 => Given(e.gid))'
        BY <2>1, <2>9, Results DEF EntriesInv, OnlyGiven
      <3>4. ASSUME NEW i \in Job
            PROVE  EntryGiven(i, retryFile[i])' /\ EntryGiven(i, retries[i])'
        <4>1. /\ retryFile[i] # NoRetry => retryFile[i].gid \in Attempt /\ retryFile[i].retries \in Nat
              /\ retries[i] # NoRetry => retries[i].gid \in Attempt /\ retries[i].retries \in Nat
          BY <1>r, Entries
        <4>2. EntryGiven(i, retryFile[i]) /\ EntryGiven(i, retries[i])
          BY DEF EntriesInv, OnlyGiven
        <4>3. used[i] <= used'[i] /\ used[i] \in Nat /\ used'[i] \in Nat
          BY <2>2, <1>r
        <4>4. EntryGiven(i, retryFile[i])'
          BY <2>1, <2>9, <4>1, <4>2, <4>3 DEF EntryGiven
        <4>5. EntryGiven(i, retries[i])'
          BY <2>1, <2>9, <4>1, <4>2, <4>3 DEF EntryGiven
        <4> QED
          BY <4>4, <4>5
      <3> QED
        BY <3>1, <3>2, <3>3, <3>4 DEF OnlyGiven
    <2> QED
      BY <2>1, <2>5, <2>11 DEF EntriesInv, DueEntries, RestartsCounted, HasRetry
  <1>2. ASSUME NEW j \in Job, ComesDue(j)
        PROVE  EntriesInv'
    <2>1. /\ retries[j] \in Retry /\ retries[j].due = "later"
          /\ retries' = [retries EXCEPT ![j].due = "now"]
          /\ retryFile' = retryFile \/ (retryFile[j] \in Retry /\ retryFile' = [retryFile EXCEPT ![j].due = "now"])
          /\ UNCHANGED <<ariaSide, history, pass, hooks, told, removal, spent>>
      BY <1>2, <1>r DEF ComesDue, HasRetry
    <2>2. ASSUME NEW r \in Retry
          PROVE  /\ [r EXCEPT !.due = "now"] \in Retry
                 /\ [r EXCEPT !.due = "now"].gid = r.gid
                 /\ [r EXCEPT !.due = "now"].retries = r.retries
      BY DEF Retry
    <2>3. /\ retries' \in [Job -> Retry \cup {NoRetry}]
          /\ retryFile' \in [Job -> Retry \cup {NoRetry}]
      BY <1>r, <2>1, <2>2
    <2>4. RetryTypeOK'
      BY <1>r, <2>1, <2>3 DEF RetryTypeOK
    <2>5. \A i \in Job : EntryGiven(i, retries'[i]) /\ EntryGiven(i, retryFile'[i])
      <3> TAKE i \in Job
      <3>1. EntryGiven(i, retries[i]) /\ EntryGiven(i, retryFile[i])
        BY DEF EntriesInv, OnlyGiven
      <3>2. retries'[i] = retries[i] \/ (retries[i] \in Retry /\ retries'[i] = [retries[i] EXCEPT !.due = "now"])
        BY <1>r, <2>1
      <3>3. \/ retryFile'[i] = retryFile[i]
            \/ retryFile[i] \in Retry /\ retryFile'[i] = [retryFile[i] EXCEPT !.due = "now"]
        BY <1>r, <2>1
      <3>4. EntryGiven(i, retries'[i])
        BY <3>1, <3>2, <2>2, Entries DEF EntryGiven
      <3>5. EntryGiven(i, retryFile'[i])
        BY <3>1, <3>3, <2>2, Entries DEF EntryGiven
      <3> QED
        BY <3>4, <3>5
    <2>6. OnlyGiven'
      <3>1. Shown' = Shown
        BY <2>1 DEF Shown
      <3> QED
        BY <3>1, <2>1, <2>4, <2>5, OnlyGivenStays DEF EntriesInv, OnlyGiven
    <2>7. DueEntries'
      BY <1>r, <2>1 DEF EntriesInv, DueEntries, HasRetry, RetryTypeOK
    <2> QED
      BY <2>1, <2>4, <2>6, <2>7 DEF EntriesInv, RestartsCounted
  <1>3. ASSUME NEW a \in Attempt, AttemptEnds(a) \/ CancelDownload(a)
        PROVE  EntriesInv'
    <2>1. PICK status \in Ended : End(a, status)
      BY <1>3 DEF AttemptEnds, CancelDownload, Ended
    <2>2. /\ a \in running /\ UNCHANGED daemonSide
          /\ UNCHANGED spent \/ Meddle("cancel")
          /\ removal' \in {removal, [op |-> "cancel", pc |-> "forget", gid |-> a]}
      BY <1>3 DEF AttemptEnds, CancelDownload, NewRemoval
    <2>3. spent' \in [Meddling -> 0 .. MaxMeddling] /\ spent'["ariaExit"] = spent["ariaExit"]
      BY <1>r, <2>2, Meddled DEF RetryTypeOK, Meddling
    <2>4. PICK x \in Result : /\ x.gid = a
                              /\ results' \in Seq(Result) /\ ToSet(results') \subseteq ToSet(results) \cup {x}
                              /\ running' = running \ {a} /\ UNCHANGED <<used, added>>
      BY <1>r, <2>1, EndItems
    <2>5. RetryTypeOK'
      BY <1>r, <2>2, <2>3, <2>4 DEF RetryTypeOK
    <2>6. OnlyGiven'
      <3>1. Shown' \subseteq Shown \cup {e \in Result : e.gid \in running}
        BY <2>2, <2>4 DEF Shown
      <3> QED
        BY <3>1, <2>2, <2>4, <2>5, OnlyGivenStays DEF EntriesInv, OnlyGiven
    <2> QED
      BY <2>2, <2>3, <2>5, <2>6 DEF EntriesInv, DueEntries, RestartsCounted, HasRetry
  <1>4. ASSUME PurgeEntries \/ \E a \in Attempt : RemoveEntry(a)
        PROVE  EntriesInv'
    <2>1. \/ history' = <<>> \/ \E a \in Attempt : history' = Without(history, a)
      BY <1>4 DEF PurgeEntries, RemoveEntry
    <2>2. /\ UNCHANGED <<ariaSide, retries, retryFile, pass, hooks, told>>
          /\ Meddle("erasure")
          /\ removal' \in [op : {"none", "cancel", "remove", "purge"}, pc : {"idle", "result", "forget"},
                           gid : Attempt \cup {NoGid}]
      BY <1>4 DEF PurgeEntries, RemoveEntry, NewRemoval
    <2>3. history' \in Seq(Result) /\ ToSet(history') \subseteq ToSet(history)
      <3>1. \A a : /\ Without(history, a) \in Seq(Result)
                   /\ ToSet(Without(history, a)) \subseteq ToSet(history)
        BY <1>r, WithoutItems
      <3> QED
        BY <1>s, <2>1, <3>1
    <2>4. spent' \in [Meddling -> 0 .. MaxMeddling] /\ spent'["ariaExit"] = spent["ariaExit"]
      BY <1>r, <2>2, Meddled DEF Meddling
    <2>5. RetryTypeOK'
      BY <1>r, <2>2, <2>3, <2>4 DEF RetryTypeOK
    <2>6. OnlyGiven'
      <3>1. Shown' \subseteq Shown
        BY <2>2, <2>3 DEF Shown
      <3> QED
        BY <3>1, <2>2, <2>5, OnlyGivenStays DEF EntriesInv, OnlyGiven
    <2> QED
      BY <2>2, <2>4, <2>5, <2>6 DEF EntriesInv, DueEntries, RestartsCounted, HasRetry
  <1>5. CASE DropResults
    <2>1. /\ results' = <<>> \/ results' = Without(results, removal.gid)
          /\ removal' = [removal EXCEPT !.pc = "forget"]
          /\ UNCHANGED <<running, used, added, daemonSide, spent>>
      BY <1>5 DEF DropResults
    <2>2. results' \in Seq(Result) /\ ToSet(results') \subseteq ToSet(results)
      <3>1. \A a : /\ Without(results, a) \in Seq(Result)
                   /\ ToSet(Without(results, a)) \subseteq ToSet(results)
        BY <1>r, WithoutItems
      <3> QED
        BY <1>s, <2>1, <3>1
    <2>3. RetryTypeOK'
      BY <1>r, <2>1, <2>2 DEF RetryTypeOK
    <2>4. OnlyGiven'
      <3>1. Shown' \subseteq Shown
        BY <2>1, <2>2 DEF Shown
      <3> QED
        BY <3>1, <2>1, <2>3, OnlyGivenStays DEF EntriesInv, OnlyGiven
    <2> QED
      BY <2>1, <2>3, <2>4 DEF EntriesInv, DueEntries, RestartsCounted, HasRetry
  <1>6. CASE ForgetRetry
    <2>1. /\ pass.pc # "submit" /\ retries' = Forgotten(retries, removal.gid)
          /\ retryFile' = retryFile \/ retryFile' = retries'
          /\ removal' = NoRemoval
          /\ UNCHANGED <<ariaSide, history, pass, hooks, told, spent>>
      BY <1>6 DEF ForgetRetry
    <2>2. retries' \in [Job -> Retry \cup {NoRetry}] /\ \A i \in Job : retries'[i] \in {NoRetry, retries[i]}
      BY <1>r, <2>1 DEF Forgotten
    <2>3. RetryTypeOK'
      BY <1>r, <2>1, <2>2 DEF RetryTypeOK, NoRemoval
    <2>4. \A i \in Job : EntryGiven(i, retries'[i]) /\ EntryGiven(i, retryFile'[i])
      <3> TAKE i \in Job
      <3>1. EntryGiven(i, retries[i]) /\ EntryGiven(i, retryFile[i])
        BY DEF EntriesInv, OnlyGiven
      <3>2. EntryGiven(i, retries'[i])
        BY <3>1, <2>2 DEF EntryGiven
      <3> QED
        BY <3>1, <3>2, <2>1
    <2>5. OnlyGiven'
      <3>1. Shown' = Shown
        BY <2>1 DEF Shown
      <3> QED
        BY <3>1, <2>1, <2>3, <2>4, OnlyGivenStays DEF EntriesInv, OnlyGiven
    <2> QED
      BY <2>1, <2>3, <2>5 DEF EntriesInv, DueEntries, RestartsCounted
  <1>7. CASE ToggleWebhooks
    <2>1. /\ Meddle("toggle") /\ hooks' = [hooks EXCEPT !.enabled = ~@]
          /\ UNCHANGED <<ariaSide, history, retries, retryFile, pass, told, removal>>
      BY <1>7 DEF ToggleWebhooks
    <2>2. spent' \in [Meddling -> 0 .. MaxMeddling] /\ spent'["ariaExit"] = spent["ariaExit"]
      BY <1>r, <2>1, Meddled DEF Meddling
    <2>3. RetryTypeOK'
      BY <1>r, <2>1, <2>2 DEF RetryTypeOK
    <2>4. OnlyGiven'
      <3>1. Shown' = Shown /\ hooks'.seen = hooks.seen
        BY <1>r, <2>1 DEF Shown, RetryTypeOK
      <3> QED
        BY <3>1, <2>1, <2>3, OnlyGivenStays DEF EntriesInv, OnlyGiven
    <2> QED
      BY <1>r, <2>1, <2>2, <2>3, <2>4 DEF EntriesInv, DueEntries, RestartsCounted, HasRetry, RetryTypeOK
  <1>8. CASE AriaRestarts
    <2>1. /\ Reload /\ Meddle("ariaExit") /\ hooks' = [hooks EXCEPT !.restarts = @ + 1]
          /\ UNCHANGED <<history, retries, retryFile, pass, told, removal>>
      BY <1>8 DEF AriaRestarts
    <2>2. /\ running' \subseteq running \cup GidsOf(results) /\ running' \subseteq Attempt
          /\ results' = <<>> /\ ToSet(results') = {} /\ UNCHANGED <<used, added>>
      BY <1>r, <2>1, ReloadItems
    <2>3. spent' \in [Meddling -> 0 .. MaxMeddling] /\ spent'["ariaExit"] = spent["ariaExit"] + 1
      BY <1>r, <2>1, Meddled DEF Meddling
    <2>4. /\ hooks'.restarts = hooks.restarts + 1 /\ hooks'.restarts <= spent'["ariaExit"]
          /\ hooks'.restartsTold = hooks.restartsTold /\ hooks'.restartsTold <= hooks'.restarts
          /\ hooks'.seen = hooks.seen
      <3>1. /\ hooks.restarts \in Nat /\ hooks.restartsTold \in Nat /\ spent["ariaExit"] \in Nat
            /\ hooks.restarts <= spent["ariaExit"] /\ hooks.restartsTold <= hooks.restarts
        BY <1>r, RetryAssumption DEF EntriesInv, RestartsCounted, RetryTypeOK, Meddling
      <3>2. /\ hooks'.restarts = hooks.restarts + 1 /\ hooks'.restartsTold = hooks.restartsTold
            /\ hooks'.seen = hooks.seen
        BY <1>r, <2>1 DEF RetryTypeOK
      <3> QED
        BY <3>1, <3>2, <2>3
    <2>5. hooks'.restarts \in 0 .. MaxMeddling
      <3>1. spent'["ariaExit"] \in 0 .. MaxMeddling /\ hooks.restarts \in Nat /\ MaxMeddling \in Nat
        BY <1>r, <2>3, RetryAssumption DEF RetryTypeOK, Meddling
      <3> QED
        BY <3>1, <2>4
    <2>6. RetryTypeOK'
      <3>1. hooks' \in [enabled : BOOLEAN, initialized : BOOLEAN, seen : SUBSET Result,
                  daily : SUBSET Attempt, restarts : 0 .. MaxMeddling, restartsTold : 0 .. MaxMeddling]
        BY <1>r, <2>1, <2>4, <2>5 DEF RetryTypeOK
      <3>2. UNCHANGED <<history, retries, retryFile, pass, told, removal>>
        BY <2>1
      <3> QED
        BY <1>r, <3>1, <3>2, <2>2, <2>3 DEF RetryTypeOK
    <2>7. OnlyGiven'
      <3>1. Shown' \subseteq Shown
        BY <2>1, <2>2 DEF Shown
      <3> QED
        BY <3>1, <2>1, <2>2, <2>4, <2>6, OnlyGivenStays DEF EntriesInv, OnlyGiven
    <2> QED
      BY <2>1, <2>4, <2>6, <2>7 DEF EntriesInv, DueEntries, RestartsCounted, HasRetry
  <1>9. CASE DaemonRestarts
    <2>1. /\ Reload /\ Meddle("daemonExit") /\ hooks' = [QuietHooks EXCEPT !.enabled = hooks.enabled]
          /\ retries' = retryFile /\ pass' = NoPass /\ removal' = NoRemoval
          /\ UNCHANGED <<history, retryFile, told>>
      BY <1>9 DEF DaemonRestarts
    <2>2. /\ running' \subseteq running \cup GidsOf(results) /\ running' \subseteq Attempt
          /\ results' = <<>> /\ ToSet(results') = {} /\ UNCHANGED <<used, added>>
      BY <1>r, <2>1, ReloadItems
    <2>3. spent' \in [Meddling -> 0 .. MaxMeddling] /\ spent'["ariaExit"] = spent["ariaExit"]
      BY <1>r, <2>1, Meddled DEF Meddling
    <2>4. /\ hooks' \in [enabled : BOOLEAN, initialized : BOOLEAN, seen : SUBSET Result,
                  daily : SUBSET Attempt, restarts : 0 .. MaxMeddling, restartsTold : 0 .. MaxMeddling]
          /\ hooks'.restarts = 0 /\ hooks'.restartsTold = 0 /\ hooks'.seen = {}
      <3>1. hooks.enabled \in BOOLEAN /\ 0 \in 0 .. MaxMeddling
        BY <1>r, RetryAssumption DEF RetryTypeOK
      <3>2. hooks' = [enabled |-> hooks.enabled, initialized |-> FALSE, seen |-> {}, daily |-> {},
                      restarts |-> 0, restartsTold |-> 0]
        BY <2>1 DEF QuietHooks
      <3> QED
        BY <3>1, <3>2
    <2>5. RetryTypeOK'
      <3>1. /\ pass' = NoPass /\ removal' = NoRemoval /\ retries' = retryFile
            /\ UNCHANGED <<history, retryFile, told>>
        BY <2>1
      <3> QED
        BY <1>r, <3>1, <2>2, <2>3, <2>4 DEF RetryTypeOK, NoPass, NoRemoval
    <2>6. OnlyGiven'
      <3>1. Shown' \subseteq Shown
        BY <1>s, <2>1, <2>2 DEF Shown, NoPass
      <3> QED
        BY <3>1, <2>1, <2>2, <2>4, <2>5, OnlyGivenStays DEF EntriesInv, OnlyGiven
    <2>7. 0 <= spent'["ariaExit"]
      BY <2>3, RetryAssumption DEF Meddling
    <2> QED
      BY <2>1, <2>4, <2>5, <2>6, <2>7 DEF EntriesInv, DueEntries, RestartsCounted, NoPass
  <1> QED
    BY <1>0, <1>1, <1>2, <1>3, <1>4, <1>5, <1>6, <1>7, <1>8, <1>9 DEF RetryNext

(* No daemon has run: there is nothing to be told about. *)
LEMMA EntriesAtStart ==
  ASSUME RetryInit
  PROVE  EntriesInv
  <1>1. RetryTypeOK
    BY HistoryAssumption, RetryAssumption DEF RetryInit, RetryTypeOK, NoPass, NoRemoval, QuietHooks
  <1>2. Shown = {}
    BY DEF RetryInit, Shown, NoPass, ToSet
  <1> QED
    BY <1>1, <1>2, RetryAssumption DEF RetryInit, EntriesInv, OnlyGiven, RestartsCounted, DueEntries,
        EntryGiven, NoPass, QuietHooks, Meddling

(* Every step keeps the invariant. *)
LEMMA EntriesStep == EntriesInv /\ [RetryNext]_retryVars => EntriesInv'
  BY RefreshKeepsEntries, OthersKeepEntries

(* So it always holds. *)
LEMMA EntriesAlways == RetrySpec => []EntriesInv
  <1>1. RetryInit => EntriesInv
    BY EntriesAtStart
  <1> QED
    BY <1>1, EntriesStep, PTL DEF RetrySpec

(* Every variable of DownloadRetries keeps its type: entries and results are *)
(* of attempts that were really made, counters stay within their bounds.     *)
THEOREM RetryTypes == RetrySpec => []RetryTypeOK
  <1>1. EntriesInv => RetryTypeOK
    BY DEF EntriesInv
  <1> QED
    BY <1>1, EntriesAlways, PTL
-----------------------------------------------------------------------------
(***************************************************************************)
(* What is announced, and when.  The invariant says why no end of a        *)
(* download comes back: an attempt that has ended other than by failing    *)
(* never runs again; what a refresh lists is one end of an attempt and     *)
(* covers the history; the failures about to be told are listed and new;   *)
(* an entry that can still become daily is of a failure never told; what   *)
(* was told is remembered, about to be taken as known, or out of sight for *)
(* good.                                                                   *)
(***************************************************************************)
ResultsFit ==
    /\ OneEach(ToSet(results))
    /\ \A e \in ToSet(results) : e.gid \notin running
    /\ \A e \in Result : (e \in Shown \/ told[e] # 0) /\ e.status # "error"
          => e.gid \notin running /\ Err(e.gid) \notin ToSet(results)
ListFits ==
    /\ pass.pc = "idle" => pass = NoPass
    /\ pass.pc \in {"merged", "submit", "announce"} =>
          OneEach(ToSet(pass.list)) /\ ToSet(history) \subseteq ToSet(pass.list)
Untold(a) == told[Err(a)] = 0 /\ Err(a) \notin hooks.seen
DailyFits ==
    /\ pass.pc \notin {"submit", "announce"} => hooks.daily = {}
    /\ \A a \in hooks.daily : Err(a) \in ToSet(pass.list) /\ Untold(a)
MayBecomeDaily(entry) == entry # NoRetry /\ entry.due = "no" /\ BecomesDaily(entry)
EntryUntold(entry, pcs) ==
    MayBecomeDaily(entry) =>
        Untold(entry.gid) /\ (pass.pc \in pcs => Err(entry.gid) \notin ToSet(pass.list))
EntriesUntold ==
    \A j \in Job : /\ EntryUntold(retries[j], {"submit", "announce"})
                   /\ EntryUntold(retryFile[j], {"announce"})
ToldStays ==
    \A e \in Result : told[e] # 0 /\ e.status # "error" =>
        \/ e \in hooks.seen
        \/ /\ ~hooks.initialized /\ e \notin ToSet(results)
           /\ pass.pc = "told" => e \notin ToSet(pass.list)
        \/ e \notin Shown
NewsInv == ResultsFit /\ ListFits /\ DailyFits /\ EntriesUntold /\ ToldStays

(* Most steps say nothing to a webhook, keep the list and add no history. *)
LEMMA QuietSteps ==
  ASSUME EntriesInv, [RetryNext]_retryVars,
         ~TellStoppedResults, ~MergeHistory, ~ScheduleRetries, ~AnnounceOff, ~Announce,
         ~DaemonRestarts
  PROVE  /\ UNCHANGED told
         /\ hooks'.daily = hooks.daily /\ hooks'.seen = hooks.seen
         /\ hooks'.initialized = hooks.initialized
         /\ pass'.list = pass.list
         /\ \/ pass' = pass
            \/ pass.pc = "submit" /\ pass'.pc = "submit"
            \/ pass.pc = "submit" /\ pass'.pc = "announce" /\ retryFile' = retries /\ retries' = retries
         /\ ToSet(history') \subseteq ToSet(history)
  <1> USE DEF ariaSide, daemonSide
  <1>r. RetryTypeOK /\ history \in Seq(Result)
    BY DEF EntriesInv, RetryTypeOK
  <1>s. /\ ToSet(<<>>) = {}
        /\ \A a : ToSet(Without(history, a)) \subseteq ToSet(history)
    BY <1>r, NoItems, WithoutItems
  <1>0. CASE UNCHANGED retryVars
    BY <1>0 DEF retryVars
  <1>1. CASE \E j \in Job : SubmitRetry(j) \/ SubmitRefused(j) \/ SubmitUnanswered(j)
    BY <1>1 DEF SubmitRetry, SubmitRefused, SubmitUnanswered, EntriesInv, RetryTypeOK
  <1>2. CASE SaveRetries
    BY <1>2 DEF SaveRetries, EntriesInv, RetryTypeOK
  <1>3. CASE \E j \in Job : Add(j) \/ ComesDue(j)
    BY <1>3 DEF Add, ComesDue
  <1>4. CASE \E a \in Attempt : AttemptEnds(a) \/ CancelDownload(a)
    BY <1>4 DEF AttemptEnds, CancelDownload
  <1>5. CASE PurgeEntries \/ \E a \in Attempt : RemoveEntry(a)
    BY <1>5, <1>s DEF PurgeEntries, RemoveEntry
  <1>6. CASE DropResults \/ ForgetRetry
    BY <1>6 DEF DropResults, ForgetRetry
  <1>7. CASE ToggleWebhooks
    BY <1>7 DEF ToggleWebhooks, EntriesInv, RetryTypeOK
  <1>8. CASE AriaRestarts
    BY <1>8 DEF AriaRestarts, EntriesInv, RetryTypeOK
  <1> QED
    BY <1>0, <1>1, <1>2, <1>3, <1>4, <1>5, <1>6, <1>7, <1>8 DEF RetryNext, RetryPass

(* aria2 gets an attempt it never had. *)
LEMMA NewAttempts ==
  ASSUME EntriesInv, NEW j \in Job, used[j] < MaxAttempts
  PROVE  /\ <<j, used[j] + 1>> \in Attempt /\ JobOf(<<j, used[j] + 1>>) = j
         /\ ~Given(<<j, used[j] + 1>>)
  <1>n. PICK n : n = used[j] + 1
    OBVIOUS
  <1>1. used[j] \in Nat /\ n \in 1 .. MaxAttempts
    BY <1>n, HistoryAssumption DEF EntriesInv, RetryTypeOK
  <1>a. PICK a : a = <<j, n>>
    OBVIOUS
  <1>2. a \in Attempt /\ JobOf(a) = j /\ a[2] = n
    BY <1>1, <1>a, NextAttempt
  <1>3. ~Given(a)
    BY <1>n, <1>1, <1>2 DEF Given
  <1> QED
    BY <1>a, <1>n, <1>2, <1>3

(* A step changes what aria2 has in one of five ways. *)
AriaQuiet ==
    running' \subseteq running /\ ToSet(results') \subseteq ToSet(results)
AriaGets(a) ==
    /\ a \in Attempt /\ ~Given(a) /\ running' = running \cup {a}
    /\ ToSet(results') \subseteq ToSet(results)
AriaEnds(x) ==
    /\ x \in Result /\ x.gid \in running /\ running' = running \ {x.gid}
    /\ ToSet(results') \subseteq ToSet(results) \cup {x}
AriaReloads ==
    /\ \A a \in running' : a \in running \/ (a \in Attempt /\ Err(a) \in ToSet(results))
    /\ ToSet(results') = {}
LEMMA AriaSteps ==
  ASSUME EntriesInv, [RetryNext]_retryVars
  PROVE  \/ AriaQuiet \/ (\E a : AriaGets(a)) \/ (\E x : AriaEnds(x))
         \/ AriaReloads /\ (AriaRestarts \/ DaemonRestarts)
  <1> USE DEF ariaSide, daemonSide
  <1>r. RetryTypeOK /\ results \in Seq(Result)
    BY DEF EntriesInv, RetryTypeOK
  <1>s. /\ ToSet(<<>>) = {}
        /\ \A a : ToSet(Without(results, a)) \subseteq ToSet(results)
    BY <1>r, NoItems, WithoutItems
  <1>0. CASE UNCHANGED retryVars
    BY <1>0 DEF retryVars, AriaQuiet
  <1>1. ASSUME NEW j \in Job, SubmitRetry(j) \/ SubmitUnanswered(j) \/ Add(j)
        PROVE  \E a : AriaGets(a)
    <2>a. PICK a : a = <<j, used[j] + 1>>
      OBVIOUS
    <2>1. /\ used[j] < MaxAttempts /\ running' = running \cup {a}
          /\ results' = results \/ results' = Without(results, retries[j].gid)
      <3>1. CASE SubmitRetry(j)
        BY <3>1, <2>a DEF SubmitRetry
      <3>2. CASE Add(j)
        <4>1. used'[j] = used[j] + 1
          BY <3>2, <1>r DEF Add, RetryTypeOK
        <4> QED
          BY <3>2, <4>1, <2>a DEF Add
      <3>3. CASE SubmitUnanswered(j)
        <4>1. used'[j] = used[j] + 1
          BY <3>3, <1>r DEF SubmitUnanswered, RetryTypeOK
        <4> QED
          BY <3>3, <4>1, <2>a DEF SubmitUnanswered
      <3> QED
        BY <1>1, <3>1, <3>2, <3>3
    <2>2. a \in Attempt /\ ~Given(a)
      BY <2>1, <2>a, NewAttempts
    <2>3. AriaGets(a)
      BY <1>s, <2>1, <2>2 DEF AriaGets
    <2> QED
      BY <2>3
  <1>2. ASSUME NEW a \in Attempt, AttemptEnds(a) \/ CancelDownload(a)
        PROVE  \E x : AriaEnds(x)
    <2>1. PICK status \in Ended : End(a, status) /\ a \in running
      BY <1>2 DEF AttemptEnds, CancelDownload, Ended
    <2>2. PICK x \in Result : /\ x.gid = a
                              /\ results' \in Seq(Result) /\ ToSet(results') \subseteq ToSet(results) \cup {x}
                              /\ running' = running \ {a} /\ UNCHANGED <<used, added>>
      BY <1>r, <2>1, EndItems
    <2>3. AriaEnds(x)
      BY <2>1, <2>2 DEF AriaEnds
    <2> QED
      BY <2>3
  <1>3. CASE AriaRestarts \/ DaemonRestarts
    BY <1>3, <1>r, ReloadItems DEF AriaRestarts, DaemonRestarts, AriaReloads
  <1>4. CASE DropResults
    BY <1>4, <1>s DEF DropResults, AriaQuiet
  <1>5. CASE \/ TellStoppedResults \/ MergeHistory \/ ScheduleRetries \/ SaveRetries
             \/ AnnounceOff \/ Announce \/ \E j \in Job : SubmitRefused(j) \/ ComesDue(j)
    BY <1>5 DEF TellStoppedResults, MergeHistory, ScheduleRetries, SaveRetries, AnnounceOff, Announce,
                SubmitRefused, ComesDue, AriaQuiet
  <1>6. CASE \/ PurgeEntries \/ ForgetRetry \/ ToggleWebhooks \/ \E a \in Attempt : RemoveEntry(a)
    BY <1>6 DEF PurgeEntries, ForgetRetry, ToggleWebhooks, RemoveEntry, AriaQuiet
  <1> QED
    BY <1>0, <1>1, <1>2, <1>3, <1>4, <1>5, <1>6 DEF RetryNext, RetryPass

(* What the daemon shows and has told grows by what aria2 has ended. *)
LEMMA ShownGrows ==
  ASSUME EntriesInv, [RetryNext]_retryVars
  PROVE  /\ Shown' \subseteq Shown \cup ToSet(results')
         /\ \A e \in Result : told'[e] # 0 => told[e] # 0 \/ e \in Shown
  <1> USE DEF ariaSide, daemonSide
  <1>r. RetryTypeOK /\ history \in Seq(Result) /\ pass.list \in Seq(Result)
    BY DEF EntriesInv, RetryTypeOK
  <1>1. CASE TellStoppedResults
    BY <1>1 DEF TellStoppedResults, NoPass, Shown
  <1>2. CASE MergeHistory
    <2>1. ToSet(history') \subseteq ToSet(history) \cup ToSet(pass.list)
      BY <1>2, <1>r, MergeItems DEF MergeHistory
    <2>2. pass'.list = history' /\ UNCHANGED <<results, told>>
      BY <1>2, <1>r DEF MergeHistory, RetryTypeOK
    <2> QED
      BY <2>1, <2>2 DEF Shown
  <1>3. CASE ScheduleRetries
    BY <1>3, <1>r DEF ScheduleRetries, Shown, RetryTypeOK
  <1>4. CASE AnnounceOff \/ DaemonRestarts
    BY <1>4, NoItems DEF AnnounceOff, DaemonRestarts, NoPass, Shown, Reload
  <1>5. CASE Announce
    <2>1. pass' = NoPass /\ UNCHANGED <<results, history>>
      BY <1>5 DEF Announce
    <2>2. Shown' \subseteq Shown
      BY <2>1, NoItems DEF NoPass, Shown
    <2>3. \A e \in Result : told'[e] # 0 => told[e] # 0 \/ e \in News(hooks, pass.list)
      BY <1>5, <1>r DEF Announce, RetryTypeOK
    <2> QED
      BY <2>2, <2>3 DEF News, Shown
  <1>6. CASE /\ ~TellStoppedResults /\ ~MergeHistory /\ ~ScheduleRetries /\ ~AnnounceOff
             /\ ~Announce /\ ~DaemonRestarts
    BY <1>6, QuietSteps DEF Shown
  <1> QED
    BY <1>1, <1>2, <1>3, <1>4, <1>5, <1>6

(* An attempt that aria2 still has, or has to be given, has no end but a     *)
(* failure.                                                                  *)
LEMMA ResultsStayFit ==
  ASSUME EntriesInv, EntriesInv', ResultsFit, [RetryNext]_retryVars
  PROVE  ResultsFit'
  <1>1. /\ OneEach(ToSet(results))
        /\ \A e \in ToSet(results) : e.gid \notin running
        /\ \A e \in Result : (e \in Shown \/ told[e] # 0) /\ e.status # "error"
              => e.gid \notin running /\ Err(e.gid) \notin ToSet(results)
    BY DEF ResultsFit
  <1>2. /\ \A a \in running : Given(a)
        /\ \A e \in Shown : Given(e.gid)
        /\ \A e \in Result : told[e] # 0 => Given(e.gid)
    BY DEF EntriesInv, OnlyGiven
  <1>3. /\ Shown' \subseteq Shown \cup ToSet(results')
        /\ \A e \in Result : told'[e] # 0 => told[e] # 0 \/ e \in Shown
    BY ShownGrows
  <1>4. ToSet(results) \subseteq Shown /\ ToSet(results) \subseteq Result
    BY ToSetIsResults DEF Shown, EntriesInv, RetryTypeOK
  <1>5. CASE AriaQuiet
    <2>1. OneEach(ToSet(results'))
      BY <1>1, <1>5 DEF AriaQuiet, OneEach
    <2>2. \A e \in ToSet(results') : e.gid \notin running'
      BY <1>1, <1>5 DEF AriaQuiet
    <2>3. \A e \in Result : (e \in Shown' \/ told'[e] # 0) /\ e.status # "error"
              => e.gid \notin running' /\ Err(e.gid) \notin ToSet(results')
      BY <1>1, <1>3, <1>4, <1>5 DEF AriaQuiet
    <2> QED
      BY <2>1, <2>2, <2>3 DEF ResultsFit
  <1>6. ASSUME NEW a, AriaGets(a)
        PROVE  ResultsFit'
    <2>1. OneEach(ToSet(results'))
      BY <1>1, <1>6 DEF AriaGets, OneEach
    <2>2. \A e \in ToSet(results') : e.gid \notin running'
      BY <1>1, <1>2, <1>4, <1>6 DEF AriaGets
    <2>3. \A e \in Result : (e \in Shown' \/ told'[e] # 0) /\ e.status # "error"
              => e.gid \notin running' /\ Err(e.gid) \notin ToSet(results')
      BY <1>1, <1>2, <1>3, <1>4, <1>6 DEF AriaGets
    <2> QED
      BY <2>1, <2>2, <2>3 DEF ResultsFit
  <1>7. ASSUME NEW x, AriaEnds(x)
        PROVE  ResultsFit'
    <2>0. /\ x \in Result /\ x.gid \in running /\ running' = running \ {x.gid}
          /\ ToSet(results') \subseteq ToSet(results) \cup {x}
      BY <1>7 DEF AriaEnds
    <2>1. OneEach(ToSet(results'))
      BY <1>1, <2>0 DEF OneEach
    <2>2. \A e \in ToSet(results') : e.gid \notin running'
      BY <1>1, <2>0
    <2>3. \A e \in Result : (e \in Shown' \/ told'[e] # 0) /\ e.status # "error"
              => e.gid \notin running' /\ Err(e.gid) \notin ToSet(results')
      <3> SUFFICES ASSUME NEW e \in Result, e \in Shown' \/ told'[e] # 0, e.status # "error"
                   PROVE  e.gid \notin running' /\ Err(e.gid) \notin ToSet(results')
        OBVIOUS
      <3>1. e \in Shown \/ told[e] # 0 \/ e = x
        BY <1>3, <1>4, <2>0
      <3>2. CASE e = x
        <4>1. Err(x.gid) # x
          BY <2>0, <3>2, Results
        <4>2. Err(x.gid) \notin ToSet(results)
          BY <1>1, <2>0, Results
        <4> QED
          BY <2>0, <3>2, <4>1, <4>2
      <3>3. CASE e # x
        <4>1. e.gid \notin running /\ Err(e.gid) \notin ToSet(results)
          BY <1>1, <3>1, <3>3
        <4>2. Err(e.gid) # x
          BY <2>0, <4>1, Results
        <4> QED
          BY <2>0, <4>1, <4>2
      <3> QED
        BY <3>2, <3>3
    <2> QED
      BY <2>1, <2>2, <2>3 DEF ResultsFit
  <1>8. CASE AriaReloads
    <2>1. \A e \in Result : (e \in Shown' \/ told'[e] # 0) /\ e.status # "error"
              => e.gid \notin running' /\ Err(e.gid) \notin ToSet(results')
      BY <1>1, <1>3, <1>8 DEF AriaReloads
    <2> QED
      BY <2>1, <1>8 DEF ResultsFit, AriaReloads, OneEach
  <1> QED
    BY <1>5, <1>6, <1>7, <1>8, AriaSteps

(* A refresh lists what MergeTerminalEvents made, and only erasing changes   *)
(* the history while it does.                                                *)
LEMMA ListStaysFit ==
  ASSUME EntriesInv, ListFits, [RetryNext]_retryVars
  PROVE  ListFits'
  <1>r. RetryTypeOK /\ history \in Seq(Result) /\ pass.list \in Seq(Result)
    BY DEF EntriesInv, RetryTypeOK
  <1>1. CASE TellStoppedResults
    BY <1>1, <1>r DEF TellStoppedResults, NoPass, ListFits
  <1>2. CASE MergeHistory
    <2>1. pass'.pc = "merged" /\ pass'.list = history'
      BY <1>2, <1>r DEF MergeHistory, RetryTypeOK
    <2>2. OneEach(ToSet(history'))
      BY <1>2, <1>r, MergeItems DEF MergeHistory
    <2> QED
      BY <2>1, <2>2 DEF ListFits
  <1>3. CASE ScheduleRetries
    <2>1. /\ pass.pc = "merged" /\ pass'.pc = "submit" /\ pass'.list = pass.list /\ history' = history
      BY <1>3, <1>r DEF ScheduleRetries, RetryTypeOK
    <2> QED
      BY <2>1 DEF ListFits
  <1>4. CASE AnnounceOff \/ DaemonRestarts \/ Announce
    <2>1. pass' = NoPass
      BY <1>4 DEF AnnounceOff, DaemonRestarts, Announce
    <2> QED
      BY <2>1 DEF NoPass, ListFits
  <1>5. CASE /\ ~TellStoppedResults /\ ~MergeHistory /\ ~ScheduleRetries /\ ~AnnounceOff
             /\ ~Announce /\ ~DaemonRestarts
    <2>1. /\ pass'.list = pass.list /\ ToSet(history') \subseteq ToSet(history)
          /\ pass' = pass \/ (pass.pc = "submit" /\ pass'.pc \in {"submit", "announce"})
      BY <1>5, QuietSteps
    <2> QED
      BY <2>1 DEF ListFits
  <1> QED
    BY <1>1, <1>2, <1>3, <1>4, <1>5

(* What scheduling does with the entries that remain, and with those of them *)
(* that become daily.                                                        *)
LEMMA SchedulingSteps ==
  ASSUME EntriesInv, ScheduleRetries
  PROVE  \E remaining \in [Job -> Retry \cup {NoRetry}] :
           /\ \A j \in Job : remaining[j] \in {NoRetry, retries[j]}
           /\ retries' = Scheduled(remaining, pass.list)
           /\ pass'.pc = "submit" /\ pass'.list = pass.list
           /\ hooks' = [hooks EXCEPT !.daily = @ \cup
                {a \in Unscheduled(remaining, pass.list) : BecomesDaily(Entry(remaining, a))}]
           /\ UNCHANGED <<running, results, used, added, history, retryFile, told, removal, spent>>
  <1>r. RetryTypeOK /\ retries \in [Job -> Retry \cup {NoRetry}] /\ pass.list \in Seq(Result)
    BY DEF EntriesInv, RetryTypeOK
  <1> DEFINE remaining == StillWanted(pass.list)
  <1>1. /\ remaining \in [Job -> Retry \cup {NoRetry}]
        /\ \A j \in Job : remaining[j] \in {NoRetry, retries[j]}
    BY <1>r DEF StillWanted
  <1>2. /\ retries' = Scheduled(remaining, pass.list)
        /\ pass'.pc = "submit" /\ pass'.list = pass.list
        /\ hooks' = [hooks EXCEPT !.daily = @ \cup
             {a \in Unscheduled(remaining, pass.list) : BecomesDaily(Entry(remaining, a))}]
        /\ UNCHANGED <<running, results, used, added, history, retryFile, told, removal, spent>>
    BY <1>r DEF ScheduleRetries, ariaSide, RetryTypeOK
  <1> HIDE DEF remaining
  <1> QED
    BY <1>1, <1>2

(* A new entry is not yet daily: its job has failed for the first time. *)
LEMMA OnlyOldEntriesBecomeDaily ==
  ASSUME NEW entries \in [Job -> Retry \cup {NoRetry}], NEW list \in Seq(Result),
         NEW a \in Unscheduled(entries, list), BecomesDaily(Entry(entries, a))
  PROVE  /\ JobOf(a) \in Job /\ Entry(entries, a) = entries[JobOf(a)]
         /\ entries[JobOf(a)].gid = a /\ MayBecomeDaily(entries[JobOf(a)])
  <1>1. a \in Attempt /\ Entry(entries, a).gid = a /\ Entry(entries, a).due = "no"
    BY WithEndItems DEF Unscheduled
  <1>2. JobOf(a) \in Job
    BY <1>1, Attempts
  <1>3. entries[JobOf(a)] # NoRetry
    <2>1. ~BecomesDaily(NewRetry(a))
      BY RetryAssumption DEF BecomesDaily, NewRetry
    <2> QED
      BY <2>1 DEF Entry
  <1> QED
    BY <1>1, <1>2, <1>3 DEF Entry, MayBecomeDaily

(* The failures about to be announced are in the list and were never told. *)
LEMMA DailyStaysFit ==
  ASSUME EntriesInv, NewsInv, [RetryNext]_retryVars
  PROVE  DailyFits'
  <1>r. RetryTypeOK /\ pass.list \in Seq(Result)
    BY DEF EntriesInv, RetryTypeOK
  <1>1. CASE ScheduleRetries
    <2>1. PICK remaining \in [Job -> Retry \cup {NoRetry}] :
           /\ \A j \in Job : remaining[j] \in {NoRetry, retries[j]}
           /\ retries' = Scheduled(remaining, pass.list)
           /\ pass'.pc = "submit" /\ pass'.list = pass.list
           /\ hooks' = [hooks EXCEPT !.daily = @ \cup
                {a \in Unscheduled(remaining, pass.list) : BecomesDaily(Entry(remaining, a))}]
           /\ UNCHANGED <<running, results, used, added, history, retryFile, told, removal, spent>>
      BY <1>1, SchedulingSteps
    <2>2. hooks.daily = {}
      BY <1>1 DEF ScheduleRetries, NewsInv, DailyFits
    <2>3. /\ hooks'.seen = hooks.seen
          /\ \A a \in hooks'.daily : a \in Unscheduled(remaining, pass.list) /\ BecomesDaily(Entry(remaining, a))
      BY <1>r, <2>1, <2>2 DEF RetryTypeOK
    <2>4. ASSUME NEW a \in hooks'.daily
          PROVE  Err(a) \in ToSet(pass'.list) /\ Untold(a)'
      <3>1. Err(a) \in ToSet(pass.list)
        BY <1>r, <2>3, ScheduledEntries
      <3>2. JobOf(a) \in Job /\ remaining[JobOf(a)].gid = a /\ MayBecomeDaily(remaining[JobOf(a)])
        BY <1>r, <2>3, OnlyOldEntriesBecomeDaily
      <3>3. retries[JobOf(a)].gid = a /\ MayBecomeDaily(retries[JobOf(a)])
        BY <2>1, <3>2 DEF MayBecomeDaily
      <3>4. Untold(a)
        BY <3>2, <3>3 DEF NewsInv, EntriesUntold, EntryUntold
      <3> QED
        BY <2>1, <2>3, <3>1, <3>4 DEF Untold
    <2> QED
      BY <2>1, <2>4 DEF DailyFits
  <1>2. CASE TellStoppedResults \/ MergeHistory
    BY <1>2, <1>r DEF TellStoppedResults, MergeHistory, NewsInv, DailyFits, RetryTypeOK, NoPass
  <1>3. CASE AnnounceOff \/ DaemonRestarts \/ Announce
    <2>1. hooks'.daily = {}
      BY <1>3, <1>r DEF AnnounceOff, DaemonRestarts, Announce, QuietHooks, RetryTypeOK
    <2> QED
      BY <2>1 DEF DailyFits
  <1>4. CASE /\ ~TellStoppedResults /\ ~MergeHistory /\ ~ScheduleRetries /\ ~AnnounceOff
             /\ ~Announce /\ ~DaemonRestarts
    <2>1. /\ UNCHANGED told /\ hooks'.daily = hooks.daily /\ hooks'.seen = hooks.seen
          /\ pass'.list = pass.list
          /\ pass' = pass \/ (pass.pc = "submit" /\ pass'.pc \in {"submit", "announce"})
      BY <1>4, QuietSteps
    <2> QED
      BY <2>1 DEF NewsInv, DailyFits, Untold
  <1> QED
    BY <1>1, <1>2, <1>3, <1>4

(* An entry that can still become daily is of an attempt whose failure is    *)
(* news: a fresh attempt, or one this refresh did not see fail.              *)
LEMMA EntriesStayUntold ==
  ASSUME EntriesInv, NewsInv, [RetryNext]_retryVars
  PROVE  EntriesUntold'
  <1> USE DEF ariaSide, daemonSide
  <1>r. RetryTypeOK /\ pass.list \in Seq(Result) /\ retries \in [Job -> Retry \cup {NoRetry}]
    BY DEF EntriesInv, RetryTypeOK
  <1>u. \A j \in Job : /\ EntryUntold(retries[j], {"submit", "announce"})
                       /\ EntryUntold(retryFile[j], {"announce"})
    BY DEF NewsInv, EntriesUntold
  <1>1. CASE ScheduleRetries
    <2>1. PICK remaining \in [Job -> Retry \cup {NoRetry}] :
           /\ \A j \in Job : remaining[j] \in {NoRetry, retries[j]}
           /\ retries' = Scheduled(remaining, pass.list)
           /\ pass'.pc = "submit" /\ pass'.list = pass.list
           /\ hooks' = [hooks EXCEPT !.daily = @ \cup
                {a \in Unscheduled(remaining, pass.list) : BecomesDaily(Entry(remaining, a))}]
           /\ UNCHANGED <<running, results, used, added, history, retryFile, told, removal, spent>>
      BY <1>1, SchedulingSteps
    <2>2. hooks'.seen = hooks.seen
      BY <1>r, <2>1 DEF RetryTypeOK
    <2>3. ASSUME NEW j \in Job, MayBecomeDaily(retries'[j])
          PROVE  /\ retries'[j] = retries[j] /\ Untold(retries[j].gid)
                 /\ Err(retries[j].gid) \notin ToSet(pass.list)
      <3>1. /\ retries'[j] = remaining[j]
            /\ \A a \in Unscheduled(remaining, pass.list) : JobOf(a) # j
        <4>1. ASSUME NEW e \in Retry, retries'[j] = [e EXCEPT !.due = "later", !.daily = @ \/ BecomesDaily(e)]
              PROVE  FALSE
          <5>1. retries'[j].due = "later"
            BY <4>1 DEF Retry
          <5> QED
            BY <5>1, <2>3 DEF MayBecomeDaily
        <4>2. /\ \A a \in Unscheduled(remaining, pass.list) :
                   /\ a \in Attempt /\ Err(a) \in ToSet(pass.list)
                   /\ Entry(remaining, a) \in Retry
                   /\ Entry(remaining, a).gid = a /\ Entry(remaining, a).due = "no"
              /\ \A i \in Job :
                   \/ /\ Scheduled(remaining, pass.list)[i] = remaining[i]
                      /\ \A a \in Unscheduled(remaining, pass.list) : JobOf(a) # i
                   \/ \E a \in Unscheduled(remaining, pass.list) :
                         /\ JobOf(a) = i
                         /\ Scheduled(remaining, pass.list)[i] =
                              [Entry(remaining, a) EXCEPT !.due = "later",
                                                          !.daily = @ \/ BecomesDaily(Entry(remaining, a))]
          BY <1>r, ScheduledEntries
        <4>3. retries'[j] = Scheduled(remaining, pass.list)[j]
          BY <2>1
        <4>4. ASSUME NEW a \in Unscheduled(remaining, pass.list), JobOf(a) = j,
                     Scheduled(remaining, pass.list)[j] =
                          [Entry(remaining, a) EXCEPT !.due = "later",
                                                      !.daily = @ \/ BecomesDaily(Entry(remaining, a))]
              PROVE  FALSE
          <5>1. PICK e : e = Entry(remaining, a)
            OBVIOUS
          <5>2. e \in Retry
            BY <4>2, <5>1
          <5> QED
            BY <4>1, <4>3, <4>4, <5>1, <5>2
        <4> QED
          BY <4>2, <4>3, <4>4
      <3>2. /\ remaining[j] # NoRetry /\ remaining[j] = retries[j] /\ MayBecomeDaily(retries[j])
            /\ retries[j].due = "no"
        BY <2>1, <2>3, <3>1 DEF MayBecomeDaily
      <3>3. JobOf(retries[j].gid) = j /\ retries[j].gid \in Attempt
        BY <1>r, <3>2, Entries DEF EntriesInv, OnlyGiven, EntryGiven
      <3>4. Err(retries[j].gid) \notin ToSet(pass.list)
        <4> SUFFICES ASSUME Err(retries[j].gid) \in ToSet(pass.list) PROVE FALSE
          OBVIOUS
        <4>1. retries[j].gid \in WithEnd(pass.list, "error")
          BY <1>r, <3>3, WithEndItems DEF Err
        <4>2. Entry(remaining, retries[j].gid) = retries[j]
          BY <3>2, <3>3 DEF Entry
        <4>3. retries[j].gid \in Unscheduled(remaining, pass.list)
          BY <3>2, <4>1, <4>2 DEF Unscheduled
        <4> QED
          BY <3>1, <3>3, <4>3
      <3> QED
        BY <1>u, <3>1, <3>2, <3>4 DEF EntryUntold
    <2>4. (\A j \in Job : EntryUntold(retries[j], {"submit", "announce"}))'
      BY <2>1, <2>2, <2>3 DEF EntryUntold, Untold
    <2>5. (\A j \in Job : EntryUntold(retryFile[j], {"announce"}))'
      BY <1>u, <2>1, <2>2 DEF EntryUntold, Untold
    <2> QED
      BY <2>4, <2>5 DEF EntriesUntold
  <1>2. CASE TellStoppedResults \/ MergeHistory \/ AnnounceOff
    <2>1. /\ UNCHANGED <<retries, retryFile, told>> /\ hooks'.seen = hooks.seen
          /\ pass'.pc \notin {"submit", "announce"}
      <3>1. CASE TellStoppedResults
        BY <3>1 DEF TellStoppedResults, NoPass
      <3>2. CASE MergeHistory
        BY <3>2, <1>r DEF MergeHistory, RetryTypeOK
      <3>3. CASE AnnounceOff
        BY <3>3, <1>r DEF AnnounceOff, NoPass, RetryTypeOK
      <3> QED
        BY <1>2, <3>1, <3>2, <3>3
    <2> QED
      BY <1>u, <2>1 DEF EntriesUntold, EntryUntold, Untold
  <1>3. CASE Announce
    <2>1. /\ UNCHANGED <<retries, retryFile>> /\ pass'.pc = "idle" /\ pass.pc = "announce"
          /\ hooks'.seen = Known(hooks, pass.list) \cup News(hooks, pass.list)
          /\ told' = [e \in Result |-> told[e] + IF e \in News(hooks, pass.list) THEN 1 ELSE 0]
      BY <1>3, <1>r DEF Announce, NoPass, RetryTypeOK
    <2>2. /\ hooks'.seen \subseteq hooks.seen \cup ToSet(pass.list)
          /\ News(hooks, pass.list) \subseteq ToSet(pass.list)
      BY <2>1 DEF Known, News
    <2>3. ASSUME NEW a \in Attempt, Untold(a), Err(a) \notin ToSet(pass.list)
          PROVE  Untold(a)'
      <3>1. told'[Err(a)] = told[Err(a)] + 0 /\ told[Err(a)] = 0
        BY <2>1, <2>2, <2>3, Results DEF Untold
      <3> QED
        BY <3>1, <2>2, <2>3 DEF Untold
    <2>4. ASSUME NEW entry \in Retry \cup {NoRetry}, EntryUntold(entry, {"submit", "announce"})
                                                   \/ EntryUntold(entry, {"announce"}),
                 MayBecomeDaily(entry)
          PROVE  Untold(entry.gid)'
      <3>1. entry.gid \in Attempt
        BY <2>4, Entries DEF MayBecomeDaily
      <3> QED
        BY <2>1, <2>3, <2>4, <3>1 DEF EntryUntold
    <2>5. ASSUME NEW j \in Job
          PROVE  /\ MayBecomeDaily(retries'[j]) => Untold(retries[j].gid)'
                 /\ MayBecomeDaily(retryFile'[j]) => Untold(retryFile[j].gid)'
      <3>1. retries[j] \in Retry \cup {NoRetry} /\ retryFile[j] \in Retry \cup {NoRetry}
        BY <1>r DEF RetryTypeOK
      <3>2. EntryUntold(retries[j], {"submit", "announce"}) /\ EntryUntold(retryFile[j], {"announce"})
        BY <1>u
      <3>3. retries'[j] = retries[j] /\ retryFile'[j] = retryFile[j]
        BY <2>1
      <3>4. MayBecomeDaily(retries[j]) => Untold(retries[j].gid)'
        <4>1. PICK entry : entry = retries[j]
          OBVIOUS
        <4>2. MayBecomeDaily(entry) => Untold(entry.gid)'
          BY <2>4, <3>1, <3>2, <4>1
        <4> QED
          BY <4>1, <4>2, <3>3 DEF Untold
      <3>5. MayBecomeDaily(retryFile[j]) => Untold(retryFile[j].gid)'
        <4>1. PICK entry : entry = retryFile[j]
          OBVIOUS
        <4>2. MayBecomeDaily(entry) => Untold(entry.gid)'
          BY <2>4, <3>1, <3>2, <4>1
        <4> QED
          BY <4>1, <4>2, <3>3 DEF Untold
      <3> QED
        BY <3>3, <3>4, <3>5
    <2> QED
      BY <2>1, <2>5 DEF EntriesUntold, EntryUntold
  <1>4. CASE DaemonRestarts
    <2>1. /\ retries' = retryFile /\ UNCHANGED <<retryFile, told>>
          /\ hooks'.seen = {} /\ pass'.pc = "idle"
      BY <1>4 DEF DaemonRestarts, NoPass, QuietHooks
    <2> QED
      BY <1>u, <2>1 DEF EntriesUntold, EntryUntold, Untold
  <1>5. CASE /\ ~TellStoppedResults /\ ~MergeHistory /\ ~ScheduleRetries /\ ~AnnounceOff
             /\ ~Announce /\ ~DaemonRestarts
    <2>1. /\ UNCHANGED told /\ hooks'.seen = hooks.seen /\ pass'.list = pass.list
          /\ \/ pass' = pass
             \/ pass.pc = "submit" /\ pass'.pc = "submit"
             \/ pass.pc = "submit" /\ pass'.pc = "announce" /\ retryFile' = retries /\ retries' = retries
      BY <1>5, QuietSteps
    <2>2. CASE retryFile' = retries /\ retries' = retries
      BY <1>u, <2>1, <2>2 DEF EntriesUntold, EntryUntold, Untold
    <2>3. CASE UNCHANGED <<retries, retryFile>> /\ pass'.pc = pass.pc
      BY <1>u, <2>1, <2>3 DEF EntriesUntold, EntryUntold, Untold
    <2>4. CASE \E j \in Job : SubmitRetry(j)
      <3>1. PICK j \in Job : SubmitRetry(j)
        BY <2>4
      <3>2. PICK a : a = <<j, used[j] + 1>>
        OBVIOUS
      <3>3. /\ used[j] < MaxAttempts /\ retries' = [retries EXCEPT ![j] = Submitted(@, a)]
            /\ retryFile' = retryFile /\ pass.pc = "submit" /\ pass'.pc = "submit"
            /\ retries[j] \in Retry
        <4>1. pass'.pc = pass.pc
          BY <3>1, <1>r DEF SubmitRetry, RetryTypeOK
        <4>2. retries[j] \in Retry
          BY <3>1, <1>r DEF SubmitRetry, EntriesInv, DueEntries, HasRetry
        <4> QED
          BY <3>1, <3>2, <4>1, <4>2 DEF SubmitRetry
      <3>4. a \in Attempt /\ ~Given(a)
        BY <3>2, <3>3, NewAttempts
      <3>5. told[Err(a)] = 0 /\ Err(a) \notin hooks.seen /\ Err(a) \notin ToSet(pass.list)
        BY <3>4, Results DEF EntriesInv, OnlyGiven, Shown
      <3>6. retries'[j].gid = a
        BY <3>3, <1>r DEF Submitted, Retry
      <3>7. EntryUntold(retries[j], {"submit", "announce"})'
        BY <2>1, <3>5, <3>6 DEF EntryUntold, Untold
      <3>8. ASSUME NEW i \in Job, i # j
            PROVE  EntryUntold(retries[i], {"submit", "announce"})'
        <4>1. retries'[i] = retries[i]
          BY <1>r, <3>3, <3>8
        <4> QED
          BY <1>u, <2>1, <3>3, <4>1 DEF EntryUntold, Untold
      <3>9. \A i \in Job : EntryUntold(retryFile[i], {"announce"})'
        BY <1>u, <2>1, <3>3 DEF EntryUntold, Untold
      <3> QED
        BY <3>7, <3>8, <3>9 DEF EntriesUntold
    <2>5. CASE \E j \in Job : SubmitRefused(j) \/ SubmitUnanswered(j) \/ ComesDue(j)
      <3>1. PICK j \in Job : SubmitRefused(j) \/ SubmitUnanswered(j) \/ ComesDue(j)
        BY <2>5
      <3>2. retries[j] \in Retry /\ pass'.pc = pass.pc
        BY <3>1, <1>r DEF SubmitRefused, SubmitUnanswered, ComesDue, EntriesInv, DueEntries, HasRetry, RetryTypeOK
      <3>3. /\ retries'[j].due # "no" /\ \A i \in Job : i # j => retries'[i] = retries[i]
            /\ \A i \in Job : retryFile'[i] = retryFile[i] \/ retryFile'[i] = retries'[i]
        <4>1. \E due \in {"now", "later"} : retries' = [retries EXCEPT ![j].due = due]
          BY <3>1 DEF SubmitRefused, SubmitUnanswered, ComesDue
        <4>2. retries'[j].due # "no" /\ \A i \in Job : i # j => retries'[i] = retries[i]
          BY <3>2, <4>1, <1>r DEF Retry
        <4>3. \/ retryFile' = retryFile
              \/ retryFile[j] = retries[j] /\ retryFile' = [retryFile EXCEPT ![j].due = "now"]
                 /\ retries' = [retries EXCEPT ![j].due = "now"]
          BY <3>1 DEF SubmitRefused, SubmitUnanswered, ComesDue
        <4>4. \A i \in Job : retryFile'[i] = retryFile[i] \/ retryFile'[i] = retries'[i]
          BY <4>3, <1>r DEF RetryTypeOK
        <4> QED
          BY <4>2, <4>4
      <3>4. ASSUME NEW i \in Job
            PROVE  EntryUntold(retries[i], {"submit", "announce"})'
        BY <1>u, <2>1, <3>2, <3>3 DEF EntryUntold, Untold, MayBecomeDaily
      <3>5. ASSUME NEW i \in Job
            PROVE  EntryUntold(retryFile[i], {"announce"})'
        BY <1>u, <2>1, <3>2, <3>3, <3>4 DEF EntryUntold, Untold
      <3> QED
        BY <3>4, <3>5 DEF EntriesUntold
    <2>6. CASE ForgetRetry
      <3>1. /\ \A i \in Job : retries'[i] \in {NoRetry, retries[i]}
            /\ retryFile' = retryFile \/ retryFile' = retries'
            /\ pass' = pass
        BY <2>6 DEF ForgetRetry, Forgotten
      <3>2. ASSUME NEW i \in Job
            PROVE  EntryUntold(retries[i], {"submit", "announce"})'
        BY <1>u, <2>1, <3>1 DEF EntryUntold, Untold, MayBecomeDaily
      <3>3. ASSUME NEW i \in Job
            PROVE  EntryUntold(retryFile[i], {"announce"})'
        BY <1>u, <2>1, <3>1, <3>2 DEF EntryUntold, Untold
      <3> QED
        BY <3>2, <3>3 DEF EntriesUntold
    <2>7. CASE \/ DropResults \/ PurgeEntries \/ ToggleWebhooks \/ AriaRestarts
               \/ SaveRetries \/ \E j \in Job : Add(j)
               \/ \E a \in Attempt : AttemptEnds(a) \/ CancelDownload(a) \/ RemoveEntry(a)
      <3>1. \/ UNCHANGED <<retries, retryFile, pass>>
            \/ retryFile' = retries /\ retries' = retries
        BY <2>7 DEF DropResults, PurgeEntries, ToggleWebhooks, AriaRestarts, SaveRetries, Add,
                    AttemptEnds, CancelDownload, RemoveEntry
      <3> QED
        BY <2>2, <2>3, <3>1
    <2>8. CASE UNCHANGED retryVars
      BY <2>3, <2>8 DEF retryVars
    <2>9. CASE RetryPass
      BY <1>5, <2>4, <2>5, <2>7, <2>9 DEF RetryPass
    <2>10. CASE RetryNext /\ ~RetryPass
      <3>1. CASE \E j \in Job : Add(j) \/ ComesDue(j)
        BY <2>5, <2>7, <3>1
      <3>2. CASE \E a \in Attempt : AttemptEnds(a) \/ CancelDownload(a) \/ RemoveEntry(a)
        BY <2>7, <3>2
      <3>3. CASE PurgeEntries \/ DropResults \/ ForgetRetry \/ ToggleWebhooks \/ AriaRestarts
        BY <2>6, <2>7, <3>3
      <3> QED
        BY <1>5, <2>10, <3>1, <3>2, <3>3 DEF RetryNext
    <2> QED
      BY <2>8, <2>9, <2>10
  <1> QED
    BY <1>1, <1>2, <1>3, <1>4, <1>5

(* What was told is remembered until the daemon restarts; then it is taken   *)
(* as known with the first history, or aria2 has forgotten it.               *)
LEMMA ToldStaysTold ==
  ASSUME EntriesInv, NewsInv, [RetryNext]_retryVars
  PROVE  ToldStays'
  <1>r. RetryTypeOK /\ pass.list \in Seq(Result)
    BY DEF EntriesInv, RetryTypeOK
  <1>g. /\ Shown' \subseteq Shown \cup ToSet(results')
        /\ \A e \in Result : told'[e] # 0 => told[e] # 0 \/ e \in Shown
    BY ShownGrows
  <1>t. \A e \in Result : told[e] # 0 /\ e.status # "error" =>
          \/ e \in hooks.seen
          \/ /\ ~hooks.initialized /\ e \notin ToSet(results)
             /\ pass.pc = "told" => e \notin ToSet(pass.list)
          \/ e \notin Shown
    BY DEF NewsInv, ToldStays
  <1>s. ToSet(results) \subseteq Shown /\ ToSet(history) \subseteq Shown /\ ToSet(pass.list) \subseteq Shown
    BY DEF Shown
  <1>1. CASE TellStoppedResults
    <2>1. /\ pass'.pc = "told" /\ pass'.list = results /\ UNCHANGED <<results, history, hooks, told>>
      BY <1>1 DEF TellStoppedResults, NoPass, ariaSide
    <2> QED
      BY <1>t, <1>g, <1>s, <2>1 DEF ToldStays
  <1>2. CASE MergeHistory \/ ScheduleRetries \/ AnnounceOff
    <2>1. /\ pass'.pc # "told" /\ UNCHANGED <<results, told>>
          /\ hooks'.seen = hooks.seen /\ hooks'.initialized = hooks.initialized
      <3>1. CASE MergeHistory
        BY <3>1, <1>r DEF MergeHistory, RetryTypeOK, ariaSide
      <3>2. CASE ScheduleRetries
        BY <3>2, <1>r DEF ScheduleRetries, RetryTypeOK, ariaSide
      <3>3. CASE AnnounceOff
        BY <3>3, <1>r DEF AnnounceOff, RetryTypeOK, NoPass, ariaSide
      <3> QED
        BY <1>2, <3>1, <3>2, <3>3
    <2> QED
      BY <1>t, <1>g, <1>s, <2>1 DEF ToldStays
  <1>3. CASE Announce
    <2>1. /\ pass.pc = "announce" /\ hooks'.initialized = TRUE /\ UNCHANGED <<results, history>>
          /\ hooks'.seen = Known(hooks, pass.list) \cup News(hooks, pass.list)
          /\ told' = [e \in Result |-> told[e] + IF e \in News(hooks, pass.list) THEN 1 ELSE 0]
      BY <1>3, <1>r DEF Announce, RetryTypeOK, ariaSide
    <2>2. hooks.seen \subseteq hooks'.seen /\ News(hooks, pass.list) \subseteq hooks'.seen
      BY <2>1 DEF Known
    <2>3. OneEach(ToSet(pass.list)) /\ ToSet(history) \subseteq ToSet(pass.list)
      BY <2>1 DEF NewsInv, ListFits
    <2>4. ASSUME NEW e \in Result, told'[e] # 0, e.status # "error"
          PROVE  e \in hooks'.seen \/ e \notin Shown'
      <3>1. CASE e \in News(hooks, pass.list)
        BY <2>2, <3>1
      <3>2. CASE e \notin News(hooks, pass.list)
        <4>1. told[e] # 0
          <5>1. told[e] \in Nat
            BY <1>r DEF RetryTypeOK
          <5> QED
            BY <2>1, <2>4, <3>2, <5>1
        <4>2. CASE e \in hooks.seen
          BY <2>2, <4>2
        <4>3. CASE ~hooks.initialized /\ e \notin ToSet(results) /\ e \in ToSet(pass.list)
          <5>1. e.gid \notin hooks.daily
            <6> SUFFICES ASSUME e.gid \in hooks.daily PROVE FALSE
              OBVIOUS
            <6>1. e.gid \in Attempt
              BY Results
            <6>2. Err(e.gid) \in ToSet(pass.list) /\ Err(e.gid).gid = e.gid /\ Err(e.gid).status = "error"
              BY <6>1, Results DEF NewsInv, DailyFits
            <6>3. Err(e.gid) = e
              BY <2>3, <4>3, <6>2 DEF OneEach
            <6> QED
              BY <2>4, <6>2, <6>3
          <5>2. e \in Known(hooks, pass.list)
            BY <4>3, <5>1 DEF Known
          <5> QED
            BY <2>1, <5>2
        <4>4. CASE e \notin ToSet(results) /\ e \notin ToSet(pass.list)
          <5>1. ToSet(pass'.list) = {}
            BY <1>3, NoItems DEF Announce, NoPass
          <5> QED
            BY <2>1, <2>3, <4>4, <5>1 DEF Shown
        <4>5. CASE e \notin Shown
          BY <1>g, <1>s, <2>1, <4>5
        <4> QED
          BY <1>t, <2>4, <4>1, <4>2, <4>3, <4>4, <4>5
      <3> QED
        BY <3>1, <3>2
    <2> QED
      BY <2>4 DEF ToldStays
  <1>4. CASE DaemonRestarts
    <2>1. /\ results' = <<>> /\ hooks'.initialized = FALSE /\ pass'.pc = "idle"
      BY <1>4 DEF DaemonRestarts, Reload, QuietHooks, NoPass
    <2> QED
      BY <2>1, NoItems DEF ToldStays
  <1>5. CASE /\ ~TellStoppedResults /\ ~MergeHistory /\ ~ScheduleRetries /\ ~AnnounceOff
             /\ ~Announce /\ ~DaemonRestarts
    <2>1. /\ UNCHANGED told /\ hooks'.seen = hooks.seen /\ hooks'.initialized = hooks.initialized
          /\ pass'.list = pass.list /\ (pass'.pc = "told" => pass.pc = "told")
      BY <1>5, QuietSteps
    <2>2. ASSUME NEW e \in Result, told[e] # 0, e.status # "error", e \in ToSet(results')
          PROVE  e \in ToSet(results)
      <3>1. e.gid \notin running
        BY <2>2 DEF NewsInv, ResultsFit
      <3> QED
        BY <2>2, <3>1, AriaSteps DEF AriaQuiet, AriaReloads, AriaGets, AriaEnds
    <2>3. ASSUME NEW e \in Result, told'[e] # 0, e.status # "error"
          PROVE  \/ e \in hooks'.seen
                 \/ /\ ~hooks'.initialized /\ e \notin ToSet(results')
                    /\ pass'.pc = "told" => e \notin ToSet(pass'.list)
                 \/ e \notin Shown'
      BY <1>t, <1>g, <1>s, <2>1, <2>2, <2>3
    <2> QED
      BY <2>3 DEF ToldStays
  <1> QED
    BY <1>1, <1>2, <1>3, <1>4, <1>5

-----------------------------------------------------------------------------
AnnounceInv == NewsInv /\ AnnouncedOnce

(* A refresh announces only what was never told. *)
LEMMA NewsIsUntold ==
  ASSUME EntriesInv, NewsInv, pass.pc = "announce", NEW e \in News(hooks, pass.list)
  PROVE  e \in Result /\ told[e] = 0
  <1>1. /\ e \in ToSet(pass.list) /\ (e.status = "error" => e.gid \in hooks.daily)
        /\ e \notin Known(hooks, pass.list) /\ hooks.seen \subseteq Known(hooks, pass.list)
    BY DEF News, Known
  <1>2. e \in Result /\ e.gid \in Attempt /\ e \in Shown
    BY <1>1, ToSetIsResults, Results DEF EntriesInv, RetryTypeOK, Shown
  <1>3. CASE e.status = "error"
    <2>1. e = Err(e.gid)
      BY <1>2, <1>3, Results
    <2> QED
      BY <1>1, <1>2, <1>3, <2>1 DEF NewsInv, DailyFits, Untold
  <1>4. CASE e.status # "error"
    <2> SUFFICES ASSUME told[e] # 0 PROVE FALSE
      BY <1>2
    <2>1. ~hooks.initialized
      BY <1>1, <1>2, <1>4 DEF NewsInv, ToldStays
    <2>2. e.gid \in hooks.daily
      BY <1>1, <2>1 DEF Known
    <2>3. Err(e.gid) \in ToSet(pass.list) /\ Err(e.gid).gid = e.gid /\ Err(e.gid).status = "error"
      BY <1>2, <2>2, Results DEF NewsInv, DailyFits
    <2>4. OneEach(ToSet(pass.list))
      BY DEF NewsInv, ListFits
    <2>5. Err(e.gid) = e
      BY <1>1, <2>3, <2>4 DEF OneEach
    <2> QED
      BY <1>4, <2>3, <2>5
  <1> QED
    BY <1>3, <1>4

(* Only Announce tells anything. *)
LEMMA OnlyAnnounceTells ==
  ASSUME EntriesInv, [RetryNext]_retryVars, ~Announce
  PROVE  UNCHANGED told
  <1>1. CASE TellStoppedResults \/ MergeHistory \/ ScheduleRetries \/ AnnounceOff \/ DaemonRestarts
    BY <1>1 DEF TellStoppedResults, MergeHistory, ScheduleRetries, AnnounceOff, DaemonRestarts
  <1> QED
    BY <1>1, QuietSteps

(* Together: what is announced is news, so nothing is told twice. *)
LEMMA AnnounceInvAlways == RetrySpec => [](EntriesInv /\ AnnounceInv)
  <1>1. ASSUME RetryInit
        PROVE  AnnounceInv
    <2>1. Shown = {} /\ ToSet(results) = {} /\ ToSet(history) = {}
      BY <1>1, NoItems DEF RetryInit, Shown, NoPass
    <2>2. \A e \in Result : told[e] = 0
      BY <1>1 DEF RetryInit
    <2>3. \A j \in Job : ~MayBecomeDaily(retries[j]) /\ ~MayBecomeDaily(retryFile[j])
      BY <1>1 DEF RetryInit, MayBecomeDaily
    <2>4. pass = NoPass /\ hooks.daily = {}
      BY <1>1 DEF RetryInit, QuietHooks
    <2> QED
      BY <2>1, <2>2, <2>3, <2>4 DEF AnnounceInv, NewsInv, ResultsFit, ListFits, DailyFits, EntriesUntold,
          EntryUntold, ToldStays, AnnouncedOnce, OneEach, NoPass
  <1>2. ASSUME EntriesInv, EntriesInv', AnnounceInv, [RetryNext]_retryVars
        PROVE  AnnounceInv'
    <2>1. NewsInv'
      BY <1>2, ResultsStayFit, ListStaysFit, DailyStaysFit, EntriesStayUntold, ToldStaysTold
          DEF AnnounceInv, NewsInv
    <2>2. AnnouncedOnce'
      <3>1. CASE Announce
        <4>1. /\ pass.pc = "announce"
              /\ told' = [e \in Result |-> told[e] + IF e \in News(hooks, pass.list) THEN 1 ELSE 0]
          BY <3>1 DEF Announce
        <4>2. \A e \in Result : told[e] \in Nat /\ told[e] <= 1
          BY <1>2 DEF AnnounceInv, AnnouncedOnce, EntriesInv, RetryTypeOK
        <4>3. \A e \in News(hooks, pass.list) : told[e] = 0
          BY <1>2, <4>1, NewsIsUntold DEF AnnounceInv
        <4> QED
          BY <4>1, <4>2, <4>3 DEF AnnouncedOnce
      <3>2. CASE ~Announce
        BY <1>2, <3>2, OnlyAnnounceTells DEF AnnounceInv, AnnouncedOnce
      <3> QED
        BY <3>1, <3>2
    <2> QED
      BY <2>1, <2>2 DEF AnnounceInv
  <1> QED
    BY <1>1, <1>2, EntriesAlways, PTL DEF RetrySpec

(* No end of a download is announced twice, however often the daemon or      *)
(* aria2 restarts, users remove or cancel downloads, RPCs are refused or     *)
(* webhooks are switched.                                                    *)
THEOREM NoSecondAnnouncement == RetrySpec => []AnnouncedOnce
  <1>1. AnnounceInv => AnnouncedOnce
    BY DEF AnnounceInv
  <1> QED
    BY <1>1, AnnounceInvAlways, PTL

(* The failure that makes a job daily is announced by the very refresh that  *)
(* notices it, the daemon's first one too: the entry was never told before.  *)
THEOREM DailyFailureIsTold == RetrySpec => DailyIsAnnounced
  <1> DEFINE A == \A a \in hooks.daily :
                     pass.pc = "announce" /\ pass.hooked /\ pass'.pc = "idle" /\ JobOf(a) \in Big
                     /\ hooks'.daily = {} /\ UNCHANGED spent
                         => told'[[gid |-> a, status |-> "error"]] = 1
  <1>1. ASSUME EntriesInv /\ AnnounceInv, [RetryNext]_retryVars
        PROVE  [A]_retryVars
    <2> SUFFICES ASSUME NEW a \in hooks.daily, pass.pc = "announce", pass.hooked, pass'.pc = "idle",
                        JobOf(a) \in Big, hooks'.daily = {}, UNCHANGED spent
                 PROVE  told'[Err(a)] = 1
      BY DEF Err
    <2>1. Announce
      <3>1. ~DaemonRestarts
        <4> SUFFICES ASSUME DaemonRestarts PROVE FALSE
          OBVIOUS
        <4>1. RetryTypeOK /\ Meddle("daemonExit") /\ "daemonExit" \in Meddling
          BY <1>1 DEF DaemonRestarts, EntriesInv, Meddling
        <4>2. spent'["daemonExit"] = spent["daemonExit"] + 1
          BY <4>1, Meddled
        <4>3. spent["daemonExit"] \in Nat
          BY <4>1, RetryAssumption DEF RetryTypeOK
        <4> QED
          BY <4>2, <4>3
      <3>2. /\ ~TellStoppedResults /\ ~MergeHistory /\ ~ScheduleRetries /\ ~AnnounceOff
        BY DEF TellStoppedResults, MergeHistory, ScheduleRetries, AnnounceOff
      <3> QED
        BY <1>1, <3>1, <3>2, QuietSteps
    <2>2. a \in Attempt /\ Err(a) \in Result /\ Err(a).gid = a /\ Err(a).status = "error"
      BY <1>1, Results DEF EntriesInv, RetryTypeOK
    <2>3. Err(a) \in ToSet(pass.list) /\ told[Err(a)] = 0 /\ Err(a) \notin hooks.seen
      BY <1>1 DEF AnnounceInv, NewsInv, DailyFits, Untold
    <2>4. Err(a) \in News(hooks, pass.list)
      BY <2>2, <2>3 DEF News, Known
    <2> QED
      BY <2>1, <2>2, <2>3, <2>4 DEF Announce
  <1>2. RetrySpec => [][A]_retryVars
    BY <1>1, AnnounceInvAlways, PTL DEF RetrySpec
  <1> QED
    BY <1>2 DEF DailyIsAnnounced

-----------------------------------------------------------------------------
(***************************************************************************)
(* One attempt for each download that was asked for.  As long as nothing   *)
(* is lost, each of them is an attempt that runs, or one that failed and   *)
(* may still be made again: the attempt is then a result that aria2        *)
(* remembers or a refresh has just read, the failure the history shows for *)
(* its job if no other attempt has an entry, or the one an entry is due    *)
(* for.  An entry about to be forgotten counts until then.                 *)
(***************************************************************************)
Calm == NoExits /\ spent["erasure"] = 0 /\ spent["lost"] = 0 /\ spent["leftover"] = 0
FailedIn(items, a) == Err(a) \in ToSet(items)
MayRunAgain(j, a) ==
    \/ a \in running
    \/ FailedIn(results, a)
    \/ pass.pc = "told" /\ FailedIn(pass.list, a)
    \/ FailedIn(history, a) /\ (HasRetry(j) => retries[j].gid = a)
    \/ HasRetry(j) /\ retries[j].gid = a /\ (retries[j].due # "no" \/ removal.gid = a)
Open(j) == {a \in Attempt : JobOf(a) = j /\ MayRunAgain(j, a)}

ShownIsOver == NoExits => \A e \in Shown : e.gid \notin running
ListIsHistory ==
    NoExits /\ spent["erasure"] = 0 /\ pass.pc \in {"merged", "submit", "announce"}
        => pass.list = history
DueIsOver ==
    NoExits => \A j \in Job : HasRetry(j) /\ retries[j].due # "no" => retries[j].gid \notin running
CancelledIsOver ==
    /\ removal.op \in {"remove", "purge"} => spent["erasure"] > 0
    /\ removal.op = "none" => removal = NoRemoval
    /\ NoExits /\ removal.op = "cancel" =>
          /\ removal.pc = "forget" /\ removal.gid \in Attempt /\ Given(removal.gid)
          /\ removal.gid \notin running /\ Err(removal.gid) \notin Shown
OpenBounded == Calm => \A j \in Job : Cardinality(Open(j)) <= added[j]
OneEnd == OneFinalEach(ToSet(history))
OpenInv == ShownIsOver /\ ListIsHistory /\ DueIsOver /\ CancelledIsOver /\ OneEnd
CalmInv == OpenInv /\ OpenBounded

(* What is spent stays spent, so a calm state comes after calm states only, *)
(* by a step that spends none of what would disturb it.                     *)
LEMMA Spending ==
  ASSUME EntriesInv, [RetryNext]_retryVars
  PROVE  /\ \A k \in Meddling : spent[k] \in Nat /\ spent'[k] \in Nat /\ spent[k] <= spent'[k]
         /\ \A k \in Meddling : Meddle(k) => spent'[k] > 0
  <1> USE DEF ariaSide, daemonSide
  <1>1. /\ spent \in [Meddling -> 0 .. MaxMeddling] /\ MaxMeddling \in Nat
    BY RetryAssumption DEF EntriesInv, RetryTypeOK
  <1>2. ASSUME NEW k \in Meddling, Meddle(k)
        PROVE  /\ \A i \in Meddling : spent[i] \in Nat /\ spent'[i] \in Nat /\ spent[i] <= spent'[i]
               /\ spent'[k] > 0
    <2>1. /\ spent' \in [Meddling -> 0 .. MaxMeddling] /\ spent'[k] = spent[k] + 1
          /\ \A other \in Meddling : other # k => spent'[other] = spent[other]
      BY <1>2, Meddled DEF EntriesInv
    <2>2. \A i \in Meddling : spent[i] \in Nat /\ spent'[i] \in Nat
      BY <1>1, <2>1
    <2> QED
      BY <2>1, <2>2
  <1>3. UNCHANGED spent \/ \E k \in Meddling : Meddle(k)
    <2>1. CASE UNCHANGED retryVars
      BY <2>1 DEF retryVars
    <2>2. CASE \E j \in Job : SubmitRetry(j) \/ SubmitRefused(j) \/ SubmitUnanswered(j)
      BY <2>2 DEF SubmitRetry, SubmitRefused, SubmitUnanswered, Meddling
    <2>3. CASE \/ TellStoppedResults \/ MergeHistory \/ ScheduleRetries \/ SaveRetries
               \/ AnnounceOff \/ Announce \/ \E j \in Job : Add(j) \/ ComesDue(j)
      BY <2>3 DEF TellStoppedResults, MergeHistory, ScheduleRetries, SaveRetries, AnnounceOff,
                  Announce, Add, ComesDue
    <2>4. CASE \E a \in Attempt : AttemptEnds(a) \/ CancelDownload(a) \/ RemoveEntry(a)
      BY <2>4 DEF AttemptEnds, CancelDownload, RemoveEntry, NewRemoval, Meddling
    <2>5. CASE PurgeEntries \/ DropResults \/ ForgetRetry \/ ToggleWebhooks
      BY <2>5 DEF PurgeEntries, DropResults, ForgetRetry, ToggleWebhooks, NewRemoval, Meddling
    <2>6. CASE AriaRestarts \/ DaemonRestarts
      BY <2>6 DEF AriaRestarts, DaemonRestarts, Meddling
    <2> QED
      BY <2>1, <2>2, <2>3, <2>4, <2>5, <2>6 DEF RetryNext, RetryPass
  <1>4. CASE UNCHANGED spent
    <2>1. \A k \in Meddling : spent[k] \in Nat /\ spent'[k] \in Nat /\ spent[k] <= spent'[k]
      BY <1>1, <1>4
    <2> QED
      BY <2>1, <1>2
  <1>5. CASE \E k \in Meddling : Meddle(k)
    BY <1>2, <1>5
  <1> QED
    BY <1>3, <1>4, <1>5

(* The same for the three kinds of calm the invariants below ask for. *)
LEMMA CalmSteps ==
  ASSUME EntriesInv, [RetryNext]_retryVars
  PROVE  /\ NoExits' => NoExits /\ ~AriaRestarts /\ ~DaemonRestarts
         /\ spent'["erasure"] = 0 =>
               /\ spent["erasure"] = 0 /\ ~PurgeEntries /\ \A a \in Attempt : ~RemoveEntry(a)
         /\ Calm' => Calm /\ \A j \in Job : ~SubmitUnanswered(j) /\ ~Meddle("leftover")
  <1>1. \A k \in Meddling : /\ spent[k] \in Nat /\ spent'[k] \in Nat /\ spent[k] <= spent'[k]
                            /\ Meddle(k) => spent'[k] > 0
    BY Spending
  <1>2. \A k \in Meddling : spent'[k] = 0 => spent[k] = 0 /\ ~Meddle(k)
    BY <1>1
  <1>3. {"erasure", "lost", "leftover", "ariaExit", "daemonExit"} \subseteq Meddling
    BY DEF Meddling
  <1>4. NoExits' => NoExits /\ ~AriaRestarts /\ ~DaemonRestarts
    BY <1>2, <1>3 DEF NoExits, AriaRestarts, DaemonRestarts
  <1>5. spent'["erasure"] = 0 =>
               /\ spent["erasure"] = 0 /\ ~PurgeEntries /\ \A a \in Attempt : ~RemoveEntry(a)
    BY <1>2, <1>3 DEF PurgeEntries, RemoveEntry, NewRemoval
  <1> QED
    BY <1>2, <1>3, <1>4, <1>5 DEF Calm, SubmitUnanswered

(* What is shown is over: only what ends is shown, and what runs anew is new. *)
LEMMA ShownStaysOver ==
  ASSUME EntriesInv, ShownIsOver, [RetryNext]_retryVars
  PROVE  ShownIsOver'
  <1> SUFFICES ASSUME NoExits' PROVE \A e \in Shown' : e.gid \notin running'
    BY DEF ShownIsOver
  <1>1. NoExits /\ ~AriaRestarts /\ ~DaemonRestarts
    BY CalmSteps
  <1>2. /\ \A e \in Shown : e.gid \notin running
        /\ Shown' \subseteq Shown \cup ToSet(results') /\ ToSet(results) \subseteq Shown
    BY <1>1, ShownGrows DEF ShownIsOver, Shown
  <1>3. CASE AriaQuiet
    BY <1>2, <1>3 DEF AriaQuiet
  <1>4. ASSUME NEW a, AriaGets(a)
        PROVE  \A e \in Shown' : e.gid \notin running'
    <2>1. \A e \in Shown : e.gid # a
      BY <1>4 DEF AriaGets, EntriesInv, OnlyGiven
    <2> QED
      BY <1>2, <1>4, <2>1 DEF AriaGets
  <1>5. ASSUME NEW x, AriaEnds(x)
        PROVE  \A e \in Shown' : e.gid \notin running'
    BY <1>2, <1>5 DEF AriaEnds
  <1> QED
    BY <1>1, <1>3, <1>4, <1>5, AriaSteps

(* The history changes when results are merged into it, or is erased. *)
LEMMA HistorySteps ==
  ASSUME EntriesInv, [RetryNext]_retryVars
  PROVE  \/ history' = history
         \/ MergeHistory
         \/ PurgeEntries
         \/ \E a \in Attempt : RemoveEntry(a)
  <1> USE DEF ariaSide, daemonSide
  <1>1. CASE UNCHANGED retryVars
    BY <1>1 DEF retryVars
  <1>2. CASE \E j \in Job : SubmitRetry(j) \/ SubmitRefused(j) \/ SubmitUnanswered(j)
                            \/ Add(j) \/ ComesDue(j)
    BY <1>2 DEF SubmitRetry, SubmitRefused, SubmitUnanswered, Add, ComesDue
  <1>3. CASE \/ TellStoppedResults \/ ScheduleRetries \/ SaveRetries \/ AnnounceOff \/ Announce
    BY <1>3 DEF TellStoppedResults, ScheduleRetries, SaveRetries, AnnounceOff, Announce
  <1>4. CASE \E a \in Attempt : AttemptEnds(a) \/ CancelDownload(a)
    BY <1>4 DEF AttemptEnds, CancelDownload
  <1>5. CASE DropResults \/ ForgetRetry \/ ToggleWebhooks \/ AriaRestarts \/ DaemonRestarts
    BY <1>5 DEF DropResults, ForgetRetry, ToggleWebhooks, AriaRestarts, DaemonRestarts
  <1> QED
    BY <1>1, <1>2, <1>3, <1>4, <1>5 DEF RetryNext, RetryPass

(* It shows one end of each job, and a refresh works with it once merged. *)
LEMMA HistoryStays ==
  ASSUME EntriesInv, OneEnd, ListIsHistory, [RetryNext]_retryVars
  PROVE  OneEnd' /\ ListIsHistory'
  <1>r. RetryTypeOK /\ history \in Seq(Result) /\ pass.list \in Seq(Result)
    BY DEF EntriesInv, RetryTypeOK
  <1>1. OneEnd'
    <2>1. CASE history' = history
      BY <2>1 DEF OneEnd
    <2>2. CASE MergeHistory
      BY <2>2, <1>r, MergeItems DEF MergeHistory, OneEnd
    <2>3. CASE PurgeEntries \/ \E a \in Attempt : RemoveEntry(a)
      <3>1. ToSet(history') \subseteq ToSet(history)
        BY <2>3, <1>r, NoItems, WithoutItems DEF PurgeEntries, RemoveEntry
      <3> QED
        BY <3>1 DEF OneEnd, OneFinalEach
    <2> QED
      BY <2>1, <2>2, <2>3, HistorySteps
  <1>2. ListIsHistory'
    <2> SUFFICES ASSUME NoExits', spent'["erasure"] = 0,
                        pass'.pc \in {"merged", "submit", "announce"}
                 PROVE  pass'.list = history'
      BY DEF ListIsHistory
    <2>1. NoExits /\ spent["erasure"] = 0 /\ ~DaemonRestarts
          /\ ~PurgeEntries /\ \A a \in Attempt : ~RemoveEntry(a)
      BY CalmSteps
    <2>2. CASE MergeHistory
      BY <2>2, <1>r DEF MergeHistory, RetryTypeOK
    <2>3. CASE ~MergeHistory
      <3>1. history' = history
        BY <2>1, <2>3, HistorySteps
      <3>2. ~TellStoppedResults /\ ~AnnounceOff /\ ~Announce
        <4>1. TellStoppedResults => pass'.pc = "told"
          BY DEF TellStoppedResults, NoPass
        <4>2. AnnounceOff \/ Announce => pass'.pc = "idle"
          BY DEF AnnounceOff, Announce, NoPass
        <4> QED
          BY <4>1, <4>2
      <3>3. CASE ScheduleRetries
        BY <2>1, <3>1, <3>3, <1>r DEF ScheduleRetries, RetryTypeOK, ListIsHistory
      <3>4. CASE ~ScheduleRetries
        <4>1. pass'.list = pass.list /\ (pass' = pass \/ pass.pc = "submit")
          BY <2>1, <2>3, <3>2, <3>4, QuietSteps
        <4> QED
          BY <2>1, <3>1, <4>1 DEF ListIsHistory
      <3> QED
        BY <3>3, <3>4
    <2> QED
      BY <2>2, <2>3
  <1> QED
    BY <1>1, <1>2

(* An entry is changed by the refresh, by time, or by being forgotten. *)
LEMMA EntrySteps ==
  ASSUME EntriesInv, [RetryNext]_retryVars, ~DaemonRestarts
  PROVE  \/ retries' = retries
         \/ ScheduleRetries
         \/ \E j \in Job : SubmitRetry(j) \/ SubmitRefused(j) \/ SubmitUnanswered(j) \/ ComesDue(j)
         \/ ForgetRetry
  <1> USE DEF ariaSide, daemonSide
  <1>1. CASE UNCHANGED retryVars
    BY <1>1 DEF retryVars
  <1>2. CASE \/ TellStoppedResults \/ MergeHistory \/ SaveRetries \/ AnnounceOff \/ Announce
             \/ \E j \in Job : Add(j)
    BY <1>2 DEF TellStoppedResults, MergeHistory, SaveRetries, AnnounceOff, Announce, Add
  <1>3. CASE \E a \in Attempt : AttemptEnds(a) \/ CancelDownload(a) \/ RemoveEntry(a)
    BY <1>3 DEF AttemptEnds, CancelDownload, RemoveEntry
  <1>4. CASE DropResults \/ PurgeEntries \/ ToggleWebhooks \/ AriaRestarts
    BY <1>4 DEF DropResults, PurgeEntries, ToggleWebhooks, AriaRestarts
  <1> QED
    BY <1>1, <1>2, <1>3, <1>4 DEF RetryNext, RetryPass

(* What a refresh makes of the entry of a job: it stays, unless the job has  *)
(* succeeded; then it is dropped.  Or it is due for the failure shown.        *)
DoneIn(items, j) ==
    \E c \in Attempt : JobOf(c) = j /\ [gid |-> c, status |-> "complete"] \in ToSet(items)
EntryIsKept(j) == retries'[j] = retries[j] /\ (HasRetry(j) => ~DoneIn(pass.list, j))
EntryIsDropped(j) == retries'[j] = NoRetry /\ DoneIn(pass.list, j)
EntryComesDue(j, a) ==
    /\ a \in Attempt /\ JobOf(a) = j /\ FailedIn(pass.list, a)
    /\ retries'[j] # NoRetry /\ retries'[j].gid = a /\ retries'[j].due = "later"
    /\ HasRetry(j) => retries[j].gid = a \/ DoneIn(pass.list, j)
LEMMA SchedulesFailures ==
  ASSUME EntriesInv, ScheduleRetries, NEW j \in Job
  PROVE  EntryIsKept(j) \/ EntryIsDropped(j) \/ \E a : EntryComesDue(j, a)
  <1> DEFINE remaining == StillWanted(pass.list)
  <1>r. RetryTypeOK /\ retries \in [Job -> Retry \cup {NoRetry}] /\ pass.list \in Seq(Result)
    BY DEF EntriesInv, RetryTypeOK
  <1>1. WithEnd(pass.list, "complete") =
            {c \in Attempt : [gid |-> c, status |-> "complete"] \in ToSet(pass.list)}
    BY <1>r, WithEndItems
  <1>2. remaining \in [Job -> Retry \cup {NoRetry}]
    BY <1>r DEF StillWanted
  <1>3. \/ remaining[j] = retries[j] /\ (HasRetry(j) => ~DoneIn(pass.list, j))
        \/ remaining[j] = NoRetry /\ DoneIn(pass.list, j)
    <2>2. HasRetry(j) => JobOf(retries[j].gid) = j
      BY DEF EntriesInv, OnlyGiven, EntryGiven, HasRetry
    <2>3. CASE HasRetry(j) /\ Succeeded(retries[j], j, pass.list)
      <3>1. remaining[j] = NoRetry
        BY <2>3 DEF StillWanted
      <3>2. DoneIn(pass.list, j)
        BY <1>1, <2>2, <2>3 DEF Succeeded, DoneIn
      <3> QED
        BY <3>1, <3>2
    <2>4. CASE ~(HasRetry(j) /\ Succeeded(retries[j], j, pass.list))
      <3>1. remaining[j] = retries[j]
        BY <2>4 DEF StillWanted
      <3>2. HasRetry(j) => ~DoneIn(pass.list, j)
        BY <1>1, <2>4 DEF Succeeded, DoneIn
      <3> QED
        BY <3>1, <3>2
    <2> QED
      BY <2>3, <2>4
  <1>4. retries' = Scheduled(remaining, pass.list)
    BY DEF ScheduleRetries
  <1> HIDE DEF remaining
  <1>5. /\ \A a \in Unscheduled(remaining, pass.list) :
               /\ a \in Attempt /\ Err(a) \in ToSet(pass.list)
               /\ Entry(remaining, a) \in Retry
               /\ Entry(remaining, a).gid = a /\ Entry(remaining, a).due = "no"
        /\ \/ retries'[j] = remaining[j]
           \/ \E a \in Unscheduled(remaining, pass.list) :
                 /\ JobOf(a) = j
                 /\ retries'[j] = [Entry(remaining, a) EXCEPT !.due = "later",
                                       !.daily = @ \/ BecomesDaily(Entry(remaining, a))]
    <2>l. PICK list \in Seq(Result) : list = pass.list
      BY <1>r
    <2>s. PICK rem \in [Job -> Retry \cup {NoRetry}] : rem = remaining
      BY <1>2
    <2>1. /\ \A a \in Unscheduled(rem, list) :
               /\ a \in Attempt /\ Err(a) \in ToSet(list)
               /\ Entry(rem, a) \in Retry
               /\ Entry(rem, a).gid = a /\ Entry(rem, a).due = "no"
          /\ \A i \in Job :
               \/ /\ Scheduled(rem, list)[i] = rem[i]
                  /\ \A a \in Unscheduled(rem, list) : JobOf(a) # i
               \/ \E a \in Unscheduled(rem, list) :
                     /\ JobOf(a) = i
                     /\ Scheduled(rem, list)[i] =
                          [Entry(rem, a) EXCEPT !.due = "later",
                                                !.daily = @ \/ BecomesDaily(Entry(rem, a))]
      BY ScheduledEntries
    <2> QED
      BY <1>4, <2>l, <2>s, <2>1
  <1>6. CASE retries'[j] = remaining[j]
    BY <1>3, <1>6 DEF EntryIsKept, EntryIsDropped
  <1>7. ASSUME NEW a \in Unscheduled(remaining, pass.list), JobOf(a) = j,
               retries'[j] = [Entry(remaining, a) EXCEPT !.due = "later",
                                    !.daily = @ \/ BecomesDaily(Entry(remaining, a))]
        PROVE  EntryComesDue(j, a)
    <2>e. PICK e : e = Entry(remaining, a)
      OBVIOUS
    <2>1. a \in Attempt /\ FailedIn(pass.list, a) /\ e \in Retry /\ e.gid = a
      BY <1>5, <2>e DEF FailedIn
    <2>2. retries'[j] = [e EXCEPT !.due = "later", !.daily = @ \/ BecomesDaily(e)]
      BY <1>7, <2>e
    <2>3. retries'[j] \in Retry \cup {NoRetry} /\ retries'[j].gid = a /\ retries'[j].due = "later"
      BY <2>1, <2>2 DEF Retry
    <2>4. a # NoGid
      BY <2>1, Attempts
    <2>5. retries'[j] # NoRetry
      BY <2>3, <2>4 DEF NoRetry
    <2>6. remaining[j] # NoRetry => remaining[j].gid = a
      BY <1>7, <2>1, <2>e DEF Entry
    <2>7. HasRetry(j) => retries[j].gid = a \/ DoneIn(pass.list, j)
      BY <1>3, <2>6 DEF HasRetry
    <2> QED
      BY <1>7, <2>1, <2>3, <2>5, <2>7 DEF EntryComesDue
  <1> QED
    BY <1>5, <1>6, <1>7

(* Nothing that runs is due to be made again. *)
LEMMA DueStaysOver ==
  ASSUME EntriesInv, EntriesInv', ShownIsOver, ShownIsOver', DueIsOver, [RetryNext]_retryVars
  PROVE  DueIsOver'
  <1> SUFFICES ASSUME NoExits', NEW j \in Job, HasRetry(j)', retries'[j].due # "no"
               PROVE  retries'[j].gid \notin running'
    BY DEF DueIsOver
  <1>r. retries \in [Job -> Retry \cup {NoRetry}] /\ RetryTypeOK
    BY DEF EntriesInv, RetryTypeOK
  <1>1. NoExits /\ ~AriaRestarts /\ ~DaemonRestarts
    BY CalmSteps
  <1>2. ASSUME HasRetry(j), retries[j].due # "no", retries'[j].gid = retries[j].gid
        PROVE  retries'[j].gid \notin running'
    <2>1. retries[j].gid \notin running /\ Given(retries[j].gid)
      BY <1>1, <1>2 DEF DueIsOver, EntriesInv, OnlyGiven, EntryGiven, HasRetry
    <2>2. CASE AriaQuiet \/ \E x : AriaEnds(x)
      BY <1>2, <2>1, <2>2 DEF AriaQuiet, AriaEnds
    <2>3. CASE \E a : AriaGets(a)
      BY <1>2, <2>1, <2>3 DEF AriaGets
    <2> QED
      BY <1>1, <2>2, <2>3, AriaSteps
  <1>3. CASE retries'[j] = retries[j]
    BY <1>2, <1>3 DEF HasRetry
  <1>4. CASE ScheduleRetries
    <2>1. ASSUME NEW a \in Attempt, FailedIn(pass.list, a), retries'[j].gid = a
          PROVE  retries'[j].gid \notin running'
      <3>1. a \notin running
        BY <1>1, <2>1, Results DEF FailedIn, ShownIsOver, Shown
      <3>2. running' = running
        BY <1>4 DEF ScheduleRetries, ariaSide
      <3> QED
        BY <2>1, <3>1, <3>2
    <2>2. CASE EntryIsKept(j)
      BY <1>3, <2>2 DEF EntryIsKept
    <2>3. CASE EntryIsDropped(j)
      BY <2>3 DEF EntryIsDropped, HasRetry
    <2>4. CASE \E a : EntryComesDue(j, a)
      BY <2>1, <2>4 DEF EntryComesDue
    <2> QED
      BY <1>4, <2>2, <2>3, <2>4, SchedulesFailures
  <1>5. ASSUME NEW i \in Job,
               SubmitRetry(i) \/ SubmitRefused(i) \/ SubmitUnanswered(i) \/ ComesDue(i)
        PROVE  retries'[j].gid \notin running'
    <2>1. CASE i # j
      <3>1. retries'[j] = retries[j]
        BY <1>5, <1>r, <2>1 DEF SubmitRetry, SubmitRefused, SubmitUnanswered, ComesDue
      <3> QED
        BY <1>3, <3>1
    <2>2. CASE i = j
      <3>1. retries[j] \in Retry /\ HasRetry(j) /\ retries[j].due # "no"
        BY <1>5, <2>2, <1>r DEF SubmitRetry, SubmitRefused, SubmitUnanswered, ComesDue, HasRetry,
                                EntriesInv, DueEntries
      <3>2. CASE SubmitRetry(j)
        <4>1. retries'[j].due = "no"
          BY <3>1, <3>2, <1>r DEF SubmitRetry, Submitted, Retry
        <4> QED
          BY <4>1
      <3>3. CASE SubmitRefused(j) \/ SubmitUnanswered(j) \/ ComesDue(j)
        <4>1. retries'[j].gid = retries[j].gid
          BY <3>1, <3>3, <1>r DEF SubmitRefused, SubmitUnanswered, ComesDue, Retry
        <4> QED
          BY <1>2, <3>1, <4>1
      <3> QED
        BY <1>5, <2>2, <3>2, <3>3
    <2> QED
      BY <2>1, <2>2
  <1>6. CASE ForgetRetry
    <2>1. retries'[j] \in {retries[j], NoRetry}
      BY <1>6 DEF ForgetRetry, Forgotten
    <2> QED
      BY <1>3, <2>1 DEF HasRetry
  <1> QED
    BY <1>1, <1>3, <1>4, <1>5, <1>6, EntrySteps

(* What was once given to aria2 stays so. *)
LEMMA GivenGrows ==
  ASSUME EntriesInv, EntriesInv', [RetryNext]_retryVars, NEW a \in Attempt, Given(a)
  PROVE  Given(a)'
  <1> USE DEF ariaSide, daemonSide
  <1>r. RetryTypeOK /\ used \in [Job -> 0 .. MaxAttempts] /\ used' \in [Job -> 0 .. MaxAttempts]
        /\ MaxAttempts \in Nat
    BY HistoryAssumption DEF EntriesInv, RetryTypeOK
  <1>1. UNCHANGED used \/ \E j \in Job : used' = [used EXCEPT ![j] = @ + 1]
    <2>1. CASE UNCHANGED retryVars
      BY <2>1 DEF retryVars
    <2>2. CASE \E j \in Job : SubmitRetry(j) \/ SubmitRefused(j) \/ SubmitUnanswered(j)
                              \/ Add(j) \/ ComesDue(j)
      BY <2>2 DEF SubmitRetry, SubmitRefused, SubmitUnanswered, Add, ComesDue
    <2>3. CASE \/ TellStoppedResults \/ MergeHistory \/ ScheduleRetries \/ SaveRetries
               \/ AnnounceOff \/ Announce
      BY <2>3 DEF TellStoppedResults, MergeHistory, ScheduleRetries, SaveRetries, AnnounceOff, Announce
    <2>4. CASE \E b \in Attempt : AttemptEnds(b) \/ CancelDownload(b) \/ RemoveEntry(b)
      BY <2>4 DEF AttemptEnds, CancelDownload, RemoveEntry, End
    <2>5. CASE PurgeEntries \/ DropResults \/ ForgetRetry \/ ToggleWebhooks
      BY <2>5 DEF PurgeEntries, DropResults, ForgetRetry, ToggleWebhooks
    <2>6. CASE AriaRestarts \/ DaemonRestarts
      BY <2>6 DEF AriaRestarts, DaemonRestarts, Reload
    <2> QED
      BY <2>1, <2>2, <2>3, <2>4, <2>5, <2>6 DEF RetryNext, RetryPass
  <1>2. \A i \in Job : used[i] <= used'[i]
    BY <1>1, <1>r
  <1> QED
    BY <1>r, <1>2, GivenStays

(* A removal is one of three requests, and only a cancel is no erasure. *)
LEMMA CancelStaysOver ==
  ASSUME EntriesInv, EntriesInv', ShownIsOver, CancelledIsOver, [RetryNext]_retryVars
  PROVE  CancelledIsOver'
  <1> USE DEF ariaSide, daemonSide
  <1>r. RetryTypeOK /\ spent["erasure"] \in Nat /\ spent'["erasure"] \in Nat
        /\ spent["erasure"] <= spent'["erasure"]
    BY Spending DEF EntriesInv, Meddling
  <1>1. CASE UNCHANGED removal
    <2>1. removal.op \in {"remove", "purge"} => spent'["erasure"] > 0
      BY <1>r DEF CancelledIsOver
    <2>2. removal.op = "none" => removal = NoRemoval
      BY DEF CancelledIsOver
    <2>3. ASSUME NoExits', removal.op = "cancel"
          PROVE  /\ removal.pc = "forget" /\ removal.gid \in Attempt /\ Given(removal.gid)'
                 /\ removal.gid \notin running' /\ Err(removal.gid) \notin Shown'
      <3>a. PICK a : a = removal.gid
        OBVIOUS
      <3>1. NoExits /\ ~AriaRestarts /\ ~DaemonRestarts
        BY <2>3, CalmSteps
      <3>2. /\ removal.pc = "forget" /\ a \in Attempt /\ Given(a)
            /\ a \notin running /\ Err(a) \notin Shown
        BY <2>3, <3>1, <3>a DEF CancelledIsOver
      <3>3. /\ Shown' \subseteq Shown \cup ToSet(results') /\ ToSet(results) \subseteq Shown
        BY ShownGrows DEF Shown
      <3>4. Err(a).gid = a
        BY DEF Err
      <3>5. a \notin running' /\ Err(a) \notin ToSet(results')
        <4>1. CASE AriaQuiet
          BY <3>2, <3>3, <4>1 DEF AriaQuiet
        <4>2. CASE \E b : AriaGets(b)
          BY <3>2, <3>3, <4>2 DEF AriaGets
        <4>3. CASE \E x : AriaEnds(x)
          BY <3>2, <3>3, <3>4, <4>3 DEF AriaEnds
        <4> QED
          BY <3>1, <4>1, <4>2, <4>3, AriaSteps
      <3>6. Given(a)'
        BY <3>2, GivenGrows
      <3> QED
        BY <1>1, <3>a, <3>2, <3>3, <3>5, <3>6
    <2> QED
      BY <1>1, <2>1, <2>2, <2>3 DEF CancelledIsOver
  <1>2. ASSUME NEW a \in Attempt, CancelDownload(a)
        PROVE  CancelledIsOver'
    <2>1. /\ removal' = [op |-> "cancel", pc |-> "forget", gid |-> a] /\ a \in running
          /\ End(a, "removed") /\ UNCHANGED <<history, pass, used>>
      BY <1>2 DEF CancelDownload, NewRemoval, End
    <2>2. /\ ToSet(results') \subseteq ToSet(results) \cup {[gid |-> a, status |-> "removed"]}
          /\ running' = running \ {a}
      BY <1>r, <2>1, EndItems DEF Ended
    <2>3. Given(a)'
      BY <2>1 DEF EntriesInv, OnlyGiven, Given
    <2>4. NoExits' => Err(a) \notin Shown'
      <3>1. NoExits' => NoExits
        BY CalmSteps
      <3>2. NoExits => Err(a) \notin Shown
        BY <2>1 DEF ShownIsOver, Err
      <3>3. Err(a) # [gid |-> a, status |-> "removed"]
        BY DEF Err
      <3> QED
        BY <2>1, <2>2, <3>1, <3>2, <3>3 DEF Shown
    <2> QED
      BY <2>1, <2>2, <2>3, <2>4 DEF CancelledIsOver
  <1>3. CASE PurgeEntries \/ \E a \in Attempt : RemoveEntry(a)
    <2>1. removal'.op \in {"remove", "purge"} /\ Meddle("erasure")
      BY <1>3 DEF PurgeEntries, RemoveEntry, NewRemoval
    <2>2. spent'["erasure"] > 0
      BY <2>1, Spending DEF Meddling
    <2> QED
      BY <2>1, <2>2 DEF CancelledIsOver
  <1>4. CASE DropResults
    <2>1. /\ removal.pc = "result" /\ removal'.op = removal.op /\ removal'.gid = removal.gid
          /\ UNCHANGED spent
      BY <1>4, <1>r DEF DropResults, RetryTypeOK
    <2>2. removal.op # "none"
      BY <2>1 DEF CancelledIsOver, NoRemoval
    <2>3. removal.op = "cancel" => ~NoExits
      BY <2>1 DEF CancelledIsOver
    <2> QED
      BY <2>1, <2>2, <2>3 DEF CancelledIsOver, NoExits
  <1>5. CASE ForgetRetry \/ DaemonRestarts
    <2>1. removal' = NoRemoval
      BY <1>5 DEF ForgetRetry, DaemonRestarts
    <2> QED
      BY <2>1 DEF CancelledIsOver, NoRemoval
  <1>6. CASE \/ UNCHANGED retryVars \/ RetryPass \/ ToggleWebhooks \/ AriaRestarts
             \/ \E j \in Job : Add(j) \/ ComesDue(j)
             \/ \E a \in Attempt : AttemptEnds(a)
    <2>1. UNCHANGED removal
      BY <1>6 DEF retryVars, RetryPass, TellStoppedResults, MergeHistory, ScheduleRetries,
                  SubmitRetry, SubmitRefused, SubmitUnanswered, SaveRetries, AnnounceOff, Announce,
                  ToggleWebhooks, AriaRestarts, Add, ComesDue, AttemptEnds
    <2> QED
      BY <1>1, <2>1
  <1> QED
    BY <1>2, <1>3, <1>4, <1>5, <1>6 DEF RetryNext

(* The invariant but for the count of open attempts. *)
LEMMA OpenStep ==
  ASSUME EntriesInv, EntriesInv', OpenInv, [RetryNext]_retryVars
  PROVE  OpenInv'
  <1>1. ShownIsOver'
    BY ShownStaysOver DEF OpenInv
  <1> QED
    BY <1>1, HistoryStays, DueStaysOver, CancelStaysOver DEF OpenInv
-----------------------------------------------------------------------------
(* Steps that open no attempt of a job: what runs then ran before, what is a *)
(* failure then was one before or ran, and the entry stays or comes due.     *)
OpensNone(j) ==
    /\ \A a \in running' : JobOf(a) = j => a \in running
    /\ \A a \in Attempt : FailedIn(results', a) => FailedIn(results, a) \/ a \in running
    /\ \A a \in Attempt : pass'.pc = "told" /\ FailedIn(pass'.list, a)
          => FailedIn(results, a) \/ (pass.pc = "told" /\ FailedIn(pass.list, a))
    /\ \A a \in Attempt : FailedIn(history', a)
          => FailedIn(history, a) \/ (pass.pc = "told" /\ FailedIn(pass.list, a))
    /\ \/ retries'[j] = retries[j]
       \/ /\ HasRetry(j) /\ HasRetry(j)'
          /\ retries'[j].gid = retries[j].gid /\ retries[j].due # "no"
    /\ \A a \in Attempt : removal'.gid = a => removal.gid = a \/ a \in running
LEMMA OpenShrinks ==
  ASSUME NEW j \in Job, OpensNone(j)
  PROVE  Open(j)' \subseteq Open(j)
  <1> SUFFICES ASSUME NEW a \in Attempt, JobOf(a) = j, MayRunAgain(j, a)'
               PROVE  MayRunAgain(j, a)
    BY DEF Open
  <1>1. CASE a \in running'
    BY <1>1 DEF OpensNone, MayRunAgain
  <1>2. CASE FailedIn(results', a)
    BY <1>2 DEF OpensNone, MayRunAgain
  <1>3. CASE pass'.pc = "told" /\ FailedIn(pass'.list, a)
    BY <1>3 DEF OpensNone, MayRunAgain
  <1>4. CASE FailedIn(history', a) /\ (HasRetry(j)' => retries'[j].gid = a)
    <2>1. HasRetry(j) => retries[j].gid = a
      BY <1>4 DEF OpensNone, HasRetry
    <2> QED
      BY <1>4, <2>1 DEF OpensNone, MayRunAgain
  <1>5. CASE HasRetry(j)' /\ retries'[j].gid = a /\ (retries'[j].due # "no" \/ removal'.gid = a)
    <2>1. HasRetry(j) /\ retries[j].gid = a
      BY <1>5 DEF OpensNone, HasRetry
    <2>2. retries[j].due # "no" \/ removal.gid = a \/ a \in running
      BY <1>5 DEF OpensNone, HasRetry
    <2> QED
      BY <2>1, <2>2 DEF MayRunAgain
  <1> QED
    BY <1>1, <1>2, <1>3, <1>4, <1>5 DEF MayRunAgain, FailedIn

(* Counting: a set that loses what it may gain has no more members. *)
LEMMA CountAfterStep ==
  ASSUME NEW S, NEW T, NEW n \in Nat, IsFiniteSet(S), Cardinality(S) <= n
  PROVE  /\ T \subseteq S => Cardinality(T) <= n
         /\ \A a : T \subseteq S \cup {a} => Cardinality(T) <= n + 1
         /\ \A g \in S : \A a : T \subseteq (S \ {g}) \cup {a} => Cardinality(T) <= n
  <1>c. Cardinality(S) \in Nat
    BY FS_CardinalityType
  <1>1. ASSUME T \subseteq S
        PROVE  Cardinality(T) <= n
    <2>1. IsFiniteSet(T) /\ Cardinality(T) <= Cardinality(S)
      BY <1>1, FS_Subset
    <2>2. Cardinality(T) \in Nat
      BY <2>1, FS_CardinalityType
    <2> QED
      BY <1>c, <2>1, <2>2
  <1>2. ASSUME NEW a, T \subseteq S \cup {a}
        PROVE  Cardinality(T) <= n + 1
    <2>1. IsFiniteSet(S \cup {a}) /\ Cardinality(S \cup {a}) <= n + 1 /\ Cardinality(S \cup {a}) \in Nat
      BY <1>c, FS_AddElement
    <2>2. IsFiniteSet(T) /\ Cardinality(T) <= Cardinality(S \cup {a})
      BY <1>2, <2>1, FS_Subset
    <2>3. Cardinality(T) \in Nat
      BY <2>2, FS_CardinalityType
    <2> QED
      BY <2>1, <2>2, <2>3
  <1>3. ASSUME NEW g \in S, NEW a, T \subseteq (S \ {g}) \cup {a}
        PROVE  Cardinality(T) <= n
    <2> DEFINE R == S \ {g}
    <2>1. IsFiniteSet(R) /\ Cardinality(R) = Cardinality(S) - 1
      BY FS_RemoveElement
    <2>2. Cardinality(R) \in Nat
      BY <2>1, FS_CardinalityType
    <2>3. IsFiniteSet(R \cup {a}) /\ Cardinality(R \cup {a}) <= n
      <3> HIDE DEF R
      <3>1. IsFiniteSet(R \cup {a}) /\ Cardinality(R \cup {a}) \in {Cardinality(R), Cardinality(R) + 1}
        BY <2>1, FS_AddElement
      <3> QED
        BY <1>c, <2>1, <2>2, <3>1
    <2>4. IsFiniteSet(T) /\ Cardinality(T) <= Cardinality(R \cup {a})
      BY <1>3, <2>3, FS_Subset
    <2>5. Cardinality(T) \in Nat /\ Cardinality(R \cup {a}) \in Nat
      BY <2>3, <2>4, FS_CardinalityType
    <2> QED
      BY <2>3, <2>4, <2>5
  <1> QED
    BY <1>1, <1>2, <1>3

(* There are finitely many attempts. *)
LEMMA OpenIsFinite ==
  ASSUME NEW j \in Job
  PROVE  IsFiniteSet(Attempt) /\ IsFiniteSet(Open(j))
  <1>1. IsFiniteSet(Job) /\ IsFiniteSet(1 .. MaxAttempts)
    BY RetryAssumption, HistoryAssumption, FS_Interval
  <1>2. IsFiniteSet(Attempt)
    BY <1>1, FS_Product DEF Attempt
  <1>3. Open(j) \in SUBSET Attempt
    BY DEF Open
  <1> QED
    BY <1>2, <1>3, FS_Subset

(* What a step does to the open attempts of a job. *)
OpensForAdd(j) ==
    /\ \E a : Open(j)' \subseteq Open(j) \cup {a}
    /\ added'[j] = added[j] + 1
OpensForClosed(j) == \E g \in Open(j) : \E a : Open(j)' \subseteq (Open(j) \ {g}) \cup {a}

(* A job that was added has one attempt more. *)
LEMMA AddOpens ==
  ASSUME EntriesInv, NEW j \in Job, Add(j)
  PROVE  OpensForAdd(j)
  <1>r. added \in [Job -> 0 .. MaxAdds] /\ used \in [Job -> 0 .. MaxAttempts]
    BY DEF EntriesInv, RetryTypeOK
  <1>1. /\ running' = running \cup {<<j, used'[j]>>} /\ added'[j] = added[j] + 1
        /\ UNCHANGED <<results, history, pass, retries, removal>>
    BY <1>r DEF Add, daemonSide
  <1>2. PICK b : b = <<j, used'[j]>>
    OBVIOUS
  <1>3. ASSUME NEW a \in Attempt, MayRunAgain(j, a)', a # b
        PROVE  MayRunAgain(j, a)
    BY <1>1, <1>2, <1>3 DEF MayRunAgain, FailedIn, HasRetry
  <1>4. Open(j)' \subseteq Open(j) \cup {b}
    BY <1>3 DEF Open
  <1> QED
    BY <1>1, <1>4 DEF OpensForAdd

(* A retry is for the attempt it is due for, whose failure is dropped. *)
LEMMA RetryOpens ==
  ASSUME EntriesInv, OpenInv, Calm, NEW j \in Job, SubmitRetry(j), ~Meddle("leftover")
  PROVE  OpensForClosed(j)
  <1>r. /\ RetryTypeOK /\ retries \in [Job -> Retry \cup {NoRetry}] /\ used \in [Job -> 0 .. MaxAttempts]
        /\ results \in Seq(Result)
    BY DEF EntriesInv, RetryTypeOK
  <1>1. /\ pass.pc = "submit" /\ j \in pass.todo /\ used[j] < MaxAttempts
        /\ running' = running \cup {<<j, used[j] + 1>>}
        /\ retries' = [retries EXCEPT ![j] = Submitted(@, <<j, used[j] + 1>>)]
        /\ results' = Without(results, retries[j].gid)
        /\ pass' = [pass EXCEPT !.todo = @ \ {j}]
        /\ UNCHANGED <<history, removal>>
    BY DEF SubmitRetry
  <1>2. retries[j] \in Retry /\ HasRetry(j) /\ retries[j].due # "no"
    BY <1>1, <1>r DEF EntriesInv, DueEntries, HasRetry
  <1>3. PICK g : g = retries[j].gid
    OBVIOUS
  <1>4. PICK b : b = <<j, used[j] + 1>>
    OBVIOUS
  <1>5. b \in Attempt /\ JobOf(b) = j /\ ~Given(b)
    BY <1>1, <1>4, NewAttempts
  <1>6. g \in Attempt /\ JobOf(g) = j /\ Given(g) /\ g \notin running
    <2>1. g \in Attempt
      BY <1>2, <1>3, Entries
    <2>2. JobOf(g) = j /\ Given(g)
      BY <1>2, <1>3, Entries DEF EntriesInv, OnlyGiven, EntryGiven
    <2>3. g \notin running
      BY <1>2, <1>3 DEF OpenInv, DueIsOver, Calm
    <2> QED
      BY <2>1, <2>2, <2>3
  <1>7. retries'[j].gid = b /\ HasRetry(j)'
    <2>1. retries'[j] = Submitted(retries[j], b)
      BY <1>1, <1>4, <1>r
    <2>2. retries'[j].gid = b
      BY <1>2, <2>1 DEF Submitted, Retry
    <2>3. b # NoGid
      BY <1>5, Attempts
    <2> QED
      BY <2>2, <2>3 DEF HasRetry, NoRetry
  <1>8. g \in Open(j)
    BY <1>2, <1>3, <1>6 DEF Open, MayRunAgain
  <1>9. ToSet(results') = {x \in ToSet(results) : x.gid # g}
    BY <1>1, <1>3, <1>r, WithoutItems
  <1>10. pass'.pc = "submit"
    BY <1>1, <1>r DEF RetryTypeOK
  <1>11. ASSUME NEW a \in Attempt, MayRunAgain(j, a)', a # b
         PROVE  a # g /\ MayRunAgain(j, a)
    <2>1. CASE a \in running'
      BY <1>1, <1>4, <1>6, <1>11, <2>1 DEF MayRunAgain
    <2>2. CASE FailedIn(results', a)
      <3>1. Err(a) \in ToSet(results) /\ Err(a).gid # g /\ Err(a).gid = a
        BY <1>9, <2>2, Results DEF FailedIn
      <3> QED
        BY <3>1 DEF MayRunAgain, FailedIn
    <2> QED
      BY <1>7, <1>10, <1>11, <2>1, <2>2 DEF MayRunAgain, FailedIn
  <1>12. Open(j)' \subseteq (Open(j) \ {g}) \cup {b}
    BY <1>11 DEF Open
  <1> QED
    BY <1>8, <1>12 DEF OpensForClosed

(* The history shows no failure of a job beside its success, and one of it. *)
LEMMA OneEndOfJob ==
  ASSUME OneEnd, NEW j \in Job, history \in Seq(Result)
  PROVE  /\ \A a, b \in {c \in Attempt : JobOf(c) = j /\ FailedIn(history, c)} : a = b
         /\ DoneIn(history, j) => \A a \in Attempt : JobOf(a) = j => ~FailedIn(history, a)
  <1>1. \A a \in Attempt : Final(Err(a)) /\ Err(a).gid = a /\ Err(a).status = "error"
    BY DEF Final, Err
  <1>2. ASSUME NEW a \in Attempt, NEW b \in Attempt, JobOf(a) = j, FailedIn(history, a),
               JobOf(b) = j, FailedIn(history, b)
        PROVE  a = b
    <2>1. JobOf(Err(a).gid) = JobOf(Err(b).gid)
      BY <1>1, <1>2
    <2>2. Err(a) = Err(b)
      BY <1>1, <1>2, <2>1 DEF OneEnd, OneFinalEach, FailedIn
    <2> QED
      BY <1>1, <2>2
  <1>3. ASSUME DoneIn(history, j), NEW a \in Attempt, JobOf(a) = j, FailedIn(history, a)
        PROVE  FALSE
    <2>1. PICK c \in Attempt : JobOf(c) = j /\ [gid |-> c, status |-> "complete"] \in ToSet(history)
      BY <1>3 DEF DoneIn
    <2>2. PICK x : x = [gid |-> c, status |-> "complete"]
      OBVIOUS
    <2>3. Final(x) /\ x.gid = c /\ x.status = "complete" /\ x \in ToSet(history)
      BY <2>1, <2>2 DEF Final
    <2>4. x = Err(a)
      BY <1>1, <1>3, <2>1, <2>3 DEF OneEnd, OneFinalEach, FailedIn
    <2> QED
      BY <1>1, <2>3, <2>4
  <1> QED
    BY <1>2, <1>3

(* A cancelled retry is forgotten: its entry no longer counts, at most the   *)
(* failure that the history shows does.                                      *)
LEMMA ForgettingOpens ==
  ASSUME EntriesInv, OpenInv, Calm, NEW j \in Job, ForgetRetry
  PROVE  Open(j)' \subseteq Open(j) \/ OpensForClosed(j)
  <1>r. RetryTypeOK /\ history \in Seq(Result) /\ retries \in [Job -> Retry \cup {NoRetry}]
    BY DEF EntriesInv, RetryTypeOK
  <1>1. /\ removal.pc = "forget" /\ retries' = Forgotten(retries, removal.gid)
        /\ removal' = NoRemoval /\ UNCHANGED <<running, results, history, pass>>
    BY DEF ForgetRetry, ariaSide
  <1>2. PICK g : g = removal.gid
    OBVIOUS
  <1>3. g \in Attempt /\ g \notin running /\ Err(g) \notin Shown
    <2>1. removal.op \in {"none", "cancel", "remove", "purge"}
      BY <1>r DEF RetryTypeOK
    <2>2. removal.op # "none"
      BY <1>1 DEF OpenInv, CancelledIsOver, NoRemoval
    <2>3. removal.op \notin {"remove", "purge"}
      BY DEF OpenInv, CancelledIsOver, Calm
    <2> QED
      BY <1>2, <2>1, <2>2, <2>3 DEF OpenInv, CancelledIsOver, Calm
  <1>4. CASE retries'[j] = retries[j]
    <2>1. \A a \in Attempt : removal'.gid # a
      BY <1>1, Attempts DEF NoRemoval
    <2>2. OpensNone(j)
      BY <1>1, <1>4, <2>1 DEF OpensNone
    <2> QED
      BY <2>2, OpenShrinks
  <1>5. CASE retries'[j] # retries[j]
    <2>1. HasRetry(j) /\ retries[j].gid = g /\ ~HasRetry(j)'
      <3>1. g # NoGid
        BY <1>3, Attempts
      <3> QED
        BY <1>1, <1>2, <1>5, <3>1 DEF Forgotten, HasRetry
    <2>2. JobOf(g) = j
      BY <2>1 DEF EntriesInv, OnlyGiven, EntryGiven, HasRetry
    <2>3. g \in Open(j)
      BY <1>2, <1>3, <2>1, <2>2 DEF Open, MayRunAgain
    <2>4. PICK h : \A a \in Attempt : JobOf(a) = j /\ FailedIn(history, a) => a = h
      BY <1>r, OneEndOfJob DEF OpenInv
    <2>5. ASSUME NEW a \in Attempt, JobOf(a) = j, MayRunAgain(j, a)', a # h
          PROVE  a # g /\ MayRunAgain(j, a)
      <3>1. a \in running \/ FailedIn(results, a) \/ (pass.pc = "told" /\ FailedIn(pass.list, a))
        BY <1>1, <2>1, <2>4, <2>5 DEF MayRunAgain, FailedIn
      <3>2. a # g
        BY <1>3, <3>1 DEF FailedIn, Shown
      <3> QED
        BY <3>1, <3>2 DEF MayRunAgain
    <2>6. Open(j)' \subseteq (Open(j) \ {g}) \cup {h}
      BY <2>5 DEF Open
    <2> QED
      BY <2>3, <2>6 DEF OpensForClosed
  <1> QED
    BY <1>4, <1>5

(* Scheduling a retry opens nothing: the failure that the history shows for  *)
(* a job was open before.                                                    *)
LEMMA SchedulingOpens ==
  ASSUME EntriesInv, OpenInv, Calm, NEW j \in Job, ScheduleRetries
  PROVE  Open(j)' \subseteq Open(j)
  <1>r. RetryTypeOK /\ history \in Seq(Result) /\ retries \in [Job -> Retry \cup {NoRetry}]
    BY DEF EntriesInv, RetryTypeOK
  <1>1. pass.list = history
    BY DEF ScheduleRetries, OpenInv, ListIsHistory, Calm
  <1>2. pass'.pc = "submit" /\ UNCHANGED <<running, results, history, removal>>
    BY <1>r DEF ScheduleRetries, ariaSide, RetryTypeOK
  <1>3. CASE EntryIsKept(j)
    <2>1. OpensNone(j)
      BY <1>2, <1>3 DEF OpensNone, EntryIsKept
    <2> QED
      BY <2>1, OpenShrinks
  <1>4. CASE EntryIsDropped(j)
    <2>1. ~HasRetry(j)' /\ \A a \in Attempt : JobOf(a) = j => ~FailedIn(history, a)
      BY <1>1, <1>4, <1>r, OneEndOfJob DEF EntryIsDropped, HasRetry, OpenInv
    <2>2. ASSUME NEW a \in Attempt, JobOf(a) = j, MayRunAgain(j, a)'
          PROVE  MayRunAgain(j, a)
      BY <1>2, <2>1, <2>2 DEF MayRunAgain, FailedIn
    <2> QED
      BY <2>2 DEF Open
  <1>5. ASSUME NEW b, EntryComesDue(j, b)
        PROVE  Open(j)' \subseteq Open(j)
    <2>1. /\ b \in Attempt /\ JobOf(b) = j /\ FailedIn(history, b)
          /\ HasRetry(j)' /\ retries'[j].gid = b
      BY <1>1, <1>5 DEF EntryComesDue, HasRetry
    <2>2. ~DoneIn(history, j)
      BY <1>r, <2>1, OneEndOfJob DEF OpenInv
    <2>3. HasRetry(j) => retries[j].gid = b
      BY <1>1, <1>5, <2>2 DEF EntryComesDue
    <2>4. MayRunAgain(j, b)
      BY <2>1, <2>3 DEF MayRunAgain
    <2>5. ASSUME NEW a \in Attempt, JobOf(a) = j, MayRunAgain(j, a)'
          PROVE  MayRunAgain(j, a)
      <3>1. a = b \/ a \in running \/ FailedIn(results, a)
        BY <1>2, <2>1, <2>5 DEF MayRunAgain, FailedIn
      <3> QED
        BY <2>4, <3>1 DEF MayRunAgain
    <2> QED
      BY <2>5 DEF Open
  <1> QED
    BY <1>3, <1>4, <1>5, SchedulesFailures

(* A step between calm states leaves as many attempts open as before, one    *)
(* more for a download that is added.                                        *)
LEMMA OpenSteps ==
  ASSUME EntriesInv, EntriesInv', OpenInv, Calm', NEW j \in Job, [RetryNext]_retryVars
  PROVE  /\ \/ Open(j)' \subseteq Open(j)
            \/ OpensForAdd(j)
            \/ OpensForClosed(j)
         /\ OpensForAdd(j) \/ added'[j] = added[j]
  <1> USE DEF ariaSide, daemonSide
  <1>r. /\ RetryTypeOK /\ results \in Seq(Result) /\ history \in Seq(Result) /\ pass.list \in Seq(Result)
        /\ retries \in [Job -> Retry \cup {NoRetry}] /\ added \in [Job -> 0 .. MaxAdds]
    BY DEF EntriesInv, RetryTypeOK
  <1>c. /\ Calm /\ ~PurgeEntries /\ ~AriaRestarts /\ ~DaemonRestarts /\ ~Meddle("leftover")
        /\ \A a \in Attempt : ~RemoveEntry(a)
        /\ \A i \in Job : ~SubmitUnanswered(i)
    BY CalmSteps DEF Calm
  <1>n. \A a \in Attempt : NoRemoval.gid # a
    BY Attempts DEF NoRemoval
  <1>1. CASE UNCHANGED retryVars
    <2>1. OpensNone(j) /\ added' = added
      BY <1>1 DEF retryVars, OpensNone
    <2> QED
      BY <2>1, OpenShrinks
  <1>2. CASE TellStoppedResults
    <2>1. pass'.list = results /\ UNCHANGED <<running, results, history, retries, removal, added>>
      BY <1>2 DEF TellStoppedResults, NoPass
    <2>2. OpensNone(j)
      BY <2>1 DEF OpensNone
    <2> QED
      BY <2>1, <2>2, OpenShrinks
  <1>3. CASE MergeHistory
    <2>1. /\ pass.pc = "told" /\ pass'.pc = "merged" /\ history' = MergeTerminalEvents(history, pass.list)
          /\ UNCHANGED <<running, results, retries, removal, added>>
      BY <1>3, <1>r DEF MergeHistory, RetryTypeOK
    <2>2. ToSet(history') \subseteq ToSet(history) \cup ToSet(pass.list)
      BY <1>r, <2>1, MergeItems
    <2>3. OpensNone(j)
      BY <2>1, <2>2 DEF OpensNone, FailedIn
    <2> QED
      BY <2>1, <2>3, OpenShrinks
  <1>4. CASE ScheduleRetries
    <2>1. UNCHANGED added
      BY <1>4 DEF ScheduleRetries
    <2> QED
      BY <1>c, <1>4, <2>1, SchedulingOpens
  <1>5. ASSUME NEW i \in Job, SubmitRetry(i)
        PROVE  /\ Open(j)' \subseteq Open(j) \/ OpensForClosed(j)
               /\ added' = added
    <2>1. added' = added
      BY <1>5 DEF SubmitRetry
    <2>2. CASE i = j
      BY <1>c, <1>5, <2>1, <2>2, RetryOpens
    <2>3. CASE i # j
      <3>1. /\ running' = running \cup {<<i, used[i] + 1>>} /\ pass'.pc = pass.pc /\ pass'.list = pass.list
            /\ results' = Without(results, retries[i].gid) \/ results' = results
            /\ retries'[j] = retries[j] /\ UNCHANGED <<history, removal>>
        BY <1>5, <1>r, <2>3 DEF SubmitRetry, RetryTypeOK
      <3>2. used[i] < MaxAttempts
        BY <1>5 DEF SubmitRetry
      <3>3. JobOf(<<i, used[i] + 1>>) = i
        BY <3>2, NewAttempts
      <3>4. ToSet(results') \subseteq ToSet(results)
        BY <1>r, <3>1, WithoutItems
      <3>5. OpensNone(j)
        BY <2>3, <3>1, <3>3, <3>4 DEF OpensNone, FailedIn
      <3> QED
        BY <2>1, <3>5, OpenShrinks
    <2> QED
      BY <2>2, <2>3
  <1>6. ASSUME NEW i \in Job, SubmitRefused(i) \/ ComesDue(i)
        PROVE  Open(j)' \subseteq Open(j) /\ added' = added
    <2>1. /\ UNCHANGED <<running, results, history, removal, added>>
          /\ pass'.pc = pass.pc /\ pass'.list = pass.list
          /\ HasRetry(i) /\ retries[i].due # "no"
          /\ \E due \in {"now", "later"} : retries' = [retries EXCEPT ![i].due = due]
      <3>1. CASE SubmitRefused(i)
        BY <1>r, <3>1 DEF SubmitRefused, RetryTypeOK, EntriesInv, DueEntries
      <3>2. CASE ComesDue(i)
        BY <3>2 DEF ComesDue
      <3> QED
        BY <1>6, <3>1, <3>2
    <2>2. CASE i # j
      <3>1. retries'[j] = retries[j]
        BY <1>r, <2>1, <2>2
      <3>2. OpensNone(j)
        BY <2>1, <3>1 DEF OpensNone
      <3> QED
        BY <2>1, <3>2, OpenShrinks
    <2>3. CASE i = j
      <3>1. retries[j] \in Retry
        BY <1>r, <2>1, <2>3 DEF HasRetry
      <3>2. retries'[j].gid = retries[j].gid
        BY <1>r, <2>1, <2>3, <3>1 DEF Retry
      <3>3. HasRetry(j)'
        <4>1. retries[j].gid # NoGid
          BY <3>1, Entries, Attempts
        <4> QED
          BY <3>2, <4>1 DEF HasRetry, NoRetry
      <3>4. OpensNone(j)
        BY <2>1, <2>3, <3>2, <3>3 DEF OpensNone
      <3> QED
        BY <2>1, <3>4, OpenShrinks
    <2> QED
      BY <2>2, <2>3
  <1>7. CASE SaveRetries \/ AnnounceOff \/ Announce \/ ToggleWebhooks
    <2>1. /\ UNCHANGED <<running, results, history, retries, removal, added>>
          /\ pass'.pc = "told" => pass'.pc = pass.pc /\ pass'.list = pass.list
      <3>1. CASE SaveRetries
        BY <1>r, <3>1 DEF SaveRetries, RetryTypeOK
      <3>2. CASE AnnounceOff \/ Announce
        BY <3>2 DEF AnnounceOff, Announce, NoPass
      <3>3. CASE ToggleWebhooks
        BY <3>3 DEF ToggleWebhooks
      <3> QED
        BY <1>7, <3>1, <3>2, <3>3
    <2>2. OpensNone(j)
      BY <2>1 DEF OpensNone
    <2> QED
      BY <2>1, <2>2, OpenShrinks
  <1>8. ASSUME NEW i \in Job, Add(i)
        PROVE  IF i = j THEN OpensForAdd(j) ELSE Open(j)' \subseteq Open(j) /\ added'[j] = added[j]
    <2>1. CASE i = j
      BY <1>8, <2>1, AddOpens
    <2>2. CASE i # j
      <3>1. /\ running' = running \cup {<<i, used'[i]>>} /\ added'[j] = added[j]
            /\ UNCHANGED <<results, history, pass, retries, removal>>
        BY <1>8, <1>r, <2>2 DEF Add
      <3>2. JobOf(<<i, used'[i]>>) = i
        BY DEF JobOf
      <3>3. OpensNone(j)
        BY <2>2, <3>1, <3>2 DEF OpensNone
      <3> QED
        BY <2>2, <3>1, <3>3, OpenShrinks
    <2> QED
      BY <2>1, <2>2
  <1>9. ASSUME NEW a \in Attempt, AttemptEnds(a) \/ CancelDownload(a)
        PROVE  Open(j)' \subseteq Open(j) /\ added' = added
    <2>1. /\ a \in running /\ UNCHANGED <<history, pass, retries, added>>
          /\ removal' = removal \/ removal'.gid = a
          /\ \E status \in Ended : End(a, status)
      BY <1>9 DEF AttemptEnds, CancelDownload, NewRemoval, End, Ended
    <2>2. PICK status \in Ended : End(a, status)
      BY <2>1
    <2>3. PICK x : x = [gid |-> a, status |-> status]
      OBVIOUS
    <2>4. /\ ToSet(results') \subseteq ToSet(results) \cup {x} /\ x.gid = a
          /\ running' = running \ {a}
      BY <1>r, <2>2, <2>3, EndItems
    <2>5. \A b \in Attempt : FailedIn(results', b) => FailedIn(results, b) \/ b = a
      BY <2>4, Results DEF FailedIn
    <2>6. OpensNone(j)
      BY <2>1, <2>4, <2>5 DEF OpensNone
    <2> QED
      BY <2>1, <2>6, OpenShrinks
  <1>10. CASE DropResults
    <2>1. /\ UNCHANGED <<running, added, history, retries, pass>>
          /\ removal'.gid = removal.gid
          /\ results' = <<>> \/ results' = Without(results, removal.gid)
      BY <1>10, <1>r DEF DropResults, RetryTypeOK
    <2>2. ToSet(results') \subseteq ToSet(results)
      BY <1>r, <2>1, NoItems, WithoutItems
    <2>3. OpensNone(j)
      BY <2>1, <2>2 DEF OpensNone, FailedIn
    <2> QED
      BY <2>1, <2>3, OpenShrinks
  <1>11. CASE ForgetRetry
    <2>1. added' = added
      BY <1>11 DEF ForgetRetry
    <2> QED
      BY <1>c, <1>11, <2>1, ForgettingOpens
  <1> QED
    BY <1>c, <1>1, <1>2, <1>3, <1>4, <1>5, <1>6, <1>7, <1>8, <1>9, <1>10, <1>11 DEF RetryNext, RetryPass

(* Together, from the start on. *)
LEMMA CalmInvAlways == RetrySpec => [](EntriesInv /\ CalmInv)
  <1>1. ASSUME RetryInit
        PROVE  CalmInv
    <2>1. /\ running = {} /\ ToSet(results) = {} /\ ToSet(history) = {} /\ ToSet(pass.list) = {}
          /\ pass.pc = "idle" /\ removal = NoRemoval /\ \A j \in Job : ~HasRetry(j) /\ added[j] = 0
      BY <1>1, NoItems DEF RetryInit, NoPass, HasRetry
    <2>2. OpenInv
      BY <2>1 DEF OpenInv, ShownIsOver, ListIsHistory, DueIsOver, CancelledIsOver, OneEnd, OneFinalEach,
                  Shown, NoRemoval
    <2>3. \A j \in Job : Open(j) = {}
      BY <2>1 DEF Open, MayRunAgain, FailedIn
    <2>4. OpenBounded
      BY <2>1, <2>3, FS_EmptySet DEF OpenBounded
    <2> QED
      BY <2>2, <2>4 DEF CalmInv
  <1>2. ASSUME EntriesInv, EntriesInv', CalmInv, [RetryNext]_retryVars
        PROVE  CalmInv'
    <2>1. OpenInv'
      BY <1>2, OpenStep DEF CalmInv
    <2>2. ASSUME Calm', NEW j \in Job
          PROVE  Cardinality(Open(j)') <= added'[j]
      <3>1. Calm
        BY <1>2, <2>2, CalmSteps
      <3>2. added[j] \in Nat /\ IsFiniteSet(Open(j)) /\ Cardinality(Open(j)) <= added[j]
        BY <1>2, <3>1, OpenIsFinite, RetryAssumption DEF CalmInv, OpenBounded, EntriesInv, RetryTypeOK
      <3>3. /\ Open(j)' \subseteq Open(j) \/ OpensForAdd(j) \/ OpensForClosed(j)
            /\ OpensForAdd(j) \/ added'[j] = added[j]
        BY <1>2, <2>2, OpenSteps DEF CalmInv
      <3>s. PICK S : S = Open(j)
        OBVIOUS
      <3>t. PICK T : T = Open(j)'
        OBVIOUS
      <3>n. PICK n \in Nat : n = added[j]
        BY <3>2
      <3>4. /\ T \subseteq S => Cardinality(T) <= n
            /\ \A a : T \subseteq S \cup {a} => Cardinality(T) <= n + 1
            /\ \A g \in S : \A a : T \subseteq (S \ {g}) \cup {a} => Cardinality(T) <= n
        BY <3>2, <3>s, <3>n, CountAfterStep
      <3>5. CASE OpensForAdd(j)
        BY <3>4, <3>5, <3>s, <3>t, <3>n DEF OpensForAdd
      <3>6. CASE ~OpensForAdd(j) /\ OpensForClosed(j)
        BY <3>3, <3>4, <3>6, <3>s, <3>t, <3>n DEF OpensForClosed
      <3>7. CASE ~OpensForAdd(j) /\ Open(j)' \subseteq Open(j)
        BY <3>3, <3>4, <3>7, <3>s, <3>t, <3>n
      <3> QED
        BY <3>3, <3>5, <3>6, <3>7
    <2>3. OpenBounded'
      BY <2>2 DEF OpenBounded
    <2> QED
      BY <2>1, <2>3 DEF CalmInv
  <1> QED
    BY <1>1, <1>2, EntriesAlways, PTL DEF RetrySpec

(* Retries never multiply a download: OneAttemptEach for the runs in which   *)
(* aria2 drops the result of every attempt that is made again.               *)
THEOREM OneAttemptIfDropped == RetrySpec => [](spent["leftover"] = 0 => OneAttemptEach)
  <1>1. ASSUME EntriesInv, CalmInv, spent["leftover"] = 0
        PROVE  OneAttemptEach
    <2> SUFFICES ASSUME Calm, NEW j \in Job
                 PROVE  Cardinality({a \in running : JobOf(a) = j}) <= added[j]
      BY <1>1 DEF OneAttemptEach, Calm
    <2> DEFINE unended == {a \in running : JobOf(a) = j}
    <2>1. unended \in SUBSET Open(j)
      BY <1>1 DEF Open, MayRunAgain, EntriesInv, RetryTypeOK
    <2>2. IsFiniteSet(Open(j)) /\ Cardinality(Open(j)) <= added[j] /\ added[j] \in Nat
      BY <1>1, OpenIsFinite, RetryAssumption DEF CalmInv, OpenBounded, EntriesInv, RetryTypeOK
    <2>3. IsFiniteSet(unended) /\ Cardinality(unended) <= Cardinality(Open(j))
      <3> HIDE DEF unended
      <3> QED
        BY <2>1, <2>2, FS_Subset
    <2>4. Cardinality(unended) \in Nat /\ Cardinality(Open(j)) \in Nat
      BY <2>2, <2>3, FS_CardinalityType
    <2> QED
      BY <2>2, <2>3, <2>4
  <1>2. EntriesInv /\ CalmInv => (spent["leftover"] = 0 => OneAttemptEach)
    BY <1>1
  <1> QED
    BY <1>2, CalmInvAlways, PTL
=============================================================================
