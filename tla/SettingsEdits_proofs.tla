------------------------ MODULE SettingsEdits_proofs ------------------------
(***************************************************************************)
(* Proofs about the edits of the routing rules and of the schedule (module *)
(* SettingsEdits), for any editors, rules, hours and number of requests:   *)
(* what is shown after an edit, what the lists are, and where a dragged    *)
(* rule lands.                                                             *)
(***************************************************************************)
EXTENDS SettingsEdits, SequenceTheorems, FiniteSetTheorems, TLAPS

(* Which changes are where: the settings are a record of which Store makes *)
(* every change count by one, and each copy of them remembers its count.   *)
ChangesCounted ==
    /\ settings = [rules |-> settings.rules, limits |-> settings.limits, change |-> settings.change]
    /\ settings.change \in Nat /\ shownNow.change \in Nat /\ answered \in Nat
    /\ stage \in [Refreshers -> {"idle", "editing", "sent", "stored", "locked", "read"}]
    /\ sent = [e \in Editor |-> sent[e]] /\ latest = [r \in Refreshers |-> latest[r]]
    /\ \A r \in Refreshers : latest[r].change \in Nat
    /\ \A e \in Editor : stage[e] = "sent" => sent[e].of \in {"rules", "limits"}

(* Whoever is inside perform_refresh holds the runtime mutex. *)
OneRefresh == \A r \in Refreshers : stage[r] \in {"locked", "read"} <=> runtimeLock = r

(***************************************************************************)
(* The state under the lock is the newest; a refresh that has read it is   *)
(* at least as new as what is shown.  A stored edit is in the state, and   *)
(* in what its own refresh has read.                                       *)
(***************************************************************************)
NewestIsStored ==
    /\ shownNow.change <= settings.change
    /\ \A r \in Refreshers : stage[r] = "read" =>
           latest[r].change <= settings.change /\ shownNow.change <= latest[r].change
    /\ \A e \in Editor : stage[e] \in {"stored", "locked", "read"} =>
           sent[e].is \in Nat /\ sent[e].is <= settings.change
    /\ \A e \in Editor : stage[e] = "read" => sent[e].is <= latest[e].change

EditsInv == ChangesCounted /\ OneRefresh /\ NewestIsStored /\ OwnEditsVisible

-----------------------------------------------------------------------------
(* The daemon starts with one version of the settings everywhere. *)
LEMMA StartHolds == ASSUME SettingsInit PROVE EditsInv
PROOF
<1> USE SettingsAssumption DEF SettingsInit, First, Refreshers
<1>1. ChangesCounted
  BY DEF ChangesCounted
<1>2. OneRefresh
  BY DEF OneRefresh, Ticking
<1>3. NewestIsStored /\ OwnEditsVisible
  BY DEF NewestIsStored, OwnEditsVisible
<1>4. QED
  BY <1>1, <1>2, <1>3 DEF EditsInv

(* An editor that reads the snapshot or sends a list. *)
EditorMoves(e) ==
    \/ ReadSnapshot(e) \/ SendRules(e) \/ SendLimits(e)
    \/ \E i \in 1 .. MaxRules : DeleteRow(e, i)

(* A step of an editor keeps the invariant, *)
LEMMA EditorStep == ASSUME EditsInv, NEW e \in Editor, EditorMoves(e) PROVE EditsInv'
PROOF
<1> USE DEF EditsInv, Refreshers
<1>1. UNCHANGED <<settings, shownNow, runtimeLock, latest, answered>>
  BY DEF EditorMoves, ReadSnapshot, SendRules, SendLimits, DeleteRow, Send
<1>2. stage[e] \in {"idle", "editing"}
  BY DEF EditorMoves, ReadSnapshot, SendRules, SendLimits, DeleteRow, Send
<1>3. \/ stage' = [stage EXCEPT ![e] = "editing"] /\ UNCHANGED sent
      \/ /\ stage' = [stage EXCEPT ![e] = "sent"]
         /\ \E list \in {"rules", "limits"} : \E edited : sent' = [sent EXCEPT ![e] = [of |-> list, is |-> edited]]
  BY DEF EditorMoves, ReadSnapshot, SendRules, SendLimits, DeleteRow, Send
<1>4. /\ \A r \in Refreshers \ {e} : stage'[r] = stage[r]
      /\ stage'[e] \in {"editing", "sent"}
      /\ \A f \in Editor \ {e} : sent'[f] = sent[f]
      /\ stage'[e] = "sent" => sent'[e].of \in {"rules", "limits"}
      /\ sent' = [f \in Editor |-> sent'[f]]
  BY <1>3 DEF ChangesCounted
<1>5. ChangesCounted'
  BY <1>1, <1>3, <1>4 DEF ChangesCounted
<1>6. OneRefresh'
  BY <1>1, <1>2, <1>4 DEF OneRefresh
<1>7. NewestIsStored' /\ OwnEditsVisible'
  BY <1>1, <1>4 DEF NewestIsStored, OwnEditsVisible
<1>8. QED
  BY <1>5, <1>6, <1>7

(* Store puts a list into the state and counts one change more. *)
LEMMA StoreStep == ASSUME EditsInv, NEW e \in Editor, Store(e) PROVE EditsInv'
PROOF
<1> USE DEF EditsInv, Refreshers
<1>1. UNCHANGED <<shownNow, runtimeLock, latest, answered>> /\ stage[e] = "sent"
  BY DEF Store
<1>2. settings' = [rules |-> settings'.rules, limits |-> settings'.limits, change |-> settings.change + 1]
  <2>1. CASE sent[e].of = "rules"
    BY <2>1 DEF Store, ChangesCounted
  <2>2. CASE sent[e].of = "limits"
    BY <2>2 DEF Store, ChangesCounted
  <2>3. QED
    BY <1>1, <2>1, <2>2 DEF ChangesCounted
<1>3. settings'.change = settings.change + 1
  BY <1>2
<1>4. \/ /\ stage' = [stage EXCEPT ![e] = "stored"]
         /\ sent' = [sent EXCEPT ![e] = [of |-> "change", is |-> settings'.change]]
      \/ /\ stage' = [stage EXCEPT ![e] = "idle"] /\ sent' = [sent EXCEPT ![e] = Nothing]
  BY DEF Store
<1>5. /\ \A r \in Refreshers \ {e} : stage'[r] = stage[r]
      /\ stage'[e] \in {"stored", "idle"}
      /\ \A f \in Editor \ {e} : sent'[f] = sent[f]
      /\ stage'[e] = "stored" => sent'[e].is = settings'.change
      /\ sent' = [f \in Editor |-> sent'[f]]
  BY <1>4 DEF ChangesCounted
<1>6. ChangesCounted'
  <2>1. settings' = [rules |-> settings'.rules, limits |-> settings'.limits, change |-> settings'.change]
    BY <1>2, <1>3
  <2>2. settings'.change \in Nat
    BY <1>3 DEF ChangesCounted
  <2>3. stage' \in [Refreshers -> {"idle", "editing", "sent", "stored", "locked", "read"}]
    BY <1>4 DEF ChangesCounted
  <2>4. \A f \in Editor : stage'[f] = "sent" => sent'[f].of \in {"rules", "limits"}
    BY <1>5 DEF ChangesCounted
  <2>5. QED
    BY <1>1, <1>5, <2>1, <2>2, <2>3, <2>4 DEF ChangesCounted
<1>7. OneRefresh'
  BY <1>1, <1>5 DEF OneRefresh
<1>8. NewestIsStored' /\ OwnEditsVisible'
  <2>1. settings'.change \in Nat /\ settings.change \in Nat /\ settings.change <= settings'.change
    BY <1>3 DEF ChangesCounted
  <2>2. shownNow.change \in Nat /\ \A r \in Refreshers : latest[r].change \in Nat
    BY DEF ChangesCounted
  <2>3. shownNow'.change <= settings'.change
    BY <1>1, <2>1, <2>2 DEF NewestIsStored
  <2>4. \A r \in Refreshers : stage'[r] = "read" =>
            latest'[r].change <= settings'.change /\ shownNow'.change <= latest'[r].change
    BY <1>1, <1>5, <2>1, <2>2 DEF NewestIsStored
  <2>5. \A f \in Editor : stage'[f] \in {"stored", "locked", "read"} =>
            sent'[f].is \in Nat /\ sent'[f].is <= settings'.change
    BY <1>5, <2>1 DEF NewestIsStored
  <2>6. \A f \in Editor : stage'[f] = "read" => sent'[f].is <= latest'[f].change
    BY <1>1, <1>5 DEF NewestIsStored
  <2>7. QED
    BY <1>1, <2>3, <2>4, <2>5, <2>6 DEF NewestIsStored, OwnEditsVisible
<1>9. QED
  BY <1>6, <1>7, <1>8

-----------------------------------------------------------------------------
(* perform_refresh: taking the mutex, reading the state, and its end. *)

(* a refresh that takes the lock does, *)
LEMMA LockStep == ASSUME EditsInv, NEW r \in Refreshers, Lock(r) PROVE EditsInv'
PROOF
<1> USE DEF EditsInv
<1>1. UNCHANGED <<settings, shownNow, sent, latest, answered>> /\ stage' = [stage EXCEPT ![r] = "locked"]
  BY DEF Lock
<1>2. runtimeLock = "free" /\ runtimeLock' = r /\ stage[r] = IF r = Ticking THEN "idle" ELSE "stored"
  BY DEF Lock, MutexIsFree
<1>3. ChangesCounted'
  BY <1>1, SettingsAssumption DEF ChangesCounted, Refreshers
<1>4. OneRefresh'
  <2>1. \A s \in Refreshers : s # "free"
    BY SettingsAssumption DEF Refreshers, Ticking
  <2>2. QED
    BY <1>1, <1>2, <2>1 DEF OneRefresh, ChangesCounted
<1>5. NewestIsStored' /\ OwnEditsVisible'
  BY <1>1, <1>2, SettingsAssumption DEF NewestIsStored, OwnEditsVisible, ChangesCounted, Refreshers
<1>6. QED
  BY <1>3, <1>4, <1>5

(* and so does one that reads the state. *)
LEMMA ReadStep == ASSUME EditsInv, NEW r \in Refreshers, ReadState(r) PROVE EditsInv'
PROOF
<1> USE DEF EditsInv
<1>1. /\ UNCHANGED <<settings, shownNow, sent, runtimeLock, answered>> /\ stage[r] = "locked"
      /\ stage' = [stage EXCEPT ![r] = "read"] /\ latest' = [latest EXCEPT ![r] = settings]
  BY DEF ReadState
<1>2. ChangesCounted'
  BY <1>1, SettingsAssumption DEF ChangesCounted, Refreshers
<1>3. OneRefresh'
  BY <1>1 DEF OneRefresh, ChangesCounted
<1>4. NewestIsStored' /\ OwnEditsVisible'
  <2>1. /\ \A s \in Refreshers \ {r} : stage'[s] = stage[s] /\ latest'[s] = latest[s]
        /\ latest'[r] = settings
    BY <1>1 DEF ChangesCounted
  <2>2. stage[r] = "locked" /\ stage'[r] = "read"
    BY <1>1 DEF ChangesCounted
  <2>3. settings.change \in Nat /\ shownNow.change <= settings.change
    BY DEF ChangesCounted, NewestIsStored
  <2>4. \A s \in Refreshers : stage'[s] = "read" =>
            latest'[s].change <= settings.change /\ shownNow.change <= latest'[s].change
    BY <2>1, <2>2, <2>3 DEF NewestIsStored
  <2>5. \A e \in Editor : stage'[e] = "read" => sent[e].is <= latest'[e].change
    BY <2>1, <2>2 DEF NewestIsStored, Refreshers
  <2>6. \A e \in Editor : stage'[e] \in {"stored", "locked", "read"} =>
            sent[e].is \in Nat /\ sent[e].is <= settings.change
    BY <2>1, <2>2 DEF NewestIsStored, Refreshers
  <2>7. QED
    BY <1>1, <2>3, <2>4, <2>5, <2>6 DEF NewestIsStored, OwnEditsVisible
<1>5. QED
  BY <1>2, <1>3, <1>4

(***************************************************************************)
(* The end of a refresh.  The one that publishes holds the mutex, so no    *)
(* other has read settings it could publish over newer ones later.         *)
(***************************************************************************)
LEMMA OverStep ==
    ASSUME EditsInv, NEW r \in Refreshers, Publish(r) \/ RefreshFails(r)
    PROVE  EditsInv'
PROOF
<1> USE DEF EditsInv
<1>1. /\ UNCHANGED settings /\ stage[r] \in {"locked", "read"} /\ runtimeLock' = "free"
      /\ stage' = [stage EXCEPT ![r] = "idle"] /\ latest' = [latest EXCEPT ![r] = First]
      /\ sent' = IF r = Ticking THEN sent ELSE [sent EXCEPT ![r] = Nothing]
  BY DEF Publish, RefreshFails, RefreshOver
<1>2. runtimeLock = r
  BY <1>1 DEF OneRefresh
<1>3. /\ \A s \in Refreshers \ {r} : stage'[s] = stage[s] /\ latest'[s] = latest[s]
      /\ stage'[r] = "idle" /\ latest'[r] = First
      /\ \A e \in Editor \ {r} : sent'[e] = sent[e]
      /\ sent' = [e \in Editor |-> sent'[e]]
  BY <1>1 DEF ChangesCounted
<1>4. \A s \in Refreshers : stage'[s] \notin {"locked", "read"}
  BY <1>2, <1>3 DEF OneRefresh
<1>5. /\ shownNow'.change \in Nat /\ shownNow.change <= shownNow'.change
      /\ shownNow'.change <= settings.change
      /\ answered' \in Nat /\ answered' <= shownNow'.change
  <2>1. CASE Publish(r)
    <3>1. /\ stage[r] = "read" /\ shownNow' = latest[r]
          /\ answered' = IF r # Ticking /\ sent[r].is > answered THEN sent[r].is ELSE answered
      BY <2>1 DEF Publish
    <3>2. r # Ticking => r \in Editor
      BY DEF Refreshers
    <3>3. QED
      BY <3>1, <3>2 DEF NewestIsStored, ChangesCounted, OwnEditsVisible
  <2>2. CASE RefreshFails(r)
    BY <2>2 DEF RefreshFails, NewestIsStored, ChangesCounted, OwnEditsVisible
  <2>3. QED
    BY <2>1, <2>2
<1>6. ChangesCounted'
  <2>1. stage' \in [Refreshers -> {"idle", "editing", "sent", "stored", "locked", "read"}]
    BY <1>1 DEF ChangesCounted
  <2>2. \A s \in Refreshers : latest'[s].change \in Nat
    BY <1>3 DEF ChangesCounted, First
  <2>3. latest' = [s \in Refreshers |-> latest'[s]]
    BY <1>1 DEF ChangesCounted
  <2>4. \A e \in Editor : stage'[e] = "sent" => sent'[e].of \in {"rules", "limits"}
    BY <1>3 DEF ChangesCounted, Refreshers
  <2>5. QED
    BY <1>1, <1>3, <1>5, <2>1, <2>2, <2>3, <2>4 DEF ChangesCounted
<1>7. OneRefresh'
  <2>1. \A s \in Refreshers : s # "free"
    BY SettingsAssumption DEF Refreshers, Ticking
  <2>2. QED
    BY <1>1, <1>4, <2>1 DEF OneRefresh
<1>8. NewestIsStored'
  BY <1>1, <1>3, <1>4, <1>5 DEF NewestIsStored, Refreshers
<1>9. OwnEditsVisible'
  BY <1>5 DEF OwnEditsVisible
<1>10. QED
  BY <1>6, <1>7, <1>8, <1>9

-----------------------------------------------------------------------------
(***************************************************************************)
(* The inductive invariant: changes are counted, the mutex orders the      *)
(* refreshes, and what is shown, what a refresh has read and what is       *)
(* stored are each at least as new as the one before.                      *)
(***************************************************************************)
THEOREM EditsInvariant == SettingsSpec => []EditsInv
PROOF
<1>1. EditsInv /\ [SettingsNext]_settingsVars => EditsInv'
  <2> SUFFICES ASSUME EditsInv, [SettingsNext]_settingsVars PROVE EditsInv'
    OBVIOUS
  <2>1. CASE UNCHANGED settingsVars
    BY <2>1 DEF settingsVars, EditsInv, ChangesCounted, OneRefresh, NewestIsStored, OwnEditsVisible
  <2>2. CASE SettingsNext
    BY <2>2, EditorStep, StoreStep, LockStep, ReadStep, OverStep DEF SettingsNext, EditorMoves
  <2>3. QED
    BY <2>1, <2>2
<1>2. QED
  BY StartHolds, <1>1, PTL DEF SettingsSpec

(***************************************************************************)
(* An edit answered with success is in every snapshot shown from then on,  *)
(* with any number of editors and refreshes at work.                       *)
(***************************************************************************)
THEOREM EditsAreVisible == SettingsSpec => []OwnEditsVisible
PROOF
<1>1. EditsInv => OwnEditsVisible
  BY DEF EditsInv
<1>2. QED
  BY EditsInvariant, <1>1, PTL

-----------------------------------------------------------------------------
(* The lists of rules, row by row.                                         *)

(* A list without its i-th row: the rows before it, then those after it. *)
LEMMA RowsLeft ==
    ASSUME NEW S, NEW s \in Seq(S), NEW i \in 1 .. Len(s)
    PROVE  /\ RemoveAt(s, i) \in Seq(S) /\ Len(RemoveAt(s, i)) = Len(s) - 1
           /\ \A k \in 1 .. Len(s) - 1 : RemoveAt(s, i)[k] = IF k < i THEN s[k] ELSE s[k + 1]
PROOF
<1> DEFINE front == SubSeq(s, 1, i - 1)  back == SubSeq(s, i + 1, Len(s))
<1>1. /\ front \in Seq(S) /\ Len(front) = i - 1 /\ \A k \in 1 .. i - 1 : front[k] = s[k]
      /\ back \in Seq(S) /\ Len(back) = Len(s) - i /\ \A k \in 1 .. Len(s) - i : back[k] = s[i + k]
  OBVIOUS
<1> HIDE DEF front, back
<1>2. RemoveAt(s, i) = front \o back
  BY DEF RemoveAt, front, back
<1>3. /\ front \o back \in Seq(S) /\ Len(front \o back) = Len(s) - 1
      /\ \A k \in 1 .. Len(s) - 1 : (front \o back)[k] = IF k <= i - 1 THEN front[k] ELSE back[k - (i - 1)]
  BY <1>1, ConcatProperties
<1>4. \A k \in 1 .. Len(s) - 1 : (front \o back)[k] = IF k < i THEN s[k] ELSE s[k + 1]
  <2> SUFFICES ASSUME NEW k \in 1 .. Len(s) - 1 PROVE (front \o back)[k] = IF k < i THEN s[k] ELSE s[k + 1]
    OBVIOUS
  <2>1. CASE k < i
    BY <2>1, <1>1, <1>3
  <2>2. CASE ~(k < i)
    <3>1. back[k - (i - 1)] = s[i + (k - (i - 1))] /\ i + (k - (i - 1)) = k + 1
      BY <2>2, <1>1
    <3>2. QED
      BY <2>2, <1>3, <3>1
  <2>3. QED
    BY <2>1, <2>2
<1>5. QED
  BY <1>2, <1>3, <1>4

(* A list with a row more at place p. *)
LEMMA RowsWithOneMore ==
    ASSUME NEW S, NEW s \in Seq(S), NEW p \in 1 .. Len(s) + 1, NEW e \in S
    PROVE  /\ InsertAt(s, p, e) \in Seq(S) /\ Len(InsertAt(s, p, e)) = Len(s) + 1
           /\ \A k \in 1 .. Len(s) + 1 :
                  InsertAt(s, p, e)[k] = IF k < p THEN s[k] ELSE IF k = p THEN e ELSE s[k - 1]
PROOF
<1> DEFINE front == SubSeq(s, 1, p - 1)  back == SubSeq(s, p, Len(s))
<1>1. /\ front \in Seq(S) /\ Len(front) = p - 1 /\ \A k \in 1 .. p - 1 : front[k] = s[k]
      /\ back \in Seq(S) /\ Len(back) = Len(s) - p + 1
      /\ \A k \in 1 .. Len(s) - p + 1 : back[k] = s[p + k - 1]
  OBVIOUS
<1> HIDE DEF front, back
<1>2. InsertAt(s, p, e) = front \o <<e>> \o back
  BY DEF InsertAt, front, back
<1>3. /\ front \o <<e>> \in Seq(S) /\ Len(front \o <<e>>) = p
      /\ \A k \in 1 .. p : (front \o <<e>>)[k] = IF k < p THEN s[k] ELSE e
  BY <1>1
<1>4. QED
  BY <1>1, <1>2, <1>3

(***************************************************************************)
(* What reorder_rule makes of a list without repetitions: the insertion    *)
(* point, counted in the list the dragged rule has left, puts the rule on  *)
(* the side of the target that was asked for, whichever of the two came    *)
(* first; no other rule changes its place among the others.                *)
(***************************************************************************)
LEMMA DropLands ==
    ASSUME NEW S, NEW list \in Seq(S), IsInjective(list),
           NEW i \in Positions(list), NEW j \in Positions(list), i # j,
           NEW where \in {"before", "after"}
    PROVE  LandsBeside(list, i, j, where)
PROOF
<1> USE DEF Positions
<1> DEFINE to == Insertion(i, j, where)
           p == IF to < Len(list) THEN to ELSE Len(list)
           rest == RemoveAt(list, i)
           moved == Reordered(list, i, j, where)
<1>1. p \in 1 .. Len(list) /\ p = to
  BY DEF Insertion
<1>2. /\ rest \in Seq(S) /\ Len(rest) = Len(list) - 1
      /\ \A k \in 1 .. Len(list) - 1 : rest[k] = IF k < i THEN list[k] ELSE list[k + 1]
  BY RowsLeft
<1>3. moved = InsertAt(rest, p, list[i])
  BY DEF Reordered
<1>10. list[i] \in S
  OBVIOUS
<1> HIDE DEF p, to, rest, moved
<1>4. /\ moved \in Seq(S) /\ Len(moved) = Len(list)
      /\ \A k \in 1 .. Len(list) : moved[k] = IF k < p THEN rest[k] ELSE IF k = p THEN list[i] ELSE rest[k - 1]
  <2>1. p \in 1 .. Len(rest) + 1 /\ Len(rest) + 1 = Len(list)
    BY <1>1, <1>2
  <2>2. /\ InsertAt(rest, p, list[i]) \in Seq(S) /\ Len(InsertAt(rest, p, list[i])) = Len(rest) + 1
        /\ \A k \in 1 .. Len(rest) + 1 : InsertAt(rest, p, list[i])[k] =
               IF k < p THEN rest[k] ELSE IF k = p THEN list[i] ELSE rest[k - 1]
    <3>1. rest \in Seq(S)
      BY <1>2
    <3>2. p \in 1 .. Len(rest) + 1
      BY <2>1
    <3>3. QED
      BY <1>10, <3>1, <3>2, RowsWithOneMore, SMTT(60)
  <2>3. QED
    BY <1>3, <2>1, <2>2
<1>5. \A k \in 1 .. Len(list) : moved[k] = list[i] => k = p
  <2> SUFFICES ASSUME NEW k \in 1 .. Len(list), k # p PROVE moved[k] # list[i]
    OBVIOUS
  <2>1. PICK m \in 1 .. Len(list) - 1 : moved[k] = rest[m]
    BY <1>1, <1>4
  <2>2. PICK n \in 1 .. Len(list) : rest[m] = list[n] /\ n # i
    BY <1>2
  <2>3. QED
    BY <2>1, <2>2 DEF IsInjective
<1>6. (CHOOSE k \in Positions(moved) : moved[k] = list[i]) = p
  BY <1>1, <1>4, <1>5
<1>7. RemoveAt(moved, p) = rest
  <2>1. /\ RemoveAt(moved, p) \in Seq(S) /\ Len(RemoveAt(moved, p)) = Len(list) - 1
        /\ \A k \in 1 .. Len(list) - 1 : RemoveAt(moved, p)[k] = IF k < p THEN moved[k] ELSE moved[k + 1]
    BY <1>1, <1>4, RowsLeft
  <2>2. ASSUME NEW k \in 1 .. Len(list) - 1 PROVE RemoveAt(moved, p)[k] = rest[k]
    <3>1. CASE k < p
      BY <1>1, <1>4, <2>1, <3>1
    <3>2. CASE ~(k < p)
      <4>1. k + 1 \in 1 .. Len(list) /\ ~(k + 1 < p) /\ k + 1 # p /\ (k + 1) - 1 = k
        BY <1>1, <3>2
      <4>2. QED
        BY <1>4, <2>1, <3>2, <4>1
    <3>3. QED
      BY <3>1, <3>2
  <2>3. QED
    BY <1>2, <2>1, <2>2, SeqEqual
<1>8. LET beside == IF where = "before" THEN p + 1 ELSE p - 1
      IN  beside \in Positions(moved) /\ moved[beside] = list[j]
  <2>1. CASE where = "before"
    <3>1. p = IF i < j THEN j - 1 ELSE j
      BY <1>1, <2>1 DEF to, Insertion
    <3>2. p + 1 \in 1 .. Len(list) /\ moved[p + 1] = rest[p]
      BY <1>1, <1>4, <3>1
    <3>3. rest[p] = list[j]
      BY <1>2, <3>1
    <3>4. QED
      BY <1>4, <2>1, <3>2, <3>3
  <2>2. CASE where = "after"
    <3>1. p = IF i > j THEN j + 1 ELSE j
      BY <1>1, <2>2 DEF to, Insertion
    <3>2. p - 1 \in 1 .. Len(list) /\ moved[p - 1] = rest[p - 1]
      BY <1>1, <1>4, <3>1
    <3>3. rest[p - 1] = list[j]
      BY <1>2, <3>1
    <3>4. QED
      BY <1>4, <2>2, <3>2, <3>3
  <2>3. QED
    BY <2>1, <2>2
<1>9. QED
  BY <1>6, <1>7, <1>8 DEF LandsBeside, moved, rest

(***************************************************************************)
(* index_to_nonfallback never returns the row it is asked about, except    *)
(* for the first: whichever row is to go, the filter drops the first one.  *)
(***************************************************************************)
LEMMA FirstRowLeaves ==
    ASSUME NEW S, NEW list \in Seq(S), NEW i \in Positions(list)
    PROVE  DeletedByWeb(list, i) = RemoveAt(list, 1)
PROOF
<1> USE DEF Positions
<1> DEFINE kept == {k \in Positions(list) : k - 1 # IndexToNonfallback(i - 1, k - 1)}
<1>1. kept = 2 .. Len(list)
  <2>1. \A k \in 1 .. Len(list) : k - 1 = IndexToNonfallback(i - 1, k - 1) <=> k = 1
    BY DEF IndexToNonfallback
  <2>2. QED
    BY <2>1
<1> HIDE DEF kept
<1>2. Cardinality(kept) = Len(list) - 1
  BY <1>1, FS_Interval
<1>3. ASSUME NEW n \in 1 .. Len(list) - 1
      PROVE  (CHOOSE k \in kept : Cardinality({m \in kept : m <= k}) = n) = n + 1
  <2>1. ASSUME NEW k \in kept PROVE Cardinality({m \in kept : m <= k}) = k - 1
    <3>1. {m \in kept : m <= k} = 2 .. k /\ k \in Int /\ k >= 2
      BY <1>1
    <3>2. Cardinality(2 .. k) = k - 1
      BY <3>1, FS_Interval
    <3>3. QED
      BY <3>1, <3>2
  <2>2. n + 1 \in kept /\ \A k \in kept : k \in Int
    BY <1>1
  <2>3. \A k \in kept : Cardinality({m \in kept : m <= k}) = n <=> k = n + 1
    BY <2>1, <2>2
  <2>4. QED
    BY <2>2, <2>3
<1>4. DeletedByWeb(list, i) = [n \in 1 .. Len(list) - 1 |-> list[n + 1]]
  <2>1. DeletedByWeb(list, i) = InOrder(list, kept)
    BY DEF DeletedByWeb, kept
  <2>2. InOrder(list, kept) =
            [n \in 1 .. Len(list) - 1 |-> list[CHOOSE k \in kept : Cardinality({m \in kept : m <= k}) = n]]
    BY <1>2 DEF InOrder
  <2>3. QED
    BY <1>3, <2>1, <2>2
<1>5. /\ RemoveAt(list, 1) \in Seq(S) /\ Len(RemoveAt(list, 1)) = Len(list) - 1
      /\ \A n \in 1 .. Len(list) - 1 : RemoveAt(list, 1)[n] = list[n + 1]
  <2>1. 1 \in 1 .. Len(list)
    OBVIOUS
  <2>2. QED
    BY <2>1, RowsLeft
<1>6. RemoveAt(list, 1) = [n \in 1 .. Len(list) - 1 |-> RemoveAt(list, 1)[n]]
  BY <1>5
<1>7. QED
  BY <1>4, <1>5, <1>6

(* The lists of rules within the bound, as sequences. *)
Lists == {list \in Seq(Rules) : Len(list) <= MaxRules}

(* They are the ones Settings speaks of. *)
LEMMA ListsOfRules == \A list : list \in Lists <=> list \in UNION {[1 .. n -> Rules] : n \in 0 .. MaxRules}
PROOF
<1> USE SettingsAssumption
<1>1. ASSUME NEW list \in Lists PROVE list \in UNION {[1 .. n -> Rules] : n \in 0 .. MaxRules}
  <2>1. list \in [1 .. Len(list) -> Rules] /\ Len(list) \in 0 .. MaxRules
    BY DEF Lists
  <2>2. QED
    BY <2>1
<1>2. ASSUME NEW n \in 0 .. MaxRules, NEW list \in [1 .. n -> Rules] PROVE list \in Lists
  <2>1. list \in Seq(Rules) /\ Len(list) = n
    OBVIOUS
  <2>2. QED
    BY <2>1 DEF Lists
<1>3. QED
  BY <1>1, <1>2

(* Every edit of a list of rules is a list of rules. *)
LEMMA EditsAreLists ==
    ASSUME NEW e \in Editor, NEW list \in Seq(Rules), NEW edited \in RulesSentBy(e, list)
    PROVE  edited \in Seq(Rules)
PROOF
<1> USE DEF Positions
<1>1. NewRule \in Rules /\ BadRule \in Rules
  BY DEF Rules
<1>2. ASSUME NEW i \in Positions(list), NEW j \in Positions(list) PROVE Exchanged(list, i, j) \in Seq(Rules)
  BY DEF Exchanged
<1>3. ASSUME NEW i \in Int, list # <<>> PROVE Clamped(i, list) \in Positions(list)
  BY <1>3 DEF Clamped
<1>4. ASSUME NEW i \in Positions(list), NEW rule \in Rules PROVE [list EXCEPT ![i] = rule] \in Seq(Rules)
  OBVIOUS
<1>5. ASSUME NEW i \in Positions(list) PROVE RemoveAt(list, i) \in Seq(Rules)
  BY RowsLeft
<1>6. ASSUME NEW i \in Positions(list), NEW p \in Positions(list)
      PROVE  InsertAt(RemoveAt(list, i), p, list[i]) \in Seq(Rules)
  <2>1. RemoveAt(list, i) \in Seq(Rules) /\ Len(RemoveAt(list, i)) + 1 = Len(list) /\ list[i] \in Rules
    BY RowsLeft
  <2>2. p \in 1 .. Len(RemoveAt(list, i)) + 1
    BY <2>1
  <2>3. QED
    BY <2>1, <2>2, RowsWithOneMore
<1>7. ASSUME NEW i \in Positions(list), NEW delta \in {-1, 1}
      PROVE  MovedBySwap(list, i, delta) \in Seq(Rules) /\ MovedByInsertion(list, i, delta) \in Seq(Rules)
  <2>1. Clamped(i + delta, list) \in Positions(list)
    BY <1>3
  <2>2. QED
    BY <2>1, <1>2, <1>6 DEF MovedBySwap, MovedByInsertion
<1>8. ASSUME NEW i \in Positions(list), NEW j \in Positions(list) \ {i}, NEW where \in {"before", "after"}
      PROVE  Reordered(list, i, j, where) \in Seq(Rules)
  <2>1. (IF Insertion(i, j, where) < Len(list) THEN Insertion(i, j, where) ELSE Len(list)) \in Positions(list)
    BY DEF Insertion
  <2>2. QED
    BY <2>1, <1>6 DEF Reordered
<1>9. Append(list, NewRule) \in Seq(Rules)
  BY <1>1
<1>10. ASSUME NEW i \in 1 .. Len(list) + 1, NEW rule \in Rules PROVE InsertAt(list, i, rule) \in Seq(Rules)
  BY RowsWithOneMore
<1>11. CASE edited \in WebRules(list)
  <2>1. CASE edited \in {MovedBySwap(list, i, delta) : i \in Positions(list), delta \in {-1, 1}}
    BY <2>1, <1>7
  <2>2. CASE edited \in UNION {{Reordered(list, i, j, where) :
                                    j \in Positions(list) \ {i}, where \in {"before", "after"}} : i \in Positions(list)}
    <3>1. PICK i \in Positions(list) :
              edited \in {Reordered(list, i, j, where) : j \in Positions(list) \ {i}, where \in {"before", "after"}}
      BY <2>2
    <3>2. QED
      BY <3>1, <1>8
  <2>3. CASE edited \in {[list EXCEPT ![i] = NewRule] : i \in Positions(list)}
    BY <2>3, <1>1, <1>4
  <2>4. QED
    BY <1>9, <1>11, <2>1, <2>2, <2>3 DEF WebRules
<1>12. CASE edited \in TuiRules(list)
  <2>1. CASE \E i \in 1 .. Len(list) - 1 : edited = Exchanged(list, i, i + 1)
    BY <2>1, <1>2
  <2>2. CASE \E i \in Positions(list) : edited = RemoveAt(list, i)
    BY <2>2, <1>5
  <2>3. CASE \E i \in Positions(list) : edited = [list EXCEPT ![i] = NewRule]
    BY <2>3, <1>1, <1>4
  <2>4. QED
    BY <1>9, <1>12, <2>1, <2>2, <2>3, Zenon DEF TuiRules
<1>13. CASE edited \in CliRules(list)
  <2>1. CASE \E i \in Positions(list), delta \in {-1, 1} : edited = MovedByInsertion(list, i, delta)
    BY <2>1, <1>7
  <2>2. CASE \E i \in Positions(list) : edited = RemoveAt(list, i)
    BY <2>2, <1>5
  <2>3. CASE \E i \in Positions(list), rule \in {NewRule, BadRule} : edited = [list EXCEPT ![i] = rule]
    BY <2>3, <1>1, <1>4
  <2>4. CASE \E i \in 1 .. Len(list) + 1, rule \in {NewRule, BadRule} : edited = InsertAt(list, i, rule)
    BY <2>4, <1>1, <1>10
  <2>5. QED
    BY <1>13, <2>1, <2>2, <2>3, <2>4 DEF CliRules
<1>14. QED
  BY <1>11, <1>12, <1>13, SettingsAssumption DEF RulesSentBy, Programs

(* The requests on their way to the daemon, each of which adds a change. *)
OnTheWay == {e \in Editor : stage[e] = "sent"}
ListsAreSent ==
    /\ copy = [e \in Editor |-> copy[e]]
    /\ \A e \in Editor : stage[e] = "sent" =>
           \/ sent[e].of = "rules" /\ sent[e].is \in Lists
           \/ sent[e].of = "limits" /\ sent[e].is \in Limits
    /\ settings.change + Cardinality(OnTheWay) <= requests

TypesInv == SettingsTypeOK /\ ListsAreSent

(* The settings as a set of records, *)
LEMMA SettingsAre == Settings = [rules : Lists, limits : Limits, change : 0 .. MaxSettings]
  BY ListsOfRules DEF Settings

(* which has the settings the daemon starts with. *)
LEMMA FirstIsTyped == First \in Settings
PROOF
<1>1. FirstRules \in Lists
  BY SettingsAssumption, SeqMonotonic DEF Lists, Rules
<1>2. QED
  BY <1>1, SettingsAre, SettingsAssumption DEF First, Limits

(* They hold when the daemon starts, *)
LEMMA TypesStart == ASSUME SettingsInit PROVE TypesInv
PROOF
<1> USE SettingsAssumption DEF SettingsInit
<1>1. OnTheWay = {}
  BY DEF OnTheWay, Refreshers
<1>2. SettingsTypeOK
  BY FirstIsTyped DEF SettingsTypeOK, Nothing
<1>3. ListsAreSent
  BY <1>1, FS_EmptySet DEF ListsAreSent, Refreshers, First
<1>4. QED
  BY <1>2, <1>3 DEF TypesInv

(* when an editor reads what is published, *)
LEMMA TypesOfReading == ASSUME TypesInv, NEW e \in Editor, ReadSnapshot(e) PROVE TypesInv'
PROOF
<1> USE DEF TypesInv, ReadSnapshot
<1>1. OnTheWay' = OnTheWay
  BY DEF OnTheWay, SettingsTypeOK, Refreshers
<1>2. SettingsTypeOK'
  BY DEF SettingsTypeOK, ListsAreSent, Refreshers
<1>3. ListsAreSent'
  BY <1>1 DEF ListsAreSent, SettingsTypeOK, Refreshers
<1>4. QED
  BY <1>2, <1>3

(* What an editor sends is made of its copy, and is of the type of a copy. *)
LEMMA WhatIsSent ==
    ASSUME TypesInv, NEW e \in Editor,
           SendRules(e) \/ SendLimits(e) \/ \E i \in 1 .. MaxRules : DeleteRow(e, i)
    PROVE  \/ \E list \in Lists : Send(e, "rules", list)
           \/ \E limits \in Limits : Send(e, "limits", limits)
PROOF
<1>1. copy[e].rules \in Lists /\ copy[e].limits \in Limits
  BY SettingsAre DEF TypesInv, SettingsTypeOK
<1>2. CASE SendRules(e)
  BY <1>1, <1>2, EditsAreLists DEF SendRules, Lists
<1>3. CASE SendLimits(e)
  <2>1. \A range : \A limit \in {"capped", "unlimited"} :
            [h \in DOMAIN copy[e].limits |-> IF InRange(e, h, range[1], range[2]) THEN limit ELSE copy[e].limits[h]] \in Limits
    BY <1>1 DEF Limits
  <2>2. ASSUME NEW limits \in LimitsSentBy(e, copy[e].limits) PROVE limits \in Limits
    <3>1. PICK range \in RangesOf(e), limit \in {"capped", "unlimited"} :
              limits = [h \in DOMAIN copy[e].limits |->
                            IF InRange(e, h, range[1], range[2]) THEN limit ELSE copy[e].limits[h]]
      BY DEF LimitsSentBy
    <3>2. QED
      BY <2>1, <3>1
  <2>3. QED
    BY <1>3, <2>2 DEF SendLimits
<1>4. CASE \E i \in 1 .. MaxRules : DeleteRow(e, i)
  <2>1. PICK i \in Positions(copy[e].rules) : Send(e, "rules", DeletedByWeb(copy[e].rules, i))
    BY <1>4 DEF DeleteRow
  <2>2. DeletedByWeb(copy[e].rules, i) = RemoveAt(copy[e].rules, 1)
    BY <1>1, <2>1, FirstRowLeaves DEF Lists
  <2>3. 1 \in 1 .. Len(copy[e].rules) /\ copy[e].rules \in Seq(Rules) /\ Len(copy[e].rules) <= MaxRules
    BY <1>1, <2>1 DEF Lists, Positions
  <2>4. RemoveAt(copy[e].rules, 1) \in Lists
    BY <2>3, RowsLeft, SettingsAssumption DEF Lists
  <2>5. QED
    BY <2>1, <2>2, <2>4
<1>5. QED
  BY <1>2, <1>3, <1>4

(* The request that is sent is one more on its way. *)
LEMMA TypesOfSending ==
    ASSUME EditsInv, TypesInv, NEW e \in Editor,
           SendRules(e) \/ SendLimits(e) \/ \E i \in 1 .. MaxRules : DeleteRow(e, i)
    PROVE  TypesInv'
PROOF
<1> USE DEF TypesInv
<1>1. PICK of \in {"rules", "limits"}, is \in Lists \cup Limits :
          Send(e, of, is) /\ (of = "rules" => is \in Lists) /\ (of = "limits" => is \in Limits)
  BY WhatIsSent
<1>2. /\ stage[e] = "editing" /\ stage' = [stage EXCEPT ![e] = "sent"]
      /\ sent' = [sent EXCEPT ![e] = [of |-> of, is |-> is]] /\ copy' = [copy EXCEPT ![e] = First]
      /\ requests < MaxSettings /\ requests' = requests + 1
      /\ UNCHANGED <<settings, onDisk, shownNow, runtimeLock, latest, answered, refreshFaults>>
  BY <1>1 DEF Send
<1>3. OnTheWay' = OnTheWay \cup {e} /\ e \notin OnTheWay
  BY <1>2 DEF OnTheWay, SettingsTypeOK, Refreshers
<1>4. IsFiniteSet(OnTheWay) /\ Cardinality(OnTheWay) \in Nat
  BY SettingsAssumption, FS_Subset, FS_CardinalityType DEF OnTheWay
<1>5. Cardinality(OnTheWay') = Cardinality(OnTheWay) + 1
  BY <1>3, <1>4, FS_AddElement
<1>6. /\ \A f \in Editor \ {e} : sent'[f] = sent[f] /\ copy'[f] = copy[f] /\ stage'[f] = stage[f]
      /\ sent'[e].of = of /\ sent'[e].is = is /\ copy'[e] = First /\ copy' = [f \in Editor |-> copy'[f]]
  BY <1>2 DEF EditsInv, ChangesCounted, ListsAreSent, SettingsTypeOK, Refreshers
<1>7. SettingsTypeOK'
  <2>1. stage' \in [Refreshers -> {"idle", "editing", "sent", "stored", "locked", "read"}]
    BY <1>2 DEF SettingsTypeOK
  <2>2. \A f \in Editor : copy'[f] \in Settings /\ sent'[f].of \in {"nothing", "change", "rules", "limits"}
    BY <1>6, FirstIsTyped DEF SettingsTypeOK
  <2>3. requests' \in 0 .. MaxSettings
    BY <1>2, SettingsAssumption DEF SettingsTypeOK
  <2>4. QED
    BY <1>2, <2>1, <2>2, <2>3 DEF SettingsTypeOK
<1>8. ListsAreSent'
  <2>1. settings.change \in Nat
    BY DEF EditsInv, ChangesCounted
  <2>2. settings'.change + Cardinality(OnTheWay)' <= requests'
    BY <1>2, <1>4, <1>5, <2>1, SettingsAssumption DEF ListsAreSent, SettingsTypeOK
  <2>3. \A f \in Editor : stage'[f] = "sent" =>
            \/ sent'[f].of = "rules" /\ sent'[f].is \in Lists
            \/ sent'[f].of = "limits" /\ sent'[f].is \in Limits
    BY <1>1, <1>6 DEF ListsAreSent
  <2>4. QED
    BY <1>6, <2>2, <2>3 DEF ListsAreSent
<1>9. QED
  BY <1>7, <1>8

(* Store takes one of the requests on their way and counts its change. *)
LEMMA TypesOfStoring == ASSUME EditsInv, TypesInv, NEW e \in Editor, Store(e) PROVE TypesInv'
PROOF
<1> USE DEF TypesInv
<1>1. /\ stage[e] = "sent" /\ UNCHANGED <<shownNow, copy, runtimeLock, latest, answered, requests, refreshFaults>>
      /\ settings' = [settings EXCEPT ![sent[e].of] = sent[e].is, !.change = @ + 1]
      /\ \/ /\ onDisk' = settings' /\ stage' = [stage EXCEPT ![e] = "stored"]
            /\ sent' = [sent EXCEPT ![e] = [of |-> "change", is |-> settings'.change]]
         \/ /\ onDisk' = onDisk /\ stage' = [stage EXCEPT ![e] = "idle"]
            /\ sent' = [sent EXCEPT ![e] = Nothing]
  BY DEF Store
<1>2. /\ \A f \in Editor \ {e} : sent'[f] = sent[f] /\ stage'[f] = stage[f]
      /\ sent'[e].of \in {"change", "nothing"} /\ stage'[e] \in {"stored", "idle"}
  <2>1. e \in DOMAIN sent /\ e \in DOMAIN stage
    BY DEF EditsInv, ChangesCounted, Refreshers
  <2>2. CASE /\ stage' = [stage EXCEPT ![e] = "stored"]
             /\ sent' = [sent EXCEPT ![e] = [of |-> "change", is |-> settings'.change]]
    BY <2>1, <2>2
  <2>3. CASE stage' = [stage EXCEPT ![e] = "idle"] /\ sent' = [sent EXCEPT ![e] = Nothing]
    BY <2>1, <2>3 DEF Nothing
  <2>4. QED
    BY <1>1, <2>2, <2>3
<1>3. OnTheWay' = OnTheWay \ {e} /\ e \in OnTheWay
  BY <1>1, <1>2 DEF OnTheWay
<1>4. IsFiniteSet(OnTheWay) /\ Cardinality(OnTheWay) \in Nat
  BY SettingsAssumption, FS_Subset, FS_CardinalityType DEF OnTheWay
<1>5. Cardinality(OnTheWay') = Cardinality(OnTheWay) - 1 /\ Cardinality(OnTheWay') \in Nat
  BY <1>3, <1>4, FS_RemoveElement, FS_CardinalityType
<1>6. settings.change \in Nat /\ requests \in 0 .. MaxSettings /\ settings.change + Cardinality(OnTheWay) <= requests
  BY DEF EditsInv, ChangesCounted, SettingsTypeOK, ListsAreSent
<1>7. settings' \in Settings /\ settings'.change = settings.change + 1
  <2>1. settings \in [rules : Lists, limits : Limits, change : 0 .. MaxSettings]
    BY SettingsAre DEF SettingsTypeOK
  <2>2. settings.change + 1 \in 0 .. MaxSettings
    BY <1>4, <1>5, <1>6, SettingsAssumption
  <2>3. CASE sent[e].of = "rules" /\ sent[e].is \in Lists
    BY <1>1, <2>1, <2>2, <2>3, SettingsAre
  <2>4. CASE sent[e].of = "limits" /\ sent[e].is \in Limits
    BY <1>1, <2>1, <2>2, <2>4, SettingsAre
  <2>5. QED
    BY <1>1, <2>3, <2>4 DEF ListsAreSent
<1>8. SettingsTypeOK'
  <2>1. stage' \in [Refreshers -> {"idle", "editing", "sent", "stored", "locked", "read"}]
    BY <1>1 DEF SettingsTypeOK
  <2>2. {settings', onDisk', shownNow'} \subseteq Settings
    BY <1>1, <1>7 DEF SettingsTypeOK
  <2>3. \A f \in Editor : copy'[f] \in Settings /\ sent'[f].of \in {"nothing", "change", "rules", "limits"}
    BY <1>1, <1>2 DEF SettingsTypeOK
  <2>4. QED
    BY <1>1, <2>1, <2>2, <2>3 DEF SettingsTypeOK
<1>9. ListsAreSent'
  <2>1. settings'.change + Cardinality(OnTheWay)' <= requests'
    <3>1. settings'.change = settings.change + 1 /\ requests' = requests
      BY <1>1, <1>7
    <3>2. Cardinality(OnTheWay)' = Cardinality(OnTheWay) - 1
      BY <1>5
    <3>3. QED
      BY <1>4, <1>6, <3>1, <3>2, SettingsAssumption
  <2>2. QED
    BY <1>1, <1>2, <2>1 DEF ListsAreSent
<1>10. QED
  BY <1>8, <1>9

(* A refresh passes on what is typed, and takes no request. *)
LEMMA TypesOfRefreshing ==
    ASSUME EditsInv, TypesInv, NEW r \in Refreshers, Lock(r) \/ ReadState(r) \/ Publish(r) \/ RefreshFails(r)
    PROVE  TypesInv'
PROOF
<1> USE DEF TypesInv
<1>1. stage[r] # "sent" /\ \E next \in {"locked", "read", "idle"} : stage' = [stage EXCEPT ![r] = next]
  BY DEF Lock, ReadState, Publish, RefreshFails, RefreshOver
<1>2. UNCHANGED <<settings, onDisk, copy, requests>>
  BY DEF Lock, ReadState, Publish, RefreshFails, RefreshOver
<1>3. \A s \in Refreshers \ {r} : stage'[s] = stage[s]
  BY <1>1 DEF SettingsTypeOK
<1>4. stage' \in [Refreshers -> {"idle", "editing", "sent", "stored", "locked", "read"}] /\ stage'[r] # "sent"
  BY <1>1 DEF SettingsTypeOK
<1>5. OnTheWay' = OnTheWay
  BY <1>1, <1>3, <1>4 DEF OnTheWay, Refreshers
<1>6. \/ sent' = sent
      \/ r \in Editor /\ sent' = [sent EXCEPT ![r] = Nothing]
  BY DEF Lock, ReadState, Publish, RefreshFails, RefreshOver, Refreshers
<1>7. \A e \in Editor : sent'[e].of \in {"nothing", "change", "rules", "limits"} /\ (e # r => sent'[e] = sent[e])
  BY <1>6 DEF EditsInv, ChangesCounted, SettingsTypeOK, Nothing
<1>8. \/ latest' = latest \/ latest' = [latest EXCEPT ![r] = settings] \/ latest' = [latest EXCEPT ![r] = First]
  BY DEF Lock, ReadState, Publish, RefreshFails, RefreshOver
<1>9. \A s \in Refreshers : latest'[s] \in Settings
  BY <1>8, FirstIsTyped DEF EditsInv, ChangesCounted, SettingsTypeOK
<1>10. shownNow' \in Settings
  BY DEF Lock, ReadState, Publish, RefreshFails, RefreshOver, SettingsTypeOK
<1>11. answered' \in 0 .. MaxSettings
  <2>1. CASE Publish(r)
    <3>1. r # Ticking => sent[r].is \in Nat /\ sent[r].is <= settings.change
      BY <2>1 DEF Publish, EditsInv, NewestIsStored, Refreshers
    <3>2. settings.change \in 0 .. MaxSettings
      BY SettingsAre DEF SettingsTypeOK
    <3>3. answered' = IF r # Ticking /\ sent[r].is > answered THEN sent[r].is ELSE answered
      BY <2>1 DEF Publish
    <3>4. QED
      BY <3>1, <3>2, <3>3, SettingsAssumption DEF SettingsTypeOK
  <2>2. CASE ~Publish(r)
    BY <2>2 DEF Lock, ReadState, RefreshFails, SettingsTypeOK
  <2>3. QED
    BY <2>1, <2>2
<1>12. runtimeLock' \in Refreshers \cup {"free"}
  BY DEF Lock, ReadState, Publish, RefreshFails, RefreshOver, SettingsTypeOK
<1>13. refreshFaults' \in 0 .. MaxRefreshFaults
  BY SettingsAssumption DEF Lock, ReadState, Publish, RefreshFails, RefreshOver, SettingsTypeOK
<1>14. SettingsTypeOK'
  BY <1>2, <1>4, <1>7, <1>9, <1>10, <1>11, <1>12, <1>13 DEF SettingsTypeOK
<1>15. ListsAreSent'
  <2>1. Cardinality(OnTheWay)' = Cardinality(OnTheWay)
    BY <1>5
  <2>2. \A e \in Editor : stage'[e] = "sent" => stage[e] = "sent" /\ sent'[e] = sent[e]
    BY <1>3, <1>4, <1>7 DEF Refreshers
  <2>3. QED
    BY <1>2, <2>1, <2>2 DEF ListsAreSent
<1>16. QED
  BY <1>14, <1>15

(***************************************************************************)
(* Type correctness: a list or a schedule that any program sends, the      *)
(* daemon stores and a refresh publishes is well formed throughout, and    *)
(* no more changes are counted than requests were sent.                    *)
(***************************************************************************)
THEOREM SettingsTypes == SettingsSpec => []SettingsTypeOK
PROOF
<1>1. EditsInv /\ TypesInv /\ [SettingsNext]_settingsVars => TypesInv'
  <2> SUFFICES ASSUME EditsInv, TypesInv, [SettingsNext]_settingsVars PROVE TypesInv'
    OBVIOUS
  <2>1. CASE UNCHANGED settingsVars
    BY <2>1 DEF settingsVars, TypesInv, SettingsTypeOK, ListsAreSent, OnTheWay
  <2>2. CASE SettingsNext
    BY <2>2, TypesOfReading, TypesOfSending, TypesOfStoring, TypesOfRefreshing DEF SettingsNext
  <2>3. QED
    BY <2>1, <2>2
<1>2. TypesInv => SettingsTypeOK
  BY DEF TypesInv
<1>3. SettingsInit => TypesInv
  BY TypesStart
<1>4. QED
  BY <1>1, <1>2, <1>3, EditsInvariant, PTL DEF SettingsSpec

(***************************************************************************)
(* A rule dragged on the routing page lands right before or right after    *)
(* the rule it is dropped on, for lists of any length.                     *)
(***************************************************************************)
THEOREM DragsLandBeside == SettingsSpec => []DraggedLandsBeside
PROOF
<1>1. SettingsTypeOK => DraggedLandsBeside
  <2> SUFFICES ASSUME SettingsTypeOK, NEW e \in Editor, IsInjective(copy[e].rules),
                      NEW i \in Positions(copy[e].rules), NEW j \in Positions(copy[e].rules), i # j,
                      NEW where \in {"before", "after"}
               PROVE  LandsBeside(copy[e].rules, i, j, where)
    BY DEF DraggedLandsBeside
  <2>1. copy[e].rules \in Lists
    BY SettingsAre DEF SettingsTypeOK
  <2>2. copy[e].rules \in Seq(Rules)
    BY <2>1 DEF Lists
  <2>3. QED
    BY <2>2, DropLands
<1>2. QED
  BY <1>1, SettingsTypes, PTL

(***************************************************************************)
(* What the Delete button does instead of DeleteRemovesItsRow: whichever   *)
(* row it is pressed on, the list sent to the daemon is the one the page   *)
(* was made from without its first rule (delete_rule, src/web/server.rs).  *)
(***************************************************************************)
THEOREM FirstRuleGoes ==
    SettingsSpec => [][\A e \in Editor : \A i \in 1 .. MaxRules :
                           DeleteRow(e, i) => sent'[e].is = RemoveAt(copy[e].rules, 1)]_settingsVars
PROOF
<1>1. ASSUME EditsInv, SettingsTypeOK, NEW e \in Editor, NEW i \in 1 .. MaxRules, DeleteRow(e, i)
      PROVE  sent'[e].is = RemoveAt(copy[e].rules, 1)
  <2>1. copy[e].rules \in Lists
    BY <1>1, SettingsAre DEF SettingsTypeOK
  <2>2. DeletedByWeb(copy[e].rules, i) = RemoveAt(copy[e].rules, 1)
    BY <1>1, <2>1, FirstRowLeaves DEF DeleteRow, Lists
  <2>3. sent' = [sent EXCEPT ![e] = [of |-> "rules", is |-> DeletedByWeb(copy[e].rules, i)]]
    BY <1>1 DEF DeleteRow, Send
  <2>4. QED
    BY <2>2, <2>3, <1>1 DEF EditsInv, ChangesCounted
<1>2. EditsInv /\ SettingsTypeOK =>
          [\A e \in Editor : \A i \in 1 .. MaxRules :
               DeleteRow(e, i) => sent'[e].is = RemoveAt(copy[e].rules, 1)]_settingsVars
  BY <1>1
<1>3. QED
  BY <1>2, EditsInvariant, SettingsTypes, PTL
=============================================================================
