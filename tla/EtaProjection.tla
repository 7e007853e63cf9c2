--------------------------- MODULE EtaProjection ---------------------------
(***************************************************************************)
(* The scheduled ETA (src/eta.rs): a simulation of the queue from one      *)
(* event to the next, an event being the end of a download or of an hour.  *)
(* The capacity of the hour is shared by weight among the downloads that   *)
(* run; batches take their turns.  The code repeats the simulation for     *)
(* every download and stops when that one is done; here one simulation     *)
(* records the time each is done.                                          *)
(* Bytes and time are whole numbers of 1/Scale, so that every division is  *)
(* exact for the sizes, weights and capacities of an instance.             *)
(***************************************************************************)
EXTENDS Integers, FiniteSets, FiniteSetsExt, Sequences, SequencesExt

CONSTANTS
    Item,        \* projectable downloads, numbered in the order of the list
    SizeOf,      \* bytes left
    WeightOf,    \* observed or typical rate
    BatchNo,     \* batches, numbered in the order of their turns
    Capacities,  \* usable bandwidth an hour may have
    SlotCounts,
    Scale,
    HourLength,  \* BOUND: length of an hour
    Clock        \* BOUND: hours of the day (24 in the code)

ASSUME EtaAssumption ==
    /\ Item \subseteq Nat /\ Item # {} /\ BatchNo \subseteq Nat
    /\ SizeOf \in [Item -> Nat \ {0}] /\ WeightOf \in [Item -> Nat \ {0}]
    /\ Capacities \subseteq Nat /\ SlotCounts \subseteq Nat \ {0}
    /\ {Scale, HourLength, Clock} \subseteq Nat \ {0}

VARIABLES
    batchOf, wasActive, slots, activeBatch, capacity, startsIn,   \* what the snapshot says
    left,      \* bytes left of each
    elapsed,   \* elapsed_seconds
    hour,      \* hours after the first
    untilHour, \* seconds_until_boundary
    doneAt     \* eta of each, or NotDone

snapshotVars == <<batchOf, wasActive, slots, activeBatch, capacity, startsIn>>
etaVars == <<snapshotVars, left, elapsed, hour, untilHour, doneAt>>

NotDone == -1
NoBatch == -1
Horizon == 12   \* BOUND: hours looked ahead (HORIZON_SECONDS is a year)

EtaTypeOK ==
    /\ left \in [Item -> 0 .. Scale * MapThenSumSet(LAMBDA i : SizeOf[i], Item)]
    /\ elapsed \in Nat /\ hour \in 0 .. Horizon + 1 /\ untilHour \in 1 .. Scale * HourLength
    /\ doneAt \in [Item -> {NotDone} \cup 0 .. elapsed]

EtaInit ==
    /\ batchOf \in [Item -> BatchNo] /\ wasActive \in SUBSET Item /\ slots \in SlotCounts
    /\ activeBatch \in BatchNo \cup {NoBatch}
    /\ capacity \in [0 .. Clock - 1 -> Capacities] /\ \E h \in DOMAIN capacity : capacity[h] > 0
    /\ startsIn \in {Scale * n : n \in 1 .. HourLength}
    /\ left = [i \in Item |-> Scale * SizeOf[i]] /\ elapsed = 0 /\ hour = 0 /\ untilHour = startsIn
    /\ doneAt = [i \in Item |-> NotDone]

-----------------------------------------------------------------------------
(* projected_batch_order: the active batch, then the others by number *)
Before(b, c) == b = activeBatch \/ (c # activeBatch /\ b <= c)
Unfinished == {i \in Item : left[i] > 0}
BatchInTurn ==
    LET pending == {batchOf[i] : i \in Unfinished}
    IN  CHOOSE b \in pending : \A c \in pending : Before(b, c)

(* running_indexes: those active in the snapshot, then by position; more   *)
(* than the slots when more were active.                                   *)
Precedes(i, j) == (i \in wasActive /\ j \notin wasActive)
                  \/ ((i \in wasActive <=> j \in wasActive) /\ i < j)
RunningNow ==
    LET candidates == {i \in Unfinished : batchOf[i] = BatchInTurn}
        places == Max({slots, Cardinality(candidates \cap wasActive)})
    IN  {i \in candidates : Cardinality({j \in candidates : Precedes(j, i)}) < places}

TotalWeight == MapThenSumSet(LAMBDA i : WeightOf[i], RunningNow)
Aggregate == capacity[hour % Clock]

(* Until the hour or the first of the running downloads ends. *)
TimeLeft(i) == (left[i] * TotalWeight) \div (Aggregate * WeightOf[i])
PhaseDuration == Min({untilHour} \cup {TimeLeft(i) : i \in RunningNow})
Remaining(i, duration) ==
    IF i \in RunningNow THEN left[i] - (Aggregate * WeightOf[i] * duration) \div TotalWeight ELSE left[i]

UntilHourUnchanged(duration) == untilHour
UntilHourAfter(duration) == untilHour - duration
Passes(duration) ==
    /\ elapsed' = elapsed + duration
    /\ IF untilHour <= duration THEN hour' = hour + 1 /\ untilHour' = Scale * HourLength
       ELSE hour' = hour /\ untilHour' = UntilHourAfter(duration)
    /\ UNCHANGED snapshotVars

WithinHorizon == Unfinished # {} /\ hour <= Horizon
IdleHour ==
    /\ WithinHorizon /\ Aggregate = 0 /\ Passes(untilHour) /\ UNCHANGED <<left, doneAt>>
Phase ==
    /\ WithinHorizon /\ Aggregate > 0 /\ Passes(PhaseDuration)
    /\ left' = [i \in Item |-> Remaining(i, PhaseDuration)]
    /\ doneAt' = [i \in Item |-> IF left[i] > 0 /\ left'[i] = 0 THEN elapsed' ELSE doneAt[i]]

EtaNext == IdleHour \/ Phase
EtaSpec == EtaInit /\ [][EtaNext]_etaVars

-----------------------------------------------------------------------------
(* Bytes the capacities of the hours carry in the first t units of time    *)
HourEnds(h) == startsIn + h * Scale * HourLength
Carried(t) ==
    LET from(h) == IF h = 0 THEN 0 ELSE HourEnds(h - 1)
        part(h) == IF t <= from(h) THEN 0 ELSE Min({t, HourEnds(h)}) - from(h)
    IN  MapThenSumSet(LAMBDA h : capacity[h % Clock] * part(h), 0 .. Horizon)

(* However the downloads of a batch share the line, the last of them is    *)
(* projected to end at the first moment at which the hours have carried    *)
(* its batch and those before, to the byte.                                *)
BytesUpTo(b) == Scale * MapThenSumSet(LAMBDA i : SizeOf[i], {i \in Item : Before(batchOf[i], b)})
BatchEndsWithItsBytes ==
    \A b \in BatchNo : LET members == {i \in Item : batchOf[i] = b} IN
        members # {} /\ (\A i \in members : doneAt[i] # NotDone) =>
            LET end == Max({doneAt[i] : i \in members})
            IN  Carried(end) = BytesUpTo(b) /\ Carried(end - 1) < BytesUpTo(b)
=============================================================================
