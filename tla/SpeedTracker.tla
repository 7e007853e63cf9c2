---------------------------- MODULE SpeedTracker ----------------------------
(***************************************************************************)
(* The rate estimate of one download (src/speed.rs): the rate between two  *)
(* refreshes is averaged as it is, unless it lies outside fences drawn     *)
(* from the last rates.  Then it is clamped to the fence, until outliers   *)
(* on the same side have come often enough to be a change.                 *)
(* Averages, slew limit and smoothed ETA are not modelled: what they are   *)
(* fed is.  Rates are in units, fences in hundredths of a unit.            *)
(***************************************************************************)
EXTENDS Integers, Sequences, SequencesExt, TLC

CONSTANTS
    Usual,             \* rate of the connection
    Rate,              \* rates a refresh may see
    ChangeConfirmation,  \* CHANGE_CONFIRMATION_SAMPLES
    MaxRates,          \* BOUND: rates kept (MAX_RATE_SAMPLES is 45)
    MaxRefreshes,      \* BOUND: refreshes
    MaxOddities        \* BOUND: those that do not see the usual rate

ASSUME SpeedAssumption ==
    /\ Rate \subseteq Nat \ {0} /\ Usual \in Rate
    /\ {ChangeConfirmation, MaxRates, MaxRefreshes, MaxOddities} \subseteq Nat

NoRate == -1

VARIABLES
    tracking,   \* active: the last refresh that saw it saw it active
    sampled,    \* samples is not empty
    recent,     \* recent_rates
    side, shocks,  \* shock_direction, shock_count
    lately,     \* last rates measured, as they were, newest first
    taken,      \* last rate averaged, in hundredths, or NoRate
    typical,    \* was the window about Usual before that rate, see below
    tripped,    \* the byte counter went back while an outlier was counted
    refreshes, oddities

speedVars == <<tracking, sampled, recent, side, shocks, lately, taken, typical, tripped, refreshes,
              oddities>>

SpeedTypeOK ==
    /\ {tracking, sampled, typical, tripped} \subseteq BOOLEAN
    /\ recent \in UNION {[1 .. n -> Rate \cup {0}] : n \in {Len(recent)}} /\ Len(recent) <= MaxRates
    /\ side \in {-1, 0, 1} /\ shocks \in 0 .. ChangeConfirmation - 1
    /\ lately \in UNION {[1 .. n -> Rate \cup {0}] : n \in 0 .. ChangeConfirmation}
    /\ taken \in {NoRate} \cup 0 .. 100 * CHOOSE r \in Rate : \A q \in Rate : q <= r
    /\ refreshes \in 0 .. MaxRefreshes /\ oddities \in 0 .. MaxOddities

(* A download that is new, or has come in at its usual rate for a while. *)
SpeedInit ==
    \E n \in {0, 4, 5, 7} :
        /\ recent = [i \in 1 .. n |-> Usual] /\ tracking = (n > 0) /\ sampled = (n > 0)
        /\ lately = [i \in 1 .. (IF n > 0 THEN ChangeConfirmation ELSE 0) |-> Usual]
        /\ side = 0 /\ shocks = 0 /\ taken = NoRate /\ typical = FALSE /\ tripped = FALSE
        /\ refreshes = 0 /\ oddities = 0

-----------------------------------------------------------------------------
Sorted(rates) == SortSeq(rates, <)
Positive(rates) == SelectSeq(rates, LAMBDA rate : rate > 0)
Distance(a, b) == IF a < b THEN b - a ELSE a - b
Larger(a, b) == IF a < b THEN b ELSE a

(* in hundredths; positions count from 0 as in the code *)
At(sorted, index) == sorted[index + 1]
Median(values) ==
    LET sorted == Sorted(values)
        middle == Len(sorted) \div 2
    IN  IF Len(sorted) % 2 = 0 THEN (At(sorted, middle - 1) + At(sorted, middle)) \div 2
        ELSE At(sorted, middle)

(* Tukey fences around a bursty connection, else around the median *)
Fences(rates) ==
    LET hundredths == [i \in DOMAIN rates |-> 100 * rates[i]]
        sorted == Sorted(hundredths)
        first == At(sorted, Len(sorted) \div 4)
        third == At(sorted, (Len(sorted) * 3) \div 4)
        spread == third - first
        center == Median(hundredths)
        mad == Median([i \in DOMAIN rates |-> Distance(hundredths[i], center)])
        sigma == Larger((mad * 148) \div 100, (center * 8) \div 100)
    IN  IF 20 * spread > center
        THEN [low |-> Larger(first - (3 * spread) \div 2, 0), high |-> third + (3 * spread) \div 2]
        ELSE [low |-> Larger(center - 4 * sigma, (center * 15) \div 100),
              high |-> Larger(center + 4 * sigma, (center * 175) \div 100)]

Side(rate, fences) ==
    IF 100 * rate < fences.low THEN -1 ELSE IF 100 * rate > fences.high THEN 1 ELSE 0
Clamp(rate, fences) ==
    IF 100 * rate < fences.low THEN fences.low
    ELSE IF 100 * rate > fences.high THEN fences.high ELSE 100 * rate

CountedOnAnySide(direction) == shocks + 1
Counted(direction) == IF direction = side THEN shocks + 1 ELSE 1

Pushed(rates, rate) ==
    LET longer == Append(rates, rate)
    IN  IF Len(longer) > MaxRates THEN Tail(longer) ELSE longer

(* robust_rate *)
Average(rate, rates) ==
    LET positive == Positive(rates)
        fences == Fences(positive)
        direction == Side(rate, fences)
    IN  IF rate = 0
        THEN taken' = 0 /\ side' = 0 /\ shocks' = 0 /\ recent' = Pushed(rates, 0)
        ELSE IF Len(positive) < 5
        THEN taken' = 100 * rate /\ recent' = Pushed(rates, rate) /\ UNCHANGED <<side, shocks>>
        ELSE IF direction = 0
        THEN taken' = 100 * rate /\ side' = 0 /\ shocks' = 0 /\ recent' = Pushed(rates, rate)
        ELSE IF Counted(direction) >= ChangeConfirmation
        THEN taken' = 100 * rate /\ side' = 0 /\ shocks' = 0 /\ recent' = <<rate>>
        ELSE /\ taken' = Clamp(rate, fences) /\ side' = direction /\ shocks' = Counted(direction)
             /\ recent' = Pushed(rates, rate)

(* Five positive rates or more, fewer than a quarter of them unlike Usual. *)
AboutUsual(rates) ==
    LET positive == Positive(rates)
    IN  /\ Len(positive) >= 5
        /\ 4 * Len(SelectSeq(positive, LAMBDA rate : rate # Usual)) < Len(positive)

-----------------------------------------------------------------------------
Refresh(odd) ==
    /\ refreshes < MaxRefreshes /\ refreshes' = refreshes + 1
    /\ odd => oddities < MaxOddities
    /\ oddities' = oddities + (IF odd THEN 1 ELSE 0)
Latest(rates) == SubSeq(rates, 1, IF Len(rates) < ChangeConfirmation THEN Len(rates) ELSE ChangeConfirmation)

(* update with a sample before it: bytes over time, or aria2's own figure  *)
(* when no byte has come.                                                  *)
Measure(rate) ==
    /\ Refresh(rate # Usual) /\ tracking /\ sampled
    /\ Average(rate, recent) /\ typical' = AboutUsual(recent)
    /\ lately' = Latest(<<rate>> \o lately)
    /\ UNCHANGED <<tracking, sampled, tripped>>

(* update without one: after a pause the samples start anew. *)
FirstSample ==
    /\ Refresh(FALSE) /\ (~tracking \/ ~sampled) /\ tracking' = TRUE /\ sampled' = TRUE
    /\ taken' = NoRate /\ UNCHANGED <<recent, side, shocks, lately, typical, tripped>>

(* The byte counter is lower than in the last sample: a retry. *)
StartOver ==
    /\ Refresh(TRUE) /\ tracking /\ sampled
    /\ recent' = <<>> /\ lately' = <<>> /\ taken' = NoRate /\ typical' = FALSE
    /\ tripped' = (shocks > 0)
    /\ UNCHANGED <<tracking, sampled, side, shocks>>

(* mark_inactive *)
Inactive ==
    /\ Refresh(TRUE) /\ tracking' = FALSE /\ sampled' = FALSE /\ side' = 0 /\ shocks' = 0
    /\ lately' = <<>> /\ taken' = NoRate /\ tripped' = FALSE
    /\ UNCHANGED <<recent, typical>>

(* Not listed for HISTORY_RETENTION: the entry goes. *)
Forgotten ==
    /\ Refresh(TRUE) /\ tracking' = FALSE /\ sampled' = FALSE /\ recent' = <<>> /\ side' = 0 /\ shocks' = 0
    /\ lately' = <<>> /\ taken' = NoRate /\ typical' = FALSE /\ tripped' = FALSE

SpeedNext == (\E rate \in Rate \cup {0} : Measure(rate)) \/ FirstSample \/ StartOver \/ Inactive \/ Forgotten
SpeedSpec == SpeedInit /\ [][SpeedNext]_speedVars

-----------------------------------------------------------------------------
(* README.md:123-126.  On a connection that has been steady, a rate far    *)
(* from the usual, the first on its side of it, is not averaged as it was  *)
(* measured; a rate that stays is, from the third time on.  The first half *)
(* fails when the byte counter goes back while outliers are counted, which *)
(* does not reset the count (tripped).                                     *)
FarSide(rate) == IF rate = 0 THEN 0 ELSE IF 4 * rate < Usual THEN -1 ELSE IF rate > 4 * Usual THEN 1 ELSE 0
IsolatedIsClamped ==
    Len(lately) > 1 /\ typical /\ taken # NoRate /\ FarSide(lately[1]) \notin {0, FarSide(lately[2])}
        => taken # 100 * lately[1]
SustainedIsTaken ==
    typical /\ Len(lately) = ChangeConfirmation /\ taken # NoRate
        /\ (\A i \in DOMAIN lately : lately[i] = lately[1])
        => taken = 100 * lately[1]
OutliersNeedConfirmation == (~tripped => IsolatedIsClamped) /\ SustainedIsTaken
=============================================================================
