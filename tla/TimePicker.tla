----------------------------- MODULE TimePicker -----------------------------
(***************************************************************************)
(* One field of the time picker (components/ui/time-picker): the 24-hour,  *)
(* the 12-hour or the minute field, with the AM/PM selector.  Digits are   *)
(* typed in pairs: the second one counts within two seconds of the first.  *)
(* The strings of two digits that the code cuts and joins are numbers here.*)
(***************************************************************************)
EXTENDS Naturals, Integers, Sequences

CONSTANT Starts   \* the hours and minutes a picker may open with

ASSUME TimePickerAssumption == Starts \subseteq 0 .. 23

VARIABLES
    picker,    \* the type of the field
    date,      \* the hour or the minute of the date it edits
    flag,      \* a first digit was typed, the timer of its pair runs
    prevZero,  \* prevIntKey is "0"
    typed,     \* history: the digits of the pair, as the user typed them
    half       \* history: the period it opened with, or the selector set since

timeVars == <<picker, date, flag, prevZero, typed, half>>

Pickers == {"hours", "12hours", "minutes"}
Highest == IF picker = "minutes" THEN 59 ELSE 23
Digits == 0 .. 9

TimeTypeOK ==
    /\ picker \in Pickers
    /\ date \in 0 .. Highest
    /\ flag \in BOOLEAN /\ prevZero \in BOOLEAN
    /\ typed \in Seq(Digits) /\ Len(typed) <= 2
    /\ half \in {"AM", "PM"}

-----------------------------------------------------------------------------
(* What a field accepts, and getValidNumber with and without the loop.     *)
Lowest == IF picker = "12hours" THEN 1 ELSE 0
Largest == IF picker = "12hours" THEN 12 ELSE Highest

(* Mutant of Clamped: no upper end.                                        *)
ClampedBelow(n) == IF n < Lowest THEN Lowest ELSE n

Clamped(n) == IF n > Largest THEN Largest ELSE IF n < Lowest THEN Lowest ELSE n
Looped(n) == IF n > Largest THEN Lowest ELSE IF n < Lowest THEN Largest ELSE n

Period == IF date >= 12 THEN "PM" ELSE "AM"

(* display12HourValue                                                      *)
Display12(h) == IF h \in {0, 12} THEN 12 ELSE h % 12

(* convert12HourTo24Hour                                                   *)
To24(h, period) ==
    IF period = "PM" THEN (IF h <= 11 THEN h + 12 ELSE h)
                     ELSE (IF h = 12 THEN 0 ELSE h)

(* getDateByType and setDateByType                                         *)
Field == IF picker = "12hours" THEN Display12(date) ELSE date

SetField(n, period) ==
    date' = IF picker = "12hours" THEN To24(Clamped(n), period) ELSE Clamped(n)

(* Mutant of NewValue: the first 0 of the 12-hour field counts as the 1    *)
(* that is shown for it.                                                   *)
NewValueAsShown(d) == IF flag THEN 10 * (Field % 10) + d ELSE d

(* calculateNewValue                                                       *)
NewValue(d) ==
    IF picker = "12hours" /\ flag /\ Field % 10 = 1 /\ prevZero THEN d
    ELSE IF flag THEN 10 * (Field % 10) + d ELSE d

-----------------------------------------------------------------------------
Digit(d) ==
    /\ prevZero' = IF picker = "12hours" THEN d = 0 ELSE prevZero
    /\ SetField(NewValue(d), Period)
    /\ flag' = ~flag
    /\ typed' = IF Len(typed) = 2 THEN <<d>> ELSE Append(typed, d)
    /\ UNCHANGED <<picker, half>>

(* Two seconds pass without a second digit.                                *)
PairTimeout ==
    /\ flag
    /\ flag' = FALSE
    /\ typed' = <<>>
    /\ UNCHANGED <<picker, date, prevZero, half>>

(* The up and down keys, around the ends of the field.                     *)
Arrow(step) ==
    /\ SetField(Looped(Field + step), Period)
    /\ flag' = FALSE
    /\ typed' = <<>>
    /\ UNCHANGED <<picker, prevZero, half>>

(* PeriodSelector: whichever item is chosen, the other period than the one *)
(* that is shown is set.                                                   *)
ChoosePeriod(item) ==
    /\ picker = "12hours"
    /\ half' = IF Period = "AM" THEN "PM" ELSE "AM"
    /\ date' = To24(Display12(date), half')
    /\ UNCHANGED <<picker, flag, prevZero, typed>>

TimeInit ==
    /\ picker \in Pickers
    /\ date \in Starts
    /\ flag = FALSE /\ prevZero = TRUE
    /\ typed = <<>>
    /\ half = Period

TimeNext ==
    \/ \E d \in Digits : Digit(d)
    \/ \E s \in {-1, 1} : Arrow(s)
    \/ PairTimeout
    \/ \E p \in {"AM", "PM"} : ChoosePeriod(p)

TimeSpec == TimeInit /\ [][TimeNext]_timeVars

-----------------------------------------------------------------------------
(* The field shows the number that was typed, digit by digit, as far as it *)
(* has such an hour or minute, whatever was in it before; also after a 0,  *)
(* for which the 12-hour field shows 01.                                   *)
DigitsAreShown ==
    /\ Len(typed) = 1 => Field = Clamped(typed[1])
    /\ Len(typed) = 2 => Field = Clamped(10 * typed[1] + typed[2])

(* And typing and the arrow keys never move a time between morning and     *)
(* afternoon in the 12-hour field, around midnight and noon included.      *)
PeriodIsKept == picker = "12hours" => Period = half

TypedIsShown == DigitsAreShown /\ PeriodIsKept

=============================================================================
