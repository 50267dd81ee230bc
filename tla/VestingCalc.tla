----------------------------- MODULE VestingCalc -----------------------------
(***************************************************************************)
(* The vesting calculation of modules/vesting/vesting.service.ts, over     *)
(* whole months: a date is the number of a month, and every schedule keeps *)
(* its own day of the month, so addMonthsClampedUtc is addition.           *)
(* Quantities are integers counting 10^-6 of a share, the scale of the     *)
(* Decimal(24, 6) columns and of toFixed(6).                               *)
(***************************************************************************)
EXTENDS Integers, FiniteSetsExt

\* A row of vesting_schedule: month numbers, with paused as stored.
Schedule == [start: Int, cliff: Nat, duration: Nat \ {0},
             interval: Nat \ {0}, paused: BOOLEAN]

\* Math.ceil(durationMonths / intervalMonths)
TotalIntervals(s) == (s.duration + s.interval - 1) \div s.interval

\* The last interval the loop marks as elapsed; all of them from the end date.
ElapsedIntervals(s, asOf) ==
  Max({0} \cup {i \in 1..TotalIntervals(s) :
                  \/ s.start + i * s.interval <= asOf
                  \/ asOf >= s.start + s.duration})

\* total * e / n, rounded half up to the grid of toFixed(6).
RoundedShare(total, e, n) == (2 * total * e + n) \div (2 * n)

BeforeVesting(s, asOf) == s.paused \/ asOf < s.start + s.cliff

\* vestedQuantity: nothing while paused or before the cliff, never above total.
VestedQuantity(total, s, acceleration, asOf) ==
  IF total <= 0 \/ BeforeVesting(s, asOf)
  THEN 0
  ELSE Min({total, acceleration
                   + RoundedShare(total, ElapsedIntervals(s, asOf), TotalIntervals(s))})

\* unvestedQuantity: rounded on its own, not what rounding left of the vested.
UnvestedQuantity(total, s, acceleration, asOf) ==
  IF total <= 0 THEN 0
  ELSE IF BeforeVesting(s, asOf) THEN total
  ELSE LET n == TotalIntervals(s) IN
       Max({0, RoundedShare(total, n - ElapsedIntervals(s, asOf), n) - acceleration})
==============================================================================
