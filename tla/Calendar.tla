------------------------------ MODULE Calendar ------------------------------
(***************************************************************************)
(* The proleptic Gregorian calendar as the request planner and proof_time  *)
(* compute it (zkp_req.rs, proof_time.rs).  `\div` and `%` of TLA+ are     *)
(* Rust's div_euclid and rem_euclid; where the code writes `/` and `%` its *)
(* operands are not negative and the two agree.                            *)
(***************************************************************************)
EXTENDS Integers

Leap(y) == y % 4 = 0 /\ (y % 100 # 0 \/ y % 400 = 0)

MonthDays(y, m) ==
  IF m \in {1, 3, 5, 7, 8, 10, 12} THEN 31
  ELSE IF m \in {4, 6, 9, 11} THEN 30
  ELSE IF m # 2 THEN 0
  ELSE IF Leap(y) THEN 29 ELSE 28

(* A date <<year, month, day>> whose digits are of the right number names a   *)
(* day of the calendar.                                                       *)
IsDay(date) == date[3] \in 1..MonthDays(date[1], date[2])

(* Mutant: the months of the formula rounded the wrong way. *)
DaysFromCivilRounded(date) ==
  LET y == IF date[2] <= 2 THEN date[1] - 1 ELSE date[1]
      yoe == y % 400
      doy == ((153 * ((date[2] + 9) % 12) + 1) \div 5) + date[3] - 1
  IN (y \div 400) * 146097 + yoe * 365 + (yoe \div 4) - (yoe \div 100) + doy - 719468

(* Days since 1970-01-01. *)
DaysFromCivil(date) ==
  LET y == IF date[2] <= 2 THEN date[1] - 1 ELSE date[1]
      yoe == y % 400
      doy == ((153 * ((date[2] + 9) % 12) + 2) \div 5) + date[3] - 1
  IN (y \div 400) * 146097 + yoe * 365 + (yoe \div 4) - (yoe \div 100) + doy - 719468

(* Mutant: the last day of the era's cycle of four centuries not corrected.   *)
CivilFromDaysUncorrected(n) ==
  LET z == n + 719468
      doe == z % 146097
      yoe == (doe - (doe \div 1460) + (doe \div 36524)) \div 365
      doy == doe - (365 * yoe + (yoe \div 4) - (yoe \div 100))
      mp == (5 * doy + 2) \div 153
      m == IF mp < 10 THEN mp + 3 ELSE mp - 9
  IN <<yoe + (z \div 146097) * 400 + (IF m <= 2 THEN 1 ELSE 0), m,
       doy - ((153 * mp + 2) \div 5) + 1>>

CivilFromDays(n) ==
  LET z == n + 719468
      doe == z % 146097
      yoe == (doe - (doe \div 1460) + (doe \div 36524) - (doe \div 146096)) \div 365
      doy == doe - (365 * yoe + (yoe \div 4) - (yoe \div 100))
      mp == (5 * doy + 2) \div 153
      m == IF mp < 10 THEN mp + 3 ELSE mp - 9
  IN <<yoe + (z \div 146097) * 400 + (IF m <= 2 THEN 1 ELSE 0), m,
       doy - ((153 * mp + 2) \div 5) + 1>>
=============================================================================
