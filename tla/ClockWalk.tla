----------------------------- MODULE ClockWalk -----------------------------
(***************************************************************************)
(* The formulas of Calendar and ProofTime against a calendar walked one    *)
(* day at a time, and the tolerance check against arithmetic without       *)
(* bounds.  Nothing of the walk is in the code: it is the reference.       *)
(***************************************************************************)
EXTENDS ProofTime

CONSTANTS
  FirstDates,      \* where a walk starts: <<date, day number>>
  LastDay,         \* the length of a walk, in days
  TimesOfDay,      \* the seconds of a day that are rendered
  LastTimedDay,    \* the last day whose seconds are within TLC's integers
  Judged           \* the questions put to check_tolerance

ASSUME FirstDatesAreNumbered ==
  \A first \in FirstDates :
    /\ first[1] \in Int \X Int \X Int /\ IsDay(first[1])
    /\ first[2] \in Int /\ DaysFromCivil(first[1]) = first[2]
ASSUME LastDayIsANumber == LastDay \in Nat
(* An instant of a year of four digits is within an i64. *)
ASSUME JudgedAreQuestions ==
  \A q \in Judged :
    /\ q.now \in MinInt..MaxInt /\ q.skew \in MinInt..MaxInt /\ q.maxAge \in MinInt..MaxInt
    /\ ~ IsWrong(Parse(q.text)) => Parse(q.text).secs \in (MinInt + 1)..(MaxInt - 1)

VARIABLES
  date, day,       \* today, and its number since 1970-01-01
  walked,          \* the days of the walk
  judgement        \* the last answer of check_tolerance, with its question

walk == <<date, day, walked, judgement>>

WalkInit ==
  /\ \E first \in FirstDates : date = first[1] /\ day = first[2]
  /\ walked = 0 /\ judgement = [text |-> NotTheForm, now |-> 0, skew |-> 0, maxAge |-> 0,
                                result |-> "unasked"]

Tomorrow(today) ==
  LET y == today[1]  m == today[2]  d == today[3]
  IN IF d < MonthDays(y, m) THEN <<y, m, d + 1>>
     ELSE IF m < 12 THEN <<y, m + 1, 1>> ELSE <<y + 1, 1, 1>>

(* A day passes; the walk stays in the years of four digits, and is made once *)
(* only, whatever the verifier asks.                                          *)
NextDay ==
  /\ judgement.result = "unasked"
  /\ walked < LastDay /\ date # <<9999, 12, 31>>
  /\ date' = Tomorrow(date) /\ day' = day + 1 /\ walked' = walked + 1
  /\ UNCHANGED judgement

(* A verifier holds a presentation's proof_time against its clock. *)
Judge(text, now, skew, maxAge) ==
  /\ walked = 0
  /\ judgement' = [text |-> text, now |-> now, skew |-> skew, maxAge |-> maxAge,
                   result |-> CheckTolerance(text, now, skew, maxAge)]
  /\ UNCHANGED <<date, day, walked>>

Stop == (walked = LastDay \/ date = <<9999, 12, 31>>) /\ UNCHANGED walk

WalkNext ==
  \/ NextDay
  \/ \E q \in Judged : Judge(q.text, q.now, q.skew, q.maxAge)
  \/ Stop

WalkSpec == WalkInit /\ [][WalkNext]_walk

-----------------------------------------------------------------------------
(* days_from_civil numbers the days without a gap or a repeat, through every  *)
(* month's end, leap day and century: the width of an age_check range, which  *)
(* is a difference of two of them, is the count of its days.                  *)
NumberCountsDays == DaysFromCivil(date) = day

(* civil_from_days, written for rendering, and days_from_civil, written for   *)
(* parsing, are inverse to one another, two modules with one calendar each;   *)
(* and what the prover renders the verifier reads back as the same second,    *)
(* which makes the text a public input that both sides can rebuild.           *)
CalendarsAgree ==
  /\ CivilFromDays(day) = date
  /\ day \in 0..LastTimedDay =>
       \A s \in TimesOfDay :
         LET secs == day * 86400 + s
         IN secs \in 0..MaxSecs => Parse(Render(secs)) = Seconds(secs)

(* Saturation at the ends of i64 never changes an answer: a proof_time passes *)
(* exactly when it is an instant within the tolerance, in numbers that have   *)
(* no ends, and whatever clock, skew and age a verifier passes.               *)
ToleranceIsExact ==
  LET t == Parse(judgement.text)
  IN judgement.result = "ok" <=>
       /\ ~ IsWrong(t)
       /\ judgement.now - judgement.maxAge <= t.secs
       /\ t.secs <= judgement.now + judgement.skew
=============================================================================
