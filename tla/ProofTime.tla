----------------------------- MODULE ProofTime -----------------------------
(***************************************************************************)
(* proof_time of a `zkp_req` presentation (proof_time.rs): the text of 20  *)
(* bytes, and the verifier's tolerance check.  A text in the exact form is *)
(* its six numbers <<y, mo, d, h, mi, s>>, any other text is NotTheForm;   *)
(* the digits are abstracted.                                              *)
(***************************************************************************)
EXTENDS Calendar, Sequences

CONSTANTS
  NotTheForm,
  MinInt, MaxInt,    \* the least and the greatest i64
  MaxSecs            \* MAX_SECS, the last second of year 9999

ASSUME IntsAreOrdered == MinInt \in Int /\ MaxInt \in Int /\ MinInt <= 0 /\ MaxInt >= 0
ASSUME MaxSecsIsANumber == MaxSecs \in Nat
ASSUME NotTheFormIsNoText == NotTheForm \notin Seq(Int)

Wrong(why) == [error |-> why]
IsWrong(result) == "error" \in DOMAIN result
Seconds(n) == [secs |-> n]

(* render: NotTheForm stands for OutOfRange, no text at all. *)
Render(secs) ==
  IF secs \notin 0..MaxSecs THEN NotTheForm
  ELSE LET date == CivilFromDays(secs \div 86400)
           rem == secs % 86400
       IN <<date[1], date[2], date[3], rem \div 3600, (rem % 3600) \div 60, rem % 60>>

(* parse *)
Parse(text) ==
  IF text = NotTheForm THEN Wrong("proof_time_form")
  ELSE IF ~ IsDay(text) \/ text[4] > 23 \/ text[5] > 59 \/ text[6] > 59
       THEN Wrong("proof_time_not_an_instant")
       ELSE Seconds(DaysFromCivil(text) * 86400 + text[4] * 3600 + text[5] * 60 + text[6])

(* Mutant: plain arithmetic, which wraps. *)
Wrapped(n) ==
  IF n > MaxInt THEN MinInt + (n - MaxInt - 1)
  ELSE IF n < MinInt THEN MaxInt - (MinInt - n - 1) ELSE n

Saturated(n) == IF n > MaxInt THEN MaxInt ELSE IF n < MinInt THEN MinInt ELSE n

(* Mutant: the two tolerances exchanged. *)
CheckToleranceExchanged(text, now, skew, maxAge) ==
  LET t == Parse(text)
  IN IF IsWrong(t) THEN t.error
     ELSE IF t.secs > Saturated(now + maxAge) THEN "proof_time_in_future"
     ELSE IF t.secs < Saturated(now - skew) THEN "proof_time_too_old" ELSE "ok"

(* check_tolerance *)
CheckTolerance(text, now, skew, maxAge) ==
  LET t == Parse(text)
  IN IF IsWrong(t) THEN t.error
     ELSE IF t.secs > Saturated(now + skew) THEN "proof_time_in_future"
     ELSE IF t.secs < Saturated(now - maxAge) THEN "proof_time_too_old" ELSE "ok"
=============================================================================
