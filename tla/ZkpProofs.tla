------------------------------ MODULE ZkpProofs ------------------------------
(***************************************************************************)
(* The calendar and the clock, for every date and every question put to    *)
(* ClockWalk, and the exchange of one request and its response, for every  *)
(* request and every alteration of the answer: what passes, what is taken  *)
(* as fresh, what is declined, and which of several broken rules is named. *)
(*                                                                         *)
(* Literals above a few hundred go to SMT alone: Zenon counts them up.     *)
(***************************************************************************)
EXTENDS ClockWalk, ZkpExchangeProperties, SequenceFacts, FiniteSetTheorems, TLAPS

(* Within a month, a day adds one. *)
LEMMA NextDayOfMonth ==
  ASSUME NEW y \in Int, NEW mm \in 1..12, NEW d \in Int
  PROVE  DaysFromCivil(<<y, mm, d + 1>>) = DaysFromCivil(<<y, mm, d>>) + 1
<1> DEFINE yy == IF mm <= 2 THEN y - 1 ELSE y
           year == (yy \div 400) * 146097 + (yy % 400) * 365 + ((yy % 400) \div 4)
                     - ((yy % 400) \div 100)
           month == (153 * ((mm + 9) % 12) + 2) \div 5
<1>1. \A e \in Int : DaysFromCivil(<<y, mm, e>>) = year + (month + e - 1) - 719468
  BY SMT DEF DaysFromCivil
<1>2. year \in Int /\ month \in Int
  BY SMT
<1> HIDE DEF year, month
<1> QED
  BY SMT, <1>1, <1>2

(* The first of the next month follows the last day of every month. *)
LEMMA NextMonth ==
  ASSUME NEW y \in Int, NEW mm \in 1..11
  PROVE  DaysFromCivil(<<y, mm + 1, 1>>) = DaysFromCivil(<<y, mm, MonthDays(y, mm)>>) + 1
<1>1. CASE mm = 2
  <2> DEFINE yoe == y % 400
             before == (y - 1) % 400
             year == (y \div 400) * 146097 + yoe * 365 + (yoe \div 4) - (yoe \div 100)
             last == ((y - 1) \div 400) * 146097 + before * 365 + (before \div 4)
                      - (before \div 100)
  <2>1. DaysFromCivil(<<y, 3, 1>>) = year - 719468
    BY SMT DEF DaysFromCivil
  <2>2. DaysFromCivil(<<y, 2, MonthDays(y, 2)>>) = last + 336 + MonthDays(y, 2) - 719468
    BY SMT DEF DaysFromCivil, MonthDays
  <2>3. year = last + 337 + MonthDays(y, 2)
    BY SMTT(60) DEF MonthDays, Leap
  <2>4. MonthDays(y, 2) \in Int /\ year \in Int /\ last \in Int
    BY SMT DEF MonthDays
  <2> HIDE DEF year, last
  <2>5. DaysFromCivil(<<y, 3, 1>>) = DaysFromCivil(<<y, 2, MonthDays(y, 2)>>) + 1
    BY SMT, <2>1, <2>2, <2>3, <2>4
  <2>6. mm + 1 = 3
    BY SMT, <1>1
  <2> QED
    BY Zenon, <1>1, <2>5, <2>6
<1>2. CASE mm = 1
  BY SMT, <1>2 DEF DaysFromCivil, MonthDays
<1>3. CASE mm \in 3..11
  <2> DEFINE yoe == y % 400
             year == (y \div 400) * 146097 + yoe * 365 + (yoe \div 4) - (yoe \div 100)
             month(k) == (153 * ((k + 9) % 12) + 2) \div 5
  <2>1. \A k \in 3..12, e \in Int : DaysFromCivil(<<y, k, e>>) = year + month(k) + e - 719469
    BY SMT DEF DaysFromCivil
  <2>2. month(mm + 1) = month(mm) + MonthDays(y, mm) /\ MonthDays(y, mm) \in Int
    BY SMT, <1>3 DEF MonthDays
  <2>3. year \in Int /\ month(mm) \in Int /\ month(mm + 1) \in Int
    BY SMT, <1>3
  <2> HIDE DEF year, month
  <2> QED
    BY SMT, <1>3, <2>1, <2>2, <2>3
<1> QED
  BY SMT, <1>1, <1>2, <1>3

(* New year follows the last day of December. *)
LEMMA NextYear ==
  ASSUME NEW y \in Int
  PROVE  DaysFromCivil(<<y + 1, 1, 1>>) = DaysFromCivil(<<y, 12, 31>>) + 1
  BY SMTT(60) DEF DaysFromCivil

(* Tomorrow is a day of the calendar again, and the next one by its number.   *)
LEMMA TomorrowIsTheNextDay ==
  ASSUME NEW today \in Int \X Int \X Int, IsDay(today)
  PROVE  /\ Tomorrow(today) \in Int \X Int \X Int /\ IsDay(Tomorrow(today))
         /\ DaysFromCivil(Tomorrow(today)) = DaysFromCivil(today) + 1
<1>1. PICK y \in Int, mm \in Int, d \in Int : today = <<y, mm, d>>
  BY SMT
<1>2. /\ mm \in 1..12 /\ d \in 1..MonthDays(y, mm)
      /\ \A k \in 1..12, z \in Int : MonthDays(z, k) \in 28..31
  BY SMT, <1>1 DEF IsDay, MonthDays, Leap
<1>3. CASE d < MonthDays(y, mm)
  <2>1. Tomorrow(today) = <<y, mm, d + 1>>
    BY SMT, <1>1, <1>3 DEF Tomorrow
  <2>2. IsDay(<<y, mm, d + 1>>)
    BY SMT, <1>2, <1>3 DEF IsDay
  <2>3. DaysFromCivil(<<y, mm, d + 1>>) = DaysFromCivil(<<y, mm, d>>) + 1
    BY <1>2, NextDayOfMonth
  <2>4. <<y, mm, d + 1>> \in Int \X Int \X Int
    BY SMT
  <2> QED
    BY Zenon, <1>1, <2>1, <2>2, <2>3, <2>4
<1>4. CASE d = MonthDays(y, mm) /\ mm < 12
  <2>1. Tomorrow(today) = <<y, mm + 1, 1>>
    BY SMT, <1>1, <1>2, <1>4 DEF Tomorrow
  <2>2. IsDay(<<y, mm + 1, 1>>)
    BY SMT, <1>2, <1>4 DEF IsDay
  <2>3. mm \in 1..11
    BY SMT, <1>2, <1>4
  <2>4. DaysFromCivil(<<y, mm + 1, 1>>) = DaysFromCivil(<<y, mm, d>>) + 1
    BY Zenon, <1>4, <2>3, NextMonth
  <2>5. <<y, mm + 1, 1>> \in Int \X Int \X Int
    BY SMT
  <2> QED
    BY Zenon, <1>1, <2>1, <2>2, <2>4, <2>5
<1>5. CASE d = MonthDays(y, mm) /\ mm = 12
  <2>1. Tomorrow(today) = <<y + 1, 1, 1>>
    BY SMT, <1>1, <1>2, <1>5 DEF Tomorrow
  <2>2. IsDay(<<y + 1, 1, 1>>) /\ d = 31
    BY SMT, <1>2, <1>5 DEF IsDay, MonthDays
  <2> QED
    BY SMT, <1>1, <1>5, <2>1, <2>2, NextYear
<1> QED
  BY SMT, <1>2, <1>3, <1>4, <1>5

-----------------------------------------------------------------------------
LeapAhead(yoe) == (yoe + 1) % 4 = 0 /\ ((yoe + 1) % 100 # 0 \/ yoe = 399)
DaysBefore(yoe) == yoe * 365 + (yoe \div 4) - (yoe \div 100)

(* The day doy of the year yoe, counted from March, of the era's day doe; the *)
(* day d of the month k, counted from March, of the year's day doy.           *)
InYear(doe, yoe, doy) ==
  /\ 0 <= yoe /\ yoe <= 399 /\ 0 <= doy /\ doy <= 365
  /\ doe = DaysBefore(yoe) + doy /\ (doy = 365 => LeapAhead(yoe))
InMonth(doy, k, d) ==
  /\ 0 <= k /\ k <= 11 /\ 1 <= d /\ d <= 31
  /\ doy = ((153 * k + 2) \div 5) + d - 1
  /\ (153 * k + 2) \div 5 + d <= (153 * (k + 1) + 2) \div 5
  /\ k = 11 => d <= 29 /\ (d = 29 => doy = 365)

(* A day of the era of four centuries lies in one of its years. *)
LEMMA YearOfDay ==
  ASSUME NEW doe \in Int, 0 <= doe, doe < 146097
  PROVE  \E yoe, doy \in Int : InYear(doe, yoe, doy)
<1>1. PICK c \in 0..3, r \in Int : doe = 36524 * c + r /\ 0 <= r /\ r <= 36524 /\ (r = 36524 => c = 3)
  <2>1. CASE doe = 146096
    <3>1. doe = 36524 * 3 + 36524
      BY SMT, <2>1
    <3> QED BY SMT, <3>1
  <2>2. CASE doe # 146096
    <3> DEFINE c == doe \div 36524
               r == doe % 36524
    <3>1. c \in Int /\ 0 <= c /\ c <= 3 /\ r \in Int /\ 0 <= r /\ r < 36524 /\ doe = 36524 * c + r
      BY SMT, <2>2
    <3> HIDE DEF c, r
    <3> QED BY SMT, <3>1
  <2> QED BY SMT, <2>1, <2>2
<1>2. PICK q \in 0..24, s \in Int :
        r = 1461 * q + s /\ 0 <= s /\ s <= 1460 /\ (q = 24 /\ s = 1460 => r = 36524)
  <2> DEFINE q == r \div 1461
             s == r % 1461
  <2>1. q \in Int /\ 0 <= q /\ q <= 24 /\ s \in Int /\ 0 <= s /\ s <= 1460 /\ r = 1461 * q + s
    BY SMT, <1>1
  <2> HIDE DEF q, s
  <2> QED BY SMT, <2>1
<1>3. PICK a \in 0..3, doy \in 0..365 : s = 365 * a + doy /\ (doy = 365 => a = 3 /\ s = 1460)
  <2>1. CASE s = 1460
    <3>1. s = 365 * 3 + 365
      BY SMT, <2>1
    <3> QED BY SMT, <2>1, <3>1
  <2>2. CASE s # 1460
    <3> DEFINE a == s \div 365
               doy == s % 365
    <3>1. a \in Int /\ 0 <= a /\ a <= 3 /\ doy \in Int /\ 0 <= doy /\ doy <= 364 /\ s = 365 * a + doy
      BY SMT, <1>2, <2>2
    <3> HIDE DEF a, doy
    <3> QED BY SMT, <3>1
  <2> QED BY SMT, <2>1, <2>2
<1> DEFINE yoe == 100 * c + 4 * q + a
<1>4. yoe \in Int /\ 0 <= yoe /\ yoe <= 399 /\ yoe \div 4 = 25 * c + q /\ yoe \div 100 = c
  BY SMT
<1>5. doe = DaysBefore(yoe) + doy
  <2> HIDE DEF yoe
  <2>1. yoe = 100 * c + 4 * q + a
    BY SMT DEF yoe
  <2> QED BY SMT, <1>1, <1>2, <1>3, <1>4, <2>1 DEF DaysBefore
<1>6. doy = 365 => LeapAhead(yoe)
  BY SMT, <1>1, <1>2, <1>3 DEF LeapAhead
<1>7. yoe \in Int /\ 0 <= yoe /\ yoe <= 399 /\ doy \in Int /\ 0 <= doy /\ doy <= 365
  BY SMT, <1>4
<1> HIDE DEF yoe
<1>8. InYear(doe, yoe, doy)
  BY SMT, <1>5, <1>6, <1>7 DEF InYear
<1>9. yoe \in Int /\ doy \in Int
  BY <1>7
<1> QED BY SMT, <1>8, <1>9

LEMMA YearOfEra ==
  ASSUME NEW yoe \in Int, 0 <= yoe, yoe <= 399, NEW doy \in Int, 0 <= doy, doy <= 365,
         doy = 365 => LeapAhead(yoe)
  PROVE  \A doe \in Int : doe = DaysBefore(yoe) + doy =>
           /\ (doe - (doe \div 1460) + (doe \div 36524) - (doe \div 146096)) \div 365 = yoe
           /\ 0 <= doe /\ doe < 146097
           /\ doe - (365 * yoe + (yoe \div 4) - (yoe \div 100)) = doy
BY SMTT(60) DEF DaysBefore, LeapAhead

LEMMA DayOfEra ==
  ASSUME NEW era \in Int, NEW doe \in Int, 0 <= doe, doe < 146097
  PROVE  \A n \in Int : n = era * 146097 + doe - 719468 =>
           (n + 719468) % 146097 = doe /\ (n + 719468) \div 146097 = era
BY SMT

LEMMA MonthOfYear ==
  ASSUME NEW k \in Int, NEW d \in Int, 1 <= d, (153 * k + 2) \div 5 + d <= (153 * (k + 1) + 2) \div 5
  PROVE  \A doy \in Int : doy = ((153 * k + 2) \div 5) + d - 1 =>
           (5 * doy + 2) \div 153 = k /\ doy - ((153 * k + 2) \div 5) + 1 = d
BY SMT

LEMMA DayOfMonth ==
  ASSUME NEW doy \in Int, 0 <= doy, doy <= 365
  PROVE  \E k, d \in Int : InMonth(doy, k, d)
<1> DEFINE k == (5 * doy + 2) \div 153
           d == doy - ((153 * k + 2) \div 5) + 1
<1>1. k \in Int /\ d \in Int /\ InMonth(doy, k, d)
  BY SMT DEF InMonth
<1> HIDE DEF k, d
<1> QED BY Zenon, <1>1

(* civil_from_days undoes days_from_civil. *)
LEMMA CivilIsInverse ==
  ASSUME NEW y \in Int, NEW mm \in 1..12, NEW d \in 1..MonthDays(y, mm)
  PROVE  CivilFromDays(DaysFromCivil(<<y, mm, d>>)) = <<y, mm, d>>
<1> DEFINE yy == IF mm <= 2 THEN y - 1 ELSE y
           yoe == yy % 400
           era == yy \div 400
           k == (mm + 9) % 12
           doy == ((153 * k + 2) \div 5) + d - 1
           doe == DaysBefore(yoe) + doy
           n == DaysFromCivil(<<y, mm, d>>)
<1>1. d \in 1..31 /\ k \in 0..11 /\ yy \in Int
  BY SMT DEF MonthDays, Leap
<1>2. (153 * k + 2) \div 5 + d <= (153 * (k + 1) + 2) \div 5
  BY SMT DEF MonthDays, Leap
<1>3. yoe \in 0..399 /\ era \in Int /\ yy = 400 * era + yoe
  BY SMT, <1>1
<1>4. doy \in 0..365
  BY SMT DEF MonthDays, Leap
<1>5. doy = 365 => LeapAhead(yoe)
  <2>1. ASSUME doy = 365 PROVE mm = 2 /\ d = 29
    BY SMT, <2>1 DEF MonthDays, Leap
  <2>2. ASSUME mm = 2, d = 29 PROVE LeapAhead(yoe)
    BY SMT, <2>2 DEF MonthDays, Leap, LeapAhead
  <2> QED BY <2>1, <2>2
<1>6. n = era * 146097 + doe - 719468
  BY SMT DEF DaysFromCivil, DaysBefore
<1>7. doe \in Int /\ n \in Int
  <2> HIDE DEF yoe, doy, n
  <2>1. doe \in Int
    BY SMT, <1>3, <1>4 DEF DaysBefore
  <2> HIDE DEF doe, era
  <2> QED BY SMT, <2>1, <1>3, <1>6
<1>8. /\ (doe - (doe \div 1460) + (doe \div 36524) - (doe \div 146096)) \div 365 = yoe
      /\ 0 <= doe /\ doe < 146097
      /\ doe - (365 * yoe + (yoe \div 4) - (yoe \div 100)) = doy
  <2>1. /\ yoe \in Int /\ 0 <= yoe /\ yoe <= 399 /\ doy \in Int /\ 0 <= doy /\ doy <= 365
        /\ doe = DaysBefore(yoe) + doy
    BY SMT, <1>3, <1>4
  <2> HIDE DEF yoe, doy, doe
  <2> QED BY SMT, <2>1, <1>5, <1>7, YearOfEra
<1>9. (n + 719468) % 146097 = doe /\ (n + 719468) \div 146097 = era
  <2> HIDE DEF n, era, doe
  <2> QED BY SMT, <1>3, <1>6, <1>7, <1>8, DayOfEra
<1>10. (5 * doy + 2) \div 153 = k /\ doy - ((153 * k + 2) \div 5) + 1 = d
  <2>1. doy = ((153 * k + 2) \div 5) + d - 1
    OBVIOUS
  <2>2. doy \in Int /\ k \in Int /\ d \in Int /\ 1 <= d
    BY SMT, <1>1, <1>4
  <2> HIDE DEF doy, k
  <2> QED BY SMT, <2>1, <2>2, <1>2, MonthOfYear
<1>11. CivilFromDays(n) =
         LET m == IF k < 10 THEN k + 3 ELSE k - 9
         IN <<yoe + era * 400 + (IF m <= 2 THEN 1 ELSE 0), m, d>>
  <2>1. n \in Int /\ doe \in Int /\ doy \in Int /\ k \in Int /\ yoe \in Int /\ era \in Int
    BY SMT, <1>1, <1>3, <1>4, <1>7
  <2> HIDE DEF n, doe, yoe, doy, k, era
  <2>2. CivilFromDays(n) =
          LET m == IF k < 10 THEN k + 3 ELSE k - 9
          IN <<yoe + era * 400 + (IF m <= 2 THEN 1 ELSE 0), m, doy - ((153 * k + 2) \div 5) + 1>>
    BY SMT, <2>1, <1>8, <1>9, <1>10 DEF CivilFromDays
  <2> QED BY SMT, <2>2, <1>10
<1>12. (IF k < 10 THEN k + 3 ELSE k - 9) = mm
  BY SMT
<1>14. yoe + era * 400 + (IF mm <= 2 THEN 1 ELSE 0) = y
  BY SMT
<1> HIDE DEF n, doe, yoe, doy, k, era
<1> QED BY SMT, <1>11, <1>12, <1>14 DEF n

(* Every number is a date's. *)
LEMMA NumbersAreDates ==
  ASSUME NEW n \in Int
  PROVE  \E y, mm, d \in Int : /\ 1 <= mm /\ mm <= 12 /\ 1 <= d /\ d <= MonthDays(y, mm)
                             /\ DaysFromCivil(<<y, mm, d>>) = n
<1> DEFINE era == (n + 719468) \div 146097
           doe == (n + 719468) % 146097
<1>1. era \in Int /\ doe \in Int /\ 0 <= doe /\ doe < 146097 /\ n = era * 146097 + doe - 719468
  BY SMT
<1> HIDE DEF era, doe
<1>2. PICK yoe, doy \in Int : InYear(doe, yoe, doy)
  BY SMT, <1>1, YearOfDay
<1>3. PICK k, d \in Int : InMonth(doy, k, d)
  <2>1. 0 <= doy /\ doy <= 365
    BY Zenon, <1>2 DEF InYear
  <2> QED BY Zenon, <2>1, DayOfMonth
<1> DEFINE yy == 400 * era + yoe
           mm == IF k < 10 THEN k + 3 ELSE k - 9
           y == IF mm <= 2 THEN yy + 1 ELSE yy
<1>4. /\ yy \in Int /\ mm \in Int /\ 1 <= mm /\ mm <= 12 /\ (mm + 9) % 12 = k /\ y \in Int
      /\ yy % 400 = yoe /\ yy \div 400 = era /\ (IF mm <= 2 THEN y - 1 ELSE y) = yy
  BY SMT, <1>1, <1>2, <1>3 DEF InYear, InMonth
<1>5. 1 <= d /\ d <= MonthDays(y, mm)
  <2>1. CASE k # 11
    BY SMT, <1>3, <2>1 DEF MonthDays, InMonth
  <2>2. CASE k = 11
    <3>1. mm = 2 /\ y = 400 * era + yoe + 1
      BY SMT, <1>1, <1>2, <2>2
    <3>2. d = 29 => LeapAhead(yoe)
      BY Zenon, <1>2, <1>3, <2>2 DEF InYear, InMonth
    <3>3. d = 29 => Leap(y)
      <4>1. 0 <= yoe /\ yoe <= 399
        BY Zenon, <1>2 DEF InYear
      <4> HIDE DEF y, mm
      <4>2. era \in Int /\ y = 400 * era + yoe + 1
        BY <1>1, <3>1
      <4>3. LeapAhead(yoe) => Leap(y)
        BY SMT, <4>1, <4>2 DEF Leap, LeapAhead
      <4> QED BY <3>2, <4>3
    <3>4. 1 <= d /\ d <= 29
      BY Zenon, <1>3, <2>2 DEF InMonth
    <3> HIDE DEF mm, y
    <3> QED BY SMT, <3>1, <3>3, <3>4 DEF MonthDays
  <2> QED BY <2>1, <2>2
<1>6. DaysFromCivil(<<y, mm, d>>) = n
  <2>1. doe = DaysBefore(yoe) + doy /\ doy = ((153 * k + 2) \div 5) + d - 1
    BY Zenon, <1>2, <1>3 DEF InYear, InMonth
  <2> HIDE DEF yy, mm, y
  <2> QED BY SMT, <1>1, <1>4, <2>1 DEF DaysFromCivil, DaysBefore
<1> HIDE DEF yy, mm, y
<1> QED BY Zenon, <1>4, <1>5, <1>6

(* days_from_civil undoes civil_from_days, which yields days of the calendar. *)
LEMMA DaysAreInverse ==
  ASSUME NEW n \in Int
  PROVE  /\ CivilFromDays(n) \in Int \X Int \X Int /\ IsDay(CivilFromDays(n))
         /\ DaysFromCivil(CivilFromDays(n)) = n
<1>1. PICK y, mm, d \in Int : /\ 1 <= mm /\ mm <= 12 /\ 1 <= d /\ d <= MonthDays(y, mm)
                             /\ DaysFromCivil(<<y, mm, d>>) = n
  BY NumbersAreDates
<1>2. mm \in 1..12 /\ MonthDays(y, mm) \in Int
  BY SMT, <1>1 DEF MonthDays
<1>3. d \in 1..MonthDays(y, mm)
  BY SMT, <1>1, <1>2
<1>4. CivilFromDays(n) = <<y, mm, d>>
  BY Zenon, <1>1, <1>2, <1>3, CivilIsInverse
<1>5. IsDay(<<y, mm, d>>) /\ <<y, mm, d>> \in Int \X Int \X Int
  BY SMT, <1>3 DEF IsDay
<1> QED BY Zenon, <1>1, <1>4, <1>5

(* What render writes, parse reads back. *)
LEMMA RenderedIsRead ==
  ASSUME NEW secs \in 0..MaxSecs
  PROVE  Render(secs) \in Seq(Int) /\ Parse(Render(secs)) = Seconds(secs)
<1> DEFINE n == secs \div 86400
           rem == secs % 86400
<1>1. n \in Int /\ rem \in Int /\ 0 <= rem /\ rem < 86400 /\ secs = n * 86400 + rem /\ secs \in Int
  BY SMT, MaxSecsIsANumber
<1>2. PICK y, mm, d \in Int : CivilFromDays(n) = <<y, mm, d>> /\ IsDay(<<y, mm, d>>)
                             /\ DaysFromCivil(<<y, mm, d>>) = n
  <2>1. n \in Int
    BY <1>1
  <2> HIDE DEF n
  <2>2. PICK that \in Int \X Int \X Int : that = CivilFromDays(n) /\ IsDay(that) /\ DaysFromCivil(that) = n
    BY Zenon, <2>1, DaysAreInverse
  <2>3. PICK y \in Int, mm \in Int, d \in Int : that = <<y, mm, d>>
    BY SMT
  <2> QED BY Zenon, <2>2, <2>3
<1> DEFINE h == rem \div 3600
           mi == (rem % 3600) \div 60
           s == rem % 60
           text == <<y, mm, d, h, mi, s>>
<1>3. /\ h \in Int /\ mi \in Int /\ s \in Int /\ h <= 23 /\ mi <= 59 /\ s <= 59
      /\ rem = h * 3600 + mi * 60 + s
  <2> HIDE DEF rem
  <2> QED BY SMT, <1>1
<1>4. Render(secs) = text
  <2> HIDE DEF h, mi, s
  <2>1. Render(secs) = <<CivilFromDays(n)[1], CivilFromDays(n)[2], CivilFromDays(n)[3], h, mi, s>>
    BY SMT DEF Render, h, mi, s
  <2> HIDE DEF n
  <2> QED BY SMT, <1>2, <2>1
<1>5. text \in Seq(Int) /\ text # NotTheForm
  <2> HIDE DEF h, mi, s
  <2>1. text \in Seq(Int)
    BY SMT, <1>3
  <2> HIDE DEF text
  <2> QED BY Zenon, <2>1, NotTheFormIsNoText
<1>6. IsDay(text) /\ DaysFromCivil(text) = n
  <2> HIDE DEF h, mi, s, n
  <2> QED BY SMT, <1>2 DEF IsDay, DaysFromCivil
<1>7. Parse(text) = Seconds(n * 86400 + h * 3600 + mi * 60 + s)
  <2>1. text[4] = h /\ text[5] = mi /\ text[6] = s
    OBVIOUS
  <2> HIDE DEF n, h, mi, s, text
  <2> QED BY SMT, <1>3, <1>5, <1>6, <2>1 DEF Parse
<1>8. n * 86400 + h * 3600 + mi * 60 + s = secs
  <2> HIDE DEF n, rem, h, mi, s
  <2> QED BY SMT, <1>1, <1>3
<1> HIDE DEF n, h, mi, s, text
<1> QED BY SMT, <1>4, <1>5, <1>7, <1>8

-----------------------------------------------------------------------------
Walking ==
  /\ date \in Int \X Int \X Int /\ IsDay(date)
  /\ day \in Int /\ DaysFromCivil(date) = day

LEMMA WalkingHolds == WalkSpec => []Walking
<1>1. WalkInit => Walking
  BY SMT, FirstDatesAreNumbered DEF WalkInit, Walking
<1>2. Walking /\ [WalkNext]_walk => Walking'
  <2> SUFFICES ASSUME Walking, [WalkNext]_walk PROVE Walking'
    OBVIOUS
  <2>1. CASE NextDay
    <3>1. /\ Tomorrow(date) \in Int \X Int \X Int /\ IsDay(Tomorrow(date))
          /\ DaysFromCivil(Tomorrow(date)) = DaysFromCivil(date) + 1
      BY Zenon, TomorrowIsTheNextDay DEF Walking
    <3>2. date' = Tomorrow(date) /\ day' = day + 1
      BY SMT, <2>1 DEF NextDay
    <3>3. DaysFromCivil(date') = day'
      BY Zenon, <3>1, <3>2 DEF Walking
    <3>4. day' \in Int
      BY SMT, <3>2 DEF Walking
    <3> QED
      BY Zenon, <3>1, <3>2, <3>3, <3>4 DEF Walking
  <2>2. CASE UNCHANGED <<date, day>>
    BY Zenon, <2>2 DEF Walking
  <2>3. CASE \E q \in Judged : Judge(q.text, q.now, q.skew, q.maxAge)
    BY Zenon, <2>2, <2>3 DEF Judge
  <2>4. CASE Stop
    <3>1. UNCHANGED walk
      BY SMTT(20), <2>4 DEF Stop
    <3> QED
      BY Zenon, <2>2, <3>1 DEF walk
  <2>5. CASE UNCHANGED walk
    BY Zenon, <2>2, <2>5 DEF walk
  <2> QED
    BY <2>1, <2>3, <2>4, <2>5 DEF WalkNext
<1> QED
  BY <1>1, <1>2, PTL DEF WalkSpec

(* days_from_civil numbers the days of any walk, of any length, from any      *)
(* date: the formula counts the days of the calendar, one by one.             *)
THEOREM DaysAreCounted == WalkSpec => []NumberCountsDays
<1>1. Walking => NumberCountsDays
  BY DEF Walking, NumberCountsDays
<1> QED
  BY <1>1, WalkingHolds, PTL

(* Of any day, rendering finds the date, and parsing reads back the text of    *)
(* every second: the two formulas are inverse to one another.                 *)
THEOREM CalendarsAreOne == WalkSpec => []CalendarsAgree
<1>1. Walking => CalendarsAgree
  <2> SUFFICES ASSUME Walking PROVE CalendarsAgree
    OBVIOUS
  <2>1. CivilFromDays(day) = date
    <3>1. PICK y \in Int, mm \in Int, d \in Int : date = <<y, mm, d>>
      BY SMT DEF Walking
    <3>2. mm \in 1..12 /\ d \in 1..MonthDays(y, mm)
      BY SMT, <3>1 DEF Walking, IsDay, MonthDays
    <3> QED
      BY Zenon, <3>1, <3>2, CivilIsInverse DEF Walking
  <2>2. \A secs \in 0..MaxSecs : Parse(Render(secs)) = Seconds(secs)
    BY Zenon, RenderedIsRead
  <2> QED
    BY SMT, <2>1, <2>2 DEF CalendarsAgree
<1> QED
  BY <1>1, WalkingHolds, PTL

-----------------------------------------------------------------------------
(* A bound that saturates refuses what the exact bound refuses: what it is    *)
(* compared with is an i64.                                                   *)
LEMMA SaturationIsHarmless ==
  ASSUME NEW t \in (MinInt + 1)..(MaxInt - 1), NEW n \in Int
  PROVE  /\ t > Saturated(n) <=> t > n
         /\ t < Saturated(n) <=> t < n
<1> /\ MinInt \in Int /\ MaxInt \in Int /\ MinInt <= MaxInt /\ t \in Int /\ MinInt < t /\ t < MaxInt
  BY SMT, IntsAreOrdered
<1>1. CASE n > MaxInt
  <2>1. Saturated(n) = MaxInt
    BY Zenon, <1>1 DEF Saturated
  <2> QED
    BY SMT, <1>1, <2>1
<1>2. CASE ~ (n > MaxInt) /\ n < MinInt
  <2>1. Saturated(n) = MinInt
    BY Zenon, <1>2 DEF Saturated
  <2> QED
    BY SMT, <1>2, <2>1
<1>3. CASE ~ (n > MaxInt) /\ ~ (n < MinInt)
  <2>1. Saturated(n) = n
    BY Zenon, <1>3 DEF Saturated
  <2> QED
    BY SMT, <1>3, <2>1
<1> QED
  BY SMT, <1>1, <1>2, <1>3

LEMMA CheckIsExact ==
  ASSUME NEW text, NEW now \in Int, NEW skew \in Int, NEW maxAge \in Int,
         ~ IsWrong(Parse(text)) => Parse(text).secs \in (MinInt + 1)..(MaxInt - 1)
  PROVE  CheckTolerance(text, now, skew, maxAge) = "ok" <=>
           /\ ~ IsWrong(Parse(text))
           /\ now - maxAge <= Parse(text).secs
           /\ Parse(text).secs <= now + skew
<1> DEFINE t == Parse(text)
<1>1. CASE IsWrong(t)
  <2>1. CheckTolerance(text, now, skew, maxAge) = t.error
    BY SMT, <1>1 DEF CheckTolerance
  <2>2. t.error # "ok"
    BY SMT, <1>1 DEF Parse, IsWrong, Wrong, Seconds
  <2> QED
    BY Zenon, <1>1, <2>1, <2>2
<1>2. CASE ~ IsWrong(t)
  <2>1. t.secs \in (MinInt + 1)..(MaxInt - 1)
    BY Zenon, <1>2
  <2>2. /\ t.secs > Saturated(now + skew) <=> t.secs > now + skew
        /\ t.secs < Saturated(now - maxAge) <=> t.secs < now - maxAge
    <3>1. now + skew \in Int /\ now - maxAge \in Int
      BY SMT
    <3> HIDE DEF t
    <3> QED
      BY Zenon, <2>1, <3>1, SaturationIsHarmless
  <2>3. CheckTolerance(text, now, skew, maxAge) =
          IF t.secs > Saturated(now + skew) THEN "proof_time_in_future"
          ELSE IF t.secs < Saturated(now - maxAge) THEN "proof_time_too_old" ELSE "ok"
    BY SMT, <1>2 DEF CheckTolerance
  <2>4. CheckTolerance(text, now, skew, maxAge) = "ok" <=>
          ~ (t.secs > now + skew) /\ ~ (t.secs < now - maxAge)
    BY SMT, <2>2, <2>3
  <2>5. t.secs \in Int
    BY SMT, <2>1, IntsAreOrdered
  <2>6. /\ ~ (t.secs > now + skew) <=> t.secs <= now + skew
        /\ ~ (t.secs < now - maxAge) <=> now - maxAge <= t.secs
    <3> HIDE DEF t
    <3> QED
      BY SMT, <2>5
  <2> QED
    BY Zenon, <1>2, <2>4, <2>6
<1> QED
  BY <1>1, <1>2

(* check_tolerance is exact at the ends of the integers, whatever an          *)
(* application passes for its clock, its skew and its greatest age.           *)
THEOREM ToleranceHolds == WalkSpec => []ToleranceIsExact
<1>1. WalkInit => ToleranceIsExact
  <2> SUFFICES ASSUME WalkInit PROVE ToleranceIsExact
    OBVIOUS
  <2>1. judgement.result # "ok" /\ judgement.text = NotTheForm
    BY SMT DEF WalkInit
  <2>2. IsWrong(Parse(judgement.text))
    BY SMT, <2>1 DEF Parse, IsWrong, Wrong
  <2> QED
    BY Zenon, <2>1, <2>2 DEF ToleranceIsExact
<1>2. ToleranceIsExact /\ [WalkNext]_walk => ToleranceIsExact'
  <2> SUFFICES ASSUME ToleranceIsExact, [WalkNext]_walk PROVE ToleranceIsExact'
    OBVIOUS
  <2>1. CASE \E q \in Judged : Judge(q.text, q.now, q.skew, q.maxAge)
    <3> PICK q \in Judged : Judge(q.text, q.now, q.skew, q.maxAge)
      BY <2>1
    <3>1. /\ q.now \in Int /\ q.skew \in Int /\ q.maxAge \in Int
          /\ ~ IsWrong(Parse(q.text)) => Parse(q.text).secs \in (MinInt + 1)..(MaxInt - 1)
      BY SMT, JudgedAreQuestions, IntsAreOrdered
    <3>2. /\ judgement'.result = CheckTolerance(q.text, q.now, q.skew, q.maxAge)
          /\ judgement'.text = q.text /\ judgement'.now = q.now
          /\ judgement'.skew = q.skew /\ judgement'.maxAge = q.maxAge
      BY SMT DEF Judge
    <3>3. CheckTolerance(q.text, q.now, q.skew, q.maxAge) = "ok" <=>
            /\ ~ IsWrong(Parse(q.text))
            /\ q.now - q.maxAge <= Parse(q.text).secs
            /\ Parse(q.text).secs <= q.now + q.skew
      BY Zenon, <3>1, CheckIsExact
    <3> QED
      BY Zenon, <3>2, <3>3 DEF ToleranceIsExact
  <2>2. CASE UNCHANGED judgement
    BY Zenon, <2>2 DEF ToleranceIsExact
  <2>3. CASE NextDay
    BY SMT, <2>2, <2>3 DEF NextDay
  <2>4. CASE Stop
    <3>1. UNCHANGED walk
      BY SMTT(20), <2>4 DEF Stop
    <3> QED
      BY Zenon, <2>2, <3>1 DEF walk
  <2>5. CASE UNCHANGED walk
    BY Zenon, <2>2, <2>5 DEF walk
  <2> QED
    BY <2>1, <2>3, <2>4, <2>5 DEF WalkNext
<1> QED
  BY <1>1, <1>2, PTL DEF WalkSpec

-----------------------------------------------------------------------------
(* What a plan has, however it was asked for. *)

DatedBounds(function) ==
  \A bound \in {"ge", "le"} :
    LET text == function.params[bound].text
    IN text # None /\ DateOf[text] \in Int \X Int \X Int /\ IsDay(DateOf[text])

IsPlan(p) ==
  /\ DOMAIN p.functions = 1..Len(p.functions) /\ Len(p.functions) \in Nat
  /\ \A i, j \in DOMAIN p.functions : p.functions[i].handle = p.functions[j].handle => i = j
  /\ \A i \in DOMAIN p.functions :
       p.functions[i].function_id = "age_check" /\ {"ge", "le"} \subseteq DOMAIN p.functions[i].params =>
         DatedBounds(p.functions[i])

(* A list of items without a defect. *)
LEMMA ItemsAreRead ==
  ASSUME NEW req, ~ IsInvalid(ReadItems(req))
  PROVE  /\ Is(req, "array")
         /\ \A i \in DOMAIN req.items : ItemDefect(req.items, i) = None
         /\ ReadItems(req).functions = [i \in DOMAIN req.items |-> Planned(req.items[i])]
<1>1. \A code : IsInvalid(Invalid(code))
  BY DEF IsInvalid, Invalid
<1> QED
  BY <1>1 DEF ReadItems

LEMMA PlanIsRead ==
  ASSUME NEW query, NEW metadata, ~ IsInvalid(Plan(query, metadata))
  PROVE  /\ Is(query, "object") /\ ~ IsInvalid(ReadItems(query.req))
         /\ Plan(query, metadata).raw = query
         /\ Plan(query, metadata).functions = ReadItems(query.req).functions
<1>1. \A code : IsInvalid(Invalid(code))
  BY DEF IsInvalid, Invalid
<1>2. \A functions, filter : /\ PlanOf(query, functions, filter).raw = query
                             /\ PlanOf(query, functions, filter).functions = functions
  BY DEF PlanOf
<1> QED
  BY <1>1, <1>2 DEF Plan

LEMMA FirstIsFirst ==
  ASSUME NEW S \in SUBSET Nat, S # {}
  PROVE  FirstIndex(S) \in S /\ \A i \in S : FirstIndex(S) <= i
<1>1. \E i \in S : \A j \in S : i <= j
  BY SmallestNat
<1> QED
  BY <1>1 DEF FirstIndex

(* A date that is given as a parameter is one of the calendar. *)
LEMMA BoundsAreDated ==
  ASSUME NEW params, ParamsDefect("age_check", params) = None, params # None,
         NEW bound \in {"ge", "le"}, bound \in DOMAIN params.members,
         Is(params, "object") => IsDated(params.members[bound])
  PROVE  LET text == params.members[bound].text
         IN text # None /\ DateOf[text] \in Int \X Int \X Int /\ IsDay(DateOf[text])
<1> DEFINE specs == Declared["age_check"]
           broken == {i \in DOMAIN specs : ParamDefect(params.members, specs[i]) # None}
<1>1. /\ specs = <<[name |-> "ge", ty |-> "full_date"], [name |-> "le", ty |-> "full_date"]>>
      /\ "age_check" \in DOMAIN Declared
  BY DEF Declared
<1>2. Is(params, "object")
  BY NoneIsNoCode DEF ParamsDefect
<1>3. broken = {}
  <2> SUFFICES ASSUME broken # {} PROVE FALSE
    OBVIOUS
  <2>1. ParamsDefect("age_check", params) = ParamDefect(params.members, specs[FirstIndex(broken)])
    BY <1>1, <1>2 DEF ParamsDefect
  <2>2. broken \in SUBSET Nat
    BY <1>1
  <2>3. FirstIndex(broken) \in broken
    BY <2>2, FirstIsFirst
  <2> QED
    BY <2>1, <2>3
<1>4. PICK i \in DOMAIN specs : specs[i].name = bound /\ specs[i].ty = "full_date"
  BY <1>1
<1>5. ParamDefect(params.members, specs[i]) = None
  BY <1>3
<1> HIDE DEF specs
<1>6. Is(params.members[bound], "string") /\ IsFullDate(params.members[bound].text)
  BY <1>4, <1>5, NoneIsNoCode DEF ParamDefect
<1> QED
  BY <1>2, <1>6 DEF IsDated, IsFullDate

LEMMA PlanIsGood ==
  ASSUME NEW asked \in Requests, ~ IsInvalid(Plan(asked.query, asked.metadata))
  PROVE  IsPlan(Plan(asked.query, asked.metadata))
<1> DEFINE req == asked.query.req
           functions == Plan(asked.query, asked.metadata).functions
<1>1. /\ Is(asked.query, "object") /\ Is(req, "array")
      /\ \A i \in DOMAIN req.items : ItemDefect(req.items, i) = None
      /\ functions = [i \in DOMAIN req.items |-> Planned(req.items[i])]
  BY PlanIsRead, ItemsAreRead
<1>2. /\ DOMAIN req.items = 1..Len(req.items) /\ Len(req.items) \in Nat
      /\ \A i \in DOMAIN req.items :
           /\ IsPlain(req.items[i].return)
           /\ Is(req.items[i].params, "object") =>
                \A bound \in {"ge", "le"} \cap DOMAIN req.items[i].params.members :
                  IsDated(req.items[i].params.members[bound])
  <2>1. /\ IsSequence(req.items)
        /\ \A i \in DOMAIN req.items :
             /\ IsPlain(req.items[i].return)
             /\ Is(req.items[i].params, "object") =>
                  \A bound \in {"ge", "le"} \cap DOMAIN req.items[i].params.members :
                    IsDated(req.items[i].params.members[bound])
    BY Zenon, <1>1, RequestsAreReadable
  <2> QED
    BY <2>1 DEF IsSequence
<1>3. \A i \in DOMAIN req.items :
        /\ Is(req.items[i].return, "string")
        /\ \A j \in 1..(i - 1) : req.items[j].return # req.items[i].return
        /\ ParamsDefect(req.items[i].fn_id.text, req.items[i].params) = None
  BY <1>1, NoneIsNoCode DEF ItemDefect
<1>4. DOMAIN functions = 1..Len(functions) /\ Len(functions) \in Nat /\ DOMAIN functions = DOMAIN req.items
  BY <1>1, <1>2
<1>7. ASSUME NEW i \in DOMAIN functions
      PROVE  /\ functions[i].function_id = req.items[i].fn_id.text
             /\ functions[i].handle = req.items[i].return.text
             /\ functions[i].params = IF req.items[i].params = None THEN << >> ELSE req.items[i].params.members
  <2>1. functions[i] = Planned(req.items[i])
    BY <1>1, <1>4
  <2> HIDE DEF functions, req
  <2> QED
    BY <2>1 DEF Planned
<1>5. ASSUME NEW i \in DOMAIN functions, NEW j \in DOMAIN functions, functions[i].handle = functions[j].handle
      PROVE  i = j
  <2>1. functions[i].handle = req.items[i].return.text /\ functions[j].handle = req.items[j].return.text
    BY <1>7
  <2>2. req.items[i].return = Str(req.items[i].return.text) /\ req.items[j].return = Str(req.items[j].return.text)
    BY <1>2, <1>3, <1>4 DEF IsPlain, Is
  <2>3. req.items[i].return = req.items[j].return
    BY <1>5, <2>1, <2>2
  <2>4. i \in Nat /\ j \in Nat /\ 1 <= i /\ 1 <= j
    BY <1>4
  <2>5. ~ (i < j) /\ ~ (j < i)
    BY <1>3, <1>4, <2>3, <2>4
  <2> QED
    BY <2>4, <2>5
<1>6. ASSUME NEW i \in DOMAIN functions, functions[i].function_id = "age_check",
             {"ge", "le"} \subseteq DOMAIN functions[i].params
      PROVE  DatedBounds(functions[i])
  <2>1. /\ functions[i].function_id = req.items[i].fn_id.text
        /\ functions[i].params = IF req.items[i].params = None THEN << >> ELSE req.items[i].params.members
    BY <1>7
  <2>2. req.items[i].params # None
    <3> SUFFICES ASSUME req.items[i].params = None PROVE FALSE
      OBVIOUS
    <3>1. "ge" \in DOMAIN << >>
      BY <1>6, <2>1
    <3> QED
      BY <3>1
  <2>3. functions[i].params = req.items[i].params.members
    BY <2>1, <2>2
  <2>4. ParamsDefect("age_check", req.items[i].params) = None
    BY <1>3, <1>4, <1>6, <2>1
  <2>5. ASSUME NEW bound \in {"ge", "le"}
        PROVE  LET text == functions[i].params[bound].text
               IN text # None /\ DateOf[text] \in Int \X Int \X Int /\ IsDay(DateOf[text])
    <3>1. bound \in DOMAIN req.items[i].params.members
      BY <1>6, <2>3
    <3>2. Is(req.items[i].params, "object") => IsDated(req.items[i].params.members[bound])
      BY <1>2, <1>4, <3>1
    <3> HIDE DEF functions, req
    <3> QED
      BY ONLY <2>2, <2>3, <2>4, <3>1, <3>2, bound \in {"ge", "le"}, BoundsAreDated
  <2> QED
    BY <2>5 DEF DatedBounds
<1> QED
  BY <1>4, <1>5, <1>6 DEF IsPlan

-----------------------------------------------------------------------------
(* What a presentation without a defect has. *)

LEMMA FindIsThere ==
  ASSUME NEW entries, IsMap(entries), NEW name
  PROVE  /\ \A i \in DOMAIN entries : entries[i][1] = Text(name) =>
              Has(entries, name) /\ Find(entries, name) = entries[i][2]
         /\ Has(entries, name) =>
              \E i \in DOMAIN entries : entries[i][1] = Text(name) /\ entries[i][2] = Find(entries, name)
<1> DEFINE found == PlacesOf(entries, name)
<1>1. Find(entries, name) = entries[FirstIndex(found)][2] /\ (Has(entries, name) <=> found # {})
  BY DEF Find, Has
<1>2. /\ found \in SUBSET Nat /\ \A i, j \in found : i = j
      /\ found = {i \in DOMAIN entries : entries[i][1] = Text(name)}
  BY DEF IsMap, IsSequence, PlacesOf
<1>3. found # {} => FirstIndex(found) \in found
  BY <1>2, FirstIsFirst
<1>4. \A i \in found : FirstIndex(found) = i
  BY <1>2, <1>3
<1> HIDE DEF found
<1> QED
  BY <1>1, <1>2, <1>3, <1>4

LEMMA ValueIsResult ==
  ASSUME NEW function, NEW value, IsItem(value), ValueDefect(function, value) = None
  PROVE  IsResultOf(function, value)
<1>1. CASE function.function_id = "age_check"
  <2>1. IsA(value, "bool") /\ value.flag
    BY <1>1, NoneIsNoDefect DEF ValueDefect
  <2> QED
    BY <1>1, <2>1 DEF IsItem, IsA, Bool, IsResultOf
<1>2. CASE function.function_id # "age_check"
  <2> DEFINE prf == ParamText(function.params, "prf")
  <2>1. /\ function.function_id = "pseudonym" /\ prf \in DOMAIN PseudonymLength
        /\ IsA(value, "bytes") /\ value.len = PseudonymLength[prf]
    BY <1>2, NoneIsNoDefect DEF ValueDefect
  <2>2. prf = function.params["prf"].text
    BY <2>1, NoneIsNoFunction DEF ParamText
  <2>3. PseudonymLength[prf] = IF prf = "sha-256" THEN 32 ELSE 48
    BY <2>1 DEF PseudonymLength
  <2>4. value = Bytes(value.len)
    BY <2>1 DEF IsItem, IsA
  <2> QED
    BY <1>2, <2>1, <2>2, <2>3, <2>4 DEF IsResultOf
<1> QED
  BY <1>1, <1>2

(* A sequence whose items are told apart in another is no longer. *)
LEMMA NoLonger ==
  ASSUME NEW m \in Nat, NEW n \in Nat, NEW g \in [1..m -> 1..n], \A a, b \in 1..m : g[a] = g[b] => a = b
  PROVE  m <= n
<1>1. IsFiniteSet(1..n) /\ Cardinality(1..n) = n /\ Cardinality(1..m) = m
  BY FS_Interval
<1>2. g \in Injection(1..m, 1..n)
  BY DEF Injection, IsInjective
<1> QED
  BY <1>1, <1>2, FS_Injection

(* Every result asked for is there, with a value of its kind, and no other. *)
LEMMA ResultsAnswer ==
  ASSUME NEW p, IsPlan(p), NEW results, IsMap(results), ResultsDefect(p, results) = None
  PROVE  /\ Len(results) = Len(p.functions)
         /\ \A f \in DOMAIN p.functions :
              \E r \in DOMAIN results :
                /\ results[r][1] = Text(p.functions[f].handle)
                /\ results[r][2] = Find(results, p.functions[f].handle)
                /\ IsResultOf(p.functions[f], results[r][2])
<1> DEFINE ValueOf(function) == ValueDefect(function, Find(results, function.handle))
           m == Len(results)
           n == Len(p.functions)
<1>1. /\ \A i \in DOMAIN results : IsA(results[i][1], "text") /\ results[i][1].text \in Handles(p)
      /\ \A handle \in Handles(p) : Has(results, handle)
      /\ FirstDefect(p.functions, ValueOf) = None
  BY NoneIsNoDefect DEF ResultsDefect
<1>7. \A f \in DOMAIN p.functions : ValueOf(p.functions[f]) = None
  <2> DEFINE broken == {f \in DOMAIN p.functions : ValueOf(p.functions[f]) # None}
  <2> SUFFICES ASSUME broken # {} PROVE FALSE
    OBVIOUS
  <2>1. FirstDefect(p.functions, ValueOf) = ValueOf(p.functions[FirstIndex(broken)])
    BY DEF FirstDefect
  <2>2. broken \in SUBSET Nat
    BY DEF IsPlan
  <2>3. FirstIndex(broken) \in broken
    BY <2>2, FirstIsFirst
  <2> QED
    BY <1>1, <2>1, <2>3
<1>2. /\ DOMAIN p.functions = 1..n /\ n \in Nat /\ DOMAIN results = 1..m /\ m \in Nat
      /\ \A i \in DOMAIN results : IsItem(results[i][1]) /\ IsItem(results[i][2])
  BY DEF IsPlan, IsMap, IsSequence
<1>3. ASSUME NEW f \in 1..n
      PROVE  \E r \in 1..m : /\ results[r][1] = Text(p.functions[f].handle)
                             /\ results[r][2] = Find(results, p.functions[f].handle)
                             /\ IsResultOf(p.functions[f], results[r][2])
  <2>1. p.functions[f].handle \in Handles(p)
    BY <1>2 DEF Handles
  <2>2. PICK r \in 1..m : /\ results[r][1] = Text(p.functions[f].handle)
                          /\ results[r][2] = Find(results, p.functions[f].handle)
    BY <1>1, <1>2, <2>1, FindIsThere
  <2>3. ValueDefect(p.functions[f], Find(results, p.functions[f].handle)) = None
    BY <1>2, <1>7
  <2> QED
    BY <1>2, <2>2, <2>3, ValueIsResult
<1>4. ASSUME NEW r \in 1..m PROVE \E f \in 1..n : results[r][1] = Text(p.functions[f].handle)
  <2>1. PICK f \in 1..n : results[r][1].text = p.functions[f].handle
    BY <1>1, <1>2 DEF Handles
  <2>2. results[r][1] = Text(results[r][1].text)
    BY <1>1, <1>2 DEF IsItem, IsA
  <2> QED
    BY <2>1, <2>2
<1>5. m <= n
  <2> DEFINE g == [r \in 1..m |-> CHOOSE f \in 1..n : results[r][1] = Text(p.functions[f].handle)]
  <2>1. \A r \in 1..m : g[r] \in 1..n /\ results[r][1] = Text(p.functions[g[r]].handle)
    BY <1>4
  <2>2. g \in [1..m -> 1..n]
    BY <2>1
  <2> HIDE DEF g
  <2>3. \A a, b \in 1..m : g[a] = g[b] => a = b
    BY <1>2, <2>1 DEF IsMap
  <2> QED
    BY <1>2, <2>2, <2>3, NoLonger
<1>6. n <= m
  <2> DEFINE g == [f \in 1..n |-> CHOOSE r \in 1..m : results[r][1] = Text(p.functions[f].handle)]
  <2>1. \A f \in 1..n : g[f] \in 1..m /\ results[g[f]][1] = Text(p.functions[f].handle)
    BY <1>3
  <2>2. g \in [1..n -> 1..m]
    BY <2>1
  <2> HIDE DEF g
  <2>3. \A a, b \in 1..n : g[a] = g[b] => a = b
    <3>1. ASSUME NEW a \in 1..n, NEW b \in 1..n, g[a] = g[b] PROVE a = b
      <4>1. Text(p.functions[a].handle) = Text(p.functions[b].handle)
        BY <2>1, <3>1
      <4>2. p.functions[a].handle = p.functions[b].handle
        BY <4>1 DEF Text
      <4> QED
        BY <1>2, <4>2 DEF IsPlan
    <3> QED
      BY <3>1
  <2> QED
    BY <1>2, <2>2, <2>3, NoLonger
<1> QED
  BY <1>2, <1>3, <1>5, <1>6

LEMMA PresentationIsGood ==
  ASSUME NEW p, NEW element, IsElement(element), PresentationDefect(p, element) = None
  PROVE  LET entries == element.decoded.entries
         IN /\ IsMap(entries)
            /\ \E e \in DOMAIN entries :
                 /\ entries[e][1] = Text("results") /\ entries[e][2] = Find(entries, "results")
                 /\ IsMap(entries[e][2].entries) /\ ResultsDefect(p, entries[e][2].entries) = None
            /\ \E e \in DOMAIN entries :
                 entries[e][1] = Text("system_id") /\ Offered(p, entries[e][2].text)
            /\ TimeDefect(p, entries) = None
<1> DEFINE entries == element.decoded.entries
<1>1. /\ HasType(element, "string") /\ "failure" \notin DOMAIN element /\ IsA(element.decoded, "map")
      /\ MembersDefect(entries) = None /\ ContentDefect(p, entries) = None
  BY NoneIsNoDefect DEF PresentationDefect, IsElement, ReadFailures
<1>2. IsDeepMap(entries)
  BY <1>1 DEF IsElement
<1> HIDE DEF entries
<1>3. IsMap(entries)
  BY <1>2 DEF IsDeepMap
<1>4. \A name \in DOMAIN KindOf : Has(entries, name) /\ IsA(Find(entries, name), KindOf[name])
  BY <1>1, NoneIsNoDefect DEF MembersDefect
<1>5. /\ "results" \in DOMAIN KindOf /\ KindOf["results"] = "map" /\ "system_id" \in DOMAIN KindOf
  BY DEF KindOf
<1>6. /\ Offered(p, Find(entries, "system_id").text)
      /\ TimeDefect(p, entries) = None
      /\ ResultsDefect(p, Find(entries, "results").entries) = None
  BY <1>1, NoneIsNoDefect DEF ContentDefect
<1>7. PICK e \in DOMAIN entries : entries[e][1] = Text("results") /\ entries[e][2] = Find(entries, "results")
  BY <1>3, <1>4, <1>5, FindIsThere
<1>8. IsMap(entries[e][2].entries)
  BY <1>2, <1>4, <1>5, <1>7 DEF IsDeepMap
<1>9. PICK d \in DOMAIN entries : entries[d][1] = Text("system_id") /\ entries[d][2] = Find(entries, "system_id")
  BY <1>3, <1>4, <1>5, FindIsThere
<1> QED
  BY <1>3, <1>6, <1>7, <1>8, <1>9 DEF entries

LEMMA EnvelopeIsGood ==
  ASSUME NEW p, NEW t, IsToken(t), EnvelopeDefect(p, t) = None
  PROVE  /\ Is(p.raw.id, "string")
         /\ \E m \in DOMAIN t.members :
              LET arrived == t.members[m][2].items
              IN /\ t.members[m][1] = p.raw.id.text /\ PresentationsOf(p, t) = arrived
                 /\ arrived # << >> /\ IsSequence(arrived) /\ \A i \in DOMAIN arrived : IsElement(arrived[i])
                 /\ Len(arrived) > 1 => p.raw.multiple = Flag(TRUE)
<1> DEFINE found == {i \in DOMAIN t.members : t.members[i][1] = p.raw.id.text}
           m == FirstIndex(found)
<1>1. /\ HasType(t, "object") /\ Is(p.raw.id, "string") /\ found # {}
      /\ HasType(t.members[m][2], "array") /\ t.members[m][2].items # << >>
      /\ Len(t.members[m][2].items) > 1 => p.raw.multiple = Flag(TRUE)
  BY NoneIsNoDefect DEF EnvelopeDefect
<1>2. /\ DOMAIN t.members \subseteq Nat
      /\ \A k \in DOMAIN t.members : HasType(t.members[k][2], "array") =>
           /\ IsSequence(t.members[k][2].items)
           /\ \A i \in DOMAIN t.members[k][2].items : IsElement(t.members[k][2].items[i])
  <2>1. /\ IsSequence(t.members)
        /\ \A k \in DOMAIN t.members : HasType(t.members[k][2], "array") =>
             /\ IsSequence(t.members[k][2].items)
             /\ \A i \in DOMAIN t.members[k][2].items : IsElement(t.members[k][2].items[i])
    BY <1>1 DEF IsToken
  <2>2. DOMAIN t.members \subseteq Nat
    BY <2>1 DEF IsSequence
  <2> QED
    BY <2>1, <2>2
<1>3. m \in found
  BY <1>1, <1>2, FirstIsFirst
<1>4. PresentationsOf(p, t) = t.members[m][2].items
  BY DEF PresentationsOf
<1> HIDE DEF m
<1> QED
  BY <1>1, <1>2, <1>3, <1>4

-----------------------------------------------------------------------------
(* What an alteration leaves readable. *)

LEMMA WithoutKeeps ==
  ASSUME NEW entries, IsMap(entries), NEW key
  PROVE  /\ IsMap(Without(entries, key))
         /\ \A i \in DOMAIN Without(entries, key) :
              /\ Without(entries, key)[i][1] # key
              /\ \E j \in DOMAIN entries : Without(entries, key)[i] = entries[j]
<1> DEFINE places == {i \in DOMAIN entries : entries[i][1] = key}
           p == FirstIndex(places)
           From(i) == IF i < p THEN i ELSE i + 1
           rest == [i \in 1..(Len(entries) - 1) |-> entries[From(i)]]
<1>1. /\ IsSequence(entries) /\ DOMAIN entries = 1..Len(entries) /\ Len(entries) \in Nat
      /\ \A i \in DOMAIN entries : IsItem(entries[i][1]) /\ IsItem(entries[i][2])
      /\ \A i, j \in DOMAIN entries : entries[i][1] = entries[j][1] => i = j
  BY DEF IsMap, IsSequence
<1>2. Without(entries, key) = IF places = {} THEN entries ELSE rest
  BY DEF Without
<1>3. CASE places = {}
  BY <1>2, <1>3
<1>4. CASE places # {}
  <2>1. p \in DOMAIN entries /\ entries[p][1] = key
    <3>1. places \in SUBSET Nat
      BY <1>1
    <3>2. p \in places
      BY <1>4, <3>1, FirstIsFirst
    <3> QED
      BY <3>2
  <2> HIDE DEF p
  <2>2. ASSUME NEW i \in 1..(Len(entries) - 1)
        PROVE  From(i) \in DOMAIN entries /\ From(i) # p /\ rest[i] = entries[From(i)]
    BY <1>1, <2>1
  <2>3. \A i, j \in 1..(Len(entries) - 1) : From(i) = From(j) => i = j
    BY <1>1, <2>1
  <2> DEFINE range == {rest[i] : i \in 1..(Len(entries) - 1)}
  <2>4. rest \in Seq(range) /\ Len(rest) = Len(entries) - 1 /\ DOMAIN rest = 1..(Len(entries) - 1)
    <3>1. Len(entries) - 1 \in Nat
      BY <1>1, <2>1
    <3>2. rest \in [1..(Len(entries) - 1) -> range]
      OBVIOUS
    <3> HIDE DEF rest, range
    <3> QED
      BY <3>1, <3>2, FunctionIsSequence
  <2>5. IsSequence(rest)
    BY <2>4 DEF IsSequence
  <2> HIDE DEF rest, From
  <2>6. \A i \in DOMAIN rest : IsItem(rest[i][1]) /\ IsItem(rest[i][2])
    BY <1>1, <2>2, <2>4
  <2>7. \A i, j \in DOMAIN rest : rest[i][1] = rest[j][1] => i = j
    <3>1. ASSUME NEW i \in DOMAIN rest, NEW j \in DOMAIN rest, rest[i][1] = rest[j][1] PROVE i = j
      <4>1. /\ i \in 1..(Len(entries) - 1) /\ j \in 1..(Len(entries) - 1)
            /\ entries[From(i)][1] = entries[From(j)][1]
        BY <2>2, <2>4, <3>1
      <4>2. From(i) = From(j)
        BY <1>1, <2>2, <4>1
      <4> QED
        BY <2>3, <4>1, <4>2
    <3> QED
      BY <3>1
  <2>8. ASSUME NEW i \in DOMAIN rest PROVE rest[i][1] # key
    <3>1. From(i) \in DOMAIN entries /\ From(i) # p /\ rest[i] = entries[From(i)]
      BY <2>2, <2>4
    <3>2. \A j \in DOMAIN entries : j # p => entries[j][1] # key
      BY <1>1, <2>1
    <3> QED
      BY <3>1, <3>2
  <2>9. \A i \in DOMAIN rest : \E j \in DOMAIN entries : rest[i] = entries[j]
    BY <2>2, <2>4
  <2>10. Without(entries, key) = rest
    BY <1>2, <1>4
  <2> QED
    BY <2>5, <2>6, <2>7, <2>8, <2>9, <2>10 DEF IsMap
<1> QED
  BY <1>3, <1>4

LEMMA PutKeeps ==
  ASSUME NEW entries, IsMap(entries), NEW key, IsItem(key), NEW item, IsItem(item)
  PROVE  /\ IsMap(Put(entries, key, item))
         /\ DOMAIN Put(entries, key, item) = 1..(Len(Without(entries, key)) + 1)
         /\ \A i \in DOMAIN Put(entries, key, item) :
              IF i = Len(Without(entries, key)) + 1 THEN Put(entries, key, item)[i] = <<key, item>>
              ELSE i \in DOMAIN Without(entries, key) /\ Put(entries, key, item)[i] = Without(entries, key)[i]
<1> DEFINE rest == Without(entries, key)
           longer == Append(rest, <<key, item>>)
           range == {rest[i] : i \in DOMAIN rest} \cup {<<key, item>>}
<1>1. /\ IsMap(rest) /\ \A i \in DOMAIN rest : rest[i][1] # key
  BY WithoutKeeps
<1>2. /\ rest \in Seq({rest[i] : i \in DOMAIN rest})
      /\ \A i \in DOMAIN rest : IsItem(rest[i][1]) /\ IsItem(rest[i][2])
      /\ \A i, j \in DOMAIN rest : rest[i][1] = rest[j][1] => i = j
  BY <1>1 DEF IsMap, IsSequence
<1> HIDE DEF rest
<1>3. /\ rest \in Seq(range) /\ DOMAIN rest = 1..Len(rest) /\ Len(rest) \in Nat
      /\ longer \in Seq(range) /\ DOMAIN longer = 1..(Len(rest) + 1)
      /\ \A i \in 1..Len(rest) : longer[i] = rest[i]
      /\ longer[Len(rest) + 1] = <<key, item>>
  BY <1>2
<1> HIDE DEF longer
<1>4. \A i \in DOMAIN longer : i \in DOMAIN rest \/ i = Len(rest) + 1
  BY <1>3
<1>5. IsSequence(longer)
  <2>1. longer \in [1..(Len(rest) + 1) -> {longer[i] : i \in DOMAIN longer}]
    BY <1>3
  <2> QED
    BY SMTT(30), <1>3, <2>1, FunctionIsSequence DEF IsSequence
<1>6. \A i \in DOMAIN longer : IsItem(longer[i][1]) /\ IsItem(longer[i][2])
  BY <1>2, <1>3, <1>4
<1>7. \A i, j \in DOMAIN longer : longer[i][1] = longer[j][1] => i = j
  BY <1>1, <1>2, <1>3, <1>4
<1>8. Put(entries, key, item) = longer
  BY DEF Put, longer, rest
<1>9. IsMap(longer)
  BY <1>5, <1>6, <1>7 DEF IsMap
<1> QED
  BY <1>3, <1>4, <1>8, <1>9 DEF rest

(* A map within a map that is put or taken. *)
LEMMA DeepPutKeeps ==
  ASSUME NEW entries, IsDeepMap(entries), NEW key, IsItem(key), NEW item, IsItem(item),
         IsA(item, "map") => IsMap(item.entries)
  PROVE  IsElement(Encoded(Map(Put(entries, key, item))))
<1> DEFINE changed == Put(entries, key, item)
<1>1. /\ IsMap(changed)
      /\ \A i \in DOMAIN changed :
           changed[i] = <<key, item>> \/ \E j \in DOMAIN entries : changed[i] = entries[j]
  BY PutKeeps, WithoutKeeps DEF IsDeepMap
<1> HIDE DEF changed
<1>2. \A i \in DOMAIN changed : IsA(changed[i][2], "map") => IsMap(changed[i][2].entries)
  BY <1>1 DEF IsDeepMap
<1>3. IsDeepMap(changed)
  BY <1>1, <1>2 DEF IsDeepMap
<1>4. /\ "failure" \notin DOMAIN Encoded(Map(changed))
      /\ Encoded(Map(changed)).decoded.entries = changed
  BY DEF Encoded, Map
<1> QED
  BY <1>3, <1>4 DEF IsElement, changed

LEMMA DeepTakeKeeps ==
  ASSUME NEW entries, IsDeepMap(entries), NEW key
  PROVE  IsElement(Encoded(Map(Without(entries, key))))
<1> DEFINE changed == Without(entries, key)
<1>1. IsMap(changed) /\ \A i \in DOMAIN changed : \E j \in DOMAIN entries : changed[i] = entries[j]
  BY WithoutKeeps DEF IsDeepMap
<1> HIDE DEF changed
<1>2. IsDeepMap(changed)
  BY <1>1 DEF IsDeepMap
<1>3. /\ "failure" \notin DOMAIN Encoded(Map(changed))
      /\ Encoded(Map(changed)).decoded.entries = changed
  BY DEF Encoded, Map
<1> QED
  BY <1>2, <1>3 DEF IsElement, changed

LEMMA ItemReplaced ==
  ASSUME NEW seq, IsSequence(seq), NEW k, NEW new
  PROVE  /\ IsSequence([seq EXCEPT ![k] = new])
         /\ DOMAIN [seq EXCEPT ![k] = new] = DOMAIN seq
         /\ \A i \in DOMAIN seq : [seq EXCEPT ![k] = new][i] = IF i = k THEN new ELSE seq[i]
<1> DEFINE changed == [seq EXCEPT ![k] = new]
<1>1. DOMAIN seq = 1..Len(seq) /\ Len(seq) \in Nat
  BY DEF IsSequence
<1>2. /\ DOMAIN changed = 1..Len(seq)
      /\ \A i \in DOMAIN seq : changed[i] = IF i = k THEN new ELSE seq[i]
  BY <1>1
<1>3. changed \in [1..Len(seq) -> {changed[i] : i \in DOMAIN changed}]
  BY <1>1
<1> HIDE DEF changed
<1>4. IsSequence(changed)
  BY <1>1, <1>3, FunctionIsSequence DEF IsSequence
<1> QED
  BY <1>1, <1>2, <1>4 DEF changed

LEMMA AlterationIsReadable ==
  ASSUME NEW value, IsToken(value), NEW change \in Alterations, CanAlter(value, change)
  PROVE  IsToken(Alteration(value, change))
<1>1. CASE change.within = "token"
  BY <1>1, AlterationsAreReadable DEF Alteration
<1>2. CASE change.within # "token"
  <2> DEFINE member == value.members[1]
             items == member[2].items
             element == items[change.at]
             made == IF change.within = "element" THEN change.item
                     ELSE LET entries == element.decoded.entries
                          IN Encoded(Map(
                               IF change.within = "members" THEN PutOrTake(entries, change.key, change.item)
                               ELSE Put(entries, Text("results"),
                                      Map(PutOrTake(Find(entries, "results").entries, change.key, change.item)))))
             answers == [items EXCEPT ![change.at] = made]
             changed == [value.members EXCEPT ![1] = <<member[1], Arr(answers)>>]
  <2>1. /\ HasType(value, "object") /\ value.members # << >> /\ HasType(member[2], "array")
        /\ change.at \in DOMAIN items
        /\ change.within # "element" =>
             /\ HasType(element, "string") /\ "failure" \notin DOMAIN element /\ IsA(element.decoded, "map")
             /\ change.within = "results" =>
                  Has(element.decoded.entries, "results") /\ IsA(Find(element.decoded.entries, "results"), "map")
    BY <1>2 DEF CanAlter
  <2>2. /\ IsSequence(value.members)
        /\ \A m \in DOMAIN value.members : HasType(value.members[m][2], "array") =>
             /\ IsSequence(value.members[m][2].items)
             /\ \A i \in DOMAIN value.members[m][2].items : IsElement(value.members[m][2].items[i])
    BY <2>1 DEF IsToken
  <2>3. 1 \in DOMAIN value.members
    <3>1. DOMAIN value.members = 1..Len(value.members) /\ Len(value.members) \in Nat /\ Len(value.members) # 0
      BY <2>1, <2>2 DEF IsSequence
    <3> QED
      BY <3>1
  <2>4. IsSequence(items) /\ \A i \in DOMAIN items : IsElement(items[i])
    BY <2>1, <2>2, <2>3
  <2>5. Alteration(value, change) = Members(changed)
    BY <1>2 DEF Alteration
  <2> HIDE DEF items
  <2>6. IsElement(made)
    <3>1. CASE change.within = "element"
      BY <3>1, AlterationsAreReadable
    <3>2. change.within # "element" => IsDeepMap(element.decoded.entries)
      BY <2>1, <2>4 DEF IsElement
    <3>3. CASE change.within = "members"
      <4>1. /\ IsItem(change.key) /\ (change.item = Gone \/ IsItem(change.item))
            /\ change.item # Gone /\ IsA(change.item, "map") => IsMap(change.item.entries)
        BY <3>3, AlterationsAreReadable
      <4>2. made = Encoded(Map(PutOrTake(element.decoded.entries, change.key, change.item)))
        BY <3>3
      <4> HIDE DEF element, made
      <4> QED
        BY <3>2, <3>3, <4>1, <4>2, DeepPutKeeps, DeepTakeKeeps DEF PutOrTake
    <3>4. CASE change.within = "results"
      <4> DEFINE results == Find(element.decoded.entries, "results")
                 inner == PutOrTake(results.entries, change.key, change.item)
      <4>1. IsItem(change.key) /\ (change.item = Gone \/ IsItem(change.item))
        BY <3>4, AlterationsAreReadable
      <4>2. IsDeepMap(element.decoded.entries) /\ Has(element.decoded.entries, "results") /\ IsA(results, "map")
        BY <2>1, <3>2, <3>4
      <4>3. made = Encoded(Map(Put(element.decoded.entries, Text("results"), Map(inner))))
        BY <3>4
      <4> HIDE DEF element, made
      <4>4. IsMap(results.entries)
        <5>1. IsMap(element.decoded.entries)
          BY <4>2 DEF IsDeepMap
        <5>2. \E i \in DOMAIN element.decoded.entries : element.decoded.entries[i][2] = results
          BY <4>2, <5>1, FindIsThere
        <5> QED
          BY <4>2, <5>2 DEF IsDeepMap
      <4>5. IsMap(inner)
        BY <4>1, <4>4, PutKeeps, WithoutKeeps DEF PutOrTake
      <4> HIDE DEF inner, results
      <4>6. IsItem(Text("results")) /\ IsItem(Map(inner)) /\ Map(inner).entries = inner
        BY DEF IsItem, Text, Map
      <4> QED
        BY <4>2, <4>3, <4>5, <4>6, DeepPutKeeps
    <3> QED
      BY <1>2, <3>1, <3>3, <3>4, AlterationsAreReadable
  <2> HIDE DEF made
  <2>7. IsSequence(answers) /\ \A i \in DOMAIN answers : IsElement(answers[i])
    BY <2>4, <2>6, ItemReplaced
  <2>8. /\ IsSequence(changed) /\ DOMAIN changed = DOMAIN value.members
        /\ changed[1] = <<member[1], Arr(answers)>>
        /\ \A m \in DOMAIN changed : m # 1 => changed[m] = value.members[m]
    BY SMTT(30), <2>2, <2>3, ItemReplaced
  <2>9. Arr(answers).items = answers
    BY DEF Arr
  <2>10. \A m \in DOMAIN changed : HasType(changed[m][2], "array") =>
           /\ IsSequence(changed[m][2].items)
           /\ \A i \in DOMAIN changed[m][2].items : IsElement(changed[m][2].items[i])
    <3> HIDE DEF answers, changed
    <3> SUFFICES ASSUME NEW m \in DOMAIN changed, HasType(changed[m][2], "array")
                 PROVE  /\ IsSequence(changed[m][2].items)
                        /\ \A i \in DOMAIN changed[m][2].items : IsElement(changed[m][2].items[i])
      OBVIOUS
    <3>1. CASE m = 1
      <4>1. changed[m][2].items = answers
        BY <2>8, <2>9, <3>1
      <4> QED
        BY <2>7, <4>1
    <3>2. CASE m # 1
      BY <2>2, <2>8, <3>2
    <3> QED
      BY <3>1, <3>2
  <2>11. Members(changed).members = changed
    BY DEF Members
  <2> HIDE DEF changed
  <2> QED
    BY <2>5, <2>8, <2>10, <2>11 DEF IsToken
<1> QED
  BY <1>1, <1>2

(* A presentation whose text is that of a map. *)
IsPresentation(element) ==
  HasType(element, "string") /\ "failure" \notin DOMAIN element /\ IsA(element.decoded, "map")

(* What an honest prover sends. *)
LEMMA HonestIsReadable ==
  ASSUME IsPlan(plan), NEW id, NEW now
  PROVE  LET made == HonestPresentation(id, now)
             entries == made.decoded.entries
         IN /\ IsElement(made) /\ IsPresentation(made) /\ IsMap(HonestResults)
            /\ \A i \in DOMAIN entries : IsA(entries[i][1], "text") /\ entries[i][1].text \in MemberNames
            /\ \A name \in MemberNames : Has(entries, name)
            /\ Find(entries, "results") = Map(HonestResults)
            /\ Find(entries, "proof") = Bytes(1)
            /\ Find(entries, "issuer_key_set") = List(<<Bytes(KeyMaxBytes)>>)
            /\ Find(entries, "proof_time") = Tag(0, Text(Render(now + request.drift)))
            /\ Find(entries, "system_id") = Text(id)
<1> DEFINE results == HonestResults
           time == Tag(0, Text(Render(now + request.drift)))
           entries == << <<Text("results"), Map(results)>>, <<Text("proof"), Bytes(1)>>,
                         <<Text("issuer_key_set"), List(<<Bytes(KeyMaxBytes)>>)>>,
                         <<Text("proof_time"), time>>, <<Text("system_id"), Text(id)>> >>
<1>1. /\ HonestPresentation(id, now) = Encoded(Map(entries))
      /\ Encoded(Map(entries)).decoded.entries = entries /\ IsPresentation(Encoded(Map(entries)))
  BY DEF HonestPresentation, Encoded, Map, IsPresentation, HasType, IsA
<1>2. \A text, other : Text(text) = Text(other) => text = other
  BY DEF Text
<1>3. IsMap(results)
  <2>1. DOMAIN plan.functions = 1..Len(plan.functions) /\ Len(plan.functions) \in Nat
    BY DEF IsPlan
  <2>7. results = [i \in DOMAIN plan.functions |->
                     <<Text(plan.functions[i].handle), HonestResult(plan.functions[i])>>]
    BY DEF HonestResults
  <2>2. results \in [1..Len(plan.functions) -> {results[i] : i \in DOMAIN results}]
    BY <2>1, <2>7
  <2>3. IsSequence(results)
    <3> HIDE DEF results
    <3> QED
      BY <2>1, <2>2, FunctionIsSequence DEF IsSequence
  <2>4. ASSUME NEW i \in DOMAIN results
        PROVE  results[i][1] = Text(plan.functions[i].handle) /\ results[i][2] = HonestResult(plan.functions[i])
    BY <2>4, <2>7
  <2>5. DOMAIN results = DOMAIN plan.functions
    BY <2>7
  <2> HIDE DEF results
  <2>6. ASSUME NEW i \in DOMAIN results PROVE IsItem(results[i][1]) /\ IsItem(results[i][2])
    <3>1. IsItem(Text(plan.functions[i].handle))
      BY DEF IsItem, Text
    <3>2. IsItem(HonestResult(plan.functions[i]))
      BY DEF IsItem, HonestResult, Bytes, Bool
    <3> QED
      BY <2>4, <3>1, <3>2
  <2>8. ASSUME NEW i \in DOMAIN results, NEW j \in DOMAIN results, results[i][1] = results[j][1] PROVE i = j
    BY <1>2, <2>4, <2>5, <2>8 DEF IsPlan
  <2> QED
    BY <2>3, <2>6, <2>8 DEF IsMap
<1> HIDE DEF results
<1>4. /\ Map(results).entries = results
      /\ \A i \in {Map(results), Text("results"), Text("proof"), Bytes(1), Text("issuer_key_set"),
                   List(<<Bytes(KeyMaxBytes)>>), Text("proof_time"), time, Text("system_id"), Text(id)} : IsItem(i)
      /\ \A i \in {Bytes(1), List(<<Bytes(KeyMaxBytes)>>), time, Text(id)} : ~ IsA(i, "map")
  BY DEF Map, Text, Bytes, List, Tag, IsItem, IsA
<1> DEFINE v == << Map(results), Bytes(1), List(<<Bytes(KeyMaxBytes)>>), time, Text(id) >>
           k == << "results", "proof", "issuer_key_set", "proof_time", "system_id" >>
<1> HIDE DEF time
<1>5. /\ DOMAIN entries = 1..5 /\ IsSequence(entries)
      /\ \A i \in 1..5 : entries[i][1] = Text(k[i]) /\ entries[i][2] = v[i]
      /\ \A i \in 1..5 : IsItem(entries[i][1]) /\ IsItem(entries[i][2])
  <2>1. /\ entries[1] = <<Text("results"), Map(results)>> /\ entries[2] = <<Text("proof"), Bytes(1)>>
        /\ entries[3] = <<Text("issuer_key_set"), List(<<Bytes(KeyMaxBytes)>>)>>
        /\ entries[4] = <<Text("proof_time"), time>> /\ entries[5] = <<Text("system_id"), Text(id)>>
        /\ DOMAIN entries = 1..5
    OBVIOUS
  <2>2. entries \in [1..5 -> {entries[i] : i \in DOMAIN entries}]
    OBVIOUS
  <2>3. IsSequence(entries)
    <3> HIDE DEF entries
    <3> QED
      BY <2>1, <2>2, FunctionIsSequence DEF IsSequence
  <2> HIDE DEF entries
  <2> QED
    BY <1>4, <2>1, <2>3
<1> HIDE DEF entries
<1>6. \A i, j \in 1..5 : entries[i][1] = entries[j][1] => i = j
  BY <1>2, <1>5
<1>7. IsMap(entries)
  BY <1>5, <1>6 DEF IsMap
<1>8. \A i \in 1..5 : IsA(entries[i][2], "map") => IsMap(entries[i][2].entries)
  BY <1>3, <1>4, <1>5
<1>9. IsDeepMap(entries)
  BY <1>5, <1>7, <1>8 DEF IsDeepMap
<1>10. \A i \in 1..5 : Has(entries, k[i]) /\ Find(entries, k[i]) = v[i]
  BY <1>5, <1>7, FindIsThere
<1>11. /\ \A i \in DOMAIN entries : IsA(entries[i][1], "text") /\ entries[i][1].text \in MemberNames
       /\ \A name \in MemberNames : \E i \in 1..5 : name = k[i]
  BY <1>5 DEF MemberNames, IsA, Text
<1>12. /\ k[1] = "results" /\ k[2] = "proof" /\ k[3] = "issuer_key_set" /\ k[4] = "proof_time" /\ k[5] = "system_id"
       /\ v[1] = Map(results) /\ v[2] = Bytes(1) /\ v[3] = List(<<Bytes(KeyMaxBytes)>>) /\ v[4] = time
       /\ v[5] = Text(id)
  OBVIOUS
<1> HIDE DEF k, v
<1>13. /\ \A name \in MemberNames : Has(entries, name)
       /\ Find(entries, "results") = Map(results) /\ Find(entries, "proof") = Bytes(1)
       /\ Find(entries, "issuer_key_set") = List(<<Bytes(KeyMaxBytes)>>) /\ Find(entries, "proof_time") = time
       /\ Find(entries, "system_id") = Text(id)
  BY <1>10, <1>11, <1>12
<1>14. IsElement(Encoded(Map(entries)))
  BY <1>1, <1>9 DEF IsElement, IsPresentation
<1>15. HonestPresentation(id, now).decoded.entries = entries
  BY <1>1
<1>16. IsElement(HonestPresentation(id, now)) /\ IsPresentation(HonestPresentation(id, now))
  BY <1>1, <1>14
<1>17. IsMap(HonestResults) /\ results = HonestResults /\ time = Tag(0, Text(Render(now + request.drift)))
  BY <1>3 DEF time, results
<1> HIDE DEF time, results
<1> QED
  BY <1>11, <1>13, <1>15, <1>16, <1>17

-----------------------------------------------------------------------------
(* The inductive invariant of the exchange, in three parts. *)

Unplanned == phase \in {"asked", "invalid"}
Unanswered == phase \in {"asked", "invalid", "planned", "declined"}
Answered == phase \in {"answering", "checking", "shaped", "verified", "stale", "refused"}

(* The plan is what the planner made of the request. *)
PlanInv ==
  /\ request \in Requests /\ clock \in Int /\ (Unanswered \/ Answered)
  /\ Unplanned => plan = None
  /\ ~ Unplanned => plan = Plan(request.query, request.metadata) /\ ~ IsInvalid(plan)

(* The answer is an honest one, and stays readable through its alterations. *)
AnswerInv ==
  /\ Unanswered => altered = {}
  /\ Answered =>
       /\ Is(plan.raw.id, "string") /\ proved \in Int /\ IsToken(token)
       /\ altered = {} => token = honest
       /\ \E n \in 1..MaxPresentations, id \in SystemsToUse : honest = HonestAnswer(n, id, proved)

(* What is accepted is what the presentations before `at` decode to. *)
CheckInv ==
  /\ Unanswered \/ phase = "answering" => at = 1 /\ accepted = << >>
  /\ phase = "refused" => accepted = << >>
  /\ phase = "checking" \/ Shaped =>
       LET arrived == PresentationsOf(plan, token)
       IN /\ at \in Nat \ {0}
          /\ IsSequence(accepted) /\ Len(accepted) = at - 1
          /\ \A i \in 1..(at - 1) :
               /\ i \in DOMAIN arrived /\ PresentationDefect(plan, arrived[i]) = None
               /\ accepted[i] = Decoded(plan, arrived[i])
          /\ at > 1 \/ Shaped => EnvelopeDefect(plan, token) = None
          /\ Shaped => at > Len(arrived)

ExchangeInv == PlanInv /\ AnswerInv /\ CheckInv
LEMMA PlanInvHolds == Spec => []PlanInv
<1>1. Init => PlanInv
  BY ClocksAreNumbers DEF Init, PlanInv, Unplanned, Unanswered
<1>2. PlanInv /\ [Next]_vars => PlanInv'
  <2> SUFFICES ASSUME PlanInv, [Next]_vars PROVE PlanInv'
    OBVIOUS
  <2> USE DEF PlanInv, Unplanned, Unanswered, Answered
  <2>1. CASE PlanRequest
    BY <2>1 DEF PlanRequest, answer
  <2>2. CASE Decline
    BY <2>2 DEF Decline, answer
  <2>3. CASE Prove
    BY <2>3 DEF Prove, judged
  <2>4. CASE Alter
    BY <2>4 DEF Alter, judged
  <2>5. CASE Deliver
    BY <2>5 DEF Deliver, answer, judged
  <2>6. CASE Tick
    BY <2>6 DEF Tick, answer, judged
  <2>7. CASE RefuseEnvelope
    BY <2>7 DEF RefuseEnvelope, Refuse, answer
  <2>8. CASE CheckPresentation
    BY <2>8 DEF CheckPresentation, Judging, Refuse, answer
  <2>9. CASE AcceptShape
    BY <2>9 DEF AcceptShape, Judging, answer, judged
  <2>10. CASE CheckTimes
    BY <2>10 DEF CheckTimes, answer, judged
  <2>11. CASE UNCHANGED vars
    BY <2>11 DEF vars
  <2> QED
    BY <2>1, <2>2, <2>3, <2>4, <2>5, <2>6, <2>7, <2>8, <2>9, <2>10, <2>11 DEF Next, Done
<1> QED
  BY <1>1, <1>2, PTL DEF Spec

(* An honest answer is readable, however many presentations it has. *)
LEMMA HonestAnswerIsReadable ==
  ASSUME IsPlan(plan), NEW n \in Nat, NEW id, NEW now
  PROVE  LET made == HonestAnswer(n, id, now)
         IN /\ IsToken(made) /\ DOMAIN made.members = {1} /\ made.members[1][1] = plan.raw.id.text
            /\ DOMAIN made.members[1][2].items = 1..n
            /\ \A i \in 1..n : made.members[1][2].items[i] = HonestPresentation(id, now)
<1> DEFINE one == HonestPresentation(id, now)
           items == [i \in 1..n |-> one]
           members == << <<plan.raw.id.text, Arr(items)>> >>
<1>1. HonestAnswer(n, id, now) = Members(members) /\ Members(members).members = members
  BY DEF HonestAnswer, Members
<1>2. IsElement(one)
  BY HonestIsReadable
<1> HIDE DEF one
<1>3. IsSequence(items) /\ \A i \in DOMAIN items : IsElement(items[i])
  <2>1. items \in [1..n -> {items[i] : i \in DOMAIN items}]
    OBVIOUS
  <2>2. \A i \in DOMAIN items : IsElement(items[i])
    BY <1>2
  <2> HIDE DEF items
  <2> QED
    BY <2>1, <2>2, FunctionIsSequence DEF IsSequence
<1>4. Arr(items).items = items
  BY DEF Arr
<1> HIDE DEF items
<1>5. DOMAIN members = {1} /\ members[1] = <<plan.raw.id.text, Arr(items)>>
  OBVIOUS
<1>6. IsSequence(members)
  <2>1. members \in [1..1 -> {members[i] : i \in DOMAIN members}]
    OBVIOUS
  <2> HIDE DEF members
  <2> QED
    BY <2>1, FunctionIsSequence DEF IsSequence
<1> HIDE DEF members
<1>7. IsToken(Members(members))
  BY <1>1, <1>3, <1>4, <1>5, <1>6 DEF IsToken
<1>8. DOMAIN items = 1..n /\ \A i \in 1..n : items[i] = one
  BY DEF items
<1> QED
  BY <1>1, <1>4, <1>5, <1>7, <1>8 DEF one

LEMMA PlanIsThere ==
  ASSUME PlanInv, ~ Unplanned
  PROVE  IsPlan(plan) /\ plan.raw = request.query
BY PlanIsGood, PlanIsRead DEF PlanInv

LEMMA AnswerInvHolds == Spec => []AnswerInv
<1>1. Init => AnswerInv
  BY DEF Init, AnswerInv, Unanswered, Answered
<1>2. PlanInv /\ AnswerInv /\ [Next]_vars => AnswerInv'
  <2> SUFFICES ASSUME PlanInv, AnswerInv, [Next]_vars PROVE AnswerInv'
    OBVIOUS
  <2>1. ASSUME UNCHANGED <<request, plan, answer>>, phase \in {"checking", "shaped"}, Answered'
        PROVE  AnswerInv'
    <3>1. Answered /\ ~ Unanswered'
      BY <2>1 DEF Answered, Unanswered
    <3> QED
      BY <2>1, <3>1 DEF AnswerInv, answer, SystemsToUse, HonestAnswer, HonestPresentation, HonestResults,
                HonestResult
  <2>2. ASSUME UNCHANGED <<request, plan, answer, phase>>
        PROVE  AnswerInv'
    BY <2>2 DEF AnswerInv, answer, Unanswered, Answered, SystemsToUse, HonestAnswer, HonestPresentation, HonestResults,
                HonestResult
  <2>3. CASE PlanRequest
    BY <2>3 DEF PlanRequest, AnswerInv, answer, Unanswered, Answered
  <2>4. CASE Decline
    BY <2>4 DEF Decline, AnswerInv, answer, Unanswered, Answered
  <2>5. CASE Prove
    <3>1. PICK n \in 1..MaxPresentations, id \in SystemsToUse :
            honest' = HonestAnswer(n, id, clock) /\ token' = HonestAnswer(n, id, clock)
      BY <2>5 DEF Prove
    <3>2. /\ phase = "planned" /\ phase' = "answering" /\ proved' = clock /\ altered' = altered
          /\ Is(plan.raw.id, "string") /\ UNCHANGED <<request, plan>>
      BY <2>5 DEF Prove
    <3>3. IsToken(HonestAnswer(n, id, clock))
      <4>1. n \in Nat
        BY ClocksAreNumbers
      <4>2. IsPlan(plan)
        BY <3>2, PlanIsThere DEF Unplanned
      <4> QED
        BY <4>1, <4>2, HonestAnswerIsReadable
    <3>4. HonestAnswer(n, id, proved)' = HonestAnswer(n, id, clock)
      BY <3>2 DEF HonestAnswer, HonestPresentation, HonestResults, HonestResult
    <3> QED
      BY <3>1, <3>2, <3>3, <3>4
         DEF PlanInv, AnswerInv, Unanswered, Answered, SystemsToUse, HonestAnswer, HonestPresentation, HonestResults,
                HonestResult
  <2>6. CASE Alter
    <3>1. PICK change \in Alterations :
            /\ CanAlter(token, change) /\ token' = Alteration(token, change)
            /\ altered' = altered \cup {change}
      BY <2>6 DEF Alter
    <3>2. phase = "answering" /\ phase' = phase /\ UNCHANGED <<request, plan, honest, proved>>
      BY <2>6 DEF Alter
    <3>3. IsToken(token')
      BY <3>1, <3>2, AlterationIsReadable DEF AnswerInv, Answered
    <3>4. altered' # {}
      BY <3>1
    <3> QED
      BY <3>2, <3>3, <3>4
         DEF AnswerInv, Unanswered, Answered, SystemsToUse, HonestAnswer, HonestPresentation, HonestResults,
                HonestResult
  <2>7. CASE Deliver
    BY <2>7 DEF Deliver, AnswerInv, answer, Unanswered, Answered, SystemsToUse, HonestAnswer, HonestPresentation,
                HonestResults, HonestResult
  <2>8. CASE Tick
    BY <2>2, <2>8 DEF Tick
  <2>9. CASE RefuseEnvelope
    BY <2>1, <2>9 DEF RefuseEnvelope, Refuse, Answered
  <2>10. CASE CheckPresentation
    BY <2>1, <2>10 DEF CheckPresentation, Judging, Refuse, Answered
  <2>11. CASE AcceptShape
    BY <2>1, <2>11 DEF AcceptShape, Judging, Answered
  <2>12. CASE CheckTimes
    BY <2>1, <2>12 DEF CheckTimes, Answered
  <2>13. CASE UNCHANGED vars
    BY <2>2, <2>13 DEF vars, answer
  <2> QED
    BY <2>3, <2>4, <2>5, <2>6, <2>7, <2>8, <2>9, <2>10, <2>11, <2>12, <2>13 DEF Next, Done
<1> QED
  BY <1>1, <1>2, PlanInvHolds, PTL DEF Spec

LEMMA Appended ==
  ASSUME NEW seq, IsSequence(seq), NEW new
  PROVE  /\ IsSequence(Append(seq, new)) /\ Len(Append(seq, new)) = Len(seq) + 1
         /\ \A i \in 1..Len(seq) : Append(seq, new)[i] = seq[i]
         /\ Append(seq, new)[Len(seq) + 1] = new
<1> DEFINE range == {seq[i] : i \in DOMAIN seq} \cup {new}
           longer == Append(seq, new)
<1>1. seq \in Seq(range)
  BY DEF IsSequence
<1>2. /\ Len(longer) = Len(seq) + 1 /\ DOMAIN longer = 1..(Len(seq) + 1) /\ Len(seq) \in Nat
      /\ \A i \in 1..Len(seq) : longer[i] = seq[i]
      /\ longer[Len(seq) + 1] = new /\ longer \in Seq(range)
  BY <1>1
<1> HIDE DEF longer
<1>3. longer \in [1..(Len(seq) + 1) -> {longer[i] : i \in DOMAIN longer}]
  BY <1>2
<1>4. IsSequence(longer)
  BY SMTT(30), <1>2, <1>3, FunctionIsSequence DEF IsSequence
<1> QED
  BY <1>2, <1>4 DEF longer

LEMMA CheckInvHolds == Spec => []CheckInv
<1> USE DEF Shaped
<1>1. Init => CheckInv
  BY DEF Init, CheckInv, Unanswered
<1>2. AnswerInv /\ CheckInv /\ [Next]_vars => CheckInv'
  <2> SUFFICES ASSUME AnswerInv, CheckInv, [Next]_vars PROVE CheckInv'
    OBVIOUS
  <2>1. ASSUME UNCHANGED <<plan, token, judged, phase>> PROVE CheckInv'
    BY <2>1 DEF CheckInv, judged, Unanswered
  <2>2. ASSUME UNCHANGED judged, Unanswered \/ phase = "answering", Unanswered' \/ phase' = "answering"
        PROVE  CheckInv'
    BY <2>2 DEF CheckInv, judged, Unanswered
  <2>3. CASE PlanRequest
    BY <2>3 DEF PlanRequest, CheckInv, Unanswered
  <2>4. CASE Decline
    BY <2>4 DEF Decline, CheckInv, Unanswered
  <2>5. CASE Prove
    BY <2>2, <2>5 DEF Prove, Unanswered
  <2>6. CASE Alter
    BY <2>2, <2>6 DEF Alter
  <2>7. CASE Deliver
    <3>1. phase' = "checking" /\ at' = 1 /\ accepted' = << >>
      BY <2>7 DEF Deliver, CheckInv, judged
    <3>2. IsSequence(<< >>) /\ Len(<< >>) = 0
      BY DEF IsSequence
    <3> QED
      BY <3>1, <3>2 DEF CheckInv, Unanswered
  <2>8. CASE Tick
    BY <2>1, <2>8 DEF Tick, answer
  <2>9. CASE RefuseEnvelope
    BY <2>9 DEF RefuseEnvelope, Refuse, CheckInv, Unanswered
  <2>10. CASE CheckPresentation
    <3> DEFINE arrived == PresentationsOf(plan, token)
               element == arrived[at]
    <3>1. CASE PresentationDefect(plan, element) # None
      BY <2>10, <3>1 DEF CheckPresentation, Refuse, CheckInv, Unanswered
    <3>2. CASE PresentationDefect(plan, element) = None
      <4>1. /\ phase = "checking" /\ phase' = "checking" /\ EnvelopeDefect(plan, token) = None /\ at <= Len(arrived)
            /\ accepted' = Append(accepted, Decoded(plan, element)) /\ at' = at + 1
            /\ UNCHANGED <<plan, token>>
        BY <2>10, <3>2 DEF CheckPresentation, Judging, answer
      <4>2. /\ at \in Nat \ {0} /\ IsSequence(accepted) /\ Len(accepted) = at - 1
            /\ \A i \in 1..(at - 1) :
                 /\ i \in DOMAIN arrived /\ PresentationDefect(plan, arrived[i]) = None
                 /\ accepted[i] = Decoded(plan, arrived[i])
        BY <4>1 DEF CheckInv
      <4>3. at \in DOMAIN arrived
        <5>1. IsToken(token)
          BY <4>1 DEF AnswerInv, Answered
        <5>2. IsSequence(arrived)
          BY <4>1, <5>1, EnvelopeIsGood
        <5>3. DOMAIN arrived = 1..Len(arrived) /\ Len(arrived) \in Nat
          BY <5>2 DEF IsSequence
        <5> QED
          BY <4>1, <4>2, <5>3
      <4>4. /\ IsSequence(accepted') /\ Len(accepted') = at
            /\ \A i \in 1..(at - 1) : accepted'[i] = accepted[i]
            /\ accepted'[at] = Decoded(plan, element)
        BY <4>1, <4>2, Appended
      <4>5. \A i \in 1..at : /\ i \in DOMAIN arrived /\ PresentationDefect(plan, arrived[i]) = None
                             /\ accepted'[i] = Decoded(plan, arrived[i])
        <5>1. \A i \in 1..at : i \in 1..(at - 1) \/ i = at
          BY <4>2
        <5> HIDE DEF arrived
        <5> QED
          BY <3>2, <4>2, <4>3, <4>4, <5>1
      <4>6. at' \in Nat \ {0} /\ at' - 1 = at
        BY <4>1, <4>2
      <4>7. plan' = plan /\ token' = token /\ phase' = "checking" /\ arrived' = arrived
        BY <4>1 DEF PresentationsOf
      <4> HIDE DEF arrived
      <4>8. /\ IsSequence(accepted') /\ Len(accepted') = at' - 1
            /\ \A i \in 1..(at' - 1) :
                 /\ i \in DOMAIN arrived /\ PresentationDefect(plan', arrived[i]) = None
                 /\ accepted'[i] = Decoded(plan', arrived[i])
        BY <4>4, <4>5, <4>6, <4>7
      <4>9. EnvelopeDefect(plan', token') = None
        BY <4>1, <4>7
      <4> QED
        BY <4>6, <4>7, <4>8, <4>9 DEF CheckInv, Unanswered, arrived
    <3> QED
      BY <3>1, <3>2
  <2>11. CASE AcceptShape
    <3>1. /\ phase = "checking" /\ phase' = "shaped" /\ EnvelopeDefect(plan, token) = None
          /\ at > Len(PresentationsOf(plan, token)) /\ UNCHANGED <<plan, token, judged>>
      BY <2>11 DEF AcceptShape, Judging, answer
    <3> QED
      BY <3>1 DEF CheckInv, judged, Unanswered
  <2>12. CASE CheckTimes
    <3>1. phase = "shaped" /\ phase' \in {"verified", "stale"} /\ UNCHANGED <<plan, token, judged>>
      BY <2>12 DEF CheckTimes, answer
    <3> QED
      BY <3>1 DEF CheckInv, judged, Unanswered
  <2>13. CASE UNCHANGED vars
    BY <2>1, <2>13 DEF vars, judged
  <2> QED
    BY <2>3, <2>4, <2>5, <2>6, <2>7, <2>8, <2>9, <2>10, <2>11, <2>12, <2>13 DEF Next, Done
<1> QED
  BY <1>1, <1>2, AnswerInvHolds, PTL DEF Spec

LEMMA AllWereChecked ==
  ASSUME PlanInv, AnswerInv, CheckInv, Shaped
  PROVE  LET arrived == PresentationsOf(plan, token)
         IN /\ IsPlan(plan) /\ plan.raw = request.query /\ IsToken(token) /\ EnvelopeDefect(plan, token) = None
            /\ DOMAIN accepted = 1..Len(accepted) /\ DOMAIN arrived = 1..Len(accepted)
            /\ Len(accepted) = Len(arrived)
            /\ \A i \in DOMAIN arrived :
                 PresentationDefect(plan, arrived[i]) = None /\ accepted[i] = Decoded(plan, arrived[i])
<1> DEFINE arrived == PresentationsOf(plan, token)
<1>1. ~ Unplanned /\ Answered
  BY DEF Shaped, Unplanned, Answered
<1>2. IsPlan(plan) /\ plan.raw = request.query /\ IsToken(token)
  BY <1>1, PlanIsThere DEF AnswerInv
<1>3. /\ at \in Nat \ {0} /\ IsSequence(accepted) /\ Len(accepted) = at - 1
      /\ \A i \in 1..(at - 1) :
           /\ i \in DOMAIN arrived /\ PresentationDefect(plan, arrived[i]) = None
           /\ accepted[i] = Decoded(plan, arrived[i])
      /\ EnvelopeDefect(plan, token) = None /\ at > Len(arrived)
  BY DEF CheckInv
<1>4. IsSequence(arrived) /\ arrived # << >>
  BY ZenonT(30), <1>2, <1>3, EnvelopeIsGood
<1> HIDE DEF arrived
<1>5. DOMAIN arrived = 1..Len(arrived) /\ Len(arrived) \in Nat \ {0} /\ DOMAIN accepted = 1..Len(accepted)
  BY <1>4, <1>3 DEF IsSequence
<1>6. at - 1 = Len(arrived)
  <2>1. at - 1 \in 1..(at - 1)
    BY <1>3, <1>5
  <2>2. at - 1 <= Len(arrived)
    BY <1>3, <1>5, <2>1
  <2> QED
    BY <1>3, <1>5, <2>2
<1> QED
  BY <1>2, <1>3, <1>5, <1>6 DEF arrived

(* What a response that passes says was asked for and is all that was asked,  *)
(* whatever the request and whichever alterations of the answer; of one that  *)
(* is refused nothing is accepted.                                            *)
THEOREM PassedIsAnswered == Spec => []PassedAnswersAll
<1>1. PlanInv /\ AnswerInv /\ CheckInv => PassedAnswersAll
  <2> SUFFICES ASSUME PlanInv, AnswerInv, CheckInv PROVE PassedAnswersAll
    OBVIOUS
  <2>1. phase = "refused" => accepted = << >>
    BY DEF CheckInv
  <2> DEFINE
        IsAnswered(list) ==
          /\ Len(list) > 1 => request.query.multiple = Flag(TRUE)
          /\ Len(accepted) = Len(list)
          /\ \A i \in DOMAIN list :
               /\ \E e \in DOMAIN list[i].decoded.entries :
                    LET entry == list[i].decoded.entries[e]
                    IN entry[1] = Text("results") /\ AnswersAll(entry[2].entries, accepted[i].results)
               /\ \E e \in DOMAIN list[i].decoded.entries :
                    LET entry == list[i].decoded.entries[e]
                    IN entry[1] = Text("system_id") /\ entry[2].text \in plan.system_filter.system_ids
  <2>2. ASSUME Shaped
        PROVE  \E m \in DOMAIN token.members :
                 token.members[m][1] = request.query.id.text /\ IsAnswered(token.members[m][2].items)
    <3> DEFINE arrived == PresentationsOf(plan, token)
    <3>1. /\ IsPlan(plan) /\ plan.raw = request.query /\ IsToken(token) /\ EnvelopeDefect(plan, token) = None
          /\ Len(accepted) = Len(arrived)
          /\ \A i \in DOMAIN arrived :
               PresentationDefect(plan, arrived[i]) = None /\ accepted[i] = Decoded(plan, arrived[i])
      BY <2>2, AllWereChecked
    <3>2. PICK m \in DOMAIN token.members :
            /\ token.members[m][1] = plan.raw.id.text /\ arrived = token.members[m][2].items
            /\ \A i \in DOMAIN arrived : IsElement(arrived[i])
            /\ Len(arrived) > 1 => plan.raw.multiple = Flag(TRUE)
      BY <3>1, EnvelopeIsGood
    <3> HIDE DEF arrived
    <3>3. ASSUME NEW i \in DOMAIN arrived
          PROVE  /\ \E e \in DOMAIN arrived[i].decoded.entries :
                      LET entry == arrived[i].decoded.entries[e]
                      IN entry[1] = Text("results") /\ AnswersAll(entry[2].entries, accepted[i].results)
                 /\ \E e \in DOMAIN arrived[i].decoded.entries :
                      LET entry == arrived[i].decoded.entries[e]
                      IN entry[1] = Text("system_id") /\ entry[2].text \in plan.system_filter.system_ids
      <4> DEFINE element == arrived[i]
                 entries == element.decoded.entries
      <4>1. IsElement(element) /\ PresentationDefect(plan, element) = None /\ accepted[i] = Decoded(plan, element)
        BY <3>1, <3>2
      <4> HIDE DEF element
      <4>2. PICK e \in DOMAIN entries :
              /\ entries[e][1] = Text("results") /\ entries[e][2] = Find(entries, "results")
              /\ IsMap(entries[e][2].entries) /\ ResultsDefect(plan, entries[e][2].entries) = None
        BY <4>1, PresentationIsGood
      <4>3. \E d \in DOMAIN entries : entries[d][1] = Text("system_id") /\ Offered(plan, entries[d][2].text)
        BY <4>1, PresentationIsGood
      <4> DEFINE results == entries[e][2].entries
                 handed == accepted[i].results
      <4>4. handed = [f \in DOMAIN plan.functions |->
                        <<plan.functions[f].handle, Find(results, plan.functions[f].handle)>>]
        BY <4>1, <4>2 DEF Decoded
      <4>5. IsMap(results) /\ ResultsDefect(plan, results) = None
        BY <4>2
      <4> HIDE DEF results, handed
      <4>6. AnswersAll(results, handed)
        <5>1. /\ Len(results) = Len(plan.functions)
              /\ \A f \in DOMAIN plan.functions :
                   \E r \in DOMAIN results :
                     /\ results[r][1] = Text(plan.functions[f].handle)
                     /\ results[r][2] = Find(results, plan.functions[f].handle)
                     /\ IsResultOf(plan.functions[f], results[r][2])
          BY <3>1, <4>5, ResultsAnswer
        <5> QED
          BY <4>4, <5>1 DEF AnswersAll
      <4> QED
        BY <4>2, <4>3, <4>6 DEF Offered, element, results, handed
    <3>4. IsAnswered(arrived)
      BY <3>1, <3>2, <3>3
    <3> HIDE DEF IsAnswered
    <3> QED
      BY <3>1, <3>2, <3>4
  <2> QED
    BY <2>1, <2>2 DEF PassedAnswersAll
<1> QED
  BY <1>1, PlanInvHolds, AnswerInvHolds, CheckInvHolds, PTL

(* An honest proof time is judged as the difference of the two clocks says. *)
LEMMA HonestTimeIsJudged ==
  ASSUME NEW p, NEW secs \in Int, NEW now \in Int, NEW entries, TimeDefect(p, entries) = None,
         Has(entries, "proof_time"), Find(entries, "proof_time") = Tag(0, Text(Render(secs)))
  PROVE  /\ Render(secs) # None
         /\ CheckTolerance(Render(secs), now, Skew, MaxAge) = "ok" <=> secs \in (now - MaxAge)..(now + Skew)
<1> DEFINE text == Render(secs)
           time == Tag(0, Text(text))
<1>1. time.number = 0 /\ time.inner = Text(text) /\ time.inner.text = text /\ time.cbor = "tag" /\ time.inner.cbor = "text"
  BY DEF Tag, Text
<1>2. secs \in 0..MaxSecs
  <2> SUFFICES ASSUME secs \notin 0..MaxSecs PROVE FALSE
    OBVIOUS
  <2>1. text = NotTheForm
    BY DEF Render
  <2>2. IsWrong(Parse(text))
    BY <2>1 DEF Parse, IsWrong, Wrong
  <2> QED
    BY <1>1, <2>2, NoneIsNoDefect DEF TimeDefect, TdateDefect, IsA
<1>3. text \in Seq(Int) /\ Parse(text) = Seconds(secs)
  BY Zenon, <1>2, RenderedIsRead
<1> HIDE DEF text
<1>4. text # None
  BY <1>3, NoneIsNoTime
<1>5. ~ IsWrong(Parse(text)) /\ Parse(text).secs = secs
  BY <1>3 DEF IsWrong, Seconds
<1>6. secs \in (MinInt + 1)..(MaxInt - 1) /\ Skew \in Int /\ MaxAge \in Int
  BY SMT, <1>2, MaxSecsIsANumber, ClocksAreNumbers, IntsAreOrdered
<1>7. CheckTolerance(text, now, Skew, MaxAge) = "ok" <=> now - MaxAge <= secs /\ secs <= now + Skew
  BY Zenon, <1>5, <1>6, CheckIsExact
<1> QED
  BY <1>4, <1>6, <1>7 DEF text

(* An answer nobody altered passes the check of its times exactly while it is *)
(* fresh, whatever the clocks, their difference and the delays.               *)
THEOREM FreshIsVerified == Spec => FreshProofsOnly
<1>1. PlanInv /\ AnswerInv /\ CheckInv /\ [Next]_vars =>
        [phase = "shaped" /\ phase' # "shaped" /\ altered = {} =>
           (phase' = "verified") = (proved + request.drift \in (clock - MaxAge)..(clock + Skew))]_vars
  <2> SUFFICES ASSUME PlanInv, AnswerInv, CheckInv, [Next]_vars,
                      phase = "shaped", phase' # "shaped", altered = {}
               PROVE  (phase' = "verified") = (proved + request.drift \in (clock - MaxAge)..(clock + Skew))
    OBVIOUS
  <2> DEFINE arrived == PresentationsOf(plan, token)
             secs == proved + request.drift
             time == Tag(0, Text(Render(secs)))
  <2>1. phase' = IF \A i \in DOMAIN accepted : Timely(accepted[i]) THEN "verified" ELSE "stale"
    BY DEF Next, PlanRequest, Decline, Prove, Alter, Deliver, Tick, RefuseEnvelope, CheckPresentation, AcceptShape,
           CheckTimes, Done, Judging, vars
  <2>2. secs \in Int /\ clock \in Int /\ proved \in Int
    BY RequestsAreReadable DEF PlanInv, AnswerInv, Answered
  <2>3. /\ IsPlan(plan) /\ IsToken(token) /\ EnvelopeDefect(plan, token) = None
        /\ DOMAIN accepted = DOMAIN arrived
        /\ \A i \in DOMAIN arrived :
             PresentationDefect(plan, arrived[i]) = None /\ accepted[i] = Decoded(plan, arrived[i])
    BY AllWereChecked DEF Shaped
  <2>4. PICK n \in Nat, id \in SystemsToUse : n >= 1 /\ token = HonestAnswer(n, id, proved)
    BY ClocksAreNumbers DEF AnswerInv, Answered
  <2>5. /\ DOMAIN token.members = {1} /\ DOMAIN token.members[1][2].items = 1..n
        /\ \A i \in 1..n : token.members[1][2].items[i] = HonestPresentation(id, proved)
    BY <2>3, <2>4, HonestAnswerIsReadable
  <2>6. DOMAIN arrived = 1..n /\ \A i \in 1..n : arrived[i] = HonestPresentation(id, proved)
    <3>1. \E m \in DOMAIN token.members : arrived = token.members[m][2].items
      BY ZenonT(30), <2>3, EnvelopeIsGood
    <3> HIDE DEF arrived
    <3> QED
      BY <2>5, <3>1
  <2> HIDE DEF arrived
  <2>7. /\ IsElement(HonestPresentation(id, proved))
        /\ Has(HonestPresentation(id, proved).decoded.entries, "proof_time")
        /\ Find(HonestPresentation(id, proved).decoded.entries, "proof_time") = time
    BY <2>3, HonestIsReadable DEF MemberNames
  <2>8. \A i \in 1..n : /\ PresentationDefect(plan, HonestPresentation(id, proved)) = None
                        /\ accepted[i] = Decoded(plan, HonestPresentation(id, proved))
    BY <2>3, <2>6
  <2>9. 1 \in 1..n /\ DOMAIN accepted = 1..n
    BY <2>3, <2>4, <2>6
  <2>10. TimeDefect(plan, HonestPresentation(id, proved).decoded.entries) = None
    BY <2>7, <2>8, <2>9, PresentationIsGood
  <2> HIDE DEF secs
  <2>11. /\ Render(secs) # None
         /\ CheckTolerance(Render(secs), clock, Skew, MaxAge) = "ok" <=> secs \in (clock - MaxAge)..(clock + Skew)
    BY <2>2, <2>7, <2>10, HonestTimeIsJudged
  <2>12. Decoded(plan, HonestPresentation(id, proved)).proof_time = Render(secs)
    <3>1. time.inner.text = Render(secs)
      BY DEF Tag, Text
    <3> HIDE DEF time
    <3> QED
      BY <2>7, <2>11, <3>1 DEF Decoded
  <2>13. \A i \in DOMAIN accepted : Timely(accepted[i]) <=> secs \in (clock - MaxAge)..(clock + Skew)
    BY <2>8, <2>9, <2>11, <2>12 DEF Timely
  <2> QED
    BY <2>1, <2>9, <2>13 DEF secs
<1> QED
  BY <1>1, PlanInvHolds, AnswerInvHolds, CheckInvHolds, PTL DEF Spec, FreshProofsOnly

-----------------------------------------------------------------------------
(* The days from one date to another, and the difference of their numbers. *)

YearStart(y) == 365 * y + (y \div 4) - (y \div 100) + (y \div 400)

(* A year from March to February has 365 days or more, and the year with a    *)
(* day 365, counted from zero, has one more.                                  *)
LEMMA YearsAreApart ==
  ASSUME NEW y \in Int, NEW z \in Int, y < z
  PROVE  /\ YearStart(z) >= YearStart(y) + 365
         /\ Leap(y + 1) => YearStart(z) >= YearStart(y) + 366
<1>1. YearStart(y + 1) >= YearStart(y) + 365 /\ (Leap(y + 1) => YearStart(y + 1) >= YearStart(y) + 366)
  BY SMT DEF YearStart, Leap
<1>2. YearStart(z) >= YearStart(y + 1)
  <2> DEFINE a == y + 1
  <2>1. a \in Int /\ a <= z
    BY SMT
  <2>2. \A n \in {4, 400} : a \div n <= z \div n
    BY SMT, <2>1
  <2>3. (z \div 100) - (a \div 100) <= z - a
    BY SMT, <2>1
  <2>4. a \div 4 \in Int /\ z \div 4 \in Int /\ a \div 100 \in Int /\ z \div 100 \in Int /\ a \div 400 \in Int
        /\ z \div 400 \in Int
    BY SMT, <2>1
  <2> HIDE DEF a
  <2>5. YearStart(z) >= YearStart(a)
    BY SMT, <2>1, <2>2, <2>3, <2>4 DEF YearStart
  <2> QED
    BY <2>5 DEF a
<1>3. YearStart(y) \in Int /\ YearStart(y + 1) \in Int /\ YearStart(z) \in Int
  BY SMT DEF YearStart
<1> QED
  BY SMT, <1>1, <1>2, <1>3

(* From the first of March of the year 0 to the epoch, and the day of it. *)
ToEpoch == 719469
MarchYear(y, mm) == IF mm <= 2 THEN y - 1 ELSE y
MarchMonth(mm) == (mm + 9) % 12
MonthStart(k) == (153 * k + 2) \div 5

LEMMA DayFromMarch ==
  ASSUME NEW y \in Int, NEW mm \in 1..12, NEW d \in 1..MonthDays(y, mm)
  PROVE  /\ DaysFromCivil(<<y, mm, d>>) = YearStart(MarchYear(y, mm)) + MonthStart(MarchMonth(mm)) + d - ToEpoch
         /\ MarchYear(y, mm) \in Int /\ MarchMonth(mm) \in 0..11 /\ d \in 1..31
         /\ 12 * MarchYear(y, mm) + MarchMonth(mm) = 12 * y + mm - 3
         /\ MonthStart(MarchMonth(mm)) + d <= MonthStart(MarchMonth(mm) + 1)
         /\ MonthStart(MarchMonth(mm)) + d <= 366
         /\ MonthStart(MarchMonth(mm)) + d = 366 => Leap(MarchYear(y, mm) + 1)
<1>1. MarchYear(y, mm) \in Int /\ MarchMonth(mm) \in 0..11 /\ d \in 1..31
  BY SMT DEF MarchYear, MarchMonth, MonthDays, Leap
<1>2. 12 * MarchYear(y, mm) + MarchMonth(mm) = 12 * y + mm - 3
  BY SMT DEF MarchYear, MarchMonth
<1>3. MonthStart(MarchMonth(mm)) + d <= MonthStart(MarchMonth(mm) + 1)
  BY SMT DEF MarchMonth, MonthDays, Leap, MonthStart
<1>4. MonthStart(MarchMonth(mm)) + d <= 366
  BY SMT DEF MarchMonth, MonthDays, Leap, MonthStart
<1>5. MonthStart(MarchMonth(mm)) + d = 366 => mm = 2 /\ d = 29
  BY SMT DEF MarchMonth, MonthDays, Leap, MonthStart
<1>6. mm = 2 /\ d = 29 => Leap(MarchYear(y, mm) + 1)
  BY SMT DEF MarchYear, MonthDays, Leap
<1>7. DaysFromCivil(<<y, mm, d>>) = YearStart(MarchYear(y, mm)) + MonthStart(MarchMonth(mm)) + d - ToEpoch
  <2> DEFINE yy == MarchYear(y, mm)
             month == MonthStart(MarchMonth(mm))
  <2>1. DaysFromCivil(<<y, mm, d>>) =
          (yy \div 400) * 146097 + (yy % 400) * 365 + ((yy % 400) \div 4) - ((yy % 400) \div 100)
            + (month + d - 1) - 719468
    BY SMT DEF DaysFromCivil, MarchYear, MarchMonth, MonthStart
  <2>2. yy \in Int /\ month \in Int /\ d \in Int /\ YearStart(yy) \in Int
    BY SMT, <1>1 DEF MonthStart, YearStart
  <2> HIDE DEF yy, month
  <2> DEFINE days == (yy \div 400) * 146097 + (yy % 400) * 365 + ((yy % 400) \div 4) - ((yy % 400) \div 100)
  <2>3. YearStart(yy) = days
    BY SMTT(60), <2>2 DEF YearStart
  <2>4. DaysFromCivil(<<y, mm, d>>) = days + (month + d - 1) - 719468
    BY <2>1
  <2> HIDE DEF days
  <2>5. DaysFromCivil(<<y, mm, d>>) = YearStart(yy) + month + d - ToEpoch
    BY SMT, <2>2, <2>3, <2>4 DEF ToEpoch
  <2> QED
    BY <2>5 DEF yy, month
<1> QED
  BY <1>1, <1>2, <1>3, <1>4, <1>5, <1>6, <1>7

LEMMA OrderOfDates ==
  ASSUME NEW y \in Int, NEW mm \in Int, NEW d \in Int, NEW z \in Int, NEW k \in Int, NEW e \in Int
  PROVE  StandsBefore(<<y, mm, d>>, <<z, k, e>>) <=>
           y < z \/ (y = z /\ mm < k) \/ (y = z /\ mm = k /\ d < e)
<1> DEFINE a == <<y, mm, d>>
           b == <<z, k, e>>
<1>1. a[1] = y /\ a[2] = mm /\ a[3] = d /\ b[1] = z /\ b[2] = k /\ b[3] = e
  OBVIOUS
<1> HIDE DEF a, b
<1>2. 1..0 = {} /\ 1..1 = {1} /\ 1..2 = {1, 2} /\ 1..3 = {1, 2, 3} /\ 1 - 1 = 0 /\ 2 - 1 = 1 /\ 3 - 1 = 2
  BY SMT
<1>3. StandsBefore(a, b) <=>
        \/ a[1] < b[1] /\ \A j \in 1..0 : a[j] = b[j]
        \/ a[2] < b[2] /\ \A j \in 1..1 : a[j] = b[j]
        \/ a[3] < b[3] /\ \A j \in 1..2 : a[j] = b[j]
  BY <1>2 DEF StandsBefore
<1>4. StandsBefore(a, b) <=> y < z \/ (y = z /\ mm < k) \/ (y = z /\ mm = k /\ d < e)
  BY <1>1, <1>2, <1>3
<1> QED
  BY <1>4 DEF a, b

(* A date before another has the smaller number. *)
LEMMA NumbersAreInOrder ==
  ASSUME NEW y \in Int, NEW mm \in 1..12, NEW d \in 1..MonthDays(y, mm),
         NEW z \in Int, NEW k \in 1..12, NEW e \in 1..MonthDays(z, k),
         StandsBefore(<<y, mm, d>>, <<z, k, e>>)
  PROVE  DaysFromCivil(<<y, mm, d>>) < DaysFromCivil(<<z, k, e>>)
<1> DEFINE yy == MarchYear(y, mm)
           ym == MarchMonth(mm)
           zz == MarchYear(z, k)
           zm == MarchMonth(k)
<1>1. /\ DaysFromCivil(<<y, mm, d>>) = YearStart(yy) + MonthStart(ym) + d - ToEpoch
      /\ yy \in Int /\ ym \in 0..11 /\ d \in 1..31 /\ 12 * yy + ym = 12 * y + mm - 3
  BY ZenonT(40), DayFromMarch
<1>1a. /\ MonthStart(ym) + d <= MonthStart(ym + 1) /\ MonthStart(ym) + d <= 366
       /\ MonthStart(ym) + d = 366 => Leap(yy + 1)
  BY ZenonT(40), DayFromMarch
<1>2. /\ DaysFromCivil(<<z, k, e>>) = YearStart(zz) + MonthStart(zm) + e - ToEpoch
      /\ zz \in Int /\ zm \in 0..11 /\ e \in 1..31 /\ 12 * zz + zm = 12 * z + k - 3
  BY ZenonT(40), DayFromMarch
<1>3. y < z \/ (y = z /\ mm < k) \/ (y = z /\ mm = k /\ d < e)
  BY SMT, <1>1, <1>2, OrderOfDates
<1>4. \A n \in 0..12 : MonthStart(n) \in Int /\ MonthStart(n) >= 0
  BY SMT DEF MonthStart
<1>5. \A n \in Int : YearStart(n) \in Int
  BY SMT DEF YearStart
<1>6. y = z /\ mm = k => yy = zz /\ ym = zm
  OBVIOUS
<1> HIDE DEF yy, ym, zz, zm
<1>7. yy < zz \/ (yy = zz /\ ym < zm) \/ (yy = zz /\ ym = zm /\ d < e)
  BY SMT, <1>1, <1>2, <1>3, <1>6
<1>8. YearStart(yy) + MonthStart(ym) + d < YearStart(zz) + MonthStart(zm) + e
  <2>1. /\ YearStart(yy) \in Int /\ YearStart(zz) \in Int /\ MonthStart(ym) \in Int /\ MonthStart(zm) \in Int
        /\ MonthStart(zm) >= 0 /\ MonthStart(ym + 1) \in Int
    BY SMT, <1>1, <1>2, <1>4, <1>5
  <2>2. CASE yy < zz
    <3>1. YearStart(zz) >= YearStart(yy) + 365 /\ (Leap(yy + 1) => YearStart(zz) >= YearStart(yy) + 366)
      BY SMT, <1>1, <1>2, <2>2, YearsAreApart
    <3> QED
      BY SMT, <1>1, <1>2, <1>1a, <2>1, <3>1
  <2>3. CASE yy = zz /\ ym < zm
    <3>1. MonthStart(ym + 1) <= MonthStart(zm)
      BY SMT, <1>1, <1>2, <2>3 DEF MonthStart
    <3> QED
      BY SMT, <1>1, <1>2, <1>1a, <2>1, <2>3, <3>1
  <2>4. CASE yy = zz /\ ym = zm /\ d < e
    BY SMT, <1>1, <1>2, <1>1a, <2>1, <2>4
  <2> QED
    BY <1>7, <2>2, <2>3, <2>4
<1>9. /\ ToEpoch \in Int /\ YearStart(yy) + MonthStart(ym) \in Int /\ YearStart(zz) + MonthStart(zm) \in Int
  BY SMT, <1>1, <1>2, <1>4, <1>5 DEF ToEpoch
<1> QED
  BY SMT, <1>1, <1>2, <1>8, <1>9

LEMMA OnTheCalendar ==
  ASSUME NEW a \in Int \X Int \X Int, IsDay(a)
  PROVE  \E y \in Int, mm \in 1..12 : \E d \in 1..MonthDays(y, mm) : a = <<y, mm, d>> /\ d \in 1..31
<1>1. PICK y \in Int, mm \in Int, d \in Int : a = <<y, mm, d>>
  BY SMT
<1>2. mm \in 1..12 /\ d \in 1..MonthDays(y, mm) /\ d \in 1..31
  BY SMT, <1>1 DEF IsDay, MonthDays
<1> QED
  BY <1>1, <1>2

LEMMA NotAfterIsOrder ==
  ASSUME NEW a \in Int \X Int \X Int, IsDay(a), NEW b \in Int \X Int \X Int, IsDay(b)
  PROVE  /\ DaysFromCivil(a) \in Int /\ DaysFromCivil(b) \in Int
         /\ NotAfter(a, b) <=> DaysFromCivil(a) <= DaysFromCivil(b)
         /\ DaysFromCivil(a) = DaysFromCivil(b) => a = b
<1>1. PICK y \in Int, mm \in 1..12 : \E d \in 1..MonthDays(y, mm) : a = <<y, mm, d>> /\ d \in 1..31
  BY OnTheCalendar
<1>2. PICK d \in 1..MonthDays(y, mm) : a = <<y, mm, d>> /\ d \in 1..31
  BY <1>1
<1>3. PICK z \in Int, k \in 1..12 : \E e \in 1..MonthDays(z, k) : b = <<z, k, e>> /\ e \in 1..31
  BY OnTheCalendar
<1>4. PICK e \in 1..MonthDays(z, k) : b = <<z, k, e>> /\ e \in 1..31
  BY <1>3
<1>5. DaysFromCivil(a) \in Int /\ DaysFromCivil(b) \in Int
  BY SMT DEF DaysFromCivil
<1>6. StandsBefore(a, b) => DaysFromCivil(a) < DaysFromCivil(b)
  BY Zenon, <1>2, <1>4, NumbersAreInOrder
<1>7. StandsBefore(b, a) => DaysFromCivil(b) < DaysFromCivil(a)
  BY Zenon, <1>2, <1>4, NumbersAreInOrder
<1>8. StandsBefore(a, b) \/ StandsBefore(b, a) \/ a = b
  <2>1. /\ StandsBefore(<<y, mm, d>>, <<z, k, e>>) <=> y < z \/ (y = z /\ mm < k) \/ (y = z /\ mm = k /\ d < e)
        /\ StandsBefore(<<z, k, e>>, <<y, mm, d>>) <=> z < y \/ (z = y /\ k < mm) \/ (z = y /\ k = mm /\ e < d)
    BY <1>2, <1>4, OrderOfDates
  <2> QED
    BY <1>2, <1>4, <2>1
<1> QED
  BY <1>5, <1>6, <1>7, <1>8 DEF NotAfter

LEMMA DaysWithinAreNumbered ==
  ASSUME NEW from \in Int \X Int \X Int, IsDay(from), NEW to \in Int \X Int \X Int, IsDay(to)
  PROVE  DaysWithin(from, to) = IF DaysFromCivil(from) > DaysFromCivil(to) THEN 0
                                ELSE DaysFromCivil(to) - DaysFromCivil(from) + 1
<1> DEFINE a == DaysFromCivil(from)
           b == DaysFromCivil(to)
           days == {e \in (from[1]..to[1]) \X (1..12) \X (1..31) :
                      IsDay(e) /\ NotAfter(from, e) /\ NotAfter(e, to)}
           g == [n \in a..b |-> CivilFromDays(n)]
<1>1. a \in Int /\ b \in Int
  BY Zenon, NotAfterIsOrder
<1>2. from[1] \in Int /\ to[1] \in Int
  BY SMT
<1> HIDE DEF a, b
<1>3. ASSUME NEW n \in a..b PROVE CivilFromDays(n) \in days /\ DaysFromCivil(CivilFromDays(n)) = n
  <2> DEFINE civil == CivilFromDays(n)
  <2>1. n \in Int /\ a <= n /\ n <= b
    BY SMT, <1>1, <1>3
  <2>2. civil \in Int \X Int \X Int /\ IsDay(civil) /\ DaysFromCivil(civil) = n
    BY Zenon, <2>1, DaysAreInverse
  <2> HIDE DEF civil
  <2>3. NotAfter(from, civil) /\ NotAfter(civil, to)
    BY Zenon, <2>1, <2>2, NotAfterIsOrder DEF a, b
  <2>4. PICK y \in Int, mm \in 1..12 : \E d \in 1..MonthDays(y, mm) : civil = <<y, mm, d>> /\ d \in 1..31
    BY Zenon, <2>2, OnTheCalendar
  <2>5. PICK d \in 1..31 : civil = <<y, mm, d>>
    BY Zenon, <2>4
  <2>6. y \in from[1]..to[1]
    <3>1. PICK f1 \in Int, f2 \in Int, f3 \in Int : from = <<f1, f2, f3>>
      BY SMT
    <3>2. PICK t1 \in Int, t2 \in Int, t3 \in Int : to = <<t1, t2, t3>>
      BY SMT
    <3>3. mm \in Int /\ d \in Int
      BY SMT
    <3>4. ~ StandsBefore(<<y, mm, d>>, <<f1, f2, f3>>) /\ ~ StandsBefore(<<t1, t2, t3>>, <<y, mm, d>>)
      BY Zenon, <2>3, <2>5, <3>1, <3>2 DEF NotAfter
    <3>5. StandsBefore(<<y, mm, d>>, <<f1, f2, f3>>) <=> y < f1 \/ (y = f1 /\ mm < f2) \/ (y = f1 /\ mm = f2 /\ d < f3)
      BY ONLY SMTT(40), <3>3, y \in Int, f1 \in Int, f2 \in Int, f3 \in Int, OrderOfDates
    <3>6. StandsBefore(<<t1, t2, t3>>, <<y, mm, d>>) <=> t1 < y \/ (t1 = y /\ t2 < mm) \/ (t1 = y /\ t2 = mm /\ t3 < d)
      BY ONLY SMTT(40), <3>3, y \in Int, t1 \in Int, t2 \in Int, t3 \in Int, OrderOfDates
    <3>7. from[1] = f1 /\ to[1] = t1
      BY <3>1, <3>2
    <3>8. ~ (y < f1) /\ ~ (t1 < y)
      BY Zenon, <3>4, <3>5, <3>6
    <3> QED
      BY SMT, <3>7, <3>8
  <2>7. civil \in (from[1]..to[1]) \X (1..12) \X (1..31)
    BY SMT, <2>5, <2>6
  <2>8. civil \in days
    BY <2>2, <2>3, <2>7
  <2> HIDE DEF days
  <2> QED
    BY <2>2, <2>8 DEF civil
<1>4. ASSUME NEW e \in days PROVE \E n \in a..b : CivilFromDays(n) = e
  <2>1. e \in Int \X Int \X Int /\ IsDay(e) /\ NotAfter(from, e) /\ NotAfter(e, to)
    BY SMT, <1>2
  <2> HIDE DEF days
  <2>2. /\ DaysFromCivil(e) \in Int /\ a <= DaysFromCivil(e) /\ DaysFromCivil(e) <= b
    BY Zenon, <2>1, NotAfterIsOrder DEF a, b
  <2>3. DaysFromCivil(e) \in a..b
    BY SMT, <1>1, <2>2
  <2>4. CivilFromDays(DaysFromCivil(e)) = e
    <3>1. /\ CivilFromDays(DaysFromCivil(e)) \in Int \X Int \X Int
          /\ IsDay(CivilFromDays(DaysFromCivil(e)))
          /\ DaysFromCivil(CivilFromDays(DaysFromCivil(e))) = DaysFromCivil(e)
      BY Zenon, <2>2, DaysAreInverse
    <3> QED
      BY Zenon, <2>1, <3>1, NotAfterIsOrder
  <2> QED
    BY Zenon, <2>3, <2>4
<1> HIDE DEF days
<1>5. g \in [a..b -> days] /\ \A n \in a..b : g[n] = CivilFromDays(n)
  BY Zenon, <1>3
<1> HIDE DEF g
<1>6. \A m, n \in a..b : g[m] = g[n] => m = n
  BY Zenon, <1>3, <1>5
<1>7. \A e \in days : \E n \in a..b : g[n] = e
  BY Zenon, <1>4, <1>5
<1>8. ExistsBijection(a..b, days)
  <2>1. g \in Injection(a..b, days)
    BY <1>5, <1>6 DEF Injection, IsInjective
  <2>2. g \in Surjection(a..b, days)
    BY <1>5, <1>7 DEF Surjection
  <2> QED
    BY <2>1, <2>2 DEF ExistsBijection, Bijection
<1>9. IsFiniteSet(a..b) /\ Cardinality(a..b) = IF a > b THEN 0 ELSE b - a + 1
  BY <1>1, FS_Interval
<1>10. Cardinality(days) = Cardinality(a..b)
  BY <1>8, <1>9, FS_Bijection
<1> QED
  BY Zenon, <1>9, <1>10 DEF DaysWithin, days, a, b

(* A range of two bounds is declined for its width exactly if it is narrower  *)
(* than the shortest year, counted on the calendar, whatever its dates.       *)
THEOREM NarrowIsDeclined == Spec => []NarrowRangesAreDeclined
<1>1. PlanInv => NarrowRangesAreDeclined
  <2> SUFFICES ASSUME PlanInv, ~ Unplanned, NEW i \in DOMAIN plan.functions,
                      plan.functions[i].function_id = "age_check",
                      {"ge", "le"} \subseteq DOMAIN plan.functions[i].params
               PROVE  LET verdictOf == FunctionRule(plan, i)
                          params == plan.functions[i].params
                          days == DaysWithin(DateOf[params["ge"].text], DateOf[params["le"].text])
                      IN /\ verdictOf = None => days >= 365
                         /\ verdictOf = "age_check_span_too_short" => days \in 1..364
                         /\ verdictOf = "age_check_inverted" => days = 0
    BY DEF NarrowRangesAreDeclined, PlanInv
  <2> DEFINE params == plan.functions[i].params
             ge == params["ge"].text
             le == params["le"].text
             a == DaysFromCivil(DateOf[ge])
             b == DaysFromCivil(DateOf[le])
             days == DaysWithin(DateOf[ge], DateOf[le])
             verdictOf == FunctionRule(plan, i)
  <2>1. DatedBounds(plan.functions[i])
    BY PlanIsThere DEF IsPlan
  <2>2. /\ ge # None /\ DateOf[ge] \in Int \X Int \X Int /\ IsDay(DateOf[ge])
        /\ le # None /\ DateOf[le] \in Int \X Int \X Int /\ IsDay(DateOf[le])
    BY <2>1 DEF DatedBounds
  <2>3. days = IF a > b THEN 0 ELSE b - a + 1
    BY Zenon, <2>2, DaysWithinAreNumbered
  <2>4. a \in Int /\ b \in Int
    BY Zenon, <2>2, NotAfterIsOrder
  <2>5. AgeRule(params) = IF b - a < 0 THEN "age_check_inverted"
                          ELSE IF b - a + 1 < 365 THEN "age_check_span_too_short" ELSE None
    <3>1. ParamText(params, "ge") = ge /\ ParamText(params, "le") = le
      BY DEF ParamText
    <3> HIDE DEF params, ge, le
    <3> QED
      BY SMT, <2>2, <3>1 DEF AgeRule
  <2>6. verdictOf = "age_check_repeated" \/ verdictOf = AgeRule(params)
    <3>1. "age_check" \in DOMAIN Declared
      BY DEF Declared
    <3> QED
      BY SMT, <3>1 DEF FunctionRule
  <2> HIDE DEF a, b, days, verdictOf
  <2>7. /\ verdictOf = None => days >= 365
        /\ verdictOf = "age_check_span_too_short" => days \in 1..364
        /\ verdictOf = "age_check_inverted" => days = 0
    BY SMT, <2>3, <2>4, <2>5, <2>6, NoneIsNoCode
  <2> QED
    BY <2>7 DEF days, verdictOf
<1> QED
  BY <1>1, PlanInvHolds, PTL

-----------------------------------------------------------------------------
(* A map as what is under each key: nothing, or one item. *)

Under(entries, key) == {entries[i][2] : i \in {j \in DOMAIN entries : entries[j][1] = key}}
The(items) == CHOOSE item : item \in items
Brought(item) == IF item = Gone THEN {} ELSE {item}

(* What is under a key that is there. *)
LEMMA UnderKey ==
  ASSUME NEW entries, IsMap(entries), NEW i \in DOMAIN entries
  PROVE  Under(entries, entries[i][1]) = {entries[i][2]}
<1>1. \A j \in DOMAIN entries : entries[j][1] = entries[i][1] => j = i
  BY DEF IsMap
<1> QED
  BY <1>1 DEF Under

(* And what Has and Find say of it. *)
LEMMA UnderName ==
  ASSUME NEW entries, IsMap(entries), NEW name
  PROVE  /\ Has(entries, name) <=> Under(entries, Text(name)) # {}
         /\ Has(entries, name) => Under(entries, Text(name)) = {Find(entries, name)}
<1>1. ASSUME Has(entries, name) PROVE Under(entries, Text(name)) = {Find(entries, name)}
  <2>1. PICK i \in DOMAIN entries : entries[i][1] = Text(name) /\ entries[i][2] = Find(entries, name)
    BY <1>1, FindIsThere
  <2> QED
    BY <2>1, UnderKey
<1>2. ASSUME Under(entries, Text(name)) # {} PROVE Has(entries, name)
  <2>1. PICK i \in DOMAIN entries : entries[i][1] = Text(name)
    BY <1>2 DEF Under
  <2> QED
    BY <2>1, FindIsThere
<1> QED
  BY <1>1, <1>2

(* Every item but those under the key is still there. *)
LEMMA WithoutTakes ==
  ASSUME NEW entries, IsMap(entries), NEW key, NEW i \in DOMAIN entries, entries[i][1] # key
  PROVE  \E j \in DOMAIN Without(entries, key) : Without(entries, key)[j] = entries[i]
<1> DEFINE places == {j \in DOMAIN entries : entries[j][1] = key}
           p == FirstIndex(places)
           rest == [j \in 1..(Len(entries) - 1) |-> entries[IF j < p THEN j ELSE j + 1]]
<1>1. /\ DOMAIN entries = 1..Len(entries) /\ Len(entries) \in Nat
      /\ \A j, k \in DOMAIN entries : entries[j][1] = entries[k][1] => j = k
  BY DEF IsMap, IsSequence
<1>2. Without(entries, key) = IF places = {} THEN entries ELSE rest
  BY DEF Without
<1>3. CASE places = {}
  BY <1>2, <1>3
<1>4. CASE places # {}
  <2>1. p \in DOMAIN entries /\ entries[p][1] = key
    <3>1. places \in SUBSET Nat
      BY <1>1
    <3>2. p \in places
      BY <1>4, <3>1, FirstIsFirst
    <3> QED
      BY <3>2
  <2> HIDE DEF p
  <2>2. i # p
    BY <2>1
  <2> DEFINE j == IF i < p THEN i ELSE i - 1
  <2>3. j \in 1..(Len(entries) - 1) /\ (IF j < p THEN j ELSE j + 1) = i
    BY <1>1, <2>1, <2>2
  <2>4. rest[j] = entries[i] /\ j \in DOMAIN rest
    <3> HIDE DEF j
    <3> QED
      BY <2>3
  <2> QED
    BY <1>2, <1>4, <2>4
<1> QED
  BY <1>3, <1>4

(* What taking a key away and putting one there leave under each key. *)
LEMMA UnderWithout ==
  ASSUME NEW entries, IsMap(entries), NEW key, NEW other
  PROVE  Under(Without(entries, key), other) = IF other = key THEN {} ELSE Under(entries, other)
<1> DEFINE rest == Without(entries, key)
<1>1. \A i \in DOMAIN rest : rest[i][1] # key /\ \E j \in DOMAIN entries : rest[i] = entries[j]
  BY WithoutKeeps
<1>2. \A i \in DOMAIN entries : entries[i][1] # key => \E j \in DOMAIN rest : rest[j] = entries[i]
  BY WithoutTakes
<1> HIDE DEF rest
<1>3. CASE other = key
  BY <1>1, <1>3 DEF Under, rest
<1>4. CASE other # key
  <2>1. Under(rest, other) \subseteq Under(entries, other)
    BY <1>1 DEF Under
  <2>2. Under(entries, other) \subseteq Under(rest, other)
    BY <1>2, <1>4 DEF Under
  <2> QED
    BY <1>4, <2>1, <2>2 DEF rest
<1> QED
  BY <1>3, <1>4

LEMMA UnderPut ==
  ASSUME NEW entries, IsMap(entries), NEW key, IsItem(key), NEW item, IsItem(item), NEW other
  PROVE  Under(Put(entries, key, item), other) = IF other = key THEN {item} ELSE Under(entries, other)
<1> DEFINE rest == Without(entries, key)
           longer == Put(entries, key, item)
           n == Len(rest)
<1>1. /\ DOMAIN longer = 1..(n + 1) /\ longer[n + 1] = <<key, item>> /\ n + 1 \in DOMAIN longer
      /\ \A i \in DOMAIN longer : i # n + 1 => i \in DOMAIN rest /\ longer[i] = rest[i]
      /\ \A i \in DOMAIN rest : i \in DOMAIN longer /\ longer[i] = rest[i]
  <2>1. DOMAIN rest = 1..n /\ n \in Nat
    BY WithoutKeeps DEF IsMap, IsSequence
  <2>2. /\ DOMAIN longer = 1..(n + 1)
        /\ \A i \in DOMAIN longer :
             IF i = n + 1 THEN longer[i] = <<key, item>> ELSE i \in DOMAIN rest /\ longer[i] = rest[i]
    BY PutKeeps
  <2> HIDE DEF rest, longer
  <2> QED
    BY <2>1, <2>2
<1>2. \A i \in DOMAIN rest : rest[i][1] # key
  BY WithoutKeeps
<1>3. Under(rest, other) = IF other = key THEN {} ELSE Under(entries, other)
  BY UnderWithout
<1> HIDE DEF rest, longer
<1>4. CASE other = key
  <2>1. \A i \in DOMAIN longer : longer[i][1] = key <=> i = n + 1
    BY <1>1, <1>2
  <2>2. {i \in DOMAIN longer : longer[i][1] = other} = {n + 1} /\ longer[n + 1][2] = item
    BY <1>1, <1>4, <2>1
  <2>3. Under(longer, other) = {longer[i][2] : i \in {n + 1}}
    BY <2>2 DEF Under
  <2> QED
    BY <1>4, <2>2, <2>3 DEF longer
<1>5. CASE other # key
  <2>1. longer[n + 1][1] = key
    BY <1>1
  <2>2. Under(longer, other) \subseteq Under(rest, other)
    BY <1>1, <1>5, <2>1 DEF Under
  <2>3. Under(rest, other) \subseteq Under(longer, other)
    BY <1>1 DEF Under
  <2> QED
    BY <1>3, <1>5, <2>2, <2>3 DEF longer
<1> QED
  BY <1>4, <1>5

LEMMA UnderPutOrTake ==
  ASSUME NEW entries, IsMap(entries), NEW key, IsItem(key), NEW item, item = Gone \/ IsItem(item), NEW other
  PROVE  Under(PutOrTake(entries, key, item), other) = IF other = key THEN Brought(item) ELSE Under(entries, other)
<1>1. CASE item = Gone
  <2>1. PutOrTake(entries, key, item) = Without(entries, key) /\ Brought(item) = {}
    BY <1>1 DEF PutOrTake, Brought
  <2> QED
    BY <2>1, UnderWithout
<1>2. CASE item # Gone
  <2>1. PutOrTake(entries, key, item) = Put(entries, key, item) /\ Brought(item) = {item}
    BY <1>2 DEF PutOrTake, Brought
  <2>2. IsItem(item)
    BY <1>2
  <2> QED
    BY <2>1, <2>2, UnderPut
<1> QED
  BY <1>1, <1>2

-----------------------------------------------------------------------------
(* Each code has one place in the documented order. *)
LEMMA RankIs ==
  ASSUME NEW r \in 1..16, NEW code \in DocumentedOrder[r]
  PROVE  Rank(code) = r
<1>1. DOMAIN DocumentedOrder = 1..16
  BY DEF DocumentedOrder
<1>2. ASSUME NEW s \in 1..16, code \in DocumentedOrder[s] PROVE s = r
  BY SMTT(60), <1>2 DEF DocumentedOrder
<1> QED
  BY <1>1, <1>2 DEF Rank

(* The place of a key among the functions asked, 0 if it is the handle of none. *)
AskedAt(p, key) ==
  LET asked == {f \in DOMAIN p.functions : key = Text(p.functions[f].handle)}
  IN IF asked = {} THEN 0 ELSE FirstIndex(asked)

(* A handle names one function. *)
LEMMA AskedIs ==
  ASSUME NEW p, IsPlan(p), NEW key
  PROVE  /\ \A f \in DOMAIN p.functions : key = Text(p.functions[f].handle) => AskedAt(p, key) = f
         /\ (\A f \in DOMAIN p.functions : key # Text(p.functions[f].handle)) => AskedAt(p, key) = 0
         /\ AskedAt(p, key) \in Nat
<1> DEFINE asked == {f \in DOMAIN p.functions : key = Text(p.functions[f].handle)}
<1>1. asked \in SUBSET Nat
  BY DEF IsPlan
<1>2. ASSUME NEW f \in DOMAIN p.functions, key = Text(p.functions[f].handle) PROVE asked = {f}
  <2>1. ASSUME NEW g \in DOMAIN p.functions, key = Text(p.functions[g].handle) PROVE g = f
    <3>1. p.functions[g].handle = p.functions[f].handle
      BY <1>2, <2>1 DEF Text
    <3> QED
      BY <3>1 DEF IsPlan
  <2> QED
    BY <1>2, <2>1
<1>3. asked # {} => FirstIndex(asked) \in asked
  BY <1>1, FirstIsFirst
<1>4. AskedAt(p, key) = IF asked = {} THEN 0 ELSE FirstIndex(asked)
  BY DEF AskedAt
<1>5. (\A f \in DOMAIN p.functions : key # Text(p.functions[f].handle)) => asked = {}
  OBVIOUS
<1>6. AskedAt(p, key) \in Nat
  <2>1. CASE asked = {}
    BY <1>4, <2>1
  <2>2. CASE asked # {}
    <3>1. FirstIndex(asked) \in Nat
      BY <1>1, <1>3, <2>2
    <3> QED
      BY <1>4, <2>2, <3>1
  <2> QED
    BY <2>1, <2>2
<1>7. \A f \in DOMAIN p.functions : key = Text(p.functions[f].handle) => AskedAt(p, key) = f
  <2> SUFFICES ASSUME NEW f \in DOMAIN p.functions, key = Text(p.functions[f].handle) PROVE AskedAt(p, key) = f
    OBVIOUS
  <2>1. asked = {f}
    BY <1>2
  <2> HIDE DEF asked
  <2> QED
    BY <1>3, <1>4, <2>1
<1> QED
  BY <1>4, <1>5, <1>6, <1>7

-----------------------------------------------------------------------------
(* The results, key by key. *)

(* What is wrong with what is under a key. *)
ResultCode(p, key, items) ==
  IF ~ IsA(key, "text") THEN IF items = {} THEN None ELSE "result_key_not_text"
  ELSE IF key.text \notin Handles(p) THEN IF items = {} THEN None ELSE "result_handle_unexpected"
  ELSE IF items = {} THEN "result_handle_missing"
  ELSE ValueDefect(p.functions[AskedAt(p, key)], The(items))

(* A rule stands before another, of two functions the one asked first. *)
Sooner(rank, asked, other, otherAsked) == rank < other \/ (rank = other /\ asked < otherAsked)

(* Where the rules about the results stand. *)
LEMMA ValueRank ==
  ASSUME NEW function, NEW value, ValueDefect(function, value) # None
  PROVE  Rank(ValueDefect(function, value)) = 16
<1>1. ValueDefect(function, value) \in
        {"result_function_unknown", "pseudonym_prf_unknown", "result_wrong_type", "result_not_satisfied",
         "pseudonym_wrong_length"}
  BY DEF ValueDefect
<1>2. ValueDefect(function, value) \in DocumentedOrder[16]
  BY <1>1 DEF DocumentedOrder
<1> QED
  BY <1>2, RankIs

ResultRankAt(p, key, items) ==
  IF ~ IsA(key, "text") THEN 13 ELSE IF key.text \notin Handles(p) THEN 14 ELSE IF items = {} THEN 15 ELSE 16

LEMMA ResultRank ==
  ASSUME NEW p, NEW key, NEW items, ResultCode(p, key, items) # None
  PROVE  Rank(ResultCode(p, key, items)) = ResultRankAt(p, key, items)
<1>1. /\ "result_key_not_text" \in DocumentedOrder[13]
      /\ "result_handle_unexpected" \in DocumentedOrder[14]
      /\ "result_handle_missing" \in DocumentedOrder[15]
  BY DEF DocumentedOrder
<1>2. /\ Rank("result_key_not_text") = 13 /\ Rank("result_handle_unexpected") = 14
      /\ Rank("result_handle_missing") = 15
  BY <1>1, RankIs
<1> QED
  BY <1>2, ValueRank DEF ResultCode, ResultRankAt

(* The handles and the functions they are of. *)
LEMMA HandleIs ==
  ASSUME NEW p, IsPlan(p), NEW key, IsItem(key), IsA(key, "text")
  PROVE  /\ key = Text(key.text)
         /\ key.text \in Handles(p) =>
              /\ AskedAt(p, key) \in DOMAIN p.functions
              /\ p.functions[AskedAt(p, key)].handle = key.text
         /\ key.text \notin Handles(p) => AskedAt(p, key) = 0
<1>1. key = Text(key.text)
  BY DEF IsItem, IsA
<1>2. ASSUME key.text \in Handles(p)
      PROVE  /\ AskedAt(p, key) \in DOMAIN p.functions
             /\ p.functions[AskedAt(p, key)].handle = key.text
  <2>1. PICK f \in DOMAIN p.functions : key.text = p.functions[f].handle
    BY <1>2 DEF Handles
  <2>2. AskedAt(p, key) = f
    BY <1>1, <2>1, AskedIs
  <2> QED
    BY <2>1, <2>2
<1>3. ASSUME key.text \notin Handles(p) PROVE AskedAt(p, key) = 0
  <2>1. ASSUME NEW f \in DOMAIN p.functions PROVE key # Text(p.functions[f].handle)
    <3>1. p.functions[f].handle \in Handles(p)
      BY DEF Handles
    <3>2. Text(p.functions[f].handle).text = p.functions[f].handle
      BY DEF Text
    <3> QED
      BY <1>3, <3>1, <3>2
  <2> QED
    BY <2>1, AskedIs
<1> QED
  BY <1>1, <1>2, <1>3

(* What the check of the results says is what is wrong under the key that is  *)
(* first in the documented order.                                             *)
LEMMA ResultsByParts ==
  ASSUME NEW p, IsPlan(p), NEW results, IsMap(results)
  PROVE  LET defect == ResultsDefect(p, results)
         IN /\ defect = None => \A key : IsItem(key) => ResultCode(p, key, Under(results, key)) = None
            /\ defect # None =>
                 \E key : /\ IsItem(key) /\ ResultCode(p, key, Under(results, key)) = defect
                          /\ \A other : IsItem(other) /\ ResultCode(p, other, Under(results, other)) # None =>
                               ~ Sooner(Rank(ResultCode(p, other, Under(results, other))), AskedAt(p, other),
                                        Rank(defect), AskedAt(p, key))
<1> DEFINE defect == ResultsDefect(p, results)
           Code(key) == ResultCode(p, key, Under(results, key))
           RankAt(key) == ResultRankAt(p, key, Under(results, key))
           ValueOf(function) == ValueDefect(function, Find(results, function.handle))
           missing == {f \in DOMAIN p.functions : ~ Has(results, p.functions[f].handle)}
           broken == {f \in DOMAIN p.functions : ValueOf(p.functions[f]) # None}
           Untexted == \E i \in DOMAIN results : ~ IsA(results[i][1], "text")
           Unexpected == \E i \in DOMAIN results : results[i][1].text \notin Handles(p)
<1>1. ASSUME NEW key, Code(key) # None PROVE Rank(Code(key)) = RankAt(key)
  BY <1>1, ResultRank
<1>2. /\ missing \in SUBSET Nat /\ broken \in SUBSET Nat /\ DOMAIN p.functions \subseteq Nat \ {0}
      /\ \A i \in DOMAIN results : IsItem(results[i][1]) /\ Under(results, results[i][1]) # {}
  <2>1. DOMAIN p.functions \subseteq Nat \ {0}
    BY DEF IsPlan
  <2>2. \A i \in DOMAIN results : IsItem(results[i][1]) /\ Under(results, results[i][1]) # {}
    BY UnderKey DEF IsMap
  <2> QED
    BY <2>1, <2>2
<1>3. ASSUME NEW key, Under(results, key) # {} PROVE \E i \in DOMAIN results : results[i][1] = key
  BY <1>3 DEF Under
<1>4. ASSUME ~ Untexted, NEW key, ~ IsA(key, "text") PROVE Code(key) = None
  BY <1>3, <1>4 DEF ResultCode
<1>5. ASSUME ~ Unexpected, NEW key, IsA(key, "text"), key.text \notin Handles(p) PROVE Code(key) = None
  BY <1>3, <1>5 DEF ResultCode
<1>6. ASSUME NEW f \in DOMAIN p.functions
      PROVE  /\ AskedAt(p, Text(p.functions[f].handle)) = f
             /\ IsItem(Text(p.functions[f].handle)) /\ IsA(Text(p.functions[f].handle), "text")
             /\ Text(p.functions[f].handle).text = p.functions[f].handle /\ p.functions[f].handle \in Handles(p)
             /\ f \in missing <=> Under(results, Text(p.functions[f].handle)) = {}
             /\ f \in missing => Code(Text(p.functions[f].handle)) = "result_handle_missing"
             /\ f \notin missing => Code(Text(p.functions[f].handle)) = ValueOf(p.functions[f])
  <2>1. AskedAt(p, Text(p.functions[f].handle)) = f
    BY AskedIs
  <2>2. /\ IsItem(Text(p.functions[f].handle)) /\ IsA(Text(p.functions[f].handle), "text")
        /\ Text(p.functions[f].handle).text = p.functions[f].handle /\ p.functions[f].handle \in Handles(p)
    BY DEF IsItem, IsA, Text, Handles
  <2>3. /\ f \in missing <=> Under(results, Text(p.functions[f].handle)) = {}
        /\ f \notin missing =>
             Under(results, Text(p.functions[f].handle)) = {Find(results, p.functions[f].handle)}
    BY UnderName
  <2>4. \A item : The({item}) = item
    BY DEF The
  <2>5. f \in missing => Code(Text(p.functions[f].handle)) = "result_handle_missing"
    BY <2>2, <2>3 DEF ResultCode
  <2>6. f \notin missing => Code(Text(p.functions[f].handle)) = ValueOf(p.functions[f])
    BY <2>1, <2>2, <2>3, <2>4 DEF ResultCode
  <2> QED
    BY <2>1, <2>2, <2>3, <2>5, <2>6
<1>7. ASSUME NEW key, IsItem(key), IsA(key, "text"), key.text \in Handles(p)
      PROVE  AskedAt(p, key) \in DOMAIN p.functions /\ key = Text(p.functions[AskedAt(p, key)].handle)
  BY <1>7, HandleIs
<1>8. ASSUME NEW key, IsItem(key), ~ IsA(key, "text") \/ key.text \notin Handles(p) PROVE AskedAt(p, key) = 0
  <2>1. CASE IsA(key, "text")
    BY <1>8, <2>1, HandleIs
  <2>2. CASE ~ IsA(key, "text")
    BY <2>2, AskedIs DEF Text, IsA
  <2> QED
    BY <2>1, <2>2
<1>9. \A key : AskedAt(p, key) \in Nat
  BY AskedIs
<1>10. /\ Untexted => defect = "result_key_not_text"
       /\ ~ Untexted /\ Unexpected => defect = "result_handle_unexpected"
       /\ ~ Untexted /\ ~ Unexpected /\ missing # {} => defect = "result_handle_missing"
       /\ ~ Untexted /\ ~ Unexpected /\ missing = {} /\ broken = {} => defect = None
       /\ ~ Untexted /\ ~ Unexpected /\ missing = {} /\ broken # {} =>
            defect = ValueOf(p.functions[FirstIndex(broken)])
  <2>1. missing # {} <=> \E handle \in Handles(p) : ~ Has(results, handle)
    BY DEF Handles
  <2>2. /\ broken = {} => FirstDefect(p.functions, ValueOf) = None
        /\ broken # {} => FirstDefect(p.functions, ValueOf) = ValueOf(p.functions[FirstIndex(broken)])
    BY DEF FirstDefect
  <2>3. defect = IF Untexted THEN "result_key_not_text" ELSE IF Unexpected THEN "result_handle_unexpected"
                 ELSE IF \E handle \in Handles(p) : ~ Has(results, handle) THEN "result_handle_missing"
                 ELSE FirstDefect(p.functions, ValueOf)
    BY DEF ResultsDefect
  <2> HIDE DEF defect, missing, broken, Untexted, Unexpected
  <2> QED
    BY <2>1, <2>2, <2>3
<1>11. \A key : IsItem(key) /\ Code(key) # None =>
         RankAt(key) \in 13..16 /\ (RankAt(key) \in {13, 14} => AskedAt(p, key) = 0)
  BY <1>8 DEF ResultRankAt
<1> DEFINE First(key) == \A other : IsItem(other) /\ Code(other) # None =>
                           ~ Sooner(Rank(Code(other)), AskedAt(p, other), Rank(defect), AskedAt(p, key))
<1> HIDE DEF defect
<1>12. CASE Untexted
  <2>1. PICK i \in DOMAIN results : ~ IsA(results[i][1], "text")
    BY <1>12
  <2> DEFINE key == results[i][1]
  <2>2. IsItem(key) /\ Code(key) = defect /\ RankAt(key) = 13 /\ defect # None
    BY <1>2, <1>10, <1>12, <2>1, NoneIsNoDefect DEF ResultCode, ResultRankAt
  <2> HIDE DEF key, Code, RankAt
  <2>3. First(key)
    BY <1>1, <1>9, <1>11, <2>2 DEF Sooner
  <2> QED
    BY <2>2, <2>3 DEF defect, Code
<1>13. CASE ~ Untexted /\ Unexpected
  <2>1. PICK i \in DOMAIN results : results[i][1].text \notin Handles(p) /\ IsA(results[i][1], "text")
    BY <1>13
  <2> DEFINE key == results[i][1]
  <2>2. IsItem(key) /\ Code(key) = defect /\ RankAt(key) = 14 /\ defect # None
    BY <1>2, <1>10, <1>13, <2>1, NoneIsNoDefect DEF ResultCode, ResultRankAt
  <2>3. \A other : Code(other) # None => RankAt(other) # 13
    BY <1>4, <1>13 DEF ResultRankAt
  <2> HIDE DEF key, Code, RankAt
  <2>4. First(key)
    BY <1>1, <1>9, <1>11, <2>2, <2>3 DEF Sooner
  <2> QED
    BY <2>2, <2>4 DEF defect, Code
<1>14. CASE ~ Untexted /\ ~ Unexpected /\ missing # {}
  <2> DEFINE f == FirstIndex(missing)
             key == Text(p.functions[f].handle)
  <2>1. f \in missing /\ f \in DOMAIN p.functions /\ \A g \in missing : f <= g
    <3>1. f \in missing /\ \A g \in missing : f <= g
      BY <1>2, <1>14, FirstIsFirst
    <3> QED
      BY <3>1
  <2> HIDE DEF f
  <2>2. IsItem(key) /\ Code(key) = defect /\ RankAt(key) = 15 /\ defect # None /\ AskedAt(p, key) = f
    BY <1>6, <1>10, <1>14, <2>1, NoneIsNoDefect DEF ResultRankAt
  <2>3. ASSUME NEW other, IsItem(other), Code(other) # None
        PROVE  RankAt(other) \in 15..16 /\ (RankAt(other) = 15 => AskedAt(p, other) >= f)
    <3>1. IsA(other, "text") /\ other.text \in Handles(p)
      BY <1>4, <1>5, <1>14, <2>3
    <3>2. RankAt(other) = IF Under(results, other) = {} THEN 15 ELSE 16
      BY <3>1 DEF ResultRankAt
    <3>3. AskedAt(p, other) \in DOMAIN p.functions /\ other = Text(p.functions[AskedAt(p, other)].handle)
      BY <1>7, <2>3, <3>1
    <3>4. Under(results, other) = {} => AskedAt(p, other) \in missing
      BY <1>6, <3>3
    <3> HIDE DEF missing, RankAt
    <3> QED
      BY <1>2, <2>1, <3>2, <3>4
  <2> HIDE DEF key, Code, RankAt
  <2>4. First(key)
    BY <1>1, <1>2, <1>9, <2>1, <2>2, <2>3 DEF Sooner
  <2> QED
    BY <2>2, <2>4 DEF defect, Code
<1>15. CASE ~ Untexted /\ ~ Unexpected /\ missing = {}
  <2>1. ASSUME NEW other, IsItem(other), Code(other) # None
        PROVE  RankAt(other) = 16 /\ AskedAt(p, other) \in broken
    <3>1. IsA(other, "text") /\ other.text \in Handles(p)
      BY <1>4, <1>5, <1>15, <2>1
    <3>2. AskedAt(p, other) \in DOMAIN p.functions /\ other = Text(p.functions[AskedAt(p, other)].handle)
      BY <1>7, <2>1, <3>1
    <3>3. Under(results, other) # {} /\ Code(other) = ValueOf(p.functions[AskedAt(p, other)])
      BY <1>6, <1>15, <3>2
    <3> QED
      BY <2>1, <3>1, <3>2, <3>3 DEF ResultRankAt
  <2>2. CASE broken = {}
    <3>1. defect = None
      BY <1>10, <1>15, <2>2
    <3> QED
      BY <2>1, <2>2, <3>1 DEF defect
  <2>3. CASE broken # {}
    <3> DEFINE f == FirstIndex(broken)
               key == Text(p.functions[f].handle)
    <3>1. f \in broken /\ f \in DOMAIN p.functions /\ \A g \in broken : f <= g
      <4>1. f \in broken /\ \A g \in broken : f <= g
        BY <1>2, <2>3, FirstIsFirst
      <4> QED
        BY <4>1
    <3>2. defect = ValueOf(p.functions[f])
      BY <1>10, <1>15, <2>3
    <3> HIDE DEF f
    <3>3. IsItem(key) /\ Code(key) = defect /\ defect # None /\ AskedAt(p, key) = f
      BY <1>6, <1>15, <3>1, <3>2
    <3>4. RankAt(key) = 16
      BY <2>1, <3>3
    <3> HIDE DEF key, Code, RankAt, broken
    <3>5. First(key)
      BY <1>1, <1>2, <1>9, <2>1, <3>1, <3>3, <3>4 DEF Sooner
    <3> QED
      BY <3>3, <3>5 DEF defect, Code
  <2> QED
    BY <2>2, <2>3
<1> QED
  BY <1>12, <1>13, <1>14, <1>15

-----------------------------------------------------------------------------
(* A presentation, member by member. *)

(* What is wrong with a member of the right type. *)
MemberDefect(p, name, item) ==
  IF name = "system_id" THEN IF Offered(p, item.text) THEN None ELSE "system_id_not_offered"
  ELSE IF name = "proof" THEN IF item.len = 0 THEN "proof_empty" ELSE None
  ELSE IF name = "issuer_key_set" THEN KeySetDefect(item.items)
  ELSE ResultsDefect(p, item.entries)

(* What is wrong with what is under a key. *)
MemberCode(p, key, items) ==
  IF ~ IsA(key, "text") THEN IF items = {} THEN None ELSE "presentation_key_not_text"
  ELSE IF key.text \notin MemberNames THEN IF items = {} THEN None ELSE "presentation_unknown_member"
  ELSE IF key.text = "proof_time"
  THEN IF items # {} THEN TdateDefect(The(items))
       ELSE IF p.source_format = "mso_mdoc" THEN "proof_time_missing" ELSE None
  ELSE IF items = {} THEN "presentation_member_missing"
  ELSE IF ~ IsA(The(items), KindOf[key.text]) THEN "presentation_member_wrong_type"
  ELSE MemberDefect(p, key.text, The(items))

(* Where the rules about the key set and the results stand. *)
LEMMA KeySetRank ==
  ASSUME NEW keys, KeySetDefect(keys) # None
  PROVE  Rank(KeySetDefect(keys)) = 11
<1>1. \A key : KeyDefect(key) # None => KeyDefect(key) \in DocumentedOrder[11]
  BY DEF KeyDefect, DocumentedOrder
<1>2. FirstDefect(keys, KeyDefect) # None => FirstDefect(keys, KeyDefect) \in DocumentedOrder[11]
  BY <1>1 DEF FirstDefect
<1>3. "issuer_key_set_empty" \in DocumentedOrder[11] /\ "issuer_key_set_too_many" \in DocumentedOrder[11]
  BY DEF DocumentedOrder
<1>4. KeySetDefect(keys) \in DocumentedOrder[11]
  BY <1>2, <1>3 DEF KeySetDefect
<1> QED
  BY <1>4, RankIs

LEMMA ResultsRank ==
  ASSUME NEW p, IsPlan(p), NEW results, IsMap(results), ResultsDefect(p, results) # None
  PROVE  Rank(ResultsDefect(p, results)) \in 13..16
<1>1. PICK key : ResultCode(p, key, Under(results, key)) = ResultsDefect(p, results)
  BY ResultsByParts
<1>2. Rank(ResultsDefect(p, results)) = ResultRankAt(p, key, Under(results, key))
  BY <1>1, ResultRank
<1> QED
  BY <1>2 DEF ResultRankAt

(* Where the rules about a key stand. *)
LEMMA MemberRank ==
  ASSUME NEW p, IsPlan(p), NEW key, NEW items, MemberCode(p, key, items) # None,
         items # {} /\ IsA(The(items), "map") => IsMap(The(items).entries)
  PROVE  LET rank == Rank(MemberCode(p, key, items))
         IN /\ rank \in 5..16
            /\ ~ IsA(key, "text") => rank = 5 /\ items # {}
            /\ IsA(key, "text") =>
                 /\ key.text \notin MemberNames => rank = 6 /\ items # {}
                 /\ key.text = "proof_time" => rank = 12
                 /\ key.text \in DOMAIN KindOf =>
                      /\ items = {} => rank = 7
                      /\ items # {} /\ ~ IsA(The(items), KindOf[key.text]) => rank = 8
                      /\ items # {} /\ IsA(The(items), KindOf[key.text]) =>
                           /\ key.text = "system_id" => rank = 9
                           /\ key.text = "proof" => rank = 10
                           /\ key.text = "issuer_key_set" => rank = 11
                           /\ key.text = "results" => rank \in 13..16
<1> DEFINE code == MemberCode(p, key, items)
           item == The(items)
<1>1. /\ "presentation_key_not_text" \in DocumentedOrder[5] /\ "presentation_unknown_member" \in DocumentedOrder[6]
      /\ "presentation_member_missing" \in DocumentedOrder[7]
      /\ "presentation_member_wrong_type" \in DocumentedOrder[8]
      /\ "system_id_not_offered" \in DocumentedOrder[9] /\ "proof_empty" \in DocumentedOrder[10]
      /\ \A code12 \in {"proof_time_missing", "proof_time_not_tdate", "proof_time_form"} :
           code12 \in DocumentedOrder[12]
  BY DEF DocumentedOrder
<1>2. /\ Rank("presentation_key_not_text") = 5 /\ Rank("presentation_unknown_member") = 6
      /\ Rank("presentation_member_missing") = 7 /\ Rank("presentation_member_wrong_type") = 8
      /\ Rank("system_id_not_offered") = 9 /\ Rank("proof_empty") = 10
  BY <1>1, RankIs
<1>3. MemberNames = DOMAIN KindOf \cup {"proof_time"} /\ "proof_time" \notin DOMAIN KindOf
      /\ DOMAIN KindOf = {"system_id", "proof", "issuer_key_set", "results"}
  BY DEF MemberNames, KindOf
<1>4. CASE ~ IsA(key, "text")
  BY <1>2, <1>4 DEF MemberCode
<1>5. CASE IsA(key, "text") /\ key.text \notin MemberNames
  BY <1>2, <1>3, <1>5 DEF MemberCode
<1>6. CASE IsA(key, "text") /\ key.text = "proof_time"
  <2>1. code \in {"proof_time_missing", "proof_time_not_tdate", "proof_time_form"}
    BY <1>3, <1>6 DEF MemberCode, TdateDefect
  <2>2. Rank(code) = 12
    BY <1>1, <2>1, RankIs
  <2> QED
    BY <1>3, <1>6, <2>2
<1>7. CASE IsA(key, "text") /\ key.text \in DOMAIN KindOf
  <2>1. key.text \in MemberNames /\ key.text # "proof_time"
    BY <1>3, <1>7
  <2>2. CASE items = {}
    BY <1>2, <1>7, <2>1, <2>2 DEF MemberCode
  <2>3. CASE items # {} /\ ~ IsA(item, KindOf[key.text])
    BY <1>2, <1>7, <2>1, <2>3 DEF MemberCode
  <2>4. CASE items # {} /\ IsA(item, KindOf[key.text])
    <3>1. code = MemberDefect(p, key.text, item)
      BY <1>7, <2>1, <2>4 DEF MemberCode
    <3>2. CASE key.text = "results"
      <4>1. IsMap(item.entries)
        BY <2>4, <3>2 DEF KindOf
      <4>2. code = ResultsDefect(p, item.entries)
        BY <3>1, <3>2 DEF MemberDefect
      <4>3. Rank(code) \in 13..16
        BY <4>1, <4>2, ResultsRank
      <4> QED
        BY <1>7, <2>1, <2>4, <3>2, <4>3
    <3>3. CASE key.text = "issuer_key_set"
      <4>1. code = KeySetDefect(item.items)
        BY <3>1, <3>3 DEF MemberDefect
      <4>2. Rank(code) = 11
        BY <4>1, KeySetRank
      <4> QED
        BY <1>7, <2>1, <2>4, <3>3, <4>2
    <3>4. CASE key.text = "system_id"
      BY <1>2, <1>7, <2>1, <2>4, <3>1, <3>4 DEF MemberDefect
    <3>5. CASE key.text = "proof"
      BY <1>2, <1>7, <2>1, <2>4, <3>1, <3>5 DEF MemberDefect
    <3> QED
      BY <1>3, <1>7, <3>2, <3>3, <3>4, <3>5
  <2> QED
    BY <2>2, <2>3, <2>4
<1> QED
  BY <1>3, <1>4, <1>5, <1>6, <1>7

(* What the check of a presentation says is what is wrong under the key that  *)
(* is first in the documented order.                                          *)
LEMMA PresentationByParts ==
  ASSUME NEW p, IsPlan(p), NEW element, IsElement(element), IsPresentation(element)
  PROVE  LET entries == element.decoded.entries
             defect == PresentationDefect(p, element)
         IN /\ IsDeepMap(entries)
            /\ defect = None => \A key : IsItem(key) => MemberCode(p, key, Under(entries, key)) = None
            /\ defect # None =>
                 \E key : /\ IsItem(key) /\ MemberCode(p, key, Under(entries, key)) = defect
                          /\ Rank(defect) \in 5..16
                          /\ \A other : IsItem(other) /\ MemberCode(p, other, Under(entries, other)) # None =>
                               Rank(defect) <= Rank(MemberCode(p, other, Under(entries, other)))
<1> DEFINE entries == element.decoded.entries
           defect == PresentationDefect(p, element)
           Code(key) == MemberCode(p, key, Under(entries, key))
           Untexted == \E i \in DOMAIN entries : ~ IsA(entries[i][1], "text")
           Unknown == \E i \in DOMAIN entries : entries[i][1].text \notin MemberNames
           Missing == \E name \in DOMAIN KindOf : ~ Has(entries, name)
           Mistyped == \E name \in DOMAIN KindOf : ~ IsA(Find(entries, name), KindOf[name])
           Of(name) == Find(entries, name)
           Late == KeySetDefect(Of("issuer_key_set").items)
<1>1. IsDeepMap(entries)
  BY DEF IsElement, IsPresentation
<1>2. defect = IF Untexted THEN "presentation_key_not_text" ELSE IF Unknown THEN "presentation_unknown_member"
               ELSE IF Missing THEN "presentation_member_missing"
               ELSE IF Mistyped THEN "presentation_member_wrong_type" ELSE ContentDefect(p, entries)
  BY NoneIsNoDefect DEF PresentationDefect, IsPresentation, MembersDefect
<1>3. ContentDefect(p, entries) =
        IF ~ Offered(p, Of("system_id").text) THEN "system_id_not_offered"
        ELSE IF Of("proof").len = 0 THEN "proof_empty"
        ELSE IF Late # None THEN Late
        ELSE IF TimeDefect(p, entries) # None THEN TimeDefect(p, entries)
        ELSE ResultsDefect(p, Of("results").entries)
  BY DEF ContentDefect
<1> HIDE DEF entries, defect, Late
<1>4. IsMap(entries)
  BY <1>1 DEF IsDeepMap
<1>5. \A i \in DOMAIN entries : IsItem(entries[i][1]) /\ Under(entries, entries[i][1]) = {entries[i][2]}
  BY <1>4, UnderKey DEF IsMap
<1>6. ASSUME NEW key, Under(entries, key) # {}
      PROVE  /\ \E i \in DOMAIN entries : entries[i][1] = key /\ Under(entries, key) = {entries[i][2]}
             /\ IsA(The(Under(entries, key)), "map") => IsMap(The(Under(entries, key)).entries)
  <2>1. PICK i \in DOMAIN entries : entries[i][1] = key
    BY <1>6 DEF Under
  <2>2. Under(entries, key) = {entries[i][2]} /\ The({entries[i][2]}) = entries[i][2]
    BY <1>5, <2>1 DEF The
  <2>3. IsA(entries[i][2], "map") => IsMap(entries[i][2].entries)
    BY <1>1 DEF IsDeepMap
  <2> QED
    BY <2>1, <2>2, <2>3
<1>7. ASSUME ~ Untexted, NEW key, ~ IsA(key, "text") PROVE Code(key) = None
  BY <1>6, <1>7 DEF MemberCode
<1>8. ASSUME ~ Unknown, NEW key, IsA(key, "text"), key.text \notin MemberNames PROVE Code(key) = None
  BY <1>6, <1>8 DEF MemberCode
<1>9. ASSUME NEW name
      PROVE  /\ IsItem(Text(name)) /\ IsA(Text(name), "text") /\ Text(name).text = name
             /\ Has(entries, name) <=> Under(entries, Text(name)) # {}
             /\ Has(entries, name) => The(Under(entries, Text(name))) = Of(name)
  <2>1. \A item : The({item}) = item
    BY DEF The
  <2> QED
    BY <1>4, <2>1, UnderName DEF IsItem, IsA, Text
<1>10. ASSUME NEW key, IsItem(key), IsA(key, "text") PROVE key = Text(key.text)
  BY <1>10 DEF IsItem, IsA
<1>11. MemberNames = DOMAIN KindOf \cup {"proof_time"} /\ "proof_time" \notin DOMAIN KindOf
       /\ DOMAIN KindOf = {"system_id", "proof", "issuer_key_set", "results"}
  BY DEF MemberNames, KindOf
<1>12. ASSUME NEW name \in DOMAIN KindOf
       PROVE  Code(Text(name)) =
                IF ~ Has(entries, name) THEN "presentation_member_missing"
                ELSE IF ~ IsA(Of(name), KindOf[name]) THEN "presentation_member_wrong_type"
                ELSE MemberDefect(p, name, Of(name))
  <2>1. name \in MemberNames /\ name # "proof_time"
    BY <1>11
  <2> QED
    BY <1>9, <2>1 DEF MemberCode
<1>13. Code(Text("proof_time")) = TimeDefect(p, entries)
  BY <1>9, <1>11 DEF MemberCode, TimeDefect
<1>14. ASSUME NEW key, IsItem(key), Code(key) # None
       PROVE  /\ Rank(Code(key)) \in 5..16
              /\ ~ IsA(key, "text") => Rank(Code(key)) = 5 /\ Untexted
              /\ IsA(key, "text") /\ key.text \notin MemberNames => Rank(Code(key)) = 6 /\ Unknown
              /\ IsA(key, "text") /\ key.text \in MemberNames =>
                   key = Text("proof_time") \/ \E name \in DOMAIN KindOf : key = Text(name)
  <2>1. /\ Rank(Code(key)) \in 5..16
        /\ ~ IsA(key, "text") => Rank(Code(key)) = 5
        /\ IsA(key, "text") /\ key.text \notin MemberNames => Rank(Code(key)) = 6
    BY <1>6, <1>14, MemberRank
  <2>2. ~ IsA(key, "text") => Untexted
    BY <1>7, <1>14
  <2>3. IsA(key, "text") /\ key.text \notin MemberNames => Unknown
    BY <1>8, <1>14
  <2>4. IsA(key, "text") => key = Text(key.text)
    BY <1>10, <1>14
  <2> HIDE DEF Code, Untexted, Unknown
  <2> QED
    BY <1>11, <2>1, <2>2, <2>3, <2>4
<1>15. Code(Text("proof_time")) # None => Rank(Code(Text("proof_time"))) = 12
  BY <1>6, <1>9, MemberRank
<1>16. ASSUME NEW name \in DOMAIN KindOf, Code(Text(name)) # None
       PROVE  LET rank == Rank(Code(Text(name)))
              IN /\ ~ Has(entries, name) => rank = 7
                 /\ Has(entries, name) /\ ~ IsA(Of(name), KindOf[name]) => rank = 8
                 /\ Has(entries, name) /\ IsA(Of(name), KindOf[name]) =>
                      /\ name = "system_id" => rank = 9
                      /\ name = "proof" => rank = 10
                      /\ name = "issuer_key_set" => rank = 11
                      /\ name = "results" => rank \in 13..16
  BY <1>6, <1>9, <1>16, MemberRank
<1> DEFINE Least(key) == \A other : IsItem(other) /\ Code(other) # None => Rank(defect) <= Rank(Code(other))
           Shown == /\ defect = None => \A key : IsItem(key) => Code(key) = None
                    /\ defect # None => \E key : /\ IsItem(key) /\ Code(key) = defect
                                                 /\ Rank(defect) \in 5..16 /\ Least(key)
<1>17. ASSUME NEW key, IsItem(key), Code(key) = defect, defect # None, Rank(defect) \in 5..16, Least(key)
       PROVE  Shown
  BY <1>17
<1>18. SUFFICES Shown
  BY <1>1 DEF entries, defect
<1>19. CASE Untexted
  <2>1. PICK i \in DOMAIN entries : ~ IsA(entries[i][1], "text")
    BY <1>19
  <2> DEFINE key == entries[i][1]
  <2>2. IsItem(key) /\ Code(key) = defect /\ defect # None
    BY <1>2, <1>5, <1>19, <2>1, NoneIsNoDefect DEF MemberCode
  <2>3. Rank(defect) = 5
    BY <1>14, <2>1, <2>2
  <2> HIDE DEF key, Code
  <2>4. Least(key)
    BY <1>14, <2>3
  <2> QED
    BY <1>17, <2>2, <2>3, <2>4
<1>20. CASE ~ Untexted /\ Unknown
  <2>1. PICK i \in DOMAIN entries : IsA(entries[i][1], "text") /\ entries[i][1].text \notin MemberNames
    BY <1>20
  <2> DEFINE key == entries[i][1]
  <2>2. IsItem(key) /\ Code(key) = defect /\ defect # None
    BY <1>2, <1>5, <1>20, <2>1, NoneIsNoDefect DEF MemberCode
  <2>3. Rank(defect) = 6
    BY <1>14, <2>1, <2>2
  <2> HIDE DEF key, Code, Untexted, Unknown
  <2>4. ASSUME NEW other, IsItem(other), Code(other) # None PROVE 6 <= Rank(Code(other))
    <3>1. IsA(other, "text") /\ (other.text \notin MemberNames => Rank(Code(other)) = 6)
      BY <1>14, <1>20, <2>4
    <3>2. CASE other.text \in MemberNames
      <4>1. Rank(Code(other)) = 12 \/ \E name \in DOMAIN KindOf : other = Text(name)
        BY <1>14, <1>15, <2>4, <3>1, <3>2
      <4> QED
        BY <1>11, <1>16, <2>4, <4>1
    <3> QED
      BY <3>1, <3>2
  <2> QED
    BY <1>17, <2>2, <2>3, <2>4
<1>21. ASSUME ~ Untexted, ~ Unknown, NEW other, IsItem(other), Code(other) # None
       PROVE  \/ other = Text("proof_time") /\ Rank(Code(other)) = 12
              \/ \E name \in DOMAIN KindOf : other = Text(name)
  <2> HIDE DEF Untexted, Unknown, Code
  <2> QED
    BY <1>14, <1>15, <1>21
<1>22. CASE ~ Untexted /\ ~ Unknown /\ Missing
  <2>1. PICK name \in DOMAIN KindOf : ~ Has(entries, name)
    BY <1>22
  <2> DEFINE key == Text(name)
  <2>2. IsItem(key) /\ Code(key) = defect /\ defect # None
    BY <1>2, <1>9, <1>12, <1>22, <2>1, NoneIsNoDefect
  <2>3. Rank(defect) = 7
    BY <1>16, <2>1, <2>2
  <2> HIDE DEF key, Code, Untexted, Unknown
  <2>4. ASSUME NEW other, IsItem(other), Code(other) # None PROVE 7 <= Rank(Code(other))
    BY <1>11, <1>16, <1>21, <1>22, <2>4
  <2> QED
    BY <1>17, <2>2, <2>3, <2>4
<1>23. CASE ~ Untexted /\ ~ Unknown /\ ~ Missing /\ Mistyped
  <2>1. PICK name \in DOMAIN KindOf : Has(entries, name) /\ ~ IsA(Of(name), KindOf[name])
    BY <1>23
  <2> DEFINE key == Text(name)
  <2>2. IsItem(key) /\ Code(key) = defect /\ defect # None
    BY <1>2, <1>9, <1>12, <1>23, <2>1, NoneIsNoDefect
  <2>3. Rank(defect) = 8
    BY <1>16, <2>1, <2>2
  <2>4. \A other \in DOMAIN KindOf : Has(entries, other)
    BY <1>23
  <2> HIDE DEF key, Code, Untexted, Unknown, Missing, Mistyped
  <2>5. ASSUME NEW other, IsItem(other), Code(other) # None PROVE 8 <= Rank(Code(other))
    BY <1>11, <1>16, <1>21, <1>23, <2>4, <2>5
  <2> QED
    BY <1>17, <2>2, <2>3, <2>5
<1>24. CASE ~ Untexted /\ ~ Unknown /\ ~ Missing /\ ~ Mistyped
  <2>1. \A name \in DOMAIN KindOf : Has(entries, name) /\ IsA(Of(name), KindOf[name])
    BY <1>24
  <2>2. /\ IsItem(Text("proof_time")) /\ Code(Text("proof_time")) = TimeDefect(p, entries)
        /\ \A name \in DOMAIN KindOf : IsItem(Text(name)) /\ Code(Text(name)) = MemberDefect(p, name, Of(name))
    BY <1>9, <1>12, <1>13, <2>1
  <2> DEFINE code(name) == Code(Text(name))
  <2>3. /\ code("system_id") = IF Offered(p, Of("system_id").text) THEN None ELSE "system_id_not_offered"
        /\ code("proof") = IF Of("proof").len = 0 THEN "proof_empty" ELSE None
        /\ code("issuer_key_set") = Late
        /\ code("results") = ResultsDefect(p, Of("results").entries)
        /\ code("proof_time") = TimeDefect(p, entries)
    BY <1>11, <2>2 DEF MemberDefect, Late
  <2>4. defect = IF code("system_id") # None THEN code("system_id")
                 ELSE IF code("proof") # None THEN code("proof")
                 ELSE IF code("issuer_key_set") # None THEN code("issuer_key_set")
                 ELSE IF code("proof_time") # None THEN code("proof_time") ELSE code("results")
    <3>1. defect = ContentDefect(p, entries)
      BY <1>2, <1>24
    <3> HIDE DEF Code
    <3> QED
      BY <1>3, <2>3, <3>1, NoneIsNoDefect
  <2>5. /\ code("system_id") # None => Rank(code("system_id")) = 9
        /\ code("proof") # None => Rank(code("proof")) = 10
        /\ code("issuer_key_set") # None => Rank(code("issuer_key_set")) = 11
        /\ code("proof_time") # None => Rank(code("proof_time")) = 12
        /\ code("results") # None => Rank(code("results")) \in 13..16
    <3> HIDE DEF Code
    <3> QED
      BY <1>11, <1>15, <1>16, <2>1
  <2>6. ASSUME NEW other, IsItem(other), Code(other) # None
        PROVE  \E name \in MemberNames : other = Text(name)
    <3> HIDE DEF Code, Untexted, Unknown, Missing, Mistyped
    <3> QED
      BY <1>11, <1>21, <1>24, <2>6
  <2>7. MemberNames = {"system_id", "proof", "issuer_key_set", "proof_time", "results"}
    BY DEF MemberNames
  <2>8. \A name \in MemberNames : IsItem(Text(name))
    BY <1>9
  <2> HIDE DEF Code, code, Untexted, Unknown, Missing, Mistyped
  <2>9. \A other : IsItem(other) /\ Code(other) # None => \E name \in MemberNames : Code(other) = code(name)
    BY <2>6 DEF code
  <2>10. defect # None => /\ \E name \in MemberNames : defect = code(name)
                          /\ Rank(defect) \in 5..16
                          /\ \A name \in MemberNames : code(name) # None => Rank(defect) <= Rank(code(name))
    BY <2>4, <2>5, <2>7
  <2>11. defect = None => \A name \in MemberNames : code(name) = None
    BY <2>4, <2>7
  <2>12. CASE defect = None
    BY <2>9, <2>11, <2>12
  <2>13. CASE defect # None
    <3>1. PICK name \in MemberNames : defect = code(name)
      BY <2>10, <2>13
    <3>2. Code(Text(name)) = defect /\ IsItem(Text(name))
      BY <2>8, <3>1 DEF code
    <3>3. \A other : IsItem(other) /\ Code(other) # None => Rank(defect) <= Rank(Code(other))
      BY <2>9, <2>10, <2>13
    <3> QED
      BY <1>17, <2>10, <2>13, <3>2, <3>3
  <2> QED
    BY <2>12, <2>13
<1> HIDE DEF Shown, Untexted, Unknown, Missing, Mistyped
<1> QED
  BY <1>19, <1>20, <1>22, <1>23, <1>24

-----------------------------------------------------------------------------
(* An honest answer breaks no rule. *)

(* A value as the prover makes it is of the kind of its function. *)
LEMMA HonestValue ==
  ASSUME NEW i \in DOMAIN plan.functions, FunctionRule(plan, i) = None
  PROVE  ValueDefect(plan.functions[i], HonestResult(plan.functions[i])) = None
<1> DEFINE function == plan.functions[i]
           prf == ParamText(function.params, "prf")
<1>1. function.function_id \in {"pseudonym", "age_check"}
  BY NoneIsNoCode DEF FunctionRule, Declared
<1>2. CASE function.function_id = "age_check"
  <2>1. HonestResult(function) = Bool(TRUE) /\ IsA(Bool(TRUE), "bool") /\ Bool(TRUE).flag = TRUE
    BY <1>2 DEF HonestResult, Bool, IsA
  <2> QED
    BY <1>2, <2>1 DEF ValueDefect
<1>3. CASE function.function_id = "pseudonym"
  <2>1. PseudonymRule(plan.source_format, function.params) = None
    BY <1>3, NoneIsNoCode DEF FunctionRule, Declared
  <2>2. PrfIsDefined(plan.source_format, ParamText(function.params, "config"), prf)
    BY <2>1, NoneIsNoCode DEF PseudonymRule
  <2>3. prf \in {"sha-256", "hashdh-bls12381g1"}
    BY <2>2 DEF PrfIsDefined
  <2>4. /\ DOMAIN PseudonymLength = {"sha-256", "hashdh-bls12381g1"}
        /\ PseudonymLength[prf] = IF prf = "sha-256" THEN 32 ELSE 48
    BY <2>3 DEF PseudonymLength
  <2>5. HonestResult(function) = Bytes(IF prf = "hashdh-bls12381g1" THEN 48 ELSE 32)
    BY <1>3 DEF HonestResult
  <2>6. \A len : IsA(Bytes(len), "bytes") /\ Bytes(len).len = len
    BY DEF Bytes, IsA
  <2> HIDE DEF prf
  <2>7. IsA(HonestResult(function), "bytes") /\ HonestResult(function).len = PseudonymLength[prf]
    BY <2>3, <2>4, <2>5, <2>6
  <2> QED
    BY <1>3, <2>3, <2>4, <2>7 DEF ValueDefect, prf
<1> QED
  BY <1>1, <1>2, <1>3

LEMMA HonestResultsPass ==
  ASSUME IsPlan(plan), IsMap(HonestResults), \A i \in DOMAIN plan.functions : FunctionRule(plan, i) = None
  PROVE  ResultsDefect(plan, HonestResults) = None
<1> DEFINE ValueOf(function) == ValueDefect(function, Find(HonestResults, function.handle))
<1>1. /\ DOMAIN HonestResults = DOMAIN plan.functions
      /\ \A i \in DOMAIN plan.functions :
           HonestResults[i] = <<Text(plan.functions[i].handle), HonestResult(plan.functions[i])>>
  BY DEF HonestResults
<1>2. \A i \in DOMAIN plan.functions :
        /\ HonestResults[i][1] = Text(plan.functions[i].handle)
        /\ HonestResults[i][2] = HonestResult(plan.functions[i])
  BY <1>1
<1>3. \A i \in DOMAIN plan.functions :
        /\ Has(HonestResults, plan.functions[i].handle)
        /\ Find(HonestResults, plan.functions[i].handle) = HonestResult(plan.functions[i])
  BY <1>1, <1>2, FindIsThere
<1>4. \A i \in DOMAIN HonestResults :
        IsA(HonestResults[i][1], "text") /\ HonestResults[i][1].text \in Handles(plan)
  <2> SUFFICES ASSUME NEW i \in DOMAIN plan.functions
               PROVE  IsA(HonestResults[i][1], "text") /\ HonestResults[i][1].text \in Handles(plan)
    BY <1>1
  <2>1. plan.functions[i].handle \in Handles(plan)
    BY DEF Handles
  <2>2. HonestResults[i][1] = Text(plan.functions[i].handle)
    BY <1>2
  <2>3. IsA(Text(plan.functions[i].handle), "text") /\ Text(plan.functions[i].handle).text = plan.functions[i].handle
    BY DEF IsA, Text
  <2> QED
    BY <2>1, <2>2, <2>3
<1>5. \A handle \in Handles(plan) : Has(HonestResults, handle)
  BY <1>3 DEF Handles
<1>6. \A i \in DOMAIN plan.functions : ValueOf(plan.functions[i]) = None
  BY <1>3, HonestValue
<1>7. FirstDefect(plan.functions, ValueOf) = None
  <2>1. {i \in DOMAIN plan.functions : ValueOf(plan.functions[i]) # None} = {}
    BY <1>6
  <2> QED
    BY <2>1 DEF FirstDefect
<1> QED
  BY <1>4, <1>5, <1>7 DEF ResultsDefect

(* A request that can be satisfied breaks no rule. *)
LEMMA RulesAreKept ==
  ASSUME IsPlan(plan), Unsatisfiable(plan) = None
  PROVE  \A i \in DOMAIN plan.functions : FunctionRule(plan, i) = None
<1> DEFINE broken == {i \in DOMAIN plan.functions : FunctionRule(plan, i) # None}
<1> SUFFICES ASSUME broken # {} PROVE FALSE
  OBVIOUS
<1>1. Unsatisfiable(plan) = FunctionRule(plan, FirstIndex(broken))
  BY NoneIsNoCode DEF Unsatisfiable
<1>2. broken \in SUBSET Nat
  BY DEF IsPlan
<1>3. FirstIndex(broken) \in broken
  BY <1>2, FirstIsFirst
<1> QED
  BY <1>1, <1>3

(* So the answer to it passes. *)
LEMMA HonestPasses ==
  ASSUME IsPlan(plan), ListsASystem, Unsatisfiable(plan) = None,
         NEW id \in SystemsToUse, NEW now, now + request.drift \in 0..MaxSecs
  PROVE  /\ PresentationDefect(plan, HonestPresentation(id, now)) = None
         /\ ResultsDefect(plan, HonestResults) = None
<1> DEFINE made == HonestPresentation(id, now)
           entries == made.decoded.entries
           secs == now + request.drift
<1>1. /\ IsElement(made) /\ IsPresentation(made) /\ IsMap(HonestResults)
      /\ \A i \in DOMAIN entries : IsA(entries[i][1], "text") /\ entries[i][1].text \in MemberNames
      /\ \A name \in MemberNames : Has(entries, name)
      /\ Find(entries, "results") = Map(HonestResults)
      /\ Find(entries, "proof") = Bytes(1)
      /\ Find(entries, "issuer_key_set") = List(<<Bytes(KeyMaxBytes)>>)
      /\ Find(entries, "proof_time") = Tag(0, Text(Render(secs)))
      /\ Find(entries, "system_id") = Text(id)
  BY HonestIsReadable
<1>2. ResultsDefect(plan, HonestResults) = None
  BY <1>1, RulesAreKept, HonestResultsPass
<1> HIDE DEF entries
<1>3. MembersDefect(entries) = None
  <2>1. MemberNames = DOMAIN KindOf \cup {"proof_time"}
        /\ DOMAIN KindOf = {"system_id", "proof", "issuer_key_set", "results"}
    BY DEF MemberNames, KindOf
  <2>2. \A name \in DOMAIN KindOf : IsA(Find(entries, name), KindOf[name])
    BY <1>1, <2>1 DEF IsA, KindOf, Map, Bytes, List, Text
  <2> QED
    BY <1>1, <2>1, <2>2 DEF MembersDefect
<1>4. Offered(plan, Find(entries, "system_id").text)
  BY <1>1 DEF Offered, ListsASystem, SystemsToUse, Text
<1>5. Find(entries, "proof").len # 0
  BY <1>1 DEF Bytes
<1>6. KeySetDefect(Find(entries, "issuer_key_set").items) = None
  <2> DEFINE keys == <<Bytes(KeyMaxBytes)>>
  <2>1. Find(entries, "issuer_key_set").items = keys
    BY <1>1 DEF List
  <2>2. keys # << >> /\ Len(keys) = 1 /\ DOMAIN keys = {1} /\ keys[1] = Bytes(KeyMaxBytes)
    OBVIOUS
  <2>3. KeyDefect(Bytes(KeyMaxBytes)) = None
    BY SMT DEF KeyDefect, Bytes, IsA, KeyMaxBytes
  <2> HIDE DEF keys
  <2>4. FirstDefect(keys, KeyDefect) = None
    <3>1. {i \in DOMAIN keys : KeyDefect(keys[i]) # None} = {}
      BY <2>2, <2>3
    <3> QED
      BY <3>1 DEF FirstDefect
  <2>5. ~ (Len(keys) > KeySetMax)
    BY <2>2 DEF KeySetMax
  <2> QED
    BY <2>1, <2>2, <2>4, <2>5 DEF KeySetDefect
<1>7. TimeDefect(plan, entries) = None
  <2>1. Parse(Render(secs)) = Seconds(secs)
    BY RenderedIsRead
  <2>2. ~ IsWrong(Parse(Render(secs)))
    BY <2>1 DEF IsWrong, Seconds
  <2>3. Has(entries, "proof_time")
    BY <1>1 DEF MemberNames
  <2> DEFINE time == Tag(0, Text(Render(secs)))
  <2>4. IsA(time, "tag") /\ time.number = 0 /\ IsA(time.inner, "text") /\ time.inner.text = Render(secs)
    BY DEF Tag, Text, IsA
  <2> HIDE DEF time
  <2>5. TdateDefect(time) = None
    BY <2>2, <2>4 DEF TdateDefect
  <2> QED
    BY <1>1, <2>3, <2>5 DEF TimeDefect, time
<1>8. Find(entries, "results").entries = HonestResults
  BY <1>1 DEF Map
<1>9. ContentDefect(plan, entries) = None
  BY <1>2, <1>4, <1>5, <1>6, <1>7, <1>8 DEF ContentDefect
<1>10. PresentationDefect(plan, made) = None
  BY <1>1, <1>3, <1>9 DEF PresentationDefect, IsPresentation, entries
<1> QED
  BY <1>2, <1>10

-----------------------------------------------------------------------------
(* An answer of n presentations. *)

Items(value) == value.members[1][2].items
IsAnswer(p, value, n) ==
  /\ IsToken(value) /\ HasType(value, "object") /\ DOMAIN value.members = {1}
  /\ value.members[1][1] = p.raw.id.text /\ HasType(value.members[1][2], "array")
  /\ DOMAIN Items(value) = 1..n

(* Such an answer is refused for its first presentation that breaks a rule. *)
LEMMA AnswerIs ==
  ASSUME NEW n \in Nat \ {0}, NEW value, IsAnswer(plan, value, n), Is(plan.raw.id, "string"),
         n > 1 => plan.raw.multiple = Flag(TRUE)
  PROVE  LET broken == {i \in 1..n : PresentationDefect(plan, Items(value)[i]) # None}
         IN /\ EnvelopeDefect(plan, value) = None
            /\ \A i \in 1..n : IsElement(Items(value)[i])
            /\ AnswerDefect(value) =
                 IF broken = {} THEN None ELSE PresentationDefect(plan, Items(value)[FirstIndex(broken)])
<1> DEFINE found == {i \in DOMAIN value.members : value.members[i][1] = plan.raw.id.text}
           Defect(element) == PresentationDefect(plan, element)
<1>1. DOMAIN value.members = {1} /\ value.members[1][1] = plan.raw.id.text /\ HasType(value, "object")
      /\ HasType(value.members[1][2], "array") /\ DOMAIN Items(value) = 1..n /\ IsToken(value)
  BY DEF IsAnswer
<1>2. found = {1}
  BY <1>1
<1>3. FirstIndex({1}) = 1
  BY DEF FirstIndex
<1>4. IsSequence(Items(value)) /\ \A i \in 1..n : IsElement(Items(value)[i])
  BY <1>1 DEF IsToken, Items
<1>5. Items(value) # << >> /\ Len(Items(value)) = n
  <2>1. DOMAIN Items(value) = 1..Len(Items(value)) /\ Len(Items(value)) \in Nat
    BY <1>4 DEF IsSequence
  <2>2. 1..Len(Items(value)) = 1..n
    BY <1>1, <2>1
  <2>3. n \in 1..Len(Items(value))
    BY <2>2
  <2>4. Len(Items(value)) \in 1..n
    <3>1. Len(Items(value)) \in 1..Len(Items(value))
      BY <2>1, <2>3
    <3> QED
      BY <2>2, <3>1
  <2>5. Len(Items(value)) = n
    BY <2>3, <2>4
  <2>6. Len(<< >>) = 0
    OBVIOUS
  <2> QED
    BY <2>5, <2>6
<1>6. EnvelopeDefect(plan, value) = None
  <2>1. ~ \E i, j \in DOMAIN value.members : i # j /\ value.members[i][1] = value.members[j][1]
    BY <1>1
  <2> QED
    BY <1>1, <1>2, <1>3, <1>5, <2>1 DEF EnvelopeDefect, Items
<1>7. PresentationsOf(plan, value) = Items(value)
  BY <1>2, <1>3 DEF PresentationsOf, Items
<1>8. AnswerDefect(value) = FirstDefect(Items(value), Defect)
  BY <1>6, <1>7 DEF AnswerDefect
<1> QED
  BY <1>1, <1>4, <1>6, <1>8 DEF FirstDefect

(* One alteration: the presentation it makes, and the answer with it. *)
MadeAt(value, change) ==
  LET entries == Items(value)[change.at].decoded.entries
  IN IF change.within = "element" THEN change.item
     ELSE IF change.within = "members" THEN Encoded(Map(PutOrTake(entries, change.key, change.item)))
     ELSE Encoded(Map(Put(entries, Text("results"),
                        Map(PutOrTake(Find(entries, "results").entries, change.key, change.item)))))

LEMMA AlterationIs ==
  ASSUME NEW n \in Nat \ {0}, NEW value, IsAnswer(plan, value, n),
         NEW change \in Alterations, change.within # "token", CanAlter(value, change)
  PROVE  /\ change.at \in 1..n
         /\ IsAnswer(plan, Alteration(value, change), n)
         /\ \A i \in 1..n : Items(Alteration(value, change))[i] =
                              IF i = change.at THEN MadeAt(value, change) ELSE Items(value)[i]
<1> DEFINE items == Items(value)
           answers == [items EXCEPT ![change.at] = MadeAt(value, change)]
           member == <<value.members[1][1], Arr(answers)>>
           changed == [value.members EXCEPT ![1] = member]
<1>1. change.at \in DOMAIN items
  BY DEF CanAlter, Items
<1>2. DOMAIN value.members = {1} /\ value.members[1][1] = plan.raw.id.text /\ DOMAIN items = 1..n /\ IsToken(value)
  BY DEF IsAnswer
<1>3. change.within \in {"element", "members", "results"}
  BY AlterationsAreReadable
<1>4. Alteration(value, change) = Members(changed)
  BY <1>3 DEF Alteration, MadeAt, Items
<1>5. IsToken(Alteration(value, change))
  BY <1>2, AlterationIsReadable
<1>6. /\ DOMAIN changed = {1} /\ changed[1] = member
  BY <1>2
<1>7. HasType(Members(changed), "object") /\ Members(changed).members = changed
  BY DEF Members, HasType
<1>8. HasType(Arr(answers), "array") /\ Arr(answers).items = answers
  BY DEF Arr, HasType
<1>9. DOMAIN answers = 1..n /\ \A i \in 1..n : answers[i] = IF i = change.at THEN MadeAt(value, change) ELSE items[i]
  BY <1>2
<1> HIDE DEF changed, answers, items
<1>10. member[1] = plan.raw.id.text /\ member[2] = Arr(answers)
  BY <1>2
<1> HIDE DEF member
<1>11. Items(Members(changed)) = answers
  BY <1>6, <1>7, <1>8, <1>10 DEF Items
<1> QED
  BY <1>1, <1>2, <1>4, <1>5, <1>6, <1>7, <1>8, <1>9, <1>10, <1>11 DEF IsAnswer, items

-----------------------------------------------------------------------------
(* What one alteration of an honest answer breaks. *)

(* The answer as the prover makes it. *)
LEMMA HonestIsAnswer ==
  ASSUME IsPlan(plan), NEW n \in Nat, NEW id, NEW now
  PROVE  /\ IsAnswer(plan, HonestAnswer(n, id, now), n)
         /\ \A i \in 1..n : Items(HonestAnswer(n, id, now))[i] = HonestPresentation(id, now)
<1> DEFINE made == HonestAnswer(n, id, now)
<1>1. /\ IsToken(made) /\ DOMAIN made.members = {1} /\ made.members[1][1] = plan.raw.id.text
      /\ DOMAIN made.members[1][2].items = 1..n
      /\ \A i \in 1..n : made.members[1][2].items[i] = HonestPresentation(id, now)
  BY HonestAnswerIsReadable
<1>2. HasType(made, "object") /\ HasType(made.members[1][2], "array")
  BY DEF HonestAnswer, Members, Arr, HasType
<1> HIDE DEF made
<1> QED
  BY <1>1, <1>2 DEF IsAnswer, Items, made

(* The member of the results breaks what the results break. *)
LEMMA ResultsMember ==
  ASSUME NEW p, NEW results
  PROVE  MemberCode(p, Text("results"), {Map(results)}) = ResultsDefect(p, results)
<1>1. /\ IsA(Text("results"), "text") /\ Text("results").text = "results" /\ "results" \in MemberNames
      /\ KindOf["results"] = "map"
  BY DEF IsA, Text, MemberNames, KindOf
<1>2. The({Map(results)}) = Map(results) /\ IsA(Map(results), "map") /\ Map(results).entries = results
  BY DEF The, IsA, Map
<1>3. MemberDefect(p, "results", Map(results)) = ResultsDefect(p, results)
  BY <1>2 DEF MemberDefect
<1> QED
  BY <1>1, <1>2, <1>3 DEF MemberCode

(* Everything the lemmas below say of the plan and of the honest answer. *)
Good(n, id) ==
  /\ IsPlan(plan) /\ Is(plan.raw.id, "string") /\ ListsASystem /\ Unsatisfiable(plan) = None
  /\ n \in Nat \ {0} /\ id \in SystemsToUse /\ proved + request.drift \in 0..MaxSecs
  /\ honest = HonestAnswer(n, id, proved)
  /\ n > 1 => plan.raw.multiple = Flag(TRUE)

AloneDefect(change) ==
  IF change.within = "element" THEN PresentationDefect(plan, change.item)
  ELSE IF change.within = "members" THEN MemberCode(plan, change.key, Brought(change.item))
  ELSE ResultCode(plan, change.key, Brought(change.item))

(* Under each key, the honest presentation breaks nothing. *)
LEMMA HonestParts ==
  ASSUME NEW n, NEW id, Good(n, id)
  PROVE  LET made == HonestPresentation(id, proved)
             entries == made.decoded.entries
         IN /\ IsElement(made) /\ IsPresentation(made) /\ IsMap(HonestResults) /\ IsDeepMap(entries)
            /\ Has(entries, "results") /\ Find(entries, "results") = Map(HonestResults)
            /\ Under(entries, Text("results")) = {Map(HonestResults)}
            /\ PresentationDefect(plan, made) = None
            /\ \A key : IsItem(key) => MemberCode(plan, key, Under(entries, key)) = None
            /\ \A key : IsItem(key) => ResultCode(plan, key, Under(HonestResults, key)) = None
<1> DEFINE made == HonestPresentation(id, proved)
           entries == made.decoded.entries
<1>1. /\ IsElement(made) /\ IsPresentation(made) /\ IsMap(HonestResults)
      /\ \A name \in MemberNames : Has(entries, name)
      /\ Find(entries, "results") = Map(HonestResults)
  BY HonestIsReadable DEF Good
<1>2. PresentationDefect(plan, made) = None /\ ResultsDefect(plan, HonestResults) = None
  BY HonestPasses DEF Good
<1>3. IsPlan(plan)
  BY DEF Good
<1> HIDE DEF made
<1>4. /\ IsDeepMap(entries)
      /\ \A key : IsItem(key) => MemberCode(plan, key, Under(entries, key)) = None
  BY <1>1, <1>2, <1>3, PresentationByParts
<1>5. \A key : IsItem(key) => ResultCode(plan, key, Under(HonestResults, key)) = None
  BY <1>1, <1>2, <1>3, ResultsByParts
<1>6. Has(entries, "results")
  BY <1>1 DEF MemberNames
<1>7. Under(entries, Text("results")) = {Map(HonestResults)}
  BY <1>1, <1>4, <1>6, UnderName DEF IsDeepMap
<1> QED
  BY <1>1, <1>2, <1>4, <1>5, <1>6, <1>7 DEF made

(* So one change of it breaks what its own item breaks under its own key. *)
LEMMA AloneIs ==
  ASSUME NEW n, NEW id, Good(n, id), NEW change \in Alterations, change.within # "token", change.at \in 1..n
  PROVE  Alone(change) = AloneDefect(change)
<1> DEFINE one == HonestPresentation(id, proved)
           entries == one.decoded.entries
           made == MadeAt(honest, change)
           value == Alteration(honest, change)
<1>1. /\ IsPlan(plan) /\ Is(plan.raw.id, "string") /\ n \in Nat \ {0} /\ honest = HonestAnswer(n, id, proved)
      /\ n > 1 => plan.raw.multiple = Flag(TRUE)
  BY DEF Good
<1>2. IsAnswer(plan, honest, n) /\ \A i \in 1..n : Items(honest)[i] = one
  BY <1>1, HonestIsAnswer
<1>3. /\ IsElement(one) /\ IsPresentation(one) /\ IsMap(HonestResults) /\ IsDeepMap(entries)
      /\ Has(entries, "results") /\ Find(entries, "results") = Map(HonestResults)
      /\ Under(entries, Text("results")) = {Map(HonestResults)}
      /\ PresentationDefect(plan, one) = None
      /\ \A key : IsItem(key) => MemberCode(plan, key, Under(entries, key)) = None
      /\ \A key : IsItem(key) => ResultCode(plan, key, Under(HonestResults, key)) = None
  BY HonestParts
<1> HIDE DEF one
<1>4. CanAlter(honest, change)
  <2>1. /\ HasType(honest, "object") /\ DOMAIN honest.members = {1} /\ HasType(honest.members[1][2], "array")
        /\ change.at \in DOMAIN honest.members[1][2].items
        /\ honest.members[1][2].items[change.at] = one
    BY <1>2 DEF IsAnswer, Items
  <2>2. honest.members # << >>
    BY <2>1
  <2>3. IsA(Map(HonestResults), "map")
    BY DEF Map, IsA
  <2> QED
    BY <1>3, <2>1, <2>2, <2>3 DEF CanAlter, IsPresentation
<1>5. /\ IsAnswer(plan, value, n)
      /\ \A i \in 1..n : Items(value)[i] = IF i = change.at THEN made ELSE one
  BY <1>1, <1>2, <1>4, AlterationIs
<1> HIDE DEF value, made
<1>6. IsElement(made) /\ AnswerDefect(value) = PresentationDefect(plan, made)
  <2> DEFINE broken == {i \in 1..n : PresentationDefect(plan, Items(value)[i]) # None}
  <2>1. /\ \A i \in 1..n : IsElement(Items(value)[i])
        /\ AnswerDefect(value) = IF broken = {} THEN None ELSE PresentationDefect(plan, Items(value)[FirstIndex(broken)])
    BY <1>1, <1>5, AnswerIs
  <2>2. broken = IF PresentationDefect(plan, made) = None THEN {} ELSE {change.at}
    BY <1>3, <1>5
  <2>3. FirstIndex({change.at}) = change.at
    <3>1. change.at \in Nat
      BY <1>1
    <3> QED
      BY <3>1 DEF FirstIndex
  <2> HIDE DEF broken
  <2> QED
    BY <1>5, <2>1, <2>2, <2>3
<1>7. Alone(change) = PresentationDefect(plan, made)
  BY <1>6 DEF Alone, value
<1>8. change.within \in {"element", "members", "results"}
  BY AlterationsAreReadable
<1>9. CASE change.within = "element"
  BY <1>7, <1>9 DEF AloneDefect, made, MadeAt
<1>10. ASSUME change.within # "element" PROVE IsItem(change.key) /\ (change.item = Gone \/ IsItem(change.item))
  BY <1>8, <1>10, AlterationsAreReadable
<1>11. \A map : IsPresentation(Encoded(Map(map))) /\ Encoded(Map(map)).decoded.entries = map
  BY DEF IsPresentation, Encoded, Map, HasType, IsA
<1>12. Items(honest)[change.at] = one
  BY <1>2
<1>13. CASE change.within = "members"
  <2> DEFINE changed == PutOrTake(entries, change.key, change.item)
             Code(key) == MemberCode(plan, key, Under(changed, key))
  <2>1. made = Encoded(Map(changed))
    BY <1>12, <1>13 DEF made, MadeAt
  <2>2. \A key : Under(changed, key) = IF key = change.key THEN Brought(change.item) ELSE Under(entries, key)
    BY <1>3, <1>10, <1>13, UnderPutOrTake DEF IsDeepMap
  <2>3. \A key : IsItem(key) /\ key # change.key => Code(key) = None
    BY <1>3, <2>2
  <2>4. Code(change.key) = MemberCode(plan, change.key, Brought(change.item))
    BY <2>2
  <2>5. /\ PresentationDefect(plan, made) = None => \A key : IsItem(key) => Code(key) = None
        /\ PresentationDefect(plan, made) # None =>
             \E key : IsItem(key) /\ Code(key) = PresentationDefect(plan, made)
    <3>1. made.decoded.entries = changed /\ IsPresentation(made)
      BY <1>11, <2>1
    <3> HIDE DEF changed
    <3> QED
      BY <1>1, <1>6, <3>1, PresentationByParts
  <2> HIDE DEF Code
  <2>6. Code(change.key) = PresentationDefect(plan, made)
    BY <1>10, <1>13, <2>3, <2>5
  <2> QED
    BY <1>7, <1>13, <2>4, <2>6 DEF AloneDefect
<1>14. CASE change.within = "results"
  <2> DEFINE inner == PutOrTake(HonestResults, change.key, change.item)
             changed == Put(entries, Text("results"), Map(inner))
             Code(key) == MemberCode(plan, key, Under(changed, key))
             Part(key) == ResultCode(plan, key, Under(inner, key))
  <2>1. made = Encoded(Map(changed))
    <3>1. Map(HonestResults).entries = HonestResults
      BY DEF Map
    <3> QED
      BY <1>3, <1>12, <1>14, <3>1 DEF made, MadeAt
  <2>2. \A key : Under(inner, key) = IF key = change.key THEN Brought(change.item) ELSE Under(HonestResults, key)
    BY <1>3, <1>10, <1>14, UnderPutOrTake
  <2>3. IsMap(inner)
    BY <1>3, <1>10, <1>14, PutKeeps, WithoutKeeps DEF PutOrTake
  <2>4. /\ \A key : IsItem(key) /\ key # change.key => Part(key) = None
        /\ Part(change.key) = ResultCode(plan, change.key, Brought(change.item))
    BY <1>3, <2>2
  <2> HIDE DEF inner
  <2>5. /\ ResultsDefect(plan, inner) = None => \A key : IsItem(key) => Part(key) = None
        /\ ResultsDefect(plan, inner) # None => \E key : IsItem(key) /\ Part(key) = ResultsDefect(plan, inner)
    BY <1>1, <2>3, ResultsByParts
  <2>6. IsItem(Text("results")) /\ IsItem(Map(inner))
    BY DEF IsItem, Text, Map
  <2>7. \A key : Under(changed, key) = IF key = Text("results") THEN {Map(inner)} ELSE Under(entries, key)
    BY <1>3, <2>6, UnderPut DEF IsDeepMap
  <2>8. /\ \A key : IsItem(key) /\ key # Text("results") => Code(key) = None
        /\ Code(Text("results")) = ResultsDefect(plan, inner)
    BY <1>3, <2>7, ResultsMember
  <2>9. /\ PresentationDefect(plan, made) = None => \A key : IsItem(key) => Code(key) = None
        /\ PresentationDefect(plan, made) # None =>
             \E key : IsItem(key) /\ Code(key) = PresentationDefect(plan, made)
    <3>1. made.decoded.entries = changed /\ IsPresentation(made)
      BY <1>11, <2>1
    <3> HIDE DEF changed
    <3> QED
      BY <1>1, <1>6, <3>1, PresentationByParts
  <2> HIDE DEF Code, Part
  <2>10. Code(Text("results")) = PresentationDefect(plan, made)
    BY <2>6, <2>8, <2>9
  <2>11. Part(change.key) = ResultsDefect(plan, inner)
    BY <1>10, <1>14, <2>4, <2>5
  <2> QED
    BY <1>7, <1>14, <2>4, <2>8, <2>10, <2>11 DEF AloneDefect
<1> QED
  BY <1>8, <1>9, <1>13, <1>14

-----------------------------------------------------------------------------
(* Where the alterations are in the answer that arrives. *)

(* The map holds what each change within it brings, and else what it held.    *)
Holds(entries, changes, within, before, key) ==
  /\ \A c \in changes : c.within = within /\ c.key = key => Under(entries, key) = Brought(c.item)
  /\ (\A c \in changes : c.within = within => c.key # key) => Under(entries, key) = Under(before, key)

(* The presentation is what the changes of it make of an honest one. *)
IsPlaced(element, changes, one, given) ==
  \/ \E c \in changes : changes = {c} /\ c.within = "element" /\ element = c.item
  \/ /\ \A c \in changes : c.within \in {"members", "results"}
     /\ IsPresentation(element)
     /\ \A key : IsItem(key) /\ key # Text("results") =>
          Holds(element.decoded.entries, changes, "members", one.decoded.entries, key)
     /\ \/ /\ \A c \in changes : c.within = "members"
           /\ \A c \in changes : c.key = Text("results") =>
                Under(element.decoded.entries, Text("results")) = Brought(c.item)
           /\ \E c \in changes : c.key = Text("results")
        \/ /\ \A c \in changes : c.within = "members" => c.key # Text("results")
           /\ \E results : /\ IsMap(results)
                           /\ Under(element.decoded.entries, Text("results")) = {Map(results)}
                           /\ \A key : IsItem(key) => Holds(results, changes, "results", given, key)

(* A change within a presentation adds itself to the changes of it.           *)
LEMMA Placed ==
  ASSUME NEW element, IsElement(element), NEW changes, NEW one, NEW given, IsPlaced(element, changes, one, given),
         NEW change \in Alterations, change.within \in {"members", "results"},
         \A c \in changes : c.at = change.at /\ Apart(change, c),
         change.within = "results" =>
           Has(element.decoded.entries, "results") /\ IsA(Find(element.decoded.entries, "results"), "map"),
         NEW made,
         LET entries == element.decoded.entries
         IN made = IF change.within = "members" THEN Encoded(Map(PutOrTake(entries, change.key, change.item)))
                   ELSE Encoded(Map(Put(entries, Text("results"),
                                          Map(PutOrTake(Find(entries, "results").entries, change.key, change.item)))))
  PROVE  IsPlaced(made, changes \cup {change}, one, given)
<1> DEFINE entries == element.decoded.entries
           all == changes \cup {change}
<1>1. \A c \in changes :
        /\ c.within # "element" /\ (c.within = change.within => c.key # change.key)
        /\ c.within = "results" /\ change.within = "members" => change.key # Text("results")
        /\ change.within = "results" /\ c.within = "members" => c.key # Text("results")
  BY DEF Apart
<1>2. IsItem(change.key) /\ (change.item = Gone \/ IsItem(change.item))
  BY AlterationsAreReadable
<1>3. /\ \A c \in changes : c.within \in {"members", "results"}
      /\ IsPresentation(element)
      /\ \A key : IsItem(key) /\ key # Text("results") =>
           Holds(entries, changes, "members", one.decoded.entries, key)
      /\ \/ /\ \A c \in changes : c.within = "members"
            /\ \A c \in changes : c.key = Text("results") => Under(entries, Text("results")) = Brought(c.item)
            /\ \E c \in changes : c.key = Text("results")
         \/ /\ \A c \in changes : c.within = "members" => c.key # Text("results")
            /\ \E results : /\ IsMap(results)
                            /\ Under(entries, Text("results")) = {Map(results)}
                            /\ \A key : IsItem(key) => Holds(results, changes, "results", given, key)
  BY <1>1 DEF IsPlaced
<1>4. IsMap(entries)
  BY <1>3 DEF IsElement, IsPresentation, IsDeepMap
<1>5. \A map : IsPresentation(Encoded(Map(map))) /\ Encoded(Map(map)).decoded.entries = map
  BY DEF IsPresentation, Encoded, Map, HasType, IsA
<1>6. \A c \in all : c.within \in {"members", "results"}
  BY <1>3
<1> HIDE DEF entries
<1>7. CASE change.within = "members"
  <2> DEFINE changed == PutOrTake(entries, change.key, change.item)
  <2>1. IsPresentation(made) /\ made.decoded.entries = changed
    <3>1. made = Encoded(Map(changed))
      BY <1>7 DEF entries
    <3> QED
      BY <1>5, <3>1
  <2>2. \A key : Under(changed, key) = IF key = change.key THEN Brought(change.item) ELSE Under(entries, key)
    BY <1>2, <1>4, UnderPutOrTake
  <2> HIDE DEF changed
  <2>3. ASSUME NEW key, IsItem(key), key # Text("results")
        PROVE  Holds(changed, all, "members", one.decoded.entries, key)
    <3>1. Holds(entries, changes, "members", one.decoded.entries, key)
      BY <1>3, <2>3
    <3> QED
      BY <1>1, <1>7, <2>2, <3>1 DEF Holds
  <2>4. CASE change.key = Text("results")
    <3>1. \A c \in changes : c.within = "members" /\ c.key # Text("results")
      BY <1>1, <1>3, <1>7, <2>4
    <3>2. /\ \A c \in all : c.within = "members"
          /\ \A c \in all : c.key = Text("results") => Under(changed, Text("results")) = Brought(c.item)
          /\ \E c \in all : c.key = Text("results")
      BY <1>7, <2>2, <2>4, <3>1
    <3> QED
      BY <1>6, <2>1, <2>3, <3>2 DEF IsPlaced
  <2>5. CASE change.key # Text("results")
    <3>1. Under(changed, Text("results")) = Under(entries, Text("results"))
      BY <2>2, <2>5
    <3>2. CASE /\ \A c \in changes : c.within = "members"
               /\ \A c \in changes : c.key = Text("results") => Under(entries, Text("results")) = Brought(c.item)
               /\ \E c \in changes : c.key = Text("results")
      <4>1. /\ \A c \in all : c.within = "members"
            /\ \A c \in all : c.key = Text("results") => Under(changed, Text("results")) = Brought(c.item)
            /\ \E c \in all : c.key = Text("results")
        BY <1>7, <2>5, <3>1, <3>2
      <4> QED
        BY <1>6, <2>1, <2>3, <4>1 DEF IsPlaced
    <3>3. CASE /\ \A c \in changes : c.within = "members" => c.key # Text("results")
               /\ \E results : /\ IsMap(results)
                               /\ Under(entries, Text("results")) = {Map(results)}
                               /\ \A key : IsItem(key) => Holds(results, changes, "results", given, key)
      <4>1. PICK results : /\ IsMap(results)
                           /\ Under(entries, Text("results")) = {Map(results)}
                           /\ \A key : IsItem(key) => Holds(results, changes, "results", given, key)
        BY <3>3
      <4>2. \A key : IsItem(key) => Holds(results, all, "results", given, key)
        BY <1>7, <4>1 DEF Holds
      <4>3. \A c \in all : c.within = "members" => c.key # Text("results")
        BY <2>5, <3>3
      <4> QED
        BY <1>6, <2>1, <2>3, <3>1, <4>1, <4>2, <4>3 DEF IsPlaced
    <3> QED
      BY <1>3, <3>2, <3>3
  <2> QED
    BY <2>4, <2>5
<1>8. CASE change.within = "results"
  <2> DEFINE inner == PutOrTake(Find(entries, "results").entries, change.key, change.item)
             changed == Put(entries, Text("results"), Map(inner))
  <2>1. IsPresentation(made) /\ made.decoded.entries = changed
    <3>1. made = Encoded(Map(changed))
      BY <1>8 DEF entries
    <3> QED
      BY <1>5, <3>1
  <2>2. Under(entries, Text("results")) = {Find(entries, "results")}
    BY <1>4, <1>8, UnderName DEF entries
  <2>3. \A c \in changes : c.within = "members" => c.key # Text("results")
    BY <1>1, <1>8
  <2>4. PICK results : /\ IsMap(results) /\ Find(entries, "results") = Map(results)
                       /\ \A key : IsItem(key) => Holds(results, changes, "results", given, key)
    <3>1. PICK results : /\ IsMap(results)
                         /\ Under(entries, Text("results")) = {Map(results)}
                         /\ \A key : IsItem(key) => Holds(results, changes, "results", given, key)
      BY <1>3, <2>3
    <3>2. Find(entries, "results") = Map(results)
      BY <2>2, <3>1
    <3> QED
      BY <3>1, <3>2
  <2>5. inner = PutOrTake(results, change.key, change.item)
    BY <2>4 DEF Map
  <2> HIDE DEF inner
  <2>6. /\ IsMap(inner)
        /\ \A key : Under(inner, key) = IF key = change.key THEN Brought(change.item) ELSE Under(results, key)
    <3>1. IsMap(results)
      BY <2>4
    <3>2. IsMap(PutOrTake(results, change.key, change.item))
      BY <1>2, <3>1, PutKeeps, WithoutKeeps DEF PutOrTake
    <3>3. \A key : Under(PutOrTake(results, change.key, change.item), key) =
                      IF key = change.key THEN Brought(change.item) ELSE Under(results, key)
      BY <1>2, <3>1, UnderPutOrTake
    <3> QED
      BY <2>5, <3>2, <3>3
  <2>7. IsItem(Text("results")) /\ IsItem(Map(inner))
    BY DEF IsItem, Text, Map
  <2>8. \A key : Under(changed, key) = IF key = Text("results") THEN {Map(inner)} ELSE Under(entries, key)
    BY <1>4, <2>7, UnderPut
  <2> HIDE DEF changed
  <2>9. ASSUME NEW key, IsItem(key), key # Text("results")
        PROVE  Holds(changed, all, "members", one.decoded.entries, key)
    <3>1. Holds(entries, changes, "members", one.decoded.entries, key)
      BY <1>3, <2>9
    <3> QED
      BY <1>8, <2>8, <2>9, <3>1 DEF Holds
  <2>10. ASSUME NEW key, IsItem(key)
         PROVE  Holds(inner, all, "results", given, key)
    <3>1. Holds(results, changes, "results", given, key)
      BY <2>4, <2>10
    <3> QED
      BY <1>1, <1>8, <2>6, <3>1 DEF Holds
  <2>11. \A c \in all : c.within = "members" => c.key # Text("results")
    BY <1>8, <2>3
  <2> QED
    BY <1>6, <2>1, <2>6, <2>8, <2>9, <2>10, <2>11 DEF IsPlaced
<1> QED
  BY <1>7, <1>8

(* And with no changes it is the honest one. *)
LEMMA HonestIsPlaced ==
  ASSUME NEW one, NEW given, IsPresentation(one), IsMap(given),
         Under(one.decoded.entries, Text("results")) = {Map(given)}
  PROVE  IsPlaced(one, {}, one, given)
<1>1. \A entries, within, key : Holds(entries, {}, within, entries, key)
  BY DEF Holds
<1> QED
  BY <1>1 DEF IsPlaced

-----------------------------------------------------------------------------
(* The invariant of the altered answer. *)

(* The changes of one presentation. *)
ChangesAt(changes, i) == {c \in changes : c.at = i}

(* Each presentation is what the changes of it make of the honest one. *)
AlteredInv ==
  Answered =>
    /\ altered \subseteq Alterations
    /\ \/ \E c \in altered : altered = {c} /\ c.within = "token" /\ token = c.item
       \/ /\ \A c \in altered : c.within # "token"
          /\ \E n \in 1..MaxPresentations, id \in SystemsToUse :
               /\ honest = HonestAnswer(n, id, proved) /\ IsAnswer(plan, token, n)
               /\ \A c \in altered : c.at \in 1..n
               /\ \A i \in 1..n : IsPlaced(Items(token)[i], ChangesAt(altered, i),
                                           HonestPresentation(id, proved), HonestResults)

(* The answer before it is altered. *)
LEMMA HonestStarts ==
  ASSUME IsPlan(plan), NEW n \in Nat, NEW id, NEW now
  PROVE  /\ IsAnswer(plan, HonestAnswer(n, id, now), n)
         /\ \A i \in 1..n : IsPlaced(Items(HonestAnswer(n, id, now))[i], {}, HonestPresentation(id, now), HonestResults)
<1> DEFINE one == HonestPresentation(id, now)
<1>1. IsAnswer(plan, HonestAnswer(n, id, now), n) /\ \A i \in 1..n : Items(HonestAnswer(n, id, now))[i] = one
  BY HonestIsAnswer
<1>2. /\ IsElement(one) /\ IsPresentation(one) /\ IsMap(HonestResults)
      /\ \A name \in MemberNames : Has(one.decoded.entries, name)
      /\ Find(one.decoded.entries, "results") = Map(HonestResults)
  BY HonestIsReadable
<1> HIDE DEF one
<1>3. IsMap(one.decoded.entries)
  BY <1>2 DEF IsElement, IsPresentation, IsDeepMap
<1>4. Under(one.decoded.entries, Text("results")) = {Map(HonestResults)}
  BY <1>2, <1>3, UnderName DEF MemberNames
<1>5. IsPlaced(one, {}, one, HonestResults)
  BY <1>2, <1>4, HonestIsPlaced
<1> QED
  BY <1>1, <1>5 DEF one

(* And after one more change. *)
LEMMA AlterKeeps ==
  ASSUME NEW n \in Nat \ {0}, NEW one, NEW given, NEW value, IsAnswer(plan, value, n), NEW changes,
         \A c \in changes : c.at \in 1..n,
         \A i \in 1..n : IsPlaced(Items(value)[i], ChangesAt(changes, i), one, given),
         NEW change \in Alterations, change.within # "token", \A c \in changes : Apart(change, c),
         CanAlter(value, change)
  PROVE  /\ IsAnswer(plan, Alteration(value, change), n) /\ change.at \in 1..n
         /\ \A i \in 1..n : IsPlaced(Items(Alteration(value, change))[i],
                                     ChangesAt(changes \cup {change}, i), one, given)
<1> DEFINE made == MadeAt(value, change)
           here == ChangesAt(changes, change.at)
           element == Items(value)[change.at]
<1>1. /\ change.at \in 1..n
      /\ IsAnswer(plan, Alteration(value, change), n)
      /\ \A i \in 1..n : Items(Alteration(value, change))[i] = IF i = change.at THEN made ELSE Items(value)[i]
  BY AlterationIs
<1>2. /\ ChangesAt(changes \cup {change}, change.at) = here \cup {change}
      /\ \A i : i # change.at => ChangesAt(changes \cup {change}, i) = ChangesAt(changes, i)
  BY DEF ChangesAt
<1>3. IsElement(element) /\ IsPlaced(element, here, one, given)
  BY <1>1 DEF IsAnswer, IsToken, Items
<1>4. change.within \in {"element", "members", "results"}
  BY AlterationsAreReadable
<1>5. IsPlaced(made, here \cup {change}, one, given)
  <2>1. CASE change.within = "element"
    <3>1. here = {}
      BY <2>1 DEF Apart, ChangesAt
    <3>2. made = change.item
      BY <2>1 DEF MadeAt
    <3> HIDE DEF made, here
    <3>3. here \cup {change} = {change}
      BY <3>1
    <3> QED
      BY <2>1, <3>2, <3>3 DEF IsPlaced
  <2>2. CASE change.within # "element"
    <3>1. change.within \in {"members", "results"}
      BY <1>4, <2>2
    <3>2. \A c \in here : c.at = change.at /\ Apart(change, c)
      BY DEF ChangesAt
    <3>3. change.within = "results" =>
            Has(element.decoded.entries, "results") /\ IsA(Find(element.decoded.entries, "results"), "map")
      BY DEF CanAlter, Items
    <3>4. LET entries == element.decoded.entries
          IN made = IF change.within = "members" THEN Encoded(Map(PutOrTake(entries, change.key, change.item)))
                    ELSE Encoded(Map(Put(entries, Text("results"),
                           Map(PutOrTake(Find(entries, "results").entries, change.key, change.item)))))
      BY <2>2 DEF MadeAt
    <3> HIDE DEF made, here, element
    <3> QED
      BY <1>3, <3>1, <3>2, <3>3, <3>4, Placed
  <2> QED
    BY <2>1, <2>2
<1> HIDE DEF made, here
<1> QED
  BY <1>1, <1>2, <1>5

LEMMA HonestStays ==
  ASSUME UNCHANGED <<request, plan>>
  PROVE  /\ (HonestResults)' = HonestResults /\ (SystemsToUse)' = SystemsToUse
         /\ \A id, now : HonestPresentation(id, now)' = HonestPresentation(id, now)
         /\ \A n, id, now : HonestAnswer(n, id, now)' = HonestAnswer(n, id, now)
BY DEF HonestResults, HonestResult, SystemsToUse, HonestAnswer, HonestPresentation

LEMMA AlteredInvHolds == Spec => []AlteredInv
<1>1. Init => AlteredInv
  BY DEF Init, AlteredInv, Answered
<1>2. PlanInv /\ AnswerInv /\ AlteredInv /\ [Next]_vars => AlteredInv'
  <2> SUFFICES ASSUME PlanInv, AnswerInv, AlteredInv, [Next]_vars PROVE AlteredInv'
    OBVIOUS
  <2>1. ASSUME UNCHANGED <<request, plan, answer>>, Answered' => Answered
        PROVE  AlteredInv'
    <3>1. UNCHANGED <<request, plan, honest, token, altered, proved>>
      BY <2>1 DEF answer
    <3> QED
      BY <2>1, <3>1, HonestStays DEF AlteredInv
  <2>2. CASE PlanRequest
    BY <2>2 DEF PlanRequest, AlteredInv, Answered
  <2>3. CASE Decline
    BY <2>1, <2>3 DEF Decline, Answered
  <2>4. CASE Prove
    <3>1. PICK n \in 1..MaxPresentations, id \in SystemsToUse :
            honest' = HonestAnswer(n, id, clock) /\ token' = HonestAnswer(n, id, clock)
      BY <2>4 DEF Prove
    <3>2. /\ phase = "planned" /\ phase' = "answering" /\ proved' = clock /\ altered' = {}
          /\ UNCHANGED <<request, plan>>
      BY <2>4 DEF Prove, AnswerInv, Unanswered
    <3>3. n \in Nat
      BY ClocksAreNumbers
    <3>4. IsPlan(plan)
      BY <3>2, PlanIsThere DEF Unplanned
    <3> DEFINE made == HonestAnswer(n, id, clock)
    <3>5. /\ IsAnswer(plan, made, n)
          /\ \A i \in 1..n : IsPlaced(Items(made)[i], {}, HonestPresentation(id, clock), HonestResults)
      BY <3>3, <3>4, HonestStarts
    <3>6. \A i : ChangesAt(altered', i) = {}
      BY <3>2 DEF ChangesAt
    <3>7. /\ HonestAnswer(n, id, proved)' = made /\ id \in (SystemsToUse)'
          /\ HonestPresentation(id, proved)' = HonestPresentation(id, clock) /\ (HonestResults)' = HonestResults
      BY <3>2 DEF HonestAnswer, HonestPresentation, HonestResults, HonestResult, SystemsToUse
    <3> QED
      BY <3>1, <3>2, <3>5, <3>6, <3>7 DEF AlteredInv
  <2>5. CASE Alter
    <3>1. PICK change \in Alterations :
            /\ \A other \in altered : Apart(change, other)
            /\ CanAlter(token, change)
            /\ token' = Alteration(token, change) /\ altered' = altered \cup {change}
      BY <2>5 DEF Alter
    <3>2. Answered /\ phase = "answering" /\ UNCHANGED <<request, plan, honest, proved>>
      BY <2>5 DEF Alter, Answered
    <3>3. altered' \subseteq Alterations
      BY <3>1, <3>2 DEF AlteredInv
    <3>4. CASE change.within = "token"
      <4>1. altered = {}
        BY <3>1, <3>4 DEF Apart
      <4>2. altered' = {change} /\ token' = change.item
        BY <3>1, <3>4, <4>1 DEF Alteration
      <4> QED
        BY <3>3, <3>4, <4>2 DEF AlteredInv
    <3>5. CASE change.within # "token"
      <4>1. \A c \in altered : c.within # "token"
        BY <3>1 DEF Apart
      <4>2. PICK n \in 1..MaxPresentations, id \in SystemsToUse :
              /\ honest = HonestAnswer(n, id, proved) /\ IsAnswer(plan, token, n)
              /\ \A c \in altered : c.at \in 1..n
              /\ \A i \in 1..n : IsPlaced(Items(token)[i], ChangesAt(altered, i),
                                          HonestPresentation(id, proved), HonestResults)
        BY <3>2, <4>1 DEF AlteredInv
      <4>3. n \in Nat \ {0}
        BY ClocksAreNumbers
      <4>4. /\ IsAnswer(plan, token', n) /\ change.at \in 1..n
            /\ \A i \in 1..n : IsPlaced(Items(token')[i], ChangesAt(altered', i),
                                        HonestPresentation(id, proved), HonestResults)
        <5>1. /\ IsAnswer(plan, Alteration(token, change), n) /\ change.at \in 1..n
              /\ \A i \in 1..n : IsPlaced(Items(Alteration(token, change))[i],
                                          ChangesAt(altered \cup {change}, i),
                                          HonestPresentation(id, proved), HonestResults)
          BY <3>1, <3>5, <4>2, <4>3, AlterKeeps
        <5> QED
          BY Zenon, <3>1, <5>1
      <4>5. \A c \in altered' : c.within # "token" /\ c.at \in 1..n
        BY <3>1, <3>5, <4>1, <4>2, <4>4
      <4> QED
        BY <3>2, <3>3, <4>2, <4>4, <4>5, HonestStays DEF AlteredInv
    <3> QED
      BY <3>4, <3>5
  <2>6. CASE Deliver
    BY <2>1, <2>6 DEF Deliver, Answered
  <2>7. CASE Tick
    BY <2>1, <2>7 DEF Tick, Answered
  <2>8. CASE RefuseEnvelope
    BY <2>1, <2>8 DEF RefuseEnvelope, Refuse, Answered
  <2>9. CASE CheckPresentation
    BY <2>1, <2>9 DEF CheckPresentation, Judging, Answered
  <2>10. CASE AcceptShape
    BY <2>1, <2>10 DEF AcceptShape, Judging, Answered
  <2>11. CASE CheckTimes
    BY <2>1, <2>11 DEF CheckTimes, Answered
  <2>12. CASE UNCHANGED vars
    BY <2>1, <2>12 DEF vars, answer, Answered
  <2> QED
    BY <2>2, <2>3, <2>4, <2>5, <2>6, <2>7, <2>8, <2>9, <2>10, <2>11, <2>12 DEF Next, Done
<1> QED
  BY <1>1, <1>2, PlanInvHolds, AnswerInvHolds, PTL DEF Spec

-----------------------------------------------------------------------------
(* The first rule broken in one presentation. *)

(* Where the rules about a presentation stand. *)
LEMMA PresentationRank ==
  ASSUME NEW p, IsPlan(p), NEW element, IsElement(element), PresentationDefect(p, element) # None
  PROVE  Rank(PresentationDefect(p, element)) \in 2..16
<1>1. /\ "presentation_not_string" \in DocumentedOrder[2] /\ "presentation_not_map" \in DocumentedOrder[4]
      /\ \A code \in ReadFailures : code \in DocumentedOrder[2] \/ code \in DocumentedOrder[3]
  BY DEF DocumentedOrder, ReadFailures
<1>2. /\ Rank("presentation_not_string") = 2 /\ Rank("presentation_not_map") = 4
      /\ \A code \in ReadFailures : Rank(code) \in 2..3
  BY <1>1, RankIs
<1>3. CASE IsPresentation(element)
  <2>1. Rank(PresentationDefect(p, element)) \in 5..16
    BY <1>3, PresentationByParts
  <2> QED
    BY <2>1
<1>4. CASE ~ IsPresentation(element)
  <2>1. CASE ~ HasType(element, "string")
    BY <1>2, <2>1 DEF PresentationDefect
  <2>2. CASE HasType(element, "string") /\ "failure" \in DOMAIN element
    BY <1>2, <2>2 DEF PresentationDefect, IsElement
  <2>3. CASE HasType(element, "string") /\ "failure" \notin DOMAIN element
    BY <1>2, <1>4, <2>3 DEF PresentationDefect, IsPresentation
  <2> QED
    BY <2>1, <2>2, <2>3
<1> QED
  BY <1>3, <1>4

(* And those about what is under one key: the results come last. *)
LEMMA MemberAtRank ==
  ASSUME NEW p, IsPlan(p), NEW entries, IsDeepMap(entries), NEW key, IsItem(key),
         MemberCode(p, key, Under(entries, key)) # None
  PROVE  LET rank == Rank(MemberCode(p, key, Under(entries, key)))
         IN rank \in 5..16 /\ (key # Text("results") => rank < 13)
<1> DEFINE items == Under(entries, key)
<1>1. ASSUME items # {}, IsA(The(items), "map") PROVE IsMap(The(items).entries)
  <2>1. PICK i \in DOMAIN entries : entries[i][1] = key
    BY <1>1 DEF Under
  <2>2. items = {entries[i][2]}
    BY <2>1, UnderKey DEF IsDeepMap
  <2>3. The({entries[i][2]}) = entries[i][2]
    BY DEF The
  <2> QED
    BY <1>1, <2>2, <2>3 DEF IsDeepMap
<1> HIDE DEF items
<1>2. /\ MemberNames = DOMAIN KindOf \cup {"proof_time"}
      /\ DOMAIN KindOf = {"system_id", "proof", "issuer_key_set", "results"}
  BY DEF MemberNames, KindOf
<1>3. IsA(key, "text") => key = Text(key.text)
  BY DEF IsItem, IsA
<1> DEFINE rank == Rank(MemberCode(p, key, items))
<1>4. /\ rank \in 5..16
      /\ ~ IsA(key, "text") => rank = 5
      /\ IsA(key, "text") =>
           /\ key.text \notin MemberNames => rank = 6
           /\ key.text = "proof_time" => rank = 12
           /\ key.text \in DOMAIN KindOf =>
                /\ items = {} => rank = 7
                /\ items # {} /\ ~ IsA(The(items), KindOf[key.text]) => rank = 8
                /\ items # {} /\ IsA(The(items), KindOf[key.text]) =>
                     /\ key.text = "system_id" => rank = 9
                     /\ key.text = "proof" => rank = 10
                     /\ key.text = "issuer_key_set" => rank = 11
  BY <1>1, MemberRank DEF items
<1> HIDE DEF rank
<1>5. key # Text("results") => rank < 13
  BY <1>2, <1>3, <1>4
<1> QED
  BY <1>4, <1>5 DEF rank, items

(* The place of the function whose result is changed. *)
Asked(change) == IF change.within = "results" THEN AskedAt(plan, change.key) ELSE 0

(* Of the changes of one presentation, what is refused is the first by its rule *)
(* and the function asked.                                                    *)
LEMMA FirstOfPlaced ==
  ASSUME NEW n, NEW id, Good(n, id), NEW element, IsElement(element), NEW changes, changes \subseteq Alterations,
         \A c \in changes : c.within # "token" /\ c.at \in 1..n,
         IsPlaced(element, changes, HonestPresentation(id, proved), HonestResults)
  PROVE  LET defect == PresentationDefect(plan, element)
         IN /\ \A c \in changes : Alone(c) # None => Rank(Alone(c)) \in 2..16
            /\ defect = None => \A c \in changes : Alone(c) = None
            /\ defect # None =>
                 \E first \in changes :
                   /\ Alone(first) = defect
                   /\ \A c \in changes : Alone(c) # None =>
                        ~ Sooner(Rank(Alone(c)), Asked(c), Rank(Alone(first)), Asked(first))
<1> DEFINE defect == PresentationDefect(plan, element)
           one == HonestPresentation(id, proved)
<1>1. IsPlan(plan)
  BY DEF Good
<1>2. \A c \in changes : Alone(c) = AloneDefect(c)
  BY AloneIs
<1>3. CASE \E c \in changes : changes = {c} /\ c.within = "element" /\ element = c.item
  <2>1. PICK c \in changes : changes = {c} /\ c.within = "element" /\ element = c.item
    BY <1>3
  <2>2. Alone(c) = defect /\ Asked(c) = 0
    BY <1>2, <2>1 DEF AloneDefect, Asked
  <2>3. defect # None => Rank(defect) \in 2..16
    BY <1>1, PresentationRank
  <2> HIDE DEF defect
  <2>4. defect # None => ~ Sooner(Rank(Alone(c)), Asked(c), Rank(Alone(c)), Asked(c))
    BY <2>2, <2>3 DEF Sooner
  <2> QED
    BY <2>1, <2>2, <2>3, <2>4 DEF defect
<1>4. CASE ~ \E c \in changes : changes = {c} /\ c.within = "element" /\ element = c.item
  <2> DEFINE entries == element.decoded.entries
             Code(key) == MemberCode(plan, key, Under(entries, key))
             Replaced == /\ \A c \in changes : c.within = "members"
                         /\ \A c \in changes : c.key = Text("results") =>
                              Under(entries, Text("results")) = Brought(c.item)
                         /\ \E c \in changes : c.key = Text("results")
             Edited == /\ \A c \in changes : c.within = "members" => c.key # Text("results")
                       /\ \E results : /\ IsMap(results)
                                       /\ Under(entries, Text("results")) = {Map(results)}
                                       /\ \A key : IsItem(key) =>
                                            Holds(results, changes, "results", HonestResults, key)
  <2>1. /\ \A c \in changes : c.within \in {"members", "results"}
        /\ IsPresentation(element)
        /\ \A key : IsItem(key) /\ key # Text("results") =>
             Holds(entries, changes, "members", one.decoded.entries, key)
        /\ Replaced \/ Edited
    BY <1>4 DEF IsPlaced
  <2>2. /\ \A key : IsItem(key) => MemberCode(plan, key, Under(one.decoded.entries, key)) = None
        /\ \A key : IsItem(key) => ResultCode(plan, key, Under(HonestResults, key)) = None
    BY HonestParts
  <2>3. \A c \in changes : /\ IsItem(c.key)
                           /\ AloneDefect(c) = IF c.within = "members" THEN MemberCode(plan, c.key, Brought(c.item))
                                               ELSE ResultCode(plan, c.key, Brought(c.item))
    BY <2>1, AlterationsAreReadable DEF AloneDefect
  <2>4. ASSUME NEW c \in changes, c.within = "members" PROVE AloneDefect(c) = Code(c.key)
    <3>1. Under(entries, c.key) = Brought(c.item)
      <4>1. CASE c.key = Text("results")
        BY <2>1, <2>4, <4>1
      <4>2. CASE c.key # Text("results")
        BY <2>1, <2>3, <2>4, <4>2 DEF Holds
      <4> QED
        BY <4>1, <4>2
    <3> QED
      BY <2>3, <2>4, <3>1
  <2>5. ASSUME NEW key, IsItem(key), key # Text("results"), Code(key) # None
        PROVE  \E c \in changes : c.within = "members" /\ c.key = key
    <3> SUFFICES ASSUME \A c \in changes : c.within = "members" => c.key # key PROVE FALSE
      OBVIOUS
    <3>1. Under(entries, key) = Under(one.decoded.entries, key)
      BY <2>1, <2>5 DEF Holds
    <3> QED
      BY <2>2, <2>5, <3>1
  <2>6. /\ IsDeepMap(entries)
        /\ defect = None => \A key : IsItem(key) => Code(key) = None
        /\ defect # None =>
             \E key : /\ IsItem(key) /\ Code(key) = defect /\ Rank(defect) \in 5..16
                      /\ \A other : IsItem(other) /\ Code(other) # None => Rank(defect) <= Rank(Code(other))
    BY <1>1, <2>1, PresentationByParts
  <2> HIDE DEF defect, entries
  <2>7. ASSUME NEW key, IsItem(key), Code(key) # None
        PROVE  Rank(Code(key)) \in 5..16 /\ (key # Text("results") => Rank(Code(key)) < 13)
    BY <1>1, <2>6, <2>7, MemberAtRank
  <2> HIDE DEF Code
  <2>8. \A c \in changes : AloneDefect(c) # None => Rank(AloneDefect(c)) \in 5..16
    <3> SUFFICES ASSUME NEW c \in changes, AloneDefect(c) # None PROVE Rank(AloneDefect(c)) \in 5..16
      OBVIOUS
    <3>1. CASE c.within = "members"
      BY <2>3, <2>4, <2>7, <3>1
    <3>2. CASE c.within # "members"
      <4>1. AloneDefect(c) = ResultCode(plan, c.key, Brought(c.item))
        BY <2>3, <3>2
      <4>2. Rank(AloneDefect(c)) = ResultRankAt(plan, c.key, Brought(c.item))
        BY <4>1, ResultRank
      <4> QED
        BY <4>2 DEF ResultRankAt
    <3> QED
      BY <3>1, <3>2
  <2>9. \A c \in changes : c.within = "members" => Asked(c) = 0
    BY DEF Asked
  <2> DEFINE Named(first) == /\ AloneDefect(first) = defect
                             /\ \A c \in changes : AloneDefect(c) # None =>
                                  ~ Sooner(Rank(AloneDefect(c)), Asked(c), Rank(AloneDefect(first)), Asked(first))
  <2>10. ASSUME NEW first \in changes, first.within = "members", AloneDefect(first) = defect, defect # None,
                \A c \in changes : AloneDefect(c) # None => Rank(defect) <= Rank(AloneDefect(c))
         PROVE  Named(first)
    <3>1. Asked(first) = 0 /\ \A c \in changes : Asked(c) \in Nat
      BY <1>1, <2>9, <2>10, AskedIs DEF Asked
    <3> QED
      BY <2>8, <2>10, <3>1 DEF Sooner
  <2>11. /\ defect = None => \A c \in changes : AloneDefect(c) = None
         /\ defect # None => \E first \in changes : Named(first)
    <3>1. CASE Replaced
      <4>1. ASSUME defect = None, NEW c \in changes PROVE AloneDefect(c) = None
        BY <2>3, <2>4, <2>6, <3>1, <4>1
      <4>2. ASSUME defect # None PROVE \E first \in changes : Named(first)
        <5>1. PICK key : /\ IsItem(key) /\ Code(key) = defect /\ Rank(defect) \in 5..16
                         /\ \A other : IsItem(other) /\ Code(other) # None => Rank(defect) <= Rank(Code(other))
          BY <2>6, <4>2
        <5>2. PICK first \in changes : first.within = "members" /\ first.key = key
          BY <2>5, <3>1, <4>2, <5>1
        <5>3. \A c \in changes : AloneDefect(c) # None => Rank(defect) <= Rank(AloneDefect(c))
          BY <2>3, <2>4, <3>1, <5>1
        <5>4. AloneDefect(first) = defect
          BY <2>4, <5>1, <5>2
        <5> HIDE DEF Named
        <5> QED
          BY <2>10, <4>2, <5>2, <5>3, <5>4
      <4> QED
        BY <4>1, <4>2
    <3>2. CASE Edited
      <4>1. PICK results : /\ IsMap(results)
                           /\ Under(entries, Text("results")) = {Map(results)}
                           /\ \A key : IsItem(key) => Holds(results, changes, "results", HonestResults, key)
        BY <3>2
      <4>2. \A c \in changes : c.within = "members" => c.key # Text("results")
        BY <3>2
      <4> DEFINE part == ResultsDefect(plan, results)
                 Part(key) == ResultCode(plan, key, Under(results, key))
      <4>3. Code(Text("results")) = part /\ IsItem(Text("results"))
        BY <4>1, ResultsMember DEF Code, IsItem, Text
      <4>4. ASSUME NEW c \in changes, c.within = "results" PROVE AloneDefect(c) = Part(c.key)
        BY <2>3, <4>1, <4>4 DEF Holds
      <4>5. ASSUME NEW key, IsItem(key), Part(key) # None
            PROVE  \E c \in changes : c.within = "results" /\ c.key = key
        <5> SUFFICES ASSUME \A c \in changes : c.within = "results" => c.key # key PROVE FALSE
          OBVIOUS
        <5>1. Under(results, key) = Under(HonestResults, key)
          BY <4>1, <4>5 DEF Holds
        <5> QED
          BY <2>2, <4>5, <5>1
      <4>6. /\ part = None => \A key : IsItem(key) => Part(key) = None
            /\ part # None =>
                 \E key : /\ IsItem(key) /\ Part(key) = part
                          /\ \A other : IsItem(other) /\ Part(other) # None =>
                               ~ Sooner(Rank(Part(other)), AskedAt(plan, other), Rank(part), AskedAt(plan, key))
        BY <1>1, <4>1, ResultsByParts
      <4>7. part # None => Rank(part) \in 13..16
        BY <1>1, <4>1, ResultsRank
      <4>8. \A key : AskedAt(plan, key) \in Nat
        BY <1>1, AskedIs
      <4> HIDE DEF part, Part
      <4>9. ASSUME defect = None, NEW c \in changes PROVE AloneDefect(c) = None
        <5>1. part = None
          BY <2>6, <4>3, <4>9
        <5>2. Code(c.key) = None /\ Part(c.key) = None
          BY <2>3, <2>6, <4>6, <4>9, <5>1
        <5> QED
          BY <2>1, <2>4, <4>4, <5>2
      <4>10. ASSUME defect # None PROVE \E first \in changes : Named(first)
        <5>1. PICK key : /\ IsItem(key) /\ Code(key) = defect /\ Rank(defect) \in 5..16
                         /\ \A other : IsItem(other) /\ Code(other) # None => Rank(defect) <= Rank(Code(other))
          BY <2>6, <4>10
        <5>2. \A c \in changes : c.within = "members" /\ AloneDefect(c) # None => Rank(defect) <= Rank(AloneDefect(c))
          BY <2>3, <2>4, <5>1
        <5>3. CASE key # Text("results")
          <6>1. PICK first \in changes : first.within = "members" /\ first.key = key
            BY <2>5, <4>10, <5>1, <5>3
          <6>2. AloneDefect(first) = defect
            BY <2>4, <5>1, <6>1
          <6>3. ASSUME NEW c \in changes, c.within = "results", AloneDefect(c) # None
                PROVE  Rank(defect) <= Rank(AloneDefect(c))
            <7>1. IsItem(c.key) /\ Part(c.key) = AloneDefect(c) /\ Part(c.key) # None
              BY <2>3, <4>4, <6>3
            <7>2. part # None
              BY <4>6, <7>1
            <7>3. PICK least : /\ IsItem(least) /\ Part(least) = part
                               /\ \A other : IsItem(other) /\ Part(other) # None =>
                                    ~ Sooner(Rank(Part(other)), AskedAt(plan, other), Rank(part), AskedAt(plan, least))
              BY <4>6, <7>2
            <7>4. ~ (Rank(AloneDefect(c)) < Rank(part))
              BY <7>1, <7>3 DEF Sooner
            <7>5. Rank(defect) <= Rank(part)
              BY <4>3, <5>1, <7>2
            <7> QED
              BY <2>8, <4>7, <5>1, <6>3, <7>2, <7>4, <7>5
          <6>4. \A c \in changes : AloneDefect(c) # None => Rank(defect) <= Rank(AloneDefect(c))
            BY <2>1, <5>2, <6>3
          <6> HIDE DEF Named
          <6> QED
            BY <2>10, <4>10, <6>1, <6>2, <6>4
        <5>4. CASE key = Text("results")
          <6>1. part = defect
            BY <4>3, <5>1, <5>4
          <6>2. PICK least : /\ IsItem(least) /\ Part(least) = part
                             /\ \A other : IsItem(other) /\ Part(other) # None =>
                                  ~ Sooner(Rank(Part(other)), AskedAt(plan, other), Rank(part), AskedAt(plan, least))
            BY <4>6, <4>10, <6>1
          <6>3. PICK first \in changes : first.within = "results" /\ first.key = least
            BY <4>5, <4>10, <6>1, <6>2
          <6>4. AloneDefect(first) = defect /\ Asked(first) = AskedAt(plan, least)
            BY <4>4, <6>1, <6>2, <6>3 DEF Asked
          <6>5. ASSUME NEW c \in changes, AloneDefect(c) # None
                PROVE  ~ Sooner(Rank(AloneDefect(c)), Asked(c), Rank(defect), Asked(first))
            <7>1. CASE c.within = "results"
              <8>1. IsItem(c.key) /\ Part(c.key) = AloneDefect(c) /\ Asked(c) = AskedAt(plan, c.key)
                BY <2>3, <4>4, <7>1 DEF Asked
              <8> QED
                BY <6>1, <6>2, <6>4, <6>5, <8>1
            <7>2. CASE c.within = "members"
              <8>1. Rank(AloneDefect(c)) < 13 /\ Rank(AloneDefect(c)) \in 5..16
                BY <2>3, <2>4, <2>7, <4>2, <6>5, <7>2
              <8>2. Rank(defect) <= Rank(AloneDefect(c)) /\ Rank(defect) \in 13..16
                BY <4>7, <4>10, <5>2, <6>1, <6>5, <7>2
              <8> QED
                BY <8>1, <8>2
            <7> QED
              BY <2>1, <7>1, <7>2
          <6> QED
            BY <6>3, <6>4, <6>5
        <5> QED
          BY <5>3, <5>4
      <4> QED
        BY <4>9, <4>10
    <3> HIDE DEF Named, Replaced, Edited
    <3> QED
      BY <2>1, <3>1, <3>2
  <2>12. \A c \in changes : Alone(c) # None => Rank(Alone(c)) \in 2..16
    BY <1>2, <2>8
  <2> QED
    BY <1>2, <2>11, <2>12 DEF defect
<1> QED
  BY <1>3, <1>4

-----------------------------------------------------------------------------
(* The rule that is named. *)

(* What an answer is refused for is in the table of the rules.                *)
LEMMA AnswerRank ==
  ASSUME IsPlan(plan), NEW value, IsToken(value), AnswerDefect(value) # None
  PROVE  Rank(AnswerDefect(value)) \in 1..16
<1> DEFINE Defect(element) == PresentationDefect(plan, element)
           arrived == PresentationsOf(plan, value)
           broken == {i \in DOMAIN arrived : Defect(arrived[i]) # None}
<1>1. CASE EnvelopeDefect(plan, value) # None
  <2>1. EnvelopeDefect(plan, value) \in DocumentedOrder[1]
    BY <1>1 DEF EnvelopeDefect, DocumentedOrder
  <2>2. AnswerDefect(value) = EnvelopeDefect(plan, value)
    BY <1>1 DEF AnswerDefect
  <2>3. Rank(EnvelopeDefect(plan, value)) = 1
    BY <2>1, RankIs
  <2> QED
    BY <2>2, <2>3
<1>2. CASE EnvelopeDefect(plan, value) = None
  <2>1. IsSequence(arrived) /\ \A i \in DOMAIN arrived : IsElement(arrived[i])
    BY <1>2, EnvelopeIsGood
  <2>2. broken \in SUBSET Nat
    BY <2>1 DEF IsSequence
  <2>3. broken # {} /\ AnswerDefect(value) = Defect(arrived[FirstIndex(broken)])
    BY <1>2 DEF AnswerDefect, FirstDefect
  <2>4. FirstIndex(broken) \in broken
    BY <2>2, <2>3, FirstIsFirst
  <2> QED
    BY <2>1, <2>3, <2>4, PresentationRank
<1> QED
  BY <1>1, <1>2

LEMMA DefectStays ==
  ASSUME UNCHANGED <<plan, token>>
  PROVE  AnswerDefect(token)' = AnswerDefect(token)
BY DEF AnswerDefect, FirstDefect

(* An answer that is refused is refused for its first defect. *)
RefusedInv == phase = "refused" => verdict = AnswerDefect(token) /\ verdict # None

LEMMA RefusedInvHolds == Spec => []RefusedInv
<1>1. Init => RefusedInv
  BY DEF Init, RefusedInv
<1>2. AnswerInv /\ CheckInv /\ RefusedInv /\ [Next]_vars => RefusedInv'
  <2> SUFFICES ASSUME AnswerInv, CheckInv, RefusedInv, [Next]_vars PROVE RefusedInv'
    OBVIOUS
  <2>1. ASSUME phase' # "refused" PROVE RefusedInv'
    BY <2>1 DEF RefusedInv
  <2>2. ASSUME UNCHANGED <<plan, token, verdict, phase>> PROVE RefusedInv'
    BY <2>2, DefectStays DEF RefusedInv
  <2>3. CASE PlanRequest
    BY <2>1, <2>3 DEF PlanRequest
  <2>4. CASE Decline
    BY <2>1, <2>4 DEF Decline
  <2>5. CASE Prove
    BY <2>1, <2>5 DEF Prove
  <2>6. CASE Alter
    BY <2>1, <2>6 DEF Alter
  <2>7. CASE Deliver
    BY <2>1, <2>7 DEF Deliver
  <2>8. CASE Tick
    BY <2>2, <2>8 DEF Tick, answer, judged
  <2>9. CASE RefuseEnvelope
    <3>1. /\ EnvelopeDefect(plan, token) # None /\ verdict' = EnvelopeDefect(plan, token)
          /\ UNCHANGED <<plan, token>>
      BY <2>9 DEF RefuseEnvelope, Refuse, answer
    <3>2. AnswerDefect(token) = EnvelopeDefect(plan, token)
      BY <3>1 DEF AnswerDefect
    <3> QED
      BY <3>1, <3>2, DefectStays DEF RefusedInv
  <2>10. CASE CheckPresentation
    <3> DEFINE arrived == PresentationsOf(plan, token)
               Defect(element) == PresentationDefect(plan, element)
               broken == {i \in DOMAIN arrived : Defect(arrived[i]) # None}
    <3>1. /\ phase = "checking" /\ EnvelopeDefect(plan, token) = None /\ at <= Len(arrived)
          /\ UNCHANGED <<plan, token>>
      BY <2>10 DEF CheckPresentation, Judging, answer
    <3>2. CASE Defect(arrived[at]) = None
      BY <2>1, <2>10, <3>1, <3>2 DEF CheckPresentation
    <3>3. CASE Defect(arrived[at]) # None
      <4>1. verdict' = Defect(arrived[at])
        BY <2>10, <3>3 DEF CheckPresentation, Refuse
      <4>2. IsToken(token)
        BY <3>1 DEF AnswerInv, Answered
      <4>3. IsSequence(arrived)
        BY <3>1, <4>2, EnvelopeIsGood
      <4>4. at \in Nat \ {0} /\ \A i \in 1..(at - 1) : Defect(arrived[i]) = None
        BY <3>1 DEF CheckInv
      <4>5. DOMAIN arrived = 1..Len(arrived) /\ Len(arrived) \in Nat
        BY <4>3 DEF IsSequence
      <4>6. at \in broken /\ broken \in SUBSET Nat
        BY <3>1, <3>3, <4>4, <4>5
      <4>7. FirstIndex(broken) \in broken /\ \A i \in broken : FirstIndex(broken) <= i
        BY <4>6, FirstIsFirst
      <4>8. AnswerDefect(token) = Defect(arrived[FirstIndex(broken)])
        BY <3>1, <4>6 DEF AnswerDefect, FirstDefect
      <4> HIDE DEF arrived, Defect
      <4>9. FirstIndex(broken) = at
        <5>1. FirstIndex(broken) \notin 1..(at - 1)
          BY <4>4, <4>7
        <5>2. FirstIndex(broken) \in 1..Len(arrived)
          BY <4>5, <4>7
        <5> HIDE DEF broken
        <5> QED
          BY <4>4, <4>5, <4>6, <4>7, <5>1, <5>2
      <4> QED
        BY <3>1, <3>3, <4>1, <4>8, <4>9, DefectStays DEF RefusedInv
    <3> QED
      BY <3>2, <3>3
  <2>11. CASE AcceptShape
    BY <2>1, <2>11 DEF AcceptShape
  <2>12. CASE CheckTimes
    BY <2>1, <2>12 DEF CheckTimes
  <2>13. CASE UNCHANGED vars
    BY <2>2, <2>13 DEF vars
  <2> QED
    BY <2>3, <2>4, <2>5, <2>6, <2>7, <2>8, <2>9, <2>10, <2>11, <2>12, <2>13 DEF Next, Done
<1> QED
  BY <1>1, <1>2, AnswerInvHolds, CheckInvHolds, PTL DEF Spec

(* An answer that passes has no defect. *)
LEMMA PassedHasNoDefect ==
  ASSUME PlanInv, AnswerInv, CheckInv, Shaped
  PROVE  AnswerDefect(token) = None
<1> DEFINE arrived == PresentationsOf(plan, token)
           Defect(element) == PresentationDefect(plan, element)
<1>1. EnvelopeDefect(plan, token) = None /\ \A i \in DOMAIN arrived : Defect(arrived[i]) = None
  BY AllWereChecked
<1> QED
  BY <1>1 DEF AnswerDefect, FirstDefect

(* The order of two changes, by what each would be refused for.               *)
LEMMA OrderIs ==
  ASSUME NEW a, NEW b, a.at \in Nat, b.at \in Nat, Rank(Alone(a)) \in 1..16, Rank(Alone(b)) \in 1..16,
         Asked(a) \in Nat, Asked(b) \in Nat
  PROVE  LET Place(c) == IF Rank(Alone(c)) = 1 THEN 0 ELSE c.at
         IN StandsBefore(Standing(a), Standing(b)) <=>
              \/ Place(a) < Place(b)
              \/ Place(a) = Place(b) /\ Sooner(Rank(Alone(a)), Asked(a), Rank(Alone(b)), Asked(b))
<1> DEFINE Place(c) == IF Rank(Alone(c)) = 1 THEN 0 ELSE c.at
<1>1. \A c : Standing(c) = <<Place(c), Rank(Alone(c)), Asked(c)>>
  <2> TAKE c
  <2>1. CASE c.within = "results"
    BY <2>1 DEF Standing, Asked, AskedAt
  <2>2. CASE c.within # "results"
    BY <2>2 DEF Standing, Asked
  <2> QED
    BY <2>1, <2>2
<1>2. /\ Place(a) \in Nat /\ Place(b) \in Nat
      /\ Rank(Alone(a)) \in Nat /\ Rank(Alone(b)) \in Nat
  OBVIOUS
<1>3. ASSUME NEW x1 \in Nat, NEW x2 \in Nat, NEW x3 \in Nat, NEW y1 \in Nat, NEW y2 \in Nat, NEW y3 \in Nat
      PROVE  StandsBefore(<<x1, x2, x3>>, <<y1, y2, y3>>) <=>
               x1 < y1 \/ (x1 = y1 /\ (x2 < y2 \/ (x2 = y2 /\ x3 < y3)))
  <2> DEFINE x == <<x1, x2, x3>>
             y == <<y1, y2, y3>>
  <2>1. x[1] = x1 /\ x[2] = x2 /\ x[3] = x3 /\ y[1] = y1 /\ y[2] = y2 /\ y[3] = y3
    OBVIOUS
  <2> HIDE DEF x, y
  <2>2. 1..(1 - 1) = {} /\ 1..(2 - 1) = {1} /\ 1..(3 - 1) = {1, 2} /\ 1..3 = {1, 2, 3}
    OBVIOUS
  <2>3. StandsBefore(x, y) <=> \/ x[1] < y[1]
                               \/ x[2] < y[2] /\ x[1] = y[1]
                               \/ x[3] < y[3] /\ x[1] = y[1] /\ x[2] = y[2]
    BY <2>2 DEF StandsBefore
  <2>4. StandsBefore(x, y) <=> x1 < y1 \/ (x1 = y1 /\ (x2 < y2 \/ (x2 = y2 /\ x3 < y3)))
    BY <2>1, <2>3
  <2> QED
    BY <2>4 DEF x, y
<1> HIDE DEF Place
<1>4. StandsBefore(<<Place(a), Rank(Alone(a)), Asked(a)>>, <<Place(b), Rank(Alone(b)), Asked(b)>>) <=>
        Place(a) < Place(b) \/ (Place(a) = Place(b) /\ (Rank(Alone(a)) < Rank(Alone(b))
                            \/ (Rank(Alone(a)) = Rank(Alone(b)) /\ Asked(a) < Asked(b))))
  BY <1>2, <1>3
<1> QED
  BY <1>1, <1>4 DEF Sooner, Place

(* What the answer is refused for is what a change of it would be refused for *)
(* alone, and no other change stands before that one.                         *)
LEMMA AlteredIsNamed ==
  ASSUME PlanInv, AnswerInv, AlteredInv, Answered, HonestIsGood
  PROVE  LET wrong == {c \in altered : Alone(c) # None}
         IN /\ AnswerDefect(token) = None => wrong = {}
            /\ AnswerDefect(token) # None =>
                 \E first \in wrong : /\ Alone(first) = AnswerDefect(token)
                                      /\ \A other \in wrong : ~ StandsBefore(Standing(other), Standing(first))
<1>1. IsPlan(plan) /\ plan.raw = request.query
  BY PlanIsThere DEF Unplanned, Answered
<1>2. IsToken(token) /\ Is(plan.raw.id, "string")
  BY DEF AnswerInv
<1>3. altered \subseteq Alterations /\ \A c \in altered : c.at \in Nat
  BY AlterationsAreReadable DEF AlteredInv
<1>4. \A c \in altered : Asked(c) \in Nat
  BY <1>1, AskedIs DEF Asked
<1>5. CASE \E c \in altered : altered = {c} /\ c.within = "token" /\ token = c.item
  <2>1. PICK c \in altered : altered = {c} /\ c.within = "token" /\ token = c.item
    BY <1>5
  <2>2. Alone(c) = AnswerDefect(token)
    BY <2>1 DEF Alone, Alteration
  <2>3. ASSUME Alone(c) # None PROVE ~ StandsBefore(Standing(c), Standing(c))
    <3>1. Rank(Alone(c)) \in 1..16
      BY <1>1, <1>2, <2>2, <2>3, AnswerRank
    <3>2. c.at \in Nat /\ Asked(c) \in Nat
      BY <1>3, <1>4
    <3> QED
      BY <3>1, <3>2, OrderIs DEF Sooner
  <2> QED
    BY <2>1, <2>2, <2>3
<1>6. CASE \A c \in altered : c.within # "token"
  <2>1. PICK n \in 1..MaxPresentations, id \in SystemsToUse :
          /\ honest = HonestAnswer(n, id, proved) /\ IsAnswer(plan, token, n)
          /\ \A c \in altered : c.at \in 1..n
          /\ \A i \in 1..n : IsPlaced(Items(token)[i], ChangesAt(altered, i),
                                      HonestPresentation(id, proved), HonestResults)
    BY <1>6 DEF AlteredInv
  <2>2. n \in Nat \ {0}
    BY ClocksAreNumbers
  <2>3. Len(Items(honest)) = n
    <3>1. IsAnswer(plan, honest, n)
      BY <1>1, <2>1, <2>2, HonestIsAnswer
    <3>2. IsSequence(Items(honest)) /\ DOMAIN Items(honest) = 1..n
      BY <3>1 DEF IsAnswer, IsToken, Items
    <3> QED
      BY <2>2, <3>2 DEF IsSequence
  <2>4. Good(n, id)
    BY <1>1, <1>2, <2>1, <2>2, <2>3 DEF Good, HonestIsGood, Items
  <2> DEFINE Defect(i) == PresentationDefect(plan, Items(token)[i])
             broken == {i \in 1..n : Defect(i) # None}
  <2>5. /\ \A i \in 1..n : IsElement(Items(token)[i])
        /\ AnswerDefect(token) = IF broken = {} THEN None ELSE Defect(FirstIndex(broken))
    BY <1>2, <2>1, <2>2, <2>4, AnswerIs DEF Good
  <2>6. ASSUME NEW i \in 1..n
        PROVE  /\ \A c \in ChangesAt(altered, i) : Alone(c) # None => Rank(Alone(c)) \in 2..16
               /\ Defect(i) = None => \A c \in ChangesAt(altered, i) : Alone(c) = None
               /\ Defect(i) # None =>
                    \E first \in ChangesAt(altered, i) :
                      /\ Alone(first) = Defect(i)
                      /\ \A c \in ChangesAt(altered, i) : Alone(c) # None =>
                           ~ Sooner(Rank(Alone(c)), Asked(c), Rank(Alone(first)), Asked(first))
    <3>1. /\ ChangesAt(altered, i) \subseteq Alterations
          /\ \A c \in ChangesAt(altered, i) : c.within # "token" /\ c.at \in 1..n
      BY <1>3, <1>6, <2>1 DEF ChangesAt
    <3>2. IsElement(Items(token)[i]) /\ IsPlaced(Items(token)[i], ChangesAt(altered, i),
                                                 HonestPresentation(id, proved), HonestResults)
      BY <2>1, <2>5
    <3> QED
      BY <2>4, <3>1, <3>2, FirstOfPlaced
  <2> HIDE DEF Defect
  <2>7. \A c \in altered : c \in ChangesAt(altered, c.at) /\ c.at \in 1..n
    BY <2>1 DEF ChangesAt
  <2>8. ASSUME AnswerDefect(token) = None, NEW c \in altered PROVE Alone(c) = None
    <3>1. broken = {}
      <4> SUFFICES ASSUME broken # {} PROVE FALSE
        OBVIOUS
      <4>1. FirstIndex(broken) \in broken
        BY <2>2, FirstIsFirst
      <4> QED
        BY <2>5, <2>8, <4>1
    <3> QED
      BY <2>6, <2>7, <3>1
  <2>9. ASSUME AnswerDefect(token) # None
        PROVE  \E first \in altered :
                 /\ Alone(first) = AnswerDefect(token)
                 /\ \A other \in altered : Alone(other) # None => ~ StandsBefore(Standing(other), Standing(first))
    <3> DEFINE i == FirstIndex(broken)
    <3>1. broken # {} /\ AnswerDefect(token) = Defect(i)
      BY <2>5, <2>9
    <3>2. i \in broken /\ \A j \in broken : i <= j
      BY <2>2, <3>1, FirstIsFirst
    <3> HIDE DEF i
    <3>3. PICK first \in ChangesAt(altered, i) :
            /\ Alone(first) = Defect(i)
            /\ \A c \in ChangesAt(altered, i) : Alone(c) # None =>
                 ~ Sooner(Rank(Alone(c)), Asked(c), Rank(Alone(first)), Asked(first))
      BY <2>6, <3>2
    <3>4. first \in altered /\ first.at = i /\ Rank(Alone(first)) \in 2..16
      BY <2>6, <3>2, <3>3 DEF ChangesAt
    <3>5. ASSUME NEW other \in altered, Alone(other) # None
          PROVE  ~ StandsBefore(Standing(other), Standing(first))
      <4>1. other.at \in 1..n /\ other \in ChangesAt(altered, other.at) /\ Rank(Alone(other)) \in 2..16
        BY <2>6, <2>7, <3>5
      <4>2. other.at \in broken
        BY <2>6, <3>5, <4>1
      <4>3. i <= other.at /\ i \in Nat
        BY <3>2, <4>2
      <4>4. other.at = i => ~ Sooner(Rank(Alone(other)), Asked(other), Rank(Alone(first)), Asked(first))
        BY <3>3, <3>5, <4>1
      <4>5. /\ Asked(first) \in Nat /\ Asked(other) \in Nat /\ first.at \in Nat /\ other.at \in Nat
            /\ Rank(Alone(other)) \in 1..16 /\ Rank(Alone(first)) \in 1..16
        BY <1>3, <1>4, <3>4, <4>1
      <4>6. StandsBefore(Standing(other), Standing(first)) <=>
              \/ other.at < first.at
              \/ other.at = first.at /\ Sooner(Rank(Alone(other)), Asked(other), Rank(Alone(first)), Asked(first))
        BY <3>4, <4>1, <4>5, OrderIs
      <4> QED
        BY <3>4, <4>3, <4>4, <4>5, <4>6
    <3> QED
      BY <3>1, <3>3, <3>4, <3>5
  <2> QED
    BY <2>8, <2>9
<1> QED
  BY <1>5, <1>6 DEF AlteredInv

(* However many places of an answer are wrong, and whatever is in them, the   *)
(* code returned is that of the first rule of the documentation, in the first *)
(* presentation that breaks one; what passes would have passed change by      *)
(* change.                                                                    *)
THEOREM FirstIsNamed == Spec => []FirstRuleIsNamed
<1>1. PlanInv /\ AnswerInv /\ CheckInv /\ AlteredInv /\ RefusedInv => FirstRuleIsNamed
  <2> SUFFICES ASSUME PlanInv, AnswerInv, CheckInv, AlteredInv, RefusedInv, HonestIsGood,
                      phase \in {"refused", "shaped", "verified", "stale"}
               PROVE  LET wrong == {change \in altered : Alone(change) # None}
                      IN IF wrong = {} THEN phase # "refused"
                         ELSE /\ phase = "refused"
                              /\ \E first \in wrong :
                                   /\ verdict = Alone(first)
                                   /\ \A other \in wrong : ~ StandsBefore(Standing(other), Standing(first))
    BY DEF FirstRuleIsNamed
  <2> DEFINE wrong == {change \in altered : Alone(change) # None}
  <2>1. /\ AnswerDefect(token) = None => wrong = {}
        /\ AnswerDefect(token) # None =>
             \E first \in wrong : /\ Alone(first) = AnswerDefect(token)
                                  /\ \A other \in wrong : ~ StandsBefore(Standing(other), Standing(first))
    <3>1. Answered
      BY DEF Answered
    <3> QED
      BY <3>1, AlteredIsNamed
  <2> HIDE DEF wrong
  <2>2. CASE phase = "refused"
    BY <2>1, <2>2 DEF RefusedInv, wrong
  <2>3. CASE phase # "refused"
    <3>1. AnswerDefect(token) = None
      BY <2>3, PassedHasNoDefect DEF Shaped
    <3>2. wrong = {}
      BY <2>1, <3>1
    <3> QED
      BY <2>3, <3>2 DEF wrong
  <2> QED
    BY <2>2, <2>3
<1> QED
  BY <1>1, PlanInvHolds, AnswerInvHolds, CheckInvHolds, AlteredInvHolds, RefusedInvHolds, PTL
=============================================================================
