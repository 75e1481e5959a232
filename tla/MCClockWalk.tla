---------------------------- MODULE MCClockWalk ----------------------------
(* A walk through one whole cycle of four centuries, and the ends of the    *)
(* years of four digits.                                                    *)
EXTENDS ClockWalk

MCFirstDates == {<<<<1970, 1, 1>>, 0>>, <<<<0, 1, 1>>, -719528>>, <<<<9999, 10, 1>>, 2932805>>}
MCTimesOfDay == {0, 59, 60, 3599, 3600, 45296, 86399}
MCMinInt == -300000
MCTexts ==
  {NotTheForm, <<1970, 1, 1, 0, 0, 0>>, <<1970, 1, 1, 23, 59, 59>>, <<1970, 1, 2, 0, 0, 0>>,
   <<1969, 12, 31, 23, 59, 59>>, <<1970, 2, 29, 0, 0, 0>>, <<1970, 13, 1, 0, 0, 0>>,
   <<1970, 1, 1, 24, 0, 0>>, <<1970, 1, 1, 23, 59, 60>>}
MCJudged ==
  [text : MCTexts, now : {MinInt, -600, 0, 86340, 86399, 86999, MaxInt},
   skew : {0, 60, MaxInt, MinInt}, maxAge : {0, 600, MaxInt, MinInt}]
=============================================================================
