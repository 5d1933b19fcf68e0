-------------------------- MODULE OfflineRun_proof --------------------------
(***************************************************************************)
(* The time loop of OFFLINE, for forcing files of any length and dates and *)
(* time steps of any value, and the calendar it counts in.                 *)
(*                                                                         *)
(* ADD_FORECAST_TO_DATE_SURF computes, for every date, a date of the       *)
(* calendar, the same whether the seconds are added at once or in steps,   *)
(* and a later one.                                                        *)
(*                                                                         *)
(* ClockInv says where the run is in the forcing file and in time;         *)
(* ReadingInv, which lines of the file the buffer holds; OutputInv and     *)
(* NameInv, what has been written.  Each rests on the ones before.         *)
(***************************************************************************)
EXTENDS OfflineRun, Sums_proof, SequenceTheorems

-----------------------------------------------------------------------------
(* AddDays is the function its recursive definition describes: it exists,  *)
(* as the limit of what the first n iterations compute.                    *)

Iterates(d, n, g) == g = [i \in 0 .. n |-> IF i = 0 THEN d ELSE AddDay(g[i - 1])]

LEMMA IteratesExist ==
  ASSUME NEW d
  PROVE  \A n \in Nat : \E g : Iterates(d, n, g)
<1> DEFINE S == {n \in Nat : \E g : Iterates(d, n, g)}
<1>1. 0 \in S
  <2> DEFINE g == [i \in 0 .. 0 |-> d]
  <2>1. g = [i \in 0 .. 0 |-> IF i = 0 THEN d ELSE AddDay(g[i - 1])]
    OBVIOUS
  <2> QED
    BY <2>1 DEF Iterates
<1>2. ASSUME NEW n \in Nat, n \in S PROVE n + 1 \in S
  <2>1. PICK g : Iterates(d, n, g)
    BY <1>2
  <2> DEFINE h == [i \in 0 .. n + 1 |-> IF i = 0 THEN d ELSE AddDay(g[i - 1])]
  <2>2. ASSUME NEW i \in 0 .. n PROVE h[i] = g[i]
    BY <2>1 DEF Iterates
  <2>3. ASSUME NEW i \in 0 .. n + 1
        PROVE  h[i] = IF i = 0 THEN d ELSE AddDay(h[i - 1])
    <3>1. CASE i = 0
      BY <3>1
    <3>2. CASE i # 0
      <4>1. i - 1 \in 0 .. n
        BY <3>2
      <4>2. h[i - 1] = g[i - 1]
        BY <4>1, <2>2
      <4> HIDE DEF h
      <4>3. h[i] = AddDay(g[i - 1])
        BY <3>2 DEF h
      <4> QED
        BY <3>2, <4>2, <4>3
    <3> QED
      BY <3>1, <3>2
  <2>4. DOMAIN h = 0 .. n + 1 /\ h = [i \in 0 .. n + 1 |-> h[i]]
    OBVIOUS
  <2>5. h = [i \in 0 .. n + 1 |-> IF i = 0 THEN d ELSE AddDay(h[i - 1])]
    <3> HIDE DEF h
    <3> QED
      BY <2>3, <2>4
  <2>6. Iterates(d, n + 1, h)
    BY <2>5 DEF Iterates
  <2> QED
    BY <2>6
<1> HIDE DEF S
<1>3. Nat \subseteq S
  BY <1>1, <1>2, SetInduction
<1> QED
  BY <1>3 DEF S

LEMMA IteratesAgree ==
  ASSUME NEW d, NEW m \in Nat, NEW n \in Nat, NEW g, NEW h,
         Iterates(d, m, g), Iterates(d, n, h)
  PROVE  \A i \in Nat : i <= m /\ i <= n => g[i] = h[i]
<1> DEFINE S == {i \in Nat : i <= m /\ i <= n => g[i] = h[i]}
<1>1. 0 \in S
  BY DEF Iterates
<1>2. ASSUME NEW i \in Nat, i \in S PROVE i + 1 \in S
  <2> SUFFICES ASSUME i + 1 <= m, i + 1 <= n PROVE g[i + 1] = h[i + 1]
    OBVIOUS
  <2>1. g[i] = h[i]
    BY <1>2
  <2>2. i + 1 \in 0 .. m /\ i + 1 \in 0 .. n /\ i + 1 # 0 /\ (i + 1) - 1 = i
    OBVIOUS
  <2>3. g[i + 1] = AddDay(g[i]) /\ h[i + 1] = AddDay(h[i])
    BY <2>2 DEF Iterates
  <2> QED
    BY <2>1, <2>3
<1> HIDE DEF S
<1>3. Nat \subseteq S
  BY <1>1, <1>2, SetInduction
<1> QED
  BY <1>3 DEF S

LEMMA AddDaysDef ==
  ASSUME NEW d
  PROVE  /\ AddDays(d)[0] = d
         /\ \A n \in Nat : AddDays(d)[n + 1] = AddDay(AddDays(d)[n])
<1> DEFINE part(n) == CHOOSE g : Iterates(d, n, g)
           f == [n \in Nat |-> part(n)[n]]
<1>1. \A n \in Nat : Iterates(d, n, part(n))
  BY IteratesExist
<1> HIDE DEF part
<1>2. f[0] = d
  BY <1>1 DEF Iterates
<1>3. ASSUME NEW n \in Nat PROVE f[n + 1] = AddDay(f[n])
  <2>1. n + 1 \in Nat /\ n + 1 \in 0 .. n + 1 /\ n + 1 # 0 /\ (n + 1) - 1 = n
    OBVIOUS
  <2>2. Iterates(d, n + 1, part(n + 1)) /\ Iterates(d, n, part(n))
    BY <1>1, <2>1
  <2>3. part(n + 1)[n + 1] = AddDay(part(n + 1)[n])
    BY <2>1, <2>2 DEF Iterates
  <2>4. part(n + 1)[n] = part(n)[n]
    BY <2>1, <2>2, IteratesAgree
  <2> QED
    BY <2>1, <2>3, <2>4
<1>4. f = [n \in Nat |-> IF n = 0 THEN d ELSE AddDay(f[n - 1])]
  <2>1. ASSUME NEW n \in Nat PROVE f[n] = IF n = 0 THEN d ELSE AddDay(f[n - 1])
    <3>1. CASE n = 0
      BY <3>1, <1>2
    <3>2. CASE n # 0
      <4>1. n - 1 \in Nat /\ (n - 1) + 1 = n
        BY <3>2
      <4> HIDE DEF f
      <4> QED
        BY <3>2, <4>1, <1>3
    <3> QED
      BY <3>1, <3>2
  <2>2. f = [n \in Nat |-> f[n]]
    OBVIOUS
  <2> HIDE DEF f
  <2> QED
    BY <2>1, <2>2
<1> HIDE DEF f
<1>5. AddDays(d) = CHOOSE g : g = [n \in Nat |-> IF n = 0 THEN d ELSE AddDay(g[n - 1])]
  BY DEF AddDays
<1>6. AddDays(d) = [n \in Nat |-> IF n = 0 THEN d ELSE AddDay(AddDays(d)[n - 1])]
  BY <1>4, <1>5
<1>7. AddDays(d)[0] = d
  BY <1>6
<1>8. ASSUME NEW n \in Nat PROVE AddDays(d)[n + 1] = AddDay(AddDays(d)[n])
  <2>1. n + 1 \in Nat /\ n + 1 # 0 /\ (n + 1) - 1 = n
    OBVIOUS
  <2>2. AddDays(d)[n + 1] = IF n + 1 = 0 THEN d ELSE AddDay(AddDays(d)[(n + 1) - 1])
    BY <1>6, <2>1
  <2> QED
    BY <2>1, <2>2
<1> QED
  BY <1>7, <1>8

-----------------------------------------------------------------------------
(* One more day.  Days are the dates with any number of seconds. *)

Days ==
  {d \in [year : Nat, month : 1 .. 12, day : 1 .. 31, time : Int] :
     d.day <= IDAYS(d.year, d.month)}

At(d, t) == [d EXCEPT !.time = t]

Before(d, e) ==
  \/ d.year < e.year
  \/ d.year = e.year /\ d.month < e.month
  \/ d.year = e.year /\ d.month = e.month /\ d.day < e.day

LEMMA MonthLength ==
  ASSUME NEW y \in Nat, NEW m \in 1 .. 12
  PROVE  IDAYS(y, m) \in 28 .. 31
BY DEF IDAYS

LEMMA DayBeforeInMonth ==
  ASSUME NEW d \in [year : Nat, month : 1 .. 12, day : Nat, time : Int], d.day > 1
  PROVE  EndOfDayBefore(d) = [year |-> d.year, month |-> d.month, day |-> d.day - 1, time |-> DAY]
<1>1. DAY \in Int
  BY DEF DAY
<1> QED
  BY <1>1 DEF EndOfDayBefore

LEMMA AddDayIs ==
  ASSUME NEW d \in Days
  PROVE  /\ AddDay(d) \in Days
         /\ AddDay(d).time = d.time - DAY
         /\ \A t \in Int : At(d, t) \in Days /\ AddDay(At(d, t)) = At(AddDay(d), t - DAY)
         /\ Before(d, AddDay(d))
         /\ EndOfDayBefore(AddDay(d)) = At(d, DAY)
<1> DEFINE n == IDAYS(d.year, d.month)
<1>0. DAY \in Int
  BY DEF DAY
<1>1. /\ d = [year |-> d.year, month |-> d.month, day |-> d.day, time |-> d.time]
      /\ d.year \in Nat /\ d.month \in 1 .. 12 /\ d.day \in 1 .. 31 /\ d.time \in Int
      /\ d.day <= n
  BY DEF Days
<1>2. n \in 28 .. 31 /\ IDAYS(d.year + 1, 1) = 31
  BY <1>1, MonthLength DEF IDAYS
<1>3. d.month # 12 => IDAYS(d.year, d.month + 1) \in 28 .. 31
  BY <1>1, MonthLength
<1>4. d.month = 12 => n = 31
  BY DEF IDAYS
<1> HIDE DEF n
<1>5. CASE d.day # n
  <2>1. AddDay(d) = [year |-> d.year, month |-> d.month, day |-> d.day + 1, time |-> d.time - DAY]
    BY <1>1, <1>5 DEF AddDay, n
  <2>2. \A t \in Int : AddDay(At(d, t)) = [year |-> d.year, month |-> d.month, day |-> d.day + 1, time |-> t - DAY]
    BY <1>1, <1>5 DEF AddDay, n, At
  <2>3. At(d, DAY) = [year |-> d.year, month |-> d.month, day |-> d.day, time |-> DAY]
    BY <1>0, <1>1 DEF At
  <2>4. EndOfDayBefore(AddDay(d)) = At(d, DAY)
    <3> DEFINE e == AddDay(d)
    <3>1. /\ e \in [year : Nat, month : 1 .. 12, day : Nat, time : Int]
          /\ e.year = d.year /\ e.month = d.month /\ e.day > 1 /\ e.day - 1 = d.day
      BY <1>1, <2>1 DEF DAY
    <3> HIDE DEF e
    <3> QED
      BY <2>3, <3>1, DayBeforeInMonth DEF e
  <2> QED
    BY <1>1, <1>2, <1>5, <2>1, <2>2, <2>4 DEF Days, At, Before, n, DAY
<1>6. CASE d.day = n /\ d.month = 12
  <2>1. AddDay(d) = [year |-> d.year + 1, month |-> 1, day |-> 1, time |-> d.time - DAY]
    BY <1>1, <1>6 DEF AddDay, n
  <2>2. \A t \in Int : AddDay(At(d, t)) = [year |-> d.year + 1, month |-> 1, day |-> 1, time |-> t - DAY]
    BY <1>1, <1>6 DEF AddDay, n, At
  <2>3. EndOfDayBefore(AddDay(d)) = [year |-> d.year, month |-> 12, day |-> IDAYS(d.year, 12), time |-> DAY]
    BY <1>1, <2>1 DEF EndOfDayBefore
  <2>4. EndOfDayBefore(AddDay(d)) = At(d, DAY)
    BY <1>1, <1>6, <2>3 DEF At, n
  <2> QED
    BY <1>1, <1>2, <1>6, <2>1, <2>2, <2>4 DEF Days, At, Before, n, DAY
<1>7. CASE d.day = n /\ d.month # 12
  <2>1. AddDay(d) = [year |-> d.year, month |-> d.month + 1, day |-> 1, time |-> d.time - DAY]
    BY <1>1, <1>7 DEF AddDay, n
  <2>2. \A t \in Int : AddDay(At(d, t)) = [year |-> d.year, month |-> d.month + 1, day |-> 1, time |-> t - DAY]
    BY <1>1, <1>7 DEF AddDay, n, At
  <2>3. EndOfDayBefore(AddDay(d)) = [year |-> d.year, month |-> d.month, day |-> IDAYS(d.year, d.month), time |-> DAY]
    BY <1>1, <2>1 DEF EndOfDayBefore
  <2>4. EndOfDayBefore(AddDay(d)) = At(d, DAY)
    BY <1>1, <1>7, <2>3 DEF At, n
  <2> QED
    BY <1>1, <1>2, <1>3, <1>7, <2>1, <2>2, <2>4 DEF Days, At, Before, n, DAY
<1> QED
  BY <1>5, <1>6, <1>7

(* Moments are the records that dates are compared as. *)
Moments == [year : Int, month : Int, day : Int, time : Int]

LEMMA DaysAreMoments == Days \subseteq Moments
BY DEF Days, Moments

LEMMA BeforeTransitive ==
  ASSUME NEW d \in Moments, NEW e \in Moments, NEW f \in Moments, Before(d, e), Before(e, f)
  PROVE  Before(d, f)
BY DEF Before, Moments

-----------------------------------------------------------------------------
(* Several days: what AddDays does to the seconds, to a date with other    *)
(* seconds, and to the order of dates; and adding days in two steps.       *)

LEMMA AddDaysType ==
  ASSUME NEW d \in Days
  PROVE  \A n \in Nat : AddDays(d)[n] \in Days /\ AddDays(d)[n].time = d.time - n * DAY
<1> DEFINE S == {n \in Nat : AddDays(d)[n] \in Days /\ AddDays(d)[n].time = d.time - n * DAY}
<1>1. 0 \in S
  BY AddDaysDef DEF Days, DAY
<1>2. ASSUME NEW n \in Nat, n \in S PROVE n + 1 \in S
  <2> DEFINE e == AddDays(d)[n]
  <2>1. e \in Days /\ e.time = d.time - n * DAY /\ d.time \in Int
    BY <1>2 DEF Days
  <2>2. AddDays(d)[n + 1] = AddDay(e)
    BY AddDaysDef
  <2>3. AddDay(e) \in Days /\ AddDay(e).time = e.time - DAY
    BY <2>1, AddDayIs
  <2> HIDE DEF e
  <2>4. e.time - DAY = d.time - (n + 1) * DAY
    BY <2>1 DEF DAY
  <2> QED
    BY <2>2, <2>3, <2>4
<1> HIDE DEF S
<1>3. Nat \subseteq S
  BY <1>1, <1>2, SetInduction
<1> QED
  BY <1>3 DEF S

LEMMA AddDaysAt ==
  ASSUME NEW d \in Days, NEW t \in Int
  PROVE  \A n \in Nat : AddDays(At(d, t))[n] = At(AddDays(d)[n], t - n * DAY)
<1> DEFINE S == {n \in Nat : AddDays(At(d, t))[n] = At(AddDays(d)[n], t - n * DAY)}
<1>1. 0 \in S
  BY AddDaysDef DEF DAY
<1>2. ASSUME NEW n \in Nat, n \in S PROVE n + 1 \in S
  <2> DEFINE e == AddDays(d)[n]
             u == t - n * DAY
  <2>1. e \in Days /\ u \in Int
    BY AddDaysType DEF DAY
  <2>2. AddDays(d)[n + 1] = AddDay(e) /\ AddDays(At(d, t))[n + 1] = AddDay(At(e, u))
    BY <1>2, AddDaysDef
  <2>3. u - DAY = t - (n + 1) * DAY
    BY DEF DAY
  <2> HIDE DEF e, u
  <2>4. AddDay(At(e, u)) = At(AddDay(e), u - DAY)
    BY <2>1, AddDayIs
  <2> QED
    BY <2>2, <2>3, <2>4
<1> HIDE DEF S
<1>3. Nat \subseteq S
  BY <1>1, <1>2, SetInduction
<1> QED
  BY <1>3 DEF S

LEMMA AddDaysTwice ==
  ASSUME NEW d \in Days, NEW m \in Nat
  PROVE  \A n \in Nat : AddDays(AddDays(d)[m])[n] = AddDays(d)[m + n]
<1> DEFINE S == {n \in Nat : AddDays(AddDays(d)[m])[n] = AddDays(d)[m + n]}
<1>1. 0 \in S
  BY AddDaysDef
<1>2. ASSUME NEW n \in Nat, n \in S PROVE n + 1 \in S
  <2>1. m + n \in Nat /\ m + (n + 1) = (m + n) + 1
    OBVIOUS
  <2>2. AddDays(AddDays(d)[m])[n + 1] = AddDay(AddDays(AddDays(d)[m])[n])
    BY AddDaysDef
  <2>3. AddDays(d)[(m + n) + 1] = AddDay(AddDays(d)[m + n])
    BY <2>1, AddDaysDef
  <2> QED
    BY <1>2, <2>1, <2>2, <2>3
<1> HIDE DEF S
<1>3. Nat \subseteq S
  BY <1>1, <1>2, SetInduction
<1> QED
  BY <1>3 DEF S

LEMMA AddDaysLater ==
  ASSUME NEW d \in Days
  PROVE  \A n \in Nat : Before(d, AddDays(d)[n + 1])
<1> DEFINE S == {n \in Nat : Before(d, AddDays(d)[n + 1])}
<1>1. 0 \in S
  <2>1. AddDays(d)[0 + 1] = AddDay(AddDays(d)[0]) /\ AddDays(d)[0] = d
    BY AddDaysDef
  <2> QED
    BY <2>1, AddDayIs
<1>2. ASSUME NEW n \in Nat, n \in S PROVE n + 1 \in S
  <2> DEFINE e == AddDays(d)[n + 1]
  <2>1. e \in Days /\ Before(d, e)
    BY <1>2, AddDaysType
  <2>2. AddDays(d)[(n + 1) + 1] = AddDay(e)
    BY AddDaysDef
  <2> HIDE DEF e
  <2>3. Before(e, AddDay(e)) /\ AddDay(e) \in Days
    BY <2>1, AddDayIs
  <2> QED
    BY <2>1, <2>2, <2>3, DaysAreMoments, BeforeTransitive
<1> HIDE DEF S
<1>3. Nat \subseteq S
  BY <1>1, <1>2, SetInduction
<1> QED
  BY <1>3 DEF S

-----------------------------------------------------------------------------
(* Seconds. *)

LEMMA DayIsPositive == DAY \in Nat \ {0}
BY DEF DAY

LEMMA DayDivision ==
  ASSUME NEW t \in Nat
  PROVE  t \div DAY \in Nat /\ t % DAY \in 0 .. DAY - 1 /\ t = DAY * (t \div DAY) + (t % DAY)
BY DayIsPositive

LEMMA DayQuotient ==
  ASSUME NEW t \in Nat, NEW q \in Int, NEW r \in 0 .. DAY - 1, t = DAY * q + r
  PROVE  t \div DAY = q /\ t % DAY = r
BY DayIsPositive

LEMMA DatesAreDays ==
  ASSUME NEW d
  PROVE  d \in Dates <=> d \in Days /\ d.time \in 0 .. DAY - 1
BY DEF Dates, Days

LEMMA AtIs ==
  ASSUME NEW d \in Days, NEW t \in Int
  PROVE  /\ At(d, t) \in Days /\ At(d, t).time = t /\ At(d, d.time) = d
         /\ \A u \in Int : At(At(d, t), u) = At(d, u)
BY DEF At, Days

LEMMA AddForecastIs ==
  ASSUME NEW d \in Dates, NEW s \in Nat
  PROVE  /\ d.time + s \in Nat /\ (d.time + s) \div DAY \in Nat
         /\ AddForecast(d, s)
              = At(AddDays(d)[(d.time + s) \div DAY], (d.time + s) % DAY)
<1> DEFINE t == d.time + s
           n == t \div DAY
<1>1. d \in Days /\ t \in Nat
  BY DatesAreDays, DayIsPositive
<1>2. n \in Nat /\ t - n * DAY = t % DAY /\ t \in Int
  <2> DEFINE r == t % DAY
  <2>1. t \in Int /\ n \in Nat /\ r \in Int /\ t = DAY * n + r
    <3> HIDE DEF t
    <3>1. n \in Nat /\ r \in 0 .. DAY - 1 /\ t = DAY * n + r
      BY <1>1, DayDivision
    <3> HIDE DEF n, r
    <3> QED
      BY <1>1, <3>1, DayIsPositive
  <2>2. t - n * DAY = r
    <3> HIDE DEF t, n, r
    <3> QED
      BY <2>1 DEF DAY
  <2> QED
    BY <2>1, <2>2
<1>3. AddForecast(d, s) = AddDays(At(d, t))[At(d, t).time \div DAY]
  BY DEF AddForecast, At
<1>4. At(d, t).time = t
  BY <1>1, <1>2, AtIs
<1> HIDE DEF t, n
<1>5. AddDays(At(d, t))[n] = At(AddDays(d)[n], t - n * DAY)
  BY <1>1, <1>2, AddDaysAt
<1> QED
  BY <1>1, <1>2, <1>3, <1>4, <1>5 DEF n, t

(* Adding seconds to a date of the calendar gives a date of the calendar:  *)
(* no 30th of February, and no second beyond the day.                      *)
THEOREM AddForecastType ==
  ASSUME NEW d \in Dates, NEW s \in Nat
  PROVE  AddForecast(d, s) \in Dates
<1> DEFINE t == d.time + s
           n == t \div DAY
<1>1. t \in Nat /\ n \in Nat /\ AddForecast(d, s) = At(AddDays(d)[n], t % DAY)
  BY AddForecastIs
<1>2. t % DAY \in 0 .. DAY - 1 /\ t % DAY \in Int
  BY <1>1, DayDivision, DayIsPositive
<1> HIDE DEF t, n
<1>3. AddDays(d)[n] \in Days
  BY <1>1, DatesAreDays, AddDaysType
<1> QED
  BY <1>1, <1>2, <1>3, AtIs, DatesAreDays

(* ADD_FORECAST_TO_DATE_SURF in two steps is ADD_FORECAST_TO_DATE_SURF of  *)
(* their sum: the clocks of the driver and of the model, which advance by  *)
(* the surface step, meet the dates of the lines of the forcing file,      *)
(* which are reached from the first line in one call.                      *)
THEOREM AddForecastTwice ==
  ASSUME NEW d \in Dates, NEW a \in Nat, NEW b \in Nat
  PROVE  AddForecast(AddForecast(d, a), b) = AddForecast(d, a + b)
<1> DEFINE t == d.time + a
           m == t \div DAY
           r == t % DAY
           n == (r + b) \div DAY
           q == (r + b) % DAY
           e == AddForecast(d, a)
<1>1. t \in Nat /\ m \in Nat /\ e = At(AddDays(d)[m], r)
  BY AddForecastIs
<1>2. r \in 0 .. DAY - 1 /\ r \in Int /\ t = DAY * m + r
  <2> HIDE DEF n, q, e, t
  <2>1. t \in Nat
    BY <1>1
  <2>2. r \in 0 .. DAY - 1 /\ t = DAY * m + r
    BY <2>1, DayDivision
  <2> QED
    BY <2>2, DayIsPositive
<1>3. r + b \in Nat
  BY <1>2, DayIsPositive
<1>4. n \in Nat /\ q \in 0 .. DAY - 1 /\ r + b = DAY * n + q
  BY <1>3, DayDivision
<1>5. e \in Dates
  BY AddForecastType
<1> HIDE DEF t, m, r, e
<1>6. d \in Days /\ AddDays(d)[m] \in Days
  BY <1>1, DatesAreDays, AddDaysType
<1>7. e.time = r
  BY <1>1, <1>2, <1>6, AtIs
<1>8. AddForecast(e, b) = At(AddDays(e)[n], q)
  BY <1>5, <1>7, AddForecastIs
<1> HIDE DEF n, q
<1>9. AddDays(e)[n] = At(AddDays(AddDays(d)[m])[n], r - n * DAY)
  BY <1>1, <1>2, <1>4, <1>6, AddDaysAt
<1>10. AddDays(AddDays(d)[m])[n] = AddDays(d)[m + n] /\ AddDays(d)[m + n] \in Days
  <2>1. m + n \in Nat
    BY <1>1, <1>4
  <2> QED
    BY <1>1, <1>4, <1>6, <2>1, AddDaysTwice, AddDaysType
<1>11. AddForecast(e, b) = At(AddDays(d)[m + n], q)
  <2>1. r - n * DAY \in Int /\ q \in Int
    BY <1>2, <1>4, DayIsPositive
  <2> QED
    BY <1>8, <1>9, <1>10, <2>1, AtIs
<1>12. d.time + (a + b) \in Nat /\ m + n \in Int /\ d.time + (a + b) = DAY * (m + n) + q
  BY <1>1, <1>2, <1>4, <1>6, DayIsPositive DEF t, Days
<1>13. (d.time + (a + b)) \div DAY = m + n /\ (d.time + (a + b)) % DAY = q
  BY <1>4, <1>12, DayQuotient
<1>14. AddForecast(d, a + b) = At(AddDays(d)[m + n], q)
  <2>1. a + b \in Nat
    OBVIOUS
  <2> QED
    BY <1>13, <2>1, AddForecastIs
<1> QED
  BY <1>11, <1>14 DEF e

LEMMA AddForecastZero ==
  ASSUME NEW d \in Dates
  PROVE  AddForecast(d, 0) = d
<1>1. d \in Days /\ d.time \in 0 .. DAY - 1 /\ d.time \in Nat
  BY DatesAreDays, DayIsPositive
<1>2. d.time + 0 = d.time /\ d.time = DAY * 0 + d.time
  BY <1>1, DayIsPositive
<1>3. d.time \div DAY = 0 /\ d.time % DAY = d.time
  BY <1>1, <1>2, DayQuotient
<1>4. AddForecast(d, 0) = At(AddDays(d)[(d.time + 0) \div DAY], (d.time + 0) % DAY)
  <2>1. 0 \in Nat
    OBVIOUS
  <2> QED
    BY <2>1, AddForecastIs
<1>5. AddDays(d)[0] = d
  BY AddDaysDef
<1>6. At(d, d.time) = d
  BY <1>1, AtIs
<1> QED
  BY <1>2, <1>3, <1>4, <1>5, <1>6

-----------------------------------------------------------------------------
(* The order of dates. *)

LEMMA DayBeforeIsBefore ==
  ASSUME NEW d \in Days
  PROVE  /\ EndOfDayBefore(d) \in Moments
         /\ EndOfDayBefore(d).time = DAY
         /\ Before(EndOfDayBefore(d), d)
<1>1. /\ d.year \in Nat /\ d.month \in 1 .. 12 /\ d.day \in 1 .. 31 /\ DAY \in Int
      /\ d \in [year : Nat, month : 1 .. 12, day : Nat, time : Int]
  BY DayIsPositive DEF Days
<1>2. CASE d.day > 1
  <2>1. EndOfDayBefore(d)
          = [year |-> d.year, month |-> d.month, day |-> d.day - 1, time |-> DAY]
    BY <1>1, <1>2, DayBeforeInMonth
  <2> QED
    BY <1>1, <2>1 DEF Moments, Before
<1>3. CASE d.day = 1 /\ d.month = 1
  <2>1. EndOfDayBefore(d)
          = [year |-> d.year - 1, month |-> 12, day |-> IDAYS(d.year - 1, 12), time |-> DAY]
    BY <1>1, <1>3 DEF EndOfDayBefore
  <2>2. IDAYS(d.year - 1, 12) = 31
    BY DEF IDAYS
  <2> QED
    BY <1>1, <2>1, <2>2 DEF Moments, Before
<1>4. CASE d.day = 1 /\ d.month # 1
  <2>1. EndOfDayBefore(d)
          = [year |-> d.year, month |-> d.month - 1, day |-> IDAYS(d.year, d.month - 1),
             time |-> DAY]
    BY <1>1, <1>4 DEF EndOfDayBefore
  <2>2. IDAYS(d.year, d.month - 1) \in 28 .. 31
    BY <1>1, <1>4, MonthLength
  <2> QED
    BY <1>1, <2>1, <2>2 DEF Moments, Before
<1> QED
  BY <1>1, <1>2, <1>3, <1>4

(* A later date is on the same day or on a later one; so is the name of an *)
(* output file at the end of a day.                                        *)
LEMMA AddForecastLater ==
  ASSUME NEW d \in Dates, NEW s \in Nat \ {0}
  PROVE  LET e == AddForecast(d, s) IN
         /\ e = At(d, d.time + s) \/ Before(d, e)
         /\ e.time = 0 => \/ EndOfDayBefore(e) = At(d, DAY) /\ DAY = d.time + s
                         \/ Before(d, EndOfDayBefore(e))
<1> DEFINE t == d.time + s
           n == t \div DAY
           r == t % DAY
           e == AddForecast(d, s)
<1>1. t \in Nat /\ n \in Nat /\ e = At(AddDays(d)[n], r) /\ t # 0
  <2>1. d.time \in Nat
    BY DatesAreDays, DayIsPositive
  <2> QED
    BY <2>1, AddForecastIs
<1> HIDE DEF t, e
<1>2. r \in 0 .. DAY - 1 /\ t = DAY * n + r
  BY <1>1, DayDivision
<1>3. r \in Int /\ d \in Days /\ DAY \in Int
  BY <1>2, DatesAreDays, DayIsPositive
<1> HIDE DEF n, r
<1>4. \A m \in Nat : AddDays(d)[m] \in Days /\ Before(d, AddDays(d)[m + 1])
  BY <1>3, AddDaysType, AddDaysLater
<1>5. \A x \in Days, u \in Int : Before(d, x) => Before(d, At(x, u))
  BY DEF Before, At, Days
<1>6. e.time = r /\ AddDays(d)[0] = d
  BY <1>1, <1>3, <1>4, AtIs, AddDaysDef
<1>7. CASE n = 0
  <2>1. t = r /\ t # 0
    BY <1>1, <1>2, <1>3, <1>7
  <2> QED
    BY <1>1, <1>6, <1>7, <2>1 DEF t, e
<1>8. CASE n # 0
  <2> DEFINE m == n - 1
             x == AddDays(d)[m]
  <2>1. m \in Nat /\ m + 1 = n
    BY <1>1, <1>8
  <2>2. Before(d, e)
    BY <1>1, <1>3, <1>4, <1>5, <2>1
  <2>3. x \in Days /\ AddDays(d)[n] = AddDay(x)
    BY <1>4, <2>1, AddDaysDef
  <2> HIDE DEF m, x
  <2>4. ASSUME e.time = 0 PROVE EndOfDayBefore(e) = At(x, DAY)
    <3>1. At(x, DAY) \in Days /\ AddDay(At(x, DAY)) = At(AddDay(x), DAY - DAY)
      BY <1>3, <2>3, AddDayIs
    <3>2. e = AddDay(At(x, DAY))
      <4>1. DAY - DAY = 0 /\ r = 0
        BY <1>3, <1>6, <2>4
      <4> QED
        BY <1>1, <2>3, <3>1, <4>1
    <3>3. EndOfDayBefore(e) = At(At(x, DAY), DAY)
      BY <3>1, <3>2, AddDayIs
    <3> QED
      BY <1>3, <2>3, <3>3, AtIs
  <2>5. CASE m = 0
    <3>1. x = d
      BY <1>6, <2>5 DEF x
    <3>2. e.time = 0 => DAY = t
      <4>1. n = 1
        BY <1>1, <2>1, <2>5
      <4> QED
        BY <1>2, <1>3, <1>6, <4>1
    <3> QED
      BY <2>2, <2>4, <3>1, <3>2 DEF t, e
  <2>6. CASE m # 0
    <3>1. m - 1 \in Nat /\ (m - 1) + 1 = m
      BY <2>1, <2>6
    <3>2. Before(d, x)
      BY <1>4, <3>1 DEF x
    <3> QED
      BY <1>3, <1>5, <2>2, <2>3, <2>4, <3>2 DEF e
  <2> QED
    BY <2>5, <2>6
<1> QED
  BY <1>7, <1>8

-----------------------------------------------------------------------------
(* Where the run is, and its date. *)

DriverType ==
  /\ setup \in Setups /\ stop \in setup.stops /\ runs \in 1 .. MaxRuns
  /\ pc \in {"configure", "first reading", "forcing", "surface",
             "restart", "finished", "aborted"}
  /\ date \in Dates /\ prep \in Dates /\ ttime = date
  /\ ITIMESTARTINDEX \in Nat /\ INB_STEP_ATM \in Nat
  /\ INB_LINES \in Nat /\ NB_READ_FORC \in Nat
  /\ JFORC_STEP \in Nat /\ JSURF_STEP \in Nat /\ ZTIMEC \in Nat

Going == pc \in {"first reading", "forcing", "surface", "restart", "finished"}

(* The parts in which n + 1 lines are read, of size + 1 lines each, the    *)
(* last line of one being the first of the next.                           *)
Parted(n, size, parts, nread) ==
  IF n = 0 THEN size \in {0, 1}
  ELSE /\ size \in 1 .. n
       /\ parts \in Nat \ {0}
       /\ (parts - 1) * size <= n /\ n < parts * size
       /\ nread = 1 => size = n
       /\ nread > 1 => parts <= nread

(* The lines of the run, and the time steps. *)
Planned ==
  /\ ITIMESTARTINDEX \in 1 .. setup.rows - 1
  /\ ITIMESTARTINDEX + INB_STEP_ATM <= setup.rows
  /\ setup.file # "NETCDF" => ITIMESTARTINDEX = 1
  /\ INB_ATM \in Nat \ {0} /\ setup.forc = setup.surf * INB_ATM
  /\ Parted(INB_STEP_ATM, INB_LINES, NB_READ_FORC, setup.nread)
  /\ (/\ setup.file = "NETCDF"
      /\ \E i \in ITIMESTARTINDEX .. setup.rows : RowDate(setup, i) = stop)
       => RowDate(setup, ITIMESTARTINDEX + INB_STEP_ATM) = stop

(* The time of the run at each place of the loops. *)
Timed ==
  /\ date = AddForecast(setup.first, (ITIMESTARTINDEX - 1) * setup.forc + ZTIMEC)
  /\ pc = "first reading" => ZTIMEC = 0
  /\ pc \in {"forcing", "surface"} => JFORC_STEP \in 1 .. INB_STEP_ATM
  /\ pc = "forcing" => ZTIMEC = (JFORC_STEP - 1) * setup.forc
  /\ pc = "surface" => /\ JSURF_STEP \in 1 .. INB_ATM
                       /\ ZTIMEC = (JFORC_STEP - 1) * setup.forc + (JSURF_STEP - 1) * setup.surf
  /\ pc \in {"restart", "finished"} => ZTIMEC = INB_STEP_ATM * setup.forc

ClockInv ==
  /\ DriverType
  /\ pc \in {"configure", "aborted", "finished"} => prep = date
  /\ pc \in {"configure", "aborted"} =>
       /\ ZTIMEC = 0 /\ NB_READ_FORC = setup.nread
       /\ StartIndex(setup, prep) # setup.rows
  /\ Going => Planned /\ Timed

-----------------------------------------------------------------------------
(* What the buffer holds. *)

(* Lines k * INB_LINES + 1 .. k * INB_LINES + IDMAX of the run. *)
Holds(k) ==
  /\ Len(readings) = k + 1
  /\ IDMAX \in 1 .. INB_LINES + 1
  /\ k * INB_LINES + IDMAX <= INB_STEP_ATM + 1
  /\ IDMAX = INB_LINES + 1 \/ IDMAX = INB_STEP_ATM - k * INB_LINES + 1
  /\ \A i \in 1 .. IDMAX : buffer[i] = ITIMESTARTINDEX + k * INB_LINES + i - 1
  /\ setup.file = "ASCII" => filepos = k * INB_LINES + IDMAX

(* The part of the forcing step, and the one before it until it is read. *)
PartHeld ==
  \E k \in Nat :
    /\ Holds(k)
    /\ IF pc = "surface"
         THEN k * INB_LINES < JFORC_STEP /\ JFORC_STEP <= (k + 1) * INB_LINES
         ELSE \/ k = 0 /\ JFORC_STEP = 1
              \/ k * INB_LINES < JFORC_STEP - 1 /\ JFORC_STEP - 1 <= (k + 1) * INB_LINES

ReadingInv ==
  /\ IDMAX \in Nat /\ filepos \in Nat /\ readings \in Seq(SUBSET Nat) /\ buffer \in Seq(Nat)
  /\ ReadsInFile
  /\ pc \in {"configure", "aborted", "first reading"} => readings = <<>> /\ filepos = 0
  /\ pc \in {"first reading", "forcing", "surface"} => Len(buffer) = INB_LINES + 1
  /\ pc = "first reading" => IDMAX = INB_LINES + 1
  /\ pc \in {"forcing", "surface"} => PartHeld

-----------------------------------------------------------------------------
(* What has been written. *)

OutputType == outputs \in Seq([label : Nat, time : Nat])

OutputInv ==
  /\ Len(outputs) = ZTIMEC \div setup.out
  /\ \A i \in 1 .. Len(outputs) : outputs[i].label = outputs[i].time
  /\ \E a \in Nat : ZTIMEC = a * setup.surf

NameInv ==
  \/ tag = <<-1, 0, 0, 0, 0>>
  \/ \E o \in Dates, k \in Nat :
       /\ tag = YTAG(setup, o)
       /\ date = AddForecast(o, k)
       /\ ZTIMEC % setup.out <= k

-----------------------------------------------------------------------------
(* Arithmetic. *)

LEMMA Division ==
  ASSUME NEW n \in Nat, NEW p \in Nat \ {0}
  PROVE  n \div p \in Nat /\ n % p \in 0 .. p - 1 /\ n = p * (n \div p) + (n % p)
  BY SMT

LEMMA Quotient ==
  ASSUME NEW p \in Nat \ {0}, NEW q \in Nat, NEW r \in 0 .. p - 1
  PROVE  (p * q + r) \div p = q /\ (p * q + r) % p = r
  BY SMT

LEMMA QuotientIs ==
  ASSUME NEW t, NEW p \in Nat \ {0}, NEW q \in Nat, NEW r \in 0 .. p - 1, t = p * q + r
  PROVE  t \div p = q /\ t % p = r
  BY Quotient

LEMMA Products ==
  ASSUME NEW a \in Int, NEW b \in Int, NEW p \in Nat
  PROVE  /\ a * p \in Int /\ (a <= b => a * p <= b * p)
         /\ (a + 1) * p = a * p + p /\ (a - 1) * p = a * p - p
         /\ a \in Nat => a * p \in Nat
  BY SMT

LEMMA CeilDivIs ==
  ASSUME NEW a \in Nat \ {0}, NEW b \in Nat \ {0}
  PROVE  /\ CeilDiv(a, b) \in Nat \ {0}
         /\ a <= CeilDiv(a, b) * b /\ (CeilDiv(a, b) - 1) * b < a
<1> DEFINE t == a + b - 1
           q == t \div b
           r == t % b
<1>1. t \in Nat
  OBVIOUS
<1>2. q \in Nat /\ r \in 0 .. b - 1 /\ t = b * q + r
  BY <1>1, Division
<1> HIDE DEF q, r
<1>3. b * q \in Nat /\ b * q = q * b /\ (q - 1) * b = q * b - b
  BY <1>2, SMT
<1>4. q # 0
  <2> SUFFICES ASSUME q = 0 PROVE FALSE
    OBVIOUS
  <2>1. b * 0 = 0
    OBVIOUS
  <2> QED
    BY <1>2, <2>1
<1>5. a <= q * b /\ (q - 1) * b < a
  BY <1>2, <1>3
<1> QED
  BY <1>2, <1>4, <1>5 DEF CeilDiv, q

(* OL_READ_ATM_CONF: the parts of a run of n steps. *)
LEMMA LinesParted ==
  ASSUME NEW n \in Nat, NEW nread \in Nat
  PROVE  LET size == Lines(n, nread)
             parts == IF size = 0 THEN 0 ELSE CeilDiv(n + 1, size)
         IN  /\ size \in Nat /\ parts \in Nat
             /\ Parted(n, size, parts, nread)
<1> DEFINE size == Lines(n, nread)
           parts == IF size = 0 THEN 0 ELSE CeilDiv(n + 1, size)
<1>0. n + 1 \in Nat \ {0}
  OBVIOUS
<1>1. size = IF nread = 1 THEN n ELSE IF nread # 0 THEN CeilDiv(n + 1, nread) ELSE 1
  BY DEF Lines
<1>2. nread # 0 =>
        /\ CeilDiv(n + 1, nread) \in Nat \ {0} /\ n + 1 <= CeilDiv(n + 1, nread) * nread
        /\ (CeilDiv(n + 1, nread) - 1) * nread < n + 1
  BY <1>0, CeilDivIs
<1>3. size \in Nat
  BY <1>1, <1>2
<1>4. nread > 1 => (size - 1) * nread < n + 1
  BY <1>1, <1>2
<1> HIDE DEF size, parts
<1>5. n = 0 => size \in {0, 1}
  <2>1. CASE nread > 1 /\ n = 0 /\ 2 <= size
    <3>1. 1 * nread <= (size - 1) * nread
      BY <1>3, <2>1, Products
    <3> QED
      BY <1>3, <1>4, <2>1, <3>1, Products
  <2> QED
    BY <1>1, <1>3, <2>1
<1>6. n # 0 => size \in 1 .. n
  <2>1. CASE nread > 1 /\ n # 0 /\ n <= size - 1
    <3>1. n * nread <= (size - 1) * nread
      BY <1>3, <2>1, Products
    <3>2. 2 * n <= n * nread /\ n * nread \in Nat /\ (size - 1) * nread \in Int
      BY <1>3, <2>1, SMT
    <3> QED
      BY <1>4, <2>1, <3>1, <3>2
  <2>2. nread > 1 => size # 0
    BY <1>1, <1>2
  <2> QED
    BY <1>1, <1>3, <2>1, <2>2
<1>7. size # 0 => /\ parts \in Nat \ {0} /\ n + 1 <= parts * size
                  /\ (parts - 1) * size < n + 1
  BY <1>0, <1>3, CeilDivIs DEF parts
<1>8. parts \in Nat
  BY <1>7 DEF parts
<1>9. CASE n # 0
  <2>1. (parts - 1) * size <= n /\ n < parts * size
    <3>1. parts * size \in Int /\ (parts - 1) * size \in Int
      BY <1>3, <1>8, Products
    <3> QED
      BY <1>6, <1>7, <1>9, <3>1
  <2>2. nread = 1 => size = n
    BY <1>1
  <2>3. ASSUME nread > 1, nread <= parts - 1 PROVE FALSE
    <3>1. nread * size <= (parts - 1) * size
      BY <1>3, <1>8, <2>3, Products
    <3>2. n + 1 <= size * nread
      BY <1>1, <1>2, <2>3
    <3>3. nread * size = size * nread /\ nread * size \in Int /\ (parts - 1) * size \in Int
      BY <1>3, <1>8, SMT
    <3> QED
      BY <2>1, <3>1, <3>2, <3>3
  <2> QED
    BY <1>3, <1>6, <1>7, <1>8, <1>9, <2>1, <2>2, <2>3 DEF Parted, size, parts
<1> QED
  BY <1>3, <1>5, <1>8, <1>9 DEF Parted, size, parts

(* Line j of the run is line j - k * size of part k: the first line of the *)
(* next part when j is one more than the lines of the first k + 1 parts.   *)
LEMMA LineOfPart ==
  ASSUME NEW j \in Nat, NEW k \in Nat, INB_LINES \in Nat \ {0},
         k * INB_LINES < j, j <= (k + 1) * INB_LINES
  PROVE  ID_FORC(j) = j - k * INB_LINES
<1> DEFINE L == INB_LINES
           i == j - k * L
<1>1. /\ k * L \in Nat /\ (k + 1) * L = k * L + L /\ L * k = k * L
      /\ L * (k + 1) = (k + 1) * L
  BY SMT
<1>2. i \in 1 .. L
  BY <1>1
<1>3. CASE i = L
  <2>1. j = L * (k + 1) + 0
    BY <1>1, <1>3
  <2>2. j % L = 0
    BY <2>1, Quotient
  <2> QED
    BY <1>3, <2>2 DEF ID_FORC
<1>4. CASE i # L
  <2>1. j = L * k + i /\ i \in 0 .. L - 1 /\ i # 0
    BY <1>1, <1>2, <1>4
  <2>2. j % L = i
    <3> HIDE DEF i
    <3> QED
      BY <2>1, Quotient
  <2> QED
    BY <2>1, <2>2 DEF ID_FORC
<1> QED
  BY <1>3, <1>4
(* The size of the reading of part k + 1. *)
LEMMA NextPart ==
  ASSUME NEW j \in Nat, NEW k \in Nat,
         INB_STEP_ATM \in Nat \ {0}, INB_LINES \in Nat, NB_READ_FORC \in Nat,
         NEW nread \in Nat, Parted(INB_STEP_ATM, INB_LINES, NB_READ_FORC, nread),
         j = (k + 1) * INB_LINES + 1, j <= INB_STEP_ATM,
         NEW m, m = IF LastReading(j) THEN LastSize(j) ELSE INB_LINES + 1
  PROVE  /\ m \in 2 .. INB_LINES + 1
         /\ (k + 1) * INB_LINES + m <= INB_STEP_ATM + 1
         /\ m = INB_LINES + 1 \/ m = INB_STEP_ATM - (k + 1) * INB_LINES + 1
         /\ nread > 0 => k + 2 <= nread
<1> DEFINE L == INB_LINES
           n == INB_STEP_ATM
           parts == NB_READ_FORC
           kL == (k + 1) * L
<1>1. /\ L \in 1 .. n /\ parts \in Nat \ {0}
      /\ (parts - 1) * L <= n /\ n < parts * L
      /\ nread = 1 => L = n
      /\ nread > 1 => parts <= nread
  BY DEF Parted
<1>2. /\ kL \in Nat /\ parts * L \in Int /\ (parts - 1) * L \in Int
      /\ (k + 2) * L = kL + L /\ L * (k + 1) = kL
  BY <1>1, SMT
<1>3. k + 1 < parts
  <2> SUFFICES ASSUME parts <= k + 1 PROVE FALSE
    BY <1>1
  <2>1. parts * L <= kL
    BY <1>1, Products
  <2> QED
    BY <1>1, <1>2, <2>1
<1>4. nread > 0 => k + 2 <= nread
  <2>1. nread # 1
    <3> SUFFICES ASSUME L = n PROVE FALSE
      BY <1>1
    <3>1. 1 * L <= kL
      BY <1>1, Products
    <3> QED
      BY <1>1, <1>2, <3>1
  <2> QED
    BY <1>1, <1>3, <2>1
<1>5. CASE L = 1
  <2>1. kL = k + 1 /\ parts - 1 = n
    <3>1. kL = k + 1 /\ parts * L = parts /\ (parts - 1) * L = parts - 1
      BY <1>5, SMT
    <3> QED
      BY <1>1, <3>1
  <2>2. j = k + 2 /\ j \div 1 = j
    BY <2>1
  <2>3. LastReading(j) <=> j = n
    BY <1>5, <2>1, <2>2 DEF LastReading
  <2>4. m = 2
    BY <1>5, <2>1, <2>2, <2>3 DEF LastSize
  <2> QED
    BY <1>1, <1>2, <1>4, <1>5, <2>1, <2>2, <2>4
<1>6. CASE L # 1
  <2>1. j = L * (k + 1) + 1 /\ 1 \in 0 .. L - 1
    BY <1>1, <1>2, <1>6
  <2>2. j \div L = k + 1
    <3>1. L \in Nat \ {0} /\ k + 1 \in Nat
      BY <1>1
    <3>2. (L * (k + 1) + 1) \div L = k + 1
      BY <2>1, <3>1, Quotient
    <3> QED
      BY <2>1, <3>2
  <2>3. LastReading(j) <=> k + 1 = parts - 1
    BY <2>2 DEF LastReading
  <2>4. CASE k + 1 = parts - 1
    <3>1. m = n - kL + 1
      BY <1>1, <1>2, <2>3, <2>4 DEF LastSize
    <3>2. n < kL + L
      BY <1>1, <1>2, <2>4
    <3> QED
      BY <1>1, <1>2, <1>4, <3>1, <3>2
  <2>5. CASE k + 1 # parts - 1
    <3>1. m = L + 1
      BY <2>3, <2>5
    <3>2. (k + 2) * L <= (parts - 1) * L
      BY <1>1, <1>3, <2>5, Products
    <3>3. kL + L <= n
      BY <1>1, <1>2, <3>2
    <3> QED
      BY <1>1, <1>2, <1>4, <3>1, <3>3
  <2> QED
    BY <2>4, <2>5
<1> QED
  BY <1>5, <1>6

-----------------------------------------------------------------------------
(* The setup, and the lines that a run starts and ends with. *)

LEMMA SetupType ==
  ASSUME NEW s \in Setups
  PROVE  /\ s.file \in Files /\ s.rows \in Nat \ {0, 1}
         /\ s.first \in Dates /\ s.prep \in Dates
         /\ s.forc \in Nat \ {0} /\ s.surf \in Nat \ {0} /\ s.out \in Nat \ {0}
         /\ s.nread \in Nat /\ s.delayed \in BOOLEAN /\ (s.delayed => s.file = "NETCDF")
         /\ s.timename \in BOOLEAN /\ s.stops \subseteq Dates \cup {NoDate}
         /\ StartIndex(s, s.prep) # s.rows
         /\ NoDate \notin Dates /\ MaxRuns \in Nat \ {0}
  BY SetupsAssumption

LEMMA RowDateType ==
  ASSUME NEW s \in Setups, NEW i \in Nat \ {0}
  PROVE  /\ (i - 1) * s.forc \in Nat
         /\ RowDate(s, i) \in Dates
         /\ RowDate(s, i) = AddForecast(s.first, (i - 1) * s.forc)
<1>1. i - 1 \in Nat /\ s.forc \in Nat /\ s.first \in Dates
  BY SetupType
<1>2. (i - 1) * s.forc \in Nat
  BY <1>1, Products
<1> QED
  BY <1>1, <1>2, AddForecastType DEF RowDate

LEMMA FirstIs ==
  ASSUME NEW S \in SUBSET Nat, S # {}
  PROVE  First(S) \in S
  BY LeastNumber DEF First

LEMMA StartIndexIs ==
  ASSUME NEW s \in Setups, NEW d, StartIndex(s, d) # 0
  PROVE  /\ StartIndex(s, d) \in 1 .. s.rows
         /\ RowDate(s, StartIndex(s, d)) = d
         /\ s.file # "NETCDF" => StartIndex(s, d) = 1
<1>1. CASE s.delayed
  <2>1. RowsOf(s, d) # {} /\ StartIndex(s, d) = First(RowsOf(s, d))
    BY <1>1 DEF StartIndex
  <2>2. RowsOf(s, d) \in SUBSET Nat
    BY SetupType DEF RowsOf
  <2>3. StartIndex(s, d) \in RowsOf(s, d)
    BY <2>1, <2>2, FirstIs
  <2> QED
    BY <1>1, <2>3, SetupType DEF RowsOf
<1>2. CASE ~s.delayed
  <2>1. StartIndex(s, d) = 1 /\ RowDate(s, 1) = d
    BY <1>2 DEF StartIndex
  <2> QED
    BY <2>1, SetupType
<1> QED
  BY <1>1, <1>2

LEMMA LastIndexIs ==
  ASSUME NEW s \in Setups, NEW from \in 1 .. s.rows, NEW d
  PROVE  /\ LastIndex(s, from, d) \in from .. s.rows
         /\ (/\ s.file = "NETCDF" /\ d # NoDate
             /\ \E i \in from .. s.rows : RowDate(s, i) = d)
              => RowDate(s, LastIndex(s, from, d)) = d
<1> DEFINE found == {i \in RowsOf(s, d) : i >= from}
           ends == s.file = "NETCDF" /\ d # NoDate /\ found # {}
<1>1. LastIndex(s, from, d) = IF ends THEN First(found) ELSE s.rows
  BY DEF LastIndex
<1>2. found \in SUBSET Nat /\ s.rows \in Nat
  BY SetupType DEF RowsOf
<1>3. \A i \in found : i \in from .. s.rows /\ RowDate(s, i) = d
  BY SetupType DEF RowsOf
<1>4. ASSUME NEW i \in from .. s.rows, RowDate(s, i) = d PROVE i \in found
  BY <1>2, <1>4 DEF RowsOf
<1>5. found # {} => First(found) \in found
  BY <1>2, FirstIs
<1> HIDE DEF found
<1>6. CASE ends
  BY <1>1, <1>3, <1>5, <1>6
<1>7. CASE ~ends
  <2>1. LastIndex(s, from, d) = s.rows /\ s.rows \in from .. s.rows
    BY <1>1, <1>2, <1>7
  <2>2. s.file = "NETCDF" /\ d # NoDate => ~ \E i \in from .. s.rows : RowDate(s, i) = d
    BY <1>4, <1>7
  <2> QED
    BY <2>1, <2>2
<1> QED
  BY <1>6, <1>7
LEMMA StepsOfForcing ==
  ASSUME NEW s \in Setups, NEW d, Coherent(s, d)
  PROVE  s.forc \div s.surf \in Nat \ {0} /\ s.forc = s.surf * (s.forc \div s.surf)
<1> DEFINE q == s.forc \div s.surf
<1>1. s.forc \in Nat \ {0} /\ s.surf \in Nat \ {0} /\ s.forc % s.surf = 0
  BY SetupType DEF Coherent
<1>2. q \in Nat /\ s.forc = s.surf * q + 0
  BY <1>1, Division
<1> HIDE DEF q
<1>3. s.forc = s.surf * q /\ s.surf * 0 = 0
  BY <1>1, <1>2, SMT
<1>4. q # 0
  BY <1>1, <1>3
<1> QED
  BY <1>2, <1>3, <1>4 DEF q

-----------------------------------------------------------------------------
(* ClockInv is inductive. *)

LEMMA ClockInit == Init => ClockInv
<1> SUFFICES ASSUME Init PROVE ClockInv
  OBVIOUS
<1>1. setup \in Setups /\ prep = setup.prep
  BY DEF Init
<1>2. /\ setup.prep \in Dates /\ MaxRuns \in Nat \ {0} /\ setup.nread \in Nat
      /\ StartIndex(setup, setup.prep) # setup.rows
  BY <1>1, SetupType
<1>3. DriverType
  BY <1>2 DEF Init, DriverType
<1> QED
  BY <1>1, <1>2, <1>3 DEF Init, ClockInv, Going

LEMMA ClockConfigure == ClockInv /\ Configure => ClockInv'
<1> SUFFICES ASSUME ClockInv, Configure PROVE ClockInv'
  OBVIOUS
<1> DEFINE from == StartIndex(setup, prep)
           last == LastIndex(setup, from, stop)
           n    == last - from
           size == Lines(n, NB_READ_FORC)
           parts == IF size = 0 THEN 0 ELSE CeilDiv(n + 1, size)
<1> HIDE DEF last, n, size, parts
<1>1. /\ pc = "configure" /\ pc' = "first reading"
      /\ from # 0 /\ Coherent(setup, prep)
      /\ ITIMESTARTINDEX' = from /\ INB_STEP_ATM' = n
      /\ INB_LINES' = size /\ NB_READ_FORC' = parts
      /\ date' = prep /\ ttime' = prep /\ ZTIMEC' = 0
      /\ setup' = setup /\ stop' = stop /\ runs' = runs /\ prep' = prep
      /\ JFORC_STEP' = JFORC_STEP /\ JSURF_STEP' = JSURF_STEP
  BY DEF Configure, config, last, n, size, parts
<1>2. DriverType /\ prep = date /\ NB_READ_FORC = setup.nread /\ from # setup.rows
  BY <1>1 DEF ClockInv
<1>3. setup \in Setups /\ setup.rows \in Nat /\ setup.nread \in Nat /\ NoDate \notin Dates
  BY <1>2, SetupType DEF DriverType
<1>4. /\ from \in 1 .. setup.rows - 1 /\ from \in 1 .. setup.rows /\ RowDate(setup, from) = prep
      /\ setup.file # "NETCDF" => from = 1
  <2> HIDE DEF from
  <2>1. /\ from \in 1 .. setup.rows /\ RowDate(setup, from) = prep
        /\ setup.file # "NETCDF" => from = 1
    BY <1>1, <1>3, StartIndexIs DEF from
  <2> QED
    BY <1>2, <1>3, <2>1
<1> HIDE DEF from
<1>5. /\ last \in from .. setup.rows
      /\ (/\ setup.file = "NETCDF" /\ stop # NoDate
          /\ \E i \in from .. setup.rows : RowDate(setup, i) = stop)
           => RowDate(setup, last) = stop
  BY <1>3, <1>4, LastIndexIs DEF last
<1>6. n \in Nat /\ from + n = last
  BY <1>3, <1>4, <1>5 DEF n
<1>7. size \in Nat /\ parts \in Nat /\ Parted(n, size, parts, setup.nread)
  BY <1>2, <1>3, <1>6, LinesParted DEF size, parts
<1>8. INB_ATM \in Nat \ {0} /\ setup.forc = setup.surf * INB_ATM /\ INB_ATM' = INB_ATM
  <2>1. Coherent(setup, prep) /\ setup' = setup
    BY <1>1
  <2> QED
    BY <1>3, <2>1, StepsOfForcing DEF INB_ATM
<1>9. DriverType'
  <2>1. from \in Nat
    BY <1>3, <1>4
  <2> QED
    BY <1>1, <1>2, <1>6, <1>7, <2>1 DEF DriverType
<1>10. Planned'
  <2>1. (/\ setup.file = "NETCDF"
         /\ \E i \in from .. setup.rows : RowDate(setup, i) = stop)
          => RowDate(setup, last) = stop
    <3> SUFFICES ASSUME setup.file = "NETCDF",
                        NEW i \in from .. setup.rows, RowDate(setup, i) = stop
                 PROVE  RowDate(setup, last) = stop
      OBVIOUS
    <3>1. i \in Nat \ {0}
      BY <1>4
    <3>2. stop \in Dates
      BY <1>3, <3>1, RowDateType
    <3> QED
      BY <1>3, <1>5, <3>2
  <2>2. /\ from \in 1 .. setup.rows - 1 /\ from + n <= setup.rows
        /\ setup.file # "NETCDF" => from = 1
        /\ Parted(n, size, parts, setup.nread)
        /\ (/\ setup.file = "NETCDF"
            /\ \E i \in from .. setup.rows : RowDate(setup, i) = stop)
             => RowDate(setup, from + n) = stop
    BY <1>3, <1>4, <1>5, <1>6, <1>7, <2>1
  <2> QED
    BY <1>1, <1>8, <2>2 DEF Planned
<1>11. Timed'
  <2>1. from \in Nat \ {0} /\ (from - 1) * setup.forc + 0 = (from - 1) * setup.forc
    BY <1>3, <1>4, RowDateType
  <2>2. prep = AddForecast(setup.first, (from - 1) * setup.forc)
    BY <1>3, <1>4, <2>1, RowDateType
  <2> QED
    BY <1>1, <2>1, <2>2 DEF Timed
<1> QED
  BY <1>1, <1>9, <1>10, <1>11 DEF ClockInv

LEMMA ClockSurfaceStep == ClockInv /\ SurfaceStep => ClockInv'
<1> SUFFICES ASSUME ClockInv, SurfaceStep PROVE ClockInv'
  OBVIOUS
<1> DEFINE start == (ITIMESTARTINDEX - 1) * setup.forc
           z == ZTIMEC + setup.surf
<1>1. /\ pc = "surface" /\ ZTIMEC' = z
      /\ ttime' = AddForecast(ttime, setup.surf)
      /\ date' = AddForecast(date, setup.surf)
      /\ NextStep
      /\ setup' = setup /\ stop' = stop /\ runs' = runs /\ prep' = prep
      /\ UNCHANGED lines
  BY DEF SurfaceStep, config
<1>2. DriverType /\ Planned /\ Timed
  BY <1>1 DEF ClockInv, Going
<1>3. /\ setup \in Setups /\ setup.first \in Dates /\ setup.forc \in Nat \ {0}
      /\ setup.surf \in Nat \ {0}
      /\ date \in Dates /\ ttime = date /\ ZTIMEC \in Nat
      /\ ITIMESTARTINDEX \in Nat \ {0} /\ INB_STEP_ATM \in Nat
  <2>1. /\ setup \in Setups /\ date \in Dates /\ ttime = date /\ ZTIMEC \in Nat
        /\ INB_STEP_ATM \in Nat
    BY <1>2 DEF DriverType
  <2>2. /\ setup.first \in Dates /\ setup.forc \in Nat \ {0} /\ setup.surf \in Nat \ {0}
        /\ setup.rows \in Nat
    BY <2>1, SetupType
  <2>3. ITIMESTARTINDEX \in 1 .. setup.rows - 1
    BY <1>2 DEF Planned
  <2> QED
    BY <2>1, <2>2, <2>3
<1>4. start \in Nat
  BY <1>3, RowDateType
<1>5. z \in Nat /\ start + ZTIMEC \in Nat /\ (start + ZTIMEC) + setup.surf = start + z
  BY <1>3, <1>4
<1>6. /\ date = AddForecast(setup.first, start + ZTIMEC)
      /\ JFORC_STEP \in 1 .. INB_STEP_ATM
      /\ JSURF_STEP \in 1 .. INB_ATM
      /\ ZTIMEC = (JFORC_STEP - 1) * setup.forc + (JSURF_STEP - 1) * setup.surf
  BY <1>1, <1>2 DEF Timed
<1>7. INB_ATM \in Nat \ {0} /\ setup.forc = setup.surf * INB_ATM /\ INB_ATM' = INB_ATM
  BY <1>1, <1>2 DEF Planned, INB_ATM
<1> HIDE DEF start
<1>8. date' = AddForecast(setup.first, start + z) /\ date' \in Dates
  <2>1. setup.surf \in Nat
    BY <1>3
  <2>2. AddForecast(AddForecast(setup.first, start + ZTIMEC), setup.surf)
          = AddForecast(setup.first, (start + ZTIMEC) + setup.surf)
    BY <1>3, <1>5, <2>1, AddForecastTwice
  <2> QED
    BY <1>1, <1>3, <1>5, <1>6, <2>1, <2>2, AddForecastType
<1>9. z = (JFORC_STEP - 1) * setup.forc + JSURF_STEP * setup.surf
  <2>1. /\ JSURF_STEP - 1 \in Int /\ (JSURF_STEP - 1) * setup.surf \in Int
        /\ ((JSURF_STEP - 1) + 1) * setup.surf = (JSURF_STEP - 1) * setup.surf + setup.surf
        /\ (JSURF_STEP - 1) + 1 = JSURF_STEP /\ (JFORC_STEP - 1) * setup.forc \in Int
    BY <1>3, <1>6, Products
  <2> QED
    BY <1>3, <1>6, <2>1
<1>10. JSURF_STEP = INB_ATM => z = JFORC_STEP * setup.forc
  <2> SUFFICES ASSUME JSURF_STEP = INB_ATM PROVE z = JFORC_STEP * setup.forc
    OBVIOUS
  <2>1. z = (JFORC_STEP - 1) * setup.forc + setup.forc
    <3>1. INB_ATM * setup.surf = setup.forc
      BY <1>3, <1>7, SMT
    <3> QED
      BY <1>9, <3>1
  <2>2. JFORC_STEP * setup.forc \in Int
        /\ (JFORC_STEP - 1) * setup.forc = JFORC_STEP * setup.forc - setup.forc
    BY <1>3, <1>6, Products
  <2> QED
    BY <1>3, <2>1, <2>2
<1> HIDE DEF z
<1>11. ITIMESTARTINDEX' = ITIMESTARTINDEX /\ INB_STEP_ATM' = INB_STEP_ATM
       /\ INB_LINES' = INB_LINES /\ NB_READ_FORC' = NB_READ_FORC
  BY <1>1 DEF lines
<1>12. Planned'
  BY <1>1, <1>2, <1>7, <1>11 DEF Planned
<1>13. date' = AddForecast(setup'.first, (ITIMESTARTINDEX' - 1) * setup'.forc + ZTIMEC')
  BY <1>1, <1>8, <1>11 DEF start
<1>14. CASE JSURF_STEP < INB_ATM
  <2>1. JSURF_STEP' = JSURF_STEP + 1 /\ JFORC_STEP' = JFORC_STEP /\ pc' = "surface"
    BY <1>1, <1>14 DEF NextStep
  <2>2. JSURF_STEP' \in 1 .. INB_ATM /\ JSURF_STEP' - 1 = JSURF_STEP /\ JSURF_STEP' \in Nat
    BY <1>6, <1>7, <1>14, <2>1
  <2>3. Timed'
    BY <1>1, <1>6, <1>7, <1>9, <1>11, <1>13, <2>1, <2>2 DEF Timed
  <2>4. DriverType'
    BY <1>1, <1>2, <1>3, <1>5, <1>8, <1>11, <2>1, <2>2 DEF DriverType
  <2> QED
    BY <1>12, <2>1, <2>3, <2>4 DEF ClockInv
<1>15. CASE ~(JSURF_STEP < INB_ATM) /\ JFORC_STEP < INB_STEP_ATM
  <2>1. JSURF_STEP' = JSURF_STEP /\ JFORC_STEP' = JFORC_STEP + 1 /\ pc' = "forcing"
    BY <1>1, <1>15 DEF NextStep
  <2>2. JFORC_STEP' \in 1 .. INB_STEP_ATM /\ JFORC_STEP' - 1 = JFORC_STEP /\ JFORC_STEP' \in Nat
        /\ JSURF_STEP = INB_ATM
    BY <1>3, <1>6, <1>7, <1>15, <2>1
  <2>3. Timed'
    BY <1>1, <1>10, <1>11, <1>13, <2>1, <2>2 DEF Timed
  <2>4. DriverType'
    BY <1>1, <1>2, <1>3, <1>5, <1>8, <1>11, <2>1, <2>2 DEF DriverType
  <2> QED
    BY <1>12, <2>1, <2>3, <2>4 DEF ClockInv
<1>16. CASE ~(JSURF_STEP < INB_ATM) /\ ~(JFORC_STEP < INB_STEP_ATM)
  <2>1. JSURF_STEP' = JSURF_STEP /\ JFORC_STEP' = JFORC_STEP /\ pc' = "restart"
    BY <1>1, <1>16 DEF NextStep
  <2>2. JFORC_STEP = INB_STEP_ATM /\ JSURF_STEP = INB_ATM
    BY <1>3, <1>6, <1>7, <1>16
  <2>3. Timed'
    BY <1>1, <1>10, <1>11, <1>13, <2>1, <2>2 DEF Timed
  <2>4. DriverType'
    BY <1>1, <1>2, <1>3, <1>5, <1>8, <1>11, <2>1 DEF DriverType
  <2> QED
    BY <1>12, <2>1, <2>3, <2>4 DEF ClockInv
<1> QED
  BY <1>14, <1>15, <1>16

LEMMA ClockNext == ClockInv /\ [Next]_vars => ClockInv'
<1> SUFFICES ASSUME ClockInv, [Next]_vars PROVE ClockInv'
  OBVIOUS
<1> USE DEF INB_ATM
<1>1. CASE Configure
  BY <1>1, ClockConfigure
<1>2. CASE Abort
  BY <1>2 DEF Abort, ClockInv, DriverType, Going, config, lines, clock
<1>3. CASE FirstReading
  <2>1. pc = "first reading" /\ Planned /\ Timed /\ DriverType /\ ZTIMEC = 0
    BY <1>3 DEF FirstReading, ClockInv, Going, Timed
  <2>2. /\ UNCHANGED <<setup, stop, runs, prep, date, ttime, ZTIMEC, JSURF_STEP, lines>>
        /\ JFORC_STEP' = 1
        /\ pc' = IF INB_STEP_ATM = 0 THEN "restart" ELSE "forcing"
    BY <1>3 DEF FirstReading, config, clock
  <2>3. DriverType'
    BY <2>1, <2>2 DEF DriverType, lines
  <2>4. Planned'
    BY <2>1, <2>2 DEF Planned, lines
  <2>5. INB_STEP_ATM \in Nat /\ 0 * setup.forc = 0
    <3>1. setup \in Setups /\ INB_STEP_ATM \in Nat
      BY <2>1 DEF DriverType
    <3>2. setup.forc \in Nat
      BY <3>1, SetupType
    <3> QED
      BY <3>1, <3>2
  <2>6. Timed'
    <3>1. CASE INB_STEP_ATM = 0
      BY <2>1, <2>2, <2>5, <3>1 DEF Timed, lines
    <3>2. CASE INB_STEP_ATM # 0
      <4>1. JFORC_STEP' \in 1 .. INB_STEP_ATM' /\ JFORC_STEP' - 1 = 0
        BY <2>2, <2>5, <3>2 DEF lines
      <4> QED
        BY <2>1, <2>2, <2>5, <3>2, <4>1 DEF Timed, lines
    <3> QED
      BY <3>1, <3>2
  <2> QED
    BY <2>1, <2>2, <2>3, <2>4, <2>6 DEF ClockInv
<1>4. CASE ForcingStep
  <2>1. pc = "forcing" /\ Planned /\ Timed /\ DriverType
    BY <1>4 DEF ForcingStep, ClockInv, Going
  <2>2. /\ UNCHANGED <<setup, stop, runs, prep, date, ttime, ZTIMEC, JFORC_STEP, lines>>
        /\ JSURF_STEP' = 1 /\ pc' = "surface"
    BY <1>4 DEF ForcingStep, config, clock
  <2>3. DriverType'
    BY <2>1, <2>2 DEF DriverType, lines
  <2>4. Planned'
    BY <2>1, <2>2 DEF Planned, lines
  <2>5. /\ setup.surf \in Nat /\ 0 * setup.surf = 0 /\ ZTIMEC \in Nat /\ ZTIMEC + 0 = ZTIMEC
        /\ 1 \in 1 .. INB_ATM
    BY <2>1, SetupType DEF DriverType, Planned
  <2>6. Timed'
    BY <2>1, <2>2, <2>5 DEF Timed, lines
  <2> QED
    BY <2>1, <2>2, <2>3, <2>4, <2>6 DEF ClockInv
<1>5. CASE SurfaceStep
  BY <1>5, ClockSurfaceStep
<1>6. CASE Restart
  <2>1. pc = "restart" /\ Planned /\ Timed /\ DriverType
    BY <1>6 DEF Restart, ClockInv, Going
  <2>2. /\ UNCHANGED <<setup, stop, runs, date, ttime, ZTIMEC, JFORC_STEP, JSURF_STEP, lines>>
        /\ prep' = ttime /\ pc' = "finished"
    BY <1>6 DEF Restart, config, clock
  <2>3. DriverType'
    BY <2>1, <2>2 DEF DriverType, lines
  <2>4. Planned'
    BY <2>1, <2>2 DEF Planned, lines
  <2>5. Timed'
    BY <2>1, <2>2 DEF Timed, lines
  <2> QED
    BY <2>1, <2>2, <2>3, <2>4, <2>5 DEF ClockInv, DriverType
<1>7. CASE Launch
  <2>1. DriverType /\ prep = date /\ MaxRuns \in Nat /\ setup.nread \in Nat
    BY <1>7, SetupType DEF Launch, ClockInv, DriverType
  <2>2. DriverType'
    BY <1>7, <2>1 DEF Launch, DriverType
  <2>3. StartIndex(setup, prep) # setup.rows
    <3>1. setup.rows \in Nat
      BY <2>1, SetupType DEF DriverType
    <3> QED
      BY <1>7, <3>1 DEF Launch
  <2> QED
    BY <1>7, <2>1, <2>2, <2>3 DEF Launch, ClockInv, Going
<1>8. CASE Stopped \/ UNCHANGED vars
  <2>1. UNCHANGED vars
    BY <1>8 DEF Stopped
  <2>2. UNCHANGED <<setup, stop, runs, pc, date, ttime, prep, ZTIMEC, JFORC_STEP, JSURF_STEP, lines>>
    BY <2>1 DEF vars, config, clock
  <2> QED
    BY <2>2 DEF ClockInv, DriverType, Going, Planned, Timed, lines
<1> QED
  BY <1>1, <1>2, <1>3, <1>4, <1>5, <1>6, <1>7, <1>8 DEF Next

LEMMA ClockAlways == Spec => []ClockInv
  BY ClockInit, ClockNext, PTL DEF Spec
(* The run ends at the date of its last line, NDATESTOP when the file has  *)
(* it: the restart file has the date that the namelist asked for.          *)
THEOREM EndDateHolds == Spec => []EndDate
<1>1. ClockInv => EndDate
  <2> SUFFICES ASSUME ClockInv, pc = "restart"
               PROVE  /\ date = RowDate(setup, ITIMESTARTINDEX + INB_STEP_ATM)
                      /\ ttime = date
                      /\ (/\ setup.file = "NETCDF"
                          /\ \E i \in ITIMESTARTINDEX .. setup.rows : RowDate(setup, i) = stop)
                           => date = stop
    BY DEF EndDate
  <2> DEFINE from == ITIMESTARTINDEX
             n == INB_STEP_ATM
  <2>1. DriverType /\ Planned /\ Timed
    BY DEF ClockInv, Going
  <2>2. setup \in Setups /\ n \in Nat /\ from \in Nat /\ ttime = date
    BY <2>1 DEF DriverType
  <2>3. setup.rows \in Nat /\ setup.forc \in Nat
    BY <2>2, SetupType
  <2>4. from + n \in Nat \ {0} /\ from - 1 \in Int
    BY <2>1, <2>2, <2>3 DEF Planned
  <2>5. (from - 1) * setup.forc + n * setup.forc = ((from + n) - 1) * setup.forc
    BY <2>2, <2>3, SMT
  <2>6. date = RowDate(setup, from + n)
    <3>1. date = AddForecast(setup.first, (from - 1) * setup.forc + n * setup.forc)
      BY <2>1 DEF Timed
    <3>2. RowDate(setup, from + n) = AddForecast(setup.first, ((from + n) - 1) * setup.forc)
      BY <2>2, <2>4, RowDateType
    <3> QED
      BY <2>5, <3>1, <3>2
  <2> QED
    BY <2>1, <2>2, <2>6 DEF Planned
<1> QED
  BY <1>1, ClockAlways, PTL

(* Within a run as from one run to the next, the date moves by one step of *)
(* the surface: a run that continues another leaves no gap.                *)
THEOREM DateContinuousHolds == Spec => DateContinuous
<1>1. ClockInv /\ [Next]_vars => [date' = AddForecast(date, setup.surf)]_date
  <2> SUFFICES ASSUME ClockInv, [Next]_vars, date' # date
               PROVE  date' = AddForecast(date, setup.surf)
    OBVIOUS
  <2>1. CASE Configure
    BY <2>1 DEF Configure, ClockInv
  <2>2. CASE SurfaceStep
    BY <2>2 DEF SurfaceStep
  <2>3. ~ (Abort \/ FirstReading \/ ForcingStep \/ Restart \/ Launch)
    BY DEF Abort, FirstReading, ForcingStep, Restart, Launch, clock
  <2>4. ~ (Stopped \/ UNCHANGED vars)
    BY DEF Stopped, vars, clock
  <2> QED
    BY <2>1, <2>2, <2>3, <2>4 DEF Next
<1> QED
  BY <1>1, ClockAlways, PTL DEF Spec, DateContinuous
-----------------------------------------------------------------------------
(* A reading puts line step of the file, and those that follow it, in the  *)
(* first lines of the buffer: from the file, or from the end of the part   *)
(* read before.                                                            *)

LEMMA ReadLineIs ==
  ASSUME NEW s, NEW buf \in Seq(Nat), NEW step \in Nat \ {0}, NEW n \in 1 .. Len(buf),
         NEW pos \in Nat, s.file = "NETCDF" \/ step = 1 \/ buf[n] = step,
         s.file = "ASCII" => step = 1 \/ pos = step,
         NEW i \in 1 .. Len(buf)
  PROVE  /\ ReadLine(s, buf, step, n, pos, i) \in Nat
         /\ i <= n => ReadLine(s, buf, step, n, pos, i) = step + i - 1
<1>1. CASE i > n
  <2>1. ReadLine(s, buf, step, n, pos, i) = buf[i] /\ buf[i] \in Nat
    BY <1>1 DEF ReadLine, FirstRead
  <2> QED
    BY <1>1, <2>1
<1>2. CASE ~(i > n) /\ i = 1 /\ ~FirstRead(s, step)
  BY <1>2 DEF ReadLine, FirstRead
<1>3. CASE ~(i > n) /\ ~(i = 1 /\ ~FirstRead(s, step))
  <2>1. ReadLine(s, buf, step, n, pos, i)
          = IF s.file # "ASCII" THEN step + i - 1 ELSE IF step = 1 THEN i ELSE pos + i - 1
    BY <1>3 DEF ReadLine, FirstRead
  <2> QED
    BY <2>1
<1> QED
  BY <1>1, <1>2, <1>3

LEMMA ReadingIs ==
  ASSUME NEW buf \in Seq(Nat), NEW step \in Nat \ {0}, NEW n \in 1 .. Len(buf),
         filepos \in Nat, readings \in Seq(SUBSET Nat),
         setup.file = "NETCDF" \/ step = 1 \/ buf[n] = step,
         setup.file = "ASCII" => step = 1 \/ filepos = step,
         NEW last \in Nat, step + n - 1 <= last,
         \A i \in 1 .. Len(readings) : readings[i] \subseteq 1 .. last,
         OL_READ_ATM(buf, step, n)
  PROVE  /\ buffer' \in Seq(Nat) /\ Len(buffer') = Len(buf)
         /\ \A i \in 1 .. n : buffer'[i] = step + i - 1
         /\ filepos' \in Nat
         /\ readings' \in Seq(SUBSET Nat) /\ Len(readings') = Len(readings) + 1
         /\ \A i \in 1 .. Len(readings') : readings'[i] \subseteq 1 .. last
<1> DEFINE read == {buffer'[i] : i \in 1 .. n}
<1>1. /\ buffer' = [i \in DOMAIN buf |-> ReadLine(setup, buf, step, n, filepos, i)]
      /\ filepos' = IF step = 1 THEN n ELSE filepos + n - 1
      /\ readings' = Append(readings, read)
  BY DEF OL_READ_ATM
<1>2. DOMAIN buf = 1 .. Len(buf) /\ Len(buf) \in Nat
  OBVIOUS
<1>3. \A i \in 1 .. Len(buf) :
        /\ ReadLine(setup, buf, step, n, filepos, i) \in Nat
        /\ i <= n => ReadLine(setup, buf, step, n, filepos, i) = step + i - 1
  <2> TAKE i \in 1 .. Len(buf)
  <2>1. ReadLine(setup, buf, step, n, filepos, i) \in Nat
    BY ReadLineIs, ZenonT(30)
  <2>2. i <= n => ReadLine(setup, buf, step, n, filepos, i) = step + i - 1
    BY ReadLineIs, ZenonT(30)
  <2> QED
    BY <2>1, <2>2
<1>4. buffer' \in Seq(Nat) /\ Len(buffer') = Len(buf)
  BY <1>1, <1>2, <1>3
<1>5. \A i \in 1 .. n : buffer'[i] = step + i - 1
  <2> TAKE i \in 1 .. n
  <2>1. i \in 1 .. Len(buf) /\ i <= n
    BY <1>2
  <2>2. buffer'[i] = ReadLine(setup, buf, step, n, filepos, i)
    BY <1>1, <1>2, <2>1
  <2> QED
    BY <1>3, <2>1, <2>2
<1>6. read \subseteq 1 .. last
  BY <1>5
<1>7. filepos' \in Nat
  BY <1>1, <1>2
<1> HIDE DEF read
<1>8. read \in SUBSET Nat
  BY <1>6
<1>9. /\ readings' \in Seq(SUBSET Nat) /\ Len(readings') = Len(readings) + 1
      /\ \A i \in 1 .. Len(readings) : readings'[i] = readings[i]
      /\ readings'[Len(readings) + 1] = read
  BY <1>1, <1>8
<1>10. \A i \in 1 .. Len(readings') : readings'[i] \subseteq 1 .. last
  <2> TAKE i \in 1 .. Len(readings')
  <2>1. i \in 1 .. Len(readings) \/ i = Len(readings) + 1
    BY <1>9
  <2> QED
    BY <1>6, <1>9, <2>1
<1> QED
  BY <1>4, <1>5, <1>7, <1>9, <1>10

(* ForcingStep when it reads. *)
ReadsPart(j, m, buf) ==
  /\ m = IF LastReading(j) THEN LastSize(j) ELSE IDMAX
  /\ buf = IF LastReading(j) THEN KeepLast(buffer, m) ELSE buffer
  /\ IDMAX' = m
  /\ OL_READ_ATM(buf, ITIMESTARTINDEX + j - 1, m)
  /\ UNCHANGED <<setup, lines>>

(* The lines of part k + 1 for the buffer holding part k, its last line    *)
(* given to the end of the next one.                                       *)
LEMMA NextReading ==
  ASSUME NEW k \in Nat, NEW m, NEW buf, NEW j \in Nat,
         Planned, ReadingInv, Holds(k), DriverType,
         INB_STEP_ATM # 0, Len(buffer) = INB_LINES + 1,
         j = (k + 1) * INB_LINES + 1, j <= INB_STEP_ATM,
         ReadsPart(j, m, buf)
  PROVE  /\ Holds(k + 1)' /\ IDMAX' \in Nat
         /\ buffer' \in Seq(Nat) /\ Len(buffer') = INB_LINES + 1
         /\ filepos' \in Nat /\ readings' \in Seq(SUBSET Nat) /\ ReadsInFile'
<1> DEFINE L == INB_LINES
           n == INB_STEP_ATM
           from == ITIMESTARTINDEX
           kL == (k + 1) * L
           step == from + j - 1
           nread == setup.nread
<1>0. /\ setup \in Setups /\ setup.rows \in Nat /\ nread \in Nat
      /\ n \in Nat \ {0} /\ L \in Nat /\ NB_READ_FORC \in Nat /\ from \in Nat
  BY SetupType DEF DriverType
<1>1. /\ from \in 1 .. setup.rows - 1 /\ from + n <= setup.rows
      /\ setup.file # "NETCDF" => from = 1
      /\ Parted(n, L, NB_READ_FORC, nread)
      /\ L \in 1 .. n
  BY <1>0 DEF Planned, Parted, nread
<1>2. k * L \in Nat /\ kL = k * L + L /\ kL \in Nat
  BY <1>0, SMT
<1> HIDE DEF kL, nread
<1>3. /\ Len(readings) = k + 1 /\ IDMAX \in 1 .. L + 1
      /\ k * L + IDMAX <= n + 1
      /\ IDMAX = L + 1 \/ IDMAX = n - k * L + 1
      /\ \A i \in 1 .. IDMAX : buffer[i] = from + k * L + i - 1
      /\ setup.file = "ASCII" => filepos = k * L + IDMAX
  BY <1>0 DEF Holds
<1>4. j = kL + 1 /\ kL + 1 <= n
  BY DEF kL
<1>5. IDMAX = L + 1
  <2>1. n - k * L + 1 > L + 1
    BY <1>0, <1>2, <1>4
  <2> QED
    BY <1>0, <1>2, <1>3, <2>1
<1>6. /\ m \in 2 .. L + 1 /\ kL + m <= n + 1
      /\ m = L + 1 \/ m = n - kL + 1
      /\ nread > 0 => k + 2 <= nread
  <2>1. m = IF LastReading(j) THEN LastSize(j) ELSE L + 1
    BY <1>5 DEF ReadsPart
  <2> QED
    BY <1>0, <1>1, <2>1, NextPart DEF kL
<1>7. step = from + kL /\ step \in Nat \ {0} /\ step # 1
  BY <1>1, <1>2, <1>4
<1> HIDE DEF step
<1>8. buffer \in Seq(Nat) /\ filepos \in Nat /\ readings \in Seq(SUBSET Nat)
  BY DEF ReadingInv
<1>9. buffer[L + 1] = step
  <2>1. L + 1 \in 1 .. IDMAX
    BY <1>1, <1>5
  <2>2. buffer[L + 1] = from + k * L + (L + 1) - 1
    BY <1>3, <2>1
  <2> QED
    BY <1>1, <1>2, <1>7, <2>2
<1>10. buf \in Seq(Nat) /\ Len(buf) = L + 1 /\ buf[m] = step
  <2>1. CASE LastReading(j)
    <3>1. buf = [buffer EXCEPT ![m] = step]
      BY <1>9, <2>1 DEF KeepLast, ReadsPart
    <3>2. m \in 1 .. Len(buffer) /\ step \in Nat
      BY <1>1, <1>6, <1>7
    <3> HIDE DEF L
    <3>3. Len([buffer EXCEPT ![m] = step]) = Len(buffer) /\ [buffer EXCEPT ![m] = step] \in Seq(Nat)
      BY <1>8, <3>2, ExceptSeq
    <3>4. [buffer EXCEPT ![m] = step][m] = step
      BY <1>8, <3>2
    <3> QED
      BY <3>1, <3>3, <3>4 DEF L
  <2>2. CASE ~LastReading(j)
    BY <1>5, <1>8, <1>9, <2>2 DEF ReadsPart
  <2> QED
    BY <2>1, <2>2
<1>11. /\ m \in 1 .. Len(buf) /\ step + m - 1 <= setup.rows
       /\ setup.file = "ASCII" => filepos = step
  <2>1. m \in 1 .. Len(buf)
    BY <1>1, <1>6, <1>10
  <2>2. step + m - 1 <= setup.rows
    <3>1. from \in Nat /\ kL \in Nat /\ m \in Nat /\ n \in Nat
      BY <1>0, <1>2, <1>6
    <3>2. from + n <= setup.rows /\ kL + m <= n + 1 /\ step = from + kL
      BY <1>1, <1>6, <1>7
    <3> QED
      BY <1>0, <3>1, <3>2
  <2>3. setup.file = "ASCII" => filepos = step
    BY <1>1, <1>2, <1>3, <1>5, <1>7
  <2> QED
    BY <2>1, <2>2, <2>3
<1>12. \A i \in 1 .. Len(readings) : readings[i] \subseteq 1 .. setup.rows
  BY DEF ReadingInv, ReadsInFile
<1>13. OL_READ_ATM(buf, step, m)
  BY DEF step, ReadsPart
<1>14. /\ buffer' \in Seq(Nat) /\ Len(buffer') = Len(buf)
       /\ \A i \in 1 .. m : buffer'[i] = step + i - 1
       /\ filepos' \in Nat
       /\ readings' \in Seq(SUBSET Nat) /\ Len(readings') = Len(readings) + 1
       /\ \A i \in 1 .. Len(readings') : readings'[i] \subseteq 1 .. setup.rows
  <2> HIDE DEF from
  <2> QED
    BY <1>0, <1>7, <1>8, <1>10, <1>11, <1>12, <1>13, ReadingIs
<1>15. Len(readings') = (k + 1) + 1
  BY <1>3, <1>14
<1>16. ReadsInFile'
  BY <1>6, <1>14, <1>15 DEF ReadsInFile, ReadsPart, nread
<1>17. Holds(k + 1)'
  <2>1. /\ IDMAX' = m /\ INB_LINES' = L /\ INB_STEP_ATM' = n /\ ITIMESTARTINDEX' = from
        /\ setup' = setup
    BY DEF lines, ReadsPart
  <2>2. \A i \in 1 .. m : buffer'[i] = from + kL + i - 1
    BY <1>1, <1>7, <1>14
  <2>3. setup.file = "ASCII" => filepos' = kL + m
    <3>1. filepos' = filepos + m - 1
      BY <1>7, <1>13 DEF OL_READ_ATM
    <3>2. setup.file = "ASCII" => filepos = kL + 1
      BY <1>0, <1>1, <1>2, <1>7, <1>11
    <3>3. kL \in Nat /\ m \in Nat
      BY <1>2, <1>6
    <3> QED
      BY <3>1, <3>2, <3>3
  <2>4. m \in 1 .. L + 1
    BY <1>6
  <2> QED
    BY <1>6, <1>15, <2>1, <2>2, <2>3, <2>4 DEF Holds, kL
<1>18. IDMAX' = m /\ m \in Nat
  BY <1>6 DEF ReadsPart
<1> QED
  BY <1>10, <1>14, <1>16, <1>17, <1>18
-----------------------------------------------------------------------------
(* ReadingInv is inductive. *)

LEMMA ReadingFirst == ClockInv /\ ReadingInv /\ FirstReading => ReadingInv'
<1> SUFFICES ASSUME ClockInv, ReadingInv, FirstReading PROVE ReadingInv'
  OBVIOUS
<1> DEFINE L == INB_LINES
           n == INB_STEP_ATM
           from == ITIMESTARTINDEX
<1>1. /\ pc = "first reading" /\ OL_READ_ATM(buffer, from, IDMAX)
      /\ JFORC_STEP' = 1 /\ pc' = IF n = 0 THEN "restart" ELSE "forcing"
      /\ IDMAX' = IDMAX /\ setup' = setup
      /\ from' = from /\ n' = n /\ L' = L
  BY DEF FirstReading, config, lines
<1>2. DriverType /\ Planned
  BY <1>1 DEF ClockInv, Going
<1>3. /\ setup.rows \in Nat /\ setup.nread \in Nat
      /\ n \in Nat /\ L \in Nat /\ from \in Nat
  BY <1>2, SetupType DEF DriverType
<1>4. /\ from \in 1 .. setup.rows - 1 /\ from + n <= setup.rows
      /\ setup.file # "NETCDF" => from = 1
  BY <1>2 DEF Planned
<1>5. L <= n \/ (L <= 1 /\ n = 0)
  <2>1. Parted(n, L, NB_READ_FORC, setup.nread)
    BY <1>2 DEF Planned
  <2>2. (n = 0 /\ L \in {0, 1}) \/ L \in 1 .. n
    BY <2>1, Zenon DEF Parted
  <2> QED
    BY <1>3, <2>2
<1>6. /\ IDMAX = L + 1 /\ Len(buffer) = L + 1 /\ readings = <<>> /\ filepos = 0
      /\ buffer \in Seq(Nat)
  BY <1>1 DEF ReadingInv
<1> HIDE DEF L, n, from
<1>7. from + IDMAX - 1 <= setup.rows /\ IDMAX \in 1 .. Len(buffer) /\ from \in Nat \ {0}
  BY <1>3, <1>4, <1>5, <1>6
<1>8. /\ readings \in Seq(SUBSET Nat) /\ filepos \in Nat
      /\ \A i \in 1 .. Len(readings) : readings[i] \subseteq 1 .. setup.rows
      /\ setup.file = "NETCDF" \/ from = 1 \/ buffer[IDMAX] = from
      /\ setup.file = "ASCII" => from = 1 \/ filepos = from
  BY <1>4, <1>6
<1>9. /\ buffer' \in Seq(Nat) /\ Len(buffer') = Len(buffer)
      /\ \A i \in 1 .. IDMAX : buffer'[i] = from + i - 1
      /\ filepos' \in Nat
      /\ readings' \in Seq(SUBSET Nat) /\ Len(readings') = Len(readings) + 1
      /\ \A i \in 1 .. Len(readings') : readings'[i] \subseteq 1 .. setup.rows
  BY <1>1, <1>3, <1>6, <1>7, <1>8, ReadingIs
<1>10. Len(readings') = 1
  BY <1>6, <1>9
<1>11. ReadsInFile'
  <2>1. setup.nread > 0 => 1 <= setup.nread
    BY <1>3
  <2>2. setup' = setup
    BY <1>1
  <2> QED
    BY <1>9, <1>10, <2>1, <2>2 DEF ReadsInFile
<1>12. ASSUME n # 0 PROVE Holds(0)'
  <2>1. 0 * L = 0
    BY <1>3
  <2>2. setup.file = "ASCII" => filepos' = IDMAX
    BY <1>1, <1>4 DEF OL_READ_ATM
  <2>3. /\ IDMAX \in 1 .. L + 1 /\ 0 * L + IDMAX <= n + 1
        /\ \A i \in 1 .. IDMAX : buffer'[i] = from + 0 * L + i - 1
        /\ setup.file = "ASCII" => filepos' = 0 * L + IDMAX
    BY <1>3, <1>5, <1>6, <1>9, <1>12, <2>1, <2>2
  <2>4. /\ IDMAX' = L + 1 /\ IDMAX' = IDMAX /\ setup' = setup
        /\ INB_LINES' = L /\ INB_STEP_ATM' = n /\ ITIMESTARTINDEX' = from
    BY <1>1, <1>6 DEF L, n, from
  <2>5. Len(readings') = 0 + 1
    BY <1>10
  <2> QED
    BY <2>3, <2>4, <2>5 DEF Holds
<1>13. pc' = "forcing" => PartHeld'
  <2> SUFFICES ASSUME pc' = "forcing" PROVE PartHeld'
    OBVIOUS
  <2>1. Holds(0)' /\ JFORC_STEP' = 1 /\ 0 \in Nat
    BY <1>1, <1>12
  <2> QED
    BY <2>1 DEF PartHeld
<1> QED
  BY <1>1, <1>3, <1>6, <1>9, <1>11, <1>13 DEF ReadingInv, L

LEMMA ReadingForcing == ClockInv /\ ReadingInv /\ ForcingStep => ReadingInv'
<1> SUFFICES ASSUME ClockInv, ReadingInv, ForcingStep PROVE ReadingInv'
  OBVIOUS
<1> DEFINE L == INB_LINES
           j == JFORC_STEP
<1>1. /\ pc = "forcing" /\ pc' = "surface" /\ JFORC_STEP' = j /\ setup' = setup
      /\ UNCHANGED lines
  BY DEF ForcingStep, config
<1>2. DriverType /\ Planned /\ Timed
  BY <1>1 DEF ClockInv, Going
<1>3. INB_STEP_ATM \in Nat /\ L \in Nat /\ j \in 1 .. INB_STEP_ATM /\ j \in Nat
  BY <1>1, <1>2 DEF DriverType, Timed
<1>4. L \in Nat \ {0} /\ L \in 1 .. INB_STEP_ATM /\ INB_STEP_ATM # 0
  BY <1>2, <1>3 DEF Planned, Parted
<1>5. Len(buffer) = L + 1 /\ PartHeld
  BY <1>1 DEF ReadingInv
<1>6. PICK k \in Nat :
        /\ Holds(k)
        /\ \/ k = 0 /\ j = 1
           \/ k * L < j - 1 /\ j - 1 <= (k + 1) * L
  BY <1>1, <1>5 DEF PartHeld
<1>7. /\ k * L \in Nat /\ (k + 1) * L = k * L + L /\ k + 1 \in Nat /\ (k + 1) * L \in Nat
      /\ ((k + 1) + 1) * L = (k + 1) * L + L
  BY <1>4, SMT
<1>8. CASE j - 1 = (k + 1) * L
  <2>1. (k + 1) * L < j /\ j <= ((k + 1) + 1) * L
    BY <1>3, <1>4, <1>7, <1>8
  <2>2. ID_FORC(j) = j - (k + 1) * L
    BY <1>3, <1>4, <1>7, <2>1, LineOfPart
  <2>3. ID_FORC(j) = 1 /\ j # 1
    BY <1>3, <1>4, <1>7, <1>8, <2>2
  <2> DEFINE m == IF LastReading(j) THEN LastSize(j) ELSE IDMAX
             buf == IF LastReading(j) THEN KeepLast(buffer, m) ELSE buffer
  <2>4. ReadsPart(j, m, buf)
    BY <1>1, <2>3 DEF ForcingStep, ReadsPart
  <2> HIDE DEF m, buf
  <2>5. j = (k + 1) * L + 1 /\ j <= INB_STEP_ATM
    BY <1>3, <1>7, <1>8
  <2>6. /\ Holds(k + 1)' /\ IDMAX' \in Nat
        /\ buffer' \in Seq(Nat) /\ Len(buffer') = L + 1
        /\ filepos' \in Nat /\ readings' \in Seq(SUBSET Nat) /\ ReadsInFile'
    BY <1>2, <1>3, <1>4, <1>5, <1>6, <2>4, <2>5, NextReading
  <2>7. PartHeld'
    BY <1>1, <1>7, <2>1, <2>6 DEF PartHeld, lines
  <2> QED
    BY <1>1, <2>6, <2>7 DEF ReadingInv, lines
<1>9. CASE j - 1 # (k + 1) * L
  <2>1. k * L < j /\ j <= (k + 1) * L /\ (j = 1 \/ j - k * L # 1)
    <3>1. CASE k = 0 /\ j = 1
      BY <1>4, <1>7, <3>1
    <3>2. CASE k * L < j - 1 /\ j - 1 <= (k + 1) * L
      BY <1>3, <1>7, <1>9, <3>2
    <3> QED
      BY <1>6, <3>1, <3>2
  <2>2. ID_FORC(j) = j - k * L
    BY <1>3, <1>4, <2>1, LineOfPart
  <2>3. UNCHANGED reader
    BY <2>1, <2>2 DEF ForcingStep
  <2>4. Holds(k)' /\ ReadsInFile'
    BY <1>1, <1>6, <2>3 DEF Holds, ReadingInv, ReadsInFile, reader, lines
  <2>5. PartHeld'
    BY <1>1, <2>1, <2>4 DEF PartHeld, lines
  <2> QED
    BY <1>1, <2>3, <2>4, <2>5 DEF ReadingInv, reader, lines
<1> QED
  BY <1>8, <1>9

LEMMA ZeroBuffer ==
  ASSUME NEW size \in Nat, NEW buf, buf = [i \in 1 .. size + 1 |-> 0]
  PROVE  buf \in Seq(Nat) /\ Len(buf) = size + 1
OBVIOUS

LEMMA ReadingNext == ClockInv /\ ReadingInv /\ [Next]_vars => ReadingInv'
<1> SUFFICES ASSUME ClockInv, ReadingInv, [Next]_vars PROVE ReadingInv'
  OBVIOUS
<1>1. CASE Configure
  <2> DEFINE size == INB_LINES'
  <2>1. /\ pc = "configure" /\ pc' = "first reading"
        /\ IDMAX' = size + 1 /\ buffer' = [i \in 1 .. size + 1 |-> 0]
        /\ filepos' = filepos /\ readings' = readings /\ setup' = setup
    BY <1>1 DEF Configure, config
  <2>2. size \in Nat
    BY <1>1, ClockConfigure DEF ClockInv, DriverType
  <2> HIDE DEF size
  <2>3. buffer' \in Seq(Nat) /\ Len(buffer') = size + 1
    BY <2>1, <2>2, ZeroBuffer, ZenonT(30)
  <2>4. ReadsInFile'
    BY <2>1 DEF ReadingInv, ReadsInFile
  <2>5. size + 1 \in Nat
    BY <2>2
  <2> QED
    BY <2>1, <2>3, <2>4, <2>5 DEF ReadingInv, size
<1>2. CASE Abort
  BY <1>2 DEF Abort, ReadingInv, ReadsInFile, config, reader
<1>3. CASE FirstReading
  BY <1>3, ReadingFirst
<1>4. CASE ForcingStep
  BY <1>4, ReadingForcing
<1>5. CASE SurfaceStep
  <2>1. pc = "surface" /\ UNCHANGED <<setup, lines, reader>> /\ NextStep
    BY <1>5 DEF SurfaceStep, config
  <2>2. PartHeld /\ Len(buffer) = INB_LINES + 1
    BY <2>1 DEF ReadingInv
  <2>3. PICK k \in Nat :
          Holds(k) /\ k * INB_LINES < JFORC_STEP /\ JFORC_STEP <= (k + 1) * INB_LINES
    BY <2>1, <2>2 DEF PartHeld
  <2>4. Holds(k)'
    BY <2>1, <2>3 DEF Holds, reader, lines
  <2>5. CASE JFORC_STEP' = JFORC_STEP /\ pc' = "surface"
    BY <2>1, <2>3, <2>4, <2>5 DEF PartHeld, ReadingInv, ReadsInFile, reader, lines
  <2>6. CASE JFORC_STEP' = JFORC_STEP + 1 /\ pc' = "forcing"
    <3>1. JFORC_STEP' - 1 = JFORC_STEP
      <4>1. JFORC_STEP \in Nat
        BY DEF ClockInv, DriverType
      <4> QED
        BY <2>6, <4>1
    <3> QED
      BY <2>1, <2>3, <2>4, <2>6, <3>1 DEF PartHeld, ReadingInv, ReadsInFile, reader, lines
  <2>7. CASE pc' = "restart"
    BY <2>1, <2>7 DEF ReadingInv, ReadsInFile, reader, lines
  <2> QED
    BY <2>1, <2>5, <2>6, <2>7 DEF NextStep
<1>6. CASE Restart
  BY <1>6 DEF Restart, ReadingInv, ReadsInFile, config, reader
<1>7. CASE Launch
  <2>1. /\ pc' = "configure" /\ setup' = setup
        /\ IDMAX' = 0 /\ buffer' = <<>> /\ filepos' = 0 /\ readings' = <<>>
    BY <1>7 DEF Launch
  <2>2. setup.nread \in Nat
    BY SetupType DEF ClockInv, DriverType
  <2>3. readings' \in Seq(SUBSET Nat) /\ buffer' \in Seq(Nat) /\ Len(readings') = 0
    BY <2>1
  <2>4. ReadsInFile'
    BY <2>1, <2>2, <2>3 DEF ReadsInFile
  <2> QED
    BY <2>1, <2>3, <2>4 DEF ReadingInv
<1>8. CASE Stopped \/ UNCHANGED vars
  <2>1. UNCHANGED <<pc, setup, JFORC_STEP, reader, lines>>
    BY <1>8 DEF Stopped, vars, config
  <2> QED
    BY <2>1 DEF ReadingInv, ReadsInFile, PartHeld, Holds, reader, lines
<1> QED
  BY <1>1, <1>2, <1>3, <1>4, <1>5, <1>6, <1>7, <1>8 DEF Next

LEMMA ReadingInit == Init => ReadingInv
<1> SUFFICES ASSUME Init PROVE ReadingInv
  OBVIOUS
<1>1. setup.nread \in Nat
  BY SetupType DEF Init
<1> QED
  BY <1>1 DEF Init, ReadingInv, ReadsInFile

LEMMA ReadingAlways == Spec => [](ClockInv /\ ReadingInv)
<1>1. Init => ClockInv /\ ReadingInv
  BY ClockInit, ReadingInit
<1>2. (ClockInv /\ ReadingInv) /\ [Next]_vars => (ClockInv /\ ReadingInv)'
  BY ClockNext, ReadingNext
<1> QED
  BY <1>1, <1>2, PTL DEF Spec

(* No reading goes past the end of the forcing file, and the namelist's    *)
(* number of readings is not exceeded, for any number of lines, any        *)
(* NB_READ_FORC and any first line.                                        *)
THEOREM ReadsInFileHolds == Spec => []ReadsInFile
<1>1. ReadingInv => ReadsInFile
  BY DEF ReadingInv
<1> QED
  BY <1>1, ReadingAlways, PTL

(* The two lines of the buffer between which a step of the surface         *)
(* interpolates are those of the dates around its own, in the three        *)
(* formats and for any way of cutting the file into readings.              *)
THEOREM ForcingOfTheDateHolds == Spec => []ForcingOfTheDate
<1>1. ClockInv /\ ReadingInv => ForcingOfTheDate
  <2> SUFFICES ASSUME ClockInv, ReadingInv, pc = "surface"
               PROVE  LET line == buffer[ID_FORC(JFORC_STEP)] IN
                      /\ buffer[ID_FORC(JFORC_STEP) + 1] = line + 1
                      /\ line \in 1 .. setup.rows - 1
                      /\ date = AddForecast(RowDate(setup, line), (JSURF_STEP - 1) * setup.surf)
    BY DEF ForcingOfTheDate
  <2> DEFINE L == INB_LINES
             n == INB_STEP_ATM
             from == ITIMESTARTINDEX
             j == JFORC_STEP
             line == from + j - 1
  <2>1. DriverType /\ Planned /\ Timed
    BY DEF ClockInv, Going
  <2>2. /\ setup \in Setups /\ n \in Nat /\ L \in Nat /\ from \in Nat /\ j \in Nat
        /\ JSURF_STEP \in Nat
    BY <2>1 DEF DriverType
  <2>3. /\ setup.rows \in Nat /\ setup.forc \in Nat /\ setup.surf \in Nat
        /\ setup.first \in Dates
    BY <2>2, SetupType
  <2>4. /\ from \in 1 .. setup.rows - 1 /\ from + n <= setup.rows
        /\ j \in 1 .. n /\ JSURF_STEP - 1 \in Nat
    BY <2>1, <2>2, <2>3 DEF Planned, Timed
  <2>5. L \in 1 .. n
    BY <2>1, <2>2, <2>4 DEF Planned, Parted
  <2>6. PICK k \in Nat : Holds(k) /\ k * L < j /\ j <= (k + 1) * L
    BY DEF ReadingInv, PartHeld
  <2>7. ID_FORC(j) = j - k * L
    BY <2>2, <2>5, <2>6, LineOfPart
  <2>8. k * L \in Nat /\ (k + 1) * L = k * L + L
    BY <2>2, SMT
  <2>9. /\ IDMAX = L + 1 \/ IDMAX = n - k * L + 1
        /\ \A i \in 1 .. IDMAX : buffer[i] = from + k * L + i - 1
    BY <2>6 DEF Holds
  <2>10. ID_FORC(j) \in 1 .. IDMAX /\ ID_FORC(j) + 1 \in 1 .. IDMAX
    BY <2>2, <2>4, <2>6, <2>7, <2>8, <2>9
  <2>11. buffer[ID_FORC(j)] = line /\ buffer[ID_FORC(j) + 1] = line + 1
    <3>1. /\ buffer[ID_FORC(j)] = from + k * L + ID_FORC(j) - 1
          /\ buffer[ID_FORC(j) + 1] = from + k * L + (ID_FORC(j) + 1) - 1
      BY <2>9, <2>10
    <3> QED
      BY <2>2, <2>7, <2>8, <3>1
  <2>12. line \in 1 .. setup.rows - 1 /\ line \in Nat \ {0}
    BY <2>2, <2>3, <2>4
  <2>13. date = AddForecast(RowDate(setup, line), (JSURF_STEP - 1) * setup.surf)
    <3> DEFINE before == (line - 1) * setup.forc
               since == (JSURF_STEP - 1) * setup.surf
    <3>1. before \in Nat /\ RowDate(setup, line) = AddForecast(setup.first, before)
      BY <2>2, <2>12, RowDateType
    <3>2. since \in Nat
      BY <2>3, <2>4, Products
    <3>3. date = AddForecast(setup.first, (from - 1) * setup.forc + ((j - 1) * setup.forc + since))
      BY <2>1 DEF Timed
    <3>4. (from - 1) * setup.forc + (j - 1) * setup.forc = before
      BY <2>2, <2>3, SMT
    <3>5. /\ (from - 1) * setup.forc \in Int /\ (j - 1) * setup.forc \in Int
      BY <2>2, <2>3, Products
    <3> HIDE DEF before, since
    <3>6. (from - 1) * setup.forc + ((j - 1) * setup.forc + since) = before + since
      BY <3>2, <3>4, <3>5
    <3>7. AddForecast(AddForecast(setup.first, before), since)
            = AddForecast(setup.first, before + since)
      BY <2>3, <3>1, <3>2, AddForecastTwice
    <3> QED
      BY <3>1, <3>3, <3>6, <3>7 DEF since
  <2> QED
    BY <2>11, <2>12, <2>13
<1> QED
  BY <1>1, ReadingAlways, PTL
-----------------------------------------------------------------------------
(* The state stays in its domains. *)

LEMMA OutputTypeAlways == Spec => [](ClockInv /\ ReadingInv /\ OutputType)
<1>1. Init => OutputType
  BY DEF Init, OutputType
<1>2. ClockInv /\ OutputType /\ [Next]_vars => OutputType'
  <2> SUFFICES ASSUME ClockInv, OutputType, [Next]_vars PROVE OutputType'
    OBVIOUS
  <2>1. CASE SurfaceStep
    <3> DEFINE z == ZTIMEC + setup.surf
               o == [label |-> setup.out * (Len(outputs) + 1), time |-> z]
    <3>1. UNCHANGED outputs \/ outputs' = Append(outputs, o)
      BY <2>1 DEF SurfaceStep, WriteOutput, written, Label
    <3>2. setup.surf \in Nat /\ setup.out \in Nat /\ ZTIMEC \in Nat
      BY SetupType DEF ClockInv, DriverType
    <3>3. Len(outputs) + 1 \in Nat
      BY DEF OutputType
    <3>4. setup.out * (Len(outputs) + 1) \in Nat /\ z \in Nat
      BY <3>2, <3>3, SMT
    <3>5. o \in [label : Nat, time : Nat]
      BY <3>4
    <3> HIDE DEF o
    <3>6. Append(outputs, o) \in Seq([label : Nat, time : Nat])
      BY <3>5, AppendProperties DEF OutputType
    <3> QED
      BY <3>1, <3>6 DEF OutputType
  <2>2. CASE Launch
    BY <2>2 DEF Launch, OutputType
  <2>3. CASE Configure \/ Abort \/ FirstReading \/ ForcingStep \/ Restart \/ Stopped
              \/ UNCHANGED vars
    <3>1. UNCHANGED outputs
      BY <2>3 DEF Configure, Abort, FirstReading, ForcingStep, Restart, Stopped, vars, written
    <3> QED
      BY <3>1 DEF OutputType
  <2> QED
    BY <2>1, <2>2, <2>3 DEF Next
<1> QED
  BY <1>1, <1>2, ReadingAlways, PTL DEF Spec

(* The dates of the driver, of the model and of the restart file are days  *)
(* of the calendar, whatever the steps that are added to them, and every   *)
(* line that is read is a line of a file.                                  *)
THEOREM TypeCorrect == Spec => []TypeOK
<1>1. ClockInv /\ ReadingInv /\ OutputType => TypeOK
  BY DEF ClockInv, DriverType, ReadingInv, OutputType, TypeOK
<1> QED
  BY <1>1, OutputTypeAlways, PTL

-----------------------------------------------------------------------------
(* The outputs.  The namelist is supposed to ask for them at times that    *)
(* the surface steps reach; OL_READ_ATM_CONF does not check it.            *)

LEMMA OutputStep ==
  ASSUME NEW surf \in Nat \ {0}, NEW out \in Nat \ {0}, out % surf = 0,
         NEW z \in Nat, \E a \in Nat : z = a * surf
  PROVE  /\ (z + surf) % out = 0 => /\ (z + surf) \div out = z \div out + 1
                                    /\ z + surf = out * (z \div out + 1)
         /\ (z + surf) % out # 0 => (z + surf) \div out = z \div out
<1>0. PICK a \in Nat : z = a * surf
  OBVIOUS
<1> DEFINE b == out \div surf
           q == a \div b
           r == a % b
<1>1. b \in Nat /\ out = surf * b
  BY Division
<1>2. b # 0
  <2> SUFFICES ASSUME b = 0 PROVE FALSE
    OBVIOUS
  <2>1. surf * 0 = 0
    OBVIOUS
  <2> QED
    BY <1>1, <2>1
<1> HIDE DEF b
<1>3. q \in Nat /\ r \in 0 .. b - 1 /\ a = b * q + r
  BY <1>1, <1>2, Division
<1> HIDE DEF q, r
<1>4. z = out * q + surf * r /\ z + surf = out * q + surf * (r + 1)
  <2>0. z = surf * a
    BY <1>0, SMT
  <2>1. surf * (b * q + r) = (surf * b) * q + surf * r
    BY <1>1, <1>3, SMT
  <2>2. surf * (r + 1) = surf * r + surf /\ surf * r \in Int /\ out * q \in Int
    BY <1>1, <1>3, SMT
  <2> QED
    BY <1>1, <1>3, <2>0, <2>1, <2>2
<1>45. out * q \in Nat /\ z \in Nat
  BY <1>3, SMT
<1>5. surf * r \in Nat /\ surf * (r + 1) = surf * r + surf
  BY <1>3, SMT
<1>6. r + 1 <= b => surf * (r + 1) <= out
  <2>1. r + 1 <= b => (r + 1) * surf <= b * surf
    BY <1>1, <1>3, Products
  <2>2. (r + 1) * surf = surf * (r + 1) /\ b * surf = surf * b
    BY <1>1, <1>3, SMT
  <2> QED
    BY <1>1, <2>1, <2>2
<1>7. r + 1 <= b /\ r \in Nat
  BY <1>1, <1>3
<1>8. surf * r \in 0 .. out - 1
  BY <1>5, <1>6, <1>7
<1>9. z \div out = q
  BY <1>3, <1>4, <1>8, QuotientIs, ZenonT(30)
<1>10. CASE r + 1 = b
  <2>1. surf * (r + 1) = out
    BY <1>1, <1>10
  <2>2. out * q + out = out * (q + 1)
    BY <1>3, SMT
  <2>3. z + surf = out * (q + 1) /\ z + surf = out * (q + 1) + 0
    BY <1>4, <1>45, <2>1, <2>2
  <2>4. (z + surf) \div out = q + 1 /\ (z + surf) % out = 0
    <3>1. q + 1 \in Nat /\ 0 \in 0 .. out - 1
      BY <1>3
    <3> QED
      <4>1. /\ (out * (q + 1) + 0) \div out = q + 1
            /\ (out * (q + 1) + 0) % out = 0
        BY <3>1, Quotient
      <4> QED
        BY <2>3, <4>1
  <2> QED
    BY <1>9, <2>3, <2>4
<1>11. CASE r + 1 # b
  <2>1. (r + 2) * surf <= b * surf
    BY <1>1, <1>3, <1>7, <1>11, Products
  <2>2. (r + 2) * surf = surf * (r + 1) + surf /\ b * surf = out
    BY <1>1, <1>7, SMT
  <2>3. surf * (r + 1) \in 0 .. out - 1 /\ surf * (r + 1) # 0
    BY <1>5, <2>1, <2>2
  <2>4. (z + surf) \div out = q /\ (z + surf) % out = surf * (r + 1)
    BY <1>3, <1>4, <2>3, QuotientIs, ZenonT(30)
  <2> QED
    BY <1>9, <2>3, <2>4
<1> QED
  BY <1>10, <1>11

LEMMA OutputInit == Init => OutputInv
<1> SUFFICES ASSUME Init PROVE OutputInv
  OBVIOUS
<1>1. setup.out \in Nat \ {0} /\ setup.surf \in Nat
  BY SetupType DEF Init
<1>2. 0 \div setup.out = 0 /\ 0 * setup.surf = 0
  BY <1>1, SMT
<1> QED
  BY <1>2 DEF Init, OutputInv

LEMMA OutputNext ==
  ASSUME \A s \in Setups : s.out % s.surf = 0
  PROVE  ClockInv /\ OutputType /\ OutputInv /\ [Next]_vars => OutputInv'
<1> SUFFICES ASSUME ClockInv, OutputType, OutputInv, [Next]_vars PROVE OutputInv'
  OBVIOUS
<1>1. CASE SurfaceStep
  <2> DEFINE z == ZTIMEC + setup.surf
             len == Len(outputs)
             o == [label |-> setup.out * (len + 1), time |-> z]
  <2>1. /\ setup \in Setups /\ setup.surf \in Nat \ {0} /\ setup.out \in Nat \ {0}
        /\ setup.out % setup.surf = 0
    BY SetupType DEF ClockInv, DriverType
  <2>2. PICK a \in Nat : ZTIMEC = a * setup.surf
    BY DEF OutputInv
  <2>3. len = ZTIMEC \div setup.out /\ len \in Nat
    BY DEF OutputInv, OutputType
  <2>4. /\ z % setup.out = 0 => z \div setup.out = len + 1 /\ z = setup.out * (len + 1)
        /\ z % setup.out # 0 => z \div setup.out = len
    <3>1. ZTIMEC \in Nat
      BY DEF ClockInv, DriverType
    <3> HIDE DEF len
    <3>2. \E c \in Nat : ZTIMEC = c * setup.surf
      BY <2>2
    <3>3. /\ z % setup.out = 0 => /\ z \div setup.out = ZTIMEC \div setup.out + 1
                                  /\ z = setup.out * (ZTIMEC \div setup.out + 1)
          /\ z % setup.out # 0 => z \div setup.out = ZTIMEC \div setup.out
      BY <2>1, <3>1, <3>2, OutputStep, ZenonT(30)
    <3> HIDE DEF z
    <3> QED
      BY <2>3, <3>3
  <2>5. ZTIMEC' = z /\ setup' = setup
    BY <1>1 DEF SurfaceStep, config
  <2>6. IF z % setup.out = 0 THEN outputs' = Append(outputs, o) ELSE outputs' = outputs
    BY <1>1 DEF SurfaceStep, WriteOutput, OutputTime, Label, written
  <2>7. \E b \in Nat : z = b * setup.surf
    <3>1. a + 1 \in Nat /\ (a + 1) * setup.surf = a * setup.surf + setup.surf
      BY <2>1, Products
    <3>2. z = (a + 1) * setup.surf
      BY <2>2, <3>1
    <3> QED
      BY <3>1, <3>2
  <2> HIDE DEF z, len
  <2>8. CASE z % setup.out = 0
    <3>1. /\ Len(outputs') = len + 1 /\ outputs'[len + 1] = o
          /\ \A i \in 1 .. len : outputs'[i] = outputs[i]
      <4> HIDE DEF o
      <4> QED
        BY <2>3, <2>6, <2>8 DEF OutputType, len
    <3>2. o.label = o.time
      BY <2>4, <2>8
    <3>3. \A i \in 1 .. len : outputs[i].label = outputs[i].time
      BY DEF OutputInv, len
    <3> HIDE DEF o
    <3>4. ASSUME NEW i \in 1 .. len + 1 PROVE outputs'[i].label = outputs'[i].time
      <4>1. i \in 1 .. len \/ i = len + 1
        BY <2>3
      <4> QED
        BY <3>1, <3>2, <3>3, <4>1
    <3> QED
      BY <2>4, <2>5, <2>7, <2>8, <3>1, <3>4 DEF OutputInv
  <2>9. CASE z % setup.out # 0
    BY <2>4, <2>5, <2>6, <2>7, <2>9 DEF OutputInv, len
  <2> QED
    BY <2>8, <2>9
<1>2. CASE Launch \/ Configure
  <2>1. ZTIMEC' = 0 /\ setup' = setup
    BY <1>2 DEF Launch, Configure, config
  <2>2. outputs' = <<>>
    <3>1. CASE Launch
      BY <3>1 DEF Launch
    <3>2. CASE Configure
      <4>1. ZTIMEC = 0 /\ outputs' = outputs
        BY <3>2 DEF Configure, ClockInv, written
      <4>2. setup.out \in Nat \ {0}
        BY SetupType DEF ClockInv, DriverType
      <4>3. 0 \div setup.out = 0
        BY <4>2, SMT
      <4>4. Len(outputs) = 0
        BY <4>1, <4>3 DEF OutputInv
      <4> QED
        BY <4>1, <4>4 DEF OutputType
    <3> QED
      BY <1>2, <3>1, <3>2
  <2>3. setup.out \in Nat \ {0} /\ setup.surf \in Nat
    BY SetupType DEF ClockInv, DriverType
  <2>4. 0 \div setup.out = 0 /\ 0 * setup.surf = 0
    BY <2>3, SMT
  <2> QED
    BY <2>1, <2>2, <2>4 DEF OutputInv
<1>3. CASE Abort \/ FirstReading \/ ForcingStep \/ Restart \/ Stopped \/ UNCHANGED vars
  <2>1. UNCHANGED <<outputs, ZTIMEC, setup>>
    BY <1>3 DEF Abort, FirstReading, ForcingStep, Restart, Stopped, vars, written, clock, config
  <2> QED
    BY <2>1 DEF OutputInv
<1> QED
  BY <1>1, <1>2, <1>3 DEF Next

(* Each record is labelled with the time it was computed at, and none is   *)
(* missing when the run ends, for every output step that is a multiple of  *)
(* the surface step.                                                       *)
THEOREM OutputsOnTimeHolds ==
  ASSUME \A s \in Setups : s.out % s.surf = 0
  PROVE  Spec => []OutputsOnTime
<1>1. ClockInv /\ OutputInv => OutputsOnTime
  BY DEF ClockInv, Going, Timed, OutputInv, OutputsOnTime
<1>2. Init => OutputInv
  BY OutputInit
<1>3. ClockInv /\ OutputType /\ OutputInv /\ [Next]_vars => OutputInv'
  BY OutputNext
<1> QED
  BY <1>1, <1>2, <1>3, OutputTypeAlways, PTL DEF Spec
-----------------------------------------------------------------------------
(* The names of the output files: the year, month, day, hour and minute of *)
(* a date are those of an earlier date when it is at least a minute later. *)

Stamp(d) ==
  <<d.year, d.month, d.day, d.time \div 3600, d.time \div 60 - 60 * (d.time \div 3600)>>

LEMMA StampOrder ==
  ASSUME NEW x \in Moments, NEW y \in Moments, x.time \in Nat, y.time \in Nat,
         \/ Before(x, y)
         \/ /\ x.year = y.year /\ x.month = y.month /\ x.day = y.day
            /\ x.time + 60 <= y.time
  PROVE  Earlier(Stamp(x), Stamp(y))
<1> DEFINE h(d) == d.time \div 3600
           m(d) == d.time \div 60 - 60 * h(d)
<1>1. /\ Len(Stamp(x)) = 5
      /\ Stamp(x)[1] = x.year /\ Stamp(x)[2] = x.month /\ Stamp(x)[3] = x.day
      /\ Stamp(x)[4] = h(x) /\ Stamp(x)[5] = m(x)
      /\ Stamp(y)[1] = y.year /\ Stamp(y)[2] = y.month /\ Stamp(y)[3] = y.day
      /\ Stamp(y)[4] = h(y) /\ Stamp(y)[5] = m(y)
  BY DEF Stamp
<1>2. ASSUME NEW i \in 1 .. 5, Stamp(x)[i] < Stamp(y)[i],
             \A k \in 1 .. i - 1 : Stamp(x)[k] = Stamp(y)[k]
      PROVE  Earlier(Stamp(x), Stamp(y))
  BY <1>1, <1>2 DEF Earlier
<1>3. CASE x.year < y.year
  <2>1. 1 \in 1 .. 5 /\ \A k \in 1 .. 1 - 1 : Stamp(x)[k] = Stamp(y)[k]
    OBVIOUS
  <2> QED
    BY <1>1, <1>2, <1>3, <2>1
<1>4. CASE x.year = y.year /\ x.month < y.month
  <2>1. 2 \in 1 .. 5 /\ \A k \in 1 .. 2 - 1 : k = 1
    OBVIOUS
  <2> QED
    BY <1>1, <1>2, <1>4, <2>1
<1>5. CASE x.year = y.year /\ x.month = y.month /\ x.day < y.day
  <2>1. 3 \in 1 .. 5 /\ \A k \in 1 .. 3 - 1 : k = 1 \/ k = 2
    OBVIOUS
  <2> QED
    BY <1>1, <1>2, <1>5, <2>1
<1>6. CASE /\ x.year = y.year /\ x.month = y.month /\ x.day = y.day
           /\ x.time + 60 <= y.time
  <2>1. h(x) <= h(y) /\ x.time \div 60 < y.time \div 60 /\ h(x) \in Int /\ h(y) \in Int
    BY <1>6
  <2>2. x.time \div 60 \in Int /\ y.time \div 60 \in Int
    OBVIOUS
  <2>3. CASE h(x) < h(y)
    <3>1. 4 \in 1 .. 5 /\ \A k \in 1 .. 4 - 1 : k = 1 \/ k = 2 \/ k = 3
      OBVIOUS
    <3> QED
      BY <1>1, <1>2, <1>6, <2>3, <3>1
  <2>4. CASE h(x) = h(y)
    <3>1. m(x) < m(y)
      <4> HIDE DEF h
      <4> QED
        BY <2>1, <2>2, <2>4
    <3>2. 5 \in 1 .. 5 /\ \A k \in 1 .. 5 - 1 : k = 1 \/ k = 2 \/ k = 3 \/ k = 4
      OBVIOUS
    <3> HIDE DEF h, m
    <3> QED
      BY <1>1, <1>2, <1>6, <2>4, <3>1, <3>2
  <2> QED
    BY <2>1, <2>3, <2>4
<1> QED
  BY <1>3, <1>4, <1>5, <1>6 DEF Before

LEMMA NamesOrdered ==
  ASSUME NEW s, NEW o \in Dates, NEW k \in Nat, 60 <= k
  PROVE  Earlier(YTAG(s, o), YTAG(s, AddForecast(o, k)))
<1> DEFINE e == AddForecast(o, k)
           x == TagDate(s, o)
           y == TagDate(s, e)
           p == EndOfDayBefore(o)
           q == EndOfDayBefore(e)
<1>1. k \in Nat \ {0} /\ DAY \in Nat
  BY DayIsPositive
<1>2. e \in Dates
  BY AddForecastType
<1>3. /\ e = At(o, o.time + k) \/ Before(o, e)
      /\ e.time = 0 => \/ q = At(o, DAY) /\ DAY = o.time + k
                       \/ Before(o, q)
  BY <1>1, AddForecastLater
<1>4. /\ o \in Days /\ o.time \in Nat /\ e \in Days /\ e.time \in Nat
      /\ o \in Moments /\ e \in Moments
  BY <1>2, DatesAreDays, DaysAreMoments, DayIsPositive
<1>5. p \in Moments /\ p.time = DAY /\ Before(p, o) /\ q \in Moments /\ q.time = DAY
  BY <1>4, DayBeforeIsBefore
<1> HIDE DEF e, p, q
<1>6. (x = o \/ (x = p /\ o.time = 0)) /\ (y = e \/ (y = q /\ e.time = 0))
  BY DEF TagDate, e, p, q
<1>7. x \in Moments /\ y \in Moments /\ x.time \in Nat /\ y.time \in Nat
  BY <1>1, <1>4, <1>5, <1>6
<1>8. /\ At(o, o.time + k).time = o.time + k /\ At(o, DAY).time = DAY
      /\ \A t \in Int : /\ At(o, t).year = o.year /\ At(o, t).month = o.month
                        /\ At(o, t).day = o.day /\ At(o, t) \in Moments
  BY <1>1, <1>4 DEF At, Moments
<1>9. \/ Before(o, y)
      \/ /\ o.year = y.year /\ o.month = y.month /\ o.day = y.day
         /\ o.time + 60 <= y.time
  <2>1. o.time + k \in Int /\ DAY \in Int /\ o.time + 60 <= o.time + k
    BY <1>1, <1>4
  <2>2. CASE y = e
    BY <1>3, <1>8, <2>1, <2>2
  <2>3. CASE y = q /\ e.time = 0
    BY <1>3, <1>8, <2>1, <2>3
  <2> QED
    BY <1>6, <2>2, <2>3
<1>10. \/ Before(x, y)
       \/ /\ x.year = y.year /\ x.month = y.month /\ x.day = y.day
          /\ x.time + 60 <= y.time
  <2>1. CASE x = o
    BY <1>9, <2>1
  <2>2. CASE x = p
    <3>1. CASE Before(o, y)
      BY <1>4, <1>5, <1>7, <2>2, <3>1, BeforeTransitive
    <3>2. CASE o.year = y.year /\ o.month = y.month /\ o.day = y.day
      BY <1>5, <2>2, <3>2 DEF Before
    <3> QED
      BY <1>9, <3>1, <3>2
  <2> QED
    BY <1>6, <2>1, <2>2
<1>11. Earlier(Stamp(x), Stamp(y))
  <2> HIDE DEF x, y
  <2> QED
    BY <1>7, <1>10, StampOrder
<1> QED
  BY <1>11 DEF YTAG, Stamp, e

LEMMA FirstName ==
  ASSUME NEW s, NEW e \in Dates
  PROVE  Earlier(<<-1, 0, 0, 0, 0>>, YTAG(s, e))
<1> DEFINE none == <<-1, 0, 0, 0, 0>>
           x == TagDate(s, e)
           y == Stamp(x)
<1>1. e.year \in Nat /\ e.month \in 1 .. 12 /\ e.day \in 1 .. 31 /\ DAY \in Int
      /\ e \in [year : Nat, month : 1 .. 12, day : Nat, time : Int]
  BY DayIsPositive DEF Dates
<1>2. EndOfDayBefore(e).year \in Int /\ EndOfDayBefore(e).month \in Int
      /\ EndOfDayBefore(e).year >= -1 /\ EndOfDayBefore(e).month >= 1
  <2>1. CASE e.day > 1
    BY <1>1, <2>1, DayBeforeInMonth
  <2>2. CASE ~(e.day > 1)
    <3>1. EndOfDayBefore(e).year = IF e.month = 1 THEN e.year - 1 ELSE e.year
      BY <2>2 DEF EndOfDayBefore
    <3>2. EndOfDayBefore(e).month = IF e.month = 1 THEN 12 ELSE e.month - 1
      BY <2>2 DEF EndOfDayBefore
    <3> QED
      BY <1>1, <3>1, <3>2
  <2> QED
    BY <2>1, <2>2
<1>3. x.year \in Int /\ x.month \in Int /\ x.year >= -1 /\ x.month >= 1
  BY <1>1, <1>2 DEF TagDate
<1>4. y[1] = x.year /\ y[2] = x.month
  BY DEF Stamp
<1>5. YTAG(s, e) = y
  BY DEF YTAG, Stamp
<1> HIDE DEF x, y
<1>6. Len(none) = 5 /\ none[1] = -1 /\ none[2] = 0
  OBVIOUS
<1> HIDE DEF none
<1>7. CASE x.year > -1
  <2>1. 1 \in 1 .. 5 /\ \A k \in 1 .. 1 - 1 : none[k] = y[k]
    OBVIOUS
  <2> QED
    BY <1>3, <1>4, <1>5, <1>6, <1>7, <2>1 DEF Earlier, none
<1>8. CASE x.year = -1
  <2>1. 2 \in 1 .. 5 /\ \A k \in 1 .. 2 - 1 : k = 1
    OBVIOUS
  <2> QED
    BY <1>3, <1>4, <1>5, <1>6, <1>8, <2>1 DEF Earlier, none
<1> QED
  BY <1>3, <1>7, <1>8

LEMMA TimeSinceOutput ==
  ASSUME NEW z \in Nat, NEW s \in Nat \ {0}, NEW o \in Nat \ {0}
  PROVE  /\ (z + s) % o = 0 => o <= (z % o) + s
         /\ (z + s) % o <= (z % o) + s
<1> DEFINE q == z \div o
           r == z % o
           q2 == (z + s) \div o
           r2 == (z + s) % o
<1>1. q \in Nat /\ r \in 0 .. o - 1 /\ z = o * q + r
  BY Division
<1>2. z + s \in Nat
  OBVIOUS
<1>3. q2 \in Nat /\ r2 \in 0 .. o - 1 /\ z + s = o * q2 + r2
  BY <1>2, Division
<1> HIDE DEF q, r, q2, r2
<1> DEFINE g == q2 - q
<1>4. g \in Int /\ o * q2 = o * q + o * g /\ o * q \in Int /\ o * g \in Int /\ g * o = o * g
  BY <1>1, <1>3, SMT
<1> HIDE DEF g
<1>5. r + s = o * g + r2
  BY <1>1, <1>3, <1>4
<1>6. g >= 0
  <2> SUFFICES ASSUME g <= -1 PROVE FALSE
    BY <1>4
  <2>1. g * o <= (-1) * o /\ (-1) * o = -o
    BY <1>4, Products
  <2> QED
    BY <1>1, <1>3, <1>4, <1>5, <2>1
<1>7. 0 <= o * g
  BY <1>4, <1>6, Products
<1>8. r2 <= r + s
  BY <1>1, <1>3, <1>4, <1>5, <1>7
<1>9. r2 = 0 => o <= r + s
  <2> SUFFICES ASSUME r2 = 0 PROVE o <= r + s
    OBVIOUS
  <2>1. g # 0
    <3> SUFFICES ASSUME g = 0 PROVE FALSE
      OBVIOUS
    <3>1. o * 0 = 0
      OBVIOUS
    <3> QED
      BY <1>1, <1>5, <3>1
  <2>2. 1 * o <= g * o /\ 1 * o = o
    BY <1>4, <1>6, <2>1, Products
  <2> QED
    BY <1>1, <1>4, <1>5, <2>2
<1> QED
  BY <1>8, <1>9 DEF r, r2

(* A name is that of an earlier date when the output step is at least the  *)
(* minute that names resolve to: over all the runs that continue each      *)
(* other no output file is written over another, also when LOUT_TIMENAME   *)
(* gives the end of a day, of a month or of a year the name of the day     *)
(* before.                                                                 *)
THEOREM NamesIncreaseHolds ==
  ASSUME \A s \in Setups : s.out >= 60
  PROVE  Spec => NamesIncrease
<1>1. Init => NameInv
  BY DEF Init, NameInv
<1>2. ASSUME ClockInv, NameInv, SurfaceStep
      PROVE  NameInv' /\ (Len(outputs') > Len(outputs) => Earlier(tag, tag'))
  <2> DEFINE z == ZTIMEC + setup.surf
             e == AddForecast(date, setup.surf)
  <2>1. /\ setup \in Setups /\ setup.surf \in Nat \ {0} /\ setup.out \in Nat \ {0}
        /\ setup.out >= 60 /\ date \in Dates /\ ZTIMEC \in Nat
    BY <1>2, SetupType DEF ClockInv, DriverType
  <2>2. ZTIMEC' = z /\ date' = e /\ setup' = setup
    BY <1>2 DEF SurfaceStep, config
  <2>3. IF z % setup.out = 0 THEN tag' = YTAG(setup, e) ELSE UNCHANGED <<outputs, tag>>
    BY <1>2, <2>2 DEF SurfaceStep, WriteOutput, OutputTime, written
  <2>4. /\ z % setup.out = 0 => setup.out <= (ZTIMEC % setup.out) + setup.surf
        /\ z % setup.out <= (ZTIMEC % setup.out) + setup.surf
    BY <2>1, TimeSinceOutput
  <2>5. z \in Nat /\ z % setup.out \in Nat /\ ZTIMEC % setup.out \in Nat
    <3>1. z \in Nat
      BY <2>1
    <3>2. z % setup.out \in 0 .. setup.out - 1 /\ ZTIMEC % setup.out \in 0 .. setup.out - 1
      BY <2>1, <3>1, Division
    <3> QED
      BY <2>1, <3>1, <3>2
  <2>6. e \in Dates
    BY <2>1, AddForecastType
  <2> HIDE DEF z, e
  <2>7. CASE tag = <<-1, 0, 0, 0, 0>>
    <3>1. CASE z % setup.out = 0
      <4>1. tag' = YTAG(setup, e)
        BY <2>3, <3>1
      <4>2. NameInv'
        <5>1. e = AddForecast(e, 0) /\ 0 \in Nat
          BY <2>6, AddForecastZero
        <5> QED
          BY <2>2, <2>6, <3>1, <4>1, <5>1 DEF NameInv
      <4>3. Earlier(tag, tag')
        BY <2>6, <2>7, <4>1, FirstName
      <4> QED
        BY <4>2, <4>3
    <3>2. CASE z % setup.out # 0
      BY <2>3, <2>7, <3>2 DEF NameInv
    <3> QED
      BY <3>1, <3>2
  <2>8. ASSUME NEW o \in Dates, NEW k \in Nat, tag = YTAG(setup, o),
               date = AddForecast(o, k), ZTIMEC % setup.out <= k
        PROVE  NameInv' /\ (Len(outputs') > Len(outputs) => Earlier(tag, tag'))
    <3>1. e = AddForecast(o, k + setup.surf) /\ k + setup.surf \in Nat
      <4>1. setup.surf \in Nat
        BY <2>1
      <4> QED
        BY <2>8, <4>1, AddForecastTwice DEF e
    <3>2. CASE z % setup.out = 0
      <4>1. 60 <= k + setup.surf
        BY <2>1, <2>4, <2>5, <2>8, <3>2
      <4>2. tag' = YTAG(setup, e)
        BY <2>3, <3>2
      <4>3. Earlier(tag, tag')
        BY <2>8, <3>1, <4>1, <4>2, NamesOrdered
      <4>4. NameInv'
        <5>1. e = AddForecast(e, 0) /\ 0 \in Nat
          BY <2>6, AddForecastZero
        <5> QED
          BY <2>2, <2>6, <3>2, <4>2, <5>1 DEF NameInv
      <4> QED
        BY <4>3, <4>4
    <3>3. CASE z % setup.out # 0
      <4>1. z % setup.out <= k + setup.surf
        BY <2>1, <2>4, <2>5, <2>8
      <4>2. tag' = YTAG(setup, o) /\ outputs' = outputs
        BY <2>3, <2>8, <3>3
      <4>3. NameInv'
        BY <2>2, <3>1, <4>1, <4>2 DEF NameInv
      <4>4. ~(Len(outputs') > Len(outputs))
        BY <4>2
      <4> QED
        BY <4>3, <4>4
    <3> QED
      BY <3>2, <3>3
  <2> QED
    BY <1>2, <2>7, <2>8 DEF NameInv
<1>3. ASSUME ClockInv, OutputType, NameInv, Launch \/ Configure
      PROVE  NameInv' /\ ~(Len(outputs') > Len(outputs))
  <2>1. setup' = setup /\ tag' = tag /\ date' = date /\ ZTIMEC' = 0
    BY <1>3 DEF Launch, Configure, ClockInv, config, written
  <2>2. setup.out \in Nat \ {0}
    BY SetupType, <1>3 DEF ClockInv, DriverType
  <2>3. \A k \in Nat : 0 % setup.out <= k
    BY <2>2
  <2>4. ~(Len(outputs') > Len(outputs))
    <3>1. outputs' = outputs \/ outputs' = <<>>
      BY <1>3 DEF Launch, Configure, written
    <3>2. Len(outputs) \in Nat
      BY <1>3 DEF OutputType
    <3>3. Len(<<>>) = 0
      OBVIOUS
    <3> QED
      BY <3>1, <3>2, <3>3
  <2> QED
    BY <1>3, <2>1, <2>3, <2>4 DEF NameInv
<1>4. ASSUME NameInv, OutputType,
             \/ Abort \/ FirstReading \/ ForcingStep \/ Restart \/ Stopped
             \/ UNCHANGED vars
      PROVE  NameInv' /\ ~(Len(outputs') > Len(outputs))
  <2>1. UNCHANGED <<outputs, tag, date, ZTIMEC, setup>>
    BY <1>4 DEF Abort, FirstReading, ForcingStep, Restart, Stopped, vars, written, clock, config
  <2> QED
    BY <1>4, <2>1 DEF NameInv, OutputType
<1>5. ClockInv /\ OutputType /\ NameInv /\ [Next]_vars
        => NameInv' /\ [Len(outputs') > Len(outputs) => Earlier(tag, tag')]_outputs
  BY <1>2, <1>3, <1>4 DEF Next
<1> QED
  BY <1>1, <1>5, OutputTypeAlways, PTL DEF Spec, NamesIncrease

=============================================================================
