------------------------------ MODULE Calendar ------------------------------
(***************************************************************************)
(* The calendar of SURFEX.  A date is a day and a number of seconds since  *)
(* its start; ADD_FORECAST_TO_DATE_SURF turns seconds beyond the day into  *)
(* days, one day after the other.                                          *)
(***************************************************************************)
EXTENDS Integers

DAY == 86400

LeapYear(y) == (y % 4 = 0 /\ y % 100 # 0) \/ y % 400 = 0

IDAYS(y, m) ==
  CASE m \in {4, 6, 9, 11} -> 30
    [] m = 2               -> IF LeapYear(y) THEN 29 ELSE 28
    [] OTHER               -> 31

Dates ==
  {d \in [year : Nat, month : 1 .. 12, day : 1 .. 31, time : 0 .. DAY - 1] :
     d.day <= IDAYS(d.year, d.month)}

(* One iteration of ADD_FORECAST_TO_DATE_SURF. *)
AddDay(d) ==
  LET sec == d.time - DAY IN
  IF d.day # IDAYS(d.year, d.month)
    THEN [d EXCEPT !.day = @ + 1, !.time = sec]
  ELSE IF d.month = 12
    THEN [year |-> d.year + 1, month |-> 1, day |-> 1, time |-> sec]
    ELSE [d EXCEPT !.month = @ + 1, !.day = 1, !.time = sec]

(* Its loop: d after each number of iterations. *)
AddDays(d) ==
  LET add[n \in Nat] == IF n = 0 THEN d ELSE AddDay(add[n - 1])
  IN  add

(* ADD_FORECAST_TO_DATE_SURF(d, s): date d, s seconds later. *)
AddForecast(d, s) ==
  LET late == [d EXCEPT !.time = @ + s]
  IN  AddDays(late)[late.time \div DAY]

(* mutant: the year is not taken back with the first of January *)
EndOfDayBeforeNoYear(d) ==
  LET month == IF d.month = 1 THEN 12 ELSE d.month - 1
  IN  IF d.day > 1
        THEN [d EXCEPT !.day = @ - 1, !.time = DAY]
        ELSE [year |-> d.year, month |-> month, day |-> IDAYS(d.year, month), time |-> DAY]

(* The day before d at 24 h: the name of an output file at the end of a    *)
(* day with LOUT_TIMENAME.                                                 *)
EndOfDayBefore(d) ==
  LET month == IF d.month = 1 THEN 12 ELSE d.month - 1
      year  == IF d.month = 1 THEN d.year - 1 ELSE d.year
  IN  IF d.day > 1
        THEN [d EXCEPT !.day = @ - 1, !.time = DAY]
        ELSE [year |-> year, month |-> month, day |-> IDAYS(year, month), time |-> DAY]

=============================================================================
