---------------------------- MODULE MCOfflineRun ----------------------------
(***************************************************************************)
(* Instances of OfflineRun: forcing files around the end of a year and of  *)
(* February, of 2 to 8 lines, read in one part, in as many parts as lines  *)
(* and in the parts between, from their first line or from the third.      *)
(***************************************************************************)
EXTENDS OfflineRun

Hour == 3600
NewYear  == [year |-> 1999, month |-> 12, day |-> 31, time |-> 12 * Hour]
February == [year |-> 2000, month |-> 2, day |-> 28, time |-> 18 * Hour]

Steps == { [forc |-> 6 * Hour, surf |-> 3 * Hour, out |-> 3 * Hour],
           [forc |-> 6 * Hour, surf |-> 6 * Hour, out |-> 12 * Hour],
           [forc |-> 12 * Hour, surf |-> 3 * Hour, out |-> 6 * Hour] }

(* Times at which a run may be asked to end in the middle of its file. *)
AnyStop == {NoDate} \cup {AddForecast(NewYear, i * 6 * Hour) : i \in 2 .. 8}

Setup(file, rows, first, steps, nread, delayed, timename) ==
  [file |-> file, stops |-> {NoDate}, rows |-> rows, first |-> first, forc |-> steps.forc,
   surf |-> steps.surf, out |-> steps.out, nread |-> nread, delayed |-> delayed,
   timename |-> timename,
   prep |-> IF delayed THEN AddForecast(first, 2 * steps.forc) ELSE first]

(* One run, in the three formats. *)
OneRun ==
  {Setup(f, r, d, st, n, FALSE, tn) :
     f \in Files, r \in 2 .. 8, d \in {NewYear, February}, st \in Steps,
     n \in 0 .. 5, tn \in BOOLEAN}
  \cup {[Setup("ASCII", 3, NewYear, st, 0, FALSE, FALSE) EXCEPT !.prep = February] :
          st \in Steps}
  \cup {[Setup("BINARY", 3, NewYear, st, 0, FALSE, FALSE) EXCEPT !.surf = 5 * Hour] :
          st \in Steps}

(* Successive runs in one netCDF file, from line 3 or from the first. *)
Restarts ==
  {[Setup("NETCDF", r, NewYear, st, n, dl, FALSE) EXCEPT !.stops = AnyStop] :
     r \in {4, 7}, st \in Steps, n \in {0, 2, 3}, dl \in BOOLEAN}

AllRuns == OneRun \cup Restarts
=============================================================================
