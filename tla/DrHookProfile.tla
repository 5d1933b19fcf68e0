--------------------------- MODULE DrHookProfile ---------------------------
(* The profile c_drhook_print_ (support/drhook.c) writes at the end of the    *)
(* program from the keys of DrHookCalls: a row for every key that is not      *)
(* active, the rows of one name on several threads making a cluster of which  *)
(* one counts in the wall time.                                               *)
EXTENDS DrHookCalls

CpuProf == opts.CpuProf   \* opt_cpuprof, else opt_wallprof
CpuTime == opts.CpuTime   \* opt_cputime

ASSUME ProfileAssumption == \A o \in Options : o.CpuProf => o.CpuTime

\* A row; the rows of $drhook are those insertkey adds with the option SELF.
TimeRow(t, p) == [tid |-> t, key |-> p, name |-> KeyAt(keydata[t], p).name,
              self |-> OwnTime(t, p), total |-> KeyAt(keydata[t], p).all]
SelfRow(t) == [tid |-> t, key |-> Null, name |-> "$drhook", self |-> self[t], total |-> self[t]]

TimeProf == {TimeRow(t, p) : <<t, p>> \in {x \in CallThreads \X UNION {Keys(t) : t \in CallThreads} :
                        /\ x[2] \in Keys(x[1]) /\ KeyAt(keydata[x[1]], x[2]).status = 0}}
        \cup IF Self > 1 THEN {SelfRow(t) : t \in CallThreads} ELSE {}

SumOfSelf(rows) == MapThenSumSet(LAMBDA r : r.self, rows)

\* tot[t], and the time of $drhook that is added to it again
Tot(t)  == SumOfSelf({r \in TimeProf : r.tid = t})
Extra(t) == IF Self > 1 THEN self[t] ELSE 0

\* Clusters of the rows, after qsort by name, and the row of each with the largest
\* time: the first one in an order qsort does not define among equals
NamesOf(rows) == {r.name : r \in rows}
Cluster(rows, name) == {r \in rows : r.name = name}
Largest(cluster) ==
  LET most == {r \in cluster : \A q \in cluster : q.self <= r.self}
  IN CHOOSE r \in most : \A q \in most : r.tid <= q.tid

\* tottime, as calculated again after the clusters are known
WallTotal(rows) == SumOfSelf({Largest(Cluster(rows, n)) : n \in NamesOf(rows)})
CpuTotal  == MapThenSumSet(LAMBDA t : Tot(t) + Extra(t), CallThreads)
TotTime(rows) == IF CpuProf THEN CpuTotal ELSE WallTotal(rows)

\* Mutant: every row is counted
CountsAll(rows, r) == TRUE

\* The column Cumul of the last row: a row counts alone or as the largest of its cluster
Counts(rows, r) == CpuTime \/ r = Largest(Cluster(rows, r.name))
Cumul(rows)     == SumOfSelf({r \in rows : Counts(rows, r)})

-----------------------------------------------------------------------------
(* The program may stop at any point, also inside routines.                   *)

\* A thread is not said to have used more than all of the wall time (comment of
\* is_max: "multiple threads <= numthreads indeed called this routine").
ShareOfThread == \E rows \in {TimeProf} : \A t \in CallThreads : Tot(t) <= TotTime(rows)

\* The rows that count add up to the time the percentages refer to (comment of
\* is_max: "first max found will be used for total time").
RowsAddUp == \E rows \in {TimeProf} : Cumul(rows) = TotTime(rows)

\* The rows of the profile add up to its total (c_drhook_print_); with CALLPATH the
\* rows of the paths are not those of threads and the share of a thread is not
\* looked at.
ProfileIsRight == RowsAddUp /\ (~CallPath => ShareOfThread)
=============================================================================
