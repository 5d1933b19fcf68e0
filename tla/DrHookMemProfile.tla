-------------------------- MODULE DrHookMemProfile --------------------------
(* The memory profile of Dr.Hook (option 4 of c_drhook_print_), computed from *)
(* what DrHookHeap keeps for every routine and thread: rows sorted by name,   *)
(* clusters of the rows of one routine, their largest value, the total.       *)
EXTENDS DrHookHeap, SequencesExt

Finished(t, r) == r \notin Range(stack[t])          \* keyptr->status == 0

Row(t, r) == [name |-> r, tid |-> t, self |-> mem[t][r].maxself, leaked |-> mem[t][r].cur,
              children |-> mem[t][r].child, seen |-> mem[t][r].seen]
RowsNamed(r) == SetToSeq({Row(t, r) : t \in {u \in HeapThreads : Finished(u, r)}})
Prof == FlattenSeq([i \in 1..Cardinality(Routines) |-> RowsNamed(SetToSeq(Routines)[i])])

\* One pass over the sorted rows gives each the number of its cluster, and each
\* cluster its largest value and its size.
Scan(acc, p) ==
  LET new == p.name # acc.prev
      c   == IF new THEN acc.cluster + 1 ELSE acc.cluster
  IN [cluster |-> c, prev |-> p.name, of |-> Append(acc.of, c),
      maxval  |-> IF new THEN Append(acc.maxval, p.self) ELSE [acc.maxval EXCEPT ![c] = Larger(@, p.self)],
      size    |-> IF new THEN Append(acc.size, 1) ELSE [acc.size EXCEPT ![c] = @ + 1]]
Clusters == FoldLeft(Scan, [cluster |-> 0, prev |-> "", of |-> <<>>, maxval |-> <<>>, size |-> <<>>], Prof)

\* The first row of a cluster that has its largest value is the one counted;
\* the size of the cluster is then made negative.
\* Mutant: every row is counted
UseAlways(k, acc, i) == [acc EXCEPT !.used = @ \cup {i}]
Use(k, acc, i) ==
  LET c == k.of[i] IN
  IF acc.size[c] = 1 THEN [acc EXCEPT !.used = @ \cup {i}]
  ELSE IF acc.size[c] > 1 /\ Prof[i].self = k.maxval[c]
       THEN [used |-> acc.used \cup {i}, size |-> [acc.size EXCEPT ![c] = -@]]
       ELSE acc
Used == LET k == Clusters IN
        FoldLeft(LAMBDA acc, i : Use(k, acc, i), [used |-> {}, size |-> k.size], [i \in DOMAIN Prof |-> i]).used
TotMaxMem == MapThenSumSet(LAMBDA i : Prof[i].self, Used)

Leaked == MapThenSumSet(LAMBDA i : Larger(Prof[i].leaked, 0), DOMAIN Prof)
-----------------------------------------------------------------------------
\* Every routine with a row counts once, with the thread that needed most.
OncePerRoutine ==
  TotMaxMem = MapThenSumSet(LAMBDA r : Max({0} \cup {mem[t][r].maxself : t \in {u \in HeapThreads : Finished(u, r)}}), Routines)

\* Once all routines have ended the memory reported as leaked is not less than
\* what is still allocated.
LeaksAreReported ==
  NoCall /\ (\A t \in HeapThreads, r \in Routines \ {Main} : Finished(t, r)) =>
    Leaked + SumFunction([t \in HeapThreads |-> Larger(mem[t][Main].cur, 0)]) >= Outstanding

\* What the memory profile reports (c_drhook_print_ with option 4).
MemoryReported == MemProf => OncePerRoutine /\ LeaksAreReported
=============================================================================
