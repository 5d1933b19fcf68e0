------------------------------ MODULE KeySort ------------------------------
(* KEYSORT of ecsort_shared.h, for vectors and for matrices: it orders the
   rows of an array by some of its columns, the least significant first, with
   the routines of SortKernels, or answers with the index of the order. On
   several threads a column is sorted by parts, which are then merged.

   A call is a record
     dim      1: KEYSORT_1D, 2: KEYSORT_2D
     kind     "int" or "real"
     method   "radix", "heap", "quick", "counting" or "gnome"
     keys     the columns to sort by, the most significant first; a negative
              one is for descending order, 0 stands for none (in a vector,
              1 or -1)
     index    "none", "init" (to be initialised) or "given"
     threads  OML_MAX_THREADS() outside a parallel region, else 1 *)
EXTENDS SortKernels, TLC

CONSTANTS
  Calls,          \* the calls that are made
  Arrays(_),      \* the arrays, as sequences of columns, a call may be made on
  Starts(_),      \* the indexes it may be given, for so many rows
  NOMP,           \* rows from which several threads are used
  DefaultMethod   \* default_method

Multikey == {"radix", "quick", "counting"}

\* Left out: integers sorted by radix on several threads, which change and
\* restore the signs of the rows the others read; one row sorted by HEAPSORT,
\* which reads before its index.
SortAssumption ==
  /\ NOMP \in Int /\ DefaultMethod \in Multikey \cup {"heap", "gnome"}
  /\ \A c \in Calls : c.threads > 1 /\ c.kind = "int" => c.method \in {"quick", "counting"}
  /\ \A c \in Calls : c.method = "heap" => \A s \in Arrays(c) : Len(s[1]) # 1

VARIABLES
  call,      \* the arguments
  a, index,  \* the array and the index
  a0, index0, \* what they were at the call (index0 once initialised)
  rc,        \* the answer
  pc,
  jkey,      \* the key being sorted by
  method,    \* imethod
  adjusted,  \* LLadjusted: the index counts from 0
  todo,      \* the parts the threads have still to take
  rank,      \* irank: where the merged rows were
  inc        \* how many parts a merge covers

vars == <<call, a, index, a0, index0, rc, pc, jkey, method, adjusted, todo, rank, inc>>
-----------------------------------------------------------------------------
n == Len(a[1])
Rows == 1..n
Identity == [i \in Rows |-> i]
Number(kind) == IF kind = "int" THEN 4 ELSE 2       \* KEYSORT_NUMBER modulo 10
Shifted(s, by) == SubSeq([i \in DOMAIN s |-> s[i] + by], 1, Len(s))    \* adjust_index
RankOf(s) == [x \in Range(s) |-> CHOOSE i \in DOMAIN s : s[i] = x]   \* get_rank

method1st ==
  IF Len(call.keys) > 1 /\ call.method \notin Multikey THEN DefaultMethod ELSE call.method
methodRest ==
  IF Len(call.keys) > 1 /\ method1st \notin Multikey THEN "radix" ELSE method1st

column == LET k == call.keys[jkey] IN IF k < 0 THEN -k ELSE k
\* mutant: the sign of a key is not looked at
NotDescending == FALSE

\* Radix, heap and gnome sort know no descending order: the signs are changed.
descending == call.keys[jkey] < 0 /\ method \notin {"quick", "counting"}
irev == call.keys[jkey] < 0 /\ method \in {"quick", "counting"}
KeyColumn == IF descending THEN [i \in Rows |-> Opposite(call.kind, a[column][i])] ELSE a[column]

several == call.threads > 1 /\ NOMP >= call.threads /\ n >= NOMP
InParallel == several /\ method \in Multikey

\* Sorting the ranks s of rows by a column.
Kernel(m, keys, s, rev) ==
  CASE m = "radix"    -> RadixSort(call.kind, keys, s)
    [] m = "heap"     -> HeapSort(call.kind, keys, s)
    [] m = "quick"    -> QuickSort(call.kind, keys, s, rev)
    [] m = "counting" -> CountingSort(call.kind, keys, s, rev)
    [] m = "gnome"    -> GnomeSort(call.kind, keys, s)

KernelCode(m) ==
  CASE m = "radix"    -> Radix64Code(Number(call.kind), n, 1)
    [] m = "heap"     -> n
    [] m = "quick"    -> QuickCode(Number(call.kind), n, 1)
    [] m = "counting" -> CountingCode(Number(call.kind), n)
    [] m = "gnome"    -> GnomeCode(Number(call.kind), n, 1)
-----------------------------------------------------------------------------
(* KEYSORT_1D.                                                             *)

Asked(dim) == pc = "call" /\ call.dim = dim /\ n > 0

\* Nothing to sort (in either).
Empty ==
  /\ pc = "call" /\ n = 0
  /\ pc' = "done"
  /\ UNCHANGED <<call, a, index, a0, index0, rc, jkey, method, adjusted, todo, rank, inc>>

FastWay == \/ call.method = "quick" /\ call.index = "none"
           \/ call.method = "counting"

Down == call.keys[1] < 0

\* ecqsortfast, by one thread.
QuickVector ==
  /\ Asked(1) /\ FastWay
  /\ call.method = "quick" /\ ~several
  /\ a' = <<FastSort(call.kind, a[1], Down)>>
  /\ rc' = FastCode(Number(call.kind), n)
  /\ pc' = "done"
  /\ UNCHANGED <<call, index, a0, index0, jkey, method, adjusted, todo, rank, inc>>

\* ecqsortfast on two halves, in two sections of a parallel region.
QuickHalves ==
  /\ Asked(1) /\ FastWay
  /\ call.method = "quick" /\ several
  /\ todo' = {1, 2} /\ pc' = "halves"
  /\ UNCHANGED <<call, a, index, a0, index0, rc, jkey, method, adjusted, rank, inc>>

Half(s, j) == IF j = 1 THEN SubSeq(s, 1, n \div 2) ELSE SubSeq(s, n \div 2 + 1, n)

QuickHalf(j) ==
  /\ pc = "halves" /\ j \in todo
  /\ LET sorted == FastSort(call.kind, Half(a[1], j), Down)
     IN  a' = <<IF j = 1 THEN sorted \o Half(a[1], 2) ELSE Half(a[1], 1) \o sorted>>
  /\ todo' = todo \ {j}
  /\ UNCHANGED <<call, index, a0, index0, rc, pc, jkey, method, adjusted, rank, inc>>

\* ecmerge2 without an index.
MergeHalves ==
  /\ pc = "halves" /\ todo = {}
  /\ a' = <<MergeKeys(call.kind, Half(a[1], 1), Half(a[1], 2), Down)>>
  /\ rc' = MergeCode(Number(call.kind), n)
  /\ pc' = "done"
  /\ UNCHANGED <<call, index, a0, index0, jkey, method, adjusted, todo, rank, inc>>

\* ec_countingsort of the vector, or of the index alone.
CountVector ==
  /\ Asked(1) /\ FastWay
  /\ call.method = "counting"
  /\ LET start == IF call.index = "given" THEN index ELSE Identity
         order == CountingSort(call.kind, a[1], start, Down)
     IN  /\ index0' = start
         /\ IF call.index = "none"
              THEN a' = <<[i \in Rows |-> a[1][order[i]]]>> /\ UNCHANGED index
              ELSE index' = order /\ UNCHANGED a
  /\ rc' = CountingCode(Number(call.kind), n)
  /\ pc' = "done"
  /\ UNCHANGED <<call, a0, jkey, method, adjusted, todo, rank, inc>>

Flipped(column1) == [i \in Rows |-> Opposite(call.kind, column1[i])]

\* The other ways: the vector, its signs changed for descending order, is
\* sorted as a matrix of one column by its key 1.
VectorAsMatrix ==
  /\ Asked(1) /\ ~FastWay
  /\ a' = IF Down THEN <<Flipped(a[1])>> ELSE a
  /\ pc' = "matrix"
  /\ UNCHANGED <<call, index, a0, index0, rc, jkey, method, adjusted, todo, rank, inc>>
-----------------------------------------------------------------------------
(* KEYSORT_2D.                                                             *)

Begin ==
  /\ \/ pc = "matrix"
     \/ Asked(2)
  /\ LET start == IF call.index = "given" THEN index ELSE Identity
     IN  index' = start /\ index0' = start
  /\ method' = method1st
  /\ jkey' = Len(call.keys)
  /\ pc' = "keys"
  /\ UNCHANGED <<call, a, a0, rc, adjusted, todo, rank, inc>>

\* A vector's own sign has been seen to.
SignOfKey == IF call.dim = 1 THEN FALSE ELSE descending
Keys == IF call.dim = 1 THEN a[1] ELSE KeyColumn

SkipKey ==
  /\ pc = "keys" /\ jkey > 0 /\ call.keys[jkey] = 0
  /\ jkey' = jkey - 1
  /\ UNCHANGED <<call, a, index, a0, index0, rc, pc, method, adjusted, todo, rank, inc>>

SortKey ==
  /\ pc = "keys" /\ jkey > 0 /\ call.keys[jkey] # 0 /\ ~InParallel
  /\ index' = Kernel(method, Keys, index, irev /\ call.dim = 2)
  /\ rc' = KernelCode(method)
  /\ jkey' = jkey - 1 /\ method' = methodRest
  /\ UNCHANGED <<call, a, a0, index0, pc, adjusted, todo, rank, inc>>

\* ista: the first row of each part.
First(j) ==
  LET size == n \div call.threads
      more == n % call.threads
  IN  1 + (j - 1) * size + IF j - 1 < more THEN j - 1 ELSE more
Part(s, j, k) == SubSeq(s, First(j), First(k + 1) - 1)
WithPart(s, j, k, t) == SubSeq(s, 1, First(j) - 1) \o t \o SubSeq(s, First(k + 1), n)

\* mutant: the index is shifted again for every key
SplitTwice ==
  /\ pc = "keys" /\ jkey > 0 /\ call.keys[jkey] # 0 /\ InParallel
  /\ a' = IF SignOfKey THEN [a EXCEPT ![column] = Flipped(@)] ELSE a
  /\ index' = Shifted(index, -1)
  /\ adjusted' = TRUE
  /\ todo' = 1..call.threads
  /\ pc' = "parts"
  /\ UNCHANGED <<call, a0, index0, rc, jkey, method, rank, inc>>
\* The signs changed for the key stay so until its parts are merged.
Split ==
  /\ pc = "keys" /\ jkey > 0 /\ call.keys[jkey] # 0 /\ InParallel
  /\ a' = IF SignOfKey THEN [a EXCEPT ![column] = Flipped(@)] ELSE a
  /\ index' = IF adjusted THEN index ELSE Shifted(index, -1)
  /\ adjusted' = TRUE
  /\ todo' = 1..call.threads
  /\ pc' = "parts"
  /\ UNCHANGED <<call, a0, index0, rc, jkey, method, rank, inc>>

\* rsort64 copies or changes as many keys as it sorts, from the first of the
\* column, and reads them by the ranks in the index: unless these are the
\* first rows it reads others', or past its copy, and finds them in any order
\* or stops the program (what it counted does not fit).
RadixPart(part) ==
  IF Range(part) = 1..Len(part)
    THEN {RadixSort(call.kind, a[column], part)}
    ELSE {[i \in DOMAIN part |-> part[p[i]]] : p \in Permutations(DOMAIN part)}

SortPart(j) ==
  /\ pc = "parts" /\ j \in todo
  /\ LET part == Shifted(Part(index, j, j), 1)
     IN  \E sorted \in IF method = "radix" THEN RadixPart(part)
                       ELSE {Kernel(method, a[column], part, irev /\ call.dim = 2)} :
           index' = WithPart(index, j, j, Shifted(sorted, -1))
  /\ todo' = todo \ {j}
  /\ UNCHANGED <<call, a, a0, index0, rc, pc, jkey, method, adjusted, rank, inc>>

RadixStops(j) ==
  /\ pc = "parts" /\ j \in todo /\ method = "radix"
  /\ Range(Shifted(Part(index, j, j), 1)) # 1..(First(j + 1) - First(j))
  /\ pc' = "aborted"
  /\ UNCHANGED <<call, a, index, a0, index0, rc, jkey, method, adjusted, todo, rank, inc>>

Groups(size) == {j \in 1..call.threads : (j - 1) % size = 0}

RankRows ==
  /\ pc = "parts" /\ todo = {}
  /\ rank' = RankOf(Shifted(index, 1))
  /\ inc' = 2 /\ todo' = Groups(2)
  /\ pc' = "merge"
  /\ UNCHANGED <<call, a, index, a0, index0, rc, jkey, method, adjusted>>

MinOf(x, y) == IF x < y THEN x ELSE y

\* ecmerge2 of the parts j to j + inc - 1, in two runs.
MergeParts(j) ==
  /\ pc = "merge" /\ j \in todo
  /\ LET last   == MinOf(j + inc - 1, call.threads)
         middle == MinOf((j + j + inc - 1) \div 2 + 1, call.threads)
         ranks  == Shifted(index, 1)
         runA   == SubSeq(ranks, First(j), First(middle) - 1)
         runB   == Part(ranks, middle, last)
     IN  index' = IF runA = <<>> \/ runB = <<>> THEN index
                  ELSE WithPart(index, j, last,
                         Shifted(MergeIdx(call.kind, a[column], runA, runB, rank, irev /\ call.dim = 2), -1))
  /\ todo' = todo \ {j}
  /\ UNCHANGED <<call, a, a0, index0, rc, pc, jkey, method, adjusted, rank, inc>>

\* Every loop of merges doubles the size, (inumt + 1) / 2 times.
LastSize == 2^((call.threads + 1) \div 2)

NextMerge ==
  /\ pc = "merge" /\ todo = {} /\ inc < LastSize
  /\ inc' = 2 * inc /\ todo' = Groups(2 * inc)
  /\ UNCHANGED <<call, a, index, a0, index0, rc, pc, jkey, method, adjusted, rank>>

\* The index is put back at once when the other keys have another method.
Merged ==
  /\ pc = "merge" /\ todo = {} /\ inc = LastSize
  /\ rc' = n
  /\ a' = IF SignOfKey THEN [a EXCEPT ![column] = Flipped(@)] ELSE a
  /\ adjusted' = (method = methodRest)
  /\ index' = IF method # methodRest THEN Shifted(index, 1) ELSE index
  /\ method' = methodRest
  /\ jkey' = jkey - 1 /\ pc' = "keys"
  /\ UNCHANGED <<call, a0, index0, todo, rank, inc>>

\* Without an index to answer with, the rows are put in order.
Finish ==
  /\ pc = "keys" /\ jkey = 0
  /\ LET order == IF adjusted THEN Shifted(index, 1) ELSE index
         rows == IF call.index = "none" THEN [c \in DOMAIN a |-> [i \in Rows |-> a[c][order[i]]]] ELSE a
     IN  /\ index' = order
         /\ a' = IF call.dim = 1 /\ Down THEN <<Flipped(rows[1])>> ELSE rows
  /\ adjusted' = FALSE
  /\ pc' = "done"
  /\ UNCHANGED <<call, a0, index0, rc, jkey, method, todo, rank, inc>>

Stopped == pc \in {"done", "aborted"} /\ UNCHANGED vars
-----------------------------------------------------------------------------
Init ==
  /\ call \in Calls
  /\ a \in Arrays(call) /\ a0 = a
  /\ index \in IF call.index = "given" THEN Starts(n) ELSE {Identity}
  /\ index0 = index
  /\ rc = 0 /\ pc = "call" /\ jkey = 0 /\ method = call.method
  /\ adjusted = FALSE /\ todo = {} /\ rank = <<>> /\ inc = 0

Next ==
  \/ Empty \/ QuickVector \/ QuickHalves \/ MergeHalves \/ CountVector \/ VectorAsMatrix
  \/ \E j \in todo : QuickHalf(j) \/ SortPart(j) \/ RadixStops(j) \/ MergeParts(j)
  \/ Begin \/ SkipKey \/ SortKey \/ Split \/ RankRows \/ NextMerge \/ Merged \/ Finish
  \/ Stopped

Spec == Init /\ [][Next]_vars
-----------------------------------------------------------------------------
(* What a call must achieve.                                               *)

KeyValue(k, i) == LET v == Value(call.kind, a0[IF k < 0 THEN -k ELSE k][i]) IN IF k < 0 THEN -v ELSE v
RealKeys == SelectSeq(call.keys, LAMBDA k : k # 0)

\* Row i is ahead of row j in the first key they differ in.
RowAhead(i, j) ==
  \E m \in DOMAIN RealKeys :
    /\ \A l \in 1..(m - 1) : KeyValue(RealKeys[l], i) = KeyValue(RealKeys[l], j)
    /\ KeyValue(RealKeys[m], i) < KeyValue(RealKeys[m], j)

\* The rows of the index the call began with, in the order it asks for.
Ordered(s) == \A p, q \in DOMAIN s : p < q => ~RowAhead(s[q], s[p])
Stable(s) ==
  \A p, q \in DOMAIN s : p < q /\ ~RowAhead(s[p], s[q]) => RankOf(index0)[s[p]] < RankOf(index0)[s[q]]
=============================================================================
