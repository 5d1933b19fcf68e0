------------------------------- MODULE MCSort -------------------------------
(* The sorting routines on every sequence of three words of four bits, and    *)
(* KEYSORT on arrays of three to five rows.  In each behaviour either some of *)
(* the routines are asked ("kernels") or KEYSORT is called ("keysort").       *)
EXTENDS KeySort, SortCalls

VARIABLES part, kind, keys, start, answer    \* what the routines are given, what they answer

kernels == <<kind, keys, start, answer>>
-----------------------------------------------------------------------------
(* The routines of SortKernels.                                               *)

Three == 1..3
Codes(m, k, stride) ==
  [radix |-> RadixCode(m, k, stride), radix64 |-> Radix64Code(m, k, stride),
   quick |-> QuickCode(m, k, stride), gnome |-> GnomeCode(m, k, stride),
   fast |-> FastCode(m, k), merge |-> MergeCode(m, k), counting |-> CountingCode(m, k)]

KernelsInit ==
  /\ kind \in {"uint", "int", "real"} /\ keys \in [Three -> Word]
  /\ start \in {<<1, 2, 3>>, <<3, 1, 2>>}
  /\ answer = <<>>

\* A routine called with a type, a number of keys and a stride.
CallRoutine ==
  /\ answer = <<>> /\ kind = "int" /\ \A i \in Three : keys[i] = 0 /\ start[i] = i
  /\ \E m \in -1..6, k \in -1..2, stride \in 0..2 :
       answer' = <<m, k, stride, Codes(m, k, stride)>>
  /\ UNCHANGED <<kind, keys, start>>

\* The order of the rows of start: by value, equal ones as they come.
Order(value) ==
  LET before(q, p) == value[start[q]] < value[start[p]] \/ (value[start[q]] = value[start[p]] /\ q <= p)
      place(p) == Cardinality({q \in Three : before(q, p)})
  IN  [p \in Three |-> start[CHOOSE q \in Three : place(q) = p]]

NegativeZero == kind = "real" /\ \E i \in Three : keys[i] = SIGNBIT
AnyNegative == \E i \in Three : Negative(keys[i])
ValueOf == [i \in Three |-> Value(kind, keys[i])]
Minus == [i \in Three |-> -ValueOf[i]]

\* Radix sort in one word and in two (rsort64, and rsort32 on 64 bits) find
\* the same order, for keys of every kind and sign.
TwoWordsAsOne == TwoWordSort(kind, keys, start) = RadixSort(kind, keys, start)

\* Radix, quick and gnome sort find the order of the values, whatever the
\* order the index was in, and keep the rows whose keys are equal in it; the
\* two zeros are different keys to radix sort.
StableOrder ==
  /\ QuickSort(kind, keys, start, FALSE) = Order(ValueOf)
  /\ QuickSort(kind, keys, start, TRUE) = Order(Minus)
  /\ GnomeSort(kind, keys, start) = Order(ValueOf)
  /\ ~NegativeZero => RadixSort(kind, keys, start) = Order(ValueOf)

\* So does counting sort, but for negative integers, for which it uses the
\* order of reals.
CountedOrder ==
  ~NegativeZero /\ ~(kind = "int" /\ AnyNegative) =>
    /\ CountingSort(kind, keys, start, FALSE) = Order(ValueOf)
    /\ CountingSort(kind, keys, start, TRUE) = Order(Minus)

\* HEAPSORT finds an order of the values (of more than one row).
HeapOrder ==
  LET s == HeapSort(kind, keys, start)
  IN  ToSet(s) = Three /\ \A p \in 1..2 : ValueOf[s[p]] <= ValueOf[s[p + 1]]

\* Merging two sorted runs is sorting their rows, stably by where they were.
MergedOrder ==
  \A m \in 1..2 :
    LET ranks == [i \in Three |-> CHOOSE p \in Three : start[p] = i]
        run1 == QuickSort(kind, keys, SubSeq(start, 1, m), FALSE)
        run2 == QuickSort(kind, keys, SubSeq(start, m + 1, 3), FALSE)
    IN  MergeIdx(kind, keys, run1, run2, ranks, FALSE) = Order(ValueOf)

\* A refused call is told from one that sorted its keys: no routine answers
\* with the number of keys when it does not know their type, and only the
\* counting sort does so for a stride below 1, that it never looks at.
RefusalsTold ==
  answer # <<>> =>
    LET m == answer[1]  k == answer[2]  stride == answer[3]  codes == answer[4]
    IN  \A r \in DOMAIN codes :
          codes[r] = k /\ k > 0 => m \in Methods /\ (stride > 0 \/ r \in {"counting", "fast", "merge"})
-----------------------------------------------------------------------------
(* KEYSORT, on the calls of SortCalls.                                        *)

\* The index is, at every step and from wherever it counts, an order of the
\* rows: sorting by parts, merging them and the shifts between the indexes of
\* C and Fortran lose no row.
IndexPermuted == Range(index) = (IF adjusted THEN 0..(n - 1) ELSE Rows) /\ Len(index) = n

\* A call that ends has put the rows, or its index of them, in the order asked
\* for; rows with the same keys stay in the order they came in, but for
\* HEAPSORT, and in a vector they cannot be told apart. Radix sort by parts
\* reads rows of other parts and is not held to it.
RowsOf(s) == [i \in Rows |-> [c \in DOMAIN s |-> s[c][i]]]
ValueRows(s) == [i \in Rows |-> [c \in DOMAIN s |-> Value(call.kind, s[c][i])]]
Right(s) == Ordered(s) /\ (call.method = "heap" \/ Stable(s))
RightOrder ==
  pc = "done" /\ ~(Parted(call) /\ call.method = "radix") =>
    IF call.index = "none"
      THEN LET now == ValueRows(a)  then == ValueRows(a0)
           IN  \E p \in Permutations(Rows) :
                 (\A i \in Rows : now[i] = then[p[i]]) /\ Right([i \in Rows |-> p[i]])
      ELSE Right(index)

\* The array comes back with the words it had: as it was when the index is the
\* answer, with its rows moved when not. Changing the signs of a key and
\* changing them back leaves no trace.
WordsKept ==
  pc = "done" =>
    IF call.index = "none"
      THEN LET now == RowsOf(a)  then == RowsOf(a0)
           IN  \E p \in Permutations(Rows) : \A i \in Rows : now[i] = then[p[i]]
      ELSE a = a0

\* The answer is the number of rows.
AnswersRows == pc = "done" => rc = n
-----------------------------------------------------------------------------
Rest(v) == v = "rests"
KernelsRest == Rest(kind) /\ Rest(keys) /\ Rest(start) /\ Rest(answer)
KeysortRests ==
  /\ Rest(call) /\ Rest(a) /\ Rest(index) /\ Rest(a0) /\ Rest(index0) /\ Rest(rc) /\ Rest(pc)
  /\ Rest(jkey) /\ Rest(method) /\ Rest(adjusted) /\ Rest(todo) /\ Rest(rank) /\ Rest(inc)

MCInit == \/ part = "kernels" /\ KernelsInit /\ KeysortRests
          \/ part = "keysort" /\ Init /\ KernelsRest
MCNext == /\ UNCHANGED part
          /\ \/ part = "kernels" /\ CallRoutine /\ UNCHANGED vars
             \/ part = "keysort" /\ Next /\ UNCHANGED kernels
-----------------------------------------------------------------------------
\* The routines find the order of the values and agree with one another, and
\* a refused call is told from one that sorted (rsort32_, rsort64_,
\* ec_countingsort_, gnomesort_, ecqsort_, ecmerge2_ and HEAPSORT).
KernelsAgree ==
  part = "kernels" => /\ TwoWordsAsOne /\ StableOrder /\ CountedOrder /\ HeapOrder /\ MergedOrder
                      /\ RefusalsTold

\* KEYSORT puts the rows in the order asked for and keeps their words; its
\* index holds each row once all along, on one thread and on several.
SortedAsAsked == part = "keysort" => IndexPermuted /\ RightOrder /\ WordsKept /\ AnswersRows
=============================================================================
