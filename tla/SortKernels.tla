---------------------------- MODULE SortKernels ----------------------------
(* The sorting routines in C under KEYSORT (rsort32.c, rsort64.c,
   countingsort.c, gnomesort.c, ecqsort.c) and HEAPSORT of ecsort_shared.h, as
   functions of the keys and of the index they rearrange.

   A key is a word of Width bits, and kind says what its bits mean: "int" a
   signed integer, "real" a sign and a magnitude, "uint" an unsigned integer.
   An index is a sequence of ranks of keys, from 1. *)
EXTENDS Integers, Sequences, SequencesExt, FiniteSets

CONSTANTS
  Width,  \* bits of a word (32 or 64)
  Digit   \* bits of a digit of the counting sort (16)

WidthAssumption == Width \in Nat \ {0} /\ Digit \in Nat \ {0} /\ Width % Digit = 0

Word == 0 .. 2^Width - 1
SIGNBIT == 2^(Width - 1)
Negative(w) == w >= SIGNBIT

Value(kind, w) ==
  CASE kind = "uint" -> w
    [] kind = "int"  -> IF Negative(w) THEN w - 2^Width ELSE w
    [] kind = "real" -> IF Negative(w) THEN SIGNBIT - w ELSE w

\* The key with the opposite sign, as Fortran computes it.
Opposite(kind, w) == IF kind = "int" THEN (2^Width - w) % 2^Width ELSE (w + SIGNBIT) % 2^Width

FlipSign(w) == (w + SIGNBIT) % 2^Width   \* w ^ SIGNBIT
FlipAll(w)  == 2^Width - 1 - w           \* w ^ MASKALL
BitOf(w, j) == (w \div 2^j) % 2
-----------------------------------------------------------------------------
(* Radix sort: one stable pass for each bit, from the lowest.              *)

\* What makes the order of the keys that of unsigned words.
RadixWord(kind, w) ==
  CASE kind = "uint" -> w
    [] kind = "int"  -> FlipSign(w)
    [] kind = "real" -> IF Negative(w) THEN FlipAll(w) ELSE FlipSign(w)

\* A column of bits that are all 0 or all 1 is skipped.
RadixPass(words, index, j) ==
  LET sum == Cardinality({i \in DOMAIN words : BitOf(words[i], j) = 1})
  IN  IF sum > 0 /\ sum < Len(words)
        THEN SelectSeq(index, LAMBDA i : BitOf(words[i], j) = 0)
             \o SelectSeq(index, LAMBDA i : BitOf(words[i], j) = 1)
        ELSE index

RadixSort(kind, keys, index) ==
  LET words == [i \in DOMAIN keys |-> RadixWord(kind, keys[i])]
      Pass(done, j) == RadixPass(words, done, j)
  IN  FoldLeft(Pass, index, [j \in 1..Width |-> j - 1])

\* rsort32_ on 64 bits: the low halves are sorted first, then the high ones.
\* A negative real has its low half flipped too.
TwoWordSort(kind, keys, index) ==
  LET half == Width \div 2
      low  == [i \in DOMAIN keys |->
                IF kind = "real" /\ Negative(keys[i]) THEN FlipAll(keys[i]) % 2^half ELSE keys[i] % 2^half]
      high == [i \in DOMAIN keys |-> RadixWord(kind, keys[i]) \div 2^half]
      LowPass(done, j)  == RadixPass(low, done, j)
      HighPass(done, j) == RadixPass(high, done, j)
      bits == [j \in 1..half |-> j - 1]
  IN  FoldLeft(HighPass, FoldLeft(LowPass, index, bits), bits)
-----------------------------------------------------------------------------
(* Counting sort: one stable pass for each digit.                          *)

\* mutant: reals are masked as integers are
CountingWordPlain(kind, w) == IF kind = "uint" THEN w ELSE FlipSign(w)
CountingWord(kind, w) ==
  IF kind = "uint" THEN w ELSE IF Negative(w) THEN FlipAll(w) ELSE FlipSign(w)

\* An element goes behind those with smaller digits and those before it with
\* the same: the counts are cumulated, and used up from the last element.
CountingPass(words, index, d, irev) ==
  LET digit(i) == (words[index[i]] \div 2^(Digit * d)) % 2^Digit
      Before(i, k) == IF irev THEN digit(i) > digit(k) ELSE digit(i) < digit(k)
      place(k) == Cardinality({i \in DOMAIN index : Before(i, k) \/ (digit(i) = digit(k) /\ i <= k)})
  IN  SubSeq([p \in DOMAIN index |-> index[CHOOSE k \in DOMAIN index : place(k) = p]], 1, Len(index))

CountingSort(kind, keys, index, irev) ==
  LET words == [i \in DOMAIN keys |-> CountingWord(kind, keys[i])]
      Pass(done, d) == CountingPass(words, done, d, irev)
  IN  FoldLeft(Pass, index, [d \in 1..(Width \div Digit) |-> d - 1])
-----------------------------------------------------------------------------
(* Quick sort: qsort() of the C library with a comparison that never finds *)
(* two elements equal, so that its result does not depend on its steps.    *)

Ahead(kind, irev, v, w) == IF irev THEN Value(kind, v) > Value(kind, w) ELSE Value(kind, v) < Value(kind, w)

\* Two keys that are equal stay in the order they came in.
FirstPlace(index, i, k) == i <= k

QuickSort(kind, keys, index, irev) ==
  LET place(k) == Cardinality({i \in DOMAIN index :
                    \/ Ahead(kind, irev, keys[index[i]], keys[index[k]])
                    \/ /\ ~Ahead(kind, irev, keys[index[k]], keys[index[i]])
                       /\ FirstPlace(index, i, k)})
  IN  SubSeq([p \in DOMAIN index |-> index[CHOOSE k \in DOMAIN index : place(k) = p]], 1, Len(index))
-----------------------------------------------------------------------------
(* Gnome sort.                                                             *)

Swap(s, i, j) == [s EXCEPT ![i] = s[j], ![j] = s[i]]

RECURSIVE GnomeFrom(_, _, _, _)
GnomeFrom(kind, keys, index, i) ==
  IF i > Len(index) THEN index
  ELSE IF i = 1 \/ Value(kind, keys[index[i - 1]]) <= Value(kind, keys[index[i]])
    THEN GnomeFrom(kind, keys, index, i + 1)
    ELSE GnomeFrom(kind, keys, Swap(index, i - 1, i), i - 1)

GnomeSort(kind, keys, index) == GnomeFrom(kind, keys, index, 1)
-----------------------------------------------------------------------------
(* HEAPSORT, for two elements and more.                                    *)

\* mutant: the last child is not looked at
RECURSIVE SiftShort(_, _, _, _, _, _)
SiftShort(kind, keys, index, idx, i, right) ==
  LET val(x) == Value(kind, keys[x])
      j == IF 2 * i < right /\ val(index[2 * i]) < val(index[2 * i + 1]) THEN 2 * i + 1 ELSE 2 * i
  IN  IF 2 * i < right /\ val(idx) < val(index[j])
        THEN SiftShort(kind, keys, [index EXCEPT ![i] = index[j]], idx, j, right)
        ELSE [index EXCEPT ![i] = idx]
\* Sift the element idx down from place i of the heap that ends at right.
RECURSIVE Sift(_, _, _, _, _, _)
Sift(kind, keys, index, idx, i, right) ==
  LET val(x) == Value(kind, keys[x])
      j == IF 2 * i < right /\ val(index[2 * i]) < val(index[2 * i + 1]) THEN 2 * i + 1 ELSE 2 * i
  IN  IF 2 * i <= right /\ val(idx) < val(index[j])
        THEN Sift(kind, keys, [index EXCEPT ![i] = index[j]], idx, j, right)
        ELSE [index EXCEPT ![i] = idx]

RECURSIVE HeapFrom(_, _, _, _, _)
HeapFrom(kind, keys, index, left, right) ==
  IF left > 1
    THEN HeapFrom(kind, keys, Sift(kind, keys, index, index[left - 1], left - 1, right), left - 1, right)
  ELSE IF right = 2
    THEN [index EXCEPT ![1] = index[2], ![2] = index[1]]
    ELSE HeapFrom(kind, keys,
           Sift(kind, keys, [index EXCEPT ![right] = index[1]], index[right], 1, right - 1), 1, right - 1)

HeapSort(kind, keys, index) == HeapFrom(kind, keys, index, Len(index) \div 2 + 1, Len(index))
-----------------------------------------------------------------------------
(* ecqsortfast and ecmerge2: keys alone, and runs of an index.             *)

\* What is equal cannot be told apart here, so any stable sort will do.
FastSort(kind, keys, irev) ==
  LET order == QuickSort(kind, keys, [i \in DOMAIN keys |-> i], irev)
  IN  [p \in DOMAIN keys |-> keys[order[p]]]

\* Two neighbouring runs merged from their ends; later is the set of the pairs
\* whose first element, of a, goes behind the second, of b.
RECURSIVE MergeEnds(_, _, _)
MergeEnds(a, b, later) ==
  IF b = <<>> THEN a
  ELSE IF a = <<>> THEN b
  ELSE IF <<Last(a), Last(b)>> \in later
    THEN Append(MergeEnds(Front(a), b, later), Last(a))
    ELSE Append(MergeEnds(a, Front(b), later), Last(b))

MergeKeys(kind, a, b, irev) ==
  IF Ahead(kind, irev, b[1], Last(a))
    THEN MergeEnds(a, b, {p \in Range(a) \X Range(b) : ~Ahead(kind, irev, p[1], p[2])})
    ELSE a \o b

\* Equal keys keep the order of their ranks.
MergeIdx(kind, keys, a, b, rank, irev) ==
  LET Later(x, y) == \/ Ahead(kind, irev, keys[y], keys[x])
                     \/ ~Ahead(kind, irev, keys[x], keys[y]) /\ rank[x] > rank[y]
  IN  IF Ahead(kind, irev, keys[b[1]], keys[Last(a)])
        THEN MergeEnds(a, b, {p \in Range(a) \X Range(b) : Later(p[1], p[2])})
        ELSE a \o b
-----------------------------------------------------------------------------
(* What the routines return.                                               *)

CallCode(known, method, n, inc) ==
  CASE method \notin known -> -1
    [] method \in known /\ n <= 0 -> IF n < 0 THEN -2 ELSE 0
    [] OTHER -> IF inc < 1 THEN -3 ELSE n

Methods == 0..5

RadixCode(method, n, inc)  == CallCode(Methods, method, n, inc)
Radix64Code(method, n, inc) == CallCode({2, 4, 5}, method, n, inc)
QuickCode(method, n, inc)  == CallCode(Methods, method, n, inc)
GnomeCode(method, n, inc)  == CallCode(Methods, method, n, inc)
FastCode(method, n)        == CallCode(Methods, method, n, 1)
MergeCode(method, n)       == CallCode(Methods, method, n, 1)
\* The counting sort looks at no stride, and at the method last.
CountingCode(method, n)    == IF n > 0 /\ method \notin Methods THEN -1 ELSE n
=============================================================================
