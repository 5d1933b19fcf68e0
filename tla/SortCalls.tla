----------------------------- MODULE SortCalls -----------------------------
(* The calls of KEYSORT that are checked, with their arrays and indexes: one  *)
(* to two keys, three to five rows, every method, one to four threads.        *)
EXTENDS Integers, Sequences

CallsOf(dims, kinds, methods, columns, indexes, threads) ==
  [dim : dims, kind : kinds, method : methods, keys : columns, index : indexes, threads : threads]

Methods5 == {"radix", "heap", "quick", "counting", "gnome"}
Parted(c) == c.threads > 1 /\ c.dim = 2
MCCalls ==
  CallsOf({2}, {"int", "real"}, Methods5, {<<1, 2>>, <<2, -1>>, <<-1>>, <<0, -2>>}, {"none", "given"}, {1})
    \cup CallsOf({1}, {"int", "real"}, Methods5, {<<1>>, <<-1>>}, {"none", "init", "given"}, {1})
    \cup CallsOf({1}, {"int", "real"}, {"quick", "counting"}, {<<1>>, <<-1>>}, {"none", "init", "given"}, {2})
    \cup CallsOf({2}, {"real"}, {"quick", "counting"}, {<<2, -1>>, <<1>>}, {"none", "given"}, {2, 3, 4})
    \cup CallsOf({2}, {"real"}, {"gnome"}, {<<2, -1>>, <<1>>}, {"none", "given"}, {2})
    \cup CallsOf({2}, {"real"}, {"radix"}, {<<-1, 2>>, <<1>>}, {"none"}, {2})

\* The counting sort, which also stands in for heap and gnome sort when there
\* are several keys, is given no negative integer here.
Counted(c) == c.method = "counting" \/ (Len(c.keys) > 1 /\ c.method \in {"heap", "gnome"})

\* Words of four bits, not the least integer and not the negative zero.
Words(c) == IF c.kind = "real" THEN {0, 3, 9, 12} ELSE IF Counted(c) THEN {0, 1, 5, 6} ELSE {0, 5, 9, 15}
Second(c) == IF c.kind = "int" /\ Counted(c) THEN {3, 6} ELSE {3, 9}

MCArrays(c) ==
  CASE Parted(c) /\ c.method = "radix" -> {<<x, <<3, 9, 9, 3>>>> : x \in [1..4 -> {0, 3, 9}]}
    [] Parted(c) /\ c.method # "radix" -> {<<x, <<3, 9, 9, 3, 9>>>> : x \in [1..5 -> {0, 3, 9}]}
    [] c.dim = 2 /\ ~Parted(c) -> {<<x, y>> : x \in [1..3 -> Words(c)], y \in [1..3 -> Second(c)]}
    [] c.dim = 1 -> {<<x>> : x \in [1..4 -> Words(c)]} \cup (IF c.method = "heap" THEN {} ELSE {<<<<>>>>})

MCStarts(k) == {[i \in 1..k |-> k + 1 - i], [i \in 1..k |-> IF i = k THEN 1 ELSE i + 1]}
=============================================================================
