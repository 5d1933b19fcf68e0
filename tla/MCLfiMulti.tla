----------------------------- MODULE MCLfiMulti -----------------------------
(***************************************************************************)
(* Instances of LfiMulti for TLC, and the refinement of ArticleStore by    *)
(* the main file A.  What is read in each main file, and the values the    *)
(* articles of A have had since it was opened, are kept in variables.      *)
(***************************************************************************)
EXTENDS LfiMulti, TLC

CONSTANTS A,    \* the main file whose articles are followed
          B, T  \* others

VARIABLES tables, seen

Tables(f, s, n) == [m \in Mains |-> TableOf(f, s, n, m)]
MCInit == Init /\ tables = Tables(fh, fs, ino) /\ seen = [n \in Names |-> {tables[A][n]}]
MCNext ==
  /\ Next
  /\ \E f \in {fh'}, s \in {fs'}, n \in {ino'} : tables' = Tables(f, s, n)
  /\ seen' = IF MaxCrashes = 0 THEN seen
             ELSE [n \in Names |-> ({tables'[A][n]} \ {Unreadable}) \cup IF fh.open /\ fh.m = A THEN seen[n] ELSE {}]
MCSpec == MCInit /\ [][MCNext]_<<vars, tables, seen>>

Store == INSTANCE ArticleStore
  WITH store <- tables[A], sound <- TRUE, Absent <- Nothing,
       Contents <- {<<len, id>> : len \in Lens \cap Nat, id \in 1 .. 3}

\* A program that uses A sees the table of articles of an LFI file, and
\* nothing that is done to other main files, copies of A with hard links to
\* its sub-files included, changes it, until a process dies.
Refinement == [][count'.crashes = 0 => Store!Next]_<<tables[A]>>

\* A copy reads as its source, and an index or a merge as its sources, the
\* first of them that has an article giving it (lfi_altm_copy_,
\* lfi_altm_merge_, remove_duplicates).
Overlaid(t1, t2) == [n \in Names |-> IF t1[n] # Nothing THEN t1[n] ELSE t2[n]]
ToolResult ==
  [][\E c \in {ret'.call} :
       CASE c = <<>> -> TRUE
         [] c # <<>> /\ c[1] = "copy" -> tables'[c[3]] = tables[c[2]]
         [] c # <<>> /\ c[1] \in {"merge", "index"} -> tables'[c[4]] = Overlaid(tables[c[2]], tables[c[3]])
         [] OTHER -> TRUE]_<<vars, tables, seen>>

\* When a process dies, each article of A reads as one of the values it has had
\* since A was opened or cannot be read; unless the main file itself cannot
\* be read, those that were not touched are as they were.
OldOrNew ==
  [][count'.crashes > count.crashes =>
       \A n \in Names : \/ tables'[A][n] \in seen[n]
                        \/ tables'[A][n] = Unreadable /\ (Cardinality(seen[n]) > 1 \/ ino'[fs'[Main(A)]] = Torn)]_<<vars, tables, seen>>

\* LFISUP returns the length of the article it suppresses.
SuppressedLength ==
  [][ret'.call # <<>> /\ ret'.call[1] = "LFISUP" /\ ret'.krep = 0 /\ ~ret'.aborts =>
       ret'.len = tables[fh.m][ret'.call[2]][1]]_<<vars, tables, seen>>

Does(opened, natives, targets, tools) ==
  [Opened |-> opened, Natives |-> natives, Targets |-> targets, Tools |-> tools, MaxArtAls |-> 1, MaxWrites |-> 1,
   MaxRenames |-> 0, MaxOpens |-> 2, MaxTools |-> 1, MaxCrashes |-> 0]
\* A copy is made or removed, and either file written; two files are merged,
\* and the first or the new one written; two are indexed, and either written (a
\* program that writes to the index removes the files it is made of); the
\* process dies.
Copied   == [Does({A, B}, {A}, {B}, {"copy", "remove"}) EXCEPT !.MaxWrites = 2]
Merged   == Does({A, T}, {A, B}, {T}, {"merge"})
Indexed  == Does({A, B}, {A, B}, {T}, {"index"})
Deaths   == [Does({A}, {}, {}, {}) EXCEPT !.MaxArtAls = 2, !.MaxWrites = 3, !.MaxRenames = 1, !.MaxOpens = 3, !.MaxCrashes = 1]
MCInstances == {Copied, Merged, Indexed, Deaths}
Symmetry == Permutations(Names)
\* The hypothesis of the theorems of LfiMulti_proof.
ASSUME OrdinaryUse
=============================================================================
