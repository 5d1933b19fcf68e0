------------------------------ MODULE MCLfiFile ------------------------------
(***************************************************************************)
(* Instances of LfiFile for TLC, and the refinement of ArticleStore.  The  *)
(* table a reader would see is kept in a variable, for TLC to compute it   *)
(* once in each state.                                                     *)
(***************************************************************************)
EXTENDS LfiFile, TLC

VARIABLE table

MCInit == Init /\ table = Table(fh, disk, pend)
MCNext == Next /\ \E f \in {fh'}, d \in {disk'}, q \in {pend'} : table' = Table(f, d, q)
MCSpec == MCInit /\ [][MCNext]_<<vars, table>>

Store == INSTANCE ArticleStore
  WITH store <- table, sound <- Sound, Absent <- Nothing,
       Contents <- {<<len, IF len = 0 THEN {} ELSE {id}>> : len \in 0 .. 3, id \in 1 .. 5}

\* The file is the table of articles it promises to be: every call changes
\* the article it names and no other, whatever holes are filled and however
\* the index grows, and a process that dies leaves the table as it was before
\* or after a change of one article, or a file that says it was not closed.
Refinement == Store!Spec

Sizes(names, section, extra, lens) ==
  [CallNames |-> names, Section |-> section, Page |-> 8, Extra |-> extra, Lens |-> lens,
   MaxWrites |-> 4, MaxOpens |-> 1, MaxCrashes |-> 0]

\* Holes are made, split, filled and extended; the index grows, its new
\* sections put between the articles, which are written again; the process
\* dies and opens again.
Holes(names)  == Sizes(names, 3, 0, {1, 3})
Grows         == [Sizes(Names, 1, 2, {1, 3}) EXCEPT !.MaxWrites = 3]
Rewrites      == [Sizes(Names, 1, 2, {2}) EXCEPT !.MaxWrites = 5]
Deaths(names) == [Sizes(names, 3, 0, {-1, 2}) EXCEPT !.MaxWrites = 2, !.MaxOpens = 3, !.MaxCrashes = 2]
Two           == {names \in SUBSET Names : Cardinality(names) = 2}
MCInstances   == {Holes(names) : names \in Two} \cup {Grows, Rewrites} \cup {Deaths(names) : names \in Two}

Symmetry == Permutations(Names)
=============================================================================
