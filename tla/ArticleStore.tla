---------------------------- MODULE ArticleStore ----------------------------
(***************************************************************************)
(* What an LFI file promises its user: a table of named articles.  A call  *)
(* changes the article it names and no other; a rename moves the contents; *)
(* nothing else, closing and opening again included, changes the table.    *)
(* A process that dies while it owns a file it has modified may leave it   *)
(* damaged, and then the file says so and nothing more is promised.        *)
(***************************************************************************)
EXTENDS Naturals, Sequences

CONSTANTS Names,    \* names an article may have
          Absent,   \* "no such article"
          Contents  \* what an article may hold: not Absent

VARIABLES store,    \* contents of each article, or Absent
          sound     \* FALSE once the file is damaged

Empty == [n \in Names |-> Absent]

Init == store = Empty /\ sound = TRUE

Write(n) ==
  /\ sound
  /\ \E c \in Contents : store' = [store EXCEPT ![n] = c]
  /\ UNCHANGED sound

Suppress(n) ==
  /\ sound
  /\ store[n] # Absent
  /\ store' = [store EXCEPT ![n] = Absent]
  /\ UNCHANGED sound

Rename(m, n) ==
  /\ sound
  /\ store[m] # Absent
  /\ store[n] = Absent
  /\ store' = [store EXCEPT ![n] = store[m], ![m] = Absent]
  /\ UNCHANGED sound

Damage ==
  /\ sound
  /\ sound' = FALSE
  /\ store' = Empty

Next ==
  \/ \E n \in Names : Write(n) \/ Suppress(n)
  \/ \E m, n \in Names : Rename(m, n)
  \/ Damage

Spec == Init /\ [][Next]_<<store, sound>>
=============================================================================
