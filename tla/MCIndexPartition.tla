-------------------------- MODULE MCIndexPartition --------------------------
(***************************************************************************)
(* Instances of IndexPartition: one to four tasks and grids of 1 to 12     *)
(* points, fewer points than tasks and points left over included.          *)
(***************************************************************************)
EXTENDS IndexPartition

Instance(p, nix, niy, sh, topo, num, den) ==
  [NPROC |-> p, NIX |-> nix, NIY |-> niy, shadows |-> sh, topo |-> topo,
   num |-> num, den |-> den]

AllOfIt == {Instance(p, x, y, sh, tp, 1, 1) :
              p \in 1 .. 4, x \in 1 .. 3, y \in 1 .. 4, sh \in BOOLEAN, tp \in BOOLEAN}

(* PIO_FRAC of one half. *)
Half == {Instance(p, x, y, FALSE, FALSE, 1, 2) : p \in 2 .. 4, x \in 1 .. 3, y \in 1 .. 4}
=============================================================================
