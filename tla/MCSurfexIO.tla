----------------------------- MODULE MCSurfexIO -----------------------------
(***************************************************************************)
(* Instances of SurfexIO.  The columns of a cover read are chosen so that  *)
(* the last task that reads has fewer of them than the others.             *)
(***************************************************************************)
EXTENDS SurfexIO

(* The calls of PREP, OFFLINE and SODA, where only NPIO has NINDEX. *)
RunCalls == { [kind |-> "scalar", n |-> 0],
              [kind |-> "read",   n |-> NPIO],
              [kind |-> "write",  n |-> 0],
              [kind |-> "write",  n |-> 1],
              [kind |-> "coverH", n |-> NPROC + 1],
              [kind |-> "coverA", n |-> NPROC + 1] }

(* The calls of PGD, where every task has NINDEX. *)
PgdCalls == { [kind |-> "exchange", n |-> 0],
              [kind |-> "read",     n |-> NPIO],
              [kind |-> "read",     n |-> NPROC - 1],
              [kind |-> "write",    n |-> 0],
              [kind |-> "coverH",   n |-> NPROC + 1] }

(* TREAT_BATHYFIELD, alone and among all the other calls. *)
BathyCalls == { [kind |-> "bathy", n |-> 0] }
AllCalls == RunCalls \cup PgdCalls \cup BathyCalls
=============================================================================
