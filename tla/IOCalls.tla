------------------------------ MODULE IOCalls ------------------------------
(***************************************************************************)
(* The calls of the parallel input/output of SURFEX and what each of them  *)
(* gives to a task.  NPROC MPI tasks execute the same sequence of calls;   *)
(* each call moves the points of a field between NPIO, the task that owns  *)
(* the files, and the tasks that own the points.                           *)
(*                                                                         *)
(*   "scalar"  READ_SURF of a value without horizontal dimension           *)
(*   "read"    READ_AND_SEND_MPI without KDX, from task n (NPIO for a      *)
(*             READ_SURF, every KPIO in turn in TREAT_FIELD)               *)
(*   "write"   WRITE_SURF of a field: GATHER_AND_WRITE_MPI; n = 1 for the  *)
(*             first one of an output of OFFLINE, 0 for the others         *)
(*   "coverH"  READ_SURF_COV / READ_SURF_LAYERS of n columns, HDIR='H'     *)
(*   "coverA"  the same with HDIR='A' or 'E'                               *)
(*   "exchange" the exchange of counts between all tasks in TREAT_FIELD    *)
(*   "bathy"   the same exchange in TREAT_BATHYFIELD                       *)
(*                                                                         *)
(* A piece of a field is abstracted to its identity: the call it belongs   *)
(* to (op), its column (col) and the points it holds (part: those of one   *)
(* task, or Whole).                                                        *)
(***************************************************************************)
EXTENDS Integers, Sequences, FiniteSets

CONSTANTS
  NPROC,      \* number of MPI tasks
  NPIO,       \* the task that owns the files
  CallSet,    \* the calls the program may make
  MaxCalls    \* bound: number of calls of the program

Rank == 0 .. NPROC-1
Whole == NPROC
Kinds == {"scalar", "read", "write", "coverH", "coverA", "exchange", "bathy"}

ASSUME CallsAssumption ==
  /\ NPROC \in Nat \ {0}
  /\ NPIO \in Rank
  /\ CallSet \subseteq [kind : Kinds, n : Nat]
  /\ \A c \in CallSet : c.kind = "read" => c.n \in Rank
  /\ MaxCalls \in Nat

Slices == [op : Nat, col : Nat, part : 0 .. NPROC]
Zero == [op |-> 0, col |-> 0, part |-> Whole]

Slice(k, c, p) == [op |-> k, col |-> c, part |-> p]

IsExchange(call) == call.kind \in {"exchange", "bathy"}
IsCover(call) == call.kind \in {"coverH", "coverA"}

(* Number of columns read by each task, and the column of task s at pass j. *)
IPASFloor(n) == n \div NPROC   \* mutant
IPAS(n) == (n + NPROC - 1) \div NPROC
Column(n, s, j) == IPAS(n) * s + j
HasColumn(n, s, j) == Column(n, s, j) <= n

(* The columns of the array that the call fills on task r ... *)
Columns(call, r) ==
  CASE call.kind \in {"scalar", "read"} -> {1}
    [] call.kind = "write"  -> IF r = NPIO THEN Rank ELSE {}
    [] call.kind = "coverH" -> 1 .. call.n
    [] call.kind = "coverA" -> IF r = NPIO THEN 1 .. call.n ELSE {}
    [] IsExchange(call)     -> Rank

(* ... and what column c must hold when the call is the k-th one. *)
Expected(call, k, r, c) ==
  CASE call.kind = "scalar" -> Slice(k, 1, Whole)
    [] call.kind = "read"   -> Slice(k, 1, r)
    [] call.kind = "write"  -> Slice(k, 1, c)
    [] call.kind = "coverH" -> Slice(k, c, r)
    [] IsExchange(call)     -> Slice(k, c, r)
    [] call.kind = "coverA" -> Slice(k, c, Whole)

Filled(call, k, r) ==
  {[op |-> k, col |-> c, val |-> Expected(call, k, r, c)] : c \in Columns(call, r)}
=============================================================================
