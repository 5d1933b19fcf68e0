--------------------------- MODULE IndexPartition ---------------------------
(***************************************************************************)
(* INIT_INDEX_MPI on NPIO with the linear algorithm: how the points of the *)
(* grid are given to the MPI tasks, taken off the I/O task, and numbered.  *)
(* Its results NINDEX (task of a point), NNUM (number of a point in its    *)
(* task) and NSIZE_TASK are what every read and write is distributed with. *)
(***************************************************************************)
EXTENDS Integers, FiniteSets

CONSTANT
  Instances   \* grids, numbers of tasks and options

ASSUME InstancesAssumption ==
  \A i \in Instances :
    /\ i.NPROC \in Nat \ {0}
    /\ i.NIX \in Nat \ {0} /\ i.NIY \in Nat \ {0}   \* columns and rows of the grid
    /\ i.shadows \in BOOLEAN     \* LSHADOWS_SLOPE .OR. LSHADOWS_OTHER
    /\ i.topo \in BOOLEAN        \* LWRITE_TOPO
    /\ i.num \in Nat /\ i.den \in Nat \ {0} /\ i.num <= i.den   \* PIO_FRAC

NPIO == 0

VARIABLES
  inst,        \* the instance
  pc,          \* "assign", "move", "number" or "done"
  JJ,          \* next point
  IPROC1,      \* task that is given points
  CPT,         \* points it has been given
  NINDEX,      \* task of each point, -1 if none
  INBPTS,      \* points of each task
  INBMIN, IP0, \* the task that receives points from NPIO, and its points
  INB,         \* points numbered in each task
  NNUM,        \* number of each point in its task
  NSIZE_TASK   \* points of each task, as broadcast

vars == <<inst, pc, JJ, IPROC1, CPT, NINDEX, INBPTS, INBMIN, IP0, INB, NNUM, NSIZE_TASK>>

Tasks == 0 .. inst.NPROC - 1
NDIM_FULL == inst.NIX * inst.NIY
Points == 1 .. NDIM_FULL

-----------------------------------------------------------------------------
(* GET_SIZES_PARALLEL for p tasks and n points, the last to be given fewer *)
(* points counted from task kmin.                                          *)

Ceiling(a, b) == (a + b - 1) \div b
LastTasks(p, kmin, k) == {j % p : j \in kmin + p - k .. kmin + p - 1}

ISIZE_POINTS(p, n, kmin) ==
  LET size  == Ceiling(n, p)
      fewer == LastTasks(p, kmin, p * size - n)
  IN  [t \in 0 .. p - 1 |-> IF t \in fewer THEN size - 1 ELSE size]

(* mutant: the rows left over are given point by point *)
ISIZE_ROWSPoints(p, n, nix, kmin) ==
  LET more == LastTasks(p, kmin, n % p)
  IN  [t \in 0 .. p - 1 |-> (n \div p) + IF t \in more THEN 1 ELSE 0]

(* "We want only rectangular subdomains": whole rows of nix points. *)
ISIZE_ROWS(p, n, nix, kmin) ==
  LET rows == n \div nix
      more == LastTasks(p, kmin, rows % p)
  IN  [t \in 0 .. p - 1 |-> nix * (rows \div p) + IF t \in more THEN nix ELSE 0]

GET_SIZES_PARALLEL(p, n, kmin) ==
  IF inst.shadows THEN ISIZE_ROWS(p, n, inst.NIX, kmin) ELSE ISIZE_POINTS(p, n, kmin)

-----------------------------------------------------------------------------
(* SET_NB_POINTS_LIN: the points in order, to task NPROC-1 and then down   *)
(* from NPROC-2 to 0.                                                      *)

KPROCMIN == inst.NPROC - 1
ISIZE_TASK == GET_SIZES_PARALLEL(inst.NPROC, NDIM_FULL, KPROCMIN)

TaskAfter(p) ==
  IF p < KPROCMIN THEN p - 1
  ELSE IF p + 1 = inst.NPROC THEN KPROCMIN - 1 ELSE p + 1

Count(t) == Cardinality({j \in Points : NINDEX[j] = t})

Smallest(f) == CHOOSE n \in {f[t] : t \in Tasks} : \A t \in Tasks : n <= f[t]
Largest(f) == CHOOSE n \in {f[t] : t \in Tasks} : \A t \in Tasks : f[t] <= n
First(S) == CHOOSE t \in S : \A u \in S : t <= u

Init ==
  /\ inst \in Instances
  /\ pc = "assign" /\ JJ = 1
  /\ IPROC1 = KPROCMIN /\ CPT = 0
  /\ NINDEX = [j \in Points |-> -1]
  /\ INBPTS = [t \in Tasks |-> 0]
  /\ INBMIN = 0 /\ IP0 = 0
  /\ INB = [t \in Tasks |-> 0]
  /\ NNUM = [j \in Points |-> 0]
  /\ NSIZE_TASK = [t \in Tasks |-> 0]

NextTask ==
  /\ pc = "assign" /\ JJ \in Points
  /\ CPT + 1 > ISIZE_TASK[IPROC1]
  /\ IPROC1' = TaskAfter(IPROC1)
  /\ CPT' = 0
  /\ UNCHANGED <<inst, pc, JJ, NINDEX, INBPTS, INBMIN, IP0, INB, NNUM, NSIZE_TASK>>

AssignPoint ==
  /\ pc = "assign" /\ JJ \in Points
  /\ CPT + 1 <= ISIZE_TASK[IPROC1]
  /\ NINDEX' = [NINDEX EXCEPT ![JJ] = IPROC1]
  /\ CPT' = CPT + 1
  /\ JJ' = JJ + 1
  /\ UNCHANGED <<inst, pc, IPROC1, INBPTS, INBMIN, IP0, INB, NNUM, NSIZE_TASK>>

(* The points are counted; the first of the smallest tasks is to receive   *)
(* points from NPIO.                                                       *)
CountPoints ==
  /\ pc = "assign" /\ JJ = NDIM_FULL + 1
  /\ IF inst.NPROC > 1
       THEN /\ INBPTS' = [t \in Tasks |-> Count(t)]
            /\ INBMIN' = Smallest(INBPTS')
            /\ IP0' = First({t \in Tasks : INBPTS'[t] = INBMIN'})
       ELSE UNCHANGED <<INBPTS, INBMIN, IP0>>
  /\ pc' = "move" /\ JJ' = 1
  /\ UNCHANGED <<inst, IPROC1, CPT, NINDEX, INB, NNUM, NSIZE_TASK>>

-----------------------------------------------------------------------------
(* One point of NPIO at a time goes to the smallest of the other tasks,    *)
(* until NPIO has the share PIO_FRAC of it.                                *)

NINT(n, d) == (2 * n + d) \div (2 * d)
Share == NINT(inst.num * INBMIN, inst.den)
NoMoves == FALSE   \* mutant

(* mutant: NPIO is left with less than its share *)
MovesAtLeast ==
  /\ inst.NPROC > 1 /\ ~inst.shadows /\ ~inst.topo
  /\ INBPTS[NPIO] >= Share

Moves ==
  /\ inst.NPROC > 1 /\ ~inst.shadows /\ ~inst.topo
  /\ INBPTS[NPIO] > Share

(* The tasks but NPIO that have fewer points than the largest. *)
Receivers(f) == {t \in Tasks \ {NPIO} : f[t] < Largest(f)}
LeastOf(S, f) == {t \in S : \A u \in S : f[t] <= f[u]}

OfNPIO == {j \in Points : NINDEX[j] = NPIO}

MovePoint ==
  /\ pc = "move" /\ Moves
  /\ IF OfNPIO = {} THEN UNCHANGED <<NINDEX, INBPTS>>
     ELSE /\ NINDEX' = [NINDEX EXCEPT ![First(OfNPIO)] = IP0]
          /\ INBPTS' = [[INBPTS EXCEPT ![NPIO] = @ - 1] EXCEPT ![IP0] = @ + 1]
  /\ IP0' = IF Receivers(INBPTS') = {} THEN 0
            ELSE First(LeastOf(Receivers(INBPTS'), INBPTS'))
  /\ INBMIN' = IF Receivers(INBPTS') = {} THEN Largest(INBPTS') ELSE INBPTS'[IP0']
  /\ UNCHANGED <<inst, pc, JJ, IPROC1, CPT, INB, NNUM, NSIZE_TASK>>

EndMoves ==
  /\ pc = "move" /\ ~Moves
  /\ pc' = "number"
  /\ UNCHANGED <<inst, JJ, IPROC1, CPT, NINDEX, INBPTS, INBMIN, IP0, INB, NNUM, NSIZE_TASK>>

-----------------------------------------------------------------------------
(* The number of each point in its task (for the programs that ask for     *)
(* NNUM: PGD, and the others with GSPEC), and the sizes of the tasks.      *)

(* mutant: the counter is advanced after the point is numbered *)
NumberPointLate ==
  /\ pc = "number" /\ JJ \in Points
  /\ INB' = [INB EXCEPT ![NINDEX[JJ]] = @ + 1]
  /\ NNUM' = [NNUM EXCEPT ![JJ] = INB[NINDEX[JJ]]]
  /\ JJ' = JJ + 1
  /\ UNCHANGED <<inst, pc, IPROC1, CPT, NINDEX, INBPTS, INBMIN, IP0, NSIZE_TASK>>

NumberPoint ==
  /\ pc = "number" /\ JJ \in Points
  /\ INB' = [INB EXCEPT ![NINDEX[JJ]] = @ + 1]
  /\ NNUM' = [NNUM EXCEPT ![JJ] = INB'[NINDEX[JJ]]]
  /\ JJ' = JJ + 1
  /\ UNCHANGED <<inst, pc, IPROC1, CPT, NINDEX, INBPTS, INBMIN, IP0, NSIZE_TASK>>

SizeTasks ==
  /\ pc = "number" /\ JJ = NDIM_FULL + 1
  /\ NSIZE_TASK' = [t \in Tasks |-> Count(t)]
  /\ pc' = "done"
  /\ UNCHANGED <<inst, JJ, IPROC1, CPT, NINDEX, INBPTS, INBMIN, IP0, INB, NNUM>>

Done == pc = "done" /\ UNCHANGED vars

Next ==
  \/ NextTask \/ AssignPoint \/ CountPoints
  \/ MovePoint \/ EndMoves \/ NumberPoint \/ SizeTasks \/ Done

Spec == Init /\ [][Next]_vars
(* NPIO runs alone and waits for nobody. *)
FairSpec == Spec /\ WF_vars(Next)

-----------------------------------------------------------------------------
(* Type invariant: the domains of the tables of the partition. *)
TypeOK ==
  /\ inst \in Instances
  /\ pc \in {"assign", "move", "number", "done"}
  /\ JJ \in 1 .. NDIM_FULL + 1
  /\ {IPROC1, IP0} \subseteq Tasks
  /\ {CPT, INBMIN} \subseteq 0 .. NDIM_FULL
  /\ NINDEX \in [Points -> Tasks \cup {-1}]
  /\ {INBPTS, INB, NSIZE_TASK} \subseteq [Tasks -> 0 .. NDIM_FULL]
  /\ NNUM \in [Points -> 0 .. NDIM_FULL]

(* The counters by which points are moved off NPIO are those of NINDEX.    *)
CountersAgree ==
  inst.NPROC > 1 /\ pc \in {"move", "number"} => INBPTS = [t \in Tasks |-> Count(t)]

(* What READ_AND_SEND_MPI and GATHER_AND_WRITE_MPI rely on: every point    *)
(* has a task, and NNUM is its position among the points of its task in    *)
(* the order in which the field of the task is packed, within NSIZE_TASK;  *)
(* on the way there the counters agree with NINDEX.                        *)
Numbered ==
  /\ CountersAgree
  /\ pc = "done" => \A j \in Points :
       /\ NINDEX[j] \in Tasks
       /\ NNUM[j] = Cardinality({i \in 1 .. j : NINDEX[i] = NINDEX[j]})
       /\ NNUM[j] <= NSIZE_TASK[NINDEX[j]]

(* No task waits for another: without shadows and with PIO_FRAC = 1, the   *)
(* sizes differ by one point at most between the tasks but NPIO, which has *)
(* no more than any of them.                                               *)
Balanced ==
  pc = "done" /\ ~inst.shadows /\ ~inst.topo /\ inst.num = inst.den =>
    /\ \A t \in Tasks : NSIZE_TASK[NPIO] <= NSIZE_TASK[t]
    /\ \A t, u \in Tasks \ {NPIO} : NSIZE_TASK[t] <= NSIZE_TASK[u] + 1

(* "We want only rectangular subdomains": with shadows, a row of the grid  *)
(* is never split between tasks, and a task has consecutive rows.          *)
WholeRows ==
  pc = "done" /\ inst.shadows =>
    \A i, j \in Points :
      /\ (i - 1) \div inst.NIX = (j - 1) \div inst.NIX => NINDEX[i] = NINDEX[j]
      /\ i < j /\ NINDEX[i] = NINDEX[j] =>
           \A k \in i .. j : NINDEX[k] = NINDEX[i]

(* XIO_FRAC is the "fraction of ISIZE deduced to I/O": the move of points  *)
(* off the I/O task ends and gives every task its points.                  *)
PartitionEnds == <>(pc = "done")
=============================================================================
