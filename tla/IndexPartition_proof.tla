------------------------ MODULE IndexPartition_proof ------------------------
(***************************************************************************)
(* Proof that INIT_INDEX_MPI gives every point of the grid a task and its  *)
(* number in it (Numbered), and whole rows to each task when it is asked   *)
(* to (WholeRows), for any grid and any number of tasks.  The points are   *)
(* given out in order, and those a task is given lie between two numbers   *)
(* known beforehand (Before), the last of which is the end of the grid.    *)
(***************************************************************************)
EXTENDS IndexPartition, FiniteSetTheorems, WellFoundedInduction, TLAPS

-----------------------------------------------------------------------------
(* Arithmetic. *)

LEMMA LeastNatural ==
  ASSUME NEW S \in SUBSET Nat, S # {}
  PROVE  \E x \in S : \A y \in S : x <= y
<1> DEFINE R == OpToRel(<, Nat)
<1>1. IsWellFoundedOn(R, Nat)
  BY NatLessThanWellFounded
<1>2. \A x, y \in Nat : x < y => <<x, y>> \in R
  BY DEF OpToRel
<1> HIDE DEF R
<1>3. PICK x \in S : \A y \in S : ~ (<<y, x>> \in R)
  BY <1>1, WFMin
<1>4. ASSUME NEW y \in S PROVE x <= y
  <2>1. x \in Nat /\ y \in Nat /\ ~(y < x)
    BY <1>2, <1>3
  <2> QED
    BY <2>1
<1> QED
  BY <1>4

LEMMA Remainder ==
  ASSUME NEW p \in Nat \ {0}, NEW j \in p .. 2 * p - 1
  PROVE  j % p = j - p
  BY SMT

LEMMA CeilingType ==
  ASSUME NEW n \in Nat \ {0}, NEW p \in Nat \ {0}
  PROVE  Ceiling(n, p) \in Nat \ {0} /\ p * Ceiling(n, p) - n \in 0 .. p - 1
  BY SMT DEF Ceiling

LEMMA Division ==
  ASSUME NEW n \in Nat, NEW p \in Nat \ {0}
  PROVE  n \div p \in Nat /\ n % p \in 0 .. p - 1 /\ n = p * (n \div p) + (n % p)
  BY SMT

LEMMA RowsOfGrid ==
  ASSUME NEW x \in Nat \ {0}, NEW y \in Nat
  PROVE  (x * y) \div x = y
  BY SMT

(* The k tasks before the last one. *)
LEMMA LastTasksAre ==
  ASSUME NEW p \in Nat \ {0}, NEW k \in 0 .. p - 1
  PROVE  LastTasks(p, p - 1, k) = p - 1 - k .. p - 2
<1>1. \A j \in p .. 2 * p - 1 : j % p = j - p
  BY Remainder
<1>2. (p - 1) + p - k .. (p - 1) + p - 1 \subseteq p .. 2 * p - 1
  OBVIOUS
<1>3. ASSUME NEW t \in p - 1 - k .. p - 2 PROVE t \in LastTasks(p, p - 1, k)
  <2>1. t + p \in (p - 1) + p - k .. (p - 1) + p - 1 /\ (t + p) - p = t
    OBVIOUS
  <2> QED
    BY <1>1, <1>2, <2>1 DEF LastTasks
<1>4. ASSUME NEW t \in LastTasks(p, p - 1, k) PROVE t \in p - 1 - k .. p - 2
  <2>1. PICK j \in (p - 1) + p - k .. (p - 1) + p - 1 : t = j % p
    BY DEF LastTasks
  <2> QED
    BY <1>1, <1>2, <2>1
<1> QED
  BY <1>3, <1>4

-----------------------------------------------------------------------------
(* How many points are given out before those of task q: each task gets a, *)
(* and k of them, after the first, d more.                                 *)

Extras(p, k, q) == IF q = p - 1 THEN 0 ELSE IF p - 2 - q < k THEN p - 2 - q ELSE k
Above(a, d, p, k, q) == a * (p - 1 - q) + d * Extras(p, k, q)

LEMMA AboveType ==
  ASSUME NEW a \in Int, NEW d \in Int, NEW p \in Nat \ {0}, NEW k \in Nat, NEW q \in Int
  PROVE  Above(a, d, p, k, q) \in Int
<1>1. Extras(p, k, q) \in Int
  BY DEF Extras
<1>2. a * (p - 1 - q) \in Int /\ d * Extras(p, k, q) \in Int
  BY <1>1, SMT
<1> QED
  BY <1>2 DEF Above

LEMMA AboveEnds ==
  ASSUME NEW a \in Int, NEW d \in Int, NEW p \in Nat \ {0}, NEW k \in 0 .. p - 1
  PROVE  /\ Above(a, d, p, k, p - 1) = 0
         /\ Above(a, d, p, k, -1) = a * p + d * k
<1>1. Extras(p, k, p - 1) = 0 /\ Extras(p, k, -1) = k
  BY DEF Extras
<1>2. a * ((p - 1) - (p - 1)) = 0 /\ d * 0 = 0
  OBVIOUS
<1>3. (p - 1) - (-1) = p
  OBVIOUS
<1> QED
  BY <1>1, <1>2, <1>3 DEF Above

LEMMA AboveStep ==
  ASSUME NEW a \in Int, NEW d \in Int, NEW p \in Nat \ {0}, NEW k \in 0 .. p - 1,
         NEW q \in 0 .. p - 1
  PROVE  Above(a, d, p, k, q - 1)
           = Above(a, d, p, k, q) + (IF q \in p - 1 - k .. p - 2 THEN a + d ELSE a)
<1>1. a * (p - 1 - (q - 1)) = a * (p - 1 - q) + a
  BY SMT
<1>2. /\ Extras(p, k, q) \in Int
      /\ Extras(p, k, q - 1)
           = Extras(p, k, q) + (IF q \in p - 1 - k .. p - 2 THEN 1 ELSE 0)
  BY DEF Extras
<1>3. \A e \in Int : d * (e + 1) = d * e + d /\ d * (e + 0) = d * e /\ d * e \in Int
  BY SMT
<1>4. a * (p - 1 - q) \in Int
  BY SMT
<1> QED
  BY <1>1, <1>2, <1>3, <1>4 DEF Above

(* The sizes of INIT_INDEX_MPI are of this form. *)
Points0(i) == i.NIX * i.NIY
Size0(i) == IF i.shadows THEN i.NIX * (i.NIY \div i.NPROC) ELSE Ceiling(Points0(i), i.NPROC)
More(i) == IF i.shadows THEN i.NIX ELSE -1
WithMore(i) == IF i.shadows THEN i.NIY % i.NPROC
               ELSE i.NPROC * Ceiling(Points0(i), i.NPROC) - Points0(i)

Before(i, q) == Above(Size0(i), More(i), i.NPROC, WithMore(i), q)

LEMMA InstanceType ==
  ASSUME inst \in Instances
  PROVE  /\ inst.NPROC \in Nat \ {0} /\ inst.NIX \in Nat \ {0} /\ inst.NIY \in Nat \ {0}
         /\ inst.shadows \in BOOLEAN
         /\ NDIM_FULL \in Nat \ {0} /\ NDIM_FULL = Points0(inst)
         /\ Tasks = 0 .. inst.NPROC - 1 /\ Points = 1 .. NDIM_FULL /\ NPIO \in Tasks
  BY InstancesAssumption, SMT DEF NDIM_FULL, Points0, Tasks, Points, NPIO

LEMMA SizesType ==
  ASSUME inst \in Instances
  PROVE  /\ Size0(inst) \in Nat /\ More(inst) \in Int
         /\ WithMore(inst) \in 0 .. inst.NPROC - 1
         /\ Size0(inst) + More(inst) \in Nat
         /\ Size0(inst) * inst.NPROC + More(inst) * WithMore(inst) = NDIM_FULL
         /\ \A q \in Tasks :
              ISIZE_TASK[q] = IF q \in inst.NPROC - 1 - WithMore(inst) .. inst.NPROC - 2
                                THEN Size0(inst) + More(inst) ELSE Size0(inst)
<1>0. PICK p \in Nat \ {0}, x \in Nat \ {0}, y \in Nat \ {0}, n \in Nat \ {0} :
        p = inst.NPROC /\ x = inst.NIX /\ y = inst.NIY /\ n = NDIM_FULL
  BY InstanceType
<1>1. n = Points0(inst) /\ n = x * y /\ Tasks = 0 .. p - 1 /\ inst.shadows \in BOOLEAN
  BY <1>0, InstanceType DEF Points0
<1>2. CASE inst.shadows
  <2>1. PICK a \in Nat, k \in 0 .. p - 1 : /\ a = y \div p /\ k = y % p
                                           /\ y = p * a + k
    BY Division
  <2>2. Size0(inst) = x * a /\ More(inst) = x /\ WithMore(inst) = k
    BY <1>0, <1>2, <2>1 DEF Size0, More, WithMore
  <2>3. x * a \in Nat /\ x * a + x \in Nat
    BY SMT
  <2>4. (x * a) * p + x * k = x * y
    BY <2>1, SMT
  <2>5. ISIZE_TASK = [t \in 0 .. p - 1 |-> x * a + IF t \in LastTasks(p, p - 1, k) THEN x ELSE 0]
    <3>1. n \div x = y
      BY <1>1, RowsOfGrid
    <3> QED
      BY <1>0, <1>2, <2>1, <3>1 DEF ISIZE_TASK, GET_SIZES_PARALLEL, ISIZE_ROWS, KPROCMIN
  <2>6. LastTasks(p, p - 1, k) = p - 1 - k .. p - 2
    BY LastTasksAre
  <2>7. \A q \in Tasks : ISIZE_TASK[q] = IF q \in p - 1 - k .. p - 2 THEN x * a + x ELSE x * a
    BY <1>1, <2>5, <2>6
  <2>8. Size0(inst) \in Nat /\ More(inst) \in Int /\ Size0(inst) + More(inst) \in Nat
    BY <2>2, <2>3
  <2>9. Size0(inst) * inst.NPROC + More(inst) * WithMore(inst) = NDIM_FULL
    BY <1>0, <1>1, <2>2, <2>4
  <2>10. WithMore(inst) \in 0 .. inst.NPROC - 1
    BY <1>0, <2>2
  <2>11. \A q \in Tasks :
            ISIZE_TASK[q] = IF q \in inst.NPROC - 1 - WithMore(inst) .. inst.NPROC - 2
                              THEN Size0(inst) + More(inst) ELSE Size0(inst)
    BY <1>0, <2>7, <2>2
  <2> QED
    BY <2>8, <2>9, <2>10, <2>11
<1>3. CASE ~inst.shadows
  <2>1. PICK a \in Nat \ {0} : a = Ceiling(n, p)
    BY CeilingType
  <2>2. PICK k \in 0 .. p - 1 : k = p * a - n
    BY <2>1, CeilingType
  <2>3. Size0(inst) = a /\ More(inst) = -1 /\ WithMore(inst) = k
    BY <1>0, <1>1, <1>3, <2>1, <2>2 DEF Size0, More, WithMore
  <2>4. a * p + (-1) * k = n
    BY <2>2, SMT
  <2>5. ISIZE_TASK = [t \in 0 .. p - 1 |-> IF t \in LastTasks(p, p - 1, k) THEN a - 1 ELSE a]
    BY <1>0, <1>3, <2>1, <2>2 DEF ISIZE_TASK, GET_SIZES_PARALLEL, ISIZE_POINTS, KPROCMIN
  <2>6. LastTasks(p, p - 1, k) = p - 1 - k .. p - 2
    BY LastTasksAre
  <2>7. \A q \in Tasks : ISIZE_TASK[q] = IF q \in p - 1 - k .. p - 2 THEN a - 1 ELSE a
    BY <1>1, <2>5, <2>6
  <2>8. Size0(inst) \in Nat /\ More(inst) \in Int /\ Size0(inst) + More(inst) \in Nat
    BY <2>3
  <2>9. Size0(inst) * inst.NPROC + More(inst) * WithMore(inst) = NDIM_FULL
    BY <1>0, <1>1, <2>3, <2>4
  <2>10. WithMore(inst) \in 0 .. inst.NPROC - 1
    BY <1>0, <2>3
  <2>11. \A q \in Tasks :
            ISIZE_TASK[q] = IF q \in inst.NPROC - 1 - WithMore(inst) .. inst.NPROC - 2
                              THEN Size0(inst) + More(inst) ELSE Size0(inst)
    BY <1>0, <2>7, <2>3
  <2> QED
    BY <2>8, <2>9, <2>10, <2>11
<1> QED
  BY <1>1, <1>2, <1>3

(* The points of task q begin after Before(inst, q) and end where those of *)
(* the next task begin; the last task to be served ends the grid.          *)
LEMMA BeforeSteps ==
  ASSUME inst \in Instances
  PROVE  /\ Before(inst, inst.NPROC - 1) = 0
         /\ Before(inst, -1) = NDIM_FULL
         /\ \A q \in Tasks : /\ ISIZE_TASK[q] \in Nat
                             /\ Before(inst, q) \in Int
                             /\ Before(inst, q - 1) = Before(inst, q) + ISIZE_TASK[q]
<1>0. inst.NPROC \in Nat \ {0} /\ Tasks = 0 .. inst.NPROC - 1
  BY InstanceType
<1>1. /\ Size0(inst) \in Nat /\ More(inst) \in Int
      /\ WithMore(inst) \in 0 .. inst.NPROC - 1
      /\ Size0(inst) + More(inst) \in Nat
      /\ Size0(inst) * inst.NPROC + More(inst) * WithMore(inst) = NDIM_FULL
      /\ \A q \in Tasks :
           ISIZE_TASK[q] = IF q \in inst.NPROC - 1 - WithMore(inst) .. inst.NPROC - 2
                             THEN Size0(inst) + More(inst) ELSE Size0(inst)
  BY SizesType
<1>2. /\ Before(inst, inst.NPROC - 1) = 0
      /\ Before(inst, -1) = NDIM_FULL
      /\ \A q \in Tasks : /\ Before(inst, q) \in Int
                          /\ Before(inst, q - 1) = Before(inst, q)
                               + (IF q \in inst.NPROC - 1 - WithMore(inst) .. inst.NPROC - 2
                                    THEN Size0(inst) + More(inst) ELSE Size0(inst))
  <2> DEFINE a == Size0(inst)
             d == More(inst)
             p == inst.NPROC
             k == WithMore(inst)
  <2>1. /\ a \in Int /\ d \in Int /\ p \in Nat \ {0} /\ k \in 0 .. p - 1 /\ k \in Nat
        /\ a * p + d * k = NDIM_FULL /\ Tasks = 0 .. p - 1
    BY <1>0, <1>1
  <2>2. \A q : Before(inst, q) = Above(a, d, p, k, q)
    BY DEF Before
  <2> HIDE DEF a, d, p, k
  <2>3. \A q \in 0 .. p - 1 : Above(a, d, p, k, q) \in Int
    BY <2>1, AboveType
  <2>4. Above(a, d, p, k, p - 1) = 0 /\ Above(a, d, p, k, -1) = NDIM_FULL
    BY <2>1, AboveEnds
  <2>6. ASSUME NEW q \in 0 .. p - 1
        PROVE  Above(a, d, p, k, q - 1)
                 = Above(a, d, p, k, q) + (IF q \in p - 1 - k .. p - 2 THEN a + d ELSE a)
    BY <2>1, AboveStep
  <2>5. /\ Before(inst, p - 1) = 0 /\ Before(inst, -1) = NDIM_FULL
        /\ \A q \in Tasks : /\ Before(inst, q) \in Int
                            /\ Before(inst, q - 1) = Before(inst, q)
                                 + (IF q \in p - 1 - k .. p - 2 THEN a + d ELSE a)
    BY <2>1, <2>2, <2>3, <2>4, <2>6
  <2> QED
    BY <2>5 DEF a, d, p, k
<1> QED
  BY <1>1, <1>2

-----------------------------------------------------------------------------
(* The invariant. *)

TablesOK ==
  /\ inst \in Instances
  /\ pc \in {"assign", "move", "number", "done"}
  /\ JJ \in 1 .. NDIM_FULL + 1
  /\ IPROC1 \in Tasks /\ IP0 \in Tasks /\ CPT \in Nat
  /\ NINDEX \in [Points -> Tasks \cup {-1}]
  /\ INBPTS \in [Tasks -> Int]
  /\ INB \in [Tasks -> Nat]
  /\ NNUM \in [Points -> Nat]
  /\ NSIZE_TASK \in [Tasks -> Nat]

(* Point j lies between the bounds of the task it was given to. *)
Within(j) ==
  /\ NINDEX[j] \in Tasks
  /\ Before(inst, NINDEX[j]) < j
  /\ j <= Before(inst, NINDEX[j] - 1)

(* While the points are given out, those before JJ are; the task being     *)
(* served has CPT of its own.                                              *)
Assigning ==
  pc = "assign" =>
    /\ JJ - 1 = Before(inst, IPROC1) + CPT
    /\ JJ - 1 <= Before(inst, IPROC1 - 1)
    /\ \A j \in 1 .. JJ - 1 : Within(j)

Assigned ==
  pc # "assign" => \A j \in Points : NINDEX[j] \in Tasks /\ (inst.shadows => Within(j))

(* The points of task t among the first j. *)
Upto(t, j) == {i \in 1 .. j : NINDEX[i] = t}

NumberedSoFar ==
  /\ pc \in {"assign", "move"} => INB = [t \in Tasks |-> 0]
  /\ pc = "move" => JJ = 1
  /\ pc \in {"number", "done"} =>
       /\ \A t \in Tasks : INB[t] = Cardinality(Upto(t, JJ - 1))
       /\ \A j \in 1 .. JJ - 1 : NNUM[j] = Cardinality(Upto(NINDEX[j], j))
  /\ pc = "done" =>
       JJ = NDIM_FULL + 1 /\ NSIZE_TASK = [t \in Tasks |-> Count(t)]

PartitionInv == TablesOK /\ Assigning /\ Assigned /\ CountersAgree /\ NumberedSoFar

(* The sets that are counted are finite. *)
LEMMA Counted ==
  ASSUME TablesOK, NEW t
  PROVE  /\ Count(t) \in Nat
         /\ \A j \in 0 .. NDIM_FULL : /\ IsFiniteSet(Upto(t, j))
                                      /\ Cardinality(Upto(t, j)) \in Nat
                                      /\ Cardinality(Upto(t, j)) <= Count(t)
<1>1. NDIM_FULL \in Nat \ {0} /\ Points = 1 .. NDIM_FULL
  BY InstanceType DEF TablesOK
<1>2. IsFiniteSet(Points)
  BY <1>1, FS_Interval
<1> DEFINE S == {j \in Points : NINDEX[j] = t}
<1>3. S \subseteq Points
  OBVIOUS
<1> HIDE DEF S
<1>4. IsFiniteSet(S) /\ Cardinality(S) \in Nat
  BY <1>2, <1>3, FS_Subset, FS_CardinalityType
<1>5. Count(t) = Cardinality(S)
  BY DEF Count, S
<1>6. ASSUME NEW j \in 0 .. NDIM_FULL
      PROVE  /\ IsFiniteSet(Upto(t, j))
             /\ Cardinality(Upto(t, j)) \in Nat
             /\ Cardinality(Upto(t, j)) <= Count(t)
  <2>1. Upto(t, j) \subseteq S
    BY <1>1 DEF Upto, S
  <2>2. IsFiniteSet(Upto(t, j)) /\ Cardinality(Upto(t, j)) <= Cardinality(S)
    BY <1>4, <2>1, FS_Subset
  <2> QED
    BY <1>5, <2>2, FS_CardinalityType
<1> QED
  BY <1>4, <1>5, <1>6

(* The least task of a set, and the least or largest number of points. *)
LEMMA FirstIn ==
  ASSUME NEW S \in SUBSET Nat, S # {}
  PROVE  First(S) \in S
  BY LeastNatural DEF First

(* The task that is to receive a point exists. *)
LEMMA ReceiverIn ==
  ASSUME inst \in Instances, NEW f \in [Tasks -> Nat], Receivers(f) # {}
  PROVE  First(LeastOf(Receivers(f), f)) \in Tasks
<1> DEFINE S == Receivers(f)
           V == {f[t] : t \in S}
<1>1. S \subseteq Tasks /\ Tasks \subseteq Nat /\ S # {}
  BY InstanceType DEF Receivers
<1>2. V \subseteq Nat /\ V # {}
  BY <1>1
<1>3. PICK m \in V : \A n \in V : m <= n
  BY <1>2, LeastNatural
<1>4. PICK t \in S : \A u \in S : f[t] <= f[u]
  BY <1>3
<1> HIDE DEF S
<1>5. LeastOf(S, f) # {} /\ LeastOf(S, f) \subseteq Tasks
  BY <1>1, <1>4 DEF LeastOf
<1>6. First(LeastOf(S, f)) \in LeastOf(S, f)
  BY <1>1, <1>5, FirstIn
<1> QED
  BY <1>5, <1>6 DEF S

OfTask(P, f, t) == {j \in P : f[j] = t}

GoesTo(P, f, g, i, q) ==
  i \in P /\ f[i] # q /\ g[i] = q /\ \A j \in P \ {i} : g[j] = f[j]

(* A point that changes task changes the number of points of two tasks. *)
LEMMA MovedCounts ==
  ASSUME NEW P, IsFiniteSet(P), NEW f, NEW g, NEW i, NEW q, GoesTo(P, f, g, i, q), NEW t
  PROVE  /\ Cardinality(OfTask(P, f, t)) \in Nat /\ Cardinality(OfTask(P, g, t)) \in Nat
         /\ t = q => Cardinality(OfTask(P, g, t)) = Cardinality(OfTask(P, f, t)) + 1
         /\ t = f[i] => Cardinality(OfTask(P, g, t)) = Cardinality(OfTask(P, f, t)) - 1
         /\ t # q /\ t # f[i] => Cardinality(OfTask(P, g, t)) = Cardinality(OfTask(P, f, t))
<1> DEFINE A == OfTask(P, f, t)
           B == OfTask(P, g, t)
<1>1. A \subseteq P /\ B \subseteq P
  BY DEF OfTask, GoesTo
<1>2. /\ t = q => i \notin A /\ B = A \cup {i}
      /\ t = f[i] => i \in A /\ B = A \ {i}
      /\ t # q /\ t # f[i] => B = A
  BY DEF OfTask, GoesTo
<1> HIDE DEF A, B
<1>3. IsFiniteSet(A) /\ Cardinality(A) \in Nat /\ Cardinality(B) \in Nat
  BY <1>1, FS_Subset, FS_CardinalityType
<1>4. /\ t = q => Cardinality(B) = Cardinality(A) + 1
      /\ t = f[i] => Cardinality(B) = Cardinality(A) - 1
      /\ t # q /\ t # f[i] => Cardinality(B) = Cardinality(A)
  BY <1>2, <1>3, FS_AddElement, FS_RemoveElement
<1> QED
  BY <1>3, <1>4 DEF A, B

LEMMA InitPartition == Init => PartitionInv
<1> SUFFICES ASSUME Init PROVE PartitionInv
  OBVIOUS
<1> USE DEF Init
<1>0. inst \in Instances /\ pc = "assign"
  OBVIOUS
<1>1. /\ inst.NPROC \in Nat \ {0} /\ NDIM_FULL \in Nat \ {0}
      /\ Tasks = 0 .. inst.NPROC - 1 /\ Points = 1 .. NDIM_FULL
  BY <1>0, InstanceType
<1>2. TablesOK
  BY <1>1 DEF TablesOK, KPROCMIN
<1>3. Assigning
  <2>1. KPROCMIN \in Tasks /\ KPROCMIN = inst.NPROC - 1
    BY <1>1 DEF KPROCMIN
  <2>2. Before(inst, KPROCMIN) = 0 /\ Before(inst, KPROCMIN - 1) = 0 + ISIZE_TASK[KPROCMIN]
    BY <1>0, <2>1, BeforeSteps
  <2>3. ISIZE_TASK[KPROCMIN] \in Nat
    BY <1>0, <2>1, BeforeSteps
  <2> QED
    BY <2>2, <2>3 DEF Assigning
<1> QED
  BY <1>2, <1>3 DEF PartitionInv, Assigned, CountersAgree, NumberedSoFar

LEMMA NextTaskStep ==
  ASSUME PartitionInv, NextTask
  PROVE  PartitionInv'
<1> USE DEF PartitionInv
<1>1. /\ pc = "assign" /\ JJ \in Points /\ CPT + 1 > ISIZE_TASK[IPROC1]
      /\ IPROC1' = TaskAfter(IPROC1) /\ CPT' = 0
      /\ UNCHANGED <<inst, pc, JJ, NINDEX, INBPTS, IP0, INB, NNUM, NSIZE_TASK>>
  BY DEF NextTask
<1>2. /\ inst.NPROC \in Nat \ {0} /\ NDIM_FULL \in Nat \ {0}
      /\ Tasks = 0 .. inst.NPROC - 1 /\ Points = 1 .. NDIM_FULL
  BY InstanceType DEF TablesOK
<1>3. /\ IPROC1 \in Tasks /\ CPT \in Nat /\ JJ \in Nat
      /\ JJ - 1 = Before(inst, IPROC1) + CPT /\ JJ - 1 <= Before(inst, IPROC1 - 1)
  BY <1>1 DEF TablesOK, Assigning
<1>4. /\ ISIZE_TASK[IPROC1] \in Nat /\ Before(inst, IPROC1) \in Int
      /\ Before(inst, IPROC1 - 1) = Before(inst, IPROC1) + ISIZE_TASK[IPROC1]
  BY <1>3, BeforeSteps DEF TablesOK
<1>5. JJ - 1 = Before(inst, IPROC1 - 1)
  BY <1>1, <1>3, <1>4
<1>6. IPROC1 # 0
  <2> SUFFICES ASSUME IPROC1 = 0 PROVE FALSE
    OBVIOUS
  <2>1. JJ - 1 = NDIM_FULL
    BY <1>5, BeforeSteps DEF TablesOK
  <2> QED
    BY <1>1, <1>2, <2>1
<1>7. IPROC1' = IPROC1 - 1 /\ IPROC1 - 1 \in Tasks
  BY <1>1, <1>2, <1>3, <1>6 DEF TaskAfter, KPROCMIN
<1>8. /\ Before(inst, IPROC1 - 1) \in Int /\ ISIZE_TASK[IPROC1 - 1] \in Nat
      /\ Before(inst, (IPROC1 - 1) - 1) = Before(inst, IPROC1 - 1) + ISIZE_TASK[IPROC1 - 1]
  BY <1>7, BeforeSteps DEF TablesOK
<1>9. Tasks' = Tasks /\ Points' = Points /\ NDIM_FULL' = NDIM_FULL
  BY <1>1 DEF Tasks, Points, NDIM_FULL
<1>10. TablesOK'
  BY <1>1, <1>7, <1>9 DEF TablesOK
<1>11. Assigning'
  <2>1. JJ' - 1 = Before(inst', IPROC1') + CPT' /\ JJ' - 1 <= Before(inst', IPROC1' - 1)
    BY <1>1, <1>5, <1>7, <1>8
  <2>2. \A j \in 1 .. JJ' - 1 : Within(j)'
    BY <1>1, <1>9 DEF Assigning, Within
  <2> QED
    BY <2>1, <2>2 DEF Assigning
<1>12. Assigned' /\ CountersAgree' /\ NumberedSoFar'
  BY <1>1, <1>9 DEF Assigned, CountersAgree, NumberedSoFar
<1> QED
  BY <1>10, <1>11, <1>12

LEMMA AssignPointStep ==
  ASSUME PartitionInv, AssignPoint
  PROVE  PartitionInv'
<1> USE DEF PartitionInv
<1>1. /\ pc = "assign" /\ JJ \in Points /\ CPT + 1 <= ISIZE_TASK[IPROC1]
      /\ NINDEX' = [NINDEX EXCEPT ![JJ] = IPROC1] /\ CPT' = CPT + 1 /\ JJ' = JJ + 1
      /\ UNCHANGED <<inst, pc, IPROC1, INBPTS, IP0, INB, NNUM, NSIZE_TASK>>
  BY DEF AssignPoint
<1>2. NDIM_FULL \in Nat \ {0} /\ Points = 1 .. NDIM_FULL
  BY InstanceType DEF TablesOK
<1>3. /\ IPROC1 \in Tasks /\ CPT \in Nat
      /\ JJ - 1 = Before(inst, IPROC1) + CPT /\ JJ - 1 <= Before(inst, IPROC1 - 1)
      /\ \A j \in 1 .. JJ - 1 : Within(j)
  BY <1>1 DEF TablesOK, Assigning
<1>4. /\ ISIZE_TASK[IPROC1] \in Nat /\ Before(inst, IPROC1) \in Int
      /\ Before(inst, IPROC1 - 1) = Before(inst, IPROC1) + ISIZE_TASK[IPROC1]
  BY <1>3, BeforeSteps DEF TablesOK
<1>5. Tasks' = Tasks /\ Points' = Points /\ NDIM_FULL' = NDIM_FULL
  BY <1>1 DEF Tasks, Points, NDIM_FULL
<1>6. NINDEX'[JJ] = IPROC1 /\ \A j \in Points \ {JJ} : NINDEX'[j] = NINDEX[j]
  BY <1>1, <1>2, <1>3 DEF TablesOK
<1>7. TablesOK'
  <2>1. JJ' \in 1 .. NDIM_FULL' + 1
    BY <1>1, <1>2, <1>5
  <2>2. CPT' \in Nat
    BY <1>1, <1>3
  <2>3. NINDEX' \in [Points' -> Tasks' \cup {-1}]
    BY <1>1, <1>3, <1>5 DEF TablesOK
  <2>4. /\ inst' \in Instances /\ IPROC1' \in Tasks' /\ IP0' \in Tasks'
        /\ pc' \in {"assign", "move", "number", "done"}
        /\ INBPTS' \in [Tasks' -> Int] /\ INB' \in [Tasks' -> Nat]
        /\ NNUM' \in [Points' -> Nat] /\ NSIZE_TASK' \in [Tasks' -> Nat]
    BY <1>1, <1>5 DEF TablesOK
  <2> QED
    BY <2>1, <2>2, <2>3, <2>4 DEF TablesOK
<1>8. Assigning'
  <2>1. JJ' - 1 = Before(inst', IPROC1') + CPT' /\ JJ' - 1 <= Before(inst', IPROC1' - 1)
    BY <1>1, <1>2, <1>3, <1>4
  <2>2. ASSUME NEW j \in 1 .. JJ' - 1 PROVE Within(j)'
    <3>1. CASE j = JJ
      <4>1. Before(inst, IPROC1) < JJ /\ JJ <= Before(inst, IPROC1 - 1)
        BY <1>1, <1>2, <1>3, <1>4
      <4> QED
        BY <1>1, <1>3, <1>5, <1>6, <3>1, <4>1 DEF Within
    <3>2. CASE j \in 1 .. JJ - 1
      <4>1. NINDEX'[j] = NINDEX[j] /\ Within(j)
        BY <1>1, <1>2, <1>3, <1>6, <3>2
      <4> QED
        BY <1>1, <1>5, <4>1 DEF Within
    <3> QED
      BY <1>1, <1>2, <3>1, <3>2
  <2> QED
    BY <2>1, <2>2 DEF Assigning
<1>9. Assigned' /\ CountersAgree' /\ NumberedSoFar'
  BY <1>1, <1>5 DEF Assigned, CountersAgree, NumberedSoFar
<1> QED
  BY <1>7, <1>8, <1>9

(* The first task that receives a point is one of the smallest. *)
LEMMA ReceiverFound ==
  ASSUME PartitionInv, CountPoints, inst.NPROC > 1
  PROVE  /\ INBPTS' = [t \in Tasks |-> Count(t)]
         /\ INBMIN' \in {INBPTS'[t] : t \in Tasks}
         /\ \A t \in Tasks : INBMIN' <= INBPTS'[t]
         /\ IP0' \in Tasks /\ INBPTS'[IP0'] = INBMIN'
<1>1. /\ inst.NPROC \in Nat \ {0} /\ NPIO \in Tasks /\ Tasks = 0 .. inst.NPROC - 1
  BY InstanceType DEF PartitionInv, TablesOK
<1>2. \A t : Count(t) \in Nat
  BY Counted DEF PartitionInv
<1>3. /\ INBPTS' = [t \in Tasks |-> Count(t)]
      /\ INBMIN' = Smallest(INBPTS')
      /\ IP0' = First({t \in Tasks : INBPTS'[t] = INBMIN'})
  BY DEF CountPoints
<1>4. /\ INBMIN' \in {INBPTS'[t] : t \in Tasks}
      /\ \A t \in Tasks : INBMIN' <= INBPTS'[t]
  <2> DEFINE V == {INBPTS'[t] : t \in Tasks}
  <2>1. V \subseteq Nat /\ V # {}
    BY <1>1, <1>2, <1>3
  <2>2. INBMIN' = CHOOSE n \in V : \A t \in Tasks : n <= INBPTS'[t]
    BY <1>3 DEF Smallest
  <2>3. \E n \in V : \A m \in V : n <= m
    BY <2>1, LeastNatural
  <2>4. \E n \in V : \A t \in Tasks : n <= INBPTS'[t]
    BY <2>3
  <2>5. INBMIN' \in V /\ \A t \in Tasks : INBMIN' <= INBPTS'[t]
    <3> HIDE DEF V
    <3> QED
      BY <2>2, <2>4
  <2> QED
    BY <2>5
<1>5. IP0' \in {t \in Tasks : INBPTS'[t] = INBMIN'}
  <2> DEFINE S == {t \in Tasks : INBPTS'[t] = INBMIN'}
  <2>1. S \subseteq Tasks /\ S # {}
    BY <1>4
  <2>2. IP0' = First(S)
    BY <1>3
  <2> HIDE DEF S
  <2>3. S \subseteq Nat
    BY <1>1, <2>1
  <2>4. IP0' \in S
    BY <2>1, <2>2, <2>3, FirstIn
  <2> QED
    BY <2>4 DEF S
<1> QED
  BY <1>3, <1>4, <1>5

LEMMA CountPointsStep ==
  ASSUME PartitionInv, CountPoints
  PROVE  PartitionInv'
<1> USE DEF PartitionInv
<1>1. /\ pc = "assign" /\ JJ = NDIM_FULL + 1 /\ pc' = "move" /\ JJ' = 1
      /\ UNCHANGED <<inst, IPROC1, CPT, NINDEX, INB, NNUM, NSIZE_TASK>>
  BY DEF CountPoints
<1>2. /\ inst.NPROC \in Nat \ {0} /\ NDIM_FULL \in Nat \ {0} /\ NPIO \in Tasks
      /\ Tasks = 0 .. inst.NPROC - 1 /\ Points = 1 .. NDIM_FULL
  BY InstanceType DEF TablesOK
<1>3. /\ Tasks' = Tasks /\ Points' = Points /\ NDIM_FULL' = NDIM_FULL
      /\ \A t : Count(t)' = Count(t)
  BY <1>1 DEF Tasks, Points, NDIM_FULL, Count
<1>4. \A t : Count(t) \in Nat
  BY Counted
<1>5. /\ INBPTS' \in [Tasks -> Int] /\ IP0' \in Tasks
      /\ inst.NPROC > 1 => INBPTS' = [t \in Tasks |-> Count(t)]
  <2>1. CASE inst.NPROC > 1
    BY <1>4, <2>1, ReceiverFound
  <2>2. CASE ~(inst.NPROC > 1)
    BY <2>2 DEF CountPoints, TablesOK
  <2> QED
    BY <2>1, <2>2
<1>6. TablesOK'
  <2>1. JJ' \in 1 .. NDIM_FULL' + 1 /\ pc' \in {"assign", "move", "number", "done"}
    BY <1>1, <1>2, <1>3
  <2>2. inst' \in Instances /\ IPROC1' \in Tasks' /\ CPT' \in Nat
    BY <1>1, <1>3 DEF TablesOK
  <2>3. /\ NINDEX' \in [Points' -> Tasks' \cup {-1}] /\ INB' \in [Tasks' -> Nat]
        /\ NNUM' \in [Points' -> Nat] /\ NSIZE_TASK' \in [Tasks' -> Nat]
    BY <1>1, <1>3 DEF TablesOK
  <2>4. IP0' \in Tasks' /\ INBPTS' \in [Tasks' -> Int]
    BY <1>3, <1>5
  <2> QED
    BY <2>1, <2>2, <2>3, <2>4 DEF TablesOK
<1>7. Assigned'
  <2>1. \A j \in Points : Within(j)
    BY <1>1, <1>2 DEF Assigning
  <2> QED
    BY <1>1, <1>3, <2>1 DEF Assigned, Within
<1>8. Assigning' /\ NumberedSoFar'
  BY <1>1, <1>3 DEF Assigning, NumberedSoFar
<1>9. CountersAgree'
  BY <1>1, <1>3, <1>5 DEF CountersAgree
<1> QED
  BY <1>6, <1>7, <1>8, <1>9

LEMMA MovePointStep ==
  ASSUME PartitionInv, MovePoint
  PROVE  PartitionInv'
<1> USE DEF PartitionInv
<1>1. /\ pc = "move" /\ inst.NPROC > 1 /\ ~inst.shadows
      /\ IF OfNPIO = {} THEN UNCHANGED <<NINDEX, INBPTS>>
         ELSE /\ NINDEX' = [NINDEX EXCEPT ![First(OfNPIO)] = IP0]
              /\ INBPTS' = [[INBPTS EXCEPT ![NPIO] = @ - 1] EXCEPT ![IP0] = @ + 1]
      /\ IP0' = IF Receivers(INBPTS') = {} THEN 0
                ELSE First(LeastOf(Receivers(INBPTS'), INBPTS'))
      /\ UNCHANGED <<inst, pc, JJ, IPROC1, CPT, INB, NNUM, NSIZE_TASK>>
  BY DEF MovePoint, Moves
<1>2. /\ inst \in Instances /\ inst.NPROC \in Nat \ {0} /\ NDIM_FULL \in Nat \ {0}
      /\ NPIO \in Tasks /\ 0 \in Tasks /\ NPIO = 0
      /\ Tasks = 0 .. inst.NPROC - 1 /\ Points = 1 .. NDIM_FULL
  BY InstanceType DEF TablesOK, NPIO
<1>3. Tasks' = Tasks /\ Points' = Points /\ NDIM_FULL' = NDIM_FULL
  BY <1>1 DEF Tasks, Points, NDIM_FULL
<1>4. INBPTS = [t \in Tasks |-> Count(t)] /\ \A t : Count(t) \in Nat
  BY <1>1, Counted DEF CountersAgree
<1>5. /\ NINDEX' \in [Points -> Tasks \cup {-1}]
      /\ \A j \in Points : NINDEX'[j] \in Tasks
      /\ INBPTS' = [t \in Tasks |-> Count(t)']
      /\ \A t \in Tasks : Count(t)' \in Nat
  <2>1. CASE OfNPIO = {}
    <3>1. \A t : Count(t)' = Count(t)
      BY <1>1, <1>3, <2>1 DEF Count
    <3> QED
      BY <1>1, <1>4, <2>1, <3>1 DEF TablesOK, Assigned
  <2>2. CASE OfNPIO # {}
    <3>1. OfNPIO \subseteq Nat
      BY <1>2 DEF OfNPIO
    <3>2. PICK i \in Points : i = First(OfNPIO) /\ NINDEX[i] = NPIO
      <4>1. First(OfNPIO) \in OfNPIO
        BY <2>2, <3>1, FirstIn
      <4> QED
        BY <4>1 DEF OfNPIO
    <3>3. PICK q \in Tasks : q = IP0
      BY DEF TablesOK
    <3>4. /\ NINDEX' = [NINDEX EXCEPT ![i] = q]
          /\ INBPTS' = [[INBPTS EXCEPT ![NPIO] = @ - 1] EXCEPT ![q] = @ + 1]
          /\ NINDEX \in [Points -> Tasks \cup {-1}] /\ INBPTS \in [Tasks -> Int]
          /\ \A j \in Points : NINDEX[j] \in Tasks
      BY <1>1, <2>2, <3>2, <3>3 DEF TablesOK, Assigned
    <3>5. /\ NINDEX' \in [Points -> Tasks \cup {-1}]
          /\ \A j \in Points : NINDEX'[j] = IF j = i THEN q ELSE NINDEX[j]
      BY <3>4
    <3>6. /\ INBPTS' \in [Tasks -> Int]
          /\ \A t \in Tasks : INBPTS'[t] = INBPTS[t]
               + (IF NPIO = q THEN 0 ELSE IF t = q THEN 1 ELSE IF t = NPIO THEN -1 ELSE 0)
      <4>1. PICK n \in Tasks : n = NPIO
        BY <1>2
      <4>2. INBPTS' = [[INBPTS EXCEPT ![n] = @ - 1] EXCEPT ![q] = @ + 1]
        BY <3>4, <4>1
      <4>3. /\ INBPTS' \in [Tasks -> Int]
            /\ \A t \in Tasks : INBPTS'[t] = INBPTS[t]
                 + (IF n = q THEN 0 ELSE IF t = q THEN 1 ELSE IF t = n THEN -1 ELSE 0)
        BY <3>4, <4>2
      <4> QED
        BY <4>1, <4>3
    <3>7. CASE q = NPIO
      <4>1. \A j \in Points : NINDEX'[j] = NINDEX[j]
        BY <3>2, <3>5, <3>7
      <4>2. \A t : Count(t)' = Count(t)
        BY <1>3, <4>1 DEF Count
      <4>3. \A t \in Tasks : INBPTS'[t] = Count(t)' /\ Count(t)' \in Nat
        BY <1>4, <3>6, <3>7, <4>2
      <4>4. INBPTS' = [t \in Tasks |-> Count(t)']
        BY <3>6, <4>3
      <4>5. \A j \in Points : NINDEX'[j] \in Tasks
        BY <3>4, <4>1
      <4> QED
        BY <3>5, <4>3, <4>4, <4>5
    <3>8. CASE q # NPIO
      <4>1. ASSUME NEW t \in Tasks
            PROVE  /\ Count(t)' = Count(t) + (IF t = q THEN 1 ELSE IF t = NPIO THEN -1 ELSE 0)
                   /\ Count(t)' \in Nat
        <5>1. IsFiniteSet(Points)
          BY <1>2, FS_Interval
        <5>2. NINDEX[i] # q
          BY <3>2, <3>8
        <5>3. /\ Count(t) = Cardinality(OfTask(Points, NINDEX, t))
              /\ Count(t)' = Cardinality(OfTask(Points, NINDEX', t))
          BY <1>3 DEF Count, OfTask
        <5> DEFINE P == Points
                   f == NINDEX
                   g == NINDEX'
        <5>4. GoesTo(P, f, g, i, q)
          BY <3>5, <5>2 DEF GoesTo
        <5>5. IsFiniteSet(P)
          BY <5>1
        <5>6. /\ Count(t) = Cardinality(OfTask(P, f, t))
              /\ Count(t)' = Cardinality(OfTask(P, g, t)) /\ f[i] = NPIO
          BY <3>2, <5>3
        <5> HIDE DEF P, f, g
        <5>7. /\ Cardinality(OfTask(P, f, t)) \in Nat /\ Cardinality(OfTask(P, g, t)) \in Nat
              /\ t = q => Cardinality(OfTask(P, g, t)) = Cardinality(OfTask(P, f, t)) + 1
              /\ t = f[i] => Cardinality(OfTask(P, g, t)) = Cardinality(OfTask(P, f, t)) - 1
              /\ t # q /\ t # f[i] =>
                   Cardinality(OfTask(P, g, t)) = Cardinality(OfTask(P, f, t))
          BY <5>4, <5>5, MovedCounts
        <5> QED
          BY <3>8, <5>6, <5>7
      <4>2. \A t \in Tasks : INBPTS'[t] = Count(t)'
        BY <1>4, <3>6, <3>8, <4>1
      <4>3. INBPTS' = [t \in Tasks |-> Count(t)']
        BY <3>6, <4>2
      <4>4. \A j \in Points : NINDEX'[j] \in Tasks
        BY <3>4, <3>5
      <4> QED
        BY <3>5, <4>1, <4>3, <4>4
    <3> QED
      BY <3>7, <3>8
  <2> QED
    BY <2>1, <2>2
<1>6. IP0' \in Tasks /\ INBPTS' \in [Tasks -> Int]
  <2>1. INBPTS' \in [Tasks -> Nat]
    BY <1>5
  <2>2. Receivers(INBPTS') # {} => First(LeastOf(Receivers(INBPTS'), INBPTS')) \in Tasks
    BY <1>2, <2>1, ReceiverIn
  <2> QED
    BY <1>1, <1>2, <2>1, <2>2
<1>7. TablesOK'
  <2>1. /\ inst' \in Instances /\ IPROC1' \in Tasks' /\ CPT' \in Nat
        /\ JJ' \in 1 .. NDIM_FULL' + 1 /\ pc' \in {"assign", "move", "number", "done"}
        /\ INB' \in [Tasks' -> Nat] /\ NNUM' \in [Points' -> Nat]
        /\ NSIZE_TASK' \in [Tasks' -> Nat]
    BY <1>1, <1>3 DEF TablesOK
  <2> QED
    BY <1>3, <1>5, <1>6, <2>1 DEF TablesOK
<1>8. Assigned'
  BY <1>1, <1>3, <1>5 DEF Assigned
<1>9. CountersAgree'
  BY <1>3, <1>5 DEF CountersAgree
<1>10. Assigning' /\ NumberedSoFar'
  BY <1>1, <1>3 DEF Assigning, NumberedSoFar
<1> QED
  BY <1>7, <1>8, <1>9, <1>10

LEMMA EndMovesStep ==
  ASSUME PartitionInv, EndMoves
  PROVE  PartitionInv'
<1> USE DEF PartitionInv
<1>1. /\ pc = "move" /\ pc' = "number" /\ JJ = 1 /\ INB = [t \in Tasks |-> 0]
      /\ UNCHANGED <<inst, JJ, IPROC1, CPT, NINDEX, INBPTS, IP0, INB, NNUM, NSIZE_TASK>>
  BY DEF EndMoves, NumberedSoFar
<1>2. /\ Tasks' = Tasks /\ Points' = Points /\ NDIM_FULL' = NDIM_FULL
      /\ \A t : Count(t)' = Count(t)
  BY <1>1 DEF Tasks, Points, NDIM_FULL, Count
<1>3. TablesOK'
  BY <1>1, <1>2 DEF TablesOK
<1>4. Assigning' /\ Assigned' /\ CountersAgree'
  BY <1>1, <1>2 DEF Assigning, Assigned, CountersAgree, Within
<1>5. NumberedSoFar'
  <2>1. 1 .. JJ' - 1 = {}
    BY <1>1
  <2>2. \A t : Upto(t, JJ - 1)' = {}
    BY <2>1 DEF Upto
  <2>3. \A t : Cardinality(Upto(t, JJ - 1)') = 0
    BY <2>2, FS_EmptySet
  <2>4. \A t \in Tasks' : INB'[t] = Cardinality(Upto(t, JJ - 1)')
    BY <1>1, <1>2, <2>3
  <2>5. \A j \in 1 .. JJ' - 1 : NNUM'[j] = Cardinality(Upto(NINDEX[j], j)')
    BY <2>1
  <2> QED
    BY <1>1, <2>4, <2>5 DEF NumberedSoFar
<1> QED
  BY <1>3, <1>4, <1>5

LEMMA NumberPointStep ==
  ASSUME PartitionInv, NumberPoint
  PROVE  PartitionInv'
<1> USE DEF PartitionInv
<1>1. /\ pc = "number" /\ JJ \in Points
      /\ INB' = [INB EXCEPT ![NINDEX[JJ]] = @ + 1]
      /\ NNUM' = [NNUM EXCEPT ![JJ] = INB'[NINDEX[JJ]]]
      /\ JJ' = JJ + 1
      /\ UNCHANGED <<inst, pc, IPROC1, CPT, NINDEX, INBPTS, IP0, NSIZE_TASK>>
  BY DEF NumberPoint
<1>2. NDIM_FULL \in Nat \ {0} /\ Points = 1 .. NDIM_FULL
  BY InstanceType DEF TablesOK
<1>3. /\ Tasks' = Tasks /\ Points' = Points /\ NDIM_FULL' = NDIM_FULL
      /\ \A t : Count(t)' = Count(t)
      /\ \A t, j : Upto(t, j)' = Upto(t, j)
  BY <1>1 DEF Tasks, Points, NDIM_FULL, Count, Upto
<1>4. PICK q \in Tasks : q = NINDEX[JJ]
  BY <1>1 DEF Assigned
<1>5. /\ INB \in [Tasks -> Nat] /\ NNUM \in [Points -> Nat]
      /\ \A t \in Tasks : INB[t] = Cardinality(Upto(t, JJ - 1))
      /\ \A j \in 1 .. JJ - 1 : NNUM[j] = Cardinality(Upto(NINDEX[j], j))
  BY <1>1 DEF TablesOK, NumberedSoFar
<1>6. /\ INB' \in [Tasks -> Nat]
      /\ \A t \in Tasks : INB'[t] = IF t = q THEN INB[t] + 1 ELSE INB[t]
  BY <1>1, <1>4, <1>5
<1>7. /\ NNUM' \in [Points -> Nat] /\ NNUM'[JJ] = INB'[q]
      /\ \A j \in Points \ {JJ} : NNUM'[j] = NNUM[j]
  BY <1>1, <1>4, <1>5, <1>6
<1>8. ASSUME NEW t \in Tasks
      PROVE  INB'[t] = Cardinality(Upto(t, JJ))
  <2>1. IsFiniteSet(Upto(t, JJ - 1)) /\ Cardinality(Upto(t, JJ - 1)) \in Nat
    <3>1. JJ - 1 \in 0 .. NDIM_FULL
      BY <1>1, <1>2
    <3> QED
      BY <3>1, Counted
  <2>2. CASE t = q
    <3>1. Upto(t, JJ) = Upto(t, JJ - 1) \cup {JJ} /\ JJ \notin Upto(t, JJ - 1)
      BY <1>1, <1>2, <1>4, <2>2 DEF Upto
    <3> QED
      BY <1>5, <1>6, <2>1, <2>2, <3>1, FS_AddElement
  <2>3. CASE t # q
    <3>1. Upto(t, JJ) = Upto(t, JJ - 1)
      BY <1>1, <1>2, <1>4, <2>3 DEF Upto
    <3> QED
      BY <1>5, <1>6, <2>3, <3>1
  <2> QED
    BY <2>2, <2>3
<1>9. TablesOK'
  <2>1. JJ' \in 1 .. NDIM_FULL' + 1
    BY <1>1, <1>2, <1>3
  <2> QED
    BY <1>1, <1>3, <1>6, <1>7, <2>1 DEF TablesOK
<1>10. Assigning' /\ Assigned' /\ CountersAgree'
  BY <1>1, <1>3 DEF Assigning, Assigned, CountersAgree, Within
<1>11. NumberedSoFar'
  <2>1. JJ' - 1 = JJ
    BY <1>1, <1>2
  <2>2. ASSUME NEW j \in 1 .. JJ
        PROVE  NNUM'[j] = Cardinality(Upto(NINDEX[j], j))
    <3>1. CASE j = JJ
      BY <1>4, <1>7, <1>8, <3>1
    <3>2. CASE j # JJ
      <4>1. j \in 1 .. JJ - 1 /\ j \in Points \ {JJ}
        BY <1>1, <1>2, <3>2
      <4> QED
        BY <1>5, <1>7, <4>1
    <3> QED
      BY <3>1, <3>2
  <2>3. \A t \in Tasks' : INB'[t] = Cardinality(Upto(t, JJ - 1)')
    <3>1. \A t : Upto(t, JJ - 1)' = Upto(t, JJ)
      BY <1>1, <2>1 DEF Upto
    <3> QED
      BY <1>3, <1>8, <3>1
  <2>4. \A j \in 1 .. JJ' - 1 : NNUM'[j] = Cardinality(Upto(NINDEX[j], j)')
    <3>1. \A j : Upto(NINDEX[j], j)' = Upto(NINDEX[j], j)
      BY <1>1 DEF Upto
    <3> QED
      BY <2>1, <2>2, <3>1
  <2> QED
    BY <1>1, <2>3, <2>4 DEF NumberedSoFar
<1> QED
  BY <1>9, <1>10, <1>11

LEMMA SizeTasksStep ==
  ASSUME PartitionInv, SizeTasks
  PROVE  PartitionInv'
<1> USE DEF PartitionInv
<1>1. /\ pc = "number" /\ JJ = NDIM_FULL + 1 /\ pc' = "done"
      /\ NSIZE_TASK' = [t \in Tasks |-> Count(t)]
      /\ UNCHANGED <<inst, JJ, IPROC1, CPT, NINDEX, INBPTS, IP0, INB, NNUM>>
  BY DEF SizeTasks
<1>2. /\ Tasks' = Tasks /\ Points' = Points /\ NDIM_FULL' = NDIM_FULL
      /\ \A t : Count(t)' = Count(t)
      /\ \A t \in Tasks : Count(t) \in Nat
  BY <1>1, Counted DEF Tasks, Points, NDIM_FULL, Count
<1>3. TablesOK'
  BY <1>1, <1>2 DEF TablesOK
<1>4. Assigning' /\ Assigned' /\ CountersAgree'
  BY <1>1, <1>2 DEF Assigning, Assigned, CountersAgree, Within
<1>5. NumberedSoFar'
  <2>1. /\ \A t \in Tasks : INB[t] = Cardinality(Upto(t, JJ - 1))
        /\ \A j \in 1 .. JJ - 1 : NNUM[j] = Cardinality(Upto(NINDEX[j], j))
    BY <1>1 DEF NumberedSoFar
  <2>2. /\ \A t \in Tasks' : INB'[t] = Cardinality(Upto(t, JJ - 1)')
        /\ \A j \in 1 .. JJ' - 1 : NNUM'[j] = Cardinality(Upto(NINDEX[j], j)')
    BY <1>1, <1>2, <2>1 DEF Upto
  <2>3. JJ' = NDIM_FULL' + 1 /\ NSIZE_TASK' = [t \in Tasks' |-> Count(t)']
    BY <1>1, <1>2
  <2> QED
    BY <1>1, <2>2, <2>3 DEF NumberedSoFar
<1> QED
  BY <1>3, <1>4, <1>5

LEMMA NextPartition == PartitionInv /\ [Next]_vars => PartitionInv'
<1> SUFFICES ASSUME PartitionInv, [Next]_vars PROVE PartitionInv'
  OBVIOUS
<1>1. CASE UNCHANGED vars
  BY <1>1 DEF vars, PartitionInv, TablesOK, Assigning, Assigned, CountersAgree, NumberedSoFar,
              Within, Upto, Count, Tasks, Points, NDIM_FULL
<1> QED
  BY <1>1, NextTaskStep, AssignPointStep, CountPointsStep, MovePointStep, EndMovesStep,
     NumberPointStep, SizeTasksStep DEF Next, Done

(* NumberedHolds: every point has a task and, in it, its number among the  *)
(* points of that task, within the size of the task, and the counters by   *)
(* which INIT_INDEX_MPI moves points off NPIO are those of NINDEX.         *)
THEOREM NumberedHolds == Spec => []Numbered
<1>1. PartitionInv => Numbered
  <2> SUFFICES ASSUME PartitionInv PROVE Numbered
    OBVIOUS
  <2> USE DEF PartitionInv
  <2>1. NDIM_FULL \in Nat \ {0} /\ Points = 1 .. NDIM_FULL
    BY InstanceType DEF TablesOK
  <2>2. ASSUME pc = "done", NEW j \in Points
        PROVE  /\ NINDEX[j] \in Tasks
               /\ NNUM[j] = Cardinality({i \in 1 .. j : NINDEX[i] = NINDEX[j]})
               /\ NNUM[j] <= NSIZE_TASK[NINDEX[j]]
    <3>1. NINDEX[j] \in Tasks /\ j \in 1 .. JJ - 1 /\ j \in 0 .. NDIM_FULL
      BY <2>1, <2>2 DEF Assigned, NumberedSoFar
    <3>2. NNUM[j] = Cardinality(Upto(NINDEX[j], j))
      BY <2>2, <3>1 DEF NumberedSoFar
    <3>3. Cardinality(Upto(NINDEX[j], j)) <= Count(NINDEX[j])
      BY <3>1, Counted
    <3>4. NSIZE_TASK[NINDEX[j]] = Count(NINDEX[j])
      BY <2>2, <3>1 DEF NumberedSoFar
    <3> QED
      BY <3>1, <3>2, <3>3, <3>4 DEF Upto
  <2> QED
    BY <2>2 DEF Numbered
<1> QED
  BY <1>1, InitPartition, NextPartition, PTL DEF Spec

-----------------------------------------------------------------------------
(* The bounds between the tasks are whole rows, and come in the order of   *)
(* the tasks.                                                              *)
LEMMA BoundsAreRows ==
  ASSUME inst \in Instances, inst.shadows, NEW q \in -1 .. inst.NPROC - 1
  PROVE  \E c \in Int : Before(inst, q) = inst.NIX * c
<1>0. PICK p \in Nat \ {0}, x \in Nat \ {0}, y \in Nat \ {0} :
        p = inst.NPROC /\ x = inst.NIX /\ y = inst.NIY
  BY InstanceType
<1>1. PICK a \in Nat, k \in 0 .. p - 1 : a = y \div p /\ k = y % p
  BY Division
<1>2. Before(inst, q) = (x * a) * (p - 1 - q) + x * Extras(p, k, q)
  BY <1>0, <1>1 DEF Before, Above, Size0, More, WithMore
<1>3. PICK e \in Int : e = Extras(p, k, q)
  BY <1>0 DEF Extras
<1>4. PICK u \in Int : u = p - 1 - q
  BY <1>0
<1>5. (x * a) * u + x * e = x * (a * u + e) /\ a * u + e \in Int
  BY SMT
<1> QED
  BY <1>0, <1>2, <1>3, <1>4, <1>5

LEMMA RowInBounds ==
  ASSUME NEW x \in Nat \ {0}, NEW c \in Int, NEW d \in Int, NEW i \in Nat \ {0},
         NEW j \in Nat \ {0}, (i - 1) \div x = (j - 1) \div x,
         x * c < i, i <= x * d
  PROVE  x * c < j /\ j <= x * d
<1>1. PICK r \in Int : r = (i - 1) \div x
  BY SMT
<1>2. x * r <= i - 1 /\ i - 1 < x * r + x /\ x * r <= j - 1 /\ j - 1 < x * r + x
  BY <1>1, SMT
<1>3. x * r + x = x * (r + 1)
  BY SMT
<1>4. x * c <= i - 1 /\ x * c < x * (r + 1)
  BY <1>2, <1>3, SMT
<1>5. c < r + 1
  BY <1>4, SMT
<1>6. x * r < x * d
  BY <1>2, SMT
<1>7. r < d
  BY <1>6, SMT
<1>8. x * c <= x * r /\ x * (r + 1) <= x * d
  BY <1>5, <1>7, SMT
<1> QED
  BY <1>2, <1>3, <1>8, SMT

LEMMA BoundsInOrder ==
  ASSUME inst \in Instances,
         NEW q \in -1 .. inst.NPROC - 1, NEW r \in -1 .. inst.NPROC - 1, q <= r
  PROVE  Before(inst, q) \in Int /\ Before(inst, r) \in Int /\ Before(inst, r) <= Before(inst, q)
<1>0. PICK p \in Nat \ {0}, x \in Nat \ {0}, y \in Nat \ {0} :
        p = inst.NPROC /\ x = inst.NIX /\ y = inst.NIY
  BY InstanceType
<1>4. PICK u \in Int, v \in Int : u = p - 1 - q /\ v = p - 1 - r /\ v <= u
  BY <1>0
<1>1. CASE inst.shadows
  <2>1. PICK a \in Nat, k \in 0 .. p - 1 : a = y \div p /\ k = y % p
    BY Division
  <2>2. /\ Before(inst, q) = (x * a) * (p - 1 - q) + x * Extras(p, k, q)
        /\ Before(inst, r) = (x * a) * (p - 1 - r) + x * Extras(p, k, r)
    BY <1>0, <1>1, <2>1 DEF Before, Above, Size0, More, WithMore
  <2>3. PICK e \in Int, f \in Int : e = Extras(p, k, q) /\ f = Extras(p, k, r) /\ f <= e
    BY <1>0 DEF Extras
  <2>5. PICK b \in Nat : b = x * a
    BY SMT
  <2>6. b * v <= b * u /\ b * v \in Int /\ b * u \in Int
    BY <1>4, SMT
  <2>7. x * f <= x * e /\ x * f \in Int /\ x * e \in Int
    BY <2>3, SMT
  <2> QED
    BY <2>2, <2>3, <1>4, <2>5, <2>6, <2>7
<1>2. CASE ~inst.shadows
  <2>1. PICK a \in Nat \ {0}, k \in 0 .. p - 1 : a = Size0(inst) /\ k = WithMore(inst)
    <3>1. Points0(inst) \in Nat \ {0}
      BY InstanceType
    <3> QED
      BY <1>0, <1>2, <3>1, CeilingType DEF Size0, WithMore
  <2>2. /\ Before(inst, q) = a * (p - 1 - q) + (-1) * Extras(p, k, q)
        /\ Before(inst, r) = a * (p - 1 - r) + (-1) * Extras(p, k, r)
    <3>1. More(inst) = -1
      BY <1>2 DEF More
    <3>2. \A t : Before(inst, t) = Above(a, -1, p, k, t)
      BY <1>0, <2>1, <3>1 DEF Before
    <3> QED
      BY <3>2 DEF Above
  <2>3. PICK e \in Int, f \in Int : e = Extras(p, k, q) /\ f = Extras(p, k, r) /\ e - f <= u - v
    <3>1. q \in Int /\ r \in Int /\ q <= r /\ r <= p - 1
      BY <1>0
    <3>2. Extras(p, k, q) \in Int /\ Extras(p, k, r) \in Int
      BY <3>1 DEF Extras
    <3>3. Extras(p, k, q) - Extras(p, k, r) <= r - q
      BY <3>1 DEF Extras
    <3> QED
      BY <1>4, <3>1, <3>2, <3>3
  <2>4. a * u \in Int /\ a * v \in Int /\ u - v <= a * u - a * v
    <3>1. (a - 1) * v <= (a - 1) * u
      BY <1>4, SMT
    <3>2. (a - 1) * v = a * v - v /\ (a - 1) * u = a * u - u /\ a * u \in Int /\ a * v \in Int
      BY SMT
    <3> QED
      BY <3>1, <3>2
  <2> QED
    BY <1>4, <2>2, <2>3, <2>4
<1> QED
  BY <1>1, <1>2

(* A point lies between the bounds of one task only. *)
LEMMA OneTask ==
  ASSUME inst \in Instances, NEW q \in Tasks, NEW r \in Tasks, NEW j \in Int,
         Before(inst, q) < j, j <= Before(inst, q - 1),
         Before(inst, r) < j, j <= Before(inst, r - 1)
  PROVE  q = r
<1>1. /\ inst.NPROC \in Nat \ {0} /\ Tasks = 0 .. inst.NPROC - 1
      /\ q \in -1 .. inst.NPROC - 1 /\ q - 1 \in -1 .. inst.NPROC - 1
      /\ r \in -1 .. inst.NPROC - 1 /\ r - 1 \in -1 .. inst.NPROC - 1
  <2>1. PICK p \in Nat \ {0} : p = inst.NPROC /\ Tasks = 0 .. p - 1
    BY InstanceType
  <2>2. /\ q \in -1 .. p - 1 /\ q - 1 \in -1 .. p - 1
        /\ r \in -1 .. p - 1 /\ r - 1 \in -1 .. p - 1
    BY <2>1
  <2> QED
    BY <2>1, <2>2
<1>2. CASE q < r
  <2>1. q <= r - 1
    BY <1>1, <1>2
  <2>2. /\ Before(inst, q) \in Int /\ Before(inst, r - 1) \in Int
        /\ Before(inst, r - 1) <= Before(inst, q)
    BY <1>1, <2>1, BoundsInOrder
  <2> QED
    BY <2>2
<1>3. CASE r < q
  <2>1. r <= q - 1
    BY <1>1, <1>3
  <2>2. /\ Before(inst, r) \in Int /\ Before(inst, q - 1) \in Int
        /\ Before(inst, q - 1) <= Before(inst, r)
    BY <1>1, <2>1, BoundsInOrder
  <2> QED
    BY <2>2
<1> QED
  BY <1>1, <1>2, <1>3

(* WholeRowsHolds: "We want only rectangular subdomains": with shadows, a  *)
(* row of the grid is never split between tasks, and a task has            *)
(* consecutive rows.                                                       *)
THEOREM WholeRowsHolds == Spec => []WholeRows
<1>1. PartitionInv => WholeRows
  <2> SUFFICES ASSUME PartitionInv, pc = "done", inst.shadows,
                      NEW i \in Points, NEW j \in Points
               PROVE  /\ (i - 1) \div inst.NIX = (j - 1) \div inst.NIX => NINDEX[i] = NINDEX[j]
                      /\ i < j /\ NINDEX[i] = NINDEX[j] =>
                           \A k \in i .. j : NINDEX[k] = NINDEX[i]
    BY DEF WholeRows
  <2>0. /\ inst \in Instances /\ inst.NPROC \in Nat \ {0} /\ inst.NIX \in Nat \ {0}
        /\ Tasks = 0 .. inst.NPROC - 1
        /\ NDIM_FULL \in Nat \ {0} /\ Points = 1 .. NDIM_FULL
    BY InstanceType DEF PartitionInv, TablesOK
  <2>1. \A l \in Points : Within(l)
    BY DEF PartitionInv, Assigned
  <2>2. ASSUME (i - 1) \div inst.NIX = (j - 1) \div inst.NIX
        PROVE  NINDEX[i] = NINDEX[j]
    <3>1. PICK q \in Tasks, r \in Tasks :
            /\ q = NINDEX[i] /\ r = NINDEX[j]
            /\ Before(inst, q) < i /\ i <= Before(inst, q - 1)
            /\ Before(inst, r) < j /\ j <= Before(inst, r - 1)
      BY <2>1 DEF Within
    <3>2. q \in -1 .. inst.NPROC - 1 /\ q - 1 \in -1 .. inst.NPROC - 1
      BY <2>0
    <3>3. PICK c \in Int : Before(inst, q) = inst.NIX * c
      BY <2>0, <3>2, BoundsAreRows
    <3>4. PICK d \in Int : Before(inst, q - 1) = inst.NIX * d
      BY <2>0, <3>2, BoundsAreRows
    <3>5. inst.NIX * c < j /\ j <= inst.NIX * d
      <4>1. PICK x \in Nat \ {0} : x = inst.NIX
        BY <2>0
      <4>2. i \in Nat \ {0} /\ j \in Nat \ {0}
        BY <2>0
      <4>3. (i - 1) \div x = (j - 1) \div x /\ x * c < i /\ i <= x * d
        BY <2>2, <3>1, <3>3, <3>4, <4>1
      <4> QED
        BY <4>1, <4>2, <4>3, RowInBounds
    <3>6. j \in Int /\ Before(inst, q) < j /\ j <= Before(inst, q - 1)
      BY <2>0, <3>3, <3>4, <3>5
    <3> QED
      BY <2>0, <3>1, <3>6, OneTask
  <2>3. ASSUME i < j, NINDEX[i] = NINDEX[j], NEW k \in i .. j
        PROVE  NINDEX[k] = NINDEX[i]
    <3>1. k \in Points /\ i \in Int /\ j \in Int /\ k \in Int /\ i <= k /\ k <= j
      BY <2>0
    <3>2. PICK q \in Tasks, r \in Tasks :
            /\ q = NINDEX[i] /\ r = NINDEX[k]
            /\ Before(inst, q) < i /\ j <= Before(inst, q - 1)
            /\ Before(inst, r) < k /\ k <= Before(inst, r - 1)
      BY <2>1, <2>3, <3>1 DEF Within
    <3>3. /\ q \in -1 .. inst.NPROC - 1 /\ q - 1 \in -1 .. inst.NPROC - 1 /\ q - 1 <= q
      BY <2>0
    <3>4. Before(inst, q) \in Int /\ Before(inst, q - 1) \in Int
      BY <2>0, <3>3, BoundsInOrder
    <3>5. Before(inst, q) < k /\ k <= Before(inst, q - 1)
      BY <3>1, <3>2, <3>4
    <3> QED
      BY <2>0, <3>1, <3>2, <3>5, OneTask
  <2> QED
    BY <2>2, <2>3
<1> QED
  BY <1>1, InitPartition, NextPartition, PTL DEF Spec
-----------------------------------------------------------------------------
(* The balance between the tasks. *)

(* Each task is given the points it was meant to have. *)
LEMMA GivenInFull ==
  ASSUME PartitionInv, CountPoints, NEW t \in Tasks
  PROVE  Count(t) = ISIZE_TASK[t]
<1>1. inst \in Instances /\ pc = "assign" /\ JJ = NDIM_FULL + 1
  BY DEF CountPoints, PartitionInv, TablesOK
<1>2. /\ inst.NPROC \in Nat \ {0} /\ NDIM_FULL \in Nat \ {0}
      /\ Tasks = 0 .. inst.NPROC - 1 /\ Points = 1 .. NDIM_FULL
  BY <1>1, InstanceType
<1>3. \A j \in Points : Within(j)
  BY <1>1, <1>2 DEF PartitionInv, Assigning
<1>4. /\ t \in -1 .. inst.NPROC - 1 /\ t - 1 \in -1 .. inst.NPROC - 1
      /\ inst.NPROC - 1 \in -1 .. inst.NPROC - 1 /\ -1 \in -1 .. inst.NPROC - 1
      /\ t <= inst.NPROC - 1 /\ -1 <= t - 1
  <2>1. PICK p \in Nat \ {0} : p = inst.NPROC /\ Tasks = 0 .. p - 1
    BY <1>2
  <2>2. /\ t \in -1 .. p - 1 /\ t - 1 \in -1 .. p - 1 /\ p - 1 \in -1 .. p - 1 /\ -1 \in -1 .. p - 1
        /\ t <= p - 1 /\ -1 <= t - 1
    BY <2>1
  <2> QED
    BY <2>1, <2>2
<1> DEFINE lo == Before(inst, t)
           hi == Before(inst, t - 1)
<1>5. /\ lo \in Int /\ hi \in Int /\ ISIZE_TASK[t] \in Nat /\ hi = lo + ISIZE_TASK[t]
      /\ Before(inst, inst.NPROC - 1) = 0 /\ Before(inst, -1) = NDIM_FULL
  BY <1>1, BeforeSteps
<1>6. 0 <= lo
  BY <1>1, <1>4, <1>5, BoundsInOrder
<1>7. hi <= NDIM_FULL
  BY <1>1, <1>4, <1>5, BoundsInOrder
<1> HIDE DEF lo, hi
<1>8. {j \in Points : NINDEX[j] = t} = lo + 1 .. hi
  <2>1. ASSUME NEW j \in Points, NINDEX[j] = t PROVE j \in lo + 1 .. hi
    <3>1. lo < j /\ j <= hi
      BY <1>3, <2>1 DEF Within, lo, hi
    <3> QED
      BY <1>2, <1>5, <3>1
  <2>2. ASSUME NEW j \in lo + 1 .. hi PROVE j \in Points /\ NINDEX[j] = t
    <3>1. j \in Points /\ j \in Int /\ lo < j /\ j <= hi
      BY <1>2, <1>5, <1>6, <1>7
    <3>2. PICK q \in Tasks : q = NINDEX[j] /\ Before(inst, q) < j /\ j <= Before(inst, q - 1)
      BY <1>3, <3>1 DEF Within
    <3>3. q = t
      BY <1>1, <3>1, <3>2, OneTask DEF lo, hi
    <3> QED
      BY <3>1, <3>2, <3>3
  <2> QED
    BY <2>1, <2>2
<1>9. Cardinality(lo + 1 .. hi) = ISIZE_TASK[t]
  <2>1. PICK l \in Int : l = lo + 1
    BY <1>5
  <2>2. Cardinality(l .. hi) = IF l > hi THEN 0 ELSE hi - l + 1
    BY <1>5, FS_Interval
  <2>3. (IF l > hi THEN 0 ELSE hi - l + 1) = ISIZE_TASK[t]
    BY <1>5, <2>1
  <2> QED
    BY <2>1, <2>2, <2>3
<1> QED
  BY <1>8, <1>9 DEF Count

(* With the fraction one the share of NPIO is the smallest of the others.  *)
LEMMA WholeShare ==
  ASSUME NEW d \in Nat \ {0}, NEW m \in Nat
  PROVE  NINT(d * m, d) = m
<1>1. PICK e \in Nat \ {0} : e = 2 * d
  OBVIOUS
<1>2. d * m \in Nat /\ 2 * (d * m) = e * m
  BY <1>1, SMT
<1>3. (e * m + d) \div e = m
  BY <1>1, SMT
<1> QED
  BY <1>1, <1>2, <1>3 DEF NINT

Even == ~inst.shadows /\ ~inst.topo /\ inst.num = inst.den /\ inst.NPROC > 1

(* Every task has b points or one more; NPIO has one more only if a task   *)
(* with b is to receive a point, or all have one more.                     *)
EvenTo(b) ==
  /\ INBMIN \in {b, b + 1}
  /\ \A t \in Tasks : INBPTS[t] \in {b, b + 1}
  /\ INBPTS[NPIO] = b + 1 /\ INBMIN = b => IP0 # NPIO /\ INBPTS[IP0] = b
  /\ INBPTS[NPIO] = b + 1 /\ INBMIN = b + 1 => \A t \in Tasks : INBPTS[t] = b + 1

Fair(f) ==
  /\ \A t \in Tasks : f[NPIO] <= f[t]
  /\ \A t, u \in Tasks : f[t] <= f[u] + 1

BalanceInv ==
  /\ Even /\ pc = "move" => \E b \in Nat : EvenTo(b)
  /\ Even /\ pc \in {"number", "done"} => Fair([t \in Tasks |-> Count(t)])

LEMMA BalanceCounted ==
  ASSUME PartitionInv, CountPoints
  PROVE  BalanceInv'
<1>1. pc' = "move" /\ inst' = inst /\ Tasks' = Tasks /\ inst \in Instances /\ NPIO' = NPIO
  BY DEF CountPoints, Tasks, PartitionInv, TablesOK, NPIO
<1> SUFFICES ASSUME Even PROVE \E b \in Nat : EvenTo(b)'
  BY <1>1 DEF BalanceInv, Even
<1>2. /\ INBPTS' = [t \in Tasks |-> Count(t)]
      /\ INBMIN' \in {INBPTS'[t] : t \in Tasks}
      /\ \A t \in Tasks : INBMIN' <= INBPTS'[t]
      /\ IP0' \in Tasks /\ INBPTS'[IP0'] = INBMIN'
  BY ReceiverFound DEF Even
<1>3. PICK a \in Nat \ {0} : a = Size0(inst)
  <2>1. inst.NPROC \in Nat \ {0} /\ Points0(inst) \in Nat \ {0}
    BY <1>1, InstanceType
  <2> QED
    BY <2>1, CeilingType DEF Even, Size0
<1>4. PICK b \in Nat : a = b + 1
  BY <1>3
<1>5. \A t \in Tasks : INBPTS'[t] \in {b, b + 1}
  <2>1. More(inst) = -1
    BY DEF Even, More
  <2>2. \A t \in Tasks : ISIZE_TASK[t] \in {Size0(inst) + More(inst), Size0(inst)}
    BY <1>1, SizesType
  <2>3. \A t \in Tasks : ISIZE_TASK[t] \in {b, b + 1}
    BY <1>3, <1>4, <2>1, <2>2
  <2> QED
    BY <1>2, <2>3, GivenInFull
<1>6. INBMIN' \in {b, b + 1}
  BY <1>2, <1>5
<1>7. INBPTS'[NPIO] = b + 1 /\ INBMIN' = b => IP0' # NPIO /\ INBPTS'[IP0'] = b
  BY <1>2, <1>4
<1>8. INBMIN' = b + 1 => \A t \in Tasks : INBPTS'[t] = b + 1
  BY <1>2, <1>4, <1>5
<1> QED
  BY <1>1, <1>5, <1>6, <1>7, <1>8 DEF EvenTo

LEMMA BalanceMoved ==
  ASSUME PartitionInv, BalanceInv, MovePoint
  PROVE  BalanceInv'
<1>1. /\ pc = "move" /\ pc' = "move" /\ inst' = inst /\ Tasks' = Tasks /\ NPIO' = NPIO
      /\ inst \in Instances
  BY DEF MovePoint, Tasks, PartitionInv, TablesOK, NPIO
<1> SUFFICES ASSUME Even PROVE \E b \in Nat : EvenTo(b)'
  BY <1>1 DEF BalanceInv, Even
<1>2. PICK b \in Nat : EvenTo(b)
  BY <1>1 DEF BalanceInv
<1>3. /\ NPIO \in Tasks /\ Tasks \subseteq Nat /\ 0 \in Tasks /\ IP0 \in Tasks
      /\ INBPTS \in [Tasks -> Int] /\ INBPTS = [t \in Tasks |-> Count(t)]
  BY <1>1, InstanceType DEF PartitionInv, TablesOK, CountersAgree, Even, NPIO
<1>4. INBPTS[NPIO] = b + 1 /\ INBMIN = b
  <2>1. INBPTS[NPIO] > Share
    BY DEF MovePoint, Moves
  <2>2. PICK m \in Nat : m = INBMIN
    BY <1>2 DEF EvenTo
  <2>3. PICK d \in Nat \ {0} : d = inst.num /\ d = inst.den
    BY <1>1, InstancesAssumption DEF Even
  <2>4. Share = INBMIN
    BY <2>2, <2>3, WholeShare DEF Share
  <2> QED
    BY <1>2, <1>3, <2>1, <2>4 DEF EvenTo
<1>5. IP0 # NPIO /\ INBPTS[IP0] = b
  BY <1>2, <1>4 DEF EvenTo
<1>6. OfNPIO # {}
  <2> SUFFICES ASSUME OfNPIO = {} PROVE FALSE
    OBVIOUS
  <2>1. Count(NPIO) = 0
    BY FS_EmptySet DEF Count, OfNPIO
  <2> QED
    BY <1>3, <1>4, <2>1
<1>7. INBPTS' = [[INBPTS EXCEPT ![NPIO] = @ - 1] EXCEPT ![IP0] = @ + 1]
  BY <1>6 DEF MovePoint
<1>8. /\ \A t \in Tasks : INBPTS'[t] = IF t = NPIO THEN b ELSE IF t = IP0 THEN b + 1 ELSE INBPTS[t]
      /\ DOMAIN INBPTS' = Tasks
  BY <1>3, <1>4, <1>5, <1>7
<1>9. \A t \in Tasks : INBPTS'[t] \in {b, b + 1}
  BY <1>2, <1>8 DEF EvenTo
<1>10. INBPTS' \in [Tasks -> Nat]
  <2>1. INBPTS' = [t \in Tasks |-> INBPTS'[t]]
    BY <1>3, <1>7
  <2> QED
    BY <1>9, <2>1
<1>11. INBMIN' \in {b, b + 1}
  <2>1. CASE Receivers(INBPTS') = {}
    <3>1. INBMIN' = Largest(INBPTS')
      BY <2>1 DEF MovePoint
    <3>2. Largest(INBPTS') = b + 1
      <4>1. INBPTS'[IP0] = b + 1
        BY <1>3, <1>5, <1>8
      <4>2. Largest(INBPTS') = CHOOSE n \in {INBPTS'[t] : t \in Tasks} : \A t \in Tasks : INBPTS'[t] <= n
        BY DEF Largest
      <4>3. b + 1 \in {INBPTS'[t] : t \in Tasks} /\ \A t \in Tasks : INBPTS'[t] <= b + 1
        BY <1>3, <1>9, <4>1
      <4>4. \A n \in {INBPTS'[t] : t \in Tasks} : (\A t \in Tasks : INBPTS'[t] <= n) => n = b + 1
        BY <1>3, <1>9, <4>1
      <4> QED
        BY <4>2, <4>3, <4>4
    <3> QED
      BY <3>1, <3>2
  <2>2. CASE Receivers(INBPTS') # {}
    <3>1. First(LeastOf(Receivers(INBPTS'), INBPTS')) \in Tasks
      BY <1>1, <1>10, <2>2, ReceiverIn
    <3>2. INBMIN' = INBPTS'[IP0'] /\ IP0' \in Tasks
      BY <2>2, <3>1 DEF MovePoint
    <3> QED
      BY <1>9, <3>2
  <2> QED
    BY <2>1, <2>2
<1>12. INBPTS'[NPIO] # b + 1
  BY <1>3, <1>8
<1> QED
  BY <1>1, <1>9, <1>11, <1>12 DEF EvenTo

LEMMA BalanceEnds ==
  ASSUME PartitionInv, BalanceInv, EndMoves
  PROVE  BalanceInv'
<1>1. /\ pc = "move" /\ pc' = "number" /\ inst' = inst /\ Tasks' = Tasks /\ NPIO' = NPIO
      /\ inst \in Instances /\ \A t : Count(t)' = Count(t)
  BY DEF EndMoves, Tasks, PartitionInv, TablesOK, NPIO, Count, Points, NDIM_FULL
<1> SUFFICES ASSUME Even PROVE Fair(INBPTS)
  <2>1. Even => INBPTS = [t \in Tasks |-> Count(t)]
    BY <1>1 DEF Even, PartitionInv, CountersAgree
  <2>2. Even' = Even /\ [t \in Tasks |-> Count(t)]' = [t \in Tasks |-> Count(t)]
    BY <1>1 DEF Even
  <2>3. Even => Fair([t \in Tasks |-> Count(t)])
    BY <2>1
  <2> QED
    BY <1>1, <2>2, <2>3 DEF BalanceInv, Fair
<1>2. PICK b \in Nat : EvenTo(b)
  BY <1>1 DEF BalanceInv
<1>3. NPIO \in Tasks
  BY <1>1, InstanceType
<1>4. INBPTS[NPIO] <= INBMIN
  <2>1. ~(INBPTS[NPIO] > Share)
    BY DEF EndMoves, Moves, Even
  <2>2. PICK m \in Nat : m = INBMIN
    BY <1>2 DEF EvenTo
  <2>3. PICK d \in Nat \ {0} : d = inst.num /\ d = inst.den
    BY <1>1, InstancesAssumption DEF Even
  <2>4. Share = INBMIN
    BY <2>2, <2>3, WholeShare DEF Share
  <2> QED
    BY <1>2, <1>3, <2>1, <2>4 DEF EvenTo
<1> QED
  BY <1>2, <1>3, <1>4 DEF EvenTo, Fair

LEMMA BalanceKept ==
  ASSUME BalanceInv, UNCHANGED <<inst, NINDEX>>,
         \/ pc' = pc /\ UNCHANGED <<INBPTS, INBMIN, IP0>>
         \/ pc \in {"number", "done"} /\ pc' \in {"number", "done"}
         \/ pc' = "assign"
  PROVE  BalanceInv'
<1>1. /\ Tasks' = Tasks /\ Even' = Even /\ NPIO' = NPIO
      /\ [t \in Tasks |-> Count(t)]' = [t \in Tasks |-> Count(t)]
  BY DEF Tasks, Even, Count, Points, NDIM_FULL, NPIO
<1>2. Fair([t \in Tasks |-> Count(t)])' <=> Fair([t \in Tasks |-> Count(t)])
  BY <1>1 DEF Fair
<1>3. UNCHANGED <<INBPTS, INBMIN, IP0>> => \A b : EvenTo(b)' <=> EvenTo(b)
  BY <1>1 DEF EvenTo
<1> QED
  BY <1>1, <1>2, <1>3 DEF BalanceInv

LEMMA NextBalance == PartitionInv /\ BalanceInv /\ [Next]_vars => BalanceInv'
<1> SUFFICES ASSUME PartitionInv, BalanceInv, [Next]_vars PROVE BalanceInv'
  OBVIOUS
<1>1. CASE UNCHANGED vars
  BY <1>1, BalanceKept DEF vars
<1>2. CASE NextTask
  BY <1>2, BalanceKept DEF NextTask
<1>3. CASE AssignPoint
  BY <1>3 DEF AssignPoint, BalanceInv
<1>4. CASE NumberPoint \/ SizeTasks
  BY <1>4, BalanceKept DEF NumberPoint, SizeTasks
<1>5. CASE Done
  BY <1>1, <1>5 DEF Done
<1> QED
  BY <1>1, <1>2, <1>3, <1>4, <1>5, BalanceCounted, BalanceMoved, BalanceEnds DEF Next

(* BalancedHolds: with PIO_FRAC = 1 and without shadows, NPIO has no more  *)
(* points than any other task, and the others differ by one point at most, *)
(* for any grid, also one with fewer points than there are tasks.          *)
THEOREM BalancedHolds == Spec => []Balanced
<1>1. Init => BalanceInv
  BY DEF Init, BalanceInv
<1>2. PartitionInv /\ BalanceInv => Balanced
  <2> SUFFICES ASSUME PartitionInv, BalanceInv, pc = "done",
                      ~inst.shadows, ~inst.topo, inst.num = inst.den
               PROVE  /\ \A t \in Tasks : NSIZE_TASK[NPIO] <= NSIZE_TASK[t]
                      /\ \A t, u \in Tasks \ {NPIO} : NSIZE_TASK[t] <= NSIZE_TASK[u] + 1
    BY DEF Balanced
  <2>1. NSIZE_TASK = [t \in Tasks |-> Count(t)] /\ \A t \in Tasks : Count(t) \in Nat
    BY Counted DEF PartitionInv, NumberedSoFar
  <2>2. inst.NPROC \in Nat \ {0} /\ Tasks = 0 .. inst.NPROC - 1
    BY InstanceType DEF PartitionInv, TablesOK
  <2>3. CASE inst.NPROC > 1
    BY <2>1, <2>3 DEF BalanceInv, Even, Fair
  <2>4. CASE inst.NPROC = 1
    <3>1. Tasks = {0}
      BY <2>2, <2>4
    <3> QED
      BY <2>1, <3>1 DEF NPIO
  <2> QED
    BY <2>2, <2>3, <2>4
<1> QED
  BY <1>1, <1>2, InitPartition, NextPartition, NextBalance, PTL DEF Spec
=============================================================================
