--------------------------- MODULE LfiMulti_proof ---------------------------
(***************************************************************************)
(* Theorems about the multi-files: whatever programs and tools do to them, *)
(* the index of a main file names sub-files that are there and hold its    *)
(* articles, so that no call is ever aborted, and no sub-file is left that *)
(* no index names.                                                         *)
(***************************************************************************)
EXTENDS LfiMulti, Sums_proof, SequenceTheorems

-----------------------------------------------------------------------------
(* Numbers in their order. *)

LEMMA SeqIs ==
  ASSUME NEW S, NEW n \in Nat, NEW q \in [1 .. n -> S]
  PROVE  q \in Seq(S) /\ Len(q) = n
BY SeqDef

\* A set of numbers has a finite cardinality, and ranks grow with the numbers.
LEMMA RankUp ==
  ASSUME NEW S \in SUBSET Nat, IsFiniteSet(S)
  PROVE  /\ \A k \in S : RankIn(S, k) \in 1 .. Cardinality(S)
         /\ \A k, l \in S : k < l => RankIn(S, k) < RankIn(S, l)
<1> DEFINE Up(k) == {j \in S : j <= k}
<1>1. \A k \in S : IsFiniteSet(Up(k)) /\ Cardinality(Up(k)) \in Nat /\ Cardinality(Up(k)) <= Cardinality(S)
                   /\ k \in Up(k) /\ Cardinality(Up(k)) # 0
  <2> TAKE k \in S
  <2>1. Up(k) \in SUBSET S /\ k \in Up(k)
    OBVIOUS
  <2>2. IsFiniteSet(Up(k)) /\ Cardinality(Up(k)) <= Cardinality(S)
    BY <2>1, FS_Subset
  <2> QED
    BY Zenon, <2>1, <2>2, FS_CardinalityType, FS_EmptySet
<1>2. Cardinality(S) \in Nat
  BY FS_CardinalityType
<1>3. \A k \in S : RankIn(S, k) = Cardinality(Up(k))
  BY DEF RankIn
<1>4. \A k, l \in S : k < l => RankIn(S, k) < RankIn(S, l)
  <2> SUFFICES ASSUME NEW k \in S, NEW l \in S, k < l PROVE Cardinality(Up(k)) < Cardinality(Up(l))
    BY Zenon, <1>3
  <2>a. k \in Nat /\ l \in Nat /\ \A j \in S : j \in Nat
    OBVIOUS
  <2>b. \A j \in S : j <= k => j <= l
    BY <2>a
  <2>c. ~(l <= k) /\ l <= l
    BY <2>a
  <2>1. Up(k) \in SUBSET Up(l) /\ l \notin Up(k) /\ l \in Up(l)
    BY Zenon, <2>b, <2>c
  <2>2. Cardinality(Up(k)) <= Cardinality(Up(l)) /\ (Cardinality(Up(l)) = Cardinality(Up(k)) => Up(l) = Up(k))
    BY <1>1, <2>1, FS_Subset
  <2>3. Cardinality(Up(k)) # Cardinality(Up(l))
    BY <2>1, <2>2
  <2>4. Cardinality(Up(k)) \in Nat /\ Cardinality(Up(l)) \in Nat
    BY <1>1
  <2> HIDE DEF Up
  <2> QED
    BY <2>2, <2>3, <2>4
<1>5. \A k \in S : RankIn(S, k) \in 1 .. Cardinality(S)
  <2> TAKE k \in S
  <2> HIDE DEF Up
  <2> QED
    BY <1>1, <1>2, <1>3
<1> QED
  BY <1>4, <1>5

\* The elements of a finite set of numbers are listed once each.
LEMMA OrderedIs ==
  ASSUME NEW S \in SUBSET Nat, IsFiniteSet(S)
  PROVE  /\ Cardinality(S) \in Nat
         /\ Ordered(S) \in Seq(S) /\ DOMAIN Ordered(S) = 1 .. Cardinality(S)
         /\ \A i \in DOMAIN Ordered(S) : Ordered(S)[i] \in S /\ RankIn(S, Ordered(S)[i]) = i
         /\ \A k \in S : RankIn(S, k) \in DOMAIN Ordered(S) /\ Ordered(S)[RankIn(S, k)] = k
<1> DEFINE N == Cardinality(S)
           f == [k \in S |-> RankIn(S, k)]
<1>1. N \in Nat
  BY FS_CardinalityType
<1>2. f \in Injection(S, 1 .. N)
  <2>1. f \in [S -> 1 .. N]
    BY RankUp
  <2>2. \A k, l \in S : f[k] = f[l] => k = l
    <3> SUFFICES ASSUME NEW k \in S, NEW l \in S, RankIn(S, k) = RankIn(S, l) PROVE k = l
      OBVIOUS
    <3>1. ~(k < l) /\ ~(l < k)
      BY RankUp
    <3> QED
      BY <3>1
  <2> QED
    BY <2>1, <2>2 DEF Injection, IsInjective
<1>3. IsFiniteSet(1 .. N) /\ Cardinality(1 .. N) = N
  BY <1>1, FS_Interval
<1>4. f \in Surjection(S, 1 .. N)
  BY <1>2, <1>3, FS_Injection
<1>5. \A i \in 1 .. N : \E k \in S : RankIn(S, k) = i
  BY Zenon, <1>4 DEF Surjection
<1>6. DOMAIN Ordered(S) = 1 .. N /\ \A i \in 1 .. N : Ordered(S)[i] \in S /\ RankIn(S, Ordered(S)[i]) = i
  BY <1>5 DEF Ordered
<1>7. \A k \in S : RankIn(S, k) \in 1 .. N /\ Ordered(S)[RankIn(S, k)] = k
  <2> TAKE k \in S
  <2>1. RankIn(S, k) \in 1 .. N
    BY RankUp
  <2> DEFINE l == Ordered(S)[RankIn(S, k)]
  <2>2. l \in S /\ RankIn(S, l) = RankIn(S, k)
    BY <1>6, <2>1
  <2> HIDE DEF l
  <2>3. RankIn(S, k) \in Nat /\ k \in Nat /\ l \in Nat
    BY <2>1, <2>2, <1>1
  <2>4. ~(k < l) /\ ~(l < k)
    BY <2>2, <2>3, RankUp
  <2>5. l = k
    BY <2>3, <2>4
  <2> QED
    BY <2>1, <2>5 DEF l
<1>8. Ordered(S) \in Seq(S)
  <2>1. Ordered(S) = [i \in 1 .. N |-> Ordered(S)[i]]
    BY DEF Ordered
  <2> QED
    BY <1>1, <1>6, <2>1, SeqDef
<1> QED
  BY <1>1, <1>6, <1>7, <1>8

\* The paths getfname gives are new, and differ.
LEMMA NewPathsAre ==
  ASSUME NEW s, IsFiniteSet(DOMAIN s), NEW m, NEW n \in Nat
  PROVE  LET new == NewPaths(s, m, n)
         IN  /\ DOMAIN new = 1 .. n
             /\ \A i \in 1 .. n : \E x \in Nat \ {0} : new[i] = <<m, x>> /\ <<m, x>> \notin DOMAIN s
             /\ \A i, j \in 1 .. n : new[i] = new[j] => i = j
<1> DEFINE C == Cardinality(DOMAIN s)
           all == 1 .. C + n
           free == {i \in all : <<m, i>> \notin DOMAIN s}
           taken == {i \in all : <<m, i>> \in DOMAIN s}
           f == [i \in taken |-> <<m, i>>]
<1>1. C \in Nat
  BY FS_CardinalityType
<1>2. IsFiniteSet(all) /\ Cardinality(all) = C + n
  <2>1. C + n \in Int /\ 1 \in Int /\ C + n - 1 + 1 = C + n /\ (1 > C + n => C + n = 0)
    BY <1>1
  <2> HIDE DEF C
  <2> QED
    BY <2>1, FS_Interval
<1>3. f \in Injection(taken, DOMAIN s)
  BY DEF Injection, IsInjective
<1>4. IsFiniteSet(taken) /\ Cardinality(taken) <= C
  BY <1>3, FS_Injection
<1>5. free = all \ taken /\ all \cap taken = taken
  OBVIOUS
<1>6. IsFiniteSet(free) /\ Cardinality(free) = (C + n) - Cardinality(taken)
  <2> HIDE DEF C, all, free, taken
  <2>1. IsFiniteSet(all \ taken) /\ Cardinality(all \ taken) = Cardinality(all) - Cardinality(all \cap taken)
    BY Zenon, <1>2, FS_Difference
  <2> QED
    BY <1>2, <1>5, <2>1
<1>7. Cardinality(taken) \in Nat
  BY <1>4, FS_CardinalityType
<1>8. n <= Cardinality(free)
  BY <1>1, <1>4, <1>6, <1>7
<1>9. free \in SUBSET Nat /\ 0 \notin free
  BY <1>1
<1> HIDE DEF C, all, taken, free, f
<1>10. \A i \in 1 .. n : i \in DOMAIN Ordered(free)
  <2>1. Cardinality(free) \in Nat /\ DOMAIN Ordered(free) = 1 .. Cardinality(free)
    BY <1>6, <1>9, OrderedIs
  <2> QED
    BY <1>8, <2>1
<1>11. \A i \in 1 .. n : Ordered(free)[i] \in free /\ RankIn(free, Ordered(free)[i]) = i
  BY <1>6, <1>9, <1>10, OrderedIs
<1>12. NewPaths(s, m, n) = [i \in 1 .. n |-> <<m, Ordered(free)[i]>>]
  BY DEF NewPaths, free, all, C
<1>13. \A i \in 1 .. n : \E x \in Nat \ {0} : NewPaths(s, m, n)[i] = <<m, x>> /\ <<m, x>> \notin DOMAIN s
  <2>1. \A x \in free : x \in Nat \ {0} /\ <<m, x>> \notin DOMAIN s
    BY <1>9 DEF free, all
  <2> QED
    BY <1>11, <1>12, <2>1
<1>14. \A i, j \in 1 .. n : NewPaths(s, m, n)[i] = NewPaths(s, m, n)[j] => i = j
  <2> SUFFICES ASSUME NEW i \in 1 .. n, NEW j \in 1 .. n, NewPaths(s, m, n)[i] = NewPaths(s, m, n)[j] PROVE i = j
    OBVIOUS
  <2>1. <<m, Ordered(free)[i]>> = <<m, Ordered(free)[j]>>
    BY <1>12
  <2>2. Ordered(free)[i] = Ordered(free)[j]
    BY <2>1
  <2> QED
    BY <1>11, <2>2
<1> QED
  BY <1>12, <1>13, <1>14

LEMMA NewPathIs ==
  ASSUME NEW s, IsFiniteSet(DOMAIN s), NEW m
  PROVE  \E x \in Nat \ {0} : NewPath(s, m) = <<m, x>> /\ <<m, x>> \notin DOMAIN s
BY NewPathsAre DEF NewPath

-----------------------------------------------------------------------------
(* The files and the open unit. *)

Forms == {"any", "cwd", "rel"}
FileRecs == [path : Mains \X Nat, form : Forms, at : Nat, dead : BOOLEAN]
EntryRecs == [name : Names \cup {Blank}, namf : Names \cup {Blank}, ifh : Nat]
Units == [open : {TRUE}, m : Mains, files : Seq(FileRecs), arts : Seq(EntryRecs), iart : Nat, w : Nat,
          modified : BOOLEAN, unlink : BOOLEAN]
Values == (Nat \ {0}) \X Nat
SubInodes == [kind : {"PURE"}, art : [Names -> {Nothing} \cup Values], slots : Int, clean : BOOLEAN]
MainInodes == [kind : {"ALTM"}, files : Seq([path : Mains \X Nat, form : Forms]), arts : Seq(EntryRecs)]
Inodes == SubInodes \cup MainInodes \cup {Torn}

\* A main file of whose sub-files no other index speaks
Solid(m) == ~("index" \in Tools /\ m \in Targets)

\* The index x of m on the disk: its entries have different names and their
\* files are listed; the files are there, differ, and have the articles.
IndexOK(s, n, m, x) ==
  /\ \A i \in DOMAIN x.arts : x.arts[i].name \in Names /\ x.arts[i].namf \in Names /\ x.arts[i].ifh \in DOMAIN x.files
  /\ \A i, j \in DOMAIN x.arts : x.arts[i].name = x.arts[j].name => i = j
  /\ \A k \in DOMAIN x.files : x.files[k].form = "any"
  /\ Solid(m) =>
       /\ \A k \in DOMAIN x.files : x.files[k].path \in DOMAIN s /\ x.files[k].path[1] = m /\ x.files[k].path[2] > 0
       /\ \A k, l \in DOMAIN x.files : x.files[k].path = x.files[l].path => k = l
       /\ \A i \in DOMAIN x.arts : n[s[x.files[x.arts[i].ifh].path]].art[x.arts[i].namf] # Nothing

HasMain(s, n, m) == Main(m) \in DOMAIN s /\ n[s[Main(m)]].kind = "ALTM"

\* The disk: a sub-file is a native file, and only native files have links.
Typed(s, n) ==
  /\ n \in Seq(Inodes)
  /\ DOMAIN s \in SUBSET (Mains \X Nat) /\ IsFiniteSet(DOMAIN s)
  /\ s \in [DOMAIN s -> 1 .. Len(n)]
Disk(s, n) ==
  /\ Typed(s, n)
  /\ \A p \in DOMAIN s : p[2] > 0 => n[s[p]].kind = "PURE"
  /\ \A p, q \in DOMAIN s : s[p] = s[q] /\ p # q => n[s[p]].kind = "PURE"
  /\ \A m \in Mains : HasMain(s, n, m) => IndexOK(s, n, m, n[s[Main(m)]])

\* The sub-files that count: those that have articles or were not unlinked.
Present(f) == Used(f) \cup {k \in DOMAIN f.files : ~f.files[k].dead}

\* A unit whose sub-files are all its own.
Session(f, s, n) ==
  /\ f \in Units
  /\ \A i \in Live(f) :
       /\ f.arts[i].ifh \in DOMAIN f.files /\ f.arts[i].namf \in Names
       /\ n[s[f.files[f.arts[i].ifh].path]].art[f.arts[i].namf] # Nothing
  /\ \A i, j \in Live(f) : f.arts[i].name = f.arts[j].name => i = j
  /\ \A k \in DOMAIN f.files : f.files[k].form = "any"
  /\ \A k \in Present(f) : /\ f.files[k].path \in DOMAIN s /\ f.files[k].path[1] = f.m /\ f.files[k].path[2] > 0
                           /\ f.files[k].at \in {0, s[f.files[k].path]}
  /\ \A k, l \in Present(f) : f.files[k].path = f.files[l].path => k = l

-----------------------------------------------------------------------------
(* Small facts. *)

LEMMA ValueIs ==
  ASSUME NEW v \in Values
  PROVE  v # Nothing /\ v[1] \in Nat \ {0}
<1>1. v = <<v[1], v[2]>> /\ v[1] \in Nat \ {0}
  BY DEF Values
<1>2. Len(<<v[1], v[2]>>) = 2 /\ Len(Nothing) = 0
  BY DEF Nothing
<1> QED
  BY <1>1, <1>2

LEMMA KindIs ==
  ASSUME NEW x \in Inodes
  PROVE  /\ x.kind \in {"PURE", "ALTM", "UNKN"}
         /\ x.kind = "PURE" <=> x \in SubInodes
         /\ x.kind = "ALTM" <=> x \in MainInodes
         /\ x.kind = "UNKN" <=> x = Torn
BY DEF Inodes, SubInodes, MainInodes, Torn

LEMMA MainIs ==
  ASSUME NEW m \in Mains
  PROVE  Main(m) \in Mains \X Nat /\ Main(m)[1] = m /\ Main(m)[2] = 0
BY DEF Main

LEMMA PathIs ==
  ASSUME NEW p \in Mains \X Nat
  PROVE  p = <<p[1], p[2]>> /\ p[1] \in Mains /\ p[2] \in Nat /\ (p[2] = 0 <=> p = Main(p[1]))
BY DEF Main

LEMMA PutIs ==
  ASSUME NEW s, NEW p, NEW k
  PROVE  /\ DOMAIN Put(s, p, k) = DOMAIN s \cup {p} /\ Put(s, p, k)[p] = k
         /\ \A q \in DOMAIN s : q # p => Put(s, p, k)[q] = s[q]
         /\ IsFiniteSet(DOMAIN s) => IsFiniteSet(DOMAIN Put(s, p, k))
BY FS_AddElement DEF Put

LEMMA DropIs ==
  ASSUME NEW s, NEW P
  PROVE  /\ DOMAIN Drop(s, P) = DOMAIN s \ P
         /\ \A q \in DOMAIN s \ P : Drop(s, P)[q] = s[q]
         /\ IsFiniteSet(DOMAIN s) => IsFiniteSet(DOMAIN Drop(s, P))
<1>1. DOMAIN Drop(s, P) = DOMAIN s \ P /\ \A q \in DOMAIN s \ P : Drop(s, P)[q] = s[q]
  BY DEF Drop, Restrict
<1>2. IsFiniteSet(DOMAIN s) => IsFiniteSet(DOMAIN s \ P)
  BY FS_Subset
<1> QED
  BY <1>1, <1>2

LEMMA UsedIs ==
  ASSUME NEW f
  PROVE  /\ Used(f) = {k \in DOMAIN f.files : \E i \in Live(f) : f.arts[i].ifh = k}
         /\ Present(f) \subseteq DOMAIN f.files /\ Used(f) \subseteq Present(f)
BY DEF Used, Live, Present

LEMMA FormsAre ==
  ASSUME OrdinaryUse
  PROVE  GivenForm = "any" /\ ToolForm = "any" /\ Resolves("any") /\ Unlinks("any")
BY InstancesAssumption DEF OrdinaryUse, GivenForm, ToolForm, RelativeForm, Resolves, Unlinks

-----------------------------------------------------------------------------
(* The inductive invariant. *)

OpenOK(f, s, n) ==
  /\ Session(f, s, n) /\ HasMain(s, n, f.m) /\ f.m \in Opened /\ f.unlink
  /\ f.w \in 0 .. Len(f.files)
  /\ f.w > 0 => f.modified /\ f.files[f.w].at > 0 /\ ~f.files[f.w].dead

\* While no process has died: all files can be read, and all native files but
\* those the open unit has open were closed.
Clean(f, n) ==
  /\ \A k \in DOMAIN n : n[k].kind # "UNKN"
  /\ \A k \in DOMAIN n : n[k].kind = "PURE" /\ ~n[k].clean => f.open /\ \E j \in DOMAIN f.files : f.files[j].at = k
Readable(f, s, n) == \A j \in Present(f) : f.files[j].at = 0 => n[s[f.files[j].path]].clean

\* Each sub-file is one of the open unit, or named by the index of its main file.
Owned(f, s, n) ==
  \A p \in DOMAIN s : p[2] > 0 =>
    IF f.open /\ p[1] = f.m THEN \E k \in DOMAIN f.files : ~f.files[k].dead /\ f.files[k].path = p
    ELSE HasMain(s, n, p[1]) /\ \E x \in Range(n[s[Main(p[1])]].files) : x.path = p

Bounded == {"writes", "renames", "opens", "tools", "crashes"}
\* What the bounds and the types say, what holds always, and what holds while
\* no process has died.
MultiTypes == inst \in Instances /\ count \in [Bounded -> Nat]
Undying(f, s, n) ==
  /\ Clean(f, n) /\ (f.open => Readable(f, s, n))
  /\ "merge" \notin Tools => Owned(f, s, n)
\* Until a unit is modified the index on the disk names its sub-files.
Filed(f, s, n) == f.open /\ ~f.modified /\ "merge" \notin Tools => Owned(Closed, s, n)
MultiInv ==
  /\ MultiTypes
  /\ Disk(fs, ino)
  /\ fh = Closed \/ OpenOK(fh, fs, ino)
  /\ count.crashes = 0 => ~ret.aborts /\ Undying(fh, fs, ino) /\ Filed(fh, fs, ino)

-----------------------------------------------------------------------------
(* The header: fh_write_hdr. *)

HdrAt(f, s, n) == IF Main(f.m) \notin DOMAIN s THEN Len(n) + 1 ELSE s[Main(f.m)]
LostPaths(f) == {f.files[k].path : k \in Lost(f)}
HdrFs(f, s, n) == Drop(Put(s, Main(f.m), HdrAt(f, s, n)), LostPaths(f))
HdrIno(f, s, n) == IF Main(f.m) \notin DOMAIN s THEN Append(n, HdrIndex(f)) ELSE [n EXCEPT ![s[Main(f.m)]] = HdrIndex(f)]
HdrFile(f) ==
  [f EXCEPT !.files = [k \in DOMAIN f.files |-> IF k \in Lost(f) THEN [f.files[k] EXCEPT !.dead = TRUE] ELSE f.files[k]]]

LEMMA ListsFinite ==
  ASSUME NEW f \in Units
  PROVE  /\ Live(f) \in SUBSET Nat /\ IsFiniteSet(Live(f)) /\ DOMAIN f.arts = 1 .. Len(f.arts) /\ Len(f.arts) \in Nat
         /\ Used(f) \in SUBSET Nat /\ IsFiniteSet(Used(f)) /\ DOMAIN f.files = 1 .. Len(f.files) /\ Len(f.files) \in Nat
<1>1. f.arts \in Seq(EntryRecs) /\ f.files \in Seq(FileRecs)
  BY DEF Units
<1>2. DOMAIN f.arts = 1 .. Len(f.arts) /\ Len(f.arts) \in Nat /\ DOMAIN f.files = 1 .. Len(f.files) /\ Len(f.files) \in Nat
  BY <1>1
<1>3. IsFiniteSet(1 .. Len(f.arts)) /\ IsFiniteSet(1 .. Len(f.files))
  BY <1>2, FS_Interval
<1>4. Live(f) \in SUBSET (1 .. Len(f.arts)) /\ Used(f) \in SUBSET (1 .. Len(f.files))
  BY <1>2 DEF Live, Used
<1>5. IsFiniteSet(Live(f)) /\ IsFiniteSet(Used(f))
  BY <1>3, <1>4, FS_Subset
<1> QED
  BY <1>2, <1>4, <1>5

\* What the header lists: the live entries and the used sub-files, in their order.
LEMMA HdrIndexIs ==
  ASSUME NEW f \in Units, \A i \in Live(f) : f.arts[i].ifh \in DOMAIN f.files
  PROVE  LET x == HdrIndex(f)
             same(i, j) == /\ x.arts[i].name = f.arts[j].name /\ x.arts[i].namf = f.arts[j].namf
                           /\ x.arts[i].ifh = RankIn(Used(f), f.arts[j].ifh) /\ x.arts[i].ifh \in DOMAIN x.files
                           /\ x.files[x.arts[i].ifh].path = f.files[f.arts[j].ifh].path
         IN  /\ x \in MainInodes
             /\ DOMAIN x.arts = 1 .. Cardinality(Live(f)) /\ DOMAIN x.files = 1 .. Cardinality(Used(f))
             /\ \A i \in DOMAIN x.arts : Ordered(Live(f))[i] \in Live(f) /\ same(i, Ordered(Live(f))[i])
             /\ \A j \in Live(f) : RankIn(Live(f), j) \in DOMAIN x.arts /\ same(RankIn(Live(f), j), j)
             /\ \A k \in DOMAIN x.files : /\ Ordered(Used(f))[k] \in Used(f)
                                          /\ x.files[k].path = f.files[Ordered(Used(f))[k]].path
                                          /\ x.files[k].form = f.files[Ordered(Used(f))[k]].form
             /\ \A l \in Used(f) : RankIn(Used(f), l) \in DOMAIN x.files /\ x.files[RankIn(Used(f), l)].path = f.files[l].path
<1> DEFINE U == Used(f)
           L == Live(f)
           ranks == Ordered(U)
           kept == Ordered(L)
           F == [i \in DOMAIN ranks |-> [path |-> f.files[ranks[i]].path, form |-> f.files[ranks[i]].form]]
           A == [i \in DOMAIN kept |-> [f.arts[kept[i]] EXCEPT !.ifh = RankIn(U, @)]]
           x == HdrIndex(f)
<1>1. x = [kind |-> "ALTM", files |-> F, arts |-> A]
  BY DEF HdrIndex, Index
<1>2. /\ Cardinality(U) \in Nat /\ DOMAIN ranks = 1 .. Cardinality(U)
      /\ \A i \in DOMAIN ranks : ranks[i] \in U /\ RankIn(U, ranks[i]) = i
      /\ \A k \in U : RankIn(U, k) \in DOMAIN ranks /\ ranks[RankIn(U, k)] = k
  BY ListsFinite, OrderedIs
<1>3. /\ Cardinality(L) \in Nat /\ DOMAIN kept = 1 .. Cardinality(L)
      /\ \A i \in DOMAIN kept : kept[i] \in L /\ RankIn(L, kept[i]) = i
      /\ \A k \in L : RankIn(L, k) \in DOMAIN kept /\ kept[RankIn(L, k)] = k
  BY ListsFinite, OrderedIs
<1>4. U \subseteq DOMAIN f.files /\ L \subseteq DOMAIN f.arts /\ \A j \in L : f.arts[j].ifh \in U
  BY DEF Used, Live
<1>5. \A k \in DOMAIN f.files : f.files[k] \in FileRecs
  BY DEF Units
<1>6. \A j \in DOMAIN f.arts : f.arts[j] \in EntryRecs
  BY DEF Units
<1> HIDE DEF U, L, ranks, kept
<1>7. F \in Seq([path : Mains \X Nat, form : Forms])
  <2>1. \A i \in DOMAIN ranks : F[i] \in [path : Mains \X Nat, form : Forms]
    BY <1>2, <1>4, <1>5 DEF FileRecs
  <2>3. F \in [1 .. Cardinality(U) -> [path : Mains \X Nat, form : Forms]]
    BY <1>2, <2>1
  <2> QED
    BY Zenon, <1>2, <2>3, SeqIs
<1>8. \A i \in DOMAIN kept : /\ A[i] \in EntryRecs /\ A[i].name = f.arts[kept[i]].name /\ A[i].namf = f.arts[kept[i]].namf
                             /\ A[i].ifh = RankIn(U, f.arts[kept[i]].ifh)
  <2> TAKE i \in DOMAIN kept
  <2>1. kept[i] \in L /\ f.arts[kept[i]] \in EntryRecs
    BY <1>3, <1>4, <1>6
  <2>2. RankIn(U, f.arts[kept[i]].ifh) \in Nat
    BY <1>2, <1>4, <2>1
  <2> QED
    BY <2>1, <2>2 DEF EntryRecs
<1>9. A \in Seq(EntryRecs)
  BY <1>3, <1>8, SeqDef
<1>10. x \in MainInodes
  BY <1>1, <1>7, <1>9 DEF MainInodes
<1>11. x.arts = A /\ x.files = F /\ DOMAIN A = DOMAIN kept /\ DOMAIN F = DOMAIN ranks
  BY <1>1
<1> DEFINE same(i, j) == /\ x.arts[i].name = f.arts[j].name /\ x.arts[i].namf = f.arts[j].namf
                         /\ x.arts[i].ifh = RankIn(U, f.arts[j].ifh) /\ x.arts[i].ifh \in DOMAIN x.files
                         /\ x.files[x.arts[i].ifh].path = f.files[f.arts[j].ifh].path
<1>12. \A k \in DOMAIN F : F[k].path = f.files[ranks[k]].path /\ F[k].form = f.files[ranks[k]].form
  OBVIOUS
<1> HIDE DEF A, F, x
<1>13. \A i \in DOMAIN kept : same(i, kept[i])
  <2> TAKE i \in DOMAIN kept
  <2>1. kept[i] \in L /\ f.arts[kept[i]].ifh \in U
    BY <1>3, <1>4
  <2>2. A[i].ifh \in DOMAIN ranks /\ ranks[A[i].ifh] = f.arts[kept[i]].ifh
    BY <1>2, <1>8, <2>1
  <2> QED
    BY <1>8, <1>11, <1>12, <2>2
<1>14. \A j \in L : RankIn(L, j) \in DOMAIN kept /\ same(RankIn(L, j), j)
  BY <1>3, <1>13
<1>15. \A l \in U : RankIn(U, l) \in DOMAIN x.files /\ x.files[RankIn(U, l)].path = f.files[l].path
  BY <1>2, <1>11, <1>12
<1> QED
  BY <1>2, <1>3, <1>10, <1>11, <1>12, <1>13, <1>14, <1>15 DEF U, L, ranks, kept, x

\* Where no sub-file fails to be unlinked, the header is written.
LEMMA WriteHdrIs ==
  ASSUME NEW f \in Units, NEW s, NEW n, \A i \in Live(f) : f.arts[i].ifh \in DOMAIN f.files,
         \A k \in Lost(f) : Unlinks(f.files[k].form) /\ f.files[k].path \in DOMAIN s
  PROVE  WriteHdr(State(f, s, n)) = State(HdrFile(f), HdrFs(f, s, n), HdrIno(f, s, n))
<1> DEFINE r == State(f, s, n)
<1>3. r.f = f /\ r.fs = s /\ r.ino = n /\ r.ok = TRUE
  BY DEF State
<1> HIDE DEF r
<1>1. Stuck(r) = {}
  BY <1>3 DEF Stuck
<1>2. ~ \E i \in Live(r.f) : r.f.arts[i].ifh \notin Used(r.f)
  BY <1>3 DEF Used, Live
<1>4. Unlinked(r) = LostPaths(f)
  BY <1>1, <1>3 DEF LostPaths, Unlinked
<1>5. WriteHdr(r) =
        [r EXCEPT !.fs = Drop(Put(r.fs, Main(r.f.m), HdrAt(r.f, r.fs, r.ino)), Unlinked(r)),
                  !.ino = HdrIno(r.f, r.fs, r.ino),
                  !.f.files = [k \in DOMAIN @ |-> IF k \in Lost(r.f) THEN [@[k] EXCEPT !.dead = TRUE] ELSE @[k]]]
  BY Zenon, <1>1, <1>2 DEF WriteHdr, HdrIno, HdrAt
<1> DEFINE G == [k \in DOMAIN f.files |-> IF k \in Lost(f) THEN [f.files[k] EXCEPT !.dead = TRUE] ELSE f.files[k]]
<1>6. WriteHdr(r) = [r EXCEPT !.fs = HdrFs(f, s, n), !.ino = HdrIno(f, s, n), !.f.files = G]
  BY <1>3, <1>4, <1>5 DEF HdrFs
<1> HIDE DEF G
<1>7. WriteHdr(r) = State([f EXCEPT !.files = G], HdrFs(f, s, n), HdrIno(f, s, n))
  BY Zenon, <1>6 DEF r, State
<1> QED
  BY <1>7 DEF r, G, HdrFile

\* What writing the header changes: the main file, and the lost sub-files are gone.
HdrHyp(f, s, n) ==
  /\ Disk(s, n) /\ f \in Units /\ (Main(f.m) \in DOMAIN s => HasMain(s, n, f.m))
  /\ \A i \in Live(f) : f.arts[i].ifh \in DOMAIN f.files /\ f.arts[i].namf \in Names
  /\ \A k \in Lost(f) : f.files[k].path \in DOMAIN s /\ f.files[k].path[2] > 0
Grew(n, n2, x) == Len(n) <= Len(n2) /\ \A k \in DOMAIN n2 : n2[k] = x \/ (k \in DOMAIN n /\ n2[k] = n[k])

LEMMA TypedIs ==
  ASSUME NEW s, NEW n, Typed(s, n)
  PROVE  /\ Len(n) \in Nat /\ DOMAIN n = 1 .. Len(n) /\ \A k \in DOMAIN n : n[k] \in Inodes
         /\ \A p \in DOMAIN s : p \in Mains \X Nat /\ s[p] \in DOMAIN n /\ s[p] \in Nat \ {0} /\ n[s[p]] \in Inodes
         /\ IsFiniteSet(DOMAIN s)
<1>1. n \in Seq(Inodes) /\ DOMAIN s \in SUBSET (Mains \X Nat) /\ s \in [DOMAIN s -> 1 .. Len(n)] /\ IsFiniteSet(DOMAIN s)
  BY DEF Typed
<1>2. Len(n) \in Nat /\ DOMAIN n = 1 .. Len(n) /\ \A k \in DOMAIN n : n[k] \in Inodes
  BY <1>1
<1>3. \A p \in DOMAIN s : s[p] \in 1 .. Len(n)
  BY <1>1
<1> QED
  BY <1>1, <1>2, <1>3

LEMMA HdrFilesAre ==
  ASSUME NEW f, NEW s, NEW n, HdrHyp(f, s, n)
  PROVE  LET s2 == HdrFs(f, s, n)
             n2 == HdrIno(f, s, n)
             x  == HdrIndex(f)
             m  == Main(f.m)
         IN  /\ x \in MainInodes
             /\ Typed(s2, n2) /\ Grew(n, n2, x)
             /\ m \in DOMAIN s2 /\ n2[s2[m]] = x
             /\ \A p \in DOMAIN s2 : p # m => p \in DOMAIN s /\ s2[p] = s[p] /\ n2[s2[p]] = n[s[p]] /\ s2[p] # s2[m]
             /\ \A p \in DOMAIN s : p # m /\ p \notin LostPaths(f) => p \in DOMAIN s2
             /\ DOMAIN s2 \cap LostPaths(f) = {}
<1> DEFINE s1 == Put(s, Main(f.m), HdrAt(f, s, n))
           s2 == HdrFs(f, s, n)
           n2 == HdrIno(f, s, n)
           x == HdrIndex(f)
           m == Main(f.m)
           at == HdrAt(f, s, n)
<1>1. f \in Units /\ f.m \in Mains /\ m \in Mains \X Nat /\ m[2] = 0
  BY MainIs DEF HdrHyp, Units
<1>2. x \in MainInodes
  BY <1>1, HdrIndexIs DEF HdrHyp
<1>3. Typed(s, n) /\ Len(n) \in Nat /\ DOMAIN n = 1 .. Len(n) /\ (\A k \in DOMAIN n : n[k] \in Inodes) /\ n \in Seq(Inodes)
  BY TypedIs DEF HdrHyp, Disk, Typed
<1>4. \A p \in DOMAIN s : p \in Mains \X Nat /\ s[p] \in DOMAIN n
  BY <1>3, TypedIs
<1>5. x \in Inodes
  BY <1>2 DEF Inodes
<1>6. /\ n2 \in Seq(Inodes) /\ Grew(n, n2, x) /\ at \in 1 .. Len(n2) /\ n2[at] = x
      /\ \A k \in DOMAIN n : k # at => n2[k] = n[k]
  <2>1. CASE m \notin DOMAIN s
    <3>1. n2 = Append(n, x) /\ at = Len(n) + 1
      BY <2>1 DEF HdrIno, HdrAt
    <3> HIDE DEF n2, x, at
    <3>2. n2 \in Seq(Inodes) /\ Len(n2) = Len(n) + 1 /\ n2[Len(n) + 1] = x /\ \A k \in 1 .. Len(n) : n2[k] = n[k]
      BY <1>3, <1>5, <3>1
    <3>3. DOMAIN n2 = 1 .. Len(n2) /\ \A k \in DOMAIN n2 : k \in DOMAIN n \/ k = Len(n) + 1
      BY <1>3, <3>2
    <3> QED
      BY <1>3, <3>1, <3>2, <3>3 DEF Grew
  <2>2. CASE m \in DOMAIN s
    <3>1. n2 = [n EXCEPT ![s[m]] = x] /\ at = s[m] /\ s[m] \in DOMAIN n
      BY <1>4, <2>2 DEF HdrIno, HdrAt
    <3> HIDE DEF n2, x, at
    <3>2. n2 \in Seq(Inodes) /\ Len(n2) = Len(n) /\ DOMAIN n2 = DOMAIN n /\ n2[at] = x /\ \A k \in DOMAIN n : k # at => n2[k] = n[k]
      BY <1>3, <1>5, <3>1
    <3> QED
      BY <1>3, <3>1, <3>2 DEF Grew
  <2> QED
    BY <2>1, <2>2
<1>7. /\ DOMAIN s1 = DOMAIN s \cup {m} /\ s1[m] = at /\ (\A q \in DOMAIN s : q # m => s1[q] = s[q]) /\ IsFiniteSet(DOMAIN s1)
  <2>1. IsFiniteSet(DOMAIN s)
    BY <1>3, TypedIs
  <2>2. s1 = Put(s, m, at)
    OBVIOUS
  <2> HIDE DEF s1, m, at
  <2>3. /\ DOMAIN Put(s, m, at) = DOMAIN s \cup {m} /\ Put(s, m, at)[m] = at
        /\ \A q \in DOMAIN s : q # m => Put(s, m, at)[q] = s[q]
    BY DEF Put
  <2>4. IsFiniteSet(DOMAIN Put(s, m, at))
    BY Zenon, <2>1, PutIs
  <2> QED
    BY <2>2, <2>3, <2>4
<1>8. s2 = Drop(s1, LostPaths(f))
  BY DEF HdrFs
<1>9. /\ DOMAIN s2 = DOMAIN s1 \ LostPaths(f) /\ \A q \in DOMAIN s2 : s2[q] = s1[q]
      /\ IsFiniteSet(DOMAIN s2) /\ s2 = [q \in DOMAIN s2 |-> s2[q]]
  <2>1. s2 = [q \in DOMAIN s1 \ LostPaths(f) |-> s1[q]]
    BY <1>8 DEF Drop, Restrict
  <2> HIDE DEF s1, s2
  <2> QED
    BY Zenon, <1>7, <1>8, <2>1, DropIs
<1>10. \A q \in LostPaths(f) : q[2] > 0
  BY DEF LostPaths, HdrHyp
<1>11. m \notin LostPaths(f)
  BY <1>1, <1>10
<1> HIDE DEF s1, s2, n2, x, m, at
<1>12. Typed(s2, n2)
  <2>1. Len(n2) \in Nat /\ Len(n) <= Len(n2)
    BY <1>6 DEF Grew
  <2>2. \A q \in DOMAIN s2 : s2[q] \in 1 .. Len(n2) /\ q \in Mains \X Nat
    <3> TAKE q \in DOMAIN s2
    <3>1. CASE q = m
      BY <1>1, <1>6, <1>7, <1>9, <3>1
    <3>2. CASE q # m
      <4>1. q \in DOMAIN s /\ s2[q] = s[q] /\ s[q] \in 1 .. Len(n)
        BY <1>3, <1>4, <1>7, <1>9, <3>2
      <4> QED
        BY <1>3, <1>4, <2>1, <4>1
    <3> QED
      BY <3>1, <3>2
  <2> QED
    BY <1>6, <1>9, <2>2 DEF Typed
<1>13. m \in DOMAIN s2 /\ s2[m] = at
  BY <1>7, <1>9, <1>11
<1>14. \A p \in DOMAIN s2 : p # m => p \in DOMAIN s /\ s2[p] = s[p] /\ s[p] # at
  <2> TAKE p \in DOMAIN s2
  <2> HAVE p # m
  <2>1. p \in DOMAIN s /\ s2[p] = s[p]
    BY <1>7, <1>9
  <2>2. CASE m \notin DOMAIN s
    <3>1. at = Len(n) + 1
      BY <2>2 DEF at, m, HdrAt
    <3>2. s[p] \in 1 .. Len(n)
      BY <1>3, <1>4, <2>1
    <3> QED
      BY <1>3, <2>1, <3>1, <3>2
  <2>3. CASE m \in DOMAIN s
    <3>1. at = s[m] /\ n[s[m]].kind = "ALTM"
      BY <2>3 DEF at, m, HdrAt, HdrHyp, HasMain
    <3>2. s[p] = s[m] => n[s[p]].kind = "PURE"
      BY <2>1, <2>3 DEF HdrHyp, Disk
    <3> QED
      BY <2>1, <3>1, <3>2
  <2> QED
    BY <2>2, <2>3
<1>15. \A p \in DOMAIN s2 : p # m => n2[s2[p]] = n[s[p]]
  BY <1>4, <1>6, <1>14
<1> QED
  BY <1>2, <1>6, <1>7, <1>9, <1>12, <1>13, <1>14, <1>15 DEF s2, n2, x, m

LEMMA HdrFileIs ==
  ASSUME NEW f \in Units
  PROVE  LET g == HdrFile(f)
         IN  /\ g \in Units /\ DOMAIN g.files = DOMAIN f.files /\ Len(g.files) = Len(f.files)
             /\ g.m = f.m /\ g.arts = f.arts /\ g.w = f.w /\ g.iart = f.iart /\ g.modified = f.modified /\ g.unlink = f.unlink
             /\ g.open
             /\ \A k \in DOMAIN f.files : /\ g.files[k].path = f.files[k].path /\ g.files[k].form = f.files[k].form
                                          /\ g.files[k].at = f.files[k].at
                                          /\ g.files[k].dead = (f.files[k].dead \/ k \in Lost(f))
             /\ Live(g) = Live(f) /\ Used(g) = Used(f)
             /\ Present(g) \subseteq Present(f) /\ Present(g) \cap Lost(f) = {}
<1> DEFINE g == HdrFile(f)
           G == [k \in DOMAIN f.files |-> IF k \in Lost(f) THEN [f.files[k] EXCEPT !.dead = TRUE] ELSE f.files[k]]
<1>1. f.files \in Seq(FileRecs) /\ DOMAIN f.files = 1 .. Len(f.files) /\ Len(f.files) \in Nat
      /\ \A k \in DOMAIN f.files : f.files[k] \in FileRecs
  BY DEF Units
<1>2. g = [f EXCEPT !.files = G]
  BY DEF HdrFile
<1>3. \A k \in DOMAIN f.files : /\ G[k] \in FileRecs /\ G[k].path = f.files[k].path /\ G[k].form = f.files[k].form
                                /\ G[k].at = f.files[k].at /\ G[k].dead = (f.files[k].dead \/ k \in Lost(f))
  <2> TAKE k \in DOMAIN f.files
  <2>1. f.files[k] \in FileRecs
    BY <1>1
  <2> QED
    BY <2>1 DEF FileRecs
<1>4. DOMAIN G = 1 .. Len(f.files)
  BY <1>1
<1>5. G \in [1 .. Len(f.files) -> FileRecs]
  BY <1>1, <1>3
<1>6. G \in Seq(FileRecs) /\ Len(G) = Len(f.files)
  BY <1>1, <1>5, SeqIs
<1> HIDE DEF G
<1>7. /\ g \in Units /\ g.files = G /\ g.m = f.m /\ g.arts = f.arts /\ g.w = f.w /\ g.iart = f.iart
      /\ g.modified = f.modified /\ g.unlink = f.unlink /\ g.open
  BY <1>2, <1>6 DEF Units
<1> HIDE DEF g
<1>8. Live(g) = Live(f) /\ Used(g) = Used(f)
  BY <1>1, <1>4, <1>7 DEF Live, Used
<1>9. Present(g) \subseteq Present(f) /\ Present(g) \cap Lost(f) = {}
  BY Zenon, <1>1, <1>3, <1>4, <1>7, <1>8 DEF Present, Lost
<1> QED
  BY <1>1, <1>3, <1>4, <1>6, <1>7, <1>8, <1>9 DEF g

\* The header of a unit whose sub-files are its own.
LEMMA SessionHdr ==
  ASSUME OrdinaryUse, NEW f, NEW s, NEW n, Disk(s, n), Session(f, s, n), Main(f.m) \in DOMAIN s => HasMain(s, n, f.m)
  PROVE  HdrHyp(f, s, n) /\ WriteHdr(State(f, s, n)) = State(HdrFile(f), HdrFs(f, s, n), HdrIno(f, s, n))
<1>1. f \in Units /\ \A i \in Live(f) : f.arts[i].ifh \in DOMAIN f.files /\ f.arts[i].namf \in Names
  BY Zenon DEF Session
<1>2. \A k \in Lost(f) : k \in Present(f) /\ k \in DOMAIN f.files
  BY DEF Lost, Present
<1>3. \A k \in Lost(f) : f.files[k].path \in DOMAIN s /\ f.files[k].path[2] > 0 /\ f.files[k].form = "any"
  BY Zenon, <1>2 DEF Session
<1>4. HdrHyp(f, s, n)
  BY <1>1, <1>3 DEF HdrHyp
<1> QED
  BY <1>1, <1>3, <1>4, FormsAre, WriteHdrIs

LEMMA NameLive ==
  ASSUME NEW f \in Units, NEW i \in Live(f)
  PROVE  i \in DOMAIN f.arts /\ f.arts[i] \in EntryRecs /\ f.arts[i].name \in Names /\ f.arts[i].name # Blank
<1>1. i \in DOMAIN f.arts /\ f.arts[i].name # Blank
  BY DEF Live
<1>2. f.arts \in Seq(EntryRecs)
  BY DEF Units
<1>3. f.arts[i] \in EntryRecs
  BY <1>1, <1>2
<1> QED
  BY <1>1, <1>3 DEF EntryRecs

\* The index it leaves is sound where the unit was.
LEMMA HdrIndexOK ==
  ASSUME OrdinaryUse, NEW f, NEW s, NEW n, HdrHyp(f, s, n),
         \A i, j \in Live(f) : f.arts[i].name = f.arts[j].name => i = j,
         \A k \in DOMAIN f.files : f.files[k].form = "any",
         Solid(f.m) => Session(f, s, n)
  PROVE  IndexOK(HdrFs(f, s, n), HdrIno(f, s, n), f.m, HdrIndex(f))
<1> DEFINE s2 == HdrFs(f, s, n)
           n2 == HdrIno(f, s, n)
           x == HdrIndex(f)
           U == Used(f)
           L == Live(f)
           of(i) == Ordered(L)[i]
           fo(k) == Ordered(U)[k]
<1>1. f \in Units /\ \A i \in L : f.arts[i].ifh \in DOMAIN f.files /\ f.arts[i].namf \in Names
  BY DEF HdrHyp
<1>2. DOMAIN x.arts = 1 .. Cardinality(L) /\ DOMAIN x.files = 1 .. Cardinality(U)
  BY <1>1, HdrIndexIs
<1>3. /\ L \in SUBSET Nat /\ IsFiniteSet(L) /\ U \in SUBSET Nat /\ IsFiniteSet(U)
  BY <1>1, ListsFinite
<1>4. \A i, j \in DOMAIN x.arts : of(i) = of(j) => i = j
  <2>1. \A i \in DOMAIN x.arts : RankIn(L, of(i)) = i
    BY <1>2, <1>3, OrderedIs
  <2> QED
    BY <2>1
<1>5. \A k, l \in DOMAIN x.files : fo(k) = fo(l) => k = l
  <2>1. \A k \in DOMAIN x.files : RankIn(U, fo(k)) = k
    BY <1>2, <1>3, OrderedIs
  <2> QED
    BY <2>1
<1>6. \A i \in DOMAIN x.arts :
        /\ of(i) \in L /\ x.arts[i].name = f.arts[of(i)].name /\ x.arts[i].namf = f.arts[of(i)].namf
        /\ x.arts[i].ifh \in DOMAIN x.files /\ x.files[x.arts[i].ifh].path = f.files[f.arts[of(i)].ifh].path
  BY <1>1, HdrIndexIs
<1>7. \A k \in DOMAIN x.files : fo(k) \in U /\ x.files[k].path = f.files[fo(k)].path /\ x.files[k].form = f.files[fo(k)].form
  BY <1>1, HdrIndexIs
<1>8. U \subseteq DOMAIN f.files /\ U \subseteq Present(f) /\ \A i \in L : f.arts[i].ifh \in U
  BY UsedIs, <1>1 DEF Used, Live
<1> HIDE DEF x, U, L, of, fo, s2, n2
<1>9. \A i \in DOMAIN x.arts : x.arts[i].name \in Names /\ x.arts[i].namf \in Names /\ x.arts[i].ifh \in DOMAIN x.files
  BY <1>1, <1>6, NameLive DEF L
<1>10. \A i, j \in DOMAIN x.arts : x.arts[i].name = x.arts[j].name => i = j
  BY <1>4, <1>6 DEF L
<1>11. \A k \in DOMAIN x.files : x.files[k].form = "any"
  BY <1>7, <1>8
<1>12. ASSUME Solid(f.m)
       PROVE  /\ \A k \in DOMAIN x.files : x.files[k].path \in DOMAIN s2 /\ x.files[k].path[1] = f.m /\ x.files[k].path[2] > 0
              /\ \A k, l \in DOMAIN x.files : x.files[k].path = x.files[l].path => k = l
              /\ \A i \in DOMAIN x.arts : n2[s2[x.files[x.arts[i].ifh].path]].art[x.arts[i].namf] # Nothing
  <2>1. Session(f, s, n)
    BY <1>12
  <2>2. \A k, l \in Present(f) : f.files[k].path = f.files[l].path => k = l
    BY Zenon, <2>1 DEF Session
  <2>3. \A k \in Present(f) : /\ f.files[k].path \in DOMAIN s /\ f.files[k].path[1] = f.m /\ f.files[k].path[2] > 0
    BY Zenon, <2>1 DEF Session
  <2>4. \A k \in U : f.files[k].path \notin LostPaths(f)
    <3>1. \A k \in Lost(f) : k \notin U /\ k \in Present(f)
      BY DEF Lost, Present, U
    <3> QED
      BY <1>8, <2>2, <3>1 DEF LostPaths
  <2>5. \A k \in U : f.files[k].path # Main(f.m)
    <3>1. f.m \in Mains
      BY <1>1 DEF Units
    <3> QED
      BY <1>8, <2>3, <3>1, MainIs
  <2>6. \A k \in U : f.files[k].path \in DOMAIN s2 /\ n2[s2[f.files[k].path]] = n[s[f.files[k].path]]
    <3>1. \A k \in U : f.files[k].path \in DOMAIN s2
      BY <1>8, <2>3, <2>4, <2>5, HdrFilesAre DEF s2, n2
    <3> QED
      BY <2>5, <3>1, HdrFilesAre DEF s2, n2
  <2>7. \A i \in L : n[s[f.files[f.arts[i].ifh].path]].art[f.arts[i].namf] # Nothing
    BY Zenon, <2>1 DEF Session, L
  <2>8. \A k \in DOMAIN x.files : x.files[k].path \in DOMAIN s2 /\ x.files[k].path[1] = f.m /\ x.files[k].path[2] > 0
    BY <1>7, <1>8, <2>3, <2>6
  <2>9. \A k, l \in DOMAIN x.files : x.files[k].path = x.files[l].path => k = l
    BY <1>5, <1>7, <1>8, <2>2
  <2>10. \A i \in DOMAIN x.arts : n2[s2[x.files[x.arts[i].ifh].path]].art[x.arts[i].namf] # Nothing
    <3> TAKE i \in DOMAIN x.arts
    <3>1. of(i) \in L /\ f.arts[of(i)].ifh \in U
      BY <1>6, <1>8
    <3> DEFINE q == f.files[f.arts[of(i)].ifh].path
    <3>2. x.files[x.arts[i].ifh].path = q /\ x.arts[i].namf = f.arts[of(i)].namf
      BY <1>6
    <3>3. n2[s2[q]] = n[s[q]]
      BY Zenon, <2>6, <3>1
    <3>4. n[s[q]].art[f.arts[of(i)].namf] # Nothing
      BY Zenon, <2>7, <3>1
    <3> HIDE DEF q
    <3> QED
      BY <3>2, <3>3, <3>4
  <2> QED
    BY Zenon, <2>8, <2>9, <2>10
<1> QED
  BY Zenon, <1>9, <1>10, <1>11, <1>12 DEF IndexOK, s2, n2, x

\* An index stays sound where the paths of its main file stay and no article goes.
LEMMA IndexStays ==
  ASSUME NEW s, NEW n, NEW s2, NEW n2, NEW m, NEW x, IndexOK(s, n, m, x),
         Solid(m) => \A p \in DOMAIN s : p[1] = m /\ p[2] > 0 =>
           p \in DOMAIN s2 /\ \A a \in Names : n[s[p]].art[a] # Nothing => n2[s2[p]].art[a] # Nothing
  PROVE  IndexOK(s2, n2, m, x)
<1>1. ASSUME Solid(m)
      PROVE  /\ \A k \in DOMAIN x.files : x.files[k].path \in DOMAIN s2
             /\ \A i \in DOMAIN x.arts : n2[s2[x.files[x.arts[i].ifh].path]].art[x.arts[i].namf] # Nothing
  <2>1. \A k \in DOMAIN x.files : x.files[k].path \in DOMAIN s /\ x.files[k].path[1] = m /\ x.files[k].path[2] > 0
    BY Zenon, <1>1 DEF IndexOK
  <2>2. \A i \in DOMAIN x.arts : n[s[x.files[x.arts[i].ifh].path]].art[x.arts[i].namf] # Nothing
    BY Zenon, <1>1 DEF IndexOK
  <2>3. \A i \in DOMAIN x.arts : x.arts[i].namf \in Names /\ x.arts[i].ifh \in DOMAIN x.files
    BY Zenon DEF IndexOK
  <2> QED
    BY Zenon, <1>1, <2>1, <2>2, <2>3
<1> QED
  BY Zenon, <1>1 DEF IndexOK

LEMMA HdrDisk ==
  ASSUME OrdinaryUse, NEW f, NEW s, NEW n, HdrHyp(f, s, n),
         \A i, j \in Live(f) : f.arts[i].name = f.arts[j].name => i = j,
         \A k \in DOMAIN f.files : f.files[k].form = "any",
         Solid(f.m) => Session(f, s, n),
         ~Solid(f.m) => Lost(f) = {}
  PROVE  Disk(HdrFs(f, s, n), HdrIno(f, s, n)) /\ HasMain(HdrFs(f, s, n), HdrIno(f, s, n), f.m)
<1> DEFINE s2 == HdrFs(f, s, n)
           n2 == HdrIno(f, s, n)
           x == HdrIndex(f)
           c == Main(f.m)
<1>1. f \in Units /\ f.m \in Mains /\ Disk(s, n)
  BY DEF HdrHyp, Units
<1>2. /\ x \in MainInodes /\ Typed(s2, n2) /\ c \in DOMAIN s2 /\ n2[s2[c]] = x
      /\ \A p \in DOMAIN s2 : p # c => p \in DOMAIN s /\ s2[p] = s[p] /\ n2[s2[p]] = n[s[p]] /\ s2[p] # s2[c]
      /\ \A p \in DOMAIN s : p # c /\ p \notin LostPaths(f) => p \in DOMAIN s2
  BY HdrFilesAre
<1>3. IndexOK(s2, n2, f.m, x)
  BY HdrIndexOK
<1>4. \A p \in LostPaths(f) : p[1] = f.m /\ p[2] > 0
  <2>1. CASE Solid(f.m)
    <3>1. Session(f, s, n)
      BY <2>1
    <3>2. \A k \in Lost(f) : k \in Present(f)
      BY DEF Lost, Present
    <3> QED
      BY Zenon, <3>1, <3>2 DEF Session, LostPaths
  <2>2. CASE ~Solid(f.m)
    BY <2>2 DEF LostPaths
  <2> QED
    BY <2>1, <2>2
<1>5. x.kind = "ALTM" /\ c[2] = 0 /\ c[1] = f.m
  BY <1>1, <1>2, MainIs DEF MainInodes
<1> HIDE DEF s2, n2, x, c
<1>6. \A p \in DOMAIN s2 : p[2] > 0 => n2[s2[p]].kind = "PURE"
  <2> TAKE p \in DOMAIN s2
  <2> HAVE p[2] > 0
  <2>1. p # c
    BY <1>5
  <2>2. n[s[p]].kind = "PURE"
    BY <1>1, <1>2, <2>1 DEF Disk
  <2> QED
    BY <1>2, <2>1, <2>2
<1>7. \A p, q \in DOMAIN s2 : s2[p] = s2[q] /\ p # q => n2[s2[p]].kind = "PURE"
  <2> SUFFICES ASSUME NEW p \in DOMAIN s2, NEW q \in DOMAIN s2, s2[p] = s2[q], p # q PROVE n2[s2[p]].kind = "PURE"
    OBVIOUS
  <2>1. p # c /\ q # c
    BY <1>2
  <2>2. p \in DOMAIN s /\ q \in DOMAIN s /\ s[p] = s[q] /\ n2[s2[p]] = n[s[p]]
    BY <1>2, <2>1
  <2> QED
    BY <1>1, <2>2 DEF Disk
<1>8. \A m \in Mains : HasMain(s2, n2, m) => IndexOK(s2, n2, m, n2[s2[Main(m)]])
  <2> SUFFICES ASSUME NEW m \in Mains, HasMain(s2, n2, m) PROVE IndexOK(s2, n2, m, n2[s2[Main(m)]])
    OBVIOUS
  <2>1. CASE m = f.m
    BY <1>2, <1>3, <2>1 DEF c
  <2>2. CASE m # f.m
    <3>1. Main(m) # c /\ Main(m) \in DOMAIN s2
      BY <1>5, <2>2, MainIs DEF HasMain
    <3>2. Main(m) \in DOMAIN s /\ n2[s2[Main(m)]] = n[s[Main(m)]]
      BY <1>2, <3>1
    <3>3. HasMain(s, n, m)
      BY <3>2 DEF HasMain
    <3>4. IndexOK(s, n, m, n[s[Main(m)]])
      BY <1>1, <3>3 DEF Disk
    <3>5. \A p \in DOMAIN s : p[1] = m /\ p[2] > 0 => p \in DOMAIN s2 /\ n2[s2[p]] = n[s[p]]
      <4> TAKE p \in DOMAIN s
      <4> HAVE p[1] = m /\ p[2] > 0
      <4>1. p # c /\ p \notin LostPaths(f)
        BY <1>4, <1>5, <2>2
      <4> QED
        BY <1>2, <4>1
    <3>6. IndexOK(s2, n2, m, n[s[Main(m)]])
      BY <3>4, <3>5, IndexStays
    <3> QED
      BY <3>2, <3>6
  <2> QED
    BY <2>1, <2>2
<1> QED
  BY <1>2, <1>5, <1>6, <1>7, <1>8 DEF Disk, HasMain, s2, n2, c

\* What a unit that was changed in other ways keeps.
LEMMA SessionSame ==
  ASSUME NEW f, NEW g \in Units, NEW s, NEW n, Session(f, s, n), g.m = f.m, g.files = f.files, g.arts = f.arts
  PROVE  Session(g, s, n) /\ Present(g) = Present(f) /\ Live(g) = Live(f) /\ Used(g) = Used(f)
<1>1. Present(g) = Present(f) /\ Live(g) = Live(f) /\ Used(g) = Used(f)
  BY DEF Present, Live, Used
<1> QED
  BY Zenon, <1>1 DEF Session

\* The parts of a state.
LEMMA StateIn ==
  ASSUME NEW r, NEW a, NEW s, NEW n, r \in [f : {a}, fs : {s}, ino : {n}, ok : {TRUE}]
  PROVE  r = State(a, s, n)
BY DEF State

LEMMA UnitIs ==
  ASSUME NEW f \in Units
  PROVE  /\ f.open /\ f.m \in Mains
         /\ f.files \in Seq(FileRecs) /\ DOMAIN f.files = 1 .. Len(f.files) /\ Len(f.files) \in Nat
         /\ \A l \in DOMAIN f.files : f.files[l] \in FileRecs
         /\ f.arts \in Seq(EntryRecs) /\ DOMAIN f.arts = 1 .. Len(f.arts) /\ Len(f.arts) \in Nat
         /\ \A i \in DOMAIN f.arts : f.arts[i] \in EntryRecs
         /\ f.iart \in Nat /\ f.w \in Nat /\ f.modified \in BOOLEAN /\ f.unlink \in BOOLEAN
<1>1. f.files \in Seq(FileRecs) /\ f.arts \in Seq(EntryRecs)
  BY DEF Units
<1>2. /\ f.open /\ f.m \in Mains /\ f.iart \in Nat /\ f.w \in Nat /\ f.modified \in BOOLEAN /\ f.unlink \in BOOLEAN
  BY DEF Units
<1> QED
  BY <1>1, <1>2

LEMMA StateIs ==
  ASSUME NEW a, NEW s, NEW n, NEW b
  PROVE  /\ State(a, s, n).f = a /\ State(a, s, n).fs = s /\ State(a, s, n).ino = n /\ State(a, s, n).ok = TRUE
         /\ [State(a, s, n) EXCEPT !.f = b] = State(b, s, n)
         /\ [State(a, s, n) EXCEPT !.fs = b] = State(a, b, n)
         /\ [State(a, s, n) EXCEPT !.ino = b] = State(a, s, b)
<1> DEFINE r1 == [State(a, s, n) EXCEPT !.f = b]
           r2 == [State(a, s, n) EXCEPT !.fs = b]
           r3 == [State(a, s, n) EXCEPT !.ino = b]
<1>1. r1 \in [f : {b}, fs : {s}, ino : {n}, ok : {TRUE}]
  BY DEF State
<1>2. r2 \in [f : {a}, fs : {b}, ino : {n}, ok : {TRUE}]
  BY DEF State
<1>3. r3 \in [f : {a}, fs : {s}, ino : {b}, ok : {TRUE}]
  BY DEF State
<1>4. State(a, s, n).f = a /\ State(a, s, n).fs = s /\ State(a, s, n).ino = n /\ State(a, s, n).ok = TRUE
  BY DEF State
<1> HIDE DEF r1, r2, r3
<1>5. r1 = State(b, s, n)
  BY <1>1, StateIn
<1>6. r2 = State(a, b, n)
  BY <1>2, StateIn
<1>7. r3 = State(a, s, b)
  BY <1>3, StateIn
<1> QED
  BY <1>4, <1>5, <1>6, <1>7 DEF r1, r2, r3

LEMMA ClosedIs == Closed.open = FALSE
BY DEF Closed

LEMMA UnitOpen == \A f \in Units : f.open = TRUE
BY DEF Units

\* The header keeps a session.
LEMMA HdrSession ==
  ASSUME OrdinaryUse, NEW f, NEW s, NEW n, Disk(s, n), Session(f, s, n), Main(f.m) \in DOMAIN s => HasMain(s, n, f.m)
  PROVE  /\ Session(HdrFile(f), HdrFs(f, s, n), HdrIno(f, s, n))
         /\ \A k \in Present(f) : k \notin Lost(f) =>
              /\ f.files[k].path \in DOMAIN HdrFs(f, s, n) /\ HdrFs(f, s, n)[f.files[k].path] = s[f.files[k].path]
              /\ HdrIno(f, s, n)[s[f.files[k].path]] = n[s[f.files[k].path]]
<1> DEFINE s2 == HdrFs(f, s, n)
           n2 == HdrIno(f, s, n)
           g == HdrFile(f)
           c == Main(f.m)
<1>1. f \in Units /\ f.m \in Mains /\ HdrHyp(f, s, n)
  BY Zenon, SessionHdr DEF Session, Units
<1>2. /\ \A p \in DOMAIN s2 : p # c => p \in DOMAIN s /\ s2[p] = s[p] /\ n2[s2[p]] = n[s[p]]
      /\ \A p \in DOMAIN s : p # c /\ p \notin LostPaths(f) => p \in DOMAIN s2
  BY <1>1, HdrFilesAre
<1>3. /\ g \in Units /\ DOMAIN g.files = DOMAIN f.files /\ g.m = f.m /\ g.arts = f.arts
      /\ \A k \in DOMAIN f.files : /\ g.files[k].path = f.files[k].path /\ g.files[k].form = f.files[k].form
                                   /\ g.files[k].at = f.files[k].at
      /\ Live(g) = Live(f) /\ Used(g) = Used(f)
      /\ Present(g) \subseteq Present(f) /\ Present(g) \cap Lost(f) = {}
  BY <1>1, HdrFileIs
<1>4. c[2] = 0
  BY <1>1, MainIs
<1>5. Present(f) \subseteq DOMAIN f.files /\ Lost(f) \subseteq Present(f)
  BY UsedIs DEF Lost, Present
<1>6. \A k \in Present(f) : k \notin Lost(f) =>
        f.files[k].path \in DOMAIN s /\ f.files[k].path # c /\ f.files[k].path \notin LostPaths(f)
  <2> SUFFICES ASSUME NEW k \in Present(f), k \notin Lost(f)
               PROVE  f.files[k].path \in DOMAIN s /\ f.files[k].path # c /\ f.files[k].path \notin LostPaths(f)
    OBVIOUS
  <2>1. f.files[k].path \in DOMAIN s /\ f.files[k].path[2] > 0
    BY Zenon DEF Session
  <2>2. \A l \in Lost(f) : f.files[l].path # f.files[k].path
    BY Zenon, <1>5 DEF Session
  <2> QED
    BY <1>4, <2>1, <2>2 DEF LostPaths
<1> HIDE DEF s2, n2, g, c
<1>7. \A k \in Present(f) : k \notin Lost(f) =>
        f.files[k].path \in DOMAIN s2 /\ s2[f.files[k].path] = s[f.files[k].path] /\ n2[s[f.files[k].path]] = n[s[f.files[k].path]]
  <2>1. \A k \in Present(f) : k \notin Lost(f) => f.files[k].path \in DOMAIN s2 /\ f.files[k].path # c
    BY <1>2, <1>6
  <2> QED
    BY <1>2, <2>1
<1>8. \A k \in Present(g) : k \in Present(f) /\ k \notin Lost(f) /\ k \in DOMAIN f.files
  BY <1>3, <1>5
<1>9. \A k \in Present(g) : /\ g.files[k].path \in DOMAIN s2 /\ g.files[k].path[1] = g.m /\ g.files[k].path[2] > 0
                            /\ g.files[k].at \in {0, s2[g.files[k].path]}
  <2> TAKE k \in Present(g)
  <2>1. f.files[k].path[1] = f.m /\ f.files[k].path[2] > 0 /\ f.files[k].at \in {0, s[f.files[k].path]}
    BY Zenon, <1>8 DEF Session
  <2> QED
    BY <1>3, <1>7, <1>8, <2>1
<1>10. \A i \in Live(g) : /\ g.arts[i].ifh \in DOMAIN g.files /\ g.arts[i].namf \in Names
                          /\ n2[s2[g.files[g.arts[i].ifh].path]].art[g.arts[i].namf] # Nothing
  <2> TAKE i \in Live(g)
  <2> DEFINE k == f.arts[i].ifh
  <2>1. k \in DOMAIN f.files /\ f.arts[i].namf \in Names /\ n[s[f.files[k].path]].art[f.arts[i].namf] # Nothing
    BY Zenon, <1>3 DEF Session
  <2>2. k \in Used(f)
    BY Zenon, <1>3, <2>1, UsedIs
  <2>3. k \in Present(f) /\ k \notin Lost(f)
    BY <2>2, UsedIs DEF Lost
  <2>4. s2[f.files[k].path] = s[f.files[k].path] /\ n2[s[f.files[k].path]] = n[s[f.files[k].path]]
    BY Zenon, <1>7, <2>3
  <2>5. n2[s2[f.files[k].path]].art[f.arts[i].namf] # Nothing
    BY Zenon, <2>1, <2>4
  <2> QED
    BY Zenon, <1>3, <2>1, <2>5
<1>11. \A i, j \in Live(g) : g.arts[i].name = g.arts[j].name => i = j
  BY Zenon, <1>3 DEF Session
<1>12. \A k \in DOMAIN g.files : g.files[k].form = "any"
  BY Zenon, <1>3 DEF Session
<1>13. \A k, l \in Present(g) : g.files[k].path = g.files[l].path => k = l
  BY Zenon, <1>3, <1>8 DEF Session
<1> QED
  BY Zenon, <1>3, <1>7, <1>9, <1>10, <1>11, <1>12, <1>13 DEF Session, s2, n2, g

\* Sub-files of other main files stay as they are.
LEMMA HdrOwnedElsewhere ==
  ASSUME NEW f, NEW s, NEW n, HdrHyp(f, s, n), NEW p \in DOMAIN HdrFs(f, s, n), p[1] # f.m, p[1] \in Mains,
         HasMain(s, n, p[1]), \E x \in Range(n[s[Main(p[1])]].files) : x.path = p
  PROVE  /\ HasMain(HdrFs(f, s, n), HdrIno(f, s, n), p[1])
         /\ \E x \in Range(HdrIno(f, s, n)[HdrFs(f, s, n)[Main(p[1])]].files) : x.path = p
<1>1. f.m \in Mains /\ \A k \in Lost(f) : f.files[k].path[2] > 0
  BY DEF HdrHyp, Units
<1>2. Main(p[1]) # Main(f.m) /\ Main(p[1]) \in DOMAIN s /\ Main(p[1])[2] = 0
  BY <1>1, MainIs DEF HasMain
<1>3. Main(p[1]) \notin LostPaths(f)
  BY <1>1, <1>2 DEF LostPaths
<1>4. Main(p[1]) \in DOMAIN HdrFs(f, s, n)
  BY <1>2, <1>3, HdrFilesAre
<1>5. HdrIno(f, s, n)[HdrFs(f, s, n)[Main(p[1])]] = n[s[Main(p[1])]]
  BY <1>2, <1>4, HdrFilesAre
<1> QED
  BY <1>4, <1>5 DEF HasMain

\* While no process has died, the header of a session lists or unlinks each of
\* its sub-files.
LEMMA HdrUndying ==
  ASSUME OrdinaryUse, NEW f, NEW s, NEW n, Disk(s, n), Session(f, s, n), f.unlink, Undying(f, s, n),
         Main(f.m) \in DOMAIN s => HasMain(s, n, f.m)
  PROVE  /\ Undying(HdrFile(f), HdrFs(f, s, n), HdrIno(f, s, n))
         /\ "merge" \notin Tools => Owned(Closed, HdrFs(f, s, n), HdrIno(f, s, n))
<1> DEFINE s2 == HdrFs(f, s, n)
           n2 == HdrIno(f, s, n)
           g == HdrFile(f)
           c == Main(f.m)
           x == HdrIndex(f)
<1>1. f \in Units /\ f.m \in Mains /\ HdrHyp(f, s, n) /\ f.open
  BY Zenon, SessionHdr, UnitOpen DEF Session, Units
<1>2. /\ x \in MainInodes /\ Grew(n, n2, x) /\ Typed(s2, n2) /\ c \in DOMAIN s2 /\ n2[s2[c]] = x
      /\ \A p \in DOMAIN s2 : p # c => p \in DOMAIN s /\ s2[p] = s[p] /\ n2[s2[p]] = n[s[p]]
      /\ DOMAIN s2 \cap LostPaths(f) = {}
  BY <1>1, HdrFilesAre
<1>3. /\ g \in Units /\ DOMAIN g.files = DOMAIN f.files /\ g.m = f.m /\ g.arts = f.arts /\ g.open
      /\ \A k \in DOMAIN f.files : /\ g.files[k].path = f.files[k].path /\ g.files[k].at = f.files[k].at
                                   /\ g.files[k].dead = (f.files[k].dead \/ k \in Lost(f))
      /\ Present(g) \subseteq Present(f) /\ Present(g) \cap Lost(f) = {}
  BY <1>1, HdrFileIs
<1>4. c[2] = 0 /\ x.kind = "ALTM" /\ c[1] = f.m
  BY <1>1, <1>2, MainIs DEF MainInodes
<1>5. Clean(g, n2)
  <2>1. Clean(f, n)
    BY DEF Undying
  <2>2. \A k \in DOMAIN n2 : n2[k].kind # "UNKN"
    BY <1>2, <1>4, <2>1 DEF Clean, Grew
  <2>3. \A k \in DOMAIN n2 : n2[k].kind = "PURE" /\ ~n2[k].clean => \E j \in DOMAIN g.files : g.files[j].at = k
    <3> SUFFICES ASSUME NEW k \in DOMAIN n2, n2[k].kind = "PURE", ~n2[k].clean PROVE \E j \in DOMAIN g.files : g.files[j].at = k
      OBVIOUS
    <3>1. k \in DOMAIN n /\ n2[k] = n[k]
      BY <1>2, <1>4 DEF Grew
    <3>2. \E j \in DOMAIN f.files : f.files[j].at = k
      BY <2>1, <3>1 DEF Clean
    <3> QED
      BY <1>3, <3>2
  <2> QED
    BY <1>3, <2>2, <2>3 DEF Clean
<1>6. Readable(g, s2, n2)
  <2> SUFFICES ASSUME NEW k \in Present(g), g.files[k].at = 0 PROVE n2[s2[g.files[k].path]].clean
    BY DEF Readable
  <2>1. k \in Present(f) /\ k \notin Lost(f) /\ k \in DOMAIN f.files
    BY <1>3, UsedIs
  <2>2. n[s[f.files[k].path]].clean
    BY <1>1, <1>3, <2>1 DEF Undying, Readable
  <2>3. HdrFs(f, s, n)[f.files[k].path] = s[f.files[k].path] /\ HdrIno(f, s, n)[s[f.files[k].path]] = n[s[f.files[k].path]]
    BY <2>1, HdrSession
  <2> QED
    BY <1>3, <2>1, <2>2, <2>3
<1>7. ASSUME "merge" \notin Tools PROVE Owned(g, s2, n2) /\ Owned(Closed, s2, n2)
  <2>1. Owned(f, s, n)
    BY <1>7 DEF Undying
  <2> SUFFICES ASSUME NEW p \in DOMAIN s2, p[2] > 0
               PROVE  /\ p[1] # f.m => HasMain(s2, n2, p[1]) /\ \E y \in Range(n2[s2[Main(p[1])]].files) : y.path = p
                      /\ p[1] = f.m => /\ \E k \in DOMAIN g.files : ~g.files[k].dead /\ g.files[k].path = p
                                       /\ \E y \in Range(n2[s2[Main(p[1])]].files) : y.path = p
                                       /\ HasMain(s2, n2, p[1])
    BY <1>3, ClosedIs DEF Owned
  <2>2. p # c
    BY <1>4
  <2>3. p \in DOMAIN s /\ p \notin LostPaths(f)
    BY <1>2, <2>2
  <2>4. p[1] \in Mains
    BY <1>2, TypedIs
  <2>5. CASE p[1] # f.m
    <3>1. HasMain(s, n, p[1]) /\ \E y \in Range(n[s[Main(p[1])]].files) : y.path = p
      BY <2>1, <2>3, <2>5 DEF Owned
    <3> QED
      BY <1>1, <2>4, <2>5, <3>1, HdrOwnedElsewhere
  <2>6. CASE p[1] = f.m
    <3>1. PICK k \in DOMAIN f.files : ~f.files[k].dead /\ f.files[k].path = p
      BY <1>1, <2>1, <2>3, <2>6 DEF Owned
    <3>2. k \notin Lost(f)
      BY <2>3, <3>1 DEF LostPaths
    <3>3. ~g.files[k].dead /\ g.files[k].path = p
      BY Zenon, <1>3, <3>1, <3>2
    <3>4. k \in Used(f)
      BY <3>1, <3>2 DEF Lost
    <3>5. RankIn(Used(f), k) \in DOMAIN x.files /\ x.files[RankIn(Used(f), k)].path = p
      BY <1>1, <3>1, <3>4, HdrIndexIs DEF HdrHyp
    <3>6. \E y \in Range(x.files) : y.path = p
      BY <3>5 DEF Range
    <3>7. HasMain(s2, n2, f.m) /\ n2[s2[Main(f.m)]] = x
      BY <1>2, <1>4 DEF HasMain
    <3> QED
      BY <1>3, <2>6, <3>1, <3>3, <3>6, <3>7
  <2> QED
    BY <2>5, <2>6
<1> QED
  BY <1>5, <1>6, <1>7 DEF Undying

-----------------------------------------------------------------------------
(* fh_modified: the header at the first change. *)

\* A unit a call has changed, before fh_modified
Ready(f, s, n) ==
  /\ Disk(s, n) /\ Session(f, s, n) /\ f.m \in Opened /\ f.unlink
  /\ f.w \in 0 .. Len(f.files)
  /\ f.w > 0 => f.files[f.w].at > 0 /\ ~f.files[f.w].dead /\ (f.modified \/ f.w \in Used(f))
  /\ Main(f.m) \in DOMAIN s \/ f.modified => HasMain(s, n, f.m)

\* A main file that programs open is not made by the index tool.
LEMMA SolidOpened ==
  ASSUME OrdinaryUse, inst \in Instances, NEW m \in Opened
  PROVE  Solid(m)
BY DEF OrdinaryUse, Solid, Opened, Tools, Targets

LEMMA UnlinkFacts ==
  ASSUME NEW f, NEW s, NEW n, NEW g, g.files = f.files, g.m = f.m, g.open = f.open, g.arts = f.arts
  PROVE  Undying(f, s, n) => Undying(g, s, n)
<1>1. Present(g) = Present(f)
  BY DEF Present, Used
<1> QED
  BY <1>1 DEF Undying, Clean, Readable, Owned

LEMMA ModifiedIs ==
  ASSUME OrdinaryUse, inst \in Instances, NEW f, NEW s, NEW n, Ready(f, s, n)
  PROVE  \E g, s2, n2 :
           /\ Modified(State(f, s, n)) = State(g, s2, n2)
           /\ Disk(s2, n2) /\ OpenOK(g, s2, n2)
           /\ g.arts = f.arts /\ g.m = f.m /\ g.modified
           /\ Undying(f, s, n) => Undying(g, s2, n2)
<1>1. f \in Units
  BY Zenon DEF Ready, Session
<1>2. CASE f.modified
  <2>1. Modified(State(f, s, n)) = State(f, s, n)
    BY <1>2 DEF Modified, State
  <2>2. OpenOK(f, s, n)
    BY <1>2 DEF Ready, OpenOK
  <2>3. Disk(s, n)
    BY DEF Ready
  <2> QED
    BY <1>2, <2>1, <2>2, <2>3
<1>3. CASE ~f.modified
  <2> DEFINE e == [f EXCEPT !.modified = TRUE]
             g == HdrFile(e)
             s2 == HdrFs(e, s, n)
             n2 == HdrIno(e, s, n)
  <2>1. /\ e \in Units /\ e.m = f.m /\ e.files = f.files /\ e.arts = f.arts /\ e.open = f.open /\ e.unlink = f.unlink
        /\ e.w = f.w /\ e.modified
    BY <1>1 DEF Units
  <2>2. Modified(State(f, s, n)) = WriteHdr(State(e, s, n))
    <3> DEFINE r == State(f, s, n)
    <3>1. r.f = f
      BY DEF State
    <3>2. [r EXCEPT !.f.modified = TRUE] = State(e, s, n)
      <4> DEFINE q == [r EXCEPT !.f.modified = TRUE]
      <4>1. q.f = [f EXCEPT !.modified = TRUE] /\ q.fs = s /\ q.ino = n /\ q.ok = TRUE
            /\ q = [x \in {"f", "fs", "ino", "ok"} |-> q[x]]
        BY Zenon DEF State
      <4>2. q \in [f : {e}, fs : {s}, ino : {n}, ok : {TRUE}]
        BY <4>1
      <4> HIDE DEF q, e
      <4>3. q = State(e, s, n)
        BY <4>2, StateIn
      <4> QED
        BY <4>3 DEF q
    <3> HIDE DEF r, e
    <3>3. Modified(r) = WriteHdr([r EXCEPT !.f.modified = TRUE])
      BY <1>3, <3>1 DEF Modified
    <3> QED
      BY Zenon, <3>2, <3>3 DEF r
  <2> HIDE DEF e
  <2>3. Session(e, s, n) /\ Used(e) = Used(f) /\ Live(e) = Live(f)
    BY <2>1, SessionSame DEF Ready
  <2>4. Disk(s, n) /\ (Main(e.m) \in DOMAIN s => HasMain(s, n, e.m))
    BY <2>1 DEF Ready
  <2>5. WriteHdr(State(e, s, n)) = State(g, s2, n2) /\ HdrHyp(e, s, n)
    BY <2>3, <2>4, SessionHdr
  <2>6. Disk(s2, n2) /\ HasMain(s2, n2, e.m)
    <3>1. Solid(e.m)
      <4>1. f.m \in Opened
        BY DEF Ready
      <4> QED
        BY <2>1, <4>1, SolidOpened
    <3>2. /\ \A i, j \in Live(e) : e.arts[i].name = e.arts[j].name => i = j
          /\ \A k \in DOMAIN e.files : e.files[k].form = "any"
      BY Zenon, <2>3 DEF Session
    <3> QED
      BY <2>3, <2>5, <3>1, <3>2, HdrDisk
  <2>7. Session(g, s2, n2)
    BY <2>3, <2>4, HdrSession
  <2>8. /\ DOMAIN g.files = DOMAIN e.files /\ g.m = e.m /\ g.arts = e.arts /\ g.w = e.w /\ g.modified = e.modified
        /\ g.unlink = e.unlink /\ Len(g.files) = Len(e.files)
        /\ \A k \in DOMAIN e.files : g.files[k].at = e.files[k].at /\ g.files[k].dead = (e.files[k].dead \/ k \in Lost(e))
    BY <2>1, HdrFileIs
  <2>9. OpenOK(g, s2, n2)
    <3>1. g.m \in Opened /\ g.unlink /\ g.w \in 0 .. Len(g.files)
      BY <2>1, <2>8 DEF Ready
    <3>2. ASSUME g.w > 0 PROVE g.modified /\ g.files[g.w].at > 0 /\ ~g.files[g.w].dead
      <4>1. f.files[f.w].at > 0 /\ ~f.files[f.w].dead /\ f.w \in Used(f)
        BY <1>3, <2>1, <2>8, <3>2 DEF Ready
      <4>2. f.w \in DOMAIN e.files /\ f.w \notin Lost(e)
        BY <2>1, <2>3, <4>1 DEF Used, Lost
      <4> QED
        BY <2>1, <2>8, <4>1, <4>2
    <3> QED
      BY <2>6, <2>7, <2>8, <3>1, <3>2 DEF OpenOK
  <2>10. ASSUME Undying(f, s, n) PROVE Undying(g, s2, n2)
    <3>1. Undying(e, s, n)
      BY <2>1, <2>10, UnlinkFacts
    <3> QED
      BY <2>1, <2>3, <2>4, <3>1, HdrUndying DEF Ready
  <2> QED
    BY <2>1, <2>2, <2>5, <2>6, <2>8, <2>9, <2>10
<1> QED
  BY <1>2, <1>3

-----------------------------------------------------------------------------
(* getfhr: a sub-file is opened. *)

AtFile(f, s, k) == [f EXCEPT !.files = [f.files EXCEPT ![k] = [f.files[k] EXCEPT !.at = s[f.files[k].path]]]]

LEMMA AtFileIs ==
  ASSUME NEW f, NEW s, NEW n, Disk(s, n), Session(f, s, n), NEW k \in Present(f), f.files[k].at = 0
  PROVE  LET g == AtFile(f, s, k)
         IN  /\ g \in Units /\ DOMAIN g.files = DOMAIN f.files /\ Len(g.files) = Len(f.files)
             /\ g.m = f.m /\ g.arts = f.arts /\ g.w = f.w /\ g.iart = f.iart /\ g.modified = f.modified /\ g.unlink = f.unlink
             /\ g.open
             /\ \A l \in DOMAIN f.files : /\ g.files[l].path = f.files[l].path /\ g.files[l].form = f.files[l].form
                                          /\ g.files[l].dead = f.files[l].dead
                                          /\ g.files[l].at = IF l = k THEN s[f.files[k].path] ELSE f.files[l].at
             /\ g.files[k].at > 0
             /\ Live(g) = Live(f) /\ Used(g) = Used(f) /\ Present(g) = Present(f)
             /\ Session(g, s, n)
             /\ HasMain(s, n, f.m) /\ OpenOK(f, s, n) => OpenOK(g, s, n)
             /\ Undying(f, s, n) => Undying(g, s, n)
<1> DEFINE g == AtFile(f, s, k)
           x == s[f.files[k].path]
           F == [f.files EXCEPT ![k] = [f.files[k] EXCEPT !.at = x]]
<1>1. /\ f \in Units /\ f.files \in Seq(FileRecs) /\ DOMAIN f.files = 1 .. Len(f.files) /\ Len(f.files) \in Nat
      /\ (\A l \in DOMAIN f.files : f.files[l] \in FileRecs) /\ f.open
  <2>1. f \in Units
    BY Zenon DEF Session
  <2> QED
    BY <2>1, UnitIs
<1>2. k \in DOMAIN f.files /\ f.files[k].path \in DOMAIN s /\ Typed(s, n)
  BY Zenon, UsedIs DEF Session, Disk
<1>3. x \in Nat \ {0}
  BY <1>2, TypedIs
<1> HIDE DEF x
<1>4. [f.files[k] EXCEPT !.at = x] \in FileRecs
  BY Zenon, <1>1, <1>2, <1>3 DEF FileRecs
<1>5. F \in Seq(FileRecs) /\ Len(F) = Len(f.files) /\ DOMAIN F = DOMAIN f.files
  BY <1>1, <1>2, <1>4
<1>6. \A l \in DOMAIN f.files : /\ F[l].path = f.files[l].path /\ F[l].form = f.files[l].form
                                /\ F[l].dead = f.files[l].dead
                                /\ F[l].at = IF l = k THEN x ELSE f.files[l].at
  BY Zenon, <1>1, <1>2 DEF FileRecs
<1>7. g = [f EXCEPT !.files = F]
  BY DEF AtFile, x
<1> HIDE DEF F
<1>8. /\ g \in Units /\ g.files = F /\ g.m = f.m /\ g.arts = f.arts /\ g.w = f.w /\ g.iart = f.iart
      /\ g.modified = f.modified /\ g.unlink = f.unlink /\ g.open
  BY <1>1, <1>5, <1>7 DEF Units
<1> HIDE DEF g
<1>9. Live(g) = Live(f) /\ Used(g) = Used(f)
  BY <1>5, <1>8 DEF Live, Used
<1>10. Present(g) = Present(f)
  BY <1>5, <1>6, <1>8, <1>9 DEF Present
<1>11. Present(f) \subseteq DOMAIN f.files
  BY UsedIs
<1>12. Session(g, s, n)
  <2>1. \A i \in Live(g) :
          /\ g.arts[i].ifh \in DOMAIN g.files /\ g.arts[i].namf \in Names
          /\ n[s[g.files[g.arts[i].ifh].path]].art[g.arts[i].namf] # Nothing
    <3> TAKE i \in Live(g)
    <3>1. /\ f.arts[i].ifh \in DOMAIN f.files /\ f.arts[i].namf \in Names
          /\ n[s[f.files[f.arts[i].ifh].path]].art[f.arts[i].namf] # Nothing
      BY Zenon, <1>9 DEF Session
    <3>2. g.files[f.arts[i].ifh].path = f.files[f.arts[i].ifh].path
      BY Zenon, <1>6, <1>8, <3>1
    <3> QED
      BY Zenon, <1>5, <1>8, <3>1, <3>2
  <2>2. \A i, j \in Live(g) : g.arts[i].name = g.arts[j].name => i = j
    BY Zenon, <1>8, <1>9 DEF Session
  <2>3. \A l \in DOMAIN g.files : g.files[l].form = "any"
    BY Zenon, <1>5, <1>6, <1>8 DEF Session
  <2>4. \A l \in Present(g) : /\ g.files[l].path \in DOMAIN s /\ g.files[l].path[1] = g.m /\ g.files[l].path[2] > 0
                              /\ g.files[l].at \in {0, s[g.files[l].path]}
    <3> TAKE l \in Present(g)
    <3>1. /\ f.files[l].path \in DOMAIN s /\ f.files[l].path[1] = f.m /\ f.files[l].path[2] > 0
          /\ f.files[l].at \in {0, s[f.files[l].path]}
      BY Zenon, <1>10 DEF Session
    <3>2. g.files[l].path = f.files[l].path /\ g.files[l].at = IF l = k THEN x ELSE f.files[l].at
      BY <1>6, <1>8, <1>10, <1>11
    <3> QED
      BY <1>8, <3>1, <3>2 DEF x
  <2>5. \A j, l \in Present(g) : g.files[j].path = g.files[l].path => j = l
    <3>1. \A l \in Present(g) : l \in Present(f) /\ g.files[l].path = f.files[l].path
      BY <1>6, <1>8, <1>10, <1>11
    <3> QED
      BY Zenon, <3>1 DEF Session
  <2> QED
    BY Zenon, <1>8, <2>1, <2>2, <2>3, <2>4, <2>5 DEF Session
<1>13. HasMain(s, n, f.m) /\ OpenOK(f, s, n) => OpenOK(g, s, n)
  <2> SUFFICES ASSUME HasMain(s, n, f.m), OpenOK(f, s, n) PROVE OpenOK(g, s, n)
    OBVIOUS
  <2>1. g.w > 0 => g.modified /\ g.files[g.w].at > 0 /\ ~g.files[g.w].dead
    BY <1>1, <1>3, <1>6, <1>8 DEF OpenOK
  <2> QED
    BY <1>5, <1>8, <1>12, <2>1 DEF OpenOK
<1>14. Undying(f, s, n) => Undying(g, s, n)
  <2> SUFFICES ASSUME Undying(f, s, n) PROVE Undying(g, s, n)
    OBVIOUS
  <2>1. Clean(g, n)
    <3>1. 0 \notin DOMAIN n
      BY <1>2, TypedIs
    <3>2. \A i \in DOMAIN n : (\E j \in DOMAIN f.files : f.files[j].at = i) => \E j \in DOMAIN g.files : g.files[j].at = i
      BY <1>5, <1>6, <1>8, <3>1
    <3> QED
      BY <1>8, <3>2 DEF Undying, Clean
  <2>2. Readable(g, s, n)
    BY Zenon, <1>1, <1>3, <1>6, <1>8, <1>10, <1>11 DEF Undying, Readable
  <2>3. Owned(f, s, n) => Owned(g, s, n)
    BY <1>1, <1>5, <1>6, <1>8 DEF Owned
  <2> QED
    BY <2>1, <2>2, <2>3 DEF Undying
<1>15. g.files[k].at > 0
  BY <1>2, <1>3, <1>6, <1>8
<1> QED
  BY <1>5, <1>6, <1>8, <1>9, <1>10, <1>12, <1>13, <1>14, <1>15 DEF g, x

LEMMA GetRIs ==
  ASSUME OrdinaryUse, NEW f, NEW s, NEW n, Disk(s, n), Session(f, s, n), NEW k \in Present(f)
  PROVE  LET r == GetR(State(f, s, n), k)
             x == s[f.files[k].path]
         IN  /\ x \in DOMAIN n /\ n[x] \in SubInodes
             /\ \/ r = State(f, s, n) /\ f.files[k].at = x
                \/ r = State(AtFile(f, s, k), s, n) /\ f.files[k].at = 0
                \/ ~r.ok /\ r.fs = s /\ r.ino = n /\ f.files[k].at = 0 /\ ~n[x].clean
<1> DEFINE q == State(f, s, n)
           r == GetR(q, k)
           x == s[f.files[k].path]
<1>1. q.f = f /\ q.fs = s /\ q.ino = n
  BY DEF State
<1>2. /\ f.files[k].form = "any" /\ f.files[k].path \in DOMAIN s /\ f.files[k].path[2] > 0 /\ f.files[k].at \in {0, x}
  BY Zenon, UsedIs DEF Session
<1>3. n[x].kind = "PURE" /\ Typed(s, n)
  BY <1>2 DEF Disk
<1>4. x \in DOMAIN n /\ x > 0 /\ n[x] \in SubInodes
  BY <1>2, <1>3, TypedIs, KindIs
<1>5. Opens(q, f.files[k]) <=> n[x].clean
  BY <1>1, <1>2, <1>3, FormsAre DEF Opens
<1>6. CASE f.files[k].at > 0
  <2>1. f.files[k].at = x
    BY <1>2, <1>6
  <2>2. r = q
    BY <1>1, <1>6 DEF GetR
  <2> QED
    BY <1>4, <2>1, <2>2
<1>7. CASE ~(f.files[k].at > 0)
  <2>1. f.files[k].at = 0
    BY <1>2, <1>4, <1>7
  <2>2. CASE ~n[x].clean
    <3>1. r = Abort(q)
      BY <1>1, <1>5, <1>7, <2>2 DEF GetR
    <3>2. ~r.ok /\ r.fs = s /\ r.ino = n
      BY <3>1 DEF Abort, State
    <3> QED
      BY <1>4, <2>1, <2>2, <3>2
  <2>3. CASE n[x].clean
    <3> DEFINE p == [q EXCEPT !.f.files[k].at = x]
               e == AtFile(f, s, k)
    <3>1. r = p
      BY <1>1, <1>5, <1>7, <2>3 DEF GetR
    <3>2. p.f = e /\ p.fs = s /\ p.ino = n /\ p.ok = TRUE /\ p = [y \in {"f", "fs", "ino", "ok"} |-> p[y]]
      BY Zenon DEF State, AtFile
    <3>3. p \in [f : {e}, fs : {s}, ino : {n}, ok : {TRUE}]
      BY <3>2
    <3> HIDE DEF p, e
    <3>4. p = State(e, s, n)
      BY <3>3, StateIn
    <3> QED
      BY <1>4, <2>1, <3>1, <3>4 DEF e
  <2> QED
    BY <2>2, <2>3
<1> QED
  BY <1>6, <1>7

-----------------------------------------------------------------------------
(* What a call must leave. *)

Kept(r) ==
  /\ Disk(r.fs, r.ino)
  /\ r.ok => r.f = Closed \/ OpenOK(r.f, r.fs, r.ino)
  /\ count.crashes = 0 => r.ok /\ Undying(r.f, r.fs, r.ino) /\ Filed(r.f, r.fs, r.ino)

LEMMA DiskNow ==
  ASSUME NEW s, NEW n, Disk(s, n), fs' = s, ino' = n, inst' = inst
  PROVE  Disk(fs, ino)'
<1>2. Typed(fs, ino)'
  BY DEF Disk
<1>3. \A p \in DOMAIN fs' : p[2] > 0 => ino'[fs'[p]].kind = "PURE"
  BY DEF Disk
<1>4. \A p, q \in DOMAIN fs' : fs'[p] = fs'[q] /\ p # q => ino'[fs'[p]].kind = "PURE"
  BY DEF Disk
<1>5. \A m \in Mains : HasMain(fs', ino', m) => IndexOK(fs, ino, m, ino[fs[Main(m)]])'
  <2> SUFFICES ASSUME NEW m \in Mains, HasMain(fs', ino', m) PROVE IndexOK(fs, ino, m, ino[fs[Main(m)]])'
    OBVIOUS
  <2>1. Solid(m)' = Solid(m)
    BY DEF Solid, Tools, Targets
  <2>2. IndexOK(s, n, m, n[s[Main(m)]])
    BY DEF Disk
  <2> QED
    BY Zenon, <2>1, <2>2 DEF IndexOK
<1> QED
  BY <1>2, <1>3, <1>4, <1>5 DEF Disk

LEMMA BecomesKeeps ==
  ASSUME MultiInv, inst' = inst, count' \in [Bounded -> Nat], count'.crashes = count.crashes,
         NEW call, NEW res, Becomes(call, res), Kept(res.r)
  PROVE  MultiInv'
<1>1. MultiTypes'
  BY DEF MultiInv, MultiTypes
<1>2. /\ fh' = IF res.r.ok THEN res.r.f ELSE Closed
      /\ fs' = res.r.fs /\ ino' = res.r.ino
      /\ ret'.aborts = ~res.r.ok
  BY DEF Becomes, Returned
<1>3. Disk(fs, ino)'
  <2>1. Disk(res.r.fs, res.r.ino)
    BY DEF Kept
  <2> QED
    BY <1>2, <2>1, DiskNow
<1>4. (fh = Closed \/ OpenOK(fh, fs, ino))'
  BY <1>2 DEF Kept, OpenOK, Opened
<1>5. count'.crashes = 0 => ~ret'.aborts
  BY Zenon, <1>2 DEF Kept
<1>6. count'.crashes = 0 => Undying(fh, fs, ino)'
  BY <1>2 DEF Kept, Undying, Tools
<1>7. count'.crashes = 0 => Filed(fh, fs, ino)'
  BY <1>2 DEF Kept, Filed, Tools
<1> QED
  BY <1>1, <1>3, <1>4, <1>5, <1>6, <1>7 DEF MultiInv

\* The open unit.
LEMMA UnitNow ==
  ASSUME MultiInv, fh.open
  PROVE  /\ OpenOK(fh, fs, ino) /\ Session(fh, fs, ino) /\ Disk(fs, ino) /\ fh \in Units /\ inst \in Instances
         /\ Here = State(fh, fs, ino)
         /\ count.crashes = 0 => Undying(fh, fs, ino) /\ Filed(fh, fs, ino)
BY Zenon, ClosedIs DEF MultiInv, MultiTypes, OpenOK, Session, Here

LEMMA SessionLive ==
  ASSUME NEW f, NEW s, NEW n, Session(f, s, n), NEW i \in Live(f)
  PROVE  /\ i \in DOMAIN f.arts /\ f.arts[i].ifh \in DOMAIN f.files /\ f.arts[i].ifh \in Used(f) /\ f.arts[i].namf \in Names
         /\ n[s[f.files[f.arts[i].ifh].path]].art[f.arts[i].namf] # Nothing
<1>1. /\ f.arts[i].ifh \in DOMAIN f.files /\ f.arts[i].namf \in Names
      /\ n[s[f.files[f.arts[i].ifh].path]].art[f.arts[i].namf] # Nothing
  BY Zenon DEF Session
<1> QED
  BY Zenon, <1>1 DEF Live, Used

LEMMA LookupIs ==
  ASSUME NEW f \in Units, NEW n \in Names
  PROVE  \/ Lookup(f, n) = 0 /\ \A i \in Live(f) : f.arts[i].name # n
         \/ Lookup(f, n) \in Live(f) /\ f.arts[Lookup(f, n)].name = n
<1> DEFINE near == {i \in {f.iart - 1, f.iart} : f.iart > 0 /\ i \in DOMAIN f.arts /\ f.arts[i].name = n}
           all  == {i \in DOMAIN f.arts : f.arts[i].name = n}
           cand == IF near # {} THEN near ELSE all
<1>1. DOMAIN f.arts = 1 .. Len(f.arts) /\ Len(f.arts) \in Nat
  BY UnitIs
<1>2. n # Blank
  BY NamesAssumption DEF NamesAssumption
<1>3. cand \subseteq all /\ (cand = {} => all = {})
  OBVIOUS
<1>4. all \subseteq Live(f) /\ all \in SUBSET Nat
  BY <1>1, <1>2 DEF Live
<1>5. Lookup(f, n) = IF cand = {} THEN 0 ELSE CHOOSE i \in cand : \A j \in cand : i <= j
  BY DEF Lookup
<1> HIDE DEF near, cand
<1>6. CASE cand = {}
  BY <1>3, <1>5, <1>6 DEF Live
<1>7. CASE cand # {}
  <2>1. \E i \in cand : \A j \in cand : i <= j
    BY Zenon, <1>3, <1>4, <1>7, LeastNumber
  <2>2. Lookup(f, n) \in cand
    BY <1>5, <1>7, <2>1
  <2> QED
    BY <1>3, <1>4, <2>2
<1> QED
  BY <1>6, <1>7

LEMMA SeekIs ==
  ASSUME NEW f \in Units, NEW forwards \in BOOLEAN
  PROVE  Seek(f, forwards) = 0 \/ Seek(f, forwards) \in Live(f)
<1> DEFINE next == {i \in Live(f) : i > f.iart}
           prev == {i \in Live(f) : f.iart = 0 \/ i < f.iart}
           back == {Len(f.arts) - i : i \in prev}
<1>1. DOMAIN f.arts = 1 .. Len(f.arts) /\ Len(f.arts) \in Nat
  BY UnitIs
<1>2. Live(f) \subseteq 1 .. Len(f.arts)
  BY <1>1 DEF Live
<1>3. next # {} => \E i \in next : \A j \in next : i <= j
  <2>1. next \in SUBSET Nat
    BY <1>1, <1>2
  <2> QED
    BY Zenon, <2>1, LeastNumber
<1>4. prev # {} => \E i \in prev : \A j \in prev : j <= i
  <2> SUFFICES ASSUME prev # {} PROVE \E i \in prev : \A j \in prev : j <= i
    OBVIOUS
  <2>1. back \in SUBSET Nat /\ back # {}
    BY <1>1, <1>2
  <2>2. PICK b \in back : \A x \in back : b <= x
    BY Zenon, <2>1, LeastNumber
  <2>3. PICK i \in prev : b = Len(f.arts) - i
    OBVIOUS
  <2>4. \A j \in prev : Len(f.arts) - i <= Len(f.arts) - j
    BY <2>2, <2>3
  <2> QED
    BY <1>1, <1>2, <2>4
<1> HIDE DEF next, prev, back
<1>5. Seek(f, TRUE) = IF next = {} THEN 0 ELSE CHOOSE i \in next : \A j \in next : i <= j
  BY DEF Seek, Live, next
<1>6. Seek(f, FALSE) = IF prev = {} THEN 0 ELSE CHOOSE i \in prev : \A j \in prev : j <= i
  BY DEF Seek, Live, prev
<1>7. next \subseteq Live(f) /\ prev \subseteq Live(f)
  BY DEF next, prev
<1>8. CASE forwards
  BY <1>3, <1>5, <1>7, <1>8
<1>9. CASE ~forwards
  BY <1>4, <1>6, <1>7, <1>9
<1> QED
  BY <1>8, <1>9

LEMMA IartIs ==
  ASSUME NEW f, NEW s, NEW n, OpenOK(f, s, n), NEW i \in Nat
  PROVE  LET g == [f EXCEPT !.iart = i]
         IN  /\ [State(f, s, n) EXCEPT !.f.iart = i] = State(g, s, n)
             /\ OpenOK(g, s, n) /\ (Undying(f, s, n) => Undying(g, s, n)) /\ (Filed(f, s, n) => Filed(g, s, n))
<1> DEFINE g == [f EXCEPT !.iart = i]
           p == [State(f, s, n) EXCEPT !.f.iart = i]
<1>1. f \in Units
  BY Zenon DEF OpenOK, Session
<1>2. /\ g \in Units /\ g.files = f.files /\ g.arts = f.arts /\ g.m = f.m /\ g.open = f.open /\ g.w = f.w
      /\ g.modified = f.modified /\ g.unlink = f.unlink
  BY <1>1 DEF Units
<1>3. p.f = g /\ p.fs = s /\ p.ino = n /\ p.ok = TRUE /\ p = [y \in {"f", "fs", "ino", "ok"} |-> p[y]]
  BY Zenon DEF State
<1>4. p \in [f : {g}, fs : {s}, ino : {n}, ok : {TRUE}]
  BY <1>3
<1> HIDE DEF p, g
<1>5. p = State(g, s, n)
  BY <1>4, StateIn
<1>6. OpenOK(g, s, n)
  BY <1>2, SessionSame DEF OpenOK
<1>7. Filed(f, s, n) => Filed(g, s, n)
  BY <1>2 DEF Filed
<1> QED
  BY Zenon, <1>2, <1>5, <1>6, <1>7, UnlinkFacts DEF p, g

\* A sub-file that has articles can be opened, unless a process has died.
LEMMA GetROpen ==
  ASSUME OrdinaryUse, NEW f, NEW s, NEW n, Disk(s, n), OpenOK(f, s, n), NEW k \in Used(f)
  PROVE  LET r == GetR(State(f, s, n), k)
             x == s[f.files[k].path]
         IN  /\ n[x] \in SubInodes
             /\ \/ ~r.ok /\ r.fs = s /\ r.ino = n /\ ~Undying(f, s, n)
                \/ \E g : /\ r = State(g, s, n) /\ OpenOK(g, s, n) /\ g.arts = f.arts /\ g.files[k].at = x
                          /\ (Undying(f, s, n) => Undying(g, s, n)) /\ (Filed(f, s, n) => Filed(g, s, n))
<1> DEFINE r == GetR(State(f, s, n), k)
           x == s[f.files[k].path]
<1>1. Session(f, s, n) /\ k \in Present(f) /\ HasMain(s, n, f.m)
  BY UsedIs DEF OpenOK
<1>2. f.open /\ k \in DOMAIN f.files
  BY Zenon, <1>1, UnitIs, UsedIs DEF Session
<1>3. n[x] \in SubInodes
  BY <1>1, GetRIs
<1>4. \/ r = State(f, s, n) /\ f.files[k].at = x
      \/ r = State(AtFile(f, s, k), s, n) /\ f.files[k].at = 0
      \/ ~r.ok /\ r.fs = s /\ r.ino = n /\ f.files[k].at = 0 /\ ~n[x].clean
  BY <1>1, GetRIs
<1>5. CASE r = State(f, s, n) /\ f.files[k].at = x
  BY <1>3, <1>5
<1>6. CASE r = State(AtFile(f, s, k), s, n) /\ f.files[k].at = 0
  <2> DEFINE g == AtFile(f, s, k)
  <2>1. g.arts = f.arts /\ g.files[k].at = x
    BY <1>1, <1>2, <1>6, AtFileIs
  <2>2. OpenOK(g, s, n)
    BY <1>1, <1>6, AtFileIs
  <2>3. Undying(f, s, n) => Undying(g, s, n)
    BY <1>1, <1>6, AtFileIs
  <2>4. Filed(f, s, n) => Filed(g, s, n)
    <3>1. g.modified = f.modified
      BY <1>1, <1>6, AtFileIs
    <3> HIDE DEF g
    <3> QED
      BY <1>2, <3>1 DEF Filed
  <2> HIDE DEF g
  <2> QED
    BY <1>3, <1>6, <2>1, <2>2, <2>3, <2>4 DEF g
<1>7. CASE ~r.ok /\ r.fs = s /\ r.ino = n /\ f.files[k].at = 0 /\ ~n[x].clean
  <2>1. ~Undying(f, s, n)
    BY <1>1, <1>2, <1>7 DEF Undying, Readable
  <2> QED
    BY <1>3, <1>7, <2>1
<1> QED
  BY <1>4, <1>5, <1>6, <1>7

LEMMA KeptOpen ==
  ASSUME NEW g, NEW s, NEW n, Disk(s, n), OpenOK(g, s, n), count.crashes = 0 => Undying(g, s, n) /\ Filed(g, s, n)
  PROVE  Kept(State(g, s, n))
BY DEF Kept, State

LEMMA KeptModified ==
  ASSUME NEW g, NEW s, NEW n, Disk(s, n), OpenOK(g, s, n), g.modified, count.crashes = 0 => Undying(g, s, n)
  PROVE  Kept(State(g, s, n))
BY KeptOpen DEF Filed

LEMMA KeptAbort ==
  ASSUME NEW r, ~r.ok, Disk(r.fs, r.ino), count.crashes # 0
  PROVE  Kept(r)
BY DEF Kept

LEMMA ResultIs ==
  ASSUME NEW r, NEW krep, NEW len
  PROVE  Result(r, krep, len).r = r
BY DEF Result

-----------------------------------------------------------------------------
(* The calls that read, LFIPOS and LFIREN. *)

LEMMA CountSame ==
  ASSUME MultiInv, UNCHANGED count
  PROVE  count' \in [Bounded -> Nat] /\ count'.crashes = count.crashes
BY DEF MultiInv, MultiTypes

LEMMA CountUp ==
  ASSUME MultiInv, NEW x \in Bounded, NEW bound, Counts(x, bound)
  PROVE  count' \in [Bounded -> Nat] /\ (x # "crashes" => count'.crashes = count.crashes) /\ (x = "crashes" => count'.crashes # 0)
BY DEF MultiInv, MultiTypes, Counts, Bounded

LEMMA ReadsKeeps ==
  ASSUME OrdinaryUse, MultiInv, NEW i, i = 0 \/ i \in Live(fh), NEW none, NEW move, NEW how,
         Reads(i, none, move, how), UNCHANGED inst
  PROVE  MultiInv'
<1>1. fh.open /\ UNCHANGED count
  BY DEF Reads
<1>2. /\ OpenOK(fh, fs, ino) /\ Session(fh, fs, ino) /\ Disk(fs, ino) /\ fh \in Units /\ Here = State(fh, fs, ino)
      /\ count.crashes = 0 => Undying(fh, fs, ino) /\ Filed(fh, fs, ino)
  BY <1>1, UnitNow
<1>3. count' \in [Bounded -> Nat] /\ count'.crashes = count.crashes
  BY <1>1, CountSame
<1>4. CASE i = 0
  <2>1. Becomes(<<>>, Result(Here, none, 0))
    BY <1>4 DEF Reads
  <2>2. Kept(Here)
    BY <1>2, KeptOpen
  <2> QED
    BY <1>3, <2>1, <2>2, ResultIs, BecomesKeeps
<1>5. CASE i # 0
  <2> DEFINE k == fh.arts[i].ifh
             a == fh.arts[i].namf
             r == GetR(Here, k)
             x == fs[fh.files[k].path]
             len == Length(r, k, a)
             missing == Stored(r, k, a) = Nothing
             res == IF ~r.ok THEN Result(r, 0, 0)
                    ELSE IF missing /\ how = "reads" THEN Result(r, -20, 0)
                    ELSE IF missing \/ (len = 0 /\ how = "info") THEN Result(Abort(r), 0, 0)
                    ELSE Result(IF move THEN [r EXCEPT !.f.iart = i] ELSE r, 0, len)
  <2>1. Becomes(<<>>, res)
    BY <1>5 DEF Reads
  <2>2. i \in Live(fh) /\ k \in Used(fh) /\ a \in Names /\ ino[x].art[a] # Nothing /\ i \in Nat
    <3>1. i \in Live(fh) /\ DOMAIN fh.arts = 1 .. Len(fh.arts) /\ Len(fh.arts) \in Nat
      BY <1>2, <1>5, UnitIs
    <3>2. i \in DOMAIN fh.arts /\ k \in Used(fh) /\ a \in Names /\ ino[x].art[a] # Nothing
      BY Zenon, <1>2, <3>1, SessionLive
    <3> HIDE DEF k, a, x
    <3> QED
      BY <3>1, <3>2
  <2> HIDE DEF k, a, x
  <2>3. Kept(res.r)
    <3>1. ino[x] \in SubInodes
      BY <1>2, <2>2, GetROpen DEF x
    <3>2. \/ ~r.ok /\ r.fs = fs /\ r.ino = ino /\ ~Undying(fh, fs, ino)
          \/ \E g : /\ r = State(g, fs, ino) /\ OpenOK(g, fs, ino) /\ g.arts = fh.arts /\ g.files[k].at = x
                    /\ (Undying(fh, fs, ino) => Undying(g, fs, ino)) /\ (Filed(fh, fs, ino) => Filed(g, fs, ino))
      BY <1>2, <2>2, GetROpen DEF x
    <3>3. CASE ~r.ok /\ r.fs = fs /\ r.ino = ino /\ ~Undying(fh, fs, ino)
      <4>1. res.r = r
        BY <3>3, ResultIs
      <4> HIDE DEF r, res
      <4> QED
        BY <1>2, <3>3, <4>1, KeptAbort
    <3>4. CASE \E g : /\ r = State(g, fs, ino) /\ OpenOK(g, fs, ino) /\ g.arts = fh.arts /\ g.files[k].at = x
                      /\ (Undying(fh, fs, ino) => Undying(g, fs, ino)) /\ (Filed(fh, fs, ino) => Filed(g, fs, ino))
      <4>1. PICK g : /\ r = State(g, fs, ino) /\ OpenOK(g, fs, ino) /\ g.files[k].at = x
                     /\ (Undying(fh, fs, ino) => Undying(g, fs, ino)) /\ (Filed(fh, fs, ino) => Filed(g, fs, ino))
        BY <3>4
      <4>2. r.ok /\ r.f = g /\ r.ino = ino
        BY <4>1 DEF State
      <4>3. Stored(r, k, a) = ino[x].art[a]
        BY <4>1, <4>2 DEF Stored
      <4>4. ino[x].art[a] \in Values
        BY <2>2, <3>1 DEF SubInodes
      <4>5. ~missing /\ len # 0
        <5>1. a # Blank
          BY <2>2, NamesAssumption DEF NamesAssumption
        <5>2. len = ino[x].art[a][1]
          BY <2>2, <4>3, <5>1 DEF Length
        <5> QED
          BY <2>2, <4>3, <4>4, <5>2, ValueIs
      <4> HIDE DEF len, missing, r
      <4>6. res = Result(IF move THEN [r EXCEPT !.f.iart = i] ELSE r, 0, len)
        BY <4>2, <4>5
      <4>7. res.r = IF move THEN [r EXCEPT !.f.iart = i] ELSE r
        BY <4>6, ResultIs
      <4> HIDE DEF res
      <4>8. Kept(State(g, fs, ino))
        BY <1>2, <4>1, KeptOpen
      <4>9. Kept([State(g, fs, ino) EXCEPT !.f.iart = i])
        <5> DEFINE h == [g EXCEPT !.iart = i]
        <5>1. /\ [State(g, fs, ino) EXCEPT !.f.iart = i] = State(h, fs, ino)
              /\ OpenOK(h, fs, ino) /\ (Undying(g, fs, ino) => Undying(h, fs, ino)) /\ (Filed(g, fs, ino) => Filed(h, fs, ino))
          BY <2>2, <4>1, IartIs
        <5> HIDE DEF h
        <5>2. Kept(State(h, fs, ino))
          BY <1>2, <4>1, <5>1, KeptOpen
        <5> QED
          BY <5>1, <5>2
      <4> QED
        BY <4>1, <4>7, <4>8, <4>9
    <3> QED
      BY <3>2, <3>3, <3>4
  <2> HIDE DEF res
  <2> QED
    BY <1>3, <2>1, <2>3, BecomesKeeps
<1> QED
  BY <1>4, <1>5

LEMMA PosKeeps ==
  ASSUME OrdinaryUse, MultiInv, LFIPOS, UNCHANGED inst
  PROVE  MultiInv'
<1>1. fh.open /\ UNCHANGED count /\ Becomes(<<>>, Result([Here EXCEPT !.f.iart = 0], 0, 0))
  BY DEF LFIPOS
<1>2. /\ OpenOK(fh, fs, ino) /\ Disk(fs, ino) /\ Here = State(fh, fs, ino)
      /\ count.crashes = 0 => Undying(fh, fs, ino) /\ Filed(fh, fs, ino)
  BY <1>1, UnitNow
<1> DEFINE h == [fh EXCEPT !.iart = 0]
<1>3. /\ [Here EXCEPT !.f.iart = 0] = State(h, fs, ino)
      /\ OpenOK(h, fs, ino) /\ (Undying(fh, fs, ino) => Undying(h, fs, ino)) /\ (Filed(fh, fs, ino) => Filed(h, fs, ino))
  BY <1>2, IartIs
<1> HIDE DEF h
<1>4. Kept([Here EXCEPT !.f.iart = 0])
  BY <1>2, <1>3, KeptOpen
<1> QED
  BY <1>1, <1>4, CountSame, ResultIs, BecomesKeeps

\* A unit whose entries in use are some of those of another.
Fewer(e, f) ==
  /\ e \in Units /\ e.m = f.m /\ e.files = f.files /\ e.open = f.open
  /\ \A j \in Live(e) : j \in Live(f) /\ e.arts[j].ifh = f.arts[j].ifh /\ e.arts[j].namf = f.arts[j].namf
  /\ \A i, j \in Live(e) : e.arts[i].name = e.arts[j].name => i = j

LEMMA FewerArts ==
  ASSUME NEW f, NEW s, NEW n, Session(f, s, n), NEW e, Fewer(e, f)
  PROVE  /\ Session(e, s, n) /\ Present(e) \subseteq Present(f) /\ Used(e) \subseteq Used(f)
         /\ Undying(f, s, n) => Undying(e, s, n)
<1>0. /\ e \in Units /\ e.m = f.m /\ e.files = f.files /\ e.open = f.open
      /\ \A j \in Live(e) : j \in Live(f) /\ e.arts[j].ifh = f.arts[j].ifh /\ e.arts[j].namf = f.arts[j].namf
      /\ \A i, j \in Live(e) : e.arts[i].name = e.arts[j].name => i = j
  BY DEF Fewer
<1>1. Used(e) \subseteq Used(f)
  BY <1>0, UsedIs
<1>2. Present(e) \subseteq Present(f)
  BY <1>0, <1>1 DEF Present
<1>3. Session(e, s, n)
  <2>1. \A j \in Live(e) :
          /\ e.arts[j].ifh \in DOMAIN e.files /\ e.arts[j].namf \in Names
          /\ n[s[e.files[e.arts[j].ifh].path]].art[e.arts[j].namf] # Nothing
    <3> TAKE j \in Live(e)
    <3>0. j \in Live(f)
      BY <1>0
    <3>1. /\ f.arts[j].ifh \in DOMAIN f.files /\ f.arts[j].namf \in Names
          /\ n[s[f.files[f.arts[j].ifh].path]].art[f.arts[j].namf] # Nothing
      BY Zenon, <3>0 DEF Session
    <3> QED
      BY Zenon, <1>0, <3>1
  <2>2. \A k \in DOMAIN e.files : e.files[k].form = "any"
    BY Zenon, <1>0 DEF Session
  <2>3. \A k \in Present(e) : /\ e.files[k].path \in DOMAIN s /\ e.files[k].path[1] = e.m /\ e.files[k].path[2] > 0
                              /\ e.files[k].at \in {0, s[e.files[k].path]}
    BY Zenon, <1>0, <1>2 DEF Session
  <2>4. \A k, l \in Present(e) : e.files[k].path = e.files[l].path => k = l
    BY Zenon, <1>0, <1>2 DEF Session
  <2> QED
    BY Zenon, <1>0, <2>1, <2>2, <2>3, <2>4 DEF Session
<1>4. Undying(f, s, n) => Undying(e, s, n)
  BY <1>0, <1>2 DEF Undying, Clean, Readable, Owned
<1> QED
  BY <1>1, <1>2, <1>3, <1>4

\* One entry of the index changes.
PutArt(f, i, c) == [f EXCEPT !.arts = [f.arts EXCEPT ![i] = c]]

PutArtSame(e, f, i, c) ==
  /\ e \in Units /\ e.open = f.open /\ e.m = f.m /\ e.files = f.files /\ e.iart = f.iart /\ e.w = f.w
  /\ e.modified = f.modified /\ e.unlink = f.unlink
  /\ DOMAIN e.arts = DOMAIN f.arts /\ e.arts[i] = c /\ \A j \in DOMAIN f.arts : j # i => e.arts[j] = f.arts[j]
  /\ \A j \in Live(e) : (j = i /\ c.name # Blank) \/ (j # i /\ j \in Live(f) /\ e.arts[j] = f.arts[j])
  /\ c.name # Blank => Live(e) = Live(f) \cup {i}
  /\ c.name = Blank => Live(e) = Live(f) \ {i}

LEMMA PutArtIs ==
  ASSUME NEW f \in Units, NEW i \in DOMAIN f.arts, NEW c \in EntryRecs
  PROVE  PutArtSame(PutArt(f, i, c), f, i, c)
<1> DEFINE e == PutArt(f, i, c)
           A == [f.arts EXCEPT ![i] = c]
<1>1. A \in Seq(EntryRecs) /\ DOMAIN A = DOMAIN f.arts /\ A[i] = c /\ \A j \in DOMAIN f.arts : j # i => A[j] = f.arts[j]
  <2>1. f.arts \in Seq(EntryRecs)
    BY UnitIs
  <2> QED
    BY <2>1
<1>2. e = [f EXCEPT !.arts = A]
  BY DEF PutArt
<1> HIDE DEF A
<1>3. /\ e \in Units /\ e.open = f.open /\ e.m = f.m /\ e.files = f.files /\ e.iart = f.iart /\ e.w = f.w
      /\ e.modified = f.modified /\ e.unlink = f.unlink /\ e.arts = A
  BY <1>1, <1>2 DEF Units
<1> HIDE DEF e
<1>4. Live(e) = {j \in DOMAIN A : A[j].name # Blank}
  BY <1>3 DEF Live
<1>5. Live(f) = {j \in DOMAIN f.arts : f.arts[j].name # Blank}
  BY DEF Live
<1>6. \A j \in Live(e) : (j = i /\ c.name # Blank) \/ (j # i /\ j \in Live(f) /\ A[j] = f.arts[j])
  BY <1>1, <1>4, <1>5
<1>7. (c.name # Blank => Live(e) = Live(f) \cup {i}) /\ (c.name = Blank => Live(e) = Live(f) \ {i})
  BY <1>1, <1>4, <1>5
<1> QED
  BY <1>1, <1>3, <1>6, <1>7 DEF e, PutArtSame

Named(x, a) == [x EXCEPT !.name = a]
Unnamed(x) == [x EXCEPT !.name = Blank, !.namf = Blank]
Renames(r, i, a) == [r EXCEPT !.f.arts[i].name = a]
Blanks(r, i) == [r EXCEPT !.f.arts[i].name = Blank, !.f.arts[i].namf = Blank]

LEMMA NameArtIs ==
  ASSUME NEW f \in Units, NEW s, NEW n, NEW i \in DOMAIN f.arts, NEW a
  PROVE  Renames(State(f, s, n), i, a) = State(PutArt(f, i, Named(f.arts[i], a)), s, n)
<1> DEFINE e == PutArt(f, i, Named(f.arts[i], a))
           p == Renames(State(f, s, n), i, a)
<1>1. p.f = e /\ p.fs = s /\ p.ino = n /\ p.ok = TRUE /\ p = [y \in {"f", "fs", "ino", "ok"} |-> p[y]]
  BY Zenon DEF State, PutArt, Renames, Named
<1>2. p \in [f : {e}, fs : {s}, ino : {n}, ok : {TRUE}]
  BY <1>1
<1> HIDE DEF p, e
<1>3. p = State(e, s, n)
  BY <1>2, StateIn
<1> QED
  BY <1>3 DEF p, e

LEMMA BlankArtIs ==
  ASSUME NEW f \in Units, NEW s, NEW n, NEW i \in DOMAIN f.arts
  PROVE  Blanks(State(f, s, n), i) = State(PutArt(f, i, Unnamed(f.arts[i])), s, n)
<1> DEFINE e == PutArt(f, i, Unnamed(f.arts[i]))
           p == Blanks(State(f, s, n), i)
<1>1. p.f = e /\ p.fs = s /\ p.ino = n /\ p.ok = TRUE /\ p = [y \in {"f", "fs", "ino", "ok"} |-> p[y]]
  BY Zenon DEF State, PutArt, Blanks, Unnamed
<1>2. p \in [f : {e}, fs : {s}, ino : {n}, ok : {TRUE}]
  BY <1>1
<1> HIDE DEF p, e
<1>3. p = State(e, s, n)
  BY <1>2, StateIn
<1> QED
  BY <1>3 DEF p, e

\* A unit that is open can be changed.
LEMMA OpenReady ==
  ASSUME NEW f, NEW s, NEW n, Disk(s, n), OpenOK(f, s, n)
  PROVE  Ready(f, s, n)
BY DEF OpenOK, Ready, HasMain

LEMMA OpenIn ==
  ASSUME NEW f, NEW s, NEW n, OpenOK(f, s, n)
  PROVE  f \in Units /\ Session(f, s, n) /\ f.open
BY Zenon, UnitIs DEF OpenOK, Session

LEMMA RenameKeeps ==
  ASSUME OrdinaryUse, MultiInv, NEW m \in Names, NEW n \in Names, LFIREN(m, n), UNCHANGED inst
  PROVE  MultiInv'
<1>1. fh.open /\ Counts("renames", MaxRenames) /\ Becomes(<<>>, Rename(m, n))
  BY DEF LFIREN
<1>2. /\ OpenOK(fh, fs, ino) /\ Disk(fs, ino) /\ fh \in Units /\ Here = State(fh, fs, ino) /\ inst \in Instances
      /\ count.crashes = 0 => Undying(fh, fs, ino) /\ Filed(fh, fs, ino)
  BY <1>1, UnitNow
<1>3. count' \in [Bounded -> Nat] /\ count'.crashes = count.crashes
  BY <1>1, CountUp DEF Bounded
<1> DEFINE i == Lookup(fh, m)
<1>4. Kept(Rename(m, n).r)
  <2>1. CASE i = 0 \/ Taken(fh, n)
    <3>1. Rename(m, n).r = Here
      BY <2>1, ResultIs DEF Rename
    <3> QED
      BY <1>2, <3>1, KeptOpen
  <2>2. CASE i # 0 /\ ~Taken(fh, n)
    <3> DEFINE r == Modified(Here)
               t == IF r.ok THEN [r EXCEPT !.f.arts[i].name = n] ELSE r
    <3>1. Rename(m, n).r = t
      BY <2>2, ResultIs DEF Rename
    <3>2. i \in Live(fh) /\ \A j \in Live(fh) : fh.arts[j].name # n
      <4>1. Lookup(fh, n) = 0
        <5>1. Lookup(fh, n) = 0 \/ Lookup(fh, n) \in Live(fh)
          BY <1>2, LookupIs
        <5>2. Live(fh) \in SUBSET (1 .. Len(fh.arts)) /\ Len(fh.arts) \in Nat
          BY <1>2, UnitIs DEF Live
        <5> QED
          BY <2>2, <5>1, <5>2 DEF Taken
      <4>2. \A j \in Live(fh) : fh.arts[j].name # n
        <5>1. 0 \notin Live(fh)
          BY <1>2, UnitIs DEF Live
        <5> QED
          BY <1>2, <4>1, <5>1, LookupIs
      <4>3. i \in Live(fh)
        BY <1>2, <2>2, LookupIs
      <4> QED
        BY <4>2, <4>3
    <3> HIDE DEF i
    <3>3. PICK g, s2, n2 :
            /\ r = State(g, s2, n2) /\ Disk(s2, n2) /\ OpenOK(g, s2, n2) /\ g.arts = fh.arts /\ g.modified
            /\ Undying(fh, fs, ino) => Undying(g, s2, n2)
      BY <1>2, OpenReady, ModifiedIs
    <3>4. g \in Units /\ Session(g, s2, n2) /\ g.open
      BY <3>3, OpenIn
    <3>5. Live(g) = Live(fh) /\ i \in Live(g) /\ i \in DOMAIN g.arts /\ g.arts[i] \in EntryRecs
      <4>1. Live(g) = Live(fh)
        BY <3>3 DEF Live
      <4> QED
        BY <3>2, <3>4, <4>1, NameLive
    <3> DEFINE c == Named(g.arts[i], n)
               e == PutArt(g, i, c)
    <3>6. c \in EntryRecs /\ c.name = n /\ c.namf = g.arts[i].namf /\ c.ifh = g.arts[i].ifh /\ n # Blank
      BY <3>5, NamesAssumption DEF EntryRecs, NamesAssumption, Named
    <3>7. t = State(e, s2, n2)
      <4>1. r.ok
        BY <3>3 DEF State
      <4>2. t = Renames(r, i, n)
        BY <4>1 DEF Renames
      <4>3. Renames(State(g, s2, n2), i, n) = State(e, s2, n2)
        <5> HIDE DEF t, r
        <5> QED
          BY <3>4, <3>5, NameArtIs
      <4> HIDE DEF t, r, e
      <4> QED
        BY <3>3, <4>2, <4>3
    <3> HIDE DEF c, t, r
    <3>7a. e = PutArt(g, i, c)
      OBVIOUS
    <3> HIDE DEF e
    <3>8. /\ e \in Units /\ e.open = g.open /\ e.m = g.m /\ e.files = g.files /\ e.w = g.w
          /\ e.modified = g.modified /\ e.unlink = g.unlink
          /\ e.arts[i] = c /\ (\A j \in DOMAIN g.arts : j # i => e.arts[j] = g.arts[j]) /\ Live(e) = Live(g) \cup {i}
      <4>1. PutArtSame(e, g, i, c)
        BY <3>4, <3>5, <3>6, <3>7a, PutArtIs
      <4> QED
        BY <3>6, <4>1 DEF PutArtSame
    <3> HIDE DEF e
    <3>9. Live(e) = Live(g) /\ Live(g) \subseteq DOMAIN g.arts
      BY <3>5, <3>8 DEF Live
    <3>10. \A j \in Live(e) : j \in Live(g) /\ e.arts[j].ifh = g.arts[j].ifh /\ e.arts[j].namf = g.arts[j].namf
      BY <3>6, <3>8, <3>9
    <3>11. \A j, k \in Live(e) : e.arts[j].name = e.arts[k].name => j = k
      <4>1. \A j, k \in Live(g) : g.arts[j].name = g.arts[k].name => j = k
        BY Zenon, <3>4 DEF Session
      <4>2. \A j \in Live(g) : g.arts[j].name # n
        BY <3>2, <3>3, <3>5
      <4> QED
        BY <3>6, <3>8, <3>9, <4>1, <4>2
    <3>12. Session(e, s2, n2) /\ (Undying(g, s2, n2) => Undying(e, s2, n2))
      <4>1. Fewer(e, g)
        BY <3>8, <3>10, <3>11 DEF Fewer
      <4> QED
        BY <3>4, <4>1, FewerArts
    <3>13. OpenOK(e, s2, n2)
      BY <3>3, <3>8, <3>12 DEF OpenOK
    <3> QED
      BY <1>2, <3>1, <3>3, <3>7, <3>8, <3>12, <3>13, KeptModified
  <2> QED
    BY <2>1, <2>2
<1> QED
  BY <1>1, <1>3, <1>4, BecomesKeeps

LEMMA SuppressKeeps ==
  ASSUME OrdinaryUse, MultiInv, NEW n \in Names, LFISUP(n), UNCHANGED inst
  PROVE  MultiInv'
<1>1. fh.open /\ UNCHANGED count
  BY DEF LFISUP
<1>2. PICK res \in Suppress(n) : Becomes(<<"LFISUP", n>>, res)
  BY DEF LFISUP
<1>3. /\ OpenOK(fh, fs, ino) /\ Disk(fs, ino) /\ fh \in Units /\ Here = State(fh, fs, ino) /\ inst \in Instances
      /\ count.crashes = 0 => Undying(fh, fs, ino) /\ Filed(fh, fs, ino)
  BY <1>1, UnitNow
<1>4. count' \in [Bounded -> Nat] /\ count'.crashes = count.crashes
  BY <1>1, CountSame
<1> DEFINE i == Lookup(fh, n)
           k == fh.arts[i].ifh
           r == GetR(Here, k)
<1>5. Kept(res.r)
  <2>1. CASE i = 0
    <3>1. res.r = Here
      BY <1>2, <2>1, ResultIs DEF Suppress
    <3> QED
      BY <1>3, <3>1, KeptOpen
  <2>2. CASE i # 0
    <3>1. i \in Live(fh) /\ fh.arts[i].name = n
      BY <1>3, <2>2, LookupIs
    <3>2. k \in Used(fh)
      BY Zenon, <1>3, <3>1, SessionLive DEF OpenOK
    <3> DEFINE q == [r EXCEPT !.f.arts[i].name = Blank, !.f.arts[i].namf = Blank]
    <3>3. IF r.ok THEN res.r = Modified(q) ELSE res.r = r
      <4>1. CASE ~r.ok
        BY <1>2, <2>2, <4>1, ResultIs DEF Suppress
      <4>2. CASE r.ok
        <5>1. PICK x : res = Result(Modified(q), 0, Length(r, k, x))
          BY Zenon, <1>2, <2>2, <4>2 DEF Suppress
        <5> HIDE DEF q, r, k
        <5> QED
          BY <4>2, <5>1, ResultIs
      <4> QED
        BY <4>1, <4>2
    <3> HIDE DEF i, k
    <3>4. CASE ~r.ok /\ r.fs = fs /\ r.ino = ino /\ ~Undying(fh, fs, ino)
      <4> HIDE DEF r
      <4> QED
        BY <1>3, <3>3, <3>4, KeptAbort
    <3>5. CASE \E g : /\ r = State(g, fs, ino) /\ OpenOK(g, fs, ino) /\ g.arts = fh.arts
                      /\ Undying(fh, fs, ino) => Undying(g, fs, ino)
      <4>1. PICK g : /\ r = State(g, fs, ino) /\ OpenOK(g, fs, ino) /\ g.arts = fh.arts
                     /\ Undying(fh, fs, ino) => Undying(g, fs, ino)
        BY <3>5
      <4>2. g \in Units /\ Session(g, fs, ino) /\ g.open
        BY <4>1, OpenIn
      <4>3. Live(g) = Live(fh) /\ i \in DOMAIN g.arts /\ g.arts[i] \in EntryRecs
        <5>1. Live(g) = Live(fh)
          BY <4>1 DEF Live
        <5> QED
          BY <3>1, <4>2, <5>1, NameLive
      <4> DEFINE c == Unnamed(g.arts[i])
                 e == PutArt(g, i, c)
      <4>4. c \in EntryRecs /\ c.name = Blank
        BY Zenon, <4>3 DEF EntryRecs, Unnamed
      <4>5. res.r = Modified(State(e, fs, ino))
        <5>1. r.ok
          BY <4>1 DEF State
        <5>2. q = State(e, fs, ino)
          <6>1. q = Blanks(r, i)
            BY DEF Blanks
          <6> HIDE DEF q, r
          <6>2. Blanks(State(g, fs, ino), i) = State(e, fs, ino)
            BY <4>2, <4>3, BlankArtIs
          <6> HIDE DEF e
          <6> QED
            BY <4>1, <6>1, <6>2
        <5> HIDE DEF q, r, e
        <5> QED
          BY <3>3, <5>1, <5>2
      <4> HIDE DEF c, q, r, e
      <4>6. /\ e \in Units /\ e.open = g.open /\ e.m = g.m /\ e.files = g.files /\ e.w = g.w
            /\ e.modified = g.modified /\ e.unlink = g.unlink
            /\ Live(e) = Live(g) \ {i} /\ \A j \in DOMAIN g.arts : j # i => e.arts[j] = g.arts[j]
        <5>1. e = PutArt(g, i, c)
          BY DEF e
        <5>2. PutArtSame(e, g, i, c)
          BY <4>2, <4>3, <4>4, <5>1, PutArtIs
        <5> QED
          BY <4>4, <5>2 DEF PutArtSame
      <4> HIDE DEF e
      <4>7. \A j \in Live(e) : j \in Live(g) /\ e.arts[j] = g.arts[j]
        BY <4>6 DEF Live
      <4>8. \A j, l \in Live(e) : e.arts[j].name = e.arts[l].name => j = l
        <5>1. \A j, l \in Live(g) : g.arts[j].name = g.arts[l].name => j = l
          BY Zenon, <4>2 DEF Session
        <5> QED
          BY <4>7, <5>1
      <4>9. Session(e, fs, ino) /\ (Undying(g, fs, ino) => Undying(e, fs, ino))
        <5>1. Fewer(e, g)
          BY <4>6, <4>7, <4>8 DEF Fewer
        <5> QED
          BY <4>2, <5>1, FewerArts
      <4>10. Ready(e, fs, ino)
        BY <1>3, <4>1, <4>6, <4>9 DEF OpenOK, Ready
      <4>11. Undying(fh, fs, ino) => Undying(e, fs, ino)
        BY <4>1, <4>9
      <4>12. PICK g2, s2, n2 : /\ Modified(State(e, fs, ino)) = State(g2, s2, n2) /\ Disk(s2, n2) /\ OpenOK(g2, s2, n2) /\ g2.modified
                               /\ Undying(e, fs, ino) => Undying(g2, s2, n2)
        BY <1>3, <4>10, ModifiedIs
      <4>13. Kept(State(g2, s2, n2))
        BY <1>3, <4>11, <4>12, KeptModified
      <4> QED
        BY <4>5, <4>12, <4>13
    <3> QED
      BY <1>3, <3>2, <3>4, <3>5, GetROpen
  <2> QED
    BY <2>1, <2>2
<1> QED
  BY <1>2, <1>4, <1>5, BecomesKeeps

-----------------------------------------------------------------------------
(* Files are added and grow: new paths of native files, new articles. *)

Grows(s, n, s2, n2) ==
  /\ Typed(s2, n2)
  /\ \A p \in DOMAIN s :
       /\ p \in DOMAIN s2 /\ s2[p] = s[p] /\ n2[s[p]].kind = n[s[p]].kind
       /\ n[s[p]].kind = "ALTM" => n2[s[p]] = n[s[p]]
       /\ n[s[p]].kind = "PURE" => \A a \in Names : n[s[p]].art[a] # Nothing => n2[s[p]].art[a] # Nothing
  /\ \A p \in DOMAIN s2 : p \notin DOMAIN s => n2[s2[p]].kind = "PURE"

LEMMA DiskGrows ==
  ASSUME NEW s, NEW n, NEW s2, NEW n2, Disk(s, n), Grows(s, n, s2, n2)
  PROVE  /\ Disk(s2, n2)
         /\ \A m \in Mains : HasMain(s2, n2, m) <=> HasMain(s, n, m)
         /\ \A m \in Mains : HasMain(s2, n2, m) => n2[s2[Main(m)]] = n[s[Main(m)]]
<1>1. \A p \in DOMAIN s :
       /\ p \in DOMAIN s2 /\ s2[p] = s[p] /\ n2[s[p]].kind = n[s[p]].kind
       /\ n[s[p]].kind = "ALTM" => n2[s[p]] = n[s[p]]
       /\ n[s[p]].kind = "PURE" => \A a \in Names : n[s[p]].art[a] # Nothing => n2[s[p]].art[a] # Nothing
  BY DEF Grows
<1>2. \A p \in DOMAIN s2 : p \notin DOMAIN s => n2[s2[p]].kind = "PURE"
  BY DEF Grows
<1>3. \A p \in DOMAIN s2 : p[2] > 0 => n2[s2[p]].kind = "PURE"
  <2>1. \A p \in DOMAIN s : p[2] > 0 => n[s[p]].kind = "PURE"
    BY DEF Disk
  <2> QED
    BY <1>1, <1>2, <2>1
<1>4. \A p, q \in DOMAIN s2 : s2[p] = s2[q] /\ p # q => n2[s2[p]].kind = "PURE"
  <2> SUFFICES ASSUME NEW p \in DOMAIN s2, NEW q \in DOMAIN s2, s2[p] = s2[q], p # q PROVE n2[s2[p]].kind = "PURE"
    OBVIOUS
  <2>1. CASE p \in DOMAIN s /\ q \in DOMAIN s
    <3>1. s[p] = s[q]
      BY <1>1, <2>1
    <3>2. n[s[p]].kind = "PURE"
      BY <2>1, <3>1 DEF Disk
    <3> QED
      BY <1>1, <2>1, <3>2
  <2>2. CASE p \notin DOMAIN s \/ q \notin DOMAIN s
    BY <1>2, <2>2
  <2> QED
    BY <2>1, <2>2
<1>5. ASSUME NEW m \in Mains
      PROVE  /\ HasMain(s2, n2, m) <=> HasMain(s, n, m)
             /\ HasMain(s2, n2, m) => n2[s2[Main(m)]] = n[s[Main(m)]]
  BY <1>1, <1>2 DEF HasMain
<1>6. ASSUME NEW m \in Mains, HasMain(s2, n2, m) PROVE IndexOK(s2, n2, m, n2[s2[Main(m)]])
  <2>1. HasMain(s, n, m) /\ n2[s2[Main(m)]] = n[s[Main(m)]]
    BY <1>5, <1>6
  <2>2. IndexOK(s, n, m, n[s[Main(m)]])
    BY <2>1 DEF Disk
  <2>3. \A p \in DOMAIN s : p[1] = m /\ p[2] > 0 =>
          p \in DOMAIN s2 /\ \A a \in Names : n[s[p]].art[a] # Nothing => n2[s2[p]].art[a] # Nothing
    <3>1. \A p \in DOMAIN s : p[2] > 0 => n[s[p]].kind = "PURE"
      BY DEF Disk
    <3> QED
      BY <1>1, <3>1
  <2>4. IndexOK(s2, n2, m, n[s[Main(m)]])
    BY <2>2, <2>3, IndexStays
  <2> QED
    BY <2>1, <2>4
<1>7. Typed(s2, n2)
  BY DEF Grows
<1>8. Disk(s2, n2)
  BY <1>3, <1>4, <1>6, <1>7 DEF Disk
<1> QED
  BY <1>5, <1>8

LEMMA SessionGrows ==
  ASSUME NEW f, NEW s, NEW n, NEW s2, NEW n2, Disk(s, n), Session(f, s, n), Grows(s, n, s2, n2)
  PROVE  /\ Session(f, s2, n2)
         /\ \A k \in Present(f) : s2[f.files[k].path] = s[f.files[k].path]
<1>1. \A p \in DOMAIN s :
       /\ p \in DOMAIN s2 /\ s2[p] = s[p]
       /\ n[s[p]].kind = "PURE" => \A a \in Names : n[s[p]].art[a] # Nothing => n2[s[p]].art[a] # Nothing
  BY DEF Grows
<1>2. \A k \in Present(f) : /\ f.files[k].path \in DOMAIN s /\ f.files[k].path[1] = f.m /\ f.files[k].path[2] > 0
                           /\ f.files[k].at \in {0, s[f.files[k].path]}
  BY Zenon DEF Session
<1>3. \A k \in Present(f) : /\ f.files[k].path \in DOMAIN s2 /\ s2[f.files[k].path] = s[f.files[k].path]
                            /\ n[s[f.files[k].path]].kind = "PURE"
  BY <1>1, <1>2 DEF Disk
<1>4. \A i \in Live(f) : /\ f.arts[i].ifh \in DOMAIN f.files /\ f.arts[i].namf \in Names
                         /\ n2[s2[f.files[f.arts[i].ifh].path]].art[f.arts[i].namf] # Nothing
  <2> TAKE i \in Live(f)
  <2> DEFINE k == f.arts[i].ifh
             q == f.files[k].path
  <2>1. k \in DOMAIN f.files /\ f.arts[i].namf \in Names /\ n[s[q]].art[f.arts[i].namf] # Nothing
    BY Zenon DEF Session
  <2>2. k \in Used(f) /\ k \in Present(f)
    BY Zenon, <2>1, UsedIs
  <2> HIDE DEF k
  <2>3. q \in DOMAIN s /\ n[s[q]].kind = "PURE" /\ s2[q] = s[q]
    BY <1>2, <1>3, <2>2
  <2> HIDE DEF q
  <2>4. n2[s2[q]].art[f.arts[i].namf] # Nothing
    BY <1>1, <2>1, <2>3
  <2> QED
    BY Zenon, <2>1, <2>4 DEF k, q
<1>5. \A k \in Present(f) : /\ f.files[k].path \in DOMAIN s2 /\ f.files[k].path[1] = f.m /\ f.files[k].path[2] > 0
                           /\ f.files[k].at \in {0, s2[f.files[k].path]}
  BY <1>2, <1>3
<1>6. /\ \A i, j \in Live(f) : f.arts[i].name = f.arts[j].name => i = j
      /\ \A k \in DOMAIN f.files : f.files[k].form = "any"
      /\ \A k, l \in Present(f) : f.files[k].path = f.files[l].path => k = l
      /\ f \in Units
  BY Zenon DEF Session
<1>7. Session(f, s2, n2)
  BY Zenon, <1>4, <1>5, <1>6 DEF Session
<1> QED
  BY <1>3, <1>7

-----------------------------------------------------------------------------
(* getfhw: a new sub-file. *)

\* A unit that is being written to.
Writing(f, s, n) ==
  /\ Disk(s, n) /\ Session(f, s, n) /\ HasMain(s, n, f.m) /\ f.m \in Opened /\ f.unlink
  /\ f.w \in 0 .. Len(f.files)
  /\ f.w > 0 => f.files[f.w].at > 0 /\ ~f.files[f.w].dead

\* The unit with one more sub-file, where it writes.
MoreFile(f, p, k) == [f EXCEPT !.files = Append(f.files, SubFile(p, "any", k)), !.w = Len(f.files) + 1]
MoreFs(s, n, p) == Put(s, p, Len(n) + 1)
MoreIno(n) == Append(n, Native(NoArticles, 0, FALSE))

MoreFileSame(g, f, p, k) ==
  /\ g \in Units /\ g.m = f.m /\ g.arts = f.arts /\ g.w = Len(f.files) + 1 /\ g.iart = f.iart
  /\ g.modified = f.modified /\ g.unlink = f.unlink /\ g.open
  /\ Len(g.files) = Len(f.files) + 1 /\ DOMAIN g.files = DOMAIN f.files \cup {Len(f.files) + 1}
  /\ \A l \in DOMAIN f.files : g.files[l] = f.files[l] /\ l # Len(f.files) + 1
  /\ g.files[Len(f.files) + 1] = SubFile(p, "any", k)
  /\ Live(g) = Live(f)
  /\ Len(f.files) + 1 \in Present(g) /\ Present(g) \ {Len(f.files) + 1} = Present(f) \ {Len(f.files) + 1}

LEMMA MoreFileIs ==
  ASSUME NEW f \in Units, NEW p \in Mains \X Nat, NEW k \in Nat
  PROVE  MoreFileSame(MoreFile(f, p, k), f, p, k)
<1> DEFINE g == MoreFile(f, p, k)
           N == Len(f.files)
           x == SubFile(p, "any", k)
           F == Append(f.files, x)
<1>1. f.files \in Seq(FileRecs) /\ N \in Nat /\ DOMAIN f.files = 1 .. N
  BY UnitIs
<1>2. x \in FileRecs /\ ~x.dead
  BY DEF SubFile, FileRecs, Forms
<1> HIDE DEF x
<1>3. F \in Seq(FileRecs) /\ Len(F) = N + 1 /\ DOMAIN F = DOMAIN f.files \cup {N + 1}
      /\ F[N + 1] = x /\ \A l \in DOMAIN f.files : F[l] = f.files[l] /\ l # N + 1
  BY <1>1, <1>2
<1>4. g = [f EXCEPT !.files = F, !.w = N + 1]
  BY DEF MoreFile, x
<1> HIDE DEF F, N
<1>5. /\ g \in Units /\ g.m = f.m /\ g.arts = f.arts /\ g.w = N + 1 /\ g.iart = f.iart
      /\ g.modified = f.modified /\ g.unlink = f.unlink /\ g.open /\ g.files = F
  <2>1. N + 1 \in Nat
    BY <1>1
  <2> DEFINE N1 == N + 1
  <2> HIDE DEF N1, g
  <2>2. g = [f EXCEPT !.files = F, !.w = N1]
    BY <1>4 DEF N1
  <2>3. N1 \in Nat
    BY <2>1 DEF N1
  <2>4. /\ g \in Units /\ g.m = f.m /\ g.arts = f.arts /\ g.w = N1 /\ g.iart = f.iart
        /\ g.modified = f.modified /\ g.unlink = f.unlink /\ g.open /\ g.files = F
    BY <1>3, <2>2, <2>3 DEF Units
  <2> QED
    BY <2>4 DEF N1
<1> HIDE DEF g, N
<1>6. Live(g) = Live(f)
  BY <1>5 DEF Live
<1>7. N + 1 \in Present(g) /\ Present(g) \ {N + 1} = Present(f) \ {N + 1}
  <2>1. Used(g) \ {N + 1} = Used(f) \ {N + 1}
    BY <1>3, <1>5, <1>6, UsedIs
  <2> QED
    BY Zenon, <1>2, <1>3, <1>5, <2>1 DEF Present
<1> QED
  BY <1>3, <1>5, <1>6, <1>7 DEF g, N, x, MoreFileSame

LEMMA MoreGrows ==
  ASSUME NEW s, NEW n, Disk(s, n), NEW p \in Mains \X Nat, p \notin DOMAIN s
  PROVE  /\ Grows(s, n, MoreFs(s, n, p), MoreIno(n))
         /\ DOMAIN MoreFs(s, n, p) = DOMAIN s \cup {p} /\ MoreFs(s, n, p)[p] = Len(n) + 1
         /\ \A q \in DOMAIN s : MoreFs(s, n, p)[q] = s[q] /\ MoreIno(n)[s[q]] = n[s[q]] /\ s[q] # Len(n) + 1
         /\ DOMAIN MoreIno(n) = DOMAIN n \cup {Len(n) + 1} /\ Len(n) + 1 \in Nat \ {0}
         /\ \A k \in DOMAIN n : MoreIno(n)[k] = n[k] /\ k # Len(n) + 1
         /\ MoreIno(n)[Len(n) + 1] = Native(NoArticles, 0, FALSE)
<1> DEFINE s2 == MoreFs(s, n, p)
           n2 == MoreIno(n)
           x == Native(NoArticles, 0, FALSE)
           K == Len(n) + 1
<1>1. /\ Typed(s, n) /\ Len(n) \in Nat /\ DOMAIN n = 1 .. Len(n) /\ (\A k \in DOMAIN n : n[k] \in Inodes) /\ n \in Seq(Inodes)
      /\ \A q \in DOMAIN s : q \in Mains \X Nat /\ s[q] \in DOMAIN n
      /\ IsFiniteSet(DOMAIN s)
  BY TypedIs DEF Disk, Typed
<1>2. x \in Inodes /\ x.kind = "PURE"
  <2>1. NoArticles \in [Names -> {Nothing} \cup Values]
    BY DEF NoArticles
  <2> HIDE DEF x
  <2>2. x \in SubInodes
    BY <2>1 DEF SubInodes, Native, x
  <2> QED
    BY <2>2, KindIs DEF Inodes
<1> HIDE DEF x
<1>3. n2 \in Seq(Inodes) /\ Len(n2) = K /\ DOMAIN n2 = DOMAIN n \cup {K} /\ n2[K] = x /\ \A k \in DOMAIN n : n2[k] = n[k] /\ k # K
  <2>1. n2 = Append(n, x)
    BY DEF MoreIno, x
  <2> HIDE DEF n2
  <2> QED
    BY <1>1, <1>2, <2>1
<1>4. K \in Nat \ {0}
  BY <1>1
<1> HIDE DEF n2, K
<1>5. DOMAIN s2 = DOMAIN s \cup {p} /\ s2[p] = K /\ (\A q \in DOMAIN s : s2[q] = s[q]) /\ IsFiniteSet(DOMAIN s2)
      /\ s2 = [q \in DOMAIN s2 |-> s2[q]]
  <2>1. s2 = Put(s, p, K)
    BY DEF MoreFs, K
  <2>2. /\ DOMAIN Put(s, p, K) = DOMAIN s \cup {p} /\ Put(s, p, K)[p] = K
        /\ \A q \in DOMAIN s : q # p => Put(s, p, K)[q] = s[q]
        /\ Put(s, p, K) = [q \in DOMAIN Put(s, p, K) |-> Put(s, p, K)[q]]
    BY DEF Put
  <2>3. IsFiniteSet(DOMAIN Put(s, p, K))
    BY Zenon, <1>1, PutIs
  <2> HIDE DEF s2
  <2> QED
    BY <2>1, <2>2, <2>3
<1> HIDE DEF s2
<1>6. Typed(s2, n2)
  <2>1. \A q \in DOMAIN s2 : q \in Mains \X Nat /\ s2[q] \in 1 .. Len(n2)
    <3> TAKE q \in DOMAIN s2
    <3>1. CASE q = p
      BY <1>3, <1>4, <1>5, <3>1
    <3>2. CASE q # p
      <4>1. q \in DOMAIN s /\ s[q] \in 1 .. Len(n) /\ s2[q] = s[q]
        BY <1>1, <1>5, <3>2
      <4>2. Len(n2) = Len(n) + 1
        BY <1>3 DEF K
      <4> QED
        BY <1>1, <4>1, <4>2
    <3> QED
      BY <3>1, <3>2
  <2> QED
    BY <1>3, <1>5, <2>1 DEF Typed
<1>7. \A q \in DOMAIN s : s2[q] = s[q] /\ n2[s[q]] = n[s[q]] /\ s[q] # K
  BY <1>1, <1>3, <1>5
<1>8. Grows(s, n, s2, n2)
  BY <1>2, <1>3, <1>5, <1>6, <1>7 DEF Grows
<1> QED
  BY <1>3, <1>4, <1>5, <1>7, <1>8 DEF s2, n2, K, x

\* What becomes of a unit that is being written to.
GoesOn(q, f, s, n) ==
  \E g, s2, n2 : /\ q = State(g, s2, n2)
                 /\ Writing(g, s2, n2) /\ g.w > 0 /\ g.arts = f.arts
                 /\ Undying(f, s, n) => Undying(g, s2, n2)

LEMMA NewSubIs ==
  ASSUME OrdinaryUse, NEW f, NEW s, NEW n, Writing(f, s, n)
  PROVE  GoesOn(NewSubFile(State(f, s, n), NewPath(s, f.m), Len(n) + 1), f, s, n)
<1> DEFINE p == NewPath(s, f.m)
           K == Len(n) + 1
           N == Len(f.files) + 1
           g == MoreFile(f, p, K)
           s2 == MoreFs(s, n, p)
           n2 == MoreIno(n)
<1>1. f \in Units /\ f.m \in Mains /\ Disk(s, n) /\ Typed(s, n) /\ IsFiniteSet(DOMAIN s) /\ Session(f, s, n) /\ f.open
      /\ Len(f.files) \in Nat /\ DOMAIN f.files = 1 .. Len(f.files)
  <2>1. f \in Units /\ Disk(s, n) /\ Typed(s, n) /\ Session(f, s, n)
    BY Zenon DEF Writing, Session, Disk
  <2> QED
    BY <2>1, TypedIs, UnitIs
<1>2. p \in Mains \X Nat /\ p[1] = f.m /\ p[2] > 0 /\ p \notin DOMAIN s
  <2>1. PICK x \in Nat \ {0} : p = <<f.m, x>> /\ <<f.m, x>> \notin DOMAIN s
    BY <1>1, NewPathIs
  <2> QED
    BY <1>1, <2>1
<1>3. NewSubFile(State(f, s, n), p, K) = State(g, s2, n2)
  <2> DEFINE q == NewSubFile(State(f, s, n), p, K)
  <2>3. GivenForm = "any"
    BY FormsAre
  <2> HIDE DEF p, K, N
  <2>4. q.f = MoreFile(f, p, K) /\ q.fs = Put(s, p, K) /\ q.ino = n2 /\ q.ok = TRUE /\ q = [y \in {"f", "fs", "ino", "ok"} |-> q[y]]
    BY <2>3 DEF State, MoreFile, MoreIno, NewSubFile
  <2>5. Put(s, p, K) = s2
    BY DEF MoreFs, K
  <2> HIDE DEF q, g, s2, n2
  <2>6. q \in [f : {g}, fs : {s2}, ino : {n2}, ok : {TRUE}]
    BY <2>4, <2>5 DEF g
  <2>7. q = State(g, s2, n2)
    BY <2>6, StateIn
  <2> QED
    BY <2>7 DEF q
<1> HIDE DEF p
<1>4. /\ Grows(s, n, s2, n2)
      /\ DOMAIN s2 = DOMAIN s \cup {p} /\ s2[p] = K
      /\ \A q \in DOMAIN s : s2[q] = s[q] /\ n2[s[q]] = n[s[q]] /\ s[q] # K
      /\ DOMAIN n2 = DOMAIN n \cup {K} /\ K \in Nat \ {0}
      /\ \A k \in DOMAIN n : n2[k] = n[k] /\ k # K
      /\ n2[K] = Native(NoArticles, 0, FALSE)
  BY <1>1, <1>2, MoreGrows
<1> HIDE DEF K
<1>5. MoreFileSame(g, f, p, K)
  BY <1>1, <1>2, <1>4, MoreFileIs
<1> HIDE DEF s2, n2, g, N
<1>6. /\ g \in Units /\ g.m = f.m /\ g.arts = f.arts /\ g.w = N /\ g.modified = f.modified /\ g.unlink = f.unlink /\ g.open
      /\ Len(g.files) = N /\ DOMAIN g.files = DOMAIN f.files \cup {N}
      /\ \A l \in DOMAIN f.files : g.files[l] = f.files[l] /\ l # N
      /\ g.files[N] = SubFile(p, "any", K)
      /\ Live(g) = Live(f) /\ N \in Present(g) /\ Present(g) \ {N} = Present(f) \ {N}
  BY <1>5 DEF MoreFileSame, N
<1>7. SubFile(p, "any", K).path = p /\ SubFile(p, "any", K).form = "any" /\ SubFile(p, "any", K).at = K /\ ~SubFile(p, "any", K).dead
  BY DEF SubFile
<1>8. Present(f) \subseteq DOMAIN f.files /\ N \notin DOMAIN f.files
  BY <1>6, UsedIs
<1>9. \A k \in Present(g) : k = N \/ (k \in Present(f) /\ g.files[k] = f.files[k])
  BY <1>6, <1>8
<1>10. Session(f, s2, n2) /\ Disk(s2, n2) /\ HasMain(s2, n2, f.m)
  BY <1>1, <1>4, SessionGrows, DiskGrows DEF Writing
<1>11. Session(g, s2, n2)
  <2>1. \A i \in Live(g) :
          /\ g.arts[i].ifh \in DOMAIN g.files /\ g.arts[i].namf \in Names
          /\ n2[s2[g.files[g.arts[i].ifh].path]].art[g.arts[i].namf] # Nothing
    <3> TAKE i \in Live(g)
    <3>0. i \in Live(f)
      BY <1>6
    <3>1. f.arts[i].ifh \in DOMAIN f.files /\ f.arts[i].namf \in Names
          /\ n2[s2[f.files[f.arts[i].ifh].path]].art[f.arts[i].namf] # Nothing
      BY Zenon, <1>10, <3>0 DEF Session
    <3>2. g.files[f.arts[i].ifh] = f.files[f.arts[i].ifh]
      BY Zenon, <1>6, <3>1
    <3> QED
      BY Zenon, <1>6, <3>1, <3>2
  <2>2. \A i, j \in Live(g) : g.arts[i].name = g.arts[j].name => i = j
    <3>1. \A i, j \in Live(f) : f.arts[i].name = f.arts[j].name => i = j
      BY Zenon, <1>10 DEF Session
    <3> QED
      BY <1>6, <3>1
  <2>3. \A k \in DOMAIN g.files : g.files[k].form = "any"
    <3>1. \A k \in DOMAIN f.files : f.files[k].form = "any"
      BY Zenon, <1>10 DEF Session
    <3> QED
      BY <1>6, <1>7, <3>1
  <2>4. \A k \in Present(g) : /\ g.files[k].path \in DOMAIN s2 /\ g.files[k].path[1] = g.m /\ g.files[k].path[2] > 0
                              /\ g.files[k].at \in {0, s2[g.files[k].path]}
    <3>1. \A k \in Present(f) : /\ f.files[k].path \in DOMAIN s2 /\ f.files[k].path[1] = f.m /\ f.files[k].path[2] > 0
                                /\ f.files[k].at \in {0, s2[f.files[k].path]}
      BY Zenon, <1>10 DEF Session
    <3> QED
      BY <1>2, <1>4, <1>6, <1>7, <1>9, <3>1
  <2>5. \A k, l \in Present(g) : g.files[k].path = g.files[l].path => k = l
    <3>1. \A k \in Present(f) : f.files[k].path \in DOMAIN s
      BY Zenon, <1>1 DEF Session
    <3>2. \A k, l \in Present(f) : f.files[k].path = f.files[l].path => k = l
      BY Zenon, <1>1 DEF Session
    <3> QED
      BY <1>2, <1>6, <1>7, <1>9, <3>1, <3>2
  <2> QED
    BY Zenon, <1>6, <2>1, <2>2, <2>3, <2>4, <2>5 DEF Session
<1>12. N \in Nat \ {0}
  BY <1>1 DEF N
<1>13. Writing(g, s2, n2)
  <2>1. g.w \in 0 .. Len(g.files) /\ g.files[g.w].at > 0 /\ ~g.files[g.w].dead
    BY <1>4, <1>6, <1>7, <1>12
  <2> QED
    BY <1>6, <1>10, <1>11, <2>1 DEF Writing
<1>14. ASSUME Undying(f, s, n) PROVE Undying(g, s2, n2)
  <2>1. Clean(g, n2)
    <3>1. Clean(f, n)
      BY <1>14 DEF Undying
    <3>2. n2[K].kind # "UNKN"
      BY <1>4 DEF Native
    <3>3. \A k \in DOMAIN n2 : n2[k].kind # "UNKN"
      BY <1>4, <3>1, <3>2 DEF Clean
    <3>4. ASSUME NEW k \in DOMAIN n2, n2[k].kind = "PURE" /\ ~n2[k].clean
          PROVE  \E j \in DOMAIN g.files : g.files[j].at = k
      <4>1. CASE k = K
        BY <1>6, <1>7, <4>1
      <4>2. CASE k # K
        <5>1. k \in DOMAIN n /\ n2[k] = n[k]
          BY <1>4, <4>2
        <5>2. \E j \in DOMAIN f.files : f.files[j].at = k
          BY <3>1, <3>4, <5>1 DEF Clean
        <5> QED
          BY <1>6, <5>2
      <4> QED
        BY <4>1, <4>2
    <3> QED
      BY <1>6, <3>3, <3>4 DEF Clean
  <2>2. Readable(g, s2, n2)
    <3> SUFFICES ASSUME NEW k \in Present(g), g.files[k].at = 0 PROVE n2[s2[g.files[k].path]].clean
      BY DEF Readable
    <3>1. k \in Present(f) /\ g.files[k] = f.files[k]
      BY <1>4, <1>6, <1>7, <1>9
    <3>2. n[s[f.files[k].path]].clean
      BY <1>1, <1>14, <3>1 DEF Undying, Readable
    <3>3. f.files[k].path \in DOMAIN s
      BY Zenon, <1>1, <3>1 DEF Session
    <3> QED
      BY <1>4, <3>1, <3>2, <3>3
  <2>3. ASSUME Owned(f, s, n) PROVE Owned(g, s2, n2)
    <3> SUFFICES ASSUME NEW q \in DOMAIN s2, q[2] > 0
                 PROVE  IF q[1] = g.m THEN \E k \in DOMAIN g.files : ~g.files[k].dead /\ g.files[k].path = q
                        ELSE HasMain(s2, n2, q[1]) /\ \E x \in Range(n2[s2[Main(q[1])]].files) : x.path = q
      BY <1>6 DEF Owned
    <3>1. CASE q = p
      BY <1>2, <1>6, <1>7, <3>1
    <3>2. CASE q # p /\ q[1] = g.m
      <4>1. q \in DOMAIN s
        BY <1>4, <3>2
      <4>2. \E k \in DOMAIN f.files : ~f.files[k].dead /\ f.files[k].path = q
        BY <1>1, <1>6, <2>3, <3>2, <4>1 DEF Owned
      <4> QED
        BY <1>6, <3>2, <4>2
    <3>3. CASE q # p /\ q[1] # g.m
      <4>1. q \in DOMAIN s
        BY <1>4, <3>3
      <4>2. HasMain(s, n, q[1]) /\ \E x \in Range(n[s[Main(q[1])]].files) : x.path = q
        BY <1>6, <2>3, <3>3, <4>1 DEF Owned
      <4>3. q[1] \in Mains
        BY <1>1, <4>1, TypedIs
      <4>4. HasMain(s2, n2, q[1]) /\ n2[s2[Main(q[1])]] = n[s[Main(q[1])]]
        BY <1>1, <1>4, <4>2, <4>3, DiskGrows
      <4> QED
        BY <3>3, <4>2, <4>4
    <3> QED
      BY <3>1, <3>2, <3>3
  <2> QED
    BY <1>6, <1>14, <2>1, <2>2, <2>3 DEF Undying
<1>15. g.w > 0
  BY <1>6, <1>12
<1> QED
  BY <1>3, <1>6, <1>13, <1>14, <1>15 DEF p, K, GoesOn

\* Where one writes, and where one goes on when anew.
LEMMA GetWIs ==
  ASSUME OrdinaryUse, NEW f, NEW s, NEW n, Writing(f, s, n)
  PROVE  GoesOn(GetW(State(f, s, n), FALSE), f, s, n) /\ GoesOn(GetW(State(f, s, n), TRUE), f, s, n)
<1> DEFINE r == State(f, s, n)
           x == NewSubFile(r, NewPath(s, f.m), Len(n) + 1)
<1>1. r.f = f /\ r.fs = s /\ r.ino = n
  BY DEF State
<1>2. GoesOn(x, f, s, n)
  BY NewSubIs
<1> HIDE DEF r
<1>3. x = NewSubFile(r, NewPath(r.fs, r.f.m), Len(r.ino) + 1)
  BY <1>1
<1>4. GetW(r, TRUE) = x
  BY <1>3 DEF GetW, WritesTo
<1>5. GetW(r, FALSE) = IF f.w > 0 THEN r ELSE x
  BY <1>1, <1>3 DEF GetW, WritesTo
<1> HIDE DEF x
<1>6. GoesOn(GetW(r, TRUE), f, s, n)
  BY <1>2, <1>4
<1>7. GoesOn(GetW(r, FALSE), f, s, n)
  <2>1. CASE f.w > 0
    BY <1>5, <2>1 DEF r, GoesOn
  <2>2. CASE ~(f.w > 0)
    BY <1>2, <1>5, <2>2
  <2> QED
    BY <2>1, <2>2
<1> QED
  BY <1>6, <1>7 DEF r

-----------------------------------------------------------------------------
(* LFIECR. *)

\* Article a of inode k becomes v, in a new slot or not.
StoreIno(n, k, a, v, more) == [n EXCEPT ![k] = [n[k] EXCEPT !.art = [n[k].art EXCEPT ![a] = v], !.slots = n[k].slots + more]]

LEMMA StoreGrows ==
  ASSUME NEW s, NEW n, Disk(s, n), NEW k \in DOMAIN n, n[k] \in SubInodes, NEW a \in Names, NEW v \in Values, NEW more \in {0, 1}
  PROVE  LET n2 == StoreIno(n, k, a, v, more)
         IN  /\ Grows(s, n, s, n2) /\ DOMAIN n2 = DOMAIN n /\ n2[k].art[a] = v
             /\ \A j \in DOMAIN n : n2[j].kind = n[j].kind /\ (n[j].kind = "PURE" => n2[j].clean = n[j].clean)
                                    /\ (n[j].kind = "ALTM" => n2[j] = n[j])
<1> DEFINE x == [n[k] EXCEPT !.art = [n[k].art EXCEPT ![a] = v], !.slots = n[k].slots + more]
           n2 == StoreIno(n, k, a, v, more)
<1>1. /\ Typed(s, n) /\ Len(n) \in Nat /\ DOMAIN n = 1 .. Len(n) /\ n \in Seq(Inodes)
      /\ \A p \in DOMAIN s : s[p] \in DOMAIN n
      /\ DOMAIN s \in SUBSET (Mains \X Nat) /\ IsFiniteSet(DOMAIN s)
  BY TypedIs DEF Disk, Typed
<1>2. /\ x \in SubInodes /\ x.kind = "PURE" /\ x.clean = n[k].clean
      /\ x.art[a] = v /\ \A b \in Names : b # a => x.art[b] = n[k].art[b]
  <2>1. n[k].slots + more \in Int
    BY DEF SubInodes
  <2> DEFINE y == n[k].slots + more
  <2> HIDE DEF y
  <2>2. x = [n[k] EXCEPT !.art = [n[k].art EXCEPT ![a] = v], !.slots = y] /\ y \in Int
    BY <2>1 DEF y
  <2>3. [n[k].art EXCEPT ![a] = v] \in [Names -> {Nothing} \cup Values]
    BY DEF SubInodes
  <2> HIDE DEF x
  <2> QED
    BY Zenon, <2>2, <2>3 DEF SubInodes
<1>3. x \in Inodes /\ n[k].kind = "PURE"
  BY <1>2 DEF Inodes, SubInodes
<1>4. n2 = [n EXCEPT ![k] = x]
  BY DEF StoreIno
<1> HIDE DEF x, n2
<1>5. /\ n2 \in Seq(Inodes) /\ Len(n2) = Len(n) /\ DOMAIN n2 = DOMAIN n /\ n2[k] = x
      /\ \A j \in DOMAIN n : j # k => n2[j] = n[j]
  BY <1>1, <1>3, <1>4
<1>6. Typed(s, n2)
  BY <1>1, <1>5 DEF Typed
<1>7. \A j \in DOMAIN n : n2[j].kind = n[j].kind /\ (n[j].kind = "PURE" => n2[j].clean = n[j].clean)
                          /\ (n[j].kind = "ALTM" => n2[j] = n[j])
                          /\ \A b \in Names : n[j].art[b] # Nothing => n2[j].art[b] # Nothing
  <2>1. v # Nothing
    BY ValueIs
  <2> QED
    BY <1>2, <1>3, <1>5, <2>1
<1>8. Grows(s, n, s, n2)
  BY <1>1, <1>6, <1>7 DEF Grows
<1> QED
  BY <1>2, <1>5, <1>7, <1>8 DEF n2

\* What one stores keeps a unit as it was, if no process has died.
LEMMA UndyingStored ==
  ASSUME NEW f, NEW s, NEW n, NEW n2, Disk(s, n), Disk(s, n2), Session(f, s, n), Undying(f, s, n), DOMAIN n2 = DOMAIN n,
         \A j \in DOMAIN n : n2[j].kind = n[j].kind /\ (n[j].kind = "PURE" => n2[j].clean = n[j].clean)
                             /\ (n[j].kind = "ALTM" => n2[j] = n[j])
  PROVE  Undying(f, s, n2)
<1>0. \A p \in DOMAIN s : s[p] \in DOMAIN n /\ p \in Mains \X Nat
  BY TypedIs DEF Disk
<1>1. Clean(f, n2)
  BY DEF Undying, Clean
<1>2. Readable(f, s, n2)
  <2> SUFFICES ASSUME NEW j \in Present(f), f.files[j].at = 0 PROVE n2[s[f.files[j].path]].clean
    BY DEF Readable
  <2>1. n[s[f.files[j].path]].clean
    BY Zenon, UnitOpen DEF Undying, Readable, Session
  <2>2. f.files[j].path \in DOMAIN s /\ f.files[j].path[2] > 0
    BY Zenon DEF Session
  <2>3. n[s[f.files[j].path]].kind = "PURE"
    BY <2>2 DEF Disk
  <2> QED
    BY <1>0, <2>1, <2>2, <2>3
<1>3. Owned(f, s, n) => Owned(f, s, n2)
  <2>1. \A m \in Mains : HasMain(s, n, m) => HasMain(s, n2, m) /\ n2[s[Main(m)]] = n[s[Main(m)]]
    BY <1>0 DEF HasMain
  <2> QED
    BY <1>0, <2>1 DEF Owned
<1> QED
  BY <1>1, <1>2, <1>3 DEF Undying

LEMMA StoreIs ==
  ASSUME NEW f, NEW s, NEW n, Writing(f, s, n), f.w > 0, NEW i \in DOMAIN f.arts, NEW a \in Names,
         \A j \in Live(f) : j # i => f.arts[j].name # a,
         NEW v \in Values, NEW more \in {0, 1}
  PROVE  LET g  == [PutArt(f, i, Entry(a, a, f.w)) EXCEPT !.iart = i]
             n2 == StoreIno(n, f.files[f.w].at, a, v, more)
         IN  Ready(g, s, n2) /\ (Undying(f, s, n) => Undying(g, s, n2))
<1> DEFINE c == Entry(a, a, f.w)
           e == PutArt(f, i, c)
           g == [e EXCEPT !.iart = i]
           w == f.w
           at == f.files[w].at
           n2 == StoreIno(n, at, a, v, more)
<1>1. f \in Units /\ Disk(s, n) /\ Session(f, s, n) /\ f.open
  BY Zenon, UnitOpen DEF Writing, Session
<1>2. DOMAIN f.files = 1 .. Len(f.files) /\ Len(f.files) \in Nat /\ DOMAIN f.arts = 1 .. Len(f.arts) /\ Len(f.arts) \in Nat
  BY <1>1, UnitIs
<1>3. w \in DOMAIN f.files /\ w \in Nat /\ w > 0 /\ at > 0 /\ ~f.files[w].dead
  BY <1>2 DEF Writing
<1>4. w \in Present(f)
  BY <1>3 DEF Present
<1>5. f.files[w].path \in DOMAIN s /\ at = s[f.files[w].path] /\ f.files[w].path[2] > 0
  <2>1. \A k \in Present(f) : f.files[k].path \in DOMAIN s /\ f.files[k].path[2] > 0 /\ f.files[k].at \in {0, s[f.files[k].path]}
    BY Zenon, <1>1 DEF Session
  <2>2. at # 0
    BY <1>3
  <2> HIDE DEF w
  <2> QED
    BY <1>4, <2>1, <2>2
<1>6. at \in DOMAIN n /\ n[at] \in SubInodes
  <2>1. n[at].kind = "PURE"
    BY <1>1, <1>5 DEF Disk
  <2>2. at \in DOMAIN n /\ n[at] \in Inodes
    BY <1>1, <1>5, TypedIs DEF Disk
  <2> QED
    BY <2>1, <2>2, KindIs
<1>7. a # Blank /\ c \in EntryRecs /\ c.name = a /\ c.namf = a /\ c.ifh = w
  BY <1>3, NamesAssumption DEF Entry, EntryRecs, NamesAssumption
<1> HIDE DEF c, w, at
<1>8. /\ Grows(s, n, s, n2) /\ DOMAIN n2 = DOMAIN n /\ n2[at].art[a] # Nothing
      /\ \A j \in DOMAIN n : n2[j].kind = n[j].kind /\ (n[j].kind = "PURE" => n2[j].clean = n[j].clean)
                             /\ (n[j].kind = "ALTM" => n2[j] = n[j])
  BY <1>1, <1>6, StoreGrows, ValueIs
<1> HIDE DEF n2
<1>9. Disk(s, n2) /\ Session(f, s, n2) /\ HasMain(s, n2, f.m)
  <2>1. f.m \in Mains /\ HasMain(s, n, f.m)
    BY <1>1, UnitIs DEF Writing
  <2> QED
    BY <1>1, <1>8, <2>1, DiskGrows, SessionGrows
<1>10. PutArtSame(e, f, i, c)
  BY <1>1, <1>7, PutArtIs
<1> HIDE DEF e
<1>11. /\ e \in Units /\ e.open = f.open /\ e.m = f.m /\ e.files = f.files /\ e.w = f.w
       /\ e.modified = f.modified /\ e.unlink = f.unlink
       /\ DOMAIN e.arts = DOMAIN f.arts /\ e.arts[i] = c
       /\ \A j \in Live(e) : j = i \/ (j # i /\ j \in Live(f) /\ e.arts[j] = f.arts[j])
       /\ Live(e) = Live(f) \cup {i}
  BY <1>7, <1>10 DEF PutArtSame
<1>12. Used(e) \subseteq Used(f) \cup {w} /\ w \in Used(e)
  <2>1. Used(e) = {k \in DOMAIN f.files : \E j \in Live(e) : e.arts[j].ifh = k}
    BY <1>11, UsedIs
  <2>2. Used(f) = {k \in DOMAIN f.files : \E j \in Live(f) : f.arts[j].ifh = k}
    BY UsedIs
  <2> QED
    BY <1>3, <1>7, <1>11, <2>1, <2>2
<1>13. Present(e) \subseteq Present(f)
  BY <1>4, <1>11, <1>12 DEF Present
<1>14. Session(e, s, n2)
  <2>1. \A j \in Live(e) : /\ e.arts[j].ifh \in DOMAIN e.files /\ e.arts[j].namf \in Names
                           /\ n2[s[e.files[e.arts[j].ifh].path]].art[e.arts[j].namf] # Nothing
    <3> TAKE j \in Live(e)
    <3>1. CASE j = i
      <4>1. e.arts[j].ifh = w /\ e.arts[j].namf = a /\ e.files[w].path = f.files[w].path
        BY <1>7, <1>11, <3>1
      <4> QED
        BY <1>3, <1>5, <1>8, <1>11, <4>1
    <3>2. CASE j # i
      <4>1. j \in Live(f) /\ e.arts[j] = f.arts[j]
        BY <1>11, <3>2
      <4>2. /\ f.arts[j].ifh \in DOMAIN f.files /\ f.arts[j].namf \in Names
            /\ n2[s[f.files[f.arts[j].ifh].path]].art[f.arts[j].namf] # Nothing
        BY Zenon, <1>9, <4>1 DEF Session
      <4> QED
        BY Zenon, <1>11, <4>1, <4>2
    <3> QED
      BY Zenon, <3>1, <3>2
  <2>2. \A j, l \in Live(e) : e.arts[j].name = e.arts[l].name => j = l
    <3>1. \A j, l \in Live(f) : f.arts[j].name = f.arts[l].name => j = l
      BY Zenon, <1>1 DEF Session
    <3> QED
      BY <1>7, <1>11, <3>1
  <2>3. \A k \in DOMAIN e.files : e.files[k].form = "any"
    BY Zenon, <1>1, <1>11 DEF Session
  <2>4. \A k \in Present(e) : /\ e.files[k].path \in DOMAIN s /\ e.files[k].path[1] = e.m /\ e.files[k].path[2] > 0
                              /\ e.files[k].at \in {0, s[e.files[k].path]}
    BY Zenon, <1>1, <1>11, <1>13 DEF Session
  <2>5. \A k, l \in Present(e) : e.files[k].path = e.files[l].path => k = l
    <3>1. \A k, l \in Present(f) : f.files[k].path = f.files[l].path => k = l
      BY Zenon, <1>1 DEF Session
    <3> QED
      BY <1>11, <1>13, <3>1
  <2> QED
    BY Zenon, <1>11, <2>1, <2>2, <2>3, <2>4, <2>5 DEF Session
<1>15. /\ g \in Units /\ g.open = e.open /\ g.m = e.m /\ g.files = e.files /\ g.arts = e.arts /\ g.w = e.w
       /\ g.modified = e.modified /\ g.unlink = e.unlink
  <2>1. i \in Nat
    BY <1>2
  <2> QED
    BY <1>11, <2>1 DEF Units
<1> HIDE DEF g
<1>16. Session(g, s, n2) /\ Used(g) = Used(e) /\ Present(g) = Present(e)
  BY <1>14, <1>15, SessionSame
<1>17. Ready(g, s, n2)
  BY <1>3, <1>9, <1>11, <1>12, <1>15, <1>16 DEF Ready, Writing, w, at
<1>18. ASSUME Undying(f, s, n) PROVE Undying(g, s, n2)
  <2>1. Undying(f, s, n2)
    BY <1>1, <1>8, <1>9, <1>18, UndyingStored
  <2>2. Undying(e, s, n2)
    BY <1>11, <1>13, <2>1 DEF Undying, Clean, Readable, Owned
  <2> QED
    BY <1>15, <2>2, UnlinkFacts
<1> QED
  BY <1>17, <1>18 DEF g, e, c, n2, w, at

Entered(r, i, c) == [r EXCEPT !.f.arts[i] = c]

LEMMA StoreState ==
  ASSUME NEW f, NEW s, NEW n, NEW i, NEW c, NEW a, NEW v, NEW rewritten
  PROVE  \E more \in {0, 1} :
           StoreIn(Entered(State(f, s, n), i, c), i, a, v, rewritten)
             = State([PutArt(f, i, c) EXCEPT !.iart = i], s, StoreIno(n, f.files[f.w].at, a, v, more))
<1> DEFINE r == Entered(State(f, s, n), i, c)
           e == PutArt(f, i, c)
           at == f.files[f.w].at
           p == StoreIn(r, i, a, v, rewritten)
<1>1. r.f = e /\ r.fs = s /\ r.ino = n /\ r.ok = TRUE /\ r = [y \in {"f", "fs", "ino", "ok"} |-> r[y]]
  BY Zenon DEF State, PutArt, Entered
<1>2. r \in [f : {e}, fs : {s}, ino : {n}, ok : {TRUE}]
  BY <1>1
<1>3. e.files = f.files /\ e.w = f.w
  BY DEF PutArt
<1> HIDE DEF r, e
<1>4. r = State(e, s, n)
  BY <1>2, StateIn
<1>5. PICK more \in {0, 1} : p = [State(e, s, n) EXCEPT !.ino[at].art[a] = v, !.ino[at].slots = @ + more, !.f.iart = i]
  <2> DEFINE full == n[at].slots = Cardinality({x \in Names : n[at].art[x] # Nothing})
             more == IF rewritten \/ (full /\ n[at].art[a] = Nothing) THEN 1 ELSE 0
  <2>1. r.f.files[r.f.w].at = at /\ r.ino = n
    BY <1>1, <1>3
  <2>2. p = [r EXCEPT !.ino[at].art[a] = v, !.ino[at].slots = @ + more, !.f.iart = i]
    BY <2>1 DEF StoreIn
  <2>3. more \in {0, 1}
    OBVIOUS
  <2> HIDE DEF more, p
  <2> QED
    BY Zenon, <1>4, <2>2, <2>3
<1> DEFINE g == [e EXCEPT !.iart = i]
           n2 == StoreIno(n, at, a, v, more)
<1> HIDE DEF at, p
<1>6. p.f = g /\ p.fs = s /\ p.ino = n2 /\ p.ok = TRUE /\ p = [y \in {"f", "fs", "ino", "ok"} |-> p[y]]
  BY Zenon, <1>5 DEF State, StoreIno
<1> HIDE DEF g, n2
<1>7. p \in [f : {g}, fs : {s}, ino : {n2}, ok : {TRUE}]
  BY <1>6
<1>8. p = State(g, s, n2)
  BY <1>7, StateIn
<1> QED
  BY <1>8 DEF p, r, g, n2, at, e

LEMMA GrownIs ==
  ASSUME NEW f \in Units, NEW i \in 1 .. Len(f.arts) + 1
  PROVE  LET g == [f EXCEPT !.arts = Grown(f.arts, i)]
         IN  /\ g \in Units /\ g.m = f.m /\ g.files = f.files /\ g.w = f.w /\ g.open = f.open /\ g.unlink = f.unlink
             /\ g.modified = f.modified
             /\ i \in DOMAIN g.arts /\ Live(g) = Live(f) /\ \A j \in Live(f) : g.arts[j] = f.arts[j]
<1> DEFINE A == Grown(f.arts, i)
           g == [f EXCEPT !.arts = A]
           N == Len(f.arts)
           B == [j \in 1 .. N + 1 |-> BlankEntry]
<1>1. f.arts \in Seq(EntryRecs) /\ DOMAIN f.arts = 1 .. N /\ N \in Nat
  BY UnitIs
<1>2. BlankEntry \in EntryRecs /\ BlankEntry.name = Blank
  BY DEF BlankEntry, Entry, EntryRecs
<1>3. N + 1 \in Nat
  BY <1>1
<1>4. B \in Seq(EntryRecs) /\ Len(B) = N + 1
  <2>1. B \in [1 .. N + 1 -> EntryRecs]
    BY <1>2
  <2> QED
    BY <1>3, <2>1, SeqIs
<1>5. \A j \in 1 .. N + 1 : B[j].name = Blank
  BY <1>2
<1> HIDE DEF B, N
<1>6. A = IF i <= N THEN f.arts ELSE f.arts \o B
  BY DEF Grown, B, N
<1> HIDE DEF A
<1>7. A \in Seq(EntryRecs) /\ i \in DOMAIN A /\ (\A j \in DOMAIN f.arts : j \in DOMAIN A /\ A[j] = f.arts[j])
      /\ \A j \in DOMAIN A : j \notin DOMAIN f.arts => A[j].name = Blank
  <2>0. i \in 1 .. N + 1
    BY DEF N
  <2>1. CASE i <= N
    BY <1>1, <1>6, <2>0, <2>1
  <2>2. CASE ~(i <= N)
    <3>1. A = f.arts \o B
      BY <1>6, <2>2
    <3>2. A \in Seq(EntryRecs) /\ Len(A) = N + (N + 1)
          /\ \A j \in 1 .. Len(A) : A[j] = IF j <= N THEN f.arts[j] ELSE B[j - N]
      <4>1. Len(f.arts) = N
        BY DEF N
      <4> DEFINE q == f.arts
      <4>2. q \in Seq(EntryRecs) /\ Len(q) = N
        BY <1>1, <4>1
      <4> HIDE DEF q
      <4>3. /\ q \o B \in Seq(EntryRecs) /\ Len(q \o B) = Len(q) + Len(B)
            /\ \A j \in 1 .. Len(q) + Len(B) : (q \o B)[j] = IF j <= Len(q) THEN q[j] ELSE B[j - Len(q)]
        BY Zenon, <1>4, <4>2, ConcatProperties
      <4>4. A = q \o B
        BY <3>1 DEF q
      <4>5. A \in Seq(EntryRecs) /\ Len(A) = N + (N + 1) /\ \A j \in 1 .. Len(A) : A[j] = IF j <= N THEN q[j] ELSE B[j - N]
        BY <1>4, <4>2, <4>3, <4>4
      <4> QED
        BY <4>5 DEF q
    <3>3. DOMAIN A = 1 .. Len(A)
      BY <3>2
    <3>4. \A j \in DOMAIN A : ~(j <= N) => j - N \in 1 .. N + 1
      BY <1>1, <3>2, <3>3
    <3>5. \A j \in DOMAIN f.arts : j \in DOMAIN A /\ A[j] = f.arts[j]
      BY <1>1, <3>2, <3>3
    <3>6. \A j \in DOMAIN A : j \notin DOMAIN f.arts => A[j].name = Blank
      BY <1>1, <1>5, <3>2, <3>3, <3>4
    <3>7. i \in DOMAIN A
      BY <1>1, <2>0, <2>2, <3>2, <3>3
    <3> QED
      BY <3>2, <3>5, <3>6, <3>7
  <2> QED
    BY <2>1, <2>2
<1>8. /\ g \in Units /\ g.m = f.m /\ g.files = f.files /\ g.w = f.w /\ g.open = f.open /\ g.unlink = f.unlink
      /\ g.modified = f.modified /\ g.arts = A
  BY <1>7 DEF Units
<1> HIDE DEF g
<1>9. Live(g) = Live(f) /\ \A j \in Live(f) : A[j] = f.arts[j]
  BY <1>7, <1>8 DEF Live
<1> QED
  BY <1>7, <1>8, <1>9 DEF g, A

LEMMA SlotIs ==
  ASSUME NEW f \in Units, NEW n \in Names, \A j, l \in Live(f) : f.arts[j].name = f.arts[l].name => j = l
  PROVE  /\ Slot(f, n) \in 1 .. Len(f.arts) + 1
         /\ \A j \in Live(f) : j # Slot(f, n) => f.arts[j].name # n
<1> DEFINE blanks == {i \in DOMAIN f.arts : f.arts[i].name = Blank}
           N == Len(f.arts)
<1>1. DOMAIN f.arts = 1 .. N /\ N \in Nat /\ Live(f) \subseteq DOMAIN f.arts
  BY UnitIs DEF Live
<1>2. 0 \notin Live(f)
  BY <1>1
<1>3. CASE Lookup(f, n) > 0
  <2>1. Slot(f, n) = Lookup(f, n)
    BY <1>3 DEF Slot
  <2>2. Lookup(f, n) \in Live(f) /\ f.arts[Lookup(f, n)].name = n
    BY <1>3, LookupIs
  <2> QED
    BY <1>1, <2>1, <2>2
<1>4. CASE ~(Lookup(f, n) > 0)
  <2>1. Lookup(f, n) = 0
    BY <1>1, <1>4, LookupIs
  <2>2. \A j \in Live(f) : f.arts[j].name # n
    BY <1>2, <2>1, LookupIs
  <2>3. Slot(f, n) = IF blanks = {} THEN N + 1 ELSE CHOOSE i \in blanks : \A j \in blanks : i <= j
    BY <1>4 DEF Slot
  <2>4. blanks # {} => \E i \in blanks : \A j \in blanks : i <= j
    <3>1. blanks \in SUBSET Nat
      BY <1>1
    <3> QED
      BY Zenon, <3>1, LeastNumber
  <2>5. blanks \subseteq 1 .. N
    BY <1>1
  <2> HIDE DEF blanks, N
  <2>6. Slot(f, n) \in 1 .. N + 1
    <3>1. CASE blanks = {}
      BY <1>1, <2>3, <3>1
    <3>2. CASE blanks # {}
      <4>1. Slot(f, n) \in blanks
        BY <2>3, <2>4, <3>2
      <4>2. Slot(f, n) \in 1 .. N /\ N \in Nat
        BY Zenon, <1>1, <2>5, <4>1
      <4> QED
        BY <4>2
    <3> QED
      BY <3>1, <3>2
  <2> QED
    BY <2>2, <2>6 DEF N
<1> QED
  BY <1>3, <1>4

LEMMA EntersIs ==
  ASSUME OrdinaryUse, NEW f, NEW s, NEW n, Writing(f, s, n), NEW i, NEW a
  PROVE  GoesOn(Enters(State(f, s, n), i, a), f, s, n)
<1> DEFINE r  == State(f, s, n)
           r1 == GetW(r, FALSE)
           c1 == Stored(r1, r1.f.w, a) # Nothing /\ ~SameArticle(r.f.arts[i], a)
           r2 == IF c1 THEN GetW(r1, TRUE) ELSE r1
           c2 == r2.ino[r2.f.files[r2.f.w].at].slots > MaxArtAls
           r3 == IF c2 THEN GetW(r2, TRUE) ELSE r2
<1>1. Enters(r, i, a) = r3
  BY DEF Enters
<1>2. GoesOn(r1, f, s, n)
  BY GetWIs
<1> HIDE DEF r1, c1, c2
<1>3. ASSUME NEW q, GoesOn(q, f, s, n) PROVE GoesOn(GetW(q, TRUE), f, s, n)
  <2>1. PICK g, s2, n2 : /\ q = State(g, s2, n2) /\ Writing(g, s2, n2) /\ g.w > 0 /\ g.arts = f.arts
                         /\ Undying(f, s, n) => Undying(g, s2, n2)
    BY <1>3 DEF GoesOn
  <2>2. GoesOn(GetW(State(g, s2, n2), TRUE), g, s2, n2)
    BY <2>1, GetWIs
  <2>3. GoesOn(GetW(State(g, s2, n2), TRUE), f, s, n)
    BY <2>1, <2>2 DEF GoesOn
  <2> QED
    BY <2>1, <2>3
<1>4. GoesOn(r2, f, s, n)
  BY <1>2, <1>3
<1> HIDE DEF r2
<1>5. GoesOn(r3, f, s, n)
  BY <1>3, <1>4
<1> HIDE DEF r3
<1> QED
  BY <1>1, <1>5

LEMMA WriteKeeps ==
  ASSUME OrdinaryUse, MultiInv, NEW n \in Names, NEW len \in Lens, LFIECR(n, len), UNCHANGED inst
  PROVE  MultiInv'
<1>1. fh.open /\ Counts("writes", MaxWrites)
  BY DEF LFIECR
<1>2. PICK rewritten \in BOOLEAN : Becomes(<<>>, Write(n, len, count.writes + 1, rewritten))
  BY DEF LFIECR
<1>3. /\ OpenOK(fh, fs, ino) /\ Disk(fs, ino) /\ fh \in Units /\ Here = State(fh, fs, ino) /\ inst \in Instances
      /\ count.crashes = 0 => Undying(fh, fs, ino) /\ Filed(fh, fs, ino)
  BY <1>1, UnitNow
<1>4. count' \in [Bounded -> Nat] /\ count'.crashes = count.crashes
  BY <1>1, CountUp DEF Bounded
<1> DEFINE v == <<len, count.writes + 1>>
           i == Slot(fh, n)
           f == [fh EXCEPT !.arts = Grown(fh.arts, i)]
<1>5. len \in Nat \ {0} /\ v \in Values
  <2>1. len \in Nat \ {0}
    BY DEF OrdinaryUse
  <2>2. count.writes \in Nat
    BY DEF MultiInv, MultiTypes, Bounded
  <2> QED
    BY <2>1, <2>2 DEF Values
<1>6. i \in 1 .. Len(fh.arts) + 1 /\ \A j \in Live(fh) : j # i => fh.arts[j].name # n
  <2>1. \A j, l \in Live(fh) : fh.arts[j].name = fh.arts[l].name => j = l
    BY Zenon, <1>3 DEF OpenOK, Session
  <2> QED
    BY <1>3, <2>1, SlotIs
<1> HIDE DEF i, v
<1>7. /\ f \in Units /\ f.m = fh.m /\ f.files = fh.files /\ f.w = fh.w /\ f.open = fh.open /\ f.unlink = fh.unlink
      /\ f.modified = fh.modified
      /\ i \in DOMAIN f.arts /\ Live(f) = Live(fh) /\ \A j \in Live(fh) : f.arts[j] = fh.arts[j]
  BY <1>3, <1>6, GrownIs
<1>8. [Here EXCEPT !.f.arts = Grown(@, i)] = State(f, fs, ino)
  <2> DEFINE q == [Here EXCEPT !.f.arts = Grown(@, i)]
  <2>1. q.f = f /\ q.fs = fs /\ q.ino = ino /\ q.ok = TRUE /\ q = [y \in {"f", "fs", "ino", "ok"} |-> q[y]]
    BY Zenon, <1>3 DEF State
  <2> HIDE DEF q, f
  <2>2. q \in [f : {f}, fs : {fs}, ino : {ino}, ok : {TRUE}]
    BY <2>1
  <2>3. q = State(f, fs, ino)
    BY <2>2, StateIn
  <2> QED
    BY <2>3 DEF q
<1> HIDE DEF f
<1>9. Session(f, fs, ino) /\ (Undying(fh, fs, ino) => Undying(f, fs, ino))
  <2>1. \A j, l \in Live(fh) : fh.arts[j].name = fh.arts[l].name => j = l
    BY <1>3 DEF OpenOK, Session
  <2>2. Fewer(f, fh)
    BY <1>7, <2>1 DEF Fewer
  <2>3. Session(fh, fs, ino)
    BY <1>3 DEF OpenOK
  <2> QED
    BY <2>2, <2>3, FewerArts
<1>10. Writing(f, fs, ino)
  BY <1>3, <1>7, <1>9 DEF OpenOK, Writing
<1>11. PICK g, s2, n2 : /\ Enters(State(f, fs, ino), i, n) = State(g, s2, n2)
                        /\ Writing(g, s2, n2) /\ g.w > 0 /\ g.arts = f.arts
                        /\ Undying(f, fs, ino) => Undying(g, s2, n2)
  BY <1>10, EntersIs DEF GoesOn
<1> DEFINE c == Entry(n, n, g.w)
           q == StoreIn(Entered(State(g, s2, n2), i, c), i, n, v, rewritten)
<1>12. Write(n, len, count.writes + 1, rewritten).r = Modified(q)
  <2>1. ~(len < 0)
    BY <1>5
  <2>2. State(g, s2, n2).f.w = g.w
    BY DEF State
  <2>3. Enters([Here EXCEPT !.f.arts = Grown(@, i)], i, n) = State(g, s2, n2)
    BY <1>8, <1>11
  <2>4. Write(n, len, count.writes + 1, rewritten) = Result(Modified(q), 0, 0)
    BY <2>1, <2>2, <2>3 DEF Write, Entered, i, v
  <2> HIDE DEF q
  <2> QED
    BY <2>4, ResultIs
<1>13. PICK more \in {0, 1} : q = State([PutArt(g, i, c) EXCEPT !.iart = i], s2, StoreIno(n2, g.files[g.w].at, n, v, more))
  BY StoreState
<1> DEFINE e == [PutArt(g, i, c) EXCEPT !.iart = i]
           n3 == StoreIno(n2, g.files[g.w].at, n, v, more)
<1>14. Ready(e, s2, n3) /\ (Undying(g, s2, n2) => Undying(e, s2, n3))
  <2>1. i \in DOMAIN g.arts
    BY <1>7, <1>11
  <2>2. \A j \in Live(g) : j # i => g.arts[j].name # n
    <3>1. Live(g) = Live(f)
      BY <1>11 DEF Live
    <3> QED
      BY <1>6, <1>7, <1>11, <3>1
  <2> QED
    BY <1>5, <1>11, <2>1, <2>2, StoreIs
<1> HIDE DEF e, n3, q
<1>15. PICK h, s4, n4 : /\ Modified(State(e, s2, n3)) = State(h, s4, n4) /\ Disk(s4, n4) /\ OpenOK(h, s4, n4) /\ h.modified
                        /\ Undying(e, s2, n3) => Undying(h, s4, n4)
  BY <1>3, <1>14, ModifiedIs
<1>16. Modified(q) = State(h, s4, n4)
  BY <1>13, <1>15 DEF e, n3
<1>17. Kept(State(h, s4, n4))
  BY <1>3, <1>9, <1>11, <1>14, <1>15, KeptModified
<1>18. Kept(Write(n, len, count.writes + 1, rewritten).r)
  BY <1>12, <1>16, <1>17
<1> QED
  BY <1>2, <1>4, <1>18, BecomesKeeps

-----------------------------------------------------------------------------
(* LFIFER. *)

\* An inode that is flagged as closed: only a native file has the flag.
Mark(x) == [x EXCEPT !.clean = TRUE]
LEMMA MarkIs ==
  ASSUME NEW x \in Inodes
  PROVE  /\ Mark(x) \in Inodes /\ Mark(x).kind = x.kind
         /\ x.kind # "PURE" => Mark(x) = x
         /\ x.kind = "PURE" => Mark(x).art = x.art /\ Mark(x).clean
<1>1. CASE x \in SubInodes
  <2>1. Mark(x) \in SubInodes /\ Mark(x).kind = x.kind /\ Mark(x).art = x.art /\ Mark(x).clean /\ x.kind = "PURE"
    BY Zenon, <1>1 DEF Mark, SubInodes
  <2> QED
    BY <2>1 DEF Inodes
<1>2. CASE x \in MainInodes
  <2>1. Mark(x) = x /\ x.kind = "ALTM"
    BY <1>2 DEF Mark, MainInodes
  <2> QED
    BY <2>1
<1>3. CASE x = Torn
  <2>1. Mark(x) = x /\ x.kind = "UNKN"
    BY <1>3 DEF Mark, Torn
  <2> QED
    BY <2>1
<1> QED
  BY <1>1, <1>2, <1>3 DEF Inodes

CloseIno(n, S) == [k \in DOMAIN n |-> IF k \in S THEN [n[k] EXCEPT !.clean = TRUE] ELSE n[k]]
LEMMA CloseGrows ==
  ASSUME NEW s, NEW n, Disk(s, n), NEW S
  PROVE  LET n2 == CloseIno(n, S)
         IN  /\ Grows(s, n, s, n2) /\ DOMAIN n2 = DOMAIN n
             /\ \A k \in DOMAIN n : /\ n2[k].kind = n[k].kind
                                    /\ n[k].kind = "PURE" /\ ~n2[k].clean => k \notin S /\ ~n[k].clean
<1> DEFINE n2 == CloseIno(n, S)
<1>1. Typed(s, n) /\ n \in Seq(Inodes) /\ Len(n) \in Nat /\ DOMAIN n = 1 .. Len(n)
      /\ (\A k \in DOMAIN n : n[k] \in Inodes) /\ \A p \in DOMAIN s : s[p] \in DOMAIN n
  <2>1. Typed(s, n)
    BY DEF Disk
  <2> QED
    BY <2>1, TypedIs DEF Typed
<1>2. DOMAIN n2 = DOMAIN n /\ \A k \in DOMAIN n : n2[k] = IF k \in S THEN Mark(n[k]) ELSE n[k]
  BY DEF CloseIno, Mark
<1>3. n2 = [k \in 1 .. Len(n) |-> n2[k]]
  BY <1>1 DEF CloseIno
<1> HIDE DEF n2
<1>4. \A k \in DOMAIN n : /\ n2[k] \in Inodes /\ n2[k].kind = n[k].kind
                          /\ n[k].kind # "PURE" => n2[k] = n[k]
                          /\ n[k].kind = "PURE" => n2[k].art = n[k].art /\ (n2[k].clean \/ n2[k] = n[k])
                          /\ n[k].kind = "PURE" /\ k \in S => n2[k].clean
  BY <1>1, <1>2, MarkIs
<1>5. n2 \in Seq(Inodes) /\ Len(n2) = Len(n)
  <2>1. n2 \in [1 .. Len(n) -> Inodes]
    BY <1>1, <1>3, <1>4
  <2> QED
    BY <1>1, <2>1, SeqIs
<1>6. Typed(s, n2)
  BY <1>1, <1>5 DEF Typed
<1>7. Grows(s, n, s, n2)
  BY <1>1, <1>4, <1>6 DEF Grows
<1> QED
  BY <1>2, <1>4, <1>7 DEF n2

\* What LFIFER leaves once the header tells the truth.
Mine(f) == {f.files[k].at : k \in {j \in DOMAIN f.files : f.files[j].at > 0}}
LEMMA CloseUndying ==
  ASSUME NEW f, NEW s, NEW n, Disk(s, n), Clean(f, n), "merge" \notin Tools => Owned(Closed, s, n)
  PROVE  Undying(Closed, s, CloseIno(n, Mine(f)))
<1> DEFINE n2 == CloseIno(n, Mine(f))
<1>1. /\ Grows(s, n, s, n2) /\ DOMAIN n2 = DOMAIN n
      /\ \A k \in DOMAIN n : /\ n2[k].kind = n[k].kind
                             /\ n[k].kind = "PURE" /\ ~n2[k].clean => k \notin Mine(f) /\ ~n[k].clean
  BY CloseGrows
<1>2. /\ \A m \in Mains : HasMain(s, n2, m) <=> HasMain(s, n, m)
      /\ \A m \in Mains : HasMain(s, n2, m) => n2[s[Main(m)]] = n[s[Main(m)]]
  BY <1>1, DiskGrows
<1>3. \A k \in DOMAIN n : k > 0
  <2>1. Typed(s, n)
    BY DEF Disk
  <2> QED
    BY <2>1, TypedIs
<1> HIDE DEF n2
<1>4. Clean(Closed, n2)
  <2>1. \A k \in DOMAIN n2 : n2[k].kind # "UNKN"
    BY <1>1 DEF Clean
  <2>2. \A k \in DOMAIN n2 : n2[k].kind = "PURE" => n2[k].clean
    <3> SUFFICES ASSUME NEW k \in DOMAIN n2, n2[k].kind = "PURE", ~n2[k].clean PROVE FALSE
      OBVIOUS
    <3>1. n[k].kind = "PURE" /\ k \notin Mine(f) /\ ~n[k].clean /\ k \in DOMAIN n
      BY <1>1
    <3>2. PICK j \in DOMAIN f.files : f.files[j].at = k
      BY <3>1 DEF Clean
    <3> QED
      BY <1>3, <3>1, <3>2 DEF Mine
  <2> QED
    BY <2>1, <2>2 DEF Clean
<1>5. ASSUME "merge" \notin Tools PROVE Owned(Closed, s, n2)
  <2>1. \A p \in DOMAIN s : p[1] \in Mains
    <3>1. Typed(s, n)
      BY DEF Disk
    <3> QED
      BY <3>1, TypedIs
  <2>2. \A p \in DOMAIN s : p[2] > 0 => HasMain(s, n, p[1]) /\ \E x \in Range(n[s[Main(p[1])]].files) : x.path = p
    BY <1>5, ClosedIs DEF Owned
  <2>3. \A p \in DOMAIN s : p[2] > 0 => HasMain(s, n2, p[1]) /\ \E x \in Range(n2[s[Main(p[1])]].files) : x.path = p
    BY <1>2, <2>1, <2>2
  <2> QED
    BY <2>3, ClosedIs DEF Owned
<1> QED
  BY <1>4, <1>5, ClosedIs DEF Undying, n2

LEMMA SavedIs ==
  ASSUME OrdinaryUse, inst \in Instances, NEW f, NEW s, NEW n, Disk(s, n), OpenOK(f, s, n)
  PROVE  \E g, s2, n2 :
           /\ Saved(State(f, s, n)) = State(g, s2, n2) /\ Disk(s2, n2)
           /\ Undying(f, s, n) /\ Filed(f, s, n) => Clean(g, n2) /\ ("merge" \notin Tools => Owned(Closed, s2, n2))
<1>1. Session(f, s, n) /\ HasMain(s, n, f.m) /\ f.unlink /\ f.open
  BY OpenIn DEF OpenOK
<1>2. CASE f.modified
  <2> DEFINE g == HdrFile(f)
             s2 == HdrFs(f, s, n)
             n2 == HdrIno(f, s, n)
  <2>1. HdrHyp(f, s, n) /\ WriteHdr(State(f, s, n)) = State(g, s2, n2)
    BY <1>1, SessionHdr
  <2>2. Saved(State(f, s, n)) = State(g, s2, n2)
    BY <1>2, <2>1 DEF Saved, State
  <2>3. Disk(s2, n2)
    <3>2. Solid(f.m)
      BY SolidOpened DEF OpenOK
    <3>3. \A i, j \in Live(f) : f.arts[i].name = f.arts[j].name => i = j
      BY Zenon, <1>1 DEF Session
    <3>4. \A k \in DOMAIN f.files : f.files[k].form = "any"
      BY Zenon, <1>1 DEF Session
    <3> QED
      BY <1>1, <2>1, <3>2, <3>3, <3>4, HdrDisk
  <2>4. Undying(f, s, n) => Undying(g, s2, n2) /\ ("merge" \notin Tools => Owned(Closed, s2, n2))
    BY <1>1, HdrUndying
  <2>5. Undying(f, s, n) => Clean(g, n2) /\ ("merge" \notin Tools => Owned(Closed, s2, n2))
    BY <2>4 DEF Undying
  <2> HIDE DEF g, s2, n2
  <2> QED
    BY <2>2, <2>3, <2>5
<1>3. CASE ~f.modified
  <2>1. Saved(State(f, s, n)) = State(f, s, n)
    BY <1>3 DEF Saved, State
  <2>2. Undying(f, s, n) /\ Filed(f, s, n) => Clean(f, n) /\ ("merge" \notin Tools => Owned(Closed, s, n))
    BY <1>1, <1>3 DEF Undying, Filed
  <2> QED
    BY <2>1, <2>2
<1> QED
  BY <1>2, <1>3

LEMMA CloseKeeps ==
  ASSUME OrdinaryUse, MultiInv, LFIFER, UNCHANGED inst
  PROVE  MultiInv'
<1>1. fh.open /\ UNCHANGED count /\ Becomes(<<>>, Close)
  BY DEF LFIFER
<1>2. /\ OpenOK(fh, fs, ino) /\ Disk(fs, ino) /\ Here = State(fh, fs, ino) /\ inst \in Instances
      /\ count.crashes = 0 => Undying(fh, fs, ino) /\ Filed(fh, fs, ino)
  BY <1>1, UnitNow
<1>3. PICK g, s2, n2 :
        /\ Saved(Here) = State(g, s2, n2) /\ Disk(s2, n2)
        /\ Undying(fh, fs, ino) /\ Filed(fh, fs, ino) => Clean(g, n2) /\ ("merge" \notin Tools => Owned(Closed, s2, n2))
  BY <1>2, SavedIs
<1> DEFINE r == Saved(Here)
           n3 == CloseIno(n2, Mine(g))
           q == [r EXCEPT !.f = Closed, !.ino = n3]
<1>4. r.ok /\ r.f = g /\ r.ino = n2 /\ r.fs = s2
  BY <1>3 DEF State
<1>5. Close.r = q
  <2>1. Close = Result([r EXCEPT !.f = Closed, !.ino = CloseIno(r.ino, Mine(r.f))], 0, 0)
    BY <1>4 DEF Close, CloseIno, Mine
  <2> HIDE DEF r
  <2> QED
    BY <1>4, <2>1, ResultIs
<1>6. q = State(Closed, s2, n3)
  <2> HIDE DEF r, n3
  <2>1. r = State(g, s2, n2)
    BY <1>3 DEF r
  <2>2. q.f = Closed /\ q.fs = s2 /\ q.ino = n3 /\ q.ok = TRUE /\ q = [x \in {"f", "fs", "ino", "ok"} |-> q[x]]
    BY Zenon, <2>1 DEF State
  <2>3. q \in [f : {Closed}, fs : {s2}, ino : {n3}, ok : {TRUE}]
    BY <2>2
  <2> HIDE DEF q
  <2> QED
    BY <2>3, StateIn
<1> HIDE DEF r, q
<1>7. Disk(s2, n3)
  BY <1>3, CloseGrows, DiskGrows
<1>8. count.crashes = 0 => Undying(Closed, s2, n3)
  BY <1>2, <1>3, CloseUndying
<1> HIDE DEF n3
<1>9. Kept(Close.r)
  <2>1. Filed(Closed, s2, n3)
    BY ClosedIs DEF Filed
  <2>2. q.f = Closed /\ q.fs = s2 /\ q.ino = n3 /\ q.ok
    BY <1>6 DEF State
  <2> QED
    BY <1>5, <1>7, <1>8, <2>1, <2>2 DEF Kept
<1> QED
  BY <1>1, <1>9, CountSame, BecomesKeeps

-----------------------------------------------------------------------------
(* LFIOUV. *)

LEMMA SetToSeqIs ==
  ASSUME NEW S, IsFiniteSet(S)
  PROVE  LET q == SetToSeq(S)
         IN  /\ q \in [1 .. Cardinality(S) -> S] /\ Cardinality(S) \in Nat
             /\ \A i, j \in 1 .. Cardinality(S) : q[i] = q[j] => i = j
             /\ \A x \in S : \E i \in 1 .. Cardinality(S) : q[i] = x
<1> DEFINE D == 1 .. Cardinality(S)
<1>1. Cardinality(S) \in Nat /\ ExistsBijection(D, S)
  BY FS_CardinalityType
<1>2. PICK f \in [D -> S] : IsInjective(f)
  BY <1>1 DEF ExistsBijection, Bijection, Injection
<1>3. SetToSeq(S) \in [D -> S] /\ IsInjective(SetToSeq(S))
  BY <1>2 DEF SetToSeq
<1> DEFINE q == SetToSeq(S)
<1>4. q \in Injection(D, S)
  BY <1>3 DEF Injection
<1>5. IsFiniteSet(D) /\ Cardinality(D) = Cardinality(S)
  BY <1>1, FS_Interval
<1>6. q \in Surjection(D, S)
  BY Zenon, <1>4, <1>5, FS_Surjection, FS_Injection DEF Surjection
<1> QED
  BY Zenon, <1>1, <1>3, <1>6 DEF IsInjective, Surjection

\* The disk when files are gone that the index of no other main file needs.
LEMMA DropDisk ==
  ASSUME NEW s, NEW n, Disk(s, n), NEW P,
         \A m \in Mains : Main(m) \in DOMAIN s \ P /\ Solid(m) => \A p \in P : p[1] = m => p[2] = 0
  PROVE  Disk(Drop(s, P), n)
<1> DEFINE s2 == Drop(s, P)
<1>1. /\ DOMAIN s2 = DOMAIN s \ P /\ (\A q \in DOMAIN s2 : s2[q] = s[q])
      /\ IsFiniteSet(DOMAIN s) => IsFiniteSet(DOMAIN s2)
  <2>1. DOMAIN s2 = DOMAIN s \ P /\ \A q \in DOMAIN s \ P : s2[q] = s[q]
    BY Zenon, DropIs
  <2>2. IsFiniteSet(DOMAIN s) => IsFiniteSet(DOMAIN s2)
    BY Zenon, DropIs
  <2> QED
    BY <2>1, <2>2
<1>2. Typed(s, n)
  BY DEF Disk
<1>3. s2 = [q \in DOMAIN s2 |-> s2[q]]
  BY DEF Drop, Restrict
<1> HIDE DEF s2
<1>4. Typed(s2, n)
  <2>1. s2 \in [DOMAIN s2 -> 1 .. Len(n)]
    BY <1>1, <1>2, <1>3 DEF Typed
  <2> QED
    BY <1>1, <1>2, <2>1 DEF Typed
<1>5. \A p \in DOMAIN s2 : p[2] > 0 => n[s2[p]].kind = "PURE"
  BY <1>1 DEF Disk
<1>6. \A p, q \in DOMAIN s2 : s2[p] = s2[q] /\ p # q => n[s2[p]].kind = "PURE"
  BY <1>1 DEF Disk
<1>7. ASSUME NEW m \in Mains, HasMain(s2, n, m) PROVE IndexOK(s2, n, m, n[s2[Main(m)]])
  <2>1. Main(m) \in DOMAIN s \ P /\ s2[Main(m)] = s[Main(m)] /\ HasMain(s, n, m)
    BY <1>1, <1>7 DEF HasMain
  <2>2. IndexOK(s, n, m, n[s[Main(m)]])
    BY <2>1 DEF Disk
  <2>3. Solid(m) => \A p \in DOMAIN s : p[1] = m /\ p[2] > 0 =>
           p \in DOMAIN s2 /\ \A a \in Names : n[s[p]].art[a] # Nothing => n[s2[p]].art[a] # Nothing
    <3> SUFFICES ASSUME Solid(m), NEW p \in DOMAIN s, p[1] = m, p[2] > 0
                 PROVE  p \in DOMAIN s2 /\ s2[p] = s[p]
      OBVIOUS
    <3>1. p \notin P
      BY <2>1
    <3> QED
      BY <1>1, <3>1
  <2>4. IndexOK(s2, n, m, n[s[Main(m)]])
    BY <2>2, <2>3, IndexStays
  <2> QED
    BY <2>1, <2>4
<1> QED
  BY <1>4, <1>5, <1>6, <1>7 DEF Disk, s2

\* A file under a new path is a native file or a link to one.
LEMMA PutGrows ==
  ASSUME NEW s, NEW n, Disk(s, n), NEW p \in Mains \X Nat, p \notin DOMAIN s, NEW k \in DOMAIN n, n[k].kind = "PURE"
  PROVE  Grows(s, n, Put(s, p, k), n)
<1> DEFINE s2 == Put(s, p, k)
<1>1. DOMAIN s2 = DOMAIN s \cup {p} /\ s2[p] = k /\ \A q \in DOMAIN s : s2[q] = s[q]
  <2>1. \A q \in DOMAIN s : q # p
    OBVIOUS
  <2>2. DOMAIN s2 = DOMAIN s \cup {p} /\ s2[p] = k
    BY DEF Put
  <2>3. \A q \in DOMAIN s : q # p => s2[q] = s[q]
    BY DEF Put
  <2> HIDE DEF s2
  <2> QED
    BY <2>1, <2>2, <2>3
<1>2. Typed(s, n) /\ IsFiniteSet(DOMAIN s) /\ DOMAIN n = 1 .. Len(n) /\ \A q \in DOMAIN s : s[q] \in DOMAIN n
  <2>1. Typed(s, n)
    BY DEF Disk
  <2> QED
    BY <2>1, TypedIs
<1>3. s2 = [q \in DOMAIN s2 |-> s2[q]]
  BY DEF Put
<1>4. IsFiniteSet(DOMAIN s2)
  BY Zenon, <1>2, PutIs
<1> HIDE DEF s2
<1>5. Typed(s2, n)
  <2>1. s2 \in [DOMAIN s2 -> 1 .. Len(n)]
    BY <1>1, <1>2, <1>3
  <2> QED
    BY <1>1, <1>2, <1>4, <2>1 DEF Typed
<1> QED
  BY <1>1, <1>5 DEF Grows, s2

LEMMA NewIs ==
  ASSUME NEW m \in Mains, NEW files \in Seq(FileRecs), NEW arts \in Seq(EntryRecs)
  PROVE  LET f == New(m, files, arts)
         IN  /\ f \in Units /\ f.open /\ f.m = m /\ f.files = files /\ f.arts = arts /\ f.w = 0
             /\ ~f.modified /\ f.unlink
BY DEF New, Units

LEMMA ListedIs ==
  ASSUME NEW x \in SubInodes, NEW k \in Nat
  PROVE  LET l == Listed(x, k)
         IN  /\ l \in Seq(EntryRecs)
             /\ \A i \in DOMAIN l : /\ l[i].name \in Names /\ l[i].namf = l[i].name /\ l[i].ifh = k
                                    /\ x.art[l[i].name] # Nothing
             /\ \A i, j \in DOMAIN l : l[i].name = l[j].name => i = j
<1> DEFINE S == {n \in Names : x.art[n] # Nothing}
           q == SetToSeq(S)
           c == Cardinality(S)
           l == Listed(x, k)
<1>1. IsFiniteSet(S)
  BY NamesAssumption, FS_Subset DEF NamesAssumption
<1>2. q \in [1 .. c -> S] /\ c \in Nat /\ \A i, j \in 1 .. c : q[i] = q[j] => i = j
  BY Zenon, <1>1, SetToSeqIs
<1>3. \A n \in S : n \in Names /\ x.art[n] # Nothing
  OBVIOUS
<1>4. l = [i \in DOMAIN q |-> Entry(q[i], q[i], k)]
  BY DEF Listed
<1> HIDE DEF S, q, c, l
<1>5. DOMAIN q = 1 .. c /\ \A i \in 1 .. c : q[i] \in S
  BY <1>2
<1>6. \A i \in 1 .. c : /\ l[i] = Entry(q[i], q[i], k)
                        /\ l[i].name = q[i] /\ l[i].namf = q[i] /\ l[i].ifh = k
  BY <1>4, <1>5 DEF Entry
<1>7. \A i \in 1 .. c : l[i] \in EntryRecs
  <2> TAKE i \in 1 .. c
  <2>1. q[i] \in Names
    BY <1>3, <1>5
  <2>2. Entry(q[i], q[i], k) \in EntryRecs
    BY <2>1 DEF EntryRecs, Entry
  <2> QED
    BY <1>6, <2>2
<1>8. l \in [1 .. c -> EntryRecs]
  BY <1>4, <1>5, <1>7
<1>9. l \in Seq(EntryRecs) /\ DOMAIN l = 1 .. c
  BY <1>2, <1>8, SeqIs
<1> QED
  BY <1>2, <1>3, <1>5, <1>6, <1>9 DEF l

\* No unit is open.
LEMMA ClosedNow ==
  ASSUME MultiInv, ~fh.open
  PROVE  /\ fh = Closed /\ Disk(fs, ino) /\ inst \in Instances /\ Here = State(Closed, fs, ino)
         /\ count.crashes = 0 => Undying(Closed, fs, ino)
<1>1. ASSUME OpenOK(fh, fs, ino) PROVE FALSE
  <2>1. fh.open
    BY <1>1, OpenIn
  <2> QED
    BY <2>1
<1>2. fh = Closed
  BY <1>1 DEF MultiInv
<1> QED
  BY <1>2 DEF MultiInv, MultiTypes, Here

LEMMA GrokIs ==
  ASSUME Disk(fs, ino), NEW m \in Mains
  PROVE  LET x == ino[fs[Main(m)]]
         IN  /\ Grok(m) = "NONE" <=> Main(m) \notin DOMAIN fs
             /\ Grok(m) = "ALTM" <=> HasMain(fs, ino, m)
             /\ Grok(m) = "ALTM" => x \in MainInodes /\ IndexOK(fs, ino, m, x)
             /\ Grok(m) = "PURE" => x \in SubInodes
             /\ Grok(m) # "NONE" => Main(m) \in DOMAIN fs /\ fs[Main(m)] \in DOMAIN ino /\ x.kind = Grok(m)
             /\ Grok(m) \in {"NONE", "PURE", "ALTM", "UNKN"}
<1> DEFINE x == ino[fs[Main(m)]]
<1>1. Main(m) \in DOMAIN fs => fs[Main(m)] \in DOMAIN ino /\ x \in Inodes
  <2>1. Typed(fs, ino)
    BY DEF Disk
  <2> QED
    BY <2>1, TypedIs
<1>2. HasMain(fs, ino, m) => IndexOK(fs, ino, m, x)
  BY DEF Disk
<1>3. CASE Main(m) \notin DOMAIN fs
  BY <1>3 DEF Grok, HasMain
<1>4. CASE Main(m) \in DOMAIN fs
  <2>1. Grok(m) = x.kind
    BY <1>4 DEF Grok
  <2>2. /\ x.kind \in {"PURE", "ALTM", "UNKN"}
        /\ x.kind = "PURE" <=> x \in SubInodes
        /\ x.kind = "ALTM" <=> x \in MainInodes
    BY <1>1, <1>4, KindIs
  <2>3. HasMain(fs, ino, m) <=> x.kind = "ALTM"
    BY <1>4 DEF HasMain
  <2> HIDE DEF x
  <2> QED
    BY <1>1, <1>2, <1>4, <2>1, <2>2, <2>3 DEF x
<1> QED
  BY <1>3, <1>4

\* A new main file.
LEMMA OpenNew ==
  ASSUME OrdinaryUse, MultiInv, ~fh.open, NEW m \in Opened, Grok(m) = "NONE"
  PROVE  Kept(Modified(State(New(m, <<>>, <<>>), fs, ino)))
<1> DEFINE f == New(m, <<>>, <<>>)
<1>1. /\ Disk(fs, ino) /\ inst \in Instances
      /\ count.crashes = 0 => Undying(Closed, fs, ino)
  BY ClosedNow
<1>2. m \in Mains
  BY <1>1, InstancesAssumption DEF Opened
<1>3. Main(m) \notin DOMAIN fs
  BY <1>1, <1>2, GrokIs
<1>4. /\ f \in Units /\ f.open /\ f.m = m /\ f.files = <<>> /\ f.arts = <<>> /\ f.w = 0
      /\ ~f.modified /\ f.unlink
  <2>1. <<>> \in Seq(FileRecs) /\ <<>> \in Seq(EntryRecs)
    OBVIOUS
  <2> QED
    BY Zenon, <1>2, <2>1, NewIs
<1> HIDE DEF f
<1>5. Live(f) = {} /\ Present(f) = {} /\ DOMAIN f.files = {} /\ Len(f.files) = 0
  BY <1>4 DEF Live, Present, Used
<1>6. Session(f, fs, ino)
  BY <1>4, <1>5 DEF Session
<1>7. Ready(f, fs, ino)
  BY <1>1, <1>3, <1>4, <1>5, <1>6 DEF Ready
<1>8. ASSUME Undying(Closed, fs, ino) PROVE Undying(f, fs, ino)
  <2>1. Clean(f, ino)
    BY <1>8, ClosedIs DEF Undying, Clean
  <2>2. Readable(f, fs, ino)
    BY <1>5 DEF Readable
  <2>3. ASSUME "merge" \notin Tools PROVE Owned(f, fs, ino)
    <3>1. \A p \in DOMAIN fs : p[2] > 0 => HasMain(fs, ino, p[1]) /\ \E x \in Range(ino[fs[Main(p[1])]].files) : x.path = p
      BY <1>8, <2>3, ClosedIs DEF Undying, Owned
    <3>2. \A p \in DOMAIN fs : p[2] > 0 => p[1] # m
      BY <1>3, <3>1 DEF HasMain
    <3> QED
      BY <1>4, <3>1, <3>2 DEF Owned
  <2> QED
    BY <2>1, <2>2, <2>3 DEF Undying
<1>9. PICK g, s2, n2 :
        /\ Modified(State(f, fs, ino)) = State(g, s2, n2) /\ Disk(s2, n2) /\ OpenOK(g, s2, n2) /\ g.modified
        /\ Undying(f, fs, ino) => Undying(g, s2, n2)
  BY <1>1, <1>7, ModifiedIs
<1>10. Kept(Modified(State(f, fs, ino)))
  BY <1>1, <1>8, <1>9, KeptModified
<1> QED
  BY <1>10 DEF f

\* The unit of a main file with an index.
LEMMA ReadIs ==
  ASSUME Disk(fs, ino), NEW m \in Mains, Grok(m) = "ALTM"
  PROVE  LET f == Read(m)
             x == ino[fs[Main(m)]]
         IN  /\ f \in Units /\ f.open /\ f.m = m /\ f.w = 0 /\ ~f.modified /\ f.unlink
             /\ DOMAIN f.files = DOMAIN x.files
             /\ \A k \in DOMAIN f.files : /\ f.files[k].path = x.files[k].path /\ f.files[k].form = "any"
                                          /\ f.files[k].at = 0 /\ ~f.files[k].dead
             /\ \A i \in DOMAIN f.arts : f.arts[i].name \in Names /\ f.arts[i].namf \in Names /\ f.arts[i].ifh \in DOMAIN f.files
             /\ \A i, j \in DOMAIN f.arts : f.arts[i].name = f.arts[j].name => i = j
             /\ Live(f) = DOMAIN f.arts
             /\ Solid(m) =>
                  /\ \A k \in DOMAIN f.files : f.files[k].path \in DOMAIN fs /\ f.files[k].path[1] = m /\ f.files[k].path[2] > 0
                  /\ \A k, l \in DOMAIN f.files : f.files[k].path = f.files[l].path => k = l
                  /\ \A i \in DOMAIN f.arts : ino[fs[f.files[f.arts[i].ifh].path]].art[f.arts[i].namf] # Nothing
<1> DEFINE f == Read(m)
           x == ino[fs[Main(m)]]
           F == [k \in DOMAIN x.files |-> SubFile(x.files[k].path, x.files[k].form, 0)]
<1>3. x \in MainInodes /\ IndexOK(fs, ino, m, x)
  BY GrokIs
<1>4. F \in Seq(FileRecs) /\ DOMAIN F = DOMAIN x.files /\ x.arts \in Seq(EntryRecs)
      /\ \A k \in DOMAIN F : /\ F[k].path = x.files[k].path /\ F[k].form = x.files[k].form
                             /\ F[k].at = 0 /\ F[k].dead = FALSE
  <2> DEFINE R == [path : Mains \X Nat, form : Forms]
  <2> HIDE DEF x
  <2>1. x.files \in Seq(R) /\ x.arts \in Seq(EntryRecs)
    BY <1>3 DEF MainInodes
  <2>2. Len(x.files) \in Nat /\ DOMAIN x.files = 1 .. Len(x.files)
        /\ \A k \in DOMAIN x.files : x.files[k].path \in Mains \X Nat /\ x.files[k].form \in Forms
    <3> HIDE DEF R
    <3>1. Len(x.files) \in Nat /\ DOMAIN x.files = 1 .. Len(x.files) /\ \A k \in DOMAIN x.files : x.files[k] \in R
      BY <2>1
    <3>2. \A y \in R : y.path \in Mains \X Nat /\ y.form \in Forms
      BY DEF R
    <3> QED
      BY <3>1, <3>2
  <2>3. \A k \in DOMAIN x.files : F[k] \in FileRecs
    BY <2>2 DEF SubFile, FileRecs
  <2>4. F \in [1 .. Len(x.files) -> FileRecs]
    BY Zenon, <2>2, <2>3
  <2>5. F \in Seq(FileRecs)
    BY <2>2, <2>4, SeqIs
  <2> QED
    BY <2>1, <2>5 DEF SubFile
<1> HIDE DEF F
<1>5. /\ f \in Units /\ f.open /\ f.m = m /\ f.files = F /\ f.arts = x.arts /\ f.w = 0
      /\ ~f.modified /\ f.unlink
  <2>1. f = New(m, F, x.arts)
    BY DEF Read, F
  <2> QED
    BY <1>4, <2>1, NewIs
<1> HIDE DEF f
<1>7. /\ \A i \in DOMAIN x.arts : x.arts[i].name \in Names /\ x.arts[i].namf \in Names /\ x.arts[i].ifh \in DOMAIN x.files
      /\ \A i, j \in DOMAIN x.arts : x.arts[i].name = x.arts[j].name => i = j
      /\ \A k \in DOMAIN x.files : x.files[k].form = "any"
  BY Zenon, <1>3 DEF IndexOK
<1>8. DOMAIN f.files = DOMAIN x.files
      /\ \A k \in DOMAIN x.files : /\ f.files[k].path = x.files[k].path /\ f.files[k].form = "any"
                                   /\ f.files[k].at = 0 /\ ~f.files[k].dead
  <2> HIDE DEF x
  <2> QED
    BY <1>4, <1>5, <1>7
<1>9. Live(f) = DOMAIN x.arts
  <2>1. \A i \in DOMAIN x.arts : x.arts[i].name # Blank
    BY <1>7, NamesAssumption DEF NamesAssumption
  <2> QED
    BY <1>5, <2>1 DEF Live
<1>10. ASSUME Solid(m)
       PROVE  /\ \A k \in DOMAIN f.files : f.files[k].path \in DOMAIN fs /\ f.files[k].path[1] = m /\ f.files[k].path[2] > 0
              /\ \A k, l \in DOMAIN f.files : f.files[k].path = f.files[l].path => k = l
              /\ \A i \in DOMAIN f.arts : ino[fs[f.files[f.arts[i].ifh].path]].art[f.arts[i].namf] # Nothing
  <2>1. /\ \A k \in DOMAIN x.files : x.files[k].path \in DOMAIN fs /\ x.files[k].path[1] = m /\ x.files[k].path[2] > 0
        /\ \A k, l \in DOMAIN x.files : x.files[k].path = x.files[l].path => k = l
        /\ \A i \in DOMAIN x.arts : ino[fs[x.files[x.arts[i].ifh].path]].art[x.arts[i].namf] # Nothing
    BY Zenon, <1>3, <1>10 DEF IndexOK
  <2> HIDE DEF x
  <2>2. \A i \in DOMAIN x.arts : ino[fs[f.files[x.arts[i].ifh].path]].art[x.arts[i].namf] # Nothing
    <3> TAKE i \in DOMAIN x.arts
    <3>1. x.arts[i].ifh \in DOMAIN x.files
      BY <1>7
    <3>2. f.files[x.arts[i].ifh].path = x.files[x.arts[i].ifh].path
      BY <1>8, <3>1
    <3> QED
      BY Zenon, <2>1, <3>2
  <2>3. \A k, l \in DOMAIN x.files : f.files[k].path = f.files[l].path => k = l
    BY Zenon, <1>8, <2>1
  <2>4. \A k \in DOMAIN x.files : f.files[k].path \in DOMAIN fs /\ f.files[k].path[1] = m /\ f.files[k].path[2] > 0
    BY Zenon, <1>8, <2>1
  <2>5. f.arts = x.arts
    BY <1>5
  <2> QED
    BY Zenon, <1>8, <2>2, <2>3, <2>4, <2>5
<1>11. \A i \in DOMAIN f.arts : f.arts[i].name \in Names /\ f.arts[i].namf \in Names /\ f.arts[i].ifh \in DOMAIN f.files
  <2> HIDE DEF x
  <2> QED
    BY <1>5, <1>7, <1>8
<1>12. \A i, j \in DOMAIN f.arts : f.arts[i].name = f.arts[j].name => i = j
  <2> HIDE DEF x
  <2> QED
    BY <1>5, <1>7
<1> QED
  BY Zenon, <1>5, <1>8, <1>9, <1>10, <1>11, <1>12 DEF f, x

\* A main file with an index.
LEMMA OpenIndex ==
  ASSUME OrdinaryUse, MultiInv, ~fh.open, NEW m \in Opened, Grok(m) = "ALTM"
  PROVE  Kept(State(Read(m), fs, ino))
<1> DEFINE f == Read(m)
           x == ino[fs[Main(m)]]
<1>1. /\ Disk(fs, ino) /\ inst \in Instances
      /\ count.crashes = 0 => Undying(Closed, fs, ino)
  BY ClosedNow
<1>2. m \in Mains /\ Solid(m)
  BY <1>1, InstancesAssumption, SolidOpened DEF Opened
<1>3. HasMain(fs, ino, m)
  BY <1>1, <1>2, GrokIs
<1>4. /\ DOMAIN f.files = DOMAIN x.files
      /\ \A k \in DOMAIN f.files : /\ f.files[k].path = x.files[k].path /\ f.files[k].form = "any"
                                   /\ f.files[k].at = 0 /\ ~f.files[k].dead
  BY Zenon, <1>1, <1>2, ReadIs
<1>5. f \in Units /\ f.open /\ f.m = m /\ f.w = 0 /\ ~f.modified /\ f.unlink
  BY Zenon, <1>1, <1>2, ReadIs
<1>7. /\ \A i \in DOMAIN f.arts : f.arts[i].name \in Names /\ f.arts[i].namf \in Names /\ f.arts[i].ifh \in DOMAIN f.files
      /\ \A i, j \in DOMAIN f.arts : f.arts[i].name = f.arts[j].name => i = j
      /\ Live(f) = DOMAIN f.arts
  BY Zenon, <1>1, <1>2, ReadIs
<1>8. /\ \A k \in DOMAIN f.files : f.files[k].path \in DOMAIN fs /\ f.files[k].path[1] = m /\ f.files[k].path[2] > 0
      /\ \A k, l \in DOMAIN f.files : f.files[k].path = f.files[l].path => k = l
      /\ \A i \in DOMAIN f.arts : ino[fs[f.files[f.arts[i].ifh].path]].art[f.arts[i].namf] # Nothing
  BY Zenon, <1>1, <1>2, ReadIs
<1> HIDE DEF f, x
<1>9. Session(f, fs, ino)
  <2>1. Present(f) \subseteq DOMAIN f.files
    BY UsedIs
  <2> QED
    BY Zenon, <1>4, <1>5, <1>7, <1>8, <2>1 DEF Session
<1>10. OpenOK(f, fs, ino)
  <2>1. Len(f.files) \in Nat
    BY <1>5, UnitIs
  <2> QED
    BY <1>3, <1>5, <1>9, <2>1 DEF OpenOK
<1>11. ASSUME Undying(Closed, fs, ino) PROVE Undying(f, fs, ino) /\ Filed(f, fs, ino)
  <2>1. Clean(Closed, ino)
    BY <1>11 DEF Undying
  <2>2. Clean(f, ino)
    BY <2>1, ClosedIs DEF Clean
  <2>3. Readable(f, fs, ino)
    <3> SUFFICES ASSUME NEW j \in Present(f) PROVE ino[fs[f.files[j].path]].clean
      BY DEF Readable
    <3>1. f.files[j].path \in DOMAIN fs /\ f.files[j].path[2] > 0
      BY Zenon, <1>9 DEF Session
    <3>2. ino[fs[f.files[j].path]].kind = "PURE" /\ Typed(fs, ino)
      BY <1>1, <3>1 DEF Disk
    <3>3. fs[f.files[j].path] \in DOMAIN ino
      BY <3>1, <3>2, TypedIs
    <3> QED
      BY <2>1, <3>2, <3>3, ClosedIs DEF Clean
  <2>4. ASSUME "merge" \notin Tools PROVE Owned(f, fs, ino) /\ Owned(Closed, fs, ino)
    <3>1. Owned(Closed, fs, ino)
      BY <1>11, <2>4 DEF Undying
    <3>2. \A p \in DOMAIN fs : p[2] > 0 => HasMain(fs, ino, p[1]) /\ \E y \in Range(ino[fs[Main(p[1])]].files) : y.path = p
      BY <3>1, ClosedIs DEF Owned
    <3>3. \A y \in Range(x.files) : \E k \in DOMAIN f.files : ~f.files[k].dead /\ f.files[k].path = y.path
      BY <1>4, <1>5 DEF Range
    <3>4. \A p \in DOMAIN fs : p[2] > 0 /\ p[1] = m => \E k \in DOMAIN f.files : ~f.files[k].dead /\ f.files[k].path = p
      BY <3>2, <3>3 DEF x
    <3> QED
      BY <1>5, <3>1, <3>2, <3>4 DEF Owned
  <2> QED
    BY <2>2, <2>3, <2>4 DEF Undying, Filed
<1>12. Kept(State(f, fs, ino))
  BY <1>1, <1>10, <1>11, KeptOpen
<1> QED
  BY <1>12 DEF f

\* A unit with another index.
WithArts(f, arts) == [f EXCEPT !.arts = arts]
LEMMA ArtsIs ==
  ASSUME NEW f \in Units, NEW s, NEW n, NEW arts \in Seq(EntryRecs)
  PROVE  LET e == WithArts(f, arts)
         IN  /\ [State(f, s, n) EXCEPT !.f.arts = arts] = State(e, s, n)
             /\ e \in Units /\ e.open /\ e.m = f.m /\ e.files = f.files /\ e.arts = arts /\ e.w = f.w
             /\ e.modified = f.modified /\ e.unlink = f.unlink
<1> DEFINE e == WithArts(f, arts)
           q == [State(f, s, n) EXCEPT !.f.arts = arts]
<1>1. /\ e \in Units /\ e.open /\ e.m = f.m /\ e.files = f.files /\ e.arts = arts /\ e.w = f.w
      /\ e.modified = f.modified /\ e.unlink = f.unlink
  BY DEF Units, WithArts
<1>2. q.f = e /\ q.fs = s /\ q.ino = n /\ q.ok = TRUE /\ q = [y \in {"f", "fs", "ino", "ok"} |-> q[y]]
  BY Zenon DEF State, WithArts
<1>3. q \in [f : {e}, fs : {s}, ino : {n}, ok : {TRUE}]
  BY <1>2
<1> HIDE DEF q, e
<1>4. q = State(e, s, n)
  BY <1>3, StateIn
<1> QED
  BY <1>1, <1>4 DEF q, e

\* A native file becomes the first sub-file of its own main file.
LEMMA OpenNative ==
  ASSUME OrdinaryUse, MultiInv, ~fh.open, NEW m \in Opened, Grok(m) = "PURE"
  PROVE  Kept(OpenPure(m))
<1> DEFINE p == NewPath(fs, m)
           at == fs[Main(m)]
           s0 == Drop(fs, {Main(m)})
           s == Put(s0, p, at)
           f == New(m, <<SubFile(p, GivenForm, 0)>>, <<>>)
           r == GetR(State(f, s, ino), 1)
           L == Listed(ino[at], 1)
           h == AtFile(f, s, 1)
           e == WithArts(h, L)
<1>1. /\ Disk(fs, ino) /\ inst \in Instances
      /\ count.crashes = 0 => Undying(Closed, fs, ino)
  BY ClosedNow
<1>2. m \in Mains
  BY <1>1, InstancesAssumption DEF Opened
<1>3. ino[at] \in SubInodes /\ at \in DOMAIN ino /\ Main(m) \in DOMAIN fs /\ ino[at].kind = "PURE"
  BY <1>1, <1>2, GrokIs
<1>4. PICK x \in Nat \ {0} : p = <<m, x>> /\ p \notin DOMAIN fs
  <2>1. IsFiniteSet(DOMAIN fs)
    BY <1>1 DEF Disk, Typed
  <2> QED
    BY Zenon, <2>1, NewPathIs
<1>5. p \in Mains \X Nat /\ p[1] = m /\ p[2] > 0 /\ p # Main(m)
  BY <1>2, <1>4 DEF Main
<1>6. OpenPure(m) = IF r.ok THEN Modified([r EXCEPT !.f.arts = L]) ELSE r
  BY DEF OpenPure
<1> HIDE DEF p, at
<1>7. Disk(s0, ino) /\ DOMAIN s0 = DOMAIN fs \ {Main(m)} /\ \A q \in DOMAIN s0 : s0[q] = fs[q]
  <2>1. \A q \in {Main(m)} : q[2] = 0
    BY <1>2, MainIs
  <2>2. DOMAIN s0 = DOMAIN fs \ {Main(m)} /\ \A q \in DOMAIN fs \ {Main(m)} : s0[q] = fs[q]
    BY Zenon, DropIs
  <2>3. Disk(s0, ino)
    BY <1>1, <2>1, DropDisk
  <2> QED
    BY <2>2, <2>3
<1> HIDE DEF s0
<1>8. p \notin DOMAIN s0
  BY <1>4, <1>7
<1>9. Disk(s, ino)
  BY <1>3, <1>5, <1>7, <1>8, PutGrows, DiskGrows
<1>10. DOMAIN s = (DOMAIN fs \ {Main(m)}) \cup {p} /\ s[p] = at /\ \A q \in DOMAIN s : q # p => s[q] = fs[q]
  <2>1. DOMAIN s = DOMAIN s0 \cup {p} /\ s[p] = at
    BY DEF Put
  <2>2. \A q \in DOMAIN s0 : q # p => s[q] = s0[q]
    BY DEF Put
  <2> HIDE DEF s
  <2> QED
    BY <1>7, <2>1, <2>2
<1> HIDE DEF s
<1>11. /\ f \in Units /\ f.open /\ f.m = m /\ f.files = <<SubFile(p, "any", 0)>> /\ f.arts = <<>> /\ f.w = 0
       /\ ~f.modified /\ f.unlink
  <2>1. SubFile(p, "any", 0) \in FileRecs
    BY <1>5 DEF SubFile, FileRecs, Forms
  <2>2. <<SubFile(p, "any", 0)>> \in Seq(FileRecs) /\ <<>> \in Seq(EntryRecs)
    BY <2>1
  <2> DEFINE F == <<SubFile(p, "any", 0)>>
             g == New(m, F, <<>>)
  <2>3. f = g
    BY FormsAre
  <2>4. F \in Seq(FileRecs) /\ <<>> \in Seq(EntryRecs)
    BY <2>2
  <2> HIDE DEF f, F
  <2>5. g \in Units /\ g.open /\ g.m = m /\ g.files = F /\ g.arts = <<>> /\ g.w = 0 /\ ~g.modified /\ g.unlink
    BY <1>2, <2>4 DEF New, Units
  <2> HIDE DEF g
  <2> QED
    BY <2>3, <2>5 DEF F
<1> HIDE DEF f
<1>12. DOMAIN f.files = {1} /\ f.files[1].path = p /\ f.files[1].form = "any" /\ f.files[1].at = 0 /\ ~f.files[1].dead
  BY <1>11 DEF SubFile
<1>13. Live(f) = {} /\ Present(f) = {1}
  <2>1. Live(f) = {}
    BY <1>11 DEF Live
  <2> QED
    BY <1>12, <2>1, UsedIs DEF Present
<1>14. Session(f, s, ino)
  BY <1>5, <1>10, <1>11, <1>12, <1>13 DEF Session
<1>15. \/ r = State(h, s, ino)
       \/ ~r.ok /\ r.fs = s /\ r.ino = ino /\ ~ino[at].clean
  <2>1. 1 \in Present(f)
    BY <1>13
  <2>2. \/ r = State(f, s, ino) /\ f.files[1].at = s[f.files[1].path]
        \/ r = State(h, s, ino)
        \/ ~r.ok /\ r.fs = s /\ r.ino = ino /\ ~ino[s[f.files[1].path]].clean
    BY <1>9, <1>14, <2>1, GetRIs
  <2>3. at # 0
    <3>1. Typed(fs, ino)
      BY <1>1 DEF Disk
    <3> QED
      BY <1>3, <3>1, TypedIs
  <2> QED
    BY <1>10, <1>12, <2>2, <2>3
<1>16. CASE ~r.ok /\ r.fs = s /\ r.ino = ino /\ ~ino[at].clean
  <2>1. ~Undying(Closed, fs, ino)
    BY <1>3, <1>16, ClosedIs DEF Undying, Clean
  <2>2. OpenPure(m) = r
    BY <1>6, <1>16
  <2> HIDE DEF r
  <2> QED
    BY <1>1, <1>9, <1>16, <2>1, <2>2, KeptAbort
<1>17. CASE r = State(h, s, ino)
  <2>1. /\ h \in Units /\ DOMAIN h.files = {1} /\ Len(h.files) = Len(f.files)
        /\ h.m = m /\ h.w = 0 /\ ~h.modified /\ h.unlink /\ h.open
        /\ h.files[1].path = p /\ h.files[1].form = "any" /\ ~h.files[1].dead /\ h.files[1].at = at /\ h.files[1].at > 0
    <3>1. 1 \in Present(f) /\ f.files[1].at = 0 /\ 1 \in DOMAIN f.files
      BY <1>12, <1>13
    <3>2. /\ h \in Units /\ DOMAIN h.files = DOMAIN f.files /\ Len(h.files) = Len(f.files)
          /\ h.m = f.m /\ h.w = f.w /\ h.unlink = f.unlink
      BY <1>9, <1>14, <3>1, AtFileIs
    <3>3. h.modified = f.modified
      BY <1>9, <1>14, <3>1, AtFileIs
    <3>4. /\ h.files[1].path = f.files[1].path /\ h.files[1].form = f.files[1].form /\ h.files[1].dead = f.files[1].dead
          /\ h.files[1].at = s[f.files[1].path] /\ h.files[1].at > 0
      BY <1>9, <1>14, <3>1, AtFileIs
    <3> HIDE DEF h
    <3>5. h.open
      BY <3>2, UnitIs
    <3> QED
      BY <1>10, <1>11, <1>12, <3>2, <3>3, <3>4, <3>5
  <2>2. /\ L \in Seq(EntryRecs)
        /\ \A i \in DOMAIN L : /\ L[i].name \in Names /\ L[i].namf = L[i].name /\ L[i].ifh = 1
                               /\ ino[at].art[L[i].name] # Nothing
        /\ \A i, j \in DOMAIN L : L[i].name = L[j].name => i = j
    BY <1>3, ListedIs
  <2> HIDE DEF L, h
  <2>3. OpenPure(m) = Modified(State(e, s, ino))
    <3>1. r.ok
      BY <1>17 DEF State
    <3>2. [State(h, s, ino) EXCEPT !.f.arts = L] = State(e, s, ino)
      BY <2>1, <2>2, ArtsIs
    <3> HIDE DEF r, e
    <3> QED
      BY <1>6, <1>17, <3>1, <3>2
  <2>4. /\ e \in Units /\ e.open /\ e.m = m /\ e.files = h.files /\ e.arts = L /\ e.w = 0 /\ ~e.modified /\ e.unlink
    <3>1. e \in Units /\ e.open /\ e.m = h.m /\ e.files = h.files /\ e.arts = L /\ e.w = h.w /\ e.unlink = h.unlink
      BY <2>1, <2>2, ArtsIs
    <3>2. e.modified = h.modified
      BY Zenon, <2>1, <2>2, ArtsIs
    <3> HIDE DEF e
    <3> QED
      BY <2>1, <3>1, <3>2
  <2> HIDE DEF e, r
  <2>5. Live(e) \subseteq DOMAIN L /\ Present(e) = {1} /\ DOMAIN e.files = {1}
    <3>1. 1 \in Present(e) /\ Present(e) \subseteq DOMAIN e.files
      BY <2>1, <2>4, UsedIs DEF Present
    <3> QED
      BY <2>1, <2>4, <3>1 DEF Live
  <2>6. Session(e, s, ino)
    <3>1. \A i \in Live(e) :
            /\ e.arts[i].ifh \in DOMAIN e.files /\ e.arts[i].namf \in Names
            /\ ino[s[e.files[e.arts[i].ifh].path]].art[e.arts[i].namf] # Nothing
      <4> TAKE i \in Live(e)
      <4>1. i \in DOMAIN L /\ e.arts[i] = L[i]
        BY <2>4, <2>5
      <4>2. L[i].name \in Names /\ L[i].namf = L[i].name /\ L[i].ifh = 1 /\ ino[at].art[L[i].name] # Nothing
        BY <2>2, <4>1
      <4>3. s[e.files[1].path] = at /\ 1 \in DOMAIN e.files
        BY <1>10, <2>1, <2>4, <2>5
      <4> QED
        BY <4>1, <4>2, <4>3
    <3>2. \A i, j \in Live(e) : e.arts[i].name = e.arts[j].name => i = j
      BY <2>2, <2>4, <2>5
    <3>3. \A k \in Present(e) : /\ e.files[k].path \in DOMAIN s /\ e.files[k].path[1] = e.m /\ e.files[k].path[2] > 0
                                /\ e.files[k].at = s[e.files[k].path]
      BY <1>5, <1>10, <2>1, <2>4, <2>5
    <3> QED
      BY Zenon, <2>1, <2>4, <2>5, <3>1, <3>2, <3>3 DEF Session
  <2>7. Ready(e, s, ino)
    <3>1. Main(m) \notin DOMAIN s
      BY <1>5, <1>10
    <3>2. Len(e.files) \in Nat
      BY <2>4, UnitIs
    <3> QED
      BY <1>9, <2>4, <2>6, <3>1, <3>2 DEF Ready
  <2>8. ASSUME Undying(Closed, fs, ino) PROVE Undying(e, s, ino)
    <3>1. Clean(e, ino)
      BY <2>8, ClosedIs DEF Undying, Clean
    <3>2. Readable(e, s, ino)
      BY <2>1, <2>4, <2>5 DEF Readable
    <3>3. ASSUME "merge" \notin Tools PROVE Owned(e, s, ino)
      <4>1. \A q \in DOMAIN fs : q[2] > 0 => HasMain(fs, ino, q[1]) /\ \E x1 \in Range(ino[fs[Main(q[1])]].files) : x1.path = q
        BY <2>8, <3>3, ClosedIs DEF Undying, Owned
      <4> SUFFICES ASSUME NEW q \in DOMAIN s, q[2] > 0
                   PROVE  IF e.open /\ q[1] = e.m THEN \E k \in DOMAIN e.files : ~e.files[k].dead /\ e.files[k].path = q
                          ELSE HasMain(s, ino, q[1]) /\ \E x1 \in Range(ino[s[Main(q[1])]].files) : x1.path = q
        BY DEF Owned
      <4>2. CASE q = p
        BY <1>5, <2>1, <2>4, <2>5, <4>2
      <4>3. CASE q # p
        <5>1. q \in DOMAIN fs /\ HasMain(fs, ino, q[1]) /\ \E x1 \in Range(ino[fs[Main(q[1])]].files) : x1.path = q
          BY <1>10, <4>1, <4>3
        <5>2. q[1] # m
          BY <1>3, <5>1 DEF HasMain, at
        <5>3. Main(q[1]) # Main(m) /\ Main(q[1]) # p
          BY <1>5, <5>2 DEF Main
        <5>4. Main(q[1]) \in DOMAIN s /\ s[Main(q[1])] = fs[Main(q[1])]
          BY <1>10, <5>1, <5>3 DEF HasMain
        <5> QED
          BY <2>4, <5>1, <5>2, <5>4 DEF HasMain
      <4> QED
        BY <4>2, <4>3
    <3> QED
      BY <3>1, <3>2, <3>3 DEF Undying
  <2>9. PICK g, s2, n2 :
          /\ Modified(State(e, s, ino)) = State(g, s2, n2) /\ Disk(s2, n2) /\ OpenOK(g, s2, n2) /\ g.modified
          /\ Undying(e, s, ino) => Undying(g, s2, n2)
    BY <1>1, <2>7, ModifiedIs
  <2> QED
    BY <1>1, <2>3, <2>8, <2>9, KeptModified
<1> QED
  BY <1>15, <1>16, <1>17

LEMMA OpenKeeps ==
  ASSUME OrdinaryUse, MultiInv, NEW m \in Opened, LFIOUV(m), UNCHANGED inst
  PROVE  MultiInv'
<1>1. ~fh.open /\ Counts("opens", MaxOpens) /\ Becomes(<<>>, Open(m))
  BY DEF LFIOUV
<1>2. /\ Disk(fs, ino) /\ inst \in Instances /\ Here = State(Closed, fs, ino)
      /\ count.crashes = 0 => Undying(Closed, fs, ino)
  BY <1>1, ClosedNow
<1>3. m \in Mains
  BY <1>2, InstancesAssumption DEF Opened
<1>4. count' \in [Bounded -> Nat] /\ count'.crashes = count.crashes
  BY <1>1, CountUp DEF Bounded
<1>5. Kept(Open(m).r)
  <2>1. CASE Grok(m) = "PURE"
    <3>1. Open(m).r = OpenPure(m)
      BY <2>1, ResultIs DEF Open
    <3> QED
      BY <1>1, <2>1, <3>1, OpenNative
  <2>2. CASE Grok(m) = "ALTM"
    <3>1. Open(m).r = State(Read(m), fs, ino)
      BY <2>2, ResultIs DEF Open
    <3> QED
      BY <1>1, <2>2, <3>1, OpenIndex
  <2>3. CASE Grok(m) = "NONE"
    <3>1. Open(m).r = Modified(State(New(m, <<>>, <<>>), fs, ino))
      BY <2>3, ResultIs DEF Open
    <3> QED
      BY <1>1, <2>3, <3>1, OpenNew
  <2>4. CASE Grok(m) = "UNKN"
    <3>1. Open(m).r = Abort(Here)
      BY <2>4, ResultIs DEF Open
    <3>2. ~Abort(Here).ok /\ Abort(Here).fs = fs /\ Abort(Here).ino = ino
      BY <1>2 DEF Abort, State
    <3>3. ~Undying(Closed, fs, ino)
      BY <1>2, <1>3, <2>4, GrokIs DEF Undying, Clean
    <3> QED
      BY <1>2, <3>1, <3>2, <3>3, KeptAbort
  <2> QED
    BY <1>2, <1>3, <2>1, <2>2, <2>3, <2>4, GrokIs
<1> QED
  BY <1>1, <1>4, <1>5, BecomesKeeps

-----------------------------------------------------------------------------
(* The tools: links to the sub-files of other main files. *)

\* Files that can be linked: native ones that are there.
Linkable(s, n, files) ==
  /\ files \in Seq(FileRecs)
  /\ \A k \in DOMAIN files : files[k].form = "any" /\ files[k].path \in DOMAIN s /\ n[s[files[k].path]].kind = "PURE"

\* What the links are.
LinksAre(l, s, t, files) ==
  /\ DOMAIN l.files = DOMAIN files
  /\ \A k \in DOMAIN files :
       /\ l.files[k].path \in Mains \X Nat /\ l.files[k].path[1] = t /\ l.files[k].path[2] > 0
       /\ l.files[k].path \in DOMAIN l.fs /\ l.files[k].path \notin DOMAIN s
       /\ l.fs[l.files[k].path] = s[files[k].path]
       /\ l.files[k].form = "any" /\ l.files[k].at = 0 /\ ~l.files[k].dead
  /\ \A j, k \in DOMAIN files : l.files[j].path = l.files[k].path => j = k
  /\ \A p \in DOMAIN l.fs : (p \in DOMAIN s /\ l.fs[p] = s[p]) \/ \E k \in DOMAIN files : l.files[k].path = p

LEMMA LinkedToIs ==
  ASSUME OrdinaryUse, NEW s, NEW n, Disk(s, n), NEW t \in Mains, NEW files, Linkable(s, n, files)
  PROVE  LET l == LinkedTo(s, t, files)
         IN  l.ok /\ Grows(s, n, l.fs, n) /\ LinksAre(l, s, t, files) /\ l.files \in Seq(FileRecs)
<1> DEFINE l == LinkedTo(s, t, files)
           N == Len(files)
           c == Cardinality(Linked(s, files))
           new == NewPaths(s, t, c)
           of(p) == CHOOSE i \in DOMAIN new : new[i] = p
           s2 == Links(s, files, new)
           F == [i \in DOMAIN new |-> SubFile(new[i], ToolForm, 0)]
<1>1. /\ N \in Nat /\ DOMAIN files = 1 .. N
      /\ \A k \in DOMAIN files : files[k].form = "any" /\ files[k].path \in DOMAIN s /\ n[s[files[k].path]].kind = "PURE"
  BY DEF Linkable
<1>2. Typed(s, n) /\ IsFiniteSet(DOMAIN s) /\ DOMAIN n = 1 .. Len(n) /\ \A q \in DOMAIN s : s[q] \in DOMAIN n
  <2>1. Typed(s, n)
    BY DEF Disk
  <2> QED
    BY <2>1, TypedIs
<1>3. Linked(s, files) = DOMAIN files
  <2>1. \A i \in DOMAIN files : \A j \in 1 .. i : j \in DOMAIN files
    BY <1>1
  <2> QED
    BY <1>1, <2>1, FormsAre DEF Linked
<1>4. c = N
  <2>1. Cardinality(1 .. N) = N
    BY <1>1, FS_Interval
  <2> QED
    BY <1>1, <1>3, <2>1
<1>5. l = [fs |-> s2, files |-> F, ok |-> Linked(s, files) = DOMAIN files]
  BY DEF LinkedTo
<1>5a. l.ok
  <2> HIDE DEF l, s2, F
  <2> QED
    BY Zenon, <1>3, <1>5
<1> HIDE DEF c
<1>6. /\ DOMAIN new = 1 .. N
      /\ \A i \in 1 .. N : \E x \in Nat \ {0} : new[i] = <<t, x>> /\ <<t, x>> \notin DOMAIN s
      /\ \A i, j \in 1 .. N : new[i] = new[j] => i = j
  <2>1. c \in Nat
    BY <1>1, <1>4
  <2>2. /\ DOMAIN new = 1 .. c
        /\ \A i \in 1 .. c : \E x \in Nat \ {0} : new[i] = <<t, x>> /\ <<t, x>> \notin DOMAIN s
        /\ \A i, j \in 1 .. c : new[i] = new[j] => i = j
    BY <1>2, <2>1, NewPathsAre
  <2> QED
    BY <1>4, <2>2
<1> HIDE DEF new, l, N
<1>7. \A i \in 1 .. N : new[i] \in Mains \X Nat /\ new[i][1] = t /\ new[i][2] > 0 /\ new[i] \notin DOMAIN s
  <2> TAKE i \in 1 .. N
  <2>1. PICK x \in Nat \ {0} : new[i] = <<t, x>> /\ <<t, x>> \notin DOMAIN s
    BY <1>6
  <2> QED
    BY <2>1
<1>8. \A i \in 1 .. N : of(new[i]) = i
  BY <1>6
<1> HIDE DEF of
<1>9. \A p \in Range(new) : \E i \in 1 .. N : new[i] = p
  BY <1>6 DEF Range
<1>10. \A i \in 1 .. N : new[i] \in Range(new)
  BY <1>6 DEF Range
<1>11a. s2 = [p \in DOMAIN s \cup Range(new) |-> IF p \in DOMAIN s THEN s[p] ELSE s[files[of(p)].path]]
  BY DEF Links, of
<1>11. /\ DOMAIN s2 = DOMAIN s \cup Range(new) /\ \A p \in DOMAIN s : s2[p] = s[p]
       /\ s2 = [p \in DOMAIN s2 |-> s2[p]]
  BY <1>11a
<1>12. \A i \in 1 .. N : s2[new[i]] = s[files[i].path]
  <2> TAKE i \in 1 .. N
  <2>1. new[i] \notin DOMAIN s /\ new[i] \in Range(new) /\ of(new[i]) = i
    BY <1>7, <1>8, <1>10
  <2> QED
    BY <1>11a, <2>1
<1> HIDE DEF s2
<1>13. IsFiniteSet(DOMAIN s2)
  <2>1. IsFiniteSet(1 .. N)
    BY <1>1, FS_Interval
  <2>2. new \in Surjection(1 .. N, Range(new))
    <3>1. new = [i \in 1 .. N |-> new[i]]
      BY Zenon, <1>1, <1>2, <1>4 DEF new, NewPaths
    <3>2. new \in [1 .. N -> Range(new)]
      BY <1>10, <3>1
    <3> QED
      BY <1>9, <3>2 DEF Surjection
  <2>3. IsFiniteSet(Range(new))
    BY <2>1, <2>2, FS_Surjection
  <2>4. DOMAIN s2 = DOMAIN s \cup Range(new)
    BY <1>11
  <2>5. IsFiniteSet(DOMAIN s \cup Range(new))
    BY Zenon, <1>2, <2>3, FS_Union
  <2> QED
    BY <2>4, <2>5
<1>14. \A p \in DOMAIN s2 : p \in Mains \X Nat /\ s2[p] \in 1 .. Len(n)
  <2>1. \A p \in DOMAIN s : p \in Mains \X Nat
    BY <1>2 DEF Typed
  <2>2. \A p \in Range(new) : p \in Mains \X Nat /\ s2[p] \in 1 .. Len(n)
    BY <1>1, <1>2, <1>7, <1>9, <1>12
  <2> QED
    BY <1>2, <1>11, <2>1, <2>2
<1>15. Typed(s2, n)
  BY <1>2, <1>11, <1>13, <1>14 DEF Typed
<1>16. Grows(s, n, s2, n)
  <2>1. \A p \in DOMAIN s2 : p \notin DOMAIN s => n[s2[p]].kind = "PURE"
    BY <1>1, <1>9, <1>11, <1>12
  <2> QED
    BY <1>11, <1>15, <2>1 DEF Grows
<1>17. DOMAIN F = 1 .. N /\ \A i \in 1 .. N : /\ F[i] \in FileRecs /\ F[i].path = new[i] /\ F[i].form = "any"
                                              /\ F[i].at = 0 /\ ~F[i].dead
  <2>1. \A i \in 1 .. N : F[i] = SubFile(new[i], "any", 0)
    BY <1>6, FormsAre
  <2>2. \A p \in Mains \X Nat : SubFile(p, "any", 0) \in FileRecs
    BY DEF SubFile, FileRecs, Forms
  <2> QED
    BY Zenon, <1>6, <1>7, <2>1, <2>2 DEF SubFile
<1>18. F \in Seq(FileRecs)
  <2>1. F \in [1 .. N -> FileRecs]
    BY <1>6, <1>17
  <2> QED
    BY <1>1, <2>1, SeqIs
<1> HIDE DEF F
<1>19. l.fs = s2 /\ l.files = F /\ l.ok
  BY <1>5, <1>5a
<1>20. \A p \in DOMAIN s2 : (p \in DOMAIN s /\ s2[p] = s[p]) \/ \E k \in 1 .. N : F[k].path = p
  BY <1>9, <1>11, <1>17
<1>21. LinksAre(l, s, t, files)
  <2>1. \A k \in 1 .. N :
          /\ F[k].path \in Mains \X Nat /\ F[k].path[1] = t /\ F[k].path[2] > 0
          /\ F[k].path \in DOMAIN s2 /\ F[k].path \notin DOMAIN s /\ s2[F[k].path] = s[files[k].path]
    BY <1>7, <1>10, <1>11, <1>12, <1>17
  <2>2. \A j, k \in 1 .. N : F[j].path = F[k].path => j = k
    BY <1>6, <1>17
  <2>3. DOMAIN files = 1 .. N /\ DOMAIN F = 1 .. N
        /\ \A k \in 1 .. N : F[k].form = "any" /\ F[k].at = 0 /\ ~F[k].dead
    BY <1>1, <1>17
  <2> QED
    BY <1>19, <1>20, <2>1, <2>2, <2>3 DEF LinksAre
<1> QED
  BY <1>16, <1>18, <1>19, <1>21 DEF l

\* A unit a tool makes of main file t, whose sub-files are links to these files.
LinkUnit(f, s, n, t, files) ==
  /\ f \in Units /\ f.m = t /\ f.unlink /\ DOMAIN f.files = DOMAIN files
  /\ \A k \in DOMAIN files : /\ f.files[k].path = LinkedTo(s, t, files).files[k].path
                             /\ f.files[k].form = "any" /\ f.files[k].at = 0
                             /\ "merge" \notin Tools => ~f.files[k].dead
  /\ \A i \in Live(f) : /\ f.arts[i].ifh \in DOMAIN files /\ f.arts[i].namf \in Names
                        /\ n[s[files[f.arts[i].ifh].path]].art[f.arts[i].namf] # Nothing
  /\ \A i, j \in Live(f) : f.arts[i].name = f.arts[j].name => i = j

LEMMA LinkSession ==
  ASSUME OrdinaryUse, NEW s, NEW n, Disk(s, n), NEW t \in Mains, Main(t) \notin DOMAIN s, NEW files, Linkable(s, n, files),
         NEW f, LinkUnit(f, s, n, t, files)
  PROVE  LET s2 == LinkedTo(s, t, files).fs
         IN  /\ Disk(s2, n) /\ Session(f, s2, n) /\ Main(t) \notin DOMAIN s2
             /\ Undying(Closed, s, n) => Undying(f, s2, n)
<1> DEFINE l == LinkedTo(s, t, files)
           s2 == l.fs
<1>1. Grows(s, n, s2, n) /\ LinksAre(l, s, t, files)
  BY LinkedToIs
<1>2. /\ f \in Units /\ f.m = t /\ f.open /\ DOMAIN f.files = DOMAIN files
      /\ \A k \in DOMAIN files : /\ f.files[k].path = l.files[k].path
                                 /\ f.files[k].form = "any" /\ f.files[k].at = 0
                                 /\ "merge" \notin Tools => ~f.files[k].dead
  BY UnitIs DEF LinkUnit
<1>3. /\ \A i \in Live(f) : /\ f.arts[i].ifh \in DOMAIN files /\ f.arts[i].namf \in Names
                            /\ n[s[files[f.arts[i].ifh].path]].art[f.arts[i].namf] # Nothing
      /\ \A i, j \in Live(f) : f.arts[i].name = f.arts[j].name => i = j
  BY Zenon DEF LinkUnit
<1> HIDE DEF l
<1>4. \A k \in DOMAIN files :
        /\ f.files[k].path[1] = t /\ f.files[k].path[2] > 0
        /\ f.files[k].path \in DOMAIN s2 /\ f.files[k].path \notin DOMAIN s /\ s2[f.files[k].path] = s[files[k].path]
  BY <1>1, <1>2 DEF LinksAre
<1>5. \A j, k \in DOMAIN files : f.files[j].path = f.files[k].path => j = k
  BY <1>1, <1>2 DEF LinksAre
<1>6. \A p \in DOMAIN s2 : p \in DOMAIN s \/ \E k \in DOMAIN files : f.files[k].path = p
  BY <1>1, <1>2 DEF LinksAre
<1>7. \A p \in DOMAIN s : p \in DOMAIN s2 /\ s2[p] = s[p]
  BY <1>1 DEF Grows
<1> HIDE DEF s2
<1>8. Disk(s2, n)
  BY <1>1, DiskGrows
<1>9. Session(f, s2, n)
  <2>1. \A i \in Live(f) :
          /\ f.arts[i].ifh \in DOMAIN f.files /\ f.arts[i].namf \in Names
          /\ n[s2[f.files[f.arts[i].ifh].path]].art[f.arts[i].namf] # Nothing
    <3> TAKE i \in Live(f)
    <3>1. /\ f.arts[i].ifh \in DOMAIN files /\ f.arts[i].namf \in Names
          /\ n[s[files[f.arts[i].ifh].path]].art[f.arts[i].namf] # Nothing
      BY Zenon, <1>3
    <3>2. s2[f.files[f.arts[i].ifh].path] = s[files[f.arts[i].ifh].path]
      BY <1>4, <3>1
    <3> QED
      BY Zenon, <1>2, <3>1, <3>2
  <2>2. Present(f) \subseteq DOMAIN files
    BY <1>2, UsedIs
  <2>3. \A k \in Present(f) : /\ f.files[k].path \in DOMAIN s2 /\ f.files[k].path[1] = f.m /\ f.files[k].path[2] > 0
                              /\ f.files[k].at = 0
    BY <1>2, <1>4, <2>2
  <2>4. \A k, j \in Present(f) : f.files[k].path = f.files[j].path => k = j
    BY <1>5, <2>2
  <2> QED
    BY Zenon, <1>2, <1>3, <2>1, <2>3, <2>4 DEF Session
<1>10. Main(t) \notin DOMAIN s2
  <2>1. Main(t)[2] = 0
    BY MainIs
  <2>2. \A k \in DOMAIN files : f.files[k].path # Main(t)
    BY <1>4, <2>1
  <2> QED
    BY <1>6, <2>2
<1>11. ASSUME Undying(Closed, s, n) PROVE Undying(f, s2, n)
  <2>1. Clean(Closed, n)
    BY <1>11 DEF Undying
  <2>2. Clean(f, n)
    BY <2>1, ClosedIs DEF Clean
  <2>3. Readable(f, s2, n)
    <3> SUFFICES ASSUME NEW j \in Present(f) PROVE n[s2[f.files[j].path]].clean
      BY DEF Readable
    <3>1. f.files[j].path \in DOMAIN s2 /\ f.files[j].path[2] > 0
      BY Zenon, <1>9 DEF Session
    <3>2. n[s2[f.files[j].path]].kind = "PURE" /\ Typed(s2, n)
      BY <1>8, <3>1 DEF Disk
    <3>3. s2[f.files[j].path] \in DOMAIN n
      BY <3>1, <3>2, TypedIs
    <3> QED
      BY <2>1, <3>2, <3>3, ClosedIs DEF Clean
  <2>4. ASSUME "merge" \notin Tools PROVE Owned(f, s2, n)
    <3>1. \A p \in DOMAIN s : p[2] > 0 => HasMain(s, n, p[1]) /\ \E y \in Range(n[s[Main(p[1])]].files) : y.path = p
      BY <1>11, <2>4, ClosedIs DEF Undying, Owned
    <3> SUFFICES ASSUME NEW p \in DOMAIN s2, p[2] > 0
                 PROVE  IF f.open /\ p[1] = f.m THEN \E k \in DOMAIN f.files : ~f.files[k].dead /\ f.files[k].path = p
                        ELSE HasMain(s2, n, p[1]) /\ \E y \in Range(n[s2[Main(p[1])]].files) : y.path = p
      BY DEF Owned
    <3>2. CASE p \in DOMAIN s
      <4>1. HasMain(s, n, p[1]) /\ \E y \in Range(n[s[Main(p[1])]].files) : y.path = p
        BY <3>1, <3>2
      <4>2. p[1] # t
        BY <4>1 DEF HasMain
      <4>3. Main(p[1]) \in DOMAIN s2 /\ s2[Main(p[1])] = s[Main(p[1])]
        BY <1>7, <4>1 DEF HasMain
      <4> QED
        BY <1>2, <4>1, <4>2, <4>3 DEF HasMain
    <3>3. CASE p \notin DOMAIN s
      <4>1. PICK k \in DOMAIN files : f.files[k].path = p
        BY <1>6, <3>3
      <4>2. p[1] = t /\ ~f.files[k].dead
        BY <1>2, <1>4, <2>4, <4>1
      <4> QED
        BY <1>2, <4>1, <4>2
    <3> QED
      BY <3>2, <3>3
  <2> QED
    BY <2>2, <2>3, <2>4 DEF Undying
<1> QED
  BY <1>8, <1>9, <1>10, <1>11 DEF s2, l

\* The index a tool writes over such a unit.
LEMMA LinkHeader ==
  ASSUME OrdinaryUse, NEW s, NEW n, Disk(s, n), NEW t \in Mains, Solid(t), Main(t) \notin DOMAIN s,
         NEW files, Linkable(s, n, files), NEW f, LinkUnit(f, s, n, t, files)
  PROVE  LET r == WriteHdr(State(f, LinkedTo(s, t, files).fs, n))
         IN  r.ok /\ Disk(r.fs, r.ino) /\ (Undying(Closed, s, n) => Undying(Closed, r.fs, r.ino))
<1> DEFINE s1 == LinkedTo(s, t, files).fs
           r == WriteHdr(State(f, s1, n))
           g == HdrFile(f)
           s2 == HdrFs(f, s1, n)
           n2 == HdrIno(f, s1, n)
<1>1. Disk(s1, n) /\ Session(f, s1, n) /\ Main(t) \notin DOMAIN s1 /\ (Undying(Closed, s, n) => Undying(f, s1, n))
  BY LinkSession
<1>2. f \in Units /\ f.m = t /\ f.unlink /\ \A k \in DOMAIN f.files : f.files[k].at = 0
  BY Zenon DEF LinkUnit
<1> HIDE DEF s1
<1>3. HdrHyp(f, s1, n) /\ r = State(g, s2, n2)
  BY <1>1, <1>2, SessionHdr
<1>4. Disk(s2, n2)
  <2>1. /\ \A i, j \in Live(f) : f.arts[i].name = f.arts[j].name => i = j
        /\ \A k \in DOMAIN f.files : f.files[k].form = "any"
    BY Zenon, <1>1 DEF Session
  <2> QED
    BY <1>1, <1>2, <1>3, <2>1, HdrDisk
<1>5. ASSUME Undying(Closed, s, n) PROVE Undying(Closed, s2, n2)
  <2>1. Undying(g, s2, n2) /\ ("merge" \notin Tools => Owned(Closed, s2, n2))
    BY <1>1, <1>2, <1>5, HdrUndying
  <2>2. \A k \in DOMAIN g.files : g.files[k].at = 0
    BY <1>2, HdrFileIs
  <2>3. \A k \in DOMAIN n2 : k # 0
    <3>1. Typed(s2, n2)
      BY <1>4 DEF Disk
    <3> QED
      BY <3>1, TypedIs
  <2> HIDE DEF g, s2, n2
  <2>4. Clean(Closed, n2)
    BY <2>1, <2>2, <2>3, ClosedIs DEF Undying, Clean
  <2> QED
    BY <2>1, <2>4, ClosedIs DEF Undying
<1> HIDE DEF g, s2, n2, r
<1>6. r.ok /\ r.fs = s2 /\ r.ino = n2
  BY <1>3 DEF State
<1> QED
  BY <1>4, <1>5, <1>6 DEF r, s1

\* A tool runs when no unit is open and leaves none.
LEMMA RunsKeeps ==
  ASSUME MultiInv, UNCHANGED inst, NEW call, call # <<>>, NEW r, Runs(call, r), Disk(r.fs, r.ino),
         count.crashes = 0 => r.ok /\ Undying(Closed, r.fs, r.ino)
  PROVE  MultiInv'
<1> DEFINE q == [f |-> Closed, fs |-> r.fs, ino |-> r.ino, ok |-> r.ok]
<1>1. /\ Counts("tools", MaxTools) /\ fh' = Closed /\ fs' = r.fs /\ ino' = r.ino
      /\ ret' = Returned(call, 0, 0, ~r.ok)
  BY DEF Runs
<1>2. count' \in [Bounded -> Nat] /\ count'.crashes = count.crashes
  BY <1>1, CountUp DEF Bounded
<1>3. q.f = Closed /\ q.fs = r.fs /\ q.ino = r.ino /\ q.ok = r.ok
  OBVIOUS
<1> HIDE DEF q
<1>4. Kept(q)
  <2>1. Filed(Closed, r.fs, r.ino)
    BY ClosedIs DEF Filed
  <2> QED
    BY <1>3, <2>1 DEF Kept
<1> DEFINE res == Result(q, 0, 0)
<1>5. res.r = q /\ res.krep = 0 /\ res.len = 0
  BY DEF Result
<1> HIDE DEF res
<1>6. Becomes(call, res)
  BY <1>1, <1>3, <1>5 DEF Becomes
<1> QED
  BY <1>2, <1>4, <1>5, <1>6, BecomesKeeps

\* Where tools other than that of the index are run, main files are their own.
LEMMA SolidAll ==
  ASSUME OrdinaryUse, inst \in Instances, NEW x \in {"copy", "merge", "remove"}, x \in Tools
  PROVE  \A m \in Mains : Solid(m)
BY DEF OrdinaryUse, Solid, Tools

\* A link to a native file as a main file.
LEMMA LinkMain ==
  ASSUME NEW s, NEW n, Disk(s, n), NEW t \in Mains, Main(t) \notin DOMAIN s, NEW k \in DOMAIN n, n[k].kind = "PURE"
  PROVE  Disk(Put(s, Main(t), k), n) /\ (Undying(Closed, s, n) => Undying(Closed, Put(s, Main(t), k), n))
<1> DEFINE s2 == Put(s, Main(t), k)
<1>1. Main(t) \in Mains \X Nat /\ Main(t)[2] = 0
  BY MainIs
<1>2. Grows(s, n, s2, n)
  BY <1>1, PutGrows
<1>3. DOMAIN s2 = DOMAIN s \cup {Main(t)}
  BY DEF Put
<1> HIDE DEF s2
<1>4. /\ Disk(s2, n)
      /\ \A m \in Mains : HasMain(s2, n, m) <=> HasMain(s, n, m)
      /\ \A m \in Mains : HasMain(s2, n, m) => n[s2[Main(m)]] = n[s[Main(m)]]
  BY <1>2, DiskGrows
<1>5. ASSUME Undying(Closed, s, n), "merge" \notin Tools PROVE Owned(Closed, s2, n)
  <2>1. \A p \in DOMAIN s : p[2] > 0 => HasMain(s, n, p[1]) /\ \E y \in Range(n[s[Main(p[1])]].files) : y.path = p
    BY <1>5, ClosedIs DEF Undying, Owned
  <2>2. \A p \in DOMAIN s : p[1] \in Mains
    <3>1. Typed(s, n)
      BY DEF Disk
    <3> QED
      BY <3>1, TypedIs
  <2>3. \A p \in DOMAIN s2 : p[2] > 0 => HasMain(s2, n, p[1]) /\ \E y \in Range(n[s2[Main(p[1])]].files) : y.path = p
    <3> SUFFICES ASSUME NEW p \in DOMAIN s2, p[2] > 0
                 PROVE  HasMain(s2, n, p[1]) /\ \E y \in Range(n[s2[Main(p[1])]].files) : y.path = p
      OBVIOUS
    <3>1. p \in DOMAIN s
      BY <1>1, <1>3
    <3> QED
      BY <1>4, <2>1, <2>2, <3>1
  <2> QED
    BY <2>3, ClosedIs DEF Owned
<1> QED
  BY <1>4, <1>5, ClosedIs DEF Undying, s2

LEMMA CopyKeeps ==
  ASSUME OrdinaryUse, MultiInv, NEW m \in Mains, NEW t \in Mains, CopyTo(m, t), UNCHANGED inst
  PROVE  MultiInv'
<1>1. m \in Sources /\ Free(t) /\ Runs(<<"copy", m, t>>, Copy(m, t)) /\ ~fh.open /\ "copy" \in Tools
  BY DEF CopyTo, Runs
<1>2. /\ Disk(fs, ino) /\ inst \in Instances
      /\ count.crashes = 0 => Undying(Closed, fs, ino)
  BY <1>1, ClosedNow
<1>3. Solid(m) /\ Solid(t)
  BY <1>1, <1>2, SolidAll
<1>4. Grok(m) \in {"PURE", "ALTM"} /\ Main(t) \notin DOMAIN fs
  BY <1>1, <1>2, GrokIs DEF Sources, Free
<1>5. /\ Disk(Copy(m, t).fs, Copy(m, t).ino)
      /\ count.crashes = 0 => Copy(m, t).ok /\ Undying(Closed, Copy(m, t).fs, Copy(m, t).ino)
  <2>1. CASE Grok(m) = "PURE"
    <3> DEFINE s == Put(fs, Main(t), fs[Main(m)])
    <3>1. Copy(m, t) = State(Closed, s, ino)
      BY <2>1 DEF Copy
    <3>2. fs[Main(m)] \in DOMAIN ino /\ ino[fs[Main(m)]].kind = "PURE"
      BY <1>2, <2>1, GrokIs
    <3>3. Disk(s, ino) /\ (Undying(Closed, fs, ino) => Undying(Closed, s, ino))
      BY <1>2, <1>4, <3>2, LinkMain
    <3> HIDE DEF s
    <3>4. Copy(m, t).ok /\ Copy(m, t).fs = s /\ Copy(m, t).ino = ino
      BY <3>1 DEF State
    <3> QED
      BY <1>2, <3>3, <3>4
  <2>2. CASE Grok(m) = "ALTM"
    <3> DEFINE src == Read(m)
               files == src.files
               l == LinkedTo(fs, t, files)
               f == [src EXCEPT !.m = t, !.files = l.files]
               r == WriteHdr(State(f, l.fs, ino))
    <3>1. Copy(m, t) = IF l.ok THEN r ELSE Abort(State(Closed, IF Unlinks(ToolForm) THEN fs ELSE l.fs, ino))
      BY <2>2 DEF Copy
    <3>2. src \in Units /\ src.open /\ src.m = m /\ src.w = 0 /\ src.unlink
      BY Zenon, <1>2, <2>2, ReadIs
    <3>3. /\ \A k \in DOMAIN files : /\ files[k].form = "any" /\ files[k].at = 0 /\ ~files[k].dead
                                     /\ files[k].path \in DOMAIN fs /\ files[k].path[2] > 0
      <4> DEFINE x == ino[fs[Main(m)]]
      <4>1. \A k \in DOMAIN src.files : /\ src.files[k].path = x.files[k].path /\ src.files[k].form = "any"
                                        /\ src.files[k].at = 0 /\ ~src.files[k].dead
        BY Zenon, <1>2, <2>2, ReadIs
      <4>2. \A k \in DOMAIN files : files[k].path \in DOMAIN fs /\ files[k].path[1] = m /\ files[k].path[2] > 0
        BY Zenon, <1>2, <1>3, <2>2, ReadIs
      <4> HIDE DEF src, x
      <4> QED
        BY <4>1, <4>2
    <3>4. /\ \A i \in DOMAIN src.arts : /\ src.arts[i].name \in Names /\ src.arts[i].namf \in Names
                                        /\ src.arts[i].ifh \in DOMAIN files
                                        /\ ino[fs[files[src.arts[i].ifh].path]].art[src.arts[i].namf] # Nothing
      <4>1. \A i \in DOMAIN src.arts : src.arts[i].name \in Names /\ src.arts[i].namf \in Names /\ src.arts[i].ifh \in DOMAIN files
        BY Zenon, <1>2, <2>2, ReadIs
      <4>2. \A i \in DOMAIN src.arts : ino[fs[files[src.arts[i].ifh].path]].art[src.arts[i].namf] # Nothing
        BY Zenon, <1>2, <1>3, <2>2, ReadIs
      <4> HIDE DEF src, files
      <4> QED
        BY Zenon, <4>1, <4>2
    <3>5. \A i, j \in DOMAIN src.arts : src.arts[i].name = src.arts[j].name => i = j
      BY Zenon, <1>2, <2>2, ReadIs
    <3> HIDE DEF src
    <3>6. Linkable(fs, ino, files)
      <4>1. files \in Seq(FileRecs)
        BY <3>2, UnitIs
      <4>2. \A k \in DOMAIN files : ino[fs[files[k].path]].kind = "PURE"
        BY <1>2, <3>3 DEF Disk
      <4> QED
        BY <3>3, <4>1, <4>2 DEF Linkable
    <3>7. l.ok /\ LinksAre(l, fs, t, files) /\ l.files \in Seq(FileRecs)
      BY <1>2, <3>6, LinkedToIs
    <3> HIDE DEF files
    <3>8. f \in Units /\ f.m = t /\ f.unlink /\ f.files = l.files /\ f.arts = src.arts
      <4> HIDE DEF l
      <4> QED
        BY <3>2, <3>7 DEF Units
    <3>9. LinkUnit(f, fs, ino, t, files)
      <4>1. DOMAIN l.files = DOMAIN files /\ \A k \in DOMAIN files : l.files[k].form = "any" /\ l.files[k].at = 0 /\ ~l.files[k].dead
        BY <3>7 DEF LinksAre
      <4>2. f.files = l.files
        BY <3>8
      <4> HIDE DEF f
      <4>3. Live(f) \subseteq DOMAIN src.arts
        BY <3>8 DEF Live
      <4>4. \A i \in Live(f) : /\ f.arts[i].ifh \in DOMAIN files /\ f.arts[i].namf \in Names
                               /\ ino[fs[files[f.arts[i].ifh].path]].art[f.arts[i].namf] # Nothing
        BY Zenon, <3>4, <3>8, <4>3
      <4>5. \A i, j \in Live(f) : f.arts[i].name = f.arts[j].name => i = j
        BY <3>5, <3>8, <4>3
      <4> QED
        BY Zenon, <3>8, <4>1, <4>2, <4>4, <4>5 DEF LinkUnit
    <3>10. r.ok /\ Disk(r.fs, r.ino) /\ (Undying(Closed, fs, ino) => Undying(Closed, r.fs, r.ino))
      <4> HIDE DEF f
      <4> QED
        BY <1>2, <1>3, <1>4, <3>6, <3>9, LinkHeader
    <3> HIDE DEF r, l
    <3> QED
      BY <1>2, <3>1, <3>7, <3>10
  <2> QED
    BY <1>4, <2>1, <2>2
<1>6. <<"copy", m, t>> # <<>>
  OBVIOUS
<1> QED
  BY <1>1, <1>5, <1>6, RunsKeeps

\* A main file and its sub-files are removed.
LEMMA DropUndying ==
  ASSUME NEW s, NEW n, Undying(Closed, s, n), NEW m, NEW P, \A p \in P : p[1] = m,
         "merge" \notin Tools => \A p \in DOMAIN s \ P : p[1] = m => p[2] = 0
  PROVE  Undying(Closed, Drop(s, P), n)
<1> DEFINE s2 == Drop(s, P)
<1>1. DOMAIN s2 = DOMAIN s \ P /\ \A q \in DOMAIN s \ P : s2[q] = s[q]
  BY Zenon, DropIs
<1> HIDE DEF s2
<1>2. ASSUME "merge" \notin Tools PROVE Owned(Closed, s2, n)
  <2>1. \A p \in DOMAIN s : p[2] > 0 => HasMain(s, n, p[1]) /\ \E y \in Range(n[s[Main(p[1])]].files) : y.path = p
    BY <1>2, ClosedIs DEF Undying, Owned
  <2>2. \A p \in DOMAIN s2 : p[2] > 0 => HasMain(s2, n, p[1]) /\ \E y \in Range(n[s2[Main(p[1])]].files) : y.path = p
    <3> SUFFICES ASSUME NEW p \in DOMAIN s2, p[2] > 0
                 PROVE  HasMain(s2, n, p[1]) /\ \E y \in Range(n[s2[Main(p[1])]].files) : y.path = p
      OBVIOUS
    <3>1. p \in DOMAIN s /\ p \notin P /\ p[1] # m
      BY <1>1, <1>2
    <3>2. HasMain(s, n, p[1]) /\ \E y \in Range(n[s[Main(p[1])]].files) : y.path = p
      BY <2>1, <3>1
    <3>3. Main(p[1]) \notin P
      <4>1. Main(p[1])[1] = p[1]
        BY DEF Main
      <4> QED
        BY <3>1, <4>1
    <3>4. Main(p[1]) \in DOMAIN s2 /\ s2[Main(p[1])] = s[Main(p[1])]
      BY <1>1, <3>2, <3>3 DEF HasMain
    <3> QED
      BY <3>2, <3>4 DEF HasMain
  <2> QED
    BY <2>2, ClosedIs DEF Owned
<1> QED
  BY <1>2, ClosedIs DEF Undying, s2

LEMMA RemoveKeeps ==
  ASSUME OrdinaryUse, MultiInv, NEW m \in Mains, RemoveOf(m), UNCHANGED inst
  PROVE  MultiInv'
<1>1. m \in Sources /\ Runs(<<"remove", m>>, RemoveFiles(m)) /\ ~fh.open /\ "remove" \in Tools
  BY DEF RemoveOf, Runs
<1>2. /\ Disk(fs, ino) /\ inst \in Instances
      /\ count.crashes = 0 => Undying(Closed, fs, ino)
  BY <1>1, ClosedNow
<1>3. Solid(m)
  BY <1>1, <1>2, SolidAll
<1>4. Grok(m) \in {"PURE", "ALTM"}
  BY <1>1 DEF Sources
<1> DEFINE r == RemoveFiles(m)
<1>5. PICK P : /\ r = State(Closed, Drop(fs, P), ino) /\ Main(m) \in P /\ \A p \in P : p[1] = m
               /\ Grok(m) = "PURE" => P = {Main(m)}
               /\ Grok(m) = "ALTM" => \A y \in Range(ino[fs[Main(m)]].files) : y.path \in P
  <2>1. CASE Grok(m) = "PURE"
    <3>1. r = State(Closed, Drop(fs, {Main(m)}), ino)
      BY <2>1 DEF RemoveFiles
    <3>2. Main(m)[1] = m
      BY MainIs
    <3> HIDE DEF r
    <3> QED
      BY <2>1, <3>1, <3>2
  <2>2. CASE Grok(m) = "ALTM"
    <3> DEFINE f == Read(m)
               x == ino[fs[Main(m)]]
               R == Range(f.files)
               P == {y.path : y \in R} \cup {Main(m)}
    <3>1. f \in Units /\ DOMAIN f.files = DOMAIN x.files
      BY Zenon, <1>2, <2>2, ReadIs
    <3>2. \A k \in DOMAIN f.files : /\ f.files[k].path = x.files[k].path /\ f.files[k].form = "any"
                                    /\ f.files[k].at = 0 /\ ~f.files[k].dead
      BY Zenon, <1>2, <2>2, ReadIs
    <3>3. \A k \in DOMAIN f.files : f.files[k].path \in DOMAIN fs /\ f.files[k].path[1] = m /\ f.files[k].path[2] > 0
      BY Zenon, <1>2, <1>3, <2>2, ReadIs
    <3>4. r = IF \A y \in R : Resolves(y.form) /\ y.path \in DOMAIN fs THEN State(Closed, Drop(fs, P), ino) ELSE Abort(Here)
      BY <2>2 DEF RemoveFiles
    <3> HIDE DEF f, x, r
    <3>5. \A y \in R : Resolves(y.form) /\ y.path \in DOMAIN fs /\ y.path[1] = m
      BY <3>2, <3>3, FormsAre DEF Range
    <3>6. \A y \in Range(x.files) : \E z \in R : z.path = y.path
      BY <3>1, <3>2 DEF Range
    <3> HIDE DEF R
    <3>7. r = State(Closed, Drop(fs, P), ino)
      BY <3>4, <3>5
    <3>8. Main(m)[1] = m
      BY MainIs
    <3>9. (\A p \in P : p[1] = m) /\ (\A y \in Range(x.files) : y.path \in P) /\ Main(m) \in P
      BY <3>5, <3>6, <3>8
    <3> HIDE DEF P
    <3> QED
      BY <2>2, <3>7, <3>9 DEF x
  <2> QED
    BY <1>4, <2>1, <2>2
<1> HIDE DEF r
<1>6. Disk(Drop(fs, P), ino)
  <2>1. \A m2 \in Mains : Main(m2) \in DOMAIN fs \ P /\ Solid(m2) => \A p \in P : p[1] = m2 => p[2] = 0
    BY <1>5
  <2> QED
    BY <1>2, <2>1, DropDisk
<1>7. Undying(Closed, fs, ino) => Undying(Closed, Drop(fs, P), ino)
  <2> SUFFICES ASSUME Undying(Closed, fs, ino) PROVE Undying(Closed, Drop(fs, P), ino)
    OBVIOUS
  <2>1. ASSUME "merge" \notin Tools, NEW p \in DOMAIN fs \ P, p[1] = m PROVE p[2] = 0
    <3>1. p[2] \in Nat
      <4>1. Typed(fs, ino)
        BY <1>2 DEF Disk
      <4>2. p \in Mains \X Nat
        BY <4>1, TypedIs
      <4> QED
        BY <4>2
    <3>2. CASE p[2] > 0
      <4>1. HasMain(fs, ino, m) /\ \E y \in Range(ino[fs[Main(m)]].files) : y.path = p
        BY <2>1, <3>2, ClosedIs DEF Undying, Owned
      <4>2. Grok(m) = "ALTM"
        BY <1>2, <4>1, GrokIs
      <4> QED
        BY <1>5, <4>1, <4>2
    <3> QED
      BY <3>1, <3>2
  <2> QED
    BY Zenon, <1>5, <2>1, DropUndying
<1>8. r.ok /\ r.fs = Drop(fs, P) /\ r.ino = ino
  BY <1>5 DEF State
<1>9. <<"remove", m>> # <<>>
  OBVIOUS
<1> QED
  BY Zenon, <1>1, <1>2, <1>6, <1>7, <1>8, <1>9, RunsKeeps DEF r

-----------------------------------------------------------------------------
(* lfiouv_mixed_lfi: two main files read as one. *)

\* Sub-files and the entries of the articles in them, off being the number of
\* sub-files before these.
SourceOK(files, arts, off) ==
  /\ files \in Seq(FileRecs) /\ arts \in Seq(EntryRecs)
  /\ \A k \in DOMAIN files : files[k].form = "any" /\ files[k].at = 0 /\ ~files[k].dead
  /\ \A i \in DOMAIN arts : /\ arts[i].name \in Names /\ arts[i].namf \in Names
                            /\ arts[i].ifh - off \in DOMAIN files
\* The sub-files are there and have the articles.
SourceThere(files, arts, off, s, n) ==
  /\ \A k \in DOMAIN files : files[k].path \in DOMAIN s /\ n[s[files[k].path]].kind = "PURE"
  /\ \A i \in DOMAIN arts : n[s[files[arts[i].ifh - off].path]].art[arts[i].namf] # Nothing

LEMMA SourceIs ==
  ASSUME Disk(fs, ino), NEW m \in Sources, m \in Mains, NEW off \in Nat
  PROVE  /\ SourceOK(FilesOf(m), EntriesOf(m, off), off)
         /\ Solid(m) => SourceThere(FilesOf(m), EntriesOf(m, off), off, fs, ino)
<1> DEFINE files == FilesOf(m)
           arts == EntriesOf(m, off)
           x == ino[fs[Main(m)]]
<1>1. Grok(m) \in {"PURE", "ALTM"}
  BY DEF Sources
<1>2. CASE Grok(m) = "PURE"
  <2>1. x \in SubInodes /\ x.kind = "PURE" /\ Main(m) \in DOMAIN fs
    BY <1>2, GrokIs
  <2> DEFINE y == SubFile(Main(m), "any", 0)
  <2>2. files = <<y>> /\ arts = Listed(x, off + 1)
    BY <1>2 DEF FilesOf, EntriesOf
  <2>3. y \in FileRecs /\ y.path = Main(m) /\ y.form = "any" /\ y.at = 0 /\ ~y.dead
    BY MainIs DEF SubFile, FileRecs, Forms
  <2>4. off + 1 \in Nat
    OBVIOUS
  <2>5. /\ Listed(x, off + 1) \in Seq(EntryRecs)
        /\ \A i \in DOMAIN Listed(x, off + 1) :
             LET e == Listed(x, off + 1)[i]
             IN  e.name \in Names /\ e.namf = e.name /\ e.ifh = off + 1 /\ x.art[e.name] # Nothing
    BY Zenon, <2>1, <2>4, ListedIs
  <2> HIDE DEF files, arts, y
  <2>6. files \in Seq(FileRecs) /\ DOMAIN files = {1} /\ files[1] = y
    BY <2>2, <2>3
  <2>7. \A i \in DOMAIN arts : /\ arts[i].name \in Names /\ arts[i].namf = arts[i].name /\ arts[i].ifh - off = 1
                               /\ x.art[arts[i].name] # Nothing
    BY <2>2, <2>5
  <2> HIDE DEF x
  <2>8. SourceOK(files, arts, off)
    BY <2>2, <2>3, <2>5, <2>6, <2>7 DEF SourceOK
  <2>9. SourceThere(files, arts, off, fs, ino)
    BY <2>1, <2>3, <2>6, <2>7 DEF SourceThere, x
  <2> QED
    BY <2>8, <2>9 DEF files, arts
<1>3. CASE Grok(m) = "ALTM"
  <2> DEFINE f == Read(m)
  <2>1. f \in Units
    BY Zenon, <1>3, ReadIs
  <2>2. \A k \in DOMAIN f.files : /\ f.files[k].path = x.files[k].path /\ f.files[k].form = "any"
                                  /\ f.files[k].at = 0 /\ ~f.files[k].dead
    BY Zenon, <1>3, ReadIs
  <2>3. \A i \in DOMAIN f.arts : f.arts[i].name \in Names /\ f.arts[i].namf \in Names /\ f.arts[i].ifh \in DOMAIN f.files
    BY Zenon, <1>3, ReadIs
  <2>4. ASSUME Solid(m)
        PROVE  /\ \A k \in DOMAIN f.files : f.files[k].path \in DOMAIN fs /\ f.files[k].path[1] = m /\ f.files[k].path[2] > 0
               /\ \A i \in DOMAIN f.arts : ino[fs[f.files[f.arts[i].ifh].path]].art[f.arts[i].namf] # Nothing
    BY Zenon, <1>3, <2>4, ReadIs
  <2>5. files = f.files /\ arts = [i \in DOMAIN f.arts |-> [f.arts[i] EXCEPT !.ifh = @ + off]]
    BY <1>3 DEF FilesOf, EntriesOf
  <2> HIDE DEF f, x, files, arts
  <2>6. /\ f.files \in Seq(FileRecs) /\ DOMAIN f.arts = 1 .. Len(f.arts) /\ Len(f.arts) \in Nat
        /\ \A i \in DOMAIN f.arts : f.arts[i] \in EntryRecs
    BY <2>1, UnitIs
  <2>7. DOMAIN arts = DOMAIN f.arts
        /\ \A i \in DOMAIN arts : /\ arts[i] \in EntryRecs /\ arts[i].name = f.arts[i].name /\ arts[i].namf = f.arts[i].namf
                                  /\ arts[i].ifh - off = f.arts[i].ifh
    <3>1. DOMAIN arts = DOMAIN f.arts /\ \A i \in DOMAIN arts : arts[i] = [f.arts[i] EXCEPT !.ifh = @ + off]
      BY <2>5
    <3>2. ASSUME NEW y \in EntryRecs
          PROVE  LET z == [y EXCEPT !.ifh = @ + off]
                 IN  z \in EntryRecs /\ z.name = y.name /\ z.namf = y.namf /\ z.ifh - off = y.ifh
      BY DEF EntryRecs
    <3> QED
      BY Zenon, <2>6, <3>1, <3>2
  <2>8. arts \in Seq(EntryRecs)
    <3>1. arts \in [1 .. Len(f.arts) -> EntryRecs]
      BY Zenon, <2>5, <2>6, <2>7
    <3> QED
      BY Zenon, <2>6, <3>1, SeqIs
  <2>9. SourceOK(files, arts, off)
    BY <2>2, <2>3, <2>5, <2>6, <2>7, <2>8 DEF SourceOK
  <2>10. ASSUME Solid(m) PROVE SourceThere(files, arts, off, fs, ino)
    <3>1. \A k \in DOMAIN files : files[k].path \in DOMAIN fs /\ ino[fs[files[k].path]].kind = "PURE"
      BY Zenon, <2>4, <2>5, <2>10 DEF Disk
    <3>2. \A i \in DOMAIN arts : ino[fs[files[arts[i].ifh - off].path]].art[arts[i].namf] # Nothing
      BY Zenon, <2>4, <2>5, <2>7, <2>10
    <3> QED
      BY <3>1, <3>2 DEF SourceThere
  <2> QED
    BY <2>9, <2>10 DEF files, arts
<1> QED
  BY <1>1, <1>2, <1>3

\* Two sources in a row.
LEMMA SourcesIs ==
  ASSUME NEW f1, NEW e1, NEW f2, NEW e2, NEW s, NEW n, SourceOK(f1, e1, 0), SourceOK(f2, e2, Len(f1))
  PROVE  /\ SourceOK(f1 \o f2, e1 \o e2, 0)
         /\ SourceThere(f1, e1, 0, s, n) /\ SourceThere(f2, e2, Len(f1), s, n) => SourceThere(f1 \o f2, e1 \o e2, 0, s, n)
<1> DEFINE F == f1 \o f2
           E == e1 \o e2
<1>1. /\ f1 \in Seq(FileRecs) /\ Len(f1) \in Nat /\ DOMAIN f1 = 1 .. Len(f1)
      /\ f2 \in Seq(FileRecs) /\ Len(f2) \in Nat /\ DOMAIN f2 = 1 .. Len(f2)
      /\ e1 \in Seq(EntryRecs) /\ Len(e1) \in Nat /\ DOMAIN e1 = 1 .. Len(e1)
      /\ e2 \in Seq(EntryRecs) /\ Len(e2) \in Nat /\ DOMAIN e2 = 1 .. Len(e2)
  BY DEF SourceOK
<1>2. /\ F \in Seq(FileRecs) /\ DOMAIN F = 1 .. (Len(f1) + Len(f2))
      /\ \A k \in DOMAIN F : F[k] = IF k <= Len(f1) THEN f1[k] ELSE f2[k - Len(f1)]
  BY <1>1
<1>3. /\ E \in Seq(EntryRecs) /\ DOMAIN E = 1 .. (Len(e1) + Len(e2))
      /\ \A k \in DOMAIN E : E[k] = IF k <= Len(e1) THEN e1[k] ELSE e2[k - Len(e1)]
  BY <1>1
<1> HIDE DEF F, E
<1>4. \A k \in DOMAIN F : (k \in DOMAIN f1 /\ F[k] = f1[k]) \/ (k - Len(f1) \in DOMAIN f2 /\ F[k] = f2[k - Len(f1)])
  BY <1>1, <1>2
<1>5. \A i \in DOMAIN E : (i \in DOMAIN e1 /\ E[i] = e1[i]) \/ (i - Len(e1) \in DOMAIN e2 /\ E[i] = e2[i - Len(e1)])
  BY <1>1, <1>3
<1>6. \A k \in DOMAIN f1 : k \in DOMAIN F /\ F[k] = f1[k]
  BY <1>1, <1>2
<1>7. \A k \in DOMAIN f2 : k + Len(f1) \in DOMAIN F /\ F[k + Len(f1)] = f2[k]
  BY <1>1, <1>2
<1>8. /\ \A k \in DOMAIN f1 : f1[k].form = "any" /\ f1[k].at = 0 /\ ~f1[k].dead
      /\ \A k \in DOMAIN f2 : f2[k].form = "any" /\ f2[k].at = 0 /\ ~f2[k].dead
  BY DEF SourceOK
<1>9. \A i \in DOMAIN e1 : e1[i].name \in Names /\ e1[i].namf \in Names /\ e1[i].ifh - 0 \in DOMAIN f1 /\ e1[i].ifh \in Nat
  <2>1. \A i \in DOMAIN e1 : e1[i].name \in Names /\ e1[i].namf \in Names /\ e1[i].ifh - 0 \in DOMAIN f1
    BY DEF SourceOK
  <2>2. \A i \in DOMAIN e1 : e1[i] \in EntryRecs
    BY <1>1
  <2> QED
    BY <2>1, <2>2 DEF EntryRecs
<1>10. \A i \in DOMAIN e2 : e2[i].name \in Names /\ e2[i].namf \in Names /\ e2[i].ifh - Len(f1) \in DOMAIN f2 /\ e2[i].ifh \in Nat
  <2>1. \A i \in DOMAIN e2 : e2[i].name \in Names /\ e2[i].namf \in Names /\ e2[i].ifh - Len(f1) \in DOMAIN f2
    BY DEF SourceOK
  <2>2. \A i \in DOMAIN e2 : e2[i] \in EntryRecs
    BY <1>1
  <2> QED
    BY <2>1, <2>2 DEF EntryRecs
<1>11. \A i \in DOMAIN e1 : e1[i].ifh - 0 \in DOMAIN F /\ F[e1[i].ifh - 0] = f1[e1[i].ifh - 0]
  BY <1>6, <1>9
<1>12. \A i \in DOMAIN e2 : e2[i].ifh - 0 \in DOMAIN F /\ F[e2[i].ifh - 0] = f2[e2[i].ifh - Len(f1)]
  <2> TAKE i \in DOMAIN e2
  <2> DEFINE k == e2[i].ifh - Len(f1)
  <2>1. k \in DOMAIN f2 /\ k + Len(f1) = e2[i].ifh - 0
    BY <1>1, <1>10
  <2> HIDE DEF k
  <2>2. k + Len(f1) \in DOMAIN F /\ F[k + Len(f1)] = f2[k]
    BY <1>7, <2>1
  <2> QED
    BY <2>1, <2>2 DEF k
<1>13. SourceOK(F, E, 0)
  <2>1. \A k \in DOMAIN F : F[k].form = "any" /\ F[k].at = 0 /\ ~F[k].dead
    BY <1>4, <1>8
  <2>2. \A i \in DOMAIN E : E[i].name \in Names /\ E[i].namf \in Names /\ E[i].ifh - 0 \in DOMAIN F
    BY <1>5, <1>9, <1>10, <1>11, <1>12
  <2> QED
    BY <1>2, <1>3, <2>1, <2>2 DEF SourceOK
<1>14. ASSUME SourceThere(f1, e1, 0, s, n), SourceThere(f2, e2, Len(f1), s, n) PROVE SourceThere(F, E, 0, s, n)
  <2>1. \A k \in DOMAIN F : F[k].path \in DOMAIN s /\ n[s[F[k].path]].kind = "PURE"
    BY <1>4, <1>14 DEF SourceThere
  <2>2. \A i \in DOMAIN e1 : n[s[f1[e1[i].ifh - 0].path]].art[e1[i].namf] # Nothing
    BY <1>14 DEF SourceThere
  <2>3. \A i \in DOMAIN e2 : n[s[f2[e2[i].ifh - Len(f1)].path]].art[e2[i].namf] # Nothing
    BY <1>14 DEF SourceThere
  <2>4. \A i \in DOMAIN E : n[s[F[E[i].ifh - 0].path]].art[E[i].namf] # Nothing
    BY <1>5, <1>11, <1>12, <2>2, <2>3
  <2> QED
    BY <2>1, <2>4 DEF SourceThere
<1> QED
  BY <1>13, <1>14 DEF F, E

\* remove_duplicates: the first entry of each name is left.
LEMMA UniqueIs ==
  ASSUME NEW E \in Seq(EntryRecs)
  PROVE  LET u == Unique(E)
         IN  /\ u \in Seq(EntryRecs) /\ DOMAIN u = DOMAIN E
             /\ \A i \in DOMAIN E : /\ u[i].namf = E[i].namf /\ u[i].ifh = E[i].ifh
                                    /\ u[i].name = Blank \/ (u[i].name = E[i].name /\ ~Later(E, i))
             /\ \A i, j \in DOMAIN E : u[i].name # Blank /\ u[i].name = u[j].name => i = j
<1> DEFINE u == Unique(E)
<1>1. DOMAIN E = 1 .. Len(E) /\ Len(E) \in Nat /\ \A i \in DOMAIN E : E[i] \in EntryRecs
  OBVIOUS
<1>2. DOMAIN u = DOMAIN E /\ \A i \in DOMAIN E : u[i] = IF Later(E, i) THEN [E[i] EXCEPT !.name = Blank] ELSE E[i]
  BY DEF Unique
<1>3. u = [i \in DOMAIN E |-> u[i]]
  BY DEF Unique
<1> HIDE DEF u
<1>4. \A i \in DOMAIN E : /\ u[i] \in EntryRecs /\ u[i].namf = E[i].namf /\ u[i].ifh = E[i].ifh
                          /\ u[i].name = Blank \/ (u[i].name = E[i].name /\ ~Later(E, i))
  <2> TAKE i \in DOMAIN E
  <2>1. ASSUME NEW y \in EntryRecs
        PROVE  LET z == [y EXCEPT !.name = Blank]
               IN  z \in EntryRecs /\ z.name = Blank /\ z.namf = y.namf /\ z.ifh = y.ifh
    BY Zenon DEF EntryRecs
  <2>2. CASE Later(E, i)
    BY Zenon, <1>1, <1>2, <2>1, <2>2
  <2>3. CASE ~Later(E, i)
    BY <1>1, <1>2, <2>3
  <2> QED
    BY <2>2, <2>3
<1>5. u \in Seq(EntryRecs)
  <2>1. u \in [1 .. Len(E) -> EntryRecs]
    BY <1>1, <1>3, <1>4
  <2> QED
    BY <1>1, <2>1, SeqIs
<1>6. \A i, j \in DOMAIN E : u[i].name # Blank /\ u[i].name = u[j].name => i = j
  <2> SUFFICES ASSUME NEW i \in DOMAIN E, NEW j \in DOMAIN E, u[i].name # Blank, u[i].name = u[j].name PROVE i = j
    OBVIOUS
  <2>1. E[i].name = E[j].name /\ ~Later(E, i) /\ ~Later(E, j)
    BY <1>4
  <2>2. ~(i < j) /\ ~(j < i)
    BY <2>1 DEF Later
  <2> QED
    BY <1>1, <2>2
<1> QED
  BY <1>2, <1>4, <1>5, <1>6 DEF u

\* The mark that is not set (lfiouv_mixed_lfi).
Marked(files, D) == [k \in DOMAIN files |-> [files[k] EXCEPT !.dead = k \in D]]
LEMMA MarkedIs ==
  ASSUME NEW files \in Seq(FileRecs), NEW D
  PROVE  LET g == Marked(files, D)
         IN  /\ g \in Seq(FileRecs) /\ DOMAIN g = DOMAIN files
             /\ \A k \in DOMAIN files : g[k].path = files[k].path /\ g[k].form = files[k].form /\ g[k].at = files[k].at
<1> DEFINE g == Marked(files, D)
<1>1. DOMAIN files = 1 .. Len(files) /\ Len(files) \in Nat /\ \A i \in DOMAIN files : files[i] \in FileRecs
  OBVIOUS
<1>2. DOMAIN g = DOMAIN files /\ \A k \in DOMAIN files : g[k] = [files[k] EXCEPT !.dead = k \in D]
  BY DEF Marked
<1>3. g = [k \in DOMAIN files |-> g[k]]
  BY DEF Marked
<1> HIDE DEF g
<1>4. \A k \in DOMAIN files : g[k] \in FileRecs /\ g[k].path = files[k].path /\ g[k].form = files[k].form /\ g[k].at = files[k].at
  <2>1. ASSUME NEW y \in FileRecs, NEW b \in BOOLEAN
        PROVE  LET z == [y EXCEPT !.dead = b]
               IN  z \in FileRecs /\ z.path = y.path /\ z.form = y.form /\ z.at = y.at
    BY DEF FileRecs
  <2> TAKE k \in DOMAIN files
  <2> DEFINE b == k \in D
  <2>2. b \in BOOLEAN
    OBVIOUS
  <2>3. g[k] = [files[k] EXCEPT !.dead = b]
    BY <1>2
  <2> HIDE DEF b
  <2> QED
    BY <1>1, <2>1, <2>2, <2>3
<1>5. g \in Seq(FileRecs)
  <2>1. g \in [1 .. Len(files) -> FileRecs]
    BY <1>1, <1>3, <1>4
  <2> QED
    BY <1>1, <2>1, SeqIs
<1> QED
  BY <1>2, <1>4, <1>5 DEF g

Both(m1, m2) == FilesOf(m1) \o FilesOf(m2)
BothArts(m1, m2) == EntriesOf(m1, 0) \o EntriesOf(m2, Len(FilesOf(m1)))
Pures(m1, m2) ==
  (IF Grok(m1) = "PURE" THEN {1} ELSE {}) \cup (IF Grok(m2) = "PURE" THEN {Len(FilesOf(m1)) + 1} ELSE {})

LEMMA BothIs ==
  ASSUME Disk(fs, ino), NEW m1 \in Mains, NEW m2 \in Mains, m1 \in Sources, m2 \in Sources
  PROVE  /\ SourceOK(Both(m1, m2), BothArts(m1, m2), 0)
         /\ Solid(m1) /\ Solid(m2) => SourceThere(Both(m1, m2), BothArts(m1, m2), 0, fs, ino)
<1> DEFINE f1 == FilesOf(m1)
           e1 == EntriesOf(m1, 0)
           f2 == FilesOf(m2)
           e2 == EntriesOf(m2, Len(f1))
<1>1. SourceOK(f1, e1, 0) /\ (Solid(m1) => SourceThere(f1, e1, 0, fs, ino))
  BY SourceIs
<1>2. Len(f1) \in Nat
  BY <1>1 DEF SourceOK
<1>3. SourceOK(f2, e2, Len(f1)) /\ (Solid(m2) => SourceThere(f2, e2, Len(f1), fs, ino))
  BY <1>2, SourceIs
<1>4. Both(m1, m2) = f1 \o f2 /\ BothArts(m1, m2) = e1 \o e2
  BY DEF Both, BothArts
<1> HIDE DEF f1, e1, f2, e2
<1>5. SourceOK(f1 \o f2, e1 \o e2, 0)
  BY <1>1, <1>3, SourcesIs
<1>6. SourceThere(f1, e1, 0, fs, ino) /\ SourceThere(f2, e2, Len(f1), fs, ino) => SourceThere(f1 \o f2, e1 \o e2, 0, fs, ino)
  BY <1>1, <1>3, SourcesIs
<1> QED
  BY <1>1, <1>3, <1>4, <1>5, <1>6

\* The entries of an index that is made of two, without the later of two of one name.
LEMMA BothArtsAre ==
  ASSUME NEW files, NEW E, SourceOK(files, E, 0)
  PROVE  LET u == Unique(E)
         IN  /\ u \in Seq(EntryRecs)
             /\ \A i \in DOMAIN u : u[i].ifh \in DOMAIN files /\ u[i].namf \in Names
             /\ \A i, j \in DOMAIN u : u[i].name # Blank /\ u[i].name = u[j].name => i = j
             /\ \A s, n : SourceThere(files, E, 0, s, n) => \A i \in DOMAIN u : n[s[files[u[i].ifh].path]].art[u[i].namf] # Nothing
<1> DEFINE u == Unique(E)
<1>1. /\ files \in Seq(FileRecs) /\ E \in Seq(EntryRecs)
      /\ \A i \in DOMAIN E : E[i].name \in Names /\ E[i].namf \in Names /\ E[i].ifh - 0 \in DOMAIN files
  BY DEF SourceOK
<1>2. /\ u \in Seq(EntryRecs) /\ DOMAIN u = DOMAIN E
      /\ \A i \in DOMAIN E : u[i].namf = E[i].namf /\ u[i].ifh = E[i].ifh
      /\ \A i, j \in DOMAIN E : u[i].name # Blank /\ u[i].name = u[j].name => i = j
  BY <1>1, UniqueIs
<1>3. \A i \in DOMAIN E : E[i].ifh - 0 = u[i].ifh
  <2>1. \A i \in DOMAIN E : E[i] \in EntryRecs
    BY <1>1
  <2>2. \A i \in DOMAIN E : E[i].ifh \in Nat
    BY <2>1 DEF EntryRecs
  <2> QED
    BY <1>2, <2>2
<1> HIDE DEF u
<1>4. \A i \in DOMAIN u : u[i].ifh \in DOMAIN files /\ u[i].namf \in Names
  BY <1>1, <1>2, <1>3
<1>5. ASSUME NEW s, NEW n, SourceThere(files, E, 0, s, n)
      PROVE  \A i \in DOMAIN u : n[s[files[u[i].ifh].path]].art[u[i].namf] # Nothing
  <2>1. \A i \in DOMAIN E : n[s[files[E[i].ifh - 0].path]].art[E[i].namf] # Nothing
    BY <1>5 DEF SourceThere
  <2> QED
    BY <1>2, <1>3, <2>1
<1> QED
  BY <1>2, <1>4, <1>5 DEF u

LEMMA MergeKeeps ==
  ASSUME OrdinaryUse, MultiInv, NEW m1 \in Mains, NEW m2 \in Mains, NEW t \in Mains, MergeTo(m1, m2, t), UNCHANGED inst
  PROVE  MultiInv'
<1>1. PICK D : m1 \in Sources /\ m2 \in Sources /\ Free(t) /\ Runs(<<"merge", m1, m2, t>>, Combine(m1, m2, t, TRUE, D))
  BY DEF MergeTo
<1>2. ~fh.open /\ "merge" \in Tools
  BY <1>1 DEF Runs
<1>3. /\ Disk(fs, ino) /\ inst \in Instances
      /\ count.crashes = 0 => Undying(Closed, fs, ino)
  BY <1>2, ClosedNow
<1>4. Solid(m1) /\ Solid(m2) /\ Solid(t)
  BY <1>2, <1>3, SolidAll
<1>5. Main(t) \notin DOMAIN fs
  BY <1>1, <1>3, GrokIs DEF Free
<1> DEFINE files == Both(m1, m2)
           E == BothArts(m1, m2)
           u == Unique(E)
           l == LinkedTo(fs, t, files)
           g == Marked(l.files, D \ Pures(m1, m2))
           f == [New(t, g, u) EXCEPT !.unlink = TRUE]
           q == WriteHdr(State(f, l.fs, ino))
           r == Combine(m1, m2, t, TRUE, D)
<1>6. r = IF ~l.ok THEN Abort(State(Closed, l.fs, ino)) ELSE q
  BY DEF Combine, Both, BothArts, Marked, Pures
<1>7. SourceOK(files, E, 0) /\ SourceThere(files, E, 0, fs, ino)
  BY <1>1, <1>3, <1>4, BothIs
<1> HIDE DEF files, E
<1>8. Linkable(fs, ino, files)
  BY <1>7 DEF SourceOK, SourceThere, Linkable
<1>9. /\ u \in Seq(EntryRecs)
      /\ \A i \in DOMAIN u : u[i].ifh \in DOMAIN files /\ u[i].namf \in Names
      /\ \A i, j \in DOMAIN u : u[i].name # Blank /\ u[i].name = u[j].name => i = j
  BY <1>7, BothArtsAre
<1>10. \A i \in DOMAIN u : ino[fs[files[u[i].ifh].path]].art[u[i].namf] # Nothing
  BY <1>7, BothArtsAre
<1>11. l.ok /\ LinksAre(l, fs, t, files) /\ l.files \in Seq(FileRecs)
  BY <1>3, <1>8, LinkedToIs
<1>12. DOMAIN l.files = DOMAIN files /\ \A k \in DOMAIN files : l.files[k].form = "any" /\ l.files[k].at = 0
  BY <1>11 DEF LinksAre
<1> HIDE DEF u
<1>13. /\ g \in Seq(FileRecs) /\ DOMAIN g = DOMAIN files
       /\ \A k \in DOMAIN files : g[k].path = l.files[k].path /\ g[k].form = "any" /\ g[k].at = 0
  <2> HIDE DEF l
  <2>1. /\ g \in Seq(FileRecs) /\ DOMAIN g = DOMAIN l.files
        /\ \A k \in DOMAIN l.files : g[k].path = l.files[k].path /\ g[k].form = l.files[k].form /\ g[k].at = l.files[k].at
    BY <1>11, MarkedIs
  <2> HIDE DEF g
  <2> QED
    BY <1>12, <2>1
<1> HIDE DEF g
<1>14. f \in Units /\ f.m = t /\ f.unlink /\ f.files = g /\ f.arts = u
  BY <1>9, <1>13 DEF New, Units
<1> HIDE DEF f
<1>15. LinkUnit(f, fs, ino, t, files)
  <2>1. Live(f) \subseteq DOMAIN u /\ \A i \in Live(f) : u[i].name # Blank
    BY <1>14 DEF Live
  <2>2. \A i \in Live(f) : /\ f.arts[i].ifh \in DOMAIN files /\ f.arts[i].namf \in Names
                           /\ ino[fs[files[f.arts[i].ifh].path]].art[f.arts[i].namf] # Nothing
    BY <1>9, <1>10, <1>14, <2>1
  <2>3. \A i, j \in Live(f) : f.arts[i].name = f.arts[j].name => i = j
    BY <1>9, <1>14, <2>1
  <2> QED
    BY <1>2, <1>13, <1>14, <2>2, <2>3 DEF LinkUnit
<1>16. q.ok /\ Disk(q.fs, q.ino) /\ (Undying(Closed, fs, ino) => Undying(Closed, q.fs, q.ino))
  BY <1>3, <1>4, <1>5, <1>8, <1>15, LinkHeader
<1> HIDE DEF q, l
<1>17. r = q
  BY <1>6, <1>11
<1> HIDE DEF r
<1>18. <<"merge", m1, m2, t>> # <<>>
  OBVIOUS
<1>19. Runs(<<"merge", m1, m2, t>>, r)
  BY <1>1 DEF r
<1> QED
  BY Zenon, <1>3, <1>16, <1>17, <1>18, <1>19, RunsKeeps

Formed(files, form) == [k \in DOMAIN files |-> [files[k] EXCEPT !.form = form]]
LEMMA FormedIs ==
  ASSUME NEW files \in Seq(FileRecs)
  PROVE  LET g == Formed(files, "any")
         IN  /\ g \in Seq(FileRecs) /\ DOMAIN g = DOMAIN files
             /\ \A k \in DOMAIN files : g[k].path = files[k].path /\ g[k].form = "any" /\ g[k].at = files[k].at
<1> DEFINE g == Formed(files, "any")
<1>1. DOMAIN files = 1 .. Len(files) /\ Len(files) \in Nat /\ \A i \in DOMAIN files : files[i] \in FileRecs
  OBVIOUS
<1>2. DOMAIN g = DOMAIN files /\ \A k \in DOMAIN files : g[k] = [files[k] EXCEPT !.form = "any"]
  BY DEF Formed
<1>3. g = [k \in DOMAIN files |-> g[k]]
  BY DEF Formed
<1> HIDE DEF g
<1>4. \A k \in DOMAIN files : g[k] \in FileRecs /\ g[k].path = files[k].path /\ g[k].form = "any" /\ g[k].at = files[k].at
  <2>1. ASSUME NEW y \in FileRecs
        PROVE  LET z == [y EXCEPT !.form = "any"]
               IN  z \in FileRecs /\ z.path = y.path /\ z.form = "any" /\ z.at = y.at
    BY Zenon DEF FileRecs, Forms
  <2> TAKE k \in DOMAIN files
  <2>2. g[k] = [files[k] EXCEPT !.form = "any"]
    BY <1>2
  <2> QED
    BY <1>1, <2>1, <2>2
<1>5. g \in Seq(FileRecs)
  <2>1. g \in [1 .. Len(files) -> FileRecs]
    BY <1>1, <1>3, <1>4
  <2> QED
    BY <1>1, <2>1, SeqIs
<1> QED
  BY <1>2, <1>4, <1>5 DEF g

\* A header that unlinks nothing, of a main file that was not there, when no
\* process has died.
LEMMA HdrNewUndying ==
  ASSUME NEW f, NEW s, NEW n, HdrHyp(f, s, n), Lost(f) = {}, Main(f.m) \notin DOMAIN s, Undying(Closed, s, n)
  PROVE  Undying(Closed, HdrFs(f, s, n), HdrIno(f, s, n))
<1> DEFINE s2 == HdrFs(f, s, n)
           n2 == HdrIno(f, s, n)
           x == HdrIndex(f)
           c == Main(f.m)
<1>1. f \in Units /\ f.m \in Mains /\ Disk(s, n) /\ Typed(s, n)
  BY DEF HdrHyp, Units, Disk
<1>2. /\ x \in MainInodes /\ Grew(n, n2, x)
      /\ \A p \in DOMAIN s2 : p # c => p \in DOMAIN s
  BY HdrFilesAre
<1>3. x.kind = "ALTM" /\ c[2] = 0
  BY <1>1, <1>2, MainIs DEF MainInodes
<1> HIDE DEF s2, n2, x
<1>4. Clean(Closed, n2)
  <2>1. /\ \A k \in DOMAIN n : n[k].kind # "UNKN"
        /\ \A k \in DOMAIN n : n[k].kind = "PURE" => n[k].clean
    BY ClosedIs DEF Undying, Clean
  <2>2. \A k \in DOMAIN n2 : n2[k].kind # "UNKN" /\ (n2[k].kind = "PURE" => n2[k].clean)
    BY <1>2, <1>3, <2>1 DEF Grew
  <2> QED
    BY <2>2 DEF Clean
<1>5. ASSUME "merge" \notin Tools PROVE Owned(Closed, s2, n2)
  <2>1. \A p \in DOMAIN s : p[2] > 0 => HasMain(s, n, p[1]) /\ \E y \in Range(n[s[Main(p[1])]].files) : y.path = p
    BY <1>5, ClosedIs DEF Undying, Owned
  <2>2. \A p \in DOMAIN s : p[1] \in Mains
    BY <1>1, TypedIs
  <2>3. \A p \in DOMAIN s2 : p[2] > 0 => HasMain(s2, n2, p[1]) /\ \E y \in Range(n2[s2[Main(p[1])]].files) : y.path = p
    <3> SUFFICES ASSUME NEW p \in DOMAIN s2, p[2] > 0
                 PROVE  HasMain(s2, n2, p[1]) /\ \E y \in Range(n2[s2[Main(p[1])]].files) : y.path = p
      OBVIOUS
    <3>1. p \in DOMAIN s /\ p \in DOMAIN HdrFs(f, s, n)
      BY <1>2, <1>3 DEF s2
    <3>2. p[1] \in Mains /\ HasMain(s, n, p[1]) /\ \E y \in Range(n[s[Main(p[1])]].files) : y.path = p
      BY <2>1, <2>2, <3>1
    <3>3. p[1] # f.m
      BY <3>2 DEF HasMain
    <3> QED
      BY <3>1, <3>2, <3>3, HdrOwnedElsewhere DEF s2, n2
  <2> QED
    BY <2>3, ClosedIs DEF Owned
<1> QED
  BY <1>4, <1>5, ClosedIs DEF Undying, s2, n2

LEMMA IndexKeeps ==
  ASSUME OrdinaryUse, MultiInv, NEW m1 \in Mains, NEW m2 \in Mains, NEW t \in Mains, IndexTo(m1, m2, t), UNCHANGED inst
  PROVE  MultiInv'
<1>1. m1 \in Sources /\ m2 \in Sources /\ Free(t) /\ Runs(<<"index", m1, m2, t>>, Combine(m1, m2, t, FALSE, {}))
  BY DEF IndexTo
<1>2. ~fh.open /\ "index" \in Tools
  BY <1>1 DEF Runs
<1>3. /\ Disk(fs, ino) /\ inst \in Instances
      /\ count.crashes = 0 => Undying(Closed, fs, ino)
  BY <1>2, ClosedNow
<1>4. ~Solid(t)
  BY <1>1, <1>2 DEF Solid, Free
<1>5. Main(t) \notin DOMAIN fs
  BY <1>1, <1>3, GrokIs DEF Free
<1> DEFINE files == Both(m1, m2)
           E == BothArts(m1, m2)
           u == Unique(E)
           l == [fs |-> fs, files |-> [k \in DOMAIN files |-> [files[k] EXCEPT !.form = ToolForm]], ok |-> TRUE]
           g == Marked(l.files, {} \ Pures(m1, m2))
           f == [New(t, g, u) EXCEPT !.unlink = FALSE]
           q == WriteHdr(State(f, l.fs, ino))
           r == Combine(m1, m2, t, FALSE, {})
<1>6. r = IF ~l.ok THEN Abort(State(Closed, l.fs, ino)) ELSE q
  BY DEF Combine, Both, BothArts, Marked, Pures
<1>7. SourceOK(files, E, 0)
  BY <1>1, <1>3, BothIs
<1>8. l.files = Formed(files, "any") /\ l.fs = fs /\ l.ok
  BY FormsAre DEF Formed
<1> HIDE DEF files, E
<1>9. /\ u \in Seq(EntryRecs)
      /\ \A i \in DOMAIN u : u[i].ifh \in DOMAIN files /\ u[i].namf \in Names
      /\ \A i, j \in DOMAIN u : u[i].name # Blank /\ u[i].name = u[j].name => i = j
  BY <1>7, BothArtsAre
<1>10. files \in Seq(FileRecs)
  BY <1>7 DEF SourceOK
<1> HIDE DEF u, l
<1>11. l.files \in Seq(FileRecs) /\ DOMAIN l.files = DOMAIN files /\ \A k \in DOMAIN files : l.files[k].form = "any"
  BY <1>8, <1>10, FormedIs
<1>12. /\ g \in Seq(FileRecs) /\ DOMAIN g = DOMAIN files /\ \A k \in DOMAIN files : g[k].form = "any"
  <2>1. /\ g \in Seq(FileRecs) /\ DOMAIN g = DOMAIN l.files
        /\ \A k \in DOMAIN l.files : g[k].path = l.files[k].path /\ g[k].form = l.files[k].form /\ g[k].at = l.files[k].at
    BY <1>11, MarkedIs
  <2> HIDE DEF g
  <2> QED
    BY <1>11, <2>1
<1> HIDE DEF g
<1>13. f \in Units /\ f.m = t /\ ~f.unlink /\ f.files = g /\ f.arts = u
  BY <1>9, <1>12 DEF New, Units
<1> HIDE DEF f
<1>14. Lost(f) = {}
  BY <1>13 DEF Lost
<1>15. Live(f) \subseteq DOMAIN u /\ \A i \in Live(f) : u[i].name # Blank
  BY <1>13 DEF Live
<1>16. \A i \in Live(f) : f.arts[i].ifh \in DOMAIN f.files /\ f.arts[i].namf \in Names
  BY <1>9, <1>12, <1>13, <1>15
<1>17. \A i, j \in Live(f) : f.arts[i].name = f.arts[j].name => i = j
  BY <1>9, <1>13, <1>15
<1>18. HdrHyp(f, fs, ino)
  BY <1>3, <1>5, <1>13, <1>14, <1>16 DEF HdrHyp
<1>19. q = State(HdrFile(f), HdrFs(f, fs, ino), HdrIno(f, fs, ino))
  BY <1>8, <1>13, <1>14, <1>16, WriteHdrIs
<1>20. q.ok /\ q.fs = HdrFs(f, fs, ino) /\ q.ino = HdrIno(f, fs, ino)
  BY <1>19 DEF State
<1>21. Disk(q.fs, q.ino)
  <2>1. \A k \in DOMAIN f.files : f.files[k].form = "any"
    BY <1>12, <1>13
  <2> QED
    BY <1>4, <1>13, <1>14, <1>17, <1>18, <1>20, <2>1, HdrDisk
<1>22. Undying(Closed, fs, ino) => Undying(Closed, q.fs, q.ino)
  BY <1>5, <1>13, <1>14, <1>18, <1>20, HdrNewUndying
<1> HIDE DEF q
<1>23. r = q
  BY <1>6, <1>8
<1> HIDE DEF r
<1>24. <<"index", m1, m2, t>> # <<>>
  OBVIOUS
<1>25. Runs(<<"index", m1, m2, t>>, r)
  BY <1>1 DEF r
<1> QED
  BY <1>3, <1>20, <1>21, <1>22, <1>23, <1>24, <1>25, RunsKeeps

-----------------------------------------------------------------------------
(* The process dies. *)

LEMMA DeadKeeps ==
  ASSUME MultiInv, NEW s, NEW n, Dead(s, n), Disk(s, n), UNCHANGED inst
  PROVE  MultiInv'
<1>1. Counts("crashes", MaxCrashes) /\ fh' = Closed /\ fs' = s /\ ino' = n
  BY DEF Dead
<1>2. count' \in [Bounded -> Nat] /\ count'.crashes # 0
  BY <1>1, CountUp DEF Bounded
<1>3. MultiTypes'
  BY <1>2 DEF MultiInv, MultiTypes
<1>4. Disk(fs, ino)'
  BY <1>1, DiskNow
<1> QED
  BY <1>1, <1>2, <1>3, <1>4 DEF MultiInv

\* A main file that is not whole.
LEMMA TornDisk ==
  ASSUME NEW s, NEW n, Disk(s, n), NEW m \in Mains, HasMain(s, n, m)
  PROVE  Disk(s, [n EXCEPT ![s[Main(m)]] = Torn])
<1> DEFINE at == s[Main(m)]
           n2 == [n EXCEPT ![at] = Torn]
<1>1. /\ Typed(s, n)
      /\ \A p \in DOMAIN s : p[2] > 0 => n[s[p]].kind = "PURE"
      /\ \A p, q \in DOMAIN s : s[p] = s[q] /\ p # q => n[s[p]].kind = "PURE"
      /\ \A k \in Mains : HasMain(s, n, k) => IndexOK(s, n, k, n[s[Main(k)]])
  BY DEF Disk
<1>2. Main(m) \in DOMAIN s /\ n[at].kind = "ALTM"
  BY DEF HasMain
<1>3. /\ n \in Seq(Inodes) /\ Len(n) \in Nat /\ DOMAIN n = 1 .. Len(n)
      /\ \A p \in DOMAIN s : s[p] \in DOMAIN n
  BY <1>1, TypedIs DEF Typed
<1>4. at \in DOMAIN n
  BY <1>2, <1>3
<1>5. Torn \in Inodes /\ Torn.kind = "UNKN"
  BY DEF Inodes, Torn
<1> HIDE DEF at
<1>6. /\ n2 \in Seq(Inodes) /\ Len(n2) = Len(n) /\ n2[at] = Torn
      /\ \A k \in DOMAIN n : k # at => n2[k] = n[k]
  BY <1>3, <1>4, <1>5
<1> HIDE DEF n2
<1>7. Typed(s, n2)
  BY <1>1, <1>6 DEF Typed
<1>8. \A p \in DOMAIN s : n[s[p]].kind = "PURE" => s[p] # at /\ n2[s[p]] = n[s[p]]
  BY <1>2, <1>3, <1>6
<1>9. \A p \in DOMAIN s : p[2] > 0 => n2[s[p]] = n[s[p]] /\ n2[s[p]].kind = "PURE"
  BY <1>1, <1>8
<1>10. \A p, q \in DOMAIN s : s[p] = s[q] /\ p # q => n2[s[p]].kind = "PURE"
  BY <1>1, <1>8
<1>11. \A k \in Mains : HasMain(s, n2, k) => IndexOK(s, n2, k, n2[s[Main(k)]])
  <2> SUFFICES ASSUME NEW k \in Mains, HasMain(s, n2, k) PROVE IndexOK(s, n2, k, n2[s[Main(k)]])
    OBVIOUS
  <2>1. Main(k) \in DOMAIN s /\ n2[s[Main(k)]].kind = "ALTM"
    BY DEF HasMain
  <2>2. s[Main(k)] # at
    BY <1>5, <1>6, <2>1
  <2>3. n2[s[Main(k)]] = n[s[Main(k)]]
    BY <1>3, <1>6, <2>1, <2>2
  <2>4. IndexOK(s, n, k, n[s[Main(k)]])
    BY <1>1, <2>1, <2>3 DEF HasMain
  <2>5. \A p \in DOMAIN s : p[1] = k /\ p[2] > 0 =>
          p \in DOMAIN s /\ \A a \in Names : n[s[p]].art[a] # Nothing => n2[s[p]].art[a] # Nothing
    BY <1>9
  <2> QED
    BY <2>3, <2>4, <2>5, IndexStays
<1> QED
  BY Zenon, <1>7, <1>9, <1>10, <1>11 DEF Disk, n2, at

LEMMA DeathKeeps ==
  ASSUME OrdinaryUse, MultiInv, Dies \/ DiesInHeader \/ DiesInClose, UNCHANGED inst
  PROVE  MultiInv'
<1>1. fh.open
  BY DEF Dies, DiesInHeader, DiesInClose, Dead
<1>2. /\ OpenOK(fh, fs, ino) /\ Session(fh, fs, ino) /\ Disk(fs, ino) /\ fh \in Units /\ Here = State(fh, fs, ino)
      /\ inst \in Instances
  BY <1>1, UnitNow
<1>3. HasMain(fs, ino, fh.m) /\ fh.m \in Opened /\ fh.m \in Mains
  BY <1>2, UnitIs DEF OpenOK
<1>4. CASE Dies
  BY <1>2, <1>4, DeadKeeps DEF Dies
<1>5. CASE DiesInHeader
  <2>1. Dead(fs, [ino EXCEPT ![fs[Main(fh.m)]] = Torn])
    BY <1>5 DEF DiesInHeader
  <2>2. Disk(fs, [ino EXCEPT ![fs[Main(fh.m)]] = Torn])
    BY <1>2, <1>3, TornDisk
  <2> QED
    BY <2>1, <2>2, DeadKeeps
<1>6. CASE DiesInClose
  <2> DEFINE r == WriteHdr(Here)
  <2>1. Dead(r.fs, r.ino)
    BY <1>6 DEF DiesInClose
  <2>2. HdrHyp(fh, fs, ino) /\ r = State(HdrFile(fh), HdrFs(fh, fs, ino), HdrIno(fh, fs, ino))
    BY <1>2, <1>3, SessionHdr
  <2>3. r.fs = HdrFs(fh, fs, ino) /\ r.ino = HdrIno(fh, fs, ino)
    BY <2>2 DEF State
  <2>4. Solid(fh.m)
    BY <1>2, <1>3, SolidOpened
  <2>5. \A i, j \in Live(fh) : fh.arts[i].name = fh.arts[j].name => i = j
    BY Zenon, <1>2 DEF Session
  <2>6. \A k \in DOMAIN fh.files : fh.files[k].form = "any"
    BY Zenon, <1>2 DEF Session
  <2>7. Disk(r.fs, r.ino)
    BY <1>2, <2>2, <2>3, <2>4, <2>5, <2>6, HdrDisk
  <2> QED
    BY <2>1, <2>7, DeadKeeps
<1> QED
  BY <1>4, <1>5, <1>6

-----------------------------------------------------------------------------
(* The initial states. *)

LEMMA InitHolds ==
  ASSUME Init
  PROVE  MultiInv
<1> DEFINE Starts == {Native([n \in Names |-> IF n \in S THEN <<1, 0>> ELSE Nothing], Cardinality(S), TRUE) : S \in SUBSET Names \ {{}}}
<1>1. PICK P \in SUBSET Natives :
        /\ fs = [p \in {Main(m) : m \in P} |-> CHOOSE k \in DOMAIN SetToSeq(P) : Main(SetToSeq(P)[k]) = p]
        /\ ino \in [DOMAIN SetToSeq(P) -> Starts]
  BY DEF Init
<1>2. fh = Closed /\ inst \in Instances /\ ret = NoReturn /\ count = [x \in Bounded |-> 0]
  BY DEF Init, Bounded
<1>3. P \subseteq Mains /\ IsFiniteSet(P)
  <2>1. P \subseteq Mains
    BY <1>1, <1>2, InstancesAssumption DEF Natives
  <2> QED
    BY <2>1, NamesAssumption, FS_Subset DEF NamesAssumption
<1> DEFINE q == SetToSeq(P)
           c == Cardinality(P)
<1>4. /\ q \in [1 .. c -> P] /\ c \in Nat
      /\ \A i, j \in 1 .. c : q[i] = q[j] => i = j
      /\ \A x \in P : \E i \in 1 .. c : q[i] = x
  BY <1>3, SetToSeqIs
<1>5. \A y \in Starts : y \in SubInodes /\ y.clean
  <2> SUFFICES ASSUME NEW S \in SUBSET Names
               PROVE  LET y == Native([n \in Names |-> IF n \in S THEN <<1, 0>> ELSE Nothing], Cardinality(S), TRUE)
                      IN  y \in SubInodes /\ y.clean
    OBVIOUS
  <2>1. Cardinality(S) \in Nat
    BY NamesAssumption, FS_Subset, FS_CardinalityType DEF NamesAssumption
  <2>2. <<1, 0>> \in Values
    BY DEF Values
  <2> QED
    BY <2>1, <2>2 DEF Native, SubInodes
<1> HIDE DEF Starts, q, c
<1>6. /\ fs = [p \in {Main(m) : m \in P} |-> CHOOSE k \in 1 .. c : Main(q[k]) = p]
      /\ ino \in [1 .. c -> Starts]
  <2>1. DOMAIN q = 1 .. c
    BY <1>4
  <2> QED
    BY <1>1, <2>1 DEF q
<1>7. ino \in Seq(Inodes) /\ DOMAIN ino = 1 .. c /\ Len(ino) = c /\ \A k \in 1 .. c : ino[k].kind = "PURE" /\ ino[k].clean
  <2>1. ino \in [1 .. c -> SubInodes] /\ \A k \in 1 .. c : ino[k].clean
    BY <1>5, <1>6
  <2>2. ino \in Seq(SubInodes) /\ Len(ino) = c
    BY <1>4, <2>1, SeqIs
  <2>3. ino \in Seq(Inodes)
    BY <2>2 DEF Inodes
  <2> QED
    BY Zenon, <2>1, <2>2, <2>3 DEF SubInodes
<1>8. \A p \in DOMAIN fs : p \in Mains \X Nat /\ p[2] = 0 /\ fs[p] \in 1 .. c /\ Main(q[fs[p]]) = p
  <2> TAKE p \in DOMAIN fs
  <2>1. PICK m \in P : p = Main(m)
    BY <1>6
  <2>2. PICK i \in 1 .. c : q[i] = m
    BY <1>4
  <2>3. \E k \in 1 .. c : Main(q[k]) = p
    BY <2>1, <2>2
  <2>4. fs[p] = CHOOSE k \in 1 .. c : Main(q[k]) = p
    BY <1>6
  <2>5. fs[p] \in 1 .. c /\ Main(q[fs[p]]) = p
    BY <2>3, <2>4
  <2> QED
    BY <1>3, <2>1, <2>5, MainIs
<1>9. IsFiniteSet(DOMAIN fs)
  <2> DEFINE T == {Main(m) : m \in P}
             of == [m \in P |-> Main(m)]
  <2>1. of \in Surjection(P, T)
    BY DEF Surjection
  <2>2. DOMAIN fs = T
    BY <1>6
  <2> HIDE DEF T, of
  <2>3. IsFiniteSet(T)
    BY <1>3, <2>1, FS_Surjection
  <2> QED
    BY <2>2, <2>3
<1>10. Typed(fs, ino)
  BY Zenon, <1>6, <1>7, <1>8, <1>9 DEF Typed
<1>11. Disk(fs, ino)
  BY <1>7, <1>8, <1>10, MainIs DEF Disk, HasMain
<1>12. Undying(fh, fs, ino)
  BY <1>2, <1>7, <1>8, ClosedIs DEF Undying, Clean, Owned
<1>13. MultiTypes
  BY <1>2 DEF MultiTypes, Bounded
<1>14. ~ret.aborts
  BY <1>2 DEF NoReturn, Returned
<1>15. Filed(fh, fs, ino)
  BY <1>2, ClosedIs DEF Filed
<1> QED
  BY <1>2, <1>11, <1>12, <1>13, <1>14, <1>15 DEF MultiInv

-----------------------------------------------------------------------------
(* Every step, and what follows. *)

LEMMA ReadingKeeps ==
  ASSUME OrdinaryUse, MultiInv, UNCHANGED inst,
         \/ \E n \in Names : LFINFO(n) \/ LFILEC(n)
         \/ \E move \in BOOLEAN : LFICAS(move) \/ LFICAP(move)
         \/ LFILAS \/ LFILAP
  PROVE  MultiInv'
<1>1. fh.open
  BY Zenon DEF LFINFO, LFILEC, LFICAS, LFICAP, LFILAS, LFILAP, Reads
<1>2. fh \in Units
  BY <1>1, UnitNow
<1>3. \A n \in Names : Lookup(fh, n) = 0 \/ Lookup(fh, n) \in Live(fh)
  BY <1>2, LookupIs
<1>4. Seek(fh, TRUE) = 0 \/ Seek(fh, TRUE) \in Live(fh)
  BY <1>2, SeekIs
<1>5. Seek(fh, FALSE) = 0 \/ Seek(fh, FALSE) \in Live(fh)
  BY <1>2, SeekIs
<1>6. CASE \E n \in Names : LFINFO(n) \/ LFILEC(n)
  <2>1. PICK n \in Names : LFINFO(n) \/ LFILEC(n)
    BY <1>6
  <2> QED
    BY <1>3, <2>1, ReadsKeeps DEF LFINFO, LFILEC
<1>7. CASE \E move \in BOOLEAN : LFICAS(move) \/ LFICAP(move)
  BY <1>4, <1>5, <1>7, ReadsKeeps DEF LFICAS, LFICAP
<1>8. CASE LFILAS \/ LFILAP
  BY <1>4, <1>5, <1>8, ReadsKeeps DEF LFILAS, LFILAP
<1> QED
  BY <1>6, <1>7, <1>8

LEMMA StutterKeeps ==
  ASSUME MultiInv, UNCHANGED vars
  PROVE  MultiInv'
<1>1. fs' = fs /\ ino' = ino /\ inst' = inst /\ fh' = fh /\ ret' = ret /\ count' = count
  BY DEF vars
<1>2. Disk(fs, ino)'
  BY <1>1, DiskNow DEF MultiInv
<1>3. MultiTypes'
  BY <1>1 DEF MultiInv, MultiTypes
<1>4. (fh = Closed \/ OpenOK(fh, fs, ino))'
  BY <1>1 DEF MultiInv, OpenOK, Opened
<1>5. (count.crashes = 0 => ~ret.aborts /\ Undying(fh, fs, ino) /\ Filed(fh, fs, ino))'
  BY <1>1 DEF MultiInv, Undying, Filed, Tools
<1> QED
  BY <1>2, <1>3, <1>4, <1>5 DEF MultiInv

LEMMA NextKeeps ==
  ASSUME OrdinaryUse, MultiInv, [Next]_vars
  PROVE  MultiInv'
<1>1. CASE UNCHANGED vars
  BY <1>1, StutterKeeps
<1> SUFFICES ASSUME Calls, UNCHANGED inst PROVE MultiInv'
  BY <1>1 DEF Next
<1>2. ASSUME NEW m \in Opened, LFIOUV(m) PROVE MultiInv'
  BY <1>2, OpenKeeps
<1>3. ASSUME NEW m \in Mains, RemoveOf(m) PROVE MultiInv'
  BY <1>3, RemoveKeeps
<1>4. ASSUME NEW n \in Names, NEW len \in Lens, LFIECR(n, len) PROVE MultiInv'
  BY <1>4, WriteKeeps
<1>5. ASSUME NEW n \in Names, LFISUP(n) PROVE MultiInv'
  BY <1>5, SuppressKeeps
<1>6. ASSUME NEW m \in Names, NEW n \in Names, LFIREN(m, n) PROVE MultiInv'
  BY <1>6, RenameKeeps
<1>7. CASE \/ \E n \in Names : LFINFO(n) \/ LFILEC(n)
           \/ \E move \in BOOLEAN : LFICAS(move) \/ LFICAP(move)
           \/ LFILAS \/ LFILAP
  BY <1>7, ReadingKeeps
<1>8. CASE LFIPOS
  BY <1>8, PosKeeps
<1>9. CASE LFIFER
  BY <1>9, CloseKeeps
<1>10. ASSUME NEW m \in Mains, NEW t \in Mains, CopyTo(m, t) PROVE MultiInv'
  BY <1>10, CopyKeeps
<1>11. ASSUME NEW m1 \in Mains, NEW m2 \in Mains, NEW t \in Mains, MergeTo(m1, m2, t) PROVE MultiInv'
  BY <1>11, MergeKeeps
<1>12. ASSUME NEW m1 \in Mains, NEW m2 \in Mains, NEW t \in Mains, IndexTo(m1, m2, t) PROVE MultiInv'
  BY <1>12, IndexKeeps
<1>13. CASE Dies \/ DiesInHeader \/ DiesInClose
  BY <1>13, DeathKeeps
<1> QED
  BY <1>2, <1>3, <1>4, <1>5, <1>6, <1>7, <1>8, <1>9, <1>10, <1>11, <1>12, <1>13 DEF Calls

\* What the handlers of multi-file units rely on, from one call to the next.
\* On the disk: sub-files are native files, and of the files with several
\* links all are native; each index has entries of different names, in
\* sub-files it lists, that are there and hold the articles.  In the open
\* unit: the same of its table; its main file has an index, and the sub-file of
\* the session is open and not unlinked.  Unless a process has died: no call
\* aborted, every file that must be opened can be, and each sub-file belongs to
\* the open unit or is named by the index of its main file.
THEOREM MultiInvHolds == ASSUME OrdinaryUse PROVE Spec => []MultiInv
<1>1. Init => MultiInv
  BY InitHolds
<1>2. MultiInv /\ [Next]_vars => MultiInv'
  BY NextKeeps
<1> QED
  BY <1>1, <1>2, PTL DEF Spec

LEMMA AbortsFollows ==
  ASSUME MultiInv
  PROVE  NeverAborts
<1>1. count.crashes = 0 => ~ret.aborts
  BY DEF MultiInv
<1>2. \A p \in DOMAIN fs : fs[p] \in DOMAIN ino
  <2>1. Typed(fs, ino)
    BY DEF MultiInv, Disk
  <2> QED
    BY <2>1, TypedIs
<1>3. ASSUME fh.open
      PROVE  \A i, j \in Live(fh) : fh.arts[i].ifh \in DOMAIN fh.files /\ (fh.arts[i].name = fh.arts[j].name => i = j)
  <2>1. Session(fh, fs, ino)
    BY <1>3, UnitNow
  <2>2. \A i \in Live(fh) : fh.arts[i].ifh \in DOMAIN fh.files
    BY Zenon, <2>1 DEF Session
  <2>3. \A i, j \in Live(fh) : fh.arts[i].name = fh.arts[j].name => i = j
    BY Zenon, <2>1 DEF Session
  <2> QED
    BY <2>2, <2>3
<1> QED
  BY <1>1, <1>2, <1>3 DEF NeverAborts, Live

LEMMA OrphansFollow ==
  ASSUME MultiInv
  PROVE  NoOrphans
<1> SUFFICES ASSUME ~fh.open, count.crashes = 0, "merge" \notin Tools, NEW p \in DOMAIN fs, p[2] > 0
             PROVE  Grok(p[1]) = "ALTM" /\ \E x \in Range(ino[fs[Main(p[1])]].files) : x.path = p
  BY DEF NoOrphans
<1>1. Owned(Closed, fs, ino)
  BY ClosedNow DEF Undying
<1>2. HasMain(fs, ino, p[1]) /\ \E x \in Range(ino[fs[Main(p[1])]].files) : x.path = p
  BY <1>1, ClosedIs DEF Owned
<1> QED
  BY <1>2 DEF HasMain, Grok

\* In ordinary use no call of the library aborts, in whatever order units are
\* opened, written, suppressed from, renamed in, copied, merged, indexed and
\* removed, unless a process has died; and always the entries in use of the
\* open index name sub-files of its table and have different names.
THEOREM NeverAbortsHolds == ASSUME OrdinaryUse PROVE Spec => []NeverAborts
<1>1. MultiInv => NeverAborts
  BY AbortsFollows
<1> QED
  BY <1>1, MultiInvHolds, PTL

\* In ordinary use, with no merge and unless a process has died, each sub-file
\* in a directory is named by the index of the closed main file it belongs to:
\* fh_write_hdr and lfi_altm_remove_ leave none behind.
THEOREM NoOrphansHolds == ASSUME OrdinaryUse PROVE Spec => []NoOrphans
<1>1. MultiInv => NoOrphans
  BY OrphansFollow
<1> QED
  BY <1>1, MultiInvHolds, PTL

=============================================================================
