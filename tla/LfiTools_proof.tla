---------------------------- MODULE LfiTools_proof ----------------------------
(***************************************************************************)
(* What surrounds the files: the libraries of units agree whatever calls   *)
(* are made, for any units, levels and factors (LfiLibrary); a copy that   *)
(* was reported done is whole, for files of any number of blocks (LfiCopy).*)
(***************************************************************************)
EXTENDS LfiLibrary, LfiCopy, Sums_proof, SequenceTheorems

-----------------------------------------------------------------------------
(* The libraries. *)

\* Assumed of the programs: they open files and units that are not open, use
\* no more units than the Fortran library has room for predefined factors
\* (JPXUFM), and give factors from 1 to JPFACX.  Where a program does not, the
\* Fortran library refuses what the others accept.
ProgramsAssumption ==
  /\ LibraryAssumption /\ Asks
  /\ IsFiniteSet(Units) /\ Cardinality(Units) <= MaxPredefined
  /\ \A i \in Instances : i.Factors \subseteq 1 .. MaxFactor

(* The inductive invariant: no unit is open in two libraries, and what is not *)
(* about an open unit is the same in all of them.                             *)

IsRecord(r) ==
  r \in [nerfag : {r.nerfag}, fmult : {r.fmult}, list : {r.list}, open : {r.open}]

Agree(p, q) ==
  /\ p.nerfag = q.nerfag /\ p.fmult = q.fmult
  /\ DOMAIN p.list = DOMAIN q.list
  /\ \A u \in DOMAIN p.list : p.list[u] = q.list[u]

LibrariesOK(l) ==
  /\ DOMAIN l = Libs
  /\ \A i \in Libs : IsRecord(l[i]) /\ DOMAIN l[i].open \subseteq Units /\ DOMAIN l[i].list \subseteq Units
  /\ \A i, j \in Libs : Agree(l[i], l[j])
  /\ \A i, j \in Libs : DOMAIN l[i].open \cap DOMAIN l[j].open # {} => i = j

LibraryInv == LibrariesOK(lib) /\ inst \in Instances

-----------------------------------------------------------------------------
(* Records. *)

LEMMA SetOpen ==
  ASSUME NEW r, IsRecord(r), NEW x
  PROVE  LET q == [r EXCEPT !.open = x]
         IN  /\ IsRecord(q) /\ q.open = x
             /\ q.list = r.list /\ q.nerfag = r.nerfag /\ q.fmult = r.fmult
  BY DEF IsRecord

LEMMA SetList ==
  ASSUME NEW r, IsRecord(r), NEW x
  PROVE  LET q == [r EXCEPT !.list = x]
         IN  /\ IsRecord(q) /\ q.list = x
             /\ q.open = r.open /\ q.nerfag = r.nerfag /\ q.fmult = r.fmult
  BY DEF IsRecord

LEMMA SetLevel ==
  ASSUME NEW r, IsRecord(r), NEW x
  PROVE  LET q == [r EXCEPT !.nerfag = x]
         IN  /\ IsRecord(q) /\ q.nerfag = x
             /\ q.open = r.open /\ q.list = r.list /\ q.fmult = r.fmult
  BY DEF IsRecord

LEMMA SetFactor ==
  ASSUME NEW r, IsRecord(r), NEW x
  PROVE  LET q == [r EXCEPT !.fmult = x]
         IN  /\ IsRecord(q) /\ q.fmult = x
             /\ q.open = r.open /\ q.list = r.list /\ q.nerfag = r.nerfag
  BY DEF IsRecord

-----------------------------------------------------------------------------
(* What the calls do to the libraries keeps the invariant. *)

\* The open units of one library change, and no unit that another has is added.
LEMMA OpenUnitsChange ==
  ASSUME NEW l, LibrariesOK(l), NEW i \in Libs, NEW x, DOMAIN x \subseteq Units,
         \A j \in Libs \ {i} : DOMAIN x \cap DOMAIN l[j].open = {}
  PROVE  LibrariesOK([l EXCEPT ![i].open = x])
<1> DEFINE r == [l[i] EXCEPT !.open = x]
           m == [l EXCEPT ![i] = r]
<1>1. IsRecord(r) /\ r.open = x /\ r.list = l[i].list /\ r.nerfag = l[i].nerfag /\ r.fmult = l[i].fmult
  BY SetOpen DEF LibrariesOK
<1> HIDE DEF r
<1>2. DOMAIN m = Libs /\ \A j \in Libs : m[j] = IF j = i THEN r ELSE l[j]
  BY DEF LibrariesOK
<1> HIDE DEF m
<1>3. LibrariesOK(m)
  BY <1>1, <1>2 DEF LibrariesOK, Agree
<1> QED
  BY <1>3 DEF m, r

\* The libraries change together, but for their open units.
LEMMA AllChange ==
  ASSUME NEW l, LibrariesOK(l), NEW m, DOMAIN m = Libs,
         \A i \in Libs : IsRecord(m[i]) /\ m[i].open = l[i].open /\ DOMAIN m[i].list \subseteq Units,
         \A i, j \in Libs : Agree(m[i], m[j])
  PROVE  LibrariesOK(m)
  BY DEF LibrariesOK

-----------------------------------------------------------------------------
(* Operators of the layer. *)

LEMMA HandlerHasIt ==
  ASSUME NEW u
  PROVE  \/ Handler(u) = 0 /\ ~IsOpen(u)
         \/ Handler(u) \in Libs /\ HasOpen(Handler(u), u)
<1> DEFINE having == {i \in Libs : HasOpen(i, u)}
<1>1. CASE having = {}
  BY <1>1 DEF Handler, IsOpen
<1>2. CASE having # {}
  <2>1. having \subseteq {1, 2, 3}
    BY DEF Libs, Fort, Alts, Altm
  <2> HIDE DEF having
  <2>2. \E i \in having : \A j \in having : i <= j
    <3>1. CASE 1 \in having
      BY <2>1, <3>1
    <3>2. CASE 1 \notin having /\ 2 \in having
      BY <2>1, <3>2
    <3>3. CASE 1 \notin having /\ 2 \notin having
      <4>1. having = {3}
        BY <1>2, <2>1, <3>3
      <4> QED
        BY <4>1
    <3> QED
      BY <3>1, <3>2, <3>3
  <2>3. (CHOOSE i \in having : \A j \in having : i <= j) \in having
    BY <2>2
  <2>4. Handler(u) = CHOOSE i \in having : \A j \in having : i <= j
    BY <1>2 DEF Handler, having
  <2> QED
    BY <2>3, <2>4 DEF having
<1> QED
  BY <1>1, <1>2

\* While the libraries agree, they would give a unit the same factor.
LEMMA FactorsAgree ==
  ASSUME LibraryInv, NEW i \in Libs, NEW j \in Libs, NEW u
  PROVE  FactorFor(i, u) = FactorFor(j, u)
<1>1. Agree(lib[i], lib[j])
  BY DEF LibraryInv, LibrariesOK
<1> QED
  BY <1>1 DEF Agree, FactorFor

LEMMA WithIs ==
  ASSUME NEW f, NEW u, NEW x
  PROVE  /\ DOMAIN With(f, u, x) = DOMAIN f \cup {u}
         /\ \A v \in DOMAIN f \cup {u} : With(f, u, x)[v] = IF v = u THEN x ELSE f[v]
  BY DEF With

LEMMA WithoutIs ==
  ASSUME NEW f, NEW u
  PROVE  /\ DOMAIN Without(f, u) = DOMAIN f \ {u}
         /\ \A v \in DOMAIN f \ {u} : Without(f, u)[v] = f[v]
  BY DEF Without, Restrict

\* The libraries answer LFIAFM and LFISFM of a unit that is not open alike.
LEMMA AttributeAlike ==
  ASSUME ProgramsAssumption, LibraryInv, NEW u \in Units, NEW k \in Factors, NEW i \in Libs
  PROVE  AttributeReply(i, u, k) = 0
<1>1. k \in 1 .. MaxFactor /\ MaxFactor \in Nat /\ MaxPredefined \in Nat
  BY DEF ProgramsAssumption, LibraryAssumption, LibraryInv, Factors
<1>2. CASE i # Fort
  BY <1>1, <1>2 DEF AttributeReply
<1>3. CASE i = Fort
  <2> DEFINE D == DOMAIN lib[i].list
  <2>1. D \subseteq Units /\ IsFiniteSet(Units) /\ Cardinality(Units) <= MaxPredefined
    BY DEF LibraryInv, LibrariesOK, ProgramsAssumption
  <2>2. u \in D \/ ~(Cardinality(D) >= MaxPredefined)
    <3>1. SUFFICES ASSUME u \notin D PROVE ~(Cardinality(D) >= MaxPredefined)
      OBVIOUS
    <3> HIDE DEF D
    <3>2. IsFiniteSet(Units \ {u}) /\ Cardinality(Units \ {u}) = Cardinality(Units) - 1
      BY <2>1, FS_RemoveElement
    <3>3. D \subseteq Units \ {u}
      BY <2>1, <3>1
    <3>4. Cardinality(D) <= Cardinality(Units \ {u})
      BY <3>2, <3>3, FS_Subset
    <3>5. Cardinality(Units) \in Nat /\ Cardinality(D) \in Nat
      BY <2>1, <3>2, <3>3, FS_Subset, FS_CardinalityType
    <3> QED
      BY <1>1, <2>1, <3>2, <3>4, <3>5
  <2> QED
    BY <1>1, <1>3, <2>2 DEF AttributeReply
<1> QED
  BY <1>2, <1>3

-----------------------------------------------------------------------------
(* Each call. *)

\* What a call does to the libraries.
OpensUnit ==
  \E u \in Units, i \in Libs : \E f, e, n :
    ~IsOpen(u) /\ lib' = [lib EXCEPT ![i].open = With(lib[i].open, u, OpenedAs(i, u, f, e, n))]
ClosesUnits == \E i \in Libs : \E x : DOMAIN x \subseteq DOMAIN lib[i].open /\ lib' = [lib EXCEPT ![i].open = x]
SetsAll ==
  /\ DOMAIN lib' = Libs
  /\ \A i \in Libs : IsRecord(lib'[i]) /\ lib'[i].open = lib[i].open /\ DOMAIN lib'[i].list \subseteq Units
  /\ \A i, j \in Libs : Agree(lib'[i], lib'[j])
Changes == OpensUnit \/ ClosesUnits \/ SetsAll

LEMMA ChangesKeep ==
  ASSUME LibraryInv, Changes, UNCHANGED inst
  PROVE  LibraryInv'
<1>1. LibrariesOK(lib) /\ inst' \in Instances
  BY DEF LibraryInv
<1>2. CASE OpensUnit
  <2>0. PICK u \in Units, i \in Libs : \E f, e, n :
           ~IsOpen(u) /\ lib' = [lib EXCEPT ![i].open = With(lib[i].open, u, OpenedAs(i, u, f, e, n))]
    BY <1>2 DEF OpensUnit
  <2>1. PICK f, e, n :
           ~IsOpen(u) /\ lib' = [lib EXCEPT ![i].open = With(lib[i].open, u, OpenedAs(i, u, f, e, n))]
    BY <2>0
  <2> DEFINE x == With(lib[i].open, u, OpenedAs(i, u, f, e, n))
  <2>2. DOMAIN x = DOMAIN lib[i].open \cup {u}
    BY WithIs
  <2>3. lib' = [lib EXCEPT ![i].open = x]
    BY <2>1
  <2> HIDE DEF x
  <2>4. DOMAIN x \subseteq Units
    BY <1>1, <2>2 DEF LibrariesOK
  <2>5. \A j \in Libs \ {i} : DOMAIN x \cap DOMAIN lib[j].open = {}
    BY <1>1, <2>1, <2>2 DEF LibrariesOK, IsOpen, HasOpen
  <2>6. LibrariesOK([lib EXCEPT ![i].open = x])
    BY <1>1, <2>4, <2>5, OpenUnitsChange
  <2> QED
    BY <1>1, <2>3, <2>6 DEF LibraryInv
<1>3. CASE ClosesUnits
  <2>0. PICK i \in Libs : \E x : DOMAIN x \subseteq DOMAIN lib[i].open /\ lib' = [lib EXCEPT ![i].open = x]
    BY <1>3 DEF ClosesUnits
  <2>1. PICK x : DOMAIN x \subseteq DOMAIN lib[i].open /\ lib' = [lib EXCEPT ![i].open = x]
    BY <2>0
  <2>2. DOMAIN x \subseteq Units /\ \A j \in Libs \ {i} : DOMAIN x \cap DOMAIN lib[j].open = {}
    BY <1>1, <2>1 DEF LibrariesOK
  <2>3. LibrariesOK([lib EXCEPT ![i].open = x])
    BY <1>1, <2>2, OpenUnitsChange
  <2> QED
    BY <1>1, <2>1, <2>3 DEF LibraryInv
<1>4. CASE SetsAll
  <2>1. LibrariesOK(lib')
    BY <1>1, <1>4, AllChange DEF SetsAll
  <2> QED
    BY <1>1, <2>1 DEF LibraryInv
<1> QED
  BY <1>2, <1>3, <1>4 DEF Changes

\* lfi_unum gives one of the three libraries.
LEMMA LibraryOfUnit ==
  ASSUME ProgramsAssumption, LibraryInv, NEW u
  PROVE  LibraryOf(u) \in Libs
<1> DEFINE in == {r \in DOMAIN HndlSpec : u \in HndlSpec[r].from .. HndlSpec[r].to}
           first == CHOOSE r \in in : \A q \in in : r <= q
<1>1. HndlSpec \in Seq([from : Int, to : Int, unum : 0 .. 2])
  BY DEF ProgramsAssumption, LibraryAssumption, LibraryInv, HndlSpec
<1>2. CASE in = {}
  BY <1>2 DEF LibraryOf, Libs
<1>3. CASE in # {}
  <2>1. in \subseteq DOMAIN HndlSpec /\ DOMAIN HndlSpec = 1 .. Len(HndlSpec)
    BY <1>1
  <2>2. in \in SUBSET Nat
    BY <2>1
  <2>3. LibraryOf(u) = 1 + HndlSpec[first].unum
    BY <1>3 DEF LibraryOf
  <2> HIDE DEF in
  <2>4. \E r \in in : \A q \in in : r <= q
    BY <1>3, <2>2, LeastNumber
  <2>5. first \in in
    BY <2>4
  <2> HIDE DEF first
  <2>6. HndlSpec[first].unum \in 0 .. 2
    <3>1. first \in 1 .. Len(HndlSpec)
      BY <2>1, <2>5
    <3>2. HndlSpec[first] \in [from : Int, to : Int, unum : 0 .. 2]
      BY <1>1, <3>1, ElementOfSeq, Zenon
    <3> QED
      BY <3>2
  <2> QED
    BY <2>3, <2>6 DEF Libs, Fort, Alts, Altm
<1> QED
  BY <1>2, <1>3

\* A unit is opened when its library accepts it, and it is then in no other.
LEMMA OpeningChanges ==
  ASSUME ProgramsAssumption, LibraryInv,
         NEW u \in Units, NEW f, NEW s, NEW e, NEW n, LFIOUV(u, f, s, e, n)
  PROVE  UNCHANGED lib \/ OpensUnit
<1>1. ByFile(u, f) \in Libs
  BY LibraryOfUnit DEF ByFile, Libs
<1>2. ~IsOpen(u)
  BY DEF LFIOUV, ProgramsAssumption
<1> QED
  BY <1>1, <1>2 DEF LFIOUV, OpensUnit

LEMMA ClosingChanges ==
  ASSUME LibraryInv, NEW u \in Units, LFIFER(u)
  PROVE  UNCHANGED lib \/ ClosesUnits
<1>1. CASE Handler(u) = 0
  BY <1>1 DEF LFIFER
<1>2. CASE Handler(u) # 0
  <2>1. Handler(u) \in Libs
    BY <1>2, HandlerHasIt
  <2>2. lib' = [lib EXCEPT ![Handler(u)].open = Without(lib[Handler(u)].open, u)]
    BY <1>2 DEF LFIFER
  <2>3. DOMAIN Without(lib[Handler(u)].open, u) = DOMAIN lib[Handler(u)].open \ {u}
    BY WithoutIs, Zenon
  <2> QED
    BY <2>1, <2>2, <2>3 DEF ClosesUnits
<1> QED
  BY <1>1, <1>2

\* LFIERF and LFINIM change what a library knows of an open unit.
LEMMA SettingChanges ==
  ASSUME LibraryInv, NEW u \in Units, NEW x, LFIERF(u, x) \/ LFINIM(u, x)
  PROVE  UNCHANGED lib \/ ClosesUnits
<1> DEFINE h == Handler(u)
<1>1. h \in Libs /\ DOMAIN lib = Libs
  BY HandlerHasIt DEF LFIERF, LFINIM, LibraryInv, LibrariesOK
<1>2. CASE lib' = [lib EXCEPT ![h].open[u].erfa = x]
  <2>1. lib' = [lib EXCEPT ![h].open = [lib[h].open EXCEPT ![u].erfa = x]]
    BY <1>2
  <2>2. DOMAIN [lib[h].open EXCEPT ![u].erfa = x] \subseteq DOMAIN lib[h].open
    OBVIOUS
  <2> QED
    BY <1>1, <2>1, <2>2 DEF ClosesUnits
<1>3. CASE lib' = [lib EXCEPT ![h].open[u].nimes = x]
  <2>1. lib' = [lib EXCEPT ![h].open = [lib[h].open EXCEPT ![u].nimes = x]]
    BY <1>3
  <2>2. DOMAIN [lib[h].open EXCEPT ![u].nimes = x] \subseteq DOMAIN lib[h].open
    OBVIOUS
  <2> QED
    BY <1>1, <2>1, <2>2 DEF ClosesUnits
<1> QED
  BY <1>2, <1>3 DEF LFIERF, LFINIM

LEMMA AttributeChanges ==
  ASSUME ProgramsAssumption, LibraryInv, NEW u \in Units, NEW k \in Factors, LFIAFM(u, k)
  PROVE  UNCHANGED lib \/ SetsAll
<1> DEFINE c == [i \in Libs |-> With(lib[i].list, u, k)]
           reply == [i \in Libs |-> AttributeReply(i, u, k)]
<1>1. \A i \in Libs : reply[i] = 0
  BY AttributeAlike
<1>2. LibrariesOK(lib)
  BY DEF LibraryInv
<1>3. ToAll("LFIAFM", u, reply, c)
  BY DEF LFIAFM
<1>4. ASSUME NEW i \in Libs
      PROVE  /\ DOMAIN c[i] = DOMAIN lib[i].list \cup {u}
             /\ \A v \in DOMAIN lib[i].list \cup {u} : c[i][v] = IF v = u THEN k ELSE lib[i].list[v]
  <2>1. c[i] = With(lib[i].list, u, k)
    OBVIOUS
  <2>2. /\ DOMAIN With(lib[i].list, u, k) = DOMAIN lib[i].list \cup {u}
        /\ \A v \in DOMAIN lib[i].list \cup {u} : With(lib[i].list, u, k)[v] = IF v = u THEN k ELSE lib[i].list[v]
    BY DEF With
  <2> HIDE DEF c
  <2> QED
    BY <2>1, <2>2, Zenon
<1> HIDE DEF c, reply
<1>5. CASE UNCHANGED lib
  BY <1>5
<1>6. CASE lib' = [i \in Libs |-> IF reply[i] = 0 THEN [lib[i] EXCEPT !.list = c[i]] ELSE lib[i]]
  <2>1. DOMAIN lib' = Libs /\ \A i \in Libs : lib'[i] = [lib[i] EXCEPT !.list = c[i]]
    BY <1>1, <1>6
  <2>2. ASSUME NEW i \in Libs
        PROVE  /\ IsRecord(lib'[i]) /\ lib'[i].list = c[i] /\ lib'[i].open = lib[i].open
               /\ lib'[i].nerfag = lib[i].nerfag /\ lib'[i].fmult = lib[i].fmult
    <3>1. IsRecord(lib[i])
      BY <1>2 DEF LibrariesOK
    <3>2. lib'[i] = [lib[i] EXCEPT !.list = c[i]]
      BY <2>1
    <3> QED
      BY <3>1, <3>2, SetList
  <2>3. \A i \in Libs : DOMAIN lib'[i].list \subseteq Units
    BY <1>2, <1>4, <2>2 DEF LibrariesOK
  <2>4. ASSUME NEW i \in Libs, NEW j \in Libs
        PROVE  Agree(lib'[i], lib'[j])
    <3>1. Agree(lib[i], lib[j])
      BY <1>2 DEF LibrariesOK
    <3>2. DOMAIN lib'[i].list = DOMAIN lib'[j].list
      BY <1>4, <2>2, <3>1 DEF Agree
    <3>3. ASSUME NEW v \in DOMAIN lib'[i].list
          PROVE  lib'[i].list[v] = lib'[j].list[v]
      BY <1>4, <2>2, <3>1, <3>3 DEF Agree
    <3> QED
      BY <2>2, <3>1, <3>2, <3>3 DEF Agree
  <2> QED
    BY <2>1, <2>2, <2>3, <2>4 DEF SetsAll
<1> QED
  BY <1>3, <1>5, <1>6 DEF ToAll

LEMMA SuppressChanges ==
  ASSUME LibraryInv, NEW u \in Units, LFISFM(u)
  PROVE  UNCHANGED lib \/ SetsAll
<1> DEFINE c == [i \in Libs |-> Without(lib[i].list, u)]
           reply == [i \in Libs |-> SuppressReply(i, u)]
<1>1. LibrariesOK(lib)
  BY DEF LibraryInv
<1>2. \A i \in Libs : reply[i] = IF u \in DOMAIN lib[i].list THEN 0 ELSE -31
  BY DEF SuppressReply
<1>3. ToAll("LFISFM", u, reply, c)
  BY DEF LFISFM
<1>4. ASSUME NEW i \in Libs
      PROVE  /\ DOMAIN c[i] = DOMAIN lib[i].list \ {u}
             /\ \A v \in DOMAIN lib[i].list \ {u} : c[i][v] = lib[i].list[v]
  <2>1. c[i] = Without(lib[i].list, u)
    OBVIOUS
  <2>2. /\ DOMAIN Without(lib[i].list, u) = DOMAIN lib[i].list \ {u}
        /\ \A v \in DOMAIN lib[i].list \ {u} : Without(lib[i].list, u)[v] = lib[i].list[v]
    BY WithoutIs, Zenon
  <2> HIDE DEF c
  <2> QED
    BY <2>1, <2>2, Zenon
<1> HIDE DEF c, reply
<1>5. CASE UNCHANGED lib
  BY <1>5
<1>6. CASE lib' = [i \in Libs |-> IF reply[i] = 0 THEN [lib[i] EXCEPT !.list = c[i]] ELSE lib[i]]
  <2>1. DOMAIN lib' = Libs /\ \A i \in Libs : lib'[i] = IF u \in DOMAIN lib[i].list THEN [lib[i] EXCEPT !.list = c[i]] ELSE lib[i]
    BY <1>2, <1>6
  <2>2. ASSUME NEW i \in Libs
        PROVE  /\ IsRecord(lib'[i]) /\ lib'[i].open = lib[i].open
               /\ lib'[i].nerfag = lib[i].nerfag /\ lib'[i].fmult = lib[i].fmult
               /\ lib'[i].list = IF u \in DOMAIN lib[i].list THEN c[i] ELSE lib[i].list
    <3>1. IsRecord(lib[i])
      BY <1>1 DEF LibrariesOK
    <3>2. CASE u \in DOMAIN lib[i].list
      <4>1. lib'[i] = [lib[i] EXCEPT !.list = c[i]]
        BY <2>1, <3>2
      <4> QED
        BY <3>1, <3>2, <4>1, SetList
    <3>3. CASE u \notin DOMAIN lib[i].list
      BY <2>1, <3>1, <3>3
    <3> QED
      BY <3>2, <3>3
  <2>3. \A i \in Libs : DOMAIN lib'[i].list \subseteq Units
    BY <1>1, <1>4, <2>2 DEF LibrariesOK
  <2>4. ASSUME NEW i \in Libs, NEW j \in Libs
        PROVE  Agree(lib'[i], lib'[j])
    <3>1. Agree(lib[i], lib[j])
      BY <1>1 DEF LibrariesOK
    <3>2. DOMAIN lib'[i].list = DOMAIN lib'[j].list
      BY <1>4, <2>2, <3>1 DEF Agree
    <3>3. ASSUME NEW v \in DOMAIN lib'[i].list
          PROVE  lib'[i].list[v] = lib'[j].list[v]
      BY <1>4, <2>2, <3>1, <3>3 DEF Agree
    <3> QED
      BY <2>2, <3>1, <3>2, <3>3 DEF Agree
  <2> QED
    BY <2>1, <2>2, <2>3, <2>4 DEF SetsAll
<1> QED
  BY <1>3, <1>5, <1>6 DEF ToAll

LEMMA LevelChanges ==
  ASSUME LibraryInv, NEW k, LFINEG(k)
  PROVE  UNCHANGED lib \/ SetsAll
<1>1. LibrariesOK(lib)
  BY DEF LibraryInv
<1>2. CASE UNCHANGED lib
  BY <1>2
<1>3. CASE lib' = [i \in Libs |-> IF k \in 0 .. 2 THEN [lib[i] EXCEPT !.nerfag = k] ELSE lib[i]]
  <2>1. ASSUME NEW i \in Libs
        PROVE  /\ IsRecord(lib'[i]) /\ lib'[i].open = lib[i].open /\ lib'[i].list = lib[i].list
               /\ lib'[i].nerfag = (IF k \in 0 .. 2 THEN k ELSE lib[i].nerfag) /\ lib'[i].fmult = lib[i].fmult
    <3>1. IsRecord(lib[i])
      BY <1>1 DEF LibrariesOK
    <3>2. CASE k \in 0 .. 2
      <4>1. lib'[i] = [lib[i] EXCEPT !.nerfag = k]
        BY <1>3, <3>2
      <4> QED
        BY <3>1, <3>2, <4>1, SetLevel
    <3>3. CASE k \notin 0 .. 2
      BY <1>3, <3>1, <3>3
    <3> QED
      BY <3>2, <3>3
  <2> QED
    BY <1>1, <1>3, <2>1 DEF SetsAll, LibrariesOK, Agree
<1> QED
  BY <1>2, <1>3 DEF LFINEG, SetAll, AcceptsLevel

LEMMA FactorChanges ==
  ASSUME ProgramsAssumption, LibraryInv, NEW k \in Factors, LFIFMD(k)
  PROVE  UNCHANGED lib \/ SetsAll
<1>1. LibrariesOK(lib)
  BY DEF LibraryInv
<1>2. k \in 1 .. MaxFactor /\ MaxFactor \in Nat
  BY DEF ProgramsAssumption, LibraryAssumption, LibraryInv, Factors
<1>3. CASE UNCHANGED lib
  BY <1>3
<1>4. CASE lib' = [i \in Libs |-> [lib[i] EXCEPT !.fmult = k]]
  <2>1. ASSUME NEW i \in Libs
        PROVE  /\ IsRecord(lib'[i]) /\ lib'[i].open = lib[i].open /\ lib'[i].list = lib[i].list
               /\ lib'[i].nerfag = lib[i].nerfag /\ lib'[i].fmult = k
    <3>1. IsRecord(lib[i])
      BY <1>1 DEF LibrariesOK
    <3>2. lib'[i] = [lib[i] EXCEPT !.fmult = k]
      BY <1>4
    <3> QED
      BY <3>1, <3>2, SetFactor
  <2> QED
    BY <1>1, <1>4, <2>1 DEF SetsAll, LibrariesOK, Agree
<1> QED
  BY <1>2, <1>3, <1>4 DEF LFIFMD, SetAll, AcceptsFactor

LEMMA CallChanges ==
  ASSUME ProgramsAssumption, LibraryInv, Next
  PROVE  (UNCHANGED lib \/ Changes) /\ UNCHANGED inst
<1>1. UNCHANGED inst
  BY DEF Next
<1>2. ASSUME NEW u \in Units, NEW f \in Files, NEW s \in Statuses, NEW e \in Erfas, NEW n \in Nimes \cap 0 .. 2,
             LFIOUV(u, f, s, e, n)
      PROVE  UNCHANGED lib \/ Changes
  BY <1>2, OpeningChanges DEF Changes
<1>3. ASSUME NEW u \in Units, LFIFER(u) \/ Access(u) \/ LFIOMF(u) \/ LFIOFM(u) \/ LFISFM(u) \/ LFINUM(u)
      PROVE  UNCHANGED lib \/ Changes
  <2>1. CASE LFIFER(u)
    BY <2>1, ClosingChanges DEF Changes
  <2>2. CASE LFISFM(u)
    BY <2>2, SuppressChanges DEF Changes
  <2>3. CASE Access(u) \/ LFIOMF(u) \/ LFIOFM(u) \/ LFINUM(u)
    BY <2>3 DEF Access, LFIOMF, LFIOFM, LFINUM
  <2> QED
    BY <1>3, <2>1, <2>2, <2>3
<1>4. ASSUME NEW u \in Units, NEW e \in Erfas, LFIERF(u, e)
      PROVE  UNCHANGED lib \/ Changes
  BY <1>4, SettingChanges DEF Changes
<1>5. ASSUME NEW u \in Units, NEW n \in Nimes, LFINIM(u, n)
      PROVE  UNCHANGED lib \/ Changes
  BY <1>5, SettingChanges DEF Changes
<1>6. ASSUME NEW u \in Units, NEW k \in Factors, LFIAFM(u, k)
      PROVE  UNCHANGED lib \/ Changes
  BY <1>6, AttributeChanges DEF Changes
<1>7. ASSUME NEW k \in Levels, LFINEG(k)
      PROVE  UNCHANGED lib \/ Changes
  BY <1>7, LevelChanges DEF Changes
<1>8. ASSUME NEW k \in Factors, LFIFMD(k)
      PROVE  UNCHANGED lib \/ Changes
  BY <1>8, FactorChanges DEF Changes
<1> QED
  BY <1>1, <1>2, <1>3, <1>4, <1>5, <1>6, <1>7, <1>8 DEF Next, Calls

LEMMA LibraryInvInit ==
  ASSUME Init
  PROVE  LibraryInv
<1>1. DOMAIN NoUnit = {}
  BY DEF NoUnit
<1>2. /\ NewLibrary.open = NoUnit /\ NewLibrary.list = NoUnit
      /\ IsRecord(NewLibrary)
  BY DEF NewLibrary, IsRecord
<1>3. lib = [i \in Libs |-> NewLibrary] /\ inst \in Instances
  BY DEF Init
<1> QED
  BY <1>1, <1>2, <1>3 DEF LibraryInv, LibrariesOK, Agree

LEMMA LibraryInvHolds ==
  ASSUME ProgramsAssumption
  PROVE  Spec => []LibraryInv
<1>1. Init => LibraryInv
  BY LibraryInvInit
<1>2. LibraryInv /\ [Next]_vars => LibraryInv'
  <2>1. ASSUME LibraryInv, UNCHANGED lib, UNCHANGED inst
        PROVE  LibraryInv'
    BY <2>1 DEF LibraryInv
  <2> QED
    BY <2>1, CallChanges, ChangesKeep DEF vars
<1> QED
  BY <1>1, <1>2, PTL DEF Spec

\* A unit is open in one library at most and the libraries agree on the level,
\* the factor and the predefined factors, so that it does not matter which one
\* LFIOUV chooses (lfi_hndl, lfi_intf).
THEOREM OneLibraryHolds ==
  ASSUME ProgramsAssumption
  PROVE  Spec => []OneLibraryPerUnit
<1>1. ASSUME LibraryInv
      PROVE  OneLibraryPerUnit
  <2>1. \A i, j \in Libs : \A u \in Units : FactorFor(i, u) = FactorFor(j, u)
    BY <1>1, FactorsAgree
  <2> QED
    BY <1>1, <2>1 DEF OneLibraryPerUnit, LibraryInv, LibrariesOK, Agree
<1> QED
  BY <1>1, LibraryInvHolds, PTL

\* A file that LFIOUV creates has the factor that LFIOFM answered for its unit
\* just before, whichever library serves the unit.
THEOREM FactorAsAnnouncedHolds ==
  ASSUME ProgramsAssumption
  PROVE  Spec => FactorAsAnnounced
<1>1. ASSUME LibraryInv, [Next]_vars
      PROVE  [CreatedAsAnnounced]_vars
  <2>1. CASE UNCHANGED vars
    BY <2>1
  <2>2. CASE Next
    <3> SUFFICES ASSUME NEW v \in Units, NEW j \in Libs,
                        v \notin DOMAIN lib[j].open, v \in DOMAIN lib'[j].open
                 PROVE  lib'[j].open[v].fmult = FactorFor(Altm, v)
      BY DEF CreatedAsAnnounced
    <3>1. LibrariesOK(lib)
      BY <1>1 DEF LibraryInv
    <3>2. CASE UNCHANGED lib
      BY <3>2
    <3>3. CASE OpensUnit
      <4>0. PICK u \in Units, i \in Libs : \E f, e, n :
              ~IsOpen(u) /\ lib' = [lib EXCEPT ![i].open = With(lib[i].open, u, OpenedAs(i, u, f, e, n))]
        BY <3>3 DEF OpensUnit
      <4>1. PICK f, e, n :
              ~IsOpen(u) /\ lib' = [lib EXCEPT ![i].open = With(lib[i].open, u, OpenedAs(i, u, f, e, n))]
        BY <4>0
      <4> DEFINE x == OpenedAs(i, u, f, e, n)
                 g == With(lib[i].open, u, x)
      <4>2. x.fmult = FactorFor(i, u)
        BY DEF OpenedAs
      <4>3. lib' = [lib EXCEPT ![i].open = g]
        BY <4>1
      <4> HIDE DEF x
      <4>4. DOMAIN g = DOMAIN lib[i].open \cup {u} /\ g[u] = x
        BY DEF With
      <4> HIDE DEF g
      <4>5. i = j
        <5>1. lib'[j] = IF i = j THEN [lib[i] EXCEPT !.open = g] ELSE lib[j]
          BY <3>1, <4>3 DEF LibrariesOK
        <5> QED
          BY <5>1
      <4>6. lib'[j].open = g
        <5>1. lib'[j] = [lib[j] EXCEPT !.open = g]
          BY <3>1, <4>3, <4>5 DEF LibrariesOK
        <5> QED
          BY <3>1, <5>1, SetOpen DEF LibrariesOK
      <4>7. v = u
        BY <4>4, <4>5, <4>6
      <4>8. Altm \in Libs
        BY DEF Libs
      <4> QED
        BY <1>1, <4>2, <4>4, <4>6, <4>7, <4>8, FactorsAgree
    <3>4. CASE ClosesUnits
      <4>0. PICK i \in Libs : \E x : DOMAIN x \subseteq DOMAIN lib[i].open /\ lib' = [lib EXCEPT ![i].open = x]
        BY <3>4 DEF ClosesUnits
      <4>1. PICK x : DOMAIN x \subseteq DOMAIN lib[i].open /\ lib' = [lib EXCEPT ![i].open = x]
        BY <4>0
      <4>2. lib'[j] = IF i = j THEN [lib[i] EXCEPT !.open = x] ELSE lib[j]
        BY <3>1, <4>1 DEF LibrariesOK
      <4>3. [lib[i] EXCEPT !.open = x].open = x
        BY <3>1, SetOpen DEF LibrariesOK
      <4> QED
        BY <4>1, <4>2, <4>3
    <3>5. CASE SetsAll
      BY <3>5 DEF SetsAll
    <3> QED
      BY <1>1, <2>2, <3>2, <3>3, <3>4, <3>5, CallChanges DEF Changes
  <2> QED
    BY <1>1, <2>1, <2>2
<1> QED
  BY <1>1, LibraryInvHolds, PTL DEF Spec, FactorAsAnnounced

\* The inductive invariant of the kinds of the files: what is open is a file on
\* one unit only, so that no other library can change its kind meanwhile.
Kinds == {"NONE", "PURE", "ALTM", "UNKN"}
IsOpened(x) ==
  x \in [file : Files, erfa : {x.erfa}, nimes : {x.nimes}, fmult : {x.fmult}, new : {x.new}]

KindsInv ==
  /\ LibraryInv
  /\ dir \in [Files -> Kinds]
  /\ \A i \in Libs : \A u \in DOMAIN lib[i].open : IsOpened(lib[i].open[u])
  /\ OneUnitPerFile /\ ServedByItsKind

\* A call that opens nothing leaves the files to the units that have them.
FilesKept ==
  /\ dir' = dir
  /\ \A i \in Libs :
       /\ DOMAIN lib'[i].open \subseteq DOMAIN lib[i].open
       /\ \A u \in DOMAIN lib'[i].open :
            IsOpened(lib'[i].open[u]) /\ lib'[i].open[u].file = lib[i].open[u].file

LEMMA FilesKeptKeeps ==
  ASSUME KindsInv, LibraryInv', FilesKept
  PROVE  KindsInv'
<1>1. OneUnitPerFile'
  BY DEF KindsInv, FilesKept, OneUnitPerFile
<1>2. ServedByItsKind'
  BY DEF KindsInv, FilesKept, ServedByItsKind
<1> QED
  BY <1>1, <1>2 DEF KindsInv, FilesKept

\* A library whose open units alone change.
LEMMA UnitsOf ==
  ASSUME LibraryInv, NEW i \in Libs, NEW x, lib' = [lib EXCEPT ![i].open = x]
  PROVE  \A j \in Libs : lib'[j].open = IF j = i THEN x ELSE lib[j].open
<1> DEFINE r == [lib[i] EXCEPT !.open = x]
<1>1. DOMAIN lib = Libs /\ \A j \in Libs : IsRecord(lib[j])
  BY DEF LibraryInv, LibrariesOK
<1>2. r.open = x
  BY <1>1, SetOpen
<1>3. lib' = [lib EXCEPT ![i] = r]
  OBVIOUS
<1> HIDE DEF r
<1>4. \A j \in Libs : lib'[j] = IF j = i THEN r ELSE lib[j]
  BY <1>1, <1>3
<1> QED
  BY <1>2, <1>4

LEMMA ClosingFiles ==
  ASSUME KindsInv, NEW u \in Units, LFIFER(u)
  PROVE  FilesKept
<1>1. CASE Handler(u) = 0
  BY <1>1 DEF LFIFER, KindsInv, FilesKept
<1>2. CASE Handler(u) # 0
  <2> DEFINE h == Handler(u)
             x == Without(lib[h].open, u)
  <2>1. h \in Libs
    BY <1>2, HandlerHasIt
  <2>2. lib' = [lib EXCEPT ![h].open = x] /\ dir' = dir
    BY <1>2 DEF LFIFER
  <2>3. DOMAIN x \subseteq DOMAIN lib[h].open /\ \A v \in DOMAIN x : x[v] = lib[h].open[v]
    BY DEF Without, Restrict
  <2> HIDE DEF h, x
  <2>4. \A j \in Libs : lib'[j].open = IF j = h THEN x ELSE lib[j].open
    <3>1. LibraryInv
      BY DEF KindsInv
    <3> QED
      BY <2>1, <2>2, <3>1, UnitsOf
  <2> QED
    BY <2>1, <2>2, <2>3, <2>4 DEF KindsInv, FilesKept
<1> QED
  BY <1>1, <1>2

LEMMA SettingOpened ==
  ASSUME NEW r, IsOpened(r), NEW y
  PROVE  /\ IsOpened([r EXCEPT !.erfa = y]) /\ [r EXCEPT !.erfa = y].file = r.file
         /\ IsOpened([r EXCEPT !.nimes = y]) /\ [r EXCEPT !.nimes = y].file = r.file
  BY DEF IsOpened

LEMMA SettingFiles ==
  ASSUME KindsInv, NEW u \in Units, NEW y, LFIERF(u, y) \/ LFINIM(u, y)
  PROVE  FilesKept
<1> DEFINE h == Handler(u)
           o == lib[h].open
<1>1. h \in Libs /\ u \in DOMAIN o /\ dir' = dir
  BY HandlerHasIt DEF LFIERF, LFINIM, HasOpen
<1>2. \A v \in DOMAIN o : IsOpened(o[v])
  BY <1>1 DEF KindsInv
<1>3. CASE UNCHANGED lib
  BY <1>1, <1>3 DEF KindsInv, FilesKept
<1>4. ASSUME NEW r, IsOpened(r), r.file = o[u].file, lib' = [lib EXCEPT ![h].open = [o EXCEPT ![u] = r]]
      PROVE  FilesKept
  <2> DEFINE x == [o EXCEPT ![u] = r]
  <2>1. DOMAIN x = DOMAIN o /\ \A v \in DOMAIN o : x[v] = IF v = u THEN r ELSE o[v]
    OBVIOUS
  <2>2. lib' = [lib EXCEPT ![h].open = x]
    BY <1>4
  <2>3. LibraryInv
    BY DEF KindsInv
  <2> HIDE DEF x, h
  <2>4. \A j \in Libs : lib'[j].open = IF j = h THEN x ELSE lib[j].open
    BY <1>1, <2>2, <2>3, UnitsOf
  <2> QED
    BY <1>1, <1>2, <1>4, <2>1, <2>4 DEF KindsInv, FilesKept
<1>5. CASE lib' = [lib EXCEPT ![h].open[u].erfa = y]
  <2>1. lib' = [lib EXCEPT ![h].open = [o EXCEPT ![u] = [o[u] EXCEPT !.erfa = y]]]
    BY <1>5
  <2>2. IsOpened([o[u] EXCEPT !.erfa = y]) /\ [o[u] EXCEPT !.erfa = y].file = o[u].file
    BY <1>1, <1>2, SettingOpened
  <2> QED
    BY <1>4, <2>1, <2>2
<1>6. CASE lib' = [lib EXCEPT ![h].open[u].nimes = y]
  <2>1. lib' = [lib EXCEPT ![h].open = [o EXCEPT ![u] = [o[u] EXCEPT !.nimes = y]]]
    BY <1>6
  <2>2. IsOpened([o[u] EXCEPT !.nimes = y]) /\ [o[u] EXCEPT !.nimes = y].file = o[u].file
    BY <1>1, <1>2, SettingOpened
  <2> QED
    BY <1>4, <2>1, <2>2
<1> QED
  BY <1>3, <1>5, <1>6 DEF LFIERF, LFINIM

\* LFIOUV takes a multi-file to its own library and no other file there but to
\* make it one.
LEMMA OpeningFiles ==
  ASSUME ProgramsAssumption, KindsInv, LibraryInv',
         NEW u \in Units, NEW f \in Files, NEW s, NEW e, NEW n, LFIOUV(u, f, s, e, n)
  PROVE  KindsInv'
<1> DEFINE i == ByFile(u, f)
           x == OpenedAs(i, u, f, e, n)
           o == With(lib[i].open, u, x)
           opened == Refusal(f, s) = 0 /\ (IF Refusal(f, s) # 0 THEN Refusal(f, s) ELSE OpenReply(i, u, f)) = 0
<1>1. i \in Libs
  BY LibraryOfUnit DEF ByFile, Libs, KindsInv
<1>2. ~IsOpen(u) /\ \A j \in Libs : ~FileIsOpen(j, f)
  BY DEF LFIOUV, ProgramsAssumption
<1>3. CASE ~opened
  <2>1. lib' = lib /\ dir' = dir
    BY <1>3 DEF LFIOUV
  <2> QED
    BY <2>1, FilesKeptKeeps DEF KindsInv, FilesKept
<1>4. CASE opened
  <2>1. lib' = [lib EXCEPT ![i].open = o] /\ dir' = [dir EXCEPT ![f] = KindOnceOpen(i, f)]
    BY <1>4 DEF LFIOUV
  <2>2. Refusal(f, s) = 0 /\ dir[f] \in Kinds
    BY <1>4 DEF KindsInv
  <2>3. KindOnceOpen(i, f) = IF i = Altm THEN "ALTM" ELSE "PURE"
    <3>1. dir[f] # "UNKN"
      BY <2>2 DEF Refusal
    <3>2. i # Altm => dir[f] # "ALTM"
      BY DEF ByFile
    <3> QED
      BY <2>2, <3>1, <3>2 DEF KindOnceOpen, Kinds
  <2>4. IsOpened(x) /\ x.file = f
    BY DEF OpenedAs, IsOpened
  <2> HIDE DEF x
  <2>5. DOMAIN o = DOMAIN lib[i].open \cup {u} /\ \A v \in DOMAIN o : o[v] = IF v = u THEN x ELSE lib[i].open[v]
    BY DEF With
  <2> HIDE DEF o, i
  <2>6. \A j \in Libs : lib'[j].open = IF j = i THEN o ELSE lib[j].open
    <3>1. LibraryInv
      BY DEF KindsInv
    <3> QED
      BY <1>1, <2>1, <3>1, UnitsOf
  <2>7. dir' \in [Files -> Kinds] /\ \A g \in Files : dir'[g] = IF g = f THEN KindOnceOpen(i, f) ELSE dir[g]
    BY <2>1, <2>3 DEF KindsInv, Kinds
  <2>8. \A j \in Libs : u \notin DOMAIN lib[j].open /\ \A v \in DOMAIN lib[j].open : lib[j].open[v].file # f
    BY <1>2 DEF IsOpen, HasOpen, FileIsOpen
  <2>9. \A j \in Libs : \A v \in DOMAIN lib[j].open : IsOpened(lib[j].open[v]) /\ lib[j].open[v].file \in Files
    BY DEF KindsInv, IsOpened
  <2>10. \A j \in Libs : \A v \in DOMAIN lib'[j].open :
           \/ <<j, v>> = <<i, u>> /\ lib'[j].open[v] = x
           \/ v # u /\ v \in DOMAIN lib[j].open /\ lib'[j].open[v] = lib[j].open[v]
    BY <2>5, <2>6, <2>8
  <2>11. \A j \in Libs : \A v \in DOMAIN lib'[j].open : IsOpened(lib'[j].open[v])
    BY <2>4, <2>9, <2>10
  <2>12. OneUnitPerFile'
    <3> SUFFICES ASSUME NEW j \in Libs, NEW k \in Libs, NEW v \in DOMAIN lib'[j].open, NEW w \in DOMAIN lib'[k].open,
                        lib'[j].open[v].file = lib'[k].open[w].file
                 PROVE  <<j, v>> = <<k, w>>
      BY DEF OneUnitPerFile
    <3>1. OneUnitPerFile
      BY DEF KindsInv
    <3> QED
      BY <2>4, <2>8, <2>10, <3>1 DEF OneUnitPerFile
  <2>13. ServedByItsKind'
    <3> SUFFICES ASSUME NEW j \in Libs, NEW v \in DOMAIN lib'[j].open
                 PROVE  dir'[lib'[j].open[v].file] = IF j = Altm THEN "ALTM" ELSE "PURE"
      BY DEF ServedByItsKind
    <3>1. CASE <<j, v>> = <<i, u>> /\ lib'[j].open[v] = x
      BY <2>3, <2>4, <2>7, <3>1
    <3>2. CASE v \in DOMAIN lib[j].open /\ lib'[j].open[v] = lib[j].open[v]
      <4>1. dir[lib[j].open[v].file] = IF j = Altm THEN "ALTM" ELSE "PURE"
        BY <3>2 DEF KindsInv, ServedByItsKind
      <4> QED
        BY <2>7, <2>8, <2>9, <3>2, <4>1
    <3> QED
      BY <2>10, <3>1, <3>2
  <2> QED
    BY <2>7, <2>11, <2>12, <2>13 DEF KindsInv
<1> QED
  BY <1>3, <1>4

LEMMA KindsNextKeeps ==
  ASSUME ProgramsAssumption, KindsInv, LibraryInv', Next
  PROVE  KindsInv'
<1>0. LibraryInv
  BY DEF KindsInv
<1>1. ASSUME NEW u \in Units, NEW f \in Files, NEW s \in Statuses, NEW e \in Erfas, NEW n \in Nimes \cap 0 .. 2,
             LFIOUV(u, f, s, e, n)
      PROVE  KindsInv'
  BY <1>1, OpeningFiles
<1>2. ASSUME UNCHANGED lib \/ SetsAll, UNCHANGED dir
      PROVE  FilesKept
  BY <1>2 DEF KindsInv, FilesKept, SetsAll
<1>3. ASSUME NEW u \in Units, LFIFER(u) \/ Access(u) \/ LFIOMF(u) \/ LFIOFM(u) \/ LFISFM(u) \/ LFINUM(u)
      PROVE  FilesKept
  <2>1. CASE LFIFER(u)
    BY <2>1, ClosingFiles
  <2>2. CASE LFISFM(u)
    BY <1>0, <1>2, <2>2, SuppressChanges DEF LFISFM, ToAll
  <2>3. CASE Access(u) \/ LFIOMF(u) \/ LFIOFM(u) \/ LFINUM(u)
    BY <1>2, <2>3 DEF Access, LFIOMF, LFIOFM, LFINUM
  <2> QED
    BY <1>3, <2>1, <2>2, <2>3
<1>4. ASSUME NEW u \in Units, NEW y, LFIERF(u, y) \/ LFINIM(u, y)
      PROVE  FilesKept
  BY <1>4, SettingFiles
<1>5. ASSUME NEW u \in Units, NEW k \in Factors, LFIAFM(u, k)
      PROVE  FilesKept
  BY <1>0, <1>2, <1>5, AttributeChanges DEF LFIAFM, ToAll
<1>6. ASSUME NEW k \in Levels, LFINEG(k)
      PROVE  FilesKept
  BY <1>0, <1>2, <1>6, LevelChanges DEF LFINEG, SetAll
<1>7. ASSUME NEW k \in Factors, LFIFMD(k)
      PROVE  FilesKept
  BY <1>0, <1>2, <1>7, FactorChanges DEF LFIFMD, SetAll
<1> QED
  BY <1>1, <1>3, <1>4, <1>5, <1>6, <1>7, FilesKeptKeeps DEF Next, Calls

\* The library that has a file open is that of its kind, whichever units it was
\* opened on before (lfiouv, lfi_grok).
THEOREM ServedByItsKindHolds ==
  ASSUME ProgramsAssumption
  PROVE  Spec => []ServedByItsKind
<1>1. Init => LibraryInv /\ KindsInv
  <2> SUFFICES ASSUME Init PROVE LibraryInv /\ KindsInv
    OBVIOUS
  <2>1. LibraryInv
    BY LibraryInvInit
  <2>2. \A i \in Libs : DOMAIN lib[i].open = {}
    BY DEF Init, NewLibrary, NoUnit
  <2>3. dir \in [Files -> Kinds]
    BY DEF Init, Kinds
  <2> QED
    BY <2>1, <2>2, <2>3 DEF KindsInv, OneUnitPerFile, ServedByItsKind
<1>2. KindsInv /\ LibraryInv' /\ [Next]_vars => KindsInv'
  <2>1. ASSUME KindsInv, LibraryInv', UNCHANGED vars
        PROVE  KindsInv'
    BY <2>1, FilesKeptKeeps DEF vars, FilesKept, KindsInv
  <2> QED
    BY <2>1, KindsNextKeeps
<1>3. KindsInv => ServedByItsKind
  BY DEF KindsInv
<1> QED
  BY <1>1, <1>2, <1>3, LibraryInvHolds, PTL DEF Spec

-----------------------------------------------------------------------------
(* The copy. *)

\* The lengths of files of whole blocks.
Whole == {m * Block : m \in Nat}

\* Assumed: blocks are not empty, and files are of whole blocks, as LFIFER
\* leaves them (fh_write_pad of lfi_alts.c: a page is some blocks of 4096 bytes).
BlocksAssumption == Block \in Nat \ {0} /\ Lengths \subseteq Whole

-----------------------------------------------------------------------------
(* The inductive invariant: what was given to stdio, what is in the buffer *)
(* and what is not yet read are the source, until it is all given.         *)

Places == {"link", "source", "target", "read", "write", "close", "reply", "copied", "refused",
           "aborted", "exited", "over", "dead"}

Untouched == errno = "none" /\ out = <<>> /\ rest = source
Complete  == target = source /\ (out = <<>> \/ out = source)

CopyInv ==
  /\ pc \in Places
  /\ source \in Seq(Nat) /\ Len(source) \in Whole
  /\ buf \in Seq(Nat) /\ Len(buf) = Block
  /\ pc \in {"link", "source", "target"} => Untouched
  /\ pc \in {"read", "write"} =>
       errno = "none" /\ out \in Seq(Nat) /\ rest \in Seq(Nat) /\ Len(rest) \in Whole
  /\ pc = "read" => out \o rest = source
  /\ pc = "write" => out \o (buf \o rest) = source
  /\ pc = "close" => errno = "none" /\ out = source
  /\ (pc = "reply" /\ errno = "none") \/ pc = "copied" => Complete
  /\ pc = "exited" => target = source
  /\ pc \in {"refused", "over"} => target = Absent

-----------------------------------------------------------------------------
(* Lengths and pieces. *)

LEMMA WholeLess ==
  ASSUME BlocksAssumption, NEW n \in Whole
  PROVE  /\ n \in Nat
         /\ n < Block => n = 0
         /\ n >= Block => n - Block \in Whole
<1>1. PICK m \in Nat : n = m * Block
  BY DEF Whole
<1>2. Block \in Nat /\ Block >= 1
  BY DEF BlocksAssumption
<1>3. n \in Nat
  BY <1>1, <1>2
<1>4. CASE m = 0
  BY <1>1, <1>2, <1>4
<1>5. CASE m # 0
  <2>1. m - 1 \in Nat
    BY <1>5
  <2>2. m * Block = (m - 1) * Block + Block
    BY <1>2
  <2>3. (m - 1) * Block \in Nat
    BY <1>2, <2>1
  <2>4. n - Block = (m - 1) * Block
    BY <1>1, <1>2, <2>2, <2>3
  <2>5. n >= Block
    BY <1>2, <1>3, <2>3, <2>4
  <2> QED
    BY <1>2, <1>3, <2>1, <2>4, <2>5 DEF Whole
<1> QED
  BY <1>4, <1>5

LEMMA SplitSequence ==
  ASSUME NEW s \in Seq(Nat), NEW k \in Nat, k <= Len(s)
  PROVE  /\ SubSeq(s, 1, k) \in Seq(Nat) /\ Len(SubSeq(s, 1, k)) = k
         /\ SubSeq(s, k + 1, Len(s)) \in Seq(Nat) /\ Len(SubSeq(s, k + 1, Len(s))) = Len(s) - k
         /\ SubSeq(s, 1, k) \o SubSeq(s, k + 1, Len(s)) = s
<1>1. /\ SubSeq(s, 1, k) \in Seq(Nat) /\ Len(SubSeq(s, 1, k)) = k
      /\ SubSeq(s, k + 1, Len(s)) \in Seq(Nat) /\ Len(SubSeq(s, k + 1, Len(s))) = Len(s) - k
  OBVIOUS
<1>2. 1 \in 1 .. Len(s) + 1 /\ k \in 1 - 1 .. Len(s) /\ Len(s) \in k .. Len(s)
  OBVIOUS
<1>3. SubSeq(s, 1, k) \o SubSeq(s, k + 1, Len(s)) = SubSeq(s, 1, Len(s))
  BY <1>2, ConcatAdjacentSubSeq, Zenon
<1>4. SubSeq(s, 1, Len(s)) = s
  BY SubSeqFull, Zenon
<1> QED
  BY <1>1, <1>3, <1>4, Zenon

-----------------------------------------------------------------------------
(* Every step keeps the invariant. *)

LEMMA CopyInitHolds ==
  ASSUME BlocksAssumption, CopyInit
  PROVE  CopyInv
<1>1. PICK n \in Lengths : source = [i \in 1 .. n |-> i]
  BY DEF CopyInit
<1>2. n \in Whole /\ n \in Nat
  BY WholeLess DEF BlocksAssumption
<1>3. source \in Seq(Nat) /\ Len(source) = n
  BY <1>1, <1>2
<1>4. buf = [i \in 1 .. Block |-> Stale] /\ pc = "link" /\ Untouched
  BY DEF CopyInit, Untouched
<1>5. buf \in Seq(Nat) /\ Len(buf) = Block
  BY <1>4 DEF BlocksAssumption, Stale
<1> QED
  BY <1>2, <1>3, <1>4, <1>5 DEF CopyInv, Places

LEMMA ReadKeeps ==
  ASSUME BlocksAssumption, CopyInv, Read
  PROVE  CopyInv'
<1> DEFINE nr == Least(Block, Len(rest))
<1>1. pc = "read" /\ UNCHANGED <<target, out, source>>
  BY DEF Read, Same
<1>2. /\ errno = "none" /\ out \in Seq(Nat) /\ rest \in Seq(Nat) /\ Len(rest) \in Whole
      /\ out \o rest = source /\ buf \in Seq(Nat) /\ Len(buf) = Block
      /\ source \in Seq(Nat) /\ Len(source) \in Whole
  BY <1>1 DEF CopyInv
<1>3. Block \in Nat /\ Block >= 1 /\ Len(rest) \in Nat
  BY <1>2 DEF BlocksAssumption
<1>4. CASE errno' = "EIO" /\ pc' = "reply" /\ UNCHANGED <<buf, rest>>
  BY <1>1, <1>2, <1>4 DEF CopyInv, Places
<1>5. CASE /\ buf' = SubSeq(rest, 1, nr) \o SubSeq(buf, nr + 1, Block)
           /\ rest' = SubSeq(rest, nr + 1, Len(rest))
           /\ pc' = (CASE nr = 0 -> "close" [] nr = Block -> "write" [] OTHER -> "short")
           /\ UNCHANGED errno
  <2>1. CASE Len(rest) < Block
    <3>1. Len(rest) = 0 /\ nr = 0
      BY <1>2, <1>3, <2>1, WholeLess DEF Least
    <3>2. rest = <<>>
      BY <1>2, <3>1
    <3>3. pc' = "close" /\ out = source
      <4>1. out \o <<>> = out
        BY <1>2, ConcatEmptySeq, Zenon
      <4> QED
        <5>1. out \o rest = out
          BY <3>2, <4>1
        <5>2. out = source
          BY <1>2, <5>1
        <5>3. pc' = "close"
          BY <1>3, <1>5, <3>1
        <5> QED
          BY <5>2, <5>3
    <3>4. buf' = buf
      <4>1. SubSeq(rest, 1, 0) = <<>>
        BY SubSeqEmpty
      <4>2. SubSeq(buf, 1, Block) = buf
        BY <1>2, SubSeqFull
      <4>3. <<>> \o buf = buf
        BY <1>2, ConcatEmptySeq, Zenon
      <4>4. nr + 1 = 1
        BY <3>1
      <4> QED
        BY <1>5, <3>1, <4>1, <4>2, <4>3, <4>4
    <3> QED
      BY <1>1, <1>2, <1>5, <3>3, <3>4 DEF CopyInv, Places
  <2>2. CASE Len(rest) >= Block
    <3>1. nr = Block /\ Len(rest) - Block \in Whole
      BY <1>2, <1>3, <2>2, WholeLess DEF Least
    <3>2. pc' = "write"
      BY <1>3, <1>5, <3>1
    <3> HIDE DEF nr
    <3>3. /\ SubSeq(rest, 1, Block) \in Seq(Nat) /\ Len(SubSeq(rest, 1, Block)) = Block
          /\ rest' \in Seq(Nat) /\ Len(rest') = Len(rest) - Block
          /\ SubSeq(rest, 1, Block) \o rest' = rest
      BY <1>2, <1>3, <1>5, <2>2, <3>1, SplitSequence
    <3>4. buf' = SubSeq(rest, 1, Block)
      <4>1. SubSeq(buf, Block + 1, Block) = <<>>
        BY <1>2, <1>3
      <4> QED
        BY <1>5, <3>1, <3>3, <4>1
    <3> QED
      BY <1>1, <1>2, <1>5, <3>1, <3>2, <3>3, <3>4 DEF CopyInv, Places
  <2> QED
    BY <1>3, <2>1, <2>2
<1> QED
  BY <1>4, <1>5 DEF Read, Goto

LEMMA Regrouped ==
  ASSUME NEW a \in Seq(Nat), NEW b \in Seq(Nat), NEW c \in Seq(Nat)
  PROVE  (a \o b) \o c = a \o (b \o c)
  BY ConcatAssociative

LEMMA WriteKeeps ==
  ASSUME BlocksAssumption, CopyInv, Write
  PROVE  CopyInv'
<1>1. pc = "write" /\ UNCHANGED <<target, buf, rest, source>>
  BY DEF Write, Same, CopyInv, Places
<1>2. /\ errno = "none" /\ out \in Seq(Nat) /\ rest \in Seq(Nat) /\ Len(rest) \in Whole
      /\ out \o (buf \o rest) = source /\ buf \in Seq(Nat) /\ Len(buf) = Block
      /\ source \in Seq(Nat) /\ Len(source) \in Whole
  BY <1>1 DEF CopyInv
<1>3. CASE out' = out \o buf /\ pc' = "read" /\ UNCHANGED errno
  <2>1. out' \in Seq(Nat) /\ out' \o rest = source
    <3>1. (out \o buf) \o rest = out \o (buf \o rest)
      <4>1. out \in Seq(Nat) /\ buf \in Seq(Nat) /\ rest \in Seq(Nat)
        BY <1>2
      <4> QED
        BY <4>1, Regrouped, Zenon
    <3> QED
      BY <1>2, <1>3, <3>1
  <2> QED
    BY <1>1, <1>2, <1>3, <2>1 DEF CopyInv, Places
<1>4. CASE errno' = "ENOSPC" /\ pc' = "reply" /\ UNCHANGED out
  BY <1>1, <1>2, <1>4 DEF CopyInv, Places
<1> QED
  BY <1>1, <1>3, <1>4 DEF Write, Goto, AfterWrite

LEMMA CopyNextKeeps ==
  ASSUME BlocksAssumption, CopyInv, [CopyNext]_copyVars
  PROVE  CopyInv'
<1>1. CASE Link
  BY <1>1 DEF Link, Same, Goto, CopyInv, Places, Untouched, Complete
<1>2. CASE OpenSource
  BY <1>2 DEF OpenSource, Same, Goto, CopyInv, Places, Untouched, Complete
<1>3. CASE OpenTarget
  <2>1. Untouched /\ source \in Seq(Nat) /\ Len(source) \in Whole
    BY <1>3 DEF OpenTarget, CopyInv
  <2>2. <<>> \in Seq(Nat) /\ <<>> \o source = source
    BY <2>1
  <2> QED
    BY <1>3, <2>1, <2>2 DEF OpenTarget, Same, Goto, CopyInv, Places, Untouched
<1>4. CASE Read
  BY <1>4, ReadKeeps
<1>5. CASE Write
  BY <1>5, WriteKeeps
<1>6. CASE Flush
  <2>1. pc \in {"read", "write", "close"} /\ UNCHANGED <<source, out, buf, rest, errno, pc>>
    BY <1>6 DEF Flush, Same, CopyInv, Places
  <2> QED
    BY <2>1 DEF CopyInv, Places
<1>7. CASE Close
  BY <1>7 DEF Close, CloseFails, Same, Goto, CopyInv, Places, Complete
<1>8. CASE Reply
  BY <1>8 DEF Reply, Removed, Same, Goto, CopyInv, Places, Complete
<1>9. CASE Exit
  <2>1. pc = "copied" => ~Unclosed
    BY DEF CopyInv, Complete, Unclosed
  <2> QED
    BY <1>9, <2>1 DEF Exit, Same, Goto, CopyInv, Places, Complete
<1>10. CASE Killed
  BY <1>10 DEF Killed, Same, Goto, CopyInv, Places, Complete
<1>11. CASE UNCHANGED copyVars
  BY <1>11 DEF copyVars, CopyInv, Untouched, Complete
<1> QED
  BY <1>1, <1>2, <1>3, <1>4, <1>5, <1>6, <1>7, <1>8, <1>9, <1>10, <1>11 DEF CopyNext

\* A copy that was reported done is the whole source, also when the process is
\* killed right after; one that was refused leaves no part of a target that did
\* not exist: for all sizes of blocks and all numbers of them in the file
\* (lfi_copy, lfi_smartcopy, lfi_altm_copy_).
THEOREM CopiedIsWholeHolds ==
  ASSUME BlocksAssumption
  PROVE  CopySpec => []CopiedIsWhole
<1>1. CopyInit => CopyInv
  BY CopyInitHolds
<1>2. CopyInv /\ [CopyNext]_copyVars => CopyInv'
  BY CopyNextKeeps
<1>3. CopyInv => CopiedIsWhole
  BY DEF CopyInv, CopiedIsWhole
<1> QED
  BY <1>1, <1>2, <1>3, PTL DEF CopySpec


=============================================================================
