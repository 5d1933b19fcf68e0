---------------------------- MODULE LfiFile_proof ----------------------------
(***************************************************************************)
(* The articles, the holes and the extra index sections of a native LFI    *)
(* file never share a word, and no two articles have one name, whatever    *)
(* the calls and whenever the process dies; and only a death damages a     *)
(* file, which the last part proves.                                       *)
(*                                                                         *)
(* The entries of the index are kept in the order of their words; that     *)
(* order is what the proof carries through each call and, for files of one *)
(* index section, through the disk.                                        *)
(***************************************************************************)
EXTENDS LfiFile, Sums_proof, SequenceTheorems

-----------------------------------------------------------------------------
(* The inductive invariant. *)

AllNames == Names \cup {Fin, Trou, Sect}
Entries  == [name : AllNames, pos : Nat, len : Nat]
Headers  == [inaph : Nat, inalo : Int, intru : Int, iltal : Int, ifeam : Int, ioffi : Seq(Nat)]
Files    == [open : {TRUE}, idx : Seq(Entries), hdr : Headers, iart : Int, modified : BOOLEAN]

\* Entry a ends before entry b begins.
Before(a, b) == a.pos + a.len <= b.pos

\* The free slots are at the end, the other entries in the order of their
\* words, behind the pages of the header, and each article has its own name.
InOrder(idx, page) ==
  /\ \A i, j \in DOMAIN idx : i < j /\ idx[i].name = Fin => idx[j].name = Fin
  /\ \A i \in DOMAIN idx : idx[i].name # Fin => idx[i].pos >= 3 * page + 1
  /\ \A i, j \in DOMAIN idx : i < j /\ idx[j].name # Fin => Before(idx[i], idx[j])
  /\ \A i, j \in DOMAIN idx : idx[i].name \in Names /\ idx[i].name = idx[j].name => i = j

\* First word of extra index section k, and its placeholder in the index.
Start(ioffi, k, page) == (ioffi[k] - 1) * page + 1
SectionsOK(idx, ioffi, page) ==
  /\ \A k \in DOMAIN ioffi : \E i \in DOMAIN idx : idx[i] = Entry(Sect, Start(ioffi, k, page), 2 * page)
  /\ \A k, l \in DOMAIN ioffi : k < l => Start(ioffi, k, page) + 2 * page <= Start(ioffi, l, page)

\* Index and header of a file of one section.
PlainIndex(i) ==
  {idx \in Seq(Entries) : /\ InOrder(idx, i.Page) /\ Len(idx) = i.Section
                          /\ \A j \in DOMAIN idx : idx[j].name # Sect}
PlainHeaders == {h \in Headers : h.inaph >= 3 /\ h.ioffi = <<>>}

\* The descriptor of an open file.
Usable(f, i) ==
  /\ f \in Files /\ f.idx # <<>> /\ f.hdr.inaph >= 3
  /\ InOrder(f.idx, i.Page)
  /\ SectionsOK(f.idx, f.hdr.ioffi, i.Page)
  /\ i.Extra = 0 => f.idx \in PlainIndex(i) /\ f.hdr \in PlainHeaders

\* What a file of one section writes: an index is always whole, and a header
\* follows its index.
PlainWrites(i) ==
  [op : {"sec"}, k : {0}, ents : PlainIndex(i), at : {i.Page + 1}] \cup [op : {"hdr"}, hdr : PlainHeaders]
  \cup [op : {"flag", "flush", "create"}] \cup [op : {"data"}, at : Int, len : Int, id : Int]
Ordered(q) == \A j \in DOMAIN q : q[j].op = "hdr" => j > 1 /\ q[j - 1].op = "sec"
Queues(i) == {q \in Seq(PlainWrites(i)) : Ordered(q)}
PlainDisk(d, i) ==
  /\ d.sec \in Seq(PlainIndex(i)) /\ Len(d.sec) <= 1 /\ d.hdr \in PlainHeaders
  /\ d.lfi => d.sec # <<>>

FileInv ==
  /\ inst \in Instances
  /\ opens \in Nat /\ writes \in Nat
  /\ fh = Closed \/ Usable(fh, inst)
  /\ opens = 0 => fh = Closed /\ disk = NoFile
  /\ Extra = 0 => PlainDisk(disk, inst) /\ pend \in Queues(inst)

-----------------------------------------------------------------------------
(* An index in order has no common words. *)

LEMMA Sizes ==
  ASSUME SizesAssumption, inst \in Instances
  PROVE  /\ Section \in Nat \ {0} /\ Page \in Nat /\ Page >= 8
         /\ MaxOpens \in Nat \ {0} /\ Extra \in Nat /\ Lens \subseteq Int
BY DEF SizesAssumption, Section, Page, Extra, Lens, MaxOpens

LEMMA OrderedApart ==
  ASSUME SizesAssumption, NamesAssumption, inst \in Instances, fh.open, Usable(fh, inst)
  PROVE  Disjoint
<1> DEFINE idx == fh.idx
           ioffi == fh.hdr.ioffi
<1>1. /\ Page \in Nat /\ Page >= 8
      /\ idx \in Seq(Entries) /\ ioffi \in Seq(Nat)
      /\ InOrder(idx, Page) /\ SectionsOK(idx, ioffi, Page)
  BY Sizes DEF Usable, Files, Headers, Page
<1>2. \A k \in DOMAIN ioffi : SectionAt(fh.hdr, k) = Start(ioffi, k, Page) /\ Start(ioffi, k, Page) \in Int
  <2>1. \A k \in DOMAIN ioffi : ioffi[k] \in Nat
    BY <1>1
  <2> QED
    BY <1>1, <2>1 DEF SectionAt, Start
<1>3. \A i \in DOMAIN idx : idx[i] \in Entries
  BY <1>1
<1> HIDE DEF ioffi, idx
<1>4. ASSUME NEW i \in DOMAIN idx, NEW j \in DOMAIN idx, i # j, idx[i].name # Fin, idx[j].name # Fin
      PROVE  Before(idx[i], idx[j]) \/ Before(idx[j], idx[i])
  <2>1. i \in Int /\ j \in Int
    BY <1>1
  <2>2. i < j \/ j < i
    BY <2>1, <1>4
  <2> QED
    BY <1>1, <1>4, <2>2 DEF InOrder
<1>5. ASSUME NEW i \in Allocated
      PROVE  /\ idx[i].pos >= FirstWord
             /\ \A j \in Allocated \ {i} : Apart(Extent(i), Extent(j))
             /\ \A k \in DOMAIN ioffi : Apart(Extent(i), SectionExtent(k))
  <2>1. i \in DOMAIN idx /\ idx[i].name # Fin /\ idx[i].name # Sect
    BY DEF Allocated, idx
  <2>2. idx[i].pos >= FirstWord
    BY <1>1, <2>1 DEF InOrder, FirstWord
  <2>3. ASSUME NEW j \in Allocated \ {i} PROVE Apart(Extent(i), Extent(j))
    <3>1. j \in DOMAIN idx /\ idx[j].name # Fin /\ i # j
      BY DEF Allocated, idx
    <3>2. Before(idx[i], idx[j]) \/ Before(idx[j], idx[i])
      BY <1>4, <2>1, <3>1
    <3>3. idx[i] \in Entries /\ idx[j] \in Entries
      BY <1>3, <2>1, <3>1
    <3> QED
      BY <3>2, <3>3 DEF Before, Apart, Extent, Entries, idx
  <2>4. ASSUME NEW k \in DOMAIN ioffi PROVE Apart(Extent(i), SectionExtent(k))
    <3>1. PICK j \in DOMAIN idx : idx[j] = Entry(Sect, Start(ioffi, k, Page), 2 * Page)
      BY <1>1 DEF SectionsOK
    <3>2. idx[j].name = Sect /\ idx[j].pos = SectionAt(fh.hdr, k) /\ idx[j].len = 2 * Page
      BY <1>2, <3>1 DEF Entry
    <3>3. idx[j].name # Fin /\ i # j
      BY <2>1, <3>2 DEF Sect, Fin
    <3>4. Before(idx[i], idx[j]) \/ Before(idx[j], idx[i])
      BY <1>4, <2>1, <3>1, <3>3
    <3>5. idx[i] \in Entries /\ idx[j] \in Entries
      BY <1>3, <2>1, <3>1
    <3>6. SectionAt(fh.hdr, k) \in Int
      BY <1>2
    <3>7. /\ idx[i].pos \in Nat /\ idx[i].len \in Nat
          /\ \/ idx[i].pos + idx[i].len <= SectionAt(fh.hdr, k)
             \/ SectionAt(fh.hdr, k) + 2 * Page <= idx[i].pos
      BY <3>2, <3>4, <3>5 DEF Before, Entries
    <3>8. /\ Extent(i)[1] = idx[i].pos /\ Extent(i)[2] = idx[i].pos + idx[i].len - 1
          /\ SectionExtent(k)[1] = SectionAt(fh.hdr, k)
          /\ SectionExtent(k)[2] = SectionAt(fh.hdr, k) + 2 * Page - 1
      BY DEF Extent, SectionExtent, idx
    <3>9. \A a, b, c, d \in Int : a + b <= c \/ c + d <= a => a + b - 1 < c \/ c + d - 1 < a
      OBVIOUS
    <3>10. \/ idx[i].pos + idx[i].len - 1 < SectionAt(fh.hdr, k)
           \/ SectionAt(fh.hdr, k) + 2 * Page - 1 < idx[i].pos
      <4>1. 2 * Page \in Int
        BY <1>1
      <4> QED
        BY <3>6, <3>7, <3>9, <4>1
    <3> QED
      BY <3>8, <3>10 DEF Apart
  <2> QED
    BY <2>2, <2>3, <2>4
<1>6. ASSUME NEW k \in DOMAIN ioffi
      PROVE  /\ SectionAt(fh.hdr, k) >= FirstWord
             /\ \A l \in DOMAIN ioffi \ {k} : Apart(SectionExtent(k), SectionExtent(l))
  <2>1. SectionAt(fh.hdr, k) >= FirstWord
    <3>1. PICK j \in DOMAIN idx : idx[j] = Entry(Sect, Start(ioffi, k, Page), 2 * Page)
      BY <1>1 DEF SectionsOK
    <3>2. idx[j].name # Fin /\ idx[j].pos = SectionAt(fh.hdr, k)
      BY <1>2, <3>1 DEF Entry, Sect, Fin
    <3>3. idx[j].pos >= 3 * Page + 1
      BY <1>1, <3>2 DEF InOrder
    <3> QED
      BY <3>2, <3>3 DEF FirstWord
  <2>2. ASSUME NEW l \in DOMAIN ioffi \ {k} PROVE Apart(SectionExtent(k), SectionExtent(l))
    <3>1. k < l \/ l < k
      BY <1>1
    <3>2. \/ Start(ioffi, k, Page) + 2 * Page <= Start(ioffi, l, Page)
          \/ Start(ioffi, l, Page) + 2 * Page <= Start(ioffi, k, Page)
      BY <1>1, <3>1 DEF SectionsOK
    <3>3. /\ SectionAt(fh.hdr, k) = Start(ioffi, k, Page) /\ SectionAt(fh.hdr, k) \in Int
          /\ SectionAt(fh.hdr, l) = Start(ioffi, l, Page) /\ SectionAt(fh.hdr, l) \in Int
      BY <1>2
    <3> QED
      BY <1>1, <3>2, <3>3 DEF Apart, SectionExtent
  <2> QED
    BY <2>1, <2>2
<1>7. ASSUME NEW i \in DataRanks(idx), NEW j \in DataRanks(idx), idx[i].name = idx[j].name PROVE i = j
  <2>1. idx[i].name \in Names /\ i \in DOMAIN idx /\ j \in DOMAIN idx
    BY <1>3 DEF DataRanks, IsData, Entries, AllNames
  <2> QED
    BY <1>1, <1>7, <2>1 DEF InOrder
<1> QED
  BY <1>5, <1>6, <1>7 DEF Disjoint, idx, ioffi

-----------------------------------------------------------------------------
(* Greatest numbers. *)

LEMMA GreatestNumber ==
  ASSUME NEW n \in Nat, NEW S \in SUBSET (0 .. n), S # {}
  PROVE  \E x \in S : \A y \in S : y <= x
<1> DEFINE T == {m \in Nat : \E x \in S : m = n - x}
<1>1. T \in SUBSET Nat /\ T # {}
  <2>1. PICK x \in S : TRUE
    OBVIOUS
  <2>2. n - x \in Nat
    BY <2>1
  <2> QED
    BY <2>2
<1>2. \A x \in S : n - x \in T
  OBVIOUS
<1>3. \A m \in T : \E x \in S : m = n - x
  OBVIOUS
<1> HIDE DEF T
<1>4. PICK m \in T : \A k \in T : m <= k
  BY <1>1, LeastNumber
<1>5. PICK x \in S : m = n - x
  BY <1>3
<1>6. ASSUME NEW y \in S PROVE y <= x
  <2>1. m <= n - y
    BY <1>2, <1>4
  <2>2. x \in Int /\ y \in Int
    OBVIOUS
  <2> QED
    BY <1>5, <2>1, <2>2
<1> QED
  BY <1>6

-----------------------------------------------------------------------------
(* Pages. *)

LEMMA Division ==
  ASSUME NEW a \in Int, NEW b \in Nat \ {0}
  PROVE  a \div b \in Int /\ a % b \in 0 .. b - 1 /\ a = b * (a \div b) + (a % b)
OBVIOUS

LEMMA Quotient ==
  ASSUME NEW q \in Int, NEW b \in Nat \ {0}
  PROVE  (b * q) \div b = q
<1> DEFINE a == b * q
           y == a \div b
<1>1. a \in Int
  OBVIOUS
<1>2. y \in Int /\ a % b \in 0 .. b - 1 /\ a = b * y + (a % b)
  <2> HIDE DEF a
  <2> QED
    BY <1>1, Division
<1> HIDE DEF y
<1>3. ASSUME y < q PROVE FALSE
  <2>1. b * (y + 1) <= b * q
    BY <1>2, <1>3
  <2> QED
    BY <2>1, <1>2
<1>4. ASSUME y > q PROVE FALSE
  <2>1. b * (q + 1) <= b * y
    BY <1>2, <1>4
  <2> QED
    BY <2>1, <1>2
<1> QED
  BY <1>2, <1>3, <1>4 DEF y

LEMMA PageUpIs ==
  ASSUME Page \in Nat, Page >= 8, NEW w \in Int
  PROVE  /\ PageUp(w) \in Int /\ PageUp(w) >= w
         /\ \E q \in Int : PageUp(w) = Page * q
<1> DEFINE a == w + Page - 1
           q == a \div Page
<1>1. a \in Int /\ Page \in Nat \ {0}
  OBVIOUS
<1>2. q \in Int /\ a % Page \in 0 .. Page - 1 /\ a = Page * q + (a % Page)
  <2> HIDE DEF a
  <2> QED
    BY <1>1, Division
<1>3. PageUp(w) = q * Page
  BY DEF PageUp
<1> HIDE DEF q
<1>4. q * Page = Page * q /\ Page * q \in Int
  BY <1>2
<1>5. a - (a % Page) >= w
  BY <1>2
<1> QED
  BY <1>2, <1>3, <1>4, <1>5

-----------------------------------------------------------------------------
(* Changes of one entry, and of the end of the index. *)

LEMMA ReplacedInOrder ==
  ASSUME NEW page \in Nat, NEW idx \in Seq(Entries), InOrder(idx, page),
         NEW i \in DOMAIN idx, NEW e \in Entries, e.name # Fin, e.pos >= 3 * page + 1,
         \A j \in DOMAIN idx \ {i} : e.name \in Names => idx[j].name # e.name,
         \A j \in DOMAIN idx : j < i => idx[j].name # Fin /\ Before(idx[j], e),
         \A j \in DOMAIN idx : i < j /\ idx[j].name # Fin => Before(e, idx[j])
  PROVE  /\ [idx EXCEPT ![i] = e] \in Seq(Entries)
         /\ InOrder([idx EXCEPT ![i] = e], page)
<1> DEFINE new == [idx EXCEPT ![i] = e]
<1>1. /\ new \in Seq(Entries) /\ Len(new) = Len(idx) /\ DOMAIN new = DOMAIN idx
      /\ \A j \in DOMAIN idx : new[j] = IF j = i THEN e ELSE idx[j]
      /\ DOMAIN idx \subseteq Int
  BY ExceptSeq
<1> HIDE DEF new
<1>2. ASSUME NEW j \in DOMAIN new, NEW k \in DOMAIN new, j < k, new[j].name = Fin
      PROVE  new[k].name = Fin
  <2>1. j # i /\ idx[j].name = Fin
    BY <1>1, <1>2
  <2>2. ~(j < i)
    BY <1>1, <2>1
  <2>3. k # i
    BY <2>1, <2>2, <1>1, <1>2
  <2> QED
    BY <1>1, <1>2, <2>1, <2>3 DEF InOrder
<1>3. \A j \in DOMAIN new : new[j].name # Fin => new[j].pos >= 3 * page + 1
  BY <1>1 DEF InOrder
<1>4. ASSUME NEW j \in DOMAIN new, NEW k \in DOMAIN new, j < k, new[k].name # Fin
      PROVE  Before(new[j], new[k])
  <2>1. CASE j = i
    BY <2>1, <1>1, <1>4
  <2>2. CASE k = i
    BY <2>2, <1>1, <1>4
  <2>3. CASE j # i /\ k # i
    BY <2>3, <1>1, <1>4 DEF InOrder
  <2> QED
    BY <2>1, <2>2, <2>3
<1>5. ASSUME NEW j \in DOMAIN new, NEW k \in DOMAIN new, new[j].name \in Names, new[j].name = new[k].name
      PROVE  j = k
  <2>1. CASE j = i \/ k = i
    BY <2>1, <1>1, <1>5
  <2>2. CASE j # i /\ k # i
    BY <2>2, <1>1, <1>5 DEF InOrder
  <2> QED
    BY <2>1, <2>2
<1>6. InOrder(new, page)
  BY <1>2, <1>3, <1>4, <1>5 DEF InOrder
<1> QED
  BY <1>1, <1>6 DEF new

LEMMA NamesApart ==
  ASSUME NamesAssumption
  PROVE  /\ Fin \notin Names /\ Trou \notin Names /\ Sect \notin Names
         /\ Fin # Trou /\ Fin # Sect /\ Trou # Sect
BY DEF NamesAssumption, Fin, Trou, Sect, Junk

\* Another name for entry i.
LEMMA RenamedInOrder ==
  ASSUME NEW page \in Nat, NEW idx \in Seq(Entries), InOrder(idx, page), NEW i \in DOMAIN idx,
         idx[i].name # Fin, NEW n \in AllNames, n # Fin,
         \A j \in DOMAIN idx \ {i} : n \in Names => idx[j].name # n
  PROVE  /\ [idx EXCEPT ![i] = Entry(n, idx[i].pos, idx[i].len)] \in Seq(Entries)
         /\ InOrder([idx EXCEPT ![i] = Entry(n, idx[i].pos, idx[i].len)], page)
<1> DEFINE e == Entry(n, idx[i].pos, idx[i].len)
<1>1. idx[i] \in Entries /\ DOMAIN idx \subseteq Int
  OBVIOUS
<1>2. e \in Entries /\ e.name = n /\ e.pos = idx[i].pos /\ e.len = idx[i].len
  BY <1>1 DEF Entry, Entries
<1> HIDE DEF e
<1>3. e.pos >= 3 * page + 1
  BY <1>2 DEF InOrder
<1>4. ASSUME NEW j \in DOMAIN idx, j < i PROVE idx[j].name # Fin /\ Before(idx[j], e)
  BY <1>2, <1>4 DEF InOrder, Before
<1>5. ASSUME NEW j \in DOMAIN idx, i < j, idx[j].name # Fin PROVE Before(e, idx[j])
  BY <1>2, <1>5 DEF InOrder, Before
<1>6. /\ [idx EXCEPT ![i] = e] \in Seq(Entries)
      /\ InOrder([idx EXCEPT ![i] = e], page)
  BY <1>2, <1>3, <1>4, <1>5, ReplacedInOrder
<1> QED
  BY <1>6 DEF e

\* The hole a suppressed article leaves.
NextOf(idx, i) == IF i < Len(idx) THEN idx[i + 1] ELSE Free
Hole(idx, i) == Entry(Trou, idx[i].pos, 1 + HoleEnd(idx[i], NextOf(idx, i)) - idx[i].pos)

LEMMA HoleInOrder ==
  ASSUME NamesAssumption, Page \in Nat, Page >= 8,
         NEW idx \in Seq(Entries), InOrder(idx, Page), NEW i \in DOMAIN idx, idx[i].name # Fin
  PROVE  /\ [idx EXCEPT ![i] = Hole(idx, i)] \in Seq(Entries)
         /\ InOrder([idx EXCEPT ![i] = Hole(idx, i)], Page)
         /\ Hole(idx, i) \in Entries
         /\ NextOf(idx, i).name # Fin => Before(Hole(idx, i), NextOf(idx, i))
         /\ NextOf(idx, i).name # Fin => Hole(idx, i).pos + Hole(idx, i).len = NextOf(idx, i).pos
<1> DEFINE e == idx[i]
           next == NextOf(idx, i)
           h == Hole(idx, i)
<1>1. e \in Entries /\ DOMAIN idx = 1 .. Len(idx) /\ Len(idx) \in Nat /\ i \in 1 .. Len(idx)
  OBVIOUS
<1>2. e.pos \in Nat /\ e.len \in Nat /\ e.name \in AllNames /\ e.pos >= 3 * Page + 1
  BY <1>1 DEF Entries, InOrder
<1>3. CASE next.name # Fin
  <2>1. i < Len(idx) /\ next = idx[i + 1] /\ i + 1 \in DOMAIN idx
    BY <1>1, <1>3 DEF NextOf, Free, Entry
  <2>2. /\ next \in Entries /\ Before(e, next) /\ next.pos \in Nat /\ next.len \in Nat
    <3>1. next \in Entries /\ Before(e, next)
      BY <2>1, <1>1, <1>3 DEF InOrder
    <3> HIDE DEF next
    <3> QED
      BY <3>1 DEF Entries
  <2>3. h = Entry(Trou, e.pos, next.pos - e.pos)
    <3>1. HoleEnd(e, next) = next.pos - 1 /\ next.pos \in Nat
      BY <1>3, <2>2 DEF HoleEnd, Entries
    <3>2. 1 + HoleEnd(e, next) - e.pos = next.pos - e.pos
      BY <3>1, <1>2
    <3> QED
      BY <3>2 DEF Hole
  <2>4. next.pos - e.pos \in Nat /\ e.pos + (next.pos - e.pos) = next.pos /\ next.pos \in Nat
    <3> HIDE DEF e, next
    <3> QED
      BY <1>2, <2>2 DEF Before
  <2>5. h \in Entries /\ h.name = Trou /\ h.pos = e.pos /\ h.len = next.pos - e.pos
    BY <1>2, <2>3, <2>4 DEF Entry, Entries, AllNames
  <2> HIDE DEF h, next, e
  <2>6. ASSUME NEW j \in DOMAIN idx, j < i PROVE idx[j].name # Fin /\ Before(idx[j], h)
    BY <2>5, <2>6 DEF InOrder, Before, e
  <2>7. ASSUME NEW j \in DOMAIN idx, i < j, idx[j].name # Fin PROVE Before(h, idx[j])
    <3>1. CASE j = i + 1
      BY <3>1, <2>1, <2>4, <2>5 DEF Before
    <3>2. CASE j > i + 1
      <4>1. Before(next, idx[j])
        BY <2>1, <2>7, <3>2 DEF InOrder
      <4>2. idx[j] \in Entries
        OBVIOUS
      <4>3. idx[j].pos \in Nat
        BY <4>2 DEF Entries
      <4> QED
        BY <4>1, <4>3, <2>2, <2>4, <2>5 DEF Before
    <3> QED
      BY <3>1, <3>2, <2>7, <1>1
  <2>8. h.name \notin Names /\ h.name # Fin /\ h.pos >= 3 * Page + 1
    BY <2>5, <1>2, NamesApart
  <2>9. /\ [idx EXCEPT ![i] = h] \in Seq(Entries)
        /\ InOrder([idx EXCEPT ![i] = h], Page)
    BY <2>5, <2>6, <2>7, <2>8, ReplacedInOrder
  <2>10. Before(h, next) /\ h.pos + h.len = next.pos
    BY <2>4, <2>5 DEF Before
  <2> QED
    BY <2>5, <2>9, <2>10 DEF h, next
<1>4. CASE next.name = Fin
  <2> DEFINE w == e.pos - 1 + e.len
  <2>1. w \in Int /\ PageUp(w) \in Int /\ PageUp(w) >= w
    <3>1. w \in Int
      BY <1>2
    <3> HIDE DEF w
    <3> QED
      BY <3>1, PageUpIs
  <2>2. h = Entry(Trou, e.pos, 1 + PageUp(w) - e.pos)
    BY <1>4 DEF Hole, HoleEnd
  <2>3. 1 + PageUp(w) - e.pos \in Nat
    BY <1>2, <2>1
  <2>4. h \in Entries /\ h.name = Trou /\ h.pos = e.pos
    BY <1>2, <2>2, <2>3 DEF Entry, Entries, AllNames
  <2> HIDE DEF h, e, w
  <2>5. ASSUME NEW j \in DOMAIN idx, j < i PROVE idx[j].name # Fin /\ Before(idx[j], h)
    BY <2>4, <2>5 DEF InOrder, Before, e
  <2>6. ASSUME NEW j \in DOMAIN idx, i < j, idx[j].name # Fin PROVE Before(h, idx[j])
    <3>1. i < Len(idx) /\ i + 1 \in DOMAIN idx /\ idx[i + 1].name = Fin
      BY <1>1, <1>4, <2>6 DEF NextOf
    <3>2. idx[j].name = Fin
      BY <3>1, <2>6, <1>1 DEF InOrder
    <3> QED
      BY <3>2, <2>6
  <2>7. h.name \notin Names /\ h.name # Fin /\ h.pos >= 3 * Page + 1
    BY <2>4, <1>2, NamesApart
  <2>8. /\ [idx EXCEPT ![i] = h] \in Seq(Entries)
        /\ InOrder([idx EXCEPT ![i] = h], Page)
    BY <2>4, <2>5, <2>6, <2>7, ReplacedInOrder
  <2> QED
    BY <1>4, <2>4, <2>8 DEF h
<1> QED
  BY <1>3, <1>4

-----------------------------------------------------------------------------
(* What the searches find. *)

LEMMA LookupIs ==
  ASSUME NEW f \in Files, NEW n
  PROVE  /\ Lookup(f, n) \in 0 .. Len(f.idx)
         /\ Lookup(f, n) # 0 => f.idx[Lookup(f, n)].name = n
         /\ Lookup(f, n) = 0 => \A i \in DOMAIN f.idx : f.idx[i].name # n
<1> DEFINE near == {i \in {f.iart - 1, f.iart} : f.iart > 0 /\ i \in 1 .. Nart(f) /\ f.idx[i].name = n}
           all  == {i \in 1 .. Nart(f) : f.idx[i].name = n}
           cand == IF near # {} THEN near ELSE all
           least == CHOOSE i \in cand : \A j \in cand : i <= j
<1>1. Lookup(f, n) = IF cand = {} THEN 0 ELSE least
  BY DEF Lookup
<1>2. f.idx \in Seq(Entries) /\ Len(f.idx) \in Nat /\ DOMAIN f.idx = 1 .. Len(f.idx) /\ Nart(f) = Len(f.idx)
  BY DEF Files, Nart
<1>3. cand \subseteq all /\ (cand = {} => all = {})
  OBVIOUS
<1>4. all \in SUBSET Nat
  BY <1>2
<1> HIDE DEF cand
<1>5. cand # {} => least \in cand
  <2> SUFFICES ASSUME cand # {} PROVE least \in cand
    OBVIOUS
  <2>1. \E i \in cand : \A j \in cand : i <= j
    BY <1>3, <1>4, LeastNumber
  <2> QED
    BY <2>1
<1> HIDE DEF least
<1>6. CASE cand = {}
  BY <1>1, <1>2, <1>3, <1>6
<1>7. CASE cand # {}
  <2>1. least \in 1 .. Len(f.idx) /\ f.idx[least].name = n
    BY <1>2, <1>3, <1>5, <1>7
  <2>2. Lookup(f, n) = least
    BY <1>1, <1>7
  <2> QED
    BY <1>2, <2>1, <2>2
<1> QED
  BY <1>6, <1>7

LEMMA BestHoleIs ==
  ASSUME NEW idx \in Seq(Entries), NEW len \in Int
  PROVE  /\ BestHole(idx, len) \in 0 .. Len(idx)
         /\ \/ BestHole(idx, len) = 0 /\ \A i \in DOMAIN idx : idx[i].name # Fin
            \/ BestHole(idx, len) # 0 /\ Fits(idx[BestHole(idx, len)], len)
            \/ /\ BestHole(idx, len) # 0 /\ idx[BestHole(idx, len)].name = Fin
               /\ \A i \in DOMAIN idx : i < BestHole(idx, len) => idx[i].name # Fin
<1> DEFINE fins  == {i \in DOMAIN idx : idx[i].name = Fin}
           first == CHOOSE i \in fins : \A j \in fins : i <= j
           end   == IF fins = {} THEN Len(idx) + 1 ELSE first
           holes == {i \in 1 .. end - 1 : Fits(idx[i], len)}
           best  == {i \in holes : \A j \in holes : idx[i].len <= idx[j].len}
           least == CHOOSE i \in best : \A j \in best : i <= j
           b     == BestHole(idx, len)
<1>1. b = IF holes # {} THEN least ELSE IF end <= Len(idx) THEN end ELSE 0
  BY DEF BestHole
<1>2. Len(idx) \in Nat /\ DOMAIN idx = 1 .. Len(idx) /\ \A i \in DOMAIN idx : idx[i] \in Entries
  OBVIOUS
<1>3. /\ end \in 1 .. Len(idx) + 1
      /\ \A i \in DOMAIN idx : i < end => idx[i].name # Fin
      /\ end <= Len(idx) => end \in DOMAIN idx /\ idx[end].name = Fin
  <2>1. CASE fins = {}
    BY <1>2, <2>1
  <2>2. CASE fins # {}
    <3>1. fins \in SUBSET Nat
      BY <1>2
    <3> HIDE DEF fins
    <3>2. \E i \in fins : \A j \in fins : i <= j
      BY <2>2, <3>1, LeastNumber
    <3>3. first \in fins /\ \A j \in fins : first <= j
      BY <3>2
    <3>4. end = first
      BY <2>2
    <3> HIDE DEF first, end
    <3>5. first \in DOMAIN idx /\ idx[first].name = Fin
      BY <3>3 DEF fins
    <3>6. ASSUME NEW i \in DOMAIN idx, i < first PROVE idx[i].name # Fin
      <4>1. i \in Int /\ first \in Int
        BY <1>2, <3>5
      <4>2. i \notin fins
        BY <3>3, <3>6, <4>1
      <4> QED
        BY <4>2 DEF fins
    <3> QED
      BY <1>2, <3>4, <3>5, <3>6
  <2> QED
    BY <2>1, <2>2
<1> HIDE DEF end
<1>4. CASE holes # {}
  <2>1. holes \subseteq 1 .. Len(idx) /\ \A i \in holes : Fits(idx[i], len)
    BY <1>2, <1>3
  <2> HIDE DEF holes
  <2> DEFINE lens == {n \in Nat : \E i \in holes : n = idx[i].len}
  <2>2. \A i \in holes : idx[i].len \in Nat
    <3>1. \A i \in holes : idx[i] \in Entries
      BY <1>2, <2>1
    <3> QED
      BY <3>1 DEF Entries
  <2>3. PICK n \in lens : \A m \in lens : n <= m
    <3>1. lens # {} /\ lens \in SUBSET Nat
      BY <1>4, <2>2
    <3> HIDE DEF lens
    <3> QED
      BY <3>1, LeastNumber
  <2>4. PICK i \in holes : n = idx[i].len
    BY <2>3
  <2>5. i \in best
    <3>1. ASSUME NEW j \in holes PROVE idx[i].len <= idx[j].len
      <4>1. idx[j].len \in lens
        BY <2>2
      <4> HIDE DEF lens
      <4> QED
        BY <2>3, <2>4, <4>1
    <3> QED
      BY <3>1
  <2>6. best \subseteq holes /\ best \in SUBSET Nat
    <3>1. best \subseteq holes
      OBVIOUS
    <3>2. holes \subseteq Nat
      BY <1>2, <2>1
    <3> HIDE DEF best
    <3> QED
      BY <3>1, <3>2
  <2> HIDE DEF best
  <2>7. \E j \in best : \A k \in best : j <= k
    BY <2>5, <2>6, LeastNumber
  <2>8. least \in best
    BY <2>7
  <2> HIDE DEF least
  <2>9. least \in 1 .. Len(idx) /\ Fits(idx[least], len) /\ b = least
    BY <1>1, <1>4, <2>1, <2>6, <2>8
  <2> HIDE DEF b
  <2>10. b \in 0 .. Len(idx) /\ b # 0 /\ Fits(idx[b], len)
    BY <1>2, <2>9
  <2> QED
    BY <2>10 DEF b
<1>5. CASE holes = {} /\ end <= Len(idx)
  <2>1. b = end
    BY <1>1, <1>5
  <2> HIDE DEF b
  <2>2. b \in 0 .. Len(idx) /\ b # 0 /\ idx[b].name = Fin /\ \A i \in DOMAIN idx : i < b => idx[i].name # Fin
    BY <1>2, <1>3, <1>5, <2>1
  <2> QED
    BY <2>2 DEF b
<1>6. CASE holes = {} /\ ~(end <= Len(idx))
  <2>1. b = 0
    BY <1>1, <1>6
  <2>2. end = Len(idx) + 1
    BY <1>2, <1>3, <1>6
  <2>3. \A i \in DOMAIN idx : idx[i].name # Fin
    BY <1>2, <1>3, <2>2
  <2> QED
    BY <1>2, <2>1, <2>3
<1> QED
  BY <1>4, <1>5, <1>6

-----------------------------------------------------------------------------
(* The slot of a rewritten article. *)

\* A hole that reaches the next entry, as LFISUP leaves it.
Tight(idx, i) == NextOf(idx, i).name # Fin => idx[i].pos + idx[i].len = NextOf(idx, i).pos

LEMMA OwnSlotCases ==
  ASSUME NEW idx, NEW i, NEW len \in Int, idx[i].len \in Int
  PROVE  LET next == IF i < Len(idx) THEN idx[i + 1] ELSE Entry(Sect, 0, 0)
             more == len - idx[i].len
         IN  \/ more <= 0 /\ OwnSlot(idx, i, len) = [fit |-> i, idx |-> idx]
             \/ /\ more > 0 /\ Fits(next, more)
                /\ OwnSlot(idx, i, len)
                     = [fit |-> i, idx |-> [idx EXCEPT ![i].len = len, ![i + 1].pos = @ + more, ![i + 1].len = @ - more]]
             \/ /\ more > 0 /\ ~Fits(next, more) /\ next.name = Fin
                /\ OwnSlot(idx, i, len) = [fit |-> i, idx |-> [idx EXCEPT ![i].len = len]]
             \/ /\ more > 0 /\ ~Fits(next, more) /\ next.name # Fin
                /\ OwnSlot(idx, i, len) = [fit |-> 0, idx |-> idx]
<1> DEFINE next == IF i < Len(idx) THEN idx[i + 1] ELSE Entry(Sect, 0, 0)
           more == len - idx[i].len
           wide == [idx EXCEPT ![i].len = len, ![i + 1].pos = @ + more, ![i + 1].len = @ - more]
           long == [idx EXCEPT ![i].len = len]
<1>1. OwnSlot(idx, i, len)
        = CASE more <= 0                   -> [fit |-> i, idx |-> idx]
            [] more > 0 /\ Fits(next, more) -> [fit |-> i, idx |-> wide]
            [] more > 0 /\ next.name = Fin  -> [fit |-> i, idx |-> long]
            [] OTHER                        -> [fit |-> 0, idx |-> idx]
  BY DEF OwnSlot
<1>2. more \in Int
  OBVIOUS
<1>3. Fits(next, more) => next.name # Fin
  BY DEF Fits, Trou, Fin
<1> HIDE DEF next, more, wide, long
<1>4. \/ more <= 0 /\ OwnSlot(idx, i, len) = [fit |-> i, idx |-> idx]
      \/ more > 0 /\ Fits(next, more) /\ OwnSlot(idx, i, len) = [fit |-> i, idx |-> wide]
      \/ more > 0 /\ ~Fits(next, more) /\ next.name = Fin /\ OwnSlot(idx, i, len) = [fit |-> i, idx |-> long]
      \/ more > 0 /\ ~Fits(next, more) /\ next.name # Fin /\ OwnSlot(idx, i, len) = [fit |-> 0, idx |-> idx]
  <2>1. CASE more <= 0
    BY <1>1, <1>2, <1>3, <2>1
  <2>2. CASE more > 0 /\ Fits(next, more)
    BY <1>1, <1>2, <1>3, <2>2
  <2>3. CASE more > 0 /\ ~Fits(next, more) /\ next.name = Fin
    BY <1>1, <1>2, <1>3, <2>3
  <2>4. CASE more > 0 /\ ~Fits(next, more) /\ next.name # Fin
    BY <1>1, <1>2, <1>3, <2>4
  <2> QED
    BY <1>2, <2>1, <2>2, <2>3, <2>4
<1> QED
  BY <1>4 DEF next, more, wide, long

\* new has the free slots and the placeholders of idx.
Like(idx, new) ==
  /\ DOMAIN new = DOMAIN idx
  /\ \A j \in DOMAIN idx : idx[j].name \in {Fin, Sect} \/ new[j].name \in {Fin, Sect} => new[j] = idx[j]

LEMMA ReplacedIsLike ==
  ASSUME NEW idx \in Seq(Entries), NEW i \in DOMAIN idx, NEW e,
         idx[i].name \notin {Fin, Sect}, e.name \notin {Fin, Sect}
  PROVE  Like(idx, [idx EXCEPT ![i] = e])
BY DEF Like

LEMMA LikeLike ==
  ASSUME NEW a, NEW b, NEW c, Like(a, b), Like(b, c)
  PROVE  Like(a, c)
BY DEF Like

\* Lengths that leave the end of the slot where it is, or draw it in.
LEMMA ShortenedInOrder ==
  ASSUME NEW page \in Nat, NEW idx \in Seq(Entries), InOrder(idx, page),
         NEW i \in DOMAIN idx, idx[i].name # Fin, NEW len \in Nat, len <= idx[i].len,
         NEW n \in AllNames, n # Fin, \A j \in DOMAIN idx \ {i} : n \in Names => idx[j].name # n
  PROVE  /\ [idx EXCEPT ![i] = Entry(n, idx[i].pos, len)] \in Seq(Entries)
         /\ InOrder([idx EXCEPT ![i] = Entry(n, idx[i].pos, len)], page)
<1> DEFINE e == Entry(n, idx[i].pos, len)
<1>1. idx[i] \in Entries /\ DOMAIN idx \subseteq Int
  OBVIOUS
<1>2. e \in Entries /\ e.name = n /\ e.pos = idx[i].pos /\ e.len = len /\ idx[i].pos \in Nat /\ idx[i].len \in Nat
  BY <1>1 DEF Entry, Entries
<1> HIDE DEF e
<1>3. e.pos >= 3 * page + 1
  BY <1>2 DEF InOrder
<1>4. ASSUME NEW j \in DOMAIN idx, j < i PROVE idx[j].name # Fin /\ Before(idx[j], e)
  BY <1>2, <1>4 DEF InOrder, Before
<1>5. ASSUME NEW j \in DOMAIN idx, i < j, idx[j].name # Fin PROVE Before(e, idx[j])
  <2>1. Before(idx[i], idx[j]) /\ idx[j] \in Entries
    BY <1>5 DEF InOrder
  <2>2. idx[j].pos \in Nat
    BY <2>1 DEF Entries
  <2> QED
    BY <2>1, <2>2, <1>2 DEF Before
<1>6. /\ [idx EXCEPT ![i] = e] \in Seq(Entries)
      /\ InOrder([idx EXCEPT ![i] = e], page)
  BY <1>2, <1>3, <1>4, <1>5, ReplacedInOrder
<1> QED
  BY <1>6 DEF e

\* The last entry before the free slots may have any length.
LEMMA LengthenedInOrder ==
  ASSUME NEW page \in Nat, NEW idx \in Seq(Entries), InOrder(idx, page),
         NEW i \in DOMAIN idx, idx[i].name # Fin, NextOf(idx, i).name = Fin, NEW len \in Nat,
         NEW n \in AllNames, n # Fin, \A j \in DOMAIN idx \ {i} : n \in Names => idx[j].name # n
  PROVE  /\ [idx EXCEPT ![i] = Entry(n, idx[i].pos, len)] \in Seq(Entries)
         /\ InOrder([idx EXCEPT ![i] = Entry(n, idx[i].pos, len)], page)
<1> DEFINE e == Entry(n, idx[i].pos, len)
<1>1. idx[i] \in Entries /\ DOMAIN idx = 1 .. Len(idx) /\ Len(idx) \in Nat
  OBVIOUS
<1>2. e \in Entries /\ e.name = n /\ e.pos = idx[i].pos /\ e.len = len
  BY <1>1 DEF Entry, Entries
<1> HIDE DEF e
<1>3. e.pos >= 3 * page + 1
  BY <1>2 DEF InOrder
<1>4. ASSUME NEW j \in DOMAIN idx, j < i PROVE idx[j].name # Fin /\ Before(idx[j], e)
  BY <1>2, <1>4 DEF InOrder, Before
<1>5. ASSUME NEW j \in DOMAIN idx, i < j, idx[j].name # Fin PROVE Before(e, idx[j])
  <2>1. i < Len(idx) /\ i + 1 \in DOMAIN idx /\ idx[i + 1].name = Fin
    BY <1>1, <1>5 DEF NextOf
  <2>2. j = i + 1 \/ i + 1 < j
    BY <1>1, <1>5
  <2>3. idx[j].name = Fin
    BY <2>1, <2>2 DEF InOrder
  <2> QED
    BY <2>3, <1>5
<1>6. /\ [idx EXCEPT ![i] = e] \in Seq(Entries)
      /\ InOrder([idx EXCEPT ![i] = e], page)
  BY <1>2, <1>3, <1>4, <1>5, ReplacedInOrder
<1> QED
  BY <1>6 DEF e

\* A hole takes some words of the next one.
LEMMA WidenedInOrder ==
  ASSUME NamesAssumption, NEW page \in Nat, NEW idx \in Seq(Entries), InOrder(idx, page),
         NEW i \in DOMAIN idx, i + 1 \in DOMAIN idx,
         NEW p \in Nat, NEW l \in Nat, NEW m \in Nat, NEW more \in Nat, more <= m,
         idx[i] = Entry(Trou, p, l), idx[i + 1] = Entry(Trou, p + l, m)
  PROVE  LET new == [idx EXCEPT ![i] = Entry(Trou, p, l + more), ![i + 1] = Entry(Trou, p + l + more, m - more)]
         IN  new \in Seq(Entries) /\ InOrder(new, page) /\ Like(idx, new)
<1> DEFINE e   == Entry(Trou, p + l + more, m - more)
           h   == Entry(Trou, p, l + more)
           new == [idx EXCEPT ![i] = h, ![i + 1] = e]
           mid == [idx EXCEPT ![i + 1] = e]
<1>1. DOMAIN idx = 1 .. Len(idx) /\ Len(idx) \in Nat /\ i \in Int /\ i # i + 1
  OBVIOUS
<1>2. /\ idx[i].name = Trou /\ idx[i].pos = p /\ idx[i].len = l
      /\ idx[i + 1].name = Trou /\ idx[i + 1].pos = p + l /\ idx[i + 1].len = m
  BY DEF Entry
<1>3. Trou \notin Names /\ Trou # Fin /\ Trou # Sect
  BY NamesApart
<1>4. /\ e \in Entries /\ e.name = Trou /\ e.pos = p + l + more /\ e.len = m - more
      /\ h \in Entries /\ h.name = Trou /\ h.pos = p /\ h.len = l + more
  <2>1. p + l + more \in Nat /\ m - more \in Nat /\ l + more \in Nat
    OBVIOUS
  <2> QED
    BY <2>1 DEF Entries, Entry, AllNames
<1>5. [mid EXCEPT ![i] = h] = new
  <2> HIDE DEF e, h
  <2> QED
    BY <1>1
<1> HIDE DEF e, h
<1>6. p >= 3 * page + 1
  BY <1>2, <1>3 DEF InOrder
<1>7. mid \in Seq(Entries) /\ InOrder(mid, page)
  <2>1. e.pos >= 3 * page + 1
    BY <1>4, <1>6
  <2>2. ASSUME NEW j \in DOMAIN idx, j < i + 1 PROVE idx[j].name # Fin /\ Before(idx[j], e)
    <3>1. idx[j].name # Fin /\ Before(idx[j], idx[i + 1]) /\ idx[j] \in Entries
      BY <1>2, <1>3, <2>2 DEF InOrder
    <3>2. idx[j].pos \in Nat /\ idx[j].len \in Nat
      BY <3>1 DEF Entries
    <3> QED
      BY <3>1, <3>2, <1>2, <1>4 DEF Before
  <2>3. ASSUME NEW j \in DOMAIN idx, i + 1 < j, idx[j].name # Fin PROVE Before(e, idx[j])
    <3>1. Before(idx[i + 1], idx[j])
      BY <2>3 DEF InOrder
    <3>2. p + l + more + (m - more) = p + l + m
      OBVIOUS
    <3> QED
      BY <3>1, <3>2, <1>2, <1>4 DEF Before
  <2> QED
    BY <1>4, <1>3, <2>1, <2>2, <2>3, ReplacedInOrder
<1>8. Len(mid) = Len(idx) /\ DOMAIN mid = DOMAIN idx /\ \A j \in DOMAIN idx : mid[j] = IF j = i + 1 THEN e ELSE idx[j]
  OBVIOUS
<1> HIDE DEF mid
<1>9. [mid EXCEPT ![i] = h] \in Seq(Entries) /\ InOrder([mid EXCEPT ![i] = h], page)
  <2>1. h.pos >= 3 * page + 1
    BY <1>4, <1>6
  <2>2. ASSUME NEW j \in DOMAIN mid, j < i PROVE mid[j].name # Fin /\ Before(mid[j], h)
    <3>1. idx[j].name # Fin /\ Before(idx[j], idx[i]) /\ mid[j] = idx[j]
      BY <1>1, <1>2, <1>3, <1>8, <2>2 DEF InOrder
    <3> QED
      BY <3>1, <1>2, <1>4 DEF Before
  <2>3. ASSUME NEW j \in DOMAIN mid, i < j, mid[j].name # Fin PROVE Before(h, mid[j])
    <3>1. CASE j = i + 1
      <4>1. mid[j] = e
        BY <3>1, <1>8
      <4>2. p + (l + more) <= p + l + more
        OBVIOUS
      <4> QED
        BY <4>1, <4>2, <1>4 DEF Before
    <3>2. CASE j # i + 1
      <4>1. i + 1 < j /\ mid[j] = idx[j] /\ j \in DOMAIN idx
        BY <1>1, <1>8, <2>3, <3>2
      <4>2. Before(idx[i + 1], idx[j]) /\ idx[j] \in Entries
        BY <4>1, <2>3 DEF InOrder
      <4>3. idx[j].pos \in Nat
        BY <4>2 DEF Entries
      <4>4. p + l + m <= idx[j].pos
        BY <4>2, <1>2 DEF Before
      <4>5. p + (l + more) <= idx[j].pos
        BY <4>3, <4>4
      <4> QED
        BY <4>1, <4>5, <1>4 DEF Before
    <3> QED
      BY <3>1, <3>2
  <2>4. i \in DOMAIN mid
    BY <1>8
  <2> QED
    BY <1>4, <1>3, <1>7, <2>1, <2>2, <2>3, <2>4, ReplacedInOrder
<1>10. Like(idx, new)
  BY <1>1, <1>2, <1>3, <1>4 DEF Like
<1> HIDE DEF new
<1>11. new \in Seq(Entries) /\ InOrder(new, page)
  BY <1>5, <1>9
<1> QED
  BY <1>10, <1>11 DEF new, e, h

LEMMA EntryIs ==
  ASSUME NEW e \in Entries
  PROVE  e = Entry(e.name, e.pos, e.len) /\ e.name \in AllNames /\ e.pos \in Nat /\ e.len \in Nat
BY DEF Entries, Entry

LEMMA OwnSlotInOrder ==
  ASSUME NamesAssumption, NEW page \in Nat, NEW idx \in Seq(Entries), InOrder(idx, page),
         NEW i \in DOMAIN idx, idx[i].name = Trou, Tight(idx, i), NEW len \in Nat
  PROVE  LET o == OwnSlot(idx, i, len)
         IN  /\ o.idx \in Seq(Entries) /\ InOrder(o.idx, page) /\ Like(idx, o.idx)
             /\ \/ o.fit = 0 /\ o.idx = idx
                \/ o.fit = i /\ o.idx[i].name = Trou /\ len <= o.idx[i].len
             /\ \A j \in DOMAIN idx : o.idx[j].name \in Names => o.idx[j] = idx[j]
<1> DEFINE next == IF i < Len(idx) THEN idx[i + 1] ELSE Entry(Sect, 0, 0)
           more == len - idx[i].len
           p    == idx[i].pos
           l    == idx[i].len
           o    == OwnSlot(idx, i, len)
           wide == [idx EXCEPT ![i].len = len, ![i + 1].pos = @ + more, ![i + 1].len = @ - more]
           long == [idx EXCEPT ![i].len = len]
<1>1. /\ DOMAIN idx = 1 .. Len(idx) /\ Len(idx) \in Nat /\ i \in Int /\ i # i + 1
      /\ idx[i] \in Entries
  OBVIOUS
<1>2. idx[i] = Entry(Trou, p, l) /\ p \in Nat /\ l \in Nat
  BY <1>1, EntryIs
<1> HIDE DEF p
<1>3. Trou \notin Names /\ Trou # Fin /\ Trou # Sect /\ Trou \in AllNames
  BY NamesApart DEF AllNames
<1>4. len \in Int /\ idx[i].len \in Int /\ l = idx[i].len
  BY <1>2
<1>5. \/ more <= 0 /\ o = [fit |-> i, idx |-> idx]
      \/ more > 0 /\ Fits(next, more) /\ o = [fit |-> i, idx |-> wide]
      \/ more > 0 /\ ~Fits(next, more) /\ next.name = Fin /\ o = [fit |-> i, idx |-> long]
      \/ more > 0 /\ ~Fits(next, more) /\ next.name # Fin /\ o = [fit |-> 0, idx |-> idx]
  BY <1>4, OwnSlotCases
<1>6. Like(idx, idx)
  BY DEF Like
<1>7. more = len - l /\ more \in Int /\ len = l + more
  <2>1. more = len - l
    OBVIOUS
  <2> HIDE DEF l
  <2> QED
    BY <2>1, <1>2
<1> HIDE DEF l, next, o, wide, long, more
<1>8. CASE more <= 0 /\ o = [fit |-> i, idx |-> idx]
  <2>1. len <= l
    BY <1>2, <1>7, <1>8
  <2>2. o.idx = idx /\ o.fit = i
    BY <1>8
  <2> QED
    BY <2>1, <2>2, <1>4, <1>6 DEF o
<1>9. CASE more > 0 /\ Fits(next, more) /\ o = [fit |-> i, idx |-> wide]
  <2>1. i < Len(idx) /\ next = idx[i + 1] /\ next.name = Trou /\ next.len >= more
    BY <1>3, <1>9 DEF next, Fits, Entry
  <2>2. i + 1 \in DOMAIN idx /\ idx[i + 1] \in Entries
    BY <2>1, <1>1
  <2> DEFINE m == next.len
  <2>3. next = Entry(Trou, next.pos, m) /\ m \in Nat
    BY <2>1, <2>2, EntryIs
  <2>4. next.pos = p + l
    BY <2>1, <1>3 DEF Tight, NextOf, p, l
  <2>5. idx[i + 1] = Entry(Trou, p + l, m)
    BY <2>1, <2>3, <2>4
  <2>6. more \in Nat /\ more <= m
    BY <2>1, <2>3, <1>7, <1>9
  <2> HIDE DEF m
  <2>7. wide = [idx EXCEPT ![i] = Entry(Trou, p, l + more), ![i + 1] = Entry(Trou, p + l + more, m - more)]
    <3>1. [idx[i] EXCEPT !.len = len] = Entry(Trou, p, len)
      BY <1>2 DEF Entry
    <3>2. idx[i + 1].pos + more = p + l + more /\ idx[i + 1].len - more = m - more
      BY <2>5 DEF Entry
    <3> DEFINE q == p + l + more
               n == m - more
    <3>3. wide = [[[idx EXCEPT ![i].len = len] EXCEPT ![i + 1].pos = q] EXCEPT ![i + 1].len = n]
      BY <3>2, <1>1, <2>2 DEF wide
    <3> HIDE DEF q, n
    <3>4. [[idx[i + 1] EXCEPT !.pos = q] EXCEPT !.len = n] = Entry(Trou, q, n)
      <4>1. [idx[i + 1] EXCEPT !.pos = q] = Entry(Trou, q, m)
        BY <2>5 DEF Entry
      <4>2. [Entry(Trou, q, m) EXCEPT !.len = n] = Entry(Trou, q, n)
        BY DEF Entry
      <4> QED
        BY <4>1, <4>2
    <3>5. wide = [[idx EXCEPT ![i] = Entry(Trou, p, len)] EXCEPT ![i + 1] = Entry(Trou, q, n)]
      BY <3>1, <3>3, <3>4, <1>1, <2>2
    <3>6. wide = [idx EXCEPT ![i] = Entry(Trou, p, l + more), ![i + 1] = Entry(Trou, q, n)]
      BY <3>5, <1>7
    <3> QED
      BY <3>6 DEF q, n
  <2>8. wide \in Seq(Entries) /\ InOrder(wide, page) /\ Like(idx, wide)
    <3> DEFINE new == [idx EXCEPT ![i] = Entry(Trou, p, l + more), ![i + 1] = Entry(Trou, p + l + more, m - more)]
    <3>1. p \in Nat /\ l \in Nat /\ m \in Nat /\ more \in Nat /\ more <= m
      BY <2>3, <2>6, <1>2
    <3>2. new \in Seq(Entries) /\ InOrder(new, page) /\ Like(idx, new)
      BY <3>1, <2>2, <2>5, <1>2, WidenedInOrder
    <3> QED
      BY <2>7, <3>2
  <2>9. wide[i] = Entry(Trou, p, l + more)
    BY <2>7, <1>1
  <2>10. wide[i].name = Trou /\ wide[i].len = len
    BY <2>9, <1>7 DEF Entry
  <2>11. o.fit = i /\ o.idx = wide
    BY <1>9
  <2>12. Entry(Trou, p, l + more).name = Trou /\ Entry(Trou, p + l + more, m - more).name = Trou
    BY DEF Entry
  <2>13. \A j \in DOMAIN idx : wide[j].name \in Names => wide[j] = idx[j]
    BY <2>2, <2>7, <2>12, <1>1, <1>3
  <2> QED
    BY <2>8, <2>10, <2>11, <2>13 DEF o
<1>10. CASE more > 0 /\ ~Fits(next, more) /\ next.name = Fin /\ o = [fit |-> i, idx |-> long]
  <2>1. NextOf(idx, i).name = Fin
    BY <1>10 DEF next, NextOf, Free, Entry
  <2>2. long = [idx EXCEPT ![i] = Entry(Trou, p, len)]
    <3>1. [idx[i] EXCEPT !.len = len] = Entry(Trou, p, len)
      BY <1>2 DEF Entry
    <3> QED
      BY <3>1, <1>1 DEF long
  <2>3. long \in Seq(Entries) /\ InOrder(long, page)
    BY <2>1, <2>2, <1>3, LengthenedInOrder DEF p
  <2>4. Entry(Trou, p, len).name = Trou
    BY DEF Entry
  <2>5. Like(idx, long)
    BY <2>2, <2>4, <1>3, ReplacedIsLike
  <2>6. long[i] = Entry(Trou, p, len)
    BY <2>2
  <2>7. long[i].name = Trou /\ long[i].len = len
    BY <2>6 DEF Entry
  <2>8. o.fit = i /\ o.idx = long
    BY <1>10
  <2>9. \A j \in DOMAIN idx : long[j].name \in Names => long[j] = idx[j]
    BY <2>2, <2>4, <1>3
  <2> QED
    BY <2>3, <2>5, <2>7, <2>8, <2>9 DEF o
<1>11. CASE more > 0 /\ ~Fits(next, more) /\ next.name # Fin /\ o = [fit |-> 0, idx |-> idx]
  <2>1. o.fit = 0 /\ o.idx = idx
    BY <1>11
  <2> QED
    BY <2>1, <1>6 DEF o
<1> QED
  BY <1>5, <1>8, <1>9, <1>10, <1>11

-----------------------------------------------------------------------------
(* An article put in the first free slot, and a new section of the index. *)

LEMMA BeforeBefore ==
  ASSUME NEW a \in Entries, NEW b \in Entries, NEW c \in Entries, Before(a, b), Before(b, c)
  PROVE  Before(a, c)
<1>1. a.pos \in Nat /\ a.len \in Nat /\ b.pos \in Nat /\ b.len \in Nat /\ c.pos \in Nat
  BY EntryIs
<1>2. \A p, l, q, m, r \in Nat : p + l <= q /\ q + m <= r => p + l <= r
  OBVIOUS
<1>3. a.pos + a.len <= b.pos /\ b.pos + b.len <= c.pos
  BY DEF Before
<1>4. a.pos + a.len <= c.pos
  BY <1>1, <1>2, <1>3
<1> QED
  BY <1>4 DEF Before

LEMMA AppendedInOrder ==
  ASSUME NEW page \in Nat, NEW idx \in Seq(Entries), InOrder(idx, page),
         NEW x \in DOMAIN idx, \A i \in DOMAIN idx : i < x => idx[i].name # Fin, idx[x].name = Fin,
         NEW e \in Entries, e.name # Fin, e.pos >= 3 * page + 1,
         \A j \in DOMAIN idx \ {x} : e.name \in Names => idx[j].name # e.name,
         x > 1 => Before(idx[x - 1], e)
  PROVE  /\ [idx EXCEPT ![x] = e] \in Seq(Entries)
         /\ InOrder([idx EXCEPT ![x] = e], page)
<1>1. DOMAIN idx = 1 .. Len(idx) /\ Len(idx) \in Nat
  OBVIOUS
<1>2. ASSUME NEW j \in DOMAIN idx, j < x PROVE idx[j].name # Fin /\ Before(idx[j], e)
  <2>1. idx[j].name # Fin
    BY <1>2
  <2>2. CASE j = x - 1
    BY <1>1, <1>2, <2>1, <2>2
  <2>3. CASE j # x - 1
    <3>1. x - 1 \in DOMAIN idx /\ j < x - 1 /\ x - 1 < x /\ x > 1
      BY <1>1, <1>2, <2>3
    <3>2. Before(idx[j], idx[x - 1]) /\ Before(idx[x - 1], e)
      BY <3>1 DEF InOrder
    <3>3. idx[j] \in Entries /\ idx[x - 1] \in Entries
      BY <3>1
    <3> QED
      BY <2>1, <3>2, <3>3, BeforeBefore
  <2> QED
    BY <2>2, <2>3
<1>3. ASSUME NEW j \in DOMAIN idx, x < j, idx[j].name # Fin PROVE Before(e, idx[j])
  BY <1>3 DEF InOrder
<1> QED
  BY <1>2, <1>3, ReplacedInOrder

\* The index after a new section of size n: the article e takes the first of
\* its slots, the placeholder s the second.
Grown(idx, n, e, s) == idx \o [i \in 1 .. n + 1 |-> IF i = 1 THEN e ELSE IF i = 2 THEN s ELSE Free]

LEMMA GrownIs ==
  ASSUME NEW idx \in Seq(Entries), NEW n \in Nat \ {0}, NEW e \in Entries, NEW s \in Entries
  PROVE  /\ Grown(idx, n, e, s) \in Seq(Entries)
         /\ DOMAIN Grown(idx, n, e, s) = 1 .. Len(idx) + n + 1
         /\ \A i \in 1 .. Len(idx) + n + 1 :
              Grown(idx, n, e, s)[i] = IF i <= Len(idx) THEN idx[i] ELSE IF i = Len(idx) + 1 THEN e
                                       ELSE IF i = Len(idx) + 2 THEN s ELSE Free
<1> DEFINE new == [i \in 1 .. n + 1 |-> IF i = 1 THEN e ELSE IF i = 2 THEN s ELSE Free]
<1>1. Free \in Entries
  BY DEF Free, Entry, Entries, AllNames
<1>2. new \in Seq(Entries) /\ Len(new) = n + 1
  BY <1>1
<1>3. Len(idx) \in Nat /\ \A i \in 1 .. n + 1 : new[i] = IF i = 1 THEN e ELSE IF i = 2 THEN s ELSE Free
  OBVIOUS
<1> HIDE DEF new
<1>4. /\ idx \o new \in Seq(Entries) /\ Len(idx \o new) = Len(idx) + Len(new)
      /\ \A i \in 1 .. Len(idx) + Len(new) : (idx \o new)[i] = IF i <= Len(idx) THEN idx[i] ELSE new[i - Len(idx)]
  BY <1>2, ConcatProperties
<1> DEFINE g == idx \o new
<1>5. g = Grown(idx, n, e, s)
  BY DEF Grown, new
<1> HIDE DEF g
<1>6. ASSUME NEW i \in 1 .. Len(idx) + n + 1
      PROVE  g[i] = IF i <= Len(idx) THEN idx[i] ELSE IF i = Len(idx) + 1 THEN e
                    ELSE IF i = Len(idx) + 2 THEN s ELSE Free
  <2>1. g[i] = IF i <= Len(idx) THEN idx[i] ELSE new[i - Len(idx)]
    BY <1>2, <1>3, <1>4 DEF g
  <2>2. CASE i <= Len(idx)
    BY <2>1, <2>2
  <2>3. CASE ~(i <= Len(idx))
    <3>1. i - Len(idx) \in 1 .. n + 1 /\ (i - Len(idx) = 1 <=> i = Len(idx) + 1) /\ (i - Len(idx) = 2 <=> i = Len(idx) + 2)
      BY <1>3, <2>3
    <3> QED
      BY <1>3, <2>1, <2>3, <3>1
  <2> QED
    BY <2>2, <2>3
<1>7. DOMAIN g = 1 .. Len(idx) + n + 1
  <2>1. g \in Seq(Entries) /\ Len(g) = Len(idx) + (n + 1)
    BY <1>2, <1>4 DEF g
  <2>2. DOMAIN g = 1 .. Len(g)
    BY <2>1, LenProperties
  <2>3. Len(idx) + (n + 1) = Len(idx) + n + 1
    BY <1>3
  <2> QED
    BY <2>1, <2>2, <2>3
<1> QED
  BY <1>4, <1>5, <1>6, <1>7 DEF g

LEMMA GrownInOrder ==
  ASSUME NamesAssumption, NEW page \in Nat, NEW idx \in Seq(Entries), InOrder(idx, page), idx # <<>>,
         \A i \in DOMAIN idx : idx[i].name # Fin,
         NEW n \in Nat \ {0}, NEW e \in Entries, NEW s \in Entries,
         e.name # Fin, \A j \in DOMAIN idx : e.name \in Names => idx[j].name # e.name,
         Before(idx[Len(idx)], e), s.name = Sect, Before(e, s)
  PROVE  InOrder(Grown(idx, n, e, s), page)
<1> DEFINE l == Len(idx)
           g == Grown(idx, n, e, s)
<1>1. /\ g \in Seq(Entries) /\ DOMAIN g = 1 .. l + n + 1
      /\ \A i \in 1 .. l + n + 1 : g[i] = IF i <= l THEN idx[i] ELSE IF i = l + 1 THEN e ELSE IF i = l + 2 THEN s ELSE Free
  <2>1. g \in Seq(Entries)
    BY GrownIs
  <2>3. DOMAIN g = 1 .. l + n + 1
    BY GrownIs
  <2>2. \A i \in 1 .. l + n + 1 : g[i] = IF i <= l THEN idx[i] ELSE IF i = l + 1 THEN e ELSE IF i = l + 2 THEN s ELSE Free
    BY GrownIs
  <2> HIDE DEF g
  <2> QED
    BY <2>1, <2>2, <2>3
<1>2. l \in Nat \ {0} /\ DOMAIN idx = 1 .. l
  BY EmptySeq
<1> HIDE DEF g, l
<1>3. Free.name = Fin /\ Fin \notin Names /\ Sect \notin Names /\ Sect # Fin
  BY NamesApart DEF Free, Entry
<1>4. \A i \in 1 .. l : idx[i] \in Entries /\ idx[i].name # Fin
  BY <1>2
<1>5. ASSUME NEW i \in 1 .. l PROVE Before(idx[i], e)
  <2>1. CASE i = l
    BY <2>1 DEF l
  <2>2. CASE i < l
    <3>1. Before(idx[i], idx[l]) /\ Before(idx[l], e)
      BY <1>2, <1>4, <2>2 DEF InOrder, l
    <3>2. l \in 1 .. l
      BY <1>2
    <3>3. idx[i] \in Entries /\ idx[l] \in Entries
      BY <1>4, <3>2
    <3> QED
      BY <3>1, <3>3, BeforeBefore
  <2> QED
    BY <1>2, <2>1, <2>2
<1>6. ASSUME NEW i \in 1 .. l PROVE Before(idx[i], s)
  <2>1. idx[i] \in Entries /\ Before(idx[i], e)
    BY <1>4, <1>5
  <2> QED
    BY <2>1, BeforeBefore
<1>7. \A i \in DOMAIN g : g[i].name = Fin => i > l + 2
  BY <1>1, <1>2, <1>3, <1>4
<1>8. \A i \in DOMAIN g : i > l + 2 => g[i].name = Fin
  BY <1>1, <1>2, <1>3
<1>9. ASSUME NEW i \in DOMAIN g, NEW j \in DOMAIN g, i < j, g[i].name = Fin PROVE g[j].name = Fin
  BY <1>1, <1>2, <1>7, <1>8, <1>9
<1>10. ASSUME NEW i \in DOMAIN g, NEW j \in DOMAIN g, i < j, g[j].name # Fin PROVE Before(g[i], g[j])
  <2>1. j <= l + 2 /\ i < j
    BY <1>1, <1>2, <1>8, <1>10
  <2>2. CASE j <= l
    <3>1. g[i] = idx[i] /\ g[j] = idx[j] /\ i \in DOMAIN idx /\ j \in DOMAIN idx
      BY <1>1, <1>2, <2>1, <2>2
    <3> QED
      BY <3>1, <1>10 DEF InOrder
  <2>3. CASE j = l + 1
    <3>1. g[i] = idx[i] /\ g[j] = e /\ i \in 1 .. l
      BY <1>1, <1>2, <2>1, <2>3
    <3> QED
      BY <3>1, <1>5
  <2>4. CASE j = l + 2
    <3>1. CASE i = l + 1
      <4>1. g[i] = e /\ g[j] = s
        BY <1>1, <1>2, <2>4, <3>1
      <4> QED
        BY <4>1
    <3>2. CASE i # l + 1
      <4>1. g[i] = idx[i] /\ g[j] = s /\ i \in 1 .. l
        BY <1>1, <1>2, <2>1, <2>4, <3>2
      <4> QED
        BY <4>1, <1>6
    <3> QED
      BY <3>1, <3>2
  <2> QED
    BY <1>1, <1>2, <2>1, <2>2, <2>3, <2>4
<1>11. ASSUME NEW i \in DOMAIN g, g[i].name # Fin PROVE g[i].pos >= 3 * page + 1
  <2>1. 1 \in 1 .. l /\ g[1] = idx[1] /\ 1 \in DOMAIN g /\ 1 \in DOMAIN idx
    BY <1>1, <1>2
  <2>2. g[1].pos >= 3 * page + 1 /\ g[1] \in Entries
    BY <2>1, <1>4 DEF InOrder
  <2>3. CASE i = 1
    BY <2>2, <2>3
  <2>4. CASE i # 1
    <3>1. Before(g[1], g[i])
      BY <1>1, <1>2, <1>10, <1>11, <2>1, <2>4
    <3>3. g[i] \in Entries
      <4>1. DOMAIN g = 1 .. Len(g)
        BY <1>1, LenProperties
      <4> QED
        BY <4>1, <1>1, ElementOfSeq
    <3>2. g[1].pos \in Nat /\ g[1].len \in Nat /\ g[i].pos \in Nat
      BY <2>2, <3>3, EntryIs
    <3> QED
      BY <2>2, <3>1, <3>2 DEF Before
  <2> QED
    BY <2>3, <2>4
<1>12. ASSUME NEW i \in DOMAIN g, NEW j \in DOMAIN g, g[i].name \in Names, g[i].name = g[j].name PROVE i = j
  <2>1. i <= l + 1 /\ j <= l + 1
    BY <1>1, <1>2, <1>3, <1>12
  <2>2. CASE i <= l /\ j <= l
    <3>1. g[i] = idx[i] /\ g[j] = idx[j] /\ i \in DOMAIN idx /\ j \in DOMAIN idx
      BY <1>1, <1>2, <2>2
    <3> QED
      BY <3>1, <1>12 DEF InOrder
  <2>3. CASE i <= l /\ j = l + 1
    <3>1. g[i] = idx[i] /\ g[j] = e /\ i \in DOMAIN idx
      BY <1>1, <1>2, <2>3
    <3> QED
      BY <3>1, <1>12
  <2>4. CASE i = l + 1 /\ j <= l
    <3>1. g[i] = e /\ g[j] = idx[j] /\ j \in DOMAIN idx
      BY <1>1, <1>2, <2>4
    <3> QED
      BY <3>1, <1>12
  <2> QED
    BY <1>1, <1>2, <2>1, <2>2, <2>3, <2>4
<1>13. InOrder(g, page)
  BY <1>9, <1>10, <1>11, <1>12 DEF InOrder
<1> QED
  BY <1>13 DEF g

-----------------------------------------------------------------------------
(* The descriptors LFISUP and LFIECR leave. *)

\* new has the placeholders of idx.
SameSections(idx, new) ==
  /\ DOMAIN new = DOMAIN idx
  /\ \A j \in DOMAIN idx : idx[j].name = Sect \/ new[j].name = Sect => new[j] = idx[j]

LEMMA StillUsable ==
  ASSUME NEW i, NEW f, Usable(f, i), NEW g \in Files, InOrder(g.idx, i.Page),
         SameSections(f.idx, g.idx), g.hdr.ioffi = f.hdr.ioffi, g.hdr.inaph >= 3
  PROVE  Usable(g, i)
<1>1. /\ f.idx \in Seq(Entries) /\ f.idx # <<>> /\ g.idx \in Seq(Entries) /\ g.hdr \in Headers
      /\ DOMAIN f.idx = DOMAIN g.idx
  BY DEF Usable, Files, SameSections
<1>2. Len(g.idx) = Len(f.idx) /\ g.idx # <<>>
  BY <1>1
<1>3. SectionsOK(g.idx, g.hdr.ioffi, i.Page)
  <2>1. ASSUME NEW k \in DOMAIN f.hdr.ioffi
        PROVE  \E j \in DOMAIN g.idx : g.idx[j] = Entry(Sect, Start(f.hdr.ioffi, k, i.Page), 2 * i.Page)
    <3>1. PICK j \in DOMAIN f.idx : f.idx[j] = Entry(Sect, Start(f.hdr.ioffi, k, i.Page), 2 * i.Page)
      BY DEF Usable, SectionsOK
    <3>2. f.idx[j].name = Sect
      BY <3>1 DEF Entry
    <3>3. g.idx[j] = f.idx[j]
      BY <3>2 DEF SameSections
    <3> QED
      BY <1>1, <3>1, <3>3
  <2> QED
    BY <2>1 DEF Usable, SectionsOK
<1>4. ASSUME i.Extra = 0 PROVE g.idx \in PlainIndex(i) /\ g.hdr \in PlainHeaders
  <2>1. f.idx \in PlainIndex(i) /\ f.hdr \in PlainHeaders
    BY <1>4 DEF Usable
  <2>2. Len(f.idx) = i.Section /\ \A j \in DOMAIN f.idx : f.idx[j].name # Sect
    BY <2>1 DEF PlainIndex
  <2>3. \A j \in DOMAIN g.idx : g.idx[j].name # Sect
    BY <1>1, <2>2 DEF SameSections
  <2>4. g.idx \in PlainIndex(i)
    BY <1>1, <1>2, <2>2, <2>3 DEF PlainIndex
  <2>5. g.hdr \in PlainHeaders
    BY <1>1, <2>1 DEF PlainHeaders
  <2> QED
    BY <2>4, <2>5
<1> QED
  BY <1>2, <1>3, <1>4 DEF Usable

LEMMA SameSectionsFrom ==
  ASSUME NEW a, NEW b, NEW c
  PROVE  /\ Like(a, b) => SameSections(a, b)
         /\ SameSections(a, b) /\ SameSections(b, c) => SameSections(a, c)
BY DEF Like, SameSections

LEMMA FileIs ==
  ASSUME NEW f \in Files
  PROVE  f.open /\ f.idx \in Seq(Entries) /\ f.hdr \in Headers /\ f.iart \in Int /\ f.modified \in BOOLEAN
BY DEF Files

LEMMA NewIndex ==
  ASSUME NEW f \in Files, NEW idx \in Seq(Entries)
  PROVE  LET g == [f EXCEPT !.idx = idx]
         IN  g \in Files /\ g.idx = idx /\ g.hdr = f.hdr /\ g.iart = f.iart /\ g.modified = f.modified
BY DEF Files

LEMMA NewHeader ==
  ASSUME NEW f \in Files, NEW hdr \in Headers
  PROVE  LET g == [f EXCEPT !.hdr = hdr]
         IN  g \in Files /\ g.idx = f.idx /\ g.hdr = hdr /\ g.iart = f.iart /\ g.modified = f.modified
BY DEF Files

LEMMA NewCurrent ==
  ASSUME NEW f \in Files, NEW iart \in Int
  PROVE  LET g == [f EXCEPT !.iart = iart]
         IN  g \in Files /\ g.idx = f.idx /\ g.hdr = f.hdr /\ g.iart = iart /\ g.modified = f.modified
BY DEF Files

LEMMA NewMark ==
  ASSUME NEW f \in Files
  PROVE  LET g == [f EXCEPT !.modified = TRUE]
         IN  g \in Files /\ g.idx = f.idx /\ g.hdr = f.hdr /\ g.iart = f.iart /\ g.modified = TRUE
BY DEF Files

\* A call that has changed the file.
LEMMA NewFile ==
  ASSUME NEW f \in Files, NEW idx \in Seq(Entries), NEW hdr \in Headers, NEW iart \in Int
  PROVE  LET g == [f EXCEPT !.idx = idx, !.hdr = hdr, !.iart = iart, !.modified = TRUE]
         IN  g \in Files /\ g.idx = idx /\ g.hdr = hdr /\ g.modified = TRUE
<1> DEFINE a == [f EXCEPT !.idx = idx]
           b == [a EXCEPT !.hdr = hdr]
           c == [b EXCEPT !.iart = iart]
           d == [c EXCEPT !.modified = TRUE]
<1>1. a \in Files /\ a.idx = idx
  BY NewIndex
<1> HIDE DEF a
<1>2. b \in Files /\ b.idx = idx /\ b.hdr = hdr
  BY <1>1, NewHeader
<1> HIDE DEF b
<1>3. c \in Files /\ c.idx = idx /\ c.hdr = hdr
  BY <1>2, NewCurrent
<1> HIDE DEF c
<1>4. d \in Files /\ d.idx = idx /\ d.hdr = hdr /\ d.modified = TRUE
  BY <1>3, NewMark
<1>5. [f EXCEPT !.idx = idx, !.hdr = hdr, !.iart = iart, !.modified = TRUE] = d
  BY DEF a, b, c
<1> HIDE DEF d
<1> QED
  BY <1>4, <1>5

LEMMA HoleMadeType ==
  ASSUME NEW hdr \in Headers, NEW len \in Int
  PROVE  /\ HoleMade(hdr, len) \in Headers
         /\ HoleMade(hdr, len).ioffi = hdr.ioffi /\ HoleMade(hdr, len).inaph = hdr.inaph
<1> DEFINE a == [hdr EXCEPT !.iltal = hdr.iltal - len]
           b == [a EXCEPT !.intru = hdr.intru + 1]
<1>1. hdr.iltal - len \in Int /\ hdr.intru + 1 \in Int
  BY DEF Headers
<1>2. a \in Headers /\ a.ioffi = hdr.ioffi /\ a.inaph = hdr.inaph /\ a.intru = hdr.intru
  BY <1>1 DEF Headers
<1> HIDE DEF a
<1>3. b \in Headers /\ b.ioffi = hdr.ioffi /\ b.inaph = hdr.inaph
  BY <1>1, <1>2 DEF Headers
<1>4. HoleMade(hdr, len) = b
  BY <1>2 DEF HoleMade, a
<1> HIDE DEF b
<1> QED
  BY <1>3, <1>4

\* The index when the writes of LFISUP are made: a hole that has the length
\* of its article.
Blank(idx, i) == Entry(Trou, idx[i].pos, idx[i].len)

LEMMA SuppressedIs ==
  ASSUME NEW f \in Files, NEW i \in DOMAIN f.idx,
         [f.idx EXCEPT ![i] = Hole(f.idx, i)] \in Seq(Entries)
  PROVE  LET s == Suppressed(f, i)
         IN  /\ s.f \in Files /\ s.f.idx = [f.idx EXCEPT ![i] = Hole(f.idx, i)]
             /\ s.f.hdr = HoleMade(f.hdr, f.idx[i].len) /\ s.f.modified = TRUE
             /\ \E holed \in Files :
                  /\ holed.idx = [f.idx EXCEPT ![i] = Blank(f.idx, i)] /\ holed.hdr = f.hdr
                  /\ s.ws = MarkModified(holed)
<1> DEFINE e     == f.idx[i]
           hole  == [f.idx EXCEPT ![i] = Hole(f.idx, i)]
           blank == [f.idx EXCEPT ![i] = Blank(f.idx, i)]
           holed == [f EXCEPT !.idx[i].name = Trou]
           g     == [f EXCEPT !.idx[i] = Hole(f.idx, i), !.hdr = HoleMade(@, e.len), !.iart = 0, !.modified = TRUE]
<1>1. f.idx \in Seq(Entries) /\ f.hdr \in Headers
  BY FileIs
<1>2. e \in Entries
  BY <1>1
<1>3. Suppressed(f, i) = [f |-> g, ws |-> MarkModified(holed)]
  BY DEF Suppressed, NextOf, Nart, Hole
<1>4. [e EXCEPT !.name = Trou] = Blank(f.idx, i) /\ Blank(f.idx, i) \in Entries
  <2>1. e = Entry(e.name, e.pos, e.len) /\ e.pos \in Nat /\ e.len \in Nat
    BY <1>2, EntryIs
  <2>2. Blank(f.idx, i) = Entry(Trou, e.pos, e.len)
    BY DEF Blank
  <2> HIDE DEF e
  <2>3. [e EXCEPT !.name = Trou] = Entry(Trou, e.pos, e.len)
    BY <2>1 DEF Entry
  <2>4. Entry(Trou, e.pos, e.len) \in Entries
    BY <2>1 DEF Entry, Entries, AllNames
  <2> QED
    BY <2>2, <2>3, <2>4
<1>5. holed \in Files /\ holed.idx = blank /\ holed.hdr = f.hdr
  <2>1. holed = [f EXCEPT !.idx = [f.idx EXCEPT ![i] = [e EXCEPT !.name = Trou]]]
    BY DEF Files
  <2>2. blank \in Seq(Entries)
    <3> HIDE DEF e
    <3> QED
      BY <1>1, <1>4
  <2>3. holed = [f EXCEPT !.idx = blank]
    BY <1>4, <2>1
  <2> HIDE DEF blank, holed
  <2> QED
    BY <2>2, <2>3, NewIndex
<1>6. g \in Files /\ g.idx = hole /\ g.hdr = HoleMade(f.hdr, e.len) /\ g.modified = TRUE
  <2>1. e.len \in Int /\ hole \in Seq(Entries)
    <3>1. e.len \in Nat
      BY <1>2, EntryIs
    <3> HIDE DEF e
    <3> QED
      BY <3>1
  <2>2. HoleMade(f.hdr, e.len) \in Headers
    BY <1>1, <2>1, HoleMadeType
  <2>3. g = [f EXCEPT !.idx = hole, !.hdr = HoleMade(f.hdr, e.len), !.iart = 0, !.modified = TRUE]
    BY DEF Files
  <2> DEFINE made == HoleMade(f.hdr, e.len)
             none == 0
             new  == [f EXCEPT !.idx = hole, !.hdr = made, !.iart = none, !.modified = TRUE]
  <2>4. g = new
    BY <2>3
  <2> HIDE DEF hole, g, e, made, none
  <2>5. made \in Headers /\ none \in Int
    BY <2>2 DEF made, none
  <2>6. new \in Files /\ new.idx = hole /\ new.hdr = made /\ new.modified = TRUE
    BY <2>1, <2>5, NewFile
  <2> HIDE DEF new
  <2> QED
    BY <2>4, <2>6 DEF made
<1> HIDE DEF holed, g
<1>7. Suppressed(f, i).f = g /\ Suppressed(f, i).ws = MarkModified(holed)
  BY <1>3
<1> QED
  BY <1>5, <1>6, <1>7

LEMMA SuppressedUsable ==
  ASSUME SizesAssumption, NamesAssumption, inst \in Instances, NEW f, Usable(f, inst),
         NEW i \in DOMAIN f.idx, f.idx[i].name \notin {Fin, Sect}
  PROVE  LET s == Suppressed(f, i)
         IN  /\ Usable(s.f, inst) /\ s.f.modified = TRUE /\ DOMAIN s.f.idx = DOMAIN f.idx
             /\ s.f.hdr.ioffi = f.hdr.ioffi
             /\ s.f.idx[i].name = Trou /\ Tight(s.f.idx, i)
             /\ \A j \in DOMAIN f.idx \ {i} : s.f.idx[j] = f.idx[j]
             /\ \E holed : Usable(holed, inst) /\ s.ws = MarkModified(holed)
<1> DEFINE idx  == f.idx
           g    == Suppressed(f, i).f
           hole == Hole(idx, i)
           new  == [idx EXCEPT ![i] = hole]
           blank == [idx EXCEPT ![i] = Blank(idx, i)]
<1>1. /\ f \in Files /\ idx \in Seq(Entries) /\ InOrder(idx, Page) /\ f.hdr \in Headers /\ f.hdr.inaph >= 3
      /\ DOMAIN idx = 1 .. Len(idx) /\ Len(idx) \in Nat
  BY FileIs DEF Usable, Page
<1>2. Page \in Nat /\ Page >= 8
  BY Sizes
<1>3. /\ new \in Seq(Entries) /\ InOrder(new, Page) /\ hole \in Entries
      /\ NextOf(idx, i).name # Fin => hole.pos + hole.len = NextOf(idx, i).pos
  <2> HIDE DEF idx
  <2>1. i \in DOMAIN idx /\ idx[i].name # Fin
    BY DEF idx
  <2> QED
    BY <1>1, <1>2, <2>1, HoleInOrder
<1>4. hole.name = Trou /\ Blank(idx, i).name = Trou
  BY DEF Hole, Blank, Entry
<1>5. idx[i] \in Entries /\ idx[i].len \in Nat /\ idx[i].name \notin {Fin, Sect}
  <2>1. idx[i] \in Entries
    BY <1>1
  <2>2. idx[i].name \notin {Fin, Sect}
    OBVIOUS
  <2> HIDE DEF idx
  <2> QED
    BY <2>1, <2>2, EntryIs
<1>6. /\ g \in Files /\ g.idx = new /\ g.hdr = HoleMade(f.hdr, idx[i].len) /\ g.modified = TRUE
      /\ \E holed \in Files : /\ holed.idx = blank /\ holed.hdr = f.hdr
                              /\ Suppressed(f, i).ws = MarkModified(holed)
  BY <1>1, <1>3, SuppressedIs
<1>7. /\ HoleMade(f.hdr, idx[i].len).ioffi = f.hdr.ioffi
      /\ HoleMade(f.hdr, idx[i].len).inaph = f.hdr.inaph
  <2> DEFINE hdr == f.hdr
             len == idx[i].len
  <2>1. hdr \in Headers /\ len \in Int
    BY <1>1, <1>5
  <2> HIDE DEF hdr, len
  <2>2. HoleMade(hdr, len).ioffi = hdr.ioffi /\ HoleMade(hdr, len).inaph = hdr.inaph
    BY <2>1, HoleMadeType
  <2> QED
    BY <2>2 DEF hdr, len
<1>8. Trou # Sect /\ Trou # Fin /\ Trou \notin Names /\ Trou \in AllNames
  BY NamesApart DEF AllNames
<1>9. SameSections(idx, new) /\ SameSections(idx, blank)
  <2> HIDE DEF hole, idx
  <2>1. i \in DOMAIN idx
    BY DEF idx
  <2> QED
    BY <2>1, <1>1, <1>4, <1>5, <1>8, ReplacedIsLike, SameSectionsFrom
<1>10. blank \in Seq(Entries) /\ InOrder(blank, Page)
  <2> HIDE DEF idx
  <2>1. i \in DOMAIN idx
    BY DEF idx
  <2>2. [idx EXCEPT ![i] = Entry(Trou, idx[i].pos, idx[i].len)] \in Seq(Entries)
        /\ InOrder([idx EXCEPT ![i] = Entry(Trou, idx[i].pos, idx[i].len)], Page)
    BY <2>1, <1>1, <1>2, <1>5, <1>8, RenamedInOrder
  <2> QED
    BY <2>2 DEF Blank
<1> HIDE DEF new, blank, g, idx
<1>11. Usable(g, inst)
  BY <1>1, <1>3, <1>6, <1>7, <1>9, StillUsable DEF idx, Page
<1>12. ASSUME NEW holed \in Files, holed.idx = blank, holed.hdr = f.hdr PROVE Usable(holed, inst)
  BY <1>1, <1>9, <1>10, <1>12, StillUsable DEF idx, Page
<1>13. /\ DOMAIN new = DOMAIN idx /\ new[i] = hole /\ \A j \in DOMAIN idx \ {i} : new[j] = idx[j]
       /\ Len(new) = Len(idx)
  <2>1. i \in DOMAIN idx
    BY DEF idx
  <2> QED
    BY <1>1, <2>1 DEF new
<1>14. Tight(new, i)
  <2>1. NextOf(new, i) = NextOf(idx, i)
    <3>1. i \in 1 .. Len(idx)
      BY <1>1 DEF idx
    <3>2. i < Len(idx) => i + 1 \in DOMAIN idx /\ i + 1 # i
      BY <1>1, <3>1
    <3> QED
      BY <1>13, <3>2 DEF NextOf
  <2> QED
    BY <1>3, <1>13, <2>1 DEF Tight
<1>15. /\ Usable(g, inst) /\ g.modified = TRUE /\ DOMAIN g.idx = DOMAIN idx /\ g.hdr.ioffi = f.hdr.ioffi
       /\ g.idx[i].name = Trou /\ Tight(g.idx, i) /\ \A j \in DOMAIN idx \ {i} : g.idx[j] = idx[j]
  BY <1>4, <1>6, <1>7, <1>11, <1>13, <1>14
<1>16. \E holed : Usable(holed, inst) /\ Suppressed(f, i).ws = MarkModified(holed)
  BY <1>6, <1>12
<1> QED
  BY <1>15, <1>16 DEF g, idx

\* The number of physical articles never falls below the pages of the header.
LEMMA PhysicalIs ==
  ASSUME NEW page \in Nat, page >= 8, NEW size \in Int, size >= 3 * page - 7
  PROVE  /\ size \div page + (IF size % ((size \div page) * page) # 0 THEN 1 ELSE 0) \in Nat
         /\ size \div page + (IF size % ((size \div page) * page) # 0 THEN 1 ELSE 0) >= 3
<1> DEFINE q == size \div page
<1>1. q \in Int /\ size % page \in 0 .. page - 1 /\ size = page * q + (size % page)
  BY Division
<1> HIDE DEF q
<1>2. q >= 2
  <2> SUFFICES ASSUME q <= 1 PROVE FALSE
    BY <1>1
  <2>1. page * q <= page * 1
    BY <1>1
  <2>2. size < 2 * page
    BY <1>1, <2>1
  <2> QED
    BY <2>2
<1>3. CASE q >= 3
  <2>1. size \div page = q
    BY DEF q
  <2> QED
    BY <1>1, <1>3, <2>1
<1>4. CASE q = 2
  <2> DEFINE b == 2 * page
             y == size \div b
             r == size % b
  <2>1. b \in Nat \ {0}
    OBVIOUS
  <2>2. y \in Int /\ r \in 0 .. b - 1 /\ size = b * y + r
    <3> HIDE DEF b
    <3> QED
      BY <2>1, Division
  <2>3. 2 * page < size /\ size < 3 * page
    BY <1>1, <1>4
  <2>4. r # 0
    <3> SUFFICES ASSUME r = 0 PROVE FALSE
      OBVIOUS
    <3> HIDE DEF y, r
    <3>1. size = 2 * page * y
      BY <2>2
    <3>2. CASE y <= 1
      <4>1. 2 * page * y <= 2 * page * 1
        BY <3>2, <2>2
      <4> QED
        BY <4>1, <3>1, <2>3
    <3>3. CASE y >= 2
      <4>1. 2 * page * y >= 2 * page * 2
        BY <3>3, <2>2
      <4> QED
        BY <4>1, <3>1, <2>3
    <3> QED
      BY <2>2, <3>2, <3>3
  <2>5. (size \div page) * page = b
    BY <1>4 DEF q
  <2>6. size \div page + (IF size % ((size \div page) * page) # 0 THEN 1 ELSE 0) = 3
    BY <1>4, <2>4, <2>5 DEF q
  <2> QED
    BY <2>6
<1> QED
  BY <1>1, <1>2, <1>3, <1>4

-----------------------------------------------------------------------------
(* What a file of one section writes. *)

LEMMA HeaderWrites ==
  ASSUME SizesAssumption, inst \in Instances, Extra = 0, NEW f, Usable(f, inst)
  PROVE  WriteHdr(f) = <<[op |-> "sec", k |-> 0, ents |-> f.idx, at |-> Page + 1], [op |-> "hdr", hdr |-> f.hdr]>>
<1>1. /\ f.idx \in Seq(Entries) /\ Len(f.idx) = Section /\ \A j \in DOMAIN f.idx : f.idx[j].name # Sect
      /\ f.hdr.ioffi = <<>>
  BY DEF Usable, PlainIndex, PlainHeaders, Section, Extra
<1>2. Section \in Nat /\ DOMAIN f.idx = 1 .. Section
  BY <1>1, Sizes
<1>3. Written(f.idx) = 1 .. Section
  BY <1>1, <1>2 DEF Written
<1>4. ASSUME NEW m \in 1 .. Section PROVE Nth(1 .. Section, m) = m
  <2> DEFINE Rank(i) == Cardinality({j \in 1 .. Section : j <= i})
  <2>1. ASSUME NEW i \in 1 .. Section PROVE Rank(i) = i
    <3>1. {j \in 1 .. Section : j <= i} = 1 .. i
      BY <1>2
    <3>2. Cardinality(1 .. i) = i
      BY <1>2, FS_Interval
    <3> QED
      BY <3>1, <3>2
  <2> HIDE DEF Rank
  <2>2. (CHOOSE i \in 1 .. Section : Rank(i) = m) = m
    BY <2>1
  <2> QED
    BY <2>2 DEF Nth, Rank
<1> DEFINE part(k) == [m \in 1 .. Section |-> f.idx[Nth(Written(f.idx), k * Section + m)]]
           secs == [k \in 1 .. Len(f.hdr.ioffi) + 1 |->
                      [op |-> "sec", k |-> k - 1, ents |-> part(k - 1),
                       at |-> IF k = 1 THEN Page + 1 ELSE SectionAt(f.hdr, k - 1)]]
<1>5. part(0) = f.idx
  <2>1. \A m \in 1 .. Section : 0 * Section + m = m
    BY <1>2
  <2>2. part(0) = [m \in 1 .. Section |-> f.idx[m]]
    BY <1>3, <1>4, <2>1
  <2> QED
    BY <1>1, <1>2, <2>2
<1> HIDE DEF part
<1>6. secs = <<[op |-> "sec", k |-> 0, ents |-> f.idx, at |-> Page + 1]>>
  <2>1. Len(f.hdr.ioffi) + 1 = 1
    BY <1>1
  <2>2. secs = [k \in 1 .. 1 |-> [op |-> "sec", k |-> k - 1, ents |-> part(k - 1),
                                  at |-> IF k = 1 THEN Page + 1 ELSE SectionAt(f.hdr, k - 1)]]
    BY <2>1
  <2>3. secs = [k \in 1 .. 1 |-> [op |-> "sec", k |-> 0, ents |-> f.idx, at |-> Page + 1]]
    BY <2>2, <1>5
  <2> QED
    BY <2>3
<1>7. WriteHdr(f) = secs \o <<[op |-> "hdr", hdr |-> f.hdr]>>
  BY DEF WriteHdr, part
<1> HIDE DEF secs
<1>8. ASSUME NEW s, NEW h PROVE <<s>> \o <<h>> = <<s, h>>
  <2> DEFINE T == {s, h}
             q == <<s>> \o <<h>>
  <2>1. <<s>> \in Seq(T) /\ <<h>> \in Seq(T) /\ Len(<<s>>) = 1 /\ Len(<<h>>) = 1
    OBVIOUS
  <2>2. q \in Seq(T) /\ Len(q) = 2 /\ q[1] = s /\ q[2] = h
    <3> HIDE DEF T
    <3> QED
      BY <2>1, ConcatProperties
  <2> DEFINE t == <<s, h>>
  <2>3. t \in Seq(T) /\ Len(t) = 2 /\ t[1] = s /\ t[2] = h
    OBVIOUS
  <2> HIDE DEF q, t, T
  <2>4. \A i \in 1 .. Len(q) : q[i] = t[i]
    <3>1. \A i \in 1 .. 2 : i = 1 \/ i = 2
      OBVIOUS
    <3> QED
      BY <2>2, <2>3, <3>1
  <2>5. q = t
    BY <2>2, <2>3, <2>4, SeqEqual
  <2> QED
    BY <2>5 DEF q, t
<1> QED
  BY <1>6, <1>7, <1>8

LEMMA QueuesJoin ==
  ASSUME NEW a \in Queues(inst), NEW b \in Queues(inst)
  PROVE  a \o b \in Queues(inst)
<1> DEFINE q == a \o b
           W == PlainWrites(inst)
<1> HIDE DEF W
<1>1. a \in Seq(W) /\ b \in Seq(W) /\ Ordered(a) /\ Ordered(b)
  BY DEF Queues, W
<1>2. /\ q \in Seq(W) /\ Len(q) = Len(a) + Len(b)
      /\ \A i \in 1 .. Len(a) + Len(b) : q[i] = IF i <= Len(a) THEN a[i] ELSE b[i - Len(a)]
  BY <1>1, ConcatProperties
<1> HIDE DEF q
<1>3. /\ DOMAIN q = 1 .. Len(a) + Len(b) /\ DOMAIN a = 1 .. Len(a) /\ DOMAIN b = 1 .. Len(b)
      /\ Len(a) \in Nat /\ Len(b) \in Nat
  BY <1>1, <1>2
<1>4. ASSUME NEW j \in DOMAIN q, q[j].op = "hdr" PROVE j > 1 /\ q[j - 1].op = "sec"
  <2>1. CASE j <= Len(a)
    <3>1. j \in DOMAIN a /\ a[j].op = "hdr"
      BY <1>2, <1>3, <1>4, <2>1
    <3>2. j > 1 /\ a[j - 1].op = "sec"
      BY <1>1, <3>1 DEF Ordered
    <3> QED
      BY <1>2, <1>3, <2>1, <3>2
  <2>2. CASE ~(j <= Len(a))
    <3> DEFINE k == j - Len(a)
    <3>1. k \in DOMAIN b /\ b[k].op = "hdr"
      BY <1>2, <1>3, <1>4, <2>2
    <3>2. k > 1 /\ b[k - 1].op = "sec"
      BY <1>1, <3>1 DEF Ordered
    <3>3. j - 1 \in 1 .. Len(a) + Len(b) /\ ~(j - 1 <= Len(a)) /\ (j - 1) - Len(a) = k - 1 /\ j > 1
      BY <1>3, <3>2
    <3>4. q[j - 1] = b[(j - 1) - Len(a)]
      BY <1>2, <3>3
    <3> QED
      BY <3>2, <3>3, <3>4
  <2> QED
    BY <2>1, <2>2
<1>5. Ordered(q)
  BY <1>4 DEF Ordered
<1> QED
  BY <1>2, <1>5 DEF Queues, W, q

LEMMA NothingWritten == <<>> \in Queues(inst)
BY DEF Queues, Ordered

\* A write that is no header is a queue of its own.
LEMMA OneWrite ==
  ASSUME NEW w \in PlainWrites(inst), w.op # "hdr"
  PROVE  <<w>> \in Queues(inst)
<1> DEFINE W == PlainWrites(inst)
<1> HIDE DEF W
<1>1. <<w>> \in Seq(W) /\ Len(<<w>>) = 1 /\ <<w>>[1] = w /\ DOMAIN <<w>> = {1}
  BY DEF W
<1>2. Ordered(<<w>>)
  BY <1>1 DEF Ordered
<1> QED
  BY <1>1, <1>2 DEF Queues, W

LEMMA MarkWrites ==
  ASSUME SizesAssumption, inst \in Instances, Extra = 0, NEW f, Usable(f, inst)
  PROVE  WriteHdr(f) \in Queues(inst) /\ MarkModified(f) \in Queues(inst)
<1> DEFINE s == [op |-> "sec", k |-> 0, ents |-> f.idx, at |-> Page + 1]
           h == [op |-> "hdr", hdr |-> f.hdr]
           W == PlainWrites(inst)
<1>1. f.idx \in PlainIndex(inst) /\ f.hdr \in PlainHeaders
  BY DEF Usable, Extra
<1>2. s \in W /\ h \in W /\ s.op = "sec"
  BY <1>1 DEF PlainWrites, Page
<1>3. WriteHdr(f) = <<s, h>>
  BY HeaderWrites
<1> HIDE DEF s, h, W
<1>4. <<s, h>> \in Seq(W) /\ DOMAIN <<s, h>> = {1, 2} /\ <<s, h>>[1] = s
  BY <1>2
<1>5. Ordered(<<s, h>>)
  <2>1. "sec" # "hdr"
    OBVIOUS
  <2> QED
    BY <1>2, <1>4, <2>1 DEF Ordered
<1>6. WriteHdr(f) \in Queues(inst)
  BY <1>3, <1>4, <1>5 DEF Queues, W
<1>7. NotClosed \in Queues(inst)
  <2> DEFINE u == [op |-> "flag"]
             v == [op |-> "flush"]
  <2>1. u \in W /\ v \in W /\ u.op # "hdr" /\ v.op # "hdr"
    BY DEF PlainWrites, W
  <2> HIDE DEF u, v
  <2>2. <<u, v>> \in Seq(W) /\ DOMAIN <<u, v>> = {1, 2} /\ <<u, v>>[1] = u /\ <<u, v>>[2] = v
    BY <2>1
  <2>3. Ordered(<<u, v>>)
    BY <2>1, <2>2 DEF Ordered
  <2> QED
    BY <2>2, <2>3 DEF Queues, NotClosed, W, u, v
<1>8. WriteHdr(f) \o NotClosed \in Queues(inst)
  BY <1>6, <1>7, QueuesJoin
<1> QED
  BY <1>6, <1>8, NothingWritten DEF MarkModified

-----------------------------------------------------------------------------
(* LFIECR.  The former slot of the article becomes a hole, which may grow    *)
(* over the next one; then a slot is chosen.                                 *)

Former(f, n) == IF Lookup(f, n) > 0 THEN Suppressed(f, Lookup(f, n)) ELSE [f |-> f, ws |-> <<>>]
OwnOf(f, n, len) ==
  IF Lookup(f, n) > 0 THEN OwnSlot(Former(f, n).f.idx, Lookup(f, n), len) ELSE [fit |-> 0, idx |-> f.idx]
SlotOf(f, n, len) ==
  IF OwnOf(f, n, len).fit > 0 THEN OwnOf(f, n, len).fit ELSE BestHole(OwnOf(f, n, len).idx, len)
RoomOf(f, n, len) == [Former(f, n).f EXCEPT !.idx = OwnOf(f, n, len).idx]

\* What LFISUP may have written.
Marks(ws) == ws = <<>> \/ \E h : Usable(h, inst) /\ ws = MarkModified(h)

LEMMA RoomIs ==
  ASSUME SizesAssumption, NamesAssumption, inst \in Instances, NEW f, Usable(f, inst),
         NEW n \in Names \cup {Trou}, NEW len \in Nat
  PROVE  LET r == RoomOf(f, n, len)
             x == SlotOf(f, n, len)
         IN  /\ Usable(r, inst)
             /\ n \in Names => \A j \in DOMAIN r.idx : r.idx[j].name # n
             /\ x = 0 => \A j \in DOMAIN r.idx : r.idx[j].name # Fin
             /\ x # 0 => /\ x \in DOMAIN r.idx
                         /\ \/ Fits(r.idx[x], len)
                            \/ r.idx[x].name = Fin /\ \A j \in DOMAIN r.idx : j < x => r.idx[j].name # Fin
             /\ Marks(Former(f, n).ws)
<1> DEFINE i    == Lookup(f, n)
           idx  == f.idx
           s    == Former(f, n)
           own  == OwnOf(f, n, len)
           slot == SlotOf(f, n, len)
           r    == RoomOf(f, n, len)
<1>1. /\ f \in Files /\ idx \in Seq(Entries) /\ InOrder(idx, Page) /\ f.hdr.inaph >= 3
      /\ DOMAIN idx = 1 .. Len(idx) /\ Len(idx) \in Nat
  BY FileIs DEF Usable, Page
<1>2. Page \in Nat
  BY Sizes
<1>3. /\ i \in 0 .. Len(idx)
      /\ i # 0 => idx[i].name = n
      /\ i = 0 => \A j \in DOMAIN idx : idx[j].name # n
  BY <1>1, LookupIs
<1>4. /\ Fin \notin Names /\ Trou \notin Names /\ Sect \notin Names
      /\ Fin # Trou /\ Fin # Sect /\ Trou # Sect
  BY NamesApart
<1>5. s = (IF i > 0 THEN Suppressed(f, i) ELSE [f |-> f, ws |-> <<>>])
  BY DEF Former
<1>6. own = (IF i > 0 THEN OwnSlot(s.f.idx, i, len) ELSE [fit |-> 0, idx |-> idx])
  BY DEF OwnOf
<1>7. slot = IF own.fit > 0 THEN own.fit ELSE BestHole(own.idx, len)
  BY DEF SlotOf
<1>8. r = [s.f EXCEPT !.idx = own.idx]
  BY DEF RoomOf
<1> HIDE DEF i, s, own, slot, r
<1>9. /\ Usable(s.f, inst) /\ Marks(s.ws)
      /\ own.idx \in Seq(Entries) /\ InOrder(own.idx, Page) /\ SameSections(s.f.idx, own.idx)
      /\ \/ own.fit = 0
         \/ own.fit \in DOMAIN own.idx /\ own.fit > 0 /\ Fits(own.idx[own.fit], len)
      /\ n \in Names => \A j \in DOMAIN own.idx : own.idx[j].name # n
  <2>1. CASE i = 0
    <3>1. s = [f |-> f, ws |-> <<>>] /\ own = [fit |-> 0, idx |-> idx]
      BY <1>5, <1>6, <2>1
    <3>2. s.f = f /\ s.ws = <<>> /\ own.fit = 0 /\ own.idx = idx
      BY <3>1
    <3> QED
      BY <1>1, <1>3, <2>1, <3>2 DEF Marks, SameSections
  <2>2. CASE i # 0
    <3>1. i > 0 /\ i \in DOMAIN idx /\ idx[i].name = n /\ n \notin {Fin, Sect}
      BY <1>1, <1>3, <1>4, <2>2
    <3>2. s = Suppressed(f, i) /\ own = OwnSlot(s.f.idx, i, len)
      BY <1>5, <1>6, <3>1
    <3>3. /\ Usable(s.f, inst) /\ DOMAIN s.f.idx = DOMAIN idx
          /\ s.f.idx[i].name = Trou /\ Tight(s.f.idx, i)
          /\ \A j \in DOMAIN idx \ {i} : s.f.idx[j] = idx[j]
          /\ \E holed : Usable(holed, inst) /\ s.ws = MarkModified(holed)
      <4> DEFINE t == Suppressed(f, i)
      <4>1. i \in DOMAIN f.idx /\ f.idx[i].name \notin {Fin, Sect}
        BY <3>1
      <4>2. /\ Usable(t.f, inst) /\ DOMAIN t.f.idx = DOMAIN f.idx
            /\ t.f.idx[i].name = Trou /\ Tight(t.f.idx, i)
            /\ \A j \in DOMAIN f.idx \ {i} : t.f.idx[j] = f.idx[j]
            /\ \E holed : Usable(holed, inst) /\ t.ws = MarkModified(holed)
        BY <4>1, SuppressedUsable
      <4>3. s = t
        BY <3>2
      <4> HIDE DEF t
      <4> QED
        BY <4>2, <4>3
    <3>4. Marks(s.ws)
      BY <3>3 DEF Marks
    <3> DEFINE hole == s.f.idx
    <3>5. hole \in Seq(Entries) /\ InOrder(hole, Page)
      BY <3>3, FileIs DEF Usable, Page
    <3> HIDE DEF hole
    <3>6. /\ own.idx \in Seq(Entries) /\ InOrder(own.idx, Page) /\ Like(hole, own.idx)
          /\ \/ own.fit = 0 /\ own.idx = hole
             \/ own.fit = i /\ own.idx[i].name = Trou /\ len <= own.idx[i].len
          /\ \A j \in DOMAIN hole : own.idx[j].name \in Names => own.idx[j] = hole[j]
      <4>1. i \in DOMAIN hole /\ hole[i].name = Trou /\ Tight(hole, i)
        BY <3>1, <3>3 DEF hole
      <4>2. own = OwnSlot(hole, i, len)
        BY <3>2 DEF hole
      <4> QED
        BY <1>2, <3>5, <4>1, <4>2, OwnSlotInOrder
    <3>7. SameSections(hole, own.idx) /\ DOMAIN own.idx = DOMAIN hole
      BY <3>6, SameSectionsFrom DEF Like
    <3>8. own.fit = 0 \/ (own.fit \in DOMAIN own.idx /\ own.fit > 0 /\ Fits(own.idx[own.fit], len))
      <4>1. CASE own.fit = i /\ own.idx[i].name = Trou /\ len <= own.idx[i].len
        <5>1. own.idx[i].len >= len
          <6>1. i \in DOMAIN own.idx
            BY <3>1, <3>3, <3>7 DEF hole
          <6>2. own.idx[i] \in Entries
            BY <3>6, <6>1
          <6>3. own.idx[i].len \in Nat
            BY <6>2, EntryIs
          <6> QED
            BY <4>1, <6>3
        <5> QED
          BY <3>1, <3>3, <3>7, <4>1, <5>1 DEF Fits, hole
      <4> QED
        BY <3>6, <4>1
    <3>9. ASSUME n \in Names, NEW j \in DOMAIN own.idx, own.idx[j].name = n PROVE FALSE
      <4>1. j \in DOMAIN hole /\ hole[j].name = n
        BY <3>6, <3>7, <3>9
      <4>2. j # i
        BY <3>3, <3>9, <4>1, <1>4 DEF hole
      <4>3. j \in DOMAIN idx /\ idx[j].name = n
        BY <3>3, <4>1, <4>2 DEF hole
      <4> QED
        BY <1>1, <3>1, <3>9, <4>2, <4>3 DEF InOrder
    <3> QED
      BY <3>3, <3>4, <3>6, <3>7, <3>8, <3>9 DEF hole
  <2> QED
    BY <2>1, <2>2
<1>10. s.f \in Files /\ s.f.hdr.inaph >= 3
  BY <1>9 DEF Usable
<1>11. r \in Files /\ r.idx = own.idx /\ r.hdr = s.f.hdr
  <2> DEFINE h == s.f
             o == own.idx
  <2>1. h \in Files /\ o \in Seq(Entries) /\ r = [h EXCEPT !.idx = o]
    BY <1>8, <1>9, <1>10
  <2> HIDE DEF h, o
  <2>2. r \in Files /\ r.idx = o /\ r.hdr = h.hdr
    BY <2>1, NewIndex
  <2> QED
    BY <2>2 DEF h, o
<1>12. Usable(r, inst)
  BY <1>9, <1>10, <1>11, StillUsable DEF Page
<1>13. /\ slot = 0 => \A j \in DOMAIN own.idx : own.idx[j].name # Fin
       /\ slot # 0 => /\ slot \in DOMAIN own.idx
                      /\ \/ Fits(own.idx[slot], len)
                         \/ own.idx[slot].name = Fin /\ \A j \in DOMAIN own.idx : j < slot => own.idx[j].name # Fin
  <2> DEFINE o == own.idx
             b == BestHole(o, len)
  <2>1. o \in Seq(Entries) /\ DOMAIN o = 1 .. Len(o) /\ Len(o) \in Nat
    BY <1>9
  <2>2. slot = IF own.fit > 0 THEN own.fit ELSE b
    BY <1>7
  <2>3. own.fit = 0 \/ (own.fit \in DOMAIN o /\ own.fit > 0 /\ Fits(o[own.fit], len))
    BY <1>9
  <2> HIDE DEF o
  <2>4. /\ b \in 0 .. Len(o)
        /\ \/ b = 0 /\ \A j \in DOMAIN o : o[j].name # Fin
           \/ b # 0 /\ Fits(o[b], len)
           \/ b # 0 /\ o[b].name = Fin /\ \A j \in DOMAIN o : j < b => o[j].name # Fin
    <3>1. len \in Int
      OBVIOUS
    <3> QED
      BY <2>1, <3>1, BestHoleIs
  <2> HIDE DEF b
  <2>5. CASE own.fit = 0
    <3>1. slot = b
      BY <2>2, <2>5
    <3> QED
      BY <2>1, <2>4, <3>1 DEF o
  <2>6. CASE own.fit \in DOMAIN o /\ own.fit > 0 /\ Fits(o[own.fit], len)
    <3>1. slot = own.fit /\ slot # 0
      BY <2>2, <2>1, <2>6
    <3> QED
      BY <2>6, <3>1 DEF o
  <2> QED
    BY <2>3, <2>5, <2>6
<1> QED
  BY <1>9, <1>11, <1>12, <1>13 DEF r, slot, s

\* The article goes to rank x of g.
PosOf(g, x) == IF g.idx[x].name = Fin THEN AppendAt(g, x) ELSE g.idx[x].pos
LastPage(size) == size \div Page + (IF size % ((size \div Page) * Page) # 0 THEN 1 ELSE 0)
HdrOf(g, x, len) ==
  IF g.idx[x].name = Fin
  THEN [g.hdr EXCEPT !.iltal = @ + len, !.inalo = @ + 1, !.inaph = LastPage(PosOf(g, x) + len - 8)]
  ELSE [g.hdr EXCEPT !.iltal = @ + len, !.intru = @ - 1]
Placed(g, x, n, len) ==
  [g EXCEPT !.idx[x] = Entry(n, PosOf(g, x), len), !.hdr = HdrOf(g, x, len), !.iart = x, !.modified = TRUE]

LEMMA WriteIs ==
  ASSUME NEW f, NEW n, NEW len, NEW id
  PROVE  LET r    == RoomOf(f, n, len)
             slot == SlotOf(f, n, len)
             grow == slot = 0 /\ Len(r.hdr.ioffi) < Extra
             g    == IF grow THEN GrowIdx(r, len) ELSE r
             x    == IF grow THEN Nart(r) + 1 ELSE slot
         IN  Write(f, n, len, id)
               = IF len < 0 THEN Result(f, <<>>, -14)
                 ELSE IF Lookup(f, n) = 0 /\ n \notin Names THEN Result(f, <<>>, -15)
                 ELSE IF slot = 0 /\ ~grow THEN Result(r, Former(f, n).ws, -1)
                 ELSE Result(Placed(g, x, n, len),
                             Former(f, n).ws \o MarkModified(g)
                               \o <<[op |-> "data", at |-> PosOf(g, x), len |-> len, id |-> id]>>, 0)
BY DEF Write, RoomOf, SlotOf, OwnOf, Former, Placed, PosOf, HdrOf, LastPage

LEMMA HdrOfIs ==
  ASSUME Page \in Nat, Page >= 8, NEW g \in Files, g.hdr.inaph >= 3, NEW x, NEW len \in Nat,
         g.idx[x].name = Fin => PosOf(g, x) \in Nat /\ PosOf(g, x) >= 3 * Page + 1
  PROVE  LET h == HdrOf(g, x, len)
         IN  h \in Headers /\ h.ioffi = g.hdr.ioffi /\ h.inaph >= 3
<1> DEFINE hdr == g.hdr
           a   == [hdr EXCEPT !.iltal = hdr.iltal + len]
<1>1. hdr \in Headers /\ hdr.inaph >= 3
  BY FileIs
<1> HIDE DEF hdr
<1>2. hdr.iltal + len \in Int /\ hdr.inalo + 1 \in Int /\ hdr.intru - 1 \in Int
  BY <1>1 DEF Headers
<1>3. /\ a \in Headers /\ a.ioffi = hdr.ioffi /\ a.inaph = hdr.inaph
      /\ a.inalo = hdr.inalo /\ a.intru = hdr.intru
  BY <1>1, <1>2 DEF Headers
<1>4. CASE g.idx[x].name = Fin
  <2> DEFINE size == PosOf(g, x) + len - 8
             p    == LastPage(size)
             b    == [a EXCEPT !.inalo = hdr.inalo + 1]
             c    == [b EXCEPT !.inaph = p]
  <2>1. size \in Int /\ size >= 3 * Page - 7
    <3> DEFINE w == PosOf(g, x)
    <3>1. w \in Nat /\ w >= 3 * Page + 1
      BY <1>4
    <3> HIDE DEF w
    <3>2. w + len - 8 \in Int /\ w + len - 8 >= 3 * Page - 7
      BY <3>1
    <3> QED
      BY <3>2 DEF w
  <2>2. p \in Nat /\ p >= 3
    <3> HIDE DEF size
    <3> QED
      BY <2>1, PhysicalIs DEF LastPage
  <2>3. HdrOf(g, x, len) = [hdr EXCEPT !.iltal = @ + len, !.inalo = @ + 1, !.inaph = p]
    BY <1>4 DEF HdrOf, hdr
  <2> HIDE DEF p, size
  <2>4. HdrOf(g, x, len) = c
    BY <1>1, <2>3 DEF Headers
  <2> HIDE DEF a
  <2>5. b \in Headers /\ b.ioffi = hdr.ioffi
    BY <1>2, <1>3 DEF Headers
  <2> HIDE DEF b
  <2>6. c \in Headers /\ c.ioffi = hdr.ioffi /\ c.inaph = p
    BY <2>2, <2>5 DEF Headers
  <2> HIDE DEF c
  <2> QED
    BY <2>2, <2>4, <2>6 DEF hdr
<1>5. CASE g.idx[x].name # Fin
  <2> DEFINE b == [a EXCEPT !.intru = hdr.intru - 1]
  <2>1. HdrOf(g, x, len) = [hdr EXCEPT !.iltal = @ + len, !.intru = @ - 1]
    BY <1>5 DEF HdrOf, hdr
  <2>2. HdrOf(g, x, len) = b
    BY <1>1, <2>1 DEF Headers
  <2> HIDE DEF a
  <2>3. b \in Headers /\ b.ioffi = hdr.ioffi /\ b.inaph = hdr.inaph
    BY <1>2, <1>3 DEF Headers
  <2> HIDE DEF b
  <2> QED
    BY <1>1, <2>2, <2>3 DEF hdr
<1> QED
  BY <1>4, <1>5

LEMMA PlacedIs ==
  ASSUME NEW g \in Files, NEW x \in Int, NEW n, NEW len,
         [g.idx EXCEPT ![x] = Entry(n, PosOf(g, x), len)] \in Seq(Entries), HdrOf(g, x, len) \in Headers
  PROVE  /\ Placed(g, x, n, len) \in Files
         /\ Placed(g, x, n, len).idx = [g.idx EXCEPT ![x] = Entry(n, PosOf(g, x), len)]
         /\ Placed(g, x, n, len).hdr = HdrOf(g, x, len)
<1> DEFINE e   == Entry(n, PosOf(g, x), len)
           idx == [g.idx EXCEPT ![x] = e]
           hdr == HdrOf(g, x, len)
           p   == Placed(g, x, n, len)
           new == [g EXCEPT !.idx = idx, !.hdr = hdr, !.iart = x, !.modified = TRUE]
<1>1. p = [g EXCEPT !.idx[x] = e, !.hdr = hdr, !.iart = x, !.modified = TRUE]
  BY DEF Placed
<1>2. p = new
  <2> HIDE DEF e, hdr, p
  <2> QED
    BY <1>1 DEF Files
<1> HIDE DEF e, p
<1>3. idx \in Seq(Entries) /\ hdr \in Headers
  BY DEF e
<1> HIDE DEF idx, hdr
<1>4. new \in Files /\ new.idx = idx /\ new.hdr = hdr /\ new.modified = TRUE
  BY <1>3, NewFile
<1> HIDE DEF new
<1> QED
  BY <1>2, <1>4 DEF idx, hdr, p, e

LEMMA AppendAtIs ==
  ASSUME Page \in Nat, NEW g \in Files, g.hdr.inaph >= 3, NEW x \in Nat \ {0},
         x > 1 => x - 1 \in DOMAIN g.idx /\ g.idx[x - 1].pos >= 3 * Page + 1
  PROVE  /\ AppendAt(g, x) \in Nat /\ AppendAt(g, x) >= 3 * Page + 1
         /\ x > 1 => AppendAt(g, x) = g.idx[x - 1].pos + g.idx[x - 1].len
<1>1. CASE x > 1
  <2> DEFINE e == g.idx[x - 1]
  <2>1. e \in Entries /\ e.pos >= 3 * Page + 1
    BY <1>1, FileIs
  <2>2. e.pos \in Nat /\ e.len \in Nat
    BY <2>1, EntryIs
  <2>3. AppendAt(g, x) = e.pos + e.len
    BY <1>1 DEF AppendAt
  <2> HIDE DEF e
  <2>4. e.pos + e.len \in Nat /\ e.pos + e.len >= 3 * Page + 1
    BY <2>1, <2>2
  <2> QED
    BY <2>3, <2>4 DEF e
<1>2. CASE ~(x > 1)
  <2> DEFINE p == g.hdr.inaph
  <2>1. p \in Nat /\ p >= 3
    <3>1. g.hdr \in Headers
      BY FileIs
    <3> QED
      BY <3>1 DEF Headers
  <2>2. AppendAt(g, x) = p * Page + 1
    BY <1>2 DEF AppendAt
  <2> HIDE DEF p
  <2>3. p * Page >= 3 * Page /\ p * Page \in Nat
    BY <2>1
  <2> QED
    BY <1>2, <2>2, <2>3
<1> QED
  BY <1>1, <1>2

LEMMA PlacedUsable ==
  ASSUME SizesAssumption, NamesAssumption, inst \in Instances, NEW g, Usable(g, inst),
         NEW n \in Names \cup {Trou}, NEW len \in Nat, NEW x \in DOMAIN g.idx,
         n \in Names => \A j \in DOMAIN g.idx : g.idx[j].name # n,
         \/ Fits(g.idx[x], len)
         \/ g.idx[x].name = Fin /\ \A j \in DOMAIN g.idx : j < x => g.idx[j].name # Fin
  PROVE  Usable(Placed(g, x, n, len), inst) /\ PosOf(g, x) \in Int
<1> DEFINE idx == g.idx
           pos == PosOf(g, x)
           e   == Entry(n, pos, len)
           new == [idx EXCEPT ![x] = e]
           p   == Placed(g, x, n, len)
<1>1. /\ g \in Files /\ idx \in Seq(Entries) /\ InOrder(idx, Page) /\ g.hdr.inaph >= 3
      /\ DOMAIN idx = 1 .. Len(idx) /\ Len(idx) \in Nat /\ x \in Nat \ {0} /\ x \in DOMAIN idx
  BY FileIs DEF Usable, Page
<1>2. Page \in Nat /\ Page >= 8
  BY Sizes
<1>3. /\ Fin \notin Names /\ Trou \notin Names /\ Sect \notin Names
      /\ Fin # Trou /\ Fin # Sect /\ Trou # Sect
  BY NamesApart
<1>4. n \in AllNames /\ n # Fin /\ n # Sect
  BY <1>3 DEF AllNames
<1>5. idx[x] \in Entries
  BY <1>1
<1>6. n \in Names => \A j \in DOMAIN idx : idx[j].name # n
  OBVIOUS
<1>7. Fits(idx[x], len) \/ (idx[x].name = Fin /\ \A j \in DOMAIN idx : j < x => idx[j].name # Fin)
  OBVIOUS
<1> HIDE DEF new, p
<1>8. /\ new \in Seq(Entries) /\ InOrder(new, Page) /\ idx[x].name # Sect /\ pos \in Int
      /\ idx[x].name = Fin => pos \in Nat /\ pos >= 3 * Page + 1
  <2>1. CASE Fits(idx[x], len)
    <3> HIDE DEF idx, pos
    <3>1. idx[x].name = Trou /\ idx[x].name # Fin /\ idx[x].len >= len
      BY <1>3, <2>1 DEF Fits
    <3>2. idx[x].pos \in Nat /\ idx[x].len \in Nat
      BY <1>5, EntryIs
    <3>3. len <= idx[x].len
      BY <3>1, <3>2
    <3>4. pos = idx[x].pos
      BY <3>1 DEF pos, PosOf, idx
    <3> DEFINE made == [idx EXCEPT ![x] = Entry(n, idx[x].pos, len)]
    <3>5. made \in Seq(Entries) /\ InOrder(made, Page)
      BY <1>1, <1>2, <1>4, <1>6, <3>1, <3>3, ShortenedInOrder
    <3>6. new = made
      BY <3>4 DEF new
    <3> HIDE DEF made
    <3> QED
      BY <1>3, <3>1, <3>2, <3>4, <3>5, <3>6
  <2>2. CASE idx[x].name = Fin /\ \A j \in DOMAIN idx : j < x => idx[j].name # Fin
    <3>1. x > 1 => x - 1 \in DOMAIN g.idx /\ g.idx[x - 1].pos >= 3 * Page + 1
      <4> SUFFICES ASSUME x > 1 PROVE x - 1 \in DOMAIN idx /\ idx[x - 1].pos >= 3 * Page + 1
        OBVIOUS
      <4> HIDE DEF idx
      <4>1. x - 1 \in DOMAIN idx /\ x - 1 < x
        BY <1>1
      <4>2. idx[x - 1].name # Fin
        BY <2>2, <4>1
      <4> QED
        BY <1>1, <4>1, <4>2 DEF InOrder
    <3>2. pos = AppendAt(g, x)
      BY <2>2 DEF PosOf
    <3>3. /\ AppendAt(g, x) \in Nat /\ AppendAt(g, x) >= 3 * Page + 1
          /\ x > 1 => AppendAt(g, x) = g.idx[x - 1].pos + g.idx[x - 1].len
      BY <1>1, <1>2, <3>1, AppendAtIs
    <3>4. /\ pos \in Nat /\ pos >= 3 * Page + 1
          /\ x > 1 => pos = idx[x - 1].pos + idx[x - 1].len
      BY <3>2, <3>3
    <3> HIDE DEF pos, idx
    <3>5. e \in Entries /\ e.name = n /\ e.pos = pos /\ e.len = len
      BY <1>4, <3>4 DEF Entry, Entries
    <3> HIDE DEF e
    <3>6. x > 1 => Before(idx[x - 1], e)
      <4> SUFFICES ASSUME x > 1 PROVE Before(idx[x - 1], e)
        OBVIOUS
      <4>1. x - 1 \in DOMAIN idx
        BY <1>1
      <4>2. idx[x - 1] \in Entries
        BY <1>1, <4>1
      <4>3. idx[x - 1].pos + idx[x - 1].len <= e.pos
        <5>1. idx[x - 1].pos \in Nat /\ idx[x - 1].len \in Nat
          BY <4>2, EntryIs
        <5> QED
          BY <5>1, <3>4, <3>5
      <4> QED
        BY <4>3 DEF Before
    <3>7. /\ idx \in Seq(Entries) /\ InOrder(idx, Page) /\ x \in DOMAIN idx /\ idx[x].name = Fin
          /\ \A i \in DOMAIN idx : i < x => idx[i].name # Fin
          /\ e.name # Fin /\ e.pos >= 3 * Page + 1
          /\ \A j \in DOMAIN idx \ {x} : e.name \in Names => idx[j].name # e.name
      BY <1>1, <1>4, <1>6, <2>2, <3>4, <3>5
    <3>8. new \in Seq(Entries) /\ InOrder(new, Page)
      BY <1>2, <3>5, <3>6, <3>7, AppendedInOrder DEF new
    <3> QED
      BY <1>3, <2>2, <3>4, <3>8
  <2> QED
    BY <1>7, <2>1, <2>2
<1>9. SameSections(idx, new)
  <2>1. e.name # Sect
    BY <1>4 DEF Entry
  <2> HIDE DEF e, idx
  <2> QED
    BY <1>1, <1>8, <2>1 DEF SameSections, new
<1>10. /\ HdrOf(g, x, len) \in Headers /\ HdrOf(g, x, len).ioffi = g.hdr.ioffi
       /\ HdrOf(g, x, len).inaph >= 3
  BY <1>1, <1>2, <1>8, HdrOfIs
<1>11. p \in Files /\ p.idx = new /\ p.hdr = HdrOf(g, x, len)
  <2> DEFINE y == x
             l == len
             q == Placed(g, y, n, l)
             h == HdrOf(g, y, l)
             made == [g.idx EXCEPT ![y] = Entry(n, PosOf(g, y), l)]
  <2>1. made \in Seq(Entries) /\ y \in Int /\ g \in Files /\ h \in Headers
    BY <1>1, <1>8, <1>10 DEF new
  <2>2. p = q /\ new = made /\ HdrOf(g, x, len) = h
    BY DEF p, new
  <2> HIDE DEF y, l
  <2>3. q \in Files /\ q.idx = made /\ q.hdr = h
    BY <2>1, PlacedIs
  <2> HIDE DEF q, made, h
  <2> QED
    BY <2>2, <2>3
<1>12. Usable(p, inst)
  BY <1>8, <1>9, <1>10, <1>11, StillUsable DEF Page
<1> QED
  BY <1>8, <1>12 DEF p

LEMMA GrownPlaced ==
  ASSUME NEW idx \in Seq(Entries), NEW n \in Nat \ {0}, NEW e \in Entries, NEW s \in Entries
  PROVE  [Grown(idx, n, Free, s) EXCEPT ![Len(idx) + 1] = e] = Grown(idx, n, e, s)
<1> DEFINE a == Grown(idx, n, Free, s)
           b == Grown(idx, n, e, s)
           c == [a EXCEPT ![Len(idx) + 1] = e]
           D == 1 .. Len(idx) + n + 1
<1>1. Free \in Entries
  BY DEF Free, Entry, Entries, AllNames
<1>2. /\ a \in Seq(Entries) /\ DOMAIN a = D
      /\ \A i \in D : a[i] = IF i <= Len(idx) THEN idx[i] ELSE IF i = Len(idx) + 1 THEN Free
                             ELSE IF i = Len(idx) + 2 THEN s ELSE Free
  <2> DEFINE free == Free
  <2>1. free \in Entries
    BY <1>1
  <2> HIDE DEF free
  <2>2. Grown(idx, n, free, s) \in Seq(Entries)
    BY <2>1, GrownIs
  <2>3. DOMAIN Grown(idx, n, free, s) = D
    BY <2>1, GrownIs
  <2>4. \A i \in D : Grown(idx, n, free, s)[i]
              = IF i <= Len(idx) THEN idx[i] ELSE IF i = Len(idx) + 1 THEN free
                ELSE IF i = Len(idx) + 2 THEN s ELSE Free
    BY <2>1, GrownIs
  <2> QED
    BY <2>2, <2>3, <2>4 DEF free
<1>3. /\ b \in Seq(Entries) /\ DOMAIN b = D
      /\ \A i \in D : b[i] = IF i <= Len(idx) THEN idx[i] ELSE IF i = Len(idx) + 1 THEN e
                             ELSE IF i = Len(idx) + 2 THEN s ELSE Free
  <2>1. b \in Seq(Entries)
    BY GrownIs
  <2>2. DOMAIN b = D
    BY GrownIs
  <2>3. \A i \in D : b[i] = IF i <= Len(idx) THEN idx[i] ELSE IF i = Len(idx) + 1 THEN e
                            ELSE IF i = Len(idx) + 2 THEN s ELSE Free
    BY GrownIs
  <2> HIDE DEF b
  <2> QED
    BY <2>1, <2>2, <2>3
<1>4. Len(idx) \in Nat /\ Len(idx) + 1 \in D
  OBVIOUS
<1> HIDE DEF a, b
<1>5. /\ DOMAIN c = D /\ c[Len(idx) + 1] = e /\ \A i \in D \ {Len(idx) + 1} : c[i] = a[i]
      /\ c = [i \in D |-> c[i]]
  BY <1>2, <1>4
<1> HIDE DEF c
<1>6. ASSUME NEW i \in D PROVE c[i] = b[i]
  <2>1. CASE i = Len(idx) + 1
    <3>1. ~(i <= Len(idx))
      BY <1>4, <2>1
    <3> QED
      BY <1>3, <1>5, <2>1, <3>1
  <2>2. CASE i # Len(idx) + 1
    <3>1. c[i] = a[i]
      BY <1>5, <2>2
    <3> QED
      BY <1>2, <1>3, <2>2, <3>1
  <2> QED
    BY <2>1, <2>2
<1>7. b = [i \in D |-> b[i]]
  BY <1>3
<1> HIDE DEF D
<1> QED
  BY <1>5, <1>6, <1>7 DEF a, b, c

\* The placeholder of the new section and its number in the header.
NewSection(f, len) == Entry(Sect, SectionPos(f.idx[Nart(f)], len), 2 * Page)
NewOffset(f, len) == 1 + (SectionPos(f.idx[Nart(f)], len) - 1) \div Page

LEMMA NewSectionIs ==
  ASSUME Page \in Nat, Page >= 8, NEW f, NEW last \in Entries, f.idx[Nart(f)] = last, NEW len \in Nat,
         last.pos >= 3 * Page + 1
  PROVE  LET s == NewSection(f, len)
         IN  /\ s \in Entries /\ s.name = Sect /\ s.len = 2 * Page
             /\ s.pos >= last.pos + last.len + len
             /\ NewOffset(f, len) \in Nat /\ (NewOffset(f, len) - 1) * Page + 1 = s.pos
<1> DEFINE w == last.pos + last.len + len - 1
           u == PageUp(w)
           s == NewSection(f, len)
<1>1. last.pos \in Nat /\ last.len \in Nat
  BY EntryIs
<1>2. w \in Int /\ w >= 0
  BY <1>1
<1>3. PICK q \in Int : u = Page * q /\ u >= w
  <2> HIDE DEF w
  <2> QED
    BY <1>2, PageUpIs
<1>4. s = Entry(Sect, u + 1, 2 * Page) /\ NewOffset(f, len) = 1 + ((u + 1) - 1) \div Page
  BY DEF NewSection, NewOffset, SectionPos
<1> HIDE DEF w, u, s
<1>5. q >= 0
  <2> SUFFICES ASSUME q <= -1 PROVE FALSE
    OBVIOUS
  <2>1. Page * q <= Page * (-1)
    OBVIOUS
  <2> QED
    BY <1>2, <1>3, <2>1
<1>6. u \in Nat /\ (u + 1) - 1 = Page * q
  <2>1. Page * q \in Nat
    BY <1>5
  <2> QED
    BY <1>3, <2>1
<1>7. (Page * q) \div Page = q
  <2>1. Page \in Nat \ {0}
    OBVIOUS
  <2> QED
    BY <2>1, Quotient
<1>8. NewOffset(f, len) = 1 + q /\ (1 + q - 1) * Page = u
  <2>1. NewOffset(f, len) = 1 + q
    BY <1>4, <1>6, <1>7
  <2>2. 1 + q - 1 = q /\ q * Page = Page * q
    OBVIOUS
  <2> QED
    BY <1>3, <2>1, <2>2
<1>9. /\ s.name = Sect /\ s.len = 2 * Page /\ s.pos = u + 1
      /\ s \in Entries
  <2>1. 2 * Page \in Nat /\ u + 1 \in Nat /\ Sect \in AllNames
    BY <1>6 DEF AllNames
  <2> QED
    BY <1>4, <2>1 DEF Entry, Entries
<1>10. s.pos >= last.pos + last.len + len
  <2>1. u >= last.pos + last.len + len - 1
    BY <1>3 DEF w
  <2> QED
    BY <1>1, <1>6, <1>9, <2>1
<1>11. NewOffset(f, len) \in Nat /\ (NewOffset(f, len) - 1) * Page + 1 = s.pos
  BY <1>5, <1>8, <1>9
<1> QED
  BY <1>9, <1>10, <1>11 DEF s

LEMMA GrowIdxIs ==
  ASSUME NEW f \in Files, NEW len, Section \in Nat, NewOffset(f, len) \in Nat,
         Grown(f.idx, Section, Free, NewSection(f, len)) \in Seq(Entries)
  PROVE  LET g == GrowIdx(f, len)
         IN  /\ g \in Files /\ g.idx = Grown(f.idx, Section, Free, NewSection(f, len))
             /\ g.hdr.ioffi = Append(f.hdr.ioffi, NewOffset(f, len)) /\ g.hdr.inaph = f.hdr.inaph
<1> DEFINE s   == NewSection(f, len)
           new == [i \in 1 .. Section + 1 |-> IF i = 2 THEN s ELSE Free]
           o   == NewOffset(f, len)
           g   == GrowIdx(f, len)
           idx == Grown(f.idx, Section, Free, s)
           hdr == [f.hdr EXCEPT !.ioffi = Append(f.hdr.ioffi, o)]
           h   == [f EXCEPT !.idx = idx]
<1>1. f.hdr \in Headers /\ f.idx \in Seq(Entries)
  BY FileIs
<1>2. g = [f EXCEPT !.idx = f.idx \o new, !.hdr.ioffi = Append(f.hdr.ioffi, o)]
  BY DEF GrowIdx, NewSection, NewOffset, Files
<1>3. idx = f.idx \o new
  <2> HIDE DEF s
  <2>1. new = [i \in 1 .. Section + 1 |-> IF i = 1 THEN Free ELSE IF i = 2 THEN s ELSE Free]
    OBVIOUS
  <2> HIDE DEF new
  <2> QED
    BY <2>1 DEF Grown
<1>4. hdr \in Headers /\ hdr.ioffi = Append(f.hdr.ioffi, o) /\ hdr.inaph = f.hdr.inaph
  <2>1. f.hdr.ioffi \in Seq(Nat) /\ o \in Nat
    BY <1>1 DEF Headers
  <2> HIDE DEF o
  <2>2. Append(f.hdr.ioffi, o) \in Seq(Nat)
    BY <2>1, AppendProperties
  <2> DEFINE ioffi == Append(f.hdr.ioffi, o)
  <2> HIDE DEF ioffi
  <2> QED
    BY <1>1, <2>2 DEF Headers, ioffi
<1> HIDE DEF s, new, o, g
<1>5. g = [h EXCEPT !.hdr = hdr]
  <2> HIDE DEF idx
  <2>1. g = [f EXCEPT !.idx = idx, !.hdr.ioffi = Append(f.hdr.ioffi, o)]
    BY <1>2, <1>3
  <2> QED
    BY <2>1 DEF Files
<1>6. idx \in Seq(Entries)
  BY DEF s
<1> HIDE DEF idx
<1>7. h \in Files /\ h.idx = idx
  BY <1>6, NewIndex
<1> HIDE DEF h, hdr
<1>8. g \in Files /\ g.idx = h.idx /\ g.hdr = hdr
  BY <1>4, <1>5, <1>7, NewHeader
<1> QED
  BY <1>4, <1>7, <1>8 DEF g, idx, s, o

\* First word of a section whose number of physical articles before is o.
FirstOf(o, page) == (o - 1) * page + 1

\* The placeholders stay where they were, and the new one lies after them.
LEMMA GrownSections ==
  ASSUME NEW page \in Nat, NEW idx \in Seq(Entries), InOrder(idx, page), idx # <<>>,
         \A i \in DOMAIN idx : idx[i].name # Fin,
         NEW ioffi \in Seq(Nat), SectionsOK(idx, ioffi, page),
         NEW n \in Nat \ {0}, NEW e \in Entries, NEW s \in Entries,
         Before(idx[Len(idx)], e), Before(e, s),
         NEW o \in Nat, s.name = Sect, s.pos = FirstOf(o, page), s.len = 2 * page
  PROVE  SectionsOK(Grown(idx, n, e, s), Append(ioffi, o), page)
<1> DEFINE g == Grown(idx, n, e, s)
           l == Len(idx)
           new == Append(ioffi, o)
           m == Len(ioffi)
<1>1. DOMAIN g = 1 .. l + n + 1
  BY GrownIs
<1>2. \A i \in 1 .. l + n + 1 : g[i] = IF i <= l THEN idx[i] ELSE IF i = l + 1 THEN e
                                       ELSE IF i = l + 2 THEN s ELSE Free
  BY GrownIs
<1> HIDE DEF g
<1>3. /\ l \in Nat /\ l >= 1 /\ DOMAIN idx = 1 .. l /\ l \in DOMAIN idx
      /\ m \in Nat /\ DOMAIN ioffi = 1 .. m
  OBVIOUS
<1>4. /\ new \in Seq(Nat) /\ Len(new) = m + 1 /\ DOMAIN new = 1 .. m + 1
      /\ \A k \in 1 .. m : new[k] = ioffi[k]
      /\ new[m + 1] = o
  BY AppendProperties
<1> HIDE DEF new
<1>5. \A i \in DOMAIN idx : i \in DOMAIN g /\ g[i] = idx[i]
  BY <1>1, <1>2, <1>3
<1>6. l + 2 \in DOMAIN g /\ g[l + 2] = s /\ s = Entry(Sect, FirstOf(o, page), 2 * page)
  BY <1>1, <1>2, <1>3, EntryIs
<1>7. \A k \in 1 .. m : Start(new, k, page) = Start(ioffi, k, page)
  BY <1>4 DEF Start
<1>8. Start(new, m + 1, page) = FirstOf(o, page)
  BY <1>4 DEF Start, FirstOf
<1>9. ASSUME NEW k \in DOMAIN new PROVE \E i \in DOMAIN g : g[i] = Entry(Sect, Start(new, k, page), 2 * page)
  <2>1. CASE k = m + 1
    BY <1>6, <1>8, <2>1
  <2>2. CASE k # m + 1
    <3>1. k \in 1 .. m
      BY <1>3, <1>4, <2>2
    <3>2. PICK i \in DOMAIN idx : idx[i] = Entry(Sect, Start(ioffi, k, page), 2 * page)
      BY <1>3, <3>1 DEF SectionsOK
    <3> QED
      BY <1>5, <1>7, <3>1, <3>2
  <2> QED
    BY <2>1, <2>2
<1>10. ASSUME NEW k \in 1 .. m PROVE Start(ioffi, k, page) + 2 * page <= FirstOf(o, page)
  <2>1. PICK i \in DOMAIN idx : idx[i] = Entry(Sect, Start(ioffi, k, page), 2 * page)
    BY <1>3 DEF SectionsOK
  <2> DEFINE a == idx[i]
             last == idx[l]
  <2>2. a \in Entries /\ last \in Entries
    BY <1>3
  <2>3. Before(a, e)
    <3>1. CASE i = l
      BY <3>1
    <3>2. CASE i # l
      <4>1. i < l /\ last.name # Fin
        BY <1>3, <3>2
      <4>2. Before(a, last)
        BY <1>3, <4>1 DEF InOrder
      <4> HIDE DEF a, last
      <4>3. Before(last, e)
        BY DEF last
      <4> QED
        BY <2>2, <4>2, <4>3, BeforeBefore
    <3> QED
      BY <3>1, <3>2
  <2>4. a.pos = Start(ioffi, k, page) /\ a.len = 2 * page
    BY <2>1 DEF Entry
  <2> HIDE DEF a, last
  <2>5. Before(a, s)
    BY <2>2, <2>3, BeforeBefore
  <2> QED
    BY <2>4, <2>5 DEF Before
<1>11. ASSUME NEW j \in DOMAIN new, NEW k \in DOMAIN new, j < k
       PROVE  Start(new, j, page) + 2 * page <= Start(new, k, page)
  <2>1. j \in 1 .. m
    BY <1>3, <1>4, <1>11
  <2>2. CASE k = m + 1
    BY <1>7, <1>8, <1>10, <2>1, <2>2
  <2>3. CASE k # m + 1
    <3>1. k \in 1 .. m
      BY <1>3, <1>4, <2>3
    <3>2. Start(ioffi, j, page) + 2 * page <= Start(ioffi, k, page)
      BY <1>3, <1>11, <2>1, <3>1 DEF SectionsOK
    <3> QED
      BY <1>7, <2>1, <3>1, <3>2
  <2> QED
    BY <2>2, <2>3
<1> QED
  BY <1>9, <1>11 DEF SectionsOK, g, new

LEMMA GrownUsable ==
  ASSUME SizesAssumption, NamesAssumption, inst \in Instances, Extra # 0, NEW f, Usable(f, inst),
         NEW n \in Names \cup {Trou}, NEW len \in Nat,
         \A j \in DOMAIN f.idx : f.idx[j].name # Fin,
         n \in Names => \A j \in DOMAIN f.idx : f.idx[j].name # n
  PROVE  Usable(Placed(GrowIdx(f, len), Nart(f) + 1, n, len), inst)
<1> DEFINE idx  == f.idx
           l    == Len(idx)
           x    == l + 1
           last == idx[l]
           s    == NewSection(f, len)
           o    == NewOffset(f, len)
           g    == GrowIdx(f, len)
           pos  == PosOf(g, x)
           e    == Entry(n, pos, len)
           new  == [g.idx EXCEPT ![x] = e]
           p    == Placed(g, x, n, len)
<1>1. /\ f \in Files /\ idx \in Seq(Entries) /\ InOrder(idx, Page) /\ f.hdr.inaph >= 3 /\ idx # <<>>
      /\ SectionsOK(idx, f.hdr.ioffi, Page) /\ f.hdr.ioffi \in Seq(Nat)
  BY FileIs DEF Usable, Page, Files, Headers
<1>2. /\ DOMAIN idx = 1 .. l /\ l \in Nat /\ l >= 1 /\ l \in DOMAIN idx /\ last \in Entries
      /\ x \in Nat \ {0} /\ x > 1 /\ x - 1 = l /\ x \in Int
  BY <1>1
<1>3. Page \in Nat /\ Page >= 8 /\ Section \in Nat \ {0}
  BY Sizes
<1>4. /\ Fin \notin Names /\ Trou \notin Names /\ Sect \notin Names
      /\ Fin # Trou /\ Fin # Sect /\ Trou # Sect
  BY NamesApart
<1>5. n \in AllNames /\ n # Fin /\ n # Sect
  BY <1>4 DEF AllNames
<1>6. /\ \A j \in DOMAIN idx : idx[j].name # Fin
      /\ n \in Names => \A j \in DOMAIN idx : idx[j].name # n
  OBVIOUS
<1>7. last.pos >= 3 * Page + 1
  BY <1>1, <1>2, <1>6 DEF InOrder
<1>8. f.idx[Nart(f)] = last /\ Nart(f) + 1 = x
  BY DEF Nart
<1> HIDE DEF idx, l, x, last, s, o, g, pos, e, new, p
<1>9. /\ s \in Entries /\ s.name = Sect /\ s.len = 2 * Page
      /\ s.pos >= last.pos + last.len + len /\ o \in Nat /\ (o - 1) * Page + 1 = s.pos
  <2> DEFINE t == NewSection(f, len)
             u == NewOffset(f, len)
  <2>1. f.idx[Nart(f)] = last /\ last \in Entries /\ last.pos >= 3 * Page + 1
    BY <1>2, <1>7, <1>8
  <2>2. /\ t \in Entries /\ t.name = Sect /\ t.len = 2 * Page
        /\ t.pos >= last.pos + last.len + len /\ u \in Nat /\ (u - 1) * Page + 1 = t.pos
    BY <1>3, <2>1, NewSectionIs
  <2> QED
    BY <2>2 DEF s, o
<1>10. Free \in Entries
  BY DEF Free, Entry, Entries, AllNames
<1> DEFINE free  == Free
           grown == Grown(idx, Section, free, s)
<1>11. /\ grown \in Seq(Entries) /\ grown[l] = last /\ grown[x] = free
       /\ l \in DOMAIN grown /\ x \in DOMAIN grown
  <2>1. free \in Entries
    BY <1>10
  <2> HIDE DEF free
  <2>2. grown \in Seq(Entries)
    BY <2>1, <1>1, <1>3, <1>9, GrownIs
  <2>3. DOMAIN grown = 1 .. Len(idx) + Section + 1
    BY <2>1, <1>1, <1>3, <1>9, GrownIs
  <2>4. \A i \in 1 .. Len(idx) + Section + 1 :
          grown[i] = IF i <= Len(idx) THEN idx[i] ELSE IF i = Len(idx) + 1 THEN free
                     ELSE IF i = Len(idx) + 2 THEN s ELSE Free
    BY <2>1, <1>1, <1>3, <1>9, GrownIs
  <2> HIDE DEF grown
  <2> QED
    BY <2>2, <2>3, <2>4, <1>2, <1>3 DEF l, x, last
<1>12. /\ g \in Files /\ g.idx = grown
       /\ g.hdr.ioffi = Append(f.hdr.ioffi, o) /\ g.hdr.inaph = f.hdr.inaph
  <2>1. /\ f \in Files /\ Section \in Nat /\ NewOffset(f, len) \in Nat
        /\ Grown(f.idx, Section, Free, NewSection(f, len)) \in Seq(Entries)
    BY <1>1, <1>3, <1>9, <1>11 DEF o, s, idx
  <2>2. /\ GrowIdx(f, len) \in Files
        /\ GrowIdx(f, len).idx = Grown(f.idx, Section, Free, NewSection(f, len))
        /\ GrowIdx(f, len).hdr.ioffi = Append(f.hdr.ioffi, NewOffset(f, len))
        /\ GrowIdx(f, len).hdr.inaph = f.hdr.inaph
    BY <2>1, GrowIdxIs
  <2> QED
    BY <2>2 DEF g, o, s, idx
<1> HIDE DEF grown
<1>13. g.idx[x].name = Fin
  BY <1>11, <1>12 DEF free, Free, Entry
<1>14. pos \in Nat /\ pos >= 3 * Page + 1 /\ pos = last.pos + last.len
  <2>1. /\ g.hdr.inaph >= 3 /\ x > 1 => x - 1 \in DOMAIN g.idx /\ g.idx[x - 1].pos >= 3 * Page + 1
        /\ g.idx[x - 1] = last
    BY <1>1, <1>2, <1>7, <1>11, <1>12
  <2>2. /\ AppendAt(g, x) \in Nat /\ AppendAt(g, x) >= 3 * Page + 1
        /\ x > 1 => AppendAt(g, x) = g.idx[x - 1].pos + g.idx[x - 1].len
    BY <1>1, <1>2, <1>3, <1>12, <2>1, AppendAtIs
  <2>3. pos = AppendAt(g, x)
    BY <1>13 DEF pos, PosOf
  <2> QED
    BY <1>2, <2>1, <2>2, <2>3
<1>15. e \in Entries /\ e.name = n /\ e.pos = pos /\ e.len = len
  BY <1>5, <1>14 DEF e, Entry, Entries
<1>16. Before(last, e) /\ Before(e, s)
  <2>1. last.pos \in Nat /\ last.len \in Nat /\ s.pos \in Nat
    BY <1>2, <1>9, EntryIs
  <2> QED
    BY <2>1, <1>9, <1>14, <1>15 DEF Before
<1>17. new = Grown(idx, Section, e, s)
  <2>1. [Grown(idx, Section, Free, s) EXCEPT ![Len(idx) + 1] = e] = Grown(idx, Section, e, s)
    BY <1>1, <1>3, <1>9, <1>15, GrownPlaced
  <2> QED
    BY <1>12, <2>1 DEF new, grown, free, x, l
<1>18. InOrder(new, Page)
  <2>1. /\ e.name # Fin /\ \A j \in DOMAIN idx : e.name \in Names => idx[j].name # e.name
        /\ Before(idx[Len(idx)], e)
    BY <1>5, <1>6, <1>15, <1>16 DEF last, l
  <2>2. InOrder(Grown(idx, Section, e, s), Page)
    BY <2>1, <1>1, <1>3, <1>6, <1>9, <1>15, <1>16, GrownInOrder
  <2> QED
    BY <2>2, <1>17
<1>19. new \in Seq(Entries) /\ new # <<>>
  <2>1. Grown(idx, Section, e, s) \in Seq(Entries)
    BY <1>1, <1>3, <1>9, <1>15, GrownIs
  <2>2. x \in DOMAIN new
    BY <1>11, <1>12 DEF new
  <2> QED
    BY <2>1, <2>2, <1>17
<1>20. SectionsOK(new, Append(f.hdr.ioffi, o), Page)
  <2> DEFINE ioffi == f.hdr.ioffi
  <2>1. ioffi \in Seq(Nat) /\ SectionsOK(idx, ioffi, Page)
    BY <1>1
  <2> HIDE DEF ioffi
  <2>2. s.pos = FirstOf(o, Page) /\ Before(idx[Len(idx)], e)
    BY <1>9, <1>16 DEF last, l, FirstOf
  <2>3. SectionsOK(Grown(idx, Section, e, s), Append(ioffi, o), Page)
    BY <2>1, <2>2, <1>1, <1>3, <1>6, <1>9, <1>15, <1>16, GrownSections
  <2> QED
    BY <2>3, <1>17 DEF ioffi
<1>21. /\ HdrOf(g, x, len) \in Headers /\ HdrOf(g, x, len).ioffi = Append(f.hdr.ioffi, o)
       /\ HdrOf(g, x, len).inaph >= 3
  <2>1. g.idx[x].name = Fin => PosOf(g, x) \in Nat /\ PosOf(g, x) >= 3 * Page + 1
    BY <1>14 DEF pos
  <2>2. /\ HdrOf(g, x, len) \in Headers /\ HdrOf(g, x, len).ioffi = g.hdr.ioffi
        /\ HdrOf(g, x, len).inaph >= 3
    BY <1>1, <1>3, <1>12, <2>1, HdrOfIs
  <2> QED
    BY <1>12, <2>2
<1>22. p \in Files /\ p.idx = new /\ p.hdr = HdrOf(g, x, len)
  <2> DEFINE k == len
             q == Placed(g, x, n, k)
             h == HdrOf(g, x, k)
             made == [g.idx EXCEPT ![x] = Entry(n, PosOf(g, x), k)]
  <2>1. made \in Seq(Entries) /\ x \in Int /\ g \in Files /\ h \in Headers
    BY <1>2, <1>12, <1>19, <1>21 DEF new, e, pos
  <2>2. p = q /\ new = made /\ HdrOf(g, x, len) = h
    BY DEF p, new, e, pos
  <2> HIDE DEF k
  <2>3. q \in Files /\ q.idx = made /\ q.hdr = h
    BY <2>1, PlacedIs
  <2> HIDE DEF q, made, h
  <2> QED
    BY <2>2, <2>3
<1>23. Usable(p, inst)
  <2>1. inst.Extra # 0 /\ Page = inst.Page
    BY DEF Extra, Page
  <2> QED
    BY <2>1, <1>18, <1>19, <1>20, <1>21, <1>22 DEF Usable
<1> QED
  BY <1>8, <1>23 DEF p, g

LEMMA ResultIs ==
  ASSUME NEW f, NEW ws, NEW krep
  PROVE  Result(f, ws, krep).f = f /\ Result(f, ws, krep).ws = ws
BY DEF Result

\* What a writing call may leave: a usable descriptor, or none, and writes
\* that keep a file of one section whole.
Leaves(r) == (r.f = Closed \/ Usable(r.f, inst)) /\ (Extra = 0 => r.ws \in Queues(inst))

LEMMA MarksAreQueues ==
  ASSUME SizesAssumption, inst \in Instances, Extra = 0, NEW ws, Marks(ws)
  PROVE  ws \in Queues(inst)
BY MarkWrites, NothingWritten DEF Marks

LEMMA WriteLeaves ==
  ASSUME SizesAssumption, NamesAssumption, inst \in Instances, NEW f, Usable(f, inst),
         NEW n \in Names \cup {Trou}, NEW len \in Int, NEW id \in Int
  PROVE  Leaves(Write(f, n, len, id))
<1> DEFINE r    == RoomOf(f, n, len)
           slot == SlotOf(f, n, len)
           grow == slot = 0 /\ Len(r.hdr.ioffi) < Extra
           g    == IF grow THEN GrowIdx(r, len) ELSE r
           x    == IF grow THEN Nart(r) + 1 ELSE slot
           pos  == PosOf(g, x)
           sup  == Former(f, n).ws
           data == <<[op |-> "data", at |-> pos, len |-> len, id |-> id]>>
           w    == Write(f, n, len, id)
           bad  == Lookup(f, n) = 0 /\ n \notin Names
<1>1. w = IF len < 0 THEN Result(f, <<>>, -14)
          ELSE IF bad THEN Result(f, <<>>, -15)
          ELSE IF slot = 0 /\ ~grow THEN Result(r, sup, -1)
          ELSE Result(Placed(g, x, n, len), sup \o MarkModified(g) \o data, 0)
  BY WriteIs
<1> HIDE DEF w, bad
<1>2. CASE len < 0 \/ bad
  <2>1. w = Result(f, <<>>, -14) \/ w = Result(f, <<>>, -15)
    BY <1>1, <1>2
  <2>2. w.f = f /\ w.ws = <<>>
    BY <2>1, ResultIs
  <2> QED
    BY <2>2, NothingWritten DEF Leaves, w
<1>3. CASE ~(len < 0 \/ bad)
  <2>1. len \in Nat
    BY <1>3
  <2>2. /\ Usable(r, inst)
        /\ n \in Names => \A j \in DOMAIN r.idx : r.idx[j].name # n
        /\ slot = 0 => \A j \in DOMAIN r.idx : r.idx[j].name # Fin
        /\ slot # 0 => /\ slot \in DOMAIN r.idx
                       /\ \/ Fits(r.idx[slot], len)
                          \/ r.idx[slot].name = Fin /\ \A j \in DOMAIN r.idx : j < slot => r.idx[j].name # Fin
        /\ Marks(sup)
    BY <2>1, RoomIs
  <2>3. CASE slot = 0 /\ ~grow
    <3>1. w = Result(r, sup, -1)
      BY <1>1, <1>3, <2>3
    <3> HIDE DEF r, sup
    <3>2. w.f = r /\ w.ws = sup
      BY <3>1, ResultIs
    <3> QED
      BY <2>2, <3>2, MarksAreQueues DEF Leaves, w
  <2>4. CASE ~(slot = 0 /\ ~grow)
    <3>1. w = Result(Placed(g, x, n, len), sup \o MarkModified(g) \o data, 0)
      BY <1>1, <1>3, <2>4
    <3> HIDE DEF r, slot, sup, data, pos
    <3>2. w.f = Placed(g, x, n, len) /\ w.ws = sup \o MarkModified(g) \o data
      <4> DEFINE p  == Placed(g, x, n, len)
                 ws == sup \o MarkModified(g) \o data
      <4>1. w = Result(p, ws, 0)
        BY <3>1
      <4> HIDE DEF p, ws
      <4>2. w.f = p /\ w.ws = ws
        BY <4>1, ResultIs
      <4> QED
        BY <4>2 DEF p, ws
    <3>3. CASE grow
      <4>1. g = GrowIdx(r, len) /\ x = Nart(r) + 1 /\ slot = 0 /\ Len(r.hdr.ioffi) < Extra
        BY <3>3
      <4>2. Extra # 0
        <5>1. r.hdr.ioffi \in Seq(Nat)
          BY <2>2 DEF Usable, Files, Headers
        <5>2. Len(r.hdr.ioffi) \in Nat
          BY <5>1
        <5> QED
          BY <4>1, <5>2
      <4>3. Usable(Placed(GrowIdx(r, len), Nart(r) + 1, n, len), inst)
        BY <2>1, <2>2, <4>1, <4>2, GrownUsable
      <4> QED
        BY <3>2, <4>1, <4>2, <4>3 DEF Leaves, w
    <3>4. CASE ~grow
      <4>1. g = r /\ x = slot /\ slot # 0
        BY <2>4, <3>4
      <4> HIDE DEF g, x
      <4>2. /\ slot \in DOMAIN r.idx
            /\ \/ Fits(r.idx[slot], len)
               \/ r.idx[slot].name = Fin /\ \A j \in DOMAIN r.idx : j < slot => r.idx[j].name # Fin
            /\ Usable(r, inst)
            /\ n \in Names => \A j \in DOMAIN r.idx : r.idx[j].name # n
        BY <2>2, <4>1
      <4>3. Usable(Placed(r, slot, n, len), inst) /\ PosOf(r, slot) \in Int
        BY <2>1, <4>2, PlacedUsable
      <4>4. ASSUME Extra = 0 PROVE w.ws \in Queues(inst)
        <5>1. sup \in Queues(inst) /\ MarkModified(g) \in Queues(inst)
          BY <2>2, <4>1, <4>4, MarksAreQueues, MarkWrites
        <5>2. data \in Queues(inst)
          <6> DEFINE d == [op |-> "data", at |-> pos, len |-> len, id |-> id]
          <6>1. pos \in Int
            BY <4>1, <4>3 DEF pos
          <6>2. d \in PlainWrites(inst) /\ d.op # "hdr"
            BY <6>1 DEF PlainWrites
          <6> HIDE DEF d
          <6>3. <<d>> \in Queues(inst)
            BY <6>2, OneWrite
          <6> QED
            BY <6>3 DEF data, d
        <5>3. sup \o MarkModified(g) \in Queues(inst)
          BY <5>1, QueuesJoin
        <5>4. (sup \o MarkModified(g)) \o data \in Queues(inst)
          BY <5>2, <5>3, QueuesJoin
        <5> QED
          BY <3>2, <5>4
      <4> QED
        BY <3>2, <4>1, <4>3, <4>4 DEF Leaves, w
    <3> QED
      BY <3>3, <3>4
  <2> QED
    BY <2>3, <2>4
<1> QED
  BY <1>2, <1>3

-----------------------------------------------------------------------------
(* The other calls. *)

LEMMA SuppressLeaves ==
  ASSUME SizesAssumption, NamesAssumption, inst \in Instances, NEW f, Usable(f, inst), NEW n \in Names \cup {Trou}
  PROVE  Leaves(Suppress(f, n))
<1> DEFINE i == Lookup(f, n)
           r == Suppress(f, n)
           s == Suppressed(f, i)
<1>1. r = IF i = 0 THEN Result(f, <<>>, -20) ELSE Result(s.f, s.ws, 0)
  BY DEF Suppress
<1>2. /\ f \in Files /\ f.idx \in Seq(Entries) /\ DOMAIN f.idx = 1 .. Len(f.idx) /\ Len(f.idx) \in Nat
  BY FileIs DEF Usable
<1>3. i \in 0 .. Len(f.idx) /\ (i # 0 => f.idx[i].name = n)
  BY <1>2, LookupIs
<1>4. n \notin {Fin, Sect}
  BY NamesApart
<1> HIDE DEF r, i
<1>5. CASE i = 0
  <2>1. r.f = f /\ r.ws = <<>>
    BY <1>1, <1>5, ResultIs
  <2> QED
    BY <2>1, NothingWritten DEF Leaves, r
<1>6. CASE i # 0
  <2>1. i \in DOMAIN f.idx /\ f.idx[i].name \notin {Fin, Sect}
    BY <1>2, <1>3, <1>4, <1>6
  <2>2. Usable(s.f, inst) /\ \E holed : Usable(holed, inst) /\ s.ws = MarkModified(holed)
    BY <2>1, SuppressedUsable
  <2>3. Marks(s.ws)
    BY <2>2 DEF Marks
  <2> HIDE DEF s
  <2>4. r.f = s.f /\ r.ws = s.ws
    BY <1>1, <1>6, ResultIs
  <2> QED
    BY <2>2, <2>3, <2>4, MarksAreQueues DEF Leaves, r
<1> QED
  BY <1>5, <1>6

LEMMA RenameLeaves ==
  ASSUME SizesAssumption, NamesAssumption, inst \in Instances, NEW f, Usable(f, inst),
         NEW m \in Names \cup {Trou}, NEW n
  PROVE  Leaves(Rename(f, m, n))
<1> DEFINE i == Lookup(f, m)
           r == Rename(f, m, n)
           idx == f.idx
           e   == Entry(n, idx[i].pos, idx[i].len)
           new == [idx EXCEPT ![i] = e]
           g   == [f EXCEPT !.idx[i].name = n, !.modified = TRUE]
           h   == [f EXCEPT !.idx = new]
<1>1. \/ r = Result(f, <<>>, -20) \/ r = Result(f, <<>>, -15) \/ r = Result(f, <<>>, -25)
      \/ i # 0 /\ n \in Names /\ Lookup(f, n) = 0 /\ r = Result(g, MarkModified(f), 0)
  <2>1. r = IF i = 0 THEN Result(f, <<>>, -20)
            ELSE IF n \notin Names THEN Result(f, <<>>, -15)
            ELSE IF Lookup(f, n) > 0 THEN Result(f, <<>>, -25)
            ELSE Result(g, MarkModified(f), 0)
    BY DEF Rename, Taken
  <2>2. Lookup(f, n) \in 0 .. Len(idx)
    BY LookupIs DEF Usable
  <2>3. Len(idx) \in Nat
    BY FileIs DEF Usable
  <2>4. Lookup(f, n) > 0 \/ Lookup(f, n) = 0
    <3> DEFINE k == Lookup(f, n)
               top == Len(idx)
    <3>1. k \in 0 .. top /\ top \in Nat
      BY <2>2, <2>3
    <3> HIDE DEF k, top
    <3>2. k > 0 \/ k = 0
      BY <3>1
    <3> QED
      BY <3>2 DEF k
  <2> HIDE DEF r, g, i
  <2> QED
    BY <2>1, <2>4
<1>2. /\ f \in Files /\ idx \in Seq(Entries) /\ InOrder(idx, Page) /\ f.hdr.inaph >= 3
      /\ DOMAIN idx = 1 .. Len(idx) /\ Len(idx) \in Nat
  BY FileIs DEF Usable, Page
<1>3. i \in 0 .. Len(idx) /\ (i # 0 => idx[i].name = m)
  BY <1>2, LookupIs
<1>4. m \notin {Fin, Sect} /\ Fin \notin Names /\ Sect \notin Names
  BY NamesApart
<1>5. Page \in Nat
  BY Sizes
<1> HIDE DEF r
<1>6. CASE r = Result(f, <<>>, -20) \/ r = Result(f, <<>>, -15) \/ r = Result(f, <<>>, -25)
  <2>1. r.f = f /\ r.ws = <<>>
    BY <1>6, ResultIs
  <2> QED
    BY <2>1, NothingWritten DEF Leaves, r
<1>7. CASE i # 0 /\ n \in Names /\ Lookup(f, n) = 0 /\ r = Result(g, MarkModified(f), 0)
  <2>1. i \in DOMAIN idx /\ idx[i].name \notin {Fin, Sect} /\ idx[i].name # Fin /\ n # Fin /\ n # Sect
    <3> HIDE DEF i, idx
    <3> QED
      BY <1>2, <1>3, <1>4, <1>7
  <2>2. \A j \in DOMAIN idx : idx[j].name # n
    BY <1>2, <1>7, LookupIs
  <2>3. n \in AllNames
    BY <1>7 DEF AllNames
  <2>4. r.f = g /\ r.ws = MarkModified(f)
    <3> HIDE DEF g
    <3> QED
      BY <1>7, ResultIs
  <2>5. g = [h EXCEPT !.modified = TRUE]
    <3>1. [idx[i] EXCEPT !.name = n] = e
      <4> DEFINE d == idx[i]
      <4>1. d \in Entries
        BY <1>2, <2>1
      <4> HIDE DEF d
      <4>2. d = Entry(d.name, d.pos, d.len)
        BY <4>1, EntryIs
      <4>3. [d EXCEPT !.name = n] = Entry(n, d.pos, d.len)
        BY <4>2 DEF Entry
      <4> QED
        BY <4>3 DEF d
    <3>2. g = [f EXCEPT !.idx = [idx EXCEPT ![i] = [idx[i] EXCEPT !.name = n]], !.modified = TRUE]
      BY <1>2 DEF Files
    <3>3. g = [f EXCEPT !.idx = new, !.modified = TRUE]
      BY <3>1, <3>2
    <3> HIDE DEF g, new
    <3> QED
      BY <3>3, <1>2 DEF Files
  <2> HIDE DEF idx, i, g
  <2>6. new \in Seq(Entries) /\ InOrder(new, Page)
    <3>1. \A j \in DOMAIN idx \ {i} : n \in Names => idx[j].name # n
      BY <2>2
    <3>2. /\ [idx EXCEPT ![i] = Entry(n, idx[i].pos, idx[i].len)] \in Seq(Entries)
          /\ InOrder([idx EXCEPT ![i] = Entry(n, idx[i].pos, idx[i].len)], Page)
      BY <1>2, <1>5, <2>1, <2>3, <3>1, RenamedInOrder
    <3> QED
      BY <3>2
  <2>7. SameSections(idx, new)
    <3>1. e.name = n
      BY DEF Entry
    <3> HIDE DEF e
    <3> QED
      BY <2>1, <3>1 DEF SameSections
  <2> HIDE DEF new
  <2>8. h \in Files /\ h.idx = new /\ h.hdr = f.hdr
    BY <1>2, <2>6, NewIndex
  <2> HIDE DEF h
  <2>9. g \in Files /\ g.idx = new /\ g.hdr = f.hdr
    BY <2>5, <2>8, NewMark
  <2>10. Usable(g, inst)
    BY <1>2, <2>6, <2>7, <2>9, StillUsable DEF Page, idx
  <2> QED
    BY <2>4, <2>10, MarkWrites DEF Leaves, r
<1> QED
  BY <1>1, <1>6, <1>7

LEMMA OpenNewLeaves ==
  ASSUME SizesAssumption, NamesAssumption, inst \in Instances
  PROVE  Leaves(OpenNew)
<1> DEFINE idx == [i \in 1 .. Section |-> Free]
           f   == [open |-> TRUE, idx |-> idx, hdr |-> NewHdr, iart |-> 0, modified |-> FALSE]
           g   == [f EXCEPT !.modified = TRUE]
           new == <<[op |-> "create"]>>
<1>1. Section \in Nat \ {0} /\ Page \in Nat
  BY Sizes
<1>2. Free \in Entries /\ Free.name = Fin /\ Fin \notin Names /\ Fin # Sect
  BY NamesApart DEF Free, Entry, Entries, AllNames
<1>3. /\ idx \in Seq(Entries) /\ Len(idx) = Section /\ DOMAIN idx = 1 .. Section /\ idx # <<>>
      /\ \A j \in DOMAIN idx : idx[j].name = Fin
  <2> DEFINE free == Free
  <2>1. free \in Entries /\ free.name = Fin /\ idx = [i \in 1 .. Section |-> free]
    BY <1>2
  <2> HIDE DEF free
  <2> QED
    BY <1>1, <2>1
<1>4. InOrder(idx, Page)
  <2> HIDE DEF idx
  <2> QED
    BY <1>2, <1>3 DEF InOrder
<1>5. NewHdr \in Headers /\ NewHdr.ioffi = <<>> /\ NewHdr.inaph = 3 /\ NewHdr \in PlainHeaders
  BY DEF NewHdr, Headers, PlainHeaders
<1> HIDE DEF idx
<1>6. f \in Files /\ f.idx = idx /\ f.hdr = NewHdr
  <2> DEFINE hdr == NewHdr
             none == 0
             file == [open |-> TRUE, idx |-> idx, hdr |-> hdr, iart |-> none, modified |-> FALSE]
  <2>1. hdr \in Headers /\ none \in Int /\ idx \in Seq(Entries) /\ f = file
    BY <1>3, <1>5
  <2> HIDE DEF hdr, none, f
  <2>2. file \in Files /\ file.idx = idx /\ file.hdr = hdr
    BY <2>1, Zenon DEF Files
  <2> HIDE DEF file
  <2> QED
    BY <2>1, <2>2 DEF hdr
<1> HIDE DEF f
<1>7. ASSUME NEW h \in Files, h.idx = idx, h.hdr = NewHdr PROVE Usable(h, inst)
  <2>1. SectionsOK(idx, <<>>, Page)
    BY DEF SectionsOK
  <2>2. idx \in PlainIndex(inst)
    BY <1>2, <1>3, <1>4 DEF PlainIndex, Page, Section
  <2> QED
    BY <1>3, <1>4, <1>5, <1>7, <2>1, <2>2 DEF Usable, Page
<1>8. Usable(f, inst)
  BY <1>6, <1>7
<1>9. Usable(g, inst)
  <2>1. g \in Files /\ g.idx = f.idx /\ g.hdr = f.hdr
    BY <1>6, NewMark
  <2> HIDE DEF g
  <2> QED
    BY <1>6, <1>7, <2>1
<1>10. ASSUME Extra = 0 PROVE new \o MarkModified(f) \in Queues(inst)
  <2> DEFINE w == [op |-> "create"]
  <2>1. w \in PlainWrites(inst) /\ w.op # "hdr"
    BY DEF PlainWrites
  <2> HIDE DEF w
  <2>2. <<w>> \in Queues(inst)
    BY <2>1, OneWrite
  <2>3. MarkModified(f) \in Queues(inst)
    BY <1>8, <1>10, MarkWrites
  <2>4. <<w>> \o MarkModified(f) \in Queues(inst)
    BY <2>2, <2>3, QueuesJoin
  <2> QED
    BY <2>4 DEF w
<1>11. OpenNew = Result(g, new \o MarkModified(f), 0)
  BY DEF OpenNew, f, idx
<1>12. OpenNew.f = g /\ OpenNew.ws = new \o MarkModified(f)
  <2> DEFINE ws == new \o MarkModified(f)
  <2>1. OpenNew = Result(g, ws, 0)
    BY <1>11
  <2> HIDE DEF g, ws
  <2>2. OpenNew.f = g /\ OpenNew.ws = ws
    BY <2>1, ResultIs
  <2> QED
    BY <2>2 DEF ws
<1> QED
  BY <1>9, <1>10, <1>12 DEF Leaves

LEMMA CloseLeaves ==
  ASSUME SizesAssumption, inst \in Instances, NEW f, Usable(f, inst)
  PROVE  Leaves(Close(f))
<1> DEFINE flush == [op |-> "flush"]
           ws == LastWrites(f) \o <<flush>>
<1>1. Close(f) = Result(Closed, ws, 0)
  BY DEF Close
<1>2. ASSUME Extra = 0 PROVE ws \in Queues(inst)
  <2>1. flush \in PlainWrites(inst) /\ flush.op # "hdr"
    BY DEF PlainWrites
  <2> HIDE DEF flush
  <2>2. <<flush>> \in Queues(inst)
    BY <2>1, OneWrite
  <2>3. LastWrites(f) \in Queues(inst)
    BY <1>2, MarkWrites, NothingWritten DEF LastWrites
  <2> QED
    BY <2>2, <2>3, QueuesJoin
<1> HIDE DEF ws
<1>3. Close(f).f = Closed /\ Close(f).ws = ws
  BY <1>1, ResultIs
<1> QED
  BY <1>2, <1>3 DEF Leaves

LEMMA CurrentUsable ==
  ASSUME NEW f, Usable(f, inst), NEW at \in Int
  PROVE  Usable([f EXCEPT !.iart = at], inst)
<1> DEFINE g == [f EXCEPT !.iart = at]
<1>1. f \in Files /\ f.hdr.inaph >= 3 /\ InOrder(f.idx, inst.Page)
  BY DEF Usable
<1>2. g \in Files /\ g.idx = f.idx /\ g.hdr = f.hdr /\ g.iart = at /\ g.modified = f.modified
  BY <1>1, NewCurrent
<1> HIDE DEF g
<1>3. SameSections(f.idx, g.idx)
  BY <1>2 DEF SameSections
<1>4. Usable(g, inst)
  BY <1>1, <1>2, <1>3, StillUsable
<1> QED
  BY <1>4 DEF g

-----------------------------------------------------------------------------
(* The disk of a file of one section. *)

LEMMA QueueParts ==
  ASSUME NEW q \in Queues(inst), NEW k \in 0 .. Len(q)
  PROVE  /\ SubSeq(q, 1, k) \in Queues(inst)
         /\ k = 0 \/ q[k].op = "flush" => SubSeq(q, k + 1, Len(q)) \in Queues(inst)
<1> DEFINE W == PlainWrites(inst)
           a == SubSeq(q, 1, k)
           b == SubSeq(q, k + 1, Len(q))
           l == Len(q)
<1>1. q \in Seq(W) /\ Ordered(q) /\ l \in Nat /\ DOMAIN q = 1 .. l /\ k \in 0 .. l /\ k \in Int
  <2>1. q \in Seq(W) /\ Ordered(q)
    BY DEF Queues
  <2> HIDE DEF W
  <2> QED
    BY <2>1
<1> HIDE DEF W, l
<1>2. \A i \in 1 .. l : q[i] \in W
  BY <1>1
<1>9. \A j \in 1 .. l : q[j].op = "hdr" => j > 1 /\ q[j - 1].op = "sec"
  <2>1. \A j \in DOMAIN q : q[j].op = "hdr" => j > 1 /\ q[j - 1].op = "sec"
    BY <1>1 DEF Ordered
  <2> QED
    BY <1>1, <2>1
<1>3. a \in Seq(W) /\ DOMAIN a = 1 .. k /\ \A i \in 1 .. k : a[i] = q[i]
  <2>1. \A i \in 1 .. k : q[i] \in W
    BY <1>1, <1>2
  <2>2. a \in Seq(W) /\ Len(a) = IF 1 <= k THEN k - 1 + 1 ELSE 0
    BY <1>1, <2>1, SubSeqProperties
  <2>3. \A i \in 1 .. k - 1 + 1 : a[i] = q[1 + i - 1]
    BY <1>1, <2>1, SubSeqProperties
  <2> HIDE DEF a
  <2>4. Len(a) = k /\ DOMAIN a = 1 .. Len(a) /\ k - 1 + 1 = k
    BY <1>1, <2>2, LenProperties
  <2>5. \A i \in 1 .. k : 1 + i - 1 = i
    BY <1>1
  <2> QED
    BY <2>2, <2>3, <2>4, <2>5
<1>4. Ordered(a)
  <2> HIDE DEF a
  <2>1. ASSUME NEW j \in 1 .. k, q[j].op = "hdr" PROVE j > 1 /\ a[j - 1].op = "sec"
    <3>1. j > 1 /\ q[j - 1].op = "sec"
      <4>1. j \in 1 .. l
        BY <1>1
      <4> QED
        BY <1>9, <2>1, <4>1
    <3>2. j - 1 \in 1 .. k
      BY <1>1, <3>1
    <3> QED
      BY <1>3, <3>1, <3>2
  <2> QED
    BY <1>3, <2>1 DEF Ordered
<1>5. /\ b \in Seq(W) /\ DOMAIN b = 1 .. l - k /\ \A i \in 1 .. l - k : b[i] = q[k + i]
  <2> DEFINE m == k + 1
  <2>1. \A i \in m .. l : q[i] \in W
    BY <1>1, <1>2
  <2>2. m \in Int /\ l \in Int /\ b = SubSeq(q, m, l)
    BY <1>1 DEF l
  <2> HIDE DEF m, b
  <2>3. b \in Seq(W) /\ Len(b) = IF m <= l THEN l - m + 1 ELSE 0
    BY <2>1, <2>2, SubSeqProperties
  <2>4. \A i \in 1 .. l - m + 1 : b[i] = q[m + i - 1]
    BY <2>1, <2>2, SubSeqProperties
  <2>5. l - m + 1 = l - k /\ Len(b) = l - k /\ DOMAIN b = 1 .. Len(b)
    BY <1>1, <2>3, LenProperties DEF m
  <2>6. \A i \in 1 .. l - k : m + i - 1 = k + i
    BY <1>1 DEF m
  <2> QED
    BY <2>3, <2>4, <2>5, <2>6
<1>6. ASSUME k = 0 \/ q[k].op = "flush" PROVE Ordered(b)
  <2> HIDE DEF b
  <2>1. ASSUME NEW j \in 1 .. l - k, b[j].op = "hdr" PROVE j > 1 /\ b[j - 1].op = "sec"
    <3>1. k + j \in 1 .. l /\ q[k + j].op = "hdr"
      BY <1>1, <1>5, <2>1
    <3>2. k + j > 1 /\ q[k + j - 1].op = "sec"
      BY <1>9, <3>1
    <3>3. j # 1
      <4> SUFFICES ASSUME j = 1 PROVE FALSE
        OBVIOUS
      <4>1. k + j - 1 = k /\ k # 0
        BY <1>1, <3>2
      <4> QED
        BY <1>6, <3>2, <4>1
    <3>4. j > 1 /\ j - 1 \in 1 .. l - k /\ k + (j - 1) = k + j - 1
      BY <1>1, <3>3
    <3> QED
      BY <1>5, <3>2, <3>4
  <2> QED
    BY <1>5, <2>1 DEF Ordered
<1>7. a \in Queues(inst)
  BY <1>3, <1>4 DEF Queues, W
<1>8. k = 0 \/ q[k].op = "flush" => b \in Queues(inst)
  BY <1>5, <1>6 DEF Queues, W
<1> QED
  BY <1>7, <1>8 DEF l

LEMMA WriteFields ==
  ASSUME NEW w \in PlainWrites(inst)
  PROVE  /\ w.op = "hdr" => w.hdr \in PlainHeaders
         /\ w.op = "sec" => w.k = 0 /\ w.ents \in PlainIndex(inst)
<1>1. CASE w \in [op : {"sec"}, k : {0}, ents : PlainIndex(inst), at : {inst.Page + 1}]
  BY <1>1
<1>2. CASE w \in [op : {"hdr"}, hdr : PlainHeaders]
  BY <1>2
<1>3. CASE w \in [op : {"flag", "flush", "create"}]
  BY <1>3
<1>4. CASE w \in [op : {"data"}, at : Int, len : Int, id : Int]
  BY <1>4
<1> QED
  BY <1>1, <1>2, <1>3, <1>4 DEF PlainWrites

LEMMA Flagged ==
  ASSUME NEW h \in PlainHeaders
  PROVE  [h EXCEPT !.ifeam = 1] \in PlainHeaders
BY DEF PlainHeaders, Headers

\* A disk that holds whole indexes and headers keeps them through such writes.
LEMMA AfterKeeps ==
  ASSUME NEW d, PlainDisk(d, inst), NEW q \in Queues(inst)
  PROVE  PlainDisk(After(d, q), inst)
<1> DEFINE l       == Len(q)
           last(S) == CHOOSE i \in S : \A j \in S : j <= i
           Hdrs    == {i \in DOMAIN q : q[i].op = "hdr"}
           Flags   == {i \in DOMAIN q : q[i].op = "flag"}
           Secs(k) == {i \in DOMAIN q : q[i].op = "sec" /\ q[i].k = k - 1}
           hdr     == IF Hdrs = {} THEN d.hdr ELSE q[last(Hdrs)].hdr
           flagged == Flags # {} /\ \A i \in Hdrs : i < last(Flags)
           m       == Len(d.sec)
           Stop(k) == k >= m /\ Secs(k + 1) = {} /\ \A i \in m + 1 .. k : Secs(i) # {}
           n       == CHOOSE k \in 0 .. m + l : Stop(k)
           sec     == [k \in 1 .. n |-> IF Secs(k) = {} THEN d.sec[k] ELSE q[last(Secs(k))].ents]
           a       == After(d, q)
<1>1. /\ a.lfi = (d.lfi \/ Hdrs # {})
      /\ a.hdr = (IF flagged THEN [hdr EXCEPT !.ifeam = 1] ELSE hdr)
      /\ a.sec = sec
  BY DEF After
<1> HIDE DEF a
<1>2. /\ l \in Nat /\ DOMAIN q = 1 .. l /\ Ordered(q)
      /\ \A i \in 1 .. l : q[i] \in PlainWrites(inst)
  BY DEF Queues
<1> HIDE DEF l
<1>3. ASSUME NEW S \in SUBSET (1 .. l), S # {} PROVE last(S) \in S
  <2>1. \E x \in S : \A y \in S : y <= x
    <3>1. S \in SUBSET (0 .. l)
      BY <1>2
    <3> QED
      BY <1>2, <1>3, <3>1, GreatestNumber
  <2> QED
    BY <2>1
<1> HIDE DEF last
<1>4. Hdrs \in SUBSET (1 .. l) /\ \A k : Secs(k) \in SUBSET (1 .. l)
  BY <1>2
<1>5. hdr \in PlainHeaders
  <2>1. CASE Hdrs = {}
    BY <2>1 DEF PlainDisk
  <2>2. CASE Hdrs # {}
    <3>1. last(Hdrs) \in Hdrs
      BY <1>3, <1>4, <2>2
    <3>2. q[last(Hdrs)].op = "hdr" /\ q[last(Hdrs)] \in PlainWrites(inst)
      BY <1>2, <3>1
    <3> QED
      BY <2>2, <3>2, WriteFields
  <2> QED
    BY <2>1, <2>2
<1>6. a.hdr \in PlainHeaders
  <2> HIDE DEF hdr, flagged
  <2> QED
    BY <1>1, <1>5, Flagged
<1>7. ASSUME NEW k \in Int, k # 1 PROVE Secs(k) = {}
  <2> SUFFICES ASSUME NEW i \in Secs(k) PROVE FALSE
    OBVIOUS
  <2>1. q[i].op = "sec" /\ q[i].k = k - 1 /\ q[i] \in PlainWrites(inst)
    BY <1>2
  <2>2. q[i].k = 0
    BY <2>1, WriteFields
  <2> QED
    BY <1>7, <2>1, <2>2
<1>8. ASSUME NEW k \in Int, Secs(k) # {}
      PROVE  q[last(Secs(k))].ents \in PlainIndex(inst)
  <2>1. last(Secs(k)) \in Secs(k)
    BY <1>3, <1>4, <1>8
  <2>2. q[last(Secs(k))].op = "sec" /\ q[last(Secs(k))] \in PlainWrites(inst)
    BY <1>2, <2>1
  <2> QED
    BY <2>2, WriteFields
<1>9. Hdrs # {} => Secs(1) # {}
  <2> SUFFICES ASSUME NEW i \in Hdrs PROVE Secs(1) # {}
    OBVIOUS
  <2>1. i \in 1 .. l /\ q[i].op = "hdr"
    BY <1>2
  <2>2. i > 1 /\ q[i - 1].op = "sec"
    BY <1>2, <2>1 DEF Ordered
  <2>3. i - 1 \in 1 .. l
    BY <1>2, <2>1, <2>2
  <2>4. q[i - 1].k = 0
    BY <1>2, <2>2, <2>3, WriteFields
  <2>5. i - 1 \in Secs(1)
    BY <1>2, <2>2, <2>3, <2>4
  <2> QED
    BY <2>5
<1>10. Secs(1) # {} => l >= 1
  BY <1>2, <1>4
<1>11. m \in {0, 1} /\ d.sec \in Seq(PlainIndex(inst)) /\ DOMAIN d.sec = 1 .. m /\ (d.sec # <<>> <=> m = 1)
  <2>1. d.sec \in Seq(PlainIndex(inst)) /\ Len(d.sec) <= 1
    BY DEF PlainDisk
  <2>2. m \in Nat /\ DOMAIN d.sec = 1 .. m /\ (d.sec # <<>> <=> m # 0)
    BY <2>1
  <2>3. m <= 1
    BY <2>1
  <2> HIDE DEF m
  <2>4. m = 0 \/ m = 1
    BY <2>2, <2>3
  <2> QED
    BY <2>1, <2>2, <2>4
<1> HIDE DEF Hdrs, hdr, flagged, Secs, m
<1>12. \E k \in 0 .. m + l : Stop(k)
  <2>1. CASE m = 0 /\ Secs(1) = {}
    <3>1. Stop(0)
      BY <2>1
    <3> QED
      BY <1>2, <2>1, <3>1
  <2>2. CASE m = 1 \/ Secs(1) # {}
    <3>1. Secs(1 + 1) = {}
      BY <1>7
    <3>2. \A i \in m + 1 .. 1 : Secs(i) # {}
      <4>1. \A i \in m + 1 .. 1 : i = 1 /\ m = 0
        BY <1>11
      <4> QED
        BY <2>2, <4>1
    <3>3. Stop(1)
      BY <1>11, <3>1, <3>2
    <3>4. 1 \in 0 .. m + l
      BY <1>2, <1>10, <1>11, <2>2
    <3> QED
      BY <3>3, <3>4
  <2> QED
    BY <1>11, <2>1, <2>2
<1>13. n \in 0 .. m + l /\ Stop(n)
  <2> HIDE DEF Stop
  <2> QED
    BY <1>12
<1> HIDE DEF n
<1>14. n \in Nat /\ n <= 1 /\ n >= m /\ (n = 1 => m = 1 \/ Secs(1) # {}) /\ (n = 0 => Secs(1) = {})
  <2>1. /\ n \in Nat /\ n >= m /\ Secs(n + 1) = {} /\ \A i \in m + 1 .. n : Secs(i) # {}
    BY <1>2, <1>11, <1>13
  <2>2. n <= 1
    <3> SUFFICES ASSUME n >= 2 PROVE FALSE
      BY <2>1
    <3>1. 2 \in m + 1 .. n
      BY <1>11, <2>1
    <3>2. Secs(2) # {}
      BY <2>1, <3>1
    <3>3. Secs(2) = {}
      BY <1>7
    <3> QED
      BY <3>2, <3>3
  <2>3. n = 1 /\ m = 0 => Secs(1) # {}
    <3>1. n = 1 /\ m = 0 => 1 \in m + 1 .. n
      OBVIOUS
    <3> QED
      BY <2>1, <3>1
  <2> QED
    BY <1>11, <2>1, <2>2, <2>3
<1>15. \A k \in 1 .. n : (IF Secs(k) = {} THEN d.sec[k] ELSE q[last(Secs(k))].ents) \in PlainIndex(inst)
  <2> SUFFICES ASSUME NEW k \in 1 .. n
               PROVE  (IF Secs(k) = {} THEN d.sec[k] ELSE q[last(Secs(k))].ents) \in PlainIndex(inst)
    OBVIOUS
  <2>1. k = 1 /\ n = 1
    BY <1>14
  <2>2. CASE Secs(k) = {}
    <3>1. k \in 1 .. m
      BY <1>11, <1>14, <2>1, <2>2
    <3>2. d.sec[k] \in PlainIndex(inst)
      BY <1>11, <3>1
    <3> QED
      BY <2>2, <3>2
  <2>3. CASE Secs(k) # {}
    BY <1>8, <2>1, <2>3
  <2> QED
    BY <2>2, <2>3
<1>16. sec \in Seq(PlainIndex(inst)) /\ Len(sec) = n
  BY <1>14, <1>15
<1> HIDE DEF sec
<1>17. ASSUME a.lfi PROVE sec # <<>>
  <2>1. n = 1
    <3>1. CASE d.lfi
      BY <1>11, <1>14, <3>1 DEF PlainDisk
    <3>2. CASE Hdrs # {}
      BY <1>9, <1>14, <3>2
    <3> QED
      BY <1>1, <1>17, <3>1, <3>2
  <2> QED
    BY <1>16, <2>1
<1> QED
  BY <1>1, <1>6, <1>14, <1>16, <1>17 DEF PlainDisk, a

LEMMA BufferedKeeps ==
  ASSUME PlainDisk(disk, inst), pend \in Queues(inst), NEW ws \in Queues(inst), Buffered(ws)
  PROVE  PlainDisk(disk', inst) /\ pend' \in Queues(inst)
<1> DEFINE q == pend \o ws
           l == Len(q)
           F == {i \in DOMAIN q : q[i].op = "flush"}
           k == IF F = {} THEN 0 ELSE CHOOSE i \in F : \A j \in F : j <= i
<1>1. disk' = After(disk, SubSeq(q, 1, k)) /\ pend' = SubSeq(q, k + 1, l)
  BY DEF Buffered
<1>2. q \in Queues(inst)
  BY QueuesJoin
<1> HIDE DEF q
<1>3. l \in Nat /\ DOMAIN q = 1 .. l
  BY <1>2 DEF Queues
<1>4. k \in 0 .. l /\ (k = 0 \/ q[k].op = "flush")
  <2>1. CASE F = {}
    BY <1>3, <2>1
  <2>2. CASE F # {}
    <3>1. F \in SUBSET (0 .. l)
      BY <1>3
    <3> HIDE DEF l
    <3>2. \E x \in F : \A y \in F : y <= x
      <4> HIDE DEF F
      <4> QED
        BY <1>3, <2>2, <3>1, GreatestNumber
    <3>3. (CHOOSE i \in F : \A j \in F : j <= i) \in F
      BY <3>2
    <3>4. k \in F
      BY <2>2, <3>3
    <3> HIDE DEF k
    <3> QED
      BY <3>1, <3>4
  <2> QED
    BY <2>1, <2>2
<1> HIDE DEF k
<1>5. SubSeq(q, 1, k) \in Queues(inst) /\ SubSeq(q, k + 1, l) \in Queues(inst)
  BY <1>2, <1>4, QueueParts
<1> QED
  BY <1>1, <1>5, AfterKeeps

LEMMA DiesKeeps ==
  ASSUME PlainDisk(disk, inst), pend \in Queues(inst), NEW ws \in Queues(inst), Dies(ws)
  PROVE  PlainDisk(disk', inst)
<1> DEFINE q == pend \o ws
<1>1. q \in Queues(inst)
  BY QueuesJoin
<1>2. PICK k \in 0 .. Len(q) : disk' = After(disk, SubSeq(q, 1, k))
  BY DEF Dies
<1> HIDE DEF q
<1>3. SubSeq(q, 1, k) \in Queues(inst)
  BY <1>1, QueueParts
<1> QED
  BY <1>2, <1>3, AfterKeeps

-----------------------------------------------------------------------------
(* LFIOUV reads the index of a file of one section as it was written. *)

LEMMA FlattenOne ==
  ASSUME NEW S, NEW s \in Seq(S)
  PROVE  FlattenSeq(<<s>>) = s
<1> DEFINE seqs == <<s>>
           Step(g) == [i \in 1 .. 1 |-> IF i = 1 THEN seqs[i] ELSE g[i - 1] \o seqs[i]]
           flatten == CHOOSE g : g = Step(g)
<1>1. Len(seqs) = 1 /\ seqs[1] = s
  OBVIOUS
<1>2. FlattenSeq(seqs) = flatten[1]
  BY <1>1 DEF FlattenSeq
<1>3. \E g : g = Step(g)
  <2> DEFINE g == [i \in 1 .. 1 |-> s]
  <2>1. g = Step(g)
    BY <1>1
  <2> QED
    BY <2>1
<1>4. flatten = Step(flatten)
  <2> HIDE DEF Step
  <2> QED
    BY <1>3
<1> HIDE DEF flatten
<1>5. flatten[1] = s
  BY <1>1, <1>4
<1> QED
  BY <1>2, <1>5

LEMMA FlattenSingles ==
  ASSUME NEW S, NEW ents \in Seq(S), NEW seqs \in Seq(Seq(S)), Len(seqs) = Len(ents),
         \A i \in 1 .. Len(ents) : seqs[i] = <<ents[i]>>
  PROVE  FlattenSeq(seqs) = ents
<1> DEFINE n == Len(ents)
           Step(g) == [i \in 1 .. n |-> IF i = 1 THEN seqs[i] ELSE g[i - 1] \o seqs[i]]
           flatten == CHOOSE g : g = Step(g)
<1>1. n \in Nat /\ Len(seqs) = n /\ \A i \in 1 .. n : seqs[i] = <<ents[i]>>
  OBVIOUS
<1>2. CASE n = 0
  <2>1. seqs = <<>> /\ ents = <<>>
    BY <1>2
  <2>2. FlattenSeq(seqs) = seqs
    BY <1>1, <1>2 DEF FlattenSeq
  <2> QED
    BY <2>1, <2>2
<1>3. CASE n # 0
  <2>1. FlattenSeq(seqs) = flatten[n]
    BY <1>1, <1>3 DEF FlattenSeq
  <2> HIDE DEF n
  <2> DEFINE part == [i \in 1 .. n |-> SubSeq(ents, 1, i)]
  <2>2. ASSUME NEW i \in 1 .. n, i # 1 PROVE SubSeq(ents, 1, i) = SubSeq(ents, 1, i - 1) \o <<ents[i]>>
    <3>1. 1 \in 1 .. Len(ents) /\ i \in 1 .. Len(ents)
      BY <1>1, <1>3 DEF n
    <3> QED
      BY <3>1, SubSeqRecursiveSecond
  <2>3. SubSeq(ents, 1, 1) = <<ents[1]>>
    <3>1. 1 \in 1 .. Len(ents)
      BY <1>1, <1>3 DEF n
    <3>2. SubSeq(ents, 1, 1) = SubSeq(ents, 1, 1 - 1) \o <<ents[1]>>
      BY <3>1, SubSeqRecursiveSecond
    <3>3. SubSeq(ents, 1, 1 - 1) = <<>>
      BY SubSeqEmpty
    <3>4. <<ents[1]>> \in Seq(S)
      BY <3>1
    <3>5. <<>> \o <<ents[1]>> = <<ents[1]>>
      BY <3>4, ConcatEmptySeq
    <3> QED
      BY <3>2, <3>3, <3>5
  <2>4. part = Step(part)
    <3>1. ASSUME NEW i \in 1 .. n PROVE part[i] = (IF i = 1 THEN seqs[i] ELSE part[i - 1] \o seqs[i])
      <4>1. CASE i = 1
        BY <1>1, <2>3, <4>1
      <4>2. CASE i # 1
        <5>1. i - 1 \in 1 .. n
          BY <1>1, <4>2
        <5> QED
          BY <1>1, <2>2, <4>2, <5>1
      <4> QED
        BY <4>1, <4>2
    <3> QED
      BY <3>1
  <2>5. flatten = Step(flatten)
    <3> HIDE DEF Step, part
    <3> QED
      BY <2>4
  <2> HIDE DEF flatten, part
  <2>11. \A i \in 1 .. n : flatten[i] = IF i = 1 THEN seqs[i] ELSE flatten[i - 1] \o seqs[i]
    BY <2>5
  <2>12. \A i \in 1 .. n : part[i] = IF i = 1 THEN seqs[i] ELSE part[i - 1] \o seqs[i]
    BY <2>4
  <2> HIDE DEF Step
  <2> DEFINE T == {i \in Nat : i \in 1 .. n => flatten[i] = part[i]}
  <2>6. 0 \in T
    OBVIOUS
  <2>7. ASSUME NEW i \in Nat, i \in T PROVE i + 1 \in T
    <3> SUFFICES ASSUME i + 1 \in 1 .. n PROVE flatten[i + 1] = part[i + 1]
      OBVIOUS
    <3> DEFINE j == i + 1
    <3>1. /\ flatten[j] = (IF j = 1 THEN seqs[j] ELSE flatten[j - 1] \o seqs[j])
          /\ part[j] = (IF j = 1 THEN seqs[j] ELSE part[j - 1] \o seqs[j])
      BY <2>11, <2>12
    <3>2. j - 1 = i /\ (j = 1 <=> i = 0)
      OBVIOUS
    <3>5. flatten[j] = part[j] => flatten[i + 1] = part[i + 1]
      OBVIOUS
    <3> HIDE DEF j
    <3>3. CASE i = 0
      BY <3>1, <3>2, <3>3, <3>5
    <3>4. CASE i # 0
      <4>1. i \in 1 .. n
        BY <1>1, <3>4
      <4>2. flatten[i] = part[i]
        BY <2>7, <4>1
      <4> QED
        BY <3>1, <3>2, <3>4, <3>5, <4>2
    <3> QED
      BY <3>3, <3>4
  <2> HIDE DEF T
  <2>8. n \in T
    BY <1>1, <2>6, <2>7, SetInduction
  <2>9. flatten[n] = part[n]
    BY <1>1, <1>3, <2>8 DEF T
  <2>10. part[n] = ents
    <3>1. part[n] = SubSeq(ents, 1, n)
      BY <1>1, <1>3 DEF part
    <3> QED
      BY <3>1, SubSeqFull DEF n
  <2> QED
    BY <2>1, <2>9, <2>10
<1> QED
  BY <1>2, <1>3

\* The holes at the end of the index become free slots again.
Trimmed(ents, last) == [i \in DOMAIN ents |-> IF i > last THEN [ents[i] EXCEPT !.name = Fin] ELSE ents[i]]

LEMMA TrimmedIs ==
  ASSUME NamesAssumption, NEW ents \in PlainIndex(inst), NEW last \in Int
  PROVE  Trimmed(ents, last) \in PlainIndex(inst)
<1> DEFINE new == Trimmed(ents, last)
<1>1. /\ ents \in Seq(Entries) /\ InOrder(ents, inst.Page) /\ Len(ents) = inst.Section
      /\ \A j \in DOMAIN ents : ents[j].name # Sect
      /\ DOMAIN ents = 1 .. Len(ents) /\ Len(ents) \in Nat
  BY DEF PlainIndex
<1>2. Fin \notin Names /\ Fin # Sect
  BY NamesApart
<1>3. /\ DOMAIN new = DOMAIN ents
      /\ \A i \in DOMAIN ents : new[i] = IF i > last THEN [ents[i] EXCEPT !.name = Fin] ELSE ents[i]
  BY DEF Trimmed
<1>4. ASSUME NEW e \in Entries PROVE [e EXCEPT !.name = Fin] \in Entries /\ [e EXCEPT !.name = Fin].name = Fin
  BY DEF Entries, AllNames
<1>5. \A i \in DOMAIN ents : ents[i] \in Entries
  BY <1>1
<1> HIDE DEF new
<1>6. \A i \in DOMAIN ents : /\ new[i] \in Entries
                             /\ i > last => new[i].name = Fin
                             /\ ~(i > last) => new[i] = ents[i]
  BY <1>3, <1>4, <1>5
<1>7. new \in Seq(Entries) /\ Len(new) = Len(ents)
  <2>1. new = [i \in 1 .. Len(ents) |-> new[i]]
    BY <1>1, <1>3 DEF new, Trimmed
  <2> DEFINE n == Len(ents)
  <2>2. n \in Nat /\ \A i \in 1 .. n : new[i] \in Entries
    BY <1>1, <1>6
  <2>3. new = [i \in 1 .. n |-> new[i]]
    BY <2>1
  <2> HIDE DEF n
  <2>4. [i \in 1 .. n |-> new[i]] \in Seq(Entries) /\ Len([i \in 1 .. n |-> new[i]]) = n
    BY <2>2
  <2>5. new \in Seq(Entries) /\ Len(new) = n
    BY <2>3, <2>4
  <2> QED
    BY <2>5 DEF n
<1>8. InOrder(new, inst.Page)
  <2>1. ASSUME NEW i \in DOMAIN new, NEW j \in DOMAIN new, i < j, new[i].name = Fin PROVE new[j].name = Fin
    <3>1. i \in DOMAIN ents /\ j \in DOMAIN ents /\ i \in Int /\ j \in Int
      BY <1>1, <1>3
    <3>2. CASE j > last
      BY <1>6, <3>1, <3>2
    <3>3. CASE ~(j > last)
      <4>1. ~(i > last)
        BY <2>1, <3>1, <3>3
      <4>2. ents[i].name = Fin
        BY <1>6, <2>1, <3>1, <4>1
      <4>3. ents[j].name = Fin
        BY <1>1, <2>1, <3>1, <4>2 DEF InOrder
      <4> QED
        BY <1>6, <3>1, <3>3, <4>3
    <3> QED
      BY <3>2, <3>3
  <2>2. ASSUME NEW i \in DOMAIN new, new[i].name # Fin
        PROVE  i \in DOMAIN ents /\ new[i] = ents[i] /\ ~(i > last) /\ i \in Int
    BY <1>1, <1>3, <1>6, <2>2
  <2>3. ASSUME NEW i \in DOMAIN new, new[i].name # Fin PROVE new[i].pos >= 3 * inst.Page + 1
    BY <1>1, <2>2, <2>3 DEF InOrder
  <2>4. ASSUME NEW i \in DOMAIN new, NEW j \in DOMAIN new, i < j, new[j].name # Fin PROVE Before(new[i], new[j])
    <3>1. j \in DOMAIN ents /\ new[j] = ents[j] /\ ~(j > last) /\ j \in Int
      BY <2>2, <2>4
    <3>2. i \in DOMAIN ents /\ i \in Int
      BY <1>1, <1>3
    <3>3. ~(i > last)
      BY <2>4, <3>1, <3>2
    <3>4. new[i] = ents[i]
      BY <1>6, <3>2, <3>3
    <3>5. Before(ents[i], ents[j])
      BY <1>1, <2>4, <3>1, <3>2 DEF InOrder
    <3> QED
      BY <3>1, <3>4, <3>5
  <2>5. ASSUME NEW i \in DOMAIN new, NEW j \in DOMAIN new, new[i].name \in Names, new[i].name = new[j].name
        PROVE  i = j
    <3>1. new[i].name # Fin /\ new[j].name # Fin
      BY <1>2, <2>5
    <3>2. i \in DOMAIN ents /\ j \in DOMAIN ents /\ new[i] = ents[i] /\ new[j] = ents[j]
      BY <2>2, <3>1
    <3> QED
      BY <1>1, <2>5, <3>2 DEF InOrder
  <2> QED
    BY <2>1, <2>3, <2>4, <2>5 DEF InOrder
<1>9. \A j \in DOMAIN new : new[j].name # Sect
  BY <1>1, <1>2, <1>3, <1>6
<1>10. new \in PlainIndex(inst)
  BY <1>1, <1>7, <1>8, <1>9 DEF PlainIndex
<1> QED
  BY <1>10 DEF new

LEMMA ReadPlain ==
  ASSUME NamesAssumption, NEW d, PlainDisk(d, inst), d.sec # <<>>
  PROVE  ReadIndex(d) \in PlainIndex(inst)
<1> DEFINE ents == FlattenSeq(d.sec)
           secs == Len(d.hdr.ioffi)
           put(j) == Cardinality({k \in 1 .. secs : \E i \in 1 .. j : ents[i].pos >= SectionAt(d.hdr, k)})
           from(j) == [k \in 1 .. put(j) - put(j - 1) |-> Entry(Sect, SectionAt(d.hdr, put(j - 1) + k), 2 * Page)]
           one  == [j \in DOMAIN ents |-> Append(from(j), ents[j])]
           read == FlattenSeq(one)
           rest == [j \in 1 .. secs - put(Len(ents)) |-> Entry(Junk, 0, 0)]
           full == read \o rest
           kept == {i \in DOMAIN full : full[i].name # Trou}
           last == IF kept = {} THEN 0 ELSE CHOOSE i \in kept : \A j \in kept : j <= i
<1>1. ReadIndex(d) = Trimmed(full, last)
  BY DEF ReadIndex, Trimmed
<1> HIDE DEF last
<1>2. d.sec \in Seq(PlainIndex(inst)) /\ d.sec = <<d.sec[1]>> /\ d.sec[1] \in PlainIndex(inst)
  <2> DEFINE t  == d.sec
             S  == PlainIndex(inst)
             u  == <<t[1]>>
  <2>1. t \in Seq(S) /\ Len(t) <= 1 /\ t # <<>>
    BY DEF PlainDisk
  <2> HIDE DEF t, S
  <2>2. Len(t) = 1 /\ t[1] \in S
    <3>1. Len(t) \in Nat \ {0}
      BY <2>1, EmptySeq
    <3>2. Len(t) = 1
      <4> DEFINE n == Len(t)
      <4>1. n \in Nat \ {0} /\ n <= 1
        BY <2>1, <3>1
      <4> HIDE DEF n
      <4>2. n = 1
        BY <4>1
      <4> QED
        BY <4>2 DEF n
    <3> QED
      BY <2>1, <3>2
  <2>3. u \in Seq(S) /\ Len(u) = 1 /\ u[1] = t[1]
    BY <2>2
  <2> HIDE DEF u
  <2>4. \A i \in 1 .. Len(t) : t[i] = u[i]
    BY <2>2, <2>3
  <2>5. t = u
    BY <2>1, <2>2, <2>3, <2>4, SeqEqual
  <2> QED
    BY <2>1, <2>2, <2>5 DEF t, S, u
<1>3. ents = d.sec[1]
  <2> DEFINE e == d.sec[1]
  <2>1. e \in Seq(Entries) /\ d.sec = <<e>>
    BY <1>2 DEF PlainIndex
  <2> HIDE DEF e
  <2>2. FlattenSeq(<<e>>) = e
    BY <2>1, FlattenOne
  <2> QED
    BY <2>1, <2>2 DEF e
<1>4. ents \in PlainIndex(inst) /\ ents \in Seq(Entries) /\ DOMAIN ents = 1 .. Len(ents) /\ Len(ents) \in Nat
  <2>1. ents \in PlainIndex(inst)
    BY <1>2, <1>3
  <2> HIDE DEF ents
  <2> QED
    BY <2>1 DEF PlainIndex
<1> HIDE DEF ents
<1>5. secs = 0
  BY DEF PlainDisk, PlainHeaders
<1> HIDE DEF secs
<1>6. \A j : put(j) = 0
  <2> SUFFICES ASSUME NEW j PROVE put(j) = 0
    OBVIOUS
  <2>1. {k \in 1 .. secs : \E i \in 1 .. j : ents[i].pos >= SectionAt(d.hdr, k)} = {}
    BY <1>5
  <2> QED
    BY <2>1, FS_EmptySet
<1> HIDE DEF put
<1>7. ASSUME NEW j PROVE from(j) = <<>>
  <2>1. put(j) - put(j - 1) = 0
    BY <1>6
  <2> DEFINE m == put(j) - put(j - 1)
             E(k) == Entry(Sect, SectionAt(d.hdr, put(j - 1) + k), 2 * Page)
  <2>2. from(j) = [k \in 1 .. m |-> E(k)] /\ m = 0
    BY <2>1
  <2> HIDE DEF from, m, E
  <2> QED
    BY <2>2
<1> HIDE DEF from
<1>8. one \in Seq(Seq(Entries)) /\ Len(one) = Len(ents) /\ \A i \in 1 .. Len(ents) : one[i] = <<ents[i]>>
  <2>1. \A i \in 1 .. Len(ents) : ents[i] \in Entries
    BY <1>4
  <2>2. ASSUME NEW i \in 1 .. Len(ents) PROVE Append(from(i), ents[i]) = <<ents[i]>>
    <3> DEFINE e == ents[i]
               a == Append(<<>>, e)
    <3>1. e \in Entries /\ from(i) = <<>>
      BY <1>7, <2>1
    <3> HIDE DEF e
    <3>2. a \in Seq(Entries) /\ Len(a) = 1 /\ a[1] = e
      <4>1. <<>> \in Seq(Entries) /\ Len(<<>>) = 0
        OBVIOUS
      <4>2. /\ a \in Seq(Entries) /\ Len(a) = Len(<<>>) + 1 /\ a[Len(<<>>) + 1] = e
        BY <3>1, <4>1, AppendProperties
      <4> QED
        BY <4>1, <4>2
    <3>3. <<e>> \in Seq(Entries) /\ Len(<<e>>) = 1 /\ <<e>>[1] = e
      BY <3>1
    <3> DEFINE b == <<e>>
    <3> HIDE DEF a, b
    <3>4. a = b
      <4>1. \A k \in 1 .. Len(a) : a[k] = b[k]
        BY <3>2, <3>3 DEF b
      <4>2. b \in Seq(Entries) /\ Len(a) = Len(b)
        BY <3>2, <3>3 DEF b
      <4> QED
        BY <3>2, <4>1, <4>2, SeqEqual
    <3> QED
      BY <3>1, <3>4 DEF a, b, e
  <2>3. one = [i \in 1 .. Len(ents) |-> <<ents[i]>>]
    BY <1>4, <2>2
  <2>4. \A i \in 1 .. Len(ents) : <<ents[i]>> \in Seq(Entries)
    BY <2>1
  <2> HIDE DEF one
  <2> QED
    BY <1>4, <2>3, <2>4
<1> HIDE DEF one
<1>9. read = ents
  BY <1>4, <1>8, FlattenSingles
<1> HIDE DEF read
<1>10. rest = <<>>
  <2> DEFINE m == secs - put(Len(ents))
  <2>1. m = 0 /\ rest = [j \in 1 .. m |-> Entry(Junk, 0, 0)]
    BY <1>5, <1>6
  <2> HIDE DEF m, rest
  <2> QED
    BY <2>1
<1> HIDE DEF rest
<1>11. full = ents
  BY <1>4, <1>9, <1>10, ConcatEmptySeq
<1> HIDE DEF full
<1>12. last \in Int
  <2> DEFINE n == Len(ents)
  <2>1. kept \in SUBSET (0 .. n) /\ n \in Nat
    BY <1>4, <1>11
  <2> HIDE DEF kept, n
  <2>2. CASE kept = {}
    BY <2>2 DEF last
  <2>3. CASE kept # {}
    <3>1. \E x \in kept : \A y \in kept : y <= x
      BY <2>1, <2>3, GreatestNumber
    <3>2. (CHOOSE i \in kept : \A j \in kept : j <= i) \in kept
      BY <3>1
    <3>3. last \in kept
      BY <2>3, <3>2 DEF last
    <3> QED
      BY <2>1, <3>3
  <2> QED
    BY <2>2, <2>3
<1> QED
  BY <1>1, <1>4, <1>11, <1>12, TrimmedIs

LEMMA OpenOldLeaves ==
  ASSUME SizesAssumption, NamesAssumption, inst \in Instances, Extra = 0, NEW d, PlainDisk(d, inst), d.lfi
  PROVE  Leaves(OpenOld(d))
<1> DEFINE idx == ReadIndex(d)
           f   == [open |-> TRUE, idx |-> idx, hdr |-> d.hdr, iart |-> 0, modified |-> FALSE]
           krep == IF d.hdr.ifeam # 0 THEN -11 ELSE 0
<1>1. OpenOld(d) = Result(f, <<>>, krep)
  BY DEF OpenOld
<1>2. idx \in PlainIndex(inst)
  BY ReadPlain DEF PlainDisk
<1> HIDE DEF idx
<1>3. d.hdr \in PlainHeaders
  BY DEF PlainDisk
<1>4. /\ idx \in Seq(Entries) /\ InOrder(idx, inst.Page) /\ Len(idx) = Section /\ Section \in Nat \ {0}
      /\ d.hdr \in Headers /\ d.hdr.inaph >= 3 /\ d.hdr.ioffi = <<>>
  BY <1>2, <1>3, Sizes DEF PlainIndex, PlainHeaders, Section
<1>5. idx # <<>>
  BY <1>4
<1>6. f \in Files /\ f.idx = idx /\ f.hdr = d.hdr
  <2> DEFINE hdr == d.hdr
             none == 0
             file == [open |-> TRUE, idx |-> idx, hdr |-> hdr, iart |-> none, modified |-> FALSE]
  <2>1. hdr \in Headers /\ none \in Int /\ idx \in Seq(Entries) /\ f = file
    BY <1>4
  <2> HIDE DEF hdr, none, f
  <2>2. file \in Files /\ file.idx = idx /\ file.hdr = hdr
    BY <2>1, Zenon DEF Files
  <2> HIDE DEF file
  <2> QED
    BY <2>1, <2>2 DEF hdr
<1> HIDE DEF f
<1>7. SectionsOK(idx, <<>>, inst.Page)
  BY DEF SectionsOK
<1>8. Usable(f, inst)
  BY <1>2, <1>3, <1>4, <1>5, <1>6, <1>7 DEF Usable
<1>9. OpenOld(d).f = f /\ OpenOld(d).ws = <<>>
  <2> HIDE DEF krep
  <2> QED
    BY <1>1, ResultIs
<1> QED
  BY <1>8, <1>9, NothingWritten DEF Leaves

-----------------------------------------------------------------------------
(* The calls keep the invariant. *)

\* What a call leaves in memory and on the disk.
Keeps ==
  /\ fh' = Closed \/ Usable(fh', inst)
  /\ Extra = 0 => PlainDisk(disk', inst) /\ pend' \in Queues(inst)

LEMMA OpenIsUsable ==
  ASSUME FileInv, fh.open
  PROVE  Usable(fh, inst) /\ fh \in Files /\ opens # 0
<1>1. fh # Closed
  BY DEF Closed
<1> QED
  BY <1>1 DEF FileInv, Usable

LEMMA DiesLeaves ==
  ASSUME FileInv, NEW ws, Extra = 0 => ws \in Queues(inst), Dies(ws)
  PROVE  Keeps
<1>1. fh' = Closed /\ pend' = <<>>
  BY DEF Dies
<1>2. ASSUME Extra = 0 PROVE PlainDisk(disk', inst)
  BY <1>2, DiesKeeps DEF FileInv
<1> QED
  BY <1>1, <1>2, NothingWritten DEF Keeps

LEMMA RunsLeaves ==
  ASSUME FileInv, NEW call, NEW r, Leaves(r), Runs(call, r)
  PROVE  Keeps
<1>1. Extra = 0 => r.ws \in Queues(inst)
  BY DEF Leaves
<1>2. CASE Dies(r.ws)
  BY <1>1, <1>2, DiesLeaves
<1>3. CASE Completes(call, r)
  <2>1. fh' = r.f /\ Buffered(r.ws)
    BY <1>3 DEF Completes
  <2>2. fh' = Closed \/ Usable(fh', inst)
    BY <2>1 DEF Leaves
  <2>3. ASSUME Extra = 0 PROVE PlainDisk(disk', inst) /\ pend' \in Queues(inst)
    BY <1>1, <2>1, <2>3, BufferedKeeps DEF FileInv
  <2> QED
    BY <2>2, <2>3 DEF Keeps
<1> QED
  BY <1>2, <1>3 DEF Runs

LEMMA UnchangedLeaves ==
  ASSUME FileInv, UNCHANGED <<fh, disk, pend>>
  PROVE  Keeps
BY DEF FileInv, Keeps

LEMMA ReadsLeaves ==
  ASSUME FileInv, fh.open, NEW call, NEW krep, NEW name, NEW len, NEW at \in Int,
         Reads(call, krep, name, len, at)
  PROVE  Keeps /\ UNCHANGED <<writes, opens>>
<1>1. fh' = [fh EXCEPT !.iart = at] /\ UNCHANGED <<disk, pend, writes, opens>>
  BY DEF Reads
<1>2. Usable([fh EXCEPT !.iart = at], inst)
  BY OpenIsUsable, CurrentUsable
<1> QED
  BY <1>1, <1>2 DEF FileInv, Keeps

LEMMA SeekNextIs ==
  ASSUME NEW f \in Files
  PROVE  SeekNext(f) \in Int
<1> DEFINE from == f.iart + 1
           stop == {i \in from .. Nart(f) : f.idx[i].name \notin Skipped}
           least == CHOOSE j \in stop : \A k \in stop : j <= k
<1>1. SeekNext(f) = IF stop = {} THEN 0 ELSE IF f.idx[least].name = Fin THEN 0 ELSE least
  BY DEF SeekNext
<1>2. from \in Int /\ Nart(f) \in Int
  BY FileIs DEF Nart
<1>3. stop \subseteq from .. Nart(f)
  OBVIOUS
<1> HIDE DEF stop, from
<1>4. ASSUME stop # {} PROVE least \in stop
  <2> DEFINE T == {m \in Nat : from + m \in stop}
  <2>1. \A j \in stop : j - from \in T /\ from + (j - from) = j
    BY <1>2, <1>3
  <2>2. \A m \in T : m \in Nat /\ from + m \in stop
    OBVIOUS
  <2>3. T \in SUBSET Nat /\ T # {}
    BY <1>4, <2>1
  <2> HIDE DEF T
  <2>4. PICK m \in T : \A k \in T : m <= k
    BY <2>3, LeastNumber
  <2>5. ASSUME NEW k \in stop PROVE from + m <= k
    <3>1. m <= k - from /\ k \in Int /\ m \in Int
      BY <1>2, <1>3, <2>1, <2>2, <2>4
    <3> QED
      BY <1>2, <3>1
  <2> QED
    BY <2>2, <2>5
<1> HIDE DEF least
<1>5. ASSUME stop # {} PROVE least \in Int
  <2>1. least \in from .. Nart(f)
    BY <1>3, <1>4, <1>5
  <2> QED
    BY <1>2, <2>1
<1> QED
  BY <1>1, <1>5

LEMMA SeekPrevIs ==
  ASSUME NEW f \in Files
  PROVE  SeekPrev(f) \in Int
<1> DEFINE to   == (IF f.iart = 0 THEN Nart(f) + 1 ELSE f.iart) - 1
           stop == {i \in 1 .. to : f.idx[i].name \notin Skipped}
           last == CHOOSE i \in stop : \A j \in stop : j <= i
<1>1. SeekPrev(f) = IF stop = {} THEN 0 ELSE last
  BY DEF SeekPrev
<1>2. to \in Int
  BY FileIs DEF Nart
<1>3. stop \subseteq 1 .. to
  OBVIOUS
<1> HIDE DEF stop, to
<1>4. ASSUME stop # {} PROVE last \in stop
  <2>1. to \in Nat /\ stop \in SUBSET (0 .. to)
    <3>1. PICK i \in stop : TRUE
      BY <1>4
    <3>2. i \in 1 .. to
      BY <1>3, <3>1
    <3>3. to \in Nat /\ 1 .. to \subseteq 0 .. to
      BY <1>2, <3>2
    <3> QED
      BY <1>3, <3>3
  <2>2. \E x \in stop : \A y \in stop : y <= x
    BY <1>4, <2>1, GreatestNumber
  <2> QED
    BY <2>2
<1> HIDE DEF last
<1>5. ASSUME stop # {} PROVE last \in Int
  <2>1. last \in 1 .. to
    BY <1>3, <1>4, <1>5
  <2> QED
    BY <1>2, <2>1
<1> QED
  BY <1>1, <1>5

LEMMA ReadAtLeaves ==
  ASSUME FileInv, NEW call, NEW i \in Int, NEW none, NEW len, NEW short, ReadAt(call, i, none, len, short)
  PROVE  Keeps /\ UNCHANGED <<writes, opens>>
<1> DEFINE e == fh.idx[i]
           Absent  == Reads(call, none, "", 0, fh.iart)
           Aborts  == Dies(<<>>) /\ UNCHANGED <<writes, opens>>
           NoRoom  == Reads(call, -21, "", len, fh.iart)
           NoName  == Reads(call, -24, e.name, e.len, fh.iart)
           Copies  == Reads(call, 0, e.name, e.len, i)
           isShort == len < e.len
           fits    == len >= e.len
           nowhere == e.pos = 0
           placed  == e.pos > 0
<1>1. /\ fh.open
      /\ CASE i = 0 -> Absent
           [] i > 0 /\ nowhere -> Aborts
           [] i > 0 /\ placed /\ isShort -> NoRoom
           [] i > 0 /\ placed /\ fits /\ short -> NoName
           [] OTHER -> Copies
  BY DEF ReadAt
<1>2. fh.iart \in Int
  BY <1>1, OpenIsUsable, FileIs
<1>3. Absent \/ NoRoom \/ NoName \/ Copies => Keeps /\ UNCHANGED <<writes, opens>>
  <2> USE <1>1, <1>2
  <2>1. CASE Absent
    BY <2>1, ReadsLeaves
  <2>2. CASE NoRoom
    BY <2>2, ReadsLeaves
  <2>3. CASE NoName
    BY <2>3, ReadsLeaves
  <2>4. CASE Copies
    BY <2>4, ReadsLeaves
  <2> QED
    BY <2>1, <2>2, <2>3, <2>4
<1>4. Aborts => Keeps /\ UNCHANGED <<writes, opens>>
  BY NothingWritten, DiesLeaves
<1> HIDE DEF Absent, Aborts, NoRoom, NoName, Copies, isShort, fits, nowhere, placed, e
<1>5. Absent \/ Aborts \/ NoRoom \/ NoName \/ Copies
  BY <1>1
<1> QED
  BY <1>3, <1>4, <1>5

LEMMA DescribeLeaves ==
  ASSUME FileInv, NEW call, NEW i \in Int, NEW name, NEW move, NEW short, Describe(call, i, name, move, short)
  PROVE  Keeps /\ UNCHANGED <<writes, opens>>
<1> DEFINE len == fh.idx[i].len
           at  == IF move THEN i ELSE fh.iart
           Absent == Reads(call, 0, "", 0, fh.iart)
           NoName == Reads(call, -24, name, len, fh.iart)
           Copies == Reads(call, 0, name, len, at)
<1>1. fh.open /\ CASE i = 0 -> Absent [] i > 0 /\ short -> NoName [] OTHER -> Copies
  BY DEF Describe
<1>2. fh.iart \in Int
  BY <1>1, OpenIsUsable, FileIs
<1>3. at \in Int
  BY <1>2
<1>4. Absent \/ NoName \/ Copies => Keeps /\ UNCHANGED <<writes, opens>>
  <2> HIDE DEF at, len
  <2> USE <1>1, <1>2, <1>3
  <2>1. CASE Absent
    BY <2>1, ReadsLeaves
  <2>2. CASE NoName
    BY <2>2, ReadsLeaves
  <2>3. CASE Copies
    BY <2>3, ReadsLeaves
  <2> QED
    BY <2>1, <2>2, <2>3
<1> HIDE DEF Absent, NoName, Copies, at, len
<1>5. Absent \/ NoName \/ Copies
  BY <1>1
<1> QED
  BY <1>4, <1>5

LEMMA InfoLeaves ==
  ASSUME FileInv, NEW n, LFINFO(n)
  PROVE  Keeps /\ UNCHANGED <<writes, opens>>
<1> DEFINE i   == Lookup(fh, n)
           len == fh.idx[i].len
           Absent == Reads("LFINFO", 0, "", 0, fh.iart)
           Found  == Reads("LFINFO", 0, "", len, i)
<1>1. fh.open /\ IF i = 0 THEN Absent ELSE Found
  BY DEF LFINFO
<1>2. fh \in Files
  BY <1>1, OpenIsUsable
<1>3. fh.iart \in Int /\ fh.idx \in Seq(Entries)
  BY <1>2, FileIs
<1>4. i \in 0 .. Len(fh.idx)
  BY <1>2, LookupIs
<1> HIDE DEF i, len
<1>5. i \in Int
  BY <1>3, <1>4
<1> QED
  <2>1. CASE Absent
    BY <1>1, <1>3, <2>1, ReadsLeaves
  <2>2. CASE Found
    BY <1>1, <1>5, <2>2, ReadsLeaves
  <2> HIDE DEF Absent, Found
  <2> QED
    BY <1>1, <2>1, <2>2

LEMMA ReadLeaves ==
  ASSUME FileInv, NEW n, NEW len, LFILEC(n, len)
  PROVE  Keeps /\ UNCHANGED <<writes, opens>>
<1> DEFINE i    == Lookup(fh, n)
           size == fh.idx[i].len
           Wrong  == Reads("LFILEC", -14, "", 0, fh.iart)
           Absent == Reads("LFILEC", -20, "", 0, fh.iart)
           NoRoom == Reads("LFILEC", -21, "", len, fh.iart)
           Copies == Reads("LFILEC", 0, "", size, i)
           isShort == len < size
<1>1. /\ fh.open
      /\ CASE len < 0 -> Wrong
           [] len >= 0 /\ i = 0 -> Absent
           [] len >= 0 /\ i > 0 /\ isShort -> NoRoom
           [] OTHER -> Copies
  BY DEF LFILEC
<1>2. fh \in Files
  BY <1>1, OpenIsUsable
<1>3. fh.iart \in Int /\ fh.idx \in Seq(Entries)
  BY <1>2, FileIs
<1>4. i \in 0 .. Len(fh.idx)
  BY <1>2, LookupIs
<1> HIDE DEF i, size
<1>5. i \in Int
  BY <1>3, <1>4
<1>6. Wrong \/ Absent \/ NoRoom \/ Copies => Keeps /\ UNCHANGED <<writes, opens>>
  <2> USE <1>1, <1>3, <1>5
  <2>1. CASE Wrong
    BY <2>1, ReadsLeaves
  <2>2. CASE Absent
    BY <2>2, ReadsLeaves
  <2>3. CASE NoRoom
    BY <2>3, ReadsLeaves
  <2>4. CASE Copies
    BY <2>4, ReadsLeaves
  <2> QED
    BY <2>1, <2>2, <2>3, <2>4
<1> HIDE DEF Wrong, Absent, NoRoom, Copies, isShort
<1>7. Wrong \/ Absent \/ NoRoom \/ Copies
  BY <1>1
<1> QED
  BY <1>6, <1>7

\* The sessions that are proved about: the callers of the library give the
\* names of articles, or the one that finds a hole; and the file either keeps
\* one index section or is opened once, for lfiouv_alts_ext does not fill the
\* slots it keeps for the placeholders of extra sections that come last.
CallersAssumption ==
  \A i \in Instances : i.CallNames \subseteq Names \cup {Trou} /\ (i.Extra = 0 \/ i.MaxOpens = 1)

LEMMA OpenLeaves ==
  ASSUME SizesAssumption, NamesAssumption, CallersAssumption, FileInv, NEW st, LFIOUV(st)
  PROVE  Keeps /\ opens' \in Nat /\ opens' # 0 /\ UNCHANGED writes
<1>1. ~fh.open /\ opens < MaxOpens /\ opens' = opens + 1 /\ UNCHANGED writes
  BY DEF LFIOUV
<1>2. inst \in Instances /\ opens \in Nat
  BY DEF FileInv
<1>3. opens' \in Nat /\ opens' # 0
  BY <1>1, <1>2
<1>4. Keeps
  <2>1. CASE UNCHANGED <<fh, disk, pend>>
    BY <2>1, UnchangedLeaves
  <2>2. CASE disk.exists /\ disk.lfi /\ Runs("LFIOUV", OpenOld(disk))
    <3>1. opens # 0
      BY <2>2 DEF FileInv, NoFile
    <3>2. MaxOpens # 1
      <4>1. MaxOpens \in Nat
        BY <1>2, Sizes
      <4> QED
        BY <1>1, <1>2, <3>1, <4>1
    <3>3. Extra = 0
      BY <1>2, <3>2 DEF CallersAssumption, Extra, MaxOpens
    <3>4. PlainDisk(disk, inst)
      BY <3>3 DEF FileInv
    <3>5. Leaves(OpenOld(disk))
      BY <1>2, <2>2, <3>3, <3>4, OpenOldLeaves
    <3> QED
      BY <2>2, <3>5, RunsLeaves
  <2>3. CASE Runs("LFIOUV", OpenNew)
    <3>1. Leaves(OpenNew)
      BY <1>2, OpenNewLeaves
    <3> QED
      BY <2>3, <3>1, RunsLeaves
  <2> QED
    BY <2>1, <2>2, <2>3 DEF LFIOUV
<1> QED
  BY <1>1, <1>3, <1>4

LEMMA CallLeaves ==
  ASSUME SizesAssumption, NamesAssumption, CallersAssumption, FileInv, Calls
  PROVE  Keeps /\ opens' \in Nat /\ opens' # 0 /\ writes' \in Nat
<1>1. inst \in Instances /\ opens \in Nat /\ writes \in Nat
  BY DEF FileInv
<1>2. CallNames \subseteq Names \cup {Trou} /\ Lens \subseteq Int
  BY <1>1, Sizes DEF CallersAssumption, CallNames
<1>3. CASE \E st \in {"NEW", "OLD", "UNKNOWN"} : LFIOUV(st)
  BY <1>1, <1>3, OpenLeaves
<1>4. ASSUME fh.open, Keeps, UNCHANGED <<writes, opens>>
      PROVE  Keeps /\ opens' \in Nat /\ opens' # 0 /\ writes' \in Nat
  BY <1>1, <1>4, OpenIsUsable
<1>5. ASSUME NEW n \in CallNames, NEW len \in Lens, LFIECR(n, len)
      PROVE  Keeps /\ opens' \in Nat /\ opens' # 0 /\ writes' \in Nat
  <2>1. /\ fh.open /\ writes' = writes + 1 /\ UNCHANGED opens
        /\ Runs("LFIECR", Write(fh, n, len, writes + 1))
    BY <1>5 DEF LFIECR
  <2>2. n \in Names \cup {Trou} /\ len \in Int /\ writes + 1 \in Int
    BY <1>1, <1>2
  <2>3. Leaves(Write(fh, n, len, writes + 1))
    BY <1>1, <2>1, <2>2, OpenIsUsable, WriteLeaves
  <2>4. Keeps
    BY <2>1, <2>3, RunsLeaves
  <2> QED
    BY <1>1, <2>1, <2>4, OpenIsUsable
<1>6. ASSUME NEW n \in CallNames, LFISUP(n)
      PROVE  Keeps /\ opens' \in Nat /\ opens' # 0 /\ writes' \in Nat
  <2>1. fh.open /\ Runs("LFISUP", Suppress(fh, n)) /\ UNCHANGED <<writes, opens>>
    BY <1>6 DEF LFISUP
  <2>2. n \in Names \cup {Trou}
    BY <1>2
  <2>3. Leaves(Suppress(fh, n))
    BY <1>1, <2>1, <2>2, OpenIsUsable, SuppressLeaves
  <2> QED
    BY <1>4, <2>1, <2>3, RunsLeaves
<1>7. ASSUME NEW m \in CallNames, NEW n \in CallNames, LFIREN(m, n)
      PROVE  Keeps /\ opens' \in Nat /\ opens' # 0 /\ writes' \in Nat
  <2>1. fh.open /\ Runs("LFIREN", Rename(fh, m, n)) /\ UNCHANGED <<writes, opens>>
    BY <1>7 DEF LFIREN
  <2>2. m \in Names \cup {Trou}
    BY <1>2
  <2>3. Leaves(Rename(fh, m, n))
    BY <1>1, <2>1, <2>2, OpenIsUsable, RenameLeaves
  <2> QED
    BY <1>4, <2>1, <2>3, RunsLeaves
<1>8. ASSUME LFIFER
      PROVE  Keeps /\ opens' \in Nat /\ opens' # 0 /\ writes' \in Nat
  <2>1. fh.open /\ Runs("LFIFER", Close(fh)) /\ UNCHANGED <<writes, opens>>
    BY <1>8 DEF LFIFER
  <2>2. Leaves(Close(fh))
    BY <1>1, <2>1, OpenIsUsable, CloseLeaves
  <2> QED
    BY <1>4, <2>1, <2>2, RunsLeaves
<1>9. ASSUME Crash
      PROVE  Keeps /\ opens' \in Nat /\ opens' # 0 /\ writes' \in Nat
  <2>1. fh.open /\ Dies(<<>>) /\ UNCHANGED <<writes, opens>>
    BY <1>9 DEF Crash
  <2>2. Keeps
    BY <2>1, NothingWritten, DiesLeaves
  <2> QED
    BY <1>4, <2>1, <2>2
<1>10. ASSUME LFIPOS
       PROVE  Keeps /\ opens' \in Nat /\ opens' # 0 /\ writes' \in Nat
  <2>1. fh.open /\ Reads("LFIPOS", 0, "", 0, 0)
    BY <1>10 DEF LFIPOS
  <2>2. 0 \in Int
    OBVIOUS
  <2>3. Keeps /\ UNCHANGED <<writes, opens>>
    BY <2>1, <2>2, ReadsLeaves, Zenon
  <2> QED
    BY <1>4, <2>1, <2>3
<1>11. ASSUME NEW n \in CallNames, LFINFO(n)
       PROVE  Keeps /\ opens' \in Nat /\ opens' # 0 /\ writes' \in Nat
  <2>1. fh.open
    BY <1>11 DEF LFINFO
  <2> QED
    BY <1>4, <1>11, <2>1, InfoLeaves
<1>12. ASSUME NEW n \in CallNames, NEW len \in Lens, LFILEC(n, len)
       PROVE  Keeps /\ opens' \in Nat /\ opens' # 0 /\ writes' \in Nat
  <2>1. fh.open
    BY <1>12 DEF LFILEC
  <2> QED
    BY <1>4, <1>12, <2>1, ReadLeaves
<1>13. fh.open => SeekNext(fh) \in Int /\ SeekPrev(fh) \in Int
  BY OpenIsUsable, SeekNextIs, SeekPrevIs
<1>14. ASSUME NEW len \in Lens, NEW short \in BOOLEAN, LFILAS(len, short) \/ LFILAP(len, short)
       PROVE  Keeps /\ opens' \in Nat /\ opens' # 0 /\ writes' \in Nat
  <2>1. \/ ReadAt("LFILAS", SeekNext(fh), -23, len, short)
        \/ ReadAt("LFILAP", SeekPrev(fh), -26, len, short)
    BY <1>14 DEF LFILAS, LFILAP
  <2>2. fh.open
    BY <2>1 DEF ReadAt
  <2>3. Keeps /\ UNCHANGED <<writes, opens>>
    BY <1>13, <2>1, <2>2, ReadAtLeaves
  <2> QED
    BY <1>4, <2>2, <2>3
<1>15. ASSUME NEW move \in BOOLEAN, NEW short \in BOOLEAN, LFICAS(move, short) \/ LFICAP(move, short)
       PROVE  Keeps /\ opens' \in Nat /\ opens' # 0 /\ writes' \in Nat
  <2> DEFINE i == SeekNext(fh)
             name == IF i = 0 THEN "" ELSE fh.idx[i].name
  <2>1. Describe("LFICAS", i, name, move, short) \/ Describe("LFICAP", SeekPrev(fh), "", move, short)
    BY <1>15 DEF LFICAS, LFICAP
  <2>2. fh.open
    BY <2>1 DEF Describe
  <2>3. i \in Int /\ SeekPrev(fh) \in Int
    BY <1>13, <2>2
  <2> HIDE DEF i, name
  <2>4. Keeps /\ UNCHANGED <<writes, opens>>
    BY <2>1, <2>3, DescribeLeaves, Zenon
  <2> QED
    BY <1>4, <2>2, <2>4
<1> QED
  BY <1>3, <1>5, <1>6, <1>7, <1>8, <1>9, <1>10, <1>11, <1>12, <1>14, <1>15 DEF Calls

LEMMA NextKeeps ==
  ASSUME SizesAssumption, NamesAssumption, CallersAssumption, FileInv, [Next]_vars
  PROVE  FileInv'
<1>1. CASE Next
  <2>1. Keeps /\ opens' \in Nat /\ opens' # 0 /\ writes' \in Nat /\ inst' = inst
    BY <1>1, CallLeaves DEF Next
  <2>2. Extra' = Extra
    BY <2>1 DEF Extra
  <2> QED
    BY <2>1, <2>2 DEF FileInv, Keeps
<1>2. CASE UNCHANGED vars
  BY <1>2 DEF FileInv, vars, Extra
<1> QED
  BY <1>1, <1>2

LEMMA InitHolds ==
  ASSUME SizesAssumption, Init
  PROVE  FileInv
<1>1. fh = Closed /\ disk = NoFile /\ pend = <<>> /\ writes = 0 /\ opens = 0 /\ inst \in Instances
  BY DEF Init
<1>2. NewHdr \in PlainHeaders
  BY DEF NewHdr, PlainHeaders, Headers
<1>3. PlainDisk(NoFile, inst)
  <2>1. NoFile.sec = <<>> /\ NoFile.hdr = NewHdr /\ NoFile.lfi = FALSE
    BY DEF NoFile
  <2>2. <<>> \in Seq(PlainIndex(inst)) /\ Len(<<>>) = 0
    OBVIOUS
  <2> QED
    BY <1>2, <2>1, <2>2 DEF PlainDisk
<1> QED
  BY <1>1, <1>3, NothingWritten DEF FileInv

\* No article, hole or index section of the file ever shares a word with
\* another or with the header, and no two articles have one name: for every
\* size of the sections and pages, every list of lengths and every order of
\* the calls of lfi_alts.c, deaths of the process included.
THEOREM DisjointHolds ==
  ASSUME SizesAssumption, NamesAssumption, CallersAssumption
  PROVE  Spec => []Disjoint
<1>1. Init => FileInv
  BY InitHolds
<1>2. FileInv /\ [Next]_vars => FileInv'
  BY NextKeeps
<1>3. FileInv => Disjoint
  <2>1. CASE ~fh.open
    BY <2>1 DEF Disjoint
  <2>2. CASE FileInv /\ fh.open
    BY <2>2, OpenIsUsable, OrderedApart DEF FileInv
  <2> QED
    BY <2>1, <2>2
<1> QED
  BY <1>1, <1>2, <1>3, PTL DEF Spec

-----------------------------------------------------------------------------
(* The "not closed" flag: only a death leaves a damaged file. *)

IsSequence(s) == s \in Seq(Range(s))

IsHeader(h) ==
  /\ h \in [inaph : {h.inaph}, inalo : {h.inalo}, intru : {h.intru}, iltal : {h.iltal},
            ifeam : {h.ifeam}, ioffi : {h.ioffi}]
  /\ IsSequence(h.ioffi)
IsFile(f) ==
  /\ f \in [open : {TRUE}, idx : {f.idx}, hdr : {f.hdr}, iart : {f.iart}, modified : BOOLEAN]
  /\ IsHeader(f.hdr)

\* Writes that were or will be put in the file.
IsQueue(q) == IsSequence(q) /\ \A i \in DOMAIN q : q[i].op = "hdr" => IsHeader(q[i].hdr)

\* An open file that was not modified is the one on the disk, with nothing to
\* be written; neither is there for a closed one.
FlagInv ==
  /\ crashes \in Nat
  /\ IsQueue(pend) /\ IsHeader(disk.hdr)
  /\ fh = Closed \/ IsFile(fh)
  /\ ~fh.open => pend = <<>>
  /\ fh.open /\ ~fh.modified => pend = <<>> /\ disk.lfi /\ disk.hdr.ifeam = fh.hdr.ifeam

LEMMA SequenceFrom ==
  ASSUME NEW S, NEW s \in Seq(S)
  PROVE  IsSequence(s)
<1>1. \A i \in 1 .. Len(s) : s[i] \in Range(s)
  BY DEF Range
<1> QED
  BY <1>1 DEF IsSequence

LEMMA SequenceJoin ==
  ASSUME NEW s, NEW t, IsSequence(s), IsSequence(t)
  PROVE  IsSequence(s \o t)
<1> DEFINE S == Range(s) \cup Range(t)
<1>1. s \in Seq(S) /\ t \in Seq(S)
  <2>1. \A i \in DOMAIN s : s[i] \in S
    BY DEF Range
  <2>2. \A i \in DOMAIN t : t[i] \in S
    BY DEF Range
  <2>3. s \in Seq(Range(s)) /\ t \in Seq(Range(t))
    BY DEF IsSequence
  <2> HIDE DEF S
  <2> QED
    BY <2>1, <2>2, <2>3
<1> HIDE DEF S
<1>2. s \o t \in Seq(S)
  BY <1>1
<1> QED
  BY <1>2, SequenceFrom

LEMMA QueueJoin ==
  ASSUME NEW p, NEW q, IsQueue(p), IsQueue(q)
  PROVE  IsQueue(p \o q)
<1>1. IsSequence(p \o q)
  BY SequenceJoin DEF IsQueue
<1>2. p \in Seq(Range(p)) /\ q \in Seq(Range(q))
  BY DEF IsQueue, IsSequence
<1>3. /\ DOMAIN (p \o q) = 1 .. Len(p) + Len(q)
      /\ \A i \in 1 .. Len(p) : i \in DOMAIN p /\ (p \o q)[i] = p[i]
      /\ \A i \in Len(p) + 1 .. Len(p) + Len(q) : i - Len(p) \in DOMAIN q /\ (p \o q)[i] = q[i - Len(p)]
  BY <1>2
<1>4. ASSUME NEW i \in DOMAIN (p \o q), (p \o q)[i].op = "hdr" PROVE IsHeader((p \o q)[i].hdr)
  <2>1. i \in 1 .. Len(p) \/ i \in Len(p) + 1 .. Len(p) + Len(q)
    BY <1>2, <1>3
  <2> QED
    BY <1>3, <1>4, <2>1 DEF IsQueue
<1> QED
  BY <1>1, <1>4 DEF IsQueue

LEMMA QueueCut ==
  ASSUME NEW q, IsQueue(q), NEW a \in Nat, NEW b \in Int, a >= 1, b <= Len(q)
  PROVE  IsQueue(SubSeq(q, a, b))
<1>1. q \in Seq(Range(q))
  BY DEF IsQueue, IsSequence
<1>2. SubSeq(q, a, b) \in Seq(Range(q))
  BY <1>1
<1>3. \A i \in DOMAIN SubSeq(q, a, b) : a + i - 1 \in DOMAIN q /\ SubSeq(q, a, b)[i] = q[a + i - 1]
  BY <1>1
<1> QED
  BY <1>2, <1>3, SequenceFrom DEF IsQueue

LEMMA LastOf ==
  ASSUME NEW q, IsSequence(q), NEW S \in SUBSET DOMAIN q, S # {}
  PROVE  LET l == CHOOSE i \in S : \A j \in S : j <= i IN l \in S /\ \A j \in S : j <= l
<1>1. q \in Seq(Range(q))
  BY DEF IsSequence
<1>2. Len(q) \in Nat /\ S \in SUBSET (0 .. Len(q))
  BY <1>1
<1>3. \E i \in S : \A j \in S : j <= i
  BY <1>2, GreatestNumber
<1> QED
  BY <1>3

\* Header and mark of the disk after some writes.
LEMMA AfterHeader ==
  ASSUME NEW d, IsHeader(d.hdr), NEW q, IsQueue(q)
  PROVE  /\ IsHeader(After(d, q).hdr)
         /\ q = <<>> => After(d, q).hdr = d.hdr
<1> DEFINE last(S) == CHOOSE i \in S : \A j \in S : j <= i
           Hdrs    == {i \in DOMAIN q : q[i].op = "hdr"}
           Flags   == {i \in DOMAIN q : q[i].op = "flag"}
           hdr     == IF Hdrs = {} THEN d.hdr ELSE q[last(Hdrs)].hdr
           flagged == Flags # {} /\ \A i \in Hdrs : i < last(Flags)
<1>1. After(d, q).hdr = IF flagged THEN [hdr EXCEPT !.ifeam = 1] ELSE hdr
  BY DEF After
<1>2. IsHeader(hdr)
  <2>1. CASE Hdrs = {}
    BY <2>1
  <2>2. CASE Hdrs # {}
    <3>1. Hdrs \in SUBSET DOMAIN q /\ IsSequence(q)
      BY DEF IsQueue
    <3>2. last(Hdrs) \in Hdrs
      <4> HIDE DEF Hdrs
      <4> QED
        BY <2>2, <3>1, LastOf
    <3>3. last(Hdrs) \in DOMAIN q /\ q[last(Hdrs)].op = "hdr"
      BY <3>2
    <3> HIDE DEF Hdrs, last
    <3> QED
      BY <2>2, <3>3 DEF IsQueue
  <2> QED
    BY <2>1, <2>2
<1>3. q = <<>> => Hdrs = {} /\ Flags = {}
  OBVIOUS
<1>4. q = <<>> => hdr = d.hdr /\ ~flagged
  BY <1>3
<1> HIDE DEF hdr, flagged
<1>5. IsHeader([hdr EXCEPT !.ifeam = 1])
  BY <1>2 DEF IsHeader
<1> QED
  BY <1>1, <1>2, <1>4, <1>5

\* What a call that changes the file leaves of a file with flag e that was
\* modified or not: the flag, and a mark if it wrote anything.
KeepsFlag(f, ws, e, modified) ==
  /\ IsFile(f) /\ f.hdr.ifeam = e /\ IsQueue(ws)
  /\ ~f.modified => ~modified /\ ws = <<>>

LEMMA NothingQueued == IsQueue(<<>>)
<1>1. <<>> \in Seq({}) /\ DOMAIN <<>> = {}
  OBVIOUS
<1>2. IsSequence(<<>>)
  BY <1>1, SequenceFrom
<1> QED
  BY <1>1, <1>2 DEF IsQueue

LEMMA QueueOfOne ==
  ASSUME NEW w, w.op = "hdr" => IsHeader(w.hdr)
  PROVE  IsQueue(<<w>>)
<1>1. <<w>> \in Seq({w})
  OBVIOUS
<1>2. IsSequence(<<w>>)
  BY <1>1, SequenceFrom
<1> QED
  BY <1>2 DEF IsQueue

LEMMA HeaderQueued ==
  ASSUME NEW f, IsFile(f)
  PROVE  \E q : IsQueue(q) /\ WriteHdr(f) = q \o <<[op |-> "hdr", hdr |-> f.hdr]>>
<1> DEFINE part(k) == [m \in 1 .. Section |-> f.idx[Nth(Written(f.idx), k * Section + m)]]
           secs == [k \in 1 .. Len(f.hdr.ioffi) + 1 |->
                      [op |-> "sec", k |-> k - 1, ents |-> part(k - 1),
                       at |-> IF k = 1 THEN Page + 1 ELSE SectionAt(f.hdr, k - 1)]]
<1>1. WriteHdr(f) = secs \o <<[op |-> "hdr", hdr |-> f.hdr]>>
  BY DEF WriteHdr
<1>2. Len(f.hdr.ioffi) + 1 \in Nat
  BY DEF IsFile, IsHeader, IsSequence
<1> HIDE DEF part
<1>3. secs \in Seq(Range(secs))
  <2>1. secs = [k \in 1 .. Len(f.hdr.ioffi) + 1 |-> secs[k]]
    OBVIOUS
  <2>2. DOMAIN secs = 1 .. Len(f.hdr.ioffi) + 1 /\ \A k \in 1 .. Len(f.hdr.ioffi) + 1 : secs[k] \in Range(secs)
    BY DEF Range
  <2> HIDE DEF secs
  <2> QED
    BY <1>2, <2>1, <2>2
<1>4. \A k \in DOMAIN secs : secs[k].op = "sec"
  OBVIOUS
<1> HIDE DEF secs
<1>5. IsQueue(secs)
  BY <1>3, <1>4 DEF IsQueue, IsSequence
<1> QED
  BY <1>1, <1>5

LEMMA WriteHdrQueue ==
  ASSUME NEW f, IsFile(f)
  PROVE  IsQueue(WriteHdr(f))
<1>1. PICK q : IsQueue(q) /\ WriteHdr(f) = q \o <<[op |-> "hdr", hdr |-> f.hdr]>>
  BY HeaderQueued
<1>2. IsQueue(<<[op |-> "hdr", hdr |-> f.hdr]>>)
  BY QueueOfOne DEF IsFile
<1> QED
  BY <1>1, <1>2, QueueJoin

LEMMA MarkQueue ==
  ASSUME NEW f, IsFile(f)
  PROVE  IsQueue(MarkModified(f))
<1>1. IsQueue(<<[op |-> "flag"]>>) /\ IsQueue(<<[op |-> "flush"]>>)
  BY QueueOfOne
<1>2. NotClosed = <<[op |-> "flag"]>> \o <<[op |-> "flush"]>>
  BY DEF NotClosed
<1>3. IsQueue(NotClosed)
  BY <1>1, <1>2, QueueJoin
<1> QED
  BY <1>3, NothingQueued, WriteHdrQueue, QueueJoin DEF MarkModified

\* A change of one field of a descriptor or of a header.
LEMMA SetIndex ==
  ASSUME NEW f, IsFile(f), NEW idx
  PROVE  LET g == [f EXCEPT !.idx = idx] IN IsFile(g) /\ g.hdr = f.hdr /\ g.modified = f.modified
BY DEF IsFile

LEMMA SetHeader ==
  ASSUME NEW f, IsFile(f), NEW hdr, IsHeader(hdr)
  PROVE  LET g == [f EXCEPT !.hdr = hdr] IN IsFile(g) /\ g.hdr = hdr /\ g.modified = f.modified
BY DEF IsFile

LEMMA SetCurrent ==
  ASSUME NEW f, IsFile(f), NEW iart
  PROVE  LET g == [f EXCEPT !.iart = iart] IN IsFile(g) /\ g.hdr = f.hdr /\ g.modified = f.modified
BY DEF IsFile

LEMMA SetModified ==
  ASSUME NEW f, IsFile(f)
  PROVE  LET g == [f EXCEPT !.modified = TRUE] IN IsFile(g) /\ g.hdr = f.hdr /\ g.modified = TRUE
BY DEF IsFile

LEMMA SetFields ==
  ASSUME NEW f, IsFile(f), NEW idx, NEW hdr, IsHeader(hdr), NEW iart
  PROVE  LET g == [f EXCEPT !.idx = idx, !.hdr = hdr, !.iart = iart, !.modified = TRUE]
         IN  IsFile(g) /\ g.hdr = hdr /\ g.modified = TRUE
<1> DEFINE a == [f EXCEPT !.idx = idx]
           b == [a EXCEPT !.hdr = hdr]
           c == [b EXCEPT !.iart = iart]
           d == [c EXCEPT !.modified = TRUE]
<1>1. IsFile(a)
  BY SetIndex
<1> HIDE DEF a
<1>2. IsFile(b) /\ b.hdr = hdr
  BY <1>1, SetHeader
<1> HIDE DEF b
<1>3. IsFile(c) /\ c.hdr = hdr
  BY <1>2, SetCurrent
<1> HIDE DEF c
<1>4. IsFile(d) /\ d.hdr = hdr /\ d.modified = TRUE
  BY <1>3, SetModified
<1>5. [f EXCEPT !.idx = idx, !.hdr = hdr, !.iart = iart, !.modified = TRUE] = d
  BY DEF a, b, c
<1> HIDE DEF d
<1> QED
  BY <1>4, <1>5

LEMMA SetCount ==
  ASSUME NEW h, IsHeader(h), NEW x
  PROVE  /\ IsHeader([h EXCEPT !.inaph = x]) /\ [h EXCEPT !.inaph = x].ifeam = h.ifeam
         /\ IsHeader([h EXCEPT !.inalo = x]) /\ [h EXCEPT !.inalo = x].ifeam = h.ifeam
         /\ IsHeader([h EXCEPT !.intru = x]) /\ [h EXCEPT !.intru = x].ifeam = h.ifeam
         /\ IsHeader([h EXCEPT !.iltal = x]) /\ [h EXCEPT !.iltal = x].ifeam = h.ifeam
BY DEF IsHeader

LEMMA SetOffsets ==
  ASSUME NEW h, IsHeader(h), NEW s, IsSequence(s)
  PROVE  IsHeader([h EXCEPT !.ioffi = s]) /\ [h EXCEPT !.ioffi = s].ifeam = h.ifeam
BY DEF IsHeader

LEMMA SuppressedFlag ==
  ASSUME NEW f, IsFile(f), NEW i
  PROVE  LET s == Suppressed(f, i)
         IN  IsFile(s.f) /\ s.f.hdr.ifeam = f.hdr.ifeam /\ s.f.modified = TRUE /\ IsQueue(s.ws)
<1> DEFINE s     == Suppressed(f, i)
           e     == f.idx[i]
           next  == IF i < Nart(f) THEN f.idx[i + 1] ELSE Free
           hole  == Entry(Trou, e.pos, 1 + HoleEnd(e, next) - e.pos)
           hdr   == HoleMade(f.hdr, e.len)
           holes == [f.idx EXCEPT ![i] = hole]
           named == [f.idx EXCEPT ![i].name = Trou]
           left  == [f EXCEPT !.idx = holes, !.hdr = hdr, !.iart = 0, !.modified = TRUE]
<1>1. s.f = left
      /\ s.ws = MarkModified([f EXCEPT !.idx = named])
  BY DEF Suppressed
<1>2. IsHeader(hdr) /\ hdr.ifeam = f.hdr.ifeam
  <2>1. IsHeader(f.hdr)
    BY DEF IsFile
  <2> DEFINE x == f.hdr.iltal - e.len
             a == [f.hdr EXCEPT !.iltal = x]
             y == a.intru + 1
  <2>2. hdr = [a EXCEPT !.intru = y]
    BY DEF HoleMade
  <2> HIDE DEF x
  <2>3. IsHeader(a) /\ a.ifeam = f.hdr.ifeam
    BY <2>1, SetCount
  <2> HIDE DEF a, y, hdr
  <2> QED
    BY <2>2, <2>3, SetCount
<1> HIDE DEF holes, named, hdr, s
<1>3. IsQueue(s.ws)
  BY <1>1, SetIndex, MarkQueue
<1>4. IsFile(left) /\ left.hdr = hdr /\ left.modified = TRUE
  BY <1>2, SetFields
<1> HIDE DEF left
<1> QED
  BY <1>1, <1>2, <1>3, <1>4 DEF s

LEMMA GrowFlag ==
  ASSUME NEW f, IsFile(f), NEW len
  PROVE  LET g == GrowIdx(f, len)
         IN  IsFile(g) /\ g.hdr.ifeam = f.hdr.ifeam /\ g.modified = f.modified
<1> DEFINE g   == GrowIdx(f, len)
           pos == SectionPos(f.idx[Nart(f)], len)
           new == [i \in 1 .. Section + 1 |-> IF i = 2 THEN Entry(Sect, pos, 2 * Page) ELSE Free]
           off == 1 + (pos - 1) \div Page
           ext == f.idx \o new
           all == Append(f.hdr.ioffi, off)
           hdr == [f.hdr EXCEPT !.ioffi = all]
           wide == [f EXCEPT !.idx = ext]
<1>1. g = [f EXCEPT !.idx = @ \o new, !.hdr.ioffi = Append(@, off)]
  BY DEF GrowIdx
<1> HIDE DEF new, off
<1>2. g = [wide EXCEPT !.hdr = hdr]
  BY <1>1
<1>3. IsSequence(all)
  <2>1. f.hdr.ioffi \in Seq(Range(f.hdr.ioffi) \cup {off})
    BY DEF IsFile, IsHeader, IsSequence
  <2>2. Append(f.hdr.ioffi, off) \in Seq(Range(f.hdr.ioffi) \cup {off})
    BY <2>1
  <2> QED
    BY <2>2, SequenceFrom
<1> HIDE DEF ext, all
<1>4. IsHeader(hdr) /\ hdr.ifeam = f.hdr.ifeam
  BY <1>3, SetOffsets DEF IsFile
<1>5. IsFile(wide) /\ wide.modified = f.modified
  BY SetIndex
<1> HIDE DEF wide, hdr, g
<1>6. IsFile(g) /\ g.hdr = hdr /\ g.modified = f.modified
  BY <1>2, <1>4, <1>5, SetHeader
<1> QED
  BY <1>4, <1>6 DEF g

LEMMA HdrFlag ==
  ASSUME NEW g, IsFile(g), NEW x, NEW len
  PROVE  IsHeader(HdrOf(g, x, len)) /\ HdrOf(g, x, len).ifeam = g.hdr.ifeam
<1> DEFINE h     == g.hdr
           iltal == h.iltal + len
           a     == [h EXCEPT !.iltal = iltal]
           inalo == a.inalo + 1
           b     == [a EXCEPT !.inalo = inalo]
           inaph == LastPage(PosOf(g, x) + len - 8)
           intru == a.intru - 1
<1>1. HdrOf(g, x, len) = IF g.idx[x].name = Fin THEN [b EXCEPT !.inaph = inaph] ELSE [a EXCEPT !.intru = intru]
  BY DEF HdrOf
<1>2. IsHeader(h)
  BY DEF IsFile
<1> HIDE DEF h, iltal
<1>3. IsHeader(a) /\ a.ifeam = h.ifeam
  BY <1>2, SetCount
<1> HIDE DEF a, inalo
<1>4. IsHeader(b) /\ b.ifeam = h.ifeam
  BY <1>3, SetCount
<1> HIDE DEF b, inaph, intru
<1>5. IsHeader([b EXCEPT !.inaph = inaph]) /\ [b EXCEPT !.inaph = inaph].ifeam = h.ifeam
  BY <1>4, SetCount
<1>6. IsHeader([a EXCEPT !.intru = intru]) /\ [a EXCEPT !.intru = intru].ifeam = h.ifeam
  BY <1>3, SetCount
<1> QED
  BY <1>1, <1>5, <1>6 DEF h

LEMMA PlacedFlag ==
  ASSUME NEW g, IsFile(g), NEW x, NEW n, NEW len
  PROVE  LET p == Placed(g, x, n, len)
         IN  IsFile(p) /\ p.hdr.ifeam = g.hdr.ifeam /\ p.modified = TRUE
<1> DEFINE idx  == [g.idx EXCEPT ![x] = Entry(n, PosOf(g, x), len)]
           hdr  == HdrOf(g, x, len)
           left == [g EXCEPT !.idx = idx, !.hdr = hdr, !.iart = x, !.modified = TRUE]
<1>1. Placed(g, x, n, len) = left
  BY DEF Placed
<1>2. IsHeader(hdr) /\ hdr.ifeam = g.hdr.ifeam
  BY HdrFlag
<1> HIDE DEF idx, hdr
<1>3. IsFile(left) /\ left.hdr = hdr /\ left.modified = TRUE
  BY <1>2, SetFields
<1> HIDE DEF left
<1> QED
  BY <1>1, <1>2, <1>3

LEMMA RoomFlag ==
  ASSUME NEW f, IsFile(f), NEW n, NEW len
  PROVE  KeepsFlag(RoomOf(f, n, len), Former(f, n).ws, f.hdr.ifeam, f.modified)
<1> DEFINE s   == Former(f, n)
           idx == OwnOf(f, n, len).idx
           r   == [s.f EXCEPT !.idx = idx]
<1>1. /\ IsFile(s.f) /\ s.f.hdr.ifeam = f.hdr.ifeam /\ IsQueue(s.ws)
      /\ ~s.f.modified => ~f.modified /\ s.ws = <<>>
  BY SuppressedFlag, NothingQueued DEF Former
<1>2. RoomOf(f, n, len) = r
  BY DEF RoomOf
<1> HIDE DEF s, idx
<1>3. IsFile(r) /\ r.hdr = s.f.hdr /\ r.modified = s.f.modified
  BY <1>1, SetIndex
<1> HIDE DEF r
<1> QED
  BY <1>1, <1>2, <1>3 DEF KeepsFlag, s

LEMMA WriteFlag ==
  ASSUME NEW f, IsFile(f), NEW n, NEW len, NEW id
  PROVE  LET w == Write(f, n, len, id) IN KeepsFlag(w.f, w.ws, f.hdr.ifeam, f.modified)
<1> DEFINE r    == RoomOf(f, n, len)
           slot == SlotOf(f, n, len)
           grow == slot = 0 /\ Len(r.hdr.ioffi) < Extra
           g    == IF grow THEN GrowIdx(r, len) ELSE r
           x    == IF grow THEN Nart(r) + 1 ELSE slot
           pos  == PosOf(g, x)
           sup  == Former(f, n).ws
           data == <<[op |-> "data", at |-> pos, len |-> len, id |-> id]>>
           bad  == Lookup(f, n) = 0 /\ n \notin Names
           w    == Write(f, n, len, id)
<1>1. w = IF len < 0 THEN Result(f, <<>>, -14)
          ELSE IF bad THEN Result(f, <<>>, -15)
          ELSE IF slot = 0 /\ ~grow THEN Result(r, sup, -1)
          ELSE Result(Placed(g, x, n, len), sup \o MarkModified(g) \o data, 0)
  BY WriteIs
<1>2. KeepsFlag(r, sup, f.hdr.ifeam, f.modified)
  BY RoomFlag
<1> HIDE DEF w, bad, sup, r, slot
<1>3. IsFile(r) /\ r.hdr.ifeam = f.hdr.ifeam /\ IsQueue(sup)
  BY <1>2 DEF KeepsFlag
<1>4. IsFile(g) /\ g.hdr.ifeam = f.hdr.ifeam
  BY <1>3, GrowFlag
<1>5. IsQueue(data)
  BY QueueOfOne
<1> HIDE DEF grow, g, x, data
<1>6. IsQueue(sup \o MarkModified(g) \o data)
  BY <1>3, <1>4, <1>5, MarkQueue, QueueJoin
<1> DEFINE p  == Placed(g, x, n, len)
           ws == sup \o MarkModified(g) \o data
<1>7. IsFile(p) /\ p.hdr.ifeam = g.hdr.ifeam /\ p.modified = TRUE
  <2>1. IsFile(g)
    BY <1>4
  <2> QED
    BY ONLY <2>1, PlacedFlag
<1> HIDE DEF p, ws
<1>8. KeepsFlag(p, ws, f.hdr.ifeam, f.modified)
  BY <1>4, <1>6, <1>7 DEF KeepsFlag, ws
<1>9. KeepsFlag(f, <<>>, f.hdr.ifeam, f.modified)
  BY NothingQueued DEF KeepsFlag
<1>10. \E krep : w = Result(f, <<>>, krep) \/ w = Result(r, sup, krep) \/ w = Result(p, ws, krep)
  BY <1>1 DEF p, ws
<1>11. KeepsFlag(w.f, w.ws, f.hdr.ifeam, f.modified)
  BY <1>2, <1>8, <1>9, <1>10, ResultIs
<1> QED
  BY <1>11 DEF w

LEMMA SuppressFlag ==
  ASSUME NEW f, IsFile(f), NEW n
  PROVE  LET w == Suppress(f, n) IN KeepsFlag(w.f, w.ws, f.hdr.ifeam, f.modified)
<1> DEFINE w == Suppress(f, n)
           s == Suppressed(f, Lookup(f, n))
<1>1. w = Result(f, <<>>, -20) \/ w = Result(s.f, s.ws, 0)
  BY DEF Suppress
<1>2. IsFile(s.f) /\ s.f.hdr.ifeam = f.hdr.ifeam /\ s.f.modified = TRUE /\ IsQueue(s.ws)
  BY SuppressedFlag
<1> HIDE DEF w, s
<1>3. KeepsFlag(w.f, w.ws, f.hdr.ifeam, f.modified)
  BY <1>1, <1>2, NothingQueued, ResultIs DEF KeepsFlag
<1> QED
  BY <1>3 DEF w

LEMMA RenameFlag ==
  ASSUME NEW f, IsFile(f), NEW m, NEW n
  PROVE  LET w == Rename(f, m, n) IN KeepsFlag(w.f, w.ws, f.hdr.ifeam, f.modified)
<1> DEFINE w   == Rename(f, m, n)
           idx == [f.idx EXCEPT ![Lookup(f, m)].name = n]
           a   == [f EXCEPT !.idx = idx]
           g   == [a EXCEPT !.modified = TRUE]
           new == [f EXCEPT !.idx[Lookup(f, m)].name = n, !.modified = TRUE]
<1>1. \E krep : w = Result(f, <<>>, krep) \/ w = Result(new, MarkModified(f), krep)
  BY DEF Rename
<1>2. new = g
  OBVIOUS
<1> HIDE DEF new, idx
<1>3. IsFile(a) /\ a.hdr = f.hdr
  BY SetIndex
<1> HIDE DEF a
<1>4. IsFile(g) /\ g.hdr = f.hdr /\ g.modified = TRUE
  BY <1>3, SetModified
<1> HIDE DEF w, g
<1>5. KeepsFlag(w.f, w.ws, f.hdr.ifeam, f.modified)
  BY <1>1, <1>2, <1>4, NothingQueued, MarkQueue, ResultIs DEF KeepsFlag
<1> QED
  BY <1>5 DEF w

LEMMA OpenNewFlag == KeepsFlag(OpenNew.f, OpenNew.ws, 0, FALSE) /\ OpenNew.f.modified = TRUE
<1> DEFINE idx == [i \in 1 .. Section |-> Free]
           f   == [open |-> TRUE, idx |-> idx, hdr |-> NewHdr, iart |-> 0, modified |-> FALSE]
           g   == [f EXCEPT !.modified = TRUE]
           new == <<[op |-> "create"]>>
<1>1. OpenNew.f = g /\ OpenNew.ws = new \o MarkModified(f)
  BY DEF OpenNew, Result
<1>2. IsHeader(NewHdr) /\ NewHdr.ifeam = 0
  <2>1. IsSequence(<<>>)
    BY NothingQueued DEF IsQueue
  <2> QED
    BY <2>1 DEF NewHdr, IsHeader
<1> HIDE DEF idx
<1>3. IsFile(f) /\ f.hdr = NewHdr
  BY <1>2 DEF IsFile
<1>4. IsQueue(new)
  BY QueueOfOne
<1> HIDE DEF f, new
<1>5. IsFile(g) /\ g.hdr = NewHdr /\ g.modified = TRUE
  BY <1>3, SetModified
<1>6. IsQueue(new \o MarkModified(f))
  BY <1>3, <1>4, MarkQueue, QueueJoin
<1> HIDE DEF g
<1> QED
  BY <1>1, <1>2, <1>5, <1>6 DEF KeepsFlag

LEMMA OpenOldFlag ==
  ASSUME FlagInv
  PROVE  /\ IsFile(OpenOld(disk).f) /\ OpenOld(disk).ws = <<>> /\ OpenOld(disk).f.modified = FALSE
         /\ OpenOld(disk).f.hdr = disk.hdr
<1> DEFINE idx == ReadIndex(disk)
           hdr == disk.hdr
           f   == [open |-> TRUE, idx |-> idx, hdr |-> hdr, iart |-> 0, modified |-> FALSE]
<1>1. OpenOld(disk).f = f /\ OpenOld(disk).ws = <<>>
  BY DEF OpenOld, Result
<1>2. IsHeader(hdr)
  BY DEF FlagInv
<1> HIDE DEF idx, hdr
<1>3. IsFile(f) /\ f.hdr = hdr /\ f.modified = FALSE
  BY <1>2 DEF IsFile
<1> HIDE DEF f
<1> QED
  BY <1>1, <1>3 DEF hdr

LEMMA BufferedFlag ==
  ASSUME FlagInv, NEW ws, IsQueue(ws), Buffered(ws)
  PROVE  /\ IsQueue(pend') /\ IsHeader(disk'.hdr)
         /\ pend = <<>> /\ ws = <<>> => pend' = <<>> /\ disk'.hdr = disk.hdr /\ (disk.lfi => disk'.lfi)
<1> DEFINE q == pend \o ws
           l == Len(q)
           F == {i \in DOMAIN q : q[i].op = "flush"}
           k == IF F = {} THEN 0 ELSE CHOOSE i \in F : \A j \in F : j <= i
           done == SubSeq(q, 1, k)
           left == SubSeq(q, k + 1, l)
<1>1. disk' = After(disk, done) /\ pend' = left
  BY DEF Buffered
<1>2. IsQueue(q) /\ IsHeader(disk.hdr)
  BY QueueJoin DEF FlagInv
<1>3. pend = <<>> /\ ws = <<>> => q = <<>>
  OBVIOUS
<1> HIDE DEF q
<1>4. q \in Seq(Range(q)) /\ IsSequence(q)
  BY <1>2 DEF IsQueue, IsSequence
<1>5. l \in Nat /\ DOMAIN q = 1 .. l
  BY <1>4
<1>6. k \in 0 .. l
  <2>1. F \subseteq DOMAIN q
    OBVIOUS
  <2> HIDE DEF F, l
  <2>2. F # {} => k \in F
    BY <1>4, <2>1, LastOf
  <2> QED
    BY <1>5, <2>1, <2>2
<1> HIDE DEF k
<1>7. IsQueue(done) /\ IsQueue(left)
  <2>1. 1 \in Nat /\ k \in Int /\ k <= l /\ k + 1 \in Nat /\ k + 1 >= 1 /\ l \in Int /\ l <= l
    BY <1>5, <1>6
  <2> HIDE DEF l
  <2>2. l <= Len(q) /\ k <= Len(q)
    BY <2>1 DEF l
  <2> QED
    BY <1>2, <2>1, <2>2, QueueCut
<1>8. q = <<>> => done = <<>> /\ left = <<>>
  BY <1>5, <1>6
<1> HIDE DEF done, left
<1>9. IsHeader(disk'.hdr) /\ (done = <<>> => disk'.hdr = disk.hdr)
  BY <1>1, <1>2, <1>7, AfterHeader
<1>10. disk.lfi => disk'.lfi
  BY <1>1 DEF After
<1> QED
  BY <1>1, <1>3, <1>7, <1>8, <1>9, <1>10

LEMMA DiesFlag ==
  ASSUME FlagInv, NEW ws, IsQueue(ws), Dies(ws)
  PROVE  FlagInv' /\ crashes' > crashes
<1> DEFINE q == pend \o ws
<1>1. IsQueue(q) /\ IsHeader(disk.hdr) /\ crashes \in Nat
  BY QueueJoin DEF FlagInv
<1>2. PICK k \in 0 .. Len(q) : disk' = After(disk, SubSeq(q, 1, k))
  BY DEF Dies
<1>3. fh' = Closed /\ pend' = <<>> /\ crashes' = crashes + 1
  BY DEF Dies
<1> HIDE DEF q
<1>4. IsQueue(SubSeq(q, 1, k))
  <2>1. q \in Seq(Range(q))
    BY <1>1 DEF IsQueue, IsSequence
  <2>2. k \in Int /\ k <= Len(q)
    BY <2>1
  <2> QED
    BY <1>1, <2>2, QueueCut
<1>5. IsHeader(disk'.hdr)
  BY <1>1, <1>2, <1>4, AfterHeader
<1>6. ~Closed.open
  BY DEF Closed
<1>7. crashes' \in Nat /\ crashes' > crashes
  BY <1>1, <1>3
<1> QED
  BY <1>3, <1>5, <1>6, <1>7, NothingQueued DEF FlagInv

\* What a step is to show.
FlagStep == FlagInv' /\ (Sound /\ ~Sound' => crashes' > crashes)

LEMMA CompletesFlag ==
  ASSUME FlagInv, NEW call, NEW r, Completes(call, r), IsFile(r.f), IsQueue(r.ws),
         ~r.f.modified => pend = <<>> /\ r.ws = <<>> /\ disk.lfi /\ disk.hdr.ifeam = r.f.hdr.ifeam,
         Sound => r.f.hdr.ifeam = 0
  PROVE  FlagStep
<1>1. fh' = r.f /\ Buffered(r.ws) /\ crashes' = crashes
  BY DEF Completes
<1>2. /\ IsQueue(pend') /\ IsHeader(disk'.hdr)
      /\ pend = <<>> /\ r.ws = <<>> => pend' = <<>> /\ disk'.hdr = disk.hdr /\ (disk.lfi => disk'.lfi)
  BY <1>1, BufferedFlag
<1>3. fh'.open
  BY <1>1 DEF IsFile
<1>4. FlagInv'
  BY <1>1, <1>2, <1>3 DEF FlagInv
<1>5. Sound => Sound'
  BY <1>1, <1>3 DEF Sound, IsSound
<1> QED
  BY <1>4, <1>5 DEF FlagStep

\* The image of the file after writes that end with a header and a flush.
LEMMA AfterClose ==
  ASSUME NEW d, NEW p, IsSequence(p), NEW h
  PROVE  LET q == p \o <<[op |-> "hdr", hdr |-> h]>> \o <<[op |-> "flush"]>>
         IN  After(d, q).hdr = h /\ After(d, q).lfi
<1> DEFINE q == p \o <<[op |-> "hdr", hdr |-> h]>> \o <<[op |-> "flush"]>>
           last(S) == CHOOSE i \in S : \A j \in S : j <= i
           Hdrs    == {i \in DOMAIN q : q[i].op = "hdr"}
           Flags   == {i \in DOMAIN q : q[i].op = "flag"}
           hdr     == IF Hdrs = {} THEN d.hdr ELSE q[last(Hdrs)].hdr
           flagged == Flags # {} /\ \A i \in Hdrs : i < last(Flags)
           n       == Len(p)
<1>1. After(d, q).hdr = (IF flagged THEN [hdr EXCEPT !.ifeam = 1] ELSE hdr)
      /\ After(d, q).lfi = (d.lfi \/ Hdrs # {})
  BY DEF After
<1>2. p \in Seq(Range(p)) /\ n \in Nat
  BY DEF IsSequence
<1>3. /\ DOMAIN q = 1 .. n + 2 /\ q[n + 1] = [op |-> "hdr", hdr |-> h] /\ q[n + 2] = [op |-> "flush"]
      /\ IsSequence(q)
  <2> DEFINE a == [op |-> "hdr", hdr |-> h]
             b == [op |-> "flush"]
             S == Range(p) \cup {a, b}
  <2>1. p \in Seq(S) /\ a \in S /\ b \in S
    BY <1>2
  <2>2. q = p \o <<a>> \o <<b>>
    OBVIOUS
  <2> HIDE DEF a, b, S, q
  <2>3. q \in Seq(S) /\ DOMAIN q = 1 .. n + 2 /\ q[n + 1] = a /\ q[n + 2] = b
    BY <2>1, <2>2
  <2> QED
    BY <2>3, SequenceFrom DEF a, b
<1> HIDE DEF q
<1>4. q[n + 1].op = "hdr" /\ q[n + 1].hdr = h /\ q[n + 2].op = "flush"
  BY <1>3
<1>5. n + 1 \in Hdrs /\ n + 2 \notin Hdrs /\ n + 1 \notin Flags /\ n + 2 \notin Flags
  BY <1>2, <1>3, <1>4
<1>6. Hdrs \in SUBSET DOMAIN q /\ Flags \in SUBSET DOMAIN q
  OBVIOUS
<1> HIDE DEF Hdrs, Flags
<1>7. last(Hdrs) \in Hdrs /\ \A j \in Hdrs : j <= last(Hdrs)
  BY <1>3, <1>5, <1>6, LastOf
<1>8. Flags # {} => last(Flags) \in Flags
  BY <1>3, <1>6, LastOf
<1> HIDE DEF last
<1>9. last(Hdrs) = n + 1
  <2>1. last(Hdrs) \in 1 .. n + 2 /\ last(Hdrs) # n + 2 /\ n + 1 <= last(Hdrs)
    BY <1>3, <1>5, <1>6, <1>7
  <2> QED
    BY <1>2, <2>1
<1>10. ~flagged
  <2>1. CASE Flags = {}
    BY <2>1
  <2>2. CASE Flags # {}
    <3>1. last(Flags) \in 1 .. n + 2 /\ last(Flags) # n + 2 /\ last(Flags) # n + 1
      BY <1>3, <1>5, <1>6, <1>8, <2>2
    <3>2. ~(n + 1 < last(Flags))
      BY <1>2, <3>1
    <3> QED
      BY <1>5, <3>2
  <2> QED
    BY <2>1, <2>2
<1> HIDE DEF flagged
<1>11. hdr = h
  BY <1>4, <1>5, <1>9
<1> HIDE DEF hdr
<1> QED
  BY <1>1, <1>5, <1>10, <1>11 DEF q

LEMMA CloseFlag ==
  ASSUME FlagInv, fh.open, NEW call, Completes(call, Close(fh))
  PROVE  FlagStep
<1> DEFINE ws    == LastWrites(fh) \o <<[op |-> "flush"]>>
           q     == pend \o ws
           l     == Len(q)
           F     == {i \in DOMAIN q : q[i].op = "flush"}
           k     == IF F = {} THEN 0 ELSE CHOOSE i \in F : \A j \in F : j <= i
<1>1. fh' = Closed /\ Buffered(ws) /\ crashes' = crashes
  BY DEF Completes, Close, Result
<1>2. disk' = After(disk, SubSeq(q, 1, k)) /\ pend' = SubSeq(q, k + 1, l)
  BY <1>1 DEF Buffered
<1>3. ~Closed.open
  BY DEF Closed
<1>4. IsFile(fh) /\ IsQueue(pend) /\ IsHeader(disk.hdr) /\ crashes \in Nat
  BY <1>3 DEF FlagInv
<1>5. IsQueue(LastWrites(fh)) /\ IsQueue(<<[op |-> "flush"]>>)
  BY <1>4, NothingQueued, WriteHdrQueue, QueueOfOne DEF LastWrites
<1>6. IsQueue(q)
  BY <1>4, <1>5, QueueJoin
<1>7. q = (pend \o LastWrites(fh)) \o <<[op |-> "flush"]>>
  BY <1>4, <1>5 DEF IsQueue, IsSequence
<1> HIDE DEF ws
<1>8. q \in Seq(Range(q)) /\ l \in Nat /\ l >= 1 /\ q[l] = [op |-> "flush"]
  <2> DEFINE p == pend \o LastWrites(fh)
             b == [op |-> "flush"]
  <2>1. IsQueue(p)
    BY <1>4, <1>5, QueueJoin
  <2>2. p \in Seq(Range(p))
    BY <2>1 DEF IsQueue, IsSequence
  <2>3. q \in Seq(Range(q))
    BY <1>6 DEF IsQueue, IsSequence
  <2> HIDE DEF p, q, b
  <2>4. q = p \o <<b>>
    BY <1>7 DEF p, b
  <2>5. p \in Seq(Range(p) \cup {b}) /\ b \in Range(p) \cup {b}
    BY <2>2
  <2>6. Len(q) \in Nat /\ Len(q) >= 1 /\ q[Len(q)] = b
    BY <2>4, <2>5
  <2> QED
    BY <2>3, <2>6 DEF q, b
<1> HIDE DEF q
<1>9. k = l
  <2>1. F \in SUBSET DOMAIN q /\ l \in F
    BY <1>8
  <2>2. IsSequence(q)
    BY <1>6 DEF IsQueue
  <2>3. DOMAIN q = 1 .. l
    BY <1>8
  <2> HIDE DEF F, l
  <2>4. k \in F /\ \A j \in F : j <= k
    BY <2>1, <2>2, LastOf
  <2> HIDE DEF k
  <2>5. k \in 1 .. l /\ l <= k
    BY <2>1, <2>3, <2>4
  <2> QED
    BY <1>8, <2>5
<1> HIDE DEF k
<1>10. SubSeq(q, 1, k) = q /\ SubSeq(q, k + 1, l) = <<>>
  BY <1>8, <1>9
<1>11. disk' = After(disk, q) /\ pend' = <<>>
  BY <1>2, <1>10
<1>12. IsHeader(disk'.hdr)
  BY <1>4, <1>6, <1>11, AfterHeader
<1>13. FlagInv'
  BY <1>1, <1>3, <1>4, <1>11, <1>12, NothingQueued DEF FlagInv
<1>14. CASE fh.modified
  <2>1. PICK p : IsQueue(p) /\ WriteHdr(fh) = p \o <<[op |-> "hdr", hdr |-> fh.hdr]>>
    BY <1>4, HeaderQueued
  <2>2. IsSequence(pend \o p)
    BY <1>4, <2>1, SequenceJoin DEF IsQueue
  <2>3. q = (pend \o p) \o <<[op |-> "hdr", hdr |-> fh.hdr]>> \o <<[op |-> "flush"]>>
    <3> DEFINE h == [op |-> "hdr", hdr |-> fh.hdr]
    <3>1. LastWrites(fh) = p \o <<h>>
      BY <1>14, <2>1 DEF LastWrites
    <3> HIDE DEF h
    <3>2. pend \o (p \o <<h>>) = (pend \o p) \o <<h>>
      BY <1>4, <2>1 DEF IsQueue, IsSequence
    <3> QED
      BY <1>7, <3>1, <3>2 DEF h
  <2>4. disk'.hdr = fh.hdr /\ disk'.lfi
    BY <1>11, <2>2, <2>3, AfterClose
  <2>5. Sound => Sound'
    BY <1>1, <1>3, <2>4 DEF Sound, IsSound
  <2> QED
    BY <1>13, <2>5 DEF FlagStep
<1>15. CASE ~fh.modified
  <2>1. pend = <<>> /\ disk.lfi /\ disk.hdr.ifeam = fh.hdr.ifeam
    BY <1>15 DEF FlagInv
  <2>2. q = <<[op |-> "flush"]>>
    BY <1>7, <1>15, <2>1 DEF LastWrites
  <2>3. disk'.hdr = disk.hdr /\ disk'.lfi
    <3>1. {i \in DOMAIN q : q[i].op = "hdr"} = {} /\ {i \in DOMAIN q : q[i].op = "flag"} = {}
      BY <2>2
    <3> QED
      BY <1>11, <2>1, <3>1 DEF After
  <2>4. Sound => Sound'
    BY <1>1, <1>3, <2>1, <2>3 DEF Sound, IsSound
  <2> QED
    BY <1>13, <2>4 DEF FlagStep
<1> QED
  BY <1>14, <1>15

LEMMA RunsFlag ==
  ASSUME FlagInv, fh.open, NEW call, NEW r, KeepsFlag(r.f, r.ws, fh.hdr.ifeam, fh.modified), Runs(call, r)
  PROVE  FlagStep
<1>1. /\ IsFile(r.f) /\ IsQueue(r.ws) /\ r.f.hdr.ifeam = fh.hdr.ifeam
      /\ ~r.f.modified => ~fh.modified /\ r.ws = <<>>
  BY DEF KeepsFlag
<1>2. CASE Completes(call, r)
  <2>1. ~r.f.modified => pend = <<>> /\ r.ws = <<>> /\ disk.lfi /\ disk.hdr.ifeam = r.f.hdr.ifeam
    BY <1>1 DEF FlagInv
  <2>2. Sound => r.f.hdr.ifeam = 0
    BY <1>1 DEF Sound, IsSound
  <2> QED
    BY <1>1, <1>2, <2>1, <2>2, CompletesFlag
<1>3. CASE Dies(r.ws)
  BY <1>1, <1>3, DiesFlag DEF FlagStep
<1> QED
  BY <1>2, <1>3 DEF Runs

LEMMA ReadsFlag ==
  ASSUME FlagInv, fh.open, NEW call, NEW krep, NEW name, NEW len, NEW at, Reads(call, krep, name, len, at)
  PROVE  FlagStep
<1> DEFINE g == [fh EXCEPT !.iart = at]
<1>1. fh' = g /\ disk' = disk /\ pend' = pend /\ crashes' = crashes
  BY DEF Reads
<1>2. IsFile(fh)
  BY DEF FlagInv, Closed
<1>3. IsFile(g) /\ g.hdr = fh.hdr /\ g.modified = fh.modified
  BY <1>2, SetCurrent
<1> HIDE DEF g
<1>4. g.open
  BY <1>3 DEF IsFile
<1> QED
  BY <1>1, <1>3, <1>4 DEF FlagInv, FlagStep, Sound, IsSound

LEMMA DeathFlag ==
  ASSUME FlagInv, Dies(<<>>)
  PROVE  FlagStep
BY NothingQueued, DiesFlag DEF FlagStep

LEMMA StillFlag ==
  ASSUME FlagInv, UNCHANGED <<fh, disk, pend, crashes>>
  PROVE  FlagStep
BY DEF FlagInv, FlagStep, Sound

LEMMA OpenFlag ==
  ASSUME FlagInv, NEW st, LFIOUV(st)
  PROVE  FlagStep
<1>1. ~fh.open /\ pend = <<>>
  BY DEF LFIOUV, FlagInv
<1>2. CASE UNCHANGED <<fh, disk, pend, crashes>>
  BY <1>2, StillFlag
<1>3. CASE disk.exists /\ disk.lfi /\ Runs("LFIOUV", OpenOld(disk))
  <2> DEFINE r == OpenOld(disk)
  <2>1. IsFile(r.f) /\ r.ws = <<>> /\ r.f.modified = FALSE /\ r.f.hdr = disk.hdr
    BY OpenOldFlag
  <2>2. Sound => disk.hdr.ifeam = 0
    BY <1>1, <1>3 DEF Sound, IsSound
  <2>3. Completes("LFIOUV", r) \/ Dies(r.ws)
    BY <1>3 DEF Runs
  <2> HIDE DEF r
  <2>4. CASE Completes("LFIOUV", r)
    BY <1>1, <1>3, <2>1, <2>2, <2>4, NothingQueued, CompletesFlag
  <2>5. CASE Dies(r.ws)
    BY <2>1, <2>5, DeathFlag
  <2> QED
    BY <2>3, <2>4, <2>5
<1>4. CASE Runs("LFIOUV", OpenNew)
  <2> DEFINE r == OpenNew
  <2>1. IsFile(r.f) /\ IsQueue(r.ws) /\ r.f.hdr.ifeam = 0 /\ r.f.modified = TRUE
    BY OpenNewFlag DEF KeepsFlag
  <2>2. Completes("LFIOUV", r) \/ Dies(r.ws)
    BY <1>4 DEF Runs
  <2> HIDE DEF r
  <2>3. CASE Completes("LFIOUV", r)
    BY <2>1, <2>3, CompletesFlag
  <2>4. CASE Dies(r.ws)
    BY <2>1, <2>4, DiesFlag DEF FlagStep
  <2> QED
    BY <2>2, <2>3, <2>4
<1> QED
  BY <1>2, <1>3, <1>4 DEF LFIOUV

LEMMA CallFlag ==
  ASSUME FlagInv, Calls
  PROVE  FlagStep
<1>1. fh.open => IsFile(fh)
  BY DEF FlagInv, Closed
<1>2. ASSUME NEW st, LFIOUV(st) PROVE FlagStep
  BY <1>2, OpenFlag
<1>3. ASSUME NEW n, NEW len, LFIECR(n, len) PROVE FlagStep
  BY <1>1, <1>3, WriteFlag, RunsFlag DEF LFIECR
<1>4. ASSUME NEW n, LFISUP(n) PROVE FlagStep
  BY <1>1, <1>4, SuppressFlag, RunsFlag DEF LFISUP
<1>5. ASSUME NEW m, NEW n, LFIREN(m, n) PROVE FlagStep
  BY <1>1, <1>5, RenameFlag, RunsFlag DEF LFIREN
<1>6. ASSUME LFIFER PROVE FlagStep
  <2>1. fh.open /\ (Completes("LFIFER", Close(fh)) \/ Dies(Close(fh).ws))
    BY <1>6 DEF LFIFER, Runs
  <2>2. CASE Completes("LFIFER", Close(fh))
    BY <2>1, <2>2, CloseFlag
  <2>3. CASE Dies(Close(fh).ws)
    <3>1. IsQueue(LastWrites(fh)) /\ IsQueue(<<[op |-> "flush"]>>)
      BY <1>1, <2>1, NothingQueued, WriteHdrQueue, QueueOfOne DEF LastWrites
    <3>2. IsQueue(LastWrites(fh) \o <<[op |-> "flush"]>>)
      BY <3>1, QueueJoin
    <3>3. IsQueue(Close(fh).ws)
      BY <3>2 DEF Close, Result
    <3> QED
      BY <2>3, <3>3, DiesFlag DEF FlagStep
  <2> QED
    BY <2>1, <2>2, <2>3
<1>7. ASSUME Crash PROVE FlagStep
  BY <1>7, DeathFlag DEF Crash
<1>8. ASSUME LFIPOS PROVE FlagStep
  BY <1>8, ReadsFlag, Zenon DEF LFIPOS
<1>9. ASSUME NEW n, LFINFO(n) PROVE FlagStep
  BY <1>9, ReadsFlag, Zenon DEF LFINFO
<1>10. ASSUME NEW n, NEW len, LFILEC(n, len) PROVE FlagStep
  BY <1>10, ReadsFlag, Zenon DEF LFILEC
<1>11. ASSUME NEW call, NEW i, NEW none, NEW len, NEW short, ReadAt(call, i, none, len, short) PROVE FlagStep
  BY <1>11, ReadsFlag, DeathFlag, Zenon DEF ReadAt
<1>12. ASSUME NEW call, NEW i, NEW name, NEW move, NEW short, Describe(call, i, name, move, short) PROVE FlagStep
  BY <1>12, ReadsFlag, Zenon DEF Describe
<1>13. ASSUME NEW len, NEW short, LFILAS(len, short) \/ LFILAP(len, short) PROVE FlagStep
  BY <1>11, <1>13, Zenon DEF LFILAS, LFILAP
<1>14. ASSUME NEW move, NEW short, LFICAS(move, short) \/ LFICAP(move, short) PROVE FlagStep
  BY <1>12, <1>14, Zenon DEF LFICAS, LFICAP
<1> QED
  BY <1>2, <1>3, <1>4, <1>5, <1>6, <1>7, <1>8, <1>9, <1>10, <1>13, <1>14 DEF Calls

\* A file is only damaged by the death of a process: whatever the calls, and
\* however often the file was opened, one that was sound and is not any more
\* was in use when a process died (fh_modified, lfifer_alts).
THEOREM DamageOnlyByDeathHolds == Spec => DamageOnlyByDeath
<1>1. Init => FlagInv
  <2>1. ASSUME Init PROVE FlagInv
    <3>1. fh = Closed /\ disk = NoFile /\ pend = <<>> /\ crashes = 0
      BY <2>1 DEF Init
    <3>2. IsHeader(NewHdr)
      <4>1. IsSequence(<<>>)
        BY NothingQueued DEF IsQueue
      <4> QED
        BY <4>1 DEF NewHdr, IsHeader
    <3>3. disk.hdr = NewHdr /\ ~fh.open
      BY <3>1 DEF NoFile, Closed
    <3> QED
      BY <3>1, <3>2, <3>3, NothingQueued DEF FlagInv
  <2> QED
    BY <2>1
<1>2. FlagInv /\ [Next]_vars => FlagInv' /\ [Sound /\ ~Sound' => crashes' > crashes]_vars
  <2>1. ASSUME FlagInv, Next PROVE FlagStep
    BY <2>1, CallFlag DEF Next
  <2>2. ASSUME FlagInv, UNCHANGED vars PROVE FlagStep
    BY <2>2, StillFlag DEF vars
  <2> QED
    BY <2>1, <2>2 DEF FlagStep
<1> QED
  BY <1>1, <1>2, PTL DEF Spec, DamageOnlyByDeath

=============================================================================
