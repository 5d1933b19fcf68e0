------------------------------ MODULE LfiFile ------------------------------
(***************************************************************************)
(* One native LFI file of the C library (lfi_alt/lfi_alts.c): the article  *)
(* index held in memory, the holes left by suppressed articles and filled  *)
(* again, the extra index sections that are put between the articles when  *)
(* the index is full, the header counters, and what reaches the disk when. *)
(*                                                                         *)
(* Positions and lengths are in words, positions start from one.  The file *)
(* begins with three pages: header, names, lengths and positions.  In the  *)
(* program a page of Page words holds Section = Page/2 index entries; the  *)
(* two are independent here, which is more general and keeps runs small.   *)
(***************************************************************************)
EXTENDS Integers, Sequences, SequencesExt, FiniteSets

CONSTANTS Names,      \* article names
          Instances   \* sizes of the files and bounds on the calls

ASSUME SizesAssumption ==
  \A i \in Instances :
    /\ {i.Section, i.Page, i.MaxWrites, i.MaxOpens} \subseteq Nat \ {0}
    /\ i.Page >= 8 /\ i.Lens \subseteq Int /\ {i.Extra, i.MaxCrashes} \subseteq Nat

\* Reserved names: end of the index, hole, placeholder of an extra index
\* section, and the bytes of a slot that was allocated and never filled.
Fin  == "fin_d_index"
Trou == "trou__index"
Sect == "page__index"
Junk == "uninitialised"

\* check_an refuses them as names of articles.
ASSUME NamesAssumption == Names \cap {Fin, Trou, Sect, Junk} = {}

VARIABLES fh,      \* descriptor of the open file, or Closed
          disk,    \* what has certainly reached the disk
          pend,    \* writes still in the stdio buffer, in order
          ret,     \* outcome of the last call
          writes,  \* LFIECR calls made
          opens,   \* LFIOUV calls made
          crashes, \* deaths of the process
          inst     \* the member of Instances this behaviour is in

vars == <<fh, disk, pend, ret, writes, opens, crashes, inst>>

CallNames  == inst.CallNames   \* what callers pass as a name: some of Names or reserved ones
Lens       == inst.Lens        \* lengths given by callers
Section    == inst.Section     \* index entries of one index section
Page       == inst.Page        \* words of a physical article
Extra      == inst.Extra       \* index sections that may be added
MaxWrites  == inst.MaxWrites   \* bound on LFIECR; a call is known by its number
MaxOpens   == inst.MaxOpens    \* bound on LFIOUV
MaxCrashes == inst.MaxCrashes  \* bound on deaths of the process

-----------------------------------------------------------------------------
(* Index entries, header and disk image.                                   *)

Entry(name, pos, len) == [name |-> name, pos |-> pos, len |-> len]
Free == Entry(Fin, 0, 0)
FirstWord == 3 * Page + 1
PageUp(w) == ((w + Page - 1) \div Page) * Page
NewHdr == [inaph |-> 3, inalo |-> 0, intru |-> 0, iltal |-> 0, ifeam |-> 0, ioffi |-> <<>>]
Closed == [open |-> FALSE]
\* lfi: a header has been written, so that lfi_grok knows the file.
NoFile == [exists |-> FALSE, lfi |-> FALSE, hdr |-> NewHdr, sec |-> <<>>, word |-> <<>>]

\* First word of extra index section k.
SectionAt(hdr, k) == (hdr.ioffi[k] - 1) * Page + 1

\* A write covers some words: an extra section its two pages, an article its
\* own.  It marks them with -k for section k, or the number of its call.
Covers(w, x) ==
  \/ w.op = "data" /\ x \in w.at .. w.at + w.len - 1
  \/ w.op = "sec" /\ w.k > 0 /\ x \in w.at .. w.at + 2 * Page - 1
Mark(w) == IF w.op = "data" THEN w.id ELSE -w.k
Words(q) == UNION {IF w.op = "data" THEN w.at .. w.at + w.len - 1
                   ELSE IF w.op = "sec" /\ w.k > 0 THEN w.at .. w.at + 2 * Page - 1 ELSE {} : w \in q}

\* The image of the file after the writes q: what was written last stays.
After(d, q) ==
  LET last(S) == CHOOSE i \in S : \A j \in S : j <= i
      Hdrs    == {i \in DOMAIN q : q[i].op = "hdr"}
      Flags   == {i \in DOMAIN q : q[i].op = "flag"}
      Secs(k) == {i \in DOMAIN q : q[i].op = "sec" /\ q[i].k = k - 1}
      hdr     == IF Hdrs = {} THEN d.hdr ELSE q[last(Hdrs)].hdr
      n       == CHOOSE k \in 0 .. Len(d.sec) + Len(q) : k >= Len(d.sec) /\ Secs(k + 1) = {}
                   /\ \A m \in Len(d.sec) + 1 .. k : Secs(m) # {}
  IN  [exists |-> d.exists \/ \E i \in DOMAIN q : q[i].op = "create",
       lfi    |-> d.lfi \/ Hdrs # {},
       hdr    |-> IF Flags # {} /\ \A i \in Hdrs : i < last(Flags) THEN [hdr EXCEPT !.ifeam = 1] ELSE hdr,
       sec    |-> [k \in 1 .. n |-> IF Secs(k) = {} THEN d.sec[k] ELSE q[last(Secs(k))].ents],
       word   |-> [x \in DOMAIN d.word \cup Words(Range(q)) |->
                     LET by == {i \in DOMAIN q : Covers(q[i], x)}
                     IN  IF by = {} THEN d.word[x] ELSE Mark(q[last(by)])]]

\* Complete a call that made the writes ws: all up to the last flush are on
\* the disk, the others wait in the buffer.
Buffered(ws) ==
  LET q == pend \o ws
      F == {i \in DOMAIN q : q[i].op = "flush"}
      k == IF F = {} THEN 0 ELSE CHOOSE i \in F : \A j \in F : j <= i
  IN  /\ disk' = After(disk, SubSeq(q, 1, k))
      /\ pend' = SubSeq(q, k + 1, Len(q))

-----------------------------------------------------------------------------
(* Helpers of the handlers.                                                *)

Nart(f) == Len(f.idx)
IsData(e) == e.name \notin {Fin, Trou, Sect, Junk}

\* lookup_rc: rank of the article, 0 when there is none.
Lookup(f, n) ==
  LET near == {i \in {f.iart - 1, f.iart} : f.iart > 0 /\ i \in 1 .. Nart(f) /\ f.idx[i].name = n}
      all  == {i \in 1 .. Nart(f) : f.idx[i].name = n}
      cand == IF near # {} THEN near ELSE all
  IN  IF cand = {} THEN 0 ELSE CHOOSE i \in cand : \A j \in cand : i <= j

\* What seek_rc goes past.
Skipped == {Trou, Sect}

\* seek_rc, d = +1: rank of the next article, 0 when there is none.
SeekNext(f) ==
  LET from == f.iart + 1
      stop == {i \in from .. Nart(f) : f.idx[i].name \notin Skipped}
      i    == CHOOSE j \in stop : \A k \in stop : j <= k
  IN  IF stop = {} THEN 0 ELSE IF f.idx[i].name = Fin THEN 0 ELSE i

\* seek_rc, d = -1: rank of the previous one.
SeekPrev(f) ==
  LET to   == (IF f.iart = 0 THEN Nart(f) + 1 ELSE f.iart) - 1
      stop == {i \in 1 .. to : f.idx[i].name \notin Skipped}
  IN  IF stop = {} THEN 0 ELSE CHOOSE i \in stop : \A j \in stop : j <= i

\* Ranks of the entries a section holds: the placeholders take no room there.
Written(idx) == {i \in DOMAIN idx : idx[i].name # Sect}
Nth(S, m) == CHOOSE i \in S : Cardinality({j \in S : j <= i}) = m

\* fh_write_hdr: the index sections, then the header.
WriteHdr(f) ==
  LET part(k) == [m \in 1 .. Section |-> f.idx[Nth(Written(f.idx), k * Section + m)]]
  IN  [k \in 1 .. Len(f.hdr.ioffi) + 1 |->
         [op |-> "sec", k |-> k - 1, ents |-> part(k - 1),
          at |-> IF k = 1 THEN Page + 1 ELSE SectionAt(f.hdr, k - 1)]]
      \o <<[op |-> "hdr", hdr |-> f.hdr]>>

NotClosed == <<[op |-> "flag"], [op |-> "flush"]>>

\* fh_modified: the first change of a session writes the index as it stands,
\* raises the "not closed" flag on the disk and flushes.
MarkModified(f) ==
  IF f.modified THEN <<>> ELSE WriteHdr(f) \o NotClosed

\* First word of the section put after the article of length len to come.
SectionPos(last, len) == PageUp(last.pos + last.len + len - 1) + 1

\* fh_grow_idx: room for one more section.  The article to come, of length
\* len, takes the first new slot and the placeholder of the section the second.
GrowIdx(f, len) ==
  LET pos == SectionPos(f.idx[Nart(f)], len)
      new == [i \in 1 .. Section + 1 |-> IF i = 2 THEN Entry(Sect, pos, 2 * Page) ELSE Free]
  IN  [f EXCEPT !.idx = @ \o new, !.hdr.ioffi = Append(@, 1 + (pos - 1) \div Page)]

\* mutant: the end of every hole is taken to a page
HoleEndPage(e, next) == PageUp(e.pos - 1 + e.len)
\* Last word of the hole left by entry e: up to the next entry, to the end of
\* the page at the end of the file.
HoleEnd(e, next) == IF next.name # Fin THEN next.pos - 1 ELSE PageUp(e.pos - 1 + e.len)

\* mutant: a new hole is not counted
HoleMadeUncounted(hdr, len) == [hdr EXCEPT !.iltal = @ - len]
HoleMade(hdr, len) == [hdr EXCEPT !.iltal = @ - len, !.intru = @ + 1]

\* lfisup_alts once the article is found at rank i: descriptor and writes.
Suppressed(f, i) ==
  LET e      == f.idx[i]
      holed  == [f EXCEPT !.idx[i].name = Trou]
      next   == IF i < Nart(f) THEN f.idx[i + 1] ELSE Free
  IN  [f  |-> [f EXCEPT !.idx[i] = Entry(Trou, e.pos, 1 + HoleEnd(e, next) - e.pos), !.hdr = HoleMade(@, e.len),
                        !.iart = 0, !.modified = TRUE],
       ws |-> MarkModified(holed)]

-----------------------------------------------------------------------------
(* The calls.  A call that writes is described by its result: the          *)
(* descriptor it leaves, the writes it makes and its return code.          *)

Result(f, ws, krep) == [f |-> f, ws |-> ws, krep |-> krep]

\* lfiouv_alts_ext on an existing file: the sections are read one after the
\* other, and placeholders are put before the first entry that lies beyond
\* the sections they stand for.  The slots kept for placeholders that were not
\* put stay as they were allocated.
ReadIndex(d) ==
  LET ents == FlattenSeq(d.sec)
      secs == Len(d.hdr.ioffi)
      put(j) == Cardinality({k \in 1 .. secs : \E i \in 1 .. j : ents[i].pos >= SectionAt(d.hdr, k)})
      from(j) == [k \in 1 .. put(j) - put(j - 1) |-> Entry(Sect, SectionAt(d.hdr, put(j - 1) + k), 2 * Page)]
      read == FlattenSeq([j \in DOMAIN ents |-> Append(from(j), ents[j])])
      full == read \o [j \in 1 .. secs - put(Len(ents)) |-> Entry(Junk, 0, 0)]
      kept == {i \in DOMAIN full : full[i].name # Trou}
      last == IF kept = {} THEN 0 ELSE CHOOSE i \in kept : \A j \in kept : j <= i
  IN  [i \in DOMAIN full |-> IF i > last THEN [full[i] EXCEPT !.name = Fin] ELSE full[i]]

OpenOld(d) ==
  Result([open |-> TRUE, idx |-> ReadIndex(d), hdr |-> d.hdr, iart |-> 0, modified |-> FALSE],
         <<>>, IF d.hdr.ifeam # 0 THEN -11 ELSE 0)

\* lfiouv_alts_ext on a file that does not exist or is empty.
OpenNew ==
  LET f == [open |-> TRUE, idx |-> [i \in 1 .. Section |-> Free], hdr |-> NewHdr, iart |-> 0, modified |-> FALSE]
  IN  Result([f EXCEPT !.modified = TRUE], <<[op |-> "create"]>> \o MarkModified(f), 0)

\* A hole where len words fit.
Fits(e, len) == e.name = Trou /\ e.len >= len

\* The slot lfiecr_alts gives to an article of length len whose former slot,
\* already turned into a hole, is at rank i (0: a new article).  fit is the
\* rank, or 0 when the index is full; idx is the index after the choice.
OwnSlot(idx, i, len) ==
  LET next == IF i < Len(idx) THEN idx[i + 1] ELSE Entry(Sect, 0, 0)
      more == len - idx[i].len
  IN  CASE more <= 0                             -> [fit |-> i, idx |-> idx]
        [] more > 0 /\ Fits(next, more) ->
             [fit |-> i, idx |-> [idx EXCEPT ![i].len = len, ![i + 1].pos = @ + more, ![i + 1].len = @ - more]]
        [] more > 0 /\ next.name = Fin          -> [fit |-> i, idx |-> [idx EXCEPT ![i].len = len]]
        [] OTHER                                 -> [fit |-> 0, idx |-> idx]

\* The smallest hole that is large enough, else the first free slot.
BestHole(idx, len) ==
  LET fins  == {i \in DOMAIN idx : idx[i].name = Fin}
      end   == IF fins = {} THEN Len(idx) + 1 ELSE CHOOSE i \in fins : \A j \in fins : i <= j
      holes == {i \in 1 .. end - 1 : Fits(idx[i], len)}
      best  == {i \in holes : \A j \in holes : idx[i].len <= idx[j].len}
  IN  IF holes # {} THEN CHOOSE i \in best : \A j \in best : i <= j
      ELSE IF end <= Len(idx) THEN end ELSE 0

\* mutant: the article before keeps all words but its last
AppendAtShort(f, x) ==
  IF x > 1 THEN f.idx[x - 1].pos + f.idx[x - 1].len - 1 ELSE f.hdr.inaph * Page + 1
\* First word of the article appended at rank x.
AppendAt(f, x) ==
  IF x > 1 THEN f.idx[x - 1].pos + f.idx[x - 1].len ELSE f.hdr.inaph * Page + 1

\* lfiecr_alts: article n of length len, written by call id.
Write(f, n, len, id) ==
  LET i    == Lookup(f, n)
      sup  == IF i > 0 THEN Suppressed(f, i) ELSE [f |-> f, ws |-> <<>>]
      own  == IF i > 0 THEN OwnSlot(sup.f.idx, i, len) ELSE [fit |-> 0, idx |-> f.idx]
      slot == IF own.fit > 0 THEN own.fit ELSE BestHole(own.idx, len)
      room == [sup.f EXCEPT !.idx = own.idx]
      grow == slot = 0 /\ Len(room.hdr.ioffi) < Extra
      g    == IF grow THEN GrowIdx(room, len) ELSE room
      x    == IF grow THEN Nart(room) + 1 ELSE slot
      append == g.idx[x].name = Fin
      pos  == IF append THEN AppendAt(g, x) ELSE g.idx[x].pos
      size == pos + len - 8
      inaph == size \div Page + (IF size % ((size \div Page) * Page) # 0 THEN 1 ELSE 0)
      hdr  == IF append
              THEN [g.hdr EXCEPT !.iltal = @ + len, !.inalo = @ + 1, !.inaph = inaph]
              ELSE [g.hdr EXCEPT !.iltal = @ + len, !.intru = @ - 1]
  IN  IF len < 0 THEN Result(f, <<>>, -14)
      ELSE IF i = 0 /\ n \notin Names THEN Result(f, <<>>, -15)
      ELSE IF slot = 0 /\ ~grow THEN Result(room, sup.ws, -1)
      ELSE Result([g EXCEPT !.idx[x] = Entry(n, pos, len), !.hdr = hdr, !.iart = x, !.modified = TRUE],
                  sup.ws \o MarkModified(g) \o <<[op |-> "data", at |-> pos, len |-> len, id |-> id]>>, 0)

\* lfisup_alts
Suppress(f, n) ==
  LET i == Lookup(f, n)
  IN  IF i = 0 THEN Result(f, <<>>, -20)
      ELSE Result(Suppressed(f, i).f, Suppressed(f, i).ws, 0)

Taken(f, n) == Lookup(f, n) > 0

\* lfiren_alts
Rename(f, m, n) ==
  LET i == Lookup(f, m)
  IN  IF i = 0 THEN Result(f, <<>>, -20)
      ELSE IF n \notin Names THEN Result(f, <<>>, -15)
      ELSE IF Taken(f, n) THEN Result(f, <<>>, -25)
      ELSE Result([f EXCEPT !.idx[i].name = n, !.modified = TRUE], MarkModified(f), 0)

\* mutant: the header is not written at the end
LastWritesNone(f) == <<>>
\* lfifer_alts: a modified file gets its index and header, with the flag it
\* was opened with; fclose flushes.
LastWrites(f) == IF f.modified THEN WriteHdr(f) ELSE <<>>
Close(f) == Result(Closed, LastWrites(f) \o <<[op |-> "flush"]>>, 0)

-----------------------------------------------------------------------------
(* Actions.                                                                *)

Returned(call, krep, name, len) == [call |-> call, krep |-> krep, name |-> name, len |-> len]
NoReturn == Returned("none", 0, "", 0)

Init ==
  /\ fh = Closed /\ disk = NoFile /\ pend = <<>>
  /\ ret = NoReturn /\ writes = 0 /\ opens = 0 /\ crashes = 0
  /\ inst \in Instances

\* A writing call runs to its end ...
Completes(call, r) ==
  /\ fh' = r.f
  /\ Buffered(r.ws)
  /\ ret' = Returned(call, r.krep, "", 0)
  /\ UNCHANGED crashes

\* ... or the process dies: the disk has kept a prefix of what was to be
\* written since the last flush.
Dies(ws) ==
  /\ crashes < MaxCrashes
  /\ \E k \in 0 .. Len(pend \o ws) : disk' = After(disk, SubSeq(pend \o ws, 1, k))
  /\ fh' = Closed /\ pend' = <<>> /\ ret' = NoReturn
  /\ crashes' = crashes + 1

Runs(call, r) == Completes(call, r) \/ Dies(r.ws)

\* fh_open: what the status asks for against what there is.
OpensAs(st) == IF disk.exists THEN st # "NEW" ELSE st # "OLD"

\* lfiouv_mt64_ and lfiouv_alts_ext.  lfi_grok must know an existing file.
LFIOUV(st) ==
  /\ ~fh.open /\ opens < MaxOpens
  /\ opens' = opens + 1
  /\ UNCHANGED writes
  /\ \/ /\ ~OpensAs(st)
        /\ ret' = Returned("LFIOUV", -9, "", 0)
        /\ UNCHANGED <<fh, disk, pend, crashes>>
     \/ /\ OpensAs(st) /\ disk.exists /\ ~disk.lfi
        /\ ret' = Returned("LFIOUV", -10, "", 0)
        /\ UNCHANGED <<fh, disk, pend, crashes>>
     \/ OpensAs(st) /\ disk.exists /\ disk.lfi /\ Runs("LFIOUV", OpenOld(disk))
     \/ OpensAs(st) /\ ~disk.exists /\ Runs("LFIOUV", OpenNew)

LFIECR(n, len) ==
  /\ fh.open /\ writes < MaxWrites
  /\ writes' = writes + 1
  /\ Runs("LFIECR", Write(fh, n, len, writes + 1))
  /\ UNCHANGED opens

LFISUP(n) == fh.open /\ Runs("LFISUP", Suppress(fh, n)) /\ UNCHANGED <<writes, opens>>

LFIREN(m, n) == fh.open /\ Runs("LFIREN", Rename(fh, m, n)) /\ UNCHANGED <<writes, opens>>

LFIFER == fh.open /\ Runs("LFIFER", Close(fh)) /\ UNCHANGED <<writes, opens>>

\* The reading calls move the current article and nothing else.
Reads(call, krep, name, len, at) ==
  /\ fh' = [fh EXCEPT !.iart = at]
  /\ ret' = Returned(call, krep, name, len)
  /\ UNCHANGED <<disk, pend, writes, opens, crashes>>

LFIPOS == fh.open /\ Reads("LFIPOS", 0, "", 0, 0)

LFINFO(n) ==
  LET i == Lookup(fh, n)
  IN  /\ fh.open
      /\ IF i = 0 THEN Reads("LFINFO", 0, "", 0, fh.iart) ELSE Reads("LFINFO", 0, "", fh.idx[i].len, i)

\* lfilec_alts, with room for len words.
LFILEC(n, len) ==
  LET i == Lookup(fh, n)
  IN  /\ fh.open
      /\ CASE len < 0 -> Reads("LFILEC", -14, "", 0, fh.iart)
           [] len >= 0 /\ i = 0 -> Reads("LFILEC", -20, "", 0, fh.iart)
           [] len >= 0 /\ i > 0 /\ len < fh.idx[i].len -> Reads("LFILEC", -21, "", len, fh.iart)
           [] OTHER -> Reads("LFILEC", 0, "", fh.idx[i].len, i)

\* lfilas_alts and lfilap_alts: i is what seek_rc found, none the code for
\* "no article"; short tells that the caller's name is too short.  The read
\* of an entry at position 0 fails in fseek and aborts.
ReadAt(call, i, none, len, short) ==
  /\ fh.open
  /\ CASE i = 0 -> Reads(call, none, "", 0, fh.iart)
       [] i > 0 /\ fh.idx[i].pos = 0 -> Dies(<<>>) /\ UNCHANGED <<writes, opens>>
       [] i > 0 /\ fh.idx[i].pos > 0 /\ len < fh.idx[i].len -> Reads(call, -21, "", len, fh.iart)
       [] i > 0 /\ fh.idx[i].pos > 0 /\ len >= fh.idx[i].len /\ short -> Reads(call, -24, fh.idx[i].name, fh.idx[i].len, fh.iart)
       [] OTHER -> Reads(call, 0, fh.idx[i].name, fh.idx[i].len, i)

LFILAS(len, short) == ReadAt("LFILAS", SeekNext(fh), -23, len, short)
LFILAP(len, short) == ReadAt("LFILAP", SeekPrev(fh), -26, len, short)

\* lficas_alts and lficap_alts; the second never copies the name.  move is
\* LDAVAN or LDRECU.
Describe(call, i, name, move, short) ==
  /\ fh.open
  /\ CASE i = 0 -> Reads(call, 0, "", 0, fh.iart)
       [] i > 0 /\ short -> Reads(call, -24, name, fh.idx[i].len, fh.iart)
       [] OTHER -> Reads(call, 0, name, fh.idx[i].len, IF move THEN i ELSE fh.iart)

LFICAS(move, short) ==
  LET i == SeekNext(fh) IN Describe("LFICAS", i, IF i = 0 THEN "" ELSE fh.idx[i].name, move, short)
LFICAP(move, short) == Describe("LFICAP", SeekPrev(fh), "", move, short)

Crash == fh.open /\ Dies(<<>>) /\ UNCHANGED <<writes, opens>>

Calls ==
  \/ \E st \in {"NEW", "OLD", "UNKNOWN"} : LFIOUV(st)
  \/ \E n \in CallNames, len \in Lens : LFIECR(n, len)
  \/ \E n \in CallNames : LFISUP(n) \/ LFINFO(n)
  \/ \E m, n \in CallNames : LFIREN(m, n)
  \/ \E n \in CallNames, len \in Lens : LFILEC(n, len)
  \/ \E len \in Lens, short \in BOOLEAN : LFILAS(len, short) \/ LFILAP(len, short)
  \/ \E move, short \in BOOLEAN : LFICAS(move, short) \/ LFICAP(move, short)
  \/ LFIPOS \/ LFIFER \/ Crash

Next == Calls /\ UNCHANGED inst

Spec == Init /\ [][Next]_vars

-----------------------------------------------------------------------------
(* Properties.                                                             *)

DataRanks(idx) == {i \in DOMAIN idx : IsData(idx[i])}
Total(idx) == FoldLeft(LAMBDA acc, e : IF IsData(e) THEN acc + e.len ELSE acc, 0, idx)

\* The index keeps the size its header announces, every rank is in it, and
\* lengths are never negative: a hole cut too short would show here.
TypeOK ==
  /\ disk.exists \in BOOLEAN /\ disk.lfi \in BOOLEAN
  /\ writes \in 0 .. MaxWrites /\ opens \in 0 .. MaxOpens /\ crashes \in 0 .. MaxCrashes
  /\ fh.open => /\ Nart(fh) = Section * (Len(fh.hdr.ioffi) + 1) + Len(fh.hdr.ioffi)
                /\ fh.iart \in 0 .. Nart(fh)
                /\ \A i \in 1 .. Nart(fh) : fh.idx[i].pos \in Nat /\ fh.idx[i].len \in Nat
                /\ Len(fh.hdr.ioffi) <= Extra

\* First and last word of article or hole i, and of extra index section k.
Extent(i) == <<fh.idx[i].pos, fh.idx[i].pos + fh.idx[i].len - 1>>
SectionExtent(k) == <<SectionAt(fh.hdr, k), SectionAt(fh.hdr, k) + 2 * Page - 1>>
Allocated == {i \in DOMAIN fh.idx : fh.idx[i].name \notin {Fin, Sect, Junk}}
Apart(a, b) == a[2] < b[1] \/ b[2] < a[1]

\* No article, hole or extra index section shares a word with another or with
\* the header pages (fh_grow_idx, lfiecr_alts): the index is never written
\* over the data, nor data over the index; and no two articles have one name,
\* so that the search around the current article (lookup_rc) finds the one the
\* full search would find.
Disjoint ==
  fh.open =>
    /\ \A i \in Allocated :
         /\ fh.idx[i].pos >= FirstWord
         /\ \A j \in Allocated \ {i} : Apart(Extent(i), Extent(j))
         /\ \A k \in DOMAIN fh.hdr.ioffi : Apart(Extent(i), SectionExtent(k))
    /\ \A k \in DOMAIN fh.hdr.ioffi :
         /\ SectionAt(fh.hdr, k) >= FirstWord
         /\ \A l \in DOMAIN fh.hdr.ioffi \ {k} : Apart(SectionExtent(k), SectionExtent(l))
    /\ \A i, j \in DataRanks(fh.idx) : fh.idx[i].name = fh.idx[j].name => i = j

\* From any current article, the next one of LFILAS and LFICAS (seek_rc) is
\* the first article after it, so that a walk meets each of them once.
NextArticle ==
  fh.open => \A i \in 0 .. Nart(fh) :
    LET later == {j \in DataRanks(fh.idx) : j > i}
    IN  SeekNext([fh EXCEPT !.iart = i]) = IF later = {} THEN 0 ELSE CHOOSE j \in later : \A k \in later : j <= k

\* inalo less intru, which LFIOUV gives as the number of articles, is the
\* number of articles of the index and iltal their total length, through
\* suppressions, rewrites, growth of the index and reopening; and a walk
\* through the file meets that many.  (A process
\* killed in its first suppression may leave an unflagged file whose counters
\* are wrong.)
Counters ==
  /\ NextArticle
  /\ fh.open /\ crashes = 0 =>
    /\ fh.hdr.inalo - fh.hdr.intru = Cardinality(DataRanks(fh.idx))
    /\ fh.hdr.iltal = Total(fh.idx)

\* The same backwards, for LFILAP and LFICAP; from the start of the file the
\* previous article is the last.
PreviousArticle ==
  fh.open => \A i \in 0 .. Nart(fh) :
    LET before == {j \in DataRanks(fh.idx) : i = 0 \/ j < i}
    IN  SeekPrev([fh EXCEPT !.iart = i]) = IF before = {} THEN 0 ELSE CHOOSE j \in before : \A k \in before : j >= k

\* intru counts the holes of the index (struct lfi_alts_fh_hdr_t).
HoleCount == fh.open => fh.hdr.intru = Cardinality({i \in 1 .. Nart(fh) : fh.idx[i].name = Trou})

\* inaph is the number of physical articles up to the last article of the
\* file (struct lfi_alts_fh_hdr_t), once one has been written.
PhysicalCount ==
  fh.open /\ ret.call = "LFIECR" /\ ret.krep = 0 =>
    LET ends == {fh.idx[i].pos + fh.idx[i].len - 1 : i \in DataRanks(fh.idx)}
    IN  \A w \in ends : fh.hdr.inaph * Page >= w

\* A file is only ever damaged by the death of a process: whatever the calls
\* made before LFIFER, the file it leaves is not flagged.
IsSound(f, d) == IF f.open THEN f.hdr.ifeam = 0 ELSE d.exists => d.lfi /\ d.hdr.ifeam = 0
Sound == IsSound(fh, disk)
DamageOnlyByDeath == [][Sound /\ ~Sound' => crashes' > crashes]_vars

\* What a search for article n and a read would give now: its length and the
\* calls that wrote its words, from the index of the open file or, when it is
\* closed, from the one LFIOUV would build.
Nothing == <<>>
View(idx, word, n) ==
  LET i == CHOOSE j \in DOMAIN idx : idx[j].name = n
      at(w) == IF w \in DOMAIN word THEN word[w] ELSE 0
  IN  IF \E j \in DOMAIN idx : idx[j].name = n
      THEN <<idx[i].len, {at(w) : w \in idx[i].pos .. idx[i].pos + idx[i].len - 1}>>
      ELSE Nothing

Table(f, d, q) ==
  LET idx == IF f.open THEN f.idx ELSE IF d.lfi THEN ReadIndex(d) ELSE <<>>
      word == After(d, q).word
  IN  [n \in Names |-> IF IsSound(f, d) THEN View(idx, word, n) ELSE Nothing]
=============================================================================
