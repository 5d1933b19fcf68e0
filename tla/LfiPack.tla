------------------------------- MODULE LfiPack -------------------------------
(* Packing a multi-file into one native file (lfi_alts_pack), which may be a
   pipe: nothing is sought, so index and header are computed before a word is
   written.  The same code, writing nothing, announces the size of the file
   (lfi_alts_size_).  Both are run here, one after the other. *)
EXTENDS Integers, Sequences, SequencesExt, FiniteSetsExt

CONSTANTS
  Unit,        \* words of a physical article of factor 1 (512)
  MinFactor,   \* smallest factor used (6)
  Lens,        \* lengths of articles
  MaxArticles  \* articles of the multi-file

PackAssumption == Unit \in Nat \ {0} /\ Unit % 2 = 0 /\ MinFactor \in Nat \ {0} /\ MaxArticles \in Nat

Long == 2147483647     \* MAXLONG
Pad  == 0              \* a word of padding
Own  == -1             \* a word of the header or of the index

VARIABLES
  arts,       \* the lengths of the articles of the multi-file, known by their rank
  kind,       \* "record": count only, "stream": write
  page,       \* words of a physical article of the target
  idx,        \* index of the target
  hdr,        \* header of the target
  iart,       \* articles written
  offset,     \* words written
  out,        \* the target: what each word is part of
  announced,  \* what lfi_alts_size_ has returned
  pc

vars == <<arts, kind, page, idx, hdr, iart, offset, out, announced, pc>>

NewHeader == [inaph |-> 0, inalo |-> 0, iltal |-> 0, ilnal |-> Long, ilxal |-> 0]

Init ==
  /\ \E n \in 0..MaxArticles : arts \in [1..n -> Lens]
  /\ kind = "record" /\ announced = -1 /\ pc = "open"
  /\ page = 0 /\ idx = <<>> /\ offset = 0 /\ out = <<>> /\ iart = 0 /\ hdr = NewHeader
-----------------------------------------------------------------------------
INALDO == Len(arts)
Total(lens) == FoldLeft(+, 0, lens)
UpTo(n, m) == ((n + m - 1) \div m) * m

\* mutant: the division rounds down
FactorBelow == Max({(2 * INALDO) \div Unit, MinFactor})
\* Names take two words: the factor makes one section hold all the articles.
Factor == Max({UpTo(2 * INALDO, Unit) \div Unit, MinFactor})

\* LFIOUV on both, LFINAF and LFIFMD; the index of a new file has one section.
Open ==
  /\ pc = "open"
  /\ page' = Unit * Factor
  /\ pc' = "index"
  /\ UNCHANGED <<arts, kind, idx, hdr, iart, offset, out, announced>>

\* mutant: positions count from zero
FirstPosOfWords == 3 * page
FirstPos == 1 + 3 * page

\* LFICAS gives the articles in the order of the multi-file's index.
Index ==
  /\ pc = "index" /\ Len(idx) < INALDO
  /\ LET n == Len(idx) + 1
     IN  /\ idx' = Append(idx, [name |-> n, len |-> arts[n],
                                pos |-> IF n = 1 THEN FirstPos ELSE Last(idx).pos + Last(idx).len])
         /\ hdr' = [hdr EXCEPT !.ilnal = Min({@, arts[n]}), !.ilxal = Max({@, arts[n]})]
  /\ UNCHANGED <<arts, kind, page, iart, offset, out, announced, pc>>

\* fh_write: a pipe, or a count, cannot be sought.
Write(at, words, next) ==
  IF offset # at
    THEN pc' = "aborted" /\ UNCHANGED <<offset, out>>
    ELSE /\ pc' = next
         /\ offset' = offset + Len(words)
         /\ out' = IF kind = "stream" THEN out \o words ELSE out

Pages == UpTo(Total(arts) + 3 * page, page) \div page

\* fh_write_hdr: header and section, three pages.
Header ==
  /\ pc = "index" /\ Len(idx) = INALDO
  /\ hdr' = [hdr EXCEPT !.inaph = Pages, !.inalo = INALDO, !.iltal = Total(arts)]
  /\ Write(0, [w \in 1..(3 * page) |-> Own], "articles")
  /\ UNCHANGED <<arts, kind, page, idx, iart, announced>>

Article ==
  /\ pc = "articles" /\ iart < INALDO
  /\ LET e == idx[iart + 1]
     IN  Write(e.pos - 1, [w \in 1..e.len |-> e.name], "articles")
  /\ iart' = iart + 1
  /\ UNCHANGED <<arts, kind, page, idx, hdr, announced>>

\* fh_write_pad
Missing == UpTo(offset, page) - offset

PadFile ==
  /\ pc = "articles" /\ iart = INALDO
  /\ Write(offset, [w \in 1..Missing |-> Pad], "close")
  /\ UNCHANGED <<arts, kind, page, idx, iart, hdr, announced>>

\* The size is known and the file can be sent: the program packs it.
Close ==
  /\ pc = "close"
  /\ IF kind = "record"
       THEN /\ announced' = offset /\ kind' = "stream" /\ pc' = "open"
            /\ page' = 0 /\ idx' = <<>> /\ offset' = 0 /\ out' = <<>> /\ iart' = 0
            /\ hdr' = NewHeader /\ UNCHANGED arts
       ELSE pc' = "done" /\ UNCHANGED <<arts, kind, page, idx, iart, hdr, offset, out, announced>>

Next == Open \/ Index \/ Header \/ Article \/ PadFile \/ Close

Spec == Init /\ [][Next]_vars
-----------------------------------------------------------------------------
\* The articles a reader finds in the file: those of its one section.
OnDisk == SubSeq(idx, 1, Min({Len(idx), page \div 2}))

\* The packed file has all the articles, each whole and where its index says,
\* in the one index section it has; every write is where the file stands, as
\* neither a pipe nor the count can be sought (fh_write, fh_seek).
PackedIsWhole ==
  /\ pc # "aborted"
  /\ pc = "done" =>
       /\ Len(OnDisk) = INALDO
       /\ \A n \in 1..INALDO :
            SubSeq(out, OnDisk[n].pos, OnDisk[n].pos + OnDisk[n].len - 1) = [w \in 1..arts[n] |-> n]

\* The size announced before is that of the file, whole physical articles, and
\* the header, written first, counts what is written after it.
SizeAnnounced ==
  pc = "done" =>
    /\ announced = Len(out) /\ Len(out) % page = 0
    /\ hdr.inaph * page = Len(out)
    /\ hdr.iltal = Cardinality({w \in 1..Len(out) : out[w] \notin {Own, Pad}})
    /\ \A n \in 1..INALDO : hdr.ilnal <= arts[n] /\ arts[n] <= hdr.ilxal
=============================================================================
