------------------------------ MODULE LfiMulti ------------------------------
(***************************************************************************)
(* Multi-file LFI (lfi_alt/lfi_altm.c): a main file that only holds an     *)
(* index, and numbered sub-files, native LFI files of LfiFile, that hold   *)
(* the articles.  A session never writes into a sub-file of an earlier     *)
(* one, so that copies and merges can be made of hard links; sub-files no  *)
(* article is left in are unlinked when the index is written.              *)
(*                                                                         *)
(* Files are inodes under paths.  <<m, 0>> is the main file of m, <<m, i>> *)
(* its sub-file of number i - 1.                                           *)
(***************************************************************************)
EXTENDS Integers, Sequences, SequencesExt, FiniteSets, Functions

CONSTANTS Names,      \* article names
          Lens,       \* lengths of articles
          Mains,      \* main files
          Naming,     \* how programs name main files: "here", "absolute", "subdir"
          Relative,   \* TRUE if the tools are asked for relative names
          Instances   \* what may be done to them, and bounds

ASSUME InstancesAssumption ==
  /\ Lens \subseteq Int /\ Naming \in {"here", "absolute", "subdir"} /\ Relative \in BOOLEAN
  /\ \A i \in Instances :
       /\ i.Opened \cup i.Natives \cup i.Targets \subseteq Mains /\ i.Tools \subseteq {"copy", "merge", "index", "remove"}
       /\ {i.MaxArtAls, i.MaxWrites, i.MaxRenames, i.MaxOpens, i.MaxTools, i.MaxCrashes} \subseteq Nat

Blank == "blank_index"

\* An article has a name of its own.
NamesAssumption == Blank \notin Names /\ IsFiniteSet(Names) /\ IsFiniteSet(Mains)
ASSUME NamesAssumption

VARIABLES fh,    \* descriptor of the open unit, or Closed
          fs,    \* inode of each path
          ino,   \* contents of the inodes
          ret,   \* outcome of the last call: of the tools and LFISUP in full, of
         \* the others only whether the program aborted
          count, \* calls made of each bounded kind
          inst   \* the member of Instances this behaviour is in

vars == <<fh, fs, ino, ret, count, inst>>

Opened     == inst.Opened      \* main files programs open
Natives    == inst.Natives     \* main files that may start as native LFI files
Targets    == inst.Targets     \* those the tools may make
Tools      == inst.Tools       \* tools that may be run
MaxArtAls  == inst.MaxArtAls   \* articles in a sub-file before another is begun
MaxWrites  == inst.MaxWrites   \* bounds
MaxRenames == inst.MaxRenames
MaxOpens   == inst.MaxOpens
MaxTools   == inst.MaxTools
MaxCrashes == inst.MaxCrashes

-----------------------------------------------------------------------------
(* Files.                                                                  *)

Nothing == <<>>
Main(m) == <<m, 0>>
NoArticles == [n \in Names |-> Nothing]
\* A native file: its articles, index entries in use, and whether it was closed.
Native(art, slots, clean) == [kind |-> "PURE", art |-> art, slots |-> slots, clean |-> clean]
\* A main file: names of the sub-files and entries of the articles.
Index(files, arts) == [kind |-> "ALTM", files |-> files, arts |-> arts]
Torn == [kind |-> "UNKN"]

Closed == [open |-> FALSE]
Entry(name, namf, ifh) == [name |-> name, namf |-> namf, ifh |-> ifh]
BlankEntry == Entry(Blank, Blank, 0)
\* A sub-file of an open unit: at is the inode once it is open, 0 before.
SubFile(path, form, at) == [path |-> path, form |-> form, at |-> at, dead |-> FALSE]

\* What a process has: its descriptor, the files, and whether it goes on.
State(f, s, n) == [f |-> f, fs |-> s, ino |-> n, ok |-> TRUE]
Here == State(fh, fs, ino)
Abort(r) == [r EXCEPT !.ok = FALSE]

\* lfi_grok
Grok(m) == IF Main(m) \in DOMAIN fs THEN ino[fs[Main(m)]].kind ELSE "NONE"

\* The name of a sub-file is what getfname makes of the name of the main file
\* (GivenForm) or relative to its directory (RelativeForm).  resolve_filename
\* takes any name that is not absolute as relative to that directory; unlink
\* takes it as relative to the working directory.
GivenForm == IF Naming = "subdir" THEN "cwd" ELSE "any"
RelativeForm == IF Naming = "here" THEN "any" ELSE "rel"
ToolForm == IF Relative THEN RelativeForm ELSE GivenForm
Resolves(form) == form # "cwd"
Unlinks(form) == form # "rel"

\* The elements of a set of numbers in their order.
RankIn(S, k) == Cardinality({j \in S : j <= k})
Ordered(S) == [i \in 1 .. Cardinality(S) |-> CHOOSE k \in S : RankIn(S, k) = i]

\* getfname: the first number that is free in the directory of m; called n
\* times, the first n of them.
NewPaths(s, m, n) ==
  LET free == {i \in 1 .. Cardinality(DOMAIN s) + n : <<m, i>> \notin DOMAIN s}
  IN  [i \in 1 .. n |-> <<m, Ordered(free)[i]>>]
NewPath(s, m) == NewPaths(s, m, 1)[1]

Put(s, p, k) == [q \in DOMAIN s \cup {p} |-> IF q = p THEN k ELSE s[q]]
Drop(s, P) == Restrict(s, DOMAIN s \ P)

-----------------------------------------------------------------------------
(* Helpers of the handlers.                                                *)

\* lookup_rc: rank of the article, 0 when there is none.
Lookup(f, n) ==
  LET near == {i \in {f.iart - 1, f.iart} : f.iart > 0 /\ i \in DOMAIN f.arts /\ f.arts[i].name = n}
      all  == {i \in DOMAIN f.arts : f.arts[i].name = n}
      cand == IF near # {} THEN near ELSE all
  IN  IF cand = {} THEN 0 ELSE CHOOSE i \in cand : \A j \in cand : i <= j

\* seek_rc
Seek(f, forwards) ==
  LET used == {i \in DOMAIN f.arts : f.arts[i].name # Blank}
      next == {i \in used : i > f.iart}
      prev == {i \in used : f.iart = 0 \/ i < f.iart}
  IN  IF forwards THEN IF next = {} THEN 0 ELSE CHOOSE i \in next : \A j \in next : i <= j
      ELSE IF prev = {} THEN 0 ELSE CHOOSE i \in prev : \A j \in prev : j <= i

\* mutant: the search stops at the first sub-file without articles
UsedToHole(f) ==
  {k \in DOMAIN f.files : \E i \in DOMAIN f.arts : (\A j \in 1 .. i : f.arts[j].name # Blank) /\ f.arts[i].ifh = k}
\* Sub-files that still have an article, by rank in the header to be written.
Used(f) == {k \in DOMAIN f.files : \E i \in DOMAIN f.arts : f.arts[i].name # Blank /\ f.arts[i].ifh = k}
\* mutant: a sub-file of one article is unlinked too
LostIfOne(f) ==
  {k \in DOMAIN f.files : f.unlink /\ Cardinality({i \in DOMAIN f.arts : f.arts[i].name # Blank /\ f.arts[i].ifh = k}) <= 1}
\* mutant: only sub-files that were opened are unlinked
LostIfOpen(f) == {k \in DOMAIN f.files \ Used(f) : f.unlink /\ ~f.files[k].dead /\ f.files[k].at > 0}
\* Those that have none and are to be unlinked.
Lost(f) == {k \in DOMAIN f.files \ Used(f) : f.unlink /\ ~f.files[k].dead}

\* The index that is written: the sub-files that have articles and the entries
\* in use, each in their order.
Live(f) == {i \in DOMAIN f.arts : f.arts[i].name # Blank}
HdrIndex(f) ==
  LET ranks == Ordered(Used(f))
      kept  == Ordered(Live(f))
  IN  Index([i \in DOMAIN ranks |-> [path |-> f.files[ranks[i]].path, form |-> f.files[ranks[i]].form]],
            [i \in DOMAIN kept |-> [f.arts[kept[i]] EXCEPT !.ifh = RankIn(Used(f), @)]])

\* Those that cannot be unlinked, and the paths of those that are before.
Stuck(r) == {k \in Lost(r.f) : ~Unlinks(r.f.files[k].form) \/ r.f.files[k].path \notin DOMAIN r.fs}
Unlinked(r) == {r.f.files[k].path : k \in {j \in Lost(r.f) : \A i \in Stuck(r) : j < i}}

\* fh_write_hdr: the sub-files that have no articles are unlinked, every
\* article must be in one that is listed; the main file is written anew in its inode.
WriteHdr(r) ==
  LET f     == r.f
      isnew == Main(f.m) \notin DOMAIN r.fs
      at    == IF isnew THEN Len(r.ino) + 1 ELSE r.fs[Main(f.m)]
      put(c) == IF isnew THEN Append(r.ino, c) ELSE [r.ino EXCEPT ![at] = c]
      s     == Drop(Put(r.fs, Main(f.m), at), Unlinked(r))
  IN  IF Stuck(r) # {} \/ \E i \in Live(f) : f.arts[i].ifh \notin Used(f) THEN Abort([r EXCEPT !.fs = s, !.ino = put(Torn)])
      ELSE [r EXCEPT !.fs = s, !.ino = put(HdrIndex(f)),
                     !.f.files = [k \in DOMAIN @ |-> IF k \in Lost(f) THEN [@[k] EXCEPT !.dead = TRUE] ELSE @[k]]]

\* fh_modified: the header is written at the first change of a session.
Modified(r) == IF r.f.modified THEN r ELSE WriteHdr([r EXCEPT !.f.modified = TRUE])

\* mutant: a rewritten article goes to the sub-file it is in, shared or not
WritesToAlways(r, anew) == r.f.w > 0
\* getfhw: the sub-file of this session, a new one if there is none or anew.
WritesTo(r, anew) == ~anew /\ r.f.w > 0
NewSubFile(r, p, k) ==
  [r EXCEPT !.f.files = Append(@, SubFile(p, GivenForm, k)), !.f.w = Len(r.f.files) + 1,
            !.fs = Put(@, p, k), !.ino = Append(@, Native(NoArticles, 0, FALSE))]
GetW(r, anew) == IF WritesTo(r, anew) THEN r ELSE NewSubFile(r, NewPath(r.fs, r.f.m), Len(r.ino) + 1)

\* getfhr: sub-file k is opened when it is first needed; a file that is not
\* there or was not closed cannot be.
Opens(r, file) ==
  /\ Resolves(file.form)
  /\ file.path \in DOMAIN r.fs
  /\ r.ino[r.fs[file.path]].kind = "PURE"
  /\ r.ino[r.fs[file.path]].clean
GetR(r, k) ==
  IF r.f.files[k].at > 0 THEN r
  ELSE IF Opens(r, r.f.files[k]) THEN [r EXCEPT !.f.files[k].at = r.fs[r.f.files[k].path]]
  ELSE Abort(r)

\* An article of a sub-file that is open.
Stored(r, k, n) == r.ino[r.f.files[k].at].art[n]

-----------------------------------------------------------------------------
(* The calls: the state each leaves and its return code and length.        *)

Result(r, krep, len) == [r |-> r, krep |-> krep, len |-> len]

\* fh_new
New(m, files, arts) ==
  [open |-> TRUE, m |-> m, files |-> files, arts |-> arts, iart |-> 0, w |-> 0, modified |-> FALSE, unlink |-> TRUE]

\* lfiouv_mult: the index of a main file.
Read(m) ==
  LET x == ino[fs[Main(m)]]
  IN  New(m, [k \in DOMAIN x.files |-> SubFile(x.files[k].path, x.files[k].form, 0)], x.arts)

\* Entries of a native file, in the order of its own index.
Listed(file, k) ==
  LET names == SetToSeq({n \in Names : file.art[n] # Nothing})
  IN  [i \in DOMAIN names |-> Entry(names[i], names[i], k)]

\* lfiouv_altm on a native file: it becomes the first sub-file, then
\* lfiouv_pure_lfi makes the index.
OpenPure(m) ==
  LET p == NewPath(fs, m)
      s == Put(Drop(fs, {Main(m)}), p, fs[Main(m)])
      r == GetR(State(New(m, <<SubFile(p, GivenForm, 0)>>, <<>>), s, ino), 1)
  IN  IF r.ok THEN Modified([r EXCEPT !.f.arts = Listed(ino[fs[Main(m)]], 1)]) ELSE r

\* lfiouv_altm
Open(m) ==
  CASE Grok(m) = "PURE" -> Result(OpenPure(m), 0, 0)
    [] Grok(m) = "ALTM" -> Result(State(Read(m), fs, ino), 0, 0)
    [] Grok(m) = "NONE" -> Result(Modified(State(New(m, <<>>, <<>>), fs, ino)), 0, 0)
    [] Grok(m) = "UNKN" -> Result(Abort(Here), 0, 0)

\* lfiecr_altm: the rank of a new article, the index growing if it is full.
Slot(f, n) ==
  LET blanks == {i \in DOMAIN f.arts : f.arts[i].name = Blank}
  IN  IF Lookup(f, n) > 0 THEN Lookup(f, n)
      ELSE IF blanks = {} THEN Len(f.arts) + 1 ELSE CHOOSE i \in blanks : \A j \in blanks : i <= j
Grown(arts, i) == IF i <= Len(arts) THEN arts ELSE arts \o [j \in 1 .. Len(arts) + 1 |-> BlankEntry]

\* The article of that name the sub-file has, if any, is the one rewritten.
SameArticle(e, n) == e.name = n /\ e.namf = n

\* The sub-file article n goes to: another one if it has an article of that
\* name which is not this one, or is full.
Enters(r, i, n) ==
  LET r1 == GetW(r, FALSE)
      r2 == IF Stored(r1, r1.f.w, n) # Nothing /\ ~SameArticle(r.f.arts[i], n) THEN GetW(r1, TRUE) ELSE r1
  IN  IF r2.ino[r2.f.files[r2.f.w].at].slots > MaxArtAls THEN GetW(r2, TRUE) ELSE r2

\* It is written there.  rewritten tells whether lfiecr_alts took a new slot
\* for it, as it must when it has no hole.
StoreIn(r, i, n, v, rewritten) ==
  LET at   == r.f.files[r.f.w].at
      full == r.ino[at].slots = Cardinality({x \in Names : r.ino[at].art[x] # Nothing})
      more == IF rewritten \/ (full /\ r.ino[at].art[n] = Nothing) THEN 1 ELSE 0
  IN  [r EXCEPT !.ino[at].art[n] = v, !.ino[at].slots = @ + more, !.f.iart = i]

\* lfiecr_altm, article n of length len written by call id.
Write(n, len, id, rewritten) ==
  LET i  == Slot(fh, n)
      r  == Enters([Here EXCEPT !.f.arts = Grown(@, i)], i, n)
      r2 == [r EXCEPT !.f.arts[i] = Entry(n, n, r.f.w)]
  IN  IF len < 0 THEN Result(r2, -14, 0) ELSE Result(Modified(StoreIn(r2, i, n, <<len, id>>, rewritten)), 0, 0)

\* lfisup_altm: the length returned is looked up under the name of the entry
\* whose rank is the number of the sub-file.
NameForLength(f, i) ==
  LET k == f.arts[i].ifh IN IF k \in DOMAIN f.arts THEN {f.arts[k].namf} ELSE Names \cup {Blank}
Length(r, k, n) == IF n = Blank THEN 0 ELSE IF Stored(r, k, n) = Nothing THEN 0 ELSE Stored(r, k, n)[1]
Suppress(n) ==
  LET i == Lookup(fh, n)
      r == GetR(Here, fh.arts[i].ifh)
  IN  IF i = 0 THEN {Result(Here, -20, 0)}
      ELSE IF ~r.ok THEN {Result(r, 0, 0)}
      ELSE {Result(Modified([r EXCEPT !.f.arts[i].name = Blank, !.f.arts[i].namf = Blank]), 0,
                   Length(r, fh.arts[i].ifh, x)) : x \in NameForLength(fh, i)}

Taken(f, n) == Lookup(f, n) > 0

\* lfiren_altm: only the index of the main file changes.
Rename(m, n) ==
  IF Lookup(fh, m) = 0 THEN Result(Here, -20, 0)
  ELSE IF Taken(fh, n) THEN Result(Here, -25, 0)
  ELSE LET r == Modified(Here)
       IN  Result(IF r.ok THEN [r EXCEPT !.f.arts[Lookup(fh, m)].name = n] ELSE r, 0, 0)

\* lfifer_altm: the header, then every sub-file that is open.
Saved(r) == IF r.f.modified THEN WriteHdr(r) ELSE r
Close ==
  LET r == Saved(Here)
      mine == {r.f.files[k].at : k \in {j \in DOMAIN r.f.files : r.f.files[j].at > 0}}
  IN  IF ~r.ok THEN Result(r, 0, 0)
      ELSE Result([r EXCEPT !.f = Closed,
                            !.ino = [k \in DOMAIN @ |-> IF k \in mine THEN [@[k] EXCEPT !.clean = TRUE] ELSE @[k]]], 0, 0)

-----------------------------------------------------------------------------
(* Tools: lfi_altm_copy_, lfi_altm_merge_, lfi_altm_index_, lfi_altm_remove_ *)

\* Link each of the files in turn under a new number of m, up to the first
\* that cannot be.
Linked(s, files) == {i \in DOMAIN files : \A j \in 1 .. i : Resolves(files[j].form) /\ files[j].path \in DOMAIN s}
Links(s, files, new) ==
  LET of(p) == CHOOSE i \in DOMAIN new : new[i] = p
  IN  [p \in DOMAIN s \cup Range(new) |-> IF p \in DOMAIN s THEN s[p] ELSE s[files[of(p)].path]]
LinkedTo(s, m, files) ==
  LET new == NewPaths(s, m, Cardinality(Linked(s, files)))
  IN  [fs |-> Links(s, files, new), files |-> [i \in DOMAIN new |-> SubFile(new[i], ToolForm, 0)],
       ok |-> Linked(s, files) = DOMAIN files]

\* lfi_altm_copy_: a native file is linked; a main file gets links to the
\* sub-files and an index of its own.
Copy(m, t) ==
  IF Grok(m) = "PURE" THEN State(Closed, Put(fs, Main(t), fs[Main(m)]), ino)
  ELSE LET src == Read(m)
           l   == LinkedTo(fs, t, src.files)
           r   == WriteHdr(State([src EXCEPT !.m = t, !.files = l.files], l.fs, ino))
       IN  IF l.ok THEN r ELSE Abort(State(Closed, IF Unlinks(ToolForm) THEN fs ELSE l.fs, ino))

\* Sub-files and entries a source brings to an index (lfiouv_mixed_lfi); off
\* is the number of sub-files before it.
FilesOf(m) == IF Grok(m) = "PURE" THEN <<SubFile(Main(m), "any", 0)>> ELSE Read(m).files
EntriesOf(m, off) ==
  IF Grok(m) = "PURE" THEN Listed(ino[fs[Main(m)]], off + 1)
  ELSE [i \in DOMAIN Read(m).arts |-> [Read(m).arts[i] EXCEPT !.ifh = @ + off]]

\* mutant: the last entry of a name stays
LaterLast(arts, i) == \E j \in DOMAIN arts : j > i /\ arts[j].name = arts[i].name
\* remove_duplicates: of the entries with one name, the first stays.
Later(arts, i) == \E j \in DOMAIN arts : j < i /\ arts[j].name = arts[i].name
Unique(arts) == [i \in DOMAIN arts |-> IF Later(arts, i) THEN [arts[i] EXCEPT !.name = Blank] ELSE arts[i]]

\* lfiouv_mixed_lfi and lfifer: an index of two files, on links to their
\* sub-files for a merge.  The "dead" mark of a sub-file of a main file is not
\* set; deadset is what the memory held.
Combine(m1, m2, t, link, deadset) ==
  LET files == FilesOf(m1) \o FilesOf(m2)
      l     == IF link THEN LinkedTo(fs, t, files)
               ELSE [fs |-> fs, files |-> [k \in DOMAIN files |-> [files[k] EXCEPT !.form = ToolForm]], ok |-> TRUE]
      arts  == Unique(EntriesOf(m1, 0) \o EntriesOf(m2, Len(FilesOf(m1))))
      pures == (IF Grok(m1) = "PURE" THEN {1} ELSE {}) \cup (IF Grok(m2) = "PURE" THEN {Len(FilesOf(m1)) + 1} ELSE {})
      dead  == [k \in DOMAIN l.files |-> [l.files[k] EXCEPT !.dead = k \in deadset \ pures]]
  IN  IF ~l.ok THEN Abort(State(Closed, l.fs, ino))
      ELSE WriteHdr(State([New(t, dead, arts) EXCEPT !.unlink = link], l.fs, ino))

\* lfi_altm_remove_
RemoveFiles(m) ==
  IF Grok(m) = "PURE" THEN State(Closed, Drop(fs, {Main(m)}), ino)
  ELSE LET files == Range(Read(m).files)
       IN  IF \A x \in files : Resolves(x.form) /\ x.path \in DOMAIN fs
           THEN State(Closed, Drop(fs, {x.path : x \in files} \cup {Main(m)}), ino)
           ELSE Abort(Here)

-----------------------------------------------------------------------------
(* Actions.                                                                *)

Returned(call, krep, len, aborts) == [call |-> call, krep |-> krep, len |-> len, aborts |-> aborts]
NoReturn == Returned(<<>>, 0, 0, FALSE)

Init ==
  /\ fh = Closed /\ inst \in Instances
  /\ \E P \in SUBSET Natives :
       LET list == SetToSeq(P)
       IN  /\ fs = [p \in {Main(m) : m \in P} |-> CHOOSE k \in DOMAIN list : Main(list[k]) = p]
           /\ ino \in [DOMAIN list -> {Native([n \in Names |-> IF n \in S THEN <<1, 0>> ELSE Nothing], Cardinality(S), TRUE) : S \in SUBSET Names \ {{}}}]
  /\ ret = NoReturn
  /\ count = [x \in {"writes", "renames", "opens", "tools", "crashes"} |-> 0]

Counts(x, bound) == count[x] < bound /\ count' = [count EXCEPT ![x] = @ + 1]

\* A call returns, or the program aborts in it.
Becomes(call, res) ==
  /\ fh' = IF res.r.ok THEN res.r.f ELSE Closed
  /\ fs' = res.r.fs
  /\ ino' = res.r.ino
  /\ ret' = IF call = <<>> THEN Returned(<<>>, 0, 0, ~res.r.ok) ELSE Returned(call, res.krep, res.len, ~res.r.ok)

LFIOUV(m) == ~fh.open /\ Counts("opens", MaxOpens) /\ Becomes(<<>>, Open(m))

LFIECR(n, len) ==
  /\ fh.open /\ Counts("writes", MaxWrites)
  /\ \E rewritten \in BOOLEAN : Becomes(<<>>, Write(n, len, count.writes + 1, rewritten))

LFISUP(n) == fh.open /\ UNCHANGED count /\ \E res \in Suppress(n) : Becomes(<<"LFISUP", n>>, res)

LFIREN(m, n) == fh.open /\ Counts("renames", MaxRenames) /\ Becomes(<<>>, Rename(m, n))

LFIFER == fh.open /\ UNCHANGED count /\ Becomes(<<>>, Close)

LFIPOS == fh.open /\ UNCHANGED count /\ Becomes(<<>>, Result([Here EXCEPT !.f.iart = 0], 0, 0))

\* A reading call opens the sub-file of the article it has found, at rank i,
\* and moves to it; none is its return code when there is no article.  It
\* aborts when the article is not in the sub-file ("asks"), or also when its
\* length is zero ("info"), or returns -20 ("reads").
Reads(i, none, move, how) ==
  /\ fh.open /\ UNCHANGED count
  /\ IF i = 0 THEN Becomes(<<>>, Result(Here, none, 0))
     ELSE LET k == fh.arts[i].ifh
              r == GetR(Here, k)
              len == Length(r, k, fh.arts[i].namf)
              missing == Stored(r, k, fh.arts[i].namf) = Nothing
              res == IF ~r.ok THEN Result(r, 0, 0)
                     ELSE IF missing /\ how = "reads" THEN Result(r, -20, 0)
                     ELSE IF missing \/ (len = 0 /\ how = "info") THEN Result(Abort(r), 0, 0)
                     ELSE Result(IF move THEN [r EXCEPT !.f.iart = i] ELSE r, 0, len)
          IN  Becomes(<<>>, res)

LFINFO(n) == Reads(Lookup(fh, n), 0, TRUE, "info")
LFILEC(n) == Reads(Lookup(fh, n), -20, TRUE, "reads")
LFILAS == Reads(Seek(fh, TRUE), -23, TRUE, "reads")
LFILAP == Reads(Seek(fh, FALSE), -26, TRUE, "reads")
LFICAS(move) == Reads(Seek(fh, TRUE), 0, move, "asks")
LFICAP(move) == Reads(Seek(fh, FALSE), 0, move, "asks")

\* A tool is a program of its own.
Runs(call, r) ==
  /\ ~fh.open /\ Counts("tools", MaxTools) /\ call[1] \in Tools
  /\ fh' = Closed /\ fs' = r.fs /\ ino' = r.ino
  /\ ret' = Returned(call, 0, 0, ~r.ok)

Sources == {m \in Mains : Grok(m) \in {"PURE", "ALTM"}}
Free(t) == t \in Targets /\ Grok(t) = "NONE"
CopyTo(m, t) == m \in Sources /\ Free(t) /\ Runs(<<"copy", m, t>>, Copy(m, t))
MergeTo(m1, m2, t) ==
  /\ m1 \in Sources /\ m2 \in Sources /\ m1 # m2 /\ Free(t)
  /\ \E D \in SUBSET (1 .. Len(FilesOf(m1)) + Len(FilesOf(m2))) : Runs(<<"merge", m1, m2, t>>, Combine(m1, m2, t, TRUE, D))
IndexTo(m1, m2, t) ==
  /\ m1 \in Sources /\ m2 \in Sources /\ m1 # m2 /\ Free(t)
  /\ Runs(<<"index", m1, m2, t>>, Combine(m1, m2, t, FALSE, {}))
RemoveOf(m) == m \in Sources \cap Targets /\ Runs(<<"remove", m>>, RemoveFiles(m))

\* The process dies: between two calls, the sub-file it was writing being
\* flagged as not closed; while the main file is written; or in LFIFER, between
\* the main file and the sub-files.
Dead(s, n) ==
  /\ fh.open /\ Counts("crashes", MaxCrashes)
  /\ fh' = Closed /\ fs' = s /\ ino' = n /\ ret' = NoReturn

Dies == Dead(fs, ino)
DiesInHeader == fh.open /\ Main(fh.m) \in DOMAIN fs /\ Dead(fs, [ino EXCEPT ![fs[Main(fh.m)]] = Torn])
DiesInClose == fh.open /\ fh.modified /\ \E r \in {WriteHdr(Here)} : Dead(r.fs, r.ino)

Calls ==
  \/ \E m \in Opened : LFIOUV(m)
  \/ \E m \in Mains : RemoveOf(m)
  \/ \E n \in Names, len \in Lens : LFIECR(n, len)
  \/ \E n \in Names : LFISUP(n) \/ LFINFO(n) \/ LFILEC(n)
  \/ \E m, n \in Names : LFIREN(m, n)
  \/ \E move \in BOOLEAN : LFICAS(move) \/ LFICAP(move)
  \/ LFIPOS \/ LFILAS \/ LFILAP \/ LFIFER
  \/ \E m, t \in Mains : CopyTo(m, t)
  \/ \E m1, m2, t \in Mains : MergeTo(m1, m2, t) \/ IndexTo(m1, m2, t)
  \/ Dies \/ DiesInHeader \/ DiesInClose

Next == Calls /\ UNCHANGED inst

Spec == Init /\ [][Next]_vars

-----------------------------------------------------------------------------
(* Properties.                                                             *)

\* No call ends in lfi_abor: every entry of the open index names a sub-file of
\* its table, every sub-file can be opened, has the articles the index says,
\* and can be unlinked when it is empty; no two entries have one name.  A
\* process that dies may leave sub-files that cannot be opened.
NeverAborts ==
  /\ count.crashes = 0 => ~ret.aborts
  /\ \A p \in DOMAIN fs : fs[p] \in DOMAIN ino
  /\ fh.open => \A i, j \in {k \in DOMAIN fh.arts : fh.arts[k].name # Blank} :
       /\ fh.arts[i].ifh \in DOMAIN fh.files
       /\ fh.arts[i].name = fh.arts[j].name => i = j

\* Where it can be relied on: the names of the sub-files mean the same from
\* every directory, articles are not empty, and an index of files that are not
\* its own is neither written to nor made a source of links, nor removed.
OrdinaryUse ==
  /\ Naming # "subdir" /\ (Relative => Naming = "here")
  /\ Lens \subseteq Nat \ {0}
  /\ \A i \in Instances : "index" \in i.Tools => i.Tools = {"index"} /\ i.Opened \cap i.Targets = {}

\* When a main file is closed, its directory has no sub-file that its index
\* does not name, and nothing is left of one that was removed, unless a process
\* has died.  (A merge may leave a link to a sub-file of which it keeps nothing.)
NoOrphans ==
  ~fh.open /\ count.crashes = 0 /\ "merge" \notin Tools => \A p \in DOMAIN fs : p[2] > 0 =>
    /\ Grok(p[1]) = "ALTM"
    /\ \E x \in Range(ino[fs[Main(p[1])]].files) : x.path = p

\* A sub-file has at most maxartals articles (struct lfi_altm_t).
SubFileBound == \A k \in DOMAIN ino : ino[k].kind = "PURE" => ino[k].slots <= MaxArtAls

\* What is read under each name of m, now if it is the open unit and after
\* LFIOUV otherwise; given for any state, in order to be computed once.
Unreadable == <<"unreadable">>
Where(s, n, file) ==
  IF file.at > 0 THEN file.at ELSE IF Opens([fs |-> s, ino |-> n], file) THEN s[file.path] ELSE 0

TableOf(f, s, n, m) ==
  LET mine == f.open /\ f.m = m
      kind == IF Main(m) \in DOMAIN s THEN n[s[Main(m)]].kind ELSE "NONE"
      x    == n[s[Main(m)]]
      arts == IF mine THEN f.arts ELSE x.arts
      file(k) == IF mine THEN f.files[k] ELSE SubFile(x.files[k].path, x.files[k].form, 0)
      in(k, name) == IF Where(s, n, file(k)) = 0 THEN Unreadable ELSE n[Where(s, n, file(k))].art[name]
      at(name) == {i \in DOMAIN arts : arts[i].name = name}
      e(name) == arts[CHOOSE i \in at(name) : TRUE]
  IN  CASE ~mine /\ kind = "NONE" -> [name \in Names |-> Nothing]
        [] ~mine /\ kind = "UNKN" -> [name \in Names |-> Unreadable]
        [] ~mine /\ kind = "PURE" -> [name \in Names |-> IF x.clean THEN x.art[name] ELSE Unreadable]
        [] OTHER -> [name \in Names |-> IF at(name) = {} THEN Nothing ELSE in(e(name).ifh, e(name).namf)]
=============================================================================
