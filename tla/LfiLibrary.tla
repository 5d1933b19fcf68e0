----------------------------- MODULE LfiLibrary -----------------------------
(***************************************************************************)
(* The layer under the LFI calls (lfi_alt/lfi_intf.c): LFIOUV chooses the  *)
(* library that serves a unit - the Fortran one, native files in C, multi- *)
(* files - and every later call asks each library in turn whether it has   *)
(* the unit open.  Calls without a unit, and those about a unit that is    *)
(* not open, are made to all the libraries.                                *)
(*                                                                         *)
(* What the libraries do to the articles is in LfiFile and LfiMulti; here  *)
(* a file is only of a kind, as lfi_grok sees it.                          *)
(***************************************************************************)
EXTENDS Integers, Sequences, FiniteSets, Functions

CONSTANTS Units,         \* logical units
          Files,         \* names of files
          MaxFactor,     \* JPFACX
          MaxPredefined, \* JPXUFM
          Asks,          \* programs open only files and units that are not open
          Instances      \* what the programs give to the calls

Fort == 1
Alts == 2
Altm == 3
Libs == {Fort, Alts, Altm} \* in the order of lfi_hndl_list

LibraryAssumption ==
  /\ Units \subseteq Int /\ Asks \in BOOLEAN /\ MaxFactor \in Nat /\ MaxPredefined \in Nat
  /\ \A i \in Instances :
       /\ i.HndlSpec \in Seq([from : Int, to : Int, unum : 0 .. 2])
       /\ i.Factors \cup i.Levels \cup i.Nimes \subseteq Int /\ i.Erfas \subseteq BOOLEAN

VARIABLES lib,  \* each library: global settings, predefined factors, open units
          dir,  \* kind of each file
          ret,  \* outcome of the last call
          inst  \* the member of Instances this behaviour is in

vars == <<lib, dir, ret, inst>>

HndlSpec == inst.HndlSpec  \* LFI_HNDL_SPEC: ranges of units and their library
Factors  == inst.Factors   \* values given to LFIAFM and LFIFMD
Levels   == inst.Levels    \* values given to LFINEG
Erfas    == inst.Erfas     \* LDERFA
Nimes    == inst.Nimes     \* values given to LFINIM, and KNIMES of LFIOUV
Statuses == inst.Statuses  \* CDSTTO

NoUnit == <<>>
Default == 6
NewLibrary == [nerfag |-> 1, fmult |-> Default, list |-> NoUnit, open |-> NoUnit]

-----------------------------------------------------------------------------
(* The libraries.                                                          *)

\* lfi_unum: the first range the unit is in, the Fortran library by default.
LibraryOf(u) ==
  LET in == {r \in DOMAIN HndlSpec : u \in HndlSpec[r].from .. HndlSpec[r].to}
  IN  IF in = {} THEN Fort ELSE 1 + HndlSpec[CHOOSE r \in in : \A q \in in : r <= q].unum

HasOpen(i, u) == u \in DOMAIN lib[i].open

\* lfi_hndl: the first library that has the unit open, 0 if none has.
Handler(u) ==
  LET having == {i \in Libs : HasOpen(i, u)}
  IN  IF having = {} THEN 0 ELSE CHOOSE i \in having : \A j \in having : i <= j

\* mutant: only the first library is asked
IsOpenInHead(u) == HasOpen(Fort, u)
\* lfipro
IsOpen(u) == \E i \in Libs : HasOpen(i, u)
FileIsOpen(i, f) == \E u \in DOMAIN lib[i].open : lib[i].open[u].file = f

\* Factor a library gives a file it creates, and LFIOFM of a unit not open.
FactorFor(i, u) == IF u \in DOMAIN lib[i].list THEN lib[i].list[u] ELSE lib[i].fmult

\* The errors of a unit that is open are fatal (is_fatl, LLMOER).
Fatal(i, u) == lib[i].nerfag = 0 \/ (lib[i].nerfag = 1 /\ lib[i].open[u].erfa)
\* The Fortran library on a unit it does not know: LERFAT(0) is true.
FatalInFort(u) == IF HasOpen(Fort, u) THEN Fatal(Fort, u) ELSE lib[Fort].nerfag # 2

Without(f, u) == Restrict(f, DOMAIN f \ {u})
With(f, u, x) == [v \in DOMAIN f \cup {u} |-> IF v = u THEN x ELSE f[v]]

\* What a library answers to LFIOUV; alts and altm know files by unit only.
OpenReply(i, u, f) ==
  CASE i = Fort -> IF HasOpen(Fort, u) THEN -5 ELSE IF FileIsOpen(Fort, f) THEN -13 ELSE 0
    [] i = Alts -> IF HasOpen(Alts, u) THEN -13 ELSE 0
    [] i = Altm -> IF HasOpen(Altm, u) THEN -13 ELSE 0
\* The kind of the file once it is open.  A multi-file has its main file at once,
\* and a native file opened as one becomes its sub-file under another name.
KindOnceOpen(i, f) == IF i = Altm THEN "ALTM" ELSE IF dir[f] = "NONE" THEN "PURE" ELSE dir[f]
\* mutant: the factor given to the unit is not looked up
OpenedAsDefault(i, u, f, e, n) == [file |-> f, erfa |-> e, nimes |-> n, fmult |-> lib[i].fmult, new |-> dir[f] = "NONE"]
OpenedAs(i, u, f, e, n) == [file |-> f, erfa |-> e, nimes |-> n, fmult |-> FactorFor(i, u), new |-> dir[f] = "NONE"]

\* Reply to LFIAFM and LFISFM of a unit that is not open.
AttributeReply(i, u, k) ==
  IF i = Fort
  THEN IF k <= 0 THEN -14 ELSE IF k > MaxFactor THEN -28
       ELSE IF u \notin DOMAIN lib[i].list /\ Cardinality(DOMAIN lib[i].list) >= MaxPredefined THEN -29 ELSE 0
  ELSE IF k < 0 THEN -14 ELSE 0
SuppressReply(i, u) == IF u \in DOMAIN lib[i].list THEN 0 ELSE -31

-----------------------------------------------------------------------------
(* Calls.                                                                  *)

\* by: the library that served it; wild: a call through a pointer that was never set.
Outcome(c, i, k, d) ==
  [call |-> c, by |-> i, krep |-> k, dead |-> d, wild |-> FALSE, answer |-> 0]
Alive == ~ret.dead

\* lfi_intf_knumer_krep: a call on an open unit and its errors; the Fortran
\* library makes its own errors fatal.
Served(c, u, k, answer) ==
  LET i == Handler(u)
  IN  ret' = IF i = 0 THEN Outcome(c, 0, 0, TRUE)
             ELSE [Outcome(c, i, k, k # 0 /\ Fatal(i, u)) EXCEPT !.answer = answer]

\* The choice of LFIOUV: 0 with the error code, or the library.
\* mutant: the number of the unit alone chooses
ByUnit(u, f) == LibraryOf(u)
ByFile(u, f) == IF dir[f] = "ALTM" THEN Altm ELSE LibraryOf(u)
Refusal(f, s) ==
  CASE dir[f] = "UNKN" -> -10
    [] dir[f] = "NONE" -> IF s \in {"NEW", "UNKNOWN"} THEN 0 ELSE -9
    [] OTHER           -> IF s \in {"OLD", "UNKNOWN"} THEN 0 ELSE -9

LFIOUV(u, f, s, e, n) ==
  /\ Alive
  /\ Asks => ~IsOpen(u) /\ \A i \in Libs : ~FileIsOpen(i, f)
  /\ LET refused == Refusal(f, s)
         i    == ByFile(u, f)
         krep == IF refused # 0 THEN refused ELSE OpenReply(i, u, f)
         opened == refused = 0 /\ krep = 0
         infort == refused = 0 /\ i = Fort
     IN  /\ lib' = IF opened THEN [lib EXCEPT ![i].open = With(@, u, OpenedAs(i, u, f, e, n))] ELSE lib
         /\ dir' = IF opened THEN [dir EXCEPT ![f] = KindOnceOpen(i, f)] ELSE dir
         /\ ret' = [Outcome("LFIOUV", IF refused = 0 THEN i ELSE 0, krep,
                            krep # 0 /\ (e \/ (infort /\ FatalInFort(u)))) EXCEPT
                      !.wild = infort /\ krep # 0 /\ ~FatalInFort(u)]

LFIFER(u) ==
  LET i == Handler(u) IN
  /\ Alive
  /\ lib' = IF i = 0 THEN lib ELSE [lib EXCEPT ![i].open = Without(@, u)]
  /\ Served("LFIFER", u, 0, 0)
  /\ UNCHANGED dir

\* A call on the articles of a unit: it may fail.
Access(u) ==
  /\ Alive
  /\ \E k \in {0, -20} : Served("articles", u, k, 0)
  /\ UNCHANGED <<lib, dir>>

LFIERF(u, e) ==
  /\ Alive /\ Handler(u) # 0
  /\ lib' = [lib EXCEPT ![Handler(u)].open[u].erfa = e]
  /\ Served("LFIERF", u, 0, 0)
  /\ UNCHANGED dir

LFINIM(u, n) ==
  /\ Alive /\ Handler(u) # 0
  /\ lib' = IF n \in 0 .. 2 THEN [lib EXCEPT ![Handler(u)].open[u].nimes = n] ELSE lib
  /\ Served("LFINIM", u, IF n \in 0 .. 2 THEN 0 ELSE -2, 0)
  /\ UNCHANGED dir

\* LFIOMF: lfiomf_dumm sets KREP and nothing else.
Unset == -1
LFIOMF(u) ==
  /\ Alive /\ Handler(u) # 0
  /\ Served("LFIOMF", u, 0, IF Handler(u) = Fort THEN lib[Fort].open[u].nimes ELSE Unset)
  /\ UNCHANGED <<lib, dir>>

\* LFIOFM: of an open unit from its library, otherwise the last library's answer.
LFIOFM(u) ==
  /\ Alive
  /\ IF IsOpen(u) THEN Served("LFIOFM", u, 0, lib[Handler(u)].open[u].fmult)
     ELSE ret' = [Outcome("LFIOFM", 0, 0, FALSE) EXCEPT !.answer = FactorFor(Altm, u)]
  /\ UNCHANGED <<lib, dir>>

\* LFIAFM, LFISFM: every library in turn, the last one's KREP is returned.
\* Nothing is fatal but what the Fortran library makes so.
ToAll(c, u, reply, changed) ==
  /\ Alive
  /\ IF IsOpen(u) THEN ret' = Outcome(c, 0, -5, FALSE) /\ UNCHANGED lib
     ELSE LET dead == reply[Fort] # 0 /\ FatalInFort(u) IN
          /\ ret' = Outcome(c, 0, IF dead THEN reply[Fort] ELSE reply[Altm], dead)
          /\ lib' = IF dead THEN lib
                    ELSE [i \in Libs |-> IF reply[i] = 0 THEN [lib[i] EXCEPT !.list = changed[i]] ELSE lib[i]]
  /\ UNCHANGED dir

LFIAFM(u, k) ==
  ToAll("LFIAFM", u, [i \in Libs |-> AttributeReply(i, u, k)], [i \in Libs |-> With(lib[i].list, u, k)])
LFISFM(u) ==
  ToAll("LFISFM", u, [i \in Libs |-> SuppressReply(i, u)], [i \in Libs |-> Without(lib[i].list, u)])

\* lfi_intf: a global setting, to all the libraries; they differ in what they accept.
AcceptsLevel(i, k) == k \in 0 .. 2
AcceptsFactor(i, k) == k > 0 /\ (i = Fort => k <= MaxFactor)
SetAll(c, accepting, set) ==
  LET dead == Fort \notin accepting /\ lib[Fort].nerfag # 2 IN
  /\ Alive
  /\ ret' = Outcome(c, 0, 0, dead)
  /\ lib' = IF dead THEN lib ELSE [i \in Libs |-> IF i \in accepting THEN set[i] ELSE lib[i]]
  /\ UNCHANGED dir

LFINEG(k) ==
  SetAll("LFINEG", {i \in Libs : AcceptsLevel(i, k)}, [i \in Libs |-> [lib[i] EXCEPT !.nerfag = k]])
LFIFMD(k) ==
  SetAll("LFIFMD", {i \in Libs : AcceptsFactor(i, k)}, [i \in Libs |-> [lib[i] EXCEPT !.fmult = k]])

\* lfinum through lfi_intf_knumer: no library, no rank.
LFINUM(u) ==
  /\ Alive
  /\ ret' = [Outcome("LFINUM", Handler(u), 0, Handler(u) = 0) EXCEPT !.answer = IF Handler(u) = 0 THEN 0 ELSE 1]
  /\ UNCHANGED <<lib, dir>>

-----------------------------------------------------------------------------
Init ==
  /\ lib = [i \in Libs |-> NewLibrary]
  /\ dir \in [Files -> {"NONE", "PURE", "ALTM", "UNKN"}]
  /\ ret = Outcome("none", 0, 0, FALSE)
  /\ inst \in Instances

Calls ==
  \/ \E u \in Units, f \in Files, s \in Statuses, e \in Erfas, n \in Nimes \cap 0 .. 2 : LFIOUV(u, f, s, e, n)
  \/ \E u \in Units : LFIFER(u) \/ Access(u) \/ LFIOMF(u) \/ LFIOFM(u) \/ LFISFM(u) \/ LFINUM(u)
  \/ \E u \in Units, e \in Erfas : LFIERF(u, e)
  \/ \E u \in Units, n \in Nimes : LFINIM(u, n)
  \/ \E u \in Units, k \in Factors : LFIAFM(u, k)
  \/ \E k \in Levels : LFINEG(k)
  \/ \E k \in Factors : LFIFMD(k)

Next == Calls /\ UNCHANGED inst

Spec == Init /\ [][Next]_vars

-----------------------------------------------------------------------------
(* Properties.                                                             *)

\* A unit is open in one library at most, so that the first that says it has
\* it is the one it was opened with (lfi_hndl), and the libraries agree on the
\* global settings and on the factor a unit that is not open would be given:
\* it does not matter which one LFIOUV chooses.
OneLibraryPerUnit ==
  \A i, j \in Libs :
    /\ DOMAIN lib[i].open \cap DOMAIN lib[j].open # {} => i = j
    /\ lib[i].nerfag = lib[j].nerfag
    /\ \A u \in Units : FactorFor(i, u) = FactorFor(j, u)

\* A file is open on one unit at most: each library keeps its own index of it.
OneUnitPerFile ==
  \A i, j \in Libs : \A u \in DOMAIN lib[i].open, v \in DOMAIN lib[j].open :
    lib[i].open[u].file = lib[j].open[v].file => <<i, u>> = <<j, v>>

\* The library that has a file open is that of its kind, whatever the unit: a
\* file that an earlier session has made or turned into a multi-file, on a unit
\* of multi-files, is one for the next, on a unit of native files, which would
\* not find its articles otherwise.
ServedByItsKind ==
  \A i \in Libs : \A u \in DOMAIN lib[i].open :
    dir[lib[i].open[u].file] = IF i = Altm THEN "ALTM" ELSE "PURE"

\* A file that is created has the factor LFIOFM gave for its unit just before.
CreatedAsAnnounced ==
  \A u \in Units : \A i \in Libs :
    (u \notin DOMAIN lib[i].open /\ u \in DOMAIN lib'[i].open /\ lib'[i].open[u].new)
      => lib'[i].open[u].fmult = FactorFor(Altm, u)
FactorAsAnnounced == [][CreatedAsAnnounced]_vars

\* LFIAFM returns 0 only when the unit has its factor in every library.
AttributedWhenZero ==
  [][\A u \in Units, k \in Factors : (LFIAFM(u, k) /\ ret'.krep = 0) => \A i \in Libs : u \in DOMAIN lib'[i].list /\ lib'[i].list[u] = k]_vars

\* A failure of the Fortran library is left to its own messages.
NoWildCall == ~ret.wild

\* LFIOMF gives the level of messages of the unit.
LevelAnswered == ret.call = "LFIOMF" => ret.answer # Unset

\* At level 2 no error is fatal, that of an opening included.
NothingFatalAtTwo == (ret.dead /\ ret.call = "LFIOUV") => lib[Fort].nerfag # 2

\* LFINUM of a unit that is not open gives rank 0.
RankOfNone == ret.call = "LFINUM" => ~ret.dead

\* A scratch file, which does not exist before, can be opened.
ScratchOpens ==
  [][\A u \in Units, f \in Files, e \in Erfas, n \in Nimes :
       (dir[f] = "NONE" /\ ~IsOpen(u) /\ LFIOUV(u, f, "SCRATCH", e, n)) => ret'.krep = 0]_vars
=============================================================================
