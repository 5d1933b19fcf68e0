----------------------------- MODULE MCSupport ------------------------------
(* Instances of the utilities of the support library XRD44: what surrounds    *)
(* the two kinds of LFI files - the choice of the library (LfiLibrary), the   *)
(* names of sub-files (LfiPaths), the copy of a file (LfiCopy), its packing   *)
(* (LfiPack) - and the sorting (MCSort).  They share no state: in each        *)
(* behaviour one of them runs and the others rest.  The constants and the     *)
(* variables of LfiLibrary and LfiCopy are this module's own.                 *)
EXTENDS LfiLibrary, LfiCopy, SortCalls

CONSTANTS f1, f2

VARIABLES part, \* who runs
          names, cwd, main, stored, at, steps,             \* LfiPaths
          arts, kind, page, idx, hdr, iart, offset, packed, announced, stage,    \* LfiPack
          sort, word, keys, start, answer, call, a, index, a0, index0, rc, turn, \* MCSort
          jkey, method, adjusted, todo, rank, inc

-----------------------------------------------------------------------------
(* Two units, which LFI_HNDL_SPEC sends to two of the libraries.              *)
Span(first, last, n) == [from |-> first, to |-> last, unum |-> n]
FactorCalls == [HndlSpec |-> <<Span(2, 9, 1), Span(1, 9, 0)>>, Factors |-> {5, 7}, Levels |-> {1},
                Erfas |-> {TRUE}, Nimes |-> {0}, Statuses |-> {"OLD", "NEW", "UNKNOWN"}]
ErrorCalls  == [HndlSpec |-> <<Span(2, 2, 2), Span(1, 9, 1)>>, Factors |-> {6}, Levels |-> {0, 1, 2, 3},
                Erfas |-> BOOLEAN, Nimes |-> {0, 2, 3}, Statuses |-> {"UNKNOWN"}]
LibraryCalls == {FactorCalls, ErrorCalls}
ASSUME LibraryAssumption

(* Absolute names with a directory that is moved, relative names.             *)
Absolute ==
  { <<"", "a", "f">>, <<"", "a", "b", "f">>, <<"", "c", "f">>, <<"", "c", "b", "f">>, <<"", "f">>,
    <<"", "", "a", "", "b", "g">>, <<"", "c", "", "b", "g">>,
    <<"", "a", "..", "c", "g">>, <<"", "a", "b", "..", "..", "c", "b", "g">>,
    <<"", "a", "b", "..", "g">>, <<"", "c", "b", "..", "g">> }
Relative ==
  { <<"f">>, <<"g">>, <<"a", "f">>, <<"a", "", "b", "f">>, <<"b", "f">>, <<"c", "f">>,
    <<"c", "b", "f">>, <<"a", "b", "..", "g">>, <<"c", "b", "..", "g">> }
Swapped(used) == IF used = Absolute THEN {<<<<"a">>, <<"c">>>>, <<<<"c">>, <<"a">>>>} ELSE {}
Paths == INSTANCE LfiPaths
  WITH NameSets <- {Absolute, Relative}, Cwds <- {<<>>, <<"a">>, <<"c">>, <<"a", "b">>},
       Renamed <- Swapped, LDRELATIVE <- TRUE, MaxSteps <- 4

(* Copies of files of whole blocks, onto nothing or onto an older file.       *)
NothingOrOlder == {Absent, <<9>>}

Pack == INSTANCE LfiPack
  WITH Unit <- 4, MinFactor <- 1, Lens <- {0, 1, 6}, MaxArticles <- 5, out <- packed, pc <- stage
ASSUME Pack!PackAssumption

(* Words of four bits, and the calls of SortCalls.                            *)
Sort == INSTANCE MCSort
  WITH Width <- 4, Digit <- 2, NOMP <- 4, DefaultMethod <- "counting",
       Calls <- MCCalls, Arrays <- MCArrays, Starts <- MCStarts, part <- sort, kind <- word, pc <- turn
ASSUME Sort!WidthAssumption /\ Sort!SortAssumption
-----------------------------------------------------------------------------
paths   == <<names, cwd, main, stored, at, steps>>
pack    == <<arts, kind, page, idx, hdr, iart, offset, packed, announced, stage>>
sorting == <<sort, word, keys, start, answer, call, a, index, a0, index0, rc, turn, jkey, method, adjusted, todo, rank, inc>>

Rest(v) == v = "rests"
LibraryRests == Init /\ dir = [f \in Files |-> "NONE"] /\ inst = FactorCalls
PathsRest == Rest(names) /\ Rest(cwd) /\ Rest(main) /\ Rest(stored) /\ Rest(at) /\ Rest(steps)
CopyRests == /\ Rest(caller) /\ Rest(otherFs) /\ Rest(source) /\ Rest(target) /\ Rest(before)
             /\ Rest(out) /\ Rest(buf) /\ Rest(rest) /\ Rest(errno) /\ Rest(pc)
PackRests == /\ Rest(arts) /\ Rest(kind) /\ Rest(page) /\ Rest(idx) /\ Rest(hdr) /\ Rest(iart)
             /\ Rest(offset) /\ Rest(packed) /\ Rest(announced) /\ Rest(stage)
SortRests == Rest(sort) /\ Sort!KernelsRest /\ Sort!KeysortRests

MCInit ==
  \/ part = "library" /\ Init /\ PathsRest /\ CopyRests /\ PackRests /\ SortRests
  \/ part = "paths" /\ Paths!Init /\ LibraryRests /\ CopyRests /\ PackRests /\ SortRests
  \/ part = "copy" /\ CopyInit /\ LibraryRests /\ PathsRest /\ PackRests /\ SortRests
  \/ part = "pack" /\ Pack!Init /\ LibraryRests /\ PathsRest /\ CopyRests /\ SortRests
  \/ part = "sort" /\ Sort!MCInit /\ LibraryRests /\ PathsRest /\ CopyRests /\ PackRests

MCNext ==
  /\ UNCHANGED part
  /\ \/ part = "library" /\ Next /\ UNCHANGED <<paths, copyVars, pack, sorting>>
     \/ part = "paths" /\ Paths!Next /\ UNCHANGED <<vars, copyVars, pack, sorting>>
     \/ part = "copy" /\ CopyNext /\ UNCHANGED <<vars, paths, pack, sorting>>
     \/ part = "pack" /\ Pack!Next /\ UNCHANGED <<vars, paths, copyVars, sorting>>
     \/ part = "sort" /\ Sort!MCNext /\ UNCHANGED <<vars, paths, copyVars, pack>>

MCSpec == MCInit /\ [][MCNext]_<<part, vars, paths, copyVars, pack, sorting>>
-----------------------------------------------------------------------------
(* The properties of LfiPaths, LfiPack and the sorting.                                    *)

\* The name in a main file leads to the sub-file (resolve_filename).
SubFileFound == part = "paths" => Paths!SubFileFound

\* The packed file has all the articles where its index says, and the size and
\* the header written before them are its own (lfi_alts_pack).
PackedIsWhole == part = "pack" => Pack!PackedIsWhole /\ Pack!SizeAnnounced

\* The routines find the order of the values and agree with one another, and
\* a refused call is told from one that sorted (rsort32_, rsort64_,
\* ec_countingsort_, gnomesort_, ecqsort_, ecmerge2_ and HEAPSORT).
KernelsAgree == part = "sort" => Sort!KernelsAgree

\* KEYSORT puts the rows in the order asked for and keeps their words; its
\* index holds each row once all along, on one thread and on several.
SortedAsAsked == part = "sort" => Sort!SortedAsAsked
=============================================================================
