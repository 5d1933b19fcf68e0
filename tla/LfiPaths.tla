------------------------------ MODULE LfiPaths ------------------------------
(* Names of sub-files in a multi-file LFI (lfi_util.c, lfi_altm.c).  The main
   file lists the names of its sub-files; with LDRELATIVE they are made
   relative to the directory of the main file, so that a directory can be
   moved with all it holds, and resolved against it when they are opened.

   A path is the sequence of what its slashes separate: "/a//b" is
   <<"", "a", "", "b">>, "a/b" is <<"a", "b">>.  A place is the sequence of the
   directories that lead to a file from the root, and the file. *)
EXTENDS Sequences, SequencesExt, Integers

CONSTANTS
  NameSets,    \* sets of names a program gives its main files
  Cwds,        \* directories the program may be started in
  Renamed(_),  \* pairs of directories, a new name for the second; it depends on the names
  LDRELATIVE,  \* TRUE when names are made relative
  MaxSteps     \* bound on the programs run one after the other

VARIABLES
  names,   \* the names used in this behaviour
  cwd,     \* the current directory
  main,    \* the name of the main file
  stored,  \* the name of its sub-file, as the main file has it
  at,      \* where the sub-file is
  steps

vars == <<names, cwd, main, stored, at, steps>>
-----------------------------------------------------------------------------
\* Double slashes are made one; a first or a last one stays.
SingleSlashes(p) ==
  IF Len(p) < 2 THEN p
  ELSE <<p[1]>> \o SelectSeq(Tail(Front(p)), LAMBDA name : name # "") \o <<Last(p)>>

\* '/dir/../' becomes '/'; a name before the first slash is no such dir.
Collapse(done, name) ==
  IF name = ".." /\ Len(done) > 1 /\ Last(done) # ".."
    THEN Front(done) ELSE Append(done, name)

CleanupPath(p) == FoldLeft(Collapse, <<>>, SingleSlashes(p))

\* The directories two paths have in common.
Common(base, path) ==
  LET same == {k \in 0..(Len(base) - 1) : k < Len(path) /\ SubSeq(base, 1, k) = SubSeq(path, 1, k)}
  IN  CHOOSE k \in same : \A l \in same : l <= k

\* mutant: the slashes are counted without the first name
DepthOfSlashes(rest) == IF Len(rest) > 1 THEN Len(rest) - 2 ELSE 0
\* The directories to leave, from a file named by what remains of the base.
Depth(rest) == IF Len(rest) = 2 /\ rest[1] = "" THEN 0 ELSE Len(rest) - 1

MakeRelativePath(base, path) ==
  LET b == CleanupPath(base)
      p == CleanupPath(path)
      k == Common(b, p)
      up == [i \in 1..Depth(SubSeq(b, k + 1, Len(b))) |-> ".."]
  IN  CleanupPath(up \o SubSeq(p, k + 1, Len(p)))

ResolveFilename(base, file) ==
  CleanupPath(IF file[1] = "" THEN file ELSE Front(base) \o file)

\* The first name in the directory kept for the sub-files of a main file.
Getfname(m) == Front(m) \o <<Last(m) \o ".d", "000000">>

NameInIndex(m, path) == IF LDRELATIVE THEN MakeRelativePath(m, path) ELSE path

\* The file system: the place a path leads to, without symbolic links.
Enter(dir, name) ==
  CASE name \in {"", "."} -> dir
    [] name = ".."        -> IF dir = <<>> THEN dir ELSE Front(dir)
    [] OTHER              -> Append(dir, name)

Place(dir, p) == FoldLeft(Enter, IF p[1] = "" THEN <<>> ELSE dir, p)
-----------------------------------------------------------------------------
\* A native file becomes the sub-file of a main file that only indexes it.
Init ==
  /\ names \in NameSets
  /\ cwd \in Cwds
  /\ main \in names
  /\ \E file \in names :
       /\ Place(cwd, file) # Place(cwd, main)
       /\ stored = NameInIndex(main, file)
       /\ at = Place(cwd, file)
  /\ steps = 0

\* An index of the main file: the sub-file is shared.
Index(m) ==
  /\ Place(cwd, m) # at
  /\ main' = m
  /\ stored' = NameInIndex(m, ResolveFilename(main, stored))
  /\ UNCHANGED <<names, cwd, at>>

\* A copy, by links: the sub-file gets a name next to the new main file.
Copy(m) ==
  /\ main' = m
  /\ stored' = NameInIndex(m, Getfname(m))
  /\ at' = Place(cwd, Getfname(m))
  /\ UNCHANGED <<names, cwd>>

\* A program is started elsewhere and names the main file from there.
Cd ==
  /\ cwd' \in Cwds
  /\ main' \in names
  /\ Place(cwd', main') = Place(cwd, main)
  /\ UNCHANGED <<names, stored, at>>

\* A directory that holds the main file and its sub-file gets another name.
Move(from, to) ==
  LET Moved(place) == IF IsPrefix(from, place) THEN to \o SubSeq(place, Len(from) + 1, Len(place)) ELSE place
  IN  /\ IsPrefix(from, Place(cwd, main)) /\ IsPrefix(from, at)
      /\ at' = Moved(at)
      /\ cwd' = Moved(cwd)
      /\ main' \in names
      /\ Place(cwd', main') = Moved(Place(cwd, main))
      /\ UNCHANGED <<names, stored>>

Program ==
  \/ \E m \in names : Index(m) \/ Copy(m)
  \/ Cd
  \/ \E r \in Renamed(names) : Move(r[1], r[2])

Next == steps < MaxSteps /\ steps' = steps + 1 /\ Program

Spec == Init /\ [][Next]_vars
-----------------------------------------------------------------------------
\* The name in a main file, resolved against the name the main file is opened
\* with, leads to the sub-file, whatever directory the program runs in and
\* after the directory was moved (resolve_filename, lfi_make_relative_path).
SubFileFound == Place(cwd, ResolveFilename(main, stored)) = at
=============================================================================
