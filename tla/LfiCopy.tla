------------------------------- MODULE LfiCopy -------------------------------
(* A copy of one native file: a hard link when source and target are on the
   same file system, the bytes otherwise, by blocks through stdio
   (lfi_smartcopy, lfi_copy), and what its two callers do when it fails: the
   copy of a file (lfi_altm_copy_) takes the target away, the packing of a
   file that is native already (lfi_alts_pack) aborts. *)
EXTENDS Sequences, SequencesExt, Integers

CONSTANTS
  Block,     \* units of data in a buffer (4096 bytes in the code)
  Lengths,   \* units in a source file
  Existing   \* what the target may hold before: Absent, or an older file

\* Units of data are numbers; these two are in no source.
Absent == <<-1>>  \* stands for a file that does not exist
Stale  == 0       \* what the buffer held before it was read into

VARIABLES
  caller,   \* "copy" or "pack"
  otherFs,  \* the target is on another file system
  source,   \* the units of the source
  target,   \* the units of the target on the disk, or Absent
  before,   \* the target before the copy
  out,      \* the units given to stdio for the target
  buf,      \* the buffer
  rest,     \* the units not yet read
  errno,
  pc

copyVars == <<caller, otherFs, source, target, before, out, buf, rest, errno, pc>>

CopyInit ==
  /\ caller \in {"copy", "pack"} /\ otherFs \in BOOLEAN
  /\ \E n \in Lengths : source = [i \in 1..n |-> i]
  /\ target \in Existing /\ before = target
  /\ out = <<>> /\ buf = [i \in 1..Block |-> Stale] /\ rest = source
  /\ errno = "none" /\ pc = "link"
-----------------------------------------------------------------------------
Goto(label) == pc' = label
Same == UNCHANGED <<caller, otherFs, source, before>>

\* link(); the bytes are copied only when it was refused across file systems.
Link ==
  /\ pc = "link"
  /\ IF target # Absent THEN errno' = "EEXIST" /\ Goto("reply") /\ UNCHANGED target
     ELSE IF otherFs THEN Goto("source") /\ UNCHANGED <<target, errno>>
     ELSE target' = source /\ Goto("reply") /\ UNCHANGED errno
  /\ UNCHANGED <<out, buf, rest>> /\ Same

OpenSource ==
  /\ pc = "source"
  /\ \/ Goto("target") /\ UNCHANGED errno
     \/ errno' = "EACCES" /\ Goto("reply")
  /\ UNCHANGED <<target, out, buf, rest>> /\ Same

OpenTarget ==
  /\ pc = "target"
  /\ \/ target' = <<>> /\ Goto("read") /\ UNCHANGED errno
     \/ errno' = "EACCES" /\ Goto("reply") /\ UNCHANGED target
  /\ UNCHANGED <<out, buf, rest>> /\ Same

Least(m, n) == IF m < n THEN m ELSE n

\* fread puts what it gets at the head of the buffer.
Read ==
  LET nr == Least(Block, Len(rest))
  IN  /\ pc = "read"
      /\ \/ /\ buf' = SubSeq(rest, 1, nr) \o SubSeq(buf, nr + 1, Block)
            /\ rest' = SubSeq(rest, nr + 1, Len(rest))
            /\ Goto(CASE nr = 0 -> "close" [] nr = Block -> "write" [] OTHER -> "short")
            /\ UNCHANGED errno
         \/ errno' = "EIO" /\ Goto("reply") /\ UNCHANGED <<buf, rest>>
  /\ UNCHANGED <<target, out>> /\ Same

\* fwrite takes the whole buffer: when fewer units were read what it returns
\* is not what was read, which is an error, with the errno there was.
AfterWrite == IF pc = "short" THEN "reply" ELSE "read"

Write ==
  /\ pc \in {"write", "short"}
  /\ \/ out' = out \o buf /\ Goto(AfterWrite) /\ UNCHANGED errno
     \/ errno' = "ENOSPC" /\ Goto("reply") /\ UNCHANGED out
  /\ UNCHANGED <<target, buf, rest>> /\ Same

\* stdio writes what it was given when it likes.
Flush ==
  /\ target # Absent /\ pc \in {"read", "write", "short", "close"}
  /\ \E k \in Len(target) + 1 .. Len(out) : target' = SubSeq(out, 1, k)
  /\ UNCHANGED <<out, buf, rest, errno, pc>> /\ Same

\* mutant: a failure of fclose goes unseen
CloseIgnored == {"none"}
CloseFails == {"ENOSPC"}

\* fclose writes the rest; a full disk is often seen only here.
Close ==
  /\ pc = "close"
  /\ \/ target' = out /\ UNCHANGED errno
     \/ target # out /\ errno' \in CloseFails /\ UNCHANGED target
  /\ Goto("reply")
  /\ UNCHANGED <<out, buf, rest>> /\ Same

\* mutant: a copy that failed is left
RemovedNever == target
Removed == Absent

\* The reply is errno.  lfi_altm_copy_ removes the target after an error,
\* lfi_alts_pack prints the reply and aborts, which loses what stdio holds.
Reply ==
  /\ pc = "reply"
  /\ IF errno = "none" THEN Goto("copied") /\ UNCHANGED target
     ELSE IF caller = "copy" THEN target' = Removed /\ Goto("refused")
     ELSE Goto("aborted") /\ UNCHANGED target
  /\ UNCHANGED <<out, buf, rest, errno>> /\ Same

\* The process ends: files that were not closed are, unless it is killed.
Unclosed == out # <<>> /\ target # Absent /\ Len(target) < Len(out)
Exit ==
  /\ pc \in {"copied", "refused"}
  /\ target' = IF pc = "copied" /\ Unclosed THEN out ELSE target
  /\ Goto(IF pc = "copied" THEN "exited" ELSE "over")
  /\ UNCHANGED <<out, buf, rest, errno>> /\ Same

Killed ==
  /\ pc \notin {"refused", "aborted", "exited", "over", "dead"}
  /\ Goto(IF pc = "copied" THEN "exited" ELSE "dead")
  /\ UNCHANGED <<target, out, buf, rest, errno>> /\ Same

CopyNext ==
  \/ Link \/ OpenSource \/ OpenTarget \/ Read \/ Write \/ Flush \/ Close
  \/ Reply \/ Exit \/ Killed

CopySpec == CopyInit /\ [][CopyNext]_copyVars
-----------------------------------------------------------------------------
\* A copy that was reported done is there, as it was, even when the process is
\* killed right after (lfi_copy closes the target before it replies), and one
\* that was refused leaves no part of a target that did not exist.
CopiedIsWhole ==
  /\ pc = "exited" => target = source
  /\ pc = "over" /\ before = Absent => target = Absent

\* A copy that was refused leaves a target that existed as it was.
TargetKept == pc = "over" => target = before
=============================================================================
