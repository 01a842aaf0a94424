----------------------------- MODULE Workspace -----------------------------
(***************************************************************************)
(* app/fs_tools.py: the shared folder and its quota.  fs_write adds up     *)
(* what is there file by file, decides, and only then writes.  Others move,*)
(* delete and write files at any point of the walk, and the transfer and   *)
(* scan tools put files there that nobody checks.  A file is its size.     *)
(***************************************************************************)
EXTENDS Integers, FiniteSetsExt

CONSTANTS
  Writers,            \* calls of fs_write that can be under way at once
  Files,              \* paths
  Modes,              \* of fs_write: "append", "replace"
  Fetched,            \* sizes of downloads and scans
  MAX_WRITE, QUOTA,   \* bytes in one write, bytes in the workspace
  MaxSize, MaxLate,   \* bounds on a file, and on what comes during a write
  Missing             \* no such file

VARIABLES
  size,     \* WORK_DIR
  writer    \* the write each writer is in; late is history: the bytes other
            \* calls wrote, moved or fetched since it began to add up

vars == <<size, writer>>

Idle == [at |-> "idle"]
Asked == [at : {"walk", "put"}, mode : Modes, file : Files, nbytes : 0 .. MAX_WRITE,
          existing : 0 .. MaxSize, seen : SUBSET Files, sum : Nat, late : 0 .. MaxLate]

(* What the constants stand for.                                           *)
ConstantsOK ==
  /\ IsFiniteSet(Files) /\ Missing \notin 0 .. MaxSize
  /\ {MAX_WRITE, QUOTA, MaxSize, MaxLate} \subseteq Nat /\ Fetched \subseteq 0 .. MaxSize

TypeOK ==
  /\ size \in [Files -> 0 .. MaxSize \cup {Missing}]
  /\ writer \in [Writers -> {Idle} \cup Asked]

Init ==
  /\ size = [f \in Files |-> Missing]
  /\ writer = [w \in Writers |-> Idle]

-----------------------------------------------------------------------------
Bytes(f) == IF size[f] = Missing THEN 0 ELSE size[f]
BytesIn(S) == FoldSet(LAMBDA f, sum : Bytes(f) + sum, 0, S)
Usage == BytesIn(Files)

FsWrite(w, f, mode, nbytes) ==
  /\ writer[w] = Idle
  /\ nbytes <= MAX_WRITE
  /\ writer' = [writer EXCEPT ![w] =
       [at |-> "walk", mode |-> mode, file |-> f, nbytes |-> nbytes, seen |-> {}, sum |-> 0,
        existing |-> IF mode = "append" THEN Bytes(f) ELSE 0, late |-> 0]]
  /\ UNCHANGED size

(* _usage comes to a path, in any order; what is missing when its folder   *)
(* is listed counts nothing.                                               *)
Walk(w, f) ==
  /\ writer[w].at = "walk" /\ f \notin writer[w].seen
  /\ writer' = [writer EXCEPT ![w].seen = @ \cup {f}, ![w].sum = @ + Bytes(f)]
  /\ UNCHANGED size

FitsAlone(w) == w.nbytes <= QUOTA

(* What the file holds already is taken off when appending to it.          *)
Fits(w) == w.sum - w.existing + w.nbytes <= QUOTA

Decide(w) ==
  /\ writer[w].at = "walk" /\ writer[w].seen = Files
  /\ writer' = [writer EXCEPT ![w] =
       IF Fits(@) THEN [@ EXCEPT !.at = "put", !.seen = {}, !.sum = 0, !.existing = 0] ELSE Idle]
  /\ UNCHANGED size

(* n bytes come to some file: every write under way has them to come late. *)
Meanwhile(n) ==
  [w \in Writers |-> IF writer[w] = Idle THEN Idle ELSE [writer[w] EXCEPT !.late = @ + n]]
Room(n) == \A w \in Writers : writer[w] # Idle => writer[w].late + n <= MaxLate

(* The write itself, all of it or, if it fails, part of it.                *)
Put(w, done) ==
  LET f == writer[w].file
      new == done + (IF writer[w].mode = "append" THEN Bytes(f) ELSE 0)
  IN
  /\ writer[w].at = "put"
  /\ done <= writer[w].nbytes
  /\ new <= MaxSize /\ Room(done)
  /\ size' = [size EXCEPT ![f] = new]
  /\ writer' = [Meanwhile(done) EXCEPT ![w] = Idle]

(* A file is moved over whatever has the name.                             *)
FsMove(f, g) ==
  /\ size[f] # Missing /\ Room(Bytes(f))
  /\ size' = IF f = g THEN size ELSE [size EXCEPT ![g] = size[f], ![f] = Missing]
  /\ writer' = Meanwhile(Bytes(f))

(* A file, or all files of a folder, which takes a confirmation.           *)
FsDelete(gone) ==
  /\ \A f \in gone : size[f] # Missing
  /\ size' = [f \in Files |-> IF f \in gone THEN Missing ELSE size[f]]
  /\ UNCHANGED writer

(* webdav_download, ssh_download and scan_document ask for no quota.       *)
Fetch(f, n) ==
  /\ Room(n)
  /\ size' = [size EXCEPT ![f] = n]
  /\ writer' = Meanwhile(n)

Next ==
  \/ \E w \in Writers, f \in Files, mode \in Modes, n \in 0 .. MAX_WRITE : FsWrite(w, f, mode, n)
  \/ \E w \in Writers, f \in Files : Walk(w, f)
  \/ \E w \in Writers : Decide(w)
  \/ \E w \in Writers, n \in 0 .. MAX_WRITE : Put(w, n)
  \/ \E f, g \in Files : FsMove(f, g)
  \/ \E gone \in SUBSET Files : FsDelete(gone)
  \/ \E f \in Files, n \in Fetched : Fetch(f, n)

Spec == Init /\ [][Next]_vars

-----------------------------------------------------------------------------
(* fs_tools.py:20 "Total workspace size cap": a file that is about to be   *)
(* replaced takes the workspace over the cap by no more than what other    *)
(* calls wrote, moved or fetched since the write began to add up; the walk *)
(* itself, however it meets with moves and deletions, hides nothing else.  *)
OvershootBounded ==
  \A w \in Writers : writer[w].at = "put" /\ writer[w].mode = "replace" =>
    Usage + writer[w].nbytes <= QUOTA + writer[w].late

(* fs_tools.py:113 "Reject before touching disk if it would blow the       *)
(* workspace quota."  A caller that appends does blow it, with nobody else *)
(* there: what the file holds is taken off the usage for appending, which  *)
(* keeps it, and not for replacing, which does not.                        *)
WithinQuota ==
  \A w \in Writers : writer[w].at = "put" /\ writer[w].late = 0 =>
    Usage + writer[w].nbytes <= QUOTA
=============================================================================
