----------------------------- MODULE Transfers -----------------------------
(***************************************************************************)
(* Files between /data and a server: app/webdav_tools.py, the SFTP tools   *)
(* of app/ssh_tools.py and ftp_upload of app/ftp_tools.py.  A file is      *)
(* written where it is to end, part by part; a transfer can break after    *)
(* any part, an answer can be lost, the process can die.  A server writes  *)
(* uploads as it receives them.  Nothing keeps two calls, or a call and    *)
(* another tool, off one file: what they make of it is not followed.       *)
(***************************************************************************)
EXTENDS Integers

CONSTANTS
  Callers,
  Names,        \* files under /data
  Paths,        \* of the server
  Parts,        \* parts of a whole file
  Missing

VARIABLES
  disk,         \* what has each name and each path
  call          \* the transfer of each caller, or its last answer

vars == <<disk, call>>

(* A file is whose content it has and how many parts of it.  Mixed: what   *)
(* is there, if anything, depends on how several calls came in between     *)
(* each other.                                                             *)
Dir == [of |-> "dir", parts |-> 0]
Mixed == [of |-> "mixed", parts |-> 0]
File == [of : Paths \cup Names, parts : 0 .. Parts] \cup {Mixed}
Places == Names \cup Paths

Told(what) == [at |-> "idle", told |-> what]

(* framed: is the end of what comes told from a connection that is cut     *)
(* off?  shared: has anybody else been at one of the two files?            *)
Copying == [at : {"copy"}, from : Places, to : Places, framed : BOOLEAN, shared : BOOLEAN]

(* What the constants stand for.                                           *)
ConstantsOK ==
  /\ Parts \in Nat /\ {"dir", "mixed"} \cap Places = {}
  /\ Missing \notin File /\ Missing # Dir

TypeOK ==
  /\ disk \in [Places -> File \cup {Dir, Missing}]
  /\ call \in [Callers -> {Told(w) : w \in {"nothing", "failed", "ok"}} \cup Copying]

(* Some files are there at first, on either side.                          *)
Init ==
  /\ disk \in [Places -> {Missing} \cup [of : Places, parts : {Parts}]]
  /\ \A p \in Places : disk[p] # Missing => disk[p].of = p
  /\ call = [c \in Callers |-> Told("nothing")]

-----------------------------------------------------------------------------
IsFile(p) == disk[p] \notin {Missing, Dir}

Reads(c, p) == call[c].at = "copy" /\ call[c].from = p
Writes(c, p) == call[c].at = "copy" /\ call[c].to = p

(* Somebody writes p: the calls at work on p share it, and what they write *)
(* is mixed from now on.                                                   *)
AtWork(p) == {c \in Callers : Reads(c, p) \/ Writes(c, p)}
Disturbed(p) == [c \in Callers |-> IF c \in AtWork(p) THEN [call[c] EXCEPT !.shared = TRUE] ELSE call[c]]
Spoilt(p) == {call[c].to : c \in AtWork(p)}
Placed(p, file) ==
  [q \in Places |-> IF q \in Spoilt(p) THEN Mixed ELSE IF q = p THEN file ELSE disk[q]]

Answer(c, what) == call' = [call EXCEPT ![c] = Told(what)]

(* What is there is cut off, before the first part comes.                  *)
Open(c, from, to, framed) ==
  LET shared == AtWork(to) # {} \/ \E d \in Callers : Writes(d, from) IN
  /\ disk' = Placed(to, IF shared THEN Mixed ELSE [of |-> disk[from].of, parts |-> 0])
  /\ call' = [Disturbed(to) EXCEPT ![c] =
                [at |-> "copy", from |-> from, to |-> to, framed |-> framed, shared |-> shared]]

(* A body may come without a length, and then ends with the connection.    *)
webdav_download(c, p, n) ==
  /\ call[c].at = "idle"
  /\ IF IsFile(p) THEN \E framed \in BOOLEAN : Open(c, p, n, framed)
     ELSE Answer(c, "failed") /\ UNCHANGED disk

(* sftp.get opens the local file before it asks for the remote one.        *)
ssh_download(c, p, n) ==
  /\ call[c].at = "idle"
  /\ IF IsFile(p) THEN Open(c, p, n, TRUE)
     ELSE /\ disk' = Placed(n, [of |-> p, parts |-> 0])
          /\ call' = [Disturbed(n) EXCEPT ![c] = Told("failed")]

(* A missing source is refused, as is one outside /data (ssh_upload takes  *)
(* /data-backup for inside); and so is the upload if there is no           *)
(* connection, no secret, or a folder in the place.                        *)
Upload(c, n, p) ==
  /\ call[c].at = "idle"
  /\ IF IsFile(n) /\ disk[p] # Dir THEN Open(c, n, p, TRUE)
     ELSE Answer(c, "failed") /\ UNCHANGED disk

webdav_upload(c, n, p) == Upload(c, n, p)
ssh_upload(c, n, p) == Upload(c, n, p)
ftp_upload(c, n, p) == Upload(c, n, p)

(* The end of what is read.                                                *)
Over(c) == disk[call[c].to].parts = disk[call[c].from].parts

Copy(c) ==
  /\ call[c].at = "copy" /\ ~ call[c].shared
  /\ ~ Over(c)
  /\ disk' = [disk EXCEPT ![call[c].to].parts = @ + 1]
  /\ UNCHANGED call

Finish(c) ==
  /\ call[c].at = "copy"
  /\ call[c].framed /\ ~ call[c].shared => Over(c)
  /\ Answer(c, "ok")
  /\ UNCHANGED disk

(* A read or a write fails, or the server's answer is no success or lost.  *)
Swallowed(c) ==
  /\ call[c].at = "copy"
  /\ Answer(c, "ok")
  /\ UNCHANGED disk
Break(c) ==
  /\ call[c].at = "copy"
  /\ Answer(c, "failed")
  /\ UNCHANGED disk

(* One request, answered or not, and done or not if it failed.             *)
Ask(c, p, done) ==
  /\ call[c].at = "idle"
  /\ \/ /\ disk' = Placed(p, done)
        /\ \E what \in {"ok", "failed"} : call' = [Disturbed(p) EXCEPT ![c] = Told(what)]
     \/ UNCHANGED disk /\ Answer(c, "failed")

(* 405 is "already exists", be it a folder or a file.                      *)
webdav_mkdir(c, p) == Ask(c, p, IF disk[p] = Missing THEN Dir ELSE disk[p])

(* 404 is as good as deleted.                                              *)
webdav_delete(c, p) == Ask(c, p, Missing)

(* fs_write, fs_move, fs_delete and the other tools that write to /data.   *)
OtherTool(n) ==
  /\ AtWork(n) # {}
  /\ \E file \in {Missing, Mixed} : disk' = Placed(n, file)
  /\ call' = Disturbed(n)

Restart ==
  /\ \E c \in Callers : call[c].at = "copy"
  /\ call' = [c \in Callers |-> Told("nothing")]
  /\ UNCHANGED disk

Next ==
  \/ \E c \in Callers, p \in Paths :
       \/ webdav_mkdir(c, p) \/ webdav_delete(c, p)
       \/ \E n \in Names :
            \/ webdav_download(c, p, n) \/ ssh_download(c, p, n)
            \/ webdav_upload(c, n, p) \/ ssh_upload(c, n, p) \/ ftp_upload(c, n, p)
  \/ \E c \in Callers : Copy(c) \/ Finish(c) \/ Break(c)
  \/ \E n \in Names : OtherTool(n)
  \/ Restart

Spec == Init /\ [][Next]_vars

-----------------------------------------------------------------------------
(* webdav_tools.py:213-215 and its likes: "Downloaded" and "Uploaded" are  *)
(* answered only when the file has come over entirely, and what a broken   *)
(* transfer leaves behind is never passed off as the file, provided that   *)
(* nobody else was at either file meanwhile and that what came had an end  *)
(* of its own.  Without the provisos it does not hold.                     *)
WholeWhenTold ==
  \A c \in Callers :
    call[c].at = "copy" /\ call[c].framed /\ ~ call[c].shared /\ call'[c] = Told("ok") =>
      disk'[call[c].to] = disk[call[c].from]
TransferredWhole == [][WholeWhenTold]_vars

(* It follows from this: what is being written is a part of what is read,  *)
(* and nobody writes what an undisturbed call reads or writes.             *)
PartOf(to, from) ==
  /\ to \in File /\ from \in File
  /\ to.of = from.of /\ to.parts <= from.parts

Undisturbed(c) == call[c].at = "copy" /\ ~ call[c].shared

InParts == \A c \in Callers : Undisturbed(c) => PartOf(disk[call[c].to], disk[call[c].from])

Apart ==
  \A c, d \in Callers : Undisturbed(c) /\ call[d].at = "copy" /\ c # d =>
    call[d].to \notin {call[c].from, call[c].to}

IInv == TypeOK /\ InParts /\ Apart
=============================================================================
