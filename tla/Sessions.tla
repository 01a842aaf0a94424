------------------------------ MODULE Sessions ------------------------------
(***************************************************************************)
(* app/sessions.py: one file per work session, a checkpoint appended by    *)
(* rewriting it; every tool but session_delete ends or begins with _prune, *)
(* which reads all files and then unlinks the stale ones one by one.  Any  *)
(* number of calls prune at once; one at a time writes a given session.    *)
(* A session's content is the number of its checkpoints.                   *)
(***************************************************************************)
EXTENDS Integers

CONSTANTS
  Callers,           \* tool calls that can be under way at once
  Ids,               \* session ids (slugs)
  RETENTION_DAYS,    \* 0: sessions are kept for ever
  Ages,              \* what session_prune is given besides 0
  Days, MaxEntries,  \* bounds
  Missing, Torn      \* no such file; less than one JSON text in it

VARIABLES
  now,    \* today, in days
  files,  \* SESSIONS_DIR
  call,   \* the call each caller is in
  kept,   \* checkpoints whose sender was answered, as long as they are owed
  raced   \* history: sessions whose last checkpoint was answered although their
          \* file was gone, or found stale by a prune that was still unlinking

vars == <<now, files, call, kept, raced>>

Session == [updated : 0 .. Days, entries : 1 .. MaxEntries]
Idle == [at |-> "idle"]
Saving == [at : {"truncate", "flush", "deleted"}, id : Ids, data : Session, anew : BOOLEAN, day : 0 .. Days]
(* The checkpoints owed, and the day the last of them was asked for.       *)
Owed == [entries : 0 .. MaxEntries, day : 0 .. Days]
Nothing == [entries |-> 0, day |-> 0]
Pruning == [at : {"prune"}, days : Ages \cup {RETENTION_DAYS}]
             \cup [at : {"unlink"}, stale : SUBSET Ids]

(* What the constants stand for.                                           *)
ConstantsOK ==
  /\ RETENTION_DAYS \in Int /\ Ages \subseteq Int
  /\ Days \in Nat /\ MaxEntries \in Nat \ {0}
  /\ Missing # Torn /\ Missing \notin Session /\ Torn \notin Session

TypeOK ==
  /\ now \in 0 .. Days
  /\ files \in [Ids -> Session \cup {Missing, Torn}]
  /\ call \in [Callers -> {Idle} \cup Saving \cup Pruning]
  /\ kept \in [Ids -> Owed]
  /\ raced \in SUBSET Ids

Init ==
  /\ now = 0
  /\ files = [s \in Ids |-> Missing]
  /\ call = [c \in Callers |-> Idle]
  /\ kept = [s \in Ids |-> Nothing]
  /\ raced = {}

Go(c, next) == call' = [call EXCEPT ![c] = next]

-----------------------------------------------------------------------------
(* _load: None for a file that is missing or unreadable.                   *)
Readable(s) == files[s] \notin {Missing, Torn}

Writing(c, s) == call[c].at \in {"truncate", "flush", "deleted"} /\ call[c].id = s

ContinuedAsOf(s) == [files[s] EXCEPT !.entries = @ + 1]

Continued(s) == [updated |-> now, entries |-> files[s].entries + 1]

(* byId: session_id is given and the session is continued if it can be     *)
(* read; else one of that title is begun, over any that is there.          *)
SessionSave(c, s, byId) ==
  LET goOn == byId /\ Readable(s) IN
  /\ call[c] = Idle
  /\ \A d \in Callers : ~ Writing(d, s)
  /\ goOn => files[s].entries < MaxEntries
  /\ Go(c, [at |-> "truncate", id |-> s, anew |-> ~ byId, day |-> now,
            data |-> IF goOn THEN Continued(s) ELSE [updated |-> now, entries |-> 1]])
  /\ UNCHANGED <<now, files, kept, raced>>

Truncate(c) ==
  /\ call[c].at = "truncate"
  /\ files' = [files EXCEPT ![call[c].id] = Torn]
  /\ kept' = IF call[c].anew THEN [kept EXCEPT ![call[c].id] = Nothing] ELSE kept
  /\ Go(c, [call[c] EXCEPT !.at = "flush"])
  /\ UNCHANGED <<now, raced>>

(* A prune has found the session stale and has yet to unlink its file.     *)
Condemned(s) == \E d \in Callers : call[d].at = "unlink" /\ s \in call[d].stale

(* A file unlinked since it was opened stays away; a condemned one goes    *)
(* afterwards.  The sender is answered "Saved checkpoint" all the same,    *)
(* and so the checkpoint is owed, unless the session was deleted meanwhile.*)
Flush(c) ==
  LET s == call[c].id
      asked == call[c].at = "flush"
  IN
  /\ call[c].at \in {"flush", "deleted"}
  /\ files' = IF files[s] = Missing THEN files ELSE [files EXCEPT ![s] = call[c].data]
  /\ kept' = IF asked THEN [kept EXCEPT ![s] = [entries |-> call[c].data.entries, day |-> call[c].day]]
             ELSE kept
  /\ raced' = IF asked /\ (files[s] = Missing \/ Condemned(s)) THEN raced \cup {s} ELSE raced \ {s}
  /\ Go(c, [at |-> "prune", days |-> RETENTION_DAYS])
  /\ UNCHANGED now

Prune(c, days) ==
  /\ call[c] = Idle
  /\ Go(c, [at |-> "prune", days |-> days])
  /\ UNCHANGED <<now, files, kept, raced>>

SessionPrune(c) == \E days \in Ages \cup {RETENTION_DAYS} : Prune(c, days)
SessionList(c) == Prune(c, RETENTION_DAYS)
SessionLoad(c) == Prune(c, RETENTION_DAYS)
Recent(c) == Prune(c, RETENTION_DAYS)     \* bootstrap

Stale(s, days) == Readable(s) /\ now - files[s].updated > days

(* The files are read and judged.  What is older than the caller's days by *)
(* its last answered checkpoint is owed no longer.                         *)
Judge(c) ==
  LET days == call[c].days
      stale == IF days <= 0 THEN {} ELSE {s \in Ids : Stale(s, days)}
  IN
  /\ call[c].at = "prune"
  /\ Go(c, IF stale = {} THEN Idle ELSE [at |-> "unlink", stale |-> stale])
  /\ kept' = [s \in Ids |-> IF s \in stale /\ now - kept[s].day > days THEN Nothing ELSE kept[s]]
  /\ UNCHANGED <<now, files, raced>>

Unlink(c, s) ==
  /\ call[c].at = "unlink" /\ s \in call[c].stale
  /\ files' = [files EXCEPT ![s] = Missing]
  /\ Go(c, IF call[c].stale = {s} THEN Idle ELSE [call[c] EXCEPT !.stale = @ \ {s}])
  /\ UNCHANGED <<now, kept, raced>>

(* A checkpoint that is being filled in goes with its session.             *)
SessionDelete(s) ==
  /\ files[s] # Missing
  /\ files' = [files EXCEPT ![s] = Missing]
  /\ kept' = [kept EXCEPT ![s] = Nothing]
  /\ call' = [c \in Callers |-> IF call[c].at = "flush" /\ call[c].id = s
                                 THEN [call[c] EXCEPT !.at = "deleted"] ELSE call[c]]
  /\ UNCHANGED <<now, raced>>

(* The server dies; a file just truncated stays so.                        *)
Restart ==
  /\ \E c \in Callers : call[c] # Idle
  /\ call' = [c \in Callers |-> Idle]
  /\ kept' = [s \in Ids |-> IF files[s] = Torn THEN Nothing ELSE kept[s]]
  /\ UNCHANGED <<now, files, raced>>

Tomorrow == now < Days /\ now' = now + 1 /\ UNCHANGED <<files, call, kept, raced>>

Next ==
  \/ \E c \in Callers, s \in Ids :
       Unlink(c, s) \/ \E byId \in BOOLEAN : SessionSave(c, s, byId)
  \/ \E c \in Callers : Truncate(c) \/ Flush(c) \/ Judge(c)
  \/ \E c \in Callers : SessionPrune(c) \/ SessionList(c) \/ SessionLoad(c) \/ Recent(c)
  \/ \E s \in Ids : SessionDelete(s)
  \/ Restart \/ Tomorrow

Spec == Init /\ [][Next]_vars

-----------------------------------------------------------------------------
(* What is owed for a session is in its file, or about to be again.        *)
Held(s) ==
  kept[s].entries > 0 =>
    \/ Readable(s) /\ files[s].entries >= kept[s].entries
    \/ \E c \in Callers : call[c].at = "flush" /\ call[c].id = s /\ files[s] = Torn
                            /\ call[c].data.entries > kept[s].entries

(* A checkpoint whose sender was told it is saved stays until its session  *)
(* is deleted, begun anew, caught by a crash while being rewritten, or     *)
(* judged after more days than allowed without a checkpoint; whatever      *)
(* other calls prune meanwhile.  The one exception is a checkpoint         *)
(* answered while a prune was removing its file: _prune had judged the     *)
(* file of before (sessions.py:86-90), and its unlink came between the     *)
(* truncation and the content, or is still to come.                        *)
CheckpointKept == \A s \in Ids \ raced : Held(s)

(* sessions.py:11-13 "any session not updated within                       *)
(* SESSION_RETENTION_DAYS ... is removed", and no other is.  The code does *)
(* not keep this when a save overlaps a prune of the session it updates.   *)
AnsweredIsKept == \A s \in Ids : Held(s)
=============================================================================
