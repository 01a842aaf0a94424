--------------------------- MODULE Sessions_proofs ---------------------------
(***************************************************************************)
(* Proofs about Sessions, for any number of callers and sessions and any   *)
(* retention.                                                              *)
(*                                                                         *)
(* The argument: a session is written by one call at a time, so what a     *)
(* call is about to fill in has more checkpoints than are owed (Ahead).  A *)
(* call that has found a session stale takes the checkpoint off the owed   *)
(* ones with it, because the file is as young as the last of them (Dated). *)
(* From then on nothing is owed for the session, or it is owed since an    *)
(* answer that raced the unlink (Released).  All of this is said of the    *)
(* sessions not in raced; a session leaves raced only when it is written   *)
(* again with no prune at its file, and then its file holds what is owed.  *)
(***************************************************************************)
EXTENDS Sessions, TLAPS

Call == {Idle} \cup Saving \cup Pruning

OneWriter ==
  \A c, d \in Callers, s \in Ids : Writing(c, s) /\ Writing(d, s) => c = d

(* The file is dated as of the call.                                       *)
DataDated ==
  \A c \in Callers : call[c].at \in {"truncate", "flush"} => call[c].data.updated = call[c].day

Ahead ==
  \A c \in Callers : call[c].at = "truncate" /\ ~ call[c].anew /\ call[c].id \notin raced =>
    call[c].data.entries > kept[call[c].id].entries

Dated ==
  \A s \in Ids \ raced : Readable(s) /\ kept[s].entries > 0 => kept[s].day <= files[s].updated

DeletedOwesNothing ==
  \A c \in Callers : call[c].at = "deleted" => kept[call[c].id].entries = 0

Released == \A s \in Ids \ raced : Condemned(s) => kept[s].entries = 0

IInv ==
  /\ TypeOK /\ OneWriter /\ DataDated /\ Ahead /\ DeletedOwesNothing
  /\ Dated /\ Released /\ CheckpointKept

-----------------------------------------------------------------------------
(* What the kinds of calls look like.                                      *)
LEMMA CallKinds ==
  ASSUME TypeOK, NEW c \in Callers
  PROVE  /\ call[c] \in Call
         /\ call[c].at \in {"truncate", "flush", "deleted"} => call[c] \in Saving
         /\ call[c].at = "unlink" => call[c] \in [at : {"unlink"}, stale : SUBSET Ids]
         /\ call[c].at = "prune" =>
              call[c] \in [at : {"prune"}, days : Ages \cup {RETENTION_DAYS}]
         /\ call[c] = Idle => call[c].at = "idle"
BY DEF TypeOK, Call, Idle, Saving, Pruning

LEMMA FileKinds ==
  ASSUME ConstantsOK, TypeOK, NEW s \in Ids
  PROVE  /\ files[s] \in Session \cup {Missing, Torn}
         /\ Readable(s) <=> files[s] \in Session
         /\ Readable(s) => files[s].entries \in 1 .. MaxEntries /\ files[s].updated \in 0 .. Days
         /\ kept[s].entries \in 0 .. MaxEntries /\ kept[s].day \in 0 .. Days
BY DEF ConstantsOK, TypeOK, Readable, Session, Owed

LEMMA NothingOwed == ConstantsOK => Nothing \in Owed
BY DEF ConstantsOK, Nothing, Owed

LEMMA InitInv == ASSUME ConstantsOK, Init PROVE IInv
<1> USE DEF Init, Idle, Nothing
<1>1. TypeOK
  BY DEF ConstantsOK, TypeOK, Owed
<1>2. OneWriter /\ DataDated /\ Ahead /\ DeletedOwesNothing /\ Released
  BY DEF OneWriter, Writing, DataDated, Ahead, DeletedOwesNothing, Released, Condemned
<1>3. Dated /\ CheckpointKept
  BY DEF Dated, CheckpointKept, Held
<1> QED
  BY <1>1, <1>2, <1>3 DEF IInv

(* A step that only changes one call, which then writes nothing and has    *)
(* judged nothing.                                                         *)
LEMMA CallStep ==
  ASSUME IInv, NEW c \in Callers, NEW next \in Call, call' = [call EXCEPT ![c] = next],
         UNCHANGED <<now, files, kept, raced>>, call[c].at \notin {"flush", "deleted"},
         next.at \in {"idle", "prune"}
  PROVE  IInv'
<1> USE DEF IInv
<1>1. TypeOK'
  BY DEF TypeOK, Call
<1>2. call'[c] = next /\ \A d \in Callers : d # c => call'[d] = call[d]
  BY DEF TypeOK
<1>3. OneWriter' /\ DataDated' /\ Ahead' /\ DeletedOwesNothing'
  BY <1>2 DEF OneWriter, Writing, DataDated, Ahead, DeletedOwesNothing
<1>4. Dated' /\ Released'
  BY <1>2 DEF Dated, Readable, Released, Condemned
<1>5. CheckpointKept'
  BY <1>2 DEF CheckpointKept, Held, Readable
<1> QED
  BY <1>1, <1>3, <1>4, <1>5

LEMMA PruneStep ==
  ASSUME IInv, NEW c \in Callers, NEW days \in Ages \cup {RETENTION_DAYS}, Prune(c, days)
  PROVE  IInv'
<1> DEFINE next == [at |-> "prune", days |-> days]
<1>1. next \in Call /\ next.at = "prune"
  BY DEF Call, Pruning
<1>2. call[c].at = "idle"
  BY DEF Prune, Idle
<1>3. call' = [call EXCEPT ![c] = next] /\ UNCHANGED <<now, files, kept, raced>>
  BY DEF Prune, Go
<1> HIDE DEF next
<1> QED
  BY <1>1, <1>2, <1>3, CallStep

(* One writer at a time, and more checkpoints than are owed.               *)
LEMMA SaveStep ==
  ASSUME ConstantsOK, IInv, NEW c \in Callers, NEW s \in Ids, NEW byId \in BOOLEAN,
         SessionSave(c, s, byId)
  PROVE  IInv'
<1> DEFINE goOn == byId /\ Readable(s)
           data == IF goOn THEN Continued(s) ELSE [updated |-> now, entries |-> 1]
           next == [at |-> "truncate", id |-> s, anew |-> ~ byId, day |-> now, data |-> data]
<1> USE DEF IInv
<1>1. data \in Session /\ data.updated = now
  BY FileKinds DEF SessionSave, Continued, Session, TypeOK, ConstantsOK
<1>2. next \in Saving
  BY <1>1 DEF Saving, TypeOK
<1>3. call' = [call EXCEPT ![c] = next] /\ UNCHANGED <<now, files, kept, raced>>
  BY DEF SessionSave, Go
<1>4. call'[c] = next /\ \A d \in Callers : d # c => call'[d] = call[d]
  BY <1>3 DEF TypeOK
<1>5. TypeOK'
  BY <1>2, <1>3 DEF TypeOK
<1>6. \A d \in Callers : ~ Writing(d, s)
  BY DEF SessionSave
<1>7. OneWriter' /\ DataDated'
  BY <1>1, <1>4, <1>6 DEF OneWriter, DataDated, Writing
<1>8. data.entries > kept[s].entries \/ ~ byId \/ s \in raced
  <2>1. CASE Readable(s)
    <3>1. s \notin raced /\ kept[s].entries > 0 => files[s].entries >= kept[s].entries
      BY <1>6, <2>1 DEF CheckpointKept, Held, Writing, Readable
    <3>2. byId => data.entries = files[s].entries + 1
      BY <2>1 DEF Continued
    <3> QED
      BY <2>1, <3>1, <3>2, FileKinds DEF ConstantsOK
  <2>2. CASE ~ Readable(s)
    <3>1. s \in raced \/ kept[s].entries = 0
      BY <1>6, <2>2, FileKinds DEF CheckpointKept, Held, Writing, ConstantsOK
    <3> QED
      BY <2>2, <3>1
  <2> QED
    BY <2>1, <2>2
<1>9. Ahead' /\ DeletedOwesNothing'
  <2>1. next.at = "truncate" /\ next.id = s /\ next.anew = ~ byId /\ next.data = data
    OBVIOUS
  <2> HIDE DEF data, next
  <2>2. Ahead'
    <3> SUFFICES ASSUME NEW d \in Callers, call'[d].at = "truncate", ~ call'[d].anew,
                        call'[d].id \notin raced
                 PROVE  call'[d].data.entries > kept[call'[d].id].entries
      BY <1>3 DEF Ahead
    <3>1. CASE d = c
      <4>1. ~ next.anew => byId
        BY <2>1
      <4>2. byId
        BY <1>4, <3>1, <4>1
      <4> QED
        BY <1>4, <1>8, <2>1, <3>1, <4>2
    <3>2. CASE d # c
      BY <1>4, <3>2 DEF Ahead
    <3> QED
      BY <3>1, <3>2
  <2>3. DeletedOwesNothing'
    BY <1>3, <1>4, <2>1 DEF DeletedOwesNothing
  <2> QED
    BY <2>2, <2>3
<1>10. Dated' /\ Released' /\ CheckpointKept'
  BY <1>3, <1>4 DEF Dated, Readable, Released, Condemned, CheckpointKept, Held, SessionSave, Idle
<1> QED
  BY <1>5, <1>7, <1>9, <1>10

(* The file is gone to the call that fills it, and to the others.          *)
LEMMA TruncateStep ==
  ASSUME ConstantsOK, IInv, NEW c \in Callers, Truncate(c)
  PROVE  IInv'
<1> DEFINE s == call[c].id
           next == [call[c] EXCEPT !.at = "flush"]
<1> USE DEF IInv
<1>1. call[c] \in Saving /\ s \in Ids /\ call[c].at = "truncate"
  BY CallKinds DEF Truncate, Saving
<1>2. next \in Saving /\ next.at = "flush" /\ next.id = s /\ next.data = call[c].data
      /\ next.day = call[c].day /\ next.anew = call[c].anew
  BY <1>1 DEF Saving
<1>3. call'[c] = next /\ \A d \in Callers : d # c => call'[d] = call[d]
  BY DEF Truncate, Go, TypeOK
<1>4. files'[s] = Torn /\ \A t \in Ids : t # s => files'[t] = files[t]
  BY <1>1 DEF Truncate, TypeOK
<1>5. /\ kept'[s] = IF call[c].anew THEN Nothing ELSE kept[s]
      /\ \A t \in Ids : t # s => kept'[t] = kept[t]
  BY <1>1 DEF Truncate, TypeOK
<1>6. now' = now /\ raced' = raced
  BY DEF Truncate
<1> HIDE DEF next
<1>7. TypeOK'
  <2>1. call' \in [Callers -> {Idle} \cup Saving \cup Pruning]
    BY <1>2 DEF Truncate, Go, TypeOK, next
  <2>2. files' \in [Ids -> Session \cup {Missing, Torn}]
    BY DEF Truncate, TypeOK
  <2>3. kept' \in [Ids -> Owed]
    BY NothingOwed DEF Truncate, TypeOK
  <2> QED
    BY <1>6, <2>1, <2>2, <2>3 DEF TypeOK
<1>8. OneWriter' /\ DataDated'
  BY <1>1, <1>2, <1>3 DEF OneWriter, Writing, DataDated
<1>9. Ahead' /\ DeletedOwesNothing'
  <2>1. ASSUME NEW d \in Callers, call'[d].at \in {"truncate", "deleted"}
        PROVE  call'[d] = call[d] /\ call[d].id \in Ids \ {s}
    <3>1. d # c /\ call'[d] = call[d] /\ call[d].id \in Ids
      BY <1>2, <1>3, <2>1, CallKinds DEF Saving
    <3> QED
      BY <1>1, <2>1, <3>1 DEF OneWriter, Writing
  <2> QED
    BY <1>5, <1>6, <2>1 DEF Ahead, DeletedOwesNothing
<1>10. Dated'
  BY <1>4, <1>5, <1>6 DEF Dated, Readable
<1>11. Released'
  BY <1>2, <1>3, <1>5, <1>6 DEF Released, Condemned, Nothing
<1>12. CheckpointKept'
  <2> SUFFICES ASSUME NEW t \in Ids, t \notin raced', kept'[t].entries > 0
               PROVE  \/ Readable(t)' /\ files'[t].entries >= kept'[t].entries
                      \/ \E d \in Callers : call'[d].at = "flush" /\ call'[d].id = t
                           /\ files'[t] = Torn /\ call'[d].data.entries > kept'[t].entries
    BY DEF CheckpointKept, Held
  <2>1. CASE t = s
    BY <1>1, <1>2, <1>3, <1>4, <1>5, <1>6, <2>1 DEF Ahead, Nothing
  <2>2. CASE t # s
    BY <1>1, <1>3, <1>4, <1>5, <1>6, <2>2 DEF CheckpointKept, Held, Readable
  <2> QED
    BY <2>1, <2>2
<1> QED
  BY <1>7, <1>8, <1>9, <1>10, <1>11, <1>12

(* The answer: what is filled in is owed from now on, and is in the file,  *)
(* unless a prune is at it, or the session was deleted.                    *)
LEMMA FlushStep ==
  ASSUME ConstantsOK, IInv, NEW c \in Callers, Flush(c)
  PROVE  IInv'
<1> DEFINE s == call[c].id
           next == [at |-> "prune", days |-> RETENTION_DAYS]
           owed == [entries |-> call[c].data.entries, day |-> call[c].day]
<1> USE DEF IInv
<1>1. call[c] \in Saving /\ s \in Ids /\ call[c].at \in {"flush", "deleted"}
      /\ call[c].data \in Session
  BY CallKinds DEF Flush, Saving
<1>2. next \in Pruning /\ next.at = "prune"
  BY DEF Pruning
<1>3. call'[c] = next /\ \A d \in Callers : d # c => call'[d] = call[d]
  BY DEF Flush, Go, TypeOK
<1>4. /\ files'[s] = IF files[s] = Missing THEN Missing ELSE call[c].data
      /\ \A t \in Ids : t # s => files'[t] = files[t]
  BY <1>1 DEF Flush, TypeOK
<1>5. /\ kept'[s] = IF call[c].at = "flush" THEN owed ELSE kept[s]
      /\ \A t \in Ids : t # s => kept'[t] = kept[t]
  BY <1>1 DEF Flush, TypeOK
<1>6. /\ now' = now
      /\ call[c].at = "flush" /\ s \notin raced' => files[s] # Missing /\ ~ Condemned(s)
      /\ \A t \in Ids : t # s => (t \in raced' <=> t \in raced)
  BY DEF Flush
<1>7. TypeOK'
  <2>1. call' \in [Callers -> {Idle} \cup Saving \cup Pruning]
    BY <1>2 DEF Flush, Go, TypeOK
  <2>2. files' \in [Ids -> Session \cup {Missing, Torn}]
    BY <1>1 DEF Flush, TypeOK
  <2>3. owed \in Owed
    BY <1>1 DEF Owed, Session, Saving, ConstantsOK
  <2>4. kept' \in [Ids -> Owed]
    BY <1>1, <2>3 DEF Flush, TypeOK
  <2>5. raced' \in SUBSET Ids
    BY <1>1 DEF Flush, TypeOK
  <2> QED
    BY <1>6, <2>1, <2>2, <2>4, <2>5 DEF TypeOK
<1>8. call[c].at = "flush" => owed.day = call[c].data.updated
  BY DEF DataDated
<1>9. owed.entries = call[c].data.entries /\ owed.entries \in Nat \ {0} /\ owed.day \in Nat
  BY <1>1 DEF Session, Saving, ConstantsOK
<1>10. call[c].at # "flush" => call[c].at = "deleted" /\ kept[s].entries = 0
  BY <1>1 DEF DeletedOwesNothing
<1> HIDE DEF next, owed
<1>11. OneWriter' /\ DataDated'
  BY <1>2, <1>3 DEF OneWriter, Writing, DataDated
<1>12. Ahead' /\ DeletedOwesNothing'
  <2>1. ASSUME NEW d \in Callers, call'[d].at \in {"truncate", "deleted"}
        PROVE  call'[d] = call[d] /\ call[d].id \in Ids \ {s}
    <3>1. d # c /\ call'[d] = call[d] /\ call[d].id \in Ids
      BY <1>2, <1>3, <2>1, CallKinds DEF Saving
    <3> QED
      BY <1>1, <2>1, <3>1 DEF OneWriter, Writing
  <2> QED
    BY <1>5, <1>6, <2>1 DEF Ahead, DeletedOwesNothing
<1>13. Dated'
  <2> SUFFICES ASSUME NEW t \in Ids, t \notin raced', Readable(t)', kept'[t].entries > 0
               PROVE  kept'[t].day <= files'[t].updated
    BY DEF Dated
  <2>1. CASE t = s
    <3>1. kept'[s] = owed /\ owed.day = call[c].data.updated
      BY <1>5, <1>8, <1>10, <2>1
    <3>2. files'[s] = call[c].data
      BY <1>4, <2>1 DEF Readable
    <3> QED
      BY <1>9, <2>1, <3>1, <3>2
  <2>2. CASE t # s
    BY <1>4, <1>5, <1>6, <2>2 DEF Dated, Readable
  <2> QED
    BY <2>1, <2>2
<1>14. Released'
  <2>1. \A t \in Ids : Condemned(t)' => Condemned(t)
    BY <1>2, <1>3 DEF Condemned
  <2> QED
    BY <1>5, <1>6, <1>10, <2>1 DEF Released
<1>15. CheckpointKept'
  <2> SUFFICES ASSUME NEW t \in Ids, t \notin raced', kept'[t].entries > 0
               PROVE  \/ Readable(t)' /\ files'[t].entries >= kept'[t].entries
                      \/ \E d \in Callers : call'[d].at = "flush" /\ call'[d].id = t
                           /\ files'[t] = Torn /\ call'[d].data.entries > kept'[t].entries
    BY DEF CheckpointKept, Held
  <2>1. CASE t = s
    <3>1. kept'[s] = owed /\ files[s] # Missing
      BY <1>5, <1>6, <1>10, <2>1
    <3> QED
      BY <1>1, <1>4, <1>9, <2>1, <3>1 DEF Readable, ConstantsOK
  <2>2. CASE t # s
    BY <1>1, <1>3, <1>4, <1>5, <1>6, <2>2 DEF CheckpointKept, Held, Readable
  <2> QED
    BY <2>1, <2>2
<1> QED
  BY <1>7, <1>11, <1>12, <1>13, <1>14, <1>15

(* What is judged stale is no longer owed anything, whatever its file says.*)
LEMMA JudgeStep ==
  ASSUME ConstantsOK, IInv, NEW c \in Callers, Judge(c)
  PROVE  IInv'
<1> DEFINE days == call[c].days
           stale == IF days <= 0 THEN {} ELSE {s \in Ids : Stale(s, days)}
           next == IF stale = {} THEN Idle ELSE [at |-> "unlink", stale |-> stale]
<1> USE DEF IInv
<1>1. call[c].at = "prune" /\ days \in Int
  BY CallKinds DEF Judge, ConstantsOK
<1>2. stale \subseteq Ids
  OBVIOUS
<1>3. /\ next \in Call /\ next.at \in {"idle", "unlink"}
      /\ next.at = "unlink" => next.stale = stale
  BY <1>2 DEF Call, Pruning, Idle
<1>4. /\ now' = now /\ files' = files /\ raced' = raced
      /\ call' = [call EXCEPT ![c] = next]
      /\ kept' = [s \in Ids |-> IF s \in stale /\ now - kept[s].day > days THEN Nothing ELSE kept[s]]
  BY DEF Judge, Go
<1>5. \A s \in stale : Readable(s) /\ now - files[s].updated > days
  BY DEF Stale
<1> HIDE DEF next, stale, days
<1>6. call'[c] = next /\ \A d \in Callers : d # c => call'[d] = call[d]
  BY <1>4 DEF TypeOK
<1>7. \A s \in Ids : kept'[s] = Nothing \/ kept'[s] = kept[s]
  BY <1>4
<1>8. \A s \in stale : s \notin raced => kept'[s].entries = 0
  <2> SUFFICES ASSUME NEW s \in stale, s \notin raced, kept[s].entries # 0
               PROVE  now - kept[s].day > days
    BY <1>2, <1>4 DEF Nothing
  <2>1. kept[s].day <= files[s].updated
    BY <1>2, <1>5, FileKinds DEF Dated, ConstantsOK
  <2>2. now \in Int /\ kept[s].day \in Int /\ files[s].updated \in Int
    BY <1>2, <1>5, FileKinds DEF TypeOK, ConstantsOK
  <2> QED
    BY <1>1, <1>5, <2>1, <2>2
<1>9. TypeOK'
  <2>1. call' \in [Callers -> {Idle} \cup Saving \cup Pruning]
    BY <1>3, <1>4 DEF TypeOK, Call
  <2>2. kept' \in [Ids -> Owed]
    BY <1>4, NothingOwed DEF TypeOK
  <2> QED
    BY <1>4, <2>1, <2>2 DEF TypeOK
<1>10. OneWriter' /\ DataDated'
  BY <1>3, <1>6 DEF OneWriter, Writing, DataDated
<1>11. Ahead' /\ DeletedOwesNothing'
  <2>1. ASSUME NEW d \in Callers, call'[d].at \in {"truncate", "deleted"}
        PROVE  call'[d] = call[d] /\ call[d].id \in Ids /\ call[d].data.entries \in Nat \ {0}
    BY <1>3, <1>6, <2>1, CallKinds DEF Saving, Session, ConstantsOK
  <2> QED
    BY <1>4, <1>7, <2>1 DEF Ahead, DeletedOwesNothing, Nothing
<1>12. Dated'
  BY <1>4, <1>7 DEF Dated, Readable, Nothing
<1>13. Released'
  <2> SUFFICES ASSUME NEW s \in Ids, s \notin raced, NEW d \in Callers, call'[d].at = "unlink",
                      s \in call'[d].stale
               PROVE  kept'[s].entries = 0
    BY <1>4 DEF Released, Condemned
  <2>1. CASE d = c
    BY <1>3, <1>6, <1>8, <2>1
  <2>2. CASE d # c
    BY <1>6, <1>7, <2>2 DEF Released, Condemned, Nothing
  <2> QED
    BY <2>1, <2>2
<1>14. CheckpointKept'
  BY <1>1, <1>4, <1>6, <1>7 DEF CheckpointKept, Held, Readable, Nothing
<1> QED
  BY <1>9, <1>10, <1>11, <1>12, <1>13, <1>14

(* Of a session that is unlinked nothing is owed, or since a racing answer.*)
LEMMA UnlinkStep ==
  ASSUME ConstantsOK, IInv, NEW c \in Callers, NEW s \in Ids, Unlink(c, s)
  PROVE  IInv'
<1> DEFINE next == IF call[c].stale = {s} THEN Idle ELSE [call[c] EXCEPT !.stale = @ \ {s}]
<1> USE DEF IInv
<1>1. call[c] \in [at : {"unlink"}, stale : SUBSET Ids] /\ s \in call[c].stale
      /\ call[c].at = "unlink"
  BY CallKinds DEF Unlink
<1>2. /\ next \in Call /\ next.at \in {"idle", "unlink"}
      /\ next.at = "unlink" => next.stale \subseteq call[c].stale
  BY <1>1 DEF Call, Pruning, Idle
<1>3. UNCHANGED <<now, kept, raced>> /\ call' = [call EXCEPT ![c] = next]
  BY DEF Unlink, Go
<1>4. files'[s] = Missing /\ (\A t \in Ids : t # s => files'[t] = files[t])
      /\ files' \in [Ids -> Session \cup {Missing, Torn}]
  BY DEF Unlink, TypeOK
<1> HIDE DEF next
<1>5. call'[c] = next /\ \A d \in Callers : d # c => call'[d] = call[d]
  BY <1>3 DEF TypeOK
<1>6. TypeOK'
  BY <1>2, <1>3, <1>4 DEF TypeOK, Call
<1>7. OneWriter' /\ DataDated' /\ Ahead' /\ DeletedOwesNothing'
  BY <1>2, <1>3, <1>5 DEF OneWriter, Writing, DataDated, Ahead, DeletedOwesNothing
<1>8. Dated'
  BY <1>3, <1>4 DEF Dated, Readable
<1>9. Released'
  BY <1>1, <1>2, <1>3, <1>5 DEF Released, Condemned
<1>10. s \in raced \/ kept[s].entries = 0
  BY <1>1 DEF Released, Condemned
<1>11. CheckpointKept'
  BY <1>1, <1>3, <1>4, <1>5, <1>10 DEF CheckpointKept, Held, Readable
<1> QED
  BY <1>6, <1>7, <1>8, <1>9, <1>11

LEMMA DeleteStep ==
  ASSUME ConstantsOK, IInv, NEW s \in Ids, SessionDelete(s)
  PROVE  IInv'
<1> USE DEF IInv
<1>1. UNCHANGED <<now, raced>>
  BY DEF SessionDelete
<1>2. files'[s] = Missing /\ (\A t \in Ids : t # s => files'[t] = files[t])
      /\ files' \in [Ids -> Session \cup {Missing, Torn}]
  BY DEF SessionDelete, TypeOK
<1>3. kept'[s].entries = 0 /\ (\A t \in Ids : t # s => kept'[t] = kept[t])
      /\ kept' \in [Ids -> Owed]
  BY NothingOwed DEF SessionDelete, TypeOK, Nothing
<1>4. ASSUME NEW d \in Callers
      PROVE  \/ /\ call[d].at = "flush" /\ call[d].id = s /\ call[d] \in Saving
                /\ call'[d] = [call[d] EXCEPT !.at = "deleted"]
             \/ call'[d] = call[d] /\ ~ (call[d].at = "flush" /\ call[d].id = s)
  BY CallKinds DEF SessionDelete
<1>5. ASSUME NEW d \in Callers, call'[d] # call[d]
      PROVE  /\ call[d].at = "flush" /\ call[d].id = s /\ call'[d] \in Saving
             /\ call'[d].at = "deleted" /\ call'[d].id = s
  BY <1>4, <1>5 DEF Saving
<1>6. TypeOK'
  <2>1. \A d \in Callers : call'[d] \in {Idle} \cup Saving \cup Pruning
    BY <1>5 DEF TypeOK
  <2>2. call' \in [Callers -> {Idle} \cup Saving \cup Pruning]
    BY <2>1 DEF SessionDelete
  <2> QED
    BY <1>1, <1>2, <1>3, <2>2 DEF TypeOK
<1>7. OneWriter' /\ DataDated'
  BY <1>5 DEF OneWriter, Writing, DataDated
<1>8. ASSUME NEW d \in Callers, call'[d].at \in {"truncate", "deleted"}
      PROVE  \/ call'[d] = call[d] /\ call[d].id \in Ids /\ call[d].data.entries \in Nat \ {0}
             \/ call'[d].at = "deleted" /\ call'[d].id = s
  BY <1>5, <1>8, CallKinds DEF Saving, Session, ConstantsOK
<1>9. Ahead' /\ DeletedOwesNothing'
  BY <1>1, <1>3, <1>8 DEF Ahead, DeletedOwesNothing
<1>10. \A t \in Ids : Condemned(t)' => Condemned(t)
  BY <1>5 DEF Condemned
<1>11. Dated' /\ Released'
  BY <1>1, <1>2, <1>3, <1>10 DEF Dated, Readable, Released
<1>12. CheckpointKept'
  <2> SUFFICES ASSUME NEW t \in Ids, t \notin raced, kept'[t].entries > 0
               PROVE  \/ Readable(t)' /\ files'[t].entries >= kept'[t].entries
                      \/ \E d \in Callers : call'[d].at = "flush" /\ call'[d].id = t
                           /\ files'[t] = Torn /\ call'[d].data.entries > kept'[t].entries
    BY <1>1 DEF CheckpointKept, Held
  <2>1. t # s /\ kept[t].entries > 0
    BY <1>3
  <2>2. kept'[t] = kept[t] /\ files'[t] = files[t]
    BY <1>2, <1>3, <2>1
  <2>3. \A d \in Callers : call[d].id = t => call'[d] = call[d]
    BY <1>4, <2>1
  <2> QED
    BY <2>1, <2>2, <2>3 DEF CheckpointKept, Held, Readable
<1> QED
  BY <1>1, <1>6, <1>7, <1>9, <1>11, <1>12

(* A session torn by the crash is owed nothing; the others can be read.    *)
LEMMA RestartStep ==
  ASSUME ConstantsOK, IInv, Restart
  PROVE  IInv'
<1> USE DEF IInv
<1>1. UNCHANGED <<now, files, raced>> /\ \A c \in Callers : call'[c] = Idle /\ call'[c].at = "idle"
  BY DEF Restart, Idle
<1>2. \A s \in Ids : kept'[s] = IF files[s] = Torn THEN Nothing ELSE kept[s]
  BY DEF Restart
<1>3. TypeOK'
  BY NothingOwed DEF Restart, TypeOK
<1>4. OneWriter' /\ DataDated' /\ Ahead' /\ DeletedOwesNothing' /\ Released'
  BY <1>1 DEF OneWriter, Writing, DataDated, Ahead, DeletedOwesNothing, Released, Condemned
<1>5. Dated' /\ CheckpointKept'
  BY <1>1, <1>2 DEF Dated, Readable, Nothing, CheckpointKept, Held
<1> QED
  BY <1>3, <1>4, <1>5

LEMMA TomorrowStep ==
  ASSUME ConstantsOK, IInv, Tomorrow \/ UNCHANGED vars
  PROVE  IInv'
<1> USE DEF IInv
<1>1. UNCHANGED <<files, call, kept, raced>>
  BY DEF Tomorrow, vars
<1>2. TypeOK'
  BY DEF Tomorrow, vars, TypeOK, ConstantsOK
<1>3. OneWriter' /\ DataDated' /\ Ahead' /\ DeletedOwesNothing' /\ Dated' /\ Released' /\ CheckpointKept'
  BY <1>1 DEF OneWriter, Writing, DataDated, Ahead, DeletedOwesNothing, Dated, Readable, Released, Condemned,
              CheckpointKept, Held
<1> QED
  BY <1>2, <1>3

-----------------------------------------------------------------------------
LEMMA NextStep ==
  ASSUME ConstantsOK, IInv, [Next]_vars
  PROVE  IInv'
<1>1. ASSUME NEW c \in Callers, NEW s \in Ids, NEW byId \in BOOLEAN, SessionSave(c, s, byId)
      PROVE  IInv'
  BY <1>1, SaveStep
<1>2. ASSUME NEW c \in Callers, NEW s \in Ids, Unlink(c, s) PROVE IInv'
  BY <1>2, UnlinkStep
<1>3. ASSUME NEW c \in Callers, Truncate(c) \/ Flush(c) \/ Judge(c) PROVE IInv'
  BY <1>3, TruncateStep, FlushStep, JudgeStep
<1>4. ASSUME NEW c \in Callers, SessionPrune(c) \/ SessionList(c) \/ SessionLoad(c) \/ Recent(c)
      PROVE  IInv'
  BY <1>4, PruneStep DEF SessionPrune, SessionList, SessionLoad, Recent
<1>5. ASSUME NEW s \in Ids, SessionDelete(s) PROVE IInv'
  BY <1>5, DeleteStep
<1>6. CASE Restart \/ Tomorrow \/ UNCHANGED vars
  BY <1>6, RestartStep, TomorrowStep
<1> QED
  BY <1>1, <1>2, <1>3, <1>4, <1>5, <1>6 DEF Next

(* A checkpoint whose sender was told it is saved is lost to a prune only  *)
(* by expiry, or when the prune was at its file as it was answered         *)
(* (sessions.py:11-13, 86-90), however many calls there are.               *)
THEOREM NoCheckpointLost == ConstantsOK => (Spec => [](TypeOK /\ CheckpointKept))
<1> SUFFICES ASSUME ConstantsOK PROVE Spec => [](TypeOK /\ CheckpointKept)
  OBVIOUS
<1>1. Init => IInv
  BY InitInv
<1>2. IInv /\ [Next]_vars => IInv'
  BY NextStep
<1>3. IInv => TypeOK /\ CheckpointKept
  BY DEF IInv
<1> QED
  BY <1>1, <1>2, <1>3, PTL DEF Spec
=============================================================================
