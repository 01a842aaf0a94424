---------------------------- MODULE Vault_proofs ----------------------------
(***************************************************************************)
(* Proofs about Vault when its writing calls do not overlap: for every set *)
(* of names, values and keys, every crash and every change of key.         *)
(*                                                                         *)
(* The argument: from its strict read to its os.replace a call holds in    *)
(* out the map now in the vault with one secret changed, and from FillTmp  *)
(* on the temporary file is exactly that blob under the current key.  The  *)
(* key cannot change under a call, because a restart ends the call.  When  *)
(* it comes to replace, the backup is the vault, or torn, or the copy has  *)
(* failed and what the call changes is among the skipped secrets.          *)
(***************************************************************************)
EXTENDS Vault, TLAPS

(* The writing tools are called one after the other.                       *)
OneAtATime == \A c, d \in Callers : c = d

Changed(c) ==
  \E n \in Names, w \in Values \cup {None} : call[c].out = [ReadAll EXCEPT ![n] = w]

CallInv ==
  \A c \in Callers :
    /\ ~ At(c, "idle") => ~ StrictReadFails /\ Changed(c)
    /\ At(c, "fill") => tmp = Torn /\ call[c].fd = "tmp"
    /\ call[c].at \in {"snapshot", "copy", "replace"} =>
         tmp = [key |-> envKey, data |-> call[c].out]

BakInv ==
  /\ vault = Missing => bak = Missing
  /\ \A c \in Callers :
       /\ At(c, "copy") => vault # Missing /\ call[c].src = vault /\ bak = Torn
       /\ At(c, "replace") => \/ vault = Missing \/ bak \in {vault, Torn}
                             \/ \A n \in Names \ skipped : call[c].out[n] = ReadAll[n]

IInv == TypeOK /\ CallInv /\ BakInv /\ BackupOneBehind

-----------------------------------------------------------------------------
LEMMA InitInv == Init => IInv
<1> SUFFICES ASSUME Init PROVE IInv
  OBVIOUS
<1> USE DEF Init, NoCall, At
<1>1. Empty \in Map
  BY DEF Empty, Map
<1>2. NoCall \in Call
  BY <1>1 DEF Call, Stage, File
<1>3. TypeOK
  BY <1>2 DEF TypeOK, File
<1>4. CallInv /\ BakInv
  BY DEF CallInv, BakInv
<1>5. BackupOneBehind
  BY FilesDiffer DEF BackupOneBehind
<1> QED
  BY <1>3, <1>4, <1>5 DEF IInv

(* With one caller CallInv is about that caller.                           *)
LEMMA CallInvOfOne ==
  ASSUME OneAtATime, NEW c \in Callers, ~ StrictReadFails',
         \E n \in Names, w \in Values \cup {None} :
           call'[c].out = [ReadAll' EXCEPT ![n] = w],
         call'[c].at = "fill" => tmp' = Torn /\ call'[c].fd = "tmp",
         call'[c].at \in {"snapshot", "copy", "replace"} =>
           tmp' = [key |-> envKey', data |-> call'[c].out]
  PROVE  CallInv'
<1> SUFFICES ASSUME NEW d \in Callers
             PROVE  (/\ ~ At(d, "idle") => ~ StrictReadFails /\ Changed(d)
                     /\ At(d, "fill") => tmp = Torn /\ call[d].fd = "tmp"
                     /\ call[d].at \in {"snapshot", "copy", "replace"} =>
                          tmp = [key |-> envKey, data |-> call[d].out])'
  BY DEF CallInv
<1>1. d = c
  BY DEF OneAtATime
<1> QED
  BY <1>1 DEF At, Changed

LEMMA ReadAllType == TypeOK => ReadAll \in Map
BY DEF ReadAll, Readable, Blob, Empty, Map

(* A strict read that succeeds and returns the map begins every call.      *)
LEMMA BeginStep ==
  ASSUME OneAtATime, IInv, NEW c \in Callers,
         NEW n \in Names, NEW w \in Values \cup {None}, Begin(c, [ReadAll EXCEPT ![n] = w])
  PROVE  IInv'
<1> DEFINE map == [ReadAll EXCEPT ![n] = w]
<1> USE DEF IInv, At
<1>1. map \in Map
  BY ReadAllType DEF Map
<1>2. call' = [call EXCEPT ![c] = [NoCall EXCEPT !.at = "open", !.out = map]]
      /\ UNCHANGED <<vault, bak, tmp, envKey, plainOk, skipped>> /\ ~ StrictReadFails
  BY DEF Begin
<1>3. TypeOK'
  BY <1>1, <1>2 DEF TypeOK, Call, NoCall, Stage, File
<1>4. call'[c].at = "open" /\ call'[c].out = map
  BY <1>2 DEF TypeOK, NoCall
<1>5. ~ StrictReadFails' /\ ReadAll' = ReadAll
  BY <1>2 DEF StrictReadFails, Readable, ReadAll, Empty
<1>6. CallInv'
  <2>1. \E n1 \in Names, w1 \in Values \cup {None} : call'[c].out = [ReadAll' EXCEPT ![n1] = w1]
    BY <1>4, <1>5
  <2> QED
    BY <1>4, <1>5, <2>1, CallInvOfOne
<1>7. BakInv' /\ BackupOneBehind'
  BY <1>2, <1>4 DEF BakInv, BackupOneBehind, OneAtATime
<1> QED
  BY <1>3, <1>6, <1>7

(* A step that replaces one call by a well-typed one keeps all of them so. *)
LEMMA CallsTyped ==
  ASSUME TypeOK, NEW c \in Callers, NEW r \in Call, call' = [call EXCEPT ![c] = r]
  PROVE  call' \in [Callers -> Call]
BY DEF TypeOK

(* Up to the replacement a call leaves the vault alone.                    *)
LEMMA PrepareStep ==
  ASSUME OneAtATime, IInv, NEW c \in Callers,
         OpenTmp(c) \/ FillTmp(c) \/ OpenBak(c) \/ SnapshotFails(c) \/ NothingToBackUp(c)
           \/ FillBak(c)
  PROVE  IInv' /\ vault' = vault
<1> USE DEF IInv, At, Advance
<1>0. call[c].fd \in {"tmp", "vault", "gone"} /\ call[c].src \in File /\ vault \in File
  BY DEF TypeOK, Call
<1>1. vault' = vault /\ envKey' = envKey
  BY DEF OpenTmp, FillTmp, OpenBak, SnapshotFails, NothingToBackUp, FillBak, CallInv
<1>2. ~ StrictReadFails' /\ ReadAll' = ReadAll
  <2>1. ~ StrictReadFails
    BY DEF OpenTmp, FillTmp, OpenBak, SnapshotFails, NothingToBackUp, FillBak, CallInv
  <2> QED
    BY <1>1, <2>1 DEF StrictReadFails, Readable, ReadAll, Empty
<1>8. call'[c].out = call[c].out
  BY DEF OpenTmp, FillTmp, OpenBak, SnapshotFails, NothingToBackUp, FillBak, TypeOK, Call
<1>9. \E n \in Names, w \in Values \cup {None} : call'[c].out = [ReadAll' EXCEPT ![n] = w]
  <2>1. Changed(c)
    BY DEF OpenTmp, FillTmp, OpenBak, SnapshotFails, NothingToBackUp, FillBak, CallInv
  <2> QED
    BY <1>2, <1>8, <2>1 DEF Changed
<1>3. CASE OpenTmp(c)
  <2>1. TypeOK'
    <3>1. [call[c] EXCEPT !.at = "fill", !.fd = "tmp"] \in Call
      BY <1>0 DEF TypeOK, Call, Stage
    <3>2. call' \in [Callers -> Call]
      BY <1>3, <3>1, CallsTyped DEF OpenTmp
    <3> QED
      BY <1>3, <3>2 DEF OpenTmp, TypeOK, File
  <2>2. CallInv'
    <3>1. call'[c].at = "fill" /\ call'[c].fd = "tmp" /\ tmp' = Torn
      BY <1>3 DEF OpenTmp, TypeOK, Call
    <3> QED
      BY <1>2, <1>9, <3>1, CallInvOfOne
  <2>3. BakInv' /\ BackupOneBehind'
    BY <1>3 DEF OpenTmp, BakInv, BackupOneBehind, TypeOK, OneAtATime
  <2> QED
    BY <1>1, <2>1, <2>2, <2>3
<1>4. CASE FillTmp(c)
  <2> DEFINE new == [key |-> envKey, data |-> call[c].out]
  <2>1. new \in Blob
    BY DEF TypeOK, Call, Blob
  <2>2. tmp' = new
    BY <1>4 DEF FillTmp, CallInv, Written
  <2>3. TypeOK'
    <3>1. [call[c] EXCEPT !.at = "snapshot"] \in Call
      BY <1>0 DEF TypeOK, Call, Stage
    <3>2. call' \in [Callers -> Call]
      BY <1>4, <3>1, CallsTyped DEF FillTmp
    <3> QED
      BY <1>1, <2>1, <2>2, <1>4, <3>2 DEF FillTmp, TypeOK, File
  <2>4. CallInv'
    <3>1. call'[c].at = "snapshot" /\ tmp' = [key |-> envKey', data |-> call'[c].out]
      BY <1>1, <1>4, <1>8, <2>2 DEF FillTmp, CallInv, TypeOK, Call
    <3> QED
      BY <1>2, <1>9, <3>1, CallInvOfOne
  <2>5. BakInv' /\ BackupOneBehind'
    BY <1>1, <1>4 DEF FillTmp, BakInv, BackupOneBehind, TypeOK, OneAtATime
  <2> QED
    BY <1>1, <2>3, <2>4, <2>5
<1>5. CASE OpenBak(c)
  <2>1. TypeOK'
    <3>1. [call[c] EXCEPT !.at = "copy", !.src = vault] \in Call
      BY <1>0 DEF TypeOK, Call, Stage
    <3>2. call' \in [Callers -> Call]
      BY <1>5, <3>1, CallsTyped DEF OpenBak
    <3> QED
      BY <1>5, <3>2 DEF OpenBak, TypeOK, File
  <2>2. CallInv'
    <3>1. call'[c].at = "copy" /\ tmp' = [key |-> envKey', data |-> call'[c].out]
      BY <1>1, <1>5, <1>8 DEF OpenBak, CallInv, TypeOK, Call
    <3> QED
      BY <1>2, <1>9, <3>1, CallInvOfOne
  <2>3. BakInv' /\ BackupOneBehind'
    BY <1>5, FilesDiffer DEF OpenBak, BakInv, BackupOneBehind, TypeOK, OneAtATime
  <2> QED
    BY <1>1, <2>1, <2>2, <2>3
<1>10. CASE SnapshotFails(c)
  <2>1. TypeOK'
    <3>1. [call[c] EXCEPT !.at = "replace"] \in Call
      BY <1>0 DEF TypeOK, Call, Stage
    <3>2. call' \in [Callers -> Call]
      BY <1>10, <3>1, CallsTyped DEF SnapshotFails
    <3> QED
      BY <1>10, <3>2 DEF SnapshotFails, TypeOK, File
  <2>2. CallInv'
    <3>1. call'[c].at = "replace" /\ tmp' = [key |-> envKey', data |-> call'[c].out]
      BY <1>1, <1>8, <1>10 DEF SnapshotFails, CallInv, TypeOK, Call
    <3> QED
      BY <1>2, <1>9, <3>1, CallInvOfOne
  <2>3. \A n \in Names \ skipped' : call'[c].out[n] = ReadAll'[n]
    BY <1>2, <1>8, <1>10 DEF SnapshotFails
  <2>4. BakInv'
    BY <1>10, <2>3, FilesDiffer DEF SnapshotFails, BakInv, TypeOK, OneAtATime
  <2>5. BackupOneBehind'
    BY <1>10 DEF SnapshotFails, BackupOneBehind
  <2> QED
    BY <1>1, <2>1, <2>2, <2>4, <2>5
<1>6. CASE NothingToBackUp(c)
  <2>1. TypeOK'
    <3>1. [call[c] EXCEPT !.at = "replace"] \in Call
      BY <1>0 DEF TypeOK, Call, Stage
    <3>2. call' \in [Callers -> Call]
      BY <1>6, <3>1, CallsTyped DEF NothingToBackUp
    <3> QED
      BY <1>6, <3>2 DEF NothingToBackUp, TypeOK, File
  <2>2. CallInv'
    <3>1. call'[c].at = "replace" /\ tmp' = [key |-> envKey', data |-> call'[c].out]
      BY <1>1, <1>6, <1>8 DEF NothingToBackUp, CallInv, TypeOK, Call
    <3> QED
      BY <1>2, <1>9, <3>1, CallInvOfOne
  <2>3. BakInv' /\ BackupOneBehind'
    BY <1>6 DEF NothingToBackUp, BakInv, BackupOneBehind, TypeOK, OneAtATime
  <2> QED
    BY <1>1, <2>1, <2>2, <2>3
<1>7. CASE FillBak(c)
  <2>1. call[c].src = vault /\ bak' \in {vault, Torn}
    BY <1>7 DEF FillBak, BakInv
  <2>2. TypeOK'
    <3>1. [call[c] EXCEPT !.at = "replace"] \in Call
      BY <1>0 DEF TypeOK, Call, Stage
    <3>2. call' \in [Callers -> Call]
      BY <1>7, <3>1, CallsTyped DEF FillBak
    <3> QED
      BY <2>1, <1>7, <3>2 DEF FillBak, TypeOK, File
  <2>3. CallInv'
    <3>1. call'[c].at = "replace" /\ tmp' = [key |-> envKey', data |-> call'[c].out]
      BY <1>1, <1>7, <1>8 DEF FillBak, CallInv, TypeOK, Call
    <3> QED
      BY <1>2, <1>9, <3>1, CallInvOfOne
  <2>4. vault # Missing
    BY <1>7 DEF FillBak, BakInv, TypeOK
  <2>5. BakInv'
    BY <1>1, <1>7, <2>1, <2>4 DEF FillBak, BakInv, TypeOK, OneAtATime
  <2>6. BackupOneBehind'
    BY <1>1, <2>1, FilesDiffer DEF BackupOneBehind
  <2> QED
    BY <1>1, <2>2, <2>3, <2>5, <2>6
<1> QED
  BY <1>3, <1>4, <1>5, <1>6, <1>7, <1>10

(* The replacement is where the call takes effect: the vault was readable  *)
(* or missing, and becomes the same map with one secret changed.           *)
LEMMA ReplaceStep ==
  ASSUME OneAtATime, IInv, NEW c \in Callers, Replace(c)
  PROVE  /\ IInv'
         /\ ~ StrictReadFails /\ vault' \in Blob
         /\ \E n \in Names, w \in Values \cup {None} : vault'.data = [ReadAll EXCEPT ![n] = w]
<1> USE DEF IInv, At
<1>1. /\ ~ StrictReadFails /\ Changed(c)
      /\ tmp = [key |-> envKey, data |-> call[c].out]
      /\ \/ vault = Missing \/ bak \in {vault, Torn}
         \/ \A n \in Names \ skipped : call[c].out[n] = ReadAll[n]
  BY DEF Replace, CallInv, BakInv
<1>2. tmp \in Blob
  BY <1>1 DEF TypeOK, Call, Blob
<1>3. /\ vault' = tmp /\ tmp' = Missing /\ UNCHANGED <<bak, envKey, plainOk, skipped>>
      /\ call' = [d \in Callers |-> IF d = c THEN NoCall ELSE [call[d] EXCEPT !.fd = Moved(@)]]
  BY <1>2, FilesDiffer DEF Replace
<1>4. PICK n \in Names, w \in Values \cup {None} : call[c].out = [ReadAll EXCEPT ![n] = w]
  BY <1>1 DEF Changed
<1>5. vault' \in Blob /\ vault'.data = [ReadAll EXCEPT ![n] = w]
  BY <1>1, <1>2, <1>3, <1>4
<1>6. NoCall \in Call
  BY DEF NoCall, Call, Stage, File, Empty, Map
<1>7. call' \in [Callers -> Call] /\ \A d \in Callers : call'[d].at = "idle"
  BY <1>3, <1>6 DEF OneAtATime, NoCall
<1>8. TypeOK'
  BY <1>2, <1>3, <1>7 DEF TypeOK, File
<1>9. CallInv'
  BY <1>7 DEF CallInv
<1>10. BakInv'
  BY <1>2, <1>3, <1>7, FilesDiffer DEF BakInv
<1>11. BackupOneBehind'
  <2> SUFFICES ASSUME bak \in Blob
               PROVE  BackupOneBehind'
    BY <1>3 DEF BackupOneBehind
  <2>1. vault \in Blob /\ ReadAll = vault.data
    BY <1>1, FilesDiffer DEF BakInv, StrictReadFails, ReadAll, Readable
  <2>2. CASE bak = vault
    <3>1. \A m \in Names \ {n} : vault'.data[m] = bak.data[m]
      BY <1>5, <2>1, <2>2 DEF Blob, Map
    <3> QED
      BY <1>3, <3>1 DEF BackupOneBehind
  <2>3. CASE \A m \in Names \ skipped : call[c].out[m] = ReadAll[m]
    <3>1. \A m \in Names \ skipped : vault'.data[m] = vault.data[m]
      BY <1>1, <1>3, <2>1, <2>3
    <3> QED
      BY <1>3, <2>1, <3>1 DEF BackupOneBehind
  <2> QED
    BY <1>1, <2>1, <2>2, <2>3, FilesDiffer
<1> QED
  BY <1>1, <1>5, <1>8, <1>9, <1>10, <1>11

LEMMA RestartStep ==
  ASSUME IInv, Restart
  PROVE  IInv' /\ vault' = vault
<1> USE DEF IInv
<1>1. NoCall \in Call
  BY DEF NoCall, Call, Stage, File, Empty, Map
<1>2. TypeOK'
  BY <1>1 DEF Restart, TypeOK
<1>3. \A c \in Callers : call'[c].at = "idle"
  BY DEF Restart, NoCall
<1> QED
  BY <1>2, <1>3 DEF Restart, CallInv, BakInv, BackupOneBehind, At

(* Every step: either the vault stays as it is, or it was readable (or     *)
(* missing) and one secret of it changes.                                  *)
OneSecret ==
  /\ ~ StrictReadFails /\ vault' \in Blob
  /\ \E n \in Names, w \in Values \cup {None} : vault'.data = [ReadAll EXCEPT ![n] = w]

LEMMA NextStep == OneAtATime /\ IInv /\ [Next]_vars => IInv' /\ (vault' = vault \/ OneSecret)
<1> SUFFICES ASSUME OneAtATime, IInv, [Next]_vars
             PROVE  IInv' /\ (vault' = vault \/ OneSecret)
  OBVIOUS
<1>1. CASE UNCHANGED vars
  <2>1. ReadAll' = ReadAll /\ StrictReadFails' = StrictReadFails
    BY <1>1 DEF vars, StrictReadFails, Readable, ReadAll, Empty
  <2>2. TypeOK' /\ BackupOneBehind'
    BY <1>1 DEF vars, IInv, TypeOK, BackupOneBehind
  <2>3. CallInv'
    BY <1>1, <2>1 DEF vars, IInv, CallInv, At, Changed
  <2>4. BakInv'
    BY <1>1, <2>1 DEF vars, IInv, BakInv, At
  <2> QED
    BY <1>1, <2>2, <2>3, <2>4 DEF vars, IInv
<1>2. ASSUME NEW c \in Callers, NEW n \in Names, SecretDelete(c, n) PROVE IInv' /\ vault' = vault
  BY <1>2, BeginStep DEF SecretDelete, Begin
<1>3. ASSUME NEW c \in Callers, NEW n \in Names, NEW v \in Values, SecretSet(c, n, v)
      PROVE  IInv' /\ vault' = vault
  BY <1>3, BeginStep DEF SecretSet, Begin
<1>4. ASSUME NEW c \in Callers, WriteAll(c) PROVE IInv' /\ (vault' = vault \/ OneSecret)
  BY <1>4, PrepareStep, ReplaceStep DEF WriteAll, OneSecret
<1>5. CASE Restart
  BY <1>5, RestartStep
<1> QED
  BY <1>1, <1>2, <1>3, <1>4, <1>5 DEF Next

-----------------------------------------------------------------------------
(* With calls one at a time every file and call record keeps its type.     *)
THEOREM Typed == OneAtATime => (Spec => []TypeOK)
<1> SUFFICES ASSUME OneAtATime PROVE Spec => []TypeOK
  OBVIOUS
<1>1. Init => IInv
  BY InitInv
<1>2. IInv /\ [Next]_vars => IInv'
  BY NextStep
<1>3. IInv => TypeOK
  BY DEF IInv
<1> QED
  BY <1>1, <1>2, <1>3, PTL DEF Spec

(* With calls one at a time the backup is behind by one write and by those *)
(* whose copy failed since it was last opened, and by nothing else         *)
(* (secrets_store.py:66-71).                                               *)
THEOREM BackupHolds == OneAtATime => (Spec => []BackupOneBehind)
<1> SUFFICES ASSUME OneAtATime PROVE Spec => []BackupOneBehind
  OBVIOUS
<1>1. Init => IInv
  BY InitInv
<1>2. IInv /\ [Next]_vars => IInv'
  BY NextStep
<1>3. IInv => BackupOneBehind
  BY DEF IInv
<1> QED
  BY <1>1, <1>2, <1>3, PTL DEF Spec

(* With calls one at a time no crash and no key change leaves a truncated  *)
(* vault (secrets_store.py:57-59).                                         *)
THEOREM CrashSafe == OneAtATime => (Spec => NeverTruncated)
<1> SUFFICES ASSUME OneAtATime PROVE Spec => NeverTruncated
  OBVIOUS
<1>1. Init => IInv
  BY InitInv
<1>2. IInv /\ [Next]_vars => IInv'
  BY NextStep
<1>3. IInv /\ [Next]_vars => [vault' = Torn => vault = Torn]_vars
  BY NextStep, FilesDiffer DEF OneSecret
<1> QED
  BY <1>1, <1>2, <1>3, PTL DEF Spec, NeverTruncated

(* With calls one at a time a vault the current key does not open is never *)
(* overwritten (secrets_store.py:20-23, 36-39).                            *)
THEOREM FailsClosed == OneAtATime => (Spec => FailClosed)
<1> SUFFICES ASSUME OneAtATime PROVE Spec => FailClosed
  OBVIOUS
<1>1. Init => IInv
  BY InitInv
<1>2. IInv /\ [Next]_vars => IInv'
  BY NextStep
<1>3. IInv /\ [Next]_vars => [StrictReadFails => vault' = vault]_vars
  BY NextStep DEF OneSecret
<1> QED
  BY <1>1, <1>2, <1>3, PTL DEF Spec, FailClosed

(* With calls one at a time the three-file protocol implements the atomic  *)
(* map: each call takes effect at its os.replace, on one secret, or not at *)
(* all.                                                                    *)
THEOREM Atomic == OneAtATime => (Spec => ImplementsSecretMap)
<1> SUFFICES ASSUME OneAtATime PROVE Spec => ImplementsSecretMap
  OBVIOUS
<1>1. Init => IInv
  BY InitInv
<1>2. IInv /\ [Next]_vars => IInv'
  BY NextStep
<1>3. IInv => Secrets!Init
  BY DEF IInv, TypeOK, Secrets!Init, Secrets!Map, Stored, File, Blob, Map, Empty
<1>4. IInv /\ [Next]_vars => [Secrets!Next]_Stored
  <2> SUFFICES ASSUME IInv, [Next]_vars PROVE [Secrets!Next]_Stored
    OBVIOUS
  <2>1. CASE vault' = vault
    BY <2>1 DEF Stored, Empty
  <2>2. CASE OneSecret
    <3>1. ReadAll = Stored
      BY <2>2, FilesDiffer DEF OneSecret, StrictReadFails, Readable, ReadAll, Stored
    <3>2. PICK n \in Names, w \in Values \cup {None} : Stored' = [Stored EXCEPT ![n] = w]
      BY <2>2, <3>1 DEF OneSecret, Stored
    <3> QED
      BY <3>2 DEF Secrets!Next, Secrets!SetSecret, Secrets!DeleteSecret
  <2> QED
    BY <2>1, <2>2, NextStep
<1> QED
  BY <1>1, <1>2, <1>3, <1>4, PTL DEF Spec, ImplementsSecretMap, Secrets!Spec
=============================================================================
