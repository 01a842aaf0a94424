-------------------------------- MODULE Vault --------------------------------
(***************************************************************************)
(* app/secrets_store.py: the encrypted vault, one file rewritten whole by  *)
(* every secret_set and secret_delete:                                     *)
(*   strict read; write secrets.enc.tmp; copy secrets.enc to .bak;         *)
(*   os.replace(tmp, secrets.enc).                                         *)
(* A file write is two steps, truncation and content, so that a crash or   *)
(* another call can come between.  The environment decides the key and the *)
(* plaintext override at every start of the process.                       *)
(***************************************************************************)
CONSTANTS
  Callers,   \* concurrent calls of the writing tools
  Names, Values, None,
  Keys,      \* encryption keys the operator may configure
  NoKey,     \* STORAGE_ENCRYPTION_KEY unset: the blob is stored as it is
  Missing,   \* no such file
  Torn       \* a file holding less than one whole blob

ASSUME NoneIsNoValue == None \notin Values
ASSUME NoKeyIsNoKey == NoKey \notin Keys

VARIABLES
  vault, bak, tmp,   \* secrets.enc, secrets.enc.bak, secrets.enc.tmp
  envKey,            \* STORAGE_ENCRYPTION_KEY of the running process
  plainOk,           \* ALLOW_PLAINTEXT_VAULT
  call,              \* the writing call each caller is in
  skipped            \* history: the secrets of the writes that went on without
                     \* a copy since .bak was last opened

vars == <<vault, bak, tmp, envKey, plainOk, call, skipped>>

Map == [Names -> Values \cup {None}]
Empty == [n \in Names |-> None]
Blob == [key : Keys \cup {NoKey}, data : Map]
File == Blob \cup {Missing, Torn}

ASSUME FilesDiffer == Missing # Torn /\ Missing \notin Blob /\ Torn \notin Blob

Stage == {"idle", "open", "fill", "snapshot", "copy", "replace"}

(* out: the map to be written; fd: the name under which the temporary file *)
(* this call has open can now be found; src: the content copy2 reads.      *)
Call == [at : Stage, out : Map, fd : {"tmp", "vault", "gone"}, src : File]
NoCall == [at |-> "idle", out |-> Empty, fd |-> "gone", src |-> Missing]

TypeOK ==
  /\ vault \in File /\ bak \in File /\ tmp \in File
  /\ envKey \in Keys \cup {NoKey}
  /\ plainOk \in BOOLEAN
  /\ call \in [Callers -> Call]
  /\ skipped \in SUBSET Names

(* The process starts on whatever an earlier one left as the vault.        *)
Init ==
  /\ vault \in File
  /\ bak = Missing
  /\ tmp = Missing
  /\ envKey \in Keys \cup {NoKey}
  /\ plainOk \in BOOLEAN
  /\ call = [c \in Callers |-> NoCall]
  /\ skipped = {}

-----------------------------------------------------------------------------
(* _read_all: a missing vault is empty; one that the current key does not  *)
(* open is unreadable, and the strict read raises VaultUnreadable.         *)
Readable(f) == f \in Blob /\ f.key = envKey
StrictReadFails == vault # Missing /\ ~ Readable(vault)
ReadNothing == Empty
ReadAll == IF Readable(vault) THEN vault.data ELSE Empty

At(c, stage) == call[c].at = stage
Advance(c, stage) == call' = [call EXCEPT ![c].at = stage]

BeginUnread(c, map) ==
  /\ At(c, "idle")
  /\ call' = [call EXCEPT ![c] = [NoCall EXCEPT !.at = "open", !.out = map]]
  /\ UNCHANGED <<vault, bak, tmp, envKey, plainOk, skipped>>

Begin(c, map) ==
  /\ At(c, "idle")
  /\ ~ StrictReadFails
  /\ call' = [call EXCEPT ![c] = [NoCall EXCEPT !.at = "open", !.out = map]]
  /\ UNCHANGED <<vault, bak, tmp, envKey, plainOk, skipped>>

SecretSet(c, n, v) ==
  /\ envKey # NoKey \/ plainOk
  /\ Begin(c, [ReadAll EXCEPT ![n] = v])

SecretDelete(c, n) ==
  /\ ReadAll[n] # None
  /\ Begin(c, [ReadAll EXCEPT ![n] = None])

-----------------------------------------------------------------------------
(* _write_all.                                                             *)

OpenVault(c) ==
  /\ At(c, "open")
  /\ vault' = Torn
  /\ call' = [call EXCEPT ![c] = [@ EXCEPT !.at = "fill", !.fd = "vault"]]
  /\ UNCHANGED <<tmp, bak, envKey, plainOk, skipped>>

(* tmp.write_bytes: opening truncates the file under its fixed name, also  *)
(* when another call has it open or has just filled it.                    *)
OpenTmp(c) ==
  /\ At(c, "open")
  /\ tmp' = Torn
  /\ call' = [call EXCEPT ![c] = [@ EXCEPT !.at = "fill", !.fd = "tmp"]]
  /\ UNCHANGED <<vault, bak, envKey, plainOk, skipped>>

(* The content goes to the file that was opened, wherever it is now.  Over *)
(* what another call put there the two contents may mix.                   *)
Written(old, new) == IF old = Torn THEN {new} ELSE {new, Torn}

FillUnsealed(c) ==
  /\ At(c, "fill")
  /\ tmp' = [key |-> None, data |-> call[c].out]
  /\ Advance(c, "snapshot")
  /\ UNCHANGED <<vault, bak, envKey, plainOk, skipped>>

FillTmp(c) ==
  LET new == [key |-> envKey, data |-> call[c].out] IN
  /\ At(c, "fill")
  /\ tmp' \in (IF call[c].fd = "tmp" THEN Written(tmp, new) ELSE {tmp})
  /\ vault' \in (IF call[c].fd = "vault" THEN Written(vault, new) ELSE {vault})
  /\ Advance(c, "snapshot")
  /\ UNCHANGED <<bak, envKey, plainOk, skipped>>

OpenFirstBak(c) ==
  /\ At(c, "snapshot")
  /\ vault # Missing
  /\ bak' = IF bak = Missing THEN Torn ELSE bak
  /\ call' = [call EXCEPT ![c].at = IF bak = Missing THEN "copy" ELSE "replace", ![c].src = vault]
  /\ UNCHANGED <<vault, tmp, envKey, plainOk, skipped>>

OpenBak(c) ==
  /\ At(c, "snapshot")
  /\ vault # Missing
  /\ bak' = Torn
  /\ call' = [call EXCEPT ![c] = [@ EXCEPT !.at = "copy", !.src = vault]]
  /\ skipped' = {}
  /\ UNCHANGED <<vault, tmp, envKey, plainOk>>

(* A copy that raises before it opens .bak is swallowed as well: the       *)
(* replacement goes on and the older backup stays.                         *)
SnapshotFails(c) ==
  /\ At(c, "snapshot")
  /\ vault # Missing
  /\ skipped' = skipped \cup {n \in Names : call[c].out[n] # ReadAll[n]}
  /\ Advance(c, "replace")
  /\ UNCHANGED <<vault, bak, tmp, envKey, plainOk>>

NothingToBackUp(c) ==
  /\ At(c, "snapshot")
  /\ vault = Missing
  /\ Advance(c, "replace")
  /\ UNCHANGED <<vault, bak, tmp, envKey, plainOk, skipped>>

(* A copy that fails part-way is swallowed.                                *)
FillBak(c) ==
  /\ At(c, "copy")
  /\ bak' \in {call[c].src, Torn}
  /\ Advance(c, "replace")
  /\ UNCHANGED <<vault, tmp, envKey, plainOk, skipped>>

(* os.replace; with the temporary file gone it raises and the call ends.   *)
(* A call that still has the moved file open now writes into the vault.    *)
Moved(fd) == CASE fd = "tmp" -> "vault" [] fd = "vault" -> "gone" [] OTHER -> fd

Replace(c) ==
  /\ At(c, "replace")
  /\ IF tmp = Missing
     THEN /\ call' = [call EXCEPT ![c] = NoCall]
          /\ UNCHANGED <<vault, tmp>>
     ELSE /\ vault' = tmp
          /\ tmp' = Missing
          /\ call' = [d \in Callers |->
                        IF d = c THEN NoCall ELSE [call[d] EXCEPT !.fd = Moved(@)]]
  /\ UNCHANGED <<bak, envKey, plainOk, skipped>>

(* The process dies at any point and starts again, perhaps with another    *)
(* key.  A write of the temporary file that raises ends its call in the    *)
(* same way, with the key as it was.                                       *)
Restart ==
  /\ call' = [c \in Callers |-> NoCall]
  /\ envKey' \in Keys \cup {NoKey}
  /\ plainOk' \in BOOLEAN
  /\ UNCHANGED <<vault, bak, tmp, skipped>>

WriteAll(c) ==
  OpenTmp(c) \/ FillTmp(c) \/ OpenBak(c) \/ SnapshotFails(c) \/ NothingToBackUp(c)
  \/ FillBak(c) \/ Replace(c)

Next ==
  \/ \E c \in Callers :
       \/ \E n \in Names : SecretDelete(c, n) \/ \E v \in Values : SecretSet(c, n, v)
       \/ WriteAll(c)
  \/ Restart

Spec == Init /\ [][Next]_vars

-----------------------------------------------------------------------------
(* secrets_store.py:57-59 "Atomic write ... so a crash mid-write can't     *)
(* leave a truncated vault": no step, crash included, turns the vault into *)
(* a torn file.                                                            *)
NeverTruncated == [][vault' = Torn => vault = Torn]_vars

(* secrets_store.py:22 "we must NEVER treat this as empty and overwrite    *)
(* it": while the current key does not open the vault, nothing changes it. *)
FailClosed == [][StrictReadFails => vault' = vault]_vars

(* The backup is never unrelated to the vault: whenever both are whole,    *)
(* they agree on every secret but one and those of the writes whose copy   *)
(* failed since.  With no failed copy restoring it undoes one write, the   *)
(* "one-generation backup" of secrets_store.py:57-59; every copy that      *)
(* raises early takes it one more generation away.                         *)
BackupOneBehind ==
  vault \in Blob /\ bak \in Blob =>
    \A m, n \in Names \ skipped :
      vault.data[m] # bak.data[m] /\ vault.data[n] # bak.data[n] => m = n

(* Reading and writing the vault is atomic and touches one secret: the     *)
(* file implements the map of SecretMap through every crash and key change.*)
Stored == IF vault \in Blob THEN vault.data ELSE Empty
Secrets == INSTANCE SecretMap WITH store <- Stored
ImplementsSecretMap == Secrets!Spec
=============================================================================
