------------------------------- MODULE Policy -------------------------------
(***************************************************************************)
(* app/authz.py and app/tenancy.py: who may call which tool, decided anew  *)
(* for each call from policy.json, which a call reads up to three times:   *)
(* for the roles, for the groups, for the data area.  Meanwhile a tenancy  *)
(* tool rewrites the file through a temporary one, and the operator edits  *)
(* it at any time: an entry, or the file into one that does not parse or   *)
(* is no object, and back.                                                 *)
(*                                                                         *)
(* Both files fail open: what cannot be decided is allowed, and what       *)
(* cannot be confined is not.  One caller; enforcement and isolation are   *)
(* on.  The audit log and the stamping of senders are left out, and so is  *)
(* the backup of the file, which nothing reads.                            *)
(***************************************************************************)
EXTENDS Integers

CONSTANTS
  Calls,            \* tool calls of the caller that can be under way at once
  OwnRoles, GroupRoles, DefaultRoles,  \* roles the file may give, entry by entry
  Overrides,        \* what RUNNER_ROLE and OIDC_DEFAULT_ROLE may be set to
  MaxEdits,         \* bound on the operator's edits
  None, Torn, Odd   \* no entry, no file; a file that does not parse; no object

VARIABLES
  who,          \* the caller and its environment variable
  policy, tmp,  \* policy.json and policy.json.tmp
  writer,       \* the tenancy tool under way
  call,         \* where each call is
  edits,        \* the operator's edits so far
  intended      \* what the operator and the answered tools have laid down

vars == <<who, policy, tmp, writer, call, edits, intended>>

Roles == {"viewer", "user", "admin"}

(* One tool of each kind decide() and the middleware tell apart.           *)
Tools == {"secret_set", "memory_read", "memory_write"}
ADMIN_TOOLS == {"secret_set"}
READ_ONLY_TOOLS == {"memory_read"}
MEMORY_SCOPED_TOOLS == {"memory_read", "memory_write"}

(* Somebody signed in, with a group among the claims; the runner's token;  *)
(* nobody that could be resolved.                                          *)
Who == [kind : {"person", "runner", "unknown"}, env : Overrides]

(* The file: the caller's role, its group's, the default ("runner" for the *)
(* runner); its memory area.                                               *)
Document == [roles : {None} \cup OwnRoles, groups : {None} \cup GroupRoles,
             default : {None} \cup DefaultRoles, users : {None, "own", "all"}]
File == Document \cup {Torn, Odd}

Empty == [roles |-> None, groups |-> None, default |-> None, users |-> None]
Idle == [at |-> "idle"]

(* role: None when the call was allowed without a decision.                *)
(* roles, own: what the file gave the caller at any time during the call;  *)
(* edits: how many entries the operator has changed meanwhile, 2 for more. *)
Call == [at : {"groups", "area", "run"}, tool : Tools, doc : Document \cup {Odd},
         role : Roles \cup {None}, scope : {"own", "asked"},
         roles : SUBSET (Roles \cup {None}), own : BOOLEAN, edits : 0 .. 2]

(* stale: the file has changed since it was read, or could not be read.    *)
Writer == [at : {"open", "fill", "replace"}, doc : Document, stale : BOOLEAN]

(* What the constants stand for.                                           *)
ConstantsOK ==
  /\ MaxEdits \in Nat
  /\ OwnRoles \subseteq Roles /\ GroupRoles \subseteq Roles /\ DefaultRoles \subseteq Roles
  /\ Overrides \subseteq Roles \cup {None}
  /\ None # Torn /\ None # Odd /\ Torn # Odd /\ {None, Torn, Odd} \cap Document = {}
  /\ None \notin {"viewer", "user", "admin", "own", "all"}

TypeOK ==
  /\ who \in Who
  /\ policy \in File /\ tmp \in Document \cup {None, Torn}
  /\ writer \in {Idle} \cup Writer
  /\ call \in [Calls -> {Idle} \cup Call]
  /\ edits \in 0 .. MaxEdits
  /\ intended \in File

Init ==
  /\ who \in Who
  /\ policy \in File /\ tmp = None
  /\ writer = Idle
  /\ call = [c \in Calls |-> Idle]
  /\ edits = 0
  /\ intended = policy

-----------------------------------------------------------------------------
(* _policy: what does not parse is empty.                                  *)
Read(file) == IF file = Torn THEN Empty ELSE file

(* role_for's last resort, of the document the roles were read from; None: *)
(* asking a list for an entry raises.                                      *)
Fallback(doc) ==
  IF who.env # None THEN who.env
  ELSE IF doc = Odd THEN None
  ELSE IF doc.default # None THEN doc.default
  ELSE IF who.kind = "runner" THEN "user" ELSE "admin"

(* _role_from_claims: the group of a person; else the last resort.         *)
ByGroup(doc, groupsDoc) ==
  IF who.kind # "person" THEN Fallback(doc)
  ELSE IF groupsDoc = Odd THEN None
  ELSE IF groupsDoc.groups # None THEN groupsDoc.groups ELSE Fallback(doc)

(* role_for: the identity's own entry first.                               *)
RoleFor(doc, groupsDoc) ==
  IF doc # Odd /\ doc.roles # None THEN doc.roles ELSE ByGroup(doc, groupsDoc)

(* The role that the file as a whole gives.                                *)
Gives(file) == RoleFor(Read(file), Read(file))

Decide(role, tool) ==
  \/ role = "admin"
  \/ role = "viewer" /\ tool \in READ_ONLY_TOOLS
  \/ role = "user" /\ tool \notin ADMIN_TOOLS

(* The middleware: an error on the way to a decision allows the call.      *)
Allowed(role, tool) == role = None \/ Decide(role, tool)

(* area_for confines known callers who are no admins; no entry is "own",   *)
(* and an error leaves the scope as it was asked for.                      *)
OwnArea(file) == file # Odd /\ Read(file).users # "all"
ConfinedIfListed(file, role) ==
  role # "admin" /\ who.kind # "unknown" /\ file # Odd /\ Read(file).users = "own"
Confined(file, role) == role # "admin" /\ who.kind # "unknown" /\ OwnArea(file)

(* A change of the file, as the calls under way live through it.           *)
Lived(file, changes) ==
  [c \in Calls |->
     IF call[c] = Idle THEN Idle
     ELSE [call[c] EXCEPT !.roles = @ \cup {Gives(file)},
                          !.own = @ /\ OwnArea(file),
                          !.edits = IF @ + changes <= 2 THEN @ + changes ELSE 2]]

-----------------------------------------------------------------------------
(* The middleware, read by read.                                           *)
ReadRoles(c, tool) ==
  /\ call[c] = Idle
  /\ call' = [call EXCEPT ![c] =
       [at |-> "groups", tool |-> tool, doc |-> Read(policy), role |-> None, scope |-> "asked",
        roles |-> {Gives(policy)}, own |-> OwnArea(policy), edits |-> 0]]
  /\ UNCHANGED <<who, policy, tmp, writer, edits, intended>>

Undenied(role, tool) == FALSE
Denied(role, tool) == ~ Allowed(role, tool)

(* _role_from_claims reads again; then the decision, after which nobody    *)
(* looks at what was read.  A call allowed by an error skips what follows  *)
(* it, the confinement too.                                                *)
ReadGroups(c) ==
  LET role == RoleFor(call[c].doc, Read(policy))
      scoped == role # None /\ call[c].tool \in MEMORY_SCOPED_TOOLS
  IN
  /\ call[c].at = "groups"
  /\ call' = [call EXCEPT ![c] =
       IF Denied(role, call[c].tool) THEN Idle
       ELSE [@ EXCEPT !.doc = Empty, !.role = role, !.at = IF scoped THEN "area" ELSE "run"]]
  /\ UNCHANGED <<who, policy, tmp, writer, edits, intended>>

(* confine_memory_scope.                                                   *)
ReadArea(c) ==
  /\ call[c].at = "area"
  /\ call' = [call EXCEPT ![c].at = "run",
                          ![c].scope = IF Confined(policy, call[c].role) THEN "own" ELSE "asked"]
  /\ UNCHANGED <<who, policy, tmp, writer, edits, intended>>

Run(c) ==
  /\ call[c].at = "run"
  /\ call' = [call EXCEPT ![c] = Idle]
  /\ UNCHANGED <<who, policy, tmp, writer, edits, intended>>

-----------------------------------------------------------------------------
OnlyArea(area) == [Empty EXCEPT !.users = area]
WithArea(area) == [Read(policy) EXCEPT !.users = area]

(* One tenancy tool at a time.  It raises on a file that is no object.     *)
Rewrite(area) ==
  /\ writer = Idle /\ policy # Odd
  /\ writer' = [at |-> "open", doc |-> WithArea(area), stale |-> policy = Torn]
  /\ UNCHANGED <<who, policy, tmp, call, edits, intended>>

TenancySet(area) == Rewrite(area)
TenancyUnset == policy # Odd /\ Read(policy).users # None /\ Rewrite(None)

OpenTmp ==
  /\ writer.at = "open"
  /\ tmp' = Torn
  /\ writer' = [writer EXCEPT !.at = "fill"]
  /\ UNCHANGED <<who, policy, call, edits, intended>>

FillTmp ==
  /\ writer.at = "fill"
  /\ tmp' = writer.doc
  /\ writer' = [writer EXCEPT !.at = "replace"]
  /\ UNCHANGED <<who, policy, call, edits, intended>>

(* A stale tool puts back what it has read: an edit since then is gone.    *)
Replace ==
  /\ writer.at = "replace"
  /\ policy' = tmp /\ tmp' = None
  /\ intended' = IF writer.stale THEN tmp ELSE [intended EXCEPT !.users = writer.doc.users]
  /\ call' = Lived(policy', IF writer.stale THEN 2 ELSE 0)
  /\ writer' = Idle
  /\ UNCHANGED <<who, edits>>

(* The operator saves the file.                                            *)
Edit(file, changes) ==
  /\ edits < MaxEdits
  /\ policy' = file /\ intended' = file
  /\ edits' = edits + 1
  /\ call' = Lived(file, changes)
  /\ writer' = IF writer = Idle THEN Idle ELSE [writer EXCEPT !.stale = TRUE]
  /\ UNCHANGED <<who, tmp>>

EditEntry ==
  /\ policy \in Document
  /\ \E f \in {"roles", "groups", "default", "users"}, v \in {None, "own", "all"} \cup Roles :
       LET file == [policy EXCEPT ![f] = v] IN file \in Document /\ Edit(file, 1)

Break == policy \in Document /\ \E file \in {Torn, Odd} : Edit(file, 2)
Repair == policy \in {Torn, Odd} /\ \E file \in Document : Edit(file, 2)

Restart ==
  /\ writer # Idle \/ \E c \in Calls : call[c] # Idle
  /\ writer' = Idle
  /\ call' = [c \in Calls |-> Idle]
  /\ UNCHANGED <<who, policy, tmp, edits, intended>>

Next ==
  \/ \E c \in Calls, tool \in Tools : ReadRoles(c, tool)
  \/ \E c \in Calls : ReadGroups(c) \/ ReadArea(c) \/ Run(c)
  \/ \E area \in {"own", "all"} : TenancySet(area)
  \/ TenancyUnset \/ OpenTmp \/ FillTmp \/ Replace \/ EditEntry \/ Break \/ Repair \/ Restart

Spec == Init /\ [][Next]_vars

-----------------------------------------------------------------------------
(* authz.py:207-255.  A tool runs without a decision only if at some time  *)
(* during the call the file, as a whole, gave none; and as long as no more *)
(* than one entry is changed by hand during the call, a tool runs only for *)
(* what the file as a whole gave at some time during it, although roles    *)
(* and groups are read one after the other.                                *)
RunAsPermitted ==
  \A c \in Calls : call[c].at = "run" =>
    /\ call[c].role = None => None \in call[c].roles
    /\ call[c].edits <= 1 => \E role \in call[c].roles : Allowed(role, call[c].tool)

(* tenancy.py:31 "Default per non-admin caller when there is no entry: own *)
(* (confined)".  A known caller who is no admin is given its own scope,    *)
(* whatever it asked for, if the file could be asked and did not say "all" *)
(* all through the call.                                                   *)
OwnScopeOnly ==
  \A c \in Calls : call[c].at = "run" /\ call[c].tool \in MEMORY_SCOPED_TOOLS
                     /\ call[c].own /\ call[c].role # "admin" /\ who.kind # "unknown"
                  => call[c].scope = "own"

(* tenancy.py:153-155.  A crash leaves no truncated policy, and the        *)
(* tenancy tools leave roles, groups and default as the operator wrote     *)
(* them, unless they have read the file before the last edit or could not  *)
(* read it.                                                                *)
PolicyIntact == policy = intended
=============================================================================
