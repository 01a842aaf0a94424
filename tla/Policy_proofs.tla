---------------------------- MODULE Policy_proofs ----------------------------
(***************************************************************************)
(* Proofs about Policy, for any number of calls and edits and any roles in *)
(* the file.                                                               *)
(*                                                                         *)
(* The argument for RunAsPermitted: between the two reads of a call the    *)
(* tenancy tools change the areas only, unless they are stale, so the      *)
(* document the roles are read from and the one the groups are read from   *)
(* agree on roles, groups and default but for one entry per edit.  With    *)
(* one edit the role computed from both is that of one of them, and the    *)
(* call has lived through both.  That a call runs undecided only if one of *)
(* them alone decides nothing holds of any two.                            *)
(***************************************************************************)
EXTENDS Policy, TLAPS

(* What a read may return.                                                 *)
Seen == Document \cup {Odd}

(* Entry by entry; the areas do not count.                                 *)
SameRoles(doc1, doc2) == doc1.roles = doc2.roles
SameGroups(doc1, doc2) == doc1.groups = doc2.groups
SameDefault(doc1, doc2) == doc1.default = doc2.default

SameEntries(doc1, doc2) ==
  \/ doc1 = Odd /\ doc2 = Odd
  \/ /\ doc1 # Odd /\ doc2 # Odd
     /\ SameRoles(doc1, doc2) /\ SameGroups(doc1, doc2) /\ SameDefault(doc1, doc2)

DifferInOne(doc1, doc2) ==
  \/ SameEntries(doc1, doc2)
  \/ /\ doc1 # Odd /\ doc2 # Odd
     /\ \/ SameRoles(doc1, doc2) /\ SameGroups(doc1, doc2)
        \/ SameRoles(doc1, doc2) /\ SameDefault(doc1, doc2)
        \/ SameGroups(doc1, doc2) /\ SameDefault(doc1, doc2)

(* A rewriting tool that is not stale holds the file with another area.    *)
WriterInv ==
  /\ writer # Idle => writer \in Writer
  /\ writer # Idle /\ ~ writer.stale => policy \in Document /\ SameEntries(writer.doc, policy)
  /\ writer.at = "replace" => tmp = writer.doc

(* What a call has read is what it has lived through.                      *)
ReadInv(c) ==
  /\ Gives(policy) \in call[c].roles
  /\ call[c].own => OwnArea(policy)

GroupsInv(c) ==
  /\ RoleFor(call[c].doc, call[c].doc) \in call[c].roles
  /\ call[c].own => call[c].doc # Odd
  /\ call[c].edits = 0 => SameEntries(call[c].doc, Read(policy))
  /\ call[c].edits = 1 => DifferInOne(call[c].doc, Read(policy))

Permitted(c) == \E role \in call[c].roles : Allowed(role, call[c].tool)

DecidedInv(c) ==
  /\ call[c].role = None => None \in call[c].roles
  /\ call[c].edits <= 1 => Permitted(c)

ScopeInv(c) ==
  call[c].tool \in MEMORY_SCOPED_TOOLS /\ call[c].own /\ call[c].role # "admin"
    /\ who.kind # "unknown" => call[c].scope = "own"

CallInv(c) ==
  /\ call[c] # Idle => ReadInv(c)
  /\ call[c].at = "groups" => GroupsInv(c)
  /\ call[c].at \in {"area", "run"} => DecidedInv(c)
  /\ call[c].at = "run" => ScopeInv(c)

IInv ==
  /\ TypeOK
  /\ WriterInv
  /\ \A c \in Calls : CallInv(c)
  /\ PolicyIntact

-----------------------------------------------------------------------------
LEMMA ReadType ==
  ASSUME ConstantsOK, NEW file \in File
  PROVE  Read(file) \in Seen /\ (Read(file) = Odd <=> file = Odd)
<1>1. Empty \in Document
  BY DEF Empty, Document
<1> QED
  BY <1>1 DEF Read, File, Seen, ConstantsOK

LEMMA DocumentParts ==
  ASSUME ConstantsOK, NEW doc \in Document
  PROVE  /\ doc # Odd /\ doc # Torn /\ doc # None
         /\ doc.roles \in Roles \cup {None} /\ doc.groups \in Roles \cup {None}
         /\ doc.default \in Roles \cup {None}
BY DEF ConstantsOK, Document

LEMMA RoleForType ==
  ASSUME ConstantsOK, who \in Who, NEW doc1 \in Seen, NEW doc2 \in Seen
  PROVE  RoleFor(doc1, doc2) \in Roles \cup {None}
<1>1. who.env \in Roles \cup {None}
  BY DEF Who, ConstantsOK
<1>2. Fallback(doc1) \in Roles \cup {None}
  BY <1>1, DocumentParts DEF Seen, Fallback, Roles
<1> QED
  BY <1>2, DocumentParts DEF Seen, ByGroup, RoleFor

LEMMA GivesType ==
  ASSUME ConstantsOK, who \in Who, NEW file \in File
  PROVE  Gives(file) \in Roles \cup {None}
BY ReadType, RoleForType DEF Gives

(* Two documents with the same entries give the same role.                 *)
LEMMA SameRole ==
  ASSUME NEW doc1 \in Seen, NEW doc2 \in Seen, SameEntries(doc1, doc2)
  PROVE  RoleFor(doc1, doc2) = RoleFor(doc1, doc1)
BY DEF SameEntries, SameRoles, SameGroups, SameDefault, RoleFor, ByGroup

LEMMA SameGives ==
  ASSUME NEW doc1 \in Seen, NEW doc2 \in Seen, SameEntries(doc1, doc2)
  PROVE  RoleFor(doc1, doc1) = RoleFor(doc2, doc2)
BY DEF SameEntries, SameRoles, SameGroups, SameDefault, RoleFor, ByGroup, Fallback

(* A role read from two documents that differ in one entry is the role one *)
(* of them gives.                                                          *)
LEMMA OneOfBoth ==
  ASSUME NEW doc1 \in Seen, NEW doc2 \in Seen, DifferInOne(doc1, doc2)
  PROVE  RoleFor(doc1, doc2) \in {RoleFor(doc1, doc1), RoleFor(doc2, doc2)}
<1>1. CASE SameEntries(doc1, doc2)
  BY <1>1, SameRole
<1>2. CASE ~ SameEntries(doc1, doc2)
  BY <1>2 DEF DifferInOne, SameRoles, SameGroups, SameDefault, RoleFor, ByGroup, Fallback
<1> QED
  BY <1>1, <1>2

(* Of any two documents: nothing is decided only if one alone decides      *)
(* nothing, and then it is no object.                                      *)
LEMMA Undecided ==
  ASSUME ConstantsOK, NEW doc1 \in Seen, NEW doc2 \in Seen, RoleFor(doc1, doc2) = None
  PROVE  /\ None \in {RoleFor(doc1, doc1), RoleFor(doc2, doc2)}
         /\ doc1 = Odd \/ doc2 = Odd
<1>1. doc1 # Odd => Fallback(doc1) # None
  BY DEF Fallback, ConstantsOK
<1> QED
  BY <1>1 DEF RoleFor, ByGroup, Fallback

-----------------------------------------------------------------------------
LEMMA InitInv == ASSUME ConstantsOK, Init PROVE IInv
<1> USE DEF Init
<1>1. 0 \in 0 .. MaxEdits
  BY DEF ConstantsOK
<1>2. TypeOK
  BY <1>1 DEF TypeOK
<1>3. WriterInv
  BY DEF WriterInv, Idle
<1>4. \A c \in Calls : CallInv(c)
  BY DEF CallInv, Idle
<1> QED
  BY <1>2, <1>3, <1>4 DEF IInv, PolicyIntact

(* A step of one call leaves the others as they were.                      *)
LEMMA OneCall ==
  ASSUME IInv, NEW c \in Calls, NEW next \in {Idle} \cup Call, call' = [call EXCEPT ![c] = next],
         UNCHANGED <<who, policy, tmp, writer, edits, intended>>,
         CallInv(c)'
  PROVE  IInv'
<1> USE DEF IInv
<1>1. TypeOK'
  BY DEF TypeOK
<1>2. WriterInv' /\ PolicyIntact'
  BY DEF WriterInv, PolicyIntact
<1>3. ASSUME NEW d \in Calls, d # c PROVE CallInv(d)'
  <2>1. call'[d] = call[d] /\ policy' = policy /\ who' = who
    BY <1>3 DEF TypeOK
  <2>2. Gives(policy)' = Gives(policy) /\ OwnArea(policy)' = OwnArea(policy)
        /\ Read(policy)' = Read(policy)
    BY <2>1 DEF Gives, OwnArea, Read, RoleFor, ByGroup, Fallback
  <2>3. RoleFor(call[d].doc, call[d].doc)' = RoleFor(call[d].doc, call[d].doc)
    BY <2>1 DEF RoleFor, ByGroup, Fallback
  <2> QED
    BY <2>1, <2>2, <2>3 DEF CallInv, ReadInv, GroupsInv, DecidedInv, Permitted, ScopeInv
<1> QED
  BY <1>1, <1>2, <1>3

LEMMA ReadRolesStep ==
  ASSUME ConstantsOK, IInv, NEW c \in Calls, NEW tool \in Tools, ReadRoles(c, tool)
  PROVE  IInv'
<1> DEFINE next == [at |-> "groups", tool |-> tool, doc |-> Read(policy), role |-> None,
                    scope |-> "asked", roles |-> {Gives(policy)}, own |-> OwnArea(policy),
                    edits |-> 0]
<1>1. policy \in File /\ Read(policy) \in Seen /\ who \in Who
  BY ReadType DEF IInv, TypeOK
<1>2. Gives(policy) \in Roles \cup {None} /\ OwnArea(policy) \in BOOLEAN
  BY <1>1, GivesType DEF OwnArea
<1>3. next \in Call
  BY <1>1, <1>2 DEF Call, Seen
<1>4. call'[c] = next /\ policy' = policy /\ who' = who
  BY DEF ReadRoles, IInv, TypeOK
<1>5. next.at = "groups" /\ next.doc = Read(policy) /\ next.edits = 0
      /\ next.roles = {Gives(policy)} /\ (next.own => OwnArea(policy))
  OBVIOUS
<1>6. Gives(policy)' = Gives(policy) /\ OwnArea(policy)' = OwnArea(policy)
      /\ Read(policy)' = Read(policy)
  BY <1>4 DEF Gives, OwnArea, Read, RoleFor, ByGroup, Fallback
<1>7. ReadInv(c)'
  BY <1>4, <1>5, <1>6 DEF ReadInv
<1>8. GroupsInv(c)'
  <2>1. RoleFor(call[c].doc, call[c].doc)' = Gives(policy)
    BY <1>4, <1>5 DEF Gives, RoleFor, ByGroup, Fallback
  <2>2. OwnArea(policy) => Read(policy) # Odd
    BY <1>1, ReadType DEF OwnArea
  <2> HIDE DEF next
  <2> QED
    BY <1>4, <1>5, <1>6, <2>1, <2>2
    DEF GroupsInv, SameEntries, SameRoles, SameGroups, SameDefault
<1>9. CallInv(c)'
  BY <1>4, <1>5, <1>7, <1>8 DEF CallInv
<1> QED
  BY <1>3, <1>9, OneCall DEF ReadRoles

LEMMA ReadGroupsStep ==
  ASSUME ConstantsOK, IInv, NEW c \in Calls, ReadGroups(c)
  PROVE  IInv'
<1> DEFINE role == RoleFor(call[c].doc, Read(policy))
           scoped == role # None /\ call[c].tool \in MEMORY_SCOPED_TOOLS
           next == [call[c] EXCEPT !.doc = Empty, !.role = role,
                                   !.at = IF scoped THEN "area" ELSE "run"]
<1>1. call[c] \in Call /\ policy \in File /\ call[c].at = "groups" /\ call[c] # Idle /\ who \in Who
  BY DEF ReadGroups, IInv, TypeOK, Idle
<1>2. call[c].doc \in Seen /\ Read(policy) \in Seen /\ call[c].edits \in 0 .. 2
  BY <1>1, ReadType DEF Call, Seen
<1>3. role \in Roles \cup {None}
  BY <1>1, <1>2, RoleForType
<1>4. CallInv(c) /\ ReadInv(c) /\ GroupsInv(c)
  BY <1>1 DEF IInv, CallInv
<1>5. policy' = policy /\ who' = who
  BY DEF ReadGroups
<1>6. CASE Denied(role, call[c].tool)
  <2>1. call' = [call EXCEPT ![c] = Idle]
    BY <1>6 DEF ReadGroups
  <2>2. CallInv(c)'
    BY <2>1 DEF CallInv, Idle, IInv, TypeOK
  <2> QED
    BY <2>1, <2>2, OneCall DEF ReadGroups
<1>7. CASE Allowed(role, call[c].tool)
  <2>1. call' = [call EXCEPT ![c] = next]
    BY <1>7 DEF ReadGroups, Denied
  <2>2. Empty \in Document
    BY DEF Empty, Document
  <2>3. next \in Call
    BY <1>1, <1>3, <2>2 DEF Call
  <2>4. call'[c] = next
    BY <2>1 DEF IInv, TypeOK
  <2>5. next.roles = call[c].roles /\ next.tool = call[c].tool /\ next.own = call[c].own
        /\ next.edits = call[c].edits /\ next.role = role /\ next.at \in {"area", "run"}
        /\ (next.at = "run" => role = None \/ next.tool \notin MEMORY_SCOPED_TOOLS)
    BY <1>1 DEF Call
  <2>6. role = None => None \in call[c].roles /\ ~ call[c].own
    <3>1. role = None => /\ None \in {RoleFor(call[c].doc, call[c].doc), Gives(policy)}
                         /\ call[c].doc = Odd \/ Read(policy) = Odd
      BY <1>2, Undecided DEF Gives
    <3>2. Read(policy) = Odd => ~ OwnArea(policy)
      BY <1>1, ReadType DEF OwnArea
    <3> QED
      BY <1>4, <3>1, <3>2 DEF ReadInv, GroupsInv
  <2>7. call[c].edits <= 1 => role \in call[c].roles
    <3>1. CASE call[c].edits = 0
      BY <1>2, <1>4, <3>1, SameRole DEF GroupsInv
    <3>2. CASE call[c].edits = 1
      <4>1. role \in {RoleFor(call[c].doc, call[c].doc), Gives(policy)}
        BY <1>2, <1>4, <3>2, OneOfBoth DEF GroupsInv, Gives
      <4> QED
        BY <1>4, <4>1 DEF GroupsInv, ReadInv
    <3> QED
      BY <1>2, <3>1, <3>2
  <2> HIDE DEF next, role
  <2>8. ReadInv(c)'
    BY <1>4, <1>5, <2>4, <2>5 DEF ReadInv, Gives, OwnArea, Read, RoleFor, ByGroup, Fallback
  <2>9. DecidedInv(c)'
    BY <1>7, <2>4, <2>5, <2>6, <2>7 DEF DecidedInv, Permitted
  <2>10. next.at = "run" => ScopeInv(c)'
    BY <2>4, <2>5, <2>6 DEF ScopeInv
  <2>11. CallInv(c)'
    BY <2>4, <2>5, <2>8, <2>9, <2>10 DEF CallInv
  <2> QED
    BY <2>1, <2>3, <2>11, OneCall DEF ReadGroups
<1> QED
  BY <1>6, <1>7 DEF Denied

LEMMA ReadAreaStep ==
  ASSUME IInv, NEW c \in Calls, ReadArea(c)
  PROVE  IInv'
<1> DEFINE scope == IF Confined(policy, call[c].role) THEN "own" ELSE "asked"
           next == [call[c] EXCEPT !.at = "run", !.scope = scope]
<1>1. call[c] \in Call /\ call[c].at = "area" /\ call[c] # Idle
  BY DEF ReadArea, IInv, TypeOK, Idle
<1>2. next \in Call
  BY <1>1 DEF Call
<1>3. call' = [call EXCEPT ![c] = next] /\ call'[c] = next /\ policy' = policy /\ who' = who
  BY DEF ReadArea, IInv, TypeOK
<1>4. next.roles = call[c].roles /\ next.tool = call[c].tool /\ next.own = call[c].own
      /\ next.edits = call[c].edits /\ next.at = "run" /\ next.role = call[c].role
      /\ next.scope = scope
  BY <1>1 DEF Call
<1>5. ReadInv(c) /\ DecidedInv(c)
  BY <1>1 DEF IInv, CallInv
<1>6. next.own /\ next.role # "admin" /\ who.kind # "unknown" => next.scope = "own"
  BY <1>4, <1>5 DEF ReadInv, Confined
<1> HIDE DEF next, scope
<1>7. ReadInv(c)'
  BY <1>3, <1>4, <1>5 DEF ReadInv, Gives, OwnArea, Read, RoleFor, ByGroup, Fallback
<1>8. DecidedInv(c)' /\ ScopeInv(c)'
  BY <1>3, <1>4, <1>5, <1>6 DEF DecidedInv, Permitted, ScopeInv
<1>9. CallInv(c)'
  BY <1>3, <1>4, <1>7, <1>8 DEF CallInv
<1> QED
  BY <1>2, <1>3, <1>9, OneCall DEF ReadArea

LEMMA RunStep ==
  ASSUME IInv, NEW c \in Calls, Run(c)
  PROVE  IInv'
<1>1. CallInv(c)'
  BY DEF Run, CallInv, Idle, IInv, TypeOK
<1> QED
  BY <1>1, OneCall DEF Run

-----------------------------------------------------------------------------
(* A step of the writer that leaves the file alone.                        *)
LEMMA WriterStep ==
  ASSUME IInv, UNCHANGED <<who, policy, call, edits, intended>>, TypeOK', WriterInv'
  PROVE  IInv'
<1>1. ASSUME NEW c \in Calls PROVE CallInv(c)'
  <2>1. Gives(policy)' = Gives(policy) /\ OwnArea(policy)' = OwnArea(policy)
        /\ Read(policy)' = Read(policy)
    BY DEF Gives, OwnArea, Read, RoleFor, ByGroup, Fallback
  <2>2. RoleFor(call[c].doc, call[c].doc)' = RoleFor(call[c].doc, call[c].doc)
    BY DEF RoleFor, ByGroup, Fallback
  <2> QED
    BY <2>1, <2>2 DEF IInv, CallInv, ReadInv, GroupsInv, DecidedInv, Permitted, ScopeInv
<1> QED
  BY <1>1 DEF IInv, PolicyIntact

LEMMA RewriteStep ==
  ASSUME ConstantsOK, IInv, NEW area \in {None, "own", "all"}, Rewrite(area)
  PROVE  IInv'
<1> DEFINE next == [at |-> "open", doc |-> WithArea(area), stale |-> policy = Torn]
<1>1. policy \in Document \cup {Torn} /\ Read(policy) \in Document
      /\ (policy # Torn => Read(policy) = policy)
  BY DEF Rewrite, IInv, TypeOK, File, Read, Empty, Document
<1>2. WithArea(area) \in Document /\ WithArea(area).roles = Read(policy).roles
      /\ WithArea(area).groups = Read(policy).groups
      /\ WithArea(area).default = Read(policy).default
  BY <1>1 DEF WithArea, Document
<1>3. next \in Writer /\ writer' = next /\ next.at = "open" /\ next.doc = WithArea(area)
      /\ (~ next.stale => policy # Torn) /\ policy' = policy
  BY <1>2 DEF Writer, Rewrite
<1>4. TypeOK'
  BY <1>3 DEF Rewrite, IInv, TypeOK
<1>5. policy # Torn => policy \in Document /\ SameEntries(WithArea(area), policy)
  BY <1>1, <1>2, DocumentParts DEF SameEntries, SameRoles, SameGroups, SameDefault
<1> HIDE DEF next
<1>6. WriterInv'
  BY <1>3, <1>5 DEF WriterInv, SameEntries, SameRoles, SameGroups, SameDefault
<1> QED
  BY <1>4, <1>6, WriterStep DEF Rewrite

LEMMA TmpStep ==
  ASSUME IInv, OpenTmp \/ FillTmp
  PROVE  IInv'
<1>1. writer \in Writer /\ writer # Idle
  BY DEF OpenTmp, FillTmp, Idle, IInv, WriterInv
<1>2. writer' \in Writer /\ writer'.doc = writer.doc /\ writer'.stale = writer.stale
      /\ (writer'.at = "replace" => tmp' = writer.doc) /\ tmp' \in Document \cup {None, Torn}
  BY <1>1 DEF OpenTmp, FillTmp, Writer
<1>3. UNCHANGED <<who, policy, call, edits, intended>>
  BY DEF OpenTmp, FillTmp
<1>4. TypeOK'
  BY <1>2, <1>3 DEF IInv, TypeOK
<1>5. WriterInv'
  BY <1>1, <1>2, <1>3 DEF IInv, WriterInv, SameEntries, SameRoles, SameGroups, SameDefault
<1> QED
  BY <1>3, <1>4, <1>5, WriterStep

-----------------------------------------------------------------------------
(* A change of the file is lived through by every call under way.          *)
LEMMA LivedStep ==
  ASSUME ConstantsOK, IInv, NEW changes \in 0 .. 2,
         policy' \in File, call' = Lived(policy', changes), who' = who,
         changes = 0 => policy \in Document /\ policy' \in Document /\ SameEntries(policy, policy'),
         changes = 1 => policy \in Document /\ policy' \in Document /\ DifferInOne(policy, policy')
  PROVE  /\ call' \in [Calls -> {Idle} \cup Call]
         /\ \A c \in Calls : CallInv(c)'
<1>0. policy \in File /\ who \in Who
  BY DEF IInv, TypeOK
<1> SUFFICES ASSUME NEW c \in Calls
             PROVE  call'[c] \in {Idle} \cup Call /\ CallInv(c)'
  BY DEF Lived
<1>1. CASE call[c] = Idle
  BY <1>1 DEF Lived, Idle, CallInv
<1>2. CASE call[c] # Idle
  <2> DEFINE next == [call[c] EXCEPT !.roles = @ \cup {Gives(policy')},
                          !.own = @ /\ OwnArea(policy'),
                          !.edits = IF @ + changes <= 2 THEN @ + changes ELSE 2]
  <2>1. call[c] \in Call /\ CallInv(c) /\ ReadInv(c)
    BY <1>2 DEF IInv, TypeOK, CallInv
  <2>2. call'[c] = next
    BY <1>2 DEF Lived
  <2>3. /\ next.at = call[c].at /\ next.tool = call[c].tool /\ next.doc = call[c].doc
        /\ next.role = call[c].role /\ next.scope = call[c].scope
        /\ next.roles = call[c].roles \cup {Gives(policy')}
        /\ (next.own => call[c].own /\ OwnArea(policy'))
        /\ next.edits = IF call[c].edits + changes <= 2 THEN call[c].edits + changes ELSE 2
    BY <2>1 DEF Call
  <2>4. call[c].edits \in 0 .. 2 /\ call[c].doc \in Seen
    BY <2>1 DEF Call, Seen
  <2>5. next.edits \in 0 .. 2 /\ (next.edits = 0 => call[c].edits = 0 /\ changes = 0)
        /\ (next.edits = 1 => (call[c].edits = 0 /\ changes = 1)
                             \/ (call[c].edits = 1 /\ changes = 0))
        /\ (next.edits <= 1 => call[c].edits <= 1)
    BY <2>3, <2>4
  <2>6. next \in Call
    <3>1. call[c].roles \cup {Gives(policy')} \in SUBSET (Roles \cup {None})
      BY <1>0, <2>1, GivesType DEF Call
    <3>2. (call[c].own /\ OwnArea(policy')) \in BOOLEAN
      OBVIOUS
    <3>3. (IF call[c].edits + changes <= 2 THEN call[c].edits + changes ELSE 2) \in 0 .. 2
      BY <2>3, <2>5
    <3> QED
      BY <2>1, <3>1, <3>2, <3>3 DEF Call
  <2> HIDE DEF next
  <2>7. Gives(policy)' = Gives(policy') /\ OwnArea(policy)' = OwnArea(policy')
        /\ Read(policy)' = Read(policy')
    BY DEF Gives, OwnArea, Read, RoleFor, ByGroup, Fallback
  <2>8. ReadInv(c)'
    BY <2>2, <2>3, <2>7 DEF ReadInv
  <2>9. ASSUME call[c].at = "groups" PROVE GroupsInv(c)'
    <3>1. GroupsInv(c)
      BY <2>1, <2>9 DEF CallInv
    <3>2. RoleFor(call[c].doc, call[c].doc)' = RoleFor(call[c].doc, call[c].doc)
      BY <2>2, <2>3 DEF RoleFor, ByGroup, Fallback
    <3>3. policy \in Document /\ policy' \in Document
            => Read(policy) = policy /\ Read(policy') = policy' /\ policy # Odd /\ policy' # Odd
      BY DocumentParts DEF Read
    <3>4. next.edits = 0 => SameEntries(next.doc, Read(policy'))
      BY <2>3, <2>5, <3>1, <3>3 DEF GroupsInv, SameEntries, SameRoles, SameGroups, SameDefault
    <3>5. next.edits = 1 => DifferInOne(next.doc, Read(policy'))
      BY <2>3, <2>5, <3>1, <3>3
      DEF GroupsInv, SameEntries, DifferInOne, SameRoles, SameGroups, SameDefault
    <3> QED
      BY <2>2, <2>3, <2>7, <3>1, <3>2, <3>4, <3>5
      DEF GroupsInv, SameEntries, DifferInOne, SameRoles, SameGroups, SameDefault
  <2>10. call[c].at \in {"area", "run"} => DecidedInv(c)'
    BY <2>1, <2>2, <2>3, <2>5 DEF CallInv, DecidedInv, Permitted
  <2>11. call[c].at = "run" => ScopeInv(c)'
    BY <2>1, <2>2, <2>3 DEF CallInv, ScopeInv
  <2>12. CallInv(c)'
    BY <2>2, <2>3, <2>8, <2>9, <2>10, <2>11 DEF CallInv
  <2> QED
    BY <2>2, <2>6, <2>12
<1> QED
  BY <1>1, <1>2

LEMMA ReplaceStep ==
  ASSUME ConstantsOK, IInv, Replace
  PROVE  IInv'
<1> USE DEF IInv
<1>1. writer \in Writer /\ writer # Idle /\ tmp = writer.doc /\ writer.doc \in Document
  BY DEF Replace, WriterInv, Idle, Writer
<1>2. policy' = writer.doc /\ policy' \in Document /\ policy' \in File
  BY <1>1 DEF Replace, File
<1>3. ~ writer.stale => policy \in Document /\ SameEntries(policy, policy')
  BY <1>1, <1>2 DEF WriterInv, SameEntries, SameRoles, SameGroups, SameDefault
<1>4. intended' = policy'
  <2>1. CASE writer.stale
    BY <1>1, <1>2, <2>1 DEF Replace
  <2>2. CASE ~ writer.stale
    <3>1. policy \in Document /\ intended = policy /\ SameEntries(policy, policy') /\ policy # Odd
      BY <1>3, <2>2, DocumentParts DEF PolicyIntact
    <3>2. intended' = [policy EXCEPT !.users = policy'.users]
      BY <1>1, <1>2, <2>2, <3>1 DEF Replace
    <3> QED
      BY <1>2, <3>1, <3>2 DEF Document, SameEntries, SameRoles, SameGroups, SameDefault
  <2> QED
    BY <2>1, <2>2
<1>5. call' \in [Calls -> {Idle} \cup Call] /\ \A c \in Calls : CallInv(c)'
  <2>1. CASE writer.stale
    <3>1. call' = Lived(policy', 2) /\ 2 \in 0 .. 2 /\ who' = who
      BY <2>1 DEF Replace
    <3> QED
      BY <1>2, <3>1, LivedStep
  <2>2. CASE ~ writer.stale
    <3>1. call' = Lived(policy', 0) /\ 0 \in 0 .. 2 /\ who' = who
      BY <2>2 DEF Replace
    <3> QED
      BY <1>2, <1>3, <2>2, <3>1, LivedStep
  <2> QED
    BY <2>1, <2>2
<1>6. TypeOK'
  BY <1>2, <1>4, <1>5 DEF Replace, TypeOK
<1>7. WriterInv'
  BY DEF Replace, WriterInv, Idle
<1> QED
  BY <1>4, <1>5, <1>6, <1>7 DEF PolicyIntact

(* Whatever the operator saves, a tool under way is stale.                 *)
LEMMA EditStep ==
  ASSUME ConstantsOK, IInv, NEW file \in File, NEW changes \in {1, 2}, Edit(file, changes),
         changes = 1 => policy \in Document /\ file \in Document /\ DifferInOne(policy, file)
  PROVE  IInv'
<1> USE DEF IInv
<1>1. policy' = file /\ intended' = file /\ call' = Lived(policy', changes) /\ who' = who
      /\ tmp' = tmp /\ edits' \in 0 .. MaxEdits
  BY DEF Edit, TypeOK, ConstantsOK
<1>2. changes \in 0 .. 2 /\ changes # 0
  OBVIOUS
<1>3. call' \in [Calls -> {Idle} \cup Call] /\ \A c \in Calls : CallInv(c)'
  BY <1>1, <1>2, LivedStep
<1>4. writer' \in {Idle} \cup Writer /\ WriterInv'
  <2>1. CASE writer = Idle
    BY <2>1 DEF Edit, WriterInv, Idle
  <2>2. CASE writer # Idle
    <3> DEFINE next == [writer EXCEPT !.stale = TRUE]
    <3>1. writer \in Writer /\ writer' = next
      BY <2>2 DEF WriterInv, Edit
    <3>2. next \in Writer /\ next.stale = TRUE /\ next.at = writer.at /\ next.doc = writer.doc
      BY <3>1 DEF Writer
    <3> HIDE DEF next
    <3> QED
      BY <1>1, <3>1, <3>2 DEF WriterInv
  <2> QED
    BY <2>1, <2>2
<1>5. TypeOK'
  BY <1>1, <1>3, <1>4 DEF TypeOK
<1> QED
  BY <1>1, <1>3, <1>4, <1>5 DEF PolicyIntact

LEMMA EditEntryStep ==
  ASSUME ConstantsOK, IInv, EditEntry
  PROVE  IInv'
<1>1. PICK f \in {"roles", "groups", "default", "users"}, v \in {None, "own", "all"} \cup Roles :
        [policy EXCEPT ![f] = v] \in Document /\ Edit([policy EXCEPT ![f] = v], 1)
  BY DEF EditEntry
<1> DEFINE file == [policy EXCEPT ![f] = v]
<1>2. policy \in Document /\ file \in Document /\ file \in File
  BY <1>1 DEF EditEntry, File
<1>3. DifferInOne(policy, file)
  <2>1. policy # Odd /\ file # Odd
    BY <1>2, DocumentParts
  <2> QED
    BY <1>2, <2>1 DEF Document, DifferInOne, SameRoles, SameGroups, SameDefault
<1> HIDE DEF file
<1> QED
  BY <1>1, <1>2, <1>3, EditStep DEF file

LEMMA BreakStep ==
  ASSUME ConstantsOK, IInv, Break \/ Repair
  PROVE  IInv'
<1>1. PICK file \in File : Edit(file, 2)
  BY DEF Break, Repair, File
<1> QED
  BY <1>1, EditStep

LEMMA RestartStep ==
  ASSUME IInv, Restart
  PROVE  IInv'
BY DEF Restart, IInv, TypeOK, WriterInv, CallInv, PolicyIntact, Idle

-----------------------------------------------------------------------------
LEMMA NextStep ==
  ASSUME ConstantsOK, IInv, [Next]_vars
  PROVE  IInv'
<1>1. CASE UNCHANGED vars
  <2>1. TypeOK' /\ WriterInv'
    BY <1>1 DEF vars, IInv, TypeOK, WriterInv
  <2> QED
    BY <1>1, <2>1, WriterStep DEF vars
<1>2. ASSUME NEW c \in Calls, NEW tool \in Tools, ReadRoles(c, tool) PROVE IInv'
  BY <1>2, ReadRolesStep
<1>3. ASSUME NEW c \in Calls, ReadGroups(c) \/ ReadArea(c) \/ Run(c) PROVE IInv'
  BY <1>3, ReadGroupsStep, ReadAreaStep, RunStep
<1>4. ASSUME NEW area \in {None, "own", "all"}, Rewrite(area) PROVE IInv'
  BY <1>4, RewriteStep
<1>5. CASE OpenTmp \/ FillTmp
  BY <1>5, TmpStep
<1>6. CASE Replace \/ EditEntry \/ Break \/ Repair \/ Restart
  BY <1>6, ReplaceStep, EditEntryStep, BreakStep, RestartStep
<1> QED
  BY <1>1, <1>2, <1>3, <1>4, <1>5, <1>6 DEF Next, TenancySet, TenancyUnset

LEMMA RunSafely == IInv => RunAsPermitted /\ OwnScopeOnly
BY DEF IInv, RunAsPermitted, OwnScopeOnly, CallInv, DecidedInv, ScopeInv, Permitted

(* Each variable keeps its type, and neither a crash nor a tool changes    *)
(* what it should not in policy.json, but for stale tools                  *)
(* (tenancy.py:153-155).                                                   *)
THEOREM PolicyTyped == ConstantsOK => (Spec => [](TypeOK /\ PolicyIntact))
<1> SUFFICES ASSUME ConstantsOK PROVE Spec => [](TypeOK /\ PolicyIntact)
  OBVIOUS
<1>1. Init => IInv
  BY InitInv
<1>2. IInv /\ [Next]_vars => IInv'
  BY NextStep
<1>3. IInv => TypeOK /\ PolicyIntact
  BY DEF IInv
<1> QED
  BY <1>1, <1>2, <1>3, PTL DEF Spec

(* However the reads of a call interleave with rewrites and edits, a tool  *)
(* runs undecided only if the file decided nothing at some time during the *)
(* call, and with no more than one entry edited it runs only for what the  *)
(* file gave during the call (authz.py's middleware, failing open); a      *)
(* known caller that was confined all along gets its own scope             *)
(* (tenancy.py:31).                                                        *)
THEOREM Permission == ConstantsOK => (Spec => [](RunAsPermitted /\ OwnScopeOnly))
<1> SUFFICES ASSUME ConstantsOK PROVE Spec => [](RunAsPermitted /\ OwnScopeOnly)
  OBVIOUS
<1>1. Init => IInv
  BY InitInv
<1>2. IInv /\ [Next]_vars => IInv'
  BY NextStep
<1> QED
  BY <1>1, <1>2, RunSafely, PTL DEF Spec
=============================================================================
