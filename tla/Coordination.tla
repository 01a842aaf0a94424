---------------------------- MODULE Coordination ----------------------------
(***************************************************************************)
(* app/coordination.py: inbox, task board and agent registry, three JSON   *)
(* files.  Every tool reads its file, changes the list in memory and       *)
(* writes the file back whole; nothing is locked.  path.write_text         *)
(* truncates the file and fills it in two steps, and task_handoff does a   *)
(* second read and write, on the inbox, after that on the task file.  A    *)
(* reader that meets less than one whole JSON text takes it for [].        *)
(*                                                                         *)
(* A tool that finds nothing to change answers without writing: that is no *)
(* step here.  Which open tasks are recommended is in TaskNext.            *)
(***************************************************************************)
CONSTANTS
  Callers,          \* tool calls that can be under way at once
  Tools,            \* the tools in use
  Overlap,          \* may two calls be at work on one file?
  Agents, Nobody,   \* agent names; "": no owner, not assigned
  Everyone,         \* "all", a recipient
  Tasks, Msgs,      \* identifiers that can be in use at once
  Statuses,         \* what callers pass to task_update
  Caps, NoCaps,     \* capability texts of an agent; "": not given
  NoRow,            \* no entry under that identifier
  Torn              \* a file holding less than one whole JSON text

VARIABLES
  disk,      \* the files
  call,      \* the call each caller is in
  answered,  \* messages whose sender was told "Posted message ..."
  outage     \* flips at every failed write and restart

vars == <<disk, call, answered, outage>>

Files == {"inbox", "tasks", "agents"}

Task == [status : Statuses \cup {"open", "claimed"},
         owner : Agents \cup {Nobody}, assigned : Agents \cup {Nobody}]
Message == [to : Agents \cup {Everyone}, about : Tasks \cup {NoRow}, read : BOOLEAN]

(* A file's content, by identifier; a missing file reads as an empty one.  *)
Rows(f) == CASE f = "inbox"  -> [Msgs -> Message \cup {NoRow}]
             [] f = "tasks"  -> [Tasks -> Task \cup {NoRow}]
             [] f = "agents" -> [Agents -> Caps \cup {NoCaps, NoRow}]

NoRows(f) == CASE f = "inbox"  -> [m \in Msgs |-> NoRow]
               [] f = "tasks"  -> [k \in Tasks |-> NoRow]
               [] f = "agents" -> [a \in Agents |-> NoRow]

(* rows: what the call is about to write; note: the message a handoff has  *)
(* still to drop into the inbox; post: the message of an inbox_post.       *)
Note == [id : Msgs, msg : Message] \cup {NoRow}
Call == [at : {"truncate", "flush", "notify"}, tool : Tools, file : Files,
         rows : UNION {Rows(f) : f \in Files}, note : Note, post : Msgs \cup {NoRow}]
Idle == NoRow

(* What the constants stand for: an entry is not NoRow, a file not Torn.   *)
ASSUME ConstantsAssumption ==
  /\ Overlap \in BOOLEAN
  /\ NoRow \notin Task \cup Message \cup Caps \cup {NoCaps} \cup Msgs \cup Call
  /\ NoRow \notin [id : Msgs, msg : Message]
  /\ \A f \in Files : Torn \notin Rows(f)

TypeOK ==
  /\ \A f \in Files : disk[f] \in Rows(f) \cup {Torn}
  /\ call \in [Callers -> Call \cup {Idle}]
  /\ \A c \in Callers : call[c] # Idle => call[c].rows \in Rows(call[c].file)
  /\ answered \in SUBSET Msgs
  /\ outage \in BOOLEAN

Init ==
  /\ disk = [f \in Files |-> NoRows(f)]
  /\ call = [c \in Callers |-> Idle]
  /\ answered = {}
  /\ outage = FALSE

-----------------------------------------------------------------------------
(* Reading and writing one file.                                           *)

Read(f) == IF disk[f] = Torn THEN NoRows(f) ELSE disk[f]

At(c, stage) == call[c] # Idle /\ call[c].at = stage

Uses(d, f) == (At(d, "truncate") \/ At(d, "flush")) /\ call[d].file = f
Free(f) == Overlap \/ \A d \in Callers : ~ Uses(d, f)

(* The call has read its file and made up the new content.  Asking for a   *)
(* message's deletion ends the promise that it is kept.                    *)
Begin(c, tool, f, rows, note, post) ==
  /\ tool \in Tools
  /\ call[c] = Idle
  /\ Free(f)
  /\ call' = [call EXCEPT ![c] = [at |-> "truncate", tool |-> tool, file |-> f,
                                  rows |-> rows, note |-> note, post |-> post]]
  /\ answered' = IF tool = "inbox_delete" THEN {m \in answered : rows[m] # NoRow} ELSE answered
  /\ UNCHANGED <<disk, outage>>

Truncate(c) ==
  /\ At(c, "truncate")
  /\ disk' = [disk EXCEPT ![call[c].file] = Torn]
  /\ call' = [call EXCEPT ![c].at = "flush"]
  /\ UNCHANGED <<answered, outage>>

(* Over what another call wrote since the truncation the two contents may  *)
(* mix.                                                                    *)
Written(f, rows) == IF disk[f] = Torn THEN {rows} ELSE {rows, Torn}

HandoffSilently(c) == FALSE

Notifies(c) == call[c].tool = "task_handoff" /\ call[c].file = "tasks" /\ call[c].note # NoRow

Flush(c) ==
  LET f == call[c].file IN
  /\ At(c, "flush")
  /\ \E new \in Written(f, call[c].rows) : disk' = [disk EXCEPT ![f] = new]
  /\ call' = [call EXCEPT ![c] = IF Notifies(c) THEN [@ EXCEPT !.at = "notify"] ELSE Idle]
  /\ answered' = answered \cup ({call[c].post} \ {NoRow})
  /\ UNCHANGED outage

NotifyOnly(c) ==
  /\ At(c, "notify")
  /\ Free("inbox")
  /\ call' = [call EXCEPT ![c] =
       [@ EXCEPT !.at = "truncate", !.file = "inbox",
                 !.rows = [NoRows("inbox") EXCEPT ![call[c].note.id] = call[c].note.msg]]]
  /\ UNCHANGED <<disk, answered, outage>>

(* task_handoff goes on to the inbox, which it reads only now.             *)
Notify(c) ==
  /\ At(c, "notify")
  /\ Free("inbox")
  /\ call' = [call EXCEPT ![c] =
       [@ EXCEPT !.at = "truncate", !.file = "inbox",
                 !.rows = [Read("inbox") EXCEPT ![call[c].note.id] = call[c].note.msg]]]
  /\ UNCHANGED <<disk, answered, outage>>

(* The write raises, at the opening or later, and the tool call with it;   *)
(* or the server dies with every call.  What is on disk stays.  Nothing is *)
(* promised any more of the messages told of before.                       *)
Fail(c) ==
  /\ call[c] # Idle /\ call[c].at # "notify"
  /\ call' = [call EXCEPT ![c] = Idle]
  /\ answered' = {}
  /\ outage' = ~ outage
  /\ UNCHANGED disk

Restart ==
  /\ call' = [c \in Callers |-> Idle]
  /\ answered' = {}
  /\ outage' = ~ outage
  /\ UNCHANGED disk

-----------------------------------------------------------------------------
(* The tools: what each makes of the content it read.  An identifier is    *)
(* new when nothing mentions it (uuid4 never repeats itself).              *)

Begun(c, tool, f, rows) == Begin(c, tool, f, rows, NoRow, NoRow)
Inbox(c, tool, rows) == Begun(c, tool, "inbox", rows)
Board(c, tool, rows) == Begun(c, tool, "tasks", rows)

Mentions(c, f, x) ==
  /\ call[c] # Idle
  /\ \/ call[c].file = f /\ call[c].rows[x] # NoRow
     \/ f = "inbox" /\ call[c].note # NoRow /\ call[c].note.id = x
     \/ f = "inbox" /\ call[c].post = x
New(f, x) == Read(f)[x] = NoRow /\ x \notin answered /\ \A c \in Callers : ~ Mentions(c, f, x)

Unread(to, about) == [to |-> to, about |-> about, read |-> FALSE]

InboxPost(c, to, m) ==
  /\ New("inbox", m)
  /\ Begin(c, "inbox_post", "inbox", [Read("inbox") EXCEPT ![m] = Unread(to, NoRow)], NoRow, m)

InboxAck(c, m) ==
  /\ Read("inbox")[m] # NoRow
  /\ Inbox(c, "inbox_ack", [Read("inbox") EXCEPT ![m].read = TRUE])

InboxDelete(c, m) ==
  /\ Read("inbox")[m] # NoRow
  /\ Inbox(c, "inbox_delete", [Read("inbox") EXCEPT ![m] = NoRow])

(* purge_read: written back even when nothing was read.                    *)
Kept(row) == IF row # NoRow /\ row.read THEN NoRow ELSE row
InboxPurge(c) ==
  Inbox(c, "inbox_delete", [m \in Msgs |-> Kept(Read("inbox")[m])])

TaskAdd(c, k, forAgent) ==
  /\ New("tasks", k)
  /\ Board(c, "task_add", [Read("tasks") EXCEPT ![k] =
       [status |-> "open", owner |-> Nobody, assigned |-> forAgent]])

Found(k) == Read("tasks")[k] # NoRow

(* Only "done" is refused: a task another agent holds is claimed again.    *)
Claimable(row) == row.status # "done"
TaskClaim(c, k, owner) ==
  /\ Found(k)
  /\ Claimable(Read("tasks")[k])
  /\ Board(c, "task_claim",
       [Read("tasks") EXCEPT ![k].status = "claimed", ![k].owner = owner])

TaskHandoff(c, k, to, m) ==
  /\ Found(k)
  /\ New("inbox", m)
  /\ Begin(c, "task_handoff", "tasks",
       [Read("tasks") EXCEPT ![k] = [status |-> "claimed", owner |-> to, assigned |-> to]],
       [id |-> m, msg |-> Unread(to, k)], NoRow)

TaskReleaseAs(c, k) ==
  /\ Found(k)
  /\ Board(c, "task_handoff", [Read("tasks") EXCEPT ![k].status = "released"])

(* to = "": assigned stays as it was.                                      *)
TaskRelease(c, k) ==
  /\ Found(k)
  /\ Board(c, "task_handoff",
       [Read("tasks") EXCEPT ![k].status = "open", ![k].owner = Nobody])

TaskUpdate(c, k, status) ==
  /\ Found(k)
  /\ Board(c, "task_update", [Read("tasks") EXCEPT ![k].status = status])

TaskDelete(c, k) ==
  /\ Found(k)
  /\ Board(c, "task_delete", [Read("tasks") EXCEPT ![k] = NoRow])

(* An empty argument keeps what was registered.                            *)
Registered(old, caps) == IF old # NoRow /\ caps = NoCaps THEN old ELSE caps
AgentRegister(c, a, caps) ==
  Begun(c, "agent_register", "agents",
        [Read("agents") EXCEPT ![a] = Registered(@, caps)])

AgentRemove(c, a) ==
  /\ Read("agents")[a] # NoRow
  /\ Begun(c, "agent_remove", "agents", [Read("agents") EXCEPT ![a] = NoRow])

-----------------------------------------------------------------------------
InboxTools(c) ==
  \/ InboxPurge(c)
  \/ \E m \in Msgs :
       \/ \E to \in Agents \cup {Everyone} : InboxPost(c, to, m)
       \/ InboxAck(c, m)
       \/ InboxDelete(c, m)

TaskTools(c) == \E k \in Tasks :
  \/ \E a \in Agents \cup {Nobody} : TaskAdd(c, k, a)
  \/ \E a \in Agents : TaskClaim(c, k, a) \/ \E m \in Msgs : TaskHandoff(c, k, a, m)
  \/ \E s \in Statuses : TaskUpdate(c, k, s)
  \/ TaskRelease(c, k)
  \/ TaskDelete(c, k)

AgentTools(c) == \E a \in Agents :
  \/ \E caps \in Caps \cup {NoCaps} : AgentRegister(c, a, caps)
  \/ AgentRemove(c, a)

Next ==
  \/ \E c \in Callers :
       \/ InboxTools(c) \/ TaskTools(c) \/ AgentTools(c)
       \/ Truncate(c) \/ Flush(c) \/ Notify(c) \/ Fail(c)
  \/ Restart

Spec == Init /\ [][Next]_vars

-----------------------------------------------------------------------------
(* coordination.py:5, 125 "append-only": a message whose sender was told   *)
(* it is posted stays in the inbox, through the other tools' rewrites of   *)
(* the file, until somebody deletes it or a write is cut short.            *)
PostedIsKept ==
  (\A c \in Callers : ~ (At(c, "flush") /\ call[c].file = "inbox")) =>
    \A m \in answered : Read("inbox")[m] # NoRow

(* Used one call per file at a time, the files implement TaskBoard: each   *)
(* tool is one step, taken when its write begins, on one entry only; a     *)
(* handoff's notice is on its way from then until it is in the inbox; only *)
(* an interruption loses anything, a whole file or a notice, never part of *)
(* a file.                                                                 *)
Content(f) ==
  IF \E c \in Callers : At(c, "flush") /\ call[c].file = f
  THEN call[CHOOSE c \in Callers : At(c, "flush") /\ call[c].file = f].rows
  ELSE Read(f)

OnItsWay(c) ==
  /\ call[c] # Idle /\ call[c].note # NoRow
  /\ IF call[c].file = "tasks" THEN call[c].at # "truncate" ELSE call[c].at = "truncate"

Atomic == INSTANCE TaskBoard WITH
  board <- Content("tasks"), inbox <- Content("inbox"), registry <- Content("agents"),
  transit <- {call[c].note : c \in {d \in Callers : OnItsWay(d)}}
ImplementsTaskBoard == Atomic!Spec
=============================================================================
