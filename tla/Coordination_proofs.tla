------------------------- MODULE Coordination_proofs -------------------------
(***************************************************************************)
(* Proofs about Coordination, for any callers, identifiers and contents.   *)
(*                                                                         *)
(* However calls overlap, the files stay well typed (Base).  While no two  *)
(* calls are at work on one file, a truncated file stays so until its      *)
(* writer fills it, and what a writer holds has every message answered for *)
(* (KeptInv); what is in hand is one tool's change of what is there, and a *)
(* notice has an identifier of its own (BoardInv).  Then each truncation   *)
(* is one step of TaskBoard, and every other step but an interruption      *)
(* changes nothing that TaskBoard sees.                                    *)
(***************************************************************************)
EXTENDS Coordination, TLAPS

(* disk holds the three files and nothing else; a handoff that has written *)
(* its task still has its notice.                                          *)
Filed == disk = [f \in Files |-> disk[f]]
Informed == \A c \in Callers : At(c, "notify") => Notifies(c)

Base == TypeOK /\ Filed /\ Informed

(* What the tools make of a file's content, old.                           *)
BoardStep(old, new) == \E k \in Tasks :
  \/ \E a \in Agents \cup {Nobody} :
       /\ old[k] = NoRow
       /\ new = [old EXCEPT ![k] = [status |-> "open", owner |-> Nobody, assigned |-> a]]
  \/ \E a \in Agents :
       /\ old[k] # NoRow /\ old[k].status # "done"
       /\ new = [old EXCEPT ![k].status = "claimed", ![k].owner = a]
  \/ \E s \in Statuses : old[k] # NoRow /\ new = [old EXCEPT ![k].status = s]
  \/ old[k] # NoRow /\ new = [old EXCEPT ![k].status = "open", ![k].owner = Nobody]
  \/ old[k] # NoRow /\ new = [old EXCEPT ![k] = NoRow]

HandOffStep(old, new, note) == \E k \in Tasks, a \in Agents :
  /\ old[k] # NoRow
  /\ new = [old EXCEPT ![k] = [status |-> "claimed", owner |-> a, assigned |-> a]]
  /\ note.id \in Msgs /\ note.msg = Unread(a, k)

PostStep(old, new, m) == \E to \in Agents \cup {Everyone} :
  old[m] = NoRow /\ new = [old EXCEPT ![m] = Unread(to, NoRow)]

AckStep(old, new) == \E m \in Msgs :
  old[m] # NoRow /\ new = [old EXCEPT ![m].read = TRUE]

DropStep(old, new) ==
  \/ \E m \in Msgs : old[m] # NoRow /\ new = [old EXCEPT ![m] = NoRow]
  \/ new = [m \in Msgs |-> Kept(old[m])]

NoticeStep(old, new, note) == new = [old EXCEPT ![note.id] = note.msg]

AgentStep(old, new) == \E a \in Agents :
  \/ \E caps \in Caps \cup {NoCaps} : new = [old EXCEPT ![a] = Registered(old[a], caps)]
  \/ old[a] # NoRow /\ new = [old EXCEPT ![a] = NoRow]

Made(tool, f, old, new, note, post) ==
  \/ f = "tasks" /\ note = NoRow /\ post = NoRow /\ BoardStep(old, new)
  \/ f = "tasks" /\ note # NoRow /\ post = NoRow /\ tool = "task_handoff" /\ HandOffStep(old, new, note)
  \/ f = "inbox" /\ note = NoRow /\ post # NoRow /\ tool = "inbox_post" /\ PostStep(old, new, post)
  \/ f = "inbox" /\ note = NoRow /\ post = NoRow /\ tool = "inbox_ack" /\ AckStep(old, new)
  \/ f = "inbox" /\ note = NoRow /\ post = NoRow /\ tool = "inbox_delete" /\ DropStep(old, new)
  \/ f = "inbox" /\ note # NoRow /\ post = NoRow /\ tool = "task_handoff" /\ NoticeStep(old, new, note)
  \/ f = "agents" /\ note = NoRow /\ post = NoRow /\ AgentStep(old, new)

(* One call per file: what is about to be written was made of what is      *)
(* there, and while it is written nothing else is there.                   *)
Alone == \A c, d \in Callers, f \in Files : Uses(c, f) /\ Uses(d, f) => c = d

InHand ==
  \A c \in Callers : At(c, "truncate") =>
    Made(call[c].tool, call[c].file, Read(call[c].file), call[c].rows, call[c].note, call[c].post)

Open == \A c \in Callers : At(c, "flush") => disk[call[c].file] = Torn

(* Nothing that was answered for is missing in what is about to be written,*)
(* nor what will be answered for then.                                     *)
Answerable(c) == answered \cup ({call[c].post} \ {NoRow})

Answering ==
  \A c \in Callers : Uses(c, "inbox") => \A m \in Answerable(c) : call[c].rows[m] # NoRow

Posting == \A c \in Callers : call[c] # Idle /\ call[c].post # NoRow => call[c].file = "inbox"

Keeping == Alone /\ Open /\ Answering /\ Posting /\ PostedIsKept
KeptInv == Base /\ Keeping

(* A notice on its way has an identifier of its own.                       *)
Carrying(c) == call[c] # Idle /\ call[c].note # NoRow /\ ~ (call[c].file = "inbox" /\ At(c, "flush"))

Absent(m, c) ==
  /\ Content("inbox")[m] = NoRow
  /\ \A d \in Callers : d # c /\ Uses(d, "inbox") => call[d].rows[m] = NoRow
  /\ \A d \in Callers : d # c /\ Carrying(d) => call[d].note.id # m

Carried == \A c \in Callers : Carrying(c) => Absent(call[c].note.id, c)

(* Only a handoff has a notice, and it touches only the board and the      *)
(* inbox.                                                                  *)
Handing == \A c \in Callers : call[c] # Idle /\ call[c].note # NoRow =>
  call[c].tool = "task_handoff" /\ call[c].file \in {"tasks", "inbox"}

BoardInv == KeptInv /\ InHand /\ Handing /\ Carried

-----------------------------------------------------------------------------
(* Contents of the files.                                                  *)
LEMMA RowsOf ==
  /\ Rows("inbox") = [Msgs -> Message \cup {NoRow}]
  /\ Rows("tasks") = [Tasks -> Task \cup {NoRow}]
  /\ Rows("agents") = [Agents -> Caps \cup {NoCaps, NoRow}]
BY DEF Rows

LEMMA Empty ==
  /\ NoRows("inbox") = [m \in Msgs |-> NoRow]
  /\ NoRows("tasks") = [k \in Tasks |-> NoRow]
  /\ NoRows("agents") = [a \in Agents |-> NoRow]
  /\ \A f \in Files : NoRows(f) \in Rows(f)
<1>1. /\ NoRows("inbox") = [m \in Msgs |-> NoRow]
      /\ NoRows("tasks") = [k \in Tasks |-> NoRow]
      /\ NoRows("agents") = [a \in Agents |-> NoRow]
  BY DEF NoRows
<1> QED
  BY <1>1, RowsOf DEF Files

LEMMA ReadRows == ASSUME TypeOK, NEW f \in Files PROVE Read(f) \in Rows(f)
BY Empty DEF TypeOK, Read

(* What the tools make of a content is one.                                *)
LEMMA MadeRows ==
  ASSUME NEW tool, NEW f \in Files, NEW old \in Rows(f), NEW new, NEW note \in Note,
         NEW post \in Msgs \cup {NoRow}, Made(tool, f, old, new, note, post)
  PROVE  new \in Rows(f)
<1>1. CASE f = "tasks" /\ BoardStep(old, new)
  <2>1. old \in [Tasks -> Task \cup {NoRow}]
    BY <1>1, RowsOf
  <2>2. \A k \in Tasks : old[k] # NoRow => old[k] \in Task
    BY <2>1
  <2>3. new \in [Tasks -> Task \cup {NoRow}]
    <3>1. ASSUME NEW k \in Tasks, NEW a \in Agents \cup {Nobody},
                 new = [old EXCEPT ![k] = [status |-> "open", owner |-> Nobody, assigned |-> a]]
          PROVE  new \in [Tasks -> Task \cup {NoRow}]
      BY <2>1, <3>1 DEF Task
    <3>2. ASSUME NEW k \in Tasks, NEW a \in Agents \cup {Nobody}, old[k] # NoRow,
                 NEW s \in Statuses \cup {"open", "claimed"},
                 \/ new = [old EXCEPT ![k].status = s, ![k].owner = a]
                 \/ new = [old EXCEPT ![k].status = s]
          PROVE  new \in [Tasks -> Task \cup {NoRow}]
      <4>1. [old[k] EXCEPT !.status = s, !.owner = a] \in Task /\ [old[k] EXCEPT !.status = s] \in Task
        BY <2>2, <3>2 DEF Task
      <4> QED
        BY <2>1, <3>2, <4>1
    <3>3. ASSUME NEW k \in Tasks, new = [old EXCEPT ![k] = NoRow]
          PROVE  new \in [Tasks -> Task \cup {NoRow}]
      BY <2>1, <3>3
    <3> QED
      BY <1>1, <3>1, <3>2, <3>3 DEF BoardStep
  <2> QED
    BY <1>1, <2>3, RowsOf
<1>2. CASE f = "tasks" /\ HandOffStep(old, new, note)
  <2>1. PICK k \in Tasks, a \in Agents :
          new = [old EXCEPT ![k] = [status |-> "claimed", owner |-> a, assigned |-> a]]
    BY <1>2 DEF HandOffStep
  <2>2. [status |-> "claimed", owner |-> a, assigned |-> a] \in Task
    BY DEF Task
  <2> QED
    BY <1>2, <2>1, <2>2, RowsOf
<1>3. CASE f = "inbox" /\ post # NoRow /\ PostStep(old, new, post)
  <2>1. \A to \in Agents \cup {Everyone} : Unread(to, NoRow) \in Message
    BY DEF Unread, Message
  <2> QED
    BY <1>3, <2>1, RowsOf DEF PostStep
<1>4. CASE f = "inbox" /\ AckStep(old, new)
  <2>1. PICK m \in Msgs : old[m] # NoRow /\ new = [old EXCEPT ![m].read = TRUE]
    BY <1>4 DEF AckStep
  <2>2. old \in [Msgs -> Message \cup {NoRow}]
    BY <1>4, RowsOf
  <2>3. old[m] \in Message
    BY <2>1, <2>2
  <2>4. [old[m] EXCEPT !.read = TRUE] \in Message
    BY <2>3 DEF Message
  <2>5. new = [old EXCEPT ![m] = [old[m] EXCEPT !.read = TRUE]]
    BY <2>1, <2>2
  <2> QED
    BY <1>4, <2>2, <2>4, <2>5, RowsOf
<1>5. CASE f = "inbox" /\ DropStep(old, new)
  BY <1>5, RowsOf DEF DropStep, Kept
<1>6. CASE f = "inbox" /\ note # NoRow /\ NoticeStep(old, new, note)
  BY <1>6, RowsOf DEF NoticeStep, Note
<1>7. CASE f = "agents" /\ AgentStep(old, new)
  BY <1>7, RowsOf DEF AgentStep, Registered
<1> QED
  BY <1>1, <1>2, <1>3, <1>4, <1>5, <1>6, <1>7 DEF Made

(* A tool that finds something to change begins with a content so made,    *)
(* and with identifiers nothing mentions.                                  *)
Begins(c, tool, f, rows, note, post) ==
  /\ Begin(c, tool, f, rows, note, post)
  /\ Made(tool, f, Read(f), rows, note, post)
  /\ note # NoRow => f = "tasks" /\ New("inbox", note.id)
  /\ post # NoRow => New("inbox", post)

BeginsSome(c) == \E tool \in Tools, f \in Files, note \in Note, post \in Msgs \cup {NoRow} :
  \E rows : Begins(c, tool, f, rows, note, post)

LEMMA Tool ==
  ASSUME TypeOK, NEW c \in Callers, InboxTools(c) \/ TaskTools(c) \/ AgentTools(c)
  PROVE  BeginsSome(c)
<1>0. NoRow \in Note /\ NoRow \notin Msgs /\ "inbox" \in Files /\ "tasks" \in Files /\ "agents" \in Files
  BY ConstantsAssumption DEF Note, Files
<1>a. ASSUME NEW tool, NEW f \in Files, NEW rows, NEW note \in Note, NEW post \in Msgs \cup {NoRow},
             Begins(c, tool, f, rows, note, post)
      PROVE  BeginsSome(c)
  <2>1. tool \in Tools
    BY <1>a DEF Begins, Begin
  <2> QED
    BY <1>a, <2>1 DEF BeginsSome
<1>1. ASSUME NEW m \in Msgs, NEW to \in Agents \cup {Everyone}, InboxPost(c, to, m)
      PROVE  BeginsSome(c)
  <2>1. Begins(c, "inbox_post", "inbox", [Read("inbox") EXCEPT ![m] = Unread(to, NoRow)], NoRow, m)
    BY <1>0, <1>1 DEF InboxPost, Begin, Made, PostStep, New, Begins
  <2> QED
    BY <1>0, <1>a, <2>1
<1>2. ASSUME NEW m \in Msgs, InboxAck(c, m)
      PROVE  BeginsSome(c)
  <2>1. Begins(c, "inbox_ack", "inbox", [Read("inbox") EXCEPT ![m].read = TRUE], NoRow, NoRow)
    BY <1>0, <1>2 DEF InboxAck, Inbox, Begun, Begin, Made, AckStep, Begins
  <2> QED
    BY <1>0, <1>a, <2>1
<1>3. ASSUME NEW m \in Msgs, InboxDelete(c, m)
      PROVE  BeginsSome(c)
  <2>1. Begins(c, "inbox_delete", "inbox", [Read("inbox") EXCEPT ![m] = NoRow], NoRow, NoRow)
    BY <1>0, <1>3 DEF InboxDelete, Inbox, Begun, Begin, Made, DropStep, Begins
  <2> QED
    BY <1>0, <1>a, <2>1
<1>4. ASSUME InboxPurge(c)
      PROVE  BeginsSome(c)
  <2>1. Begins(c, "inbox_delete", "inbox", [m \in Msgs |-> Kept(Read("inbox")[m])], NoRow, NoRow)
    BY <1>0, <1>4 DEF InboxPurge, Inbox, Begun, Begin, Made, DropStep, Begins
  <2> QED
    BY <1>0, <1>a, <2>1
<1>5. ASSUME NEW k \in Tasks, NEW tool, NEW rows, Board(c, tool, rows), BoardStep(Read("tasks"), rows)
      PROVE  BeginsSome(c)
  <2>1. Begins(c, tool, "tasks", rows, NoRow, NoRow)
    BY <1>0, <1>5 DEF Board, Begun, Begin, Made, Begins
  <2> QED
    BY <1>0, <1>a, <2>1
<1>6. ASSUME NEW k \in Tasks, NEW a \in Agents \cup {Nobody}, TaskAdd(c, k, a)
      PROVE  BeginsSome(c)
  <2> DEFINE rows == [Read("tasks") EXCEPT ![k] = [status |-> "open", owner |-> Nobody, assigned |-> a]]
  <2>1. Board(c, "task_add", rows) /\ BoardStep(Read("tasks"), rows)
    BY <1>6 DEF TaskAdd, New, BoardStep
  <2> QED
    BY <1>5, <2>1
<1>7. ASSUME NEW k \in Tasks, NEW a \in Agents, TaskClaim(c, k, a)
      PROVE  BeginsSome(c)
  <2> DEFINE rows == [Read("tasks") EXCEPT ![k].status = "claimed", ![k].owner = a]
  <2>1. Board(c, "task_claim", rows) /\ BoardStep(Read("tasks"), rows)
    BY <1>7 DEF TaskClaim, Found, Claimable, BoardStep
  <2> QED
    BY <1>5, <2>1
<1>8. ASSUME NEW k \in Tasks, NEW s \in Statuses, TaskUpdate(c, k, s)
      PROVE  BeginsSome(c)
  <2> DEFINE rows == [Read("tasks") EXCEPT ![k].status = s]
  <2>1. Board(c, "task_update", rows) /\ BoardStep(Read("tasks"), rows)
    BY <1>8 DEF TaskUpdate, Found, BoardStep
  <2> QED
    BY <1>5, <2>1
<1>9. ASSUME NEW k \in Tasks, TaskRelease(c, k) \/ TaskDelete(c, k)
      PROVE  BeginsSome(c)
  <2>1. ASSUME TaskRelease(c, k) PROVE BeginsSome(c)
    <3> DEFINE rows == [Read("tasks") EXCEPT ![k].status = "open", ![k].owner = Nobody]
    <3>1. Board(c, "task_handoff", rows) /\ BoardStep(Read("tasks"), rows)
      BY <2>1 DEF TaskRelease, Found, BoardStep
    <3> QED
      BY <1>5, <3>1
  <2>2. ASSUME TaskDelete(c, k) PROVE BeginsSome(c)
    <3> DEFINE rows == [Read("tasks") EXCEPT ![k] = NoRow]
    <3>1. Board(c, "task_delete", rows) /\ BoardStep(Read("tasks"), rows)
      BY <2>2 DEF TaskDelete, Found, BoardStep
    <3> QED
      BY <1>5, <3>1
  <2> QED
    BY <1>9, <2>1, <2>2
<1>10. ASSUME NEW k \in Tasks, NEW a \in Agents, NEW m \in Msgs, TaskHandoff(c, k, a, m)
       PROVE  BeginsSome(c)
  <2> DEFINE rows == [Read("tasks") EXCEPT ![k] = [status |-> "claimed", owner |-> a, assigned |-> a]]
             note == [id |-> m, msg |-> Unread(a, k)]
  <2>1. note \in [id : Msgs, msg : Message]
    BY DEF Unread, Message
  <2>2. note \in Note /\ note # NoRow
    BY <2>1, ConstantsAssumption DEF Note
  <2>3. Begin(c, "task_handoff", "tasks", rows, note, NoRow) /\ New("inbox", m)
    BY <1>10 DEF TaskHandoff
  <2>4. note.id = m /\ note.msg = Unread(a, k)
    OBVIOUS
  <2>5. HandOffStep(Read("tasks"), rows, note)
    BY <1>10, <2>4 DEF TaskHandoff, Found, HandOffStep
  <2> HIDE DEF note, rows
  <2>6. Made("task_handoff", "tasks", Read("tasks"), rows, note, NoRow)
    BY <2>2, <2>5 DEF Made
  <2>7. Begins(c, "task_handoff", "tasks", rows, note, NoRow)
    BY <2>2, <2>3, <2>4, <2>6 DEF Begins
  <2> QED
    BY <1>0, <1>a, <2>2, <2>7
<1>11. ASSUME AgentTools(c)
       PROVE  BeginsSome(c)
  <2>1. PICK tool, rows : Begun(c, tool, "agents", rows) /\ AgentStep(Read("agents"), rows)
    <3>1. ASSUME NEW a \in Agents, NEW caps \in Caps \cup {NoCaps}, AgentRegister(c, a, caps)
          PROVE  \E tool, rows : Begun(c, tool, "agents", rows) /\ AgentStep(Read("agents"), rows)
      <4> DEFINE rows == [Read("agents") EXCEPT ![a] = Registered(Read("agents")[a], caps)]
      <4>1. Begun(c, "agent_register", "agents", rows) /\ AgentStep(Read("agents"), rows)
        BY <3>1 DEF AgentRegister, AgentStep
      <4> QED
        BY <4>1
    <3>2. ASSUME NEW a \in Agents, AgentRemove(c, a)
          PROVE  \E tool, rows : Begun(c, tool, "agents", rows) /\ AgentStep(Read("agents"), rows)
      <4> DEFINE rows == [Read("agents") EXCEPT ![a] = NoRow]
      <4>1. Begun(c, "agent_remove", "agents", rows) /\ AgentStep(Read("agents"), rows)
        BY <3>2 DEF AgentRemove, AgentStep
      <4> QED
        BY <4>1
    <3> QED
      BY <1>11, <3>1, <3>2 DEF AgentTools
  <2> QED
    <3>1. Begins(c, tool, "agents", rows, NoRow, NoRow)
      BY <1>0, <2>1 DEF Begun, Made, Begins
    <3> QED
      BY <1>0, <1>a, <3>1
<1>12. CASE InboxTools(c)
  BY <1>0, <1>1, <1>2, <1>3, <1>4, <1>12 DEF InboxTools
<1>13. CASE TaskTools(c)
  BY <1>0, <1>6, <1>7, <1>8, <1>9, <1>10, <1>13 DEF TaskTools
<1> QED
  BY <1>0, <1>11, <1>12, <1>13

-----------------------------------------------------------------------------
(* Types, however the calls overlap.                                       *)
LEMMA InitBase == Init => Base
<1> SUFFICES ASSUME Init PROVE Base
  OBVIOUS
<1>1. disk = [f \in Files |-> NoRows(f)] /\ call = [c \in Callers |-> NoRow] /\ answered = {} /\ outage = FALSE
  BY DEF Init, Idle
<1>2. \A f \in Files : disk[f] \in Rows(f)
  BY <1>1, Empty
<1>3. TypeOK
  BY <1>1, <1>2 DEF TypeOK, Idle
<1>4. Filed /\ Informed
  BY <1>1 DEF Filed, Informed, At, Idle
<1> QED
  BY <1>3, <1>4 DEF Base

(* One caller's call becomes another, the rest stays.                      *)
LEMMA CallSet ==
  ASSUME call \in [Callers -> Call \cup {Idle}], NEW c \in Callers, NEW new \in Call \cup {Idle},
         call' = [call EXCEPT ![c] = new]
  PROVE  /\ call' \in [Callers -> Call \cup {Idle}]
         /\ call'[c] = new
         /\ \A d \in Callers : d # c => call'[d] = call[d]
OBVIOUS

LEMMA CallFields ==
  ASSUME NEW x \in Call
  PROVE  /\ x # Idle
         /\ x = [at |-> x.at, tool |-> x.tool, file |-> x.file, rows |-> x.rows, note |-> x.note, post |-> x.post]
         /\ x.at \in {"truncate", "flush", "notify"} /\ x.tool \in Tools /\ x.file \in Files
         /\ x.note \in Note /\ x.post \in Msgs \cup {NoRow}
BY ConstantsAssumption DEF Call, Idle

LEMMA CallMade ==
  ASSUME NEW at \in {"truncate", "flush", "notify"}, NEW tool \in Tools, NEW f \in Files,
         NEW rows \in Rows(f), NEW note \in Note, NEW post \in Msgs \cup {NoRow}
  PROVE  [at |-> at, tool |-> tool, file |-> f, rows |-> rows, note |-> note, post |-> post] \in Call
<1>1. rows \in UNION {Rows(g) : g \in Files}
  OBVIOUS
<1> QED
  BY <1>1 DEF Call

LEMMA InCall == ASSUME TypeOK, NEW c \in Callers, call[c] # Idle
                PROVE  call[c] \in Call /\ call[c].rows \in Rows(call[c].file)
BY DEF TypeOK

LEMMA BeginsIs ==
  ASSUME TypeOK, NEW c \in Callers, NEW tool \in Tools, NEW f \in Files, NEW rows,
         NEW note \in Note, NEW post \in Msgs \cup {NoRow}, Begins(c, tool, f, rows, note, post)
  PROVE  /\ rows \in Rows(f)
         /\ call[c] = Idle /\ call'[c] \in Call
         /\ call'[c].at = "truncate" /\ call'[c].tool = tool /\ call'[c].file = f
         /\ call'[c].rows = rows /\ call'[c].note = note /\ call'[c].post = post
         /\ \A d \in Callers : d # c => call'[d] = call[d]
         /\ call' \in [Callers -> Call \cup {Idle}]
<1> DEFINE new == [at |-> "truncate", tool |-> tool, file |-> f, rows |-> rows, note |-> note, post |-> post]
<1>1. rows \in Rows(f)
  BY ReadRows, MadeRows DEF Begins
<1>2. new \in Call
  BY <1>1, CallMade
<1>3. call[c] = Idle /\ call' = [call EXCEPT ![c] = new]
  BY DEF Begins, Begin
<1>4. new.at = "truncate" /\ new.tool = tool /\ new.file = f /\ new.rows = rows /\ new.note = note /\ new.post = post
  OBVIOUS
<1> HIDE DEF new
<1>5. call'[c] = new /\ call' \in [Callers -> Call \cup {Idle}] /\ \A d \in Callers : d # c => call'[d] = call[d]
  BY <1>2, <1>3, CallSet DEF TypeOK
<1> QED
  BY <1>1, <1>2, <1>3, <1>4, <1>5

LEMMA TruncateIs ==
  ASSUME Base, NEW c \in Callers, Truncate(c)
  PROVE  /\ At(c, "truncate") /\ call'[c] \in Call
         /\ call'[c].at = "flush" /\ call'[c].tool = call[c].tool /\ call'[c].file = call[c].file
         /\ call'[c].rows = call[c].rows /\ call'[c].note = call[c].note /\ call'[c].post = call[c].post
         /\ \A d \in Callers : d # c => call'[d] = call[d]
         /\ call' \in [Callers -> Call \cup {Idle}]
         /\ disk' = [f \in Files |-> IF f = call[c].file THEN Torn ELSE disk[f]]
         /\ answered' = answered /\ outage' = outage
<1> DEFINE old == call[c]
           new == [old EXCEPT !.at = "flush"]
<1>1. old \in Call /\ call[c] # Idle
  BY InCall DEF Base, Truncate, At
<1>2. old = [at |-> old.at, tool |-> old.tool, file |-> old.file, rows |-> old.rows, note |-> old.note, post |-> old.post]
  BY <1>1, CallFields
<1>3. new = [at |-> "flush", tool |-> old.tool, file |-> old.file, rows |-> old.rows, note |-> old.note, post |-> old.post]
  BY <1>2
<1>4. old.tool \in Tools /\ old.file \in Files /\ old.note \in Note /\ old.post \in Msgs \cup {NoRow} /\ old.rows \in Rows(old.file)
  BY <1>1, CallFields, InCall DEF Base
<1>5. new \in Call
  BY <1>3, <1>4, CallMade
<1>6. new.at = "flush" /\ new.tool = old.tool /\ new.file = old.file /\ new.rows = old.rows /\ new.note = old.note /\ new.post = old.post
  BY <1>3
<1>7. call' = [call EXCEPT ![c] = new]
  BY DEF Truncate
<1> HIDE DEF new
<1>8. call'[c] = new /\ call' \in [Callers -> Call \cup {Idle}] /\ \A d \in Callers : d # c => call'[d] = call[d]
  BY <1>5, <1>7, CallSet DEF TypeOK, Base
<1>9. disk' = [f \in Files |-> IF f = call[c].file THEN Torn ELSE disk[f]]
  <2>1. disk' = [disk EXCEPT ![call[c].file] = Torn] /\ disk = [f \in Files |-> disk[f]]
    BY DEF Truncate, Base, Filed
  <2> QED
    BY <2>1
<1>10. At(c, "truncate") /\ answered' = answered /\ outage' = outage
  BY DEF Truncate
<1> QED
  BY <1>5, <1>6, <1>8, <1>9, <1>10

LEMMA FlushIs ==
  ASSUME Base, NEW c \in Callers, Flush(c)
  PROVE  /\ At(c, "flush")
         /\ \/ ~ Notifies(c) /\ call'[c] = Idle
            \/ /\ Notifies(c) /\ call'[c] \in Call
               /\ call'[c].at = "notify" /\ call'[c].tool = call[c].tool /\ call'[c].file = call[c].file
               /\ call'[c].rows = call[c].rows /\ call'[c].note = call[c].note /\ call'[c].post = call[c].post
         /\ \A d \in Callers : d # c => call'[d] = call[d]
         /\ call' \in [Callers -> Call \cup {Idle}]
         /\ \E new \in Written(call[c].file, call[c].rows) :
              disk' = [f \in Files |-> IF f = call[c].file THEN new ELSE disk[f]]
         /\ answered' = answered \cup ({call[c].post} \ {NoRow}) /\ outage' = outage
<1> DEFINE old == call[c]
           new == [old EXCEPT !.at = "notify"]
<1>1. old \in Call /\ call[c] # Idle
  BY InCall DEF Base, Flush, At
<1>2. old = [at |-> old.at, tool |-> old.tool, file |-> old.file, rows |-> old.rows, note |-> old.note, post |-> old.post]
  BY <1>1, CallFields
<1>3. new = [at |-> "notify", tool |-> old.tool, file |-> old.file, rows |-> old.rows, note |-> old.note, post |-> old.post]
  BY <1>2
<1>4. old.tool \in Tools /\ old.file \in Files /\ old.note \in Note /\ old.post \in Msgs \cup {NoRow} /\ old.rows \in Rows(old.file)
  BY <1>1, CallFields, InCall DEF Base
<1>5. new \in Call
  BY <1>3, <1>4, CallMade
<1>6. new.at = "notify" /\ new.tool = old.tool /\ new.file = old.file /\ new.rows = old.rows /\ new.note = old.note /\ new.post = old.post
  BY <1>3
<1>7. call' = [call EXCEPT ![c] = IF Notifies(c) THEN new ELSE Idle]
  BY DEF Flush
<1> HIDE DEF new
<1>8. /\ call'[c] = IF Notifies(c) THEN new ELSE Idle
      /\ call' \in [Callers -> Call \cup {Idle}] /\ \A d \in Callers : d # c => call'[d] = call[d]
  BY <1>5, <1>7, CallSet DEF TypeOK, Base
<1>9. \E w \in Written(call[c].file, call[c].rows) :
         disk' = [f \in Files |-> IF f = call[c].file THEN w ELSE disk[f]]
  <2>1. PICK w \in Written(call[c].file, call[c].rows) : disk' = [disk EXCEPT ![call[c].file] = w]
    BY DEF Flush
  <2>2. disk = [f \in Files |-> disk[f]]
    BY DEF Base, Filed
  <2> QED
    BY <2>1, <2>2
<1>10. At(c, "flush") /\ answered' = answered \cup ({call[c].post} \ {NoRow}) /\ outage' = outage
  BY DEF Flush
<1> QED
  BY <1>5, <1>6, <1>8, <1>9, <1>10

LEMMA NotifyIs ==
  ASSUME Base, NEW c \in Callers, Notify(c)
  PROVE  /\ At(c, "notify") /\ Notifies(c) /\ Free("inbox")
         /\ call[c].note \in [id : Msgs, msg : Message]
         /\ call'[c] \in Call
         /\ call'[c].at = "truncate" /\ call'[c].tool = call[c].tool /\ call'[c].file = "inbox"
         /\ call'[c].rows = [Read("inbox") EXCEPT ![call[c].note.id] = call[c].note.msg]
         /\ call'[c].rows \in Rows("inbox")
         /\ call'[c].note = call[c].note /\ call'[c].post = call[c].post
         /\ \A d \in Callers : d # c => call'[d] = call[d]
         /\ call' \in [Callers -> Call \cup {Idle}]
         /\ disk' = disk /\ answered' = answered /\ outage' = outage
<1> DEFINE old == call[c]
           rows == [Read("inbox") EXCEPT ![old.note.id] = old.note.msg]
           new == [old EXCEPT !.at = "truncate", !.file = "inbox", !.rows = rows]
<1>1. old \in Call /\ call[c] # Idle
  BY InCall DEF Base, Notify, At
<1>2. old = [at |-> old.at, tool |-> old.tool, file |-> old.file, rows |-> old.rows, note |-> old.note, post |-> old.post]
  BY <1>1, CallFields
<1> HIDE DEF rows
<1>3. new = [at |-> "truncate", tool |-> old.tool, file |-> "inbox", rows |-> rows, note |-> old.note, post |-> old.post]
  <2> DEFINE x1 == [old EXCEPT !.at = "truncate"]
             x2 == [x1 EXCEPT !.file = "inbox"]
             x3 == [x2 EXCEPT !.rows = rows]
  <2>1. x1 = [at |-> "truncate", tool |-> old.tool, file |-> old.file, rows |-> old.rows, note |-> old.note, post |-> old.post]
    BY <1>2
  <2>2. x3 = new
    OBVIOUS
  <2> HIDE DEF x1, old
  <2>3. x2 = [at |-> "truncate", tool |-> old.tool, file |-> "inbox", rows |-> old.rows, note |-> old.note, post |-> old.post]
    BY <2>1
  <2> HIDE DEF x2
  <2>4. x3 = [at |-> "truncate", tool |-> old.tool, file |-> "inbox", rows |-> rows, note |-> old.note, post |-> old.post]
    BY <2>3
  <2> HIDE DEF x3, new
  <2> QED
    BY <2>2, <2>4
<1>4. old.tool \in Tools /\ old.note \in Note /\ old.post \in Msgs \cup {NoRow} /\ "inbox" \in Files
  BY <1>1, CallFields DEF Files
<1>a. At(c, "notify") /\ Notifies(c) /\ Free("inbox") /\ call[c].note \in [id : Msgs, msg : Message]
  <2>1. At(c, "notify") /\ Notifies(c) /\ Free("inbox")
    BY DEF Notify, Base, Informed
  <2> QED
    BY <1>4, <2>1 DEF Notifies, Note
<1>b. rows \in Rows("inbox")
  <2>1. Read("inbox") \in [Msgs -> Message \cup {NoRow}]
    BY <1>4, ReadRows, RowsOf DEF Base
  <2>2. old.note.id \in Msgs /\ old.note.msg \in Message
    BY <1>a
  <2> QED
    BY <2>1, <2>2, RowsOf DEF rows
<1>5. new \in Call
  BY <1>3, <1>4, <1>b, CallMade
<1>6. new.at = "truncate" /\ new.tool = old.tool /\ new.file = "inbox" /\ new.rows = rows /\ new.note = old.note /\ new.post = old.post
  BY <1>3
<1>7. call' = [call EXCEPT ![c] = new]
  BY DEF Notify, rows
<1> HIDE DEF new
<1>8. call'[c] = new /\ call' \in [Callers -> Call \cup {Idle}] /\ \A d \in Callers : d # c => call'[d] = call[d]
  BY <1>5, <1>7, CallSet DEF TypeOK, Base
<1>9. disk' = disk /\ answered' = answered /\ outage' = outage
  BY DEF Notify
<1>10. call'[c].rows = [Read("inbox") EXCEPT ![call[c].note.id] = call[c].note.msg]
  BY <1>6, <1>8 DEF rows
<1> QED
  BY <1>5, <1>6, <1>8, <1>9, <1>a, <1>b, <1>10

LEMMA FailIs ==
  ASSUME TypeOK, (\E c \in Callers : Fail(c)) \/ Restart
  PROVE  /\ \A d \in Callers : call'[d] \in {call[d], Idle}
         /\ call' \in [Callers -> Call \cup {Idle}]
         /\ disk' = disk /\ answered' = {} /\ outage' = ~ outage
<1>1. CASE \E c \in Callers : Fail(c)
  BY <1>1 DEF Fail, TypeOK
<1>2. CASE Restart
  BY <1>2 DEF Restart, TypeOK
<1> QED
  BY <1>1, <1>2

LEMMA NextIs ==
  ASSUME TypeOK, Next
  PROVE  \/ \E c \in Callers :
              BeginsSome(c) \/ Truncate(c) \/ Flush(c) \/ Notify(c)
         \/ (\E c \in Callers : Fail(c)) \/ Restart
BY Tool DEF Next

(* What holds of every call holds after a step that changes one.           *)
LEMMA BaseKept ==
  ASSUME Base, NEW c \in Callers, call' \in [Callers -> Call \cup {Idle}],
         \A d \in Callers : d # c => call'[d] = call[d],
         call'[c] # Idle => call'[c].rows \in Rows(call'[c].file),
         call'[c] # Idle /\ call'[c].at = "notify" => Notifies(c)',
         Filed', \A f \in Files : disk'[f] \in Rows(f) \cup {Torn},
         answered' \in SUBSET Msgs, outage' \in BOOLEAN
  PROVE  Base'
<1>1. TypeOK'
  <2>1. \A d \in Callers : call'[d] # Idle => call'[d].rows \in Rows(call'[d].file)
    BY DEF Base, TypeOK
  <2> QED
    BY <2>1 DEF TypeOK
<1>2. Informed'
  <2> SUFFICES ASSUME NEW d \in Callers, At(d, "notify")' PROVE Notifies(d)'
    BY DEF Informed
  <2> QED
    BY DEF At, Base, Informed, Notifies, Idle
<1> QED
  BY <1>1, <1>2 DEF Base

LEMMA BaseStep == Base /\ [Next]_vars => Base'
<1> SUFFICES ASSUME Base, [Next]_vars PROVE Base'
  OBVIOUS
<1>0. TypeOK
  BY DEF Base
<1>1. ASSUME NEW c \in Callers, BeginsSome(c) PROVE Base'
  <2>1. PICK tool \in Tools, f \in Files, note \in Note, post \in Msgs \cup {NoRow} :
          \E rows : Begins(c, tool, f, rows, note, post)
    BY <1>1 DEF BeginsSome
  <2>2. PICK rows : Begins(c, tool, f, rows, note, post)
    BY <2>1
  <2>3. disk' = disk /\ outage' = outage /\ answered' \in SUBSET Msgs
    BY <1>0, <2>2 DEF Begins, Begin, TypeOK
  <2>4. Filed' /\ (\A g \in Files : disk'[g] \in Rows(g) \cup {Torn}) /\ outage' \in BOOLEAN
    BY <2>3 DEF Base, Filed, TypeOK
  <2>5. call'[c].rows \in Rows(call'[c].file) /\ call'[c].at # "notify"
    <3>1. rows \in Rows(f) /\ call'[c].at = "truncate" /\ call'[c].file = f /\ call'[c].rows = rows
      BY <1>0, <2>2, BeginsIs
    <3> QED
      BY <3>1
  <2> QED
    BY <1>0, <2>2, <2>3, <2>4, <2>5, BeginsIs, BaseKept
<1>2. ASSUME NEW c \in Callers, Truncate(c) PROVE Base'
  <2>1. call'[c].rows \in Rows(call'[c].file) /\ call'[c].at # "notify"
    BY <1>0, <1>2, TruncateIs, InCall DEF At
  <2>2. disk' = [f \in Files |-> IF f = call[c].file THEN Torn ELSE disk[f]]
    BY <1>2, TruncateIs
  <2>3. Filed' /\ \A f \in Files : disk'[f] \in Rows(f) \cup {Torn}
    BY <1>0, <2>2 DEF Filed, TypeOK
  <2>4. answered' \in SUBSET Msgs /\ outage' \in BOOLEAN
    BY <1>0, <1>2, TruncateIs DEF TypeOK
  <2> QED
    BY <1>2, <2>1, <2>3, <2>4, TruncateIs, BaseKept
<1>3. ASSUME NEW c \in Callers, Flush(c) PROVE Base'
  <2>0. call[c] # Idle /\ call[c] \in Call /\ call[c].rows \in Rows(call[c].file)
    BY <1>0, <1>3, InCall DEF Flush, At
  <2>1. call'[c] # Idle => call'[c].rows \in Rows(call'[c].file) /\ Notifies(c)'
    BY <1>3, <2>0, FlushIs DEF Notifies
  <2>2. PICK new \in Written(call[c].file, call[c].rows) :
          disk' = [f \in Files |-> IF f = call[c].file THEN new ELSE disk[f]]
    BY <1>3, FlushIs
  <2>3. new \in Rows(call[c].file) \cup {Torn}
    BY <2>0 DEF Written
  <2>4. Filed' /\ \A f \in Files : disk'[f] \in Rows(f) \cup {Torn}
    BY <1>0, <2>2, <2>3 DEF Filed, TypeOK
  <2>5. answered' \in SUBSET Msgs /\ outage' \in BOOLEAN
    BY <1>0, <1>3, <2>0, FlushIs, CallFields DEF TypeOK
  <2> QED
    BY <1>3, <2>1, <2>4, <2>5, FlushIs, BaseKept
<1>4. ASSUME NEW c \in Callers, Notify(c) PROVE Base'
  <2>1. call'[c].rows \in Rows(call'[c].file) /\ call'[c].at # "notify"
    BY <1>4, NotifyIs
  <2>2. Filed' /\ (\A f \in Files : disk'[f] \in Rows(f) \cup {Torn}) /\ answered' \in SUBSET Msgs /\ outage' \in BOOLEAN
    BY <1>0, <1>4, NotifyIs DEF Base, Filed, TypeOK
  <2> QED
    BY <1>4, <2>1, <2>2, NotifyIs, BaseKept
<1>5. ASSUME (\E c \in Callers : Fail(c)) \/ Restart PROVE Base'
  <2>1. /\ \A d \in Callers : call'[d] \in {call[d], Idle}
        /\ call' \in [Callers -> Call \cup {Idle}]
        /\ disk' = disk /\ answered' = {} /\ outage' = ~ outage
    BY <1>0, <1>5, FailIs
  <2>2. TypeOK'
    <3>1. \A d \in Callers : call'[d] # Idle => call'[d].rows \in Rows(call'[d].file)
      BY <1>0, <2>1 DEF TypeOK
    <3> QED
      BY <1>0, <2>1, <3>1 DEF TypeOK
  <2>3. Filed' /\ Informed'
    BY <2>1 DEF Base, Filed, Informed, At, Notifies
  <2> QED
    BY <2>2, <2>3 DEF Base
<1>6. ASSUME UNCHANGED vars PROVE Base'
  <2>1. disk' = disk /\ call' = call /\ answered' = answered /\ outage' = outage
    BY <1>6 DEF vars
  <2>2. TypeOK' /\ Filed' /\ Informed'
    BY <2>1 DEF Base, TypeOK, Filed, Informed, At, Notifies
  <2> QED
    BY <2>2 DEF Base
<1> QED
  BY <1>0, <1>1, <1>2, <1>3, <1>4, <1>5, <1>6, NextIs

(* The three files always hold what the tools can read, or too little to   *)
(* be read, whatever calls overlap.                                        *)
THEOREM Typed == Spec => []TypeOK
<1>1. Base => TypeOK
  BY DEF Base
<1> QED
  BY <1>1, InitBase, BaseStep, PTL DEF Spec

-----------------------------------------------------------------------------
(* One call per file at a time: what was answered for is kept.             *)

(* Who uses a file after a step of c.                                      *)
LEMMA UsesIs ==
  ASSUME NEW c \in Callers, NEW f
  PROVE  Uses(c, f) <=> call[c] # Idle /\ call[c].at \in {"truncate", "flush"} /\ call[c].file = f
BY DEF Uses, At

LEMMA InboxKept ==
  ASSUME NEW tool, NEW old \in Rows("inbox"), NEW new, NEW post \in Msgs \cup {NoRow},
         Made(tool, "inbox", old, new, NoRow, post)
  PROVE  /\ tool # "inbox_delete" => \A m \in Msgs : old[m] # NoRow => new[m] # NoRow
         /\ tool = "inbox_delete" => post = NoRow
         /\ post # NoRow => new[post] # NoRow
<1>0. old \in [Msgs -> Message \cup {NoRow}]
  BY RowsOf
<1>1. NoRow \notin Message
  BY ConstantsAssumption
<1>2. CASE post # NoRow /\ tool = "inbox_post" /\ PostStep(old, new, post)
  <2>1. PICK to \in Agents \cup {Everyone} : new = [old EXCEPT ![post] = Unread(to, NoRow)]
    BY <1>2 DEF PostStep
  <2>2. Unread(to, NoRow) \in Message
    BY DEF Unread, Message
  <2> QED
    BY <1>0, <1>1, <1>2, <2>1, <2>2
<1>3. CASE post = NoRow /\ tool = "inbox_ack" /\ AckStep(old, new)
  <2>1. PICK m \in Msgs : old[m] # NoRow /\ new = [old EXCEPT ![m].read = TRUE]
    BY <1>3 DEF AckStep
  <2>2. [old[m] EXCEPT !.read = TRUE] \in Message
    BY <1>0, <2>1 DEF Message
  <2>3. new = [old EXCEPT ![m] = [old[m] EXCEPT !.read = TRUE]]
    BY <1>0, <2>1
  <2> QED
    BY <1>0, <1>1, <1>3, <2>2, <2>3
<1>4. CASE post = NoRow /\ tool = "inbox_delete"
  BY <1>4
<1> QED
  BY <1>2, <1>3, <1>4 DEF Made

LEMMA KeptBegin ==
  ASSUME KeptInv, ~ Overlap, NEW c \in Callers, BeginsSome(c)
  PROVE  Keeping'
<1>0. TypeOK
  BY DEF KeptInv, Base
<1>1. PICK tool \in Tools, f \in Files, note \in Note, post \in Msgs \cup {NoRow} :
          \E rows : Begins(c, tool, f, rows, note, post)
  BY DEF BeginsSome
<1>2. PICK rows : Begins(c, tool, f, rows, note, post)
  BY <1>1
<1>3. /\ rows \in Rows(f)
      /\ call[c] = Idle /\ call'[c] # Idle
      /\ call'[c].at = "truncate" /\ call'[c].file = f
      /\ call'[c].rows = rows /\ call'[c].post = post
      /\ \A d \in Callers : d # c => call'[d] = call[d]
  BY <1>0, <1>2, BeginsIs, CallFields
<1>4. disk' = disk /\ (\A d \in Callers : ~ Uses(d, f)) /\ Made(tool, f, Read(f), rows, note, post)
  BY <1>2 DEF Begins, Begin, Free
<1>5. answered' = IF tool = "inbox_delete" THEN {m \in answered : rows[m] # NoRow} ELSE answered
  BY <1>2 DEF Begins, Begin
<1>6. \A d \in Callers, g \in Files : Uses(d, g)' <=> Uses(d, g) \/ (d = c /\ g = f)
  BY <1>3 DEF Uses, At
<1>7. \A d \in Callers : At(d, "flush")' => At(d, "flush") /\ d # c
  BY <1>3 DEF At
<1>8. Alone'
  BY <1>4, <1>6 DEF KeptInv, Keeping, Alone
<1>9. Open'
  BY <1>3, <1>4, <1>7 DEF KeptInv, Keeping, Open
<1>10. post # NoRow => f = "inbox"
  BY <1>4 DEF Made
<1>11. Posting'
  BY <1>3, <1>10 DEF KeptInv, Keeping, Posting
<1>12. Answering'
  <2> SUFFICES ASSUME NEW d \in Callers, Uses(d, "inbox")', NEW m \in Answerable(d)'
               PROVE  call'[d].rows[m] # NoRow
    BY DEF Answering
  <2>0. "inbox" \in Files
    BY DEF Files
  <2>1. CASE d # c
    <3>1. Uses(d, "inbox") /\ call'[d] = call[d]
      BY <1>3, <1>6, <2>0, <2>1
    <3>2. m \in Answerable(d)
      BY <1>5, <3>1 DEF Answerable
    <3> QED
      BY <3>1, <3>2 DEF KeptInv, Keeping, Answering
  <2>2. CASE d = c
    <3>1. f = "inbox" /\ ~ Uses(c, "inbox")
      BY <1>4, <1>6, <2>0, <2>2, <1>3 DEF Uses, At
    <3>2. note = NoRow
      BY <1>2, <3>1 DEF Begins
    <3>3. \A e \in Callers : ~ (At(e, "flush") /\ call[e].file = "inbox")
      BY <1>4, <3>1 DEF Uses
    <3>4. \A x \in answered : x \in Msgs /\ Read("inbox")[x] # NoRow
      BY <1>0, <3>3 DEF KeptInv, Keeping, PostedIsKept, TypeOK
    <3>5. Read("inbox") \in Rows("inbox") /\ Made(tool, "inbox", Read("inbox"), rows, NoRow, post)
      BY <1>0, <1>4, <2>0, <3>1, <3>2, ReadRows
    <3>6. m \in answered' \/ (post # NoRow /\ m = post)
      BY <1>3, <2>2 DEF Answerable
    <3>7. CASE tool = "inbox_delete"
      BY <1>3, <1>5, <2>2, <3>5, <3>6, <3>7, InboxKept
    <3>8. CASE tool # "inbox_delete"
      <4>1. \A x \in Msgs : Read("inbox")[x] # NoRow => rows[x] # NoRow
        BY <3>5, <3>8, InboxKept
      <4>2. post # NoRow => rows[post] # NoRow
        BY <3>5, InboxKept
      <4> QED
        BY <1>3, <1>5, <2>2, <3>4, <3>6, <3>8, <4>1, <4>2
    <3> QED
      BY <3>7, <3>8
  <2> QED
    BY <2>1, <2>2
<1>13. PostedIsKept'
  <2>1. answered' \subseteq answered
    BY <1>5
  <2>2. Read("inbox")' = Read("inbox")
    BY <1>4 DEF Read
  <2>3. \A d \in Callers : At(d, "flush") => At(d, "flush")' /\ call'[d] = call[d]
    BY <1>3 DEF At
  <2> QED
    BY <2>1, <2>2, <2>3 DEF KeptInv, Keeping, PostedIsKept
<1> QED
  BY <1>8, <1>9, <1>11, <1>12, <1>13 DEF Keeping

LEMMA KeptTruncate ==
  ASSUME KeptInv, NEW c \in Callers, Truncate(c)
  PROVE  Keeping'
<1>1. /\ At(c, "truncate") /\ call'[c] # Idle
      /\ call'[c].at = "flush" /\ call'[c].file = call[c].file
      /\ call'[c].rows = call[c].rows /\ call'[c].post = call[c].post
      /\ \A d \in Callers : d # c => call'[d] = call[d]
      /\ answered' = answered
  BY TruncateIs, CallFields DEF KeptInv
<1>2. disk' = [f \in Files |-> IF f = call[c].file THEN Torn ELSE disk[f]]
  BY TruncateIs DEF KeptInv
<1>3. \A d \in Callers : /\ call'[d] # Idle <=> call[d] # Idle
                        /\ call'[d].file = call[d].file /\ call'[d].rows = call[d].rows
                        /\ call'[d].post = call[d].post
  BY <1>1 DEF At
<1>4. \A d \in Callers : \A g : Uses(d, g)' <=> Uses(d, g)
  BY <1>1 DEF Uses, At
<1>5. \A d \in Callers : At(d, "flush")' <=> At(d, "flush") \/ d = c
  BY <1>1 DEF At
<1>6. \A d \in Callers : call[d] # Idle => call[d].file \in Files
  BY InCall, CallFields DEF KeptInv, Base
<1>7. Alone'
  BY <1>4 DEF KeptInv, Keeping, Alone
<1>8. Open'
  <2> SUFFICES ASSUME NEW d \in Callers, At(d, "flush")' PROVE disk'[call'[d].file] = Torn
    BY DEF Open
  <2>1. call[d].file \in Files
    BY <1>1, <1>5, <1>6 DEF At
  <2> QED
    BY <1>1, <1>2, <1>3, <1>5, <2>1 DEF KeptInv, Keeping, Open
<1>9. Answering'
  BY <1>1, <1>3, <1>4 DEF KeptInv, Keeping, Answering, Answerable
<1>10. Posting'
  BY <1>3 DEF KeptInv, Keeping, Posting
<1>11. PostedIsKept'
  <2> SUFFICES ASSUME \A d \in Callers : ~ (At(d, "flush")' /\ call'[d].file = "inbox")
               PROVE  \A m \in answered' : Read("inbox")'[m] # NoRow
    BY DEF PostedIsKept
  <2>1. call[c].file # "inbox" /\ "inbox" \in Files
    BY <1>3, <1>5 DEF Files
  <2>2. disk'["inbox"] = disk["inbox"]
    BY <1>2, <2>1
  <2>3. Read("inbox")' = Read("inbox")
    BY <2>2 DEF Read
  <2>4. \A d \in Callers : ~ (At(d, "flush") /\ call[d].file = "inbox")
    BY <1>3, <1>5
  <2> QED
    BY <1>1, <2>3, <2>4 DEF KeptInv, Keeping, PostedIsKept
<1> QED
  BY <1>7, <1>8, <1>9, <1>10, <1>11 DEF Keeping

(* Nothing else was written into the file since it was truncated.          *)
LEMMA FlushWrites ==
  ASSUME KeptInv, NEW c \in Callers, Flush(c)
  PROVE  /\ call[c].file \in Files
         /\ disk' = [f \in Files |-> IF f = call[c].file THEN call[c].rows ELSE disk[f]]
<1>1. call[c].file \in Files
  BY InCall, CallFields DEF KeptInv, Base, Flush, At
<1>2. Written(call[c].file, call[c].rows) = {call[c].rows}
  BY DEF KeptInv, Keeping, Open, Flush, Written
<1> QED
  BY <1>1, <1>2, FlushIs DEF KeptInv

LEMMA KeptFlush ==
  ASSUME KeptInv, NEW c \in Callers, Flush(c)
  PROVE  Keeping'
<1>1. /\ At(c, "flush")
      /\ \/ call'[c] = Idle
         \/ /\ call'[c] # Idle /\ call'[c].at = "notify" /\ call'[c].file = call[c].file
            /\ call'[c].post = call[c].post
      /\ \A d \in Callers : d # c => call'[d] = call[d]
      /\ answered' = answered \cup ({call[c].post} \ {NoRow})
  BY FlushIs, CallFields DEF KeptInv
<1>2. /\ call[c].file \in Files
      /\ disk' = [f \in Files |-> IF f = call[c].file THEN call[c].rows ELSE disk[f]]
  BY FlushWrites
<1>3. \A d \in Callers : \A g : Uses(d, g)' <=> Uses(d, g) /\ d # c
  BY <1>1 DEF Uses, At
<1>4. \A d \in Callers : At(d, "flush")' <=> At(d, "flush") /\ d # c
  BY <1>1 DEF At
<1>5. Uses(c, call[c].file) /\ call[c] # Idle
  BY <1>1 DEF Uses, At
<1>6. Alone'
  BY <1>3 DEF KeptInv, Keeping, Alone
<1>7. Open'
  <2> SUFFICES ASSUME NEW d \in Callers, At(d, "flush")' PROVE disk'[call'[d].file] = Torn
    BY DEF Open
  <2>1. d # c /\ At(d, "flush") /\ call'[d] = call[d]
    BY <1>1, <1>4
  <2>2. call[d].file \in Files /\ Uses(d, call[d].file)
    BY <2>1, InCall, CallFields DEF KeptInv, Base, At, Uses
  <2>3. call[d].file # call[c].file
    BY <1>2, <1>5, <2>1, <2>2 DEF KeptInv, Keeping, Alone
  <2> QED
    BY <1>2, <2>1, <2>2, <2>3 DEF KeptInv, Keeping, Open
<1>8. Posting'
  BY <1>1, <1>5 DEF KeptInv, Keeping, Posting
<1>9. call[c].post # NoRow => call[c].file = "inbox"
  BY <1>5 DEF KeptInv, Keeping, Posting
<1>10. Answering'
  <2> SUFFICES ASSUME NEW d \in Callers, Uses(d, "inbox")', NEW m \in Answerable(d)'
               PROVE  call'[d].rows[m] # NoRow
    BY DEF Answering
  <2>1. d # c /\ Uses(d, "inbox") /\ call'[d] = call[d]
    BY <1>1, <1>3
  <2>2. call[c].file # "inbox"
    BY <1>2, <1>5, <2>1 DEF KeptInv, Keeping, Alone, Files
  <2>3. m \in Answerable(d)
    BY <1>1, <1>9, <2>1, <2>2 DEF Answerable
  <2> QED
    BY <2>1, <2>3 DEF KeptInv, Keeping, Answering
<1>11. PostedIsKept'
  <2> SUFFICES ASSUME \A d \in Callers : ~ (At(d, "flush")' /\ call'[d].file = "inbox"),
                      NEW m \in answered'
               PROVE  Read("inbox")'[m] # NoRow
    BY DEF PostedIsKept
  <2>0. "inbox" \in Files
    BY DEF Files
  <2>1. CASE call[c].file = "inbox"
    <3>1. call[c].rows[m] # NoRow
      BY <1>1, <1>5, <2>1 DEF KeptInv, Keeping, Answering, Answerable
    <3>2. call[c].rows # Torn
      BY <1>2, <1>5, ConstantsAssumption, InCall DEF KeptInv, Base
    <3>3. disk'["inbox"] = call[c].rows
      BY <1>2, <2>0, <2>1
    <3> QED
      BY <3>1, <3>2, <3>3 DEF Read
  <2>2. CASE call[c].file # "inbox"
    <3>1. disk'["inbox"] = disk["inbox"]
      BY <1>2, <2>0, <2>2
    <3>2. m \in answered
      BY <1>1, <1>9, <2>2
    <3>3. \A d \in Callers : ~ (At(d, "flush") /\ call[d].file = "inbox")
      BY <1>1, <1>4, <2>2
    <3>4. Read("inbox")' = Read("inbox")
      BY <3>1 DEF Read
    <3> QED
      BY <3>2, <3>3, <3>4 DEF KeptInv, Keeping, PostedIsKept
  <2> QED
    BY <2>1, <2>2
<1> QED
  BY <1>6, <1>7, <1>8, <1>10, <1>11 DEF Keeping

LEMMA KeptNotify ==
  ASSUME KeptInv, ~ Overlap, NEW c \in Callers, Notify(c)
  PROVE  Keeping'
<1>1. /\ At(c, "notify") /\ Notifies(c) /\ \A d \in Callers : ~ Uses(d, "inbox")
      /\ call[c].note \in [id : Msgs, msg : Message]
      /\ call'[c] # Idle /\ call'[c].at = "truncate" /\ call'[c].file = "inbox"
      /\ call'[c].rows = [Read("inbox") EXCEPT ![call[c].note.id] = call[c].note.msg]
      /\ call'[c].post = call[c].post
      /\ \A d \in Callers : d # c => call'[d] = call[d]
      /\ disk' = disk /\ answered' = answered
  BY NotifyIs, CallFields DEF KeptInv, Free
<1>2. \A d \in Callers : \A g : Uses(d, g)' <=> Uses(d, g) \/ (d = c /\ g = "inbox")
  BY <1>1 DEF Uses, At
<1>3. \A d \in Callers : At(d, "flush")' <=> At(d, "flush") /\ d # c
  BY <1>1 DEF At
<1>4. Alone'
  BY <1>1, <1>2 DEF KeptInv, Keeping, Alone
<1>5. Open'
  BY <1>1, <1>3 DEF KeptInv, Keeping, Open
<1>6. Posting' /\ call[c].post = NoRow
  BY <1>1 DEF KeptInv, Keeping, Posting, Notifies, At
<1>7. Read("inbox")' = Read("inbox")
  BY <1>1 DEF Read
<1>8. \A m \in answered : m \in Msgs /\ Read("inbox")[m] # NoRow
  <2>1. \A d \in Callers : ~ (At(d, "flush") /\ call[d].file = "inbox")
    BY <1>1 DEF Uses
  <2> QED
    BY <2>1 DEF KeptInv, Keeping, PostedIsKept, Base, TypeOK
<1>9. Answering'
  <2> SUFFICES ASSUME NEW d \in Callers, Uses(d, "inbox")', NEW m \in Answerable(d)'
               PROVE  call'[d].rows[m] # NoRow
    BY DEF Answering
  <2>1. d = c /\ m \in answered
    BY <1>1, <1>2, <1>6 DEF Answerable
  <2>2. Read("inbox") \in [Msgs -> Message \cup {NoRow}]
    BY ReadRows, RowsOf DEF KeptInv, Base, Files
  <2>3. NoRow \notin Message
    BY ConstantsAssumption
  <2> QED
    BY <1>1, <1>8, <2>1, <2>2, <2>3
<1>10. PostedIsKept'
  BY <1>1, <1>7, <1>8 DEF PostedIsKept
<1> QED
  BY <1>4, <1>5, <1>6, <1>9, <1>10 DEF Keeping

LEMMA KeptFail ==
  ASSUME KeptInv, (\E c \in Callers : Fail(c)) \/ Restart
  PROVE  Keeping'
<1>1. /\ \A d \in Callers : call'[d] \in {call[d], Idle}
      /\ disk' = disk /\ answered' = {}
  BY FailIs DEF KeptInv, Base
<1>2. \A d \in Callers : \A g : Uses(d, g)' => Uses(d, g) /\ call'[d] = call[d]
  BY <1>1 DEF Uses, At
<1>3. \A d \in Callers : At(d, "flush")' => At(d, "flush") /\ call'[d] = call[d]
  BY <1>1 DEF At
<1>4. Alone' /\ Open' /\ Posting'
  BY <1>1, <1>2, <1>3 DEF KeptInv, Keeping, Alone, Open, Posting
<1>5. Answering'
  BY <1>1, <1>2 DEF KeptInv, Keeping, Answering, Answerable
<1>6. PostedIsKept'
  BY <1>1 DEF PostedIsKept
<1> QED
  BY <1>4, <1>5, <1>6 DEF Keeping

LEMMA KeptStutter == ASSUME KeptInv, UNCHANGED vars PROVE Keeping'
<1>1. disk' = disk /\ call' = call /\ answered' = answered
  BY DEF vars
<1> QED
  BY <1>1 DEF KeptInv, Keeping, Alone, Open, Answering, Answerable, Posting, PostedIsKept, Uses, At, Read

LEMMA KeptStep == ~ Overlap /\ KeptInv /\ [Next]_vars => KeptInv'
<1> SUFFICES ASSUME ~ Overlap, KeptInv, [Next]_vars PROVE KeptInv'
  OBVIOUS
<1>1. TypeOK /\ Base'
  BY BaseStep DEF KeptInv, Base
<1>2. CASE Next
  BY <1>1, <1>2, NextIs, KeptBegin, KeptTruncate, KeptFlush, KeptNotify, KeptFail DEF KeptInv
<1>3. CASE UNCHANGED vars
  BY <1>1, <1>3, KeptStutter DEF KeptInv
<1> QED
  BY <1>2, <1>3

LEMMA KeptInit == Init => KeptInv
<1> SUFFICES ASSUME Init PROVE KeptInv
  OBVIOUS
<1>1. \A c \in Callers : call[c] = Idle
  BY DEF Init
<1>2. answered = {}
  BY DEF Init
<1>3. Keeping
  BY <1>1, <1>2 DEF Keeping, Alone, Open, Answering, Posting, PostedIsKept, Uses, At
<1> QED
  BY <1>3, InitBase DEF KeptInv

(* Used one call per file at a time, the inbox keeps what its senders were *)
(* told is posted.                                                         *)
THEOREM PostedKept == ~ Overlap => (Spec => []PostedIsKept)
<1> SUFFICES ASSUME ~ Overlap PROVE Spec => []PostedIsKept
  OBVIOUS
<1>1. KeptInv /\ [Next]_vars => KeptInv'
  BY KeptStep
<1>2. KeptInv => PostedIsKept
  BY DEF KeptInv, Keeping
<1> QED
  BY <1>1, <1>2, KeptInit, PTL DEF Spec

-----------------------------------------------------------------------------
(* What a file holds for the tools, as a function of the calls and the     *)
(* disk: Content and its value after a step are two cases of it.           *)
Flushing(calls, d, f) == calls[d] # Idle /\ calls[d].at = "flush" /\ calls[d].file = f
ContentOf(calls, files, f) ==
  IF \E c \in Callers : Flushing(calls, c, f)
  THEN calls[CHOOSE c \in Callers : Flushing(calls, c, f)].rows
  ELSE IF files[f] = Torn THEN NoRows(f) ELSE files[f]

LEMMA ContentIsOf ==
  ASSUME NEW f
  PROVE  Content(f) = ContentOf(call, disk, f) /\ Content(f)' = ContentOf(call', disk', f)
BY DEF Content, ContentOf, Flushing, At, Read

LEMMA ContentFlushing ==
  ASSUME NEW calls, NEW files, NEW f, NEW c \in Callers, Flushing(calls, c, f),
         \A d \in Callers : Flushing(calls, d, f) => d = c
  PROVE  ContentOf(calls, files, f) = calls[c].rows
<1>1. (CHOOSE d \in Callers : Flushing(calls, d, f)) = c
  OBVIOUS
<1> QED
  BY <1>1 DEF ContentOf

LEMMA ContentResting ==
  ASSUME NEW calls, NEW files, NEW f, \A d \in Callers : ~ Flushing(calls, d, f)
  PROVE  ContentOf(calls, files, f) = IF files[f] = Torn THEN NoRows(f) ELSE files[f]
BY DEF ContentOf

LEMMA OneFlushing ==
  ASSUME KeptInv, NEW f \in Files, NEW c \in Callers, NEW d \in Callers,
         Flushing(call, c, f), Flushing(call, d, f)
  PROVE  c = d
BY DEF KeptInv, Keeping, Alone, Uses, At, Flushing

(* A file no call is writing holds what it reads as.                       *)
LEMMA ContentRead ==
  ASSUME NEW f, \A d \in Callers : ~ Flushing(call, d, f)
  PROVE  Content(f) = Read(f)
BY ContentIsOf, ContentResting DEF Read

LEMMA ContentRows ==
  ASSUME KeptInv, NEW f \in Files
  PROVE  Content(f) \in Rows(f)
<1>1. CASE \E c \in Callers : Flushing(call, c, f)
  <2>1. PICK c \in Callers : Flushing(call, c, f)
    BY <1>1
  <2>2. Content(f) = call[c].rows
    BY <2>1, OneFlushing, ContentIsOf, ContentFlushing
  <2> QED
    BY <2>1, <2>2, InCall DEF Flushing, KeptInv, Base
<1>2. CASE \A c \in Callers : ~ Flushing(call, c, f)
  BY <1>2, ContentRead, ReadRows DEF KeptInv, Base
<1> QED
  BY <1>1, <1>2

(* The same writers of the same rows over the same disk: the same content. *)
LEMMA ContentSame ==
  ASSUME KeptInv, NEW f \in Files, disk'[f] = disk[f],
         \A d \in Callers : Flushing(call', d, f) <=> Flushing(call, d, f),
         \A d \in Callers : Flushing(call, d, f) => call'[d].rows = call[d].rows
  PROVE  Content(f)' = Content(f)
<1>1. CASE \E c \in Callers : Flushing(call, c, f)
  <2>1. PICK c \in Callers : Flushing(call, c, f)
    BY <1>1
  <2>2. \A d \in Callers : Flushing(call, d, f) => d = c
    BY <2>1, OneFlushing
  <2>3. ContentOf(call, disk, f) = call[c].rows
    BY <2>1, <2>2, ContentFlushing
  <2>4. ContentOf(call', disk', f) = call'[c].rows
    BY <2>1, <2>2, ContentFlushing
  <2> QED
    BY <2>1, <2>3, <2>4, ContentIsOf
<1>2. CASE \A c \in Callers : ~ Flushing(call, c, f)
  <2>1. ContentOf(call, disk, f) = IF disk[f] = Torn THEN NoRows(f) ELSE disk[f]
    BY <1>2, ContentResting
  <2>2. ContentOf(call', disk', f) = IF disk'[f] = Torn THEN NoRows(f) ELSE disk'[f]
    BY <1>2, ContentResting
  <2> QED
    BY <2>1, <2>2, ContentIsOf
<1> QED
  BY <1>1, <1>2

(* Beginning, on a file or on the inbox after the board, changes nothing.  *)
LEMMA ContentBegun ==
  ASSUME KeptInv, NEW c \in Callers, disk' = disk,
         call[c] = Idle \/ call[c].at # "flush", call'[c].at = "truncate",
         \A d \in Callers : d # c => call'[d] = call[d]
  PROVE  \A f \in Files : Content(f)' = Content(f)
<1> SUFFICES ASSUME NEW f \in Files PROVE Content(f)' = Content(f)
  OBVIOUS
<1>1. \A d \in Callers : Flushing(call', d, f) <=> Flushing(call, d, f)
  BY DEF Flushing
<1>2. \A d \in Callers : Flushing(call, d, f) => call'[d].rows = call[d].rows
  BY DEF Flushing
<1> QED
  BY <1>1, <1>2, ContentSame

(* The tool takes effect.                                                  *)
LEMMA ContentTruncate ==
  ASSUME KeptInv, NEW c \in Callers, Truncate(c)
  PROVE  /\ call[c].file \in Files
         /\ Content(call[c].file) = Read(call[c].file)
         /\ \A f \in Files : Content(f)' = IF f = call[c].file THEN call[c].rows ELSE Content(f)
<1>1. /\ At(c, "truncate") /\ call'[c] # Idle
      /\ call'[c].at = "flush" /\ call'[c].file = call[c].file /\ call'[c].rows = call[c].rows
      /\ \A d \in Callers : d # c => call'[d] = call[d]
      /\ disk' = [f \in Files |-> IF f = call[c].file THEN Torn ELSE disk[f]]
  BY TruncateIs, CallFields DEF KeptInv
<1>2. call[c].file \in Files /\ Uses(c, call[c].file)
  BY <1>1, InCall, CallFields DEF KeptInv, Base, At, Uses
<1>3. \A d \in Callers : ~ Flushing(call, d, call[c].file)
  <2>1. \A d \in Callers : Flushing(call, d, call[c].file) => Uses(d, call[c].file)
    BY DEF Flushing, Uses, At
  <2>2. ~ Flushing(call, c, call[c].file)
    BY <1>1 DEF Flushing, At
  <2> QED
    BY <1>2, <2>1, <2>2 DEF KeptInv, Keeping, Alone
<1>4. Content(call[c].file) = Read(call[c].file)
  BY <1>3, ContentRead
<1>5. ASSUME NEW f \in Files, f = call[c].file PROVE Content(f)' = call[c].rows
  <2>1. Flushing(call', c, f)
    BY <1>1, <1>5 DEF Flushing
  <2>2. \A d \in Callers : Flushing(call', d, f) => d = c
    BY <1>1, <1>3, <1>5 DEF Flushing
  <2>3. ContentOf(call', disk', f) = call'[c].rows
    BY <2>1, <2>2, ContentFlushing
  <2> QED
    BY <1>1, <2>3, ContentIsOf
<1>6. ASSUME NEW f \in Files, f # call[c].file PROVE Content(f)' = Content(f)
  <2>1. disk'[f] = disk[f]
    BY <1>1, <1>6
  <2>2. \A d \in Callers : Flushing(call', d, f) <=> Flushing(call, d, f)
    BY <1>1, <1>6 DEF Flushing, At
  <2>3. \A d \in Callers : Flushing(call, d, f) => call'[d].rows = call[d].rows
    BY <1>1 DEF Flushing
  <2> QED
    BY <2>1, <2>2, <2>3, ContentSame
<1> QED
  BY <1>2, <1>4, <1>5, <1>6

(* Writing the file out changes nothing: its content was the writer's.     *)
LEMMA ContentFlush ==
  ASSUME KeptInv, NEW c \in Callers, Flush(c)
  PROVE  \A f \in Files : Content(f)' = Content(f)
<1> SUFFICES ASSUME NEW f \in Files PROVE Content(f)' = Content(f)
  OBVIOUS
<1>1. /\ At(c, "flush") /\ (call'[c] = Idle \/ call'[c].at = "notify")
      /\ \A d \in Callers : d # c => call'[d] = call[d]
  BY FlushIs DEF KeptInv
<1>2. /\ call[c].file \in Files
      /\ disk' = [g \in Files |-> IF g = call[c].file THEN call[c].rows ELSE disk[g]]
  BY FlushWrites
<1>3. CASE f = call[c].file
  <2>1. Flushing(call, c, f) /\ \A d \in Callers : Flushing(call, d, f) => d = c
    BY <1>1, <1>3, OneFlushing DEF Flushing, At
  <2>2. Content(f) = call[c].rows
    BY <2>1, ContentIsOf, ContentFlushing
  <2>3. \A d \in Callers : ~ Flushing(call', d, f)
    BY <1>1, <2>1 DEF Flushing
  <2>4. disk'[f] = call[c].rows /\ call[c].rows # Torn
    BY <1>2, <1>3, <2>1, InCall, ConstantsAssumption DEF Flushing, KeptInv, Base
  <2>5. Content(f)' = IF disk'[f] = Torn THEN NoRows(f) ELSE disk'[f]
    BY <2>3, ContentIsOf, ContentResting
  <2> QED
    BY <2>2, <2>4, <2>5
<1>4. CASE f # call[c].file
  <2>1. disk'[f] = disk[f]
    BY <1>2, <1>4
  <2>2. \A d \in Callers : Flushing(call', d, f) <=> Flushing(call, d, f)
    BY <1>1, <1>4 DEF Flushing
  <2>3. \A d \in Callers : Flushing(call, d, f) => call'[d].rows = call[d].rows
    BY <1>1, <1>4 DEF Flushing
  <2> QED
    BY <2>1, <2>2, <2>3, ContentSame
<1> QED
  BY <1>3, <1>4

(* An interruption empties a file that was being written, and no other.    *)
LEMMA ContentFail ==
  ASSUME KeptInv, (\E c \in Callers : Fail(c)) \/ Restart
  PROVE  \A f \in Files : Content(f)' \in {Content(f), NoRows(f)}
<1> SUFFICES ASSUME NEW f \in Files PROVE Content(f)' \in {Content(f), NoRows(f)}
  OBVIOUS
<1>1. (\A d \in Callers : call'[d] \in {call[d], Idle}) /\ disk' = disk
  BY FailIs DEF KeptInv, Base
<1>2. CASE \A d \in Callers : Flushing(call', d, f) <=> Flushing(call, d, f)
  <2>1. \A d \in Callers : Flushing(call, d, f) => call'[d].rows = call[d].rows
    BY <1>1, <1>2 DEF Flushing
  <2> QED
    BY <1>1, <1>2, <2>1, ContentSame
<1>3. CASE \E c \in Callers : Flushing(call, c, f) /\ ~ Flushing(call', c, f)
  <2>1. PICK c \in Callers : Flushing(call, c, f) /\ ~ Flushing(call', c, f)
    BY <1>3
  <2>2. \A d \in Callers : ~ Flushing(call', d, f)
    <3>1. \A d \in Callers : Flushing(call', d, f) => Flushing(call, d, f)
      BY <1>1 DEF Flushing
    <3> QED
      BY <2>1, <3>1, OneFlushing
  <2>3. disk'[f] = Torn
    BY <1>1, <2>1 DEF KeptInv, Keeping, Open, Flushing, At
  <2>4. Content(f)' = IF disk'[f] = Torn THEN NoRows(f) ELSE disk'[f]
    BY <2>2, ContentIsOf, ContentResting
  <2> QED
    BY <2>3, <2>4
<1>4. \A d \in Callers : Flushing(call', d, f) => Flushing(call, d, f)
  BY <1>1 DEF Flushing
<1> QED
  BY <1>2, <1>3, <1>4

(* Each of the steps, as a step of the contents.                           *)
LEMMA ContentStutter == ASSUME UNCHANGED vars PROVE \A f \in Files : Content(f)' = Content(f)
<1>1. call' = call /\ disk' = disk
  BY DEF vars
<1>2. \A f \in Files : Content(f)' = ContentOf(call', disk', f) /\ Content(f) = ContentOf(call, disk, f)
  BY ContentIsOf
<1> QED
  BY <1>1, <1>2

-----------------------------------------------------------------------------
(* What is in hand was made of what is there, and a notice is its own.     *)
Boarding == InHand /\ Handing /\ Carried

LEMMA InboxAbsent ==
  ASSUME NEW tool, NEW old \in Rows("inbox"), NEW new, NEW post \in Msgs \cup {NoRow},
         Made(tool, "inbox", old, new, NoRow, post),
         NEW m \in Msgs, m # post, old[m] = NoRow
  PROVE  new[m] = NoRow
<1>0. old \in [Msgs -> Message \cup {NoRow}]
  BY RowsOf
<1>1. CASE PostStep(old, new, post) /\ post # NoRow
  BY <1>0, <1>1 DEF PostStep
<1>2. CASE AckStep(old, new)
  BY <1>0, <1>2 DEF AckStep
<1>3. CASE DropStep(old, new)
  BY <1>0, <1>3 DEF DropStep, Kept
<1> QED
  BY <1>1, <1>2, <1>3 DEF Made

LEMMA NoteId ==
  ASSUME TypeOK, NEW c \in Callers, call[c] # Idle, call[c].note # NoRow
  PROVE  call[c].note \in [id : Msgs, msg : Message] /\ call[c].note.id \in Msgs
BY InCall, CallFields DEF Note

(* Two ways to say that nothing mentions an identifier.                    *)
LEMMA NewAbsent ==
  ASSUME KeptInv, NEW m \in Msgs, New("inbox", m), NEW c
  PROVE  Absent(m, c)
<1>1. /\ Read("inbox")[m] = NoRow
      /\ \A d \in Callers : call[d] # Idle /\ call[d].file = "inbox" => call[d].rows[m] = NoRow
      /\ \A d \in Callers : call[d] # Idle /\ call[d].note # NoRow => call[d].note.id # m
  BY DEF New, Mentions
<1>2. Content("inbox")[m] = NoRow
  <2>1. CASE \E d \in Callers : Flushing(call, d, "inbox")
    <3>1. PICK d \in Callers : Flushing(call, d, "inbox")
      BY <2>1
    <3>2. Content("inbox") = call[d].rows
      BY <3>1, OneFlushing, ContentIsOf, ContentFlushing DEF Files
    <3> QED
      BY <1>1, <3>1, <3>2 DEF Flushing
  <2>2. CASE \A d \in Callers : ~ Flushing(call, d, "inbox")
    BY <1>1, <2>2, ContentRead
  <2> QED
    BY <2>1, <2>2
<1> QED
  BY <1>1, <1>2 DEF Absent, Uses, At, Carrying

LEMMA BoardBegin ==
  ASSUME BoardInv, ~ Overlap, NEW c \in Callers, BeginsSome(c)
  PROVE  Boarding'
<1>0. TypeOK /\ KeptInv
  BY DEF BoardInv, KeptInv, Base
<1>1. PICK tool \in Tools, f \in Files, note \in Note, post \in Msgs \cup {NoRow} :
          \E rows : Begins(c, tool, f, rows, note, post)
  BY DEF BeginsSome
<1>2. PICK rows : Begins(c, tool, f, rows, note, post)
  BY <1>1
<1>3. /\ rows \in Rows(f)
      /\ call[c] = Idle /\ call'[c] # Idle
      /\ call'[c].at = "truncate" /\ call'[c].tool = tool /\ call'[c].file = f
      /\ call'[c].rows = rows /\ call'[c].note = note /\ call'[c].post = post
      /\ \A d \in Callers : d # c => call'[d] = call[d]
  BY <1>0, <1>2, BeginsIs, CallFields
<1>4. disk' = disk /\ (\A d \in Callers : ~ Uses(d, f)) /\ Made(tool, f, Read(f), rows, note, post)
  BY <1>2 DEF Begins, Begin, Free
<1>5. /\ note # NoRow => f = "tasks" /\ New("inbox", note.id)
      /\ post # NoRow => New("inbox", post)
  BY <1>2 DEF Begins
<1>6. InHand'
  <2> SUFFICES ASSUME NEW d \in Callers, At(d, "truncate")'
               PROVE  Made(call'[d].tool, call'[d].file,
                           IF disk'[call'[d].file] = Torn THEN NoRows(call'[d].file) ELSE disk'[call'[d].file],
                           call'[d].rows, call'[d].note, call'[d].post)
    BY DEF InHand, Read
  <2>1. CASE d = c
    BY <1>3, <1>4, <2>1 DEF Read
  <2>2. CASE d # c
    BY <1>3, <1>4, <2>2 DEF BoardInv, InHand, Read, At
  <2> QED
    BY <2>1, <2>2
<1>7. Handing'
  <2>1. note # NoRow => tool = "task_handoff" /\ f \in {"tasks", "inbox"}
    BY <1>4 DEF Made
  <2> QED
    BY <1>3, <2>1 DEF BoardInv, Handing
<1>8. \A d \in Callers : d # c => (Uses(d, "inbox")' <=> Uses(d, "inbox")) /\ (Carrying(d)' <=> Carrying(d))
  BY <1>3 DEF Uses, At, Carrying
<1>9. Content("inbox")' = Content("inbox")
  BY <1>0, <1>3, <1>4, ContentBegun DEF Files
<1>10. Carried'
  <2> SUFFICES ASSUME NEW d \in Callers, Carrying(d)'
               PROVE  /\ Content("inbox")'[call'[d].note.id] = NoRow
                      /\ \A e \in Callers : e # d /\ Uses(e, "inbox")' => call'[e].rows[call'[d].note.id] = NoRow
                      /\ \A e \in Callers : e # d /\ Carrying(e)' => call'[e].note.id # call'[d].note.id
    BY DEF Carried, Absent
  <2>1. CASE d = c
    <3>1. note # NoRow
      BY <1>3, <2>1 DEF Carrying
    <3>2. note.id \in Msgs
      BY <3>1 DEF Note
    <3>3. Absent(note.id, c)
      BY <1>0, <1>5, <3>1, <3>2, NewAbsent
    <3>4. call'[d].note.id = note.id
      BY <1>3, <2>1
    <3> QED
      BY <1>3, <1>8, <1>9, <2>1, <3>3, <3>4 DEF Absent
  <2>2. CASE d # c
    <3> DEFINE m == call[d].note.id
    <3>1. Carrying(d) /\ call'[d] = call[d]
      BY <1>3, <1>8, <2>2
    <3>2. m \in Msgs /\ Absent(m, d)
      BY <1>0, <3>1, NoteId DEF BoardInv, Carried, Carrying
    <3>3. \A e \in Callers : e # d /\ Uses(e, "inbox")' => call'[e].rows[m] = NoRow
      <4>1. ASSUME Uses(c, "inbox")' PROVE rows[m] = NoRow
        <5>1. f = "inbox"
          BY <1>3, <4>1 DEF Uses
        <5>2. note = NoRow
          BY <1>5, <5>1
        <5>3. \A e \in Callers : ~ Flushing(call, e, "inbox")
          BY <1>4, <5>1 DEF Uses, At, Flushing
        <5>4. Read("inbox")[m] = NoRow
          BY <3>2, <5>3, ContentRead DEF Absent
        <5>5. m # post
          <6>1. CASE post = NoRow
            BY <3>2, <6>1, ConstantsAssumption
          <6>2. CASE post # NoRow
            BY <1>5, <3>1, <6>2 DEF New, Mentions, Carrying
          <6> QED
            BY <6>1, <6>2
        <5>6. Read("inbox") \in Rows("inbox") /\ Made(tool, "inbox", Read("inbox"), rows, NoRow, post)
          BY <1>0, <1>4, <5>1, <5>2, ReadRows DEF Files
        <5> QED
          BY <3>2, <5>4, <5>5, <5>6, InboxAbsent
      <4> QED
        BY <1>3, <1>8, <3>2, <4>1 DEF Absent
    <3>4. \A e \in Callers : e # d /\ Carrying(e)' => call'[e].note.id # m
      <4>1. ASSUME note # NoRow PROVE note.id # m
        BY <1>5, <3>1, <4>1 DEF New, Mentions, Carrying
      <4> QED
        BY <1>3, <1>8, <3>2, <4>1 DEF Absent, Carrying
    <3> QED
      BY <1>9, <3>1, <3>2, <3>3, <3>4 DEF Absent
  <2> QED
    BY <2>1, <2>2
<1> QED
  BY <1>6, <1>7, <1>10 DEF Boarding

LEMMA BoardTruncate ==
  ASSUME BoardInv, NEW c \in Callers, Truncate(c)
  PROVE  Boarding'
<1>0. TypeOK /\ KeptInv
  BY DEF BoardInv, KeptInv, Base
<1>1. /\ At(c, "truncate") /\ call'[c] # Idle
      /\ call'[c].at = "flush" /\ call'[c].tool = call[c].tool /\ call'[c].file = call[c].file
      /\ call'[c].rows = call[c].rows /\ call'[c].note = call[c].note
      /\ \A d \in Callers : d # c => call'[d] = call[d]
      /\ disk' = [f \in Files |-> IF f = call[c].file THEN Torn ELSE disk[f]]
  BY <1>0, TruncateIs, CallFields DEF KeptInv
<1>2. call[c].file \in Files /\ Uses(c, call[c].file)
  BY <1>0, <1>1, InCall, CallFields DEF At, Uses
<1>3. InHand'
  <2> SUFFICES ASSUME NEW d \in Callers, At(d, "truncate")'
               PROVE  Made(call'[d].tool, call'[d].file,
                           IF disk'[call'[d].file] = Torn THEN NoRows(call'[d].file) ELSE disk'[call'[d].file],
                           call'[d].rows, call'[d].note, call'[d].post)
    BY DEF InHand, Read
  <2>1. d # c /\ call'[d] = call[d] /\ At(d, "truncate")
    BY <1>1 DEF At
  <2>2. call[d].file \in Files /\ Uses(d, call[d].file)
    BY <1>0, <2>1, InCall, CallFields DEF At, Uses
  <2>3. call[d].file # call[c].file
    BY <1>0, <1>2, <2>1, <2>2 DEF KeptInv, Keeping, Alone
  <2>4. disk'[call[d].file] = disk[call[d].file]
    BY <1>1, <2>2, <2>3
  <2> QED
    BY <2>1, <2>4 DEF BoardInv, InHand, Read
<1>4. Handing'
  BY <1>1 DEF BoardInv, Handing, At
<1>5. \A d \in Callers : (Uses(d, "inbox")' <=> Uses(d, "inbox")) /\ (Carrying(d)' => Carrying(d))
  BY <1>1 DEF Uses, At, Carrying
<1>6. \A d \in Callers : call'[d].rows = call[d].rows /\ call'[d].note = call[d].note
  BY <1>1
<1>7. Carried'
  <2> SUFFICES ASSUME NEW d \in Callers, Carrying(d)'
               PROVE  /\ Content("inbox")'[call'[d].note.id] = NoRow
                      /\ \A e \in Callers : e # d /\ Uses(e, "inbox")' => call'[e].rows[call'[d].note.id] = NoRow
                      /\ \A e \in Callers : e # d /\ Carrying(e)' => call'[e].note.id # call'[d].note.id
    BY DEF Carried, Absent
  <2>1. Carrying(d) /\ Absent(call[d].note.id, d)
    BY <1>5 DEF BoardInv, Carried
  <2>2. Content("inbox")'[call[d].note.id] = NoRow
    <3>1. "inbox" \in Files
      BY DEF Files
    <3>2. CASE call[c].file = "inbox"
      <4>1. d # c
        BY <1>1, <3>2 DEF Carrying, At
      <4>2. call[c].rows[call[d].note.id] = NoRow
        BY <1>2, <2>1, <3>2, <4>1 DEF Absent
      <4> QED
        BY <1>0, <3>1, <3>2, <4>2, ContentTruncate
    <3>3. CASE call[c].file # "inbox"
      BY <1>0, <2>1, <3>1, <3>3, ContentTruncate DEF Absent
    <3> QED
      BY <3>2, <3>3
  <2> QED
    BY <1>5, <1>6, <2>1, <2>2 DEF Absent
<1> QED
  BY <1>3, <1>4, <1>7 DEF Boarding

LEMMA BoardFlush ==
  ASSUME BoardInv, NEW c \in Callers, Flush(c)
  PROVE  Boarding'
<1>0. TypeOK /\ KeptInv
  BY DEF BoardInv, KeptInv, Base
<1>1. /\ At(c, "flush")
      /\ \/ call'[c] = Idle
         \/ /\ Notifies(c) /\ call'[c] # Idle
            /\ call'[c].at = "notify" /\ call'[c].tool = call[c].tool /\ call'[c].file = call[c].file
            /\ call'[c].note = call[c].note
      /\ \A d \in Callers : d # c => call'[d] = call[d]
  BY <1>0, FlushIs, CallFields DEF KeptInv
<1>2. /\ call[c].file \in Files /\ Uses(c, call[c].file)
      /\ disk' = [f \in Files |-> IF f = call[c].file THEN call[c].rows ELSE disk[f]]
  BY <1>0, <1>1, FlushWrites DEF Uses, At
<1>3. InHand'
  <2> SUFFICES ASSUME NEW d \in Callers, At(d, "truncate")'
               PROVE  Made(call'[d].tool, call'[d].file,
                           IF disk'[call'[d].file] = Torn THEN NoRows(call'[d].file) ELSE disk'[call'[d].file],
                           call'[d].rows, call'[d].note, call'[d].post)
    BY DEF InHand, Read
  <2>1. d # c /\ call'[d] = call[d] /\ At(d, "truncate")
    BY <1>1 DEF At
  <2>2. call[d].file \in Files /\ Uses(d, call[d].file)
    BY <1>0, <2>1, InCall, CallFields DEF At, Uses
  <2>3. call[d].file # call[c].file
    BY <1>0, <1>2, <2>1, <2>2 DEF KeptInv, Keeping, Alone
  <2>4. disk'[call[d].file] = disk[call[d].file]
    BY <1>2, <2>2, <2>3
  <2> QED
    BY <2>1, <2>4 DEF BoardInv, InHand, Read
<1>4. Handing'
  BY <1>1 DEF BoardInv, Handing, At
<1>5. /\ \A d \in Callers : Uses(d, "inbox")' => Uses(d, "inbox")
      /\ \A d \in Callers : Uses(d, "inbox")' => call'[d].rows = call[d].rows
      /\ \A d \in Callers : Carrying(d)' => Carrying(d)
      /\ \A d \in Callers : Carrying(d)' => call'[d].note = call[d].note
  BY <1>1 DEF Uses, At, Carrying, Notifies
<1>6. Content("inbox")' = Content("inbox")
  BY <1>0, ContentFlush DEF Files
<1>7. Carried'
  <2> SUFFICES ASSUME NEW d \in Callers, Carrying(d)'
               PROVE  /\ Content("inbox")'[call'[d].note.id] = NoRow
                      /\ \A e \in Callers : e # d /\ Uses(e, "inbox")' => call'[e].rows[call'[d].note.id] = NoRow
                      /\ \A e \in Callers : e # d /\ Carrying(e)' => call'[e].note.id # call'[d].note.id
    BY DEF Carried, Absent
  <2>0. Carrying(d) /\ call'[d].note = call[d].note
    BY <1>5
  <2>1. Absent(call[d].note.id, d) /\ call'[d].note.id = call[d].note.id
    BY <2>0 DEF BoardInv, Carried
  <2> QED
    BY <1>5, <1>6, <2>1 DEF Absent
<1> QED
  BY <1>3, <1>4, <1>7 DEF Boarding

LEMMA BoardNotify ==
  ASSUME BoardInv, ~ Overlap, NEW c \in Callers, Notify(c)
  PROVE  Boarding'
<1>0. TypeOK /\ KeptInv
  BY DEF BoardInv, KeptInv, Base
<1>1. /\ At(c, "notify") /\ Notifies(c) /\ \A d \in Callers : ~ Uses(d, "inbox")
      /\ call[c].note \in [id : Msgs, msg : Message]
      /\ call'[c] # Idle /\ call'[c].at = "truncate" /\ call'[c].tool = call[c].tool /\ call'[c].file = "inbox"
      /\ call'[c].rows = [Read("inbox") EXCEPT ![call[c].note.id] = call[c].note.msg]
      /\ call'[c].note = call[c].note /\ call'[c].post = call[c].post
      /\ \A d \in Callers : d # c => call'[d] = call[d]
      /\ disk' = disk
  BY <1>0, NotifyIs, CallFields DEF KeptInv, Free
<1>2. call[c].post = NoRow /\ call[c].note # NoRow /\ call[c].tool = "task_handoff"
  BY <1>0, <1>1 DEF KeptInv, Keeping, Posting, Notifies, At
<1>3. InHand'
  <2> SUFFICES ASSUME NEW d \in Callers, At(d, "truncate")'
               PROVE  Made(call'[d].tool, call'[d].file,
                           IF disk'[call'[d].file] = Torn THEN NoRows(call'[d].file) ELSE disk'[call'[d].file],
                           call'[d].rows, call'[d].note, call'[d].post)
    BY DEF InHand, Read
  <2>1. CASE d = c
    <3>1. NoticeStep(Read("inbox"), call'[c].rows, call'[c].note)
      BY <1>1 DEF NoticeStep
    <3>2. Made(call'[c].tool, "inbox", Read("inbox"), call'[c].rows, call'[c].note, call'[c].post)
      BY <1>1, <1>2, <3>1 DEF Made
    <3> QED
      BY <1>1, <2>1, <3>2 DEF Read
  <2>2. CASE d # c
    BY <1>1, <2>2 DEF BoardInv, InHand, Read, At
  <2> QED
    BY <2>1, <2>2
<1>4. Handing'
  BY <1>1, <1>2 DEF BoardInv, Handing
<1>5. /\ \A d \in Callers : Uses(d, "inbox")' => d = c
      /\ \A d \in Callers : Carrying(d)' => Carrying(d)
      /\ \A d \in Callers : call'[d].note = call[d].note
      /\ Carrying(c)
  BY <1>1 DEF Uses, At, Carrying, Notifies
<1>6. Content("inbox")' = Content("inbox") /\ Content("inbox") = Read("inbox")
  <2>1. \A f \in Files : Content(f)' = Content(f)
    BY <1>0, <1>1, ContentBegun DEF At
  <2>2. \A d \in Callers : ~ Flushing(call, d, "inbox")
    BY <1>1 DEF Flushing, Uses, At
  <2> QED
    BY <2>1, <2>2, ContentRead DEF Files
<1>7. Carried'
  <2> SUFFICES ASSUME NEW d \in Callers, Carrying(d)'
               PROVE  /\ Content("inbox")'[call'[d].note.id] = NoRow
                      /\ \A e \in Callers : e # d /\ Uses(e, "inbox")' => call'[e].rows[call'[d].note.id] = NoRow
                      /\ \A e \in Callers : e # d /\ Carrying(e)' => call'[e].note.id # call'[d].note.id
    BY DEF Carried, Absent
  <2>1. Carrying(d) /\ Absent(call[d].note.id, d)
    BY <1>5 DEF BoardInv, Carried
  <2>2. call[d].note.id \in Msgs
    BY <1>0, <2>1, NoteId DEF Carrying
  <2>3. d # c => call'[c].rows[call[d].note.id] = NoRow
    <3>1. Read("inbox") \in [Msgs -> Message \cup {NoRow}]
      BY <1>0, ReadRows, RowsOf DEF Files
    <3>2. d # c => call[d].note.id # call[c].note.id
      BY <1>5, <2>1 DEF Absent
    <3>3. Read("inbox")[call[d].note.id] = NoRow
      BY <1>6, <2>1 DEF Absent
    <3> QED
      BY <1>1, <2>2, <3>1, <3>2, <3>3
  <2> QED
    BY <1>5, <1>6, <2>1, <2>3 DEF Absent
<1> QED
  BY <1>3, <1>4, <1>7 DEF Boarding

LEMMA BoardFail ==
  ASSUME BoardInv, (\E c \in Callers : Fail(c)) \/ Restart
  PROVE  Boarding'
<1>0. TypeOK /\ KeptInv
  BY DEF BoardInv, KeptInv, Base
<1>1. (\A d \in Callers : call'[d] \in {call[d], Idle}) /\ disk' = disk
  BY <1>0, FailIs
<1>2. InHand' /\ Handing'
  BY <1>1 DEF BoardInv, InHand, Handing, At, Read
<1>3. /\ \A d \in Callers : Uses(d, "inbox")' => Uses(d, "inbox")
      /\ \A d \in Callers : Uses(d, "inbox")' => call'[d].rows = call[d].rows
      /\ \A d \in Callers : Carrying(d)' => Carrying(d)
      /\ \A d \in Callers : Carrying(d)' => call'[d].note = call[d].note
  BY <1>1 DEF Uses, At, Carrying
<1>4. Content("inbox")' \in {Content("inbox"), NoRows("inbox")}
  BY <1>0, ContentFail DEF Files
<1>5. Carried'
  <2> SUFFICES ASSUME NEW d \in Callers, Carrying(d)'
               PROVE  /\ Content("inbox")'[call'[d].note.id] = NoRow
                      /\ \A e \in Callers : e # d /\ Uses(e, "inbox")' => call'[e].rows[call'[d].note.id] = NoRow
                      /\ \A e \in Callers : e # d /\ Carrying(e)' => call'[e].note.id # call'[d].note.id
    BY DEF Carried, Absent
  <2>0. Carrying(d) /\ call'[d].note.id = call[d].note.id
    BY <1>3
  <2>1. Carrying(d) /\ Absent(call[d].note.id, d) /\ call'[d].note.id = call[d].note.id
    BY <2>0 DEF BoardInv, Carried
  <2>2. call[d].note.id \in Msgs
    BY <1>0, <2>1, NoteId DEF Carrying
  <2>3. Content("inbox")'[call[d].note.id] = NoRow
    BY <1>4, <2>1, <2>2, Empty DEF Absent
  <2> QED
    BY <1>3, <2>1, <2>3 DEF Absent
<1> QED
  BY <1>2, <1>5 DEF Boarding

LEMMA BoardStutter == ASSUME BoardInv, UNCHANGED vars PROVE Boarding'
<1>1. disk' = disk /\ call' = call /\ Content("inbox")' = Content("inbox")
  BY ContentStutter DEF vars, Files
<1>2. InHand' /\ Handing'
  BY <1>1 DEF BoardInv, InHand, Handing, At, Read
<1>3. Carried'
  BY <1>1 DEF BoardInv, Carried, Carrying, Absent, Uses, At
<1> QED
  BY <1>2, <1>3 DEF Boarding

LEMMA BoardKept == ~ Overlap /\ BoardInv /\ [Next]_vars => BoardInv'
<1> SUFFICES ASSUME ~ Overlap, BoardInv, [Next]_vars PROVE BoardInv'
  OBVIOUS
<1>1. KeptInv /\ KeptInv' /\ TypeOK
  BY KeptStep DEF BoardInv, KeptInv, Base
<1>2. CASE Next
  BY <1>1, <1>2, NextIs, BoardBegin, BoardTruncate, BoardFlush, BoardNotify, BoardFail DEF BoardInv, Boarding
<1>3. CASE UNCHANGED vars
  BY <1>1, <1>3, BoardStutter DEF BoardInv, Boarding
<1> QED
  BY <1>2, <1>3

LEMMA BoardInit == Init => BoardInv
<1> SUFFICES ASSUME Init PROVE BoardInv
  OBVIOUS
<1>1. \A c \in Callers : call[c] = Idle
  BY DEF Init
<1>2. InHand /\ Handing /\ Carried
  BY <1>1 DEF InHand, Handing, Carried, Carrying, At
<1> QED
  BY <1>2, KeptInit DEF BoardInv

-----------------------------------------------------------------------------
(* The files implement TaskBoard.                                          *)
Transit == {call[c].note : c \in {d \in Callers : OnItsWay(d)}}

(* What a step of TaskBoard leaves alone.                                  *)
Others(f) == \A g \in Files : g # f => Content(g)' = Content(g)

LEMMA OnItsWayCarries ==
  ASSUME BoardInv, NEW c \in Callers, OnItsWay(c)
  PROVE  Carrying(c) /\ call[c].note \in [id : Msgs, msg : Message]
<1>1. call[c] # Idle /\ call[c].note # NoRow
  BY DEF OnItsWay
<1>2. call[c].file \in {"tasks", "inbox"}
  BY <1>1 DEF BoardInv, Handing
<1> QED
  BY <1>1, <1>2, NoteId DEF OnItsWay, Carrying, At, BoardInv, KeptInv, Base

(* No two notices on their way share an identifier.                        *)
LEMMA OwnId ==
  ASSUME BoardInv, NEW c \in Callers, NEW d \in Callers, Carrying(c), Carrying(d), c # d
  PROVE  call[c].note.id # call[d].note.id
BY DEF BoardInv, Carried, Absent

LEMMA MapBoard ==
  ASSUME NEW old, NEW new, BoardStep(old, new),
         Content("tasks") = old, Content("tasks")' = new, Others("tasks"),
         Transit' = Transit, outage' = outage
  PROVE  Atomic!Next
<1>0. Content("inbox")' = Content("inbox") /\ Content("agents")' = Content("agents")
  BY DEF Others, Files
<1>1. ASSUME NEW k \in Tasks, NEW a \in Agents \cup {Nobody}, old[k] = NoRow,
             new = [old EXCEPT ![k] = [status |-> "open", owner |-> Nobody, assigned |-> a]]
      PROVE  Atomic!AddTask(k, a)
  BY <1>0, <1>1 DEF Atomic!AddTask, Transit
<1>2. ASSUME NEW k \in Tasks, NEW a \in Agents, old[k] # NoRow, old[k].status # "done",
             new = [old EXCEPT ![k].status = "claimed", ![k].owner = a]
      PROVE  Atomic!Claim(k, a)
  BY <1>0, <1>2 DEF Atomic!Claim, Atomic!Present, Transit
<1>3. ASSUME NEW k \in Tasks, NEW s \in Statuses, old[k] # NoRow, new = [old EXCEPT ![k].status = s]
      PROVE  Atomic!Update(k, s)
  BY <1>0, <1>3 DEF Atomic!Update, Atomic!Present, Transit
<1>4. ASSUME NEW k \in Tasks, old[k] # NoRow, new = [old EXCEPT ![k].status = "open", ![k].owner = Nobody]
      PROVE  Atomic!Release(k)
  BY <1>0, <1>4 DEF Atomic!Release, Atomic!Present, Transit
<1>5. ASSUME NEW k \in Tasks, new = [old EXCEPT ![k] = NoRow]
      PROVE  Atomic!DeleteTask(k)
  BY <1>0, <1>5 DEF Atomic!DeleteTask, Transit
<1> QED
  BY <1>1, <1>2, <1>3, <1>4, <1>5 DEF BoardStep, Atomic!Next

LEMMA MapHandOff ==
  ASSUME NEW old, NEW new, NEW note, HandOffStep(old, new, note),
         Content("tasks") = old, Content("tasks")' = new, Others("tasks"),
         note = [id |-> note.id, msg |-> note.msg], Content("inbox")[note.id] = NoRow,
         \A n \in Transit : n.id # note.id,
         Transit' = Transit \cup {note}, outage' = outage
  PROVE  Atomic!Next
<1>0. Content("inbox")' = Content("inbox") /\ Content("agents")' = Content("agents")
  BY DEF Others, Files
<1>1. PICK k \in Tasks, a \in Agents :
        /\ old[k] # NoRow
        /\ new = [old EXCEPT ![k] = [status |-> "claimed", owner |-> a, assigned |-> a]]
        /\ note.id \in Msgs /\ note.msg = Unread(a, k)
  BY DEF HandOffStep
<1>2. Atomic!Unused(note.id)
  BY DEF Atomic!Unused, Atomic!Travelling, Transit
<1>3. note = [id |-> note.id, msg |-> Atomic!Unread(a, k)]
  BY <1>1 DEF Unread, Atomic!Unread
<1>4. Atomic!HandOff(k, a, note.id)
  BY <1>0, <1>1, <1>2, <1>3 DEF Atomic!HandOff, Atomic!Present, Transit
<1> QED
  BY <1>1, <1>4 DEF Atomic!Next

LEMMA MapPost ==
  ASSUME NEW old, NEW new, NEW m \in Msgs, PostStep(old, new, m),
         Content("inbox") = old, Content("inbox")' = new, Others("inbox"),
         \A n \in Transit : n.id # m, Transit' = Transit, outage' = outage
  PROVE  Atomic!Next
<1>0. Content("tasks")' = Content("tasks") /\ Content("agents")' = Content("agents")
  BY DEF Others, Files
<1>1. PICK to \in Agents \cup {Everyone} : old[m] = NoRow /\ new = [old EXCEPT ![m] = Unread(to, NoRow)]
  BY DEF PostStep
<1>2. Atomic!Unused(m)
  BY <1>1 DEF Atomic!Unused, Atomic!Travelling, Transit
<1>3. Atomic!Post(m, to)
  BY <1>0, <1>1, <1>2 DEF Atomic!Post, Unread, Atomic!Unread, Transit
<1> QED
  BY <1>3 DEF Atomic!Next

LEMMA MapInbox ==
  ASSUME NEW old, NEW new, AckStep(old, new) \/ DropStep(old, new),
         Content("inbox") = old, Content("inbox")' = new, Others("inbox"),
         Transit' = Transit, outage' = outage
  PROVE  Atomic!Next
<1>0. Content("tasks")' = Content("tasks") /\ Content("agents")' = Content("agents")
  BY DEF Others, Files
<1>1. ASSUME NEW m \in Msgs, old[m] # NoRow, new = [old EXCEPT ![m].read = TRUE]
      PROVE  Atomic!Ack(m)
  BY <1>0, <1>1 DEF Atomic!Ack, Transit
<1>2. ASSUME NEW m \in Msgs, new = [old EXCEPT ![m] = NoRow]
      PROVE  Atomic!DeleteMessage(m)
  BY <1>0, <1>2 DEF Atomic!DeleteMessage, Transit
<1>3. ASSUME new = [m \in Msgs |-> Kept(old[m])]
      PROVE  Atomic!Purge
  BY <1>0, <1>3 DEF Atomic!Purge, Kept, Transit
<1> QED
  BY <1>1, <1>2, <1>3 DEF AckStep, DropStep, Atomic!Next

LEMMA MapDeliver ==
  ASSUME NEW old, NEW new, NEW note, NoticeStep(old, new, note),
         Content("inbox") = old, Content("inbox")' = new, Others("inbox"),
         note \in Transit, Transit' = Transit \ {note}, outage' = outage
  PROVE  Atomic!Next
<1>0. Content("tasks")' = Content("tasks") /\ Content("agents")' = Content("agents")
  BY DEF Others, Files
<1>1. Atomic!Deliver(note)
  BY <1>0 DEF Atomic!Deliver, NoticeStep, Transit
<1> QED
  BY <1>1 DEF Atomic!Next, Transit

LEMMA MapAgent ==
  ASSUME NEW old, NEW new, AgentStep(old, new),
         old \in Rows("agents"),
         Content("agents") = old, Content("agents")' = new, Others("agents"),
         Transit' = Transit, outage' = outage
  PROVE  Atomic!Next
<1>0. Content("tasks")' = Content("tasks") /\ Content("inbox")' = Content("inbox")
  BY DEF Others, Files
<1>1. ASSUME NEW a \in Agents, NEW caps \in Caps \cup {NoCaps}, new = [old EXCEPT ![a] = Registered(old[a], caps)]
      PROVE  Atomic!Register(a, caps)
  <2>1. new = [old EXCEPT ![a] = IF caps = NoCaps /\ @ # NoRow THEN @ ELSE caps]
    BY <1>1, RowsOf DEF Registered
  <2> QED
    BY <1>0, <2>1 DEF Atomic!Register, Transit
<1>2. ASSUME NEW a \in Agents, new = [old EXCEPT ![a] = NoRow]
      PROVE  Atomic!Remove(a)
  BY <1>0, <1>2 DEF Atomic!Remove, Transit
<1> QED
  BY <1>1, <1>2 DEF AgentStep, Atomic!Next

(* Beginning a call, writing out and turning to the inbox show nothing.    *)
LEMMA MapStill ==
  ASSUME \A f \in Files : Content(f)' = Content(f), Transit' = Transit, outage' = outage
  PROVE  UNCHANGED Atomic!state
BY DEF Atomic!state, Transit, Files

LEMMA MapFail ==
  ASSUME BoardInv, \A f \in Files : Content(f)' \in {Content(f), NoRows(f)},
         Transit' \subseteq Transit, outage' = ~ outage
  PROVE  Atomic!Next
<1>1. \A f \in Files : Content(f) \in Rows(f)
  BY ContentRows DEF BoardInv
<1>2. /\ NoRows("tasks") = Atomic!Emptied(Content("tasks"))
      /\ NoRows("inbox") = Atomic!Emptied(Content("inbox"))
      /\ NoRows("agents") = Atomic!Emptied(Content("agents"))
  BY <1>1, RowsOf, Empty DEF Atomic!Emptied, Files
<1>3. Atomic!Interrupted
  BY <1>2 DEF Atomic!Interrupted, Transit, Files
<1> QED
  BY <1>3 DEF Atomic!Next

LEMMA TransitIs ==
  /\ \A n : n \in Transit <=> \E c \in Callers : OnItsWay(c) /\ n = call[c].note
  /\ \A n : n \in Transit' <=> \E c \in Callers : OnItsWay(c)' /\ n = call'[c].note
BY DEF Transit

LEMMA TransitSame ==
  ASSUME \A c \in Callers : OnItsWay(c)' <=> OnItsWay(c),
         \A c \in Callers : OnItsWay(c) => call'[c].note = call[c].note
  PROVE  Transit' = Transit
<1>1. ASSUME NEW n PROVE n \in Transit' <=> n \in Transit
  BY TransitIs
<1> QED
  BY <1>1 DEF Transit

LEMMA MapBegin ==
  ASSUME BoardInv, NEW c \in Callers, BeginsSome(c)
  PROVE  UNCHANGED Atomic!state
<1>0. TypeOK /\ KeptInv
  BY DEF BoardInv, KeptInv, Base
<1>1. PICK tool \in Tools, f \in Files, note \in Note, post \in Msgs \cup {NoRow} :
          \E rows : Begins(c, tool, f, rows, note, post)
  BY DEF BeginsSome
<1>2. PICK rows : Begins(c, tool, f, rows, note, post)
  BY <1>1
<1>3. /\ call[c] = Idle /\ call'[c] # Idle
      /\ call'[c].at = "truncate" /\ call'[c].file = f /\ call'[c].note = note
      /\ \A d \in Callers : d # c => call'[d] = call[d]
      /\ disk' = disk /\ outage' = outage
  <2>1. disk' = disk /\ outage' = outage
    BY <1>2 DEF Begins, Begin
  <2> QED
    BY <1>0, <1>2, <2>1, BeginsIs, CallFields
<1>4. note # NoRow => f = "tasks"
  BY <1>2 DEF Begins
<1>5. \A f1 \in Files : Content(f1)' = Content(f1)
  BY <1>0, <1>3, ContentBegun
<1>6. \A d \in Callers : OnItsWay(d)' <=> OnItsWay(d)
  BY <1>3, <1>4 DEF OnItsWay
<1>7. \A d \in Callers : OnItsWay(d) => call'[d].note = call[d].note
  BY <1>3 DEF OnItsWay
<1> QED
  BY <1>3, <1>5, <1>6, <1>7, TransitSame, MapStill

LEMMA MapTruncate ==
  ASSUME BoardInv, NEW c \in Callers, Truncate(c)
  PROVE  Atomic!Next
<1> DEFINE f == call[c].file
           note == call[c].note
           post == call[c].post
           new == call[c].rows
<1>0. TypeOK /\ KeptInv
  BY DEF BoardInv, KeptInv, Base
<1>1. /\ At(c, "truncate") /\ call'[c] # Idle
      /\ call'[c].at = "flush" /\ call'[c].file = f /\ call'[c].note = note
      /\ \A d \in Callers : d # c => call'[d] = call[d]
      /\ outage' = outage
  BY <1>0, TruncateIs, CallFields DEF KeptInv
<1>2. /\ f \in Files
      /\ Content(f) = Read(f)
      /\ \A g \in Files : Content(g)' = IF g = f THEN new ELSE Content(g)
  BY <1>0, ContentTruncate
<1>3. Made(call[c].tool, f, Content(f), new, note, post)
  BY <1>1, <1>2 DEF BoardInv, InHand
<1>4. call[c] # Idle /\ post \in Msgs \cup {NoRow} /\ note \in Note
  BY <1>0, <1>1, InCall, CallFields DEF At
<1>5. \A d \in Callers : d # c => (OnItsWay(d)' <=> OnItsWay(d))
  BY <1>1 DEF OnItsWay
<1>6. \A d \in Callers : call'[d].note = call[d].note
  BY <1>1
<1>7. /\ OnItsWay(c) <=> note # NoRow /\ f # "tasks"
      /\ OnItsWay(c)' <=> note # NoRow /\ f = "tasks"
  BY <1>1 DEF OnItsWay, At
<1>8. \A n \in Transit : \E d \in Callers : OnItsWay(d) /\ Carrying(d) /\ n = call[d].note
  BY TransitIs, OnItsWayCarries
<1>9. note = NoRow => Transit' = Transit
  BY <1>5, <1>6, <1>7, TransitSame
<1> HIDE DEF f, note, post, new
<1>10. CASE f = "tasks" /\ note = NoRow /\ BoardStep(Content(f), new)
  <2>1. Content("tasks")' = new /\ Others("tasks")
    BY <1>2, <1>10 DEF Others, Files
  <2> QED
    BY <1>1, <1>9, <1>10, <2>1, MapBoard
<1>11. CASE f = "tasks" /\ note # NoRow /\ HandOffStep(Content(f), new, note)
  <2>1. Content("tasks")' = new /\ Others("tasks")
    BY <1>2, <1>11 DEF Others, Files
  <2>2. note \in [id : Msgs, msg : Message]
    BY <1>4, <1>11 DEF Note
  <2>3. Carrying(c) /\ ~ OnItsWay(c)
    BY <1>1, <1>4, <1>7, <1>11 DEF Carrying, f, note
  <2>4. Content("inbox")[note.id] = NoRow
    BY <2>3 DEF BoardInv, Carried, Absent, note
  <2>5. \A n \in Transit : n.id # note.id
    BY <1>8, <2>3, OwnId DEF note
  <2>6. Transit' = Transit \cup {note}
    <3>1. ASSUME NEW n PROVE n \in Transit' <=> n \in Transit \/ n = note
      BY <1>5, <1>6, <1>7, <1>11, <2>3, TransitIs DEF note
    <3> QED
      BY <3>1
  <2> QED
    BY <1>1, <1>11, <2>1, <2>2, <2>4, <2>5, <2>6, MapHandOff
<1>12. CASE f = "inbox" /\ note = NoRow /\ post # NoRow /\ PostStep(Content(f), new, post)
  <2>1. Content("inbox")' = new /\ Others("inbox")
    BY <1>2, <1>12 DEF Others, Files
  <2>2. Uses(c, "inbox") /\ new[post] # NoRow
    BY <1>0, <1>1, <1>12 DEF f, new, post, Uses, At, KeptInv, Keeping, Answering, Answerable
  <2>3. \A n \in Transit : n.id # post
    <3> SUFFICES ASSUME NEW n \in Transit, n.id = post PROVE FALSE
      OBVIOUS
    <3>1. PICK d \in Callers : OnItsWay(d) /\ Carrying(d) /\ n = call[d].note
      BY <1>8
    <3>2. d # c
      BY <1>7, <1>12, <3>1
    <3> QED
      BY <2>2, <3>1, <3>2 DEF BoardInv, Carried, Absent, new
  <2> QED
    BY <1>1, <1>4, <1>9, <1>12, <2>1, <2>3, MapPost
<1>13. CASE f = "inbox" /\ note = NoRow /\ (AckStep(Content(f), new) \/ DropStep(Content(f), new))
  <2>1. Content("inbox")' = new /\ Others("inbox")
    BY <1>2, <1>13 DEF Others, Files
  <2> QED
    BY <1>1, <1>9, <1>13, <2>1, MapInbox
<1>14. CASE f = "inbox" /\ note # NoRow /\ NoticeStep(Content(f), new, note)
  <2>1. Content("inbox")' = new /\ Others("inbox")
    BY <1>2, <1>14 DEF Others, Files
  <2>2. OnItsWay(c) /\ ~ (OnItsWay(c))' /\ Carrying(c)
    BY <1>7, <1>14, OnItsWayCarries
  <2>3. note \in Transit
    BY <2>2, TransitIs DEF note
  <2>4. \A d \in Callers : OnItsWay(d) /\ d # c => call[d].note # note
    BY <2>2, OnItsWayCarries, OwnId DEF note
  <2>5. Transit' = Transit \ {note}
    <3>1. ASSUME NEW n PROVE n \in Transit' <=> n \in Transit /\ n # note
      BY <1>5, <1>6, <2>2, <2>4, TransitIs DEF note
    <3> QED
      BY <3>1
  <2> QED
    BY <1>1, <1>14, <2>1, <2>3, <2>5, MapDeliver
<1>15. CASE f = "agents" /\ note = NoRow /\ AgentStep(Content(f), new)
  <2>1. Content("agents")' = new /\ Others("agents")
    BY <1>2, <1>15 DEF Others, Files
  <2>2. Content("agents") \in Rows("agents")
    BY <1>0, ContentRows DEF Files
  <2> QED
    BY <1>1, <1>9, <1>15, <2>1, <2>2, MapAgent
<1> QED
  BY <1>3, <1>10, <1>11, <1>12, <1>13, <1>14, <1>15 DEF Made

LEMMA MapFlush ==
  ASSUME BoardInv, NEW c \in Callers, Flush(c)
  PROVE  UNCHANGED Atomic!state
<1>0. TypeOK /\ KeptInv
  BY DEF BoardInv, KeptInv, Base
<1>1. /\ At(c, "flush")
      /\ \/ ~ Notifies(c) /\ call'[c] = Idle
         \/ /\ Notifies(c) /\ call'[c] # Idle
            /\ call'[c].at = "notify" /\ call'[c].file = call[c].file /\ call'[c].note = call[c].note
      /\ \A d \in Callers : d # c => call'[d] = call[d]
      /\ outage' = outage
  BY <1>0, FlushIs, CallFields DEF KeptInv
<1>2. \A f \in Files : Content(f)' = Content(f)
  BY <1>0, ContentFlush
<1>3. OnItsWay(c) <=> Notifies(c)
  BY <1>1 DEF BoardInv, Handing, OnItsWay, Notifies, At
<1>4. OnItsWay(c)' <=> Notifies(c)
  BY <1>1 DEF OnItsWay, Notifies, At
<1>5. \A d \in Callers : OnItsWay(d)' <=> OnItsWay(d)
  BY <1>1, <1>3, <1>4 DEF OnItsWay
<1>6. \A d \in Callers : OnItsWay(d) => call'[d].note = call[d].note
  BY <1>1, <1>3
<1> QED
  BY <1>1, <1>2, <1>5, <1>6, TransitSame, MapStill

LEMMA MapNotify ==
  ASSUME BoardInv, NEW c \in Callers, Notify(c)
  PROVE  UNCHANGED Atomic!state
<1>0. TypeOK /\ KeptInv
  BY DEF BoardInv, KeptInv, Base
<1>1. /\ At(c, "notify") /\ Notifies(c)
      /\ call'[c] # Idle /\ call'[c].at = "truncate" /\ call'[c].file = "inbox"
      /\ call'[c].note = call[c].note
      /\ \A d \in Callers : d # c => call'[d] = call[d]
      /\ disk' = disk /\ outage' = outage
  BY <1>0, NotifyIs, CallFields DEF KeptInv
<1>2. \A f \in Files : Content(f)' = Content(f)
  BY <1>0, <1>1, ContentBegun DEF At
<1>3. \A d \in Callers : OnItsWay(d)' <=> OnItsWay(d)
  BY <1>1 DEF OnItsWay, Notifies, At
<1>4. \A d \in Callers : OnItsWay(d) => call'[d].note = call[d].note
  BY <1>1
<1> QED
  BY <1>1, <1>2, <1>3, <1>4, TransitSame, MapStill

LEMMA MapInterrupted ==
  ASSUME BoardInv, (\E c \in Callers : Fail(c)) \/ Restart
  PROVE  Atomic!Next
<1>0. TypeOK /\ KeptInv
  BY DEF BoardInv, KeptInv, Base
<1>1. (\A d \in Callers : call'[d] \in {call[d], Idle}) /\ outage' = ~ outage
  BY <1>0, FailIs
<1>2. Transit' \subseteq Transit
  <2>1. \A d \in Callers : OnItsWay(d)' => OnItsWay(d)
    BY <1>1 DEF OnItsWay
  <2>2. \A d \in Callers : OnItsWay(d)' => call'[d].note = call[d].note
    BY <1>1 DEF OnItsWay
  <2> QED
    BY <2>1, <2>2, TransitIs
<1> QED
  BY <1>0, <1>1, <1>2, ContentFail, MapFail

LEMMA MapStutter == ASSUME UNCHANGED vars PROVE UNCHANGED Atomic!state
<1>1. (\A f \in Files : Content(f)' = Content(f)) /\ outage' = outage
  BY ContentStutter DEF vars
<1>2. Transit' = Transit
  BY DEF vars, Transit, OnItsWay
<1> QED
  BY <1>1, <1>2, MapStill

LEMMA MapNext == BoardInv /\ [Next]_vars => [Atomic!Next]_Atomic!state
<1> SUFFICES ASSUME BoardInv, [Next]_vars PROVE Atomic!Next \/ UNCHANGED Atomic!state
  OBVIOUS
<1>1. TypeOK
  BY DEF BoardInv, KeptInv, Base
<1>2. CASE Next
  BY <1>1, <1>2, NextIs, MapBegin, MapTruncate, MapFlush, MapNotify, MapInterrupted
<1>3. CASE UNCHANGED vars
  BY <1>3, MapStutter
<1> QED
  BY <1>2, <1>3

LEMMA MapInit == Init => Atomic!Init
<1> SUFFICES ASSUME Init PROVE Atomic!Init
  OBVIOUS
<1>1. \A c \in Callers : call[c] = Idle
  BY DEF Init
<1>2. \A f \in Files : Content(f) = NoRows(f)
  <2> SUFFICES ASSUME NEW f \in Files PROVE Content(f) = NoRows(f)
    OBVIOUS
  <2>1. Content(f) = Read(f)
    BY <1>1, ContentRead DEF Flushing
  <2>2. disk[f] = NoRows(f)
    BY DEF Init
  <2> QED
    BY <2>1, <2>2 DEF Read
<1>3. Transit = {}
  BY <1>1 DEF Transit, OnItsWay
<1> QED
  BY <1>2, <1>3, Empty DEF Init, Atomic!Init, Transit, Files

(* Used one call per file at a time, the three files are a TaskBoard: one  *)
(* step per tool, and only an interruption loses anything.                 *)
THEOREM Implements == ~ Overlap => (Spec => ImplementsTaskBoard)
<1> SUFFICES ASSUME ~ Overlap PROVE Spec => ImplementsTaskBoard
  OBVIOUS
<1>1. BoardInv /\ [Next]_vars => BoardInv'
  BY BoardKept
<1> QED
  BY <1>1, BoardInit, MapInit, MapNext, PTL DEF Spec, ImplementsTaskBoard, Atomic!Spec
=============================================================================
