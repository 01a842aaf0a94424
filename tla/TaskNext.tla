------------------------------ MODULE TaskNext ------------------------------
(***************************************************************************)
(* app/coordination.py, task_next: which open tasks an agent is offered,   *)
(* in which order.  A pure function of the task file; the file here grows  *)
(* by task_add and task_claim, so that every board of at most MaxTasks     *)
(* tasks is looked at.                                                     *)
(* Position in the file is age: task_add appends with the current time.    *)
(***************************************************************************)
EXTENDS Naturals, Sequences, FiniteSets

CONSTANTS
  Agents,
  NoAgent,     \* "": nobody
  Caps,        \* capability tags
  Shown,       \* how many tasks one answer names (3 in the code)
  MaxTasks     \* bound on the length of the file

VARIABLE tasks       \* the task file, oldest first

Task == [status : {"open", "claimed"}, needs : SUBSET Caps, assigned : Agents \cup {NoAgent}]

(* What the constants stand for.                                           *)
ConstantsOK == MaxTasks \in Nat /\ Shown \in Nat /\ NoAgent \notin Agents

TypeOK == tasks \in Seq(Task) /\ Len(tasks) <= MaxTasks

Init == tasks = <<>>

TaskAdd(needs, forAgent) ==
  /\ Len(tasks) < MaxTasks
  /\ tasks' = Append(tasks, [status |-> "open", needs |-> needs, assigned |-> forAgent])

TaskClose(i) == tasks' = [tasks EXCEPT ![i].status = "done"]

(* Whoever claims it, the task stays assigned as it was.                   *)
TaskClaim(i) == tasks' = [tasks EXCEPT ![i].status = "claimed"]

Next ==
  \/ \E needs \in SUBSET Caps, a \in Agents \cup {NoAgent} : TaskAdd(needs, a)
  \/ \E i \in DOMAIN tasks : TaskClaim(i)

Spec == Init /\ [][Next]_tasks

-----------------------------------------------------------------------------
(* score(t): lower is better, 9 is never shown.  The cases are tried in    *)
(* this order, so a capability match comes before the look at assigned.    *)
Score(t, owner, caps) ==
  CASE t.assigned = owner -> 0
    [] t.assigned # owner /\ t.needs \cap caps # {} -> 1
    [] t.assigned = NoAgent /\ t.needs = {} -> 2
    [] t.assigned = NoAgent /\ t.needs # {} /\ t.needs \cap caps = {} -> 3
    [] OTHER -> 9

NewestAhead(i, j, owner, caps) ==
  LET si == Score(tasks[i], owner, caps)
      sj == Score(tasks[j], owner, caps)
  IN  si < sj \/ (si = sj /\ i > j)

(* Sorted by score, then by age; the first Shown of those below 9.         *)
Ahead(i, j, owner, caps) ==
  LET si == Score(tasks[i], owner, caps)
      sj == Score(tasks[j], owner, caps)
  IN  si < sj \/ (si = sj /\ i < j)

Suitable(owner, caps) ==
  {i \in DOMAIN tasks : tasks[i].status = "open" /\ Score(tasks[i], owner, caps) < 9}

Recommended(owner, caps) ==
  {i \in Suitable(owner, caps) :
     Cardinality({j \in Suitable(owner, caps) : Ahead(j, i, owner, caps)}) < Shown}

-----------------------------------------------------------------------------
(* What the docstring, coordination.py:216-219, lets an agent expect.      *)

Reserved(t, owner) == t.assigned \notin {owner, NoAgent}

(* No open task an agent could take is hidden while the answer has room,   *)
(* and none is pushed out by a task that serves the agent less: assigned   *)
(* to it, then matching its capabilities, then unspecific, then the rest;  *)
(* within a class the oldest first.                                        *)
Class(t, owner, caps) ==
  IF t.assigned = owner THEN 0
  ELSE IF t.needs \cap caps # {} THEN 1
  ELSE IF t.needs = {} THEN 2 ELSE 3

FirstComeInClass ==
  \A owner \in Agents, caps \in SUBSET Caps :
    \A i \in DOMAIN tasks :
      /\ tasks[i].status = "open"
      /\ ~ Reserved(tasks[i], owner)
      /\ i \notin Recommended(owner, caps)
      => /\ Cardinality(Recommended(owner, caps)) = Shown
         /\ \A j \in Recommended(owner, caps) :
              LET ci == Class(tasks[i], owner, caps)
                  cj == Class(tasks[j], owner, caps)
              IN  cj < ci \/ (cj = ci /\ j < i)
=============================================================================
