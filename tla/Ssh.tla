-------------------------------- MODULE Ssh --------------------------------
(***************************************************************************)
(* app/ssh_tools.py: ssh_run.  It waits for the command's exit status      *)
(* first and reads the output then.  What the command has written and no   *)
(* one has read fills the channel's window, and a command that finds it    *)
(* full waits.  The connection can break at any time, noticed (the other   *)
(* end closes or resets it) or not (the host is gone, a NAT entry expired):*)
(* no keepalive is set, and the wait for the status has no time limit.     *)
(***************************************************************************)
EXTENDS Integers

CONSTANTS
  Window,       \* chunks the channel holds unread
  MaxOutput     \* bound on the chunks a command writes

VARIABLES
  at,           \* where the call is
  link,         \* the connection; "lost": it is dead and nobody has noticed
  size,         \* chunks the command writes in all
  written,      \* so far
  status,       \* exit status: the command's, "-1" for want of one
  told          \* the answer

vars == <<at, link, size, written, status, told>>

(* What the constants stand for.                                           *)
ConstantsOK == MaxOutput \in Nat

TypeOK ==
  /\ at \in {"idle", "connect", "wait", "read"}
  /\ link \in {"down", "up", "lost"}
  /\ size \in 0 .. MaxOutput /\ written \in 0 .. size
  /\ status \in {"none", "0", "-1"}
  /\ told \in {"nothing", "error", "0", "-1"}

Init ==
  /\ at = "idle" /\ link = "down"
  /\ size = 0 /\ written = 0 /\ status = "none"
  /\ told = "nothing"

Answer(what) == at' = "idle" /\ told' = what

-----------------------------------------------------------------------------
SshRun(n) ==
  /\ at = "idle"
  /\ at' = "connect" /\ size' = n /\ written' = 0 /\ status' = "none"
  /\ UNCHANGED <<link, told>>

(* _connect: blocked, no secret, no usable key, refused.                   *)
ConnectFailed ==
  /\ at = "connect"
  /\ Answer("error")
  /\ UNCHANGED <<link, size, written, status>>

Connect ==
  /\ at = "connect"
  /\ at' = "wait" /\ link' = "up"
  /\ UNCHANGED <<size, written, status, told>>

HasStatus == status # "none"

(* recv_exit_status: it ends with the status or a break that is noticed.   *)
HasExited == status # "none" \/ link = "down"

WaitForExit ==
  /\ at = "wait" /\ HasExited
  /\ at' = "read"
  /\ status' = IF status = "none" THEN "-1" ELSE status
  /\ UNCHANGED <<link, size, written, told>>

Read ==
  /\ at = "read"
  /\ Answer(status)
  /\ link' = "down"
  /\ UNCHANGED <<size, written, status>>

(* An exception in exec_command or in a read, which has the time limit.    *)
Failed ==
  /\ at \in {"wait", "read"} /\ (at = "wait" => written = 0 /\ status = "none")
  /\ Answer("error")
  /\ link' = "down"
  /\ UNCHANGED <<size, written, status>>

-----------------------------------------------------------------------------
(* The command.  Nothing is read while it runs.                            *)
Write ==
  /\ at = "wait" /\ link = "up" /\ written < size /\ written < Window
  /\ written' = written + 1
  /\ UNCHANGED <<at, link, size, status, told>>

Exit ==
  /\ at = "wait" /\ link = "up" /\ status = "none" /\ written = size
  /\ status' = "0"
  /\ UNCHANGED <<at, link, size, written, told>>

Break ==
  /\ link # "down"
  /\ link' \in {"down", "lost"} \ {link}
  /\ UNCHANGED <<at, size, written, status, told>>

Call == ConnectFailed \/ Connect \/ WaitForExit \/ Read \/ Failed
Command == Write \/ Exit

Next == (\E n \in 0 .. MaxOutput : SshRun(n)) \/ Call \/ Command \/ Break

(* The call goes on where it can, and so does a command that is not made   *)
(* to wait: it ends by itself.  Connections need not break.                *)
Fairness == WF_vars(WaitForExit) /\ WF_vars(Read) /\ WF_vars(Command)

Spec == Init /\ [][Next]_vars /\ Fairness

-----------------------------------------------------------------------------
(* A command whose output fits the window, or whose connection breaks so   *)
(* that it is noticed, is answered, unless the connection is lost without  *)
(* notice.  One that writes more is not, whatever timeout was passed.      *)
Answerable == at = "wait" /\ link # "lost" /\ (size <= Window \/ link = "down")
AnsweredIfItFits == Answerable ~> (at = "idle" \/ link = "lost")

(* The types are inductive with this: a call that reads knows a status.    *)
IInv == TypeOK /\ (at = "read" => status # "none")
=============================================================================
