------------------------------ MODULE Printing ------------------------------
(***************************************************************************)
(* app/print_tools.py: print_document and the printer.  One job is sent up *)
(* to three times: over TLS once the printer asks for it, and as a plain   *)
(* octet-stream when it does not know the format.  What the printer        *)
(* demands is fixed for a call; an answer, or a request, can be lost.      *)
(***************************************************************************)
EXTENDS Integers

CONSTANTS
  Formats,      \* document formats a caller names
  Octet         \* application/octet-stream, which every printer may know

VARIABLES
  printer,      \* what it demands, and the jobs it took during the call
  job,          \* the call: where it is and the request under way
  answer        \* the printer's, or that there is none

vars == <<printer, job, answer>>

AllFormats == Formats \cup {Octet}

NoJob == [at |-> "idle", told |-> "nothing"]
Job == [at : {"first", "upgraded", "octet"}, tls : BOOLEAN, format : AllFormats]

Printer == [tls : BOOLEAN, knows : SUBSET AllFormats, printed : 0 .. 3, faulty : BOOLEAN]

(* HTTP status and IPP status; "lost" is an exception in the client.       *)
Answers == {"none", "lost", "426", "0x040A", "other", "ok"}

TypeOK ==
  /\ printer \in Printer
  /\ job \in Job \cup [at : {"idle"}, told : {"nothing", "refused", "failed", "not_accepted", "sent"}]
  /\ answer \in Answers

Init ==
  /\ printer = [tls |-> FALSE, knows |-> {}, printed |-> 0, faulty |-> FALSE]
  /\ job = NoJob
  /\ answer = "none"

Told(what) == job' = [at |-> "idle", told |-> what] /\ answer' = "none"

(* An unregistered printer, one the egress guard blocks, a document that   *)
(* is missing, empty, too large or outside /data.                          *)
Refuse ==
  /\ job.at = "idle"
  /\ Told("refused")
  /\ UNCHANGED printer

PrintDocument(format, tls, knows) ==
  /\ job.at = "idle"
  /\ printer' = [tls |-> tls, knows |-> knows, printed |-> 0, faulty |-> FALSE]
  /\ job' = [at |-> "first", tls |-> FALSE, format |-> format]
  /\ answer' = "none"

(* The printer takes the request, and its answer arrives or does not.      *)
Handle(lost) ==
  LET verdict == IF printer.tls /\ ~ job.tls THEN "426"
                 ELSE IF job.format \notin printer.knows THEN "0x040A" ELSE "ok"
  IN
  /\ job.at # "idle" /\ answer = "none"
  /\ answer' = IF lost THEN "lost" ELSE verdict
  /\ printer' = [printer EXCEPT !.printed = IF verdict = "ok" THEN @ + 1 ELSE @,
                                !.faulty = @ \/ lost]
  /\ UNCHANGED job

(* It is off, the guard stops the connection, it is busy, not IPP, ...     *)
Fault(kind) ==
  /\ job.at # "idle" /\ answer = "none"
  /\ answer' = kind
  /\ printer' = [printer EXCEPT !.faulty = TRUE]
  /\ UNCHANGED job

Upgrade ==
  /\ job.at = "first" /\ answer = "426"
  /\ job' = [job EXCEPT !.at = "upgraded", !.tls = TRUE]
  /\ answer' = "none"
  /\ UNCHANGED printer

Plainly(j) == [j EXCEPT !.at = "octet", !.tls = FALSE, !.format = Octet]
Again(j) == [j EXCEPT !.at = "octet", !.format = Octet]

AsOctets ==
  /\ job.at \in {"first", "upgraded"} /\ answer = "0x040A" /\ job.format # Octet
  /\ job' = Again(job)
  /\ answer' = "none"
  /\ UNCHANGED printer

Fail ==
  /\ answer = "lost"
  /\ Told("failed")
  /\ UNCHANGED printer

Answered == answer # "426"
Accepted == answer = "ok"

Finish ==
  /\ answer \in {"ok", "other", "426", "0x040A"}
  /\ answer = "426" => job.at # "first"
  /\ answer = "0x040A" => job.at = "octet" \/ job.format = Octet
  /\ Told(IF Accepted THEN "sent" ELSE "not_accepted")
  /\ UNCHANGED printer

Next ==
  \/ Refuse
  \/ \E f \in AllFormats, tls \in BOOLEAN, knows \in SUBSET AllFormats : PrintDocument(f, tls, knows)
  \/ \E lost \in BOOLEAN : Handle(lost)
  \/ \E kind \in {"lost", "other"} : Fault(kind)
  \/ Upgrade \/ AsOctets \/ Fail \/ Finish

Spec == Init /\ [][Next]_vars

-----------------------------------------------------------------------------
(* Whatever is lost on the way, one call prints at most one copy, and it   *)
(* answers "Sent" only if it printed.                                      *)
PrintedOnce ==
  /\ printer.printed <= 1
  /\ job.at = "idle" /\ job.told = "sent" => printer.printed = 1

(* print_tools.py:220-222 "printing "just works" without the caller        *)
(* picking a format": a printer that works and knows octet-streams prints  *)
(* any document, TLS or not.                                               *)
JustWorks ==
  job.at = "idle" /\ job.told = "not_accepted" => printer.faulty \/ Octet \notin printer.knows

-----------------------------------------------------------------------------
(* Both are inductive together with this: nothing was printed before the   *)
(* answer is there, and what the printer asked for so far has been done.   *)
NotYetPrinted ==
  /\ job.at # "idle" /\ answer \in {"none", "426", "0x040A", "other"} => printer.printed = 0
  /\ answer = "ok" => printer.printed = 1

AnswersFit ==
  /\ job.at = "idle" => answer = "none"
  /\ answer = "other" => printer.faulty
  /\ answer = "426" => printer.tls /\ ~ job.tls
  /\ answer = "0x040A" => job.format \notin printer.knows /\ (printer.tls => job.tls)

DoneAsAsked ==
  /\ job.at = "upgraded" => job.tls
  /\ job.at = "octet" => job.format = Octet /\ (printer.tls => job.tls)

IInv == TypeOK /\ NotYetPrinted /\ AnswersFit /\ DoneAsAsked /\ PrintedOnce /\ JustWorks
=============================================================================
