------------------------------ MODULE Scanning ------------------------------
(***************************************************************************)
(* app/scan_tools.py: scan_document.  A scan job is started over the first *)
(* transport that takes it, its first page fetched in at most Polls tries, *)
(* saved, and then perhaps handed to Paperless.  The scanner, Paperless    *)
(* and the egress guard may fail any request; an answer can be lost after  *)
(* the device has acted.                                                   *)
(***************************************************************************)
EXTENDS Integers, Sequences

CONSTANT Polls      \* times the page is asked for (3 in the code)

VARIABLES
  at,         \* where the call is
  left,       \* transports not yet tried
  polls,      \* times the page was asked for
  jobs,       \* jobs the scanner started for this call
  unheard,    \* of these, the ones whose place the call was not told
  filed,      \* is the page under /data/work, all of it?
  pushed,     \* copies Paperless took
  told        \* the answer of the last call

vars == <<at, left, polls, jobs, unheard, filed, pushed, told>>

(* What can be left of the transports to try.                              *)
Transports == {<<"https", "http">>, <<"https">>, <<"http">>, <<>>}

(* What the constants stand for.                                           *)
ConstantsOK == Polls \in Nat

TypeOK ==
  /\ at \in {"idle", "start", "fetch", "save", "push"}
  /\ left \in Transports
  /\ polls \in 0 .. Polls
  /\ jobs \in 0 .. 2 /\ unheard \in 0 .. 2
  /\ filed \in BOOLEAN /\ pushed \in 0 .. 1
  /\ told \in {"nothing", "refused", "no_job", "no_page", "error", "scanned", "uploaded"}

Init ==
  /\ at = "idle" /\ left = <<>> /\ polls = 0
  /\ jobs = 0 /\ unheard = 0
  /\ filed = FALSE /\ pushed = 0
  /\ told = "nothing"

-----------------------------------------------------------------------------
(* A transport is pinned by a port together with a scheme; tls alone pins  *)
(* nothing.                                                                *)
Candidates(port, tls) ==
  CASE port /\ tls = "https" -> <<"https">>
    [] port /\ tls = "http"  -> <<"http">>
    [] OTHER                 -> <<"https", "http">>

Answer(what) == at' = "idle" /\ told' = what

(* Unknown scanner, or one the egress guard blocks.                        *)
Refuse ==
  /\ at = "idle"
  /\ Answer("refused")
  /\ UNCHANGED <<left, polls, jobs, unheard, filed, pushed>>

ScanDocument(port, tls) ==
  /\ at = "idle"
  /\ at' = "start" /\ left' = Candidates(port, tls)
  /\ polls' = 0 /\ jobs' = 0 /\ unheard' = 0 /\ filed' = FALSE /\ pushed' = 0
  /\ told' = "nothing"

(* ScanJobs: the device starts the job and says where it is.               *)
StartedGoingOn ==
  /\ at = "start" /\ left # <<>>
  /\ left' = Tail(left) /\ jobs' = jobs + 1
  /\ at' = IF left' = <<>> THEN "fetch" ELSE "start"
  /\ UNCHANGED <<polls, unheard, filed, pushed, told>>

Started ==
  /\ at = "start" /\ left # <<>>
  /\ left' = Tail(left) /\ jobs' = jobs + 1
  /\ at' = "fetch"
  /\ UNCHANGED <<polls, unheard, filed, pushed, told>>

(* No answer, no Location in it, or an error: the next transport.          *)
NotStarted(acted) ==
  /\ at = "start" /\ left # <<>>
  /\ left' = Tail(left)
  /\ jobs' = jobs + acted /\ unheard' = unheard + acted
  /\ UNCHANGED <<at, polls, filed, pushed, told>>

NoTransportLeft ==
  /\ at = "start" /\ left = <<>>
  /\ Answer("no_job")
  /\ UNCHANGED <<left, polls, jobs, unheard, filed, pushed>>

(* NextDocument: the page; an exception or 404; or nothing yet.            *)
Page ==
  /\ at = "fetch" /\ polls < Polls
  /\ polls' = polls + 1 /\ at' = "save"
  /\ UNCHANGED <<left, jobs, unheard, filed, pushed, told>>

NoPage ==
  /\ at = "fetch"
  /\ Answer("no_page")
  /\ UNCHANGED <<left, polls, jobs, unheard, filed, pushed>>

TryRound == (polls + 1) % Polls
NextTry == polls + 1

WarmingUp ==
  /\ at = "fetch" /\ polls < Polls
  /\ polls' = NextTry
  /\ UNCHANGED <<at, left, jobs, unheard, filed, pushed, told>>

Save(push) ==
  /\ at = "save"
  /\ filed' = TRUE
  /\ IF push THEN at' = "push" /\ UNCHANGED told ELSE Answer("scanned")
  /\ UNCHANGED <<left, polls, jobs, unheard, pushed>>

(* mkdir or write_bytes raises (disk full, a bad name), and the call with  *)
(* it; part of the page may be left under the name.                        *)
SaveFailed ==
  /\ at = "save"
  /\ Answer("error")
  /\ UNCHANGED <<left, polls, jobs, unheard, filed, pushed>>

(* No service or secret for Paperless, blocked, an error, or no answer to  *)
(* an upload it may have taken: the scan is reported all the same.         *)
NotPushed(took) ==
  /\ at = "push"
  /\ pushed' = took /\ Answer("scanned")
  /\ UNCHANGED <<left, polls, jobs, unheard, filed>>

Push ==
  /\ at = "push"
  /\ pushed' = 1 /\ Answer("uploaded")
  /\ UNCHANGED <<left, polls, jobs, unheard, filed>>

Step ==
  \/ Started \/ NoTransportLeft \/ Page \/ NoPage \/ WarmingUp \/ SaveFailed \/ Push
  \/ \E b \in {0, 1} : NotStarted(b) \/ NotPushed(b)
  \/ \E push \in BOOLEAN : Save(push)

Next ==
  \/ Refuse
  \/ \E port \in BOOLEAN, tls \in {"auto", "https", "http"} : ScanDocument(port, tls)
  \/ Step

(* Every request has a time limit (httpx: for each read, so a device that  *)
(* sends its answer byte by byte is taken not to go on for ever), and a    *)
(* call goes on.                                                           *)
Fairness == WF_vars(Step)

Spec == Init /\ [][Next]_vars /\ Fairness

-----------------------------------------------------------------------------
(* The answer is "Scanned" exactly if all of the page is under /data/work, *)
(* be Paperless there or not, and "Uploaded" only if Paperless took it.  The  *)
(* page goes through the scanner once: a second job is started only when   *)
(* the place of the first was never heard.                                 *)
AnswerIsTrue ==
  /\ jobs <= unheard + 1
  /\ at = "idle" =>
       /\ filed /\ told # "refused" => told \in {"scanned", "uploaded"}
       /\ told \in {"scanned", "uploaded"} => filed
       /\ told = "uploaded" => pushed = 1

(* However long the device keeps answering that nothing is there yet, the  *)
(* call ends.                                                              *)
Busy == at # "idle"
ScanEnds == Busy ~> ~ Busy

(* The answer is inductive together with this: while transports are tried, *)
(* no job is one the call knows of, and each is tried once.                *)
Heard ==
  at = "start" =>
    /\ jobs = unheard
    /\ left # <<>> => jobs <= 1
    /\ left = <<"https", "http">> => jobs = 0

FiledInTime ==
  /\ at \in {"start", "fetch", "save"} => ~ filed
  /\ at = "push" => filed

IInv == TypeOK /\ Heard /\ FiledInTime /\ AnswerIsTrue
=============================================================================
