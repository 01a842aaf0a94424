-------------------------------- MODULE Cron --------------------------------
(***************************************************************************)
(* app/cron.py and runner/: jobs kept as data in jobs.json, and the loop   *)
(* that asks cron_due which of them to run, runs each, stamps it with      *)
(* cron_mark_run and sleeps.  Users add, update and delete jobs meanwhile. *)
(* A tool call is one step here: what can come between its read and its    *)
(* write is in Coordination, whose files are handled the same way.         *)
(*                                                                         *)
(* Time is counted in units, Grain of them to a minute.  A tool call takes *)
(* none; the agent takes up to MaxStart from the end of the sleep until it *)
(* asks, and up to MaxRun to run the jobs.  Which minutes an expression *)
(* stands for is in CronMatch; here a schedule is that set of minutes.     *)
(***************************************************************************)
EXTENDS Integers

CONSTANTS
  Runners,          \* runner loops
  Jobs,             \* job ids: slugs of names
  Schedules,        \* sets of minutes
  Grain,            \* units per minute
  Horizon,          \* bound: time stops after this many minutes
  Interval,         \* RUNNER_INTERVAL: units a runner sleeps
  MaxStart,         \* units until the agent has started, connected, listed the
                    \* tools, and its model asks for cron_due
  MaxRun,           \* units one batch of jobs may take
  NoJob, Never      \* no such job; last_run = ""

VARIABLES
  clock,
  jobs,      \* jobs.json
  runner,    \* what each runner is doing
  ran,       \* how often each job was run for each minute since it was added
  since,     \* the first minute a job is owed for
  spoiled    \* minutes in which a run failed, or that began during a run

vars == <<clock, jobs, runner, ran, since, spoiled>>

Minutes == 0 .. Horizon
Now == clock \div Grain

Job == [due : Schedules, enabled : BOOLEAN, last_run : Minutes \cup {Never}]

(* What the constants stand for.                                           *)
ASSUME ConstantsAssumption ==
  /\ Grain \in Nat \ {0} /\ {Horizon, Interval, MaxStart, MaxRun} \subseteq Nat
  /\ Schedules \subseteq SUBSET Minutes
  /\ NoJob \notin Jobs \cup Job /\ Never \notin Minutes

(* batch: what cron_due returned, at minute; cur: the job being run; until:*)
(* when the sleep ends, or when the start or the run has to.               *)
Asleep(t) == [at |-> "sleep", until |-> t, batch |-> {}, minute |-> 0, cur |-> NoJob]

TypeOK ==
  /\ clock \in 0 .. (Grain * Horizon)
  /\ jobs \in [Jobs -> Job \cup {NoJob}]
  /\ runner \in [Runners -> [at : {"sleep", "start", "work"}, until : Nat, batch : SUBSET Jobs,
                             minute : Minutes, cur : Jobs \cup {NoJob}]]
  /\ ran \in [Jobs -> [Minutes -> Nat]]
  /\ since \in [Jobs -> Nat]
  /\ spoiled \in SUBSET Minutes

Unrun == [m \in Minutes |-> 0]

Init ==
  /\ clock = 0
  /\ jobs = [j \in Jobs |-> NoJob]
  /\ runner \in [Runners -> {Asleep(t) : t \in 0 .. Interval}]
  /\ ran = [j \in Jobs |-> Unrun]
  /\ since = [j \in Jobs |-> 0]
  /\ spoiled = {}

-----------------------------------------------------------------------------
(* The users' tools.                                                       *)

(* Runs are counted from the last time the job was added or deleted,       *)
(* unless a runner was just carrying it out.                               *)
Running(j) == \E r \in Runners : runner[r].cur = j
Recount(j) == ran' = IF Running(j) THEN ran ELSE [ran EXCEPT ![j] = Unrun]

AddedStamped(due, enabled) == [due |-> due, enabled |-> enabled, last_run |-> Now]

(* An update is a new job under the old id: last_run is "" again.          *)
Added(due, enabled) == [due |-> due, enabled |-> enabled, last_run |-> Never]

CronAdd(j, due, enabled) ==
  /\ jobs' = [jobs EXCEPT ![j] = Added(due, enabled)]
  /\ since' = [since EXCEPT ![j] = Now + 1]
  /\ Recount(j)
  /\ UNCHANGED <<clock, runner, spoiled>>

CronDelete(j) ==
  /\ jobs[j] # NoJob
  /\ jobs' = [jobs EXCEPT ![j] = NoJob]
  /\ since' = [since EXCEPT ![j] = 0]
  /\ Recount(j)
  /\ UNCHANGED <<clock, runner, spoiled>>

-----------------------------------------------------------------------------
(* The runner.                                                             *)

DueFirst(job) == job # NoJob /\ job.enabled /\ job.last_run = Never /\ Now \in job.due

Due(job) == job # NoJob /\ job.enabled /\ job.last_run # Now /\ Now \in job.due

(* The sleep is over: loop.sh runs the agent again.                        *)
Start(r) ==
  /\ runner[r].at = "sleep"
  /\ clock >= runner[r].until
  /\ runner' = [runner EXCEPT ![r].at = "start", ![r].until = clock + MaxStart]
  /\ UNCHANGED <<clock, jobs, ran, since, spoiled>>

(* The agent does not come to ask: no connection, no model.                *)
StartFails(r) ==
  /\ runner[r].at = "start"
  /\ runner' = [runner EXCEPT ![r] = Asleep(clock + Interval)]
  /\ spoiled' = spoiled \cup {Now}
  /\ UNCHANGED <<clock, jobs, ran, since>>

CronDue(r) ==
  /\ runner[r].at = "start"
  /\ runner' = [runner EXCEPT ![r] =
       [at |-> "work", until |-> clock + MaxRun, minute |-> Now, cur |-> NoJob,
        batch |-> {j \in Jobs : Due(jobs[j])}]]
  /\ UNCHANGED <<clock, jobs, ran, since, spoiled>>

Working(r) == runner[r].at = "work"

(* The prompt of one job is carried out, wholly before it is stamped.      *)
Run(r, j) ==
  /\ Working(r)
  /\ runner[r].cur = NoJob
  /\ j \in runner[r].batch
  /\ runner' = [runner EXCEPT ![r].cur = j, ![r].batch = @ \ {j}]
  /\ ran' = [ran EXCEPT ![j][runner[r].minute] = @ + 1]
  /\ UNCHANGED <<clock, jobs, since, spoiled>>

StampedClock(job) == [job EXCEPT !.last_run = clock]
Unstamped(job) == job

(* The stamp is the minute at the end of the run.                          *)
Stamped(job) == [job EXCEPT !.last_run = Now]

CronMarkRun(r) ==
  LET j == runner[r].cur IN
  /\ Working(r)
  /\ j # NoJob
  /\ runner' = [runner EXCEPT ![r].cur = NoJob]
  /\ jobs' = IF jobs[j] = NoJob THEN jobs ELSE [jobs EXCEPT ![j] = Stamped(@)]
  /\ UNCHANGED <<clock, ran, since, spoiled>>

Sleep(r) ==
  /\ Working(r)
  /\ runner[r].cur = NoJob /\ runner[r].batch = {}
  /\ runner' = [runner EXCEPT ![r] = Asleep(clock + Interval)]
  /\ UNCHANGED <<clock, jobs, ran, since, spoiled>>

(* The run fails; the loop sleeps and goes on.                             *)
RunFails(r) ==
  /\ Working(r)
  /\ runner' = [runner EXCEPT ![r] = Asleep(clock + Interval)]
  /\ spoiled' = spoiled \cup {runner[r].minute, Now}
  /\ UNCHANGED <<clock, jobs, ran, since>>

(* Time passes, but no sleep, start or run is longer than it may be.       *)
Advance ==
  /\ clock < Grain * Horizon
  /\ \A r \in Runners : clock < runner[r].until
  /\ clock' = clock + 1
  /\ spoiled' = IF \E r \in Runners : Working(r) THEN spoiled \cup ({Now'} \ {Now}) ELSE spoiled
  /\ UNCHANGED <<jobs, runner, ran, since>>

-----------------------------------------------------------------------------
Edit(j) == CronDelete(j) \/ \E due \in Schedules, on \in BOOLEAN : CronAdd(j, due, on)

Loop(r) ==
  \/ Start(r) \/ StartFails(r) \/ CronDue(r) \/ CronMarkRun(r) \/ Sleep(r) \/ RunFails(r)
  \/ \E j \in Jobs : Run(r, j)

Next ==
  \/ \E j \in Jobs : Edit(j)
  \/ \E r \in Runners : Loop(r)
  \/ Advance

Spec == Init /\ [][Next]_vars

-----------------------------------------------------------------------------
(* cron.py:144-145 "mark a job as run this minute (prevents double         *)
(* execution)": unless a run failed in that minute, no job is run twice    *)
(* for it, however often the runner asks and however long a run takes.     *)
RunOnce == \A j \in Jobs, m \in Minutes \ spoiled : ran[j][m] <= 1

(* cron.py:132-133 "enabled jobs due THIS minute that haven't run yet" and *)
(* loop.sh:2-4 "this just needs to tick often enough (default every 60s)": *)
(* once a minute is over, every enabled job stored before it and due in it *)
(* was run for it, or is about to be, unless a run or a start failed in    *)
(* that minute or a run went on into it.  It takes a runner whose sleep    *)
(* and start together are a minute at most.  The default sleeps a whole    *)
(* minute and starts after it, and does not keep it.                       *)
Pending(j, m) == \E r \in Runners : runner[r].minute = m /\ j \in runner[r].batch

NotMissed ==
  \A j \in Jobs : jobs[j] # NoJob /\ jobs[j].enabled =>
    \A m \in jobs[j].due \ spoiled :
      since[j] <= m /\ m < Now => ran[j][m] > 0 \/ Pending(j, m)

(* What withholds a job from cron_due, the stamp of the minute, is there   *)
(* only if the job was run for that minute, unless a run went on into it.  *)
StampIsRun ==
  \A j \in Jobs : jobs[j] # NoJob /\ jobs[j].last_run \notin spoiled \cup {Never} =>
    ran[j][jobs[j].last_run] > 0
=============================================================================
