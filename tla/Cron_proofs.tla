----------------------------- MODULE Cron_proofs -----------------------------
(***************************************************************************)
(* Proofs about Cron, for any jobs, minutes, runs and intervals.           *)
(*                                                                         *)
(* A run that goes on into a minute spoils it, so in a minute that is not  *)
(* spoiled a runner at work has asked in that minute, and what it stamps   *)
(* is the minute it ran the job for.                                       *)
(***************************************************************************)
EXTENDS Cron, TLAPS

(* No job was run for a minute to come.                                    *)
Past == \A j \in Jobs, m \in Minutes : ran[j][m] > 0 => m <= Now

(* Where a runner is in its loop.                                          *)
AtWork(r) ==
  /\ runner[r].minute <= Now
  /\ runner[r].minute < Now => Now \in spoiled
  /\ runner[r].cur # NoJob => ran[runner[r].cur][runner[r].minute] > 0

AtRest(r) == clock <= runner[r].until /\ runner[r].batch = {} /\ runner[r].cur = NoJob

RunnerInv(r) == IF Working(r) THEN AtWork(r) ELSE AtRest(r)

IInv == TypeOK /\ Past /\ (\A r \in Runners : RunnerInv(r)) /\ StampIsRun

(* With one runner, what is still to be run was not run before, and what   *)
(* was run in this minute is stamped, about to be, or gone.                *)
OneRunner == \A r, s \in Runners : r = s

Fresh ==
  \A r \in Runners : runner[r].minute \notin spoiled =>
    \A j \in runner[r].batch : ran[j][runner[r].minute] = 0

Settled(j) == Running(j) \/ jobs[j] = NoJob \/ jobs[j].last_run = Now

OnceInv ==
  /\ RunOnce
  /\ Fresh
  /\ Now \notin spoiled => \A j \in Jobs : ran[j][Now] > 0 => Settled(j)

(* With a sleep and a start of a minute at most together, a runner that is *)
(* not at work will ask by the next minute; and in this one, as long as a  *)
(* job is owed for it.                                                     *)
Owed(j) ==
  /\ jobs[j] # NoJob /\ jobs[j].enabled
  /\ Now \in jobs[j].due \ spoiled
  /\ since[j] <= Now
  /\ ran[j][Now] = 0 /\ ~ Pending(j, Now)

LatestAsk(r) == runner[r].until + (IF runner[r].at = "sleep" THEN MaxStart ELSE 0)

Awake(r) == ~ Working(r) => LatestAsk(r) \div Grain <= Now + 1
AsksNow(r) == ~ Working(r) /\ LatestAsk(r) \div Grain <= Now

MetInv ==
  /\ NotMissed
  /\ \A r \in Runners : Awake(r)
  /\ \A j \in Jobs : Owed(j) => \A r \in Runners : AsksNow(r)

-----------------------------------------------------------------------------
(* Minutes.                                                                *)
LEMMA MinuteOf ==
  ASSUME NEW t \in Nat
  PROVE  /\ t \div Grain \in Nat
         /\ (t + 1) \div Grain \in {t \div Grain, (t \div Grain) + 1}
         /\ t <= Grain * Horizon => t \div Grain \in Minutes
BY ConstantsAssumption DEF Minutes

LEMMA Monotone ==
  ASSUME NEW s \in Nat, NEW t \in Nat, s <= t
  PROVE  s \div Grain <= t \div Grain
BY ConstantsAssumption

LEMMA WithinAMinute ==
  ASSUME Interval + MaxStart <= Grain, NEW t \in Nat
  PROVE  (t + Interval + MaxStart) \div Grain <= (t \div Grain) + 1
<1>1. (t + Grain) \div Grain = (t \div Grain) + 1
  BY ConstantsAssumption
<1>2. t + Interval + MaxStart \in Nat /\ t + Grain \in Nat /\ t + Interval + MaxStart <= t + Grain
  BY ConstantsAssumption
<1>3. (t + Interval + MaxStart) \div Grain <= (t + Grain) \div Grain
  BY <1>2, Monotone
<1> QED
  BY <1>1, <1>3

LEMMA NowType == ASSUME TypeOK PROVE Now \in Minutes /\ Now \in Nat
BY MinuteOf, ConstantsAssumption DEF TypeOK, Now

-----------------------------------------------------------------------------
LEMMA InitInv == Init => IInv
<1> SUFFICES ASSUME Init PROVE IInv
  OBVIOUS
<1> USE ConstantsAssumption DEF Init
<1>1. 0 \in Minutes
  BY DEF Minutes
<1>2. \A r \in Runners : \E t \in 0 .. Interval : runner[r] = Asleep(t)
  OBVIOUS
<1>3. runner \in [Runners -> [at : {"sleep", "start", "work"}, until : Nat, batch : SUBSET Jobs,
                              minute : Minutes, cur : Jobs \cup {NoJob}]]
  <2>1. \A t \in 0 .. Interval : Asleep(t) \in [at : {"sleep", "start", "work"}, until : Nat,
                                   batch : SUBSET Jobs, minute : Minutes, cur : Jobs \cup {NoJob}]
    BY <1>1 DEF Asleep
  <2> QED
    BY <1>2, <2>1
<1>4. TypeOK
  BY <1>1, <1>3 DEF TypeOK, Unrun
<1>5. Past
  BY DEF Past, Unrun
<1>6. \A r \in Runners : RunnerInv(r)
  <2> SUFFICES ASSUME NEW r \in Runners PROVE RunnerInv(r)
    OBVIOUS
  <2>1. PICK t \in 0 .. Interval : runner[r] = Asleep(t)
    BY <1>2
  <2> QED
    BY <2>1 DEF RunnerInv, Working, AtRest, Asleep
<1>7. StampIsRun
  BY DEF StampIsRun
<1> QED
  BY <1>4, <1>5, <1>6, <1>7 DEF IInv

(* The users' tools leave the runners alone, and count the runs of a job   *)
(* anew only when it is not being run.                                     *)
LEMMA EditStep ==
  ASSUME IInv, NEW j \in Jobs, Edit(j)
  PROVE  IInv'
<1>1. PICK job \in Job \cup {NoJob}, first \in Nat :
        /\ jobs' = [jobs EXCEPT ![j] = job]
        /\ since' = [since EXCEPT ![j] = first]
        /\ job # NoJob => job.last_run = Never
        /\ Recount(j)
        /\ UNCHANGED <<clock, runner, spoiled>>
  <2>1. CASE CronDelete(j)
    BY <2>1 DEF CronDelete
  <2>2. ASSUME NEW due \in Schedules, NEW on \in BOOLEAN, CronAdd(j, due, on)
        PROVE  /\ Added(due, on) \in Job /\ Added(due, on).last_run = Never
               /\ Now + 1 \in Nat
    BY <2>2, NowType DEF Added, Job, IInv
  <2> QED
    BY <2>1, <2>2 DEF Edit, CronAdd
<1>2. Now' = Now /\ Now \in Minutes
  BY <1>1, NowType DEF Now, IInv
<1>3. ran' \in [Jobs -> [Minutes -> Nat]]
  BY <1>1 DEF Recount, Unrun, IInv, TypeOK
<1>4. TypeOK'
  BY <1>1, <1>3 DEF IInv, TypeOK
<1>5. Past'
  BY <1>1, <1>2 DEF IInv, Past, TypeOK, Recount, Unrun
<1>6. \A r \in Runners : RunnerInv(r)'
  <2> SUFFICES ASSUME NEW r \in Runners PROVE RunnerInv(r)'
    OBVIOUS
  <2>1. runner[r].cur # NoJob => ran'[runner[r].cur] = ran[runner[r].cur]
    BY <1>1, ConstantsAssumption DEF IInv, TypeOK, Recount, Running
  <2> QED
    BY <1>1, <1>2, <2>1 DEF IInv, RunnerInv, Working, AtWork, AtRest
<1>7. StampIsRun'
  BY <1>1, ConstantsAssumption DEF IInv, TypeOK, StampIsRun, Recount
<1> QED
  BY <1>4, <1>5, <1>6, <1>7 DEF IInv

(* The steps up to the ask leave clock, jobs and the record of runs alone, *)
(* and the runner has nothing to run.                                      *)
Turn == [at : {"sleep", "start", "work"}, until : Nat, batch : SUBSET Jobs,
         minute : Minutes, cur : Jobs \cup {NoJob}]

Starts(r, next) ==
  runner[r].at = "sleep" /\ next.at = "start" /\ runner[r].until = clock /\ next.until = clock + MaxStart

FailsToStart(r, next) ==
  runner[r].at = "start" /\ next.at = "sleep" /\ next.until = clock + Interval /\ Now \in spoiled'

Starting(r) ==
  /\ runner[r].batch = {} /\ runner[r].cur = NoJob
  /\ \E next \in Turn :
       /\ runner' = [runner EXCEPT ![r] = next]
       /\ next.batch = {} /\ next.cur = NoJob
       /\ Starts(r, next) \/ FailsToStart(r, next)
  /\ spoiled \subseteq spoiled' /\ spoiled' \subseteq spoiled \cup {Now}
  /\ UNCHANGED <<clock, jobs, ran, since>>

LEMMA TurnType == ASSUME TypeOK, NEW r \in Runners PROVE runner[r] \in Turn
BY DEF TypeOK, Turn

LEMMA StartEffect ==
  ASSUME IInv, NEW r \in Runners, Start(r) \/ StartFails(r)
  PROVE  Starting(r)
<1>0. runner[r] \in Turn /\ Now \in Minutes /\ 0 \in Minutes
  BY TurnType, NowType, ConstantsAssumption DEF IInv, Minutes
<1>1. clock \in Nat /\ clock + Interval \in Nat /\ clock + MaxStart \in Nat
  BY ConstantsAssumption DEF IInv, TypeOK
<1>2. ~ Working(r) /\ clock <= runner[r].until /\ runner[r].batch = {} /\ runner[r].cur = NoJob
  BY DEF Start, StartFails, Working, IInv, RunnerInv, AtRest
<1>3. CASE Start(r)
  <2> DEFINE next == [runner[r] EXCEPT !.at = "start", !.until = clock + MaxStart]
  <2>1. runner' = [runner EXCEPT ![r] = next] /\ runner \in [Runners -> Turn]
    BY <1>3 DEF Start, IInv, TypeOK, Turn
  <2>2. next \in Turn /\ next.at = "start" /\ next.until = clock + MaxStart /\ next.batch = {} /\ next.cur = NoJob
    BY <1>0, <1>1, <1>2 DEF Turn
  <2>3. runner[r].at = "sleep" /\ runner[r].until = clock
    BY <1>0, <1>1, <1>2, <1>3 DEF Start, Turn
  <2> QED
    BY <1>2, <1>3, <2>1, <2>2, <2>3 DEF Start, Starting, Starts
<1>4. CASE StartFails(r)
  <2> DEFINE next == Asleep(clock + Interval)
  <2>1. next \in Turn /\ next.at = "sleep" /\ next.until = clock + Interval /\ next.batch = {} /\ next.cur = NoJob
    BY <1>0, <1>1 DEF Asleep, Turn
  <2> QED
    BY <1>2, <1>4, <2>1 DEF StartFails, Starting, FailsToStart
<1> QED
  BY <1>3, <1>4

LEMMA StartStep ==
  ASSUME IInv, NEW r \in Runners, Start(r) \/ StartFails(r)
  PROVE  IInv'
<1>1. Starting(r)
  BY StartEffect
<1>2. Now' = Now
  BY <1>1 DEF Starting, Now
<1>3. PICK next \in Turn :
        /\ runner' = [runner EXCEPT ![r] = next]
        /\ next.batch = {} /\ next.cur = NoJob
        /\ Starts(r, next) \/ FailsToStart(r, next)
  BY <1>1 DEF Starting
<1>4. next.at # "work" /\ clock <= next.until
  BY <1>3, ConstantsAssumption DEF IInv, TypeOK, Starts, FailsToStart
<1>5. runner' \in [Runners -> Turn] /\ Now \in Minutes
  BY <1>3, NowType DEF IInv, TypeOK, Turn
<1>6. TypeOK'
  BY <1>1, <1>5 DEF Starting, IInv, TypeOK, Turn
<1>7. \A s \in Runners : RunnerInv(s)'
  <2> SUFFICES ASSUME NEW s \in Runners PROVE RunnerInv(s)'
    OBVIOUS
  <2>1. CASE s = r
    BY <1>1, <1>3, <1>4, <2>1 DEF Starting, IInv, TypeOK, RunnerInv, Working, AtRest
  <2>2. CASE s # r
    <3>1. runner'[s] = runner[s]
      BY <1>3, <2>2 DEF IInv, TypeOK
    <3> QED
      BY <1>1, <1>2, <3>1 DEF Starting, IInv, RunnerInv, Working, AtWork, AtRest
  <2> QED
    BY <2>1, <2>2
<1> QED
  BY <1>1, <1>2, <1>6, <1>7 DEF Starting, IInv, Past, StampIsRun

LEMMA DueStep ==
  ASSUME IInv, NEW r \in Runners, CronDue(r)
  PROVE  IInv'
<1> DEFINE batch == {j \in Jobs : Due(jobs[j])}
           next == [at |-> "work", until |-> clock + MaxRun, minute |-> Now, cur |-> NoJob,
                    batch |-> batch]
<1>1. runner' = [runner EXCEPT ![r] = next] /\ UNCHANGED <<clock, jobs, ran, since, spoiled>>
  BY DEF CronDue
<1>2. Now' = Now /\ Now \in Minutes /\ Now \in Nat
  BY <1>1, NowType DEF Now, IInv
<1> HIDE DEF batch
<1>3. TypeOK'
  <2>1. batch \in SUBSET Jobs /\ clock + MaxRun \in Nat
    BY ConstantsAssumption DEF IInv, TypeOK, batch
  <2> QED
    BY <1>1, <1>2, <2>1 DEF IInv, TypeOK
<1>4. \A s \in Runners : RunnerInv(s)'
  <2> SUFFICES ASSUME NEW s \in Runners PROVE RunnerInv(s)'
    OBVIOUS
  <2>1. CASE s = r
    BY <1>1, <1>2, <2>1 DEF IInv, TypeOK, RunnerInv, Working, AtWork
  <2>2. CASE s # r
    BY <1>1, <1>2, <2>2 DEF IInv, TypeOK, RunnerInv, Working, AtWork, AtRest
  <2> QED
    BY <2>1, <2>2
<1> QED
  BY <1>1, <1>2, <1>3, <1>4 DEF IInv, Past, StampIsRun

LEMMA RunStep ==
  ASSUME IInv, NEW r \in Runners, NEW j \in Jobs, Run(r, j)
  PROVE  IInv'
<1> DEFINE m == runner[r].minute
<1>1. /\ Working(r) /\ j \in runner[r].batch
      /\ runner' = [runner EXCEPT ![r].cur = j, ![r].batch = runner[r].batch \ {j}]
      /\ ran' = [ran EXCEPT ![j][m] = ran[j][m] + 1]
      /\ UNCHANGED <<clock, jobs, since, spoiled>>
  BY DEF Run
<1>2. Now' = Now /\ Now \in Nat
  BY <1>1, NowType DEF Now, IInv
<1>3. m \in Minutes /\ m <= Now /\ ran[j][m] \in Nat
  BY <1>1 DEF IInv, TypeOK, RunnerInv, AtWork
<1> HIDE DEF m
<1>4. \A i \in Jobs, k \in Minutes :
        /\ ran'[i][k] \in Nat
        /\ ran'[i][k] = IF i = j /\ k = m THEN ran[j][m] + 1 ELSE ran[i][k]
  BY <1>1, <1>3 DEF IInv, TypeOK
<1>5. TypeOK'
  BY <1>1, <1>3 DEF IInv, TypeOK
<1>6. Past'
  BY <1>2, <1>3, <1>4 DEF IInv, Past
<1>7. \A s \in Runners : RunnerInv(s)'
  <2> SUFFICES ASSUME NEW s \in Runners PROVE RunnerInv(s)'
    OBVIOUS
  <2>1. CASE s = r
    BY <1>1, <1>2, <1>3, <1>4, <2>1 DEF IInv, TypeOK, RunnerInv, Working, AtWork, m
  <2>2. CASE s # r
    <3>1. runner'[s] = runner[s] /\ runner[s].cur \in Jobs \cup {NoJob} /\ runner[s].minute \in Minutes
      BY <1>1, <2>2 DEF IInv, TypeOK
    <3> QED
      <4>1. CASE Working(s)
        <5>1. AtWork(s)
          BY <4>1 DEF IInv, RunnerInv
        <5>2. runner[s].cur # NoJob => ran'[runner[s].cur][runner[s].minute] > 0
          <6> SUFFICES ASSUME runner[s].cur # NoJob
                       PROVE  ran'[runner[s].cur][runner[s].minute] > 0
            OBVIOUS
          <6>1. /\ runner[s].cur \in Jobs
                /\ ran[runner[s].cur][runner[s].minute] \in Nat
                /\ ran[runner[s].cur][runner[s].minute] > 0
            BY <3>1, <5>1 DEF IInv, TypeOK, AtWork
          <6> QED
            BY <1>3, <1>4, <3>1, <6>1
        <5> QED
          BY <1>1, <1>2, <3>1, <4>1, <5>1, <5>2 DEF RunnerInv, Working, AtWork
      <4>2. CASE ~ Working(s)
        <5>1. AtRest(s)
          BY <4>2 DEF IInv, RunnerInv
        <5> QED
          BY <1>1, <3>1, <4>2, <5>1 DEF RunnerInv, Working, AtRest
      <4> QED
        BY <4>1, <4>2
  <2> QED
    BY <2>1, <2>2
<1>8. StampIsRun'
  BY <1>1, <1>4 DEF IInv, TypeOK, StampIsRun, Job
<1> QED
  BY <1>5, <1>6, <1>7, <1>8 DEF IInv

(* In a minute that is not spoiled the stamp is the minute of the batch.   *)
LEMMA MarkStep ==
  ASSUME IInv, NEW r \in Runners, CronMarkRun(r)
  PROVE  IInv'
<1> DEFINE j == runner[r].cur
<1>1. /\ Working(r) /\ j # NoJob
      /\ runner' = [runner EXCEPT ![r].cur = NoJob]
      /\ jobs' = IF jobs[j] = NoJob THEN jobs ELSE [jobs EXCEPT ![j] = Stamped(jobs[j])]
      /\ UNCHANGED <<clock, ran, since, spoiled>>
  BY DEF CronMarkRun
<1>2. Now' = Now /\ Now \in Minutes
  BY <1>1, NowType DEF Now, IInv
<1>3. j \in Jobs /\ (jobs[j] # NoJob => Stamped(jobs[j]) \in Job /\ Stamped(jobs[j]).last_run = Now)
  <2>1. j \in Jobs /\ (jobs[j] # NoJob => jobs[j] \in Job)
    BY <1>1 DEF IInv, TypeOK
  <2> HIDE DEF j
  <2> QED
    BY <1>2, <2>1 DEF Stamped, Job
<1>4. Now \notin spoiled => ran[j][Now] > 0
  BY <1>1, <1>2 DEF IInv, TypeOK, RunnerInv, AtWork, Minutes
<1> HIDE DEF j
<1>5. TypeOK'
  BY <1>1, <1>3 DEF IInv, TypeOK
<1>6. \A s \in Runners : RunnerInv(s)'
  BY <1>1, <1>2 DEF IInv, TypeOK, RunnerInv, Working, AtWork, AtRest
<1>7. StampIsRun'
  BY <1>1, <1>3, <1>4 DEF IInv, TypeOK, StampIsRun
<1> QED
  BY <1>1, <1>2, <1>5, <1>6, <1>7 DEF IInv, Past

LEMMA SleepStep ==
  ASSUME IInv, NEW r \in Runners, Sleep(r) \/ RunFails(r)
  PROVE  IInv'
<1>1. /\ Working(r)
      /\ runner' = [runner EXCEPT ![r] = Asleep(clock + Interval)]
      /\ spoiled \subseteq spoiled' /\ spoiled' \subseteq spoiled \cup {runner[r].minute, Now}
      /\ UNCHANGED <<clock, jobs, ran, since>>
  BY DEF Sleep, RunFails
<1>2. Now' = Now /\ Now \in Minutes /\ 0 \in Minutes
  BY <1>1, NowType, ConstantsAssumption DEF Now, IInv, Minutes
<1>3. clock + Interval \in Nat /\ clock <= clock + Interval
  BY ConstantsAssumption DEF IInv, TypeOK
<1>4. TypeOK'
  BY <1>1, <1>2, <1>3 DEF IInv, TypeOK, Asleep
<1>5. \A s \in Runners : RunnerInv(s)'
  <2> SUFFICES ASSUME NEW s \in Runners PROVE RunnerInv(s)'
    OBVIOUS
  <2>1. CASE s = r
    BY <1>1, <1>3, <2>1 DEF IInv, TypeOK, RunnerInv, Working, AtRest, Asleep
  <2>2. CASE s # r
    BY <1>1, <1>2, <2>2 DEF IInv, TypeOK, RunnerInv, Working, AtWork, AtRest
  <2> QED
    BY <2>1, <2>2
<1> QED
  BY <1>1, <1>2, <1>4, <1>5 DEF IInv, Past, StampIsRun

(* A minute that begins during a run is spoiled.                           *)
LEMMA AdvanceStep == ASSUME IInv, Advance PROVE IInv'
<1>1. /\ clock < Grain * Horizon /\ clock' = clock + 1
      /\ \A r \in Runners : clock < runner[r].until
      /\ UNCHANGED <<jobs, runner, ran, since>>
      /\ spoiled' = IF \E r \in Runners : Working(r) THEN spoiled \cup ({Now'} \ {Now}) ELSE spoiled
  BY DEF Advance
<1>2. clock \in Nat /\ clock' \in 0 .. (Grain * Horizon)
  BY <1>1, ConstantsAssumption DEF IInv, TypeOK
<1>3. Now \in Minutes /\ Now' \in Minutes /\ Now' \in {Now, Now + 1} /\ Now \in Nat
  BY <1>1, <1>2, MinuteOf, NowType DEF Now, IInv
<1>4. TypeOK'
  BY <1>1, <1>2, <1>3 DEF IInv, TypeOK
<1>5. Past'
  BY <1>1, <1>3 DEF IInv, TypeOK, Past, Minutes
<1>6. \A r \in Runners : RunnerInv(r)'
  <2> SUFFICES ASSUME NEW r \in Runners PROVE RunnerInv(r)'
    OBVIOUS
  <2>1. runner[r].minute \in Nat /\ runner[r].until \in Nat
    BY DEF IInv, TypeOK, Minutes
  <2>2. CASE Working(r)
    BY <1>1, <1>3, <2>1, <2>2 DEF IInv, RunnerInv, Working, AtWork
  <2>3. CASE ~ Working(r)
    BY <1>1, <1>2, <2>1, <2>3 DEF IInv, RunnerInv, Working, AtRest
  <2> QED
    BY <2>2, <2>3
<1>7. StampIsRun'
  BY <1>1 DEF IInv, StampIsRun
<1> QED
  BY <1>4, <1>5, <1>6, <1>7 DEF IInv

LEMMA Stutter == ASSUME IInv, UNCHANGED vars PROVE IInv'
BY DEF IInv, vars, TypeOK, Past, Now, RunnerInv, Working, AtWork, AtRest, StampIsRun

LEMMA NextStep == IInv /\ [Next]_vars => IInv'
<1> SUFFICES ASSUME IInv, [Next]_vars PROVE IInv'
  OBVIOUS
<1>1. ASSUME NEW r \in Runners, Loop(r) PROVE IInv'
  BY <1>1, StartStep, DueStep, RunStep, MarkStep, SleepStep DEF Loop
<1> QED
  BY <1>1, EditStep, AdvanceStep, Stutter DEF Next

-----------------------------------------------------------------------------
(* The scheduler keeps to its types: no job, stamp or batch takes a form   *)
(* the module does not list (cron.py).                                     *)
THEOREM Typed == Spec => []TypeOK
<1>1. IInv => TypeOK
  BY DEF IInv
<1> QED
  BY InitInv, NextStep, <1>1, PTL DEF Spec

(* However many runners there are, a job that cron_mark_run's stamp        *)
(* withholds was run for that minute (cron.py:150).                        *)
THEOREM StampTrue == Spec => []StampIsRun
<1>1. IInv => StampIsRun
  BY DEF IInv
<1> QED
  BY InitInv, NextStep, <1>1, PTL DEF Spec

-----------------------------------------------------------------------------
(* One runner: at most one run for a minute.                               *)
LEMMA OnceInit == Init => OnceInv
<1> SUFFICES ASSUME Init PROVE OnceInv
  OBVIOUS
<1>1. \A j \in Jobs, m \in Minutes : ran[j][m] = 0
  BY DEF Init, Unrun
<1>2. \A r \in Runners : runner[r].batch = {}
  BY DEF Init, Asleep
<1>3. Now \in Minutes
  BY InitInv, NowType DEF IInv
<1> QED
  BY <1>1, <1>2, <1>3 DEF OnceInv, RunOnce, Fresh

LEMMA OnceStep ==
  ASSUME OneRunner, IInv, IInv', OnceInv, [Next]_vars
  PROVE  OnceInv'
<1>0. Now \in Minutes /\ Now \in Nat /\ TypeOK /\ TypeOK'
  BY NowType DEF IInv
<1>1. ASSUME NEW j \in Jobs, Edit(j) PROVE OnceInv'
  <2>1. /\ \A i \in Jobs \ {j} : jobs'[i] = jobs[i]
        /\ Recount(j)
        /\ UNCHANGED <<clock, runner, spoiled>>
    BY <1>0, <1>1 DEF Edit, CronAdd, CronDelete, TypeOK
  <2>2. Now' = Now
    BY <2>1 DEF Now
  <2>3. \A i \in Jobs, m \in Minutes :
          /\ ran'[i][m] \in {0, ran[i][m]}
          /\ i = j => ran'[i][m] = 0 \/ Running(j)
    BY <1>0, <2>1 DEF Recount, Unrun, TypeOK
  <2>4. RunOnce' /\ Fresh'
    <3>1. \A r \in Runners : runner[r].batch \subseteq Jobs /\ runner[r].minute \in Minutes
      BY <1>0 DEF TypeOK
    <3>2. Fresh'
      BY <2>1, <2>3, <3>1 DEF OnceInv, Fresh
    <3>3. RunOnce'
      BY <2>1, <2>3 DEF OnceInv, RunOnce
    <3> QED
      BY <3>2, <3>3
  <2>5. \A i \in Jobs : Running(i)' <=> Running(i)
    BY <2>1 DEF Running
  <2> QED
    BY <1>0, <2>1, <2>2, <2>3, <2>4, <2>5 DEF OnceInv, Settled
<1>2. ASSUME NEW r \in Runners, CronDue(r) PROVE OnceInv'
  <2>1. /\ ~ Working(r) /\ runner' = [runner EXCEPT ![r] =
             [at |-> "work", until |-> clock + MaxRun, minute |-> Now, cur |-> NoJob,
              batch |-> {j \in Jobs : Due(jobs[j])}]]
        /\ UNCHANGED <<clock, jobs, ran, since, spoiled>>
    BY <1>2 DEF CronDue, Working
  <2>2. Now' = Now
    BY <2>1 DEF Now
  <2>3. \A s \in Runners : s = r /\ runner[s].cur = NoJob
    BY <2>1 DEF OneRunner, IInv, RunnerInv, AtRest
  <2>4. \A j \in Jobs : ~ Running(j)
    BY <2>3, ConstantsAssumption DEF Running
  <2>5. runner'[r].minute = Now /\ \A j \in runner'[r].batch : j \in Jobs /\ Due(jobs[j])
    BY <1>0, <2>1 DEF TypeOK
  <2>6. Now \notin spoiled => \A j \in runner'[r].batch : ran[j][Now] = 0
    BY <1>0, <2>4, <2>5 DEF OnceInv, Settled, Due, TypeOK
  <2>7. Fresh'
    BY <2>1, <2>3, <2>5, <2>6 DEF Fresh
  <2> QED
    BY <2>1, <2>2, <2>4, <2>7 DEF OnceInv, RunOnce, Settled
<1>3. ASSUME NEW r \in Runners, NEW j \in Jobs, Run(r, j) PROVE OnceInv'
  <2> DEFINE m == runner[r].minute
  <2>1. /\ Working(r) /\ j \in runner[r].batch
        /\ runner' = [runner EXCEPT ![r].cur = j, ![r].batch = runner[r].batch \ {j}]
        /\ ran' = [ran EXCEPT ![j][m] = ran[j][m] + 1]
        /\ UNCHANGED <<clock, jobs, since, spoiled>>
    BY <1>3 DEF Run
  <2>2. Now' = Now
    BY <2>1 DEF Now
  <2>3. m \in Minutes /\ (m \notin spoiled => ran[j][m] = 0)
    BY <1>0, <2>1 DEF TypeOK, OnceInv, Fresh
  <2>4. \A s \in Runners : s = r
    BY DEF OneRunner
  <2>5. runner'[r].minute = m /\ runner'[r].cur = j /\ runner'[r].batch = runner[r].batch \ {j}
    BY <1>0, <2>1 DEF TypeOK
  <2>6. m \notin spoiled => \A i \in runner[r].batch : i \in Jobs /\ ran[i][m] = 0
    BY <1>0 DEF OnceInv, Fresh, TypeOK
  <2> HIDE DEF m
  <2>7. \A i \in Jobs, k \in Minutes :
          ran'[i][k] = IF i = j /\ k = m THEN ran[j][m] + 1 ELSE ran[i][k]
    BY <1>0, <2>1, <2>3 DEF TypeOK
  <2>8. RunOnce'
    BY <2>1, <2>3, <2>7 DEF OnceInv, RunOnce
  <2>9. Fresh'
    <3>1. m \notin spoiled => \A i \in runner[r].batch \ {j} : ran'[i][m] = 0
      BY <2>3, <2>6, <2>7
    <3>2. spoiled' = spoiled
      BY <2>1
    <3> QED
      BY <2>4, <2>5, <3>1, <3>2 DEF Fresh
  <2>10. \A i \in Jobs : i # j => runner[r].cur = NoJob /\ ~ Running(i)
    BY <1>3, <2>4, ConstantsAssumption DEF Run, Running
  <2>11. Running(j)'
    BY <2>5 DEF Running
  <2> QED
    BY <1>0, <2>1, <2>2, <2>7, <2>8, <2>9, <2>10, <2>11 DEF OnceInv, Settled
<1>4. ASSUME NEW r \in Runners, CronMarkRun(r) PROVE OnceInv'
  <2> DEFINE j == runner[r].cur
  <2>1. /\ Working(r) /\ j # NoJob /\ j \in Jobs
        /\ runner' = [runner EXCEPT ![r].cur = NoJob]
        /\ jobs' = IF jobs[j] = NoJob THEN jobs ELSE [jobs EXCEPT ![j] = Stamped(jobs[j])]
        /\ UNCHANGED <<clock, ran, since, spoiled>>
    BY <1>0, <1>4 DEF CronMarkRun, TypeOK
  <2>2. Now' = Now
    BY <2>1 DEF Now
  <2>3. Fresh' /\ RunOnce'
    BY <1>0, <2>1 DEF OnceInv, Fresh, RunOnce, TypeOK
  <2>4. \A i \in Jobs : i # j => ~ Running(i) /\ jobs'[i] = jobs[i]
    BY <1>0, <2>1 DEF OneRunner, Running, TypeOK
  <2> HIDE DEF j
  <2>5. jobs'[j] = NoJob \/ jobs'[j].last_run = Now
    BY <1>0, <2>1 DEF TypeOK, Stamped, Job
  <2> QED
    BY <2>1, <2>2, <2>3, <2>4, <2>5 DEF OnceInv, Settled
<1>5. ASSUME NEW r \in Runners, Sleep(r) \/ RunFails(r) PROVE OnceInv'
  <2>1. /\ runner' = [runner EXCEPT ![r] = Asleep(clock + Interval)]
        /\ spoiled \subseteq spoiled'
        /\ runner[r].cur = NoJob \/ Now \in spoiled'
        /\ UNCHANGED <<clock, jobs, ran, since>>
    BY <1>5 DEF Sleep, RunFails
  <2>2. Now' = Now
    BY <2>1 DEF Now
  <2>3. \A s \in Runners : s = r
    BY DEF OneRunner
  <2>4. Fresh' /\ RunOnce'
    BY <1>0, <2>1, <2>3 DEF OnceInv, Fresh, RunOnce, TypeOK, Asleep
  <2>5. Now \notin spoiled' => \A i \in Jobs : ~ Running(i)
    BY <2>1, <2>3, ConstantsAssumption DEF Running
  <2> QED
    BY <2>1, <2>2, <2>4, <2>5 DEF OnceInv, Settled
<1>8. ASSUME NEW r \in Runners, Start(r) \/ StartFails(r) PROVE OnceInv'
  <2>1. Starting(r)
    BY <1>8, StartEffect
  <2>2. /\ spoiled \subseteq spoiled'
        /\ UNCHANGED <<clock, jobs, ran, since>>
    BY <2>1 DEF Starting
  <2>3. Now' = Now
    BY <2>2 DEF Now
  <2>4. \A s \in Runners : s = r
    BY DEF OneRunner
  <2>5. runner'[r].batch = {} /\ runner[r].cur = NoJob
    BY <1>0, <2>1 DEF Starting, TypeOK
  <2>6. Fresh' /\ RunOnce'
    BY <2>2, <2>4, <2>5 DEF OnceInv, Fresh, RunOnce
  <2>7. \A j \in Jobs : ~ Running(j)
    BY <2>4, <2>5, ConstantsAssumption DEF Running
  <2> QED
    BY <2>2, <2>3, <2>6, <2>7 DEF OnceInv, Settled
<1>6. CASE Advance
  <2>1. spoiled \subseteq spoiled' /\ UNCHANGED <<jobs, runner, ran, since>>
    BY <1>6 DEF Advance
  <2>2. Now' \in Minutes /\ Now' \in Nat /\ Now' \in {Now, Now + 1}
    BY <1>0, <1>6, NowType, MinuteOf DEF Advance, Now, TypeOK
  <2>3. Now' # Now => \A j \in Jobs : ran[j][Now'] = 0
    BY <1>0, <2>2 DEF IInv, Past, TypeOK
  <2>4. Fresh' /\ RunOnce'
    BY <2>1 DEF OnceInv, Fresh, RunOnce
  <2>5. \A j \in Jobs : Now' = Now /\ Settled(j) => Settled(j)'
    BY <2>1 DEF Settled, Running
  <2> QED
    BY <2>1, <2>3, <2>4, <2>5 DEF OnceInv
<1>7. CASE UNCHANGED vars
  BY <1>7 DEF vars, OnceInv, RunOnce, Fresh, Settled, Running, Now
<1> QED
  BY <1>1, <1>2, <1>3, <1>4, <1>5, <1>6, <1>7, <1>8 DEF Next, Loop

(* With one runner, as the compose file starts it, no job is run twice for *)
(* a minute in which no run failed and into which none went on, however    *)
(* often it is asked for, added, deleted or marked meanwhile (cron.py:144).*)
THEOREM OnceAMinute == OneRunner => (Spec => []RunOnce)
<1> SUFFICES ASSUME OneRunner PROVE Spec => []RunOnce
  OBVIOUS
<1>1. Init => IInv /\ OnceInv
  BY InitInv, OnceInit
<1>2. IInv /\ OnceInv /\ [Next]_vars => (IInv /\ OnceInv)'
  BY NextStep, OnceStep
<1>3. OnceInv => RunOnce
  BY DEF OnceInv
<1> QED
  BY <1>1, <1>2, <1>3, PTL DEF Spec

-----------------------------------------------------------------------------
(* Asking a minute later at most: no minute is missed.                     *)
LEMMA DueMinutes ==
  ASSUME TypeOK, NEW j \in Jobs, jobs[j] # NoJob
  PROVE  jobs[j].due \subseteq Minutes
<1>1. jobs[j] \in Job
  BY DEF TypeOK
<1>2. jobs[j].due \in Schedules
  BY <1>1 DEF Job
<1>3. \A due \in Schedules : due \subseteq Minutes
  BY ConstantsAssumption
<1> QED
  BY <1>2, <1>3

LEMMA MetInit == Interval + MaxStart <= Grain /\ Init => MetInv
<1> SUFFICES ASSUME Interval + MaxStart <= Grain, Init PROVE MetInv
  OBVIOUS
<1>1. \A j \in Jobs : jobs[j] = NoJob
  BY DEF Init
<1>2. ASSUME NEW r \in Runners PROVE Awake(r)
  <2>1. PICK t \in 0 .. Interval : runner[r] = Asleep(t)
    BY DEF Init
  <2>2. /\ t + MaxStart \in Nat /\ t + MaxStart <= 0 + Interval + MaxStart
        /\ 0 + Interval + MaxStart \in Nat /\ 0 \in Nat
    BY ConstantsAssumption
  <2>3. /\ (t + MaxStart) \div Grain <= (0 + Interval + MaxStart) \div Grain
        /\ (0 + Interval + MaxStart) \div Grain <= (0 \div Grain) + 1
    BY <2>2, Monotone, WithinAMinute
  <2>4. (t + MaxStart) \div Grain <= (0 \div Grain) + 1
    BY <2>2, <2>3, MinuteOf
  <2> QED
    BY <2>1, <2>4 DEF Awake, LatestAsk, Asleep, Now, Init
<1> QED
  BY <1>1, <1>2 DEF MetInv, NotMissed, Owed

LEMMA MetStep ==
  ASSUME Runners # {}, Interval + MaxStart <= Grain, IInv, IInv', MetInv, [Next]_vars
  PROVE  MetInv'
<1>0. Now \in Minutes /\ Now \in Nat /\ TypeOK /\ TypeOK'
  BY NowType DEF IInv
<1>1. ASSUME NEW j \in Jobs, Edit(j) PROVE MetInv'
  <2>1. /\ \A i \in Jobs \ {j} : jobs'[i] = jobs[i] /\ since'[i] = since[i] /\ ran'[i] = ran[i]
        /\ jobs'[j] = NoJob \/ since'[j] = Now + 1
        /\ UNCHANGED <<clock, runner, spoiled>>
    BY <1>0, <1>1 DEF Edit, CronAdd, CronDelete, Recount, TypeOK
  <2>2. Now' = Now
    BY <2>1 DEF Now
  <2>3. jobs'[j] = NoJob \/ \A m \in Minutes : ~ (since'[j] <= m /\ m <= Now)
    BY <1>0, <2>1 DEF Minutes
  <2>4. \A i \in Jobs : jobs'[i] # NoJob => jobs'[i].due \subseteq Minutes
    <3>1. \A i \in Jobs : jobs'[i] # NoJob => jobs'[i] \in Job
      BY <1>0 DEF TypeOK
    <3>2. \A job \in Job : job.due \in Schedules
      BY DEF Job
    <3>3. \A due \in Schedules : due \subseteq Minutes
      BY ConstantsAssumption
    <3> QED
      BY <3>1, <3>2, <3>3
  <2>5. \A i \in Jobs, m \in Minutes : Pending(i, m)' <=> Pending(i, m)
    BY <2>1 DEF Pending
  <2>6. NotMissed'
    BY <1>0, <2>1, <2>2, <2>3, <2>4, <2>5 DEF MetInv, NotMissed, Minutes
  <2>7. \A i \in Jobs : Owed(i)' => Owed(i)
    BY <1>0, <2>1, <2>2, <2>3, <2>5 DEF Owed
  <2> QED
    BY <2>1, <2>2, <2>6, <2>7 DEF MetInv, Awake, AsksNow, LatestAsk, Working
<1>2. ASSUME NEW r \in Runners, CronDue(r) PROVE MetInv'
  <2> DEFINE batch == {j \in Jobs : Due(jobs[j])}
             next == [at |-> "work", until |-> clock + MaxRun, minute |-> Now, cur |-> NoJob,
                      batch |-> batch]
  <2>1. /\ ~ Working(r) /\ runner' = [runner EXCEPT ![r] = next]
        /\ UNCHANGED <<clock, jobs, ran, since, spoiled>>
    BY <1>2 DEF CronDue, Working
  <2>2. Now' = Now
    BY <2>1 DEF Now
  <2>3. runner[r].batch = {}
    BY <2>1 DEF IInv, RunnerInv, AtRest
  <2> HIDE DEF batch
  <2>4. runner'[r] = next /\ \A s \in Runners \ {r} : runner'[s] = runner[s]
    BY <1>0, <2>1 DEF TypeOK
  <2>5. \A j \in Jobs, m \in Minutes : Pending(j, m) => Pending(j, m)'
    BY <2>3, <2>4 DEF Pending
  <2>6. NotMissed'
    <3>1. \A j \in Jobs : jobs[j] # NoJob => jobs[j].due \subseteq Minutes
      BY <1>0, DueMinutes
    <3> QED
      BY <2>1, <2>2, <2>5, <3>1 DEF MetInv, NotMissed
  <2>7. \A j \in Jobs : ~ Owed(j)'
    <3> SUFFICES ASSUME NEW j \in Jobs, Owed(j)' PROVE FALSE
      OBVIOUS
    <3>1. jobs[j] # NoJob /\ jobs[j].enabled /\ Now \in jobs[j].due \ spoiled /\ ran[j][Now] = 0
      BY <2>1, <2>2 DEF Owed
    <3>2. jobs[j].last_run # Now
      BY <3>1, ConstantsAssumption, <1>0 DEF IInv, StampIsRun
    <3>3. j \in batch
      BY <3>1, <3>2 DEF batch, Due
    <3>4. Pending(j, Now)'
      BY <2>2, <2>4, <3>3 DEF Pending
    <3> QED
      BY <2>2, <3>4 DEF Owed
  <2> QED
    BY <2>2, <2>4, <2>6, <2>7 DEF MetInv, Awake, LatestAsk, Working
<1>3. ASSUME NEW r \in Runners, NEW j \in Jobs, Run(r, j) PROVE MetInv'
  <2> DEFINE m == runner[r].minute
  <2>1. /\ Working(r) /\ j \in runner[r].batch
        /\ runner' = [runner EXCEPT ![r].cur = j, ![r].batch = runner[r].batch \ {j}]
        /\ ran' = [ran EXCEPT ![j][m] = ran[j][m] + 1]
        /\ UNCHANGED <<clock, jobs, since, spoiled>>
    BY <1>3 DEF Run
  <2>2. Now' = Now
    BY <2>1 DEF Now
  <2>3. m \in Minutes /\ ran[j][m] \in Nat
    BY <1>0 DEF TypeOK
  <2>4. \A s \in Runners :
          /\ runner'[s].at = runner[s].at /\ runner'[s].until = runner[s].until
          /\ runner'[s].minute = runner[s].minute
          /\ runner'[s].batch = IF s = r THEN runner[r].batch \ {j} ELSE runner[s].batch
    BY <1>0, <2>1 DEF TypeOK
  <2>5. \A i \in Jobs, k \in Minutes : (Pending(i, k) => Pending(i, k)' \/ (i = j /\ k = m))
    BY <2>4 DEF Pending
  <2> HIDE DEF m
  <2>6. \A i \in Jobs, k \in Minutes :
          ran'[i][k] = IF i = j /\ k = m THEN ran[j][m] + 1 ELSE ran[i][k]
    BY <1>0, <2>1, <2>3 DEF TypeOK
  <2>7. \A i \in Jobs, k \in Minutes :
          ran[i][k] > 0 \/ Pending(i, k) => ran'[i][k] > 0 \/ Pending(i, k)'
    BY <1>0, <2>3, <2>5, <2>6 DEF TypeOK
  <2>8. NotMissed'
    <3>1. \A i \in Jobs : jobs[i] # NoJob => jobs[i].due \subseteq Minutes
      BY <1>0, DueMinutes
    <3> QED
      BY <2>1, <2>2, <2>7, <3>1 DEF MetInv, NotMissed
  <2>9. \A i \in Jobs : Owed(i)' => Owed(i)
    BY <1>0, <2>1, <2>2, <2>7 DEF Owed, TypeOK
  <2> QED
    BY <2>2, <2>4, <2>8, <2>9 DEF MetInv, Awake, AsksNow, LatestAsk, Working
<1>4. ASSUME NEW r \in Runners, CronMarkRun(r) PROVE MetInv'
  <2>1. /\ runner' = [runner EXCEPT ![r].cur = NoJob]
        /\ jobs' = jobs \/ \E j \in Jobs : jobs[j] # NoJob /\ jobs' = [jobs EXCEPT ![j] = Stamped(jobs[j])]
        /\ UNCHANGED <<clock, ran, since, spoiled>>
    BY <1>0, <1>4 DEF CronMarkRun, TypeOK
  <2>2. Now' = Now
    BY <2>1 DEF Now
  <2>3. \A s \in Runners :
          /\ runner'[s].at = runner[s].at /\ runner'[s].until = runner[s].until
          /\ runner'[s].minute = runner[s].minute /\ runner'[s].batch = runner[s].batch
    BY <1>0, <2>1 DEF TypeOK
  <2>4. \A i \in Jobs, m \in Minutes : Pending(i, m)' <=> Pending(i, m)
    BY <2>3 DEF Pending
  <2>5. \A i \in Jobs : jobs'[i] # NoJob =>
          /\ jobs[i] # NoJob /\ jobs'[i].enabled = jobs[i].enabled /\ jobs'[i].due = jobs[i].due
          /\ jobs[i].due \subseteq Minutes
    BY <1>0, <2>1, ConstantsAssumption DEF TypeOK, Stamped, Job
  <2>6. NotMissed'
    BY <2>1, <2>2, <2>4, <2>5 DEF MetInv, NotMissed
  <2>7. \A i \in Jobs : Owed(i)' => Owed(i)
    BY <1>0, <2>1, <2>2, <2>4, <2>5 DEF Owed
  <2> QED
    BY <2>2, <2>3, <2>6, <2>7 DEF MetInv, Awake, AsksNow, LatestAsk, Working
<1>5. ASSUME NEW r \in Runners, Sleep(r) \/ RunFails(r) PROVE MetInv'
  <2>1. /\ Working(r) /\ runner' = [runner EXCEPT ![r] = Asleep(clock + Interval)]
        /\ spoiled \subseteq spoiled'
        /\ runner[r].batch = {} \/ {runner[r].minute, Now} \subseteq spoiled'
        /\ UNCHANGED <<clock, jobs, ran, since>>
    BY <1>5 DEF Sleep, RunFails
  <2>2. Now' = Now
    BY <2>1 DEF Now
  <2>3. runner'[r] = Asleep(clock + Interval) /\ \A s \in Runners \ {r} : runner'[s] = runner[s]
    BY <1>0, <2>1 DEF TypeOK
  <2>4. \A i \in Jobs, m \in Minutes \ spoiled' : Pending(i, m) => Pending(i, m)'
    BY <2>1, <2>3 DEF Pending
  <2>5. NotMissed'
    <3>1. \A i \in Jobs : jobs[i] # NoJob => jobs[i].due \subseteq Minutes
      BY <1>0, DueMinutes
    <3> QED
      BY <2>1, <2>2, <2>4, <3>1 DEF MetInv, NotMissed
  <2>6. \A i \in Jobs : Owed(i)' => Owed(i)
    BY <1>0, <2>1, <2>2, <2>4 DEF Owed
  <2>7. \A i \in Jobs : ~ Owed(i)'
    BY <2>1, <2>6 DEF MetInv, AsksNow
  <2>8. (clock + Interval + MaxStart) \div Grain <= Now + 1
    BY <1>0, WithinAMinute, ConstantsAssumption DEF Now, TypeOK
  <2> QED
    BY <2>2, <2>3, <2>5, <2>7, <2>8 DEF MetInv, Awake, LatestAsk, Working, Asleep
<1>8. ASSUME NEW r \in Runners, Start(r) \/ StartFails(r) PROVE MetInv'
  <2>1. /\ Starting(r) /\ runner[r].batch = {}
        /\ spoiled \subseteq spoiled' /\ UNCHANGED <<clock, jobs, ran, since>>
    BY <1>8, StartEffect DEF Starting
  <2>2. Now' = Now
    BY <2>1 DEF Now
  <2>9. PICK next \in Turn :
          /\ runner' = [runner EXCEPT ![r] = next]
          /\ Starts(r, next) \/ FailsToStart(r, next)
    BY <2>1 DEF Starting
  <2>3. runner'[r] = next /\ \A s \in Runners \ {r} : runner'[s] = runner[s]
    BY <1>0, <2>9 DEF TypeOK
  <2>4. \A i \in Jobs, m \in Minutes : Pending(i, m) => Pending(i, m)'
    BY <2>1, <2>3 DEF Pending
  <2>5. NotMissed'
    <3>1. \A i \in Jobs : jobs[i] # NoJob => jobs[i].due \subseteq Minutes
      BY <1>0, DueMinutes
    <3> QED
      BY <2>1, <2>2, <2>4, <3>1 DEF MetInv, NotMissed
  <2>6. \A i \in Jobs : Owed(i)' => Owed(i)
    BY <1>0, <2>1, <2>2, <2>4 DEF Owed
  <2>7. CASE Starts(r, next)
    <3>1. LatestAsk(r)' = LatestAsk(r) /\ ~ Working(r)' /\ ~ Working(r)
      <4>1. clock \in Nat /\ next.at = "start" /\ next.until = clock + MaxStart
        BY <1>0, <2>7, ConstantsAssumption DEF Starts, TypeOK
      <4>2. LatestAsk(r)' = clock + MaxStart
        BY <2>3, <4>1, ConstantsAssumption DEF LatestAsk
      <4>3. LatestAsk(r) = clock + MaxStart
        BY <2>7 DEF Starts, LatestAsk
      <4> QED
        BY <2>3, <2>7, <4>2, <4>3 DEF Starts, Working
    <3>2. \A s \in Runners : (Awake(s) => Awake(s)') /\ (AsksNow(s) => AsksNow(s)')
      BY <2>2, <2>3, <3>1 DEF Awake, AsksNow, LatestAsk, Working
    <3> QED
      BY <2>5, <2>6, <3>2 DEF MetInv
  <2>8. CASE FailsToStart(r, next)
    <3>1. LatestAsk(r)' = clock + Interval + MaxStart
      BY <2>3, <2>8 DEF FailsToStart, LatestAsk
    <3>2. LatestAsk(r)' \div Grain <= Now + 1
      BY <1>0, <3>1, WithinAMinute, ConstantsAssumption DEF Now, TypeOK
    <3>3. \A s \in Runners : Awake(s)'
      BY <2>2, <2>3, <3>2 DEF MetInv, Awake, LatestAsk, Working
    <3>4. \A i \in Jobs : ~ Owed(i)'
      BY <2>2, <2>8 DEF Owed, FailsToStart
    <3> QED
      BY <2>5, <3>3, <3>4 DEF MetInv
  <2> QED
    BY <2>7, <2>8, <2>9
<1>6. CASE Advance
  <2>1. /\ spoiled \subseteq spoiled' /\ UNCHANGED <<jobs, runner, ran, since>>
        /\ clock' = clock + 1 /\ \A r \in Runners : clock < runner[r].until
        /\ (\E r \in Runners : Working(r)) /\ Now' # Now => Now' \in spoiled'
    BY <1>6 DEF Advance
  <2>2. Now' \in Nat /\ Now' \in {Now, Now + 1} /\ clock \in Nat
    BY <1>0, <2>1, MinuteOf, ConstantsAssumption DEF Now, TypeOK
  <2>3. \A r \in Runners : LatestAsk(r) \in Nat /\ clock' <= LatestAsk(r) /\ LatestAsk(r)' = LatestAsk(r)
    BY <1>0, <2>1, <2>2, ConstantsAssumption DEF TypeOK, LatestAsk
  <2>4. \A r \in Runners : Now' <= LatestAsk(r) \div Grain /\ LatestAsk(r) \div Grain \in Nat
    BY <2>1, <2>2, <2>3, Monotone, MinuteOf DEF Now
  <2>5. \A i \in Jobs, m \in Minutes : Pending(i, m)' <=> Pending(i, m)
    BY <2>1 DEF Pending
  <2>6. \A i \in Jobs : jobs[i] # NoJob => jobs[i].due \subseteq Minutes
    BY <1>0, DueMinutes
  <2>7. CASE Now' = Now
    <3>1. NotMissed'
      BY <2>1, <2>5, <2>6, <2>7 DEF MetInv, NotMissed
    <3>2. \A i \in Jobs : Owed(i)' => Owed(i)
      BY <1>0, <2>1, <2>5, <2>7 DEF Owed
    <3> QED
      BY <2>1, <2>7, <3>1, <3>2 DEF MetInv, Awake, AsksNow, LatestAsk, Working
  <2>8. CASE Now' = Now + 1
    <3>1. \A i \in Jobs : ~ Owed(i)
      BY <1>0, <2>4, <2>8 DEF MetInv, AsksNow
    <3>2. NotMissed'
      <4>1. ASSUME NEW i \in Jobs, jobs[i] # NoJob, jobs[i].enabled,
                   NEW m \in jobs[i].due \ spoiled', since[i] <= m, m < Now'
            PROVE  ran[i][m] > 0 \/ Pending(i, m)'
        <5>1. m \in Minutes /\ m \in Nat /\ ran[i][m] \in Nat
          <6>1. m \in Minutes
            BY <2>6, <4>1
          <6>2. m \in Nat
            BY <6>1, ConstantsAssumption DEF Minutes
          <6>3. ran[i][m] \in Nat
            BY <1>0, <6>1 DEF TypeOK
          <6> QED
            BY <6>1, <6>2, <6>3
        <5>2. CASE m < Now
          BY <2>1, <2>5, <4>1, <5>1, <5>2 DEF MetInv, NotMissed
        <5>3. CASE m = Now
          BY <2>1, <2>5, <3>1, <4>1, <5>1, <5>3 DEF Owed
        <5> QED
          BY <1>0, <2>8, <4>1, <5>1, <5>2, <5>3
      <4>2. NotMissed' <=> \A i \in Jobs : jobs[i] # NoJob /\ jobs[i].enabled =>
                \A m \in jobs[i].due \ spoiled' :
                   since[i] <= m /\ m < Now' => ran[i][m] > 0 \/ Pending(i, m)'
        BY <2>1 DEF NotMissed
      <4> QED
        BY <4>1, <4>2
    <3>3. \A r \in Runners : Awake(r)'
      BY <1>0, <2>1, <2>4, <2>8 DEF MetInv, Awake, LatestAsk, Working
    <3>4. ASSUME NEW i \in Jobs, Owed(i)', NEW r \in Runners PROVE AsksNow(r)'
      <4>1. ~ Working(r)
        BY <2>1, <2>8, <1>0, <3>4 DEF Owed
      <4> QED
        BY <1>0, <2>1, <2>4, <2>8, <4>1 DEF MetInv, Awake, AsksNow, LatestAsk, Working
    <3> QED
      BY <3>2, <3>3, <3>4 DEF MetInv
  <2> QED
    BY <2>2, <2>7, <2>8
<1>7. CASE UNCHANGED vars
  BY <1>7 DEF vars, MetInv, NotMissed, Awake, AsksNow, LatestAsk, Owed, Pending, Working, Now
<1> QED
  BY <1>1, <1>2, <1>3, <1>4, <1>5, <1>6, <1>7, <1>8 DEF Next, Loop

(* Runners whose sleep and start together take a minute at most let no     *)
(* minute pass for which a job is due, except one in which a run or a      *)
(* start failed or into which a run went on (cron.py:132).  The default of *)
(* loop.sh sleeps a minute before each start and is not among them.        *)
THEOREM NoneMissed == Runners # {} /\ Interval + MaxStart <= Grain => (Spec => []NotMissed)
<1> SUFFICES ASSUME Runners # {}, Interval + MaxStart <= Grain PROVE Spec => []NotMissed
  OBVIOUS
<1>1. Init => IInv /\ MetInv
  BY InitInv, MetInit
<1>2. IInv /\ MetInv /\ [Next]_vars => (IInv /\ MetInv)'
  BY NextStep, MetStep
<1>3. MetInv => NotMissed
  BY DEF MetInv
<1> QED
  BY <1>1, <1>2, <1>3, PTL DEF Spec
=============================================================================
