# A TLA+ model of the connector

This directory holds TLA+ specifications of the program in this repository: an
MCP server (`src/app/`) that gives several language-model clients one shared
back end on a NAS — secrets, tasks, messages, scheduled jobs, work sessions,
memory, files and devices — and a small runner (`src/runner/`) that carries out
the scheduled jobs.  TLC checks the specifications on small instances; TLAPS
proves their safety properties for every instance, except that liveness stays
with TLC.

The server registers plain synchronous functions as tools.  The framework
(`fastmcp>=3.4`) runs each call in a worker thread, and several clients call at
once, so tool calls overlap.  Hardly anything is locked: nearly all state is in
files that a tool reads, changes in memory and writes back whole.  That, and the
process-wide patch of the resolver in `netguard.py`, is where the interesting
behaviour is.

## Inventory

| Component | Source | State | Operations | What is hard, and what makes it correct |
|---|---|---|---|---|
| Egress guard | `netguard.py` | `socket.getaddrinfo`, `_orig_getaddrinfo`, `_guarded`, `_guard_lock` | `check_host`, `guard` enter and leave, a lookup | threads that enter, leave and resolve at once, unlocked reads of the globals; answers inside a guard are permitted, the filter is in force inside and gone after the last |
| Secret vault | `secrets_store.py` | `secrets.enc`, `.bak`, `.tmp`, the key in the environment | `secret_set`, `secret_delete`, `secret_list`, `get_secret` | crash between any two steps, wrong key, shared temporary name; an atomic map, never torn, never overwritten unread |
| Coordination layer | `coordination.py` | `inbox.json`, `tasks.json`, `agents.json` | 3 writing inbox tools, 5 board tools, 2 registry tools, listings, `task_next` | read-modify-write without locks, two-file handoff, truncation window; no message or task lost, a handoff is announced |
| Scheduler | `cron.py` | `jobs.json` | `cron_add`, `cron_delete`, `cron_due`, `cron_mark_run` | time passing between due, run and stamp; each job exactly once per due minute, expressions as documented |
| Runner | `runner/loop.sh`, `runner/generic/agent.py` | where it is in its loop | sleep, start the agent, ask, run, mark | failing and slow starts and runs, drift of the loop |
| Work sessions | `sessions.py` | one JSON file per session | save, load, list, delete, prune | pruning from a snapshot, half-written files; no answered checkpoint lost but in the race of a prune with the save it overlaps |
| Memory | `memory.py` | one Markdown file per memory, scopes, candidates | write, note, delete, promote, reject | promotion in two steps, crashes between them; no staged fact lost |
| Ambient learning | `learn.py` | none (stages candidates in memory) | middleware after each call | staged whatever the call answered |
| Configuration store | `cfgstore.py`, `services.py` | one JSON file per endpoint | add or update, delete | defaults that count as given, torn files; a credential once passed stays |
| File workspace | `fs_tools.py` | a directory tree under a quota | write, append, move, delete | a walk that adds up the usage while others move, delete, write and download; usage bounded by what came meanwhile |
| Skills | `skills.py` | one file per skill | write, delete, list | categories compared with what is on disk just now; never split by case |
| Tenancy, authorisation | `tenancy.py`, `authz.py` | `policy.json` | set, unset, decide, audit | policy read several times per call, rewritten and edited meanwhile, and fail-open on errors; a tool runs only as the file permits or where it decides nothing, no crash tears the file |
| MCP gateway | `mcp_gateway.py` | a session with a remote server | handshake, request, answer | the server sets session and version at any answer, one of which is not read; every request is in its session but after that one |
| Printing, scanning, MQTT | `print_tools.py`, `scan_tools.py`, `mqtt_tools.py` | a conversation with one device | submit, poll, fetch, publish, wait | lost answers, retries, broken connections; one copy, true answers, calls that end |
| SSH, WebDAV, FTP, mail | `ssh_tools.py`, … | none of their own | run, upload, download, send | a full channel window, lost connections, transfers that break off or meet on one file |
| Bootstrap, guide, server | `bootstrap.py`, `guide.py`, `server.py`, … | none | text and registration | nothing to check |

Interaction: every tool that opens a connection goes through `check_host` and
`guard`; `task_handoff` writes the board and then the inbox; the runner reads
`cron_due`, runs prompts through the other tools and posts results to the inbox;
`learn.py` stages memory candidates after other tools; `bootstrap.py` reads
sessions, memory, board and registry.  `PROJECT.json` lists the hazards line by
line.

## Modules

| Module | Models | State |
|---|---|---|
| `NetGuard` | `netguard.py` | the four globals; per thread where it is in its dispatcher call (`pc`), its guard key (`host`), and the lookup it is in (`look`, the function object `fn` it fetched, the addresses `res` in hand) |
| `NetGuard_proofs` | proofs about `NetGuard` | |
| `SecretMap` | the promise of the vault: a map, one secret changed per step | `store` |
| `Vault` | `secrets_store.py` | the three files, the key and the plaintext override of the running process, and per caller the step of `_write_all` it is at; history: the secrets written while no copy was made (`skipped`) |
| `Vault_proofs` | proofs about `Vault` | |
| `TaskBoard` | the promise of the coordination layer: board, inbox and registry as one atomic object | the three maps, the notices under way, and a bit that flips at every interruption |
| `Coordination` | `coordination.py` | the three files (`disk`), per caller the rewrite it is in (`call`), and two histories: the messages a sender was told of (`answered`), the interruptions (`outage`) |
| `Coordination_proofs` | proofs about `Coordination` | |
| `TaskNext` | `task_next` of `coordination.py` | a task file |
| `Cron` | `cron.py` and the runner loop | `clock`, `jobs`, `runner`, and three histories: `ran`, `since`, `spoiled` |
| `Cron_proofs` | proofs about `Cron` | |
| `CronText`, `CronMatch` | `_field_match`, `_is_due` of `cron.py` | an expression and a time |
| `Sessions` | `sessions.py` | the files, the call each caller is in, today; histories: the checkpoints still owed (`kept`), the sessions whose last answer raced an unlink (`raced`) |
| `Sessions_proofs` | proofs about `Sessions` | |
| `Memory` | `memory.py`, `learn.py` | the files by scope and name, the calls; history: the candidate to be kept under each name (`noted`) |
| `Memory_proofs` | proofs about `Memory` | |
| `Skills` | `skills.py` | the category in each `SKILL.md`, the calls writing one |
| `Registry` | `cfgstore.py`, `services.py` and the eight other `*_add` tools | one entry, and what is being written; histories: the last value passed (`wish`), whether an ingest-only sink was read (`reached`) |
| `Workspace` | `fs_tools.py` | the size of each file; per write its walk and its decision, and what came late for it |
| `Policy` | `authz.py`, `tenancy.py` | the caller, `policy.json`, its temporary file, the tool rewriting it, the calls being authorised; histories: what the file gave during each call, what it should hold (`intended`) |
| `Policy_proofs` | proofs about `Policy` | |
| `Printing` | `print_tools.py` | the printer, the request under way, its answer |
| `Scanning` | `scan_tools.py` | where the call is, the transports left, the jobs the scanner started |
| `Mqtt` | `mqtt_tools.py` | the call, its loop thread, the connection in both directions, the broker |
| `McpClient` | `mcp_gateway.py` | the client's session id and version, the server's; whether an id went unread |
| `Ssh` | `ssh_run` of `ssh_tools.py` | the call, the channel, the connection (`link`), the remote command |
| `Transfers` | up- and downloads of `webdav_tools.py`, `ssh_tools.py`, `ftp_tools.py` | what each local and remote file holds, the transfers under way and whether anybody else was at their files (`shared`) |
| `Tools` | `TaskNext`, `CronMatch` and the modules from `Sessions` to `Transfers`, side by side | `focus` and ten slots |
| `Tools_proofs` | proofs about `Tools` | |
| `MC…` | instances for TLC | |

Correspondence, by module:

* **NetGuard.**  `Fetch` loads the attribute `socket.getaddrinfo`, `Resolve`
  calls it, `CallNone` is the call of `None`; `Screen` is the locked look at
  `_guarded` and the filtering.  `Enter`, `Save` and `Install` are the three
  effects of the `with _guard_lock` block on entry, `Leave`, `Restore` and
  `Clear` those of the `finally` clause; they are separate steps because
  `_filtered_getaddrinfo` and the attribute load read the same globals without
  the lock.  The resolver is the environment: any answer at any time.  A thread
  never nests guards, as no caller in the repository does.
* **Vault.**  `SecretSet`/`SecretDelete` are the tools up to and including the
  strict read; `OpenTmp`, `FillTmp`, `OpenBak`, `FillBak`, `Replace` are the
  steps of `_write_all` (`write_bytes` and `copy2` truncate first and fill
  after); `SnapshotFails` is a `copy2` that raises before it opens the backup,
  which the code swallows, so that the old backup stays.  `Restart` kills the process anywhere and may change the key.  A call
  remembers under which name the file it has open can be found, so that
  `os.replace` by another call takes it along.
* **Coordination.**  Each tool is `Begin` (read the file, make up the new rows),
  `Truncate` and `Flush` (the two halves of `path.write_text`); a handoff goes on
  with `Notify`, which reads the inbox only then.  `Fail` is a write that raises,
  `Restart` the death of the server; both leave on disk what is there.  A reader
  that meets a torn file sees no entries, as `_read` does.  Early returns ("No
  task …", "already done") write nothing and are no step.
* **Cron.**  `Start`, `CronDue`, `Run`, `CronMarkRun` and `Sleep` are the runner's
  loop as `loop.sh`, `agent.py` and the orchestrator prompt lay it down: the sleep
  ends, the agent starts (up to `MaxStart`), asks, runs and marks.  `StartFails`
  and `RunFails` are a start and a run that fail; `CronAdd`, `CronDelete` the
  users' tools; `Advance` is time.
* **TaskNext, CronMatch.**  Pure functions; the state only supplies inputs.
* **Sessions, Memory, Skills, Registry.**  `path.write_text` is `Truncate` (the
  file is empty, which reads as absent, as untyped or as uncategorised, as each
  reader has it) and `Flush`; `Restart` kills the server between any two steps.
  A file unlinked between the two stays away, since the writer fills a file
  without a name.  `Sessions`: `Judge` is the loop of `_prune` over its snapshot,
  `Unlink` one deletion by name; `SessionList`, `SessionLoad`, `SessionPrune` and
  `Recent` differ in the days they prune with, and any number of them overlap.
  `Flush` is the answer "Saved checkpoint"; `raced` notes the answers that came
  while the file was gone or condemned by a prune.
  `Memory`: `MemoryPromote` writes the memory, in any scope, the queue's own
  included, and `UnlinkCandidate` removes the candidate after it.  `Registry`: each `*_add` is a record of its optional
  parameters and their defaults; one of them (`field`) is watched at a time, so
  that the parameters are checked one after the other and not in all
  combinations, which is sound because `merge` treats each on its own.
* **Workspace.**  `FsWrite` begins a write, `Walk` is one file of `_usage`, in any
  order, `Decide` the comparison with the quota, `Put` the write, which may stop
  part-way.  `FsMove`, `FsDelete` and `Fetch` (a download or a scan, which asks for
  no quota) come at any point of the walk.
* **Policy.**  `ReadRoles`, `ReadGroups`, `ReadArea` are the three times one call
  reads the file; `OpenTmp`, `FillTmp`, `Replace` the steps of `_write_policy`.
  The operator edits the file by hand at any time, also while a tool rewrites it:
  an entry (`EditEntry`), or the file into one that does not parse or is no object
  (`Break`) and back (`Repair`).  A file that does not parse reads as empty; one
  that is no object raises, and then the middleware allows the call undecided and
  `confine_memory_scope` leaves the scope as it was asked for.  The caller is a
  person, the runner, or nobody that could be resolved; `RUNNER_ROLE` and
  `OIDC_DEFAULT_ROLE` are `who.env`.
* **Printing, Scanning, Mqtt, McpClient, Ssh, Transfers.**  One call and the
  device it talks to, request by request.  The device, the network and a remote
  command are the environment and are marked external in the map: an answer can
  be lost after the device has acted on the request (`Handle`, `NotStarted`,
  `Notify`, `Fail`), a connection can break at any time, in `Ssh` also without
  anybody noticing.  `Transfers` follows a file as long as one call is at it; as
  soon as anybody else is (another transfer, `OtherTool`), the call is `shared` and
  what it leaves is `Mixed`.  A body may come without a length (`framed` is
  false); then the end of the connection is the end of the file.

## Runs

Every passing property has a mutant in `PROJECT.json`: a plausible mistake in one
mapped definition (`ReleasedWhole`, `OpenVault`, `HandoffSilently`, …; each stands just
before the definition it replaces) under which TLC finds the property violated.

| Run | Question | Bounds and why they are enough |
|---|---|---|
| `MCNetGuard` | does the filter hold whatever the interleaving, and is it gone after the last guard? | 3 threads, 2 hosts, 2 addresses: a key held twice, two keys at once, and a thread outside any guard looking up meanwhile |
| `MCNetGuardLookup` (violated) | can an unguarded lookup meet `None`? | 2 threads: one leaves the last guard while the other is between fetching and calling |
| `MCVault` | is the vault an atomic, fail-closed map through crashes, and how far behind is its backup? | 1 writing call at a time, 3 names, so that failed copies leave a difference in several, 2 keys, no key, any initial vault |
| `MCVaultRace` (violated) | the same with two calls at once | 2 callers, 1 name |
| `MCBoard` | do board, inbox and registry implement `TaskBoard`, and are posted messages kept? | 2 callers, 1 task to hand over, 2 messages, 1 agent: purges, posts and deletions come between the two files of a handoff |
| `MCInboxRace` (violated) | the same for two overlapping posts | 2 callers, 2 messages |
| `MCCron` | exactly once per due minute? | 2 jobs, 1 runner, 3 units to a minute, 2 minutes, a sleep of 1 and a start of up to 2: a run can end inside its minute or cross into the next, and several ticks fall in one minute |
| `MCCronDefault` (violated) | and with a sleep of a whole minute, the default? | 1 job, 2 units to a minute, a start of up to 1 |
| `MCCronSunday` (violated) | does `_is_due` mean what is documented where 7 is part of a range or a step? | one part |
| `MCTools` | do the fourteen components of `Tools` keep what they promise? | see below |
| `MCSessionLost` (violated) | is an answered checkpoint kept when a prune overlaps the save? | 2 callers, 1 session, 3 days, 1 of retention |
| `MCWorkspaceQuota` (violated) | does one caller stay within the quota when it appends too? | 1 caller, 2 files, writes up to 2, quota 3 |

`MCCron`, `MCCronDefault` and `MCSessionLost` switch the deadlock check off because
the calendar stops at a bound (`Horizon`, `Days`); the others never stop.

**Tools** puts the smaller components side by side: the initial state chooses
one (`focus`), only that one takes steps, and the slots `v1` to `v10` hold its
variables.  Each component is explored as it would be alone, so the states of
`MCTools` are the sum of theirs (about 760 000) and each property speaks of its
component only.  In the code some of them do meet: `learn.py` stages memories,
which `Memory` contains; downloads and scans fill the workspace, which is `Fetch`
in `Workspace`; and the file tools write to files that are being transferred,
which is `OtherTool` in `Transfers`.

| Component | Question | Bounds and why they are enough |
|---|---|---|
| `Sessions` | does an answered checkpoint stay until its session expires, unless its answer raced an unlink? | 2 callers, 2 sessions, 2 checkpoints each, 4 days with 1 day of retention and a prune with 2: one prune judges while another call saves, a second session is pruned along |
| `Memory` | is a staged fact never lost, but by what `NotedIsKept` names? | 2 callers, 1 name, 2 facts, 2 live scopes and the queue: all calls meet at one name |
| `Skills` | are categories never split by case? | 3 skills, 3 spellings of 2 categories, one writer at a time |
| `Registry` | does a credential survive every sequence of updates? | all nine tools, each parameter in turn, passed or not, with or without a category |
| `Workspace` | how far over the quota can a write go whose check overlaps other calls? | 2 callers, replacing only, 2 files of up to 2, writes and downloads of 1, quota 2, at most 2 bytes late: a move from a file not yet walked to one walked already hides bytes from the sum |
| `Policy` | does a tool run only as the file permits, and does no crash tear the file? | 1 call, 1 edit, one rewriting tool, any initial file, each kind of caller, no role in the environment; a call lives through an edit between any two of its reads |
| `TaskNext` | is the recommendation the best and oldest? | 3 tasks, 2 shown (3 in the code): more tasks than are shown, every mix of tags and assignments |
| `CronMatch` | does `_is_due` mean what is documented? | one restricted field at a time, of one or two parts, with steps 0 and 2, over all its values; day-of-week 7 alone; two restricted fields together are left to the proof |
| `Printing` | at most one copy, and one wherever possible? | 2 formats, TLS or not, every loss |
| `Scanning` | is the answer true, and does the call end? | 2 transports, 3 polls, as in the code |
| `Mqtt` | is "ok" true, does a report find its listener, is the loop thread stopped? | 1 call at a time of each kind, QoS 0 and 1 |
| `McpClient` | does a request leave the session of its server only after an id that was not read? | 2 versions, 2 ids given out at any answer, streams of two events |
| `Ssh` | is a command answered whose output fits the window? | window of 2 chunks, up to 4 written |
| `Transfers` | is a transfer nobody disturbs told to have worked only if the file is whole? | 2 transfers, 1 local and 2 remote files of 2 parts |

**Serialised and overlapping calls.**  `MCVault` and `MCBoard` let one call at a
time work on one file (calls on different files overlap, so a handoff is
interrupted between its two files).  So do `Registry`, `Policy` for the tools that
rewrite the policy, `Skills`, `Sessions` for two savers of one session, and `Memory`
for two promotions of one candidate and for two calls filling one file; everything
else in `Sessions`, `Memory`, `Workspace`, `Policy` and `Transfers` overlaps, the
operator's edits included.  Taking turns is what the code gives when its clients do;
nothing in it enforces that.  The violated runs `MCVaultRace` and `MCInboxRace` show
what happens when they do not; the same read-modify-write is in `session_save`,
`tenancy_set`, `cron_add` and `write_merged`.

**Provisos.**  Some properties hold only with an exception, because the code does
not keep more, and name it.  `CheckpointKept` leaves out the sessions whose last
answer raced an unlink (`MCSessionLost` shows that it must).  `RunAsPermitted`
speaks of calls that one edit by hand at most falls into, and of undecided ones;
`OwnScopeOnly` of calls all through which the file could be asked.  `PolicyIntact`
counts what a tool writes that has read the file before an edit, or could not read
it, as intended.  `StaysInSession` ends with an id on the unread answer,
`TransferredWhole` where somebody else was at the file or the body has no end of
its own, `LoopStops` with a broker that stays connected and never acknowledges,
`AnsweredIfItFits` with a connection lost without notice.  `BackupOneBehind` leaves
out the secrets written while copies failed.

**Fairness.**  `ScanEnds` assumes that a call goes on: each of its requests has a time
limit.  httpx applies it to each read, so a scanner that sends its answer byte by
byte for ever is excluded, and no more is assumed of it.  `LoopStops` assumes that
the call goes on through the waits that have a limit (`connected.wait(10)`,
`wait_for_publish(10)`, the deadline of `mqtt_get`) and that a thread which can end
does.  `loop_stop()` (`mqtt_tools.py:182`) has no limit: it joins paho's thread
before `disconnect()`, and with a message at QoS 1 still unacknowledged on a live
connection that thread does not end (`ThreadEnds`).  The property therefore says:
the thread is stopped again and again, or the broker stays connected without
acknowledging for ever.  `AnsweredIfItFits` assumes that the call goes on and that
the remote command writes and exits when it can; connections need not break, and one
that is lost may stay unnoticed, since no keepalive is set.  It holds only for output
that fits the window: `ssh_run` waits for the exit status before it reads, so a
command that writes more waits for ever.

## Findings

1. `netguard.py:137` reads `_orig_getaddrinfo` without the lock; an unguarded
   lookup that fetched the filter before the last guard left calls `None`, and
   `check_host` reports the host as unresolvable (`MCNetGuardLookup`).
2. `secrets_store.py:64` uses one temporary name for all calls; two overlapping
   calls can move a truncated file over the vault (`MCVaultRace`).
3. `coordination.py:131` loses one of two overlapping posts (`MCInboxRace`).
4. `loop.sh:15` sleeps the whole interval and then starts the agent, which connects,
   lists the tools and takes a model turn before it asks: with the default of 60 s it
   asks less than once a minute, and a job due in a minute without a tick is not run
   (`MCCronDefault`).
5. `cron.py:80` replaces 7 by 0 in the text of the day-of-week field: `5-7` never
   matches and `*/7` always does (`MCCronSunday`).
6. `fs_tools.py:114` takes the size of the file off the usage when appending,
   where it stays, and not when replacing, where it goes; appending takes a single
   caller over the quota (`MCWorkspaceQuota`).
7. `sessions.py:86-90` judges the files read before and unlinks by name: a checkpoint
   answered "Saved checkpoint" in between is removed (`MCSessionLost`).

Seen while modelling, without a run of their own:

* Vault.  `copy2` may raise before it opens the backup (`secrets_store.py:67-70`);
  that is swallowed, and the backup stays a generation older than it is said to be.
* Coordination and scheduler.  `score` offers a task reserved for another agent to
  one with the capabilities (`coordination.py:229`), and withholds a released task,
  which stays assigned to the agent that gave it back, from agents without them
  (`coordination.py:279`); `task_claim` takes a task from the agent that holds it
  (`coordination.py:254`, against the docstring's "Claim an open task"); a message
  to "all" has one read flag for all its recipients (`coordination.py:139`).
  `loop.sh:3-4` advises a `RUNNER_INTERVAL` of at least the finest granularity of the
  schedules; it is the other way round: sleep and start together must fit into a
  minute (`Cron_proofs`).  The stamp is the minute in which a run ends, so a run that
  crosses a minute withholds the job from the next one (`cron.py:150`); an update by
  `cron_add` forgets that the job has run (`cron.py:105`); two restricted day fields
  must both match, where standard cron wants either (`cron.py:82`).  `Cron` states its
  properties outside the minutes that a failing or overlong run touches for that
  reason.
* Sessions.  A file torn by a crash is never pruned, and the next save under its id
  begins the history anew; a new session replaces one of the same title
  (`sessions.py:156`).
* Memory.  A candidate staged again while its predecessor is being promoted goes
  with the promotion (`memory.py:363`); `memory_promote` into the scope
  "candidates" writes the fact and removes it (`memory.py:358-363`); `learn.py`
  stages a candidate also when the tool refused (`learn.py:92`, against "successful"
  in its header).
* Registry.  `merge` keeps what is stored only for empty parameters: one whose
  default is not empty falls back to it with every update that leaves it out, which
  is a weaker promise than the docstring of `services.py:65`; a `service_delete`
  between the check of the category and the write files a service without one.
* Skills.  Two overlapping `skill_write` calls can file two spellings of one new
  category (`Overlap` in `Skills` turns that on).
* Policy.  `tenancy_set` over a file that cannot be parsed keeps only the users
  (`tenancy.py:57`), and one that has read the file before an edit by hand undoes the
  edit: the docstring at `tenancy.py:152-155` has "a bad edit" covered, and it is
  not.  A policy that is no JSON object makes every call undecided, and so allowed
  (`authz.py:245-253`), and every scope unconfined; that is documented as fail-open.
* Workspace.  A move during the walk of another call hides its bytes from the sum
  (`fs_tools.py:24-33`), and no tool but `fs_write` asks for the quota.
* Devices.  `ssh_run` hangs on output beyond the channel's window, and on a
  connection that is lost without notice (`ssh_tools.py:172`); `mqtt_publish` hangs on
  a broker that takes a message at QoS 1 and does not acknowledge it
  (`mqtt_tools.py:182`); `_notify` drops a session id on the answer to the
  notification (`mcp_gateway.py:158-162`); `scan_tools.py:90` ignores a pinned scheme without a port, and
  only the first page is fetched; a print whose answer is lost is reported as
  failed though it may be on paper; `webdav_mkdir` reports a file in the way as a
  folder that is ready (`webdav_tools.py:232`); a body without a length that is cut off is told
  as "Downloaded" (`webdav_tools.py:211-215`); an SFTP download of a missing file
  leaves an empty one; two downloads to one name mix; `ssh_upload` takes a source
  under `/data-backup` for one under `/data` (`ssh_tools.py:191`); `mail_send` reports all
  recipients when the server refused some (`mail_tools.py:176`).

## Proofs

Eight modules of proofs, checked by `tlapm` from nothing, for all values of the
constants.  What is assumed of the constants is in each module's `ASSUME`s, or in
the `ConstantsOK` of a component, which `Tools` assumes for all of them: numbers
are numbers, and a value that stands for "none", "missing" or "torn" is none of
the others; for the quota, that files are finitely many, and for expressions, that a field is a set of parts.  TLC evaluates these
assumptions in the passing runs.  Anything that is assumed beyond them is a
hypothesis of the theorem and in the third column.

| Property | Theorem | Under |
|---|---|---|
| `NetGuard`: `TypeOK`, `GuardedAnswersPermitted`, `GuardedNeverBroken`, `RestoredWhenUnguarded` | `TypeCorrect`, `GuardFilters`, `GuardHolds`, `GuardRestores` | finitely many threads |
| `Vault`: `TypeOK`, `BackupOneBehind`, `NeverTruncated`, `FailClosed`; `Vault` implements `SecretMap` | `Typed`, `BackupHolds`, `CrashSafe`, `FailsClosed`, `Atomic` | `OneAtATime`: one caller; `MCVaultRace` shows that it is needed |
| `Coordination`: `TypeOK` | `Typed` | |
| `PostedIsKept`; `Coordination` implements `TaskBoard` | `PostedKept`, `Implements` | `~ Overlap`: one call per file; `MCInboxRace` shows that it is needed |
| `Cron`: `TypeOK`, `StampIsRun` | `Typed`, `StampTrue` | |
| `RunOnce` | `OnceAMinute` | `OneRunner`: one runner, as the compose file starts it |
| `NotMissed` | `NoneMissed` | a runner, and `Interval + MaxStart <= Grain`: its sleep and its start together take a minute at most, which the default does not give; `MCCronDefault` shows that it is needed |
| `Tools`: `TypeOK` and the properties named after their components, `CheckpointKept` to `TransferredWhole` | `Typed`, `SessionsKept`, … | |
| `OvershootBounded` | `QuotaBounded` | of the replacing writes, whoever appends meanwhile; `MCWorkspaceQuota` shows what appending ones do |
| `DueAsListed` | `DueAsWritten` | in the states in which the day-of-week field has 7 only on its own (`SundaysPlain`); `MCCronSunday` shows that it is needed |

**NetGuard.**  The inductive invariant adds to the properties: who is in the
critical section holds the lock (`LockInv`); the count of a key is the number of
threads inside a guard on it (`CountInv`), which needs cardinality facts from the
library's `FiniteSetTheorems`; which of the two globals is set at which point of
the critical section (`PatchInv`, `BodyInv`); and that a lookup inside a guard
runs the filter (`LookInv`).  Without the count nothing says that the thread that
restores is the last one.

**Vault.**  The invariant relates each stage of a write to the three files: while a
call is past its strict read the vault is still what it read, the temporary file
holds what the stage says, and the map to be written differs from the vault in one
name.  When a call comes to replace, the backup is the vault, or torn, or the copy has
failed, and then what the call changes is among the skipped secrets (`BakInv`).

**Coordination.**  `Base` (types, the three files and no others, a handoff with its
notice) holds however calls overlap.  With one call per file, `KeptInv` adds that
a truncated file stays so until its writer fills it (`Open`) and that what a
writer holds has every message answered for in it (`Answering`).  For the
refinement, `BoardInv` adds that what a writer holds is one tool's change of what
is on disk (`InHand`), that only handoffs carry notices (`Handing`), and that a
notice on its way has an identifier nobody else has (`Carried`).  Then each
`Truncate` is one step of `TaskBoard`, an interruption is `Interrupted`,
and every other step stutters.

**Cron.**  A run that goes on into a minute spoils it.  In a minute that is not
spoiled, then, a runner at work has asked in that very minute, and what it stamps
is the minute it ran the job for (`AtWork`).  With one runner, nothing in a batch has
been run for its minute (`Fresh`), and what was run this minute is stamped, about
to be, or gone (`Settled`).  If sleep and
start fit into a minute, every runner not at work asks by the next minute (`Awake`),
and while a job is owed for this one each runner will still ask in it (`AsksNow`).

**Sessions.**  A session has one writer at a time (`OneWriter`); what it is about to
fill in has more checkpoints than are owed (`Ahead`) and is dated as of the call
(`DataDated`).  A file is as young as the last checkpoint owed (`Dated`), so that
a prune that finds it stale finds nothing owed, and nothing is owed for a session
that is condemned (`Released`), unless its last answer came while it was.  All of this
is said of the sessions not in `raced`; one leaves `raced` only when it is written
again with no prune at its file, and then its file holds what is owed.

**Memory.**  A candidate that is to be kept is alone in its file (`Queued`); a
promotion under way has it in its hands and in the queue (`UnderReview`) until the
memory holds it (`Promoted`), or has taken it out of review if it stays in the queue; a call fills only a file that is empty or gone
(`Hollow`).  `OnePromoter` and `OneFlusher` say who takes turns.

**Policy.**  Between two reads of a call the tenancy tools change nothing but areas,
unless they are stale, so the documents it reads the roles and the groups from agree
but for one entry per edit of the operator (`SameEntries`, `DifferInOne`).  With one
edit the role computed from both is that of one of them (`OneOfBoth`), and the call
has lived through both.  That a call runs undecided only if one of the two documents
alone decides nothing holds of any two (`Undecided`), however many edits there are.

**Tools.**  Each component keeps an invariant of its own (`IInv` in its module)
and only the one in focus takes steps, so the conjunction of these invariants is
kept by every step of the whole.  `Sessions`, `Memory` and `Policy` come from their
own proof modules, instantiated over the slots.  Of the others, three needed more
than a case analysis:

* *The best tasks* (`FirstComeInClass`).  The number of tasks ahead of a task is its
  rank, and in a strict order of n tasks the ranks are 0 to n - 1, each once
  (`FirstOnes`: an injection of a finite set into one of its size is onto).  So
  exactly `Shown` tasks have a rank below `Shown`, and one left out has them all
  ahead of it.
* *The quota* (`OvershootBounded`).  The usage is a sum defined by recursion; that it
  does not depend on the order and that it moves with its terms is shown by
  induction on the size of the set (`SumsExist`, `SumsAny`, `TotalChanged`,
  `TotalGrows`), with induction itself derived from the well-foundedness of <
  (`NatMin`, `Ind`).  The inductive invariant is `Covered`: what the files passed by a
  walk hold now is at most its sum and what came late, whatever was moved from where
  to where, and once the write is let through the same is so under the quota.
* *Expressions* (`DueAsListed`).  A step is reached exactly by the values whose
  distance from the start it divides (`Strides`); with 7 on its own the textual
  replacement turns {7} into {0}, which is 7 modulo 7 (`SundayListed`).

`TransferredWhole` rests on `InParts` and `Apart` of `Transfers`: what is being written
is a part of what is read, and nobody writes what an undisturbed call reads or writes.
`StaysInSession` rests on `InStep`: the client has the id the server gave last, as long
as none went unread.

Only model-checked: `ScanEnds`, `LoopStops` and `AnsweredIfItFits`,
since liveness under fairness is out of the prover's reach.  The properties of the
violated runs are false.

## Not modelled, and the plan

Presence, listings, searches and formatting only read; so do `get_secret` and
`secret_list`, and the plaintext of a secret is a value.  What a tool answers is
left out unless a property needs it.  `bootstrap.py`, `guide.py` and `server.py`
assemble text and register tools and keep no state.  The SSE transport of the
gateway and the reconnecting of the MQTT client belong to libraries.  `mail_send` checks
each recipient against the operator's list in one pass before one SMTP session; there
is no order or state in that to get wrong, and it is left to a unit test.  The audit log
of `authz.py` is written and never read.  The resolution of paths inside `/data` is
string handling, and a component's bounds of sizes and lengths of answers are
layout.

Next, in this order:

1. `TaskBoard` as an object of its own: that an answered post stays until somebody
   deletes it, and from there `PostedIsKept` by the refinement instead of beside it.
2. `Workspace` with appending callers: the bound that does hold, from the size of the
   files at the time of the check.
3. `Skills` and `Registry` with overlapping writers: what remains true.
4. Shorter proofs: the steps of `Coordination_proofs` that differ only in the file.
