-------------------------------- MODULE Tools --------------------------------
(***************************************************************************)
(* The tools, side by side: the initial state picks a component (focus),   *)
(* and from there on only that component takes steps.  v1, ..., v10 hold   *)
(* its variables in the order of its module; what it does not use is 0.    *)
(* The states are the sum, not the product, of the components'.            *)
(* The constants are the components', described there; ConstantsOK of each *)
(* says what is assumed of them.                                           *)
(***************************************************************************)
EXTENDS Integers

CONSTANTS
  Callers, Ids, RETENTION_DAYS, Ages, Days, MaxEntries,    \* Sessions; Callers in others too
  Names, Facts, Scopes,                                    \* Memory; Names in Transfers too
  Skill, Spellings, Folded(_),                             \* Skills
  Given,                                                   \* Registry
  Files, Modes, Fetched, MAX_WRITE, QUOTA, MaxSize, MaxLate, \* Workspace
  Calls, OwnRoles, GroupRoles, DefaultRoles, Overrides, MaxEdits, Odd, \* Policy
  Agents, Caps, Shown, MaxTasks,                           \* TaskNext
  Written, MaxFields,                                      \* CronMatch
  Formats, Octet, Polls,                                   \* Printing, Scanning
  Protocols, Offered, MaxIds,                              \* McpClient
  Window, MaxOutput,                                       \* Ssh
  Paths, Parts,                                            \* Transfers
  Missing, Torn, None, NoAgent                             \* nothing, of some kind

VARIABLES focus, v1, v2, v3, v4, v5, v6, v7, v8, v9, v10

vars == <<focus, v1, v2, v3, v4, v5, v6, v7, v8, v9, v10>>

Sessions == INSTANCE Sessions WITH now <- v1, files <- v2, call <- v3, kept <- v4, raced <- v5
Memory == INSTANCE Memory WITH files <- v1, call <- v2, noted <- v3
Skills == INSTANCE Skills WITH
  Writers <- Callers, Names <- Skill, Overlap <- FALSE, skills <- v1, writer <- v2
Registry == INSTANCE Registry WITH
  Tools <- {"service_add", "mqtt_add", "scan_add", "ftp_add", "webdav_add", "ssh_add", "print_add",
            "mcp_add", "mail_add"},
  tool <- v1, field <- v2, entry <- v3, writing <- v4, wish <- v5, reached <- v6
Workspace == INSTANCE Workspace WITH Writers <- Callers, size <- v1, writer <- v2
Policy == INSTANCE Policy WITH
  who <- v1, policy <- v2, tmp <- v3, writer <- v4, call <- v5, edits <- v6, intended <- v7
TaskNext == INSTANCE TaskNext WITH tasks <- v1
CronMatch == INSTANCE CronMatch WITH schedule <- v1, now <- v2
Printing == INSTANCE Printing WITH printer <- v1, job <- v2, answer <- v3
Scanning == INSTANCE Scanning WITH
  at <- v1, left <- v2, polls <- v3, jobs <- v4, unheard <- v5, filed <- v6,
  pushed <- v7, told <- v8
Mqtt == INSTANCE Mqtt WITH
  at <- v1, qos <- v2, loop <- v3, up <- v4, toBroker <- v5, toClient <- v6, broker <- v7,
  confirmed <- v8, received <- v9, told <- v10
McpClient == INSTANCE McpClient WITH
  at <- v1, id <- v2, proto <- v3, server <- v4, strayed <- v5, told <- v6
Ssh == INSTANCE Ssh WITH
  at <- v1, link <- v2, size <- v3, written <- v4, status <- v5, told <- v6
Transfers == INSTANCE Transfers WITH disk <- v1, call <- v2

ASSUME ConstantsAssumption ==
  /\ Sessions!ConstantsOK /\ Memory!ConstantsOK /\ Skills!ConstantsOK /\ Registry!ConstantsOK
  /\ Workspace!ConstantsOK /\ Policy!ConstantsOK /\ TaskNext!ConstantsOK
  /\ Scanning!ConstantsOK /\ McpClient!ConstantsOK /\ Ssh!ConstantsOK
  /\ Transfers!ConstantsOK /\ CronMatch!ConstantsOK

-----------------------------------------------------------------------------
(* v(n+1), ..., v10 are not in use, and stay so.                            *)
Only(n) ==
  /\ (n < 2 => v2 = 0) /\ (n < 3 => v3 = 0) /\ (n < 4 => v4 = 0)
  /\ (n < 5 => v5 = 0) /\ (n < 6 => v6 = 0) /\ (n < 7 => v7 = 0)
  /\ (n < 8 => v8 = 0) /\ (n < 9 => v9 = 0) /\ (n < 10 => v10 = 0)
Rest(n) ==
  /\ focus' = focus
  /\ (n < 2 => v2' = v2) /\ (n < 3 => v3' = v3) /\ (n < 4 => v4' = v4)
  /\ (n < 5 => v5' = v5) /\ (n < 6 => v6' = v6) /\ (n < 7 => v7' = v7)
  /\ (n < 8 => v8' = v8) /\ (n < 9 => v9' = v9) /\ (n < 10 => v10' = v10)

Init ==
  \/ focus = "sessions" /\ Sessions!Init /\ Only(5)
  \/ focus = "memory" /\ Memory!Init /\ Only(3)
  \/ focus = "skills" /\ Skills!Init /\ Only(2)
  \/ focus = "registry" /\ Registry!Init /\ Only(6)
  \/ focus = "workspace" /\ Workspace!Init /\ Only(2)
  \/ focus = "policy" /\ Policy!Init /\ Only(7)
  \/ focus = "tasks" /\ TaskNext!Init /\ Only(1)
  \/ focus = "match" /\ CronMatch!Init /\ Only(2)
  \/ focus = "printing" /\ Printing!Init /\ Only(3)
  \/ focus = "scanning" /\ Scanning!Init /\ Only(8)
  \/ focus = "mqtt" /\ Mqtt!Init /\ Only(10)
  \/ focus = "mcp" /\ McpClient!Init /\ Only(6)
  \/ focus = "ssh" /\ Ssh!Init /\ Only(6)
  \/ focus = "transfers" /\ Transfers!Init /\ Only(2)

Next ==
  \/ focus = "sessions" /\ Sessions!Next /\ Rest(5)
  \/ focus = "memory" /\ Memory!Next /\ Rest(3)
  \/ focus = "skills" /\ Skills!Next /\ Rest(2)
  \/ focus = "registry" /\ Registry!Next /\ Rest(6)
  \/ focus = "workspace" /\ Workspace!Next /\ Rest(2)
  \/ focus = "policy" /\ Policy!Next /\ Rest(7)
  \/ focus = "tasks" /\ TaskNext!Next /\ Rest(1)
  \/ focus = "match" /\ CronMatch!Next /\ Rest(2)
  \/ focus = "printing" /\ Printing!Next /\ Rest(3)
  \/ focus = "scanning" /\ Scanning!Next /\ Rest(8)
  \/ focus = "mqtt" /\ Mqtt!Next /\ Rest(10)
  \/ focus = "mcp" /\ McpClient!Next /\ Rest(6)
  \/ focus = "ssh" /\ Ssh!Next /\ Rest(6)
  \/ focus = "transfers" /\ Transfers!Next /\ Rest(2)

(* What each component's Fairness says.                                    *)
Fairness ==
  /\ WF_vars(focus = "scanning" /\ Scanning!Step /\ Rest(8))
  /\ WF_vars(focus = "mqtt" /\ Mqtt!Call /\ Rest(10))
  /\ WF_vars(focus = "ssh" /\ Ssh!WaitForExit /\ Rest(6))
  /\ WF_vars(focus = "ssh" /\ Ssh!Read /\ Rest(6))
  /\ WF_vars(focus = "ssh" /\ Ssh!Command /\ Rest(6))

Spec == Init /\ [][Next]_vars /\ Fairness

-----------------------------------------------------------------------------
(* Each variable of the component in focus has its type.                   *)
TypeOK ==
  /\ focus = "sessions" => Sessions!TypeOK
  /\ focus = "memory" => Memory!TypeOK
  /\ focus = "skills" => Skills!TypeOK
  /\ focus = "registry" => Registry!TypeOK
  /\ focus = "workspace" => Workspace!TypeOK
  /\ focus = "policy" => Policy!TypeOK
  /\ focus = "tasks" => TaskNext!TypeOK
  /\ focus = "match" => CronMatch!TypeOK
  /\ focus = "printing" => Printing!TypeOK
  /\ focus = "scanning" => Scanning!TypeOK
  /\ focus = "mqtt" => Mqtt!TypeOK
  /\ focus = "mcp" => McpClient!TypeOK
  /\ focus = "ssh" => Ssh!TypeOK
  /\ focus = "transfers" => Transfers!TypeOK

(* Sessions: a checkpoint answered for is not lost, unless it was answered *)
(* while a prune was removing its file.                                    *)
CheckpointKept == focus = "sessions" => Sessions!CheckpointKept

(* Memory: A staged fact is not lost before somebody deletes or rewrites it.*)
NotedIsKept == focus = "memory" => Memory!NotedIsKept

(* Skills: Categories do not differ in case only.                          *)
CategoriesNotSplit == focus = "skills" => Skills!CategoriesNotSplit

(* Registry: An update does not drop a credential that was passed before.  *)
CredentialsKept == focus = "registry" => Registry!CredentialsKept

(* Workspace: A replacing write exceeds the quota by no more than others wrote meanwhile.*)
OvershootBounded == focus = "workspace" => Workspace!OvershootBounded

(* Policy: a tool runs only for what the file gave at some time during the *)
(* call, at most one edit aside, or where it gave nothing.                 *)
RunAsPermitted == focus = "policy" => Policy!RunAsPermitted

(* Policy: a known caller who is no admin gets its own scope, unless the   *)
(* file says otherwise or cannot be asked at some time during the call.    *)
OwnScopeOnly == focus = "policy" => Policy!OwnScopeOnly

(* Policy: no crash and no tool changes what it is not meant to in the     *)
(* file, a tool that has read it before an edit aside.                     *)
PolicyIntact == focus = "policy" => Policy!PolicyIntact

(* TaskNext: The tasks that suit an agent best come first, the oldest of them first.*)
FirstComeInClass == focus = "tasks" => TaskNext!FirstComeInClass

(* CronMatch: A job is due when its fields list the time.                  *)
DueAsListed == focus = "match" => CronMatch!DueAsListed

(* Printing: One call prints at most once, and once if it says so.         *)
PrintedOnce == focus = "printing" => Printing!PrintedOnce

(* Printing: A working printer that knows octet-streams prints every document.*)
JustWorks == focus = "printing" => Printing!JustWorks

(* Scanning: The answer of a scan is what came of it.                      *)
AnswerIsTrue == focus = "scanning" => Scanning!AnswerIsTrue

(* Mqtt: An acknowledged publication is with the broker.                   *)
OkIsTaken == focus = "mqtt" => Mqtt!OkIsTaken

(* Mqtt: A report that was asked for finds the subscription in place.      *)
ReportFindsListener == focus = "mqtt" => Mqtt!ReportFindsListener

(* McpClient: requests leave the session of an upstream server only after  *)
(* an id came with the one answer that is not read.                        *)
StaysInSession == focus = "mcp" => McpClient!StaysInSession

(* Transfers: a transfer that nobody disturbs is answered for only when    *)
(* the entire file has come over.                                          *)
TransferredWhole == [][focus = "transfers" => Transfers!WholeWhenTold]_vars

(* Scanning: a call ends.                                                  *)
ScanEnds == (focus = "scanning" /\ Scanning!Busy) ~> (focus = "scanning" /\ ~ Scanning!Busy)

(* Mqtt: the loop thread of a call is stopped, unless a broker stays       *)
(* connected and never acknowledges.                                       *)
LoopStops ==
  \/ []<>(focus = "mqtt" => ~ v3)
  \/ <>[](focus = "mqtt" /\ Mqtt!Unacknowledged)

(* Ssh: a command whose output fits the window is answered, unless the     *)
(* connection is lost without notice.                                      *)
AnsweredIfItFits ==
  (focus = "ssh" /\ Ssh!Answerable) ~> (focus = "ssh" /\ (v1 = "idle" \/ v2 = "lost"))
=============================================================================
