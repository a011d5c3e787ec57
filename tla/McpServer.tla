-------------------------------- MODULE McpServer --------------------------------
(***************************************************************************)
(* The MCP server: its tools under withAudit. A tool that starts a job      *)
(* (query_codebase, migrate_repository and its like) upserts a session of   *)
(* its own, creates the job and starts the direct runner in the server's    *)
(* process; apply_patch writes a patch to the working tree; every other     *)
(* tool is one call of an agent, which returns or throws.                   *)
(*                                                                          *)
(* The process serves all calls and carries the direct runners of all their *)
(* jobs. The host starts it again when it is gone.                          *)
(***************************************************************************)
EXTENDS JobIntake

CONSTANTS
  ServerTask,    \* BOB_TASK_ID of the server
  Patches,       \* patches rows
  FileOf,        \* the file each patch is of
  Original       \* the contents of a file that no patch was written to

Files == {FileOf[p] : p \in Patches}

ASSUME ServerAssumption ==
  /\ ServerTask \in Tasks
  /\ Original \notin Patches
  /\ DOMAIN FileOf = Patches

VARIABLES
  status,        \* patches.status
  onDisk,        \* whose contents each file has
  written,       \* history: the patches that a call wrote to their file
  invocations    \* tool_invocations: pairs of a call and "ok" or "error"

patching == <<status, onDisk, written>>

ServerInit ==
  /\ status = [p \in Patches |-> "proposed"]
  /\ onDisk = [f \in Files |-> Original]
  /\ written = {}
  /\ invocations = {}

Mcp(c) == ask[c].door = "mcp"

Target(c) == ask[c].patch

FirstOfTool(c) ==
  CASE ask[c].kind = "apply_patch" -> <<"apply", "read">>
    [] ask[c].kind = "agent" -> <<"agent", "run">>
    [] OTHER -> <<"door", "select">>

\* The arguments are parsed before withAudit is entered.
CallTool(c, snapshots) ==
  /\ Mcp(c) /\ at[c] = <<"arrive", "call">>
  /\ \/ Goto(c, "over", "invalid") /\ UNCHANGED source
     \/ /\ \E s \in IF Cached(c) THEN snapshots \cup {NoSource} ELSE {NoSource} :
             source' = [source EXCEPT ![c] = s]
        /\ Goto(c, "audit", "select")
  /\ UNCHANGED <<ask, memory, tables, starting, faults, patching, invocations>>

\* The sessions: withAudit's, the tool's own, and that of the catch block.
Sessions(c) ==
  /\ Mcp(c)
  /\ \/ UpsertSession(c, "audit", ServerTask, FirstOfTool(c))
     \/ UpsertSession(c, "door", ask[c].task, FirstOfDispatch(c))
     \/ UpsertSession(c, "error", ServerTask, <<"error", "record">>)
  /\ UNCHANGED <<patching, invocations>>

\* Mutant of RecordSuccess: a row that cannot be inserted is only logged.
RecordSuccess_Logged(c) ==
  /\ Mcp(c) /\ at[c] = <<"record", "insert">>
  /\ \/ invocations' = invocations \cup {<<c, "ok">>} /\ UNCHANGED faults
     \/ faults < MaxFaults /\ faults' = faults + 1 /\ UNCHANGED invocations
  /\ Goto(c, "over", "answered")
  /\ UNCHANGED <<request, memory, tables, starting, patching>>

\* The row of a tool that has done its work. When it fails, so does the call.
RecordSuccess(c) ==
  /\ Mcp(c) /\ at[c] = <<"record", "insert">>
  /\ invocations' = invocations \cup {<<c, "ok">>}
  /\ Then(c, "over", "answered")
  /\ UNCHANGED <<request, memory, tables, starting, patching>>

\* The row of a call that failed.
RecordError(c) ==
  /\ Mcp(c) /\ at[c] = <<"error", "record">>
  /\ invocations' = invocations \cup {<<c, "error">>}
  /\ Goto(c, "over", "threw")
  /\ UNCHANGED <<request, memory, tables, starting, patching, faults>>

\* void run...Direct(...): not awaited.
StartDirect(c) ==
  /\ Mcp(c) /\ at[c] = <<"dispatch", "start">>
  /\ running' = running \cup {<<c, "direct">>}
  /\ Goto(c, "record", "insert")
  /\ UNCHANGED <<request, memory, tables, sent, scheduled, faults, patching, invocations>>

RunAgent(c) ==
  /\ Mcp(c) /\ at[c] = <<"agent", "run">>
  /\ \/ Goto(c, "record", "insert")
     \/ Throw(c)
  /\ UNCHANGED <<request, memory, tables, starting, faults, patching, invocations>>

\* apply_patch: the patch's row and its snapshot's ...
ReadPatch(c) ==
  /\ Mcp(c) /\ at[c] = <<"apply", "read">>
  /\ IF Target(c) \in Patches THEN Goto(c, "apply", "write") ELSE Throw(c)
  /\ UNCHANGED <<request, memory, tables, starting, faults, patching, invocations>>

Overwrite(p) ==
  /\ onDisk' = [onDisk EXCEPT ![FileOf[p]] = p]
  /\ written' = written \cup {p}

\* Mutant of WritePatch: writeFile is not awaited, and may fail later.
WritePatch_NotAwaited(c) ==
  /\ Mcp(c) /\ at[c] = <<"apply", "write">>
  /\ \/ Overwrite(Target(c)) /\ UNCHANGED faults
     \/ faults < MaxFaults /\ faults' = faults + 1 /\ UNCHANGED <<onDisk, written>>
  /\ Goto(c, "apply", "status")
  /\ UNCHANGED <<request, memory, tables, starting, status, invocations>>

\* ... then the file ...
WritePatch(c) ==
  /\ Mcp(c) /\ at[c] = <<"apply", "write">>
  /\ Overwrite(Target(c))
  /\ Then(c, "apply", "status")
  /\ UNCHANGED <<request, memory, tables, starting, status, invocations>>

\* ... and then the status.
UpdateStatus(c) ==
  /\ Mcp(c) /\ at[c] = <<"apply", "status">>
  /\ status' = [status EXCEPT ![Target(c)] = "applied"]
  /\ Then(c, "record", "insert")
  /\ UNCHANGED <<request, memory, tables, starting, onDisk, written, invocations>>

\* The process is gone, and with it every call that had arrived.
CutCalls ==
  at' = [c \in Requests |->
          IF Mcp(c) /\ ~Over(c) /\ at[c][1] # "arrive" THEN <<"over", "cut">> ELSE at[c]]

ServeCall(c) ==
  \/ Sessions(c)
  \/ RecordSuccess(c)
  \/ RecordError(c)
  \/ StartDirect(c)
  \/ RunAgent(c)
  \/ ReadPatch(c)
  \/ WritePatch(c)
  \/ UpdateStatus(c)
  \/ Mcp(c) /\ (FindSource(c) \/ CreateJob(c)) /\ UNCHANGED <<patching, invocations>>

================================================================================
