------------------------------- MODULE JobIntake --------------------------------
(***************************************************************************)
(* What the two doors of the system have in common: a request, its session, *)
(* and the job it makes. The web app's door is in WebDispatcher, the MCP    *)
(* server's in McpServer; what becomes of a job of the Q&A agent is in      *)
(* QaWorkflow, of the others in JobPipeline. FrontDoors puts them together. *)
(*                                                                          *)
(* Every SQL statement commits by itself. One that is reported to fail may  *)
(* still have been carried out: its answer was lost.                        *)
(*                                                                          *)
(* Where a request is, is a pair: the part of its handler and the statement *)
(* it does next. A request makes one job at most, which bears its name.     *)
(***************************************************************************)
EXTENDS Integers, Sequences, FiniteSets

CONSTANTS
  Requests,      \* requests of browsers and of the MCP host
  Asks,          \* bound: what each request may be, together; door "none": not made
  Tasks,         \* bobTaskIds
  Sources,       \* snapshots of jobs completed before
  NoSource,      \* the id of no snapshot, and of no patch
  MaxAttempts,   \* attempts of a durable step: retries + 1
  MaxFaults      \* bound: failed statements, lost answers and crashes

Kinds == {"qa", "migrate", "refactor", "apply_patch", "agent"}

ASSUME IntakeAssumption ==
  /\ \A a \in Asks : \A c \in Requests :
       /\ a[c].door \in {"web", "mcp", "none"} /\ a[c].kind \in Kinds
       /\ a[c].task \in Tasks /\ a[c].cached \in BOOLEAN
  /\ MaxAttempts \in Nat \ {0}
  /\ MaxFaults \in Nat

VARIABLES
  ask,           \* what each request is
  at,            \* where each request is
  found,         \* what upsertSession's SELECT has told it
  session,       \* the id of the session row a request got
  source,        \* the snapshot a cached question is about
  sessions,      \* mcp_sessions: pairs of a bobTaskId and the row's id
  jobs,          \* jobs rows
  jobSession,    \* jobs.session_id
  linked,        \* web_jobs rows
  sent,          \* events Inngest has been given
  scheduled,     \* web requests that have a callback to run after their answer
  running,       \* runners that have been started
  faults         \* failed statements, lost answers and crashes so far

request == <<ask, source>>
memory == <<found, session>>
tables == <<sessions, jobs, jobSession, linked>>
starting == <<sent, scheduled, running>>

Web(c) == ask[c].door = "web"

Cached(c) == ask[c].kind = "qa" /\ ask[c].cached

\* The two runners a job may have.
Runners == Requests \X {"durable", "direct"}

IntakeInit ==
  /\ ask \in Asks
  /\ at = [c \in Requests |-> <<"arrive", "call">>]
  /\ found = [c \in Requests |-> FALSE]
  /\ session = [c \in Requests |-> NoSource]
  /\ source = [c \in Requests |-> NoSource]
  /\ sessions = {} /\ jobs = {} /\ linked = {}
  /\ jobSession = [c \in Requests |-> NoSource]
  /\ sent = {} /\ scheduled = {} /\ running = {}
  /\ faults = 0

--------------------------------------------------------------------------------
Over(c) == at[c][1] = "over"

Goto(c, part, statement) == at' = [at EXCEPT ![c] = <<part, statement>>]

\* An exception. The web route answers with an error; withAudit catches it, and
\* what goes wrong in its catch block is only logged.
Throw(c) ==
  IF Web(c) THEN Goto(c, "over", "refused")
  ELSE IF at[c][1] = "error" THEN Goto(c, "over", "threw")
  ELSE Goto(c, "error", "select")

\* The statement was carried out, and its answer arrives or is lost.
Then(c, part, statement) ==
  \/ Goto(c, part, statement) /\ UNCHANGED faults
  \/ faults < MaxFaults /\ faults' = faults + 1 /\ Throw(c)

\* The statement is not carried out.
StatementFails(c) ==
  /\ ~Over(c) /\ at[c][1] # "arrive"
  /\ faults < MaxFaults /\ faults' = faults + 1
  /\ Throw(c)
  /\ UNCHANGED <<request, memory, tables, starting>>

--------------------------------------------------------------------------------
(* upsertSession: a SELECT, and an UPDATE or an INSERT.                     *)

RowsOf(task) == {s \in sessions : s[1] = task}

\* Its SELECT, in one part of the handler.
SelectSession(c, part, task) ==
  /\ at[c] = <<part, "select">>
  /\ found' = [found EXCEPT ![c] = RowsOf(task) # {}]
  /\ Goto(c, part, "upsert")
  /\ UNCHANGED <<request, session, tables, starting, faults>>

\* The UPDATE returns the row, which nothing deletes.
TouchSession(c, part, task, next) ==
  /\ at[c] = <<part, "upsert">> /\ found[c]
  /\ \E s \in RowsOf(task) : session' = [session EXCEPT ![c] = s[2]]
  /\ Then(c, next[1], next[2])
  /\ UNCHANGED <<request, found, tables, starting>>

\* Mutant of Taken: bob_task_id is not unique.
Taken_Never(task) == FALSE

Taken(task) == RowsOf(task) # {}

\* The INSERT: one of two first requests of a task loses, and throws.
InsertSession(c, part, task, next) ==
  /\ at[c] = <<part, "upsert">> /\ ~found[c]
  /\ IF Taken(task)
     THEN Throw(c) /\ UNCHANGED <<session, sessions, faults>>
     ELSE /\ sessions' = sessions \cup {<<task, <<c, part>>>>}
          /\ session' = [session EXCEPT ![c] = <<c, part>>]
          /\ Then(c, next[1], next[2])
  /\ UNCHANGED <<request, found, jobs, jobSession, linked, starting>>

UpsertSession(c, part, task, next) ==
  \/ SelectSession(c, part, task)
  \/ TouchSession(c, part, task, next)
  \/ InsertSession(c, part, task, next)

--------------------------------------------------------------------------------
(* The job row.                                                             *)

\* A cached question first finds its snapshot.
FirstOfDispatch(c) == <<"dispatch", IF Cached(c) THEN "find" ELSE "create">>

\* No such snapshot is refused, before there is a job.
FindSource(c) ==
  /\ at[c] = <<"dispatch", "find">>
  /\ IF source[c] = NoSource THEN Throw(c) ELSE Goto(c, "dispatch", "create")
  /\ UNCHANGED <<request, memory, tables, starting, faults>>

CreateJob(c) ==
  /\ at[c] = <<"dispatch", "create">>
  /\ jobs' = jobs \cup {c}
  /\ jobSession' = [jobSession EXCEPT ![c] = session[c]]
  /\ Then(c, "dispatch", "start")
  /\ UNCHANGED <<request, memory, sessions, linked, starting>>

================================================================================
