------------------------------- MODULE FrontDoors --------------------------------
(***************************************************************************)
(* Requests at both doors at once, and the jobs they make: from the call of *)
(* a browser or a host to the transcript of the answer, with statements     *)
(* that fail, answers that are lost and processes that die.                 *)
(***************************************************************************)
EXTENDS WebDispatcher, McpServer, QaWorkflow

doors == <<request, at, memory, tables, starting>>
vars == <<doors, patching, invocations, qa, faults>>

Init ==
  /\ IntakeInit
  /\ ServerInit
  /\ QaInit

\* The server's process dies, with its calls and its runners.
ServerDies ==
  /\ CutCalls
  /\ pos' = [r \in Runners |->
              IF Mcp(r[1]) /\ Active(r) THEN Failed ELSE pos[r]]
  /\ UNCHANGED <<request, memory, tables, starting, patching, invocations,
                 attempt, host, snapshot, snapshots, indexed, transcripts, jobState, disk>>

ServerCrashes ==
  /\ \E c \in Requests : Mcp(c) /\ at[c][1] # "arrive"
  /\ faults < MaxFaults /\ faults' = faults + 1
  /\ ServerDies

\* migrate_repository does not catch what its runner throws: the rejection is
\* unhandled, and that is the end of the process.
UnhandledRejection(r) ==
  /\ Mcp(r[1]) /\ ask[r[1]].kind = "migrate" /\ Active(r)
  /\ faults < MaxFaults /\ faults' = faults + 1
  /\ ServerDies

Serve(c) ==
  \/ Dispatch(c) /\ UNCHANGED <<patching, invocations, qa>>
  \/ ServeCall(c) /\ UNCHANGED qa

Arrive(c) ==
  \/ Post(c, snapshots) /\ UNCHANGED <<patching, invocations, qa>>
  \/ CallTool(c, snapshots) /\ UNCHANGED qa

Run(r) == RunnerStep(r) /\ UNCHANGED <<doors, patching, invocations>>

Caught(r) == ~(Mcp(r[1]) /\ ask[r[1]].kind = "migrate")

Next ==
  \/ \E c \in Requests : Arrive(c)
  \/ \E c \in Requests : Serve(c)
  \/ \E c \in Requests : StatementFails(c) /\ UNCHANGED <<patching, invocations, qa>>
  \/ \E c \in Requests : FunctionDies(c) /\ UNCHANGED <<patching, invocations, qa>>
  \/ \E r \in Runners : Run(r)
  \/ \E r \in Runners :
       Caught(r) /\ RunnerFails(r) /\ UNCHANGED <<doors, patching, invocations>>
  \/ \E r \in Runners : UnhandledRejection(r)
  \/ ServerCrashes

\* Whether Inngest has invoked the workflow of a job.
Begun(c) == pos[<<c, "durable">>] # 1 \/ attempt[<<c, "durable">>] # 1

\* Something that can go on does: a statement of a request or of a runner. (Both
\* end after finitely many, so that none of them waits for ever.) Nothing says
\* that a workflow is ever invoked: Inngest may not know this deployment.
Progress ==
  \/ \E c \in Requests : Serve(c)
  \/ \E r \in Runners : (r[2] = "durable" => Begun(r[1])) /\ Run(r)

Fairness == WF_vars(Progress)

Spec == Init /\ [][Next]_vars /\ Fairness

--------------------------------------------------------------------------------
(* Properties.                                                              *)

Places == {"arrive", "door", "audit", "error", "dispatch", "link", "apply", "agent",
           "record", "over"}

TypeOK ==
  /\ \A c \in Requests : at[c][1] \in Places
  /\ jobs \subseteq Requests /\ linked \subseteq jobs /\ sent \subseteq jobs
  /\ scheduled \subseteq sent
  /\ running \subseteq Runners
  /\ \A r \in Runners : pos[r] \in 0..(Len(Statements(r)) + 1)
  /\ attempt \in [Runners -> 1..MaxAttempts]
  /\ \A r \in Runners : host[r] \in HostsOf[r[2]]
  /\ tree \in [Requests \X Hosts -> {"absent", "part", "whole"}]
  /\ robbed \subseteq Runners
  /\ \A r \in Runners : snapshot[r] \in snapshots \cup {NoSource}
  /\ indexed \subseteq snapshots
  /\ status \in [Patches -> {"proposed", "applied"}]
  /\ onDisk \in [Files -> Patches \cup {Original}]
  /\ written \subseteq Patches
  /\ invocations \subseteq {c \in Requests : Mcp(c)} \X {"ok", "error"}
  /\ faults \in 0..MaxFaults

\* "All jobs submitted by the same browser end up sharing one MCP session row":
\* so do those of one task of the host, and the row is there.
SessionsAreShared ==
  /\ \A c \in jobs : <<ask[c].task, jobSession[c]>> \in sessions
  /\ \A c, d \in jobs : ask[c].task = ask[d].task => jobSession[c] = jobSession[d]

\* A browser that is told its job is queued has a link to it, Inngest has its
\* event, and the direct runner has started or is about to. No runner is without
\* its job row. A job that nobody runs was left by a failure in its request.
AcceptedJobsAreStarted ==
  /\ \A c \in Requests : Web(c) /\ at[c] = <<"over", "answered">> =>
       /\ c \in jobs \cap linked \cap sent
       /\ <<c, "durable">> \in running
       /\ c \in scheduled \/ <<c, "direct">> \in running
  /\ \A r \in running : r[1] \in jobs
  /\ \A c \in jobs : Over(c) /\ faults = 0 =>
       \E r \in running : r[1] = c

\* What the log of tool calls says is so: a call that was answered has a row that
\* says it succeeded and none that it failed, a call that is logged as a success
\* did its work, and one that failed has its row unless something else failed.
RecordsTellTheTruth ==
  \A c \in Requests : Mcp(c) =>
    /\ at[c] = <<"over", "answered">> =>
         <<c, "ok">> \in invocations /\ <<c, "error">> \notin invocations
    /\ <<c, "ok">> \in invocations =>
         /\ ask[c].kind = "apply_patch" => status[Target(c)] = "applied"
         /\ ask[c].kind \notin {"apply_patch", "agent"} => <<c, "direct">> \in running
    /\ at[c] = <<"over", "threw">> /\ faults = 0 => <<c, "error">> \in invocations

\* A patch that says it is applied was written to its file, also when another
\* patch of the file has been written since; and contents on disk whose patch does
\* not say so belong to a call that is at it, or that was cut off or told its host
\* that it failed.
AppliedPatchesAreOnDisk ==
  /\ \A p \in Patches : status[p] = "applied" => p \in written
  /\ \A p \in written : onDisk[FileOf[p]] \in {q \in written : FileOf[q] = FileOf[p]}
  /\ \A f \in Files : onDisk[f] # Original /\ status[onDisk[f]] # "applied" =>
       \E c \in Requests :
         /\ ask[c].kind = "apply_patch" /\ Target(c) = onDisk[f]
         /\ at[c] # <<"over", "answered">>

\* A job of the Q&A agent that is done has an answer, from the snapshot that was
\* asked about or from one of its own that was indexed.
DoneMeansAnswered ==
  \A c \in jobs : jobState[c] = "done" =>
    \E t \in transcripts :
      /\ t[1] = c
      /\ IF Cached(c) THEN t[2] = source[c] ELSE t[2][1] = c /\ t[2] \in indexed

Accepted(c) == Web(c) /\ ask[c].kind = "qa" /\ at[c] = <<"over", "answered">>

Answered(c) == \E t \in transcripts : t[1] = c

\* Before the workflow has done anything; later, each runner has a host of its own,
\* and no tree of the job is anywhere else.
OwnTrees(c) ==
  \/ pos[<<c, "durable">>] = 1
  \/ /\ host[<<c, "durable">>] # host[<<c, "direct">>]
     /\ \A h \in Hosts \ {host[<<c, "durable">>], host[<<c, "direct">>]} :
          tree[<<c, h>>] = "absent"

\* The direct runner beside the workflow "covers the case where Inngest cloud isn't
\* synced with this deployment": a question that was accepted is answered if Inngest
\* never invokes its workflow and nothing fails; and whatever fails once, if the
\* workflow was invoked and the two do not wipe each other's tree.
QuestionsAreAnswered ==
  \A c \in Requests :
    [](Cached(c) \/ OwnTrees(c)) =>
      (Accepted(c) ~> Answered(c) \/ (~Begun(c) /\ faults > 0))

================================================================================
