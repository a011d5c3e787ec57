------------------------------- MODULE QaWorkflow --------------------------------
(***************************************************************************)
(* A job of the Q&A agent, carried out by its runners: qaRepository under   *)
(* Inngest, whose steps are run again when they fail, and runQaDirect,      *)
(* which ends at the first exception. A runner of another agent's job is    *)
(* one statement here.                                                      *)
(*                                                                          *)
(* The working tree of a fresh question is named by its job: runners of one *)
(* job on one host clone into one tree, after each has wiped it. A step of  *)
(* the workflow, and a direct runner, may be on any host of HostsOf. The    *)
(* files of a tree one by one are in JobPipeline; what the audit and ask do *)
(* inside is in AuditSigning and CodeAgents.                                *)
(***************************************************************************)
EXTENDS JobIntake

CONSTANTS
  Hosts,         \* machines with a file system of their own
  HostsOf        \* where the processes of a durable and a direct runner may be

ASSUME HostsAssumption == HostsOf \in [{"durable", "direct"} -> (SUBSET Hosts) \ {{}}]

VARIABLES
  pos,           \* the statement each runner does next
  attempt,       \* the attempt of its current step
  host,          \* where its process is
  snapshot,      \* the snapshot it works on
  snapshots,     \* repo_snapshots rows
  indexed,       \* the snapshots whose files have rows
  transcripts,   \* qa_transcripts: pairs of a job and a snapshot
  jobState,      \* jobs.state, where a property speaks of it
  tree,          \* the working tree of each job on each host
  robbed         \* runners some of whose files were removed since they came by them

disk == <<tree, robbed>>
qa == <<pos, attempt, host, snapshot, snapshots, indexed, transcripts, jobState, disk>>

JobStates == {"cloning", "cloned", "indexing", "indexed", "planning", "planned",
              "auditing", "audited"}

--------------------------------------------------------------------------------
(* The statements of a runner, in their order.                              *)

Resolve(c) ==
  IF Cached(c) THEN <<"started", "find", "indexed">>
  ELSE <<"started", "cloning", "wipe", "copy", "checkout", "snapshot", "cloned",
         "indexing", "walk", "parse", "indexed">>

Answer == <<"planning", "ask", "planned">>

Finalize(kind) ==
  IF kind = "durable" THEN <<"complete">> ELSE <<"auditing", "audit", "audited", "complete">>

Statements(r) ==
  IF ask[r[1]].kind = "qa" THEN Resolve(r[1]) \o Answer \o Finalize(r[2]) ELSE <<"run">>

\* Where a step of the workflow begins.
StepStarts == {"started", "find", "cloning", "indexing", "planning", "complete"}

QaInit ==
  /\ pos = [r \in Runners |-> 1]
  /\ attempt = [r \in Runners |-> 1]
  /\ host = [r \in Runners |-> CHOOSE h \in HostsOf[r[2]] : TRUE]
  /\ snapshot = [r \in Runners |-> NoSource]
  /\ snapshots = Sources
  /\ indexed = Sources
  /\ transcripts = {}
  /\ jobState = [c \in Requests |-> "draft"]
  /\ tree = [t \in Requests \X Hosts |-> "absent"]
  /\ robbed = {}

Active(r) == r \in running /\ pos[r] \in DOMAIN Statements(r)

Doing(r, statement) == Active(r) /\ Statements(r)[pos[r]] = statement

Failed == 0

StepStart(r) ==
  CHOOSE i \in 1..pos[r] :
    /\ Statements(r)[i] \in StepStarts
    /\ \A j \in (i + 1)..pos[r] : Statements(r)[j] \notin StepStarts

\* What comes next is in a process on any host that the runner may be on.
Moves(r) == \E h \in HostsOf[r[2]] : host' = [host EXCEPT ![r] = h]

\* Mutant of Fails: a durable step has one attempt too many.
Fails_OneTooMany(r) ==
  IF r[2] = "durable" /\ attempt[r] <= MaxAttempts /\ ask[r[1]].kind = "qa"
  THEN /\ pos' = [pos EXCEPT ![r] = StepStart(r)]
       /\ attempt' = [attempt EXCEPT ![r] = @ + 1]
       /\ Moves(r)
  ELSE pos' = [pos EXCEPT ![r] = Failed] /\ UNCHANGED <<attempt, host>>

\* An exception, or the end of the process. Inngest runs the step again.
Fails(r) ==
  IF r[2] = "durable" /\ attempt[r] < MaxAttempts /\ ask[r[1]].kind = "qa"
  THEN /\ pos' = [pos EXCEPT ![r] = StepStart(r)]
       /\ attempt' = [attempt EXCEPT ![r] = @ + 1]
       /\ Moves(r)
  ELSE pos' = [pos EXCEPT ![r] = Failed] /\ UNCHANGED <<attempt, host>>

StartsStep(r, i) == i \in DOMAIN Statements(r) /\ Statements(r)[i] \in StepStarts

\* On to the next statement; in the next step attempts are counted anew. A direct
\* runner stays where it is once it has begun.
Goes(r) ==
  /\ pos' = [pos EXCEPT ![r] = @ + 1]
  /\ attempt' = [attempt EXCEPT ![r] = IF StartsStep(r, pos[r] + 1) THEN 1 ELSE @]
  /\ IF StartsStep(r, pos[r] + 1) /\ (r[2] = "durable" \/ pos[r] = 1)
     THEN Moves(r) ELSE UNCHANGED host

\* The statement was carried out: the runner goes on, or its answer is lost, or
\* the process dies before Inngest has the step's output.
Done(r) ==
  \/ Goes(r) /\ UNCHANGED faults
  \/ faults < MaxFaults /\ faults' = faults + 1 /\ Fails(r)

--------------------------------------------------------------------------------
\* workflow_started: an event, whose loss is logged.
Start(r) ==
  /\ Doing(r, "started")
  /\ Done(r)
  /\ UNCHANGED <<snapshot, snapshots, indexed, transcripts, jobState, disk>>

UpdateState(r) ==
  /\ \E s \in JobStates : Doing(r, s) /\ jobState' = [jobState EXCEPT ![r[1]] = s]
  /\ Done(r)
  /\ UNCHANGED <<snapshot, snapshots, indexed, transcripts, disk>>

MarkCompleted(r) ==
  /\ Doing(r, "complete")
  /\ jobState' = [jobState EXCEPT ![r[1]] = "done"]
  /\ Done(r)
  /\ UNCHANGED <<snapshot, snapshots, indexed, transcripts, disk>>

\* A snapshot row, once there, stays.
FindSnapshot(r) ==
  /\ Doing(r, "find")
  /\ snapshot' = [snapshot EXCEPT ![r] = source[r[1]]]
  /\ Done(r)
  /\ UNCHANGED <<snapshots, indexed, transcripts, jobState, disk>>

--------------------------------------------------------------------------------
(* GitHubAdapter.clone and Indexer.index, over a tree that may be shared.   *)

TreeOf(r) == <<r[1], host[r]>>

Gone(r) == tree[TreeOf(r)] = "absent"

\* rm -rf, whoever the files are of.
Remove(r) ==
  /\ tree' = [tree EXCEPT ![TreeOf(r)] = "absent"]
  /\ robbed' = (robbed \ {r}) \cup {q \in Runners \ {r} : TreeOf(q) = TreeOf(r)}

Wipe(r) ==
  /\ Doing(r, "wipe")
  /\ Remove(r)
  /\ Done(r)
  /\ UNCHANGED <<snapshot, snapshots, indexed, transcripts, jobState>>

\* The first files of the copy or checkout, and the directory ...
Copy(r) ==
  /\ Doing(r, "copy")
  /\ tree' = [tree EXCEPT ![TreeOf(r)] = IF Gone(r) THEN "part" ELSE @]
  /\ Done(r)
  /\ UNCHANGED <<snapshot, snapshots, indexed, transcripts, jobState, robbed>>

\* ... and the others, for which a directory that is gone is an error: the catch
\* block removes what is there and throws.
CheckOut(r) ==
  /\ Doing(r, "checkout")
  /\ \/ ~Gone(r) /\ Done(r) /\ UNCHANGED robbed
        /\ tree' = [tree EXCEPT ![TreeOf(r)] = IF r \in robbed THEN @ ELSE "whole"]
     \/ Gone(r) /\ Remove(r) /\ Fails(r) /\ UNCHANGED faults
  /\ UNCHANGED <<snapshot, snapshots, indexed, transcripts, jobState>>

\* Mutant of NewSnapshot: one row for a job, whoever clones it.
NewSnapshot_OfJob(r) == <<r[1]>>

\* A clone makes a row of its own.
NewSnapshot(r) == <<r[1], r[2], attempt[r]>>

\* countFiles throws if the tree is gone.
TakeSnapshot(r) ==
  /\ Doing(r, "snapshot")
  /\ \/ /\ ~Gone(r) /\ Done(r)
        /\ snapshots' = snapshots \cup {NewSnapshot(r)}
        /\ snapshot' = [snapshot EXCEPT ![r] = NewSnapshot(r)]
     \/ Gone(r) /\ Fails(r) /\ UNCHANGED <<snapshots, snapshot, faults>>
  /\ UNCHANGED <<indexed, transcripts, jobState, disk>>

\* The walk, which throws if the tree is gone, and the files rows, which throws
\* when they are there.
Walk(r) ==
  /\ Doing(r, "walk")
  /\ \/ /\ ~Gone(r) /\ snapshot[r] \notin indexed /\ Done(r)
        /\ indexed' = indexed \cup {snapshot[r]}
        /\ robbed' = robbed \ {r}
     \/ /\ Gone(r) \/ snapshot[r] \in indexed
        /\ Fails(r) /\ UNCHANGED <<indexed, robbed, faults>>
  /\ UNCHANGED <<snapshot, snapshots, transcripts, jobState, tree>>

\* ts-morph reads the files again, and throws if one is gone: in a tree that was
\* wiped since the walk, unless another runner has put them back.
Parse(r) ==
  /\ Doing(r, "parse")
  /\ \/ (r \in robbed => ~Gone(r)) /\ Done(r)
     \/ r \in robbed /\ tree[TreeOf(r)] # "whole" /\ Fails(r) /\ UNCHANGED faults
  /\ UNCHANGED <<snapshot, snapshots, indexed, transcripts, jobState, disk>>

--------------------------------------------------------------------------------
\* Mutant of AskQuestion: without an answer there is no exception.
AskQuestion_GaveUp(r) ==
  /\ Doing(r, "ask")
  /\ \/ transcripts' = transcripts \cup {<<r[1], snapshot[r]>>} /\ Done(r)
     \/ /\ faults < MaxFaults /\ faults' = faults + 1
        /\ Goes(r) /\ UNCHANGED transcripts
  /\ UNCHANGED <<snapshot, snapshots, indexed, jobState, disk>>

\* QaService.ask returns when it has inserted a transcript.
AskQuestion(r) ==
  /\ Doing(r, "ask")
  /\ transcripts' = transcripts \cup {<<r[1], snapshot[r]>>}
  /\ Done(r)
  /\ UNCHANGED <<snapshot, snapshots, indexed, jobState, disk>>

\* The audit of the direct runner.
Audit(r) ==
  /\ Doing(r, "audit")
  /\ Done(r)
  /\ UNCHANGED <<snapshot, snapshots, indexed, transcripts, jobState, disk>>

\* A job of another agent: to its end.
RunOther(r) ==
  /\ Doing(r, "run")
  /\ Goes(r)
  /\ UNCHANGED <<snapshot, snapshots, indexed, transcripts, jobState, disk, faults>>

\* A call of the runner fails, the model gives no answer, or the process dies. The
\* catch block of a clone that failed removes the tree; a dead process has none.
RunnerFails(r) ==
  /\ Active(r)
  /\ faults < MaxFaults /\ faults' = faults + 1
  /\ \/ UNCHANGED disk
     \/ (Doing(r, "copy") \/ Doing(r, "checkout")) /\ Remove(r)
  /\ Fails(r)
  /\ UNCHANGED <<snapshot, snapshots, indexed, transcripts, jobState>>

RunnerStep(r) ==
  \/ Start(r)
  \/ UpdateState(r)
  \/ MarkCompleted(r)
  \/ FindSnapshot(r)
  \/ Wipe(r)
  \/ Copy(r)
  \/ CheckOut(r)
  \/ TakeSnapshot(r)
  \/ Walk(r)
  \/ Parse(r)
  \/ AskQuestion(r)
  \/ Audit(r)
  \/ RunOther(r)

================================================================================
