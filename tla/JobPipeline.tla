------------------------------ MODULE JobPipeline ------------------------------
(***************************************************************************)
(* One job of a code-changing agent (migrate, refactor, security_audit),    *)
(* carried out by its runners:                                              *)
(*                                                                          *)
(*   - a Durable runner is the Inngest workflow. Each phase is a step.run;  *)
(*     a step whose body throws, or whose process dies before Inngest has   *)
(*     stored its output, is run again from its first line, MaxAttempts     *)
(*     times in all, possibly on another host. A stored output is never     *)
(*     computed again.                                                      *)
(*   - any other runner is run{Migrate,Refactor,Security}Direct: the same   *)
(*     statements in one process, where the first exception is the end.     *)
(*                                                                          *)
(* The web dispatcher starts one of each for every job.  They share the job *)
(* row, every table, and, on the same host, the working tree, whose path is *)
(* a function of the job id.  Every SQL statement commits by itself.        *)
(*                                                                          *)
(* A file here is a file that some rule matches and that shares no import   *)
(* with the others: Retrieval makes one batch of it.  The LLM's reply for   *)
(* it may hold several entries, and each of them becomes a patch.  What the *)
(* audit step does inside is AuditSigning's subject; here it is one step.   *)
(*                                                                          *)
(* A failure either throws, which ends the step, or is logged and swallowed:*)
(* a lost event, a file that the Indexer or Retrieval could not read.       *)
(***************************************************************************)
EXTENDS Integers, FiniteSets

CONSTANTS
  Runners,       \* the runners of the job
  Durable,       \* those that Inngest runs
  Hosts,         \* machines with a file system of their own
  HostsOf,       \* where the processes of a runner may be placed
  Files,         \* the files of the repository
  Outcomes,      \* what the LLM may make of a file: see Outcome
  Untestable,    \* files for whose patches the LLM never finds a test
  NoSnapshot,    \* the runner has no snapshot yet
  MaxAttempts,   \* attempts of a durable step: retries + 1
  MaxEntries,    \* bound: entries of one reply for a file
  MaxFaults      \* bound: crashes and failed calls in a behaviour

ASSUME RunnersAssumption ==
  /\ Durable \subseteq Runners
  /\ HostsOf \in [Runners -> (SUBSET Hosts) \ {{}}]

ASSUME BoundsAssumption ==
  /\ MaxAttempts \in Nat \ {0}
  /\ MaxEntries \in Nat \ {0}
  /\ MaxFaults \in Nat
  /\ IsFiniteSet(Files) /\ Files # {}

\* Patches, an unresolved stub because the LLM gave up, or nothing to change.
Outcome == {"proposed", "unresolved", "noop"}

\* How many patches the Surgeon may make of each: one for every entry of the reply
\* that changes the file, whether or not an earlier entry names the same file.
Entries == [proposed |-> 1..MaxEntries, unresolved |-> {1}, noop |-> {0}]

ASSUME LlmAssumption == Outcomes \subseteq Outcome /\ Outcomes # {}

Attempt == 1..MaxAttempts

\* Rows are named by what inserted them.
SnapshotId == Runners \X Attempt
PatchId == Runners \X Files \X Attempt \X (1..MaxEntries)

ASSUME MarkersAssumption == NoSnapshot \notin SnapshotId

\* A working tree is the set of its files; one that is not there has none. (The
\* directory is made together with the first file in it.)
Absent == {}

VARIABLES
  jobState,      \* jobs.state
  completedAt,   \* whether jobs.completed_at is set
  disk,          \* the files of the job's working tree on every host
  snapshots,     \* repo_snapshots rows of the job
  fileRows,      \* files rows, as pairs of a snapshot and a file
  patches,       \* patches rows
  tests,         \* generated_tests rows
  log,           \* audit_events rows that a property speaks of
  phase,         \* the phase each runner is in
  at,            \* the next statement of that phase
  attempt,       \* the attempt of the current step
  host,          \* where a runner's current process is
  todo,          \* files a clone has yet to copy, or an index has yet to parse
  unread,        \* files that were there and that index or retrieve failed to read
  snapshot,      \* the snapshot id a runner got from its clone
  batchAt,       \* the next statement of the batch of every file
  batchAttempt,  \* the attempt of every batch step
  held,          \* the patches a batch has in memory: result.patches
  counted,       \* ids of the patches the batches have returned
  candidates,    \* patches the examine step has read
  faults         \* crashes and failed calls so far

job == <<jobState, completedAt>>
rows == <<snapshots, fileRows, patches, tests, log>>
control == <<phase, at, attempt>>
memory == <<host, todo, unread, snapshot, counted, candidates>>
batching == <<batchAt, batchAttempt, held>>

vars == <<job, disk, rows, control, memory, batching, faults>>

--------------------------------------------------------------------------------
Phases == {"clone", "index", "plan", "retrieve", "mark", "patch", "finalize",
           "examine", "audit"}

\* Mutant of NextPhase: the plan is made before the index.
NextPhase_PlanFirst ==
  [clone |-> "plan", plan |-> "index", index |-> "retrieve",
   retrieve |-> "mark", mark |-> "patch", patch |-> "finalize",
   finalize |-> "examine", examine |-> "audit"]

NextPhase ==
  [clone |-> "index", index |-> "plan", plan |-> "retrieve",
   retrieve |-> "mark", mark |-> "patch", patch |-> "finalize",
   finalize |-> "examine", examine |-> "audit"]

\* The job state a phase writes first, and the one it writes last.
Pre == [clone |-> "cloning", index |-> "indexing", plan |-> "planning",
        mark |-> "patching", examine |-> "testing", audit |-> "auditing"]

Post == [clone |-> "cloned", index |-> "indexed", plan |-> "planned",
         finalize |-> "patched", examine |-> "tested", audit |-> "audited"]

\* The first statement of a phase, and the one after it has written Pre.
First(p) == IF p \in DOMAIN Pre THEN "begin"
            ELSE CASE p = "retrieve" -> "body"
                   [] p = "patch" -> "batches"
                   [] p = "finalize" -> "end"

AfterPre == [clone |-> "wipe", index |-> "body", plan |-> "end",
             mark |-> "returned", examine |-> "body", audit |-> "body"]

JobStates == {"draft", "done", "failed"} \cup {Pre[p] : p \in DOMAIN Pre}
               \cup {Post[p] : p \in DOMAIN Post}

Statements == {"begin", "wipe", "copy", "snapshot", "body", "persist", "end",
               "parse", "emit", "complete", "batches", "returned", "failed", "finished"}

BatchStatements == {"none", "start", "reply", "persisted", "done", "failed"}

Patch == [id : PatchId, snapshot : SnapshotId, file : Files,
          status : {"proposed", "unresolved"}]

Test == [by : Runners, attempt : Attempt, patch : PatchId, snapshot : SnapshotId]

\* patch_proposed names the patch. (patch_unresolved names only the file, and no
\* property speaks of it.)
PatchEvent(id) == [type |-> "patch_event", patch |-> id]
CompletedEvent(r, n) ==
  [type |-> "workflow_completed", by |-> r, snapshot |-> snapshot[r], count |-> n]
SignedEvent(r, ids) == [type |-> "audit_signed", by |-> r, covers |-> ids]

\* The patches whose events are in the log, as the auditor reads it.
PatchesInLog == {e.patch : e \in {x \in log : x.type = "patch_event"}}

Init ==
  /\ jobState = "draft"
  /\ completedAt = FALSE
  /\ disk = [h \in Hosts |-> Absent]
  /\ snapshots = {} /\ fileRows = {} /\ patches = {} /\ tests = {} /\ log = {}
  /\ phase = [r \in Runners |-> "clone"]
  /\ at = [r \in Runners |-> "begin"]
  /\ attempt = [r \in Runners |-> 1]
  /\ host \in [Runners -> Hosts]
  /\ \A r \in Runners : host[r] \in HostsOf[r]
  /\ todo = [r \in Runners |-> {}]
  /\ unread = [r \in Runners |-> {}]
  /\ snapshot = [r \in Runners |-> NoSnapshot]
  /\ batchAt = [r \in Runners |-> [f \in Files |-> "none"]]
  /\ batchAttempt = [r \in Runners |-> [f \in Files |-> 1]]
  /\ held = [r \in Runners |-> [f \in Files |-> {}]]
  /\ counted = [r \in Runners |-> {}]
  /\ candidates = [r \in Runners |-> {}]
  /\ faults = 0

--------------------------------------------------------------------------------
At(r, p, stmt) == phase[r] = p /\ at[r] = stmt

Goto(r, stmt) ==
  /\ at' = [at EXCEPT ![r] = stmt]
  /\ UNCHANGED <<phase, attempt>>

\* Mutant of Fail: a durable step has one attempt too many.
Fail_OneTooMany(r) ==
  \/ /\ r \in Durable /\ attempt[r] <= MaxAttempts
     /\ attempt' = [attempt EXCEPT ![r] = @ + 1]
     /\ at' = [at EXCEPT ![r] = First(phase[r])]
     /\ UNCHANGED <<phase, host>>
  \/ /\ ~(r \in Durable /\ attempt[r] <= MaxAttempts)
     /\ at' = [at EXCEPT ![r] = "failed"]
     /\ UNCHANGED <<phase, attempt, host>>

\* Mutant of Fail: a durable step has one attempt too few.
Fail_OneTooFew(r) ==
  \/ /\ r \in Durable /\ attempt[r] < MaxAttempts - 1
     /\ attempt' = [attempt EXCEPT ![r] = @ + 1]
     /\ at' = [at EXCEPT ![r] = First(phase[r])]
     /\ UNCHANGED <<phase, host>>
  \/ /\ ~(r \in Durable /\ attempt[r] < MaxAttempts - 1)
     /\ at' = [at EXCEPT ![r] = "failed"]
     /\ UNCHANGED <<phase, attempt, host>>

\* The step throws or its process dies. Inngest runs a durable step again, on
\* any host, while it has attempts left; otherwise the run is over, and nothing
\* is written anywhere to say so.
Fail(r) ==
  \/ /\ r \in Durable /\ attempt[r] < MaxAttempts
     /\ attempt' = [attempt EXCEPT ![r] = @ + 1]
     /\ at' = [at EXCEPT ![r] = First(phase[r])]
     /\ \E h \in HostsOf[r] : host' = [host EXCEPT ![r] = h]
     /\ UNCHANGED phase
  \/ /\ ~(r \in Durable /\ attempt[r] < MaxAttempts)
     /\ at' = [at EXCEPT ![r] = "failed"]
     /\ UNCHANGED <<phase, attempt, host>>

\* The event rows are inserted, or the insert of some of them fails and
\* emitAuditEvent goes on.
Emit(events) ==
  \/ log' = log \cup events /\ UNCHANGED faults
  \/ /\ faults < MaxFaults /\ faults' = faults + 1
     /\ \E landed \in SUBSET events : landed # events /\ log' = log \cup landed

--------------------------------------------------------------------------------
(* What every phase has in common.                                          *)

\* updateState(Pre): unconditional, whatever the state was.
Begin(r) ==
  /\ at[r] = "begin"
  /\ jobState' = Pre[phase[r]]
  /\ Goto(r, AfterPre[phase[r]])
  /\ UNCHANGED <<completedAt, disk, rows, memory, batching, faults>>

\* updateState(Post). finalize goes on to its event, audit to markCompleted.
End(r) ==
  /\ at[r] = "end"
  /\ jobState' = Post[phase[r]]
  /\ Goto(r, CASE phase[r] = "finalize" -> "emit"
               [] phase[r] = "audit" -> "complete"
               [] OTHER -> "returned")
  /\ UNCHANGED <<completedAt, disk, rows, memory, batching, faults>>

\* Inngest stores the step's output and invokes the function for the next one,
\* on any host; the direct runner's process goes on to its next line.
Proceed(r) ==
  /\ at[r] = "returned"
  /\ IF phase[r] = "audit"
     THEN Goto(r, "finished") /\ UNCHANGED host
     ELSE /\ phase' = [phase EXCEPT ![r] = NextPhase[@]]
          /\ at' = [at EXCEPT ![r] = First(NextPhase[phase[r]])]
          /\ attempt' = [attempt EXCEPT ![r] = 1]
          /\ \E h \in IF r \in Durable THEN HostsOf[r] ELSE {host[r]} :
               host' = [host EXCEPT ![r] = h]
  /\ UNCHANGED <<job, disk, rows, todo, unread, snapshot, counted, candidates, batching,
                 faults>>

\* A call of the current step fails, or its process dies: anywhere in the step,
\* also between its last statement and Inngest storing its output.
Fault(r) ==
  /\ at[r] \notin {"failed", "finished", "batches"}
  /\ faults < MaxFaults
  /\ faults' = faults + 1
  /\ Fail(r)
  /\ UNCHANGED <<job, disk, rows, todo, unread, snapshot, counted, candidates, batching>>

--------------------------------------------------------------------------------
(* clone: GitHubAdapter.clone.                                              *)

\* Mutant of Wipe: a tree that is already there is taken as the clone.
Wipe_ReuseTree(r) ==
  /\ At(r, "clone", "wipe")
  /\ todo' = [todo EXCEPT ![r] = Files]
  /\ Goto(r, IF disk[host[r]] = Absent THEN "copy" ELSE "snapshot")
  /\ UNCHANGED <<disk, job, rows, host, unread, snapshot, counted, candidates, batching,
                 faults>>

\* rm -rf of the job's tree, whoever made it.
Wipe(r) ==
  /\ At(r, "clone", "wipe")
  /\ disk' = [disk EXCEPT ![host[r]] = Absent]
  /\ todo' = [todo EXCEPT ![r] = Files]
  /\ Goto(r, "copy")
  /\ UNCHANGED <<job, rows, host, unread, snapshot, counted, candidates, batching,
                 faults>>

\* The catch block: rm -rf, clone_failed, throw.
CloneThrows(r) ==
  /\ disk' = [disk EXCEPT ![host[r]] = Absent]
  /\ Fail(r)
  /\ UNCHANGED <<job, rows, todo, unread, snapshot, counted, candidates, batching>>

\* One file of the copy or checkout. The first one also makes the directory;
\* for a later one a directory that is gone is an error.
CopyFile(r) ==
  /\ At(r, "clone", "copy")
  /\ \/ /\ disk[host[r]] # Absent \/ todo[r] = Files
        /\ \E f \in todo[r] :
             /\ disk' = [disk EXCEPT ![host[r]] = disk[host[r]] \cup {f}]
             /\ todo' = [todo EXCEPT ![r] = @ \ {f}]
             /\ Goto(r, IF todo[r] = {f} THEN "snapshot" ELSE "copy")
        /\ UNCHANGED <<job, rows, host, unread, snapshot, counted, candidates, batching>>
     \/ /\ disk[host[r]] = Absent /\ todo[r] # Files
        /\ CloneThrows(r)
  /\ UNCHANGED faults

\* The network, the remote or the file system fails the clone.
CloneError(r) ==
  /\ At(r, "clone", "copy")
  /\ faults < MaxFaults
  /\ faults' = faults + 1
  /\ CloneThrows(r)

\* countFiles throws if the tree is gone; otherwise the snapshot row is inserted.
TakeSnapshot(r) ==
  /\ At(r, "clone", "snapshot")
  /\ \/ /\ disk[host[r]] # Absent
        /\ snapshots' = snapshots \cup {<<r, attempt[r]>>}
        /\ snapshot' = [snapshot EXCEPT ![r] = <<r, attempt[r]>>]
        /\ Goto(r, "end")
        /\ UNCHANGED host
     \/ /\ disk[host[r]] = Absent
        /\ Fail(r)
        /\ UNCHANGED <<snapshots, snapshot>>
  /\ UNCHANGED <<job, disk, fileRows, patches, tests, log, todo, unread,
                 counted, candidates, batching, faults>>

--------------------------------------------------------------------------------
(* index, retrieve.                                                         *)

\* Reads of these files fail, are logged and swallowed.
Swallow(files) ==
  \/ files = {} /\ UNCHANGED faults
  \/ files # {} /\ faults < MaxFaults /\ faults' = faults + 1

\* Indexer.index: walk the tree, which throws if there is none and passes over a
\* file whose stat or read fails, and insert the files rows, which throws if the
\* snapshot has a row for one of them.
IndexFiles(r) ==
  LET tree == disk[host[r]]
  IN  /\ At(r, "index", "body")
      /\ \/ /\ tree # Absent
            /\ \E skipped \in SUBSET tree :
                 LET new == {snapshot[r]} \X (tree \ skipped)
                 IN  /\ Swallow(skipped)
                     /\ new \cap fileRows = {}
                     /\ fileRows' = fileRows \cup new
                     /\ unread' = [unread EXCEPT ![r] = skipped]
                     /\ todo' = [todo EXCEPT ![r] = tree \ skipped]
            /\ Goto(r, "parse")
            /\ UNCHANGED host
         \/ /\ \/ tree = Absent
               \/ ({snapshot[r]} \X tree) \cap fileRows # {}
            /\ Fail(r)
            /\ UNCHANGED <<fileRows, unread, todo, faults>>
      /\ UNCHANGED <<job, disk, snapshots, patches, tests, log, snapshot, counted,
                     candidates, batching>>

\* ts-morph reads every file again, which throws if one is gone; the import and
\* symbol rows follow. (A file that does not parse is logged and keeps its row.)
ParseFiles(r) ==
  /\ At(r, "index", "parse")
  /\ \/ todo[r] \subseteq disk[host[r]] /\ Goto(r, "end") /\ UNCHANGED host
     \/ ~(todo[r] \subseteq disk[host[r]]) /\ Fail(r)
  /\ UNCHANGED <<job, disk, rows, todo, unread, snapshot, counted, candidates,
                 batching, faults>>

\* Mutant of Retrieve: the files of the tree, indexed or not.
Retrieve_FromDisk(r) ==
  /\ At(r, "retrieve", "body")
  /\ batchAt' = [batchAt EXCEPT ![r] =
                   [f \in Files |-> IF f \in disk[host[r]] THEN "start" ELSE "none"]]
  /\ Goto(r, "returned")
  /\ UNCHANGED <<job, disk, rows, memory, batchAttempt, held, faults>>

\* RetrievalService.retrieve: the indexed files whose contents can be read now,
\* one batch for each. A file that is gone, or whose read fails, has no contents
\* and matches no rule.
Retrieve(r) ==
  LET found == {f \in disk[host[r]] : <<snapshot[r], f>> \in fileRows}
  IN  /\ At(r, "retrieve", "body")
      /\ \E missed \in SUBSET found :
           /\ Swallow(missed)
           /\ unread' = [unread EXCEPT ![r] = @ \cup missed]
           /\ batchAt' = [batchAt EXCEPT ![r] =
                [f \in Files |-> IF f \in found \ missed THEN "start" ELSE "none"]]
      /\ Goto(r, "returned")
      /\ UNCHANGED <<job, disk, rows, host, todo, snapshot, counted, candidates,
                     batchAttempt, held>>

--------------------------------------------------------------------------------
(* patch: one step.run, or one promise, for every batch.                    *)

BatchGoto(r, f, stmt) == batchAt' = [batchAt EXCEPT ![r][f] = stmt]
Hold(r, f, ps) == held' = [held EXCEPT ![r][f] = ps]

\* A batch throws, and what it had in memory is lost. Inngest retries a durable
\* one. Otherwise Promise.all rejects and the run is over, but the other batches
\* are not cancelled.
BatchFail(r, f) ==
  /\ Hold(r, f, {})
  /\ \/ /\ r \in Durable /\ batchAttempt[r][f] < MaxAttempts
        /\ batchAttempt' = [batchAttempt EXCEPT ![r][f] = @ + 1]
        /\ BatchGoto(r, f, "start")
        /\ UNCHANGED control
     \/ /\ ~(r \in Durable /\ batchAttempt[r][f] < MaxAttempts)
        /\ BatchGoto(r, f, "failed")
        /\ Goto(r, "failed")
        /\ UNCHANGED batchAttempt

InPatchPhase(r, f) == phase[r] = "patch" /\ batchAt[r][f] \notin {"none", "done", "failed"}

\* What migrateBatch makes of n entries, with fresh ids.
PatchesOf(r, f, outcome, n) ==
  {[id |-> <<r, f, batchAttempt[r][f], k>>, snapshot |-> snapshot[r], file |-> f,
    status |-> outcome] : k \in 1..n}

\* SurgeonService.migrateBatch: read the file, which throws if it is gone, ask
\* the LLM, and emit an event for every patch before any row exists.
Surgeon(r, f) ==
  /\ InPatchPhase(r, f) /\ batchAt[r][f] = "start"
  /\ \E h \in IF r \in Durable THEN HostsOf[r] ELSE {host[r]} :
       \/ /\ f \in disk[h]
          /\ \E outcome \in Outcomes : \E n \in Entries[outcome] :
               /\ Hold(r, f, PatchesOf(r, f, outcome, n))
               /\ Emit({PatchEvent(p.id) : p \in IF outcome = "proposed"
                                                THEN PatchesOf(r, f, outcome, n) ELSE {}})
          /\ BatchGoto(r, f, "reply")
          /\ UNCHANGED <<control, batchAttempt>>
       \/ /\ f \notin disk[h]
          /\ BatchFail(r, f)
          /\ UNCHANGED <<log, faults>>
  /\ UNCHANGED <<job, disk, snapshots, fileRows, patches, tests, memory>>

\* Mutant of PersistPatch: one row for every file, as an upsert would leave.
PersistPatch_OnePerFile(r, f) ==
  /\ InPatchPhase(r, f) /\ batchAt[r][f] = "reply" /\ held[r][f] # {}
  /\ patches' = patches \cup {p \in held[r][f] : p.id[4] = 1}
  /\ BatchGoto(r, f, "persisted")
  /\ UNCHANGED <<job, disk, snapshots, fileRows, tests, log, control, memory,
                 batchAttempt, held, faults>>

\* persistPatches, when there are any: one plain INSERT.
PersistPatch(r, f) ==
  /\ InPatchPhase(r, f) /\ batchAt[r][f] = "reply" /\ held[r][f] # {}
  /\ patches' = patches \cup held[r][f]
  /\ BatchGoto(r, f, "persisted")
  /\ UNCHANGED <<job, disk, snapshots, fileRows, tests, log, control, memory,
                 batchAttempt, held, faults>>

\* The batch's output, whose patchCount is the length of result.patches, reaches
\* the workflow.
BatchReturns(r, f) ==
  /\ InPatchPhase(r, f)
  /\ \/ batchAt[r][f] = "persisted"
     \/ batchAt[r][f] = "reply" /\ held[r][f] = {}
  /\ counted' = [counted EXCEPT ![r] = @ \cup {p.id : p \in held[r][f]}]
  /\ Hold(r, f, {})
  /\ BatchGoto(r, f, "done")
  /\ UNCHANGED <<job, disk, rows, control, host, todo, unread, snapshot, candidates,
                 batchAttempt, faults>>

\* A call of the batch fails, or, for a durable one, its process dies.
BatchFault(r, f) ==
  /\ InPatchPhase(r, f)
  /\ faults < MaxFaults
  /\ faults' = faults + 1
  /\ BatchFail(r, f)
  /\ UNCHANGED <<job, disk, rows, memory>>

\* The direct runner's process dies, and all its batches with it.
DirectCrash(r) ==
  /\ r \notin Durable
  /\ phase[r] = "patch"
  /\ \E f \in Files : InPatchPhase(r, f)
  /\ faults < MaxFaults
  /\ faults' = faults + 1
  /\ Goto(r, "failed")
  /\ batchAt' = [batchAt EXCEPT ![r] = [f \in Files |->
                   IF InPatchPhase(r, f) THEN "failed" ELSE @[f]]]
  /\ held' = [held EXCEPT ![r] = [f \in Files |-> {}]]
  /\ UNCHANGED <<job, disk, rows, memory, batchAttempt>>

\* Promise.all resolves when every batch has returned.
Join(r) ==
  /\ At(r, "patch", "batches")
  /\ \A f \in Files : batchAt[r][f] \in {"none", "done"}
  /\ phase' = [phase EXCEPT ![r] = "finalize"]
  /\ at' = [at EXCEPT ![r] = First("finalize")]
  /\ attempt' = [attempt EXCEPT ![r] = 1]
  /\ UNCHANGED <<job, disk, rows, memory, batching, faults>>

--------------------------------------------------------------------------------
(* finalize, examine, audit.                                                *)

\* The workflow_completed event, with the sum of the batches' patchCounts.
EmitCompleted(r) ==
  /\ At(r, "finalize", "emit")
  /\ Emit({CompletedEvent(r, Cardinality(counted[r]))})
  /\ Goto(r, "returned")
  /\ UNCHANGED <<job, disk, snapshots, fileRows, patches, tests, memory, batching>>

\* Mutant of ReadPatches: of the patches of one file only the last is examined.
ReadPatches_LastOfFile(r) ==
  LET found == {p \in patches :
                  /\ p.status = "proposed"
                  /\ ~\E q \in patches : /\ q.file = p.file
                                          /\ \/ q.id[3] > p.id[3]
                                             \/ q.id[4] > p.id[4]}
  IN  /\ At(r, "examine", "body")
      /\ candidates' = [candidates EXCEPT ![r] = found]
      /\ Goto(r, IF found = {} THEN "end" ELSE "persist")
      /\ UNCHANGED <<job, disk, rows, host, todo, unread, snapshot, counted, batching,
                     faults>>

\* Read every patch of the job, whichever runner's, that has something to test.
ReadPatches(r) ==
  LET found == {p \in patches : p.status = "proposed"}
  IN  /\ At(r, "examine", "body")
      /\ candidates' = [candidates EXCEPT ![r] = found]
      /\ Goto(r, IF found = {} THEN "end" ELSE "persist")
      /\ UNCHANGED <<job, disk, rows, host, todo, unread, snapshot, counted, batching,
                     faults>>

\* examineBatch and persistTests: a test for every patch the LLM finds one for,
\* filed under the examining runner's own snapshot.
PersistTests(r) ==
  /\ At(r, "examine", "persist")
  /\ tests' = tests \cup
       {[by |-> r, attempt |-> attempt[r], patch |-> p.id, snapshot |-> snapshot[r]] :
          p \in {c \in candidates[r] : c.file \notin Untestable}}
  /\ Goto(r, "end")
  /\ UNCHANGED <<job, disk, snapshots, fileRows, patches, log, memory, batching,
                 faults>>

\* Mutant of Sign: a retried batch's event is taken for one already reported.
Sign_FirstOfBatch(r) ==
  LET reported == {id \in PatchesInLog :
                     ~\E other \in PatchesInLog : /\ other[1] = id[1]
                                                  /\ other[2] = id[2]
                                                  /\ other[3] < id[3]}
  IN  /\ At(r, "audit", "body")
      /\ Emit({SignedEvent(r, reported)})
      /\ Goto(r, "end")
      /\ UNCHANGED <<job, disk, snapshots, fileRows, patches, tests, memory, batching>>

\* AuditorService.audit: sign the log as it is now and record the signature.
Sign(r) ==
  /\ At(r, "audit", "body")
  /\ Emit({SignedEvent(r, PatchesInLog)})
  /\ Goto(r, "end")
  /\ UNCHANGED <<job, disk, snapshots, fileRows, patches, tests, memory, batching>>

\* markCompleted.
Complete(r) ==
  /\ At(r, "audit", "complete")
  /\ jobState' = "done"
  /\ completedAt' = TRUE
  /\ Goto(r, "returned")
  /\ UNCHANGED <<disk, rows, memory, batching, faults>>

--------------------------------------------------------------------------------
\* What the code of one runner does when nothing fails around it, phase by phase.
Clone(r) == Wipe(r) \/ CopyFile(r) \/ TakeSnapshot(r)

Index(r) == IndexFiles(r) \/ ParseFiles(r)

PatchBatch(r, f) == Surgeon(r, f) \/ PersistPatch(r, f) \/ BatchReturns(r, f)

PatchFiles(r) == (\E f \in Files : PatchBatch(r, f)) \/ Join(r)

Examine(r) == ReadPatches(r) \/ PersistTests(r)

Audit(r) == Sign(r) \/ Complete(r)

Step(r) ==
  \/ Begin(r) \/ End(r) \/ Proceed(r)
  \/ Clone(r) \/ Index(r) \/ Retrieve(r) \/ PatchFiles(r)
  \/ EmitCompleted(r) \/ Examine(r) \/ Audit(r)

Failure(r) ==
  \/ Fault(r) \/ CloneError(r) \/ DirectCrash(r)
  \/ \E f \in Files : BatchFault(r, f)

Next == \E r \in Runners : Step(r) \/ Failure(r)

Spec == Init /\ [][Next]_vars

\* Inngest goes on invoking a function until it has finished or failed, and a
\* process that does not die goes on. Nothing is assumed about failures.
Fairness == \A r \in Runners : WF_vars(Step(r))

FairSpec == Spec /\ Fairness

--------------------------------------------------------------------------------
\* Every table and every runner's memory keeps its type: no step is attempted more
\* often than Inngest allows, and no row refers to an id that nothing inserted.
TypeOK ==
  /\ jobState \in JobStates
  /\ completedAt \in BOOLEAN
  /\ disk \in [Hosts -> SUBSET Files]
  /\ snapshots \subseteq SnapshotId
  /\ fileRows \subseteq SnapshotId \X Files
  /\ patches \subseteq Patch
  /\ tests \subseteq Test
  /\ phase \in [Runners -> Phases]
  /\ at \in [Runners -> Statements]
  /\ attempt \in [Runners -> Attempt]
  /\ host \in [Runners -> Hosts]
  /\ todo \in [Runners -> SUBSET Files]
  /\ unread \in [Runners -> SUBSET Files]
  /\ snapshot \in [Runners -> SnapshotId \cup {NoSnapshot}]
  /\ batchAt \in [Runners -> [Files -> BatchStatements]]
  /\ batchAttempt \in [Runners -> [Files -> Attempt]]
  /\ held \in [Runners -> [Files -> SUBSET Patch]]
  /\ counted \in [Runners -> SUBSET PatchId]
  /\ candidates \in [Runners -> SUBSET Patch]
  /\ faults \in 0..MaxFaults

\* A summary never overstates: a workflow_completed event that reports n patches
\* is backed by at least n rows of that run under its snapshot, whatever was
\* retried, whichever batches finished first, and however many patches the LLM
\* made of one file (migrate-repository.ts, 246-277).
SummaryNeverOverstates ==
  \A e \in log : e.type = "workflow_completed" =>
    e.count <= Cardinality({p \in patches :
                              p.id[1] = e.by /\ p.snapshot = e.snapshot})

\* Every patch is of a file indexed under the snapshot it names, also when another
\* runner replaces the working tree between a run's index and its retrieve.
PatchesPointAtIndexedFiles ==
  \A p \in patches : <<p.snapshot, p.file>> \in fileRows

\* A run that finished examined every patch it proposed, including those a batch
\* persisted before it crashed and was retried.
FinishedRunExaminedItsPatches ==
  \A r \in Runners : at[r] = "finished" =>
    \A p \in patches : p.id[1] = r /\ p.status = "proposed" => p \in candidates[r]

\* The last report a finished run signed covers every one of its patches that
\* patch_proposed told the log of. (Any event, the audit_signed row itself too, may
\* be lost: emitAuditEvent swallows failures.)
FinishedRunAuditsItsPatches ==
  \A r \in Runners : at[r] = "finished" =>
    \A e \in log : e.type = "audit_signed" /\ e.by = r =>
      \A p \in patches : p.id[1] = r /\ p.id \in PatchesInLog => p.id \in e.covers

\* A run that is alone with its job, had all its steps run on one machine of its
\* own, and finished, has indexed the whole repository, not what a crashed clone
\* had left of it, and has taken every file through its batch: between clone and
\* finalize nothing is dropped but the files whose reads failed and were logged.
FinishedRunIsWhole ==
  \A r \in Runners : at[r] = "finished" =>
    \A f \in Files \ unread[r] : /\ <<snapshot[r], f>> \in fileRows
                                 /\ batchAt[r][f] = "done"

\* Where a state stands in the order of STATE-OF-RENATUS.md, 85.
Rank == [draft |-> 0, cloning |-> 1, cloned |-> 2, indexing |-> 3, indexed |-> 4,
         planning |-> 5, planned |-> 6, patching |-> 7, patched |-> 8,
         testing |-> 9, tested |-> 10, auditing |-> 11, audited |-> 12,
         done |-> 13, failed |-> 13]

\* With one runner the job moves forward, except when Inngest runs a step again,
\* which takes it back to where that step begins and no further.
MovesBackOnlyToRetry ==
  [][Rank[jobState'] < Rank[jobState] =>
       \E r \in Runners : /\ attempt[r] > 1
                          /\ phase[r] \in DOMAIN Pre
                          /\ jobState' = Pre[phase[r]]]_vars

\* Fewer failures than a step has attempts cannot fail a durable run that is alone
\* with its job, with one exception: a crash after the files rows were inserted
\* makes every retry of index hit the unique index (migrate-repository.ts, 69-71).
\* It needs MaxAttempts > MaxFaults.
DurableRunFinishes ==
  \A r \in Durable : <>(at[r] = "finished" \/ (at[r] = "failed" /\ phase[r] = "index"))

--------------------------------------------------------------------------------
(* What the repository's documents say, and the code does not do.           *)

\* "The Inngest workflow is the single point that decides terminal state": a job
\* that reached its terminal state stays there.
DoneIsFinal == [][jobState = "done" => jobState' = "done"]_vars

\* The same sentence, for the other terminal state: when every run has failed, the
\* job does not stay in a state that says it is being worked on.
FailedJobIsMarked ==
  (\A r \in Runners : at[r] = "failed") ~> (jobState = "failed")
================================================================================
