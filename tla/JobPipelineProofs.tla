---------------------------- MODULE JobPipelineProofs ----------------------------
(***************************************************************************)
(* Theorems about JobPipeline, for any number of runners of one job, files, *)
(* hosts, attempts and faults. The runners share every table and, on one    *)
(* host, the working tree; what is proved rests on what they do not share:  *)
(* the snapshot each has inserted itself, and the phase it is in.           *)
(***************************************************************************)
EXTENDS JobPipeline, FiniteSetTheorems, TLAPS

\* Where a runner can be, and that it has a snapshot once its clone has returned.
Placed ==
  \A r \in Runners :
    /\ at[r] = "begin" => phase[r] \in DOMAIN Pre
    /\ at[r] = "end" => phase[r] \in DOMAIN Post
    /\ at[r] = "finished" => phase[r] = "audit"
    /\ phase[r] = "patch" => at[r] \in {"batches", "failed"}
    /\ phase[r] # "clone" \/ at[r] \in {"end", "returned"} => snapshot[r] \in SnapshotId

\* A batch is of a file that is indexed under the runner's snapshot, which no longer
\* changes.
BatchesAreIndexed ==
  \A r \in Runners, f \in Files :
    batchAt[r][f] # "none" => phase[r] # "clone" /\ <<snapshot[r], f>> \in fileRows

\* What a batch has in memory are patches of its file, of its runner and under its
\* snapshot, and they are rows once they are persisted.
HeldIsOfBatch ==
  \A r \in Runners, f \in Files : held[r][f] # {} =>
    /\ phase[r] # "clone"
    /\ \A p \in held[r][f] :
         /\ p.id[1] = r /\ p.snapshot = snapshot[r] /\ p.file = f
         /\ batchAt[r][f] = "persisted" => p \in patches

\* The table has the patch id of runner r under its snapshot s.
HasRow(table, r, s, id) == \E p \in table : p.id = id /\ p.id[1] = r /\ p.snapshot = s

\* What a runner counts as patches are rows.
CountedHaveRows ==
  \A r \in Runners : \A id \in counted[r] :
    phase[r] # "clone" /\ HasRow(patches, r, snapshot[r], id)

\* So are the patches that a summary counts.
SummariesCountRows ==
  \A e \in log : e.type = "workflow_completed" =>
    \E S \in SUBSET PatchId : /\ e.count = Cardinality(S)
                              /\ \A id \in S : HasRow(patches, e.by, e.snapshot, id)

\* There are finitely many rows, and in memory too.
FinitelyMany ==
  /\ IsFiniteSet(patches)
  /\ \A r \in Runners, f \in Files : IsFiniteSet(held[r][f])

\* From the read of the examine phase on, a runner has its proposed patches.
PastRead(r) ==
  phase[r] = "audit" \/ (phase[r] = "examine" /\ at[r] \in {"persist", "end", "returned"})

ExaminersHaveRead ==
  \A r \in Runners : PastRead(r) =>
    \A p \in patches : p.id[1] = r /\ p.status = "proposed" => p \in candidates[r]

\* Every report of a runner covers the events of its patches, and was signed in the
\* audit phase, when no more come.
ReportsCoverPatches ==
  \A e \in log : e.type = "audit_signed" =>
    /\ e.by \in Runners /\ phase[e.by] = "audit"
    /\ \A x \in log : x.type = "patch_event" /\ x.patch[1] = e.by => x.patch \in e.covers

\* The inductive invariant.
IInv ==
  /\ TypeOK
  /\ Placed
  /\ BatchesAreIndexed
  /\ PatchesPointAtIndexedFiles
  /\ HeldIsOfBatch
  /\ CountedHaveRows
  /\ SummariesCountRows
  /\ FinitelyMany
  /\ ExaminersHaveRead
  /\ ReportsCoverPatches

--------------------------------------------------------------------------------
\* The steps of Next, one by one: the case split of every proof below.
LEMMA NextCases ==
  ASSUME [Next]_vars
  PROVE  \/ \E r \in Runners :
              \/ Begin(r) \/ End(r) \/ Proceed(r) \/ Wipe(r) \/ CopyFile(r)
              \/ TakeSnapshot(r) \/ IndexFiles(r) \/ ParseFiles(r) \/ Retrieve(r)
              \/ Join(r) \/ EmitCompleted(r) \/ ReadPatches(r) \/ PersistTests(r)
              \/ Sign(r) \/ Complete(r) \/ Fault(r) \/ CloneError(r) \/ DirectCrash(r)
         \/ \E r \in Runners, f \in Files :
              Surgeon(r, f) \/ PersistPatch(r, f) \/ BatchReturns(r, f) \/ BatchFault(r, f)
         \/ UNCHANGED vars
BY DEF Next, Step, Clone, Index, PatchFiles, PatchBatch, Examine, Audit, Failure

\* The tables of phases and states.
LEMMA PhaseFacts ==
  /\ DOMAIN Pre = {"clone", "index", "plan", "mark", "examine", "audit"}
  /\ DOMAIN Post = {"clone", "index", "plan", "finalize", "examine", "audit"}
  /\ \A p \in DOMAIN Pre : /\ Pre[p] \in JobStates
                           /\ AfterPre[p] \in Statements \ {"begin", "finished"}
                           /\ AfterPre[p] = "end" => p = "plan"
                           /\ p = "clone" => AfterPre[p] = "wipe"
                           /\ p = "examine" => AfterPre[p] = "body"
                           /\ AfterPre[p] = "returned" => p = "mark"
  /\ \A p \in DOMAIN Post : Post[p] \in JobStates
  /\ \A p \in Phases \ {"audit"} : NextPhase[p] \in Phases \ {"clone"}
  /\ \A p \in Phases : NextPhase[p] = "audit" /\ p # "audit" => p = "examine"
  /\ \A p \in Phases : /\ First(p) \in {"begin", "body", "batches", "end"}
                       /\ First(p) = "begin" => p \in DOMAIN Pre
                       /\ First(p) = "end" => p = "finalize"
                       /\ p \in {"clone", "examine"} => First(p) = "begin"
                       /\ p = "patch" => First(p) = "batches"
<1>1. /\ DOMAIN Pre = {"clone", "index", "plan", "mark", "examine", "audit"}
      /\ DOMAIN Post = {"clone", "index", "plan", "finalize", "examine", "audit"}
  BY DEF Pre, Post
<1>2. \A p \in DOMAIN Pre : /\ Pre[p] \in JobStates
                            /\ AfterPre[p] \in Statements \ {"begin", "finished"}
                            /\ AfterPre[p] = "end" => p = "plan"
                            /\ p = "clone" => AfterPre[p] = "wipe"
                            /\ p = "examine" => AfterPre[p] = "body"
                            /\ AfterPre[p] = "returned" => p = "mark"
  BY <1>1 DEF AfterPre, Statements, JobStates
<1>3. \A p \in DOMAIN Post : Post[p] \in JobStates
  BY DEF JobStates
<1>4. /\ \A p \in Phases \ {"audit"} : NextPhase[p] \in Phases \ {"clone"}
      /\ \A p \in Phases : NextPhase[p] = "audit" /\ p # "audit" => p = "examine"
  BY DEF NextPhase, Phases
<1>5. \A p \in Phases : /\ First(p) \in {"begin", "body", "batches", "end"}
                        /\ First(p) = "begin" => p \in DOMAIN Pre
                        /\ First(p) = "end" => p = "finalize"
                        /\ p \in {"clone", "examine"} => First(p) = "begin"
                        /\ p = "patch" => First(p) = "batches"
  BY <1>1 DEF First, Phases
<1> QED
  BY <1>1, <1>2, <1>3, <1>4, <1>5

\* A failed attempt begins its phase again or ends the run.
LEMMA FailFacts ==
  ASSUME TypeOK, NEW r \in Runners, Fail(r)
  PROVE  /\ phase' = phase
         /\ \E s \in {"failed", First(phase[r])} : at' = [at EXCEPT ![r] = s]
         /\ at' \in [Runners -> Statements]
         /\ attempt' \in [Runners -> Attempt]
         /\ host' \in [Runners -> Hosts]
<1>1. attempt[r] < MaxAttempts => attempt[r] + 1 \in Attempt
  BY BoundsAssumption DEF TypeOK, Attempt
<1>2. First(phase[r]) \in Statements /\ "failed" \in Statements
  BY PhaseFacts DEF TypeOK, Statements
<1>3. \A h \in HostsOf[r] : h \in Hosts
  BY RunnersAssumption
<1>4. /\ at \in [Runners -> Statements] /\ attempt \in [Runners -> Attempt]
      /\ host \in [Runners -> Hosts]
  BY DEF TypeOK
<1>5. \E s \in {"failed", First(phase[r])} : at' = [at EXCEPT ![r] = s]
  BY DEF Fail
<1>6. at' \in [Runners -> Statements]
  BY <1>2, <1>4, <1>5
<1>7. attempt' \in [Runners -> Attempt]
  BY <1>1, <1>4 DEF Fail
<1>8. host' \in [Runners -> Hosts]
  BY <1>3, <1>4 DEF Fail
<1> QED
  BY <1>5, <1>6, <1>7, <1>8 DEF Fail

\* A failed batch starts again, or ends the run with it.
LEMMA BatchFailFacts ==
  ASSUME TypeOK, NEW r \in Runners, NEW f \in Files, BatchFail(r, f)
  PROVE  /\ phase' = phase /\ attempt' = attempt
         /\ at' = at \/ at' = [at EXCEPT ![r] = "failed"]
         /\ \E s \in {"start", "failed"} : batchAt' = [batchAt EXCEPT ![r][f] = s]
         /\ at' \in [Runners -> Statements]
         /\ batchAt' \in [Runners -> [Files -> BatchStatements]]
         /\ batchAttempt' \in [Runners -> [Files -> Attempt]]
         /\ held' = [held EXCEPT ![r][f] = {}]
         /\ held' \in [Runners -> [Files -> SUBSET Patch]]
<1>1. batchAttempt[r][f] < MaxAttempts => batchAttempt[r][f] + 1 \in Attempt
  BY BoundsAssumption DEF TypeOK, Attempt
<1>2. /\ at \in [Runners -> Statements]
      /\ batchAt \in [Runners -> [Files -> BatchStatements]]
      /\ batchAttempt \in [Runners -> [Files -> Attempt]]
  BY DEF TypeOK
<1>3. \E s \in {"start", "failed"} : batchAt' = [batchAt EXCEPT ![r][f] = s]
  BY DEF BatchFail, BatchGoto
<1>4. batchAt' \in [Runners -> [Files -> BatchStatements]]
  BY <1>2, <1>3 DEF BatchStatements
<1>5. batchAttempt' \in [Runners -> [Files -> Attempt]]
  <2>1. CASE batchAttempt' = batchAttempt
    BY <1>2, <2>1
  <2>2. CASE /\ batchAttempt[r][f] < MaxAttempts
             /\ batchAttempt' = [batchAttempt EXCEPT ![r][f] = @ + 1]
    BY <1>1, <1>2, <2>2
  <2> QED
    BY <2>1, <2>2 DEF BatchFail
<1>6. /\ phase' = phase /\ attempt' = attempt
      /\ at' = at \/ at' = [at EXCEPT ![r] = "failed"]
  BY DEF BatchFail, Goto, control
<1>7. at' \in [Runners -> Statements]
  BY <1>2, <1>6 DEF Statements
<1>8. held' = [held EXCEPT ![r][f] = {}]
  BY DEF BatchFail, Hold
<1>9. held' \in [Runners -> [Files -> SUBSET Patch]]
  BY <1>8 DEF TypeOK
<1> QED
  BY <1>3, <1>4, <1>5, <1>6, <1>7, <1>8, <1>9

\* Some of the events land, or all.
LEMMA EmitFacts ==
  ASSUME faults \in 0..MaxFaults, NEW events, Emit(events)
  PROVE  /\ faults' \in 0..MaxFaults
         /\ \E landed \in SUBSET events : log' = log \cup landed
BY BoundsAssumption DEF Emit

LEMMA EmitOne ==
  ASSUME NEW e, Emit({e})
  PROVE  log' = log \/ log' = log \cup {e}
<1>1. CASE log' = log \cup {e}
  BY <1>1
<1>2. ASSUME NEW landed \in SUBSET {e}, landed # {e}, log' = log \cup landed
      PROVE  log' = log
  <2>1. landed = {}
    BY <1>2
  <2> QED
    BY <1>2, <2>1
<1> QED
  BY <1>1, <1>2 DEF Emit

LEMMA SwallowFacts ==
  ASSUME faults \in 0..MaxFaults, NEW files, Swallow(files)
  PROVE  faults' \in 0..MaxFaults
BY BoundsAssumption DEF Swallow

\* What migrateBatch makes of a reply: patches of the file, each with an id.
LEMMA PatchesOfFacts ==
  ASSUME TypeOK, NEW r \in Runners, NEW f \in Files, snapshot[r] \in SnapshotId,
         NEW outcome \in Outcomes, NEW n \in Entries[outcome]
  PROVE  /\ PatchesOf(r, f, outcome, n) \subseteq Patch
         /\ IsFiniteSet(PatchesOf(r, f, outcome, n))
         /\ \A p \in PatchesOf(r, f, outcome, n) :
              p.id[1] = r /\ p.snapshot = snapshot[r] /\ p.file = f
<1> DEFINE row(k) == [id |-> <<r, f, batchAttempt[r][f], k>>, snapshot |-> snapshot[r],
                      file |-> f, status |-> outcome]
<1>1. outcome \in Outcome
  BY LlmAssumption
<1>2. n \in 0..MaxEntries /\ (n # 0 => outcome \in {"proposed", "unresolved"})
  BY <1>1, BoundsAssumption DEF Outcome, Entries
<1>3. ASSUME NEW k \in 1..n PROVE row(k) \in Patch
  <2>1. k \in 1..MaxEntries /\ outcome \in {"proposed", "unresolved"}
    BY <1>2, BoundsAssumption
  <2>2. <<r, f, batchAttempt[r][f], k>> \in PatchId
    BY <2>1 DEF TypeOK, PatchId
  <2> QED
    BY <2>1, <2>2 DEF Patch
<1>4. IsFiniteSet({row(k) : k \in 1..n})
  <2> DEFINE g == [k \in 1..n |-> row(k)]
             T == {row(k) : k \in 1..n}
  <2>1. g \in Surjection(1..n, T)
    BY DEF Surjection
  <2>2. IsFiniteSet(1..n)
    BY <1>2, FS_Interval
  <2> HIDE DEF g, T
  <2>3. IsFiniteSet(T)
    BY ONLY <2>1, <2>2, FS_Surjection
  <2> QED
    BY <2>3 DEF T
<1> QED
  BY <1>3, <1>4 DEF PatchesOf

--------------------------------------------------------------------------------
\* Every step keeps the types.
LEMMA TypeStep ==
  ASSUME TypeOK, Placed, BatchesAreIndexed, [Next]_vars
  PROVE  TypeOK'
<1> USE DEF TypeOK, job, rows, memory, batching, control
<1>1. ASSUME NEW r \in Runners, Begin(r) PROVE TypeOK'
  <2>1. phase[r] \in DOMAIN Pre
    BY <1>1 DEF Begin, Placed
  <2>2. Pre[phase[r]] \in JobStates /\ AfterPre[phase[r]] \in Statements
    BY <2>1, PhaseFacts
  <2> QED
    BY <1>1, <2>2 DEF Begin, Goto
<1>2. ASSUME NEW r \in Runners, End(r) PROVE TypeOK'
  <2>1. phase[r] \in DOMAIN Post
    BY <1>2 DEF End, Placed
  <2>2. Post[phase[r]] \in JobStates
    BY <2>1, PhaseFacts
  <2>3. \E s \in Statements : Goto(r, s)
    BY <1>2 DEF End, Statements
  <2> QED
    BY <1>2, <2>2, <2>3 DEF End, Goto
<1>3. ASSUME NEW r \in Runners, Proceed(r) PROVE TypeOK'
  <2>1. CASE phase[r] = "audit"
    BY <1>3, <2>1 DEF Proceed, Goto, Statements
  <2>2. CASE phase[r] # "audit"
    <3>1. NextPhase[phase[r]] \in Phases /\ First(NextPhase[phase[r]]) \in Statements
      BY <2>2, PhaseFacts DEF Statements
    <3>2. 1 \in Attempt
      BY BoundsAssumption DEF Attempt
    <3>3. host' \in [Runners -> Hosts]
      <4>1. \A h \in IF r \in Durable THEN HostsOf[r] ELSE {host[r]} : h \in Hosts
        BY RunnersAssumption
      <4>2. \E h \in IF r \in Durable THEN HostsOf[r] ELSE {host[r]} :
               host' = [host EXCEPT ![r] = h]
        BY <1>3, <2>2 DEF Proceed
      <4>3. \E h \in Hosts : host' = [host EXCEPT ![r] = h]
        BY <4>1, <4>2
      <4> QED
        BY <4>3
    <3>4. phase' \in [Runners -> Phases]
      BY <1>3, <2>2, <3>1 DEF Proceed
    <3>5. at' \in [Runners -> Statements]
      <4>1. at' = [at EXCEPT ![r] = First(NextPhase[phase[r]])]
        BY <1>3, <2>2 DEF Proceed
      <4>2. at \in [Runners -> Statements]
        OBVIOUS
      <4> QED
        BY <3>1, <4>1, <4>2
    <3>6. attempt' \in [Runners -> Attempt]
      BY <1>3, <2>2, <3>2 DEF Proceed
    <3>7. UNCHANGED <<jobState, completedAt, disk, snapshots, fileRows, patches, tests, todo,
                      unread, snapshot, batchAt, batchAttempt, held, counted,
                      candidates, faults>>
      BY <1>3 DEF Proceed
    <3> QED
      BY <3>3, <3>4, <3>5, <3>6, <3>7
  <2> QED
    BY <2>1, <2>2
<1>4. ASSUME NEW r \in Runners, Wipe(r) PROVE TypeOK'
  BY <1>4 DEF Wipe, Goto, Statements, Absent
<1>5. ASSUME NEW r \in Runners, CopyFile(r) PROVE TypeOK'
  <2>1. CASE CloneThrows(r) /\ UNCHANGED faults
    <3>1. disk' \in [Hosts -> SUBSET Files]
      BY <2>1 DEF CloneThrows, Absent
    <3> QED
      BY <2>1, <3>1, FailFacts DEF CloneThrows
  <2>2. ASSUME NEW f \in todo[r],
               disk' = [disk EXCEPT ![host[r]] = disk[host[r]] \cup {f}],
               todo' = [todo EXCEPT ![r] = @ \ {f}],
               Goto(r, IF todo[r] = {f} THEN "snapshot" ELSE "copy"),
               UNCHANGED <<job, rows, host, unread, snapshot, counted, candidates,
                           batching>>,
               UNCHANGED faults
        PROVE  TypeOK'
    <3>1. \E s \in Statements : Goto(r, s)
      BY <2>2 DEF Statements
    <3>2. disk' \in [Hosts -> SUBSET Files] /\ todo' \in [Runners -> SUBSET Files]
      BY <2>2
    <3> QED
      BY <2>2, <3>1, <3>2 DEF Goto
  <2> QED
    BY <1>5, <2>1, <2>2 DEF CopyFile
<1>6. ASSUME NEW r \in Runners, CloneError(r) PROVE TypeOK'
  <2>1. CloneThrows(r) /\ faults' \in 0..MaxFaults
    BY <1>6, BoundsAssumption DEF CloneError
  <2>2. disk' \in [Hosts -> SUBSET Files]
    BY <2>1 DEF CloneThrows, Absent
  <2> QED
    BY <2>1, <2>2, FailFacts DEF CloneThrows
<1>7. ASSUME NEW r \in Runners, TakeSnapshot(r) PROVE TypeOK'
  <2>1. CASE Fail(r) /\ UNCHANGED <<snapshots, snapshot>>
    BY <1>7, <2>1, FailFacts DEF TakeSnapshot
  <2>2. CASE /\ snapshots' = snapshots \cup {<<r, attempt[r]>>}
             /\ snapshot' = [snapshot EXCEPT ![r] = <<r, attempt[r]>>]
             /\ Goto(r, "end") /\ UNCHANGED host
    <3>1. <<r, attempt[r]>> \in SnapshotId
      BY DEF SnapshotId
    <3> QED
      BY <1>7, <2>2, <3>1 DEF TakeSnapshot, Goto, Statements
  <2> QED
    BY <1>7, <2>1, <2>2 DEF TakeSnapshot
<1>8. ASSUME NEW r \in Runners, IndexFiles(r) PROVE TypeOK'
  <2>1. CASE Fail(r) /\ UNCHANGED <<fileRows, unread, todo, faults>>
    BY <1>8, <2>1, FailFacts DEF IndexFiles
  <2>2. ASSUME NEW skipped \in SUBSET disk[host[r]], Swallow(skipped),
               fileRows' = fileRows \cup ({snapshot[r]} \X (disk[host[r]] \ skipped)),
               unread' = [unread EXCEPT ![r] = skipped],
               todo' = [todo EXCEPT ![r] = disk[host[r]] \ skipped],
               Goto(r, "parse"), UNCHANGED host
        PROVE  TypeOK'
    <3>1. snapshot[r] \in SnapshotId
      BY <1>8 DEF IndexFiles, At, Placed
    <3>2. disk[host[r]] \subseteq Files
      OBVIOUS
    <3>3. {snapshot[r]} \X (disk[host[r]] \ skipped) \subseteq SnapshotId \X Files
      BY <3>1, <3>2
    <3>4. faults' \in 0..MaxFaults
      BY <2>2, SwallowFacts
    <3>5. unread' \in [Runners -> SUBSET Files] /\ todo' \in [Runners -> SUBSET Files]
      BY <2>2, <3>2
    <3> QED
      BY <1>8, <2>2, <3>3, <3>4, <3>5 DEF IndexFiles, Goto, Statements
  <2> QED
    BY <1>8, <2>1, <2>2 DEF IndexFiles
<1>22. ASSUME NEW r \in Runners, ParseFiles(r) PROVE TypeOK'
  <2>1. CASE Fail(r)
    BY <1>22, <2>1, FailFacts DEF ParseFiles
  <2>2. CASE Goto(r, "end") /\ UNCHANGED host
    BY <1>22, <2>2 DEF ParseFiles, Goto, Statements
  <2> QED
    BY <1>22, <2>1, <2>2 DEF ParseFiles
<1>9. ASSUME NEW r \in Runners, Retrieve(r) PROVE TypeOK'
  <2> DEFINE found == {f \in disk[host[r]] : <<snapshot[r], f>> \in fileRows}
  <2>1. PICK missed \in SUBSET found :
          /\ Swallow(missed)
          /\ unread' = [unread EXCEPT ![r] = @ \cup missed]
          /\ batchAt' = [batchAt EXCEPT ![r] =
               [f \in Files |-> IF f \in found \ missed THEN "start" ELSE "none"]]
    BY <1>9 DEF Retrieve
  <2>2. found \subseteq Files
    OBVIOUS
  <2> HIDE DEF found
  <2>3. batchAt' \in [Runners -> [Files -> BatchStatements]]
    BY <2>1 DEF BatchStatements
  <2>4. unread' \in [Runners -> SUBSET Files]
    BY <2>1, <2>2
  <2>5. faults' \in 0..MaxFaults
    BY <2>1, SwallowFacts
  <2> QED
    BY <1>9, <2>3, <2>4, <2>5 DEF Retrieve, Goto, Statements
<1>10. ASSUME NEW r \in Runners, Join(r) PROVE TypeOK'
  <2>1. "finalize" \in Phases /\ First("finalize") \in Statements /\ 1 \in Attempt
    BY PhaseFacts, BoundsAssumption DEF Phases, Statements, Attempt
  <2> QED
    BY <1>10, <2>1 DEF Join
<1>11. ASSUME NEW r \in Runners, EmitCompleted(r) \/ Sign(r) PROVE TypeOK'
  <2>1. faults' \in 0..MaxFaults
    BY <1>11, EmitFacts DEF EmitCompleted, Sign
  <2> QED
    BY <1>11, <2>1 DEF EmitCompleted, Sign, Goto, Statements
<1>12. ASSUME NEW r \in Runners, ReadPatches(r) PROVE TypeOK'
  <2>1. \E s \in Statements : Goto(r, s)
    BY <1>12 DEF ReadPatches, Statements
  <2>2. candidates' \in [Runners -> SUBSET Patch]
    BY <1>12 DEF ReadPatches
  <2> QED
    BY <1>12, <2>1, <2>2 DEF ReadPatches, Goto
<1>13. ASSUME NEW r \in Runners, PersistTests(r) PROVE TypeOK'
  <2>1. snapshot[r] \in SnapshotId
    BY <1>13 DEF PersistTests, At, Placed
  <2>2. \A p \in candidates[r] : p.id \in PatchId
    BY DEF Patch
  <2>3. \A p \in candidates[r] :
          [by |-> r, attempt |-> attempt[r], patch |-> p.id, snapshot |-> snapshot[r]] \in Test
    BY <2>1, <2>2 DEF Test
  <2>4. tests' \subseteq Test
    BY <1>13, <2>3 DEF PersistTests
  <2> QED
    BY <1>13, <2>4 DEF PersistTests, Goto, Statements
<1>14. ASSUME NEW r \in Runners, Complete(r) PROVE TypeOK'
  BY <1>14 DEF Complete, Goto, Statements, JobStates
<1>15. ASSUME NEW r \in Runners, Fault(r) PROVE TypeOK'
  <2>1. faults' \in 0..MaxFaults
    BY <1>15, BoundsAssumption DEF Fault
  <2> QED
    BY <1>15, <2>1, FailFacts DEF Fault
<1>16. ASSUME NEW r \in Runners, DirectCrash(r) PROVE TypeOK'
  <2>1. faults' \in 0..MaxFaults
    BY <1>16, BoundsAssumption DEF DirectCrash
  <2>2. batchAt' \in [Runners -> [Files -> BatchStatements]]
    BY <1>16 DEF DirectCrash, BatchStatements
  <2>3. held' \in [Runners -> [Files -> SUBSET Patch]]
    BY <1>16 DEF DirectCrash
  <2> QED
    BY <1>16, <2>1, <2>2, <2>3 DEF DirectCrash, Goto, Statements
<1>17. ASSUME NEW r \in Runners, NEW f \in Files, Surgeon(r, f) PROVE TypeOK'
  <2>1. CASE BatchFail(r, f) /\ UNCHANGED <<log, faults>>
    BY <1>17, <2>1, BatchFailFacts DEF Surgeon
  <2>2. ASSUME NEW outcome \in Outcomes, NEW n \in Entries[outcome], NEW events,
               Hold(r, f, PatchesOf(r, f, outcome, n)), Emit(events),
               BatchGoto(r, f, "reply"), UNCHANGED <<control, batchAttempt>>
        PROVE  TypeOK'
    <3>1. batchAt' \in [Runners -> [Files -> BatchStatements]]
      BY <2>2 DEF BatchGoto, BatchStatements
    <3>2. snapshot[r] \in SnapshotId
      BY <1>17 DEF Surgeon, InPatchPhase, Placed
    <3>3. PatchesOf(r, f, outcome, n) \subseteq Patch
      BY <3>2, PatchesOfFacts
    <3>4. held' \in [Runners -> [Files -> SUBSET Patch]]
      BY <2>2, <3>3 DEF Hold
    <3>5. faults' \in 0..MaxFaults
      BY <2>2, EmitFacts
    <3> QED
      BY <1>17, <2>2, <3>1, <3>4, <3>5 DEF Surgeon
  <2> QED
    BY <1>17, <2>1, <2>2 DEF Surgeon
<1>18. ASSUME NEW r \in Runners, NEW f \in Files, PersistPatch(r, f) PROVE TypeOK'
  <2>1. patches' \subseteq Patch
    BY <1>18 DEF PersistPatch
  <2>2. batchAt' \in [Runners -> [Files -> BatchStatements]]
    BY <1>18 DEF PersistPatch, BatchGoto, BatchStatements
  <2> QED
    BY <1>18, <2>1, <2>2 DEF PersistPatch
<1>19. ASSUME NEW r \in Runners, NEW f \in Files, BatchReturns(r, f) PROVE TypeOK'
  <2>1. batchAt' \in [Runners -> [Files -> BatchStatements]]
    BY <1>19 DEF BatchReturns, BatchGoto, BatchStatements
  <2>2. {p.id : p \in held[r][f]} \subseteq PatchId
    BY DEF Patch
  <2>3. counted' \in [Runners -> SUBSET PatchId]
    BY <1>19, <2>2 DEF BatchReturns
  <2>4. held' \in [Runners -> [Files -> SUBSET Patch]]
    BY <1>19 DEF BatchReturns, Hold
  <2> QED
    BY <1>19, <2>1, <2>3, <2>4 DEF BatchReturns
<1>20. ASSUME NEW r \in Runners, NEW f \in Files, BatchFault(r, f) PROVE TypeOK'
  <2>1. faults' \in 0..MaxFaults
    BY <1>20, BoundsAssumption DEF BatchFault
  <2> QED
    BY <1>20, <2>1, BatchFailFacts DEF BatchFault
<1>21. CASE UNCHANGED vars
  BY <1>21 DEF vars
<1> QED
  BY <1>1, <1>2, <1>3, <1>4, <1>5, <1>6, <1>7, <1>8, <1>9, <1>10, <1>11, <1>12, <1>13,
     <1>14, <1>15, <1>16, <1>17, <1>18, <1>19, <1>20, <1>21, <1>22, NextCases

--------------------------------------------------------------------------------

\* Every statement leaves the runner at a place of its phase.
LEMMA PlacedStep ==
  ASSUME TypeOK, Placed, [Next]_vars
  PROVE  Placed'
<1> USE DEF Placed
<1>1. /\ phase \in [Runners -> Phases] /\ at \in [Runners -> Statements]
      /\ snapshot \in [Runners -> SnapshotId \cup {NoSnapshot}]
  BY DEF TypeOK
\* A step within a phase: the place it goes to is checked.
<1>2. ASSUME NEW r \in Runners, NEW s,
             phase' = phase, at' = [at EXCEPT ![r] = s], snapshot' = snapshot,
             s = "begin" => phase[r] \in DOMAIN Pre,
             s = "end" => phase[r] \in DOMAIN Post,
             s = "finished" => phase[r] = "audit",
             phase[r] = "patch" => s \in {"batches", "failed"},
             phase[r] = "clone" /\ s \in {"end", "returned"} => snapshot[r] \in SnapshotId
      PROVE  Placed'
  <2>1. at'[r] = s /\ \A q \in Runners \ {r} : at'[q] = at[q]
    BY <1>1, <1>2
  <2> QED
    BY <1>2, <2>1
<1>3. ASSUME NEW r \in Runners, Fail(r), snapshot' = snapshot PROVE Placed'
  <2>1. phase' = phase /\ \E s \in {"failed", First(phase[r])} : at' = [at EXCEPT ![r] = s]
    BY <1>3, FailFacts
  <2>2. /\ First(phase[r]) = "begin" => phase[r] \in DOMAIN Pre
        /\ First(phase[r]) = "end" => phase[r] = "finalize"
        /\ First(phase[r]) \notin {"finished", "returned"}
        /\ phase[r] = "patch" => First(phase[r]) = "batches"
        /\ phase[r] = "clone" => First(phase[r]) = "begin"
    BY <1>1, PhaseFacts
  <2>3. "finalize" \in DOMAIN Post
    BY PhaseFacts
  <2> QED
    BY <1>2, <1>3, <2>1, <2>2, <2>3
<1>4. ASSUME NEW r \in Runners, Begin(r) PROVE Placed'
  <2>1. phase[r] \in DOMAIN Pre /\ phase[r] # "patch"
    BY <1>4, PhaseFacts DEF Begin
  <2>2. /\ AfterPre[phase[r]] \in Statements \ {"begin", "finished"}
        /\ AfterPre[phase[r]] = "end" => phase[r] = "plan"
        /\ phase[r] = "clone" => AfterPre[phase[r]] = "wipe"
    BY <2>1, PhaseFacts
  <2>3. /\ phase' = phase /\ at' = [at EXCEPT ![r] = AfterPre[phase[r]]]
        /\ snapshot' = snapshot
    BY <1>4 DEF Begin, Goto, memory
  <2>4. "plan" \in DOMAIN Post
    BY PhaseFacts
  <2> HIDE DEF Placed
  <2> QED
    BY <1>2, <2>1, <2>2, <2>3, <2>4
<1>5. ASSUME NEW r \in Runners, End(r) PROVE Placed'
  <2>1. /\ phase[r] # "patch" /\ at[r] = "end" /\ snapshot' = snapshot
        /\ \E s \in {"emit", "complete", "returned"} : Goto(r, s)
    BY <1>5, PhaseFacts DEF End, memory
  <2>2. phase[r] = "clone" => snapshot[r] \in SnapshotId
    BY <1>1, <2>1
  <2>3. phase' = phase /\ \E s \in {"emit", "complete", "returned"} : at' = [at EXCEPT ![r] = s]
    BY <2>1 DEF Goto
  <2> QED
    BY <1>2, <2>1, <2>2, <2>3
<1>6. ASSUME NEW r \in Runners, Proceed(r) PROVE Placed'
  <2>1. at[r] = "returned" /\ snapshot' = snapshot /\ snapshot[r] \in SnapshotId
    BY <1>1, <1>6 DEF Proceed
  <2>2. CASE phase[r] = "audit"
    <3>1. phase' = phase /\ at' = [at EXCEPT ![r] = "finished"]
      BY <1>6, <2>2 DEF Proceed, Goto
    <3> QED
      BY <1>2, <2>1, <2>2, <3>1
  <2>3. CASE phase[r] # "audit"
    <3> DEFINE p == NextPhase[phase[r]]
    <3>1. phase' = [phase EXCEPT ![r] = p] /\ at' = [at EXCEPT ![r] = First(p)]
      BY <1>6, <2>3 DEF Proceed
    <3>2. p \in Phases \ {"clone"}
      BY <1>1, <2>3, PhaseFacts
    <3>3. /\ First(p) = "begin" => p \in DOMAIN Pre
          /\ First(p) = "end" => p = "finalize"
          /\ First(p) # "finished"
          /\ p = "patch" => First(p) = "batches"
          /\ "finalize" \in DOMAIN Post
      BY <3>2, PhaseFacts
    <3>4. /\ phase'[r] = p /\ at'[r] = First(p)
          /\ \A q \in Runners \ {r} : phase'[q] = phase[q] /\ at'[q] = at[q]
      BY <1>1, <3>1
    <3> HIDE DEF p
    <3> QED
      BY <2>1, <3>3, <3>4
  <2> QED
    BY <2>2, <2>3
<1>7. ASSUME NEW r \in Runners, Wipe(r) PROVE Placed'
  <2>1. phase[r] = "clone" /\ phase' = phase /\ snapshot' = snapshot
        /\ at' = [at EXCEPT ![r] = "copy"]
    BY <1>7 DEF Wipe, At, Goto
  <2> QED
    BY <1>2, <2>1
<1>8. ASSUME NEW r \in Runners, CopyFile(r) PROVE Placed'
  <2>1. CASE Fail(r) /\ snapshot' = snapshot
    BY <1>3, <2>1
  <2>2. CASE /\ phase[r] = "clone" /\ snapshot' = snapshot
             /\ \E s \in {"copy", "snapshot"} : Goto(r, s)
    BY <1>2, <2>2 DEF Goto
  <2> QED
    BY <1>8, <2>1, <2>2 DEF CopyFile, At, CloneThrows
<1>9. ASSUME NEW r \in Runners, CloneError(r) PROVE Placed'
  BY <1>3, <1>9 DEF CloneError, CloneThrows
<1>10. ASSUME NEW r \in Runners, TakeSnapshot(r) PROVE Placed'
  <2>1. CASE Fail(r) /\ snapshot' = snapshot
    BY <1>3, <2>1
  <2>2. CASE snapshot' = [snapshot EXCEPT ![r] = <<r, attempt[r]>>] /\ Goto(r, "end")
    <3>1. <<r, attempt[r]>> \in SnapshotId
      BY DEF SnapshotId, TypeOK
    <3>2. /\ phase[r] = "clone" /\ phase' = phase /\ at'[r] = "end"
          /\ \A q \in Runners \ {r} : at'[q] = at[q] /\ snapshot'[q] = snapshot[q]
          /\ snapshot'[r] \in SnapshotId
      BY <1>1, <1>10, <2>2, <3>1 DEF TakeSnapshot, At, Goto
    <3>3. "clone" \in DOMAIN Post
      BY PhaseFacts
    <3> QED
      BY <3>2, <3>3
  <2> QED
    BY <1>10, <2>1, <2>2 DEF TakeSnapshot
<1>11. ASSUME NEW r \in Runners, IndexFiles(r) \/ ParseFiles(r) PROVE Placed'
  <2>1. /\ phase[r] = "index" /\ snapshot' = snapshot
        /\ Fail(r) \/ Goto(r, "parse") \/ Goto(r, "end")
    BY <1>11 DEF IndexFiles, ParseFiles, At
  <2>2. "index" \in DOMAIN Post
    BY PhaseFacts
  <2> QED
    BY <1>2, <1>3, <2>1, <2>2 DEF Goto
<1>12. ASSUME NEW r \in Runners, Retrieve(r) PROVE Placed'
  <2>1. /\ phase[r] = "retrieve" /\ snapshot' = snapshot /\ phase' = phase
        /\ at' = [at EXCEPT ![r] = "returned"]
    BY <1>12 DEF Retrieve, At, Goto
  <2> QED
    BY <1>2, <2>1
<1>13. ASSUME NEW r \in Runners, Join(r) PROVE Placed'
  <2>1. /\ phase' = [phase EXCEPT ![r] = "finalize"] /\ phase[r] = "patch"
        /\ at' = [at EXCEPT ![r] = First("finalize")] /\ snapshot' = snapshot
    BY <1>13 DEF Join, At, memory
  <2>2. First("finalize") = "end" /\ "finalize" \in DOMAIN Post
    BY PhaseFacts DEF First
  <2>3. /\ phase'[r] = "finalize" /\ at'[r] = "end" /\ snapshot[r] \in SnapshotId
        /\ \A q \in Runners \ {r} : phase'[q] = phase[q] /\ at'[q] = at[q]
    BY <1>1, <2>1, <2>2
  <2> QED
    BY <2>1, <2>2, <2>3
<1>14. ASSUME NEW r \in Runners,
              \/ EmitCompleted(r) \/ ReadPatches(r) \/ PersistTests(r) \/ Sign(r)
              \/ Complete(r)
       PROVE  Placed'
  <2>1. /\ phase[r] \in {"finalize", "examine", "audit"} /\ snapshot' = snapshot
        /\ \/ \E s \in {"returned", "persist"} : Goto(r, s)
           \/ phase[r] \in {"examine", "audit"} /\ Goto(r, "end")
    BY <1>14 DEF EmitCompleted, ReadPatches, PersistTests, Sign, Complete, At, memory
  <2>2. "examine" \in DOMAIN Post /\ "audit" \in DOMAIN Post
    BY PhaseFacts
  <2> QED
    BY <1>2, <2>1, <2>2 DEF Goto
<1>15. ASSUME NEW r \in Runners, Fault(r) PROVE Placed'
  BY <1>3, <1>15 DEF Fault
<1>16. ASSUME NEW r \in Runners, DirectCrash(r) PROVE Placed'
  <2>1. /\ phase[r] = "patch" /\ phase' = phase /\ snapshot' = snapshot
        /\ at' = [at EXCEPT ![r] = "failed"]
    BY <1>16 DEF DirectCrash, Goto, memory
  <2> QED
    BY <1>2, <2>1
<1>17. ASSUME NEW r \in Runners, NEW f \in Files,
              Surgeon(r, f) \/ PersistPatch(r, f) \/ BatchReturns(r, f) \/ BatchFault(r, f)
       PROVE  Placed'
  <2>1. /\ phase[r] = "patch" /\ phase' = phase /\ snapshot' = snapshot
        /\ at' = at \/ at' = [at EXCEPT ![r] = "failed"]
    BY <1>17, BatchFailFacts
    DEF Surgeon, PersistPatch, BatchReturns, BatchFault, InPatchPhase, control, memory
  <2>2. CASE at' = at
    BY <2>1, <2>2
  <2>3. CASE at' = [at EXCEPT ![r] = "failed"]
    BY <1>2, <2>1, <2>3
  <2> QED
    BY <2>1, <2>2, <2>3
<1>18. CASE UNCHANGED vars
  BY <1>18 DEF vars, control, memory
<1> QED
  BY <1>4, <1>5, <1>6, <1>7, <1>8, <1>9, <1>10, <1>11, <1>12, <1>13, <1>14, <1>15,
     <1>16, <1>17, <1>18, NextCases

--------------------------------------------------------------------------------
\* Rows are only added; a patch is added by PersistPatch.
LEMMA RowsGrow ==
  ASSUME TypeOK, [Next]_vars
  PROVE  /\ fileRows \subseteq fileRows'
         /\ \/ patches' = patches
            \/ \E r \in Runners, f \in Files : PersistPatch(r, f)
<1>1. ASSUME NEW r \in Runners,
             \/ Begin(r) \/ End(r) \/ Proceed(r) \/ Wipe(r) \/ CopyFile(r)
             \/ TakeSnapshot(r) \/ IndexFiles(r) \/ ParseFiles(r) \/ Retrieve(r) \/ Join(r)
             \/ EmitCompleted(r) \/ ReadPatches(r) \/ PersistTests(r) \/ Sign(r)
             \/ Complete(r) \/ Fault(r) \/ CloneError(r) \/ DirectCrash(r)
      PROVE  patches' = patches /\ fileRows \subseteq fileRows'
  BY <1>1
  DEF Begin, End, Proceed, Wipe, CopyFile, CloneThrows, TakeSnapshot, IndexFiles,
      ParseFiles, Retrieve, Join, EmitCompleted, ReadPatches, PersistTests, Sign, Complete,
      Fault, CloneError, DirectCrash, rows
<1>2. ASSUME NEW r \in Runners, NEW f \in Files,
             Surgeon(r, f) \/ BatchReturns(r, f) \/ BatchFault(r, f)
      PROVE  patches' = patches /\ fileRows' = fileRows
  BY <1>2 DEF Surgeon, BatchReturns, BatchFault, rows
<1>3. ASSUME NEW r \in Runners, NEW f \in Files, PersistPatch(r, f)
      PROVE  fileRows' = fileRows
  BY <1>3 DEF PersistPatch
<1> QED
  BY <1>1, <1>2, <1>3, NextCases DEF vars, rows

\* A runner clones once: it keeps its snapshot, and what was persisted under it.
LEMMA PastClone ==
  ASSUME TypeOK, [Next]_vars, NEW q \in Runners, phase[q] # "clone"
  PROVE  phase'[q] # "clone" /\ snapshot'[q] = snapshot[q]
<1>1. phase \in [Runners -> Phases] /\ snapshot \in [Runners -> SnapshotId \cup {NoSnapshot}]
  BY DEF TypeOK
<1>2. CASE phase' = phase /\ snapshot' = snapshot
  BY <1>2
<1>3. ASSUME NEW r \in Runners, Fail(r) PROVE phase' = phase
  BY <1>3 DEF Fail
<1>4. ASSUME NEW r \in Runners,
             \/ Begin(r) \/ End(r) \/ Wipe(r) \/ CopyFile(r) \/ IndexFiles(r)
             \/ ParseFiles(r) \/ Retrieve(r) \/ EmitCompleted(r) \/ ReadPatches(r)
             \/ PersistTests(r)
             \/ Sign(r) \/ Complete(r) \/ Fault(r) \/ CloneError(r) \/ DirectCrash(r)
      PROVE  phase' = phase /\ snapshot' = snapshot
  BY <1>3, <1>4
  DEF Begin, End, Wipe, CopyFile, CloneThrows, IndexFiles, ParseFiles, Retrieve,
      EmitCompleted, ReadPatches, PersistTests, Sign, Complete, Fault, CloneError,
      DirectCrash, Goto,
      memory
<1>5. ASSUME NEW r \in Runners, NEW f \in Files,
             Surgeon(r, f) \/ PersistPatch(r, f) \/ BatchReturns(r, f) \/ BatchFault(r, f)
      PROVE  phase' = phase /\ snapshot' = snapshot
  BY <1>5, BatchFailFacts
  DEF Surgeon, PersistPatch, BatchReturns, BatchFault, control, memory
<1>6. ASSUME NEW r \in Runners, Proceed(r) PROVE phase'[q] # "clone" /\ snapshot' = snapshot
  <2>1. snapshot' = snapshot
    BY <1>6 DEF Proceed
  <2>2. CASE phase[r] = "audit"
    BY <1>6, <2>2 DEF Proceed, Goto
  <2>3. CASE phase[r] # "audit"
    <3> DEFINE p == NextPhase[phase[r]]
    <3>1. p # "clone" /\ phase' = [phase EXCEPT ![r] = p]
      BY <1>1, <1>6, <2>3, PhaseFacts DEF Proceed
    <3> HIDE DEF p
    <3>2. phase'[q] # "clone"
      BY <1>1, <3>1
    <3> QED
      BY <2>1, <3>2
  <2> QED
    BY <2>1, <2>2, <2>3
<1>7. ASSUME NEW r \in Runners, Join(r) PROVE phase'[q] # "clone" /\ snapshot' = snapshot
  BY <1>1, <1>7 DEF Join, memory
<1>8. ASSUME NEW r \in Runners, TakeSnapshot(r)
      PROVE  phase' = phase /\ snapshot'[q] = snapshot[q]
  <2>1. r # q
    BY <1>8 DEF TakeSnapshot, At
  <2> QED
    BY <1>1, <1>3, <1>8, <2>1 DEF TakeSnapshot, Goto
<1>9. UNCHANGED vars => phase' = phase /\ snapshot' = snapshot
  BY DEF vars, control, memory
<1> QED
  BY <1>2, <1>4, <1>5, <1>6, <1>7, <1>8, <1>9, NextCases

\* How the batches of a runner change.
LEMMA BatchChange ==
  ASSUME TypeOK, [Next]_vars, NEW q \in Runners, NEW g \in Files
  PROVE  \/ batchAt'[q][g] = batchAt[q][g]
         \/ batchAt'[q][g] = "none"
         \/ /\ batchAt'[q][g] = "start" /\ Retrieve(q)
            /\ <<snapshot[q], g>> \in fileRows
         \/ batchAt'[q][g] = "persisted" /\ PersistPatch(q, g)
         \/ batchAt[q][g] # "none" /\ batchAt'[q][g] # "persisted"
<1> DEFINE Goal == \/ batchAt'[q][g] = batchAt[q][g]
                   \/ batchAt'[q][g] = "none"
                   \/ /\ batchAt'[q][g] = "start" /\ Retrieve(q)
                      /\ <<snapshot[q], g>> \in fileRows
                   \/ batchAt'[q][g] = "persisted" /\ PersistPatch(q, g)
                   \/ batchAt[q][g] # "none" /\ batchAt'[q][g] # "persisted"
<1>1. batchAt \in [Runners -> [Files -> BatchStatements]]
  BY DEF TypeOK
<1>2. ASSUME NEW r \in Runners,
             \/ Begin(r) \/ End(r) \/ Proceed(r) \/ Wipe(r) \/ CopyFile(r)
             \/ TakeSnapshot(r) \/ IndexFiles(r) \/ ParseFiles(r) \/ Join(r)
             \/ EmitCompleted(r) \/ ReadPatches(r) \/ PersistTests(r) \/ Sign(r)
             \/ Complete(r)
             \/ Fault(r) \/ CloneError(r)
      PROVE  batchAt' = batchAt
  BY <1>2
  DEF Begin, End, Proceed, Wipe, CopyFile, CloneThrows, TakeSnapshot, IndexFiles,
      ParseFiles, Join, EmitCompleted, ReadPatches, PersistTests, Sign, Complete, Fault,
      CloneError, batching
<1>3. ASSUME NEW r \in Runners, Retrieve(r) PROVE Goal
  <2>1. PICK found \in SUBSET {f \in disk[host[r]] : <<snapshot[r], f>> \in fileRows} :
          batchAt' = [batchAt EXCEPT ![r] =
                        [f \in Files |-> IF f \in found THEN "start" ELSE "none"]]
    <3> DEFINE all == {f \in disk[host[r]] : <<snapshot[r], f>> \in fileRows}
    <3>1. PICK missed \in SUBSET all :
            batchAt' = [batchAt EXCEPT ![r] =
                          [f \in Files |-> IF f \in all \ missed THEN "start" ELSE "none"]]
      BY <1>3 DEF Retrieve
    <3>2. all \ missed \in SUBSET all
      OBVIOUS
    <3> QED
      BY <3>1, <3>2
  <2>2. CASE q # r
    BY <1>1, <2>1, <2>2
  <2>3. CASE q = r
    <3>1. batchAt'[q][g] = IF g \in found THEN "start" ELSE "none"
      BY <1>1, <2>1, <2>3
    <3>2. g \in found => <<snapshot[q], g>> \in fileRows
      BY <2>1, <2>3
    <3> QED
      BY <1>3, <2>3, <3>1, <3>2
  <2> QED
    BY <2>2, <2>3
<1>4. ASSUME NEW r \in Runners, DirectCrash(r) PROVE Goal
  <2>1. batchAt' = [batchAt EXCEPT ![r] = [f \in Files |->
          IF InPatchPhase(r, f) THEN "failed" ELSE batchAt[r][f]]]
    BY <1>4 DEF DirectCrash
  <2>2. InPatchPhase(q, g) => batchAt[q][g] # "none"
    BY DEF InPatchPhase
  <2>3. CASE q # r
    BY <1>1, <2>1, <2>3
  <2>4. CASE q = r
    <3>1. batchAt'[q][g] = IF InPatchPhase(q, g) THEN "failed" ELSE batchAt[q][g]
      BY <1>1, <2>1, <2>4
    <3> QED
      BY <2>2, <3>1
  <2> QED
    BY <2>3, <2>4
\* One batch goes on.
<1>5. ASSUME NEW r \in Runners, NEW f \in Files, NEW s,
             InPatchPhase(r, f), batchAt' = [batchAt EXCEPT ![r][f] = s],
             s # "persisted" \/ PersistPatch(r, f)
      PROVE  Goal
  <2>1. CASE q = r /\ g = f
    <3>1. batchAt'[q][g] = s /\ batchAt[q][g] # "none"
      BY <1>1, <1>5, <2>1 DEF InPatchPhase
    <3> QED
      BY <1>5, <2>1, <3>1
  <2>2. CASE q # r \/ g # f
    BY <1>1, <1>5, <2>2
  <2> QED
    BY <2>1, <2>2
<1>6. ASSUME NEW r \in Runners, NEW f \in Files, Surgeon(r, f) PROVE Goal
  <2>1. InPatchPhase(r, f)
    BY <1>6 DEF Surgeon
  <2>2. \E s \in {"reply", "start", "failed"} : batchAt' = [batchAt EXCEPT ![r][f] = s]
    BY <1>6, BatchFailFacts DEF Surgeon, BatchGoto
  <2> QED
    BY <1>5, <2>1, <2>2
<1>7. ASSUME NEW r \in Runners, NEW f \in Files, PersistPatch(r, f) PROVE Goal
  BY <1>5, <1>7 DEF PersistPatch, BatchGoto
<1>8. ASSUME NEW r \in Runners, NEW f \in Files, BatchReturns(r, f) PROVE Goal
  BY <1>5, <1>8 DEF BatchReturns, BatchGoto
<1>9. ASSUME NEW r \in Runners, NEW f \in Files, BatchFault(r, f) PROVE Goal
  <2>1. InPatchPhase(r, f) /\ \E s \in {"start", "failed"} : batchAt' = [batchAt EXCEPT ![r][f] = s]
    BY <1>9, BatchFailFacts DEF BatchFault
  <2> QED
    BY <1>5, <2>1
<1>10. UNCHANGED vars => batchAt' = batchAt
  BY DEF vars, batching
<1> QED
  BY <1>2, <1>3, <1>4, <1>6, <1>7, <1>8, <1>9, <1>10, NextCases

\* Retrieve makes batches of files that are indexed, in a phase past the clone.
LEMMA BatchesStep ==
  ASSUME TypeOK, BatchesAreIndexed, [Next]_vars
  PROVE  BatchesAreIndexed'
<1>1. ASSUME NEW q \in Runners, NEW g \in Files, batchAt'[q][g] # "none"
      PROVE  phase'[q] # "clone" /\ <<snapshot'[q], g>> \in fileRows'
  <2>1. phase[q] # "clone" /\ <<snapshot[q], g>> \in fileRows
    BY <1>1, BatchChange DEF BatchesAreIndexed, Retrieve, PersistPatch, InPatchPhase, At
  <2>2. phase'[q] # "clone" /\ snapshot'[q] = snapshot[q]
    BY <2>1, PastClone
  <2> QED
    BY <2>1, <2>2, RowsGrow
<1> QED
  BY <1>1 DEF BatchesAreIndexed

\* A patch is filed under the snapshot its batch was made from.
LEMMA PatchesStep ==
  ASSUME TypeOK, BatchesAreIndexed, HeldIsOfBatch, PatchesPointAtIndexedFiles, [Next]_vars
  PROVE  PatchesPointAtIndexedFiles'
<1>1. fileRows \subseteq fileRows'
  BY RowsGrow
<1>2. CASE patches' = patches
  BY <1>1, <1>2 DEF PatchesPointAtIndexedFiles
<1>3. ASSUME NEW r \in Runners, NEW f \in Files, PersistPatch(r, f)
      PROVE  PatchesPointAtIndexedFiles'
  <2>1. patches' = patches \cup held[r][f] /\ held[r][f] # {}
    BY <1>3 DEF PersistPatch
  <2>2. <<snapshot[r], f>> \in fileRows
    BY <1>3 DEF PersistPatch, InPatchPhase, BatchesAreIndexed
  <2>3. \A p \in held[r][f] : <<p.snapshot, p.file>> \in fileRows
    BY <2>1, <2>2 DEF HeldIsOfBatch
  <2> QED
    BY <1>1, <2>1, <2>3 DEF PatchesPointAtIndexedFiles
<1> QED
  BY <1>2, <1>3, RowsGrow

--------------------------------------------------------------------------------
\* What becomes of a batch's patches in memory: the Surgeon puts them there, and
\* everything but PersistPatch takes them away or leaves them.
LEMMA HeldChange ==
  ASSUME TypeOK, Placed, [Next]_vars, NEW q \in Runners, NEW g \in Files
  PROVE  \/ held'[q][g] = {}
         \/ held'[q][g] = held[q][g] /\ batchAt'[q][g] # "persisted"
         \/ held'[q][g] = held[q][g] /\ batchAt[q][g] = "persisted"
         \/ held'[q][g] = held[q][g] /\ PersistPatch(q, g)
         \/ /\ phase[q] = "patch" /\ batchAt'[q][g] = "reply" /\ IsFiniteSet(held'[q][g])
            /\ \A p \in held'[q][g] : p.id[1] = q /\ p.snapshot = snapshot[q] /\ p.file = g
<1> DEFINE Goal ==
      \/ held'[q][g] = {}
      \/ held'[q][g] = held[q][g] /\ batchAt'[q][g] # "persisted"
      \/ held'[q][g] = held[q][g] /\ batchAt[q][g] = "persisted"
      \/ held'[q][g] = held[q][g] /\ PersistPatch(q, g)
      \/ /\ phase[q] = "patch" /\ batchAt'[q][g] = "reply" /\ IsFiniteSet(held'[q][g])
         /\ \A p \in held'[q][g] : p.id[1] = q /\ p.snapshot = snapshot[q] /\ p.file = g
<1>1. /\ held \in [Runners -> [Files -> SUBSET Patch]]
      /\ batchAt \in [Runners -> [Files -> BatchStatements]]
  BY DEF TypeOK
<1>2. CASE held' = held
  BY <1>2, BatchChange
<1>3. ASSUME NEW r \in Runners, NEW f \in Files, held' = [held EXCEPT ![r][f] = {}]
      PROVE  Goal
  <2>1. CASE q = r /\ g = f
    BY <1>1, <1>3, <2>1
  <2>2. CASE q # r \/ g # f
    <3>1. held'[q][g] = held[q][g]
      BY <1>1, <1>3, <2>2
    <3> QED
      BY <3>1, BatchChange
  <2> QED
    BY <2>1, <2>2
<1>4. ASSUME NEW r \in Runners, DirectCrash(r) PROVE Goal
  <2>1. held'[q][g] = {} \/ held'[q][g] = held[q][g]
    BY <1>1, <1>4 DEF DirectCrash
  <2> QED
    BY <2>1, BatchChange
<1>5. ASSUME NEW r \in Runners, NEW f \in Files, Surgeon(r, f), ~BatchFail(r, f) PROVE Goal
  <2>0. PICK outcome \in Outcomes :
          \E n \in Entries[outcome] : Hold(r, f, PatchesOf(r, f, outcome, n))
    BY <1>5 DEF Surgeon
  <2>1. PICK n \in Entries[outcome] : Hold(r, f, PatchesOf(r, f, outcome, n))
    BY <2>0
  <2>2. phase[r] = "patch" /\ snapshot[r] \in SnapshotId
    BY <1>5 DEF Surgeon, InPatchPhase, Placed
  <2>3. batchAt' = [batchAt EXCEPT ![r][f] = "reply"]
    BY <1>5 DEF Surgeon, BatchGoto
  <2>4. CASE q = r /\ g = f
    <3>1. held'[q][g] = PatchesOf(r, f, outcome, n) /\ batchAt'[q][g] = "reply"
      BY <1>1, <2>1, <2>3, <2>4 DEF Hold
    <3> QED
      BY <2>2, <2>4, <3>1, PatchesOfFacts
  <2>5. CASE q # r \/ g # f
    <3>1. held'[q][g] = held[q][g]
      BY <1>1, <2>1, <2>5 DEF Hold
    <3> QED
      BY <3>1, BatchChange
  <2> QED
    BY <2>4, <2>5
<1>6. ASSUME NEW r \in Runners, NEW f \in Files,
             BatchReturns(r, f) \/ BatchFault(r, f) \/ (Surgeon(r, f) /\ BatchFail(r, f))
      PROVE  Goal
  BY <1>3, <1>6 DEF BatchReturns, BatchFault, BatchFail, Hold
<1>7. ASSUME NEW r \in Runners, NEW f \in Files, PersistPatch(r, f) PROVE held' = held
  BY <1>7 DEF PersistPatch
<1>8. ASSUME NEW r \in Runners,
             \/ Begin(r) \/ End(r) \/ Proceed(r) \/ Wipe(r) \/ CopyFile(r)
             \/ TakeSnapshot(r) \/ IndexFiles(r) \/ ParseFiles(r) \/ Retrieve(r) \/ Join(r)
             \/ EmitCompleted(r) \/ ReadPatches(r) \/ PersistTests(r) \/ Sign(r)
             \/ Complete(r) \/ Fault(r) \/ CloneError(r)
      PROVE  held' = held
  BY <1>8
  DEF Begin, End, Proceed, Wipe, CopyFile, CloneThrows, TakeSnapshot, IndexFiles,
      ParseFiles, Retrieve, Join, EmitCompleted, ReadPatches, PersistTests, Sign, Complete,
      Fault, CloneError, batching
<1>9. UNCHANGED vars => held' = held
  BY DEF vars, batching
<1> QED
  BY <1>2, <1>4, <1>5, <1>6, <1>7, <1>8, <1>9, NextCases

\* A batch's patches stay what they are, and persisting makes them rows.
LEMMA HeldStep ==
  ASSUME TypeOK, Placed, HeldIsOfBatch, [Next]_vars
  PROVE  HeldIsOfBatch'
<1>1. patches \subseteq patches'
  BY RowsGrow DEF PersistPatch
<1>2. ASSUME NEW q \in Runners, NEW g \in Files, held'[q][g] # {}
      PROVE  /\ phase'[q] # "clone"
             /\ \A p \in held'[q][g] :
                  /\ p.id[1] = q /\ p.snapshot = snapshot'[q] /\ p.file = g
                  /\ batchAt'[q][g] = "persisted" => p \in patches'
  <2>1. CASE held'[q][g] = held[q][g]
    <3>1. /\ phase[q] # "clone"
          /\ \A p \in held[q][g] : p.id[1] = q /\ p.snapshot = snapshot[q] /\ p.file = g
      BY <1>2, <2>1 DEF HeldIsOfBatch
    <3>2. phase'[q] # "clone" /\ snapshot'[q] = snapshot[q]
      BY <3>1, PastClone
    <3>3. batchAt'[q][g] = "persisted" => \A p \in held[q][g] : p \in patches'
      <4>1. batchAt[q][g] = "persisted" => \A p \in held[q][g] : p \in patches'
        BY <1>1, <1>2, <2>1 DEF HeldIsOfBatch
      <4>2. PersistPatch(q, g) => \A p \in held[q][g] : p \in patches'
        BY DEF PersistPatch
      <4>3. batchAt'[q][g] = "persisted" => batchAt[q][g] = "persisted" \/ PersistPatch(q, g)
        BY BatchChange
      <4> QED
        BY <4>1, <4>2, <4>3
    <3> QED
      BY <2>1, <3>1, <3>2, <3>3
  <2>2. CASE held'[q][g] # held[q][g]
    <3>1. /\ phase[q] = "patch" /\ batchAt'[q][g] = "reply"
          /\ \A p \in held'[q][g] : p.id[1] = q /\ p.snapshot = snapshot[q] /\ p.file = g
      BY <1>2, <2>2, HeldChange
    <3>2. phase'[q] # "clone" /\ snapshot'[q] = snapshot[q]
      BY <3>1, PastClone
    <3> QED
      BY <3>1, <3>2
  <2> QED
    BY <2>1, <2>2
<1> QED
  BY <1>2 DEF HeldIsOfBatch

\* One batch's patches are persisted at a time.
LEMMA FiniteStep ==
  ASSUME TypeOK, Placed, FinitelyMany, [Next]_vars
  PROVE  FinitelyMany'
<1>1. IsFiniteSet(patches')
  <2>1. ASSUME NEW r \in Runners, NEW f \in Files, PersistPatch(r, f)
        PROVE  IsFiniteSet(patches')
    <3>1. patches' = patches \cup held[r][f] /\ IsFiniteSet(patches) /\ IsFiniteSet(held[r][f])
      BY <2>1 DEF PersistPatch, FinitelyMany
    <3> QED
      BY ONLY <3>1, FS_Union
  <2> QED
    BY <2>1, RowsGrow DEF FinitelyMany
<1>2. ASSUME NEW q \in Runners, NEW g \in Files PROVE IsFiniteSet(held'[q][g])
  BY HeldChange, FS_EmptySet DEF FinitelyMany
<1> QED
  BY <1>1, <1>2 DEF FinitelyMany

\* What a runner counts are patches that a batch had persisted.
LEMMA CountedChange ==
  ASSUME TypeOK, [Next]_vars, NEW q \in Runners, NEW id \in counted'[q]
  PROVE  \/ id \in counted[q]
         \/ \E g \in Files : batchAt[q][g] = "persisted" /\ \E p \in held[q][g] : p.id = id
<1>1. counted \in [Runners -> SUBSET PatchId]
  BY DEF TypeOK
<1>2. ASSUME NEW r \in Runners,
             \/ Begin(r) \/ End(r) \/ Proceed(r) \/ Wipe(r) \/ CopyFile(r)
             \/ TakeSnapshot(r) \/ IndexFiles(r) \/ ParseFiles(r) \/ Retrieve(r) \/ Join(r)
             \/ EmitCompleted(r) \/ ReadPatches(r) \/ PersistTests(r) \/ Sign(r)
             \/ Complete(r) \/ Fault(r) \/ CloneError(r) \/ DirectCrash(r)
      PROVE  counted' = counted
  BY <1>2
  DEF Begin, End, Proceed, Wipe, CopyFile, CloneThrows, TakeSnapshot, IndexFiles,
      ParseFiles, Retrieve, Join, EmitCompleted, ReadPatches, PersistTests, Sign, Complete,
      Fault, CloneError, DirectCrash, memory
<1>3. ASSUME NEW r \in Runners, NEW f \in Files,
             Surgeon(r, f) \/ PersistPatch(r, f) \/ BatchFault(r, f)
      PROVE  counted' = counted
  BY <1>3 DEF Surgeon, PersistPatch, BatchFault, memory
<1>4. ASSUME NEW r \in Runners, NEW f \in Files, BatchReturns(r, f), id \notin counted[q]
      PROVE  \E g \in Files : batchAt[q][g] = "persisted" /\ \E p \in held[q][g] : p.id = id
  <2>1. /\ counted' = [counted EXCEPT ![r] = counted[r] \cup {p.id : p \in held[r][f]}]
        /\ held[r][f] # {} => batchAt[r][f] = "persisted"
    BY <1>4 DEF BatchReturns
  <2>2. q = r
    BY <1>1, <1>4, <2>1
  <2>3. id \in {p.id : p \in held[q][f]}
    BY <1>1, <1>4, <2>1, <2>2
  <2> QED
    BY <2>1, <2>2, <2>3
<1>5. UNCHANGED vars => counted' = counted
  BY DEF vars, memory
<1> QED
  BY <1>2, <1>3, <1>4, <1>5, NextCases

\* A row that is there stays.
LEMMA HasRowStays ==
  ASSUME TypeOK, [Next]_vars, NEW r, NEW s, NEW id, HasRow(patches, r, s, id)
  PROVE  HasRow(patches', r, s, id)
<1>1. patches \subseteq patches'
  BY RowsGrow DEF PersistPatch
<1> QED
  BY <1>1 DEF HasRow

\* A batch persists its patches before they are counted.
LEMMA CountedStep ==
  ASSUME TypeOK, HeldIsOfBatch, CountedHaveRows, [Next]_vars
  PROVE  CountedHaveRows'
<1>1. ASSUME NEW q \in Runners, NEW id \in counted'[q]
      PROVE  phase[q] # "clone" /\ HasRow(patches, q, snapshot[q], id)
  <2>1. CASE id \in counted[q]
    BY <2>1 DEF CountedHaveRows
  <2>2. ASSUME NEW g \in Files, batchAt[q][g] = "persisted",
               NEW p \in held[q][g], p.id = id
        PROVE  phase[q] # "clone" /\ HasRow(patches, q, snapshot[q], id)
    BY <2>2 DEF HeldIsOfBatch, HasRow
  <2> QED
    BY <1>1, <2>1, <2>2, CountedChange
<1>2. ASSUME NEW q \in Runners, NEW id \in counted'[q]
      PROVE  phase'[q] # "clone" /\ HasRow(patches', q, snapshot'[q], id)
  <2>1. phase'[q] # "clone" /\ snapshot'[q] = snapshot[q]
    BY <1>1, <1>2, PastClone
  <2> QED
    BY <1>1, <1>2, <2>1, HasRowStays
<1> QED
  BY <1>2 DEF CountedHaveRows

\* The rows of the log that properties speak of, and who appends them.
LEMMA LogChange ==
  ASSUME TypeOK, Placed, [Next]_vars
  PROVE  \/ log' = log
         \/ \E r \in Runners : /\ EmitCompleted(r)
                               /\ log' = log \cup {CompletedEvent(r, Cardinality(counted[r]))}
         \/ \E r \in Runners : Sign(r) /\ log' = log \cup {SignedEvent(r, PatchesInLog)}
         \/ \E r \in Runners, f \in Files :
              /\ Surgeon(r, f)
              /\ \E events : /\ log' = log \cup events
                             /\ \A x \in events : x.type = "patch_event" /\ x.patch[1] = r
<1>1. faults \in 0..MaxFaults
  BY DEF TypeOK
<1>2. ASSUME NEW r \in Runners,
             \/ Begin(r) \/ End(r) \/ Proceed(r) \/ Wipe(r) \/ CopyFile(r)
             \/ TakeSnapshot(r) \/ IndexFiles(r) \/ ParseFiles(r) \/ Retrieve(r) \/ Join(r)
             \/ ReadPatches(r) \/ PersistTests(r)
             \/ Complete(r) \/ Fault(r) \/ CloneError(r) \/ DirectCrash(r)
      PROVE  log' = log
  BY <1>2
  DEF Begin, End, Proceed, Wipe, CopyFile, CloneThrows, TakeSnapshot, IndexFiles,
      ParseFiles, Retrieve, Join, ReadPatches, PersistTests, Complete, Fault, CloneError,
      DirectCrash, rows
<1>3. ASSUME NEW r \in Runners, NEW f \in Files,
             PersistPatch(r, f) \/ BatchReturns(r, f) \/ BatchFault(r, f)
      PROVE  log' = log
  BY <1>3 DEF PersistPatch, BatchReturns, BatchFault, rows
<1>4. ASSUME NEW r \in Runners, EmitCompleted(r)
      PROVE  log' = log \/ log' = log \cup {CompletedEvent(r, Cardinality(counted[r]))}
  BY <1>4, EmitOne DEF EmitCompleted
<1>5. ASSUME NEW r \in Runners, Sign(r)
      PROVE  log' = log \/ log' = log \cup {SignedEvent(r, PatchesInLog)}
  BY <1>5, EmitOne DEF Sign
<1>6. ASSUME NEW r \in Runners, NEW f \in Files, Surgeon(r, f)
      PROVE  \/ log' = log
             \/ \E events : /\ log' = log \cup events
                            /\ \A x \in events : x.type = "patch_event" /\ x.patch[1] = r
  <2>1. CASE BatchFail(r, f) /\ UNCHANGED <<log, faults>>
    BY <2>1
  <2>2. ASSUME NEW outcome \in Outcomes, NEW n \in Entries[outcome],
               NEW some \in SUBSET PatchesOf(r, f, outcome, n),
               Emit({PatchEvent(p.id) : p \in some})
        PROVE  \E events : /\ log' = log \cup events
                           /\ \A x \in events : x.type = "patch_event" /\ x.patch[1] = r
    <3> DEFINE all == {PatchEvent(p.id) : p \in some}
    <3>1. snapshot[r] \in SnapshotId
      BY <1>6 DEF Surgeon, InPatchPhase, Placed
    <3>2. \A p \in some : p.id[1] = r
      BY <2>2, <3>1, PatchesOfFacts
    <3>3. \A x \in all : x.type = "patch_event" /\ x.patch[1] = r
      BY <3>2 DEF PatchEvent
    <3> HIDE DEF all
    <3>4. \E landed \in SUBSET all : log' = log \cup landed
      BY <1>1, <2>2, EmitFacts DEF all
    <3> QED
      BY <3>3, <3>4
  <2>3. \/ BatchFail(r, f) /\ UNCHANGED <<log, faults>>
        \/ \E outcome \in Outcomes : \E n \in Entries[outcome] :
             Emit({PatchEvent(p.id) : p \in IF outcome = "proposed"
                                              THEN PatchesOf(r, f, outcome, n) ELSE {}})
    BY <1>6 DEF Surgeon
  <2>4. \A outcome \in Outcomes : \A n \in Entries[outcome] :
          (IF outcome = "proposed" THEN PatchesOf(r, f, outcome, n) ELSE {})
            \in SUBSET PatchesOf(r, f, outcome, n)
    OBVIOUS
  <2> QED
    BY <2>1, <2>2, <2>3, <2>4
<1>7. UNCHANGED vars => log' = log
  BY DEF vars, rows
<1> QED
  BY <1>2, <1>3, <1>4, <1>5, <1>6, <1>7, NextCases

\* A summary is written after its runner's batches were persisted.
LEMMA SummariesStep ==
  ASSUME TypeOK, Placed, CountedHaveRows, SummariesCountRows, [Next]_vars
  PROVE  SummariesCountRows'
<1>1. ASSUME NEW e \in log, e.type = "workflow_completed"
      PROVE  \E S \in SUBSET PatchId :
               e.count = Cardinality(S) /\ \A id \in S : HasRow(patches', e.by, e.snapshot, id)
  <2>1. PICK S \in SUBSET PatchId :
          e.count = Cardinality(S) /\ \A id \in S : HasRow(patches, e.by, e.snapshot, id)
    BY <1>1 DEF SummariesCountRows
  <2>2. \A id \in S : HasRow(patches', e.by, e.snapshot, id)
    BY <2>1, HasRowStays
  <2> QED
    BY <2>1, <2>2
<1>2. CASE log' = log
  BY <1>1, <1>2 DEF SummariesCountRows
<1>3. ASSUME NEW events, log' = log \cup events,
             \A e \in events : e.type # "workflow_completed"
      PROVE  SummariesCountRows'
  BY <1>1, <1>3 DEF SummariesCountRows
<1>4. ASSUME NEW r \in Runners, EmitCompleted(r),
             log' = log \cup {CompletedEvent(r, Cardinality(counted[r]))}
      PROVE  SummariesCountRows'
  <2> DEFINE e == CompletedEvent(r, Cardinality(counted[r]))
  <2>1. e.by = r /\ e.snapshot = snapshot[r] /\ e.count = Cardinality(counted[r])
    BY DEF CompletedEvent
  <2>2. counted[r] \in SUBSET PatchId
    BY DEF TypeOK
  <2>3. \A id \in counted[r] : HasRow(patches, r, snapshot[r], id)
    BY DEF CountedHaveRows
  <2>4. patches' = patches
    BY <1>4 DEF EmitCompleted
  <2>5. \A id \in counted[r] : HasRow(patches', e.by, e.snapshot, id)
    BY <2>1, <2>3, <2>4 DEF HasRow
  <2> HIDE DEF e
  <2>6. \E S \in SUBSET PatchId :
          e.count = Cardinality(S) /\ \A id \in S : HasRow(patches', e.by, e.snapshot, id)
    BY <2>1, <2>2, <2>5
  <2>7. log' = log \cup {e}
    BY <1>4 DEF e
  <2> QED
    BY <1>1, <2>6, <2>7 DEF SummariesCountRows
<1>5. ASSUME NEW r \in Runners, log' = log \cup {SignedEvent(r, PatchesInLog)}
      PROVE  SummariesCountRows'
  <2> DEFINE signed == {SignedEvent(r, PatchesInLog)}
  <2>1. \A e \in signed : e.type # "workflow_completed"
    BY DEF SignedEvent
  <2> HIDE DEF signed
  <2>2. log' = log \cup signed
    BY <1>5 DEF signed
  <2> QED
    BY <1>3, <2>1, <2>2
<1>6. ASSUME NEW events, log' = log \cup events, \A x \in events : x.type = "patch_event"
      PROVE  SummariesCountRows'
  BY <1>3, <1>6
<1> QED
  BY <1>2, <1>4, <1>5, <1>6, LogChange

--------------------------------------------------------------------------------
\* A runner reads the patches in the examine phase, and goes on with what it read.
LEMMA ReadChange ==
  ASSUME TypeOK, [Next]_vars, NEW q \in Runners, PastRead(q)', ~ReadPatches(q)
  PROVE  PastRead(q) /\ candidates'[q] = candidates[q]
<1>1. /\ phase \in [Runners -> Phases] /\ at \in [Runners -> Statements]
      /\ candidates \in [Runners -> SUBSET Patch]
  BY DEF TypeOK
<1> DEFINE Goal == PastRead(q) /\ candidates'[q] = candidates[q]
<1>2. CASE phase'[q] = phase[q] /\ at'[q] = at[q] /\ candidates'[q] = candidates[q]
  BY <1>2 DEF PastRead
<1>3. ASSUME NEW r \in Runners, NEW s, phase' = phase, at' = [at EXCEPT ![r] = s],
             candidates' = candidates,
             phase[r] = "examine" => s \notin {"persist", "end", "returned"} \/ PastRead(r)
      PROVE  Goal
  <2>1. CASE q # r
    BY <1>1, <1>2, <1>3, <2>1
  <2>2. CASE q = r
    <3>1. at'[q] = s
      BY <1>1, <1>3, <2>2
    <3> QED
      BY <1>3, <2>2, <3>1 DEF PastRead
  <2> QED
    BY <2>1, <2>2
<1>4. ASSUME NEW r \in Runners, Fail(r), candidates' = candidates PROVE Goal
  <2>1. phase' = phase /\ \E s \in {"failed", First(phase[r])} : at' = [at EXCEPT ![r] = s]
    BY <1>4, FailFacts
  <2>2. phase[r] = "examine" => First(phase[r]) = "begin"
    BY <1>1, PhaseFacts
  <2> QED
    BY <1>3, <1>4, <2>1, <2>2
<1>5. ASSUME NEW r \in Runners, Begin(r) PROVE Goal
  <2>1. /\ phase' = phase /\ at' = [at EXCEPT ![r] = AfterPre[phase[r]]]
        /\ candidates' = candidates
    BY <1>5 DEF Begin, Goto, memory
  <2>2. phase[r] = "examine" => AfterPre[phase[r]] = "body"
    BY PhaseFacts
  <2> QED
    BY <1>3, <2>1, <2>2
<1>6. ASSUME NEW r \in Runners, End(r) PROVE Goal
  <2>1. /\ phase' = phase /\ \E s : at' = [at EXCEPT ![r] = s]
        /\ candidates' = candidates /\ at[r] = "end"
    BY <1>6 DEF End, Goto, memory
  <2> QED
    BY <1>3, <2>1 DEF PastRead
<1>7. ASSUME NEW r \in Runners, Proceed(r) PROVE Goal
  <2>1. candidates' = candidates /\ at[r] = "returned"
    BY <1>7 DEF Proceed
  <2>2. CASE phase[r] = "audit"
    BY <1>3, <1>7, <2>1, <2>2 DEF Proceed, Goto
  <2>3. CASE phase[r] # "audit"
    <3> DEFINE p == NextPhase[phase[r]]
    <3>1. phase' = [phase EXCEPT ![r] = p] /\ at' = [at EXCEPT ![r] = First(p)]
      BY <1>7, <2>3 DEF Proceed
    <3>2. p \in Phases /\ (p = "audit" => phase[r] = "examine")
      BY <1>1, <2>3, PhaseFacts
    <3>3. p = "examine" => First(p) = "begin"
      BY <3>2, PhaseFacts
    <3> HIDE DEF p
    <3>4. CASE q # r
      BY <1>1, <1>2, <2>1, <3>1, <3>4
    <3>5. CASE q = r
      <4>1. phase'[q] = p /\ at'[q] = First(p)
        BY <1>1, <3>1, <3>5
      <4>2. p = "audit"
        BY <3>3, <4>1 DEF PastRead
      <4> QED
        BY <2>1, <3>2, <3>5, <4>2 DEF PastRead
    <3> QED
      BY <3>4, <3>5
  <2> QED
    BY <2>2, <2>3
<1>8. ASSUME NEW r \in Runners,
             Wipe(r) \/ CopyFile(r) \/ CloneError(r) \/ TakeSnapshot(r) \/ IndexFiles(r)
               \/ ParseFiles(r) \/ Retrieve(r) \/ EmitCompleted(r)
      PROVE  Goal
  <2>1. /\ phase[r] \notin {"examine", "audit"} /\ candidates' = candidates
        /\ Fail(r) \/ \E s : Goto(r, s)
    BY <1>8
    DEF Wipe, CopyFile, CloneError, CloneThrows, TakeSnapshot, IndexFiles, ParseFiles,
        Retrieve, EmitCompleted, At, memory
  <2> QED
    BY <1>3, <1>4, <2>1 DEF Goto
<1>9. ASSUME NEW r \in Runners, Join(r) PROVE Goal
  <2>1. /\ phase' = [phase EXCEPT ![r] = "finalize"] /\ candidates' = candidates
        /\ at' = [at EXCEPT ![r] = First("finalize")]
    BY <1>9 DEF Join, memory
  <2>2. q # r
    BY <1>1, <2>1 DEF PastRead
  <2> QED
    BY <1>1, <1>2, <2>1, <2>2
<1>10. ASSUME NEW r \in Runners, ReadPatches(r) PROVE Goal
  <2>1. /\ r # q /\ phase' = phase /\ \E s : at' = [at EXCEPT ![r] = s]
        /\ \E c : candidates' = [candidates EXCEPT ![r] = c]
    BY <1>10 DEF ReadPatches, Goto
  <2> QED
    BY <1>1, <1>2, <2>1
<1>11. ASSUME NEW r \in Runners, PersistTests(r) \/ Sign(r) \/ Complete(r) PROVE Goal
  <2>1. PastRead(r) /\ candidates' = candidates /\ \E s : Goto(r, s)
    BY <1>11 DEF PersistTests, Sign, Complete, At, PastRead, memory
  <2> QED
    BY <1>3, <2>1 DEF Goto
<1>12. ASSUME NEW r \in Runners, Fault(r) PROVE Goal
  BY <1>4, <1>12 DEF Fault
<1>13. ASSUME NEW r \in Runners, DirectCrash(r) PROVE Goal
  BY <1>3, <1>13 DEF DirectCrash, Goto, memory
<1>14. ASSUME NEW r \in Runners, NEW f \in Files,
              Surgeon(r, f) \/ PersistPatch(r, f) \/ BatchReturns(r, f) \/ BatchFault(r, f)
       PROVE  Goal
  <2>1. /\ phase[r] = "patch" /\ phase' = phase /\ candidates' = candidates
        /\ at' = at \/ at' = [at EXCEPT ![r] = "failed"]
    BY <1>14, BatchFailFacts
    DEF Surgeon, PersistPatch, BatchReturns, BatchFault, InPatchPhase, control, memory
  <2> QED
    BY <1>2, <1>3, <2>1
<1>15. CASE UNCHANGED vars
  BY <1>2, <1>15 DEF vars, control, memory
<1> QED
  BY <1>5, <1>6, <1>7, <1>8, <1>9, <1>10, <1>11, <1>12, <1>13, <1>14, <1>15, NextCases

\* When a runner reads, all it will ever propose is there.
LEMMA ExaminersStep ==
  ASSUME TypeOK, HeldIsOfBatch, ExaminersHaveRead, [Next]_vars
  PROVE  ExaminersHaveRead'
<1>1. ASSUME NEW q \in Runners, ReadPatches(q), NEW p \in patches', p.status = "proposed"
      PROVE  p \in candidates'[q]
  <2>1. candidates'[q] = {c \in patches : c.status = "proposed"} /\ patches' = patches
    BY <1>1 DEF ReadPatches, TypeOK, rows
  <2> QED
    BY <1>1, <2>1
<1>2. ASSUME NEW q \in Runners, PastRead(q), candidates'[q] = candidates[q],
             NEW p \in patches', p.id[1] = q, p.status = "proposed"
      PROVE  p \in candidates'[q]
  <2>1. p \in patches
    <3>1. CASE patches' = patches
      BY <3>1
    <3>2. ASSUME NEW r \in Runners, NEW f \in Files, PersistPatch(r, f)
          PROVE  p \in patches
      <4>1. phase[r] = "patch" /\ patches' = patches \cup held[r][f] /\ held[r][f] # {}
        BY <3>2 DEF PersistPatch, InPatchPhase
      <4>2. \A x \in held[r][f] : x.id[1] = r
        BY <4>1 DEF HeldIsOfBatch
      <4>3. r # q
        BY <1>2, <4>1 DEF PastRead
      <4> QED
        BY <1>2, <4>1, <4>2, <4>3
    <3> QED
      BY <3>1, <3>2, RowsGrow
  <2> QED
    BY <1>2, <2>1 DEF ExaminersHaveRead
<1> QED
  BY <1>1, <1>2, ReadChange DEF ExaminersHaveRead

\* The audit is the last phase.
LEMMA AuditIsLast ==
  ASSUME TypeOK, [Next]_vars, NEW q \in Runners, phase[q] = "audit"
  PROVE  phase'[q] = "audit"
<1>1. phase \in [Runners -> Phases]
  BY DEF TypeOK
<1>2. ASSUME NEW r \in Runners, Fail(r) PROVE phase' = phase
  BY <1>2 DEF Fail
<1>3. ASSUME NEW r \in Runners,
             \/ Begin(r) \/ End(r) \/ Wipe(r) \/ CopyFile(r) \/ TakeSnapshot(r)
             \/ IndexFiles(r) \/ ParseFiles(r) \/ Retrieve(r) \/ EmitCompleted(r)
             \/ ReadPatches(r) \/ PersistTests(r) \/ Sign(r) \/ Complete(r) \/ Fault(r)
             \/ CloneError(r)
             \/ DirectCrash(r)
      PROVE  phase' = phase
  BY <1>2, <1>3
  DEF Begin, End, Wipe, CopyFile, CloneThrows, TakeSnapshot, IndexFiles, ParseFiles,
      Retrieve, EmitCompleted, ReadPatches, PersistTests, Sign, Complete, Fault, CloneError,
      DirectCrash, Goto
<1>4. ASSUME NEW r \in Runners, Proceed(r) \/ Join(r) PROVE phase'[q] = "audit"
  <2>1. phase' = phase \/ (phase[r] # "audit" /\ \E p : phase' = [phase EXCEPT ![r] = p])
    BY <1>4 DEF Proceed, Join, At, Goto
  <2> QED
    BY <1>1, <2>1
<1>5. ASSUME NEW r \in Runners, NEW f \in Files,
             Surgeon(r, f) \/ PersistPatch(r, f) \/ BatchReturns(r, f) \/ BatchFault(r, f)
      PROVE  phase' = phase
  BY <1>5, BatchFailFacts
  DEF Surgeon, PersistPatch, BatchReturns, BatchFault, control
<1>6. UNCHANGED vars => phase' = phase
  BY DEF vars, control
<1> QED
  BY <1>3, <1>4, <1>5, <1>6, NextCases

\* A report is signed when its runner's patches are all in the log that will be.
LEMMA ReportsStep ==
  ASSUME TypeOK, Placed, ReportsCoverPatches, [Next]_vars
  PROVE  ReportsCoverPatches'
<1>1. ASSUME NEW e \in log, e.type = "audit_signed"
      PROVE  e.by \in Runners /\ phase[e.by] = "audit" /\ phase'[e.by] = "audit"
  BY <1>1, AuditIsLast DEF ReportsCoverPatches
<1>2. CASE log' = log
  BY <1>1, <1>2 DEF ReportsCoverPatches
<1>3. ASSUME NEW n, log' = log \cup {n}, n.type = "workflow_completed"
      PROVE  ReportsCoverPatches'
  BY <1>1, <1>3 DEF ReportsCoverPatches
<1>4. ASSUME NEW r \in Runners, phase[r] # "audit", NEW events, log' = log \cup events,
             \A x \in events : x.type = "patch_event" /\ x.patch[1] = r
      PROVE  ReportsCoverPatches'
  <2>1. ASSUME NEW e \in log', e.type = "audit_signed" PROVE e \in log /\ e.by # r
    BY <1>1, <1>4, <2>1
  <2> QED
    BY <1>1, <1>4, <2>1 DEF ReportsCoverPatches
<1>5. ASSUME NEW r \in Runners, Sign(r), log' = log \cup {SignedEvent(r, PatchesInLog)}
      PROVE  ReportsCoverPatches'
  <2> DEFINE n == SignedEvent(r, PatchesInLog)
  <2>1. n.type = "audit_signed" /\ n.by = r /\ n.covers = PatchesInLog
    BY DEF SignedEvent
  <2>2. phase[r] = "audit" /\ phase'[r] = "audit"
    BY <1>5, AuditIsLast DEF Sign, At
  <2> HIDE DEF n
  <2>3. log' = log \cup {n}
    BY <1>5 DEF n
  <2>4. \A x \in log : x.type = "patch_event" => x.patch \in PatchesInLog
    BY DEF PatchesInLog
  <2>5. \A x \in log' : x.type = "patch_event" => x \in log
    BY <2>1, <2>3
  <2> QED
    BY <1>1, <2>1, <2>2, <2>3, <2>4, <2>5 DEF ReportsCoverPatches
<1>6. ASSUME NEW r \in Runners,
             log' = log \cup {CompletedEvent(r, Cardinality(counted[r]))}
      PROVE  ReportsCoverPatches'
  <2>1. CompletedEvent(r, Cardinality(counted[r])).type = "workflow_completed"
    BY DEF CompletedEvent
  <2> QED
    BY <1>3, <1>6, <2>1
<1>7. ASSUME NEW r \in Runners, NEW f \in Files, Surgeon(r, f) PROVE phase[r] # "audit"
  BY <1>7 DEF Surgeon, InPatchPhase
<1> QED
  BY <1>2, <1>4, <1>5, <1>6, <1>7, LogChange
--------------------------------------------------------------------------------
LEMMA InitInv == Init => IInv
<1> SUFFICES ASSUME Init PROVE IInv
  OBVIOUS
<1>1. TypeOK
  <2>1. 1 \in Attempt /\ faults \in 0..MaxFaults
    BY BoundsAssumption DEF Init, Attempt
  <2>2. /\ jobState \in JobStates /\ completedAt \in BOOLEAN
        /\ disk \in [Hosts -> SUBSET Files]
        /\ phase \in [Runners -> Phases] /\ at \in [Runners -> Statements]
        /\ batchAt \in [Runners -> [Files -> BatchStatements]]
    BY DEF Init, JobStates, Absent, Phases, Statements, BatchStatements
  <2>3. /\ snapshots \subseteq SnapshotId /\ fileRows \subseteq SnapshotId \X Files
        /\ patches \subseteq Patch /\ tests \subseteq Test
        /\ todo \in [Runners -> SUBSET Files] /\ unread \in [Runners -> SUBSET Files]
        /\ counted \in [Runners -> SUBSET PatchId]
        /\ held \in [Runners -> [Files -> SUBSET Patch]]
        /\ candidates \in [Runners -> SUBSET Patch]
        /\ snapshot \in [Runners -> SnapshotId \cup {NoSnapshot}]
        /\ host \in [Runners -> Hosts]
    BY DEF Init
  <2>4. /\ attempt \in [Runners -> Attempt]
        /\ batchAttempt \in [Runners -> [Files -> Attempt]]
    BY <2>1 DEF Init
  <2> QED
    BY <2>1, <2>2, <2>3, <2>4 DEF TypeOK
<1>2. Placed
  BY PhaseFacts DEF Init, Placed
<1>3. /\ BatchesAreIndexed /\ PatchesPointAtIndexedFiles /\ HeldIsOfBatch
      /\ CountedHaveRows /\ SummariesCountRows /\ ReportsCoverPatches
  BY DEF Init, BatchesAreIndexed, PatchesPointAtIndexedFiles, HeldIsOfBatch,
         CountedHaveRows, SummariesCountRows, ReportsCoverPatches
<1>4. ExaminersHaveRead
  BY DEF Init, ExaminersHaveRead
<1>5. FinitelyMany
  BY FS_EmptySet DEF Init, FinitelyMany
<1> QED
  BY <1>1, <1>2, <1>3, <1>4, <1>5 DEF IInv

LEMMA InductiveStep == IInv /\ [Next]_vars => IInv'
<1> SUFFICES ASSUME IInv, [Next]_vars PROVE IInv'
  OBVIOUS
<1>1. TypeOK' /\ Placed'
  BY TypeStep, PlacedStep DEF IInv
<1>2. BatchesAreIndexed' /\ PatchesPointAtIndexedFiles'
  BY BatchesStep, PatchesStep DEF IInv
<1>3. HeldIsOfBatch' /\ CountedHaveRows' /\ SummariesCountRows' /\ FinitelyMany'
  BY HeldStep, CountedStep, SummariesStep, FiniteStep DEF IInv
<1>4. ExaminersHaveRead' /\ ReportsCoverPatches'
  BY ExaminersStep, ReportsStep DEF IInv
<1> QED
  BY <1>1, <1>2, <1>3, <1>4 DEF IInv

\* The invariant holds at every step.
THEOREM Invariance == Spec => []IInv
BY InitInv, InductiveStep, PTL DEF Spec

\* Every table and every runner's memory keeps its type.
THEOREM TypeCorrectness == Spec => []TypeOK
<1>1. IInv => TypeOK
  BY DEF IInv
<1> QED
  BY <1>1, Invariance, PTL

\* Whichever runner replaces the working tree, and when, no patch is of a file that
\* its snapshot does not have.
THEOREM PatchesAreOfIndexedFiles == Spec => []PatchesPointAtIndexedFiles
<1>1. IInv => PatchesPointAtIndexedFiles
  BY DEF IInv
<1> QED
  BY <1>1, Invariance, PTL

\* A finished run has examined all that it proposed, however often its steps and
\* batches were retried.
THEOREM ExaminedBeforeFinished == Spec => []FinishedRunExaminedItsPatches
<1>1. IInv => FinishedRunExaminedItsPatches
  BY DEF IInv, Placed, ExaminersHaveRead, PastRead, FinishedRunExaminedItsPatches
<1> QED
  BY <1>1, Invariance, PTL

\* Every report of a run covers all of its patches that the log knows of, not only
\* at its end.
THEOREM AuditedBeforeFinished == Spec => []FinishedRunAuditsItsPatches
<1>1. ASSUME IInv, NEW e \in log, e.type = "audit_signed",
             NEW p \in patches, p.id[1] = e.by, p.id \in PatchesInLog
      PROVE  p.id \in e.covers
  <2>1. PICK x \in log : x.type = "patch_event" /\ x.patch = p.id
    BY <1>1 DEF PatchesInLog
  <2> QED
    BY <1>1, <2>1 DEF IInv, ReportsCoverPatches
<1>2. IInv => FinishedRunAuditsItsPatches
  BY <1>1 DEF FinishedRunAuditsItsPatches
<1> QED
  BY <1>2, Invariance, PTL

\* A summary of n patches has n rows of its run behind it, for any number of files,
\* patches of one file, retries and runners.
THEOREM SummariesAreBacked == Spec => []SummaryNeverOverstates
<1>1. ASSUME IInv, NEW e \in log, e.type = "workflow_completed"
      PROVE  e.count <= Cardinality({p \in patches :
                                       p.id[1] = e.by /\ p.snapshot = e.snapshot})
  <2> DEFINE mine == {p \in patches : p.id[1] = e.by /\ p.snapshot = e.snapshot}
             ids == {p.id : p \in mine}
             idOf == [p \in mine |-> p.id]
  <2>1. PICK S \in SUBSET PatchId :
          e.count = Cardinality(S) /\ \A id \in S : HasRow(patches, e.by, e.snapshot, id)
    BY <1>1 DEF IInv, SummariesCountRows
  <2>2. S \in SUBSET ids
    BY <2>1 DEF HasRow
  <2>3. IsFiniteSet(mine)
    <3>1. IsFiniteSet(patches) /\ mine \in SUBSET patches
      BY <1>1 DEF IInv, FinitelyMany
    <3> QED
      BY ONLY <3>1, FS_Subset
  <2>4. idOf \in Surjection(mine, ids)
    BY DEF Surjection
  <2> HIDE DEF mine, ids, idOf
  <2>5. IsFiniteSet(ids) /\ Cardinality(ids) <= Cardinality(mine)
    BY ONLY <2>3, <2>4, FS_Surjection
  <2>6. Cardinality(S) <= Cardinality(ids)
    BY ONLY <2>2, <2>5, FS_Subset
  <2>7. IsFiniteSet(S)
    BY ONLY <2>2, <2>5, FS_Subset
  <2>8. /\ Cardinality(S) \in Nat /\ Cardinality(ids) \in Nat
        /\ Cardinality(mine) \in Nat
    BY ONLY <2>3, <2>5, <2>7, FS_CardinalityType
  <2>9. e.count <= Cardinality(mine)
    BY <2>1, <2>5, <2>6, <2>8
  <2> QED
    BY <2>9 DEF mine
<1>2. IInv => SummaryNeverOverstates
  BY <1>1 DEF SummaryNeverOverstates
<1> QED
  BY <1>2, Invariance, PTL

================================================================================
