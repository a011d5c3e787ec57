# Renatus in TLA+

Formal models of Renatus (`packages/*`, `apps/web`): what a job goes through, how several
processes carry out the same job at once, how its report is signed, and how a page follows
it; further what happens before a job (the two doors requests come in by) and inside its
agents (index, retrieval, plans, patches, tests, and the models they ask). All are checked
with TLC on small instances; what matters most of every one is also proved with TLAPS, for
instances of any size. Paths are relative to the root of the repository.

## The system

A *job* is one request to migrate, refactor, audit or answer a question about a repository.
Its state is a row of `jobs` and the rows other tables keep for it. All of it lives in
Postgres, reached through `neon-http`: **every statement commits by itself**, there are no
transactions (one exception, in the Cartographer's cache) and no locks. Agents are classes
that make a few statements in a fixed order; what runs them is one of

- the **Inngest workflow** (`packages/agents/src/_orchestrator/*-repository.ts`): a function
  cut into `step.run`s. Inngest stores a step's output when it has it; until then, a step
  that throws or whose process dies is run again from its first line, three times in all
  (`retries: 2`), in a fresh process;
- the **direct runner** (`run-*-direct.ts`): the same statements in the web server's own
  process, started after the response. The first exception ends it;
- an **MCP tool** (`packages/mcp-server/src/tools`), one agent at a time.

The dispatcher (`apps/web/app/api/agents/[agentKind]/route.ts`, 349-356) starts both the
workflow and the direct runner for the same job. So two runs of one job normally race.

### Components

| Component | State it keeps | Operations | What makes it correct |
| --- | --- | --- | --- |
| Signing (`agents/src/auditor`) | `signing_keys`, `audit_signed` rows | audit, getOrCreateJobKeypair, load and open the key, sign, record | one key per job, a signature covers rows that exist, a retry hides nothing, a retried signer gets through |
| Q&A agent (`agents/src/qa`) | `qa_transcripts` | ask | signed under the job's key; only offered files are cited |
| Workflows and direct runners (`_orchestrator`) | `jobs.state`, `completed_at` | nine phases, from clone to audit | moves forward, reaches a terminal state, reports truthfully |
| Clone adapter (`github/adapter.ts`) | the working tree, `repo_snapshots` | clone | the tree is the whole repository |
| Indexer (`agents/src/indexer`) | `files`, `imports`, `symbols` | index | rows for every file, once |
| Retrieval (`agents/src/retrieval`) | - | retrieve | every affected file, in one batch, with its rules |
| Surgeon | `patches` | migrateBatch | an event and a row for every outcome; no unvalidated patch |
| Examiner | `generated_tests` | examineBatch | every proposed patch is examined |
| Cartographer | `breaking_change_maps` | planFromPack, planFromSource | a plan is whole, and one key has one plan for good |
| Audit events (`audit-events/emit.ts`) | `audit_events` | emitAuditEvent | never fails its caller |
| Live progress (`api/jobs/[jobId]/stream`, `jobs/[jobId]`) | per-connection memory, the page | GET, poll, stop; render, listen, reconnect | nothing twice, nothing lost, ends when the job ends |
| Report endpoint (`api/jobs/[jobId]/audit-report`) | - | GET | serves the bytes that were signed |
| Dispatcher (`api/agents/[agentKind]`) | `jobs`, `web_jobs`, `mcp_sessions` | POST | an accepted job is started, by whoever said so |
| Q&A workflow and direct runner (`_orchestrator/*qa*`) | `jobs.state`, `repo_snapshots`, `qa_transcripts` | four steps | done means answered |
| MCP server | `mcp_sessions`, `tool_invocations` | withAudit, upsertSession, apply_patch, ... | one session row; file and status agree |
| LLM router (`packages/llm`) | provider order, the IAM token of watsonx | complete | a call is answered or fails; a token in use is good |
| Canonical JSON (`packages/shared`) | - | canonicalize | equal values, equal bytes |

They interact through the tables above, through the file system of the host (the working
tree is named by the job id alone, so two runs on one host share it) and through the
browser's event stream.

### What is hard here

Two runs of one job; several signers of one job; retries of a step that had already written;
a crash between two statements, or of a server under its other calls; lost audit rows; polls
of one stream that overlap; a connection that drops; a cache two runs fill at once; a loop
that asks a model again; a token refreshed twice; an index that is read while it is written;
a log that grows under a report that was signed. The list, with the line where each one bites
and the property that watches it, is `hazards` in `PROJECT.json`.

## The modules

| Module | Models | Checked by |
| --- | --- | --- |
| `JobLedger` | what signing promises: one key, a log that grows, signatures over what is in it | as the property `LedgerRefined` |
| `AuditSigning` | all signers of one job, statement by statement | `MCAuditSigning.cfg`, `MCKekRotation.cfg` |
| `AuditReport` | what is served of the signed job, and who can verify it | `MCAuditSigning.cfg`, `MCVerifyForm.cfg` |
| `JobPipeline` | all runs of one job, from clone to done | `MCPipelineAlone.cfg`, `MCPipelineBoth.cfg`, `MCDoneIsFinal.cfg`, `MCFailedJob.cfg` |
| `JobStream` | a page, its feed and the stream that serves it | `JobStream.cfg`, `JobStreamEnd.cfg` |
| `RepoIndex` | the Indexer, several runs over one snapshot | by way of `Retrieval` |
| `Retrieval` | a call of retrieve over an index that is being written | `MCRetrieval.cfg` |
| `LlmRouter` | a call's way to a model: providers, tokens, the re-ask loop | by way of `LlmAgents` |
| `Cartographer` | plans and their cache, over the router | by way of `LlmAgents` |
| `CodeAgents` | what Surgeon, Examiner and Q&A make of replies, over the router | by way of `LlmAgents` |
| `LlmAgents` | the three together | `MCLlmAgents.cfg` |
| `PlanRegister` | what the cache promises: a key is decided once, for everybody | as the property `PlansAgree` |
| `JobIntake` | requests, sessions and job rows, for both doors | by way of `FrontDoors` |
| `WebDispatcher` | the web door: POST | by way of `FrontDoors` |
| `McpServer` | the MCP door: `withAudit` and the tools | by way of `FrontDoors` |
| `QaWorkflow` | the Q&A workflow and its direct runner | by way of `FrontDoors` |
| `FrontDoors` | requests at both doors and the runners they start | `MCFrontDoors.cfg` |
| `AuditSigningProofs`, `AuditReportProofs`, `JobPipelineProofs`, `JobPipelineAloneProofs`, `JobStreamProofs`, `RetrievalProofs`, `LlmAgentsProofs`, `FrontDoorsProofs` | theorems | `tlapm` |
| `MC*` | model values and bounds | |

`FrontDoors` composes the doors with the runners; `LlmAgents` composes the agents with the
router; `AuditReport` adds to the states of `AuditSigning` what is derived from them;
`Retrieval` runs over `RepoIndex`. Where one model has another's subject as one step, it says
so: the audit step of `JobPipeline` is `AuditSigning`, its batches are `CodeAgents`, its index
and retrieve steps are `RepoIndex` and `Retrieval`.

### AuditSigning

`keyRow`, `log`, `transcripts` are the tables; `issued` is what callers were given. Each
signer has a program counter, an attempt, the `RENATUS_KEK` of its process, the length of the
log it read (`report`) and the key it holds. `RetrieveAuditEvents`, `LookupKey`, `OpenKey`,
`CreateKey`, `RecordSignature` are the awaits of `AuditorService.audit`; `StartAsk`,
`Elicited`, `ElicitGaveUp`, `PersistTranscript`, `EmitCompleted` those of `QaService.ask`,
which shares the key with it. Between any two a `Fault` may end the attempt. A key is named by
the attempt that generated it, a signature by its signer, its key and the number of rows it
covers: hashing and ed25519 are assumed to do what they are for.

### AuditReport

The endpoint has no state: `Served` is what it answers in a state of `AuditSigning`, the
latest `audit_signed` row's `canonicalReportBytes`, parsed and as they are, or, before there is
one, a report rebuilt from the log. A report is its snapshot and the sort of timestamp each of
its events has: a `Date`, what `canonicalJson` makes of one, an ISO string. `WidgetPasses` is the
check of the audit page, which hashes the bytes; `FormPasses` that of `/verify`, which parses the
report and encodes it again.

### JobPipeline

`phase` and `at` say which statement a run is at: the phase's first write of `jobs.state` (`Begin`),
its body, its last write (`End`), the moment after which only Inngest's copy of the output is
missing (`Proceed`). Clone copies file by file, so that a crash or another run can be met half way.
The batches of the patch phase run in parallel, each with its own attempts (`batchAt`,
`batchAttempt`), as `Promise.all` over `step.run`s does; in the direct runner the first that throws
ends the run while the others go on. A reply may have several entries for a file, and the Surgeon
makes a patch of each: at most `MaxEntries`. `held` is what a batch has of them in memory. A row or
event is named by the run, file, attempt and entry that made it, so that a second one is not
mistaken for the first. What the LLM makes of a file is any of `Outcomes`.

A failure is thrown, or swallowed: the Indexer logs a file it cannot stat or read and goes on
without it, and retrieval takes one it cannot read for an empty file. `unread` is the files a run
has passed over in this way. The index step walks the tree and writes the `files` rows of what it
could read; then it parses.

All three code-changing workflows and their direct runners have these phases in this order;
what differs (where the rules come from) is inside `plan`. One file is one batch: the model's
files share no import.

### JobStream

One connection at a time, as an `EventSource` has it. `wire` is what the stream enqueued and
the page has not handled. A poll is cut at its awaits: `Tick` (read the rows), `SendNew`,
`ReadState`, `Compare`; `MaxPolls` of them may be under way, since `setInterval` waits for
none. The job is the environment: it appends rows and moves its state, also away from `done`,
which `DoneIsFinal` below shows it does. An audit frame stands for the frames of one poll.
`Stop` closes the controller but does not end polls that are under way: they go on, and
their `enqueue` throws. `ended` and `due` are history: whether the job has ended, and the rows
it had when it first did.

### RepoIndex and Retrieval

A tree is a function from the paths on disk to files: the specifiers a file imports, where in
it each rule matches, whether it is too large to index. A run of the Indexer walks, inserts the
`files` rows, parses, inserts imports and symbols (`Walk`, `InsertFiles`, `Parse`, ...), a
statement at a time, beside another run over the same snapshot. `Resolve` tries the
extensions and the `index` files in the code's order (`Tried`).

`Retrieve` loads the rows, reads the files in any order, and tests each rule on each of them.
`Matches` keeps `lastIndex`, which a global expression keeps from one file to the next: `From`
is its reset. Importers are looked up per seed, the answers come in any order, at most
`MaxAncestors` are kept. What follows the last answer has no `await`, so it is one step,
`MakeBatches`, made of what the code computes one after the other: `Adjacency` (the pairs, in the
order the code pushes them), `Attributed` (rules handed down pair by pair), `Forest` (union-find:
`Unite` with its two `Compress`es and the two `Root`s), `Components`, `Chunks`. What a loop climbs
or a recursive query reaches is a least closed set (`Above`, `Importers`); a loop over a list is a
function of how many of its members were handled; an index in a sorted list is a `Rank`. The
properties use nothing of the computation: files belong together for `BatchesAreCoherent` if no set
that every link of a seed and an importer leaves undivided tells them apart, and
`NothingAffectedIsMissed` takes the importers by a graph of its own, of the specifiers on disk.

### LlmRouter, Cartographer, CodeAgents and LlmAgents

A call of an agent is at a statement (`at`), in an attempt of its Inngest step, in a round of
its re-ask loop (`retries`), in a conversation that is `large` or not: `SelectAdapter` takes the
first provider that is configured and fits. An adapter is an ask and a reply; watsonx also
fetches a token, which has the time IAM honours it to and the time the client thinks it does.
`Throw` is an exception that leaves the method: the step is run again, or the call has failed.

`Cartographer` has the cache as its two tables, read by two `SELECT`s and written by one
transaction. A version is any sequence of characters, which is all the code asks of one; a key is
what is hashed, the parts put one after the other with nothing between them, so that two inputs may
have one key. `CodeAgents` has the Surgeon's loop (drop strays and no-ops, parse, ask again, stubs
at the end), the Examiner's (patch after patch, each with its own loop, tests and errors) and the
Q&A agent's. A reply, a batch and a list of patches are sets, since no property tells their order
apart. A file's new contents are the same, good or broken.

### JobIntake, WebDispatcher, McpServer, QaWorkflow and FrontDoors

A request is at a place (`at`) with the statement it is about to make. `JobIntake` has what the
doors share: `upsertSession` (a read, then an update or an insert that the unique index may refuse),
finding a snapshot, the job row. `StatementFails` is a statement that is not carried out, or is and
whose answer is lost. `WebDispatcher` goes on to the Inngest event, the `after` callback and the
`web_jobs` row; `McpServer` wraps its tools in `withAudit`, starts direct runners without waiting
for them, and applies patches. `written` is history: the patches whose contents were written to
their file at some time. `QaWorkflow` has the runners of a question and, for a question about a
repository that has no snapshot, the working tree its runners clone into: one for each job and host
(`tree`), which every clone wipes first (`Wipe`, `Copy`, `CheckOut`), and which the Indexer walks
before its `files` rows and parses after them. A runner some of whose files another removed is
`robbed`: what it finds is then incomplete, or its statement throws. A step of the workflow may be
on any host of `HostsOf`. `ServerDies` ends every call and runner of the MCP server's process, also
when `migrate_repository`'s runner rejects, which nothing catches.

## What the runs check

| Run | Bounds | Shows |
| --- | --- | --- |
| `signing` | a retried auditor, a direct auditor, an asker; 3 attempts, 1 fault, 1 row by another agent; KEK set or unset per process | `SignedUnderStoredKey`, `ResignCoversEarlier`, `LedgerRefined`, `DurableSignersFinish`, `ServedReportsVerify` |
| `pipeline_alone` | the workflow alone, 2 files, up to 2 patches of each, 3 attempts, 2 faults, thrown or swallowed, every LLM outcome, one file untestable | a run is whole, truthful and audited, and ends (see below) |
| `pipeline_both` | workflow and direct runner, one host, 2 files, a patch of each, 2 attempts, 1 fault, thrown or swallowed | every patch is of a file indexed under its snapshot, and what a run proposed is examined, also when two runs race |
| `stream` | 2 rows, 2 polls, 1 move of the job from either working state, 1 fault | nothing twice, nothing after the end, everything arrives, the badge follows |
| `retrieval` | 4 trees of at most 5 files, 2 runs of the Indexer, 2 rules, batches of 2, 2 ancestors kept, 1 fault, answers in any order | what the index has of a file is of one run; batches are the components of the impact graph, cut at most by size; every affected file is in one, with its rules |
| `agents` | 2 calls, one retried, in 7 settings of agents and providers; 2 re-asks, 3 attempts, 1 fault, replies of up to 2 patches, 2 units to examine, 1 citation, a clock of 3; 6 inputs of packs, two of which have one key | plans are whole, of their key, and agree, patches were validated, giving up is visible, a test or a report for each patch, fresh tokens, every call ends |
| `front_doors` | 2 requests in 6 pairs, or 1 alone, 3 attempts, 1 fault, the runners of a question on one host or on two | sessions are shared, accepted jobs started, records true, applied patches on disk, done means answered, questions are answered |

Why the bounds are enough: every property relates at most two signers, two rows, two runs, two
files, two calls or two attempts, and the bounds have two of each. Three signers are there because
a winner, a loser and a bystander of the race for the key differ. Two faults are one in a step and
one in its retry. Two polls are what it takes for one to overtake the other. In `stream` one move
of the job is enough because it starts in either working state: forward, back and to the end are
all there. The trees of `retrieval` are a chain, a seed with more importers than are kept, a cycle
beside a file apart, and an importer two seeds have in common with a folder in place of a file.
The pairs of `agents` and `front_doors` are those that share state (a cache key, a token, a
session, a file, a process); two calls that share nothing are run alone or beside one that is soon
done, since neither can see the other. Two entries for a file (`MaxEntries`) are what it takes for
a count of patches to differ from a count of files; the run of two runners has one, since its two
properties are about single patches. Two hosts are one that a job's runners share and one that
they do not. Two re-asks are `MAX_LLM_VALIDATION_RETRIES`, three attempts `retries: 2`.

Deadlock is not checked: a job that is done has nothing left to do.

Some properties have a condition worth knowing.

- `DurableRunFinishes` excepts one step: a crash after the indexer's `files` rows makes each retry
  hit the unique index of (snapshot, path), so that index fails for good (the code says so itself,
  `migrate-repository.ts`, 69-71). `FinishedRunIsWhole` excepts the files whose reads failed and
  were logged (`unread`).
- `QuestionsAreAnswered` is about the web door, and says two things. A question that was accepted
  is answered when nothing fails, whether or not Inngest ever invokes the workflow. Once the
  workflow has begun it is answered whatever fails once, if the two runners never share a tree
  (`OwnTrees`), or need none because the snapshot is there already (`Cached`). On one host that is
  not so, and TLC shows how: the workflow's clone wipes the tree the direct runner is about to
  index, which throws and ends it, and a crash after the workflow's `files` rows makes each of its
  retries hit the unique index.
- `PostMortemIsWhole` excepts a feed that was sent an error frame: if the backfill of a job that
  has ended fails, the stream still says done, and the page keeps the rows it was rendered with.
- `PlansFitTheirKey` says that a plan is all of what was decided for *some input of its cache
  key*, not for the input asked about: those may differ, see the key collision below. What it
  excludes is half a map, left by one that failed between the map and its rules, and rules of no
  input.
- `AppliedPatchesAreOnDisk` lets contents on disk belong to a patch that does not say so when its
  call was cut off or failed: `apply_patch` writes the file first, and undoes nothing.

### Where the documents and the code differ

Each of these has a run that must find the violation.

- `kek_rotation`: `signing-keys.ts` says `kekId` lets the KEK be rotated non-destructively;
  nothing reads it, and a key stored under another KEK cannot be opened again.
- `done_is_final`: SYSTEM-DESIGN.md says the Inngest workflow alone decides the terminal
  state; the direct runner writes it too, and a slower run takes a job back out of `done`.
- `failed_job`: by the same sentence a job whose workflow has given up should be `failed`;
  nothing writes that state.
- `stream_end`: the route says it emits every row written since the last poll; rows written
  between the two reads of the last poll are never sent.
- `verify_form`: `canonicalJson` encodes a `Date` by its keys, of which it has none, so that the
  timestamps of a signed report are `{}`; the form of `/verify` wants dates and never accepts one
  (`canonical-json.ts`, 87; `verify-signature.ts`, 35 says the opposite).

These were met while modelling and have none, because they are not about a behaviour a property
here speaks of:

- two transcripts of one job are allowed for (`qa-repository.ts`, 90-93), and `getByJob` takes one
  of them with `LIMIT 1` and no order;
- a row of an earlier release, without stored bytes, can never verify: the rebuilt report has the
  `audit_signed` row itself among its events and a zero snapshot id, not only other timestamps, as
  `audit-report/route.ts`, 265-269 has it;
- an auditor that read the log early and records late makes the endpoint serve a report that covers
  fewer rows than the one served before; each is a true report;
- the audit page says it does not re-implement the check (`verification-widget.tsx`, 24);
  `verify-signature.ts`, 10 says it does;
- retrieval keeps a slice of importers so that the result is deterministic (`retrieval/index.ts`,
  80), of rows the query does not order;
- the Indexer "never throws on a single bad source" (`indexer/index.ts`, 131), but adds source files
  outside the `try`; and a specifier `./x.js` is never resolved to `x.ts`;
- a citation's hash is not taken when the file is read (`qa/index.ts`, 108) but is the row's;
- a router with Gemini alone has no adapter for a short conversation (`llm-router.ts`, 114);
- the cache of plans is looked up "by `(ecosystem, package?, fromMajor, toMajor)`. Returns `Rule[]`
  deterministically" (STATE-OF-RENATUS.md, 68), but its key has nothing between the parts
  (`cartographer/index.ts`, 489-494) and versions are free strings: after a plan from '18' to '19'
  was saved, a plan of the same package from '1' to '819' has its key and gets its rules, though no
  pack fits it and the answer would have been an error. With "a plan has the rules of the packs that
  fit its input" in place of `PlansFitTheirKey`, TLC finds this in six steps of the run `agents`;
- the direct runner beside the workflow "covers the case where Inngest cloud isn't synced"
  (`route.ts`, 353) and does; but when Inngest is synced and both are on one host, each wipes the
  other's tree, which is the condition of `QuestionsAreAnswered` above;
- tools of the MCP server say a job is queued by Inngest, and run it in their own process;
- the direct runner of a question audits it, which the workflow says nobody does;
- a cached snapshot is taken to be indexed because it exists (`qa-repository.ts`, 165);
- `adapter.ts`, 39-49 allows for serverless machines, whose disks are not shared: a step that is run
  on another one than `clone` finds no tree, or an older one, and a file that cannot be read matches
  no rule (`retrieval/index.ts`, 155-164), so that the run finishes with nothing patched. With two
  machines for a workflow TLC finds this of `FinishedRunIsWhole`; the runs of the pipeline have one.

## Fairness

- Signing: weak fairness of each *durable* signer's own steps, because Inngest goes on
  invoking a step until it has an output or no attempt left. None for the others.
- Pipeline: weak fairness of each run's own steps; none for failures.
- Stream: a read that was sent is answered, the interval keeps firing, the browser handles
  what arrives. None for the job, for failures, or for the five-minute limit: so `BadgeFollows`
  is not satisfied by simply running into it.
- Agents: weak fairness of each call's steps: a request that is out is answered, and a step is
  run again. None for the clock, failures, or the moment the host is connected.
- Front doors: as long as some request or runner can go on, one does. That is less than
  fairness of each, and enough: each ends after finitely many steps. Nothing says that Inngest ever
  invokes the workflow of a question.
- Retrieval has no liveness property.

## What is proved

For any finite or infinite set of actors, and any bounds, from the named assumptions of each
module. No safety property here is inductive by itself: each proof module has an `IInv` that
adds what the properties rest on, `Invariance` proves `Spec => []IInv` with one lemma for each
part, and the theorems follow from it.

**`AuditSigningProofs`**: `TypeCorrectness`, `OneKeyPerJob` (`SignedUnderStoredKey`),
`ResignLineage` (`ResignCoversEarlier`) and `Refinement` (`Spec => LedgerRefined`, signing
implements `JobLedger`). `IInv` adds `HeldIsStored` (a signer about to sign holds the stored
key: it read it, or its own INSERT succeeded, and rows are never replaced), `ReportsAreInLog` (a
report covers no more rows than the log has) and `OwnRowsWereRead` (a running auditor's report
covers every row that the same auditor signed before, because its attempt read the log after the
previous attempt wrote it). `ResignCoversEarlier` follows at the one action that appends an
`audit_signed` row, from `OwnRowsWereRead`. The refinement uses `IInv` too: a step that issues a
signature maps to `Issue` because the key held is the ledger's.

**`AuditReportProofs`**: `ServedReports` (`ServedReportsVerify`). It rests on `OneKeyPerJob`'s
invariant and on `RowsOfTheLog`: a signature in the log was issued, and covers rows before its own;
when there is an `audit_signed` row there is a latest one.

**`JobStreamProofs`**: `TypeCorrectness`, `NeverSentTwice` (`NoDoubleSend`), `NeverShownTwice`
(`ShownOnce`), `LastFrameIsLast` (`EndOfStream`), `PostMortem` (`PostMortemIsWhole`), for any
number of rows and overlapping polls. `IInv` adds that what was sent is marked as sent, that what
is shown is marked as seen, that the backfill is the first frame, that an open stream has no end
frame, and, for `PostMortem`, `DueIsOnItsWay`: once a stream has found the job ended, every row due
is shown, or in a frame on the wire, or held by the step that is about to send it.

**`JobPipelineProofs`**: `TypeCorrectness`, `PatchesAreOfIndexedFiles`
(`PatchesPointAtIndexedFiles`), `ExaminedBeforeFinished` (`FinishedRunExaminedItsPatches`),
`AuditedBeforeFinished` (`FinishedRunAuditsItsPatches`), `SummariesAreBacked`
(`SummaryNeverOverstates`), for any number of runners on any hosts. The runners share all tables
and, on one host, the tree, so that little can be said of those; `IInv` says what each runner has
for itself: its batches are of files indexed under its own snapshot, which does not change any more
(`BatchesAreIndexed`), each patch it counts has a row of its own under that snapshot
(`CountedHaveRows`), so does each a summary counts (`SummariesCountRows`), what a batch has in
memory are patches of its own file, and rows once they are persisted (`HeldIsOfBatch`), from the
examine phase on it has read all it proposed (`ExaminersHaveRead`), and its reports were signed when
no more events of it came (`ReportsCoverPatches`). The proofs show a little more than the properties
say: reports cover a run's patches at any time, not only at its end.

**`JobPipelineAloneProofs`**: what holds of runs that are left alone. `WholeRuns`
(`FinishedRunIsWhole`) has the hypothesis `OwnHosts`: a runner has one machine, and no two the same;
any number of them may still write to the tables of the job. Both halves are needed. On one host
with another run the tree may be wiped between clone and index, and on two machines see above.
`WholeInv` follows the files: copied or still to do, in the tree, in the index, in a batch, in a
batch that returned, or else passed over because a read failed (`unread`). `LoneRunMovesForward`
(`MovesBackOnlyToRetry`) has the hypothesis `OneRunner`, since a second run does take the job back
(`done_is_final`); `NotAhead` says that the state of the job is never ahead of what the runner is
at, which is what makes each write a step forward.

**`RetrievalProofs`**: for any trees, rules, bounds and runs of the Indexer, `OneRunForAFile`
(`RunsDoNotMix`), `WholeIndex` (`IndexOfFinishedRuns`), `ImportsJoinIndexedFiles`, `MatchesAreSeeds`
(`SeedsAreTheMatches`), `CoherentBatches` (`BatchesAreCoherent`) and `NothingMissed`
(`NothingAffectedIsMissed`). The definitions that no run checks are in the module itself.
- *The index.* `RunInv` says what a run has written by the statement it is at. It survives the
  steps of the others because rows are only added and the tree only shrinks, and a lost file is
  read by nobody any more. `OwnImports` says that an imports row of a file a run has written is
  of that run, which `RunsDoNotMix` is needed for; so the query, over the rows of all runs, finds
  of a file what the edges of its own run lead back to (`ImportersOfRun`).
- *The call.* A file is a seed of the rules it is attributed to (`SeedsInv`), it is attributed
  when it was read to the rules that match it (`MatchInv`), the files of the runs finished before
  were loaded (`LoadInv`), and what was looked up is importers, as many as are kept
  (`AncestorsInv`, `ImportersInv`).
- *The computation.* `AdjacencyIsLinks`: the list has the links and nothing else. `ForestIsRight`:
  after any list of pairs the two of each have one root, and every set that no pair divides has a
  file exactly if it has its root. It is an induction over the list, with `United` as its step: a
  forest with known roots (`Rooted`) stays one when paths are compressed and when one root is hung
  from another, in cycles and repetitions too. `HandedDown`: a seed's own rules reach each of its
  importers, and a rule reaches no file outside its component. `ChunksOfComponent`: `Rank` numbers
  a component from 0 without a gap, so its slices part it, and one that another follows is full.
  `MadeBatches` and `CompleteBatches` put these together; `AnswerInv` keeps the answer.

The library's induction theorems take an operator, which these provers cannot instantiate. The
module has its own, over a *set* of numbers (`Induction`, from the well-foundedness of `<`), and
from it `Recursion`, that a function defined by steps over `0..N` exists, and `Flattened`, what
`FlattenSeq` of any list of lists has in it.

**`LlmAgentsProofs`**: `TypeCorrectness`, `FreshTokens` (`TokensAreFresh`), `OnePlanForAKey` (`Spec
=> PlansAgree`, the Cartographers implement `PlanRegister`), `PlansAreWhole` (`PlansFitTheirKey`),
`ValidatedPatches` (`ProposedPatchesWereValidated`), `VisibleGivingUp` (`GaveUpIsVisible`) and
`NoPatchIsDropped` (`TestedOrReported`), for any number of calls, providers and patches. There is an
invariant for each. A cached token is good for `Margin` longer than it is used (`TokenIsKept`) and a
new one comes within `IamDelay` (`TokensCome`), which with `IamDelay + Margin <= Life` of
`RouterAssumption` is early enough. A plan returned is the one stored under its key, whose row is
written once (`PlansAreStored`). The rules of a row were decided for some input of its key, and so
are those about to be saved (`PlansAreDecided`); nothing is assumed of the keys, so that it holds
where two inputs share one. The patches an Examiner has passed are split into tested and reported
(`ExamInv`), where the next one is the least that is left. And `HeardInv` counts: a Surgeon that
asks has heard as many replies as it has retries behind it, an Examiner at most `MaxRetries + 1` for
each patch it has passed, and what a Surgeon returns is the good part of its last reply or, when the
budget is spent, a stub for each file. The type invariant rests on it too, as the budget is what
bounds the replies.

**`FrontDoorsProofs`**: `TypeCorrectness`, `SharedSessions` (`SessionsAreShared`), `StartedJobs`
(`AcceptedJobsAreStarted`), `TruthfulRecords` (`RecordsTellTheTruth`), `PatchesOnDisk`
(`AppliedPatchesAreOnDisk`) and `AnsweredJobs` (`DoneMeansAnswered`), for any requests, sessions,
snapshots, runners and failures. `KindInv` says which statements a request of a door and kind can be
at at all; all else needs it. `SessionInv`: the row a request goes on with is there, and of its
task. `JobInv`: how far a job has been started by the statement its request is at. `RecordInv` says,
next to what is in the log, that what a call records it has done (`Worked`), and that a call that
throws before anything has failed finds the session it needs (`Undisturbed`), so that its error gets
into the log. `PatchInv`: a patch whose row says applied, or is about to, was written; a file one of
whose patches was written holds a patch of its own that was; and what is on disk in place of the
original is of a call for that patch. `QaInv`: what a runner has behind it by its position is in the
tables (`RunnerInv`), and a job that was answered stays so (`WellAnswered`); wherever it is on its
hosts, and whoever has wiped its tree.

Every safety property of a passing run, invariant or refinement, is proved. Only model-checked:
liveness (`DurableSignersFinish`, `DurableRunFinishes`, `EventsArrive`, `BadgeFollows`, `CallsEnd`,
`DurablePackPlans`, `QuestionsAreAnswered`), which is out of the prover's reach, and the violations.

## What is not modelled

By choice: rule packs and prompts (data and wording), pages, canvases and forms (rendering and
local state; of the form of `/verify` its check is modelled), the verification scripts, the sandbox
package (stubs). Of canonical JSON only what it does to a report with timestamps: no property tells
the order of keys apart. Inside modelled parts: cryptography, wording of events, refs and commit
ids, symbol rows' contents, counts that only go into an event, an MCP server without
`DATABASE_URL` (it logs nothing), `audit_signed` rows of earlier releases, the files of a question's
tree one by one (`JobPipeline` has those of a code-changing job's).

Two workers of one Inngest step at the same time are not modelled: Inngest runs one attempt
at a time. A signature returned twice by a retry is.

## Plan

All safety properties of the runs have a theorem. Later work would go to what no property speaks of
yet: the order of the list on a page (`job-live-feed.tsx`, 61), and the cached snapshot that counts
as indexed because its row exists (`qa-repository.ts`, 165-168); both are among the hazards with the
reason why nothing covers them.
