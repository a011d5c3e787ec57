----------------------------- MODULE AuditSigning ------------------------------
(***************************************************************************)
(* The signing lifecycle of ONE job: every process that may sign for it,    *)
(* over the three tables they share (signing_keys, audit_events,            *)
(* qa_transcripts).                                                         *)
(*                                                                          *)
(* Auditors run AuditorService.audit: the Inngest workflow's audit step,    *)
(* the direct runner beside it, the MCP audit_repository tool. Askers run   *)
(* QaService.ask.  All of them call getOrCreateJobKeypair, which is a       *)
(* SELECT followed, on a miss, by an INSERT, on a connection where every    *)
(* statement commits by itself; only the unique index on (job, algorithm)   *)
(* stands between two of them that miss together.                           *)
(*                                                                          *)
(* A signer in Durable is an Inngest step: an attempt that throws, or whose *)
(* process dies, even after its last write, is run again from its first     *)
(* line, MaxAttempts times in all. The others get one attempt.              *)
(***************************************************************************)
EXTENDS Integers, Sequences, FiniteSets

CONSTANTS
  Auditors,      \* processes that run AuditorService.audit for the job
  Askers,        \* processes that run QaService.ask for the job
  Durable,       \* the signers Inngest retries
  Keks,          \* values RENATUS_KEK has had anywhere
  KeksOf,        \* those it may have in a process of a signer, or unset
  NoKek,         \* RENATUS_KEK unset
  NoKey,         \* no keypair in memory
  NoRow,         \* the job has no signing_keys row
  MaxAttempts,   \* attempts of a durable signer: retries + 1
  MaxFaults,     \* bound: crashes and failed statements in a behaviour
  MaxWork        \* bound: rows the other agents append in a behaviour

Signers == Auditors \cup Askers

ASSUME SignersAssumption ==
  /\ Auditors \cap Askers = {}
  /\ Durable \subseteq Signers

ASSUME KeksAssumption ==
  KeksOf \in [Signers -> (SUBSET (Keks \cup {NoKek})) \ {{}}]

ASSUME BoundsAssumption ==
  /\ MaxAttempts \in Nat \ {0}
  /\ MaxFaults \in Nat
  /\ MaxWork \in Nat

\* A keypair is named by the attempt whose randomPrivateKey() made it.
Key == Signers \X (1..MaxAttempts)

ASSUME MarkersAssumption ==
  /\ NoKey \notin Key
  /\ NoRow \notin [key : Key, kek : Keks \cup {NoKek}]

VARIABLES
  keyRow,        \* the signing_keys row: the key and the KEK it is encrypted with
  log,           \* audit_events of the job, in commit order
  transcripts,   \* qa_transcripts of the job, in commit order
  issued,        \* signatures returned to a caller or stored in a transcript
  pc,            \* where each signer is
  attempt,       \* its current attempt
  env,           \* RENATUS_KEK in the process of that attempt
  report,        \* an auditor's report: the number of rows it read
  held,          \* the keypair a signer has in memory
  faults,        \* crashes and failed statements so far
  work           \* rows appended by the other agents so far

vars == <<keyRow, log, transcripts, issued, pc, attempt, env, report, held,
          faults, work>>

\* The tables, and the part of the state that belongs to one signer's process.
tables == <<keyRow, log, transcripts, issued>>

Signature == [signer : Signers, key : Key, covers : Nat]

WorkEvent == [kind |-> "work"]
SignedEvent(sig) == [kind |-> "audit_signed", signature |-> sig]
Event == [kind : {"work"}] \cup [kind : {"audit_signed"}, signature : Signature]

PC == {"start", "elicit", "lookup", "open", "create", "sign", "emit",
       "returned", "done", "failed"}

\* An attempt that is under way: it may throw, or its process may die.
Running == {"elicit", "lookup", "open", "create", "sign", "emit", "returned"}

Init ==
  /\ keyRow = NoRow
  /\ log = <<>>
  /\ transcripts = <<>>
  /\ issued = {}
  /\ pc = [s \in Signers |-> "start"]
  /\ attempt = [s \in Signers |-> 1]
  /\ env = [s \in Signers |-> NoKek]
  /\ report = [s \in Signers |-> 0]
  /\ held = [s \in Signers |-> NoKey]
  /\ faults = 0
  /\ work = 0

--------------------------------------------------------------------------------
Goto(s, label) == pc' = [pc EXCEPT ![s] = label]

\* The process is over, and what it had in memory with it.
Forget(s) ==
  /\ env' = [env EXCEPT ![s] = NoKek]
  /\ report' = [report EXCEPT ![s] = 0]
  /\ held' = [held EXCEPT ![s] = NoKey]

\* Mutant of Fail: one retry too many.
Fail_OneTooMany(s) ==
  LET again == s \in Durable /\ attempt[s] <= MaxAttempts
  IN  /\ Goto(s, IF again THEN "start" ELSE "failed")
      /\ attempt' = IF again THEN [attempt EXCEPT ![s] = @ + 1] ELSE attempt
      /\ Forget(s)

\* The attempt ends with an exception. Inngest runs a durable step again while
\* it has attempts left; nothing else does.
Fail(s) ==
  LET again == s \in Durable /\ attempt[s] < MaxAttempts
  IN  /\ Goto(s, IF again THEN "start" ELSE "failed")
      /\ attempt' = IF again THEN [attempt EXCEPT ![s] = @ + 1] ELSE attempt
      /\ Forget(s)

\* emitAuditEvent and recordSignatureEvent: the row is inserted, or the insert
\* fails and the exception is swallowed.
AppendBestEffort(e) ==
  \/ /\ log' = Append(log, e)
     /\ UNCHANGED faults
  \/ /\ faults < MaxFaults
     /\ faults' = faults + 1
     /\ UNCHANGED log

\* decryptWithKek succeeds only under the KEK the row was encrypted with; a
\* plaintext row needs none.
CanOpen(s) == keyRow.kek \in {NoKek, env[s]}

--------------------------------------------------------------------------------
\* Another agent of the job (cartographer, surgeon, ...) appends a row.
AgentEvent ==
  /\ work < MaxWork
  /\ work' = work + 1
  /\ log' = Append(log, WorkEvent)
  /\ UNCHANGED <<keyRow, transcripts, issued, pc, attempt, env, report, held,
                 faults>>

\* Mutant of RetrieveAuditEvents: the report leaves the audit_signed rows out.
RetrieveAuditEvents_WorkOnly(a) ==
  /\ pc[a] = "start"
  /\ \E k \in KeksOf[a] : env' = [env EXCEPT ![a] = k]
  /\ report' = [report EXCEPT ![a] =
                  Cardinality({i \in 1..Len(log) : log[i].kind = "work"})]
  /\ Goto(a, "lookup")
  /\ UNCHANGED <<tables, attempt, held, faults, work>>

\* audit: a new attempt, in a process with some KEK, reads the log as it is now.
RetrieveAuditEvents(a) ==
  /\ pc[a] = "start"
  /\ \E k \in KeksOf[a] : env' = [env EXCEPT ![a] = k]
  /\ report' = [report EXCEPT ![a] = Len(log)]
  /\ Goto(a, "lookup")
  /\ UNCHANGED <<tables, attempt, held, faults, work>>

\* ask: a new attempt emits qa_started and goes to the LLM.
StartAsk(q) ==
  /\ pc[q] = "start"
  /\ \E k \in KeksOf[q] : env' = [env EXCEPT ![q] = k]
  /\ AppendBestEffort(WorkEvent)
  /\ Goto(q, "elicit")
  /\ UNCHANGED <<keyRow, transcripts, issued, attempt, report, held, work>>

\* ask: the LLM answered with something that parses.
Elicited(q) ==
  /\ pc[q] = "elicit"
  /\ Goto(q, "lookup")
  /\ UNCHANGED <<tables, attempt, env, report, held, faults, work>>

\* ask: the LLM gave up. qa_failed is emitted and the attempt throws.
ElicitGaveUp(q) ==
  /\ pc[q] = "elicit"
  /\ faults < MaxFaults
  /\ faults' = faults + 1
  /\ log' \in {log, Append(log, WorkEvent)}
  /\ Fail(q)
  /\ UNCHANGED <<keyRow, transcripts, issued, work>>

\* Mutant of LookupKey: the row is not looked for.
LookupKey_AlwaysGenerate(s) ==
  /\ pc[s] = "lookup"
  /\ Goto(s, "create")
  /\ held' = [held EXCEPT ![s] = <<s, attempt[s]>>]
  /\ UNCHANGED <<tables, attempt, env, report, faults, work>>

\* getOrCreateJobKeypair: SELECT the row. On a miss a keypair is generated.
LookupKey(s) ==
  /\ pc[s] = "lookup"
  /\ \/ /\ keyRow # NoRow
        /\ Goto(s, "open")
        /\ UNCHANGED held
     \/ /\ keyRow = NoRow
        /\ Goto(s, "create")
        /\ held' = [held EXCEPT ![s] = <<s, attempt[s]>>]
  /\ UNCHANGED <<tables, attempt, env, report, faults, work>>

\* loadPrivateKeyFromRow: decrypt the row that was read, or throw.
OpenKey(s) ==
  /\ pc[s] = "open"
  /\ \/ /\ CanOpen(s)
        /\ held' = [held EXCEPT ![s] = keyRow.key]
        /\ Goto(s, "sign")
        /\ UNCHANGED <<attempt, env, report>>
     \/ /\ ~CanOpen(s)
        /\ Fail(s)
  /\ UNCHANGED <<tables, faults, work>>

\* Mutant of CreateKey: onConflictDoNothing, and the loser signs all the same.
CreateKey_DoNothing(s) ==
  /\ pc[s] = "create"
  /\ keyRow' = IF keyRow = NoRow THEN [key |-> held[s], kek |-> env[s]]
               ELSE keyRow
  /\ Goto(s, "sign")
  /\ UNCHANGED <<log, transcripts, issued, attempt, env, report, held, faults,
                 work>>

\* Mutant of CreateKey: onConflictDoUpdate, the last writer's key is kept.
CreateKey_DoUpdate(s) ==
  /\ pc[s] = "create"
  /\ keyRow' = [key |-> held[s], kek |-> env[s]]
  /\ Goto(s, "sign")
  /\ UNCHANGED <<log, transcripts, issued, attempt, env, report, held, faults,
                 work>>

\* signingKeyRepo.create: the INSERT succeeds, or the unique index on
\* (job, algorithm) rejects it because another signer was first.
CreateKey(s) ==
  /\ pc[s] = "create"
  /\ \/ /\ keyRow = NoRow
        /\ keyRow' = [key |-> held[s], kek |-> env[s]]
        /\ Goto(s, "sign")
        /\ UNCHANGED <<attempt, env, report, held>>
     \/ /\ keyRow # NoRow
        /\ Fail(s)
        /\ UNCHANGED keyRow
  /\ UNCHANGED <<log, transcripts, issued, faults, work>>

\* signAuditReport and recordSignatureEvent. The signature is returned to the
\* caller whether or not the audit_signed row could be inserted.
RecordSignature(a) ==
  LET sig == [signer |-> a, key |-> held[a], covers |-> report[a]]
  IN  /\ pc[a] = "sign"
      /\ issued' = issued \cup {sig}
      /\ AppendBestEffort(SignedEvent(sig))
      /\ Goto(a, "returned")
      /\ UNCHANGED <<keyRow, transcripts, attempt, env, report, held, work>>

\* ask: sign the transcript and INSERT it; no index limits a job to one row.
PersistTranscript(q) ==
  LET sig == [signer |-> q, key |-> held[q], covers |-> 0]
  IN  /\ pc[q] = "sign"
      /\ issued' = issued \cup {sig}
      /\ transcripts' = Append(transcripts, sig)
      /\ Goto(q, "emit")
      /\ UNCHANGED <<keyRow, log, attempt, env, report, held, faults, work>>

\* ask: emit qa_completed and return.
EmitCompleted(q) ==
  /\ pc[q] = "emit"
  /\ AppendBestEffort(WorkEvent)
  /\ Goto(q, "returned")
  /\ UNCHANGED <<keyRow, transcripts, issued, attempt, env, report, held, work>>

\* The caller has the result: Inngest has stored the step's output.
Finish(s) ==
  /\ pc[s] = "returned"
  /\ Goto(s, "done")
  /\ Forget(s)
  /\ UNCHANGED <<tables, attempt, faults, work>>

\* A statement fails or the process dies: at any point of an attempt, also
\* after its last write and before Inngest has stored the step's output.
Fault(s) ==
  /\ pc[s] \in Running
  /\ faults < MaxFaults
  /\ faults' = faults + 1
  /\ Fail(s)
  /\ UNCHANGED <<tables, work>>

--------------------------------------------------------------------------------
AuditorStep(a) == RetrieveAuditEvents(a) \/ RecordSignature(a)

AskerStep(q) ==
  StartAsk(q) \/ Elicited(q) \/ PersistTranscript(q) \/ EmitCompleted(q)

SharedStep(s) == LookupKey(s) \/ OpenKey(s) \/ CreateKey(s) \/ Finish(s)

\* What the code of one signer does when nothing goes wrong around it.
Step(s) ==
  \/ s \in Auditors /\ AuditorStep(s)
  \/ s \in Askers /\ AskerStep(s)
  \/ SharedStep(s)

Next ==
  \/ AgentEvent
  \/ \E s \in Signers : Step(s) \/ Fault(s)
  \/ \E q \in Askers : ElicitGaveUp(q)

Spec == Init /\ [][Next]_vars

\* Inngest keeps invoking a durable step until it has an output or no attempt
\* left, and a statement that was sent is answered. Nothing is assumed of the
\* signers that are not durable, nor that faults happen.
Fairness == \A s \in Durable : WF_vars(Step(s))

FairSpec == Spec /\ Fairness

--------------------------------------------------------------------------------
\* Every variable keeps its type; in particular a keypair in memory, in the row
\* or in a signature is one that some attempt of some signer generated.
TypeOK ==
  /\ keyRow \in {NoRow} \cup [key : Key, kek : Keks \cup {NoKek}]
  /\ log \in Seq(Event)
  /\ transcripts \in Seq(Signature)
  /\ issued \in SUBSET Signature
  /\ pc \in [Signers -> PC]
  /\ attempt \in [Signers -> 1..MaxAttempts]
  /\ env \in [Signers -> Keks \cup {NoKek}]
  /\ report \in [Signers -> Nat]
  /\ held \in [Signers -> Key \cup {NoKey}]
  /\ faults \in 0..MaxFaults
  /\ work \in 0..MaxWork

\* Whatever was signed for the job, by whichever process and in whichever
\* order, was signed with the one key in the signing_keys row: the row a
\* verifier reads is the key of every audit_signed row and every transcript.
\* In danger when two signers miss the SELECT together (sign.ts, 49-78).
SignedUnderStoredKey ==
  \A sig \in issued : keyRow # NoRow /\ sig.key = keyRow.key

\* An auditor that is retried after its signature was already recorded signs a
\* report that covers its own earlier audit_signed row: the report a reader is
\* served (the last one) never omits what the same auditor signed before.
\* In danger when a retry reuses what the crashed attempt had read.
ResignCoversEarlier ==
  \A i, j \in 1..Len(log) :
    /\ i < j
    /\ log[i].kind = "audit_signed"
    /\ log[j].kind = "audit_signed"
    /\ log[i].signature.signer = log[j].signature.signer
    => i <= log[j].signature.covers

\* The job's ledger as a verifier sees it.
Ledger == INSTANCE JobLedger
            WITH Signer <- Signers, Key <- Key, NoKey <- NoKey,
                 key <- IF keyRow = NoRow THEN NoKey ELSE keyRow.key,
                 log <- log, issued <- issued

\* Signers with retries, lost inserts and races implement the ledger: the key
\* is written once, the log only grows, and each signature is issued under the
\* stored key over rows already in the log.
LedgerRefined == Ledger!Spec

\* What the comment of the signing_keys table says of changing RENATUS_KEK:
\* "in a non-destructive way" - a key stored under one KEK can still be loaded.
RotationIsNonDestructive ==
  \A s \in Signers : pc[s] = "open" => CanOpen(s)

\* A durable signer gets its signature, whoever it raced for the key and
\* whatever crashed, as long as the row can be opened: losing the race costs it
\* one attempt, and its next attempt finds the winner's row (sign.ts, 49-54).
\* It needs MaxAttempts >= MaxFaults + 2.
DurableSignersFinish ==
  []RotationIsNonDestructive => \A s \in Durable : <>(pc[s] = "done")
================================================================================
