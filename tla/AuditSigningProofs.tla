--------------------------- MODULE AuditSigningProofs --------------------------
(***************************************************************************)
(* Theorems about AuditSigning, for any number of auditors and askers, any  *)
(* retries and any KEKs.                                                    *)
(*                                                                          *)
(* SignedUnderStoredKey is not inductive: a signer holds its keypair in     *)
(* memory between getOrCreateJobKeypair and the statement that publishes    *)
(* the signature.  What makes it true is HeldIsStored: a signer that is     *)
(* about to sign holds the stored key, whether it read it or created it.    *)
(***************************************************************************)
EXTENDS AuditSigning, TLAPS

\* A signer about to sign holds the stored key, and a signer that found the row
\* is right that there is one.
HeldIsStored ==
  \A s \in Signers :
    /\ pc[s] = "sign" => keyRow # NoRow /\ held[s] = keyRow.key
    /\ pc[s] = "open" => keyRow # NoRow
    /\ pc[s] = "create" => held[s] \in Key

\* A report covers only rows that are in the log.
ReportsAreInLog == \A s \in Signers : report[s] <= Len(log)

\* Only auditors are named in audit_signed rows, and one that has read the log
\* and not yet signed has read all of its own earlier rows.
OwnRowsWereRead ==
  \A i \in 1..Len(log) :
    log[i].kind = "audit_signed" =>
      LET a == log[i].signature.signer
      IN  /\ a \in Auditors
          /\ pc[a] \in {"lookup", "open", "create", "sign"} => i <= report[a]

\* The inductive invariant.
IInv ==
  /\ TypeOK
  /\ HeldIsStored
  /\ ReportsAreInLog
  /\ SignedUnderStoredKey
  /\ OwnRowsWereRead
  /\ ResignCoversEarlier
--------------------------------------------------------------------------------
\* The steps of Next, one by one: the case split of every proof below.
LEMMA NextCases ==
  ASSUME [Next]_vars
  PROVE  \/ AgentEvent
         \/ \E a \in Auditors : RetrieveAuditEvents(a) \/ RecordSignature(a)
         \/ \E q \in Askers : \/ StartAsk(q) \/ Elicited(q) \/ ElicitGaveUp(q)
                             \/ PersistTranscript(q) \/ EmitCompleted(q)
         \/ \E s \in Signers : \/ LookupKey(s) \/ OpenKey(s) \/ CreateKey(s)
                              \/ Finish(s) \/ Fault(s)
         \/ UNCHANGED vars
BY DEF Next, Step, AuditorStep, AskerStep, SharedStep

\* An attempt that fails leaves the signer's local state well typed.
LEMMA FailType ==
  ASSUME TypeOK, NEW s \in Signers, Fail(s)
  PROVE  /\ pc' \in [Signers -> PC]
         /\ attempt' \in [Signers -> 1..MaxAttempts]
         /\ env' \in [Signers -> Keks \cup {NoKek}]
         /\ report' \in [Signers -> Nat]
         /\ held' \in [Signers -> Key \cup {NoKey}]
<1>1. attempt[s] < MaxAttempts => attempt[s] + 1 \in 1..MaxAttempts
  BY BoundsAssumption DEF TypeOK
<1> QED
  BY <1>1 DEF TypeOK, Fail, Forget, Goto, PC

\* A row appended by emitAuditEvent or recordSignatureEvent is well typed.
LEMMA AppendType ==
  ASSUME TypeOK, NEW e \in Event, AppendBestEffort(e)
  PROVE  log' \in Seq(Event) /\ faults' \in 0..MaxFaults
<1>1. log \in Seq(Event) /\ faults \in 0..MaxFaults
  BY DEF TypeOK
<1>2. log' = log \/ log' = Append(log, e)
  BY DEF AppendBestEffort
<1>3. faults' \in 0..MaxFaults
  BY <1>1, BoundsAssumption DEF AppendBestEffort
<1> QED
  BY <1>1, <1>2, <1>3

\* Every step keeps the types; a signature gets a real key because of HeldIsStored.
LEMMA TypeStep ==
  ASSUME TypeOK, HeldIsStored, [Next]_vars
  PROVE  TypeOK'
<1>0. WorkEvent \in Event
  BY DEF WorkEvent, Event
<1>1. CASE AgentEvent
  BY <1>0, <1>1, BoundsAssumption DEF AgentEvent, TypeOK
<1>2. ASSUME NEW a \in Auditors, RetrieveAuditEvents(a)
      PROVE  TypeOK'
  BY <1>2, KeksAssumption DEF RetrieveAuditEvents, TypeOK, tables, Goto, PC, Signers
<1>3. ASSUME NEW a \in Auditors, RecordSignature(a)
      PROVE  TypeOK'
  <2> DEFINE sig == [signer |-> a, key |-> held[a], covers |-> report[a]]
  <2>1. sig \in Signature
    BY <1>3, MarkersAssumption
    DEF RecordSignature, Signature, TypeOK, HeldIsStored, Signers
  <2>2. SignedEvent(sig) \in Event
    BY <2>1 DEF SignedEvent, Event
  <2>3. log' \in Seq(Event) /\ faults' \in 0..MaxFaults
    BY <1>3, <2>2, AppendType DEF RecordSignature
  <2> QED
    BY <1>3, <2>1, <2>3 DEF RecordSignature, TypeOK, Goto, PC, Signers
<1>4. ASSUME NEW q \in Askers, StartAsk(q)
      PROVE  TypeOK'
  <2>1. log' \in Seq(Event) /\ faults' \in 0..MaxFaults
    BY <1>0, <1>4, AppendType DEF StartAsk
  <2> QED
    BY <1>4, <2>1, KeksAssumption DEF StartAsk, TypeOK, Goto, PC, Signers
<1>5. ASSUME NEW q \in Askers, Elicited(q)
      PROVE  TypeOK'
  BY <1>5 DEF Elicited, TypeOK, tables, Goto, PC, Signers
<1>6. ASSUME NEW q \in Askers, ElicitGaveUp(q)
      PROVE  TypeOK'
  <2>1. log' \in Seq(Event)
    <3>1. log' = log \/ log' = Append(log, WorkEvent)
      BY <1>6 DEF ElicitGaveUp
    <3>2. log \in Seq(Event)
      BY DEF TypeOK
    <3> QED
      BY <1>0, <3>1, <3>2
  <2>2. faults' \in 0..MaxFaults
    BY <1>6, BoundsAssumption DEF ElicitGaveUp, TypeOK
  <2>3. q \in Signers /\ Fail(q)
    BY <1>6 DEF ElicitGaveUp, Signers
  <2> QED
    BY <1>6, <2>1, <2>2, <2>3, FailType DEF ElicitGaveUp, TypeOK
<1>7. ASSUME NEW q \in Askers, PersistTranscript(q)
      PROVE  TypeOK'
  <2> DEFINE sig == [signer |-> q, key |-> held[q], covers |-> 0]
  <2>1. sig \in Signature
    BY <1>7, MarkersAssumption
    DEF PersistTranscript, Signature, TypeOK, HeldIsStored, Signers
  <2>2. transcripts' \in Seq(Signature)
    BY <1>7, <2>1 DEF PersistTranscript, TypeOK
  <2> QED
    BY <1>7, <2>1, <2>2 DEF PersistTranscript, TypeOK, Goto, PC, Signers
<1>8. ASSUME NEW q \in Askers, EmitCompleted(q)
      PROVE  TypeOK'
  <2>1. log' \in Seq(Event) /\ faults' \in 0..MaxFaults
    BY <1>0, <1>8, AppendType DEF EmitCompleted
  <2> QED
    BY <1>8, <2>1 DEF EmitCompleted, TypeOK, Goto, PC, Signers
<1>9. ASSUME NEW s \in Signers, LookupKey(s)
      PROVE  TypeOK'
  <2>1. <<s, attempt[s]>> \in Key
    BY DEF TypeOK, Key
  <2>2. held' \in [Signers -> Key \cup {NoKey}]
    BY <1>9, <2>1 DEF LookupKey, TypeOK
  <2>3. pc' \in [Signers -> PC]
    BY <1>9 DEF LookupKey, TypeOK, Goto, PC
  <2> QED
    BY <1>9, <2>2, <2>3 DEF LookupKey, TypeOK, tables
<1>10. ASSUME NEW s \in Signers, OpenKey(s)
       PROVE  TypeOK'
  <2>1. CASE CanOpen(s)
    BY <1>10, <2>1, MarkersAssumption
    DEF OpenKey, HeldIsStored, TypeOK, tables, Goto, PC
  <2>2. CASE ~CanOpen(s)
    BY <1>10, <2>2, FailType DEF OpenKey, TypeOK, tables
  <2> QED
    BY <2>1, <2>2
<1>11. ASSUME NEW s \in Signers, CreateKey(s)
       PROVE  TypeOK'
  <2>1. CASE keyRow = NoRow
    <3>1. held[s] \in Key /\ env[s] \in Keks \cup {NoKek}
      BY <1>11 DEF CreateKey, HeldIsStored, TypeOK
    <3>2. keyRow' \in [key : Key, kek : Keks \cup {NoKek}]
      BY <1>11, <2>1, <3>1 DEF CreateKey
    <3> QED
      BY <1>11, <2>1, <3>2 DEF CreateKey, TypeOK, Goto, PC
  <2>2. CASE keyRow # NoRow
    BY <1>11, <2>2, FailType DEF CreateKey, TypeOK
  <2> QED
    BY <2>1, <2>2
<1>12. ASSUME NEW s \in Signers, Finish(s)
       PROVE  TypeOK'
  BY <1>12 DEF Finish, Forget, TypeOK, tables, Goto, PC
<1>13. ASSUME NEW s \in Signers, Fault(s)
       PROVE  TypeOK'
  <2>1. faults' \in 0..MaxFaults
    BY <1>13, BoundsAssumption DEF Fault, TypeOK
  <2> QED
    BY <1>13, <2>1, FailType DEF Fault, TypeOK, tables
<1>14. CASE UNCHANGED vars
  BY <1>14 DEF vars, TypeOK
<1> QED
  BY <1>1, <1>2, <1>3, <1>4, <1>5, <1>6, <1>7, <1>8, <1>9, <1>10, <1>11,
     <1>12, <1>13, <1>14, NextCases

--------------------------------------------------------------------------------
\* The key row is written when there is none, by the signer whose INSERT is first.
LEMMA KeyWrittenOnce ==
  ASSUME TypeOK, HeldIsStored, [Next]_vars
  PROVE  \/ keyRow' = keyRow
         \/ /\ keyRow = NoRow
            /\ keyRow' # NoRow
            /\ keyRow' \in [key : Key, kek : Keks \cup {NoKek}]
            /\ UNCHANGED <<log, issued>>
<1>1. ASSUME NEW s \in Signers, CreateKey(s), keyRow = NoRow
      PROVE  /\ keyRow' # NoRow
             /\ keyRow' \in [key : Key, kek : Keks \cup {NoKek}]
             /\ UNCHANGED <<log, issued>>
  BY <1>1, MarkersAssumption DEF CreateKey, HeldIsStored, TypeOK
<1> QED
  BY <1>1, NextCases
  DEF AgentEvent, RetrieveAuditEvents, RecordSignature, StartAsk, Elicited,
      ElicitGaveUp, PersistTranscript, EmitCompleted, LookupKey, OpenKey,
      CreateKey, Finish, Fault, tables, vars

\* The keypair in memory is the stored one when a signer is about to sign: it was
\* read from the row, or its INSERT succeeded. The row does not change under it.
LEMMA HeldStep ==
  ASSUME TypeOK, HeldIsStored, [Next]_vars
  PROVE  HeldIsStored'
<1> USE DEF HeldIsStored
<1>1. CASE AgentEvent \/ UNCHANGED vars
  BY <1>1 DEF AgentEvent, vars
<1>2. ASSUME NEW a \in Auditors, RetrieveAuditEvents(a) \/ RecordSignature(a)
      PROVE  HeldIsStored'
  BY <1>2 DEF RetrieveAuditEvents, RecordSignature, TypeOK, tables, Goto, Signers
<1>3. ASSUME NEW q \in Askers,
             \/ StartAsk(q) \/ Elicited(q) \/ PersistTranscript(q) \/ EmitCompleted(q)
      PROVE  HeldIsStored'
  BY <1>3
  DEF StartAsk, Elicited, PersistTranscript, EmitCompleted, TypeOK, tables, Goto,
      Signers
<1>4. ASSUME NEW s \in Signers, Fail(s), keyRow' = keyRow
      PROVE  HeldIsStored'
  BY <1>4 DEF Fail, Forget, Goto, TypeOK
<1>5. ASSUME NEW s \in Signers, LookupKey(s)
      PROVE  HeldIsStored'
  <2>1. <<s, attempt[s]>> \in Key
    BY DEF TypeOK, Key
  <2>2. keyRow' = keyRow
    BY <1>5 DEF LookupKey, tables
  <2>3. CASE keyRow # NoRow
    BY <1>5, <2>2, <2>3 DEF LookupKey, TypeOK, Goto
  <2>4. CASE keyRow = NoRow
    BY <1>5, <2>1, <2>2, <2>4 DEF LookupKey, TypeOK, Goto
  <2> QED
    BY <2>3, <2>4
<1>6. ASSUME NEW s \in Signers, OpenKey(s)
      PROVE  HeldIsStored'
  <2>1. keyRow' = keyRow
    BY <1>6 DEF OpenKey, tables
  <2>2. CASE CanOpen(s)
    BY <1>6, <2>1, <2>2 DEF OpenKey, TypeOK, Goto
  <2>3. CASE ~CanOpen(s)
    BY <1>4, <1>6, <2>1, <2>3 DEF OpenKey
  <2> QED
    BY <2>2, <2>3
<1>7. ASSUME NEW s \in Signers, CreateKey(s)
      PROVE  HeldIsStored'
  <2>1. CASE keyRow = NoRow
    <3>1. keyRow' = [key |-> held[s], kek |-> env[s]] /\ held' = held
      BY <1>7, <2>1 DEF CreateKey
    <3>2. keyRow' # NoRow /\ keyRow'.key = held[s]
      BY <1>7, <2>1, <3>1, MarkersAssumption DEF CreateKey, TypeOK
    <3>3. pc' = [pc EXCEPT ![s] = "sign"]
      BY <1>7, <2>1 DEF CreateKey, Goto
    <3> QED
      BY <2>1, <3>1, <3>2, <3>3 DEF TypeOK
  <2>2. CASE keyRow # NoRow
    BY <1>4, <1>7, <2>2 DEF CreateKey
  <2> QED
    BY <2>1, <2>2
<1>8. ASSUME NEW s \in Signers, Finish(s)
      PROVE  HeldIsStored'
  BY <1>8 DEF Finish, Forget, TypeOK, tables, Goto
<1>9. ASSUME NEW s \in Signers, Fault(s)
      PROVE  HeldIsStored'
  BY <1>4, <1>9 DEF Fault, tables
<1>10. ASSUME NEW q \in Askers, ElicitGaveUp(q)
       PROVE  HeldIsStored'
  BY <1>4, <1>10 DEF ElicitGaveUp, Signers
<1> QED
  BY <1>1, <1>2, <1>3, <1>5, <1>6, <1>7, <1>8, <1>9, <1>10, NextCases

\* A signature is published by RecordSignature or PersistTranscript, with the
\* keypair held, and over rows that were in the log.
LEMMA SignatureIssued ==
  ASSUME TypeOK, HeldIsStored, ReportsAreInLog, [Next]_vars, issued' # issued
  PROVE  \E s \in Signers, n \in 0..Len(log) :
           LET sig == [signer |-> s, key |-> keyRow.key, covers |-> n]
           IN  /\ keyRow # NoRow
               /\ keyRow' = keyRow
               /\ issued' = issued \cup {sig}
               /\ log' \in {log, Append(log, SignedEvent(sig))}
<1>1. ASSUME NEW a \in Auditors, RecordSignature(a)
      PROVE  LET sig == [signer |-> a, key |-> keyRow.key, covers |-> report[a]]
             IN  /\ a \in Signers
                 /\ report[a] \in 0..Len(log)
                 /\ keyRow # NoRow
                 /\ keyRow' = keyRow
                 /\ issued' = issued \cup {sig}
                 /\ log' \in {log, Append(log, SignedEvent(sig))}
  <2>1. a \in Signers /\ pc[a] = "sign"
    BY <1>1 DEF Signers, RecordSignature
  <2>2. keyRow # NoRow /\ held[a] = keyRow.key
    BY <2>1 DEF HeldIsStored
  <2>3. report[a] \in 0..Len(log)
    BY <2>1 DEF ReportsAreInLog, TypeOK
  <2> QED
    BY <1>1, <2>1, <2>2, <2>3 DEF RecordSignature, AppendBestEffort
<1>2. ASSUME NEW q \in Askers, PersistTranscript(q)
      PROVE  LET sig == [signer |-> q, key |-> keyRow.key, covers |-> 0]
             IN  /\ q \in Signers
                 /\ 0 \in 0..Len(log)
                 /\ keyRow # NoRow
                 /\ keyRow' = keyRow
                 /\ issued' = issued \cup {sig}
                 /\ log' \in {log, Append(log, SignedEvent(sig))}
  <2>1. q \in Signers /\ pc[q] = "sign"
    BY <1>2 DEF Signers, PersistTranscript
  <2>2. keyRow # NoRow /\ held[q] = keyRow.key
    BY <2>1 DEF HeldIsStored
  <2>3. 0 \in 0..Len(log)
    BY DEF TypeOK
  <2> QED
    BY <1>2, <2>1, <2>2, <2>3 DEF PersistTranscript
<1>3. \/ \E a \in Auditors : RecordSignature(a)
      \/ \E q \in Askers : PersistTranscript(q)
  BY NextCases
  DEF AgentEvent, RetrieveAuditEvents, StartAsk, Elicited, ElicitGaveUp,
      EmitCompleted, LookupKey, OpenKey, CreateKey, Finish, Fault, tables, vars
<1>4. CASE \E a \in Auditors : RecordSignature(a)
  BY <1>1, <1>4
<1>5. CASE \E q \in Askers : PersistTranscript(q)
  BY <1>2, <1>5
<1> QED
  BY <1>3, <1>4, <1>5

\* SignedUnderStoredKey survives a step: new signatures are under the stored key,
\* and the key of the old ones is not replaced.
LEMMA SignedStep ==
  ASSUME TypeOK, HeldIsStored, ReportsAreInLog, SignedUnderStoredKey, [Next]_vars
  PROVE  SignedUnderStoredKey'
<1>1. CASE issued' # issued
  <2>1. PICK s \in Signers, n \in 0..Len(log) :
          LET sig == [signer |-> s, key |-> keyRow.key, covers |-> n]
          IN  keyRow # NoRow /\ keyRow' = keyRow /\ issued' = issued \cup {sig}
    BY <1>1, SignatureIssued
  <2> DEFINE new == [signer |-> s, key |-> keyRow.key, covers |-> n]
  <2>2. new.key = keyRow.key /\ issued' = issued \cup {new}
    BY <2>1
  <2> QED
    BY <2>1, <2>2 DEF SignedUnderStoredKey
<1>2. CASE issued' = issued
  BY <1>2, KeyWrittenOnce DEF SignedUnderStoredKey
<1> QED
  BY <1>1, <1>2

--------------------------------------------------------------------------------
\* The log only grows, by at most a row: a row about an agent's work, or an
\* auditor's signature over what that auditor had read.
LEMMA LogGrows ==
  ASSUME TypeOK, [Next]_vars
  PROVE  \/ log' = log
         \/ log' = Append(log, WorkEvent)
         \/ \E a \in Auditors :
              /\ RecordSignature(a)
              /\ log' = Append(log, SignedEvent([signer |-> a, key |-> held[a],
                                                 covers |-> report[a]]))
BY NextCases
DEF AgentEvent, RetrieveAuditEvents, StartAsk, Elicited, ElicitGaveUp,
    EmitCompleted, LookupKey, OpenKey, CreateKey, Finish, Fault, RecordSignature,
    PersistTranscript, AppendBestEffort, tables, vars

\* How an auditor's progress and its report change in a step.
LEMMA ReportChange ==
  ASSUME TypeOK, [Next]_vars, NEW s \in Signers
  PROVE  \/ report'[s] = 0 /\ pc'[s] \notin {"lookup", "open", "create", "sign"}
         \/ report'[s] = Len(log) /\ log' = log
         \/ /\ report'[s] = report[s]
            /\ \/ pc'[s] \notin {"lookup", "open", "create", "sign"}
               \/ pc[s] \in {"lookup", "open", "create", "sign"}
               \/ s \in Askers
<1> DEFINE Midway == {"lookup", "open", "create", "sign"}
           Goal == \/ report'[s] = 0 /\ pc'[s] \notin Midway
                   \/ report'[s] = Len(log) /\ log' = log
                   \/ /\ report'[s] = report[s]
                      /\ \/ pc'[s] \notin Midway
                         \/ pc[s] \in Midway
                         \/ s \in Askers
<1>1. CASE AgentEvent \/ UNCHANGED vars
  BY <1>1 DEF AgentEvent, vars
<1>2. ASSUME NEW a \in Auditors, RetrieveAuditEvents(a) \/ RecordSignature(a)
      PROVE  Goal
  BY <1>2 DEF RetrieveAuditEvents, RecordSignature, TypeOK, tables, Goto
<1>3. ASSUME NEW q \in Askers,
             \/ StartAsk(q) \/ Elicited(q) \/ PersistTranscript(q) \/ EmitCompleted(q)
      PROVE  Goal
  BY <1>3 DEF StartAsk, Elicited, PersistTranscript, EmitCompleted, TypeOK, Goto
<1>4. ASSUME NEW t \in Signers, Fail(t)
      PROVE  Goal
  BY <1>4 DEF Fail, Forget, Goto, TypeOK
<1>5. ASSUME NEW t \in Signers, LookupKey(t)
      PROVE  Goal
  BY <1>5 DEF LookupKey, TypeOK, Goto
<1>6. ASSUME NEW t \in Signers, OpenKey(t)
      PROVE  Goal
  BY <1>4, <1>6 DEF OpenKey, TypeOK, Goto
<1>7. ASSUME NEW t \in Signers, CreateKey(t)
      PROVE  Goal
  BY <1>4, <1>7 DEF CreateKey, TypeOK, Goto
<1>8. ASSUME NEW t \in Signers, Finish(t)
      PROVE  Goal
  BY <1>8 DEF Finish, Forget, TypeOK, Goto
<1>9. ASSUME NEW t \in Signers, Fault(t) PROVE Goal
  BY <1>4, <1>9 DEF Fault
<1>10. ASSUME NEW q \in Askers, ElicitGaveUp(q) PROVE Goal
  BY <1>4, <1>10 DEF ElicitGaveUp, Signers
<1> QED
  BY <1>1, <1>2, <1>3, <1>5, <1>6, <1>7, <1>8, <1>9, <1>10, NextCases

\* A report was read from the log, and the log does not shrink.
LEMMA ReportStep ==
  ASSUME TypeOK, ReportsAreInLog, [Next]_vars
  PROVE  ReportsAreInLog'
<1>1. Len(log) \in Nat /\ (Len(log') = Len(log) \/ Len(log') = Len(log) + 1)
  <2>1. log \in Seq(Event)
    BY DEF TypeOK
  <2>2. log' = log \/ \E e : log' = Append(log, e)
    BY LogGrows
  <2> QED
    BY <2>1, <2>2
<1>2. ASSUME NEW s \in Signers PROVE report'[s] <= Len(log')
  <2>1. report'[s] \in {0, Len(log), report[s]}
    BY ReportChange
  <2>2. report[s] <= Len(log) /\ report[s] \in Nat
    BY DEF ReportsAreInLog, TypeOK
  <2> QED
    BY <1>1, <2>1, <2>2
<1> QED
  BY <1>2 DEF ReportsAreInLog

\* Whoever signs has not signed yet in this attempt, and had read its own rows.
LEMMA OwnRowsStep ==
  ASSUME TypeOK, ReportsAreInLog, OwnRowsWereRead, [Next]_vars
  PROVE  OwnRowsWereRead'
<1> DEFINE Midway == {"lookup", "open", "create", "sign"}
<1>1. SUFFICES ASSUME NEW i \in 1..Len(log'), log'[i].kind = "audit_signed"
               PROVE  /\ log'[i].signature.signer \in Auditors
                      /\ pc'[log'[i].signature.signer] \in Midway =>
                           i <= report'[log'[i].signature.signer]
  BY DEF OwnRowsWereRead
<1> DEFINE a == log'[i].signature.signer
<1>2. log \in Seq(Event) /\ Len(log) \in Nat
  BY DEF TypeOK
<1>3. CASE i \in 1..Len(log) /\ log'[i] = log[i]
  <2>1. a \in Auditors /\ (pc[a] \in Midway => i <= report[a])
    BY <1>1, <1>3 DEF OwnRowsWereRead
  <2>2. a \in Signers /\ a \notin Askers
    BY <2>1, SignersAssumption DEF Signers
  <2>3. pc'[a] \in Midway => i <= report'[a]
    BY <1>2, <1>3, <2>1, <2>2, ReportChange
  <2> QED
    BY <2>1, <2>3
<1>4. CASE log' = log
  BY <1>1, <1>3, <1>4
<1>5. CASE log' = Append(log, WorkEvent)
  BY <1>1, <1>2, <1>3, <1>5 DEF WorkEvent
<1>6. ASSUME NEW b \in Auditors, RecordSignature(b),
             log' = Append(log, SignedEvent([signer |-> b, key |-> held[b],
                                             covers |-> report[b]]))
      PROVE  /\ a \in Auditors
             /\ pc'[a] \in Midway => i <= report'[a]
  <2>1. CASE i = Len(log) + 1
    <3>1. a = b
      BY <1>2, <1>6, <2>1 DEF SignedEvent
    <3>2. pc'[b] = "returned"
      BY <1>6 DEF RecordSignature, Goto, TypeOK, Signers
    <3> QED
      BY <1>6, <3>1, <3>2
  <2>2. CASE i # Len(log) + 1
    BY <1>1, <1>2, <1>3, <1>6, <2>2
  <2> QED
    BY <2>1, <2>2
<1> QED
  BY <1>4, <1>5, <1>6, LogGrows

\* A new signature comes after its auditor's earlier rows, and covers them.
LEMMA ResignStep ==
  ASSUME TypeOK, OwnRowsWereRead, ResignCoversEarlier, [Next]_vars
  PROVE  ResignCoversEarlier'
<1>1. SUFFICES ASSUME NEW i \in 1..Len(log'), NEW j \in 1..Len(log'), i < j,
                      log'[i].kind = "audit_signed", log'[j].kind = "audit_signed",
                      log'[i].signature.signer = log'[j].signature.signer
               PROVE  i <= log'[j].signature.covers
  BY DEF ResignCoversEarlier
<1>2. log \in Seq(Event) /\ Len(log) \in Nat
  BY DEF TypeOK
<1>3. CASE i \in 1..Len(log) /\ j \in 1..Len(log) /\ log'[i] = log[i] /\ log'[j] = log[j]
  BY <1>1, <1>3 DEF ResignCoversEarlier
<1>4. CASE log' = log
  BY <1>1, <1>3, <1>4
<1>5. CASE log' = Append(log, WorkEvent)
  <2>1. j # Len(log) + 1
    BY <1>1, <1>2, <1>5 DEF WorkEvent
  <2> QED
    BY <1>1, <1>2, <1>3, <1>5, <2>1
<1>6. ASSUME NEW a \in Auditors, RecordSignature(a),
             log' = Append(log, SignedEvent([signer |-> a, key |-> held[a],
                                             covers |-> report[a]]))
      PROVE  i <= log'[j].signature.covers
  <2>1. CASE j = Len(log) + 1
    <3>1. log'[j].signature.signer = a /\ log'[j].signature.covers = report[a]
      BY <1>2, <1>6, <2>1 DEF SignedEvent
    <3>2. i \in 1..Len(log) /\ log'[i] = log[i]
      BY <1>1, <1>2, <1>6, <2>1
    <3>3. pc[a] = "sign"
      BY <1>6 DEF RecordSignature
    <3>4. i <= report[a]
      BY <1>1, <3>1, <3>2, <3>3 DEF OwnRowsWereRead
    <3> QED
      BY <3>1, <3>4
  <2>2. CASE j # Len(log) + 1
    BY <1>1, <1>2, <1>3, <1>6, <2>2
  <2> QED
    BY <2>1, <2>2
<1> QED
  BY <1>4, <1>5, <1>6, LogGrows

--------------------------------------------------------------------------------
\* Nothing is stored, read or signed yet.
LEMMA InitInv == Init => IInv
<1> SUFFICES ASSUME Init PROVE IInv
  OBVIOUS
<1>1. TypeOK
  BY BoundsAssumption DEF Init, TypeOK, PC
<1>2. HeldIsStored /\ ReportsAreInLog /\ SignedUnderStoredKey
  BY DEF Init, HeldIsStored, ReportsAreInLog, SignedUnderStoredKey
<1>3. OwnRowsWereRead /\ ResignCoversEarlier
  BY DEF Init, OwnRowsWereRead, ResignCoversEarlier
<1> QED
  BY <1>1, <1>2, <1>3 DEF IInv

LEMMA InductiveStep == IInv /\ [Next]_vars => IInv'
<1> SUFFICES ASSUME IInv, [Next]_vars PROVE IInv'
  OBVIOUS
<1>1. TypeOK' /\ HeldIsStored'
  BY TypeStep, HeldStep DEF IInv
<1>2. SignedUnderStoredKey' /\ ReportsAreInLog'
  BY SignedStep, ReportStep DEF IInv
<1>3. OwnRowsWereRead' /\ ResignCoversEarlier'
  BY OwnRowsStep, ResignStep DEF IInv
<1> QED
  BY <1>1, <1>2, <1>3 DEF IInv

\* The inductive invariant holds in every reachable state.
THEOREM Invariance == Spec => []IInv
BY InitInv, InductiveStep, PTL DEF Spec

\* The tables and every signer's memory are always well typed: in particular no
\* signature is ever made with a keypair that no attempt generated, and no
\* durable step is attempted more often than Inngest allows.
THEOREM TypeCorrectness == Spec => []TypeOK
<1>1. IInv => TypeOK
  BY DEF IInv
<1> QED
  BY <1>1, Invariance, PTL

\* One key per job: every signature that any process ever issued for the job is
\* under the key of its signing_keys row, however the SELECTs and INSERTs of
\* getOrCreateJobKeypair interleave and whatever crashes.
THEOREM OneKeyPerJob == Spec => []SignedUnderStoredKey
<1>1. IInv => SignedUnderStoredKey
  BY DEF IInv
<1> QED
  BY <1>1, Invariance, PTL

\* A retried auditor's later report covers its earlier audit_signed row.
THEOREM ResignLineage == Spec => []ResignCoversEarlier
<1>1. IInv => ResignCoversEarlier
  BY DEF IInv
<1> QED
  BY <1>1, Invariance, PTL

--------------------------------------------------------------------------------
\* The ledger starts empty.
LEMMA LedgerInit == Init => Ledger!Init
BY DEF Init, Ledger!Init

\* Every step of a signer, of another agent, or of the environment is a step of
\* the ledger or leaves it alone.
LEMMA LedgerStep == IInv /\ [Next]_vars => [Ledger!Next]_(Ledger!ledgerVars)
<1> SUFFICES ASSUME IInv, [Next]_vars
             PROVE  [Ledger!Next]_(Ledger!ledgerVars)
  OBVIOUS
<1> USE DEF IInv
<1> DEFINE key == IF keyRow = NoRow THEN NoKey ELSE keyRow.key
<1>1. CASE issued' # issued
  <2>1. PICK s \in Signers, n \in 0..Len(log) :
          LET sig == [signer |-> s, key |-> keyRow.key, covers |-> n]
          IN  /\ keyRow # NoRow
              /\ keyRow' = keyRow
              /\ issued' = issued \cup {sig}
              /\ log' \in {log, Append(log, SignedEvent(sig))}
    BY <1>1, SignatureIssued
  <2>2. keyRow.key \in Key
    BY <2>1 DEF TypeOK
  <2>3. keyRow.key # NoKey
    BY <2>2, MarkersAssumption
  <2>4. Ledger!Issue(s, n)
    BY <2>1, <2>3 DEF Ledger!Issue, Ledger!SignedEvent, SignedEvent
  <2> QED
    BY <2>4 DEF Ledger!Next
<1>2. CASE issued' = issued /\ keyRow' # keyRow
  <2>1. /\ keyRow = NoRow
        /\ keyRow' # NoRow
        /\ keyRow' \in [key : Key, kek : Keks \cup {NoKek}]
        /\ log' = log
    BY <1>2, KeyWrittenOnce
  <2>2. keyRow'.key \in Key
    BY <2>1
  <2>3. Ledger!EstablishKey
    BY <1>2, <2>1, <2>2 DEF Ledger!EstablishKey
  <2> QED
    BY <2>3 DEF Ledger!Next
<1>3. CASE issued' = issued /\ keyRow' = keyRow
  <2>1. CASE log' = log
    BY <1>3, <2>1 DEF Ledger!ledgerVars
  <2>2. CASE log' = Append(log, WorkEvent)
    <3>1. Ledger!AppendWork
      BY <1>3, <2>2 DEF Ledger!AppendWork, Ledger!WorkEvent, WorkEvent
    <3> QED
      BY <3>1 DEF Ledger!Next
  <2>3. ASSUME NEW a \in Auditors, RecordSignature(a),
               log' = Append(log, SignedEvent([signer |-> a, key |-> held[a],
                                               covers |-> report[a]]))
        PROVE  Ledger!Next
    <3>1. a \in Signers /\ pc[a] = "sign"
      BY <2>3 DEF Signers, RecordSignature
    <3>2. keyRow # NoRow /\ held[a] = keyRow.key
      BY <3>1 DEF HeldIsStored
    <3>3. report[a] \in 0..Len(log) /\ keyRow.key \in Key
      BY <3>1, <3>2 DEF ReportsAreInLog, TypeOK
    <3>4. Ledger!Issue(a, report[a])
      BY <1>3, <2>3, <3>2, <3>3, MarkersAssumption
      DEF RecordSignature, Ledger!Issue, Ledger!SignedEvent, SignedEvent
    <3> QED
      BY <3>1, <3>3, <3>4 DEF Ledger!Next
  <2> QED
    BY <2>1, <2>2, <2>3, LogGrows
<1> QED
  BY <1>1, <1>2, <1>3

\* Signers with retries, lost inserts and races implement the ledger that a
\* verifier relies on.
THEOREM Refinement == Spec => LedgerRefined
<1>1. Spec => []IInv
  BY Invariance
<1> QED
  BY <1>1, LedgerInit, LedgerStep, PTL DEF Spec, LedgerRefined, Ledger!Spec
================================================================================
