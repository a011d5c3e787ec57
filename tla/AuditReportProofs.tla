---------------------------- MODULE AuditReportProofs ----------------------------
(***************************************************************************)
(* What AuditReport says of a served report, for any number of signers and  *)
(* any length of the log. It rests on the invariant of AuditSigningProofs   *)
(* and on one more about the rows of the log, which is what the route has:  *)
(* an audit_signed row carries a signature that was issued, over rows that  *)
(* come before it.                                                          *)
(***************************************************************************)
EXTENDS AuditReport, AuditSigningProofs

\* A row of the log carries a signature an auditor has issued, over rows before it.
LogIsIssued ==
  \A i \in 1..Len(log) :
    log[i].kind = "audit_signed" =>
      log[i].signature \in issued /\ log[i].signature.covers < i

\* The rows a report may be served from have a last one.
HasLatest == SignedRows # {} => \E i \in SignedRows : \A j \in SignedRows : j <= i

\* A row that is appended was issued by the same statement's signer, and covers
\* what there was before it.
LEMMA LogIsIssuedStep ==
  ASSUME TypeOK, ReportsAreInLog, LogIsIssued, [Next]_vars
  PROVE  LogIsIssued'
<1>1. log \in Seq(Event) /\ Len(log) \in Nat
  BY DEF TypeOK
<1>2. issued \subseteq issued'
  BY NextCases
  DEF AgentEvent, RetrieveAuditEvents, StartAsk, Elicited, ElicitGaveUp,
      EmitCompleted, LookupKey, OpenKey, CreateKey, Finish, Fault, RecordSignature,
      PersistTranscript, tables, vars
<1>3. CASE log' = log
  BY <1>2, <1>3 DEF LogIsIssued
<1>4. CASE log' = Append(log, WorkEvent)
  <2>1. Len(log') = Len(log) + 1 /\ log'[Len(log) + 1] = WorkEvent
        /\ \A i \in 1..Len(log) : log'[i] = log[i]
    BY <1>1, <1>4
  <2>2. WorkEvent.kind # "audit_signed"
    BY DEF WorkEvent
  <2>3. \A i \in 1..Len(log') : i \in 1..Len(log) \/ i = Len(log) + 1
    BY <1>1, <2>1
  <2> QED
    BY <1>2, <2>1, <2>2, <2>3 DEF LogIsIssued
<1>5. ASSUME NEW a \in Auditors, RecordSignature(a),
             log' = Append(log, SignedEvent([signer |-> a, key |-> held[a],
                                             covers |-> report[a]]))
      PROVE  LogIsIssued'
  <2> DEFINE sig == [signer |-> a, key |-> held[a], covers |-> report[a]]
  <2>1. Len(log') = Len(log) + 1 /\ log'[Len(log) + 1] = SignedEvent(sig)
        /\ \A i \in 1..Len(log) : log'[i] = log[i]
    BY <1>1, <1>5
  <2>2. sig \in issued'
    BY <1>5 DEF RecordSignature
  <2>3. sig.covers < Len(log) + 1
    <3>1. a \in Signers
      BY DEF Signers
    <3>2. report[a] \in Nat /\ report[a] <= Len(log)
      BY <3>1 DEF TypeOK, ReportsAreInLog
    <3> QED
      BY <1>1, <3>2
  <2>4. SignedEvent(sig).signature = sig
    BY DEF SignedEvent
  <2>5. \A i \in 1..Len(log') : i \in 1..Len(log) \/ i = Len(log) + 1
    BY <1>1, <2>1
  <2> HIDE DEF sig
  <2> QED
    BY <1>2, <2>1, <2>2, <2>3, <2>4, <2>5 DEF LogIsIssued
<1> QED
  BY <1>3, <1>4, <1>5, LogGrows

\* An appended row, if it is a signed one, is the last.
LEMMA HasLatestStep ==
  ASSUME TypeOK, HasLatest, [Next]_vars
  PROVE  HasLatest'
<1>1. log \in Seq(Event) /\ Len(log) \in Nat
  BY DEF TypeOK
<1>2. CASE log' = log
  BY <1>2 DEF HasLatest, SignedRows
<1>3. ASSUME NEW e, log' = Append(log, e) PROVE HasLatest'
  <2>1. Len(log') = Len(log) + 1 /\ \A i \in 1..Len(log) : log'[i] = log[i]
    BY <1>1, <1>3
  <2>2. \A i \in SignedRows' : i \in SignedRows \/ i = Len(log) + 1
    BY <1>1, <2>1 DEF SignedRows
  <2>3. SignedRows \subseteq SignedRows' /\ SignedRows \subseteq 1..Len(log)
    BY <1>1, <2>1 DEF SignedRows
  <2>4. CASE Len(log) + 1 \in SignedRows'
    <3>1. \A j \in SignedRows' : j <= Len(log) + 1
      BY <1>1, <2>2, <2>3
    <3> QED
      BY <2>4, <3>1 DEF HasLatest
  <2>5. CASE Len(log) + 1 \notin SignedRows'
    <3>1. SignedRows' = SignedRows
      BY <2>2, <2>3, <2>5
    <3> QED
      BY <3>1 DEF HasLatest
  <2> QED
    BY <2>4, <2>5
<1> QED
  BY <1>2, <1>3, LogGrows

\* The invariants hold together, at every step.
THEOREM RowsOfTheLog == Spec => [](IInv /\ LogIsIssued /\ HasLatest)
<1>1. Init => LogIsIssued /\ HasLatest
  BY DEF Init, LogIsIssued, HasLatest, SignedRows
<1>2. IInv /\ LogIsIssued /\ HasLatest /\ [Next]_vars => LogIsIssued' /\ HasLatest'
  BY LogIsIssuedStep, HasLatestStep DEF IInv
<1> QED
  BY <1>1, <1>2, Invariance, PTL DEF Spec

\* The row that is served is a signed one.
LEMMA LatestIsSigned ==
  ASSUME HasLatest, SignedRows # {}
  PROVE  \E i \in SignedRows : LatestSigned = log[i].signature
<1> DEFINE last == CHOOSE i \in SignedRows : \A j \in SignedRows : j <= i
<1>1. last \in SignedRows
  BY DEF HasLatest
<1> QED
  BY <1>1 DEF LatestSigned

\* A served report has the events and the snapshot of the one that was signed.
LEMMA ServedEvents ==
  ASSUME NEW sig, sig.covers \in Nat
  PROVE  /\ Stringify(CanonicalReportBytes(sig)).snapshot = "snapshot"
         /\ Len(Stringify(CanonicalReportBytes(sig)).events) = sig.covers
<1> DEFINE bytes == CanonicalReportBytes(sig)
<1>1. bytes = [SignedReport(sig) EXCEPT !.events = bytes.events]
      /\ bytes.events = [i \in 1..sig.covers |-> "empty"]
  BY DEF CanonicalReportBytes, CanonicalJson, SignedReport, Report, Events, Timestamps
<1>2. bytes.snapshot = "snapshot"
  BY DEF CanonicalReportBytes, CanonicalJson, SignedReport, Report, Events
<1> HIDE DEF bytes
<1>3. Stringify(bytes).snapshot = "snapshot"
      /\ Stringify(bytes).events = [i \in 1..sig.covers |-> "empty"]
  BY <1>1, <1>2 DEF Stringify, Events, Timestamps, SignedReport, Report
<1>4. Len([i \in 1..sig.covers |-> "empty"]) = sig.covers
  OBVIOUS
<1> QED
  BY <1>3, <1>4 DEF bytes

\* A reader of the job is never shown as signed what was not, nor a report that
\* does not verify, nor one that hides how much it covers: for any signers that
\* race, retry and lose rows.
THEOREM ServedReports == Spec => []ServedReportsVerify
<1>1. ASSUME IInv, LogIsIssued, HasLatest
      PROVE  ServedReportsVerify
  <2>1. CASE SignedRows = {}
    BY <2>1 DEF ServedReportsVerify, Served
  <2>2. CASE SignedRows # {}
    <3>1. PICK i \in SignedRows : LatestSigned = log[i].signature
      BY <1>1, <2>2, LatestIsSigned
    <3> DEFINE sig == LatestSigned
    <3>2. sig \in issued /\ sig.covers < i
      BY <1>1, <3>1 DEF LogIsIssued, SignedRows
    <3>3. keyRow # NoRow /\ sig.key = keyRow.key
      BY <1>1, <3>2 DEF IInv, SignedUnderStoredKey
    <3>4. sig.covers \in Nat
      BY <1>1, <3>2 DEF IInv, TypeOK, Signature
    <3>5. /\ Served.status = "signed"
          /\ Served.signature = sig
          /\ Served.report = Stringify(CanonicalReportBytes(sig))
          /\ Served.bytes = CanonicalReportBytes(sig)
      BY <2>2 DEF Served
    <3>6. WidgetPasses(Served)
      BY <3>5 DEF WidgetPasses, VerifyAuditSignatureFromBytes, MessageHash
    <3>7. Served.report.snapshot = "snapshot" /\ Len(Served.report.events) < i
      BY <3>2, <3>4, <3>5, ServedEvents
    <3> HIDE DEF sig
    <3> QED
      BY <2>2, <3>1, <3>3, <3>5, <3>6, <3>7 DEF ServedReportsVerify, sig
  <2> QED
    BY <2>1, <2>2
<1> QED
  BY <1>1, RowsOfTheLog, PTL

================================================================================
