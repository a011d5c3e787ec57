------------------------------ MODULE AuditReport -------------------------------
(***************************************************************************)
(* What a reader of a signed job is shown: /api/jobs/[jobId]/audit-report    *)
(* over the log of AuditSigning, the widget of the audit page and the form   *)
(* of /verify, which check the answer in the browser.                        *)
(*                                                                          *)
(* The route reads the log with one SELECT; the rest is computed. A report  *)
(* is the moment it was made at, a snapshot id and its events, of which     *)
(* only the form their timestamps have matters here: a Date, an ISO string  *)
(* or an object without keys. Equal bytes have equal hashes, others do not. *)
(*                                                                          *)
(* audit_signed rows without canonicalReportBytes, which only releases      *)
(* before this one have written, are left out.                              *)
(***************************************************************************)
EXTENDS AuditSigning

Report(at, snapshot, n) ==
  [at |-> at, snapshot |-> snapshot, events |-> [i \in 1..n |-> "date"]]

Timestamps == {"date", "iso", "empty"}

\* The events as f makes them of their timestamps.
Events(r, f) == [r EXCEPT !.events = [i \in DOMAIN r.events |-> f[r.events[i]]]]

\* canonicalJson encodes an object by its own keys, and a Date has none.
CanonicalJson(r) == Events(r, [t \in Timestamps |-> IF t = "date" THEN "empty" ELSE t])

\* JSON.stringify, of the response: a Date becomes its ISO string.
Stringify(r) == Events(r, [t \in Timestamps |-> IF t = "date" THEN "iso" ELSE t])

\* The report an auditor has signed, and what of it the signature is of.
SignedReport(sig) == Report(<<"made", sig>>, "snapshot", sig.covers)
CanonicalReportBytes(sig) == CanonicalJson(SignedReport(sig))
MessageHash(sig) == CanonicalReportBytes(sig)

--------------------------------------------------------------------------------
(* The route.                                                               *)

\* The rows as they are now. No agent emits snapshot_created, which has the
\* snapshot's id: it is always the zero UUID.
Rebuild(at) == Report(at, "zero", Len(log))

SignedRows == {i \in 1..Len(log) : log[i].kind = "audit_signed"}

\* Its events come oldest first, and the last audit_signed is taken.
LatestSigned ==
  log[CHOOSE i \in SignedRows : \A j \in SignedRows : j <= i].signature

\* Mutant of Served: the report is always rebuilt from the events.
Served_Rebuilt ==
  IF SignedRows = {}
  THEN [status |-> "unsigned", report |-> Stringify(Rebuild(<<"now">>))]
  ELSE [status |-> "signed", signature |-> LatestSigned,
        report |-> Stringify(Rebuild(<<"signed", LatestSigned>>)),
        bytes |-> CanonicalJson(Rebuild(<<"signed", LatestSigned>>))]

\* The bytes that were signed, and the report they parse to.
Served ==
  IF SignedRows = {}
  THEN [status |-> "unsigned", report |-> Stringify(Rebuild(<<"now">>))]
  ELSE [status |-> "signed", signature |-> LatestSigned,
        report |-> Stringify(CanonicalReportBytes(LatestSigned)),
        bytes |-> CanonicalReportBytes(LatestSigned)]

--------------------------------------------------------------------------------
(* The browser.                                                             *)

VerifyAuditSignatureFromBytes(bytes, sig) == bytes = MessageHash(sig)

VerifyAuditSignature(r, sig) == CanonicalJson(r) = MessageHash(sig)

WidgetPasses(body) ==
  body.status = "signed" /\ VerifyAuditSignatureFromBytes(body.bytes, body.signature)

\* Only strings are made Dates again.
CoerceTimestamps(r) == Events(r, [t \in Timestamps |-> IF t = "iso" THEN "date" ELSE t])

\* AuditReportSchema asks for a Date in every event.
SchemaAccepts(r) == \A i \in DOMAIN r.events : r.events[i] = "date"

\* The form is filled from the answer and submitted.
FormPasses(body) ==
  LET parsed == CoerceTimestamps(body.report)
  IN  /\ body.status = "signed"
      /\ SchemaAccepts(parsed)
      /\ VerifyAuditSignature(parsed, body.signature)

--------------------------------------------------------------------------------
\* Whenever it is asked, between the statements of signers that race, retry and
\* lose rows: a job is served as signed from its first audit_signed row on, the
\* audit page's check of it passes, under the key in the signing_keys row, and
\* the report is of the snapshot, with rows from before its signature only.
ServedReportsVerify ==
  /\ Served.status = "unsigned" <=> SignedRows = {}
  /\ Served.status = "signed" =>
       /\ WidgetPasses(Served)
       /\ keyRow # NoRow /\ Served.signature.key = keyRow.key
       /\ Served.report.snapshot = "snapshot"
       /\ \E i \in SignedRows :
            /\ log[i].signature = Served.signature
            /\ Len(Served.report.events) < i

\* What the form's schema says of itself: "canonicalJson serializes Date
\* instances via the default JSON.stringify behavior", so a report that was
\* signed and is served has the events' timestamps the form needs.
SignedReportsPassTheForm ==
  Served.status = "signed" => FormPasses(Served)

================================================================================
