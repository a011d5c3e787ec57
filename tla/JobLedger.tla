------------------------------- MODULE JobLedger -------------------------------
(***************************************************************************)
(* What the signing subsystem of one job promises to whoever later verifies *)
(* a report or a transcript, with nothing said of auditors, askers, retries *)
(* or key encryption:                                                       *)
(*                                                                          *)
(*   - the job's ed25519 key is chosen once and never replaced              *)
(*     (one signing_keys row per job and algorithm);                        *)
(*   - the audit log only grows, by one row at a time;                      *)
(*   - a signature is issued only under the job's key, and only over rows   *)
(*     that were in the log when it was issued.                             *)
(*                                                                          *)
(* AuditSigning implements this specification: JobLedger says what, and     *)
(* AuditSigning says how, several processes with retries get there.         *)
(***************************************************************************)
EXTENDS Naturals, Sequences

CONSTANTS
  Signer,   \* who may sign for the job: auditor runs and Q&A runs
  Key,      \* the keypairs any of them could generate
  NoKey     \* the job has no signing_keys row yet

VARIABLES
  key,      \* the key of the job's signing_keys row, or NoKey
  log,      \* the job's audit_events rows, in the order they were written
  issued    \* every signature that was ever handed to a caller

ledgerVars == <<key, log, issued>>

WorkEvent == [kind |-> "work"]
SignedEvent(sig) == [kind |-> "audit_signed", signature |-> sig]

Init ==
  /\ key = NoKey
  /\ log = <<>>
  /\ issued = {}

\* Any agent appends a row about its work.
AppendWork ==
  /\ log' = Append(log, WorkEvent)
  /\ UNCHANGED <<key, issued>>

\* The job gets its one key.
EstablishKey ==
  /\ key = NoKey
  /\ key' \in Key
  /\ UNCHANGED <<log, issued>>

\* A signature over the first n rows is issued, under the job's key; the log may
\* or may not get a row that says so.
Issue(s, n) ==
  LET sig == [signer |-> s, key |-> key, covers |-> n]
  IN  /\ key # NoKey
      /\ issued' = issued \cup {sig}
      /\ log' \in {log, Append(log, SignedEvent(sig))}
      /\ UNCHANGED key

Next ==
  \/ AppendWork
  \/ EstablishKey
  \/ \E s \in Signer : \E n \in 0..Len(log) : Issue(s, n)

Spec == Init /\ [][Next]_ledgerVars
================================================================================
