----------------------------- MODULE MCAuditSigning ----------------------------
(***************************************************************************)
(* Model values and bounds for AuditSigning, and the mutants its properties *)
(* are tested with.                                                         *)
(***************************************************************************)
EXTENDS AuditReport

CONSTANTS inngest, direct, asker, k1, k2

MCAuditors == {inngest, direct}
MCAskers == {asker}
MCDurable == {inngest}
MCKeks == {k1}

\* The retried auditor may run under either setting, the others under one each,
\* so that a row of one may or may not be readable for another.
MCKeksOf == [s \in MCAuditors \cup MCAskers |->
               CASE s = inngest -> {NoKek, k1}
                 [] s = direct -> {k1}
                 [] s = asker -> {NoKek}]
--------------------------------------------------------------------------------
(* MCKekRotation.cfg: two auditors, and RENATUS_KEK changed from k1 to k2.  *)

MCNoAskers == {}
MCInngestOnly == {inngest}
MCRotatedKeks == {k1, k2}
MCRotatedKeksOf == [s \in MCAuditors |-> MCRotatedKeks]

--------------------------------------------------------------------------------
(* MCVerifyForm.cfg: one auditor, without a KEK.                            *)

MCPlaintextKeksOf == [s \in MCInngestOnly |-> {NoKek}]
================================================================================
