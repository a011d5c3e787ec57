----------------------------- MODULE MCJobPipeline -----------------------------
(***************************************************************************)
(* Model values and bounds for JobPipeline.                                 *)
(***************************************************************************)
EXTENDS JobPipeline

CONSTANTS inngest, direct, h1, f1, f2

--------------------------------------------------------------------------------
(* MCPipelineAlone.cfg: the Inngest workflow alone, two files, two failures *)
(* anywhere.                                                                *)

MCAlone == {inngest}
MCHosts == {h1}
MCAloneHostsOf == [r \in MCAlone |-> MCHosts]
MCTwoFiles == {f1, f2}
MCUntestable == {f2}

--------------------------------------------------------------------------------
(* MCPipelineBoth.cfg: what the dispatcher starts, on one host.             *)

MCBoth == {inngest, direct}
MCBothHostsOf == [r \in MCBoth |-> MCHosts]
MCPatched == {"proposed"}
================================================================================
