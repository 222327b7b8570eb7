--------------------------- MODULE MCPipelineRun ---------------------------
(***************************************************************************)
(* PipelineRun for TLC: two requests, which carry the same request ID or   *)
(* two, one of which makes no name, with a choice of stages and of the     *)
(* event log's backend.                                                    *)
(***************************************************************************)
EXTENDS PipelineRun, TLC

(* One ID for both requests, or another for one of them, which makes no    *)
(* name; some request has one that does.                                   *)
MCIdChoices ==
  {f \in [Requests -> Ids] : \E r \in Requests : f[r] \notin Unnameable}

Symmetry == Permutations(Requests)

MCStageSets == {Stage, {"diarize"}}

(* The summary is made with the local log, or none; the diarizer's events  *)
(* replace those of speech-to-text in the bucket.                          *)
MCConfigs ==
  {[backend |-> "local", urls |-> {"summarize"}], [backend |-> "none", urls |-> {"summarize"}],
   [backend |-> "gcs", urls |-> {"diarize"}]}
============================================================================
