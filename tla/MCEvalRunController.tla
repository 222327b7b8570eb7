------------------------ MODULE MCEvalRunController ------------------------
(***************************************************************************)
(* A statement about EvalRuns that the controller does not live up to.     *)
(***************************************************************************)
EXTENDS EvalRunController

(* docs/reference/evalrun-crd.md:122, "To run again, delete and recreate   *)
(* the EvalRun": the verdict is of a Workflow of this EvalRun.  The new    *)
(* EvalRun finds the old Workflow before it is collected, and adopts it.   *)
VerdictIsOwn ==
  ~lost /\ evalRun.verdict # "none" => workflow.owner = evalRun.uid
============================================================================
