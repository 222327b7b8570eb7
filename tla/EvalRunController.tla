------------------------- MODULE EvalRunController -------------------------
(***************************************************************************)
(* The EvalRun controller (operator/internal/controller/                   *)
(* evalrun_controller.go) for one EvalRun name: Reconcile as its sequence  *)
(* of API calls, with the API server, the informer cache, Argo, the        *)
(* garbage collector and the user around it.                               *)
(*                                                                         *)
(* Reconcile reads the EvalRun from a cache that may lag, and writes its   *)
(* status with the version it read: the API server refuses an update of    *)
(* any other version.  The Workflow is unstructured, so the manager's      *)
(* client reads it from the API server.  A Workflow carries the EvalRun's  *)
(* name, so there is at most one at a time, whichever EvalRun of that name *)
(* it was created for.                                                     *)
(*                                                                         *)
(* Versions are not counted: two Booleans say whether the cache, and the   *)
(* copy Reconcile works on, are of the current version.                    *)
(***************************************************************************)
EXTENDS Naturals

CONSTANTS
  MaxUid,      (* bound: EvalRuns created under the name                   *)
  MaxEdits,    (* bound: the user's edits of suspend, deletions of Workflows *)
  MaxTroubles  (* bound: failed API calls and restarts of the operator     *)

ASSUME BoundsAssumption == MaxUid \in Nat /\ MaxEdits \in Nat /\ MaxTroubles \in Nat

VARIABLES
  evalRun,        (* the EvalRun in the API server                         *)
  workflow,       (* the Workflow of that name in the API server           *)
  cached,         (* the EvalRun in the informer cache                     *)
  cacheCurrent,   (* the cache holds the current version                   *)
  pc, my,         (* Reconcile's next API call, and its copy of the EvalRun *)
  myCurrent,      (* the copy has the current resourceVersion              *)
  queued, timer,  (* the work queue holds the name; a RequeueAfter pends   *)
  created, edits, troubles, (* how much of the bounds is used              *)
  lost            (* history: a Workflow has gone since evalRun's creation *)

objects    == <<evalRun, workflow>>
controller == <<cached, cacheCurrent, pc, my, myCurrent, queued, timer>>
budgets    == <<created, edits, troubles>>
vars       == <<objects, controller, budgets, lost>>

Uid     == 0 .. MaxUid     (* 0: there is no such object *)
Verdict == {"none", "passed", "failed"}

(* ref: status.workflowRef is set, always to the EvalRun's own name.       *)
(* verdict: status.passed with the error rates reported beside it.         *)
EvalRun == [uid : Uid, suspend : BOOLEAN, deleting : BOOLEAN, ref : BOOLEAN,
            phase : {"", "Pending", "Running", "Succeeded", "Failed"},
            verdict : Verdict]

(* phase "Running" stands for all that isTerminalWorkflowPhase denies,     *)
(* "Failed" for Error too; report is what extractEvalReport makes of the   *)
(* output parameter.                                                       *)
Workflow == [owner : Uid, phase : {"Running", "Succeeded", "Failed"}, report : Verdict]

New(u, s) == [uid |-> u, suspend |-> s, deleting |-> FALSE, ref |-> FALSE,
              phase |-> "", verdict |-> "none"]
Absent     == New(0, FALSE)
NoWorkflow == [owner |-> 0, phase |-> "Running", report |-> "none"]

Exists          == evalRun.uid # 0
WorkflowExists  == workflow.owner # 0

TypeOK ==
  /\ evalRun \in EvalRun /\ workflow \in Workflow
  /\ cached \in EvalRun  /\ cacheCurrent \in BOOLEAN
  /\ pc \in {"idle", "create", "get", "write"}
  /\ my \in EvalRun      /\ myCurrent \in BOOLEAN
  /\ queued \in BOOLEAN  /\ timer \in BOOLEAN
  /\ created \in Uid /\ edits \in 0 .. MaxEdits /\ troubles \in 0 .. MaxTroubles
  /\ lost \in BOOLEAN

Init ==
  /\ evalRun = Absent /\ workflow = NoWorkflow
  /\ cached = Absent  /\ cacheCurrent = TRUE
  /\ pc = "idle"      /\ my = Absent /\ myCurrent = FALSE
  /\ queued = FALSE   /\ timer = FALSE
  /\ created = 0 /\ edits = 0 /\ troubles = 0
  /\ lost = FALSE

----------------------------------------------------------------------------
(* The controller.                                                         *)

(* Faulty variant: a phase for suspended EvalRuns that the CRD's enum lacks. *)
BeginSuspended ==
  /\ pc = "idle" /\ queued
  /\ queued' = FALSE
  /\ cached.uid # 0 /\ ~cached.deleting
  /\ myCurrent' = cacheCurrent
  /\ my' = IF cached.suspend THEN [cached EXCEPT !.phase = "Suspended"] ELSE cached
  /\ pc' = IF cached.suspend THEN "write" ELSE IF cached.ref THEN "get" ELSE "create"
  /\ UNCHANGED <<objects, cached, cacheCurrent, timer, budgets, lost>>

(* Reconcile up to its first call beyond the cache.  A suspended EvalRun   *)
(* is set to Pending whatever has become of its Workflow.                  *)
Begin ==
  /\ pc = "idle" /\ queued
  /\ queued' = FALSE
  /\ \/ /\ cached.uid = 0 \/ cached.deleting
        /\ UNCHANGED <<pc, my, myCurrent>>
     \/ /\ cached.uid # 0 /\ ~cached.deleting
        /\ myCurrent' = cacheCurrent
        /\ my' = IF cached.suspend THEN [cached EXCEPT !.phase = "Pending"] ELSE cached
        /\ pc' = IF cached.suspend THEN "write"
                 ELSE IF cached.ref THEN "get" ELSE "create"
  /\ UNCHANGED <<objects, cached, cacheCurrent, timer, budgets, lost>>

(* Faulty variant: AlreadyExists is an error like any other. *)
CreateWorkflowStrictly ==
  /\ pc = "create"
  /\ queued' = TRUE
  /\ \/ WorkflowExists /\ pc' = "idle" /\ UNCHANGED <<workflow, my>>
     \/ /\ ~WorkflowExists
        /\ workflow' = [NoWorkflow EXCEPT !.owner = my.uid]
        /\ my' = [my EXCEPT !.ref = TRUE, !.phase = "Running"]
        /\ pc' = "write"
  /\ UNCHANGED <<evalRun, cached, cacheCurrent, myCurrent, timer, budgets, lost>>

(* submitWorkflow: AlreadyExists is as good as created.  Creation is an    *)
(* event of an owned object, so the name is queued.                        *)
CreateWorkflow ==
  /\ pc = "create"
  /\ \/ WorkflowExists /\ UNCHANGED <<workflow, queued>>
     \/ /\ ~WorkflowExists
        /\ workflow' = [NoWorkflow EXCEPT !.owner = my.uid]
        /\ queued' = TRUE
  /\ my' = [my EXCEPT !.ref = TRUE, !.phase = "Running"]
  /\ pc' = "write"
  /\ UNCHANGED <<evalRun, cached, cacheCurrent, myCurrent, timer, budgets, lost>>

(* Faulty variant: the phase is the Workflow's own. *)
MirrorWorkflowPhase(r, w) ==
  IF w.owner = 0 THEN [r EXCEPT !.phase = "Failed"]
  ELSE [r EXCEPT !.verdict = w.report, !.phase = w.phase]

(* reconcileWorkflow: what EvalRun r becomes in the face of Workflow w.    *)
(* The verdict of a Workflow that is gone or has no report is kept.        *)
Mirror(r, w) ==
  IF w.owner = 0 THEN [r EXCEPT !.phase = "Failed"]
  ELSE IF w.phase = "Running" THEN [r EXCEPT !.phase = "Running"]
  ELSE IF w.report = "none" THEN [r EXCEPT !.phase = "Failed"]
  ELSE [r EXCEPT !.verdict = w.report,
                 !.phase = IF w.report = "passed" THEN "Succeeded" ELSE "Failed"]

GetWorkflow ==
  /\ pc = "get"
  /\ my' = Mirror(my, workflow)
  /\ pc' = "write"
  /\ UNCHANGED <<objects, cached, cacheCurrent, myCurrent, queued, timer, budgets, lost>>

(* Faulty variant: the status is patched without a resourceVersion. *)
WriteStatusUnversioned ==
  /\ pc = "write"
  /\ pc' = "idle"
  /\ IF Exists THEN evalRun' = [evalRun EXCEPT !.ref = my.ref, !.phase = my.phase,
                                              !.verdict = my.verdict]
               ELSE UNCHANGED evalRun
  /\ cacheCurrent' = FALSE
  /\ timer' = (timer \/ my.phase = "Running")
  /\ UNCHANGED <<queued, workflow, cached, my, myCurrent, budgets, lost>>

(* setStatus.  An update of an old version, or of an object that is gone,  *)
(* is an error and is retried.  An update that changes nothing makes no    *)
(* new version; one that changes only message or startTime, not modelled,  *)
(* makes one.                                                              *)
WriteStatus ==
  /\ pc = "write"
  /\ pc' = "idle"
  /\ \/ /\ myCurrent
        /\ evalRun' = my
        /\ cacheCurrent' \in IF my = evalRun THEN {cacheCurrent, FALSE} ELSE {FALSE}
        /\ timer' = (timer \/ my.phase = "Running")
        /\ UNCHANGED queued
     \/ /\ ~myCurrent
        /\ queued' = TRUE
        /\ UNCHANGED <<evalRun, cacheCurrent, timer>>
  /\ UNCHANGED <<workflow, cached, my, myCurrent, budgets, lost>>

(* An API call fails: Reconcile returns the error and the name is queued   *)
(* again.  A Create that took effect but whose answer is lost shows as a   *)
(* failure with pc = "write".                                              *)
CallFails ==
  /\ troubles < MaxTroubles
  /\ pc # "idle"
  /\ pc' = "idle"
  /\ queued' = TRUE
  /\ troubles' = troubles + 1
  /\ UNCHANGED <<objects, cached, cacheCurrent, my, myCurrent, timer, created, edits, lost>>

(* The operator stops anywhere and starts again: the cache is filled anew  *)
(* and every EvalRun is queued.                                            *)
Restart ==
  /\ troubles < MaxTroubles
  /\ pc' = "idle"
  /\ cached' = evalRun /\ cacheCurrent' = TRUE
  /\ queued' = TRUE
  /\ timer' = FALSE
  /\ troubles' = troubles + 1
  /\ UNCHANGED <<objects, my, myCurrent, created, edits, lost>>

(* The watch brings the cache up to date; an event of For queues the name. *)
Sync ==
  /\ ~cacheCurrent
  /\ cached' = evalRun /\ cacheCurrent' = TRUE
  /\ queued' = TRUE
  /\ UNCHANGED <<objects, pc, my, myCurrent, timer, budgets, lost>>

TimerFires ==
  /\ timer
  /\ timer' = FALSE
  /\ queued' = TRUE
  /\ UNCHANGED <<objects, cached, cacheCurrent, pc, my, myCurrent, budgets, lost>>

(* The periodic resync queues every object.                                *)
Resync ==
  /\ ~queued /\ cached.uid # 0
  /\ queued' = TRUE
  /\ UNCHANGED <<objects, cached, cacheCurrent, pc, my, myCurrent, timer, budgets, lost>>

----------------------------------------------------------------------------
(* The others.                                                             *)

(* Someone other than the controller makes evalRun r.                      *)
SetEvalRun(r) ==
  /\ evalRun' = r
  /\ cacheCurrent' = FALSE /\ myCurrent' = FALSE
  /\ UNCHANGED <<workflow, cached, pc, my, queued, timer, troubles>>

CreateEvalRun ==
  /\ ~Exists /\ created < MaxUid
  /\ created' = created + 1
  /\ \E s \in BOOLEAN : SetEvalRun(New(created + 1, s))
  /\ lost' = FALSE
  /\ UNCHANGED edits

EditSuspend ==
  /\ Exists /\ edits < MaxEdits
  /\ SetEvalRun([evalRun EXCEPT !.suspend = ~evalRun.suspend])
  /\ edits' = edits + 1
  /\ UNCHANGED <<created, lost>>

(* Background deletion removes the object at once and leaves the Workflow  *)
(* to the garbage collector; foreground deletion removes the Workflow      *)
(* first.                                                                  *)
DeleteEvalRun ==
  /\ Exists /\ ~evalRun.deleting
  /\ \/ SetEvalRun(Absent)
     \/ SetEvalRun([evalRun EXCEPT !.deleting = TRUE])
  /\ UNCHANGED <<created, edits, lost>>

FinishDeletion ==
  /\ evalRun.deleting /\ workflow.owner # evalRun.uid
  /\ SetEvalRun(Absent)
  /\ UNCHANGED <<created, edits, lost>>

(* The Workflow becomes w; the name of its owner is queued.                *)
SetWorkflow(w) ==
  /\ WorkflowExists
  /\ workflow' = w
  /\ queued' = TRUE
  /\ UNCHANGED <<evalRun, cached, cacheCurrent, pc, my, myCurrent, timer, created, troubles>>

(* A Workflow may end either way with or without a report: vox-eval exits  *)
(* with 1 after it has written a failing report.                           *)
WorkflowEnds ==
  /\ workflow.phase = "Running"
  /\ \E p \in {"Succeeded", "Failed"}, v \in Verdict :
       SetWorkflow([workflow EXCEPT !.phase = p, !.report = v])
  /\ UNCHANGED <<edits, lost>>

DeleteWorkflow ==
  /\ edits < MaxEdits
  /\ edits' = edits + 1
  /\ SetWorkflow(NoWorkflow)
  /\ lost' = TRUE

(* The owner is gone, or is being deleted in the foreground.               *)
CollectWorkflow ==
  /\ workflow.owner # evalRun.uid \/ evalRun.deleting
  /\ SetWorkflow(NoWorkflow)
  /\ lost' = TRUE
  /\ UNCHANGED edits

----------------------------------------------------------------------------
Reconcile == Begin \/ CreateWorkflow \/ GetWorkflow \/ WriteStatus

Next ==
  \/ Reconcile \/ CallFails \/ Restart \/ Sync \/ TimerFires \/ Resync
  \/ CreateEvalRun \/ EditSuspend \/ DeleteEvalRun \/ FinishDeletion
  \/ WorkflowEnds \/ DeleteWorkflow \/ CollectWorkflow

(* The controller and its watch keep running, timers fire, Argo ends a     *)
(* Workflow (activeDeadlineSeconds), the garbage collector collects.       *)
Fairness ==
  /\ WF_vars(Reconcile) /\ WF_vars(Sync) /\ WF_vars(TimerFires)
  /\ WF_vars(WorkflowEnds) /\ WF_vars(CollectWorkflow) /\ WF_vars(FinishDeletion)

Spec == Init /\ [][Next]_vars /\ Fairness

----------------------------------------------------------------------------
(* Properties.                                                             *)

(* As long as no Workflow has gone, the status claims nothing the Workflow *)
(* does not bear out: workflowRef names one that exists, the verdict is    *)
(* its report, and Succeeded is a passing report (reconcileWorkflow takes  *)
(* the phase from the report).  A crash or a stale cache between creating  *)
(* the Workflow and recording it must not break this.                      *)
Backed(r) ==
  /\ r.ref \/ r.verdict # "none" => WorkflowExists
  /\ r.verdict # "none" => workflow.report = r.verdict /\ workflow.phase # "Running"
  /\ r.verdict # "none" => r.phase # "Running"
  /\ r.phase = "Succeeded" => r.verdict = "passed"

StatusBacked == ~lost => Backed(evalRun)

(* One-shot: as long as no Workflow has gone, an EvalRun never forgets its *)
(* Workflow or its verdict, and is never Running again after a verdict,    *)
(* whatever a Reconcile that read an old EvalRun does (submitWorkflow and  *)
(* setStatus).                                                             *)
NeverForgets ==
  [][evalRun'.uid = evalRun.uid /\ ~lost' =>
       /\ evalRun.ref => evalRun'.ref
       /\ evalRun.verdict # "none" =>
            evalRun'.verdict = evalRun.verdict /\ evalRun'.phase # "Running"]_vars

(* Level-triggered reconciliation gets there: once users leave the EvalRun *)
(* alone, its status comes to mirror what became of its Workflow, across   *)
(* conflicts, failed calls and restarts (Reconcile returns every error).   *)
Settled ==
  Exists /\ ~evalRun.deleting =>
    IF evalRun.suspend THEN evalRun.phase = "Pending"
    ELSE /\ evalRun.ref
         /\ WorkflowExists => workflow.phase # "Running"
         /\ evalRun = Mirror(evalRun, workflow)
Mirrors == <>[]Settled
============================================================================
