------------------------------ MODULE Operator ------------------------------
(***************************************************************************)
(* The operator as one process (operator/cmd/main.go): the VoiceModel      *)
(* controller and the InferencePipeline controller on the caches of one    *)
(* manager.  A pipeline with one stage refers to the VoiceModel of         *)
(* VoiceModelController; what InferencePipelineController lets happen to   *)
(* its VoiceModels is here what the other controller does.                 *)
(*                                                                         *)
(* Both controllers are handlers of the one VoiceModel informer, so any    *)
(* change of the VoiceModel wakes the pipeline, one that leaves the phase  *)
(* as it was as well.  The EvalRun controller shares no object with them.  *)
(***************************************************************************)
EXTENDS Naturals

CONSTANTS
  model,                                  (* the name of the VoiceModel    *)
  MaxSpec, Replicas, MaxReady,            (* as in VoiceModelController    *)
  MaxEdits,                               (* as in InferencePipelineController *)
  MaxEvents                               (* bound: changes of pods, calls *)
                                          (* that fail, restarts           *)

(* One spec is given before the start (Deployed). *)
ASSUME OperatorAssumption ==
  /\ MaxSpec \in Nat \ {0} /\ MaxReady \in Nat /\ MaxEdits \in Nat /\ MaxEvents \in Nat
  /\ Replicas \in [1 .. MaxSpec -> Nat]

VARIABLES
  vm, child, vmCache, childCache, current, pc, my, myCurrent, queued, timer,
  specs, swallowed,                       (* as in VoiceModelController    *)
  pipeline, pipelineCache, pipelineCurrent, pending, stages, found, stagesCurrent,
  pipelineQueued, pipelineTimer, edits,
  dropped,                                (* as in InferencePipelineController *)
  events

voiceModelVars == <<vm, child, vmCache, childCache, current, pc, my, myCurrent, queued, timer,
                    specs, swallowed>>
pipelineVars   == <<pipeline, pipelineCache, pipelineCurrent, pending, stages, found,
                    stagesCurrent, pipelineQueued, pipelineTimer, edits, dropped>>
vars == <<voiceModelVars, pipelineVars, events>>

(* What the pipeline controller sees of VoiceModel v.                      *)
PhaseOf(v) == IF v.uid = 0 THEN "missing" ELSE v.status.phase

VM == INSTANCE VoiceModelController

IP == INSTANCE InferencePipelineController WITH
        Models       <- {model},
        Specs        <- {<<[model |-> model, enabled |-> TRUE]>>},
        Waiting      <- {"", "Deploying", "Failed"},
        models       <- [m \in {model} |-> PhaseOf(vm)],
        modelCache   <- [m \in {model} |-> PhaseOf(vmCache)],
        cacheCurrent <- pipelineCurrent,
        my           <- stages,
        myCurrent    <- stagesCurrent,
        queued       <- pipelineQueued,
        timer        <- pipelineTimer,
        changes      <- 0,
        MaxChanges   <- 0,
        troubles     <- events,
        MaxTroubles  <- MaxEvents

(* The operator has just started beside a VoiceModel that an earlier run   *)
(* deployed, with some of its pods ready.                                  *)
Deployed(n) ==
  /\ child = [k \in VM!Kind |->
               [VM!NewChild(1, 1) EXCEPT !.ready = IF k = "deployment" THEN n ELSE 0]]
  /\ vm = [VM!New(1) EXCEPT !.finalizer = TRUE,
                            !.status = VM!StatusFor(VM!New(1), child["deployment"])]
  /\ specs = 1 /\ queued = TRUE

Init ==
  /\ VM!Init \/ (\E n \in 0 .. MaxReady : Deployed(n))
  /\ vmCache = vm /\ childCache = child /\ current = VM!Object
  /\ pc = "idle" /\ my = VM!Absent /\ myCurrent = FALSE /\ timer = FALSE
  /\ events = 0 /\ swallowed = FALSE
  /\ IP!Init

----------------------------------------------------------------------------
(* Faulty variant: SetupWithManager without Watches. *)
SyncVMAlone == VM!Sync("vm") /\ UNCHANGED <<pipelineVars, events>>

(* Faulty variant: Watches with a predicate for VoiceModels that are Ready. *)
SyncVMWhenReady ==
  /\ VM!Sync("vm")
  /\ pending' = IF PhaseOf(vm) = "Ready" THEN {model} ELSE pending
  /\ UNCHANGED <<pipeline, pipelineCache, pipelineCurrent, stages, found, stagesCurrent,
                 pipelineQueued, pipelineTimer, edits, dropped, events>>

(* The informer of VoiceModels brings its cache up to date, for both.      *)
SyncVM ==
  /\ VM!Sync("vm")
  /\ pending' = {model}
  /\ UNCHANGED <<pipeline, pipelineCache, pipelineCurrent, stages, found, stagesCurrent,
                 pipelineQueued, pipelineTimer, edits, dropped, events>>

SyncChild == (\E k \in VM!Kind : VM!Sync(k)) /\ UNCHANGED <<pipelineVars, events>>

(* The process stops, and with it both controllers.                        *)
Restart == VM!Restart /\ IP!Restart

ReconcileVM       == VM!Reconcile /\ UNCHANGED <<pipelineVars, events>>
ReconcilePipeline == UNCHANGED voiceModelVars /\ IP!Reconcile

VMTimerFires       == VM!TimerFires /\ UNCHANGED <<pipelineVars, events>>
PipelineTimerFires == UNCHANGED voiceModelVars /\ IP!TimerFires

InformPipeline == UNCHANGED voiceModelVars /\ (IP!SyncPipeline \/ IP!Deliver(model))

CallFails == VM!CallFails /\ UNCHANGED pipelineVars

Users ==
  \/ (VM!CreateVM \/ VM!EditSpec \/ VM!DeleteVM) /\ UNCHANGED <<pipelineVars, events>>
  \/ UNCHANGED voiceModelVars /\ IP!Users

Collect == (\E k \in VM!Kind : VM!Collect(k)) /\ UNCHANGED <<pipelineVars, events>>

PodsChange == VM!PodsChange /\ UNCHANGED pipelineVars

Next ==
  \/ ReconcileVM \/ ReconcilePipeline \/ SyncVM \/ SyncChild \/ InformPipeline
  \/ VMTimerFires \/ PipelineTimerFires \/ Restart
  \/ CallFails \/ Users \/ Collect \/ PodsChange

(* That of both controllers: each has a goroutine of its own.              *)
Fairness ==
  /\ WF_vars(ReconcileVM) /\ WF_vars(ReconcilePipeline)
  /\ WF_vars(SyncVM \/ SyncChild) /\ WF_vars(InformPipeline)
  /\ WF_vars(VMTimerFires) /\ WF_vars(PipelineTimerFires) /\ WF_vars(Collect)

Spec == Init /\ [][Next]_vars /\ Fairness

----------------------------------------------------------------------------
(* The pods of the VoiceModel that the pipeline's stage runs on are up.    *)
Served ==
  /\ VM!Exists /\ child["deployment"].owner = vm.uid
  /\ child["deployment"].ready >= Replicas[vm.spec]

(* The pipeline says Ready if and only if its stage can be served.         *)
TellsServed == IP!Exists /\ ~pipeline.deleting => (pipeline.status.phase = "Ready" <=> Served)

(* Nothing is under way that would wake either controller.                 *)
Quiet ==
  /\ pc = "idle" /\ ~queued /\ ~timer /\ current = VM!Object
  /\ \A k \in VM!Kind : VM!Missing(k) \/ child[k].owner = vm.uid
  /\ IP!Quiet

(* Between a pod and the pipeline's phase lie two controllers, three       *)
(* informers and a map; no wake-up is lost on the way: when nothing is     *)
(* left to do, the pipeline tells whether its stage is served.             *)
NothingLeftUndone == Quiet => TellsServed \/ swallowed \/ dropped

(* Once users, pods and troubles leave it alone, it comes to tell so and   *)
(* goes on telling so.                                                     *)
TracksPods == <>[](TellsServed \/ swallowed \/ dropped)
============================================================================
