--------------------------- MODULE OperatorProofs ---------------------------
(***************************************************************************)
(* A theorem about Operator, for any specs, replicas and bounds: no        *)
(* wake-up is lost between a pod and the pipeline's phase.  The invariants *)
(* are those of the two controllers; what is proved here is that each      *)
(* keeps its own beside the steps of the other, which for the pipeline     *)
(* controller are changes of its VoiceModel.                               *)
(***************************************************************************)
EXTENDS Operator, Sequences, TLAPS

VMP == INSTANCE VoiceModelControllerProofs

IPP == INSTANCE InferencePipelineControllerProofs WITH
        Models       <- {model},
        Specs        <- {<<[model |-> model, enabled |-> TRUE]>>},
        Waiting      <- {"", "Deploying", "Failed"},
        models       <- [m \in {model} |-> PhaseOf(vm)],
        modelCache   <- [m \in {model} |-> PhaseOf(vmCache)],
        cacheCurrent <- pipelineCurrent,
        my           <- stages,
        myCurrent    <- stagesCurrent,
        queued       <- pipelineQueued,
        timer        <- pipelineTimer,
        changes      <- 0,
        MaxChanges   <- 0,
        troubles     <- events,
        MaxTroubles  <- MaxEvents

IInv == VMP!IInv /\ VMP!Wakeups /\ IPP!IInv

----------------------------------------------------------------------------
(* What the theorems of the two controllers assume.                        *)

LEMMA VMBounds ==
  /\ MaxSpec \in Nat /\ MaxReady \in Nat /\ MaxEvents \in Nat
  /\ Replicas \in [1 .. MaxSpec -> Nat]
BY OperatorAssumption

LEMMA IPBounds ==
  /\ MaxEdits \in Nat /\ 0 \in Nat /\ MaxEvents \in Nat
  /\ {<<[model |-> model, enabled |-> TRUE]>>} \subseteq Seq(IPP!Stage) \ {<<>>}
  /\ {"", "Deploying", "Failed"} \cap {"missing", "Ready", "disabled", "error"} = {}
<1>1. [model |-> model, enabled |-> TRUE] \in IPP!Stage
  BY DEF IPP!Stage
<1>2. <<[model |-> model, enabled |-> TRUE]>> \in Seq(IPP!Stage) \ {<<>>}
  BY <1>1
<1> QED
  BY <1>2, OperatorAssumption

(* The VoiceModel and the cached one are to the pipeline controller what   *)
(* its own model has there.                                                *)
LEMMA PhaseTyped ==
  ASSUME NEW v \in VMP!VoiceModel
  PROVE  PhaseOf(v) \in IPP!Model
<1>1. v.status.phase \in {"", "Deploying", "Ready", "Failed"}
  BY DEF VMP!VoiceModel, VMP!Status
<1> QED
  BY <1>1 DEF PhaseOf, IPP!Model

----------------------------------------------------------------------------
(* The steps of VM and IP are those the theorems speak of.                 *)

LEMMA VMReconcileIs == VM!Reconcile => VMP!Reconcile
BY DEF VM!objects, VM!controller, VM!budgets, VM!Return, VM!ReturnError, VM!Absent, VM!New,
       VM!NoStatus, VM!Missing, VM!Kind, VM!Reconcile, VM!Begin, VM!RemoveFinalizer,
       VM!AddFinalizer, VM!Apply, VM!Fail, VM!Failed, VM!NewChild, VM!UpdateStatus,
       VM!ReportFailure, VM!SetPhase, VM!StatusFor, VMP!objects, VMP!controller, VMP!budgets,
       VMP!Return, VMP!ReturnError, VMP!Absent, VMP!New, VMP!NoStatus, VMP!Missing, VMP!Kind,
       VMP!Reconcile, VMP!Begin, VMP!RemoveFinalizer, VMP!AddFinalizer, VMP!Apply, VMP!Fail,
       VMP!Failed, VMP!NewChild, VMP!UpdateStatus, VMP!ReportFailure, VMP!SetPhase,
       VMP!StatusFor

LEMMA VMTimerIs == VM!TimerFires => VMP!TimerFires
BY DEF VM!objects, VM!budgets, VM!TimerFires, VMP!objects, VMP!budgets, VMP!TimerFires

LEMMA VMCallFailsIs == VM!CallFails => VMP!CallFails
BY DEF VM!objects, VM!controller, VM!budgets, VM!Return, VM!ReturnError, VM!Absent, VM!New,
       VM!NoStatus, VM!Missing, VM!Kind, VM!CallFails, VM!Event, VM!Fail, VM!Failed,
       VMP!objects, VMP!controller, VMP!budgets, VMP!Return, VMP!ReturnError, VMP!Absent,
       VMP!New, VMP!NoStatus, VMP!Missing, VMP!Kind, VMP!CallFails, VMP!Event, VMP!Fail,
       VMP!Failed

LEMMA VMRestartIs == VM!Restart => VMP!Restart
BY DEF VM!objects, VM!controller, VM!budgets, VM!Return, VM!ReturnError, VM!Absent, VM!New,
       VM!NoStatus, VM!Missing, VM!Kind, VM!Object, VM!Restart, VM!Event, VMP!objects,
       VMP!controller, VMP!budgets, VMP!Return, VMP!ReturnError, VMP!Absent, VMP!New,
       VMP!NoStatus, VMP!Missing, VMP!Kind, VMP!Object, VMP!Restart, VMP!Event

LEMMA VMSyncIs == ASSUME NEW o \in VM!Object, VM!Sync(o) PROVE o \in VMP!Object /\ VMP!Sync(o)
BY DEF VM!objects, VM!budgets, VM!Object, VM!Kind, VM!Sync, VMP!objects, VMP!budgets,
       VMP!Object, VMP!Kind, VMP!Sync

LEMMA VMUsersIs ==
  VM!CreateVM \/ VM!EditSpec \/ VM!DeleteVM => VMP!CreateVM \/ VMP!EditSpec \/ VMP!DeleteVM
BY DEF VM!Exists, VM!Absent, VM!New, VM!NoStatus, VM!SetVM, VM!CreateVM, VM!EditSpec,
       VM!DeleteVM, VMP!Exists, VMP!Absent, VMP!New, VMP!NoStatus, VMP!SetVM, VMP!CreateVM,
       VMP!EditSpec, VMP!DeleteVM

LEMMA VMPodsIs == VM!PodsChange => VMP!PodsChange
BY DEF VM!Missing, VM!SetChild, VM!Event, VM!PodsChange, VMP!Missing, VMP!SetChild, VMP!Event,
       VMP!PodsChange

LEMMA VMCollectIs == ASSUME NEW k \in VM!Kind, VM!Collect(k) PROVE k \in VMP!Kind /\ VMP!Collect(k)
BY DEF VM!Kind, VM!Missing, VM!NoChild, VM!NewChild, VM!SetChild, VM!Collect, VMP!Kind,
       VMP!Missing, VMP!NoChild, VMP!NewChild, VMP!SetChild, VMP!Collect

LEMMA IPInitIs == IP!Init => IPP!Init
BY DEF IP!Init, IP!Model, IP!New, IP!Exists, IPP!Init, IPP!Model, IPP!New, IPP!Exists

LEMMA IPReconcileIs == IP!Reconcile => IPP!Reconcile
BY DEF IP!objects, IP!caches, IP!reconciler, IP!budgets, IP!Idle, IP!Exists, IP!Trouble,
       IP!Return, IP!Reconcile, IP!Begin, IP!ResolveStage, IP!SetPipelineStatus, IP!StatusFor,
       IP!Aggregate, IP!Accepted, IP!IsNew, IP!Requeues, IPP!objects, IPP!caches,
       IPP!reconciler, IPP!budgets, IPP!Idle, IPP!Exists, IPP!Trouble, IPP!Return,
       IPP!Reconcile, IPP!Begin, IPP!ResolveStage, IPP!SetPipelineStatus, IPP!StatusFor,
       IPP!Aggregate, IPP!Accepted, IPP!IsNew, IPP!Requeues

LEMMA IPInformIs ==
  /\ IP!SyncPipeline => IPP!SyncPipeline
  /\ IP!Deliver(model) => IPP!Deliver(model)
BY DEF IP!objects, IP!caches, IP!reconciler, IP!budgets, IP!Idle, IP!Exists, IP!Trouble,
       IP!SyncPipeline, IP!Deliver, IP!Refers, IPP!objects, IPP!caches, IPP!reconciler,
       IPP!budgets, IPP!Idle, IPP!Exists, IPP!Trouble, IPP!SyncPipeline, IPP!Deliver,
       IPP!Refers

LEMMA IPTimerIs == IP!TimerFires => IPP!TimerFires
BY DEF IP!objects, IP!caches, IP!reconciler, IP!budgets, IP!TimerFires, IPP!objects,
       IPP!caches, IPP!reconciler, IPP!budgets, IPP!TimerFires

LEMMA IPRestartIs == IP!Restart => IPP!Restart
BY DEF IP!objects, IP!Exists, IP!Trouble, IP!Return, IP!Restart, IPP!objects, IPP!Exists,
       IPP!Trouble, IPP!Return, IPP!Restart

LEMMA IPUsersIs == IP!Users => IPP!Users
BY DEF IP!Exists, IP!Absent, IP!New, IP!SetPipeline, IP!CreatePipeline, IP!EditPipeline,
       IP!DeletePipeline, IP!Users, IPP!Exists, IPP!Absent, IPP!New, IPP!SetPipeline,
       IPP!CreatePipeline, IPP!EditPipeline, IPP!DeletePipeline, IPP!Users

----------------------------------------------------------------------------
(* The steps of the VoiceModel controller and of those around it change    *)
(* the VoiceModel, and nothing else that the pipeline controller has.      *)
LEMMA VMStep ==
  ASSUME IInv, VMP!Next, UNCHANGED <<pipelineVars, vmCache>>
  PROVE  IInv'
<1>1. VMP!IInv' /\ VMP!Wakeups'
  BY VMBounds, VMP!NextIInv, VMP!NextWakeups DEF IInv
<1>2. PhaseOf(vm)' \in IPP!Model /\ events' \in 0 .. MaxEvents
  BY <1>1, PhaseTyped DEF VMP!IInv, VMP!TypeOK, PhaseOf
<1>3. IPP!IInv'
  BY <1>2, IPBounds, IPP!ModelsStep DEF IInv, pipelineVars, IPP!caches, IPP!reconciler, PhaseOf
<1> QED
  BY <1>1, <1>3 DEF IInv

(* The pipeline controller changes nothing that the VoiceModel controller  *)
(* has; a call that fails counts for both.                                 *)
LEMMA IPStep ==
  ASSUME IInv, IPP!Next, UNCHANGED voiceModelVars
  PROVE  IInv'
<1>1. IPP!IInv'
  BY IPBounds, IPP!NextStep DEF IInv
<1>2. events' \in 0 .. MaxEvents
  BY <1>1 DEF IPP!IInv, IPP!TypeOK
<1>3. VMP!IInv' /\ VMP!Wakeups'
  BY <1>2, VMBounds, VMP!Unmoved DEF IInv, voiceModelVars, VMP!objects, VMP!controller
<1> QED
  BY <1>1, <1>3 DEF IInv

LEMMA SyncVMStep == ASSUME IInv, SyncVM PROVE IInv'
<1>1. VM!Sync("vm") /\ "vm" \in VM!Object
  BY DEF SyncVM, VM!Object
<1>2. VMP!Next /\ UNCHANGED vm /\ vmCache' = vm
  BY <1>1, VMSyncIs DEF VMP!Next, VMP!Sync, VMP!objects
<1>3. VMP!IInv' /\ VMP!Wakeups'
  BY <1>2, VMBounds, VMP!NextIInv, VMP!NextWakeups DEF IInv
<1>4. IPP!CacheMoves(model)
  BY <1>2 DEF SyncVM, IInv, IPP!IInv, IPP!TypeOK, IPP!CacheMoves, IPP!objects, IPP!reconciler,
              IPP!budgets, PhaseOf
<1>5. IPP!IInv'
  BY <1>4, IPBounds, IPP!CacheStep DEF IInv
<1> QED
  BY <1>3, <1>5 DEF IInv

LEMMA RestartStep == ASSUME IInv, Restart PROVE IInv'
<1>1. VMP!Next /\ IPP!Next
  BY VMRestartIs, IPRestartIs DEF Restart, VMP!Next, IPP!Next
<1> QED
  BY <1>1, VMBounds, IPBounds, VMP!NextIInv, VMP!NextWakeups, IPP!NextStep DEF IInv

LEMMA NextStep == IInv /\ [Next]_vars => IInv'
<1> SUFFICES ASSUME IInv, [Next]_vars PROVE IInv'
  OBVIOUS
<1>1. CASE ReconcileVM
  <2>1. vmCache' = vmCache
    BY <1>1 DEF ReconcileVM, VM!Reconcile, VM!Begin, VM!RemoveFinalizer, VM!AddFinalizer,
                VM!Apply, VM!UpdateStatus, VM!ReportFailure, VM!SetPhase
  <2> QED
    BY <1>1, <2>1, VMReconcileIs, VMStep DEF ReconcileVM, VMP!Next
<1>2. CASE ReconcilePipeline
  BY <1>2, IPReconcileIs, IPStep DEF ReconcilePipeline, IPP!Next
<1>3. CASE SyncVM
  BY <1>3, SyncVMStep
<1>4. CASE SyncChild
  <2>1. PICK k \in VM!Kind : VM!Sync(k)
    BY <1>4 DEF SyncChild
  <2>2. k \in VM!Object /\ k # "vm"
    BY DEF VM!Object, VM!Kind
  <2>3. vmCache' = vmCache
    BY <2>1, <2>2 DEF VM!Sync
  <2> QED
    BY <1>4, <2>1, <2>2, <2>3, VMSyncIs, VMStep DEF SyncChild, VMP!Next
<1>5. CASE InformPipeline
  BY <1>5, IPInformIs, IPStep DEF InformPipeline, IPP!Informers, IPP!Next
<1>6. CASE VMTimerFires
  BY <1>6, VMTimerIs, VMStep DEF VMTimerFires, VM!TimerFires, VMP!Next
<1>7. CASE PipelineTimerFires
  BY <1>7, IPTimerIs, IPStep DEF PipelineTimerFires, IPP!Next
<1>8. CASE Restart
  BY <1>8, RestartStep
<1>9. CASE CallFails
  BY <1>9, VMCallFailsIs, VMStep DEF CallFails, VM!CallFails, VMP!Next
<1>10. CASE Users
  <2>1. CASE (VM!CreateVM \/ VM!EditSpec \/ VM!DeleteVM) /\ UNCHANGED <<pipelineVars, events>>
    BY <2>1, VMUsersIs, VMStep DEF VM!CreateVM, VM!EditSpec, VM!DeleteVM, VM!SetVM, VMP!Next
  <2>2. CASE UNCHANGED voiceModelVars /\ IP!Users
    BY <2>2, IPUsersIs, IPStep DEF IPP!Next
  <2> QED
    BY <1>10, <2>1, <2>2 DEF Users
<1>11. CASE Collect
  <2>1. PICK k \in VM!Kind : VM!Collect(k)
    BY <1>11 DEF Collect
  <2>2. vmCache' = vmCache
    BY <2>1 DEF VM!Collect, VM!SetChild
  <2> QED
    BY <1>11, <2>1, <2>2, VMCollectIs, VMStep DEF Collect, VMP!Next
<1>12. CASE PodsChange
  BY <1>12, VMPodsIs, VMStep DEF PodsChange, VM!PodsChange, VM!SetChild, VMP!Next
<1>13. CASE UNCHANGED vars
  <2>1. VMP!IInv' /\ VMP!Wakeups'
    BY <1>13, VMBounds, VMP!NextIInv, VMP!NextWakeups
    DEF IInv, vars, voiceModelVars, VMP!vars, VMP!objects, VMP!controller, VMP!budgets
  <2>2. IPP!IInv'
    BY <1>13, IPBounds, IPP!NextStep
    DEF IInv, vars, voiceModelVars, pipelineVars, IPP!vars, IPP!objects, IPP!caches,
        IPP!reconciler, IPP!budgets, PhaseOf
  <2> QED
    BY <2>1, <2>2 DEF IInv
<1> QED
  BY <1>1, <1>2, <1>3, <1>4, <1>5, <1>6, <1>7, <1>8, <1>9, <1>10, <1>11, <1>12, <1>13 DEF Next

----------------------------------------------------------------------------
(* The operator starts beside an empty cluster or one it had deployed to.  *)

LEMMA DeployedTyped ==
  ASSUME NEW n \in 0 .. MaxReady, Deployed(n)
  PROVE  /\ vm \in VMP!VoiceModel /\ vm.uid = 1 /\ vm.finalizer
         /\ child \in [VMP!Kind -> VMP!Child]
         /\ \A k \in VMP!Kind : child[k].owner = 1
<1> DEFINE c(k) == [VM!NewChild(1, 1) EXCEPT !.ready = IF k = "deployment" THEN n ELSE 0]
<1>1. 1 \in VMP!Spec0 /\ 0 \in 0 .. MaxReady
  BY VMBounds, OperatorAssumption DEF VMP!Spec0
<1>2. ASSUME NEW k \in VMP!Kind PROVE c(k) \in VMP!Child /\ c(k).owner = 1
  BY <1>1 DEF VM!NewChild, VMP!Child
<1> HIDE DEF c
<1>3. child = [k \in VMP!Kind |-> c(k)]
  BY DEF Deployed, VM!Kind, VMP!Kind, c
<1>4. /\ child \in [VMP!Kind -> VMP!Child] /\ \A k \in VMP!Kind : child[k].owner = 1
      /\ child["deployment"] \in VMP!Child
  BY <1>2, <1>3 DEF VMP!Kind
<1>5. VM!New(1) = VMP!New(1)
  BY DEF VM!New, VMP!New, VM!NoStatus, VMP!NoStatus
<1>6. VMP!New(1) \in VMP!VoiceModel /\ VMP!New(1).uid = 1
  BY <1>1, VMBounds, VMP!NewTyped
<1> DEFINE st == VM!StatusFor(VM!New(1), child["deployment"])
<1>7. st = VMP!StatusFor(VMP!New(1), child["deployment"])
  BY <1>5 DEF VM!StatusFor, VMP!StatusFor
<1>8. st \in VMP!Status
  BY <1>4, <1>6, <1>7, VMBounds, VMP!StatusForTyped
<1>9. vm = [VMP!New(1) EXCEPT !.finalizer = TRUE, !.status = st]
  BY <1>5 DEF Deployed
<1> HIDE DEF st
<1>10. vm \in VMP!VoiceModel /\ vm.uid = 1 /\ vm.finalizer
  BY <1>6, <1>8, <1>9 DEF VMP!VoiceModel
<1> QED
  BY <1>4, <1>10

LEMMA InitStep == Init => IInv
<1> SUFFICES ASSUME Init PROVE IInv
  OBVIOUS
<1>1. IPP!IInv
  BY IPBounds, IPInitIs, IPP!InitStep DEF Init
<1>2. CASE VM!Init
  <2>1. VMP!Init
    BY <1>2 DEF VM!Init, VMP!Init, VM!Absent, VMP!Absent, VM!New, VMP!New, VM!NoStatus,
                VMP!NoStatus, VM!NoChild, VMP!NoChild, VM!NewChild, VMP!NewChild, VM!Kind,
                VMP!Kind, VM!Object, VMP!Object
  <2> QED
    BY <1>1, <2>1, VMBounds, VMP!InitIInv, VMP!InitWakeups DEF IInv
<1>3. ASSUME NEW n \in 0 .. MaxReady, Deployed(n) PROVE IInv
  <2>1. /\ vm \in VMP!VoiceModel /\ vm.uid = 1 /\ vm.finalizer
        /\ child \in [VMP!Kind -> VMP!Child]
        /\ \A k \in VMP!Kind : child[k].owner = 1
    BY <1>3, DeployedTyped
  <2>2. /\ vmCache = vm /\ childCache = child /\ current = VMP!Object /\ pc = "idle"
        /\ myCurrent = FALSE /\ queued = TRUE /\ timer = FALSE
        /\ specs = 1 /\ events = 0 /\ swallowed = FALSE
    BY <1>3 DEF Init, Deployed, VM!Object, VMP!Object, VM!Kind, VMP!Kind
  <2>3. my = VMP!Absent
    BY DEF Init, VM!Absent, VMP!Absent, VM!New, VMP!New, VM!NoStatus, VMP!NoStatus
  <2>4. my \in VMP!VoiceModel /\ my.uid = 0
    BY <2>3, VMBounds, VMP!AbsentTyped
  <2>5. VMP!TypeOK
    <3>1. specs \in VMP!Spec0 /\ events \in 0 .. MaxEvents
      BY <2>2, VMBounds, OperatorAssumption DEF VMP!Spec0
    <3> QED
      BY <2>1, <2>2, <2>4, <3>1 DEF VMP!TypeOK
  <2>6. VMP!Inv
    BY <2>1, <2>2, <2>4
    DEF VMP!Inv, VMP!KnownUids, VMP!CacheSound, VMP!CopySound, VMP!CurrentCopy,
        VMP!OwnedHasFinalizer, VMP!Applying, VMP!Kind
  <2>7. VMP!Wakeups
    BY <2>2 DEF VMP!Wakeups, VMP!Watching, VMP!Resting
  <2> QED
    BY <1>1, <2>5, <2>6, <2>7 DEF IInv, VMP!IInv
<1> QED
  BY <1>2, <1>3 DEF Init

----------------------------------------------------------------------------
(* The status of a pipeline at rest, with its one stage. *)
LEMMA StageTold ==
  ASSUME IPP!IInv, IPP!Settled, IPP!Exists, ~pipeline.deleting, PhaseOf(vm) \in IPP!Model
  PROVE  pipeline.status.phase = "Ready" <=> PhaseOf(vm) = "Ready"
<1> DEFINE told == pipeline.status.stages
           says == [i \in DOMAIN told |-> told[i].says]
<1>1. pipeline.spec = <<[model |-> model, enabled |-> TRUE]>>
  BY DEF IPP!IInv, IPP!TypeOK, IPP!Pipeline, IPP!Exists
<1>2. told \in Seq(IPP!Entry) /\ Len(told) = 1
  BY <1>1 DEF IPP!IInv, IPP!TypeOK, IPP!Pipeline, IPP!Status, IPP!Settled
<1>3. DOMAIN told = {1}
  BY <1>2
<1>4. IPP!Truth(1) = PhaseOf(vm)
  BY <1>1 DEF IPP!Truth
<1>5. told[1].says = PhaseOf(vm)
      \/ (told[1].says = "error" /\ pipeline.status.phase = "Failed")
  BY <1>3, <1>4 DEF IPP!Settled
<1>6. pipeline.status.phase = IPP!Aggregate(says)
  BY DEF IPP!Settled
<1>7. {says[i] : i \in DOMAIN says} = {told[1].says}
  BY <1>3
<1> HIDE DEF says, told
<1>8. CASE told[1].says = "error"
  BY <1>6, <1>7, <1>8, <1>5 DEF IPP!Aggregate
<1>9. CASE told[1].says = PhaseOf(vm)
  BY <1>6, <1>7, <1>9 DEF IPP!Aggregate, IPP!Model
<1> QED
  BY <1>5, <1>8, <1>9

(* The phase of a VoiceModel at rest. *)
LEMMA PodsTold ==
  ASSUME VMP!Settled
  PROVE  PhaseOf(vm) = "Ready" <=> Served
<1>1. CASE vm.uid = 0
  BY <1>1 DEF PhaseOf, Served, VM!Exists
<1>2. CASE vm.uid # 0
  <2> DEFINE d  == child["deployment"]
             st == VMP!StatusFor(vm, d)
  <2>1. d.owner = vm.uid /\ vm.status = st
    BY <1>2 DEF VMP!Settled, VMP!Exists, VMP!Kind
  <2>2. st.phase = "Ready" <=> d.ready >= Replicas[vm.spec]
    <3> HIDE DEF d
    <3> QED
      BY <1>2, <2>1 DEF VMP!StatusFor
  <2> HIDE DEF st
  <2> QED
    BY <1>2, <2>1, <2>2, Zenon DEF PhaseOf, Served, VM!Exists
<1> QED
  BY <1>1, <1>2

LEMMA RestIsRight == IInv => NothingLeftUndone
<1> SUFFICES ASSUME IInv, Quiet, ~swallowed, ~dropped, IP!Exists, ~pipeline.deleting
             PROVE  pipeline.status.phase = "Ready" <=> Served
  BY DEF NothingLeftUndone, TellsServed
<1>1. VMP!Quiet
  BY DEF Quiet, VMP!Quiet, VM!Object, VMP!Object, VM!Kind, VMP!Kind, VM!Missing, VMP!Missing
<1>2. VMP!Settled
  BY <1>1, VMBounds, VMP!RestIsRight DEF IInv, VMP!Wakeups, VMP!NoWakeupLost
<1>3. IPP!Quiet
  BY DEF Quiet, IP!Quiet, IPP!Quiet, IP!Idle, IPP!Idle
<1>4. IPP!Settled
  BY <1>3, IPBounds, IPP!RestIsRight DEF IInv, IPP!NoWakeupLost
<1>5. IPP!Exists
  BY DEF IP!Exists, IPP!Exists
<1>6. PhaseOf(vm) \in IPP!Model
  BY PhaseTyped DEF IInv, VMP!IInv, VMP!TypeOK
<1> QED
  BY <1>2, <1>4, <1>5, <1>6, StageTold, PodsTold DEF IInv

----------------------------------------------------------------------------
(* Between a pod and the pipeline's phase lie the caches of three          *)
(* informers, two Reconciles and mapVoiceModelToPipelines.  However they   *)
(* interleave, and whatever users, pods and failing calls do: when nothing *)
(* is left that would call either Reconcile, the pipeline says Ready just  *)
(* when its stage can be served, unless setPhase dropped an error or the   *)
(* map failed to list the pipelines.                                       *)
THEOREM WakeupsReachPipeline == Spec => []NothingLeftUndone
<1>1. IInv /\ [Next]_vars => IInv'
  BY NextStep
<1> QED
  BY InitStep, RestIsRight, <1>1, PTL DEF Spec

============================================================================
