-------------------- MODULE InferencePipelineController --------------------
(***************************************************************************)
(* The InferencePipeline controller (operator/internal/controller/         *)
(* inferencepipeline_controller.go) for one pipeline: Reconcile resolves   *)
(* the stages one after another against a cache of VoiceModels that        *)
(* changes meanwhile, and writes what it found as the pipeline's status.   *)
(* It is woken by its own informer, by a timer, and by VoiceModels through *)
(* mapVoiceModelToPipelines, which asks the cache of pipelines which of    *)
(* them refer to the model.                                                *)
(*                                                                         *)
(* An informer first changes its cache and calls the handlers some time    *)
(* after.  As in VoiceModelController, a write is refused when the copy it *)
(* is made from is not the current version, and one that changes nothing   *)
(* makes no version and no event; the ten-hourly resync is left out.       *)
(* Names, endpoints and messages are copied or computed from what is       *)
(* kept and are left out.                                                  *)
(***************************************************************************)
EXTENDS Naturals, Sequences

CONSTANTS
  Models,      (* names of VoiceModels in the namespace                    *)
  Specs,       (* what users may write as the spec of the pipeline         *)
  Waiting,     (* the phases of a VoiceModel other than Ready, which only  *)
               (* the message tells apart                                  *)
  MaxEdits,    (* bound: creations, edits and deletions of the pipeline    *)
  MaxChanges,  (* bound: changes of VoiceModels                            *)
  MaxTroubles  (* bound: reads and writes that fail, restarts              *)

Stage == [model : Models, enabled : BOOLEAN]

ASSUME BoundsAssumption ==
  /\ MaxEdits \in Nat /\ MaxChanges \in Nat /\ MaxTroubles \in Nat
  /\ Specs \subseteq Seq(Stage) \ {<<>>}
  /\ Waiting \cap {"missing", "Ready", "disabled", "error"} = {}

VARIABLES
  models, pipeline,           (* in the API server                         *)
  modelCache, pipelineCache,  (* the informer caches                       *)
  cacheCurrent,               (* pipelineCache is the current version      *)
  pending,                    (* VoiceModels whose change is in the cache  *)
                              (* but has not reached the handler           *)
  my, found,                  (* Reconcile's copy of the spec, and what it *)
                              (* found of the first stages                 *)
  myCurrent,                  (* the copy has the current resourceVersion  *)
  queued, timer,              (* the work queue holds the name; a          *)
                              (* RequeueAfter pends                        *)
  edits, changes, troubles,   (* how much of the bounds is used            *)
  dropped                     (* history: a wake-up was lost, and none     *)
                              (* came since                                *)

objects    == <<models, pipeline>>
caches     == <<modelCache, pipelineCache, cacheCurrent>>
reconciler == <<my, found, myCurrent>>
budgets    == <<edits, changes, troubles>>
vars == <<objects, caches, pending, reconciler, queued, timer, budgets, dropped>>

(* A VoiceModel is its phase, or missing.                                  *)
Model == {"missing", "Ready"} \cup Waiting

(* What the status says of a stage: its VoiceModel's phase, or else.       *)
Finding == Model \cup {"disabled", "error"}

Entry  == [model : Models, says : Finding]
Status == [phase : {"", "Validating", "Ready", "Degraded", "Failed"}, stages : Seq(Entry)]

(* No pipeline has no stages, so <<>> is the spec of none.                 *)
Pipeline == [spec : Specs \cup {<<>>}, deleting : BOOLEAN, status : Status]

New(s) == [spec |-> s, deleting |-> FALSE, status |-> [phase |-> "", stages |-> <<>>]]
Absent == New(<<>>)
Exists == pipeline.spec # <<>>
Idle   == my = <<>>

(* Faulty variant: only the first stage is looked at. *)
RefersFirst(s, m) == s # <<>> /\ s[1].model = m

(* A stage of spec s is on VoiceModel m, be it enabled or not.             *)
Refers(s, m) == \E i \in DOMAIN s : s[i].model = m

TypeOK ==
  /\ models \in [Models -> Model] /\ modelCache \in [Models -> Model]
  /\ pipeline \in Pipeline        /\ pipelineCache \in Pipeline
  /\ cacheCurrent \in BOOLEAN     /\ pending \subseteq Models
  /\ my \in Specs \cup {<<>>}     /\ myCurrent \in BOOLEAN
  /\ found \in Seq(Finding)       /\ Len(found) <= Len(my)
  /\ queued \in BOOLEAN           /\ timer \in BOOLEAN
  /\ edits \in 0 .. MaxEdits /\ changes \in 0 .. MaxChanges
  /\ troubles \in 0 .. MaxTroubles
  /\ dropped \in BOOLEAN

(* The operator has just started: the caches are filled, and for every     *)
(* object in them the handlers are called.                                 *)
Init ==
  /\ models \in [Models -> Model]             /\ modelCache = models
  /\ pipeline \in {New(s) : s \in Specs \cup {<<>>}} /\ pipelineCache = pipeline
  /\ cacheCurrent = TRUE
  /\ pending = {m \in Models : models[m] # "missing"}
  /\ my = <<>> /\ found = <<>> /\ myCurrent = FALSE
  /\ queued = Exists /\ timer = FALSE
  /\ edits = 0 /\ changes = 0 /\ troubles = 0
  /\ dropped = FALSE

Trouble == troubles < MaxTroubles /\ troubles' = troubles + 1

----------------------------------------------------------------------------
(* The controller.                                                         *)

(* Reconcile up to the first stage.                                        *)
Begin ==
  /\ Idle /\ queued
  /\ queued' = FALSE
  /\ IF pipelineCache.spec = <<>> \/ pipelineCache.deleting THEN UNCHANGED <<my, myCurrent>>
     ELSE my' = pipelineCache.spec /\ myCurrent' = cacheCurrent
  /\ dropped' = FALSE
  /\ UNCHANGED <<objects, caches, pending, found, timer, budgets>>

(* One turn of the loop over the stages, with resolveStage.  An error of   *)
(* the read is told as that stage's state, and the loop goes on.           *)
ResolveStage ==
  /\ Len(found) < Len(my)
  /\ LET stage == my[Len(found) + 1] IN
       \/ /\ found' = Append(found, IF stage.enabled THEN modelCache[stage.model] ELSE "disabled")
          /\ UNCHANGED troubles
       \/ /\ stage.enabled /\ Trouble
          /\ found' = Append(found, "error")
  /\ UNCHANGED <<objects, caches, pending, my, myCurrent, queued, timer, edits, changes, dropped>>

(* The phase of stages of which fs was found: only enabled ones count.     *)
Aggregate(fs) ==
  LET says == {fs[i] : i \in DOMAIN fs} \ {"disabled"} IN
  IF "missing" \in says        THEN "Failed"
  ELSE IF says \subseteq {"Ready"} THEN "Ready"
  ELSE IF "Ready" \in says     THEN "Degraded" ELSE "Validating"

(* The status that Reconcile computes for spec s.                          *)
StatusFor(s, fs) ==
  [phase |-> Aggregate(fs), stages |-> [i \in DOMAIN s |-> [model |-> s[i].model, says |-> fs[i]]]]

(* Faulty variant: the slice of findings is kept for the next time. *)
ReturnKeeping == my' = <<>> /\ myCurrent' = FALSE /\ UNCHANGED found

Return == my' = <<>> /\ found' = <<>> /\ myCurrent' = FALSE

(* Faulty variant: the status is patched without a resourceVersion. *)
AcceptedAlways == Exists

(* The API server takes the update of the status.                          *)
Accepted == myCurrent

(* Faulty variant: each write has the time of day in it. *)
IsNewAlways(s) == TRUE

(* Writing s makes a new version: LastTransitionTime is only set when the  *)
(* phase changes.                                                          *)
IsNew(s) == s # pipeline.status

(* Faulty variant: a pipeline that is partly ready is left to events. *)
RequeuesNoneReady(phase) == phase = "Validating"

Requeues(phase) == phase \notin {"Ready", "Failed"}

(* setPipelineStatus.                                                      *)
SetPipelineStatus ==
  /\ ~Idle /\ Len(found) = Len(my)
  /\ LET s == StatusFor(my, found) IN
       \/ /\ Accepted
          /\ pipeline' = [pipeline EXCEPT !.status = s]
          /\ cacheCurrent' = (cacheCurrent /\ ~IsNew(s))
          /\ timer' = (timer \/ Requeues(s.phase))
          /\ UNCHANGED <<queued, troubles>>
       \/ /\ \/ ~Accepted /\ UNCHANGED troubles
             \/ Trouble
          /\ queued' = TRUE
          /\ UNCHANGED <<pipeline, cacheCurrent, timer>>
  /\ Return
  /\ UNCHANGED <<models, modelCache, pipelineCache, pending, edits, changes, dropped>>

(* The pipeline's informer brings its cache up to date and queues it.      *)
SyncPipeline ==
  /\ ~cacheCurrent
  /\ cacheCurrent' = TRUE /\ pipelineCache' = pipeline
  /\ queued' = TRUE
  /\ UNCHANGED <<objects, modelCache, pending, reconciler, timer, budgets, dropped>>

(* The VoiceModels' informer brings the cache of m up to date.             *)
SyncModel(m) ==
  /\ modelCache[m] # models[m]
  /\ modelCache' = [modelCache EXCEPT ![m] = models[m]]
  /\ pending' = pending \cup {m}
  /\ UNCHANGED <<objects, pipelineCache, cacheCurrent, reconciler, queued, timer, budgets, dropped>>

(* mapVoiceModelToPipelines for a change of m: it queues the pipeline if   *)
(* the cached one refers to m; if pipelines cannot be listed, none.        *)
Deliver(m) ==
  /\ m \in pending
  /\ pending' = pending \ {m}
  /\ \/ /\ queued' = (queued \/ Refers(pipelineCache.spec, m))
        /\ UNCHANGED <<troubles, dropped>>
     \/ /\ Trouble
        /\ dropped' = (dropped \/ Refers(pipelineCache.spec, m))
        /\ UNCHANGED queued
  /\ UNCHANGED <<objects, caches, reconciler, timer, edits, changes>>

TimerFires ==
  /\ timer
  /\ timer' = FALSE /\ queued' = TRUE
  /\ UNCHANGED <<objects, caches, pending, reconciler, budgets, dropped>>

(* The operator stops anywhere and starts again: the caches are filled     *)
(* anew, and for every object in them the handlers are called.             *)
Restart ==
  /\ Trouble
  /\ Return
  /\ modelCache' = models /\ pipelineCache' = pipeline /\ cacheCurrent' = TRUE
  /\ pending' = {m \in Models : models[m] # "missing"}
  /\ queued' = Exists /\ timer' = FALSE
  /\ dropped' = FALSE
  /\ UNCHANGED <<objects, edits, changes>>

----------------------------------------------------------------------------
(* The others.                                                             *)

(* Users write the pipeline.                                               *)
SetPipeline(p) ==
  /\ edits < MaxEdits /\ edits' = edits + 1
  /\ pipeline' = p
  /\ cacheCurrent' = FALSE /\ myCurrent' = FALSE
  /\ UNCHANGED <<models, modelCache, pipelineCache, pending, my, found, queued, timer, changes,
                 troubles, dropped>>

CreatePipeline == ~Exists /\ \E s \in Specs : SetPipeline(New(s))

EditPipeline ==
  Exists /\ \E s \in Specs \ {pipeline.spec} : SetPipeline([pipeline EXCEPT !.spec = s])

(* It goes at once, or stays until a foreground deletion is over.          *)
DeletePipeline ==
  \/ Exists /\ SetPipeline(Absent)
  \/ Exists /\ ~pipeline.deleting /\ SetPipeline([pipeline EXCEPT !.deleting = TRUE])

(* A VoiceModel is created before it is Ready or Failed; its controller    *)
(* moves it between phases, and it may be deleted in any.                  *)
ModelChanges(m) ==
  /\ changes < MaxChanges /\ changes' = changes + 1
  /\ \E p \in Model \ {models[m]} :
       /\ models[m] = "missing" => p \in Waiting
       /\ models' = [models EXCEPT ![m] = p]
  /\ UNCHANGED <<pipeline, caches, pending, reconciler, queued, timer, edits, troubles, dropped>>

----------------------------------------------------------------------------
Reconcile == Begin \/ ResolveStage \/ SetPipelineStatus

Informers == SyncPipeline \/ \E m \in Models : SyncModel(m) \/ Deliver(m)

Users == CreatePipeline \/ EditPipeline \/ DeletePipeline

Next ==
  \/ Reconcile \/ Informers \/ TimerFires \/ Restart
  \/ Users \/ (\E m \in Models : ModelChanges(m))

(* The controller and its informers keep running, and timers fire.         *)
Fairness == WF_vars(Reconcile) /\ WF_vars(Informers) /\ WF_vars(TimerFires)

Spec == Init /\ [][Next]_vars /\ Fairness

----------------------------------------------------------------------------
(* Properties.                                                             *)

(* A status is about the spec the pipeline has when it is written, though  *)
(* Reconcile read the spec as many reads of VoiceModels ago.               *)
StatusOfThisSpec ==
  [][pipeline'.status # pipeline.status /\ pipeline'.spec # <<>> =>
       /\ Len(pipeline'.status.stages) = Len(pipeline.spec)
       /\ \A i \in DOMAIN pipeline.spec :
            pipeline'.status.stages[i].model = pipeline.spec[i].model]_vars

(* What the status should say of stage i.                                  *)
Truth(i) ==
  IF pipeline.spec[i].enabled THEN models[pipeline.spec[i].model] ELSE "disabled"

(* The status tells the stages' state, except that a stage which could not *)
(* be read stays so beside one that is missing: Failed sets no timer.      *)
Settled ==
  Exists /\ ~pipeline.deleting =>
    LET s == pipeline.status IN
    /\ Len(s.stages) = Len(pipeline.spec)
    /\ s.phase = Aggregate([i \in DOMAIN s.stages |-> s.stages[i].says])
    /\ \A i \in DOMAIN s.stages :
         /\ s.stages[i].model = pipeline.spec[i].model
         /\ \/ s.stages[i].says = Truth(i)
            \/ s.stages[i].says = "error" /\ s.phase = "Failed"

(* Nothing is under way that would wake the controller.                    *)
Quiet ==
  /\ Idle /\ ~queued /\ ~timer
  /\ cacheCurrent /\ pending = {} /\ modelCache = models

(* No wake-up is lost between the informers' caches, the map from          *)
(* VoiceModels to pipelines, and a Reconcile already under way: when       *)
(* nothing is left to do, the status is right.                             *)
NoWakeupLost == Quiet => Settled \/ dropped

(* Once users, VoiceModels and troubles leave it alone, the status gets    *)
(* right and stays so, also while the timer keeps the controller going.    *)
Converges == <>[](Settled \/ dropped)

(* ... and a pipeline that is Ready or Failed is left alone: writing its   *)
(* status does not wake the controller for ever.                           *)
Rests == <>[](Quiet \/ pipeline.status.phase \in {"Degraded", "Validating"})
============================================================================
