----------------------- MODULE VoiceModelController -----------------------
(***************************************************************************)
(* The VoiceModel controller (operator/internal/controller/                *)
(* voicemodel_controller.go) for one VoiceModel name: Reconcile as its     *)
(* sequence of writes to the API server, each decided on what the caches   *)
(* hold, with users, the Deployment controller and the garbage collector   *)
(* around it.                                                              *)
(*                                                                         *)
(* Every read is from an informer cache and may be old.  A write carries   *)
(* the version that was read and is refused when that is not the current   *)
(* one; creating what exists is refused too.  Instead of version numbers   *)
(* the model keeps which caches, and whether Reconcile's copy of the       *)
(* VoiceModel, are current.  A spec is its version: 1 is the first spec    *)
(* ever given under the name, and the next is made by an edit or by        *)
(* deleting and creating again.                                            *)
(*                                                                         *)
(* The informers' resync comes every ten hours and is left out: what only  *)
(* a resync would repair counts as not repaired.                           *)
(***************************************************************************)
EXTENDS Naturals

CONSTANTS
  MaxSpec,     (* bound: specs given to VoiceModels of the name            *)
  Replicas,    (* spec.replicas of each spec                               *)
  MaxReady,    (* bound: pods that can be ready                            *)
  MaxEvents    (* bound: changes of the Deployment's pods, API calls that  *)
               (* fail, and restarts of the operator                       *)

ASSUME BoundsAssumption ==
  /\ MaxSpec \in Nat /\ MaxReady \in Nat /\ MaxEvents \in Nat
  /\ Replicas \in [1 .. MaxSpec -> Nat]

VARIABLES
  vm, child,       (* in the API server: the VoiceModel, its two children  *)
  vmCache, childCache, (* the informer caches                              *)
  current,         (* the objects of which the cache is up to date         *)
  pc, my,          (* Reconcile's next write, and its copy of the VoiceModel *)
  myCurrent,       (* the copy has the current resourceVersion             *)
  queued, timer,   (* the work queue holds the name; a RequeueAfter pends  *)
  specs, events,   (* how much of the bounds is used                       *)
  swallowed        (* history: an error was dropped and left no trace      *)

objects    == <<vm, child>>
controller == <<vmCache, childCache, current, pc, my, myCurrent, queued, timer>>
budgets    == <<specs, events>>
vars       == <<objects, controller, budgets, swallowed>>

Kind   == {"deployment", "service"}
Object == Kind \cup {"vm"}
Spec0  == 0 .. MaxSpec        (* 0: there is no such object *)

(* VoiceModelStatus: message tells which call failed and how, or that the  *)
(* pods cannot be created.                                                 *)
Status == [phase : {"", "Deploying", "Ready", "Failed"}, ready : 0 .. MaxReady,
           message : {"", "pods"} \cup Kind, error : {"", "exists", "conflict", "api"}]

(* uid: the spec version the VoiceModel was created with, which tells      *)
(* VoiceModels of the name apart.                                          *)
VoiceModel == [uid : Spec0, spec : Spec0, finalizer : BOOLEAN, deleting : BOOLEAN,
               status : Status]

(* ready and failing: the status of a Deployment (readyReplicas, condition *)
(* ReplicaFailure).                                                        *)
Child == [owner : Spec0, spec : Spec0, ready : 0 .. MaxReady, failing : BOOLEAN]

NoStatus == [phase |-> "", ready |-> 0, message |-> "", error |-> ""]
New(s)   == [uid |-> s, spec |-> s, finalizer |-> FALSE, deleting |-> FALSE,
             status |-> NoStatus]
Absent   == New(0)
NewChild(o, s) == [owner |-> o, spec |-> s, ready |-> 0, failing |-> FALSE]
NoChild  == NewChild(0, 0)

Exists == vm.uid # 0
Missing(k) == child[k].owner = 0

TypeOK ==
  /\ vm \in VoiceModel      /\ child \in [Kind -> Child]
  /\ vmCache \in VoiceModel /\ childCache \in [Kind -> Child]
  /\ current \subseteq Object
  /\ pc \in {"idle", "unfinalize", "finalize", "status", "failed"} \cup Kind
  /\ my \in VoiceModel      /\ myCurrent \in BOOLEAN
  /\ queued \in BOOLEAN     /\ timer \in BOOLEAN
  /\ specs \in Spec0 /\ events \in 0 .. MaxEvents
  /\ swallowed \in BOOLEAN

Init ==
  /\ vm = Absent      /\ child = [k \in Kind |-> NoChild]
  /\ vmCache = Absent /\ childCache = [k \in Kind |-> NoChild]
  /\ current = Object
  /\ pc = "idle"      /\ my = Absent /\ myCurrent = FALSE
  /\ queued = FALSE   /\ timer = FALSE
  /\ specs = 0 /\ events = 0
  /\ swallowed = FALSE

----------------------------------------------------------------------------
(* The controller.                                                         *)

(* Faulty variant: the finalizer is left for later. *)
BeginUnfinalized ==
  /\ pc = "idle" /\ queued
  /\ queued' = FALSE
  /\ my' = vmCache /\ myCurrent' = ("vm" \in current)
  /\ vmCache.uid # 0 /\ pc' = IF vmCache.deleting THEN "unfinalize" ELSE "deployment"
  /\ UNCHANGED <<objects, vmCache, childCache, current, timer, budgets, swallowed>>

(* Reconcile up to its first write.                                        *)
Begin ==
  /\ pc = "idle" /\ queued
  /\ queued' = FALSE
  /\ IF vmCache.uid = 0 THEN UNCHANGED <<pc, my, myCurrent>>
     ELSE /\ my' = vmCache /\ myCurrent' = ("vm" \in current)
          /\ pc' = IF vmCache.deleting THEN "unfinalize"
                   ELSE IF vmCache.finalizer THEN "deployment" ELSE "finalize"
  /\ UNCHANGED <<objects, vmCache, childCache, current, timer, budgets, swallowed>>

(* Reconcile returns, and its copy is gone; with an error, the name is     *)
(* queued again.                                                           *)
Return      == pc' = "idle" /\ my' = Absent /\ myCurrent' = FALSE
ReturnError == Return /\ queued' = TRUE

(* reconcileDelete.  With its last finalizer a deleted object goes.        *)
RemoveFinalizer ==
  /\ pc = "unfinalize"
  /\ \/ /\ myCurrent
        /\ vm' = Absent
        /\ current' = current \ {"vm"}
        /\ Return /\ UNCHANGED queued
     \/ /\ ~myCurrent
        /\ ReturnError /\ UNCHANGED <<vm, current>>
  /\ UNCHANGED <<child, vmCache, childCache, timer, budgets, swallowed>>

(* The answer to the update brings the copy up to date.                    *)
AddFinalizer ==
  /\ pc = "finalize"
  /\ \/ /\ myCurrent
        /\ my' = [my EXCEPT !.finalizer = TRUE]
        /\ vm' = my'
        /\ current' = current \ {"vm"}
        /\ pc' = "deployment" /\ UNCHANGED <<myCurrent, queued>>
     \/ /\ ~myCurrent
        /\ ReturnError /\ UNCHANGED <<vm, current>>
  /\ UNCHANGED <<child, vmCache, childCache, timer, budgets, swallowed>>

(* Faulty variant: a phase the CRD's enum lacks. *)
FailError(k, e) ==
  /\ my' = [my EXCEPT !.status.phase = "Error", !.status.message = k, !.status.error = e]
  /\ pc' = "failed"
  /\ UNCHANGED <<child, current>>

(* The copy m with the error of writing child k as its status.             *)
Failed(m, k, e) ==
  [m EXCEPT !.status = [@ EXCEPT !.phase = "Failed", !.message = k, !.error = e]]

(* An error in writing child k becomes the status; Reconcile goes on to    *)
(* write it and, if that succeeds, returns none.                           *)
Fail(k, e) ==
  /\ my' = Failed(my, k, e)
  /\ pc' = "failed"
  /\ UNCHANGED <<child, current>>

(* Faulty variant: a child that exists is left as it is. *)
ApplyCreating(k) ==
  /\ pc = k
  /\ \/ /\ childCache[k].owner = 0 /\ ~Missing(k)
        /\ Fail(k, "exists")
     \/ /\ childCache[k].owner = 0 => Missing(k)
        /\ IF childCache[k].owner = 0
           THEN child' = [child EXCEPT ![k] = NewChild(my.uid, my.spec)]
           ELSE UNCHANGED child
        /\ current' = IF child' = child THEN current ELSE current \ {k}
        /\ pc' = IF k = "deployment" THEN "service" ELSE "status"
        /\ UNCHANGED my
  /\ UNCHANGED <<vm, vmCache, childCache, myCurrent, queued, timer, budgets, swallowed>>

(* reconcileDeployment, reconcileService: create what the cache lacks,     *)
(* otherwise overwrite its spec; the owner of an existing child stays.     *)
Apply(k) ==
  /\ pc = k
  /\ \/ /\ childCache[k].owner = 0 /\ ~Missing(k)
        /\ Fail(k, "exists")
     \/ /\ childCache[k].owner # 0 /\ k \notin current
        /\ Fail(k, "conflict")
     \/ /\ \/ /\ childCache[k].owner = 0 /\ Missing(k)
              /\ child' = [child EXCEPT ![k] = NewChild(my.uid, my.spec)]
           \/ /\ childCache[k].owner # 0 /\ k \in current
              /\ child' = [child EXCEPT ![k].spec = my.spec]
        /\ current' = IF child' = child THEN current ELSE current \ {k}
        /\ pc' = IF k = "deployment" THEN "service" ELSE "status"
        /\ UNCHANGED my
  /\ UNCHANGED <<vm, vmCache, childCache, myCurrent, queued, timer, budgets, swallowed>>

(* updateStatus: the status of VoiceModel v next to Deployment d.          *)
StatusFor(v, d) ==
  IF d.owner = 0 THEN [v.status EXCEPT !.phase = "Deploying", !.message = "", !.error = ""]
  ELSE [ready   |-> d.ready, error |-> "",
        message |-> IF d.ready < Replicas[v.spec] /\ d.ready = 0 /\ d.failing
                    THEN "pods" ELSE "",
        phase   |-> IF d.ready >= Replicas[v.spec] THEN "Ready"
                    ELSE IF d.ready = 0 /\ d.failing THEN "Failed" ELSE "Deploying"]

(* Faulty variant: the status is patched without a resourceVersion. *)
SetPhaseUnversioned(s) ==
  /\ vm' = IF Exists THEN [vm EXCEPT !.status = s] ELSE vm
  /\ current' = IF vm' = vm THEN current ELSE current \ {"vm"}
  /\ timer' = (timer \/ s.phase = "Deploying")
  /\ Return /\ UNCHANGED <<queued, child, vmCache, childCache, budgets>>

(* setPhase: writes status s.  A write that changes nothing makes no new   *)
(* version and so no event.                                                *)
SetPhase(s) ==
  /\ \/ /\ myCurrent
        /\ vm' = [my EXCEPT !.status = s]
        /\ current' = IF vm' = vm THEN current ELSE current \ {"vm"}
        /\ timer' = (timer \/ s.phase = "Deploying")
        /\ Return /\ UNCHANGED queued
     \/ /\ ~myCurrent
        /\ ReturnError /\ UNCHANGED <<vm, current, timer>>
  /\ UNCHANGED <<child, vmCache, childCache, budgets>>

UpdateStatus ==
  /\ pc = "status"
  /\ SetPhase(StatusFor(my, childCache["deployment"]))
  /\ swallowed' = (swallowed /\ ~myCurrent)

ReportFailure ==
  /\ pc = "failed"
  /\ SetPhase(my.status)
  /\ swallowed' = (swallowed \/ (myCurrent /\ vm' = vm))

Event == events < MaxEvents /\ events' = events + 1

(* An API call fails.                                                      *)
CallFails ==
  /\ Event
  /\ \/ /\ pc \in Kind /\ Fail(pc, "api")
        /\ UNCHANGED <<queued, myCurrent>>
     \/ /\ pc \notin Kind \cup {"idle"} /\ ReturnError
        /\ UNCHANGED <<child, current>>
  /\ UNCHANGED <<vm, vmCache, childCache, timer, specs, swallowed>>

(* The operator stops anywhere and starts again: the caches are filled     *)
(* anew, and every object in them is queued.                               *)
Restart ==
  /\ Event
  /\ Return
  /\ vmCache' = vm /\ childCache' = child /\ current' = Object
  /\ queued' = TRUE /\ timer' = FALSE
  /\ UNCHANGED <<objects, specs, swallowed>>

(* The watch brings the cache of object o up to date and queues the name   *)
(* (For, Owns).                                                            *)
Sync(o) ==
  /\ o \notin current
  /\ current' = current \cup {o}
  /\ IF o = "vm" THEN vmCache' = vm /\ UNCHANGED childCache
                 ELSE childCache' = [childCache EXCEPT ![o] = child[o]] /\ UNCHANGED vmCache
  /\ queued' = TRUE
  /\ UNCHANGED <<objects, pc, my, myCurrent, timer, budgets, swallowed>>

TimerFires ==
  /\ timer
  /\ timer' = FALSE /\ queued' = TRUE
  /\ UNCHANGED <<objects, vmCache, childCache, current, pc, my, myCurrent, budgets, swallowed>>

----------------------------------------------------------------------------
(* The others.                                                             *)

SetVM(v) ==
  /\ vm' = v
  /\ current' = current \ {"vm"} /\ myCurrent' = FALSE
  /\ UNCHANGED <<child, vmCache, childCache, pc, my, queued, timer, events, swallowed>>

CreateVM ==
  /\ ~Exists /\ specs < MaxSpec
  /\ specs' = specs + 1
  /\ SetVM(New(specs + 1))

EditSpec ==
  /\ Exists /\ specs < MaxSpec
  /\ specs' = specs + 1
  /\ SetVM([vm EXCEPT !.spec = specs + 1])

DeleteVM ==
  /\ Exists /\ ~vm.deleting
  /\ SetVM(IF vm.finalizer THEN [vm EXCEPT !.deleting = TRUE] ELSE Absent)
  /\ UNCHANGED specs

SetChild(k, c) ==
  /\ child' = [child EXCEPT ![k] = c]
  /\ current' = current \ {k}
  /\ UNCHANGED <<vm, vmCache, childCache, pc, my, myCurrent, queued, timer, specs,
                 swallowed>>

(* The Deployment controller reports what has become of the pods; whether  *)
(* they can be created is only asked when none is ready.                   *)
PodsChange ==
  /\ ~Missing("deployment") /\ Event
  /\ \E n \in 0 .. MaxReady, f \in BOOLEAN :
       /\ child["deployment"].ready # n \/ child["deployment"].failing # f
       /\ f => n = 0
       /\ SetChild("deployment", [child["deployment"] EXCEPT !.ready = n, !.failing = f])

(* The garbage collector removes a child whose owner is gone.              *)
Collect(k) ==
  /\ ~Missing(k) /\ child[k].owner # vm.uid
  /\ SetChild(k, NoChild)
  /\ UNCHANGED events

----------------------------------------------------------------------------
Reconcile ==
  \/ Begin \/ RemoveFinalizer \/ AddFinalizer
  \/ (\E k \in Kind : Apply(k)) \/ UpdateStatus \/ ReportFailure

Next ==
  \/ Reconcile \/ CallFails \/ Restart \/ (\E o \in Object : Sync(o)) \/ TimerFires
  \/ CreateVM \/ EditSpec \/ DeleteVM \/ PodsChange \/ (\E k \in Kind : Collect(k))

(* The controller and its watches keep running, timers fire, the garbage   *)
(* collector collects.                                                     *)
Fairness ==
  /\ WF_vars(Reconcile) /\ WF_vars(TimerFires)
  /\ WF_vars(\E o \in Object : Sync(o))
  /\ WF_vars(\E k \in Kind : Collect(k))

Spec == Init /\ [][Next]_vars /\ Fairness

----------------------------------------------------------------------------
(* Properties.                                                             *)

(* Reconcile adds its finalizer before it makes anything, so a VoiceModel  *)
(* with children never goes without passing through reconcileDelete.       *)
OwnedHasFinalizer ==
  \A k \in Kind : Exists /\ child[k].owner = vm.uid => vm.finalizer

(* A status written by updateStatus is about the spec the VoiceModel then  *)
(* has: both children have been brought to it (or are gone), although      *)
(* Reconcile read the VoiceModel some writes ago.                          *)
StatusOfThisSpec ==
  [][vm'.uid = vm.uid /\ vm'.status # vm.status /\ vm'.status.error = "" =>
       \A k \in Kind : Missing(k) \/ child[k].spec = vm.spec]_vars

(* Once users, pods and troubles leave it alone, the system comes to rest: *)
(* both children have the VoiceModel's spec and the status is that of the  *)
(* Deployment, or all three are gone.                                      *)
Settled ==
  IF Exists
  THEN /\ ~vm.deleting
       /\ \A k \in Kind : child[k].owner = vm.uid /\ child[k].spec = vm.spec
       /\ vm.status = StatusFor(vm, child["deployment"])
  ELSE \A k \in Kind : Missing(k)

(* ... unless a child could not be written and the status already said so: *)
(* then setPhase returns no error and writes nothing, and nothing calls    *)
(* Reconcile again.                                                        *)
Converges == <>[](Settled \/ swallowed)
============================================================================
