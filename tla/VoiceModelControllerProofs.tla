-------------------- MODULE VoiceModelControllerProofs --------------------
(***************************************************************************)
(* Theorems about VoiceModelController, for any specs, replicas and bounds: *)
(* its variables keep their types, nothing is made for a VoiceModel        *)
(* without finalizer, a status is about the spec of its VoiceModel, and no *)
(* wake-up is lost.                                                        *)
(***************************************************************************)
EXTENDS VoiceModelController, TLAPS

(* A VoiceModel's uid is a spec already given, so a new one is told from   *)
(* every trace of the old ones.                                            *)
KnownUids ==
  /\ vm.uid <= specs /\ vmCache.uid <= specs /\ my.uid <= specs
  /\ \A k \in Kind : child[k].owner <= specs

(* A current cache is the object.  Of an older one only this is known: a   *)
(* finalizer seen is still there, as long as it is the same VoiceModel.    *)
CacheSound ==
  /\ "vm" \in current => vmCache = vm
  /\ \A k \in Kind : k \in current => childCache[k] = child[k]
  /\ Exists /\ vmCache.finalizer /\ vmCache.uid = vm.uid => vm.finalizer

Applying == pc \in Kind \cup {"status", "failed"}

(* What is known of the copy, whether it is still current or not, ...      *)
CopySound ==
  /\ pc # "idle" => my.uid # 0
  /\ Applying /\ my.uid = vm.uid => vm.finalizer
  /\ pc = "failed" => my.status.error # ""

(* ... and if it is: it is the VoiceModel, and the children written so far *)
(* have its spec.                                                          *)
Applied(k) == Missing(k) \/ child[k].spec = my.spec
CurrentCopy ==
  myCurrent /\ pc # "idle" =>
    /\ my.uid = vm.uid /\ my.finalizer = vm.finalizer
    /\ pc # "failed" => my = vm
    /\ pc \in {"service", "status"} => Applied("deployment")
    /\ pc = "status" => Applied("service")

Inv  == KnownUids /\ CacheSound /\ CopySound /\ CurrentCopy /\ OwnedHasFinalizer
IInv == TypeOK /\ Inv

(* StatusOfThisSpec of one step. *)
About ==
  vm'.uid = vm.uid /\ vm'.status # vm.status /\ vm'.status.error = "" =>
    \A k \in Kind : Missing(k) \/ child[k].spec = vm.spec

----------------------------------------------------------------------------
(* The records the actions make.                                           *)

LEMMA ZeroSpec == 0 \in Spec0 /\ 0 \in 0 .. MaxReady /\ 0 \in 0 .. MaxEvents
BY BoundsAssumption DEF Spec0

LEMMA NewTyped ==
  ASSUME NEW s \in Spec0
  PROVE  /\ New(s) \in VoiceModel /\ New(s).uid = s /\ ~New(s).finalizer
         /\ ~New(s).deleting /\ New(s).spec = s
<1>1. NoStatus \in Status
  BY ZeroSpec DEF NoStatus, Status
<1> QED
  BY <1>1 DEF New, VoiceModel

LEMMA AbsentTyped ==
  Absent \in VoiceModel /\ Absent.uid = 0 /\ ~Absent.finalizer
BY ZeroSpec, NewTyped DEF Absent

LEMMA NewChildTyped ==
  ASSUME NEW o \in Spec0, NEW s \in Spec0
  PROVE  /\ NewChild(o, s) \in Child
         /\ NewChild(o, s).owner = o /\ NewChild(o, s).spec = s
BY ZeroSpec DEF NewChild, Child

LEMMA NoChildTyped == NoChild \in Child /\ NoChild.owner = 0
BY ZeroSpec, NewChildTyped DEF NoChild

LEMMA FailedTyped ==
  ASSUME NEW m \in VoiceModel, NEW k \in Kind, NEW e \in {"exists", "conflict", "api"}
  PROVE  /\ Failed(m, k, e) \in VoiceModel /\ Failed(m, k, e).status.error # ""
         /\ Failed(m, k, e).uid = m.uid /\ Failed(m, k, e).finalizer = m.finalizer
         /\ Failed(m, k, e).spec = m.spec /\ Failed(m, k, e).deleting = m.deleting
<1> DEFINE t == [m.status EXCEPT !.phase = "Failed", !.message = k, !.error = e]
<1>1. m.status \in Status
  BY DEF VoiceModel
<1>2. t \in Status /\ t.error # ""
  BY <1>1 DEF Status
<1>3. Failed(m, k, e) = [m EXCEPT !.status = t]
  BY DEF Failed, VoiceModel
<1> HIDE DEF t
<1> QED
  BY <1>2, <1>3 DEF VoiceModel

LEMMA StatusForTyped ==
  ASSUME NEW v \in VoiceModel, NEW d \in Child
  PROVE  StatusFor(v, d) \in Status
<1>1. v.status \in Status
  BY DEF VoiceModel
<1>2. [v.status EXCEPT !.phase = "Deploying", !.message = "", !.error = ""] \in Status
  BY <1>1 DEF Status
<1>3. ASSUME NEW g \in {"", "pods"}, NEW p \in {"Ready", "Failed", "Deploying"}
      PROVE  [ready |-> d.ready, error |-> "", message |-> g, phase |-> p] \in Status
  BY DEF Status, Child
<1> QED
  BY <1>2, <1>3 DEF StatusFor

LEMMA TypeStep == TypeOK /\ [Next]_vars => TypeOK'
<1> SUFFICES ASSUME TypeOK, [Next]_vars PROVE TypeOK'
  OBVIOUS
<1> USE DEF TypeOK, objects, controller, budgets
<1>0. my.uid \in Spec0 /\ my.spec \in Spec0
  BY DEF VoiceModel
<1>a. events < MaxEvents => events + 1 \in 0 .. MaxEvents
  BY BoundsAssumption
<1>b. specs < MaxSpec => specs + 1 \in Spec0
  BY BoundsAssumption DEF Spec0
<1>1. CASE Begin
  <2>1. ("vm" \in current) \in BOOLEAN
    OBVIOUS
  <2>2. my' \in VoiceModel /\ myCurrent' \in BOOLEAN
    BY <1>1, <2>1 DEF Begin
  <2>3. pc' \in {"idle", "unfinalize", "finalize"} \cup Kind \cup {pc}
    BY <1>1 DEF Begin, Kind
  <2> QED
    BY <1>1, <2>2, <2>3 DEF Begin
<1>2. CASE RemoveFinalizer
  BY <1>2, AbsentTyped DEF RemoveFinalizer, ReturnError, Return
<1>3. CASE AddFinalizer
  <2>1. [my EXCEPT !.finalizer = TRUE] \in VoiceModel
    BY DEF VoiceModel
  <2>2. vm' \in VoiceModel /\ my' \in VoiceModel
    BY <1>3, <2>1, AbsentTyped DEF AddFinalizer, ReturnError, Return
  <2>3. pc' \in {"deployment", "idle"} /\ queued' \in BOOLEAN /\ myCurrent' \in BOOLEAN
    BY <1>3 DEF AddFinalizer, ReturnError, Return
  <2> QED
    BY <1>3, <2>2, <2>3 DEF AddFinalizer, Kind
<1>4. ASSUME NEW k \in Kind, Apply(k) PROVE TypeOK'
  <2>1. child' \in [Kind -> Child]
    <3>1. [child[k] EXCEPT !.spec = my.spec] \in Child
      BY <1>0 DEF Child
    <3>2. NewChild(my.uid, my.spec) \in Child
      BY <1>0, NewChildTyped
    <3> QED
      BY <1>4, <3>1, <3>2 DEF Apply, Fail
  <2>2. my' \in VoiceModel
    <3>1. \/ my' = my
          \/ my' = Failed(my, k, "exists") \/ my' = Failed(my, k, "conflict")
      BY <1>4 DEF Apply, Fail
    <3>2. Failed(my, k, "exists") \in VoiceModel /\ Failed(my, k, "conflict") \in VoiceModel
      BY FailedTyped
    <3> QED
      BY <3>1, <3>2
  <2>3. current' \subseteq Object /\ pc' \in {"service", "status", "failed"}
    BY <1>4 DEF Apply, Fail
  <2> QED
    BY <1>4, <2>1, <2>2, <2>3 DEF Apply, Kind
<1>5. ASSUME NEW t \in Status, SetPhase(t), swallowed' \in BOOLEAN PROVE TypeOK'
  <2>1. [my EXCEPT !.status = t] \in VoiceModel
    BY <1>5 DEF VoiceModel
  <2>2. vm' \in VoiceModel /\ current' \subseteq Object
    BY <1>5, <2>1 DEF SetPhase
  <2> QED
    BY <1>5, <2>2, AbsentTyped DEF SetPhase, ReturnError, Return
<1>6. CASE UpdateStatus
  <2>1. StatusFor(my, childCache["deployment"]) \in Status
    BY StatusForTyped DEF Kind
  <2> QED
    BY <1>5, <1>6, <2>1 DEF UpdateStatus
<1>7. CASE ReportFailure
  <2>1. my.status \in Status
    BY DEF VoiceModel
  <2> QED
    BY <1>5, <1>7, <2>1 DEF ReportFailure
<1>8. CASE CallFails
  <2>1. my' = Absent \/ \E k \in Kind : my' = Failed(my, k, "api")
    BY <1>8 DEF CallFails, Fail, ReturnError, Return
  <2>2. my' \in VoiceModel /\ pc' \in {"idle", "failed"}
    BY <1>8, <2>1, FailedTyped, AbsentTyped DEF CallFails, Fail, ReturnError, Return
  <2> QED
    BY <1>8, <1>a, <2>2 DEF CallFails, Event, Fail, ReturnError, Return
<1>9. CASE Restart
  BY <1>9, <1>a, AbsentTyped DEF Restart, Event, Return
<1>10. ASSUME NEW o \in Object, Sync(o) PROVE TypeOK'
  <2>1. childCache' \in [Kind -> Child] /\ vmCache' \in VoiceModel
    BY <1>10 DEF Sync, Object
  <2> QED
    BY <1>10, <2>1 DEF Sync
<1>11. CASE TimerFires
  BY <1>11 DEF TimerFires
<1>12. ASSUME NEW v \in VoiceModel, SetVM(v), specs' \in Spec0 PROVE TypeOK'
  BY <1>12 DEF SetVM
<1>13. CASE CreateVM
  BY <1>12, <1>13, <1>b, NewTyped DEF CreateVM
<1>14. CASE EditSpec
  <2>1. [vm EXCEPT !.spec = specs + 1] \in VoiceModel
    BY <1>14, <1>b DEF EditSpec, VoiceModel
  <2> QED
    BY <1>12, <1>14, <1>b, <2>1 DEF EditSpec
<1>15. CASE DeleteVM
  <2>1. [vm EXCEPT !.deleting = TRUE] \in VoiceModel
    BY DEF VoiceModel
  <2> QED
    BY <1>12, <1>15, <2>1, AbsentTyped DEF DeleteVM
<1>16. ASSUME NEW k \in Kind, NEW c \in Child, SetChild(k, c), events' \in 0 .. MaxEvents
       PROVE  TypeOK'
  BY <1>16 DEF SetChild
<1>17. CASE PodsChange
  <2>1. PICK n \in 0 .. MaxReady, f \in BOOLEAN :
          SetChild("deployment", [child["deployment"] EXCEPT !.ready = n, !.failing = f])
    BY <1>17 DEF PodsChange
  <2>2. [child["deployment"] EXCEPT !.ready = n, !.failing = f] \in Child
    BY DEF Child, Kind
  <2> QED
    BY <1>16, <1>17, <1>a, <2>1, <2>2 DEF PodsChange, Event, Kind
<1>18. ASSUME NEW k \in Kind, Collect(k) PROVE TypeOK'
  BY <1>16, <1>18, NoChildTyped DEF Collect
<1>19. CASE UNCHANGED vars
  BY <1>19 DEF vars
<1> QED
  BY <1>1, <1>2, <1>3, <1>4, <1>6, <1>7, <1>8, <1>9, <1>10, <1>11, <1>13, <1>14, <1>15,
     <1>17, <1>18, <1>19 DEF Next, Reconcile

----------------------------------------------------------------------------
(* The invariant.                                                          *)

LEMMA InitIInv == Init => IInv
<1> SUFFICES ASSUME Init PROVE IInv
  OBVIOUS
<1>1. TypeOK
  BY ZeroSpec, AbsentTyped, NoChildTyped DEF Init, TypeOK
<1>2. KnownUids
  BY AbsentTyped, NoChildTyped DEF Init, KnownUids
<1>3. CacheSound
  BY AbsentTyped DEF Init, CacheSound
<1>4. CopySound /\ CurrentCopy
  BY DEF Init, CopySound, CurrentCopy, Applying, Kind
<1>5. OwnedHasFinalizer
  BY AbsentTyped DEF Init, OwnedHasFinalizer, Exists
<1> QED
  BY <1>1, <1>2, <1>3, <1>4, <1>5 DEF IInv, Inv

(* The spec versions in use are numbers. *)
LEMMA Numbers ==
  ASSUME TypeOK
  PROVE  /\ vm.uid \in Nat /\ vmCache.uid \in Nat /\ my.uid \in Nat /\ specs \in Nat
         /\ \A k \in Kind : child[k].owner \in Nat
BY BoundsAssumption DEF TypeOK, VoiceModel, Child, Spec0

(* Reconcile returns and the objects are left alone. *)
LEMMA ReturnInv ==
  ASSUME IInv, Return, UNCHANGED <<objects, vmCache, childCache, current, specs>>
  PROVE  Inv'
<1> USE DEF Inv, IInv, objects, Return
<1>1. KnownUids'
  BY Numbers, AbsentTyped DEF KnownUids
<1>2. CacheSound'
  BY DEF CacheSound, Exists
<1>3. CopySound' /\ CurrentCopy'
  BY DEF CopySound, CurrentCopy, Applying, Kind
<1>4. OwnedHasFinalizer'
  BY DEF OwnedHasFinalizer, Exists
<1> QED
  BY <1>1, <1>2, <1>3, <1>4

(* Writing child k fails. *)
LEMMA FailInv ==
  ASSUME IInv, NEW k \in Kind, pc = k, NEW e \in {"exists", "conflict", "api"}, Fail(k, e),
         UNCHANGED <<vm, vmCache, childCache, myCurrent, specs>>
  PROVE  Inv'
<1> USE DEF Inv, IInv, Fail
<1>1. /\ my'.uid = my.uid /\ my'.finalizer = my.finalizer /\ my'.status.error # ""
  BY FailedTyped DEF TypeOK
<1>2. KnownUids'
  BY <1>1 DEF KnownUids
<1>3. CacheSound'
  BY DEF CacheSound, Exists
<1>4. CopySound'
  BY <1>1 DEF CopySound, Applying, Kind
<1>5. CurrentCopy'
  BY <1>1 DEF CurrentCopy, Kind
<1>6. OwnedHasFinalizer'
  BY DEF OwnedHasFinalizer, Exists
<1> QED
  BY <1>2, <1>3, <1>4, <1>5, <1>6

(* The VoiceModel becomes v behind Reconcile's back: it is the same one,   *)
(* gone, or a new one.                                                     *)
LEMMA SetVMInv ==
  ASSUME IInv, NEW v, SetVM(v), specs' \in Nat, specs <= specs', v.uid \in Nat,
         \/ v.uid = vm.uid /\ v.finalizer = vm.finalizer
         \/ v.uid = 0
         \/ v.uid = specs + 1 /\ specs' = specs + 1
  PROVE  Inv'
<1> USE DEF Inv, IInv, SetVM
<1>1. KnownUids'
  BY Numbers DEF KnownUids
<1>2. CacheSound'
  BY Numbers DEF CacheSound, Exists, KnownUids, Kind
<1>3. CopySound' /\ CurrentCopy'
  <2>1. CurrentCopy'
    BY DEF CurrentCopy
  <2>2. Applying => pc # "idle"
    BY DEF Applying, Kind
  <2>a. my.uid # specs + 1
    BY Numbers DEF KnownUids
  <2>b. pc # "idle" => my.uid # 0
    BY DEF CopySound
  <2>3. Applying /\ my.uid = v.uid => v.uid # 0 /\ v.uid # specs + 1
    BY <2>2, <2>a, <2>b
  <2>4. Applying /\ my.uid = v.uid => v.finalizer
    BY <2>3, Zenon DEF CopySound
  <2>5. CopySound'
    BY <2>4 DEF CopySound, Applying
  <2> QED
    BY <2>1, <2>5
<1>4. OwnedHasFinalizer'
  BY Numbers DEF OwnedHasFinalizer, Exists, KnownUids
<1> QED
  BY <1>1, <1>2, <1>3, <1>4

(* Child k becomes c behind Reconcile's back: its status changes, or it is *)
(* collected.                                                              *)
LEMMA SetChildInv ==
  ASSUME IInv, NEW k \in Kind, NEW c, SetChild(k, c),
         c.owner = 0 \/ (c.owner = child[k].owner /\ c.spec = child[k].spec)
  PROVE  Inv'
<1> USE DEF Inv, IInv, SetChild
<1>0. child'[k] = c /\ \A j \in Kind \ {k} : child'[j] = child[j]
  BY DEF TypeOK
<1>1. KnownUids'
  BY <1>0, Numbers DEF KnownUids
<1>2. CacheSound'
  BY <1>0 DEF CacheSound, Exists, Kind
<1>3. CopySound'
  BY DEF CopySound, Applying
<1>4. CurrentCopy'
  <2>1. ASSUME NEW j \in Kind, Applied(j) PROVE Applied(j)'
    BY <1>0, <2>1 DEF Applied, Missing
  <2> QED
    BY <2>1 DEF CurrentCopy, Kind
<1>5. OwnedHasFinalizer'
  BY <1>0 DEF OwnedHasFinalizer, Exists
<1> QED
  BY <1>1, <1>2, <1>3, <1>4, <1>5

LEMMA NextInv == IInv /\ TypeOK' /\ [Next]_vars => Inv'
<1> SUFFICES ASSUME IInv, TypeOK', [Next]_vars PROVE Inv'
  OBVIOUS
<1> USE DEF Inv, IInv, objects, controller, budgets
<1>0. specs' \in Nat
  BY Numbers, BoundsAssumption DEF TypeOK, Spec0
<1>1. CASE Begin
  <2>1. KnownUids' /\ CacheSound' /\ OwnedHasFinalizer'
    BY <1>1 DEF Begin, KnownUids, CacheSound, OwnedHasFinalizer, Exists
  <2>2. CASE vmCache.uid = 0
    <3>1. UNCHANGED <<vm, child, pc, my, myCurrent>>
      BY <1>1, <2>2 DEF Begin
    <3> QED
      BY <2>1, <3>1 DEF CopySound, CurrentCopy, Applying, Applied, Missing
  <2>3. CASE vmCache.uid # 0
    <3>1. /\ my' = vmCache /\ myCurrent' = ("vm" \in current)
          /\ UNCHANGED <<vm, child>>
          /\ pc' \in {"unfinalize", "finalize", "deployment"}
          /\ pc' = "deployment" => vmCache.finalizer
      BY <1>1, <2>3 DEF Begin
    <3>2. CopySound'
      BY <2>3, <3>1 DEF CopySound, CacheSound, Applying, Exists, Kind
    <3>3. CurrentCopy'
      BY <3>1 DEF CurrentCopy, CacheSound
    <3> QED
      BY <2>1, <3>2, <3>3
  <2> QED
    BY <2>2, <2>3
<1>2. CASE RemoveFinalizer
  <2>1. CASE myCurrent
    <3>1. /\ vm' = Absent /\ current' = current \ {"vm"} /\ my' = Absent /\ pc' = "idle"
          /\ UNCHANGED <<child, vmCache, childCache, specs>>
      BY <1>2, <2>1 DEF RemoveFinalizer, Return
    <3>2. KnownUids'
      BY <3>1, AbsentTyped, Numbers DEF KnownUids
    <3>3. CacheSound' /\ OwnedHasFinalizer'
      BY <3>1, AbsentTyped DEF CacheSound, OwnedHasFinalizer, Exists, Kind
    <3>4. CopySound' /\ CurrentCopy'
      BY <3>1 DEF CopySound, CurrentCopy, Applying, Kind
    <3> QED
      BY <3>2, <3>3, <3>4
  <2>2. CASE ~myCurrent
    BY <1>2, <2>2, ReturnInv DEF RemoveFinalizer, ReturnError
  <2> QED
    BY <2>1, <2>2
<1>3. CASE AddFinalizer
  <2>1. CASE myCurrent
    <3>1. /\ vm' = my' /\ my' = [vm EXCEPT !.finalizer = TRUE]
          /\ current' = current \ {"vm"} /\ pc' = "deployment"
          /\ UNCHANGED <<child, vmCache, childCache, specs>>
      BY <1>3, <2>1 DEF AddFinalizer, CurrentCopy
    <3>2. vm'.uid = vm.uid /\ vm'.finalizer /\ vm.uid # 0
      BY <1>3, <2>1, <3>1 DEF AddFinalizer, CurrentCopy, CopySound, TypeOK, VoiceModel
    <3>3. KnownUids'
      BY <3>1, <3>2 DEF KnownUids
    <3>4. CacheSound' /\ OwnedHasFinalizer'
      BY <3>1, <3>2 DEF CacheSound, OwnedHasFinalizer, Exists, Kind
    <3>5. CopySound' /\ CurrentCopy'
      BY <3>1, <3>2 DEF CopySound, CurrentCopy
    <3> QED
      BY <3>3, <3>4, <3>5
  <2>2. CASE ~myCurrent
    BY <1>3, <2>2, ReturnInv DEF AddFinalizer, ReturnError
  <2> QED
    BY <2>1, <2>2
<1>4. ASSUME NEW k \in Kind, Apply(k) PROVE Inv'
  <2>1. ASSUME NEW e \in {"exists", "conflict"}, Fail(k, e) PROVE Inv'
    BY <1>4, <2>1, FailInv DEF Apply
  <2>2. ASSUME \/ child' = [child EXCEPT ![k] = NewChild(my.uid, my.spec)]
               \/ childCache[k].owner # 0 /\ child' = [child EXCEPT ![k].spec = my.spec],
               current' = IF child' = child THEN current ELSE current \ {k},
               pc' = IF k = "deployment" THEN "service" ELSE "status",
               UNCHANGED my
        PROVE  Inv'
    <3>1. UNCHANGED <<vm, vmCache, childCache, my, myCurrent, specs>> /\ pc = k
      BY <1>4, <2>2 DEF Apply
    <3>2. /\ child'[k].owner \in {my.uid, child[k].owner} /\ child'[k].spec = my.spec
          /\ \A j \in Kind \ {k} : child'[j] = child[j]
      BY <1>4, <2>2, NewChildTyped DEF TypeOK, VoiceModel, Child
    <3>3. KnownUids'
      BY <3>1, <3>2 DEF KnownUids
    <3>4. CacheSound'
      BY <2>2, <3>1, <3>2 DEF CacheSound, Exists, Kind
    <3>5. CopySound'
      BY <1>4, <2>2, <3>1 DEF CopySound, Applying, Kind
    <3>6. CurrentCopy'
      BY <1>4, <2>2, <3>1, <3>2 DEF CurrentCopy, Applied, Missing, Kind
    <3>7. Exists /\ my.uid = vm.uid => vm.finalizer
      BY <1>4, <3>1 DEF CopySound, Applying
    <3>8. OwnedHasFinalizer'
      BY <3>1, <3>2, <3>7 DEF OwnedHasFinalizer, Exists
    <3> QED
      BY <3>3, <3>4, <3>5, <3>6, <3>8
  <2> QED
    BY <1>4, <2>1, <2>2 DEF Apply
<1>5. ASSUME NEW t, SetPhase(t), pc \in {"status", "failed"}, UNCHANGED budgets PROVE Inv'
  <2>1. CASE myCurrent
    <3>1. /\ vm' = [my EXCEPT !.status = t] /\ my' = Absent /\ pc' = "idle"
          /\ current' = IF vm' = vm THEN current ELSE current \ {"vm"}
          /\ UNCHANGED <<child, vmCache, childCache, specs>>
      BY <1>5, <2>1 DEF SetPhase, Return
    <3>2. vm'.uid = vm.uid /\ vm'.finalizer = vm.finalizer
      BY <1>5, <2>1, <3>1 DEF CurrentCopy, TypeOK, VoiceModel
    <3>3. KnownUids'
      BY <3>1, <3>2, AbsentTyped, Numbers DEF KnownUids
    <3>4. CacheSound'
      BY <3>1, <3>2 DEF CacheSound, Exists, Kind
    <3>5. OwnedHasFinalizer'
      BY <3>1, <3>2 DEF OwnedHasFinalizer, Exists
    <3>6. CopySound' /\ CurrentCopy'
      BY <3>1 DEF CopySound, CurrentCopy, Applying, Kind
    <3> QED
      BY <3>3, <3>4, <3>5, <3>6
  <2>2. CASE ~myCurrent
    BY <1>5, <2>2, ReturnInv DEF SetPhase, ReturnError
  <2> QED
    BY <2>1, <2>2
<1>6. CASE UpdateStatus
  BY <1>5, <1>6 DEF UpdateStatus, SetPhase
<1>7. CASE ReportFailure
  BY <1>5, <1>7 DEF ReportFailure, SetPhase
<1>8. CASE CallFails
  <2>1. CASE pc \in Kind /\ Fail(pc, "api") /\ UNCHANGED <<queued, myCurrent>>
    BY <1>8, <2>1, FailInv DEF CallFails
  <2>2. CASE ReturnError /\ UNCHANGED <<child, current>>
    BY <1>8, <2>2, ReturnInv DEF CallFails, ReturnError
  <2> QED
    BY <1>8, <2>1, <2>2 DEF CallFails
<1>9. CASE Restart
  <2>1. KnownUids' /\ CacheSound' /\ OwnedHasFinalizer'
    BY <1>9, AbsentTyped, Numbers
    DEF Restart, Return, KnownUids, CacheSound, OwnedHasFinalizer, Exists
  <2>2. CopySound' /\ CurrentCopy'
    BY <1>9 DEF Restart, Return, CopySound, CurrentCopy, Applying, Kind
  <2> QED
    BY <2>1, <2>2
<1>10. ASSUME NEW o \in Object, Sync(o) PROVE Inv'
  <2>1. UNCHANGED <<vm, child, pc, my, myCurrent, specs>>
    BY <1>10 DEF Sync
  <2>2. KnownUids' /\ CopySound' /\ CurrentCopy' /\ OwnedHasFinalizer'
    <3>1. vmCache'.uid \in {vm.uid, vmCache.uid}
      BY <1>10 DEF Sync
    <3> QED
      BY <2>1, <3>1 DEF KnownUids, CopySound, CurrentCopy, OwnedHasFinalizer, Applying,
                        Applied, Missing, Exists
  <2>3. CacheSound'
    <3>1. CASE o = "vm"
      BY <1>10, <2>1, <3>1 DEF Sync, CacheSound, Exists, Kind
    <3>2. CASE o # "vm"
      BY <1>10, <2>1, <3>2 DEF Sync, CacheSound, Exists, Object, TypeOK
    <3> QED
      BY <3>1, <3>2
  <2> QED
    BY <2>2, <2>3
<1>11. CASE TimerFires
  BY <1>11 DEF TimerFires, KnownUids, CacheSound, CopySound, CurrentCopy, OwnedHasFinalizer,
               Applying, Applied, Missing, Exists
<1>12. CASE CreateVM
  <2>1. New(specs + 1).uid = specs + 1
    BY DEF New
  <2> QED
    BY <1>0, <1>12, <2>1, Numbers, SetVMInv DEF CreateVM
<1>13. CASE EditSpec
  <2> DEFINE v == [vm EXCEPT !.spec = specs + 1]
  <2>1. v.uid = vm.uid /\ v.finalizer = vm.finalizer
    BY DEF TypeOK, VoiceModel
  <2>2. SetVM(v) /\ specs' = specs + 1
    BY <1>13 DEF EditSpec
  <2> HIDE DEF v
  <2> QED
    BY <1>0, <2>1, <2>2, Numbers, SetVMInv
<1>14. CASE DeleteVM
  <2> DEFINE v == [vm EXCEPT !.deleting = TRUE]
  <2>1. v.uid = vm.uid /\ v.finalizer = vm.finalizer
    BY DEF TypeOK, VoiceModel
  <2>2. (SetVM(v) \/ SetVM(Absent)) /\ specs' = specs
    BY <1>14 DEF DeleteVM
  <2> HIDE DEF v
  <2> QED
    BY <1>0, <2>1, <2>2, AbsentTyped, Numbers, SetVMInv
<1>15. CASE PodsChange
  <2>1. PICK n \in 0 .. MaxReady, f \in BOOLEAN :
          SetChild("deployment", [child["deployment"] EXCEPT !.ready = n, !.failing = f])
    BY <1>15 DEF PodsChange
  <2> DEFINE c == [child["deployment"] EXCEPT !.ready = n, !.failing = f]
  <2>2. c.owner = child["deployment"].owner /\ c.spec = child["deployment"].spec
    BY DEF TypeOK, Child, Kind
  <2>3. SetChild("deployment", c)
    BY <2>1
  <2> HIDE DEF c
  <2> QED
    BY <2>2, <2>3, SetChildInv DEF Kind
<1>16. ASSUME NEW k \in Kind, Collect(k) PROVE Inv'
  BY <1>16, NoChildTyped, SetChildInv DEF Collect
<1>17. CASE UNCHANGED vars
  BY <1>17 DEF vars, KnownUids, CacheSound, CopySound, CurrentCopy, OwnedHasFinalizer,
               Applying, Applied, Missing, Exists
<1> QED
  BY <1>1, <1>2, <1>3, <1>4, <1>6, <1>7, <1>8, <1>9, <1>10, <1>11, <1>12, <1>13, <1>14,
     <1>15, <1>16, <1>17 DEF Next, Reconcile

LEMMA NextIsNew == \A a, b \in Nat : a <= b => a # b + 1
OBVIOUS

LEMMA NextAbout == IInv /\ TypeOK' /\ [Next]_vars => About
<1> SUFFICES ASSUME IInv, TypeOK', [Next]_vars,
                    vm'.uid = vm.uid, vm'.status # vm.status, vm'.status.error = ""
             PROVE  \A k \in Kind : Missing(k) \/ child[k].spec = vm.spec
  BY DEF About
<1> USE DEF Inv, IInv, objects, controller, budgets
<1>1. CASE UpdateStatus
  <2>1. myCurrent
    BY <1>1 DEF UpdateStatus, SetPhase
  <2> QED
    BY <1>1, <2>1 DEF UpdateStatus, CurrentCopy, Applied, Kind
<1>2. CASE ReportFailure
  <2>1. myCurrent /\ vm' = [my EXCEPT !.status = my.status]
    BY <1>2 DEF ReportFailure, SetPhase
  <2>2. vm'.status = my.status
    BY <2>1 DEF TypeOK, VoiceModel
  <2> QED
    BY <1>2, <2>2 DEF ReportFailure, CopySound
<1>3. CASE RemoveFinalizer
  <2>1. myCurrent /\ vm' = Absent
    BY <1>3 DEF RemoveFinalizer
  <2> QED
    BY <1>3, <2>1, AbsentTyped DEF RemoveFinalizer, CopySound, CurrentCopy
<1>4. CASE AddFinalizer
  <2> DEFINE n == [my EXCEPT !.finalizer = TRUE]
  <2>1. n.status = my.status
    BY DEF TypeOK, VoiceModel
  <2>2. my = vm /\ vm' = n
    <3>1. myCurrent /\ vm' = n
      BY <1>4 DEF AddFinalizer
    <3> QED
      BY <1>4, <3>1 DEF AddFinalizer, CurrentCopy
  <2> HIDE DEF n
  <2>3. vm'.status = vm.status
    BY <2>1, <2>2
  <2> QED
    BY <2>3
<1>5. CASE CreateVM
  <2>1. vm'.uid = specs + 1
    BY <1>5 DEF CreateVM, SetVM, New
  <2>2. vm.uid <= specs /\ vm.uid \in Nat /\ specs \in Nat
    BY Numbers DEF KnownUids
  <2>3. vm.uid # specs + 1
    BY <2>2, NextIsNew, Zenon
  <2> QED
    BY <2>1, <2>3, Zenon
<1>6. CASE EditSpec
  <2>1. vm' = [vm EXCEPT !.spec = specs + 1]
    BY <1>6 DEF EditSpec, SetVM
  <2> QED
    BY <2>1 DEF TypeOK, VoiceModel
<1>7. CASE DeleteVM
  <2>1. vm' = [vm EXCEPT !.deleting = TRUE] \/ vm' = Absent
    BY <1>7 DEF DeleteVM, SetVM
  <2> QED
    BY <1>7, <2>1, AbsentTyped DEF DeleteVM, Exists, TypeOK, VoiceModel
<1>8. ASSUME UNCHANGED vm PROVE FALSE
  BY <1>8
<1> QED
  BY <1>1, <1>2, <1>3, <1>4, <1>5, <1>6, <1>7, <1>8
  DEF Next, Reconcile, Begin, Apply, CallFails, Restart, Sync, TimerFires, PodsChange,
      Collect, SetChild, vars

LEMMA NextIInv == IInv /\ [Next]_vars => IInv'
BY TypeStep, NextInv DEF IInv

LEMMA Invariance == Spec => []IInv
<1>1. IInv /\ [Next]_vars => IInv'
  BY NextIInv
<1> QED
  BY InitIInv, <1>1, PTL DEF Spec

----------------------------------------------------------------------------
(* Wake-ups: what is known when nothing is queued.                         *)

(* While nothing is queued behind it, what Reconcile did is still so: the  *)
(* children it has passed are there, as far as the caches tell.            *)
Watching ==
  /\ pc \notin {"idle", "unfinalize"} => ~my.deleting
  /\ ~queued =>
       /\ pc \in {"service", "status"} /\ "deployment" \in current => ~Missing("deployment")
       /\ pc = "status" /\ "service" \in current => ~Missing("service")

(* A VoiceModel is as Settled asks, whoever owns its children.             *)
Right ==
  /\ ~vm.deleting
  /\ \A k \in Kind : ~Missing(k) /\ child[k].spec = vm.spec
  /\ vm.status = StatusFor(vm, child["deployment"])

Resting ==
  pc = "idle" /\ ~queued /\ ~timer /\ ~swallowed /\ current = Object /\ Exists => Right

Wakeups == Watching /\ Resting

(* Nothing is under way that would wake the controller, and nothing is     *)
(* left to the garbage collector.                                          *)
Quiet ==
  /\ pc = "idle" /\ ~queued /\ ~timer /\ current = Object
  /\ \A k \in Kind : Missing(k) \/ child[k].owner = vm.uid

NoWakeupLost == Quiet => Settled \/ swallowed

LEMMA InitWakeups == Init => Wakeups
BY AbsentTyped DEF Init, Wakeups, Watching, Resting, Exists

(* The children passed are there after child k is written, too: what is in *)
(* the cache was not missing, and what was made is not in it yet.          *)
LEMMA ApplyWatching ==
  ASSUME IInv, Watching, NEW k \in Kind, Apply(k)
  PROVE  Watching'
<1> USE DEF IInv, Inv
<1>0. pc = k /\ queued' = queued /\ ~my.deleting
  BY DEF Apply, Watching, Kind
<1>1. ASSUME NEW e \in {"exists", "conflict"}, Fail(k, e) PROVE Watching'
  <2>0. my \in VoiceModel /\ e \in {"exists", "conflict", "api"}
    BY DEF TypeOK
  <2>1. my'.deleting = my.deleting /\ pc' = "failed"
    BY <1>1, <2>0, FailedTyped DEF Fail
  <2> QED
    BY <1>0, <2>1 DEF Watching
<1>2. ASSUME \/ childCache[k].owner = 0 /\ child' = [child EXCEPT ![k] = NewChild(my.uid, my.spec)]
             \/ childCache[k].owner # 0 /\ child' = [child EXCEPT ![k].spec = my.spec],
             current' = IF child' = child THEN current ELSE current \ {k},
             pc' = IF k = "deployment" THEN "service" ELSE "status",
             UNCHANGED my
      PROVE  Watching'
  <2>1. k \in current' => child' = child /\ k \in current
    BY <1>2
  <2>2. my.uid # 0
    BY <1>0 DEF CopySound, Kind
  <2>3. k \in current' => ~Missing(k)'
    <3>1. CASE childCache[k].owner = 0
      <4>1. child'[k] = NewChild(my.uid, my.spec)
        BY <1>2, <3>1 DEF TypeOK
      <4> QED
        BY <2>2, <4>1 DEF NewChild, Missing
    <3>2. CASE childCache[k].owner # 0
      BY <2>1, <3>2 DEF CacheSound, Missing
    <3> QED
      BY <3>1, <3>2
  <2>4. ASSUME k = "service" PROVE child'["deployment"] = child["deployment"]
    BY <1>2, <2>4 DEF TypeOK, Kind
  <2>5. k = "service" /\ "deployment" \in current' => "deployment" \in current
    BY <1>2
  <2>6. ~queued /\ k = "service" /\ "deployment" \in current' => ~Missing("deployment")'
    BY <1>0, <2>4, <2>5 DEF Watching, Missing
  <2> QED
    BY <1>0, <1>2, <2>3, <2>6 DEF Watching, Kind
<1> QED
  BY <1>1, <1>2 DEF Apply

LEMMA NextWatching == IInv /\ Watching /\ [Next]_vars => Watching'
<1> SUFFICES ASSUME IInv, Watching, [Next]_vars PROVE Watching'
  OBVIOUS
<1> USE DEF objects, controller, budgets
<1>1. CASE Begin
  BY <1>1 DEF Begin, Watching, Kind
<1>2. CASE pc' = "idle"
  BY <1>2 DEF Watching
<1>3. CASE AddFinalizer
  <2>1. [my EXCEPT !.finalizer = TRUE].deleting = my.deleting
    BY DEF IInv, TypeOK, VoiceModel
  <2> QED
    BY <1>3, <2>1 DEF AddFinalizer, ReturnError, Return, Watching
<1>4. ASSUME NEW k \in Kind, Apply(k) PROVE Watching'
  BY <1>4, ApplyWatching
<1>5. CASE CallFails
  <2>1. CASE pc \in Kind /\ Fail(pc, "api")
    <3>1. my'.deleting = my.deleting /\ pc' = "failed"
      BY <2>1, FailedTyped DEF Fail, IInv, TypeOK
    <3> QED
      BY <2>1, <3>1 DEF Watching, Kind
  <2> QED
    BY <1>2, <1>5, <2>1 DEF CallFails, ReturnError, Return
<1>6. ASSUME NEW o \in Object, Sync(o) PROVE Watching'
  BY <1>6 DEF Sync, Watching
<1>7. CASE TimerFires
  BY <1>7 DEF TimerFires, Watching
<1>8. ASSUME NEW v, SetVM(v) PROVE Watching'
  BY <1>8 DEF SetVM, Watching, Missing
<1>9. ASSUME NEW k \in Kind, NEW c, SetChild(k, c) PROVE Watching'
  <2>1. \A j \in Kind \ {k} : child'[j] = child[j]
    BY <1>9 DEF SetChild, IInv, TypeOK
  <2> QED
    BY <1>9, <2>1 DEF SetChild, Watching, Missing, Kind
<1>10. CASE UNCHANGED vars
  BY <1>10 DEF vars, Watching, Missing
<1> QED
  BY <1>1, <1>2, <1>3, <1>4, <1>5, <1>6, <1>7, <1>8, <1>9, <1>10
  DEF Next, Reconcile, RemoveFinalizer, UpdateStatus, ReportFailure, SetPhase, Restart,
      ReturnError, Return, CreateVM, EditSpec, DeleteVM, PodsChange, Collect, Kind

(* A status that needs no write is right. *)
LEMMA StatusResting ==
  ASSUME IInv, Watching, Resting, UpdateStatus
  PROVE  Resting'
<1> SUFFICES ASSUME ~queued', ~swallowed', current' = Object, Exists'
             PROVE  Right'
  BY DEF Resting
<1> USE DEF IInv, Inv
<1> DEFINE s == StatusFor(my, childCache["deployment"])
<1>1. /\ myCurrent /\ pc = "status" /\ queued' = queued /\ child' = child
      /\ vm' = [my EXCEPT !.status = s]
      /\ current' = IF vm' = vm THEN current ELSE current \ {"vm"}
  BY DEF UpdateStatus, SetPhase, ReturnError
<1>2. vm' = vm /\ current = Object
  BY <1>1 DEF Object
<1>3. my = vm /\ childCache["deployment"] = child["deployment"]
  BY <1>1, <1>2 DEF CurrentCopy, CacheSound, Object, Kind
<1>4. vm.status = s
  <2>1. [vm EXCEPT !.status = s].status = s
    BY DEF TypeOK, VoiceModel
  <2> QED
    BY <1>1, <1>2, <1>3, <2>1
<1>5. ~vm.deleting
  BY <1>1, <1>3 DEF Watching
<1>6. \A k \in Kind : ~Missing(k)
  BY <1>1, <1>2 DEF Watching, Kind, Object
<1>7. \A k \in Kind : child[k].spec = vm.spec
  BY <1>1, <1>3, <1>6 DEF CurrentCopy, Applied, Kind
<1>8. Right
  BY <1>3, <1>4, <1>5, <1>6, <1>7 DEF Right
<1> QED
  BY <1>1, <1>2, <1>8 DEF Right, Missing

LEMMA NextResting == IInv /\ Wakeups /\ [Next]_vars => Resting'
<1> SUFFICES ASSUME IInv, Watching, Resting, [Next]_vars PROVE Resting'
  BY DEF Wakeups
<1> USE DEF objects, controller, budgets
<1>a. CASE pc' # "idle" \/ queued' = TRUE \/ swallowed' = TRUE \/ current' # Object
  BY <1>a DEF Resting
<1>1. CASE Begin
  <2>1. CASE vmCache.uid = 0 /\ current = Object
    <3>1. ~Exists'
      BY <1>1, <2>1 DEF Begin, Exists, IInv, Inv, CacheSound, Object
    <3> QED
      BY <3>1 DEF Resting
  <2>2. CASE vmCache.uid # 0 \/ current # Object
    BY <1>1, <1>a, <2>2 DEF Begin, Kind
  <2> QED
    BY <2>1, <2>2
<1>2. CASE RemoveFinalizer
  <2>1. CASE myCurrent
    BY <1>2, <2>1, AbsentTyped DEF RemoveFinalizer, Resting, Exists
  <2> QED
    BY <1>2, <1>a, <2>1 DEF RemoveFinalizer, ReturnError
<1>3. CASE AddFinalizer
  BY <1>3, <1>a DEF AddFinalizer, ReturnError
<1>4. ASSUME NEW k \in Kind, Apply(k) PROVE Resting'
  BY <1>4, <1>a DEF Apply, Fail
<1>5. CASE UpdateStatus
  BY <1>5, StatusResting
<1>6. CASE ReportFailure
  <2>1. CASE myCurrent
    BY <1>6, <2>1, <1>a DEF ReportFailure, SetPhase, Object
  <2> QED
    BY <1>6, <1>a, <2>1 DEF ReportFailure, SetPhase, ReturnError
<1>7. CASE CallFails \/ Restart \/ TimerFires \/ \E o \in Object : Sync(o)
  BY <1>7, <1>a DEF CallFails, Fail, ReturnError, Restart, TimerFires, Sync
<1>8. ASSUME NEW v, SetVM(v) PROVE Resting'
  BY <1>8, <1>a DEF SetVM, Object
<1>9. ASSUME NEW k \in Kind, NEW c, SetChild(k, c) PROVE Resting'
  BY <1>9, <1>a DEF SetChild, Object
<1>10. CASE UNCHANGED vars
  BY <1>10 DEF vars, Resting, Right, Missing, Exists
<1> QED
  BY <1>1, <1>2, <1>3, <1>4, <1>5, <1>6, <1>7, <1>8, <1>9, <1>10
  DEF Next, Reconcile, CreateVM, EditSpec, DeleteVM, PodsChange, Collect, Kind

LEMMA NextWakeups == IInv /\ Wakeups /\ [Next]_vars => Wakeups'
BY NextWatching, NextResting DEF Wakeups

(* Where other things move, too. *)
LEMMA Unmoved ==
  ASSUME IInv, Wakeups, UNCHANGED <<objects, controller, specs, swallowed>>,
         events' \in 0 .. MaxEvents
  PROVE  IInv' /\ Wakeups'
<1> USE DEF objects, controller
<1>1. TypeOK'
  BY DEF IInv, TypeOK
<1>2. Inv'
  BY DEF IInv, Inv, KnownUids, CacheSound, CopySound, CurrentCopy, OwnedHasFinalizer, Applying,
         Applied, Missing, Exists
<1> QED
  BY <1>1, <1>2 DEF IInv, Wakeups, Watching, Resting, Right, Missing, Exists

LEMMA RestIsRight == Resting => NoWakeupLost
BY DEF Resting, Right, NoWakeupLost, Quiet, Settled, Missing, Exists

----------------------------------------------------------------------------
(* Every variable of the controller and of its API objects keeps its type: *)
(* in particular no write makes a status the CRD's enum refuses            *)
(* (setPhase).                                                             *)
THEOREM TypeCorrect == Spec => []TypeOK
<1>1. IInv => TypeOK
  BY DEF IInv
<1> QED
  BY Invariance, <1>1, PTL

(* However old the caches and whatever fails, a VoiceModel that owns a     *)
(* Deployment or a Service has the finalizer (Reconcile adds it first).    *)
THEOREM FinalizerFirst == Spec => []OwnedHasFinalizer
<1>1. IInv => OwnedHasFinalizer
  BY DEF IInv, Inv
<1> QED
  BY Invariance, <1>1, PTL

(* A status without error that a step writes is about the spec of its      *)
(* VoiceModel (updateStatus, setPhase).                                    *)
THEOREM StatusIsOfThisSpec == Spec => StatusOfThisSpec
<1>1. IInv /\ IInv' /\ [Next]_vars =>
        [vm'.uid = vm.uid /\ vm'.status # vm.status /\ vm'.status.error = "" =>
           \A k \in Kind : Missing(k) \/ child[k].spec = vm.spec]_vars
  BY NextAbout DEF About, IInv
<1> QED
  BY Invariance, <1>1, PTL DEF Spec, StatusOfThisSpec

(* However Reconcile interleaves with informers, users and the garbage     *)
(* collector: when nothing is left that would call Reconcile again, the    *)
(* children and the status are as the VoiceModel's spec and the pods ask,  *)
(* or setPhase dropped an error.                                           *)
THEOREM WakeupsKept == Spec => []NoWakeupLost
<1>1. IInv /\ Wakeups /\ [Next]_vars => Wakeups'
  BY NextWakeups
<1>2. Wakeups => NoWakeupLost
  BY RestIsRight DEF Wakeups
<1> QED
  BY Invariance, InitWakeups, <1>1, <1>2, PTL DEF Spec

============================================================================
