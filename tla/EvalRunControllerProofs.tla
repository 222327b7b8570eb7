---------------------- MODULE EvalRunControllerProofs ----------------------
(***************************************************************************)
(* Theorems about EvalRunController, for any number of EvalRuns, edits and *)
(* troubles: its variables keep their types, the status is backed by the   *)
(* Workflow, and a verdict is never forgotten.                             *)
(***************************************************************************)
EXTENDS EvalRunController, TLAPS

(* A current cache holds the EvalRun; Reconcile works on an EvalRun that   *)
(* existed; no trace remains of an EvalRun that does not.                  *)
Tracks ==
  /\ cacheCurrent => cached = evalRun
  /\ pc # "idle" => my.uid # 0
  /\ ~Exists => evalRun = Absent

(* A verdict is only found through the reference. *)
VerdictHasRef(r) == r.verdict # "none" => r.ref

(* What Reconcile is about to write if its copy is still current: nothing  *)
(* is taken back, and the Workflow bears it out.                           *)
CopySound ==
  pc # "idle" /\ myCurrent =>
    /\ my.uid = evalRun.uid
    /\ pc = "create" => my = evalRun /\ ~my.ref
    /\ pc = "get" => my = evalRun /\ my.ref
    /\ pc = "write" =>
         /\ evalRun.ref => my.ref
         /\ VerdictHasRef(my)
         /\ evalRun.verdict # "none" => my.verdict # "none"
         /\ ~lost => Backed(my)

IInv == TypeOK /\ Tracks /\ VerdictHasRef(evalRun) /\ CopySound /\ StatusBacked

(* What a step may not do to the EvalRun (NeverForgets of one step). *)
Keeps ==
  evalRun'.uid = evalRun.uid /\ ~lost' =>
    /\ evalRun.ref => evalRun'.ref
    /\ evalRun.verdict # "none" =>
         evalRun'.verdict = evalRun.verdict /\ evalRun'.phase # "Running"

----------------------------------------------------------------------------
(* The records the actions make are EvalRuns and Workflows. *)

LEMMA NewTyped ==
  ASSUME NEW u \in Uid, NEW s \in BOOLEAN
  PROVE  New(u, s) \in EvalRun /\ New(u, s).uid = u /\ ~New(u, s).ref
         /\ New(u, s).verdict = "none" /\ New(u, s).phase = "" /\ ~New(u, s).deleting
BY DEF New, EvalRun, Verdict

LEMMA AbsentTyped ==
  Absent \in EvalRun /\ Absent.uid = 0 /\ ~Absent.ref /\ Absent.verdict = "none"
  /\ Absent.phase = ""
<1>1. 0 \in Uid
  BY BoundsAssumption DEF Uid
<1> QED
  BY <1>1, NewTyped DEF Absent

LEMMA AbsentDeletes == ~Absent.deleting
BY DEF Absent, New

LEMMA MirrorTyped ==
  ASSUME NEW r \in EvalRun, NEW w \in Workflow
  PROVE  Mirror(r, w) \in EvalRun
BY DEF Mirror, EvalRun, Workflow, Verdict

LEMMA EditsTyped ==
  ASSUME NEW r \in EvalRun
  PROVE  /\ [r EXCEPT !.phase = "Pending"] \in EvalRun
         /\ [r EXCEPT !.ref = TRUE, !.phase = "Running"] \in EvalRun
         /\ [r EXCEPT !.suspend = ~r.suspend] \in EvalRun
         /\ [r EXCEPT !.deleting = TRUE] \in EvalRun
BY DEF EvalRun

LEMMA WorkflowsTyped ==
  /\ NoWorkflow \in Workflow
  /\ \A u \in Uid : [NoWorkflow EXCEPT !.owner = u] \in Workflow
  /\ \A w \in Workflow, p \in {"Succeeded", "Failed"}, v \in Verdict :
       [w EXCEPT !.phase = p, !.report = v] \in Workflow
<1>1. NoWorkflow \in Workflow
  <2>1. 0 \in Uid
    BY BoundsAssumption DEF Uid
  <2> QED
    BY <2>1 DEF NoWorkflow, Workflow, Verdict
<1>2. ASSUME NEW u \in Uid PROVE [NoWorkflow EXCEPT !.owner = u] \in Workflow
  BY <1>1 DEF Workflow
<1>3. ASSUME NEW w \in Workflow, NEW p \in {"Succeeded", "Failed"}, NEW v \in Verdict
      PROVE  [w EXCEPT !.phase = p, !.report = v] \in Workflow
  BY DEF Workflow
<1> QED
  BY <1>1, <1>2, <1>3

(* Counters stay within their bounds. *)
LEMMA Bump ==
  ASSUME NEW m \in Nat, NEW n \in 0 .. m, n < m PROVE n + 1 \in 0 .. m
OBVIOUS

LEMMA TypeStep == TypeOK /\ [Next]_vars => TypeOK'
<1> SUFFICES ASSUME TypeOK, [Next]_vars PROVE TypeOK'
  OBVIOUS
<1> USE BoundsAssumption DEF TypeOK, objects, controller, budgets
<1>0. my.uid \in Uid /\ evalRun.uid \in Uid
  BY DEF EvalRun
<1>1. CASE Begin
  BY <1>1, EditsTyped DEF Begin
<1>2. CASE CreateWorkflow
  BY <1>0, <1>2, EditsTyped, WorkflowsTyped DEF CreateWorkflow
<1>3. CASE GetWorkflow
  BY <1>3, MirrorTyped DEF GetWorkflow
<1>4. CASE WriteStatus
  BY <1>4 DEF WriteStatus
<1>5. CASE CallFails
  BY <1>5, Bump DEF CallFails
<1>6. CASE Restart
  BY <1>6, Bump DEF Restart
<1>7. CASE Sync
  BY <1>7 DEF Sync
<1>8. CASE TimerFires
  BY <1>8 DEF TimerFires
<1>9. CASE Resync
  BY <1>9 DEF Resync
<1>10. CASE CreateEvalRun
  <2>1. created + 1 \in Uid
    BY <1>10 DEF CreateEvalRun, Uid
  <2>2. PICK s \in BOOLEAN : SetEvalRun(New(created + 1, s))
    BY <1>10 DEF CreateEvalRun
  <2>3. evalRun' \in EvalRun
    BY <2>1, <2>2, NewTyped DEF SetEvalRun
  <2> QED
    BY <1>10, <2>1, <2>2, <2>3 DEF CreateEvalRun, SetEvalRun
<1>11. CASE EditSuspend
  BY <1>11, Bump, EditsTyped DEF EditSuspend, SetEvalRun
<1>12. CASE DeleteEvalRun
  BY <1>12, EditsTyped, AbsentTyped DEF DeleteEvalRun, SetEvalRun
<1>13. CASE FinishDeletion
  BY <1>13, AbsentTyped DEF FinishDeletion, SetEvalRun
<1>14. CASE WorkflowEnds
  <2>1. PICK p \in {"Succeeded", "Failed"}, v \in Verdict :
          SetWorkflow([workflow EXCEPT !.phase = p, !.report = v])
    BY <1>14 DEF WorkflowEnds
  <2>2. workflow' \in Workflow
    BY <2>1, WorkflowsTyped DEF SetWorkflow
  <2> QED
    BY <1>14, <2>1, <2>2 DEF WorkflowEnds, SetWorkflow
<1>15. CASE DeleteWorkflow
  BY <1>15, Bump, WorkflowsTyped DEF DeleteWorkflow, SetWorkflow
<1>16. CASE CollectWorkflow
  BY <1>16, WorkflowsTyped DEF CollectWorkflow, SetWorkflow
<1>17. CASE UNCHANGED vars
  BY <1>17 DEF vars
<1> QED
  BY <1>1, <1>2, <1>3, <1>4, <1>5, <1>6, <1>7, <1>8, <1>9, <1>10, <1>11, <1>12,
     <1>13, <1>14, <1>15, <1>16, <1>17 DEF Next, Reconcile

----------------------------------------------------------------------------
(* The rest of IInv, and Keeps, action by action.                          *)

Rest == Tracks /\ VerdictHasRef(evalRun) /\ CopySound /\ StatusBacked

(* A step that touches neither object needs to be looked at for what it    *)
(* does to the cache and to the copy only.                                 *)
LEMMA Quiet ==
  ASSUME IInv, UNCHANGED <<objects, lost>>
  PROVE  VerdictHasRef(evalRun)' /\ StatusBacked' /\ Keeps /\ (~Exists' => evalRun' = Absent)
BY DEF IInv, Tracks, VerdictHasRef, StatusBacked, Backed, Keeps, Exists, WorkflowExists, objects

LEMMA BeginStep == IInv /\ Begin => Rest' /\ Keeps
<1> SUFFICES ASSUME IInv, Begin PROVE Rest' /\ Keeps
  OBVIOUS
<1>1. VerdictHasRef(evalRun)' /\ StatusBacked' /\ Keeps /\ (~Exists' => evalRun' = Absent)
  BY Quiet DEF Begin
<1> USE DEF IInv, TypeOK, Tracks, Begin, objects
<1>2. Tracks'
  <2>1. cached.uid # 0 /\ ~cached.deleting => my'.uid = cached.uid
    BY DEF EvalRun
  <2> QED
    BY <1>1, <2>1
<1>3. CopySound'
  <2>1. CASE cached.uid = 0 \/ cached.deleting
    BY <2>1 DEF CopySound, Backed, WorkflowExists
  <2>2. CASE ~cacheCurrent /\ cached.uid # 0 /\ ~cached.deleting
    BY <2>2 DEF CopySound
  <2>3. CASE cacheCurrent /\ cached.uid # 0 /\ ~cached.deleting
    <3>1. cached = evalRun
      BY <2>3
    <3>2. CASE evalRun.suspend
      <4>1. my' = [evalRun EXCEPT !.phase = "Pending"] /\ pc' = "write"
        BY <2>3, <3>1, <3>2
      <4>2. /\ my'.uid = evalRun.uid /\ my'.ref = evalRun.ref
            /\ my'.verdict = evalRun.verdict /\ my'.phase = "Pending"
        BY <4>1 DEF EvalRun
      <4> QED
        BY <2>3, <4>1, <4>2 DEF CopySound, VerdictHasRef, StatusBacked, Backed, WorkflowExists
    <3>3. CASE ~evalRun.suspend
      BY <2>3, <3>1, <3>3 DEF CopySound
    <3> QED
      BY <3>2, <3>3
  <2> QED
    BY <2>1, <2>2, <2>3
<1> QED
  BY <1>1, <1>2, <1>3 DEF Rest

LEMMA GetWorkflowStep == IInv /\ GetWorkflow => Rest' /\ Keeps
<1> SUFFICES ASSUME IInv, GetWorkflow PROVE Rest' /\ Keeps
  OBVIOUS
<1>1. VerdictHasRef(evalRun)' /\ StatusBacked' /\ Keeps /\ (~Exists' => evalRun' = Absent)
  BY Quiet DEF GetWorkflow
<1> USE DEF IInv, TypeOK, Tracks, GetWorkflow, objects
<1>2. /\ my'.uid = my.uid /\ my'.ref = my.ref
      /\ my'.verdict = my.verdict \/ my'.verdict = workflow.report
      /\ my'.verdict = "none" => my.verdict = "none"
  BY DEF Mirror, EvalRun
<1>3. Tracks'
  BY <1>1, <1>2
<1>4. ASSUME myCurrent PROVE CopySound'
  <2>1. my = evalRun /\ my.ref
    BY <1>4 DEF CopySound
  <2>2. ~lost => Backed(my)'
    BY <2>1 DEF StatusBacked, Backed, WorkflowExists, Mirror, EvalRun, Workflow, Verdict
  <2> QED
    BY <1>2, <2>1, <2>2 DEF CopySound, VerdictHasRef
<1>5. CopySound'
  BY <1>4 DEF CopySound
<1> QED
  BY <1>1, <1>3, <1>5 DEF Rest

(* The other steps of the controller that leave both objects alone end     *)
(* Reconcile or leave it where it is.                                      *)
LEMMA QueueStep ==
  IInv /\ (CallFails \/ Restart \/ Sync \/ TimerFires \/ Resync) => Rest' /\ Keeps
<1> SUFFICES ASSUME IInv, CallFails \/ Restart \/ Sync \/ TimerFires \/ Resync
             PROVE  Rest' /\ Keeps
  OBVIOUS
<1> USE DEF CallFails, Restart, Sync, TimerFires, Resync
<1>1. VerdictHasRef(evalRun)' /\ StatusBacked' /\ Keeps /\ (~Exists' => evalRun' = Absent)
  <2>1. UNCHANGED <<objects, lost>>
    OBVIOUS
  <2> QED
    BY <2>1, Quiet
<1>2. Tracks'
  BY <1>1 DEF IInv, Tracks, objects
<1>3. CopySound'
  BY DEF IInv, CopySound, VerdictHasRef, Backed, WorkflowExists, objects
<1> QED
  BY <1>1, <1>2, <1>3 DEF Rest

LEMMA CreateWorkflowStep == IInv /\ CreateWorkflow => Rest' /\ Keeps
<1> SUFFICES ASSUME IInv, CreateWorkflow PROVE Rest' /\ Keeps
  OBVIOUS
<1> USE DEF IInv, TypeOK, Tracks, CreateWorkflow, WorkflowExists
<1>1. WorkflowExists' /\ (WorkflowExists => UNCHANGED workflow)
  BY DEF NoWorkflow
<1>2. /\ my'.uid = my.uid /\ my'.ref /\ my'.phase = "Running"
      /\ my'.verdict = my.verdict
  BY DEF EvalRun
<1>3. Tracks'
  BY <1>2 DEF Exists
<1>4. VerdictHasRef(evalRun)' /\ StatusBacked'
  BY <1>1 DEF VerdictHasRef, StatusBacked, Backed
<1>5. ASSUME myCurrent PROVE my.verdict = "none"
  BY <1>5 DEF CopySound, VerdictHasRef
<1>6. CopySound'
  BY <1>1, <1>2, <1>5 DEF CopySound, VerdictHasRef, Backed
<1>7. Keeps
  BY DEF StatusBacked, Backed, Keeps
<1> QED
  BY <1>3, <1>4, <1>6, <1>7 DEF Rest

(* The API server takes the status of a current copy only; this is what    *)
(* keeps a Reconcile that read an old EvalRun from taking anything back.   *)
LEMMA WriteStatusStep == IInv /\ WriteStatus => Rest' /\ Keeps
<1> SUFFICES ASSUME IInv, WriteStatus PROVE Rest' /\ Keeps
  OBVIOUS
<1> USE DEF IInv, TypeOK, WriteStatus
<1>1. CASE myCurrent
  <2>1. /\ evalRun' = my /\ my.uid = evalRun.uid /\ my.uid # 0
        /\ evalRun.ref => my.ref
        /\ evalRun.verdict # "none" => my.verdict # "none"
        /\ VerdictHasRef(my)
        /\ ~lost => Backed(my)
    BY <1>1 DEF CopySound, Tracks
  <2>2. Tracks' /\ CopySound'
    <3>1. cacheCurrent' => cached' = evalRun'
      BY <1>1, <2>1 DEF Tracks
    <3> QED
      BY <1>1, <2>1, <3>1 DEF Tracks, CopySound, Exists
  <2>3. VerdictHasRef(evalRun)' /\ StatusBacked'
    BY <2>1 DEF VerdictHasRef, StatusBacked, Backed, WorkflowExists
  <2>4. Keeps
    BY <2>1 DEF Keeps, StatusBacked, Backed
  <2> QED
    BY <2>2, <2>3, <2>4 DEF Rest
<1>2. CASE ~myCurrent
  <2>1. UNCHANGED <<objects, lost>>
    BY <1>2 DEF objects
  <2>2. VerdictHasRef(evalRun)' /\ StatusBacked' /\ Keeps /\ (~Exists' => evalRun' = Absent)
    BY <2>1, Quiet
  <2>3. Tracks'
    <3>1. UNCHANGED <<evalRun, cached, cacheCurrent>> /\ pc' = "idle"
      BY <1>2
    <3>2. cacheCurrent' => cached' = evalRun'
      BY <3>1 DEF Tracks
    <3> QED
      BY <2>2, <3>1, <3>2 DEF Tracks
  <2>4. CopySound'
    BY DEF CopySound
  <2> QED
    BY <2>2, <2>3, <2>4 DEF Rest
<1> QED
  BY <1>1, <1>2

(* Users and the garbage collector make the cache and the copy old. *)
LEMMA SetEvalRunStep ==
  ASSUME IInv, NEW r, SetEvalRun(r), r.uid = 0 => r = Absent,
         VerdictHasRef(r), ~lost' => Backed(r), Keeps
  PROVE  Rest'
<1> USE DEF SetEvalRun
<1>1. Tracks' /\ CopySound'
  BY DEF IInv, Tracks, CopySound, Exists
<1>2. VerdictHasRef(evalRun)' /\ StatusBacked'
  BY DEF VerdictHasRef, StatusBacked, Backed, WorkflowExists
<1> QED
  BY <1>1, <1>2 DEF Rest

LEMMA UserStep ==
  IInv /\ (CreateEvalRun \/ EditSuspend \/ DeleteEvalRun \/ FinishDeletion) => Rest' /\ Keeps
<1> SUFFICES ASSUME IInv, CreateEvalRun \/ EditSuspend \/ DeleteEvalRun \/ FinishDeletion
             PROVE  Rest' /\ Keeps
  OBVIOUS
<1> USE DEF IInv, TypeOK
<1>1. CASE CreateEvalRun
  <2>1. PICK s \in BOOLEAN : SetEvalRun(New(created + 1, s))
    BY <1>1 DEF CreateEvalRun
  <2>2. created + 1 \in Uid /\ created + 1 # 0
    BY <1>1, BoundsAssumption DEF CreateEvalRun, Uid
  <2> DEFINE r == New(created + 1, s)
  <2>3. r.uid = created + 1 /\ ~r.ref /\ r.verdict = "none" /\ r.phase = ""
    BY DEF New
  <2> HIDE DEF r
  <2>4. Keeps
    BY <1>1, <2>1, <2>2, <2>3 DEF Keeps, CreateEvalRun, SetEvalRun, Exists, r
  <2> QED
    BY <2>1, <2>2, <2>3, <2>4, SetEvalRunStep DEF VerdictHasRef, Backed, r
<1>2. ASSUME NEW r \in EvalRun, SetEvalRun(r), UNCHANGED lost, Exists,
             r.uid = evalRun.uid, r.ref = evalRun.ref, r.verdict = evalRun.verdict,
             r.phase = evalRun.phase
      PROVE  Rest' /\ Keeps
  <2>1. Keeps
    BY <1>2 DEF Keeps, SetEvalRun, StatusBacked, Backed
  <2> QED
    BY <1>2, <2>1, SetEvalRunStep DEF VerdictHasRef, StatusBacked, Backed, Exists
<1>3. ASSUME SetEvalRun(Absent), UNCHANGED lost, Exists PROVE Rest' /\ Keeps
  <2>1. Keeps
    BY <1>3, AbsentTyped DEF Keeps, SetEvalRun, Exists
  <2> QED
    BY <1>3, <2>1, AbsentTyped, SetEvalRunStep DEF VerdictHasRef, Backed
<1>4. CASE EditSuspend
  <2> DEFINE r == [evalRun EXCEPT !.suspend = ~evalRun.suspend]
  <2>0. r \in EvalRun
    BY EditsTyped
  <2>1. /\ r.uid = evalRun.uid /\ r.ref = evalRun.ref
        /\ r.verdict = evalRun.verdict /\ r.phase = evalRun.phase
    BY DEF EvalRun
  <2>2. SetEvalRun(r) /\ UNCHANGED lost /\ Exists
    BY <1>4 DEF EditSuspend
  <2> HIDE DEF r
  <2> QED
    BY <1>2, <2>0, <2>1, <2>2
<1>5. CASE DeleteEvalRun
  <2>1. CASE SetEvalRun(Absent)
    BY <1>3, <1>5, <2>1 DEF DeleteEvalRun
  <2>2. CASE SetEvalRun([evalRun EXCEPT !.deleting = TRUE])
    <3> DEFINE r == [evalRun EXCEPT !.deleting = TRUE]
    <3>0. r \in EvalRun
      BY EditsTyped
    <3>1. /\ r.uid = evalRun.uid /\ r.ref = evalRun.ref
          /\ r.verdict = evalRun.verdict /\ r.phase = evalRun.phase
      BY DEF EvalRun
    <3>2. SetEvalRun(r) /\ UNCHANGED lost /\ Exists
      BY <1>5, <2>2 DEF DeleteEvalRun
    <3> HIDE DEF r
    <3> QED
      BY <1>2, <3>0, <3>1, <3>2
  <2> QED
    BY <1>5, <2>1, <2>2 DEF DeleteEvalRun
<1>6. CASE FinishDeletion
  <2>1. Exists
    BY <1>6, AbsentDeletes DEF FinishDeletion, Tracks
  <2> QED
    BY <1>3, <1>6, <2>1 DEF FinishDeletion
<1> QED
  BY <1>1, <1>4, <1>5, <1>6

(* A Workflow only ends once, and when it goes, lost says so. *)
LEMMA WorkflowStep ==
  IInv /\ (WorkflowEnds \/ DeleteWorkflow \/ CollectWorkflow) => Rest' /\ Keeps
<1> SUFFICES ASSUME IInv, WorkflowEnds \/ DeleteWorkflow \/ CollectWorkflow
             PROVE  Rest' /\ Keeps
  OBVIOUS
<1>1. /\ UNCHANGED <<evalRun, cached, cacheCurrent, pc, my, myCurrent>>
      /\ lost => lost'
      /\ ~lost' => /\ workflow.phase = "Running"
                   /\ WorkflowExists => WorkflowExists'
  <2>1. CASE WorkflowEnds
    <3>1. PICK p \in {"Succeeded", "Failed"}, v \in Verdict :
            SetWorkflow([workflow EXCEPT !.phase = p, !.report = v])
      BY <2>1 DEF WorkflowEnds
    <3>2. workflow'.owner = workflow.owner
      BY <3>1 DEF SetWorkflow, IInv, TypeOK, Workflow
    <3> QED
      BY <2>1, <3>1, <3>2 DEF WorkflowEnds, SetWorkflow, WorkflowExists
  <2>2. CASE DeleteWorkflow \/ CollectWorkflow
    BY <2>2 DEF DeleteWorkflow, CollectWorkflow, SetWorkflow, IInv, TypeOK
  <2> QED
    BY <2>1, <2>2
<1>3. ASSUME NEW r, ~lost', Backed(r)
      PROVE  /\ r.verdict = "none"
             /\ r.ref => WorkflowExists'
             /\ r.phase # "Succeeded"
  BY <1>1, <1>3 DEF Backed
<1>4. Tracks' /\ VerdictHasRef(evalRun)'
  BY <1>1 DEF IInv, Tracks, VerdictHasRef, Exists
<1>5. StatusBacked' /\ Keeps
  BY <1>1, <1>3 DEF IInv, StatusBacked, Backed, Keeps
<1>6. CopySound'
  BY <1>1, <1>3 DEF IInv, CopySound, VerdictHasRef, Backed
<1> QED
  BY <1>4, <1>5, <1>6 DEF Rest

----------------------------------------------------------------------------
LEMMA InitIInv == Init => IInv
<1> SUFFICES ASSUME Init PROVE IInv
  OBVIOUS
<1>1. TypeOK
  <2>1. 0 \in Uid /\ 0 \in 0 .. MaxEdits /\ 0 \in 0 .. MaxTroubles
    BY BoundsAssumption DEF Uid
  <2> QED
    BY <2>1, AbsentTyped, WorkflowsTyped DEF Init, TypeOK
<1>2. Tracks /\ VerdictHasRef(evalRun) /\ CopySound /\ StatusBacked
  BY AbsentTyped DEF Init, Tracks, VerdictHasRef, CopySound, StatusBacked, Backed, Exists
<1> QED
  BY <1>1, <1>2 DEF IInv

LEMMA NextIInv == IInv /\ [Next]_vars => IInv' /\ (Keeps \/ UNCHANGED vars)
<1> SUFFICES ASSUME IInv, [Next]_vars PROVE IInv' /\ (Keeps \/ UNCHANGED vars)
  OBVIOUS
<1>1. TypeOK'
  BY TypeStep DEF IInv
<1>2. CASE Next
  <2>1. Rest' /\ Keeps
    BY <1>2, BeginStep, GetWorkflowStep, QueueStep, CreateWorkflowStep, WriteStatusStep,
       UserStep, WorkflowStep DEF Next, Reconcile
  <2> QED
    BY <1>1, <2>1 DEF IInv, Rest
<1>3. CASE UNCHANGED vars
  BY <1>1, <1>3 DEF IInv, Tracks, VerdictHasRef, CopySound, StatusBacked, Backed, Exists,
     WorkflowExists, vars, objects, controller
<1> QED
  BY <1>2, <1>3

LEMMA Invariance == Spec => []IInv
<1>1. IInv /\ [Next]_vars => IInv'
  BY NextIInv
<1> QED
  BY <1>1, InitIInv, PTL DEF Spec

(* The variables of EvalRunController keep their types. *)
THEOREM TypeCorrect == Spec => []TypeOK
<1>1. IInv => TypeOK
  BY DEF IInv
<1> QED
  BY <1>1, Invariance, PTL

(* Whatever crashes, conflicts and stale reads: what the status written by *)
(* setStatus claims, the Workflow bears out for as long as none has gone.  *)
THEOREM StatusIsBacked == Spec => []StatusBacked
<1>1. IInv => StatusBacked
  BY DEF IInv
<1> QED
  BY <1>1, Invariance, PTL

(* Reconcile never takes back a reference or a verdict it has recorded.    *)
THEOREM VerdictIsFinal == Spec => NeverForgets
<1>1. IInv /\ [Next]_vars => [Keeps]_vars
  BY NextIInv
<1>2. [][Keeps]_vars => NeverForgets
  BY PTL DEF NeverForgets, Keeps
<1> QED
  BY <1>1, <1>2, Invariance, PTL DEF Spec
============================================================================
