----------------- MODULE InferencePipelineControllerProofs -----------------
(***************************************************************************)
(* Theorems about InferencePipelineController, for any VoiceModels, specs  *)
(* and bounds: types, that a status is about the spec it is written to,    *)
(* and that no wake-up is lost.                                            *)
(***************************************************************************)
EXTENDS InferencePipelineController, TLAPS

(* A current cache is the object, a current copy has its spec, and an      *)
(* absent pipeline has no status.                                          *)
Tracks ==
  /\ cacheCurrent => pipelineCache = pipeline
  /\ myCurrent => my = pipeline.spec
  /\ Idle => ~myCurrent /\ found = <<>>
  /\ ~Exists => pipeline = Absent

(* What the cache of VoiceModels says of a stage. *)
Cached(stage) == IF stage.enabled THEN modelCache[stage.model] ELSE "disabled"

(* A finding f is what the cache says, or the stage's VoiceModel has       *)
(* changed since and its handler is still to be called.                    *)
Fresh(stage, f) == f = Cached(stage) \/ (stage.enabled /\ stage.model \in pending)

(* While Reconcile is at a current copy and nothing is queued behind it,   *)
(* its findings are fresh, or were read errors.                            *)
Watching ==
  ~Idle /\ myCurrent /\ cacheCurrent /\ ~queued /\ ~dropped =>
    \A i \in DOMAIN found : Fresh(my[i], found[i]) \/ found[i] = "error"

(* At rest, the status is what Settled asks for, but for the changes that  *)
(* are still to be handled.                                                *)
Resting ==
  Idle /\ ~queued /\ ~timer /\ cacheCurrent /\ ~dropped /\ Exists /\ ~pipeline.deleting =>
    LET s == pipeline.status IN
    /\ Len(s.stages) = Len(pipeline.spec)
    /\ s.phase = Aggregate([i \in DOMAIN s.stages |-> s.stages[i].says])
    /\ \A i \in DOMAIN s.stages :
         /\ s.stages[i].model = pipeline.spec[i].model
         /\ \/ Fresh(pipeline.spec[i], s.stages[i].says)
            \/ s.stages[i].says = "error" /\ s.phase = "Failed"

IInv == TypeOK /\ Tracks /\ Watching /\ Resting

(* StatusOfThisSpec of one step. *)
About ==
  pipeline'.status # pipeline.status /\ pipeline'.spec # <<>> =>
    /\ Len(pipeline'.status.stages) = Len(pipeline.spec)
    /\ \A i \in DOMAIN pipeline.spec :
         pipeline'.status.stages[i].model = pipeline.spec[i].model

----------------------------------------------------------------------------
(* Specs and what is made of them.                                         *)

LEMMA SpecsTyped ==
  /\ <<>> \notin Specs
  /\ \A s \in Specs \cup {<<>>} : s \in Seq(Stage)
<1>1. Specs \subseteq Seq(Stage) \ {<<>>}
  BY BoundsAssumption
<1>2. <<>> \in Seq(Stage)
  OBVIOUS
<1> QED BY <1>1, <1>2

LEMMA PipelineTyped ==
  ASSUME NEW p \in Pipeline
  PROVE  /\ p = [spec |-> p.spec, deleting |-> p.deleting, status |-> p.status]
         /\ p.spec \in Specs \cup {<<>>} /\ p.spec \in Seq(Stage)
         /\ p.deleting \in BOOLEAN /\ p.status \in Status
BY SpecsTyped DEF Pipeline

LEMMA NewTyped ==
  ASSUME NEW s \in Specs \cup {<<>>}
  PROVE  New(s) \in Pipeline /\ New(s).spec = s /\ ~New(s).deleting
BY DEF New, Pipeline, Status

LEMMA CachedTyped ==
  ASSUME NEW c \in [Models -> Model], NEW s \in Stage
  PROVE  (IF s.enabled THEN c[s.model] ELSE "disabled") \in Finding
BY DEF Stage, Finding

LEMMA StatusTyped ==
  ASSUME NEW s \in Seq(Stage), NEW fs \in Seq(Finding), Len(fs) = Len(s)
  PROVE  /\ StatusFor(s, fs) \in Status
         /\ StatusFor(s, fs).phase = Aggregate(fs)
         /\ DOMAIN StatusFor(s, fs).stages = DOMAIN s
         /\ DOMAIN fs = DOMAIN s
         /\ Len(StatusFor(s, fs).stages) = Len(s)
         /\ \A i \in DOMAIN s : /\ StatusFor(s, fs).stages[i].model = s[i].model
                                /\ StatusFor(s, fs).stages[i].says = fs[i]
<1> DEFINE st == [i \in DOMAIN s |-> [model |-> s[i].model, says |-> fs[i]]]
<1>1. DOMAIN s = 1 .. Len(s) /\ DOMAIN fs = DOMAIN s /\ Len(s) \in Nat
  OBVIOUS
<1>2. ASSUME NEW i \in DOMAIN s
      PROVE  st[i] \in Entry
  <2>1. s[i] \in Stage /\ fs[i] \in Finding
    BY <1>1
  <2>2. s[i].model \in Models
    BY <2>1 DEF Stage
  <2> QED BY <2>1, <2>2 DEF Entry
<1>3. st \in Seq(Entry) /\ Len(st) = Len(s) /\ DOMAIN st = DOMAIN s
  BY <1>1, <1>2
<1>4. Aggregate(fs) \in {"", "Validating", "Ready", "Degraded", "Failed"}
  BY DEF Aggregate
<1>5. StatusFor(s, fs) = [phase |-> Aggregate(fs), stages |-> st]
  BY DEF StatusFor
<1> HIDE DEF st
<1>6. StatusFor(s, fs) \in Status /\ StatusFor(s, fs).stages = st
      /\ StatusFor(s, fs).phase = Aggregate(fs)
  <2>1. [phase |-> Aggregate(fs), stages |-> st] \in Status
    <3> HIDE DEF Aggregate
    <3> QED BY <1>3, <1>4 DEF Status
  <2> QED BY <1>5, <2>1
<1> QED BY <1>1, <1>3, <1>6 DEF st

(* A status that sets no timer has read errors only if it is Failed. *)
LEMMA ErrorsRequeue ==
  ASSUME NEW fs \in Seq(Finding), NEW i \in DOMAIN fs, fs[i] = "error",
         ~Requeues(Aggregate(fs))
  PROVE  Aggregate(fs) = "Failed"
<1>1. "error" \in {fs[k] : k \in DOMAIN fs} \ {"disabled"}
  OBVIOUS
<1> QED BY <1>1 DEF Requeues, Aggregate

----------------------------------------------------------------------------
LEMMA InitStep == Init => IInv
<1> SUFFICES ASSUME Init PROVE IInv
  OBVIOUS
<1>1. pipeline \in Pipeline /\ (~Exists => pipeline = Absent)
  BY NewTyped DEF Init, Exists, Absent
<1>2. TypeOK
  <2>1. /\ edits \in 0 .. MaxEdits /\ changes \in 0 .. MaxChanges
        /\ troubles \in 0 .. MaxTroubles
    BY BoundsAssumption DEF Init
  <2>2. pending \subseteq Models
    BY DEF Init
  <2>3. /\ queued \in BOOLEAN /\ timer \in BOOLEAN /\ dropped \in BOOLEAN
        /\ cacheCurrent \in BOOLEAN /\ myCurrent \in BOOLEAN
    BY DEF Init, Exists
  <2>4. found \in Seq(Finding) /\ my \in Specs \cup {<<>>} /\ Len(found) <= Len(my)
    BY DEF Init
  <2> QED BY <1>1, <2>1, <2>2, <2>3, <2>4 DEF Init, TypeOK
<1> QED BY <1>1, <1>2 DEF Init, IInv, Tracks, Watching, Resting, Idle

LEMMA BeginStep ==
  ASSUME IInv, Begin
  PROVE  IInv' /\ About
<1>1. TypeOK'
  <2>1. pipelineCache.spec \in Specs \cup {<<>>}
    BY PipelineTyped DEF IInv, TypeOK
  <2>2. found = <<>>
    BY DEF IInv, Tracks, Begin
  <2>3. my' \in Specs \cup {<<>>} /\ myCurrent' \in BOOLEAN /\ my' \in Seq(Stage)
    BY <2>1, SpecsTyped DEF IInv, TypeOK, Begin
  <2>4. found' \in Seq(Finding) /\ Len(found') <= Len(my')
    BY <2>2, <2>3 DEF Begin
  <2>5. queued' = FALSE /\ dropped' = FALSE
    BY DEF Begin
  <2> QED BY <2>3, <2>4, <2>5 DEF IInv, TypeOK, Begin, objects, caches, budgets
<1>2. Tracks'
  BY DEF IInv, Tracks, Begin, objects, caches, Idle, Exists
<1>3. Watching'
  BY DEF IInv, Tracks, Watching, Begin, Idle
<1>4. Resting'
  BY DEF IInv, Tracks, Resting, Begin, objects, caches, Idle, Exists
<1> QED BY <1>1, <1>2, <1>3, <1>4 DEF IInv, About, Begin, objects

LEMMA ResolveStep ==
  ASSUME IInv, ResolveStage
  PROVE  IInv' /\ About
<1> DEFINE n == Len(found) + 1
<1>1. found \in Seq(Finding) /\ my \in Seq(Stage) /\ Len(found) < Len(my) /\ my # <<>>
  BY SpecsTyped DEF IInv, TypeOK, ResolveStage
<1>2. n \in DOMAIN my /\ my[n] \in Stage
  BY <1>1
<1>3. PICK f \in Finding :
        /\ found' = Append(found, f)
        /\ f = Cached(my[n]) \/ f = "error"
  BY <1>1, <1>2, CachedTyped DEF IInv, TypeOK, ResolveStage, Cached, Finding
<1>4. TypeOK'
  <2>1. found' \in Seq(Finding) /\ Len(found') <= Len(my)
    BY <1>1, <1>3
  <2>2. troubles' \in 0 .. MaxTroubles
    BY BoundsAssumption DEF IInv, TypeOK, ResolveStage, Trouble
  <2> QED BY <2>1, <2>2 DEF IInv, TypeOK, ResolveStage, objects, caches
<1>5. Tracks' /\ Resting'
  BY <1>1 DEF IInv, Tracks, Resting, ResolveStage, objects, caches, Idle, Exists
<1>6. Watching'
  <2> SUFFICES ASSUME myCurrent, cacheCurrent, ~queued, ~dropped, NEW i \in DOMAIN found'
               PROVE  Fresh(my[i], found'[i]) \/ found'[i] = "error"
    BY DEF Watching, ResolveStage, caches, Idle, Fresh, Cached
  <2>1. CASE i = n
    <3>1. found'[i] = f
      BY <1>1, <1>3, <2>1
    <3>2. f = Cached(my[i]) \/ f = "error"
      BY <1>3, <2>1
    <3> QED BY <3>1, <3>2 DEF Fresh
  <2>2. CASE i # n
    <3>1. i \in DOMAIN found /\ found'[i] = found[i]
      BY <1>1, <1>3, <2>2
    <3> QED BY <1>1, <3>1 DEF IInv, Watching, Idle
  <2> QED BY <2>1, <2>2
<1> QED BY <1>4, <1>5, <1>6 DEF IInv, About, ResolveStage, objects

(* Reconcile's copy, when its status is written: the status is StatusFor.  *)
LEMMA SetStatusStep ==
  ASSUME IInv, SetPipelineStatus
  PROVE  IInv' /\ About
<1> DEFINE s == StatusFor(my, found)
<1>1. found \in Seq(Finding) /\ my \in Seq(Stage) /\ my \in Specs \cup {<<>>}
      /\ Len(found) = Len(my) /\ my # <<>>
  BY SpecsTyped DEF IInv, TypeOK, SetPipelineStatus, Idle
<1>2. /\ s \in Status /\ s.phase = Aggregate(found)
      /\ DOMAIN s.stages = DOMAIN my /\ DOMAIN found = DOMAIN my /\ Len(s.stages) = Len(my)
      /\ \A i \in DOMAIN my : s.stages[i].model = my[i].model /\ s.stages[i].says = found[i]
  BY <1>1, StatusTyped
<1> HIDE DEF s
<1>3. my' = <<>> /\ found' = <<>> /\ myCurrent' = FALSE
  BY DEF SetPipelineStatus, Return
<1>a. CASE /\ Accepted
           /\ pipeline' = [pipeline EXCEPT !.status = s]
           /\ cacheCurrent' = (cacheCurrent /\ ~IsNew(s))
           /\ timer' = (timer \/ Requeues(s.phase))
           /\ UNCHANGED <<queued, troubles>>
  <2>1. my = pipeline.spec /\ pipeline \in Pipeline /\ Exists
    BY <1>a, <1>1 DEF IInv, TypeOK, Tracks, Accepted, Exists
  <2>2. /\ pipeline' \in Pipeline /\ pipeline'.spec = my
        /\ pipeline'.status = s /\ pipeline'.deleting = pipeline.deleting
    BY <1>a, <1>1, <1>2, <2>1 DEF Pipeline
  <2>3. cacheCurrent' => cacheCurrent /\ pipeline' = pipeline
    BY <1>a, <2>1, <2>2 DEF IsNew, Pipeline
  <2>4. TypeOK'
    <3>1. /\ models' = models /\ modelCache' = modelCache /\ pipelineCache' = pipelineCache
          /\ pending' = pending /\ edits' = edits /\ changes' = changes /\ dropped' = dropped
          /\ queued' = queued /\ troubles' = troubles
      BY <1>a DEF SetPipelineStatus
    <3>2. cacheCurrent' \in BOOLEAN /\ timer' \in BOOLEAN
      BY <1>a
    <3>3. found' \in Seq(Finding) /\ my' \in Specs \cup {<<>>} /\ Len(found') <= Len(my')
      BY <1>3
    <3>4. myCurrent' \in BOOLEAN
      BY <1>3
    <3> QED BY <2>2, <3>1, <3>2, <3>3, <3>4 DEF IInv, TypeOK
  <2>5. Tracks'
    BY <1>1, <1>3, <2>2, <2>3 DEF IInv, Tracks, SetPipelineStatus, Idle, Exists
  <2>6. Watching'
    BY <1>3 DEF Watching, Idle
  <2>7. Resting'
    <3>a. /\ modelCache' = modelCache /\ pending' = pending
          /\ queued' = queued /\ dropped' = dropped
      BY <1>a DEF SetPipelineStatus
    <3> SUFFICES ASSUME ~queued, ~timer', cacheCurrent', ~dropped
                 PROVE  /\ Len(s.stages) = Len(my)
                        /\ s.phase = Aggregate([i \in DOMAIN s.stages |-> s.stages[i].says])
                        /\ \A i \in DOMAIN s.stages :
                             /\ s.stages[i].model = my[i].model
                             /\ \/ Fresh(my[i], s.stages[i].says)
                                \/ s.stages[i].says = "error" /\ s.phase = "Failed"
      BY <2>2, <3>a DEF Resting, Fresh, Cached
    <3>1. found = [i \in DOMAIN s.stages |-> s.stages[i].says]
      BY <1>1, <1>2
    <3>2. ASSUME NEW i \in DOMAIN my
          PROVE  Fresh(my[i], found[i]) \/ (found[i] = "error" /\ s.phase = "Failed")
      <4>1. Fresh(my[i], found[i]) \/ found[i] = "error"
        BY <1>a, <1>1, <1>2, <2>3 DEF IInv, Watching, Idle, Accepted
      <4>2. ~Requeues(Aggregate(found))
        BY <1>a, <1>2
      <4>3. ASSUME found[i] = "error"
            PROVE  Aggregate(found) = "Failed"
        BY <4>2, <4>3, <1>1, <1>2, ErrorsRequeue
      <4> QED BY <4>1, <4>3, <1>2
    <3> QED BY <1>2, <3>1, <3>2
  <2>8. About
    BY <1>2, <2>1, <2>2 DEF About
  <2> QED BY <2>4, <2>5, <2>6, <2>7, <2>8 DEF IInv
<1>b. CASE queued' = TRUE /\ UNCHANGED <<pipeline, cacheCurrent, timer>>
           /\ (UNCHANGED troubles \/ Trouble)
  <2>1. TypeOK'
    <3>1. /\ models' = models /\ modelCache' = modelCache /\ pipelineCache' = pipelineCache
          /\ pending' = pending /\ edits' = edits /\ changes' = changes /\ dropped' = dropped
          /\ pipeline' = pipeline /\ cacheCurrent' = cacheCurrent /\ timer' = timer
      BY <1>b DEF SetPipelineStatus
    <3>2. troubles' \in 0 .. MaxTroubles
      BY <1>b, BoundsAssumption DEF IInv, TypeOK, Trouble
    <3>3. found' \in Seq(Finding) /\ my' \in Specs \cup {<<>>} /\ Len(found') <= Len(my')
      BY <1>3
    <3>4. myCurrent' \in BOOLEAN /\ queued' \in BOOLEAN
      BY <1>b, <1>3
    <3> QED BY <3>1, <3>2, <3>3, <3>4 DEF IInv, TypeOK
  <2>2. Tracks' /\ Watching' /\ Resting'
    BY <1>b, <1>3 DEF IInv, Tracks, Watching, Resting, SetPipelineStatus, Idle, Exists
  <2> QED BY <1>b, <2>1, <2>2 DEF IInv, About
<1> QED BY <1>a, <1>b DEF SetPipelineStatus, s

LEMMA SyncPipelineStep ==
  ASSUME IInv, SyncPipeline
  PROVE  IInv' /\ About
BY DEF SyncPipeline, IInv, TypeOK, Tracks, Watching, Resting, About, Idle, Exists, objects,
       reconciler, budgets

(* The cache of m is brought up to date, and the handler is to be called.  *)
CacheMoves(m) ==
  /\ modelCache' = [modelCache EXCEPT ![m] = models[m]]
  /\ pending' = pending \cup {m}
  /\ UNCHANGED <<objects, pipelineCache, cacheCurrent, reconciler, queued, timer, budgets, dropped>>

(* A finding stays fresh when a cache changes, for it is then pending.     *)
LEMMA CacheFresh ==
  ASSUME TypeOK, NEW m \in Models, CacheMoves(m), NEW stage \in Stage, NEW f, Fresh(stage, f)
  PROVE  Fresh(stage, f)'
BY DEF CacheMoves, Fresh, Cached, TypeOK, Stage

LEMMA CacheStep ==
  ASSUME IInv, NEW m \in Models, CacheMoves(m)
  PROVE  IInv' /\ About
<1>1. TypeOK'
  BY DEF CacheMoves, IInv, TypeOK, objects, reconciler, budgets
<1>2. Tracks'
  BY DEF CacheMoves, IInv, Tracks, objects, reconciler, Idle, Exists
<1>3. Watching'
  <2> SUFFICES ASSUME ~Idle, myCurrent, cacheCurrent, ~queued, ~dropped, NEW i \in DOMAIN found
               PROVE  Fresh(my[i], found[i])' \/ found[i] = "error"
    BY DEF Watching, CacheMoves, reconciler, Idle
  <2>1. my[i] \in Stage
    BY SpecsTyped DEF IInv, TypeOK
  <2>2. Fresh(my[i], found[i]) \/ found[i] = "error"
    BY DEF IInv, Watching
  <2>3. my' = my /\ found' = found
    BY DEF CacheMoves, reconciler
  <2> QED BY <2>1, <2>2, <2>3, CacheFresh DEF IInv, Fresh, Cached
<1>4. Resting'
  <2> SUFFICES ASSUME Idle, ~queued, ~timer, cacheCurrent, ~dropped, Exists, ~pipeline.deleting
               PROVE  Resting'
    BY DEF Resting, CacheMoves, objects, reconciler, Idle, Exists
  <2> DEFINE st == pipeline.status.stages
  <2>1. /\ Len(st) = Len(pipeline.spec)
        /\ pipeline.status.phase = Aggregate([i \in DOMAIN st |-> st[i].says])
        /\ \A i \in DOMAIN st :
             /\ st[i].model = pipeline.spec[i].model
             /\ \/ Fresh(pipeline.spec[i], st[i].says)
                \/ st[i].says = "error" /\ pipeline.status.phase = "Failed"
    BY DEF IInv, Resting
  <2>2. st \in Seq(Entry) /\ pipeline.spec \in Seq(Stage)
    BY PipelineTyped DEF IInv, TypeOK, Status
  <2>3. \A i \in DOMAIN st : pipeline.spec[i] \in Stage
    BY <2>1, <2>2
  <2>4. pipeline' = pipeline
    BY DEF CacheMoves, objects
  <2>5. \A i \in DOMAIN st :
          \/ (IF pipeline.spec[i].enabled THEN modelCache'[pipeline.spec[i].model]
              ELSE "disabled") = st[i].says
          \/ pipeline.spec[i].enabled /\ pipeline.spec[i].model \in pending'
          \/ st[i].says = "error" /\ pipeline.status.phase = "Failed"
    BY <2>1, <2>3 DEF CacheMoves, Fresh, Cached, IInv, TypeOK, Stage
  <2> QED BY <2>1, <2>4, <2>5 DEF Resting, Fresh, Cached
<1> QED BY <1>1, <1>2, <1>3, <1>4 DEF IInv, About, CacheMoves, objects

LEMMA SyncModelStep ==
  ASSUME IInv, NEW m \in Models, SyncModel(m)
  PROVE  IInv' /\ About
BY CacheStep DEF SyncModel, CacheMoves

(* The handler queues the pipeline for any stage that is on m. *)
LEMMA DeliverStep ==
  ASSUME IInv, NEW m \in Models, Deliver(m)
  PROVE  IInv' /\ About
<1>0. /\ pipeline' = pipeline /\ pipelineCache' = pipelineCache /\ cacheCurrent' = cacheCurrent
      /\ models' = models /\ modelCache' = modelCache /\ my' = my /\ found' = found
      /\ myCurrent' = myCurrent /\ timer' = timer /\ pending' = pending \ {m}
      /\ edits' = edits /\ changes' = changes
  BY DEF Deliver, objects, caches, reconciler
<1>1. TypeOK'
  <2>1. troubles' \in 0 .. MaxTroubles
    BY BoundsAssumption DEF Deliver, IInv, TypeOK, Trouble
  <2>2. queued' \in BOOLEAN /\ dropped' \in BOOLEAN
    BY DEF Deliver, IInv, TypeOK
  <2> QED BY <1>0, <2>1, <2>2 DEF IInv, TypeOK
<1>2. Tracks'
  BY <1>0 DEF IInv, Tracks, Idle, Exists
<1>3. ASSUME ~queued', ~dropped'
      PROVE  ~queued /\ ~dropped /\ ~Refers(pipelineCache.spec, m)
  <2>1. queued \in BOOLEAN /\ dropped \in BOOLEAN
    BY DEF IInv, TypeOK
  <2>2. \/ queued' = (queued \/ Refers(pipelineCache.spec, m)) /\ dropped' = dropped
        \/ dropped' = (dropped \/ Refers(pipelineCache.spec, m)) /\ queued' = queued
    BY DEF Deliver
  <2> QED BY <1>3, <2>1, <2>2
<1>4. Watching'
  <2> SUFFICES ASSUME ~Idle, myCurrent, cacheCurrent, ~queued', ~dropped', NEW i \in DOMAIN found
               PROVE  Fresh(my[i], found[i])' \/ found[i] = "error"
    BY <1>0 DEF Watching, Idle
  <2>1. Fresh(my[i], found[i]) \/ found[i] = "error"
    BY <1>3 DEF IInv, Watching
  <2>2. my = pipelineCache.spec /\ i \in DOMAIN my
    BY SpecsTyped DEF IInv, TypeOK, Tracks
  <2>3. my[i].model # m
    BY <1>3, <2>2 DEF Refers
  <2> QED BY <1>0, <2>1, <2>3 DEF Fresh, Cached
<1>5. Resting'
  <2> SUFFICES ASSUME Idle, ~queued', ~timer, cacheCurrent, ~dropped', Exists, ~pipeline.deleting
               PROVE  Resting'
    BY <1>0 DEF Resting, Idle, Exists
  <2> DEFINE st == pipeline.status.stages
  <2>1. /\ Len(st) = Len(pipeline.spec)
        /\ pipeline.status.phase = Aggregate([i \in DOMAIN st |-> st[i].says])
        /\ \A i \in DOMAIN st :
             /\ st[i].model = pipeline.spec[i].model
             /\ \/ Fresh(pipeline.spec[i], st[i].says)
                \/ st[i].says = "error" /\ pipeline.status.phase = "Failed"
    BY <1>3 DEF IInv, Resting
  <2>2. st \in Seq(Entry) /\ pipeline.spec \in Seq(Stage) /\ pipelineCache = pipeline
    BY PipelineTyped DEF IInv, TypeOK, Status, Tracks
  <2>3. \A i \in DOMAIN st : pipeline.spec[i].model # m
    BY <1>3, <2>1, <2>2 DEF Refers
  <2>4. \A i \in DOMAIN st :
          \/ (IF pipeline.spec[i].enabled THEN modelCache[pipeline.spec[i].model]
              ELSE "disabled") = st[i].says
          \/ pipeline.spec[i].enabled /\ pipeline.spec[i].model \in pending'
          \/ st[i].says = "error" /\ pipeline.status.phase = "Failed"
    BY <1>0, <2>1, <2>3 DEF Fresh, Cached
  <2> QED BY <1>0, <2>1, <2>4 DEF Resting, Fresh, Cached
<1> QED BY <1>0, <1>1, <1>2, <1>4, <1>5 DEF IInv, About

LEMMA TimerStep ==
  ASSUME IInv, TimerFires
  PROVE  IInv' /\ About
BY DEF TimerFires, IInv, TypeOK, Tracks, Watching, Resting, About, Idle, Exists, objects, caches,
       reconciler, budgets

LEMMA RestartStep ==
  ASSUME IInv, Restart
  PROVE  IInv' /\ About
<1>1. TypeOK'
  <2>2. queued' \in BOOLEAN
    BY DEF Restart, Exists
  <2>3. troubles' \in 0 .. MaxTroubles
    BY BoundsAssumption DEF Restart, Trouble, IInv, TypeOK
  <2>4. found' \in Seq(Finding) /\ my' \in Specs \cup {<<>>} /\ Len(found') <= Len(my')
    BY DEF Restart, Return
  <2>5. pending' \subseteq Models
    BY DEF Restart
  <2> QED BY <2>2, <2>3, <2>4, <2>5 DEF Restart, Return, IInv, TypeOK, objects
<1>2. Tracks' /\ Watching' /\ Resting'
  BY DEF Restart, Return, IInv, Tracks, Watching, Resting, Idle, Exists, objects
<1> QED BY <1>1, <1>2 DEF IInv, About, Restart, objects

LEMMA SetPipelineStep ==
  ASSUME IInv, NEW p \in Pipeline, SetPipeline(p), p.spec = <<>> => p = Absent
  PROVE  IInv'
<1>1. TypeOK'
  <2>1. edits' \in 0 .. MaxEdits
    BY BoundsAssumption DEF SetPipeline, IInv, TypeOK
  <2> QED BY <2>1 DEF SetPipeline, IInv, TypeOK
<1>2. Tracks' /\ Watching' /\ Resting'
  BY DEF SetPipeline, IInv, Tracks, Watching, Resting, Idle, Exists
<1> QED BY <1>1, <1>2 DEF IInv

LEMMA UsersStep ==
  ASSUME IInv, Users
  PROVE  IInv' /\ About
<1>0. pipeline \in Pipeline
  BY DEF IInv, TypeOK
<1>1. CASE CreatePipeline
  <2>1. PICK s \in Specs : SetPipeline(New(s))
    BY <1>1 DEF CreatePipeline
  <2>2. pipeline = Absent /\ pipeline' = New(s)
    BY <1>1, <2>1 DEF CreatePipeline, IInv, Tracks, SetPipeline
  <2>3. pipeline'.status = pipeline.status
    BY <2>2 DEF Absent, New
  <2> QED BY <2>1, <2>3, NewTyped, SpecsTyped, SetPipelineStep DEF About
<1>2. CASE EditPipeline
  <2>1. PICK s \in Specs : SetPipeline([pipeline EXCEPT !.spec = s])
    BY <1>2 DEF EditPipeline
  <2>2. [pipeline EXCEPT !.spec = s] \in Pipeline /\ [pipeline EXCEPT !.spec = s].spec = s
        /\ [pipeline EXCEPT !.spec = s].status = pipeline.status
    BY <1>0 DEF Pipeline
  <2> QED BY <2>1, <2>2, SpecsTyped, SetPipelineStep DEF About, SetPipeline
<1>3. CASE Exists /\ SetPipeline(Absent)
  BY <1>3, NewTyped, SetPipelineStep DEF About, SetPipeline, Absent
<1>4. CASE Exists /\ SetPipeline([pipeline EXCEPT !.deleting = TRUE])
  <2>1. [pipeline EXCEPT !.deleting = TRUE] \in Pipeline
        /\ [pipeline EXCEPT !.deleting = TRUE].spec = pipeline.spec
        /\ [pipeline EXCEPT !.deleting = TRUE].status = pipeline.status
    BY <1>0 DEF Pipeline
  <2> QED BY <1>4, <2>1, SetPipelineStep DEF About, SetPipeline, Exists
<1> QED BY <1>1, <1>2, <1>3, <1>4 DEF Users, DeletePipeline

(* VoiceModels change, and their caches do not know yet. *)
LEMMA ModelsStep ==
  ASSUME IInv, models' \in [Models -> Model],
         changes' \in 0 .. MaxChanges, troubles' \in 0 .. MaxTroubles,
         UNCHANGED <<pipeline, caches, pending, reconciler, queued, timer, edits, dropped>>
  PROVE  IInv' /\ About
<1>1. /\ pipeline' = pipeline /\ pipelineCache' = pipelineCache /\ cacheCurrent' = cacheCurrent
      /\ modelCache' = modelCache /\ my' = my /\ found' = found /\ myCurrent' = myCurrent
      /\ timer' = timer /\ pending' = pending /\ queued' = queued /\ dropped' = dropped
      /\ edits' = edits
  BY DEF caches, reconciler
<1>2. TypeOK'
  BY <1>1 DEF IInv, TypeOK
<1> QED BY <1>1, <1>2 DEF IInv, Tracks, Watching, Resting, Fresh, Cached, About, Idle, Exists

LEMMA ModelStep ==
  ASSUME IInv, NEW m \in Models, ModelChanges(m)
  PROVE  IInv' /\ About
<1>1. models' \in [Models -> Model] /\ changes' \in 0 .. MaxChanges
      /\ troubles' \in 0 .. MaxTroubles
  BY BoundsAssumption DEF ModelChanges, IInv, TypeOK
<1> QED BY <1>1, ModelsStep DEF ModelChanges

LEMMA NextStep == IInv /\ [Next]_vars => IInv' /\ (About \/ UNCHANGED vars)
<1> SUFFICES ASSUME IInv, [Next]_vars PROVE IInv' /\ (About \/ UNCHANGED vars)
  OBVIOUS
<1>1. CASE Reconcile
  BY <1>1, BeginStep, ResolveStep, SetStatusStep DEF Reconcile
<1>2. CASE Informers
  BY <1>2, SyncPipelineStep, SyncModelStep, DeliverStep DEF Informers
<1>3. CASE TimerFires \/ Restart \/ Users
  BY <1>3, TimerStep, RestartStep, UsersStep
<1>4. CASE \E m \in Models : ModelChanges(m)
  BY <1>4, ModelStep
<1>5. CASE UNCHANGED vars
  BY <1>5 DEF vars, objects, caches, reconciler, budgets, IInv, TypeOK, Tracks, Watching, Resting,
              Fresh, Cached, Idle, Exists
<1> QED BY <1>1, <1>2, <1>3, <1>4, <1>5 DEF Next

(* With nothing pending the caches are right, so a status at rest is.      *)
LEMMA RestIsRight == IInv => NoWakeupLost
<1> SUFFICES ASSUME IInv, Quiet, ~dropped, Exists, ~pipeline.deleting PROVE Settled
  BY DEF NoWakeupLost, Settled
<1>1. pipeline.status.stages \in Seq(Entry) /\ pipeline.spec \in Seq(Stage)
  BY PipelineTyped DEF IInv, TypeOK, Status
<1> QED BY <1>1 DEF IInv, Resting, Quiet, Settled, Fresh, Cached, Truth

----------------------------------------------------------------------------
THEOREM Invariance == Spec => []IInv
<1>1. Init => IInv
  BY InitStep
<1>2. IInv /\ [Next]_vars => IInv'
  BY NextStep
<1> QED BY <1>1, <1>2, PTL DEF Spec

(* The variables keep their types. *)
THEOREM TypeCorrect == Spec => []TypeOK
<1>1. IInv => TypeOK
  BY DEF IInv
<1> QED BY <1>1, Invariance, PTL

(* setPipelineStatus never gives a pipeline a status about stages it no    *)
(* longer has: the update is made from the copy that was read, and refused *)
(* when that is old.                                                       *)
THEOREM StatusIsOfThisSpec == Spec => StatusOfThisSpec
<1>1. IInv /\ [Next]_vars => [About]_vars
  BY NextStep
<1>2. About =>
        (pipeline'.status # pipeline.status /\ pipeline'.spec # <<>> =>
           /\ Len(pipeline'.status.stages) = Len(pipeline.spec)
           /\ \A i \in DOMAIN pipeline.spec :
                pipeline'.status.stages[i].model = pipeline.spec[i].model)
  BY DEF About
<1> QED BY <1>1, <1>2, Invariance, PTL DEF Spec, StatusOfThisSpec

(* However VoiceModels change, and informers and Reconcile interleave: if  *)
(* mapVoiceModelToPipelines lists the pipelines, none that is wrong about  *)
(* its stages is left at rest.                                             *)
THEOREM WakeupsKept == Spec => []NoWakeupLost
<1>1. IInv => NoWakeupLost
  BY RestIsRight
<1> QED BY <1>1, Invariance, PTL
============================================================================
