------------------------ MODULE GatewayServerProofs ------------------------
(***************************************************************************)
(* Theorems about GatewayServer, for any requests and timeouts: types, the *)
(* metrics, and when an answer arrives.                                    *)
(***************************************************************************)
EXTENDS GatewayServer, FiniteSetTheorems, TLAPS

(* The routes that the later phases belong to. *)
RouteOf(r) ==
  /\ phase[r] = "later" => kind[r] = "pipeline"
  /\ phase[r] = "stream" => kind[r] = "stream"

(* Until Whisper has been asked and answered, a request is no older than   *)
(* the longest upload and the wait for Whisper together.                   *)
InTime(r) ==
  /\ phase[r] = "none" => age[r] = 0 /\ wait[r] = 0
  /\ phase[r] = "upload" => age[r] <= ReadTimeout /\ wait[r] = 0
  /\ phase[r] = "whisper" => age[r] <= wait[r] + ReadTimeout

(* The gauge, also after the end. *)
Gauge == inFlight = Cardinality(RunningNow)

(* Nothing runs behind the end of the process. *)
AtEnd == mode = "stopped" => RunningNow = {}

Counted ==
  mode # "stopped" => \A r \in Requests : counted[r] # "none" <=> phase[r] = "done"

Inv ==
  /\ Gauge /\ AtEnd /\ Counted
  /\ \A r \in Requests : RouteOf(r) /\ InTime(r)

IInv == TypeOK /\ Inv

(* QuickAnswerArrives of one step. *)
Quick ==
  \A r \in Requests :
    got'[r] # got[r] /\ got'[r] = "lost" /\ kind[r] = "transcribe" /\ r \notin gone
      => wait[r] + ReadTimeout >= WriteTimeout

----------------------------------------------------------------------------
(* Handlers that run can be counted, ...                                   *)
LEMMA Countable ==
  /\ IsFiniteSet(RunningNow) /\ Cardinality(RunningNow) \in Nat
  /\ Cardinality(RunningNow) <= Cardinality(Requests) /\ Cardinality(Requests) \in Nat
<1>1. RunningNow \in SUBSET Requests
  BY DEF RunningNow
<1> QED BY <1>1, TimesAssumption, FS_Subset, FS_CardinalityType

(* ... also after a step, ...                                              *)
LEMMA CountableNext ==
  /\ IsFiniteSet(RunningNow') /\ Cardinality(RunningNow') \in Nat
  /\ Cardinality(RunningNow') <= Cardinality(Requests)
<1>1. RunningNow' \in SUBSET Requests
  BY DEF RunningNow
<1> QED BY <1>1, TimesAssumption, FS_Subset, FS_CardinalityType

(* ... one more when a request arrives, ...                                *)
LEMMA OneMore ==
  ASSUME TypeOK, NEW r \in Requests, phase[r] \notin Running, NEW p \in Running,
         phase' = [phase EXCEPT ![r] = p]
  PROVE  Cardinality(RunningNow') = Cardinality(RunningNow) + 1
<1>1. RunningNow' = RunningNow \cup {r} /\ r \notin RunningNow
  BY DEF RunningNow, TypeOK
<1> QED BY <1>1, Countable, FS_AddElement

(* ... and one less when its handler returns.                              *)
LEMMA OneLess ==
  ASSUME TypeOK, NEW r \in Requests, phase[r] \in Running,
         phase' = [phase EXCEPT ![r] = "done"]
  PROVE  Cardinality(RunningNow') = Cardinality(RunningNow) - 1
<1>1. RunningNow' = RunningNow \ {r} /\ r \in RunningNow
  BY DEF RunningNow, TypeOK, Running
<1> QED BY <1>1, Countable, FS_RemoveElement

(* Moving on within a handler changes nothing. *)
LEMMA AsMany ==
  ASSUME TypeOK, NEW r \in Requests, phase[r] \in Running, NEW p \in Running,
         phase' = [phase EXCEPT ![r] = p]
  PROVE  RunningNow' = RunningNow
BY DEF RunningNow, TypeOK

(* While a handler runs, the process does. *)
LEMMA NotStopped ==
  ASSUME IInv, NEW r \in Requests, phase[r] \in Running
  PROVE  mode # "stopped"
BY DEF IInv, Inv, AtEnd, RunningNow

----------------------------------------------------------------------------
LEMMA InitStep == Init => IInv
<1> SUFFICES ASSUME Init PROVE IInv
  OBVIOUS
<1>1. RunningNow = {}
  BY DEF Init, RunningNow, Running
<1>2. Gauge
  BY <1>1, FS_EmptySet DEF Init, Gauge
<1>3. TypeOK
  <2>1. inFlight \in 0 .. Cardinality(Requests)
    BY Countable DEF Init
  <2> QED BY <2>1, TimesAssumption DEF Init, TypeOK
<1>4. AtEnd /\ Counted
  BY DEF Init, AtEnd, Counted
<1>5. \A r \in Requests : RouteOf(r) /\ InTime(r)
  BY DEF Init, RouteOf, InTime
<1> QED BY <1>2, <1>3, <1>4, <1>5 DEF IInv, Inv

LEMMA ArriveStep ==
  ASSUME IInv, NEW r \in Requests, Arrive(r)
  PROVE  IInv' /\ Quick
<1> DEFINE p == CASE kind[r] = "ready"  -> "whisper"
                  [] kind[r] = "stream" -> "stream"
                  [] OTHER              -> "upload"
<1>1. p \in Running /\ (p = "stream" => kind[r] = "stream") /\ p # "later"
  BY DEF Running
<1>2. phase' = [phase EXCEPT ![r] = p] /\ phase[r] \notin Running
  BY DEF Arrive, Running
<1> HIDE DEF p
<1>3. Gauge'
  BY <1>1, <1>2, OneMore DEF IInv, Inv, Gauge, Arrive
<1>4. TypeOK'
  <2>1. inFlight' \in 0 .. Cardinality(Requests)
    BY <1>3, CountableNext, Countable DEF Gauge
  <2> QED BY <1>1, <1>2, <2>1 DEF IInv, TypeOK, Arrive, process
<1>5. AtEnd' /\ Counted'
  BY <1>1, <1>2 DEF IInv, TypeOK, Inv, AtEnd, Counted, Arrive, process, Running
<1>6. \A q \in Requests : (RouteOf(q) /\ InTime(q))'
  BY <1>1, <1>2, TimesAssumption DEF IInv, TypeOK, Inv, RouteOf, InTime, Arrive, Running
<1> QED BY <1>3, <1>4, <1>5, <1>6 DEF IInv, Inv, Quick, Arrive

LEMMA RefuseStep ==
  ASSUME IInv, NEW r \in Requests, RefuseStream(r)
  PROVE  IInv' /\ Quick
<1>1. RunningNow' = RunningNow
  BY DEF RefuseStream, RunningNow, Running, IInv, TypeOK
<1>2. TypeOK'
  BY DEF RefuseStream, IInv, TypeOK, process, Code
<1>3. Gauge' /\ AtEnd' /\ Counted'
  BY <1>1 DEF RefuseStream, IInv, TypeOK, Inv, Gauge, AtEnd, Counted, process
<1>4. \A q \in Requests : (RouteOf(q) /\ InTime(q))'
  BY DEF RefuseStream, IInv, TypeOK, Inv, RouteOf, InTime
<1>5. Quick
  BY DEF RefuseStream, IInv, TypeOK, Quick
<1> QED BY <1>2, <1>3, <1>4, <1>5 DEF IInv, Inv

LEMMA FinishStep ==
  ASSUME IInv, NEW r \in Requests, phase[r] \in Running, NEW code \in Code, Finish(r, code)
  PROVE  IInv' /\ Quick
<1>1. phase' = [phase EXCEPT ![r] = "done"]
  BY DEF Finish
<1>2. Gauge'
  BY <1>1, OneLess DEF IInv, Inv, Gauge, Finish
<1>3. Got(r, code) \in Code \cup {"lost"} /\ Got(r, code) # "cut"
  BY DEF Got, Code
<1>4. TypeOK'
  <2>1. inFlight' \in 0 .. Cardinality(Requests)
    BY <1>2, CountableNext, Countable DEF Gauge
  <2> QED BY <1>1, <1>3, <2>1, TimesAssumption DEF IInv, TypeOK, Finish, process
<1>5. AtEnd' /\ Counted'
  BY <1>1, <1>3, NotStopped
  DEF IInv, TypeOK, Inv, AtEnd, Counted, Finish, process, Running, RunningNow, Code
<1>6. \A q \in Requests : (RouteOf(q) /\ InTime(q))'
  BY <1>1 DEF IInv, TypeOK, Inv, RouteOf, InTime, Finish, Running
<1>7. Quick
  <2> SUFFICES ASSUME got'[r] = "lost", kind[r] = "transcribe", r \notin gone
               PROVE  wait[r] + ReadTimeout >= WriteTimeout
    BY DEF Quick, Finish, IInv, TypeOK
  <2>1. age[r] = WriteTimeout
    BY DEF Finish, IInv, TypeOK, Got, Code
  <2>2. phase[r] \in {"upload", "whisper"}
    BY DEF IInv, Inv, RouteOf, Running
  <2> QED BY <2>1, <2>2, TimesAssumption DEF IInv, Inv, InTime, TypeOK
<1> QED BY <1>2, <1>4, <1>5, <1>6, <1>7 DEF IInv, Inv

LEMMA EnterStep ==
  ASSUME IInv, NEW r \in Requests, phase[r] \in Running, NEW p \in {"whisper", "later"},
         p = "later" => kind[r] = "pipeline",
         p = "whisper" => phase[r] = "upload",
         Enter(r, p)
  PROVE  IInv' /\ Quick
<1>1. phase' = [phase EXCEPT ![r] = p] /\ p \in Running
  BY DEF Enter, Running
<1>2. RunningNow' = RunningNow
  BY <1>1, AsMany DEF IInv
<1>3. TypeOK'
  BY <1>1, TimesAssumption DEF IInv, TypeOK, Enter, process
<1>4. Gauge' /\ AtEnd' /\ Counted'
  BY <1>1, <1>2
  DEF IInv, TypeOK, Inv, Gauge, AtEnd, Counted, Enter, process, Running
<1>5. \A q \in Requests : (RouteOf(q) /\ InTime(q))'
  BY <1>1, TimesAssumption DEF IInv, TypeOK, Inv, RouteOf, InTime, Enter
<1> QED BY <1>3, <1>4, <1>5 DEF IInv, Inv, Quick, Enter

LEMMA HandlerStep ==
  ASSUME IInv, NEW r \in Requests, Step(r)
  PROVE  IInv' /\ Quick
<1> USE DEF Running, Code
<1>1. CASE Arrive(r)
  BY <1>1, ArriveStep
<1>2. CASE UploadEnds(r)
  BY <1>2, EnterStep DEF UploadEnds
<1>3. CASE UploadFails(r)
  BY <1>3, FinishStep DEF UploadFails
<1>4. CASE WhisperAnswers(r)
  BY <1>4, EnterStep, FinishStep DEF WhisperAnswers
<1>5. CASE WhisperFails(r)
  BY <1>5, FinishStep DEF WhisperFails
<1>6. CASE LaterEnds(r)
  BY <1>6, FinishStep DEF LaterEnds
<1>7. CASE StreamEnds(r)
  BY <1>7, FinishStep DEF StreamEnds
<1>8. CASE Panic(r)
  BY <1>8, FinishStep DEF Panic
<1>9. CASE ClientLeaves(r)
  <2>1. RunningNow' = RunningNow
    BY <1>9 DEF ClientLeaves, RunningNow
  <2> QED BY <1>9, <2>1
          DEF ClientLeaves, process, IInv, TypeOK, Inv, Gauge, AtEnd, Counted,
              RouteOf, InTime, Quick
<1>10. CASE RefuseStream(r)
  BY <1>10, RefuseStep
<1> QED BY <1>1, <1>2, <1>3, <1>4, <1>5, <1>6, <1>7, <1>8, <1>9, <1>10 DEF Step

LEMMA SignalStep ==
  ASSUME IInv, Signal
  PROVE  IInv' /\ Quick
<1>1. RunningNow' = RunningNow
  BY DEF Signal, requests, RunningNow
<1> QED BY <1>1
        DEF Signal, requests, IInv, TypeOK, Inv, Gauge, AtEnd, Counted,
            RouteOf, InTime, Quick

LEMMA ShutdownStep ==
  ASSUME IInv, ShutdownEnds
  PROVE  IInv' /\ Quick
<1>1. RunningNow' = {}
  BY DEF ShutdownEnds, RunningNow, Running, IInv, TypeOK
<1>2. Gauge'
  BY <1>1, FS_EmptySet DEF ShutdownEnds, Gauge
<1>3. TypeOK'
  <2>1. inFlight' \in 0 .. Cardinality(Requests)
    BY Countable DEF ShutdownEnds
  <2> QED BY <2>1 DEF ShutdownEnds, IInv, TypeOK
<1>5. AtEnd' /\ Counted'
  BY <1>1 DEF ShutdownEnds, AtEnd, Counted
<1>6. \A r \in Requests : (RouteOf(r) /\ InTime(r))'
  BY DEF ShutdownEnds, IInv, TypeOK, Inv, RouteOf, InTime
<1>7. Quick
  BY DEF ShutdownEnds, Quick, IInv, TypeOK
<1> QED BY <1>2, <1>3, <1>5, <1>6, <1>7 DEF IInv, Inv

LEMMA CappedTyped ==
  ASSUME NEW most \in Nat, NEW n \in 0 .. most
  PROVE  Capped(n, most) \in 0 .. most /\ Capped(n, most) <= n + 1
         /\ (n # most => Capped(n, most) = n + 1)
BY DEF Capped

LEMMA TickStep ==
  ASSUME IInv, Tick
  PROVE  IInv' /\ Quick
<1>1. RunningNow' = RunningNow
  BY DEF Tick, RunningNow
<1>2. ASSUME NEW r \in Requests
      PROVE  age'[r] \in 0 .. WriteTimeout /\ age'[r] <= age[r] + 1
  <2>1. age[r] \in 0 .. WriteTimeout /\ WriteTimeout \in Nat
    BY TimesAssumption DEF IInv, TypeOK
  <2>2. Capped(age[r], WriteTimeout) \in 0 .. WriteTimeout
        /\ Capped(age[r], WriteTimeout) <= age[r] + 1
    BY <2>1, CappedTyped
  <2>3. age'[r] \in {Capped(age[r], WriteTimeout), age[r]}
    BY DEF Tick
  <2> QED BY <2>1, <2>2, <2>3
<1>3. \A r \in Requests : wait'[r] \in 0 .. BackendTimeout
  BY CappedTyped, TimesAssumption DEF Tick, IInv, TypeOK
<1>4. TypeOK'
  <2>1. grace' \in 0 .. Grace
    BY CappedTyped, TimesAssumption DEF Tick, IInv, TypeOK
  <2>2. age' \in [Requests -> 0 .. WriteTimeout] /\ wait' \in [Requests -> 0 .. BackendTimeout]
    BY <1>2, <1>3 DEF Tick
  <2> QED BY <2>1, <2>2 DEF Tick, IInv, TypeOK
<1>5. Gauge' /\ AtEnd' /\ Counted'
  BY <1>1 DEF Tick, IInv, Inv, Gauge, AtEnd, Counted
<1>7. ASSUME NEW r \in Requests PROVE (RouteOf(r) /\ InTime(r))'
  <2>1. RouteOf(r)'
    BY DEF Tick, IInv, Inv, RouteOf
  <2>2. CASE phase[r] = "none" \/ phase[r] = "done"
    <3>1. age'[r] = age[r] /\ wait'[r] = wait[r]
      BY <2>2 DEF Tick, Active, RunningNow, Running
    <3> QED BY <2>1, <2>2, <3>1 DEF Tick, IInv, Inv, InTime
  <2>3. CASE phase[r] = "upload"
    <3>1. age[r] <= ReadTimeout /\ age[r] # ReadTimeout /\ wait'[r] = 0
      BY <2>3 DEF Tick, IInv, Inv, InTime, UploadDue
    <3> QED BY <2>1, <2>3, <3>1, <1>2, TimesAssumption DEF Tick, InTime, IInv, TypeOK
  <2>4. CASE phase[r] = "whisper"
    <3>1. wait[r] # BackendTimeout
      BY <2>4 DEF Tick, WhisperDue
    <3>2. wait'[r] = wait[r] + 1
      BY <2>4, <3>1, CappedTyped, TimesAssumption DEF Tick, IInv, TypeOK
    <3> QED BY <2>1, <2>4, <3>2, <1>2, TimesAssumption DEF Tick, InTime, IInv, TypeOK, Inv
  <2>5. CASE phase[r] = "later" \/ phase[r] = "stream"
    BY <2>1, <2>5 DEF Tick, InTime
  <2> QED BY <2>1, <2>2, <2>3, <2>4, <2>5 DEF IInv, TypeOK, Running
<1>8. Quick
  BY DEF Tick, Quick
<1> QED BY <1>4, <1>5, <1>7, <1>8 DEF IInv, Inv

LEMMA NextStep == IInv /\ [Next]_vars => IInv' /\ (Quick \/ UNCHANGED vars)
<1> SUFFICES ASSUME IInv, [Next]_vars PROVE IInv' /\ (Quick \/ UNCHANGED vars)
  OBVIOUS
<1>1. CASE \E r \in Requests : Step(r)
  BY <1>1, HandlerStep
<1>2. CASE Signal
  BY <1>2, SignalStep
<1>3. CASE ShutdownEnds
  BY <1>3, ShutdownStep
<1>4. CASE Tick
  BY <1>4, TickStep
<1>5. CASE UNCHANGED vars
  <2>1. RunningNow' = RunningNow
    BY <1>5 DEF vars, requests, RunningNow
  <2> QED BY <1>5, <2>1
          DEF vars, process, requests, IInv, TypeOK, Inv, Gauge, AtEnd, Counted,
              RouteOf, InTime
<1> QED BY <1>1, <1>2, <1>3, <1>4, <1>5 DEF Next

----------------------------------------------------------------------------
THEOREM Invariance == Spec => []IInv
<1>1. Init => IInv
  BY InitStep
<1>2. IInv /\ [Next]_vars => IInv'
  BY NextStep
<1> QED BY <1>1, <1>2, PTL DEF Spec

(* The variables keep their types: in particular, the gauge of requests in *)
(* flight never goes below zero nor above the number of requests.          *)
THEOREM TypeCorrect == Spec => []TypeOK
<1>1. IInv => TypeOK
  BY DEF IInv
<1> QED BY <1>1, Invariance, PTL

(* However requests end (answers, timeouts, panics, clients that leave),   *)
(* metricsMiddleware has each once in its counter and none in its gauge.   *)
THEOREM MetricsAreRight == Spec => []MetricsAddUp
<1>1. IInv => MetricsAddUp
  BY DEF IInv, Inv, MetricsAddUp, Gauge, Counted
<1> QED BY <1>1, Invariance, PTL

(* WriteTimeout takes a transcription from a waiting client only if        *)
(* Whisper took longer than WriteTimeout less ReadTimeout.                 *)
THEOREM QuickAnswersArrive == Spec => QuickAnswerArrives
<1>1. IInv /\ [Next]_vars => [Quick]_vars
  BY NextStep
<1>2. Quick =>
        \A r \in Requests :
          got'[r] # got[r] /\ got'[r] = "lost" /\ kind[r] = "transcribe" /\ r \notin gone
            => wait[r] + ReadTimeout >= WriteTimeout
  BY DEF Quick
<1> QED BY <1>1, <1>2, Invariance, PTL DEF Spec, QuickAnswerArrives
============================================================================
