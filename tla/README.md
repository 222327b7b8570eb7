# VoxPlatform in TLA+

Specifications of the concurrent parts of VoxPlatform, the TLC runs that check
them and the theorems about them that TLAPS proves. Source paths are relative to
the repository.

## The system

| Component | Source | State it keeps | Operations |
|---|---|---|---|
| Streaming session | `internal/gateway/stream.go` | per WebSocket: an `audioBuffer` under a mutex, the session context, the connection | read loop (`handleStream`), `flushLoop`, `flushBuffer`, `checkVAD`, the buffer's methods |
| Pipeline orchestrator | `internal/gateway/pipeline.go` | per request: the response being built | `handlePipeline`: STT, diarize, summarize |
| Event log | `internal/gateway/eventlog.go` | a map of open files under a mutex, or GCS objects | `Log`, `Close` (never called) |
| Gateway server | `cmd/gateway/main.go`, `internal/gateway/{server,middleware,request_id,config}.go` | configuration, metrics, the listener | routing, request IDs, metrics, recovery, timeouts, shutdown |
| Transcription proxy | `internal/gateway/{handlers,proxy,errors}.go` | an HTTP client with a timeout | forward a file to Whisper, health checks |
| VoiceModel controller | `operator/internal/controller/voicemodel_controller.go` | in the API server: spec, status, finalizer, owned Deployment and Service | `Reconcile` |
| InferencePipeline controller | `operator/internal/controller/inferencepipeline_controller.go` | status of the pipeline, derived from VoiceModels | `Reconcile`, the watch that maps a VoiceModel to pipelines |
| EvalRun controller | `operator/internal/controller/evalrun_controller.go` | status, owned Argo Workflow | `Reconcile` |
| Operator process | `operator/cmd/main.go` | one manager: client, caches, work queues | start the controllers, stop |
| Evaluation harness | `eval/vox_eval` | none: files in, report out | word error rate, aggregation, verdict |
| VAD, diarizer, summarizer | `services/*` | a model loaded at startup | one stateless endpoint each; Silero's model keeps audio context |
| Python client | `clients/python/voxplatform` | a connection pool | thin wrappers of the endpoints |
| Deployment | `deploy`, `infra`, `.github` | - | configuration only |

How they interact. A client streams audio over a WebSocket to the gateway,
which asks the VAD sidecar about each frame and posts segments to Whisper; or it
posts a file to the pipeline, which calls Whisper, the diarizer and the
summarizer in turn and writes the event log. Requests of the gateway meet in
the event log only (and in Prometheus counters). The operator's controllers meet
in the API server: a VoiceModel's phase, written by one, is read by another.
EvalRun submits an Argo Workflow which runs the harness against the gateway.

What is hard, and what makes each part correct:

* **Streaming session.** Two goroutines share a buffer through many small
  critical sections (`markSpeech` and `addFrame` apart, `shouldFlush` and `flush`
  apart), one field is read without the lock, and a flush waits for a network
  call. Correct means: no speech is lost, no frame is sent twice, segments and
  transcripts keep the order of speech, a pause flushes, a session ends.
* **Pipeline and event log.** Requests are concurrent, may carry the same request
  ID or one that makes no file name, lose their client, or die with the process;
  each call of `Log` may fail, and nobody looks. Correct means: the log never tells
  what the client was not told, replays each run but for what could not be
  written, and never loses an earlier line.
* **Gateway server.** Four clocks run beside each other: the upload's, the
  proxy's, the response's and the shutdown's; the middleware's metrics are updated
  after a handler that may panic. Correct means: an answer given in time arrives,
  what Whisper never answers ends, a shutdown ends, the metrics add up.
* **Controllers.** Level-triggered reconciliation from caches that may be stale,
  with optimistic concurrency; a crash between two writes to the API server;
  watch events that race with status updates. Correct means: the status
  converges to the truth, a Workflow is submitted once, deletion completes. The
  pipeline's status hangs on another object's: no wake-up may be lost between two
  caches, a map over one of them, and a `Reconcile` that is under way.
* **Evaluation.** A sequential run in which each step may fail: a sample, the
  aggregation, a write, a print. Correct means: every sample is accounted for, the
  rates fit together and bear out the verdict, exit code and report do not
  contradict each other.

## Modules

| Module | What it is |
|---|---|
| `TranscriptSession` | abstract: what a streaming session promises |
| `AudioStream` | one session, as in `stream.go` |
| `MCAudioStream` | constants for TLC, and two statements of comments the code does not live up to |
| `AudioStreamProofs` | theorems about `AudioStream` |
| `PipelineRun` | `handlePipeline` with the event log, several requests |
| `MCPipelineRun` | constants for TLC |
| `PipelineRunProofs` | theorems about `PipelineRun` |
| `EvalRunController` | the EvalRun controller, for one name |
| `MCEvalRunController` | a statement of the documentation the controller does not live up to |
| `EvalRunControllerProofs` | theorems about `EvalRunController` |
| `VoiceModelController` | the VoiceModel controller, for one name |
| `MCVoiceModelController` | constants for TLC, and a statement of the documentation the controller does not live up to |
| `VoiceModelControllerProofs` | theorems about `VoiceModelController` |
| `InferencePipelineController` | the InferencePipeline controller, for one pipeline |
| `MCInferencePipelineController` | constants and start for TLC |
| `InferencePipelineControllerProofs` | theorems about `InferencePipelineController` |
| `Operator` | composition of the VoiceModel and the InferencePipeline controller |
| `MCOperator` | constants and start for TLC |
| `OperatorProofs` | a theorem about `Operator`, on top of the theorems of both controllers |
| `GatewayServer` | the gateway's HTTP server: middleware, proxy, timeouts, shutdown |
| `GatewayServerProofs` | theorems about `GatewayServer` |
| `EvalHarness` | one run of the evaluation harness |
| `MCEvalHarness` | vocabulary, datasets and answers for TLC |
| `EvalHarnessProofs` | theorems about `EvalHarness` |

### AudioStream

`pc` places the two goroutines between critical sections; an action is one
critical section, one network answer or one read of the socket.

| Actions | Code |
|---|---|
| `ReceiveFrame`, `ReceiveClose`, `ReadError` | the outcomes of `conn.Read` |
| `CheckVAD` | `checkVAD` and the branch on its result |
| `MarkSpeech`, `AddFrame`, `MarkSilence` | the methods of `audioBuffer`, as `handleStream` calls them |
| `PeekTotalBytes` | the unlocked `buffer.totalBytes > 0`; the race yields the current value or the reader's last synchronised one |
| `Tick`, `LoopDone` | the cases of `flushLoop`'s `select`, `Tick` with `shouldFlush` |
| `Flush`, `WhisperAnswers` | `flushBuffer`: the cut, and the answer with the message it sends |
| `EndSession` | `conn.Close` and the deferred `cancel` and `CloseNow` |
| `TimePasses` | `SilenceFlushDelay` elapses |

A frame is its number in capture order, and the one-second minimum and
`MaxBufferDuration` are numbers of frames: the code compares `totalBytes` with
both. `lastSpeech` is zero, recent or old, which is all `shouldFlush` asks. The
bytes (`buildWAV`, multipart encoding), logging and `speechStart`, which nothing
reads, are left out. `voiced`, `unjudged` and `settled` are history variables.

`TranscriptSession` records frames, cuts what is recorded into segments, and
reports each once; a segment may be cut while another is outstanding only when
the recording is over. `ImplementsSession` maps the buffer to `pending` and the
audio each goroutine waits with to `out`.

### PipelineRun

Each request has its own `phase`; an action is a stretch of `handlePipeline`
from one call of `Log` to just before the next, or the return of a backend's
call; `Answer` writes the response, after the last event. `at` is the stage at
hand, `NextDue` the next one whose condition holds.

| Actions and operators | Code |
|---|---|
| `Accept`, `Reject`, `Start` | `handlePipeline` up to the first stage: 400 for the form, 500 when its file cannot be read |
| `EnterStage`, `StageReturns`, `ExitStage` | a stage with its two events, `runSTT`, `runDiarize`, `runSummarize` |
| `AbortRun` | the early return when speech-to-text has failed |
| `Finish`, `Answer` | `pipeline.complete`; the response |
| `LogLocal`, `LineLost` | the critical section of `localFileLogger.Log`, and its failing |
| `LogGCS`, `Upload` | `gcsLogger.Log` |
| `ClientGone`, `Restart` | `r.Context()` is done; a crash, or leaving `main` with requests running |

Any call of `Log` may fail, each by itself, and the handler goes on. A file that did
not open is tried again at the next event, because the handle is stored only on
success, and one that is open may refuse a line; so any lines may be missing, the
first and those in the middle included. `missed` is a history variable: the
requests an event of which is lost. A line written in part is none, and the next one, which
runs into it, counts as lost too, although `Log` has written it. `Unnameable` are the IDs that make no
name: `a/b` has no file, and every call fails for it; `a&b`, which is not escaped in
the URL of an upload, is cut, and what its uploads hit is left open. `id` is free,
because a client may choose `X-Request-ID`. An upload fails when the client is gone,
and may take effect although it fails; one that takes effect after `Log` has
returned is left out. It replaces the object of its name; the date in the name is
left out (a run is within a day). After `Restart` files and objects stay,
descriptors and requests are lost. `stages` is drawn from `StageSets`, as only
the three names are ever looked for. An event carries the request it is about,
standing for the timestamps by which lines of two requests differ.

`LogTellsResponse` and `LogReplays` each have a part that holds whatever is lost
(no false claim; the lines that are there are in the order of the run) and a part
for requests not in `missed`. `BucketTellsLast` is what remains in the bucket.

### EvalRunController and VoiceModelController

Both are for one name: controller-runtime never reconciles a name twice at once,
and names meet nowhere. The state is the objects in the API server, the informer
cache of each, and `Reconcile`'s place (`pc`, its next call) with its copy (`my`).
Resource versions are not counted; what matters is whether a cache, or the copy,
is at the current version (`cacheCurrent`, `current`, `myCurrent`), since an
update is refused when it is not. Deleting and creating again makes an object
with a new `uid`. The work queue holds the name or not: it is a set.

| EvalRunController | Code |
|---|---|
| `Begin` | `Reconcile` up to its first call beyond the cache: absent, deleted, suspended, without or with `workflowRef` |
| `CreateWorkflow` | `submitWorkflow`; that the Workflow exists is as good as created |
| `GetWorkflow`, `Mirror` | `reconcileWorkflow` with `extractEvalReport`; Workflows are unstructured, which the manager's client reads live |
| `WriteStatus` | `setStatus`; refused and retried when the copy is old |
| `Sync`, `TimerFires`, `Resync`, `CallFails`, `Restart` | watch, `RequeueAfter`, periodic resync, an API error, a crash anywhere |
| `CreateEvalRun` ... `CollectWorkflow` | users, Argo, the garbage collector |

| VoiceModelController | Code |
|---|---|
| `Begin` | `Reconcile` up to its first write |
| `AddFinalizer`, `RemoveFinalizer` | the update in `Reconcile`, `reconcileDelete` |
| `Apply` | `reconcileDeployment`, `reconcileService`: create what the cache lacks, else overwrite its spec |
| `Fail`, `ReportFailure` | the error of `Apply` becomes the status, and `Reconcile` returns that of `setPhase` |
| `UpdateStatus`, `StatusFor`, `SetPhase` | `updateStatus`, `setPhase` |
| `Sync`, `TimerFires`, `CallFails`, `Restart` | as above |
| `CreateVM` ... `Collect` | users, the Deployment controller, the garbage collector |

A write that changes nothing makes no new version and no event; `SetPhase` and
`Apply` rest on this, or the controller would call itself for ever. A VoiceModel's
spec is its version: `buildDeployment` and `buildService` are functions of the
spec, so a child carries the version it was built from, and what they put in is
left out. `replicas` alone is kept (`Replicas`), since `updateStatus` compares it.
The resync of VoiceModels, every ten hours, is left out: what waits for it counts
as not repaired. `lost` and `swallowed` are history variables.

### InferencePipelineController and Operator

The controller of pipelines watches two kinds of objects. An informer changes its
cache first and calls its handlers some time after (`SyncModel`, `Deliver`), and
the handler for VoiceModels, `mapVoiceModelToPipelines`, looks for pipelines in
the other informer's cache. `Reconcile` reads that cache once per stage.

| InferencePipelineController | Code |
|---|---|
| `Begin` | `Reconcile` up to the loop: absent, deleted, or a copy of the spec |
| `ResolveStage` | one turn of the loop in `reconcileStages`, with `resolveStage` |
| `SetPipelineStatus`, `Aggregate`, `StatusFor` | the `switch` over the stages, `setPipelineStatus` |
| `SyncPipeline`, `SyncModel`, `Deliver`, `Refers` | `SetupWithManager` and the map from VoiceModels to pipelines |
| `TimerFires`, `Restart` | `RequeueAfter`, a crash anywhere |
| `CreatePipeline` ... `ModelChanges` | users, and what becomes of VoiceModels |

A VoiceModel is its phase. What the status says of a stage is kept as that phase,
or that the stage is disabled or could not be read, which is what the message
tells; endpoints are copied with it. A read that fails is told as the stage's
state and the loop goes on; a pipeline with such a stage beside a missing one is
`Failed` and is not looked at again, so `Settled` allows it. `dropped` is a history
variable: pipelines could not be listed, and no event has come since.

`Operator` puts the controllers on one cache of VoiceModels. It has the variables
of both; `VM` and `IP` are instances, in which the phases that
`InferencePipelineController` has its environment choose are those in
`VoiceModelController`'s object and cache. Each action is one of a controller with
the other's variables unchanged, except `SyncVM`, which wakes both, and `Restart`.
`Served` speaks of pods at one end, `TellsServed` of the pipeline's phase at the
other. The EvalRun controller shares no object with the two and stays out.

### GatewayServer

An action is a handler's step from one wait to the next. `Tick` is a unit of time
and waits until a timeout that has run out is acted on, so that timeouts are exact.

| Actions | Code |
|---|---|
| `Arrive`, `Finish` | the way in and out through `metricsMiddleware` and `loggingMiddleware` |
| `UploadEnds`, `UploadFails` | the form in `handleTranscribe` and `handlePipeline`, under `ReadTimeout`; 400, or 500 when a pipeline cannot read its file |
| `RefuseStream` | `websocket.Accept` refuses: an ordinary answer on a connection that is not hijacked |
| `WhisperAnswers`, `WhisperFails` | `Transcribe` and `HealthCheck` of the proxy, under its client's timeout, and what the handlers make of it |
| `LaterEnds`, `StreamEnds` | the rest of a pipeline, a streaming session: in their own modules |
| `Panic` | `recoveryMiddleware` |
| `Signal`, `ShutdownEnds` | the end of `main`; a hijacked connection is not waited for |

`Got` is what reaches the client: nothing, from `WriteTimeout` after the request's
header on, as in `net/http`. A status 502 for a Whisper that let the proxy's
timeout pass is therefore counted and logged, but never delivered, since both
timeouts are 120 seconds and the proxy's starts later. `QuickAnswerArrives` says
when an answer does arrive.

### EvalHarness

| Actions and operators | Code |
|---|---|
| `LoadDataset` | `load_dataset` |
| `Transcribe`, `RecordError`, `LoopEnds` | the loop of `EvalRunner.run` |
| `ComputeWER`, `Normalize`, `CorpusWER`, `MeanWER`, `MedianWER` | `metrics.py` |
| `Aggregate`, `Passes` | the verdict |
| `Save`, `SaveAs`, `Abort`, `Exit` | the reports and `cmd_run` |
| `PrintRaises`, `Leave` | a `print` nothing catches; the flush of stdout when the interpreter ends |

A text is a sequence of tokens, `Expand` what `_normalize` makes of one, rates are
fractions. `jiwer` is external: least edits over reference words, and an exception
for a reference without words, as jiwer 3 raises. In `compute_wer` that exception
makes an error of the sample; in `aggregate`, which sees the sample only when the
prediction was empty, it ends the run without a report. `stdout` is sound, or breaks:
then any `print` may raise. In the loop this makes an error of a sample that is
measured already, so that it is in both lists; behind the report, or printing it
for `--json`, it ends the process with 1 beside a report that may say passed; and
Python exits with 120 when the last flush fails. `ExitMatchesReport` and
`EverySampleReported` say what holds then, and more when stdout is sound. Minimum, maximum, times
and the counts of each kind of edit are left out.

## Runs

| Run | Shows |
|---|---|
| `audio_stream` | `TypeOK`, `NoSpeechLost`, `CaptureOrder`, `TranscriptsInOrder`, `LoopSegmentsLongEnough`, `SilenceFlushes`, `SessionWindsDown`, and that `AudioStream` implements `TranscriptSession` |
| `audio_stream_vad` | violated: a VAD service that is up but answers an error drops audio |
| `audio_stream_strand` | violated: speech followed by silence may stay in the buffer |
| `pipeline_run` | `TypeOK`, `LogTellsResponse`, `LogReplays`, `BucketTellsLast`, `LaterStagesNeedSTT`, `LocalAppendOnly` |
| `eval_run` | `TypeOK`, `StatusBacked`, `NeverForgets`, `Mirrors` |
| `eval_run_recreate` | violated: an EvalRun may show the verdict of another's Workflow |
| `voice_model` | `TypeOK`, `OwnedHasFinalizer`, `StatusOfThisSpec`, `Converges` |
| `inference_pipeline` | `TypeOK`, `NoWakeupLost`, `StatusOfThisSpec`, `Converges`, `Rests` |
| `operator` | `NothingLeftUndone`, `TracksPods` |
| `gateway_server` | `TypeOK`, `MetricsAddUp`, `QuickAnswerArrives`, `WhisperCallsEnd`, `StopsAfterSignal` |
| `eval_harness` | `TypeOK`, `EverySampleReported`, `RatesAgree`, `VerdictIsEarned`, `ExitMatchesReport` |
| `voice_model_swallow` | violated: the phase may stay `Failed` with nothing that would try again |

**Bounds.** `audio_stream`: two frames make a second, three `MaxBufferDuration`,
and the client sends five. So the minimum, the silence flush, the forced flush
and a segment built up behind one in flight all occur, and both goroutines can
wait for Whisper at once. `pipeline_run`: two requests with one ID or two, each
asking for all stages or for diarization alone; two stages are configured, the
second being the summarizer with the local log or none and the diarizer with the
bucket, so that one stage's events replace another's there; where the requests differ in ID, one's is no name. One
call of `Log` fails by chance (`MaxFaults`), at any line, besides those that must,
for want of a name or of the client; a run with one line missing at any place is
where order and replay part. Two requests are enough to share a file, to
interleave in it and to outlive a restart. The requests are symmetric: the
constants and properties do not tell them apart. `eval_run`: two EvalRuns of the name, two
changes by users, one failed call or restart. `voice_model`: two specs (an edit,
or deletion and creation again), of one and of two replicas with one pod that can
be ready, one trouble or change of the pods; `voice_model_swallow` has one spec
and two troubles. Two objects of a name are enough for one to be taken for the
other, and one trouble can fall between any two writes. `inference_pipeline`:
two stages on two VoiceModels, or one of them with the other disabled; one edit,
creation or deletion of the pipeline, one change of a VoiceModel, two troubles. It
starts with the second VoiceModel `Ready` and the pipeline absent or with both
stages on, which the controller has not looked at. One change of a VoiceModel can
fall between any two steps of `Reconcile`, of the informers and of the handler.
`operator`: a deployed VoiceModel with one replica, ready or not, and a pipeline
still to be created; users may delete the VoiceModel, one pod changes or one
trouble happens. `gateway_server`: two requests, so that a shutdown waits for one
while the other is cut; thirty seconds are a unit, so `ReadTimeout` is 1, the other
two timeouts 4 and the grace, rounded up, 1. `eval_harness`: three samples (an odd
number and, when one fails, an even one) with truths of up to two tokens, among
them a contraction and one that normalization empties, four answers to each, and
three manifests that do not load; stdout is sound or breaks.

Deadlock is not checked: a session and a set of requests come to an end, and a
controller comes to rest when users leave it alone.

**Fairness.** `AudioStream`: each goroutine keeps running, the clock advances,
and the VAD and Whisper answer. The last is assumed of those services, because
`http.DefaultClient` has no timeout: a service that never answers holds its
goroutine for ever. (The proxy's client has one, so `GatewayServer` does not need
the assumption: there, time passes and timers fire, and nothing else is fair.) Nothing is assumed of the client, so `SilenceFlushes` and
`SessionWindsDown` say nothing of a client that stays connected and silent
beyond what they state. The controllers: a queued name is reconciled, the watch delivers (for
VoiceModels, of some object that is behind), timers fire, the garbage collector
collects, and, for EvalRuns, a Workflow ends, which `activeDeadlineSeconds` ensures. The periodic
resync has none: `Mirrors` and `Converges` hold without it. Users, pods, crashes
and failing calls have none either, and are bounded; both properties speak of
what remains when they have stopped. In `InferencePipelineController` one goroutine
stands for both informers (`WF_vars(Informers)`); in `Operator` each controller has
the fairness it has alone. `PipelineRun` and `EvalHarness` state none: their properties
are of safety.

**What the violations mean.** They are disagreements between the code and its
own comments or documentation; `PROJECT.json` quotes the lines. The least
expected is `audio_stream_strand`: the flush loop empties the buffer between
`markSpeech` and `addFrame` and so resets `lastSpeech`; the frame added next and
the trailing silence then sit in a buffer whose `lastSpeech` is zero, and
`shouldFlush` declines until speech resumes, the buffer reaches
`MaxBufferDuration` or the session ends. The silence keeps filling the buffer as
long as frames arrive, so the delay is up to thirty seconds for a client that
keeps streaming, and without limit for one that pauses. `SilenceFlushes`, which
does hold, has the missing premise (`lastSpeech` set).

`voice_model_swallow` is the controllers' counterpart. `Reconcile` turns an error
in writing a child into `Failed` with the error as message, and returns nil. The
status write itself makes an event, so `Reconcile` runs again; if the same write
then fails in the same way, the second status is the first, no event follows and
the error has been dropped. Only another change or the resync gets the VoiceModel
out of `Failed`. `Converges` says that this is the only way not to come to rest.

## Proofs

All theorems are for arbitrary values of the constants, under `LimitsAssumption`
(one second is at least a frame and at most `MaxBufferDuration`) and, in each
module, the assumption that the constants have their types (`BoundsAssumption`,
`OperatorAssumption`, `InputsAssumption`); requests are finitely many.

`AudioStreamProofs`. The properties are not inductive. `IInv` adds: audio in
flight exactly while its goroutine is at Whisper; everything buffered, in flight
or settled was captured before the frame in the reader's hand (`AllBelow`), which
is what keeps `CaptureOrder` when a frame is appended; an empty buffer from the
reader's last flush on (`ClosingEmpty`), so nothing is recorded behind it; while
the loop is between `shouldFlush` and `flush`, that the buffer holds at least a
second or the session is closing (`LoopDecision`); and that settled transcripts
precede the one in flight (`SettledInOrder`). From it follow `TypeCorrect`,
`SpeechIsKept`, `SegmentsOrdered`, `RepliesOrdered`, `LoopSegmentsLong`, and
`SessionImplemented`, which maps each step to a step of `TranscriptSession` or to
a stutter.

`PipelineRunProofs`. `IInv` says of each request that where its handler is, what
is due and what it has obtained fit together (`RunOK`). Each action has a lemma
which also shows that every file only grows (`Extends`). From them follow
`TypeCorrect`, `LaterStagesFollowSTT` and `LocalLogAppends`. What the log tells
rests on a second invariant, `LogInv`, about the lines of each request in turn.
Every event gets a rank, its place in a full run, and `Reach` is the rank of what
the handler would log next: whatever lines are missing, those there are of lower
rank, in rising order (`Behind`), so a lost line leaves a gap and nothing else. As
long as none of the request's is missing (`missed`), the lines replay the run, the
last of them is where the handler is (`InStep`), and every stage left has its end
there (`Reported`). Lines of other requests, under the same ID or not, do not
disturb this. No line or object claims more than its request has come to
(`LogTrue`), and what lies ahead of a handler has not happened yet (`Ahead`). From
it follow `LogIsReplayed` and `LogTells`. `BucketInv` says that of what `Log` has
been called for (`Said`) the last of each type is in the bucket (`BucketHas`); a
step either makes its event the last of its type or leaves the last of that type
alone (`Tells`), since the stage at hand is behind all others that have begun
(`CurrentIsLast`). From it follows `BucketTells`.

`EvalRunControllerProofs`. `StatusBacked` speaks of the stored EvalRun, but what
may break it is the copy `Reconcile` is about to write. `IInv` says what the copy
is known to be at each `pc` (`CopySound`): as long as it is current, it claims
nothing the Workflow does not bear out either, and keeps what the EvalRun has;
and that a cache or copy called current is so (`Tracks`). `Keeps` is the step
`NeverForgets` allows. From them follow `TypeCorrect`, `StatusIsBacked` and
`VerdictIsFinal`.

`VoiceModelControllerProofs`. `IInv` adds that uids in use were given out before
(`KnownUids`), so that a new VoiceModel has no children and is in no cache; that
a finalizer once seen is still there (`CacheSound`), which makes it safe to act
on an old copy (`CopySound`); and that a current copy is the VoiceModel, with the
children written so far at its spec or gone (`CurrentCopy`), which is why the
status it is given is about that spec. From them follow `TypeCorrect`,
`FinalizerFirst` and `StatusIsOfThisSpec`. A last theorem, `WakeupsKept`, says
when the controller may be at rest (`Quiet`): with its caches current, nothing
queued, no timer, and nothing left to collect, a VoiceModel has the status its
children call for, unless the error of a write was dropped. No run checks it by
itself; `OperatorProofs` rests on it. `Watching` says what Reconcile has done so
far is still so while nothing is queued behind it, and `Resting` that what it has
written at its end is right (`Right`).

`InferencePipelineControllerProofs`. `NoWakeupLost` speaks of states in which
nothing is under way; `IInv` says what holds on the way there. A finding is
`Fresh` when it is what the cache says of the stage's VoiceModel or the handler of
that VoiceModel is still to be called. While `Reconcile` is at a current copy and
nothing is queued behind it, what it has found is fresh or a read error
(`Watching`); at rest the status is (`Resting`), and where it tells of a read
error, a timer pends or the pipeline is `Failed`. `Tracks` says that a current
cache and a current copy are the pipeline's. From it follow `TypeCorrect`,
`StatusIsOfThisSpec` and `WakeupsKept`.

`OperatorProofs` proves `NothingLeftUndone`, which chains three promises: a
Deployment's pods reach the VoiceModel's status (`PodsTold`), this status reaches
the pipeline's (`StageTold`), and neither is forgotten across a restart of the
process, which both controllers share. The invariants of the two controllers are
reused as they are: a step of the composition is a step of each or leaves it
alone, a VoiceModel's status written by one being an update of the VoiceModel for
the other. Only one spec is given before the start, as `Deployed` says.

`EvalHarnessProofs`. `ExitInv` relates verdict, report, exit code and stdout at each
`pc`, from which `ExitTellsReport` follows. `SampleInv` says that what is measured, in
error and still to do accounts for the manifest, in number and for each text; a
step moves one text from the last to one of the others or, if stdout breaks, to both. From it
follows `SamplesAreReported`. The other theorems are about what is computed.
`SetInduction` (a set of numbers with 0 and successors is `Nat`) stands in for the
library's induction theorems, and everything recursive goes through it once:
`DistanceIs` (the table of `Distance` exists, diagonal by diagonal, and against no
words counts each word of the reference), `FoldExists` and `ChainOf` (a fold is a
chain of its steps) and `FlattenTyped`. With these `TypeCorrect` follows: no rate
divides by zero. `VerdictInv` says that a verdict is about metrics `aggregate`
accepts (`Rateable`). For such, a sample's rate compares as edits to words do, on
every path of `compute_wer` (`SampleIs`), and an inequality that holds for every
sample holds of the sums (`SumsCompare`, `PlusCompare`). So the corpus rate and the
mean lie between the samples' rates; the median does since a sorted position has a
rate (`NthIs`). From these follow `VerdictsAreEarned` and `RatesLieBetween`.

`GatewayServerProofs`, under `TimesAssumption` (finitely many requests, positive
timeouts). `IInv` adds: the gauge is the number of handlers that run, also after
the end (`Gauge`), which bounds it; nothing is cut off before the process ends and
nothing runs after (`AtEnd`); a later stage is a pipeline's and a stream a
stream's (`RouteOf`), so that what a shutdown does not wait for is a stream; and
until Whisper has answered, a request is at most `ReadTimeout` older than its wait
for Whisper (`InTime`), which is what `QuickAnswerArrives` rests on: a timeout that
has run out is acted on before time goes on. From them follow `TypeCorrect`,
`MetricsAreRight` and `QuickAnswersArrive`.

Only model-checked: the liveness properties (`SilenceFlushes`,
`SessionWindsDown`, `Mirrors`, `Converges`, `Rests`,
`TracksPods`, `WhisperCallsEnd`, `StopsAfterSignal`), since liveness under fairness
is beyond the prover. Every invariant and every action property that a passing run
checks is proved.

## Not modelled

The components marked `not_modelled` in `PROJECT.json`, with the reason there:
the services are stateless calls whose outcomes appear as nondeterministic
answers, the Python client a wrapper of them; generated code, flags and
deployment have no behaviour of their own.

Disagreements between the code and its documentation that no run is spent on:

* nothing bounds the audio buffer while the flush loop waits for Whisper, although
  `stream.go:20` says that `MaxBufferDuration` prevents it;
* an aborted run logs no `pipeline.error` (`docs/reference/pipeline-api.md:119`);
* in the bucket a later stage's event replaces an earlier one's of its type, since
  an object's name lacks the stage, so the events there cannot be merged into the
  run (`eventlog.go:140`); `BucketTellsLast` says what is left;
* a shutdown cuts a streaming session at once, because its connection is hijacked:
  it gets none of the time `cmd/gateway/main.go:50` gives in-flight requests;
* log files are never closed, so a process with its descriptors used up logs
  nothing of requests with new IDs, and accepts no connections either;
* suspending sets an EvalRun to `Pending` even when it has submitted its Workflow,
  which `api/v1alpha1/evalrun_types.go:117` denies;
* a disabled stage's VoiceModel is not looked at, although
  `api/v1alpha1/inferencepipeline_types.go:46` says it is still validated, and a
  VoiceModel in `Failed` does not make a pipeline `Failed` (line 120 there);
* the report's `total_reference_words` counts words before normalization, so its
  numbers do not give its rate (`metrics.py:7`), and the tick per sample compares
  with `<` where the verdict compares with `<=` (`runner.py:132`, `165`).

## Plan

Done: all modules, each component with its proofs.

What one could add: carrying the other promises of the two controllers (`OwnedHasFinalizer`,
`StatusOfThisSpec` of either) over to `Operator`, whose invariant has all they need.
