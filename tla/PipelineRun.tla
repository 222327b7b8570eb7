---------------------------- MODULE PipelineRun ----------------------------
(***************************************************************************)
(* POST /v1/pipeline/run (internal/gateway/pipeline.go) with the event log *)
(* it writes (internal/gateway/eventlog.go).                               *)
(*                                                                         *)
(* Each request runs in a goroutine of its own.  It runs the due stages in *)
(* order; around each call of a backend it logs two events.  Requests meet *)
(* in the event log: the local backend keeps one open file per request ID  *)
(* and appends, the GCS backend uploads an object per request ID and event *)
(* type.  A client may choose the request ID, so two requests may share    *)
(* one.  Log's errors are ignored by the handler: a line may be lost       *)
(* anywhere.  An ID stands for the name it makes, of a file or an object;  *)
(* some make none of their own, since nothing validates them: a/b has no   *)
(* file that can be opened, and in the URL of an upload a&b is cut at &.   *)
(*                                                                         *)
(* An event stands for its JSON line: the request it is about (a line also *)
(* carries a timestamp, so lines of two requests differ), type and stage.  *)
(***************************************************************************)
EXTENDS Naturals, Sequences, FiniteSets, FiniteSetsExt, Functions

CONSTANTS
  Requests,   (* bound: the requests of a behaviour                        *)
  Ids,        (* the request IDs they carry                                *)
  IdChoices,  (* bound: which request carries which                        *)
  StageSets,  (* bound: what a request may ask for                         *)
  Configs,    (* bound: configurations considered; "none" is noOpLogger    *)
  Unnameable, (* the IDs that make no name of a file or object             *)
  MaxFaults   (* bound: events that are lost by chance                     *)

Config == [backend : {"local", "gcs", "none"}, urls : SUBSET {"diarize", "summarize"}]

VARIABLES
  config,     (* the Config fields that matter here                        *)
  phase,      (* where each request's handler is                           *)
  id, stages, (* the request ID and the requested stages                   *)
  at,         (* position of the current stage in Order                    *)
  result,     (* PipelineResponse.Stages                                   *)
  text,       (* PipelineResponse.Transcript                               *)
  status,     (* HTTP status written, "none" before                        *)
  gone,       (* the client has disconnected: r.Context() is done          *)
  fds,        (* localFileLogger.fds                                       *)
  files,      (* local: content of <request_id>.jsonl                      *)
  objects,    (* gcs: the objects of the bucket                            *)
  missed,     (* history: requests of which Log has lost an event          *)
  faults      (* bound: events that have been lost by chance               *)

request == <<phase, id, stages, at, result, text, status, gone>>
store   == <<fds, files, objects, missed, faults>>
vars    == <<config, request, store>>

Order == <<"stt", "diarize", "summarize">>
Stage == Range(Order)

ASSUME BoundsAssumption ==
  /\ IsFiniteSet(Requests)
  /\ IdChoices \subseteq [Requests -> Ids]
  /\ StageSets \subseteq SUBSET Stage
  /\ Configs \subseteq Config
  /\ Unnameable \subseteq Ids
  /\ MaxFaults \in Nat

Phase == {"idle", "start", "enter", "call", "exit", "finish", "answer", "done"}
Event == [req : Requests,
          type : {"pipeline.start", "stage.start", "stage.complete",
                  "stage.error", "pipeline.complete", "pipeline.error"},
          stage : Stage \cup {"none"}]

TypeOK ==
  /\ config \in Configs
  /\ phase \in [Requests -> Phase]
  /\ id \in [Requests -> Ids]
  /\ stages \in [Requests -> SUBSET Stage]
  /\ at \in [Requests -> 0 .. 4]
  /\ result \in [Requests -> [Stage -> {"none", "ok", "failed"}]]
  /\ text \in [Requests -> {"empty", "some"}]
  /\ status \in [Requests -> {"none", "200", "400", "500", "502", "lost"}]
  /\ gone \in [Requests -> BOOLEAN]
  /\ fds \subseteq Ids
  /\ files \in [Ids -> Seq(Event)]
  /\ objects \subseteq [id : Ids, event : Event]
  /\ missed \subseteq Requests
  /\ faults \in 0 .. MaxFaults

Init ==
  /\ config \in Configs
  /\ phase = [r \in Requests |-> "idle"]
  /\ id \in IdChoices
  /\ stages = [r \in Requests |-> {}]
  /\ at = [r \in Requests |-> 0]
  /\ result = [r \in Requests |-> [s \in Stage |-> "none"]]
  /\ text = [r \in Requests |-> "empty"]
  /\ status = [r \in Requests |-> "none"]
  /\ gone = [r \in Requests |-> FALSE]
  /\ fds = {}
  /\ files = [i \in Ids |-> <<>>]
  /\ objects = {}
  /\ missed = {}
  /\ faults = 0

---------------------------------------------------------------------------
(* EventLogger.Log.                                                        *)

(* What Log was to write for request r is lost: it must, or by chance.     *)
Lose(r, must) ==
  /\ missed' = missed \cup {r}
  /\ IF must THEN UNCHANGED faults ELSE faults < MaxFaults /\ faults' = faults + 1

(* The file is not opened, or, open by now, not written.  A part of a line *)
(* is no line, and the next one that runs into it is lost with it.         *)
LineLost(i, e) ==
  /\ Lose(e.req, i \in Unnameable)
  /\ fds' \in IF i \in Unnameable THEN {fds} ELSE {fds, fds \cup {i}}
  /\ UNCHANGED files

(* Faulty variant: the file is opened with O_TRUNC instead of O_APPEND.    *)
LogLocalTruncating(i, e) ==
  \/ /\ i \notin Unnameable
     /\ fds' = fds \cup {i}
     /\ files' = [files EXCEPT ![i] = IF i \in fds THEN Append(@, e) ELSE <<e>>]
     /\ UNCHANGED <<missed, faults>>
  \/ LineLost(i, e)

(* Faulty variant: the handle is kept under the request, not under its ID. *)
LogLocalMisfiled(i, e) ==
  \/ /\ i \notin Unnameable
     /\ fds' = fds \cup {e.req}
     /\ files' = [files EXCEPT ![i] = Append(@, e)]
     /\ UNCHANGED <<missed, faults>>
  \/ LineLost(i, e)

(* One critical section: find or open the file of the ID, append the line. *)
(* Opening is tried anew at every line until it succeeds.                  *)
LogLocal(i, e) ==
  \/ /\ i \notin Unnameable
     /\ fds' = fds \cup {i}
     /\ files' = [files EXCEPT ![i] = Append(@, e)]
     /\ UNCHANGED <<missed, faults>>
  \/ LineLost(i, e)

SameObject(o, i, e) == o.id = i /\ o.event.type = e.type

(* Faulty variant: an upload does not replace an object that is there.     *)
UploadOnce(i, e) ==
  objects' = IF \E o \in objects : SameObject(o, i, e)
             THEN objects ELSE objects \cup {[id |-> i, event |-> e]}

(* An upload replaces the object of that name, events/<date>/<id>/<type>,  *)
(* where the date is left out: a run is within a day.  A name that is cut  *)
(* may hit any other that is.                                              *)
Upload(i, e) ==
  \E old \in {{o \in objects : SameObject(o, i, e)}}
             \cup IF i \in Unnameable THEN {{o \in objects : o.id \in Unnameable}} ELSE {} :
    objects' = (objects \ old) \cup {[id |-> i, event |-> e]}

(* Log works with the request's context.  An upload that fails may have    *)
(* taken effect.                                                           *)
LogGCS(i, e) ==
  \/ ~gone[e.req] /\ Upload(i, e) /\ UNCHANGED <<missed, faults>>
  \/ Lose(e.req, gone[e.req]) /\ UNCHANGED objects
  \/ ~gone[e.req] /\ Lose(e.req, FALSE) /\ Upload(i, e)

Log(r, type, stage) ==
  LET e == [req |-> r, type |-> type, stage |-> stage] IN
  \/ config.backend = "local" /\ LogLocal(id[r], e) /\ UNCHANGED objects
  \/ config.backend = "gcs" /\ LogGCS(id[r], e) /\ UNCHANGED <<fds, files>>
  \/ config.backend = "none" /\ UNCHANGED store

---------------------------------------------------------------------------
(* handlePipeline.                                                         *)

(* A stage runs if it is requested, its URL is set and, for the summary,   *)
(* there is a transcript.  All other stages are passed over.               *)
Due(r, s) ==
  /\ s \in stages[r]
  /\ s \in config.urls \cup {"stt"}
  /\ s = "summarize" => text[r] = "some"

NextDue(r) == Min({k \in at[r] + 1 .. 3 : Due(r, Order[k])} \cup {4})

Goto(r, from, to) == phase[r] = from /\ phase' = [phase EXCEPT ![r] = to]

Advance(r, from) ==
  /\ at' = [at EXCEPT ![r] = NextDue(r)]
  /\ Goto(r, from, IF NextDue(r) = 4 THEN "finish" ELSE "enter")

(* parseStages yields words; only the three stage names are looked for.    *)
Accept(r) ==
  /\ Goto(r, "idle", "start")
  /\ \E S \in StageSets : stages' = [stages EXCEPT ![r] = S]
  /\ UNCHANGED <<config, id, at, result, text, status, gone, store>>

(* The form cannot be parsed, has no file, or its file cannot be read.     *)
Reject(r) ==
  /\ Goto(r, "idle", "done")
  /\ \E code \in {"400", "500"} : status' = [status EXCEPT ![r] = code]
  /\ UNCHANGED <<config, id, stages, at, result, text, gone, store>>

Start(r) ==
  /\ Advance(r, "start")
  /\ Log(r, "pipeline.start", "none")
  /\ UNCHANGED <<config, id, stages, result, text, status, gone>>

EnterStage(r) ==
  /\ Goto(r, "enter", "call")
  /\ Log(r, "stage.start", Order[at[r]])
  /\ UNCHANGED <<config, id, stages, at, result, text, status, gone>>

(* runSTT, runDiarize or runSummarize returns.  Once the context is done   *)
(* the call fails.                                                         *)
StageReturns(r) ==
  /\ Goto(r, "call", "exit")
  /\ \E outcome \in IF gone[r] THEN {"failed"} ELSE {"ok", "failed"} :
       /\ result' = [result EXCEPT ![r][Order[at[r]]] = outcome]
       /\ IF Order[at[r]] = "stt" /\ outcome = "ok"
          THEN \E t \in {"empty", "some"} : text' = [text EXCEPT ![r] = t]
          ELSE UNCHANGED text
  /\ UNCHANGED <<config, id, stages, at, status, gone, store>>

CurrentFailed(r) == result[r][Order[at[r]]] = "failed"

(* Faulty variant: the handler goes on after a failed STT stage.           *)
AbortRunContinues(r) ==
  /\ phase[r] = "exit"
  /\ Order[at[r]] = "stt" /\ CurrentFailed(r)
  /\ Advance(r, "exit")
  /\ Log(r, "stage.error", "stt")
  /\ UNCHANGED <<config, id, stages, result, text, status, gone>>

(* STT is required: its failure ends the run, with no further event.       *)
AbortRun(r) ==
  /\ phase[r] = "exit"
  /\ Order[at[r]] = "stt" /\ CurrentFailed(r)
  /\ Goto(r, "exit", "answer")
  /\ Log(r, "stage.error", "stt")
  /\ UNCHANGED <<config, id, stages, at, result, text, status, gone>>

(* Faulty variant: a non-fatal failure is logged as complete.              *)
ExitStageComplete(r) ==
  /\ phase[r] = "exit"
  /\ ~(Order[at[r]] = "stt" /\ CurrentFailed(r))
  /\ Advance(r, "exit")
  /\ Log(r, "stage.complete", Order[at[r]])
  /\ UNCHANGED <<config, id, stages, result, text, status, gone>>

ExitStage(r) ==
  /\ phase[r] = "exit"
  /\ ~(Order[at[r]] = "stt" /\ CurrentFailed(r))
  /\ Advance(r, "exit")
  /\ Log(r, IF CurrentFailed(r) THEN "stage.error" ELSE "stage.complete",
         Order[at[r]])
  /\ UNCHANGED <<config, id, stages, result, text, status, gone>>

Finish(r) ==
  /\ Goto(r, "finish", "answer")
  /\ Log(r, "pipeline.complete", "none")
  /\ UNCHANGED <<config, id, stages, at, result, text, status, gone>>

(* The response is written after the last event.                           *)
Answer(r) ==
  /\ Goto(r, "answer", "done")
  /\ status' = [status EXCEPT ![r] = IF result[r]["stt"] = "failed" THEN "502" ELSE "200"]
  /\ UNCHANGED <<config, id, stages, at, result, text, gone, store>>

ClientGone(r) ==
  /\ phase[r] \notin {"idle", "done"}
  /\ ~gone[r]
  /\ gone' = [gone EXCEPT ![r] = TRUE]
  /\ UNCHANGED <<config, phase, id, stages, at, result, text, status, store>>

(* The process dies, or leaves main after Shutdown's ten seconds, and is   *)
(* restarted: running requests are lost, files and objects remain.         *)
Restart ==
  /\ \E r \in Requests : phase[r] \notin {"idle", "done"}
  /\ LET lost == {r \in Requests : phase[r] \notin {"idle", "done"}} IN
       /\ phase'  = [r \in Requests |-> IF r \in lost THEN "done" ELSE phase[r]]
       /\ status' = [r \in Requests |-> IF r \in lost THEN "lost" ELSE status[r]]
  /\ fds' = {}
  /\ UNCHANGED <<config, id, stages, at, result, text, gone, files, objects, missed, faults>>

Handle(r) ==
  Start(r) \/ EnterStage(r) \/ StageReturns(r) \/ AbortRun(r) \/ ExitStage(r)
  \/ Finish(r) \/ Answer(r)

Next ==
  \/ \E r \in Requests : Accept(r) \/ Reject(r) \/ Handle(r) \/ ClientGone(r)
  \/ Restart

Spec == Init /\ [][Next]_vars

---------------------------------------------------------------------------
(* Properties.                                                             *)

Local == config.backend = "local"

(* This event of r can be read back from the event log.                    *)
Has(r, type, stage) ==
  LET e == [req |-> r, type |-> type, stage |-> stage] IN
  [id |-> id[r], event |-> e] \in objects \/ e \in Range(files[id[r]])

(* The positions of a request's lines in the file of its ID.               *)
Lines(r) == {k \in DOMAIN files[id[r]] : files[id[r]][k].req = r}

(* What a reader of the log learns of a request is what its client was     *)
(* answered, whoever shares the request ID and whatever lines are lost: no *)
(* event claims an outcome the response does not report (unless the        *)
(* process died with the response), and the local log leaves out only what *)
(* Log has failed to write.                                                *)
LogTellsResponse ==
  \A r \in Requests :
    /\ \A s \in Stage :
         /\ Has(r, "stage.complete", s) => result[r][s] = "ok"
         /\ Has(r, "stage.error", s) => result[r][s] = "failed"
    /\ Has(r, "pipeline.complete", "none") =>
         phase[r] = "answer" \/ status[r] \in {"200", "lost"}
    /\ Local /\ r \notin missed /\ status[r] \in {"200", "502"} =>
         /\ \A s \in Stage :
              /\ result[r][s] = "ok" => Has(r, "stage.complete", s)
              /\ result[r][s] = "failed" => Has(r, "stage.error", s)
         /\ status[r] = "200" => Has(r, "pipeline.complete", "none")

First(k, L) == \A j \in L : k <= j
Last(k, L)  == \A j \in L : j <= k

(* In file f the line at k, the next of L behind j, ends the stage that    *)
(* the line at j starts.                                                   *)
Ends(f, L, j, k) ==
  /\ j < k /\ \A l \in L : l <= j \/ k <= l
  /\ f[j].type = "stage.start" /\ f[j].stage = f[k].stage
  /\ f[k].type \in {"stage.complete", "stage.error"}

Before(s, t) == \E m, n \in DOMAIN Order : m < n /\ Order[m] = s /\ Order[n] = t

(* The lines of f at the positions L are those of one run.                 *)
Replay(f, L) ==
  \A k \in L :
    /\ f[k].type = "pipeline.start" <=> First(k, L)
    /\ f[k].type = "pipeline.complete" => Last(k, L)
    /\ f[k].type = "stage.start" =>
         /\ Last(k, L) \/ \E l \in L : Ends(f, L, k, l)
         /\ \A j \in L : j < k /\ f[j].type = "stage.start" => Before(f[j].stage, f[k].stage)
    /\ f[k].type \in {"stage.complete", "stage.error"} => \E j \in L : Ends(f, L, j, k)
    /\ f[k].type = "stage.error" /\ f[k].stage = "stt" => Last(k, L)

Place(s) == CHOOSE k \in DOMAIN Order : Order[k] = s

(* How far into a run an event is.                                         *)
Rank(e) ==
  CASE e.type = "pipeline.start" -> 0
    [] e.type = "pipeline.complete" -> 8
    [] e.type = "stage.start" -> 2 * Place(e.stage)
    [] OTHER -> 2 * Place(e.stage) + 1

(* The lines of f at the positions L are some of those of one run.         *)
InOrder(f, L) ==
  /\ \A j, k \in L : j < k => Rank(f[j]) < Rank(f[k])
  /\ \A k \in L : f[k].type = "stage.error" /\ f[k].stage = "stt" => Last(k, L)

(* The lines of a request are in the order of its run, none twice, nothing *)
(* behind a failed STT stage, even when the file is shared, lines are lost *)
(* and the process restarts.  Unless some are lost they replay the run:    *)
(* start first, every stage's end right behind its start, complete last.   *)
LogReplays ==
  Local => \A r \in Requests :
             /\ InOrder(files[id[r]], Lines(r))
             /\ r \notin missed => Replay(files[id[r]], Lines(r))

(* No other request carries the ID of r.                                   *)
Alone(r) == \A q \in Requests : q # r => id[q] # id[r]

(* s is the last stage of r with one of these outcomes.                    *)
LastWith(r, outcomes, s) ==
  /\ result[r][s] \in outcomes
  /\ \A t \in Stage : Before(s, t) => result[r][t] \notin outcomes

(* Of the events of one type, which make one object, the bucket has the    *)
(* last: an answered request whose uploads all succeeded and whose ID is   *)
(* its own, and a name, can be asked what it came to.                      *)
BucketTellsLast ==
  \A r \in Requests :
    config.backend = "gcs" /\ r \notin missed /\ Alone(r) /\ id[r] \notin Unnameable
      /\ status[r] \in {"200", "502"} =>
      /\ \A s \in Stage :
           /\ LastWith(r, {"ok", "failed"}, s) => Has(r, "stage.start", s)
           /\ LastWith(r, {"ok"}, s) => Has(r, "stage.complete", s)
           /\ LastWith(r, {"failed"}, s) => Has(r, "stage.error", s)
      /\ status[r] = "200" <=> Has(r, "pipeline.complete", "none")

(* No stage runs behind a failed STT stage, and a summary is made only of  *)
(* a transcript this request obtained.                                     *)
LaterStagesNeedSTT ==
  \A r \in Requests :
    /\ \A s \in {"diarize", "summarize"} :
         result[r][s] # "none" => s \in config.urls /\ result[r]["stt"] # "failed"
    /\ result[r]["summarize"] # "none" => result[r]["stt"] = "ok"

(* The local log is append-only: a line once written stays in its place.   *)
LocalAppendOnly ==
  [][Local => \A i \in Ids : Len(files[i]) <= Len(files'[i])
                             /\ SubSeq(files'[i], 1, Len(files[i])) = files[i]]_vars
============================================================================
