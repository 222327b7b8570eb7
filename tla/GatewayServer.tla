--------------------------- MODULE GatewayServer ---------------------------
(***************************************************************************)
(* The gateway's HTTP server (cmd/gateway/main.go, internal/gateway/       *)
(* server.go, middleware.go, handlers.go, proxy.go): requests through the  *)
(* middleware and their handlers, against four clocks that run at once -   *)
(* ReadTimeout for the upload, the proxy's timeout for Whisper,            *)
(* WriteTimeout for the whole of it, and the grace of a shutdown.          *)
(*                                                                         *)
(* Time is discrete: Tick is one unit, and does not happen while a timeout *)
(* that has run out is still to be acted on.  net/http sets the write      *)
(* deadline when it has read the header, so an answer WriteTimeout units   *)
(* later is not delivered; the handler does not learn of it.  A hijacked   *)
(* connection (a WebSocket) has no deadline, and Shutdown forgets it.      *)
(* Uploads larger than 32 MB and forms without a file are one, as is what  *)
(* the stages after speech-to-text do in PipelineRun.  What answers at     *)
(* once from memory (/healthz, /metrics, /v1/models) is left out.          *)
(***************************************************************************)
EXTENDS Naturals, FiniteSets

CONSTANTS
  Requests,                    (* requests that may be made                *)
  ReadTimeout, WriteTimeout,   (* of http.Server, in units                 *)
  BackendTimeout,              (* of the proxy's http.Client               *)
  Grace                        (* of Shutdown's context                    *)

ASSUME TimesAssumption ==
  /\ IsFiniteSet(Requests)
  /\ ReadTimeout \in Nat \ {0} /\ WriteTimeout \in Nat \ {0}
  /\ BackendTimeout \in Nat \ {0} /\ Grace \in Nat \ {0}

VARIABLES
  mode, grace,     (* of the process; units since the signal               *)
  kind, phase,     (* of each request: its route, and where its handler is *)
  age, wait,       (* while it runs: units since its header was read, and  *)
                   (* since Whisper was asked                              *)
  gone,            (* the clients that have left                           *)
  inFlight,        (* gateway_http_requests_in_flight                      *)
  counted,         (* the status each request has in                       *)
                   (* gateway_http_requests_total, and in the log          *)
  got              (* what its client got                                  *)

process  == <<mode, grace>>
requests == <<kind, phase, age, wait, gone>>
vars     == <<process, requests, inFlight, counted, got>>

Kind    == {"transcribe", "pipeline", "ready", "stream"}
Running == {"upload", "whisper", "later", "stream"}
Code    == {"101", "200", "400", "500", "502", "503"}

RunningNow == {r \in Requests : phase[r] \in Running}

TypeOK ==
  /\ mode \in {"serving", "draining", "stopped"} /\ grace \in 0 .. Grace
  /\ kind \in [Requests -> Kind]
  /\ phase \in [Requests -> Running \cup {"none", "done"}]
  /\ age \in [Requests -> 0 .. WriteTimeout] /\ wait \in [Requests -> 0 .. BackendTimeout]
  /\ gone \subseteq Requests
  /\ inFlight \in 0 .. Cardinality(Requests)
  /\ counted \in [Requests -> Code \cup {"none"}]
  /\ got \in [Requests -> Code \cup {"none", "lost", "cut"}]

Init ==
  /\ mode = "serving" /\ grace = 0
  /\ kind \in [Requests -> Kind]
  /\ phase = [r \in Requests |-> "none"]
  /\ age = [r \in Requests |-> 0] /\ wait = [r \in Requests |-> 0]
  /\ gone = {} /\ inFlight = 0
  /\ counted = [r \in Requests |-> "none"] /\ got = [r \in Requests |-> "none"]

----------------------------------------------------------------------------
(* Requests.                                                               *)

(* The route's handler starts.  The readiness probe has no body, and a     *)
(* stream is hijacked.                                                     *)
Arrive(r) ==
  /\ mode = "serving" /\ phase[r] = "none"
  /\ phase' = [phase EXCEPT ![r] = CASE kind[r] = "ready"  -> "whisper"
                                     [] kind[r] = "stream" -> "stream"
                                     [] OTHER              -> "upload"]
  /\ inFlight' = inFlight + 1
  /\ UNCHANGED <<process, kind, age, wait, gone, counted, got>>

(* websocket.Accept refuses the upgrade: the connection is not hijacked,   *)
(* and the answer is one like any other.                                   *)
RefuseStream(r) ==
  /\ mode = "serving" /\ phase[r] = "none" /\ kind[r] = "stream"
  /\ phase' = [phase EXCEPT ![r] = "done"]
  /\ counted' = [counted EXCEPT ![r] = "400"]
  /\ got' = [got EXCEPT ![r] = "400"]
  /\ UNCHANGED <<process, kind, age, wait, gone, inFlight>>

(* What the client gets of a response: a stream has had its own.           *)
Got(r, code) ==
  IF r \in gone \/ age[r] = WriteTimeout THEN "lost"
  ELSE IF kind[r] = "stream" THEN "101" ELSE code

(* The handler writes a response with the given code and returns through   *)
(* the middleware, which takes it off the gauge and counts it.             *)
Finish(r, code) ==
  /\ phase' = [phase EXCEPT ![r] = "done"]
  /\ inFlight' = inFlight - 1
  /\ counted' = [counted EXCEPT ![r] = code]
  /\ got' = [got EXCEPT ![r] = Got(r, code)]
  /\ age' = [age EXCEPT ![r] = 0] /\ wait' = [wait EXCEPT ![r] = 0]
  /\ UNCHANGED <<process, kind, gone>>

(* The clocks that have run out.                                           *)

(* Faulty variant: the server has no ReadTimeout. *)
UploadDueNever(r) == FALSE

UploadDue(r)  == phase[r] = "upload" /\ age[r] = ReadTimeout

(* Faulty variant: the proxy uses http.DefaultClient. *)
WhisperDueNever(r) == FALSE

WhisperDue(r) == phase[r] = "whisper" /\ wait[r] = BackendTimeout

(* Faulty variant: main gives Shutdown a context without a deadline. *)
GraceOverNever == FALSE

GraceOver == mode = "draining" /\ grace = Grace

Enter(r, p) ==
  /\ phase' = [phase EXCEPT ![r] = p]
  /\ wait' = [wait EXCEPT ![r] = 0]
  /\ UNCHANGED <<process, kind, age, gone, inFlight, counted, got>>

(* The form has been read; a pipeline may do without speech-to-text.       *)
UploadEnds(r) ==
  /\ phase[r] = "upload" /\ ~UploadDue(r)
  /\ \/ Enter(r, "whisper")
     \/ kind[r] = "pipeline" /\ Enter(r, "later")

(* It does not come in time, or is not what it should be, or the pipeline  *)
(* cannot read its file.                                                   *)
UploadFails(r) ==
  /\ phase[r] = "upload"
  /\ Finish(r, "400") \/ (kind[r] = "pipeline" /\ Finish(r, "500"))

(* Whisper's answer goes to the client, or on to the later stages.         *)
WhisperAnswers(r) ==
  /\ phase[r] = "whisper" /\ ~WhisperDue(r)
  /\ \/ Finish(r, "200")
     \/ kind[r] = "pipeline" /\ Enter(r, "later")

(* No answer in time, an error, or the client's leaving has cancelled it.  *)
WhisperFails(r) ==
  phase[r] = "whisper" /\ Finish(r, IF kind[r] = "ready" THEN "503" ELSE "502")

LaterEnds(r)  == phase[r] = "later" /\ Finish(r, "200")
StreamEnds(r) == phase[r] = "stream" /\ Finish(r, "101")

(* Faulty variant: recoveryMiddleware is the outermost, around metrics. *)
PanicOutermost(r) ==
  /\ phase[r] \in Running
  /\ phase' = [phase EXCEPT ![r] = "done"]
  /\ inFlight' = inFlight - 1
  /\ got' = [got EXCEPT ![r] = Got(r, "500")]
  /\ age' = [age EXCEPT ![r] = 0] /\ wait' = [wait EXCEPT ![r] = 0]
  /\ UNCHANGED <<process, kind, gone, counted>>

(* Faulty variant: recoveryMiddleware takes it off the gauge as well. *)
PanicTwice(r) ==
  /\ phase[r] \in Running
  /\ phase' = [phase EXCEPT ![r] = "done"]
  /\ inFlight' = inFlight - 2
  /\ counted' = [counted EXCEPT ![r] = "500"]
  /\ got' = [got EXCEPT ![r] = Got(r, "500")]
  /\ age' = [age EXCEPT ![r] = 0] /\ wait' = [wait EXCEPT ![r] = 0]
  /\ UNCHANGED <<process, kind, gone>>

(* A handler panics, and recoveryMiddleware answers for it.                *)
Panic(r) == phase[r] \in Running /\ Finish(r, "500")

ClientLeaves(r) ==
  /\ phase[r] \in Running /\ r \notin gone
  /\ gone' = gone \cup {r}
  /\ UNCHANGED <<process, kind, phase, age, wait, inFlight, counted, got>>

Step(r) ==
  \/ Arrive(r) \/ RefuseStream(r) \/ UploadEnds(r) \/ UploadFails(r) \/ WhisperAnswers(r)
  \/ WhisperFails(r) \/ LaterEnds(r) \/ StreamEnds(r) \/ Panic(r) \/ ClientLeaves(r)

----------------------------------------------------------------------------
(* The process.                                                            *)

(* SIGTERM or SIGINT: Shutdown closes the listener.                        *)
Signal ==
  /\ mode = "serving"
  /\ mode' = "draining"
  /\ UNCHANGED <<grace, requests, inFlight, counted, got>>

(* Connections that Shutdown waits for.                                    *)
Active == {r \in RunningNow : phase[r] # "stream"}

(* Shutdown returns and so does main: what still runs ends with it.        *)
ShutdownEnds ==
  /\ mode = "draining" /\ (Active = {} \/ GraceOver)
  /\ mode' = "stopped"
  /\ phase' = [r \in Requests |-> IF r \in RunningNow THEN "done" ELSE phase[r]]
  /\ got' = [r \in Requests |-> IF r \in RunningNow THEN "cut" ELSE got[r]]
  /\ inFlight' = 0
  /\ UNCHANGED <<grace, kind, age, wait, gone, counted>>

Capped(n, most) == IF n < most THEN n + 1 ELSE most

(* One unit of time.  Ages are of interest up to their timeout only.       *)
Tick ==
  /\ mode # "stopped" /\ ~GraceOver
  /\ \A r \in Requests : ~UploadDue(r) /\ ~WhisperDue(r)
  /\ age' = [r \in Requests |-> IF r \in Active THEN Capped(age[r], WriteTimeout) ELSE age[r]]
  /\ wait' = [r \in Requests |->
               IF phase[r] = "whisper" THEN Capped(wait[r], BackendTimeout) ELSE wait[r]]
  /\ grace' = IF mode = "draining" THEN Capped(grace, Grace) ELSE grace
  /\ UNCHANGED <<mode, kind, phase, gone, inFlight, counted, got>>

(* What a timer does.                                                      *)
Expire ==
  \/ ShutdownEnds
  \/ \E r \in Requests : (UploadDue(r) /\ UploadFails(r)) \/ (WhisperDue(r) /\ WhisperFails(r))

Next == (\E r \in Requests : Step(r)) \/ Signal \/ ShutdownEnds \/ Tick

(* Time passes and timers fire; nothing is assumed of clients, of Whisper  *)
(* or of the other services.                                               *)
Spec == Init /\ [][Next]_vars /\ WF_vars(Tick) /\ WF_vars(Expire)

----------------------------------------------------------------------------
(* Properties.                                                             *)

(* The gauge is the number of handlers that run, and every request that    *)
(* ended is counted once under its status, however it ended: a panic is    *)
(* recovered inside the metrics.                                           *)
MetricsAddUp ==
  mode # "stopped" =>
    /\ inFlight = Cardinality(RunningNow)
    /\ \A r \in Requests : counted[r] # "none" <=> phase[r] = "done"

(* A transcription that Whisper gave within what WriteTimeout leaves after *)
(* the longest upload reaches a client that waits for it.                  *)
QuickAnswerArrives ==
  [][\A r \in Requests :
       got'[r] # got[r] /\ got'[r] = "lost" /\ kind[r] = "transcribe" /\ r \notin gone
         => wait[r] + ReadTimeout >= WriteTimeout]_vars

(* A transcription or probe ends, even one whose Whisper never answers.    *)
WhisperCallsEnd ==
  \A r \in Requests :
    (phase[r] \in Running /\ kind[r] \in {"transcribe", "ready"}) ~> (phase[r] = "done")

(* The process ends after the signal, also when a handler never does.      *)
StopsAfterSignal == (mode = "draining") ~> (mode = "stopped")
============================================================================
