---------------------------- MODULE AudioStream ----------------------------
(***************************************************************************)
(* One session of the gateway's streaming endpoint                         *)
(* (internal/gateway/stream.go).  Two goroutines share an audioBuffer:     *)
(*                                                                         *)
(*   "reader"  handleStream's read loop: takes a frame off the WebSocket,  *)
(*             asks the VAD sidecar about it, and appends it to the buffer *)
(*             in separate critical sections; flushes what is left when    *)
(*             the client says "close" or the connection fails.            *)
(*   "loop"    flushLoop: on a tick it asks shouldFlush, and in a second   *)
(*             critical section takes the buffer; it then waits for        *)
(*             Whisper before it looks at the ticker again.                *)
(*                                                                         *)
(* A frame is its number in capture order.  All frames are taken to be as  *)
(* long as each other, so totalBytes is Len(frames) and the one-second and *)
(* thirty-second limits are the frame counts MinFlush and MaxFlush.  The   *)
(* clock is reduced to what shouldFlush asks of it: lastSpeech is "zero"   *)
(* (the zero Time), "recent" or "old" (SilenceFlushDelay or more ago).     *)
(***************************************************************************)
EXTENDS Naturals, Sequences, Functions

CONSTANTS
  MinFlush,    (* frames in one second of audio                            *)
  MaxFlush,    (* frames in MaxBufferDuration                              *)
  MaxFrames    (* bound: frames the client sends in a session              *)

ASSUME LimitsAssumption ==
  /\ MinFlush \in Nat /\ MinFlush >= 1
  /\ MaxFlush \in Nat /\ MinFlush <= MaxFlush
  /\ MaxFrames \in Nat

VARIABLES
  pc,          (* where each goroutine is                                  *)
  heard,       (* number of the last frame read from the socket            *)
  frames,      (* audioBuffer.frames                                       *)
  isSpeaking,  (* audioBuffer.isSpeaking                                   *)
  lastSpeech,  (* audioBuffer.lastSpeech                                   *)
  seen,        (* totalBytes > 0 at the reader's last critical section     *)
  inflight,    (* the audio each goroutine is waiting for Whisper with     *)
  connOpen,    (* writes to the WebSocket still reach the client           *)
  cancelled,   (* the session context is done                              *)
  (* History. *)
  voiced,      (* frames the gateway decided to treat as speech            *)
  unjudged,    (* frames the VAD service gave no verdict on                *)
  settled      (* audio Whisper is done with, and what the client was told *)

buffer == <<frames, isSpeaking, lastSpeech>>
vars == <<pc, heard, buffer, seen, inflight, connOpen, cancelled,
          voiced, unjudged, settled>>

Worker   == {"reader", "loop"}
Frame    == 1 .. MaxFrames
ReaderPC == {"read", "vad", "mark", "add", "peek", "trail", "quiet",
             "flush", "whisper", "finish", "ended"}
LoopPC   == {"select", "flush", "whisper", "exited"}
Reply    == {"final", "error", "nothing"}

TypeOK ==
  /\ pc \in [Worker -> ReaderPC \cup LoopPC]
  /\ pc["reader"] \in ReaderPC /\ pc["loop"] \in LoopPC
  /\ heard \in 0 .. MaxFrames
  /\ frames \in Seq(Frame)
  /\ isSpeaking \in BOOLEAN
  /\ lastSpeech \in {"zero", "recent", "old"}
  /\ seen \in BOOLEAN
  /\ inflight \in [Worker -> Seq(Frame)]
  /\ connOpen \in BOOLEAN
  /\ cancelled \in BOOLEAN
  /\ voiced \subseteq Frame
  /\ unjudged \subseteq Frame
  /\ settled \in Seq([audio : Seq(Frame), reply : Reply])

Init ==
  /\ pc = [w \in Worker |-> IF w = "reader" THEN "read" ELSE "select"]
  /\ heard = 0
  /\ frames = <<>>
  /\ isSpeaking = FALSE
  /\ lastSpeech = "zero"
  /\ seen = FALSE
  /\ inflight = [w \in Worker |-> <<>>]
  /\ connOpen = TRUE
  /\ cancelled = FALSE
  /\ voiced = {}
  /\ unjudged = {}
  /\ settled = <<>>

Goto(w, from, to) == pc[w] = from /\ pc' = [pc EXCEPT ![w] = to]

---------------------------------------------------------------------------
(* The reader.                                                             *)

session == <<inflight, connOpen, cancelled, settled>>

(* A binary message.  Text other than "close" is read and ignored.         *)
ReceiveFrame ==
  /\ heard < MaxFrames
  /\ Goto("reader", "read", "vad")
  /\ heard' = heard + 1
  /\ UNCHANGED <<buffer, seen, voiced, unjudged, session>>

ReceiveClose ==
  /\ Goto("reader", "read", "flush")
  /\ UNCHANGED <<heard, buffer, seen, voiced, unjudged, session>>

(* The client hung up, or the connection failed: nothing written later     *)
(* reaches it, though the reader still flushes.                            *)
ReadError ==
  /\ Goto("reader", "read", "flush")
  /\ connOpen' = FALSE
  /\ UNCHANGED <<heard, buffer, seen, voiced, unjudged, inflight, cancelled,
                 settled>>

(* checkVAD returns an error when no response arrives, and the handler     *)
(* assumes speech.  It looks at neither the status nor the decoder's       *)
(* error, so a response without a verdict ("refused") decodes to           *)
(* speech = false with a nil error.                                        *)
VADAnswer == {"speech", "silence", "error", "refused"}

TreatAsSpeech(answer) == answer \in {"speech", "error"}

CheckVAD(answer) ==
  /\ Goto("reader", "vad", IF TreatAsSpeech(answer) THEN "mark" ELSE "peek")
  /\ voiced' = IF TreatAsSpeech(answer) THEN voiced \cup {heard} ELSE voiced
  /\ unjudged' = IF answer \in {"error", "refused"}
                 THEN unjudged \cup {heard} ELSE unjudged
  /\ UNCHANGED <<heard, buffer, seen, session>>

MarkSpeech ==
  /\ Goto("reader", "mark", "add")
  /\ isSpeaking' = TRUE
  /\ lastSpeech' = "recent"
  /\ seen' = (frames # <<>>)
  /\ UNCHANGED <<heard, frames, voiced, unjudged, session>>

AddFrame(from, to) ==
  /\ Goto("reader", from, to)
  /\ frames' = Append(frames, heard)
  /\ seen' = TRUE
  /\ UNCHANGED <<heard, isSpeaking, lastSpeech, voiced, unjudged, session>>

(* totalBytes is read without the lock: the race may yield the value that  *)
(* is current or the one the reader last synchronised with.                *)
PeekTotalBytes ==
  /\ \E nonEmpty \in {frames # <<>>, seen} :
       Goto("reader", "peek", IF nonEmpty THEN "trail" ELSE "quiet")
  /\ UNCHANGED <<heard, buffer, seen, voiced, unjudged, session>>

MarkSilence ==
  /\ Goto("reader", "quiet", "read")
  /\ isSpeaking' = FALSE
  /\ seen' = (frames # <<>>)
  /\ UNCHANGED <<heard, frames, lastSpeech, voiced, unjudged, session>>

(* Faulty variant: handleStream does not return after "close".             *)
EndSessionKeepsReading ==
  /\ Goto("reader", "finish", "read")
  /\ UNCHANGED <<heard, buffer, seen, voiced, unjudged, session>>

(* Faulty variant: the deferred cancel is missing.                         *)
EndSessionWithoutCancel ==
  /\ Goto("reader", "finish", "ended")
  /\ connOpen' = FALSE
  /\ UNCHANGED <<heard, buffer, seen, voiced, unjudged, inflight, cancelled,
                 settled>>

(* conn.Close, then the deferred cancel and CloseNow.                      *)
EndSession ==
  /\ Goto("reader", "finish", "ended")
  /\ connOpen' = FALSE
  /\ cancelled' = TRUE
  /\ UNCHANGED <<heard, buffer, seen, voiced, unjudged, inflight, settled>>

---------------------------------------------------------------------------
(* The flush loop.                                                         *)

(* Faulty variant: only the size limit flushes.                            *)
ShouldFlushBySize == Len(frames) >= MaxFlush

ShouldFlush ==
  /\ Len(frames) >= MinFlush
  /\ \/ Len(frames) >= MaxFlush
     \/ ~isSpeaking /\ lastSpeech = "old"

(* A tick on which shouldFlush says no changes nothing.  select takes      *)
(* either case when both are ready, so a tick may still follow the cancel. *)
Tick ==
  /\ ShouldFlush
  /\ Goto("loop", "select", "flush")
  /\ UNCHANGED <<heard, buffer, seen, voiced, unjudged, session>>

LoopDone ==
  /\ cancelled
  /\ Goto("loop", "select", "exited")
  /\ UNCHANGED <<heard, buffer, seen, voiced, unjudged, session>>

---------------------------------------------------------------------------
(* flushBuffer, called by both.                                            *)

(* Faulty variant: the reader goes on as the loop does.                    *)
ReturnToSelect(w) == "select"

Return(w) == IF w = "loop" THEN "select" ELSE "finish"

(* Faulty variant: less than a second of audio is reset but not sent.      *)
FlushDropsShort(w) ==
  /\ Goto(w, "flush", IF Len(frames) < MinFlush THEN Return(w) ELSE "whisper")
  /\ frames' = <<>> /\ lastSpeech' = "zero" /\ isSpeaking' = FALSE
  /\ inflight' = [inflight EXCEPT ![w] =
                    IF Len(frames) < MinFlush THEN <<>> ELSE frames]
  /\ UNCHANGED <<heard, seen, connOpen, cancelled, voiced, unjudged, settled>>

(* Faulty variant: the frames are not reset.                               *)
FlushKeepsFrames(w) ==
  /\ Goto(w, "flush", IF frames = <<>> THEN Return(w) ELSE "whisper")
  /\ lastSpeech' = "zero"
  /\ isSpeaking' = FALSE
  /\ inflight' = [inflight EXCEPT ![w] = frames]
  /\ UNCHANGED <<heard, frames, seen, connOpen, cancelled, voiced, unjudged,
                 settled>>

(* audioBuffer.flush: take everything and reset, or return nil.            *)
Flush(w) ==
  /\ Goto(w, "flush", IF frames = <<>> THEN Return(w) ELSE "whisper")
  /\ IF frames = <<>>
     THEN UNCHANGED buffer
     ELSE frames' = <<>> /\ lastSpeech' = "zero" /\ isSpeaking' = FALSE
  /\ inflight' = [inflight EXCEPT ![w] = frames]
  /\ UNCHANGED <<heard, seen, connOpen, cancelled, voiced, unjudged, settled>>

(* Whisper answers with a transcript, the request fails (always, once the  *)
(* context is cancelled, unless the answer was already in), or the status  *)
(* is not 200 and the client is told nothing.  Errors of conn.Write are    *)
(* ignored.                                                                *)
WhisperAnswers(w, reply) ==
  /\ Goto(w, "whisper", Return(w))
  /\ settled' = Append(settled,
       [audio |-> inflight[w],
        reply |-> IF connOpen THEN reply ELSE "nothing"])
  /\ inflight' = [inflight EXCEPT ![w] = <<>>]
  /\ UNCHANGED <<heard, buffer, seen, connOpen, cancelled, voiced, unjudged>>

---------------------------------------------------------------------------
(* SilenceFlushDelay elapses since lastSpeech.                             *)
TimePasses ==
  /\ lastSpeech = "recent"
  /\ lastSpeech' = "old"
  /\ UNCHANGED <<pc, heard, frames, isSpeaking, seen, voiced, unjudged,
                 session>>

ReaderStep ==
  \/ \E answer \in VADAnswer : CheckVAD(answer)
  \/ MarkSpeech
  \/ AddFrame("add", "read")
  \/ PeekTotalBytes
  \/ AddFrame("trail", "quiet")
  \/ MarkSilence
  \/ EndSession

Next ==
  \/ ReceiveFrame
  \/ ReceiveClose
  \/ ReadError
  \/ ReaderStep
  \/ Tick
  \/ LoopDone
  \/ \E w \in Worker : Flush(w)
  \/ \E w \in Worker, reply \in Reply : WhisperAnswers(w, reply)
  \/ TimePasses

(* The goroutines keep running and the clock advances.  That the VAD and   *)
(* Whisper answer is assumed of those services: http.DefaultClient has no  *)
(* timeout.  Nothing is assumed of the client.                             *)
Fairness ==
  /\ WF_vars(ReaderStep)
  /\ WF_vars(Tick)
  /\ WF_vars(LoopDone)
  /\ \A w \in Worker :
       /\ WF_vars(Flush(w))
       /\ WF_vars(\E reply \in Reply : WhisperAnswers(w, reply))
  /\ WF_vars(TimePasses)

Spec == Init /\ [][Next]_vars /\ Fairness

---------------------------------------------------------------------------
(* Properties.                                                             *)

(* s and t are sequences of frames; every frame of s was captured earlier. *)
Precedes(s, t) == \A i \in DOMAIN s, j \in DOMAIN t : s[i] < t[j]
Ordered(s, t)  == Precedes(s, t) \/ Precedes(t, s)
Increasing(s)  == \A i, j \in DOMAIN s : i < j => s[i] < s[j]

InHand == IF pc["reader"] \in {"mark", "add"} THEN {heard} ELSE {}
SettledAudio == UNION {Range(settled[i].audio) : i \in DOMAIN settled}

(* Every frame the gateway took for speech is in the reader's hand, in the *)
(* buffer, before Whisper, or was before Whisper: no interleaving of the   *)
(* two goroutines' critical sections makes flush drop or skip one.         *)
NoSpeechLost ==
  voiced \subseteq InHand \cup Range(frames) \cup Range(inflight["reader"])
                   \cup Range(inflight["loop"]) \cup SettledAudio

(* Audio is cut into segments that never share a frame and never           *)
(* interleave: each is in capture order, any two are one wholly before the *)
(* other, and all come before what is still buffered.  So no frame is      *)
(* transcribed twice, however flushes and appends interleave.              *)
CaptureOrder ==
  /\ Increasing(frames)
  /\ \A w \in Worker : /\ Increasing(inflight[w])
                       /\ Precedes(inflight[w], frames)
  /\ Ordered(inflight["reader"], inflight["loop"])
  /\ \A i \in DOMAIN settled :
       /\ Increasing(settled[i].audio)
       /\ Precedes(settled[i].audio, frames)
       /\ \A w \in Worker : Ordered(settled[i].audio, inflight[w])
       /\ \A j \in DOMAIN settled :
            i # j => Ordered(settled[i].audio, settled[j].audio)

(* Until the session is being closed the client gets the transcripts in    *)
(* the order it spoke: only the reader's last flush can overtake a request *)
(* of the loop.                                                            *)
TranscriptsInOrder ==
  pc["reader"] \notin {"whisper", "finish", "ended"} =>
    \A i, j \in DOMAIN settled :
      i < j /\ settled[i].reply = "final" /\ settled[j].reply = "final"
        => Precedes(settled[i].audio, settled[j].audio)

(* The loop never sends Whisper less than a second of audio, although the  *)
(* buffer can be emptied by the reader between shouldFlush and flush.      *)
LoopSegmentsLongEnough ==
  inflight["loop"] = <<>> \/ Len(inflight["loop"]) >= MinFlush

(* A second or more of speech followed by silence leaves the buffer, or    *)
(* the speaker goes on: no race on the buffer's flags loses that wakeup    *)
(* once lastSpeech is set.                                                 *)
SilenceFlushes ==
  (Len(frames) >= MinFlush /\ ~isSpeaking /\ lastSpeech # "zero")
    ~> (isSpeaking \/ frames = <<>>)

(* Once the client closes or is lost, whatever was buffered goes to        *)
(* Whisper, every request ends and both goroutines stop.                   *)
SessionWindsDown ==
  (pc["reader"] = "flush") ~>
    /\ frames = <<>>
    /\ \A w \in Worker : inflight[w] = <<>>
    /\ pc = [w \in Worker |-> IF w = "reader" THEN "ended" ELSE "exited"]


---------------------------------------------------------------------------
(* The session implements TranscriptSession: the buffer is what was        *)
(* recorded since the last cut, and a goroutine's audio in flight is an    *)
(* outstanding segment.                                                    *)
Over == pc["reader"] \in {"whisper", "finish", "ended"}

Session == INSTANCE TranscriptSession WITH
  pending <- frames,
  out     <- {inflight[w] : w \in {u \in Worker : inflight[u] # <<>>}},
  done    <- settled,
  open    <- connOpen,
  over    <- Over

(* Every step of the two goroutines is a step of the abstract session or   *)
(* changes nothing of it: in particular nothing is recorded after the last *)
(* cut, and only that cut may overtake a segment in flight.                *)
ImplementsSession == Session!AbsSpec
============================================================================
