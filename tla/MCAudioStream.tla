--------------------------- MODULE MCAudioStream ---------------------------
(***************************************************************************)
(* AudioStream for TLC, and two statements of stream.go's comments that    *)
(* the code does not live up to.                                           *)
(*                                                                         *)
(* Two frames make a second of audio and three make MaxBufferDuration, so  *)
(* that the minimum, the silence flush and the forced flush are all        *)
(* reached; five frames let a second segment build up behind the one in    *)
(* flight and pass MaxBufferDuration.                                      *)
(***************************************************************************)
EXTENDS AudioStream

MCMinFlush  == 2
MCMaxFlush  == 3
MCMaxFrames == 5

(* stream.go:283, "If VAD is down, assume speech (don't drop audio)": a    *)
(* frame the VAD service gave no verdict on is kept.                       *)
VADOutageDropsNothing ==
  \A f \in unjudged :
    \/ f = heard /\ pc["reader"] \in {"mark", "add", "peek", "trail"}
    \/ f \in Range(frames) \cup Range(inflight["reader"])
             \cup Range(inflight["loop"]) \cup SettledAudio

(* stream.go:132, "Flush if we had speech and now silence for long         *)
(* enough": a second or more of audio with speech in it leaves the buffer  *)
(* unless the speaker goes on.  A flush between markSpeech and addFrame    *)
(* clears lastSpeech, and the frame appended next is stranded.             *)
SpeechThenSilenceFlushes ==
  (Len(frames) >= MinFlush /\ ~isSpeaking /\ voiced \cap Range(frames) # {})
    ~> (isSpeaking \/ frames = <<>>)
============================================================================
