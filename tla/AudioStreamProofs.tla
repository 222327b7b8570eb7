------------------------- MODULE AudioStreamProofs -------------------------
(***************************************************************************)
(* Theorems about AudioStream, for every number of frames and every pair   *)
(* of limits.  The properties follow from IInv, which adds to CaptureOrder *)
(* where each goroutine may hold audio and what an overtaking flush needs. *)
(***************************************************************************)
EXTENDS AudioStream, TLAPS

(* The reader holds frame number heard from ReceiveFrame to the append.    *)
Holding == {"vad", "mark", "add", "peek", "trail"}

Typing == TypeOK /\ (pc["reader"] \in Holding => heard \in Frame)

LEMMA InitTyping == Init => Typing
<1> SUFFICES ASSUME Init PROVE Typing
  OBVIOUS
<1> USE DEF Init, Worker, ReaderPC, LoopPC
<1>1. /\ pc \in [Worker -> ReaderPC \cup LoopPC]
      /\ pc["reader"] = "read" /\ pc["loop"] = "select"
  OBVIOUS
<1>2. inflight \in [Worker -> Seq(Frame)]
  OBVIOUS
<1>3. heard \in 0 .. MaxFrames
  BY LimitsAssumption
<1>4. frames \in Seq(Frame) /\ settled \in Seq([audio : Seq(Frame), reply : Reply])
  OBVIOUS
<1> QED
  BY <1>1, <1>2, <1>3, <1>4 DEF Typing, TypeOK, Holding

LEMMA NextTyping == Typing /\ [Next]_vars => Typing'
<1> SUFFICES ASSUME Typing, [Next]_vars PROVE Typing'
  OBVIOUS
<1> USE DEF Typing, TypeOK, Holding, Worker, Frame, ReaderPC, LoopPC, Goto, buffer, session
<1>1. CASE ReceiveFrame
  BY <1>1, LimitsAssumption DEF ReceiveFrame
<1>2. CASE ReceiveClose
  BY <1>2 DEF ReceiveClose
<1>3. CASE ReadError
  BY <1>3 DEF ReadError
<1>4. ASSUME NEW answer \in VADAnswer, CheckVAD(answer) PROVE Typing'
  BY <1>4 DEF CheckVAD
<1>5. CASE MarkSpeech
  BY <1>5 DEF MarkSpeech
<1>6. CASE AddFrame("add", "read")
  BY <1>6 DEF AddFrame
<1>7. CASE PeekTotalBytes
  BY <1>7 DEF PeekTotalBytes
<1>8. CASE AddFrame("trail", "quiet")
  BY <1>8 DEF AddFrame
<1>9. CASE MarkSilence
  BY <1>9 DEF MarkSilence
<1>10. CASE EndSession
  BY <1>10 DEF EndSession
<1>11. CASE Tick
  BY <1>11 DEF Tick
<1>12. CASE LoopDone
  BY <1>12 DEF LoopDone
<1>13. ASSUME NEW w \in Worker, Flush(w) PROVE Typing'
  <2>1. inflight' \in [Worker -> Seq(Frame)]
    BY <1>13 DEF Flush
  <2>2. /\ pc' \in [Worker -> ReaderPC \cup LoopPC]
        /\ pc'["reader"] \in ReaderPC \ Holding \/ pc'["reader"] = pc["reader"]
        /\ pc'["reader"] \in ReaderPC /\ pc'["loop"] \in LoopPC
    <3>1. CASE w = "reader"
      BY <1>13, <3>1 DEF Flush, Return
    <3>2. CASE w = "loop"
      BY <1>13, <3>2 DEF Flush, Return
    <3> QED
      BY <3>1, <3>2
  <2>3. /\ frames' \in Seq(Frame)
        /\ isSpeaking' \in BOOLEAN
        /\ lastSpeech' \in {"zero", "recent", "old"}
    <3>1. CASE frames = <<>>
      BY <1>13, <3>1 DEF Flush
    <3>2. CASE frames # <<>>
      <4>1. frames' = <<>> /\ lastSpeech' = "zero" /\ isSpeaking' = FALSE
        BY <1>13, <3>2 DEF Flush
      <4>2. <<>> \in Seq(Frame)
        OBVIOUS
      <4>3. isSpeaking' \in BOOLEAN
        BY <4>1
      <4> QED
        BY <4>1, <4>2, <4>3
    <3> QED
      BY <3>1, <3>2
  <2>4. UNCHANGED <<heard, seen, connOpen, cancelled, voiced, unjudged, settled>>
    BY <1>13 DEF Flush
  <2> QED
    BY <2>1, <2>2, <2>3, <2>4
<1>14. ASSUME NEW w \in Worker, NEW reply \in Reply, WhisperAnswers(w, reply)
       PROVE Typing'
  BY <1>14 DEF WhisperAnswers, Return, Reply
<1>15. CASE TimePasses
  BY <1>15 DEF TimePasses
<1>16. CASE UNCHANGED vars
  BY <1>16 DEF vars
<1> QED
  BY <1>1, <1>2, <1>3, <1>4, <1>5, <1>6, <1>7, <1>8, <1>9, <1>10, <1>11,
     <1>12, <1>13, <1>14, <1>15, <1>16 DEF Next, ReaderStep

---------------------------------------------------------------------------
(* The inductive invariant.                                                *)

(* No frame is numbered past the last one read; while the reader holds     *)
(* that one it is nowhere else.                                            *)
Bound       == IF pc["reader"] \in Holding THEN heard ELSE heard + 1
Below(s, n) == \A i \in DOMAIN s : s[i] < n
AllBelow ==
  /\ Below(frames, Bound)
  /\ \A w \in Worker : Below(inflight[w], Bound)
  /\ \A i \in DOMAIN settled : Below(settled[i].audio, Bound)

(* Audio is in flight exactly while its goroutine waits for Whisper.       *)
InFlightAtWhisper == \A w \in Worker : pc[w] = "whisper" <=> inflight[w] # <<>>

(* After its own flush the reader appends nothing.                         *)
Closing == {"whisper", "finish", "ended"}
ClosingEmpty == pc["reader"] \in Closing => frames = <<>>

(* What shouldFlush saw still holds at flush, or the reader was faster.    *)
LoopDecision ==
  pc["loop"] = "flush" =>
    Len(frames) >= MinFlush \/ pc["reader"] \in Closing

SettledInOrder ==
  pc["reader"] \notin Closing =>
    /\ \A i, j \in DOMAIN settled :
         i < j => Precedes(settled[i].audio, settled[j].audio)
    /\ \A i \in DOMAIN settled : Precedes(settled[i].audio, inflight["loop"])

IInv ==
  /\ Typing
  /\ AllBelow
  /\ InFlightAtWhisper
  /\ ClosingEmpty
  /\ LoopDecision
  /\ CaptureOrder
  /\ SettledInOrder
  /\ NoSpeechLost
  /\ LoopSegmentsLongEnough

LEMMA SettledTyping ==
  ASSUME TypeOK, NEW i \in DOMAIN settled
  PROVE  settled[i].audio \in Seq(Frame)
<1> DEFINE Result == [audio : Seq(Frame), reply : Reply]
<1>1. settled \in Seq(Result)
  BY DEF TypeOK
<1>2. settled[i] \in Result
  <2> HIDE DEF Result
  <2> QED
    BY <1>1
<1> QED
  BY <1>2

LEMMA BoundIsNat == Typing => Bound \in Nat
<1>1. Typing => heard \in Nat
  BY LimitsAssumption DEF Typing, TypeOK
<1>2. heard \in Nat => Bound \in Nat
  BY DEF Bound
<1> QED
  BY <1>1, <1>2

LEMMA BelowMonotonic ==
  ASSUME NEW s \in Seq(Frame), NEW m \in Nat, NEW n \in Nat,
         Below(s, m), m <= n
  PROVE  Below(s, n)
<1>1. \A i \in DOMAIN s : s[i] \in Nat
  BY LimitsAssumption DEF Frame
<1> QED
  BY <1>1 DEF Below

(* A step that leaves the audio where it is, and does not lower Bound,     *)
(* keeps every part of the invariant that is only about where audio is.    *)
LEMMA AudioUnmoved ==
  ASSUME IInv, Typing', Bound' >= Bound, UNCHANGED <<frames, inflight, settled>>
  PROVE  AllBelow' /\ CaptureOrder' /\ LoopSegmentsLongEnough'
<1> USE DEF IInv
<1>1. AllBelow'
  <2>1. Bound \in Nat
    BY BoundIsNat
  <2>2. (Bound \in Nat)'
    BY BoundIsNat, PTL
  <2>3. /\ frames \in Seq(Frame)
        /\ \A w \in Worker : inflight[w] \in Seq(Frame)
    BY DEF Typing, TypeOK
  <2>4. \A i \in DOMAIN settled : settled[i].audio \in Seq(Frame)
    BY SettledTyping DEF Typing
  <2> QED
    BY <2>1, <2>2, <2>3, <2>4, BelowMonotonic DEF AllBelow
<1>2. CaptureOrder'
  BY DEF CaptureOrder, Ordered, Precedes, Increasing
<1>3. LoopSegmentsLongEnough'
  BY DEF LoopSegmentsLongEnough
<1> QED
  BY <1>1, <1>2, <1>3

(* Appending a frame newer than everything seen so far.                    *)
LEMMA AppendNewer ==
  ASSUME NEW s \in Seq(Frame), NEW e \in Frame, Increasing(s), Below(s, e)
  PROVE  /\ Increasing(Append(s, e))
         /\ Below(Append(s, e), e + 1)
         /\ Range(Append(s, e)) = Range(s) \cup {e}
         /\ \A t \in Seq(Frame) : Precedes(t, s) /\ Below(t, e)
                                    => Precedes(t, Append(s, e))
<1> DEFINE a == Append(s, e)
<1>1. /\ DOMAIN a = 1 .. Len(s) + 1
      /\ DOMAIN s = 1 .. Len(s)
      /\ Len(s) \in Nat
      /\ \A i \in DOMAIN s : a[i] = s[i] /\ s[i] \in Nat
      /\ a[Len(s) + 1] = e
  BY LimitsAssumption DEF Frame
<1>2. e \in Nat
  BY LimitsAssumption DEF Frame
<1> HIDE DEF a
<1>3. Increasing(a)
  BY <1>1, <1>2 DEF Increasing, Below
<1>4. Below(a, e + 1)
  BY <1>1, <1>2 DEF Below
<1>5. Range(a) = Range(s) \cup {e}
  BY <1>1 DEF Range
<1>6. ASSUME NEW t \in Seq(Frame), Precedes(t, s), Below(t, e)
      PROVE  Precedes(t, a)
  BY <1>1, <1>6 DEF Precedes, Below
<1> QED
  BY <1>3, <1>4, <1>5, <1>6 DEF a

LEMMA AddFrameStep ==
  ASSUME IInv, Typing', AddFrame("add", "read") \/ AddFrame("trail", "quiet")
  PROVE  IInv'
<1> PICK from, to : /\ AddFrame(from, to)
                    /\ \/ from = "add" /\ to = "read"
                       \/ from = "trail" /\ to = "quiet"
  OBVIOUS
<1>1. /\ pc["reader"] = from /\ pc'["reader"] = to
      /\ pc'["loop"] = pc["loop"]
      /\ pc \in [Worker -> ReaderPC \cup LoopPC]
  BY DEF IInv, Typing, TypeOK, AddFrame, Goto, Worker
<1>2. /\ frames' = Append(frames, heard)
      /\ UNCHANGED <<heard, inflight, settled, voiced>>
  BY DEF AddFrame, session
<1>3. /\ frames \in Seq(Frame)
      /\ heard \in Frame
      /\ \A w \in Worker : inflight[w] \in Seq(Frame)
  BY <1>1 DEF IInv, Typing, TypeOK, Holding
<1>4. \A i \in DOMAIN settled : settled[i].audio \in Seq(Frame)
  BY SettledTyping DEF IInv, Typing
<1>5. Bound = heard /\ Bound' = heard + 1
  BY <1>1, <1>2 DEF Bound, Holding
<1>6. heard \in Nat /\ heard + 1 \in Nat /\ heard <= heard + 1
  BY <1>3, LimitsAssumption DEF Frame
<1>7. Below(frames, heard) /\ Increasing(frames)
  BY <1>5 DEF IInv, AllBelow, CaptureOrder
<1>8. AllBelow'
  BY <1>2, <1>3, <1>4, <1>5, <1>6, <1>7, AppendNewer, BelowMonotonic
  DEF IInv, AllBelow
<1>9. CaptureOrder'
  <2>1. \A w \in Worker : Precedes(inflight[w], frames')
    BY <1>2, <1>3, <1>5, <1>7, AppendNewer DEF IInv, AllBelow, CaptureOrder
  <2>2. \A i \in DOMAIN settled : Precedes(settled[i].audio, frames')
    BY <1>2, <1>3, <1>4, <1>5, <1>7, AppendNewer DEF IInv, AllBelow, CaptureOrder
  <2>3. Increasing(frames')
    BY <1>2, <1>3, <1>7, AppendNewer
  <2> QED
    BY <1>2, <2>1, <2>2, <2>3 DEF IInv, CaptureOrder
<1>10. InFlightAtWhisper'
  BY <1>1, <1>2 DEF IInv, InFlightAtWhisper, AddFrame, Goto, Worker
<1>11. ClosingEmpty'
  BY <1>1 DEF ClosingEmpty, Closing
<1>12. LoopDecision'
  <2>1. Len(frames') = Len(frames) + 1 /\ Len(frames) \in Nat
    BY <1>2, <1>3
  <2> QED
    BY <1>1, <2>1, LimitsAssumption DEF IInv, LoopDecision, Closing
<1>13. SettledInOrder'
  BY <1>1, <1>2 DEF IInv, SettledInOrder, Closing
<1>14. NoSpeechLost'
  <2>1. Range(frames') = Range(frames) \cup {heard}
    BY <1>2, <1>3, <1>7, AppendNewer
  <2>2. InHand \subseteq {heard} /\ SettledAudio' = SettledAudio
    BY <1>2 DEF InHand, SettledAudio
  <2> QED
    BY <1>2, <2>1, <2>2 DEF IInv, NoSpeechLost
<1>15. LoopSegmentsLongEnough'
  BY <1>2 DEF IInv, LoopSegmentsLongEnough
<1> QED
  BY <1>8, <1>9, <1>10, <1>11, <1>12, <1>13, <1>14, <1>15 DEF IInv

(* flush moves the whole buffer to w, or does nothing to an empty one.     *)
LEMMA FlushStep ==
  ASSUME IInv, Typing', NEW w \in Worker, Flush(w)
  PROVE  IInv'
<1>1. /\ pc[w] = "flush"
      /\ pc' = [pc EXCEPT ![w] = IF frames = <<>> THEN Return(w) ELSE "whisper"]
      /\ pc \in [Worker -> ReaderPC \cup LoopPC]
  BY DEF IInv, Typing, TypeOK, Flush, Goto
<1>2. /\ frames' = <<>>
      /\ inflight' = [inflight EXCEPT ![w] = frames]
      /\ UNCHANGED <<heard, settled, voiced>>
  BY DEF Flush, buffer
<1>3. /\ frames \in Seq(Frame)
      /\ inflight \in [Worker -> Seq(Frame)]
  BY DEF IInv, Typing, TypeOK
<1>4. \A u \in Worker : inflight'[u] = IF u = w THEN frames ELSE inflight[u]
  BY <1>2, <1>3
<1>5. Bound' = Bound
  BY <1>1, <1>2 DEF Bound, Holding, Return, Worker
<1>6. AllBelow'
  <2>1. Below(<<>>, Bound)
    BY DEF Below
  <2> QED
    BY <1>2, <1>4, <1>5, <2>1 DEF IInv, AllBelow
<1>7. CaptureOrder'
  <2>1. Increasing(<<>>) /\ \A s : Precedes(s, <<>>)
    BY DEF Increasing, Precedes
  <2>2. \A u \in Worker : Increasing(inflight'[u]) /\ Precedes(inflight'[u], frames')
    BY <1>2, <1>4, <2>1 DEF IInv, CaptureOrder
  <2>3. Ordered(inflight'["reader"], inflight'["loop"])
    BY <1>4 DEF IInv, CaptureOrder, Ordered, Worker
  <2>4. \A i \in DOMAIN settled, u \in Worker : Ordered(settled[i].audio, inflight'[u])
    BY <1>4 DEF IInv, CaptureOrder, Ordered
  <2> QED
    BY <1>2, <2>1, <2>2, <2>3, <2>4 DEF IInv, CaptureOrder
<1>8. InFlightAtWhisper'
  <2>1. pc'[w] = "whisper" <=> frames # <<>>
    BY <1>1 DEF Return
  <2>2. \A u \in Worker : u # w => pc'[u] = pc[u]
    BY <1>1
  <2> QED
    BY <1>4, <2>1, <2>2 DEF IInv, InFlightAtWhisper
<1>9. ClosingEmpty'
  BY <1>2 DEF ClosingEmpty
<1>10. LoopDecision'
  BY <1>1, <1>2 DEF IInv, LoopDecision, Closing, Return, Worker
<1>11. SettledInOrder'
  BY <1>1, <1>2, <1>4 DEF IInv, SettledInOrder, CaptureOrder, Closing, Return, Worker
<1>12. NoSpeechLost'
  <2>1. inflight[w] = <<>>
    BY <1>1 DEF IInv, InFlightAtWhisper
  <2>2. Range(<<>>) = {}
    BY DEF Range
  <2>3. InHand' = InHand /\ SettledAudio' = SettledAudio
    BY <1>1, <1>2 DEF InHand, SettledAudio, Return, Worker
  <2>4. CASE w = "reader"
    BY <1>2, <1>4, <2>1, <2>2, <2>3, <2>4 DEF IInv, NoSpeechLost, Worker
  <2>5. CASE w = "loop"
    BY <1>2, <1>4, <2>1, <2>2, <2>3, <2>5 DEF IInv, NoSpeechLost, Worker
  <2> QED
    BY <2>4, <2>5 DEF Worker
<1>13. LoopSegmentsLongEnough'
  BY <1>1, <1>4 DEF IInv, LoopSegmentsLongEnough, LoopDecision, ClosingEmpty, Worker
<1> QED
  BY <1>6, <1>7, <1>8, <1>9, <1>10, <1>11, <1>12, <1>13 DEF IInv

(* The audio in flight of w becomes the last settled segment.              *)
LEMMA WhisperAnswersStep ==
  ASSUME IInv, Typing', NEW w \in Worker, NEW reply \in Reply,
         WhisperAnswers(w, reply)
  PROVE  IInv'
<1> DEFINE n    == Len(settled)
           last == [audio |-> inflight[w],
                    reply |-> IF connOpen THEN reply ELSE "nothing"]
<1>1. /\ pc[w] = "whisper"
      /\ pc' = [pc EXCEPT ![w] = Return(w)]
      /\ pc \in [Worker -> ReaderPC \cup LoopPC]
  BY DEF IInv, Typing, TypeOK, WhisperAnswers, Goto
<1>2. /\ settled' = Append(settled, last)
      /\ inflight' = [inflight EXCEPT ![w] = <<>>]
      /\ UNCHANGED <<heard, frames, voiced>>
  BY DEF WhisperAnswers, buffer
<1>3. \A u \in Worker : inflight'[u] = IF u = w THEN <<>> ELSE inflight[u]
  BY <1>2 DEF IInv, Typing, TypeOK
<1>4. /\ n \in Nat
      /\ DOMAIN settled = 1 .. n
      /\ DOMAIN settled' = 1 .. n + 1
      /\ \A i \in 1 .. n : settled'[i] = settled[i]
      /\ settled'[n + 1].audio = inflight[w]
  <2> DEFINE Result == [audio : Seq(Frame), reply : Reply]
  <2>1. settled \in Seq(Result)
    BY DEF IInv, Typing, TypeOK
  <2> HIDE DEF Result
  <2>2. /\ n \in Nat
        /\ DOMAIN settled = 1 .. n
        /\ DOMAIN Append(settled, last) = 1 .. n + 1
        /\ \A i \in 1 .. n : Append(settled, last)[i] = settled[i]
        /\ Append(settled, last)[n + 1] = last
    <3> HIDE DEF last
    <3> QED
      BY <2>1
  <2> QED
    BY <1>2, <2>2
<1> HIDE DEF n, last
<1>5. \A i \in DOMAIN settled' :
        \/ i \in DOMAIN settled /\ settled'[i].audio = settled[i].audio
        \/ i = n + 1 /\ settled'[i].audio = inflight[w]
  BY <1>4
<1>6. Bound' = Bound
  BY <1>1, <1>2 DEF Bound, Holding, Return, Worker
<1>7. Increasing(<<>>) /\ \A s : Precedes(<<>>, s) /\ Precedes(s, <<>>)
  BY DEF Increasing, Precedes
<1>8. AllBelow'
  <2>1. Below(<<>>, Bound)
    BY DEF Below
  <2> QED
    BY <1>2, <1>3, <1>5, <1>6, <2>1 DEF IInv, AllBelow
<1>9. CaptureOrder'
  <2>1. \A u \in Worker : Increasing(inflight'[u]) /\ Precedes(inflight'[u], frames')
    BY <1>2, <1>3, <1>7 DEF IInv, CaptureOrder
  <2>2. Ordered(inflight'["reader"], inflight'["loop"])
    BY <1>3, <1>7 DEF IInv, CaptureOrder, Ordered, Worker
  <2>3. \A i \in DOMAIN settled' :
          Increasing(settled'[i].audio) /\ Precedes(settled'[i].audio, frames')
    BY <1>2, <1>5 DEF IInv, CaptureOrder
  <2>4. \A u \in Worker : u # w => Ordered(inflight[w], inflight[u])
    BY DEF IInv, CaptureOrder, Ordered, Worker
  <2>5. \A i \in DOMAIN settled', u \in Worker :
          Ordered(settled'[i].audio, inflight'[u])
    BY <1>3, <1>5, <1>7, <2>4 DEF IInv, CaptureOrder, Ordered
  <2>6. \A i, j \in DOMAIN settled' :
          i # j => Ordered(settled'[i].audio, settled'[j].audio)
    BY <1>5 DEF IInv, CaptureOrder, Ordered
  <2> QED
    BY <1>2, <2>1, <2>2, <2>3, <2>5, <2>6 DEF IInv, CaptureOrder
<1>10. InFlightAtWhisper'
  <2>1. pc'[w] # "whisper"
    BY <1>1 DEF Return
  <2>2. \A u \in Worker : u # w => pc'[u] = pc[u]
    BY <1>1
  <2> QED
    BY <1>3, <2>1, <2>2 DEF IInv, InFlightAtWhisper
<1>11. ClosingEmpty'
  BY <1>1, <1>2 DEF IInv, ClosingEmpty, Closing, Return, Worker
<1>12. LoopDecision'
  BY <1>1, <1>2 DEF IInv, LoopDecision, Closing, Return, Worker
<1>13. SettledInOrder'
  <2> SUFFICES ASSUME pc'["reader"] \notin Closing
               PROVE  /\ \A i, j \in DOMAIN settled' :
                           i < j => Precedes(settled'[i].audio, settled'[j].audio)
                      /\ \A i \in DOMAIN settled' :
                           Precedes(settled'[i].audio, inflight'["loop"])
    BY DEF SettledInOrder
  <2>1. w = "loop" /\ pc["reader"] \notin Closing
    BY <1>1 DEF Closing, Return, Worker
  <2>2. \A i \in DOMAIN settled : Precedes(settled[i].audio, inflight[w])
    BY <2>1 DEF IInv, SettledInOrder
  <2>3. \A i, j \in DOMAIN settled :
          i < j => Precedes(settled[i].audio, settled[j].audio)
    BY <2>1 DEF IInv, SettledInOrder
  <2>4. ASSUME NEW i \in DOMAIN settled', NEW j \in DOMAIN settled', i < j
        PROVE  Precedes(settled'[i].audio, settled'[j].audio)
    <3>1. i \in DOMAIN settled /\ settled'[i].audio = settled[i].audio
      BY <1>4, <2>4
    <3> QED
      BY <1>5, <2>2, <2>3, <2>4, <3>1
  <2> QED
    BY <1>3, <1>7, <2>1, <2>4 DEF Worker
<1>14. NoSpeechLost'
  <2>1. SettledAudio' = SettledAudio \cup Range(inflight[w])
    BY <1>4, <1>5 DEF SettledAudio
  <2>2. InHand' = InHand
    BY <1>1, <1>2 DEF InHand, Return, Worker
  <2>3. Range(<<>>) = {}
    BY DEF Range
  <2>4. CASE w = "reader"
    BY <1>2, <1>3, <2>1, <2>2, <2>3, <2>4 DEF IInv, NoSpeechLost, Worker
  <2>5. CASE w = "loop"
    BY <1>2, <1>3, <2>1, <2>2, <2>3, <2>5 DEF IInv, NoSpeechLost, Worker
  <2> QED
    BY <2>4, <2>5 DEF Worker
<1>15. LoopSegmentsLongEnough'
  BY <1>3 DEF IInv, LoopSegmentsLongEnough, Worker
<1> QED
  BY <1>8, <1>9, <1>10, <1>11, <1>12, <1>13, <1>14, <1>15 DEF IInv

(* A step that moves no audio, and not the loop out of or into a wait.     *)
LEMMA QuietStep ==
  ASSUME IInv, Typing', Bound' >= Bound,
         UNCHANGED <<frames, inflight, settled>>,
         \A w \in Worker : pc[w] = "whisper" <=> pc'[w] = "whisper",
         pc'["reader"] \in Closing <=> pc["reader"] \in Closing,
         pc'["loop"] = "flush" => pc["loop"] = "flush" \/ Len(frames) >= MinFlush,
         InHand \subseteq InHand', voiced' \subseteq voiced \cup InHand'
  PROVE  IInv'
<1>1. AllBelow' /\ CaptureOrder' /\ LoopSegmentsLongEnough'
  BY AudioUnmoved
<1>2. InFlightAtWhisper'
  BY DEF IInv, InFlightAtWhisper
<1>3. ClosingEmpty'
  BY DEF IInv, ClosingEmpty
<1>4. LoopDecision'
  BY DEF IInv, LoopDecision
<1>5. SettledInOrder'
  BY DEF IInv, SettledInOrder
<1>6. NoSpeechLost'
  <2>1. SettledAudio' = SettledAudio
    BY DEF SettledAudio
  <2>2. voiced \subseteq InHand \cup Range(frames) \cup Range(inflight["reader"])
                              \cup Range(inflight["loop"]) \cup SettledAudio
    BY DEF IInv, NoSpeechLost
  <2> QED
    BY <2>1, <2>2 DEF NoSpeechLost
<1> QED
  BY <1>1, <1>2, <1>3, <1>4, <1>5, <1>6 DEF IInv

LEMMA ReaderQuietSteps ==
  ASSUME IInv, Typing',
         \/ ReceiveFrame \/ ReceiveClose \/ ReadError \/ MarkSpeech
         \/ PeekTotalBytes \/ MarkSilence \/ EndSession
         \/ \E answer \in VADAnswer : CheckVAD(answer)
  PROVE  IInv'
<1>1. /\ pc \in [Worker -> ReaderPC \cup LoopPC]
      /\ heard \in Nat
  BY LimitsAssumption DEF IInv, Typing, TypeOK
<1>2. UNCHANGED <<frames, inflight, settled>>
  BY DEF ReceiveFrame, ReceiveClose, ReadError, MarkSpeech, PeekTotalBytes,
         MarkSilence, EndSession, CheckVAD, buffer, session
<1>3. pc'["loop"] = pc["loop"]
  BY <1>1 DEF ReceiveFrame, ReceiveClose, ReadError, MarkSpeech, PeekTotalBytes,
              MarkSilence, EndSession, CheckVAD, Goto, Worker
<1>4. /\ pc'["reader"] \in Closing <=> pc["reader"] \in Closing
      /\ pc["reader"] # "whisper" /\ pc'["reader"] # "whisper"
  BY <1>1 DEF ReceiveFrame, ReceiveClose, ReadError, MarkSpeech, PeekTotalBytes,
              MarkSilence, EndSession, CheckVAD, Goto, Worker, Closing
<1>5. Bound' >= Bound
  BY <1>1 DEF ReceiveFrame, ReceiveClose, ReadError, MarkSpeech, PeekTotalBytes,
              MarkSilence, EndSession, CheckVAD, Goto, Worker, Bound, Holding
<1>6. InHand \subseteq InHand' /\ voiced' \subseteq voiced \cup InHand'
  BY <1>1 DEF ReceiveFrame, ReceiveClose, ReadError, MarkSpeech, PeekTotalBytes,
              MarkSilence, EndSession, CheckVAD, Goto, Worker, InHand
<1> QED
  BY <1>2, <1>3, <1>4, <1>5, <1>6, QuietStep DEF Worker

LEMMA LoopQuietSteps ==
  ASSUME IInv, Typing', Tick \/ LoopDone \/ TimePasses \/ UNCHANGED vars
  PROVE  IInv'
<1>1. /\ pc \in [Worker -> ReaderPC \cup LoopPC]
      /\ heard \in Nat
  BY LimitsAssumption DEF IInv, Typing, TypeOK
<1>2. UNCHANGED <<heard, frames, inflight, settled, voiced>>
  BY DEF Tick, LoopDone, TimePasses, vars, buffer, session
<1>3. pc'["reader"] = pc["reader"]
  BY <1>1 DEF Tick, LoopDone, TimePasses, vars, Goto, Worker
<1>4. /\ pc["loop"] = "whisper" <=> pc'["loop"] = "whisper"
      /\ pc'["loop"] = "flush" => pc["loop"] = "flush" \/ Len(frames) >= MinFlush
  BY <1>1 DEF Tick, LoopDone, TimePasses, vars, Goto, Worker, ShouldFlush
<1>5. Bound' >= Bound
  BY <1>1, <1>2, <1>3 DEF Bound
<1>6. InHand' = InHand
  BY <1>2, <1>3 DEF InHand
<1> QED
  BY <1>2, <1>3, <1>4, <1>5, <1>6, QuietStep DEF Worker

LEMMA InitIInv == Init => IInv
<1> SUFFICES ASSUME Init PROVE IInv
  OBVIOUS
<1>1. /\ pc["reader"] = "read" /\ pc["loop"] = "select"
      /\ frames = <<>> /\ settled = <<>> /\ voiced = {}
      /\ \A w \in Worker : inflight[w] = <<>>
  BY DEF Init, Worker
<1>2. DOMAIN <<>> = {}
  OBVIOUS
<1>3. Typing
  BY InitTyping
<1>4. AllBelow
  BY <1>1, <1>2 DEF AllBelow, Below
<1>5. InFlightAtWhisper /\ ClosingEmpty /\ LoopDecision
  BY <1>1 DEF InFlightAtWhisper, ClosingEmpty, LoopDecision, Worker
<1>6. CaptureOrder
  BY <1>1, <1>2 DEF CaptureOrder, Increasing, Precedes, Ordered, Worker
<1>7. SettledInOrder
  BY <1>1, <1>2 DEF SettledInOrder
<1>8. NoSpeechLost /\ LoopSegmentsLongEnough
  BY <1>1 DEF NoSpeechLost, LoopSegmentsLongEnough, Worker
<1> QED
  BY <1>3, <1>4, <1>5, <1>6, <1>7, <1>8 DEF IInv

LEMMA NextIInv == IInv /\ [Next]_vars => IInv'
<1> SUFFICES ASSUME IInv, [Next]_vars PROVE IInv'
  OBVIOUS
<1>1. Typing'
  BY NextTyping DEF IInv
<1>2. ASSUME NEW w \in Worker, Flush(w) PROVE IInv'
  BY <1>1, <1>2, FlushStep
<1>3. ASSUME NEW w \in Worker, NEW reply \in Reply, WhisperAnswers(w, reply)
      PROVE  IInv'
  BY <1>1, <1>3, WhisperAnswersStep
<1>4. CASE AddFrame("add", "read") \/ AddFrame("trail", "quiet")
  BY <1>1, <1>4, AddFrameStep
<1> QED
  BY <1>1, <1>2, <1>3, <1>4, ReaderQuietSteps, LoopQuietSteps
  DEF Next, ReaderStep

---------------------------------------------------------------------------
(* The theorems.                                                           *)

(* Every reachable state of a session satisfies the inductive invariant.   *)
THEOREM Invariance == Spec => []IInv
BY InitIInv, NextIInv, PTL DEF Spec

(* Every variable keeps the type of the Go field or local it stands for.   *)
THEOREM TypeCorrect == Spec => []TypeOK
<1>1. IInv => TypeOK
  BY DEF IInv, Typing
<1> QED
  BY <1>1, Invariance, PTL

(* No interleaving of handleStream and flushLoop loses a speech frame.     *)
THEOREM SpeechIsKept == Spec => []NoSpeechLost
<1>1. IInv => NoSpeechLost
  BY DEF IInv
<1> QED
  BY <1>1, Invariance, PTL

(* The segments handed to Whisper partition the kept audio in capture      *)
(* order: no frame is sent twice.                                          *)
THEOREM SegmentsOrdered == Spec => []CaptureOrder
<1>1. IInv => CaptureOrder
  BY DEF IInv
<1> QED
  BY <1>1, Invariance, PTL

(* Before the session closes, transcripts arrive in the order of speech.   *)
THEOREM RepliesOrdered == Spec => []TranscriptsInOrder
<1>1. IInv => TranscriptsInOrder
  BY DEF IInv, SettledInOrder, TranscriptsInOrder, Closing
<1> QED
  BY <1>1, Invariance, PTL

(* What shouldFlush checked in one critical section still holds when the   *)
(* loop flushes in the next: no sub-second request.                        *)
THEOREM LoopSegmentsLong == Spec => []LoopSegmentsLongEnough
<1>1. IInv => LoopSegmentsLongEnough
  BY DEF IInv
<1> QED
  BY <1>1, Invariance, PTL

---------------------------------------------------------------------------
(* The session implements its abstract specification.                      *)

Out == {inflight[w] : w \in {u \in Worker : inflight[u] # <<>>}}

LEMMA AddFrameRecords ==
  ASSUME IInv, AddFrame("add", "read") \/ AddFrame("trail", "quiet")
  PROVE  Session!Record(heard)
<1>1. /\ pc["reader"] \in {"add", "trail"}
      /\ frames' = Append(frames, heard)
      /\ UNCHANGED <<inflight, settled, connOpen>>
      /\ pc'["reader"] \in {"read", "quiet"}
  BY DEF IInv, Typing, TypeOK, AddFrame, Goto, session, Worker
<1>2. ~Over /\ ~Over'
  BY <1>1 DEF Over
<1>3. Bound = heard
  BY <1>1 DEF Bound, Holding
<1>4. /\ Session!AllBefore(frames, heard)
      /\ \A w \in Worker : Session!AllBefore(inflight[w], heard)
      /\ \A i \in DOMAIN settled : Session!AllBefore(settled[i].audio, heard)
  BY <1>3 DEF IInv, AllBelow, Below, Session!AllBefore
<1> QED
  BY <1>1, <1>2, <1>4 DEF Session!Record, Over

LEMMA FlushCuts ==
  ASSUME IInv, IInv', NEW w \in Worker, Flush(w)
  PROVE  Session!Cut \/ Session!Stop \/ UNCHANGED Session!absVars
<1>1. /\ pc[w] = "flush"
      /\ pc' = [pc EXCEPT ![w] = IF frames = <<>> THEN Return(w) ELSE "whisper"]
      /\ pc \in [Worker -> ReaderPC \cup LoopPC]
      /\ frames' = <<>>
      /\ inflight' = [inflight EXCEPT ![w] = frames]
      /\ inflight \in [Worker -> Seq(Frame)]
      /\ UNCHANGED <<settled, connOpen>>
  BY DEF IInv, Typing, TypeOK, Flush, Goto, buffer
<1>2. inflight[w] = <<>>
  BY <1>1 DEF IInv, InFlightAtWhisper
<1>3. \A u \in Worker : inflight'[u] = IF u = w THEN frames ELSE inflight[u]
  BY <1>1
<1>4. CASE frames = <<>>
  <2>1. inflight' = inflight
    BY <1>1, <1>2, <1>4
  <2>2. Over' <=> (w = "reader" \/ Over)
    BY <1>1, <1>4 DEF Over, Return, Worker
  <2> QED
    BY <1>1, <1>4, <2>1, <2>2 DEF Session!Stop, Session!absVars, Over
<1>5. CASE frames # <<>>
  <2>1. Out' = Out \cup {frames}
    BY <1>2, <1>3, <1>5 DEF Out, Worker
  <2>2. Over' <=> (w = "reader" \/ Over)
    BY <1>1, <1>5 DEF Over, Return, Worker
  <2>3. w = "loop" => Out = {}
    <3>1. pc["reader"] # "whisper"
      BY <1>5 DEF IInv, ClosingEmpty, Closing
    <3> QED
      BY <1>2, <3>1 DEF IInv, InFlightAtWhisper, Out, Worker
  <2>4. Over' \in BOOLEAN
    BY DEF Over
  <2>5. Out = {} \/ Over'
    BY <2>2, <2>3 DEF Worker
  <2> QED
    BY <1>1, <1>5, <2>1, <2>4, <2>5 DEF Session!Cut, Out
<1> QED
  BY <1>4, <1>5

LEMMA WhisperAnswersReports ==
  ASSUME IInv, NEW w \in Worker, NEW reply \in Reply, WhisperAnswers(w, reply),
         inflight[w] # <<>>
  PROVE  Session!Report(inflight[w], reply)
<1>1. /\ pc[w] = "whisper"
      /\ pc' = [pc EXCEPT ![w] = Return(w)]
      /\ pc \in [Worker -> ReaderPC \cup LoopPC]
      /\ inflight' = [inflight EXCEPT ![w] = <<>>]
      /\ inflight \in [Worker -> Seq(Frame)]
      /\ UNCHANGED <<frames, connOpen>>
      /\ settled' = Append(settled,
           [audio |-> inflight[w],
            reply |-> IF connOpen THEN reply ELSE "nothing"])
  BY DEF IInv, Typing, TypeOK, WhisperAnswers, Goto, buffer
<1>2. \A u \in Worker : inflight'[u] = IF u = w THEN <<>> ELSE inflight[u]
  BY <1>1
<1>3. inflight["reader"] = inflight["loop"] => inflight["reader"] = <<>>
  <2> SUFFICES ASSUME inflight["reader"] = inflight["loop"],
                      inflight["reader"] # <<>>
               PROVE  FALSE
    OBVIOUS
  <2>1. inflight["reader"] \in Seq(Frame)
    BY <1>1 DEF Worker
  <2>2. 1 \in DOMAIN inflight["reader"] /\ inflight["reader"][1] \in Nat
    BY <2>1, LimitsAssumption DEF Frame
  <2> QED
    BY <2>2 DEF IInv, CaptureOrder, Ordered, Precedes
<1>4. inflight[w] \in Out /\ Out' = Out \ {inflight[w]}
  BY <1>2, <1>3 DEF Out, Worker
<1>5. Over' = Over
  BY <1>1 DEF Over, Return, Worker
<1> QED
  BY <1>1, <1>4, <1>5 DEF Session!Report, Out

LEMMA QuietStepsStutter ==
  ASSUME IInv,
         \/ ReceiveFrame \/ ReceiveClose \/ ReadError \/ MarkSpeech
         \/ PeekTotalBytes \/ MarkSilence \/ EndSession
         \/ \E answer \in VADAnswer : CheckVAD(answer)
         \/ Tick \/ LoopDone \/ TimePasses \/ UNCHANGED vars
  PROVE  Session!Disconnect \/ UNCHANGED Session!absVars
<1> USE DEF ReceiveFrame, ReceiveClose, ReadError, MarkSpeech, PeekTotalBytes,
            MarkSilence, EndSession, CheckVAD, Tick, LoopDone, TimePasses, vars
<1>1. UNCHANGED <<frames, inflight, settled>>
  BY DEF buffer, session
<1>2. connOpen' = FALSE \/ connOpen' = connOpen
  BY DEF session
<1>3. Over' <=> Over
  <2>1. pc \in [Worker -> ReaderPC \cup LoopPC]
    BY DEF IInv, Typing, TypeOK
  <2> QED
    BY <2>1 DEF Over, Goto, Worker
<1> QED
  BY <1>1, <1>2, <1>3 DEF Session!Disconnect, Session!absVars, Over

LEMMA NextImplements ==
  IInv /\ IInv' /\ [Next]_vars => [Session!AbsNext]_(Session!absVars)
<1> SUFFICES ASSUME IInv, IInv', [Next]_vars
             PROVE  Session!AbsNext \/ UNCHANGED Session!absVars
  OBVIOUS
<1>1. CASE AddFrame("add", "read") \/ AddFrame("trail", "quiet")
  <2>1. heard \in Frame
    BY <1>1 DEF IInv, Typing, AddFrame, Goto, Holding
  <2> QED
    BY <1>1, <2>1, AddFrameRecords DEF Session!AbsNext
<1>2. ASSUME NEW w \in Worker, Flush(w)
      PROVE  Session!AbsNext \/ UNCHANGED Session!absVars
  BY <1>2, FlushCuts DEF Session!AbsNext
<1>3. ASSUME NEW w \in Worker, NEW reply \in Reply, WhisperAnswers(w, reply)
      PROVE  Session!AbsNext
  <2>1. inflight[w] # <<>>
    BY <1>3 DEF IInv, InFlightAtWhisper, WhisperAnswers, Goto
  <2>2. Session!Report(inflight[w], reply)
    BY <1>3, <2>1, WhisperAnswersReports
  <2>3. inflight[w] \in Out
    BY <2>1 DEF Out
  <2> QED
    BY <2>2, <2>3 DEF Session!AbsNext, Out
<1>4. CASE \/ ReceiveFrame \/ ReceiveClose \/ ReadError \/ MarkSpeech
           \/ PeekTotalBytes \/ MarkSilence \/ EndSession
           \/ \E answer \in VADAnswer : CheckVAD(answer)
           \/ Tick \/ LoopDone \/ TimePasses \/ UNCHANGED vars
  <2>1. Session!Disconnect \/ UNCHANGED Session!absVars
    BY <1>4, QuietStepsStutter
  <2> QED
    BY <2>1 DEF Session!AbsNext
<1>5. \/ UNCHANGED vars
      \/ AddFrame("add", "read") \/ AddFrame("trail", "quiet")
      \/ \E w \in Worker : Flush(w)
      \/ \E w \in Worker, reply \in Reply : WhisperAnswers(w, reply)
      \/ ReceiveFrame \/ ReceiveClose \/ ReadError \/ MarkSpeech
      \/ PeekTotalBytes \/ MarkSilence \/ EndSession
      \/ \E answer \in VADAnswer : CheckVAD(answer)
      \/ Tick \/ LoopDone \/ TimePasses
  BY DEF Next, ReaderStep
<1> QED
  BY <1>1, <1>2, <1>3, <1>4, <1>5

(* The two goroutines implement the abstract session: what the client can  *)
(* see of them is a recording cut into consecutive segments, each reported *)
(* once.                                                                   *)
THEOREM SessionImplemented == Spec => ImplementsSession
<1>1. Init => Session!Start
  <2> SUFFICES ASSUME Init PROVE Session!Start
    OBVIOUS
  <2>1. \A w \in Worker : inflight[w] = <<>>
    BY DEF Init
  <2>2. ~Over
    BY DEF Init, Over, Worker
  <2> QED
    BY <2>1, <2>2 DEF Init, Session!Start, Over
<1>2. IInv /\ IInv' /\ [Next]_vars => [Session!AbsNext]_(Session!absVars)
  BY NextImplements
<1> QED
  BY <1>1, <1>2, Invariance, PTL DEF Spec, ImplementsSession, Session!AbsSpec
============================================================================
