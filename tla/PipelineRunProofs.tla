------------------------- MODULE PipelineRunProofs -------------------------
(***************************************************************************)
(* Theorems about PipelineRun, for any number of requests and request IDs, *)
(* any configurations and any number of lost lines.                        *)
(***************************************************************************)
EXTENDS PipelineRun, FiniteSetTheorems, SequenceTheorems, TLAPS

(* Range is defined through a set of images; the proofs want the list.     *)
LEMMA Stages == Stage = {"stt", "diarize", "summarize"}
<1>1. DOMAIN Order = {1, 2, 3}
  BY DEF Order
<1> QED
  BY <1>1 DEF Stage, Range, Order

(* NextDue moves forward, to a stage that is due or behind the last one.   *)
LEMMA NextDueMoves ==
  ASSUME TypeOK, NEW r \in Requests
  PROVE  /\ NextDue(r) \in 1 .. 4
         /\ NextDue(r) # 4 => NextDue(r) > at[r] /\ Due(r, Order[NextDue(r)])
<1> DEFINE S == {k \in at[r] + 1 .. 3 : Due(r, Order[k])} \cup {4}
<1>1. at[r] \in 0 .. 4
  BY DEF TypeOK
<1>2. S \subseteq 1 .. 4
  BY <1>1
<1>3. \E x \in S : \A y \in S : x <= y
  <2>1. CASE 1 \in S
    BY <2>1, <1>2
  <2>2. CASE 1 \notin S /\ 2 \in S
    BY <2>2, <1>2
  <2>3. CASE 1 \notin S /\ 2 \notin S /\ 3 \in S
    BY <2>3, <1>2
  <2>4. CASE 1 \notin S /\ 2 \notin S /\ 3 \notin S
    <3>1. 4 \in S
      OBVIOUS
    <3> QED
      BY <3>1, <2>4, <1>2
  <2> QED
    BY <2>1, <2>2, <2>3, <2>4
<1>4. NextDue(r) = Min(S)
  BY DEF NextDue
<1>5. Min(S) \in S
  BY <1>3 DEF Min
<1>6. NextDue(r) \in S
  BY <1>4, <1>5
<1> QED
  BY <1>1, <1>2, <1>6

---------------------------------------------------------------------------
(* Type correctness.                                                       *)

StoreOK ==
  /\ fds \subseteq Ids
  /\ files \in [Ids -> Seq(Event)]
  /\ objects \subseteq [id : Ids, event : Event]
  /\ missed \subseteq Requests
  /\ faults \in 0 .. MaxFaults

(* f extends g: g is a prefix of f.                                        *)
Extends(f, g) == Len(g) <= Len(f) /\ SubSeq(f, 1, Len(g)) = g

LEMMA SelfExtends ==
  ASSUME NEW s \in Seq(Event)
  PROVE  Extends(s, s)
BY SubSeqProperties DEF Extends

LEMMA AppendExtends ==
  ASSUME NEW s \in Seq(Event), NEW e \in Event
  PROVE  Extends(Append(s, e), s)
<1>1. Len(s) \in Nat /\ Len(Append(s, e)) = Len(s) + 1
  OBVIOUS
<1>2. SubSeq(Append(s, e), 1, Len(s)) = s
  BY <1>1, AppendProperties, SubSeqProperties
<1> QED
  BY <1>1, <1>2 DEF Extends

(* A call of Log keeps the types of the event log and only adds to files.  *)
LEMMA LogStep ==
  ASSUME TypeOK, NEW r \in Requests, NEW type, NEW stage,
         [req |-> r, type |-> type, stage |-> stage] \in Event,
         Log(r, type, stage)
  PROVE  StoreOK' /\ \A i \in Ids : Extends(files'[i], files[i])
<1> DEFINE e == [req |-> r, type |-> type, stage |-> stage]
<1>1. e \in Event /\ id[r] \in Ids /\ StoreOK
  BY DEF TypeOK, StoreOK
<1> HIDE DEF e
<1>2. \A i \in Ids : Extends(files[i], files[i])
  BY <1>1, SelfExtends DEF StoreOK
<1>6. ASSUME NEW must, Lose(r, must)
      PROVE  missed' \subseteq Requests /\ faults' \in 0 .. MaxFaults
  <2>1. faults \in 0 .. MaxFaults /\ MaxFaults \in Nat
    BY <1>1, BoundsAssumption DEF StoreOK
  <2>2. faults' = faults \/ (faults < MaxFaults /\ faults' = faults + 1)
    BY <1>6 DEF Lose
  <2> QED BY <1>1, <1>6, <2>1, <2>2 DEF Lose, StoreOK
<1>7. e.req = r
  BY DEF e
<1>3. CASE LogLocal(id[r], e) /\ UNCHANGED objects
  <2>1. CASE LineLost(id[r], e)
    <3>1. missed' \subseteq Requests /\ faults' \in 0 .. MaxFaults
      BY <1>6, <1>7, <2>1 DEF LineLost
    <3>2. fds' \subseteq Ids /\ UNCHANGED <<files, objects>>
      BY <1>1, <1>3, <2>1 DEF LineLost, StoreOK
    <3> QED BY <1>1, <1>2, <3>1, <3>2 DEF StoreOK
  <2>2. CASE /\ fds' = fds \cup {id[r]}
             /\ files' = [files EXCEPT ![id[r]] = Append(@, e)]
             /\ UNCHANGED <<missed, faults>>
    <3>1. Append(files[id[r]], e) \in Seq(Event)
      BY <1>1 DEF StoreOK
    <3>2. StoreOK'
      BY <1>1, <1>3, <2>2, <3>1 DEF StoreOK
    <3>3. Extends(Append(files[id[r]], e), files[id[r]])
      BY <1>1, AppendExtends DEF StoreOK
    <3> QED
      BY <1>1, <1>2, <2>2, <3>2, <3>3 DEF StoreOK
  <2> QED
    BY <1>3, <2>1, <2>2 DEF LogLocal
<1>4. CASE LogGCS(id[r], e) /\ UNCHANGED <<fds, files>>
  <2>1. [id |-> id[r], event |-> e] \in [id : Ids, event : Event]
    BY <1>1
  <2>2. missed' \subseteq Requests /\ faults' \in 0 .. MaxFaults
    BY <1>1, <1>4, <1>6, <1>7 DEF LogGCS, StoreOK
  <2>3. Upload(id[r], e) \/ UNCHANGED objects
    BY <1>4 DEF LogGCS
  <2>4. objects' \subseteq [id : Ids, event : Event]
    BY <1>1, <2>1, <2>3 DEF Upload, StoreOK
  <2>5. StoreOK'
    BY <1>1, <1>4, <2>2, <2>4 DEF StoreOK
  <2> QED
    BY <1>2, <1>4, <2>5
<1>5. CASE UNCHANGED store
  BY <1>1, <1>2, <1>5 DEF store, StoreOK
<1> QED
  BY <1>3, <1>4, <1>5 DEF Log, e

LEMMA InitTyping == Init => TypeOK
<1> SUFFICES ASSUME Init PROVE TypeOK
  OBVIOUS
<1>1. \A i \in Ids : files[i] = <<>>
  BY DEF Init
<1>2. <<>> \in Seq(Event)
  OBVIOUS
<1>3. files \in [Ids -> Seq(Event)]
  BY <1>1, <1>2 DEF Init
<1> QED
  BY <1>3, BoundsAssumption DEF Init, TypeOK, Phase

LEMMA StoreKept ==
  ASSUME TypeOK, UNCHANGED store
  PROVE  StoreOK' /\ \A i \in Ids : Extends(files'[i], files[i])
<1>1. StoreOK
  BY DEF TypeOK, StoreOK
<1>2. \A i \in Ids : Extends(files[i], files[i])
  BY <1>1, SelfExtends DEF StoreOK
<1> QED
  BY <1>1, <1>2 DEF store, StoreOK

---------------------------------------------------------------------------
(* The inductive invariant.                                                *)

(* Where a handler is, what it has decided and what it has obtained fit    *)
(* together: it works on a stage that is due; it considers STT first and   *)
(* once; a failed STT stage is left only by answering; a transcript comes  *)
(* from a successful STT stage, a summary from a transcript.               *)
RunOK(r) ==
  /\ phase[r] \in {"idle", "start"} => at[r] = 0
  /\ phase[r] \in {"enter", "call", "exit"} =>
       at[r] \in 1 .. 3 /\ Due(r, Order[at[r]])
  /\ at[r] = 0 \/ (phase[r] \in {"enter", "call"} /\ at[r] = 1)
       => result[r]["stt"] = "none"
  /\ result[r]["stt"] = "failed" =>
       at[r] = 1 /\ phase[r] \in {"exit", "answer", "done"}
  /\ text[r] = "some" => result[r]["stt"] = "ok"
  /\ result[r]["summarize"] # "none" => text[r] = "some"
  /\ \A s \in {"diarize", "summarize"} :
       result[r][s] # "none" =>
         /\ s \in config.urls
         /\ at[r] > 1 /\ phase[r] # "start"

IInv == TypeOK /\ \A r \in Requests : RunOK(r)

LEMMA InitIInv == Init => IInv
BY InitTyping, Stages DEF Init, IInv, RunOK

(* A request that a step leaves alone stays consistent.                    *)
LEMMA OthersKept ==
  ASSUME NEW q \in Requests, RunOK(q), config' = config,
         phase'[q] = phase[q], stages'[q] = stages[q], at'[q] = at[q],
         result'[q] = result[q], text'[q] = text[q]
  PROVE  RunOK(q)'
BY DEF RunOK, Due

(* The events of a handler are events of the log.                          *)
LEMMA EventsTyped ==
  ASSUME NEW r \in Requests
  PROVE  /\ \A type \in {"pipeline.start", "pipeline.complete"} :
              [req |-> r, type |-> type, stage |-> "none"] \in Event
         /\ \A type \in {"stage.start", "stage.complete", "stage.error"} :
              \A s \in Stage : [req |-> r, type |-> type, stage |-> s] \in Event
BY DEF Event

Kept == IInv' /\ \A i \in Ids : Extends(files'[i], files[i])

LEMMA StartStep ==
  ASSUME IInv, NEW r \in Requests, Start(r)
  PROVE  Kept
<1> USE DEF IInv
<1>1. StoreOK' /\ \A i \in Ids : Extends(files'[i], files[i])
  BY EventsTyped, LogStep DEF Start
<1>2. /\ NextDue(r) \in 1 .. 4
      /\ NextDue(r) # 4 => NextDue(r) > at[r] /\ Due(r, Order[NextDue(r)])
  BY NextDueMoves
<1>3. /\ at' = [at EXCEPT ![r] = NextDue(r)]
      /\ phase[r] = "start"
      /\ phase' = [phase EXCEPT ![r] = IF NextDue(r) = 4 THEN "finish" ELSE "enter"]
      /\ UNCHANGED <<config, id, stages, result, text, status, gone>>
  BY DEF Start, Advance, Goto
<1>4. TypeOK'
  BY <1>1, <1>2, <1>3 DEF TypeOK, StoreOK, Phase
<1>5. RunOK(r)'
  BY <1>2, <1>3, Stages DEF TypeOK, RunOK, Due
<1>6. ASSUME NEW q \in Requests, q # r PROVE RunOK(q)'
  BY <1>3, <1>6, OthersKept DEF TypeOK
<1> QED
  BY <1>1, <1>4, <1>5, <1>6 DEF Kept

LEMMA ExitStageStep ==
  ASSUME IInv, NEW r \in Requests, ExitStage(r)
  PROVE  Kept
<1> USE DEF IInv
<1>1. StoreOK' /\ \A i \in Ids : Extends(files'[i], files[i])
  <2>1. RunOK(r) /\ phase[r] = "exit"
    BY DEF ExitStage
  <2>2. Order[at[r]] \in Stage
    BY <2>1, Stages DEF RunOK, Due, Order
  <2> QED
    BY <2>2, EventsTyped, LogStep DEF ExitStage
<1>2. /\ NextDue(r) \in 1 .. 4
      /\ NextDue(r) # 4 => NextDue(r) > at[r] /\ Due(r, Order[NextDue(r)])
  BY NextDueMoves
<1>3. /\ at' = [at EXCEPT ![r] = NextDue(r)]
      /\ phase[r] = "exit"
      /\ ~(Order[at[r]] = "stt" /\ CurrentFailed(r))
      /\ phase' = [phase EXCEPT ![r] = IF NextDue(r) = 4 THEN "finish" ELSE "enter"]
      /\ UNCHANGED <<config, id, stages, result, text, status, gone>>
  BY DEF ExitStage, Advance, Goto
<1>4. TypeOK'
  BY <1>1, <1>2, <1>3 DEF TypeOK, StoreOK, Phase
<1>5. RunOK(r)'
  <2>1. at[r] \in 1 .. 3 /\ RunOK(r)
    BY <1>3 DEF RunOK
  <2>2. result[r]["stt"] # "failed"
    BY <1>3, <2>1 DEF RunOK, CurrentFailed, Order
  <2> QED
    BY <1>2, <1>3, <2>1, <2>2, Stages DEF TypeOK, RunOK, Due
<1>6. ASSUME NEW q \in Requests, q # r PROVE RunOK(q)'
  BY <1>3, <1>6, OthersKept DEF TypeOK
<1> QED
  BY <1>1, <1>4, <1>5, <1>6 DEF Kept

LEMMA EnterStageStep ==
  ASSUME IInv, NEW r \in Requests, EnterStage(r)
  PROVE  Kept
<1> USE DEF IInv
<1>1. StoreOK' /\ \A i \in Ids : Extends(files'[i], files[i])
  <2>1. RunOK(r) /\ phase[r] = "enter"
    BY DEF EnterStage, Goto
  <2>2. Order[at[r]] \in Stage
    BY <2>1, Stages DEF RunOK, Due, Order
  <2> QED
    BY <2>2, EventsTyped, LogStep DEF EnterStage
<1>3. /\ phase[r] = "enter"
      /\ phase' = [phase EXCEPT ![r] = "call"]
      /\ UNCHANGED <<config, id, stages, at, result, text, status, gone>>
  BY DEF EnterStage, Goto
<1>4. TypeOK'
  BY <1>1, <1>3 DEF TypeOK, StoreOK, Phase
<1>5. RunOK(r)'
  BY <1>3 DEF TypeOK, RunOK, Due
<1>6. ASSUME NEW q \in Requests, q # r PROVE RunOK(q)'
  BY <1>3, <1>6, OthersKept DEF TypeOK
<1> QED
  BY <1>1, <1>4, <1>5, <1>6 DEF Kept

(* A stage returns: only its own result changes, and text with STT's.      *)
LEMMA StageReturnsStep ==
  ASSUME IInv, NEW r \in Requests, StageReturns(r)
  PROVE  Kept
<1> USE DEF IInv
<1>1. StoreOK' /\ \A i \in Ids : Extends(files'[i], files[i])
  BY StoreKept DEF StageReturns
<1>2. PICK outcome \in {"ok", "failed"} :
        /\ result' = [result EXCEPT ![r][Order[at[r]]] = outcome]
        /\ IF Order[at[r]] = "stt" /\ outcome = "ok"
           THEN \E t \in {"empty", "some"} : text' = [text EXCEPT ![r] = t]
           ELSE UNCHANGED text
  BY DEF StageReturns
<1>3. /\ phase[r] = "call"
      /\ phase' = [phase EXCEPT ![r] = "exit"]
      /\ UNCHANGED <<config, id, stages, at, status, gone>>
  BY DEF StageReturns, Goto
<1>7. /\ RunOK(r)
      /\ at[r] \in 1 .. 3
      /\ Order[at[r]] \in Stage
  BY <1>3, Stages DEF RunOK, Due, Order
<1>8. /\ result'[r] = [result[r] EXCEPT ![Order[at[r]]] = outcome]
      /\ \A q \in Requests : q # r => result'[q] = result[q] /\ text'[q] = text[q]
      /\ text'[r] = text[r] \/ (at[r] = 1 /\ outcome = "ok")
      /\ text' \in [Requests -> {"empty", "some"}]
      /\ result' \in [Requests -> [Stage -> {"none", "ok", "failed"}]]
  <2>1. Order[at[r]] = "stt" => at[r] = 1
    BY <1>7 DEF Order
  <2> QED
    BY <1>2, <1>7, <2>1 DEF TypeOK
<1>4. TypeOK'
  BY <1>1, <1>3, <1>8 DEF TypeOK, StoreOK, Phase
<1>5. RunOK(r)'
  <2>1. CASE at[r] = 1
    <3>1. Order[at[r]] = "stt" /\ result[r]["stt"] = "none"
      BY <1>3, <1>7, <2>1 DEF RunOK, Order
    <3>2. /\ text[r] # "some"
          /\ \A s \in {"diarize", "summarize"} : result[r][s] = "none"
      BY <1>7, <2>1, <3>1 DEF RunOK, TypeOK
    <3>3. /\ result'[r]["stt"] = outcome
          /\ \A s \in {"diarize", "summarize"} : result'[r][s] = "none"
          /\ text'[r] = "some" => outcome = "ok"
      BY <1>2, <1>7, <1>8, <3>1, <3>2, Stages DEF TypeOK
    <3>4. at[r] \in 1 .. 3 /\ Due(r, "stt") /\ Due(r, "stt")'
      BY <1>3, <1>7, <3>1 DEF RunOK, Due, TypeOK
    <3> QED
      BY <1>2, <1>3, <2>1, <3>1, <3>3, <3>4 DEF TypeOK, RunOK
  <2>2. CASE at[r] # 1
    <3>1. text'[r] = text[r]
      BY <1>8, <2>2
    <3>2. Order[at[r]] \in {"diarize", "summarize"} /\ Due(r, Order[at[r]])
      BY <1>3, <1>7, <2>2 DEF RunOK, Order
    <3>3. /\ result'[r]["stt"] = result[r]["stt"]
          /\ \A s \in {"diarize", "summarize"} :
               s # Order[at[r]] => result'[r][s] = result[r][s]
      BY <1>8, <3>2, Stages DEF TypeOK
    <3>4. Order[at[r]]' = Order[at[r]] /\ Due(r, Order[at[r]])'
      BY <1>3, <3>1, <3>2 DEF Due, TypeOK
    <3>5. at'[r] = at[r] /\ phase'[r] = "exit"
      BY <1>3 DEF TypeOK
    <3>6. ASSUME NEW s \in {"diarize", "summarize"}, result'[r][s] # "none"
          PROVE  s \in config'.urls /\ (s = "summarize" => text'[r] = "some")
      BY <1>3, <1>7, <3>1, <3>2, <3>3, <3>6 DEF Due, RunOK
    <3> QED
      BY <1>3, <1>7, <2>2, <3>1, <3>3, <3>4, <3>5, <3>6 DEF RunOK
  <2> QED
    BY <2>1, <2>2
<1>6. ASSUME NEW q \in Requests, q # r PROVE RunOK(q)'
  BY <1>3, <1>6, <1>8, OthersKept DEF TypeOK
<1> QED
  BY <1>1, <1>4, <1>5, <1>6 DEF Kept

LEMMA AbortRunStep ==
  ASSUME IInv, NEW r \in Requests, AbortRun(r)
  PROVE  Kept
<1> USE DEF IInv
<1>1. StoreOK' /\ \A i \in Ids : Extends(files'[i], files[i])
  <2>1. "stt" \in Stage
    BY Stages
  <2> QED
    BY <2>1, EventsTyped, LogStep DEF AbortRun
<1>3. /\ phase[r] = "exit" /\ at[r] \in 1 .. 3
      /\ phase' = [phase EXCEPT ![r] = "answer"]
      /\ UNCHANGED <<config, id, stages, at, result, text, status, gone>>
  BY DEF AbortRun, Goto, RunOK
<1>4. TypeOK'
  BY <1>1, <1>3 DEF TypeOK, StoreOK, Phase
<1>5. RunOK(r)'
  BY <1>3, Stages DEF TypeOK, RunOK, Due
<1>6. ASSUME NEW q \in Requests, q # r PROVE RunOK(q)'
  BY <1>3, <1>6, OthersKept DEF TypeOK
<1> QED
  BY <1>1, <1>4, <1>5, <1>6 DEF Kept

LEMMA FinishStep ==
  ASSUME IInv, NEW r \in Requests, Finish(r)
  PROVE  Kept
<1> USE DEF IInv
<1>1. StoreOK' /\ \A i \in Ids : Extends(files'[i], files[i])
  BY EventsTyped, LogStep DEF Finish
<1>3. /\ phase[r] = "finish"
      /\ phase' = [phase EXCEPT ![r] = "answer"]
      /\ UNCHANGED <<config, id, stages, at, result, text, status, gone>>
  BY DEF Finish, Goto
<1>4. TypeOK'
  BY <1>1, <1>3 DEF TypeOK, StoreOK, Phase
<1>5. RunOK(r)'
  BY <1>3, Stages DEF TypeOK, RunOK, Due
<1>6. ASSUME NEW q \in Requests, q # r PROVE RunOK(q)'
  BY <1>3, <1>6, OthersKept DEF TypeOK
<1> QED
  BY <1>1, <1>4, <1>5, <1>6 DEF Kept

LEMMA AnswerStep ==
  ASSUME IInv, NEW r \in Requests, Answer(r)
  PROVE  Kept
<1> USE DEF IInv
<1>1. StoreOK' /\ \A i \in Ids : Extends(files'[i], files[i])
  BY StoreKept DEF Answer
<1>3. /\ phase[r] = "answer"
      /\ phase' = [phase EXCEPT ![r] = "done"]
      /\ \E code \in {"200", "502"} : status' = [status EXCEPT ![r] = code]
      /\ UNCHANGED <<config, id, stages, at, result, text, gone>>
  BY DEF Answer, Goto
<1>4. TypeOK'
  BY <1>1, <1>3 DEF TypeOK, StoreOK, Phase
<1>5. RunOK(r)'
  BY <1>3, Stages DEF TypeOK, RunOK, Due
<1>6. ASSUME NEW q \in Requests, q # r PROVE RunOK(q)'
  BY <1>3, <1>6, OthersKept DEF TypeOK
<1> QED
  BY <1>1, <1>4, <1>5, <1>6 DEF Kept

LEMMA RejectStep ==
  ASSUME IInv, NEW r \in Requests, Reject(r)
  PROVE  Kept
<1> USE DEF IInv
<1>1. StoreOK' /\ \A i \in Ids : Extends(files'[i], files[i])
  BY StoreKept DEF Reject
<1>3. /\ phase[r] = "idle"
      /\ phase' = [phase EXCEPT ![r] = "done"]
      /\ \E code \in {"400", "500"} : status' = [status EXCEPT ![r] = code]
      /\ UNCHANGED <<config, id, stages, at, result, text, gone>>
  BY DEF Reject, Goto
<1>4. TypeOK'
  BY <1>1, <1>3 DEF TypeOK, StoreOK, Phase
<1>5. RunOK(r)'
  BY <1>3, Stages DEF TypeOK, RunOK, Due
<1>6. ASSUME NEW q \in Requests, q # r PROVE RunOK(q)'
  BY <1>3, <1>6, OthersKept DEF TypeOK
<1> QED
  BY <1>1, <1>4, <1>5, <1>6 DEF Kept

LEMMA ClientGoneStep ==
  ASSUME IInv, NEW r \in Requests, ClientGone(r)
  PROVE  Kept
<1> USE DEF IInv
<1>1. StoreOK' /\ \A i \in Ids : Extends(files'[i], files[i])
  BY StoreKept DEF ClientGone
<1>3. /\ gone' = [gone EXCEPT ![r] = TRUE]
      /\ UNCHANGED <<config, phase, id, stages, at, result, text, status>>
  BY DEF ClientGone, Goto
<1>4. TypeOK'
  BY <1>1, <1>3 DEF TypeOK, StoreOK, Phase
<1>5. RunOK(r)'
  BY <1>3, Stages DEF TypeOK, RunOK, Due
<1>6. ASSUME NEW q \in Requests, q # r PROVE RunOK(q)'
  BY <1>3, <1>6, OthersKept DEF TypeOK
<1> QED
  BY <1>1, <1>4, <1>5, <1>6 DEF Kept

LEMMA AcceptStep ==
  ASSUME IInv, NEW r \in Requests, Accept(r)
  PROVE  Kept
<1> USE DEF IInv
<1>1. StoreOK' /\ \A i \in Ids : Extends(files'[i], files[i])
  BY StoreKept DEF Accept
<1>2. PICK S \in StageSets : stages' = [stages EXCEPT ![r] = S]
  BY DEF Accept
<1>3. /\ phase[r] = "idle"
      /\ phase' = [phase EXCEPT ![r] = "start"]
      /\ UNCHANGED <<config, id, at, result, text, status, gone>>
  BY DEF Accept, Goto
<1>4. TypeOK'
  BY <1>1, <1>2, <1>3, BoundsAssumption DEF TypeOK, StoreOK, Phase
<1>5. RunOK(r)'
  BY <1>2, <1>3 DEF TypeOK, RunOK, Due
<1>6. ASSUME NEW q \in Requests, q # r PROVE RunOK(q)'
  BY <1>2, <1>3, <1>6, OthersKept DEF TypeOK
<1> QED
  BY <1>1, <1>4, <1>5, <1>6 DEF Kept

(* A restart loses the running requests and the open files, nothing else.  *)
LEMMA RestartStep ==
  ASSUME IInv, Restart
  PROVE  Kept
<1> USE DEF IInv
<1>1. StoreOK' /\ \A i \in Ids : Extends(files'[i], files[i])
  <2>1. StoreOK /\ UNCHANGED <<files, objects, missed, faults>> /\ fds' = {}
    BY DEF TypeOK, StoreOK, Restart
  <2>2. \A i \in Ids : Extends(files[i], files[i])
    BY <2>1, SelfExtends DEF StoreOK
  <2> QED
    BY <2>1, <2>2 DEF StoreOK
<1>2. /\ phase' \in [Requests -> Phase]
      /\ \A r \in Requests : phase'[r] = phase[r] \/ phase'[r] = "done"
      /\ status' \in [Requests -> {"none", "200", "400", "500", "502", "lost"}]
      /\ UNCHANGED <<config, id, stages, at, result, text, gone>>
  BY DEF Restart, TypeOK, Phase
<1>3. TypeOK'
  BY <1>1, <1>2 DEF TypeOK, StoreOK
<1>4. ASSUME NEW r \in Requests PROVE RunOK(r)'
  <2>1. CASE phase'[r] = phase[r]
    BY <1>2, <2>1, OthersKept
  <2>2. CASE phase'[r] = "done"
    BY <1>2, <2>2 DEF RunOK, Due
  <2> QED
    BY <1>2, <2>1, <2>2
<1> QED
  BY <1>1, <1>3, <1>4 DEF Kept

LEMMA NextIInv == IInv /\ [Next]_vars => Kept
<1> SUFFICES ASSUME IInv, [Next]_vars PROVE Kept
  OBVIOUS
<1>1. ASSUME NEW r \in Requests, Handle(r) PROVE Kept
  BY <1>1, StartStep, EnterStageStep, StageReturnsStep, AbortRunStep,
     ExitStageStep, FinishStep, AnswerStep DEF Handle
<1>2. ASSUME NEW r \in Requests, Accept(r) \/ Reject(r) \/ ClientGone(r) PROVE Kept
  BY <1>2, AcceptStep, RejectStep, ClientGoneStep
<1>3. CASE Restart
  BY <1>3, RestartStep
<1>4. CASE UNCHANGED vars
  <2>1. UNCHANGED <<config, request, store>>
    BY <1>4 DEF vars
  <2>2. StoreOK' /\ \A i \in Ids : Extends(files'[i], files[i])
    BY <2>1, StoreKept DEF IInv
  <2>3. TypeOK'
    BY <2>1, <2>2 DEF IInv, TypeOK, StoreOK, request
  <2>4. \A r \in Requests : RunOK(r)'
    BY <2>1, OthersKept DEF IInv, request
  <2> QED
    BY <2>2, <2>3, <2>4 DEF Kept, IInv
<1> QED
  BY <1>1, <1>2, <1>3, <1>4 DEF Next

LEMMA Invariance == Spec => []IInv
<1>1. IInv /\ [Next]_vars => IInv'
  BY NextIInv DEF Kept
<1> QED
  BY <1>1, InitIInv, PTL DEF Spec

---------------------------------------------------------------------------
(* The event log.                                                          *)

(* Lines of a file that are as they were read as they did.                 *)
LEMMA ReplaySame ==
  ASSUME NEW f, NEW g, NEW L, \A k \in L : g[k] = f[k], Replay(f, L)
  PROVE  Replay(g, L)
BY DEF Replay, Ends

(* The first line of a run. *)
LEMMA ReplayBegins ==
  ASSUME NEW g, NEW n \in Nat, g[n].type = "pipeline.start"
  PROVE  Replay(g, {n})
BY DEF Replay, First, Last

(* A line that goes on with what the last one says.                        *)
GoesOn(f, L, p, e) ==
  /\ p \in L /\ Last(p, L)
  /\ e.type # "pipeline.start" /\ f[p].type # "pipeline.complete"
  /\ ~(f[p].type = "stage.error" /\ f[p].stage = "stt")
  /\ f[p].type = "stage.start" <=> e.type \in {"stage.complete", "stage.error"}
  /\ f[p].type = "stage.start" => f[p].stage = e.stage
  /\ e.type = "stage.start" =>
       \A j \in L : f[j].type = "stage.start" => Before(f[j].stage, e.stage)

LEMMA ReplayGoesOn ==
  ASSUME NEW f, NEW g, NEW L, NEW n \in Nat, NEW p,
         \A k \in L : k \in Nat /\ k < n /\ g[k] = f[k],
         Replay(f, L), GoesOn(f, L, p, g[n])
  PROVE  Replay(g, L \cup {n})
<1> DEFINE M == L \cup {n}
<1>1. /\ p \in L /\ p \in Nat /\ p < n /\ n \in M
      /\ \A l \in L : l <= p
      /\ \A l \in M : l \in Nat /\ l <= n
      /\ \A l \in M : l <= p \/ n <= l
  BY DEF GoesOn, Last
<1>2. \A j, k \in L : Ends(f, L, j, k) => Ends(g, M, j, k)
  BY DEF Ends
<1>3. g[n].type \in {"stage.complete", "stage.error"} => Ends(g, M, p, n)
  BY <1>1 DEF Ends, GoesOn
<1>4. ASSUME NEW k \in L
      PROVE  /\ g[k].type = "pipeline.start" <=> First(k, M)
             /\ g[k].type = "pipeline.complete" => Last(k, M)
             /\ g[k].type = "stage.start" =>
                  /\ Last(k, M) \/ \E l \in M : Ends(g, M, k, l)
                  /\ \A j \in M : j < k /\ g[j].type = "stage.start"
                                    => Before(g[j].stage, g[k].stage)
             /\ g[k].type \in {"stage.complete", "stage.error"} => \E j \in M : Ends(g, M, j, k)
             /\ g[k].type = "stage.error" /\ g[k].stage = "stt" => Last(k, M)
  <2>1. Last(k, L) => k = p
    BY <1>1 DEF Last
  <2>2. First(k, M) <=> First(k, L)
    BY <1>1 DEF First
  <2>3. g[k] = f[k] /\ k \in Nat /\ k < n
    OBVIOUS
  <2>4. g[k].type = "pipeline.start" <=> First(k, M)
    BY <2>2, <2>3 DEF Replay
  <2>5. g[k].type # "pipeline.complete"
    BY <2>1, <2>3 DEF Replay, GoesOn
  <2>6. ~(g[k].type = "stage.error" /\ g[k].stage = "stt")
    BY <2>1, <2>3 DEF Replay, GoesOn
  <2>7. ASSUME g[k].type = "stage.start"
        PROVE  \E l \in M : Ends(g, M, k, l)
    <3>1. CASE k = p
      BY <1>1, <1>3, <2>3, <2>7, <3>1 DEF GoesOn
    <3>2. CASE k # p
      <4>1. \E l \in L : Ends(f, L, k, l)
        BY <2>1, <2>3, <2>7, <3>2 DEF Replay
      <4> QED BY <1>2, <4>1
    <3> QED BY <3>1, <3>2
  <2>8. ASSUME g[k].type = "stage.start", NEW j \in M, j < k, g[j].type = "stage.start"
        PROVE  Before(g[j].stage, g[k].stage)
    <3>1. j \in L /\ g[j] = f[j]
      BY <2>3, <2>8
    <3> QED BY <2>3, <2>8, <3>1 DEF Replay
  <2>9. ASSUME g[k].type \in {"stage.complete", "stage.error"}
        PROVE  \E j \in M : Ends(g, M, j, k)
    <3>1. \E j \in L : Ends(f, L, j, k)
      BY <2>3, <2>9 DEF Replay
    <3> QED BY <1>2, <3>1
  <2> QED BY <2>4, <2>5, <2>6, <2>7, <2>8, <2>9
<1>5. /\ ~First(n, M) /\ g[n].type # "pipeline.start"
      /\ Last(n, M)
      /\ g[n].type \in {"stage.complete", "stage.error"} => \E j \in M : Ends(g, M, j, n)
  BY <1>1, <1>3 DEF First, Last, GoesOn
<1>6. ASSUME g[n].type = "stage.start", NEW j \in M, j < n, g[j].type = "stage.start"
      PROVE  Before(g[j].stage, g[n].stage)
  BY <1>6 DEF GoesOn
<1> QED BY <1>4, <1>5, <1>6 DEF Replay

---------------------------------------------------------------------------
(* The invariant of the event log.                                         *)

LEMMA Places == \A m \in 1 .. 3 : Place(Order[m]) = m
<1>1. DOMAIN Order = 1 .. 3
  BY DEF Order
<1>2. \A m, k \in 1 .. 3 : Order[m] = Order[k] => m = k
  BY DEF Order
<1> QED BY <1>1, <1>2 DEF Place

(* A run whose stages are over and which was not aborted.                  *)
Through(r) ==
  /\ result[r]["stt"] # "failed"
  /\ phase[r] = "answer" \/ status[r] \in {"200", "lost"}

(* An event claims no more than what its request has come to.              *)
TrueEvent(i, e) ==
  /\ i = id[e.req]
  /\ e.type \in {"stage.complete", "stage.error"} => e.stage \in Stage
  /\ e.type = "stage.complete" => result[e.req][e.stage] = "ok"
  /\ e.type = "stage.error" => result[e.req][e.stage] = "failed"
  /\ e.type = "pipeline.complete" => Through(e.req)

LogTrue ==
  /\ \A i \in Ids : \A k \in DOMAIN files[i] : TrueEvent(i, files[i][k])
  /\ \A o \in objects : TrueEvent(o.id, o.event)

(* What lies ahead of a handler has not happened yet; the stage it is      *)
(* about to leave has.                                                     *)
Ahead(r) ==
  /\ \A m \in 1 .. 3 :
       m > at[r] \/ (m = at[r] /\ phase[r] \in {"enter", "call"}) => result[r][Order[m]] = "none"
  /\ phase[r] = "exit" => result[r][Order[at[r]]] # "none"
  /\ phase[r] # "done" => status[r] = "none"
  /\ status[r] = "200" => result[r]["stt"] # "failed"

Running == {"enter", "call", "exit", "finish"}

(* The rank of the next line: all lines so far are of lower rank, whatever *)
(* lines are missing.                                                      *)
Reach(r) ==
  CASE phase[r] \in {"idle", "start"} -> 0
    [] phase[r] = "enter" -> 2 * at[r]
    [] phase[r] \in {"call", "exit"} -> 2 * at[r] + 1
    [] phase[r] = "finish" -> 8
    [] OTHER -> 9

Behind(r, f, L) ==
  /\ InOrder(f, L)
  /\ \A k \in L : Rank(f[k]) \in Nat /\ Rank(f[k]) < Reach(r)
  /\ \A k \in L : f[k].type = "stage.error" /\ f[k].stage = "stt" =>
                   phase[r] \in {"answer", "done"}

(* With no line missing, the last line tells where the handler is, and the *)
(* lines what is behind it.                                                *)
InStep(r, f, L) ==
  /\ phase[r] \in {"idle", "start"} => L = {}
  /\ phase[r] \in Running => \E k \in L :
       /\ Last(k, L)
       /\ IF phase[r] \in {"call", "exit"}
          THEN f[k].type = "stage.start" /\ f[k].stage = Order[at[r]]
          ELSE /\ f[k].type \in {"pipeline.start", "stage.complete", "stage.error"}
               /\ ~(f[k].type = "stage.error" /\ f[k].stage = "stt")
  /\ \A k \in L : f[k].type = "stage.start" =>
       \E m \in 1 .. 3 : /\ f[k].stage = Order[m] /\ m <= at[r]
                         /\ phase[r] = "enter" => m < at[r]

(* Every stage the handler has left is reported, and so is its end.        *)
Reported(r, f, L) ==
  status[r] # "lost" =>
    /\ \A s \in Stage : ~(phase[r] = "exit" /\ s = Order[at[r]]) =>
         /\ result[r][s] = "ok" => \E k \in L : f[k].type = "stage.complete" /\ f[k].stage = s
         /\ result[r][s] = "failed" => \E k \in L : f[k].type = "stage.error" /\ f[k].stage = s
    /\ Through(r) => \E k \in L : f[k].type = "pipeline.complete" /\ f[k].stage = "none"

Whole(r, f, L) == Replay(f, L) /\ InStep(r, f, L) /\ Reported(r, f, L)

RunLogged(r, f, L) == Behind(r, f, L) /\ (r \notin missed => Whole(r, f, L))

LogInv ==
  /\ LogTrue
  /\ \A r \in Requests : Ahead(r)
  /\ Local => \A r \in Requests : RunLogged(r, files[id[r]], Lines(r))

LEMMA InitLog == Init => LogInv
<1> SUFFICES ASSUME Init PROVE LogInv
  OBVIOUS
<1>1. \A i \in Ids : files[i] = <<>>
  BY DEF Init
<1>2. LogTrue
  BY <1>1 DEF Init, LogTrue
<1>3. \A r \in Requests : Ahead(r)
  BY Stages DEF Init, Ahead, Order
<1>5. ASSUME NEW r \in Requests
      PROVE  RunLogged(r, files[id[r]], Lines(r))
  <2>1. /\ id[r] \in Ids /\ Lines(r) = {} /\ phase[r] = "idle" /\ status[r] = "none"
        /\ \A s \in Stage : result[r][s] = "none"
    BY <1>1, BoundsAssumption DEF Init, Lines
  <2>2. ~Through(r)
    BY <2>1 DEF Through
  <2>3. Behind(r, files[id[r]], Lines(r))
    BY <2>1 DEF Behind, InOrder
  <2>4. Whole(r, files[id[r]], Lines(r))
    BY <2>1, <2>2 DEF Whole, Replay, InStep, Reported, Running
  <2> QED
    BY <2>3, <2>4 DEF RunLogged
<1> QED BY <1>2, <1>3, <1>5 DEF LogInv

(* The line of r at the end of the file of its ID. *)
Wrote(r, e) == files' = [files EXCEPT ![id[r]] = Append(@, e)]

(* It was lost. *)
Missed(r) == UNCHANGED files /\ r \in missed'

LEMMA WroteLines ==
  ASSUME TypeOK, NEW r \in Requests, NEW e \in Event, e.req = r, Wrote(r, e), id' = id
  PROVE  LET n == Len(files[id[r]]) + 1 IN
         /\ n \in Nat
         /\ Lines(r)' = Lines(r) \cup {n}
         /\ files'[id[r]][n] = e
         /\ \A k \in Lines(r) : k \in Nat /\ k < n
         /\ \A q \in Requests \ {r} : Lines(q)' = Lines(q)
         /\ \A q \in Requests : \A k \in Lines(q) : files'[id[q]][k] = files[id[q]][k]
<1> DEFINE n == Len(files[id[r]]) + 1
<1>1. /\ id[r] \in Ids /\ files[id[r]] \in Seq(Event)
      /\ \A q \in Requests : id[q] \in Ids /\ files[id[q]] \in Seq(Event)
  BY DEF TypeOK
<1>2. /\ n \in Nat
      /\ files'[id[r]] = Append(files[id[r]], e)
      /\ DOMAIN files[id[r]] = 1 .. n - 1
      /\ DOMAIN files'[id[r]] = 1 .. n
      /\ files'[id[r]][n] = e
      /\ \A k \in 1 .. n - 1 : files'[id[r]][k] = files[id[r]][k]
  BY <1>1 DEF Wrote, TypeOK
<1>3. \A q \in Requests : id[q] # id[r] => files'[id[q]] = files[id[q]]
  BY <1>1 DEF Wrote, TypeOK
<1> HIDE DEF n
<1>4. \A q \in Requests : \A k \in Lines(q) : files'[id[q]][k] = files[id[q]][k]
  BY <1>2, <1>3 DEF Lines
<1>5. Lines(r)' = Lines(r) \cup {n}
  BY <1>2 DEF Lines
<1>6. \A k \in Lines(r) : k \in Nat /\ k < n
  BY <1>2 DEF Lines
<1>7. ASSUME NEW q \in Requests \ {r}
      PROVE  Lines(q)' = Lines(q)
  <2>1. CASE id[q] = id[r]
    <3>1. Lines(q) = {k \in 1 .. n - 1 : files[id[r]][k].req = q}
      BY <1>2, <2>1 DEF Lines
    <3>2. Lines(q)' = {k \in 1 .. n : files'[id[r]][k].req = q}
      BY <1>2, <2>1 DEF Lines
    <3>3. files'[id[r]][n].req # q
      BY <1>2
    <3>4. \A k \in 1 .. n : k # n => k \in 1 .. n - 1
      BY <1>2
    <3> QED BY <1>2, <3>1, <3>2, <3>3, <3>4
  <2>2. CASE id[q] # id[r]
    BY <1>3, <2>2 DEF Lines
  <2> QED BY <2>1, <2>2
<1> QED BY <1>2, <1>4, <1>5, <1>6, <1>7 DEF n

(* What a call of Log does to the event log.                               *)
LEMMA LogEffect ==
  ASSUME NEW r \in Requests, NEW type, NEW stage, Log(r, type, stage)
  PROVE  LET e == [req |-> r, type |-> type, stage |-> stage] IN
         /\ Local => Wrote(r, e) \/ Missed(r)
         /\ Wrote(r, e) \/ UNCHANGED files
         /\ objects' \subseteq objects \cup {[id |-> id[r], event |-> e]}
         /\ missed \subseteq missed'
<1> DEFINE e == [req |-> r, type |-> type, stage |-> stage]
<1>0. e.req = r
  OBVIOUS
<1> HIDE DEF e
<1>1. CASE config.backend = "local" /\ LogLocal(id[r], e) /\ UNCHANGED objects
  <2>1. Wrote(r, e) \/ Missed(r)
    BY <1>0, <1>1 DEF LogLocal, LineLost, Lose, Wrote, Missed
  <2>2. missed \subseteq missed'
    BY <1>0, <1>1 DEF LogLocal, LineLost, Lose
  <2>3. Wrote(r, e) \/ UNCHANGED files
    BY <2>1 DEF Missed
  <2> QED BY <1>1, <2>1, <2>2, <2>3 DEF e
<1>2. CASE config.backend = "gcs" /\ LogGCS(id[r], e) /\ UNCHANGED <<fds, files>>
  <2>1. ~Local
    BY <1>2 DEF Local
  <2>2. missed \subseteq missed'
    BY <1>2 DEF LogGCS, Lose
  <2>3. Upload(id[r], e) \/ UNCHANGED objects
    BY <1>2 DEF LogGCS
  <2>4. objects' \subseteq objects \cup {[id |-> id[r], event |-> e]}
    BY <2>3 DEF Upload
  <2> QED BY <1>2, <2>1, <2>2, <2>4 DEF e
<1>3. CASE config.backend = "none" /\ UNCHANGED store
  BY <1>3 DEF store, Local
<1> QED BY <1>1, <1>2, <1>3 DEF Log, e

(* Events stay true: a result, once there, and an end stay.                *)
LEMMA TrueKept ==
  ASSUME IInv, LogInv, id' = id,
         \A q \in Requests : \A s \in Stage :
           result[q][s] # "none" => result'[q][s] = result[q][s],
         \A q \in Requests : Through(q) => Through(q)'
  PROVE  \A i \in Ids, e \in Event : TrueEvent(i, e) => TrueEvent(i, e)'
<1> SUFFICES ASSUME NEW i \in Ids, NEW e \in Event, TrueEvent(i, e)
             PROVE  TrueEvent(i, e)'
  OBVIOUS
<1>1. e.req \in Requests
  BY DEF Event
<1> QED BY <1>1 DEF TrueEvent

(* ... and so does the log, when a true event is added to it.              *)
LEMMA LogStaysTrue ==
  ASSUME IInv, LogInv, id' = id, NEW r \in Requests, NEW e \in Event, e.req = r,
         \A q \in Requests : \A s \in Stage :
           result[q][s] # "none" => result'[q][s] = result[q][s],
         \A q \in Requests : Through(q) => Through(q)',
         Wrote(r, e) \/ UNCHANGED files,
         objects' \subseteq objects \cup {[id |-> id[r], event |-> e]},
         TrueEvent(id[r], e)'
  PROVE  LogTrue'
<1>1. \A i \in Ids, d \in Event : TrueEvent(i, d) => TrueEvent(i, d)'
  BY TrueKept
<1>2. ASSUME NEW o \in objects'
      PROVE  TrueEvent(o.id, o.event)'
  <2>1. CASE o \in objects
    <3>1. o.id \in Ids /\ o.event \in Event /\ TrueEvent(o.id, o.event)
      BY <2>1 DEF IInv, TypeOK, LogInv, LogTrue
    <3> QED BY <1>1, <3>1
  <2>2. CASE o = [id |-> id[r], event |-> e]
    BY <2>2 DEF TrueEvent
  <2> QED BY <2>1, <2>2
<1>3. ASSUME NEW i \in Ids, NEW k \in DOMAIN files'[i], NEW d, d = files'[i][k]
      PROVE  TrueEvent(i, d)'
  <2>1. files[i] \in Seq(Event) /\ id[r] \in Ids
    BY DEF IInv, TypeOK
  <2>2. \/ k \in DOMAIN files[i] /\ d = files[i][k]
        \/ i = id[r] /\ d = e
    <3>1. CASE UNCHANGED files
      BY <1>3, <3>1
    <3>2. CASE Wrote(r, e) /\ i = id[r]
      BY <1>3, <2>1, <3>2 DEF Wrote, IInv, TypeOK
    <3>3. CASE Wrote(r, e) /\ i # id[r]
      BY <1>3, <2>1, <3>3 DEF Wrote, IInv, TypeOK
    <3> QED BY <3>1, <3>2, <3>3
  <2>3. CASE k \in DOMAIN files[i] /\ d = files[i][k]
    <3>1. d \in Event /\ TrueEvent(i, d)
      BY <2>1, <2>3 DEF LogInv, LogTrue
    <3> QED BY <1>1, <3>1
  <2>4. CASE i = id[r] /\ d = e
    BY <2>4 DEF TrueEvent
  <2> QED BY <2>2, <2>3, <2>4
<1> QED BY <1>2, <1>3 DEF LogTrue

(* A run that a step leaves alone is as well logged as it was.             *)
LEMMA LoggedSame ==
  ASSUME NEW q \in Requests, RunLogged(q, files[id[q]], Lines(q)), id' = id,
         phase'[q] = phase[q], at'[q] = at[q], result'[q] = result[q], status'[q] = status[q],
         Lines(q)' = Lines(q), \A k \in Lines(q) : files'[id[q]][k] = files[id[q]][k],
         missed \subseteq missed'
  PROVE  RunLogged(q, files[id[q]], Lines(q))'
<1> DEFINE L == Lines(q)
           f == files[id[q]]
           g == files'[id[q]]
<1> HIDE DEF L, f, g
<1>0. Lines(q)' = L /\ files[id[q]]' = g /\ \A k \in L : g[k] = f[k]
  BY DEF L, f, g
<1>1. Behind(q, f, L) /\ (q \notin missed => Whole(q, f, L))
  BY DEF RunLogged, L, f
<1>2. Behind(q, files[id[q]], Lines(q))'
  BY <1>0, <1>1 DEF Behind, InOrder, Last, Reach
<1>3. ASSUME q \notin missed'
      PROVE  Whole(q, files[id[q]], Lines(q))'
  <2>1. Replay(f, L) /\ InStep(q, f, L) /\ Reported(q, f, L)
    BY <1>1, <1>3 DEF Whole
  <2>2. Replay(g, L)
    BY <1>0, <2>1, ReplaySame
  <2>3. InStep(q, files[id[q]], Lines(q))'
    BY <1>0, <2>1 DEF InStep
  <2>4. Reported(q, files[id[q]], Lines(q))'
    BY <1>0, <2>1 DEF Reported, Through
  <2> QED BY <1>0, <2>2, <2>3, <2>4 DEF Whole
<1> QED BY <1>2, <1>3 DEF RunLogged

(* A step of one handler, with its event or without, leaves the others'    *)
(* runs logged as they were.                                               *)
OthersAside(r) ==
  /\ UNCHANGED <<config, id>>
  /\ \A q \in Requests \ {r} :
       /\ phase'[q] = phase[q] /\ at'[q] = at[q]
       /\ result'[q] = result[q] /\ status'[q] = status[q]

LEMMA OthersAhead ==
  ASSUME LogInv, NEW r \in Requests, OthersAside(r), Ahead(r)'
  PROVE  \A q \in Requests : Ahead(q)'
<1>1. ASSUME NEW q \in Requests, q # r
      PROVE  Ahead(q)'
  <2>1. /\ phase'[q] = phase[q] /\ at'[q] = at[q]
        /\ result'[q] = result[q] /\ status'[q] = status[q]
    BY <1>1 DEF OthersAside
  <2> QED BY <2>1 DEF LogInv, Ahead
<1> QED BY <1>1

(* What the handler logs, where it is and where it goes.                   *)
Logs(r, e) ==
  \/ phase[r] = "start" /\ e.type = "pipeline.start"
  \/ phase[r] = "enter" /\ e.type = "stage.start" /\ e.stage = Order[at[r]]
  \/ /\ phase[r] = "exit" /\ e.stage = Order[at[r]]
     /\ e.type = IF CurrentFailed(r) THEN "stage.error" ELSE "stage.complete"
  \/ phase[r] = "finish" /\ e.type = "pipeline.complete" /\ e.stage = "none"

Goes(r, e) ==
  \/ phase[r] = "enter" /\ phase'[r] = "call" /\ at'[r] = at[r]
  \/ /\ phase[r] \in {"start", "exit"} /\ phase'[r] \in {"enter", "finish"} /\ at[r] < at'[r]
     /\ ~(e.type = "stage.error" /\ e.stage = "stt")
  \/ /\ phase[r] = "exit" /\ phase'[r] = "answer" /\ at'[r] = at[r]
     /\ result[r]["stt"] = "failed"
  \/ /\ phase[r] = "finish" /\ phase'[r] = "answer" /\ at'[r] = at[r]

(* The next line is of the rank the run has reached, and it goes on.       *)
LEMMA RankReached ==
  ASSUME IInv, NEW r \in Requests, NEW e, Logs(r, e)
  PROVE  Rank(e) = Reach(r)
<1>1. phase[r] \in {"enter", "exit"} => at[r] \in 1 .. 3
  BY DEF IInv, RunOK
<1>2. CASE phase[r] = "start"
  BY <1>2 DEF Logs, Rank, Reach
<1>3. CASE phase[r] = "finish"
  BY <1>3 DEF Logs, Rank, Reach
<1>4. CASE phase[r] = "enter"
  <2>1. Place(e.stage) = at[r] /\ e.type = "stage.start"
    BY <1>1, <1>4, Places DEF Logs
  <2> QED BY <1>4, <2>1 DEF Rank, Reach
<1>5. CASE phase[r] = "exit"
  <2>1. Place(e.stage) = at[r] /\ e.type \in {"stage.error", "stage.complete"}
    BY <1>1, <1>5, Places DEF Logs
  <2> QED BY <1>5, <2>1 DEF Rank, Reach
<1> QED BY <1>2, <1>3, <1>4, <1>5 DEF Logs

LEMMA ReachGrows ==
  ASSUME IInv, IInv', NEW r \in Requests, NEW e, Goes(r, e)
  PROVE  Reach(r) \in Nat /\ Reach(r)' \in Nat /\ Reach(r) < Reach(r)'
<1>1. /\ at[r] \in 0 .. 4 /\ at'[r] \in 0 .. 4
      /\ phase[r] \in {"enter", "exit"} => at[r] \in 1 .. 3
  BY DEF IInv, TypeOK, RunOK
<1> QED BY <1>1 DEF Goes, Reach

LEMMA ReachBound ==
  ASSUME IInv, NEW r \in Requests
  PROVE  Reach(r) \in 0 .. 9
<1>1. /\ at[r] \in 0 .. 4
      /\ phase[r] \in {"enter", "call", "exit"} => at[r] \in 1 .. 3
  BY DEF IInv, TypeOK, RunOK
<1> QED BY <1>1 DEF Reach

(* A run that moves on without a line.                                     *)
LEMMA BehindOn ==
  ASSUME NEW r \in Requests, Behind(r, files[id[r]], Lines(r)),
         id' = id, files' = files,
         Reach(r) \in Nat, Reach(r)' \in Nat, Reach(r) <= Reach(r)',
         phase[r] \in {"answer", "done"} => phase'[r] \in {"answer", "done"}
  PROVE  Behind(r, files[id[r]], Lines(r))'
<1> DEFINE L == Lines(r)
           f == files[id[r]]
<1>1. Lines(r)' = L /\ files[id[r]]' = f
  BY DEF Lines
<1>2. Behind(r, f, L)
  OBVIOUS
<1> HIDE DEF L, f
<1>3. \A k \in L : Rank(f[k]) \in Nat /\ Rank(f[k]) < Reach(r)'
  BY <1>2 DEF Behind
<1>4. InOrder(f, L)
  BY <1>2 DEF Behind
<1>5. \A k \in L : f[k].type = "stage.error" /\ f[k].stage = "stt" =>
                    phase'[r] \in {"answer", "done"}
  BY <1>2 DEF Behind
<1>6. InOrder(files[id[r]], Lines(r))'
  BY <1>1, <1>4 DEF InOrder, Last
<1>7. \A k \in Lines(r)' : Rank(files[id[r]]'[k]) \in Nat /\ Rank(files[id[r]]'[k]) < Reach(r)'
  BY <1>1, <1>3
<1> QED BY <1>1, <1>5, <1>6, <1>7 DEF Behind, Rank

LEMMA WrittenBehind ==
  ASSUME IInv, IInv', LogInv, Local, NEW r \in Requests, NEW e \in Event, e.req = r,
         Wrote(r, e), id' = id, Logs(r, e), Goes(r, e)
  PROVE  Behind(r, files[id[r]], Lines(r))'
<1> DEFINE n == Len(files[id[r]]) + 1
           L == Lines(r)
           f == files[id[r]]
           g == files'[id[r]]
<1>1. /\ n \in Nat /\ g[n] = e
      /\ Lines(r)' = L \cup {n} /\ files[id[r]]' = g
      /\ \A k \in L : k \in Nat /\ k < n /\ g[k] = f[k]
  BY WroteLines DEF IInv
<1>2. Behind(r, f, L)
  BY DEF LogInv, RunLogged
<1> HIDE DEF n, L, f, g
<1>3. /\ Rank(g[n]) = Reach(r)
      /\ Reach(r) \in Nat /\ Reach(r)' \in Nat /\ Reach(r) < Reach(r)'
  BY <1>1, RankReached, ReachGrows
<1>4. \A k \in L : Rank(g[k]) \in Nat /\ Rank(g[k]) < Reach(r)
  BY <1>1, <1>2 DEF Behind
<1>5. phase[r] \notin {"answer", "done"}
  BY DEF Logs
<1>6. \A k \in L : ~(g[k].type = "stage.error" /\ g[k].stage = "stt")
  BY <1>1, <1>2, <1>5 DEF Behind
<1>7. \A j, k \in L : j < k => Rank(g[j]) < Rank(g[k])
  BY <1>1, <1>2 DEF Behind, InOrder
<1> DEFINE M == L \cup {n}
<1>8. ASSUME NEW j \in M, NEW k \in M, j < k
      PROVE  Rank(g[j]) < Rank(g[k])
  <2>1. j \in L
    BY <1>1, <1>8
  <2>2. CASE k \in L
    BY <1>7, <1>8, <2>1, <2>2
  <2>3. CASE k = n
    BY <1>3, <1>4, <2>1, <2>3
  <2> QED BY <2>2, <2>3
<1>9. \A k \in M : g[k].type = "stage.error" /\ g[k].stage = "stt" => k = n
  BY <1>6
<1>10. Last(n, M)
  BY <1>1 DEF Last
<1>11. InOrder(g, M)
  BY <1>8, <1>9, <1>10 DEF InOrder
<1>12. \A k \in M : Rank(g[k]) \in Nat /\ Rank(g[k]) < Reach(r)'
  BY <1>3, <1>4
<1>13. g[n].type = "stage.error" /\ g[n].stage = "stt" => phase'[r] \in {"answer", "done"}
  BY <1>1 DEF Goes, Logs
<1>14. Lines(r)' = M
  BY <1>1
<1> HIDE DEF M
<1>15. \A k \in M : g[k].type = "stage.error" /\ g[k].stage = "stt" => phase'[r] \in {"answer", "done"}
  BY <1>9, <1>13
<1>16. InOrder(files[id[r]], Lines(r))'
  BY <1>1, <1>11, <1>14 DEF InOrder, Last
<1>17. \A k \in Lines(r)' : Rank(files[id[r]]'[k]) \in Nat /\ Rank(files[id[r]]'[k]) < Reach(r)'
  BY <1>1, <1>12, <1>14
<1> QED BY <1>1, <1>14, <1>15, <1>16, <1>17 DEF Behind, Rank

LEMMA WrittenReplay ==
  ASSUME IInv, LogInv, Local, NEW r \in Requests, NEW e \in Event, e.req = r,
         Wrote(r, e), id' = id, Logs(r, e), r \notin missed
  PROVE  Replay(files[id[r]], Lines(r))'
<1> DEFINE n == Len(files[id[r]]) + 1
           L == Lines(r)
           f == files[id[r]]
           g == files'[id[r]]
<1>1. /\ n \in Nat /\ g[n] = e
      /\ Lines(r)' = L \cup {n} /\ files[id[r]]' = g
      /\ \A k \in L : k \in Nat /\ k < n /\ g[k] = f[k]
  BY WroteLines DEF IInv
<1>2. Replay(f, L) /\ InStep(r, f, L) /\ TypeOK /\ RunOK(r)
  BY DEF LogInv, RunLogged, Whole, IInv
<1> HIDE DEF n, L, f, g
<1>3. CASE phase[r] = "start"
  <2>1. L = {} /\ e.type = "pipeline.start"
    BY <1>2, <1>3 DEF InStep, Logs
  <2>2. Lines(r)' = {n}
    BY <1>1, <2>1
  <2>3. Replay(g, {n})
    BY <1>1, <2>1, ReplayBegins
  <2> QED BY <1>1, <1>3, <2>2, <2>3
<1>4. CASE phase[r] # "start"
  <2>0. phase[r] \in Running
    BY <1>4 DEF Logs, Running
  <2>2. PICK p \in L :
          /\ Last(p, L)
          /\ IF phase[r] \in {"call", "exit"}
             THEN f[p].type = "stage.start" /\ f[p].stage = Order[at[r]]
             ELSE /\ f[p].type \in {"pipeline.start", "stage.complete", "stage.error"}
                  /\ ~(f[p].type = "stage.error" /\ f[p].stage = "stt")
    BY <1>2, <2>0 DEF InStep
  <2>3. ASSUME e.type = "stage.start", NEW j \in L, f[j].type = "stage.start"
        PROVE  Before(f[j].stage, e.stage)
    <3>1. phase[r] = "enter" /\ e.stage = Order[at[r]] /\ at[r] \in 1 .. 3
      BY <1>2, <2>3 DEF Logs, RunOK
    <3>2. \E m \in 1 .. 3 : f[j].stage = Order[m] /\ m < at[r]
      BY <1>2, <2>3, <3>1 DEF InStep
    <3>3. 1 .. 3 = DOMAIN Order
      BY DEF Order
    <3> QED BY <3>1, <3>2, <3>3 DEF Before
  <2>4. GoesOn(f, L, p, e)
    BY <1>4, <2>2, <2>3 DEF GoesOn, Logs
  <2>5. Replay(g, L \cup {n})
    BY <1>1, <1>2, <2>4, ReplayGoesOn
  <2> QED BY <1>1, <2>5 DEF L
<1> QED BY <1>3, <1>4

LEMMA WrittenRun ==
  ASSUME IInv, LogInv, Local, NEW r \in Requests, NEW e \in Event, e.req = r,
         Wrote(r, e), OthersAside(r), Logs(r, e), Goes(r, e), result' = result,
         IInv', status'[r] = status[r], missed \subseteq missed'
  PROVE  RunLogged(r, files[id[r]], Lines(r))'
<1> DEFINE n == Len(files[id[r]]) + 1
           L == Lines(r)
           f == files[id[r]]
           g == files'[id[r]]
<1>0. id' = id
  BY DEF OthersAside
<1>1. /\ n \in Nat /\ g[n] = e
      /\ Lines(r)' = L \cup {n} /\ files[id[r]]' = g
      /\ \A k \in L : k \in Nat /\ k < n /\ g[k] = f[k]
  BY <1>0, WroteLines DEF IInv
<1>2. /\ r \notin missed' => InStep(r, f, L) /\ Reported(r, f, L)
      /\ TypeOK /\ RunOK(r) /\ Ahead(r) /\ RunOK(r)'
  BY DEF LogInv, RunLogged, Whole, IInv
<1>3. r \notin missed' => Replay(files[id[r]], Lines(r))'
  BY <1>0, WrittenReplay
<1> HIDE DEF n, L, f, g
<1>4. Behind(r, files[id[r]], Lines(r))'
  BY <1>0, WrittenBehind
<1>5. ASSUME r \notin missed'
      PROVE  InStep(r, files[id[r]], Lines(r))'
  <2> DEFINE M == L \cup {n}
  <2>1. phase'[r] \notin {"idle", "start"}
    BY DEF Goes
  <2>2. n \in M /\ Last(n, M)
    BY <1>1 DEF Last
  <2>3. phase'[r] \in Running =>
          IF phase'[r] \in {"call", "exit"}
          THEN g[n].type = "stage.start" /\ g[n].stage = Order[at'[r]]
          ELSE /\ g[n].type \in {"pipeline.start", "stage.complete", "stage.error"}
               /\ ~(g[n].type = "stage.error" /\ g[n].stage = "stt")
    BY <1>1 DEF Goes, Logs, Running
  <2>4. ASSUME NEW k \in M, g[k].type = "stage.start"
        PROVE  \E m \in 1 .. 3 : /\ g[k].stage = Order[m] /\ m <= at'[r]
                                 /\ phase'[r] = "enter" => m < at'[r]
    <3>1. at[r] \in Nat /\ at'[r] \in Nat /\ at[r] <= at'[r]
          /\ (phase'[r] = "enter" => at[r] < at'[r])
      <4>1. at[r] \in 0 .. 4 /\ at'[r] \in 0 .. 4
        BY DEF TypeOK, IInv
      <4> QED BY <4>1 DEF Goes
    <3>2. CASE k \in L
      <4>1. PICK m \in 1 .. 3 : f[k].stage = Order[m] /\ m <= at[r]
        BY <1>1, <1>2, <1>5, <2>4, <3>2 DEF InStep
      <4>2. m <= at'[r] /\ (phase'[r] = "enter" => m < at'[r])
        BY <3>1, <4>1
      <4> QED BY <1>1, <3>2, <4>1, <4>2
    <3>3. CASE k = n
      <4>1. phase[r] = "enter" /\ g[k].stage = Order[at[r]] /\ at[r] \in 1 .. 3
        BY <1>1, <1>2, <2>4, <3>3 DEF Logs, RunOK
      <4>2. phase'[r] = "call" /\ at'[r] = at[r]
        BY <4>1 DEF Goes
      <4> QED BY <3>1, <4>1, <4>2
    <3> QED BY <3>2, <3>3
  <2> HIDE DEF M
  <2>5. Lines(r)' = M
    BY <1>1 DEF M
  <2>6. /\ phase'[r] \in {"idle", "start"} => Lines(r)' = {}
        /\ phase'[r] \in Running => \E k \in Lines(r)' :
             /\ Last(k, Lines(r)')
             /\ IF phase'[r] \in {"call", "exit"}
                THEN g[k].type = "stage.start" /\ g[k].stage = Order[at'[r]]
                ELSE /\ g[k].type \in {"pipeline.start", "stage.complete", "stage.error"}
                     /\ ~(g[k].type = "stage.error" /\ g[k].stage = "stt")
    BY <2>1, <2>2, <2>3, <2>5
  <2> QED BY <1>1, <2>4, <2>5, <2>6 DEF InStep, Last
<1>6. ASSUME r \notin missed'
      PROVE  Reported(r, files[id[r]], Lines(r))'
  <2>1. status[r] = "none" /\ status'[r] = "none"
    BY <1>2 DEF Ahead, Logs
  <2>2. ASSUME NEW s \in Stage
        PROVE  /\ result[r][s] = "ok" =>
                    \E k \in L \cup {n} : g[k].type = "stage.complete" /\ g[k].stage = s
               /\ result[r][s] = "failed" =>
                    \E k \in L \cup {n} : g[k].type = "stage.error" /\ g[k].stage = s
    <3>2. CASE phase[r] = "exit" /\ s = Order[at[r]]
      BY <1>1, <3>2 DEF Logs, CurrentFailed
    <3>3. CASE ~(phase[r] = "exit" /\ s = Order[at[r]])
      <4>2. /\ result[r][s] = "ok" => \E k \in L : f[k].type = "stage.complete" /\ f[k].stage = s
            /\ result[r][s] = "failed" => \E k \in L : f[k].type = "stage.error" /\ f[k].stage = s
        BY <1>2, <1>6, <2>1, <3>3 DEF Reported
      <4> QED BY <1>1, <4>2
    <3> QED BY <3>2, <3>3
  <2>3. Through(r)' => \E k \in L \cup {n} : g[k].type = "pipeline.complete" /\ g[k].stage = "none"
    <3>1. Through(r)' => phase[r] = "finish"
      BY <2>1 DEF Through, Goes
    <3> QED BY <1>1, <3>1 DEF Logs
  <2> QED BY <1>1, <2>2, <2>3 DEF Reported
<1> QED BY <1>3, <1>4, <1>5, <1>6 DEF RunLogged, Whole

(* A step that calls Log. *)
LEMMA LoggingStep ==
  ASSUME IInv, IInv', LogInv, NEW r \in Requests, NEW type, NEW stage,
         [req |-> r, type |-> type, stage |-> stage] \in Event,
         Log(r, type, stage), OthersAside(r), result' = result,
         Logs(r, [req |-> r, type |-> type, stage |-> stage]),
         Goes(r, [req |-> r, type |-> type, stage |-> stage]),
         status' = status
  PROVE  LogInv'
<1> DEFINE e == [req |-> r, type |-> type, stage |-> stage]
<1>1. /\ Local => Wrote(r, e) \/ Missed(r)
      /\ Wrote(r, e) \/ UNCHANGED files
      /\ objects' \subseteq objects \cup {[id |-> id[r], event |-> e]}
      /\ missed \subseteq missed'
      /\ e \in Event /\ e.req = r /\ e.type = type /\ e.stage = stage
      /\ Logs(r, e) /\ Goes(r, e)
  BY LogEffect
<1> HIDE DEF e
<1>2. /\ RunOK(r) /\ RunOK(r)' /\ TypeOK /\ Ahead(r) /\ id' = id
      /\ at[r] \in 0 .. 4 /\ at'[r] \in 0 .. 4
      /\ status[r] = "none" /\ status'[r] = "none"
  BY <1>1 DEF LogInv, IInv, TypeOK, OthersAside, Ahead, Logs
<1>3. Ahead(r)'
  <2>1. phase'[r] # "exit" /\ (phase'[r] \in {"enter", "call"} => phase[r] \in {"start", "exit", "enter"})
    BY <1>1 DEF Goes
  <2>2. ASSUME NEW m \in 1 .. 3, m > at'[r] \/ (m = at'[r] /\ phase'[r] \in {"enter", "call"})
        PROVE  result[r][Order[m]] = "none"
    BY <1>1, <1>2, <2>2 DEF Goes, Ahead
  <2> QED BY <1>2, <2>1, <2>2 DEF Ahead
<1>4. TrueEvent(id[r], e)'
  <2>1. type \in {"stage.complete", "stage.error"} =>
          phase[r] = "exit" /\ stage = Order[at[r]] /\ at[r] \in 1 .. 3
    BY <1>1, <1>2 DEF Logs, RunOK
  <2>2. type \in {"stage.complete", "stage.error"} => stage \in Stage
    BY <2>1, Stages DEF Order
  <2>3. type = "stage.complete" => result[r][stage] = "ok"
    BY <1>1, <1>2, <2>1, <2>2 DEF Logs, CurrentFailed, Ahead, TypeOK
  <2>4. type = "stage.error" => result[r][stage] = "failed"
    BY <1>1, <2>1 DEF Logs, CurrentFailed
  <2>5. type = "pipeline.complete" => Through(r)'
    BY <1>1, <1>2 DEF Logs, Goes, RunOK, Through
  <2> QED BY <1>1, <1>2, <2>2, <2>3, <2>4, <2>5 DEF TrueEvent
<1>5. LogTrue'
  <2>1. \A q \in Requests : Through(q) => Through(q)'
    <3>1. ~Through(r)
      BY <1>1, <1>2 DEF Through, Logs
    <3> QED BY <3>1 DEF OthersAside, Through
  <2> QED BY <1>1, <1>2, <1>4, <2>1, LogStaysTrue
<1>6. ASSUME Local, NEW q \in Requests
      PROVE  RunLogged(q, files[id[q]], Lines(q))'
  <2>1. RunLogged(q, files[id[q]], Lines(q))
    BY <1>6 DEF LogInv
  <2>2. CASE q = r /\ Missed(r)
    <3>1. Behind(r, files[id[r]], Lines(r)) /\ files' = files /\ r \in missed'
      BY <2>1, <2>2 DEF RunLogged, Missed
    <3>2. Reach(r) \in Nat /\ Reach(r)' \in Nat /\ Reach(r) <= Reach(r)'
      BY <1>1, ReachGrows
    <3>3. phase[r] \notin {"answer", "done"}
      BY <1>1 DEF Logs
    <3> QED BY <1>2, <2>2, <3>1, <3>2, <3>3, BehindOn DEF RunLogged
  <2>3. CASE q = r /\ Wrote(r, e)
    BY <1>1, <1>6, <2>3, WrittenRun
  <2>4. CASE q # r
    <3>1. /\ phase'[q] = phase[q] /\ at'[q] = at[q]
          /\ result'[q] = result[q] /\ status'[q] = status[q]
      BY <2>4 DEF OthersAside
    <3>2. CASE Missed(r)
      <4>1. Lines(q)' = Lines(q) /\ files' = files
        BY <1>2, <3>2 DEF Missed, Lines
      <4> QED BY <1>1, <1>2, <2>1, <3>1, <4>1, LoggedSame
    <3>3. CASE Wrote(r, e)
      <4>1. /\ Lines(q)' = Lines(q)
            /\ \A k \in Lines(q) : files'[id[q]][k] = files[id[q]][k]
        BY <1>1, <1>2, <2>4, <3>3, WroteLines
      <4> QED BY <1>1, <1>2, <2>1, <3>1, <4>1, LoggedSame
    <3> QED BY <1>1, <1>6, <3>2, <3>3
  <2> QED BY <1>1, <1>6, <2>2, <2>3, <2>4
<1>7. \A q \in Requests : Ahead(q)'
  BY <1>3, OthersAhead
<1>8. Local' => Local
  BY DEF Local, OthersAside
<1> QED BY <1>5, <1>6, <1>7, <1>8 DEF LogInv

(* A step that leaves the event log alone.                                 *)
LEMMA LogTrueKept ==
  ASSUME IInv, LogInv, id' = id, UNCHANGED <<files, objects>>,
         \A q \in Requests : \A s \in Stage :
           result[q][s] # "none" => result'[q][s] = result[q][s],
         \A q \in Requests : Through(q) => Through(q)'
  PROVE  LogTrue'
<1>1. \A i \in Ids, e \in Event : TrueEvent(i, e) => TrueEvent(i, e)'
  BY TrueKept
<1>2. /\ \A i \in Ids : \A k \in DOMAIN files[i] : files[i][k] \in Event
      /\ \A o \in objects : o.id \in Ids /\ o.event \in Event
  BY DEF IInv, TypeOK
<1> QED BY <1>1, <1>2 DEF LogInv, LogTrue

LEMMA QuietStep ==
  ASSUME IInv, IInv', LogInv, NEW r \in Requests, OthersAside(r), UNCHANGED store, Ahead(r)',
         Reach(r) <= Reach(r)',
         phase[r] \in {"answer", "done"} => phase'[r] \in {"answer", "done"},
         \A s \in Stage : result[r][s] # "none" => result'[r][s] = result[r][s],
         Through(r) => Through(r)',
         Local /\ InStep(r, files[id[r]], Lines(r)) => InStep(r, files[id[r]], Lines(r))',
         Local /\ Reported(r, files[id[r]], Lines(r)) => Reported(r, files[id[r]], Lines(r))'
  PROVE  LogInv'
<1>1. id' = id /\ files' = files /\ objects' = objects /\ missed' = missed
  BY DEF OthersAside, store
<1>2. \A q \in Requests : Ahead(q)'
  BY OthersAhead
<1>3. LogTrue'
  <2>1. \A q \in Requests : \A s \in Stage :
           result[q][s] # "none" => result'[q][s] = result[q][s]
    BY DEF OthersAside
  <2>2. \A q \in Requests : Through(q) => Through(q)'
    BY DEF OthersAside, Through
  <2> QED BY <1>1, <2>1, <2>2, LogTrueKept
<1>4. ASSUME Local, NEW q \in Requests
      PROVE  RunLogged(q, files[id[q]], Lines(q))'
  <2>1. Lines(q)' = Lines(q) /\ RunLogged(q, files[id[q]], Lines(q))
    BY <1>1, <1>4 DEF Lines, LogInv
  <2>2. CASE q # r
    <3>1. /\ phase'[q] = phase[q] /\ at'[q] = at[q]
          /\ result'[q] = result[q] /\ status'[q] = status[q]
      BY <2>2 DEF OthersAside
    <3> QED BY <1>1, <2>1, <3>1, LoggedSame
  <2>3. CASE q = r
    <3>1. Reach(r) \in Nat /\ Reach(r)' \in Nat
      <4>1. Reach(r) \in 0 .. 9
        BY ReachBound
      <4>2. /\ at'[r] \in 0 .. 4
            /\ phase'[r] \in {"enter", "call", "exit"} => at'[r] \in 1 .. 3
        BY DEF IInv, TypeOK, RunOK
      <4>3. Reach(r)' \in 0 .. 9
        BY <4>2 DEF Reach
      <4> QED BY <4>1, <4>3
    <3>2. Behind(r, files[id[r]], Lines(r))'
      BY <1>1, <2>1, <2>3, <3>1, BehindOn DEF RunLogged
    <3>3. ASSUME r \notin missed
          PROVE  Whole(r, files[id[r]], Lines(r))'
      <4>1. Whole(r, files[id[r]], Lines(r))
        BY <2>1, <2>3, <3>3 DEF RunLogged
      <4>2. Replay(files[id[r]], Lines(r))'
        BY <1>1, <2>1, <2>3, <4>1, ReplaySame DEF Whole
      <4> QED BY <1>4, <4>1, <4>2 DEF Whole
    <3> QED BY <1>1, <2>3, <3>2, <3>3 DEF RunLogged
  <2> QED BY <2>2, <2>3
<1>5. Local' => Local
  BY DEF Local, OthersAside
<1> QED BY <1>2, <1>3, <1>4, <1>5 DEF LogInv

---------------------------------------------------------------------------
(* Every action keeps it.                                                  *)

LEMMA AcceptLogs ==
  ASSUME IInv, IInv', LogInv, NEW r \in Requests, Accept(r)
  PROVE  LogInv'
<1>1. /\ phase[r] = "idle" /\ phase'[r] = "start"
      /\ \A q \in Requests \ {r} : phase'[q] = phase[q]
      /\ UNCHANGED <<config, id, at, result, text, status, gone, store>>
  BY DEF Accept, Goto, IInv, TypeOK
<1>2. OthersAside(r)
  BY <1>1 DEF OthersAside
<1>3. Ahead(r)' /\ status[r] = "none"
  BY <1>1 DEF LogInv, Ahead
<1>4. Reach(r) <= Reach(r)'
  BY <1>1 DEF Reach
<1>5. ~Through(r) /\ ~Through(r)'
  BY <1>1, <1>3 DEF Through
<1>6. files' = files /\ id' = id /\ Lines(r)' = Lines(r)
  BY <1>1 DEF Lines, store
<1>7. InStep(r, files[id[r]], Lines(r)) => InStep(r, files[id[r]], Lines(r))'
  BY <1>1, <1>6 DEF InStep, Running
<1>8. Reported(r, files[id[r]], Lines(r)) => Reported(r, files[id[r]], Lines(r))'
  BY <1>1, <1>5, <1>6 DEF Reported
<1> QED BY <1>1, <1>2, <1>3, <1>4, <1>5, <1>7, <1>8, QuietStep

LEMMA RejectLogs ==
  ASSUME IInv, IInv', LogInv, NEW r \in Requests, Reject(r)
  PROVE  LogInv'
<1>1. /\ phase[r] = "idle" /\ phase'[r] = "done" /\ status'[r] \in {"400", "500"}
      /\ \A q \in Requests \ {r} : phase'[q] = phase[q] /\ status'[q] = status[q]
      /\ UNCHANGED <<config, id, stages, at, result, text, gone, store>>
  BY DEF Reject, Goto, IInv, TypeOK
<1>2. OthersAside(r)
  BY <1>1 DEF OthersAside
<1>3. Ahead(r)' /\ status[r] = "none"
  BY <1>1 DEF LogInv, Ahead
<1>4. Reach(r) <= Reach(r)'
  BY <1>1 DEF Reach
<1>5. ~Through(r) /\ ~Through(r)'
  BY <1>1, <1>3 DEF Through
<1>6. files' = files /\ id' = id /\ Lines(r)' = Lines(r)
  BY <1>1 DEF Lines, store
<1>7. InStep(r, files[id[r]], Lines(r)) => InStep(r, files[id[r]], Lines(r))'
  BY <1>1, <1>6 DEF InStep, Running
<1>8. Reported(r, files[id[r]], Lines(r)) => Reported(r, files[id[r]], Lines(r))'
  BY <1>1, <1>3, <1>5, <1>6 DEF Reported
<1> QED BY <1>1, <1>2, <1>3, <1>4, <1>5, <1>7, <1>8, QuietStep

LEMMA AnswerLogs ==
  ASSUME IInv, IInv', LogInv, NEW r \in Requests, Answer(r)
  PROVE  LogInv'
<1>1. /\ phase[r] = "answer" /\ phase'[r] = "done"
      /\ status'[r] = IF result[r]["stt"] = "failed" THEN "502" ELSE "200"
      /\ \A q \in Requests \ {r} : phase'[q] = phase[q] /\ status'[q] = status[q]
      /\ UNCHANGED <<config, id, stages, at, result, text, gone, store>>
  BY DEF Answer, Goto, IInv, TypeOK
<1>2. OthersAside(r)
  BY <1>1 DEF OthersAside
<1>3. Ahead(r)' /\ status[r] = "none"
  BY <1>1 DEF LogInv, Ahead
<1>4. Reach(r) <= Reach(r)'
  BY <1>1 DEF Reach
<1>5. Through(r) <=> Through(r)'
  BY <1>1, <1>3 DEF Through
<1>6. files' = files /\ id' = id /\ Lines(r)' = Lines(r)
  BY <1>1 DEF Lines, store
<1>7. InStep(r, files[id[r]], Lines(r)) => InStep(r, files[id[r]], Lines(r))'
  BY <1>1, <1>6 DEF InStep, Running
<1>8. Reported(r, files[id[r]], Lines(r)) => Reported(r, files[id[r]], Lines(r))'
  BY <1>1, <1>3, <1>5, <1>6 DEF Reported
<1> QED BY <1>1, <1>2, <1>3, <1>4, <1>5, <1>7, <1>8, QuietStep

LEMMA ClientGoneLogs ==
  ASSUME IInv, IInv', LogInv, NEW r \in Requests, ClientGone(r)
  PROVE  LogInv'
<1>1. UNCHANGED <<config, phase, id, stages, at, result, text, status, store>>
  BY DEF ClientGone
<1>2. OthersAside(r)
  BY <1>1 DEF OthersAside
<1>3. Ahead(r)'
  BY <1>1 DEF LogInv, Ahead
<1>4. Reach(r) = Reach(r)' /\ (Through(r) <=> Through(r)') /\ Reach(r) \in 0 .. 9
  BY <1>1, ReachBound DEF Reach, Through
<1>6. files' = files /\ id' = id /\ Lines(r)' = Lines(r)
  BY <1>1 DEF Lines, store
<1>7. InStep(r, files[id[r]], Lines(r)) => InStep(r, files[id[r]], Lines(r))'
  BY <1>1, <1>6 DEF InStep
<1>8. Reported(r, files[id[r]], Lines(r)) => Reported(r, files[id[r]], Lines(r))'
  BY <1>1, <1>4, <1>6 DEF Reported
<1> QED BY <1>1, <1>2, <1>3, <1>4, <1>7, <1>8, QuietStep

LEMMA StageReturnsLogs ==
  ASSUME IInv, IInv', LogInv, NEW r \in Requests, StageReturns(r)
  PROVE  LogInv'
<1>1. /\ phase[r] = "call" /\ phase'[r] = "exit"
      /\ \A q \in Requests \ {r} : phase'[q] = phase[q]
      /\ UNCHANGED <<config, id, stages, at, status, gone, store>>
  BY DEF StageReturns, Goto, IInv, TypeOK
<1>2. at[r] \in 1 .. 3 /\ Order[at[r]] \in Stage
  BY <1>1, Stages DEF IInv, RunOK, Order
<1>3. PICK outcome \in {"ok", "failed"} : result' = [result EXCEPT ![r][Order[at[r]]] = outcome]
  BY DEF StageReturns
<1>4. /\ \A q \in Requests \ {r} : result'[q] = result[q]
      /\ result'[r][Order[at[r]]] = outcome
      /\ \A s \in Stage : s # Order[at[r]] => result'[r][s] = result[r][s]
  BY <1>2, <1>3 DEF IInv, TypeOK
<1>5. /\ result[r][Order[at[r]]] = "none"
      /\ \A m \in 1 .. 3 : m > at[r] => result[r][Order[m]] = "none"
      /\ status[r] = "none"
  BY <1>1, <1>2 DEF LogInv, Ahead
<1>6. OthersAside(r)
  BY <1>1, <1>4 DEF OthersAside
<1>7. Ahead(r)'
  <2>1. \A m \in 1 .. 3 : m > at[r] => Order[m] # Order[at[r]] /\ Order[m] \in Stage
    BY <1>2, Stages DEF Order
  <2>2. \A m \in 1 .. 3 : m > at[r] => result'[r][Order[m]] = "none"
    BY <1>4, <1>5, <2>1
  <2>3. at'[r] = at[r] /\ status'[r] = "none"
    BY <1>1, <1>5
  <2>4. result'[r][Order[at'[r]]] # "none"
    BY <1>3, <1>4, <2>3
  <2> QED BY <1>1, <2>2, <2>3, <2>4 DEF Ahead
<1>8. /\ files' = files /\ id' = id /\ Lines(r)' = Lines(r)
      /\ Reach(r) = Reach(r)' /\ Reach(r) \in 0 .. 9 /\ ~Through(r) /\ ~Through(r)'
  BY <1>1, <1>5, ReachBound DEF Lines, store, Reach, Through
<1>9. InStep(r, files[id[r]], Lines(r)) => InStep(r, files[id[r]], Lines(r))'
  BY <1>1, <1>8 DEF InStep, Running
<1>10. Reported(r, files[id[r]], Lines(r)) => Reported(r, files[id[r]], Lines(r))'
  BY <1>1, <1>4, <1>5, <1>8 DEF Reported
<1>11. \A s \in Stage : result[r][s] # "none" => result'[r][s] = result[r][s]
  BY <1>4, <1>5
<1> QED BY <1>1, <1>6, <1>7, <1>8, <1>9, <1>10, <1>11, QuietStep

LEMMA StartLogs ==
  ASSUME IInv, IInv', LogInv, NEW r \in Requests, Start(r)
  PROVE  LogInv'
<1>1. /\ NextDue(r) \in 1 .. 4
      /\ at[r] = 0 /\ status[r] = "none"
  BY NextDueMoves DEF IInv, RunOK, Start, Advance, Goto, LogInv, Ahead
<1>2. /\ phase[r] = "start" /\ phase'[r] \in {"enter", "finish"} /\ at[r] < at'[r]
      /\ \A q \in Requests \ {r} : phase'[q] = phase[q] /\ at'[q] = at[q]
      /\ UNCHANGED <<config, id, result, status>>
  BY <1>1 DEF Start, Advance, Goto, IInv, TypeOK
<1>3. OthersAside(r)
  BY <1>2 DEF OthersAside
<1> DEFINE e == [req |-> r, type |-> "pipeline.start", stage |-> "none"]
<1>4. e \in Event /\ Log(r, "pipeline.start", "none") /\ Logs(r, e) /\ Goes(r, e)
  BY <1>2, EventsTyped DEF Start, Logs, Goes
<1> QED BY <1>1, <1>2, <1>3, <1>4, LoggingStep

LEMMA EnterStageLogs ==
  ASSUME IInv, IInv', LogInv, NEW r \in Requests, EnterStage(r)
  PROVE  LogInv'
<1>1. /\ phase[r] = "enter" /\ phase'[r] = "call"
      /\ \A q \in Requests \ {r} : phase'[q] = phase[q]
      /\ UNCHANGED <<config, id, at, result, status>>
  BY DEF EnterStage, Goto, IInv, TypeOK
<1>2. Order[at[r]] \in Stage /\ status[r] = "none"
  BY <1>1, Stages DEF IInv, RunOK, Order, LogInv, Ahead
<1>3. OthersAside(r)
  BY <1>1 DEF OthersAside
<1> DEFINE e == [req |-> r, type |-> "stage.start", stage |-> Order[at[r]]]
<1>4. e \in Event /\ Log(r, "stage.start", Order[at[r]]) /\ Logs(r, e) /\ Goes(r, e)
  BY <1>1, <1>2, EventsTyped DEF EnterStage, Logs, Goes
<1> QED BY <1>1, <1>2, <1>3, <1>4, LoggingStep

LEMMA AbortRunLogs ==
  ASSUME IInv, IInv', LogInv, NEW r \in Requests, AbortRun(r)
  PROVE  LogInv'
<1>1. /\ phase[r] = "exit" /\ phase'[r] = "answer"
      /\ \A q \in Requests \ {r} : phase'[q] = phase[q]
      /\ UNCHANGED <<config, id, at, result, status>>
      /\ Order[at[r]] = "stt" /\ CurrentFailed(r)
  BY DEF AbortRun, Goto, IInv, TypeOK
<1>2. "stt" \in Stage
  BY Stages
<1>3. OthersAside(r)
  BY <1>1 DEF OthersAside
<1> DEFINE e == [req |-> r, type |-> "stage.error", stage |-> "stt"]
<1>4. e \in Event /\ Log(r, "stage.error", "stt") /\ Logs(r, e) /\ Goes(r, e)
  BY <1>1, <1>2, EventsTyped DEF AbortRun, Logs, Goes, CurrentFailed
<1> QED BY <1>1, <1>3, <1>4, LoggingStep

LEMMA ExitStageLogs ==
  ASSUME IInv, IInv', LogInv, NEW r \in Requests, ExitStage(r)
  PROVE  LogInv'
<1>0. phase[r] = "exit"
  BY DEF ExitStage
<1>1. /\ NextDue(r) \in 1 .. 4
      /\ NextDue(r) # 4 => NextDue(r) > at[r]
      /\ at[r] \in 1 .. 3 /\ status[r] = "none"
  BY <1>0, NextDueMoves DEF IInv, RunOK, LogInv, Ahead
<1>2. /\ phase'[r] \in {"enter", "finish"} /\ at[r] < at'[r]
      /\ \A q \in Requests \ {r} : phase'[q] = phase[q] /\ at'[q] = at[q]
      /\ UNCHANGED <<config, id, result, status>>
      /\ ~(Order[at[r]] = "stt" /\ CurrentFailed(r))
  BY <1>1 DEF ExitStage, Advance, Goto, IInv, TypeOK
<1>3. OthersAside(r)
  BY <1>2 DEF OthersAside
<1>5. Order[at[r]] \in Stage
  BY <1>1, Stages DEF Order
<1> DEFINE t == IF CurrentFailed(r) THEN "stage.error" ELSE "stage.complete"
           e == [req |-> r, type |-> t, stage |-> Order[at[r]]]
<1>4. e \in Event /\ Log(r, t, Order[at[r]]) /\ Logs(r, e) /\ Goes(r, e)
  <2>1. e \in Event
    BY <1>5, EventsTyped
  <2>2. Log(r, t, Order[at[r]])
    BY DEF ExitStage
  <2>3. Logs(r, e) /\ Goes(r, e)
    BY <1>0, <1>2 DEF Logs, Goes
  <2> QED BY <2>1, <2>2, <2>3
<1> QED BY <1>0, <1>1, <1>2, <1>3, <1>4, LoggingStep

LEMMA FinishLogs ==
  ASSUME IInv, IInv', LogInv, NEW r \in Requests, Finish(r)
  PROVE  LogInv'
<1>1. /\ phase[r] = "finish" /\ phase'[r] = "answer"
      /\ \A q \in Requests \ {r} : phase'[q] = phase[q]
      /\ UNCHANGED <<config, id, at, result, status>>
  BY DEF Finish, Goto, IInv, TypeOK
<1>3. OthersAside(r)
  BY <1>1 DEF OthersAside
<1> DEFINE e == [req |-> r, type |-> "pipeline.complete", stage |-> "none"]
<1>4. e \in Event /\ Log(r, "pipeline.complete", "none") /\ Logs(r, e) /\ Goes(r, e)
  BY <1>1, EventsTyped DEF Finish, Logs, Goes
<1> QED BY <1>1, <1>3, <1>4, LoggingStep

(* Lines outlive the process; the runs it takes with it are not answered.  *)
LEMMA RestartLogs ==
  ASSUME IInv, IInv', LogInv, Restart
  PROVE  LogInv'
<1>1. /\ UNCHANGED <<config, id, stages, at, result, text, gone, files, objects, missed>>
      /\ \A r \in Requests :
           IF phase[r] \in {"idle", "done"}
           THEN phase'[r] = phase[r] /\ status'[r] = status[r]
           ELSE phase'[r] = "done" /\ status'[r] = "lost"
  BY DEF Restart, IInv, TypeOK
<1>2. LogTrue'
  <2>1. \A q \in Requests : Through(q) => Through(q)'
    BY <1>1 DEF LogInv, Ahead, Through
  <2> QED BY <1>1, <2>1, LogTrueKept
<1>3. ASSUME NEW r \in Requests
      PROVE  Ahead(r)'
  <2>1. phase'[r] \in {"idle", "done"} /\ (phase'[r] # "done" => phase'[r] = phase[r])
    BY <1>1
  <2> QED BY <1>1, <2>1 DEF LogInv, Ahead
<1>5. ASSUME Local, NEW r \in Requests
      PROVE  RunLogged(r, files[id[r]], Lines(r))'
  <2> DEFINE L == Lines(r)
             f == files[id[r]]
  <2>1. Behind(r, f, L) /\ (r \notin missed => Replay(f, L) /\ InStep(r, f, L) /\ Reported(r, f, L))
    BY <1>5 DEF LogInv, RunLogged, Whole
  <2>2. id' = id /\ files[id[r]]' = f /\ Lines(r)' = L /\ at' = at /\ result' = result
        /\ missed' = missed /\ files' = files
    BY <1>1 DEF Lines
  <2>3. /\ phase'[r] \in {"idle", "done"}
        /\ phase'[r] = "idle" => phase[r] = "idle" /\ status'[r] = status[r]
        /\ status'[r] # "lost" => status'[r] = status[r] /\ phase[r] \in {"idle", "done"}
    BY <1>1
  <2>4. Behind(r, files[id[r]], Lines(r))'
    <3>1. Reach(r) \in 0 .. 9
      BY ReachBound
    <3>2. Reach(r)' \in Nat /\ Reach(r) <= Reach(r)'
      BY <1>1, <3>1 DEF Reach
    <3>3. phase[r] \in {"answer", "done"} => phase'[r] \in {"answer", "done"}
      BY <1>1
    <3> QED BY <2>1, <2>2, <3>1, <3>2, <3>3, BehindOn
  <2> HIDE DEF L, f
  <2>5. r \notin missed => Replay(files[id[r]], Lines(r))'
    BY <2>1, <2>2 DEF Replay, First, Last, Ends
  <2>6. r \notin missed => InStep(r, files[id[r]], Lines(r))'
    BY <2>1, <2>2, <2>3 DEF InStep, Running
  <2>7. r \notin missed => Reported(r, files[id[r]], Lines(r))'
    BY <2>1, <2>2, <2>3 DEF Reported, Through
  <2> QED BY <2>2, <2>4, <2>5, <2>6, <2>7 DEF RunLogged, Whole
<1>6. Local' => Local
  BY <1>1 DEF Local
<1> QED BY <1>2, <1>3, <1>5, <1>6 DEF LogInv

LEMMA NextLogs == IInv /\ IInv' /\ LogInv /\ [Next]_vars => LogInv'
<1> SUFFICES ASSUME IInv, IInv', LogInv, [Next]_vars PROVE LogInv'
  OBVIOUS
<1>1. CASE UNCHANGED vars
  <2>1. UNCHANGED <<config, phase, id, at, result, status, files, objects, missed>>
    BY <1>1 DEF vars, request, store
  <2>2. \A r \in Requests : Lines(r)' = Lines(r)
    BY <2>1 DEF Lines
  <2>3. LogTrue' /\ \A r \in Requests : Ahead(r)'
    BY <2>1, LogTrueKept DEF LogInv, Ahead, Through
  <2>4. Local => \A r \in Requests : RunLogged(r, files[id[r]], Lines(r))'
    BY <2>1, <2>2, LoggedSame DEF LogInv
  <2>5. Local' => Local
    BY <2>1 DEF Local
  <2> QED BY <2>3, <2>4, <2>5 DEF LogInv
<1>2. CASE \E r \in Requests : Accept(r) \/ Reject(r) \/ Handle(r) \/ ClientGone(r)
  <2>1. PICK r \in Requests : Accept(r) \/ Reject(r) \/ Handle(r) \/ ClientGone(r)
    BY <1>2
  <2> QED
    BY <2>1, AcceptLogs, RejectLogs, StartLogs, EnterStageLogs, StageReturnsLogs,
       AbortRunLogs, ExitStageLogs, FinishLogs, AnswerLogs, ClientGoneLogs DEF Handle
<1> QED BY <1>1, <1>2, RestartLogs DEF Next

---------------------------------------------------------------------------
(* The variables keep their types: requests know only stages the handler   *)
(* looks for, and the event log holds only their events.                   *)
THEOREM TypeCorrect == Spec => []TypeOK
<1>1. IInv => TypeOK
  BY DEF IInv
<1> QED
  BY <1>1, Invariance, PTL

(* handlePipeline returns on an STT error before any later stage, and      *)
(* summarises only a transcript of the same request.                       *)
THEOREM LaterStagesFollowSTT == Spec => []LaterStagesNeedSTT
<1>1. IInv => LaterStagesNeedSTT
  <2> SUFFICES ASSUME IInv, NEW r \in Requests
               PROVE  /\ \A s \in {"diarize", "summarize"} :
                           result[r][s] # "none" =>
                             s \in config.urls /\ result[r]["stt"] # "failed"
                      /\ result[r]["summarize"] # "none" => result[r]["stt"] = "ok"
    BY DEF LaterStagesNeedSTT
  <2> QED
    BY DEF IInv, RunOK
<1> QED
  BY <1>1, Invariance, PTL

(* Whatever requests share a file and whenever the process restarts, the   *)
(* local event log only grows at its end.                                  *)
THEOREM LocalLogAppends == Spec => LocalAppendOnly
<1>1. IInv /\ [Next]_vars =>
        (Local => \A i \in Ids : Len(files[i]) <= Len(files'[i])
                                  /\ SubSeq(files'[i], 1, Len(files[i])) = files[i])
  BY NextIInv DEF Kept, Extends
<1> QED
  BY <1>1, Invariance, PTL DEF Spec, LocalAppendOnly

LEMMA LogInvariance == Spec => []LogInv
<1>1. Init => LogInv
  BY InitLog
<1>2. IInv /\ [Next]_vars => IInv'
  BY NextIInv DEF Kept
<1>3. IInv /\ LogInv /\ [Next]_vars => LogInv'
  BY <1>2, NextLogs
<1> QED BY <1>1, <1>3, Invariance, PTL DEF Spec

(* What the handlers write to shared, append-only files, under crashes and *)
(* whatever calls of Log fail, are lines of one run of handlePipeline for  *)
(* each request, in order; where none failed they can be replayed.         *)
THEOREM LogIsReplayed == Spec => []LogReplays
<1>1. LogInv => LogReplays
  BY DEF LogInv, LogReplays, RunLogged, Behind, Whole
<1> QED BY <1>1, LogInvariance, PTL

(* An event that can be read back is true of its request ...               *)
LEMMA HasIsTrue ==
  ASSUME TypeOK, LogInv, NEW r \in Requests, NEW type, NEW stage, Has(r, type, stage)
  PROVE  TrueEvent(id[r], [req |-> r, type |-> type, stage |-> stage])
<1> DEFINE e == [req |-> r, type |-> type, stage |-> stage]
<1>1. id[r] \in Ids
  BY DEF TypeOK
<1>2. CASE [id |-> id[r], event |-> e] \in objects
  BY <1>2 DEF LogInv, LogTrue
<1>3. CASE e \in Range(files[id[r]])
  <2>1. PICK k \in DOMAIN files[id[r]] : files[id[r]][k] = e
    BY <1>3 DEF Range
  <2> QED BY <1>1, <2>1 DEF LogInv, LogTrue
<1> QED BY <1>2, <1>3 DEF Has

(* ... and a line of a request can be read back.                           *)
LEMMA LineIsRead ==
  ASSUME TypeOK, NEW r \in Requests, NEW k \in Lines(r)
  PROVE  Has(r, files[id[r]][k].type, files[id[r]][k].stage)
<1> DEFINE e == files[id[r]][k]
<1>1. id[r] \in Ids /\ k \in DOMAIN files[id[r]] /\ e.req = r /\ e \in Event
  BY DEF TypeOK, Lines
<1>2. e = [req |-> r, type |-> e.type, stage |-> e.stage]
  BY <1>1 DEF Event
<1>3. e \in Range(files[id[r]])
  BY <1>1 DEF Range
<1> QED BY <1>2, <1>3 DEF Has

(* No reader of the event log, local or GCS, learns of an outcome that the *)
(* client was not answered, and the local log tells all of an answered     *)
(* request for which no call of Log failed.                                *)
THEOREM LogTells == Spec => []LogTellsResponse
<1>1. IInv /\ LogInv => LogTellsResponse
  <2> SUFFICES ASSUME IInv, LogInv, NEW r \in Requests
               PROVE
    /\ \A s \in Stage :
         /\ Has(r, "stage.complete", s) => result[r][s] = "ok"
         /\ Has(r, "stage.error", s) => result[r][s] = "failed"
    /\ Has(r, "pipeline.complete", "none") =>
         phase[r] = "answer" \/ status[r] \in {"200", "lost"}
    /\ Local /\ r \notin missed /\ status[r] \in {"200", "502"} =>
         /\ \A s \in Stage :
              /\ result[r][s] = "ok" => Has(r, "stage.complete", s)
              /\ result[r][s] = "failed" => Has(r, "stage.error", s)
         /\ status[r] = "200" => Has(r, "pipeline.complete", "none")
    BY DEF LogTellsResponse
  <2>1. ASSUME NEW s \in Stage
        PROVE  /\ Has(r, "stage.complete", s) => result[r][s] = "ok"
               /\ Has(r, "stage.error", s) => result[r][s] = "failed"
    BY HasIsTrue DEF TrueEvent, IInv
  <2>2. Has(r, "pipeline.complete", "none") =>
          phase[r] = "answer" \/ status[r] \in {"200", "lost"}
    BY HasIsTrue DEF TrueEvent, Through, IInv
  <2>3. ASSUME Local, r \notin missed, status[r] \in {"200", "502"}
        PROVE  /\ \A s \in Stage :
                    /\ result[r][s] = "ok" => Has(r, "stage.complete", s)
                    /\ result[r][s] = "failed" => Has(r, "stage.error", s)
               /\ status[r] = "200" => Has(r, "pipeline.complete", "none")
    <3>1. Reported(r, files[id[r]], Lines(r)) /\ Ahead(r)
      BY <2>3 DEF LogInv, RunLogged, Whole
    <3>2. \A k \in Lines(r) : Has(r, files[id[r]][k].type, files[id[r]][k].stage)
      BY LineIsRead DEF IInv
    <3>3. phase[r] = "done" /\ (status[r] = "200" => Through(r))
      BY <2>3, <3>1 DEF Ahead, Through
    <3> QED BY <2>3, <3>1, <3>2, <3>3 DEF Reported
  <2> QED BY <2>1, <2>2, <2>3
<1> QED BY <1>1, Invariance, LogInvariance, PTL

---------------------------------------------------------------------------
(* The bucket.                                                             *)

StageEvents == {"stage.start", "stage.complete", "stage.error"}

(* Log has been called for this event of r: the stage has started, or has  *)
(* been left with this outcome.                                            *)
Current(r, s) == phase[r] = "exit" /\ s = Order[at[r]]

Said(r, type, s) ==
  \/ type = "stage.start" /\ (result[r][s] # "none" \/ (phase[r] = "call" /\ s = Order[at[r]]))
  \/ type = "stage.complete" /\ result[r][s] = "ok" /\ ~Current(r, s)
  \/ type = "stage.error" /\ result[r][s] = "failed" /\ ~Current(r, s)

LastSaid(r, type, s) ==
  Said(r, type, s) /\ \A t \in Stage : Before(s, t) => ~Said(r, type, t)

Object(r, type, s) == [id |-> id[r], event |-> [req |-> r, type |-> type, stage |-> s]]

(* The bucket has the last event of each type.                             *)
BucketHas(r) ==
  /\ \A type \in StageEvents, s \in Stage : LastSaid(r, type, s) => Object(r, type, s) \in objects
  /\ Through(r) => Object(r, "pipeline.complete", "none") \in objects

Asked(r) == Alone(r) /\ id[r] \notin Unnameable /\ r \notin missed /\ status[r] # "lost"

BucketInv == config.backend = "gcs" => \A r \in Requests : Asked(r) => BucketHas(r)

(* A step makes this event the last of its type, and no other.             *)
Tells(r, type, stage) ==
  /\ \A ty \in StageEvents, s \in Stage :
       LastSaid(r, ty, s)' => (LastSaid(r, ty, s) /\ ty # type) \/ (ty = type /\ s = stage)
  /\ Through(r)' => \/ Through(r) /\ type # "pipeline.complete"
                    \/ type = "pipeline.complete" /\ stage = "none"

LEMMA StillHas ==
  ASSUME NEW q \in Requests, BucketHas(q), id' = id,
         phase'[q] = phase[q], at'[q] = at[q], result'[q] = result[q], status'[q] = status[q],
         \A o \in objects : o.id = id[q] => o \in objects'
  PROVE  BucketHas(q)'
<1>1. \A type, s : /\ Said(q, type, s)' = Said(q, type, s)
                   /\ Object(q, type, s)' = Object(q, type, s)
                   /\ Object(q, type, s).id = id[q]
  BY DEF Said, Current, Object
<1>2. \A type, s : LastSaid(q, type, s)' => LastSaid(q, type, s)
  BY <1>1 DEF LastSaid
<1>3. Through(q)' => Through(q)
  BY DEF Through
<1> QED BY <1>1, <1>2, <1>3 DEF BucketHas

LEMMA UploadKeeps ==
  ASSUME NEW i, NEW e, Upload(i, e)
  PROVE  /\ [id |-> i, event |-> e] \in objects'
         /\ \A o \in objects :
              /\ o.id \notin Unnameable
              /\ o.id # i \/ o.event.type # e.type
              => o \in objects'
BY DEF Upload, SameObject

LEMMA LoggingBucket ==
  ASSUME BucketInv, NEW r \in Requests, NEW type, NEW stage,
         Log(r, type, stage), OthersAside(r), status'[r] = status[r], Tells(r, type, stage)
  PROVE  BucketInv'
<1> DEFINE e == [req |-> r, type |-> type, stage |-> stage]
<1>0. e.req = r /\ e.type = type
  OBVIOUS
<1> HIDE DEF e
<1> SUFFICES ASSUME config.backend = "gcs", NEW q \in Requests, Asked(q)'
             PROVE  BucketHas(q)'
  BY DEF BucketInv, OthersAside
<1>1. LogGCS(id[r], e)
  BY DEF Log, e
<1>2. id' = id /\ missed \subseteq missed' /\ (r \notin missed' => Upload(id[r], e))
  BY <1>0, <1>1 DEF LogGCS, Lose, OthersAside
<1>3. Asked(q) /\ BucketHas(q)
  <2>1. status'[q] = status[q]
    BY DEF OthersAside
  <2>2. Asked(q)
    BY <1>2, <2>1 DEF Asked, Alone
  <2> QED BY <2>2 DEF BucketInv
<1>4. CASE q # r
  <2>1. id[q] # id[r]
    BY <1>3, <1>4 DEF Asked, Alone
  <2>2. Upload(id[r], e) \/ UNCHANGED objects
    BY <1>1 DEF LogGCS
  <2>3. \A o \in objects : o.id = id[q] => o \in objects'
    BY <1>3, <2>1, <2>2, UploadKeeps DEF Asked
  <2>4. /\ phase'[q] = phase[q] /\ at'[q] = at[q]
        /\ result'[q] = result[q] /\ status'[q] = status[q]
    BY <1>4 DEF OthersAside
  <2> QED BY <1>2, <1>3, <2>3, <2>4, StillHas
<1>5. CASE q = r
  <2>1. Upload(id[r], e)
    BY <1>2, <1>5 DEF Asked
  <2>2. /\ Object(r, type, stage) \in objects'
        /\ \A o \in objects : o.id = id[r] /\ o.event.type # type => o \in objects'
    BY <1>0, <1>3, <1>5, <2>1, UploadKeeps DEF Object, Asked, e
  <2>3. \A ty, s : /\ Object(r, ty, s)' = Object(r, ty, s)
                   /\ Object(r, ty, s).event.type = ty /\ Object(r, ty, s).id = id[r]
    BY <1>2 DEF Object
  <2>4. ASSUME NEW ty \in StageEvents, NEW s \in Stage, LastSaid(r, ty, s)'
        PROVE  Object(r, ty, s)' \in objects'
    <3>1. (LastSaid(r, ty, s) /\ ty # type) \/ (ty = type /\ s = stage)
      BY <2>4 DEF Tells
    <3>2. LastSaid(r, ty, s) => Object(r, ty, s) \in objects
      BY <1>3, <1>5 DEF BucketHas
    <3> QED BY <2>2, <2>3, <3>1, <3>2
  <2>5. ASSUME Through(r)'
        PROVE  Object(r, "pipeline.complete", "none")' \in objects'
    <3>1. \/ Through(r) /\ type # "pipeline.complete"
          \/ type = "pipeline.complete" /\ stage = "none"
      BY <2>5 DEF Tells
    <3>2. Through(r) => Object(r, "pipeline.complete", "none") \in objects
      BY <1>3, <1>5 DEF BucketHas
    <3> QED BY <2>2, <2>3, <3>1, <3>2
  <2> QED BY <1>5, <2>4, <2>5 DEF BucketHas
<1> QED BY <1>4, <1>5

LEMMA QuietBucket ==
  ASSUME BucketInv, NEW r \in Requests, OthersAside(r), UNCHANGED store,
         \A ty \in StageEvents, s \in Stage : LastSaid(r, ty, s)' => LastSaid(r, ty, s),
         Through(r)' => Through(r),
         status'[r] # "lost" => status[r] # "lost"
  PROVE  BucketInv'
<1> SUFFICES ASSUME config.backend = "gcs", NEW q \in Requests, Asked(q)'
             PROVE  BucketHas(q)'
  BY DEF BucketInv, OthersAside
<1>1. id' = id /\ objects' = objects /\ missed' = missed
  BY DEF OthersAside, store
<1>2. Asked(q)
  <2>1. status'[q] # "lost" => status[q] # "lost"
    BY DEF OthersAside
  <2> QED BY <1>1, <2>1 DEF Asked, Alone
<1>3. BucketHas(q)
  BY <1>2 DEF BucketInv
<1>4. CASE q # r
  <2>1. /\ phase'[q] = phase[q] /\ at'[q] = at[q]
        /\ result'[q] = result[q] /\ status'[q] = status[q]
    BY <1>4 DEF OthersAside
  <2> QED BY <1>1, <1>3, <2>1, StillHas
<1>5. CASE q = r
  <2>1. \A ty, s : Object(r, ty, s)' = Object(r, ty, s)
    BY <1>1 DEF Object
  <2> QED BY <1>1, <1>3, <1>5, <2>1 DEF BucketHas
<1> QED BY <1>4, <1>5

(* Of the stages that have begun, the one the handler is at is the last.   *)
LEMMA CurrentIsLast ==
  ASSUME IInv, NEW r \in Requests, Ahead(r), at[r] \in 1 .. 3,
         NEW s \in Stage, result[r][s] # "none", s # Order[at[r]]
  PROVE  Before(s, Order[at[r]])
<1>1. DOMAIN Order = 1 .. 3
  BY DEF Order
<1>2. PICK m \in 1 .. 3 : s = Order[m]
  BY <1>1 DEF Stage, Range
<1>3. m < at[r]
  BY <1>2 DEF Ahead
<1> QED BY <1>1, <1>2, <1>3 DEF Before

LEMMA AcceptBucket ==
  ASSUME IInv, LogInv, BucketInv, NEW r \in Requests, Accept(r)
  PROVE  BucketInv'
<1>1. /\ phase[r] = "idle" /\ phase'[r] = "start"
      /\ \A q \in Requests \ {r} : phase'[q] = phase[q]
      /\ UNCHANGED <<config, id, at, result, status, store>>
  BY DEF Accept, Goto, IInv, TypeOK
<1>2. OthersAside(r)
  BY <1>1 DEF OthersAside
<1>3. \A ty, s : Said(r, ty, s)' <=> Said(r, ty, s)
  BY <1>1 DEF Said, Current
<1> QED BY <1>1, <1>2, <1>3, QuietBucket DEF LastSaid, Through

LEMMA RejectBucket ==
  ASSUME IInv, LogInv, BucketInv, NEW r \in Requests, Reject(r)
  PROVE  BucketInv'
<1>1. /\ phase[r] = "idle" /\ phase'[r] = "done" /\ status'[r] \in {"400", "500"}
      /\ \A q \in Requests \ {r} : phase'[q] = phase[q] /\ status'[q] = status[q]
      /\ UNCHANGED <<config, id, at, result, store>>
  BY DEF Reject, Goto, IInv, TypeOK
<1>2. OthersAside(r)
  BY <1>1 DEF OthersAside
<1>3. status[r] = "none" /\ ~Through(r)'
  BY <1>1 DEF LogInv, Ahead, Through
<1>4. \A ty, s : Said(r, ty, s)' <=> Said(r, ty, s)
  BY <1>1 DEF Said, Current
<1> QED BY <1>1, <1>2, <1>3, <1>4, QuietBucket DEF LastSaid

LEMMA StartBucket ==
  ASSUME IInv, LogInv, BucketInv, NEW r \in Requests, Start(r)
  PROVE  BucketInv'
<1>1. /\ phase[r] = "start" /\ phase'[r] \in {"enter", "finish"}
      /\ \A q \in Requests \ {r} : phase'[q] = phase[q] /\ at'[q] = at[q]
      /\ UNCHANGED <<config, id, result, status>> /\ Log(r, "pipeline.start", "none")
  BY DEF Start, Advance, Goto, IInv, TypeOK
<1>2. OthersAside(r)
  BY <1>1 DEF OthersAside
<1>3. ~Through(r)'
  BY <1>1 DEF LogInv, Ahead, Through
<1>4. \A ty, s : Said(r, ty, s)' <=> Said(r, ty, s)
  BY <1>1 DEF Said, Current
<1>5. Tells(r, "pipeline.start", "none")
  BY <1>3, <1>4 DEF Tells, LastSaid, StageEvents
<1> QED BY <1>1, <1>2, <1>5, LoggingBucket

LEMMA EnterStageBucket ==
  ASSUME IInv, LogInv, BucketInv, NEW r \in Requests, EnterStage(r)
  PROVE  BucketInv'
<1>0. PICK s0 : s0 = Order[at[r]]
  OBVIOUS
<1>1. /\ phase[r] = "enter" /\ phase'[r] = "call"
      /\ \A q \in Requests \ {r} : phase'[q] = phase[q]
      /\ UNCHANGED <<config, id, at, result, status>> /\ Log(r, "stage.start", s0)
  BY <1>0 DEF EnterStage, Goto, IInv, TypeOK
<1>2. OthersAside(r)
  BY <1>1 DEF OthersAside
<1>3. at[r] \in 1 .. 3 /\ s0 \in Stage /\ Ahead(r)
  BY <1>0, <1>1, Stages DEF IInv, RunOK, Order, LogInv
<1>4. ~Through(r)'
  BY <1>1, <1>3 DEF Ahead, Through
<1>5. ASSUME NEW ty \in StageEvents, NEW s \in Stage, LastSaid(r, ty, s)'
      PROVE  (LastSaid(r, ty, s) /\ ty # "stage.start") \/ (ty = "stage.start" /\ s = s0)
  <2>1. CASE ty = "stage.start"
    <3>1. Said(r, ty, s0)'
      BY <1>0, <1>1, <2>1 DEF Said
    <3>2. s = s0 \/ result[r][s] # "none"
      BY <1>0, <1>1, <1>5, <2>1 DEF LastSaid, Said
    <3>3. s # s0 => Before(s, s0)
      BY <1>0, <1>3, <3>2, CurrentIsLast
    <3> QED BY <1>3, <1>5, <2>1, <3>1, <3>3 DEF LastSaid
  <2>2. CASE ty # "stage.start"
    <3>1. \A t : Said(r, ty, t)' <=> Said(r, ty, t)
      BY <1>1, <2>2 DEF Said, Current
    <3> QED BY <1>5, <2>2, <3>1 DEF LastSaid
  <2> QED BY <2>1, <2>2
<1>6. Tells(r, "stage.start", s0)
  BY <1>4, <1>5 DEF Tells
<1> QED BY <1>1, <1>2, <1>6, LoggingBucket

LEMMA StageReturnsBucket ==
  ASSUME IInv, LogInv, BucketInv, NEW r \in Requests, StageReturns(r)
  PROVE  BucketInv'
<1> DEFINE s0 == Order[at[r]]
<1>1. /\ phase[r] = "call" /\ phase'[r] = "exit"
      /\ \A q \in Requests \ {r} : phase'[q] = phase[q]
      /\ UNCHANGED <<config, id, at, status, store>>
  BY DEF StageReturns, Goto, IInv, TypeOK
<1>2. at[r] \in 1 .. 3 /\ s0 \in Stage
  BY <1>1, Stages DEF IInv, RunOK, Order
<1>3. PICK outcome \in {"ok", "failed"} : result' = [result EXCEPT ![r][s0] = outcome]
  BY DEF StageReturns
<1>4. /\ \A q \in Requests \ {r} : result'[q] = result[q]
      /\ result'[r][s0] \in {"ok", "failed"}
      /\ \A s \in Stage : s # s0 => result'[r][s] = result[r][s]
  BY <1>2, <1>3 DEF IInv, TypeOK
<1>5. OthersAside(r)
  BY <1>1, <1>4 DEF OthersAside
<1>6. ~Through(r)'
  BY <1>1 DEF LogInv, Ahead, Through
<1>7. result[r][s0] = "none"
  BY <1>1, <1>2 DEF LogInv, Ahead
<1>8. \A ty : \A s \in Stage : Said(r, ty, s)' <=> Said(r, ty, s)
  <2>1. ASSUME NEW ty, NEW s \in Stage, s = s0
        PROVE  Said(r, ty, s)' <=> Said(r, ty, s)
    BY <1>1, <1>4, <1>7, <2>1 DEF Said, Current
  <2>2. ASSUME NEW ty, NEW s \in Stage, s # s0
        PROVE  Said(r, ty, s)' <=> Said(r, ty, s)
    BY <1>1, <1>4, <2>2 DEF Said, Current
  <2> QED BY <2>1, <2>2
<1>9. \A ty \in StageEvents, s \in Stage : LastSaid(r, ty, s)' => LastSaid(r, ty, s)
  BY <1>8 DEF LastSaid
<1> QED BY <1>1, <1>5, <1>6, <1>9, QuietBucket

(* A stage is left: with the outcome it had, it is the last so far.        *)
LEMMA LeaveTells ==
  ASSUME IInv, LogInv, NEW r \in Requests, phase[r] = "exit",
         phase'[r] \notin {"call", "exit", "answer"} \/ (phase'[r] = "answer" /\ result[r]["stt"] = "failed"),
         UNCHANGED <<result, status>>,
         NEW type, type = IF CurrentFailed(r) THEN "stage.error" ELSE "stage.complete"
  PROVE  Tells(r, type, Order[at[r]])
<1>0. PICK s0 : s0 = Order[at[r]]
  OBVIOUS
<1>1. at[r] \in 1 .. 3 /\ s0 \in Stage /\ Ahead(r)
  BY <1>0, Stages DEF IInv, RunOK, Order, LogInv
<1>2. ~Through(r)'
  BY <1>1 DEF Ahead, Through
<1>3. result[r][s0] \in {"ok", "failed"} /\ (type = "stage.error" <=> result[r][s0] = "failed")
  BY <1>0, <1>1 DEF Ahead, IInv, TypeOK, CurrentFailed
<1>4. ASSUME NEW ty \in StageEvents, NEW s \in Stage, LastSaid(r, ty, s)'
      PROVE  (LastSaid(r, ty, s) /\ ty # type) \/ (ty = type /\ s = s0)
  <2>1. CASE ty = type
    <3>1. Said(r, ty, s0)'
      BY <1>3, <2>1 DEF Said, Current
    <3>2. result[r][s] # "none"
      BY <1>4, <2>1 DEF LastSaid, Said
    <3>3. s # s0 => Before(s, s0)
      BY <1>1, <3>2, <1>0, CurrentIsLast
    <3> QED BY <1>1, <1>4, <2>1, <3>1, <3>3 DEF LastSaid
  <2>2. CASE ty # type
    <3>1. ASSUME NEW t \in Stage PROVE Said(r, ty, t)' <=> Said(r, ty, t)
      BY <1>0, <1>3, <2>2 DEF Said, Current, StageEvents
    <3> QED BY <1>4, <2>2, <3>1 DEF LastSaid
  <2> QED BY <2>1, <2>2
<1> QED BY <1>0, <1>2, <1>4 DEF Tells

LEMMA AbortRunBucket ==
  ASSUME IInv, LogInv, BucketInv, NEW r \in Requests, AbortRun(r)
  PROVE  BucketInv'
<1>1. /\ phase[r] = "exit" /\ phase'[r] = "answer"
      /\ \A q \in Requests \ {r} : phase'[q] = phase[q]
      /\ UNCHANGED <<config, id, at, result, status>> /\ Log(r, "stage.error", "stt")
      /\ Order[at[r]] = "stt" /\ CurrentFailed(r)
  BY DEF AbortRun, Goto, IInv, TypeOK
<1>2. OthersAside(r)
  BY <1>1 DEF OthersAside
<1>3. Tells(r, "stage.error", "stt")
  BY <1>1, LeaveTells DEF CurrentFailed
<1> QED BY <1>1, <1>2, <1>3, LoggingBucket

LEMMA ExitStageBucket ==
  ASSUME IInv, LogInv, BucketInv, NEW r \in Requests, ExitStage(r)
  PROVE  BucketInv'
<1> DEFINE t == IF CurrentFailed(r) THEN "stage.error" ELSE "stage.complete"
<1>1. /\ phase[r] = "exit" /\ phase'[r] \in {"enter", "finish"}
      /\ \A q \in Requests \ {r} : phase'[q] = phase[q] /\ at'[q] = at[q]
      /\ UNCHANGED <<config, id, result, status>> /\ Log(r, t, Order[at[r]])
  BY DEF ExitStage, Advance, Goto, IInv, TypeOK
<1>2. OthersAside(r)
  BY <1>1 DEF OthersAside
<1>3. Tells(r, t, Order[at[r]])
  BY <1>1, LeaveTells
<1> QED BY <1>1, <1>2, <1>3, LoggingBucket

LEMMA FinishBucket ==
  ASSUME IInv, LogInv, BucketInv, NEW r \in Requests, Finish(r)
  PROVE  BucketInv'
<1>1. /\ phase[r] = "finish" /\ phase'[r] = "answer"
      /\ \A q \in Requests \ {r} : phase'[q] = phase[q]
      /\ UNCHANGED <<config, id, at, result, status>> /\ Log(r, "pipeline.complete", "none")
  BY DEF Finish, Goto, IInv, TypeOK
<1>2. OthersAside(r)
  BY <1>1 DEF OthersAside
<1>3. \A ty, s : Said(r, ty, s)' <=> Said(r, ty, s)
  BY <1>1 DEF Said, Current
<1>4. Tells(r, "pipeline.complete", "none")
  BY <1>3 DEF Tells, LastSaid, StageEvents
<1> QED BY <1>1, <1>2, <1>4, LoggingBucket

LEMMA AnswerBucket ==
  ASSUME IInv, LogInv, BucketInv, NEW r \in Requests, Answer(r)
  PROVE  BucketInv'
<1>1. /\ phase[r] = "answer" /\ phase'[r] = "done"
      /\ status'[r] = IF result[r]["stt"] = "failed" THEN "502" ELSE "200"
      /\ \A q \in Requests \ {r} : phase'[q] = phase[q] /\ status'[q] = status[q]
      /\ UNCHANGED <<config, id, at, result, store>>
  BY DEF Answer, Goto, IInv, TypeOK
<1>2. OthersAside(r)
  BY <1>1 DEF OthersAside
<1>3. status[r] = "none" /\ (Through(r)' => Through(r))
  BY <1>1 DEF LogInv, Ahead, Through
<1>4. \A ty, s : Said(r, ty, s)' <=> Said(r, ty, s)
  BY <1>1 DEF Said, Current
<1> QED BY <1>1, <1>2, <1>3, <1>4, QuietBucket DEF LastSaid

LEMMA SameBucket ==
  ASSUME BucketInv, config' = config, id' = id, objects' = objects, missed' = missed,
         \A q \in Requests : \/ /\ phase'[q] = phase[q] /\ at'[q] = at[q]
                                /\ result'[q] = result[q] /\ status'[q] = status[q]
                             \/ status'[q] = "lost"
  PROVE  BucketInv'
<1> SUFFICES ASSUME config.backend = "gcs", NEW q \in Requests, Asked(q)'
             PROVE  BucketHas(q)'
  BY DEF BucketInv
<1>1. /\ phase'[q] = phase[q] /\ at'[q] = at[q]
      /\ result'[q] = result[q] /\ status'[q] = status[q]
  BY DEF Asked
<1>2. Asked(q)
  BY <1>1 DEF Asked, Alone
<1> QED BY <1>1, <1>2, StillHas DEF BucketInv

LEMMA NextBucket == IInv /\ LogInv /\ BucketInv /\ [Next]_vars => BucketInv'
<1> SUFFICES ASSUME IInv, LogInv, BucketInv, [Next]_vars PROVE BucketInv'
  OBVIOUS
<1>1. CASE UNCHANGED vars
  BY <1>1, SameBucket DEF vars, request, store
<1>2. CASE \E r \in Requests : Accept(r) \/ Reject(r) \/ Handle(r) \/ ClientGone(r)
  <2>1. PICK r \in Requests : Accept(r) \/ Reject(r) \/ Handle(r) \/ ClientGone(r)
    BY <1>2
  <2>2. CASE ClientGone(r)
    BY <2>2, SameBucket DEF ClientGone, store
  <2> QED
    BY <2>1, <2>2, AcceptBucket, RejectBucket, StartBucket, EnterStageBucket, StageReturnsBucket,
       AbortRunBucket, ExitStageBucket, FinishBucket, AnswerBucket DEF Handle
<1>3. CASE Restart
  <2>1. /\ UNCHANGED <<config, id, at, result, objects, missed>>
        /\ \A q \in Requests :
             IF phase[q] \in {"idle", "done"}
             THEN phase'[q] = phase[q] /\ status'[q] = status[q]
             ELSE status'[q] = "lost"
    BY <1>3 DEF Restart, IInv, TypeOK
  <2> QED BY <2>1, SameBucket
<1> QED BY <1>1, <1>2, <1>3 DEF Next

(* In a bucket where one object stands for all events of a type, an        *)
(* answered request whose ID is its own and whose uploads all succeeded    *)
(* has the last start, the last completion, the last error and, if it got  *)
(* through, the completion of the run.                                     *)
THEOREM BucketTells == Spec => []BucketTellsLast
<1>1. Init => BucketInv
  BY DEF Init, BucketInv, BucketHas, LastSaid, Said, Through, StageEvents
<1>2. IInv /\ LogInv /\ BucketInv => BucketTellsLast
  <2> SUFFICES ASSUME IInv, LogInv, BucketInv, NEW r \in Requests,
                      config.backend = "gcs", r \notin missed, Alone(r), id[r] \notin Unnameable,
                      status[r] \in {"200", "502"}
               PROVE
    /\ \A s \in Stage :
         /\ LastWith(r, {"ok", "failed"}, s) => Has(r, "stage.start", s)
         /\ LastWith(r, {"ok"}, s) => Has(r, "stage.complete", s)
         /\ LastWith(r, {"failed"}, s) => Has(r, "stage.error", s)
    /\ status[r] = "200" <=> Has(r, "pipeline.complete", "none")
    BY DEF BucketTellsLast
  <2>1. BucketHas(r)
    BY DEF BucketInv, Asked
  <2>2. phase[r] = "done" /\ (Through(r) <=> status[r] = "200")
    BY DEF LogInv, Ahead, Through
  <2>3. \A type, s : Object(r, type, s) \in objects => Has(r, type, s)
    BY DEF Object, Has
  <2>4. ASSUME NEW s \in Stage
        PROVE  /\ LastWith(r, {"ok", "failed"}, s) => Has(r, "stage.start", s)
               /\ LastWith(r, {"ok"}, s) => Has(r, "stage.complete", s)
               /\ LastWith(r, {"failed"}, s) => Has(r, "stage.error", s)
    <3>1. \A t \in Stage : result[r][t] \in {"none", "ok", "failed"}
      BY DEF IInv, TypeOK
    <3>2. \A t \in Stage : /\ Said(r, "stage.start", t) <=> result[r][t] \in {"ok", "failed"}
                           /\ Said(r, "stage.complete", t) <=> result[r][t] \in {"ok"}
                           /\ Said(r, "stage.error", t) <=> result[r][t] \in {"failed"}
      BY <2>2, <3>1 DEF Said, Current
    <3>3. /\ LastWith(r, {"ok", "failed"}, s) => LastSaid(r, "stage.start", s)
          /\ LastWith(r, {"ok"}, s) => LastSaid(r, "stage.complete", s)
          /\ LastWith(r, {"failed"}, s) => LastSaid(r, "stage.error", s)
      BY <3>2 DEF LastWith, LastSaid
    <3> QED BY <2>1, <2>3, <3>3 DEF BucketHas, StageEvents
  <2>5. status[r] = "200" => Has(r, "pipeline.complete", "none")
    BY <2>1, <2>2, <2>3 DEF BucketHas
  <2>6. Has(r, "pipeline.complete", "none") => status[r] = "200"
    BY <2>2, HasIsTrue DEF TrueEvent, IInv
  <2> QED BY <2>4, <2>5, <2>6
<1> QED BY <1>1, <1>2, NextBucket, Invariance, LogInvariance, PTL DEF Spec
============================================================================
