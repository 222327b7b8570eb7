------------------------- MODULE EvalHarnessProofs -------------------------
(***************************************************************************)
(* Theorems about EvalHarness, for datasets of any size, any tokens, any   *)
(* answers of the gateway and any threshold.                               *)
(***************************************************************************)
EXTENDS EvalHarness, FiniteSetTheorems, WellFoundedInduction, TLAPS

(* Adding the next position to a set of positions adds one to its size.    *)
LEMMA NextPosition ==
  ASSUME NEW n \in Nat, NEW A, A \subseteq 1 .. n
  PROVE  /\ Cardinality(A) \in Nat
         /\ Cardinality(A \cup {n + 1}) = Cardinality(A) + 1
<1>1. IsFiniteSet(1 .. n)
  BY FS_Interval
<1>2. IsFiniteSet(A)
  BY <1>1, FS_Subset
<1>3. n + 1 \notin A
  OBVIOUS
<1> QED BY <1>2, <1>3, FS_CardinalityType, FS_AddElement

---------------------------------------------------------------------------
(* The exit code.                                                          *)

(* There is a verdict from Aggregate on, a report once SaveAs has written  *)
(* it, an exit code at the end.                                            *)
ExitInv ==
  /\ reportPath \in BOOLEAN /\ stdout \in {"sound", "breaks"}
  /\ exit \in {"none", "0", "1", "120"} /\ (exit = "none" <=> pc # "done")
  /\ verdict \in {"none", "passed", "failed"}
  /\ pc \in {"load", "transcribe", "aggregate"} => verdict = "none" /\ report = "none"
  /\ pc \in {"save", "saveAs"} => verdict # "none" /\ report = "none"
  /\ pc = "exit" => verdict # "none" /\ report = IF reportPath THEN verdict ELSE "none"
  /\ exit = "0" => verdict = "passed" /\ (reportPath => report = "passed")
  /\ exit \in {"1", "120"} => report # "passed" \/ stdout = "breaks"
  /\ report = "failed" => verdict = "failed"

(* The process ends with exit code 0 only on a verdict of passed and with  *)
(* the report it owes.  Whoever finds a whole report that failed finds no  *)
(* 0 beside it, and none but 0 beside one that passed, unless a print, or  *)
(* the flush at the end, has raised.                                       *)
THEOREM ExitTellsReport == Spec => []ExitMatchesReport
<1>1. Init => ExitInv
  BY DEF Init, ExitInv
<1>2. ExitInv /\ [Next]_vars => ExitInv'
  <2> SUFFICES ASSUME ExitInv, [Next]_vars PROVE ExitInv'
    OBVIOUS
  <2>1. CASE LoadDataset
    BY <2>1 DEF LoadDataset, Abort, Leave, ExitInv, inputs
  <2>2. CASE Transcribe
    BY <2>2 DEF Transcribe, ExitInv, inputs
  <2>3. CASE LoopEnds
    BY <2>3 DEF LoopEnds, ExitInv, inputs
  <2>4. CASE Aggregate
    BY <2>4 DEF Aggregate, Abort, Leave, ExitInv, inputs
  <2>5. CASE Save
    BY <2>5 DEF Save, Abort, Leave, ExitInv, inputs
  <2>6. CASE SaveAs
    BY <2>6 DEF SaveAs, Abort, Leave, ExitInv, inputs
  <2>7. CASE Exit
    BY <2>7 DEF Exit, Leave, ExitInv, inputs
  <2>8. CASE PrintRaises
    BY <2>8 DEF PrintRaises, Abort, Leave, ExitInv, inputs
  <2>9. CASE UNCHANGED vars
    BY <2>9 DEF vars, ExitInv
  <2> QED
    BY <2>1, <2>2, <2>3, <2>4, <2>5, <2>6, <2>7, <2>8, <2>9 DEF Next
<1>3. ExitInv => ExitMatchesReport
  BY DEF ExitInv, ExitMatchesReport
<1> QED BY <1>1, <1>2, <1>3, PTL DEF Spec

---------------------------------------------------------------------------
(* The samples.                                                            *)

(* The samples of the manifest behind us, and how often a text is one.     *)
Done == Len(manifest) - Len(todo)

Given(t, n) == {i \in 1 .. n : manifest[i].text = t}
Measured(t) == {i \in DOMAIN metrics : metrics[i].truth = t}
Refused(t)  == {i \in DOMAIN errors : errors[i] = t}

Counted ==
  /\ Accounts(Done, Len(metrics), Len(errors))
  /\ \A t \in Text : Accounts(Cardinality(Given(t, Done)),
                               Cardinality(Measured(t)), Cardinality(Refused(t)))

(* The metric of an answer: its rate is that of its two texts.             *)
Rated == {[truth |-> t, prediction |-> p, wer |-> ComputeWER(t, p)] : t \in Text, p \in Text}

(* What is still to do is the rest of the manifest, and what is done has   *)
(* been counted.                                                           *)
SampleInv ==
  /\ manifest \in Manifests
  /\ todo \in Seq(Text) /\ errors \in Seq(Text)
  /\ metrics \in Seq(Rated)
  /\ pc = "load" => metrics = <<>> /\ errors = <<>>
  /\ pc \in {"transcribe", "aggregate"} \/ verdict # "none" =>
       /\ Len(todo) <= Len(manifest)
       /\ \A i \in 1 .. Len(todo) : todo[i] = manifest[Done + i].text
       /\ Counted
  /\ pc = "aggregate" \/ verdict # "none" => todo = <<>>
  /\ pc \in {"load", "transcribe", "aggregate"} => verdict = "none"

LEMMA ManifestTyped ==
  ASSUME manifest \in Manifests
  PROVE  /\ Len(manifest) \in Nat /\ DOMAIN manifest = 1 .. Len(manifest)
         /\ \A i \in 1 .. Len(manifest) : manifest[i].text \in Text
<1> DEFINE Row == [text : Text, audio : BOOLEAN]
<1>1. manifest \in Seq(Row)
  BY InputsAssumption
<1>2. \A m \in Row : m.text \in Text
  OBVIOUS
<1> HIDE DEF Row
<1>3. /\ Len(manifest) \in Nat /\ DOMAIN manifest = 1 .. Len(manifest)
      /\ \A i \in 1 .. Len(manifest) : manifest[i] \in Row
  BY <1>1
<1> QED BY <1>2, <1>3

LEMMA LoadDatasetCounts ==
  ASSUME SampleInv, LoadDataset
  PROVE  SampleInv'
<1>1. /\ Len(manifest) \in Nat /\ DOMAIN manifest = 1 .. Len(manifest)
      /\ \A i \in 1 .. Len(manifest) : manifest[i].text \in Text
  BY ManifestTyped DEF SampleInv
<1>2. CASE /\ todo' = [i \in DOMAIN manifest |-> manifest[i].text]
           /\ pc' = "transcribe"
  <2>1. /\ todo' \in Seq(Text) /\ Len(todo') = Len(manifest)
        /\ \A i \in 1 .. Len(todo') : todo'[i] = manifest[i].text
    BY <1>1, <1>2
  <2>2. /\ UNCHANGED <<manifest, metrics, errors, verdict>>
        /\ metrics = <<>> /\ errors = <<>> /\ verdict = "none"
    BY DEF LoadDataset, inputs, SampleInv
  <2>3. Done' = 0
    BY <1>1, <2>1, <2>2 DEF Done
  <2>4. Counted'
    <3>1. \A t : Given(t, Done)' = {} /\ Measured(t)' = {} /\ Refused(t)' = {}
      BY <2>2, <2>3 DEF Given, Measured, Refused
    <3>2. Len(metrics') = 0 /\ Len(errors') = 0 /\ Cardinality({}) = 0
      BY <2>2, FS_EmptySet
    <3>3. ASSUME NEW t \in Text
          PROVE  Accounts(Cardinality(Given(t, Done)),
                          Cardinality(Measured(t)), Cardinality(Refused(t)))'
      <4>1. Given(t, Done)' = {} /\ Measured(t)' = {} /\ Refused(t)' = {}
        BY <3>1
      <4> QED BY <3>2, <4>1 DEF Accounts
    <3>4. Accounts(Done, Len(metrics), Len(errors))'
      BY <2>3, <3>2 DEF Accounts
    <3> QED BY <3>3, <3>4 DEF Counted
  <2> QED BY <1>1, <1>2, <2>1, <2>2, <2>3, <2>4 DEF SampleInv
<1>3. CASE pc' = "done" /\ UNCHANGED todo
  BY <1>3 DEF LoadDataset, inputs, SampleInv
<1> QED BY <1>2, <1>3 DEF LoadDataset, Abort, Leave

(* A metric more is a sample more that is measured, an error more one more *)
(* that is refused.                                                        *)
LEMMA MetricMore ==
  ASSUME metrics \in Seq(Rated), NEW m \in Rated, metrics' = Append(metrics, m)
  PROVE  /\ metrics' \in Seq(Rated)
         /\ Len(metrics) \in Nat /\ Len(metrics') = Len(metrics) + 1
         /\ \A t \in Text : Cardinality(Measured(t))' =
                              Cardinality(Measured(t)) + IF t = m.truth THEN 1 ELSE 0
<1>1. /\ metrics' \in Seq(Rated)
      /\ Len(metrics) \in Nat /\ Len(metrics') = Len(metrics) + 1
      /\ DOMAIN metrics = 1 .. Len(metrics) /\ DOMAIN metrics' = 1 .. Len(metrics) + 1
      /\ metrics'[Len(metrics) + 1] = m
      /\ \A i \in 1 .. Len(metrics) : metrics'[i] = metrics[i]
  OBVIOUS
<1>2. ASSUME NEW t \in Text
      PROVE  Cardinality(Measured(t))' = Cardinality(Measured(t)) + IF t = m.truth THEN 1 ELSE 0
  <2>1. Measured(t) \subseteq 1 .. Len(metrics)
    BY <1>1 DEF Measured
  <2>2. Measured(t)' = IF t = m.truth THEN Measured(t) \cup {Len(metrics) + 1} ELSE Measured(t)
    BY <1>1, <2>1 DEF Measured
  <2>3. /\ Cardinality(Measured(t)) \in Nat
        /\ Cardinality(Measured(t) \cup {Len(metrics) + 1}) = Cardinality(Measured(t)) + 1
    BY <1>1, <2>1, NextPosition
  <2> QED BY <2>2, <2>3
<1> QED BY <1>1, <1>2

LEMMA ErrorMore ==
  ASSUME errors \in Seq(Text), NEW truth \in Text, errors' = Append(errors, truth)
  PROVE  /\ errors' \in Seq(Text)
         /\ Len(errors) \in Nat /\ Len(errors') = Len(errors) + 1
         /\ \A t \in Text : Cardinality(Refused(t))' =
                              Cardinality(Refused(t)) + IF t = truth THEN 1 ELSE 0
<1>1. /\ errors' \in Seq(Text)
      /\ Len(errors) \in Nat /\ Len(errors') = Len(errors) + 1
      /\ DOMAIN errors = 1 .. Len(errors) /\ DOMAIN errors' = 1 .. Len(errors) + 1
      /\ errors'[Len(errors) + 1] = truth
      /\ \A i \in 1 .. Len(errors) : errors'[i] = errors[i]
  OBVIOUS
<1>2. ASSUME NEW t \in Text
      PROVE  Cardinality(Refused(t))' = Cardinality(Refused(t)) + IF t = truth THEN 1 ELSE 0
  <2>1. Refused(t) \subseteq 1 .. Len(errors)
    BY <1>1 DEF Refused
  <2>2. Refused(t)' = IF t = truth THEN Refused(t) \cup {Len(errors) + 1} ELSE Refused(t)
    BY <1>1, <2>1 DEF Refused
  <2>3. /\ Cardinality(Refused(t)) \in Nat
        /\ Cardinality(Refused(t) \cup {Len(errors) + 1}) = Cardinality(Refused(t)) + 1
    BY <1>1, <2>1, NextPosition
  <2> QED BY <2>2, <2>3
<1> QED BY <1>1, <1>2

(* The counts after one sample more: measured, refused or, where a print   *)
(* raised, both.                                                           *)
LEMMA AccountsMore ==
  ASSUME NEW g \in Nat, NEW m \in Nat, NEW r \in Nat, Accounts(g, m, r),
         NEW x \in {0, 1}, NEW y \in {0, 1}, x = 1 \/ y = 1,
         stdout = "sound" => x + y = 1
  PROVE  Accounts(g + 1, m + x, r + y)
BY DEF Accounts

(* One more sample behind us, one more metric or one more error.           *)
LEMMA TranscribeCounts ==
  ASSUME SampleInv, Transcribe
  PROVE  SampleInv'
<1> DEFINE truth == Head(todo)
           n == Done
<1>1. /\ Len(manifest) \in Nat /\ DOMAIN manifest = 1 .. Len(manifest)
      /\ \A i \in 1 .. Len(manifest) : manifest[i].text \in Text
  BY ManifestTyped DEF SampleInv
<1>2. /\ pc = "transcribe" /\ todo # <<>> /\ todo' = Tail(todo)
      /\ UNCHANGED <<manifest, stdout, pc, verdict>>
  BY DEF Transcribe, inputs
<1>3. /\ todo \in Seq(Text) /\ truth \in Text
      /\ errors \in Seq(Text) /\ metrics \in Seq(Rated)
      /\ Len(todo) \in Nat /\ Len(todo) > 0 /\ Len(todo) <= Len(manifest)
      /\ \A i \in 1 .. Len(todo) : todo[i] = manifest[Done + i].text
      /\ Counted /\ verdict = "none"
  BY <1>2 DEF SampleInv
<1>4. /\ todo' \in Seq(Text) /\ Len(todo') = Len(todo) - 1
      /\ \A i \in 1 .. Len(todo) - 1 : todo'[i] = todo[i + 1]
  BY <1>2, <1>3
<1>5. n \in Nat /\ n < Len(manifest) /\ Done' = n + 1
  BY <1>1, <1>2, <1>3, <1>4 DEF Done
<1>6. truth = manifest[n + 1].text
  BY <1>3
<1>7. ASSUME NEW i \in 1 .. Len(todo') PROVE todo'[i] = manifest[Done' + i].text
  <2>1. i \in 1 .. Len(todo) - 1 /\ i + 1 \in 1 .. Len(todo) /\ n + (i + 1) = Done' + i
    BY <1>3, <1>4, <1>5
  <2> QED BY <1>3, <1>4, <2>1
<1>8. /\ \/ UNCHANGED metrics
         \/ \E m \in Rated : m.truth = truth /\ metrics' = Append(metrics, m)
      /\ UNCHANGED errors \/ errors' = Append(errors, truth)
      /\ UNCHANGED metrics => errors' = Append(errors, truth)
      /\ stdout = "sound" => UNCHANGED metrics \/ UNCHANGED errors
  <2>1. Predictions \subseteq Text
    BY InputsAssumption
  <2>2. \A p \in Predictions :
          LET m == [truth |-> truth, prediction |-> p, wer |-> ComputeWER(truth, p)]
          IN m \in Rated /\ m.truth = truth
    BY <1>3, <2>1 DEF Rated
  <2>3. \/ /\ \E m \in Rated : m.truth = truth /\ metrics' = Append(metrics, m)
           /\ UNCHANGED errors \/ (stdout = "breaks" /\ errors' = Append(errors, truth))
        \/ UNCHANGED metrics /\ errors' = Append(errors, truth)
    BY <2>2 DEF Transcribe, RecordError
  <2>4. \A m : metrics' = Append(metrics, m) => metrics' # metrics
    <3>1. \A m : Len(Append(metrics, m)) = Len(metrics) + 1 /\ Len(metrics) \in Nat
      BY <1>3
    <3> QED BY <3>1
  <2> QED BY <2>3, <2>4
<1> HIDE DEF truth, n
<1> DEFINE x == IF UNCHANGED metrics THEN 0 ELSE 1
           y == IF UNCHANGED errors THEN 0 ELSE 1
<1>9. /\ metrics' \in Seq(Rated) /\ Len(metrics) \in Nat /\ Len(metrics') = Len(metrics) + x
      /\ \A t \in Text : Cardinality(Measured(t))' =
                           Cardinality(Measured(t)) + IF t = truth THEN x ELSE 0
  <2>1. CASE UNCHANGED metrics
    <3>1. \A t \in Text : Measured(t)' = Measured(t) /\ Cardinality(Measured(t)) \in Nat
      <4>1. \A t \in Text : Len(metrics) \in Nat /\ Measured(t) \subseteq 1 .. Len(metrics)
        BY <1>3 DEF Measured
      <4> QED BY <2>1, <4>1, NextPosition DEF Measured
    <3> QED BY <1>3, <2>1, <3>1
  <2>2. CASE ~UNCHANGED metrics
    <3>1. PICK m \in Rated : m.truth = truth /\ metrics' = Append(metrics, m)
      BY <1>8, <2>2
    <3> QED BY <1>3, <2>2, <3>1, MetricMore
  <2> QED BY <2>1, <2>2
<1>10. /\ errors' \in Seq(Text) /\ Len(errors) \in Nat /\ Len(errors') = Len(errors) + y
       /\ \A t \in Text : Cardinality(Refused(t))' =
                            Cardinality(Refused(t)) + IF t = truth THEN y ELSE 0
  <2>1. CASE UNCHANGED errors
    <3>1. \A t \in Text : Refused(t)' = Refused(t) /\ Cardinality(Refused(t)) \in Nat
      <4>1. \A t \in Text : Len(errors) \in Nat /\ Refused(t) \subseteq 1 .. Len(errors)
        BY <1>3 DEF Refused
      <4> QED BY <2>1, <4>1, NextPosition DEF Refused
    <3> QED BY <1>3, <2>1, <3>1
  <2>2. CASE ~UNCHANGED errors
    <3>1. errors' = Append(errors, truth)
      BY <1>8, <2>2
    <3> QED BY <1>3, <2>2, <3>1, ErrorMore
  <2> QED BY <2>1, <2>2
<1>11. /\ x \in {0, 1} /\ y \in {0, 1} /\ (x = 1 \/ y = 1)
       /\ stdout = "sound" => x + y = 1
  <2>1. errors' = Append(errors, truth) => ~UNCHANGED errors
    <3>1. Len(Append(errors, truth)) = Len(errors) + 1 /\ Len(errors) \in Nat
      BY <1>3
    <3> QED BY <3>1
  <2> QED BY <1>8, <2>1
<1> HIDE DEF x, y
<1>12. Counted'
  <2>1. Accounts(Done, Len(metrics), Len(errors))'
    <3>1. Accounts(n, Len(metrics), Len(errors))
      BY <1>3 DEF Counted, n
    <3>2. Accounts(n + 1, Len(metrics) + x, Len(errors) + y)
      BY <1>5, <1>9, <1>10, <1>11, <3>1, AccountsMore
    <3> QED BY <1>2, <1>5, <1>9, <1>10, <3>2 DEF Accounts
  <2>2. ASSUME NEW t \in Text
        PROVE  Accounts(Cardinality(Given(t, Done)),
                        Cardinality(Measured(t)), Cardinality(Refused(t)))'
    <3>1. Given(t, n) \subseteq 1 .. n
      BY DEF Given
    <3>2. Given(t, Done)' = IF t = truth THEN Given(t, n) \cup {n + 1} ELSE Given(t, n)
      BY <1>2, <1>5, <1>6 DEF Given
    <3>3. /\ Cardinality(Given(t, n)) \in Nat
          /\ Cardinality(Given(t, n) \cup {n + 1}) = Cardinality(Given(t, n)) + 1
      BY <1>5, <3>1, NextPosition
    <3>4. Cardinality(Measured(t)) \in Nat /\ Cardinality(Refused(t)) \in Nat
      <4>1. /\ Len(metrics) \in Nat /\ Measured(t) \subseteq 1 .. Len(metrics)
            /\ Len(errors) \in Nat /\ Refused(t) \subseteq 1 .. Len(errors)
        BY <1>3 DEF Measured, Refused
      <4> QED BY <4>1, NextPosition
    <3>5. Accounts(Cardinality(Given(t, n)), Cardinality(Measured(t)), Cardinality(Refused(t)))
      BY <1>3 DEF Counted, n
    <3>6. CASE t = truth
      <4>1. /\ Cardinality(Given(t, Done))' = Cardinality(Given(t, n)) + 1
            /\ Cardinality(Measured(t))' = Cardinality(Measured(t)) + x
            /\ Cardinality(Refused(t))' = Cardinality(Refused(t)) + y
        BY <1>9, <1>10, <3>2, <3>3, <3>6
      <4> QED BY <1>2, <1>11, <3>3, <3>4, <3>5, <4>1 DEF Accounts
    <3>7. CASE t # truth
      <4>1. /\ Cardinality(Given(t, Done))' = Cardinality(Given(t, n))
            /\ Cardinality(Measured(t))' = Cardinality(Measured(t))
            /\ Cardinality(Refused(t))' = Cardinality(Refused(t))
        BY <1>9, <1>10, <3>2, <3>3, <3>4, <3>7
      <4> QED BY <1>2, <3>5, <4>1 DEF Accounts
    <3> QED BY <3>6, <3>7
  <2> QED BY <2>1, <2>2 DEF Counted
<1> QED BY <1>1, <1>2, <1>3, <1>4, <1>5, <1>7, <1>9, <1>10, <1>12 DEF SampleInv

(* Behind the loop nothing is to do, and the counts stand.                 *)
LEMMA OtherStepsCount ==
  ASSUME SampleInv, UNCHANGED <<manifest, stdout, todo, metrics, errors>>,
         pc' \notin {"load", "transcribe"},
         \/ pc = "transcribe" /\ pc' = "aggregate" /\ todo = <<>> /\ verdict' = verdict
         \/ pc = "aggregate" /\ pc' # "aggregate"
         \/ pc \notin {"load", "transcribe", "aggregate"} /\ verdict' = verdict /\ pc' # "aggregate"
         \/ pc' = "done" /\ verdict' = verdict
  PROVE  SampleInv'
<1>1. Done' = Done /\ (Counted => Counted')
  BY DEF Done, Counted, Accounts, Given, Measured, Refused
<1>2. pc' \in {"aggregate"} \/ verdict' # "none" =>
        pc \in {"transcribe", "aggregate"} \/ verdict # "none"
  OBVIOUS
<1>3. pc' \in {"aggregate"} \/ verdict' # "none" => todo = <<>>
  BY DEF SampleInv
<1>4. pc' = "aggregate" => verdict' = "none"
  BY DEF SampleInv
<1> QED BY <1>1, <1>2, <1>3, <1>4 DEF SampleInv

LEMMA NextCounts == SampleInv /\ [Next]_vars => SampleInv'
<1> SUFFICES ASSUME SampleInv, [Next]_vars PROVE SampleInv'
  OBVIOUS
<1>1. CASE LoopEnds
  BY <1>1, OtherStepsCount DEF LoopEnds, inputs, work
<1>2. CASE Aggregate
  BY <1>2, OtherStepsCount DEF Aggregate, Abort, Leave, inputs, work
<1>3. CASE Save
  BY <1>3, OtherStepsCount DEF Save, Abort, Leave, inputs, work
<1>4. CASE SaveAs
  BY <1>4, OtherStepsCount DEF SaveAs, Abort, Leave, inputs, work
<1>5. CASE Exit
  BY <1>5, OtherStepsCount DEF Exit, Leave, inputs, work
<1>6. CASE PrintRaises
  BY <1>6, OtherStepsCount DEF PrintRaises, Abort, Leave, inputs, work
<1>7. CASE UNCHANGED vars
  BY <1>7 DEF vars, SampleInv, Done, Counted, Accounts, Given, Measured, Refused
<1> QED
  BY <1>1, <1>2, <1>3, <1>4, <1>5, <1>6, <1>7, LoadDatasetCounts, TranscribeCounts DEF Next

(* The loop of the runner turns every sample of the dataset into a metric  *)
(* or an error, whatever the gateway answers and jiwer raises: a verdict   *)
(* leaves none of them out, of any text, and counts none as both unless a  *)
(* print raised.                                                           *)
THEOREM SamplesAreReported == Spec => []EverySampleReported
<1>1. Init => SampleInv
  <2>1. <<>> \in Seq(Text) /\ <<>> \in Seq(Rated)
    OBVIOUS
  <2> QED BY <2>1 DEF Init, SampleInv
<1>2. SampleInv => EverySampleReported
  <2> SUFFICES ASSUME SampleInv, verdict # "none"
               PROVE  /\ Accounts(Len(manifest), Len(metrics), Len(errors))
                      /\ \A t \in {manifest[i].text : i \in DOMAIN manifest} :
                           Accounts(Cardinality({i \in DOMAIN manifest : manifest[i].text = t}),
                                    Cardinality({i \in DOMAIN metrics : metrics[i].truth = t}),
                                    Cardinality({i \in DOMAIN errors : errors[i] = t}))
    BY DEF EverySampleReported
  <2>1. /\ Len(manifest) \in Nat /\ DOMAIN manifest = 1 .. Len(manifest)
        /\ \A i \in 1 .. Len(manifest) : manifest[i].text \in Text
    BY ManifestTyped DEF SampleInv
  <2>2. todo = <<>> /\ Counted
    BY DEF SampleInv
  <2>3. Done = Len(manifest)
    BY <2>1, <2>2 DEF Done
  <2>4. \A t : Given(t, Done) = {i \in DOMAIN manifest : manifest[i].text = t}
    BY <2>1, <2>3 DEF Given
  <2>5. Accounts(Len(manifest), Len(metrics), Len(errors))
    BY <2>2, <2>3 DEF Counted
  <2>6. ASSUME NEW t \in {manifest[i].text : i \in DOMAIN manifest}
        PROVE  Accounts(Cardinality({i \in DOMAIN manifest : manifest[i].text = t}),
                        Cardinality({i \in DOMAIN metrics : metrics[i].truth = t}),
                        Cardinality({i \in DOMAIN errors : errors[i] = t}))
    <3>1. t \in Text
      BY <2>1
    <3>2. Accounts(Cardinality(Given(t, Done)), Cardinality(Measured(t)), Cardinality(Refused(t)))
      BY <2>2, <3>1 DEF Counted
    <3> QED BY <2>4, <3>2 DEF Measured, Refused
  <2> QED BY <2>5, <2>6
<1> QED BY <1>1, <1>2, NextCounts, PTL DEF Spec

---------------------------------------------------------------------------
(* Induction.                                                              *)

(* A set of numbers with 0 and the successors of its members has them all. *)
LEMMA SetInduction ==
  ASSUME NEW S, S \subseteq Nat, 0 \in S, \A n \in S : n + 1 \in S
  PROVE  S = Nat
<1> SUFFICES ASSUME Nat \ S # {} PROVE FALSE
  OBVIOUS
<1> DEFINE R == OpToRel(<, Nat)
           T == Nat \ S
<1>1. IsWellFoundedOn(R, Nat)
  BY NatLessThanWellFounded
<1>2. \A x, y \in Nat : <<x, y>> \in R <=> x < y
  BY DEF OpToRel
<1>3. T \subseteq Nat /\ T # {}
  OBVIOUS
<1> HIDE DEF R, T
<1>4. PICK x \in T : \A y \in T : ~ (<<y, x>> \in R)
  BY <1>1, <1>3, WFMin
<1>5. x # 0 /\ x - 1 \in Nat /\ x - 1 < x
  BY DEF T
<1>6. x - 1 \notin T
  BY <1>2, <1>3, <1>4, <1>5
<1> QED BY <1>5, <1>6 DEF T

---------------------------------------------------------------------------
(* The edit distance.                                                      *)

Cells(ref, hyp) == (0 .. Len(ref)) \X (0 .. Len(hyp))

(* What Distance puts into cell p when g has the cells before it.          *)
Cell(ref, hyp, g, p) ==
  LET i == p[1]
      j == p[2]
  IN IF i = 0 THEN j ELSE IF j = 0 THEN i
     ELSE Min({g[<<i-1, j>>] + 1, g[<<i, j-1>>] + 1,
               g[<<i-1, j-1>>] + IF ref[i] = hyp[j] THEN 0 ELSE 1})

LEMMA MinOfThree ==
  ASSUME NEW a \in Nat, NEW b \in Nat, NEW c \in Nat
  PROVE  Min({a, b, c}) \in Nat
<1>1. \E x \in {a, b, c} : \A y \in {a, b, c} : x =< y
  OBVIOUS
<1> QED BY <1>1 DEF Min

LEMMA CellTyped ==
  ASSUME NEW ref, NEW hyp, Len(ref) \in Nat, Len(hyp) \in Nat,
         NEW p \in Cells(ref, hyp), NEW g,
         \A q \in Cells(ref, hyp) : q[1] + q[2] < p[1] + p[2] => g[q] \in Nat
  PROVE  Cell(ref, hyp, g, p) \in Nat
<1>1. p[1] \in 0 .. Len(ref) /\ p[2] \in 0 .. Len(hyp)
  BY DEF Cells
<1>2. CASE p[1] = 0 \/ p[2] = 0
  BY <1>1, <1>2 DEF Cell
<1>3. CASE p[1] # 0 /\ p[2] # 0
  <2> DEFINE a == <<p[1]-1, p[2]>>
             b == <<p[1], p[2]-1>>
             c == <<p[1]-1, p[2]-1>>
             e == IF ref[p[1]] = hyp[p[2]] THEN 0 ELSE 1
  <2>1. a \in Cells(ref, hyp) /\ b \in Cells(ref, hyp) /\ c \in Cells(ref, hyp)
    BY <1>1, <1>3 DEF Cells
  <2>2. /\ a[1] + a[2] < p[1] + p[2] /\ b[1] + b[2] < p[1] + p[2]
        /\ c[1] + c[2] < p[1] + p[2]
    BY <1>1, <1>3
  <2>3. g[a] \in Nat /\ g[b] \in Nat /\ g[c] \in Nat
    BY <2>1, <2>2
  <2>4. g[a] + 1 \in Nat /\ g[b] + 1 \in Nat /\ g[c] + e \in Nat
    BY <2>3
  <2>5. Min({g[a] + 1, g[b] + 1, g[c] + e}) \in Nat
    BY <2>4, MinOfThree
  <2> QED BY <1>1, <1>3, <2>5 DEF Cell
<1> QED BY <1>2, <1>3

(* A cell depends on cells nearer to the corner only.                      *)
LEMMA CellLocal ==
  ASSUME NEW ref, NEW hyp, Len(ref) \in Nat, Len(hyp) \in Nat,
         NEW p \in Cells(ref, hyp), NEW g, NEW h,
         \A q \in Cells(ref, hyp) : q[1] + q[2] < p[1] + p[2] => g[q] = h[q]
  PROVE  Cell(ref, hyp, g, p) = Cell(ref, hyp, h, p)
<1>1. p[1] \in 0 .. Len(ref) /\ p[2] \in 0 .. Len(hyp)
  BY DEF Cells
<1>2. CASE p[1] = 0 \/ p[2] = 0
  BY <1>1, <1>2 DEF Cell
<1>3. CASE p[1] # 0 /\ p[2] # 0
  <2> DEFINE a == <<p[1]-1, p[2]>>
             b == <<p[1], p[2]-1>>
             c == <<p[1]-1, p[2]-1>>
  <2>1. a \in Cells(ref, hyp) /\ b \in Cells(ref, hyp) /\ c \in Cells(ref, hyp)
    BY <1>1, <1>3 DEF Cells
  <2>2. /\ a[1] + a[2] < p[1] + p[2] /\ b[1] + b[2] < p[1] + p[2]
        /\ c[1] + c[2] < p[1] + p[2]
    BY <1>1, <1>3
  <2>3. g[a] = h[a] /\ g[b] = h[b] /\ g[c] = h[c]
    BY <2>1, <2>2
  <2> QED BY <2>3 DEF Cell
<1> QED BY <1>2, <1>3

(* The table Distance speaks of exists: diagonal by diagonal.              *)
LEMMA TableExists ==
  ASSUME NEW ref, NEW hyp, Len(ref) \in Nat, Len(hyp) \in Nat
  PROVE  \E d : d = [p \in Cells(ref, hyp) |-> Cell(ref, hyp, d, p)]
<1> DEFINE C == Cells(ref, hyp)
           Full(g, n) == \A p \in C : p[1] + p[2] <= n => g[p] = Cell(ref, hyp, g, p)
           S == {n \in Nat : \E g : g = [p \in C |-> g[p]] /\ Full(g, n)}
<1>1. \A p \in C : p[1] \in Nat /\ p[2] \in Nat /\ p[1] + p[2] <= Len(ref) + Len(hyp)
  BY DEF Cells
<1>2. 0 \in S
  <2> DEFINE g == [p \in C |-> Cell(ref, hyp, [q \in C |-> 0], p)]
  <2>1. g = [p \in C |-> g[p]]
    OBVIOUS
  <2>2. Full(g, 0)
    <3> SUFFICES ASSUME NEW p \in C, p[1] + p[2] <= 0 PROVE g[p] = Cell(ref, hyp, g, p)
      OBVIOUS
    <3>1. p[1] = 0
      BY <1>1
    <3> QED BY <3>1 DEF Cell
  <2> HIDE DEF g
  <2> QED BY <2>1, <2>2
<1>3. ASSUME NEW n \in S PROVE n + 1 \in S
  <2>1. PICK g : g = [p \in C |-> g[p]] /\ Full(g, n)
    OBVIOUS
  <2> DEFINE h == [p \in C |-> IF p[1] + p[2] <= n THEN g[p] ELSE Cell(ref, hyp, g, p)]
  <2>2. h = [p \in C |-> h[p]]
    OBVIOUS
  <2>3. Full(h, n + 1)
    <3> SUFFICES ASSUME NEW p \in C, p[1] + p[2] <= n + 1 PROVE h[p] = Cell(ref, hyp, h, p)
      OBVIOUS
    <3>1. h[p] = Cell(ref, hyp, g, p)
      BY <2>1
    <3>2. \A q \in C : q[1] + q[2] < p[1] + p[2] => h[q] = g[q]
      BY <1>1
    <3> HIDE DEF h
    <3>3. Cell(ref, hyp, h, p) = Cell(ref, hyp, g, p)
      BY <3>2, CellLocal
    <3> QED BY <3>1, <3>3
  <2> HIDE DEF h
  <2> QED BY <2>2, <2>3
<1>4. S = Nat
  <2> HIDE DEF S
  <2>1. S \subseteq Nat
    BY DEF S
  <2> QED BY <1>2, <1>3, <2>1, SetInduction
<1>5. Len(ref) + Len(hyp) \in S
  <2> HIDE DEF S
  <2> QED BY <1>4
<1>6. PICK g : g = [p \in C |-> g[p]] /\ Full(g, Len(ref) + Len(hyp))
  BY <1>5
<1>7. g = [p \in C |-> Cell(ref, hyp, g, p)]
  BY <1>1, <1>6
<1> QED BY <1>7

(* A distance is a number, and from no words at all it is one deletion for *)
(* each word of the reference.                                             *)
LEMMA DistanceIs ==
  ASSUME NEW ref, NEW hyp, Len(ref) \in Nat, Len(hyp) \in Nat
  PROVE  /\ Distance(ref, hyp) \in Nat
         /\ Len(hyp) = 0 => Distance(ref, hyp) = Len(ref)
<1> DEFINE C == Cells(ref, hyp)
           d == CHOOSE d : d = [p \in C |-> Cell(ref, hyp, d, p)]
           top == <<Len(ref), Len(hyp)>>
<1>1. Distance(ref, hyp) = d[top]
  BY DEF Distance, Cell, Cells
<1>2. d = [p \in C |-> Cell(ref, hyp, d, p)]
  BY TableExists
<1> HIDE DEF d
<1>3. top \in C /\ top[1] = Len(ref) /\ top[2] = Len(hyp)
  BY DEF Cells
<1> DEFINE S == {n \in Nat : \A p \in C : p[1] + p[2] <= n => d[p] \in Nat}
<1>4. \A p \in C : p[1] \in Nat /\ p[2] \in Nat
  BY DEF Cells
<1>5. 0 \in S
  <2> SUFFICES ASSUME NEW p \in C, p[1] + p[2] <= 0 PROVE d[p] \in Nat
    OBVIOUS
  <2>1. p[1] = 0 /\ p[2] = 0
    BY <1>4
  <2> QED BY <1>2, <2>1 DEF Cell
<1>6. ASSUME NEW n \in S PROVE n + 1 \in S
  <2> SUFFICES ASSUME NEW p \in C, p[1] + p[2] <= n + 1 PROVE d[p] \in Nat
    OBVIOUS
  <2>1. \A q \in C : q[1] + q[2] < p[1] + p[2] => d[q] \in Nat
    BY <1>4
  <2>2. Cell(ref, hyp, d, p) \in Nat
    BY <2>1, CellTyped
  <2> QED BY <1>2, <2>2
<1>7. S = Nat
  <2> HIDE DEF S
  <2>1. S \subseteq Nat
    BY DEF S
  <2> QED BY <1>5, <1>6, <2>1, SetInduction
<1>8. d[top] \in Nat
  <2>1. Len(ref) + Len(hyp) \in S
    <3> HIDE DEF S
    <3> QED BY <1>7
  <2> QED BY <1>3, <2>1
<1>9. Len(hyp) = 0 => d[top] = Len(ref)
  BY <1>2, <1>3 DEF Cell
<1> QED BY <1>1, <1>8, <1>9

---------------------------------------------------------------------------
(* Folds over sequences.                                                   *)

(* Some of finitely many positions come last in any order.                 *)
Ordered(n, R) ==
  /\ \A i, j \in 1 .. n : <<i, j>> \in R \/ <<j, i>> \in R
  /\ \A i, j, k \in 1 .. n : <<i, j>> \in R /\ <<j, k>> \in R => <<i, k>> \in R

HasLast(A, R) == \E i \in A : \A j \in A : <<j, i>> \in R

LEMMA LastExists ==
  ASSUME NEW n \in Nat, NEW R, Ordered(n, R), NEW A, A \subseteq 1 .. n, A # {}
  PROVE  HasLast(A, R)
<1> USE DEF Ordered, HasLast
<1> DEFINE Has(B) == HasLast(B, R)
           S == {m \in Nat : \A B \in SUBSET (1 .. n) : B \subseteq 1 .. m /\ B # {} => Has(B)}
<1>1. 0 \in S
  <2>1. 1 .. 0 = {}
    OBVIOUS
  <2> QED BY <2>1
<1>2. ASSUME NEW m \in S PROVE m + 1 \in S
  <2> SUFFICES ASSUME NEW B \in SUBSET (1 .. n), B \subseteq 1 .. m + 1, B # {} PROVE Has(B)
    OBVIOUS
  <2> DEFINE C == B \ {m + 1}
  <2>1. C \in SUBSET (1 .. n) /\ C \subseteq 1 .. m
    OBVIOUS
  <2>2. CASE m + 1 \notin B
    <3>1. B \subseteq 1 .. m
      BY <2>2
    <3> QED BY <3>1
  <2>3. CASE m + 1 \in B /\ C = {}
    <3>1. B = {m + 1}
      BY <2>3
    <3> QED BY <3>1
  <2>4. CASE m + 1 \in B /\ C # {}
    <3>1. PICK i \in C : \A j \in C : <<j, i>> \in R
      BY <2>1, <2>4
    <3>2. CASE <<m + 1, i>> \in R
      BY <3>1, <3>2
    <3>3. CASE <<i, m + 1>> \in R
      BY <2>4, <3>1, <3>3
    <3> QED BY <2>1, <2>4, <3>1, <3>2, <3>3
  <2> QED BY <2>2, <2>3, <2>4
<1>3. n \in S
  <2> HIDE DEF S
  <2>1. S \subseteq Nat
    BY DEF S
  <2> QED BY <1>1, <1>2, <2>1, SetInduction
<1> QED BY <1>3

LEMMA MaxIs ==
  ASSUME NEW n \in Nat, NEW A, A \subseteq 1 .. n, A # {}
  PROVE  Max(A) \in A /\ \A j \in A : Max(A) >= j
<1> DEFINE R == {p \in (1 .. n) \X (1 .. n) : p[1] <= p[2]}
<1>1. \A i, j \in 1 .. n : <<i, j>> \in R <=> i <= j
  OBVIOUS
<1> HIDE DEF R
<1>2. \E i \in A : \A j \in A : <<j, i>> \in R
  <2>1. ASSUME NEW i \in 1 .. n, NEW j \in 1 .. n
        PROVE  <<i, j>> \in R \/ <<j, i>> \in R
    <3>1. i <= j \/ j <= i
      OBVIOUS
    <3> QED BY <1>1, <3>1
  <2>2. ASSUME NEW i \in 1 .. n, NEW j \in 1 .. n, NEW k \in 1 .. n,
               <<i, j>> \in R, <<j, k>> \in R
        PROVE  <<i, k>> \in R
    <3>1. i <= j /\ j <= k
      BY <1>1, <2>2
    <3>2. i <= k
      BY <3>1
    <3> QED BY <1>1, <3>2
  <2>3. \A i, j \in 1 .. n : <<i, j>> \in R \/ <<j, i>> \in R
    BY <2>1
  <2>4. \A i, j, k \in 1 .. n : <<i, j>> \in R /\ <<j, k>> \in R => <<i, k>> \in R
    BY <2>2
  <2>5. Ordered(n, R)
    BY <2>3, <2>4 DEF Ordered
  <2>6. HasLast(A, R)
    BY <2>5, LastExists
  <2> QED BY <2>6 DEF HasLast
<1>3. \E i \in A : \A j \in A : i >= j
  BY <1>1, <1>2
<1> QED BY <1>3 DEF Max

LEMMA MaxOfPrefix ==
  ASSUME NEW k \in Nat
  PROVE  Max(1 .. k + 1) = k + 1 /\ (1 .. k + 1) \ {k + 1} = 1 .. k
<1>1. k + 1 \in Nat /\ k + 1 \in 1 .. k + 1
  OBVIOUS
<1> DEFINE A == 1 .. k + 1
<1>2. A \subseteq 1 .. k + 1 /\ A # {} /\ k + 1 \in A
  BY <1>1
<1> HIDE DEF A
<1>3. Max(A) \in A /\ Max(A) >= k + 1
  BY <1>1, <1>2, MaxIs
<1>4. Max(1 .. k + 1) = k + 1
  BY <1>3 DEF A
<1>5. (1 .. k + 1) \ {k + 1} = 1 .. k
  OBVIOUS
<1> QED BY <1>4, <1>5

(* The fold of n positions exists: of sets up to one position after the    *)
(* other.  F takes what is accumulated and a position.                     *)
Takes(n, V, F) == \A v \in V, i \in 1 .. n : F[<<v, i>>] \in V

Folds(g, n, base, F) ==
  \A A \in SUBSET (1 .. n) :
    g[A] = IF A = {} THEN base ELSE F[<<g[A \ {Max(A)}], Max(A)>>]

LEMMA FoldExists ==
  ASSUME NEW n \in Nat, NEW V, NEW base \in V, NEW F, Takes(n, V, F)
  PROVE  \E g \in [SUBSET (1 .. n) -> V] : Folds(g, n, base, F)
<1> USE DEF Takes, Folds
<1> DEFINE P == SUBSET (1 .. n)
           Step(g, A) == IF A = {} THEN base ELSE F[<<g[A \ {Max(A)}], Max(A)>>]
           Upto(g, m) == \A A \in P : A \subseteq 1 .. m => g[A] = Step(g, A)
           S == {m \in Nat : \E g \in [P -> V] : Upto(g, m)}
<1>1. 0 \in S
  <2> DEFINE g == [A \in P |-> base]
  <2>1. g \in [P -> V] /\ Upto(g, 0)
    OBVIOUS
  <2> HIDE DEF g
  <2> QED BY <2>1
<1>2. ASSUME NEW m \in S PROVE m + 1 \in S
  <2>1. PICK g \in [P -> V] : Upto(g, m)
    OBVIOUS
  <2> DEFINE h == [A \in P |-> IF A \subseteq 1 .. m THEN g[A] ELSE Step(g, A)]
  <2>2. \A A \in P : A # {} => Max(A) \in A /\ Max(A) \in 1 .. n /\ A \ {Max(A)} \in P
                               /\ \A j \in A : Max(A) >= j
    BY MaxIs
  <2>3. h \in [P -> V]
    <3>1. \A A \in P : Step(g, A) \in V
      BY <2>2
    <3> QED BY <3>1
  <2>4. Upto(h, m + 1)
    <3> SUFFICES ASSUME NEW A \in P, A \subseteq 1 .. m + 1 PROVE h[A] = Step(h, A)
      OBVIOUS
    <3>1. h[A] = Step(g, A)
      BY <2>1
    <3>2. ASSUME A # {} PROVE h[A \ {Max(A)}] = g[A \ {Max(A)}]
      <4>1. A \ {Max(A)} \subseteq 1 .. m
        BY <2>2, <3>2
      <4> QED BY <2>2, <3>2, <4>1
    <3> HIDE DEF h
    <3> QED BY <3>1, <3>2
  <2>5. m + 1 \in Nat
    OBVIOUS
  <2> HIDE DEF h, Upto, P
  <2> QED BY <2>3, <2>4, <2>5
<1>3. n \in S
  <2> HIDE DEF S
  <2>1. S \subseteq Nat
    BY DEF S
  <2> QED BY <1>1, <1>2, <2>1, SetInduction
<1>4. PICK g \in [P -> V] : Upto(g, n)
  BY <1>3
<1> QED BY <1>4

(* Any function that takes these steps has a value for each prefix.        *)
Follows(g, n, V, base, F) ==
  /\ g[{}] = base
  /\ \A A \in SUBSET (1 .. n) :
       A # {} /\ g[A \ {Max(A)}] \in V => g[A] = F[<<g[A \ {Max(A)}], Max(A)>>]

Chain(c, n, V, base, F) ==
  c \in [0 .. n -> V] /\ c[0] = base /\ \A k \in 1 .. n : c[k] = F[<<c[k-1], k>>]

LEMMA ChainOf ==
  ASSUME NEW n \in Nat, NEW V, NEW base \in V, NEW F, Takes(n, V, F),
         NEW g, Follows(g, n, V, base, F)
  PROVE  Chain([k \in 0 .. n |-> g[1 .. k]], n, V, base, F)
<1>1. g[1 .. 0] = base
  <2>1. 1 .. 0 = {}
    OBVIOUS
  <2> QED BY <2>1 DEF Follows
<1>2. ASSUME NEW k \in Nat, k + 1 <= n, g[1 .. k] \in V
      PROVE  g[1 .. k + 1] = F[<<g[1 .. k], k + 1>>] /\ g[1 .. k + 1] \in V
  <2> DEFINE A == 1 .. k + 1
  <2>1. A \in SUBSET (1 .. n) /\ k + 1 \in 1 .. n
    BY <1>2
  <2>2. k + 1 \in A
    OBVIOUS
  <2>3. Max(A) = k + 1 /\ A \ {k + 1} = 1 .. k
    BY MaxOfPrefix
  <2> HIDE DEF A
  <2>4. g[A] = F[<<g[1 .. k], k + 1>>]
    BY <1>2, <2>1, <2>2, <2>3 DEF Follows
  <2>5. F[<<g[1 .. k], k + 1>>] \in V
    BY <1>2, <2>1 DEF Takes
  <2> QED BY <2>4, <2>5 DEF A
<1> DEFINE S == {k \in Nat : k <= n => g[1 .. k] \in V}
<1>3. 0 \in S
  BY <1>1
<1>4. ASSUME NEW k \in S PROVE k + 1 \in S
  <2>1. k \in Nat /\ (k + 1 <= n => k <= n) /\ k + 1 \in Nat
    OBVIOUS
  <2> QED BY <1>2, <2>1
<1>5. \A k \in 0 .. n : g[1 .. k] \in V
  <2>1. S = Nat
    <3> HIDE DEF S
    <3>1. S \subseteq Nat
      BY DEF S
    <3> QED BY <1>3, <1>4, <3>1, SetInduction
  <2> QED BY <2>1
<1> DEFINE c == [k \in 0 .. n |-> g[1 .. k]]
<1>6. c \in [0 .. n -> V] /\ c[0] = base
  BY <1>1, <1>5
<1>7. ASSUME NEW k \in 1 .. n PROVE c[k] = F[<<c[k-1], k>>]
  <2>1. k - 1 \in Nat /\ (k - 1) + 1 = k /\ k - 1 \in 0 .. n
    OBVIOUS
  <2>2. g[1 .. k] = F[<<g[1 .. k - 1], k>>]
    BY <1>2, <1>5, <2>1
  <2> QED BY <2>1, <2>2
<1> HIDE DEF c
<1>8. Chain(c, n, V, base, F)
  BY <1>6, <1>7 DEF Chain
<1> QED BY <1>8 DEF c

LEMMA ChainExists ==
  ASSUME NEW n \in Nat, NEW V, NEW base \in V, NEW F, Takes(n, V, F)
  PROVE  \E c : Chain(c, n, V, base, F)
<1>1. PICK g \in [SUBSET (1 .. n) -> V] : Folds(g, n, base, F)
  BY FoldExists
<1>2. Follows(g, n, V, base, F)
  BY <1>1 DEF Folds, Follows
<1> QED BY <1>2, ChainOf

(* Sum adds one after the other.                                           *)
LEMMA SumIs ==
  ASSUME NEW n \in Nat, NEW s \in [1 .. n -> Nat]
  PROVE  \E c \in [0 .. n -> Nat] :
           c[0] = 0 /\ c[n] = Sum(s) /\ \A k \in 1 .. n : c[k] = c[k-1] + s[k]
<1> DEFINE P == SUBSET (1 .. n)
           F == [p \in Nat \X (1 .. n) |-> p[1] + s[p[2]]]
           Step(g, A) == IF A = {} THEN 0 ELSE g[A \ {Max(A)}] + s[Max(A)]
           it == CHOOSE it : it = [A \in P |-> Step(it, A)]
<1>1. Sum(s) = it[1 .. n]
  <2>1. DOMAIN s = 1 .. n
    OBVIOUS
  <2> QED BY <2>1 DEF Sum, FoldLeft, MapThenFoldSet
<1>2. \A v \in Nat, i \in 1 .. n : F[<<v, i>>] = v + s[i] /\ F[<<v, i>>] \in Nat
  OBVIOUS
<1> HIDE DEF F
<1>3. Takes(n, Nat, F)
  BY <1>2 DEF Takes
<1>4. \A A \in P : A # {} => Max(A) \in 1 .. n /\ A \ {Max(A)} \in P
  BY MaxIs
<1>5. \E g : g = [A \in P |-> Step(g, A)]
  <2>1. PICK g \in [P -> Nat] : Folds(g, n, 0, F)
    BY <1>3, FoldExists
  <2>2. ASSUME NEW A \in P PROVE g[A] = Step(g, A)
    BY <1>2, <1>4, <2>1 DEF Folds
  <2> QED BY <2>2
<1>6. it = [A \in P |-> Step(it, A)]
  BY <1>5
<1> HIDE DEF it
<1>7. Follows(it, n, Nat, 0, F)
  BY <1>2, <1>4, <1>6 DEF Follows
<1> DEFINE c == [k \in 0 .. n |-> it[1 .. k]]
<1>8. Chain(c, n, Nat, 0, F) /\ c[n] = Sum(s)
  BY <1>1, <1>3, <1>7, ChainOf
<1> HIDE DEF c
<1>9. ASSUME NEW k \in 1 .. n PROVE c[k] = c[k-1] + s[k]
  <2>1. k - 1 \in 0 .. n
    OBVIOUS
  <2>2. c[k] = F[<<c[k-1], k>>] /\ c[k-1] \in Nat
    BY <1>8, <2>1 DEF Chain
  <2> QED BY <1>2, <2>2
<1> QED BY <1>8, <1>9 DEF Chain

---------------------------------------------------------------------------
(* The words of a text.                                                    *)

LEMMA FlattenTyped ==
  ASSUME NEW V, NEW n \in Nat, NEW seqs \in [1 .. n -> Seq(V)]
  PROVE  FlattenSeq(seqs) \in Seq(V)
<1>1. Len(seqs) = n
  OBVIOUS
<1>2. CASE n = 0
  BY <1>1, <1>2 DEF FlattenSeq
<1>3. CASE n # 0
  <2> DEFINE Step(f, i) == IF i = 1 THEN seqs[i] ELSE f[i-1] \o seqs[i]
             flatten == CHOOSE f : f = [i \in 1 .. n |-> Step(f, i)]
             F == [p \in Seq(V) \X (1 .. n) |-> p[1] \o seqs[p[2]]]
  <2>1. FlattenSeq(seqs) = flatten[n]
    BY <1>1, <1>3 DEF FlattenSeq
  <2>2. ASSUME NEW v \in Seq(V), NEW i \in 1 .. n
        PROVE  F[<<v, i>>] = v \o seqs[i] /\ F[<<v, i>>] \in Seq(V)
    <3>1. F[<<v, i>>] = v \o seqs[i]
      OBVIOUS
    <3>2. seqs[i] \in Seq(V)
      OBVIOUS
    <3>3. v \o seqs[i] \in Seq(V)
      BY <3>2
    <3> QED BY <3>1, <3>3
  <2> HIDE DEF F
  <2>3. PICK c : Chain(c, n, Seq(V), <<>>, F)
    <3>1. Takes(n, Seq(V), F)
      BY <2>2 DEF Takes
    <3>2. <<>> \in Seq(V)
      OBVIOUS
    <3> QED BY <3>1, <3>2, ChainExists
  <2>4. \A i \in 1 .. n : c[i] = Step(c, i)
    <3> TAKE i \in 1 .. n
    <3>1. i - 1 \in 0 .. n
      OBVIOUS
    <3>2. c[i] = F[<<c[i-1], i>>] /\ c[i-1] \in Seq(V) /\ c[0] = <<>>
      BY <2>3, <3>1 DEF Chain
    <3>3. c[i] = c[i-1] \o seqs[i] /\ c[0] = <<>> /\ seqs[i] \in Seq(V)
      BY <2>2, <3>2
    <3>4. i = 1 => c[i-1] = <<>>
      BY <3>3
    <3>5. <<>> \o seqs[i] = seqs[i]
      BY <3>3
    <3> QED BY <3>3, <3>4, <3>5
  <2>5. \E f : f = [i \in 1 .. n |-> Step(f, i)]
    <3> DEFINE f == [i \in 1 .. n |-> c[i]]
    <3>1. \A i \in 1 .. n : f[i] = Step(f, i)
      BY <2>4
    <3>2. f = [i \in 1 .. n |-> f[i]]
      OBVIOUS
    <3> HIDE DEF f
    <3> QED BY <3>1, <3>2
  <2>6. flatten = [i \in 1 .. n |-> Step(flatten, i)]
    BY <2>5
  <2> HIDE DEF flatten
  <2> DEFINE S == {k \in Nat : k + 1 <= n => flatten[k + 1] \in Seq(V)}
  <2>7. 0 \in S
    BY <1>3, <2>6
  <2>8. ASSUME NEW k \in S PROVE k + 1 \in S
    <3> SUFFICES ASSUME (k + 1) + 1 <= n PROVE flatten[(k + 1) + 1] \in Seq(V)
      OBVIOUS
    <3>1. /\ k + 1 \in 1 .. n /\ (k + 1) + 1 \in 1 .. n
          /\ (k + 1) + 1 # 1 /\ ((k + 1) + 1) - 1 = k + 1
      OBVIOUS
    <3>2. flatten[(k + 1) + 1] = flatten[k + 1] \o seqs[(k + 1) + 1]
      BY <2>6, <3>1
    <3> QED BY <3>1, <3>2
  <2>9. S = Nat
    <3> HIDE DEF S
    <3>1. S \subseteq Nat
      BY DEF S
    <3> QED BY <2>7, <2>8, <3>1, SetInduction
  <2>10. n - 1 \in S
    <3>1. n - 1 \in Nat
      BY <1>3
    <3> HIDE DEF S
    <3> QED BY <2>9, <3>1
  <2>11. (n - 1) + 1 = n
    OBVIOUS
  <2> QED BY <2>1, <2>10, <2>11
<1> QED BY <1>2, <1>3

LEMMA NormalizeTyped ==
  ASSUME NEW text \in Text
  PROVE  /\ Normalize(text) \in Seq(STRING)
         /\ text = <<>> => Wordless(text)
<1> DEFINE seqs == [i \in DOMAIN text |-> Expand[text[i]]]
<1>1. /\ Len(text) \in Nat /\ DOMAIN text = 1 .. Len(text)
      /\ \A i \in 1 .. Len(text) : text[i] \in Token
  BY DEF Text
<1>2. seqs \in [1 .. Len(text) -> Seq(STRING)]
  BY <1>1, InputsAssumption
<1>3. text = <<>> => Len(seqs) = 0 /\ seqs = <<>>
  BY <1>1
<1> HIDE DEF seqs
<1>4. FlattenSeq(seqs) \in Seq(STRING)
  BY <1>1, <1>2, FlattenTyped
<1>5. text = <<>> => FlattenSeq(seqs) = <<>>
  BY <1>3 DEF FlattenSeq
<1> QED BY <1>4, <1>5 DEF seqs, Normalize, Wordless

---------------------------------------------------------------------------
(* The rates.                                                              *)

LEMMA OneMore ==
  ASSUME NEW u \in Nat, NEW v \in Nat, NEW e \in Nat, NEW k \in Nat,
         NEW A \in Nat, NEW B \in Nat, NEW a \in Nat, NEW b \in Nat,
         u * A + k * e <= v * B, u * a + e <= v * b
  PROVE  u * (A + a) + (k + 1) * e <= v * (B + b)
<1>1. u * (A + a) = u * A + u * a /\ v * (B + b) = v * B + v * b /\ (k + 1) * e = k * e + e
  OBVIOUS
<1>2. u * A \in Nat /\ u * a \in Nat /\ v * B \in Nat /\ v * b \in Nat /\ k * e \in Nat
  OBVIOUS
<1> QED BY <1>1, <1>2

(* An inequality that holds item by item holds of the sums, with the room  *)
(* e that each item leaves.                                                *)
LEMMA SumsCompare ==
  ASSUME NEW n \in Nat, NEW a \in [1 .. n -> Nat], NEW b \in [1 .. n -> Nat],
         NEW u \in Nat, NEW v \in Nat, NEW e \in Nat,
         \A i \in 1 .. n : u * a[i] + e <= v * b[i]
  PROVE  u * Sum(a) + n * e <= v * Sum(b)
<1>1. PICK A \in [0 .. n -> Nat] :
        A[0] = 0 /\ A[n] = Sum(a) /\ \A k \in 1 .. n : A[k] = A[k-1] + a[k]
  BY SumIs
<1>2. PICK B \in [0 .. n -> Nat] :
        B[0] = 0 /\ B[n] = Sum(b) /\ \A k \in 1 .. n : B[k] = B[k-1] + b[k]
  BY SumIs
<1> DEFINE S == {k \in Nat : k <= n => u * A[k] + k * e <= v * B[k]}
<1>3. 0 \in S
  BY <1>1, <1>2
<1>4. ASSUME NEW k \in S PROVE k + 1 \in S
  <2> SUFFICES ASSUME k + 1 <= n PROVE u * A[k + 1] + (k + 1) * e <= v * B[k + 1]
    OBVIOUS
  <2>1. k \in 0 .. n /\ k + 1 \in 1 .. n /\ (k + 1) - 1 = k
    OBVIOUS
  <2>2. A[k + 1] = A[k] + a[k + 1] /\ B[k + 1] = B[k] + b[k + 1]
    BY <1>1, <1>2, <2>1
  <2>3. /\ A[k] \in Nat /\ a[k + 1] \in Nat /\ B[k] \in Nat /\ b[k + 1] \in Nat
        /\ k \in Nat
    BY <2>1
  <2>4. u * A[k] + k * e <= v * B[k] /\ u * a[k + 1] + e <= v * b[k + 1]
    BY <2>1
  <2>5. u * (A[k] + a[k + 1]) + (k + 1) * e <= v * (B[k] + b[k + 1])
    BY <2>3, <2>4, OneMore
  <2> QED BY <2>2, <2>5
<1>5. n \in S
  <2> HIDE DEF S
  <2>1. S \subseteq Nat
    BY DEF S
  <2> QED BY <1>3, <1>4, <2>1, SetInduction
<1> QED BY <1>1, <1>2, <1>5

LEMMA SumTyped ==
  ASSUME NEW n \in Nat, NEW s \in [1 .. n -> Nat]
  PROVE  Sum(s) \in Nat
BY SumIs

LEMMA SumOfOne ==
  ASSUME NEW a \in Nat, NEW s, s = [i \in 1 .. 1 |-> a]
  PROVE  Sum(s) = a
<1>1. s \in [1 .. 1 -> Nat] /\ 1 \in Nat /\ s[1] = a
  OBVIOUS
<1>2. PICK c \in [0 .. 1 -> Nat] :
        c[0] = 0 /\ c[1] = Sum(s) /\ \A k \in 1 .. 1 : c[k] = c[k-1] + s[k]
  BY <1>1, SumIs
<1>3. c[1] = c[0] + s[1]
  <2>1. 1 \in 1 .. 1 /\ 1 - 1 = 0
    OBVIOUS
  <2> QED BY <1>2, <2>1
<1> QED BY <1>1, <1>2, <1>3

(* jiwer on one sample.                                                    *)
LEMMA OneSample ==
  ASSUME NEW r \in Seq(STRING), NEW h \in Seq(STRING)
  PROVE  ProcessWords(<<r>>, <<h>>) = <<Distance(r, h), Len(r)>>
<1>1. Len(r) \in Nat /\ Distance(r, h) \in Nat
  <2>1. Len(r) \in Nat /\ Len(h) \in Nat
    OBVIOUS
  <2> QED BY <2>1, DistanceIs
<1> DEFINE D == [i \in DOMAIN <<r>> |-> Distance(<<r>>[i], <<h>>[i])]
           L == [i \in DOMAIN <<r>> |-> Len(<<r>>[i])]
<1>2. D = [i \in 1 .. 1 |-> Distance(r, h)] /\ L = [i \in 1 .. 1 |-> Len(r)]
  OBVIOUS
<1>3. ProcessWords(<<r>>, <<h>>) = <<Sum(D), Sum(L)>>
  BY DEF ProcessWords
<1> HIDE DEF D, L
<1> QED BY <1>1, <1>2, <1>3, SumOfOne

Edits(m) == Distance(Normalize(m.truth), Normalize(m.prediction))
Words(m) == Len(Normalize(m.truth))

(* The rate of a sample is that of its words, also where compute_wer gives *)
(* it without asking jiwer.                                                *)
LEMMA RateIs ==
  ASSUME NEW m, m.truth \in Text, m.prediction \in Text, ~Wordless(m.truth)
  PROVE  /\ Edits(m) \in Nat /\ Words(m) \in Nat \ {0}
         /\ \/ ComputeWER(m.truth, m.prediction) = <<Edits(m), Words(m)>>
            \/ ComputeWER(m.truth, m.prediction) = <<1, 1>> /\ Edits(m) = Words(m)
<1> DEFINE r == Normalize(m.truth)
           h == Normalize(m.prediction)
<1>1. /\ r \in Seq(STRING) /\ h \in Seq(STRING) /\ m.truth # <<>>
      /\ m.prediction = <<>> => h = <<>>
  BY NormalizeTyped DEF Wordless
<1>2. r # <<>>
  BY DEF Wordless
<1> HIDE DEF r, h
<1>3. Len(r) \in Nat \ {0} /\ Len(h) \in Nat /\ (h = <<>> => Len(h) = 0)
  BY <1>1, <1>2
<1>4. Distance(r, h) \in Nat /\ (h = <<>> => Distance(r, h) = Len(r))
  BY <1>3, DistanceIs
<1>5. ProcessWords(<<r>>, <<h>>) = <<Distance(r, h), Len(r)>>
  BY <1>1, OneSample
<1>6. CASE m.prediction = <<>>
  BY <1>1, <1>3, <1>4, <1>6 DEF ComputeWER, Edits, Words, r, h
<1>7. CASE m.prediction # <<>>
  BY <1>1, <1>3, <1>4, <1>5, <1>7 DEF ComputeWER, Edits, Words, r, h
<1> QED BY <1>6, <1>7

LEMMA RateTyped ==
  ASSUME NEW t \in Text, NEW p \in Text, ~ComputeWERRaises(t, p)
  PROVE  ComputeWER(t, p) \in Rate
<1>1. CASE t = <<>> \/ p = <<>>
  BY <1>1 DEF ComputeWER, Rate
<1>2. CASE t # <<>> /\ p # <<>>
  <2> DEFINE m == [truth |-> t, prediction |-> p]
  <2>1. m.truth = t /\ m.prediction = p
    OBVIOUS
  <2>2. ~Wordless(t)
    BY <1>2 DEF ComputeWERRaises
  <2> HIDE DEF m
  <2>3. /\ Edits(m) \in Nat /\ Words(m) \in Nat \ {0}
        /\ \/ ComputeWER(t, p) = <<Edits(m), Words(m)>>
           \/ ComputeWER(t, p) = <<1, 1>>
    BY <2>1, <2>2, RateIs
  <2> QED BY <2>3 DEF Rate
<1> QED BY <1>1, <1>2

---------------------------------------------------------------------------
(* Types.                                                                  *)

LEMMA TranscribeTyped ==
  ASSUME TypeOK, Transcribe
  PROVE  todo' \in Seq(Text) /\ metrics' \in Seq(Metric) /\ errors' \in Seq(Text)
<1> DEFINE truth == Head(todo)
<1>1. /\ todo \in Seq(Text) /\ todo # <<>> /\ truth \in Text
      /\ metrics \in Seq(Metric) /\ errors \in Seq(Text)
  BY DEF TypeOK, Transcribe
<1>2. todo' \in Seq(Text)
  BY <1>1 DEF Transcribe
<1>3. /\ \/ UNCHANGED metrics
         \/ \E p \in Predictions :
              /\ ~ComputeWERRaises(truth, p)
              /\ metrics' = Append(metrics, [truth |-> truth, prediction |-> p,
                                             wer |-> ComputeWER(truth, p)])
      /\ UNCHANGED errors \/ errors' = Append(errors, truth)
  BY DEF Transcribe, RecordError
<1> HIDE DEF truth
<1>4. errors' \in Seq(Text)
  BY <1>1, <1>3
<1>5. ASSUME NEW p \in Predictions, ~ComputeWERRaises(truth, p),
             metrics' = Append(metrics, [truth |-> truth, prediction |-> p,
                                         wer |-> ComputeWER(truth, p)])
      PROVE  metrics' \in Seq(Metric)
  <2> DEFINE m == [truth |-> truth, prediction |-> p, wer |-> ComputeWER(truth, p)]
  <2>1. p \in Text
    BY InputsAssumption
  <2>2. ComputeWER(truth, p) \in Rate
    BY <1>1, <1>5, <2>1, RateTyped
  <2>3. m \in Metric
    BY <1>1, <2>1, <2>2 DEF Metric
  <2>4. metrics' = Append(metrics, m)
    BY <1>5
  <2> HIDE DEF m
  <2> QED BY <1>1, <2>3, <2>4
<1> QED BY <1>1, <1>2, <1>3, <1>4, <1>5

LEMMA NextTyped == TypeOK /\ [Next]_vars => TypeOK'
<1> SUFFICES ASSUME TypeOK, [Next]_vars PROVE TypeOK'
  OBVIOUS
<1>1. CASE LoadDataset
  <2>1. /\ Len(manifest) \in Nat /\ DOMAIN manifest = 1 .. Len(manifest)
        /\ \A i \in 1 .. Len(manifest) : manifest[i].text \in Text
    BY ManifestTyped DEF TypeOK
  <2>2. todo' \in Seq(Text)
    <3>1. [i \in DOMAIN manifest |-> manifest[i].text] \in Seq(Text)
      BY <2>1
    <3> QED BY <1>1, <3>1 DEF LoadDataset, TypeOK
  <2> QED BY <1>1, <2>2 DEF LoadDataset, Abort, Leave, TypeOK, inputs
<1>2. CASE Transcribe
  <2>1. todo' \in Seq(Text) /\ metrics' \in Seq(Metric) /\ errors' \in Seq(Text)
    BY <1>2, TranscribeTyped
  <2>2. UNCHANGED <<inputs, pc, verdict, report, exit>>
    BY <1>2 DEF Transcribe
  <2> QED BY <2>1, <2>2 DEF TypeOK, inputs
<1>3. CASE LoopEnds
  BY <1>3 DEF LoopEnds, TypeOK, inputs, work
<1>4. CASE Aggregate
  BY <1>4 DEF Aggregate, Abort, Leave, TypeOK, inputs, work
<1>5. CASE Save
  BY <1>5 DEF Save, Abort, Leave, TypeOK, inputs, work
<1>6. CASE SaveAs
  BY <1>6 DEF SaveAs, Abort, Leave, TypeOK, inputs, work
<1>7. CASE Exit
  BY <1>7 DEF Exit, Leave, TypeOK, inputs, work
<1>8. CASE PrintRaises
  BY <1>8 DEF PrintRaises, Abort, Leave, TypeOK, inputs, work
<1>9. CASE UNCHANGED vars
  BY <1>9 DEF vars, TypeOK
<1> QED
  BY <1>1, <1>2, <1>3, <1>4, <1>5, <1>6, <1>7, <1>8, <1>9 DEF Next

(* The state keeps its types.  What takes proof is the rates: whatever the *)
(* texts, compute_wer returns a fraction with words below the line, or     *)
(* jiwer raises.                                                           *)
THEOREM TypeCorrect == Spec => []TypeOK
<1>1. Init => TypeOK
  <2>1. <<>> \in Seq(Text) /\ <<>> \in Seq(Metric)
    OBVIOUS
  <2> QED BY <2>1 DEF Init, TypeOK
<1> QED BY <1>1, NextTyped, PTL DEF Spec

---------------------------------------------------------------------------
(* The verdict.                                                            *)

(* The metrics that aggregate accepts: some, each with words to compare    *)
(* and the rate of its two texts.                                          *)
Rateable(ms) ==
  /\ ms \in Seq(Metric) /\ ms # <<>> /\ ~AggregateRaises(ms)
  /\ \A i \in DOMAIN ms : ms[i].wer = ComputeWER(ms[i].truth, ms[i].prediction)

VerdictInv ==
  /\ TypeOK
  /\ \A i \in DOMAIN metrics :
       metrics[i].wer = ComputeWER(metrics[i].truth, metrics[i].prediction)
  /\ pc \in {"load", "transcribe", "aggregate"} => verdict = "none"
  /\ verdict # "none" => Rateable(metrics) /\ (verdict = "passed" <=> Passes(metrics))

LEMMA NextVerdict == VerdictInv /\ [Next]_vars => VerdictInv'
<1> SUFFICES ASSUME VerdictInv, [Next]_vars PROVE VerdictInv'
  OBVIOUS
<1>1. TypeOK'
  BY NextTyped DEF VerdictInv
<1>2. CASE LoadDataset
  BY <1>1, <1>2 DEF LoadDataset, Abort, Leave, VerdictInv
<1>3. CASE Transcribe
  <2>1. verdict = "none" /\ verdict' = "none" /\ metrics \in Seq(Metric)
    BY <1>3 DEF Transcribe, VerdictInv, TypeOK
  <2>2. \/ UNCHANGED metrics
        \/ \E m : m.wer = ComputeWER(m.truth, m.prediction) /\ metrics' = Append(metrics, m)
    <3>1. \/ UNCHANGED metrics
          \/ \E t, p : metrics' = Append(metrics, [truth |-> t, prediction |-> p,
                                                   wer |-> ComputeWER(t, p)])
      BY <1>3 DEF Transcribe
    <3>2. ASSUME NEW t, NEW p,
                 metrics' = Append(metrics, [truth |-> t, prediction |-> p,
                                             wer |-> ComputeWER(t, p)])
          PROVE  \E m : m.wer = ComputeWER(m.truth, m.prediction) /\ metrics' = Append(metrics, m)
      BY <3>2
    <3> QED BY <3>1, <3>2
  <2>3. ASSUME NEW i \in DOMAIN metrics'
        PROVE  metrics'[i].wer = ComputeWER(metrics'[i].truth, metrics'[i].prediction)
    BY <2>1, <2>2 DEF VerdictInv
  <2> QED BY <1>1, <2>1, <2>3 DEF VerdictInv
<1>4. CASE LoopEnds
  BY <1>1, <1>4 DEF LoopEnds, VerdictInv, work
<1>5. CASE Aggregate
  <2>1. metrics \in Seq(Metric)
    BY DEF VerdictInv, TypeOK
  <2> QED BY <1>1, <1>5, <2>1 DEF Aggregate, Abort, Leave, VerdictInv, Rateable, work
<1>6. CASE Save
  BY <1>1, <1>6 DEF Save, Abort, Leave, VerdictInv, work
<1>7. CASE SaveAs
  BY <1>1, <1>7 DEF SaveAs, Abort, Leave, VerdictInv, work
<1>8. CASE Exit
  BY <1>1, <1>8 DEF Exit, Leave, VerdictInv, work
<1>9. CASE PrintRaises
  BY <1>1, <1>9 DEF PrintRaises, Abort, Leave, VerdictInv, work
<1>10. CASE UNCHANGED vars
  BY <1>1, <1>10 DEF vars, VerdictInv
<1> QED
  BY <1>2, <1>3, <1>4, <1>5, <1>6, <1>7, <1>8, <1>9, <1>10 DEF Next

EditsOf(ms) == [i \in 1 .. Len(ms) |-> Edits(ms[i])]
WordsOf(ms) == [i \in 1 .. Len(ms) |-> Words(ms[i])]

(* Comparing <<1, 1>> is comparing <<w, w>>.                               *)
LEMMA Cancel ==
  ASSUME NEW w \in Nat \ {0}, NEW x \in Nat, NEW y \in Nat
  PROVE  x <= y <=> w * x <= w * y
<1>1. x <= y => w * x <= w * y
  OBVIOUS
<1>2. ASSUME y < x PROVE w * y < w * x
  <2>1. w * (y + 1) <= w * x
    BY <1>2
  <2>2. w * (y + 1) = w * y + w /\ w * y \in Nat
    OBVIOUS
  <2> QED BY <2>1, <2>2
<1>3. w * x \in Nat /\ w * y \in Nat
  OBVIOUS
<1> QED BY <1>1, <1>2, <1>3

LEMMA SampleIs ==
  ASSUME NEW ms, Rateable(ms), NEW i \in 1 .. Len(ms), NEW T \in Rate
  PROVE  /\ ms[i].wer \in Rate
         /\ EditsOf(ms)[i] \in Nat /\ WordsOf(ms)[i] \in Nat \ {0}
         /\ Leq(ms[i].wer, T) <=> EditsOf(ms)[i] * T[2] <= T[1] * WordsOf(ms)[i]
         /\ Leq(T, ms[i].wer) <=> T[1] * WordsOf(ms)[i] <= EditsOf(ms)[i] * T[2]
<1> DEFINE m == ms[i]
           D == Edits(m)
           W == Words(m)
<1>1. i \in DOMAIN ms /\ m \in Metric
  BY DEF Rateable
<1>2. /\ m.truth \in Text /\ m.prediction \in Text /\ m.wer \in Rate
      /\ ~Wordless(m.truth) /\ m.wer = ComputeWER(m.truth, m.prediction)
  BY <1>1 DEF Metric, Rateable, AggregateRaises
<1> HIDE DEF m
<1>3. /\ D \in Nat /\ W \in Nat \ {0}
      /\ \/ m.wer = <<D, W>>
         \/ m.wer = <<1, 1>> /\ D = W
  BY <1>2, RateIs
<1>4. T[1] \in Nat /\ T[2] \in Nat
  BY DEF Rate
<1> HIDE DEF D, W
<1>5. /\ Leq(m.wer, T) <=> D * T[2] <= T[1] * W
      /\ Leq(T, m.wer) <=> T[1] * W <= D * T[2]
  <2>1. CASE m.wer = <<D, W>>
    BY <2>1 DEF Leq
  <2>2. CASE m.wer = <<1, 1>> /\ D = W
    <3>1. (Leq(m.wer, T) <=> T[2] <= T[1]) /\ (Leq(T, m.wer) <=> T[1] <= T[2])
      BY <1>4, <2>2 DEF Leq
    <3>2. /\ T[2] <= T[1] <=> W * T[2] <= W * T[1]
          /\ T[1] <= T[2] <=> W * T[1] <= W * T[2]
      BY <1>3, <1>4, Cancel
    <3>3. W * T[1] = T[1] * W
      BY <1>3, <1>4
    <3> QED BY <2>2, <3>1, <3>2, <3>3
  <2> QED BY <1>3, <2>1, <2>2
<1>6. EditsOf(ms)[i] = D /\ WordsOf(ms)[i] = W
  BY DEF EditsOf, WordsOf, D, W, m
<1> QED BY <1>2, <1>3, <1>5, <1>6 DEF m

LEMMA CorpusIs ==
  ASSUME NEW ms, Rateable(ms)
  PROVE  /\ Len(ms) \in Nat \ {0} /\ DOMAIN ms = 1 .. Len(ms)
         /\ EditsOf(ms) \in [1 .. Len(ms) -> Nat]
         /\ WordsOf(ms) \in [1 .. Len(ms) -> Nat]
         /\ CorpusWER(ms) = <<Sum(EditsOf(ms)), Sum(WordsOf(ms))>>
         /\ CorpusWER(ms) \in Rate
<1>1. Len(ms) \in Nat \ {0} /\ DOMAIN ms = 1 .. Len(ms)
  BY DEF Rateable
<1>2. <<0, 1>> \in Rate
  BY DEF Rate
<1>3. \A i \in 1 .. Len(ms) : EditsOf(ms)[i] \in Nat /\ WordsOf(ms)[i] \in Nat \ {0}
  BY <1>2, SampleIs
<1>4. /\ EditsOf(ms) \in [1 .. Len(ms) -> Nat]
      /\ WordsOf(ms) \in [1 .. Len(ms) -> Nat]
  BY <1>3 DEF EditsOf, WordsOf
<1>5. CorpusWER(ms) = <<Sum(EditsOf(ms)), Sum(WordsOf(ms))>>
  <2> DEFINE refs == [i \in DOMAIN ms |-> Normalize(ms[i].truth)]
             hyps == [i \in DOMAIN ms |-> Normalize(ms[i].prediction)]
  <2>1. [i \in DOMAIN refs |-> Distance(refs[i], hyps[i])] = EditsOf(ms)
    BY <1>1 DEF EditsOf, Edits
  <2>2. [i \in DOMAIN refs |-> Len(refs[i])] = WordsOf(ms)
    BY <1>1 DEF WordsOf, Words
  <2> QED BY <2>1, <2>2 DEF CorpusWER, ProcessWords
<1>6. Sum(WordsOf(ms)) \in Nat \ {0} /\ Sum(EditsOf(ms)) \in Nat
  <2> DEFINE zero == [i \in 1 .. Len(ms) |-> 0]
  <2>1. zero \in [1 .. Len(ms) -> Nat] /\ \A i \in 1 .. Len(ms) : zero[i] = 0
    OBVIOUS
  <2> HIDE DEF zero
  <2>2. Sum(WordsOf(ms)) \in Nat /\ Sum(EditsOf(ms)) \in Nat /\ Sum(zero) \in Nat
    BY <1>1, <1>4, <2>1, SumTyped
  <2>3. \A i \in 1 .. Len(ms) : 0 * zero[i] + 1 <= 1 * WordsOf(ms)[i]
    BY <1>3, <2>1
  <2>4. 0 * Sum(zero) + Len(ms) * 1 <= 1 * Sum(WordsOf(ms))
    BY <1>1, <1>4, <2>1, <2>3, SumsCompare
  <2> QED BY <1>1, <2>2, <2>4
<1> QED BY <1>1, <1>4, <1>5, <1>6 DEF Rate

(* The corpus rate lies between the rates of the samples.                  *)
LEMMA CorpusBetween ==
  ASSUME NEW ms, Rateable(ms), NEW T \in Rate
  PROVE  /\ Leq(CorpusWER(ms), T) => \E r \in Rates(ms) : Leq(r, T)
         /\ ~Leq(CorpusWER(ms), T) => \E r \in Rates(ms) : ~Leq(r, T)
         /\ Leq(T, CorpusWER(ms)) => \E r \in Rates(ms) : Leq(T, r)
<1> DEFINE n == Len(ms)
           D == EditsOf(ms)
           W == WordsOf(ms)
           x == T[1]
           y == T[2]
<1>1. /\ n \in Nat \ {0} /\ DOMAIN ms = 1 .. n
      /\ D \in [1 .. n -> Nat] /\ W \in [1 .. n -> Nat]
      /\ CorpusWER(ms) = <<Sum(D), Sum(W)>>
  BY CorpusIs
<1>2. \A i \in 1 .. n : /\ Leq(ms[i].wer, T) <=> D[i] * y <= x * W[i]
                        /\ Leq(T, ms[i].wer) <=> x * W[i] <= D[i] * y
  BY SampleIs
<1>3. x \in Nat /\ y \in Nat /\ 0 \in Nat /\ 1 \in Nat
  BY DEF Rate
<1>4. Sum(D) \in Nat /\ Sum(W) \in Nat
  BY <1>1, SumTyped
<1>5. /\ Leq(CorpusWER(ms), T) <=> Sum(D) * y <= x * Sum(W)
      /\ Leq(T, CorpusWER(ms)) <=> x * Sum(W) <= Sum(D) * y
  BY <1>1 DEF Leq
<1>6. \A i \in 1 .. n : ms[i].wer \in Rates(ms) /\ D[i] \in Nat /\ W[i] \in Nat
  BY <1>1 DEF Rates
<1> HIDE DEF n, D, W, x, y
<1>7. \A i \in 1 .. n : /\ D[i] * y = y * D[i] /\ D[i] * y \in Nat
                        /\ x * W[i] \in Nat
  BY <1>3, <1>6
<1>8. Sum(D) * y = y * Sum(D) /\ Sum(D) * y \in Nat /\ x * Sum(W) \in Nat
  BY <1>3, <1>4
<1>9. ASSUME Leq(CorpusWER(ms), T), \A r \in Rates(ms) : ~Leq(r, T)
      PROVE  FALSE
  <2>1. \A i \in 1 .. n : x * W[i] + 1 <= y * D[i]
    BY <1>2, <1>6, <1>7, <1>9
  <2>2. x * Sum(W) + n * 1 <= y * Sum(D)
    BY <1>1, <1>3, <2>1, SumsCompare
  <2> QED BY <1>1, <1>5, <1>8, <1>9, <2>2
<1>10. ASSUME ~Leq(CorpusWER(ms), T), \A r \in Rates(ms) : Leq(r, T)
       PROVE  FALSE
  <2>1. \A i \in 1 .. n : y * D[i] + 0 <= x * W[i]
    BY <1>2, <1>6, <1>7, <1>10
  <2>2. y * Sum(D) + n * 0 <= x * Sum(W)
    BY <1>1, <1>3, <2>1, SumsCompare
  <2> QED BY <1>1, <1>5, <1>8, <1>10, <2>2
<1>11. ASSUME Leq(T, CorpusWER(ms)), \A r \in Rates(ms) : ~Leq(T, r)
       PROVE  FALSE
  <2>1. \A i \in 1 .. n : y * D[i] + 1 <= x * W[i]
    BY <1>2, <1>6, <1>7, <1>11
  <2>2. y * Sum(D) + n * 1 <= x * Sum(W)
    BY <1>1, <1>3, <2>1, SumsCompare
  <2> QED BY <1>1, <1>5, <1>8, <1>11, <2>2
<1> QED BY <1>9, <1>10, <1>11

LEMMA InitVerdict == Init => VerdictInv
<1> SUFFICES ASSUME Init PROVE VerdictInv
  OBVIOUS
<1>1. <<>> \in Seq(Text) /\ <<>> \in Seq(Metric) /\ DOMAIN <<>> = {}
  OBVIOUS
<1>2. TypeOK
  BY <1>1 DEF Init, TypeOK
<1> QED BY <1>1, <1>2 DEF Init, VerdictInv

(* The verdict compares the rate over all words with the threshold; so a   *)
(* dataset that passes has a sample that does, and one that fails has one  *)
(* that fails, although compute_wer rates single samples on other paths.   *)
THEOREM VerdictsAreEarned == Spec => []VerdictIsEarned
<1>1. VerdictInv => VerdictIsEarned
  <2> SUFFICES ASSUME VerdictInv, verdict # "none" PROVE VerdictIsEarned
    BY DEF VerdictIsEarned
  <2>1. Rateable(metrics) /\ (verdict = "passed" <=> Leq(CorpusWER(metrics), Threshold))
    BY DEF VerdictInv, Passes
  <2>2. Threshold \in Rate
    BY InputsAssumption
  <2> QED BY <2>1, <2>2, CorpusBetween DEF VerdictIsEarned
<1> QED BY <1>1, InitVerdict, NextVerdict, PTL DEF Spec

---------------------------------------------------------------------------
(* The mean.                                                               *)

LEMMA PlusTyped ==
  ASSUME NEW a \in Rate, NEW b \in Rate
  PROVE  Plus(a, b) \in Rate
<1>1. a[1] \in Nat /\ a[2] \in Nat \ {0} /\ b[1] \in Nat /\ b[2] \in Nat \ {0}
  BY DEF Rate
<1>2. \A p, q \in Nat : p * q \in Nat
  OBVIOUS
<1>3. \A p, q \in Nat \ {0} : p * q \in Nat \ {0}
  OBVIOUS
<1>4. a[1] * b[2] + b[1] * a[2] \in Nat
  BY <1>1, <1>2
<1>5. a[2] * b[2] \in Nat \ {0}
  BY <1>1, <1>3
<1> QED BY <1>4, <1>5 DEF Plus, Rate

(* The fold of the rates adds one after the other.                         *)
LEMMA PlusIs ==
  ASSUME NEW n \in Nat, NEW s \in [1 .. n -> Rate]
  PROVE  \E c \in [0 .. n -> Rate] :
           /\ c[0] = <<0, 1>> /\ c[n] = FoldLeft(Plus, <<0, 1>>, s)
           /\ \A k \in 1 .. n : c[k] = Plus(c[k-1], s[k])
<1> DEFINE P == SUBSET (1 .. n)
           F == [p \in Rate \X (1 .. n) |-> Plus(p[1], s[p[2]])]
           Step(g, A) == IF A = {} THEN <<0, 1>> ELSE Plus(g[A \ {Max(A)}], s[Max(A)])
           it == CHOOSE it : it = [A \in P |-> Step(it, A)]
<1>1. FoldLeft(Plus, <<0, 1>>, s) = it[1 .. n]
  <2>1. DOMAIN s = 1 .. n
    OBVIOUS
  <2> QED BY <2>1 DEF FoldLeft, MapThenFoldSet
<1>2. \A v \in Rate, i \in 1 .. n : F[<<v, i>>] = Plus(v, s[i]) /\ F[<<v, i>>] \in Rate
  BY PlusTyped
<1>3. <<0, 1>> \in Rate
  BY DEF Rate
<1> HIDE DEF F
<1>4. Takes(n, Rate, F)
  BY <1>2 DEF Takes
<1>5. \A A \in P : A # {} => Max(A) \in 1 .. n /\ A \ {Max(A)} \in P
  BY MaxIs
<1>6. \E g : g = [A \in P |-> Step(g, A)]
  <2>1. PICK g \in [P -> Rate] : Folds(g, n, <<0, 1>>, F)
    BY <1>3, <1>4, FoldExists
  <2>2. ASSUME NEW A \in P PROVE g[A] = Step(g, A)
    BY <1>2, <1>5, <2>1 DEF Folds
  <2> QED BY <2>2
<1>7. it = [A \in P |-> Step(it, A)]
  BY <1>6
<1> HIDE DEF it
<1>8. Follows(it, n, Rate, <<0, 1>>, F)
  BY <1>2, <1>5, <1>7 DEF Follows
<1> DEFINE c == [k \in 0 .. n |-> it[1 .. k]]
<1>9. Chain(c, n, Rate, <<0, 1>>, F) /\ c[n] = FoldLeft(Plus, <<0, 1>>, s)
  BY <1>1, <1>3, <1>4, <1>8, ChainOf
<1> HIDE DEF c
<1>10. ASSUME NEW k \in 1 .. n PROVE c[k] = Plus(c[k-1], s[k])
  <2>1. k - 1 \in 0 .. n
    OBVIOUS
  <2>2. c[k] = F[<<c[k-1], k>>] /\ c[k-1] \in Rate
    BY <1>9, <2>1 DEF Chain
  <2> QED BY <1>2, <2>2
<1> QED BY <1>9, <1>10 DEF Chain

(* One more rate above <<x, y>>, or below it.  The products are named,     *)
(* since only their order matters.                                         *)
LEMMA PlusMoves ==
  ASSUME NEW p \in Nat, NEW q \in Nat, NEW a \in Nat \ {0}, NEW b \in Nat \ {0},
         NEW x \in Nat, NEW y \in Nat, NEW k \in Nat
  PROVE  /\ k * (x * a) <= p * y /\ x * b < q * y
              => (k + 1) * (x * (a * b)) < (p * b + q * a) * y
         /\ p * y <= k * (x * a) /\ q * y < x * b
              => (p * b + q * a) * y < (k + 1) * (x * (a * b))
<1> DEFINE s == k * (x * a)
           t == p * y
           u == x * b
           v == q * y
<1>1. s \in Nat /\ t \in Nat /\ u \in Nat /\ v \in Nat
  <2>1. \A i, j \in Nat : i * j \in Nat
    OBVIOUS
  <2> QED BY <2>1
<1>2. (k + 1) * (x * (a * b)) = b * s + a * u
  OBVIOUS
<1>3. (p * b + q * a) * y = b * t + a * v
  OBVIOUS
<1> HIDE DEF s, t, u, v
<1>4. b * s \in Nat /\ b * t \in Nat /\ a * u \in Nat /\ a * v \in Nat
  BY <1>1
<1>5. /\ s <= t <=> b * s <= b * t
      /\ t <= s <=> b * t <= b * s
      /\ v <= u <=> a * v <= a * u
      /\ u <= v <=> a * u <= a * v
  BY <1>1, Cancel
<1>6. s <= t /\ u < v => b * s + a * u < b * t + a * v
  BY <1>1, <1>4, <1>5
<1>7. t <= s /\ v < u => b * t + a * v < b * s + a * u
  BY <1>1, <1>4, <1>5
<1> QED BY <1>2, <1>3, <1>6, <1>7 DEF s, t, u, v

(* Rates that are all above <<x, y>>, or all below it, add up to more, or  *)
(* less, than as many of it.                                               *)
LEMMA PlusCompare ==
  ASSUME NEW n \in Nat \ {0}, NEW s \in [1 .. n -> Rate],
         NEW c \in [0 .. n -> Rate], c[0] = <<0, 1>>,
         \A k \in 1 .. n : c[k] = Plus(c[k-1], s[k]),
         NEW x \in Nat, NEW y \in Nat
  PROVE  /\ (\A i \in 1 .. n : x * s[i][2] < s[i][1] * y)
              => n * (x * c[n][2]) < c[n][1] * y
         /\ (\A i \in 1 .. n : s[i][1] * y < x * s[i][2])
              => c[n][1] * y < n * (x * c[n][2])
<1> DEFINE More(k) == k * (x * c[k][2]) < c[k][1] * y
           Less(k) == c[k][1] * y < k * (x * c[k][2])
           Above == \A i \in 1 .. n : x * s[i][2] < s[i][1] * y
           Below == \A i \in 1 .. n : s[i][1] * y < x * s[i][2]
           S == {k \in Nat : k + 1 <= n => (Above => More(k + 1)) /\ (Below => Less(k + 1))}
<1>1. ASSUME NEW k \in 0 .. n - 1
      PROVE  /\ c[k][1] \in Nat /\ c[k][2] \in Nat \ {0}
             /\ s[k + 1][1] \in Nat /\ s[k + 1][2] \in Nat \ {0}
             /\ c[k + 1][1] = c[k][1] * s[k + 1][2] + s[k + 1][1] * c[k][2]
             /\ c[k + 1][2] = c[k][2] * s[k + 1][2]
  <2>1. k \in 0 .. n /\ k + 1 \in 1 .. n /\ (k + 1) - 1 = k
    OBVIOUS
  <2>2. c[k] \in Rate /\ s[k + 1] \in Rate /\ c[k + 1] = Plus(c[k], s[k + 1])
    BY <2>1
  <2> QED BY <2>2 DEF Plus, Rate
<1>2. ASSUME NEW k \in 0 .. n - 1
      PROVE  /\ Above /\ k * (x * c[k][2]) <= c[k][1] * y => More(k + 1)
             /\ Below /\ c[k][1] * y <= k * (x * c[k][2]) => Less(k + 1)
  <2> DEFINE p == c[k][1]
             a == c[k][2]
             q == s[k + 1][1]
             b == s[k + 1][2]
  <2>1. k \in Nat /\ k + 1 \in 1 .. n
    OBVIOUS
  <2>2. p \in Nat /\ a \in Nat \ {0} /\ q \in Nat /\ b \in Nat \ {0}
    BY <1>1
  <2>3. c[k + 1][1] = p * b + q * a /\ c[k + 1][2] = a * b
    BY <1>1
  <2>4. (Above => x * b < q * y) /\ (Below => q * y < x * b)
    BY <2>1
  <2> HIDE DEF p, a, q, b, Above, Below
  <2>5. /\ k * (x * a) <= p * y /\ x * b < q * y
             => (k + 1) * (x * (a * b)) < (p * b + q * a) * y
        /\ p * y <= k * (x * a) /\ q * y < x * b
             => (p * b + q * a) * y < (k + 1) * (x * (a * b))
    BY <2>1, <2>2, PlusMoves
  <2>6. /\ Above /\ k * (x * a) <= p * y => More(k + 1)
        /\ Below /\ p * y <= k * (x * a) => Less(k + 1)
    BY <2>3, <2>4, <2>5
  <2> QED BY <2>6 DEF p, a
<1>3. 0 \in S
  <2>1. /\ 0 \in 0 .. n - 1 /\ c[0][1] = 0 /\ c[0][2] = 1
        /\ 0 * (x * c[0][2]) <= c[0][1] * y /\ c[0][1] * y <= 0 * (x * c[0][2])
    OBVIOUS
  <2> HIDE DEF More, Less, Above, Below
  <2>2. (Above => More(0 + 1)) /\ (Below => Less(0 + 1))
    BY <1>2, <2>1
  <2> QED BY <2>2
<1>4. ASSUME NEW k \in S PROVE k + 1 \in S
  <2> SUFFICES ASSUME (k + 1) + 1 <= n
               PROVE  (Above => More((k + 1) + 1)) /\ (Below => Less((k + 1) + 1))
    OBVIOUS
  <2>1. k + 1 \in 0 .. n - 1 /\ k + 1 <= n
    OBVIOUS
  <2>2. (Above => More(k + 1)) /\ (Below => Less(k + 1))
    BY <2>1
  <2> HIDE DEF Above, Below
  <2>3. c[k + 1][1] * y \in Int /\ (k + 1) * (x * c[k + 1][2]) \in Int
    <3>1. c[k + 1][1] \in Nat /\ c[k + 1][2] \in Nat /\ k + 1 \in Nat
      BY <1>1, <2>1
    <3>2. \A i, j \in Nat : i * j \in Nat
      OBVIOUS
    <3> QED BY <3>1, <3>2
  <2>4. /\ Above => (k + 1) * (x * c[k + 1][2]) <= c[k + 1][1] * y
        /\ Below => c[k + 1][1] * y <= (k + 1) * (x * c[k + 1][2])
    BY <2>2, <2>3
  <2> HIDE DEF More, Less
  <2> QED BY <1>2, <2>1, <2>4
<1>5. n - 1 \in S /\ (n - 1) + 1 = n
  <2>1. n - 1 \in Nat /\ (n - 1) + 1 = n
    OBVIOUS
  <2> HIDE DEF S
  <2>2. S \subseteq Nat
    BY DEF S
  <2> QED BY <1>3, <1>4, <2>1, <2>2, SetInduction
<1> QED BY <1>5

(* A rate between two of the samples' rates.                               *)
Between(w, ms) == (\E r \in Rates(ms) : Leq(r, w)) /\ (\E r \in Rates(ms) : Leq(w, r))

LEMMA MeanBetween ==
  ASSUME NEW ms, Rateable(ms)
  PROVE  Between(MeanWER(ms), ms)
<1> DEFINE n == Len(ms)
           s == [i \in DOMAIN ms |-> ms[i].wer]
<1>1. n \in Nat \ {0} /\ DOMAIN ms = 1 .. n
  BY CorpusIs
<1>2. <<0, 1>> \in Rate
  BY DEF Rate
<1>3. /\ s \in [1 .. n -> Rate]
      /\ \A i \in 1 .. n : s[i] \in Rates(ms)
  BY <1>1, <1>2, SampleIs DEF Rates
<1>4. MeanWER(ms) = Over(FoldLeft(Plus, <<0, 1>>, s), n)
  BY DEF MeanWER
<1> HIDE DEF n, s
<1>5. PICK c \in [0 .. n -> Rate] :
        /\ c[0] = <<0, 1>> /\ c[n] = FoldLeft(Plus, <<0, 1>>, s)
        /\ \A k \in 1 .. n : c[k] = Plus(c[k-1], s[k])
  BY <1>1, <1>3, PlusIs
<1> DEFINE p == c[n][1]
           a == c[n][2]
           M == MeanWER(ms)
<1>6. p \in Nat /\ a \in Nat /\ a * n \in Nat /\ M[1] = p /\ M[2] = a * n
  <2>1. c[n] \in Rate
    BY <1>1
  <2>2. p \in Nat /\ a \in Nat
    BY <2>1 DEF Rate
  <2>3. a * n \in Nat
    BY <1>1, <2>2
  <2> QED BY <1>4, <1>5, <2>2, <2>3 DEF Over
<1>7. \A i \in 1 .. n : s[i][1] \in Nat /\ s[i][2] \in Nat
  BY <1>3 DEF Rate
<1> HIDE DEF M
<1>8. /\ (\A i \in 1 .. n : p * s[i][2] < s[i][1] * (a * n)) => n * (p * a) < p * (a * n)
      /\ (\A i \in 1 .. n : s[i][1] * (a * n) < p * s[i][2]) => p * (a * n) < n * (p * a)
  BY <1>1, <1>3, <1>5, <1>6, PlusCompare
<1> HIDE DEF p, a
<1>9. n * (p * a) = p * (a * n) /\ p * (a * n) \in Nat
  BY <1>1, <1>6
<1>10. \A i \in 1 .. n : p * s[i][2] \in Nat /\ s[i][1] * (a * n) \in Nat
  BY <1>6, <1>7
<1>11. \E i \in 1 .. n : Leq(s[i], M)
  <2> SUFFICES ASSUME \A i \in 1 .. n : ~Leq(s[i], M) PROVE FALSE
    OBVIOUS
  <2>1. \A i \in 1 .. n : p * s[i][2] < s[i][1] * (a * n)
    <3> TAKE i \in 1 .. n
    <3>1. ~(s[i][1] * (a * n) <= p * s[i][2])
      BY <1>6 DEF Leq
    <3> QED BY <1>10, <3>1
  <2> QED BY <1>8, <1>9, <2>1
<1>12. \E i \in 1 .. n : Leq(M, s[i])
  <2> SUFFICES ASSUME \A i \in 1 .. n : ~Leq(M, s[i]) PROVE FALSE
    OBVIOUS
  <2>1. \A i \in 1 .. n : s[i][1] * (a * n) < p * s[i][2]
    BY <1>6, <1>10 DEF Leq
  <2> QED BY <1>8, <1>9, <2>1
<1> QED BY <1>3, <1>11, <1>12 DEF Between, M

---------------------------------------------------------------------------
(* The median.                                                             *)

LEMMA LeqTotal ==
  ASSUME NEW a \in Rate, NEW b \in Rate
  PROVE  Leq(a, b) \/ Leq(b, a)
<1>1. a[1] \in Nat /\ a[2] \in Nat /\ b[1] \in Nat /\ b[2] \in Nat
  BY DEF Rate
<1>2. \A i, j \in Nat : i * j \in Nat
  OBVIOUS
<1>3. a[1] * b[2] \in Nat /\ b[1] * a[2] \in Nat
  BY <1>1, <1>2
<1> QED BY <1>3 DEF Leq

LEMMA LeqTransitive ==
  ASSUME NEW a \in Rate, NEW b \in Rate, NEW c \in Rate, Leq(a, b), Leq(b, c)
  PROVE  Leq(a, c)
<1> DEFINE p == a[1]
           x == a[2]
           q == b[1]
           y == b[2]
           r == c[1]
           z == c[2]
<1>1. /\ p \in Nat /\ q \in Nat /\ r \in Nat
      /\ x \in Nat \ {0} /\ y \in Nat \ {0} /\ z \in Nat \ {0}
  BY DEF Rate
<1>2. p * y <= q * x /\ q * z <= r * y
  BY DEF Leq
<1> HIDE DEF p, x, q, y, r, z
<1>3. \A i, j \in Nat : i * j \in Nat
  OBVIOUS
<1>4. /\ p * y \in Nat /\ q * x \in Nat /\ q * z \in Nat /\ r * y \in Nat
      /\ p * z \in Nat /\ r * x \in Nat
  BY <1>1, <1>3
<1>5. z * (p * y) <= z * (q * x) /\ x * (q * z) <= x * (r * y)
  BY <1>1, <1>2, <1>4, Cancel
<1>6. /\ z * (p * y) = y * (p * z) /\ z * (q * x) = x * (q * z)
      /\ x * (r * y) = y * (r * x)
  BY <1>1
<1>7. y * (p * z) <= y * (r * x)
  <2>1. /\ z * (p * y) \in Nat /\ z * (q * x) \in Nat
        /\ x * (q * z) \in Nat /\ x * (r * y) \in Nat
    BY <1>1, <1>3, <1>4
  <2> QED BY <1>5, <1>6, <2>1
<1>8. p * z <= r * x
  BY <1>1, <1>4, <1>7, Cancel
<1> QED BY <1>8 DEF Leq, p, x, r, z

(* A sorted position has its rate, so Nth chooses one.                     *)
LEMMA NthIs ==
  ASSUME NEW ms, Rateable(ms), NEW k \in 1 .. Len(ms)
  PROVE  Nth(ms, k) \in Rates(ms)
<1> DEFINE n == Len(ms)
           f == [i \in 1 .. n |-> ms[i].wer]
           Under(i) == {j \in 1 .. n : ~Leq(f[i], f[j])}
           Upto(i) == {j \in 1 .. n : Leq(f[j], f[i])}
           B == {i \in 1 .. n : Cardinality(Upto(i)) >= k}
           R == {p \in (1 .. n) \X (1 .. n) : Leq(f[p[1]], f[p[2]])}
           Q == {p \in (1 .. n) \X (1 .. n) : Leq(f[p[2]], f[p[1]])}
<1>1. n \in Nat \ {0} /\ DOMAIN ms = 1 .. n
  BY CorpusIs
<1>2. \A i \in 1 .. n : f[i] \in Rate /\ f[i] = ms[i].wer
  <2>1. <<0, 1>> \in Rate
    BY DEF Rate
  <2> QED BY <2>1, SampleIs
<1>3. \A i, j \in 1 .. n : /\ <<i, j>> \in R <=> Leq(f[i], f[j])
                           /\ <<i, j>> \in Q <=> Leq(f[j], f[i])
  OBVIOUS
<1> HIDE DEF f, R, Q
<1>4. Ordered(n, R) /\ Ordered(n, Q)
  <2>1. \A i, j \in 1 .. n : Leq(f[i], f[j]) \/ Leq(f[j], f[i])
    BY <1>2, LeqTotal
  <2>2. \A i, j, l \in 1 .. n : Leq(f[i], f[j]) /\ Leq(f[j], f[l]) => Leq(f[i], f[l])
    BY <1>2, LeqTransitive
  <2> QED BY <1>3, <2>1, <2>2 DEF Ordered
<1> HIDE DEF n
<1>5. /\ IsFiniteSet(1 .. n) /\ Cardinality(1 .. n) = n
      /\ \A A : A \subseteq 1 .. n => IsFiniteSet(A) /\ Cardinality(A) \in Nat
  <2>1. 1 \in Int /\ n \in Int /\ ~(1 > n) /\ n - 1 + 1 = n
    BY <1>1
  <2>2. IsFiniteSet(1 .. n) /\ Cardinality(1 .. n) = n
    BY <2>1, FS_Interval
  <2> QED BY <2>2, FS_Subset, FS_CardinalityType
<1>6. B # {}
  <2>1. 1 .. n # {}
    BY <1>1
  <2>2. PICK i \in 1 .. n : \A j \in 1 .. n : <<j, i>> \in R
    BY <1>1, <1>4, <2>1, LastExists DEF HasLast
  <2>3. Upto(i) = 1 .. n
    BY <1>3, <2>2
  <2>4. k <= n
    BY DEF n
  <2> QED BY <1>1, <1>5, <2>3, <2>4
<1>7. PICK i \in B : \A j \in B : Leq(f[i], f[j])
  <2>1. B \subseteq 1 .. n
    OBVIOUS
  <2> HIDE DEF B
  <2>2. PICK i \in B : \A j \in B : <<j, i>> \in Q
    BY <1>1, <1>4, <1>6, <2>1, LastExists DEF HasLast
  <2> QED BY <1>3, <2>1, <2>2
<1>8. Cardinality(Under(i)) < k
  <2> SUFFICES ASSUME ~(Cardinality(Under(i)) < k) PROVE FALSE
    OBVIOUS
  <2> DEFINE C == Under(i)
  <2>1. C \subseteq 1 .. n /\ Cardinality(C) \in Nat /\ Cardinality(C) >= k /\ k \in Nat /\ k > 0
    BY <1>5
  <2>2. C # {}
    BY <2>1, FS_EmptySet
  <2>3. \A j \in C : ~Leq(f[i], f[j])
    OBVIOUS
  <2> HIDE DEF C
  <2>4. PICK l \in C : \A j \in C : <<j, l>> \in R
    BY <1>1, <1>4, <2>1, <2>2, LastExists DEF HasLast
  <2>5. C \subseteq Upto(l) /\ Upto(l) \subseteq 1 .. n
    BY <1>3, <2>1, <2>4
  <2>6. Cardinality(C) <= Cardinality(Upto(l)) /\ Cardinality(Upto(l)) \in Nat
    <3>1. IsFiniteSet(Upto(l)) /\ Cardinality(Upto(l)) \in Nat
      BY <1>5, <2>5
    <3> HIDE DEF Upto
    <3> QED BY <2>5, <3>1, FS_Subset
  <2>7. l \in B
    BY <2>1, <2>4, <2>6
  <2> QED BY <1>7, <2>3, <2>4, <2>7
<1>9. /\ ms[i].wer \in Rates(ms)
      /\ Cardinality({j \in DOMAIN ms : ~Leq(ms[i].wer, ms[j].wer)}) < k
      /\ Cardinality({j \in DOMAIN ms : Leq(ms[j].wer, ms[i].wer)}) >= k
  <2>1. i \in 1 .. n /\ f[i] = ms[i].wer
    BY <1>2
  <2>2. /\ Under(i) = {j \in DOMAIN ms : ~Leq(ms[i].wer, ms[j].wer)}
        /\ Upto(i) = {j \in DOMAIN ms : Leq(ms[j].wer, ms[i].wer)}
    BY <1>1, <1>2, <2>1
  <2>3. Cardinality(Upto(i)) >= k
    OBVIOUS
  <2>4. ms[i].wer \in Rates(ms)
    BY <1>1, <2>1 DEF Rates
  <2> HIDE DEF Under, Upto
  <2> QED BY <1>8, <2>2, <2>3, <2>4
<1> QED BY <1>9 DEF Nth

(* Half the sum of two rates lies between them.                            *)
LEMMA MiddleBetween ==
  ASSUME NEW a \in Rate, NEW b \in Rate, Leq(a, b)
  PROVE  /\ Leq(a, Over(Plus(a, b), 2)) /\ Leq(Over(Plus(a, b), 2), b)
         /\ Leq(a, Over(Plus(b, a), 2)) /\ Leq(Over(Plus(b, a), 2), b)
<1> DEFINE p == a[1]
           x == a[2]
           q == b[1]
           y == b[2]
<1>1. p \in Nat /\ q \in Nat /\ x \in Nat \ {0} /\ y \in Nat \ {0}
  BY DEF Rate
<1>2. p * y <= q * x
  BY DEF Leq
<1> HIDE DEF p, x, q, y
<1>3. p * y \in Nat /\ q * x \in Nat
  BY <1>1
<1>4. x * (p * y) <= x * (q * x) /\ y * (p * y) <= y * (q * x)
  BY <1>1, <1>2, <1>3, Cancel
<1>5. /\ p * ((x * y) * 2) = x * (p * y) + x * (p * y)
      /\ (p * y + q * x) * x = x * (p * y) + x * (q * x)
      /\ (p * y + q * x) * y = y * (p * y) + y * (q * x)
      /\ q * ((x * y) * 2) = y * (q * x) + y * (q * x)
      /\ x * y = y * x /\ q * x + p * y = p * y + q * x
  BY <1>1
<1>6. /\ x * (p * y) \in Nat /\ x * (q * x) \in Nat
      /\ y * (p * y) \in Nat /\ y * (q * x) \in Nat
  BY <1>1, <1>3
<1>7. /\ p * ((x * y) * 2) <= (p * y + q * x) * x
      /\ (p * y + q * x) * y <= q * ((x * y) * 2)
  BY <1>4, <1>5, <1>6
<1>8. /\ Over(Plus(a, b), 2) = <<p * y + q * x, (x * y) * 2>>
      /\ Over(Plus(b, a), 2) = <<q * x + p * y, (y * x) * 2>>
  BY DEF Over, Plus, p, x, q, y
<1>9. a[1] = p /\ a[2] = x /\ b[1] = q /\ b[2] = y
  BY DEF p, x, q, y
<1> QED BY <1>5, <1>7, <1>8, <1>9 DEF Leq

LEMMA MedianBetween ==
  ASSUME NEW ms, Rateable(ms)
  PROVE  Between(MedianWER(ms), ms)
<1> DEFINE n == Len(ms)
           a == Nth(ms, n \div 2)
           b == Nth(ms, n \div 2 + 1)
<1>1. n \in Nat \ {0} /\ DOMAIN ms = 1 .. n
  BY CorpusIs
<1>2. \A r \in Rates(ms) : r \in Rate
  <2>1. <<0, 1>> \in Rate
    BY DEF Rate
  <2> QED BY <1>1, <2>1, SampleIs DEF Rates
<1>3. /\ n \div 2 + 1 \in 1 .. Len(ms)
      /\ n % 2 = 0 => n \div 2 \in 1 .. Len(ms)
  BY <1>1
<1>4. b \in Rates(ms) /\ (n % 2 = 0 => a \in Rates(ms))
  BY <1>3, NthIs
<1>5. MedianWER(ms) = IF n % 2 = 0 THEN Over(Plus(a, b), 2) ELSE b
  BY DEF MedianWER
<1> HIDE DEF n, a, b
<1>6. CASE n % 2 = 0
  <2>1. a \in Rate /\ b \in Rate
    BY <1>2, <1>4, <1>6
  <2>2. CASE Leq(a, b)
    BY <1>4, <1>5, <1>6, <2>1, <2>2, MiddleBetween DEF Between
  <2>3. CASE Leq(b, a)
    BY <1>4, <1>5, <1>6, <2>1, <2>3, MiddleBetween DEF Between
  <2> QED BY <2>1, <2>2, <2>3, LeqTotal
<1>7. CASE n % 2 # 0
  <2>1. Leq(b, b)
    BY <1>2, <1>4, LeqTotal
  <2> QED BY <1>4, <1>5, <1>7, <2>1 DEF Between
<1> QED BY <1>6, <1>7

(* The report gives three rates of the dataset, each computed in its own   *)
(* way: over all words, as the mean and as the median of the samples.      *)
(* None of them leaves the range of the samples' rates.                    *)
THEOREM RatesLieBetween == Spec => []RatesAgree
<1>1. VerdictInv => RatesAgree
  <2> SUFFICES ASSUME VerdictInv, verdict # "none"
               PROVE  \A w \in {CorpusWER(metrics), MeanWER(metrics), MedianWER(metrics)} :
                        Between(w, metrics)
    BY DEF RatesAgree, Between
  <2>1. Rateable(metrics)
    BY DEF VerdictInv
  <2>2. Between(CorpusWER(metrics), metrics)
    <3>1. CorpusWER(metrics) \in Rate
      BY <2>1, CorpusIs
    <3>2. Leq(CorpusWER(metrics), CorpusWER(metrics))
      BY <3>1, LeqTotal
    <3> QED BY <2>1, <3>1, <3>2, CorpusBetween DEF Between
  <2> QED BY <2>1, <2>2, MeanBetween, MedianBetween
<1> QED BY <1>1, InitVerdict, NextVerdict, PTL DEF Spec
============================================================================
