---------------------------- MODULE EvalHarness ----------------------------
(***************************************************************************)
(* One run of the evaluation harness (eval/vox_eval): `vox-eval run` loads *)
(* a dataset, has the gateway transcribe each sample, compares each answer *)
(* with the truth, computes the corpus word error rate, writes a report    *)
(* and exits with the verdict.  Each step may fail, and what a failure     *)
(* means depends on the step.                                              *)
(*                                                                         *)
(* A text is a sequence of tokens, and Expand what _normalize makes of a   *)
(* token: a contraction gives two words, punctuation none.  Rates are      *)
(* fractions.  The alignment of jiwer 3 is modelled by what it promises:   *)
(* the least number of edits, and ValueError for a reference without       *)
(* words.  Times and wording are left out; of the console it matters that  *)
(* printing to it may raise, when its reader has gone or it has no ticks.  *)
(***************************************************************************)
EXTENDS Naturals, Sequences, SequencesExt

CONSTANTS
  Token, Expand,   (* tokens, and the words each is normalized to          *)
  Manifests,       (* manifests that may be given: sequences of rows       *)
  Predictions,     (* texts the gateway may answer                         *)
  Threshold        (* --threshold, a fraction                              *)

Text == Seq(Token)
Rate == Nat \X (Nat \ {0})   (* a fraction *)

ASSUME InputsAssumption ==
  /\ \A t \in Token : Expand[t] \in Seq(STRING)
  /\ Predictions \subseteq Text
  /\ Manifests \subseteq Seq([text : Text, audio : BOOLEAN])
  /\ Threshold \in Rate

VARIABLES
  manifest,             (* the dataset directory                           *)
  stdout,               (* "breaks": a print may raise                     *)
  json, reportPath,     (* --json and --report-path are given              *)
  pc, todo,             (* the step, and the samples yet to transcribe     *)
  metrics, errors,      (* sample_metrics, and errors by their truth       *)
  verdict, report, exit (* of the run; report: the file at --report-path   *)

vars == <<manifest, stdout, json, reportPath, pc, todo, metrics, errors, verdict, report, exit>>

----------------------------------------------------------------------------
(* metrics.py.                                                             *)

Normalize(text) == FlattenSeq([i \in DOMAIN text |-> Expand[text[i]]])

(* The edit distance of words, as jiwer counts it.                         *)
Distance(ref, hyp) ==
  LET d[p \in (0 .. Len(ref)) \X (0 .. Len(hyp))] ==
        LET i == p[1]
            j == p[2]
        IN IF i = 0 THEN j ELSE IF j = 0 THEN i
           ELSE Min({d[<<i-1, j>>] + 1, d[<<i, j-1>>] + 1,
                     d[<<i-1, j-1>>] + IF ref[i] = hyp[j] THEN 0 ELSE 1})
  IN d[<<Len(ref), Len(hyp)>>]

Sum(s) == FoldLeft(LAMBDA a, b : a + b, 0, s)

(* jiwer.process_words, as the rate it returns.                            *)
ProcessWords(refs, hyps) ==
  <<Sum([i \in DOMAIN refs |-> Distance(refs[i], hyps[i])]),
    Sum([i \in DOMAIN refs |-> Len(refs[i])])>>

Wordless(text) == Normalize(text) = <<>>

(* compute_wer: texts without tokens do not reach jiwer.                   *)
ComputeWER(truth, prediction) ==
  IF truth = <<>> THEN <<IF prediction # <<>> THEN 1 ELSE 0, 1>>
  ELSE IF prediction = <<>> THEN <<1, 1>>
  ELSE ProcessWords(<<Normalize(truth)>>, <<Normalize(prediction)>>)

ComputeWERRaises(truth, prediction) ==
  truth # <<>> /\ prediction # <<>> /\ Wordless(truth)

(* aggregate.                                                              *)
Leq(a, b)  == a[1] * b[2] <= b[1] * a[2]
Plus(a, b) == <<a[1] * b[2] + b[1] * a[2], a[2] * b[2]>>
Over(a, n) == <<a[1], a[2] * n>>

Rates(ms) == {ms[i].wer : i \in DOMAIN ms}

(* sorted(wers)[k-1], the k-th smallest: fewer than k are below it, and    *)
(* at least k are not above.                                               *)
Nth(ms, k) ==
  CHOOSE r \in Rates(ms) :
    /\ Cardinality({i \in DOMAIN ms : ~Leq(r, ms[i].wer)}) < k
    /\ Cardinality({i \in DOMAIN ms : Leq(ms[i].wer, r)}) >= k

MedianWER(ms) ==
  LET n == Len(ms)
  IN IF n % 2 = 0 THEN Over(Plus(Nth(ms, n \div 2), Nth(ms, n \div 2 + 1)), 2)
     ELSE Nth(ms, n \div 2 + 1)

MeanWER(ms) ==
  Over(FoldLeft(Plus, <<0, 1>>, [i \in DOMAIN ms |-> ms[i].wer]), Len(ms))

(* Faulty variant: only the references are normalized. *)
CorpusWERHalf(ms) ==
  ProcessWords([i \in DOMAIN ms |-> Normalize(ms[i].truth)],
               [i \in DOMAIN ms |-> ms[i].prediction])

CorpusWER(ms) ==
  ProcessWords([i \in DOMAIN ms |-> Normalize(ms[i].truth)],
               [i \in DOMAIN ms |-> Normalize(ms[i].prediction)])

AggregateRaises(ms) == \E i \in DOMAIN ms : Wordless(ms[i].truth)

TotalReferenceWords(ms) == Sum([i \in DOMAIN ms |-> Len(ms[i].truth)])

----------------------------------------------------------------------------
(* dataset.py, runner.py, cli.py.                                          *)

Metric == [truth : Text, prediction : Text, wer : Rate]

TypeOK ==
  /\ stdout \in {"sound", "breaks"}
  /\ manifest \in Manifests /\ json \in BOOLEAN /\ reportPath \in BOOLEAN
  /\ pc \in {"load", "transcribe", "aggregate", "save", "saveAs", "exit", "done"}
  /\ todo \in Seq(Text) /\ metrics \in Seq(Metric) /\ errors \in Seq(Text)
  /\ verdict \in {"none", "passed", "failed"}
  /\ report \in {"none", "torn", "passed", "failed"}
  /\ exit \in {"none", "0", "1", "120"}

Init ==
  /\ stdout \in {"sound", "breaks"}
  /\ manifest \in Manifests /\ json \in BOOLEAN /\ reportPath \in BOOLEAN
  /\ pc = "load" /\ todo = <<>> /\ metrics = <<>> /\ errors = <<>>
  /\ verdict = "none" /\ report = "none" /\ exit = "none"

inputs == <<manifest, stdout, json, reportPath>>
work   == <<todo, metrics, errors>>

(* Faulty variant: an exit code of its own for a run that breaks off. *)
AbortApart == pc' = "done" /\ exit' = "2"

(* The interpreter flushes stdout at its end: if that fails, it exits with *)
(* 120, whatever the code was to be.                                       *)
Leave(code) ==
  pc' = "done" /\ exit' \in {code} \cup (IF stdout = "breaks" THEN {"120"} ELSE {})

(* sys.exit(1), or an exception nobody catches.                            *)
Abort == Leave("1")

(* A print raises where nothing catches it: in run outside the loop's try, *)
(* which an error's own print is, behind the report at --report-path, or   *)
(* the report itself for --json.                                           *)
PrintRaises ==
  /\ stdout = "breaks"
  /\ \/ pc \in {"load", "transcribe", "save"} /\ UNCHANGED report
     \/ pc = "saveAs" /\ reportPath /\ report' = verdict
     \/ pc = "exit" /\ json /\ UNCHANGED report
  /\ Abort
  /\ UNCHANGED <<inputs, work, verdict>>

(* load_dataset: a row without a text or an audio file spoils the whole    *)
(* manifest, and an empty manifest will not do.                            *)
LoadDataset ==
  /\ pc = "load"
  /\ IF manifest # <<>> /\ \A i \in DOMAIN manifest : manifest[i].audio /\ manifest[i].text # <<>>
     THEN /\ todo' = [i \in DOMAIN manifest |-> manifest[i].text]
          /\ pc' = "transcribe" /\ UNCHANGED exit
     ELSE Abort /\ UNCHANGED todo
  /\ UNCHANGED <<inputs, metrics, errors, verdict, report>>

(* Faulty variant: an error is reported on the console only. *)
RecordErrorNot(truth) == UNCHANGED errors

RecordError(truth) == errors' = Append(errors, truth)

(* One turn of the loop: the gateway answers and the answer is measured,   *)
(* or an exception of either is recorded as an error of the sample.  If it *)
(* is the print behind the metric that raises, the sample has both.        *)
Transcribe ==
  /\ pc = "transcribe" /\ todo # <<>>
  /\ todo' = Tail(todo)
  /\ LET truth == Head(todo) IN
       \/ \E p \in Predictions :
            /\ ~ComputeWERRaises(truth, p)
            /\ metrics' = Append(metrics, [truth |-> truth, prediction |-> p,
                                           wer |-> ComputeWER(truth, p)])
            /\ UNCHANGED errors \/ (stdout = "breaks" /\ RecordError(truth))
       \/ RecordError(truth) /\ UNCHANGED metrics
  /\ UNCHANGED <<inputs, pc, verdict, report, exit>>

LoopEnds ==
  /\ pc = "transcribe" /\ todo = <<>>
  /\ pc' = "aggregate"
  /\ UNCHANGED <<inputs, work, verdict, report, exit>>

(* Faulty variant: the sanity check of AggregateMetrics.passed. *)
PassesSanity(ms) == LET w == CorpusWER(ms) IN w[1] < w[2]

Passes(ms) == Leq(CorpusWER(ms), Threshold)

(* The verdict.  With no sample transcribed, or one whose truth has no     *)
(* words, there is none.                                                   *)
Aggregate ==
  /\ pc = "aggregate"
  /\ IF metrics = <<>> \/ AggregateRaises(metrics) THEN Abort /\ UNCHANGED verdict
     ELSE /\ verdict' = IF Passes(metrics) THEN "passed" ELSE "failed"
          /\ pc' = "save" /\ UNCHANGED exit
  /\ UNCHANGED <<inputs, work, report>>

(* report.save into --output, unless --json is given; the disk may refuse. *)
Save ==
  /\ pc = "save"
  /\ \/ pc' = "saveAs" /\ UNCHANGED exit
     \/ ~json /\ Abort
  /\ UNCHANGED <<inputs, work, verdict, report>>

(* Faulty variant: a report that cannot be written is not missed. *)
SaveAsTrying ==
  /\ pc = "saveAs"
  /\ pc' = "exit"
  /\ IF reportPath THEN report' \in {verdict, "none", "torn"} ELSE UNCHANGED report
  /\ UNCHANGED <<inputs, work, verdict, exit>>

(* report.save_as at --report-path; a write may stop half-way.             *)
SaveAs ==
  /\ pc = "saveAs"
  /\ \/ pc' = "exit" /\ report' = (IF reportPath THEN verdict ELSE report) /\ UNCHANGED exit
     \/ reportPath /\ Abort /\ report' \in {"none", "torn"}
  /\ UNCHANGED <<inputs, work, verdict>>

Exit ==
  /\ pc = "exit"
  /\ Leave(IF verdict = "passed" THEN "0" ELSE "1")
  /\ UNCHANGED <<inputs, work, verdict, report>>

Next ==
  \/ LoadDataset \/ Transcribe \/ LoopEnds \/ Aggregate \/ Save \/ SaveAs \/ Exit
  \/ PrintRaises

Spec == Init /\ [][Next]_vars

----------------------------------------------------------------------------
(* Properties.                                                             *)

(* Of so many samples with a text so many are measured and so many are in  *)
(* errors: each is one or the other.  Only a print that raises may make a  *)
(* sample both.                                                            *)
Accounts(given, measured, refused) ==
  /\ measured <= given /\ refused <= given /\ given <= measured + refused
  /\ stdout = "sound" => given = measured + refused

(* A run that gives a verdict has measured or reported every sample of the *)
(* manifest, and none in either list twice: failures are left out of the   *)
(* rate, never out of the report.                                          *)
EverySampleReported ==
  verdict # "none" =>
    /\ Accounts(Len(manifest), Len(metrics), Len(errors))
    /\ \A t \in {manifest[i].text : i \in DOMAIN manifest} :
         Accounts(Cardinality({i \in DOMAIN manifest : manifest[i].text = t}),
                  Cardinality({i \in DOMAIN metrics : metrics[i].truth = t}),
                  Cardinality({i \in DOMAIN errors : errors[i] = t}))

(* The corpus rate, computed over all words at once, the mean and the      *)
(* median lie between the rates of the samples, although compute_wer has   *)
(* branches of its own for empty texts and jiwer sees other texts there.   *)
RatesAgree ==
  verdict # "none" =>
    \A w \in {CorpusWER(metrics), MeanWER(metrics), MedianWER(metrics)} :
      (\E r \in Rates(metrics) : Leq(r, w)) /\ (\E r \in Rates(metrics) : Leq(w, r))

(* The verdict is borne out by a sample: passing by one at most at the     *)
(* threshold, failing by one above it.                                     *)
VerdictIsEarned ==
  /\ verdict = "passed" => \E r \in Rates(metrics) : Leq(r, Threshold)
  /\ verdict = "failed" => \E r \in Rates(metrics) : ~Leq(r, Threshold)

(* Exit code and report, which CI and the EvalRun controller go by, do not *)
(* contradict each other: 0 means a verdict of passed and, where one was   *)
(* asked for, a whole report; a report that passed comes with another code *)
(* only if printing failed behind it.                                      *)
ExitMatchesReport ==
  exit # "none" =>
    /\ exit = "0" => verdict = "passed" /\ (reportPath => report = "passed")
    /\ report = "failed" => exit # "0"
    /\ report = "passed" /\ stdout = "sound" => exit = "0"
============================================================================
