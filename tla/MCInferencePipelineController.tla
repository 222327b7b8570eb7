------------------- MODULE MCInferencePipelineController -------------------
(***************************************************************************)
(* InferencePipelineController for TLC.                                    *)
(***************************************************************************)
EXTENDS InferencePipelineController

CONSTANTS stt, llm

On(m)  == [model |-> m, enabled |-> TRUE]
Off(m) == [model |-> m, enabled |-> FALSE]

(* Both models, and the other way round with the second one switched off. *)
MCSpecs == {<<On(stt), On(llm)>>, <<On(llm), Off(stt)>>}

(* Fewer clusters to start in: the second model is Ready, and the pipeline *)
(* has both stages on or is yet to be created.                             *)
MCInit == Init /\ models[llm] = "Ready" /\ pipeline.spec \in {<<>>, <<On(stt), On(llm)>>}

MCSpec == MCInit /\ [][Next]_vars /\ Fairness
============================================================================
