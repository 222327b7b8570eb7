----------------------------- MODULE MCOperator -----------------------------
(***************************************************************************)
(* Operator for TLC.                                                       *)
(***************************************************************************)
EXTENDS Operator

(* Every spec asks for one replica. *)
MCReplicas == [s \in 1 .. MaxSpec |-> 1]

(* Fewer clusters to start in: the VoiceModel is there, and the pipeline is *)
(* yet to be created.                                                      *)
MCInit == Init /\ VM!Exists /\ pipeline = IP!Absent

MCSpec == MCInit /\ [][Next]_vars /\ Fairness
============================================================================
