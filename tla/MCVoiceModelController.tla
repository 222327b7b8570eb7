---------------------- MODULE MCVoiceModelController ----------------------
(***************************************************************************)
(* VoiceModelController for TLC, and a statement of its documentation the  *)
(* code does not live up to.                                               *)
(***************************************************************************)
EXTENDS VoiceModelController

(* The first spec asks for one replica, the second for two. *)
MCReplicas == [s \in 1 .. MaxSpec |-> s]

(* docs/reference/voicemodel-crd.md:9, the operator "tracks readiness as   *)
(* status.phase": when everything has calmed down the phase is right.      *)
TracksReadiness == <>[]Settled
============================================================================
