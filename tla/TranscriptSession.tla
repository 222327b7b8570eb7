------------------------- MODULE TranscriptSession -------------------------
(***************************************************************************)
(* What a streaming session promises, whatever its goroutines do: it       *)
(* records some of the client's frames in capture order, cuts the          *)
(* recording into consecutive segments, asks for one transcript of each    *)
(* and reports each once.  A segment is cut while another is still         *)
(* outstanding only when the recording is over.                            *)
(***************************************************************************)
EXTENDS Naturals, Sequences

CONSTANTS Frame,   (* frames, numbered in capture order                    *)
          Reply    (* what the client is told of a segment                 *)

VARIABLES
  pending,   (* frames recorded since the last cut                         *)
  out,       (* segments whose transcript is awaited                       *)
  done,      (* segments reported, in the order of the reports             *)
  open,      (* the client can be told                                     *)
  over       (* nothing more is recorded                                   *)

absVars == <<pending, out, done, open, over>>

AllBefore(seg, f) == \A i \in DOMAIN seg : seg[i] < f

Start ==
  /\ pending = <<>> /\ out = {} /\ done = <<>>
  /\ open = TRUE /\ over = FALSE

Record(f) ==
  /\ ~over
  /\ AllBefore(pending, f)
  /\ \A seg \in out : AllBefore(seg, f)
  /\ \A i \in DOMAIN done : AllBefore(done[i].audio, f)
  /\ pending' = Append(pending, f)
  /\ UNCHANGED <<out, done, open, over>>

Cut ==
  /\ pending # <<>>
  /\ pending' = <<>>
  /\ out' = out \cup {pending}
  /\ over' \in BOOLEAN
  /\ out = {} \/ over'
  /\ UNCHANGED <<done, open>>

Stop ==
  /\ pending = <<>>
  /\ over' = TRUE
  /\ UNCHANGED <<pending, out, done, open>>

Report(seg, reply) ==
  /\ seg \in out
  /\ out' = out \ {seg}
  /\ done' = Append(done, [audio |-> seg,
                           reply |-> IF open THEN reply ELSE "nothing"])
  /\ UNCHANGED <<pending, open, over>>

Disconnect ==
  /\ open' = FALSE
  /\ UNCHANGED <<pending, out, done, over>>

AbsNext ==
  \/ \E f \in Frame : Record(f)
  \/ Cut
  \/ Stop
  \/ \E seg \in out, reply \in Reply : Report(seg, reply)
  \/ Disconnect

AbsSpec == Start /\ [][AbsNext]_absVars
============================================================================
