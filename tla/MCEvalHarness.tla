--------------------------- MODULE MCEvalHarness ---------------------------
(***************************************************************************)
(* EvalHarness for TLC.                                                    *)
(***************************************************************************)
EXTENDS EvalHarness

MCToken == {"a", "b", "don't", "--"}

MCExpand ==
  [t \in MCToken |-> CASE t = "don't" -> <<"do", "not">> [] t = "--" -> <<>> [] OTHER -> <<t>>]

Row(text) == [text |-> text, audio |-> TRUE]

Truths == {<<"a">>, <<"a", "b">>, <<"don't", "a">>, <<"--">>}

(* All datasets of three samples, and three that do not load. *)
MCManifests ==
  {<<Row(s), Row(t), Row(u)>> : s \in Truths, t \in Truths, u \in Truths}
    \cup {<<>>, <<Row(<<>>)>>, <<Row(<<"a">>), [text |-> <<"b">>, audio |-> FALSE]>>}

MCPredictions == {<<>>, <<"b", "a">>, <<"don't">>, <<"a", "--", "b">>}

MCThreshold == <<1, 2>>
============================================================================
