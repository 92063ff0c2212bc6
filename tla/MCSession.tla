------------------------------ MODULE MCSession ------------------------------
(* Values for the constants of Session that a configuration file cannot write. *)
EXTENDS Session

TD(mode, create, interrupt) ==
  [mode |-> mode, createResponse |-> create, interruptResponse |-> interrupt]

Manual      == TD("manual", FALSE, FALSE)
ServerVad   == TD("server_vad", TRUE, TRUE)
SemanticVad == TD("semantic_vad", TRUE, TRUE)

ManualOnly  == {Manual}
ServerOnly  == {ServerVad}
VadModes    == {ServerVad, SemanticVad}

Words     == {<<"words", FALSE>>}
Sentences == {<<"words", FALSE>>, <<"words", TRUE>>}
=============================================================================
