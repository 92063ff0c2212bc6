---------------------------- MODULE MCRecognizer ----------------------------
(* Small instances of Recognizer: two turns with every delay of the service;  *)
(* one turn with everything that may go wrong; a session that leaves.         *)
EXTENDS Recognizer

P == "PushAudio"
F == "Finalize"
Plan(calls, leaves, pads, mishaps) == [calls |-> calls, leaves |-> leaves, pads |-> pads, mishaps |-> mishaps]

MCPlans ==
    {Plan(<<P, F, P, F, P>>, FALSE, 0, {}), Plan(<<F, P, P, F>>, FALSE, 1, {}),
     Plan(<<P, P, P, F>>, FALSE, 0, {}),
     Plan(<<P, F, F>>, FALSE, 0, {"remark", "normal", "error", "cancel"}),
     Plan(<<F, F>>, TRUE, 0, {"error"}), Plan(<<P, F>>, TRUE, 1, {"cancel"})}

=============================================================================
