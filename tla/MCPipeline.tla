----------------------------- MODULE MCPipeline -----------------------------
(* Small instances of Pipeline: short texts in a few chunkings, each way an   *)
(* LLM stream may end, each provider, with and without faults.                *)
EXTENDS Pipeline

T(text) == [k |-> "text", text |-> text]
C(index, last) == [k |-> "call", index |-> index, last |-> last]
F(reason) == [k |-> "finish", reason |-> reason]
E(how) == [k |-> how]

\* "xy. a. d." and a remainder: a sentence, an abbreviation and a flush, with the
\* cuts inside a terminator run and between it and its space.
Story == <<T(<<"x", "y", ".">>), T(<<" ", "a", ".", " ">>), T(<<"r", "x", "!", "q", " ", "y">>)>>
Title == <<T(<<"x", "nl", "d", "r", ".", " ", "y", "x", ".">>), T(<<"q", " ", "a", " ">>)>>
Hanzi == <<T(<<"x", "y", "cjk">>), T(<<"q", "nl", " ", " ", " ", "nl">>), T(<<"y">>)>>

Calm == [tts |-> "none", script |-> <<E("[DONE]")>>, faulty |-> FALSE, silent |-> FALSE, stalls |-> FALSE, cancels |-> FALSE]
Good == <<F("stop"), E("[DONE]")>>

MCScenarios ==
    \* every provider, a whole text, cancelled or not
    {[Calm EXCEPT !.tts = p, !.script = Story \o Good, !.cancels = TRUE] : p \in {"none", "qwen", "realtime", "speech"}}
    \cup {[Calm EXCEPT !.tts = p, !.script = t \o Good] : p \in {"realtime", "speech"}, t \in {Title, Hanzi}}
    \* a service that fails, a service that falls silent
    \cup {[Calm EXCEPT !.tts = p, !.script = Title \o Good, !.faulty = TRUE] : p \in {"qwen", "realtime", "speech"}}
    \cup {[Calm EXCEPT !.tts = p, !.script = Title \o Good, !.silent = TRUE] : p \in {"qwen", "speech"}}
    \* each way the LLM stream ends
    \cup {[Calm EXCEPT !.tts = "speech", !.script = Title \o <<E(e)>>, !.stalls = TRUE] : e \in {"eof", "cut", "bad", "stall"}}
    \cup {[Calm EXCEPT !.script = s, !.stalls = st, !.cancels = TRUE] : st \in BOOLEAN, s \in {
            <<E("refused")>>,
            <<C(1, FALSE), C(1, TRUE)>> \o Good,
            <<C(1, FALSE), F("length"), E("[DONE]")>>,
            <<C(1, TRUE), C(2, TRUE)>> \o Good,
            <<C(1, FALSE), E("eof")>>}}

MCAbbreviations == {<<"d", "r">>}

=============================================================================
