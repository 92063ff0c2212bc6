----------------------------- MODULE MCGateway -----------------------------
(* Small instances of Gateway: two provider instances, one of a type that     *)
(* has no LLM, two profiles, and one write of each kind that is accepted and  *)
(* one that is refused.                                                       *)
EXTENDS Gateway, TLC

CONSTANTS pa, pb, f1, f2, w1, w2, c1, c2, c3

MCKnown == {<<"asr", "full">>, <<"llm", "full">>, <<"tts", "full">>, <<"asr", "voice">>, <<"tts", "voice">>}

Inst(type, key) == [type |-> type, key |-> key]
Prof(llm, voice) == [asr |-> voice, llm |-> llm, tts |-> voice]

MCSeed == [Empty EXCEPT !.providers[pa] = Inst("full", "k1"), !.profiles[f1] = Prof(pa, pa), !.default = f1]
MCBootstraps == {MCSeed, Absent}

MCRequests ==
    {[op |-> "put provider", name |-> pa, inst |-> Inst("full", "k2")],
     [op |-> "put provider", name |-> pa, inst |-> Inst("full", Mask)],
     [op |-> "put provider", name |-> pb, inst |-> Inst("voice", "unset")],
     [op |-> "delete provider", name |-> pb],
     [op |-> "put profile", name |-> f2, profile |-> Prof(pa, pb)],
     [op |-> "delete profile", name |-> f1],
     [op |-> "put settings", default |-> f2],
     [op |-> "put settings", default |-> None],
     [op |-> "put config", doc |-> [MCSeed EXCEPT !.providers[pb] = Inst("voice", "k1"),
                                                  !.providers[pa].key = Mask, !.default = f1,
                                                  !.profiles[f2] = Prof(pa, pb)]],
     [op |-> "put config", doc |-> MCSeed],
     [op |-> "malformed"]}

\* Two writes and a crash; a connection among two writes; a crowd at the limit.
MCScenarios ==
    {[writes |-> 2, crashes |-> 1, arrivals |-> 0],
     [writes |-> 2, crashes |-> 0, arrivals |-> 1],
     [writes |-> 0, crashes |-> 1, arrivals |-> 4]}

MCSymmetry == Permutations(Writers) \cup Permutations(Conns)

=============================================================================
