------------------------------ MODULE Sentencer ------------------------------
(***************************************************************************)
(* session/sentencer.go: a streaming text is cut into sentences by         *)
(* punctuation.  A text is a sequence of runes, and a rune is one of a few *)
(* strings: letters, ".", "!", " ", "nl" (the newline), "q" (a closing     *)
(* quote) and "cjk" (a CJK terminator).  Offsets count runes, from 0.  A   *)
(* rune cut in two by a chunk boundary is left out: the code waits for its *)
(* rest as it waits for the rest of a terminator run.                      *)
(***************************************************************************)
EXTENDS Naturals, Sequences, FiniteSetsExt

CONSTANTS
    MinSentenceRunes,  \* minSentenceRunes
    Abbreviations      \* the words of abbreviations, as sequences of runes

ASSUME SentencerAssumption == MinSentenceRunes \in Nat

CJKTerminators == {"cjk"}
Terminators == {".", "!"} \cup CJKTerminators
ClosingQuotes == {"q"}
InRun == Terminators \cup ClosingQuotes
Spaces == {" ", "nl"}
Letters == {"a", "d", "r", "x", "y"}
Runes == InRun \cup Spaces \cup Letters

NewSentencer == [buf |-> <<>>, base |-> 0, scan |-> 0]

\* isAbbreviation: the word that ends just before offset i, from offset s.
IsAbbreviation(buf, i) ==
    \E s \in 0..(i - 1) :
        /\ \A k \in s..(i - 1) : buf[k + 1] \in Letters
        /\ s = 0 \/ buf[s] \notin Letters
        /\ i - s = 1 \/ SubSeq(buf, s + 1, i) \in Abbreviations

\* A scan that starts at lo meets a terminator at i, in no run it has already
\* passed, and consumes the terminators and closing quotes up to j.
Run(buf, lo, i, j) ==
    /\ buf[i + 1] \in Terminators
    /\ \A k \in i..(j - 1) : buf[k + 1] \in InRun
    /\ j = Len(buf) \/ buf[j + 1] \notin InRun
    /\ \A h \in lo..(i - 1) : buf[h + 1] \in Terminators => \E k \in h..(i - 1) : buf[k + 1] \notin InRun

CjkInRun(buf, i, j) == \E k \in i..(j - 1) : buf[k + 1] \in CJKTerminators

\* A sentence end: a newline, a run with a CJK terminator, or a run that is
\* followed by a space and is no abbreviation's.
EndsAt(buf, lo, j) ==
    \/ buf[j] = "nl"
    \/ \E i \in lo..(j - 1) :
          /\ Run(buf, lo, i, j)
          /\ \/ CjkInRun(buf, i, j)
             \/ j < Len(buf) /\ buf[j + 1] \in Spaces /\ ~IsAbbreviation(buf, i)

Boundaries(buf, lo) == {j \in (lo + 1)..Len(buf) : EndsAt(buf, lo, j)}

\* A run that reaches the end of the buffer: what follows it is still to come.
OpenRun(buf, lo) == \E i \in lo..(Len(buf) - 1) : Run(buf, lo, i, Len(buf)) /\ ~CjkInRun(buf, i, Len(buf))

\* findBoundary: the first sentence end past scan.  Without one, all of the
\* buffer has been scanned, unless it ends in an open run.
FindBoundary(s) ==
    LET ends == Boundaries(s.buf, s.scan)
    IN IF ends # {} THEN [found |-> TRUE, scan |-> Min(ends)]
       ELSE [found |-> FALSE, scan |-> IF OpenRun(s.buf, s.scan) THEN s.scan ELSE Len(s.buf)]

\* take: the first `end` runes become a sentence.
Take(s, end) ==
    [sentence |-> [text |-> SubSeq(s.buf, 1, end), start |-> s.base, end |-> s.base + end],
     rest |-> [buf |-> SubSeq(s.buf, end + 1, Len(s.buf)), base |-> s.base + end, scan |-> 0]]

\* The mutation that looks for a boundary in the new runes only.
PushAhead(s, chunk) == [s EXCEPT !.buf = @ \o chunk, !.scan = Len(s.buf)]

\* push: a chunk arrives; the loop over its boundaries is Pipeline's CutSentence.
Push(s, chunk) == [s EXCEPT !.buf = @ \o chunk]

\* flush: what remains at the end of the text.  The sentencer is not used again.
Flush(s) == IF s.buf = <<>> THEN <<>> ELSE <<Take(s, Len(s.buf)).sentence>>

\* strings.TrimSpace(text) == "": nothing to speak.
Blank(sn) == \A k \in 1..Len(sn.text) : sn.text[k] \in Spaces

(* ---- the reference: the sentences of a text that arrives in one piece ------ *)

\* Where a sentence of text that starts at `start` may end.
LongEnough(text, start) ==
    {e \in Boundaries(SubSeq(text, start + 1, Len(text)), 0) : e >= MinSentenceRunes}

\* Each sentence ends at the first boundary that makes it long enough, the last
\* where the text does.
Whole(text, sns) ==
    \A k \in 1..Len(sns) :
        LET ends == LongEnough(text, sns[k].start)
        IN sns[k].end = IF ends = {} THEN Len(text) ELSE sns[k].start + Min(ends)

=============================================================================
