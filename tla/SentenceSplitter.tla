-------------------------- MODULE SentenceSplitter --------------------------
(***************************************************************************)
(* SentenceSplitter (voice/sentence_splitter.py): cuts the text of a reply *)
(* into sentences for the synthesizer, character by character, as it       *)
(* arrives.  Its state is the buffer; feeding it is a function.            *)
(***************************************************************************)
EXTENDS Integers, Sequences, SequencesExt

CONSTANTS
    Terminators,    \* _TERMINATORS
    Newline,        \* the newline, which ends a sentence as well
    Blanks,         \* what str.strip removes
    MinChars        \* _MIN_CHARS
ASSUME SplitterAssumption ==
    /\ Newline \in Blanks /\ Blanks \cap Terminators = {}
    /\ MinChars \in Nat \ {0}

\* str.strip
Strip(s) == LET I == {i \in 1..Len(s) : s[i] \notin Blanks}
            IN  IF I = {} THEN <<>> ELSE SubSeq(s, Min(I), Max(I))

Ends(ch) == ch \in Terminators \cup {Newline}

(* One character: [buf, out], out being the sentences yielded so far. *)

\* Faulty: a fragment too short to end is thrown away.
TakeCharShort(st, ch) ==
    LET buf == Append(st.buf, ch) IN
    IF ~Ends(ch) THEN [st EXCEPT !.buf = buf]
    ELSE [buf |-> <<>>,
          out |-> IF Strip(buf) = <<>> \/ Len(buf) < MinChars
                  THEN st.out ELSE Append(st.out, Strip(buf))]

\* Faulty: a fragment of blanks is yielded.
TakeCharBlank(st, ch) ==
    LET buf == Append(st.buf, ch) IN
    IF Ends(ch) /\ Len(buf) >= MinChars
    THEN [buf |-> <<>>, out |-> Append(st.out, Strip(buf))]
    ELSE [st EXCEPT !.buf = buf]

TakeChar(st, ch) ==
    LET buf == Append(st.buf, ch) IN
    IF ~(Ends(ch) /\ Len(buf) >= MinChars) THEN [st EXCEPT !.buf = buf]
    ELSE [buf |-> <<>>,
          out |-> IF Strip(buf) = <<>> THEN st.out ELSE Append(st.out, Strip(buf))]

\* feed: what is left in the buffer and the sentences it yields.
FeedText(buf, text) ==
    LET fed[n \in 0..Len(text)] ==
            IF n = 0 THEN [buf |-> buf, out |-> <<>>] ELSE TakeChar(fed[n - 1], text[n])
    IN  fed[Len(text)]
=============================================================================
