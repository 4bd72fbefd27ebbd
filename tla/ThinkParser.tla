---------------------------- MODULE ThinkParser ----------------------------
(***************************************************************************)
(* ThinkingStreamParser (llm/stream_parser.py): splits the thinking, put   *)
(* between two tags, out of a text that arrives in pieces.  A tag may be   *)
(* cut anywhere by a piece's end, so the parser holds back the last        *)
(* characters of what it has, one fewer than the tag it looks for.  It is  *)
(* a generator: the consumer handles each segment before it goes on.       *)
(***************************************************************************)
EXTENDS Integers, Sequences, FiniteSetsExt

CONSTANTS Chars,            \* the characters of a reply
          Open, Close       \* OPEN and CLOSE, as sequences of characters
ASSUME TagsAssumption ==
    /\ Open \in Seq(Chars) /\ Open # <<>>
    /\ Close \in Seq(Chars) /\ Close # <<>>

VARIABLES inThinking, buffer
parserVars == <<inThinking, buffer>>

ParserInit == inThinking = FALSE /\ buffer = <<>>

\* The tag looked for, and where it starts in the buffer.
Tag    == IF inThinking THEN Close ELSE Open
Starts == {i \in 1..(Len(buffer) - Len(Tag) + 1) : SubSeq(buffer, i, i + Len(Tag) - 1) = Tag}

Upto(n) == SubSeq(buffer, 1, n)
From(n) == SubSeq(buffer, n, Len(buffer))

\* What can be yielded while no tag is in the buffer.
\* Faulty: one character too few is held back.
ReleasableEager == IF Len(buffer) < Len(Tag) THEN 0 ELSE Len(buffer) - Len(Tag) + 2

Releasable == IF Len(buffer) < Len(Tag) THEN 0 ELSE Len(buffer) - Len(Tag) + 1

\* feed: the piece is added, the loop begins.
AddPiece(piece) ==
    /\ buffer' = buffer \o piece
    /\ UNCHANGED inThinking

\* The loop's way out: yield what cannot be part of a tag.
Release == /\ Starts = {}
           /\ buffer' = From(Releasable + 1)
           /\ UNCHANGED inThinking

\* Once around the loop: yield what precedes the tag, drop it, change sides.
PassTag == /\ Starts # {}
           /\ buffer' = From(Min(Starts) + Len(Tag))
           /\ inThinking' = ~inThinking

\* flush: yield the rest, thinking or not.
FlushParser == buffer' = <<>> /\ UNCHANGED inThinking
=============================================================================
