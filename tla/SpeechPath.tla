----------------------------- MODULE SpeechPath -----------------------------
(***************************************************************************)
(* The way of a reply's text from llama-server to the bubble and to the    *)
(* synthesizer: LlamaServerBackend.chat_stream feeds each content piece to *)
(* the parser (ThinkParser), and TurnLoop.run sends every segment as a     *)
(* delta and, unless it is thinking, feeds it to the splitter              *)
(* (SentenceSplitter) and has the sentences synthesized.  The fragments of *)
(* tool calls come on the same stream (ToolCallStream) and reach the turn  *)
(* when the server says the reply is complete.                             *)
(*                                                                         *)
(* Cancellation and failure of the turn are TurnLoop's; a synthesis that   *)
(* fails is only logged and leaves nothing behind here.                    *)
(***************************************************************************)
EXTENDS ThinkParser, SentenceSplitter, ToolCallStream

CONSTANTS MaxPiece,    \* bound: characters of one content piece
          MaxText,     \* bound: size of a reply, in characters,
          FragmentSize \* with a fragment of a tool call counted as so many

VARIABLES
    fed,       \* history: all the text received
    phase,     \* recv: awaiting a line.  scan: in feed's loop.  tail, ended.
    said,      \* the deltas sent: characters, each with is_thinking
    buf,       \* the splitter's buffer
    spoken,    \* the sentences handed to the synthesizer
    streamed,  \* history: the fragments received
    finished,  \* finish_reason "tool_calls" was received
    given      \* the calls handed to the turn

callVars == <<pending, streamed, finished, given>>
textVars == <<parserVars, fed, said, buf, spoken>>
vars == <<parserVars, fed, phase, said, buf, spoken, callVars>>

Texts(n) == UNION {[1..k -> Chars] : k \in 0..n}

TypeOK ==
    /\ inThinking \in BOOLEAN
    /\ buffer \in Seq(Chars) /\ fed \in Seq(Chars) /\ buf \in Seq(Chars)
    /\ phase \in {"recv", "scan", "tail", "ended"}
    /\ said \in Seq(Chars \X BOOLEAN)
    /\ spoken \in Seq(Seq(Chars) \ {<<>>})
    /\ pending \in Seq(CallDeltas) /\ given \in Seq(CallDeltas)
    /\ streamed \in Seq(Fragments) /\ finished \in BOOLEAN

Init == /\ ParserInit
        /\ fed = <<>> /\ phase = "recv"
        /\ said = <<>> /\ buf = <<>> /\ spoken = <<>>
        /\ pending = <<>> /\ streamed = <<>> /\ finished = FALSE /\ given = <<>>

\* Bound: the reply is no longer than MaxText.
Fits(chars, fragments) == chars + FragmentSize * fragments <= MaxText

Mark(text, thinking) == [i \in 1..Len(text) |-> <<text[i], thinking>>]

\* Faulty: the thinking is spoken as well.
SayAloud(text) ==
    LET fedText == FeedText(buf, text)
    IN  /\ said' = said \o Mark(text, inThinking)
        /\ buf' = fedText.buf
        /\ spoken' = spoken \o fedText.out

\* A segment reaches the turn (an empty one is not yielded and changes nothing).
Say(text) ==
    LET fedText == FeedText(buf, IF inThinking THEN <<>> ELSE text)
    IN  /\ said' = said \o Mark(text, inThinking)
        /\ buf' = fedText.buf
        /\ spoken' = spoken \o fedText.out

\* A line of the HTTP stream with content.
RecvPiece ==
    /\ phase = "recv" /\ ~finished
    /\ \E piece \in Texts(MaxPiece) \ {<<>>} :
          /\ Fits(Len(fed) + Len(piece), Len(streamed))
          /\ fed' = fed \o piece
          /\ AddPiece(piece)
    /\ phase' = "scan"
    /\ UNCHANGED <<said, buf, spoken, callVars>>

ScanTag ==
    /\ phase = "scan"
    /\ PassTag
    /\ Say(Upto(Min(Starts) - 1))
    /\ UNCHANGED <<fed, phase, callVars>>

ScanRest ==
    /\ phase = "scan"
    /\ Release
    /\ Say(Upto(Releasable))
    /\ phase' = "recv"
    /\ UNCHANGED <<fed, callVars>>

\* A line with a fragment of a tool call.  (One with several, or with content too, has
\* the effect of several lines.)
RecvFragment ==
    /\ phase = "recv" /\ ~finished
    /\ \E f \in Fragments :
          /\ Fits(Len(fed), Len(streamed) + 1)
          /\ streamed' = Append(streamed, f)
          /\ Merge(f)
    /\ UNCHANGED <<textVars, phase, finished, given>>

\* The line that ends a reply with tool calls.  The server sends no more of it.
RecvFinish ==
    /\ phase = "recv" /\ ~finished
    /\ finished' = TRUE
    /\ given' = given \o pending
    /\ Emit
    /\ UNCHANGED <<textVars, phase, streamed>>

\* [DONE], or the stream's end: the parser is flushed.  Calls that are not complete,
\* as of a reply cut short by its length, are dropped with the accumulator.
StreamEnds ==
    /\ phase = "recv"
    /\ FlushParser
    /\ Say(buffer)
    /\ phase' = "tail"
    /\ UNCHANGED <<fed, callVars>>

\* The done chunk: the splitter's tail is spoken.
SpeakTail ==
    /\ phase = "tail"
    /\ phase' = "ended"
    /\ spoken' = IF Strip(buf) = <<>> THEN spoken ELSE Append(spoken, Strip(buf))
    /\ buf' = <<>>
    /\ UNCHANGED <<parserVars, fed, said, callVars>>

Next == \/ RecvPiece \/ ScanTag \/ ScanRest
        \/ RecvFragment \/ RecvFinish
        \/ StreamEnds \/ SpeakTail

Spec == Init /\ [][Next]_vars

-----------------------------------------------------------------------------
(* Properties.  The references read the whole text at once. *)

At(tag, s) == {i \in 1..(Len(s) - Len(tag) + 1) : SubSeq(s, i, i + Len(tag) - 1) = tag}

\* A text that begins outside the thinking, or inside it, with each character's side.
Parsed[p \in Seq(Chars) \X BOOLEAN] ==
    LET s   == p[1]
        tag == IF p[2] THEN Close ELSE Open
        i   == Min(At(tag, s))
    IN  IF At(tag, s) = {} THEN Mark(s, p[2])
        ELSE Mark(SubSeq(s, 1, i - 1), p[2])
                \o Parsed[<<SubSeq(s, i + Len(tag), Len(s)), ~p[2]>>]

\* However the text is cut into pieces, no delta ever carries a part of a tag or text
\* on the wrong side of it, and in the end all of it has been sent, in order
\* (stream_parser.py:10-11, 35-71).
DeltasAreParsed ==
    /\ IsPrefix(said, Parsed[<<fed, FALSE>>])
    /\ phase \in {"tail", "ended"} => said = Parsed[<<fed, FALSE>>]

\* The text of the deltas, without the thinking.
Reply[s \in Seq(Chars \X BOOLEAN)] ==
    IF s = <<>> THEN <<>>
    ELSE (IF Head(s)[2] THEN <<>> ELSE <<Head(s)[1]>>) \o Reply[Tail(s)]

Kept(s) == IF Strip(s) = <<>> THEN <<>> ELSE <<Strip(s)>>

\* The sentences of a text, with what is left at its end if it is complete.
Sentences(text, complete) ==
    LET cut[s \in Seq(Chars)] ==
            LET I == {i \in MinChars..Len(s) : Ends(s[i])}
            IN  IF I = {} THEN IF complete THEN Kept(s) ELSE <<>>
                ELSE Kept(SubSeq(s, 1, Min(I))) \o cut[SubSeq(s, Min(I) + 1, Len(s))]
    IN  cut[text]

\* The synthesizer gets exactly the sentences of the text shown so far, each once, in
\* order, as soon as they are complete, and the rest at the end; never any thinking
\* (turn_loop.py:151-161).
SpokenAsShown == spoken = Sentences(Reply[said], phase = "ended")

\* The arguments that the fragments of a call bring, one after the other.
Joined(fragments, n) ==
    LET joined[s \in Seq(Fragments)] ==
            IF s = <<>> THEN <<>>
            ELSE (IF Head(s).index = n THEN Head(s).args ELSE <<>>) \o joined[Tail(s)]
    IN  joined[fragments]

\* The calls are those of the fragments, in the order of their first ones: each with the
\* last id it was given and with all its arguments.
Whole(calls) ==
    LET Of(n)    == {k \in DOMAIN streamed : streamed[k].index = n}
        Named(n) == {k \in Of(n) : streamed[k].id # NoId}
    IN  /\ {calls[i].index : i \in DOMAIN calls} = {streamed[k].index : k \in DOMAIN streamed}
        /\ \A i, j \in DOMAIN calls :
              i < j => Min(Of(calls[i].index)) < Min(Of(calls[j].index))
        /\ \A i \in DOMAIN calls :
              LET n == calls[i].index
              IN  /\ calls[i].id = IF Named(n) = {} THEN NoId ELSE streamed[Max(Named(n))].id
                  /\ calls[i].args = Joined(streamed, n)

\* However their fragments alternate, the turn gets every tool call of a complete reply
\* once, with its own arguments, in order, and no call of an incomplete one
\* (llama_server.py:70-72, 100-134).
CallsAreWhole == IF finished THEN Whole(given) ELSE given = <<>>
=============================================================================
