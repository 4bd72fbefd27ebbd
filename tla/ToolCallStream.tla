--------------------------- MODULE ToolCallStream ---------------------------
(***************************************************************************)
(* The accumulator of LlamaServerBackend.chat_stream: the server streams a *)
(* reply's tool calls in fragments, which name the call they belong to by  *)
(* an index and may alternate.  A call's name is treated as its id is, so  *)
(* one value stands for both.                                              *)
(***************************************************************************)
EXTENDS Integers, Sequences

CONSTANTS Indexes,     \* the indexes of calls
          Ids,         \* their ids, with their names
          NoId,        \* a fragment without one
          Args         \* pieces of arguments
ASSUME NoIdAssumption == NoId \notin Ids

VARIABLE pending       \* pending_tools, in the order of its insertions

Fragments == [index : Indexes, id : Ids \cup {NoId}, args : {<<a>> : a \in Args} \cup {<<>>}]
CallDeltas == [index : Indexes, id : Ids \cup {NoId}, args : Seq(Args)]

\* The entries with a new one for a call not met before.
WithCall(f) ==
    IF \E i \in DOMAIN pending : pending[i].index = f.index
    THEN pending
    ELSE Append(pending, [f EXCEPT !.args = <<>>])

\* Faulty: a fragment without an id clears it.
MergeAny(f) ==
    pending' = [i \in DOMAIN WithCall(f) |->
                   LET call == WithCall(f)[i]
                   IN  IF call.index # f.index THEN call
                       ELSE [call EXCEPT !.args = @ \o f.args, !.id = f.id]]

\* A fragment: its arguments are appended, its id replaces the one of the call.
Merge(f) ==
    pending' = [i \in DOMAIN WithCall(f) |->
                   LET call == WithCall(f)[i]
                   IN  IF call.index # f.index THEN call
                       ELSE [call EXCEPT !.args = @ \o f.args,
                                         !.id = IF f.id = NoId THEN @ ELSE f.id]]

\* finish_reason "tool_calls": the calls are yielded in one chunk.
Emit == pending' = <<>>
=============================================================================
