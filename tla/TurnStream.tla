----------------------------- MODULE TurnStream -----------------------------
(***************************************************************************)
(* What the WebSocket layer (interface/server.py) and the voice pipeline   *)
(* may expect of the events of one turn: a requested tool call is answered *)
(* before anything else is requested, and the end event comes last, with   *)
(* every request answered.  A turn that fails or is cancelled is cut short *)
(* instead.  Deltas, audio and the refusal of unknown tools may come at    *)
(* any time before that and are not recorded.                              *)
(***************************************************************************)
CONSTANTS Calls, NoCall

VARIABLES open,   \* the call requested and not answered
          over    \* no, ended or cut

Init == open = NoCall /\ over = "no"

Request == /\ over = "no" /\ open = NoCall
           /\ open' \in Calls
           /\ UNCHANGED over

Answer == /\ over = "no" /\ open # NoCall
          /\ open' = NoCall
          /\ UNCHANGED over

End == /\ over = "no" /\ open = NoCall
       /\ over' = "ended"
       /\ UNCHANGED open

Cut == /\ over = "no"
       /\ over' = "cut" /\ open' = NoCall

Next == Request \/ Answer \/ End \/ Cut

Spec == Init /\ [][Next]_<<open, over>>
=============================================================================
