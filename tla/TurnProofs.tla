----------------------------- MODULE TurnProofs -----------------------------
(***************************************************************************)
(* Proofs about TurnLoop for any set of tools, any limit and any window:   *)
(* its type invariant, that no step repeats the one before it and the      *)
(* steps are bounded, that a turn the LLM ends has shown it every result   *)
(* the window leaves room for, that its events are those TurnStream        *)
(* allows, and that its steps are finitely many.                           *)
(***************************************************************************)
EXTENDS TurnLoop, Integers, TLAPS

\* The steps that ran tools are counted by step, and prev is the last of them.
CountInv ==
    /\ pc \in {"prompt", "stream"} => Len(batches) = step
    /\ pc \in {"calls", "phrase", "run"} => Len(batches) = step + 1
    /\ Len(batches) <= MaxToolSteps + 1
    /\ batches # <<>> => prev = batches[Len(batches)]

\* The LLM has been shown the turn's messages while it replies, and after a reply that
\* called no tool.
ReadInv ==
    /\ 1 \in own
    /\ pc = "stream" \/ (pc \in {"finish", "ended"} /\ ~notice) => Shown

IInv == TypeOK /\ CountInv /\ ReadInv /\ NoRepeat

LEMMA InitInv == Init => IInv
  <1> SUFFICES ASSUME Init PROVE IInv
    OBVIOUS
  <1>1. <<>> \in Seq(Calls) /\ <<>> \in Seq(Seq(Calls)) /\ Len(<<>>) = 0
    OBVIOUS
  <1>2. TypeOK
    <2>1. 0 \in Nat /\ 0 \in 0..MaxToolSteps
      BY StepsAssumption
    <2>2. 1 \in Nat /\ {1} \subseteq 1..1
      OBVIOUS
    <2> QED BY <1>1, <2>1, <2>2 DEF Init, TypeOK, Places
  <1>3. CountInv /\ ReadInv /\ NoRepeat
    BY <1>1, StepsAssumption DEF Init, CountInv, ReadInv, NoRepeat
  <1> QED BY <1>2, <1>3 DEF IInv

\* A further batch that differs from the last one.
LEMMA AppendBatch ==
    ASSUME TypeOK, CountInv, NoRepeat, calls # prev, pc = "stream",
           batches' = Append(batches, calls)
    PROVE  /\ batches' \in Seq(Seq(Calls)) /\ Len(batches') = step + 1
           /\ batches'[Len(batches')] = calls
           /\ NoRepeat'
  <1> USE StepsAssumption
  <1>1. /\ batches \in Seq(Seq(Calls)) /\ calls \in Seq(Calls) /\ step \in 0..MaxToolSteps
        /\ Len(batches) = step
    BY DEF TypeOK, CountInv
  <1>2. batches' \in Seq(Seq(Calls)) /\ Len(batches') = step + 1 /\ batches'[Len(batches')] = calls
    BY <1>1
  <1>3. \A i \in 1..Len(batches) : batches'[i] = batches[i]
    BY <1>1
  <1>4. ASSUME NEW i \in 1..(Len(batches') - 1) PROVE batches'[i] # batches'[i + 1]
    <2>1. CASE i < Len(batches)
      <3>1. i \in 1..(Len(batches) - 1) /\ i + 1 \in 1..Len(batches)
        BY <1>1, <2>1
      <3> QED BY <1>3, <3>1 DEF NoRepeat
    <2>2. CASE i = Len(batches)
      <3>1. batches # <<>> /\ batches'[i] = prev
        BY <1>1, <1>2, <1>3, <2>2 DEF CountInv
      <3> QED BY <1>1, <1>2, <2>2, <3>1
    <2> QED BY <1>1, <1>2, <2>1, <2>2
  <1> QED BY <1>1, <1>2, <1>4 DEF NoRepeat

\* What is too old for the recent messages was crowded out by a full window.
LEMMA RecentOrCrowded ==
    ASSUME TypeOK, prompt' = Recent, UNCHANGED <<stored, own>>
    PROVE  Shown' /\ prompt' \subseteq 1..stored
  <1> USE WindowAssumption
  <1>1. stored \in Nat /\ own \subseteq 1..stored
    BY DEF TypeOK
  <1>2. ASSUME NEW i \in own, i \notin Recent
        PROVE  \E n \in i..stored : Recent = (n + 1)..(n + HistoryWindow)
    <2>1. i \in 1..stored /\ i + HistoryWindow <= stored
      BY <1>1, <1>2 DEF Recent
    <2>2. stored - HistoryWindow \in i..stored
      BY <1>1, <2>1
    <2>3. \A j \in 1..stored :
              j + HistoryWindow > stored <=> j \in ((stored - HistoryWindow) + 1)..stored
      BY <1>1, <2>1
    <2>4. /\ ((stored - HistoryWindow) + 1)..stored \subseteq 1..stored
          /\ (stored - HistoryWindow) + HistoryWindow = stored
      BY <1>1, <2>1
    <2>5. Recent = ((stored - HistoryWindow) + 1)..stored
      BY <2>3, <2>4 DEF Recent
    <2> QED BY <2>2, <2>4, <2>5
  <1>3. Recent \subseteq 1..stored
    BY DEF Recent
  <1> QED BY <1>2, <1>3 DEF Shown, Crowded

\* Messages stored later do not change what the LLM has been shown.
LEMMA ShownStays ==
    ASSUME TypeOK, Shown, UNCHANGED <<own, prompt>>, stored' \in {stored, stored + 1}
    PROVE  Shown' /\ stored' \in Nat /\ own' \subseteq 1..stored' /\ prompt' \subseteq 1..stored'
  <1>1. stored \in Nat /\ own \subseteq 1..stored /\ prompt \subseteq 1..stored
    BY DEF TypeOK
  <1>2. stored' \in Nat /\ 1..stored \subseteq 1..stored'
    BY <1>1
  <1>3. \A i \in 1..stored : i..stored \subseteq i..stored'
    BY <1>1
  <1> QED BY <1>1, <1>2, <1>3 DEF Shown, Crowded

LEMMA ChatStays ==
    ASSUME UNCHANGED chat
    PROVE  /\ Shown' = Shown
           /\ stored' = stored /\ own' = own /\ prompt' = prompt
  BY DEF chat, Shown, Crowded

\* Every action keeps the invariant.
LEMMA NextKeeps ==
    ASSUME IInv, [Next]_vars
    PROVE  IInv'
  <1> USE StepsAssumption DEF Places
  <1>0. TypeOK /\ CountInv /\ ReadInv /\ NoRepeat
    BY DEF IInv
  <1>1. CASE Ask
    <2>1. <<>> \in Seq(Calls) /\ 0 \in Nat
      OBVIOUS
    <2>2. Shown' /\ prompt' \subseteq 1..stored
      BY <1>0, <1>1, RecentOrCrowded DEF Ask
    <2>3. TypeOK'
      BY <1>0, <1>1, <2>1, <2>2 DEF Ask, TypeOK
    <2>4. CountInv' /\ ReadInv' /\ NoRepeat'
      BY <1>0, <1>1, <2>2 DEF Ask, CountInv, ReadInv, NoRepeat
    <2> QED BY <2>3, <2>4 DEF IInv
  <1>2. CASE TextChunk
    <2>1. TypeOK'
      BY <1>0, <1>2, ChatStays DEF TextChunk, TypeOK
    <2>2. CountInv' /\ ReadInv' /\ NoRepeat'
      BY <1>0, <1>2, ChatStays DEF TextChunk, CountInv, ReadInv, NoRepeat
    <2> QED BY <2>1, <2>2 DEF IInv
  <1>3. CASE CallsChunk
    <2>1. PICK b \in Batch : calls' = calls \o b
      BY <1>3 DEF CallsChunk
    <2>2. b \in Seq(Calls)
      BY <2>1 DEF Batch
    <2>3. calls' \in Seq(Calls)
      BY <1>0, <2>1, <2>2 DEF TypeOK
    <2> QED BY <1>0, <1>3, <2>3, ChatStays DEF CallsChunk, IInv, TypeOK, CountInv, ReadInv, NoRepeat
  <1>4. CASE ReplyDone
    <2>1. CASE calls # <<>> /\ calls # prev /\ pc' = "calls" /\ rest' = calls /\ prev' = calls
               /\ batches' = Append(batches, calls) /\ UNCHANGED notice
      <3>1. /\ pc = "stream" /\ UNCHANGED <<step, calls, text, reply, chat>>
        BY <1>4 DEF ReplyDone
      <3>2. /\ batches' \in Seq(Seq(Calls)) /\ Len(batches') = step + 1
            /\ batches'[Len(batches')] = calls /\ NoRepeat'
        BY <1>0, <2>1, <3>1, AppendBatch
      <3>3. TypeOK'
        BY <1>0, <2>1, <3>1, <3>2, ChatStays DEF TypeOK
      <3>4. CountInv' /\ ReadInv'
        BY <1>0, <2>1, <3>1, <3>2, ChatStays DEF TypeOK, CountInv, ReadInv
      <3> QED BY <3>2, <3>3, <3>4 DEF IInv
    <2>2. CASE pc' = "finish" /\ UNCHANGED <<rest, prev, batches>>
               /\ (notice' = notice \/ notice' = TRUE)
      <3>1. pc = "stream" /\ UNCHANGED <<step, calls, text, reply, chat>>
        BY <1>4 DEF ReplyDone
      <3>2. TypeOK'
        BY <1>0, <2>2, <3>1, ChatStays DEF TypeOK
      <3>3. CountInv' /\ ReadInv' /\ NoRepeat'
        BY <1>0, <2>2, <3>1, ChatStays DEF CountInv, ReadInv, NoRepeat
      <3> QED BY <3>2, <3>3 DEF IInv
    <2> QED BY <1>4, <2>1, <2>2 DEF ReplyDone
  <1>5. ASSUME UnknownTool \/ ToolDone PROVE IInv'
    <2>1. /\ rest # <<>> /\ rest' = Tail(rest)
          /\ stored' = stored + 1 /\ own' = own \cup {stored + 1} /\ prompt' = prompt
          /\ pc \in {"calls", "run"} /\ pc' = "calls"
          /\ UNCHANGED <<step, calls, prev, text, notice, reply, batches>>
      BY <1>0, <1>5 DEF UnknownTool, ToolDone, StoreResult, TypeOK
    <2>2. rest' \in Seq(Calls)
      BY <1>0, <2>1 DEF TypeOK
    <2>3. TypeOK'
      <3>1. stored' \in Nat /\ own' \subseteq 1..stored' /\ prompt' \subseteq 1..stored'
        BY <1>0, <2>1 DEF TypeOK
      <3> QED BY <1>0, <2>1, <2>2, <3>1 DEF TypeOK
    <2>4. CountInv' /\ ReadInv' /\ NoRepeat'
      BY <1>0, <2>1 DEF CountInv, ReadInv, NoRepeat
    <2> QED BY <2>3, <2>4 DEF IInv
  <1>6. ASSUME KnownTool \/ PhraseDone PROVE IInv'
    <2>1. /\ pc \in {"calls", "phrase"} /\ pc' \in {"phrase", "run", "cut"} /\ rest # <<>>
          /\ UNCHANGED <<step, rest, calls, prev, text, notice, reply, batches, chat>>
      BY <1>0, <1>6 DEF KnownTool, PhraseDone, RequestEvent, TypeOK
    <2>2. TypeOK'
      BY <1>0, <2>1, ChatStays DEF TypeOK
    <2>3. CountInv' /\ ReadInv' /\ NoRepeat'
      BY <1>0, <2>1, ChatStays DEF CountInv, ReadInv, NoRepeat
    <2> QED BY <2>2, <2>3 DEF IInv
  <1>7. CASE StepDone
    <2>1. TypeOK'
      <3>1. step' \in 0..MaxToolSteps
        BY <1>0, <1>7, ChatStays DEF StepDone, TypeOK
      <3>2. pc' \in {"prompt", "finish"} /\ notice' \in {notice, TRUE}
        BY <1>7 DEF StepDone
      <3>3. notice' \in BOOLEAN
        BY <1>0, <3>2 DEF TypeOK
      <3>4. UNCHANGED <<rest, calls, prev, text, reply, batches, chat>>
        BY <1>7 DEF StepDone
      <3> QED BY <1>0, <3>1, <3>2, <3>3, <3>4, ChatStays DEF TypeOK
    <2>2. CountInv' /\ NoRepeat'
      BY <1>0, <1>7, ChatStays DEF StepDone, TypeOK, CountInv, NoRepeat
    <2>3. ReadInv'
      BY <1>0, <1>7, ChatStays DEF StepDone, ReadInv
    <2> QED BY <2>1, <2>2, <2>3 DEF IInv
  <1>8. ASSUME Finish \/ LlmFails \/ Cancel PROVE IInv'
    <2>1. /\ pc' \in {"ended", "cut"} /\ (pc' = "ended" => pc = "finish")
          /\ reply' \in {text, reply} /\ stored' \in {stored, stored + 1}
          /\ UNCHANGED <<step, rest, calls, prev, text, notice, batches, own, prompt>>
      BY <1>8 DEF Finish, LlmFails, Cancel, chat
    <2>2. stored' \in Nat /\ own' \subseteq 1..stored' /\ prompt' \subseteq 1..stored'
      <3>1. stored' \in Nat /\ 1..stored \subseteq 1..stored'
        BY <1>0, <2>1 DEF TypeOK
      <3> QED BY <1>0, <2>1, <3>1 DEF TypeOK
    <2>3. TypeOK'
      BY <1>0, <2>1, <2>2 DEF TypeOK
    <2>4. CountInv' /\ NoRepeat'
      BY <1>0, <2>1 DEF CountInv, NoRepeat
    <2>5. ReadInv'
      <3>1. Shown => Shown'
        BY <1>0, <2>1, ShownStays
      <3> QED BY <1>0, <2>1, <3>1 DEF ReadInv
    <2> QED BY <2>3, <2>4, <2>5 DEF IInv
  <1>9. CASE OthersWrite
    <2>1. stored' = stored + 1 /\ UNCHANGED <<turn, own, prompt>>
      BY <1>9 DEF OthersWrite
    <2>2. stored' \in Nat /\ own' \subseteq 1..stored' /\ prompt' \subseteq 1..stored'
      <3>1. stored' \in Nat /\ 1..stored \subseteq 1..stored'
        BY <1>0, <2>1 DEF TypeOK
      <3> QED BY <1>0, <2>1, <3>1 DEF TypeOK
    <2>3. TypeOK'
      BY <1>0, <2>1, <2>2 DEF TypeOK, turn
    <2>4. CountInv' /\ NoRepeat'
      BY <1>0, <2>1 DEF CountInv, NoRepeat, turn
    <2>5. ReadInv'
      <3>1. Shown => Shown'
        BY <1>0, <2>1, ShownStays
      <3> QED BY <1>0, <2>1, <3>1 DEF ReadInv, turn
    <2> QED BY <2>3, <2>4, <2>5 DEF IInv
  <1>10. CASE UNCHANGED vars
    BY <1>0, <1>10 DEF vars, turn, chat, IInv, TypeOK, CountInv, ReadInv, Shown, Crowded, NoRepeat
  <1> QED BY <1>1, <1>2, <1>3, <1>4, <1>5, <1>6, <1>7, <1>8, <1>9, <1>10 DEF Next, Progress

-----------------------------------------------------------------------------
(* Termination.  TLAPS proves no liveness, but it proves what TurnEnds rests on: the *)
(* steps of a turn use up a natural number.                                           *)

\* A reply has no more calls than the bound allows.
SizeInv == Len(calls) <= MaxCalls /\ Len(rest) <= MaxCalls

\* More steps than one reply and its tools can take.
StepCost == 4 * MaxCalls + 5

\* What this reply and its tools may still take.
Remaining ==
    CASE pc = "prompt" -> 4 * MaxCalls + 6
      [] pc = "stream" -> 4 * MaxCalls + (IF text THEN 4 ELSE 5) - Len(calls)
      [] pc = "calls"  -> 3 * Len(rest) + 2
      [] pc = "phrase" -> 3 * Len(rest) + 1
      [] pc = "run"    -> 3 * Len(rest)
      [] pc = "finish" -> 1
      [] OTHER         -> 0

\* What the turn may still take.
Budget == (MaxToolSteps - step) * StepCost + Remaining

LEMMA SizeInvInit == Init => SizeInv
  BY StepsAssumption DEF Init, SizeInv

LEMMA SizeInvNext ==
    ASSUME TypeOK, SizeInv, [Next]_vars
    PROVE  SizeInv'
  <1> USE StepsAssumption
  <1>1. /\ calls \in Seq(Calls) /\ rest \in Seq(Calls)
        /\ Len(calls) <= MaxCalls /\ Len(rest) <= MaxCalls
    BY DEF TypeOK, SizeInv
  <1>2. ASSUME Ask PROVE SizeInv'
    BY <1>1, <1>2 DEF Ask, SizeInv
  <1>3. ASSUME CallsChunk PROVE SizeInv'
    <2>1. PICK b \in Batch : Len(calls) + Len(b) <= MaxCalls /\ calls' = calls \o b
      BY <1>3 DEF CallsChunk
    <2>2. b \in Seq(Calls)
      BY DEF Batch
    <2>3. Len(calls') = Len(calls) + Len(b) /\ rest' = rest
      BY <1>1, <1>3, <2>1, <2>2 DEF CallsChunk
    <2> QED BY <1>1, <2>1, <2>3 DEF SizeInv
  <1>4. ASSUME UnknownTool \/ ToolDone PROVE SizeInv'
    <2>1. rest # <<>> /\ rest' = Tail(rest) /\ calls' = calls
      BY <1>4 DEF UnknownTool, ToolDone, TypeOK
    <2>2. Len(rest') = Len(rest) - 1
      BY <1>1, <2>1
    <2> QED BY <1>1, <2>1, <2>2 DEF SizeInv
  <1>5. ASSUME ReplyDone PROVE SizeInv'
    BY <1>1, <1>5 DEF ReplyDone, SizeInv
  <1>6. ASSUME \/ TextChunk \/ KnownTool \/ PhraseDone \/ StepDone \/ Finish
               \/ LlmFails \/ Cancel \/ OthersWrite \/ UNCHANGED vars
        PROVE  SizeInv'
    <2>1. calls' = calls /\ rest' = rest
      BY <1>6 DEF TextChunk, KnownTool, PhraseDone, StepDone, Finish, LlmFails, Cancel,
             OthersWrite, turn, vars
    <2> QED BY <1>1, <2>1 DEF SizeInv
  <1> QED BY <1>2, <1>3, <1>4, <1>5, <1>6 DEF Next, Progress

LEMMA ProductNat == \A m, n \in Nat : m * n \in Nat
  OBVIOUS

LEMMA OneStepLess ==
    ASSUME NEW k \in Nat, NEW c \in Nat, NEW r \in Int, NEW s \in Int
    PROVE  /\ s < r => k * c + s < k * c + r
           /\ s < r + c => (k - 1) * c + s < k * c + r
  <1>1. k * c \in Nat /\ (k - 1) * c = k * c - c
    BY ProductNat
  <1> QED BY <1>1

\* A step within a reply lowers the budget if it lowers what remains of the reply; the
\* step to the next reply pays for it with StepCost.
LEMMA BudgetFalls ==
    ASSUME step \in 0..MaxToolSteps, Remaining \in Int, Remaining' \in Int,
           \/ step' = step /\ Remaining' < Remaining
           \/ step < MaxToolSteps /\ step' = step + 1 /\ Remaining' < Remaining + StepCost
    PROVE  Budget' < Budget
  <1>1. StepCost \in Nat /\ StepCost' = StepCost
    BY StepsAssumption DEF StepCost
  <1>2. MaxToolSteps - step \in Nat
    BY StepsAssumption
  <1>3. /\ Remaining' < Remaining
              => (MaxToolSteps - step) * StepCost + Remaining' < Budget
        /\ Remaining' < Remaining + StepCost
              => ((MaxToolSteps - step) - 1) * StepCost + Remaining' < Budget
    BY <1>1, <1>2, OneStepLess DEF Budget
  <1>4. CASE step' = step /\ Remaining' < Remaining
    BY <1>1, <1>3, <1>4 DEF Budget
  <1>5. CASE step < MaxToolSteps /\ step' = step + 1 /\ Remaining' < Remaining + StepCost
    <2>1. MaxToolSteps - step' = (MaxToolSteps - step) - 1
      BY <1>5, StepsAssumption
    <2> QED BY <1>1, <1>3, <1>5, <2>1 DEF Budget
  <1> QED BY <1>4, <1>5

LEMMA RemainingNat ==
    ASSUME TypeOK, SizeInv
    PROVE  Remaining \in Nat /\ Budget \in Nat
  <1> USE StepsAssumption
  <1>1. Len(calls) \in Nat /\ Len(rest) \in Nat /\ Len(calls) <= MaxCalls
    BY DEF TypeOK, SizeInv
  <1>2. Remaining \in Nat
    BY <1>1 DEF Remaining
  <1>3. MaxToolSteps - step \in Nat /\ StepCost \in Nat
    BY DEF TypeOK, StepCost
  <1>4. (MaxToolSteps - step) * StepCost \in Nat
    BY <1>3, ProductNat
  <1> QED BY <1>2, <1>4 DEF Budget

LEMMA NextPays ==
    ASSUME TypeOK, SizeInv, TypeOK', SizeInv', [Next]_vars, turn' # turn
    PROVE  Budget' < Budget
  <1> USE StepsAssumption
  <1>1. /\ calls \in Seq(Calls) /\ rest \in Seq(Calls)
        /\ Len(calls) <= MaxCalls /\ Len(rest) <= MaxCalls
        /\ Len(calls) \in Nat /\ Len(rest) \in Nat
        /\ step \in 0..MaxToolSteps /\ pc \in Places
    BY DEF TypeOK, SizeInv
  <1>2. Remaining \in Int /\ Remaining' \in Int
    <2>1. Remaining \in Nat
      BY RemainingNat
    <2>2. Len(calls') \in Nat /\ Len(rest') \in Nat /\ Len(calls') <= MaxCalls
      BY DEF TypeOK, SizeInv
    <2>3. Remaining' \in Int
      BY <2>2 DEF Remaining
    <2> QED BY <2>1, <2>3
  <1>3. SUFFICES \/ step' = step /\ Remaining' < Remaining
                 \/ /\ step < MaxToolSteps /\ step' = step + 1
                    /\ Remaining' < Remaining + StepCost
    BY <1>1, <1>2, BudgetFalls
  <1>4. CASE Ask
    <2>1. pc = "prompt" /\ pc' = "stream" /\ ~text' /\ Len(calls') = 0 /\ step' = step
      BY <1>4 DEF Ask
    <2> QED BY <2>1 DEF Remaining
  <1>5. CASE TextChunk
    <2>1. pc = "stream" /\ pc' = "stream" /\ ~text /\ text' /\ calls' = calls /\ step' = step
      BY <1>5 DEF TextChunk
    <2> QED BY <1>1, <2>1 DEF Remaining
  <1>6. CASE CallsChunk
    <2>1. PICK b \in Batch \ {<<>>} : calls' = calls \o b
      BY <1>6 DEF CallsChunk
    <2>2. b \in Seq(Calls) /\ b # <<>>
      BY DEF Batch
    <2>3. Len(calls') > Len(calls) /\ Len(calls') \in Nat
      BY <1>1, <2>1, <2>2
    <2>4. pc = "stream" /\ pc' = "stream" /\ text' = text /\ step' = step
      BY <1>6 DEF CallsChunk
    <2> QED BY <1>1, <2>3, <2>4 DEF Remaining
  <1>7. CASE ReplyDone
    <2>1. pc = "stream" /\ step' = step
          /\ (pc' = "finish" \/ (pc' = "calls" /\ rest' = calls))
      BY <1>7 DEF ReplyDone
    <2> QED BY <1>1, <2>1 DEF Remaining
  <1>8. CASE UnknownTool \/ ToolDone
    <2>1. /\ rest # <<>> /\ rest' = Tail(rest) /\ step' = step
          /\ pc \in {"calls", "run"} /\ pc' = "calls"
      BY <1>8 DEF UnknownTool, ToolDone, TypeOK
    <2>2. Len(rest') = Len(rest) - 1
      BY <1>1, <2>1
    <2> QED BY <1>1, <2>1, <2>2 DEF Remaining
  <1>9. CASE KnownTool \/ PhraseDone
    <2>1. /\ rest # <<>> /\ rest' = rest /\ step' = step
          /\ \/ pc = "calls" /\ pc' \in {"phrase", "run", "cut"}
             \/ pc = "phrase" /\ pc' \in {"run", "cut"}
      BY <1>9 DEF KnownTool, PhraseDone, RequestEvent, TypeOK
    <2> QED BY <1>1, <2>1 DEF Remaining
  <1>10. CASE StepDone
    <2>1. pc = "calls" /\ Len(rest) = 0
      BY <1>10 DEF StepDone
    <2>2. \/ step < MaxToolSteps /\ step' = step + 1 /\ pc' = "prompt"
          \/ step' = step /\ pc' = "finish"
      BY <1>10 DEF StepDone
    <2> QED BY <2>1, <2>2 DEF Remaining, StepCost
  <1>11. CASE Finish
    BY <1>11 DEF Finish, Remaining
  <1>12. CASE LlmFails \/ Cancel
    <2>1. pc \notin {"ended", "cut"} /\ pc' = "cut" /\ step' = step
      BY <1>12 DEF LlmFails, Cancel, Suspended
    <2>2. pc = "run" => Len(rest) > 0
      BY <1>1 DEF TypeOK
    <2> QED BY <1>1, <2>1, <2>2 DEF Remaining, Places
  <1> QED BY <1>4, <1>5, <1>6, <1>7, <1>8, <1>9, <1>10, <1>11, <1>12 DEF Next, Progress,
             OthersWrite, vars

-----------------------------------------------------------------------------
(* Theorems. *)

\* The invariant is inductive.
THEOREM Invariant == Spec => []IInv
  BY InitInv, NextKeeps, PTL DEF Spec

\* The turn's locals keep their types; it speaks or runs only a call it has.
THEOREM TypeCorrect == Spec => []TypeOK
  BY Invariant, PTL DEF IInv

\* No step runs the calls of the step before it, and the steps are bounded
\* (turn_loop.py:120, 167-176).
THEOREM NoRepeatHolds == Spec => []NoRepeat
  BY Invariant, PTL DEF IInv

\* A turn the LLM ends by itself has shown it the user's message and every result, except
\* those that history_window newer messages kept out of the last prompt, for any window.
THEOREM ReplySawResultsHolds == Spec => []ReplySawResults
  <1>1. IInv => ReplySawResults
    BY DEF IInv, ReadInv, ReplySawResults
  <1> QED BY Invariant, <1>1, PTL

\* The events of a turn are those TurnStream allows: every request is answered before
\* the next, and the end event comes last.
THEOREM ImplementsStreamHolds == Spec => ImplementsStream
  <1> USE CallsAssumption
  <1>1. Init => Stream!Init
    BY DEF Init, Stream!Init, Open, Over
  <1>2. ASSUME IInv, [Next]_vars PROVE [Stream!Next]_<<Open, Over>>
    <2>1. TypeOK
      BY <1>2 DEF IInv
    <2>2. pc \in {"phrase", "run"} => rest # <<>> /\ Head(rest) \in Calls
      BY <2>1 DEF TypeOK
    <2>3. CASE pc' = "run"
      <3>1. CASE KnownTool
        <4>1. pc = "calls" /\ rest' = rest /\ Head(rest) \in Calls
          BY <2>1, <3>1 DEF KnownTool, TypeOK
        <4> QED BY <2>3, <4>1 DEF Open, Over, Stream!Next, Stream!Request
      <3>2. CASE PhraseDone
        BY <2>2, <2>3, <3>2 DEF PhraseDone, Open, Over, Stream!Next, Stream!Request
      <3>3. CASE CallsChunk \/ TextChunk \/ Ask \/ ReplyDone \/ UnknownTool \/ ToolDone \/ StepDone
                 \/ Finish \/ LlmFails \/ Cancel
        BY <2>3, <3>3 DEF CallsChunk, TextChunk, Ask, ReplyDone, UnknownTool, ToolDone, StepDone,
                          Finish, LlmFails, Cancel, Suspended
      <3>4. CASE OthersWrite \/ UNCHANGED vars
        BY <3>4 DEF OthersWrite, vars, turn, Open, Over
      <3> QED BY <1>2, <3>1, <3>2, <3>3, <3>4 DEF Next, Progress
    <2>4. CASE pc' # "run"
      <3>1. CASE pc = "run"
        <4>1. Open \in Calls /\ Open # NoCall /\ Over = "no" /\ Open' = NoCall
          BY <2>2, <2>4, <3>1 DEF Open, Over
        <4>2. Over' \in {"no", "cut"}
          BY <1>2, <2>4, <3>1 DEF Over, Next, Progress, Ask, TextChunk, CallsChunk, ReplyDone,
             UnknownTool, KnownTool, PhraseDone, ToolDone, StepDone, Finish, LlmFails, Cancel,
             Suspended, OthersWrite, turn, vars
        <4> QED BY <4>1, <4>2 DEF Stream!Next, Stream!Answer, Stream!Cut
      <3>2. CASE pc \notin {"run", "ended", "cut"}
        BY <2>4, <3>2 DEF Open, Over, Stream!Next, Stream!End, Stream!Cut
      <3>3. CASE pc \in {"ended", "cut"}
        <4>1. pc' = pc
          BY <1>2, <3>3 DEF Next, Progress, Ask, TextChunk, CallsChunk, ReplyDone, UnknownTool,
             KnownTool, PhraseDone, ToolDone, StepDone, Finish, LlmFails, Cancel, Suspended,
             OthersWrite, turn, vars
        <4> QED BY <3>3, <4>1 DEF Open, Over
      <3> QED BY <3>1, <3>2, <3>3
    <2> QED BY <2>3, <2>4
  <1> QED BY Invariant, <1>1, <1>2, PTL DEF Spec, ImplementsStream, Stream!Spec

\* What a turn may still take is a natural number; it is at first
\* (MaxToolSteps + 1) * StepCost + 1 (turn_loop.py:120).
THEOREM BudgetIsNatural == Spec => [](Budget \in Nat)
  <1>1. IInv /\ SizeInv => Budget \in Nat
    BY RemainingNat DEF IInv
  <1>2. IInv /\ SizeInv /\ [Next]_vars => SizeInv'
    BY SizeInvNext DEF IInv
  <1> QED BY Invariant, SizeInvInit, <1>1, <1>2, PTL DEF Spec

\* Whatever the LLM replies, every step of a turn, not only those that Progress counts,
\* uses up some of its budget, so that a turn that always goes on ends, however much the
\* other turns write.  This is the safety part of TurnEnds, for any tools and any limit.
THEOREM StepsUseUpBudget == Spec => [][Budget' < Budget]_turn
  <1>1. IInv /\ SizeInv /\ [Next]_vars => SizeInv'
    BY SizeInvNext DEF IInv
  <1>2. IInv /\ SizeInv /\ IInv' /\ SizeInv' /\ [Next]_vars => [Budget' < Budget]_turn
    BY NextPays DEF IInv
  <1> QED BY Invariant, SizeInvInit, <1>1, <1>2, PTL DEF Spec
=============================================================================
