--------------------------- MODULE AgentLoop_proofs ---------------------------
(***************************************************************************)
(* Proofs about AgentLoop, for every budget, every batch length and every  *)
(* set of arms.  Accounts is the inductive invariant behind the properties *)
(* of AgentLoop: it says what the counters and the file owe each other in  *)
(* the middle of a batch, where the properties say nothing yet.            *)
(***************************************************************************)
EXTENDS AgentLoop, TLAPS

\* The batch in flight exists exactly while a batch is being paid for, and it is
\* the turn after the last step line.
InFlight ==
  /\ pending.live <=> pc \in {"batch", "handler"}
  /\ ~pending.live => pending = NoPending
  /\ pending.live => /\ pending.step = step
                     /\ pending.taken <= Len(pending.calls)
                     /\ pending.answered = pending.taken - (IF pc = "handler" THEN 1 ELSE 0)
  /\ pc = "handler" => pending.taken > 0

\* Every paid call, attempt and rejection is in the file or in the batch in flight.
Owed ==
  /\ file.calls + pending.taken = tool_calls
  /\ file.submitCalls + pending.submitCalls = submits + file.seconds + pending.seconds
  /\ file.rejections + pending.rejected = verify_rounds + file.seconds + pending.seconds

\* One step line per billed turn, the batch in flight excepted.
Lines ==
  /\ file.steps = steps /\ file.last = steps
  /\ billed = steps + (IF pending.live THEN 1 ELSE 0)
  /\ stop = "none" => step = billed

\* run_end is written once, on the way out.
Ended ==
  /\ stop = "none" <=> pc # "done"
  /\ file.ends = IF stop = "none" THEN 0 ELSE 1

Accounts == InFlight /\ Owed /\ Lines /\ Ended
-----------------------------------------------------------------------------

\* A batch the model hands out is a sequence of calls of at most MaxBatch.
LEMMA BatchIsSequence ==
  ASSUME NEW b \in Batches
  PROVE  b \in Seq(CallKinds) /\ Len(b) \in 1..MaxBatch
<1>1. PICK n \in 1..MaxBatch : b \in [1..n -> CallKinds]
  BY DEF Batches
<1>2. n \in Nat
  BY LoopAssumption
<1>3. b \in Seq(CallKinds)
  BY <1>1, <1>2
<1>4. Len(b) = n
  BY <1>1, <1>2, <1>3
<1>5. QED
  BY <1>3, <1>4

\* A line keeps the totals natural as long as the batch answered no more than it took.
LEMMA LineType ==
  ASSUME NEW f \in FileType, NEW p \in PendingType, p.answered <= p.taken
  PROVE  WithStep(f, p) \in FileType
<1>1. /\ p.step \in Nat /\ p.taken \in Nat /\ p.answered \in Nat
      /\ p.submitCalls \in Nat /\ p.seconds \in Nat /\ p.rejected \in Nat
  BY DEF PendingType
<1>2. /\ f.steps \in Nat /\ f.calls \in Nat /\ f.submitCalls \in Nat /\ f.seconds \in Nat
      /\ f.rejections \in Nat /\ f.owedBefore \in Nat /\ f.owedLast \in Nat
      /\ f.approvals \in Nat /\ f.refusals \in Nat /\ f.ends \in Nat
  BY DEF FileType
<1>3. p.taken - p.answered \in Nat
  BY <1>1
<1>4. QED
  BY <1>1, <1>2, <1>3 DEF WithStep, FileType

\* The end of a run leaves a trace file of its type (Trace.run_end).
LEMMA EndType ==
  ASSUME NEW f \in FileType
  PROVE  WithEnd(f) \in FileType
BY DEF WithEnd, FileType

\* The pending step before a batch has the type of a pending step.
LEMMA NoPendingType == NoPending \in PendingType
BY DEF NoPending, PendingType

\* The line of a turn without calls is a step line.
LEMMA QuietLineType ==
  ASSUME NEW n \in Nat
  PROVE  /\ QuietLine(n) \in PendingType
         /\ QuietLine(n).step = n /\ QuietLine(n).taken = 0 /\ QuietLine(n).answered = 0
         /\ QuietLine(n).submitCalls = 0 /\ QuietLine(n).seconds = 0
         /\ QuietLine(n).rejected = 0
BY DEF QuietLine, NoPending, PendingType

\* What the flush writes is a file, and never owes more than the batch in flight.
LEMMA FlushType ==
  ASSUME TypeOK, InFlight
  PROVE  FlushedFile \in FileType /\ WithEnd(FlushedFile) \in FileType /\ FlushedSteps \in Nat
<1>1. file \in FileType /\ pending \in PendingType
  BY DEF TypeOK, FileType, PendingType
<1>2. pending.answered <= pending.taken
  BY <1>1 DEF InFlight, NoPending, PendingType
<1>3. FlushedFile \in FileType
  BY <1>1, <1>2, LineType DEF FlushedFile
<1>4. FlushedSteps \in Nat
  BY <1>1 DEF FlushedSteps, PendingType, TypeOK
<1>5. QED
  BY <1>3, <1>4, EndType
-----------------------------------------------------------------------------

IInv == TypeOK /\ Accounts

\* Facts about the pieces of the state, so that no step below opens the records' types.
LEMMA Pieces ==
  ASSUME TypeOK
  PROVE  /\ file \in FileType /\ pending \in PendingType
         /\ pending.live \in BOOLEAN
         /\ pending.step \in Nat /\ pending.taken \in Nat /\ pending.answered \in Nat
         /\ pending.submitCalls \in Nat /\ pending.seconds \in Nat /\ pending.rejected \in Nat
         /\ file.steps \in Nat /\ file.last \in Nat /\ file.calls \in Nat
         /\ file.submitCalls \in Nat /\ file.seconds \in Nat /\ file.rejections \in Nat
         /\ file.approvals \in Nat /\ file.refusals \in Nat /\ file.ends \in Nat
         /\ file.owedBefore \in Nat /\ file.owedLast \in Nat
         /\ pending.calls \in Batches \cup {<<>>}
         /\ step \in Nat /\ steps \in Nat /\ billed \in Nat
         /\ tool_calls \in Nat /\ submits \in Nat /\ verify_rounds \in Nat
BY DEF TypeOK, FileType, PendingType

\* Flush and stop: whatever was in flight becomes the last line before run_end.
LEMMA FlushStops ==
  ASSUME IInv, stop = "none", NEW why \in StopConditions, FlushAndStop(why),
         UNCHANGED counters, UNCHANGED billed
  PROVE  Accounts' /\ file' \in FileType /\ pending' \in PendingType
         /\ steps' \in Nat /\ pc' \in PcStates /\ stop' \in StopConditions \cup {"none"}
<1> USE DEF IInv, Accounts
<1>1. /\ file' \in FileType /\ pending' \in PendingType
      /\ steps' \in Nat /\ pc' \in PcStates /\ stop' \in StopConditions \cup {"none"}
  BY FlushType, NoPendingType DEF FlushAndStop, PcStates
<1>2. /\ pending' = NoPending /\ pc' = "done" /\ stop' # "none"
      /\ ~NoPending.live /\ NoPending.taken = 0 /\ NoPending.submitCalls = 0
      /\ NoPending.seconds = 0 /\ NoPending.rejected = 0
  BY DEF FlushAndStop, NoPending, StopConditions
<1>3. InFlight'
  BY <1>2 DEF InFlight
<1>same. /\ tool_calls' = tool_calls /\ submits' = submits
         /\ verify_rounds' = verify_rounds /\ billed' = billed
  BY DEF counters
<1>typed. /\ pending.taken \in Nat /\ pending.submitCalls \in Nat /\ pending.seconds \in Nat
          /\ pending.rejected \in Nat /\ file.steps \in Nat /\ file.calls \in Nat
          /\ file.submitCalls \in Nat /\ file.seconds \in Nat /\ file.rejections \in Nat
          /\ submits \in Nat /\ verify_rounds \in Nat /\ tool_calls \in Nat
          /\ steps \in Nat /\ billed \in Nat /\ step \in Nat
  BY Pieces
<1>4. ASSUME pending.live PROVE Owed' /\ Lines' /\ Ended'
  <2>1. /\ file'.steps = file.steps + 1 /\ file'.last = pending.step
        /\ file'.calls = file.calls + pending.taken
        /\ file'.submitCalls = file.submitCalls + pending.submitCalls
        /\ file'.seconds = file.seconds + pending.seconds
        /\ file'.rejections = file.rejections + pending.rejected
        /\ file'.ends = file.ends + 1 /\ steps' = pending.step
    BY <1>4 DEF FlushAndStop, FlushedFile, FlushedSteps, WithStep, WithEnd
  <2>2. Owed'
    BY <1>2, <1>same, <1>typed, <2>1 DEF Owed
  <2>3. Lines'
    BY <1>2, <1>4, <1>same, <1>typed, <2>1 DEF Lines, InFlight
  <2>4. QED
    BY <1>2, <2>1, <2>2, <2>3, Pieces DEF Ended
<1>5. ASSUME ~pending.live PROVE Owed' /\ Lines' /\ Ended'
  <2>1. /\ file'.steps = file.steps /\ file'.last = file.last /\ file'.calls = file.calls
        /\ file'.submitCalls = file.submitCalls /\ file'.seconds = file.seconds
        /\ file'.rejections = file.rejections
        /\ file'.ends = file.ends + 1 /\ steps' = steps
    BY <1>5, Pieces DEF FlushAndStop, FlushedFile, FlushedSteps, WithEnd, FileType
  <2>2. pending = NoPending
    BY <1>5 DEF InFlight
  <2>3. Owed'
    BY <1>2, <1>same, <2>1, <2>2, Pieces DEF Owed
  <2>4. Lines'
    BY <1>2, <1>5, <1>same, <2>1, Pieces DEF Lines
  <2>5. QED
    BY <1>2, <2>1, <2>3, <2>4, Pieces DEF Ended
<1>6. QED
  BY <1>1, <1>3, <1>4, <1>5

\* The inductive invariant holds before the first turn.
LEMMA InitInv == Init => IInv
<1> SUFFICES ASSUME Init PROVE IInv
  OBVIOUS
<1>1. TypeOK
  BY DEF Init, TypeOK, FileType, PendingType, PcStates, EmptyFile, NoPending
<1>2. Accounts
  BY DEF Init, Accounts, InFlight, Owed, Lines, Ended, EmptyFile, NoPending
<1>3. QED
  BY <1>1, <1>2 DEF IInv
-----------------------------------------------------------------------------

\* A dispatched call: taken and answered at once.
LEMMA Took ==
  ASSUME NEW p \in PendingType, NEW q,
         q = [p EXCEPT !.taken = @ + 1, !.answered = @ + 1]
  PROVE  /\ q \in PendingType
         /\ q.live <=> p.live
         /\ q.step = p.step /\ q.calls = p.calls
         /\ q.taken = p.taken + 1
         /\ q.answered = p.answered + 1
         /\ q.submitCalls = p.submitCalls
         /\ q.seconds = p.seconds
         /\ q.rejected = p.rejected
<1>1. p.live \in BOOLEAN /\ p.calls \in Batches \cup {<<>>} /\ p.step \in Nat
  BY DEF PendingType
<1>2. p.taken + 1 \in Nat /\ p.answered + 1 \in Nat /\ p.submitCalls \in Nat
  BY DEF PendingType
<1>3. p.seconds \in Nat /\ p.rejected \in Nat
  BY DEF PendingType
<1>4. q \in PendingType
  BY <1>1, <1>2, <1>3 DEF PendingType
<1>5. /\ q.step = p.step /\ q.calls = p.calls
      /\ q.taken = p.taken + 1
      /\ q.answered = p.answered + 1
      /\ q.submitCalls = p.submitCalls
      /\ q.seconds = p.seconds
      /\ q.rejected = p.rejected
  BY DEF PendingType
<1>6. q.live <=> p.live
  BY DEF PendingType
<1>7. QED
  BY <1>4, <1>5, <1>6

\* A second submit of the turn: an accepted:false answer that is nobody's attempt.
LEMMA TookSecond ==
  ASSUME pending \in PendingType,
         pending' = [pending EXCEPT !.taken = @ + 1, !.answered = @ + 1, !.submitCalls = @ + 1,
                                    !.seconds = @ + 1, !.rejected = @ + 1]
  PROVE  /\ pending' \in PendingType
         /\ pending'.live <=> pending.live
         /\ pending'.step = pending.step /\ pending'.calls = pending.calls
         /\ pending'.taken = pending.taken + 1
         /\ pending'.answered = pending.answered + 1
         /\ pending'.submitCalls = pending.submitCalls + 1
         /\ pending'.seconds = pending.seconds + 1
         /\ pending'.rejected = pending.rejected + 1
<1>1. pending.live \in BOOLEAN /\ pending.calls \in Batches \cup {<<>>} /\ pending.step \in Nat
  BY DEF PendingType
<1>2. pending.taken + 1 \in Nat /\ pending.answered + 1 \in Nat /\ pending.submitCalls + 1 \in Nat
  BY DEF PendingType
<1>3. pending.seconds + 1 \in Nat /\ pending.rejected + 1 \in Nat
  BY DEF PendingType
<1>4. pending' \in PendingType
  BY <1>1, <1>2, <1>3 DEF PendingType
<1>5. /\ pending'.step = pending.step /\ pending'.calls = pending.calls
      /\ pending'.taken = pending.taken + 1
      /\ pending'.answered = pending.answered + 1
      /\ pending'.submitCalls = pending.submitCalls + 1
      /\ pending'.seconds = pending.seconds + 1
      /\ pending'.rejected = pending.rejected + 1
  BY DEF PendingType
<1>6. pending'.live <=> pending.live
  BY DEF PendingType
<1>7. QED
  BY <1>4, <1>5, <1>6

\* An attempt, before its handler ran.
LEMMA TookSubmit ==
  ASSUME NEW p \in PendingType, NEW q,
         q = [p EXCEPT !.taken = @ + 1, !.submitCalls = @ + 1]
  PROVE  /\ q \in PendingType
         /\ q.live <=> p.live
         /\ q.step = p.step /\ q.calls = p.calls
         /\ q.taken = p.taken + 1
         /\ q.answered = p.answered
         /\ q.submitCalls = p.submitCalls + 1
         /\ q.seconds = p.seconds
         /\ q.rejected = p.rejected
<1>1. p.live \in BOOLEAN /\ p.calls \in Batches \cup {<<>>} /\ p.step \in Nat
  BY DEF PendingType
<1>2. p.taken + 1 \in Nat /\ p.answered \in Nat /\ p.submitCalls + 1 \in Nat
  BY DEF PendingType
<1>3. p.seconds \in Nat /\ p.rejected \in Nat
  BY DEF PendingType
<1>4. q \in PendingType
  BY <1>1, <1>2, <1>3 DEF PendingType
<1>5. /\ q.step = p.step /\ q.calls = p.calls
      /\ q.taken = p.taken + 1
      /\ q.answered = p.answered
      /\ q.submitCalls = p.submitCalls + 1
      /\ q.seconds = p.seconds
      /\ q.rejected = p.rejected
  BY DEF PendingType
<1>6. q.live <=> p.live
  BY DEF PendingType
<1>7. QED
  BY <1>4, <1>5, <1>6

\* An accepted attempt.
LEMMA AnsweredYes ==
  ASSUME NEW p \in PendingType, NEW q,
         q = [p EXCEPT !.answered = @ + 1]
  PROVE  /\ q \in PendingType
         /\ q.live <=> p.live
         /\ q.step = p.step /\ q.calls = p.calls
         /\ q.taken = p.taken
         /\ q.answered = p.answered + 1
         /\ q.submitCalls = p.submitCalls
         /\ q.seconds = p.seconds
         /\ q.rejected = p.rejected
<1>1. p.live \in BOOLEAN /\ p.calls \in Batches \cup {<<>>} /\ p.step \in Nat
  BY DEF PendingType
<1>2. p.taken \in Nat /\ p.answered + 1 \in Nat /\ p.submitCalls \in Nat
  BY DEF PendingType
<1>3. p.seconds \in Nat /\ p.rejected \in Nat
  BY DEF PendingType
<1>4. q \in PendingType
  BY <1>1, <1>2, <1>3 DEF PendingType
<1>5. /\ q.step = p.step /\ q.calls = p.calls
      /\ q.taken = p.taken
      /\ q.answered = p.answered + 1
      /\ q.submitCalls = p.submitCalls
      /\ q.seconds = p.seconds
      /\ q.rejected = p.rejected
  BY DEF PendingType
<1>6. q.live <=> p.live
  BY DEF PendingType
<1>7. QED
  BY <1>4, <1>5, <1>6

\* A rejected attempt.
LEMMA AnsweredNo ==
  ASSUME NEW p \in PendingType, NEW q,
         q = [p EXCEPT !.answered = @ + 1, !.rejected = @ + 1]
  PROVE  /\ q \in PendingType
         /\ q.live <=> p.live
         /\ q.step = p.step /\ q.calls = p.calls
         /\ q.taken = p.taken
         /\ q.answered = p.answered + 1
         /\ q.submitCalls = p.submitCalls
         /\ q.seconds = p.seconds
         /\ q.rejected = p.rejected + 1
<1>1. p.live \in BOOLEAN /\ p.calls \in Batches \cup {<<>>} /\ p.step \in Nat
  BY DEF PendingType
<1>2. p.taken \in Nat /\ p.answered + 1 \in Nat /\ p.submitCalls \in Nat
  BY DEF PendingType
<1>3. p.seconds \in Nat /\ p.rejected + 1 \in Nat
  BY DEF PendingType
<1>4. q \in PendingType
  BY <1>1, <1>2, <1>3 DEF PendingType
<1>5. /\ q.step = p.step /\ q.calls = p.calls
      /\ q.taken = p.taken
      /\ q.answered = p.answered + 1
      /\ q.submitCalls = p.submitCalls
      /\ q.seconds = p.seconds
      /\ q.rejected = p.rejected + 1
  BY DEF PendingType
<1>6. q.live <=> p.live
  BY DEF PendingType
<1>7. QED
  BY <1>4, <1>5, <1>6

\* The books stay balanced when c calls are taken, n of them an attempt, x a second
\* submit of the turn, r a handled rejection.
LEMMA BooksBalance ==
  ASSUME IInv, file' = file,
         NEW c \in Nat, NEW n \in Nat, NEW x \in Nat, NEW r \in Nat,
         tool_calls' = tool_calls + c, submits' = submits + n,
         verify_rounds' = verify_rounds + r,
         pending'.taken = pending.taken + c,
         pending'.submitCalls = pending.submitCalls + n + x,
         pending'.seconds = pending.seconds + x,
         pending'.rejected = pending.rejected + r + x
  PROVE  Owed'
<1>1. TypeOK /\ Owed
  BY DEF IInv, Accounts
<1>2. (file.calls + pending.taken = tool_calls)'
  <2>1. file.calls \in Nat /\ pending.taken \in Nat /\ tool_calls \in Nat
    BY <1>1, Pieces
  <2>2. file.calls + pending.taken = tool_calls
    BY <1>1 DEF Owed
  <2>3. QED
    BY <2>1, <2>2
<1>3. (file.submitCalls + pending.submitCalls = submits + file.seconds + pending.seconds)'
  <2>1. /\ file.submitCalls \in Nat /\ pending.submitCalls \in Nat /\ submits \in Nat
        /\ file.seconds \in Nat /\ pending.seconds \in Nat
    BY <1>1, Pieces
  <2>2. file.submitCalls + pending.submitCalls = submits + file.seconds + pending.seconds
    BY <1>1 DEF Owed
  <2>3. QED
    BY <2>1, <2>2
<1>4. (file.rejections + pending.rejected = verify_rounds + file.seconds + pending.seconds)'
  <2>1. /\ file.rejections \in Nat /\ pending.rejected \in Nat /\ verify_rounds \in Nat
        /\ file.seconds \in Nat /\ pending.seconds \in Nat
    BY <1>1, Pieces
  <2>2. file.rejections + pending.rejected = verify_rounds + file.seconds + pending.seconds
    BY <1>1 DEF Owed
  <2>3. QED
    BY <2>1, <2>2
<1>5. QED
  BY <1>2, <1>3, <1>4 DEF Owed

\* A call moves the batch in flight along: c more taken, a more answered, and the
\* handler holds exactly one call that is taken and not answered.
LEMMA StaysInFlight ==
  ASSUME IInv, NEW c \in Nat, NEW a \in Nat,
         pc \in {"batch", "handler"}, pc' \in {"batch", "handler"}, step' = step,
         pending'.live <=> pending.live,
         pending'.step = pending.step, pending'.calls = pending.calls,
         pending'.taken = pending.taken + c, pending'.answered = pending.answered + a,
         pending.taken + c <= Len(pending.calls),
         (IF pc = "handler" THEN 1 ELSE 0) + c = (IF pc' = "handler" THEN 1 ELSE 0) + a
  PROVE  InFlight'
<1>1. InFlight /\ TypeOK
  BY DEF IInv, Accounts
<1>2. pending.live
  BY <1>1 DEF InFlight
<1>3. pending'.live
  BY <1>2
<1>4. pending'.step = step'
  BY <1>1, <1>2 DEF InFlight
<1>5. pending'.taken <= Len(pending'.calls)
  OBVIOUS
<1>6. pending'.answered = pending'.taken - (IF pc' = "handler" THEN 1 ELSE 0)
  <2>1. pending.answered \in Nat /\ pending.taken \in Nat
    BY <1>1, Pieces
  <2>2. pending.answered = pending.taken - (IF pc = "handler" THEN 1 ELSE 0)
    BY <1>1, <1>2 DEF InFlight
  <2>3. QED
    BY <2>1, <2>2
<1>7. pc' = "handler" => pending'.taken > 0
  <2>1. pending.taken \in Nat /\ (pc = "handler" => pending.taken > 0)
    BY <1>1, Pieces DEF InFlight
  <2>2. QED
    BY <2>1
<1>8. QED
  BY <1>3, <1>4, <1>5, <1>6, <1>7 DEF InFlight

\* A tool call is paid for and answered in one step.
LEMMA DispatchInv ==
  ASSUME IInv, Dispatch
  PROVE  IInv'
<1>inv. TypeOK /\ InFlight /\ Owed /\ Lines /\ Ended
  BY DEF IInv, Accounts
<1>nat. /\ pending \in PendingType /\ tool_calls \in Nat /\ submits \in Nat
        /\ verify_rounds \in Nat
  BY <1>inv, Pieces
<1>0. /\ pc = "batch" /\ pc' = "batch"
      /\ tool_calls' = tool_calls + 1 /\ submits' = submits
      /\ verify_rounds' = verify_rounds
      /\ step' = step /\ nudges' = nudges /\ billed' = billed /\ steps' = steps
      /\ arm' = arm /\ overspent' = overspent /\ file' = file /\ disk' = disk /\ stop' = stop
      /\ accepted' \in BOOLEAN /\ submitted' \in BOOLEAN
  BY <1>inv DEF Dispatch, MoreCalls, counters, TypeOK
<1>u. pending' = [pending EXCEPT !.taken = @ + 1, !.answered = @ + 1]
  BY DEF Dispatch
<1>q. pending \in PendingType
  BY <1>nat
<1>2. /\ pending' \in PendingType
      /\ pending'.live <=> pending.live
      /\ pending'.step = pending.step /\ pending'.calls = pending.calls
      /\ pending'.taken = pending.taken + 1
      /\ pending'.answered = pending.answered + 1
      /\ pending'.submitCalls = pending.submitCalls
      /\ pending'.seconds = pending.seconds
      /\ pending'.rejected = pending.rejected
  BY <1>q, <1>u, Took
<1>3. TypeOK'
  <2>1. pending' \in PendingType
    BY <1>2
  <2>2. tool_calls' \in Nat /\ submits' \in Nat /\ verify_rounds' \in Nat
    BY <1>nat, <1>0
  <2>3. QED
    BY <1>inv, <1>0, <2>1, <2>2 DEF TypeOK, PcStates
<1>4. InFlight'
  <2>1. pending.taken + 1 <= Len(pending.calls)
    <3>1. pending.taken \in Nat /\ Len(pending.calls) \in Nat
      BY <1>q, BatchIsSequence DEF PendingType
    <3>2. QED
      BY <1>inv, <1>0, <3>1 DEF Dispatch, MoreCalls, InFlight
  <2>2. /\ pending'.taken = pending.taken + 1 /\ pending'.answered = pending.answered + 1
        /\ pending.taken + 1 <= Len(pending.calls)
    <3>1. pending.taken \in Nat /\ pending.answered \in Nat
      BY <1>q DEF PendingType
    <3>2. QED
      BY <1>2, <2>1, <3>1
  <2>3. (IF pc = "handler" THEN 1 ELSE 0) + 1 = (IF pc' = "handler" THEN 1 ELSE 0) + 1
    BY <1>0
  <2>4. /\ pc \in {"batch", "handler"} /\ pc' \in {"batch", "handler"} /\ step' = step
        /\ pending'.live <=> pending.live
        /\ pending'.step = pending.step /\ pending'.calls = pending.calls
    BY <1>0, <1>2
  <2>5. QED
    BY <2>2, <2>3, <2>4, StaysInFlight
<1>5. Owed'
  <2>1. /\ pending.taken \in Nat /\ pending.submitCalls \in Nat
        /\ pending.seconds \in Nat /\ pending.rejected \in Nat
    BY <1>q DEF PendingType
  <2>2. tool_calls' = tool_calls + 1 /\ submits' = submits + 0 /\ verify_rounds' = verify_rounds + 0
    BY <1>nat, <1>0
  <2>3. /\ pending'.taken = pending.taken + 1
        /\ pending'.submitCalls = pending.submitCalls + 0 + 0
        /\ pending'.seconds = pending.seconds + 0
        /\ pending'.rejected = pending.rejected + 0 + 0
    BY <1>2, <2>1
  <2>4. file' = file
    BY <1>0
  <2>5. QED
    BY <2>2, <2>3, <2>4, BooksBalance
<1>6. Lines' /\ Ended'
  BY <1>inv, <1>0, <1>2 DEF Lines, Ended
<1>7. QED
  BY <1>3, <1>4, <1>5, <1>6 DEF IInv, Accounts

\* A second submit is paid for, answered and nobody's attempt.
LEMMA SecondSubmitInv ==
  ASSUME IInv, SecondSubmit
  PROVE  IInv'
<1>inv. TypeOK /\ InFlight /\ Owed /\ Lines /\ Ended
  BY DEF IInv, Accounts
<1>nat. /\ pending \in PendingType /\ tool_calls \in Nat /\ submits \in Nat
        /\ verify_rounds \in Nat
  BY <1>inv, Pieces
<1>0. /\ pc = "batch" /\ pc' = "batch"
      /\ tool_calls' = tool_calls + 1 /\ submits' = submits
      /\ verify_rounds' = verify_rounds
      /\ step' = step /\ nudges' = nudges /\ billed' = billed /\ steps' = steps
      /\ arm' = arm /\ overspent' = overspent /\ file' = file /\ disk' = disk /\ stop' = stop
      /\ accepted' \in BOOLEAN /\ submitted' \in BOOLEAN
  BY <1>inv DEF SecondSubmit, MoreCalls, counters, TypeOK
<1>u. pending' = [pending EXCEPT !.taken = @ + 1, !.answered = @ + 1,
                                 !.submitCalls = @ + 1, !.seconds = @ + 1, !.rejected = @ + 1]
  BY DEF SecondSubmit
<1>q. pending \in PendingType
  BY <1>nat
<1>2. /\ pending' \in PendingType
      /\ pending'.live <=> pending.live
      /\ pending'.step = pending.step /\ pending'.calls = pending.calls
      /\ pending'.taken = pending.taken + 1
      /\ pending'.answered = pending.answered + 1
      /\ pending'.submitCalls = pending.submitCalls + 1
      /\ pending'.seconds = pending.seconds + 1
      /\ pending'.rejected = pending.rejected + 1
  BY <1>q, <1>u, TookSecond
<1>3. TypeOK'
  <2>1. pending' \in PendingType
    BY <1>2
  <2>2. tool_calls' \in Nat /\ submits' \in Nat /\ verify_rounds' \in Nat
    BY <1>nat, <1>0
  <2>3. QED
    BY <1>inv, <1>0, <2>1, <2>2 DEF TypeOK, PcStates
<1>4. InFlight'
  <2>1. pending.taken + 1 <= Len(pending.calls)
    <3>1. pending.taken \in Nat /\ Len(pending.calls) \in Nat
      BY <1>q, BatchIsSequence DEF PendingType
    <3>2. QED
      BY <1>inv, <1>0, <3>1 DEF SecondSubmit, MoreCalls, InFlight
  <2>2. /\ pending'.taken = pending.taken + 1 /\ pending'.answered = pending.answered + 1
        /\ pending.taken + 1 <= Len(pending.calls)
    <3>1. pending.taken \in Nat /\ pending.answered \in Nat
      BY <1>q DEF PendingType
    <3>2. QED
      BY <1>2, <2>1, <3>1
  <2>3. (IF pc = "handler" THEN 1 ELSE 0) + 1 = (IF pc' = "handler" THEN 1 ELSE 0) + 1
    BY <1>0
  <2>4. /\ pc \in {"batch", "handler"} /\ pc' \in {"batch", "handler"} /\ step' = step
        /\ pending'.live <=> pending.live
        /\ pending'.step = pending.step /\ pending'.calls = pending.calls
    BY <1>0, <1>2
  <2>5. QED
    BY <2>2, <2>3, <2>4, StaysInFlight
<1>5. Owed'
  <2>1. /\ pending.taken \in Nat /\ pending.submitCalls \in Nat
        /\ pending.seconds \in Nat /\ pending.rejected \in Nat
    BY <1>q DEF PendingType
  <2>2. tool_calls' = tool_calls + 1 /\ submits' = submits + 0 /\ verify_rounds' = verify_rounds + 0
    BY <1>nat, <1>0
  <2>3. /\ pending'.taken = pending.taken + 1
        /\ pending'.submitCalls = pending.submitCalls + 0 + 1
        /\ pending'.seconds = pending.seconds + 1
        /\ pending'.rejected = pending.rejected + 0 + 1
    BY <1>2, <2>1
  <2>4. file' = file
    BY <1>0
  <2>5. QED
    BY <2>2, <2>3, <2>4, BooksBalance
<1>6. Lines' /\ Ended'
  BY <1>inv, <1>0, <1>2 DEF Lines, Ended
<1>7. QED
  BY <1>3, <1>4, <1>5, <1>6 DEF IInv, Accounts

\* An attempt is bought before its handler runs.
LEMMA SubmitInv ==
  ASSUME IInv, Submit
  PROVE  IInv'
<1>inv. TypeOK /\ InFlight /\ Owed /\ Lines /\ Ended
  BY DEF IInv, Accounts
<1>nat. /\ pending \in PendingType /\ tool_calls \in Nat /\ submits \in Nat
        /\ verify_rounds \in Nat
  BY <1>inv, Pieces
<1>0. /\ pc = "batch" /\ pc' = "handler"
      /\ tool_calls' = tool_calls + 1 /\ submits' = submits + 1
      /\ verify_rounds' = verify_rounds
      /\ step' = step /\ nudges' = nudges /\ billed' = billed /\ steps' = steps
      /\ arm' = arm /\ overspent' = overspent /\ file' = file /\ disk' = disk /\ stop' = stop
      /\ accepted' \in BOOLEAN /\ submitted' \in BOOLEAN
  BY <1>inv DEF Submit, MoreCalls, counters, TypeOK
<1>u. pending' = [pending EXCEPT !.taken = @ + 1, !.submitCalls = @ + 1]
  BY DEF Submit
<1>q. pending \in PendingType
  BY <1>nat
<1>2. /\ pending' \in PendingType
      /\ pending'.live <=> pending.live
      /\ pending'.step = pending.step /\ pending'.calls = pending.calls
      /\ pending'.taken = pending.taken + 1
      /\ pending'.answered = pending.answered
      /\ pending'.submitCalls = pending.submitCalls + 1
      /\ pending'.seconds = pending.seconds
      /\ pending'.rejected = pending.rejected
  BY <1>q, <1>u, TookSubmit
<1>3. TypeOK'
  <2>1. pending' \in PendingType
    BY <1>2
  <2>2. tool_calls' \in Nat /\ submits' \in Nat /\ verify_rounds' \in Nat
    BY <1>nat, <1>0
  <2>3. QED
    BY <1>inv, <1>0, <2>1, <2>2 DEF TypeOK, PcStates
<1>4. InFlight'
  <2>1. pending.taken + 1 <= Len(pending.calls)
    <3>1. pending.taken \in Nat /\ Len(pending.calls) \in Nat
      BY <1>q, BatchIsSequence DEF PendingType
    <3>2. QED
      BY <1>inv, <1>0, <3>1 DEF Submit, MoreCalls, InFlight
  <2>2. /\ pending'.taken = pending.taken + 1 /\ pending'.answered = pending.answered + 0
        /\ pending.taken + 1 <= Len(pending.calls)
    <3>1. pending.taken \in Nat /\ pending.answered \in Nat
      BY <1>q DEF PendingType
    <3>2. QED
      BY <1>2, <2>1, <3>1
  <2>3. (IF pc = "handler" THEN 1 ELSE 0) + 1 = (IF pc' = "handler" THEN 1 ELSE 0) + 0
    BY <1>0
  <2>4. /\ pc \in {"batch", "handler"} /\ pc' \in {"batch", "handler"} /\ step' = step
        /\ pending'.live <=> pending.live
        /\ pending'.step = pending.step /\ pending'.calls = pending.calls
    BY <1>0, <1>2
  <2>5. QED
    BY <2>2, <2>3, <2>4, StaysInFlight
<1>5. Owed'
  <2>1. /\ pending.taken \in Nat /\ pending.submitCalls \in Nat
        /\ pending.seconds \in Nat /\ pending.rejected \in Nat
    BY <1>q DEF PendingType
  <2>2. tool_calls' = tool_calls + 1 /\ submits' = submits + 1 /\ verify_rounds' = verify_rounds + 0
    BY <1>nat, <1>0
  <2>3. /\ pending'.taken = pending.taken + 1
        /\ pending'.submitCalls = pending.submitCalls + 1 + 0
        /\ pending'.seconds = pending.seconds + 0
        /\ pending'.rejected = pending.rejected + 0 + 0
    BY <1>2, <2>1
  <2>4. file' = file
    BY <1>0
  <2>5. QED
    BY <2>2, <2>3, <2>4, BooksBalance
<1>6. Lines' /\ Ended'
  BY <1>inv, <1>0, <1>2 DEF Lines, Ended
<1>7. QED
  BY <1>3, <1>4, <1>5, <1>6 DEF IInv, Accounts

\* The handler accepted the record.
LEMMA AcceptInv ==
  ASSUME IInv, Accept
  PROVE  IInv'
<1>inv. TypeOK /\ InFlight /\ Owed /\ Lines /\ Ended
  BY DEF IInv, Accounts
<1>nat. /\ pending \in PendingType /\ tool_calls \in Nat /\ submits \in Nat
        /\ verify_rounds \in Nat
  BY <1>inv, Pieces
<1>0. /\ pc = "handler" /\ pc' = "batch"
      /\ tool_calls' = tool_calls /\ submits' = submits
      /\ verify_rounds' = verify_rounds
      /\ step' = step /\ nudges' = nudges /\ billed' = billed /\ steps' = steps
      /\ arm' = arm /\ overspent' = overspent /\ file' = file /\ disk' = disk /\ stop' = stop
      /\ accepted' \in BOOLEAN /\ submitted' \in BOOLEAN
  BY <1>inv DEF Accept, MoreCalls, counters, TypeOK
<1>u. pending' = [pending EXCEPT !.answered = @ + 1]
  BY DEF Accept
<1>q. pending \in PendingType
  BY <1>nat
<1>2. /\ pending' \in PendingType
      /\ pending'.live <=> pending.live
      /\ pending'.step = pending.step /\ pending'.calls = pending.calls
      /\ pending'.taken = pending.taken
      /\ pending'.answered = pending.answered + 1
      /\ pending'.submitCalls = pending.submitCalls
      /\ pending'.seconds = pending.seconds
      /\ pending'.rejected = pending.rejected
  BY <1>q, <1>u, AnsweredYes
<1>3. TypeOK'
  <2>1. pending' \in PendingType
    BY <1>2
  <2>2. tool_calls' \in Nat /\ submits' \in Nat /\ verify_rounds' \in Nat
    BY <1>nat, <1>0
  <2>3. QED
    BY <1>inv, <1>0, <2>1, <2>2 DEF TypeOK, PcStates
<1>4. InFlight'
  <2>1. pending.taken <= Len(pending.calls)
    <3>1. pending.taken \in Nat /\ Len(pending.calls) \in Nat
      BY <1>q, BatchIsSequence DEF PendingType
    <3>2. QED
      BY <1>inv, <1>0, <3>1 DEF Accept, MoreCalls, InFlight
  <2>2. /\ pending'.taken = pending.taken + 0 /\ pending'.answered = pending.answered + 1
        /\ pending.taken + 0 <= Len(pending.calls)
    <3>1. pending.taken \in Nat /\ pending.answered \in Nat
      BY <1>q DEF PendingType
    <3>2. QED
      BY <1>2, <2>1, <3>1
  <2>3. (IF pc = "handler" THEN 1 ELSE 0) + 0 = (IF pc' = "handler" THEN 1 ELSE 0) + 1
    BY <1>0
  <2>4. /\ pc \in {"batch", "handler"} /\ pc' \in {"batch", "handler"} /\ step' = step
        /\ pending'.live <=> pending.live
        /\ pending'.step = pending.step /\ pending'.calls = pending.calls
    BY <1>0, <1>2
  <2>5. QED
    BY <2>2, <2>3, <2>4, StaysInFlight
<1>5. Owed'
  <2>1. /\ pending.taken \in Nat /\ pending.submitCalls \in Nat
        /\ pending.seconds \in Nat /\ pending.rejected \in Nat
    BY <1>q DEF PendingType
  <2>2. tool_calls' = tool_calls + 0 /\ submits' = submits + 0 /\ verify_rounds' = verify_rounds + 0
    BY <1>nat, <1>0
  <2>3. /\ pending'.taken = pending.taken + 0
        /\ pending'.submitCalls = pending.submitCalls + 0 + 0
        /\ pending'.seconds = pending.seconds + 0
        /\ pending'.rejected = pending.rejected + 0 + 0
    BY <1>2, <2>1
  <2>4. file' = file
    BY <1>0
  <2>5. QED
    BY <2>2, <2>3, <2>4, BooksBalance
<1>6. Lines' /\ Ended'
  BY <1>inv, <1>0, <1>2 DEF Lines, Ended
<1>7. QED
  BY <1>3, <1>4, <1>5, <1>6 DEF IInv, Accounts

\* The line of the batch in flight settles its account; r is a rejection it carries
\* that was not in the batch yet.
LEMMA LineCloses ==
  ASSUME IInv, pending.live, NEW r \in Nat,
         pending' = NoPending, steps' = pending.step,
         file'.steps = file.steps + 1, file'.last = pending.step,
         file'.calls = file.calls + pending.taken,
         file'.submitCalls = file.submitCalls + pending.submitCalls,
         file'.seconds = file.seconds + pending.seconds,
         file'.rejections = file.rejections + (pending.rejected + r),
         tool_calls' = tool_calls, submits' = submits, verify_rounds' = verify_rounds + r,
         billed' = billed, step' = step, stop = "none"
  PROVE  Owed' /\ Lines'
<1>1. TypeOK /\ InFlight /\ Owed /\ Lines
  BY DEF IInv, Accounts
<1>2. /\ ~pending'.live /\ pending'.taken = 0 /\ pending'.submitCalls = 0
      /\ pending'.seconds = 0 /\ pending'.rejected = 0
  BY DEF NoPending
<1>3. (file.calls + pending.taken = tool_calls)'
  <2>1. file.calls \in Nat /\ pending.taken \in Nat /\ tool_calls \in Nat
    BY <1>1, Pieces
  <2>2. file.calls + pending.taken = tool_calls
    BY <1>1 DEF Owed
  <2>3. QED
    BY <1>2, <2>1, <2>2
<1>4. (file.submitCalls + pending.submitCalls = submits + file.seconds + pending.seconds)'
  <2>1. /\ file.submitCalls \in Nat /\ pending.submitCalls \in Nat /\ submits \in Nat
        /\ file.seconds \in Nat /\ pending.seconds \in Nat
    BY <1>1, Pieces
  <2>2. file.submitCalls + pending.submitCalls = submits + file.seconds + pending.seconds
    BY <1>1 DEF Owed
  <2>3. QED
    BY <1>2, <2>1, <2>2
<1>5. (file.rejections + pending.rejected = verify_rounds + file.seconds + pending.seconds)'
  <2>1. /\ file.rejections \in Nat /\ pending.rejected \in Nat /\ verify_rounds \in Nat
        /\ file.seconds \in Nat /\ pending.seconds \in Nat
    BY <1>1, Pieces
  <2>2. file.rejections + pending.rejected = verify_rounds + file.seconds + pending.seconds
    BY <1>1 DEF Owed
  <2>3. QED
    BY <1>2, <2>1, <2>2
<1>6. Lines'
  <2>1. steps \in Nat /\ billed \in Nat /\ step \in Nat /\ file.steps \in Nat
    BY <1>1, Pieces
  <2>2. file.steps = steps /\ billed = steps + 1 /\ step = billed /\ pending.step = step
    BY <1>1 DEF Lines, InFlight
  <2>3. QED
    BY <1>2, <2>1, <2>2 DEF Lines
<1>7. QED
  BY <1>3, <1>4, <1>5, <1>6 DEF Owed

\* A rejection either moves the batch along or, at the last attempt, ends the run.
LEMMA RejectInv ==
  ASSUME IInv, Reject
  PROVE  IInv'
<1> DEFINE ans == [pending EXCEPT !.answered = @ + 1, !.rejected = @ + 1]
<1>inv. TypeOK /\ InFlight /\ Owed /\ Lines /\ Ended
  BY DEF IInv, Accounts
<1>nat. /\ pending \in PendingType /\ file \in FileType /\ verify_rounds \in Nat
        /\ tool_calls \in Nat /\ submits \in Nat /\ pending.step \in Nat
  BY <1>inv, Pieces
<1>q. pending \in PendingType
  BY <1>nat
<1>0. /\ pc = "handler" /\ verify_rounds' = verify_rounds + 1
      /\ tool_calls' = tool_calls /\ submits' = submits
      /\ step' = step /\ nudges' = nudges /\ billed' = billed
      /\ arm' = arm /\ overspent' = overspent /\ disk' = disk
      /\ accepted' = accepted /\ submitted' = submitted
  BY DEF Reject
<1>1. \/ /\ file' = WithEnd(WithStep(file, ans)) /\ steps' = pending.step
         /\ pending' = NoPending /\ stop' = "max_submits" /\ pc' = "done"
      \/ /\ pending' = ans /\ pc' = "batch"
         /\ file' = file /\ steps' = steps /\ stop' = stop
  BY DEF Reject
<1>2. /\ ans \in PendingType
      /\ ans.live <=> pending.live
      /\ ans.step = pending.step /\ ans.calls = pending.calls
      /\ ans.taken = pending.taken /\ ans.answered = pending.answered + 1
      /\ ans.submitCalls = pending.submitCalls
      /\ ans.seconds = pending.seconds /\ ans.rejected = pending.rejected + 1
  BY <1>q, AnsweredNo
<1> HIDE DEF ans
<1>3. /\ pending.live /\ pending.answered = pending.taken - 1 /\ stop = "none"
      /\ pending.taken <= Len(pending.calls)
  BY <1>inv, <1>0 DEF InFlight, Ended
<1>4. CASE /\ file' = WithEnd(WithStep(file, ans)) /\ steps' = pending.step
           /\ pending' = NoPending /\ stop' = "max_submits" /\ pc' = "done"
  <2>1. ans.answered <= ans.taken
    <3>1. pending.taken \in Nat /\ pending.answered \in Nat
      BY <1>q DEF PendingType
    <3>2. QED
      BY <1>2, <1>3, <3>1
  <2>2. file' \in FileType
    BY <1>2, <1>4, <1>nat, <2>1, LineType, EndType
  <2>3. /\ file'.steps = file.steps + 1 /\ file'.last = pending.step
        /\ file'.calls = file.calls + pending.taken
        /\ file'.submitCalls = file.submitCalls + pending.submitCalls
        /\ file'.seconds = file.seconds + pending.seconds
        /\ file'.rejections = file.rejections + (pending.rejected + 1)
        /\ file'.ends = file.ends + 1
    BY <1>2, <1>4 DEF WithStep, WithEnd
  <2>4. TypeOK'
    <3>1. pending' \in PendingType
      BY <1>4, NoPendingType
    <3>2. verify_rounds' \in Nat
      BY <1>0, <1>nat
    <3>3. steps' \in Nat
      BY <1>4, <1>nat
    <3>4. stop' \in StopConditions \cup {"none"} /\ pc' \in PcStates
      BY <1>4 DEF StopConditions, PcStates
    <3>5. QED
      BY <1>inv, <1>0, <2>2, <3>1, <3>2, <3>3, <3>4 DEF TypeOK
  <2>5. InFlight'
    <3>1. pending' = NoPending /\ ~pending'.live /\ pc' = "done"
      BY <1>4 DEF NoPending
    <3>2. QED
      BY <3>1 DEF InFlight
  <2>6. Owed' /\ Lines'
    BY <1>0, <1>3, <1>4, <2>3, LineCloses
  <2>7. Ended'
    BY <1>inv, <1>3, <1>4, <2>3 DEF Ended
  <2>8. QED
    BY <2>4, <2>5, <2>6, <2>7 DEF IInv, Accounts
<1>5. CASE /\ pending' = ans /\ pc' = "batch"
           /\ file' = file /\ steps' = steps /\ stop' = stop
  <2>1. TypeOK'
    <3>1. pending' \in PendingType
      BY <1>2, <1>5
    <3>2. verify_rounds' \in Nat
      BY <1>0, <1>nat
    <3>3. QED
      BY <1>inv, <1>0, <1>5, <3>1, <3>2 DEF TypeOK, PcStates
  <2>2. InFlight'
    <3>1. /\ pending'.taken = pending.taken + 0 /\ pending'.answered = pending.answered + 1
          /\ pending.taken + 0 <= Len(pending.calls)
      <4>1. pending.taken \in Nat
        BY <1>q DEF PendingType
      <4>2. QED
        BY <1>2, <1>3, <1>5, <4>1
    <3>2. (IF pc = "handler" THEN 1 ELSE 0) + 0 = (IF pc' = "handler" THEN 1 ELSE 0) + 1
      BY <1>0, <1>5
    <3>3. /\ pc \in {"batch", "handler"} /\ pc' \in {"batch", "handler"} /\ step' = step
          /\ pending'.live <=> pending.live
          /\ pending'.step = pending.step /\ pending'.calls = pending.calls
      BY <1>0, <1>2, <1>5
    <3>4. QED
      BY <3>1, <3>2, <3>3, StaysInFlight
  <2>3. Owed'
    <3>1. pending.taken \in Nat /\ pending.submitCalls \in Nat /\ pending.seconds \in Nat
          /\ pending.rejected \in Nat
      BY <1>q DEF PendingType
    <3>2. tool_calls' = tool_calls + 0 /\ submits' = submits + 0
          /\ verify_rounds' = verify_rounds + 1
      BY <1>0, <1>nat
    <3>3. /\ pending'.taken = pending.taken + 0
          /\ pending'.submitCalls = pending.submitCalls + 0 + 0
          /\ pending'.seconds = pending.seconds + 0
          /\ pending'.rejected = pending.rejected + 1 + 0
      BY <1>2, <1>5, <3>1
    <3>4. file' = file
      BY <1>5
    <3>5. QED
      BY <3>2, <3>3, <3>4, BooksBalance
  <2>4. Lines' /\ Ended'
    BY <1>inv, <1>0, <1>2, <1>5 DEF Lines, Ended
  <2>5. QED
    BY <2>1, <2>2, <2>3, <2>4 DEF IInv, Accounts
<1>6. QED
  BY <1>1, <1>4, <1>5

\* A verdict the view raises over ends the run with its line written.
LEMMA VerdictRaisesInv ==
  ASSUME IInv, VerdictRaises
  PROVE  IInv'
<1>inv. TypeOK /\ InFlight /\ Owed /\ Lines /\ Ended
  BY DEF IInv, Accounts
<1>nat. /\ pending \in PendingType /\ file \in FileType /\ verify_rounds \in Nat
        /\ tool_calls \in Nat /\ submits \in Nat /\ pending.step \in Nat
  BY <1>inv, Pieces
<1>q. pending \in PendingType
  BY <1>nat
<1>1. PICK r \in {0, 1} :
        /\ verify_rounds' = verify_rounds + r
        /\ file' = WithEnd(WithStep(file, [pending EXCEPT !.answered = @ + 1, !.rejected = @ + r]))
  BY DEF VerdictRaises
<1>r. r \in Nat
  OBVIOUS
<1>0. /\ pc = "handler"
      /\ tool_calls' = tool_calls /\ submits' = submits
      /\ step' = step /\ nudges' = nudges /\ billed' = billed
      /\ arm' = arm /\ overspent' = overspent /\ disk' = disk
      /\ accepted' = accepted /\ submitted' = submitted
      /\ steps' = pending.step /\ pending' = NoPending
      /\ stop' = "api_error" /\ pc' = "done"
  BY DEF VerdictRaises
<1> DEFINE ans == [pending EXCEPT !.answered = @ + 1, !.rejected = @ + r]
<1>2. /\ ans \in PendingType
      /\ ans.live <=> pending.live
      /\ ans.step = pending.step /\ ans.calls = pending.calls
      /\ ans.taken = pending.taken /\ ans.answered = pending.answered + 1
      /\ ans.submitCalls = pending.submitCalls
      /\ ans.seconds = pending.seconds /\ ans.rejected = pending.rejected + r
  <2>1. /\ pending.answered + 1 \in Nat /\ pending.rejected + r \in Nat
        /\ DOMAIN pending = {"live", "step", "calls", "taken", "answered", "submitCalls",
                             "seconds", "rejected"}
    BY <1>q, <1>r DEF PendingType
  <2>2. /\ ans.step = pending.step /\ ans.calls = pending.calls
        /\ ans.taken = pending.taken /\ ans.answered = pending.answered + 1
        /\ ans.submitCalls = pending.submitCalls
        /\ ans.seconds = pending.seconds /\ ans.rejected = pending.rejected + r
    BY <2>1
  <2>3. ans.live <=> pending.live
    BY <2>1, Zenon
  <2>4. ans \in PendingType
    BY <1>q, <2>1 DEF PendingType
  <2>5. QED
    BY <2>2, <2>3, <2>4
<1>w. file' = WithEnd(WithStep(file, ans))
  BY <1>1
<1> HIDE DEF ans
<1>3. /\ pending.live /\ pending.answered = pending.taken - 1 /\ stop = "none"
      /\ pending.taken <= Len(pending.calls)
  BY <1>inv, <1>0 DEF InFlight, Ended
<1>4. ans.answered <= ans.taken
  <2>1. pending.taken \in Nat /\ pending.answered \in Nat
    BY <1>q DEF PendingType
  <2>2. QED
    BY <1>2, <1>3, <2>1
<1>5. file' \in FileType
  BY <1>2, <1>w, <1>nat, <1>4, LineType, EndType
<1>6. /\ file'.steps = file.steps + 1 /\ file'.last = pending.step
      /\ file'.calls = file.calls + pending.taken
      /\ file'.submitCalls = file.submitCalls + pending.submitCalls
      /\ file'.seconds = file.seconds + pending.seconds
      /\ file'.rejections = file.rejections + (pending.rejected + r)
      /\ file'.ends = file.ends + 1
  BY <1>2, <1>w DEF WithStep, WithEnd
<1>7. TypeOK'
  <2>1. pending' \in PendingType
    BY <1>0, NoPendingType
  <2>2. verify_rounds' \in Nat
    BY <1>1, <1>r, <1>nat
  <2>3. steps' \in Nat
    BY <1>0, <1>nat
  <2>4. stop' \in StopConditions \cup {"none"} /\ pc' \in PcStates
    BY <1>0 DEF StopConditions, PcStates
  <2>5. QED
    BY <1>inv, <1>0, <1>5, <2>1, <2>2, <2>3, <2>4 DEF TypeOK
<1>8. InFlight'
  <2>1. pending' = NoPending /\ ~pending'.live /\ pc' = "done"
    BY <1>0 DEF NoPending
  <2>2. QED
    BY <2>1 DEF InFlight
<1>9. Owed' /\ Lines'
  BY <1>r, <1>0, <1>1, <1>3, <1>6, LineCloses
<1>10. Ended'
  BY <1>inv, <1>3, <1>0, <1>6 DEF Ended
<1>11. QED
  BY <1>7, <1>8, <1>9, <1>10 DEF IInv, Accounts

\* The end of a batch is the flush of a batch that is in flight.
LEMMA EndBatchInv ==
  ASSUME IInv, EndBatch
  PROVE  IInv'
<1>inv. TypeOK /\ InFlight /\ Owed /\ Lines /\ Ended
  BY DEF IInv, Accounts
<1>0. /\ pc = "batch" /\ pc' \in {"gate", "turn"}
      /\ file' = FlushedFile /\ steps' = FlushedSteps /\ pending' = NoPending
      /\ tool_calls' = tool_calls /\ submits' = submits /\ verify_rounds' = verify_rounds
      /\ step' = step /\ nudges' = nudges /\ billed' = billed
      /\ arm' = arm /\ overspent' = overspent /\ disk' = disk /\ stop' = stop
      /\ accepted' = accepted /\ submitted' = submitted
  BY DEF EndBatch, counters
<1>1. pending.live /\ stop = "none"
  BY <1>inv, <1>0 DEF InFlight, Ended
<1>2. /\ file'.steps = file.steps + 1 /\ file'.last = pending.step
      /\ file'.calls = file.calls + pending.taken
      /\ file'.submitCalls = file.submitCalls + pending.submitCalls
      /\ file'.seconds = file.seconds + pending.seconds
      /\ file'.rejections = file.rejections + pending.rejected
      /\ file'.ends = file.ends /\ steps' = pending.step
  BY <1>0, <1>1 DEF FlushedFile, FlushedSteps, WithStep
<1>3. TypeOK'
  <2>1. file' \in FileType /\ steps' \in Nat
    BY <1>inv, <1>0, FlushType
  <2>2. pending' \in PendingType
    BY <1>0, NoPendingType
  <2>3. pc' \in PcStates
    BY <1>0 DEF PcStates
  <2>4. QED
    BY <1>inv, <1>0, <2>1, <2>2, <2>3 DEF TypeOK
<1>4. InFlight'
  <2>1. pending' = NoPending /\ ~pending'.live /\ pc' \in {"gate", "turn"}
    BY <1>0 DEF NoPending
  <2>2. QED
    BY <2>1 DEF InFlight
<1>5. Owed' /\ Lines'
  <2>1. file.rejections + (pending.rejected + 0) = file.rejections + pending.rejected
        /\ verify_rounds + 0 = verify_rounds
    <3>1. file.rejections \in Nat /\ pending.rejected \in Nat /\ verify_rounds \in Nat
      BY <1>inv, Pieces
    <3>2. QED
      BY <3>1
  <2>2. QED
    BY <1>0, <1>1, <1>2, <2>1, LineCloses
<1>6. Ended'
  BY <1>inv, <1>0, <1>2 DEF Ended
<1>7. QED
  BY <1>3, <1>4, <1>5, <1>6 DEF IInv, Accounts

\* After the batch the file only gains a checkpoint and run_end: no account moves.
LEMMA FinishInv ==
  ASSUME IInv, NoGate \/ GateApproves \/ GateRejects \/ Draft \/ Render
  PROVE  IInv'
<1>inv. TypeOK /\ InFlight /\ Owed /\ Lines /\ Ended
  BY DEF IInv, Accounts
<1>0. /\ pc \in {"gate", "draft", "render"} /\ pc' \in {"render", "draft", "done"}
      /\ pending' = pending /\ steps' = steps
      /\ tool_calls' = tool_calls /\ submits' = submits /\ verify_rounds' = verify_rounds
      /\ step' = step /\ nudges' = nudges /\ billed' = billed
      /\ arm' = arm /\ overspent' = overspent /\ accepted' = accepted
      /\ submitted' = submitted
  BY DEF NoGate, GateApproves, GateRejects, Draft, Render, finishVars, counters
<1>1. \/ /\ pc' # "done" /\ stop' = stop /\ disk' = disk
         /\ \/ file' = file
            \/ file' = [file EXCEPT !.approvals = @ + 1]
            \/ file' = [file EXCEPT !.refusals = @ + 1]
      \/ /\ pc' = "done" /\ stop' \in StopConditions /\ file' = WithEnd(file)
         /\ disk' \in {disk, "draft", "json", "documents"}
  BY <1>inv DEF NoGate, GateApproves, GateRejects, Draft, Render, StopConditions, TypeOK
<1>2. file \in FileType /\ stop = "none" /\ file.ends = 0
  BY <1>inv, <1>0 DEF TypeOK, Ended
<1>3. /\ file' \in FileType
      /\ file'.steps = file.steps /\ file'.last = file.last /\ file'.calls = file.calls
      /\ file'.submitCalls = file.submitCalls /\ file'.seconds = file.seconds
      /\ file'.rejections = file.rejections
  BY <1>1, <1>2 DEF WithEnd, FileType
<1>4. file'.ends = IF pc' = "done" THEN 1 ELSE 0
  BY <1>1, <1>2 DEF WithEnd, FileType
<1>5. TypeOK'
  <2>1. pc' \in PcStates
    BY <1>0 DEF PcStates
  <2>2. stop' \in StopConditions \cup {"none"} /\ disk' \in {"nothing", "draft", "json", "documents"}
    BY <1>inv, <1>1 DEF TypeOK
  <2>3. QED
    BY <1>inv, <1>0, <1>3, <2>1, <2>2 DEF TypeOK
<1>6. InFlight'
  BY <1>inv, <1>0 DEF InFlight
<1>7. Owed'
  BY <1>inv, <1>0, <1>3 DEF Owed
<1>8. Lines'
  BY <1>inv, <1>0, <1>2, <1>3 DEF Lines
<1>9. Ended'
  BY <1>1, <1>2, <1>4 DEF Ended, StopConditions
<1>10. QED
  BY <1>5, <1>6, <1>7, <1>8, <1>9 DEF IInv, Accounts

\* Every step of a run, or a stutter, keeps the inductive invariant: one lemma per action above.
LEMMA StepInv == IInv /\ [Next]_vars => IInv'
<1> SUFFICES ASSUME IInv, [Next]_vars PROVE IInv'
  OBVIOUS
<1>inv. TypeOK /\ InFlight /\ Owed /\ Lines /\ Ended
  BY DEF IInv, Accounts
<1>typed. /\ pending.taken \in Nat /\ pending.submitCalls \in Nat /\ pending.seconds \in Nat
          /\ pending.rejected \in Nat /\ pending.answered \in Nat /\ pending.step \in Nat
          /\ file.steps \in Nat /\ file.calls \in Nat /\ file.last \in Nat /\ file.ends \in Nat
          /\ file.submitCalls \in Nat /\ file.seconds \in Nat /\ file.rejections \in Nat
          /\ submits \in Nat /\ verify_rounds \in Nat /\ tool_calls \in Nat
          /\ steps \in Nat /\ billed \in Nat /\ step \in Nat
          /\ file \in FileType /\ pending \in PendingType
  BY <1>inv, Pieces
<1>1. ASSUME NEW why \in {"api_error", "replay_miss"}, CallFails(why) PROVE IInv'
  <2>1. stop = "none"
    BY <1>1, <1>inv DEF CallFails, Ended, MoreCalls
  <2>2. UNCHANGED counters /\ UNCHANGED billed
    BY <1>1 DEF CallFails
  <2>3. /\ Accounts' /\ file' \in FileType /\ pending' \in PendingType
        /\ steps' \in Nat /\ pc' \in PcStates /\ stop' \in StopConditions \cup {"none"}
    BY <1>1, <2>1, <2>2, FlushStops DEF CallFails, StopConditions, IInv
  <2>4. TypeOK'
    BY <1>1, <1>inv, <1>typed, <2>2, <2>3 DEF CallFails, TypeOK, counters
  <2>5. QED
    BY <2>3, <2>4 DEF IInv
<1>2. ASSUME BudgetExhausted PROVE IInv'
  <2>1. stop = "none"
    BY <1>2, <1>inv DEF BudgetExhausted, Ended, MoreCalls
  <2>2. UNCHANGED counters /\ UNCHANGED billed
    BY <1>2 DEF BudgetExhausted
  <2>3. /\ Accounts' /\ file' \in FileType /\ pending' \in PendingType
        /\ steps' \in Nat /\ pc' \in PcStates /\ stop' \in StopConditions \cup {"none"}
    BY <1>2, <2>1, <2>2, FlushStops DEF BudgetExhausted, StopConditions, IInv
  <2>4. TypeOK'
    BY <1>2, <1>inv, <1>typed, <2>2, <2>3 DEF BudgetExhausted, TypeOK, counters
  <2>5. QED
    BY <2>3, <2>4 DEF IInv
<1>3. ASSUME BatchRaises PROVE IInv'
  <2>1. stop = "none"
    BY <1>3, <1>inv DEF BatchRaises, Ended, MoreCalls
  <2>2. UNCHANGED counters /\ UNCHANGED billed
    BY <1>3 DEF BatchRaises
  <2>3. /\ Accounts' /\ file' \in FileType /\ pending' \in PendingType
        /\ steps' \in Nat /\ pc' \in PcStates /\ stop' \in StopConditions \cup {"none"}
    BY <1>3, <2>1, <2>2, FlushStops DEF BatchRaises, StopConditions, IInv
  <2>4. TypeOK'
    BY <1>3, <1>inv, <1>typed, <2>2, <2>3 DEF BatchRaises, TypeOK, counters
  <2>5. QED
    BY <2>3, <2>4 DEF IInv
<1>4. ASSUME GateRaises PROVE IInv'
  <2>1. stop = "none"
    BY <1>4, <1>inv DEF GateRaises, Ended, MoreCalls
  <2>2. UNCHANGED counters /\ UNCHANGED billed
    BY <1>4 DEF GateRaises, finishVars
  <2>3. /\ Accounts' /\ file' \in FileType /\ pending' \in PendingType
        /\ steps' \in Nat /\ pc' \in PcStates /\ stop' \in StopConditions \cup {"none"}
    BY <1>4, <2>1, <2>2, FlushStops DEF GateRaises, StopConditions, IInv
  <2>4. TypeOK'
    BY <1>4, <1>inv, <1>typed, <2>2, <2>3 DEF GateRaises, TypeOK, counters, finishVars
  <2>5. QED
    BY <2>3, <2>4 DEF IInv
<1>5. ASSUME NEW why \in {"refusal", "max_tokens", "api_error"}, EarlyStop(why) PROVE IInv'
  <2>0. pc = "turn" /\ pc' = "done" /\ stop' = why /\ steps' = step + 1 /\ billed' = billed + 1
    BY <1>5 DEF EarlyStop, Bill
  <2>1. stop = "none" /\ pending = NoPending /\ ~pending.live /\ step = steps
    BY <2>0, <1>inv, <1>typed DEF InFlight, Ended, Lines
  <2>q. /\ QuietLine(step + 1) \in PendingType
        /\ QuietLine(step + 1).answered <= QuietLine(step + 1).taken
    BY <1>typed, QuietLineType
  <2>2. WithStep(file, QuietLine(step + 1)) \in FileType
    BY <1>typed, <2>q, LineType
  <2>3. file' \in FileType /\ file' = WithEnd(WithStep(file, QuietLine(step + 1)))
    BY <1>5, <2>2, EndType DEF EarlyStop, Bill
  <2>4. /\ file'.steps = file.steps + 1 /\ file'.last = step + 1 /\ file'.calls = file.calls
        /\ file'.submitCalls = file.submitCalls /\ file'.seconds = file.seconds
        /\ file'.rejections = file.rejections /\ file'.ends = file.ends + 1
    BY <1>typed, <2>3, QuietLineType DEF WithEnd, WithStep
  <2>5. TypeOK'
    BY <1>5, <1>inv, <1>typed, <2>0, <2>3, LoopAssumption
       DEF EarlyStop, Bill, TypeOK, PcStates, StopConditions, counters
  <2>6. InFlight'
    BY <1>5, <2>0, <2>1, <1>inv DEF EarlyStop, InFlight
  <2>7. Owed'
    BY <1>5, <1>inv, <2>4 DEF EarlyStop, Owed, counters
  <2>8. Lines' /\ Ended'
    BY <1>5, <1>inv, <1>typed, <2>0, <2>1, <2>4 DEF EarlyStop, Lines, Ended
  <2>9. QED
    BY <2>5, <2>6, <2>7, <2>8 DEF IInv, Accounts
<1>6. ASSUME QuietTurn PROVE IInv'
  <2>0. pc = "turn" /\ steps' = step + 1 /\ step' = step + 1 /\ billed' = billed + 1
    BY <1>6 DEF QuietTurn, Bill
  <2>1. stop = "none" /\ pending = NoPending /\ ~pending.live /\ step = steps /\ file.ends = 0
    BY <2>0, <1>inv, <1>typed DEF InFlight, Ended, Lines
  <2>q. /\ QuietLine(step + 1) \in PendingType
        /\ QuietLine(step + 1).answered <= QuietLine(step + 1).taken
    BY <1>typed, QuietLineType
  <2>2. WithStep(file, QuietLine(step + 1)) \in FileType
    BY <1>typed, <2>q, LineType
  <2>3. \/ /\ file' = WithEnd(WithStep(file, QuietLine(step + 1)))
           /\ stop' = "no_submission" /\ pc' = "done"
        \/ /\ file' = WithStep(file, QuietLine(step + 1))
           /\ stop' = stop /\ pc' = pc
    BY <1>6, <2>0 DEF QuietTurn
  <2>4. file' \in FileType
    BY <2>2, <2>3, EndType
  <2>5. /\ file'.steps = file.steps + 1 /\ file'.last = step + 1 /\ file'.calls = file.calls
        /\ file'.submitCalls = file.submitCalls /\ file'.seconds = file.seconds
        /\ file'.rejections = file.rejections
        /\ file'.ends = IF stop' = "none" THEN 0 ELSE 1
    BY <1>typed, <2>1, <2>3, QuietLineType DEF WithEnd, WithStep
  <2>6. TypeOK'
    BY <1>6, <1>inv, <1>typed, <2>0, <2>3, <2>4, LoopAssumption
       DEF QuietTurn, Bill, TypeOK, PcStates, StopConditions, counters
  <2>7. InFlight'
    BY <1>6, <2>0, <2>1, <2>3, <1>inv DEF QuietTurn, InFlight
  <2>8. Owed'
    BY <1>6, <1>inv, <2>5 DEF QuietTurn, Owed, counters
  <2>9. Lines' /\ Ended'
    BY <1>6, <1>inv, <1>typed, <2>0, <2>1, <2>3, <2>5 DEF QuietTurn, Lines, Ended
  <2>10. QED
    BY <2>6, <2>7, <2>8, <2>9 DEF IInv, Accounts
<1>7. ASSUME NEW calls \in Batches, ToolTurn(calls) PROVE IInv'
  <2>0. /\ pc = "turn" /\ pc' = "batch" /\ step' = step + 1 /\ billed' = billed + 1
        /\ file' = file /\ steps' = steps /\ stop' = stop
        /\ tool_calls' = tool_calls /\ submits' = submits /\ verify_rounds' = verify_rounds
    BY <1>7 DEF ToolTurn, Bill, counters
  <2>1. stop = "none" /\ pending = NoPending /\ ~pending.live /\ step = steps
    BY <2>0, <1>inv, <1>typed DEF InFlight, Ended, Lines
  <2>2. /\ pending' \in PendingType
        /\ pending'.live /\ pending'.step = step + 1 /\ pending'.calls = calls
        /\ pending'.taken = 0 /\ pending'.answered = 0 /\ pending'.submitCalls = 0
        /\ pending'.seconds = 0 /\ pending'.rejected = 0
    <3>1. pending' = [live |-> TRUE, step |-> step + 1, calls |-> calls, taken |-> 0,
                      answered |-> 0, submitCalls |-> 0, seconds |-> 0, rejected |-> 0]
      BY <1>7, <2>0 DEF ToolTurn, NoPending
    <3>2. QED
      BY <1>typed, <3>1 DEF PendingType
  <2>3. 0 <= Len(calls)
    BY BatchIsSequence
  <2>4. TypeOK'
    <3>1. /\ arm' = arm /\ nudges' = 0 /\ overspent' \in {overspent, UsdCeiling}
          /\ accepted' = accepted /\ submitted' = FALSE /\ disk' = disk
      BY <1>7 DEF ToolTurn, Bill
    <3>2. pending' \in PendingType
      BY <2>2
    <3>3. overspent' \in BOOLEAN /\ accepted' \in BOOLEAN /\ submitted' \in BOOLEAN
      BY <1>inv, <3>1, LoopAssumption DEF TypeOK
    <3>4. step' \in Nat /\ nudges' \in Nat /\ billed' \in Nat
      BY <1>typed, <2>0, <3>1
    <3>5. QED
      BY <1>inv, <2>0, <3>1, <3>2, <3>3, <3>4 DEF TypeOK, PcStates
  <2>5. InFlight'
    BY <2>0, <2>2, <2>3 DEF InFlight
  <2>6. Owed'
    BY <1>inv, <2>0, <2>1, <2>2 DEF Owed, NoPending
  <2>7. Lines' /\ Ended'
    BY <1>inv, <1>typed, <2>0, <2>1, <2>2 DEF Lines, Ended
  <2>8. QED
    BY <2>4, <2>5, <2>6, <2>7 DEF IInv, Accounts
<1>8. CASE UNCHANGED vars
  BY <1>inv, <1>8 DEF IInv, TypeOK, Accounts, InFlight, Owed, Lines, Ended, vars
<1>9. QED
  BY <1>1, <1>2, <1>3, <1>4, <1>5, <1>6, <1>7, <1>8, DispatchInv, SecondSubmitInv, SubmitInv,
     AcceptInv, RejectInv, VerdictRaisesInv, EndBatchInv, FinishInv DEF Next
-----------------------------------------------------------------------------

\* The type invariant of the loop, for every budget and batch length.
THEOREM TypeCorrect == Spec => []TypeOK
<1>1. IInv => TypeOK
  BY DEF IInv
<1>2. QED
  BY InitInv, StepInv, <1>1, PTL DEF Spec

\* Trace checks 6, 7, 8 and 9 for every budget, every batch and every arm:
\* whichever exit writes run_end, its totals are what the step lines add up to.
THEOREM Reconciles == Spec => [](CountersReconcile /\ SubmitsReconcile)
<1>1. IInv => CountersReconcile /\ SubmitsReconcile
  <2> SUFFICES ASSUME IInv, stop # "none"
               PROVE  /\ file.ends = 1 /\ file.steps = steps /\ file.last = steps
                      /\ file.steps = billed /\ file.calls = tool_calls
                      /\ file.submitCalls = submits + file.seconds
                      /\ file.rejections = verify_rounds + file.seconds
    BY DEF CountersReconcile, SubmitsReconcile
  <2>1. TypeOK /\ InFlight /\ Owed /\ Lines /\ Ended
    BY DEF IInv, Accounts
  <2>2. ~pending.live /\ pending = NoPending
    BY <2>1 DEF InFlight, Ended
  <2>3. file.ends = 1 /\ file.steps = steps /\ file.last = steps /\ file.steps = billed
    <3>1. steps \in Nat
      BY <2>1, Pieces
    <3>2. QED
      BY <2>1, <2>2, <3>1 DEF Lines, Ended
  <2>4. /\ pending.taken = 0 /\ pending.submitCalls = 0 /\ pending.seconds = 0
        /\ pending.rejected = 0
    BY <2>2 DEF NoPending
  <2>5. file.calls = tool_calls
    <3>1. file.calls \in Nat
      BY <2>1, Pieces
    <3>2. QED
      BY <2>1, <2>4, <3>1 DEF Owed
  <2>6. file.submitCalls = submits + file.seconds
    <3>1. file.submitCalls \in Nat /\ submits \in Nat /\ file.seconds \in Nat
      BY <2>1, Pieces
    <3>2. file.submitCalls + pending.submitCalls = submits + file.seconds + pending.seconds
      BY <2>1 DEF Owed
    <3>3. QED
      BY <2>4, <3>1, <3>2
  <2>7. file.rejections = verify_rounds + file.seconds
    <3>1. file.rejections \in Nat /\ verify_rounds \in Nat /\ file.seconds \in Nat
      BY <2>1, Pieces
    <3>2. file.rejections + pending.rejected = verify_rounds + file.seconds + pending.seconds
      BY <2>1 DEF Owed
    <3>3. QED
      BY <2>4, <3>1, <3>2
  <2>8. QED
    BY <2>3, <2>5, <2>6, <2>7
<1>2. QED
  BY InitInv, StepInv, <1>1, PTL DEF Spec

-----------------------------------------------------------------------------
(* On top of it: the two budgets, the answered calls, the signed record, and the *)
(* contract of a run that the loop implements.                                    *)

\* What the budgets have bought, place by place.  An attempt is rejected, accepted
\* or in the handler; a run that goes on to another turn was never accepted and has
\* an attempt left.
Spent ==
  /\ tool_calls <= ToolBudget
  /\ submits <= MaxSubmits
  /\ pc = "turn" => ~accepted /\ submits = verify_rounds /\ verify_rounds < MaxSubmits
  /\ pc = "batch" => /\ submits = verify_rounds + (IF accepted THEN 1 ELSE 0)
                     /\ verify_rounds < MaxSubmits
                     /\ accepted => submitted
  /\ pc = "handler" => ~accepted /\ submitted /\ submits = verify_rounds + 1
  /\ pc \in {"gate", "draft", "render"} => accepted
  /\ verify_rounds <= submits
  /\ verify_rounds = MaxSubmits => stop \in {"max_submits", "api_error"}
  /\ stop = "max_submits" => verify_rounds = MaxSubmits /\ ~accepted

\* The budgets hold before the first turn.
LEMMA SpentInit == Init => Spent
BY LoopAssumption DEF Init, Spent

\* Every step keeps them: the guards of a call are read before it is counted.
LEMMA SpentStep ==
  ASSUME IInv, Spent, [Next]_vars
  PROVE  Spent'
<1>typed. /\ submits \in Nat /\ verify_rounds \in Nat /\ tool_calls \in Nat
          /\ ToolBudget \in Nat /\ MaxSubmits \in Nat
          /\ accepted \in BOOLEAN /\ submitted \in BOOLEAN
          /\ stop = "none" <=> pc # "done"
  BY LoopAssumption DEF IInv, Accounts, TypeOK, Ended
<1>1. ASSUME NEW why \in {"api_error", "replay_miss"}, CallFails(why) PROVE Spent'
  BY <1>1, <1>typed DEF CallFails, FlushAndStop, Spent, counters
<1>2. ASSUME NEW why \in {"refusal", "max_tokens", "api_error"}, EarlyStop(why) PROVE Spent'
  BY <1>2, <1>typed DEF EarlyStop, Bill, Spent, counters
<1>3. ASSUME QuietTurn PROVE Spent'
  BY <1>3, <1>typed DEF QuietTurn, Bill, Spent, counters
<1>4. ASSUME NEW calls \in Batches, ToolTurn(calls) PROVE Spent'
  BY <1>4, <1>typed DEF ToolTurn, Bill, Spent, counters
<1>5. ASSUME BudgetExhausted PROVE Spent'
  BY <1>5, <1>typed DEF BudgetExhausted, MoreCalls, FlushAndStop, Spent, counters
<1>6. ASSUME Dispatch PROVE Spent'
  BY <1>6, <1>typed DEF Dispatch, MoreCalls, Unaffordable, Spent
<1>7. ASSUME SecondSubmit PROVE Spent'
  BY <1>7, <1>typed DEF SecondSubmit, MoreCalls, Unaffordable, Spent
<1>8. ASSUME Submit PROVE Spent'
  BY <1>8, <1>typed DEF Submit, MoreCalls, Unaffordable, Spent
<1>9. ASSUME Accept PROVE Spent'
  BY <1>9, <1>typed DEF Accept, Spent, counters
<1>10. ASSUME Reject PROVE Spent'
  BY <1>10, <1>typed DEF Reject, Spent
<1>v. ASSUME VerdictRaises PROVE Spent'
  BY <1>v, <1>typed DEF VerdictRaises, Spent
<1>11. ASSUME BatchRaises PROVE Spent'
  BY <1>11, <1>typed DEF BatchRaises, FlushAndStop, Spent, counters
<1>12. ASSUME EndBatch PROVE Spent'
  BY <1>12, <1>typed DEF EndBatch, Spent, counters
<1>13. ASSUME NoGate \/ GateApproves \/ GateRejects \/ Draft \/ GateRaises \/ Render
       PROVE  Spent'
  BY <1>13, <1>typed
     DEF NoGate, GateApproves, GateRejects, Draft, GateRaises, Render, FlushAndStop,
         Spent, finishVars, counters
<1>14. CASE UNCHANGED vars
  BY <1>14 DEF vars, Spent
<1>15. QED
  BY <1>1, <1>2, <1>3, <1>4, <1>5, <1>6, <1>7, <1>8, <1>9, <1>10, <1>11, <1>12, <1>13, <1>14, <1>v
     DEF Next
-----------------------------------------------------------------------------

\* How the file moves when a batch, or nothing, is flushed on the way out: its
\* checkpoints stay, the batch's open calls are the last line's.
LEMMA FlushMoves ==
  ASSUME IInv, NEW f, f = FlushedFile \/ f = WithEnd(FlushedFile)
  PROVE  /\ f.approvals = file.approvals /\ f.refusals = file.refusals
         /\ pending.live => /\ f.steps = file.steps + 1
                            /\ f.owedBefore = file.owedBefore + file.owedLast
                            /\ f.owedLast = pending.taken - pending.answered
         /\ ~pending.live => /\ f.steps = file.steps
                             /\ f.owedBefore = file.owedBefore
                             /\ f.owedLast = file.owedLast
<1>1. file \in FileType
  BY Pieces DEF IInv
<1>2. CASE pending.live
  BY <1>2 DEF FlushedFile, WithStep, WithEnd
<1>3. CASE ~pending.live
  BY <1>1, <1>3 DEF FlushedFile, WithEnd, FileType
<1>4. QED
  BY <1>2, <1>3

\* A turn without calls adds a line that owes nothing.
LEMMA QuietMoves ==
  ASSUME IInv, NEW n \in Nat, NEW f,
         f = WithStep(file, QuietLine(n)) \/ f = WithEnd(WithStep(file, QuietLine(n)))
  PROVE  /\ f.approvals = file.approvals /\ f.refusals = file.refusals
         /\ f.steps = file.steps + 1
         /\ f.owedBefore = file.owedBefore + file.owedLast /\ f.owedLast = 0
BY QuietLineType DEF WithStep, WithEnd

\* The end phase writes a checkpoint, or run_end, and leaves the lines alone.
LEMMA CheckpointMoves ==
  ASSUME IInv
  PROVE  /\ LET f == WithEnd(file)
            IN /\ f.approvals = file.approvals /\ f.refusals = file.refusals
               /\ f.steps = file.steps
               /\ f.owedBefore = file.owedBefore /\ f.owedLast = file.owedLast
         /\ LET f == [file EXCEPT !.approvals = @ + 1]
            IN /\ f.approvals = file.approvals + 1 /\ f.refusals = file.refusals
               /\ f.steps = file.steps
               /\ f.owedBefore = file.owedBefore /\ f.owedLast = file.owedLast
         /\ LET f == [file EXCEPT !.refusals = @ + 1]
            IN /\ f.approvals = file.approvals /\ f.refusals = file.refusals + 1
               /\ f.steps = file.steps
               /\ f.owedBefore = file.owedBefore /\ f.owedLast = file.owedLast
<1>1. file \in FileType
  BY Pieces DEF IInv
<1>2. QED
  BY <1>1 DEF WithEnd, FileType

\* A verdict, r a rejection, answers the attempt in the handler, so its line owes nothing.
LEMMA RejectMoves ==
  ASSUME IInv, pc = "handler", NEW r \in Nat,
         NEW f, f = WithEnd(WithStep(file, [pending EXCEPT !.answered = @ + 1, !.rejected = @ + r]))
  PROVE  /\ f.approvals = file.approvals /\ f.refusals = file.refusals
         /\ f.steps = file.steps + 1
         /\ f.owedBefore = file.owedBefore + file.owedLast /\ f.owedLast = 0
<1>1. /\ pending \in PendingType
      /\ pending.taken \in Nat /\ pending.answered \in Nat
      /\ pending.answered = pending.taken - 1
  BY Pieces DEF IInv, Accounts, InFlight
<1>2. LET p == [pending EXCEPT !.answered = @ + 1, !.rejected = @ + r]
      IN p.taken = pending.taken /\ p.answered = pending.answered + 1
  BY <1>1 DEF PendingType
<1>3. QED
  BY <1>1, <1>2 DEF WithStep, WithEnd
-----------------------------------------------------------------------------

\* A call without a result is the one in the handler when the run is stopped there.
Answered ==
  /\ file.owedBefore = 0 /\ file.owedLast <= 1
  /\ stop \in {"none", "accepted"} => file.owedLast = 0

\* No line is owed anything before the first turn.
LEMMA AnsweredInit == Init => Answered
BY DEF Init, EmptyFile, Answered

\* Every step keeps it.
LEMMA AnsweredStep ==
  ASSUME IInv, Answered, [Next]_vars
  PROVE  Answered'
<1>typed. /\ file.owedBefore \in Nat /\ file.owedLast \in Nat
          /\ pending.taken \in Nat /\ pending.answered \in Nat /\ step \in Nat
  BY Pieces DEF IInv
<1>flight. /\ pending.live <=> pc \in {"batch", "handler"}
           /\ pending.live => pending.answered = pending.taken - (IF pc = "handler" THEN 1 ELSE 0)
           /\ stop = "none" <=> pc # "done"
  BY DEF IInv, Accounts, InFlight, Ended
<1>1. ASSUME NEW why, why \notin {"none", "accepted"}, pc # "done",
             FlushAndStop(why)
      PROVE  Answered'
  <2>1. file' = WithEnd(FlushedFile) /\ stop' = why
    BY <1>1 DEF FlushAndStop
  <2>2. CASE pending.live
    <3>1. /\ file'.owedBefore = file.owedBefore + file.owedLast
          /\ file'.owedLast = pending.taken - pending.answered
      BY <2>1, <2>2, FlushMoves
    <3>2. file.owedBefore = 0 /\ file.owedLast = 0
      BY <1>1, <1>flight DEF Answered
    <3>3. pending.taken - pending.answered \in {0, 1}
      BY <1>typed, <1>flight, <2>2
    <3>4. file'.owedBefore = 0 /\ file'.owedLast <= 1
      BY <3>1, <3>2, <3>3
    <3>5. stop' \notin {"none", "accepted"}
      BY <1>1, <2>1
    <3>6. QED
      BY <3>4, <3>5 DEF Answered
  <2>3. CASE ~pending.live
    <3>1. file'.owedBefore = file.owedBefore /\ file'.owedLast = file.owedLast
      BY <2>1, <2>3, FlushMoves
    <3>2. QED
      BY <1>1, <1>typed, <1>flight, <2>1, <3>1 DEF Answered
  <2>4. QED
    BY <2>2, <2>3
<1>2. ASSUME Bill, NEW f, f = WithStep(file, QuietLine(step')) \/ f = WithEnd(WithStep(file, QuietLine(step'))),
             file' = f
      PROVE  Answered'
  <2>1. step' \in Nat /\ stop = "none"
    BY <1>2, <1>typed, <1>flight DEF Bill
  <2>2. /\ file'.owedBefore = file.owedBefore + file.owedLast /\ file'.owedLast = 0
    BY <1>2, <2>1, QuietMoves
  <2>3. QED
    BY <1>typed, <2>1, <2>2 DEF Answered
<1>3. ASSUME NEW why \in {"api_error", "replay_miss"}, CallFails(why) PROVE Answered'
  BY <1>1, <1>3 DEF CallFails
<1>4. ASSUME NEW why \in {"refusal", "max_tokens", "api_error"}, EarlyStop(why) PROVE Answered'
  BY <1>2, <1>4 DEF EarlyStop
<1>5. ASSUME QuietTurn PROVE Answered'
  BY <1>2, <1>5 DEF QuietTurn
<1>6. ASSUME BudgetExhausted \/ BatchRaises \/ GateRaises PROVE Answered'
  BY <1>1, <1>6 DEF BudgetExhausted, MoreCalls, BatchRaises, GateRaises
<1>7. ASSUME \/ \E calls \in Batches : ToolTurn(calls)
             \/ Dispatch \/ SecondSubmit \/ Submit \/ Accept \/ NoGate
      PROVE  Answered'
  <2>1. file' = file /\ stop' = stop
    BY <1>7 DEF ToolTurn, Dispatch, SecondSubmit, Submit, Accept, NoGate
  <2>2. QED
    BY <2>1 DEF Answered
<1>8. ASSUME Reject PROVE Answered'
  <2>1. pc = "handler" /\ stop = "none"
    BY <1>8, <1>flight DEF Reject
  <2>2. CASE file' = file /\ stop' = stop
    BY <2>2 DEF Answered
  <2>3. CASE /\ file' = WithEnd(WithStep(file, [pending EXCEPT !.answered = @ + 1,
                                                              !.rejected = @ + 1]))
             /\ stop' = "max_submits"
    <3>1. /\ file'.owedBefore = file.owedBefore + file.owedLast /\ file'.owedLast = 0
      BY <2>1, <2>3, RejectMoves
    <3>2. QED
      BY <1>typed, <2>1, <3>1 DEF Answered
  <2>4. QED
    BY <1>8, <2>2, <2>3 DEF Reject
<1>v. ASSUME VerdictRaises PROVE Answered'
  <2>1. PICK r \in {0, 1} :
          file' = WithEnd(WithStep(file, [pending EXCEPT !.answered = @ + 1, !.rejected = @ + r]))
    BY <1>v DEF VerdictRaises
  <2>2. pc = "handler" /\ stop = "none"
    BY <1>v, <1>flight DEF VerdictRaises
  <2>3. /\ file'.owedBefore = file.owedBefore + file.owedLast /\ file'.owedLast = 0
    BY <2>1, <2>2, RejectMoves
  <2>4. QED
    BY <1>typed, <2>2, <2>3 DEF Answered
<1>9. ASSUME EndBatch PROVE Answered'
  <2>1. pc = "batch" /\ stop = "none" /\ stop' = stop /\ file' = FlushedFile
    BY <1>9, <1>flight DEF EndBatch
  <2>2. /\ file'.owedBefore = file.owedBefore + file.owedLast
        /\ file'.owedLast = pending.taken - pending.answered
    BY <1>flight, <2>1, FlushMoves
  <2>3. QED
    BY <1>typed, <1>flight, <2>1, <2>2 DEF Answered
<1>10. ASSUME GateApproves \/ GateRejects \/ Draft \/ Render PROVE Answered'
  <2>1. stop = "none"
    BY <1>10, <1>flight DEF GateApproves, GateRejects, Draft, Render
  <2>2. \/ file' = WithEnd(file)
        \/ file' = [file EXCEPT !.approvals = @ + 1]
        \/ file' = [file EXCEPT !.refusals = @ + 1]
    BY <1>10 DEF GateApproves, GateRejects, Draft, Render
  <2>3. file'.owedBefore = file.owedBefore /\ file'.owedLast = file.owedLast
    BY <2>2, CheckpointMoves
  <2>4. QED
    BY <2>1, <2>3 DEF Answered
<1>11. CASE UNCHANGED vars
  BY <1>11 DEF vars, Answered
<1>12. QED
  BY <1>3, <1>4, <1>5, <1>6, <1>7, <1>8, <1>9, <1>10, <1>11, <1>v DEF Next
-----------------------------------------------------------------------------

\* What stands between a record and its publication, place by place.
Signed ==
  /\ pc \in {"turn", "batch", "handler", "gate"} =>
       disk = "nothing" /\ file.approvals = 0 /\ file.refusals = 0
  /\ pc = "draft" => /\ arm = "advanced" /\ disk = "nothing"
                     /\ file.approvals = 0 /\ file.refusals = 1
  /\ pc = "render" => /\ disk = "nothing" /\ file.refusals = 0
                      /\ file.approvals = IF arm = "advanced" THEN 1 ELSE 0
  /\ PublishedIsSigned

\* Nothing is published before the first turn.
LEMMA SignedInit == Init => Signed
BY DEF Init, EmptyFile, Signed, PublishedIsSigned

\* Every step keeps it; that the record of the end phase was accepted is Spent's.
LEMMA SignedStep ==
  ASSUME IInv, Spent, Signed, [Next]_vars
  PROVE  Signed'
<1>typed. /\ file.approvals \in Nat /\ file.refusals \in Nat /\ step \in Nat
          /\ arm \in {"baseline", "advanced"} /\ accepted \in BOOLEAN
  BY Pieces, LoopAssumption DEF IInv, TypeOK
<1>open. stop = "none" <=> pc # "done"
  BY DEF IInv, Accounts, Ended
<1>1. ASSUME pc \in {"turn", "batch", "handler", "gate"},
             NEW why, why # "accepted", stop' = why,
             pc' = "done", disk' = disk, arm' = arm,
             file'.approvals = file.approvals, file'.refusals = file.refusals
      PROVE  Signed'
  BY <1>1 DEF Signed, PublishedIsSigned
<1>2. ASSUME pc \in {"turn", "batch", "handler"}, stop' = stop,
             pc' \in {"turn", "batch", "handler", "gate"}, disk' = disk, arm' = arm,
             file'.approvals = file.approvals, file'.refusals = file.refusals
      PROVE  Signed'
  BY <1>2, <1>open DEF Signed, PublishedIsSigned
<1>3. ASSUME NEW why \in {"api_error", "replay_miss"}, CallFails(why) PROVE Signed'
  BY <1>1, <1>3, FlushMoves DEF CallFails, FlushAndStop
<1>4. ASSUME NEW why \in {"refusal", "max_tokens", "api_error"}, EarlyStop(why) PROVE Signed'
  <2>1. step' \in Nat
    BY <1>4, <1>typed DEF EarlyStop, Bill
  <2>2. QED
    BY <1>1, <1>4, <2>1, QuietMoves DEF EarlyStop, Bill
<1>5. ASSUME QuietTurn PROVE Signed'
  <2>1. step' \in Nat
    BY <1>5, <1>typed DEF QuietTurn, Bill
  <2>2. file'.approvals = file.approvals /\ file'.refusals = file.refusals
    BY <1>5, <2>1, QuietMoves DEF QuietTurn
  <2>3. pc = "turn" /\ disk' = disk /\ arm' = arm
    BY <1>5 DEF QuietTurn, Bill
  <2>4. \/ pc' = "done" /\ stop' = "no_submission"
        \/ pc' = pc /\ stop' = stop
    BY <1>5 DEF QuietTurn
  <2>5. QED
    BY <1>1, <1>2, <2>2, <2>3, <2>4
<1>6. ASSUME BudgetExhausted \/ BatchRaises \/ GateRaises PROVE Signed'
  <2>1. /\ pc \in {"batch", "handler", "gate"} /\ disk' = disk /\ arm' = arm
        /\ file' = WithEnd(FlushedFile) /\ pc' = "done"
        /\ stop' \in {"budget_exhausted", "api_error"}
    BY <1>6 DEF BudgetExhausted, MoreCalls, BatchRaises, GateRaises, FlushAndStop, finishVars
  <2>2. QED
    BY <1>1, <2>1, FlushMoves
<1>7. ASSUME \/ \E calls \in Batches : ToolTurn(calls)
             \/ Dispatch \/ SecondSubmit \/ Submit \/ Accept
      PROVE  Signed'
  <2>1. /\ pc \in {"turn", "batch", "handler"} /\ pc' \in {"batch", "handler"}
        /\ file' = file /\ stop' = stop /\ disk' = disk /\ arm' = arm
    BY <1>7 DEF ToolTurn, Bill, Dispatch, MoreCalls, SecondSubmit, Submit, Accept
  <2>2. QED
    BY <1>2, <2>1
<1>8. ASSUME Reject PROVE Signed'
  <2>1. pc = "handler" /\ disk' = disk /\ arm' = arm
    BY <1>8 DEF Reject
  <2>2. CASE file' = file /\ stop' = stop /\ pc' = "batch"
    BY <1>2, <2>1, <2>2
  <2>3. CASE /\ file' = WithEnd(WithStep(file, [pending EXCEPT !.answered = @ + 1,
                                                              !.rejected = @ + 1]))
             /\ stop' = "max_submits" /\ pc' = "done"
    <3>1. file'.approvals = file.approvals /\ file'.refusals = file.refusals
      BY <2>1, <2>3, RejectMoves
    <3>2. QED
      BY <1>1, <2>1, <2>3, <3>1
  <2>4. QED
    BY <1>8, <2>2, <2>3 DEF Reject
<1>v. ASSUME VerdictRaises PROVE Signed'
  <2>1. PICK r \in {0, 1} :
          file' = WithEnd(WithStep(file, [pending EXCEPT !.answered = @ + 1, !.rejected = @ + r]))
    BY <1>v DEF VerdictRaises
  <2>2. /\ pc = "handler" /\ disk' = disk /\ arm' = arm
        /\ stop' = "api_error" /\ pc' = "done"
    BY <1>v DEF VerdictRaises
  <2>3. file'.approvals = file.approvals /\ file'.refusals = file.refusals
    BY <2>1, <2>2, RejectMoves
  <2>4. QED
    BY <1>1, <2>2, <2>3
<1>9. ASSUME EndBatch PROVE Signed'
  <2>1. /\ pc = "batch" /\ pc' \in {"gate", "turn"} /\ file' = FlushedFile
        /\ stop' = stop /\ disk' = disk /\ arm' = arm
    BY <1>9 DEF EndBatch
  <2>2. QED
    BY <1>2, <2>1, FlushMoves
<1>10. ASSUME NoGate PROVE Signed'
  BY <1>10, <1>open DEF NoGate, finishVars, Signed, PublishedIsSigned
<1>11. ASSUME GateApproves PROVE Signed'
  <2>1. file'.approvals = file.approvals + 1 /\ file'.refusals = file.refusals
    BY <1>11, CheckpointMoves DEF GateApproves
  <2>2. /\ pc = "gate" /\ pc' = "render" /\ arm = "advanced" /\ arm' = arm
        /\ disk' = disk /\ stop' = stop
    BY <1>11 DEF GateApproves, finishVars
  <2>3. QED
    BY <1>open, <2>1, <2>2 DEF Signed, PublishedIsSigned
<1>12. ASSUME GateRejects PROVE Signed'
  <2>1. file'.approvals = file.approvals /\ file'.refusals = file.refusals + 1
    BY <1>12, CheckpointMoves DEF GateRejects
  <2>2. /\ pc = "gate" /\ pc' = "draft" /\ arm = "advanced" /\ arm' = arm
        /\ disk' = disk /\ stop' = stop
    BY <1>12 DEF GateRejects, finishVars
  <2>3. QED
    BY <1>open, <2>1, <2>2 DEF Signed, PublishedIsSigned
<1>13. ASSUME Draft \/ Render PROVE Signed'
  <2>1. file'.approvals = file.approvals /\ file'.refusals = file.refusals
    BY <1>13, CheckpointMoves DEF Draft, Render
  <2>2. accepted /\ accepted' = accepted /\ arm' = arm /\ pc' = "done"
    BY <1>13 DEF Draft, Render, finishVars, Spent
  <2>3. CASE Draft
    BY <2>1, <2>2, <2>3 DEF Draft, Signed, PublishedIsSigned
  <2>4. CASE Render
    BY <2>1, <2>2, <2>4 DEF Render, Signed, PublishedIsSigned
  <2>5. QED
    BY <1>13, <2>3, <2>4
<1>14. CASE UNCHANGED vars
  BY <1>14 DEF vars, Signed, PublishedIsSigned
<1>15. QED
  BY <1>3, <1>4, <1>5, <1>6, <1>7, <1>8, <1>9, <1>10, <1>11, <1>12, <1>13, <1>14, <1>v DEF Next
-----------------------------------------------------------------------------

\* The invariant of this module, over the one of AgentLoop_proofs.
SInv == IInv /\ Spent /\ Answered /\ Signed

\* It holds in every state of every run.
LEMMA SafetyInvariant == Spec => []SInv
<1>1. Init => SInv
  BY InitInv, SpentInit, AnsweredInit, SignedInit DEF SInv
<1>2. SInv /\ [Next]_vars => SInv'
  BY StepInv, SpentStep, AnsweredStep, SignedStep DEF SInv
<1>3. QED
  BY <1>1, <1>2, PTL DEF Spec

\* Invariants A and B of loop.py for every pair of budgets: no batch, however long,
\* buys past either, only the last attempt's rejection ends a run max_submits, and
\* that rejection is the run's end even where the view raises over it.
THEOREM BudgetsNeverOverrun == Spec => []BudgetsHeld
<1>1. SInv => BudgetsHeld
  BY DEF SInv, Spent, BudgetsHeld
<1>2. QED
  BY <1>1, SafetyInvariant, PTL

\* Trace check 4 for every run of the loop: a call has its result on its own line,
\* the last line of a run that was stopped in the handler excepted.
THEOREM CallsAnswered == Spec => []EveryCallAnswered
<1>1. SInv => EveryCallAnswered
  BY DEF SInv, Answered, EveryCallAnswered
<1>2. QED
  BY <1>1, SafetyInvariant, PTL

\* What _finish publishes was accepted and, where there is a gate, approved.
THEOREM NothingUnsigned == Spec => []PublishedIsSigned
<1>1. SInv => PublishedIsSigned
  BY DEF SInv, Signed
<1>2. QED
  BY <1>1, SafetyInvariant, PTL
-----------------------------------------------------------------------------

\* How a step of the loop looks to the contract: nothing, one more line, a verdict,
\* a checkpoint, or the ending.
Stutters == file'.steps = file.steps /\ accepted' = accepted /\ Gate' = Gate
            /\ disk' = disk /\ stop' = stop /\ arm' = arm

\* The loop's first state is the contract's.
LEMMA ContractInit == Init => Contract!Init
BY DEF Init, EmptyFile, Gate, Contract!Init

\* Every step of the loop is a step of the contract or none.
LEMMA ContractStep ==
  ASSUME SInv, [Next]_vars
  PROVE  [Contract!Next]_(Contract!vars)
<1>inv. IInv /\ Spent /\ Signed
  BY DEF SInv
<1>typed. /\ file.approvals \in Nat /\ file.refusals \in Nat /\ file.steps \in Nat
          /\ step \in Nat
  BY <1>inv, Pieces DEF IInv
<1>open. stop = "none" <=> pc # "done"
  BY <1>inv DEF IInv, Accounts, Ended
<1>early. pc \in {"turn", "batch", "handler", "gate"} => Gate = "none"
  BY <1>inv, <1>typed DEF Signed, Gate
<1>0. ASSUME Stutters PROVE [Contract!Next]_(Contract!vars)
  BY <1>0 DEF Stutters, Contract!vars
<1>1. ASSUME pc \in {"turn", "batch", "handler", "gate"},
             NEW why \in {"budget_exhausted", "max_submits", "max_tokens", "no_submission",
                          "replay_miss", "refusal", "timeout", "api_error"},
             stop' = why, disk' = disk, arm' = arm, accepted' = accepted,
             file'.steps \in {file.steps, file.steps + 1},
             file'.approvals = file.approvals, file'.refusals = file.refusals
      PROVE  [Contract!Next]_(Contract!vars)
  <2>1. Gate = "none" /\ Gate' = Gate /\ stop = "none"
    BY <1>1, <1>early, <1>open DEF Gate
  <2>2. Contract!GiveUp(why)
    BY <1>1, <2>1 DEF Contract!GiveUp
  <2>3. Contract!End(why)
    BY <1>1, <2>1, <2>2 DEF Contract!End, Contract!Open
  <2>4. QED
    BY <1>1, <2>3 DEF Contract!Next, Contract!Endings
<1>2. ASSUME pc \in {"turn", "batch"}, stop' = stop, disk' = disk, arm' = arm,
             accepted' = accepted, file'.steps = file.steps + 1,
             file'.approvals = file.approvals, file'.refusals = file.refusals
      PROVE  [Contract!Next]_(Contract!vars)
  <2>1. Gate = "none" /\ Gate' = Gate /\ stop = "none"
    BY <1>2, <1>early, <1>open DEF Gate
  <2>2. Contract!StepLine
    BY <1>2, <2>1 DEF Contract!StepLine, Contract!Open
  <2>3. QED
    BY <2>2 DEF Contract!Next
<1>3. ASSUME NEW why \in {"api_error", "replay_miss"}, CallFails(why)
      PROVE  [Contract!Next]_(Contract!vars)
  <2>1. /\ pc = "turn" /\ disk' = disk /\ arm' = arm /\ accepted' = accepted
        /\ file' = WithEnd(FlushedFile) /\ stop' = why
    BY <1>3 DEF CallFails, FlushAndStop
  <2>2. /\ file'.steps \in {file.steps, file.steps + 1}
        /\ file'.approvals = file.approvals /\ file'.refusals = file.refusals
    BY <1>inv, <2>1, FlushMoves
  <2>3. QED
    BY <1>1, <2>1, <2>2
<1>4. ASSUME NEW why \in {"refusal", "max_tokens", "api_error"}, EarlyStop(why)
      PROVE  [Contract!Next]_(Contract!vars)
  <2>1. /\ pc = "turn" /\ disk' = disk /\ arm' = arm /\ accepted' = accepted
        /\ step' \in Nat /\ file' = WithEnd(WithStep(file, QuietLine(step'))) /\ stop' = why
    BY <1>4, <1>typed DEF EarlyStop, Bill
  <2>2. /\ file'.steps = file.steps + 1
        /\ file'.approvals = file.approvals /\ file'.refusals = file.refusals
    BY <1>inv, <2>1, QuietMoves
  <2>3. QED
    BY <1>1, <2>1, <2>2
<1>5. ASSUME QuietTurn PROVE [Contract!Next]_(Contract!vars)
  <2>1. /\ pc = "turn" /\ disk' = disk /\ arm' = arm /\ accepted' = accepted
        /\ step' \in Nat
        /\ \/ file' = WithEnd(WithStep(file, QuietLine(step'))) /\ stop' = "no_submission"
           \/ file' = WithStep(file, QuietLine(step')) /\ stop' = stop
    BY <1>5, <1>typed DEF QuietTurn, Bill
  <2>2. /\ file'.steps = file.steps + 1
        /\ file'.approvals = file.approvals /\ file'.refusals = file.refusals
    BY <1>inv, <2>1, QuietMoves
  <2>3. QED
    BY <1>1, <1>2, <2>1, <2>2
<1>6. ASSUME BudgetExhausted \/ BatchRaises \/ GateRaises
      PROVE  [Contract!Next]_(Contract!vars)
  <2>1. /\ pc \in {"batch", "handler", "gate"} /\ disk' = disk /\ arm' = arm
        /\ accepted' = accepted /\ file' = WithEnd(FlushedFile)
        /\ stop' \in {"budget_exhausted", "api_error"}
    BY <1>6 DEF BudgetExhausted, MoreCalls, BatchRaises, GateRaises, FlushAndStop, finishVars
  <2>2. /\ file'.steps \in {file.steps, file.steps + 1}
        /\ file'.approvals = file.approvals /\ file'.refusals = file.refusals
    BY <1>inv, <2>1, FlushMoves
  <2>3. QED
    BY <1>1, <2>1, <2>2
<1>7. ASSUME \/ \E calls \in Batches : ToolTurn(calls)
             \/ Dispatch \/ SecondSubmit \/ Submit \/ NoGate
      PROVE  [Contract!Next]_(Contract!vars)
  <2>1. /\ file' = file /\ stop' = stop /\ disk' = disk /\ arm' = arm
        /\ accepted' = accepted
    BY <1>7 DEF ToolTurn, Bill, Dispatch, SecondSubmit, Submit, NoGate, finishVars
  <2>2. QED
    BY <1>0, <2>1 DEF Stutters, Gate
<1>8. ASSUME Accept PROVE [Contract!Next]_(Contract!vars)
  <2>1. /\ pc = "handler" /\ accepted' = TRUE /\ file' = file /\ stop' = stop
        /\ disk' = disk /\ arm' = arm
    BY <1>8 DEF Accept
  <2>2. Gate = "none" /\ Gate' = Gate /\ stop = "none"
    BY <1>early, <1>open, <2>1 DEF Gate
  <2>3. Contract!AcceptRecord
    BY <2>1, <2>2 DEF Contract!AcceptRecord, Contract!Open
  <2>4. QED
    BY <2>3 DEF Contract!Next
<1>9. ASSUME Reject PROVE [Contract!Next]_(Contract!vars)
  <2>1. pc = "handler" /\ disk' = disk /\ arm' = arm /\ accepted' = accepted
    BY <1>9 DEF Reject
  <2>2. CASE file' = file /\ stop' = stop
    BY <1>0, <2>1, <2>2 DEF Stutters, Gate
  <2>3. CASE /\ file' = WithEnd(WithStep(file, [pending EXCEPT !.answered = @ + 1,
                                                              !.rejected = @ + 1]))
             /\ stop' = "max_submits"
    <3>1. /\ file'.steps = file.steps + 1
          /\ file'.approvals = file.approvals /\ file'.refusals = file.refusals
      BY <1>inv, <2>1, <2>3, RejectMoves
    <3>2. QED
      BY <1>1, <2>1, <2>3, <3>1
  <2>4. QED
    BY <1>9, <2>2, <2>3 DEF Reject
<1>v. ASSUME VerdictRaises PROVE [Contract!Next]_(Contract!vars)
  <2>1. PICK r \in {0, 1} :
          file' = WithEnd(WithStep(file, [pending EXCEPT !.answered = @ + 1, !.rejected = @ + r]))
    BY <1>v DEF VerdictRaises
  <2>2. /\ pc = "handler" /\ disk' = disk /\ arm' = arm /\ accepted' = accepted
        /\ stop' = "api_error"
    BY <1>v DEF VerdictRaises
  <2>3. /\ file'.steps = file.steps + 1
        /\ file'.approvals = file.approvals /\ file'.refusals = file.refusals
    BY <1>inv, <2>1, <2>2, RejectMoves
  <2>4. QED
    BY <1>1, <2>2, <2>3
<1>10. ASSUME EndBatch PROVE [Contract!Next]_(Contract!vars)
  <2>1. /\ pc = "batch" /\ file' = FlushedFile /\ stop' = stop /\ disk' = disk
        /\ arm' = arm /\ accepted' = accepted
    BY <1>10 DEF EndBatch
  <2>2. pending.live
    BY <1>inv, <2>1 DEF IInv, Accounts, InFlight
  <2>3. /\ file'.steps = file.steps + 1
        /\ file'.approvals = file.approvals /\ file'.refusals = file.refusals
    BY <1>inv, <2>1, <2>2, FlushMoves
  <2>4. QED
    BY <1>2, <2>1, <2>3
<1>11. ASSUME GateApproves \/ GateRejects PROVE [Contract!Next]_(Contract!vars)
  <2>1. /\ pc = "gate" /\ arm = "advanced" /\ arm' = arm /\ disk' = disk /\ stop' = stop
        /\ accepted' = accepted
        /\ \/ file' = [file EXCEPT !.approvals = @ + 1]
           \/ file' = [file EXCEPT !.refusals = @ + 1]
    BY <1>11 DEF GateApproves, GateRejects, finishVars
  <2>2. /\ stop = "none" /\ accepted /\ Gate = "none"
        /\ file.approvals = 0 /\ file.refusals = 0
    BY <1>inv, <1>open, <1>early, <2>1 DEF Spent, Signed
  <2>3. /\ file'.steps = file.steps
        /\ \/ file'.approvals = 1 /\ file'.refusals = 0
           \/ file'.approvals = 0 /\ file'.refusals = 1
    <3>1. CASE file' = [file EXCEPT !.approvals = @ + 1]
      BY <1>inv, <2>2, <3>1, CheckpointMoves
    <3>2. CASE file' = [file EXCEPT !.refusals = @ + 1]
      BY <1>inv, <2>2, <3>2, CheckpointMoves
    <3>3. QED
      BY <2>1, <3>1, <3>2
  <2>4. PICK decision \in {"approved", "rejected"} : Gate' = decision
    BY <2>3 DEF Gate
  <2>5. Contract!Checkpoint(decision)
    BY <2>1, <2>2, <2>3, <2>4 DEF Contract!Checkpoint, Contract!Open
  <2>6. QED
    BY <2>5 DEF Contract!Next
<1>12. ASSUME Draft \/ Render PROVE [Contract!Next]_(Contract!vars)
  <2>1. /\ file' = WithEnd(file) /\ arm' = arm /\ accepted' = accepted
        /\ pc \in {"draft", "render"}
    BY <1>12 DEF Draft, Render, finishVars
  <2>2. file'.steps = file.steps /\ Gate' = Gate
    BY <1>inv, <2>1, CheckpointMoves DEF Gate
  <2>3. stop = "none" /\ accepted
    BY <1>inv, <1>open, <2>1 DEF Spent
  <2>4. CASE Draft
    <3>1. Gate = "rejected"
      BY <1>inv, <2>4 DEF Draft, Signed, Gate
    <3>2. Contract!Publish(stop') /\ stop' \in {"gate_rejected", "api_error"}
      BY <2>4, <3>1 DEF Draft, Contract!Publish
    <3>3. QED
      BY <2>1, <2>2, <2>3, <3>2 DEF Contract!End, Contract!Open, Contract!Next, Contract!Endings
  <2>5. CASE Render
    <3>1. Contract!Cleared
      BY <1>inv, <1>typed, <2>3, <2>5 DEF Render, Signed, Gate, Contract!Cleared
    <3>2. Contract!Publish(stop') /\ stop' \in {"accepted", "render_failed", "api_error"}
      BY <2>5, <3>1 DEF Render, Contract!Publish
    <3>3. QED
      BY <2>1, <2>2, <2>3, <3>2 DEF Contract!End, Contract!Open, Contract!Next, Contract!Endings
  <2>6. QED
    BY <1>12, <2>4, <2>5
<1>13. CASE UNCHANGED vars
  BY <1>0, <1>13 DEF Stutters, vars, Gate
<1>14. QED
  BY <1>3, <1>4, <1>5, <1>6, <1>7, <1>8, <1>9, <1>10, <1>11, <1>12, <1>13, <1>v DEF Next

\* The API loop keeps the contract of a run, for every budget and every batch.
THEOREM LoopKeepsContract == Spec => ImplementsContract
BY ContractInit, ContractStep, SafetyInvariant, PTL DEF Spec, ImplementsContract, Contract!Spec
-----------------------------------------------------------------------------

\* The turns the calls paid so far have room for.
Room == (MaxNudges + 1) * tool_calls

\* A turn is either the turn of a paid call or one of the MaxNudges quiet ones before
\* the next; a batch has its one turn in advance until its first call is paid.
Turns ==
  /\ step <= Room + MaxNudges + 1
  /\ pc = "turn" => nudges <= MaxNudges /\ step <= Room + nudges
  /\ pc \in {"batch", "handler"} => /\ nudges = 0 /\ pending.calls # <<>>
                                    /\ pending.taken > 0 => step <= Room

\* A paid call makes room for MaxNudges + 1 turns.
LEMMA RoomGrows ==
  ASSUME TypeOK
  PROVE  /\ Room \in Nat
         /\ tool_calls' = tool_calls => Room' = Room
         /\ tool_calls' = tool_calls + 1 => Room' = Room + MaxNudges + 1
<1>1. tool_calls \in Nat /\ MaxNudges \in Nat
  BY LoopAssumption DEF TypeOK
<1>2. (MaxNudges + 1) * (tool_calls + 1) = (MaxNudges + 1) * tool_calls + (MaxNudges + 1)
  BY <1>1
<1>3. QED
  BY <1>1, <1>2 DEF Room

\* No turn has been taken before the first.
LEMMA TurnsInit == Init => Turns
BY LoopAssumption DEF Init, Turns, Room

\* Every step of the loop keeps within the room.
LEMMA TurnsStep ==
  ASSUME IInv, Turns, [Next]_vars
  PROVE  Turns'
<1>typed. /\ TypeOK /\ Room \in Nat /\ MaxNudges \in Nat /\ nudges \in Nat /\ step \in Nat
          /\ pending.taken \in Nat /\ tool_calls \in Nat
  BY Pieces, RoomGrows, LoopAssumption DEF IInv, TypeOK
<1>same. tool_calls' = tool_calls => Room' = Room
  BY <1>typed, RoomGrows
<1>paid. tool_calls' = tool_calls + 1 => Room' = Room + MaxNudges + 1
  BY <1>typed, RoomGrows
<1> HIDE DEF Room
<1>1. ASSUME NEW why \in {"api_error", "replay_miss"}, CallFails(why) PROVE Turns'
  <2>1. /\ pc = "turn" /\ pc' = "done" /\ step' = step + 1 /\ tool_calls' = tool_calls
    BY <1>1 DEF CallFails, FlushAndStop, counters
  <2>2. QED
    BY <1>typed, <1>same, <2>1 DEF Turns
<1>2. ASSUME NEW why \in {"refusal", "max_tokens", "api_error"}, EarlyStop(why) PROVE Turns'
  <2>1. /\ pc = "turn" /\ pc' = "done" /\ step' = step + 1 /\ tool_calls' = tool_calls
    BY <1>2 DEF EarlyStop, Bill, counters
  <2>2. QED
    BY <1>typed, <1>same, <2>1 DEF Turns
<1>3. ASSUME QuietTurn PROVE Turns'
  <2>1. /\ pc = "turn" /\ step' = step + 1 /\ nudges' = nudges + 1 /\ tool_calls' = tool_calls
        /\ pc' = "done" \/ (pc' = "turn" /\ nudges' <= MaxNudges)
    BY <1>3 DEF QuietTurn, Bill, counters
  <2>2. QED
    BY <1>typed, <1>same, <2>1 DEF Turns
<1>4. ASSUME NEW calls \in Batches, ToolTurn(calls) PROVE Turns'
  <2>1. /\ pc = "turn" /\ pc' = "batch" /\ step' = step + 1 /\ nudges' = 0
        /\ tool_calls' = tool_calls
        /\ pending' = [NoPending EXCEPT !.live = TRUE, !.step = step', !.calls = calls]
    BY <1>4 DEF ToolTurn, Bill, counters
  <2>2. pending'.taken = 0 /\ pending'.calls = calls
    BY <2>1 DEF NoPending
  <2>3. calls # <<>>
    BY BatchIsSequence
  <2>4. QED
    BY <1>typed, <1>same, <2>1, <2>2, <2>3 DEF Turns
<1>5. ASSUME Dispatch \/ SecondSubmit \/ Submit PROVE Turns'
  <2>1. /\ pc = "batch" /\ pc' \in {"batch", "handler"} /\ step' = step /\ nudges' = nudges
        /\ tool_calls' = tool_calls + 1 /\ pending'.calls = pending.calls
    <3>1. pending \in PendingType
      BY <1>typed, Pieces
    <3>2. QED
      BY <1>5, <3>1 DEF Dispatch, SecondSubmit, Submit, MoreCalls, PendingType
  <2>2. Room' = Room + MaxNudges + 1
    BY <1>paid, <2>1
  <2>3. step' <= Room' /\ nudges' = 0
    BY <1>typed, <2>1, <2>2 DEF Turns
  <2>4. Room' \in Nat
    BY <1>typed, <2>2
  <2>5. pending.calls # <<>>
    BY <2>1 DEF Turns
  <2>6. step' <= Room' + MaxNudges + 1
    <3>1. step' \in Nat
      BY <1>typed, <2>1
    <3>2. \A s, r, m \in Nat : s <= r => s <= r + m + 1
      OBVIOUS
    <3>3. QED
      BY <1>typed, <2>3, <2>4, <3>1, <3>2
  <2>7. pc' # "turn" /\ pending'.calls # <<>>
    BY <2>1, <2>5
  <2>8. QED
    BY <2>3, <2>6, <2>7 DEF Turns
<1>6. ASSUME pc = "handler", pc' \in {"batch", "done"}, step' = step, nudges' = nudges,
             tool_calls' = tool_calls,
             pc' = "batch" => pending'.taken = pending.taken /\ pending'.calls = pending.calls
      PROVE  Turns'
  <2>1. pending.taken > 0
    BY <1>6 DEF IInv, Accounts, InFlight
  <2>2. QED
    BY <1>6, <2>1, <1>typed, <1>same DEF Turns
<1>7. ASSUME Accept \/ Reject \/ VerdictRaises PROVE Turns'
  <2>1. /\ pc = "handler" /\ pc' \in {"batch", "done"} /\ step' = step /\ nudges' = nudges
        /\ tool_calls' = tool_calls
        /\ \/ pc' = "done"
           \/ pending' = [pending EXCEPT !.answered = @ + 1]
           \/ pending' = [pending EXCEPT !.answered = @ + 1, !.rejected = @ + 1]
    BY <1>7 DEF Accept, Reject, VerdictRaises, counters
  <2>2. pending \in PendingType
    BY <1>typed, Pieces
  <2>3. pc' = "batch" => pending'.taken = pending.taken /\ pending'.calls = pending.calls
    BY <2>1, <2>2 DEF PendingType
  <2>4. QED
    BY <1>6, <2>1, <2>3
<1>8. ASSUME EndBatch PROVE Turns'
  <2>1. /\ pc = "batch" /\ pc' \in {"gate", "turn"} /\ step' = step /\ nudges' = nudges
        /\ tool_calls' = tool_calls /\ pending.taken = Len(pending.calls)
    BY <1>8 DEF EndBatch, counters
  <2>2. pending.calls \in Batches
    BY <1>typed, <2>1, Pieces DEF Turns
  <2>3. pending.taken > 0
    BY <2>1, <2>2, BatchIsSequence, LoopAssumption
  <2>4. QED
    BY <1>typed, <1>same, <2>1, <2>3 DEF Turns
<1>9. ASSUME \/ BudgetExhausted \/ BatchRaises
             \/ NoGate \/ GateApproves \/ GateRejects \/ Draft \/ GateRaises \/ Render
      PROVE  Turns'
  <2>1. /\ pc' \notin {"turn", "batch", "handler"} /\ step' = step /\ tool_calls' = tool_calls
    BY <1>9 DEF BudgetExhausted, BatchRaises, NoGate, GateApproves, GateRejects, Draft,
                GateRaises, Render, FlushAndStop, finishVars, counters
  <2>2. QED
    BY <1>typed, <1>same, <2>1 DEF Turns
<1>10. CASE UNCHANGED vars
  BY <1>10, <1>same DEF vars, Turns
<1>11. QED
  BY <1>1, <1>2, <1>3, <1>4, <1>5, <1>7, <1>8, <1>9, <1>10 DEF Next

\* No turn counter bounds the loop, for no budget is one needed: the turns are at most
\* MaxNudges + 1 for every call the tool budget could pay for, and as many once more.
THEOREM TurnsAreBounded == Spec => []TurnsBounded
<1>1. IInv /\ Spent /\ Turns => TurnsBounded
  <2> SUFFICES ASSUME IInv, Spent, Turns PROVE TurnsBounded
    OBVIOUS
  <2>1. /\ tool_calls \in Nat /\ ToolBudget \in Nat /\ MaxNudges \in Nat /\ step \in Nat
        /\ tool_calls <= ToolBudget
    BY LoopAssumption DEF IInv, TypeOK, Spent
  <2>2. /\ (MaxNudges + 1) * tool_calls <= (MaxNudges + 1) * ToolBudget
        /\ (MaxNudges + 1) * (ToolBudget + 1) = (MaxNudges + 1) * ToolBudget + (MaxNudges + 1)
    BY <2>1
  <2>3. (MaxNudges + 1) * tool_calls \in Nat /\ (MaxNudges + 1) * ToolBudget \in Nat
    BY <2>1
  <2>4. step <= (MaxNudges + 1) * tool_calls + MaxNudges + 1
    BY DEF Turns, Room
  <2>5. QED
    BY <2>1, <2>2, <2>3, <2>4 DEF TurnsBounded
<1>2. Init => IInv /\ Spent /\ Turns
  BY InitInv, SpentInit, TurnsInit
<1>3. IInv /\ Spent /\ Turns /\ [Next]_vars => (IInv /\ Spent /\ Turns)'
  BY StepInv, SpentStep, TurnsStep
<1>4. QED
  BY <1>1, <1>2, <1>3, PTL DEF Spec
-----------------------------------------------------------------------------

\* Nothing happens in a run that is over: every action of the loop has its place.
LEMMA OverIsOver ==
  ASSUME IInv, pc = "done", [Next]_vars
  PROVE  UNCHANGED vars
<1>1. ASSUME NEW why, CallFails(why) \/ EarlyStop(why) PROVE FALSE
  BY <1>1 DEF CallFails, EarlyStop, Bill
<1>2. ASSUME NEW calls, ToolTurn(calls) PROVE FALSE
  BY <1>2 DEF ToolTurn, Bill
<1>3. ASSUME QuietTurn \/ Reject \/ VerdictRaises \/ Accept \/ BatchRaises \/ EndBatch
      PROVE  FALSE
  BY <1>3 DEF QuietTurn, Bill, Reject, VerdictRaises, Accept, BatchRaises, EndBatch
<1>4. ASSUME BudgetExhausted \/ Dispatch \/ SecondSubmit \/ Submit PROVE FALSE
  BY <1>4 DEF BudgetExhausted, Dispatch, SecondSubmit, Submit, MoreCalls
<1>5. ASSUME NoGate \/ GateApproves \/ GateRejects \/ Draft \/ GateRaises \/ Render
      PROVE  FALSE
  BY <1>5 DEF NoGate, GateApproves, GateRejects, Draft, GateRaises, Render
<1>6. QED
  BY <1>1, <1>2, <1>3, <1>4, <1>5 DEF Next

\* What WrittenInOrder says of one step.
InOrder ==
  /\ file'.steps # file.steps => /\ file'.last = file.last + 1
                                 /\ file'.steps = file.steps + 1
                                 /\ file.approvals + file.refusals = 0
  /\ file.ends = 1 => file' = file

\* The contract adds lines one at a time and never after a checkpoint; the invariant
\* before and after the step says that the last line's number is their count.
LEMMA OrderStep ==
  ASSUME SInv, SInv', [Next]_vars
  PROVE  InOrder
<1>1. /\ file.approvals \in Nat /\ file.refusals \in Nat
  BY Pieces DEF SInv, IInv
<1>2. file.last = file.steps /\ file'.last = file'.steps
  BY DEF SInv, IInv, Accounts, Lines
<1>3. ASSUME file'.steps # file.steps
      PROVE  Gate = "none" /\ file'.steps = file.steps + 1
  <2>1. [Contract!Next]_(Contract!vars)
    BY ContractStep
  <2>2. CASE Contract!StepLine
    BY <2>2 DEF Contract!StepLine
  <2>3. CASE Contract!AcceptRecord
    BY <1>3, <2>3 DEF Contract!AcceptRecord
  <2>4. CASE \E decision \in {"approved", "rejected"} : Contract!Checkpoint(decision)
    BY <1>3, <2>4 DEF Contract!Checkpoint
  <2>5. CASE \E why \in Contract!Endings : Contract!End(why)
    BY <1>3, <2>5 DEF Contract!End, Contract!GiveUp
  <2>6. CASE UNCHANGED Contract!vars
    BY <1>3, <2>6 DEF Contract!vars
  <2>7. QED
    BY <2>1, <2>2, <2>3, <2>4, <2>5, <2>6 DEF Contract!Next
<1>4. Gate = "none" => file.approvals = 0 /\ file.refusals = 0
  BY <1>1 DEF Gate
<1>5. ASSUME file.ends = 1 PROVE file' = file
  <2>1. pc = "done"
    BY <1>5 DEF SInv, IInv, Accounts, Ended
  <2>2. QED
    BY <2>1, OverIsOver DEF SInv, vars
<1>6. QED
  BY <1>2, <1>3, <1>4, <1>5 DEF InOrder

\* Trace checks 2 and 3 for every run: lines are numbered as they are written, none
\* follows a checkpoint, and run_end is the last thing in the file.
THEOREM LinesInOrder == Spec => WrittenInOrder
BY OrderStep, SafetyInvariant, PTL DEF Spec, WrittenInOrder, InOrder
=============================================================================
