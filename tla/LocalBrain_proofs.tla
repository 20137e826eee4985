-------------------------- MODULE LocalBrain_proofs --------------------------
(***************************************************************************)
(* A run on a local CLI, for any budgets, any stream and any number of     *)
(* servers.  The spool is written by the server, read by the driver and    *)
(* survives both; the argument is that the server judges no attempt after  *)
(* one was accepted, so that what the driver reads when the CLI is gone    *)
(* cannot change any more.                                                 *)
(***************************************************************************)
EXTENDS LocalBrain, FiniteSetTheorems, WellFoundedInduction, TLAPS

\* The spool and the server's answer agree, and the server judges nothing after an acceptance.
Settled ==
  /\ spool.accepted # 0 => /\ spool.accepted = Len(spool.entries)
                           /\ spool.entries[spool.accepted]
  /\ server.at \in {"handling", "appended"} => spool.accepted = 0
  /\ server.at = "appended" => spool.entries # <<>>
  /\ server.at = "answering" /\ server.answer = "accepted" => spool.accepted # 0
  /\ told => spool.accepted # 0

\* The CLI is gone before the spool is read, and what is read is the spool's last word.
Taken ==
  /\ pc \notin {"reading", "stopping"} => ~Up
  /\ signed # 0 => signed = spool.accepted
  /\ pc = "deciding" => (told => signed # 0)
  /\ Over <=> pc = "done"
  /\ AcceptanceStands

\* What the stepper has spent.
Spent ==
  /\ tool_calls <= ToolBudget /\ submits <= MaxSubmits
  /\ steps <= MaxTurns + 1 /\ (pc \in {"start", "reading"} => steps <= MaxTurns)
  /\ file.steps + (IF open.live THEN 1 ELSE 0) <= steps

\* The server is asked by a CLI that is up, and the call it is at is the oldest open one.
Waiting ==
  /\ pc = "start" => cli = "unborn"
  /\ cli = "unborn" => server.at = "idle"
  /\ Up /\ server.at # "idle" => asked # <<>> /\ Head(asked) = "submit"

-----------------------------------------------------------------------------
(* What _buy buys *)

LEMMA Least ==
  ASSUME NEW T \in SUBSET Nat, T # {}
  PROVE  \E m \in T : \A k \in T : m <= k
<1> DEFINE R == OpToRel(<, Nat)
<1>1. IsWellFoundedOn(R, Nat) BY NatLessThanWellFounded
<1> HIDE DEF R
<1>2. PICK m \in T : \A k \in T : ~ (<<k, m>> \in R) BY <1>1, WFMin
<1>3. \A k \in T : k < m => <<k, m>> \in R BY DEF R, OpToRel
<1>4. m \in Nat /\ T \subseteq Nat OBVIOUS
<1>5. \A k \in T : ~(k < m) BY <1>2, <1>3
<1>6. \A k \in T : m <= k BY <1>4, <1>5
<1> QED BY <1>6

LEMMA LineOfCalls ==
  ASSUME NEW calls \in Lines
  PROVE  calls \in Seq(CallKinds) /\ Len(calls) \in Nat
<1>1. PICK n \in 0..MaxBatch : calls \in [1..n -> CallKinds] BY DEF Lines
<1>2. n \in Nat BY BrainAssumption DEF BrainAssumption
<1> QED BY <1>1, <1>2

LEMMA SubmitsCounted ==
  ASSUME NEW calls, NEW n \in Nat
  PROVE  SubmitsIn(calls, n) \in Nat /\ ({i \in 1..n : calls[i] = "submit"} = {} => SubmitsIn(calls, n) = 0)
<1>1. IsFiniteSet(1..n) BY FS_Interval
<1>2. IsFiniteSet({i \in 1..n : calls[i] = "submit"}) BY <1>1, FS_Subset
<1> QED BY <1>2, FS_CardinalityType, FS_EmptySet DEF SubmitsIn

\* The calls that are bought come before the first that cannot be.
LEMMA BoughtIsAffordable ==
  ASSUME NEW calls \in Lines
  PROVE  /\ Bought(calls) \in 0..Len(calls)
         /\ \A i \in 1..Bought(calls) : Affordable(calls, i)
<1> DEFINE First(n) == /\ \A i \in 1..n : Affordable(calls, i)
                       /\ n < Len(calls) => ~Affordable(calls, n + 1)
<1>1. Len(calls) \in Nat BY LineOfCalls
<1>2. \E n \in 0..Len(calls) : First(n)
  <2>1. CASE \A i \in 1..Len(calls) : Affordable(calls, i)
    <3>1. First(Len(calls)) BY <1>1, <2>1
    <3> QED BY <1>1, <3>1
  <2>2. CASE ~ \A i \in 1..Len(calls) : Affordable(calls, i)
    <3> DEFINE Dear == {i \in 1..Len(calls) : ~Affordable(calls, i)}
    <3>1. Dear \in SUBSET Nat /\ Dear # {} BY <1>1, <2>2
    <3> HIDE DEF Dear
    <3>2. PICK m \in Dear : \A k \in Dear : m <= k BY <3>1, Least
    <3>3. m \in 1..Len(calls) /\ ~Affordable(calls, m) BY <3>2 DEF Dear
    <3>4. ASSUME NEW i \in 1..(m - 1) PROVE Affordable(calls, i)
      <4>1. i \in 1..Len(calls) /\ ~(m <= i) BY <1>1, <3>3
      <4> QED BY <3>2, <4>1 DEF Dear
    <3>5. m - 1 \in 0..Len(calls) /\ (m - 1) + 1 = m BY <1>1, <3>3
    <3>6. First(m - 1) BY <3>3, <3>4, <3>5
    <3> QED BY <3>5, <3>6
  <2> QED BY <2>1, <2>2
<1>3. Bought(calls) = CHOOSE n \in 0..Len(calls) : First(n) BY DEF Bought
<1> HIDE DEF First
<1>4. Bought(calls) \in 0..Len(calls) /\ First(Bought(calls)) BY <1>2, <1>3
<1> QED BY <1>4 DEF First

\* And what they cost stays within both budgets.
LEMMA BoughtIsPaid ==
  ASSUME NEW calls \in Lines, TypeOK, tool_calls <= ToolBudget, submits <= MaxSubmits
  PROVE  /\ tool_calls + Bought(calls) <= ToolBudget
         /\ submits + SubmitsIn(calls, Bought(calls)) <= MaxSubmits
<1> DEFINE n == Bought(calls)
           Upto(m) == {i \in 1..m : calls[i] = "submit"}
<1>1. n \in 0..Len(calls) /\ n \in Nat /\ Len(calls) \in Nat BY BoughtIsAffordable, LineOfCalls
<1>2. \A i \in 1..n : Affordable(calls, i) BY BoughtIsAffordable
<1>3. /\ tool_calls \in Nat /\ submits \in Nat /\ MaxSubmits \in Nat /\ ToolBudget \in Nat
  BY BrainAssumption DEF BrainAssumption, TypeOK
<1> HIDE DEF n
<1>4. tool_calls + n <= ToolBudget
  <2>1. CASE n = 0 BY <1>3, <2>1
  <2>2. CASE n # 0 BY <1>1, <1>2, <2>2 DEF Affordable
  <2> QED BY <2>1, <2>2
<1>5. submits + SubmitsIn(calls, n) <= MaxSubmits
  <2> DEFINE Same == {m \in 0..n : Upto(m) = Upto(n)}
  <2>1. Same \in SUBSET Nat /\ n \in Same BY <1>1
  <2> HIDE DEF Same
  <2>2. PICK m \in Same : \A k \in Same : m <= k BY <2>1, Least
  <2>3. m \in 0..n /\ m \in Nat /\ Upto(m) = Upto(n) BY <1>1, <2>2 DEF Same
  <2>4. SubmitsIn(calls, m) = SubmitsIn(calls, n) BY <2>3 DEF SubmitsIn
  <2>5. CASE m = 0
    <3>1. Upto(n) = {} BY <2>3, <2>5
    <3>2. SubmitsIn(calls, n) = 0 BY <1>1, <3>1, SubmitsCounted
    <3> QED BY <1>3, <3>2
  <2>6. CASE m # 0
    <3>1. m \in 1..n /\ m - 1 \in 0..n BY <1>1, <2>3, <2>6
    <3>2. CASE calls[m] = "submit"
      BY <1>2, <2>4, <3>1, <3>2 DEF Affordable
    <3>3. CASE calls[m] # "submit"
      <4>1. Upto(m - 1) = Upto(m) BY <3>1, <3>3
      <4>2. m - 1 \in Same BY <2>3, <3>1, <4>1 DEF Same
      <4> QED BY <2>2, <2>3, <4>2
    <3> QED BY <3>2, <3>3
  <2> QED BY <2>5, <2>6
<1> QED BY <1>4, <1>5 DEF n

-----------------------------------------------------------------------------
(* Types *)

LineType == [live: BOOLEAN, calls: Nat, answered: Nat, submitCalls: Nat, rejected: Nat]
FileType == [steps: Nat, calls: Nat, submitCalls: Nat, rejections: Nat, owedBefore: Int,
             owedLast: Int, approvals: Nat, refusals: Nat, ends: Nat]
ServerType == [at: {"idle", "asked", "handling", "appended", "answering"}, attempts: Nat,
               answer: {"none", "rejected", "accepted"}]
SpoolType == [entries: Seq(BOOLEAN), accepted: Nat, exhausted: BOOLEAN]

\* TypeOK by who writes it.
ControlOK ==
  /\ pc \in PcStates /\ raised \in BOOLEAN /\ outcome \in Outcomes \cup {"none"}
  /\ disk \in {"nothing", "draft", "json", "documents"} /\ signed \in Nat /\ attempts \in Nat
CountsOK == tool_calls \in Nat /\ submits \in Nat /\ steps \in Nat /\ open \in LineType
FileOK == file \in FileType
OutsideOK ==
  /\ arm \in Arms /\ alarm \in {"off", "set", "ringing"} /\ stop \in Stops \cup {"none"}
  /\ cli \in {"unborn", "up", "exit 0", "exit 1"}
ClientOK ==
  /\ asked \in Seq(CallKinds) /\ speaking \in BOOLEAN /\ told \in BOOLEAN
  /\ pipe \in Seq(Events) /\ Len(pipe) <= PipeSize
McpOK == server \in ServerType /\ restarts \in 0..Restarts /\ spool \in SpoolType

LEMMA Parts ==
  TypeOK <=> ControlOK /\ CountsOK /\ FileOK /\ OutsideOK /\ ClientOK /\ McpOK
  BY DEF TypeOK, ControlOK, CountsOK, FileOK, OutsideOK, ClientOK, McpOK, LineType, FileType,
     ServerType, SpoolType

LEMMA PartsNext ==
  TypeOK' <=> ControlOK' /\ CountsOK' /\ FileOK' /\ OutsideOK' /\ ClientOK' /\ McpOK'
  BY DEF TypeOK, ControlOK, CountsOK, FileOK, OutsideOK, ClientOK, McpOK, LineType, FileType,
     ServerType, SpoolType

LEMMA InitTypes == Init => TypeOK
<1> SUFFICES ASSUME Init PROVE TypeOK
  OBVIOUS
<1>1. ControlOK BY DEF Init, ControlOK, PcStates
<1>2. CountsOK BY DEF Init, CountsOK, NoLine, LineType
<1>3. FileOK BY DEF Init, FileOK, EmptyFile, FileType
<1>4. OutsideOK BY DEF Init, OutsideOK
<1>5. ClientOK
  <2>1. pipe = <<>> /\ asked = <<>> /\ speaking = FALSE /\ told = FALSE BY DEF Init
  <2>2. pipe \in Seq(Events) /\ asked \in Seq(CallKinds) BY <2>1
  <2>3. Len(pipe) = 0 BY <2>1
  <2>4. Len(pipe) <= PipeSize BY <2>3, BrainAssumption DEF BrainAssumption
  <2> QED BY <2>1, <2>2, <2>4 DEF ClientOK
<1>6. McpOK BY BrainAssumption DEF BrainAssumption, Init, McpOK, Idle, ServerType, SpoolType
<1> QED BY <1>1, <1>2, <1>3, <1>4, <1>5, <1>6, Parts

\* What nobody writes keeps its type.
LEMMA Kept ==
  /\ UNCHANGED <<pc, raised, outcome, disk, signed, attempts>> /\ ControlOK => ControlOK'
  /\ UNCHANGED <<tool_calls, submits, steps, open>> /\ CountsOK => CountsOK'
  /\ UNCHANGED file /\ FileOK => FileOK'
  /\ UNCHANGED <<arm, alarm, stop, cli>> /\ OutsideOK => OutsideOK'
  /\ UNCHANGED <<asked, speaking, pipe, told>> /\ ClientOK => ClientOK'
  /\ UNCHANGED <<server, restarts, spool>> /\ McpOK => McpOK'
<1>1. UNCHANGED <<pc, raised, outcome, disk, signed, attempts>> /\ ControlOK => ControlOK'
  BY DEF ControlOK
<1>2. UNCHANGED <<tool_calls, submits, steps, open>> /\ CountsOK => CountsOK' BY DEF CountsOK
<1>3. UNCHANGED file /\ FileOK => FileOK' BY DEF FileOK
<1>4. UNCHANGED <<arm, alarm, stop, cli>> /\ OutsideOK => OutsideOK' BY DEF OutsideOK
<1>5. UNCHANGED <<asked, speaking, pipe, told>> /\ ClientOK => ClientOK' BY DEF ClientOK
<1>6. UNCHANGED <<server, restarts, spool>> /\ McpOK => McpOK' BY DEF McpOK
<1> QED BY <1>1, <1>2, <1>3, <1>4, <1>5, <1>6

\* A line that is printed.
LEMMA Printed ==
  ASSUME ClientOK, NEW e \in Events, Emits(e)
  PROVE  pipe' \in Seq(Events) /\ Len(pipe') <= PipeSize
  BY BrainAssumption DEF BrainAssumption, ClientOK, Emits

LEMMA EventTypes ==
  /\ Memory \in Events
  /\ \A r \in BOOLEAN : Result(r) \in Events
  /\ \A f \in BOOLEAN, c \in Lines : Says(f, c) \in Events
  BY DEF Events

\* The oldest call gets its result.
LEMMA Resolved ==
  ASSUME ClientOK, asked # <<>>, asked' = Tail(asked), speaking' = (asked' # <<>>)
  PROVE  asked' \in Seq(CallKinds) /\ speaking' \in BOOLEAN
<1>1. asked' \in Seq(CallKinds) BY DEF ClientOK
<1>2. speaking' \in BOOLEAN BY Zenon
<1> QED BY <1>1, <1>2

LEMMA CliTypes == TypeOK /\ Waiting /\ Cli => TypeOK'
<1> SUFFICES ASSUME TypeOK, Waiting, Cli PROVE TypeOK'
  OBVIOUS
<1> SUFFICES ClientOK' /\ McpOK' /\ OutsideOK'
  <2>1. UNCHANGED <<driver, stepper>>
    BY DEF Cli, CliLoadsMemory, CliSays, CliReads, CliSubmits, CliRestartsServer, CliExits, driver
  <2> QED BY <2>1, Parts, PartsNext, Kept DEF driver, stepper
<1>0. OutsideOK /\ ClientOK /\ McpOK BY Parts
<1>1. CASE CliLoadsMemory
  <2>1. pipe' \in Seq(Events) /\ Len(pipe') <= PipeSize
    BY <1>0, <1>1, Printed, EventTypes DEF CliLoadsMemory
  <2> QED BY <1>0, <1>1, <2>1 DEF CliLoadsMemory, mcp, OutsideOK, ClientOK, McpOK
<1>2. ASSUME NEW fresh \in BOOLEAN, NEW calls \in Lines, CliSays(fresh, calls)
      PROVE ClientOK' /\ McpOK' /\ OutsideOK'
  <2>1. pipe' \in Seq(Events) /\ Len(pipe') <= PipeSize
    BY <1>0, <1>2, Printed, EventTypes DEF CliSays
  <2>2. asked' \in Seq(CallKinds) BY <1>0, <1>2, LineOfCalls DEF CliSays, ClientOK
  <2> QED BY <1>0, <1>2, <2>1, <2>2 DEF CliSays, mcp, OutsideOK, ClientOK, McpOK
<1>3. CASE CliReads
  <2>1. pipe' \in Seq(Events) /\ Len(pipe') <= PipeSize
    BY <1>0, <1>3, Printed, EventTypes DEF CliReads
  <2>2. asked' \in Seq(CallKinds) /\ speaking' \in BOOLEAN BY <1>0, <1>3, Resolved DEF CliReads
  <2> QED BY <1>0, <1>3, <2>1, <2>2 DEF CliReads, mcp, OutsideOK, ClientOK, McpOK
<1>4. CASE CliSubmits
  BY <1>0, <1>4 DEF CliSubmits, client, OutsideOK, ClientOK, McpOK, ServerType
<1>5. CASE CliRestartsServer
  <2>1. pipe' \in Seq(Events) /\ Len(pipe') <= PipeSize
    BY <1>0, <1>5, Printed, EventTypes DEF CliRestartsServer
  <2>2. asked' \in Seq(CallKinds) /\ speaking' \in BOOLEAN
    BY <1>0, <1>5, Resolved DEF CliRestartsServer, Waiting
  <2>3. McpOK'
    BY <1>0, <1>5, BrainAssumption
    DEF BrainAssumption, CliRestartsServer, Idle, McpOK, ServerType
  <2> QED BY <1>0, <1>5, <2>1, <2>2, <2>3 DEF CliRestartsServer, OutsideOK, ClientOK
<1>6. CASE CliExits BY <1>0, <1>6 DEF CliExits, client, mcp, OutsideOK, ClientOK, McpOK
<1> QED BY <1>1, <1>2, <1>3, <1>4, <1>5, <1>6 DEF Cli

LEMMA ServerTypes == TypeOK /\ Waiting /\ Server => TypeOK'
<1> SUFFICES ASSUME TypeOK, Waiting, Server PROVE TypeOK'
  OBVIOUS
<1> SUFFICES ClientOK' /\ McpOK'
  <2>1. UNCHANGED <<driver, stepper, arm, alarm, stop, cli>>
    BY DEF Server, ServerRefuses, ServerBuys, HandlerRaises, ServerSettles, ServerAnswers,
       HandlerJudges, driver
  <2> QED BY <2>1, Parts, PartsNext, Kept DEF driver, stepper
<1>0. ClientOK /\ McpOK BY Parts
<1> USE DEF McpOK, ServerType, SpoolType
<1>1. CASE ServerRefuses BY <1>0, <1>1, Kept DEF ServerRefuses, Answer, client
<1>2. CASE ServerBuys
  <2>0. /\ server' = [server EXCEPT !.at = "handling", !.attempts = @ + 1]
        /\ restarts' = restarts /\ spool' = spool
    BY <1>2 DEF ServerBuys
  <2>1. server' \in ServerType
    <3>1. server \in ServerType /\ server.attempts + 1 \in Nat BY <1>0
    <3> QED BY <2>0, <3>1
  <2> QED BY <1>0, <1>2, <2>0, <2>1, Kept DEF ServerBuys, client
<1>3. CASE HandlerRaises BY <1>0, <1>3 DEF HandlerRaises, Answer, client, ClientOK
<1>4. ASSUME NEW yes \in BOOLEAN, HandlerJudges(yes) PROVE ClientOK' /\ McpOK'
  <2>1. Append(spool.entries, yes) \in Seq(BOOLEAN) BY <1>0
  <2>2. McpOK' BY <1>0, <1>4, <2>1 DEF HandlerJudges
  <2> QED BY <1>0, <1>4, <2>2, Kept DEF HandlerJudges, client
<1>5. CASE ServerSettles
  <2>1. spool' \in SpoolType
    <3>1. Len(spool.entries) \in Nat BY <1>0
    <3>2. (IF Judged THEN Len(spool.entries) ELSE spool.accepted) \in Nat BY <1>0, <3>1
    <3>3. (spool.exhausted \/ (~Judged /\ server.attempts >= MaxSubmits)) \in BOOLEAN OBVIOUS
    <3> QED BY <1>0, <1>5, <3>2, <3>3 DEF ServerSettles
  <2>2. server' \in ServerType BY <1>0, <1>5 DEF ServerSettles, Answer
  <2> QED BY <1>0, <1>5, <2>1, <2>2 DEF ServerSettles, client, ClientOK
<1>6. CASE ServerAnswers
  <2>1. McpOK' BY <1>0, <1>6 DEF ServerAnswers, Idle
  <2>2. CASE UNCHANGED client BY <1>0, <2>1, <2>2, Kept DEF client
  <2>3. CASE ~UNCHANGED client
    <3>1. /\ Emits(Result(server.answer = "rejected")) /\ asked' = Tail(asked)
          /\ speaking' = (asked' # <<>>) /\ told' = (told \/ server.answer = "accepted")
      BY <1>6, <2>3 DEF ServerAnswers
    <3>2. pipe' \in Seq(Events) /\ Len(pipe') <= PipeSize BY <1>0, <3>1, Printed, EventTypes
    <3>3. told' \in BOOLEAN BY <1>0, <3>1, Zenon DEF ClientOK
    <3>4. asked # <<>> BY <1>6, <2>3 DEF ServerAnswers, Waiting
    <3> QED BY <1>0, <2>1, <3>1, <3>2, <3>3, <3>4, Resolved DEF ClientOK
  <2> QED BY <2>2, <2>3
<1> QED BY <1>1, <1>2, <1>3, <1>4, <1>5, <1>6 DEF Server

LEMMA Writes ==
  ASSUME FileOK, NEW l \in LineType
  PROVE  WithLine(file, l) \in FileType
<1>1. file \in FileType /\ l.calls - l.answered \in Int BY DEF FileOK, LineType
<1>2. /\ file.steps + 1 \in Nat /\ file.calls + l.calls \in Nat
      /\ file.submitCalls + l.submitCalls \in Nat /\ file.rejections + l.rejected \in Nat
      /\ file.owedBefore + file.owedLast \in Int
  BY <1>1 DEF FileType, LineType
<1> QED BY <1>1, <1>2 DEF WithLine, FileType

LEMMA Closes == FileOK /\ CountsOK => Closed \in FileType
  BY Writes DEF Closed, FileOK, CountsOK

LEMMA EndTypes ==
  ASSUME FileOK, NEW why \in Outcomes, End(why)
  PROVE  FileOK' /\ pc' \in PcStates /\ outcome' \in Outcomes
  BY DEF End, FileOK, FileType, PcStates

LEMMA HaltTypes ==
  ASSUME OutsideOK, NEW why \in Stops \cup {"none"}
  PROVE  Halt(why) \in Stops \cup {"none"}
  BY DEF Halt, OutsideOK

LEMMA KillTypes == OutsideOK /\ Killed => cli' \in {"unborn", "up", "exit 0", "exit 1"}
  BY DEF OutsideOK, Killed

LEMMA ReadTypes ==
  ASSUME TypeOK, ReadMemory \/ ReadMessage \/ ReadResult \/ StreamEnds
  PROVE  TypeOK'
<1>0. ControlOK /\ CountsOK /\ FileOK /\ OutsideOK /\ ClientOK /\ McpOK BY Parts
<1>1. Reading => pipe' \in Seq(Events) /\ Len(pipe') <= PipeSize
  <2>1. Reading => /\ pipe' \in Seq(Events) /\ Len(pipe') = Len(pipe) - 1 /\ Len(pipe) \in Nat
    BY <1>0 DEF ClientOK, Reading
  <2> QED BY <1>0, <2>1, BrainAssumption DEF BrainAssumption, ClientOK
<1>2. CASE ReadMemory
  <2>1. stop' \in Stops \cup {"none"} BY <1>0, <1>2, HaltTypes DEF ReadMemory, Stops
  <2>2. OutsideOK' BY <1>0, <1>2, <2>1 DEF ReadMemory, OutsideOK
  <2>3. ControlOK' BY <1>0, <1>2 DEF ReadMemory, NextPc, ControlOK, PcStates
  <2>4. ClientOK' BY <1>0, <1>1, <1>2 DEF ReadMemory, ClientOK
  <2> QED BY <1>0, <1>2, <2>2, <2>3, <2>4, PartsNext, Kept DEF ReadMemory, mcp, stepper
<1>3. CASE ReadMessage
  <2> DEFINE fresh == Head(pipe).fresh
             calls == Head(pipe).calls
             n == Bought(calls)
             line == IF fresh THEN [NoLine EXCEPT !.live = TRUE] ELSE open
             why == IF fresh /\ (IF fresh THEN steps + 1 ELSE steps) > MaxTurns
                    THEN "budget_exhausted" ELSE WhyNotAll(calls)
  <2>1. Head(pipe) \in Events /\ Head(pipe).kind = "says"
    BY <1>0, <1>3 DEF ReadMessage, Reading, ClientOK
  <2>2. fresh \in BOOLEAN /\ calls \in Lines
    BY <2>1 DEF Events, Memory, Says, Result
  <2>3. n \in Nat /\ SubmitsIn(calls, n) \in Nat
    BY <2>2, BoughtIsAffordable, LineOfCalls, SubmitsCounted
  <2>4. /\ file' = IF fresh THEN Closed ELSE file
        /\ steps' = IF fresh THEN steps + 1 ELSE steps
        /\ tool_calls' = tool_calls + n
        /\ submits' = submits + SubmitsIn(calls, n)
        /\ open' = [line EXCEPT !.calls = @ + n, !.submitCalls = @ + SubmitsIn(calls, n)]
        /\ stop' = Halt(why)
    BY <1>3 DEF ReadMessage
  <2>5. line \in LineType BY <1>0 DEF CountsOK, NoLine, LineType
  <2>6. line.calls + n \in Nat /\ line.submitCalls + SubmitsIn(calls, n) \in Nat
    BY <2>3, <2>5 DEF LineType
  <2> HIDE DEF n, line
  <2>7. open' \in LineType BY <2>4, <2>5, <2>6 DEF LineType
  <2>8. CountsOK' BY <1>0, <2>3, <2>4, <2>7 DEF CountsOK
  <2>9. FileOK' BY <1>0, <2>4, Closes DEF FileOK
  <2>10. why \in Stops \cup {"none"} BY DEF WhyNotAll, Stops
  <2> HIDE DEF why
  <2>11. stop' \in Stops \cup {"none"} BY <1>0, <2>4, <2>10, HaltTypes
  <2>12. OutsideOK' BY <1>0, <1>3, <2>11 DEF ReadMessage, OutsideOK
  <2>13. ControlOK' BY <1>0, <1>3 DEF ReadMessage, NextPc, ControlOK, PcStates
  <2>14. ClientOK' BY <1>0, <1>1, <1>3 DEF ReadMessage, ClientOK
  <2> QED BY <1>0, <1>3, <2>8, <2>9, <2>12, <2>13, <2>14, PartsNext, Kept DEF ReadMessage, mcp
<1>4. CASE ReadResult
  <2>1. stop' \in Stops \cup {"none"} BY <1>0, <1>4 DEF ReadResult, Halt, OutsideOK, Stops
  <2>2. OutsideOK' BY <1>0, <1>4, <2>1 DEF ReadResult, OutsideOK
  <2>3. ControlOK' BY <1>0, <1>4 DEF ReadResult, NextPc, ControlOK, PcStates
  <2>4. ClientOK' BY <1>0, <1>1, <1>4 DEF ReadResult, ClientOK
  <2>5. open' \in LineType
    <3>1. open.answered + 1 \in Nat /\ open.rejected \in Nat /\ open.rejected + 1 \in Nat
      BY <1>0 DEF CountsOK, LineType
    <3> QED BY <1>0, <1>4, <3>1 DEF ReadResult, CountsOK, LineType
  <2>6. CountsOK' BY <1>0, <1>4, <2>5 DEF ReadResult, CountsOK
  <2> QED BY <1>0, <1>4, <2>2, <2>3, <2>4, <2>6, PartsNext, Kept DEF ReadResult, mcp
<1>5. CASE StreamEnds
  <2>1. ControlOK' BY <1>0, <1>5 DEF StreamEnds, ControlOK, PcStates
  <2> QED BY <1>0, <1>5, <2>1, PartsNext, Kept DEF StreamEnds, mcp, client, stepper
<1> QED BY <1>2, <1>3, <1>4, <1>5

LEMMA RunTypes ==
  ASSUME TypeOK, Spawn \/ StopCli \/ StreamRaises \/ AlarmRings \/ AlarmStops
  PROVE  TypeOK'
<1>0. ControlOK /\ CountsOK /\ FileOK /\ OutsideOK /\ ClientOK /\ McpOK BY Parts
<1>1. CASE Spawn
  <2>1. ControlOK' /\ FileOK'
    <3>1. CASE End("api_error")
      BY <1>0, <1>1, <3>1, EndTypes DEF Spawn, ControlOK, Outcomes, Stops
    <3>2. CASE ~End("api_error")
      BY <1>0, <1>1, <3>2 DEF Spawn, ControlOK, FileOK, PcStates
    <3> QED BY <3>1, <3>2
  <2>2. OutsideOK' BY <1>0, <1>1 DEF Spawn, OutsideOK
  <2> QED BY <1>0, <1>1, <2>1, <2>2, PartsNext, Kept DEF Spawn, stepper, client, mcp
<1>2. CASE StopCli
  <2>1. FileOK' BY <1>0, <1>2, Closes DEF StopCli, FileOK
  <2>2. ControlOK' BY <1>0, <1>2 DEF StopCli, ControlOK, PcStates
  <2>3. CountsOK' BY <1>0, <1>2 DEF StopCli, CountsOK, NoLine, LineType
  <2>4. OutsideOK' BY <1>0, <1>2, KillTypes DEF StopCli, OutsideOK
  <2> QED BY <1>0, <1>2, <2>1, <2>2, <2>3, <2>4, PartsNext, Kept DEF StopCli, client, mcp
<1>3. CASE StreamRaises
  <2>1. FileOK' /\ pc' \in PcStates /\ outcome' \in Outcomes
    BY <1>0, <1>3, EndTypes DEF StreamRaises, Outcomes, Stops
  <2>2. ControlOK' BY <1>0, <1>3, <2>1 DEF StreamRaises, ControlOK
  <2>3. OutsideOK' BY <1>0, <1>3, KillTypes DEF StreamRaises, OutsideOK
  <2> QED BY <1>0, <1>3, <2>1, <2>2, <2>3, PartsNext, Kept DEF StreamRaises, stepper, client, mcp
<1>4. CASE AlarmRings
  <2>1. OutsideOK' BY <1>0, <1>4 DEF AlarmRings, OutsideOK
  <2> QED BY <1>0, <1>4, <2>1, PartsNext, Kept DEF AlarmRings, driver, stepper, client, mcp
<1>5. CASE AlarmStops
  <2>1. OutsideOK' BY <1>0, <1>5, KillTypes DEF AlarmStops, OutsideOK, Stops
  <2> QED BY <1>0, <1>5, <2>1, PartsNext, Kept DEF AlarmStops, driver, stepper, client, mcp
<1> QED BY <1>1, <1>2, <1>3, <1>4, <1>5

\* After the CLI the driver touches its own variables and the trace.
LEMMA AfterTypes ==
  ASSUME TypeOK,
         CountAttempts \/ TakeAccepted \/ Decide \/ NoGate \/ GateAnswers \/ GateRaises \/ Draft \/ Render
  PROVE  TypeOK'
<1>0. ControlOK /\ CountsOK /\ FileOK /\ OutsideOK /\ ClientOK /\ McpOK BY Parts
<1> SUFFICES ControlOK' /\ FileOK'
  <2>1. UNCHANGED <<afterwards, open>>
    BY DEF CountAttempts, TakeAccepted, Decide, NoGate, GateAnswers, GateRaises, Draft, Render,
       afterwards
  <2> QED BY <1>0, <2>1, PartsNext, Kept DEF afterwards, client, mcp
<1>1. ASSUME NEW why \in Outcomes, End(why)
      PROVE  FileOK' /\ pc' \in PcStates /\ outcome' \in Outcomes
  BY <1>0, <1>1, EndTypes
<1>2. CASE CountAttempts
  <2>1. attempts' \in Nat BY <1>0, <1>2 DEF CountAttempts, CountsOK, McpOK, SpoolType
  <2> QED BY <1>0, <1>2, <2>1 DEF CountAttempts, afterwards, ControlOK, FileOK, PcStates
<1>3. CASE TakeAccepted
  BY <1>0, <1>3 DEF TakeAccepted, afterwards, ControlOK, FileOK, PcStates, McpOK, SpoolType
<1>4. CASE Decide
  <2>1. CASE signed # 0 BY <1>0, <1>4, <2>1 DEF Decide, afterwards, ControlOK, FileOK, PcStates
  <2>2. CASE signed = 0
    <3> DEFINE why == IF stop # "none" THEN stop
                      ELSE IF cli # "exit 0" THEN "api_error"
                      ELSE IF attempts >= MaxSubmits THEN "max_submits" ELSE "no_submission"
    <3>1. End(why) /\ UNCHANGED <<raised, disk, signed, attempts>>
      BY <1>4, <2>2 DEF Decide, afterwards
    <3>2. why \in Outcomes BY <1>0 DEF OutsideOK, Outcomes, Stops
    <3> HIDE DEF why
    <3> QED BY <1>0, <1>1, <3>1, <3>2 DEF ControlOK
  <2> QED BY <2>1, <2>2
<1>5. CASE NoGate BY <1>0, <1>5 DEF NoGate, afterwards, ControlOK, FileOK, PcStates
<1>6. CASE GateAnswers
  <2>1. FileOK'
    <3>1. file.approvals + 1 \in Nat /\ file.refusals + 1 \in Nat BY <1>0 DEF FileOK, FileType
    <3> QED BY <1>0, <1>6, <3>1 DEF GateAnswers, FileOK, FileType
  <2> QED BY <1>0, <1>6, <2>1 DEF GateAnswers, afterwards, ControlOK, PcStates
<1>7. CASE GateRaises
  BY <1>0, <1>1, <1>7 DEF GateRaises, afterwards, ControlOK, Outcomes, Stops
<1>8. CASE Draft
  BY <1>0, <1>1, <1>8 DEF Draft, afterwards, ControlOK, Outcomes, Stops
<1>9. CASE Render
  BY <1>0, <1>1, <1>9 DEF Render, afterwards, ControlOK, Outcomes, Stops
<1> QED BY <1>2, <1>3, <1>4, <1>5, <1>6, <1>7, <1>8, <1>9

LEMMA WaitingKept == TypeOK /\ Waiting /\ [Next]_vars => Waiting'
<1> SUFFICES ASSUME TypeOK, Waiting, [Next]_vars PROVE Waiting'
  OBVIOUS
<1>0. OutsideOK /\ ClientOK /\ McpOK BY Parts
<1>1. CASE UNCHANGED vars BY <1>1 DEF vars, driver, client, mcp, Waiting, Up
<1>2. CASE CliLoadsMemory BY <1>2 DEF CliLoadsMemory, driver, mcp, Waiting, Up
<1>3. ASSUME NEW fresh \in BOOLEAN, NEW calls \in Lines, CliSays(fresh, calls) PROVE Waiting'
  <2>1. asked # <<>> => asked' # <<>> /\ Head(asked') = Head(asked)
    <3>1. asked' = asked \o calls /\ asked \in Seq(CallKinds) /\ calls \in Seq(CallKinds)
      BY <1>0, <1>3, LineOfCalls DEF CliSays, ClientOK
    <3> QED BY <3>1
  <2> QED BY <1>3, <2>1 DEF CliSays, driver, mcp, Waiting, Up
<1>4. CASE CliReads BY <1>4 DEF CliReads, driver, mcp, Waiting, Up
<1>5. CASE CliSubmits BY <1>0, <1>5 DEF CliSubmits, driver, client, Waiting, Up, McpOK, ServerType
<1>6. CASE CliRestartsServer
  BY <1>6 DEF CliRestartsServer, driver, Idle, Waiting, Up
<1>7. CASE CliExits BY <1>7 DEF CliExits, driver, client, mcp, Waiting, Up
<1>8. CASE Server
  <2>1. /\ pc' = pc /\ cli' = cli /\ (server.at = "idle" => server'.at = "idle")
        /\ server'.at # "idle" => asked' = asked
    BY <1>0, <1>8
    DEF Server, ServerRefuses, ServerBuys, HandlerRaises, ServerSettles, ServerAnswers, HandlerJudges,
        Answer, Idle, driver, client, McpOK, ServerType
  <2> QED BY <2>1 DEF Waiting, Up
<1>9. CASE Spawn BY <1>9 DEF Spawn, End, client, mcp, Waiting, Up
<1>10. CASE \/ ReadMemory \/ ReadMessage \/ ReadResult \/ StreamEnds \/ StopCli \/ CountAttempts
            \/ TakeAccepted \/ Decide \/ NoGate \/ GateAnswers \/ GateRaises \/ Draft \/ Render
            \/ StreamRaises \/ AlarmRings \/ AlarmStops
  <2>1. /\ asked' = asked /\ server' = server /\ (cli' = cli \/ (Up /\ cli' = "exit 1"))
        /\ pc' = "start" => pc = "start"
    BY <1>10
    DEF ReadMemory, ReadMessage, ReadResult, StreamEnds, StopCli, CountAttempts, TakeAccepted, Decide,
        NoGate, GateAnswers, GateRaises, Draft, Render, StreamRaises, AlarmRings, AlarmStops,
        Killed, End, NextPc, driver, client, mcp, afterwards
  <2> QED BY <2>1 DEF Waiting, Up
<1> QED
  BY <1>1, <1>2, <1>3, <1>4, <1>5, <1>6, <1>7, <1>8, <1>9, <1>10 DEF Next, Cli, Driver

LEMMA InitWaiting == Init => Waiting
  BY DEF Init, Waiting, Idle, Up

LEMMA StepTypes == TypeOK /\ Waiting /\ [Next]_vars => TypeOK'
<1>1. TypeOK /\ UNCHANGED vars => TypeOK'
  BY Parts, PartsNext, Kept DEF vars, driver, stepper, client, mcp
<1> QED
  BY <1>1, CliTypes, ServerTypes, ReadTypes, RunTypes, AfterTypes DEF Next, Driver

\* What the driver, the timer, the CLI, its server and their files range over, for every
\* stream and budget (brains/driver.py, convert.py, mcp_server.py, spool.py).
THEOREM LocalTypes == Spec => []TypeOK
<1>1. Init => TypeOK /\ Waiting BY InitTypes, InitWaiting
<1>2. (TypeOK /\ Waiting) /\ [Next]_vars => (TypeOK /\ Waiting)' BY StepTypes, WaitingKept
<1> QED BY <1>1, <1>2, PTL DEF Spec

-----------------------------------------------------------------------------
(* The spool *)

\* Only the server writes the spool, and only a CLI that is up is told.
LEMMA SettledKept == TypeOK /\ Settled /\ [Next]_vars => Settled'
<1> SUFFICES ASSUME TypeOK, Settled, [Next]_vars PROVE Settled'
  OBVIOUS
<1>0. McpOK /\ spool \in SpoolType /\ server \in ServerType BY Parts DEF McpOK
<1>1. CASE UNCHANGED <<server, spool, told>> BY <1>1 DEF Settled
<1>2. CASE CliSubmits BY <1>0, <1>2 DEF CliSubmits, client, Settled, ServerType
<1>3. CASE CliRestartsServer BY <1>3 DEF CliRestartsServer, Idle, Settled
<1>4. CASE ServerRefuses
  BY <1>0, <1>4 DEF ServerRefuses, Answer, client, Settled, ServerType, SpoolType
<1>5. CASE ServerBuys BY <1>0, <1>5 DEF ServerBuys, client, Settled, ServerType
<1>6. CASE HandlerRaises BY <1>0, <1>6 DEF HandlerRaises, Answer, client, Settled, ServerType
<1>7. ASSUME NEW yes \in BOOLEAN, HandlerJudges(yes) PROVE Settled'
  <2>1. /\ spool'.accepted = 0 /\ spool'.entries # <<>> /\ server'.at = "appended"
        /\ ~told /\ told' = told
    BY <1>0, <1>7 DEF HandlerJudges, client, Settled, ServerType, SpoolType
  <2> QED BY <2>1 DEF Settled
<1>8. CASE ServerSettles
  <2>1. /\ spool.accepted = 0 /\ spool.entries # <<>> /\ told' = told /\ ~told
        /\ Len(spool.entries) \in Nat \ {0}
    BY <1>0, <1>8 DEF ServerSettles, client, Settled, SpoolType
  <2>2. /\ spool'.entries = spool.entries
        /\ spool'.accepted = IF Judged THEN Len(spool.entries) ELSE 0
        /\ server'.at = "answering"
        /\ server'.answer = IF Judged THEN "accepted" ELSE "rejected"
    BY <1>0, <1>8, <2>1 DEF ServerSettles, Answer, SpoolType, ServerType
  <2>3. CASE Judged BY <2>1, <2>2, <2>3 DEF Settled, Judged
  <2>4. CASE ~Judged BY <2>1, <2>2, <2>4 DEF Settled
  <2> QED BY <2>3, <2>4
<1>9. CASE ServerAnswers
  <2>1. /\ spool' = spool /\ server'.at = "idle"
        /\ told' = told \/ (told' = (told \/ server.answer = "accepted"))
        /\ server.at = "answering"
    BY <1>9 DEF ServerAnswers, Idle, client
  <2>2. told' => spool.accepted # 0 BY <2>1 DEF Settled
  <2> QED BY <2>1, <2>2 DEF Settled
<1>10. UNCHANGED <<server, spool, told>> \/ CliSubmits \/ CliRestartsServer \/ Server
  BY DEF Next, Cli, Driver, CliLoadsMemory, CliSays, CliReads, CliExits, Spawn, ReadMemory,
     ReadMessage, ReadResult, StreamEnds, StopCli, CountAttempts, TakeAccepted, Decide, NoGate,
     GateAnswers, GateRaises, Draft, Render, StreamRaises, AlarmRings, AlarmStops, vars, client, mcp,
     afterwards
<1> QED BY <1>1, <1>2, <1>3, <1>4, <1>5, <1>6, <1>7, <1>8, <1>9, <1>10 DEF Server

LEMMA TakenKept == TypeOK /\ Settled /\ Taken /\ [Next]_vars => Taken'
<1> SUFFICES ASSUME TypeOK, Settled, Taken, [Next]_vars PROVE Taken'
  OBVIOUS
<1>0. /\ ControlOK /\ McpOK /\ OutsideOK BY Parts
<1> USE DEF AcceptanceStands, Over, Up
<1>1. CASE UNCHANGED vars BY <1>1 DEF vars, driver, client, mcp, Taken
<1>2. CASE Cli
  <2>1. /\ UNCHANGED <<pc, signed, outcome, told, spool>> /\ cli = "up"
    BY <1>2 DEF Cli, CliLoadsMemory, CliSays, CliReads, CliSubmits, CliRestartsServer, CliExits,
       driver, client, mcp
  <2>2. pc \in {"reading", "stopping"} BY <2>1 DEF Taken
  <2> QED BY <2>1, <2>2 DEF Taken
<1>3. CASE Server
  <2>1. UNCHANGED <<pc, signed, outcome, cli>> /\ (told' = told \/ cli = "up")
    BY <1>3 DEF Server, ServerRefuses, ServerBuys, HandlerRaises, ServerSettles, ServerAnswers,
       HandlerJudges, driver, client
  <2>2. spool.accepted # 0 => spool'.accepted = spool.accepted
    BY <1>0, <1>3 DEF Server, ServerRefuses, ServerBuys, HandlerRaises, ServerSettles, ServerAnswers,
       HandlerJudges, Settled, McpOK, SpoolType
  <2>3. signed # 0 => signed = spool'.accepted BY <2>2 DEF Taken
  <2>4. pc \notin {"reading", "stopping"} => cli # "up" BY DEF Taken
  <2> QED BY <2>1, <2>3, <2>4 DEF Taken
<1>4. CASE Spawn BY <1>4 DEF Spawn, End, client, mcp, Taken, Settled
<1>5. CASE ReadMemory \/ ReadMessage \/ ReadResult \/ StreamEnds
  <2>1. /\ UNCHANGED <<signed, outcome, cli, told, spool>> /\ pc = "reading"
        /\ pc' \in {"reading", "stopping"}
    BY <1>5 DEF ReadMemory, ReadMessage, ReadResult, StreamEnds, Reading, NextPc, client, mcp, stepper
  <2> QED BY <2>1 DEF Taken
<1>6. CASE StopCli BY <1>6 DEF StopCli, Killed, client, mcp, Taken
<1>7. CASE CountAttempts BY <1>7 DEF CountAttempts, afterwards, client, mcp, Taken
<1>8. CASE TakeAccepted BY <1>0, <1>8 DEF TakeAccepted, afterwards, client, mcp, Taken, Settled
<1>9. CASE Decide BY <1>9 DEF Decide, End, afterwards, client, mcp, Taken, Stops
<1>10. CASE NoGate \/ GateAnswers
  BY <1>10 DEF NoGate, GateAnswers, afterwards, client, mcp, Taken
<1>11. CASE GateRaises \/ Draft \/ Render
  BY <1>11 DEF GateRaises, Draft, Render, End, afterwards, client, mcp, Taken
<1>12. CASE StreamRaises BY <1>12 DEF StreamRaises, Killed, End, client, mcp, Taken
<1>13. CASE AlarmRings BY <1>13 DEF AlarmRings, driver, client, mcp, Taken
<1>14. CASE AlarmStops BY <1>14 DEF AlarmStops, Killed, driver, client, mcp, Taken
<1> QED
  BY <1>1, <1>2, <1>3, <1>4, <1>5, <1>6, <1>7, <1>8, <1>9, <1>10, <1>11, <1>12, <1>13, <1>14
  DEF Next, Driver

SInv == (TypeOK /\ Waiting) /\ Settled /\ Taken

\* The invariant of the spool.
LEMMA SpoolInvariant == Spec => []SInv
<1>1. Init => SInv
  <2>1. Init => Settled /\ Taken
    BY DEF Init, Settled, Taken, Idle, Up, Over, AcceptanceStands
  <2> QED BY <2>1, InitTypes, InitWaiting DEF SInv
<1>2. SInv /\ [Next]_vars => SInv'
  BY StepTypes, WaitingKept, SettledKept, TakenKept DEF SInv
<1> QED BY <1>1, <1>2, PTL DEF Spec

\* An acceptance the model was told of is not lost to the timer, to a budget, to the exit code
\* or to a server that died (driver.py _outcome over spool.py accepted_record).
THEOREM AcceptanceIsKept == Spec => []AcceptanceStands
<1>1. SInv => AcceptanceStands BY DEF SInv, Taken
<1> QED BY <1>1, SpoolInvariant, PTL

\* The record a run goes on with is its last accepted attempt, whatever a server that outlived
\* the CLI still writes (mcp_server.py Server.submit, spool.py).
THEOREM AcceptanceHappensOnce == Spec => []SignedIsLast
<1>1. SInv => SignedIsLast
  BY Parts DEF SInv, Taken, Settled, SignedIsLast, McpOK, SpoolType
<1> QED BY <1>1, SpoolInvariant, PTL

-----------------------------------------------------------------------------
(* The budgets *)

\* Only the server and the restarts of it touch what the attempts are counted by.
Attempts ==
  /\ server.attempts <= MaxSubmits
  /\ Len(spool.entries) + (IF server.at = "handling" THEN 1 ELSE 0)
       <= MaxSubmits * restarts + server.attempts

LEMMA Numbers ==
  ASSUME TypeOK
  PROVE  /\ restarts \in Nat /\ MaxSubmits \in Nat /\ MaxSubmits * restarts \in Nat
         /\ server.attempts \in Nat /\ Len(spool.entries) \in Nat
         /\ file.steps \in Nat /\ steps \in Nat /\ MaxTurns \in Nat
<1>1. McpOK /\ FileOK /\ CountsOK BY Parts
<1>2. restarts \in Nat /\ MaxSubmits \in Nat /\ MaxTurns \in Nat
  BY <1>1, BrainAssumption DEF BrainAssumption, McpOK
<1>3. server.attempts \in Nat /\ Len(spool.entries) \in Nat
  BY <1>1 DEF McpOK, ServerType, SpoolType
<1>4. file.steps \in Nat /\ steps \in Nat BY <1>1 DEF FileOK, FileType, CountsOK
<1> QED BY <1>2, <1>3, <1>4

\* An attempt is bought before it is judged, so no spool holds more than was bought.
LEMMA AttemptsKept == TypeOK /\ Attempts /\ [Next]_vars => Attempts'
<1> SUFFICES ASSUME TypeOK, Attempts, [Next]_vars PROVE Attempts'
  OBVIOUS
<1>0. /\ server \in ServerType /\ spool \in SpoolType
      /\ restarts \in Nat /\ MaxSubmits \in Nat /\ MaxSubmits * restarts \in Nat
      /\ server.attempts \in Nat /\ Len(spool.entries) \in Nat
  BY Parts, BrainAssumption DEF BrainAssumption, McpOK, ServerType, SpoolType
<1>a. /\ Len(spool.entries) <= MaxSubmits * restarts + server.attempts
      /\ server.attempts <= MaxSubmits
  <2>1. CASE server.at = "handling"
    <3>1. Len(spool.entries) + 1 <= MaxSubmits * restarts + server.attempts BY <2>1 DEF Attempts
    <3> QED BY <1>0, <3>1 DEF Attempts
  <2>2. CASE server.at # "handling"
    <3>1. Len(spool.entries) + 0 <= MaxSubmits * restarts + server.attempts BY <2>2 DEF Attempts
    <3> QED BY <1>0, <3>1 DEF Attempts
  <2> QED BY <2>1, <2>2
<1>1. CASE UNCHANGED <<server, restarts, spool>> BY <1>1 DEF Attempts
<1>2. CASE CliSubmits
  BY <1>0, <1>2 DEF CliSubmits, client, Attempts, ServerType
<1>3. CASE CliRestartsServer
  <2>1. /\ server' = [at |-> "idle", attempts |-> 0, answer |-> "none"]
        /\ restarts' = restarts + 1 /\ spool' = spool
    BY <1>3 DEF CliRestartsServer, Idle
  <2>2. MaxSubmits * (restarts + 1) = MaxSubmits * restarts + MaxSubmits BY <1>0
  <2>3. Len(spool.entries) <= MaxSubmits * restarts + MaxSubmits BY <1>0, <1>a
  <2>4. server'.attempts = 0 /\ server'.at = "idle" BY <2>1
  <2>5. MaxSubmits * restarts' = MaxSubmits * restarts + MaxSubmits BY <2>1, <2>2
  <2> QED BY <1>0, <2>1, <2>3, <2>4, <2>5 DEF Attempts
<1>4. CASE Server
  <2>1. restarts' = restarts
    BY <1>4 DEF Server, ServerRefuses, ServerBuys, HandlerRaises, ServerSettles, ServerAnswers,
       HandlerJudges
  <2>2. CASE ServerBuys
    <3>1. /\ server'.attempts = server.attempts + 1 /\ server'.at = "handling"
          /\ server.at = "asked" /\ server.attempts < MaxSubmits /\ spool' = spool
      BY <1>0, <2>2 DEF ServerBuys, ServerType
    <3> QED BY <1>0, <2>1, <3>1 DEF Attempts
  <2>3. ASSUME NEW yes \in BOOLEAN, HandlerJudges(yes) PROVE Attempts'
    <3>1. /\ server.at = "handling" /\ server'.at = "appended" /\ server'.attempts = server.attempts
          /\ spool'.entries = Append(spool.entries, yes)
      BY <1>0, <2>3 DEF HandlerJudges, ServerType, SpoolType
    <3>2. Len(spool'.entries) = Len(spool.entries) + 1 BY <1>0, <3>1 DEF SpoolType
    <3> QED BY <1>0, <2>1, <3>1, <3>2 DEF Attempts
  <2>4. CASE ServerRefuses \/ HandlerRaises \/ ServerSettles \/ ServerAnswers
    <3>1. server' = Idle(server.attempts) \/ \E with : server' = Answer(with)
      BY <2>4 DEF ServerRefuses, HandlerRaises, ServerSettles, ServerAnswers
    <3>3. server' = Idle(server.attempts) =>
            server'.at # "handling" /\ server'.attempts = server.attempts
      BY DEF Idle
    <3>5. ASSUME NEW with, server' = Answer(with)
          PROVE  server'.at # "handling" /\ server'.attempts = server.attempts
      BY <1>0, <3>5 DEF Answer, ServerType
    <3>4. server'.at # "handling" /\ server'.attempts = server.attempts BY <3>1, <3>3, <3>5
    <3>2. spool'.entries = spool.entries
      BY <1>0, <2>4 DEF ServerRefuses, HandlerRaises, ServerSettles, ServerAnswers, SpoolType
    <3> QED BY <1>0, <1>a, <2>1, <3>2, <3>4 DEF Attempts
  <2> QED BY <1>4, <2>2, <2>3, <2>4 DEF Server
<1>5. UNCHANGED <<server, restarts, spool>> \/ CliSubmits \/ CliRestartsServer \/ Server
  BY DEF Next, Cli, Driver, CliLoadsMemory, CliSays, CliReads, CliExits, Spawn, ReadMemory,
     ReadMessage, ReadResult, StreamEnds, StopCli, CountAttempts, TakeAccepted, Decide, NoGate,
     GateAnswers, GateRaises, Draft, Render, StreamRaises, AlarmRings, AlarmStops, vars, mcp,
     afterwards
<1> QED BY <1>1, <1>2, <1>3, <1>4, <1>5

\* A message is bought up to the first call that a budget cannot pay.
LEMMA SpentKept == TypeOK /\ Spent /\ [Next]_vars => Spent'
<1> SUFFICES ASSUME TypeOK, Spent, [Next]_vars PROVE Spent'
  OBVIOUS
<1>0. /\ tool_calls \in Nat /\ submits \in Nat /\ steps \in Nat /\ MaxTurns \in Nat
      /\ open \in LineType /\ file \in FileType /\ file.steps \in Nat
      /\ CountsOK /\ FileOK /\ ClientOK
  BY Parts, BrainAssumption DEF BrainAssumption, CountsOK, FileOK, FileType
<1>1. file.steps + (IF open.live THEN 1 ELSE 0) = Closed.steps
  BY <1>0 DEF Closed, WithLine, FileType
<1>2. CASE ReadMessage
  <2> DEFINE fresh == Head(pipe).fresh
             calls == Head(pipe).calls
             n == Bought(calls)
  <2>1. Head(pipe) \in Events /\ Head(pipe).kind = "says" /\ pc = "reading"
    BY <1>0, <1>2 DEF ReadMessage, Reading, ClientOK
  <2>2. fresh \in BOOLEAN /\ calls \in Lines
    BY <2>1 DEF Events, Memory, Says, Result
  <2>3. /\ tool_calls' = tool_calls + n /\ submits' = submits + SubmitsIn(calls, n)
        /\ file' = IF fresh THEN Closed ELSE file
        /\ steps' = IF fresh THEN steps + 1 ELSE steps
        /\ open' = [(IF fresh THEN [NoLine EXCEPT !.live = TRUE] ELSE open)
                      EXCEPT !.calls = @ + n, !.submitCalls = @ + SubmitsIn(calls, n)]
        /\ pc' = "reading" => stop' = "none"
        /\ pc' # "start"
        /\ stop' = "none" => ~(fresh /\ steps' > MaxTurns)
    BY <1>2 DEF ReadMessage, NextPc, Halt
  <2>4. tool_calls' <= ToolBudget /\ submits' <= MaxSubmits
    BY <2>2, <2>3, BoughtIsPaid DEF Spent
  <2>5. open'.live = IF fresh THEN TRUE ELSE open.live
    BY <1>0, <2>3 DEF NoLine, LineType
  <2>6. file'.steps + (IF open'.live THEN 1 ELSE 0) <= steps'
    BY <1>0, <1>1, <2>3, <2>5 DEF Spent
  <2>7. steps' <= MaxTurns + 1 /\ (pc' \in {"start", "reading"} => steps' <= MaxTurns)
    BY <1>0, <2>1, <2>3 DEF Spent
  <2> QED BY <2>4, <2>6, <2>7 DEF Spent
<1>3. CASE StopCli
  <2>1. /\ file' = Closed /\ open'.live = FALSE /\ pc' = "counting"
        /\ UNCHANGED <<tool_calls, submits, steps>>
    BY <1>3 DEF StopCli, NoLine
  <2>2. file'.steps + (IF open'.live THEN 1 ELSE 0) <= steps' BY <1>0, <1>1, <2>1 DEF Spent
  <2> QED BY <1>0, <2>1, <2>2 DEF Spent
<1>4. CASE ReadResult
  <2>1. open'.live = open.live /\ UNCHANGED <<tool_calls, submits, steps, file>> /\ pc = "reading"
    BY <1>0, <1>4 DEF ReadResult, Reading, LineType
  <2> QED BY <2>1 DEF Spent
<1>5. CASE Spawn
  <2>1. /\ UNCHANGED <<tool_calls, submits, steps, open>> /\ file'.steps = file.steps
        /\ pc = "start"
    BY <1>0, <1>5 DEF Spawn, End, stepper, FileType
  <2>2. Spent' BY <1>0, <2>1 DEF Spent
  <2> QED BY <2>2
<1>6. CASE ~(ReadMessage \/ StopCli \/ ReadResult \/ Spawn)
  <2>1. /\ UNCHANGED <<tool_calls, submits, steps, open>> /\ file'.steps = file.steps
        /\ pc' \in {"start", "reading"} => pc' = pc \/ pc = "reading"
    BY <1>0, <1>6
    DEF Next, Cli, Driver, Server, CliLoadsMemory, CliSays, CliReads, CliSubmits, CliRestartsServer,
        CliExits, ServerRefuses, ServerBuys, HandlerRaises, ServerSettles, ServerAnswers,
        HandlerJudges, ReadMemory, Reading, NextPc, StreamEnds, CountAttempts, TakeAccepted, Decide,
        NoGate, GateAnswers, GateRaises, Draft, Render, StreamRaises, AlarmRings, AlarmStops, End,
        vars, driver, stepper, afterwards, FileType
  <2> QED BY <2>1 DEF Spent
<1> QED BY <1>2, <1>3, <1>4, <1>5, <1>6

\* The budgets hold from both sides: the stepper's on the trace, whatever a message asks for at
\* once, and the servers' on the attempts they answer (convert.py _buy, mcp_server.py submit).
THEOREM BudgetsAreHeld == Spec => []BudgetsHeld
<1>1. Init => Attempts /\ Spent
  BY BrainAssumption
  DEF BrainAssumption, Init, Attempts, Spent, Idle, EmptyFile, NoLine
<1>2. SInv /\ (Attempts /\ Spent) /\ [Next]_vars => (Attempts /\ Spent)'
  BY AttemptsKept, SpentKept DEF SInv
<1>3. SInv /\ (Attempts /\ Spent) => BudgetsHeld
  <2> SUFFICES ASSUME SInv, Attempts, Spent PROVE BudgetsHeld
    OBVIOUS
  <2>0. /\ restarts \in Nat /\ MaxSubmits \in Nat /\ MaxSubmits * restarts \in Nat
        /\ server.attempts \in Nat /\ Len(spool.entries) \in Nat
        /\ file.steps \in Nat /\ steps \in Nat /\ MaxTurns \in Nat
    BY Numbers DEF SInv
  <2>1. Len(spool.entries) <= MaxSubmits * restarts + server.attempts
    <3>1. CASE server.at = "handling"
      <4>1. Len(spool.entries) + 1 <= MaxSubmits * restarts + server.attempts BY <3>1 DEF Attempts
      <4> QED BY <2>0, <4>1
    <3>2. CASE server.at # "handling"
      <4>1. Len(spool.entries) + 0 <= MaxSubmits * restarts + server.attempts BY <3>2 DEF Attempts
      <4> QED BY <2>0, <4>1
    <3> QED BY <3>1, <3>2
  <2>2. MaxSubmits * (restarts + 1) = MaxSubmits * restarts + MaxSubmits BY <2>0
  <2>3. Len(spool.entries) <= MaxSubmits * (restarts + 1) BY <2>0, <2>1, <2>2 DEF Attempts
  <2>4. file.steps <= MaxTurns + 1 BY <2>0 DEF Spent
  <2> QED BY <2>3, <2>4 DEF BudgetsHeld, Spent
<1> QED BY <1>1, <1>2, <1>3, SpoolInvariant, PTL DEF Spec
-----------------------------------------------------------------------------
(* The contract of a run *)

\* Where a run is on its way from the spool to the folder, and which checkpoint is on file there.
Finishing ==
  /\ pc \in {"start", "reading", "stopping", "counting", "taking"} => signed = 0
  /\ pc \in {"gate", "draft", "render"} => signed # 0
  /\ pc \notin {"draft", "render", "done"} => file.approvals = 0 /\ file.refusals = 0
  /\ pc = "render" => (arm = "advanced" => file.approvals > 0)
  /\ pc = "draft" => file.approvals = 0 /\ file.refusals > 0

\* A line leaves the checkpoints alone and adds itself, or nothing.
LEMMA ClosedMoves ==
  ASSUME FileOK, CountsOK
  PROVE  /\ Closed.steps \in {file.steps, file.steps + 1}
         /\ Closed.approvals = file.approvals /\ Closed.refusals = file.refusals
  BY DEF Closed, WithLine, FileOK, FileType

\* run_end is no step line and no checkpoint.
LEMMA EndMoves ==
  ASSUME FileOK, NEW why, End(why)
  PROVE  /\ file'.steps = file.steps /\ Gate' = Gate /\ outcome' = why /\ pc' = "done"
         /\ file'.approvals = file.approvals /\ file'.refusals = file.refusals
  BY DEF End, FileOK, FileType, Gate

\* A checkpoint is one verdict and no step line.
LEMMA CheckpointMoves ==
  ASSUME FileOK, GateAnswers
  PROVE  /\ file'.steps = file.steps
         /\ \/ /\ file'.approvals = file.approvals + 1 /\ file'.refusals = file.refusals
               /\ pc' = "render"
            \/ /\ file'.approvals = file.approvals /\ file'.refusals = file.refusals + 1
               /\ pc' = "draft"
  BY DEF GateAnswers, FileOK, FileType

\* The steps of which the contract sees nothing of the finish.
Elsewhere == \/ Cli \/ Server \/ ReadMemory \/ ReadResult \/ StreamEnds \/ CountAttempts \/ NoGate
             \/ AlarmRings \/ AlarmStops \/ UNCHANGED vars

\* They leave the trace, the signature and the folder as they are.
LEMMA ElsewhereKeeps ==
  Elsewhere => UNCHANGED <<arm, file, signed, disk, outcome>>
  BY DEF Elsewhere, Cli, CliLoadsMemory, CliSays, CliReads, CliSubmits, CliRestartsServer, CliExits,
     Server, ServerRefuses, ServerBuys, HandlerRaises, ServerSettles, ServerAnswers, HandlerJudges,
     ReadMemory, ReadResult, StreamEnds, CountAttempts, NoGate, AlarmRings, AlarmStops, vars, driver,
     afterwards

\* They take the driver at most one place on.
LEMMA ElsewherePc ==
  Elsewhere => \/ pc' = pc
               \/ pc = "reading" /\ pc' \in {"reading", "stopping"}
               \/ pc = "counting" /\ pc' = "taking"
               \/ pc = "gate" /\ pc' = "render" /\ arm = "baseline"
  BY DEF Elsewhere, Cli, CliLoadsMemory, CliSays, CliReads, CliSubmits, CliRestartsServer, CliExits,
     Server, ServerRefuses, ServerBuys, HandlerRaises, ServerSettles, ServerAnswers, HandlerJudges,
     ReadMemory, ReadResult, StreamEnds, CountAttempts, NoGate, AlarmRings, AlarmStops, vars, driver,
     Reading, NextPc

\* The others, one by one.
LEMMA NextCases ==
  ASSUME [Next]_vars
  PROVE  \/ Elsewhere \/ Spawn \/ ReadMessage \/ StopCli \/ TakeAccepted \/ Decide
         \/ GateAnswers \/ GateRaises \/ Draft \/ Render \/ StreamRaises
  BY DEF Next, Driver, Elsewhere

\* Every step keeps the finish in its order.
LEMMA FinishingKept == TypeOK /\ Finishing /\ [Next]_vars => Finishing'
<1> SUFFICES ASSUME TypeOK, Finishing, [Next]_vars PROVE Finishing'
  OBVIOUS
<1>0. FileOK /\ CountsOK /\ file.approvals \in Nat /\ file.refusals \in Nat
  BY Parts DEF FileOK, FileType
<1>a. ASSUME pc' = "done" PROVE Finishing' BY <1>a DEF Finishing
<1>1. CASE Elsewhere
  <2>1. arm' = arm /\ file' = file /\ signed' = signed BY <1>1, ElsewhereKeeps
  <2> QED BY <1>1, <2>1, ElsewherePc DEF Finishing
<1>2. CASE Spawn
  <2>1. pc' = "done" \/ (pc = "start" /\ pc' = "reading" /\ UNCHANGED <<file, arm, signed>>)
    BY <1>2 DEF Spawn, End
  <2> QED BY <1>a, <2>1 DEF Finishing
<1>3. CASE ReadMessage
  <2>1. /\ pc = "reading" /\ pc' \in {"reading", "stopping"} /\ signed' = signed
        /\ file' = Closed \/ file' = file
    BY <1>3 DEF ReadMessage, Reading, NextPc
  <2>2. file'.approvals = file.approvals /\ file'.refusals = file.refusals
    BY <1>0, <2>1, ClosedMoves
  <2> QED BY <2>1, <2>2 DEF Finishing
<1>4. CASE StopCli
  <2>1. /\ pc = "stopping" /\ pc' = "counting" /\ signed' = signed /\ file' = Closed
    BY <1>4 DEF StopCli
  <2>2. file'.approvals = file.approvals /\ file'.refusals = file.refusals
    BY <1>0, <2>1, ClosedMoves
  <2> QED BY <2>1, <2>2 DEF Finishing
<1>5. CASE TakeAccepted BY <1>5 DEF TakeAccepted, Finishing
<1>6. CASE Decide
  <2>1. pc' = "done" \/ /\ pc = "deciding" /\ pc' = "gate" /\ signed # 0
                        /\ UNCHANGED <<file, signed>>
    BY <1>6 DEF Decide, End
  <2> QED BY <1>a, <2>1 DEF Finishing
<1>7. CASE GateAnswers
  <2>1. pc = "gate" /\ arm' = arm /\ signed' = signed BY <1>7 DEF GateAnswers, afterwards
  <2>2. signed # 0 /\ file.approvals = 0 /\ file.refusals = 0 BY <2>1 DEF Finishing
  <2> QED BY <1>0, <1>7, <2>1, <2>2, CheckpointMoves DEF Finishing
<1>8. CASE GateRaises \/ Draft \/ Render \/ StreamRaises
  BY <1>8, <1>a DEF GateRaises, Draft, Render, StreamRaises, End
<1> QED BY <1>1, <1>2, <1>3, <1>4, <1>5, <1>6, <1>7, <1>8, NextCases

LEMMA ContractInit == Init => Contract!Init
  BY DEF Init, EmptyFile, Gate, Contract!Init

\* Every step of the four processes is a step of the contract or none.
LEMMA ContractStep ==
  ASSUME SInv, Finishing, [Next]_vars
  PROVE  [Contract!Next]_(Contract!vars)
<1>0. /\ FileOK /\ CountsOK /\ file.approvals \in Nat /\ file.refusals \in Nat
      /\ stop \in Stops \cup {"none"}
  BY Parts DEF SInv, FileOK, FileType, OutsideOK
<1>open. outcome = "none" <=> pc # "done"
  BY DEF SInv, Taken, Over
<1>early. pc \notin {"draft", "render", "done"} => Gate = "none"
  BY <1>0 DEF Finishing, Gate
<1>1. ASSUME UNCHANGED <<arm, signed, disk, outcome>>, file'.steps = file.steps, Gate' = Gate
      PROVE  [Contract!Next]_(Contract!vars)
  BY <1>1 DEF Contract!vars
<1>2. ASSUME UNCHANGED <<arm, signed, disk, outcome>>, pc \in {"reading", "stopping"},
             file' = Closed
      PROVE  [Contract!Next]_(Contract!vars)
  <2>1. file'.steps \in {file.steps, file.steps + 1} /\ Gate' = Gate
    BY <1>0, <1>2, ClosedMoves DEF Gate
  <2>2. Gate = "none" /\ outcome = "none" BY <1>2, <1>early, <1>open
  <2>3. CASE file'.steps = file.steps BY <1>1, <1>2, <2>1, <2>3
  <2>4. CASE file'.steps = file.steps + 1
    <3>1. Contract!StepLine BY <1>2, <2>1, <2>2, <2>4 DEF Contract!StepLine, Contract!Open
    <3> QED BY <3>1 DEF Contract!Next
  <2> QED BY <2>1, <2>3, <2>4
\* Endings in front of the gate, and the raise that may come anywhere.
<1>3. ASSUME NEW why \in Stops \cup {"no_submission"}, End(why), pc # "done",
             UNCHANGED <<arm, signed, disk>>, why # "api_error" => Gate = "none"
      PROVE  [Contract!Next]_(Contract!vars)
  <2>1. file'.steps = file.steps /\ Gate' = Gate /\ outcome' = why /\ outcome = "none"
    BY <1>0, <1>3, <1>open, EndMoves
  <2>2. \/ Contract!GiveUp(why)
        \/ Contract!Publish(why) /\ file'.steps = file.steps
    BY <1>3, <2>1 DEF Contract!GiveUp, Contract!Publish, Stops
  <2>3. Contract!End(why) BY <1>3, <2>1, <2>2 DEF Contract!End, Contract!Open
  <2>4. why \in Contract!Endings BY DEF Contract!Endings, Stops
  <2> QED BY <2>3, <2>4 DEF Contract!Next
<1>4. CASE Elsewhere BY <1>1, <1>4, ElsewhereKeeps DEF Gate
<1>5. CASE Spawn
  <2>1. /\ pc = "start" /\ UNCHANGED <<arm, signed, disk>>
        /\ End("api_error") \/ UNCHANGED <<file, outcome>>
    BY <1>5 DEF Spawn
  <2> QED BY <1>1, <1>3, <2>1 DEF Gate, Stops
<1>6. CASE ReadMessage
  <2>1. /\ pc = "reading" /\ UNCHANGED <<arm, signed, disk, outcome>>
        /\ file' = Closed \/ file' = file
    BY <1>6 DEF ReadMessage, Reading
  <2> QED BY <1>1, <1>2, <2>1 DEF Gate
<1>7. CASE StopCli
  <2>1. pc = "stopping" /\ UNCHANGED <<arm, signed, disk, outcome>> /\ file' = Closed
    BY <1>7 DEF StopCli
  <2> QED BY <1>2, <2>1
<1>8. CASE TakeAccepted
  <2>1. pc = "taking" /\ UNCHANGED <<arm, file, disk, outcome>> BY <1>8 DEF TakeAccepted, afterwards
  <2>2. signed = 0 /\ Gate = "none" /\ outcome = "none" /\ Gate' = Gate
    BY <1>early, <1>open, <2>1 DEF Finishing, Gate
  <2>3. CASE signed' = 0 BY <1>1, <2>1, <2>2, <2>3
  <2>4. CASE signed' # 0
    <3>1. Contract!AcceptRecord BY <2>1, <2>2, <2>4 DEF Contract!AcceptRecord, Contract!Open
    <3> QED BY <3>1 DEF Contract!Next
  <2> QED BY <2>3, <2>4
<1>9. CASE Decide
  <2>1. /\ pc = "deciding" /\ UNCHANGED <<arm, signed, disk>>
    BY <1>9 DEF Decide, afterwards
  <2>2. \/ UNCHANGED <<file, outcome>>
        \/ End(IF stop # "none" THEN stop
               ELSE IF cli # "exit 0" THEN "api_error"
               ELSE IF attempts >= MaxSubmits THEN "max_submits" ELSE "no_submission")
    BY <1>9 DEF Decide
  <2>3. CASE UNCHANGED <<file, outcome>> BY <1>1, <2>1, <2>3 DEF Gate
  <2>4. CASE \E why \in Stops \cup {"no_submission"} : End(why)
    BY <1>3, <1>early, <2>1, <2>4
  <2>5. (IF stop # "none" THEN stop
         ELSE IF cli # "exit 0" THEN "api_error"
         ELSE IF attempts >= MaxSubmits THEN "max_submits" ELSE "no_submission")
          \in Stops \cup {"no_submission"}
    BY <1>0 DEF Stops
  <2> QED BY <2>2, <2>3, <2>4, <2>5
<1>10. CASE GateAnswers
  <2>1. /\ pc = "gate" /\ arm = "advanced" /\ UNCHANGED <<arm, signed, disk, outcome>>
    BY <1>10 DEF GateAnswers, afterwards
  <2>2. /\ signed # 0 /\ file.approvals = 0 /\ file.refusals = 0
        /\ Gate = "none" /\ outcome = "none"
    BY <1>early, <1>open, <2>1 DEF Finishing
  <2>3. file'.steps = file.steps /\ \E decision \in {"approved", "rejected"} : Gate' = decision
    BY <1>0, <1>10, <2>2, CheckpointMoves DEF Gate
  <2>4. PICK decision \in {"approved", "rejected"} : Gate' = decision BY <2>3
  <2>5. Contract!Checkpoint(decision)
    BY <2>1, <2>2, <2>3, <2>4 DEF Contract!Checkpoint, Contract!Open
  <2> QED BY <2>5 DEF Contract!Next
<1>11. CASE GateRaises \/ StreamRaises
  <2>1. /\ pc \in {"gate", "reading"} /\ End("api_error") /\ UNCHANGED <<arm, signed, disk>>
    BY <1>11 DEF GateRaises, StreamRaises, afterwards
  <2> QED BY <1>3, <2>1 DEF Stops
<1>12. CASE Draft
  <2>1. /\ pc = "draft" /\ UNCHANGED <<arm, signed>>
        /\ \/ disk' = "draft" /\ End("gate_rejected")
           \/ disk' = disk /\ End("api_error")
    BY <1>12 DEF Draft, afterwards
  <2>2. CASE disk' = disk /\ End("api_error") BY <1>3, <2>1, <2>2 DEF Stops
  <2>3. CASE disk' = "draft" /\ End("gate_rejected")
    <3>1. /\ Gate = "rejected" /\ Gate' = Gate /\ file'.steps = file.steps
          /\ outcome' = "gate_rejected" /\ outcome = "none"
      BY <1>0, <1>open, <2>1, <2>3, EndMoves DEF Finishing, Gate
    <3>2. Contract!End("gate_rejected")
      BY <2>1, <2>3, <3>1 DEF Contract!End, Contract!Open, Contract!Publish
    <3> QED BY <3>2 DEF Contract!Next, Contract!Endings
  <2> QED BY <2>1, <2>2, <2>3
<1>13. CASE Render
  <2>1. /\ pc = "render" /\ UNCHANGED <<arm, signed>>
        /\ \/ disk' = "documents" /\ (End("accepted") \/ End("api_error"))
           \/ disk' = "json" /\ (End("render_failed") \/ End("api_error"))
           \/ disk' = disk /\ End("api_error")
    BY <1>13 DEF Render, afterwards
  <2>2. CASE disk' = disk /\ End("api_error") BY <1>3, <2>1, <2>2 DEF Stops
  <2>3. ASSUME NEW why \in {"accepted", "render_failed", "api_error"}, End(why),
               \/ disk' = "documents" /\ why \in {"accepted", "api_error"}
               \/ disk' = "json" /\ why \in {"render_failed", "api_error"}
        PROVE  [Contract!Next]_(Contract!vars)
    <3>1. Gate' = Gate /\ file'.steps = file.steps /\ outcome' = why /\ outcome = "none"
      BY <1>0, <1>open, <2>1, <2>3, EndMoves
    <3>2. Contract!Cleared
      BY <1>0, <2>1 DEF Finishing, Gate, Contract!Cleared
    <3>3. Contract!Publish(why) BY <2>3, <3>2 DEF Contract!Publish
    <3>4. Contract!End(why) BY <2>1, <3>1, <3>3 DEF Contract!End, Contract!Open
    <3> QED BY <3>4 DEF Contract!Next, Contract!Endings
  <2> QED BY <2>1, <2>2, <2>3
<1> QED
  BY <1>4, <1>5, <1>6, <1>7, <1>8, <1>9, <1>10, <1>11, <1>12, <1>13, NextCases

LEMMA FinishInvariant == Spec => [](SInv /\ Finishing)
<1>1. Init => Finishing BY DEF Init, EmptyFile, Finishing
<1>2. (TypeOK /\ Finishing) /\ [Next]_vars => Finishing' BY FinishingKept
<1>3. SInv => TypeOK BY DEF SInv
<1> QED BY <1>1, <1>2, <1>3, SpoolInvariant, PTL DEF Spec

\* A run on a local CLI keeps the contract that the API loop keeps, for any budgets, any stream,
\* any number of servers and a timer at any moment (driver.py run, _spawn, _outcome, _finish).
THEOREM BrainKeepsContract == Spec => ImplementsContract
<1>1. SInv /\ Finishing /\ [Next]_vars => [Contract!Next]_(Contract!vars) BY ContractStep
<1> QED BY <1>1, ContractInit, FinishInvariant, PTL DEF Spec, ImplementsContract, Contract!Spec
-----------------------------------------------------------------------------
(* The lines and the totals *)

\* What one line of the stream does to the number of calls that wait for their result.
Adds(event, before, after) ==
  /\ event.kind = "memory" => after = before
  /\ event.kind = "says" => /\ after = before + Len(event.calls)
                            /\ event.fresh => before = 0
  /\ event.kind = "result" => after = before - 1

\* The calls that wait, counted through the pipe: from those of the open step, which the driver
\* knows of, to those of the CLI, which is ahead of it.
Balanced(b) ==
  /\ b[0] = open.calls - open.answered
  /\ b[Len(pipe)] = Len(asked)
  /\ \A k \in DOMAIN pipe : Adds(pipe[k], b[k - 1], b[k])

Joins(event) == event.kind = "says" /\ ~event.fresh
Begins(event) == event.kind = "says" /\ event.fresh

\* A message has begun before the k-th line of the pipe is over.
Begun(k) == open.live \/ \E j \in 1..k : Begins(pipe[j])

\* While it reads, the driver has bought every call it has read of, and is behind the CLI by
\* what is in the pipe.
InStep ==
  pc \in {"start", "reading"} =>
    /\ \E b \in [0..Len(pipe) -> 0..MaxBatch] : Balanced(b)
    /\ \A k \in DOMAIN pipe : Joins(pipe[k]) => Begun(k - 1)
    /\ speaking \/ asked # <<>> => Begun(Len(pipe))

\* The file and the open step hold what the counters say, and only the last line may owe a result.
Lined ==
  ~raised =>
    /\ file.ends = IF pc = "done" THEN 1 ELSE 0
    /\ file.steps + (IF open.live THEN 1 ELSE 0) = steps
    /\ file.calls + open.calls = tool_calls
    /\ file.submitCalls + open.submitCalls = submits
    /\ file.owedBefore = 0
    /\ pc \in {"start", "reading", "stopping"} => file.owedLast = 0
    /\ ~open.live => open.calls = 0 /\ open.submitCalls = 0 /\ open.answered = 0
    /\ pc \notin {"reading", "stopping"} => ~open.live

\* The CLI prints a line: the count goes on at the end of the pipe.
LEMMA PrintsInStep ==
  ASSUME ClientOK, CountsOK, InStep, NEW e \in Events, Emits(e),
         open' = open, pc' = pc,
         Adds(e, Len(asked), Len(asked')), Len(asked') \in 0..MaxBatch,
         Joins(e) => speaking,
         speaking' \/ asked' # <<>> => speaking \/ asked # <<>> \/ Begins(e)
  PROVE  InStep'
<1> SUFFICES ASSUME pc \in {"start", "reading"} PROVE InStep'
  BY DEF InStep
<1> PICK n \in Nat : n = Len(pipe) BY DEF ClientOK
<1> DEFINE last == Len(asked')
<1>0. /\ pipe \in Seq(Events) /\ n \in Nat /\ pipe' = Append(pipe, e) /\ Len(pipe') = n + 1
      /\ DOMAIN pipe' = 1..(n + 1) /\ DOMAIN pipe = 1..n
      /\ pipe'[n + 1] = e /\ \A k \in 1..n : pipe'[k] = pipe[k]
  BY DEF ClientOK, Emits
<1>1. PICK b \in [0..n -> 0..MaxBatch] : Balanced(b) BY DEF InStep
<1> HIDE DEF last
<1>2. \E c \in [0..(n + 1) -> 0..MaxBatch] : c[n + 1] = last /\ \A k \in 0..n : c[k] = b[k]
  <2> DEFINE c == [k \in 0..(n + 1) |-> IF k <= n THEN b[k] ELSE last]
  <2>1. \A k \in 0..(n + 1) : k <= n => k \in 0..n BY <1>0
  <2>2. \A k \in 0..(n + 1) : (IF k <= n THEN b[k] ELSE last) \in 0..MaxBatch BY <2>1 DEF last
  <2>3. c \in [0..(n + 1) -> 0..MaxBatch] BY <2>2
  <2>4. c[n + 1] = last /\ \A k \in 0..n : c[k] = b[k] BY <1>0
  <2> QED BY <2>3, <2>4
<1>3. PICK c \in [0..(n + 1) -> 0..MaxBatch] : c[n + 1] = last /\ \A k \in 0..n : c[k] = b[k]
  BY <1>2
<1>4. Balanced(c)'
  <2>1. c[0] = (open.calls - open.answered)' BY <1>0, <1>1, <1>3 DEF Balanced
  <2>2. c[Len(pipe')] = Len(asked') BY <1>0, <1>3 DEF last
  <2>3. ASSUME NEW k \in 1..(n + 1) PROVE Adds(pipe'[k], c[k - 1], c[k])
    <3>1. CASE k \in 1..n
      <4>1. k - 1 \in 0..n /\ k \in 0..n BY <1>0, <3>1
      <4>2. c[k - 1] = b[k - 1] /\ c[k] = b[k] /\ pipe'[k] = pipe[k] BY <1>0, <1>3, <3>1, <4>1
      <4>3. Adds(pipe[k], b[k - 1], b[k]) BY <1>0, <1>1, <3>1 DEF Balanced
      <4> QED BY <4>2, <4>3
    <3>2. CASE k = n + 1
      <4>1. k - 1 = n /\ n \in 0..n BY <1>0, <3>2
      <4>2. c[k - 1] = Len(asked) BY <1>1, <1>3, <4>1 DEF Balanced
      <4> QED BY <1>0, <1>3, <3>2, <4>2 DEF last
    <3> QED BY <1>0, <3>1, <3>2
  <2> QED BY <1>0, <2>1, <2>2, <2>3 DEF Balanced
<1>5. \A k \in 0..n : Begun(k) => Begun(k)' BY <1>0 DEF Begun
<1>6. Begun(n) => Begun(n + 1)' BY <1>0 DEF Begun
<1>7. Begins(e) => Begun(n + 1)' BY <1>0 DEF Begun
<1>8. ASSUME NEW k \in DOMAIN pipe', Joins(pipe'[k]) PROVE Begun(k - 1)'
  <2>1. CASE k \in 1..n
    <3>1. Begun(k - 1) /\ k - 1 \in 0..n BY <1>0, <1>8, <2>1 DEF InStep
    <3> QED BY <1>5, <3>1
  <2>2. CASE k = n + 1
    <3>1. Begun(n) /\ k - 1 = n BY <1>0, <1>8, <2>2 DEF InStep
    <3> QED BY <1>0, <1>5, <3>1
  <2> QED BY <1>0, <2>1, <2>2
<1>9. speaking' \/ asked' # <<>> => Begun(Len(pipe))'
  <2>1. speaking \/ asked # <<>> => Begun(n) BY DEF InStep
  <2>2. speaking' \/ asked' # <<>> => Begun(n) \/ Begins(e) BY <2>1
  <2>3. speaking' \/ asked' # <<>> => Begun(n + 1)' BY <1>6, <1>7, <2>2
  <2>4. Len(pipe') = n + 1 BY <1>0
  <2> QED BY <2>3, <2>4
<1> QED BY <1>0, <1>3, <1>4, <1>8, <1>9 DEF InStep

\* The driver reads a line: the count begins one later.
LEMMA ReadsInStep ==
  ASSUME ClientOK, InStep, pc = "reading", pipe # <<>>, pipe' = Tail(pipe),
         asked' = asked, speaking' = speaking,
         \A after : Adds(Head(pipe), open.calls - open.answered, after)
                      => open'.calls - open'.answered = after,
         open.live \/ Begins(Head(pipe)) => open'.live
  PROVE  InStep'
<1> DEFINE n == Len(pipe) - 1
<1>0. /\ n \in Nat /\ Len(pipe') = n /\ Len(pipe) = n + 1 /\ DOMAIN pipe' = 1..n
      /\ DOMAIN pipe = 1..(n + 1) /\ \A k \in 1..n : pipe'[k] = pipe[k + 1]
      /\ Head(pipe) = pipe[1] /\ 1 \in DOMAIN pipe
  BY DEF ClientOK
<1>1. PICK b \in [0..Len(pipe) -> 0..MaxBatch] : Balanced(b) BY DEF InStep
<1>2. \E c \in [0..n -> 0..MaxBatch] : \A k \in 0..n : c[k] = b[k + 1]
  <2> DEFINE c == [k \in 0..n |-> b[k + 1]]
  <2>1. \A k \in 0..n : k + 1 \in 0..Len(pipe) BY <1>0
  <2>2. c \in [0..n -> 0..MaxBatch] BY <2>1
  <2> QED BY <2>2
<1>3. PICK c \in [0..n -> 0..MaxBatch] : \A k \in 0..n : c[k] = b[k + 1] BY <1>2
<1>4. Balanced(c)'
  <2>1. c[0] = (open.calls - open.answered)'
    <3>1. Adds(pipe[1], b[1 - 1], b[1]) BY <1>0, <1>1 DEF Balanced
    <3>2. Adds(Head(pipe), open.calls - open.answered, b[1])
      BY <1>0, <1>1, <3>1 DEF Balanced
    <3>3. c[0] = b[1] BY <1>0, <1>3
    <3> QED BY <3>2, <3>3
  <2>2. c[Len(pipe')] = Len(asked') BY <1>0, <1>1, <1>3 DEF Balanced
  <2>3. ASSUME NEW k \in 1..n PROVE Adds(pipe'[k], c[k - 1], c[k])
    <3>1. k + 1 \in DOMAIN pipe /\ k - 1 \in 0..n /\ k \in 0..n BY <1>0
    <3>2. Adds(pipe[k + 1], b[(k + 1) - 1], b[k + 1]) BY <1>1, <3>1 DEF Balanced
    <3>3. c[k - 1] = b[(k + 1) - 1] /\ c[k] = b[k + 1] /\ pipe'[k] = pipe[k + 1]
      BY <1>0, <1>3, <3>1
    <3> QED BY <3>2, <3>3
  <2> QED BY <1>0, <2>1, <2>2, <2>3 DEF Balanced
<1>5. ASSUME NEW k \in 0..n, Begun(k + 1) PROVE Begun(k)'
  <2>1. CASE open.live BY <2>1 DEF Begun
  <2>2. CASE ~open.live
    <3>1. PICK j \in 1..(k + 1) : Begins(pipe[j]) BY <1>5, <2>2 DEF Begun
    <3>2. CASE j = 1 BY <1>0, <3>1, <3>2 DEF Begun
    <3>3. CASE j # 1
      <4>1. j - 1 \in 1..k /\ j - 1 \in 1..n BY <1>0, <3>3
      <4>2. pipe'[j - 1] = pipe[j] BY <1>0, <4>1
      <4> QED BY <3>1, <4>1, <4>2 DEF Begun
    <3> QED BY <3>2, <3>3
  <2> QED BY <2>1, <2>2
<1>8. ASSUME NEW k \in DOMAIN pipe', Joins(pipe'[k]) PROVE Begun(k - 1)'
  <2>1. k \in 1..n /\ k + 1 \in DOMAIN pipe /\ Joins(pipe[k + 1]) BY <1>0, <1>8
  <2>2. Begun((k + 1) - 1) BY <2>1 DEF InStep
  <2>3. k - 1 \in 0..n /\ (k - 1) + 1 = (k + 1) - 1 BY <1>0, <2>1
  <2> QED BY <1>5, <2>2, <2>3
<1>9. speaking' \/ asked' # <<>> => Begun(Len(pipe))'
  <2>1. speaking' \/ asked' # <<>> => Begun(n + 1) BY <1>0 DEF InStep
  <2>2. n \in 0..n BY <1>0
  <2> QED BY <1>0, <1>5, <2>1, <2>2
<1> QED BY <1>0, <1>3, <1>4, <1>8, <1>9 DEF InStep

\* Before a message begins every call of the last has its result; what joins one, or answers
\* one, finds it begun.
LEMMA HeadInStep ==
  ASSUME ClientOK, CountsOK, InStep, pc = "reading", pipe # <<>>
  PROVE  /\ Begins(Head(pipe)) => open.calls = open.answered
         /\ Joins(Head(pipe)) => open.live
         /\ Head(pipe).kind = "result" => open.calls - open.answered > 0
<1>0. 1 \in DOMAIN pipe /\ Head(pipe) = pipe[1] /\ Len(pipe) \in Nat /\ Len(pipe) >= 1
  BY DEF ClientOK
<1>1. PICK b \in [0..Len(pipe) -> 0..MaxBatch] : Balanced(b) BY DEF InStep
<1>2. /\ b[0] = open.calls - open.answered /\ Adds(pipe[1], b[0], b[1])
      /\ b[0] \in 0..MaxBatch /\ b[1] \in 0..MaxBatch
  <2>1. Adds(pipe[1], b[1 - 1], b[1]) BY <1>0, <1>1 DEF Balanced
  <2>2. 0 \in 0..Len(pipe) /\ 1 \in 0..Len(pipe) BY <1>0
  <2> QED BY <1>1, <2>1, <2>2 DEF Balanced
<1>3. open.calls \in Nat /\ open.answered \in Nat BY DEF CountsOK, LineType
<1>4. Begins(Head(pipe)) => open.calls = open.answered BY <1>0, <1>2, <1>3 DEF Adds, Begins
<1>5. Joins(Head(pipe)) => open.live
  <2>1. Joins(Head(pipe)) => Begun(1 - 1) BY <1>0 DEF InStep
  <2> QED BY <2>1 DEF Begun
<1>6. Head(pipe).kind = "result" => open.calls - open.answered > 0
  <2>1. MaxBatch \in Nat BY BrainAssumption DEF BrainAssumption
  <2> QED BY <1>0, <1>2, <2>1 DEF Adds
<1> QED BY <1>4, <1>5, <1>6

\* A CLI has never more calls open than a message may hold.
LEMMA AskedBound ==
  ASSUME ClientOK, InStep, pc \in {"start", "reading"}
  PROVE  Len(asked) \in 0..MaxBatch
<1>1. PICK b \in [0..Len(pipe) -> 0..MaxBatch] : Balanced(b) BY DEF InStep
<1>2. Len(pipe) \in 0..Len(pipe) BY DEF ClientOK
<1> QED BY <1>1, <1>2 DEF Balanced

\* The oldest call gets its result: one call less waits.
LEMMA ResultInStep ==
  ASSUME ClientOK, CountsOK, InStep, open' = open, pc' = pc, pc \in {"start", "reading"},
         NEW r \in BOOLEAN, Emits(Result(r)),
         asked # <<>>, asked' = Tail(asked), speaking' = (asked' # <<>>)
  PROVE  InStep'
<1>1. Len(asked') = Len(asked) - 1 /\ Len(asked) \in Nat /\ Len(asked) >= 1 BY DEF ClientOK
<1>2. Len(asked') \in 0..MaxBatch
  <2>1. Len(asked) \in 0..MaxBatch BY AskedBound
  <2> QED BY <1>1, <2>1, BrainAssumption DEF BrainAssumption
<1>3. Adds(Result(r), Len(asked), Len(asked')) BY <1>1 DEF Adds, Result
<1>4. Result(r) \in Events BY EventTypes
<1>5. ~Joins(Result(r)) BY DEF Joins, Result
<1> QED BY <1>2, <1>3, <1>4, <1>5, PrintsInStep

\* Whatever the CLI prints, the count goes on.
LEMMA CliInStep ==
  ASSUME TypeOK, Waiting, InStep, Cli, pc \in {"start", "reading"}
  PROVE  InStep'
<1>0. ClientOK /\ CountsOK /\ pc' = pc /\ open' = open
  <2>1. UNCHANGED <<driver, stepper>>
    BY DEF Cli, CliLoadsMemory, CliSays, CliReads, CliSubmits, CliRestartsServer, CliExits, driver
  <2> QED BY <2>1, Parts DEF driver, stepper
<1>1. CASE CliLoadsMemory
  <2>1. /\ Emits(Memory) /\ asked' = asked /\ speaking' = speaking BY <1>1 DEF CliLoadsMemory
  <2>2. Len(asked') \in 0..MaxBatch BY <1>0, <2>1, AskedBound
  <2>3. Adds(Memory, Len(asked), Len(asked')) /\ ~Joins(Memory) BY <2>1 DEF Adds, Memory, Joins
  <2> QED BY <1>0, <2>1, <2>2, <2>3, EventTypes, PrintsInStep
<1>2. ASSUME NEW fresh \in BOOLEAN, NEW calls \in Lines, CliSays(fresh, calls) PROVE InStep'
  <2>1. /\ Emits(Says(fresh, calls)) /\ asked' = asked \o calls
        /\ IF fresh THEN asked = <<>> ELSE speaking
        /\ Len(asked) + Len(calls) <= MaxBatch
    BY <1>2 DEF CliSays
  <2>2. /\ Len(asked') = Len(asked) + Len(calls) /\ Len(asked) \in Nat /\ Len(calls) \in Nat
        /\ asked = <<>> => Len(asked) = 0
    BY <1>0, <2>1, LineOfCalls DEF ClientOK
  <2>3. Len(asked') \in 0..MaxBatch BY <2>1, <2>2, BrainAssumption DEF BrainAssumption
  <2>4. Adds(Says(fresh, calls), Len(asked), Len(asked')) BY <2>1, <2>2 DEF Adds, Says
  <2>5. /\ Joins(Says(fresh, calls)) => speaking
        /\ speaking \/ Begins(Says(fresh, calls))
    BY <2>1 DEF Joins, Begins, Says
  <2> QED BY <1>0, <2>1, <2>3, <2>4, <2>5, EventTypes, PrintsInStep
<1>3. CASE CliReads BY <1>0, <1>3, ResultInStep DEF CliReads
<1>4. CASE CliSubmits \/ CliExits
  <2>1. UNCHANGED client BY <1>4 DEF CliSubmits, CliExits
  <2> QED BY <1>0, <2>1 DEF client, InStep, Balanced, Begun
<1>5. CASE CliRestartsServer BY <1>0, <1>5, ResultInStep DEF CliRestartsServer, Waiting
<1> QED BY <1>1, <1>2, <1>3, <1>4, <1>5 DEF Cli

\* Reading goes on only when all the calls of a message were bought.
LEMMA MessageInStep ==
  ASSUME TypeOK, InStep, ReadMessage, pc' = "reading"
  PROVE  InStep'
<1> DEFINE calls == Head(pipe).calls
           fresh == Head(pipe).fresh
<1>0. ClientOK /\ CountsOK /\ pc = "reading" /\ pipe # <<>> /\ pipe' = Tail(pipe)
  BY Parts DEF ReadMessage, Reading
<1>1. Head(pipe).kind = "says" /\ calls \in Lines /\ fresh \in BOOLEAN
  <2>1. Head(pipe) \in Events /\ Head(pipe).kind = "says"
    BY <1>0 DEF ReadMessage, ClientOK
  <2> QED BY <2>1 DEF Events, Memory, Says, Result
<1>2. Bought(calls) = Len(calls)
  <2>1. stop' = "none" BY DEF ReadMessage, NextPc
  <2>2. stop' = Halt(IF fresh /\ (IF fresh THEN steps + 1 ELSE steps) > MaxTurns
                     THEN "budget_exhausted" ELSE WhyNotAll(calls))
    BY DEF ReadMessage
  <2>3. WhyNotAll(calls) = "none" BY <2>1, <2>2 DEF Halt
  <2> QED BY <2>3 DEF WhyNotAll
<1>3. /\ asked' = asked /\ speaking' = speaking
      /\ open' = [(IF fresh THEN [NoLine EXCEPT !.live = TRUE] ELSE open)
                    EXCEPT !.calls = @ + Len(calls),
                           !.submitCalls = @ + SubmitsIn(calls, Len(calls))]
  BY <1>2 DEF ReadMessage
<1>4. Len(calls) \in Nat /\ open \in LineType BY <1>0, <1>1, LineOfCalls DEF CountsOK
<1> HIDE DEF calls, fresh
<1>5. CASE fresh
  <2>1. open'.calls = Len(calls) /\ open'.answered = 0 /\ open'.live
    BY <1>3, <1>4, <1>5 DEF NoLine
  <2>2. open.calls - open.answered \in Int BY <1>4 DEF LineType
  <2>3. \A after : Adds(Head(pipe), open.calls - open.answered, after)
                      => open'.calls - open'.answered = after
    BY <1>1, <1>4, <1>5, <2>1, <2>2 DEF Adds, calls, fresh
  <2> QED BY <1>0, <1>3, <2>1, <2>3, ReadsInStep
<1>6. CASE ~fresh
  <2>1. /\ open'.calls = open.calls + Len(calls) /\ open'.answered = open.answered
        /\ open'.live = open.live
    BY <1>3, <1>4, <1>6 DEF LineType
  <2>2. open.calls \in Nat /\ open.answered \in Nat BY <1>4 DEF LineType
  <2>3. \A after : Adds(Head(pipe), open.calls - open.answered, after)
                      => open'.calls - open'.answered = after
    BY <1>1, <1>4, <1>6, <2>1, <2>2 DEF Adds, calls, fresh
  <2>4. ~Begins(Head(pipe)) BY <1>6 DEF Begins, fresh
  <2> QED BY <1>0, <1>3, <2>1, <2>3, <2>4, ReadsInStep
<1> QED BY <1>1, <1>5, <1>6

\* Every step keeps the count; a stop ends it, for what comes after it is not read.
LEMMA InStepKept == TypeOK /\ Waiting /\ InStep /\ [Next]_vars => InStep'
<1> SUFFICES ASSUME TypeOK, Waiting, InStep, [Next]_vars PROVE InStep'
  OBVIOUS
<1> SUFFICES ASSUME pc' \in {"start", "reading"} PROVE InStep'
  BY DEF InStep
<1>0. ClientOK /\ CountsOK BY Parts
<1>a. ASSUME UNCHANGED <<open, asked, speaking, pipe>>, pc \in {"start", "reading"} PROVE InStep'
  BY <1>a DEF InStep, Balanced, Begun
<1>1. CASE Cli
  <2>1. UNCHANGED driver
    BY <1>1 DEF Cli, CliLoadsMemory, CliSays, CliReads, CliSubmits, CliRestartsServer, CliExits, driver
  <2>2. pc \in {"start", "reading"} BY <2>1 DEF driver
  <2> QED BY <1>1, <2>2, CliInStep
<1>2. CASE ServerAnswers
  <2>1. UNCHANGED <<pc, open>> BY <1>2 DEF ServerAnswers, driver, stepper
  <2>2. CASE ~Up BY <1>2, <1>a, <2>1, <2>2 DEF ServerAnswers, client
  <2>3. CASE Up
    <3>1. /\ Emits(Result(server.answer = "rejected")) /\ asked' = Tail(asked)
          /\ speaking' = (asked' # <<>>) /\ asked # <<>>
      BY <1>2, <2>3 DEF ServerAnswers, Waiting
    <3> QED BY <1>0, <2>1, <3>1, ResultInStep
  <2> QED BY <2>2, <2>3
<1>3. CASE ReadMessage
  <2>1. pc' = "reading" BY <1>3 DEF ReadMessage, NextPc
  <2> QED BY <1>3, <2>1, MessageInStep
<1>4. CASE ReadResult
  <2>1. /\ pc = "reading" /\ pipe # <<>> /\ pipe' = Tail(pipe) /\ asked' = asked
        /\ speaking' = speaking /\ Head(pipe).kind = "result"
    BY <1>4 DEF ReadResult, Reading
  <2>2. /\ open'.calls = open.calls /\ open'.answered = open.answered + 1
        /\ open'.live = open.live /\ open.calls \in Nat /\ open.answered \in Nat
    BY <1>0, <1>4 DEF ReadResult, CountsOK, LineType
  <2>3. \A after : Adds(Head(pipe), open.calls - open.answered, after)
                      => open'.calls - open'.answered = after
    <3>1. \A after : Adds(Head(pipe), open.calls - open.answered, after)
                        => after = (open.calls - open.answered) - 1
      BY <2>1 DEF Adds
    <3>2. open'.calls - open'.answered = (open.calls - open.answered) - 1 BY <2>2
    <3> QED BY <3>1, <3>2
  <2>4. ~Begins(Head(pipe)) BY <2>1 DEF Begins
  <2> QED BY <1>0, <2>1, <2>2, <2>3, <2>4, ReadsInStep
<1>5. CASE ReadMemory
  <2>1. /\ pc = "reading" /\ pipe # <<>> /\ pipe' = Tail(pipe) /\ asked' = asked
        /\ speaking' = speaking /\ Head(pipe).kind = "memory" /\ open' = open
    BY <1>5 DEF ReadMemory, Reading, stepper, Memory
  <2>2. \A after : Adds(Head(pipe), open.calls - open.answered, after)
                      => open'.calls - open'.answered = after
    BY <2>1 DEF Adds
  <2>3. ~Begins(Head(pipe)) BY <2>1 DEF Begins
  <2> QED BY <1>0, <2>1, <2>2, <2>3, ReadsInStep
<1>6. CASE \/ ServerRefuses \/ ServerBuys \/ HandlerRaises \/ ServerSettles
           \/ (\E yes \in BOOLEAN : HandlerJudges(yes)) \/ AlarmRings \/ AlarmStops
           \/ UNCHANGED vars
  <2>1. UNCHANGED <<driver, client>>
    BY <1>6 DEF ServerRefuses, ServerBuys, HandlerRaises, ServerSettles, HandlerJudges, AlarmRings,
                AlarmStops, vars
  <2> QED BY <1>a, <2>1 DEF driver, client, stepper
<1>7. CASE Spawn
  <2>1. pc = "start" /\ UNCHANGED <<stepper, client>> BY <1>7 DEF Spawn
  <2> QED BY <1>a, <2>1 DEF client, stepper
<1>8. ~ \/ StreamEnds \/ StopCli \/ CountAttempts \/ TakeAccepted \/ Decide \/ NoGate
        \/ GateAnswers \/ GateRaises \/ Draft \/ Render \/ StreamRaises
  <2>1. pc' # "done" /\ pc' # "stopping" OBVIOUS
  <2>2. \A why : ~End(why) BY <2>1 DEF End
  <2>3. ~StreamEnds /\ ~StopCli /\ ~CountAttempts /\ ~TakeAccepted
    BY DEF StreamEnds, StopCli, CountAttempts, TakeAccepted
  <2>4. ~Decide /\ ~NoGate /\ ~GateAnswers BY <2>2 DEF Decide, NoGate, GateAnswers
  <2>5. ~GateRaises /\ ~Draft /\ ~Render /\ ~StreamRaises
    BY <2>2 DEF GateRaises, Draft, Render, StreamRaises
  <2> QED BY <2>3, <2>4, <2>5
<1> QED BY <1>1, <1>2, <1>3, <1>4, <1>5, <1>6, <1>7, <1>8 DEF Next, Driver, Server

\* Steps that touch neither a counter nor a line.
Untouched == UNCHANGED <<raised, tool_calls, submits, steps, open, file>>

\* run_end adds itself and no step line.
LEMMA EndLines ==
  ASSUME FileOK, NEW why, End(why)
  PROVE  /\ file'.ends = file.ends + 1 /\ file'.steps = file.steps /\ file'.calls = file.calls
         /\ file'.submitCalls = file.submitCalls /\ file'.owedBefore = file.owedBefore
         /\ file'.owedLast = file.owedLast /\ pc' = "done"
  BY DEF End, FileOK, FileType

\* A step that closes is a line with its calls; what the line before it owed counts from now on.
LEMMA ClosedLines ==
  ASSUME FileOK, CountsOK
  PROVE  /\ Closed.ends = file.ends
         /\ open.live => /\ Closed.steps = file.steps + 1
                         /\ Closed.calls = file.calls + open.calls
                         /\ Closed.submitCalls = file.submitCalls + open.submitCalls
                         /\ Closed.owedBefore = file.owedBefore + file.owedLast
                         /\ Closed.owedLast = open.calls - open.answered
         /\ ~open.live => Closed = file
  BY DEF Closed, WithLine, FileOK, FileType

\* An ending behind the stream adds run_end and nothing else.
LEMMA EndsLined ==
  ASSUME TypeOK, Lined, NEW why, End(why), pc # "done", pc \notin {"reading", "stopping"},
         UNCHANGED <<raised, tool_calls, submits, steps, open>>
  PROVE  Lined'
<1>0. FileOK /\ file.ends \in Nat BY Parts DEF FileOK, FileType
<1> QED BY <1>0, EndLines DEF Lined

\* What waits in the open step when a message begins is nothing, and what joins one has its step.
LEMMA MessageLined ==
  ASSUME TypeOK, InStep, Lined, ReadMessage
  PROVE  Lined'
<1> SUFFICES ASSUME ~raised PROVE Lined'
  BY DEF Lined, ReadMessage
<1> DEFINE calls == Head(pipe).calls
           fresh == Head(pipe).fresh
           n == Bought(calls)
           m == SubmitsIn(calls, n)
<1>0. /\ ClientOK /\ CountsOK /\ FileOK /\ pc = "reading" /\ pipe # <<>>
      /\ pc' \in {"reading", "stopping"} /\ raised' = raised
  BY Parts DEF ReadMessage, Reading, NextPc
<1>1. Head(pipe).kind = "says" /\ calls \in Lines /\ fresh \in BOOLEAN
  <2>1. Head(pipe) \in Events /\ Head(pipe).kind = "says"
    BY <1>0 DEF ReadMessage, ClientOK
  <2> QED BY <2>1 DEF Events, Memory, Says, Result
<1>2. n \in Nat /\ m \in Nat
  <2>1. n \in 0..Len(calls) /\ Len(calls) \in Nat BY <1>1, BoughtIsAffordable, LineOfCalls
  <2>2. n \in Nat BY <2>1
  <2> QED BY <2>2, SubmitsCounted
<1>3. /\ file' = IF fresh THEN Closed ELSE file
      /\ steps' = IF fresh THEN steps + 1 ELSE steps
      /\ tool_calls' = tool_calls + n /\ submits' = submits + m
      /\ open' = [(IF fresh THEN [NoLine EXCEPT !.live = TRUE] ELSE open)
                    EXCEPT !.calls = @ + n, !.submitCalls = @ + m]
  BY DEF ReadMessage
<1>4. /\ Begins(Head(pipe)) => open.calls = open.answered
      /\ Joins(Head(pipe)) => open.live
  BY <1>0, HeadInStep
<1>5. /\ fresh => open.calls = open.answered
      /\ ~fresh => open.live
  BY <1>1, <1>4 DEF Begins, Joins
<1> HIDE DEF calls, fresh, n, m
<1>6. /\ open \in LineType /\ file \in FileType /\ tool_calls \in Nat /\ submits \in Nat
      /\ steps \in Nat /\ open.calls \in Nat /\ open.submitCalls \in Nat /\ open.answered \in Nat
      /\ file.steps \in Nat /\ file.calls \in Nat /\ file.submitCalls \in Nat
  BY <1>0 DEF CountsOK, FileOK, LineType, FileType
<1>7. /\ file.ends = 0 /\ file.steps + (IF open.live THEN 1 ELSE 0) = steps
      /\ file.calls + open.calls = tool_calls /\ file.submitCalls + open.submitCalls = submits
      /\ file.owedBefore = 0 /\ file.owedLast = 0
      /\ ~open.live => open.calls = 0 /\ open.submitCalls = 0 /\ open.answered = 0
  BY <1>0 DEF Lined
<1>8. CASE fresh
  <2>1. /\ open'.live /\ open'.calls = n /\ open'.submitCalls = m
    BY <1>2, <1>3, <1>8 DEF NoLine
  <2>2. /\ file'.ends = 0 /\ file'.steps = steps /\ file'.calls = tool_calls
        /\ file'.submitCalls = submits /\ file'.owedBefore = 0 /\ file'.owedLast = 0
    BY <1>0, <1>3, <1>5, <1>6, <1>7, <1>8, ClosedLines
  <2>3. steps' = steps + 1 BY <1>3, <1>8
  <2> QED BY <1>0, <1>2, <1>3, <1>6, <2>1, <2>2, <2>3 DEF Lined
<1>9. CASE ~fresh
  <2>1. open.live BY <1>5, <1>9
  <2>2. /\ open'.live /\ open'.calls = open.calls + n /\ open'.submitCalls = open.submitCalls + m
    BY <1>2, <1>3, <1>6, <1>9, <2>1 DEF LineType
  <2>3. file' = file /\ steps' = steps BY <1>3, <1>9
  <2>4. /\ file.calls + open'.calls = tool_calls'
        /\ file.submitCalls + open'.submitCalls = submits'
    BY <1>2, <1>3, <1>6, <1>7, <2>2
  <2>5. file.steps + (IF open'.live THEN 1 ELSE 0) = steps BY <1>7, <2>1, <2>2
  <2> QED BY <1>0, <1>7, <2>2, <2>3, <2>4, <2>5 DEF Lined
<1> QED BY <1>1, <1>8, <1>9

\* Every step keeps file and counters together.
LEMMA LinedKept == TypeOK /\ InStep /\ Lined /\ [Next]_vars => Lined'
<1> SUFFICES ASSUME TypeOK, InStep, Lined, [Next]_vars PROVE Lined'
  OBVIOUS
<1>0. /\ ClientOK /\ CountsOK /\ FileOK /\ file.ends \in Nat
  BY Parts DEF FileOK, FileType
<1>a. ASSUME Untouched,
             \/ pc' = pc
             \/ pc = "reading" /\ pc' \in {"reading", "stopping"}
             \/ pc # "done" /\ pc' # "done" /\ pc \notin {"start", "reading", "stopping"}
                /\ pc' \notin {"start", "reading", "stopping"}
      PROVE  Lined'
  BY <1>a DEF Untouched, Lined
<1>1. CASE Elsewhere /\ ~ReadResult
  <2>1. Untouched
    BY <1>1 DEF Untouched, Elsewhere, Cli, CliLoadsMemory, CliSays, CliReads, CliSubmits,
       CliRestartsServer, CliExits, Server, ServerRefuses, ServerBuys, HandlerRaises, ServerSettles,
       ServerAnswers, HandlerJudges, ReadMemory, StreamEnds, CountAttempts, NoGate, AlarmRings,
       AlarmStops, vars, driver, stepper, afterwards
  <2> QED BY <1>1, <1>a, <2>1, ElsewherePc
<1>2. CASE ReadResult
  <2>1. /\ UNCHANGED <<raised, tool_calls, submits, steps, file>> /\ pc = "reading"
        /\ pc' \in {"reading", "stopping"} /\ pipe # <<>> /\ Head(pipe).kind = "result"
    BY <1>2 DEF ReadResult, Reading, NextPc
  <2>2. /\ open'.live = open.live /\ open'.calls = open.calls
        /\ open'.submitCalls = open.submitCalls /\ open.calls \in Nat /\ open.answered \in Nat
    BY <1>0, <1>2 DEF ReadResult, CountsOK, LineType
  <2>3. open.calls - open.answered > 0 BY <1>0, <2>1, HeadInStep
  <2>4. ~raised => open.live BY <2>2, <2>3 DEF Lined
  <2> QED BY <2>1, <2>2, <2>4 DEF Lined
<1>3. CASE ReadMessage BY <1>3, MessageLined
<1>4. CASE StopCli
  <2>1. /\ pc = "stopping" /\ pc' = "counting" /\ file' = Closed /\ open' = NoLine
        /\ UNCHANGED <<raised, tool_calls, submits, steps>>
    BY <1>4 DEF StopCli
  <2>2. /\ ~open'.live /\ open'.calls = 0 /\ open'.submitCalls = 0 /\ open'.answered = 0
    BY <2>1 DEF NoLine
  <2>3. /\ tool_calls \in Nat /\ submits \in Nat /\ steps \in Nat
        /\ open.calls \in Nat /\ open.submitCalls \in Nat
        /\ file.steps \in Nat /\ file.calls \in Nat /\ file.submitCalls \in Nat
    BY <1>0 DEF CountsOK, FileOK, LineType, FileType
  <2>4. ~raised => /\ file'.ends = 0 /\ file'.steps = steps /\ file'.calls = tool_calls
                   /\ file'.submitCalls = submits /\ file'.owedBefore = 0
    BY <1>0, <2>1, <2>3, ClosedLines DEF Lined
  <2> QED BY <2>1, <2>2, <2>3, <2>4 DEF Lined
<1>5. CASE Spawn
  <2>1. pc = "start" /\ UNCHANGED <<raised, tool_calls, submits, steps, open>>
    BY <1>5 DEF Spawn, stepper
  <2>2. CASE End("api_error") BY <2>1, <2>2, EndsLined
  <2>3. CASE ~End("api_error")
    <3>1. pc' = "reading" /\ file' = file BY <1>5, <2>3 DEF Spawn
    <3> QED BY <2>1, <3>1 DEF Lined
  <2> QED BY <2>2, <2>3
<1>6. CASE TakeAccepted
  <2>1. Untouched /\ pc = "taking" /\ pc' = "deciding"
    BY <1>6 DEF TakeAccepted, afterwards, Untouched
  <2> QED BY <1>a, <2>1
<1>7. CASE Decide
  <2>1. pc = "deciding" /\ UNCHANGED <<raised, tool_calls, submits, steps, open>>
    BY <1>7 DEF Decide, afterwards
  <2>2. (\E why : End(why)) \/ (pc' = "gate" /\ file' = file) BY <1>7 DEF Decide
  <2>3. CASE \E why : End(why) BY <2>1, <2>3, EndsLined
  <2>4. CASE pc' = "gate" /\ file' = file BY <1>a, <2>1, <2>4 DEF Untouched
  <2> QED BY <2>2, <2>3, <2>4
<1>8. CASE GateAnswers
  <2>1. /\ pc = "gate" /\ pc' \in {"render", "draft"}
        /\ UNCHANGED <<raised, tool_calls, submits, steps, open>>
    BY <1>8 DEF GateAnswers, afterwards
  <2>2. /\ file'.ends = file.ends /\ file'.steps = file.steps /\ file'.calls = file.calls
        /\ file'.submitCalls = file.submitCalls /\ file'.owedBefore = file.owedBefore
    BY <1>0, <1>8 DEF GateAnswers, FileOK, FileType
  <2> QED BY <2>1, <2>2 DEF Lined
<1>9. CASE GateRaises \/ Draft \/ Render
  <2>1. /\ pc \in {"gate", "draft", "render"} /\ \E why : End(why)
    BY <1>9 DEF GateRaises, Draft, Render
  <2>2. UNCHANGED <<raised, tool_calls, submits, steps, open>>
    BY <1>9 DEF GateRaises, Draft, Render, afterwards
  <2> QED BY <2>1, <2>2, EndsLined
<1>10. CASE StreamRaises BY <1>10 DEF StreamRaises, Lined
<1> QED
  BY <1>1, <1>2, <1>3, <1>4, <1>5, <1>6, <1>7, <1>8, <1>9, <1>10, NextCases

\* Whatever ended the stream, but for a raise in it: run_end reports what the step lines hold, and no
\* step but the last is left with a call that has no result (driver.py _spawn, convert.py Stepper
\* feed, close and _buy).  The driver is behind the CLI by what is in the pipe, and may stop anywhere
\* in it; before the first stop it has bought every call it has read of.
THEOREM LinesAddUp == Spec => []LinesReconcile
<1>1. Init => InStep /\ Lined
  <2> SUFFICES ASSUME Init PROVE InStep /\ Lined
    OBVIOUS
  <2>1. /\ open.live = FALSE /\ open.calls = 0 /\ open.answered = 0 /\ open.submitCalls = 0
        /\ pipe = <<>> /\ asked = <<>> /\ speaking = FALSE
    BY DEF Init, NoLine
  <2>2. Lined BY <2>1 DEF Init, EmptyFile, Lined
  <2>3. Len(pipe) = 0 /\ Len(asked) = 0 /\ DOMAIN pipe = {} BY <2>1
  <2>4. \E b \in [0..0 -> 0..MaxBatch] : b[0] = 0
    <3> DEFINE b == [k \in 0..0 |-> 0]
    <3>1. b \in [0..0 -> 0..MaxBatch] BY BrainAssumption DEF BrainAssumption
    <3>2. b[0] = 0 OBVIOUS
    <3> QED BY <3>1, <3>2
  <2>5. PICK b \in [0..0 -> 0..MaxBatch] : b[0] = 0 BY <2>4
  <2>6. Balanced(b) BY <2>1, <2>3, <2>5 DEF Balanced
  <2>7. InStep BY <2>1, <2>3, <2>6 DEF InStep
  <2> QED BY <2>2, <2>7
<1>2. SInv /\ (InStep /\ Lined) /\ [Next]_vars => (InStep /\ Lined)'
  BY InStepKept, LinedKept DEF SInv
<1>3. SInv /\ (InStep /\ Lined) => LinesReconcile
  <2> SUFFICES ASSUME SInv, Lined, Over, ~raised PROVE LinesReconcile
    BY DEF LinesReconcile
  <2>1. pc = "done" BY DEF SInv, Taken
  <2>2. /\ ~open.live /\ open.calls = 0 /\ open.submitCalls = 0 BY <2>1 DEF Lined
  <2>3. file.steps \in Nat /\ file.calls \in Nat /\ file.submitCalls \in Nat
    BY Parts DEF SInv, FileOK, FileType
  <2> QED BY <2>1, <2>2, <2>3 DEF Lined, LinesReconcile
<1> QED BY <1>1, <1>2, <1>3, SpoolInvariant, PTL DEF Spec
=============================================================================
