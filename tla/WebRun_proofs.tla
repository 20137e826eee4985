---------------------------- MODULE WebRun_proofs ----------------------------
(***************************************************************************)
(* The safety of a run of the website, for any number of streams, lines    *)
(* and restarts.  The argument is the order of a stream's pass: the exit   *)
(* is read first, and a child that has exited writes no more, so what the  *)
(* drain then sends is all there will ever be.                             *)
(***************************************************************************)
EXTENDS WebRun, TLAPS

\* A stream that can tell whether the child is gone: it holds the process, or the child was
\* gone when it opened.
Knows(s) == holds[s] = "owned" \/ dead[s]

\* Past its poll, a stream that saw the exit is right about it.
SawExit(s) ==
  at[s] = "done" \/ (at[s] \in {"files", "gate", "finish"} /\ exited[s]) => child = "dead"

\* Past its drain, it has sent everything.
SentAll(s) == at[s] = "done" \/ (at[s] \in {"gate", "finish"} /\ exited[s]) => sent[s] = written

\* Its last word is the trace's.
SaidRight(s) == at[s] = "done" => (said[s] = "run_end" <=> written = RunEnd)

\* A child is started once, and a handle on it, or a thread out to kill it, comes after.
StartedOnce == /\ child # "unborn" => starter \in {"spawned", "done"}
               /\ (handle = "owned" \/ killing) => starter = "done"

Streaming ==
  \A s \in Streams : /\ dead[s] => child = "dead"
                     /\ Knows(s) => SawExit(s) /\ SentAll(s) /\ SaidRight(s)

WInv == TypeOK /\ StartedOnce /\ Streaming

-----------------------------------------------------------------------------
(* Types *)

LEMMA Zero == 0 \in 0..RunEnd /\ RunEnd \in 0..RunEnd /\ 0 \in 0..Reboots
  BY WebAssumption DEF WebAssumption, RunEnd

LEMMA InitTypes == Init => TypeOK
<1> SUFFICES ASSUME Init PROVE TypeOK
  OBVIOUS
<1>1. /\ at \in [Streams -> Places] /\ holds \in [Streams -> {"none", "owned", "adopted"}]
      /\ exited \in [Streams -> BOOLEAN] /\ gate_sent \in [Streams -> BOOLEAN]
      /\ shown \in [Streams -> BOOLEAN] /\ dead \in [Streams -> BOOLEAN]
  BY DEF Init, Places
<1>2. sent \in [Streams -> 0..RunEnd] BY Zero DEF Init
<1>3. said \in [Streams -> Endings \cup {"none"}] BY DEF Init
<1>4. /\ starter = "idle" /\ registered = FALSE /\ child = "unborn"
      /\ written = 0 /\ request = "none" /\ decision = FALSE
      /\ handle = "none" /\ cancelled = FALSE /\ killing = FALSE /\ reboots = 0
  BY DEF Init
<1> QED BY <1>1, <1>2, <1>3, <1>4, Zero DEF TypeOK

LEMMA StarterTypes == TypeOK /\ (MakeDirectory \/ Popen \/ Register) => TypeOK'
  BY WebAssumption DEF WebAssumption, TypeOK, MakeDirectory, Popen, Register, disk, memory, streams, RunEnd

LEMMA MemoryTypes == TypeOK /\ (Cancel \/ KillAfter \/ Reboot \/ Listing) => TypeOK'
<1>1. CASE Cancel BY <1>1 DEF TypeOK, Cancel, disk, streams, RunEnd
<1>2. CASE KillAfter BY <1>2 DEF TypeOK, KillAfter, disk, streams, RunEnd
<1>3. CASE Listing BY <1>3 DEF TypeOK, Listing, outside, disk, streams, RunEnd
<1>4. CASE Reboot
  <2> SUFFICES ASSUME TypeOK PROVE TypeOK'
    OBVIOUS
  <2>0. reboots < Reboots /\ reboots' = reboots + 1 BY <1>4 DEF Reboot
  <2>1. reboots' \in 0..Reboots BY <2>0, WebAssumption DEF WebAssumption, TypeOK
  <2> QED BY <1>4, <2>1, Zero, Zenon DEF TypeOK, Reboot, disk, Places, Endings
<1> QED BY <1>1, <1>2, <1>3, <1>4

LEMMA ChildTypes ==
  TypeOK /\ (WriteLine \/ AskGate \/ Decide \/ WriteEnd \/ ChildDies) => TypeOK'
<1>1. CASE WriteLine
  BY <1>1, WebAssumption DEF WebAssumption, TypeOK, WriteLine, childOnly, memory, streams, RunEnd
<1>2. CASE AskGate BY <1>2 DEF TypeOK, AskGate, childOnly, memory, streams, RunEnd
<1>3. CASE Decide BY <1>3 DEF TypeOK, Decide, childOnly, memory, streams, RunEnd
<1>4. CASE WriteEnd BY <1>4, Zero DEF TypeOK, WriteEnd, childOnly, memory, streams
<1>5. CASE ChildDies BY <1>5 DEF TypeOK, ChildDies, childOnly, disk, memory, streams, RunEnd
<1> QED BY <1>1, <1>2, <1>3, <1>4, <1>5

LEMMA StreamTypes ==
  ASSUME TypeOK, NEW s \in Streams, Get(s) \/ Adopt(s) \/ Pass(s) \/ Leave(s)
  PROVE  TypeOK'
<1>1. CASE Get(s)
  <2>1. CASE handle # "none" /\ Opens(s, handle)
    BY <1>1, <2>1, Zenon DEF TypeOK, Get, Opens, outside, disk, Places
  <2> QED BY <1>1, <2>1 DEF TypeOK, Get, outside, disk, RunEnd, Places
<1>2. CASE Adopt(s) BY <1>2 DEF TypeOK, Adopt, Opens, outside, disk, RunEnd, Places
<1>3. CASE Poll(s) BY <1>3 DEF TypeOK, Poll, Exited, pass, outside, disk, RunEnd, Places
<1>4. CASE Drain(s) BY <1>4 DEF TypeOK, Drain, pass, outside, disk, RunEnd, Places
<1>5. CASE ShowGate(s) BY <1>5 DEF TypeOK, ShowGate, GateWaiting, pass, outside, disk, RunEnd, Places
<1>6. CASE Finish(s)
  BY <1>6 DEF TypeOK, Finish, Ending, pass, outside, disk, RunEnd, Places, Endings
<1>7. CASE Leave(s) BY <1>7, WebAssumption DEF WebAssumption, TypeOK, Leave, outside, disk, RunEnd, Places
<1> QED BY <1>1, <1>2, <1>3, <1>4, <1>5, <1>6, <1>7 DEF Pass

LEMMA StepTypes == TypeOK /\ [Next]_vars => TypeOK'
<1>1. CASE UNCHANGED vars BY <1>1 DEF TypeOK, vars, disk, memory, streams, RunEnd
<1> QED BY <1>1, StarterTypes, MemoryTypes, ChildTypes, StreamTypes DEF Next

\* The registry, the run's folder and the streams keep their types, whatever the streams,
\* requests and restarts (web/runs.py, web/sse.py).
THEOREM TypeCorrect == Spec => []TypeOK
  BY InitTypes, StepTypes, PTL DEF Spec

\* A handle on a real process is never traded for the stand-in of an adopted run: adopt's
\* setdefault keeps it through every listing and request; only a restart forgets it.
THEOREM ProcessesAreKept == Spec => OwnedStaysOwned
<1>1. TypeOK /\ [Next]_vars => [handle = "owned" /\ handle' # "owned" => reboots' # reboots]_vars
  <2> SUFFICES ASSUME TypeOK, Next
               PROVE  handle = "owned" /\ handle' # "owned" => reboots' # reboots
    OBVIOUS
  <2>1. CASE Reboot BY <2>1, WebAssumption DEF WebAssumption, Reboot, TypeOK
  <2>2. ASSUME NEW s \in Streams, Get(s) \/ Adopt(s) \/ Pass(s) \/ Leave(s) PROVE handle = "owned" => handle' = handle
    BY <2>2 DEF Get, Opens, Adopt, Pass, Poll, Drain, ShowGate, Finish, Leave, pass
  <2> QED
    BY <2>1, <2>2 DEF Next, MakeDirectory, Popen, Register, Cancel, KillAfter, WriteLine, AskGate,
       Decide, WriteEnd, ChildDies, Listing, memory, childOnly
<1> QED BY <1>1, TypeCorrect, PTL DEF Spec, OwnedStaysOwned
-----------------------------------------------------------------------------
(* What a stream has sent *)

LEMMA InitStreams == Init => WInv
  BY InitTypes DEF Init, WInv, StartedOnce, Streaming, Knows, SawExit, SentAll, SaidRight

\* A step that leaves the streams, and a dead child with its trace, as they are.
LEMMA ElsewhereKeeps ==
  ASSUME WInv, TypeOK', UNCHANGED streams,
         child = "dead" => child' = "dead" /\ written' = written,
         StartedOnce'
  PROVE  WInv'
<1> SUFFICES ASSUME NEW s \in Streams
             PROVE  /\ dead'[s] => child' = "dead"
                    /\ Knows(s)' => SawExit(s)' /\ SentAll(s)' /\ SaidRight(s)'
  BY DEF WInv, Streaming
<1>1. /\ at' = at /\ holds' = holds /\ exited' = exited /\ sent' = sent
      /\ said' = said /\ dead' = dead
  BY DEF streams
<1>2. /\ dead[s] => child = "dead"
      /\ Knows(s) => SawExit(s) /\ SentAll(s) /\ SaidRight(s)
  BY DEF WInv, Streaming
<1> QED BY <1>1, <1>2 DEF Knows, SawExit, SentAll, SaidRight, RunEnd

LEMMA StarterKeeps == WInv /\ (MakeDirectory \/ Popen \/ Register) => WInv'
<1> SUFFICES ASSUME WInv, MakeDirectory \/ Popen \/ Register PROVE WInv'
  OBVIOUS
<1>1. TypeOK' BY StarterTypes DEF WInv
<1>2. StartedOnce' /\ (child = "dead" => child' = "dead" /\ written' = written)
  BY DEF WInv, StartedOnce, TypeOK, MakeDirectory, Popen, Register, disk, memory
<1>3. UNCHANGED streams BY DEF MakeDirectory, Popen, Register
<1> QED BY <1>1, <1>2, <1>3, ElsewhereKeeps

LEMMA MemoryKeeps == WInv /\ (Cancel \/ KillAfter \/ Listing) => WInv'
<1> SUFFICES ASSUME WInv, Cancel \/ KillAfter \/ Listing PROVE WInv'
  OBVIOUS
<1>1. TypeOK' BY MemoryTypes DEF WInv
<1>2. child = "dead" => child' = "dead" /\ written' = written
  BY DEF Cancel, KillAfter, Listing, outside, disk
<1>3. UNCHANGED streams BY DEF Cancel, KillAfter, Listing
<1>4. StartedOnce' BY DEF WInv, StartedOnce, Cancel, Exited, KillAfter, Listing, outside, TypeOK
<1> QED BY <1>1, <1>2, <1>3, <1>4, ElsewhereKeeps

LEMMA RebootKeeps == WInv /\ Reboot => WInv'
<1> SUFFICES ASSUME WInv, Reboot PROVE WInv'
  OBVIOUS
<1>1. TypeOK' BY MemoryTypes DEF WInv
<1>2. StartedOnce' BY DEF WInv, StartedOnce, Reboot, TypeOK
<1>3. Streaming' BY DEF Reboot, Streaming, Knows, SawExit, SentAll, SaidRight
<1> QED BY <1>1, <1>2, <1>3 DEF WInv

LEMMA ChildKeeps ==
  WInv /\ (WriteLine \/ AskGate \/ Decide \/ WriteEnd \/ ChildDies) => WInv'
<1> SUFFICES ASSUME WInv, WriteLine \/ AskGate \/ Decide \/ WriteEnd \/ ChildDies PROVE WInv'
  OBVIOUS
<1>1. TypeOK' BY ChildTypes DEF WInv
<1>2. child = "dead" => child' = "dead" /\ written' = written
  BY DEF WriteLine, AskGate, Decide, WriteEnd, ChildDies, Running, AtGate, childOnly, disk
<1>3. UNCHANGED streams BY DEF WriteLine, AskGate, Decide, WriteEnd, ChildDies, childOnly
<1>4. StartedOnce'
  BY DEF WInv, StartedOnce, WriteLine, AskGate, Decide, WriteEnd, ChildDies, Running, AtGate,
     childOnly, memory
<1> QED BY <1>1, <1>2, <1>3, <1>4, ElsewhereKeeps

\* A step of one stream: the others, the child and its trace stay.
LEMMA StreamKeeps ==
  ASSUME WInv, NEW s \in Streams, Get(s) \/ Adopt(s) \/ Pass(s) \/ Leave(s)
  PROVE  WInv'
<1>1. TypeOK /\ TypeOK' BY StreamTypes DEF WInv
<1>2. child' = child /\ starter' = starter /\ written' = written
  BY DEF Get, Adopt, Pass, Poll, Drain, ShowGate, Finish, Leave, pass, outside, disk
<1>3. StartedOnce'
  BY <1>2 DEF WInv, StartedOnce, Get, Opens, Adopt, Pass, Poll, Drain, ShowGate, Finish, Leave,
     pass, outside
<1>4. ASSUME NEW t \in Streams
      PROVE  /\ dead'[t] => child' = "dead"
             /\ Knows(t)' => SawExit(t)' /\ SentAll(t)' /\ SaidRight(t)'
  <2>1. /\ dead[t] => child = "dead"
        /\ Knows(t) => SawExit(t) /\ SentAll(t) /\ SaidRight(t)
    BY DEF WInv, Streaming
  <2>2. CASE t # s
    <3>1. /\ at'[t] = at[t] /\ holds'[t] = holds[t] /\ exited'[t] = exited[t]
          /\ sent'[t] = sent[t] /\ said'[t] = said[t] /\ dead'[t] = dead[t]
      BY <1>1, <2>2 DEF TypeOK, Get, Opens, Adopt, Pass, Poll, Drain, ShowGate, Finish, Leave, pass
    <3> QED BY <1>2, <2>1, <3>1 DEF Knows, SawExit, SentAll, SaidRight, RunEnd
  <2>3. CASE t = s
    <3>1. CASE Get(s) \/ Adopt(s)
      BY <1>1, <1>2, <2>1, <2>3, <3>1
      DEF TypeOK, Get, Adopt, Opens, Knows, SawExit, SentAll, SaidRight, RunEnd
    <3>2. CASE Poll(s)
      BY <1>1, <1>2, <2>1, <2>3, <3>2
      DEF TypeOK, Poll, Exited, pass, Knows, SawExit, SentAll, SaidRight, RunEnd
    <3>3. CASE Drain(s)
      BY <1>1, <1>2, <2>1, <2>3, <3>3
      DEF TypeOK, Drain, pass, Knows, SawExit, SentAll, SaidRight, RunEnd
    <3>4. CASE ShowGate(s)
      BY <1>1, <1>2, <2>1, <2>3, <3>4
      DEF TypeOK, ShowGate, pass, Knows, SawExit, SentAll, SaidRight, RunEnd
    <3>5. CASE Finish(s)
      BY <1>1, <1>2, <2>1, <2>3, <3>5
      DEF TypeOK, Finish, Ending, pass, Knows, SawExit, SentAll, SaidRight, RunEnd
    <3>6. CASE Leave(s)
      BY <1>1, <1>2, <2>1, <2>3, <3>6
      DEF TypeOK, Leave, Knows, SawExit, SentAll, SaidRight, RunEnd
    <3> QED BY <3>1, <3>2, <3>3, <3>4, <3>5, <3>6 DEF Pass
  <2> QED BY <2>2, <2>3
<1> QED BY <1>1, <1>3, <1>4 DEF WInv, Streaming

LEMMA StepKeeps == WInv /\ [Next]_vars => WInv'
<1> SUFFICES ASSUME WInv, [Next]_vars PROVE WInv'
  OBVIOUS
<1>1. CASE UNCHANGED vars
  <2>1. TypeOK' BY <1>1, StepTypes DEF WInv
  <2> QED BY <1>1, <2>1, ElsewhereKeeps DEF WInv, StartedOnce, vars, disk, memory
<1> QED
  BY <1>1, StarterKeeps, MemoryKeeps, RebootKeeps, ChildKeeps, StreamKeeps DEF Next

LEMMA Invariant == Spec => []WInv
  BY InitStreams, StepKeeps, PTL DEF Spec

\* A stream that can know of the exit has sent the whole trace when it says done, and says of
\* the ending what the trace says (web/sse.py reads the exit before the files).
THEOREM NothingIsLost == Spec => []DoneIsWhole
<1>1. WInv => DoneIsWhole
  BY DEF WInv, Streaming, Knows, SentAll, SaidRight, DoneIsWhole
<1> QED BY <1>1, Invariant, PTL
=============================================================================
