------------------------------- MODULE WebRun -------------------------------
(***************************************************************************)
(* One run of the website (art30/web/runs.py, art30/web/sse.py): the       *)
(* server spawns `art30 scan` as a child, keeps a handle on it in _runs,   *)
(* and every page that opens the event stream tails the child's files on a *)
(* handler thread of its own.  A run found on disk is adopted: it is given *)
(* a handle that says it has exited.  The server may be restarted; its     *)
(* registry is memory, its children and their files are not.               *)
(*                                                                         *)
(* The child is seen through what it leaves: the lines of its trace, the   *)
(* last of which is run_end, and gate/request.json, which is there and     *)
(* empty before it is there and whole.                                     *)
(***************************************************************************)
EXTENDS Naturals

CONSTANTS Streams,   \* GET /api/runs/<id>/events requests
          Steps,     \* bound of the model: lines before run_end
          Reboots    \* bound of the model: restarts of the server

ASSUME WebAssumption == Steps \in Nat /\ Reboots \in Nat

VARIABLES
  starter,    \* where the POST /api/runs thread stands in spawn
  registered, \* run.json is on disk
  child,      \* the art30 scan process
  written,    \* lines in its trace
  request,    \* gate/request.json
  decision,   \* gate/decision.json is there
  handle,     \* what _runs holds under the run's id
  cancelled,  \* its Run.cancelled
  killing,    \* the thread of cancel() waits for its five seconds to pass
  reboots,    \* restarts of the server so far
  at,         \* of each stream: where its generator stands
  holds,      \* of each stream: the handle of the Run object it was given
  exited,     \* of each stream: what poll() said at the top of this pass
  sent,       \* of each stream: trace lines sent
  gate_sent,  \* of each stream: its flag
  shown,      \* of each stream: a gate event was sent (history)
  said,       \* of each stream: stop_condition of its done event
  dead        \* of each stream: the child had exited when it opened (history)

disk == <<registered, written, request, decision>>
memory == <<handle, cancelled, killing>>
streams == <<at, holds, exited, sent, gate_sent, shown, said, dead>>
vars == <<starter, child, disk, memory, reboots, streams>>

RunEnd == Steps + 1
Places == {"closed", "adopting", "poll", "files", "gate", "finish", "done"}
Endings == {"run_end", "cancelled", "crashed"}

\* What the registry, the run's folder and the streams range over.
TypeOK ==
  /\ starter \in {"idle", "made", "spawned", "done"}
  /\ registered \in BOOLEAN /\ decision \in BOOLEAN
  /\ child \in {"unborn", "running", "dead"}
  /\ written \in 0..RunEnd
  /\ request \in {"none", "half", "whole"}
  /\ handle \in {"none", "owned", "adopted"}
  /\ cancelled \in BOOLEAN /\ killing \in BOOLEAN
  /\ reboots \in 0..Reboots
  /\ at \in [Streams -> Places]
  /\ holds \in [Streams -> {"none", "owned", "adopted"}]
  /\ exited \in [Streams -> BOOLEAN] /\ sent \in [Streams -> 0..RunEnd]
  /\ gate_sent \in [Streams -> BOOLEAN] /\ shown \in [Streams -> BOOLEAN]
  /\ said \in [Streams -> Endings \cup {"none"}]
  /\ dead \in [Streams -> BOOLEAN]

Init ==
  /\ starter = "idle" /\ registered = FALSE /\ child = "unborn"
  /\ written = 0 /\ request = "none" /\ decision = FALSE
  /\ handle = "none" /\ cancelled = FALSE /\ killing = FALSE /\ reboots = 0
  /\ at = [s \in Streams |-> "closed"]
  /\ holds = [s \in Streams |-> "none"]
  /\ exited = [s \in Streams |-> FALSE]
  /\ sent = [s \in Streams |-> 0]
  /\ gate_sent = [s \in Streams |-> FALSE]
  /\ shown = [s \in Streams |-> FALSE]
  /\ said = [s \in Streams |-> "none"]
  /\ dead = [s \in Streams |-> FALSE]
-----------------------------------------------------------------------------
(* spawn, cancel and the restart *)

MakeDirectory ==
  /\ starter = "idle"
  /\ starter' = "made" /\ registered' = TRUE
  /\ UNCHANGED <<child, written, request, decision, memory, reboots, streams>>

Popen ==
  /\ starter = "made"
  /\ starter' = "spawned" /\ child' = "running"
  /\ UNCHANGED <<disk, memory, reboots, streams>>

\* _runs[run_id] = run, over whatever a listing adopted in the meantime
Register ==
  /\ starter = "spawned"
  /\ starter' = "done" /\ handle' = "owned" /\ cancelled' = FALSE
  /\ UNCHANGED <<child, disk, killing, reboots, streams>>

Exited(h) == h = "adopted" \/ child = "dead"

\* Mutant: SIGTERM alone.
CancelOnce ==
  /\ handle # "none" /\ ~Exited(handle)
  /\ cancelled' = TRUE
  /\ UNCHANGED <<starter, child, disk, handle, killing, reboots, streams>>

\* SIGTERM, and a thread that will send SIGKILL.  An adopted run answers 409.
Cancel ==
  /\ handle # "none" /\ ~Exited(handle)
  /\ cancelled' = TRUE /\ killing' = TRUE
  /\ UNCHANGED <<starter, child, disk, handle, reboots, streams>>

KillAfter ==
  /\ killing
  /\ killing' = FALSE
  /\ child' = "dead"
  /\ UNCHANGED <<starter, disk, handle, cancelled, reboots, streams>>

\* The child is nobody's thread: it lives on, and so do its files.
Reboot ==
  /\ reboots < Reboots
  /\ reboots' = reboots + 1
  /\ starter' = IF starter = "idle" THEN "idle" ELSE "done"
  /\ handle' = "none" /\ cancelled' = FALSE /\ killing' = FALSE
  /\ at' = [s \in Streams |-> "closed"] /\ holds' = [s \in Streams |-> "none"]
  /\ exited' = [s \in Streams |-> FALSE] /\ sent' = [s \in Streams |-> 0]
  /\ gate_sent' = [s \in Streams |-> FALSE] /\ shown' = [s \in Streams |-> FALSE]
  /\ said' = [s \in Streams |-> "none"] /\ dead' = [s \in Streams |-> FALSE]
  /\ UNCHANGED <<child, disk>>
-----------------------------------------------------------------------------
(* The child, and the person at its gate *)

childOnly == <<starter, memory, reboots, streams>>

Running == child = "running"
AtGate == Running /\ written = Steps

WriteLine ==
  /\ Running /\ written < Steps
  /\ written' = written + 1
  /\ UNCHANGED <<childOnly, child, registered, request, decision>>

AskGate ==
  /\ AtGate /\ request # "whole"
  /\ request' = IF request = "none" THEN "half" ELSE "whole"
  /\ UNCHANGED <<childOnly, child, registered, written, decision>>

Decide ==
  /\ request = "whole"
  /\ decision' = TRUE
  /\ UNCHANGED <<childOnly, child, registered, written, request>>

\* run_end: with no gate, after an answer, or after its timeout
WriteEnd ==
  /\ Running /\ written < RunEnd
  /\ request # "half"
  /\ written' = RunEnd
  /\ UNCHANGED <<childOnly, child, registered, request, decision>>

\* An exit of its own, a crash, or a signal.
ChildDies ==
  /\ Running
  /\ child' = "dead"
  /\ UNCHANGED <<childOnly, disk>>
-----------------------------------------------------------------------------
(* The streams *)

outside == <<starter, child, disk, cancelled, killing, reboots>>

Opens(s, h) ==
  /\ at' = [at EXCEPT ![s] = "poll"]
  /\ holds' = [holds EXCEPT ![s] = h]
  /\ dead' = [dead EXCEPT ![s] = child = "dead"]
  /\ UNCHANGED <<exited, sent, gate_sent, shown, said>>

\* get: the registry first, else the directory
Get(s) ==
  /\ at[s] = "closed"
  /\ \/ handle # "none" /\ Opens(s, handle)
     \/ /\ handle = "none" /\ registered
        /\ at' = [at EXCEPT ![s] = "adopting"]
        /\ UNCHANGED <<holds, exited, sent, gate_sent, shown, said, dead>>
  /\ UNCHANGED <<outside, handle>>

\* adopt: run.json was read outside the lock, setdefault keeps who came first.
Adopt(s) ==
  /\ at[s] = "adopting"
  /\ handle' = IF handle = "none" THEN "adopted" ELSE handle
  /\ Opens(s, handle')
  /\ UNCHANGED outside

\* The list of runs adopts every directory on disk that is not in the registry.
Listing ==
  /\ handle = "none" /\ registered
  /\ handle' = "adopted"
  /\ UNCHANGED <<outside, streams>>

pass == <<outside, handle, holds, dead>>

\* Mutant: the stand-in for a process that is not ours never says it exited.
PollOwned(s) ==
  /\ at[s] = "poll"
  /\ exited' = [exited EXCEPT ![s] = holds[s] = "owned" /\ child = "dead"]
  /\ at' = [at EXCEPT ![s] = "files"]
  /\ UNCHANGED <<pass, sent, gate_sent, shown, said>>

\* "The exit is read before the files, so the drain after an exit sees everything."
Poll(s) ==
  /\ at[s] = "poll"
  /\ exited' = [exited EXCEPT ![s] = Exited(holds[s])]
  /\ at' = [at EXCEPT ![s] = "files"]
  /\ UNCHANGED <<pass, sent, gate_sent, shown, said>>

Drain(s) ==
  /\ at[s] = "files"
  /\ sent' = [sent EXCEPT ![s] = written]
  /\ at' = [at EXCEPT ![s] = "gate"]
  /\ UNCHANGED <<pass, exited, gate_sent, shown, said>>

GateWaiting == request # "none" /\ ~decision

\* Mutant: the flag is set although the request did not parse yet.
ShowGateOnce(s) ==
  /\ at[s] = "gate"
  /\ at' = [at EXCEPT ![s] = "finish"]
  /\ gate_sent' = [gate_sent EXCEPT ![s] = @ \/ GateWaiting]
  /\ shown' = [shown EXCEPT ![s] = @ \/ (~gate_sent[s] /\ GateWaiting /\ request = "whole")]
  /\ UNCHANGED <<pass, exited, sent, said>>

\* A request that is not whole yet is tried again on the next pass.
ShowGate(s) ==
  /\ at[s] = "gate"
  /\ at' = [at EXCEPT ![s] = "finish"]
  /\ LET now == ~gate_sent[s] /\ GateWaiting /\ request = "whole"
     IN /\ gate_sent' = [gate_sent EXCEPT ![s] = @ \/ now]
        /\ shown' = [shown EXCEPT ![s] = @ \/ now]
  /\ UNCHANGED <<pass, exited, sent, said>>

\* stop_condition: what the trace says, else whose doing it was.  The flag is the
\* Run object's own, and nobody cancels an adopted one.
Ending(h) == IF written = RunEnd THEN "run_end"
             ELSE IF cancelled /\ h = "owned" THEN "cancelled" ELSE "crashed"

\* Mutant: the exit is looked at after the files.
FinishNow(s) ==
  /\ at[s] = "finish"
  /\ \/ /\ Exited(holds[s])
        /\ said' = [said EXCEPT ![s] = Ending(holds[s])]
        /\ at' = [at EXCEPT ![s] = "done"]
     \/ ~Exited(holds[s]) /\ at' = [at EXCEPT ![s] = "poll"] /\ UNCHANGED said
  /\ UNCHANGED <<pass, exited, sent, gate_sent, shown>>

Finish(s) ==
  /\ at[s] = "finish"
  /\ \/ /\ exited[s]
        /\ said' = [said EXCEPT ![s] = Ending(holds[s])]
        /\ at' = [at EXCEPT ![s] = "done"]
     \/ ~exited[s] /\ at' = [at EXCEPT ![s] = "poll"] /\ UNCHANGED said
  /\ UNCHANGED <<pass, exited, sent, gate_sent, shown>>

\* The page navigated away and its generator is closed; it may be opened again.
Leave(s) ==
  /\ at[s] \notin {"closed", "adopting"}
  /\ at' = [at EXCEPT ![s] = "closed"] /\ holds' = [holds EXCEPT ![s] = "none"]
  /\ exited' = [exited EXCEPT ![s] = FALSE] /\ sent' = [sent EXCEPT ![s] = 0]
  /\ gate_sent' = [gate_sent EXCEPT ![s] = FALSE]
  /\ shown' = [shown EXCEPT ![s] = FALSE]
  /\ said' = [said EXCEPT ![s] = "none"] /\ dead' = [dead EXCEPT ![s] = FALSE]
  /\ UNCHANGED <<outside, handle>>
-----------------------------------------------------------------------------
Pass(s) == Poll(s) \/ Drain(s) \/ ShowGate(s) \/ Finish(s)

Next == \/ MakeDirectory \/ Popen \/ Register \/ Cancel \/ KillAfter \/ Reboot
        \/ WriteLine \/ AskGate \/ Decide \/ WriteEnd \/ ChildDies \/ Listing
        \/ \E s \in Streams : Get(s) \/ Adopt(s) \/ Pass(s) \/ Leave(s)

Spec == Init /\ [][Next]_vars

\* Threads of a live server run on; a child, a person and a page owe nothing.
FairSpec == Spec /\ WF_vars(KillAfter) /\ \A s \in Streams : WF_vars(Pass(s))
-----------------------------------------------------------------------------
(* Properties *)

\* A stream on a handle of the process, or on a run that was over when it opened,
\* sends every line of the trace before done, and its done names the ending the
\* files have: the child cannot slip a line or its run_end in between.
DoneIsWhole ==
  \A s \in Streams : at[s] = "done" /\ (holds[s] = "owned" \/ dead[s]) =>
    /\ sent[s] = written
    /\ said[s] = "run_end" <=> written = RunEnd

\* A handle on a real process is never traded for the stand-in of an adopted run,
\* however a listing falls into spawn; only a restart forgets it.
OwnedStaysOwned ==
  [][handle = "owned" /\ handle' # "owned" => reboots' # reboots]_vars

\* A stream that stays open ends once its child has.
StreamsEnd ==
  \A s \in Streams : at[s] = "poll" /\ child = "dead" ~> at[s] \in {"done", "closed"}

\* A person is asked: while a run waits at its gate an open stream has shown the
\* request, or will, unless the wait or the stream is over.
GateIsShown ==
  \A s \in Streams :
    at[s] = "poll" /\ request = "whole" ~>
      shown[s] \/ decision \/ child = "dead" \/ at[s] \in {"done", "closed"}

\* POST .../cancel ends the child even if it sits out its SIGTERM, unless the server
\* goes first and takes the thread with it.
CancelKills == cancelled ~> child = "dead" \/ reboots = Reboots

=============================================================================
