----------------------------- MODULE GateExchange -----------------------------
(***************************************************************************)
(* The file gate (--approve file): the run writes gate/request.json and    *)
(* polls for gate/decision.json; somebody else writes the decision.  On    *)
(* the website that is a handler thread per POST (art30/web/api.py gate,   *)
(* art30/web/runs.py write_decision), in a folder one run owns.  From the  *)
(* command line it is a person with an editor or a script, in a folder     *)
(* that successive runs of one case share.                                 *)
(*                                                                         *)
(* A file is an inode: a name points at it, a writer that has it open goes *)
(* on writing to it after a rename.  An inode is named after the writer    *)
(* that created it and its content is whose payload it holds.              *)
(***************************************************************************)
EXTENDS Naturals, FiniteSets

CONSTANTS Posters,   \* POST /api/runs/<id>/gate requests in flight
          Hands,     \* answers written straight into the folder
          Gates,     \* bound of the model: successive runs that share a CLI folder
          NoOne      \* no writer, no inode

ASSUME GateAssumption == /\ Posters \cap Hands = {} /\ IsFiniteSet(Posters)
                         /\ NoOne \notin Posters \cup Hands
                         /\ Gates \in Nat \ {0}
                         /\ (Posters \cup Hands) \cap {"open", "timeout", "killed", "empty",
                                                     "mixed", "none"} = {}

Writers == Posters \cup Hands

VARIABLES
  site,      \* "web": posters, one gate; "cli": hands, up to Gates gates
  gate,      \* the run that holds the folder, by number
  child,     \* where that run stands
  deadline,  \* how long it waits, "none" before it polls, "passed" once that is over
  request,   \* request.json: the gate that wrote it, 0 if absent
  whole,     \* its bytes are all there
  decision,  \* the inode decision.json points at
  part,      \* the inode decision.part points at
  data,      \* content of each inode: a writer's payload, "empty" or "mixed"
  stale,     \* inodes moved aside
  verdict,   \* of each gate: the writer obeyed, "timeout", "killed" or "open"
  pc, fd,    \* of each writer: where it stands, the inode it has open
  left       \* of each gate: the writers whose answer was there when it moved aside

folder == <<request, whole, decision, part, data, stale>>
people == <<pc, fd>>
vars == <<site, gate, child, deadline, folder, verdict, people, left>>

ChildStates == {"away", "arrived", "asking", "writing", "polling", "checking", "over"}
WriterStates == {"idle", "posted", "checked", "open", "written",
                 "200", "409", "410", "500", "saved"}

\* What the files hold, who holds them open and where everybody stands.
TypeOK ==
  /\ site \in {"web", "cli"}
  /\ gate \in 1..Gates
  /\ child \in ChildStates
  /\ deadline \in {"none", "default", "given", "passed"}
  /\ request \in 0..Gates /\ whole \in BOOLEAN
  /\ decision \in Writers \cup {NoOne} /\ part \in Writers \cup {NoOne}
  /\ data \in [Writers -> Writers \cup {"empty", "mixed"}]
  /\ stale \subseteq Writers
  /\ verdict \in [1..Gates -> Writers \cup {"open", "timeout", "killed"}]
  /\ pc \in [Writers -> WriterStates]
  /\ fd \in [Writers -> Writers \cup {NoOne}]
  /\ left \in [1..Gates -> SUBSET Writers]

Init ==
  /\ site \in {"web", "cli"}
  /\ gate = 1 /\ child = "away" /\ deadline = "none"
  /\ request = 0 /\ whole = FALSE
  /\ decision = NoOne /\ part = NoOne
  /\ data = [w \in Writers |-> "empty"]
  /\ stale = {}
  /\ verdict = [g \in 1..Gates |-> "open"]
  /\ pc = [w \in Writers |-> "idle"]
  /\ fd = [w \in Writers |-> NoOne]
  /\ left = [g \in 1..Gates |-> {}]

Payload(inode) == IF inode = NoOne THEN "none" ELSE data[inode]

\* _read_decision: None for a file that is absent, half-written or not JSON.
Readable == Payload(decision) \in Writers
-----------------------------------------------------------------------------
(* The run: advanced/gate.py _file_gate *)

Arrive ==
  /\ child = "away" /\ verdict[gate] = "open"
  /\ child' = "arrived"
  /\ UNCHANGED <<site, gate, deadline, folder, verdict, people, left>>

\* Mutant: an earlier answer is left where the poll finds it.
MoveNothing ==
  /\ child = "arrived"
  /\ child' = "asking"
  /\ left' = [left EXCEPT ![gate] = {Payload(decision)} \cap Writers]
  /\ UNCHANGED <<site, gate, deadline, folder, verdict, people>>

\* A decision an earlier gate left behind is renamed, so its inode lives on.
MoveAside ==
  /\ child = "arrived"
  /\ child' = "asking"
  /\ left' = [left EXCEPT ![gate] = {Payload(decision)} \cap Writers]
  /\ stale' = stale \cup ({decision} \cap Writers)
  /\ decision' = NoOne
  /\ UNCHANGED <<site, gate, deadline, request, whole, part, data, verdict, people>>

\* write_text: the file is there, and empty, before its bytes are.
Ask ==
  /\ child = "asking"
  /\ child' = "writing"
  /\ request' = gate /\ whole' = FALSE
  /\ UNCHANGED <<site, gate, deadline, decision, part, data, stale, verdict, people, left>>

\* What ART30_GATE_TIMEOUT may be set to: a time or none that float makes sense of.
Waits == {"unset", "text", "nan", "inf", "zero", "given"}

\* Mutant: a wait is taken as float reads it.
AnyWait(raw) == IF raw \in {"unset", "text"} THEN "default" ELSE raw

\* _timeout: a wait a run can reach, and the default for any other.
Timeout(raw) == IF raw \in {"unset", "text", "nan", "inf", "zero"} THEN "default" ELSE raw

\* The request is written; the wait begins.
Asked ==
  /\ child = "writing"
  /\ child' = "polling"
  /\ whole' = TRUE
  /\ \E raw \in Waits : deadline' = Timeout(raw)
  /\ UNCHANGED <<site, gate, request, decision, part, data, stale, verdict,
                 people, left>>

Obey ==
  /\ child = "polling" /\ Readable
  /\ verdict' = [verdict EXCEPT ![gate] = data[decision]]
  /\ child' = "over"
  /\ UNCHANGED <<site, gate, deadline, folder, people, left>>

Nothing ==
  /\ child = "polling" /\ ~Readable
  /\ child' = "checking"
  /\ UNCHANGED <<site, gate, deadline, folder, verdict, people, left>>

Sleep ==
  /\ child = "checking" /\ deadline # "passed"
  /\ child' = "polling"
  /\ UNCHANGED <<site, gate, deadline, folder, verdict, people, left>>

\* The clock reaches a deadline that is a number; to nan and inf it never compares as reached.
Expire ==
  /\ child \in {"polling", "checking"} /\ deadline \in {"zero", "default", "given"}
  /\ deadline' = "passed"
  /\ UNCHANGED <<site, gate, child, folder, verdict, people, left>>

GiveUp ==
  /\ child = "checking" /\ deadline = "passed"
  /\ verdict' = [verdict EXCEPT ![gate] = "timeout"]
  /\ child' = "over"
  /\ UNCHANGED <<site, gate, deadline, folder, people, left>>

\* POST .../cancel, Ctrl-C, or a crash: the run is gone, its files stay.
Killed ==
  /\ child # "over"
  /\ verdict' = [verdict EXCEPT ![gate] = "killed"]
  /\ child' = "over"
  /\ UNCHANGED <<site, gate, deadline, folder, people, left>>

\* The next run of the case, in the same folder: art30 scan without --out.
NextRun ==
  /\ site = "cli" /\ child = "over" /\ gate < Gates
  /\ gate' = gate + 1
  /\ child' = "away" /\ deadline' = "none"
  /\ UNCHANGED <<site, folder, verdict, people, left>>
-----------------------------------------------------------------------------
(* The writers *)

Post(p) ==
  /\ site = "web" /\ pc[p] = "idle"
  /\ pc' = [pc EXCEPT ![p] = "posted"]
  /\ UNCHANGED <<site, gate, child, deadline, folder, verdict, fd, left>>

\* api.gate: 409 before the request exists, 410 once a decision does.
Check(p) ==
  /\ pc[p] = "posted"
  /\ pc' = [pc EXCEPT ![p] = IF request = 0 THEN "409"
                             ELSE IF decision # NoOne THEN "410" ELSE "checked"]
  /\ UNCHANGED <<site, gate, child, deadline, folder, verdict, fd, left>>

\* open(name, "w"): a new inode, or the one that is there with nothing left in it.
Opens(w, name) ==
  LET inode == IF name = NoOne THEN w ELSE name
  IN /\ fd' = [fd EXCEPT ![w] = inode]
     /\ data' = [data EXCEPT ![inode] = "empty"]
     /\ pc' = [pc EXCEPT ![w] = "open"]

\* Mutant: the decision is written in place.
OpenInPlace(p) ==
  /\ pc[p] = "checked"
  /\ Opens(p, decision)
  /\ decision' = fd'[p]
  /\ UNCHANGED <<site, gate, child, deadline, request, whole, part, stale, verdict, left>>

\* Both posters' scratch file has one name: decision.part.
OpenPart(p) ==
  /\ pc[p] = "checked"
  /\ Opens(p, part)
  /\ part' = fd'[p]
  /\ UNCHANGED <<site, gate, child, deadline, request, whole, decision, stale, verdict, left>>

\* A person with an editor, or a script, which may well be ahead of the request.
OpenDecision(h) ==
  /\ site = "cli" /\ pc[h] = "idle"
  /\ Opens(h, decision)
  /\ decision' = fd'[h]
  /\ UNCHANGED <<site, gate, child, deadline, request, whole, part, stale, verdict, left>>

\* The bytes land at the start of the file: over a longer payload they leave its tail.
Write(w) ==
  /\ pc[w] = "open"
  /\ data' \in {[data EXCEPT ![fd[w]] = what] :
                  what \in IF data[fd[w]] = "empty" THEN {w} ELSE {w, "mixed"}}
  /\ pc' = [pc EXCEPT ![w] = IF w \in Hands THEN "saved" ELSE "written"]
  /\ UNCHANGED <<site, gate, child, deadline, request, whole, decision, part, stale,
                 verdict, fd, left>>

\* scratch.replace(decision): a scratch file another request already moved is a 500.
Replace(p) ==
  /\ pc[p] = "written"
  /\ \/ /\ part # NoOne
        /\ decision' = part /\ part' = NoOne
        /\ pc' = [pc EXCEPT ![p] = "200"]
     \/ /\ part = NoOne
        /\ pc' = [pc EXCEPT ![p] = "500"]
        /\ UNCHANGED <<decision, part>>
  /\ UNCHANGED <<site, gate, child, deadline, request, whole, data, stale, verdict, fd, left>>
-----------------------------------------------------------------------------
Run == Arrive \/ MoveAside \/ Ask \/ Asked \/ Obey \/ Nothing \/ Sleep \/ GiveUp
Serve(p) == Check(p) \/ OpenPart(p) \/ Write(p) \/ Replace(p)

Next ==
  \/ Run \/ Expire \/ Killed \/ NextRun
  \/ \E w \in Writers : Write(w)
  \/ \E p \in Posters : Post(p) \/ Check(p) \/ OpenPart(p) \/ Replace(p)
  \/ \E h \in Hands : OpenDecision(h)

Spec == Init /\ [][Next]_vars

\* The run's own steps and its clock go on, and so does a handler that was started.
\* Nobody has to answer, and nothing has to be killed.
FairSpec == /\ Spec
            /\ WF_vars(Run)
            /\ WF_vars(Expire)
            /\ \A p \in Posters : WF_vars(Serve(p))
-----------------------------------------------------------------------------
(* Properties *)

\* "A decision an earlier gate left in the folder is stamped and moved aside": an
\* answer that was complete when a run reached its gate never decides that run,
\* wherever the writers, the earlier runs and the kills fall.
OldAnswersIgnored ==
  \A g \in 1..Gates : verdict[g] \in Writers => verdict[g] \notin left[g]

\* On the website no decision and no scratch file exists before the run asked for
\* one: the 409 of api.gate is what keeps a POST from answering ahead of the gate.
AnswerFollowsRequest ==
  site = "web" /\ (decision # NoOne \/ part # NoOne) => request = gate

PastCheck == {p \in Posters : pc[p] \in {"checked", "open", "written", "200", "500"}}

\* A POST that no other POST overlaps is atomic for the poller and binding: the
\* decision name never shows half a file, a 200 is in the file, and if the run
\* obeys anybody it obeys that one.
AloneIsHonest ==
  site = "web" /\ Cardinality(PastCheck) <= 1 =>
    /\ Payload(decision) \in Writers \cup {"none"}
    /\ \A p \in PastCheck : /\ pc[p] = "200" => Payload(decision) = p
                            /\ verdict[1] \in Writers => verdict[1] = p /\ pc[p] = "200"

\* The poll ends: an answer, the deadline or a kill, even over a file nobody can
\* ever parse and whatever ART30_GATE_TIMEOUT is set to (gate.py:199, _timeout).
GateEnds == child = "polling" ~> child = "over"

=============================================================================
