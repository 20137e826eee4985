-------------------------------- MODULE Reach --------------------------------
(***************************************************************************)
(* One walk of the verifier over the call graph (art30/verify/reach.py,    *)
(* _search): breadth-first over the state (node, mode, passed), where the  *)
(* delete mode is set by the edges on the way and decides which edges may  *)
(* follow.  path_exists and from_symbol ask for one target, Reach.walk for *)
(* every node.  A record is accepted or refused on what this walk reaches. *)
(*                                                                         *)
(* A graph gives each node its out-edges in the order _out sorts them; the *)
(* loop over them is one action per edge.                                  *)
(***************************************************************************)
EXTENDS Naturals, Sequences

CONSTANTS Nodes,     \* symbols, stores, entry points
          NoNode,    \* target=None
          Graphs,    \* the repositories: out-edges of each node, sorted
          Queries    \* the questions asked of them

Modes == {"none", "model_delete", "queryset_delete", "db_cascade", "session_delete",
          "bulk_dml", "raw_sql"}

\* The modes in which each kind of edge is admissible, as its builder says.
AdmissibleModes ==
  [call |-> Modes, entry |-> Modes, SE7 |-> Modes, SE11 |-> Modes, SE12 |-> Modes,
   SE1 |-> {"model_delete", "queryset_delete"}, SE2 |-> {"model_delete", "queryset_delete"},
   SE3 |-> {"model_delete", "queryset_delete"}, SE4 |-> {"model_delete", "queryset_delete"},
   SE5 |-> {"session_delete"}, SE6 |-> {"session_delete"}, SE9 |-> {"session_delete"},
   SE8 |-> {"model_delete"}, SE10 |-> {"none"}]

EdgeKinds == DOMAIN AdmissibleModes

\* What the search itself lets through before a mode is set.
AdmissibleInNone == {"call", "entry", "SE10", "SE11", "SE12"}

Edges == [src: Nodes, dst: Nodes, kind: EdgeKinds, ambiguous: BOOLEAN,
          sets: (Modes \ {"none"}) \cup {"keep"}]

\* resolved: resolved_only; through: must_pass_through.
QueryType == [start: Nodes, target: Nodes \cup {NoNode}, through: SUBSET Nodes,
              resolved: BOOLEAN, blocked: SUBSET Nodes]

ASSUME ReachAssumption ==
  /\ NoNode \notin Nodes
  /\ Queries \subseteq QueryType
  /\ \A g \in Graphs : /\ g \in [Nodes -> Seq(Edges)]
                       /\ \A n \in Nodes : \A i \in 1..Len(g[n]) : g[n][i].src = n

VARIABLES
  graph, query,   \* what is walked and what is asked
  frontier,       \* the queue: search states with the path that led there
  seen,           \* search states enqueued so far
  found,          \* of each node: the arrival kept for it, as a set of at most one
  here, tried,    \* the arrival being expanded, how many of its edges are done with
  pc,
  answer          \* the arrival returned for a target, if any

reachVars == <<graph, query, frontier, seen, found, here, tried, pc, answer>>

\* A search state, and an arrival in it by a path.
States == [node: Nodes, mode: Modes, passed: BOOLEAN]
Arrivals == [at: States, path: Seq(Edges)]

ReachTypeOK ==
  /\ graph \in [Nodes -> Seq(Edges)] /\ query \in Queries
  /\ frontier \in Seq(Arrivals)
  /\ seen \subseteq States
  /\ found \in [Nodes -> SUBSET Arrivals]
  /\ here \in Arrivals /\ tried \in Nat
  /\ pc \in {"pop", "expand", "done"}
  /\ answer \subseteq Arrivals
-----------------------------------------------------------------------------

\* _out drops edges into blocked nodes, and guessed ones from a resolved walk.
Usable(e) == e.dst \notin query.blocked /\ ~(query.resolved /\ e.ambiguous)

\* Whether a walk in a mode may take an edge.
Admissible(e, mode) ==
  /\ Usable(e)
  /\ mode \in AdmissibleModes[e.kind]
  /\ mode = "none" => e.kind \in AdmissibleInNone

\* Mutant: the first delete on a path decides the mode for good.
AlongSticky(s, e) == [node |-> e.dst,
                      mode |-> IF e.sets = "keep" \/ s.mode # "none" THEN s.mode ELSE e.sets,
                      passed |-> s.passed \/ e.dst \in query.through]

\* The search state an edge leads to.
Along(s, e) == [node |-> e.dst,
                mode |-> IF e.sets = "keep" THEN s.mode ELSE e.sets,
                passed |-> s.passed \/ e.dst \in query.through]

StartState == [node |-> query.start, mode |-> "none",
               passed |-> query.through = {} \/ query.start \in query.through]

ReachInit ==
  /\ graph \in Graphs /\ query \in Queries
  /\ here = [at |-> StartState, path |-> <<>>] /\ tried = 0
  /\ frontier = <<here>>
  /\ seen = {StartState}
  /\ found = [n \in Nodes |-> {}]
  /\ pc = "pop" /\ answer = {}

\* The target is at the head of the queue: its path is the answer.
Arrive ==
  /\ pc = "pop" /\ frontier # <<>>
  /\ LET head == Head(frontier)
     IN /\ head.at.passed /\ head.at.node = query.target
        /\ answer' = {head}
  /\ frontier' = Tail(frontier)
  /\ pc' = "done"
  /\ UNCHANGED <<graph, query, seen, found, here, tried>>

\* Another state is taken up; the first arrival at a node is the one kept.
Pop ==
  /\ pc = "pop" /\ frontier # <<>>
  /\ LET head == Head(frontier)
     IN /\ ~(head.at.passed /\ head.at.node = query.target)
        /\ here' = head
        /\ found' = IF head.at.passed /\ found[head.at.node] = {}
                      THEN [found EXCEPT ![head.at.node] = {head}]
                      ELSE found
  /\ frontier' = Tail(frontier)
  /\ tried' = 0 /\ pc' = "expand"
  /\ UNCHANGED <<graph, query, seen, answer>>

MoreEdges == pc = "expand" /\ tried < Len(graph[here.at.node])
ThisEdge == graph[here.at.node][tried + 1]

\* An edge leads to a state nobody has enqueued.
Follow ==
  /\ MoreEdges
  /\ LET there == Along(here.at, ThisEdge)
     IN /\ Admissible(ThisEdge, here.at.mode)
        /\ there \notin seen
        /\ seen' = seen \cup {there}
        /\ frontier' = Append(frontier, [at |-> there, path |-> Append(here.path, ThisEdge)])
  /\ tried' = tried + 1
  /\ UNCHANGED <<graph, query, found, here, pc, answer>>

\* Mutant: a node is visited once, whatever the mode.
SkipVisited ==
  /\ MoreEdges
  /\ \/ ~Admissible(ThisEdge, here.at.mode)
     \/ \E s \in seen : s.node = ThisEdge.dst
  /\ tried' = tried + 1
  /\ UNCHANGED <<graph, query, frontier, seen, found, here, pc, answer>>

\* An edge that is not taken.
Skip ==
  /\ MoreEdges
  /\ ~Admissible(ThisEdge, here.at.mode) \/ Along(here.at, ThisEdge) \in seen
  /\ tried' = tried + 1
  /\ UNCHANGED <<graph, query, frontier, seen, found, here, pc, answer>>

\* All edges of this state are done with.
Expanded ==
  /\ pc = "expand" /\ tried = Len(graph[here.at.node])
  /\ pc' = "pop"
  /\ UNCHANGED <<graph, query, frontier, seen, found, here, tried, answer>>

\* The queue is empty: None for a target, the map of arrivals otherwise.
Exhausted ==
  /\ pc = "pop" /\ frontier = <<>>
  /\ pc' = "done"
  /\ UNCHANGED <<graph, query, frontier, seen, found, here, tried, answer>>

ReachNext == Arrive \/ Pop \/ Follow \/ Skip \/ Expanded \/ Exhausted

ReachSpec == ReachInit /\ [][ReachNext]_reachVars
FairReach == ReachSpec /\ WF_reachVars(ReachNext)
-----------------------------------------------------------------------------

\* The mode in which the edge at place k of a path is taken: what the last edge before
\* it that sets a mode has set.
ModeBefore(path, k, mode) ==
  \/ mode = "none" /\ \A i \in 1..(k - 1) : path[i].sets = "keep"
  \/ \E i \in 1..(k - 1) : /\ path[i].sets = mode
                           /\ \A j \in (i + 1)..(k - 1) : path[j].sets = "keep"

\* The edges a delete has to come before: each is a consequence of one.
Consequences == {"SE1", "SE2", "SE3", "SE4", "SE5", "SE6", "SE7", "SE8", "SE9"}

\* A path of the graph, no step of it blocked or, in a resolved walk, guessed, in which
\* every consequence of a delete follows a delete of the kind that has it.
IsWalk(path) ==
  \A k \in 1..Len(path) :
    /\ path[k].src = IF k = 1 THEN query.start ELSE path[k - 1].dst
    /\ \E i \in 1..Len(graph[path[k].src]) : graph[path[k].src][i] = path[k]
    /\ path[k].dst \notin query.blocked
    /\ query.resolved => ~path[k].ambiguous
    /\ \E mode \in AdmissibleModes[path[k].kind] :
         /\ ModeBefore(path, k, mode)
         /\ path[k].kind \in Consequences => mode # "none"

\* An arrival says what its path does: where it ends, the mode it ends in, and whether
\* it came past a node it had to pass.
Truthful(a) ==
  /\ IsWalk(a.path)
  /\ a.at.node = IF a.path = <<>> THEN query.start ELSE a.path[Len(a.path)].dst
  /\ a.at.mode \in Modes /\ ModeBefore(a.path, Len(a.path) + 1, a.at.mode)
  /\ a.at.passed <=> \/ query.through = {} \/ query.start \in query.through
                     \/ \E k \in 1..Len(a.path) : a.path[k].dst \in query.through

\* What the record cites is a path of the code: an erasure is never read off a guessed
\* call in a resolved walk, a blocked node, or a cascade, signal or override edge taken
\* before a primitive had set a delete mode that admits it (03-verifier 4.2, 5.2).
PathsAreWalks ==
  /\ \A n \in Nodes : \A a \in found[n] : Truthful(a) /\ a.at.node = n /\ a.at.passed
  /\ \A a \in answer : Truthful(a) /\ a.at.node = query.target /\ a.at.passed

\* A walk that ends without its target has missed nothing: what it has enqueued holds
\* the start and is closed under every edge it may take, cycles and all, and every
\* node reached past what it had to pass is in the map.
NothingMissed ==
  pc = "done" /\ answer = {} =>
    /\ StartState \in seen
    /\ \A s \in seen : \A i \in 1..Len(graph[s.node]) :
         Admissible(graph[s.node][i], s.mode) => Along(s, graph[s.node][i]) \in seen
    /\ \A s \in seen : s.passed => found[s.node] # {} /\ s.node # query.target
=============================================================================
