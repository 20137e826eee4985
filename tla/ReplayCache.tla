------------------------------ MODULE ReplayCache ------------------------------
(***************************************************************************)
(* The recordings of one slot: llm.py Cache and call.  A live run with     *)
(* recording on writes each answer to <step>.json under the hash of its    *)
(* request, which holds the whole conversation so far; a replay reads the  *)
(* answers back and takes none whose hash is not that of its own request.  *)
(* The slot is emptied at a recording's first write.  Several processes    *)
(* may use one slot, and any of them may die, also in the middle of a      *)
(* write.                                                                  *)
(*                                                                         *)
(* A request is [cfg, said]: the parameters that are hashed (model,        *)
(* effort, budgets, prompt) and the answers given so far.                  *)
(***************************************************************************)
EXTENDS Naturals, Sequences

CONSTANTS Recorders, Replays,   \* processes: live ones that record, and replays
          Configs,
          Answers, Finals,   \* what the API may say; the answers after which a run asks no more
          MaxSteps    \* bound: the longest conversation

ASSUME CacheAssumption == /\ MaxSteps \in Nat \ {0} /\ Finals \subseteq Answers
                          /\ Recorders \cap Replays = {}

VARIABLES slot,      \* step -> [request, answer], without an answer while the file is not whole
          cfg,       \* run -> its parameters
          said,      \* run -> the answers it has been given
          state,     \* run -> ready, writing, ended, missed or died
          cleared,   \* runs that have emptied the slot
          sole       \* the recorder that emptied the slot last, while no other wrote (history)

Runs == Recorders \cup Replays

cacheVars == <<slot, cfg, said, state, cleared, sole>>

\* build_request and request_hash: equal hashes are equal requests.
Request(r) == [cfg |-> cfg[r], said |-> said[r]]

Step(r) == Len(said[r]) + 1

\* The loop goes on after this many answers.
Asks(r) == Len(said[r]) < MaxSteps /\ \A i \in DOMAIN said[r] : said[r][i] \notin Finals

Entry(r) ==
  LET step == Len(said[r])
  IN  [request |-> [cfg |-> cfg[r], said |-> SubSeq(said[r], 1, step - 1)], answer |-> {said[r][step]}]

\* A file that was opened, or that two runs wrote at once.
Half(r) == [Entry(r) EXCEPT !.answer = {}]

CacheInit ==
  /\ slot = <<>>
  /\ cfg \in [Runs -> Configs]
  /\ said = [r \in Runs |-> <<>>]
  /\ state = [r \in Runs |-> "ready"]
  /\ cleared = {} /\ sole = {}

\* call, live: the API answers, and Cache.write opens the file of the step, in a slot that it
\* empties once per process.
Opened(r, a, kept) ==
  LET step == Len(said[r]) + 1
      half == [request |-> Request(r), answer |-> {}]
  IN  /\ r \in Recorders /\ state[r] = "ready" /\ Asks(r)
      /\ said' = [said EXCEPT ![r] = Append(@, a)]
      /\ slot' = [n \in kept \cup {step} |-> IF n = step THEN half ELSE slot[n]]
      /\ sole' = IF r \notin cleared THEN {r} ELSE sole \cap {r}
      /\ cleared' = cleared \cup {r}
      /\ state' = [state EXCEPT ![r] = "writing"]
      /\ UNCHANGED cfg

\* Mutant: an earlier, longer recording is written over and not removed.
LiveOver(r) == \E a \in Answers : Opened(r, a, DOMAIN slot)

Live(r) == \E a \in Answers : Opened(r, a, IF r \in cleared THEN DOMAIN slot ELSE {})

\* ... and filled.  If another run has removed or opened it since, the bytes go nowhere, to
\* the other's file, or into a mixture.
WriteEntry(r) ==
  /\ state[r] = "writing"
  /\ LET step == Len(said[r])
         Written(e) == [n \in DOMAIN slot |-> IF n = step THEN e ELSE slot[n]]
     IN  IF step \in DOMAIN slot /\ slot[step] = Half(r) /\ sole = {r}
           THEN slot' = Written(Entry(r)) /\ UNCHANGED sole
           ELSE slot' \in {slot, Written(Entry(r)), Written(Half(r))} /\ sole' = {}
  /\ state' = [state EXCEPT ![r] = "ready"]
  /\ UNCHANGED <<cfg, said, cleared>>

\* Mutant: the hash is of the parameters and leaves the conversation out.
HitByStep(r, entry) ==
  entry.request.cfg = cfg[r] /\ Len(entry.request.said) = Len(said[r])

\* Cache.read: the stored hash is the request's.
Hit(r, entry) == entry.request = Request(r)

\* A replay asks for its next step: a hit, a ReplayMiss, or a file that does not parse.
Read(r) ==
  /\ r \in Replays /\ state[r] = "ready" /\ Asks(r)
  /\ LET there == Step(r) \in DOMAIN slot
         entry == slot[Step(r)]
     IN  \/ /\ there /\ entry.answer # {} /\ Hit(r, entry)
            /\ \E a \in entry.answer : said' = [said EXCEPT ![r] = Append(@, a)]
            /\ UNCHANGED state
         \/ /\ there => entry.answer # {} /\ ~Hit(r, entry)
            /\ state' = [state EXCEPT ![r] = "missed"]
            /\ UNCHANGED said
         \/ /\ there /\ entry.answer = {}
            /\ state' = [state EXCEPT ![r] = "died"]
            /\ UNCHANGED said
  /\ UNCHANGED <<slot, cfg, cleared, sole>>

\* The run asks no more.
End(r) ==
  /\ state[r] = "ready" /\ ~Asks(r)
  /\ state' = [state EXCEPT ![r] = "ended"]
  /\ UNCHANGED <<slot, cfg, said, cleared, sole>>

\* A recording ends with a failed call, or with its process, at any point; a replay that is
\* killed leaves nothing behind.
Die(r) ==
  /\ r \in Recorders /\ state[r] \in {"ready", "writing"}
  /\ state' = [state EXCEPT ![r] = "died"]
  /\ UNCHANGED <<slot, cfg, said, cleared, sole>>

CacheNext ==
  \E r \in Runs : Live(r) \/ WriteEntry(r) \/ Read(r) \/ End(r) \/ Die(r)

CacheSpec == CacheInit /\ [][CacheNext]_cacheVars
-----------------------------------------------------------------------------
\* llm.py Cache.read: whatever recordings were made into the slot, over each other, at the
\* same time or broken off, what a replay is told is the beginning of one conversation that
\* was really had with these parameters.
ReplayIsOneRecording ==
  \A r \in Replays : said[r] # <<>> =>
    \E q \in Recorders : /\ cfg[q] = cfg[r] /\ Len(said[q]) >= Len(said[r])
                         /\ SubSeq(said[q], 1, Len(said[r])) = said[r]

\* llm.py Cache.write, "The slot is exactly the run it recorded": a recording that came to
\* its end, and that no other run wrote into, is what the slot holds, every step of it and
\* none of an older one.
SlotIsTheRun ==
  \A r \in sole : state[r] = "ended" =>
    /\ DOMAIN slot = DOMAIN said[r]
    /\ \A n \in DOMAIN slot : /\ slot[n].answer = {said[r][n]}
                              /\ slot[n].request = [cfg |-> cfg[r], said |-> SubSeq(said[r], 1, n - 1)]
=============================================================================
