------------------------------ MODULE Files_proofs ------------------------------
(***************************************************************************)
(* What the files that several processes write can be relied on for, for   *)
(* every number of writers and every content: the recordings of a slot     *)
(* (ReplayCache), the locks and the requests of a scan that starts while   *)
(* somebody writes the settings (Scans), and the ceiling of live sweeps    *)
(* over a ledger that nobody locks (Ledger).                               *)
(***************************************************************************)
EXTENDS Scans, Ledger, ReplayCache, SequenceTheorems, FiniteSetTheorems, WellFoundedInduction,
        TLAPS

-----------------------------------------------------------------------------
(* The recordings.  One invariant on the files (whatever is whole in the slot was *)
(* really said, at that step, to a conversation that began as its request says)   *)
(* carries what a replay is told; a second one follows the recorder that is alone.*)

\* What the n-th file of run q is when it is whole.
Whole(q, n) ==
  [request |-> [cfg |-> cfg[q], said |-> SubSeq(said[q], 1, n - 1)], answer |-> {said[q][n]}]

Typed ==
  /\ said \in [Runs -> Seq(Answers)]
  /\ state \in [Runs -> {"ready", "writing", "ended", "missed", "died"}]
  /\ \A r \in Runs : state[r] = "writing" => r \in Recorders /\ said[r] # <<>>
  /\ sole \subseteq cleared /\ cleared \subseteq Recorders

\* A file with an answer is the file of some recorder's step.
Filed ==
  \A n \in DOMAIN slot : slot[n].answer # {} =>
    \E q \in Recorders : n \in DOMAIN said[q] /\ slot[n] = Whole(q, n)

\* Who has not emptied the slot has not been answered.
Fresh == \A q \in Recorders \ cleared : said[q] = <<>>

\* The recorder that is alone has every file of its conversation there, but for the one that
\* it is writing or that it died over.
Alone ==
  \A r \in sole :
    /\ sole = {r} /\ DOMAIN slot = DOMAIN said[r]
    /\ \A n \in DOMAIN slot :
         n < Len(said[r]) \/ state[r] \in {"ready", "ended"} => slot[n] = Whole(r, n)

CInv == Typed /\ Filed /\ Fresh /\ Alone /\ ReplayIsOneRecording

-----------------------------------------------------------------------------
(* Sequences *)

\* A beginning of a conversation stays one when it goes on.
LEMMA Longer ==
  ASSUME NEW S, NEW s \in Seq(S), NEW a \in S, NEW n \in 0..Len(s)
  PROVE  /\ SubSeq(Append(s, a), 1, n) = SubSeq(s, 1, n)
         /\ n \in DOMAIN s => Append(s, a)[n] = s[n]
<1>1. /\ Append(s, a) \in Seq(S) /\ Len(Append(s, a)) = Len(s) + 1
      /\ \A i \in 1..Len(s) : Append(s, a)[i] = s[i]
  BY AppendProperties
<1>2. CASE n = 0 BY <1>1, <1>2, SubSeqEmpty
<1>3. CASE n # 0
  <2>1. n \in 1..Len(s) BY <1>3
  <2>2. /\ SubSeq(Append(s, a), 1, n) \in Seq(S) /\ SubSeq(s, 1, n) \in Seq(S)
        /\ Len(SubSeq(Append(s, a), 1, n)) = n /\ Len(SubSeq(s, 1, n)) = n
        /\ \A i \in 1..n : SubSeq(Append(s, a), 1, n)[i] = SubSeq(s, 1, n)[i]
    BY <1>1, <2>1, SubSeqProperties
  <2> QED BY <1>1, <2>1, <2>2, SeqEqual
<1> QED BY <1>2, <1>3

\* One answer more.
LEMMA OneMore ==
  ASSUME NEW S, NEW s \in Seq(S), NEW n \in 1..Len(s)
  PROVE  SubSeq(s, 1, n) = Append(SubSeq(s, 1, n - 1), s[n])
<1>1. s[n] \in S /\ SubSeq(s, 1, n) \in Seq(S) /\ Len(SubSeq(s, 1, n)) = n
  BY SubSeqProperties, ElementOfSeq
<1>2. SubSeq(s, 1, n - 1) \in Seq(S) /\ Len(SubSeq(s, 1, n - 1)) = n - 1
  BY SubSeqProperties
<1>3. /\ Append(SubSeq(s, 1, n - 1), s[n]) \in Seq(S)
      /\ Len(Append(SubSeq(s, 1, n - 1), s[n])) = n
  BY <1>1, <1>2, AppendProperties
<1>4. ASSUME NEW i \in 1..n
      PROVE  SubSeq(s, 1, n)[i] = Append(SubSeq(s, 1, n - 1), s[n])[i]
  <2>1. SubSeq(s, 1, n)[i] = s[i] BY SubSeqProperties
  <2>2. CASE i = n BY <1>1, <1>2, <2>1, <2>2, AppendProperties
  <2>3. CASE i # n
    <3>1. i \in 1..(n - 1) BY <2>3
    <3>2. SubSeq(s, 1, n - 1)[i] = s[i] BY <3>1, SubSeqProperties
    <3> QED BY <1>1, <1>2, <2>1, <3>1, <3>2, AppendProperties
  <2> QED BY <2>2, <2>3
<1> QED BY <1>1, <1>3, <1>4, SeqEqual

-----------------------------------------------------------------------------
(* The steps *)

\* An empty slot, and nobody answered.
LEMMA InitHolds == CacheInit => CInv
  BY CacheAssumption DEF CacheInit, CInv, Typed, Filed, Fresh, Alone, ReplayIsOneRecording, Runs

\* A conversation that goes on keeps what was whole, and what replays heard.
LEMMA LiveKeeps ==
  ASSUME CInv, NEW r \in Runs, Live(r)
  PROVE  CInv'
<1> DEFINE step == Len(said[r]) + 1
           kept == IF r \in cleared THEN DOMAIN slot ELSE {}
           half == [request |-> Request(r), answer |-> {}]
<1>1. PICK a \in Answers : Opened(r, a, kept) BY DEF Live
<1>2. /\ r \in Recorders /\ state[r] = "ready" /\ cfg' = cfg
      /\ said' = [said EXCEPT ![r] = Append(@, a)]
      /\ slot' = [n \in kept \cup {step} |-> IF n = step THEN half ELSE slot[n]]
      /\ sole' = IF r \notin cleared THEN {r} ELSE sole \cap {r}
      /\ cleared' = cleared \cup {r}
      /\ state' = [state EXCEPT ![r] = "writing"]
  BY <1>1 DEF Opened
<1>3. /\ said \in [Runs -> Seq(Answers)] /\ said[r] \in Seq(Answers)
      /\ Len(said[r]) \in Nat /\ DOMAIN said[r] = 1..Len(said[r])
  BY LenProperties DEF CInv, Typed
<1>4. /\ said'[r] = Append(said[r], a) /\ said'[r] \in Seq(Answers)
      /\ Len(said'[r]) = step /\ DOMAIN said'[r] = 1..step
  BY <1>2, <1>3, AppendProperties, LenProperties
<1>5. \A q \in Runs : q # r => said'[q] = said[q] BY <1>2, <1>3
<1>6. Typed' BY <1>2, <1>3, <1>4 DEF CInv, Typed, Runs
<1>7. ASSUME NEW q \in Runs, NEW n \in DOMAIN said[q]
      PROVE  n \in DOMAIN said'[q] /\ Whole(q, n)' = Whole(q, n)
  <2>1. CASE q # r BY <1>2, <1>5, <2>1 DEF Whole
  <2>2. CASE q = r
    <3>1. n \in 1..Len(said[r]) /\ n - 1 \in 0..Len(said[r]) /\ n \in 0..Len(said[r])
      BY <1>3, <1>7, <2>2
    <3>2. SubSeq(said'[r], 1, n - 1) = SubSeq(said[r], 1, n - 1) /\ said'[r][n] = said[r][n]
      BY <1>3, <1>4, <3>1, Longer
    <3>3. n \in DOMAIN said'[r] BY <1>4, <1>3, <3>1
    <3>4. Whole(r, n)' = Whole(r, n) BY <1>2, <3>2 DEF Whole
    <3> QED BY <2>2, <3>3, <3>4
  <2> QED BY <2>1, <2>2
<1>8. Filed'
  <2> SUFFICES ASSUME NEW n \in DOMAIN slot', slot'[n].answer # {}
               PROVE  \E q \in Recorders : n \in DOMAIN said'[q] /\ slot'[n] = Whole(q, n)'
    BY DEF Filed
  <2>1. n # step /\ n \in kept /\ slot'[n] = slot[n] BY <1>2
  <2>2. n \in DOMAIN slot BY <2>1
  <2>3. PICK q \in Recorders : n \in DOMAIN said[q] /\ slot[n] = Whole(q, n)
    BY <2>1, <2>2 DEF CInv, Filed
  <2>4. q \in Runs BY DEF Runs
  <2> QED BY <1>7, <2>1, <2>3, <2>4
<1>9. Fresh' BY <1>2, <1>5 DEF CInv, Fresh, Runs
<1>10. Alone'
  <2> SUFFICES ASSUME NEW q \in sole'
               PROVE  /\ sole' = {q} /\ DOMAIN slot' = DOMAIN said'[q]
                      /\ \A n \in DOMAIN slot' :
                           n < Len(said'[q]) \/ state'[q] \in {"ready", "ended"} => slot'[n] = Whole(q, n)'
    BY DEF Alone
  <2>1. q = r /\ sole' = {r} BY <1>2
  <2>2. state'[r] = "writing" BY <1>2 DEF CInv, Typed
  <2>3. kept = DOMAIN said[r] /\ \A n \in kept : slot[n] = Whole(r, n)
    <3>1. CASE r \notin cleared
      <4>1. said[r] = <<>> BY <1>2, <3>1 DEF CInv, Fresh
      <4> QED BY <3>1, <4>1
    <3>2. CASE r \in cleared
      <4>1. r \in sole BY <1>2, <2>1, <3>2
      <4> QED BY <1>2, <3>2, <4>1 DEF CInv, Alone
    <3> QED BY <3>1, <3>2
  <2>4. DOMAIN slot' = 1..step BY <1>2, <1>3, <2>3
  <2>5. ASSUME NEW n \in DOMAIN slot', n < step PROVE slot'[n] = Whole(r, n)'
    <3>1. n \in DOMAIN said[r] /\ n # step BY <1>3, <2>4, <2>5
    <3>2. slot'[n] = slot[n] /\ slot[n] = Whole(r, n) BY <1>2, <2>3, <3>1
    <3> QED BY <1>7, <3>1, <3>2
  <2> QED BY <1>4, <2>1, <2>2, <2>4, <2>5
<1>11. ReplayIsOneRecording'
  <2> SUFFICES ASSUME NEW p \in Replays, said'[p] # <<>>
               PROVE  \E q \in Recorders : /\ cfg'[q] = cfg'[p] /\ Len(said'[q]) >= Len(said'[p])
                                           /\ SubSeq(said'[q], 1, Len(said'[p])) = said'[p]
    BY DEF ReplayIsOneRecording
  <2>1. p # r /\ said'[p] = said[p]
    BY <1>2, <1>5, CacheAssumption DEF CacheAssumption, Runs
  <2>2. PICK q \in Recorders : /\ cfg[q] = cfg[p] /\ Len(said[q]) >= Len(said[p])
                               /\ SubSeq(said[q], 1, Len(said[p])) = said[p]
    BY <2>1 DEF CInv, ReplayIsOneRecording
  <2>3. CASE q # r BY <1>2, <1>5, <2>1, <2>2, <2>3 DEF Runs
  <2>4. CASE q = r
    <3>1. Len(said[p]) \in 0..Len(said[r])
      BY <1>3, <2>2, <2>4, LenProperties DEF Runs
    <3> QED BY <1>2, <1>3, <1>4, <2>1, <2>2, <2>4, <3>1, Longer
  <2> QED BY <2>3, <2>4
<1> QED BY <1>6, <1>8, <1>9, <1>10, <1>11 DEF CInv

\* The conversations stay; a file is left, filled or spoilt.
LEMMA WriteKeeps ==
  ASSUME CInv, NEW r \in Runs, r \in Recorders, WriteEntry(r)
  PROVE  CInv'
<1> DEFINE step == Len(said[r])
           Written(e) == [n \in DOMAIN slot |-> IF n = step THEN e ELSE slot[n]]
<1>1. /\ state[r] = "writing" /\ state' = [state EXCEPT ![r] = "ready"]
      /\ cfg' = cfg /\ said' = said /\ cleared' = cleared
  BY DEF WriteEntry
<1>2. \/ slot' = Written(Entry(r)) /\ sole' = sole /\ sole = {r}
      \/ slot' \in {slot, Written(Entry(r)), Written(Half(r))} /\ sole' = {}
  BY DEF WriteEntry
<1>3. Entry(r) = Whole(r, step) /\ Half(r).answer = {}
  BY DEF Entry, Whole, Half
<1>4. said[r] \in Seq(Answers) /\ DOMAIN said[r] = 1..step /\ step \in Nat
  BY LenProperties DEF CInv, Typed
<1>5. Typed' BY <1>1, <1>2 DEF CInv, Typed
<1>6. Fresh' BY <1>1 DEF CInv, Fresh
<1>7. ReplayIsOneRecording' BY <1>1 DEF CInv, ReplayIsOneRecording
<1>8. Filed'
  <2> SUFFICES ASSUME NEW n \in DOMAIN slot', slot'[n].answer # {}
               PROVE  \E q \in Recorders : n \in DOMAIN said[q] /\ slot'[n] = Whole(q, n)
    BY <1>1 DEF Filed, Whole
  <2>1. n \in DOMAIN slot /\ slot'[n] \in {slot[n], Entry(r), Half(r)} BY <1>2
  <2>2. CASE slot'[n] = slot[n] BY <2>1, <2>2 DEF CInv, Filed
  <2>3. CASE slot'[n] = Entry(r) /\ slot'[n] # slot[n]
    <3>1. n = step BY <1>2, <2>3
    <3>2. step \in DOMAIN said[r] BY <1>1, <1>4 DEF CInv, Typed
    <3> QED BY <1>3, <2>3, <3>1, <3>2
  <2> QED BY <1>3, <2>1, <2>2, <2>3
<1>9. Alone'
  <2> SUFFICES ASSUME NEW q \in sole'
               PROVE  /\ sole' = {q} /\ DOMAIN slot' = DOMAIN said[q]
                      /\ \A n \in DOMAIN slot' :
                           n < Len(said[q]) \/ state'[q] \in {"ready", "ended"} => slot'[n] = Whole(q, n)
    BY <1>1 DEF Alone, Whole
  <2>1. q = r /\ sole = {r} /\ sole' = {r} /\ slot' = Written(Entry(r)) BY <1>2
  <2>2. /\ DOMAIN slot = DOMAIN said[r]
        /\ \A n \in DOMAIN slot : n < step => slot[n] = Whole(r, n)
    BY <2>1 DEF CInv, Alone
  <2>3. \A n \in DOMAIN slot' : slot'[n] = Whole(r, n)
    BY <1>3, <1>4, <2>1, <2>2
  <2> QED BY <2>1, <2>2, <2>3
<1> QED BY <1>5, <1>6, <1>7, <1>8, <1>9 DEF CInv

\* A replay is told the next answer of a conversation that began as its own did.
LEMMA ReadKeeps ==
  ASSUME CInv, NEW r \in Runs, Read(r)
  PROVE  CInv'
<1>1. /\ r \in Replays /\ r \notin Recorders /\ state[r] = "ready"
      /\ slot' = slot /\ cfg' = cfg /\ cleared' = cleared /\ sole' = sole
      /\ \/ state' = state \/ state' = [state EXCEPT ![r] = "missed"]
         \/ state' = [state EXCEPT ![r] = "died"]
  BY CacheAssumption DEF Read, CacheAssumption
<1>2. \/ said' = said
      \/ /\ Step(r) \in DOMAIN slot /\ Hit(r, slot[Step(r)])
         /\ \E a \in slot[Step(r)].answer : said' = [said EXCEPT ![r] = Append(@, a)]
  BY DEF Read
<1>3. said[r] \in Seq(Answers) /\ Len(said[r]) \in Nat BY LenProperties DEF CInv, Typed
<1>4. /\ \A q \in Recorders : said'[q] = said[q] /\ state'[q] = state[q]
      /\ \A q \in Runs \ {r} : said'[q] = said[q]
  BY <1>1, <1>2 DEF CInv, Typed, Runs
<1>5. said' # said =>
        \E q \in Recorders : /\ cfg[q] = cfg[r] /\ Len(said[q]) >= Len(said'[r])
                             /\ SubSeq(said[q], 1, Len(said'[r])) = said'[r]
                             /\ said'[r] \in Seq(Answers)
                             /\ said' = [said EXCEPT ![r] = said'[r]]
  <2> SUFFICES ASSUME said' # said
               PROVE  \E q \in Recorders : /\ cfg[q] = cfg[r] /\ Len(said[q]) >= Len(said'[r])
                                           /\ SubSeq(said[q], 1, Len(said'[r])) = said'[r]
                                           /\ said'[r] \in Seq(Answers)
                                           /\ said' = [said EXCEPT ![r] = said'[r]]
    OBVIOUS
  <2> DEFINE n == Step(r)
  <2>1. PICK a \in slot[n].answer : said' = [said EXCEPT ![r] = Append(@, a)] BY <1>2
  <2>2. n \in DOMAIN slot /\ slot[n].request = Request(r) /\ slot[n].answer # {}
    BY <1>2, <2>1 DEF Hit
  <2>3. PICK q \in Recorders : n \in DOMAIN said[q] /\ slot[n] = Whole(q, n)
    BY <2>2 DEF CInv, Filed
  <2>4. /\ said[q] \in Seq(Answers) /\ n \in 1..Len(said[q]) /\ n = Len(said[r]) + 1
        /\ Len(said[q]) \in Nat
    BY <2>3, LenProperties DEF CInv, Typed, Runs, Step
  <2>5. a = said[q][n] /\ cfg[q] = cfg[r] /\ SubSeq(said[q], 1, n - 1) = said[r]
    BY <2>1, <2>2, <2>3 DEF Whole, Request
  <2>6. said[q][n] \in Answers BY <2>4, ElementOfSeq
  <2>7. said'[r] = Append(said[r], a) BY <2>1 DEF CInv, Typed
  <2>8. said'[r] \in Seq(Answers) /\ Len(said'[r]) = n
    BY <1>3, <2>4, <2>5, <2>6, <2>7, AppendProperties
  <2>9. SubSeq(said[q], 1, n) = said'[r] BY <2>4, <2>5, <2>7, OneMore
  <2>10. said' = [said EXCEPT ![r] = said'[r]] BY <2>1, <2>7
  <2>11. Len(said[q]) >= Len(said'[r]) /\ SubSeq(said[q], 1, Len(said'[r])) = said'[r]
    BY <2>4, <2>8, <2>9
  <2> QED BY <2>5, <2>8, <2>10, <2>11
<1>6. Typed' BY <1>1, <1>5 DEF CInv, Typed
<1>7. Filed' BY <1>1, <1>4 DEF CInv, Filed, Whole
<1>8. Fresh' BY <1>1, <1>4 DEF CInv, Fresh
<1>9. Alone' BY <1>1, <1>4 DEF CInv, Alone, Whole, Typed
<1>10. ReplayIsOneRecording' BY <1>1, <1>4, <1>5 DEF CInv, ReplayIsOneRecording, Runs
<1> QED BY <1>6, <1>7, <1>8, <1>9, <1>10 DEF CInv

\* Only the state of one run changes, and nobody who was alone becomes ready by it.
LEMMA OverKeeps ==
  ASSUME CInv, NEW r \in Runs, End(r) \/ Die(r)
  PROVE  CInv'
<1>1. /\ UNCHANGED <<slot, cfg, said, cleared, sole>>
      /\ \/ state[r] = "ready" /\ state' = [state EXCEPT ![r] = "ended"]
         \/ state' = [state EXCEPT ![r] = "died"]
  BY DEF End, Die
<1>2. Typed' BY <1>1 DEF CInv, Typed
<1>3. Filed' /\ Fresh' /\ ReplayIsOneRecording'
  BY <1>1 DEF CInv, Filed, Whole, Fresh, ReplayIsOneRecording
<1>4. \A q \in Runs : state'[q] \in {"ready", "ended"} => state[q] \in {"ready", "ended"}
  BY <1>1 DEF CInv, Typed
<1>5. Alone' BY <1>1, <1>4 DEF CInv, Alone, Whole, Typed, Runs
<1> QED BY <1>2, <1>3, <1>5 DEF CInv

\* Every step of a recorder or a replay keeps the invariant.
LEMMA StepHolds == CInv /\ [CacheNext]_cacheVars => CInv'
<1> SUFFICES ASSUME CInv, [CacheNext]_cacheVars PROVE CInv'
  OBVIOUS
<1>1. CASE UNCHANGED cacheVars
  <2>1. UNCHANGED <<slot, cfg, said, state, cleared, sole>> BY <1>1 DEF cacheVars
  <2>2. Typed' /\ Fresh' /\ ReplayIsOneRecording'
    BY <2>1 DEF CInv, Typed, Fresh, ReplayIsOneRecording
  <2>3. Filed' BY <2>1 DEF CInv, Filed, Whole
  <2>4. Alone' BY <2>1 DEF CInv, Alone, Whole
  <2> QED BY <2>2, <2>3, <2>4 DEF CInv
<1>2. ASSUME NEW r \in Runs, WriteEntry(r) PROVE r \in Recorders
  BY <1>2 DEF CInv, Typed, WriteEntry
<1> QED BY <1>1, <1>2, LiveKeeps, WriteKeeps, ReadKeeps, OverKeeps DEF CacheNext

\* The invariant of the recordings.
LEMMA CacheInvariant == CacheSpec => []CInv
  BY InitHolds, StepHolds, PTL DEF CacheSpec

\* Whatever recordings were made into a slot, over each other, at once or broken off, what a
\* replay is told is the beginning of one recorded conversation with its own parameters
\* (llm.py Cache.read takes no file whose hash is not that of its request).
THEOREM RecordingsDoNotMix == CacheSpec => []ReplayIsOneRecording
<1>1. CInv => ReplayIsOneRecording BY DEF CInv
<1> QED BY <1>1, CacheInvariant, PTL

\* A recording that came to its end alone is the slot, step for step (llm.py Cache.write).
THEOREM SlotHoldsOneRun == CacheSpec => []SlotIsTheRun
<1>1. ASSUME CInv, NEW r \in sole, state[r] = "ended"
      PROVE  /\ DOMAIN slot = DOMAIN said[r]
             /\ \A n \in DOMAIN slot : slot[n] = Whole(r, n)
  BY <1>1 DEF CInv, Alone
<1>2. ASSUME NEW r, NEW n, slot[n] = Whole(r, n)
      PROVE  /\ slot[n].answer = {said[r][n]}
             /\ slot[n].request = [cfg |-> cfg[r], said |-> SubSeq(said[r], 1, n - 1)]
  BY <1>2 DEF Whole
<1>3. CInv => SlotIsTheRun
  BY <1>1, <1>2 DEF SlotIsTheRun
<1> QED BY <1>3, CacheInvariant, PTL

-----------------------------------------------------------------------------
(* The locks of the three surfaces and of the child agree, for every split, every *)
(* directory, every request and whoever writes the settings meanwhile.            *)

USE DEF None

\* The value given, when one is.
LEMMA OrGiven == ASSUME NEW x, NEW y PROVE Or({x}, y) = x
<1>1. {x} # {} /\ \A v \in {x} : v = x OBVIOUS
<1> QED BY <1>1 DEF Or

\* The directories: an evaluation case's is its own, and its fixture case is itself; no other
\* one below the fixtures is called like a case.
LEMMA OwnersAreFixtures ==
  ASSUME NEW place \in DOMAIN Places
  PROVE  /\ Places[place].owner \subseteq FixtureCase(Places[place])
         /\ FixtureCase(Places[place]) \cap Test \subseteq Places[place].owner
<1>1. CASE Places[place].owner # {}
  BY <1>1, ScansAssumption DEF FixtureCase
<1>2. CASE Places[place].owner = {}
  BY <1>2, ScansAssumption DEF FixtureCase, Test
<1> QED BY <1>1, <1>2

\* What main makes of the flags, whatever the settings say.
LEMMA ConfiguredLocks ==
  ASSUME NEW args, NEW env, NEW fs, NEW conf, conf = Configured(args, env, fs)
  PROVE  /\ conf.locked = ({conf.case} \cup FixtureCase(Places[args.place])) \cap Test
         /\ \A c : args.case = {c} => conf.case = c
         /\ \A m : args.mode = {m} => conf.mode = m
         /\ \A b : args.brain = {b} => conf.brain = b
<1> DEFINE place == Places[args.place]
           case == Or(args.case, Or(FixtureCase(place), place.name))
           loaded == ForCaseKind(env.settings, fs, CaseKind(case, place))
<1>1. /\ conf.case = case
      /\ conf.locked = ({case} \cup FixtureCase(place)) \cap Test
      /\ conf.mode = Or(args.mode, Or(env.mode, "live"))
      /\ conf.brain = Or(args.brain, loaded[Brain])
  BY DEF Configured
<1>2. \A x : Or({x}, Or(FixtureCase(place), place.name)) = x
  BY OrGiven
<1>3. \A x : Or({x}, Or(env.mode, "live")) = x
  BY OrGiven
<1>4. \A x : Or({x}, loaded[Brain]) = x
  BY OrGiven
<1>5. \A c : args.case = {c} => conf.case = c
  BY <1>1, <1>2
<1>6. \A m : args.mode = {m} => conf.mode = m
  BY <1>1, <1>3
<1> HIDE DEF loaded
<1>7. \A b : args.brain = {b} => conf.brain = b
  BY <1>1, <1>4
<1>8. conf.locked = ({conf.case} \cup FixtureCase(place)) \cap Test
  BY <1>1
<1> QED BY <1>5, <1>6, <1>7, <1>8

\* Each answer of main's checks has its reason.
LEMMA RefusalReasons ==
  ASSUME NEW args, NEW env, NEW fs, NEW conf
  PROVE  LET why == Refusal(args, env, fs, conf)
         IN  /\ why = "" => conf.locked = {} \/ conf.mode = "replay" \/ env.unlock
             /\ why = "locked" => conf.locked # {} /\ conf.mode # "replay" /\ ~env.unlock
             /\ why = "no replay" => conf.brain # Api /\ conf.mode # "live"
             /\ why = "no key" => DotenvLayer(fs["dotenv"], Secret) = {}
             /\ why = "no terminal" => Or(args.approve, "ask") = "ask"
             /\ why \in {"", "locked", "no replay", "no key", "no terminal"}
BY DEF Refusal

\* What a scan is: a record whose fields are set one by one.
Shape == scan = [by |-> scan.by, at |-> scan.at, args |-> scan.args, env |-> scan.env,
                 cfg |-> scan.cfg, why |-> scan.why, seen |-> scan.seen]

Spawned == scan.at \in {"started", "running", "refused"}

\* What a terminal hands over.
ByTerminal == scan.by = "terminal" => scan.env.unlock = shell.unlock

\* What the website hands over: the case is that of the directory, a test case is replayed, a
\* replay is unlocked and is the api's.
ByWebsite ==
  scan.by = "website" =>
    \E mode \in {"live", "replay"}, brain \in Values \cup {Api}, c \in scan.args.case :
      /\ scan.args.mode = {mode} /\ scan.args.brain = {brain} /\ scan.args.case = {c}
      /\ scan.args.approve = {"file"}
      /\ brain # Api => mode = "live"
      /\ Places[scan.args.place].owner \subseteq {c}
      /\ mode = "live" => c \notin Test

\* What a sweep hands over: a test case only where it was unlocked.
BySweep ==
  scan.by = "sweep" =>
    \E c \in DOMAIN Cases :
      /\ scan.args.case = {c} /\ Places[scan.args.place].owner = {c}
      /\ c \in Test => scan.args.unlock
      /\ scan.env.unlock = (shell.unlock \/ scan.args.unlock)

Handed == Spawned => /\ scan.by \in {"terminal", "website", "sweep"}
                     /\ scan.args.place \in DOMAIN Places
                     /\ ByTerminal /\ ByWebsite /\ BySweep

\* What the child made of it.
Answered ==
  LET conf == Configured(scan.args, scan.env, scan.seen)
      why == Refusal(scan.args, scan.env, scan.seen, conf)
  IN  /\ scan.at = "running" => scan.cfg = conf /\ why = ""
      /\ scan.at = "refused" => \/ scan.why = "settings"
                                \/ (scan.cfg = conf /\ scan.why = why /\ why # "")

Inv == Shape /\ Handed /\ Answered

\* The invariant says what LocksAgree promises: main's own lock is enough at a terminal, what a
\* sweep checked is enough for its child, and the website never asks a child for a test case live.
LEMMA InvSuffices == Inv => LocksAgree
<1> SUFFICES ASSUME Inv PROVE LocksAgree
  OBVIOUS
<1> DEFINE conf == Configured(scan.args, scan.env, scan.seen)
           why == Refusal(scan.args, scan.env, scan.seen, conf)
           owner == Places[scan.args.place].owner
<1>1. /\ conf.locked = ({conf.case} \cup FixtureCase(Places[scan.args.place])) \cap Test
      /\ \A c : scan.args.case = {c} => conf.case = c
      /\ \A m : scan.args.mode = {m} => conf.mode = m
      /\ \A b : scan.args.brain = {b} => conf.brain = b
  <2>1. conf = Configured(scan.args, scan.env, scan.seen)
    OBVIOUS
  <2> HIDE DEF conf, why, owner
  <2> DEFINE args == scan.args env == scan.env fs == scan.seen
  <2>2. conf = Configured(args, env, fs)
    BY <2>1
  <2> HIDE DEF args, env, fs
  <2>3. /\ conf.locked = ({conf.case} \cup FixtureCase(Places[args.place])) \cap Test
        /\ \A c : args.case = {c} => conf.case = c
        /\ \A m : args.mode = {m} => conf.mode = m
        /\ \A b : args.brain = {b} => conf.brain = b
    BY <2>2, ConfiguredLocks
  <2> QED BY <2>3 DEF args
<1>2. /\ why = "" => conf.locked = {} \/ conf.mode = "replay" \/ scan.env.unlock
      /\ why = "locked" => conf.locked # {} /\ conf.mode # "replay" /\ ~scan.env.unlock
      /\ why = "no replay" => conf.brain # Api /\ conf.mode # "live"
      /\ why = "no key" => DotenvLayer(scan.seen["dotenv"], Secret) = {}
      /\ why = "no terminal" => Or(scan.args.approve, "ask") = "ask"
      /\ why \in {"", "locked", "no replay", "no key", "no terminal"}
  BY RefusalReasons
<1> HIDE DEF conf, why
<1>3. ASSUME Running, scan.cfg.mode = "live", ({scan.cfg.case} \cup owner) \cap Test # {}
      PROVE  scan.by # "website" /\ (shell.unlock \/ (scan.by = "sweep" /\ scan.args.unlock))
  <2>1. scan.cfg = conf /\ why = "" /\ Handed /\ Spawned
    BY <1>3 DEF Inv, Answered, Running, Spawned, conf, why
  <2>2. owner \subseteq FixtureCase(Places[scan.args.place])
    BY <2>1, OwnersAreFixtures DEF Handed
  <2>3. conf.locked # {}
    BY <1>1, <1>3, <2>1, <2>2
  <2>4. scan.env.unlock
    BY <1>2, <1>3, <2>1, <2>3
  <2>5. scan.by # "website"
    BY <1>1, <1>3, <2>1 DEF Handed, ByWebsite
  <2> HIDE DEF owner
  <2> QED BY <2>1, <2>4, <2>5 DEF Handed, ByTerminal, BySweep
<1>4. ASSUME scan.at = "refused", scan.by = "sweep"
      PROVE  scan.why # "locked"
  <2>1. Handed /\ Spawned /\ (scan.why = "settings" \/ scan.why = why)
    BY <1>4 DEF Inv, Answered, Spawned, conf, why
  <2>2. PICK c \in DOMAIN Cases : /\ scan.args.case = {c} /\ owner = {c}
                                  /\ c \in Test => scan.args.unlock
                                  /\ scan.env.unlock = (shell.unlock \/ scan.args.unlock)
    BY <1>4, <2>1 DEF Handed, BySweep
  <2>3. conf.locked \subseteq {c} \cap Test
    <3>1. FixtureCase(Places[scan.args.place]) \cap Test \subseteq owner
      BY <2>1, OwnersAreFixtures DEF Handed
    <3>2. conf.case = c
      BY <1>1, <2>2
    <3> QED BY <1>1, <2>2, <3>1, <3>2
  <2>4. conf.locked # {} => scan.env.unlock
    BY <2>2, <2>3
  <2> HIDE DEF owner
  <2> QED BY <1>2, <2>1, <2>4
<1>5. ASSUME scan.at = "refused", scan.by = "website"
      PROVE  \/ scan.why = "settings"
             \/ scan.why = "no key" /\ DotenvLayer(scan.seen["dotenv"], Secret) = {}
  <2>1. Handed /\ Spawned /\ (scan.why = "settings" \/ (scan.why = why /\ why # ""))
    BY <1>5 DEF Inv, Answered, Spawned, conf, why
  <2>2. PICK mode \in {"live", "replay"}, brain \in Values \cup {Api}, c \in scan.args.case :
             /\ scan.args.mode = {mode} /\ scan.args.brain = {brain} /\ scan.args.case = {c}
             /\ scan.args.approve = {"file"}
             /\ brain # Api => mode = "live"
             /\ owner \subseteq {c}
             /\ mode = "live" => c \notin Test
    BY <1>5, <2>1 DEF Handed, ByWebsite
  <2>3. conf.mode = mode /\ conf.brain = brain /\ conf.case = c
    BY <1>1, <2>2
  <2>4. Or(scan.args.approve, "ask") = "file"
    BY <2>2, OrGiven
  <2>5. FixtureCase(Places[scan.args.place]) \cap Test \subseteq owner
    BY <2>1, OwnersAreFixtures DEF Handed
  <2>6. mode = "live" => conf.locked = {}
    BY <1>1, <2>2, <2>3, <2>5
  <2> HIDE DEF owner
  <2>7. why # "locked"
    BY <1>2, <2>2, <2>3, <2>6
  <2>8. why # "no replay" /\ why # "no terminal"
    BY <1>2, <2>2, <2>3, <2>4
  <2> QED BY <1>2, <2>1, <2>7, <2>8
<1> QED BY <1>3, <1>4, <1>5 DEF LocksAgree

\* A scan that has not been asked for.
LEMMA InitInv == ScansInit => Inv
<1> SUFFICES ASSUME ScansInit PROVE Inv
  OBVIOUS
<1>1. scan.at = "idle" /\ Shape
  BY DEF ScansInit, Idle, Shape
<1> QED BY <1>1 DEF Inv, Handed, Spawned, Answered

\* Nothing of a scan changes: nothing of the invariant does.
LEMMA StutterInv == Inv /\ UNCHANGED scanVars => Inv'
BY DEF Inv, Shape, Handed, Spawned, ByTerminal, ByWebsite, BySweep, Answered, scanVars

\* A request that is turned down hands nothing over.
LEMMA TurnedDownInv == ASSUME NEW by, scan' = TurnedDown(by) PROVE Inv'
<1>1. scan'.at = "turned down" /\ Shape'
  BY DEF TurnedDown, Idle, Shape
<1> QED BY <1>1 DEF Inv, Handed, Spawned, Answered

\* A child that was started has not answered.
LEMMA StartedInv ==
  ASSUME NEW by, NEW args, NEW env, scan' = Started(by, args, env)
  PROVE  /\ Shape' /\ Answered'
         /\ scan'.by = by /\ scan'.args = args /\ scan'.env = env
<1>1. /\ scan'.at = "started" /\ Shape'
      /\ scan'.by = by /\ scan'.args = args /\ scan'.env = env
  BY DEF Started, Idle, Shape
<1> QED BY <1>1 DEF Answered

\* What is typed is handed over as it is.
LEMMA TerminalInv == ASSUME NEW r \in Requests, Terminal(r) PROVE Inv'
<1>1. /\ scan' = Started("terminal", [r EXCEPT !.unlock = FALSE], Inherited)
      /\ shell' = shell
  BY DEF Terminal
<1>2. Shape' /\ Answered' /\ scan'.by = "terminal" /\ scan'.env = Inherited
      /\ scan'.args = [r EXCEPT !.unlock = FALSE]
  BY <1>1, StartedInv
<1>3. scan'.args.place \in DOMAIN Places
  BY <1>2, ScansAssumption
<1> QED BY <1>1, <1>2, <1>3 DEF Inv, Handed, ByTerminal, ByWebsite, BySweep, Inherited

\* The website hands over the case of the directory, a test case as a replay.
LEMMA WebsiteInv == ASSUME NEW r \in Requests, Website(r) PROVE Inv'
<1> DEFINE mode == Or(r.mode, "replay")
           brain == Or(r.brain, Api)
           args == [r EXCEPT !.case = CaseOf(r), !.mode = {mode}, !.brain = {brain},
                             !.approve = {"file"}, !.tty = FALSE, !.unlock = FALSE]
<1>1. CASE WebsiteRefuses(r, brain, mode)
  BY <1>1, TurnedDownInv DEF Website
<1>2. CASE ~WebsiteRefuses(r, brain, mode)
  <2>1. scan' = Started("website", args, WebsiteEnv(mode))
    BY <1>2 DEF Website
  <2>2. Shape' /\ Answered' /\ scan'.by = "website" /\ scan'.args = args
    BY <2>1, StartedInv
  <2>3. /\ r \in [place : DOMAIN Places, case : SUBSET STRING, arm : {"baseline", "advanced"},
                  mode : SUBSET {"live", "replay"}, brain : SUBSET Values, model : SUBSET Values,
                  approve : SUBSET {"ask", "auto", "file"}, tty : BOOLEAN, unlock : BOOLEAN]
    BY ScansAssumption
  <2>4. mode \in {"live", "replay"}
    BY <2>3 DEF Or
  <2>5. brain \in Values \cup {Api}
    BY <2>3 DEF Or
  <2>6. PICK c : CaseOf(r) = {c}
    <3>1. CASE Places[r.place].owner # {}
      BY <2>3, <3>1, ScansAssumption DEF CaseOf
    <3>2. CASE Places[r.place].owner = {}
      BY <3>2 DEF CaseOf
    <3> QED BY <3>1, <3>2
  <2>7. Places[r.place].owner \subseteq CaseOf(r)
    BY DEF CaseOf
  <2>8. mode = "live" => c \notin Test
    BY <1>2, <2>6 DEF WebsiteRefuses
  <2>9. brain # Api => mode = "live"
    BY <1>2 DEF WebsiteRefuses, BrainRefused
  <2>10. /\ args.place = r.place /\ args.case = {c} /\ args.mode = {mode} /\ args.brain = {brain}
         /\ args.approve = {"file"}
    BY <2>3, <2>6
  <2> HIDE DEF mode, brain, args
  <2>11. ByWebsite'
    BY <2>2, <2>4, <2>5, <2>6, <2>7, <2>8, <2>9, <2>10 DEF ByWebsite
  <2>12. scan'.args.place \in DOMAIN Places
    BY <2>2, <2>3, <2>10
  <2> QED BY <2>2, <2>11, <2>12 DEF Inv, Handed, ByTerminal, BySweep
<1> QED BY <1>1, <1>2

\* A sweep hands over its lock with its case.
LEMMA SweepInv == ASSUME NEW r \in Requests, Sweep(r) PROVE Inv'
<1> DEFINE args(c) == [r EXCEPT !.place = PlaceOf(c), !.case = {c}, !.mode = {Or(@, "live")},
                                !.brain = {Or(@, Api)}, !.model = {}, !.approve = {Or(@, "auto")}]
<1>1. PICK c \in r.case \cap DOMAIN Cases :
             scan' = IF Cases[c].split \in {"test", "reserve"} /\ ~r.unlock THEN TurnedDown("sweep")
                     ELSE Started("sweep", args(c), CellEnv(KindOf(c), r.unlock))
  BY DEF Sweep
<1>2. CASE Cases[c].split \in {"test", "reserve"} /\ ~r.unlock
  BY <1>1, <1>2, TurnedDownInv
<1>3. CASE ~(Cases[c].split \in {"test", "reserve"} /\ ~r.unlock)
  <2>1. scan' = Started("sweep", args(c), CellEnv(KindOf(c), r.unlock))
    BY <1>1, <1>3
  <2>2. /\ Shape' /\ Answered' /\ scan'.by = "sweep" /\ scan'.args = args(c)
        /\ scan'.env = CellEnv(KindOf(c), r.unlock)
    BY <2>1, StartedInv
  <2>3. r \in [place : DOMAIN Places, case : SUBSET STRING, arm : {"baseline", "advanced"},
               mode : SUBSET {"live", "replay"}, brain : SUBSET Values, model : SUBSET Values,
               approve : SUBSET {"ask", "auto", "file"}, tty : BOOLEAN, unlock : BOOLEAN]
    BY ScansAssumption
  <2>4. PlaceOf(c) \in DOMAIN Places /\ Places[PlaceOf(c)].owner = {c}
    BY ScansAssumption DEF PlaceOf
  <2>5. args(c).place = PlaceOf(c) /\ args(c).case = {c} /\ args(c).unlock = r.unlock
    BY <2>3
  <2>6. CellEnv(KindOf(c), r.unlock).unlock = (shell.unlock \/ r.unlock)
    BY DEF CellEnv, Inherited
  <2>7. c \in Test => r.unlock
    BY <1>3 DEF Test
  <2>8. shell' = shell
    BY DEF Sweep
  <2> HIDE DEF args
  <2>9. BySweep'
    BY <2>2, <2>4, <2>5, <2>6, <2>7, <2>8 DEF BySweep
  <2> QED BY <2>2, <2>4, <2>5, <2>9 DEF Inv, Handed, ByTerminal, ByWebsite
<1> QED BY <1>2, <1>3

\* The child answers with what it was handed.
LEMMA AnswerKeeps ==
  ASSUME Inv, scan.at = "started", shell' = shell,
         scan'.by = scan.by, scan'.args = scan.args, scan'.env = scan.env
  PROVE  Handed'
BY DEF Inv, Handed, Spawned, ByTerminal, ByWebsite, BySweep

\* Settings that cannot be read end a child before its checks.
LEMMA UnreadableInv == ASSUME Inv, Unreadable PROVE Inv'
<1>1. /\ scan.at = "started" /\ shell' = shell
      /\ scan' = [scan EXCEPT !.at = "refused", !.why = "settings", !.seen = Seen]
  BY DEF Unreadable
<1>2. scan' = [by |-> scan.by, at |-> "refused", args |-> scan.args, env |-> scan.env,
               cfg |-> scan.cfg, why |-> "settings", seen |-> Seen]
  BY <1>1 DEF Inv, Shape
<1>3. Handed'
  BY <1>1, <1>2, AnswerKeeps
<1> QED BY <1>2, <1>3 DEF Inv, Shape, Answered

\* What main answers, it answers on what it was handed.
LEMMA MainInv == ASSUME Inv, Main PROVE Inv'
<1> DEFINE conf == Configured(scan.args, scan.env, Seen)
           why == Refusal(scan.args, scan.env, Seen, conf)
           now == IF why = "" THEN "running" ELSE "refused"
<1>1. /\ scan.at = "started" /\ shell' = shell
      /\ scan' = [scan EXCEPT !.at = now, !.why = why, !.cfg = conf, !.seen = Seen]
  BY DEF Main
<1>2. scan' = [by |-> scan.by, at |-> now, args |-> scan.args, env |-> scan.env,
               cfg |-> conf, why |-> why, seen |-> Seen]
  <2> HIDE DEF now, conf, why
  <2> QED BY <1>1 DEF Inv, Shape
<1>3. Handed'
  <2> HIDE DEF now, conf, why
  <2> QED BY <1>1, <1>2, AnswerKeeps
<1>4. /\ Configured(scan'.args, scan'.env, scan'.seen) = conf
      /\ Refusal(scan'.args, scan'.env, scan'.seen, conf) = why
  BY <1>2
<1> HIDE DEF conf, why
<1>5. Answered'
  BY <1>2, <1>4 DEF Answered
<1> QED BY <1>2, <1>3, <1>5 DEF Inv, Shape

\* The locks of three surfaces agree (split.yaml comment 4, cli.py main, api.py start, cells.py
\* cell_env), for every split and every set of directories and requests, whoever writes the
\* settings meanwhile: no test fixture is run live but where somebody unlocked it, never by the
\* website, and no child of the website or of a sweep is turned down by main's own lock.
THEOREM LocksHold == ScansSpec => []LocksAgree
<1>1. ScansInit => Inv
  BY InitInv
<1>2. Inv /\ [\/ ScansNext /\ UNCHANGED settingsVars
              \/ SettingsNext /\ UNCHANGED scanVars]_<<scanVars, settingsVars>> => Inv'
  <2> SUFFICES ASSUME Inv, [\/ ScansNext /\ UNCHANGED settingsVars
                            \/ SettingsNext /\ UNCHANGED scanVars]_<<scanVars, settingsVars>>
               PROVE  Inv'
    OBVIOUS
  <2>1. CASE ScansNext
    BY <2>1, TerminalInv, WebsiteInv, SweepInv, UnreadableInv, MainInv DEF ScansNext
  <2>2. CASE UNCHANGED scanVars
    BY <2>2, StutterInv
  <2> QED BY <2>1, <2>2
<1>3. Inv => LocksAgree
  BY InvSuffices
<1> QED BY <1>1, <1>2, <1>3, PTL DEF ScansSpec

-----------------------------------------------------------------------------
(* A cell of a sweep and a replay make the requests that were planned: what they were    *)
(* handed names the request settings or nothing does, and no settings file is looked at. *)

\* What the highest layer names is the value, whatever the files say.
LEMMA EnvironmentWins ==
  ASSUME NEW env, NEW fs, NEW key, env[key] # {}
  PROVE  Value(env, fs, key) = env[key]
<1> DEFINE layers == Layers(env, fs, key)
           named == {i \in 1..4 : layers[i] # {}}
<1>1. layers[1] = env[key]
  BY DEF Layers
<1> HIDE DEF layers
<1>2. {i \in named : \A j \in named : i <= j} = {1}
  BY <1>1
<1>3. \A S : UNION {S} = S
  OBVIOUS
<1>4. {layers[i] : i \in {1}} = {layers[1]}
  OBVIOUS
<1>5. Value(env, fs, key) = UNION {layers[i] : i \in {i \in named : \A j \in named : i <= j}}
  BY DEF Value, layers
<1>6. QED
  BY <1>1, <1>2, <1>3, <1>4, <1>5

\* Without a word in the environment and in the two settings files, .env has the last one.
LEMMA DotenvIsLast ==
  ASSUME NEW env, NEW fs, NEW key, env[key] = {}, fs["project"] = <<>>, fs["user"] = <<>>
  PROVE  Value(env, fs, key) \subseteq DotenvLayer(fs["dotenv"], key)
<1> DEFINE layers == Layers(env, fs, key)
           named == {i \in 1..4 : layers[i] # {}}
<1>1. TomlLayer(<<>>, key) = {}
  BY DEF TomlLayer
<1>2. layers[1] = {} /\ layers[2] = DotenvLayer(fs["dotenv"], key) /\ layers[3] = {} /\ layers[4] = {}
  BY <1>1 DEF Layers
<1> HIDE DEF layers
<1>3. named \subseteq {2}
  BY <1>2
<1>4. UNION {layers[i] : i \in {i \in named : \A j \in named : i <= j}} \subseteq layers[2]
  BY <1>3
<1>5. QED
  BY <1>2, <1>4 DEF Value, layers

\* No line of .env, no word of it.
LEMMA NoLine ==
  ASSUME NEW text, NEW key, \A i \in DOMAIN text : text[i].key # key
  PROVE  DotenvLayer(text, key) = {}
BY DEF DotenvLayer

\* What main makes of the settings.
LEMMA ConfiguredRequests ==
  ASSUME NEW args, NEW env, NEW fs, NEW conf, conf = Configured(args, env, fs),
         args.model = {}, NEW c \in DOMAIN Cases, args.case = {c}
  PROVE  LET Val(key) == Value(env.settings, fs, key)
         IN  /\ conf.case = c
             /\ Val(Model) \in {{}, {Default[Model]}} => conf.model = Default[Model]
             /\ Val(Budget) \in {{}, {KindBudget[KindOf(c)]}} => conf.budget = KindBudget[KindOf(c)]
             /\ conf.brainModel \in {{}, Val(BrainModel)}
<1> DEFINE place == Places[args.place]
           case == Or(args.case, Or(FixtureCase(place), place.name))
           kind == CaseKind(case, place)
           load == Load(env.settings, fs)
           loaded == ForCaseKind(env.settings, fs, kind)
           Val(key) == Value(env.settings, fs, key)
<1>1. case = c
  <2>1. \A x : Or({x}, Or(FixtureCase(place), place.name)) = x
    BY OrGiven
  <2>2. QED
    BY <2>1
<1>2. kind = KindOf(c) /\ kind \in {"synthetic", "real"}
  BY <1>1 DEF CaseKind, KindOf
<1> HIDE DEF case, kind
<1>3. /\ conf.case = case
      /\ conf.model = IF Or(args.brain, loaded[Brain]) = Api THEN Or(args.model, loaded[Model]) ELSE loaded[Model]
      /\ conf.budget = loaded[Budget]
      /\ conf.brainModel = IF Or(args.brain, loaded[Brain]) # Api /\ args.model # {} THEN args.model
                           ELSE IF loaded[Brain] = Api THEN {} ELSE Val(BrainModel)
  BY DEF Configured, case, kind
<1>4. Model \in Keys \ {Secret} /\ Budget \in Keys \ {Secret} /\ Budget \in RequestVars /\ Model # Budget
  BY SettingsAssumption, ScansAssumption
<1>5. loaded = [load EXCEPT ![Budget] = IF Budget \in Explicit(env.settings, fs) THEN load[Budget] ELSE KindBudget[kind]]
  BY DEF ForCaseKind
<1>6. \A key \in Keys \ {Secret} :
        load[key] = CHOOSE v \in Values \cup {"none"} : v \in IF Val(key) # {} THEN Val(key) ELSE {Default[key]}
  BY DEF Load
<1>7. DOMAIN load = Keys \ {Secret}
  BY DEF Load
<1>8. Budget \in Explicit(env.settings, fs) <=> Val(Budget) # {}
  BY <1>4 DEF Explicit
<1>9. Default[Model] \in Values \cup {"none"} /\ KindBudget[kind] \in Values \cup {"none"}
  BY <1>2, <1>4, SettingsAssumption
<1> HIDE DEF load, loaded, Val
<1>10. /\ loaded[Model] = load[Model]
       /\ loaded[Budget] = IF Budget \in Explicit(env.settings, fs) THEN load[Budget] ELSE KindBudget[kind]
  BY <1>4, <1>5, <1>7
<1>11. ASSUME Val(Model) \in {{}, {Default[Model]}} PROVE conf.model = Default[Model]
  <2>1. load[Model] = CHOOSE v \in Values \cup {"none"} : v \in {Default[Model]}
    <3>1. (IF Val(Model) # {} THEN Val(Model) ELSE {Default[Model]}) = {Default[Model]}
      BY <1>11
    <3>2. load[Model] = CHOOSE v \in Values \cup {"none"} : v \in IF Val(Model) # {} THEN Val(Model) ELSE {Default[Model]}
      BY <1>4, <1>6
    <3>3. QED
      BY <3>1, <3>2
  <2>2. load[Model] = Default[Model]
    BY <1>9, <2>1
  <2>3. Or(args.model, loaded[Model]) = loaded[Model]
    BY DEF Or
  <2>4. QED
    BY <1>3, <1>10, <2>2, <2>3
<1>12. ASSUME Val(Budget) \in {{}, {KindBudget[KindOf(c)]}} PROVE conf.budget = KindBudget[KindOf(c)]
  <2>1. CASE Val(Budget) = {}
    BY <1>2, <1>3, <1>8, <1>10, <2>1
  <2>2. CASE Val(Budget) = {KindBudget[kind]}
    <3>1. (IF Val(Budget) # {} THEN Val(Budget) ELSE {Default[Budget]}) = {KindBudget[kind]}
      BY <2>2
    <3>2. load[Budget] = CHOOSE v \in Values \cup {"none"} : v \in IF Val(Budget) # {} THEN Val(Budget) ELSE {Default[Budget]}
      BY <1>4, <1>6
    <3>3. load[Budget] = CHOOSE v \in Values \cup {"none"} : v \in {KindBudget[kind]}
      BY <3>1, <3>2
    <3>4. load[Budget] = KindBudget[kind]
      BY <1>9, <3>3
    <3>5. QED
      BY <1>2, <1>3, <1>10, <3>4
  <2>3. QED
    BY <1>2, <1>12, <2>1, <2>2
<1>13. conf.brainModel \in {{}, Val(BrainModel)}
  BY <1>3
<1>14. QED
  BY <1>1, <1>3, <1>11, <1>12, <1>13 DEF Val

\* A model other than the default is declared.
LEMMA OtherIsDeclared ==
  ASSUME NEW args, NEW env, NEW fs, NEW conf, conf = Configured(args, env, fs), conf.model # Default[Model]
  PROVE  Model \in conf.overridden
<1>1. PICK m : conf.model = m /\ conf.overridden = Overridden(env.settings, fs) \cup (IF m # Default[Model] THEN {Model} ELSE {})
  BY DEF Configured
<1>2. QED
  BY <1>1

\* What a cell and a child of the website are handed.
Pinned ==
  Spawned =>
    /\ scan.by = "sweep" =>
         \E c \in DOMAIN Cases, b \in Values \cup {Api} :
           /\ scan.args.case = {c} /\ scan.args.brain = {b} /\ scan.args.model = {}
           /\ scan.env.ignore /\ scan.env.settings[BrainModel] = {}
           /\ scan.env.settings[Model] = {Default[Model]}
           /\ scan.env.settings[Budget] = {KindBudget[KindOf(c)]}
    /\ scan.by = "website" =>
         \E c \in scan.args.case, m \in {"live", "replay"} :
           /\ scan.args.case = {c} /\ scan.args.mode = {m}
           /\ scan.env.settings = shell.settings
           /\ m = "replay" => scan.env.ignore

\* Who was told to ignore the settings files has seen them empty.
Blindfold ==
  /\ DOMAIN files = Files
  /\ scan.at = "running" /\ scan.env.ignore => scan.seen["user"] = <<>> /\ scan.seen["project"] = <<>>

ScanInv == Inv /\ Pinned /\ Blindfold

\* What was handed and seen is enough for the run to be the planned one.
LEMMA SameRunSuffices == ScanInv => SameRun
<1> SUFFICES ASSUME ScanInv, Running PROVE SameRun
  BY DEF SameRun
<1> DEFINE conf == scan.cfg
           args == scan.args
           env == scan.env
           fs == scan.seen
           AsPlanned(c) == conf.model = Default[Model] /\ conf.budget = KindBudget[KindOf(c)]
<1>1. scan.at = "running" /\ Spawned /\ conf = Configured(args, env, fs)
  BY DEF ScanInv, Inv, Answered, Running, Spawned
<1>2. env.ignore => fs["user"] = <<>> /\ fs["project"] = <<>>
  BY <1>1 DEF ScanInv, Blindfold
<1>3. /\ scan.by = "sweep" =>
           \E c \in DOMAIN Cases, b \in Values \cup {Api} :
             /\ args.case = {c} /\ args.brain = {b} /\ args.model = {}
             /\ env.ignore /\ env.settings[BrainModel] = {}
             /\ env.settings[Model] = {Default[Model]}
             /\ env.settings[Budget] = {KindBudget[KindOf(c)]}
      /\ scan.by = "website" =>
           \E c \in args.case, m \in {"live", "replay"} :
             /\ args.case = {c} /\ args.mode = {m}
             /\ env.settings = shell.settings
             /\ m = "replay" => env.ignore
  BY <1>1 DEF ScanInv, Pinned
<1> HIDE DEF conf, args, env, fs
<1>4. /\ \A c : args.case = {c} => conf.case = c
      /\ \A m : args.mode = {m} => conf.mode = m
      /\ \A b : args.brain = {b} => conf.brain = b
  <2>1. conf = Configured(args, env, fs) BY <1>1
  <2> QED BY <2>1, ConfiguredLocks, SMTT(60)
<1>5. ASSUME scan.by = "sweep"
      PROVE  AsPlanned(conf.case) /\ {conf.brain} = args.brain /\ conf.brainModel \subseteq DotenvLayer(fs["dotenv"], BrainModel)
  <2>1. PICK c \in DOMAIN Cases, b \in Values \cup {Api} :
             /\ args.case = {c} /\ args.brain = {b} /\ args.model = {}
             /\ env.ignore /\ env.settings[BrainModel] = {}
             /\ env.settings[Model] = {Default[Model]}
             /\ env.settings[Budget] = {KindBudget[KindOf(c)]}
    BY <1>3, <1>5
  <2>2. Value(env.settings, fs, Model) = {Default[Model]} /\ Value(env.settings, fs, Budget) = {KindBudget[KindOf(c)]}
    <3> DEFINE given == env.settings
    <3>1. given[Model] = {Default[Model]} /\ given[Model] # {} /\ given[Budget] # {} /\ given[Budget] = {KindBudget[KindOf(c)]}
      BY <2>1
    <3> HIDE DEF given
    <3>2. Value(given, fs, Model) = {Default[Model]}
      BY <3>1, EnvironmentWins
    <3>3. Value(given, fs, Budget) = {KindBudget[KindOf(c)]}
      BY <3>1, EnvironmentWins
    <3>4. QED
      BY <3>2, <3>3 DEF given
  <2>3. Value(env.settings, fs, BrainModel) \subseteq DotenvLayer(fs["dotenv"], BrainModel)
    BY <1>2, <2>1, DotenvIsLast
  <2>4. /\ conf.case = c /\ conf.model = Default[Model] /\ conf.budget = KindBudget[KindOf(c)]
        /\ conf.brainModel \in {{}, Value(env.settings, fs, BrainModel)}
    BY <1>1, <2>1, <2>2, ConfiguredRequests
  <2>5. QED
    BY <1>4, <2>1, <2>3, <2>4
<1>6. ASSUME scan.by = "website", conf.mode = "replay", conf.case \in DOMAIN Cases, args.model = {},
             \A key \in RequestVars : shell.settings[key] = {} /\ ~\E i \in DOMAIN fs["dotenv"] : fs["dotenv"][i].key = key
      PROVE  AsPlanned(conf.case)
  <2>1. PICK c \in args.case, m \in {"live", "replay"} :
             /\ args.case = {c} /\ args.mode = {m}
             /\ env.settings = shell.settings
             /\ m = "replay" => env.ignore
    BY <1>3, <1>6
  <2>2. conf.case = c /\ conf.mode = m /\ c \in DOMAIN Cases /\ env.ignore
    BY <1>4, <1>6, <2>1
  <2>3. Model \in RequestVars /\ Budget \in RequestVars
    BY SettingsAssumption, ScansAssumption
  <2>4. \A key \in {Model, Budget} : env.settings[key] = {} /\ DotenvLayer(fs["dotenv"], key) = {}
    BY <1>6, <2>1, <2>3, NoLine
  <2>5. \A key \in {Model, Budget} : Value(env.settings, fs, key) \subseteq DotenvLayer(fs["dotenv"], key)
    BY <1>2, <2>2, <2>4, DotenvIsLast
  <2>6. Value(env.settings, fs, Model) = {} /\ Value(env.settings, fs, Budget) = {}
    BY <2>4, <2>5
  <2>7. conf.model = Default[Model] /\ conf.budget = KindBudget[KindOf(c)]
    BY <1>1, <1>6, <2>1, <2>2, <2>6, ConfiguredRequests
  <2>8. QED
    BY <2>2, <2>7
<1>7. conf.model # Default[Model] => Model \in conf.overridden
  BY <1>1, OtherIsDeclared
<1>8. QED
  BY <1>5, <1>6, <1>7 DEF SameRun, Named, conf, args, env, fs

\* Reading and writing the settings, a file stays where it is.
LEMMA FilesStay == DOMAIN files = Files /\ [SettingsNext]_settingsVars => DOMAIN files' = Files
BY DEF SettingsNext, settingsVars, Ask, ReadLines, Truncate, WriteText, Reply, Stopped

\* What is handed over is pinned at the moment of the request, whatever happens to the files.
LEMMA PinnedKeeps ==
  ASSUME ScanInv, ScansNext
  PROVE  Pinned'
<1>1. CASE \E r \in Requests : Terminal(r)
  <2>1. PICK r \in Requests : scan' = Started("terminal", [r EXCEPT !.unlock = FALSE], Inherited)
    BY <1>1 DEF Terminal
  <2>2. scan'.by = "terminal"
    BY <2>1, StartedInv
  <2>3. QED
    BY <2>2 DEF Pinned
<1>2. ASSUME NEW r \in Requests, Website(r) PROVE Pinned'
  <2> DEFINE mode == Or(r.mode, "replay")
             brain == Or(r.brain, Api)
             handed == [r EXCEPT !.case = CaseOf(r), !.mode = {mode}, !.brain = {brain},
                                 !.approve = {"file"}, !.tty = FALSE, !.unlock = FALSE]
  <2>1. CASE WebsiteRefuses(r, brain, mode)
    BY <1>2, <2>1 DEF Website, TurnedDown, Idle, Pinned, Spawned
  <2>2. CASE ~WebsiteRefuses(r, brain, mode)
    <3>1. scan' = Started("website", handed, WebsiteEnv(mode)) /\ shell' = shell
      BY <1>2, <2>2 DEF Website
    <3>2. scan'.by = "website" /\ scan'.args = handed /\ scan'.env = WebsiteEnv(mode)
      BY <3>1, StartedInv
    <3>3. WebsiteEnv(mode).settings = shell.settings /\ (mode = "replay" => WebsiteEnv(mode).ignore)
      BY DEF WebsiteEnv, Inherited
    <3>4. r \in [place : DOMAIN Places, case : SUBSET STRING, arm : {"baseline", "advanced"},
                 mode : SUBSET {"live", "replay"}, brain : SUBSET Values, model : SUBSET Values,
                 approve : SUBSET {"ask", "auto", "file"}, tty : BOOLEAN, unlock : BOOLEAN]
      BY ScansAssumption
    <3>5. mode \in {"live", "replay"}
      BY <3>4 DEF Or
    <3>6. PICK c : CaseOf(r) = {c}
      <4>1. CASE Places[r.place].owner # {}
        BY <3>4, <4>1, ScansAssumption DEF CaseOf
      <4>2. CASE Places[r.place].owner = {}
        BY <4>2 DEF CaseOf
      <4>3. QED
        BY <4>1, <4>2
    <3>7. handed.case = {c} /\ handed.mode = {mode}
      BY <3>4, <3>6
    <3> HIDE DEF mode, brain, handed
    <3>8. QED
      BY <3>1, <3>2, <3>3, <3>5, <3>7 DEF Pinned
  <2>3. QED
    BY <2>1, <2>2
<1>3. ASSUME NEW r \in Requests, Sweep(r) PROVE Pinned'
  <2> DEFINE handed(c) == [r EXCEPT !.place = PlaceOf(c), !.case = {c}, !.mode = {Or(@, "live")},
                                    !.brain = {Or(@, Api)}, !.model = {}, !.approve = {Or(@, "auto")}]
  <2>1. PICK c \in r.case \cap DOMAIN Cases :
             scan' = IF Cases[c].split \in {"test", "reserve"} /\ ~r.unlock THEN TurnedDown("sweep")
                     ELSE Started("sweep", handed(c), CellEnv(KindOf(c), r.unlock))
    BY <1>3 DEF Sweep
  <2>2. CASE Cases[c].split \in {"test", "reserve"} /\ ~r.unlock
    BY <2>1, <2>2 DEF TurnedDown, Idle, Pinned, Spawned
  <2>3. CASE ~(Cases[c].split \in {"test", "reserve"} /\ ~r.unlock)
    <3>1. scan' = Started("sweep", handed(c), CellEnv(KindOf(c), r.unlock))
      BY <2>1, <2>3
    <3>2. scan'.by = "sweep" /\ scan'.args = handed(c) /\ scan'.env = CellEnv(KindOf(c), r.unlock)
      BY <3>1, StartedInv
    <3>3. r \in [place : DOMAIN Places, case : SUBSET STRING, arm : {"baseline", "advanced"},
                 mode : SUBSET {"live", "replay"}, brain : SUBSET Values, model : SUBSET Values,
                 approve : SUBSET {"ask", "auto", "file"}, tty : BOOLEAN, unlock : BOOLEAN]
      BY ScansAssumption
    <3>4. Or(r.brain, Api) \in Values \cup {Api}
      BY <3>3 DEF Or
    <3>5. handed(c).case = {c} /\ handed(c).model = {} /\ handed(c).brain = {Or(r.brain, Api)}
      BY <3>3
    <3>6. /\ {Model, Budget, BrainModel} \subseteq Keys /\ Model # Budget /\ Model \in RequestVars
          /\ BrainModel # Budget /\ BrainModel \notin RequestVars
      BY SettingsAssumption, ScansAssumption
    <3> DEFINE settings == [key \in Keys |->
                              IF key = Budget THEN {KindBudget[KindOf(c)]}
                              ELSE IF key \in RequestVars THEN {Default[key]}
                              ELSE IF key = BrainModel THEN {} ELSE Inherited.settings[key]]
    <3>7. CellEnv(KindOf(c), r.unlock).ignore /\ CellEnv(KindOf(c), r.unlock).settings = settings
      BY DEF CellEnv, Inherited
    <3>8. /\ settings[BrainModel] = {} /\ settings[Model] = {Default[Model]}
          /\ settings[Budget] = {KindBudget[KindOf(c)]}
      BY <3>6
    <3> HIDE DEF settings, handed
    <3>9. QED
      BY <3>2, <3>4, <3>5, <3>7, <3>8 DEF Pinned
  <2>4. QED
    BY <2>2, <2>3
<1>4. CASE Unreadable \/ Main
  <2>1. /\ scan.at = "started" /\ shell' = shell
        /\ scan'.by = scan.by /\ scan'.args = scan.args /\ scan'.env = scan.env
    <3>1. CASE Unreadable
      BY <3>1 DEF Unreadable, ScanInv, Inv, Shape
    <3>2. CASE Main
      <4> DEFINE conf == Configured(scan.args, scan.env, Seen)
                 why == Refusal(scan.args, scan.env, Seen, conf)
                 now == IF why = "" THEN "running" ELSE "refused"
      <4>1. /\ scan.at = "started" /\ shell' = shell
            /\ scan' = [scan EXCEPT !.at = now, !.why = why, !.cfg = conf, !.seen = Seen]
        BY <3>2 DEF Main
      <4> HIDE DEF now, conf, why
      <4>2. QED
        BY <4>1 DEF ScanInv, Inv, Shape
    <3>3. QED
      BY <1>4, <3>1, <3>2
  <2>2. QED
    BY <2>1 DEF ScanInv, Pinned, Spawned
<1>5. QED
  BY <1>1, <1>2, <1>3, <1>4 DEF ScansNext

\* The settings of a child that ignores them are read as empty, whoever writes them.
LEMMA BlindfoldKeeps ==
  ASSUME ScanInv, ScansNext, UNCHANGED settingsVars
  PROVE  Blindfold'
<1>1. files' = files /\ DOMAIN files' = Files
  BY DEF settingsVars, ScanInv, Blindfold
<1>2. CASE Main
  <2> DEFINE conf == Configured(scan.args, scan.env, Seen)
             why == Refusal(scan.args, scan.env, Seen, conf)
             now == IF why = "" THEN "running" ELSE "refused"
  <2>1. scan' = [scan EXCEPT !.at = now, !.why = why, !.cfg = conf, !.seen = Seen]
    BY <1>2 DEF Main
  <2> HIDE DEF now, conf, why
  <2>2. scan'.seen = Seen /\ scan'.env = scan.env
    BY <2>1 DEF ScanInv, Inv, Shape
  <2>3. scan.env.ignore => Seen["user"] = <<>> /\ Seen["project"] = <<>>
    BY <1>1 DEF Seen, Files
  <2>4. QED
    BY <1>1, <2>2, <2>3 DEF Blindfold
<1>3. CASE ~Main
  <2>1. scan'.at # "running"
    <3>1. CASE Unreadable
      BY <3>1 DEF Unreadable, ScanInv, Inv, Shape
    <3>2. ASSUME NEW r \in Requests, Terminal(r) \/ Website(r) \/ Sweep(r) PROVE scan'.at # "running"
      BY <3>2 DEF Terminal, Website, Sweep, Started, TurnedDown, Idle
    <3>3. QED
      BY <1>3, <3>1, <3>2 DEF ScansNext
  <2>2. QED
    BY <1>1, <2>1 DEF Blindfold
<1>4. QED
  BY <1>2, <1>3

\* Whatever the settings files say and whoever writes them, a cell of a sweep makes the requests
\* its plan names, a replay on the website those of the recording, and another model is declared.
THEOREM RunsAreAsPlanned == ScansSpec => []SameRun
<1>1. ScansInit /\ SettingsInit => ScanInv
  <2> SUFFICES ASSUME ScansInit, SettingsInit PROVE ScanInv
    OBVIOUS
  <2>1. Inv
    BY InitInv
  <2>2. scan.at = "idle" /\ DOMAIN files = Files
    BY SettingsAssumption DEF ScansInit, Idle, SettingsInit, Files
  <2>3. QED
    BY <2>1, <2>2 DEF ScanInv, Pinned, Spawned, Blindfold
<1>2. ScanInv /\ [\/ ScansNext /\ UNCHANGED settingsVars
                  \/ SettingsNext /\ UNCHANGED scanVars]_<<scanVars, settingsVars>> => ScanInv'
  <2> SUFFICES ASSUME ScanInv, [\/ ScansNext /\ UNCHANGED settingsVars
                                \/ SettingsNext /\ UNCHANGED scanVars]_<<scanVars, settingsVars>>
               PROVE  ScanInv'
    OBVIOUS
  <2>1. CASE ScansNext /\ UNCHANGED settingsVars
    <3>1. Inv'
      BY <2>1, TerminalInv, WebsiteInv, SweepInv, UnreadableInv, MainInv DEF ScansNext, ScanInv
    <3>2. QED
      BY <2>1, <3>1, PinnedKeeps, BlindfoldKeeps DEF ScanInv
  <2>2. CASE [SettingsNext]_settingsVars /\ UNCHANGED scanVars
    <3>1. Inv'
      BY <2>2, StutterInv DEF ScanInv
    <3>2. Pinned'
      BY <2>2 DEF ScanInv, Pinned, Spawned, scanVars
    <3>3. Blindfold'
      BY <2>2, FilesStay DEF ScanInv, Blindfold, scanVars
    <3>4. QED
      BY <3>1, <3>2, <3>3 DEF ScanInv
  <2>3. QED
    BY <2>1, <2>2
<1>3. QED
  BY <1>1, <1>2, SameRunSuffices, PTL DEF ScansSpec

-----------------------------------------------------------------------------
(* The ledger.  A line carries the line before it, so two chains that end in the same   *)
(* line are one: what a sweep had read when it was let in is what stands above its line *)
(* in any file that the check accepts.                                                  *)

\* Each line is linked to the one above it.
Linked(text) == \A i \in DOMAIN text : text[i].prev = (IF i = 1 THEN {} ELSE {text[i - 1]})

Asker(s) == CHOOSE a \in sweep[s] : TRUE

\* The line of a sweep that is let in.
LineFrom(s) ==
  [sweep |-> s, mode |-> Asker(s).mode, adr |-> Asker(s).adr, prev |-> LastOf(lines[s])]

\* The sweeps over held-out cases that run, and those of them that leave a line.
HeldOutRuns == {s \in Sweeps : at[s] = "running" /\ Locked(Asker(s)) # {}}
Writers == {s \in HeldOutRuns : ~(Asker(s).mode = "replay" /\ Asker(s).reproducible)}
Minted == {LineFrom(s) : s \in HeldOutRuns}

LedgerTyped ==
  /\ at \in [Sweeps -> {"ready", "checked", "running", "refused"}]
  /\ DOMAIN sweep = Sweeps /\ DOMAIN lines = Sweeps /\ edits \in Nat
  /\ \A s \in Sweeps : at[s] \in {"checked", "running"} => sweep[s] = {Asker(s)}

\* Every line, wherever it is kept, is one that such a sweep wrote.
OnlyMinted == /\ ledger \in Seq(Minted) /\ committed \in Seq(Minted)
              /\ \A s \in Sweeps : lines[s] \in Seq(Minted)

\* Whoever was let in had read a chain with room for it.
LetIn == \A s \in Sweeps : at[s] \in {"checked", "running"} /\ Locked(Asker(s)) # {} =>
           Linked(lines[s]) /\ BudgetAllows(lines[s], Asker(s))

\* While nobody has touched the file, whoever wrote a line finds it there.
NothingLost == edits = 0 => \A s \in Writers : \E i \in DOMAIN ledger : ledger[i] = LineFrom(s)

LedgerInv == LedgerTyped /\ OnlyMinted /\ LetIn /\ NothingLost

\* A set of numbers that is not empty has a least element.
LEMMA LeastOf ==
  ASSUME NEW T, T \subseteq Nat, T # {}
  PROVE  \E x \in T : \A y \in T : x <= y
<1> DEFINE R == {ss \in Nat \X Nat : ss[1] < ss[2]}
<1>1. IsWellFoundedOn(R, Nat)
  BY NatLessThanWellFounded, Zenon DEF OpToRel
<1>2. \A x, y \in Nat : <<y, x>> \in R <=> y < x
  OBVIOUS
<1> HIDE DEF R
<1>3. PICK x \in T : \A y \in T : ~(<<y, x>> \in R)
  BY <1>1, WFMin
<1>4. \A y \in T : ~(y < x)
  BY <1>2, <1>3
<1>5. QED
  BY <1>4

\* The link, read off one line.
LEMMA LinkIs ==
  ASSUME NEW t, Linked(t), NEW i \in DOMAIN t
  PROVE  (i = 1 => t[i].prev = {}) /\ (i # 1 => t[i].prev = {t[i - 1]})
<1>1. t[i].prev = (IF i = 1 THEN {} ELSE {t[i - 1]})
  BY DEF Linked
<1>2. QED
  BY <1>1

\* Two chains that end in the same line are the same chain.
LEMMA OneChain ==
  ASSUME NEW S, NEW s \in Seq(S), NEW t \in Seq(S), s # <<>>, t # <<>>,
         Linked(s), Linked(t), s[Len(s)] = t[Len(t)]
  PROVE  s = t
<1> DEFINE Same == {m \in Nat : m < Len(s) /\ m < Len(t) => s[Len(s) - m] = t[Len(t) - m]}
           Wrong == Nat \ Same
<1>1. Len(s) \in Nat \ {0} /\ Len(t) \in Nat \ {0} /\ DOMAIN s = 1..Len(s) /\ DOMAIN t = 1..Len(t)
  BY EmptySeq
<1>2. 0 \in Same
  BY <1>1
<1>3. ASSUME NEW m \in Nat, m \in Same PROVE m + 1 \in Same
  <2> SUFFICES ASSUME m + 1 < Len(s), m + 1 < Len(t)
               PROVE  s[Len(s) - (m + 1)] = t[Len(t) - (m + 1)]
    OBVIOUS
  <2> DEFINE i == Len(s) - m
             j == Len(t) - m
  <2>1. i \in 2..Len(s) /\ j \in 2..Len(t) /\ Len(s) - (m + 1) = i - 1 /\ Len(t) - (m + 1) = j - 1
    BY <1>1
  <2>2. s[i] = t[j]
    BY <1>1, <1>3
  <2> HIDE DEF i, j
  <2>3. s[i].prev = {s[i - 1]} /\ t[j].prev = {t[j - 1]}
    <3>1. i \in DOMAIN s /\ j \in DOMAIN t /\ i # 1 /\ j # 1
      BY <1>1, <2>1
    <3>2. QED
      BY <3>1, LinkIs
  <2>4. s[i - 1] = t[j - 1]
    BY <2>2, <2>3
  <2>5. QED
    BY <2>1, <2>4
<1>4. \A m \in Nat : m \in Same
  <2> SUFFICES ASSUME Wrong # {} PROVE FALSE
    OBVIOUS
  <2>1. PICK m \in Wrong : \A n \in Wrong : m <= n
    BY LeastOf
  <2> HIDE DEF Same
  <2>2. m \in Nat \ {0} /\ m - 1 \in Nat
    BY <1>2, <2>1
  <2>3. m - 1 \in Same
    BY <2>1, <2>2
  <2>4. QED
    BY <1>3, <2>1, <2>2, <2>3
<1> HIDE DEF Wrong
<1>5. \A m \in Nat : m < Len(s) /\ m < Len(t) => s[Len(s) - m] = t[Len(t) - m]
  BY <1>4
<1>6. Len(s) = Len(t)
  <2>1. CASE Len(s) < Len(t)
    <3> DEFINE j == Len(t) - (Len(s) - 1)
    <3>1. j \in 2..Len(t) /\ Len(s) - 1 \in Nat
      BY <1>1, <2>1
    <3>2. s[1] = t[j]
      <4>1. Len(s) - 1 < Len(s) /\ Len(s) - 1 < Len(t) /\ Len(s) - (Len(s) - 1) = 1
        BY <1>1, <2>1
      <4>2. s[Len(s) - (Len(s) - 1)] = t[Len(t) - (Len(s) - 1)]
        BY <1>5, <3>1, <4>1
      <4>3. QED
        BY <4>1, <4>2
    <3> HIDE DEF j
    <3>3. s[1].prev = {} /\ t[j].prev = {t[j - 1]}
      <4>1. 1 \in DOMAIN s /\ j \in DOMAIN t /\ j # 1
        BY <1>1, <3>1
      <4>2. QED
        BY <4>1, LinkIs
    <3>4. QED
      BY <3>2, <3>3
  <2>2. CASE Len(t) < Len(s)
    <3> DEFINE i == Len(s) - (Len(t) - 1)
    <3>1. i \in 2..Len(s) /\ Len(t) - 1 \in Nat
      BY <1>1, <2>2
    <3>2. t[1] = s[i]
      <4>1. Len(t) - 1 < Len(t) /\ Len(t) - 1 < Len(s) /\ Len(t) - (Len(t) - 1) = 1
        BY <1>1, <2>2
      <4>2. s[Len(s) - (Len(t) - 1)] = t[Len(t) - (Len(t) - 1)]
        BY <1>5, <3>1, <4>1
      <4>3. QED
        BY <4>1, <4>2
    <3> HIDE DEF i
    <3>3. t[1].prev = {} /\ s[i].prev = {s[i - 1]}
      <4>1. 1 \in DOMAIN t /\ i \in DOMAIN s /\ i # 1
        BY <1>1, <3>1
      <4>2. QED
        BY <4>1, LinkIs
    <3>4. QED
      BY <3>2, <3>3
  <2>3. ~(Len(s) < Len(t)) /\ ~(Len(t) < Len(s))
    BY <2>1, <2>2
  <2>4. \A m, n \in Nat : ~(m < n) /\ ~(n < m) => m = n
    OBVIOUS
  <2>5. Len(s) \in Nat /\ Len(t) \in Nat
    BY <1>1
  <2>6. QED
    BY <2>3, <2>4, <2>5
<1>7. \A i \in 1..Len(s) : s[i] = t[i]
  <2> SUFFICES ASSUME NEW i \in 1..Len(s) PROVE s[i] = t[i]
    OBVIOUS
  <2>1. Len(s) - i \in Nat /\ Len(s) - i < Len(s) /\ Len(s) - (Len(s) - i) = i
    BY <1>1
  <2>2. QED
    BY <1>5, <1>6, <2>1
<1>8. QED
  BY <1>6, <1>7, SeqEqual

\* A case that the split holds out needs the lock.
LEMMA HeldOutLocks ==
  ASSUME NEW a, NEW cell \in BuildCells(a), NEW g \in {"test", "reserve"}, Contains(Split[g], cell.case)
  PROVE  Locked(a) # {}
<1>1. cell.case \in Selected(a)
  BY DEF BuildCells
<1>2. Membership(cell.case) \in {"test", "reserve"}
  BY DEF Membership
<1>3. QED
  BY <1>1, <1>2 DEF Locked

\* In a file that the check accepts, no three lines are live and without an ADR.
LEMMA NoThird ==
  ASSUME LedgerInv, Linked(ledger), NEW i \in DOMAIN ledger, NEW j \in DOMAIN ledger, NEW k \in DOMAIN ledger,
         i < j, j < k, ledger[i].mode = "live", ledger[j].mode = "live", ledger[k].mode = "live", ~ledger[k].adr
  PROVE  FALSE
<1>1. ledger \in Seq(Minted)
  BY DEF LedgerInv, OnlyMinted
<1>2. DOMAIN ledger = 1..Len(ledger) /\ Len(ledger) \in Nat
  BY <1>1
<1>3. PICK s \in HeldOutRuns : ledger[k] = LineFrom(s)
  BY <1>1, <1>2 DEF Minted
<1>4. /\ s \in Sweeps /\ lines[s] \in Seq(Minted) /\ Linked(lines[s]) /\ BudgetAllows(lines[s], Asker(s))
      /\ Asker(s).mode = "live" /\ ~Asker(s).adr /\ ledger[k].prev = LastOf(lines[s])
  BY <1>3 DEF LedgerInv, OnlyMinted, LetIn, HeldOutRuns, LineFrom
<1> DEFINE text == SubSeq(ledger, 1, k - 1)
           read == lines[s]
<1>5. k \in 3..Len(ledger) /\ i \in 1..(k - 1) /\ j \in 1..(k - 1) /\ i # j
  BY <1>2
<1>6. text \in Seq(Minted) /\ Len(text) = k - 1 /\ \A n \in 1..(k - 1) : text[n] = ledger[n]
  BY <1>1, <1>2, <1>5, SubSeqProperties
<1> HIDE DEF text
<1>7. Linked(text)
  <2> SUFFICES ASSUME NEW n \in DOMAIN text
               PROVE  text[n].prev = (IF n = 1 THEN {} ELSE {text[n - 1]})
    BY DEF Linked
  <2>1. n \in 1..(k - 1) /\ n \in DOMAIN ledger /\ text[n] = ledger[n]
    BY <1>2, <1>5, <1>6
  <2>2. n # 1 => text[n - 1] = ledger[n - 1]
    BY <1>5, <1>6, <2>1
  <2>3. (n = 1 => ledger[n].prev = {}) /\ (n # 1 => ledger[n].prev = {ledger[n - 1]})
    BY <2>1, LinkIs
  <2>4. QED
    BY <2>1, <2>2, <2>3
<1>8. ledger[k].prev = {ledger[k - 1]}
  BY <1>5, LinkIs
<1>9. read # <<>> /\ read[Len(read)] = text[Len(text)]
  <2>1. LastOf(read) = {ledger[k - 1]}
    BY <1>4, <1>8
  <2>2. read # <<>>
    BY <2>1 DEF LastOf
  <2>3. read[Len(read)] = ledger[k - 1]
    BY <2>1, <2>2 DEF LastOf
  <2>4. text[Len(text)] = ledger[k - 1]
    BY <1>5, <1>6
  <2>5. QED
    BY <2>2, <2>3, <2>4
<1>10. text # <<>>
  BY <1>5, <1>6
<1>11. read = text
  BY <1>4, <1>6, <1>7, <1>9, <1>10, OneChain
<1>12. {i, j} \subseteq LiveLines(read)
  BY <1>5, <1>6, <1>11 DEF LiveLines
<1>13. QED
  BY <1>4, <1>5, <1>12 DEF BudgetAllows

\* What is told of three sweeps is told by three lines of a file that begins with its
\* committed copy.
LEMMA CeilingSuffices == LedgerInv => CeilingOrRefused
<1> DEFINE told == {line \in {ledger[i] : i \in DOMAIN ledger} \cup {committed[i] : i \in DOMAIN committed} :
                      line.mode = "live" /\ ~line.adr}
           HeldOut(a) == \E cell \in BuildCells(a), g \in {"test", "reserve"} : Contains(Split[g], cell.case)
           ran == {s \in Sweeps : /\ at[s] = "running" /\ edits = 0
                                  /\ \E a \in sweep[s] : a.mode = "live" /\ ~a.adr /\ HeldOut(a)}
           sweeps == {line.sweep : line \in told} \cup ran
           free == {i \in DOMAIN ledger : ledger[i].mode = "live" /\ ~ledger[i].adr}
<1> SUFFICES ASSUME LedgerInv, ChainHolds(ledger, committed), NEW a \in sweeps, NEW b \in sweeps, NEW c \in sweeps,
                    a # b, b # c, a # c
             PROVE  FALSE
  BY DEF CeilingOrRefused
<1>1. ledger \in Seq(Minted) /\ committed \in Seq(Minted)
  BY DEF LedgerInv, OnlyMinted
<1>2. Linked(ledger) /\ \A i \in DOMAIN committed : i \in DOMAIN ledger /\ committed[i] = ledger[i]
  <2>1. Linked(ledger) /\ Len(committed) <= Len(ledger) /\ SubSeq(ledger, 1, Len(committed)) = committed
    BY DEF ChainHolds, Linked, IsPrefixOf
  <2>2. QED
    BY <1>1, <2>1, SubSeqProperties
<1>3. ASSUME NEW s \in sweeps PROVE \E i \in free : ledger[i].sweep = s
  <2>1. CASE \E line \in told : s = line.sweep
    BY <1>2, <2>1
  <2>2. CASE s \in ran
    <3>1. PICK q \in sweep[s] : q.mode = "live" /\ ~q.adr /\ HeldOut(q)
      BY <2>2
    <3>2. s \in Sweeps /\ at[s] = "running" /\ edits = 0 /\ q = Asker(s)
      BY <2>2, <3>1 DEF LedgerInv, LedgerTyped
    <3>3. Locked(q) # {}
      BY <3>1, HeldOutLocks
    <3>4. s \in Writers
      BY <3>1, <3>2, <3>3 DEF Writers, HeldOutRuns
    <3>5. PICK i \in DOMAIN ledger : ledger[i] = LineFrom(s)
      BY <3>2, <3>4 DEF LedgerInv, NothingLost
    <3>6. ledger[i].mode = "live" /\ ~ledger[i].adr /\ ledger[i].sweep = s
      BY <3>1, <3>2, <3>5 DEF LineFrom
    <3>7. QED
      BY <3>6
  <2>3. QED
    BY <2>1, <2>2
<1> HIDE DEF sweeps, told, ran
<1>4. PICK i \in free : ledger[i].sweep = a
  BY <1>3
<1>5. PICK j \in free : ledger[j].sweep = b
  BY <1>3
<1>6. PICK k \in free : ledger[k].sweep = c
  BY <1>3
<1>7. i # j /\ j # k /\ i # k
  BY <1>4, <1>5, <1>6
<1>8. free \subseteq Nat
  BY <1>1
<1>9. \E x, y, z \in free : x < y /\ y < z
  BY <1>7, <1>8
<1>10. QED
  BY <1>2, <1>9, NoThird

\* An empty ledger.
LEMMA LedgerStarts == LedgerInit => LedgerInv
<1> SUFFICES ASSUME LedgerInit PROVE LedgerInv
  OBVIOUS
<1>1. at = [s \in Sweeps |-> "ready"] /\ lines = [s \in Sweeps |-> <<>>] /\ ledger = <<>> /\ committed = <<>> /\ edits = 0
  BY DEF LedgerInit
<1>2. LedgerTyped
  BY <1>1 DEF LedgerInit, LedgerTyped
<1>3. \A S : <<>> \in Seq(S)
  OBVIOUS
<1>4. OnlyMinted /\ LetIn /\ NothingLost
  BY <1>1, <1>3 DEF OnlyMinted, LetIn, NothingLost, Writers, HeldOutRuns
<1>5. QED
  BY <1>2, <1>4 DEF LedgerInv

\* What is asked and read once is not asked or read again, so a line stays what it was.
LEMMA MintedStays ==
  ASSUME LedgerInv,
         \A s \in HeldOutRuns : s \in HeldOutRuns' /\ sweep'[s] = sweep[s] /\ lines'[s] = lines[s]
  PROVE  /\ Minted \subseteq Minted' /\ \A s \in HeldOutRuns : LineFrom(s)' = LineFrom(s)
         /\ \A t \in Seq(Minted) : t \in Seq(Minted')
<1>1. \A s \in HeldOutRuns : LineFrom(s)' = LineFrom(s)
  BY DEF LineFrom, Asker
<1>2. Minted \subseteq Minted'
  BY <1>1 DEF Minted
<1>3. \A t \in Seq(Minted) : t \in Seq(Minted')
  BY <1>2
<1>4. QED
  BY <1>1, <1>2, <1>3

\* Steps that neither let a sweep in nor let it run leave its line alone.
LEMMA LockKeeps ==
  ASSUME LedgerInv, NEW s \in Sweeps, NEW a \in Arguments, CheckLock(s, a)
  PROVE  LedgerInv'
<1> DEFINE locked == Locked(a) # {}
           allowed == /\ Plannable(a)
                      /\ locked => Unlocked(a) /\ ChainHolds(ledger, committed) /\ BudgetAllows(ledger, a)
<1>1. /\ at[s] = "ready"
      /\ at' = [at EXCEPT ![s] = IF allowed THEN "checked" ELSE "refused"]
      /\ sweep' = [sweep EXCEPT ![s] = IF allowed THEN {a} ELSE {}]
      /\ lines' = [lines EXCEPT ![s] = IF allowed /\ locked THEN ledger ELSE <<>>]
      /\ ledger' = ledger /\ committed' = committed /\ edits' = edits
  BY DEF CheckLock
<1>2. allowed /\ locked => Linked(ledger) /\ BudgetAllows(ledger, a)
  BY DEF ChainHolds, Linked
<1>3. \A q \in Sweeps : q # s => at'[q] = at[q] /\ sweep'[q] = sweep[q] /\ lines'[q] = lines[q] /\ Asker(q)' = Asker(q)
  BY <1>1 DEF LedgerInv, LedgerTyped, Asker
<1>4. /\ at'[s] = IF allowed THEN "checked" ELSE "refused"
      /\ sweep'[s] = IF allowed THEN {a} ELSE {}
      /\ lines'[s] = IF allowed /\ locked THEN ledger ELSE <<>>
  BY <1>1 DEF LedgerInv, LedgerTyped
<1> HIDE DEF allowed, locked
<1>5. allowed => Asker(s)' = a
  BY <1>4 DEF Asker
<1>6. LedgerTyped'
  <2>1. /\ at' \in [Sweeps -> {"ready", "checked", "running", "refused"}]
        /\ DOMAIN sweep' = Sweeps /\ DOMAIN lines' = Sweeps /\ edits' \in Nat
    BY <1>1 DEF LedgerInv, LedgerTyped
  <2>2. \A q \in Sweeps : at'[q] \in {"checked", "running"} => sweep'[q] = {Asker(q)'}
    BY <1>3, <1>4, <1>5 DEF LedgerInv, LedgerTyped
  <2>3. QED
    BY <2>1, <2>2 DEF LedgerTyped
<1>7. HeldOutRuns' = HeldOutRuns /\ \A q \in HeldOutRuns : q # s
  BY <1>1, <1>3, <1>4 DEF HeldOutRuns
<1>8. /\ Minted \subseteq Minted' /\ \A q \in HeldOutRuns : LineFrom(q)' = LineFrom(q)
      /\ \A t \in Seq(Minted) : t \in Seq(Minted')
  <2>1. \A q \in HeldOutRuns : q \in HeldOutRuns' /\ sweep'[q] = sweep[q] /\ lines'[q] = lines[q]
    BY <1>3, <1>7 DEF HeldOutRuns
  <2>2. QED
    BY <2>1, MintedStays
<1>9. OnlyMinted'
  <2>1. ledger' \in Seq(Minted') /\ committed' \in Seq(Minted')
    BY <1>1, <1>8 DEF LedgerInv, OnlyMinted
  <2>2. \A q \in Sweeps : lines'[q] \in Seq(Minted')
    <3>1. \A q \in Sweeps : lines[q] \in Seq(Minted')
      BY <1>8 DEF LedgerInv, OnlyMinted
    <3>2. lines'[s] \in Seq(Minted')
      <4>1. ledger \in Seq(Minted') /\ <<>> \in Seq(Minted')
        BY <1>1, <2>1
      <4>2. lines'[s] = ledger \/ lines'[s] = <<>>
        BY <1>4
      <4>3. QED
        BY <4>1, <4>2
    <3>3. QED
      BY <1>3, <3>1, <3>2
  <2>3. QED
    BY <2>1, <2>2 DEF OnlyMinted
<1>10. LetIn'
  <2>1. \A q \in Sweeps : q # s /\ at'[q] \in {"checked", "running"} /\ Locked(Asker(q)') # {} =>
                            Linked(lines'[q]) /\ BudgetAllows(lines'[q], Asker(q)')
    BY <1>3 DEF LedgerInv, LetIn
  <2>2. at'[s] \in {"checked", "running"} /\ Locked(Asker(s)') # {} =>
           Linked(lines'[s]) /\ BudgetAllows(lines'[s], Asker(s)')
    BY <1>2, <1>4, <1>5 DEF locked
  <2>3. QED
    BY <2>1, <2>2 DEF LetIn
<1>11. NothingLost'
  <2>1. Writers' = Writers
    BY <1>3, <1>7 DEF Writers, HeldOutRuns
  <2>2. Writers \subseteq HeldOutRuns
    BY DEF Writers
  <2>3. QED
    BY <1>1, <1>8, <2>1, <2>2 DEF LedgerInv, NothingLost
<1>12. QED
  BY <1>6, <1>9, <1>10, <1>11 DEF LedgerInv

\* A sweep that begins to run leaves its line at the end of the file.
LEMMA AppendKeeps ==
  ASSUME LedgerInv, NEW s \in Sweeps, AppendLine(s)
  PROVE  LedgerInv'
<1>1. PICK a \in sweep[s] :
        IF Frozen(a) /\ Known(a)
        THEN /\ at' = [at EXCEPT ![s] = "running"]
             /\ IF Locked(a) = {} \/ (a.mode = "replay" /\ a.reproducible)
                  THEN UNCHANGED ledger
                  ELSE ledger' = Append(ledger, [sweep |-> s, mode |-> a.mode, adr |-> a.adr,
                                                 prev |-> LastOf(lines[s])])
        ELSE at' = [at EXCEPT ![s] = "refused"] /\ UNCHANGED ledger
  BY DEF AppendLine
<1>2. at[s] = "checked" /\ committed' = committed /\ sweep' = sweep /\ lines' = lines /\ edits' = edits
  BY DEF AppendLine
<1>3. a = Asker(s)
  BY <1>2 DEF LedgerInv, LedgerTyped
<1>4. \A q \in Sweeps : Asker(q)' = Asker(q) /\ LineFrom(q)' = LineFrom(q)
  BY <1>2 DEF Asker, LineFrom
<1>5. at' \in [Sweeps -> {"ready", "checked", "running", "refused"}] /\ at'[s] \in {"running", "refused"}
      /\ \A q \in Sweeps : q # s => at'[q] = at[q]
  BY <1>1 DEF LedgerInv, LedgerTyped
<1>6. LedgerTyped'
  BY <1>2, <1>4, <1>5 DEF LedgerInv, LedgerTyped
<1>7. HeldOutRuns' \subseteq HeldOutRuns \cup {s} /\ HeldOutRuns \subseteq HeldOutRuns'
  BY <1>2, <1>4, <1>5 DEF HeldOutRuns
<1>8. Minted \subseteq Minted' /\ \A t \in Seq(Minted) : t \in Seq(Minted')
  BY <1>2, <1>7, MintedStays
<1>9. LetIn'
  BY <1>2, <1>4, <1>5 DEF LedgerInv, LetIn
<1>10. CASE ledger' = ledger
  <2>1. OnlyMinted'
    BY <1>2, <1>8, <1>10 DEF LedgerInv, OnlyMinted
  <2>2. Writers' \subseteq Writers
    <3>1. s \notin Writers'
      <4>1. CASE at' = [at EXCEPT ![s] = "refused"]
        BY <4>1 DEF Writers, HeldOutRuns, LedgerInv, LedgerTyped
      <4>2. CASE Locked(a) = {} \/ (a.mode = "replay" /\ a.reproducible)
        BY <1>3, <1>4, <4>2 DEF Writers, HeldOutRuns
      <4>3. CASE ledger' = Append(ledger, [sweep |-> s, mode |-> a.mode, adr |-> a.adr, prev |-> LastOf(lines[s])])
        <5>1. \A S : \A t \in Seq(S) : \A e : Append(t, e) # t
          <6> SUFFICES ASSUME NEW S, NEW t \in Seq(S), NEW e, Append(t, e) = t PROVE FALSE
            OBVIOUS
          <6>1. Len(Append(t, e)) = Len(t) + 1 /\ Len(t) \in Nat
            OBVIOUS
          <6>2. QED
            BY <6>1
        <5>2. QED
          BY <1>10, <4>3, <5>1 DEF LedgerInv, OnlyMinted
      <4>4. QED
        BY <1>1, <4>1, <4>2, <4>3
    <3>2. Writers' \subseteq HeldOutRuns
      BY <1>7, <3>1 DEF Writers
    <3>3. \A q \in Writers' : Asker(q)' = Asker(q)
      BY <1>4, <3>2 DEF HeldOutRuns
    <3>4. \A q \in Writers' : ~(Asker(q)'.mode = "replay" /\ Asker(q)'.reproducible)
      BY DEF Writers
    <3>5. QED
      BY <3>2, <3>3, <3>4 DEF Writers
  <2>3. NothingLost'
    BY <1>2, <1>4, <1>10, <2>2 DEF LedgerInv, NothingLost, Writers, HeldOutRuns
  <2>4. QED
    BY <1>6, <1>9, <2>1, <2>3 DEF LedgerInv
<1>11. CASE ledger' # ledger
  <2>1. at' = [at EXCEPT ![s] = "running"] /\ Locked(a) # {} /\ ledger' = Append(ledger, LineFrom(s))
    BY <1>1, <1>3, <1>11 DEF LineFrom
  <2>2. s \in HeldOutRuns'
    BY <1>3, <1>4, <2>1 DEF HeldOutRuns, LedgerInv, LedgerTyped
  <2>3. LineFrom(s) \in Minted'
    BY <1>4, <2>2 DEF Minted, HeldOutRuns
  <2>4. ledger \in Seq(Minted')
    BY <1>8 DEF LedgerInv, OnlyMinted
  <2>5. /\ ledger' \in Seq(Minted') /\ DOMAIN ledger' = 1..(Len(ledger) + 1) /\ DOMAIN ledger = 1..Len(ledger)
        /\ Len(ledger) \in Nat /\ ledger'[Len(ledger) + 1] = LineFrom(s)
        /\ \A i \in 1..Len(ledger) : ledger'[i] = ledger[i]
    BY <2>1, <2>3, <2>4
  <2>6. OnlyMinted'
    BY <1>2, <1>8, <2>5 DEF LedgerInv, OnlyMinted
  <2>7. Writers' \subseteq Writers \cup {s}
    <3>1. Writers' \subseteq HeldOutRuns \cup {s}
      BY <1>7 DEF Writers
    <3>2. \A q \in Writers' : Asker(q)' = Asker(q)
      BY <1>4, <3>1 DEF HeldOutRuns
    <3>3. \A q \in Writers' : ~(Asker(q)'.mode = "replay" /\ Asker(q)'.reproducible)
      BY DEF Writers
    <3>4. QED
      BY <3>1, <3>2, <3>3 DEF Writers
  <2>8. NothingLost'
    <3> SUFFICES ASSUME edits = 0, NEW q \in Writers' PROVE \E i \in DOMAIN ledger' : ledger'[i] = LineFrom(q)'
      BY <1>2 DEF NothingLost
    <3>1. LineFrom(q)' = LineFrom(q)
      BY <1>4 DEF Writers, HeldOutRuns
    <3>2. CASE q = s
      BY <2>5, <3>1, <3>2
    <3>3. CASE q \in Writers
      BY <2>5, <3>1, <3>3 DEF LedgerInv, NothingLost
    <3>4. QED
      BY <2>7, <3>2, <3>3
  <2>9. QED
    BY <1>6, <1>9, <2>6, <2>8 DEF LedgerInv
<1>12. QED
  BY <1>10, <1>11

\* An interrupt takes one away that had not begun; people commit what is there or drop a line.
LEMMA HandsKeep ==
  ASSUME LedgerInv, (\E s \in Sweeps : Interrupt(s)) \/ Commit \/ DropLine \/ UNCHANGED ledgerVars
  PROVE  LedgerInv'
<1>1. sweep' = sweep /\ lines' = lines
  BY DEF Interrupt, Commit, DropLine, ledgerVars
<1>2. \A q \in Sweeps : Asker(q)' = Asker(q) /\ LineFrom(q)' = LineFrom(q)
  BY <1>1 DEF Asker, LineFrom
<1>3. /\ at' \in [Sweeps -> {"ready", "checked", "running", "refused"}]
      /\ \A q \in Sweeps : at'[q] = at[q] \/ (at[q] = "checked" /\ at'[q] = "refused")
  BY DEF Interrupt, Commit, DropLine, ledgerVars, LedgerInv, LedgerTyped
<1>4. edits' \in Nat /\ (edits' = 0 => edits = 0 /\ ledger' = ledger)
  <2>1. CASE UNCHANGED <<ledger, edits>>
    BY <2>1 DEF LedgerInv, LedgerTyped
  <2>2. CASE edits' = edits + 1
    BY <2>2 DEF LedgerInv, LedgerTyped
  <2>3. QED
    BY <2>1, <2>2 DEF Interrupt, Commit, DropLine, ledgerVars
<1>5. LedgerTyped'
  BY <1>1, <1>2, <1>3, <1>4 DEF LedgerInv, LedgerTyped
<1>6. HeldOutRuns' = HeldOutRuns
  BY <1>2, <1>3 DEF HeldOutRuns
<1>7. Writers' = Writers
  BY <1>2, <1>6 DEF Writers, HeldOutRuns
<1>8. Minted \subseteq Minted' /\ \A t \in Seq(Minted) : t \in Seq(Minted')
  BY <1>1, <1>6, MintedStays
<1>9. ledger' \in Seq(Minted) /\ committed' \in Seq(Minted)
  <2>1. ledger \in Seq(Minted) /\ committed \in Seq(Minted)
    BY DEF LedgerInv, OnlyMinted
  <2>2. CASE DropLine
    <3>1. PICK i \in DOMAIN ledger : ledger' = SubSeq(ledger, 1, i - 1) \o SubSeq(ledger, i + 1, Len(ledger))
      BY <2>2 DEF DropLine
    <3>2. i \in 1..Len(ledger) /\ Len(ledger) \in Nat
      BY <2>1
    <3>3. SubSeq(ledger, 1, i - 1) \in Seq(Minted) /\ SubSeq(ledger, i + 1, Len(ledger)) \in Seq(Minted)
      BY <2>1, <3>2, SubSeqProperties
    <3>4. QED
      BY <2>1, <2>2, <3>1, <3>3, ConcatProperties DEF DropLine
  <2>3. CASE ~DropLine
    BY <2>1, <2>3 DEF Interrupt, Commit, ledgerVars
  <2>4. QED
    BY <2>2, <2>3
<1>10. OnlyMinted'
  BY <1>1, <1>8, <1>9 DEF LedgerInv, OnlyMinted
<1>11. LetIn'
  BY <1>1, <1>2, <1>3 DEF LedgerInv, LetIn
<1>12. NothingLost'
  BY <1>2, <1>4, <1>7 DEF LedgerInv, NothingLost, Writers, HeldOutRuns
<1>13. QED
  BY <1>5, <1>10, <1>11, <1>12 DEF LedgerInv

\* The ceiling: however many sweeps overlap and whatever people do to the file, a third live
\* sweep without an ADR stands in no ledger that the check accepts.
THEOREM CeilingHolds == LedgerSpec => []CeilingOrRefused
<1>1. LedgerInv /\ [LedgerNext]_ledgerVars => LedgerInv'
  BY LockKeeps, AppendKeeps, HandsKeep DEF LedgerNext
<1>2. QED
  BY <1>1, LedgerStarts, CeilingSuffices, PTL DEF LedgerSpec
-----------------------------------------------------------------------------
(* The settings files.  From says where each line of a rewritten text was: the others     *)
(* stay in their order, and one line assigns the key at most.  The invariant follows the  *)
(* thread that is alone at its file: what it read is what the file held, the file is      *)
(* empty while it is open, and then holds the rewritten text.                             *)

\* pos lists S, in order.
Lists(pos, S) ==
  /\ pos \in [1..Cardinality(S) -> S]
  /\ \A m, n \in 1..Cardinality(S) : m < n => pos[m] < pos[n]

\* Positions can be put in their order ...
LEMMA Listed ==
  ASSUME NEW n \in Nat
  PROVE  \A S \in SUBSET (1..n) : Cardinality(S) \in Nat /\ \E pos : Lists(pos, S)
<1> DEFINE Good(k) == \A S \in SUBSET (1..k) : Cardinality(S) \in Nat /\ \E pos : Lists(pos, S)
           Bad == {k \in Nat : ~Good(k)}
<1>1. SUFFICES ASSUME Bad # {} PROVE FALSE
  <2>1. n \notin Bad BY <1>1
  <2> QED BY <2>1
<1>2. PICK k \in Bad : \A j \in Bad : k <= j BY <1>1, LeastOf
<1>3. k # 0
  <2>1. SUFFICES ASSUME NEW S \in SUBSET (1..0) PROVE Cardinality(S) \in Nat /\ \E pos : Lists(pos, S)
    BY <1>2
  <2>2. S = {} /\ Cardinality(S) = 0
    <3>1. S = {} BY SMT
    <3> QED BY <3>1, FS_EmptySet
  <2>3. Lists([m \in 1..0 |-> 1], S) BY <2>2 DEF Lists
  <2> QED BY <2>2, <2>3
<1>4. k - 1 \in Nat /\ Good(k - 1)
  <2>1. k \in Nat /\ k - 1 \in Nat /\ k - 1 < k BY <1>2, <1>3
  <2>2. k - 1 \notin Bad BY <1>2, <2>1
  <2> HIDE DEF Good
  <2> QED BY <2>1, <2>2
<1>5. ASSUME NEW S \in SUBSET (1..k) PROVE Cardinality(S) \in Nat /\ \E pos : Lists(pos, S)
  <2>1. S \ {k} \in SUBSET (1..(k - 1)) BY <1>2
  <2>2. PICK pos : Lists(pos, S \ {k}) BY <2>1, <1>4
  <2>3. /\ IsFiniteSet(S) /\ IsFiniteSet(S \ {k})
        /\ Cardinality(S \ {k}) \in Nat /\ Cardinality(S) \in Nat
        /\ Cardinality(S \ {k}) = IF k \in S THEN Cardinality(S) - 1 ELSE Cardinality(S)
    <3>1. IsFiniteSet(1..k) BY <1>2, FS_Interval
    <3>2. IsFiniteSet(S) BY <3>1, FS_Subset
    <3>3. IsFiniteSet(S \ {k}) BY <3>2, FS_RemoveElement
    <3> QED BY <3>2, <3>3, FS_RemoveElement, FS_CardinalityType
  <2>4. CASE k \notin S
    <3>1. S \ {k} = S BY <2>4
    <3> QED BY <2>2, <2>3, <3>1
  <2>5. CASE k \in S
    <3> DEFINE c == Cardinality(S)
               more == [m \in 1..c |-> IF m = c THEN k ELSE pos[m]]
    <3>1. c \in Nat /\ Cardinality(S \ {k}) = c - 1 BY <2>3, <2>5
    <3> HIDE DEF c
    <3>2. /\ pos \in [1..(c - 1) -> S \ {k}]
          /\ \A m, l \in 1..(c - 1) : m < l => pos[m] < pos[l]
      BY <2>2, <3>1 DEF Lists
    <3>3. \A m \in 1..(c - 1) : pos[m] \in 1..(k - 1) /\ pos[m] \in S
      BY <3>2, <2>1
    <3>4. more \in [1..c -> S] BY <2>5, <3>3, <3>1
    <3>5. ASSUME NEW m \in 1..c, NEW l \in 1..c, m < l PROVE more[m] < more[l]
      <4>1. m \in 1..(c - 1) /\ more[m] = pos[m] BY <3>1, <3>5
      <4>2. CASE l = c BY <4>1, <4>2, <3>3, <1>2
      <4>3. CASE l # c
        <5>1. l \in 1..(c - 1) /\ more[l] = pos[l] BY <3>1, <4>3
        <5> QED BY <4>1, <5>1, <3>2, <3>5
      <4> QED BY <4>2, <4>3
    <3> HIDE DEF more
    <3>6. Lists(more, S) BY <3>4, <3>5 DEF Lists, c
    <3> QED BY <2>3, <3>6
  <2> QED BY <2>4, <2>5
<1> QED BY <1>2, <1>5

\* ... which InOrder does, and all of them are there.
LEMMA InOrderLists ==
  ASSUME NEW n \in Nat, NEW S \in SUBSET (1..n)
  PROVE  /\ Lists(InOrder(S), S) /\ Cardinality(S) \in Nat
         /\ \A i \in S : \E m \in 1..Cardinality(S) : InOrder(S)[m] = i
         /\ DOMAIN InOrder(S) = 1..Cardinality(S)
<1> DEFINE c == Cardinality(S)
<1>1. c \in Nat /\ \E pos : Lists(pos, S) BY Listed
<1>2. \E pos \in [1..c -> S] : \A m, l \in DOMAIN pos : m < l => pos[m] < pos[l]
  BY <1>1 DEF Lists
<1>3. Lists(InOrder(S), S) BY <1>2 DEF InOrder, Lists
<1> DEFINE pos == InOrder(S)
<1> HIDE DEF pos
<1>4. pos \in [1..c -> S] /\ \A m, l \in 1..c : m < l => pos[m] < pos[l] BY <1>3 DEF Lists, pos
<1> HIDE DEF c
<1>5. pos \in Injection(1..c, S)
  <2>1. ASSUME NEW m \in 1..c, NEW l \in 1..c, pos[m] = pos[l] PROVE m = l
    <3>1. pos[m] \in 1..n /\ pos[l] \in 1..n BY <1>4
    <3>2. m \in Int /\ l \in Int OBVIOUS
    <3> QED BY <1>4, <2>1, <3>1, <3>2
  <2> QED BY <1>4, <2>1 DEF Injection, IsInjective
<1>6. IsFiniteSet(S)
  <2>1. IsFiniteSet(1..n) BY FS_Interval
  <2> QED BY <2>1, FS_Subset
<1>7. Cardinality(1..c) = c BY <1>1, FS_Interval
<1>8. pos \in Surjection(1..c, S) BY <1>5, <1>6, <1>7, FS_Injection DEF c
<1>9. \A i \in S : \E m \in 1..c : pos[m] = i BY <1>8 DEF Surjection
<1> QED BY <1>1, <1>3, <1>4, <1>9 DEF pos, c

\* pos says where each line of new was, p where the line that was put in is.
From(new, text, key, line, pos, p) ==
  /\ new \in Seq(LineType)
  /\ pos \in [1..Len(new) -> Nat]
  /\ \A m, n \in 1..Len(new) : m < n => pos[m] < pos[n]
  /\ \A n \in 1..Len(new) :
       IF pos[n] = p THEN line = <<new[n]>>
       ELSE pos[n] \in (1..Len(text)) \ Assigning(text, key) /\ new[n] = text[pos[n]]
  /\ \A i \in (1..Len(text)) \ Assigning(text, key) : \E n \in 1..Len(new) : pos[n] = i
  /\ p \notin (1..Len(text)) \ Assigning(text, key)
  /\ line # <<>> => \E n \in 1..Len(new) : pos[n] = p

\* What is asked to be put in: nothing, or a line that assigns the key.
Puts(line, key) == line = <<>> \/ \E l \in LineType : line = <<l>> /\ l.key = key /\ l.name = "own"

\* _rewrite on a text that assigns the key: its other lines stay, where they were.
LEMMA ReplacedFrom ==
  ASSUME NEW text \in Seq(LineType), NEW key, NEW line, Puts(line, key),
         Assigning(text, key) # {}
  PROVE  \E pos, p : From(Replaced(text, key, line), text, key, line, pos, p)
<1> DEFINE mine == Assigning(text, key)
           kept == Kept(text, key, line)
           pos == InOrder(kept)
           c == Cardinality(kept)
           new == Replaced(text, key, line)
<1>1. /\ Len(text) \in Nat /\ DOMAIN text = 1..Len(text)
      /\ \A i \in 1..Len(text) : text[i] \in LineType
  BY LenProperties, ElementOfSeq
<1>2. mine \subseteq 1..Len(text) /\ kept \subseteq 1..Len(text)
  BY <1>1 DEF Assigning, Kept
<1>3. PICK p \in mine : \A j \in mine : p <= j
  BY <1>2, LeastOf
<1>4. /\ c \in Nat /\ DOMAIN pos = 1..c /\ pos \in [1..c -> kept]
      /\ \A m, n \in 1..c : m < n => pos[m] < pos[n]
      /\ \A i \in kept : \E m \in 1..c : pos[m] = i
  BY <1>1, <1>2, InOrderLists DEF Lists
<1>5. \A i \in 1..Len(text) : i \in kept <=> (i \notin mine \/ (line # <<>> /\ i = p))
  BY <1>1, <1>2, <1>3 DEF Kept
<1>6. new = [n \in 1..c |-> IF pos[n] \in mine THEN line[1] ELSE text[pos[n]]]
  BY <1>4 DEF Replaced
<1> HIDE DEF mine, kept, pos, c, new
<1>7. ASSUME NEW n \in 1..c
      PROVE  /\ pos[n] \in 1..Len(text)
             /\ IF pos[n] = p THEN line = <<new[n]>> ELSE pos[n] \notin mine /\ new[n] = text[pos[n]]
             /\ new[n] \in LineType
  <2>1. pos[n] \in kept /\ pos[n] \in 1..Len(text) BY <1>2, <1>4
  <2>2. CASE pos[n] = p
    <3>1. line # <<>> BY <1>3, <1>5, <2>1, <2>2
    <3>2. PICK l \in LineType : line = <<l>> BY <3>1 DEF Puts
    <3>3. new[n] = l BY <1>3, <1>6, <2>2, <3>2
    <3> QED BY <2>1, <2>2, <3>2, <3>3
  <2>3. CASE pos[n] # p
    <3>1. pos[n] \notin mine BY <1>5, <2>1, <2>3
    <3> QED BY <1>1, <1>6, <2>1, <2>3, <3>1
  <2> QED BY <2>2, <2>3
<1>8. new \in [1..c -> LineType] BY <1>6, <1>7
<1>9. new \in Seq(LineType) /\ Len(new) = c
  BY <1>4, <1>8
<1>10. pos \in [1..c -> Nat] BY <1>4, <1>7
<1>11. From(new, text, key, line, pos, p)
  <2>1. \A i \in (1..Len(text)) \ mine : \E n \in 1..c : pos[n] = i BY <1>4, <1>5
  <2>2. line # <<>> => \E n \in 1..c : pos[n] = p BY <1>2, <1>3, <1>4, <1>5
  <2> QED BY <1>3, <1>4, <1>7, <1>9, <1>10, <2>1, <2>2 DEF From, mine
<1> QED BY <1>11 DEF new

\* _rewrite on a text that does not: the line is appended.
LEMMA AppendedFrom ==
  ASSUME NEW text \in Seq(LineType), NEW key, NEW line, Puts(line, key),
         Assigning(text, key) = {}
  PROVE  \E pos, p : From(text \o line, text, key, line, pos, p)
<1> DEFINE new == text \o line
           len == Len(text)
           pos == [n \in 1..Len(new) |-> n]
<1>1. len \in Nat BY LenProperties
<1>2. line \in Seq(LineType) /\ Len(line) \in {0, 1} /\ (Len(line) = 0 <=> line = <<>>)
      /\ (line # <<>> => line = <<line[1]>>)
  <2>1. CASE line = <<>> BY <2>1, EmptySeq
  <2>2. CASE line # <<>>
    <3>1. PICK l \in LineType : line = <<l>> BY <2>2 DEF Puts
    <3>2. <<l>> \in Seq(LineType) /\ Len(<<l>>) = 1 /\ <<l>>[1] = l OBVIOUS
    <3> QED BY <2>2, <3>1, <3>2
  <2> QED BY <2>1, <2>2
<1>3. /\ new \in Seq(LineType) /\ Len(new) = len + Len(line)
      /\ \A n \in 1..Len(new) : new[n] = IF n <= len THEN text[n] ELSE line[n - len]
  BY <1>2, ConcatProperties
<1> HIDE DEF new, len
<1>4. ASSUME NEW n \in 1..Len(new)
      PROVE  IF pos[n] = len + 1 THEN line = <<new[n]>> ELSE pos[n] \in 1..len /\ new[n] = text[pos[n]]
  <2>1. CASE n = len + 1
    <3>1. new[n] = line[1] BY <1>1, <1>3, <2>1
    <3>2. line # <<>> BY <1>1, <1>2, <1>3, <2>1
    <3> QED BY <1>2, <2>1, <3>1, <3>2
  <2>2. CASE n # len + 1
    <3>1. n \in 1..len BY <1>1, <1>2, <1>3, <2>2
    <3> QED BY <1>3, <2>2, <3>1
  <2> QED BY <2>1, <2>2
<1>5. pos \in [1..Len(new) -> Nat] /\ \A m, n \in 1..Len(new) : m < n => pos[m] < pos[n]
  BY <1>1, <1>2, <1>3
<1>6. \A i \in 1..len : \E n \in 1..Len(new) : pos[n] = i
  BY <1>1, <1>2, <1>3
<1>7. line # <<>> => \E n \in 1..Len(new) : pos[n] = len + 1
  BY <1>1, <1>2, <1>3
<1> HIDE DEF pos
<1>8. From(new, text, key, line, pos, len + 1)
  BY <1>1, <1>3, <1>4, <1>5, <1>6, <1>7 DEF From, len
<1> QED BY <1>8 DEF new

\* _rewrite keeps the other lines in their order and leaves one line that assigns the key.
LEMMA RewriteFrom ==
  ASSUME NEW text \in Seq(LineType), NEW key, NEW line, Puts(line, key)
  PROVE  \E pos, p : From(Rewrite(text, key, line), text, key, line, pos, p)
BY ReplacedFrom, AppendedFrom DEF Rewrite

\* The value of the last of some lines.
LastValue(text, A) == {text[i].value : i \in {i \in A : \A j \in A : j <= i}}

\* The last of some lines that stay is the last of them still.
LEMMA LastStays ==
  ASSUME NEW text, Len(text) \in Nat, NEW key, NEW line, NEW new, NEW pos, NEW p,
         From(new, text, key, line, pos, p),
         NEW A \in SUBSET (1..Len(new)), NEW B \in SUBSET ((1..Len(text)) \ Assigning(text, key)),
         \A n \in 1..Len(new) : n \in A <=> pos[n] \in B
  PROVE  LastValue(new, A) = LastValue(text, B)
<1>1. Len(new) \in Nat BY LenProperties DEF From
<1>2. \A m, n \in 1..Len(new) : m <= n <=> pos[m] <= pos[n]
  <2>1. SUFFICES ASSUME NEW m \in 1..Len(new), NEW n \in 1..Len(new) PROVE m <= n <=> pos[m] <= pos[n]
    OBVIOUS
  <2>a. pos \in [1..Len(new) -> Nat] BY DEF From
  <2>2. pos[m] \in Nat /\ pos[n] \in Nat /\ m \in Nat /\ n \in Nat BY <1>1, <2>a
  <2>3. (m < n => pos[m] < pos[n]) /\ (n < m => pos[n] < pos[m]) BY DEF From
  <2>4. m = n => pos[m] = pos[n] OBVIOUS
  <2> QED BY <2>2, <2>3, <2>4
<1>3. \A n \in A : pos[n] \in B /\ new[n] = text[pos[n]]
  <2>1. SUFFICES ASSUME NEW n \in A PROVE pos[n] \in B /\ new[n] = text[pos[n]] OBVIOUS
  <2>2. pos[n] \in B BY <2>1
  <2>3. pos[n] # p BY <2>2 DEF From
  <2> QED BY <2>1, <2>2, <2>3 DEF From
<1>4. \A i \in B : \E n \in A : pos[n] = i
  BY DEF From
<1>5. ASSUME NEW n \in A, \A m \in A : m <= n
      PROVE  \A j \in B : j <= pos[n]
  <2>1. SUFFICES ASSUME NEW j \in B PROVE j <= pos[n] OBVIOUS
  <2>2. PICK m \in A : pos[m] = j BY <1>4
  <2> QED BY <1>2, <1>5, <2>2
<1>6. ASSUME NEW n \in A, \A j \in B : j <= pos[n]
      PROVE  \A m \in A : m <= n
  <2>1. SUFFICES ASSUME NEW m \in A PROVE m <= n OBVIOUS
  <2>2. pos[m] <= pos[n] BY <1>3, <1>6
  <2> QED BY <1>2, <2>2
<1>7. ASSUME NEW n \in A, \A m \in A : m <= n
      PROVE  \E i \in B : (\A j \in B : j <= i) /\ text[i].value = new[n].value
  BY <1>3, <1>5, <1>7
<1>8. ASSUME NEW i \in B, \A j \in B : j <= i
      PROVE  \E n \in A : (\A m \in A : m <= n) /\ text[i].value = new[n].value
  <2>1. PICK n \in A : pos[n] = i BY <1>4
  <2> QED BY <1>3, <1>6, <1>8, <2>1
<1> DEFINE late == {n \in A : \A m \in A : m <= n}
           last == {i \in B : \A j \in B : j <= i}
<1>9. \A n \in late : \E i \in last : text[i].value = new[n].value BY <1>7
<1>10. \A i \in last : \E n \in late : text[i].value = new[n].value BY <1>8
<1> HIDE DEF late, last
<1>11. {new[n].value : n \in late} = {text[i].value : i \in last} BY <1>9, <1>10
<1> QED BY <1>11, Zenon DEF late, last, LastValue

\* Every line is spelled as the key itself.
Plain(text) == \A i \in DOMAIN text : text[i].name = "own"

\* What one rewrite leaves: lines of the same type, and one line that assigns the key at most.
LEMMA RewriteOwn ==
  ASSUME NEW text \in Seq(LineType), NEW key, NEW line, Puts(line, key),
         NEW new, new = Rewrite(text, key, line)
  PROVE  /\ new \in Seq(LineType)
         /\ \A m \in DOMAIN new : new[m].key = key /\ new[m].name = "own" => line = <<new[m]>>
         /\ \A m, n \in DOMAIN new : /\ new[m].key = key /\ new[m].name = "own"
                                      /\ new[n].key = key /\ new[n].name = "own" => m = n
         /\ \A m \in DOMAIN new : line = <<new[m]>> \/ \E i \in DOMAIN text : new[m] = text[i]
         /\ line # <<>> => \E n \in DOMAIN new : line = <<new[n]>>
         /\ Plain(text) => Plain(new)
<1>1. PICK pos, p : From(new, text, key, line, pos, p) BY RewriteFrom
<1>2. /\ Len(text) \in Nat /\ DOMAIN text = 1..Len(text)
      /\ new \in Seq(LineType) /\ Len(new) \in Nat /\ DOMAIN new = 1..Len(new)
      /\ pos \in [1..Len(new) -> Nat]
  BY <1>1, LenProperties DEF From
<1>3. ASSUME NEW m \in DOMAIN new, new[m].key = key, new[m].name = "own"
      PROVE  pos[m] = p /\ line = <<new[m]>>
  <2>1. m \in 1..Len(new) BY <1>2
  <2>2. CASE pos[m] = p BY <1>1, <2>1, <2>2 DEF From
  <2>3. CASE pos[m] # p
    <3>1. pos[m] \in (1..Len(text)) \ Assigning(text, key) /\ new[m] = text[pos[m]]
      BY <1>1, <2>1, <2>3 DEF From
    <3>2. pos[m] \in Assigning(text, key) BY <1>2, <1>3, <3>1 DEF Assigning
    <3> QED BY <3>1, <3>2
  <2> QED BY <2>2, <2>3
<1>4. ASSUME NEW m \in DOMAIN new, NEW n \in DOMAIN new, pos[m] = pos[n]
      PROVE  m = n
  <2>1. m \in 1..Len(new) /\ n \in 1..Len(new) /\ m \in Nat /\ n \in Nat BY <1>2
  <2>2. pos[m] \in Nat /\ (m < n => pos[m] < pos[n]) /\ (n < m => pos[n] < pos[m])
    BY <1>1, <1>2, <2>1 DEF From
  <2> QED BY <1>4, <2>1, <2>2
<1>5. ASSUME NEW m \in DOMAIN new
      PROVE  line = <<new[m]>> \/ \E i \in DOMAIN text : new[m] = text[i]
  BY <1>1, <1>2 DEF From
<1>6. line # <<>> => \E n \in DOMAIN new : line = <<new[n]>>
  BY <1>1, <1>2 DEF From
<1>7. ASSUME Plain(text), NEW m \in DOMAIN new PROVE new[m].name = "own"
  <2>1. CASE line = <<new[m]>>
    <3>1. PICK l \in LineType : line = <<l>> /\ l.name = "own" BY <2>1 DEF Puts
    <3> QED BY <2>1, <3>1
  <2>2. CASE \E i \in DOMAIN text : new[m] = text[i] BY <1>7, <2>2 DEF Plain
  <2> QED BY <1>5, <2>1, <2>2
<1>8. ASSUME NEW m \in DOMAIN new, NEW n \in DOMAIN new, new[m].key = key, new[m].name = "own",
             new[n].key = key, new[n].name = "own"
      PROVE  m = n
  <2>1. pos[m] = p /\ pos[n] = p BY <1>3, <1>8
  <2> QED BY <1>4, <2>1
<1>9. new \in Seq(LineType) BY <1>2
<1>10. \A m \in DOMAIN new : new[m].key = key /\ new[m].name = "own" => line = <<new[m]>> BY <1>3
<1>11. \A m, n \in DOMAIN new : /\ new[m].key = key /\ new[m].name = "own"
                                 /\ new[n].key = key /\ new[n].name = "own" => m = n
  BY <1>8
<1>12. Plain(text) => Plain(new) BY <1>7 DEF Plain
<1> QED BY <1>5, <1>6, <1>9, <1>10, <1>11, <1>12

\* Every other setting is named as before, in either kind of file.
LEMMA OthersStay ==
  ASSUME NEW text \in Seq(LineType), NEW key, NEW line, Puts(line, key), NEW k, k # key,
         NEW new, new = Rewrite(text, key, line)
  PROVE  TomlLayer(new, k) = TomlLayer(text, k) /\ DotenvLayer(new, k) = DotenvLayer(text, k)
<1>1. PICK pos, p : From(new, text, key, line, pos, p) BY RewriteFrom
<1>2. /\ Len(text) \in Nat /\ DOMAIN text = 1..Len(text) /\ DOMAIN new = 1..Len(new)
  BY <1>1, LenProperties DEF From
<1>3. ASSUME NEW n \in 1..Len(new)
      PROVE  \/ new[n].key # k /\ pos[n] \notin (1..Len(text)) \ Assigning(text, key)
             \/ pos[n] \in 1..Len(text) /\ new[n] = text[pos[n]]
  <2>1. CASE pos[n] = p
    <3>1. line = <<new[n]>> BY <1>1, <2>1 DEF From
    <3>2. PICK l \in LineType : line = <<l>> /\ l.key = key BY <3>1 DEF Puts
    <3>3. new[n].key # k BY <3>1, <3>2
    <3> QED BY <1>1, <2>1, <3>3 DEF From
  <2>2. CASE pos[n] # p BY <1>1, <2>2 DEF From
  <2> QED BY <2>1, <2>2
<1>4. \A i \in 1..Len(text) : text[i].key = k => i \notin Assigning(text, key)
  BY DEF Assigning
<1> DEFINE A == {n \in 1..Len(new) : new[n].key = k}
           B == {i \in 1..Len(text) : text[i].key = k}
           C == {n \in 1..Len(new) : new[n].key = k /\ new[n].value # "empty"}
           D == {i \in 1..Len(text) : text[i].key = k /\ text[i].value # "empty"}
<1>5. /\ A \in SUBSET (1..Len(new)) /\ B \in SUBSET ((1..Len(text)) \ Assigning(text, key))
      /\ \A n \in 1..Len(new) : n \in A <=> pos[n] \in B
  BY <1>3, <1>4
<1>6. /\ C \in SUBSET (1..Len(new)) /\ D \in SUBSET ((1..Len(text)) \ Assigning(text, key))
      /\ \A n \in 1..Len(new) : n \in C <=> pos[n] \in D
  BY <1>3, <1>4
<1> HIDE DEF A, B, C, D
<1>7. LastValue(new, A) = LastValue(text, B)
  BY <1>1, <1>2, <1>5, LastStays
<1>8. LastValue(new, C) = LastValue(text, D)
  BY <1>1, <1>2, <1>6, LastStays
<1>9. DotenvLayer(new, k) = DotenvLayer(text, k)
  BY <1>2, <1>7, Zenon DEF DotenvLayer, LastValue, A, B
<1>10. TomlLayer(new, k) = TomlLayer(text, k)
  BY <1>2, <1>8, Zenon DEF TomlLayer, LastValue, C, D
<1> QED BY <1>9, <1>10

\* What the file names for the key itself, when no other spelling there says otherwise.
LEMMA OwnToml ==
  ASSUME NEW text \in Seq(LineType), NEW key, NEW line, Puts(line, key),
         line # <<>> => line[1].value # "empty",
         NEW new, new = Rewrite(text, key, line),
         \A i \in DOMAIN new : new[i].key = key /\ new[i].name = "alias" => new[i].value = "empty"
  PROVE  TomlLayer(new, key) = IF line = <<>> THEN {} ELSE {line[1].value}
<1> DEFINE naming == {i \in DOMAIN new : new[i].key = key /\ new[i].value # "empty"}
<1>0. /\ \A m \in DOMAIN new : new[m].key = key /\ new[m].name = "own" => line = <<new[m]>>
      /\ \A m, n \in DOMAIN new : /\ new[m].key = key /\ new[m].name = "own"
                                   /\ new[n].key = key /\ new[n].name = "own" => m = n
  BY RewriteOwn
<1>1. /\ new \in Seq(LineType) /\ Len(new) \in Nat /\ DOMAIN new = 1..Len(new)
      /\ \A i \in DOMAIN new : new[i] \in LineType
  BY RewriteOwn, LenProperties, ElementOfSeq
<1>2. \A i \in naming : new[i].key = key /\ new[i].name = "own" /\ i \in DOMAIN new BY <1>1 DEF LineType
<1>3. \A i \in naming : line = <<new[i]>> BY <1>0, <1>2
<1>4. \A i, j \in naming : i = j BY <1>0, <1>2
<1>5. CASE line = <<>>
  <2>1. naming = {} BY <1>3, <1>5
  <2> HIDE DEF naming
  <2>2. {new[i].value : i \in {i \in naming : \A j \in naming : j <= i}} = {} BY <2>1
  <2> QED BY <1>5, <2>2 DEF TomlLayer, naming
<1>6. CASE line # <<>>
  <2>1. PICK n \in DOMAIN new : line = <<new[n]>> BY <1>6, RewriteOwn
  <2>2. PICK l \in LineType : line = <<l>> /\ l.key = key BY <1>6 DEF Puts
  <2>3. new[n] = l /\ line[1] = l BY <2>1, <2>2
  <2>4. n \in naming BY <1>6, <2>1, <2>2, <2>3
  <2>5. n \in Nat BY <1>1
  <2>6. naming = {n} BY <1>4, <2>4
  <2> HIDE DEF naming
  <2>7. {i \in naming : \A j \in naming : j <= i} = {n} BY <2>5, <2>6
  <2>8. {new[i].value : i \in {i \in naming : \A j \in naming : j <= i}} = {new[n].value} BY <2>7
  <2> QED BY <1>6, <2>3, <2>8 DEF TomlLayer, naming
<1> QED BY <1>5, <1>6

\* The same of .env, where there is no other spelling.
LEMMA OwnDotenv ==
  ASSUME NEW text \in Seq(LineType), NEW key, NEW line, Puts(line, key), Plain(text),
         line # <<>> => line[1].value # "empty",
         NEW new, new = Rewrite(text, key, line)
  PROVE  DotenvLayer(new, key) = IF line = <<>> THEN {} ELSE {line[1].value}
<1> DEFINE naming == {i \in DOMAIN new : new[i].key = key}
<1>0. /\ \A m \in DOMAIN new : new[m].key = key /\ new[m].name = "own" => line = <<new[m]>>
      /\ \A m, n \in DOMAIN new : /\ new[m].key = key /\ new[m].name = "own"
                                   /\ new[n].key = key /\ new[n].name = "own" => m = n
  BY RewriteOwn
<1>1. /\ new \in Seq(LineType) /\ Len(new) \in Nat /\ DOMAIN new = 1..Len(new) /\ Plain(new)
  BY RewriteOwn, LenProperties
<1>2. \A i \in naming : new[i].key = key /\ new[i].name = "own" /\ i \in DOMAIN new BY <1>1 DEF Plain
<1>3. \A i \in naming : line = <<new[i]>> BY <1>0, <1>2
<1>4. \A i, j \in naming : i = j BY <1>0, <1>2
<1>5. CASE line = <<>>
  <2>1. naming = {} BY <1>3, <1>5
  <2> HIDE DEF naming
  <2>2. {new[i].value : i \in {i \in naming : \A j \in naming : j <= i}} = {} BY <2>1
  <2> QED BY <1>5, <2>2 DEF DotenvLayer, naming
<1>6. CASE line # <<>>
  <2>1. PICK n \in DOMAIN new : line = <<new[n]>> BY <1>6, RewriteOwn
  <2>2. PICK l \in LineType : line = <<l>> /\ l.key = key BY <1>6 DEF Puts
  <2>3. new[n] = l /\ line[1] = l BY <2>1, <2>2
  <2>4. n \in naming BY <2>2, <2>3
  <2>5. n \in Nat BY <1>1
  <2>6. naming = {n} BY <1>4, <2>4
  <2> HIDE DEF naming
  <2>7. {i \in naming : \A j \in naming : j <= i} = {n} BY <2>5, <2>6
  <2>8. {new[i].value : i \in {i \in naming : \A j \in naming : j <= i}} = {new[n].value} BY <2>7
  <2> QED BY <1>6, <2>3, <2>8 DEF DotenvLayer, naming
<1> QED BY <1>5, <1>6

\* A settings file that could be read still can be.
LEMMA ParsesStay ==
  ASSUME NEW text \in Seq(LineType), NEW key \in Keys \ {Secret}, NEW line, Puts(line, key), Parses(text),
         line # <<>> => line[1].value # "bad",
         NEW new, new = Rewrite(text, key, line)
  PROVE  Parses(new)
<1>0. \A m, n \in DOMAIN new : /\ new[m].key = key /\ new[m].name = "own"
                                /\ new[n].key = key /\ new[n].name = "own" => m = n
  BY RewriteOwn
<1>1. ASSUME NEW i \in DOMAIN new
      PROVE  new[i].key \in Keys \ {Secret} /\ new[i].value # "bad"
  <2>1. CASE line = <<new[i]>>
    <3>1. PICK l \in LineType : line = <<l>> /\ l.key = key BY <2>1 DEF Puts
    <3>2. new[i] = l /\ line[1] = l /\ line # <<>> BY <2>1, <3>1
    <3> QED BY <3>1, <3>2
  <2>2. CASE \E j \in DOMAIN text : new[i] = text[j] BY <2>2 DEF Parses
  <2> QED BY <2>1, <2>2, RewriteOwn
<1>2. PICK pos, p : From(new, text, key, line, pos, p) BY RewriteFrom
<1>3. /\ Len(text) \in Nat /\ DOMAIN text = 1..Len(text) /\ Len(new) \in Nat /\ DOMAIN new = 1..Len(new)
      /\ pos \in [1..Len(new) -> Nat]
  BY <1>2, LenProperties DEF From
<1>4. ASSUME NEW i \in DOMAIN new, NEW j \in DOMAIN new, new[i].key = new[j].key, new[i].name = new[j].name
      PROVE  i = j
  <2>1. CASE pos[i] = p \/ pos[j] = p
    <3>0. line = <<new[i]>> \/ line = <<new[j]>> BY <1>2, <1>3, <2>1 DEF From
    <3>1. PICK l \in LineType : line = <<l>> /\ l.key = key /\ l.name = "own"
      <4>1. line # <<>> BY <3>0
      <4> QED BY <4>1 DEF Puts
    <3>2. new[i] = l \/ new[j] = l BY <3>0, <3>1
    <3>3. new[i].key = key /\ new[i].name = "own" /\ new[j].name = "own" BY <1>4, <3>1, <3>2
    <3>4. new[j].key = key BY <1>4, <3>3
    <3> QED BY <1>0, <1>4, <3>3, <3>4
  <2>2. CASE pos[i] # p /\ pos[j] # p
    <3>1. /\ pos[i] \in DOMAIN text /\ new[i] = text[pos[i]]
          /\ pos[j] \in DOMAIN text /\ new[j] = text[pos[j]]
      BY <1>2, <1>3, <2>2 DEF From
    <3>2. pos[i] = pos[j] BY <1>4, <3>1 DEF Parses
    <3>3. i \in Nat /\ j \in Nat /\ pos[i] \in Nat /\ i \in 1..Len(new) /\ j \in 1..Len(new) BY <1>3
    <3>4. (i < j => pos[i] < pos[j]) /\ (j < i => pos[j] < pos[i]) BY <1>2, <3>3 DEF From
    <3> QED BY <3>2, <3>3, <3>4
  <2> QED BY <2>1, <2>2
<1> QED BY <1>1, <1>4 DEF Parses

\* The value is that of the highest layer that names one.
LEMMA ValueIs ==
  ASSUME NEW env, NEW fs, NEW key, NEW layer, layer = Layers(env, fs, key)
  PROVE  Value(env, fs, key) =
           IF layer[1] # {} THEN layer[1] ELSE IF layer[2] # {} THEN layer[2]
           ELSE IF layer[3] # {} THEN layer[3] ELSE layer[4]
<1> DEFINE naming == {i \in 1..4 : layer[i] # {}}
           first == {i \in naming : \A j \in naming : i <= j}
<1>1. Value(env, fs, key) = UNION {layer[i] : i \in first} BY DEF Value
<1>2. CASE naming = {}
  <2>1. first = {} BY <1>2
  <2>2. layer[1] = {} /\ layer[2] = {} /\ layer[3] = {} /\ layer[4] = {} BY <1>2
  <2> HIDE DEF naming, first
  <2> QED BY <1>1, <2>1, <2>2
<1>3. CASE naming # {}
  <2>1. PICK n \in naming : \A j \in naming : n <= j BY <1>3, LeastOf
  <2>2. first = {n}
    <3>1. n \in first BY <2>1
    <3>2. \A i \in first : i \in Nat /\ i <= n /\ n <= i BY <2>1
    <3>3. n \in Nat BY <2>1
    <3>4. \A i \in first : i = n BY <3>2, <3>3
    <3> HIDE DEF first
    <3> QED BY <3>1, <3>4
  <2>3. /\ n \in 1..4 /\ layer[n] # {}
        /\ \A j \in 1..4 : j < n => layer[j] = {}
    BY <2>1
  <2> HIDE DEF naming, first
  <2>4. Value(env, fs, key) = layer[n] BY <1>1, <2>2
  <2>5. n = 1 \/ n = 2 \/ n = 3 \/ n = 4 BY <2>3
  <2> QED BY <2>3, <2>4, <2>5
<1> QED BY <1>2, <1>3

\* A settings file that can be read names one value at most.
LEMMA TomlNamesOne ==
  ASSUME NEW text \in Seq(LineType), Parses(text), NEW key
  PROVE  TomlLayer(text, key) = {} \/ \E x \in Values : TomlLayer(text, key) = {x}
<1> DEFINE naming == {i \in DOMAIN text : text[i].key = key /\ text[i].value # "empty"}
           last == {i \in naming : \A j \in naming : j <= i}
<1>1. /\ Len(text) \in Nat /\ DOMAIN text = 1..Len(text)
      /\ \A i \in DOMAIN text : text[i] \in LineType
  BY LenProperties, ElementOfSeq
<1>2. TomlLayer(text, key) = {text[i].value : i \in last} BY DEF TomlLayer
<1>3. \A i \in last : i \in DOMAIN text /\ text[i].value \in Values
  BY <1>1 DEF Parses, LineType
<1>4. \A i, j \in last : i \in Nat /\ j \in Nat /\ i <= j /\ j <= i BY <1>1
<1>5. \A i, j \in last : i = j BY <1>4
<1> HIDE DEF last
<1>6. CASE last = {} BY <1>2, <1>6
<1>7. CASE last # {}
  <2>1. PICK i \in last : TRUE BY <1>7
  <2>2. last = {i} BY <1>5, <2>1
  <2> QED BY <1>2, <1>3, <2>2
<1> QED BY <1>6, <1>7

\* What a run starts with, from what the layers come to.
LEMMA LoadedIs ==
  ASSUME NEW env, NEW fs, NEW key \in RequestVars, NEW kind \in DOMAIN KindBudget,
         NEW told, told = Value(env, fs, key), told = {} \/ \E x \in Values : told = {x}
  PROVE  /\ key \in Overridden(env, fs) <=> told \notin {{}, {Default[key]}}
         /\ ForCaseKind(env, fs, kind)[key] \in
              (IF told = {} THEN {IF key = Budget THEN KindBudget[kind] ELSE Default[key]} ELSE told)
<1>1. /\ key \in Keys \ {Secret} /\ Budget \in Keys \ {Secret} /\ Default[key] \in Values \cup {"none"}
  BY SettingsAssumption
<1>2. key \in Overridden(env, fs) <=> told \notin {{}, {Default[key]}}
  BY DEF Overridden, Explicit
<1>3. Load(env, fs)[key] = CHOOSE v \in Values \cup {"none"} : v \in IF told # {} THEN told ELSE {Default[key]}
  BY <1>1 DEF Load
<1>4. Load(env, fs)[key] \in IF told # {} THEN told ELSE {Default[key]}
  <2>1. \E v \in Values \cup {"none"} : v \in IF told # {} THEN told ELSE {Default[key]} BY <1>1
  <2> HIDE DEF Load
  <2> QED BY <1>3, <2>1
<1>5. key \in Explicit(env, fs) <=> told # {} BY DEF Explicit
<1>6. ForCaseKind(env, fs, kind)[key] =
        IF key = Budget /\ told = {} THEN KindBudget[kind] ELSE Load(env, fs)[key]
  <2>1. DOMAIN Load(env, fs) = Keys \ {Secret} BY DEF Load
  <2>2. CASE key = Budget BY <1>1, <1>5, <2>1, <2>2 DEF ForCaseKind
  <2>3. CASE key # Budget BY <1>1, <2>1, <2>3 DEF ForCaseKind
  <2> QED BY <2>2, <2>3
<1> QED BY <1>2, <1>4, <1>6

\* Three files of lines, and .env without another spelling.
Text(fs) == fs \in [Files -> Seq(LineType)] /\ Plain(fs["dotenv"])

\* What a thread may have been asked.
Asking(o) ==
  /\ o.key \in Keys /\ o.file \in Files
  /\ o.file = "dotenv" <=> o.key = Secret

\* Where a thread is between its question and its answer.
Writing == {"asked", "read", "open", "written"}

ThreadOK(t) ==
  /\ Asking(op[t])
  /\ pc[t] \in Writing \cup {"idle", "answered", "refused"}
  /\ pc[t] \in Writing /\ op[t].kind = "set" => op[t].value \in Values
  /\ Text(before[t])
  /\ pc[t] \in {"read", "open"} =>
       /\ got[t] \in Seq(LineType) /\ (op[t].file = "dotenv" => Plain(got[t]))

\* Who was alone since its read finds its file as its own steps left it, and nobody there.
AloneOK(t) ==
  alone[t] /\ pc[t] \in {"read", "open", "written"} =>
    /\ AtFile(t, op[t].file) = {}
    /\ pc[t] \in {"read", "open"} => got[t] = before[t][op[t].file]
    /\ pc[t] = "open" => files[op[t].file] = <<>>
    /\ pc[t] = "written" =>
         files[op[t].file] = Rewrite(before[t][op[t].file], op[t].key, LineOf(op[t]))

FunctionsOK ==
  /\ DOMAIN op = Threads /\ DOMAIN pc = Threads /\ DOMAIN got = Threads
  /\ DOMAIN before = Threads /\ alone \in [Threads -> BOOLEAN]

SettingsInv ==
  /\ FunctionsOK
  /\ Text(files)
  /\ \A t \in Threads : ThreadOK(t) /\ AloneOK(t)

\* What a thread puts in is a line of what it was asked, or none.
LEMMA LinePuts ==
  ASSUME NEW o, o.key \in Keys, o.kind = "set" => o.value \in Values
  PROVE  /\ Puts(LineOf(o), o.key)
         /\ LineOf(o) = <<>> <=> o.kind # "set"
         /\ o.kind = "set" => LineOf(o)[1].value = o.value
         /\ LineOf(o) # <<>> => LineOf(o)[1].value = o.value /\ o.value \in Values
<1> DEFINE l == [key |-> o.key, name |-> "own", value |-> o.value]
<1>1. CASE o.kind = "set"
  <2>1. LineOf(o) = <<l>> BY <1>1 DEF LineOf
  <2>2. l \in LineType BY <1>1 DEF LineType
  <2>3. l.key = o.key /\ l.name = "own" /\ l.value = o.value OBVIOUS
  <2> HIDE DEF l
  <2> QED BY <1>1, <2>1, <2>2, <2>3 DEF Puts
<1>2. CASE o.kind # "set" BY <1>2 DEF LineOf, Puts
<1> QED BY <1>1, <1>2

\* A write that met no other did what it was asked.
LEMMA AloneSuffices == SettingsInv => AloneIsExact
<1>1. SUFFICES ASSUME SettingsInv, NEW t \in Threads, pc[t] = "written", alone[t], Reads(before[t]),
                      \A f \in Files \ {op[t].file} : files[f] = before[t][f]
      PROVE  LET key == op[t].key
                 text == files[op[t].file]
                 layer == Layers(Environ, files, key)
                 level == CASE op[t].file = "dotenv" -> 2 [] op[t].file = "project" -> 3 [] OTHER -> 4
                 below == IF level = 3 THEN layer[4] ELSE {}
                 Silent == \A i \in DOMAIN text :
                             text[i].key = key /\ text[i].name = "alias" => text[i].value = "empty"
             IN  /\ Reads(files)
                 /\ \A k \in Keys \ {key} : Value(Environ, files, k) = Value(Environ, before[t], k)
                 /\ Silent /\ (\A i \in 1..(level - 1) : layer[i] = {}) =>
                      /\ Value(Environ, files, key) = (IF op[t].kind = "set" THEN {op[t].value} ELSE below)
                      /\ key \in RequestVars =>
                           LET told == IF op[t].kind = "set" THEN {op[t].value} ELSE below
                           IN  /\ key \in Overridden(Environ, files) <=> told \notin {{}, {Default[key]}}
                               /\ \A kind \in DOMAIN KindBudget :
                                    LET untold == IF key = Budget THEN KindBudget[kind] ELSE Default[key]
                                    IN  ForCaseKind(Environ, files, kind)[key] \in (IF told = {} THEN {untold} ELSE told)
  BY DEF AloneIsExact
<1> DEFINE key == op[t].key
           file == op[t].file
           was == before[t]
           line == LineOf(op[t])
           text == files[file]
           layer == Layers(Environ, files, key)
           level == CASE file = "dotenv" -> 2 [] file = "project" -> 3 [] OTHER -> 4
           below == IF level = 3 THEN layer[4] ELSE {}
           told == IF op[t].kind = "set" THEN {op[t].value} ELSE below
           Silent == \A i \in DOMAIN text :
                       text[i].key = key /\ text[i].name = "alias" => text[i].value = "empty"
<1>2. /\ key \in Keys /\ file \in Files /\ (file = "dotenv" <=> key = Secret)
      /\ (op[t].kind = "set" => op[t].value \in Values)
      /\ Text(was) /\ Text(files)
      /\ text = Rewrite(was[file], key, line)
  BY <1>1 DEF SettingsInv, ThreadOK, AloneOK, Asking, Writing
<1>3. /\ Puts(line, key)
      /\ line = <<>> <=> op[t].kind # "set"
      /\ line # <<>> => line[1].value = op[t].value /\ op[t].value \in Values
  BY <1>2, LinePuts
<1>4. /\ \A f \in Files : was[f] \in Seq(LineType) /\ files[f] \in Seq(LineType)
      /\ Plain(was["dotenv"])
      /\ \A f \in Files \ {file} : files[f] = was[f]
  BY <1>1, <1>2 DEF Text
<1>5. line # <<>> => line[1].value # "empty" /\ line[1].value # "bad"
  BY <1>3, SettingsAssumption
<1>6. Parses(was["user"]) /\ Parses(was["project"])
      /\ \A k \in Keys \ {Secret} : "bad" \notin DotenvLayer(was["dotenv"], k)
  BY <1>1 DEF Reads
<1> HIDE DEF key, file, was, line, text
<1>7. ASSUME NEW k, k # key, NEW f \in Files
      PROVE  TomlLayer(files[f], k) = TomlLayer(was[f], k) /\ DotenvLayer(files[f], k) = DotenvLayer(was[f], k)
  <2>1. CASE f = file BY <1>2, <1>3, <1>4, <1>7, <2>1, OthersStay DEF text
  <2>2. CASE f # file BY <1>4, <2>2
  <2> QED BY <2>1, <2>2
<1>8. \A f \in {"user", "project"} : Parses(files[f])
  <2>1. SUFFICES ASSUME NEW f \in {"user", "project"} PROVE Parses(files[f]) OBVIOUS
  <2>2. f \in Files /\ f # "dotenv" /\ Parses(was[f]) BY <1>6 DEF Files
  <2>3. CASE f = file
    <3>1. key \in Keys \ {Secret} BY <1>2, <2>2, <2>3
    <3> QED BY <1>2, <1>3, <1>4, <1>5, <2>2, <2>3, <3>1, ParsesStay DEF text
  <2>4. CASE f # file BY <1>4, <2>2, <2>4
  <2> QED BY <2>3, <2>4
<1>9. Reads(files)
  <2>1. ASSUME NEW k \in Keys \ {Secret} PROVE "bad" \notin DotenvLayer(files["dotenv"], k)
    <3>1. "dotenv" \in Files BY DEF Files
    <3>2. CASE k # key BY <1>6, <1>7, <3>1, <3>2
    <3>3. CASE k = key BY <1>2, <1>4, <1>6, <3>1, <3>3
    <3> QED BY <3>2, <3>3
  <2> QED BY <1>8, <2>1 DEF Reads
<1>10. ASSUME NEW k \in Keys \ {key} PROVE Value(Environ, files, k) = Value(Environ, was, k)
  <2>1. Layers(Environ, files, k) = Layers(Environ, was, k) BY <1>7 DEF Layers, Files
  <2>2. PICK both : both = Layers(Environ, was, k) OBVIOUS
  <2> QED BY <2>1, <2>2, ValueIs
<1>named. ASSUME Silent PROVE TomlLayer(text, key) = IF line = <<>> THEN {} ELSE {line[1].value}
  <2>1. was[file] \in Seq(LineType) /\ text = Rewrite(was[file], key, line) BY <1>2, <1>4
  <2>2. line # <<>> => line[1].value # "empty" BY <1>5
  <2>3. PICK new : new = text OBVIOUS
  <2>4. new = Rewrite(was[file], key, line) BY <2>1, <2>3
  <2>5. \A i \in DOMAIN new : new[i].key = key /\ new[i].name = "alias" => new[i].value = "empty"
    BY <1>named, <2>3
  <2>6. TomlLayer(new, key) = IF line = <<>> THEN {} ELSE {line[1].value}
    BY <1>3, <2>1, <2>2, <2>4, <2>5, OwnToml
  <2> QED BY <2>3, <2>6
<1>11. ASSUME Silent, \A i \in 1..(level - 1) : layer[i] = {}
       PROVE  /\ Value(Environ, files, key) = told
              /\ key \in RequestVars => told = {} \/ \E x \in Values : told = {x}
  <2>1. PICK ls : ls = layer OBVIOUS
  <2>2. Value(Environ, files, key) =
          IF ls[1] # {} THEN ls[1] ELSE IF ls[2] # {} THEN ls[2] ELSE IF ls[3] # {} THEN ls[3] ELSE ls[4]
    BY <2>1, ValueIs
  <2>3. /\ ls[2] = DotenvLayer(files["dotenv"], key)
        /\ ls[3] = IF key = Secret THEN {} ELSE TomlLayer(files["project"], key)
        /\ ls[4] = IF key = Secret THEN {} ELSE TomlLayer(files["user"], key)
    BY <2>1 DEF Layers
  <2>4. CASE file = "dotenv"
    <3>1. level = 2 /\ key = Secret BY <1>2, <2>4
    <3>2. ls[1] = {} /\ ls[3] = {} /\ ls[4] = {} BY <1>11, <2>1, <2>3, <3>1
    <3>3. ls[2] = IF line = <<>> THEN {} ELSE {line[1].value}
      <4>1. was[file] \in Seq(LineType) /\ Plain(was[file]) BY <1>2, <1>4, <2>4
      <4>2. DotenvLayer(text, key) = IF line = <<>> THEN {} ELSE {line[1].value}
        BY <1>2, <1>3, <1>5, <4>1, OwnDotenv
      <4> QED BY <2>3, <2>4, <4>2 DEF text
    <3>4. below = {} BY <3>1
    <3> HIDE DEF below
    <3>5. told = ls[2] BY <1>3, <3>3, <3>4
    <3>6. key \notin RequestVars BY <3>1, SettingsAssumption
    <3> QED BY <2>2, <3>2, <3>5, <3>6
  <2>5. CASE file # "dotenv"
    <3>1. key # Secret BY <1>2, <2>5
    <3>2. TomlLayer(text, key) = IF line = <<>> THEN {} ELSE {line[1].value}
      BY <1>11, <1>named
    <3>3. CASE file = "project"
      <4>1. level = 3 BY <3>3
      <4>2. ls[1] = {} /\ ls[2] = {} BY <1>11, <2>1, <4>1
      <4>3. ls[3] = TomlLayer(text, key) BY <2>3, <3>1, <3>3 DEF text
      <4>4. ls[4] = {} \/ \E x \in Values : ls[4] = {x}
        <5>1. files["user"] \in Seq(LineType) /\ Parses(files["user"]) BY <1>4, <1>8 DEF Files
        <5>2. TomlLayer(files["user"], key) = {} \/ \E x \in Values : TomlLayer(files["user"], key) = {x}
          BY <5>1, TomlNamesOne
        <5> QED BY <2>3, <3>1, <5>2
      <4>5. told = IF line = <<>> THEN ls[4] ELSE {line[1].value} BY <1>3, <2>1, <4>1
      <4> QED BY <1>3, <2>2, <3>2, <4>2, <4>3, <4>4, <4>5
    <3>4. CASE file = "user"
      <4>1. level = 4 BY <3>4
      <4>2. ls[1] = {} /\ ls[2] = {} /\ ls[3] = {} BY <1>11, <2>1, <4>1
      <4>3. ls[4] = TomlLayer(text, key) BY <2>3, <3>1, <3>4 DEF text
      <4>4. told = IF line = <<>> THEN {} ELSE {line[1].value}
        <5>1. below = {} BY <4>1
        <5> HIDE DEF below
        <5> QED BY <1>3, <5>1
      <4> QED BY <1>3, <2>2, <3>2, <4>2, <4>3, <4>4
    <3> QED BY <1>2, <2>5, <3>3, <3>4 DEF Files
  <2> QED BY <2>4, <2>5
<1> HIDE DEF level, layer, told, below
<1>12. ASSUME Silent, \A i \in 1..(level - 1) : layer[i] = {}, key \in RequestVars
       PROVE  /\ key \in Overridden(Environ, files) <=> told \notin {{}, {Default[key]}}
              /\ \A kind \in DOMAIN KindBudget : ForCaseKind(Environ, files, kind)[key] \in
                   (IF told = {} THEN {IF key = Budget THEN KindBudget[kind] ELSE Default[key]} ELSE told)
  <2>1. told = Value(Environ, files, key) /\ (told = {} \/ \E x \in Values : told = {x}) BY <1>11, <1>12
  <2>2. \E kind : kind \in DOMAIN KindBudget BY SettingsAssumption
  <2> QED BY <1>12, <2>1, <2>2, LoadedIs
<1> QED BY <1>9, <1>10, <1>11, <1>12 DEF key, file, was, text, layer, level, below, told

\* A position behind n is one of the rest.
LEMMA Beyond ==
  ASSUME NEW n \in Nat, NEW l \in Nat, NEW r \in Nat, r = IF n + 1 <= l THEN l - n ELSE 0,
         NEW i \in 1..(n + r), ~(i <= n)
  PROVE  i - n \in 1..(l - n) /\ i \in 1..l /\ n + (i - n) = i
OBVIOUS

\* Writing over a text leaves lines, and writing over nothing what was written.
LEMMA OverIs ==
  ASSUME NEW text \in Seq(LineType), NEW new \in Seq(LineType)
  PROVE  /\ Over(text, new) \in Seq(LineType)
         /\ Plain(text) /\ Plain(new) => Plain(Over(text, new))
         /\ text = <<>> => Over(text, new) = new
<1> DEFINE rest == SubSeq(text, Len(new) + 1, Len(text))
<1>1. /\ Len(new) \in Nat /\ Len(text) \in Nat /\ DOMAIN new = 1..Len(new) /\ DOMAIN text = 1..Len(text)
      /\ \A i \in 1..Len(text) : text[i] \in LineType
  BY LenProperties, ElementOfSeq
<1>2. /\ rest \in Seq(LineType)
      /\ Len(rest) = IF Len(new) + 1 <= Len(text) THEN Len(text) - Len(new) ELSE 0
      /\ \A i \in 1..(Len(text) - Len(new)) : rest[i] = text[Len(new) + i]
  <2>0. PICK a \in Nat : a = Len(new) + 1 BY <1>1
  <2>1. a \in Int /\ Len(text) \in Int /\ \A i \in a..Len(text) : text[i] \in LineType BY <1>1, <2>0
  <2>2. /\ SubSeq(text, a, Len(text)) \in Seq(LineType)
        /\ Len(SubSeq(text, a, Len(text))) = IF a <= Len(text) THEN Len(text) - a + 1 ELSE 0
        /\ \A i \in 1..(Len(text) - a + 1) : SubSeq(text, a, Len(text))[i] = text[a + i - 1]
    BY <2>1, SubSeqProperties
  <2>3. rest = SubSeq(text, a, Len(text)) BY <2>0
  <2> HIDE DEF rest
  <2>4. \A i \in 1..(Len(text) - Len(new)) : i \in 1..(Len(text) - a + 1) /\ a + i - 1 = Len(new) + i
    BY <1>1, <2>0
  <2>5. Len(rest) = IF a <= Len(text) THEN Len(text) - Len(new) ELSE 0 BY <1>1, <2>0, <2>2, <2>3
  <2> QED BY <2>0, <2>2, <2>3, <2>4, <2>5
<1> HIDE DEF rest
<1>3. /\ Over(text, new) \in Seq(LineType)
      /\ Len(Over(text, new)) = Len(new) + Len(rest)
      /\ \A i \in 1..(Len(new) + Len(rest)) :
           Over(text, new)[i] = IF i <= Len(new) THEN new[i] ELSE rest[i - Len(new)]
  BY <1>2, ConcatProperties DEF Over, rest
<1>4. ASSUME Plain(text), Plain(new), NEW i \in DOMAIN Over(text, new) PROVE Over(text, new)[i].name = "own"
  <2>1. i \in 1..(Len(new) + Len(rest)) /\ Len(rest) \in Nat BY <1>2, <1>3, LenProperties
  <2>2. CASE i <= Len(new)
    <3>1. i \in DOMAIN new BY <1>1, <2>1, <2>2
    <3> QED BY <1>3, <1>4, <2>1, <2>2, <3>1 DEF Plain
  <2>3. CASE ~(i <= Len(new))
    <3>1. /\ i - Len(new) \in 1..(Len(text) - Len(new)) /\ i \in DOMAIN text
          /\ Len(new) + (i - Len(new)) = i
      BY <1>1, <1>2, <2>1, <2>3, Beyond
    <3>2. rest[i - Len(new)] = text[i] BY <1>2, <3>1
    <3> QED BY <1>3, <1>4, <2>1, <2>3, <3>1, <3>2 DEF Plain
  <2> QED BY <2>2, <2>3
<1>5. ASSUME text = <<>> PROVE Over(text, new) = new
  <2>1. Len(text) = 0 BY <1>5
  <2>2. rest = <<>> BY <1>1, <1>2, <2>1, EmptySeq
  <2> QED BY <2>2, ConcatEmptySeq DEF Over, rest
<1> QED BY <1>3, <1>4, <1>5 DEF Plain

\* Nobody was asked anything yet.
LEMMA SettingsStart == SettingsInit => SettingsInv
<1>1. SUFFICES ASSUME SettingsInit PROVE SettingsInv OBVIOUS
<1>2. Text(files) BY <1>1, SettingsAssumption DEF SettingsInit, Text, Plain
<1>3. FunctionsOK BY <1>1 DEF SettingsInit, FunctionsOK
<1>4. ASSUME NEW t \in Threads PROVE ThreadOK(t) /\ AloneOK(t)
  <2>1. /\ op[t] = [kind |-> "unset", key |-> Secret, value |-> "empty", file |-> "dotenv"]
        /\ pc[t] = "idle" /\ before[t] = files
    BY <1>1 DEF SettingsInit
  <2>2. Asking(op[t]) BY <2>1, SettingsAssumption DEF Asking, Files
  <2> QED BY <1>2, <2>1, <2>2 DEF ThreadOK, AloneOK, Writing
<1> QED BY <1>2, <1>3, <1>4 DEF SettingsInv

\* A question touches no file.
LEMMA AskKeeps ==
  ASSUME SettingsInv, NEW t \in Threads, NEW o \in Ops, Ask(t, o)
  PROVE  SettingsInv'
<1>1. /\ pc[t] = "idle" /\ op' = [op EXCEPT ![t] = o]
      /\ pc' = [pc EXCEPT ![t] = IF o.kind = "set" /\ o.value \in {"empty", "bad"} THEN "refused" ELSE "asked"]
      /\ files' = files /\ got' = got /\ before' = before /\ alone' = alone
  BY DEF Ask
<1>2. FunctionsOK /\ FunctionsOK' BY <1>1 DEF SettingsInv, FunctionsOK
<1>3. /\ op'[t] = o /\ pc'[t] \in {"refused", "asked"}
      /\ pc'[t] = "asked" /\ o.kind = "set" => o.value \notin {"empty", "bad"}
      /\ \A u \in Threads : u # t => op'[u] = op[u] /\ pc'[u] = pc[u]
  BY <1>1, <1>2 DEF FunctionsOK
<1>4. /\ o.key \in Touched /\ o.value \in Values \cup {"empty", "bad"} /\ o.file \in Files
      /\ (o.file = "dotenv" <=> o.key = Secret)
  BY DEF Ops
<1>5. Asking(o) BY <1>4, SettingsAssumption DEF Asking
<1>6. ThreadOK(t)'
  BY <1>1, <1>3, <1>4, <1>5 DEF SettingsInv, ThreadOK, Writing, Text
<1>7. AloneOK(t)' BY <1>3 DEF AloneOK
<1>8. ASSUME NEW u \in Threads, u # t PROVE ThreadOK(u)' /\ AloneOK(u)'
  <2>1. ThreadOK(u)' BY <1>1, <1>3, <1>8 DEF SettingsInv, ThreadOK, Text
  <2>2. AtFile(u, op[u].file)' \subseteq AtFile(u, op[u].file)
    BY <1>3, <1>8 DEF AtFile
  <2>3. AloneOK(u)' BY <1>1, <1>3, <1>8, <2>2 DEF SettingsInv, AloneOK
  <2> QED BY <2>1, <2>3
<1>9. Text(files)' BY <1>1 DEF SettingsInv, Text
<1> QED BY <1>2, <1>6, <1>7, <1>8, <1>9 DEF SettingsInv

\* A reader of the same file ends that another was alone at it.
LEMMA ReadLinesKeeps ==
  ASSUME SettingsInv, NEW t \in Threads, ReadLines(t)
  PROVE  SettingsInv'
<1>1. /\ pc[t] = "asked" /\ op' = op /\ files' = files
      /\ pc' = [pc EXCEPT ![t] = "read"]
      /\ got' = [got EXCEPT ![t] = files[op[t].file]]
      /\ before' = [before EXCEPT ![t] = files]
      /\ alone' = [u \in Threads |-> IF u = t THEN AtFile(t, op[t].file) = {}
                                     ELSE alone[u] /\ op[u].file # op[t].file]
  BY DEF ReadLines
<1>2. FunctionsOK /\ FunctionsOK'
  <2>1. FunctionsOK BY DEF SettingsInv
  <2>2. alone' \in [Threads -> BOOLEAN]
    <3>1. \A u \in Threads : alone[u] \in BOOLEAN BY <2>1 DEF FunctionsOK
    <3>2. \A u \in Threads : (IF u = t THEN AtFile(t, op[t].file) = {}
                              ELSE alone[u] /\ op[u].file # op[t].file) \in BOOLEAN
      BY <3>1, Zenon
    <3> QED BY <1>1, <3>2, Zenon
  <2> QED BY <1>1, <2>1, <2>2 DEF FunctionsOK
<1>3. /\ pc'[t] = "read" /\ got'[t] = files[op[t].file] /\ before'[t] = files
      /\ alone'[t] <=> AtFile(t, op[t].file) = {}
      /\ \A u \in Threads : u # t => /\ pc'[u] = pc[u] /\ got'[u] = got[u] /\ before'[u] = before[u]
                                     /\ alone'[u] => alone[u] /\ op[u].file # op[t].file
  BY <1>1, <1>2 DEF FunctionsOK
<1>4. /\ Text(files) /\ Asking(op[t]) /\ op[t].file \in Files
      /\ (op[t].kind = "set" => op[t].value \in Values)
  BY <1>1 DEF SettingsInv, ThreadOK, Writing, Asking
<1>5. ThreadOK(t)' BY <1>1, <1>3, <1>4 DEF ThreadOK, Writing, Text
<1>6. AloneOK(t)'
  <2>1. AtFile(t, op[t].file)' \subseteq AtFile(t, op[t].file) BY <1>1, <1>3 DEF AtFile
  <2> QED BY <1>1, <1>3, <2>1 DEF AloneOK
<1>7. ASSUME NEW u \in Threads, u # t PROVE ThreadOK(u)' /\ AloneOK(u)'
  <2>1. ThreadOK(u)' BY <1>1, <1>3, <1>7 DEF SettingsInv, ThreadOK, Text
  <2>2. op[u].file # op[t].file => AtFile(u, op[u].file)' \subseteq AtFile(u, op[u].file)
    BY <1>1, <1>3 DEF AtFile
  <2>3. AloneOK(u)' BY <1>1, <1>3, <1>7, <2>2 DEF SettingsInv, AloneOK
  <2> QED BY <2>1, <2>3
<1>8. Text(files)' BY <1>1, <1>4 DEF Text
<1> QED BY <1>2, <1>5, <1>6, <1>7, <1>8 DEF SettingsInv

\* A step of one thread that changes its own file only.
LEMMA WriterKeeps ==
  ASSUME SettingsInv, NEW t \in Threads, NEW text, NEW next \in {"open", "written"},
         pc[t] \in {"read", "open"}, text \in Seq(LineType),
         op[t].file = "dotenv" => Plain(text),
         files' = [files EXCEPT ![op[t].file] = text], pc' = [pc EXCEPT ![t] = next],
         op' = op, got' = got, before' = before, alone' = alone,
         next = "open" => text = <<>>,
         alone[t] /\ next = "written" =>
           text = Rewrite(before[t][op[t].file], op[t].key, LineOf(op[t]))
  PROVE  SettingsInv'
<1>1. FunctionsOK /\ FunctionsOK' BY DEF SettingsInv, FunctionsOK
<1>2. /\ pc'[t] = next /\ \A u \in Threads : u # t => pc'[u] = pc[u]
  BY <1>1 DEF FunctionsOK
<1>3. Text(files) /\ ThreadOK(t) /\ op[t].file \in Files BY DEF SettingsInv, ThreadOK, Asking
<1>4. files'[op[t].file] = text /\ \A f \in Files : f # op[t].file => files'[f] = files[f]
  BY <1>3 DEF Text
<1>5. Text(files)' BY <1>3, <1>4 DEF Text, Files
<1>6. ThreadOK(t)' BY <1>2, <1>3 DEF ThreadOK, Writing, Text
<1>7. \A u \in Threads : AtFile(u, op[u].file)' \subseteq AtFile(u, op[u].file)
  BY <1>2 DEF AtFile
<1>8. AloneOK(t)' BY <1>2, <1>4, <1>7 DEF SettingsInv, AloneOK
<1>9. ASSUME NEW u \in Threads, u # t PROVE ThreadOK(u)' /\ AloneOK(u)'
  <2>1. ThreadOK(u)' BY <1>2, <1>9 DEF SettingsInv, ThreadOK, Text
  <2>2. CASE op[u].file = op[t].file
    <3>1. t \in AtFile(u, op[u].file) BY <1>9, <2>2 DEF AtFile
    <3> QED BY <1>2, <1>9, <2>1, <3>1 DEF SettingsInv, AloneOK
  <2>3. CASE op[u].file # op[t].file
    <3>1. files'[op[u].file] = files[op[u].file]
      <4>1. op[u].file \in Files BY DEF SettingsInv, ThreadOK, Asking
      <4> QED BY <1>4, <2>3, <4>1
    <3> QED BY <1>2, <1>7, <1>9, <2>1, <3>1 DEF SettingsInv, AloneOK
  <2> QED BY <2>2, <2>3
<1> QED BY <1>1, <1>5, <1>6, <1>8, <1>9 DEF SettingsInv

\* The file is emptied.
LEMMA TruncateKeeps ==
  ASSUME SettingsInv, NEW t \in Threads, Truncate(t)
  PROVE  SettingsInv'
<1>1. /\ pc[t] = "read" /\ files' = [files EXCEPT ![op[t].file] = <<>>]
      /\ pc' = [pc EXCEPT ![t] = "open"]
      /\ op' = op /\ got' = got /\ before' = before /\ alone' = alone
  BY DEF Truncate
<1>2. <<>> \in Seq(LineType) /\ Plain(<<>>) BY EmptySeq DEF Plain
<1> QED BY <1>1, <1>2, WriterKeeps

\* The text goes over what is there: nothing, for who was alone.
LEMMA WriteTextKeeps ==
  ASSUME SettingsInv, NEW t \in Threads, WriteText(t)
  PROVE  SettingsInv'
<1> DEFINE file == op[t].file
           new == Rewrite(got[t], op[t].key, LineOf(op[t]))
           text == Over(files[file], new)
<1>1. /\ pc[t] = "open" /\ files' = [files EXCEPT ![op[t].file] = Over(files[file], new)]
      /\ pc' = [pc EXCEPT ![t] = "written"]
      /\ op' = op /\ got' = got /\ before' = before /\ alone' = alone
  BY DEF WriteText
<1>2. /\ file \in Files /\ op[t].key \in Keys /\ (op[t].kind = "set" => op[t].value \in Values)
      /\ got[t] \in Seq(LineType) /\ (file = "dotenv" => Plain(got[t]))
      /\ files[file] \in Seq(LineType) /\ (file = "dotenv" => Plain(files[file]))
  BY <1>1 DEF SettingsInv, ThreadOK, Asking, Writing, Text
<1>3. Puts(LineOf(op[t]), op[t].key) BY <1>2, LinePuts
<1>4. new \in Seq(LineType) /\ (file = "dotenv" => Plain(new)) BY <1>2, <1>3, RewriteOwn
<1>5. text \in Seq(LineType) /\ (file = "dotenv" => Plain(text)) BY <1>2, <1>4, OverIs
<1>6. ASSUME alone[t] PROVE text = Rewrite(before[t][file], op[t].key, LineOf(op[t]))
  <2>1. files[file] = <<>> /\ got[t] = before[t][file] BY <1>1, <1>6 DEF SettingsInv, AloneOK
  <2>2. text = new BY <1>2, <1>4, <2>1, OverIs
  <2> QED BY <2>1, <2>2
<1> HIDE DEF new
<1>7. files' = [files EXCEPT ![op[t].file] = text] BY <1>1
<1> HIDE DEF text
<1> QED BY <1>1, <1>5, <1>6, <1>7, WriterKeeps

\* An answer, or the end of the server, touches no file and leaves none alone.
LEMMA EndKeeps ==
  ASSUME SettingsInv, files' = files, op' = op, got' = got, before' = before, alone' = alone,
         DOMAIN pc' = Threads,
         \A t \in Threads : pc'[t] = pc[t] \/ pc'[t] \in {"answered", "refused"}
  PROVE  SettingsInv'
<1>1. FunctionsOK' BY DEF SettingsInv, FunctionsOK
<1>2. ASSUME NEW t \in Threads PROVE ThreadOK(t)' /\ AloneOK(t)'
  <2>1. ThreadOK(t)' BY DEF SettingsInv, ThreadOK, Writing, Text
  <2>2. AtFile(t, op[t].file)' \subseteq AtFile(t, op[t].file) BY DEF AtFile
  <2>3. AloneOK(t)' BY <2>2 DEF SettingsInv, AloneOK
  <2> QED BY <2>1, <2>3
<1>3. Text(files)' BY DEF SettingsInv, Text
<1> QED BY <1>1, <1>2, <1>3 DEF SettingsInv

\* An answer.
LEMMA ReplyKeeps == ASSUME SettingsInv, NEW t \in Threads, Reply(t) PROVE SettingsInv'
<1>1. DOMAIN pc = Threads BY DEF SettingsInv, FunctionsOK
<1>2. DOMAIN pc' = Threads /\ \A u \in Threads : pc'[u] = pc[u] \/ pc'[u] \in {"answered", "refused"}
  BY <1>1 DEF Reply
<1> QED BY <1>2, EndKeeps DEF Reply

\* The end of the server.
LEMMA StoppedKeeps == ASSUME SettingsInv, Stopped PROVE SettingsInv'
<1>1. DOMAIN pc' = Threads /\ \A u \in Threads : pc'[u] = pc[u] \/ pc'[u] \in {"answered", "refused"}
  BY DEF Stopped
<1> QED BY <1>1, EndKeeps DEF Stopped

\* Every step.
LEMMA SettingsKeep == SettingsInv /\ [SettingsNext]_settingsVars => SettingsInv'
<1>1. SUFFICES ASSUME SettingsInv, [SettingsNext]_settingsVars PROVE SettingsInv' OBVIOUS
<1>2. ASSUME NEW t \in Threads, NEW o \in Ops, Ask(t, o) PROVE SettingsInv' BY <1>1, <1>2, AskKeeps
<1>3. ASSUME NEW t \in Threads, ReadLines(t) PROVE SettingsInv' BY <1>1, <1>3, ReadLinesKeeps
<1>4. ASSUME NEW t \in Threads, Truncate(t) PROVE SettingsInv' BY <1>1, <1>4, TruncateKeeps
<1>5. ASSUME NEW t \in Threads, WriteText(t) PROVE SettingsInv' BY <1>1, <1>5, WriteTextKeeps
<1>6. ASSUME NEW t \in Threads, Reply(t) PROVE SettingsInv' BY <1>1, <1>6, ReplyKeeps
<1>7. CASE Stopped BY <1>1, <1>7, StoppedKeeps
<1>8. CASE UNCHANGED settingsVars
  <2>1. DOMAIN pc' = Threads /\ \A u \in Threads : pc'[u] = pc[u]
    BY <1>1, <1>8 DEF settingsVars, SettingsInv, FunctionsOK
  <2> QED BY <1>1, <1>8, <2>1, EndKeeps DEF settingsVars
<1> QED BY <1>1, <1>2, <1>3, <1>4, <1>5, <1>6, <1>7, <1>8 DEF SettingsNext

\* AloneIsExact (settings.py _rewrite and read, config.py load) for every number of threads, every
\* content of the three files and every environment: a write that met no other leaves settings
\* that can be read, changes no other setting in any layer, and is what the next run starts with
\* unless a higher layer or another spelling says otherwise.
THEOREM WritesAreExact == SettingsSpec => []AloneIsExact
<1>1. SettingsSpec => []SettingsInv BY SettingsStart, SettingsKeep, PTL DEF SettingsSpec
<1> QED BY <1>1, AloneSuffices, PTL
=============================================================================
