------------------------- MODULE GateExchange_proofs -------------------------
(***************************************************************************)
(* Proofs about GateExchange, for any number of POSTs, of hands and of     *)
(* runs in one folder.  What keeps an old answer out is that a payload     *)
(* lives in one inode, the one its writer opened, and that an inode moved  *)
(* aside never comes back under the name decision.json.                    *)
(***************************************************************************)
EXTENDS GateExchange, FiniteSetTheorems, TLAPS

Landed == {"written", "200", "500", "saved"}

\* A payload is where its writer put it, once.
Placed == \A i, v \in Writers : data[i] = v => fd[v] = i /\ pc[v] \in Landed

\* An inode that has a name, or had one, belongs to a writer that was there.
Named == \A i \in Writers : i \in stale \cup {decision, part} => pc[i] # "idle"

\* What was moved aside stays aside.
Aside ==
  /\ decision \notin stale
  /\ \A g \in 1..Gates : \A v \in left[g] : pc[v] \in Landed /\ fd[v] \in stale

\* A run has no verdict before it is over, nor has a run to come.
Undecided ==
  /\ child # "over" => verdict[gate] = "open"
  /\ \A g \in 1..Gates : g > gate => verdict[g] = "open"

\* The folder of a website run has one run, no hands, and nothing in it before the
\* request; the folder of a command line run has no POSTs.
Website ==
  /\ site = "web" => /\ gate = 1 /\ stale = {} /\ request \in {0, 1}
                     /\ \A h \in Hands : pc[h] = "idle"
                     /\ child \in {"away", "arrived", "asking"} => request = 0
                     /\ request = 0 =>
                          /\ decision = NoOne /\ part = NoOne
                          /\ \A p \in Posters : pc[p] \in {"idle", "posted", "409"}
  /\ site = "cli" => \A p \in Posters : pc[p] = "idle"

GInv == TypeOK /\ Placed /\ Named /\ Aside /\ Undecided /\ Website /\ OldAnswersIgnored
-----------------------------------------------------------------------------

\* No writer is one of the words the model uses for a verdict or for a content.
LEMMA WritersAreNoWords ==
  /\ NoOne \notin Writers
  /\ \A w \in Writers : w \notin {"open", "timeout", "killed", "empty", "mixed", "none"}
  /\ Posters \subseteq Writers /\ Hands \subseteq Writers
  /\ \A w \in Writers : w \in Hands <=> w \notin Posters
  /\ Gates \in Nat /\ 1 \in 1..Gates
BY GateAssumption DEF Writers

\* The folder is empty and nobody has come before the first run.
LEMMA GateInit == Init => GInv
<1> SUFFICES ASSUME Init PROVE GInv
  OBVIOUS
<1>1. TypeOK
  <2>1. 1 \in 1..Gates /\ 0 \in 0..Gates
    BY WritersAreNoWords
  <2>2. /\ data \in [Writers -> Writers \cup {"empty", "mixed"}]
        /\ pc \in [Writers -> WriterStates]
        /\ fd \in [Writers -> Writers \cup {NoOne}]
    BY DEF Init, WriterStates
  <2>3. /\ verdict \in [1..Gates -> Writers \cup {"open", "timeout", "killed"}]
        /\ left \in [1..Gates -> SUBSET Writers]
    BY DEF Init
  <2>4. QED
    BY <2>1, <2>2, <2>3 DEF Init, TypeOK, ChildStates
<1>2. Placed /\ Named
  BY WritersAreNoWords DEF Init, Placed, Named
<1>3. Aside /\ Undecided
  BY WritersAreNoWords DEF Init, Aside, Undecided
<1>4. Website
  BY WritersAreNoWords DEF Init, Website
<1>5. OldAnswersIgnored
  BY WritersAreNoWords DEF Init, OldAnswersIgnored
<1>6. QED
  BY <1>1, <1>2, <1>3, <1>4, <1>5 DEF GInv

\* A step of the run that touches no file but the request.
LEMMA RunMoves ==
  ASSUME GInv, Arrive \/ Ask \/ Asked \/ Nothing \/ Sleep \/ Expire
  PROVE  GInv'
<1>1. UNCHANGED <<site, gate, decision, part, data, stale, verdict, pc, fd, left>>
  BY DEF Arrive, Ask, Asked, Nothing, Sleep, Expire, folder, people
<1>typed. /\ child \in ChildStates /\ whole \in BOOLEAN
          /\ deadline \in {"none", "default", "given", "passed"}
          /\ gate \in 1..Gates /\ request \in 0..Gates /\ Gates \in Nat
  BY WritersAreNoWords DEF GInv, TypeOK
<1>w. \A raw \in Waits : Timeout(raw) \in {"default", "given"}
  BY DEF Waits, Timeout
<1>0. /\ child' \in ChildStates /\ whole' \in BOOLEAN
      /\ deadline' \in {"none", "default", "given", "passed"}
      /\ request' \in {request, gate} /\ child # "over" /\ child' # "over"
      /\ child' \in {"away", "arrived", "asking"} =>
           child \in {"away", "arrived", "asking"} /\ request' = request
  BY <1>typed, <1>w DEF Arrive, Ask, Asked, Nothing, Sleep, Expire, folder, ChildStates
<1>2. TypeOK'
  BY <1>1, <1>typed, <1>0 DEF GInv, TypeOK
<1>3. Placed' /\ Named' /\ OldAnswersIgnored'
  BY <1>1 DEF GInv, Placed, Named, OldAnswersIgnored
<1>4. Aside' /\ Undecided'
  BY <1>1, <1>0 DEF GInv, Aside, Undecided
<1>5. Website'
  <2>1. site' = "web" /\ request' = 0 => request = 0
    BY <1>1, <1>0 DEF GInv, Website
  <2>2. QED
    BY <1>1, <1>0, <2>1 DEF GInv, Website
<1>6. QED
  BY <1>2, <1>3, <1>4, <1>5 DEF GInv

\* The rename: what was there is aside, and what it said is in the history.
LEMMA MoveAsideKeeps ==
  ASSUME GInv, MoveAside
  PROVE  GInv'
<1>1. /\ child = "arrived" /\ child' = "asking" /\ decision' = NoOne
      /\ stale' = stale \cup ({decision} \cap Writers)
      /\ left' = [left EXCEPT ![gate] = {Payload(decision)} \cap Writers]
      /\ UNCHANGED <<site, gate, deadline, request, whole, part, data, verdict, pc, fd>>
  BY DEF MoveAside, people
<1>typed. /\ gate \in 1..Gates /\ left \in [1..Gates -> SUBSET Writers]
          /\ decision \in Writers \cup {NoOne} /\ stale \subseteq Writers
  BY DEF GInv, TypeOK
<1>2. TypeOK'
  BY <1>1, <1>typed DEF GInv, TypeOK, ChildStates
<1>3. Placed' /\ Named'
  BY <1>1, WritersAreNoWords DEF GInv, Placed, Named
<1>4. ASSUME NEW v \in {Payload(decision)} \cap Writers
      PROVE  pc[v] \in Landed /\ fd[v] \in stale'
  <2>1. decision \in Writers /\ data[decision] = v
    BY <1>4, <1>typed, WritersAreNoWords DEF Payload
  <2>2. QED
    BY <1>1, <2>1 DEF GInv, Placed
<1>5. Aside'
  <2>1. decision' \notin stale'
    BY <1>1, <1>typed, WritersAreNoWords
  <2>2. ASSUME NEW g \in 1..Gates, NEW v \in left'[g]
        PROVE  pc[v] \in Landed /\ fd[v] \in stale'
    <3>1. CASE g = gate
      BY <1>1, <1>4, <1>typed, <2>2, <3>1
    <3>2. CASE g # gate
      BY <1>1, <1>typed, <2>2, <3>2 DEF GInv, Aside
    <3>3. QED
      BY <3>1, <3>2
  <2>3. QED
    BY <1>1, <2>1, <2>2 DEF Aside
<1>6. Undecided' /\ Website'
  BY <1>1, WritersAreNoWords DEF GInv, Undecided, Website
<1>7. OldAnswersIgnored'
  <2>1. verdict[gate] = "open"
    BY <1>1 DEF GInv, Undecided
  <2>2. SUFFICES ASSUME NEW g \in 1..Gates, verdict[g] \in Writers
                 PROVE  verdict[g] \notin left'[g]
    BY <1>1 DEF OldAnswersIgnored
  <2>3. g # gate
    BY <2>1, <2>2, WritersAreNoWords
  <2>4. left'[g] = left[g]
    BY <1>1, <1>typed, <2>3
  <2>5. QED
    BY <2>2, <2>4 DEF GInv, OldAnswersIgnored
<1>8. QED
  BY <1>2, <1>3, <1>5, <1>6, <1>7 DEF GInv

\* A verdict: nobody's, or that of a payload that is not aside.
LEMMA VerdictKeeps ==
  ASSUME GInv, Obey \/ GiveUp \/ Killed
  PROVE  GInv'
<1>1. /\ child # "over" /\ child' = "over"
      /\ UNCHANGED <<site, gate, deadline, request, whole, decision, part, data, stale, pc, fd,
                     left>>
  BY DEF Obey, GiveUp, Killed, folder, people
<1>typed. /\ gate \in 1..Gates
          /\ verdict \in [1..Gates -> Writers \cup {"open", "timeout", "killed"}]
  BY DEF GInv, TypeOK
<1>2. PICK v \in Writers \cup {"timeout", "killed"} :
        /\ verdict' = [verdict EXCEPT ![gate] = v]
        /\ v \in Writers => v = data[decision] /\ decision \in Writers
  <2>1. CASE Obey
    <3>1. data[decision] \in Writers /\ decision # NoOne
      BY <2>1, WritersAreNoWords DEF Obey, Readable, Payload
    <3>2. decision \in Writers
      BY <3>1 DEF GInv, TypeOK
    <3>3. QED
      BY <2>1, <3>1, <3>2 DEF Obey
  <2>2. CASE GiveUp
    BY <2>2, WritersAreNoWords DEF GiveUp
  <2>3. CASE Killed
    BY <2>3, WritersAreNoWords DEF Killed
  <2>4. QED
    BY <2>1, <2>2, <2>3
<1>3. TypeOK'
  BY <1>1, <1>2, <1>typed DEF GInv, TypeOK, ChildStates
<1>4. Placed' /\ Named' /\ Aside' /\ Website'
  BY <1>1 DEF GInv, Placed, Named, Aside, Website
<1>5. Undecided'
  BY <1>1, <1>2, <1>typed DEF GInv, Undecided
<1>6. OldAnswersIgnored'
  <2>1. SUFFICES ASSUME NEW g \in 1..Gates, verdict'[g] \in Writers, verdict'[g] \in left[g]
                 PROVE  FALSE
    BY <1>1 DEF OldAnswersIgnored
  <2>2. CASE g = gate
    <3>1. v \in Writers /\ v \in left[gate] /\ v = data[decision] /\ decision \in Writers
      BY <1>2, <1>typed, <2>1, <2>2
    <3>2. fd[v] = decision
      BY <3>1 DEF GInv, Placed
    <3>3. QED
      BY <1>typed, <3>1, <3>2 DEF GInv, Aside
  <2>3. CASE g # gate
    BY <1>2, <1>typed, <2>1, <2>3 DEF GInv, OldAnswersIgnored
  <2>4. QED
    BY <2>2, <2>3
<1>7. QED
  BY <1>3, <1>4, <1>5, <1>6 DEF GInv

\* The next run starts in the folder as it is.
LEMMA NextRunKeeps ==
  ASSUME GInv, NextRun
  PROVE  GInv'
<1>1. /\ site = "cli" /\ child = "over" /\ gate < Gates /\ gate' = gate + 1
      /\ child' = "away" /\ deadline' = "none"
      /\ UNCHANGED <<site, request, whole, decision, part, data, stale, verdict, pc, fd, left>>
  BY DEF NextRun, folder, people
<1>2. gate \in 1..Gates /\ gate' \in 1..Gates /\ gate' > gate
  BY <1>1, WritersAreNoWords DEF GInv, TypeOK
<1>3. TypeOK'
  BY <1>1, <1>2 DEF GInv, TypeOK, ChildStates
<1>4. Placed' /\ Named' /\ Aside' /\ Website' /\ OldAnswersIgnored'
  BY <1>1 DEF GInv, Placed, Named, Aside, Website, OldAnswersIgnored
<1>5. Undecided'
  BY <1>1, <1>2, WritersAreNoWords DEF GInv, Undecided
<1>6. QED
  BY <1>3, <1>4, <1>5 DEF GInv
-----------------------------------------------------------------------------

\* Where a POST may stand: on the website, and past its check only after the request.
LEMMA PostsAreOnline ==
  ASSUME GInv, NEW p \in Posters, pc[p] # "idle"
  PROVE  site = "web" /\ (pc[p] \notin {"posted", "409"} => request # 0)
BY DEF GInv, TypeOK, Website

\* A POST comes in and is checked: it touches no file.
LEMMA CheckKeeps ==
  ASSUME GInv, NEW p \in Posters, Post(p) \/ Check(p)
  PROVE  GInv'
<1>1. /\ UNCHANGED <<site, gate, child, deadline, request, whole, decision, part, data, stale,
                     verdict, fd, left>>
      /\ site = "web"
  BY PostsAreOnline DEF Post, Check, folder
<1>2. PICK t \in {"posted", "409", "410", "checked"} :
        /\ pc' = [pc EXCEPT ![p] = t]
        /\ request = 0 => t \in {"posted", "409"}
  BY DEF Post, Check
<1>3. /\ pc[p] \in {"idle", "posted"} /\ pc \in [Writers -> WriterStates] /\ p \in Writers
      /\ p \notin Hands
  BY WritersAreNoWords DEF Post, Check, GInv, TypeOK
<1>4. TypeOK'
  BY <1>1, <1>2, <1>3 DEF GInv, TypeOK, WriterStates
<1>5. \A w \in Writers : /\ pc[w] \in Landed => pc'[w] = pc[w]
                         /\ pc[w] # "idle" => pc'[w] # "idle"
  BY <1>2, <1>3 DEF Landed
<1>6. Placed' /\ Named'
  BY <1>1, <1>5 DEF GInv, Placed, Named
<1>7. Aside'
  <2>1. \A g \in 1..Gates : left[g] \subseteq Writers
    BY DEF GInv, TypeOK
  <2>2. QED
    BY <1>1, <1>5, <2>1 DEF GInv, Aside
<1>8. Website'
  <2>1. \A w \in Writers : w # p => pc'[w] = pc[w]
    BY <1>2, <1>3
  <2>2. pc'[p] = t
    BY <1>2, <1>3
  <2>3. \A h \in Hands : pc'[h] = pc[h]
    BY <1>3, <2>1, WritersAreNoWords
  <2>4. QED
    BY <1>1, <1>2, <2>1, <2>2, <2>3, WritersAreNoWords DEF GInv, Website
<1>9. Undecided' /\ OldAnswersIgnored'
  BY <1>1 DEF GInv, Undecided, OldAnswersIgnored
<1>10. QED
  BY <1>4, <1>6, <1>7, <1>8, <1>9 DEF GInv

\* Opening empties one inode, and its opener has written nothing yet.
LEMMA OpensKeepsPlaces ==
  ASSUME GInv, NEW w \in Writers, NEW name \in Writers \cup {NoOne}, Opens(w, name),
         pc[w] \in {"idle", "checked"}
  PROVE  /\ fd'[w] = (IF name = NoOne THEN w ELSE name) /\ fd'[w] \in Writers
         /\ data' \in [Writers -> Writers \cup {"empty", "mixed"}]
         /\ fd' \in [Writers -> Writers \cup {NoOne}]
         /\ pc' \in [Writers -> WriterStates] /\ pc'[w] = "open"
         /\ \A v \in Writers : v # w => pc'[v] = pc[v] /\ fd'[v] = fd[v]
         /\ \A v \in Writers : pc[v] \in Landed => v # w
         /\ Placed'
<1>1. PICK inode \in Writers :
        /\ inode = IF name = NoOne THEN w ELSE name
        /\ fd' = [fd EXCEPT ![w] = inode]
        /\ data' = [data EXCEPT ![inode] = "empty"]
        /\ pc' = [pc EXCEPT ![w] = "open"]
  BY DEF Opens
<1>2. /\ data \in [Writers -> Writers \cup {"empty", "mixed"}]
      /\ fd \in [Writers -> Writers \cup {NoOne}] /\ pc \in [Writers -> WriterStates]
  BY DEF GInv, TypeOK
<1>3. \A v \in Writers : pc[v] \in Landed => v # w
  BY DEF Landed
<1>4. Placed'
  <2>1. SUFFICES ASSUME NEW i \in Writers, NEW v \in Writers, data'[i] = v
                 PROVE  fd'[v] = i /\ pc'[v] \in Landed
    BY DEF Placed
  <2>2. data[i] = v
    BY <1>1, <1>2, <2>1, WritersAreNoWords
  <2>3. fd[v] = i /\ pc[v] \in Landed /\ v # w
    BY <1>3, <2>2 DEF GInv, Placed
  <2>4. QED
    BY <1>1, <1>2, <2>3
<1>5. /\ fd'[w] = inode /\ fd' \in [Writers -> Writers \cup {NoOne}]
      /\ \A v \in Writers : v # w => fd'[v] = fd[v]
  BY <1>1, <1>2
<1>6. /\ pc' \in [Writers -> WriterStates] /\ pc'[w] = "open"
      /\ \A v \in Writers : v # w => pc'[v] = pc[v]
  BY <1>1, <1>2 DEF WriterStates
<1>7. data' \in [Writers -> Writers \cup {"empty", "mixed"}]
  BY <1>1, <1>2
<1>8. QED
  BY <1>1, <1>3, <1>4, <1>5, <1>6, <1>7

\* The scratch file of a POST, and the decision of a hand.
LEMMA OpenKeeps ==
  ASSUME GInv, \/ \E p \in Posters : OpenPart(p)
               \/ \E h \in Hands : OpenDecision(h)
  PROVE  GInv'
<1>1. PICK w \in Writers, name \in {decision, part} :
        /\ Opens(w, name) /\ pc[w] \in {"idle", "checked"}
        /\ UNCHANGED <<site, gate, child, deadline, request, whole, stale, verdict, left>>
        /\ \/ /\ w \in Posters /\ pc[w] = "checked" /\ name = part
              /\ part' = fd'[w] /\ decision' = decision
           \/ /\ w \in Hands /\ site = "cli" /\ pc[w] = "idle" /\ name = decision
              /\ decision' = fd'[w] /\ part' = part
  BY WritersAreNoWords DEF OpenPart, OpenDecision
<1>typed. /\ decision \in Writers \cup {NoOne} /\ part \in Writers \cup {NoOne}
          /\ name \in Writers \cup {NoOne} /\ stale \subseteq Writers
          /\ site \in {"web", "cli"}
          /\ \A g \in 1..Gates : left[g] \subseteq Writers
  BY <1>1 DEF GInv, TypeOK
<1>2. /\ fd'[w] = (IF name = NoOne THEN w ELSE name) /\ fd'[w] \in Writers
      /\ data' \in [Writers -> Writers \cup {"empty", "mixed"}]
      /\ fd' \in [Writers -> Writers \cup {NoOne}]
      /\ pc' \in [Writers -> WriterStates] /\ pc'[w] = "open"
      /\ \A v \in Writers : v # w => pc'[v] = pc[v] /\ fd'[v] = fd[v]
      /\ \A v \in Writers : pc[v] \in Landed => v # w
      /\ Placed'
  BY <1>1, <1>typed, OpensKeepsPlaces
<1>3. TypeOK'
  BY <1>1, <1>2, <1>typed DEF GInv, TypeOK
<1>4. /\ decision' \in {decision, w} /\ (decision' = w => decision = w \/ pc[w] = "idle")
      /\ part' \in {part, w}
  BY <1>1, <1>2
<1>5. Named'
  BY <1>1, <1>2, <1>4 DEF GInv, Named
<1>6. Aside'
  <2>1. decision' \notin stale'
    BY <1>1, <1>4 DEF GInv, Named, Aside
  <2>2. \A g \in 1..Gates : \A v \in left[g] : pc'[v] \in Landed /\ fd'[v] \in stale'
    BY <1>1, <1>2, <1>typed DEF GInv, Aside
  <2>3. QED
    BY <1>1, <2>1, <2>2 DEF Aside
<1>7. Website'
  <2>1. CASE w \in Posters
    <3>1. site = "web" /\ request # 0 /\ w \notin Hands
      BY <1>1, <2>1, PostsAreOnline, WritersAreNoWords
    <3>2. \A h \in Hands : pc'[h] = pc[h]
      BY <1>2, <3>1, WritersAreNoWords
    <3>3. QED
      BY <1>1, <3>1, <3>2 DEF GInv, Website
  <2>2. CASE w \in Hands
    <3>1. site = "cli" /\ w \notin Posters
      BY <1>1, <2>2, WritersAreNoWords
    <3>2. \A p \in Posters : pc'[p] = pc[p]
      BY <1>2, <3>1, WritersAreNoWords
    <3>3. QED
      BY <1>1, <3>1, <3>2 DEF GInv, Website
  <2>3. QED
    BY <1>1, <2>1, <2>2
<1>8. Undecided' /\ OldAnswersIgnored'
  BY <1>1 DEF GInv, Undecided, OldAnswersIgnored
<1>9. QED
  BY <1>2, <1>3, <1>5, <1>6, <1>7, <1>8 DEF GInv

\* The bytes go to the inode the writer has open, whatever its name is by now.
LEMMA WriteKeeps ==
  ASSUME GInv, NEW w \in Writers, Write(w)
  PROVE  GInv'
<1>1. PICK what \in {w, "mixed"}, t \in {"saved", "written"} :
        /\ pc[w] = "open"
        /\ data' = [data EXCEPT ![fd[w]] = what]
        /\ pc' = [pc EXCEPT ![w] = t]
        /\ UNCHANGED <<site, gate, child, deadline, request, whole, decision, part, stale,
                       verdict, fd, left>>
        /\ t = IF w \in Hands THEN "saved" ELSE "written"
  BY DEF Write
<1>2. /\ data \in [Writers -> Writers \cup {"empty", "mixed"}]
      /\ pc \in [Writers -> WriterStates]
      /\ \A g \in 1..Gates : left[g] \subseteq Writers
  BY DEF GInv, TypeOK
<1>3. /\ pc' \in [Writers -> WriterStates] /\ pc'[w] \in Landed /\ pc'[w] # "idle"
      /\ \A v \in Writers : v # w => pc'[v] = pc[v]
      /\ pc[w] \notin Landed /\ pc[w] # "idle"
  BY <1>1, <1>2 DEF WriterStates, Landed
<1>4. data' \in [Writers -> Writers \cup {"empty", "mixed"}]
  BY <1>1, <1>2
<1>5. TypeOK'
  BY <1>1, <1>3, <1>4 DEF GInv, TypeOK
<1>6. Placed'
  <2>1. SUFFICES ASSUME NEW i \in Writers, NEW v \in Writers, data'[i] = v
                 PROVE  fd[v] = i /\ pc'[v] \in Landed
    BY <1>1 DEF Placed
  <2>2. CASE i = fd[w]
    <3>1. v = w
      BY <1>1, <1>2, <2>1, <2>2, WritersAreNoWords
    <3>2. QED
      BY <1>3, <2>2, <3>1
  <2>3. CASE i # fd[w]
    <3>1. data[i] = v
      BY <1>1, <1>2, <2>1, <2>3
    <3>2. QED
      BY <1>3, <3>1 DEF GInv, Placed
  <2>4. QED
    BY <2>2, <2>3
<1>7. Named' /\ Aside'
  BY <1>1, <1>2, <1>3 DEF GInv, Named, Aside
<1>8. Website'
  <2>1. site = "web" => w \notin Hands
    BY <1>3 DEF GInv, Website
  <2>2. w \in Posters => site = "web" /\ request # 0
    BY <1>1, <1>3, PostsAreOnline
  <2>3. w \in Posters \/ w \in Hands
    BY DEF Writers
  <2>4. CASE site = "web"
    <3>1. \A h \in Hands : pc'[h] = pc[h]
      BY <1>3, <2>1, <2>4, WritersAreNoWords
    <3>2. QED
      BY <1>1, <2>1, <2>2, <2>3, <2>4, <3>1 DEF GInv, Website
  <2>5. CASE site # "web"
    <3>1. \A p \in Posters : pc'[p] = pc[p]
      BY <1>3, <2>2, <2>5, WritersAreNoWords
    <3>2. QED
      BY <1>1, <2>5, <3>1 DEF GInv, Website
  <2>6. QED
    BY <2>4, <2>5
<1>9. Undecided' /\ OldAnswersIgnored'
  BY <1>1 DEF GInv, Undecided, OldAnswersIgnored
<1>10. QED
  BY <1>5, <1>6, <1>7, <1>8, <1>9 DEF GInv

\* The rename of a POST, or its 500.
LEMMA ReplaceKeeps ==
  ASSUME GInv, NEW p \in Posters, Replace(p)
  PROVE  GInv'
<1>1. PICK t \in {"200", "500"} :
        /\ pc[p] = "written" /\ pc' = [pc EXCEPT ![p] = t]
        /\ \/ decision' = part /\ part' = NoOne
           \/ UNCHANGED <<decision, part>>
        /\ UNCHANGED <<site, gate, child, deadline, request, whole, data, stale, verdict, fd,
                       left>>
  BY DEF Replace
<1>2. /\ site = "web" /\ request # 0 /\ stale = {} /\ p \notin Hands /\ p \in Writers
      /\ pc \in [Writers -> WriterStates]
      /\ \A g \in 1..Gates : left[g] \subseteq Writers
  BY <1>1, PostsAreOnline, WritersAreNoWords DEF GInv, TypeOK, Website
<1>3. /\ pc' \in [Writers -> WriterStates]
      /\ \A v \in Writers : v # p => pc'[v] = pc[v]
      /\ \A v \in Writers : pc[v] \in Landed => pc'[v] \in Landed
      /\ \A v \in Writers : pc[v] # "idle" => pc'[v] # "idle"
  BY <1>1, <1>2 DEF WriterStates, Landed
<1>4. TypeOK'
  BY <1>1, <1>3 DEF GInv, TypeOK
<1>5. Placed'
  BY <1>1, <1>3 DEF GInv, Placed
<1>6. Named'
  <2>1. {decision', part'} \subseteq {decision, part, NoOne}
    BY <1>1
  <2>2. QED
    BY <1>1, <1>3, <2>1, WritersAreNoWords DEF GInv, Named
<1>7. Aside'
  BY <1>1, <1>2, <1>3 DEF GInv, Aside
<1>8. Website'
  <2>1. \A h \in Hands : pc'[h] = pc[h]
    BY <1>2, <1>3, WritersAreNoWords
  <2>2. QED
    BY <1>1, <1>2, <2>1 DEF GInv, Website
<1>9. Undecided' /\ OldAnswersIgnored'
  BY <1>1 DEF GInv, Undecided, OldAnswersIgnored
<1>10. QED
  BY <1>4, <1>5, <1>6, <1>7, <1>8, <1>9 DEF GInv
-----------------------------------------------------------------------------

\* Every step of the exchange keeps the invariant.
LEMMA GateStep == GInv /\ [Next]_vars => GInv'
<1> SUFFICES ASSUME GInv, [Next]_vars PROVE GInv'
  OBVIOUS
<1>1. CASE Run \/ Expire \/ Killed \/ NextRun
  BY <1>1, RunMoves, MoveAsideKeeps, VerdictKeeps, NextRunKeeps DEF Run
<1>2. CASE \E w \in Writers : Write(w)
  BY <1>2, WriteKeeps
<1>3. CASE \E p \in Posters : Post(p) \/ Check(p) \/ OpenPart(p) \/ Replace(p)
  BY <1>3, CheckKeeps, OpenKeeps, ReplaceKeeps
<1>4. CASE \E h \in Hands : OpenDecision(h)
  BY <1>4, OpenKeeps
<1>5. CASE UNCHANGED vars
  BY <1>5 DEF vars, folder, people, GInv, TypeOK, Placed, Named, Aside, Undecided, Website,
              OldAnswersIgnored
<1>6. QED
  BY <1>1, <1>2, <1>3, <1>4, <1>5 DEF Next

\* It holds in every state of every exchange.
LEMMA GateInvariant == Spec => []GInv
BY GateInit, GateStep, PTL DEF Spec

\* The folder keeps its types however many writers and runs there are.
THEOREM GateTypes == Spec => []TypeOK
<1>1. GInv => TypeOK
  BY DEF GInv
<1>2. QED
  BY <1>1, GateInvariant, PTL

\* advanced/gate.py's rename before the request is enough, for any number of runs and
\* hands in one folder: an answer complete before a run asked never decides that run.
THEOREM OldAnswersNeverObeyed == Spec => []OldAnswersIgnored
<1>1. GInv => OldAnswersIgnored
  BY DEF GInv
<1>2. QED
  BY <1>1, GateInvariant, PTL

\* The 409 of api.gate, for any number of POSTs in flight.
THEOREM NobodyAnswersAhead == Spec => []AnswerFollowsRequest
<1>1. GInv => AnswerFollowsRequest
  BY DEF GInv, Website, AnswerFollowsRequest
<1>2. QED
  BY <1>1, GateInvariant, PTL
-----------------------------------------------------------------------------

\* The one POST past its check, and nobody else's.
Alone == \A p, q \in PastCheck : p = q

\* Where the bytes of a POST are while no other POST overlaps it.
Honest ==
  site = "web" /\ Alone =>
    /\ decision # NoOne => decision \in PastCheck /\ pc[decision] = "200"
    /\ PastCheck = {} => part = NoOne
    /\ verdict[1] \in Writers => verdict[1] \in PastCheck /\ pc[verdict[1]] = "200"
    /\ \A p \in PastCheck :
         /\ pc[p] = "checked" => decision = NoOne /\ part = NoOne
         /\ pc[p] = "open" => decision = NoOne /\ part = p /\ fd[p] = p /\ data[p] = "empty"
         /\ pc[p] = "written" => decision = NoOne /\ part = p /\ data[p] = p
         /\ pc[p] = "200" => decision = p /\ data[p] = p
         /\ pc[p] # "500"

\* Nobody is past a check before the first run.
LEMMA HonestInit == Init => Honest
BY WritersAreNoWords DEF Init, Honest, PastCheck

\* A step that moves no POST and no byte.
LEMMA HonestStays ==
  ASSUME GInv, Honest, site' = site,
         site = "web" => /\ decision' = decision /\ part' = part /\ data' = data
                         /\ fd' = fd /\ pc' = pc
                         /\ \/ verdict'[1] = verdict[1]
                            \/ verdict'[1] \notin Writers
                            \/ decision \in Writers /\ verdict'[1] = data[decision]
  PROVE  Honest'
<1>1. SUFFICES ASSUME site = "web", Alone' PROVE Honest'
  BY DEF Honest
<1>2. PastCheck' = PastCheck /\ Alone
  BY <1>1 DEF PastCheck, Alone
<1>3. decision \in Writers => pc[decision] = "200" /\ decision \in PastCheck /\ data[decision] = decision
  BY <1>1, <1>2, WritersAreNoWords DEF Honest
<1>4. verdict'[1] \in Writers => verdict'[1] \in PastCheck /\ pc[verdict'[1]] = "200"
  BY <1>1, <1>2, <1>3 DEF Honest
<1>5. QED
  BY <1>1, <1>2, <1>4 DEF Honest

\* A POST past its check: the others stand still, so it is alone after as before.
LEMMA HonestPost ==
  ASSUME GInv, Honest, NEW p \in Posters, Check(p) \/ OpenPart(p) \/ Write(p) \/ Replace(p)
  PROVE  Honest'
<1>1. SUFFICES ASSUME Alone' PROVE Honest'
  BY DEF Honest
<1>typed. /\ pc \in [Writers -> WriterStates] /\ data \in [Writers -> Writers \cup {"empty", "mixed"}]
          /\ fd \in [Writers -> Writers \cup {NoOne}] /\ p \in Writers /\ p # NoOne
          /\ p \notin Hands
  BY WritersAreNoWords DEF GInv, TypeOK
<1>web. site = "web" /\ site' = "web" /\ verdict' = verdict
  BY PostsAreOnline DEF Check, OpenPart, Write, Replace
<1>2. PICK t \in WriterStates : pc' = [pc EXCEPT ![p] = t]
  BY DEF Check, OpenPart, Opens, Write, Replace, WriterStates
<1>3. /\ pc'[p] = t
      /\ \A q \in Posters : q # p => pc'[q] = pc[q]
  BY <1>typed, <1>2, WritersAreNoWords
<1>4. CASE t \in {"409", "410"}
  <2>1. Check(p)
    BY <1>3, <1>4, <1>typed DEF Check, OpenPart, Opens, Write, Replace
  <2>2. PastCheck' = PastCheck /\ p \notin PastCheck
    BY <1>3, <1>4, <2>1 DEF PastCheck, Check
  <2>3. UNCHANGED <<decision, part, data, fd>>
    BY <2>1 DEF Check, folder
  <2>4. \A q \in PastCheck : pc'[q] = pc[q]
    BY <1>3, <2>2 DEF PastCheck
  <2>5. QED
    BY <1>1, <1>web, <2>2, <2>3, <2>4 DEF Honest, Alone
<1>5. CASE t \notin {"409", "410"}
  <2>1. PastCheck' = {p} /\ PastCheck \subseteq {p} /\ Alone
    <3>1. p \in PastCheck' /\ PastCheck \subseteq PastCheck'
      BY <1>3, <1>5, <1>typed DEF PastCheck, Check, OpenPart, Opens, Write, Replace
    <3>2. QED
      BY <1>1, <3>1 DEF Alone
  <2>2. CASE Check(p)
    <3>1. pc'[p] = "checked" /\ UNCHANGED <<decision, part, data, fd>> /\ PastCheck = {}
      BY <1>3, <1>5, <1>typed, <2>1, <2>2 DEF Check, folder, PastCheck
    <3>2. decision = NoOne /\ part = NoOne /\ verdict[1] \notin Writers
      BY <1>web, <2>1, <3>1 DEF Honest
    <3>3. QED
      BY <1>web, <2>1, <3>1, <3>2 DEF Honest
  <2>3. CASE OpenPart(p)
    <3>1. pc[p] = "checked" /\ p \in PastCheck
      BY <2>3 DEF OpenPart, PastCheck
    <3>2. decision = NoOne /\ part = NoOne
      BY <1>web, <2>1, <3>1 DEF Honest
    <3>3. /\ pc'[p] = "open" /\ decision' = NoOne /\ part' = p /\ fd'[p] = p
          /\ data'[p] = "empty"
      BY <1>typed, <2>3, <3>2 DEF OpenPart, Opens
    <3>4. verdict[1] \notin Writers
      BY <1>web, <2>1, <3>1 DEF Honest
    <3>5. QED
      BY <1>web, <2>1, <3>3, <3>4 DEF Honest
  <2>4. CASE Write(p)
    <3>1. pc[p] = "open" /\ p \in PastCheck
      BY <2>4 DEF Write, PastCheck
    <3>2. decision = NoOne /\ part = p /\ fd[p] = p /\ data[p] = "empty"
      BY <1>web, <2>1, <3>1 DEF Honest
    <3>3. pc'[p] = "written" /\ decision' = NoOne /\ part' = p /\ data'[p] = p
      BY <1>typed, <2>4, <3>2 DEF Write
    <3>4. verdict[1] \notin Writers
      BY <1>web, <2>1, <3>1 DEF Honest
    <3>5. QED
      BY <1>web, <2>1, <3>3, <3>4 DEF Honest
  <2>5. CASE Replace(p)
    <3>1. pc[p] = "written" /\ p \in PastCheck
      BY <2>5 DEF Replace, PastCheck
    <3>2. decision = NoOne /\ part = p /\ data[p] = p
      BY <1>web, <2>1, <3>1 DEF Honest
    <3>3. pc'[p] = "200" /\ decision' = p /\ data'[p] = p
      BY <1>typed, <2>5, <3>2 DEF Replace
    <3>4. verdict[1] \notin Writers
      BY <1>web, <2>1, <3>1 DEF Honest
    <3>5. QED
      BY <1>web, <2>1, <3>3, <3>4 DEF Honest
  <2>6. QED
    BY <2>2, <2>3, <2>4, <2>5
<1>6. QED
  BY <1>4, <1>5

\* Every step keeps the bytes of a POST that is alone where they belong.
LEMMA HonestStep == GInv /\ Honest /\ [Next]_vars => Honest'
<1> SUFFICES ASSUME GInv, Honest, [Next]_vars PROVE Honest'
  OBVIOUS
<1>typed. /\ site \in {"web", "cli"} /\ decision \in Writers \cup {NoOne}
          /\ 1 \in 1..Gates /\ Gates \in Nat
          /\ verdict \in [1..Gates -> Writers \cup {"open", "timeout", "killed"}]
          /\ site = "web" => gate = 1
  BY WritersAreNoWords DEF GInv, TypeOK, Website
<1>1. CASE Arrive \/ Ask \/ Asked \/ Nothing \/ Sleep \/ Expire \/ NextRun
  <2>1. UNCHANGED <<site, decision, part, data, fd, pc, verdict>>
    BY <1>1 DEF Arrive, Ask, Asked, Nothing, Sleep, Expire, NextRun, folder, people
  <2>2. QED
    BY <2>1, <1>typed, HonestStays
<1>2. CASE MoveAside
  <2>1. /\ UNCHANGED <<site, part, data, fd, pc, verdict>>
        /\ child = "arrived" /\ decision' = NoOne
    BY <1>2 DEF MoveAside, people
  <2>2. site = "web" => decision = NoOne
    BY <2>1 DEF GInv, Website
  <2>3. QED
    BY <2>1, <2>2, <1>typed, HonestStays
<1>3. CASE Obey
  <2>1. /\ UNCHANGED <<site, decision, part, data, fd, pc>>
        /\ verdict' = [verdict EXCEPT ![gate] = data[decision]]
        /\ decision # NoOne
    BY <1>3, WritersAreNoWords DEF Obey, folder, people, Readable, Payload
  <2>2. site = "web" => verdict'[1] = data[decision]
    BY <1>typed, <2>1
  <2>3. QED
    BY <1>typed, <2>1, <2>2, HonestStays
<1>4. CASE GiveUp \/ Killed
  <2>1. /\ UNCHANGED <<site, decision, part, data, fd, pc>>
        /\ \/ verdict' = [verdict EXCEPT ![gate] = "timeout"]
           \/ verdict' = [verdict EXCEPT ![gate] = "killed"]
    BY <1>4 DEF GiveUp, Killed, folder, people
  <2>2. site = "web" => verdict'[1] \notin Writers
    BY <1>typed, <2>1, WritersAreNoWords
  <2>3. QED
    BY <2>1, <2>2, <1>typed, HonestStays
<1>5. ASSUME NEW p \in Posters, Post(p) PROVE Honest'
  <2>1. /\ UNCHANGED <<site, decision, part, data, fd, verdict>>
        /\ pc[p] = "idle" /\ pc' = [pc EXCEPT ![p] = "posted"]
        /\ pc \in [Writers -> WriterStates] /\ Posters \subseteq Writers
    BY <1>5, WritersAreNoWords DEF Post, folder, GInv, TypeOK
  <2>2. PastCheck' = PastCheck /\ \A q \in PastCheck : pc'[q] = pc[q]
    BY <2>1 DEF PastCheck
  <2>3. QED
    BY <2>1, <2>2 DEF Honest, Alone
<1>6. ASSUME NEW p \in Posters, Check(p) \/ OpenPart(p) \/ Write(p) \/ Replace(p)
      PROVE  Honest'
  BY <1>6, HonestPost
<1>7. ASSUME NEW h \in Hands, OpenDecision(h) \/ Write(h) PROVE Honest'
  <2>1. site' = site /\ pc[h] \in {"idle", "open"} /\ (pc[h] = "idle" => site = "cli")
        /\ verdict' = verdict
    BY <1>7 DEF OpenDecision, Write
  <2>2. site # "web"
    BY <1>7, <2>1 DEF GInv, Website, Write
  <2>3. QED
    BY <2>1, <2>2, HonestStays
<1>8. CASE UNCHANGED vars
  <2>1. UNCHANGED <<site, decision, part, data, fd, pc, verdict>>
    BY <1>8 DEF vars, folder, people
  <2>2. QED
    BY <2>1, <1>typed, HonestStays
<1>9. QED
  BY <1>1, <1>2, <1>3, <1>4, <1>5, <1>6, <1>7, <1>8 DEF Next, Run, Writers

\* A POST no other POST overlaps: what the poller may see of it, its 200 and the verdict
\* agree, for any number of POSTs that were refused or have not been checked.
THEOREM AlonePostIsAtomic == Spec => []AloneIsHonest
<1>1. GInv /\ Honest => AloneIsHonest
  <2> SUFFICES ASSUME GInv, Honest, site = "web", Cardinality(PastCheck) <= 1
               PROVE  /\ Payload(decision) \in Writers \cup {"none"}
                      /\ \A p \in PastCheck : /\ pc[p] = "200" => Payload(decision) = p
                                              /\ verdict[1] \in Writers =>
                                                   verdict[1] = p /\ pc[p] = "200"
    BY DEF AloneIsHonest
  <2>1. IsFiniteSet(PastCheck) /\ PastCheck \subseteq Posters
    BY GateAssumption, FS_Subset DEF PastCheck
  <2>2. Cardinality(PastCheck) \in {0, 1}
    BY <2>1, FS_CardinalityType
  <2>3. Alone
    <3>1. CASE Cardinality(PastCheck) = 0
      BY <2>1, <3>1, FS_EmptySet DEF Alone
    <3>2. CASE Cardinality(PastCheck) = 1
      BY <2>1, <3>2, FS_Singleton DEF Alone
    <3>3. QED
      BY <2>2, <3>1, <3>2
  <2>4. decision # NoOne => /\ Payload(decision) = decision /\ decision \in Writers
    BY <2>1, <2>3, WritersAreNoWords DEF Honest, Payload
  <2>5. \A p \in PastCheck : pc[p] = "200" => Payload(decision) = p
    BY <2>1, <2>3, <2>4, WritersAreNoWords DEF Honest
  <2>6. \A p \in PastCheck : verdict[1] \in Writers => verdict[1] = p /\ pc[p] = "200"
    BY <2>3 DEF Honest, Alone
  <2>7. QED
    BY <2>4, <2>5, <2>6 DEF Payload
<1>2. Init => GInv /\ Honest
  BY GateInit, HonestInit
<1>3. (GInv /\ Honest) /\ [Next]_vars => (GInv /\ Honest)'
  BY GateStep, HonestStep
<1>4. QED
  BY <1>1, <1>2, <1>3, PTL DEF Spec
=============================================================================
