---------------------------- MODULE Verifier_proofs ----------------------------
(***************************************************************************)
(* Proofs about the verifier, for every repository, every record and every *)
(* budget: what an accepted record rests on (Discovery to Signing), and    *)
(* what a walk over a call graph finds (Reach).                            *)
(*                                                                         *)
(* The model's recursive functions (the order of the entry points, the     *)
(* matching of claims to stores, the choices of a model) are reasoned      *)
(* about by the least counterexample: a set of numbers that is not empty   *)
(* has a least element.                                                    *)
(***************************************************************************)
EXTENDS Signing, Reach, SequenceTheorems, FiniteSetTheorems, WellFoundedInduction, TLAPS

\* A set of numbers that is not empty has a least element.
LEMMA Least ==
  ASSUME NEW T, T \subseteq Nat, T # {}
  PROVE  \E x \in T : \A y \in T : x <= y
<1> DEFINE R == {ss \in Nat \X Nat : ss[1] < ss[2]}
<1>1. IsWellFoundedOn(R, Nat)
  BY NatLessThanWellFounded, Zenon DEF OpToRel
<1>2. \A x, y \in Nat : <<y, x>> \in R <=> y < x
  OBVIOUS
<1> HIDE DEF R
<1>3. PICK x \in T : \A y \in T : ~(<<y, x>> \in R)
  BY <1>1, WFMin
<1>4. \A y \in T : ~(y < x)
  BY <1>2, <1>3
<1>5. QED
  BY <1>4

\* What holds of zero and is handed on from each number to the next holds up to n.
LEMMA Induction ==
  ASSUME NEW n \in Nat, NEW S, 0 \in S, \A k \in 1..n : k - 1 \in S => k \in S
  PROVE  0..n \subseteq S
<1> SUFFICES ASSUME NEW m \in 0..n, m \notin S PROVE FALSE
  OBVIOUS
<1> DEFINE T == (0..n) \ S
<1>1. T \subseteq Nat /\ T # {}
  OBVIOUS
<1>2. PICK x \in T : \A y \in T : x <= y
  BY <1>1, Least
<1>3. x \in 1..n /\ x - 1 \in 0..n
  BY <1>2
<1>4. x - 1 \notin T
  BY <1>2, <1>3
<1>5. QED
  BY <1>2, <1>3, <1>4

-----------------------------------------------------------------------------
(* The rows of verdicts.py, read for what a verdict that rows go rests on.   *)

\* A walk that counts begins at a start that is not excluded and reaches the node.
LEMMA ReachedIs ==
  ASSUME NEW r, NEW node, NEW resolved, NEW exclude, NEW h \in Reached(r, node, resolved, exclude)
  PROVE  /\ h.entry \in Members(r.starts)
         /\ h.entry.name \notin exclude
         /\ node \in DOMAIN r.walk[h.entry.name][resolved]
BY DEF Reached, FirstOf, Members

\* A node that the walk from some start reaches is reached.
LEMMA ReachesIf ==
  ASSUME NEW r, NEW node, DOMAIN r.starts \subseteq Nat,
         NEW e \in Members(r.starts), node \in DOMAIN r.walk[e.name][TRUE]
  PROVE  Reaches(r, node)
<1> DEFINE fit == {i \in DOMAIN r.starts : /\ r.starts[i].name \notin {}
                                           /\ node \in DOMAIN r.walk[r.starts[i].name][TRUE]}
<1>1. fit # {} /\ fit \subseteq Nat
  BY DEF Members
<1>2. PICK i \in fit : \A j \in fit : i <= j
  BY <1>1, Least
<1>3. r.starts[i] \in FirstOf(r.starts, LAMBDA x : /\ x.name \notin {}
                                                 /\ node \in DOMAIN r.walk[x.name][TRUE])
  BY <1>2 DEF FirstOf
<1>4. QED
  BY <1>3 DEF Reaches, Reached

\* The timer of a store is a scheduled job that reaches it, and rows of it are marked.
LEMMA TimerIs ==
  ASSUME NEW r, NEW s, NEW t \in Timer(r, s)
  PROVE  /\ t.job \in Members(r.jobs) /\ Scheduled(r, t.job)
         /\ s \in DOMAIN r.walk[t.job.name][TRUE]
         /\ Markers(r, s) # {}
         /\ t.days # {} => \E x \in t.job.symbol : ParseDays(r.scan, x) # {}
<1>1. PICK i \in DOMAIN r.jobs :
        /\ t = [job |-> r.jobs[i], days |-> UNION {ParseDays(r.scan, x) : x \in r.jobs[i].symbol}]
        /\ s \in DOMAIN r.walk[r.jobs[i].name][TRUE]
        /\ Markers(r, s) # {} /\ Scheduled(r, r.jobs[i])
  BY Zenon DEF Timer, FirstOf
<1>2. t.job = r.jobs[i] /\ r.jobs[i] \in Members(r.jobs)
  BY <1>1 DEF Members
<1>3. t.days # {} => \E x \in t.job.symbol : ParseDays(r.scan, x) # {}
  BY <1>1
<1>4. QED
  BY <1>1, <1>2, <1>3

\* A write of a store is on the path of some start.
LEMMA WriteIsOnPath ==
  ASSUME NEW r, NEW s, NEW w \in WritesFor(r, s, r.starts)
  PROVE  \E e \in Members(r.starts) : w.symbol \in DOMAIN r.walk[e.name][TRUE]
BY DEF WritesFor, PathSymbols

\* A parent that neither cap holds back has no child whose protected rows are left.
LEMMA ChildrenGo ==
  ASSUME NEW r, NEW s, ProtectParents(r) \cap {s} = {},
         NEW rel \in r.scan.relations, rel.parent = s, rel.token = "protect"
  PROVE  Reaches(r, rel.child)
<1>1. rel \in Blocking(r, rel.child)
  BY DEF Blocking
<1>2. ProtectState(r, rel.child) # "absent"
  BY DEF ProtectParents
<1>3. QED
  BY <1>1, <1>2 DEF ProtectState, Reaches
\* A start that is not unregistered is one the repository lets a person in by.
Known(r) == {e \in Members(r.starts) :
               e \in Members(r.scan.entries) \/ \A x \in e.symbol : Registered(r.scan, x)}

\* What a Reach object of a scan and a record is, as far as the rows ask.
WellMade(r) ==
  /\ DOMAIN r.starts \subseteq Nat
  /\ Members(r.jobs) = {e \in Members(r.starts) : e.kind \in JobKinds}
  /\ \A e \in Members(r.starts) : ~Unregistered(e) => e \in Known(r)

\* Row 4 was taken: the path begins at a start that counts, and no cap held it back.
LEMMA RowFour ==
  ASSUME NEW r, NEW s, WellMade(r), NEW h \in Reached(r, s, TRUE, Excluded(r, s)),
         ~Unregistered(h.entry), ProtectParents(r) \cap {s} = {},
         NEW verdict
  PROVE  Backed(r, s, verdict)
<1> DEFINE e == h.entry
           jobs == {x \in Members(r.jobs) : Scheduled(r, x)}
           able == IF Markers(r, s) = {} THEN Known(r) ELSE jobs \cup {x \in Known(r) : x.kind \notin JobKinds}
<1>1. /\ e \in Members(r.starts) /\ e.name \notin Excluded(r, s)
      /\ s \in DOMAIN r.walk[e.name][TRUE]
  BY ReachedIs
<1>2. e \in Known(r)
  BY <1>1 DEF WellMade
<1>3. e \in able
  <2>1. CASE Markers(r, s) # {} /\ e.kind \in JobKinds
    <3>1. e \in Members(r.jobs)
      BY <1>1, <2>1 DEF WellMade
    <3>2. Scheduled(r, e)
      BY <1>1, <2>1, <3>1 DEF Excluded
    <3>3. QED
      BY <2>1, <3>1, <3>2
  <2>2. QED
    BY <1>2, <2>1
<1>4. Reaches(r, s)
  BY <1>1, ReachesIf DEF WellMade
<1>5. \A rel \in Blocking(r, s) : Reaches(r, rel.child)
  BY <1>4 DEF Blocking, Restricting
<1>6. \A rel \in r.scan.relations : rel.parent = s /\ rel.token = "protect" => Reaches(r, rel.child)
  BY ChildrenGo
<1>7. \E x \in able : s \in DOMAIN r.walk[x.name][TRUE]
  BY <1>1, <1>3
<1>8. QED
  BY <1>5, <1>6, <1>7 DEF Backed, Known
\* Row 5 was taken: every column is blanked where a start gets to, and one that a person may use.
LEMMA RowFive ==
  ASSUME NEW r, NEW s, NEW claimed, NEW verdict, WellMade(r),
         Classify(r, s, claimed).verdict = "anonymised",
         NEW evidence,
         evidence = {w.symbol : w \in WritesFor(r, s, r.starts)} \cup UNION {t.job.symbol : t \in Timer(r, s)},
         ~OnlyDeclared(r, evidence), ProtectParents(r) \cap {s} = {}
  PROVE  Backed(r, s, verdict)
<1> DEFINE writes == WritesFor(r, s, r.starts)
           blanked == {w.column : w \in {w \in writes : w.kind = "constant"}}
           columns == Columns(r, s, claimed)
<1>1. /\ columns # {}
      /\ \A c \in columns : \E w \in writes : w.column = c /\ w.kind = "constant"
  BY DEF Classify
<1>2. r.scan.stores[s].columns \subseteq blanked
  BY <1>1 DEF Columns
<1>3. PICK w \in writes : TRUE
  BY <1>1
<1>4. PICK e \in Members(r.starts) : w.symbol \in DOMAIN r.walk[e.name][TRUE]
  BY <1>3, WriteIsOnPath
<1>5. PICK a \in Members(r.starts) :
        ~Unregistered(a) /\ evidence \cap DOMAIN r.walk[a.name][TRUE] # {}
  <2>1. evidence \cap DOMAIN r.walk[e.name][TRUE] # {}
    BY <1>3, <1>4
  <2>2. QED
    BY <1>4, <2>1 DEF OnlyDeclared
<1>6. a \in Known(r)
  BY <1>5 DEF WellMade
<1>7. CASE \E v \in writes : v.symbol \in DOMAIN r.walk[a.name][TRUE]
  BY <1>2, <1>6, <1>7 DEF Backed, Known
<1>8. CASE \E t \in Timer(r, s) : t.job.symbol \cap DOMAIN r.walk[a.name][TRUE] # {}
  <2>1. PICK t \in Timer(r, s) : TRUE
    BY <1>8
  <2>2. /\ t.job \in Members(r.jobs) /\ Scheduled(r, t.job)
        /\ s \in DOMAIN r.walk[t.job.name][TRUE]
        /\ Markers(r, s) # {}
    BY <2>1, TimerIs
  <2>3. Reaches(r, s)
    BY <2>2, ReachesIf DEF WellMade
  <2>4. \A rel \in Blocking(r, s) : Reaches(r, rel.child)
    BY <2>3 DEF Blocking, Restricting
  <2>5. \A rel \in r.scan.relations : rel.parent = s /\ rel.token = "protect" => Reaches(r, rel.child)
    BY ChildrenGo
  <2>6. QED
    BY <2>2, <2>4, <2>5 DEF Backed
<1>9. QED
  BY <1>5, <1>7, <1>8

\* Row 6 was taken: rows are marked, and a scheduled job whose days can be read reaches them.
LEMMA RowSix ==
  ASSUME NEW r, NEW s, NEW verdict, verdict # "erased", NEW t \in Timer(r, s), t.days # {}
  PROVE  Backed(r, s, verdict)
<1>1. /\ t.job \in Members(r.jobs) /\ Scheduled(r, t.job)
      /\ s \in DOMAIN r.walk[t.job.name][TRUE]
      /\ Markers(r, s) # {}
      /\ \E x \in t.job.symbol : ParseDays(r.scan, x) # {}
  BY TimerIs
<1>2. QED
  BY <1>1 DEF Backed

\* A verdict that rows go, and one a record may state where the verifier facts it, is backed.
LEMMA FoundIsBacked ==
  ASSUME NEW r, NEW s, NEW claimed, NEW verdict \in Reaching, WellMade(r),
         NEW facts, facts = Decide(r, s, claimed).verdict,
         ~Contradicts(verdict, facts)
  PROVE  Backed(r, s, verdict)
<1> DEFINE hit == Reached(r, s, TRUE, Excluded(r, s))
           loose == Reached(r, s, FALSE, Excluded(r, s))
           timer == Timer(r, s)
           marks == Classify(r, s, claimed)
           row == Rows(r, s, hit, loose, timer, marks)
           evidence == {w.symbol : w \in marks.writes} \cup UNION {t.job.symbol : t \in timer}
<1>1. facts \in Reaching /\ ~(verdict = "erased" /\ facts = "erased_after_timer")
  BY DEF Contradicts
<1>2. CASE r.scan.stores[s].kind = "third_party"
  <2>1. Forwards(r, s)
    BY <1>1, <1>2 DEF Decide, Found, Reaching
  <2>2. QED
    BY <1>2, <2>1 DEF Backed
<1>3. CASE r.scan.stores[s].kind # "third_party"
  <2>1. r.scan.stores[s].kind # "backup" /\ r.entries # <<>>
    BY <1>1, <1>3 DEF Decide, Found, Reaching
  <2>2. facts = IF row \in Reaching /\ Capped(r, s, hit, evidence) THEN "unverified" ELSE row
    BY <1>3, <2>1 DEF Decide, Found
  <2>3. row \in Reaching /\ ~Capped(r, s, hit, evidence) /\ facts = row
    BY <1>1, <2>2 DEF Reaching
  <2>4. ProtectParents(r) \cap {s} = {}
    BY <2>3 DEF Capped
  <2>5. CASE hit # {}
    <3>1. PICK h \in hit : TRUE
      BY <2>5
    <3>2. ~Unregistered(h.entry)
      BY <2>3, <3>1 DEF Capped
    <3>3. QED
      BY <2>4, <3>1, <3>2, RowFour
  <2>6. CASE hit = {} /\ marks.verdict = "anonymised"
    <3>1. marks.writes = WritesFor(r, s, r.starts)
      BY DEF Classify
    <3>2. ~OnlyDeclared(r, evidence)
      BY <2>3, <2>6 DEF Capped
    <3> HIDE DEF hit, marks
    <3>3. QED
      BY <2>4, <2>6, <3>1, <3>2, RowFive DEF marks
  <2>7. CASE hit = {} /\ marks.verdict # "anonymised"
    <3>1. \E t \in timer : t.days # {}
      BY <2>3, <2>7 DEF Rows, Reaching
    <3>2. row = "erased_after_timer"
      BY <2>7, <3>1 DEF Rows
    <3>3. verdict # "erased"
      BY <1>1, <2>3, <3>2
    <3>4. QED
      BY <3>1, <3>3, RowSix
  <2>8. QED
    BY <2>5, <2>6, <2>7
<1>4. QED
  BY <1>2, <1>3
-----------------------------------------------------------------------------
(* The order of the entry points.                                            *)

\* Of some entry points one has no other before it.
LEMMA SomeFirst ==
  ASSUME NEW rest, rest # {}, \A e \in rest : Keyed(e)
  PROVE  \E e \in rest : \A f \in rest : ~Key(f, e)
<1> DEFINE names == {e.name : e \in rest}
<1>1. names # {} /\ names \subseteq Nat
  BY DEF Keyed
<1>2. PICK m \in names : \A x \in names : m <= x
  BY <1>1, Least
<1> DEFINE ats == {e.at : e \in {e \in rest : e.name = m}}
<1>3. ats # {} /\ ats \subseteq Nat
  BY <1>2 DEF Keyed
<1>4. PICK a \in ats : \A x \in ats : a <= x
  BY <1>3, Least
<1>5. PICK e \in rest : e.name = m /\ e.at = a
  BY <1>4
<1>6. ASSUME NEW f \in rest, Key(f, e) PROVE FALSE
  <2>1. f.name \in Nat /\ f.at \in Nat /\ e.name \in Nat /\ e.at \in Nat
    BY DEF Keyed
  <2>2. m <= f.name
    BY <1>2
  <2>3. f.name = m => a <= f.at
    BY <1>4
  <2>4. QED
    BY <1>5, <1>6, <2>1, <2>2, <2>3 DEF Key
<1>7. QED
  BY <1>5, <1>6

\* A sequence shorter than a set is large leaves some of it out.
LEMMA SomeLeft ==
  ASSUME NEW S, IsFiniteSet(S), NEW n \in Nat, n < Cardinality(S), NEW T, NEW seq \in [1..n -> T]
  PROVE  S \ Members(seq) # {}
<1>1. seq \in Surjection(1..n, Members(seq))
  BY DEF Surjection, Members
<1>2. IsFiniteSet(1..n) /\ Cardinality(1..n) = n
  BY FS_Interval
<1>3. IsFiniteSet(Members(seq)) /\ Cardinality(Members(seq)) <= n
  BY <1>1, <1>2, FS_Surjection
<1>4. S \subseteq Members(seq) => Cardinality(S) <= Cardinality(Members(seq))
  BY <1>3, FS_Subset
<1>5. Cardinality(S) \in Nat /\ Cardinality(Members(seq)) \in Nat
  BY <1>3, FS_CardinalityType
<1>6. QED
  BY <1>3, <1>4, <1>5

\* The entry points in order are a sequence of them.
LEMMA InOrderIs ==
  ASSUME NEW S, IsFiniteSet(S), \A e \in S : Keyed(e)
  PROVE  InOrder(S) \in Seq(S)
<1> DEFINE n == Cardinality(S)
           First(rest) == CHOOSE e \in rest : \A f \in rest : ~Key(f, e)
           More(seq) == Append(seq, First(S \ Members(seq)))
           Fits(f, m) == f = [k \in 0..m |-> IF k = 0 THEN <<>> ELSE More(f[k - 1])]
           after == CHOOSE f : Fits(f, n)
<1>1. n \in Nat
  BY FS_CardinalityType
<1>2. InOrder(S) = after[n]
  BY DEF InOrder
<1> HIDE DEF More, after, n
<1>3. \E f : Fits(f, n)
  <2> DEFINE some == {m \in 0..n : \E f : Fits(f, m)}
  <2> HIDE DEF Fits
  <2>1. 0 \in some
    <3>1. Fits([k \in 0..0 |-> <<>>], 0)
      BY DEF Fits
    <3>2. QED
      BY <1>1, <3>1
  <2>2. ASSUME NEW k \in 1..n, k - 1 \in some PROVE k \in some
    <3>1. PICK f : Fits(f, k - 1)
      BY <2>2
    <3> DEFINE g == [j \in 0..k |-> IF j = k THEN More(f[k - 1]) ELSE f[j]]
    <3>2. \A j \in 0..k : g[j] = IF j = 0 THEN <<>> ELSE More(g[j - 1])
      <4>1. \A j \in 0..(k - 1) : f[j] = IF j = 0 THEN <<>> ELSE More(f[j - 1])
        BY <3>1 DEF Fits
      <4>2. QED
        BY <1>1, <4>1
    <3>3. Fits(g, k)
      BY <3>2 DEF Fits
    <3>4. QED
      BY <1>1, <3>3
  <2>3. 0..n \subseteq some
    BY <1>1, <2>1, <2>2, Induction
  <2>4. QED
    BY <1>1, <2>3 DEF Fits
<1>4. after = [k \in 0..n |-> IF k = 0 THEN <<>> ELSE More(after[k - 1])]
  BY <1>3 DEF after
<1>5. 0..n \subseteq {m \in 0..n : after[m] \in [1..m -> S]}
  <2> DEFINE good == {m \in 0..n : after[m] \in [1..m -> S]}
  <2>1. 0 \in good
    BY <1>1, <1>4
  <2>2. ASSUME NEW k \in 1..n, k - 1 \in good PROVE k \in good
    <3> DEFINE seq == after[k - 1]
               rest == S \ Members(seq)
    <3>1. seq \in [1..(k - 1) -> S]
      BY <2>2
    <3> HIDE DEF seq
    <3>2. rest # {}
      <4>1. k - 1 \in Nat /\ k - 1 < Cardinality(S)
        BY <1>1 DEF n
      <4>2. QED
        BY <3>1, <4>1, SomeLeft
    <3>3. First(rest) \in S
      BY <3>2, SomeFirst
    <3> HIDE DEF First
    <3>4. after[k] = Append(seq, First(rest))
      <4>1. after[k] = More(after[k - 1])
        BY <1>1, <1>4
      <4>2. QED
        BY <4>1 DEF More, seq
    <3> HIDE DEF rest
    <3>5. seq \in Seq(S) /\ Len(seq) = k - 1
      BY <1>1, <3>1
    <3>6. Append(seq, First(rest)) \in Seq(S) /\ Len(Append(seq, First(rest))) = k
      BY <1>1, <3>3, <3>5
    <3>7. after[k] \in [1..k -> S]
      <4>1. \A q \in Seq(S) : Len(q) = k => q \in [1..k -> S]
        OBVIOUS
      <4>2. QED
        BY <3>4, <3>6, <4>1
    <3>8. QED
      BY <1>1, <3>7
  <2>3. QED
    BY <1>1, <2>1, <2>2, Induction
<1>6. after[n] \in [1..n -> S]
  BY <1>1, <1>5
<1>7. QED
  BY <1>1, <1>2, <1>6
-----------------------------------------------------------------------------
(* The Reach object of a scan and a record.                                  *)

\* The declared entry points of a record, as the verifier may rely on them.
Keyable(rec) == IsFiniteSet(rec.declared) /\ \A d \in rec.declared : Keyed(d)

\* A declared start is not unregistered only where the repository registers its function.
LEMMA DeclaredIsRegistered ==
  ASSUME NEW g, NEW rec, Keyable(rec), NEW e \in DeclaredStarts(g, rec.declared)
  PROVE  Keyed(e) /\ (~Unregistered(e) => \A x \in e.symbol : Registered(g, x))
<1>1. PICK d \in NewRows(g, rec.declared) : e = Start(d, {Status(g, d)})
  BY DEF DeclaredStarts
<1>2. /\ d \in rec.declared
      /\ Status(g, d) \in {"declared_only", "declared_unregistered"}
  BY DEF NewRows
<1>3. /\ e.name = d.name /\ e.at = d.at /\ e.symbol = d.symbol
      /\ e.flags = {Status(g, d)}
  BY <1>1 DEF Start
<1>4. Keyed(d) /\ Keyed(e)
  BY <1>2, <1>3 DEF Keyable, Keyed
<1>5. ASSUME ~Unregistered(e) PROVE \A x \in e.symbol : Registered(g, x)
  <2>1. Status(g, d) = "declared_only"
    BY <1>2, <1>3, <1>5 DEF Unregistered
  <2>2. \E x \in d.symbol : Registered(g, x)
    BY <2>1 DEF Status
  <2>3. QED
    BY <1>3, <1>4, <2>2 DEF Keyed
<1>6. QED
  BY <1>4, <1>5

\* What the starts and the jobs of a sequence of entry points are.
LEMMA NewReachIs ==
  ASSUME NEW g, NEW all, NEW entries \in Seq(all)
  PROVE  /\ NewReach(g, entries).scan = g
         /\ DOMAIN NewReach(g, entries).starts \subseteq Nat
         /\ Members(NewReach(g, entries).starts) = {e \in Members(entries) : "unscheduled" \notin e.flags}
         /\ Members(NewReach(g, entries).jobs) = {e \in Members(NewReach(g, entries).starts) : e.kind \in JobKinds}
         /\ Members(entries) \subseteq all
<1> DEFINE starts == Keep(entries, LAMBDA e : "unscheduled" \notin e.flags)
           jobs == Keep(starts, LAMBDA e : e.kind \in JobKinds)
<1>1. /\ NewReach(g, entries).scan = g
      /\ NewReach(g, entries).starts = starts
      /\ NewReach(g, entries).jobs = jobs
  BY DEF NewReach, Starts
<1>2. DOMAIN entries \subseteq Nat /\ Members(entries) \subseteq all
  BY DEF Members
<1>3. DOMAIN starts \subseteq Nat
  BY <1>2 DEF Keep
<1>4. Members(starts) = {e \in Members(entries) : "unscheduled" \notin e.flags}
  BY DEF Keep, Members
<1>5. Members(jobs) = {e \in Members(starts) : e.kind \in JobKinds}
  <2> HIDE DEF starts
  <2>1. QED
    BY DEF Keep, Members
<1> HIDE DEF starts, jobs
<1>6. QED
  BY <1>1, <1>2, <1>3, <1>4, <1>5

\* Every start of a record's walks has its order, its jobs and, unless it is unregistered, a
\* repository that lets a person in by it.
LEMMA ReachOfIs ==
  ASSUME NEW g \in Scans, NEW rec, Keyable(rec), NEW r, r = ReachOf(g, rec)
  PROVE  WellMade(r) /\ r.scan = g
<1> DEFINE facts == Members(g.entries)
           more == DeclaredStarts(g, rec.declared)
           all == facts \cup more
           entries == InOrder(all)
<1>1. /\ g.entries = InOrder(Discover(g.code)) /\ IsFiniteSet(Discover(g.code))
      /\ \A e \in Discover(g.code) : Keyed(e)
  BY InputsAssumption
<1>2. facts \subseteq Discover(g.code) /\ IsFiniteSet(facts)
  <2>1. g.entries \in Seq(Discover(g.code))
    BY <1>1, InOrderIs
  <2>2. facts \subseteq Discover(g.code)
    BY <2>1 DEF Members
  <2>3. QED
    BY <1>1, <2>2, FS_Subset
<1>3. IsFiniteSet(more)
  <2>1. IsFiniteSet(NewRows(g, rec.declared))
    BY FS_Subset DEF NewRows, Keyable
  <2> DEFINE S == NewRows(g, rec.declared)
             f == [d \in S |-> Start(d, {Status(g, d)})]
  <2>2. more = {f[d] : d \in S}
    BY DEF DeclaredStarts
  <2> HIDE DEF S
  <2>3. f \in Surjection(S, more)
    BY <2>2 DEF Surjection
  <2>4. QED
    BY <2>1, <2>3, FS_Surjection DEF S
<1>4. IsFiniteSet(all) /\ \A e \in all : Keyed(e)
  BY <1>1, <1>2, <1>3, DeclaredIsRegistered, FS_Union
<1>5. entries \in Seq(all)
  BY <1>4, InOrderIs
<1>6. r = NewReach(g, entries)
  BY DEF ReachOf
<1> HIDE DEF entries, all
<1>7. /\ r.scan = g /\ DOMAIN r.starts \subseteq Nat
      /\ Members(r.jobs) = {e \in Members(r.starts) : e.kind \in JobKinds}
      /\ Members(r.starts) \subseteq all
  BY <1>5, <1>6, NewReachIs
<1>8. ASSUME NEW e \in Members(r.starts), ~Unregistered(e) PROVE e \in Known(r)
  BY <1>7, <1>8, DeclaredIsRegistered DEF Known, all
<1>9. QED
  BY <1>7, <1>8 DEF WellMade
-----------------------------------------------------------------------------
(* The matching of claims to stores.                                         *)

\* Claims of one record taken for stores of the scan, no store for two of them.
Matching(m, g, n) ==
  /\ DOMAIN m \subseteq 1..n
  /\ \A i \in DOMAIN m : m[i] \in DOMAIN g.stores
  /\ \A i, j \in DOMAIN m : m[i] = m[j] => i = j

\* What a claim may take is what is free.
LEMMA FittingIsFree ==
  ASSUME NEW g, NEW c, NEW sweep, NEW free
  PROVE  Fitting(g, c, sweep, free) \subseteq free
BY DEF Fitting

\* One more claim and the first of the stores that fit it.
Extended(m, i, fit) ==
  [j \in DOMAIN m \cup {i} |-> IF j = i THEN CHOOSE s \in fit : \A t \in fit : s <= t ELSE m[j]]

\* One more claim takes the first of the stores that fit it, none of them taken before.
LEMMA OneMore ==
  ASSUME NEW g, DOMAIN g.stores \subseteq Nat, NEW n \in Nat, NEW m, Matching(m, g, n),
         NEW i \in 1..n, i \notin DOMAIN m,
         NEW fit, fit \subseteq DOMAIN g.stores \ {m[j] : j \in DOMAIN m}, fit # {}
  PROVE  Matching(Extended(m, i, fit), g, n)
<1>1. PICK x \in fit : \A t \in fit : x <= t
  BY Least
<1> DEFINE first == CHOOSE s \in fit : \A t \in fit : s <= t
           more == Extended(m, i, fit)
<1>2. first \in fit
  BY <1>1
<1>3. /\ DOMAIN more = {i} \cup DOMAIN m
      /\ more[i] = first
      /\ \A j \in DOMAIN m : more[j] = m[j]
  BY DEF Extended
<1> HIDE DEF first, more
<1>4. DOMAIN more \subseteq 1..n
  BY <1>3 DEF Matching
<1>5. \A j \in DOMAIN more : more[j] \in DOMAIN g.stores
  BY <1>2, <1>3 DEF Matching
<1>6. \A j, k \in DOMAIN more : more[j] = more[k] => j = k
  <2>1. \A j \in DOMAIN m : first # m[j]
    BY <1>2
  <2>2. QED
    BY <1>3, <2>1 DEF Matching
<1>7. QED
  BY <1>4, <1>5, <1>6 DEF Matching, more

\* Matched takes claims for stores, each store once.
LEMMA MatchedIs ==
  ASSUME NEW g, DOMAIN g.stores \subseteq Nat, NEW claims, Len(claims) \in Nat
  PROVE  Matching(Matched(g, claims), g, Len(claims))
<1> DEFINE n == Len(claims)
           Fit(m, i, sweep) == Fitting(g, claims[i], sweep, DOMAIN g.stores \ {m[j] : j \in DOMAIN m})
           Take(m, i, sweep) == IF i \in DOMAIN m \/ Fit(m, i, sweep) = {} THEN m
                                ELSE Extended(m, i, Fit(m, i, sweep))
           At(m, k) == Take(m, ((k - 1) % n) + 1, ((k - 1) \div n) + 1)
           rounds == 2 * n
           Fits(f, q) == f = [k \in 0..q |-> IF k = 0 THEN <<>> ELSE At(f[k - 1], k)]
           after == CHOOSE f : Fits(f, rounds)
<1>1. n \in Nat /\ rounds \in Nat /\ (rounds > 0 => n > 0)
  OBVIOUS
<1>2. Matched(g, claims) = after[rounds]
  BY Zenon DEF Matched, Extended
<1> HIDE DEF At, after, n, rounds
<1>3. \E f : Fits(f, rounds)
  <2> DEFINE some == {m \in 0..rounds : \E f : Fits(f, m)}
  <2> HIDE DEF Fits
  <2>1. 0 \in some
    <3>1. Fits([k \in 0..0 |-> <<>>], 0)
      BY DEF Fits
    <3>2. QED
      BY <1>1, <3>1
  <2>2. ASSUME NEW k \in 1..rounds, k - 1 \in some PROVE k \in some
    <3>1. PICK f : Fits(f, k - 1)
      BY <2>2
    <3> DEFINE h == [j \in 0..k |-> IF j = k THEN At(f[k - 1], k) ELSE f[j]]
    <3>2. \A j \in 0..k : h[j] = IF j = 0 THEN <<>> ELSE At(h[j - 1], j)
      <4>1. \A j \in 0..(k - 1) : f[j] = IF j = 0 THEN <<>> ELSE At(f[j - 1], j)
        BY <3>1 DEF Fits
      <4>2. QED
        BY <1>1, <4>1
    <3>3. Fits(h, k)
      BY <3>2 DEF Fits
    <3>4. QED
      BY <1>1, <3>3
  <2>3. 0..rounds \subseteq some
    BY <1>1, <2>1, <2>2, Induction
  <2>4. QED
    BY <1>1, <2>3 DEF Fits
<1>4. after = [k \in 0..rounds |-> IF k = 0 THEN <<>> ELSE At(after[k - 1], k)]
  BY <1>3 DEF after
<1>5. 0..rounds \subseteq {k \in 0..rounds : Matching(after[k], g, n)}
  <2> DEFINE good == {k \in 0..rounds : Matching(after[k], g, n)}
  <2>1. 0 \in good
    <3>1. after[0] = <<>>
      BY <1>1, <1>4
    <3>2. Matching(<<>>, g, n)
      BY DEF Matching
    <3>3. QED
      BY <1>1, <3>1, <3>2
  <2>2. ASSUME NEW k \in 1..rounds, k - 1 \in good PROVE k \in good
    <3> DEFINE m == after[k - 1]
               i == ((k - 1) % n) + 1
               sweep == ((k - 1) \div n) + 1
    <3>1. Matching(m, g, n)
      BY <2>2
    <3>2. i \in 1..n
      <4>1. n \in Nat /\ n > 0 /\ k - 1 \in Nat
        BY <1>1
      <4>2. QED
        BY <4>1
    <3>3. after[k] = Take(m, i, sweep)
      <4>1. after[k] = At(after[k - 1], k)
        BY <1>1, <1>4
      <4>2. QED
        BY <4>1 DEF At
    <3> HIDE DEF m, i, sweep
    <3>4. CASE i \in DOMAIN m \/ Fit(m, i, sweep) = {}
      BY <3>1, <3>3, <3>4
    <3>5. CASE i \notin DOMAIN m /\ Fit(m, i, sweep) # {}
      <4>1. Fit(m, i, sweep) \subseteq DOMAIN g.stores \ {m[j] : j \in DOMAIN m}
        BY FittingIsFree
      <4> DEFINE fit == Fit(m, i, sweep)
      <4> HIDE DEF Fit
      <4>2. after[k] = Extended(m, i, fit)
        BY <3>3, <3>5
      <4> HIDE DEF fit
      <4>3. fit # {}
        BY <3>5 DEF fit
      <4>4. fit \subseteq DOMAIN g.stores \ {m[j] : j \in DOMAIN m}
        BY <4>1 DEF fit
      <4>5. Matching(after[k], g, n)
        BY <1>1, <3>1, <3>2, <3>5, <4>2, <4>3, <4>4, OneMore
      <4>6. QED
        BY <1>1, <4>5
    <3>6. QED
      BY <3>4, <3>5
  <2>3. QED
    BY <1>1, <2>1, <2>2, Induction
<1>6. Matching(after[rounds], g, n)
  BY <1>1, <1>5
<1>7. QED
  BY <1>2, <1>6 DEF n
-----------------------------------------------------------------------------
(* The record a model mends.                                                 *)

\* The numbers of a set, in order, are numbers of it.
LEMMA SortedIs ==
  ASSUME NEW S, IsFiniteSet(S), S \subseteq Nat
  PROVE  \A i \in 1..Cardinality(S) : Sorted(S)[i] \in S
<1> DEFINE n == Cardinality(S)
           below(x) == {y \in S : y < x}
           ranked == {k \in 0..n : k = 0 \/ \E x \in S : Cardinality(below(x)) = k - 1}
<1>1. n \in Nat
  BY FS_CardinalityType
<1>2. \A x \in S : IsFiniteSet(below(x)) /\ Cardinality(below(x)) \in Nat
  BY FS_Subset, FS_CardinalityType
<1>3. ASSUME NEW k \in 1..n, k - 1 \in ranked PROVE k \in ranked
  <2>1. CASE k = 1
    <3>1. S # {}
      BY <2>1, FS_EmptySet
    <3>2. PICK x \in S : \A y \in S : x <= y
      BY <3>1, Least
    <3>3. below(x) = {}
      <4>1. \A y \in S : ~(y < x)
        BY <3>2
      <4>2. QED
        BY <4>1
    <3>4. Cardinality(below(x)) = 0
      BY <3>3, FS_EmptySet
    <3>5. QED
      BY <2>1, <3>4
  <2>2. CASE k # 1
    <3>1. PICK x \in S : Cardinality(below(x)) = k - 2
      BY <1>1, <1>3, <2>2
    <3> DEFINE upto == below(x) \cup {x}
               above == S \ upto
    <3>2. IsFiniteSet(upto) /\ Cardinality(upto) = k - 1
      <4>1. x \notin below(x)
        OBVIOUS
      <4>2. Cardinality(upto) = Cardinality(below(x)) + 1 /\ IsFiniteSet(upto)
        BY <1>2, <4>1, FS_AddElement
      <4>3. QED
        BY <1>1, <2>2, <3>1, <4>2
    <3>3. above # {}
      <4>1. S = upto => n = k - 1
        BY <3>2
      <4>2. upto \subseteq S
        OBVIOUS
      <4>3. QED
        BY <1>1, <4>1, <4>2
    <3>4. PICK z \in above : \A y \in above : z <= y
      BY <3>3, Least
    <3>5. below(z) = upto
      <4>1. z \in S /\ x < z
        BY <3>4
      <4>2. ASSUME NEW y \in below(z) PROVE y \in upto
        <5>1. y \in S /\ y < z /\ ~(z <= y)
          BY <4>1
        <5>2. y \notin above
          BY <3>4, <5>1
        <5>3. QED
          BY <5>1, <5>2
      <4>3. ASSUME NEW y \in upto PROVE y \in below(z)
        <5>1. y \in S /\ y <= x
          OBVIOUS
        <5>2. y < z
          BY <4>1, <5>1
        <5>3. QED
          BY <5>1, <5>2
      <4>4. QED
        BY <4>2, <4>3
    <3>6. QED
      BY <3>2, <3>4, <3>5
  <2>3. QED
    BY <2>1, <2>2
<1>4. 0..n \subseteq ranked
  <2>1. 0 \in ranked
    BY <1>1
  <2>2. \A k \in 1..n : k - 1 \in ranked => k \in ranked
    BY <1>3
  <2> HIDE DEF ranked
  <2>3. QED
    BY <1>1, <2>1, <2>2, Induction
<1>5. ASSUME NEW i \in 1..n PROVE Sorted(S)[i] \in S
  <2>1. \E x \in S : Cardinality(below(x)) = i - 1
    BY <1>1, <1>4
  <2>2. Sorted(S)[i] = CHOOSE x \in S : Cardinality(below(x)) = i - 1
    BY DEF Sorted
  <2>3. QED
    BY <2>1, <2>2
<1>6. QED
  BY <1>5

\* A choice out of each set of a sequence is a sequence as long, of an element of each.
LEMMA PicksIs ==
  ASSUME NEW sets, Len(sets) \in Nat, NEW p \in Picks(sets)
  PROVE  /\ Len(p) = Len(sets) /\ DOMAIN p = 1..Len(sets)
         /\ \E X : p \in Seq(X)
         /\ \A j \in 1..Len(sets) : p[j] \in sets[j]
<1> DEFINE n == Len(sets)
           X == UNION {sets[j] : j \in 1..n}
           More(ps, k) == {Append(f, x) : f \in ps, x \in sets[k]}
           none == {<<>>}
           Fits(f, m) == f = [k \in 0..m |-> IF k = 0 THEN none ELSE More(f[k - 1], k)]
           first == CHOOSE f : Fits(f, n)
           Good(ps, k) == \A q \in ps : q \in Seq(X) /\ Len(q) = k /\ \A j \in 1..k : q[j] \in sets[j]
<1>1. Picks(sets) = first[n]
  BY DEF Picks
<1>0. n \in Nat
  OBVIOUS
<1> HIDE DEF More, first, n, none
<1>2. \E f : Fits(f, n)
  <2> DEFINE some == {m \in 0..n : \E f : Fits(f, m)}
  <2> HIDE DEF Fits
  <2>1. 0 \in some
    <3>1. Fits([k \in 0..0 |-> none], 0)
      BY DEF Fits
    <3>2. QED
      BY <1>0, <3>1
  <2>2. ASSUME NEW k \in 1..n, k - 1 \in some PROVE k \in some
    <3>1. PICK f : Fits(f, k - 1)
      BY <2>2
    <3> DEFINE g == [j \in 0..k |-> IF j = k THEN More(f[k - 1], k) ELSE f[j]]
    <3>2. \A j \in 0..k : g[j] = IF j = 0 THEN none ELSE More(g[j - 1], j)
      <4>1. \A j \in 0..(k - 1) : f[j] = IF j = 0 THEN none ELSE More(f[j - 1], j)
        BY <3>1 DEF Fits
      <4>2. QED
        BY <1>0, <4>1
    <3>3. Fits(g, k)
      BY <3>2 DEF Fits
    <3>4. QED
      BY <1>0, <3>3
  <2>3. 0..n \subseteq some
    BY <1>0, <2>1, <2>2, Induction
  <2>4. QED
    BY <1>0, <2>3
<1>3. first = [k \in 0..n |-> IF k = 0 THEN none ELSE More(first[k - 1], k)]
  BY <1>2 DEF first
<1>4. ASSUME NEW k \in 1..n, Good(first[k - 1], k - 1) PROVE Good(first[k], k)
  <2>1. first[k] = {Append(f, x) : f \in first[k - 1], x \in sets[k]}
    <3>1. first[k] = More(first[k - 1], k)
      BY <1>0, <1>3
    <3>2. QED
      BY <3>1 DEF More
  <2>0. SUFFICES ASSUME NEW q \in first[k]
                 PROVE  q \in Seq(X) /\ Len(q) = k /\ \A j \in 1..k : q[j] \in sets[j]
    OBVIOUS
  <2>2. PICK f \in first[k - 1], x \in sets[k] : q = Append(f, x)
    BY <2>1
  <2>3. f \in Seq(X) /\ Len(f) = k - 1 /\ \A j \in 1..(k - 1) : f[j] \in sets[j]
    BY <1>4
  <2>4. x \in X
    BY <1>0
  <2> HIDE DEF X
  <2>5. Append(f, x) \in Seq(X) /\ Len(Append(f, x)) = k
    BY <1>0, <2>3, <2>4
  <2>6. \A j \in 1..k : Append(f, x)[j] = IF j = k THEN x ELSE f[j]
    BY <1>0, <2>3, <2>4
  <2>7. QED
    BY <1>0, <2>2, <2>3, <2>5, <2>6
<1>5. Good(first[0], 0)
  BY <1>0, <1>3 DEF none
<1> DEFINE good == {k \in 0..n : Good(first[k], k)}
<1> HIDE DEF Good
<1>6. 0..n \subseteq good
  <2>1. 0 \in good
    BY <1>0, <1>5
  <2>2. ASSUME NEW k \in 1..n, k - 1 \in good PROVE k \in good
    BY <1>0, <1>4, <2>2
  <2> HIDE DEF good
  <2>3. QED
    BY <1>0, <2>1, <2>2, Induction
<1>7. Good(first[n], n)
  BY <1>0, <1>6
<1>8. p \in Seq(X) /\ Len(p) = n /\ \A j \in 1..n : p[j] \in sets[j]
  BY <1>1, <1>7 DEF Good
<1> HIDE DEF X
<1>9. QED
  BY <1>8 DEF n
-----------------------------------------------------------------------------
(* What stays true of scan, record and feedback.                             *)

\* Claims in their order, each with its fields.
Listed(claims) == (\E X : claims \in Seq(X)) /\ \A i \in DOMAIN claims : ClaimOK(claims[i])

\* The parts of a record.
Whole(rec) == rec = [claims |-> rec.claims, declared |-> rec.declared,
                     retention |-> rec.retention, flaws |-> rec.flaws]

RecordOK == Whole(record) /\ Keyable(record) /\ Listed(record.claims)

\* The last answer was given on this scan and these entry points; an accepted record's is its own.
FeedbackOK ==
  /\ feedback.missing \subseteq DOMAIN scan.stores
  /\ \A s \in DOMAIN feedback.found :
       /\ s \in DOMAIN scan.stores
       /\ \E claimed : feedback.found[s] = Decide(ReachOf(scan, record), s, claimed)
  /\ status \in {"accepted", "shown"} => feedback = Answer(scan, record) /\ Accepted(feedback)

\* What is published and what the checkpoint says come from one decision, and the claims that
\* are left are those of a record the schema has no error in.
SlotOK ==
  /\ status # "closed" => slot = Empty /\ score = {}
  /\ \A p \in slot.point, rec \in slot.record :
       \E d \in Decisions(record) : p = Checkpoint(record, d) /\ rec = Publish(record, d.edits)
  /\ \A rec \in slot.record \cup slot.draft : rec.claims = record.claims
  /\ status = "unsigned" \/ slot.record \cup slot.draft # {} => SchemaErrors(record) = {}

\* The score is that of what is in the slot, against a case of the repository.
ScoreOK ==
  \A s \in score : /\ s.manifest \in Manifests(scan)
                   /\ s.metrics = ScoreRun(slot.record, s.manifest, slot.stop, slot.draft)

SignInv == scan \in Scans /\ RecordOK /\ FeedbackOK /\ SlotOK /\ ScoreOK

\* An answer tells of stores of the scan, with the verdicts of the record's own walks.
LEMMA AnswerIs ==
  ASSUME NEW g, NEW rec
  PROVE  /\ Answer(g, rec).missing \subseteq DOMAIN g.stores
         /\ \A s \in DOMAIN Answer(g, rec).found :
              /\ s \in DOMAIN g.stores
              /\ \E claimed : Answer(g, rec).found[s] = Decide(ReachOf(g, rec), s, claimed)
<1>1. CASE SchemaErrors(rec) # {}
  BY <1>1 DEF Answer, NoAnswer
<1>2. CASE SchemaErrors(rec) = {}
  <2> DEFINE r == ReachOf(g, rec)
             matched == Matched(g, rec.claims)
             facts == VerdictsOf(r, rec, matched)
  <2>1. Answer(g, rec).found = facts /\ Answer(g, rec).missing = Missing(g, matched)
    BY <1>2 DEF Answer, Checked
  <2>2. r.scan = g
    BY DEF ReachOf, NewReach
  <2> HIDE DEF r, matched
  <2>3. Missing(g, matched) \subseteq DOMAIN g.stores
    BY DEF Missing
  <2>4. \A s \in DOMAIN facts : s \in DOMAIN g.stores /\ \E claimed : facts[s] = Decide(r, s, claimed)
    BY <2>2 DEF VerdictsOf
  <2>5. QED
    BY <2>1, <2>3, <2>4 DEF r
<1>3. QED
  BY <1>1, <1>2

\* What is mended is a claim still.
LEMMA MendedIsClaim ==
  ASSUME NEW c, ClaimOK(c), NEW errors, NEW rejected, NEW careful,
         NEW d \in MendedSchema(c, errors) \cup Mended(c, rejected, careful)
  PROVE  ClaimOK(d)
<1>1. CASE d \in MendedSchema(c, errors)
  <2>1. PICK k, v : d = Reshaped(c, errors, k, v)
    BY <1>1 DEF MendedSchema
  <2>2. DOMAIN d = DOMAIN c /\ d.name = c.name /\ d.columns = c.columns
    BY <2>1 DEF Reshaped, ClaimOK, ClaimFields
  <2>3. QED
    BY <2>2 DEF ClaimOK
<1>2. CASE d \in Mended(c, rejected, careful)
  <2>1. PICK v, t, q : d = Rewritten(c, rejected, v, t, q)
    BY <1>2 DEF Mended
  <2>2. DOMAIN d = DOMAIN c /\ d.name = c.name /\ d.columns = c.columns
    BY <2>1 DEF Rewritten, ClaimOK, ClaimFields
  <2>3. QED
    BY <2>2 DEF ClaimOK
<1>3. QED
  BY <1>1, <1>2

\* What is added is a claim about a store of the scan.
LEMMA AddedIsClaim ==
  ASSUME NEW g \in Scans, NEW s \in DOMAIN g.stores, NEW careful, NEW c \in Added(g, s, careful)
  PROVE  ClaimOK(c)
<1>1. c.name = g.named[s] /\ c.columns = g.stores[s].columns /\ DOMAIN c = ClaimFields
  BY DEF Added, ClaimFields
<1>2. QED
  BY <1>1, ClaimsAssumption DEF ClaimOK
\* Claims after which more come are claims in their order.
LEMMA ListedTogether ==
  ASSUME NEW a, Listed(a), NEW b, Listed(b)
  PROVE  Listed(a \o b)
<1>1. PICK X : a \in Seq(X)
  BY DEF Listed
<1>2. PICK Y : b \in Seq(Y)
  BY DEF Listed
<1>3. a \in Seq(X \cup Y) /\ b \in Seq(X \cup Y)
  BY <1>1, <1>2
<1> DEFINE Z == X \cup Y
<1> HIDE DEF Z
<1>4. a \o b \in Seq(Z) /\ Len(a \o b) = Len(a) + Len(b)
  BY <1>3 DEF Z
<1>5. \A i \in 1..(Len(a) + Len(b)) : (a \o b)[i] = IF i <= Len(a) THEN a[i] ELSE b[i - Len(a)]
  BY <1>3 DEF Z
<1>6. ASSUME NEW i \in DOMAIN (a \o b) PROVE ClaimOK((a \o b)[i])
  <2>1. i \in 1..(Len(a) + Len(b)) /\ Len(a) \in Nat /\ Len(b) \in Nat
    BY <1>3, <1>4
  <2>2. CASE i <= Len(a)
    <3>1. i \in DOMAIN a
      BY <1>3, <2>1, <2>2
    <3>2. QED
      BY <1>5, <2>1, <2>2, <3>1 DEF Listed
  <2>3. CASE ~(i <= Len(a))
    <3>1. i - Len(a) \in DOMAIN b
      BY <1>3, <2>1, <2>3
    <3>2. QED
      BY <1>5, <2>1, <2>3, <3>1 DEF Listed
  <2>4. QED
    BY <2>2, <2>3
<1>7. QED
  BY <1>4, <1>6 DEF Listed

\* A choice out of sets of claims is a list of claims.
LEMMA PicksAreListed ==
  ASSUME NEW sets, Len(sets) \in Nat,
         \A j \in 1..Len(sets) : \A c \in sets[j] : ClaimOK(c),
         NEW p \in Picks(sets)
  PROVE  Listed(p)
BY PicksIs DEF Listed

\* A record keeps its parts and its entry points whatever is written into the others.
LEMMA RecordKept ==
  ASSUME RecordOK, NEW claims, Listed(claims), NEW retention, NEW flaws,
         record' = [claims |-> claims, declared |-> record.declared,
                    retention |-> retention, flaws |-> flaws]
  PROVE  RecordOK' /\ record'.declared = record.declared
<1>1. record'.claims = claims /\ record'.declared = record.declared
      /\ record'.retention = retention /\ record'.flaws = flaws
  OBVIOUS
<1>2. Whole(record)'
  BY <1>1 DEF Whole
<1>3. Keyable(record)' /\ Listed(record.claims)'
  BY <1>1 DEF RecordOK, Keyable, Listed, ClaimOK
<1>4. QED
  BY <1>1, <1>2, <1>3 DEF RecordOK

\* Mending the schema leaves the declared entry points as they are and the claims a list of
\* claims.
LEMMA MendSchemaKeeps ==
  ASSUME RecordOK, MendSchema
  PROVE  RecordOK' /\ record'.declared = record.declared
<1>1. CASE "shape" \in record.flaws
  <2>1. record' = [record EXCEPT !.flaws = @ \ {"shape"}]
    BY <1>1 DEF MendSchema
  <2>2. record' = [claims |-> record.claims, declared |-> record.declared,
                   retention |-> record.retention, flaws |-> record.flaws \ {"shape"}]
    BY <2>1 DEF RecordOK, Whole
  <2>3. QED
    BY <2>2, RecordKept DEF RecordOK
<1>2. CASE "shape" \notin record.flaws
  <2> DEFINE S == {i \in DOMAIN record.claims : ClaimErrors(record, i) \cap {"columns", "name"} = {}}
             kept == Sorted(S)
             n == Cardinality(S)
             limits == {t \in record.retention : NameKey(t.store) \in NameKeys(record.claims)}
             MendedClaim(k) == MendedSchema(record.claims[kept[k]], ClaimErrors(record, kept[k]))
             mended == [k \in DOMAIN kept |-> MendedClaim(k)]
  <2>1. PICK claims \in Picks(mended) :
          record' = [record EXCEPT !.claims = claims, !.flaws = {},
                                   !.retention = {[t EXCEPT !.whole = TRUE] : t \in limits}]
    BY <1>2 DEF MendSchema
  <2>2. DOMAIN record.claims = 1..Len(record.claims) /\ Len(record.claims) \in Nat
    BY DEF RecordOK, Listed
  <2>3. IsFiniteSet(S) /\ S \subseteq Nat /\ S \subseteq DOMAIN record.claims
    <3>1. IsFiniteSet(1..Len(record.claims)) /\ S \subseteq 1..Len(record.claims)
      BY <2>2, FS_Interval
    <3>2. QED
      BY <2>2, <3>1, FS_Subset
  <2>4. n \in Nat /\ DOMAIN kept = 1..n
    BY <2>3, FS_CardinalityType DEF Sorted
  <2>5. \A k \in 1..n : kept[k] \in S
    BY <2>3, SortedIs
  <2>6. ASSUME NEW k \in 1..n, NEW c \in MendedClaim(k) PROVE ClaimOK(c)
    <3>1. ClaimOK(record.claims[kept[k]])
      BY <2>3, <2>5 DEF RecordOK, Listed
    <3>2. QED
      BY <2>6, <3>1, MendedIsClaim
  <2> HIDE DEF MendedClaim, kept, n, S
  <2>7. Len(mended) = n
    <3>1. mended \in Seq({MendedClaim(k) : k \in 1..n})
      BY <2>4
    <3>2. QED
      BY <2>4, <3>1
  <2>8. \A k \in 1..Len(mended) : \A c \in mended[k] : ClaimOK(c)
    BY <2>4, <2>6, <2>7
  <2> HIDE DEF mended
  <2>9. Listed(claims)
    BY <2>1, <2>4, <2>7, <2>8, PicksAreListed
  <2> DEFINE stated == {[t EXCEPT !.whole = TRUE] : t \in limits}
  <2> HIDE DEF limits, stated
  <2>10. record' = [record EXCEPT !.claims = claims, !.flaws = {}, !.retention = stated]
    BY <2>1 DEF stated
  <2>11. record' = [claims |-> claims, declared |-> record.declared, retention |-> stated, flaws |-> {}]
    BY <2>10 DEF RecordOK, Whole
  <2>12. QED
    BY <2>9, <2>11, RecordKept
<1>3. QED
  BY <1>1, <1>2

\* So does mending what the verifier found.
LEMMA MendFindingsKeeps ==
  ASSUME scan \in Scans, RecordOK, FeedbackOK, MendFindings
  PROVE  RecordOK' /\ record'.declared = record.declared
<1>1. PICK careful \in BOOLEAN :
        LET missing == Sorted(feedback.missing)
        IN  \E claims \in Picks([i \in DOMAIN record.claims |->
                                Mended(record.claims[i], feedback.rejected[i], careful)]),
                more \in Picks([k \in DOMAIN missing |-> Added(scan, missing[k], careful)]) :
              record' = [record EXCEPT !.claims = claims \o more]
  BY DEF MendFindings
<1> DEFINE missing == Sorted(feedback.missing)
           MendedClaim(i) == Mended(record.claims[i], feedback.rejected[i], careful)
           mended == [i \in DOMAIN record.claims |-> MendedClaim(i)]
           added == [k \in DOMAIN missing |-> Added(scan, missing[k], careful)]
<1>2. PICK claims \in Picks(mended), more \in Picks(added) :
        record' = [record EXCEPT !.claims = claims \o more]
  BY <1>1
<1>3. Listed(claims)
  <2>1. \A j \in DOMAIN record.claims : \A c \in MendedClaim(j) : ClaimOK(c)
    BY MendedIsClaim DEF RecordOK, Listed
  <2>2. DOMAIN record.claims = 1..Len(record.claims) /\ Len(record.claims) \in Nat
    BY DEF RecordOK, Listed
  <2> HIDE DEF MendedClaim
  <2>3. Len(mended) = Len(record.claims)
    <3>1. mended \in Seq({MendedClaim(j) : j \in DOMAIN record.claims})
      BY <2>2
    <3>2. QED
      BY <2>2, <3>1
  <2>4. \A j \in 1..Len(mended) : \A c \in mended[j] : ClaimOK(c)
    BY <2>1, <2>2, <2>3
  <2> HIDE DEF mended
  <2>5. QED
    BY <1>2, <2>2, <2>3, <2>4, PicksAreListed
<1>4. Listed(more)
  <2> DEFINE S == feedback.missing
             n == Cardinality(S)
  <2>1. IsFiniteSet(S) /\ S \subseteq Nat /\ S \subseteq DOMAIN scan.stores
    BY InputsAssumption, FS_Subset DEF FeedbackOK
  <2>2. n \in Nat /\ DOMAIN missing = 1..n
    BY <2>1, FS_CardinalityType DEF Sorted
  <2>3. \A k \in 1..n : missing[k] \in S
    BY <2>1, SortedIs
  <2> HIDE DEF missing, n
  <2>4. Len(added) = n
    <3>1. added \in Seq({Added(scan, missing[k], careful) : k \in 1..n})
      BY <2>2
    <3>2. QED
      BY <2>2, <3>1
  <2>5. \A k \in 1..Len(added) : \A c \in added[k] : ClaimOK(c)
    <3>1. \A k \in 1..n : missing[k] \in DOMAIN scan.stores /\ added[k] = Added(scan, missing[k], careful)
      BY <2>1, <2>2, <2>3
    <3>2. QED
      BY <2>4, <3>1, AddedIsClaim
  <2> HIDE DEF added
  <2>6. QED
    BY <1>2, <2>2, <2>4, <2>5, PicksAreListed
<1>5. record' = [claims |-> claims \o more, declared |-> record.declared,
                 retention |-> record.retention, flaws |-> record.flaws]
  BY <1>2 DEF RecordOK, Whole
<1>6. Listed(claims \o more)
  BY <1>3, <1>4, ListedTogether
<1>7. QED
  BY <1>5, <1>6, RecordKept

\* What the rows are asked about does not depend on the claims.
LEMMA SameReach ==
  ASSUME NEW g, NEW a, NEW b, a.declared = b.declared
  PROVE  ReachOf(g, a) = ReachOf(g, b)
BY DEF ReachOf

\* An empty answer tells of nothing.
LEMMA NothingTold ==
  ASSUME feedback'.missing = {}, feedback'.found = <<>>, status' \notin {"accepted", "shown"}
  PROVE  FeedbackOK'
BY DEF FeedbackOK

\* The invariant holds at the start.
LEMMA SignStart == SignInit => SignInv
<1> SUFFICES ASSUME SignInit PROVE SignInv
  OBVIOUS
<1> USE DEF SignInit, Init
<1>1. scan \in Scans /\ record \in Records(scan)
  OBVIOUS
<1>2. RecordOK
  <2>1. Whole(record) /\ Keyable(record)
    BY <1>1, InputsAssumption DEF Keyable, Whole
  <2>2. \E X : record.claims \in Seq(X)
    BY <1>1, InputsAssumption
  <2>3. \A i \in DOMAIN record.claims : ClaimOK(record.claims[i])
    BY <1>1, ClaimsAssumption
  <2>4. QED
    BY <2>1, <2>2, <2>3 DEF RecordOK, Listed
<1>3. FeedbackOK
  BY DEF FeedbackOK, NoAnswer
<1>4. SlotOK /\ ScoreOK
  BY DEF SlotOK, ScoreOK, Empty
<1>5. QED
  BY <1>1, <1>2, <1>3, <1>4 DEF SignInv

\* What does not touch the record and the scan leaves them as they should be.
LEMMA RecordStays ==
  ASSUME SignInv, UNCHANGED <<scan, record>>
  PROVE  scan' \in Scans /\ RecordOK'
BY DEF SignInv, RecordOK, Whole, Keyable, Listed, ClaimOK

\* Until the run is over the slot is empty.
LEMMA SlotStays ==
  ASSUME SignInv, status # "closed", slot' = slot, score' = score,
         status' = "unsigned" => SchemaErrors(record') = {}
  PROVE  SlotOK' /\ ScoreOK'
BY DEF SignInv, SlotOK, ScoreOK, Empty

\* Mending a record keeps what its last answer says true.
LEMMA MendKeeps ==
  ASSUME SignInv, Mend, UNCHANGED <<slot, score>>
  PROVE  SignInv'
<1>1. status = "mending" /\ status' = "open" /\ UNCHANGED <<scan, feedback>>
  BY DEF Mend, MendSchema, MendFindings
<1>2. RecordOK' /\ record'.declared = record.declared
  BY MendSchemaKeeps, MendFindingsKeeps DEF SignInv, Mend
<1>3. ReachOf(scan', record') = ReachOf(scan, record)
  BY <1>1, <1>2, SameReach
<1>4. FeedbackOK'
  BY <1>1, <1>3 DEF SignInv, FeedbackOK
<1>5. SlotOK' /\ ScoreOK'
  BY <1>1, SlotStays
<1>6. QED
  BY <1>1, <1>2, <1>4, <1>5 DEF SignInv

\* Every step keeps the invariant.
LEMMA SignStep == SignInv /\ [SignNext]_signVars => SignInv'
<1> SUFFICES ASSUME SignInv, [SignNext]_signVars PROVE SignInv'
  OBVIOUS
<1>1. CASE Verified /\ HandleSubmit
  <2>1. /\ UNCHANGED <<scan, record, slot, score>> /\ status = "open" /\ status' # "unsigned"
        /\ feedback' = Answer(scan, record)
        /\ status' \in {"accepted", "shown"} => Accepted(feedback')
    BY <1>1 DEF Verified, HandleSubmit
  <2>2. FeedbackOK'
    BY <2>1, AnswerIs DEF FeedbackOK
  <2>3. QED
    BY <2>1, <2>2, RecordStays, SlotStays DEF SignInv
<1>2. CASE Verified /\ Mend
  BY <1>2, MendKeeps DEF Verified
<1>3. CASE Verified /\ Gate
  <2>1. UNCHANGED <<scan, record, slot, score, feedback>> /\ status = "accepted" /\ status' = "shown"
    BY <1>3 DEF Verified, Gate
  <2>2. FeedbackOK'
    BY <2>1 DEF SignInv, FeedbackOK
  <2>3. QED
    BY <2>1, <2>2, RecordStays, SlotStays DEF SignInv
<1>4. CASE BaselineSubmit
  <2>1. /\ UNCHANGED <<scan, record, slot, score>> /\ status = "open"
        /\ feedback'.missing = {} /\ feedback'.found = <<>>
        /\ status' \notin {"accepted", "shown"}
        /\ status' = "unsigned" => SchemaErrors(record') = {}
    BY <1>4 DEF BaselineSubmit, NoAnswer
  <2>2. QED
    BY <2>1, NothingTold, RecordStays, SlotStays DEF SignInv
<1>5. CASE BaselineMend
  BY <1>5, MendKeeps DEF BaselineMend
<1>6. CASE Sign
  <2>1. /\ UNCHANGED <<scan, record, score>> /\ status = "shown" /\ status' = "closed"
        /\ feedback'.missing = {} /\ feedback'.found = <<>>
    BY <1>6 DEF Sign, Over, NoAnswer
  <2>2. PICK d \in Decisions(record) :
          IF d.approved THEN Rendered(record, d.edits, {Checkpoint(record, d)})
          ELSE slot' = [Empty EXCEPT !.draft = {record}, !.point = {Checkpoint(record, d)}, !.stop = "gate_rejected"]
    BY <1>6 DEF Sign
  <2>3. \A p \in slot'.point, rec \in slot'.record : p = Checkpoint(record, d) /\ rec = Publish(record, d.edits)
    <3>1. CASE d.approved
      BY <2>2, <3>1 DEF Rendered
    <3>2. CASE ~d.approved
      BY <2>2, <3>2 DEF Empty
    <3>3. QED
      BY <3>1, <3>2
  <2>4. \A rec \in slot'.record \cup slot'.draft : rec.claims = record.claims
    <3>1. CASE d.approved
      BY <2>2, <3>1 DEF Rendered, Publish
    <3>2. CASE ~d.approved
      <4>1. slot' = [record |-> {}, draft |-> {record}, point |-> {Checkpoint(record, d)}, stop |-> "gate_rejected"]
        BY <2>2, <3>2 DEF Empty
      <4>2. slot'.record = {} /\ slot'.draft = {record}
        BY <4>1
      <4>3. QED
        BY <4>2
    <3>3. QED
      BY <3>1, <3>2
  <2>5. SchemaErrors(record) = {}
    <3>1. feedback = Answer(scan, record) /\ Accepted(feedback)
      BY <2>1 DEF SignInv, FeedbackOK
    <3>2. QED
      BY <3>1 DEF Answer, Accepted
  <2>6. SlotOK'
    BY <2>1, <2>2, <2>3, <2>4, <2>5 DEF SlotOK
  <2>7. ScoreOK'
    BY <2>1 DEF SignInv, SlotOK, ScoreOK
  <2>8. QED
    BY <2>1, <2>6, <2>7, NothingTold, RecordStays DEF SignInv
<1>7. CASE HandOver
  <2>1. /\ UNCHANGED <<scan, record, score>> /\ status = "unsigned" /\ status' = "closed"
        /\ slot'.point = {} /\ slot'.record = {Publish(record, <<>>)} /\ slot'.draft = {}
        /\ feedback'.missing = {} /\ feedback'.found = <<>>
    BY <1>7 DEF HandOver, Over, NoAnswer, Rendered
  <2>2. SlotOK' /\ ScoreOK'
    BY <2>1 DEF SignInv, SlotOK, ScoreOK, Publish
  <2>3. QED
    BY <2>1, <2>2, NothingTold, RecordStays DEF SignInv
<1>8. CASE GiveUp
  <2>1. /\ UNCHANGED <<scan, score>> /\ status # "closed" /\ status' = "closed"
        /\ slot'.point = {} /\ slot'.record = {} /\ slot'.draft = {}
        /\ feedback'.missing = {} /\ feedback'.found = <<>>
        /\ record' = [claims |-> <<>>, declared |-> {}, retention |-> {}, flaws |-> {}]
    BY <1>8 DEF GiveUp, Over, NoAnswer, Empty
  <2>2. SlotOK' /\ ScoreOK'
    BY <2>1 DEF SignInv, SlotOK, ScoreOK
  <2>3. RecordOK'
    <3>1. Whole(record)' /\ record'.claims = <<>> /\ record'.declared = {}
      BY <2>1 DEF Whole
    <3>2. IsFiniteSet({}) /\ <<>> \in Seq({})
      BY FS_EmptySet
    <3>3. QED
      BY <3>1, <3>2 DEF RecordOK, Keyable, Listed
  <2>4. QED
    BY <2>1, <2>2, <2>3, NothingTold DEF SignInv
<1>9. CASE FinishCell
  <2>1. UNCHANGED <<scan, record, feedback, status, slot>> /\ status = "closed"
    BY <1>9 DEF FinishCell
  <2>2. FeedbackOK' /\ SlotOK'
    BY <2>1 DEF SignInv, FeedbackOK, SlotOK
  <2>3. ScoreOK'
    BY <1>9, <2>1 DEF FinishCell, ScoreOK
  <2>4. QED
    BY <2>1, <2>2, <2>3, RecordStays DEF SignInv
<1>10. CASE UNCHANGED signVars
  <2>1. UNCHANGED <<scan, record, feedback, status, slot, score>>
    BY <1>10 DEF signVars, vars
  <2>2. FeedbackOK' /\ SlotOK' /\ ScoreOK'
    BY <2>1 DEF SignInv, FeedbackOK, SlotOK, ScoreOK
  <2>3. QED
    BY <2>1, <2>2, RecordStays DEF SignInv
<1>11. QED
  BY <1>1, <1>2, <1>3, <1>4, <1>5, <1>6, <1>7, <1>8, <1>9, <1>10 DEF SignNext, Verified, Next

\* Scan, record, feedback and slot stay consistent with one another, whoever edits what.
THEOREM SignConsistent == SignSpec => []SignInv
<1>1. SignInit => SignInv
  BY SignStart
<1>2. SignInv /\ [SignNext]_signVars => SignInv'
  BY SignStep
<1>3. QED
  BY <1>1, <1>2, PTL DEF SignSpec
-----------------------------------------------------------------------------
(* The theorems.                                                             *)

\* An accepted answer lets no claim that rows go stand without the store that backs it.
LEMMA AcceptedMatches ==
  ASSUME NEW g \in Scans, NEW rec, Listed(rec.claims), NEW f, f = Answer(g, rec), Accepted(f),
         NEW i \in DOMAIN rec.claims, rec.claims[i].verdict \in Reaching
  PROVE  /\ i \in DOMAIN f.matched /\ f.matched[i] \in DOMAIN g.stores
         /\ \E claimed : ~Contradicts(rec.claims[i].verdict, Decide(ReachOf(g, rec), f.matched[i], claimed).verdict)
<1> DEFINE r == ReachOf(g, rec)
           matched == Matched(g, rec.claims)
           facts == VerdictsOf(r, rec, matched)
<1>1. SchemaErrors(rec) = {}
  BY DEF Answer, Accepted
<1>2. f = Checked(g, rec)
  BY <1>1 DEF Answer
<1>3. f.matched = matched
  BY <1>2 DEF Checked
<1>4. (IF i \in DOMAIN matched THEN Rejections(rec.claims[i], facts[matched[i]]) ELSE Uncorroborated(rec.claims[i])) = {}
  BY <1>2 DEF Checked, Accepted
<1>5. i \in DOMAIN matched
  BY <1>4 DEF Uncorroborated
<1>6. Matching(matched, g, Len(rec.claims))
  <2>1. Len(rec.claims) \in Nat
    BY DEF Listed
  <2>2. QED
    BY <2>1, InputsAssumption, MatchedIs
<1>7. matched[i] \in DOMAIN g.stores
  BY <1>5, <1>6 DEF Matching
<1>8. ~Contradicts(rec.claims[i].verdict, facts[matched[i]].verdict)
  BY <1>4, <1>5 DEF Rejections
<1>9. \E claimed : facts[matched[i]] = Decide(r, matched[i], claimed)
  <2>1. r.scan = g
    BY DEF ReachOf, NewReach
  <2> HIDE DEF r, matched
  <2>2. QED
    BY <1>7, <2>1 DEF VerdictsOf
<1> HIDE DEF facts, matched, r
<1>10. QED
  BY <1>3, <1>5, <1>7, <1>8, <1>9 DEF r

\* What a person is asked to approve is backed: of an accepted record every claim that rows go
\* is about a store of the scan and rests on a walk from something the repository lets a
\* person, or its own schedule, in by, and no store that says personal data is left out.
THEOREM BackedAlways == SignSpec => []AcceptedIsBacked
<1>1. SignInv => AcceptedIsBacked
  <2> SUFFICES ASSUME SignInv, status \in {"accepted", "shown"}
               PROVE  LET r == ReachOf(scan, record)
                      IN  /\ Missing(scan, feedback.matched) = {}
                          /\ \A i \in DOMAIN record.claims :
                               record.claims[i].verdict \in Reaching =>
                                 /\ i \in DOMAIN feedback.matched
                                 /\ Backed(r, feedback.matched[i], record.claims[i].verdict)
    BY DEF AcceptedIsBacked
  <2> DEFINE r == ReachOf(scan, record)
  <2>1. /\ scan \in Scans /\ Keyable(record) /\ Listed(record.claims)
        /\ feedback = Answer(scan, record) /\ Accepted(feedback)
    BY DEF SignInv, RecordOK, FeedbackOK
  <2>2. WellMade(r)
    BY <2>1, ReachOfIs
  <2>3. Missing(scan, feedback.matched) = {}
    <3>1. SchemaErrors(record) = {}
      BY <2>1 DEF Answer, Accepted
    <3>2. feedback = Checked(scan, record)
      BY <2>1, <3>1 DEF Answer
    <3>3. feedback.missing = Missing(scan, feedback.matched)
      BY <3>2 DEF Checked
    <3>4. QED
      BY <2>1, <3>3 DEF Accepted
  <2>4. ASSUME NEW i \in DOMAIN record.claims, record.claims[i].verdict \in Reaching
        PROVE  /\ i \in DOMAIN feedback.matched
               /\ Backed(r, feedback.matched[i], record.claims[i].verdict)
    <3> DEFINE s == feedback.matched[i]
               verdict == record.claims[i].verdict
    <3>1. i \in DOMAIN feedback.matched
          /\ \E claimed : ~Contradicts(verdict, Decide(r, s, claimed).verdict)
      BY <2>1, <2>4, AcceptedMatches
    <3>2. PICK claimed : ~Contradicts(verdict, Decide(r, s, claimed).verdict)
      BY <3>1
    <3> HIDE DEF r
    <3>3. Backed(r, s, verdict)
      BY <2>2, <2>4, <3>2, FoundIsBacked
    <3>4. QED
      BY <3>1, <3>3
  <2>5. QED
    BY <2>3, <2>4
<1>2. QED
  BY <1>1, SignConsistent, PTL

\* Columns the scan saw are all blanked wherever more than those of them are.
LEMMA FewerColumns ==
  ASSUME NEW r, NEW s, NEW claimed, r.scan.stores[s].columns # {},
         Classify(r, s, claimed).verdict = "anonymised"
  PROVE  Classify(r, s, {}).verdict = "anonymised"
<1> DEFINE writes == WritesFor(r, s, r.starts)
           over == {w \in writes : w.kind # "marker"}
           Blanks(c) == \E w \in over : w.column = c /\ w.kind = "constant"
<1>1. /\ over # {} /\ ~KeySurvives(r, s, over)
      /\ \A c \in Columns(r, s, claimed) : Blanks(c)
  BY DEF Classify
<1>2. /\ Columns(r, s, {}) # {} /\ Columns(r, s, {}) \subseteq Columns(r, s, claimed)
  BY DEF Columns
<1>3. \A c \in Columns(r, s, {}) : Blanks(c)
  BY <1>1, <1>2
<1>4. QED
  BY <1>1, <1>2, <1>3 DEF Classify

\* A verdict that rows go would have been one without the record's columns.
LEMMA ColumnsOnlyLower ==
  ASSUME NEW r, NEW s, NEW claimed, r.scan.stores[s].columns # {},
         Decide(r, s, claimed).verdict \in Reaching
  PROVE  Decide(r, s, {}).verdict \in Reaching
<1> DEFINE hit == Reached(r, s, TRUE, Excluded(r, s))
           loose == Reached(r, s, FALSE, Excluded(r, s))
           timer == Timer(r, s)
           marks == Classify(r, s, claimed)
           bare == Classify(r, s, {})
           evidence == {w.symbol : w \in WritesFor(r, s, r.starts)} \cup UNION {t.job.symbol : t \in timer}
           row == Rows(r, s, hit, loose, timer, marks)
           less == Rows(r, s, hit, loose, timer, bare)
<1>1. marks.writes = WritesFor(r, s, r.starts) /\ bare.writes = WritesFor(r, s, r.starts)
  BY DEF Classify
<1>2. CASE r.scan.stores[s].kind \in {"backup", "third_party"} \/ r.entries = <<>>
  BY <1>2 DEF Decide, Found
<1>3. CASE ~(r.scan.stores[s].kind \in {"backup", "third_party"} \/ r.entries = <<>>)
  <2>1. Decide(r, s, claimed).verdict = IF row \in Reaching /\ Capped(r, s, hit, evidence) THEN "unverified" ELSE row
    BY <1>1, <1>3 DEF Decide, Found
  <2>2. Decide(r, s, {}).verdict = IF less \in Reaching /\ Capped(r, s, hit, evidence) THEN "unverified" ELSE less
    BY <1>1, <1>3 DEF Decide, Found
  <2>3. row \in Reaching /\ ~Capped(r, s, hit, evidence)
    BY <2>1 DEF Reaching
  <2>4. less \in Reaching
    <3>1. marks.verdict = "anonymised" => bare.verdict = "anonymised"
      BY FewerColumns
    <3> HIDE DEF marks, bare, hit, loose, timer
    <3>2. CASE hit # {}
      BY <2>3, <3>2 DEF Rows
    <3>3. CASE hit = {}
      BY <2>3, <3>1, <3>3 DEF Rows, Reaching
    <3>4. QED
      BY <3>2, <3>3
  <2>5. QED
    BY <2>2, <2>3, <2>4
<1>4. QED
  BY <1>2, <1>3

\* The columns a record names can take a store's erasure away and never earn it one.
THEOREM ColumnsOnlyLowerAlways == SignSpec => []ColumnsNeverRaise
<1>1. SignInv => ColumnsNeverRaise
  <2> SUFFICES ASSUME SignInv, NEW s \in DOMAIN feedback.found,
                      scan.stores[s].columns # {}, feedback.found[s].verdict \in Reaching
               PROVE  Decide(ReachOf(scan, record), s, {}).verdict \in Reaching
    BY DEF ColumnsNeverRaise
  <2> DEFINE r == ReachOf(scan, record)
  <2>1. PICK claimed : feedback.found[s] = Decide(r, s, claimed)
    BY DEF SignInv, FeedbackOK
  <2>2. r.scan = scan
    BY DEF ReachOf, NewReach
  <2> HIDE DEF r
  <2>3. Decide(r, s, {}).verdict \in Reaching
    BY <2>1, <2>2, ColumnsOnlyLower
  <2>4. QED
    BY <2>3 DEF r
<1>2. QED
  BY <1>1, SignConsistent, PTL

\* What the passes make of a function that nothing runs: at most an unscheduled task.
LEMMA NothingRunsIsUnscheduled ==
  ASSUME NEW c, NEW e \in Discover(c), "unscheduled" \notin e.flags, NEW x \in e.symbol
  PROVE  ~NothingRuns(c, x)
<1> SUFFICES ASSUME NothingRuns(c, x) PROVE FALSE
  OBVIOUS
<1> DEFINE routes == Routes(c)
           rules == routes \cup UrlRules(c, Claimed(routes)) \cup Viewsets(c)
           views == rules \cup UrlPatterns(c, Claimed(rules)) \cup DeleteViews(c)
           commands == views \cup BaseCommands(c) \cup Clicks(c)
           tasks == commands \cup Tasks(c, Claimed(commands))
<1>1. /\ DecoratedAs(c, x, "task") # {} /\ c.functions[x].owner = {}
      /\ \A d \in c.functions[x].decorators : d.kind = "task" /\ ~d.periodic
      /\ TaskNames(c, x) \cap (c.schedules \cup UNION {site.names : site \in c.sites}) = {}
      /\ \A site \in c.sites : x \notin ViewSymbol(c, site.view)
  BY DEF NothingRuns
<1>2. \A call : Views(c, call, x) = {}
  BY <1>1 DEF Views
<1>3. e \notin routes
  BY <1>1 DEF Routes, EntryPoint, DecoratedAs
<1>4. e \notin UrlRules(c, Claimed(routes)) /\ e \notin UrlPatterns(c, Claimed(rules))
  <2> HIDE DEF routes, rules
  <2>1. QED
    BY <1>2 DEF UrlRules, UrlPatterns, EntryPoint
<1>5. e \notin Viewsets(c)
  BY <1>1 DEF Viewsets, InClass, EntryPoint
<1>6. e \notin DeleteViews(c)
  BY <1>1 DEF DeleteViews, ClassEntry, EntryPoint
<1>7. e \notin BaseCommands(c)
  <2> DEFINE Handle(k) == {y \in DOMAIN c.functions : c.functions[y].owner = {k} /\ c.functions[y].method = "handle"}
  <2>1. ASSUME e \in BaseCommands(c) PROVE FALSE
    <3>1. PICK k \in DOMAIN c.classes :
            e = [ClassEntry(c.classes[k], c.classes[k].name, "cli", "BaseCommand_subclass") EXCEPT !.symbol = Handle(k)]
      BY <2>1 DEF BaseCommands
    <3> HIDE DEF Handle
    <3>2. e.symbol = Handle(k)
      BY <3>1 DEF ClassEntry
    <3>3. QED
      BY <1>1, <3>2 DEF Handle
  <2>2. QED
    BY <2>1
<1>8. e \notin Clicks(c)
  BY <1>1 DEF Clicks, EntryPoint, DecoratedAs
<1>9. e \notin AdminEntries(c)
  BY DEF AdminEntries
<1>10. e \notin Tasks(c, Claimed(commands))
  <2> HIDE DEF commands
  <2>1. \A d \in DecoratedAs(c, x, "task") : ~ScheduleEvidence(c, x, d)
    BY <1>1 DEF ScheduleEvidence, DecoratedAs
  <2>2. ASSUME e \in Tasks(c, Claimed(commands)) PROVE FALSE
    <3>1. PICK y \in DOMAIN c.functions :
            e = EntryPoint(c, y, "task",
                  {"task_decorator",
                   IF \E d \in DecoratedAs(c, y, "task") : ScheduleEvidence(c, y, d)
                     THEN "schedule_registered" ELSE "unscheduled"})
      BY <2>2 DEF Tasks
    <3>2. y = x
      BY <3>1 DEF EntryPoint
    <3>3. "unscheduled" \in e.flags
      BY <2>1, <3>1, <3>2 DEF EntryPoint
    <3>4. QED
      BY <3>3
  <2>3. QED
    BY <2>2
<1>11. e \in Unclaimed(c, Claimed(tasks))
  <2>1. e \in tasks \cup AdminEntries(c) \cup Unclaimed(c, Claimed(tasks))
    BY Zenon DEF Discover
  <2>2. QED
    BY <1>3, <1>4, <1>5, <1>6, <1>7, <1>8, <1>9, <1>10, <2>1
<1>12. x \in DOMAIN c.functions /\ c.functions[x].vocabulary /\ x \notin Claimed(tasks)
  <2> HIDE DEF tasks
  <2>1. QED
    BY <1>11 DEF Unclaimed, EntryPoint
<1>13. x \in Claimed(tasks)
  <2>1. CASE x \in Claimed(commands)
    <3> HIDE DEF commands
    <3>1. QED
      BY <2>1 DEF Claimed
  <2>2. CASE x \notin Claimed(commands)
    <3> HIDE DEF commands
    <3> DEFINE mine == EntryPoint(c, x, "task",
                         {"task_decorator",
                          IF \E d \in DecoratedAs(c, x, "task") : ScheduleEvidence(c, x, d)
                            THEN "schedule_registered" ELSE "unscheduled"})
    <3>0. mine \in Tasks(c, Claimed(commands))
      BY <1>1, <1>12, <2>2 DEF Tasks
    <3>1. \E t \in Tasks(c, Claimed(commands)) : t.symbol = {x}
      BY <3>0 DEF EntryPoint
    <3>2. QED
      BY <3>1 DEF Claimed
  <2>3. QED
    BY <2>1, <2>2
<1>14. QED
  BY <1>12, <1>13

\* No walk begins at a job that nothing runs, whichever passes looked at it.
THEOREM UnscheduledStaysOutAlways == SignSpec => []UnscheduledStaysOut
<1>1. SignInv => UnscheduledStaysOut
  <2> SUFFICES ASSUME SignInv, NEW e \in Members(Starts(scan.entries)), NEW x \in e.symbol
               PROVE  ~NothingRuns(scan.code, x)
    BY DEF UnscheduledStaysOut
  <2>1. scan \in Scans
    BY DEF SignInv
  <2>2. scan.entries \in Seq(Discover(scan.code))
    BY <2>1, InOrderIs, InputsAssumption
  <2>3. e \in Members(scan.entries) /\ "unscheduled" \notin e.flags
    BY DEF Starts, Keep, Members
  <2>4. e \in Discover(scan.code)
    BY <2>2, <2>3 DEF Members
  <2>5. QED
    BY <2>3, <2>4, NothingRunsIsUnscheduled
<1>2. QED
  BY <1>1, SignConsistent, PTL

\* A key that is edited is a recipient's name without a dot, whatever the file held.
LEMMA EditsAreRecipients ==
  ASSUME NEW rec, NEW d \in Decisions(rec)
  PROVE  \A n \in DOMAIN d.edits : n \in Parties(rec) /\ ~Spelled[n].dotted
<1>1. \A typed : \A n \in DOMAIN AskRecipients(rec, typed) : n \in Parties(rec) /\ ~Spelled[n].dotted
  BY DEF AskRecipients, Only
<1>2. \A raw : \A n \in DOMAIN ValidateEdits(rec, raw) : n \in Parties(rec) /\ ~Spelled[n].dotted
  BY DEF ValidateEdits, Only
<1>3. \/ d.edits = <<>>
      \/ \E typed : d.edits = AskRecipients(rec, typed)
      \/ \E raw : d.edits = ValidateEdits(rec, raw)
  BY DEF Decisions
<1>4. QED
  BY <1>1, <1>2, <1>3

\* The checkpoint says of the edits what they are, where their keys are all of their name.
LEMMA CompletionsAreEdits ==
  ASSUME NEW edits, \A n \in DOMAIN edits : Spelled[n].head = n
  PROVE  /\ DOMAIN HumanCompletions(edits) = DOMAIN edits
         /\ \A n \in DOMAIN edits : HumanCompletions(edits)[n] = edits[n]
<1>1. DOMAIN HumanCompletions(edits) = DOMAIN edits
  BY DEF HumanCompletions
<1>2. ASSUME NEW n \in DOMAIN edits PROVE HumanCompletions(edits)[n] = edits[n]
  <2> DEFINE k == CHOOSE m \in DOMAIN edits : Spelled[m].head = n
  <2>1. k \in DOMAIN edits /\ Spelled[k].head = n
    OBVIOUS
  <2>2. k = n
    BY <2>1
  <2>3. HumanCompletions(edits)[n] = edits[k]
    BY DEF HumanCompletions
  <2>4. QED
    BY <2>2, <2>3
<1>3. QED
  BY <1>1, <1>2

\* What a person set at the gate is what the checkpoint says they set and what is published,
\* store by store; the rest of the record is what was accepted and shown.
THEOREM SignedIsShownAlways == SignSpec => []SignedIsShown
<1>1. SignInv => SignedIsShown
  <2> SUFFICES ASSUME SignInv, NEW p \in slot.point, NEW rec \in slot.record
               PROVE  /\ rec.claims = record.claims /\ rec.declared = record.declared
                      /\ \A i \in DOMAIN rec.claims :
                           LET n == rec.claims[i].name
                           IN  rec.recipients[i] =
                                 (IF n \in DOMAIN p.completions THEN p.completions[n]
                                  ELSE IF rec.claims[i].kind = "third_party" THEN "unknown" ELSE "none")
                      /\ \A n \in DOMAIN p.completions : n \in Parties(rec)
    BY DEF SignedIsShown
  <2>1. PICK d \in Decisions(record) : p = Checkpoint(record, d) /\ rec = Publish(record, d.edits)
    BY DEF SignInv, SlotOK
  <2> DEFINE edits == d.edits
  <2>2. /\ rec.claims = record.claims /\ rec.declared = record.declared
        /\ rec.recipients = Recipients(record, edits)
        /\ p.completions = HumanCompletions(edits)
    BY <2>1 DEF Publish, Checkpoint
  <2>3. \A n \in DOMAIN edits : n \in Parties(record) /\ ~Spelled[n].dotted
    BY <2>1, EditsAreRecipients
  <2>4. \A n \in Parties(record) : n \in DOMAIN Spelled
    BY DEF SignInv, RecordOK, Listed, ClaimOK, Parties
  <2>5. \A n \in DOMAIN edits : Spelled[n].head = n
    BY <2>3, <2>4, ClaimsAssumption
  <2> HIDE DEF edits
  <2>6. /\ DOMAIN p.completions = DOMAIN edits
        /\ \A n \in DOMAIN edits : p.completions[n] = edits[n]
    BY <2>2, <2>5, CompletionsAreEdits
  <2>7. ASSUME NEW i \in DOMAIN record.claims, NEW n, n = record.claims[i].name
        PROVE  rec.recipients[i] =
                 (IF n \in DOMAIN p.completions THEN p.completions[n]
                  ELSE IF record.claims[i].kind = "third_party" THEN "unknown" ELSE "none")
    BY <2>2, <2>3, <2>6, <2>7 DEF Recipients
  <2>8. Parties(rec) = Parties(record)
    BY <2>2 DEF Parties
  <2>9. QED
    BY <2>2, <2>3, <2>6, <2>7, <2>8
<1>2. QED
  BY <1>1, SignConsistent, PTL
-----------------------------------------------------------------------------
(* The score: score.py of what is published, and of the draft that is not.   *)

\* What one row of a record or of a manifest says of a field.
RowOf(store, col) ==
  [reaches |-> VerdictOf(store, col) \in Reaching /\ ~Invalid(store, col), verdict |-> VerdictOf(store, col)]

\* The key a field is scored under.
RowKey(stores, ctx, r) == <<StoreKey(stores[r[1]].name, ctx), r[2]>>

FieldRows(stores) == UNION {{<<i, col>> : col \in stores[i].columns} : i \in DOMAIN stores}

FirstRows(stores, ctx) ==
  {r \in FieldRows(stores) : \A q \in FieldRows(stores) : RowKey(stores, ctx, q) = RowKey(stores, ctx, r) => r[1] <= q[1]}

\* A row is a store and one of its columns.
LEMMA RowsAre ==
  ASSUME NEW stores
  PROVE  /\ \A i \in DOMAIN stores : \A col \in stores[i].columns : <<i, col>> \in FieldRows(stores)
         /\ \A r \in FieldRows(stores) :
              r = <<r[1], r[2]>> /\ r[1] \in DOMAIN stores /\ r[2] \in stores[r[1]].columns
BY DEF FieldRows

\* What _extract makes of stores, in these words.
LEMMA ExtractIs ==
  ASSUME NEW stores, NEW ctx
  PROVE  /\ DOMAIN Extract(stores, ctx).tuples = {RowKey(stores, ctx, r) : r \in FieldRows(stores)}
         /\ \A k \in DOMAIN Extract(stores, ctx).tuples :
              \E q : /\ q = CHOOSE r \in FirstRows(stores, ctx) : RowKey(stores, ctx, r) = k
                    /\ Extract(stores, ctx).tuples[k] = RowOf(stores[q[1]], q[2])
         /\ \A r \in FieldRows(stores) \ FirstRows(stores, ctx) :
              RowKey(stores, ctx, r) \in Extract(stores, ctx).duplicates
BY DEF Extract, RowOf, RowKey, FieldRows, FirstRows

\* A field with two rows has its first one scored; the other shows as a duplicate.
LEMMA ExtractRow ==
  ASSUME NEW stores, NEW ctx, DOMAIN stores \subseteq Nat,
         NEW i \in DOMAIN stores, NEW col \in stores[i].columns,
         NEW k, k = <<StoreKey(stores[i].name, ctx), col>>
  PROVE  /\ k \in DOMAIN Extract(stores, ctx).tuples
         /\ \/ Extract(stores, ctx).tuples[k] = RowOf(stores[i], col)
            \/ /\ k \in Extract(stores, ctx).duplicates
               /\ \E j \in DOMAIN stores : j < i /\ StoreKey(stores[j].name, ctx) = StoreKey(stores[i].name, ctx)
<1> DEFINE r == <<i, col>>
           firsts == FirstRows(stores, ctx)
           Under(q) == RowKey(stores, ctx, q)
<1>1. r \in FieldRows(stores) /\ Under(r) = k
  BY RowsAre DEF RowKey
<1>2. k \in DOMAIN Extract(stores, ctx).tuples
  BY <1>1, ExtractIs
<1>3. CASE r \in firsts
  <2>1. PICK q \in firsts : Under(q) = k /\ Extract(stores, ctx).tuples[k] = RowOf(stores[q[1]], q[2])
    BY <1>1, <1>2, <1>3, ExtractIs
  <2>2. q \in FieldRows(stores) /\ q[1] <= r[1] /\ r[1] <= q[1]
    BY <1>1, <1>3, <2>1 DEF FirstRows
  <2>3. q[1] \in Nat /\ r[1] = i
    BY <2>2, RowsAre
  <2>4. q[1] = i
    BY <2>2, <2>3
  <2>5. q[2] = col
    BY <2>1 DEF RowKey
  <2>6. QED
    BY <1>2, <2>1, <2>4, <2>5
<1>4. CASE r \notin firsts
  <2>1. k \in Extract(stores, ctx).duplicates
    BY <1>1, <1>4, ExtractIs
  <2>2. PICK q \in FieldRows(stores) : Under(q) = Under(r) /\ ~(r[1] <= q[1])
    BY <1>1, <1>4 DEF FirstRows
  <2>3. q[1] \in DOMAIN stores /\ r[1] = i
    BY <2>2, RowsAre
  <2>4. q[1] < i
    BY <2>2, <2>3
  <2>5. StoreKey(stores[q[1]].name, ctx) = StoreKey(stores[i].name, ctx)
    BY <2>2 DEF RowKey
  <2>6. QED
    BY <1>2, <2>1, <2>3, <2>4, <2>5
<1>5. QED
  BY <1>3, <1>4

\* What is scored under a key is a row of that key.
LEMMA ExtractKey ==
  ASSUME NEW stores, NEW ctx, DOMAIN stores \subseteq Nat, NEW k \in DOMAIN Extract(stores, ctx).tuples
  PROVE  \E i \in DOMAIN stores : \E col \in stores[i].columns :
            /\ k = <<StoreKey(stores[i].name, ctx), col>>
            /\ Extract(stores, ctx).tuples[k] = RowOf(stores[i], col)
<1> DEFINE firsts == FirstRows(stores, ctx)
           Under(q) == RowKey(stores, ctx, q)
           some == {q[1] : q \in {q \in FieldRows(stores) : Under(q) = k}}
<1>1. PICK p \in FieldRows(stores) : Under(p) = k
  BY ExtractIs
<1>2. some \subseteq Nat /\ some # {}
  BY <1>1, RowsAre
<1>3. PICK x \in some : \A y \in some : x <= y
  BY <1>2, Least
<1>4. PICK f \in FieldRows(stores) : Under(f) = k /\ f[1] = x
  BY <1>3
<1>5. f \in firsts
  BY <1>3, <1>4 DEF FirstRows
<1>6. PICK q \in firsts : Under(q) = k /\ Extract(stores, ctx).tuples[k] = RowOf(stores[q[1]], q[2])
  BY <1>4, <1>5, ExtractIs
<1>8. q \in FieldRows(stores)
  BY <1>6 DEF FirstRows
<1>9. q[1] \in DOMAIN stores /\ q[2] \in stores[q[1]].columns
  BY <1>8, RowsAre
<1>10. k = <<StoreKey(stores[q[1]].name, ctx), q[2]>>
  BY <1>6 DEF RowKey
<1>11. QED
  BY <1>6, <1>9, <1>10

\* Finitely many stores of finitely many columns have finitely many fields.
LEMMA ExtractIsFinite ==
  ASSUME NEW stores, NEW ctx, IsFiniteSet(DOMAIN stores), \A i \in DOMAIN stores : IsFiniteSet(stores[i].columns)
  PROVE  IsFiniteSet(DOMAIN Extract(stores, ctx).tuples)
<1> DEFINE Under(r) == RowKey(stores, ctx, r)
           Of(i) == {<<i, col>> : col \in stores[i].columns}
<1>1. \A i \in DOMAIN stores : IsFiniteSet(Of(i))
  <2> TAKE i \in DOMAIN stores
  <2> DEFINE f == [col \in stores[i].columns |-> <<i, col>>]
  <2>1. f \in Surjection(stores[i].columns, Of(i))
    BY DEF Surjection
  <2>2. QED
    BY <2>1, FS_Surjection
<1>2. IsFiniteSet({Of(i) : i \in DOMAIN stores})
  <2> DEFINE f == [i \in DOMAIN stores |-> Of(i)]
  <2>1. f \in Surjection(DOMAIN stores, {Of(i) : i \in DOMAIN stores})
    BY DEF Surjection
  <2>2. QED
    BY <2>1, FS_Surjection
<1>3. IsFiniteSet(FieldRows(stores))
  BY <1>1, <1>2, FS_UNION DEF FieldRows
<1>4. IsFiniteSet({Under(r) : r \in FieldRows(stores)})
  <2> DEFINE f == [r \in FieldRows(stores) |-> Under(r)]
  <2>1. f \in Surjection(FieldRows(stores), {Under(r) : r \in FieldRows(stores)})
    BY DEF Surjection
  <2>2. QED
    BY <1>3, <2>1, FS_Surjection
<1>5. QED
  BY <1>4, ExtractIs
\* The name of a store of the case is one the case knows.
LEMMA TruthIsKnown ==
  ASSUME NEW m, NEW j \in DOMAIN m.stores
  PROVE  StoreKey(m.stores[j].name, Context(m)) \in Context(m).known
BY DEF Context, StoreKey, Norm

\* The file store a line belongs to is one of the case that cites it.
LEMMA FileOfLine ==
  ASSUME NEW m, NEW cite \in DOMAIN Context(m).files
  PROVE  \E j \in DOMAIN m.stores : /\ m.stores[j].at = cite /\ cite # {} /\ Spelled[m.stores[j].name].dotted
                                    /\ Context(m).files[cite] = m.stores[j].name
<1> DEFINE stores == m.stores
           files == {i \in DOMAIN stores :
                       /\ stores[i].at # {} /\ Spelled[stores[i].name].dotted
                       /\ \A j \in 1..(i - 1) : ~(Spelled[stores[j].name].dotted /\ stores[j].at = stores[i].at)}
<1>1. Context(m).files = [c \in {stores[i].at : i \in files} |-> stores[CHOOSE i \in files : stores[i].at = c].name]
  BY DEF Context
<1>2. \A i \in files : i \in DOMAIN stores /\ stores[i].at # {} /\ Spelled[stores[i].name].dotted
  OBVIOUS
<1> HIDE DEF files
<1>3. \E i \in files : stores[i].at = cite
  BY <1>1
<1> DEFINE j == CHOOSE i \in files : stores[i].at = cite
<1>4. j \in files /\ stores[j].at = cite
  BY <1>3
<1>5. Context(m).files[cite] = stores[j].name
  BY <1>1
<1>6. QED
  BY <1>2, <1>4, <1>5

\* A claim of a name the case knows keeps it; one that gets another is told by its line, and
\* gets a name that no claim of the record has.
LEMMA RekeyedIs ==
  ASSUME NEW stores, NEW ctx, NEW i \in DOMAIN stores, ClaimOK(stores[i])
  PROVE  /\ DOMAIN Rekeyed(stores, ctx) = DOMAIN stores
         /\ Rekeyed(stores, ctx)[i].columns = stores[i].columns
         /\ \A col : /\ VerdictOf(Rekeyed(stores, ctx)[i], col) = VerdictOf(stores[i], col)
                     /\ Invalid(Rekeyed(stores, ctx)[i], col) = Invalid(stores[i], col)
         /\ \/ Rekeyed(stores, ctx)[i] = stores[i]
            \/ /\ stores[i].at \in DOMAIN ctx.files
               /\ Rekeyed(stores, ctx)[i].name = ctx.files[stores[i].at]
               /\ StoreKey(stores[i].name, ctx) \notin ctx.known
               /\ \A j \in DOMAIN stores :
                    StoreKey(stores[j].name, ctx) # StoreKey(Rekeyed(stores, ctx)[i].name, ctx)
<1> DEFINE taken == {StoreKey(stores[j].name, ctx) : j \in DOMAIN stores}
           Candidate(j) == {ctx.files[cite] : cite \in {stores[j].at} \cap DOMAIN ctx.files}
           Fits(j) == {n \in Candidate(j) : StoreKey(stores[j].name, ctx) \notin ctx.known /\ StoreKey(n, ctx) \notin taken}
           Target(j) == {n \in Fits(j) : \A h \in 1..(j - 1) : \A o \in Fits(h) : StoreKey(o, ctx) # StoreKey(n, ctx)}
           c == stores[i]
           d == Rekeyed(stores, ctx)[i]
<1>1. Rekeyed(stores, ctx) =
        [j \in DOMAIN stores |->
           IF Target(j) # {} THEN [stores[j] EXCEPT !.name = CHOOSE n \in Target(j) : TRUE] ELSE stores[j]]
  BY DEF Rekeyed
<1>2. DOMAIN Rekeyed(stores, ctx) = DOMAIN stores
  BY <1>1
<1>3. CASE Target(i) = {}
  BY <1>1, <1>3
<1>4. CASE Target(i) # {}
  <2> DEFINE n == CHOOSE n \in Target(i) : TRUE
  <2>1. n \in Target(i)
    BY <1>4
  <2>2. /\ n = ctx.files[c.at] /\ c.at \in DOMAIN ctx.files
        /\ StoreKey(c.name, ctx) \notin ctx.known /\ StoreKey(n, ctx) \notin taken
    BY <2>1
  <2>3. d = [c EXCEPT !.name = n]
    BY <1>1, <1>4
  <2> HIDE DEF n, d, c, Target
  <2>4. DOMAIN c = ClaimFields
    BY DEF ClaimOK, c
  <2>5. /\ d.name = n /\ d.columns = c.columns /\ d.verdict = c.verdict /\ d.kind = c.kind
        /\ d.overrides = c.overrides
    BY <2>3, <2>4 DEF ClaimFields
  <2>6. \A col : VerdictOf(d, col) = VerdictOf(c, col) /\ Invalid(d, col) = Invalid(c, col)
    BY <2>5 DEF VerdictOf, Invalid
  <2>7. QED
    BY <1>2, <2>2, <2>5, <2>6 DEF d, c
<1>5. QED
  BY <1>3, <1>4

\* A record the schema has no error in gives no backup a verdict it cannot have.
LEMMA NothingInvalid ==
  ASSUME NEW rec, SchemaErrors(rec) = {}, NEW i \in DOMAIN rec.claims, NEW col
  PROVE  ~Invalid(rec.claims[i], col)
<1> DEFINE c == rec.claims[i]
<1>1. ClaimErrors(rec, i) = {}
  BY DEF SchemaErrors
<1> HIDE DEF c
<1>2. BlockErrors(c.kind, c.verdict, c.evidence # "none", c.timer) = {}
  BY <1>1 DEF ClaimErrors, c
<1>3. (c.kind = "backup") <=> (c.verdict \in BackupOnly)
  BY <1>2 DEF BlockErrors
<1>4. ASSUME NEW o \in DOMAIN c.overrides
      PROVE  (c.kind = "backup") <=> (c.overrides[o] \in BackupOnly)
  <2>1. BlockErrors(c.kind, c.overrides[o], o \in c.cited, o \in c.timed) = {}
    <3>1. ~("override" \in ClaimErrors(rec, i))
      BY <1>1
    <3>2. QED
      BY <3>1 DEF ClaimErrors, c
  <2>2. QED
    BY <2>1 DEF BlockErrors
<1>5. QED
  BY <1>3, <1>4 DEF Invalid, VerdictOf, c

\* A manifest says of a field what its one store of the key says.
LEMMA TruthIs ==
  ASSUME NEW g \in Scans, NEW m \in Manifests(g), NEW truth, truth = Extract(m.stores, Context(m)).tuples
  PROVE  /\ IsFiniteSet(DOMAIN truth)
         /\ \A j \in DOMAIN m.stores : \A col \in m.stores[j].columns :
              LET k == <<StoreKey(m.stores[j].name, Context(m)), col>>
              IN  k \in DOMAIN truth /\ truth[k] = RowOf(m.stores[j], col)
         /\ \A k \in DOMAIN truth : \E j \in DOMAIN m.stores : \E col \in m.stores[j].columns :
              k = <<StoreKey(m.stores[j].name, Context(m)), col>> /\ truth[k] = RowOf(m.stores[j], col)
<1> DEFINE Stored(j) == StoreKey(m.stores[j].name, Context(m))
<1>1. /\ IsFiniteSet(DOMAIN m.stores) /\ DOMAIN m.stores \subseteq Nat
      /\ \A j \in DOMAIN m.stores : IsFiniteSet(m.stores[j].columns)
      /\ \A i, j \in DOMAIN m.stores : Stored(i) = Stored(j) => i = j
  BY ManifestsAssumption
<1>2. IsFiniteSet(DOMAIN truth)
  BY <1>1, ExtractIsFinite
<1>3. ASSUME NEW k \in DOMAIN truth
      PROVE  \E j \in DOMAIN m.stores : \E col \in m.stores[j].columns : k = <<Stored(j), col>> /\ truth[k] = RowOf(m.stores[j], col)
  BY <1>1, ExtractKey
<1>4. ASSUME NEW j \in DOMAIN m.stores, NEW col \in m.stores[j].columns, NEW k, k = <<Stored(j), col>>
      PROVE  k \in DOMAIN truth /\ truth[k] = RowOf(m.stores[j], col)
  <2>1. k \in DOMAIN truth
    BY <1>1, <1>4, ExtractRow
  <2>2. PICK i \in DOMAIN m.stores : \E o \in m.stores[i].columns : k = <<Stored(i), o>> /\ truth[k] = RowOf(m.stores[i], o)
    BY <1>3, <2>1
  <2>3. PICK o \in m.stores[i].columns : k = <<Stored(i), o>> /\ truth[k] = RowOf(m.stores[i], o)
    BY <2>2
  <2> HIDE DEF Stored
  <2>4. Stored(i) = Stored(j) /\ o = col
    BY <1>4, <2>3
  <2>5. i = j
    BY <1>1, <2>4
  <2>6. QED
    BY <2>1, <2>3, <2>4, <2>5
<1>5. QED
  BY <1>2, <1>3, <1>4
\* Claims in a list, none of them of an impossible verdict: what is scored.
Scorable(claims) ==
  Listed(claims) /\ \A i \in DOMAIN claims : \A col : ~Invalid(claims[i], col)

\* What is in the slot is of this kind.
LEMMA SlotIsScorable ==
  ASSUME SignInv, NEW rec \in slot.record \cup slot.draft
  PROVE  rec.claims = record.claims /\ Scorable(record.claims)
<1>1. rec.claims = record.claims /\ SchemaErrors(record) = {} /\ Listed(record.claims)
  BY DEF SignInv, SlotOK, RecordOK
<1>2. QED
  BY <1>1, NothingInvalid DEF Scorable

\* The rekeyed claims are listed as the claims are.
LEMMA RekeyedAre ==
  ASSUME NEW claims, NEW ctx, Listed(claims)
  PROVE  /\ DOMAIN Rekeyed(claims, ctx) = DOMAIN claims
         /\ DOMAIN claims \subseteq Nat /\ IsFiniteSet(DOMAIN claims)
         /\ \A i \in DOMAIN claims : /\ Rekeyed(claims, ctx)[i].columns = claims[i].columns
                                     /\ IsFiniteSet(claims[i].columns)
<1>1. PICK X : claims \in Seq(X)
  BY DEF Listed
<1>2. DOMAIN claims = 1..Len(claims) /\ Len(claims) \in Nat
  BY <1>1
<1>3. IsFiniteSet(DOMAIN claims) /\ DOMAIN claims \subseteq Nat
  BY <1>2, FS_Interval
<1>4. DOMAIN Rekeyed(claims, ctx) = DOMAIN claims
  BY DEF Rekeyed
<1>5. \A i \in DOMAIN claims : ClaimOK(claims[i])
  BY DEF Listed
<1>6. \A i \in DOMAIN claims : Rekeyed(claims, ctx)[i].columns = claims[i].columns /\ IsFiniteSet(claims[i].columns)
  BY <1>5, RekeyedIs DEF ClaimOK
<1>7. QED
  BY <1>3, <1>4, <1>6

\* A field of a claim is scored by what the claim says of it, unless an earlier claim of the
\* record stands under its key, and then the score says so.
LEMMA PredictRow ==
  ASSUME NEW claims, NEW ctx, Scorable(claims), NEW i \in DOMAIN claims, NEW col \in claims[i].columns,
         NEW k, k = <<StoreKey(Rekeyed(claims, ctx)[i].name, ctx), col>>
  PROVE  /\ k \in DOMAIN Predict(claims, ctx).tuples
         /\ \/ Predict(claims, ctx).tuples[k].reaches = (VerdictOf(claims[i], col) \in Reaching)
            \/ /\ k \in Predict(claims, ctx).duplicates
               /\ \E j \in DOMAIN claims :
                    j < i /\ StoreKey(Rekeyed(claims, ctx)[j].name, ctx) = k[1]
<1> DEFINE new == Rekeyed(claims, ctx)
<1>1. DOMAIN new = DOMAIN claims /\ DOMAIN claims \subseteq Nat /\ new[i].columns = claims[i].columns
  BY RekeyedAre DEF Scorable
<1>2. VerdictOf(new[i], col) = VerdictOf(claims[i], col) /\ Invalid(new[i], col) = Invalid(claims[i], col)
  BY RekeyedIs DEF Scorable, Listed
<1>3. ~Invalid(claims[i], col)
  BY DEF Scorable
<1>4. RowOf(new[i], col).reaches = (VerdictOf(claims[i], col) \in Reaching)
  BY <1>2, <1>3 DEF RowOf
<1> HIDE DEF new
<1>5. Predict(claims, ctx) = Extract(new, ctx)
  BY DEF Predict, new
<1>6. k = <<StoreKey(new[i].name, ctx), col>>
  BY DEF new
<1>7. /\ k \in DOMAIN Extract(new, ctx).tuples
      /\ \/ Extract(new, ctx).tuples[k] = RowOf(new[i], col)
         \/ /\ k \in Extract(new, ctx).duplicates
            /\ \E j \in DOMAIN new : j < i /\ StoreKey(new[j].name, ctx) = StoreKey(new[i].name, ctx)
  BY <1>1, <1>6, ExtractRow
<1>8. QED
  BY <1>1, <1>4, <1>5, <1>6, <1>7 DEF new

\* A claim that rows where the case does not is a false safe, or it is not the first of its
\* store in the record and the score says so.
LEMMA ClaimIsScored ==
  ASSUME NEW g \in Scans, NEW m \in Manifests(g), NEW claims, Scorable(claims),
         NEW ctx, ctx = Context(m), NEW truth, truth = Extract(m.stores, ctx).tuples,
         NEW i \in DOMAIN claims, NEW j \in DOMAIN m.stores,
         StoreKey(claims[i].name, ctx) = StoreKey(m.stores[j].name, ctx),
         NEW col \in claims[i].columns \cap m.stores[j].columns,
         VerdictOf(claims[i], col) \in Reaching, VerdictOf(m.stores[j], col) \notin Reaching,
         NEW k, k = <<StoreKey(claims[i].name, ctx), col>>
  PROVE  \/ k \in Match(Predict(claims, ctx).tuples, truth).falseSafe
         \/ /\ k \in Predict(claims, ctx).duplicates
            /\ \E h \in DOMAIN claims : h < i /\ StoreKey(claims[h].name, ctx) = StoreKey(claims[i].name, ctx)
<1> DEFINE pred == Predict(claims, ctx).tuples
           new == Rekeyed(claims, ctx)
<1>1. \A h \in DOMAIN claims : ClaimOK(claims[h])
  BY DEF Scorable, Listed
<1>2. StoreKey(claims[i].name, ctx) \in ctx.known
  BY TruthIsKnown
<1>3. new[i] = claims[i]
  BY <1>1, <1>2, RekeyedIs
<1>4. \A h \in DOMAIN claims : StoreKey(new[h].name, ctx) = k[1] => StoreKey(claims[h].name, ctx) = k[1]
  <2> TAKE h \in DOMAIN claims
  <2>1. \/ new[h] = claims[h]
        \/ StoreKey(claims[i].name, ctx) # StoreKey(new[h].name, ctx)
    BY <1>1, RekeyedIs
  <2>2. QED
    BY <2>1
<1>5. k \in DOMAIN truth /\ truth[k].reaches = FALSE
  <2>1. k \in DOMAIN truth /\ truth[k] = RowOf(m.stores[j], col)
    BY TruthIs
  <2>2. RowOf(m.stores[j], col).reaches = (VerdictOf(m.stores[j], col) \in Reaching /\ ~Invalid(m.stores[j], col))
    BY DEF RowOf
  <2>3. QED
    BY <2>1, <2>2, Zenon
<1>6. /\ k \in DOMAIN pred
      /\ \/ pred[k].reaches = TRUE
         \/ /\ k \in Predict(claims, ctx).duplicates
            /\ \E h \in DOMAIN claims : h < i /\ StoreKey(new[h].name, ctx) = k[1]
  <2>1. k = <<StoreKey(new[i].name, ctx), col>> /\ col \in claims[i].columns
    BY <1>3
  <2>2. (VerdictOf(claims[i], col) \in Reaching) = TRUE
    OBVIOUS
  <2>3. /\ k \in DOMAIN pred
        /\ \/ pred[k].reaches = (VerdictOf(claims[i], col) \in Reaching)
           \/ /\ k \in Predict(claims, ctx).duplicates
              /\ \E h \in DOMAIN claims : h < i /\ StoreKey(new[h].name, ctx) = k[1]
    BY <2>1, PredictRow
  <2>4. QED
    BY <2>2, <2>3, Zenon
<1> HIDE DEF pred, new
<1>7. CASE pred[k].reaches = TRUE
  BY <1>5, <1>6, <1>7 DEF Match, pred
<1>8. CASE \E h \in DOMAIN claims : k \in Predict(claims, ctx).duplicates /\ h < i /\ StoreKey(new[h].name, ctx) = k[1]
  BY <1>4, <1>8
<1>9. QED
  BY <1>6, <1>7, <1>8

\* What a score is made of.
LEMMA ScoreIs ==
  ASSUME NEW records, NEW m, NEW stop, NEW drafts,
         NEW ctx, ctx = Context(m), NEW truth, truth = Extract(m.stores, ctx).tuples
  PROVE  /\ \A draft \in drafts : ScoreDraft(draft, ctx, truth) \in ScoreRun(records, m, stop, drafts).draft
         /\ \A d \in ScoreRun(records, m, stop, drafts).draft : \E draft \in drafts : d = ScoreDraft(draft, ctx, truth)
         /\ records # {} =>
              \E rec \in records :
                LET facts == Predict(rec.claims, ctx)
                    scored == ScoreRun(records, m, stop, drafts)
                IN  /\ scored.result = Match(facts.tuples, truth) /\ scored.duplicates = facts.duplicates
                    /\ scored.pass = Passes(stop, scored.result, facts.duplicates)
<1>1. ScoreRun(records, m, stop, drafts).draft = {ScoreDraft(draft, ctx, truth) : draft \in drafts}
  BY DEF ScoreRun
<1>2. ASSUME records # {}
      PROVE  \E rec \in records :
               LET facts == Predict(rec.claims, ctx)
                   scored == ScoreRun(records, m, stop, drafts)
               IN  /\ scored.result = Match(facts.tuples, truth) /\ scored.duplicates = facts.duplicates
                   /\ scored.pass = Passes(stop, scored.result, facts.duplicates)
  <2> DEFINE rec == CHOOSE rec \in records : TRUE
  <2>1. rec \in records
    BY <1>2
  <2>2. /\ ScoreRun(records, m, stop, drafts).result = Match(Predict(rec.claims, ctx).tuples, truth)
        /\ ScoreRun(records, m, stop, drafts).duplicates = Predict(rec.claims, ctx).duplicates
        /\ ScoreRun(records, m, stop, drafts).pass =
             Passes(stop, Match(Predict(rec.claims, ctx).tuples, truth), Predict(rec.claims, ctx).duplicates)
    BY <1>2 DEF ScoreRun
  <2> HIDE DEF rec
  <2>3. QED
    BY <2>1, <2>2
<1>3. QED
  BY <1>1, <1>2
\* A false safe shows in the score, of what is published and of what the gate turned down.
THEOREM NothingLaunderedAlways == SignSpec => []NothingLaundered
<1>1. SignInv => NothingLaundered
  <2> SUFFICES ASSUME SignInv, NEW s \in score PROVE
        LET ctx == Context(s.manifest)
            truth == s.manifest.stores
            Same(n, o) == StoreKey(n, ctx) = StoreKey(o, ctx)
            Shown(claims, shown) ==
              \A i \in DOMAIN claims, j \in DOMAIN truth :
                Same(claims[i].name, truth[j].name) =>
                  \A col \in claims[i].columns \cap truth[j].columns :
                    VerdictOf(claims[i], col) \in Reaching /\ VerdictOf(truth[j], col) \notin Reaching
                      => <<StoreKey(claims[i].name, ctx), col>> \in shown
            Later(claims) ==
              UNION {{<<StoreKey(claims[i].name, ctx), col>> : col \in claims[i].columns} :
                       i \in {i \in DOMAIN claims : \E j \in 1..(i - 1) : Same(claims[i].name, claims[j].name)}}
        IN  /\ \A rec \in slot.record : Shown(rec.claims, s.metrics.result.falseSafe \cup s.metrics.duplicates)
            /\ \A rec \in slot.draft : \A d \in s.metrics.draft : Shown(rec.claims, d.falseSafe \cup Later(rec.claims))
            /\ slot.draft # {} => s.metrics.draft # {}
    BY DEF NothingLaundered
  <2> DEFINE m == s.manifest
             ctx == Context(m)
             truth == Extract(m.stores, ctx).tuples
             claims == record.claims
             Same(n, o) == StoreKey(n, ctx) = StoreKey(o, ctx)
             Later == UNION {{<<StoreKey(claims[i].name, ctx), col>> : col \in claims[i].columns} :
                               i \in {i \in DOMAIN claims : \E j \in 1..(i - 1) : Same(claims[i].name, claims[j].name)}}
             facts == Predict(claims, ctx)
             result == Match(facts.tuples, truth)
  <2>1. scan \in Scans /\ m \in Manifests(scan) /\ s.metrics = ScoreRun(slot.record, m, slot.stop, slot.draft)
    BY DEF SignInv, ScoreOK
  <2>2. \A rec \in slot.record \cup slot.draft : rec.claims = claims /\ Scorable(claims)
    BY SlotIsScorable
  <2>3. slot.record # {} => s.metrics.result = result /\ s.metrics.duplicates = facts.duplicates
    BY <2>1, <2>2, ScoreIs
  <2>4. \A d \in s.metrics.draft : slot.draft # {} /\ d = result
    BY <2>1, <2>2, ScoreIs DEF ScoreDraft
  <2>5. slot.draft # {} => s.metrics.draft # {}
    BY <2>1, ScoreIs
  <2>6. ASSUME Scorable(claims), NEW i \in DOMAIN claims, NEW j \in DOMAIN m.stores, Same(claims[i].name, m.stores[j].name),
               NEW col \in claims[i].columns \cap m.stores[j].columns,
               VerdictOf(claims[i], col) \in Reaching, VerdictOf(m.stores[j], col) \notin Reaching,
               NEW k, k = <<StoreKey(claims[i].name, ctx), col>>
        PROVE  k \in result.falseSafe \/ (k \in facts.duplicates /\ k \in Later)
    <3>1. \/ k \in result.falseSafe
          \/ k \in facts.duplicates /\ \E h \in DOMAIN claims : h < i /\ Same(claims[h].name, claims[i].name)
      BY <2>1, <2>6, ClaimIsScored
    <3>2. DOMAIN claims \subseteq Nat /\ \A h \in DOMAIN claims : h >= 1
      <4>1. PICK X : claims \in Seq(X)
        BY <2>6 DEF Scorable, Listed
      <4>2. QED
        BY <4>1
    <3>3. ASSUME NEW h \in DOMAIN claims, h < i, Same(claims[h].name, claims[i].name)
          PROVE  k \in Later
      <4>1. h \in 1..(i - 1)
        BY <3>2, <3>3
      <4>2. i \in {x \in DOMAIN claims : \E y \in 1..(x - 1) : Same(claims[x].name, claims[y].name)}
        BY <3>3, <4>1
      <4> HIDE DEF Same
      <4>3. QED
        BY <2>6, <4>2
    <3> HIDE DEF Later, Same, result, facts
    <3>4. QED
      BY <3>1, <3>3
  <2> HIDE DEF result, facts, truth
  <2>7. QED
    BY <2>2, <2>3, <2>4, <2>5, <2>6
<1>2. QED
  BY <1>1, SignConsistent, PTL

\* A claim scored under the key of a store of the case is about that store.
LEMMA ScoredIsMeant ==
  ASSUME NEW g \in Scans, NEW m \in Manifests(g), NEW claims, Scorable(claims),
         NEW ctx, ctx = Context(m), NEW i \in DOMAIN claims, NEW j \in DOMAIN m.stores,
         StoreKey(Rekeyed(claims, ctx)[i].name, ctx) = StoreKey(m.stores[j].name, ctx)
  PROVE  Means(m, claims[i], m.stores[j])
<1> DEFINE d == Rekeyed(claims, ctx)[i]
<1>1. ClaimOK(claims[i])
  BY DEF Scorable, Listed
<1>2. CASE d = claims[i]
  BY <1>2 DEF Means
<1>3. CASE d # claims[i]
  <2>1. /\ claims[i].at \in DOMAIN ctx.files /\ d.name = ctx.files[claims[i].at]
        /\ StoreKey(claims[i].name, ctx) \notin ctx.known
    BY <1>1, <1>3, RekeyedIs
  <2>2. PICK t \in DOMAIN m.stores :
          /\ m.stores[t].at = claims[i].at /\ claims[i].at # {} /\ Spelled[m.stores[t].name].dotted
          /\ d.name = m.stores[t].name
    BY <2>1, FileOfLine
  <2>3. t = j
    BY <2>2, ManifestsAssumption
  <2>4. QED
    BY <2>1, <2>2, <2>3 DEF Means
<1>4. QED
  BY <1>2, <1>3

\* A perfect score has nothing wrong, nothing spurious and nothing missing.
LEMMA PerfectIsExact ==
  ASSUME NEW pred, NEW truth, IsFiniteSet(DOMAIN pred), IsFiniteSet(DOMAIN truth),
         Match(pred, truth).f1[1] = Match(pred, truth).f1[2]
  PROVE  DOMAIN pred = DOMAIN truth /\ \A k \in DOMAIN truth : pred[k].reaches = truth[k].reaches
<1> DEFINE both == DOMAIN pred \cap DOMAIN truth
           wrong == {k \in both : pred[k].reaches # truth[k].reaches}
           spurious == DOMAIN pred \ DOMAIN truth
           missing == DOMAIN truth \ DOMAIN pred
           tp == Cardinality(both \ wrong)
           fp == Cardinality(wrong \cup spurious)
           fn == Cardinality(wrong \cup missing)
           empty == DOMAIN pred = {} /\ DOMAIN truth = {}
<1>1. Match(pred, truth).f1 = F1(tp, fp, fn, empty)
  BY DEF Match
<1>2. both \ wrong \subseteq DOMAIN pred /\ wrong \cup spurious \subseteq DOMAIN pred /\ wrong \cup missing \subseteq DOMAIN truth
  OBVIOUS
<1>3. IsFiniteSet(both \ wrong) /\ IsFiniteSet(wrong \cup spurious) /\ IsFiniteSet(wrong \cup missing)
  BY <1>2, FS_Subset
<1>4. tp \in Nat /\ fp \in Nat /\ fn \in Nat
  BY <1>3, FS_CardinalityType
<1>5. CASE empty
  BY <1>5
<1>6. CASE ~empty
  <2>1. fp = 0 /\ fn = 0
    <3> HIDE DEF tp, fp, fn, empty
    <3>1. CASE tp = 0
      BY <1>1, <1>6, <3>1 DEF F1
    <3>2. CASE tp # 0
      <4>1. F1(tp, fp, fn, empty) = <<2 * tp, 2 * tp + fp + fn>>
        BY <1>6, <3>2 DEF F1
      <4>2. 2 * tp = 2 * tp + fp + fn
        BY <1>1, <4>1
      <4>3. QED
        BY <1>4, <4>2
    <3>3. QED
      BY <3>1, <3>2
  <2>2. wrong \cup spurious = {} /\ wrong \cup missing = {}
    BY <1>3, <2>1, FS_EmptySet
  <2>3. QED
    BY <2>2
<1>7. QED
  BY <1>5, <1>6

\* A record that passes says what is true and nothing else.
THEOREM PassIsTruthAlways == SignSpec => []PassIsTruth
<1>1. SignInv => PassIsTruth
  <2> SUFFICES ASSUME SignInv, NEW s \in score, s.metrics.pass, NEW rec \in slot.record,
                      NEW m, m = s.manifest
               PROVE  /\ slot.stop = "accepted"
                      /\ \A i \in DOMAIN rec.claims : \A col \in rec.claims[i].columns :
                           \E j \in DOMAIN m.stores :
                             /\ Means(m, rec.claims[i], m.stores[j]) /\ col \in m.stores[j].columns
                             /\ (VerdictOf(rec.claims[i], col) \in Reaching) = (VerdictOf(m.stores[j], col) \in Reaching)
                      /\ \A j \in DOMAIN m.stores : \A col \in m.stores[j].columns :
                           \E i \in DOMAIN rec.claims :
                             Means(m, rec.claims[i], m.stores[j]) /\ col \in rec.claims[i].columns
    BY DEF PassIsTruth
  <2> DEFINE ctx == Context(m)
             truth == Extract(m.stores, ctx).tuples
             claims == record.claims
             facts == Predict(claims, ctx)
             pred == facts.tuples
             new == Rekeyed(claims, ctx)
             result == Match(pred, truth)
  <2>1. scan \in Scans /\ m \in Manifests(scan) /\ s.metrics = ScoreRun(slot.record, m, slot.stop, slot.draft)
    BY DEF SignInv, ScoreOK
  <2>2. \A r \in slot.record : r.claims = claims /\ Scorable(claims)
    BY SlotIsScorable
  <2>3. Passes(slot.stop, result, facts.duplicates)
    BY <2>1, <2>2, ScoreIs
  <2>4. slot.stop = "accepted" /\ result.f1[1] = result.f1[2] /\ facts.duplicates = {}
    BY <2>3 DEF Passes
  <2>5. rec.claims = claims /\ Scorable(claims)
    BY <2>2
  <2> HIDE DEF claims
  <2>6. /\ DOMAIN new = DOMAIN claims /\ DOMAIN claims \subseteq Nat /\ IsFiniteSet(DOMAIN claims)
        /\ \A i \in DOMAIN claims : new[i].columns = claims[i].columns /\ IsFiniteSet(claims[i].columns)
    BY <2>5, RekeyedAre DEF Scorable
  <2>7. facts = Extract(new, ctx)
    BY DEF Predict
  <2>8. IsFiniteSet(DOMAIN truth)
    BY <2>1, TruthIs
  <2> HIDE DEF ctx, truth, new
  <2>9. IsFiniteSet(DOMAIN pred)
    BY <2>6, <2>7, ExtractIsFinite
  <2> HIDE DEF facts
  <2>10. DOMAIN pred = DOMAIN truth /\ \A k \in DOMAIN truth : pred[k].reaches = truth[k].reaches
    BY <2>4, <2>8, <2>9, PerfectIsExact
  <2>11. ASSUME NEW i \in DOMAIN claims, NEW col \in claims[i].columns
         PROVE  \E j \in DOMAIN m.stores :
                  /\ Means(m, claims[i], m.stores[j]) /\ col \in m.stores[j].columns
                  /\ (VerdictOf(claims[i], col) \in Reaching) = (VerdictOf(m.stores[j], col) \in Reaching)
    <3> DEFINE k == <<StoreKey(new[i].name, ctx), col>>
    <3>1. k \in DOMAIN pred /\ pred[k].reaches = (VerdictOf(claims[i], col) \in Reaching)
      BY <2>4, <2>5, PredictRow DEF facts, new
    <3>2. PICK j \in DOMAIN m.stores : \E o \in m.stores[j].columns :
                 k = <<StoreKey(m.stores[j].name, ctx), o>> /\ truth[k] = RowOf(m.stores[j], o)
      BY <2>1, <2>10, <3>1, TruthIs DEF truth, ctx
    <3>3. /\ StoreKey(new[i].name, ctx) = StoreKey(m.stores[j].name, ctx)
          /\ col \in m.stores[j].columns /\ truth[k] = RowOf(m.stores[j], col)
      BY <3>2
    <3>4. Means(m, claims[i], m.stores[j])
      BY <2>1, <2>5, <3>3, ScoredIsMeant DEF new, ctx
    <3>5. ~Invalid(m.stores[j], col)
      BY <2>1, <3>3, ManifestsAssumption
    <3>6. RowOf(m.stores[j], col).reaches = (VerdictOf(m.stores[j], col) \in Reaching /\ ~Invalid(m.stores[j], col))
      BY DEF RowOf
    <3>7. truth[k].reaches = pred[k].reaches
      BY <2>10, <3>1
    <3> HIDE DEF k, pred
    <3>8. (VerdictOf(claims[i], col) \in Reaching) = (VerdictOf(m.stores[j], col) \in Reaching)
      <4>1. (VerdictOf(m.stores[j], col) \in Reaching /\ ~Invalid(m.stores[j], col)) = (VerdictOf(m.stores[j], col) \in Reaching)
        BY <3>5
      <4>2. RowOf(m.stores[j], col).reaches = pred[k].reaches
        BY <3>3, <3>7
      <4>3. QED
        BY <3>1, <3>6, <4>1, <4>2, Zenon
    <3>9. QED
      BY <3>3, <3>4, <3>8
  <2>12. ASSUME NEW j \in DOMAIN m.stores, NEW col \in m.stores[j].columns
         PROVE  \E i \in DOMAIN claims : Means(m, claims[i], m.stores[j]) /\ col \in claims[i].columns
    <3> DEFINE k == <<StoreKey(m.stores[j].name, ctx), col>>
    <3>1. k \in DOMAIN pred
      BY <2>1, <2>10, TruthIs DEF truth, ctx
    <3>2. PICK i \in DOMAIN new : \E o \in new[i].columns : k = <<StoreKey(new[i].name, ctx), o>>
      BY <2>6, <2>7, <3>1, ExtractKey
    <3>3. StoreKey(new[i].name, ctx) = StoreKey(m.stores[j].name, ctx) /\ col \in claims[i].columns
      BY <2>6, <3>2
    <3>4. Means(m, claims[i], m.stores[j])
      BY <2>1, <2>5, <2>6, <3>3, ScoredIsMeant DEF new, ctx
    <3>5. QED
      BY <2>6, <3>3, <3>4
  <2>13. QED
    BY <2>4, <2>5, <2>11, <2>12
<1>2. QED
  BY <1>1, SignConsistent, PTL

\* A verdict that rows go leaves no field of the store to another verdict, and a backup never
\* has one.
LEMMA GoneHasNoFields ==
  ASSUME NEW r, NEW s, NEW claimed
  PROVE  /\ Decide(r, s, claimed).verdict \in Reaching => DOMAIN Decide(r, s, claimed).fields = {}
         /\ r.scan.stores[s].kind = "backup" =>
              Decide(r, s, claimed).verdict \notin Reaching /\ DOMAIN Decide(r, s, claimed).fields = {}
<1> DEFINE hit == Reached(r, s, TRUE, Excluded(r, s))
           loose == Reached(r, s, FALSE, Excluded(r, s))
           timer == Timer(r, s)
           marks == Classify(r, s, claimed)
           evidence == {w.symbol : w \in marks.writes} \cup UNION {t.job.symbol : t \in timer}
           row == Rows(r, s, hit, loose, timer, marks)
           capped == row \in Reaching /\ Capped(r, s, hit, evidence)
           overrides == IF row \in {"anonymised", "pseudonymised"}
                          THEN {c \in DOMAIN marks.fields : marks.fields[c] # row} ELSE {}
           v == Decide(r, s, claimed)
           special == r.scan.stores[s].kind \in {"backup", "third_party"} \/ r.entries = <<>>
<1>1. CASE special
  <2>1. \E word \in {"governed_by_retention", "no_schedule_evidenced"} :
          r.scan.stores[s].kind = "backup" => v = Found(word, <<>>, {})
    BY DEF Decide
  <2>2. special => \E word : v = Found(word, <<>>, {})
    BY DEF Decide
  <2>3. \A word : Found(word, <<>>, {}).verdict = word /\ Found(word, <<>>, {}).fields = <<>>
    BY DEF Found
  <2>4. DOMAIN <<>> = {}
    OBVIOUS
  <2> HIDE DEF v
  <2>5. DOMAIN v.fields = {}
    BY <1>1, <2>2, <2>3, <2>4
  <2>6. r.scan.stores[s].kind = "backup" => v.verdict \notin Reaching
    BY <2>1, <2>3 DEF Reaching
  <2>7. QED
    BY <2>5, <2>6 DEF v
<1>2. CASE ~special
  <2>1. v.verdict = IF capped THEN "unverified" ELSE row
    BY <1>2 DEF Decide, Found
  <2>2. DOMAIN v.fields = overrides
    BY <1>2 DEF Decide, Found
  <2>3. row = "anonymised" => overrides = {}
    <3>1. row = "anonymised" => marks.verdict = "anonymised"
      BY DEF Rows
    <3>2. marks.verdict = "anonymised" => \A c \in DOMAIN marks.fields : marks.fields[c] = "anonymised"
      BY DEF Classify
    <3> HIDE DEF marks, row
    <3>3. QED
      BY <3>1, <3>2
  <2> HIDE DEF row, marks, capped, v
  <2>4. v.verdict \in Reaching => row # "pseudonymised"
    BY <2>1 DEF Reaching
  <2>5. QED
    BY <1>2, <2>2, <2>3, <2>4 DEF v
<1>3. QED
  BY <1>1, <1>2

\* What a claim is not rejected for: a field it says goes does, as far as the verifier found.
LEMMA NotRejected ==
  ASSUME NEW c, NEW v, Rejections(c, v) = {}, v.verdict \in Reaching => DOMAIN v.fields = {},
         NEW col, VerdictOf(c, col) \in Reaching
  PROVE  FieldVerdict(v, col) \in Reaching
<1>1. CASE col \in DOMAIN c.overrides
  <2>1. ~Contradicts(c.overrides[col], FieldVerdict(v, col))
    BY <1>1 DEF Rejections
  <2>2. QED
    BY <1>1, <2>1 DEF Contradicts, VerdictOf
<1>2. CASE col \notin DOMAIN c.overrides
  <2>1. ~Contradicts(c.verdict, v.verdict) /\ c.verdict \in Reaching
    BY <1>2 DEF Rejections, VerdictOf
  <2>2. QED
    BY <2>1 DEF Contradicts, FieldVerdict
<1>3. QED
  BY <1>1, <1>2

\* Names of one normalised name have one stem.
LEMMA KeyHasStem ==
  ASSUME NEW n, NEW o, NEW ctx, StoreKey(n, ctx) = StoreKey(o, ctx)
  PROVE  Spelled[n].stem = Spelled[o].stem
<1>1. \A x : StoreKey(x, ctx)[2] = Spelled[x].stem
  BY DEF StoreKey, Norm, Stem
<1>2. QED
  BY <1>1

\* The verifier's findings as a manifest are its stores, one by one.
LEMMA FoundTruthIs ==
  ASSUME SignInv, NEW j \in DOMAIN FoundAsTruth.stores
  PROVE  \E s \in DOMAIN feedback.found :
           /\ FoundAsTruth.stores[j].name = scan.named[s] /\ FoundAsTruth.stores[j].kind = scan.stores[s].kind
           /\ \A col : VerdictOf(FoundAsTruth.stores[j], col) = FieldVerdict(feedback.found[s], col)
<1> DEFINE facts == feedback.found
           s == Sorted(DOMAIN facts)[j]
<1>1. IsFiniteSet(DOMAIN facts) /\ DOMAIN facts \subseteq Nat
  <2>1. DOMAIN facts \subseteq DOMAIN scan.stores /\ scan \in Scans
    BY DEF SignInv, FeedbackOK
  <2>2. QED
    BY <2>1, InputsAssumption, FS_Subset
<1>2. j \in 1..Cardinality(DOMAIN facts)
  BY DEF FoundAsTruth, Sorted
<1>3. s \in DOMAIN facts
  BY <1>1, <1>2, SortedIs
<1>4. FoundAsTruth.stores[j] =
        [name |-> scan.named[s], kind |-> scan.stores[s].kind, verdict |-> facts[s].verdict,
         columns |-> scan.stores[s].columns, overrides |-> facts[s].fields, at |-> {s}]
  BY DEF FoundAsTruth
<1> HIDE DEF s
<1>5. QED
  BY <1>3, <1>4 DEF VerdictOf, FieldVerdict

\* What is taken for false safe is a field said to go that does not.
LEMMA FalseSafeIs ==
  ASSUME NEW tuples, NEW truth, NEW k \in Match(tuples, truth).falseSafe
  PROVE  k \in DOMAIN tuples /\ k \in DOMAIN truth /\ tuples[k].reaches /\ tuples[k].reaches # truth[k].reaches
<1>1. Match(tuples, truth).falseSafe =
        {x \in {x \in DOMAIN tuples \cap DOMAIN truth : tuples[x].reaches # truth[x].reaches} : tuples[x].reaches}
  BY DEF Match
<1>2. QED
  BY <1>1, Zenon

\* The score of one record is its match with the truth.
LEMMA ScoredIs ==
  ASSUME NEW rec, NEW m, NEW stop
  PROVE  ScoreRun({rec}, m, stop, {}).result =
           Match(Predict(rec.claims, Context(m)).tuples, Extract(m.stores, Context(m)).tuples)
<1> DEFINE one == CHOOSE x \in {rec} : TRUE
<1>1. one = rec
  OBVIOUS
<1>2. ScoreRun({rec}, m, stop, {}).result =
        Match(Predict(one.claims, Context(m)).tuples, Extract(m.stores, Context(m)).tuples)
  BY DEF ScoreRun
<1> HIDE DEF one
<1>3. QED
  BY <1>1, <1>2

\* No record the check accepts has a false safe against what the verifier found, but where check
\* and score take a claim for different stores.
THEOREM AcceptedScoresSafeAlways == SignSpec => []AcceptedScoresSafe
<1>1. SignInv => AcceptedScoresSafe
  <2> DEFINE m == FoundAsTruth
             ctx == Context(m)
             claims == record.claims
             new == Rekeyed(claims, ctx)
             matched == feedback.matched
             Of(i) == StoreKey(new[i].name, ctx)
             apart == {Of(i) : i \in {i \in DOMAIN new :
                          i \in DOMAIN matched => Of(i) # StoreKey(scan.named[matched[i]], ctx)}}
  <2> SUFFICES ASSUME SignInv, status \in {"accepted", "shown"}, NamesApart(scan),
                      NEW k \in ScoreRun({record}, m, "accepted", {}).result.falseSafe
               PROVE  k[1] \in apart
    BY DEF AcceptedScoresSafe
  <2> DEFINE r == ReachOf(scan, record)
             facts == feedback.found
             truth == Extract(m.stores, ctx).tuples
  <2>1. scan \in Scans /\ Listed(claims) /\ feedback = Answer(scan, record) /\ Accepted(feedback)
    BY DEF SignInv, RecordOK, FeedbackOK
  <2>2. /\ matched = Matched(scan, claims) /\ facts = VerdictsOf(r, record, matched)
        /\ \A i \in DOMAIN claims : i \in DOMAIN matched => Rejections(claims[i], facts[matched[i]]) = {}
    <3>1. feedback = Checked(scan, record)
      BY <2>1 DEF Answer, Accepted
    <3>2. QED
      BY <2>1, <3>1 DEF Checked, Accepted
  <2>3. \A i \in DOMAIN matched : matched[i] \in DOMAIN scan.stores
    <3>1. Len(claims) \in Nat
      BY <2>1 DEF Listed
    <3>2. Matching(Matched(scan, claims), scan, Len(claims))
      BY <2>1, <3>1, InputsAssumption, MatchedIs
    <3> HIDE DEF matched
    <3>3. QED
      BY <2>2, <3>2 DEF Matching
  <2>4. \A s \in DOMAIN facts :
          /\ s \in DOMAIN scan.stores
          /\ facts[s].verdict \in Reaching => DOMAIN facts[s].fields = {}
          /\ scan.stores[s].kind = "backup" => \A col : FieldVerdict(facts[s], col) \notin Reaching
    <3> TAKE s \in DOMAIN facts
    <3>1. s \in DOMAIN scan.stores /\ \E claimed : facts[s] = Decide(r, s, claimed)
      BY DEF SignInv, FeedbackOK
    <3>2. r.scan = scan
      BY DEF ReachOf, NewReach
    <3> HIDE DEF facts, r
    <3>3. QED
      BY <3>1, <3>2, GoneHasNoFields DEF FieldVerdict
  <2> HIDE DEF r, m, ctx, claims, matched, facts
  <2>5. /\ k \in DOMAIN Predict(claims, ctx).tuples /\ Predict(claims, ctx).tuples[k].reaches
        /\ k \in DOMAIN truth /\ Predict(claims, ctx).tuples[k].reaches # truth[k].reaches
    <3> DEFINE tuples == Predict(claims, ctx).tuples
    <3>1. k \in Match(tuples, truth).falseSafe
      BY ScoredIs DEF ctx, claims
    <3> HIDE DEF tuples, truth
    <3>2. k \in DOMAIN tuples /\ k \in DOMAIN truth /\ tuples[k].reaches /\ tuples[k].reaches # truth[k].reaches
      BY <3>1, FalseSafeIs, Zenon
    <3>3. QED
      BY <3>2, Zenon DEF tuples
  <2>6. /\ DOMAIN new = DOMAIN claims /\ DOMAIN claims \subseteq Nat
        /\ \A i \in DOMAIN claims : new[i].columns = claims[i].columns
    BY <2>1, RekeyedAre
  <2>7. Predict(claims, ctx) = Extract(new, ctx)
    BY DEF Predict
  <2> HIDE DEF new, truth
  <2>8. PICK i \in DOMAIN new : \E col \in new[i].columns :
              k = <<StoreKey(new[i].name, ctx), col>> /\ Predict(claims, ctx).tuples[k] = RowOf(new[i], col)
    BY <2>5, <2>6, <2>7, ExtractKey
  <2>9. PICK col \in new[i].columns :
              k = <<StoreKey(new[i].name, ctx), col>> /\ Predict(claims, ctx).tuples[k] = RowOf(new[i], col)
    BY <2>8
  <2>10. VerdictOf(claims[i], col) \in Reaching
    <3>1. RowOf(new[i], col).reaches
      BY <2>5, <2>9
    <3>5. VerdictOf(new[i], col) \in Reaching
      BY <3>1 DEF RowOf
    <3>2. ClaimOK(claims[i])
      BY <2>1, <2>6 DEF Listed
    <3>3. VerdictOf(new[i], col) = VerdictOf(claims[i], col)
      BY <2>6, <3>2, RekeyedIs DEF new
    <3>4. QED
      BY <3>3, <3>5
  <2>11. DOMAIN m.stores \subseteq Nat
    <3>1. IsFiniteSet(DOMAIN facts)
      BY <2>1, InputsAssumption, FS_Subset DEF facts, SignInv, FeedbackOK
    <3>2. Cardinality(DOMAIN facts) \in Nat
      BY <3>1, FS_CardinalityType
    <3>3. DOMAIN m.stores = 1..Cardinality(DOMAIN facts)
      BY DEF m, FoundAsTruth, Sorted, facts
    <3>4. QED
      BY <3>2, <3>3
  <2>12. PICK j \in DOMAIN m.stores : \E o \in m.stores[j].columns :
              k = <<StoreKey(m.stores[j].name, ctx), o>> /\ truth[k] = RowOf(m.stores[j], o)
    BY <2>5, <2>11, ExtractKey DEF truth
  <2>13. /\ StoreKey(new[i].name, ctx) = StoreKey(m.stores[j].name, ctx)
         /\ truth[k] = RowOf(m.stores[j], col)
    BY <2>9, <2>12
  <2>14. PICK s \in DOMAIN facts :
           /\ m.stores[j].name = scan.named[s] /\ m.stores[j].kind = scan.stores[s].kind
           /\ VerdictOf(m.stores[j], col) = FieldVerdict(facts[s], col)
    BY FoundTruthIs DEF m, facts
  <2>15. SUFFICES ASSUME i \in DOMAIN matched, Of(i) = StoreKey(scan.named[matched[i]], ctx)
                  PROVE  FALSE
    BY <2>9
  <2>16. matched[i] = s
    <3>1. Spelled[scan.named[matched[i]]].stem = Spelled[scan.named[s]].stem
      BY <2>13, <2>14, <2>15, KeyHasStem
    <3>2. QED
      BY <2>3, <2>4, <2>14, <2>15, <3>1 DEF NamesApart
  <2>17. FieldVerdict(facts[s], col) \in Reaching
    <3>1. Rejections(claims[i], facts[s]) = {}
      BY <2>2, <2>6, <2>15, <2>16
    <3>2. QED
      BY <2>4, <2>10, <3>1, NotRejected
  <2>18. RowOf(m.stores[j], col).reaches = TRUE
    <3>1. m.stores[j].kind # "backup"
      BY <2>4, <2>14, <2>17
    <3>2. QED
      BY <2>14, <2>17, <3>1 DEF RowOf, Invalid
  <2>19. RowOf(new[i], col).reaches = TRUE
    BY <2>5, <2>9 DEF RowOf
  <2>20. QED
    BY <2>5, <2>9, <2>13, <2>18, <2>19
<1>2. QED
  BY <1>1, SignConsistent, PTL

-----------------------------------------------------------------------------
(* The walk over the call graph (Reach), for every graph and every question: what *)
(* a walk returns is a path of the code whose deletes come before their            *)
(* consequences, and a walk that returns nothing has missed nothing.               *)

\* The out-edges of a node start there; what is expanded has that many edges at most.
Shape ==
  /\ ReachTypeOK
  /\ \A n \in Nodes : \A i \in 1..Len(graph[n]) : graph[n][i].src = n
  /\ pc = "expand" => tried <= Len(graph[here.at.node])

\* Every arrival the walk holds is truthful about its path.
Honest ==
  /\ \A i \in 1..Len(frontier) : Truthful(frontier[i])
  /\ Truthful(here)
  /\ PathsAreWalks

\* The first so many edges of a state's node lead to states that are enqueued.
Closed(s, many) ==
  \A i \in 1..many :
    Admissible(graph[s.node][i], s.mode) => Along(s, graph[s.node][i]) \in seen

\* A state that was taken up and counts is in the map, and is not the target.
Kept(s) == s.passed => found[s.node] # {} /\ s.node # query.target

\* Where an enqueued state can be.
Waiting(s) == \E i \in 1..Len(frontier) : frontier[i].at = s
InHand(s) == pc = "expand" /\ here.at = s /\ Kept(s) /\ Closed(s, tried)
DoneWith(s) == Kept(s) /\ Closed(s, Len(graph[s.node]))

\* While there is no answer, an enqueued state is in the queue, in hand or done with.
Covered ==
  /\ StartState \in seen
  /\ answer = {} => \A s \in seen : Waiting(s) \/ InHand(s) \/ DoneWith(s)
  /\ pc = "done" /\ answer = {} => frontier = <<>>
-----------------------------------------------------------------------------

\* A search state steps to a search state, whatever the edge.
LEMMA AlongType ==
  ASSUME query \in QueryType, NEW s \in States, NEW e \in Edges
  PROVE  /\ Along(s, e) \in States
         /\ Along(s, e).node = e.dst
         /\ Along(s, e).mode = IF e.sets = "keep" THEN s.mode ELSE e.sets
         /\ Along(s, e).passed <=> s.passed \/ e.dst \in query.through
BY DEF Along, States, Edges, QueryType, Modes

\* The search's own table for mode none is what makes every consequence follow a delete.
LEMMA AdmittedIsEarned ==
  ASSUME NEW e \in Edges, NEW mode, Admissible(e, mode)
  PROVE  /\ e.dst \notin query.blocked
         /\ query.resolved => ~e.ambiguous
         /\ mode \in AdmissibleModes[e.kind]
         /\ e.kind \in Consequences => mode # "none"
BY DEF Admissible, Usable, AdmissibleInNone, Consequences

\* Adding an edge to a path leaves the modes along the old path as they were.
LEMMA ModesStay ==
  ASSUME NEW p \in Seq(Edges), NEW e \in Edges,
         NEW k \in 1..(Len(p) + 1), NEW mode, ModeBefore(p, k, mode)
  PROVE  ModeBefore(Append(p, e), k, mode)
<1>1. \A i \in 1..(k - 1) : Append(p, e)[i] = p[i]
  OBVIOUS
<1>2. CASE mode = "none" /\ \A i \in 1..(k - 1) : p[i].sets = "keep"
  BY <1>1, <1>2 DEF ModeBefore
<1>3. CASE \E i \in 1..(k - 1) : /\ p[i].sets = mode
                                 /\ \A j \in (i + 1)..(k - 1) : p[j].sets = "keep"
  <2>1. PICK i \in 1..(k - 1) : /\ p[i].sets = mode
                                /\ \A j \in (i + 1)..(k - 1) : p[j].sets = "keep"
    BY <1>3
  <2>2. Append(p, e)[i].sets = mode
    BY <1>1, <2>1
  <2>3. \A j \in (i + 1)..(k - 1) : Append(p, e)[j].sets = "keep"
    BY <1>1, <2>1
  <2>4. QED
    BY <2>2, <2>3 DEF ModeBefore
<1>4. QED
  BY <1>2, <1>3 DEF ModeBefore

\* The mode after the new edge is the one it sets, or the one before it.
LEMMA ModeGrows ==
  ASSUME NEW p \in Seq(Edges), NEW e \in Edges, NEW mode,
         ModeBefore(p, Len(p) + 1, mode)
  PROVE  ModeBefore(Append(p, e), Len(p) + 2, IF e.sets = "keep" THEN mode ELSE e.sets)
<1> DEFINE q == Append(p, e)
<1>1. /\ \A i \in 1..Len(p) : q[i] = p[i]
      /\ q[Len(p) + 1] = e
      /\ Len(p) \in Nat /\ (Len(p) + 2) - 1 = Len(p) + 1 /\ (Len(p) + 1) - 1 = Len(p)
  OBVIOUS
<1> HIDE DEF q
<1>2. CASE e.sets # "keep"
  <2>1. /\ Len(p) + 1 \in 1..(Len(p) + 1)
        /\ \A j \in (Len(p) + 1 + 1)..(Len(p) + 1) : q[j].sets = "keep"
    BY <1>1
  <2>2. QED
    BY <1>1, <1>2, <2>1 DEF ModeBefore, q
<1>3. CASE e.sets = "keep" /\ mode = "none" /\ \A i \in 1..Len(p) : p[i].sets = "keep"
  <2>1. \A i \in 1..(Len(p) + 1) : q[i].sets = "keep"
    BY <1>1, <1>3
  <2>2. QED
    BY <1>1, <1>3, <2>1 DEF ModeBefore, q
<1>4. CASE /\ e.sets = "keep"
           /\ \E i \in 1..Len(p) : /\ p[i].sets = mode
                                   /\ \A j \in (i + 1)..Len(p) : p[j].sets = "keep"
  <2>1. PICK i \in 1..Len(p) : /\ p[i].sets = mode
                               /\ \A j \in (i + 1)..Len(p) : p[j].sets = "keep"
    BY <1>4
  <2>2. i \in 1..(Len(p) + 1) /\ q[i].sets = mode
    BY <1>1, <2>1
  <2>3. \A j \in (i + 1)..(Len(p) + 1) : q[j].sets = "keep"
    BY <1>1, <1>4, <2>1
  <2>4. QED
    BY <1>1, <1>4, <2>2, <2>3 DEF ModeBefore, q
<1>5. QED
  BY <1>1, <1>2, <1>3, <1>4 DEF ModeBefore
-----------------------------------------------------------------------------

\* Taking an admissible edge makes a truthful arrival out of a truthful one.
LEMMA ArrivalGrows ==
  ASSUME Shape, NEW a \in Arrivals, Truthful(a),
         NEW i \in 1..Len(graph[a.at.node]),
         Admissible(graph[a.at.node][i], a.at.mode)
  PROVE  LET e == graph[a.at.node][i]
             b == [at |-> Along(a.at, e), path |-> Append(a.path, e)]
         IN  b \in Arrivals /\ Truthful(b)
<1> DEFINE e == graph[a.at.node][i]
           q == Append(a.path, e)
           b == [at |-> Along(a.at, e), path |-> q]
<1>0. /\ query \in QueryType /\ a.at \in States /\ a.at.node \in Nodes
      /\ a.path \in Seq(Edges) /\ e \in Edges /\ e.src = a.at.node
  BY ReachAssumption DEF Shape, ReachTypeOK, Arrivals, States
<1>1. /\ q \in Seq(Edges) /\ Len(q) = Len(a.path) + 1 /\ Len(a.path) \in Nat
      /\ \A k \in 1..Len(a.path) : q[k] = a.path[k]
      /\ q[Len(a.path) + 1] = e /\ q # <<>>
  BY <1>0
<1>2. /\ b.at \in States /\ b.at.node = e.dst
      /\ b.at.mode = IF e.sets = "keep" THEN a.at.mode ELSE e.sets
      /\ b.at.passed <=> a.at.passed \/ e.dst \in query.through
  BY <1>0, AlongType
<1>3. b \in Arrivals
  BY <1>1, <1>2 DEF Arrivals
<1>here. e = graph[e.src][i] /\ i \in 1..Len(graph[e.src])
  BY <1>0
<1> HIDE DEF e, q
<1>4. IsWalk(q)
  <2> SUFFICES ASSUME NEW k \in 1..Len(q)
               PROVE  /\ q[k].src = IF k = 1 THEN query.start ELSE q[k - 1].dst
                      /\ \E j \in 1..Len(graph[q[k].src]) : graph[q[k].src][j] = q[k]
                      /\ q[k].dst \notin query.blocked
                      /\ query.resolved => ~q[k].ambiguous
                      /\ \E mode \in AdmissibleModes[q[k].kind] :
                           /\ ModeBefore(q, k, mode)
                           /\ q[k].kind \in Consequences => mode # "none"
    BY DEF IsWalk
  <2>1. CASE k \in 1..Len(a.path)
    <3>1. /\ q[k] = a.path[k]
          /\ k # 1 => k - 1 \in 1..Len(a.path) /\ q[k - 1] = a.path[k - 1]
      BY <1>1, <2>1
    <3>2. /\ a.path[k].src = IF k = 1 THEN query.start ELSE a.path[k - 1].dst
          /\ \E j \in 1..Len(graph[a.path[k].src]) : graph[a.path[k].src][j] = a.path[k]
          /\ a.path[k].dst \notin query.blocked
          /\ query.resolved => ~a.path[k].ambiguous
      BY <2>1 DEF Truthful, IsWalk
    <3>3. PICK mode \in AdmissibleModes[a.path[k].kind] :
            /\ ModeBefore(a.path, k, mode)
            /\ a.path[k].kind \in Consequences => mode # "none"
      BY <2>1 DEF Truthful, IsWalk
    <3>4. ModeBefore(q, k, mode)
      BY <1>0, <1>1, <2>1, <3>3, ModesStay DEF q
    <3>5. QED
      BY <3>1, <3>2, <3>3, <3>4
  <2>2. CASE k = Len(a.path) + 1
    <3>1. q[k] = e
      BY <1>1, <2>2
    <3>2. /\ e.dst \notin query.blocked
          /\ query.resolved => ~e.ambiguous
          /\ a.at.mode \in AdmissibleModes[e.kind]
          /\ e.kind \in Consequences => a.at.mode # "none"
      BY <1>0, AdmittedIsEarned DEF e
    <3>3. e.src = IF k = 1 THEN query.start ELSE q[k - 1].dst
      BY <1>0, <1>1, <2>2 DEF Truthful
    <3>4. ModeBefore(q, k, a.at.mode)
      BY <1>0, <1>1, <2>2, ModesStay DEF Truthful, q
    <3>5. QED
      BY <1>here, <3>1, <3>2, <3>3, <3>4
  <2>3. QED
    BY <1>1, <2>1, <2>2
<1>5. b.at.node = IF q = <<>> THEN query.start ELSE q[Len(q)].dst
  BY <1>1, <1>2
<1>6. b.at.mode \in Modes /\ ModeBefore(q, Len(q) + 1, b.at.mode)
  <2>1. ModeBefore(q, Len(a.path) + 2, IF e.sets = "keep" THEN a.at.mode ELSE e.sets)
    BY <1>0, ModeGrows DEF Truthful, q
  <2>2. Len(q) + 1 = Len(a.path) + 2
    BY <1>1
  <2>3. QED
    BY <1>2, <2>1, <2>2 DEF States
<1>7. b.at.passed <=> \/ query.through = {} \/ query.start \in query.through
                      \/ \E k \in 1..Len(q) : q[k].dst \in query.through
  <2>1. ASSUME NEW k \in 1..Len(q), q[k].dst \in query.through
        PROVE  e.dst \in query.through \/ \E j \in 1..Len(a.path) : a.path[j].dst \in query.through
    <3>1. k \in 1..Len(a.path) \/ k = Len(a.path) + 1
      BY <1>1
    <3>2. CASE k \in 1..Len(a.path)
      BY <1>1, <2>1, <3>2
    <3>3. CASE k = Len(a.path) + 1
      BY <1>1, <2>1, <3>3
    <3>4. QED
      BY <3>1, <3>2, <3>3
  <2>2. ASSUME NEW k \in 1..Len(a.path), a.path[k].dst \in query.through
        PROVE  \E j \in 1..Len(q) : q[j].dst \in query.through
    <3>1. k \in 1..Len(q) /\ q[k] = a.path[k]
      BY <1>1
    <3>2. QED
      BY <2>2, <3>1
  <2>3. e.dst \in query.through => \E j \in 1..Len(q) : q[j].dst \in query.through
    <3>1. Len(a.path) + 1 \in 1..Len(q) /\ q[Len(a.path) + 1] = e
      BY <1>1
    <3>2. QED
      BY <3>1
  <2>4. QED
    BY <1>2, <2>1, <2>2, <2>3 DEF Truthful
<1>8. Truthful(b)
  BY <1>4, <1>5, <1>6, <1>7 DEF Truthful
<1>9. QED
  BY <1>3, <1>8 DEF e, q
-----------------------------------------------------------------------------

\* The first arrival is the start, by no path.
LEMMA StartType ==
  ASSUME query \in QueryType
  PROVE  [at |-> StartState, path |-> <<>>] \in Arrivals /\ StartState \in States
BY DEF StartState, QueryType, Arrivals, States, Modes

\* The walk begins with its start in the queue.
LEMMA WalkInit == ReachInit => Shape /\ Honest /\ Covered
<1> SUFFICES ASSUME ReachInit PROVE Shape /\ Honest /\ Covered
  OBVIOUS
<1>1. /\ query \in QueryType /\ query \in Queries
      /\ graph \in [Nodes -> Seq(Edges)]
      /\ \A n \in Nodes : \A i \in 1..Len(graph[n]) : graph[n][i].src = n
  BY ReachAssumption DEF ReachInit
<1>2. here \in Arrivals /\ StartState \in States
  BY <1>1, StartType DEF ReachInit
<1>3. Shape
  BY <1>1, <1>2 DEF ReachInit, Shape, ReachTypeOK
<1>4. Truthful(here)
  <2>1. here.path = <<>> /\ Len(here.path) = 0 /\ here.at = StartState
    BY DEF ReachInit
  <2>2. IsWalk(here.path)
    BY <2>1 DEF IsWalk
  <2>3. ModeBefore(here.path, Len(here.path) + 1, "none") /\ "none" \in Modes
    BY <2>1 DEF ModeBefore, Modes
  <2>4. /\ here.at.node = query.start /\ here.at.mode = "none"
        /\ here.at.passed = (query.through = {} \/ query.start \in query.through)
    BY <2>1 DEF StartState
  <2>5. ~ \E k \in 1..Len(here.path) : here.path[k].dst \in query.through
    BY <2>1
  <2>6. QED
    BY <2>1, <2>2, <2>3, <2>4, <2>5 DEF Truthful
<1>5. Honest
  BY <1>4 DEF ReachInit, Honest, PathsAreWalks
<1>6. Covered
  <2>1. 1 \in 1..Len(frontier) /\ frontier[1].at = StartState
    BY DEF ReachInit
  <2>2. QED
    BY <2>1 DEF ReachInit, Covered, Waiting
<1>7. QED
  BY <1>3, <1>5, <1>6

\* What the head and the tail of the queue are.
LEMMA Queue ==
  ASSUME NEW q \in Seq(Arrivals), q # <<>>
  PROVE  /\ Head(q) \in Arrivals /\ Tail(q) \in Seq(Arrivals)
         /\ Head(q) = q[1] /\ 1 \in 1..Len(q)
         /\ Len(Tail(q)) = Len(q) - 1 /\ Len(q) \in Nat
         /\ \A i \in 1..Len(Tail(q)) : Tail(q)[i] = q[i + 1] /\ i + 1 \in 1..Len(q)
         /\ \A i \in 1..Len(q) : i = 1 \/ (i - 1 \in 1..Len(Tail(q)) /\ Tail(q)[i - 1] = q[i])
OBVIOUS

\* The edge at hand is one of the node's.
LEMMA AtHand ==
  ASSUME Shape, MoreEdges
  PROVE  /\ tried + 1 \in 1..Len(graph[here.at.node]) /\ tried \in Nat
         /\ here \in Arrivals /\ here.at \in States /\ here.at.node \in Nodes
         /\ ThisEdge = graph[here.at.node][tried + 1] /\ ThisEdge \in Edges
         /\ query \in QueryType
BY ReachAssumption DEF Shape, ReachTypeOK, MoreEdges, ThisEdge, Arrivals, States

\* What Follow puts in the queue.
LEMMA FollowArrives ==
  ASSUME Shape, Truthful(here), MoreEdges, Admissible(ThisEdge, here.at.mode)
  PROVE  LET b == [at |-> Along(here.at, ThisEdge), path |-> Append(here.path, ThisEdge)]
         IN  b \in Arrivals /\ Truthful(b) /\ b.at \in States
<1>1. /\ tried + 1 \in 1..Len(graph[here.at.node]) /\ here \in Arrivals
      /\ ThisEdge = graph[here.at.node][tried + 1]
      /\ Admissible(graph[here.at.node][tried + 1], here.at.mode)
  BY AtHand DEF ThisEdge
<1>2. QED
  BY <1>1, ArrivalGrows DEF Arrivals

\* Every step keeps the types and stays within the edges there are.
LEMMA ShapeStep ==
  ASSUME Shape, Truthful(here), [ReachNext]_reachVars
  PROVE  Shape'
<1> USE DEF Shape, ReachTypeOK
<1>1. CASE Arrive
  <2>1. Head(frontier) \in Arrivals /\ Tail(frontier) \in Seq(Arrivals)
    BY <1>1, Queue DEF Arrive
  <2>2. QED
    BY <1>1, <2>1 DEF Arrive
<1>2. CASE Pop
  <2>1. /\ Head(frontier) \in Arrivals /\ Tail(frontier) \in Seq(Arrivals)
        /\ Head(frontier).at.node \in Nodes
    BY <1>2, Queue DEF Pop, Arrivals, States
  <2>2. found' \in [Nodes -> SUBSET Arrivals]
    BY <1>2, <2>1 DEF Pop
  <2>3. here' \in Arrivals /\ here'.at.node \in Nodes /\ tried' = 0 /\ graph' = graph
    BY <1>2, <2>1 DEF Pop
  <2>4. Len(graph[here'.at.node]) \in Nat
    BY <2>3
  <2>5. QED
    BY <1>2, <2>1, <2>2, <2>3, <2>4 DEF Pop
<1>3. CASE Follow
  <2>1. /\ MoreEdges /\ Admissible(ThisEdge, here.at.mode)
    BY <1>3 DEF Follow
  <2>2. /\ [at |-> Along(here.at, ThisEdge), path |-> Append(here.path, ThisEdge)] \in Arrivals
        /\ Along(here.at, ThisEdge) \in States
    BY <2>1, FollowArrives
  <2>3. /\ frontier' \in Seq(Arrivals) /\ seen' \subseteq States
    BY <1>3, <2>2 DEF Follow
  <2>4. tried' \in Nat /\ tried' <= Len(graph[here.at.node])
    BY <1>3, <2>1, AtHand DEF Follow
  <2>5. QED
    BY <1>3, <2>3, <2>4 DEF Follow
<1>4. CASE Skip
  <2>1. tried' \in Nat /\ tried' <= Len(graph[here.at.node])
    BY <1>4, AtHand DEF Skip
  <2>2. QED
    BY <1>4, <2>1 DEF Skip
<1>5. CASE Expanded \/ Exhausted \/ UNCHANGED reachVars
  BY <1>5 DEF Expanded, Exhausted, reachVars
<1>6. QED
  BY <1>1, <1>2, <1>3, <1>4, <1>5 DEF ReachNext

\* Truth is about the graph and the question, which stay.
LEMMA TruthStays ==
  ASSUME UNCHANGED <<graph, query>>, NEW a, Truthful(a)
  PROVE  Truthful(a)'
BY DEF Truthful, IsWalk

\* Every step keeps the arrivals truthful: only Follow makes one.
LEMMA HonestStep ==
  ASSUME Shape, Honest, [ReachNext]_reachVars
  PROVE  Honest'
<1>0. UNCHANGED <<graph, query>>
  BY DEF ReachNext, reachVars, Arrive, Pop, Follow, Skip, Expanded, Exhausted
<1>typed. /\ frontier \in Seq(Arrivals) /\ found \in [Nodes -> SUBSET Arrivals]
          /\ answer \subseteq Arrivals
  BY DEF Shape, ReachTypeOK
<1>true. \A a : Truthful(a) => Truthful(a)'
  BY <1>0, TruthStays
<1>pass. PathsAreWalks /\ UNCHANGED <<found, answer>> => PathsAreWalks'
  BY <1>0, <1>true DEF PathsAreWalks
<1>1. CASE Arrive
  <2>1. /\ Truthful(Head(frontier))
        /\ \A i \in 1..Len(Tail(frontier)) : Truthful(Tail(frontier)[i])
    BY <1>1, <1>typed, Queue DEF Arrive, Honest
  <2>2. /\ answer' = {Head(frontier)} /\ frontier' = Tail(frontier)
        /\ Head(frontier).at.passed /\ Head(frontier).at.node = query.target
        /\ UNCHANGED <<found, here>>
    BY <1>1 DEF Arrive
  <2>3. PathsAreWalks'
    BY <1>0, <1>true, <2>1, <2>2 DEF Honest, PathsAreWalks
  <2>4. QED
    BY <1>0, <1>true, <2>1, <2>2, <2>3 DEF Honest
<1>2. CASE Pop
  <2> DEFINE head == Head(frontier)
  <2>1. /\ Truthful(head) /\ head.at.node \in Nodes
        /\ \A i \in 1..Len(Tail(frontier)) : Truthful(Tail(frontier)[i])
    <3>1. /\ head \in Arrivals /\ head = frontier[1] /\ 1 \in 1..Len(frontier)
          /\ \A i \in 1..Len(Tail(frontier)) :
               Tail(frontier)[i] = frontier[i + 1] /\ i + 1 \in 1..Len(frontier)
      BY <1>2, <1>typed, Queue DEF Pop
    <3>2. head.at.node \in Nodes
      BY <3>1 DEF Arrivals, States
    <3>3. QED
      BY <3>1, <3>2 DEF Honest
  <2>2. /\ here' = head /\ frontier' = Tail(frontier) /\ answer' = answer
        /\ \/ found' = found
           \/ head.at.passed /\ found' = [found EXCEPT ![head.at.node] = {head}]
    BY <1>2 DEF Pop
  <2> HIDE DEF head
  <2>3. \A n \in Nodes : \A a \in found'[n] :
          a \in found[n] \/ (a = head /\ head.at.node = n /\ head.at.passed)
    BY <1>typed, <2>2
  <2>4. PathsAreWalks'
    BY <1>0, <1>true, <2>1, <2>2, <2>3 DEF Honest, PathsAreWalks
  <2>5. QED
    BY <1>0, <1>true, <2>1, <2>2, <2>4 DEF Honest
<1>3. CASE Follow
  <2> DEFINE b == [at |-> Along(here.at, ThisEdge), path |-> Append(here.path, ThisEdge)]
  <2>1. b \in Arrivals /\ Truthful(b)
    BY <1>3, FollowArrives DEF Follow, Honest
  <2>2. frontier' = Append(frontier, b) /\ UNCHANGED <<here, found, answer>>
    BY <1>3 DEF Follow
  <2> HIDE DEF b
  <2>3. \A i \in 1..Len(frontier') :
          frontier'[i] = b \/ (i \in 1..Len(frontier) /\ frontier'[i] = frontier[i])
    BY <1>typed, <2>1, <2>2
  <2>4. \A i \in 1..Len(frontier') : Truthful(frontier'[i])
    BY <2>1, <2>3 DEF Honest
  <2>5. QED
    BY <1>0, <1>true, <1>pass, <2>2, <2>4 DEF Honest
<1>4. CASE Skip \/ Expanded \/ Exhausted \/ UNCHANGED reachVars
  <2>1. UNCHANGED <<frontier, here, found, answer>>
    BY <1>4 DEF Skip, Expanded, Exhausted, reachVars
  <2>2. QED
    BY <1>0, <1>true, <1>pass, <2>1 DEF Honest
<1>5. QED
  BY <1>1, <1>2, <1>3, <1>4 DEF ReachNext
-----------------------------------------------------------------------------

\* What is closed stays closed: states are only ever added.
LEMMA ClosedStays ==
  ASSUME UNCHANGED <<graph, query>>, seen \subseteq seen', NEW s, NEW many, Closed(s, many)
  PROVE  Closed(s, many)'
BY DEF Closed, Admissible, Usable, Along

\* What is kept stays kept: so are arrivals.
LEMMA KeptStays ==
  ASSUME UNCHANGED query, NEW s \in States,
         \A n \in Nodes : found[n] # {} => found'[n] # {},
         Kept(s)
  PROVE  Kept(s)'
BY DEF Kept, States

\* So a state that is done with stays done with.
LEMMA DoneStays ==
  ASSUME UNCHANGED <<graph, query>>, seen \subseteq seen', NEW s \in States,
         \A n \in Nodes : found[n] # {} => found'[n] # {},
         DoneWith(s)
  PROVE  DoneWith(s)'
<1>1. Closed(s, Len(graph[s.node]))'
  BY ClosedStays DEF DoneWith
<1>2. Kept(s)'
  BY KeptStays DEF DoneWith
<1>3. QED
  BY <1>1, <1>2 DEF DoneWith

\* Closing one more edge.
LEMMA ClosedGrows ==
  ASSUME UNCHANGED <<graph, query>>, seen \subseteq seen',
         NEW s, NEW many \in Nat, Closed(s, many),
         Admissible(graph[s.node][many + 1], s.mode) =>
           Along(s, graph[s.node][many + 1]) \in seen'
  PROVE  Closed(s, many + 1)'
<1>1. \A i \in 1..(many + 1) : i \in 1..many \/ i = many + 1
  OBVIOUS
<1>2. QED
  BY <1>1 DEF Closed, Admissible, Usable, Along

\* Every step accounts for the states it enqueues or takes up.
LEMMA CoveredStep ==
  ASSUME Shape, Honest, Covered, [ReachNext]_reachVars
  PROVE  Covered'
<1>0. /\ UNCHANGED <<graph, query>> /\ seen \subseteq seen'
      /\ seen \subseteq States /\ frontier \in Seq(Arrivals)
      /\ here \in Arrivals /\ tried \in Nat
  BY DEF ReachNext, reachVars, Arrive, Pop, Follow, Skip, Expanded, Exhausted, Shape, ReachTypeOK
<1>start. (StartState \in seen)'
  <2>1. StartState' = StartState /\ StartState \in seen
    BY <1>0 DEF Covered, StartState
  <2>2. QED
    BY <1>0, <2>1
<1>1. CASE Arrive
  BY <1>1, <1>start DEF Arrive, Covered
<1>2. CASE Pop
  <2> DEFINE head == Head(frontier)
  <2>1. /\ answer' = answer /\ pc = "pop" /\ pc' = "expand" /\ tried' = 0
        /\ seen' = seen /\ frontier' = Tail(frontier) /\ here' = head
        /\ ~(head.at.passed /\ head.at.node = query.target)
        /\ found' = IF head.at.passed /\ found[head.at.node] = {}
                      THEN [found EXCEPT ![head.at.node] = {head}] ELSE found
    BY <1>2 DEF Pop
  <2>2. /\ head \in Arrivals /\ head.at \in States /\ head.at.node \in Nodes
        /\ frontier[1] = head /\ Len(frontier) \in Nat
        /\ \A i \in 1..Len(frontier) :
             i = 1 \/ (i - 1 \in 1..Len(Tail(frontier)) /\ Tail(frontier)[i - 1] = frontier[i])
    BY <1>0, <1>2, Queue DEF Pop, Arrivals, States
  <2>3. /\ \A n \in Nodes : found[n] # {} => found'[n] # {}
        /\ head.at.passed => found'[head.at.node] # {}
    <3>1. found \in [Nodes -> SUBSET Arrivals]
      BY DEF Shape, ReachTypeOK
    <3>2. QED
      BY <2>1, <2>2, <3>1
  <2> HIDE DEF head
  <2>4. ASSUME answer' = {}, NEW s \in seen'
        PROVE  Waiting(s)' \/ InHand(s)' \/ DoneWith(s)'
    <3>1. s \in States /\ (Waiting(s) \/ DoneWith(s))
      BY <1>0, <2>1, <2>4 DEF Covered, InHand
    <3>2. CASE DoneWith(s)
      BY <1>0, <2>1, <2>3, <3>1, <3>2, DoneStays
    <3>3. CASE \E i \in 1..Len(frontier) : i # 1 /\ frontier[i].at = s
      BY <2>1, <2>2, <3>3 DEF Waiting
    <3>4. CASE frontier[1].at = s
      <4>1. here'.at = s /\ Kept(s)'
        BY <1>0, <2>1, <2>2, <2>3, <3>4 DEF Kept
      <4>2. Closed(s, 0)'
        BY DEF Closed
      <4>3. QED
        BY <2>1, <4>1, <4>2 DEF InHand
    <3>5. QED
      BY <3>1, <3>2, <3>3, <3>4 DEF Waiting
  <2>5. QED
    BY <1>start, <2>1, <2>4 DEF Covered
<1>3. CASE Follow
  <2> DEFINE there == Along(here.at, ThisEdge)
             b == [at |-> there, path |-> Append(here.path, ThisEdge)]
  <2>1. /\ answer' = answer /\ pc = "expand" /\ pc' = "expand" /\ tried' = tried + 1
        /\ seen' = seen \cup {there} /\ frontier' = Append(frontier, b)
        /\ UNCHANGED <<here, found>>
    BY <1>3 DEF Follow, MoreEdges
  <2>2. b \in Arrivals /\ b.at = there
    BY <1>3, FollowArrives DEF Follow, Honest
  <2> HIDE DEF b
  <2>3. /\ \A i \in 1..Len(frontier) : i \in 1..Len(frontier') /\ frontier'[i] = frontier[i]
        /\ Len(frontier) + 1 \in 1..Len(frontier') /\ frontier'[Len(frontier) + 1] = b
    BY <1>0, <2>1, <2>2
  <2>4. ASSUME answer' = {}, NEW s \in seen'
        PROVE  Waiting(s)' \/ InHand(s)' \/ DoneWith(s)'
    <3>1. CASE s = there
      BY <2>2, <2>3, <3>1 DEF Waiting
    <3>2. CASE s \in seen /\ Waiting(s)
      BY <2>3, <3>2 DEF Waiting
    <3>3. CASE s \in seen /\ DoneWith(s)
      BY <1>0, <2>1, <3>3, DoneStays
    <3>4. CASE s \in seen /\ InHand(s)
      <4>1. s = here.at /\ s \in States /\ Kept(s) /\ Closed(s, tried)
        BY <1>0, <3>4 DEF InHand
      <4>2. Along(s, graph[s.node][tried + 1]) \in seen'
        BY <2>1, <4>1 DEF ThisEdge
      <4>3. PICK m \in Nat : m = tried
        BY <1>0
      <4>4. Closed(s, m + 1)'
        BY <1>0, <4>1, <4>2, <4>3, ClosedGrows
      <4>5. Closed(s, tried)'
        BY <2>1, <4>3, <4>4 DEF Closed
      <4>6. Kept(s)'
        BY <1>0, <2>1, <4>1 DEF Kept
      <4>7. QED
        BY <2>1, <4>1, <4>5, <4>6 DEF InHand
    <3>5. QED
      BY <2>1, <2>4, <3>1, <3>2, <3>3, <3>4 DEF Covered
  <2>5. QED
    BY <1>start, <2>1, <2>4 DEF Covered
<1>4. CASE Skip
  <2>1. /\ pc = "expand" /\ pc' = "expand" /\ tried' = tried + 1
        /\ UNCHANGED <<answer, seen, frontier, here, found>>
        /\ ~Admissible(ThisEdge, here.at.mode) \/ Along(here.at, ThisEdge) \in seen
    BY <1>4 DEF Skip, MoreEdges
  <2>2. ASSUME answer' = {}, NEW s \in seen'
        PROVE  Waiting(s)' \/ InHand(s)' \/ DoneWith(s)'
    <3>1. CASE Waiting(s)
      BY <2>1, <3>1 DEF Waiting
    <3>2. CASE DoneWith(s)
      BY <1>0, <2>1, <2>2, <3>2, DoneStays
    <3>3. CASE InHand(s)
      <4>1. s = here.at /\ s \in States /\ Kept(s) /\ Closed(s, tried)
        BY <1>0, <2>1, <2>2, <3>3 DEF InHand
      <4>2. Admissible(graph[s.node][tried + 1], s.mode) =>
              Along(s, graph[s.node][tried + 1]) \in seen'
        BY <2>1, <4>1 DEF ThisEdge
      <4>3. PICK m \in Nat : m = tried
        BY <1>0
      <4>4. Closed(s, m + 1)'
        BY <1>0, <4>1, <4>2, <4>3, ClosedGrows
      <4>5. Closed(s, tried)'
        BY <2>1, <4>3, <4>4 DEF Closed
      <4>6. Kept(s)'
        BY <1>0, <2>1, <4>1 DEF Kept
      <4>7. QED
        BY <2>1, <4>1, <4>5, <4>6 DEF InHand
    <3>4. QED
      BY <2>1, <2>2, <3>1, <3>2, <3>3 DEF Covered
  <2>3. QED
    BY <1>start, <2>1, <2>2 DEF Covered
<1>5. CASE Expanded \/ Exhausted \/ UNCHANGED reachVars
  <2>1. /\ UNCHANGED <<answer, seen, frontier, here, found, tried>>
        /\ \/ pc = "expand" /\ pc' = "pop" /\ tried = Len(graph[here.at.node])
           \/ pc = "pop" /\ pc' = "done" /\ frontier = <<>>
           \/ pc' = pc
    BY <1>5 DEF Expanded, Exhausted, reachVars
  <2>2. ASSUME answer' = {}, NEW s \in seen'
        PROVE  Waiting(s)' \/ InHand(s)' \/ DoneWith(s)'
    <3>1. CASE Waiting(s)
      BY <2>1, <3>1 DEF Waiting
    <3>2. CASE DoneWith(s)
      BY <1>0, <2>1, <2>2, <3>2, DoneStays
    <3>3. CASE InHand(s)
      <4>1. s = here.at /\ s \in States /\ Kept(s) /\ Closed(s, tried) /\ pc = "expand"
        BY <1>0, <2>1, <2>2, <3>3 DEF InHand
      <4>2. Closed(s, tried)' /\ Kept(s)'
        BY <1>0, <2>1, <4>1, ClosedStays, KeptStays
      <4>3. QED
        BY <1>0, <2>1, <4>1, <4>2 DEF InHand, DoneWith
    <3>4. QED
      BY <2>1, <2>2, <3>1, <3>2, <3>3 DEF Covered
  <2>3. pc' = "done" /\ answer' = {} => frontier' = <<>>
    BY <2>1 DEF Covered
  <2>4. QED
    BY <1>start, <2>1, <2>2, <2>3 DEF Covered
<1>6. QED
  BY <1>1, <1>2, <1>3, <1>4, <1>5 DEF ReachNext
-----------------------------------------------------------------------------

\* The invariant of a walk.
THEOREM WalkInvariant == ReachSpec => [](Shape /\ Honest /\ Covered)
<1>1. ReachInit => Shape /\ Honest /\ Covered
  BY WalkInit
<1>2. Shape /\ Honest /\ Covered /\ [ReachNext]_reachVars => (Shape /\ Honest /\ Covered)'
  BY ShapeStep, HonestStep, CoveredStep DEF Honest
<1>3. QED
  BY <1>1, <1>2, PTL DEF ReachSpec

\* The walk keeps its types on every graph.
THEOREM WalkTypes == ReachSpec => []ReachTypeOK
BY WalkInvariant, PTL DEF Shape

\* Every path a walk returns is one of the code, on every graph and for every question:
\* no guessed call in a resolved walk, no consequence before its delete.
THEOREM EveryPathIsAWalk == ReachSpec => []PathsAreWalks
BY WalkInvariant, PTL DEF Honest

\* A walk that does not find its target, or that has none, has been everywhere it may
\* go, whatever cycles the graph has.
THEOREM NoStoreMissed == ReachSpec => []NothingMissed
<1>1. Shape /\ Honest /\ Covered => NothingMissed
  <2> SUFFICES ASSUME Covered, pc = "done", answer = {} PROVE NothingMissed
    BY DEF NothingMissed
  <2>1. frontier = <<>>
    BY DEF Covered
  <2>2. \A s \in seen : DoneWith(s)
    BY <2>1 DEF Covered, Waiting, InHand
  <2>3. QED
    BY <2>2 DEF NothingMissed, DoneWith, Closed, Kept, Covered
<1>2. QED
  BY <1>1, WalkInvariant, PTL
=============================================================================
