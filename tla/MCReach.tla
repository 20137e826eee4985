------------------------------- MODULE MCReach -------------------------------
(* Every repository that can be cut out of a small one.  E is the view f, X the admin    *)
(* of A; f and the delete override g of A call one another's code, h is a receiver of    *)
(* the deletes of A and B, C is a file store.                                            *)
EXTENDS Reach, SequencesExt, FiniteSetsExt

CONSTANTS E, X, f, g, h, A, B, C

E_(src, dst, kind, sets, guess) ==
  [src |-> src, dst |-> dst, kind |-> kind, sets |-> sets, ambiguous |-> guess]

\* Sorted as _out sorts them, by destination and kind.
Code == <<E_(f, A, "SE12", "queryset_delete", FALSE), E_(g, A, "SE12", "model_delete", FALSE),
          E_(X, A, "SE10", "queryset_delete", FALSE),
          E_(A, B, "SE1", "keep", FALSE), E_(A, B, "SE4", "db_cascade", FALSE),
          E_(A, B, "SE7", "keep", FALSE), E_(h, B, "SE12", "raw_sql", FALSE),
          E_(h, C, "SE12", "keep", FALSE),
          E_(f, g, "call", "keep", FALSE), E_(f, g, "call", "keep", TRUE),
          E_(A, g, "SE8", "keep", FALSE),
          E_(A, h, "SE2", "keep", FALSE), E_(B, h, "SE2", "keep", FALSE),
          E_(g, h, "call", "keep", TRUE), E_(E, f, "entry", "keep", FALSE)>>

\* A foreign key has one on_delete; a call site is resolved or a guess.
Possible(chosen) ==
  /\ Cardinality({e \in chosen : e.src = A /\ e.dst = B}) <= 1
  /\ Cardinality({e \in chosen : e.src = f /\ e.dst = g}) <= 1
  /\ Cardinality({e \in chosen : e.src = h}) <= 1
  /\ Cardinality({e \in chosen : e.kind = "SE2"}) # 1

Always == {e \in ToSet(Code) : e.kind \in {"entry", "SE10"}}

MCNodes == {E, X, f, g, h, A, B, C}
MCGraphs == {[n \in MCNodes |-> SelectSeq(Code, LAMBDA e : e.src = n /\ e \in chosen \cup Always)] :
               chosen \in {S \in SUBSET (ToSet(Code) \ Always) : Possible(S)}}

Walk(start, resolved, blocked) ==
  [start |-> start, target |-> NoNode, through |-> {}, resolved |-> resolved, blocked |-> blocked]
PathExists(start, target, through) ==
  [start |-> start, target |-> target, through |-> through, resolved |-> FALSE, blocked |-> {}]

MCQueries == {Walk(E, TRUE, {}), Walk(E, FALSE, {}), Walk(E, TRUE, {g}), Walk(X, TRUE, {}),
              PathExists(E, B, {}), PathExists(E, B, {g}), PathExists(h, C, {})}
=============================================================================
