----------------------- MODULE SemanticQueryStoreProofs -----------------------
(***************************************************************************)
(* Proofs about SemanticQueryStore, for every finite set of keys and every  *)
(* set of callers, with any dependencies, invalidations and limits.         *)
(***************************************************************************)
EXTENDS SemanticQueryStore, FiniteSetTheorems, FunctionTheorems, SequenceTheorems,
        WellFoundedInduction, TLAPS

-----------------------------------------------------------------------------
(***************************************************************************)
(* The maps of a store, and what its operations keep.                       *)
(***************************************************************************)
Kinds == {Absent, Placeholder, Value}
StoreType ==
  [kind : [Keys -> Kinds], result : [Keys -> Result], order : Seq(Keys),
   pending : SUBSET Keys, epoch : [Keys -> Nat], deps : [Keys -> SUBSET Keys],
   stale : [Keys -> SUBSET Keys], index : SUBSET Keys]

\* What is kept about key k is kept for something, and what is not is forgotten.
TidyAt(s, k) ==
  /\ k \in s.index <=> ~Unused(s, k)
  /\ Unused(s, k) => s.epoch[k] = 0 /\ s.stale[k] = {}
Tidy(s) == \A k \in Keys : TidyAt(s, k)

\* From s to t no build in flight gets its epoch back, and, but for the keys in
\* but, a completed value is the one that was there, with all its reasons.
Keeps(s, t, but) ==
  /\ t.pending = s.pending
  /\ \A k \in s.pending : s.epoch[k] <= t.epoch[k]
  /\ \A k \in Keys \ but : t.kind[k] = Value =>
       /\ s.kind[k] = Value /\ t.result[k] = s.result[k] /\ t.deps[k] = s.deps[k]
       /\ s.stale[k] \subseteq t.stale[k]

\* The maps of a store have their types.
LEMMA StoreFields ==
  ASSUME NEW s \in StoreType
  PROVE  /\ s.kind \in [Keys -> Kinds] /\ s.result \in [Keys -> Result]
         /\ s.order \in Seq(Keys) /\ s.pending \in SUBSET Keys
         /\ s.epoch \in [Keys -> Nat] /\ s.deps \in [Keys -> SUBSET Keys]
         /\ s.stale \in [Keys -> SUBSET Keys] /\ s.index \in SUBSET Keys
BY DEF StoreType

\* maybeRemoveKeyMetadataLocked takes epoch, reasons and index of unused keys.
LEMMA DropUnusedFacts ==
  ASSUME NEW s \in StoreType, NEW keys
  PROVE  LET t == DropUnused(s, keys) IN
         /\ t \in StoreType
         /\ t.kind = s.kind /\ t.result = s.result /\ t.order = s.order
         /\ t.pending = s.pending /\ t.deps = s.deps
         /\ t.index = s.index \ {k \in keys : Unused(s, k)}
         /\ \A k \in Keys :
              IF k \in keys /\ Unused(s, k) THEN t.epoch[k] = 0 /\ t.stale[k] = {}
              ELSE t.epoch[k] = s.epoch[k] /\ t.stale[k] = s.stale[k]
<1> DEFINE gone == {k \in keys : Unused(s, k)}
           epoch == [k \in Keys |-> IF k \in gone THEN 0 ELSE s.epoch[k]]
           stale == [k \in Keys |-> IF k \in gone THEN {} ELSE s.stale[k]]
           a == [s EXCEPT !.index = @ \ gone]
           b == [a EXCEPT !.epoch = epoch]
           t == DropUnused(s, keys)
<1>1. epoch \in [Keys -> Nat] /\ stale \in [Keys -> SUBSET Keys]
  BY StoreFields
<1>2. a \in StoreType /\ a.index = s.index \ gone
  BY StoreFields DEF StoreType
<1>3. /\ a.kind = s.kind /\ a.result = s.result /\ a.order = s.order
      /\ a.pending = s.pending /\ a.deps = s.deps /\ a.epoch = s.epoch /\ a.stale = s.stale
  BY DEF StoreType
<1>4. t = [b EXCEPT !.stale = stale]
  BY <1>3 DEF DropUnused
<1> HIDE DEF a, epoch, stale
<1>5. /\ b \in StoreType /\ b.index = a.index
      /\ b.kind = a.kind /\ b.result = a.result /\ b.order = a.order
      /\ b.pending = a.pending /\ b.deps = a.deps /\ b.epoch = epoch
  BY <1>1, <1>2 DEF StoreType
<1> HIDE DEF b, t
<1>6. /\ t \in StoreType /\ t.index = b.index
      /\ t.kind = b.kind /\ t.result = b.result /\ t.order = b.order
      /\ t.pending = b.pending /\ t.deps = b.deps /\ t.epoch = b.epoch /\ t.stale = stale
  BY <1>1, <1>4, <1>5 DEF StoreType
<1>7. \A k \in Keys :
        IF k \in keys /\ Unused(s, k) THEN t.epoch[k] = 0 /\ t.stale[k] = {}
        ELSE t.epoch[k] = s.epoch[k] /\ t.stale[k] = s.stale[k]
  BY <1>5, <1>6 DEF epoch, stale
<1>8. QED
  BY <1>2, <1>3, <1>5, <1>6, <1>7 DEF t

\* It leaves a tidy store if only the keys it looks at were not.
LEMMA DropUnusedTidies ==
  ASSUME NEW s \in StoreType, NEW keys, \A k \in Keys \ keys : TidyAt(s, k),
         \A k \in Keys \cap keys : ~Unused(s, k) => k \in s.index
  PROVE  Tidy(DropUnused(s, keys))
<1> DEFINE t == DropUnused(s, keys)
<1>1. \A k \in Keys : Unused(t, k) <=> Unused(s, k)
  BY DropUnusedFacts DEF Unused, Parents
<1> HIDE DEF t
<1> SUFFICES ASSUME NEW k \in Keys PROVE TidyAt(t, k)
  BY DEF Tidy, t
<1>2. CASE k \in keys
  BY <1>1, <1>2, DropUnusedFacts DEF TidyAt, t
<1>3. CASE k \notin keys
  BY <1>1, <1>3, DropUnusedFacts DEF TidyAt, t
<1>4. QED
  BY <1>2, <1>3

\* The entry and the edges of a key gone, before metadata is looked at.
Emptied(s, k) ==
  [s EXCEPT !.kind[k] = Absent, !.result[k] = NoResult, !.deps[k] = {}, !.stale[k] = {}]

LEMMA EmptiedFacts ==
  ASSUME NEW s \in StoreType, NEW k \in Keys
  PROVE  LET t == Emptied(s, k) IN
         /\ t \in StoreType
         /\ t.kind = [s.kind EXCEPT ![k] = Absent]
         /\ t.result = [s.result EXCEPT ![k] = NoResult]
         /\ t.deps = [s.deps EXCEPT ![k] = {}]
         /\ t.stale = [s.stale EXCEPT ![k] = {}]
         /\ t.order = s.order /\ t.pending = s.pending
         /\ t.epoch = s.epoch /\ t.index = s.index
<1> DEFINE kind == [s.kind EXCEPT ![k] = Absent]
           result == [s.result EXCEPT ![k] = NoResult]
           deps == [s.deps EXCEPT ![k] = {}]
           stale == [s.stale EXCEPT ![k] = {}]
           a == [s EXCEPT !.kind = kind]
           b == [a EXCEPT !.result = result]
           c == [b EXCEPT !.deps = deps]
           t == Emptied(s, k)
<1>1. /\ kind \in [Keys -> Kinds] /\ deps \in [Keys -> SUBSET Keys]
      /\ stale \in [Keys -> SUBSET Keys]
  BY StoreFields DEF Kinds
<1>2. result \in [Keys -> Result]
  BY StoreFields, BoundsAssumption DEF NoResult, Result, Outputs
<1>3. t = [c EXCEPT !.stale = stale]
  BY DEF Emptied, StoreType
<1> HIDE DEF kind, result, deps, stale
<1>4. /\ a \in StoreType /\ a.kind = kind
      /\ a.result = s.result /\ a.order = s.order /\ a.pending = s.pending
      /\ a.epoch = s.epoch /\ a.deps = s.deps /\ a.stale = s.stale /\ a.index = s.index
  BY <1>1 DEF StoreType
<1> HIDE DEF a
<1>5. /\ b \in StoreType /\ b.kind = a.kind /\ b.result = result
      /\ b.order = a.order /\ b.pending = a.pending
      /\ b.epoch = a.epoch /\ b.deps = a.deps /\ b.stale = a.stale /\ b.index = a.index
  BY <1>2, <1>4 DEF StoreType
<1> HIDE DEF b
<1>6. /\ c \in StoreType /\ c.kind = b.kind /\ c.result = b.result
      /\ c.order = b.order /\ c.pending = b.pending
      /\ c.epoch = b.epoch /\ c.deps = deps /\ c.stale = b.stale /\ c.index = b.index
  BY <1>1, <1>5 DEF StoreType
<1> HIDE DEF c, t
<1>7. /\ t \in StoreType /\ t.kind = c.kind /\ t.result = c.result
      /\ t.order = c.order /\ t.pending = c.pending
      /\ t.epoch = c.epoch /\ t.deps = c.deps /\ t.stale = stale /\ t.index = c.index
  BY <1>1, <1>3, <1>6 DEF StoreType
<1>8. QED
  BY <1>4, <1>5, <1>6, <1>7 DEF t, kind, result, deps, stale

\* removeNodeLocked removes one entry and keeps the rest.
LEMMA RemoveNodeFacts ==
  ASSUME NEW s \in StoreType, NEW k \in Keys
  PROVE  LET t == RemoveNode(s, k) IN
         /\ t \in StoreType /\ t.order = s.order /\ t.pending = s.pending
         /\ t.kind = [s.kind EXCEPT ![k] = Absent]
         /\ Entries(t) = Entries(s) \ {k}
         /\ Keeps(s, t, {})
         /\ Tidy(s) => Tidy(t)
<1> DEFINE e == Emptied(s, k)
           t == RemoveNode(s, k)
<1>1. t = DropUnused(e, s.deps[k] \cup {k})
  BY DEF RemoveNode, Emptied
<1>2. /\ e \in StoreType
      /\ e.kind = [s.kind EXCEPT ![k] = Absent]
      /\ e.result = [s.result EXCEPT ![k] = NoResult]
      /\ e.deps = [s.deps EXCEPT ![k] = {}]
      /\ e.stale = [s.stale EXCEPT ![k] = {}]
      /\ e.order = s.order /\ e.pending = s.pending
      /\ e.epoch = s.epoch /\ e.index = s.index
  BY EmptiedFacts
<1> HIDE DEF e, t
<1>3. /\ t \in StoreType
      /\ t.kind = e.kind /\ t.result = e.result /\ t.order = e.order
      /\ t.pending = e.pending /\ t.deps = e.deps
      /\ \A j \in Keys : ~Unused(e, j) => t.epoch[j] = e.epoch[j] /\ t.stale[j] = e.stale[j]
  <2> DEFINE keys == s.deps[k] \cup {k}
             u == DropUnused(e, keys)
  <2> HIDE DEF keys
  <2>a. e \in StoreType
    BY <1>2
  <2>1. /\ u \in StoreType
        /\ u.kind = e.kind /\ u.result = e.result /\ u.order = e.order
        /\ u.pending = e.pending /\ u.deps = e.deps
        /\ \A j \in Keys : ~Unused(e, j) => u.epoch[j] = e.epoch[j] /\ u.stale[j] = e.stale[j]
    BY <2>a, DropUnusedFacts
  <2>2. QED
    BY <1>1, <2>1 DEF keys
<1>4. Keeps(s, t, {})
  <2>1. \A j \in s.pending : ~Unused(e, j)
    BY <1>2 DEF Unused
  <2>2. \A j \in Keys : t.kind[j] = Value => j # k /\ s.kind[j] = Value /\ ~Unused(e, j)
    BY <1>2, <1>3, StoreFields DEF Unused, Absent, Value
  <2>3. \A j \in s.pending : s.epoch[j] <= t.epoch[j]
    BY <1>2, <1>3, <2>1, StoreFields
  <2>4. \A j \in Keys : t.kind[j] = Value =>
          /\ s.kind[j] = Value /\ t.result[j] = s.result[j] /\ t.deps[j] = s.deps[j]
          /\ s.stale[j] \subseteq t.stale[j]
    BY <1>2, <1>3, <2>2, StoreFields
  <2>5. QED
    BY <1>2, <1>3, <2>3, <2>4 DEF Keeps
<1>5. ASSUME Tidy(s) PROVE Tidy(t)
  <2>1. \A j \in Keys : Unused(s, j) => Unused(e, j)
    BY <1>2, StoreFields DEF Unused, Parents
  <2>2. ASSUME NEW j \in Keys \ (s.deps[k] \cup {k}) PROVE TidyAt(e, j)
    <3>1. Parents(e, j) = Parents(s, j)
      BY <1>2, StoreFields DEF Parents
    <3>2. Unused(e, j) <=> Unused(s, j)
      BY <1>2, <3>1, StoreFields DEF Unused
    <3>3. QED
      BY <1>2, <1>5, <3>2, StoreFields DEF Tidy, TidyAt
  <2>3. ASSUME NEW j \in Keys, ~Unused(e, j) PROVE j \in e.index
    BY <1>2, <1>5, <2>1, <2>3 DEF Tidy, TidyAt
  <2>4. QED
    BY <1>1, <1>2, <2>2, <2>3, DropUnusedTidies
<1>6. Entries(t) = Entries(s) \ {k}
  BY <1>2, <1>3, StoreFields DEF Entries
<1>7. QED
  BY <1>2, <1>3, <1>4, <1>5, <1>6 DEF t

\* recordDependenciesLocked replaces the edges of a key that has an entry.
LEMMA RecordFacts ==
  ASSUME NEW s \in StoreType, NEW k \in Keys, NEW deps \in SUBSET Keys, s.kind[k] # Absent
  PROVE  LET t == Record(s, k, deps) IN
         /\ t \in StoreType
         /\ t.kind = s.kind /\ t.result = s.result /\ t.order = s.order
         /\ t.pending = s.pending /\ t.deps = [s.deps EXCEPT ![k] = deps]
         /\ \A j \in Keys : s.kind[j] # Absent \/ j \in s.pending =>
              t.epoch[j] = s.epoch[j] /\ t.stale[j] = s.stale[j]
         /\ (\A j \in Keys \ {k} : TidyAt(s, j)) => Tidy(t)
<1> DEFINE e == [s EXCEPT !.deps[k] = {}]
           cut == DropUnused(e, s.deps[k])
           d == [cut EXCEPT !.deps[k] = deps]
           t == Record(s, k, deps)
<1>1. /\ e \in StoreType /\ e.deps = [s.deps EXCEPT ![k] = {}]
      /\ e.kind = s.kind /\ e.result = s.result /\ e.order = s.order /\ e.pending = s.pending
      /\ e.epoch = s.epoch /\ e.stale = s.stale /\ e.index = s.index
  <2>1. [s.deps EXCEPT ![k] = {}] \in [Keys -> SUBSET Keys]
    BY StoreFields
  <2>2. QED
    BY <2>1 DEF StoreType
<1> HIDE DEF e
<1>2. /\ cut \in StoreType
      /\ cut.kind = e.kind /\ cut.result = e.result /\ cut.order = e.order
      /\ cut.pending = e.pending /\ cut.deps = e.deps
      /\ cut.index = e.index \ {j \in s.deps[k] : Unused(e, j)}
      /\ \A j \in Keys :
           IF j \in s.deps[k] /\ Unused(e, j) THEN cut.epoch[j] = 0 /\ cut.stale[j] = {}
           ELSE cut.epoch[j] = e.epoch[j] /\ cut.stale[j] = e.stale[j]
  BY <1>1, DropUnusedFacts
<1>3. t = [d EXCEPT !.index = @ \cup deps \cup {k}]
  BY DEF Record, e
<1> HIDE DEF cut
<1>4. /\ d \in StoreType /\ d.deps = [cut.deps EXCEPT ![k] = deps]
      /\ d.kind = cut.kind /\ d.result = cut.result /\ d.order = cut.order
      /\ d.pending = cut.pending /\ d.epoch = cut.epoch /\ d.stale = cut.stale
      /\ d.index = cut.index
  <2>1. [cut.deps EXCEPT ![k] = deps] \in [Keys -> SUBSET Keys]
    BY <1>2, StoreFields
  <2>2. QED
    BY <1>2, <2>1 DEF StoreType
<1> HIDE DEF d, t
<1>5. /\ t \in StoreType /\ t.index = d.index \cup deps \cup {k}
      /\ t.kind = d.kind /\ t.result = d.result /\ t.order = d.order
      /\ t.pending = d.pending /\ t.epoch = d.epoch /\ t.stale = d.stale /\ t.deps = d.deps
  <2>1. d.index \cup deps \cup {k} \in SUBSET Keys
    BY <1>4, StoreFields
  <2>2. QED
    BY <1>3, <1>4, <2>1 DEF StoreType
<1>6. t.deps = [s.deps EXCEPT ![k] = deps]
  <2>1. t.deps = [[s.deps EXCEPT ![k] = {}] EXCEPT ![k] = deps]
    BY <1>1, <1>2, <1>4, <1>5
  <2>2. s.deps \in [Keys -> SUBSET Keys]
    BY StoreFields
  <2>3. QED
    BY <2>1, <2>2
<1>7. ASSUME NEW j \in Keys, s.kind[j] # Absent \/ j \in s.pending
      PROVE  t.epoch[j] = s.epoch[j] /\ t.stale[j] = s.stale[j]
  <2>1. ~Unused(e, j)
    BY <1>1, <1>7 DEF Unused
  <2>2. QED
    BY <1>1, <1>2, <1>4, <1>5, <2>1
<1>8. ASSUME \A j \in Keys \ {k} : TidyAt(s, j), NEW j \in Keys PROVE TidyAt(t, j)
  <2>1. CASE j = k
    BY <1>1, <1>2, <1>4, <1>5, <2>1 DEF TidyAt, Unused
  <2>2. CASE j # k /\ j \in deps
    <3>1. k \in Parents(t, j)
      BY <1>6, <2>2, StoreFields DEF Parents
    <3>2. ~Unused(t, j)
      BY <3>1 DEF Unused
    <3>3. QED
      BY <1>5, <2>2, <3>2 DEF TidyAt
  <2>3. CASE j # k /\ j \notin deps
    <3>1. Parents(t, j) = Parents(e, j)
      BY <1>1, <1>6, <2>3, StoreFields DEF Parents
    <3>2. Unused(t, j) <=> Unused(e, j)
      BY <1>1, <1>2, <1>4, <1>5, <1>6, <2>3, <3>1, StoreFields DEF Unused
    <3>3. j \in t.index <=> j \in s.index /\ ~(j \in s.deps[k] /\ Unused(e, j))
      BY <1>1, <1>2, <1>4, <1>5, <2>3
    <3>4. CASE j \in s.deps[k]
      <4>1. k \in Parents(s, j)
        BY <3>4 DEF Parents
      <4>2. j \in s.index
        BY <1>8, <2>3, <4>1 DEF TidyAt, Unused
      <4>3. QED
        BY <1>2, <1>4, <1>5, <3>2, <3>3, <3>4, <4>2 DEF TidyAt
    <3>5. CASE j \notin s.deps[k]
      <4>1. Parents(e, j) = Parents(s, j)
        BY <1>1, <3>5, StoreFields DEF Parents
      <4>2. Unused(e, j) <=> Unused(s, j)
        BY <1>1, <2>3, <4>1, StoreFields DEF Unused
      <4>3. t.epoch[j] = s.epoch[j] /\ t.stale[j] = s.stale[j]
        BY <1>1, <1>2, <1>4, <1>5, <3>5
      <4>4. TidyAt(s, j)
        BY <1>8, <2>3
      <4>5. QED
        BY <3>2, <3>3, <3>5, <4>2, <4>3, <4>4 DEF TidyAt
    <3>6. QED
      BY <3>4, <3>5
  <2>4. QED
    BY <2>1, <2>2, <2>3
<1>9. QED
  BY <1>1, <1>2, <1>4, <1>5, <1>6, <1>7, <1>8 DEF t, Tidy

\* markStaleReasonLocked gives an entry its reasons and each key its epochs.
LEMMA MarkFacts ==
  ASSUME NEW s \in StoreType, NEW reasons \in [Keys -> SUBSET Keys]
  PROVE  LET t == Mark(s, reasons) IN
         /\ t \in StoreType
         /\ t.kind = s.kind /\ t.result = s.result /\ t.order = s.order
         /\ t.pending = s.pending /\ t.deps = s.deps /\ t.index = s.index
         /\ \A k \in Keys :
              /\ t.stale[k] = IF s.kind[k] = Absent THEN s.stale[k] ELSE s.stale[k] \cup reasons[k]
              /\ s.epoch[k] <= t.epoch[k]
              /\ reasons[k] # {} => s.epoch[k] < t.epoch[k]
              /\ reasons[k] = {} => s.epoch[k] = t.epoch[k]
<1> DEFINE stale == [k \in Keys |-> IF s.kind[k] = Absent THEN s.stale[k]
                                     ELSE s.stale[k] \cup reasons[k]]
           epoch == [k \in Keys |-> s.epoch[k] + Cardinality(reasons[k])]
           a == [s EXCEPT !.stale = stale]
           t == Mark(s, reasons)
<1>1. \A k \in Keys : /\ Cardinality(reasons[k]) \in Nat
                      /\ reasons[k] # {} => Cardinality(reasons[k]) > 0
                      /\ reasons[k] = {} => Cardinality(reasons[k]) = 0
  <2> SUFFICES ASSUME NEW k \in Keys
               PROVE  /\ Cardinality(reasons[k]) \in Nat
                      /\ reasons[k] # {} => Cardinality(reasons[k]) > 0
                      /\ reasons[k] = {} => Cardinality(reasons[k]) = 0
    OBVIOUS
  <2>1. IsFiniteSet(reasons[k])
    BY KeysAssumption, FS_Subset
  <2>2. QED
    BY <2>1, FS_CardinalityType, FS_EmptySet
<1>2. stale \in [Keys -> SUBSET Keys] /\ epoch \in [Keys -> Nat]
  BY <1>1, StoreFields
<1>3. t = [a EXCEPT !.epoch = epoch]
  BY DEF Mark, StoreType
<1> HIDE DEF stale, epoch
<1>4. /\ a \in StoreType /\ a.stale = stale
      /\ a.kind = s.kind /\ a.result = s.result /\ a.order = s.order /\ a.pending = s.pending
      /\ a.epoch = s.epoch /\ a.deps = s.deps /\ a.index = s.index
  BY <1>2 DEF StoreType
<1> HIDE DEF a, t
<1>5. /\ t \in StoreType /\ t.epoch = epoch
      /\ t.kind = a.kind /\ t.result = a.result /\ t.order = a.order /\ t.pending = a.pending
      /\ t.stale = a.stale /\ t.deps = a.deps /\ t.index = a.index
  BY <1>2, <1>3, <1>4 DEF StoreType
<1>6. \A k \in Keys : t.epoch[k] = s.epoch[k] + Cardinality(reasons[k])
  BY <1>5 DEF epoch
<1>7. \A k \in Keys : t.stale[k] = IF s.kind[k] = Absent THEN s.stale[k]
                                   ELSE s.stale[k] \cup reasons[k]
  BY <1>4, <1>5 DEF stale
<1>8. \A k \in Keys : /\ s.epoch[k] <= t.epoch[k]
                      /\ reasons[k] # {} => s.epoch[k] < t.epoch[k]
                      /\ reasons[k] = {} => s.epoch[k] = t.epoch[k]
  BY <1>1, <1>6, StoreFields
<1>9. QED
  BY <1>4, <1>5, <1>7, <1>8 DEF t

\* What an invalidation reaches are the roots and, with a key, its dependents.
LEMMA AffectedFacts ==
  ASSUME NEW s, NEW roots \in SUBSET Keys
  PROVE  /\ roots \subseteq Affected(s, roots) /\ Affected(s, roots) \subseteq Keys
         /\ \A k \in Affected(s, roots) : Parents(s, k) \subseteq Affected(s, roots)
<1>1. roots \subseteq Affected(s, roots) /\ Affected(s, roots) \subseteq Keys
  BY DEF Affected
<1>2. ASSUME NEW k \in Affected(s, roots), NEW p \in Parents(s, k)
      PROVE  p \in Affected(s, roots)
  <2>1. p \in Keys
    BY DEF Parents
  <2>2. ASSUME NEW reached \in SUBSET Keys, roots \subseteq reached,
               \A j \in reached : Parents(s, j) \subseteq reached
        PROVE  p \in reached
    <3>1. k \in reached
      BY <2>2 DEF Affected
    <3>2. QED
      BY <2>2, <3>1
  <2>3. QED
    BY <2>1, <2>2 DEF Affected
<1>3. QED
  BY <1>1, <1>2

\* The reasons an invalidation of roots gives key k.
Reasons(s, roots, k) == (s.deps[k] \cap Affected(s, roots)) \cup ({k} \cap roots)

\* invalidateIDsLocked makes red, overtakes builds and removes nothing that is used.
LEMMA InvalidateIDsFacts ==
  ASSUME NEW s \in StoreType, NEW roots \in SUBSET Keys
  PROVE  LET t == InvalidateIDs(s, roots) IN
         /\ t \in StoreType
         /\ t.kind = s.kind /\ t.result = s.result /\ t.order = s.order
         /\ t.pending = s.pending /\ t.deps = s.deps
         /\ \A k \in Keys : s.kind[k] # Absent =>
              t.stale[k] = s.stale[k] \cup Reasons(s, roots, k)
         /\ \A k \in s.pending :
              /\ s.epoch[k] <= t.epoch[k]
              /\ Reasons(s, roots, k) # {} => s.epoch[k] < t.epoch[k]
         /\ Tidy(s) => Tidy(t)
<1> DEFINE affected == Affected(s, roots)
           reasons == [k \in Keys |-> (s.deps[k] \cap affected) \cup ({k} \cap roots)]
           m == Mark(s, reasons)
           u == DropUnused(m, affected)
           t == InvalidateIDs(s, roots)
<1>1. t = u
  BY DEF InvalidateIDs
<1>2. /\ reasons \in [Keys -> SUBSET Keys]
      /\ \A k \in Keys : reasons[k] = Reasons(s, roots, k)
  BY StoreFields DEF Reasons
<1> HIDE DEF reasons, t
<1>3. /\ m \in StoreType
      /\ m.kind = s.kind /\ m.result = s.result /\ m.order = s.order
      /\ m.pending = s.pending /\ m.deps = s.deps /\ m.index = s.index
      /\ \A k \in Keys :
           /\ m.stale[k] = IF s.kind[k] = Absent THEN s.stale[k] ELSE s.stale[k] \cup reasons[k]
           /\ s.epoch[k] <= m.epoch[k]
           /\ reasons[k] # {} => s.epoch[k] < m.epoch[k]
           /\ reasons[k] = {} => s.epoch[k] = m.epoch[k]
  BY <1>2, MarkFacts
<1> HIDE DEF m
<1>4. /\ u \in StoreType
      /\ u.kind = m.kind /\ u.result = m.result /\ u.order = m.order
      /\ u.pending = m.pending /\ u.deps = m.deps
      /\ \A k \in Keys : ~Unused(m, k) => u.epoch[k] = m.epoch[k] /\ u.stale[k] = m.stale[k]
  BY <1>3, DropUnusedFacts
<1>5. ASSUME Tidy(s) PROVE Tidy(u)
  <2>1. \A k \in Keys : Unused(m, k) <=> Unused(s, k)
    BY <1>3 DEF Unused, Parents
  <2>2. ASSUME NEW k \in Keys \ affected PROVE TidyAt(m, k)
    <3>1. reasons[k] = {}
      <4>1. ASSUME NEW d \in s.deps[k], d \in affected PROVE FALSE
        <5>1. k \in Parents(s, d)
          BY <4>1 DEF Parents
        <5>2. QED
          BY <2>2, <4>1, <5>1, AffectedFacts
      <4>2. k \notin roots
        BY <2>2, AffectedFacts
      <4>3. QED
        BY <1>2, <4>1, <4>2 DEF Reasons
    <3>2. m.epoch[k] = s.epoch[k] /\ m.stale[k] = s.stale[k]
      BY <1>3, <3>1
    <3>3. QED
      BY <1>3, <1>5, <2>1, <3>2 DEF Tidy, TidyAt
  <2>3. ASSUME NEW k \in Keys, ~Unused(m, k) PROVE k \in m.index
    BY <1>3, <1>5, <2>1, <2>3 DEF Tidy, TidyAt
  <2> HIDE DEF affected
  <2>4. QED
    BY <1>3, <2>2, <2>3, DropUnusedTidies
<1> HIDE DEF u
<1>6. \A k \in Keys : s.kind[k] # Absent =>
        t.stale[k] = s.stale[k] \cup Reasons(s, roots, k)
  <2>1. \A k \in Keys : s.kind[k] # Absent => ~Unused(m, k)
    BY <1>3 DEF Unused
  <2>2. QED
    BY <1>1, <1>2, <1>3, <1>4, <2>1
<1>7. ASSUME NEW k \in s.pending
      PROVE  /\ s.epoch[k] <= t.epoch[k]
             /\ Reasons(s, roots, k) # {} => s.epoch[k] < t.epoch[k]
  <2>1. k \in Keys /\ ~Unused(m, k)
    BY <1>3, StoreFields DEF Unused
  <2>2. QED
    BY <1>1, <1>2, <1>3, <1>4, <2>1
<1>8. QED
  BY <1>1, <1>3, <1>4, <1>5, <1>6, <1>7 DEF t

-----------------------------------------------------------------------------
(***************************************************************************)
(* The queue of entries.                                                    *)
(***************************************************************************)
\* A set of numbers that is not empty has a least element.
LEMMA LeastNumber ==
  ASSUME NEW I \in SUBSET Nat, I # {}
  PROVE  \E i \in I : \A j \in I : i <= j
<1>1. PICK i \in I : \A j \in I : ~(<<j, i>> \in OpToRel(<, Nat))
  BY NatLessThanWellFounded, WFMin
<1>2. ASSUME NEW j \in I PROVE ~(j < i)
  BY <1>1 DEF OpToRel
<1>3. ASSUME NEW j \in I PROVE i <= j
  BY <1>2
<1>4. QED
  BY <1>3

\* The keys of a finite set can be listed by any rank that tells them apart.
LEMMA Enumerable ==
  ASSUME NEW S \in SUBSET Keys, NEW r \in [S -> Nat],
         \A a, b \in S : r[a] = r[b] => a = b
  PROVE  \E q \in [1..Cardinality(S) -> S] :
           \A i, j \in 1..Cardinality(S) : i < j => r[q[i]] < r[q[j]]
<1> DEFINE Listed(T) == \E q \in [1..Cardinality(T) -> T] :
                          \A i, j \in 1..Cardinality(T) : i < j => r[q[i]] < r[q[j]]
           Bad == {n \in Nat : \E T \in SUBSET S : Cardinality(T) = n /\ ~Listed(T)}
<1>1. \A T \in SUBSET S : IsFiniteSet(T) /\ Cardinality(T) \in Nat
  BY KeysAssumption, FS_Subset, FS_CardinalityType
<1>2. SUFFICES ASSUME Bad # {} PROVE FALSE
  <2>1. Cardinality(S) \notin Bad
    BY <1>2
  <2>2. Listed(S)
    BY <1>1, <2>1
  <2>3. QED
    BY <2>2
<1>3. PICK n \in Bad : \A m \in Bad : n <= m
  BY <1>2, LeastNumber
<1>4. PICK T \in SUBSET S : Cardinality(T) = n /\ ~Listed(T)
  BY <1>3
<1>5. T # {}
  <2>1. ASSUME T = {} PROVE Listed(T)
    <3>1. Cardinality(T) = 0
      BY <2>1, FS_EmptySet
    <3>2. [i \in 1..0 |-> i] \in [1..Cardinality(T) -> T]
      BY <3>1
    <3>3. \A i, j \in 1..Cardinality(T) : FALSE
      BY <3>1
    <3>4. QED
      BY <3>2, <3>3
  <2>2. QED
    BY <1>4, <2>1
<1>6. PICK m \in T : \A x \in T : r[m] <= r[x]
  <2> DEFINE I == {r[x] : x \in T}
  <2>1. I \in SUBSET Nat /\ I # {}
    BY <1>4, <1>5
  <2>2. PICK i \in I : \A j \in I : i <= j
    BY <2>1, LeastNumber
  <2>3. QED
    BY <2>2
<1> DEFINE U == T \ {m}
<1>7. Cardinality(U) = n - 1 /\ n \in Nat \ {0} /\ U \in SUBSET S
  <2>1. IsFiniteSet(T) /\ Cardinality(T) # 0
    BY <1>1, <1>4, <1>5, FS_EmptySet
  <2>2. QED
    BY <1>1, <1>4, <1>6, <2>1, FS_RemoveElement
<1>8. Listed(U)
  <2>1. n - 1 \notin Bad
    BY <1>3, <1>7
  <2>2. n - 1 \in Nat
    BY <1>7
  <2> HIDE DEF Listed, U
  <2>3. QED
    BY <1>7, <2>1, <2>2
<1> HIDE DEF U, Bad
<1>9. PICK p \in [1..(n - 1) -> U] : \A i, j \in 1..(n - 1) : i < j => r[p[i]] < r[p[j]]
  BY <1>7, <1>8
<1> DEFINE q == [i \in 1..n |-> IF i = 1 THEN m ELSE p[i - 1]]
<1>10. q \in [1..n -> T]
  BY <1>6, <1>7, <1>9 DEF U
<1>11. ASSUME NEW i \in 1..n, NEW j \in 1..n, i < j PROVE r[q[i]] < r[q[j]]
  <2>1. j # 1 /\ j - 1 \in 1..(n - 1) /\ q[j] = p[j - 1] /\ p[j - 1] \in U
    BY <1>7, <1>9, <1>11
  <2>2. CASE i = 1
    <3>1. q[i] = m /\ q[j] \in T /\ q[j] # m
      BY <2>1, <2>2 DEF U
    <3>2. r[m] <= r[q[j]] /\ r[m] # r[q[j]]
      BY <1>4, <1>6, <3>1
    <3>3. r[m] \in Nat /\ r[q[j]] \in Nat
      BY <1>4, <1>6, <3>1
    <3>4. QED
      BY <3>1, <3>2, <3>3
  <2>3. CASE i # 1
    <3>1. q[i] = p[i - 1] /\ i - 1 \in 1..(n - 1) /\ i - 1 < j - 1
      BY <1>7, <1>11, <2>3
    <3>2. QED
      BY <1>9, <2>1, <3>1
  <2>4. QED
    BY <2>2, <2>3
<1>12. Listed(T)
  <2> HIDE DEF q
  <2>1. QED
    BY <1>4, <1>10, <1>11
<1>13. QED
  BY <1>4, <1>12

\* Every entry waits for its eviction.
Queued(s) == Entries(s) \subseteq ToSet(s.order)

\* The first place of a queue where a condition on keys holds.
LEMMA FirstPlace ==
  ASSUME NEW o \in Seq(Keys), NEW P \in SUBSET Keys, NEW i \in DOMAIN o, o[i] \in P
  PROVE  \E f \in DOMAIN o : o[f] \in P /\ \A j \in 1..(f - 1) : o[j] \notin P
<1> DEFINE I == {j \in DOMAIN o : o[j] \in P}
<1>1. DOMAIN o = 1..Len(o) /\ Len(o) \in Nat
  BY LenProperties
<1>2. I \in SUBSET Nat /\ I # {}
  BY <1>1
<1>3. PICK f \in I : \A j \in I : f <= j
  BY <1>2, LeastNumber
<1>4. ASSUME NEW j \in 1..(f - 1), o[j] \in P PROVE FALSE
  <2>1. j \in I /\ ~(f <= j)
    BY <1>1, <1>3, <1>4
  <2>2. QED
    BY <1>3, <2>1
<1>5. QED
  BY <1>3, <1>4

\* The oldest place in the queue that is an entry's.
LEMMA OldestFacts ==
  ASSUME NEW s \in StoreType, Queued(s), Entries(s) # {}
  PROVE  /\ Oldest(s) \in DOMAIN s.order /\ s.order[Oldest(s)] \in Entries(s)
         /\ \A j \in 1..(Oldest(s) - 1) : s.order[j] \notin Entries(s)
<1>1. s.order \in Seq(Keys) /\ DOMAIN s.order = 1..Len(s.order) /\ Len(s.order) \in Nat
  BY StoreFields, LenProperties
<1>2. PICK e \in DOMAIN s.order : s.order[e] \in Entries(s)
  BY DEF Queued, ToSet
<1>3. Entries(s) \in SUBSET Keys
  BY DEF Entries
<1>4. PICK f \in DOMAIN s.order : /\ s.order[f] \in Entries(s)
                                  /\ \A j \in 1..(f - 1) : s.order[j] \notin Entries(s)
  BY <1>1, <1>2, <1>3, FirstPlace
<1>5. \A i \in DOMAIN s.order : s.order[i] \in Keys
  BY <1>1, ElementOfSeq
<1>6. s.kind[s.order[f]] # Absent /\ f \in Nat
  BY <1>1, <1>4 DEF Entries
<1>7. \A j \in 1..(f - 1) : s.kind[s.order[j]] = Absent
  BY <1>1, <1>4, <1>5, <1>6 DEF Entries
<1> DEFINE P(i) == s.kind[s.order[i]] # Absent /\ \A j \in 1..(i - 1) : s.kind[s.order[j]] = Absent
<1>8. Oldest(s) = CHOOSE i \in DOMAIN s.order : P(i)
  BY DEF Oldest
<1>9. P(f)
  BY <1>6, <1>7
<1>10. Oldest(s) \in DOMAIN s.order /\ P(Oldest(s))
  <2> HIDE DEF P
  <2>1. QED
    BY <1>4, <1>8, <1>9
<1>11. Oldest(s) \in 1..Len(s.order)
  BY <1>1, <1>10
<1>12. QED
  BY <1>1, <1>5, <1>10, <1>11 DEF Entries

LEMMA KeepsTransitive ==
  ASSUME NEW s \in StoreType, NEW t \in StoreType, NEW u \in StoreType,
         NEW a \in SUBSET Keys, NEW b \in SUBSET Keys, Keeps(s, t, a), Keeps(t, u, b)
  PROVE  Keeps(s, u, a \cup b)
<1>1. ASSUME NEW k \in s.pending PROVE s.epoch[k] <= u.epoch[k]
  <2>1. s.epoch[k] <= t.epoch[k] /\ t.epoch[k] <= u.epoch[k]
    BY <1>1 DEF Keeps
  <2>2. s.epoch[k] \in Nat /\ t.epoch[k] \in Nat /\ u.epoch[k] \in Nat
    BY <1>1, StoreFields
  <2>3. QED
    BY <2>1, <2>2
<1>2. QED
  BY <1>1 DEF Keeps

\* pruneEntriesLocked, its first loop: with one entry too many the oldest goes.
LEMMA EvictFacts ==
  ASSUME NEW s \in StoreType, Queued(s), maxEntries \in Nat \ {0},
         Cardinality(Entries(s)) <= maxEntries + 1
  PROVE  LET t == Evict(s) IN
         /\ t \in StoreType /\ Queued(t) /\ Cardinality(Entries(t)) <= maxEntries
         /\ Keeps(s, t, {})
         /\ \A k \in Keys : t.kind[k] \in {Absent, s.kind[k]}
         /\ Tidy(s) => Tidy(t)
<1>1. IsFiniteSet(Entries(s)) /\ Cardinality(Entries(s)) \in Nat
  BY KeysAssumption, FS_Subset, FS_CardinalityType DEF Entries
<1>2. CASE Cardinality(Entries(s)) <= maxEntries
  <2>1. Evict(s) = s
    BY <1>2 DEF Evict
  <2>2. Keeps(s, s, {})
    BY StoreFields DEF Keeps
  <2>3. QED
    BY <1>2, <2>1, <2>2
<1>3. CASE ~(Cardinality(Entries(s)) <= maxEntries)
  <2> DEFINE i == Oldest(s)
             k == s.order[i]
             rest == SubSeq(s.order, i + 1, Len(s.order))
             c == [s EXCEPT !.order = rest]
             t == Evict(s)
  <2>1. /\ i \in DOMAIN s.order /\ k \in Entries(s)
        /\ \A j \in 1..(i - 1) : s.order[j] \notin Entries(s)
    <3>1. Entries(s) # {}
      BY <1>1, <1>3, FS_EmptySet
    <3>2. QED
      BY <3>1, OldestFacts
  <2>2. /\ s.order \in Seq(Keys) /\ Len(s.order) \in Nat /\ DOMAIN s.order = 1..Len(s.order)
        /\ \A j \in 1..Len(s.order) : s.order[j] \in Keys
    BY StoreFields, LenProperties, ElementOfSeq
  <2>3. k \in Keys
    BY <2>1 DEF Entries
  <2>4. t = RemoveNode(c, k)
    BY <1>3 DEF Evict
  <2> HIDE DEF i
  <2>5. /\ rest \in Seq(Keys) /\ Len(rest) = Len(s.order) - i
        /\ \A j \in (i + 1)..Len(s.order) : rest[j - i] = s.order[j]
    <3>1. \A j \in (i + 1)..Len(s.order) : s.order[j] \in Keys
      BY <2>1, <2>2
    <3>2. i + 1 \in Int /\ Len(s.order) \in Int /\ i \in 1..Len(s.order)
      BY <2>1, <2>2
    <3>3. /\ rest \in Seq(Keys)
          /\ Len(rest) = IF i + 1 <= Len(s.order) THEN Len(s.order) - (i + 1) + 1 ELSE 0
          /\ \A j \in 1..(Len(s.order) - (i + 1) + 1) : rest[j] = s.order[(i + 1) + j - 1]
      BY <3>1, <3>2, SubSeqProperties
    <3> HIDE DEF rest
    <3>4. Len(rest) = Len(s.order) - i
      BY <2>2, <3>2, <3>3
    <3>5. ASSUME NEW j \in (i + 1)..Len(s.order) PROVE rest[j - i] = s.order[j]
      <4>1. j - i \in 1..(Len(s.order) - (i + 1) + 1) /\ (i + 1) + (j - i) - 1 = j
        BY <2>2, <3>2, <3>5
      <4>2. rest[j - i] = s.order[(i + 1) + (j - i) - 1]
        BY <3>3, <4>1
      <4>3. QED
        BY <4>1, <4>2
    <3>6. QED
      BY <3>3, <3>4, <3>5
  <2> HIDE DEF rest, k
  <2>6. /\ c \in StoreType /\ c.order = rest
        /\ c.kind = s.kind /\ c.result = s.result /\ c.pending = s.pending
        /\ c.epoch = s.epoch /\ c.deps = s.deps /\ c.stale = s.stale /\ c.index = s.index
    BY <2>5 DEF StoreType
  <2> HIDE DEF c, t
  <2>7. /\ t \in StoreType /\ t.order = c.order /\ t.kind = [c.kind EXCEPT ![k] = Absent]
        /\ Entries(t) = Entries(c) \ {k} /\ Keeps(c, t, {}) /\ (Tidy(c) => Tidy(t))
    BY <2>3, <2>4, <2>6, RemoveNodeFacts
  <2>a. Entries(c) = Entries(s)
    BY <2>6 DEF Entries
  <2>b. Keeps(s, t, {})
    BY <2>6, <2>7 DEF Keeps
  <2>8. Entries(t) = Entries(s) \ {k}
    BY <2>7, <2>a
  <2>9. Tidy(s) => Tidy(c)
    BY <2>6 DEF Tidy, TidyAt, Unused, Parents
  <2>10. Cardinality(Entries(t)) <= maxEntries
    <3>1. Cardinality(Entries(t)) = Cardinality(Entries(s)) - 1
      BY <1>1, <2>1, <2>8, FS_RemoveElement
    <3>2. QED
      BY <1>1, <3>1
  <2>11. Queued(t)
    <3>1. SUFFICES ASSUME NEW e \in Entries(t) PROVE e \in ToSet(t.order)
      BY DEF Queued
    <3>2. e \in Entries(s) /\ e # k
      BY <2>8
    <3>3. PICK j \in DOMAIN s.order : s.order[j] = e
      BY <3>2 DEF Queued, ToSet
    <3>4. j \in (i + 1)..Len(s.order)
      <4>1. j # i
        BY <3>2, <3>3 DEF k
      <4>2. j \notin 1..(i - 1)
        BY <2>1, <3>2, <3>3
      <4>3. QED
        BY <2>1, <2>2, <4>1, <4>2
    <3>5. rest[j - i] = e /\ j - i \in 1..Len(rest)
      BY <2>1, <2>2, <2>5, <3>3, <3>4
    <3>6. DOMAIN rest = 1..Len(rest)
      BY <2>5, LenProperties
    <3>7. QED
      BY <2>6, <2>7, <3>5, <3>6 DEF ToSet
  <2>12. \A j \in Keys : t.kind[j] \in {Absent, s.kind[j]}
    BY <2>6, <2>7, StoreFields
  <2>13. t \in StoreType /\ (Tidy(s) => Tidy(t))
    BY <2>7, <2>9
  <2>14. QED
    BY <2>b, <2>10, <2>11, <2>12, <2>13 DEF t
<1>4. QED
  BY <1>2, <1>3

\* pruneEntriesLocked, its second loop: every queued entry once.
LEMMA CompactFacts ==
  ASSUME NEW s \in StoreType
  PROVE  /\ Compact(s) \in Seq(Keys)
         /\ Len(Compact(s)) <= Cardinality(Entries(s))
         /\ Entries(s) \cap ToSet(s.order) \subseteq ToSet(Compact(s))
<1> DEFINE queued == {k \in ToSet(s.order) : s.kind[k] # Absent}
           n == Cardinality(queued)
           r == [k \in queued |-> Turn(s, k)]
           Ordered(q) == \A i, j \in DOMAIN q : i < j => Turn(s, q[i]) < Turn(s, q[j])
<1>1. /\ s.order \in Seq(Keys) /\ Len(s.order) \in Nat /\ DOMAIN s.order = 1..Len(s.order)
      /\ \A i \in DOMAIN s.order : s.order[i] \in Keys
  BY StoreFields, LenProperties, ElementOfSeq
<1>2. queued \in SUBSET Keys /\ queued = Entries(s) \cap ToSet(s.order)
  BY <1>1 DEF ToSet, Entries
<1>3. IsFiniteSet(queued) /\ n \in Nat /\ n <= Cardinality(Entries(s))
  <2>1. IsFiniteSet(Entries(s))
    BY KeysAssumption, FS_Subset DEF Entries
  <2>2. QED
    BY <1>2, <2>1, FS_Subset, FS_CardinalityType
<1>4. ASSUME NEW k \in queued PROVE Turn(s, k) \in DOMAIN s.order /\ s.order[Turn(s, k)] = k
  <2>1. PICK i \in DOMAIN s.order : s.order[i] = k
    BY DEF ToSet
  <2> DEFINE P == {k}
  <2>a. P \in SUBSET Keys /\ s.order[i] \in P
    BY <1>2, <2>1
  <2> HIDE DEF P
  <2>2. PICK f \in DOMAIN s.order : s.order[f] \in P /\ \A j \in 1..(f - 1) : s.order[j] \notin P
    BY <1>1, <2>1, <2>a, FirstPlace
  <2>3. s.order[f] = k /\ \A j \in 1..(f - 1) : s.order[j] # k
    BY <2>2 DEF P
  <2>4. QED
    BY <2>3 DEF Turn
<1>5. r \in [queued -> Nat] /\ \A a, b \in queued : r[a] = r[b] => a = b
  BY <1>1, <1>4
<1>6. PICK p \in [1..n -> queued] : \A i, j \in 1..n : i < j => r[p[i]] < r[p[j]]
  <2> HIDE DEF r
  <2>1. QED
    BY <1>2, <1>5, Enumerable
<1>7. Ordered(p)
  BY <1>6
<1> DEFINE q == Compact(s)
<1>8. q = CHOOSE c \in [1..n -> queued] : Ordered(c)
  BY DEF Compact
<1>9. q \in [1..n -> queued] /\ Ordered(q)
  <2> HIDE DEF Ordered, q, n, queued
  <2>1. QED
    BY <1>6, <1>7, <1>8
<1> HIDE DEF q
<1>10. \A i, j \in 1..n : q[i] = q[j] => i = j
  <2> SUFFICES ASSUME NEW i \in 1..n, NEW j \in 1..n, q[i] = q[j] PROVE i = j
    OBVIOUS
  <2>1. Turn(s, q[i]) \in Nat
    BY <1>1, <1>4, <1>9
  <2>2. ~(i < j) /\ ~(j < i)
    BY <1>9, <2>1
  <2>3. QED
    BY <1>3, <2>2
<1>11. \A k \in queued : \E i \in 1..n : q[i] = k
  <2>1. q \in Injection(1..n, queued)
    <3> HIDE DEF queued, n
    <3>1. QED
      BY <1>9, <1>10, Fun_IsInj
  <2>2. IsFiniteSet(1..n) /\ Cardinality(1..n) = n
    BY <1>3, FS_Interval
  <2>3. q \in Surjection(1..n, queued)
    <3> HIDE DEF queued
    <3>1. IsFiniteSet(queued) /\ Cardinality(1..n) = Cardinality(queued)
      BY <1>3, <2>2 DEF n
    <3>2. QED
      BY <2>1, <2>2, <3>1, FS_Injection
  <2>4. QED
    <3> HIDE DEF queued, n
    <3>1. QED
      BY <2>3 DEF Surjection
<1>12. q \in Seq(Keys) /\ Len(q) = n /\ DOMAIN q = 1..n
  BY <1>2, <1>3, <1>9
<1>13. queued \subseteq ToSet(q)
  BY <1>11, <1>12 DEF ToSet
<1>14. QED
  BY <1>2, <1>3, <1>12, <1>13 DEF q

\* pruneEntriesLocked leaves at most so many entries, and a queue twice as long.
LEMMA PruneFacts ==
  ASSUME NEW s \in StoreType, Queued(s), maxEntries \in Nat \ {0},
         Cardinality(Entries(s)) <= maxEntries + 1
  PROVE  LET t == Prune(s) IN
         /\ t \in StoreType /\ Queued(t) /\ Cardinality(Entries(t)) <= maxEntries
         /\ Len(t.order) <= 2 * maxEntries
         /\ Keeps(s, t, {})
         /\ \A k \in Keys : t.kind[k] \in {Absent, s.kind[k]}
         /\ Tidy(s) => Tidy(t)
<1> DEFINE e == Evict(s)
           order == IF Len(e.order) > 2 * maxEntries THEN Compact(e) ELSE e.order
           t == Prune(s)
<1>1. /\ e \in StoreType /\ Queued(e) /\ Cardinality(Entries(e)) <= maxEntries
      /\ Keeps(s, e, {})
      /\ \A k \in Keys : e.kind[k] \in {Absent, s.kind[k]}
      /\ Tidy(s) => Tidy(e)
  BY EvictFacts
<1>2. t = [e EXCEPT !.order = order]
  BY DEF Prune
<1> HIDE DEF e
<1>3. /\ order \in Seq(Keys) /\ Len(order) <= 2 * maxEntries
      /\ Entries(e) \subseteq ToSet(order)
  <2>1. IsFiniteSet(Entries(e)) /\ Cardinality(Entries(e)) \in Nat
    BY KeysAssumption, FS_Subset, FS_CardinalityType DEF Entries
  <2>2. e.order \in Seq(Keys) /\ Len(e.order) \in Nat
    BY <1>1, StoreFields, LenProperties
  <2>3. CASE Len(e.order) > 2 * maxEntries
    <3>1. /\ Compact(e) \in Seq(Keys) /\ Len(Compact(e)) <= Cardinality(Entries(e))
          /\ Entries(e) \cap ToSet(e.order) \subseteq ToSet(Compact(e))
      BY <1>1, CompactFacts
    <3>2. Len(Compact(e)) \in Nat
      BY <3>1, LenProperties
    <3>3. Len(Compact(e)) <= 2 * maxEntries
      BY <1>1, <2>1, <3>1, <3>2
    <3>4. QED
      BY <1>1, <2>3, <3>1, <3>3 DEF Queued
  <2>4. CASE ~(Len(e.order) > 2 * maxEntries)
    BY <1>1, <2>2, <2>4 DEF Queued
  <2>5. QED
    BY <2>3, <2>4
<1> HIDE DEF order, t
<1>4. /\ t \in StoreType /\ t.order = order
      /\ t.kind = e.kind /\ t.result = e.result /\ t.pending = e.pending
      /\ t.epoch = e.epoch /\ t.deps = e.deps /\ t.stale = e.stale /\ t.index = e.index
  BY <1>1, <1>2, <1>3 DEF StoreType
<1>5. Entries(t) = Entries(e)
  BY <1>4 DEF Entries
<1>6. Keeps(s, t, {})
  BY <1>1, <1>4 DEF Keeps
<1>7. Tidy(e) => Tidy(t)
  BY <1>4 DEF Tidy, TidyAt, Unused, Parents
<1>8. QED
  BY <1>1, <1>3, <1>4, <1>5, <1>6, <1>7 DEF t, Queued

\* An entry is put where it was, or at the end of the queue.
LEMMA PutFacts ==
  ASSUME NEW s \in StoreType, NEW k \in Keys, NEW v \in {Placeholder, Value},
         NEW r \in Result
  PROVE  LET t == Put(s, k, v, r) IN
         /\ t \in StoreType
         /\ t.kind[k] = v /\ \A j \in Keys \ {k} : t.kind[j] = s.kind[j]
         /\ t.result[k] = r /\ \A j \in Keys \ {k} : t.result[j] = s.result[j]
         /\ t.pending = s.pending /\ t.epoch = s.epoch /\ t.deps = s.deps
         /\ t.stale = s.stale /\ t.index = s.index
         /\ Entries(t) = Entries(s) \cup {k}
         /\ Queued(s) => Queued(t)
<1> DEFINE kinds == [s.kind EXCEPT ![k] = v]
           results == [s.result EXCEPT ![k] = r]
           order == IF s.kind[k] = Absent THEN Append(s.order, k) ELSE s.order
           a == [s EXCEPT !.kind = kinds]
           b == [a EXCEPT !.result = results]
           t == Put(s, k, v, r)
<1>1. kinds \in [Keys -> Kinds] /\ results \in [Keys -> Result]
  BY StoreFields DEF Kinds
<1>2. order \in Seq(Keys) /\ ToSet(s.order) \subseteq ToSet(order)
      /\ (s.kind[k] = Absent => k \in ToSet(order))
  <2>1. /\ s.order \in Seq(Keys) /\ Len(s.order) \in Nat
        /\ DOMAIN s.order = 1..Len(s.order)
    BY StoreFields, LenProperties
  <2>2. CASE s.kind[k] = Absent
    <3> DEFINE o == Append(s.order, k)
    <3>1. /\ o \in Seq(Keys) /\ Len(o) = Len(s.order) + 1
          /\ \A i \in 1..Len(s.order) : o[i] = s.order[i]
          /\ o[Len(s.order) + 1] = k
      BY <2>1, AppendProperties
    <3> HIDE DEF o
    <3>2. DOMAIN o = 1..(Len(s.order) + 1)
      BY <3>1, LenProperties
    <3>3. k \in ToSet(o) /\ ToSet(s.order) \subseteq ToSet(o)
      BY <2>1, <3>1, <3>2 DEF ToSet
    <3>4. QED
      BY <2>2, <3>1, <3>3 DEF o
  <2>3. CASE s.kind[k] # Absent
    BY <2>1, <2>3
  <2>4. QED
    BY <2>2, <2>3
<1>3. t = [b EXCEPT !.order = order]
  BY DEF Put, StoreType
<1> HIDE DEF order
<1>4. /\ a \in StoreType /\ a.kind = kinds
      /\ a.result = s.result /\ a.order = s.order /\ a.pending = s.pending
      /\ a.epoch = s.epoch /\ a.deps = s.deps /\ a.stale = s.stale /\ a.index = s.index
  BY <1>1 DEF StoreType
<1> HIDE DEF a, kinds
<1>5. /\ b \in StoreType /\ b.kind = a.kind /\ b.result = results
      /\ b.order = a.order /\ b.pending = a.pending
      /\ b.epoch = a.epoch /\ b.deps = a.deps /\ b.stale = a.stale /\ b.index = a.index
  BY <1>1, <1>4 DEF StoreType
<1> HIDE DEF b, results, t
<1>6. /\ t \in StoreType /\ t.kind = b.kind /\ t.result = b.result
      /\ t.order = order /\ t.pending = b.pending
      /\ t.epoch = b.epoch /\ t.deps = b.deps /\ t.stale = b.stale /\ t.index = b.index
  BY <1>2, <1>3, <1>5 DEF StoreType
<1>7. Entries(t) = Entries(s) \cup {k}
  <2>1. \A j \in Keys : t.kind[j] = IF j = k THEN v ELSE s.kind[j]
    BY <1>4, <1>5, <1>6, StoreFields DEF kinds
  <2>2. QED
    BY <2>1 DEF Entries, Absent, Placeholder, Value
<1>8. ASSUME Queued(s) PROVE Queued(t)
  <2>1. s.kind[k] # Absent => k \in ToSet(s.order)
    BY <1>8 DEF Queued, Entries
  <2>2. QED
    BY <1>2, <1>6, <1>7, <1>8, <2>1 DEF Queued
<1>9. /\ t.kind[k] = v /\ \A j \in Keys \ {k} : t.kind[j] = s.kind[j]
      /\ t.result[k] = r /\ \A j \in Keys \ {k} : t.result[j] = s.result[j]
  BY <1>4, <1>5, <1>6, StoreFields DEF kinds, results
<1>10. QED
  BY <1>4, <1>5, <1>6, <1>7, <1>8, <1>9 DEF t

\* The dependents of a published key lose the reason they had in it.
Cleared(s, k, told) ==
  [s EXCEPT !.stale = [p \in Keys |-> IF p \in told THEN @[p] \ {k} ELSE @[p]]]

\* They have it again when the output changed; the key itself is green.
Told(s, k, told, changed) ==
  [(IF changed THEN Mark(Cleared(s, k, told), [p \in Keys |-> IF p \in told THEN {k} ELSE {}])
    ELSE Cleared(s, k, told)) EXCEPT !.stale[k] = {}]

\* From s to t only epochs and reasons differ.
SameEntries(s, t) ==
  /\ t.kind = s.kind /\ t.result = s.result /\ t.order = s.order
  /\ t.pending = s.pending /\ t.deps = s.deps

LEMMA ToldFacts ==
  ASSUME NEW s \in StoreType, NEW k \in Keys, NEW told \in SUBSET Keys, NEW changed \in BOOLEAN,
         \A p \in told : ~Unused(s, p), Tidy(s)
  PROVE  LET t == Told(s, k, told, changed) IN
         /\ t \in StoreType /\ SameEntries(s, t)
         /\ \A j \in Keys : s.epoch[j] <= t.epoch[j]
         /\ \A j \in Keys \ {k} : s.stale[j] \ {k} \subseteq t.stale[j]
         /\ Tidy(t)
<1> DEFINE less == [p \in Keys |-> IF p \in told THEN s.stale[p] \ {k} ELSE s.stale[p]]
           reasons == [p \in Keys |-> IF p \in told THEN {k} ELSE {}]
           c == Cleared(s, k, told)
           m == IF changed THEN Mark(c, reasons) ELSE c
           t == Told(s, k, told, changed)
<1>1. less \in [Keys -> SUBSET Keys] /\ reasons \in [Keys -> SUBSET Keys]
  BY StoreFields
<1>2. c = [s EXCEPT !.stale = less]
  BY DEF Cleared
<1>3. t = [m EXCEPT !.stale[k] = {}]
  BY DEF Told
<1>4. /\ \A j \in Keys : less[j] \subseteq s.stale[j] /\ s.stale[j] \ {k} \subseteq less[j]
      /\ \A j \in Keys \ told : reasons[j] = {}
  OBVIOUS
<1> HIDE DEF less, reasons, t, c
<1>5. /\ c \in StoreType /\ c.stale = less
      /\ c.kind = s.kind /\ c.result = s.result /\ c.order = s.order /\ c.pending = s.pending
      /\ c.epoch = s.epoch /\ c.deps = s.deps /\ c.index = s.index
  BY <1>1, <1>2 DEF StoreType
<1>6. /\ m \in StoreType
      /\ m.kind = c.kind /\ m.result = c.result /\ m.order = c.order /\ m.pending = c.pending
      /\ m.deps = c.deps /\ m.index = c.index
      /\ \A j \in Keys : c.epoch[j] <= m.epoch[j] /\ c.stale[j] \subseteq m.stale[j]
      /\ \A j \in Keys : s.kind[j] = Absent => m.stale[j] = c.stale[j]
      /\ \A j \in Keys \ told : m.epoch[j] = c.epoch[j]
  <2>1. CASE changed
    <3> DEFINE u == Mark(c, reasons)
    <3>a. c \in StoreType
      BY <1>5
    <3>1. /\ u \in StoreType
          /\ u.kind = c.kind /\ u.result = c.result /\ u.order = c.order
          /\ u.pending = c.pending /\ u.deps = c.deps /\ u.index = c.index
          /\ \A j \in Keys :
               /\ u.stale[j] = IF c.kind[j] = Absent THEN c.stale[j] ELSE c.stale[j] \cup reasons[j]
               /\ c.epoch[j] <= u.epoch[j]
               /\ reasons[j] # {} => c.epoch[j] < u.epoch[j]
               /\ reasons[j] = {} => c.epoch[j] = u.epoch[j]
      BY <1>1, <3>a, MarkFacts
    <3>2. m = u
      BY <2>1
    <3> HIDE DEF u, m
    <3>3. \A j \in Keys \ told : u.epoch[j] = c.epoch[j]
      BY <1>4, <3>1
    <3>4. \A j \in Keys : c.stale[j] \subseteq u.stale[j]
      BY <3>1
    <3>5. \A j \in Keys : s.kind[j] = Absent => u.stale[j] = c.stale[j]
      BY <1>5, <3>1
    <3>6. QED
      BY <3>1, <3>2, <3>3, <3>4, <3>5
  <2>2. CASE ~changed
    <3>1. m = c
      BY <2>2
    <3> HIDE DEF m
    <3>2. \A j \in Keys : c.epoch[j] \in Nat
      BY <1>5, StoreFields
    <3>3. QED
      BY <1>5, <3>1, <3>2
  <2>3. QED
    BY <2>1, <2>2
<1> HIDE DEF m
<1>7. /\ t \in StoreType /\ t.stale = [m.stale EXCEPT ![k] = {}]
      /\ t.kind = m.kind /\ t.result = m.result /\ t.order = m.order /\ t.pending = m.pending
      /\ t.epoch = m.epoch /\ t.deps = m.deps /\ t.index = m.index
  <2>1. [m.stale EXCEPT ![k] = {}] \in [Keys -> SUBSET Keys]
    BY <1>6, StoreFields
  <2>2. QED
    BY <1>3, <1>6, <2>1 DEF StoreType
<1>8. \A j \in Keys \ {k} : s.stale[j] \ {k} \subseteq t.stale[j]
  <2>1. m.stale \in [Keys -> SUBSET Keys]
    BY <1>6, StoreFields
  <2>2. \A j \in Keys \ {k} : t.stale[j] = m.stale[j]
    BY <1>7, <2>1
  <2>3. QED
    BY <1>4, <1>5, <1>6, <2>2
<1>9. Tidy(t)
  <2>1. SUFFICES ASSUME NEW j \in Keys PROVE TidyAt(t, j)
    BY DEF Tidy
  <2>2. TidyAt(s, j)
    BY DEF Tidy
  <2>3. Unused(t, j) <=> Unused(s, j)
    BY <1>5, <1>6, <1>7 DEF Unused, Parents
  <2>4. ASSUME Unused(s, j) PROVE t.epoch[j] = 0 /\ t.stale[j] = {}
    <3>1. j \notin told /\ s.kind[j] = Absent
      BY <2>4 DEF Unused
    <3>2. t.epoch[j] = s.epoch[j]
      BY <1>5, <1>6, <1>7, <3>1
    <3>3. m.stale[j] \subseteq s.stale[j]
      BY <1>4, <1>5, <1>6, <3>1
    <3>4. t.stale[j] \subseteq m.stale[j]
      BY <1>6, <1>7, StoreFields
    <3>5. QED
      BY <2>2, <2>4, <3>2, <3>3, <3>4 DEF TidyAt
  <2>5. QED
    BY <1>5, <1>6, <1>7, <2>2, <2>3, <2>4 DEF TidyAt
<1>10. QED
  BY <1>5, <1>6, <1>7, <1>8, <1>9 DEF t, SameEntries

\* A publication: the key's value is the result, and of the other values none is
\* new, none differs, and none loses a reason but the published key.
LEMMA PublishedFacts ==
  ASSUME NEW s \in StoreType, NEW k \in Keys, NEW result \in Result,
         NEW wasRed \in BOOLEAN, NEW changed \in BOOLEAN,
         Queued(s), maxEntries \in Nat \ {0}, Cardinality(Entries(s)) <= maxEntries,
         \A j \in Keys \ {k} : TidyAt(s, j)
  PROVE  LET t == Published(s, k, result, wasRed, changed) IN
         /\ t \in StoreType /\ Tidy(t) /\ Queued(t)
         /\ Cardinality(Entries(t)) <= maxEntries /\ Len(t.order) <= 2 * maxEntries
         /\ t.pending = s.pending
         /\ \A j \in s.pending : s.epoch[j] <= t.epoch[j]
         /\ t.kind[k] = Value => t.result[k] = result /\ t.deps[k] = result.deps
         /\ \A j \in Keys \ {k} : t.kind[j] = Value =>
              /\ s.kind[j] = Value /\ t.result[j] = s.result[j] /\ t.deps[j] = s.deps[j]
              /\ s.stale[j] \ {k} \subseteq t.stale[j]
<1> DEFINE told == IF wasRed THEN Parents(s, k) ELSE {}
           kind == Value
           p == Put(s, k, kind, result)
           deps == result.deps
           r == Record(p, k, deps)
           u == Told(r, k, told, changed)
           t == Published(s, k, result, wasRed, changed)
<1>1. t = Prune(u)
  BY DEF Published, Told, Cleared
<1> HIDE DEF t
<1>2. result.deps \in SUBSET Keys
  BY DEF Result
<1>3. /\ p \in StoreType
      /\ p.kind[k] = Value /\ \A j \in Keys \ {k} : p.kind[j] = s.kind[j]
      /\ p.result[k] = result /\ \A j \in Keys \ {k} : p.result[j] = s.result[j]
      /\ p.pending = s.pending /\ p.epoch = s.epoch /\ p.deps = s.deps
      /\ p.stale = s.stale /\ p.index = s.index
      /\ Entries(p) = Entries(s) \cup {k} /\ Queued(p)
  <2>1. kind \in {Placeholder, Value}
    OBVIOUS
  <2> HIDE DEF kind
  <2>2. /\ p \in StoreType
        /\ p.kind[k] = kind /\ \A j \in Keys \ {k} : p.kind[j] = s.kind[j]
        /\ p.result[k] = result /\ \A j \in Keys \ {k} : p.result[j] = s.result[j]
        /\ p.pending = s.pending /\ p.epoch = s.epoch /\ p.deps = s.deps
        /\ p.stale = s.stale /\ p.index = s.index
        /\ Entries(p) = Entries(s) \cup {k} /\ (Queued(s) => Queued(p))
    BY <2>1, PutFacts
  <2>3. QED
    BY <2>2 DEF kind
<1>4. p.kind[k] = Value /\ p.kind[k] # Absent /\ \A j \in Keys \ {k} : p.kind[j] = s.kind[j]
  BY <1>3, StoreFields DEF Absent, Value
<1>5. ASSUME NEW j \in Keys \ {k} PROVE TidyAt(p, j)
  <2>1. TidyAt(s, j)
    OBVIOUS
  <2>2. Unused(p, j) <=> Unused(s, j)
    BY <1>3, <1>4 DEF Unused, Parents
  <2>3. QED
    BY <1>3, <2>1, <2>2 DEF TidyAt
<1> HIDE DEF p
<1>6. /\ r \in StoreType
      /\ r.kind = p.kind /\ r.result = p.result /\ r.order = p.order
      /\ r.pending = p.pending /\ r.deps = [p.deps EXCEPT ![k] = result.deps]
      /\ \A j \in Keys : p.kind[j] # Absent \/ j \in p.pending =>
           r.epoch[j] = p.epoch[j] /\ r.stale[j] = p.stale[j]
      /\ Tidy(r)
  <2>1. p \in StoreType /\ p.kind[k] # Absent /\ deps \in SUBSET Keys
    BY <1>2, <1>3, <1>4
  <2> HIDE DEF deps
  <2>2. /\ r \in StoreType
        /\ r.kind = p.kind /\ r.result = p.result /\ r.order = p.order
        /\ r.pending = p.pending /\ r.deps = [p.deps EXCEPT ![k] = deps]
        /\ \A j \in Keys : p.kind[j] # Absent \/ j \in p.pending =>
             r.epoch[j] = p.epoch[j] /\ r.stale[j] = p.stale[j]
        /\ (\A j \in Keys \ {k} : TidyAt(p, j)) => Tidy(r)
    BY <2>1, RecordFacts
  <2>3. QED
    BY <1>5, <2>2 DEF deps
<1>7. r.deps[k] = result.deps /\ \A j \in Keys \ {k} : r.deps[j] = s.deps[j]
  BY <1>3, <1>6, StoreFields
<1> HIDE DEF r
<1>8. told \in SUBSET Keys /\ \A j \in told : ~Unused(r, j)
  <2>1. told \subseteq Parents(s, k)
    OBVIOUS
  <2>2. ASSUME NEW j \in told PROVE ~Unused(r, j)
    <3>1. j \in Keys /\ k \in s.deps[j]
      BY <2>1 DEF Parents
    <3>2. CASE j = k
      BY <1>4, <1>6, <3>2 DEF Unused
    <3>3. CASE j # k
      BY <1>7, <3>1, <3>3 DEF Unused
    <3>4. QED
      BY <3>2, <3>3
  <2>3. QED
    BY <2>1, <2>2 DEF Parents
<1> HIDE DEF told
<1>9. /\ u \in StoreType
      /\ u.kind = r.kind /\ u.result = r.result /\ u.order = r.order
      /\ u.pending = r.pending /\ u.deps = r.deps
      /\ \A j \in Keys : r.epoch[j] <= u.epoch[j]
      /\ \A j \in Keys \ {k} : r.stale[j] \ {k} \subseteq u.stale[j]
      /\ Tidy(u)
  <2>1. r \in StoreType /\ Tidy(r)
    BY <1>6
  <2>2. u \in StoreType /\ Tidy(u)
    BY <1>8, <2>1, ToldFacts
  <2>3. /\ u.kind = r.kind /\ u.result = r.result /\ u.order = r.order
        /\ u.pending = r.pending /\ u.deps = r.deps
    <3>1. SameEntries(r, u)
      BY <1>8, <2>1, ToldFacts
    <3>2. QED
      BY <3>1 DEF SameEntries
  <2>4. \A j \in Keys : r.epoch[j] <= u.epoch[j]
    BY <1>8, <2>1, ToldFacts
  <2>5. \A j \in Keys \ {k} : r.stale[j] \ {k} \subseteq u.stale[j]
    BY <1>8, <2>1, ToldFacts
  <2>6. QED
    BY <2>2, <2>3, <2>4, <2>5
<1> HIDE DEF u
<1>10. Entries(u) = Entries(s) \cup {k}
  BY <1>3, <1>6, <1>9 DEF Entries
<1>11. Queued(u)
  BY <1>3, <1>6, <1>9, <1>10 DEF Queued
<1>12. Cardinality(Entries(u)) <= maxEntries + 1
  <2>1. IsFiniteSet(Entries(s)) /\ Cardinality(Entries(s)) \in Nat
    BY KeysAssumption, FS_Subset, FS_CardinalityType DEF Entries
  <2>2. \/ Cardinality(Entries(u)) = Cardinality(Entries(s))
        \/ Cardinality(Entries(u)) = Cardinality(Entries(s)) + 1
    BY <1>10, <2>1, FS_AddElement
  <2>3. QED
    BY <2>1, <2>2
<1>13. /\ t \in StoreType /\ Queued(t) /\ Cardinality(Entries(t)) <= maxEntries
       /\ Len(t.order) <= 2 * maxEntries
       /\ Keeps(u, t, {})
       /\ \A j \in Keys : t.kind[j] \in {Absent, u.kind[j]}
       /\ Tidy(t)
  BY <1>1, <1>9, <1>11, <1>12, PruneFacts
<1>14. \A j \in s.pending : s.epoch[j] <= t.epoch[j]
  <2>1. SUFFICES ASSUME NEW j \in s.pending PROVE s.epoch[j] <= t.epoch[j]
    OBVIOUS
  <2>2. s.epoch[j] = r.epoch[j] /\ r.epoch[j] <= u.epoch[j] /\ j \in Keys
    BY <1>3, <1>6, <1>9, StoreFields
  <2>3. u.epoch[j] <= t.epoch[j]
    BY <1>3, <1>6, <1>9, <1>13 DEF Keeps
  <2>4. r.epoch[j] \in Nat /\ u.epoch[j] \in Nat /\ t.epoch[j] \in Nat
    BY <1>6, <1>9, <1>13, <2>2, StoreFields
  <2>5. QED
    BY <2>2, <2>3, <2>4
<1>15. ASSUME t.kind[k] = Value PROVE t.result[k] = result /\ t.deps[k] = result.deps
  <2>1. t.result[k] = u.result[k] /\ t.deps[k] = u.deps[k]
    BY <1>13, <1>15 DEF Keeps
  <2>2. u.result[k] = result
    BY <1>3, <1>6, <1>9, StoreFields
  <2>3. QED
    BY <1>7, <1>9, <2>1, <2>2
<1>16. ASSUME NEW j \in Keys \ {k}, t.kind[j] = Value
       PROVE  /\ s.kind[j] = Value /\ t.result[j] = s.result[j] /\ t.deps[j] = s.deps[j]
              /\ s.stale[j] \ {k} \subseteq t.stale[j]
  <2>1. /\ u.kind[j] = Value /\ t.result[j] = u.result[j] /\ t.deps[j] = u.deps[j]
        /\ u.stale[j] \subseteq t.stale[j]
    BY <1>13, <1>16 DEF Keeps
  <2>2. s.kind[j] = Value /\ p.kind[j] # Absent
    BY <1>4, <1>6, <1>9, <2>1 DEF Absent, Value
  <2>3. u.result[j] = s.result[j] /\ u.deps[j] = s.deps[j]
    BY <1>3, <1>6, <1>7, <1>9, StoreFields
  <2>4. s.stale[j] \ {k} \subseteq u.stale[j]
    BY <1>3, <1>6, <1>9, <2>2
  <2>5. QED
    BY <2>1, <2>2, <2>3, <2>4
<1>17. t.pending = s.pending
  BY <1>3, <1>6, <1>9, <1>13 DEF Keeps
<1>18. QED
  BY <1>13, <1>14, <1>15, <1>16, <1>17 DEF t

-----------------------------------------------------------------------------
(***************************************************************************)
(* The inductive invariant.                                                 *)
(***************************************************************************)
Building(c, k) == caller[c].at = "building" /\ caller[c].key = k
Producers(p) == {r \in Keys : r = p \/ r \notin Queries}

\* A completed value has the edges it was computed along, or some that
\* RecordDependencies gave it.
EdgesOwn(k) == \/ store.result[k].deps = store.deps[k]
               \/ <<k, store.result[k], store.deps[k]>> \in recorded
Edged == \A k \in Keys : store.kind[k] = Value => EdgesOwn(k)

\* A value older than an invalidation that reached it is red, and for a reason
\* no publication of another query takes away.
Reddened ==
  \A k \in Keys : store.kind[k] = Value =>
    \/ store.result[k].birth >= ordered[k]
    \/ store.stale[k] \cap Producers(k) # {}

\* A build whose epoch still stands was begun after whatever reached its key.
Standing ==
  \A c \in Callers : caller[c].at = "building" =>
    LET k == caller[c].key IN
    /\ caller[c].epoch <= store.epoch[k]
    /\ caller[c].epoch = store.epoch[k] => caller[c].birth >= ordered[k]

\* A call is for a query, and what it could know of has happened.
Asked ==
  /\ \A c \in Callers : caller[c].at # "idle" =>
       caller[c].key \in Queries /\ caller[c].floor <= ordered[caller[c].key]
  /\ \A k \in Keys : ordered[k] <= spent.invalidate

\* What a call returned was computed or recorded for it, and begun late enough.
AnswerOwn(c) == \/ caller[c].result.deps = caller[c].deps
                \/ <<caller[c].key, caller[c].result, caller[c].deps>> \in recorded
Answered ==
  \A c \in Callers : caller[c].returned = Value =>
    AnswerOwn(c) /\ caller[c].result.birth >= caller[c].floor

\* A pending entry is one call's, and everything that waits waits for one.
Shared ==
  /\ \A k \in store.pending : \E c \in Callers : Building(c, k)
  /\ \A c, d \in Callers : \A k \in Keys : Building(c, k) /\ Building(d, k) => c = d
  /\ \A c \in Callers : caller[c].at \in {"waiting", "building"} => caller[c].key \in store.pending

\* The limits, and a place in the queue for every entry.
Limited ==
  /\ Tidy(store) /\ Queued(store)
  /\ Cardinality(Entries(store)) <= maxEntries /\ Len(store.order) <= 2 * maxEntries

Inv == TypeOK /\ Edged /\ Reddened /\ Standing /\ Asked /\ Answered /\ Shared /\ Limited

-----------------------------------------------------------------------------
(***************************************************************************)
(* What the steps do to the store.                                          *)
(***************************************************************************)
CallerType ==
  [at : {"idle", "lookup", "waiting", "building"}, key : Keys,
   deps : SUBSET Keys, epoch : Nat, red : BOOLEAN, old : Outputs \cup {2},
   birth : 0..InvalidateLimit, floor : 0..InvalidateLimit,
   returned : {"none", "error", Value}, result : Result]

LEMMA TypeFacts ==
  ASSUME TypeOK
  PROVE  /\ store \in StoreType /\ maxEntries \in Nat \ {0}
         /\ caller \in [Callers -> CallerType]
         /\ \A c \in Callers :
              /\ caller[c] \in CallerType /\ caller[c].key \in Keys
              /\ caller[c].deps \in SUBSET Keys /\ caller[c].epoch \in Nat
              /\ caller[c].red \in BOOLEAN /\ caller[c].old \in Outputs \cup {2}
              /\ caller[c].birth \in 0..InvalidateLimit /\ caller[c].floor \in 0..InvalidateLimit
              /\ caller[c].result \in Result
         /\ spent.invalidate \in 0..InvalidateLimit
         /\ ordered \in [Keys -> 0..InvalidateLimit]
<1>1. store \in StoreType
  BY DEF TypeOK, StoreType, Kinds
<1>2. maxEntries \in Nat \ {0}
  BY EntryLimitsAssumption DEF TypeOK
<1>3. caller \in [Callers -> CallerType]
  BY DEF TypeOK, CallerType
<1>4. \A c \in Callers :
        /\ caller[c] \in CallerType /\ caller[c].key \in Keys
        /\ caller[c].deps \in SUBSET Keys /\ caller[c].epoch \in Nat
        /\ caller[c].red \in BOOLEAN /\ caller[c].old \in Outputs \cup {2}
        /\ caller[c].birth \in 0..InvalidateLimit /\ caller[c].floor \in 0..InvalidateLimit
        /\ caller[c].result \in Result
  BY <1>3 DEF CallerType
<1>5. spent.invalidate \in 0..InvalidateLimit /\ ordered \in [Keys -> 0..InvalidateLimit]
  BY DEF TypeOK
<1>6. QED
  BY <1>1, <1>2, <1>3, <1>4, <1>5

\* A completed value is the one that was there, under its edges or recorded ones,
\* and red if an invalidation reached it; or one published for its edges and late
\* enough.
ValueStands(k) ==
  store'.kind[k] = Value =>
    \/ /\ store.kind[k] = Value
       /\ store'.result[k] = store.result[k]
       /\ store'.deps[k] = store.deps[k] \/ EdgesOwn(k)'
       /\ store.stale[k] \cap Producers(k) \subseteq store'.stale[k]
       /\ ordered'[k] = ordered[k] \/ store'.stale[k] \cap Producers(k) # {}
    \/ /\ store'.result[k].deps = store'.deps[k]
       /\ store'.result[k].birth >= ordered'[k]

\* The epoch of a key that stays pending grows with each invalidation of it.
EpochStands(k) ==
  k \in store.pending \cap store'.pending =>
    /\ store.epoch[k] <= store'.epoch[k]
    /\ ordered'[k] = ordered[k] \/ store.epoch[k] < store'.epoch[k]

StoreStands ==
  /\ store' \in StoreType /\ Limited'
  /\ \A k \in Keys : ValueStands(k) /\ EpochStands(k)

LEMMA KeptStands ==
  ASSUME store \in StoreType, store' \in StoreType, Keeps(store, store', {}), ordered' = ordered
  PROVE  \A k \in Keys : ValueStands(k) /\ EpochStands(k)
BY DEF Keeps, ValueStands, EpochStands

LEMMA SameStands ==
  ASSUME store \in StoreType, Limited, UNCHANGED <<maxEntries, store, ordered>>
  PROVE  StoreStands
<1>1. \A k \in Keys : store.epoch[k] <= store.epoch[k]
  BY StoreFields
<1>2. QED
  BY <1>1, StoreFields DEF StoreStands, Limited, ValueStands, EpochStands

\* The end of a build that publishes nothing.
LEMMA BuildEnds ==
  ASSUME store \in StoreType, Tidy(store), NEW k \in store.pending
  PROVE  LET t == DropUnused(Unpend(k), {k}) IN
         /\ t \in StoreType /\ Tidy(t) /\ t.pending = store.pending \ {k}
         /\ t.kind = store.kind /\ t.result = store.result
         /\ t.order = store.order /\ t.deps = store.deps
         /\ \A j \in Keys : j # k \/ store.kind[j] # Absent =>
              t.epoch[j] = store.epoch[j] /\ t.stale[j] = store.stale[j]
<1> DEFINE u == Unpend(k)
           keys == {k}
           t == DropUnused(u, keys)
<1>1. k \in Keys
  BY StoreFields
<1>2. /\ u \in StoreType /\ u.pending = store.pending \ {k}
      /\ u.kind = store.kind /\ u.result = store.result /\ u.order = store.order
      /\ u.epoch = store.epoch /\ u.deps = store.deps /\ u.stale = store.stale
      /\ u.index = store.index
  BY StoreFields DEF Unpend, StoreType
<1> HIDE DEF u
<1>3. /\ t \in StoreType
      /\ t.kind = u.kind /\ t.result = u.result /\ t.order = u.order
      /\ t.pending = u.pending /\ t.deps = u.deps
      /\ \A j \in Keys :
           IF j \in keys /\ Unused(u, j) THEN t.epoch[j] = 0 /\ t.stale[j] = {}
           ELSE t.epoch[j] = u.epoch[j] /\ t.stale[j] = u.stale[j]
  <2> HIDE DEF keys
  <2>1. QED
    BY <1>2, DropUnusedFacts
<1>4. \A j \in Keys : j # k \/ store.kind[j] # Absent =>
        t.epoch[j] = store.epoch[j] /\ t.stale[j] = store.stale[j]
  BY <1>2, <1>3 DEF Unused
<1>5. Tidy(t)
  <2>1. ASSUME NEW j \in Keys \ keys PROVE TidyAt(u, j)
    <3>1. TidyAt(store, j)
      BY DEF Tidy
    <3>2. QED
      BY <1>2, <3>1 DEF TidyAt, Unused, Parents
  <2>2. k \in u.index
    BY <1>1, <1>2 DEF Tidy, TidyAt, Unused
  <2>3. \A j \in Keys \cap keys : ~Unused(u, j) => j \in u.index
    BY <2>2
  <2> HIDE DEF keys
  <2>4. QED
    BY <1>2, <2>1, <2>3, DropUnusedTidies
<1>6. QED
  BY <1>2, <1>3, <1>4, <1>5 DEF u

\* An entry that a build or a record finds or makes.
LEMMA PlacedFacts ==
  ASSUME store \in StoreType, Limited, maxEntries \in Nat \ {0}, NEW k \in Keys,
         NEW deps \in SUBSET Keys
  PROVE  LET s == IF store.kind[k] = Absent THEN Put(store, k, Placeholder, NoResult) ELSE store
             t == Prune(Record(s, k, deps))
         IN
         /\ t \in StoreType /\ Tidy(t) /\ Queued(t)
         /\ Cardinality(Entries(t)) <= maxEntries /\ Len(t.order) <= 2 * maxEntries
         /\ Keeps(store, t, {k})
         /\ t.kind[k] = Value =>
              /\ store.kind[k] = Value /\ t.result[k] = store.result[k] /\ t.deps[k] = deps
              /\ store.stale[k] \subseteq t.stale[k]
<1> DEFINE s == IF store.kind[k] = Absent THEN Put(store, k, Placeholder, NoResult) ELSE store
           r == Record(s, k, deps)
           t == Prune(r)
<1>1. /\ s \in StoreType
      /\ s.kind[k] # Absent /\ \A j \in Keys \ {k} : s.kind[j] = store.kind[j]
      /\ s.kind[k] = Value => store.kind[k] = Value /\ s.result[k] = store.result[k]
      /\ \A j \in Keys \ {k} : s.result[j] = store.result[j]
      /\ s.pending = store.pending /\ s.epoch = store.epoch /\ s.deps = store.deps
      /\ s.stale = store.stale /\ s.index = store.index
      /\ Entries(s) = Entries(store) \cup {k} /\ Queued(s)
  <2>1. CASE store.kind[k] = Absent
    <3> DEFINE kind == Placeholder
               none == NoResult
               p == Put(store, k, kind, none)
    <3>1. kind \in {Placeholder, Value} /\ none \in Result
      BY BoundsAssumption DEF NoResult, Result, Outputs
    <3> HIDE DEF kind, none
    <3>2. /\ p \in StoreType
          /\ p.kind[k] = kind /\ \A j \in Keys \ {k} : p.kind[j] = store.kind[j]
          /\ p.result[k] = none /\ \A j \in Keys \ {k} : p.result[j] = store.result[j]
          /\ p.pending = store.pending /\ p.epoch = store.epoch /\ p.deps = store.deps
          /\ p.stale = store.stale /\ p.index = store.index
          /\ Entries(p) = Entries(store) \cup {k} /\ (Queued(store) => Queued(p))
      BY <3>1, PutFacts
    <3>3. s = p
      BY <2>1 DEF kind, none
    <3> HIDE DEF p, s
    <3>4. QED
      BY <3>2, <3>3 DEF kind, Limited, Absent, Placeholder, Value
  <2>2. CASE store.kind[k] # Absent
    <3>1. s = store
      BY <2>2
    <3> HIDE DEF s
    <3>2. QED
      BY <2>2, <3>1 DEF Limited, Entries
  <2>3. QED
    BY <2>1, <2>2
<1> HIDE DEF s
<1>2. \A j \in Keys \ {k} : TidyAt(s, j)
  BY <1>1 DEF Limited, Tidy, TidyAt, Unused, Parents
<1>3. s \in StoreType /\ s.kind[k] # Absent
  BY <1>1
<1>4. /\ r \in StoreType
      /\ r.kind = s.kind /\ r.result = s.result /\ r.order = s.order
      /\ r.pending = s.pending /\ r.deps = [s.deps EXCEPT ![k] = deps]
      /\ \A j \in Keys : s.kind[j] # Absent \/ j \in s.pending =>
           r.epoch[j] = s.epoch[j] /\ r.stale[j] = s.stale[j]
      /\ (\A j \in Keys \ {k} : TidyAt(s, j)) => Tidy(r)
  BY <1>3, RecordFacts
<1> HIDE DEF r
<1>5. Entries(r) = Entries(store) \cup {k}
  BY <1>1, <1>4 DEF Entries
<1>6. Queued(r)
  BY <1>1, <1>4, <1>5 DEF Queued
<1>7. Cardinality(Entries(r)) <= maxEntries + 1
  <2>1. IsFiniteSet(Entries(store)) /\ Cardinality(Entries(store)) \in Nat
    BY KeysAssumption, FS_Subset, FS_CardinalityType DEF Entries
  <2>2. \/ Cardinality(Entries(r)) = Cardinality(Entries(store))
        \/ Cardinality(Entries(r)) = Cardinality(Entries(store)) + 1
    BY <1>5, <2>1, FS_AddElement
  <2>3. QED
    BY <2>1, <2>2 DEF Limited
<1>8. Keeps(store, r, {k})
  <2>1. \A j \in store.pending : store.epoch[j] <= r.epoch[j]
    BY <1>1, <1>4, StoreFields
  <2>2. ASSUME NEW j \in Keys \ {k}, r.kind[j] = Value
        PROVE  /\ store.kind[j] = Value /\ r.result[j] = store.result[j]
               /\ r.deps[j] = store.deps[j] /\ r.stale[j] = store.stale[j]
    <3>1. s.kind[j] = Value /\ s.kind[j] # Absent
      BY <1>4, <2>2 DEF Absent, Value
    <3>2. QED
      BY <1>1, <1>4, <2>2, <3>1, StoreFields
  <2>3. QED
    BY <1>1, <1>4, <2>1, <2>2 DEF Keeps
<1>9. /\ t \in StoreType /\ Queued(t) /\ Cardinality(Entries(t)) <= maxEntries
      /\ Len(t.order) <= 2 * maxEntries
      /\ Keeps(r, t, {})
      /\ Tidy(r) => Tidy(t)
  BY <1>4, <1>6, <1>7, PruneFacts
<1>10. Keeps(store, t, {k})
  <2> HIDE DEF t
  <2>1. Keeps(r, t, {k})
    BY <1>9 DEF Keeps
  <2>2. {k} \in SUBSET Keys
    OBVIOUS
  <2> DEFINE but == {k}
  <2> HIDE DEF but
  <2>3. but \in SUBSET Keys /\ Keeps(store, r, but) /\ Keeps(r, t, but)
    BY <1>8, <2>1, <2>2 DEF but
  <2>4. Keeps(store, t, but)
    BY <1>4, <1>9, <2>3, KeepsTransitive
  <2>5. QED
    BY <2>4 DEF but
<1>11. ASSUME t.kind[k] = Value
       PROVE  /\ store.kind[k] = Value /\ t.result[k] = store.result[k] /\ t.deps[k] = deps
              /\ store.stale[k] \subseteq t.stale[k]
  <2>1. /\ r.kind[k] = Value /\ t.result[k] = r.result[k] /\ t.deps[k] = r.deps[k]
        /\ r.stale[k] \subseteq t.stale[k]
    BY <1>9, <1>11 DEF Keeps
  <2>2. r.stale[k] = store.stale[k] /\ r.deps[k] = deps
    BY <1>1, <1>4, StoreFields
  <2>3. QED
    BY <1>1, <1>4, <2>1, <2>2
<1>12. QED
  BY <1>2, <1>4, <1>9, <1>10, <1>11 DEF s, r

\* The types of the variables, and a store that a step keeps, follow from Inv.
LEMMA LookupPlaceholderStands ==
  ASSUME Inv, NEW c \in Callers, LookupPlaceholder(c) PROVE StoreStands
<1> DEFINE k == caller[c].key
<1>1. store \in StoreType /\ k \in Keys /\ maxEntries \in Nat \ {0}
  BY TypeFacts DEF Inv
<1>2. /\ store' = RemoveNode(store, k) /\ store.kind[k] = Placeholder
      /\ UNCHANGED <<maxEntries, caller, spent, ordered>>
  BY DEF LookupPlaceholder
<1> HIDE DEF k
<1>3. /\ store' \in StoreType /\ store'.order = store.order
      /\ Entries(store') = Entries(store) \ {k} /\ Keeps(store, store', {})
      /\ Tidy(store) => Tidy(store')
  BY <1>1, <1>2, RemoveNodeFacts
<1>4. /\ Tidy(store) /\ Queued(store) /\ Cardinality(Entries(store)) <= maxEntries
      /\ Len(store.order) <= 2 * maxEntries
  BY DEF Inv, Limited
<1>5. Cardinality(Entries(store')) <= maxEntries
  <2>1. IsFiniteSet(Entries(store)) /\ Cardinality(Entries(store)) \in Nat
    BY KeysAssumption, FS_Subset, FS_CardinalityType DEF Entries
  <2>2. IsFiniteSet(Entries(store')) /\ Cardinality(Entries(store')) \in Nat
        /\ Cardinality(Entries(store')) <= Cardinality(Entries(store))
    BY <1>3, <2>1, FS_Subset, FS_CardinalityType
  <2>3. QED
    BY <1>1, <1>4, <2>1, <2>2
<1>6. Queued(store')
  BY <1>3, <1>4 DEF Queued
<1>7. Limited'
  BY <1>2, <1>3, <1>4, <1>5, <1>6 DEF Limited
<1>8. QED
  BY <1>1, <1>2, <1>3, <1>7, KeptStands DEF StoreStands

LEMMA InvalidatedStands ==
  ASSUME Inv, NEW roots \in SUBSET Keys, store' = InvalidateIDs(store, roots),
         maxEntries' = maxEntries,
         \A k \in Keys : \/ ordered'[k] = ordered[k]
                         \/ k \in roots
                         \/ store.deps[k] \cap (roots \ Queries) # {}
  PROVE  StoreStands
<1>1. store \in StoreType
  BY TypeFacts DEF Inv
<1>2. /\ store' \in StoreType
      /\ store'.kind = store.kind /\ store'.result = store.result /\ store'.order = store.order
      /\ store'.pending = store.pending /\ store'.deps = store.deps
      /\ \A k \in Keys : store.kind[k] # Absent =>
           store'.stale[k] = store.stale[k] \cup Reasons(store, roots, k)
      /\ \A k \in store.pending :
           /\ store.epoch[k] <= store'.epoch[k]
           /\ Reasons(store, roots, k) # {} => store.epoch[k] < store'.epoch[k]
      /\ Tidy(store) => Tidy(store')
  BY <1>1, InvalidateIDsFacts
<1>3. roots \subseteq Affected(store, roots)
  BY AffectedFacts
<1>4. ASSUME NEW k \in Keys, ordered'[k] # ordered[k]
      PROVE  Reasons(store, roots, k) \cap Producers(k) # {}
  <2>1. CASE k \in roots
    BY <2>1 DEF Reasons, Producers
  <2>2. CASE store.deps[k] \cap (roots \ Queries) # {}
    <3>1. PICK r \in roots : r \in store.deps[k] /\ r \notin Queries
      BY <2>2
    <3>2. QED
      BY <1>3, <3>1 DEF Reasons, Producers
  <2>3. QED
    BY <1>4, <2>1, <2>2
<1>5. Limited'
  BY <1>2 DEF Inv, Limited, Queued, Entries
<1>6. ASSUME NEW k \in Keys PROVE ValueStands(k)
  <2>1. SUFFICES ASSUME store'.kind[k] = Value PROVE ValueStands(k)
    BY DEF ValueStands
  <2>2. store.kind[k] = Value /\ store.kind[k] # Absent
    BY <1>2, <2>1 DEF Absent, Value
  <2>3. store'.stale[k] = store.stale[k] \cup Reasons(store, roots, k)
    BY <1>2, <2>2
  <2>4. ordered'[k] = ordered[k] \/ store'.stale[k] \cap Producers(k) # {}
    BY <1>4, <2>3
  <2>5. QED
    BY <1>2, <2>2, <2>3, <2>4 DEF ValueStands
<1>7. ASSUME NEW k \in Keys PROVE EpochStands(k)
  BY <1>2, <1>4 DEF EpochStands
<1>8. QED
  BY <1>2, <1>5, <1>6, <1>7 DEF StoreStands

LEMMA StartBuildStands ==
  ASSUME Inv, NEW c \in Callers, StartBuild(c) PROVE StoreStands
<1> DEFINE k == caller[c].key
<1>1. store \in StoreType /\ k \in Keys
  BY TypeFacts DEF Inv
<1>2. /\ store' = [store EXCEPT !.pending = @ \cup {k}, !.index = @ \cup {k}]
      /\ UNCHANGED <<maxEntries, spent, ordered>>
  BY DEF StartBuild
<1> HIDE DEF k
<1>3. /\ store'.pending = store.pending \cup {k} /\ store'.index = store.index \cup {k}
      /\ store'.kind = store.kind /\ store'.result = store.result /\ store'.order = store.order
      /\ store'.epoch = store.epoch /\ store'.deps = store.deps /\ store'.stale = store.stale
  BY <1>1, <1>2 DEF StoreType
<1>4. store' \in StoreType
  <2> DEFINE p == [store EXCEPT !.pending = @ \cup {k}]
  <2>1. p \in StoreType /\ p.index = store.index
    BY <1>1, StoreFields DEF StoreType
  <2>2. store' = [p EXCEPT !.index = @ \cup {k}]
    BY <1>2
  <2> HIDE DEF p
  <2>3. QED
    BY <1>1, <2>1, <2>2 DEF StoreType
<1>5. Tidy(store')
  <2>1. SUFFICES ASSUME NEW j \in Keys PROVE TidyAt(store', j)
    BY DEF Tidy
  <2>2. TidyAt(store, j)
    BY DEF Inv, Limited, Tidy
  <2>3. CASE j = k
    BY <1>3, <2>3 DEF TidyAt, Unused
  <2>4. CASE j # k
    BY <1>3, <2>2, <2>4 DEF TidyAt, Unused, Parents
  <2>5. QED
    BY <2>3, <2>4
<1>6. Limited'
  BY <1>2, <1>3, <1>5 DEF Inv, Limited, Queued, Entries
<1>7. \A j \in Keys : store.epoch[j] <= store.epoch[j]
  BY <1>1, StoreFields
<1>8. QED
  BY <1>2, <1>3, <1>4, <1>6, <1>7 DEF StoreStands, ValueStands, EpochStands

LEMMA BuildEndsStands ==
  ASSUME Inv, NEW c \in Callers, BuildFails(c) \/ BuildOvertaken(c) PROVE StoreStands
<1> DEFINE k == caller[c].key
<1>1. store \in StoreType /\ k \in store.pending
  <2>1. caller[c].at = "building"
    BY DEF BuildFails, BuildOvertaken
  <2>2. QED
    BY <2>1, TypeFacts DEF Inv, Shared
<1>2. store' = DropUnused(Unpend(k), {k}) /\ UNCHANGED <<maxEntries, spent, ordered>>
  BY DEF BuildFails, BuildOvertaken
<1> HIDE DEF k
<1>3. Tidy(store)
  BY DEF Inv, Limited
<1>4. /\ store' \in StoreType /\ Tidy(store') /\ store'.pending = store.pending \ {k}
      /\ store'.kind = store.kind /\ store'.result = store.result
      /\ store'.order = store.order /\ store'.deps = store.deps
      /\ \A j \in Keys : j # k \/ store.kind[j] # Absent =>
           store'.epoch[j] = store.epoch[j] /\ store'.stale[j] = store.stale[j]
  BY <1>1, <1>2, <1>3, BuildEnds
<1>5. Limited'
  BY <1>2, <1>4 DEF Inv, Limited, Queued, Entries
<1>6. ASSUME NEW j \in Keys PROVE ValueStands(j)
  BY <1>2, <1>4 DEF ValueStands, Absent, Value
<1>7. ASSUME NEW j \in Keys PROVE EpochStands(j)
  <2>1. store.epoch[j] \in Nat /\ (j \in store'.pending => j # k)
    BY <1>1, <1>4, StoreFields
  <2>2. store.epoch[j] <= store.epoch[j]
    BY <2>1
  <2>3. QED
    BY <1>2, <1>4, <2>1, <2>2 DEF EpochStands
<1>8. QED
  BY <1>4, <1>5, <1>6, <1>7 DEF StoreStands

LEMMA BuildCommitsStands ==
  ASSUME Inv, NEW c \in Callers, NEW out \in Outputs, BuildCommits(c, out)
  PROVE  StoreStands /\ store'.pending = store.pending \ {caller[c].key}
<1> DEFINE k == caller[c].key
           result == [deps |-> caller[c].deps, out |-> out, birth |-> caller[c].birth]
           changed == caller[c].old # out
           red == caller[c].red
           s == Unpend(k)
           t == Published(s, k, result, red, changed)
<1>1. /\ store \in StoreType /\ k \in Keys /\ k \in Queries /\ maxEntries \in Nat \ {0}
      /\ result \in Result /\ red \in BOOLEAN /\ changed \in BOOLEAN
      /\ caller[c].birth >= ordered[k] /\ k \in store.pending
  <2>1. caller[c].at = "building" /\ ~Overtaken(c)
    BY DEF BuildCommits
  <2>2. caller[c].birth >= ordered[k] /\ k \in Queries /\ k \in store.pending
    BY <2>1 DEF Overtaken, Inv, Standing, Asked, Shared
  <2>3. QED
    BY <2>2, TypeFacts DEF Inv, Result
<1>2. store' = t /\ UNCHANGED <<maxEntries, spent, ordered>>
  BY DEF BuildCommits
<1>3. /\ s \in StoreType /\ s.pending = store.pending \ {k}
      /\ s.kind = store.kind /\ s.result = store.result /\ s.order = store.order
      /\ s.epoch = store.epoch /\ s.deps = store.deps /\ s.stale = store.stale
      /\ s.index = store.index
  <2> HIDE DEF k
  <2>1. QED
    BY <1>1, StoreFields DEF Unpend, StoreType
<1>4. result.deps = caller[c].deps /\ result.birth = caller[c].birth
  OBVIOUS
<1> HIDE DEF k, result, changed, red, s
<1>5. /\ Queued(s) /\ Cardinality(Entries(s)) <= maxEntries
      /\ \A j \in Keys \ {k} : TidyAt(s, j)
  <2>1. Tidy(store) /\ Queued(store) /\ Cardinality(Entries(store)) <= maxEntries
    BY DEF Inv, Limited
  <2>2. Entries(s) = Entries(store)
    BY <1>3 DEF Entries
  <2>3. ASSUME NEW j \in Keys \ {k} PROVE TidyAt(s, j)
    BY <1>3, <2>1 DEF Tidy, TidyAt, Unused, Parents
  <2>4. QED
    BY <1>3, <2>1, <2>2, <2>3 DEF Queued
<1>6. /\ t \in StoreType /\ Tidy(t) /\ Queued(t)
      /\ Cardinality(Entries(t)) <= maxEntries /\ Len(t.order) <= 2 * maxEntries
      /\ t.pending = s.pending
      /\ \A j \in s.pending : s.epoch[j] <= t.epoch[j]
      /\ t.kind[k] = Value => t.result[k] = result /\ t.deps[k] = result.deps
      /\ \A j \in Keys \ {k} : t.kind[j] = Value =>
           /\ s.kind[j] = Value /\ t.result[j] = s.result[j] /\ t.deps[j] = s.deps[j]
           /\ s.stale[j] \ {k} \subseteq t.stale[j]
  BY <1>1, <1>3, <1>5, PublishedFacts
<1> HIDE DEF t
<1>7. Limited'
  BY <1>2, <1>6 DEF Limited
<1>8. ASSUME NEW j \in Keys PROVE ValueStands(j)
  <2>1. CASE j = k
    BY <1>1, <1>2, <1>4, <1>6, <2>1 DEF ValueStands
  <2>2. CASE j # k
    <3>1. k \notin Producers(j)
      BY <1>1, <2>2 DEF Producers
    <3>2. QED
      BY <1>2, <1>3, <1>6, <2>2, <3>1 DEF ValueStands
  <2>3. QED
    BY <2>1, <2>2
<1>9. ASSUME NEW j \in Keys PROVE EpochStands(j)
  BY <1>2, <1>3, <1>6 DEF EpochStands
<1>10. QED
  BY <1>2, <1>3, <1>6, <1>7, <1>8, <1>9 DEF StoreStands, k

LEMMA RecordDependenciesStands ==
  ASSUME Inv, NEW k \in Queries, NEW deps \in DependencySets[k], RecordDependencies(k, deps)
  PROVE  StoreStands /\ store'.pending = store.pending
<1> DEFINE s == IF store.kind[k] = Absent THEN Put(store, k, Placeholder, NoResult) ELSE store
           t == Prune(Record(s, k, deps))
<1>1. /\ store \in StoreType /\ k \in Keys /\ maxEntries \in Nat \ {0} /\ Limited
      /\ deps \in SUBSET Keys
  BY TypeFacts, DependencySetsAssumption DEF Inv, Queries
<1>2. store' = t /\ UNCHANGED <<maxEntries, caller, ordered>>
  BY DEF RecordDependencies
<1>3. /\ t \in StoreType /\ Tidy(t) /\ Queued(t)
      /\ Cardinality(Entries(t)) <= maxEntries /\ Len(t.order) <= 2 * maxEntries
      /\ Keeps(store, t, {k})
      /\ t.kind[k] = Value =>
           /\ store.kind[k] = Value /\ t.result[k] = store.result[k] /\ t.deps[k] = deps
           /\ store.stale[k] \subseteq t.stale[k]
  BY <1>1, PlacedFacts
<1> HIDE DEF t
<1>4. Limited'
  BY <1>2, <1>3 DEF Limited
<1>5. store'.pending = store.pending /\ \A j \in Keys : EpochStands(j)
  BY <1>2, <1>3 DEF Keeps, EpochStands
<1>6. ASSUME store'.kind[k] = Value PROVE EdgesOwn(k)'
  <2>1. store.kind[k] = Value /\ store'.result[k] = store.result[k] /\ store'.deps[k] = deps
    BY <1>2, <1>3, <1>6
  <2>2. deps # store.result[k].deps => <<k, store.result[k], deps>> \in recorded'
    BY <2>1 DEF RecordDependencies
  <2>3. QED
    BY <2>1, <2>2 DEF EdgesOwn
<1>7. ASSUME NEW j \in Keys PROVE ValueStands(j)
  <2>1. CASE j = k
    BY <1>2, <1>3, <1>6, <2>1 DEF ValueStands
  <2>2. CASE j # k
    BY <1>2, <1>3, <2>2 DEF Keeps, ValueStands
  <2>3. QED
    BY <2>1, <2>2
<1>8. QED
  BY <1>2, <1>3, <1>4, <1>5, <1>7 DEF StoreStands

\* Every step keeps the store well-typed, within its limits and tidy, and
\* stands by what it says of values and epochs.
LEMMA StoreSteps ==
  ASSUME Inv, Next PROVE StoreStands
<1>1. store \in StoreType /\ Limited
  BY TypeFacts DEF Inv
<1>2. ASSUME NEW c \in Callers, Step(c) \/ GiveUp(c) PROVE StoreStands
  <2>1. CASE LookupPlaceholder(c)
    BY <2>1, LookupPlaceholderStands
  <2>2. CASE Hit(c) \/ Join(c) \/ GiveUp(c)
    BY <1>1, <2>2, SameStands DEF Hit, Join, GiveUp
  <2>3. CASE Mismatch(c)
    <3> DEFINE roots == {caller[c].key}
    <3>1. roots \in SUBSET Keys
      BY TypeFacts DEF Inv
    <3>2. store' = InvalidateIDs(store, roots) /\ maxEntries' = maxEntries /\ ordered' = ordered
      BY <2>3 DEF Mismatch
    <3> HIDE DEF roots
    <3>3. QED
      BY <3>1, <3>2, InvalidatedStands
  <2>4. CASE StartBuild(c)
    BY <2>4, StartBuildStands
  <2>5. CASE BuildFails(c) \/ BuildOvertaken(c)
    BY <2>5, BuildEndsStands
  <2>6. CASE \E out \in Outputs : BuildCommits(c, out)
    BY <2>6, BuildCommitsStands
  <2>7. QED
    BY <1>2, <2>1, <2>2, <2>3, <2>4, <2>5, <2>6 DEF Step
<1>3. ASSUME NEW c \in Callers, NEW k \in Queries, NEW deps \in DependencySets[k],
             Evaluate(c, k, deps)
      PROVE  StoreStands
  BY <1>1, <1>3, SameStands DEF Evaluate
<1>4. ASSUME NEW roots \in Invalidations, Invalidate(roots) PROVE StoreStands
  <2>1. roots \in SUBSET Keys
    BY InvalidationsAssumption
  <2>2. store' = InvalidateIDs(store, roots) /\ maxEntries' = maxEntries
    BY <1>4 DEF Invalidate
  <2>3. \A k \in Keys : \/ ordered'[k] = ordered[k]
                        \/ k \in roots
                        \/ store.deps[k] \cap (roots \ Queries) # {}
    BY <1>4 DEF Invalidate
  <2>4. QED
    BY <2>1, <2>2, <2>3, InvalidatedStands
<1>5. ASSUME NEW k \in Queries, NEW deps \in DependencySets[k], RecordDependencies(k, deps)
      PROVE  StoreStands
  BY <1>5, RecordDependenciesStands
<1>6. QED
  BY <1>2, <1>3, <1>4, <1>5 DEF Next

-----------------------------------------------------------------------------
(***************************************************************************)
(* What the steps do to the calls.                                          *)
(***************************************************************************)
\* A build that goes on is the same build.
Goes(c) == /\ caller[c].at = "building" /\ caller'[c].key = caller[c].key
           /\ caller'[c].epoch = caller[c].epoch /\ caller'[c].birth = caller[c].birth

\* A build that begins is the key's only one, and knows its epoch and the time.
Begins(c) == /\ StartBuild(c) /\ caller'[c].key = caller[c].key
             /\ caller'[c].epoch = store'.epoch[caller[c].key]
             /\ caller'[c].birth = spent.invalidate /\ ordered' = ordered

\* What a call asks for and was told.
Asks(c) == /\ caller'[c].key = caller[c].key /\ caller'[c].deps = caller[c].deps
           /\ caller'[c].floor = caller[c].floor

\* A result handed out is the caller's own, and not too old.
Due(c) == /\ AnswerOwn(c)'
          /\ caller'[c].result.birth >= caller'[c].floor

CallStands(c) ==
  /\ caller'[c] \in CallerType
  /\ caller'[c].at = "building" => Goes(c) \/ Begins(c)
  /\ caller'[c].at # "idle" =>
       \/ caller[c].at # "idle" /\ Asks(c)
       \/ caller'[c].key \in Queries /\ caller'[c].floor <= ordered'[caller'[c].key]
  /\ caller'[c].returned = Value =>
       \/ caller[c].returned = Value /\ Asks(c) /\ caller'[c].result = caller[c].result
       \/ Due(c)

LEMMA ReturnFacts ==
  ASSUME NEW c \in Callers, caller[c] \in CallerType,
         NEW returned \in {"none", "error", Value}, NEW result \in Result
  PROVE  LET r == Return(c, returned, result) IN
         /\ r \in CallerType /\ r.at = "idle" /\ r.returned = returned /\ r.result = result
         /\ r.key = caller[c].key /\ r.deps = caller[c].deps /\ r.floor = caller[c].floor
<1> DEFINE r == Return(c, returned, result)
<1>1. 0 \in Nat /\ 0 \in 0..InvalidateLimit /\ 2 \in Outputs \cup {2}
  BY BoundsAssumption
<1>2. r \in CallerType
  BY <1>1 DEF Return, CallerType
<1>3. QED
  BY <1>2 DEF Return, CallerType

\* The waiters of a key look again; nothing else of a call changes.
LEMMA WakeFacts ==
  ASSUME caller \in [Callers -> CallerType], NEW k \in Keys, NEW d \in Callers
  PROVE  /\ Wake(k)[d] \in CallerType
         /\ Wake(k)[d].at = (IF caller[d].at = "waiting" /\ caller[d].key = k THEN "lookup"
                                                                          ELSE caller[d].at)
         /\ Wake(k)[d].key = caller[d].key /\ Wake(k)[d].deps = caller[d].deps
         /\ Wake(k)[d].epoch = caller[d].epoch /\ Wake(k)[d].birth = caller[d].birth
         /\ Wake(k)[d].floor = caller[d].floor
         /\ Wake(k)[d].returned = caller[d].returned /\ Wake(k)[d].result = caller[d].result
<1>1. caller[d] \in CallerType
  OBVIOUS
<1>2. [caller[d] EXCEPT !.at = "lookup"] \in CallerType
  BY <1>1 DEF CallerType
<1>3. Wake(k)[d] = IF caller[d].at = "waiting" /\ caller[d].key = k
                     THEN [caller[d] EXCEPT !.at = "lookup"] ELSE caller[d]
  BY DEF Wake
<1>4. CASE caller[d].at = "waiting" /\ caller[d].key = k
  BY <1>1, <1>2, <1>3, <1>4 DEF CallerType
<1>5. CASE ~(caller[d].at = "waiting" /\ caller[d].key = k)
  BY <1>1, <1>3, <1>5
<1>6. QED
  BY <1>4, <1>5

\* A call that a step leaves alone, or wakes.
Untouched(c) ==
  /\ caller'[c] \in CallerType
  /\ caller'[c].at = caller[c].at \/ (caller'[c].at = "lookup" /\ caller[c].at = "waiting")
  /\ caller'[c].key = caller[c].key /\ caller'[c].deps = caller[c].deps
  /\ caller'[c].epoch = caller[c].epoch /\ caller'[c].birth = caller[c].birth
  /\ caller'[c].floor = caller[c].floor
  /\ caller'[c].returned = caller[c].returned /\ caller'[c].result = caller[c].result

LEMMA UntouchedStands ==
  ASSUME NEW c \in Callers, Untouched(c) PROVE CallStands(c)
BY DEF Untouched, CallStands, Goes, Asks

LEMMA LeftAlone ==
  ASSUME NEW C \in SUBSET Callers, caller \in [Callers -> CallerType],
         \A c \in C : caller'[c] = caller[c]
  PROVE  \A c \in C : CallStands(c)
<1> SUFFICES ASSUME NEW c \in C PROVE CallStands(c)
  OBVIOUS
<1>1. caller[c] \in CallerType /\ caller'[c] = caller[c]
  OBVIOUS
<1>2. Untouched(c)
  BY <1>1 DEF Untouched
<1>3. QED
  BY <1>2, UntouchedStands

\* What happens when a call returns.
LEMMA ReturnStands ==
  ASSUME Inv, NEW c \in Callers, NEW returned \in {"none", "error", Value}, NEW result \in Result,
         caller'[c] = Return(c, returned, result),
         returned = Value =>
           /\ \/ result.deps = caller[c].deps
              \/ <<caller[c].key, result, caller[c].deps>> \in recorded'
           /\ result.birth >= caller[c].floor
  PROVE  CallStands(c)
<1> DEFINE r == Return(c, returned, result)
<1>1. caller[c] \in CallerType
  BY TypeFacts DEF Inv
<1>2. /\ r \in CallerType /\ r.at = "idle" /\ r.returned = returned /\ r.result = result
      /\ r.key = caller[c].key /\ r.deps = caller[c].deps /\ r.floor = caller[c].floor
  BY <1>1, ReturnFacts
<1>3. caller'[c] = r
  OBVIOUS
<1> HIDE DEF r
<1>4. QED
  BY <1>2, <1>3 DEF CallStands, Due, AnswerOwn

LEMMA HitStands ==
  ASSUME Inv, NEW c \in Callers, Hit(c) PROVE \A d \in Callers : CallStands(d)
<1> DEFINE k == caller[c].key
           result == store.result[k]
<1>1. /\ store \in StoreType /\ k \in Keys /\ caller \in [Callers -> CallerType]
      /\ ordered \in [Keys -> 0..InvalidateLimit]
      /\ caller[c].floor \in 0..InvalidateLimit
  BY TypeFacts DEF Inv
<1>2. result \in Result /\ result.birth \in 0..InvalidateLimit
  BY <1>1, StoreFields DEF Result
<1>3. \/ result.deps = caller[c].deps
      \/ <<k, result, caller[c].deps>> \in recorded'
  BY <1>1 DEF Hit, Green, Match, Inv, Edged, EdgesOwn
<1>4. result.birth >= caller[c].floor
  <2>1. result.birth >= ordered[k]
    BY <1>1 DEF Hit, Green, Inv, Reddened
  <2>2. caller[c].floor <= ordered[k]
    BY DEF Hit, Inv, Asked
  <2>3. result.birth \in Int /\ ordered[k] \in Int /\ caller[c].floor \in Int
    BY <1>1, <1>2
  <2> HIDE DEF result, k
  <2>4. QED
    BY <2>1, <2>2, <2>3
<1>5. caller' = [caller EXCEPT ![c] = Return(c, Value, result)]
  BY DEF Hit
<1> HIDE DEF result
<1>6. caller'[c] = Return(c, Value, result) /\ \A d \in Callers \ {c} : caller'[d] = caller[d]
  BY <1>1, <1>5
<1>7. CallStands(c)
  BY <1>2, <1>3, <1>4, <1>6, ReturnStands
<1>8. \A d \in Callers \ {c} : CallStands(d)
  <2> DEFINE others == Callers \ {c}
  <2>1. others \in SUBSET Callers /\ \A d \in others : caller'[d] = caller[d]
    BY <1>6
  <2> HIDE DEF others
  <2>2. \A d \in others : CallStands(d)
    BY <1>1, <2>1, LeftAlone
  <2>3. QED
    BY <2>2 DEF others
<1>9. QED
  BY <1>7, <1>8

LEMMA JoinStands ==
  ASSUME Inv, NEW c \in Callers, Join(c) PROVE \A d \in Callers : CallStands(d)
<1> DEFINE r == [caller[c] EXCEPT !.at = "waiting"]
<1>1. caller \in [Callers -> CallerType] /\ caller[c].at = "lookup"
  BY TypeFacts DEF Inv, Join, Miss
<1>2. caller' = [caller EXCEPT ![c] = r]
  BY DEF Join
<1>3. /\ r \in CallerType /\ r.at = "waiting"
      /\ r.key = caller[c].key /\ r.deps = caller[c].deps /\ r.floor = caller[c].floor
      /\ r.returned = caller[c].returned /\ r.result = caller[c].result
  BY <1>1 DEF CallerType
<1> HIDE DEF r
<1>4. caller'[c] = r /\ \A d \in Callers \ {c} : caller'[d] = caller[d]
  BY <1>1, <1>2
<1>5. CallStands(c)
  BY <1>1, <1>3, <1>4 DEF CallStands, Asks
<1>6. \A d \in Callers \ {c} : CallStands(d)
  <2> DEFINE others == Callers \ {c}
  <2>1. others \in SUBSET Callers /\ \A d \in others : caller'[d] = caller[d]
    BY <1>4
  <2> HIDE DEF others
  <2>2. \A d \in others : CallStands(d)
    BY <1>1, <2>1, LeftAlone
  <2>3. QED
    BY <2>2 DEF others
<1>7. QED
  BY <1>5, <1>6

LEMMA GiveUpStands ==
  ASSUME Inv, NEW c \in Callers, GiveUp(c) PROVE \A d \in Callers : CallStands(d)
<1> DEFINE result == NoResult
<1>1. caller \in [Callers -> CallerType]
  BY TypeFacts DEF Inv
<1>2. result \in Result
  BY BoundsAssumption DEF NoResult, Result, Outputs
<1>3. caller' = [caller EXCEPT ![c] = Return(c, "error", result)]
  BY DEF GiveUp
<1> HIDE DEF result
<1>4. /\ caller'[c] = Return(c, "error", result)
      /\ \A d \in Callers \ {c} : caller'[d] = caller[d]
  BY <1>1, <1>3
<1>5. CallStands(c)
  BY <1>2, <1>4, ReturnStands DEF Value
<1>6. \A d \in Callers \ {c} : CallStands(d)
  <2> DEFINE others == Callers \ {c}
  <2>1. others \in SUBSET Callers /\ \A d \in others : caller'[d] = caller[d]
    BY <1>4
  <2> HIDE DEF others
  <2>2. \A d \in others : CallStands(d)
    BY <1>1, <2>1, LeftAlone
  <2>3. QED
    BY <2>2 DEF others
<1>7. QED
  BY <1>5, <1>6

LEMMA EvaluateStands ==
  ASSUME Inv, NEW c \in Callers, NEW k \in Queries, NEW deps \in DependencySets[k],
         Evaluate(c, k, deps)
  PROVE  \A d \in Callers : CallStands(d)
<1> DEFINE r == [caller[c] EXCEPT !.at = "lookup", !.key = k, !.deps = deps,
                   !.returned = "none", !.result = NoResult, !.floor = ordered[k]]
<1>1. /\ caller \in [Callers -> CallerType] /\ k \in Keys /\ deps \in SUBSET Keys
      /\ ordered[k] \in 0..InvalidateLimit
  BY TypeFacts, DependencySetsAssumption DEF Inv, Queries
<1>2. caller' = [caller EXCEPT ![c] = r] /\ ordered' = ordered
  BY DEF Evaluate
<1>3. NoResult \in Result
  BY BoundsAssumption DEF NoResult, Result, Outputs
<1> DEFINE none == NoResult
           floor == ordered[k]
<1>4. r \in CallerType
  <2> HIDE DEF none, floor
  <2>1. caller[c] \in CallerType /\ none \in Result /\ floor \in 0..InvalidateLimit
    BY <1>1, <1>3 DEF none, floor
  <2>2. r = [caller[c] EXCEPT !.at = "lookup", !.key = k, !.deps = deps,
                   !.returned = "none", !.result = none, !.floor = floor]
    BY DEF none, floor
  <2> HIDE DEF r
  <2>3. QED
    BY <1>1, <2>1, <2>2 DEF CallerType
<1>a. r.at = "lookup" /\ r.key = k /\ r.returned = "none" /\ r.floor = ordered[k]
  <2>1. caller[c] \in CallerType
    BY <1>1
  <2>2. QED
    BY <2>1 DEF CallerType
<1> HIDE DEF r
<1>5. caller'[c] = r /\ \A d \in Callers \ {c} : caller'[d] = caller[d]
  BY <1>1, <1>2
<1>6. ordered[k] <= ordered[k]
  BY <1>1
<1>7. CallStands(c)
  BY <1>2, <1>4, <1>5, <1>6, <1>a DEF CallStands, Value
<1>8. \A d \in Callers \ {c} : CallStands(d)
  <2> DEFINE others == Callers \ {c}
  <2>1. others \in SUBSET Callers /\ \A d \in others : caller'[d] = caller[d]
    BY <1>5
  <2> HIDE DEF others
  <2>2. \A d \in others : CallStands(d)
    BY <1>1, <2>1, LeftAlone
  <2>3. QED
    BY <2>2 DEF others
<1>9. QED
  BY <1>7, <1>8

LEMMA StartBuildCallStands ==
  ASSUME Inv, NEW c \in Callers, StartBuild(c) PROVE \A d \in Callers : CallStands(d)
<1> DEFINE k == caller[c].key
           red == store.stale[k] # {}
           old == IF store.kind[k] = Value THEN store.result[k].out ELSE 2
           r == [caller[c] EXCEPT !.at = "building", !.epoch = store.epoch[k], !.red = red,
                                  !.birth = spent.invalidate, !.old = old]
<1>1. /\ caller \in [Callers -> CallerType] /\ store \in StoreType /\ k \in Keys
      /\ spent.invalidate \in 0..InvalidateLimit /\ caller[c].at = "lookup"
  BY TypeFacts DEF Inv, StartBuild, Miss
<1>2. caller' = [caller EXCEPT ![c] = r] /\ store'.epoch = store.epoch /\ ordered' = ordered
  BY <1>1 DEF StartBuild, StoreType
<1>3. store.epoch[k] \in Nat /\ red \in BOOLEAN /\ old \in Outputs \cup {2}
  <2> HIDE DEF k
  <2>1. store.result[k] \in Result
    BY <1>1, StoreFields
  <2>2. QED
    BY <1>1, <2>1, StoreFields DEF Result
<1> HIDE DEF red, old
<1>4. /\ r \in CallerType /\ r.at = "building" /\ r.epoch = store.epoch[k]
      /\ r.birth = spent.invalidate
      /\ r.key = caller[c].key /\ r.deps = caller[c].deps /\ r.floor = caller[c].floor
      /\ r.returned = caller[c].returned /\ r.result = caller[c].result
  <2> HIDE DEF k
  <2>1. QED
    BY <1>1, <1>3 DEF CallerType
<1> HIDE DEF r
<1>5. caller'[c] = r /\ \A d \in Callers \ {c} : caller'[d] = caller[d]
  BY <1>1, <1>2
<1>6. CallStands(c)
  BY <1>1, <1>2, <1>4, <1>5 DEF CallStands, Asks, Begins
<1>7. \A d \in Callers \ {c} : CallStands(d)
  <2> DEFINE others == Callers \ {c}
  <2>1. others \in SUBSET Callers /\ \A d \in others : caller'[d] = caller[d]
    BY <1>5
  <2> HIDE DEF others
  <2>2. \A d \in others : CallStands(d)
    BY <1>1, <2>1, LeftAlone
  <2>3. QED
    BY <2>2 DEF others
<1>8. QED
  BY <1>6, <1>7

\* A call that tries again keeps what it asks for.
LEMMA RetryFacts ==
  ASSUME NEW c \in Callers, caller[c] \in CallerType
  PROVE  LET r == Retry(c) IN
         /\ r \in CallerType /\ r.at = "lookup" /\ r.key = caller[c].key
         /\ r.deps = caller[c].deps /\ r.floor = caller[c].floor
         /\ r.returned = caller[c].returned /\ r.result = caller[c].result
<1>1. 0 \in Nat /\ 0 \in 0..InvalidateLimit /\ 2 \in Outputs \cup {2}
  BY BoundsAssumption
<1>2. QED
  BY <1>1 DEF Retry, CallerType

LEMMA RetryStands ==
  ASSUME Inv, NEW c \in Callers, caller[c].at = "building", caller'[c] = Retry(c)
  PROVE  CallStands(c)
<1> DEFINE r == Retry(c)
<1>1. /\ r \in CallerType /\ r.at = "lookup" /\ r.key = caller[c].key
      /\ r.deps = caller[c].deps /\ r.floor = caller[c].floor
      /\ r.returned = caller[c].returned /\ r.result = caller[c].result
  BY TypeFacts, RetryFacts DEF Inv
<1>2. caller'[c] = r
  OBVIOUS
<1> HIDE DEF r
<1>3. QED
  BY <1>1, <1>2 DEF CallStands, Asks

\* The end of a build: what becomes of the others.
LEMMA WakeStands ==
  ASSUME Inv, NEW c \in Callers, NEW r, caller' = [Wake(caller[c].key) EXCEPT ![c] = r]
  PROVE  caller'[c] = r /\ \A d \in Callers \ {c} : CallStands(d)
<1> DEFINE k == caller[c].key
<1>1. caller \in [Callers -> CallerType] /\ k \in Keys
  BY TypeFacts DEF Inv
<1>2. Wake(k) = [d \in Callers |-> Wake(k)[d]]
  BY DEF Wake
<1> HIDE DEF k
<1>3. caller'[c] = r /\ \A d \in Callers \ {c} : caller'[d] = Wake(k)[d]
  BY <1>2 DEF k
<1>4. ASSUME NEW d \in Callers \ {c} PROVE CallStands(d)
  <2>1. /\ caller'[d] \in CallerType
        /\ caller'[d].at = (IF caller[d].at = "waiting" /\ caller[d].key = k THEN "lookup"
                                                                         ELSE caller[d].at)
        /\ caller'[d].key = caller[d].key /\ caller'[d].deps = caller[d].deps
        /\ caller'[d].epoch = caller[d].epoch /\ caller'[d].birth = caller[d].birth
        /\ caller'[d].floor = caller[d].floor
        /\ caller'[d].returned = caller[d].returned /\ caller'[d].result = caller[d].result
    BY <1>1, <1>3, WakeFacts
  <2>2. QED
    BY <2>1, UntouchedStands DEF Untouched
<1>5. QED
  BY <1>3, <1>4

LEMMA BuildFailsCallStands ==
  ASSUME Inv, NEW c \in Callers, BuildFails(c) PROVE \A d \in Callers : CallStands(d)
<1> DEFINE result == NoResult
           r == Return(c, "error", result)
<1>1. result \in Result
  BY BoundsAssumption DEF NoResult, Result, Outputs
<1>2. caller' = [Wake(caller[c].key) EXCEPT ![c] = r]
  BY DEF BuildFails
<1>3. caller'[c] = r /\ \A d \in Callers \ {c} : CallStands(d)
  <2> HIDE DEF r
  <2>1. QED
    BY <1>2, WakeStands
<1> HIDE DEF result
<1>4. CallStands(c)
  BY <1>1, <1>3, ReturnStands DEF Value
<1>5. QED
  BY <1>3, <1>4

LEMMA BuildOvertakenCallStands ==
  ASSUME Inv, NEW c \in Callers, BuildOvertaken(c) PROVE \A d \in Callers : CallStands(d)
<1> DEFINE r == Retry(c)
<1>1. caller[c].at = "building" /\ caller' = [Wake(caller[c].key) EXCEPT ![c] = r]
  BY DEF BuildOvertaken
<1>2. caller'[c] = r /\ \A d \in Callers \ {c} : CallStands(d)
  <2> HIDE DEF r
  <2>1. QED
    BY <1>1, WakeStands
<1>3. CallStands(c)
  BY <1>1, <1>2, RetryStands
<1>4. QED
  BY <1>2, <1>3

LEMMA BuildCommitsCallStands ==
  ASSUME Inv, NEW c \in Callers, NEW out \in Outputs, BuildCommits(c, out)
  PROVE  \A d \in Callers : CallStands(d)
<1> DEFINE k == caller[c].key
           result == [deps |-> caller[c].deps, out |-> out, birth |-> caller[c].birth]
           r == IF store'.epoch[k] = caller[c].epoch THEN Return(c, Value, result) ELSE Retry(c)
<1>1. /\ caller[c].at = "building" /\ caller[c].epoch = store.epoch[k]
      /\ caller' = [Wake(k) EXCEPT ![c] = r]
  BY DEF BuildCommits, Overtaken
<1>2. result \in Result /\ result.deps = caller[c].deps /\ result.birth = caller[c].birth
  BY TypeFacts DEF Inv, Result
<1>3. caller[c].birth >= caller[c].floor
  <2>1. caller[c].birth >= ordered[k] /\ caller[c].floor <= ordered[k]
    BY <1>1 DEF Inv, Standing, Asked
  <2>2. caller[c].birth \in Int /\ ordered[k] \in Int /\ caller[c].floor \in Int
    BY TypeFacts DEF Inv
  <2> HIDE DEF k
  <2>3. QED
    BY <2>1, <2>2
<1>4. caller'[c] = r /\ \A d \in Callers \ {c} : CallStands(d)
  <2> HIDE DEF r
  <2>1. QED
    BY <1>1, WakeStands
<1> HIDE DEF result
<1>5. CallStands(c)
  <2>1. CASE store'.epoch[k] = caller[c].epoch
    <3>1. caller'[c] = Return(c, Value, result)
      BY <1>4, <2>1
    <3>2. QED
      BY <1>2, <1>3, <3>1, ReturnStands
  <2>2. CASE store'.epoch[k] # caller[c].epoch
    BY <1>1, <1>4, <2>2, RetryStands
  <2>3. QED
    BY <2>1, <2>2
<1>6. QED
  BY <1>4, <1>5

LEMMA CallSteps ==
  ASSUME Inv, Next PROVE caller' \in [Callers -> CallerType] /\ \A d \in Callers : CallStands(d)
<1>1. caller \in [Callers -> CallerType]
  BY TypeFacts DEF Inv
<1>2. ASSUME UNCHANGED caller PROVE \A d \in Callers : CallStands(d)
  <2>1. Callers \in SUBSET Callers /\ \A d \in Callers : caller'[d] = caller[d]
    BY <1>2
  <2>2. QED
    BY <1>1, <2>1, LeftAlone
<1>3. ASSUME NEW c \in Callers, Step(c) \/ GiveUp(c) PROVE \A d \in Callers : CallStands(d)
  <2>1. CASE LookupPlaceholder(c) \/ Mismatch(c)
    BY <1>2, <2>1 DEF LookupPlaceholder, Mismatch
  <2>2. CASE Hit(c)
    BY <2>2, HitStands
  <2>3. CASE Join(c)
    BY <2>3, JoinStands
  <2>4. CASE StartBuild(c)
    BY <2>4, StartBuildCallStands
  <2>5. CASE BuildOvertaken(c)
    BY <2>5, BuildOvertakenCallStands
  <2>6. CASE \E out \in Outputs : BuildCommits(c, out)
    BY <2>6, BuildCommitsCallStands
  <2>7. CASE BuildFails(c)
    BY <2>7, BuildFailsCallStands
  <2>8. CASE GiveUp(c)
    BY <2>8, GiveUpStands
  <2>9. QED
    BY <1>3, <2>1, <2>2, <2>3, <2>4, <2>5, <2>6, <2>7, <2>8 DEF Step
<1>4. ASSUME NEW c \in Callers, NEW k \in Queries, NEW deps \in DependencySets[k],
             Evaluate(c, k, deps)
      PROVE  \A d \in Callers : CallStands(d)
  BY <1>4, EvaluateStands
<1>5. ASSUME NEW roots \in Invalidations, Invalidate(roots)
      PROVE  \A d \in Callers : CallStands(d)
  BY <1>2, <1>5 DEF Invalidate
<1>6. ASSUME NEW k \in Queries, NEW deps \in DependencySets[k], RecordDependencies(k, deps)
      PROVE  \A d \in Callers : CallStands(d)
  BY <1>2, <1>6 DEF RecordDependencies
<1>7. \A d \in Callers : CallStands(d)
  BY <1>3, <1>4, <1>5, <1>6 DEF Next
<1>8. caller' = [d \in Callers |-> caller'[d]]
  BY <1>1 DEF Next, Step, LookupPlaceholder, Hit, Mismatch, Join, StartBuild, BuildOvertaken,
              BuildCommits, BuildFails, GiveUp, Evaluate, Invalidate, RecordDependencies, Wake
<1>9. QED
  BY <1>7, <1>8 DEF CallStands

-----------------------------------------------------------------------------
(***************************************************************************)
(* The invariant is inductive.                                              *)
(***************************************************************************)
\* Invalidations only add up.
LEMMA OrderedSteps ==
  ASSUME Inv, Next
  PROVE  /\ spent' \in [evaluate : 0..EvaluateLimit, invalidate : 0..InvalidateLimit,
                        record : 0..RecordLimit]
         /\ ordered' \in [Keys -> 0..InvalidateLimit]
         /\ \A k \in Keys : ordered[k] <= ordered'[k] /\ ordered'[k] <= spent'.invalidate
<1> DEFINE Spent == [evaluate : 0..EvaluateLimit, invalidate : 0..InvalidateLimit,
                     record : 0..RecordLimit]
           Good == /\ spent' \in Spent /\ ordered' \in [Keys -> 0..InvalidateLimit]
                   /\ \A k \in Keys : ordered[k] <= ordered'[k] /\ ordered'[k] <= spent'.invalidate
<1>1. /\ spent \in Spent /\ ordered \in [Keys -> 0..InvalidateLimit]
      /\ spent.evaluate \in 0..EvaluateLimit /\ spent.invalidate \in 0..InvalidateLimit
      /\ spent.record \in 0..RecordLimit
  BY DEF Inv, TypeOK
<1>2. \A k \in Keys : ordered[k] \in Nat /\ ordered[k] <= ordered[k] /\ ordered[k] <= spent.invalidate
  <2>1. \A k \in Keys : ordered[k] \in 0..InvalidateLimit
    BY <1>1
  <2>2. QED
    BY <2>1 DEF Inv, Asked
<1>3. ASSUME spent' \in Spent, spent'.invalidate = spent.invalidate, ordered' = ordered PROVE Good
  BY <1>1, <1>2, <1>3
<1>4. ASSUME NEW c \in Callers, Step(c) \/ GiveUp(c) PROVE Good
  <2>1. UNCHANGED <<spent, ordered>>
    BY <1>4 DEF Step, LookupPlaceholder, Hit, Mismatch, Join, StartBuild, BuildOvertaken,
                BuildCommits, BuildFails, GiveUp
  <2>2. QED
    BY <1>1, <1>3, <2>1
<1>5. ASSUME NEW c \in Callers, NEW k \in Queries, NEW deps \in DependencySets[k],
             Evaluate(c, k, deps)
      PROVE  Good
  <2>1. /\ spent' = [spent EXCEPT !.evaluate = @ + 1] /\ spent.evaluate < EvaluateLimit
        /\ ordered' = ordered
    BY <1>5 DEF Evaluate
  <2>2. spent.evaluate + 1 \in 0..EvaluateLimit
    BY <1>1, <2>1, BoundsAssumption
  <2>3. spent' \in Spent /\ spent'.invalidate = spent.invalidate
    BY <1>1, <2>1, <2>2
  <2>4. QED
    BY <1>3, <2>1, <2>3
<1>6. ASSUME NEW k \in Queries, NEW deps \in DependencySets[k], RecordDependencies(k, deps)
      PROVE  Good
  <2>1. /\ spent' = [spent EXCEPT !.record = @ + 1] /\ spent.record < RecordLimit
        /\ ordered' = ordered
    BY <1>6 DEF RecordDependencies
  <2>2. spent.record + 1 \in 0..RecordLimit
    BY <1>1, <2>1, BoundsAssumption
  <2>3. spent' \in Spent /\ spent'.invalidate = spent.invalidate
    BY <1>1, <2>1, <2>2
  <2>4. QED
    BY <1>3, <2>1, <2>3
<1>7. ASSUME NEW roots \in Invalidations, Invalidate(roots) PROVE Good
  <2> DEFINE now == spent.invalidate + 1
  <2>1. /\ spent' = [spent EXCEPT !.invalidate = now] /\ spent.invalidate < InvalidateLimit
        /\ ordered' = [k \in Keys |->
                        IF k \in roots \/ store.deps[k] \cap (roots \ Queries) # {}
                          THEN now ELSE ordered[k]]
    BY <1>7 DEF Invalidate
  <2>2. now \in 0..InvalidateLimit
    BY <1>1, <2>1, BoundsAssumption
  <2>3. \A k \in Keys : ordered[k] <= now
    BY <1>1, <1>2
  <2>4. spent' \in Spent /\ spent'.invalidate = now
    <3> HIDE DEF now
    <3>1. QED
      BY <1>1, <2>1, <2>2
  <2>5. ordered' \in [Keys -> 0..InvalidateLimit]
    <3> HIDE DEF now
    <3>1. QED
      BY <1>1, <2>1, <2>2
  <2>6. now <= now
    BY <2>2
  <2> HIDE DEF now
  <2>7. \A k \in Keys : ordered'[k] \in {now, ordered[k]}
    BY <2>1
  <2>8. QED
    BY <1>2, <2>3, <2>4, <2>5, <2>6, <2>7
<1>8. QED
  BY <1>4, <1>5, <1>6, <1>7 DEF Next

\* What was recorded for a result stays on record.
LEMMA RecordedSteps ==
  ASSUME Inv, Next
  PROVE  recorded \subseteq recorded' /\ recorded' \subseteq Keys \X Result \X SUBSET Keys
<1>1. recorded \subseteq Keys \X Result \X SUBSET Keys
  BY DEF Inv, TypeOK
<1>2. CASE UNCHANGED recorded
  BY <1>1, <1>2
<1>3. ASSUME NEW k \in Queries, NEW deps \in DependencySets[k], RecordDependencies(k, deps)
      PROVE  recorded \subseteq recorded' /\ recorded' \subseteq Keys \X Result \X SUBSET Keys
  <2>1. recorded' \in {recorded, recorded \cup {<<k, store.result[k], deps>>}}
    BY <1>3 DEF RecordDependencies
  <2>2. k \in Keys /\ store.result[k] \in Result /\ deps \in SUBSET Keys
    BY TypeFacts, StoreFields, DependencySetsAssumption DEF Inv, Queries
  <2>3. QED
    BY <1>1, <2>1, <2>2
<1>4. QED
  BY <1>2, <1>3 DEF Next, Step, LookupPlaceholder, Hit, Mismatch, Join, StartBuild, BuildOvertaken,
                    BuildCommits, BuildFails, GiveUp, Evaluate, Invalidate

LEMMA TypeSteps ==
  ASSUME Inv, Next PROVE TypeOK'
<1>1. store' \in StoreType /\ caller' \in [Callers -> CallerType]
  BY StoreSteps, CallSteps DEF StoreStands
<1>2. maxEntries' = maxEntries
  BY DEF Next, Step, LookupPlaceholder, Hit, Mismatch, Join, StartBuild, BuildOvertaken,
         BuildCommits, BuildFails, GiveUp, Evaluate, Invalidate, RecordDependencies
<1>3. /\ spent' \in [evaluate : 0..EvaluateLimit, invalidate : 0..InvalidateLimit,
                     record : 0..RecordLimit]
      /\ ordered' \in [Keys -> 0..InvalidateLimit]
  BY OrderedSteps
<1>4. maxEntries \in EntryLimits /\ recorded' \subseteq Keys \X Result \X SUBSET Keys
  BY RecordedSteps DEF Inv, TypeOK
<1>5. QED
  BY <1>1, <1>2, <1>3, <1>4 DEF TypeOK, StoreType, CallerType, Kinds

LEMMA ValueSteps ==
  ASSUME Inv, Next PROVE Edged' /\ Reddened'
<1>1. ASSUME NEW k \in Keys, store'.kind[k] = Value
      PROVE  /\ EdgesOwn(k)'
             /\ \/ store'.result[k].birth >= ordered'[k]
                \/ store'.stale[k] \cap Producers(k) # {}
  <2>1. ValueStands(k)
    BY StoreSteps DEF StoreStands
  <2>2. CASE /\ store.kind[k] = Value
             /\ store'.result[k] = store.result[k]
             /\ store'.deps[k] = store.deps[k] \/ EdgesOwn(k)'
             /\ store.stale[k] \cap Producers(k) \subseteq store'.stale[k]
             /\ ordered'[k] = ordered[k] \/ store'.stale[k] \cap Producers(k) # {}
    <3>1. /\ EdgesOwn(k)
          /\ store.result[k].birth >= ordered[k] \/ store.stale[k] \cap Producers(k) # {}
      BY <2>2 DEF Inv, Edged, Reddened
    <3>2. store.stale[k] \cap Producers(k) # {} => store'.stale[k] \cap Producers(k) # {}
      BY <2>2
    <3>3. EdgesOwn(k)'
      BY <2>2, <3>1, RecordedSteps DEF EdgesOwn
    <3>4. QED
      BY <2>2, <3>1, <3>2, <3>3
  <2>3. CASE /\ store'.result[k].deps = store'.deps[k]
             /\ store'.result[k].birth >= ordered'[k]
    BY <2>3 DEF EdgesOwn
  <2>4. QED
    BY <1>1, <2>1, <2>2, <2>3 DEF ValueStands
<1>2. Edged'
  BY <1>1 DEF Edged, EdgesOwn
<1>3. Reddened'
  BY <1>1 DEF Reddened, Producers
<1>4. QED
  BY <1>2, <1>3

\* The pending entries and the calls that build do not change.
LEMMA SharedKept ==
  ASSUME Inv, store'.pending = store.pending,
         \A c \in Callers :
           /\ caller[c].at = "building" <=> caller'[c].at = "building"
           /\ caller[c].at = "building" => caller'[c].key = caller[c].key
           /\ caller'[c].at = "waiting" => caller'[c].key \in store.pending
  PROVE  Shared'
BY DEF Inv, Shared, Building

\* The build of a call ends with its pending entry, and its waiters look again.
LEMMA SharedEnds ==
  ASSUME Inv, NEW c \in Callers, caller[c].at = "building",
         store'.pending = store.pending \ {caller[c].key},
         NEW r, caller' = [Wake(caller[c].key) EXCEPT ![c] = r], r.at \in {"idle", "lookup"}
  PROVE  Shared'
<1> DEFINE k == caller[c].key
           w == Wake(k)
<1>1. caller \in [Callers -> CallerType] /\ k \in Keys
  BY TypeFacts DEF Inv
<1>2. caller' = [w EXCEPT ![c] = r] /\ w = [d \in Callers |-> w[d]]
  BY DEF Wake
<1>3. \A d \in Callers :
        /\ w[d].at = (IF caller[d].at = "waiting" /\ caller[d].key = k THEN "lookup"
                                                                   ELSE caller[d].at)
        /\ w[d].key = caller[d].key
  <2> HIDE DEF k
  <2>1. QED
    BY <1>1, WakeFacts
<1> HIDE DEF w
<1>4. caller'[c].at \in {"idle", "lookup"} /\ \A d \in Callers \ {c} : caller'[d] = w[d]
  BY <1>2
<1>5. \A d \in Callers :
        caller'[d].at \in {"waiting", "building"} =>
          /\ d # c /\ caller'[d].at = caller[d].at /\ caller'[d].key = caller[d].key
          /\ ~(caller[d].at = "waiting" /\ caller[d].key = k)
  BY <1>3, <1>4
<1>6. \A d \in Callers \ {c} : caller[d].at = "building" =>
        caller'[d].at = "building" /\ caller'[d].key = caller[d].key
  BY <1>3, <1>4
<1>7. \A d \in Callers : Building(d, k) => d = c
  BY <1>1 DEF Inv, Shared, Building
<1>8. ASSUME NEW j \in store'.pending PROVE \E d \in Callers : Building(d, j)'
  <2>1. PICK d \in Callers : Building(d, j)
    BY DEF Inv, Shared
  <2>2. d # c
    BY <2>1 DEF Building
  <2>3. QED
    BY <1>6, <2>1, <2>2 DEF Building
<1>9. ASSUME NEW a \in Callers, NEW b \in Callers, NEW j \in Keys, Building(a, j)', Building(b, j)'
      PROVE  a = b
  BY <1>5, <1>9 DEF Inv, Shared, Building
<1>10. ASSUME NEW d \in Callers, caller'[d].at \in {"waiting", "building"}
       PROVE  caller'[d].key \in store'.pending
  <2>1. /\ d # c /\ caller'[d].at = caller[d].at /\ caller'[d].key = caller[d].key
        /\ ~(caller[d].at = "waiting" /\ caller[d].key = k)
    BY <1>5, <1>10
  <2>2. caller[d].key \in store.pending
    BY <1>10, <2>1 DEF Inv, Shared
  <2>3. caller[d].key # k
    BY <1>7, <1>10, <2>1 DEF Building
  <2>4. QED
    BY <2>1, <2>2, <2>3
<1>11. QED
  BY <1>8, <1>9, <1>10 DEF Shared

LEMMA SharedSteps ==
  ASSUME Inv, Next PROVE Shared'
<1>1. store \in StoreType /\ caller \in [Callers -> CallerType]
  BY TypeFacts DEF Inv
<1>2. \A c \in Callers : caller[c].at = "waiting" => caller[c].key \in store.pending
  BY DEF Inv, Shared
<1>3. ASSUME UNCHANGED caller, store'.pending = store.pending PROVE Shared'
  BY <1>2, <1>3, SharedKept
<1>4. ASSUME NEW roots \in SUBSET Keys, store' = InvalidateIDs(store, roots)
      PROVE  store'.pending = store.pending
  BY <1>1, <1>4, InvalidateIDsFacts
<1>5. ASSUME NEW c \in Callers, NEW r, caller' = [caller EXCEPT ![c] = r],
             caller[c].at # "building", r.at # "building",
             r.at = "waiting" => r.key \in store.pending,
             store'.pending = store.pending
      PROVE  Shared'
  <2>1. caller'[c] = r /\ \A d \in Callers \ {c} : caller'[d] = caller[d]
    BY <1>1, <1>5
  <2>2. \A d \in Callers :
          /\ caller[d].at = "building" <=> caller'[d].at = "building"
          /\ caller[d].at = "building" => caller'[d].key = caller[d].key
          /\ caller'[d].at = "waiting" => caller'[d].key \in store.pending
    BY <1>2, <1>5, <2>1
  <2>3. QED
    BY <1>5, <2>2, SharedKept
<1>6. ASSUME NEW c \in Callers, NEW returned, NEW result
      PROVE  Return(c, returned, result).at = "idle"
  BY <1>1 DEF Return, CallerType
<1>7. ASSUME NEW c \in Callers, Step(c) \/ GiveUp(c) PROVE Shared'
  <2> DEFINE k == caller[c].key
  <2>a. caller[c] \in CallerType /\ k \in Keys
    BY TypeFacts DEF Inv
  <2>1. CASE LookupPlaceholder(c)
    <3>1. store' = RemoveNode(store, k) /\ UNCHANGED caller
      BY <2>1 DEF LookupPlaceholder
    <3> HIDE DEF k
    <3>2. store'.pending = store.pending
      BY <1>1, <2>a, <3>1, RemoveNodeFacts
    <3>3. QED
      BY <1>3, <3>1, <3>2
  <2>2. CASE Mismatch(c)
    <3> DEFINE roots == {k}
    <3>1. store' = InvalidateIDs(store, roots) /\ roots \in SUBSET Keys /\ UNCHANGED caller
      BY <2>2, <2>a DEF Mismatch
    <3> HIDE DEF roots
    <3>2. QED
      BY <1>3, <1>4, <3>1
  <2>3. CASE Hit(c)
    <3> DEFINE result == store.result[k]
    <3>1. /\ caller' = [caller EXCEPT ![c] = Return(c, Value, result)]
          /\ caller[c].at = "lookup" /\ store' = store
      BY <2>3 DEF Hit
    <3>2. Return(c, Value, result).at = "idle"
      BY <1>6
    <3> HIDE DEF result
    <3>3. QED
      BY <1>5, <3>1, <3>2
  <2>4. CASE GiveUp(c)
    <3>1. /\ caller' = [caller EXCEPT ![c] = Return(c, "error", NoResult)]
          /\ caller[c].at \in {"lookup", "waiting"} /\ store' = store
      BY <2>4 DEF GiveUp
    <3>2. Return(c, "error", NoResult).at = "idle"
      BY <1>6
    <3>3. QED
      BY <1>5, <3>1, <3>2
  <2>5. CASE Join(c)
    <3> DEFINE r == [caller[c] EXCEPT !.at = "waiting"]
    <3>1. /\ caller' = [caller EXCEPT ![c] = r] /\ caller[c].at = "lookup"
          /\ store' = store /\ k \in store.pending
      BY <2>5 DEF Join, Miss
    <3>2. r.at = "waiting" /\ r.key = k
      BY <2>a DEF CallerType
    <3> HIDE DEF r
    <3>3. QED
      BY <1>5, <3>1, <3>2
  <2>6. CASE StartBuild(c)
    <3> DEFINE r == [caller[c] EXCEPT !.at = "building", !.epoch = store.epoch[k],
                       !.red = store.stale[k] # {}, !.birth = spent.invalidate,
                       !.old = IF store.kind[k] = Value THEN store.result[k].out ELSE 2]
    <3>1. /\ caller' = [caller EXCEPT ![c] = r] /\ k \notin store.pending
          /\ store'.pending = store.pending \cup {k}
      BY <1>1, <2>6 DEF StartBuild, StoreType
    <3>2. r.at = "building" /\ r.key = k
      BY <2>a DEF CallerType
    <3> HIDE DEF r, k
    <3>3. caller'[c] = r /\ \A d \in Callers \ {c} : caller'[d] = caller[d]
      BY <1>1, <3>1
    <3>4. \A d \in Callers : caller[d].at = "building" => caller[d].key \in store.pending
      BY DEF Inv, Shared
    <3>5. ASSUME NEW j \in store'.pending PROVE \E d \in Callers : Building(d, j)'
      <4>1. CASE j = k
        BY <3>2, <3>3, <4>1 DEF Building
      <4>2. CASE j # k
        <5>1. PICK d \in Callers : Building(d, j)
          BY <3>1, <4>2 DEF Inv, Shared
        <5>2. CASE d = c
          <6>1. caller[c].at = "building"
            BY <5>1, <5>2 DEF Building
          <6>2. FALSE
            BY <3>1, <3>4, <6>1 DEF k
          <6>3. QED
            BY <6>2
        <5>3. CASE d # c
          BY <3>3, <5>1, <5>3 DEF Building
        <5>4. QED
          BY <5>2, <5>3
      <4>3. QED
        BY <4>1, <4>2
    <3>6. ASSUME NEW a \in Callers, NEW b \in Callers, NEW j \in Keys,
                 Building(a, j)', Building(b, j)'
          PROVE  a = b
      <4>1. \A d \in Callers : Building(d, j)' => IF d = c THEN j = k ELSE Building(d, j)
        BY <3>2, <3>3 DEF Building
      <4>2. \A d \in Callers : Building(d, j) => j # k
        BY <3>1, <3>4 DEF Building
      <4>3. QED
        BY <3>6, <4>1, <4>2 DEF Inv, Shared
    <3>7. ASSUME NEW d \in Callers, caller'[d].at \in {"waiting", "building"}
          PROVE  caller'[d].key \in store'.pending
      BY <3>1, <3>2, <3>3, <3>7 DEF Inv, Shared
    <3>8. QED
      BY <3>5, <3>6, <3>7 DEF Shared
  <2>7. CASE BuildFails(c)
    <3> DEFINE r == Return(c, "error", NoResult)
    <3>1. /\ caller[c].at = "building" /\ caller' = [Wake(k) EXCEPT ![c] = r]
          /\ store' = DropUnused(Unpend(k), {k})
      BY <2>7 DEF BuildFails
    <3>2. store'.pending = store.pending \ {k}
      BY <1>1, <3>1, BuildEnds DEF Inv, Limited, Shared
    <3>3. r.at \in {"idle", "lookup"}
      BY <1>6
    <3> HIDE DEF r
    <3>4. QED
      BY <3>1, <3>2, <3>3, SharedEnds
  <2>8. CASE BuildOvertaken(c)
    <3> DEFINE r == Retry(c)
    <3>1. /\ caller[c].at = "building" /\ caller' = [Wake(k) EXCEPT ![c] = r]
          /\ store' = DropUnused(Unpend(k), {k})
      BY <2>8 DEF BuildOvertaken
    <3>2. store'.pending = store.pending \ {k}
      BY <1>1, <3>1, BuildEnds DEF Inv, Limited, Shared
    <3>3. r.at \in {"idle", "lookup"}
      BY <2>a, RetryFacts
    <3> HIDE DEF r
    <3>4. QED
      BY <3>1, <3>2, <3>3, SharedEnds
  <2>9. CASE \E out \in Outputs : BuildCommits(c, out)
    <3>1. PICK out \in Outputs : BuildCommits(c, out)
      BY <2>9
    <3> DEFINE result == [deps |-> caller[c].deps, out |-> out, birth |-> caller[c].birth]
               r == IF store'.epoch[k] = caller[c].epoch THEN Return(c, Value, result)
                                                         ELSE Retry(c)
    <3>2. caller[c].at = "building" /\ caller' = [Wake(k) EXCEPT ![c] = r]
      BY <3>1 DEF BuildCommits
    <3>3. store'.pending = store.pending \ {k}
      BY <3>1, BuildCommitsStands
    <3>4. r.at \in {"idle", "lookup"}
      <4> HIDE DEF result
      <4>1. QED
        BY <1>6, <2>a, RetryFacts
    <3> HIDE DEF r
    <3>5. QED
      BY <3>2, <3>3, <3>4, SharedEnds
  <2>10. QED
    BY <1>7, <2>1, <2>2, <2>3, <2>4, <2>5, <2>6, <2>7, <2>8, <2>9 DEF Step
<1>8. ASSUME NEW c \in Callers, NEW k \in Queries, NEW deps \in DependencySets[k],
             Evaluate(c, k, deps)
      PROVE  Shared'
  <2> DEFINE r == [caller[c] EXCEPT !.at = "lookup", !.key = k, !.deps = deps,
                     !.returned = "none", !.result = NoResult, !.floor = ordered[k]]
  <2>1. caller' = [caller EXCEPT ![c] = r] /\ caller[c].at = "idle" /\ store' = store
    BY <1>8 DEF Evaluate
  <2>2. r.at = "lookup"
    BY <1>1 DEF CallerType
  <2> HIDE DEF r
  <2>3. QED
    BY <1>5, <2>1, <2>2
<1>9. ASSUME NEW roots \in Invalidations, Invalidate(roots) PROVE Shared'
  <2>1. roots \in SUBSET Keys /\ store' = InvalidateIDs(store, roots) /\ UNCHANGED caller
    BY <1>9, InvalidationsAssumption DEF Invalidate
  <2>2. QED
    BY <1>3, <1>4, <2>1
<1>10. ASSUME NEW k \in Queries, NEW deps \in DependencySets[k], RecordDependencies(k, deps)
       PROVE  Shared'
  <2>1. UNCHANGED caller /\ store'.pending = store.pending
    BY <1>10, RecordDependenciesStands DEF RecordDependencies
  <2>2. QED
    BY <1>3, <2>1
<1>11. QED
  BY <1>7, <1>8, <1>9, <1>10 DEF Next

LEMMA StandingSteps ==
  ASSUME Inv, Next PROVE Standing'
<1>1. SUFFICES ASSUME NEW c \in Callers, caller'[c].at = "building"
               PROVE  LET k == caller'[c].key IN
                      /\ caller'[c].epoch <= store'.epoch[k]
                      /\ caller'[c].epoch = store'.epoch[k] => caller'[c].birth >= ordered'[k]
  BY DEF Standing
<1> DEFINE k == caller[c].key
<1>2. /\ k \in Keys /\ caller[c].epoch \in Nat /\ store.epoch[k] \in Nat
      /\ spent.invalidate \in Nat /\ ordered[k] \in Nat
  <2>1. ordered[k] \in 0..InvalidateLimit /\ spent.invalidate \in 0..InvalidateLimit
    BY TypeFacts DEF Inv
  <2>2. QED
    BY <2>1, TypeFacts, StoreFields DEF Inv
<1>3. store'.epoch[k] \in Nat
  BY <1>2, StoreSteps, StoreFields DEF StoreStands
<1>4. Goes(c) \/ Begins(c)
  BY <1>1, CallSteps DEF CallStands
<1>5. CASE Goes(c)
  <2>1. k \in store.pending \cap store'.pending
    BY <1>1, <1>5, SharedSteps DEF Goes, Inv, Shared
  <2>2. /\ store.epoch[k] <= store'.epoch[k]
        /\ ordered'[k] = ordered[k] \/ store.epoch[k] < store'.epoch[k]
    BY <1>2, <2>1, StoreSteps DEF StoreStands, EpochStands
  <2>3. /\ caller[c].epoch <= store.epoch[k]
        /\ caller[c].epoch = store.epoch[k] => caller[c].birth >= ordered[k]
    BY <1>5 DEF Goes, Inv, Standing
  <2>4. /\ caller[c].epoch <= store'.epoch[k]
        /\ caller[c].epoch = store'.epoch[k] =>
             caller[c].epoch = store.epoch[k] /\ ordered'[k] = ordered[k]
    <3> HIDE DEF k
    <3>1. QED
      BY <1>2, <1>3, <2>2, <2>3
  <2>5. QED
    BY <1>5, <2>3, <2>4 DEF Goes
<1>6. CASE Begins(c)
  <2>1. ordered[k] <= spent.invalidate
    BY <1>2 DEF Inv, Asked
  <2>2. store'.epoch[k] <= store'.epoch[k] /\ spent.invalidate >= ordered[k]
    <3> HIDE DEF k
    <3>1. QED
      BY <1>2, <1>3, <2>1
  <2>3. QED
    BY <1>6, <2>2 DEF Begins
<1>7. QED
  BY <1>4, <1>5, <1>6

LEMMA CallerSteps ==
  ASSUME Inv, Next PROVE Asked' /\ Answered'
<1>1. \A c \in Callers : CallStands(c)
  BY CallSteps
<1>2. /\ \A k \in Keys : ordered[k] <= ordered'[k] /\ ordered'[k] <= spent'.invalidate
      /\ \A k \in Keys : ordered'[k] \in Nat
  <2>1. \A k \in Keys : ordered'[k] \in 0..InvalidateLimit
    BY OrderedSteps
  <2>2. QED
    BY <2>1, OrderedSteps
<1>3. ASSUME NEW c \in Callers, caller'[c].at # "idle"
      PROVE  caller'[c].key \in Queries /\ caller'[c].floor <= ordered'[caller'[c].key]
  <2>1. CASE caller[c].at # "idle" /\ Asks(c)
    <3> DEFINE k == caller[c].key
    <3>1. k \in Queries /\ caller[c].floor <= ordered[k]
      BY <2>1 DEF Inv, Asked
    <3>2. k \in Keys /\ caller[c].floor \in Nat /\ ordered[k] \in Nat
      <4>1. caller[c].floor \in 0..InvalidateLimit /\ ordered[k] \in 0..InvalidateLimit
        BY TypeFacts DEF Inv
      <4>2. QED
        BY <4>1, TypeFacts DEF Inv
    <3>3. ordered[k] <= ordered'[k] /\ ordered'[k] \in Nat
      BY <1>2, <3>2
    <3>4. caller[c].floor <= ordered'[k]
      <4> HIDE DEF k
      <4>1. QED
        BY <3>1, <3>2, <3>3
    <3>5. QED
      BY <2>1, <3>1, <3>4 DEF Asks
  <2>2. CASE caller'[c].key \in Queries /\ caller'[c].floor <= ordered'[caller'[c].key]
    BY <2>2
  <2>3. QED
    BY <1>1, <1>3, <2>1, <2>2 DEF CallStands
<1>4. Asked'
  BY <1>2, <1>3 DEF Asked, Queries
<1>5. ASSUME NEW c \in Callers, caller'[c].returned = Value PROVE Due(c)
  <2>1. CASE caller[c].returned = Value /\ Asks(c) /\ caller'[c].result = caller[c].result
    BY <2>1, RecordedSteps DEF Inv, Answered, AnswerOwn, Asks, Due
  <2>2. QED
    BY <1>1, <1>5, <2>1 DEF CallStands
<1>6. Answered'
  BY <1>5 DEF Answered, AnswerOwn, Due, Value
<1>7. QED
  BY <1>4, <1>6

LEMMA InitInv ==
  ASSUME Init PROVE Inv
<1> DEFINE first == CHOOSE k \in Keys : TRUE
           none == NoResult
           zero == [k \in Keys |-> 0]
<1>1. first \in Keys /\ none \in Result /\ 0 \in 0..InvalidateLimit
  BY KeysAssumption, BoundsAssumption DEF NoResult, Result, Outputs
<1>2. /\ store.kind = [k \in Keys |-> Absent] /\ store.result = [k \in Keys |-> none]
      /\ store.order = <<>> /\ store.pending = {} /\ store.epoch = zero
      /\ store.deps = [k \in Keys |-> {}] /\ store.stale = [k \in Keys |-> {}]
      /\ store.index = {}
      /\ store = [kind |-> [k \in Keys |-> Absent], result |-> [k \in Keys |-> none],
                  order |-> <<>>, pending |-> {}, epoch |-> zero,
                  deps |-> [k \in Keys |-> {}], stale |-> [k \in Keys |-> {}], index |-> {}]
  BY DEF Init
<1>3. store \in StoreType
  <2> HIDE DEF none
  <2>1. QED
    BY <1>1, <1>2 DEF StoreType, Kinds
<1>4. \A c \in Callers :
        caller[c] = [at |-> "idle", key |-> first, deps |-> {}, epoch |-> 0,
                     red |-> FALSE, old |-> 2, birth |-> 0, floor |-> 0, returned |-> "none",
                     result |-> none]
  BY DEF Init
<1>5. caller \in [Callers -> CallerType]
  <2> HIDE DEF first, none
  <2>1. caller = [c \in Callers |-> caller[c]]
    BY DEF Init
  <2> DEFINE r == [at |-> "idle", key |-> first, deps |-> {}, epoch |-> 0,
                   red |-> FALSE, old |-> 2, birth |-> 0, floor |-> 0, returned |-> "none",
                   result |-> none]
  <2>2. r \in CallerType
    BY <1>1 DEF CallerType
  <2>3. \A c \in Callers : caller[c] = r
    BY <1>4
  <2> HIDE DEF r
  <2>4. QED
    BY <2>1, <2>2, <2>3
<1>6. /\ \A c \in Callers : caller[c].at = "idle" /\ caller[c].returned = "none"
      /\ \A k \in Keys : ordered[k] = 0 /\ store.kind[k] = Absent
  BY <1>2, <1>4 DEF Init
<1>7. /\ spent = [evaluate |-> 0, invalidate |-> 0, record |-> 0] /\ ordered = zero
      /\ maxEntries \in EntryLimits /\ maxEntries \in Nat \ {0}
  BY EntryLimitsAssumption DEF Init
<1>8. TypeOK
  <2>1. /\ spent \in [evaluate : 0..EvaluateLimit, invalidate : 0..InvalidateLimit,
                      record : 0..RecordLimit]
        /\ ordered \in [Keys -> 0..InvalidateLimit]
    BY <1>7, BoundsAssumption
  <2>2. recorded = {}
    BY DEF Init
  <2>3. QED
    BY <1>3, <1>5, <1>7, <2>1, <2>2 DEF TypeOK, StoreType, CallerType, Kinds
<1>9. Limited
  <2>1. Entries(store) = {}
    BY <1>6 DEF Entries
  <2>2. Cardinality(Entries(store)) = 0 /\ Len(store.order) = 0
    BY <1>2, <2>1, FS_EmptySet
  <2>3. Tidy(store)
    BY <1>2, <1>6 DEF Tidy, TidyAt, Unused, Parents
  <2>4. QED
    BY <1>7, <2>1, <2>2, <2>3 DEF Limited, Queued
<1>10. Edged /\ Reddened
  BY <1>6 DEF Edged, Reddened, Absent, Value
<1>11. Standing /\ Shared
  BY <1>2, <1>6 DEF Standing, Shared, Building
<1>12. Asked /\ Answered
  BY <1>6, <1>7 DEF Asked, Answered, Value
<1>13. QED
  BY <1>8, <1>9, <1>10, <1>11, <1>12 DEF Inv

\* The inductive invariant holds for every set of callers, whatever they ask for
\* and whatever is invalidated meanwhile.
THEOREM SemanticQueryInvariant ==
  Spec => []Inv
<1>1. Init => Inv
  BY InitInv
<1>2. ASSUME Inv, [Next]_vars PROVE Inv'
  <2>1. CASE Next
    BY <2>1, <1>2, TypeSteps, ValueSteps, StandingSteps, CallerSteps, SharedSteps, StoreSteps
       DEF Inv, StoreStands
  <2>2. CASE UNCHANGED vars
    <3>1. /\ maxEntries' = maxEntries /\ store' = store /\ caller' = caller
          /\ spent' = spent /\ ordered' = ordered /\ recorded' = recorded
      BY <2>2 DEF vars
    <3>2. TypeOK'
      BY <1>2, <3>1 DEF Inv, TypeOK
    <3>3. Edged' /\ Reddened'
      BY <1>2, <3>1 DEF Inv, Edged, EdgesOwn, Reddened, Producers
    <3>4. Standing'
      BY <1>2, <3>1 DEF Inv, Standing
    <3>5. Asked' /\ Answered'
      BY <1>2, <3>1 DEF Inv, Asked, Answered, AnswerOwn
    <3>6. Shared'
      BY <1>2, <3>1 DEF Inv, Shared, Building
    <3>7. Limited'
      BY <1>2, <3>1 DEF Inv, Limited, Queued, Entries
    <3>8. QED
      BY <3>2, <3>3, <3>4, <3>5, <3>6, <3>7 DEF Inv
  <2>3. QED
    BY <1>2, <2>1, <2>2
<1>3. QED
  BY <1>1, <1>2, PTL DEF Spec

-----------------------------------------------------------------------------
(***************************************************************************)
(* What follows from it.                                                    *)
(***************************************************************************)
\* Store, calls and histories keep their types.
THEOREM TypeOKHolds ==
  Spec => []TypeOK
<1>1. Inv => TypeOK
  BY DEF Inv
<1>2. QED
  BY <1>1, SemanticQueryInvariant, PTL

\* query.go:371: nobody gets the result of another revision's dependencies, and
\* nothing that was begun before the last invalidation is green or handed out.
THEOREM AnswersAreRightHolds ==
  Spec => []AnswersAreRight
<1>1. ASSUME Inv PROVE AnswersAreRight
  <2>1. \A k \in Keys : Green(store, k) => store.result[k].birth >= ordered[k]
    BY <1>1 DEF Inv, Reddened, Green
  <2>2. QED
    BY <1>1, <2>1 DEF Inv, Answered, AnswerOwn, AnswersAreRight, ResultIsOwn, OvertakenIsHidden
<1>2. QED
  BY <1>1, SemanticQueryInvariant, PTL

\* query.go:105: the entries, their queue and what is kept about a key are
\* bounded by the limit and by what is built or depended on.
THEOREM MetadataBoundedHolds ==
  Spec => []MetadataBounded
<1>1. ASSUME Inv PROVE MetadataBounded
  <2>1. /\ Tidy(store) /\ Queued(store)
        /\ Cardinality(Entries(store)) <= maxEntries /\ Len(store.order) <= 2 * maxEntries
    BY <1>1 DEF Inv, Limited
  <2>2. store.index \in SUBSET Keys
    BY <1>1, TypeFacts, StoreFields DEF Inv
  <2>3. store.index = {k \in Keys : ~Unused(store, k)}
    BY <2>1, <2>2 DEF Tidy, TidyAt
  <2>4. \A k \in Keys \ store.index : store.epoch[k] = 0 /\ store.stale[k] = {}
    BY <2>1 DEF Tidy, TidyAt
  <2>5. QED
    BY <2>1, <2>3, <2>4 DEF MetadataBounded, Queued
<1>2. QED
  BY <1>1, SemanticQueryInvariant, PTL

\* vba-semantic-query-dag.md:128: one build per key, and whoever waits waits for
\* somebody who builds.
THEOREM BuildsAreSharedHolds ==
  Spec => []BuildsAreShared
<1>1. ASSUME Inv PROVE BuildsAreShared
  <2>1. ASSUME NEW k \in Keys
        PROVE  Cardinality({c \in Callers : caller[c].at = "building" /\ caller[c].key = k})
                 = (IF k \in store.pending THEN 1 ELSE 0)
    <3> DEFINE builders == {c \in Callers : caller[c].at = "building" /\ caller[c].key = k}
    <3>1. CASE k \in store.pending
      <4>1. PICK c \in Callers : Building(c, k)
        BY <1>1, <3>1 DEF Inv, Shared
      <4>2. builders = {c}
        BY <1>1, <4>1 DEF Inv, Shared, Building
      <4>3. Cardinality(builders) = 1
        BY <4>2, FS_Singleton
      <4>4. QED
        BY <3>1, <4>3
    <3>2. CASE k \notin store.pending
      <4>1. builders = {}
        BY <1>1, <3>2 DEF Inv, Shared
      <4>2. Cardinality(builders) = 0
        BY <4>1, FS_EmptySet
      <4>3. QED
        BY <3>2, <4>2
    <3>3. QED
      BY <3>1, <3>2
  <2>2. QED
    BY <1>1, <2>1 DEF BuildsAreShared, Inv, Shared
<1>2. QED
  BY <1>1, SemanticQueryInvariant, PTL
=============================================================================
