-------------------------- MODULE SemanticQueryStore --------------------------
(***************************************************************************)
(* internal/analyze/semanticquery/query.go: completed query results shared  *)
(* by the revisions of one process.  A key has at most one build in flight, *)
(* an edge leads from a published result to the keys it was computed from,  *)
(* an invalidation makes results red along those edges, and an epoch keeps  *)
(* a build that was overtaken from being published.                         *)
(*                                                                          *)
(* Every critical section of Store.mu is one step.  `store` holds the maps  *)
(* of the Store; the reverse map is the inverse of `deps` and is not kept   *)
(* twice, and the index stands for procedureEntries and documentEntries.    *)
(* What a build computes is one of two outputs, enough for DeepEqual.       *)
(***************************************************************************)
EXTENDS Integers, Sequences, FiniteSets, SequencesExt

CONSTANTS
  Callers,           \* goroutines that evaluate queries
  Keys,              \* query keys
  DependencySets,    \* per key, the dependency sets callers may pass; none for a pure input
  Invalidations,     \* the sets of keys that are invalidated together
  EntryLimits,       \* values of Options.MaxEntries
  EvaluateLimit,     \* bound: calls of Evaluate
  InvalidateLimit,   \* bound: calls of Invalidate
  RecordLimit        \* bound: calls of RecordDependencies

ASSUME DependencySetsAssumption == DependencySets \in [Keys -> SUBSET SUBSET Keys]
ASSUME KeysAssumption == IsFiniteSet(Keys) /\ Keys # {}
ASSUME InvalidationsAssumption == Invalidations \subseteq SUBSET Keys
ASSUME EntryLimitsAssumption == EntryLimits \subseteq Nat \ {0}
ASSUME BoundsAssumption == EvaluateLimit \in Nat /\ InvalidateLimit \in Nat /\ RecordLimit \in Nat

VARIABLES
  maxEntries,   \* Store.maxEntries
  store,        \* the maps of the Store
  caller,       \* where each call of Evaluate is
  spent,        \* calls of Evaluate, Invalidate and RecordDependencies so far
  ordered,      \* history: the last invalidation that reached each key
  recorded      \* history: a key, its result, and other dependencies recorded for it

vars == <<maxEntries, store, caller, spent, ordered, recorded>>

Outputs == {0, 1}
\* A result: what it was built for, what came out, and after which invalidation.
Result == [deps : SUBSET Keys, out : Outputs, birth : 0..InvalidateLimit]
NoResult == [deps |-> {}, out |-> 0, birth |-> 0]
\* dependencyRecord: an entry without a value.
Absent == "absent"
Placeholder == "placeholder"
Value == "value"

Queries == {k \in Keys : DependencySets[k] # {}}

TypeOK ==
  /\ maxEntries \in EntryLimits
  /\ store \in [kind : [Keys -> {Absent, Placeholder, Value}], result : [Keys -> Result],
                order : Seq(Keys), pending : SUBSET Keys, epoch : [Keys -> Nat],
                deps : [Keys -> SUBSET Keys],
                stale : [Keys -> SUBSET Keys], index : SUBSET Keys]
  /\ caller \in [Callers -> [at : {"idle", "lookup", "waiting", "building"}, key : Keys,
                             deps : SUBSET Keys, epoch : Nat, red : BOOLEAN, old : Outputs \cup {2},
                             birth : 0..InvalidateLimit, floor : 0..InvalidateLimit,
                             returned : {"none", "error", Value}, result : Result]]
  /\ spent \in [evaluate : 0..EvaluateLimit, invalidate : 0..InvalidateLimit, record : 0..RecordLimit]
  /\ ordered \in [Keys -> 0..InvalidateLimit]
  /\ recorded \subseteq Keys \X Result \X SUBSET Keys

Init ==
  /\ maxEntries \in EntryLimits
  /\ store = [kind |-> [k \in Keys |-> Absent], result |-> [k \in Keys |-> NoResult],
              order |-> <<>>, pending |-> {},
              epoch |-> [k \in Keys |-> 0], deps |-> [k \in Keys |-> {}],
              stale |-> [k \in Keys |-> {}], index |-> {}]
  /\ caller = [c \in Callers |->
                [at |-> "idle", key |-> CHOOSE k \in Keys : TRUE, deps |-> {}, epoch |-> 0,
                 red |-> FALSE, old |-> 2, birth |-> 0, floor |-> 0, returned |-> "none",
                 result |-> NoResult]]
  /\ spent = [evaluate |-> 0, invalidate |-> 0, record |-> 0]
  /\ ordered = [k \in Keys |-> 0]
  /\ recorded = {}

-----------------------------------------------------------------------------
(***************************************************************************)
(* The maps.                                                                *)
(***************************************************************************)
Entries(s) == {k \in Keys : s.kind[k] # Absent}
Parents(s, k) == {p \in Keys : k \in s.deps[p]}
Green(s, k) == s.kind[k] = Value /\ s.stale[k] = {}

(***************************************************************************)
(* Faulty variants of the definitions below.  No specification uses them;   *)
(* each stands for a bug the property named with it must catch.             *)
(***************************************************************************)
\* AnswersAreRight: the epoch of a key goes although it is being built.
UnusedWhileBuilding(s, k) == s.kind[k] = Absent /\ Parents(s, k) = {} /\ s.deps[k] = {}

\* MetadataBounded: what only a former edge kept stays.
RecordKeepsFormer(s, k, deps) == [s EXCEPT !.deps[k] = deps, !.index = @ \cup deps \cup {k}]

\* TypeOK: a placeholder is returned as if it were a result.
LookupPlaceholderHits(c) ==
  /\ caller[c].at = "lookup" /\ store.kind[caller[c].key] = Placeholder
  /\ caller' = [caller EXCEPT ![c].at = "idle", ![c].returned = Placeholder]
  /\ UNCHANGED <<maxEntries, store, spent, ordered, recorded>>

\* BuildsAreShared: a build that panics leaves its pending entry.
BuildFailsPending(c) ==
  /\ caller[c].at = "building"
  /\ caller' = [caller EXCEPT ![c].at = "idle", ![c].returned = "error"]
  /\ UNCHANGED <<maxEntries, store, spent, ordered, recorded>>

\* maybeRemoveKeyMetadataLocked, for each key of a set.
Unused(s, k) == s.kind[k] = Absent /\ k \notin s.pending /\ Parents(s, k) = {} /\ s.deps[k] = {}
DropUnused(s, keys) ==
  LET gone == {k \in keys : Unused(s, k)} IN
  [s EXCEPT !.index = @ \ gone,
            !.epoch = [k \in Keys |-> IF k \in gone THEN 0 ELSE @[k]],
            !.stale = [k \in Keys |-> IF k \in gone THEN {} ELSE @[k]]]

\* removeNodeLocked: the entry goes with its edges; the epoch stays while the
\* key is being built or has dependents.
RemoveNode(s, k) ==
  DropUnused([s EXCEPT !.kind[k] = Absent, !.result[k] = NoResult, !.deps[k] = {}, !.stale[k] = {}],
             s.deps[k] \cup {k})

\* recordDependenciesLocked: the old edges go with what only they kept.
Record(s, k, deps) ==
  LET cut == DropUnused([s EXCEPT !.deps[k] = {}], s.deps[k])
  IN [cut EXCEPT !.deps[k] = deps, !.index = @ \cup deps \cup {k}]

\* markStaleReasonLocked, for the reasons an operation gives each key.
Mark(s, reasons) ==
  [s EXCEPT !.stale = [k \in Keys |-> IF s.kind[k] = Absent THEN @[k] ELSE @[k] \cup reasons[k]],
            !.epoch = [k \in Keys |-> @[k] + Cardinality(reasons[k])]]

\* The keys and everything that was published from them, directly or not.
Affected(s, roots) ==
  {k \in Keys : \A reached \in SUBSET Keys :
     roots \subseteq reached /\ (\A j \in reached : Parents(s, j) \subseteq reached) => k \in reached}

\* invalidateIDsLocked: a root is red for itself, a dependent for each producer.
InvalidateIDs(s, roots) ==
  LET affected == Affected(s, roots)
      reasons == [k \in Keys |-> (s.deps[k] \cap affected) \cup ({k} \cap roots)]
  IN DropUnused(Mark(s, reasons), affected)

\* pruneEntriesLocked: first in, first out, one being over the limit at most.
\* The queue keeps removed keys until it is twice the limit; then it keeps each
\* entry once, in its turn.
Oldest(s) == CHOOSE i \in DOMAIN s.order :
               s.kind[s.order[i]] # Absent /\ \A j \in 1..(i - 1) : s.kind[s.order[j]] = Absent
Evict(s) ==
  IF Cardinality(Entries(s)) <= maxEntries THEN s
  ELSE RemoveNode([s EXCEPT !.order = SubSeq(@, Oldest(s) + 1, Len(@))], s.order[Oldest(s)])
Turn(s, k) == CHOOSE i \in DOMAIN s.order :
                s.order[i] = k /\ \A j \in 1..(i - 1) : s.order[j] # k
Compact(s) ==
  LET queued == {k \in ToSet(s.order) : s.kind[k] # Absent} IN
  CHOOSE q \in [1..Cardinality(queued) -> queued] :
    \A i, j \in DOMAIN q : i < j => Turn(s, q[i]) < Turn(s, q[j])
Prune(s) ==
  LET t == Evict(s) IN
  [t EXCEPT !.order = IF Len(@) > 2 * maxEntries THEN Compact(t) ELSE @]

Put(s, k, kind, result) ==
  [s EXCEPT !.kind[k] = kind, !.result[k] = result,
            !.order = IF s.kind[k] = Absent THEN Append(@, k) ELSE @]

\* Publication.  A key that was red tells its dependents what became of it:
\* they lose that reason, and have it again if the output changed.
Published(s, k, result, wasRed, changed) ==
  LET told == IF wasRed THEN Parents(s, k) ELSE {}
      t == Record(Put(s, k, Value, result), k, result.deps)
      cleared == [t EXCEPT !.stale = [p \in Keys |-> IF p \in told THEN @[p] \ {k} ELSE @[p]]]
      marked == IF changed THEN Mark(cleared, [p \in Keys |-> IF p \in told THEN {k} ELSE {}])
                           ELSE cleared
  IN Prune([marked EXCEPT !.stale[k] = {}])

-----------------------------------------------------------------------------
(***************************************************************************)
(* Revision.Evaluate.                                                       *)
(***************************************************************************)
Evaluate(c, k, deps) ==
  /\ caller[c].at = "idle" /\ spent.evaluate < EvaluateLimit
  /\ spent' = [spent EXCEPT !.evaluate = @ + 1]
  /\ caller' = [caller EXCEPT ![c] = [@ EXCEPT !.at = "lookup", !.key = k, !.deps = deps,
                  !.returned = "none", !.result = NoResult, !.floor = ordered[k]]]
  /\ UNCHANGED <<maxEntries, store, ordered, recorded>>

\* The call is over: its place in the model keeps only what it returned.
Return(c, returned, result) ==
  [caller[c] EXCEPT !.at = "idle", !.returned = returned, !.result = result,
                    !.epoch = 0, !.red = FALSE, !.old = 2, !.birth = 0]

\* The next turn of its loop, which keeps nothing of the one before.
Retry(c) ==
  [caller[c] EXCEPT !.at = "lookup", !.epoch = 0, !.red = FALSE, !.old = 2, !.birth = 0]

\* A placeholder makes way, and the lookup starts over.
LookupPlaceholder(c) ==
  LET k == caller[c].key IN
  /\ caller[c].at = "lookup" /\ store.kind[k] = Placeholder
  /\ store' = RemoveNode(store, k)
  /\ UNCHANGED <<maxEntries, caller, spent, ordered, recorded>>

\* dependenciesMatchLocked.
Match(s, k, deps) == s.deps[k] = deps

Hit(c) ==
  LET k == caller[c].key IN
  /\ caller[c].at = "lookup" /\ Green(store, k) /\ Match(store, k, caller[c].deps)
  /\ caller' = [caller EXCEPT ![c] = Return(c, Value, store.result[k])]
  /\ UNCHANGED <<maxEntries, store, spent, ordered, recorded>>

\* The result of other dependencies is made red, and the lookup starts over.
Mismatch(c) ==
  LET k == caller[c].key IN
  /\ caller[c].at = "lookup" /\ Green(store, k) /\ ~Match(store, k, caller[c].deps)
  /\ store' = InvalidateIDs(store, {k})
  /\ UNCHANGED <<maxEntries, caller, spent, ordered, recorded>>

Miss(c) == caller[c].at = "lookup" /\ store.kind[caller[c].key] # Placeholder
                                   /\ ~Green(store, caller[c].key)

Join(c) ==
  /\ Miss(c) /\ caller[c].key \in store.pending
  /\ caller' = [caller EXCEPT ![c].at = "waiting"]
  /\ UNCHANGED <<maxEntries, store, spent, ordered, recorded>>

StartBuild(c) ==
  LET k == caller[c].key IN
  /\ Miss(c) /\ k \notin store.pending
  /\ store' = [store EXCEPT !.pending = @ \cup {k}, !.index = @ \cup {k}]
  /\ caller' = [caller EXCEPT ![c] = [@ EXCEPT !.at = "building", !.epoch = store.epoch[k],
                  !.red = store.stale[k] # {}, !.birth = spent.invalidate,
                  !.old = IF store.kind[k] = Value THEN store.result[k].out ELSE 2]]
  /\ UNCHANGED <<maxEntries, spent, ordered, recorded>>

\* close(pending.done): the waiters look again.
Wake(k) ==
  [c \in Callers |-> IF caller[c].at = "waiting" /\ caller[c].key = k
                       THEN [caller[c] EXCEPT !.at = "lookup"] ELSE caller[c]]

Unpend(k) == [store EXCEPT !.pending = @ \ {k}]

\* The build returns an error, panics, or ends after its context.
BuildFails(c) ==
  LET k == caller[c].key IN
  /\ caller[c].at = "building"
  /\ store' = DropUnused(Unpend(k), {k})
  /\ caller' = [Wake(k) EXCEPT ![c] = Return(c, "error", NoResult)]
  /\ UNCHANGED <<maxEntries, spent, ordered, recorded>>

\* The epoch has moved since the build began.
Overtaken(c) == store.epoch[caller[c].key] # caller[c].epoch

\* It was invalidated meanwhile: nothing is exposed, and the caller tries again.
BuildOvertaken(c) ==
  LET k == caller[c].key IN
  /\ caller[c].at = "building" /\ Overtaken(c)
  /\ store' = DropUnused(Unpend(k), {k})
  /\ caller' = [Wake(k) EXCEPT ![c] = Retry(c)]
  /\ UNCHANGED <<maxEntries, spent, ordered, recorded>>

\* The epoch is read once more after the pruning.  It is another one if the new
\* entry was itself the oldest and its metadata went with it: the caller tries again.
BuildCommits(c, out) ==
  LET k == caller[c].key
      result == [deps |-> caller[c].deps, out |-> out, birth |-> caller[c].birth]
      t == Published(Unpend(k), k, result, caller[c].red, caller[c].old # out)
  IN
  /\ caller[c].at = "building" /\ ~Overtaken(c)
  /\ store' = t
  /\ caller' = [Wake(k) EXCEPT ![c] = IF t.epoch[k] = caller[c].epoch
                                        THEN Return(c, Value, result) ELSE Retry(c)]
  /\ UNCHANGED <<maxEntries, spent, ordered, recorded>>

\* The context of the call ends at the head of the loop or while it waits.
GiveUp(c) ==
  /\ caller[c].at \in {"lookup", "waiting"}
  /\ caller' = [caller EXCEPT ![c] = Return(c, "error", NoResult)]
  /\ UNCHANGED <<maxEntries, store, spent, ordered, recorded>>

-----------------------------------------------------------------------------
\* Invalidate, for keys, or InvalidateProcedures, for the indexed keys of documents.
Invalidate(roots) ==
  /\ spent.invalidate < InvalidateLimit
  /\ spent' = [spent EXCEPT !.invalidate = @ + 1]
  /\ store' = InvalidateIDs(store, roots)
  /\ ordered' = [k \in Keys |->
                  IF k \in roots \/ store.deps[k] \cap (roots \ Queries) # {}
                    THEN spent.invalidate + 1 ELSE ordered[k]]
  /\ UNCHANGED <<maxEntries, caller, recorded>>

\* RecordDependencies: edges from outside, for a key with or without a value
\* here.  A value stays as it is, green or red, under its new edges.
RecordDependencies(k, deps) ==
  /\ spent.record < RecordLimit
  /\ spent' = [spent EXCEPT !.record = @ + 1]
  /\ store' = Prune(Record(IF store.kind[k] = Absent THEN Put(store, k, Placeholder, NoResult)
                                                     ELSE store, k, deps))
  /\ recorded' = IF store.kind[k] = Value /\ deps # store.result[k].deps
                   THEN recorded \cup {<<k, store.result[k], deps>>} ELSE recorded
  /\ UNCHANGED <<maxEntries, caller, ordered>>

Step(c) ==
  \/ LookupPlaceholder(c) \/ Hit(c) \/ Mismatch(c) \/ Join(c) \/ StartBuild(c)
  \/ BuildOvertaken(c) \/ (\E out \in Outputs : BuildCommits(c, out)) \/ BuildFails(c)

Next ==
  \/ \E c \in Callers : Step(c) \/ GiveUp(c)
  \/ \E c \in Callers, k \in Queries : \E deps \in DependencySets[k] : Evaluate(c, k, deps)
  \/ \E roots \in Invalidations : Invalidate(roots)
  \/ \E k \in Queries : \E deps \in DependencySets[k] : RecordDependencies(k, deps)

Spec == Init /\ [][Next]_vars

-----------------------------------------------------------------------------
(***************************************************************************)
(* Properties.                                                              *)
(***************************************************************************)
\* vba-semantic-query-dag.md:100: a completed value is inherited only if every
\* recorded dependency matches: a result, from the store or from a shared build,
\* was computed for the dependencies of the caller, or RecordDependencies was
\* told that they are the dependencies of this very result.
ResultIsOwn ==
  \A c \in Callers : caller[c].returned = Value =>
    \/ caller[c].result.deps = caller[c].deps
    \/ <<caller[c].key, caller[c].result, caller[c].deps>> \in recorded

\* query.go:371: a build that was overtaken is not exposed.  Neither a green
\* entry nor what a caller got was begun before the last invalidation of its
\* key, or of a pure input among its edges, that the caller could know of.
OvertakenIsHidden ==
  /\ \A k \in Keys : Green(store, k) => store.result[k].birth >= ordered[k]
  /\ \A c \in Callers : caller[c].returned = Value => caller[c].result.birth >= caller[c].floor

\* Whatever happens to a key meanwhile, nobody gets another revision's result
\* but one that was declared to be his own from outside.
AnswersAreRight == ResultIsOwn /\ OvertakenIsHidden

\* query.go:105: metadata is bounded.  What is kept about a key is kept because of
\* an entry, a build or an edge, everything invalidation may have to find is
\* indexed, and every entry can be evicted.
MetadataBounded ==
  /\ Cardinality(Entries(store)) <= maxEntries /\ Len(store.order) <= 2 * maxEntries
  /\ Entries(store) \subseteq ToSet(store.order)
  /\ store.index = {k \in Keys : ~Unused(store, k)}
  /\ \A k \in Keys \ store.index : store.epoch[k] = 0 /\ store.stale[k] = {}

\* vba-semantic-query-dag.md:128: one build per key, and the others share it.  A
\* caller waits only while somebody builds what it wants, whoever fails, panics,
\* is overtaken or evicted: nobody waits for a channel that is never closed.
BuildsAreShared ==
  /\ \A k \in Keys :
       Cardinality({c \in Callers : caller[c].at = "building" /\ caller[c].key = k})
         = (IF k \in store.pending THEN 1 ELSE 0)
  /\ \A c \in Callers : caller[c].at = "waiting" => caller[c].key \in store.pending
=============================================================================
