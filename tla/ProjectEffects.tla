---------------------------- MODULE ProjectEffects ----------------------------
(***************************************************************************)
(* internal/lspserver/server.go, projectEffectSummaryWithResolutionKey: the *)
(* effect summary of the project, asked for by concurrent requests.  A      *)
(* cache keeps summaries by content; the last completed one is also kept as *)
(* the start of the next incremental build; one request builds at a time,   *)
(* and one that is canceled stores nothing.                                 *)
(*                                                                          *)
(* The key of a summary is the content it was built from, so a key is the   *)
(* set of documents itself; the resolution key is the declarations among    *)
(* them.  A critical section of projectEffectsState.mu or of the cache is a *)
(* step.  A request may find its context canceled wherever it asks.         *)
(***************************************************************************)
EXTENDS EffectSummary

CONSTANTS
  Requests,      \* calls, one goroutine each
  Projects,      \* the contents the project may have
  CacheLimit,    \* projectEffectsCacheMaxEntries
  EditLimit      \* bound: edits of one file

ASSUME ProjectsAssumption == Projects \subseteq [Procedures -> Body \cup {Absent}]
ASSUME BoundsAssumption == CacheLimit \in Nat \ {0} /\ EditLimit \in Nat

VARIABLES
  docs,      \* what the editors have
  edits,     \* edits so far
  state,     \* projectEffectsState
  cache,     \* projectEffectsCache: values, in the order of publication
  at,        \* where each request is
  snapshot,  \* the content it asks for
  summary,   \* the summary it builds, and then returns
  queue,     \* the worklist of its build
  awaits     \* the request whose build it waits for

shared  == <<docs, edits, state, cache>>
work    == <<summary, queue>>
request == <<at, snapshot, summary, queue, awaits>>
vars    == <<docs, edits, state, cache, at, snapshot, summary, queue, awaits>>

Nobody == "nobody"
Nothing == [p \in Procedures |-> Absent]
SummaryType ==
  [procedures : SUBSET Procedures, direct : [Procedures -> SUBSET Fact],
   states : [Procedures -> [facts : SUBSET Fact, witness : Procedures \cup {NoProcedure}]],
   callees : [Procedures -> SUBSET Procedures], matched : [Procedures -> SUBSET Procedures],
   rethrowers : SUBSET Procedures]

TypeOK ==
  /\ docs \in Projects /\ edits \in 0..EditLimit
  /\ state.valid \in BOOLEAN /\ state.docs \in Projects \cup {Nothing}
  /\ state.summary \in SummaryType /\ state.builder \in Requests \cup {Nobody}
  /\ Len(cache) <= CacheLimit
  /\ \A i \in DOMAIN cache : cache[i].docs \in Projects /\ cache[i].summary \in SummaryType
  /\ at \in [Requests -> {"idle", "lookup", "ask", "wait", "build", "publish", "end"}]
  /\ snapshot \in [Requests -> Projects \cup {Nothing}]
  /\ summary \in [Requests -> SummaryType] /\ queue \in [Requests -> Seq(Procedures)]
  /\ awaits \in [Requests -> Requests \cup {Nobody}]

Init ==
  /\ docs \in Projects /\ edits = 0
  /\ state = [valid |-> FALSE, docs |-> Nothing, summary |-> NoSummary, builder |-> Nobody]
  /\ cache = <<>>
  /\ at = [r \in Requests |-> "idle"] /\ snapshot = [r \in Requests |-> Nothing]
  /\ summary = [r \in Requests |-> NoSummary] /\ queue = [r \in Requests |-> <<>>]
  /\ awaits = [r \in Requests |-> Nobody]

Goto(r, from, to) == at[r] = from /\ at' = [at EXCEPT ![r] = to]
Return(r, from, value) ==
  /\ Goto(r, from, "end") /\ summary' = [summary EXCEPT ![r] = value]
  /\ awaits' = [awaits EXCEPT ![r] = Nobody]
  /\ UNCHANGED <<snapshot, queue>>

\* A file is changed, added or deleted.
Edit ==
  /\ edits < EditLimit /\ edits' = edits + 1
  /\ docs' \in {d \in Projects : Cardinality({p \in Procedures : d[p] # docs[p]}) = 1}
  /\ UNCHANGED <<state, cache, request>>

\* A request has captured the project.
Call(r) ==
  /\ Goto(r, "idle", "lookup") /\ snapshot' = [snapshot EXCEPT ![r] = docs]
  /\ UNCHANGED <<shared, work, awaits>>

\* dependencyCache.get.
Cached(r) == {i \in DOMAIN cache : cache[i].docs = snapshot[r]}
Hit(r)  == (\E i \in Cached(r) : Return(r, "lookup", cache[i].summary)) /\ UNCHANGED shared
Miss(r) == Cached(r) = {} /\ Goto(r, "lookup", "ask") /\ UNCHANGED <<shared, snapshot, work, awaits>>

\* The state has the summary already.
InState(r) == state.valid /\ state.docs = snapshot[r]
Reuse(r) == InState(r) /\ Return(r, "ask", state.summary) /\ UNCHANGED shared

Await(r) ==
  /\ ~InState(r) /\ state.builder # Nobody /\ Goto(r, "ask", "wait")
  /\ awaits' = [awaits EXCEPT ![r] = state.builder]
  /\ UNCHANGED <<shared, snapshot, work>>

\* The builder has closed the channel: ask again.
Wake(r) ==
  /\ Goto(r, "wait", "ask") /\ at[awaits[r]] \in {"publish", "end"}
  /\ awaits' = [awaits EXCEPT ![r] = Nobody]
  /\ UNCHANGED <<shared, snapshot, work>>

\* The files that differ from those of the previous summary; all present ones
\* as well when the declarations differ, or when no file does.
ChangedFiles(previous, new, valid) ==
  LET differing == {p \in Procedures : previous[p] # new[p]}
  IN IF ~valid THEN Present(new)
     ELSE IF Present(previous) # Present(new) \/ Sure(previous) # Sure(new) \/ differing = {}
            THEN differing \cup Present(new)
            ELSE differing

Work(r, build) ==
  /\ summary' = [summary EXCEPT ![r] = build.summary]
  /\ queue' = [queue EXCEPT ![r] = build.queue]

\* The request becomes the builder.
Claim(r) == ~InState(r) /\ state.builder = Nobody /\ Goto(r, "ask", "build")

Begin(r) ==
  /\ Claim(r)
  /\ UNCHANGED <<docs, edits, cache, snapshot, awaits>>
  /\ state' = [state EXCEPT !.builder = r]
  /\ \E build \in {BuildIncremental(snapshot[r], state.summary,
                                    ChangedFiles(state.docs, snapshot[r], state.valid))} :
       Work(r, build)

Evaluate(r) ==
  /\ at[r] = "build" /\ queue[r] # <<>>
  /\ UNCHANGED <<shared, at, snapshot, awaits>>
  /\ \E build \in {Propagate([summary |-> summary[r], queue |-> queue[r]])} : Work(r, build)

Finish(r) ==
  /\ queue[r] = <<>> /\ Goto(r, "build", "publish")
  /\ state' = [valid |-> TRUE, docs |-> snapshot[r], summary |-> summary[r], builder |-> Nobody]
  /\ UNCHANGED <<docs, edits, cache, snapshot, work, awaits>>

\* RequestsEnd: a canceled build leaves the state marked as building.
DiscardBuilding(r) == queue[r] = <<>> /\ Return(r, "build", NoSummary) /\ UNCHANGED shared

\* The context was canceled during the build: nothing of it is kept.  A panic
\* in the build would come to neither Finish nor Discard and leave the mark and
\* the channel as they are; it is not modelled.
Discard(r) ==
  /\ queue[r] = <<>> /\ Return(r, "build", NoSummary)
  /\ state' = [state EXCEPT !.builder = Nobody]
  /\ UNCHANGED <<docs, edits, cache>>

\* TypeOK: the limit of the cache is off by one.
PublishedOverLimit(r) ==
  IF Cached(r) # {} THEN cache
  ELSE LET grown == Append(cache, [docs |-> snapshot[r], summary |-> summary[r]])
       IN IF Len(grown) > CacheLimit + 1 THEN Tail(grown) ELSE grown

\* dependencyCache.publish: the first value of a key stays, the oldest entry goes.
Published(r) ==
  IF Cached(r) # {} THEN cache
  ELSE LET grown == Append(cache, [docs |-> snapshot[r], summary |-> summary[r]])
       IN IF Len(grown) > CacheLimit THEN Tail(grown) ELSE grown

Publish(r) ==
  /\ Return(r, "publish", summary[r]) /\ cache' = Published(r)
  /\ UNCHANGED <<docs, edits, state>>

\* The context was canceled, before asking or while waiting.
GiveUp(r) ==
  (Return(r, "ask", NoSummary) \/ Return(r, "wait", NoSummary)) /\ UNCHANGED shared

Next ==
  \/ Edit
  \/ \E r \in Requests :
       \/ Call(r) \/ Hit(r) \/ Miss(r) \/ Reuse(r) \/ Await(r) \/ Wake(r) \/ GiveUp(r)
       \/ Begin(r) \/ Evaluate(r) \/ Finish(r) \/ Discard(r) \/ Publish(r)

Spec == Init /\ [][Next]_vars

\* The goroutine of a request does not stop on its own.  A claim is a Begin.
Run(r) ==
  Hit(r) \/ Miss(r) \/ Reuse(r) \/ Await(r) \/ Wake(r) \/ Claim(r) \/ Finish(r) \/ Publish(r)
FairSpec == Spec /\ \A r \in Requests : WF_at(Run(r)) /\ WF_queue(Evaluate(r))

-----------------------------------------------------------------------------
(***************************************************************************)
(* Properties.                                                              *)
(***************************************************************************)
\* Summaries that a request got, that the next build starts from, and that the
\* cache offers, with the content each is for.
Offered ==
  {cache[i] : i \in DOMAIN cache}
    \cup {[docs |-> state.docs, summary |-> state.summary] : valid \in {state.valid} \cap {TRUE}}
    \cup {[docs |-> snapshot[r], summary |-> summary[r]] :
            r \in {q \in Requests : at[q] = "end" /\ summary[q] # NoSummary}}

\* vba-semantic-query-dag.md:177-179: however builds, edits and cancellations
\* interleave, an incremental summary says of every procedure what a full
\* recomputation says of it, and explains each possible error by a call.
Expected == [content \in Projects |-> ReachableFacts(content)]

SummariesAreRight ==
  \A offer \in Offered :
    LET states == offer.summary.states IN
      /\ \A p \in Procedures : states[p].facts = Expected[offer.docs][p]
      /\ WitnessesLead(offer.docs, states)

\* Requests end: nobody waits for a builder that is gone.
RequestsEnd == <>[](\A r \in Requests : at[r] \in {"idle", "end"})

=============================================================================
