---------------------------- MODULE EffectSummary ----------------------------
(***************************************************************************)
(* internal/vba/effects/build.go and provenance.go: what a VBA procedure    *)
(* may do, its own statements and those of every procedure it reaches.      *)
(* Build computes it from the documents; BuildIncremental starts from the   *)
(* summary of an earlier project and recomputes what an edit may reach.     *)
(*                                                                          *)
(* There is one procedure per file, and a procedure is its position in the  *)
(* order of the procedure keys.  Statements are abstracted to the facts     *)
(* they establish: an effect, an error that may leave the procedure, a call *)
(* that cannot be resolved, an error handler that passes the error on.      *)
(***************************************************************************)
EXTENDS Integers, Sequences, FiniteSets, SequencesExt

CONSTANT ProcedureCount
ASSUME ProcedureCountAssumption == ProcedureCount \in Nat \ {0}

Procedures == 1..ProcedureCount
NoProcedure == 0
Fact == {"effect", "mayRaise", "uncertain", "rethrows"}

\* A procedure's statements: the facts that need no other procedure, the
\* procedures called, and the place of the calls, a wrapper whose whole body
\* they are, or an error handler, or neither; and whether its declaration is
\* sure, that is neither recovered from an error nor conditional.
Body == [own : SUBSET {"effect", "mayRaise"}, calls : SUBSET Procedures,
         role : {"plain", "wrapper", "handler"}, sure : BOOLEAN]
Absent == [own |-> {}, calls |-> {}, role |-> "absent", sure |-> FALSE]
Present(docs) == {p \in Procedures : docs[p] # Absent}

\* The least set that is closed under a monotone operator.
Least(Step(_)) ==
  {p \in Procedures : \A S \in SUBSET Procedures : Step(S) \subseteq S => p \in S}

\* The calls that resolve to one procedure of the project, and those of them
\* whose resolution is matched and not incomplete.
Callees(docs) == [p \in Procedures |-> docs[p].calls \cap Present(docs)]
Sure(docs) == {p \in Procedures : docs[p].sure}
Matched(docs) == [p \in Procedures |-> Callees(docs)[p] \cap Sure(docs)]

\* Wrappers that always rethrow: by a statement of their own, or by a call of
\* another such wrapper.
Rethrowers(docs) ==
  LET Step(S) == {p \in Procedures :
                    /\ docs[p].role = "wrapper"
                    /\ "mayRaise" \in docs[p].own \/ Matched(docs)[p] \cap S # {}}
  IN Least(Step)

\* The facts of the procedure's own statements.  A handler that calls a
\* rethrowing wrapper rethrows, so this depends on other procedures' bodies.
Direct(docs, rethrowers) ==
  [p \in Procedures |->
     docs[p].own
       \cup (IF docs[p].calls \subseteq Matched(docs)[p] THEN {} ELSE {"uncertain"})
       \cup (IF docs[p].role = "handler" /\ Matched(docs)[p] \cap rethrowers # {}
               THEN {"rethrows"} ELSE {})]

\* What is known of a procedure during propagation: the facts, and the callee
\* from which it was first learnt that it may raise.
DirectState(direct) == [facts |-> direct, witness |-> NoProcedure]

Merge(caller, callee, callerKey, calleeKey) ==
  [facts   |-> caller.facts \cup callee.facts,
   witness |-> IF /\ "mayRaise" \in callee.facts \ caller.facts
                  /\ caller.witness = NoProcedure /\ callerKey # calleeKey
                 THEN calleeKey ELSE caller.witness]

\* In the order of the keys.
Sorted(S) ==
  CHOOSE q \in [1..Cardinality(S) -> S] : \A i, j \in DOMAIN q : i < j => q[i] < q[j]

\* A ProjectSummary: what the next incremental build may reuse of it.
NoSummary ==
  [procedures |-> {}, direct |-> [p \in Procedures |-> {}],
   states |-> [p \in Procedures |-> DirectState({})],
   callees |-> [p \in Procedures |-> {}], matched |-> [p \in Procedures |-> {}],
   rethrowers |-> {}]

\* A build under way: the summary, whose states are not final, and the worklist.
Build(docs) ==
  LET rethrowers == Rethrowers(docs)
      direct     == Direct(docs, rethrowers)
  IN [summary |-> [procedures |-> Present(docs), direct |-> direct,
                   states |-> [p \in Procedures |-> DirectState(direct[p])],
                   callees |-> Callees(docs), matched |-> Matched(docs),
                   rethrowers |-> rethrowers],
      queue   |-> Sorted(Present(docs))]

\* One turn of the worklist: the state of a procedure goes to its callers, and
\* a caller that has learnt something is queued again.
Propagate(build) ==
  LET states == build.summary.states
      callee == Head(build.queue)
      merged == [p \in Procedures |->
                   IF callee \in build.summary.callees[p]
                     THEN Merge(states[p], states[callee], p, callee) ELSE states[p]]
      learnt == {p \in Procedures : merged[p] # states[p]} \ Range(Tail(build.queue))
  IN [summary |-> [build.summary EXCEPT !.states = merged],
      queue   |-> Tail(build.queue) \o Sorted(learnt)]

\* SummariesAreRight: the rethrowing wrappers of the two projects are not compared.
ChangedFilesOnly(present, calls, matched, rethrowers, previous, files) ==
  {p \in present : \/ p \in files
                   \/ p \in previous.procedures /\ (previous.callees[p] # calls[p] \/ previous.matched[p] # matched[p])}
    \cup (previous.procedures \cap files)

\* Whose direct facts may not be reused: the file changed, a call resolves
\* differently, or the rethrowing wrappers of the project are others.  A
\* procedure whose file was deleted counts for the sake of its callers.
Changed(present, calls, matched, rethrowers, previous, files) ==
  {p \in present : \/ previous.rethrowers # rethrowers
                   \/ p \in files
                   \/ p \in previous.procedures /\ (previous.callees[p] # calls[p] \/ previous.matched[p] # matched[p])}
    \cup (previous.procedures \cap files)

\* The changed procedures and their callers, in the old graph and in the new.
Red(changed, calls) ==
  LET Step(S) == changed \cup {p \in Procedures : calls[p] \cap S # {}} IN Least(Step)

\* A red procedure is reset, so what it calls has to be propagated again.
Seeds(red, calls, previous) == red \cup UNION {calls[p] \cup previous.callees[p] : p \in red}

BuildIncremental(docs, previous, files) ==
  IF previous.procedures = {} THEN Build(docs)
  ELSE
    LET calls      == Callees(docs)
        matched    == Matched(docs)
        rethrowers == Rethrowers(docs)
        changed    == Changed(Present(docs), calls, matched, rethrowers, previous, files)
        reused     == (Present(docs) \cap previous.procedures) \ changed
        red        == Red(changed, [p \in Procedures |-> calls[p] \cup previous.callees[p]])
        current    == Direct(docs, rethrowers)
        direct     == [p \in Procedures |->
                         IF p \in reused THEN previous.direct[p] ELSE current[p]]
        reset      == [p \in Procedures |->
                         IF p \in reused \ red THEN previous.states[p] ELSE DirectState(direct[p])]
    IN [summary |-> [procedures |-> Present(docs), direct |-> direct, states |-> reset,
                     callees |-> calls, matched |-> matched, rethrowers |-> rethrowers],
        queue   |-> Sorted(Seeds(red, calls, previous) \cap Present(docs))]

-----------------------------------------------------------------------------
(***************************************************************************)
(* What a summary promises, said without a worklist.                        *)
(***************************************************************************)
\* A procedure has the direct facts of all procedures it reaches, and no others.
Reachable(calls, p) ==
  LET Step(S) == {p} \cup UNION {calls[q] : q \in S} IN Least(Step)

ReachableFacts(docs) ==
  LET calls  == Callees(docs)
      direct == Direct(docs, Rethrowers(docs))
  IN [p \in Procedures |-> UNION {direct[q] : q \in Reachable(calls, p)}]

\* Witnesses lead, call by call, to a procedure that raises by itself; one
\* that raises by itself needs none.
WitnessesLead(docs, states) ==
  LET Step(S) == {p \in Present(docs) :
                    \/ "mayRaise" \in docs[p].own /\ states[p].witness = NoProcedure
                    \/ states[p].witness \in docs[p].calls \cap S}
  IN {p \in Present(docs) : "mayRaise" \in states[p].facts} \subseteq Least(Step)

=============================================================================
