------------------------- MODULE ProjectEffectsProofs -------------------------
(***************************************************************************)
(* Proofs about EffectSummary and ProjectEffects, for every number of       *)
(* procedures, every set of projects, every set of requests and any limits. *)
(***************************************************************************)
EXTENDS ProjectEffects, FiniteSetTheorems, FunctionTheorems, SequenceTheorems,
        WellFoundedInduction, TLAPS

-----------------------------------------------------------------------------
(***************************************************************************)
(* The order in which a worklist starts.                                    *)
(***************************************************************************)
LEMMA ProceduresAreNumbers ==
  Procedures \subseteq Nat \ {0} /\ IsFiniteSet(Procedures) /\ NoProcedure \notin Procedures
BY ProcedureCountAssumption, FS_Interval DEF Procedures, NoProcedure

\* A set of numbers that is not empty has a least element.
LEMMA LeastNumber ==
  ASSUME NEW I \in SUBSET Nat, I # {}
  PROVE  \E i \in I : \A j \in I : i <= j
<1>1. PICK i \in I : \A j \in I : ~(<<j, i>> \in OpToRel(<, Nat))
  BY NatLessThanWellFounded, WFMin
<1>2. ASSUME NEW j \in I PROVE ~(j < i)
  BY <1>1 DEF OpToRel
<1>3. ASSUME NEW j \in I PROVE i <= j
  BY <1>2
<1>4. QED
  BY <1>3

\* A finite set of numbers can be listed in their order.
LEMMA Enumerable ==
  ASSUME NEW S \in SUBSET Procedures
  PROVE  \E q \in [1..Cardinality(S) -> S] :
           \A i, j \in 1..Cardinality(S) : i < j => q[i] < q[j]
<1> DEFINE Listed(T) == \E q \in [1..Cardinality(T) -> T] :
                          \A i, j \in 1..Cardinality(T) : i < j => q[i] < q[j]
           Bad == {n \in Nat : \E T \in SUBSET S : Cardinality(T) = n /\ ~Listed(T)}
<1>1. \A T \in SUBSET S : T \in SUBSET Nat /\ IsFiniteSet(T) /\ Cardinality(T) \in Nat
  BY ProceduresAreNumbers, FS_Subset, FS_CardinalityType
<1>2. SUFFICES ASSUME Bad # {} PROVE FALSE
  <2>1. Cardinality(S) \notin Bad
    BY <1>2
  <2>2. Listed(S)
    BY <1>1, <2>1
  <2>3. QED
    BY <2>2
<1>3. PICK n \in Bad : \A m \in Bad : n <= m
  BY <1>2, LeastNumber
<1>4. PICK T \in SUBSET S : Cardinality(T) = n /\ ~Listed(T)
  BY <1>3
<1>5. T # {}
  <2>1. ASSUME T = {} PROVE Listed(T)
    <3>1. Cardinality(T) = 0
      BY <2>1, FS_EmptySet
    <3>2. [i \in 1..0 |-> i] \in [1..Cardinality(T) -> T]
      BY <3>1
    <3>3. \A i, j \in 1..Cardinality(T) : FALSE
      BY <3>1
    <3>4. QED
      BY <3>2, <3>3
  <2>2. QED
    BY <1>4, <2>1
<1>6. PICK m \in T : \A x \in T : m <= x
  BY <1>1, <1>4, <1>5, LeastNumber
<1> DEFINE U == T \ {m}
<1>7. Cardinality(U) = n - 1 /\ n \in Nat \ {0} /\ U \in SUBSET S
  <2>1. IsFiniteSet(T) /\ Cardinality(T) # 0
    BY <1>1, <1>4, <1>5, FS_EmptySet
  <2>2. QED
    BY <1>1, <1>4, <1>6, <2>1, FS_RemoveElement
<1>8. Listed(U)
  <2>1. n - 1 \notin Bad
    BY <1>3, <1>7
  <2>2. n - 1 \in Nat
    BY <1>7
  <2> HIDE DEF Listed, U
  <2>3. QED
    BY <1>7, <2>1, <2>2
<1> HIDE DEF U, Bad
<1>9. PICK p \in [1..(n - 1) -> U] : \A i, j \in 1..(n - 1) : i < j => p[i] < p[j]
  BY <1>7, <1>8
<1> DEFINE q == [i \in 1..n |-> IF i = 1 THEN m ELSE p[i - 1]]
<1>10. q \in [1..n -> T]
  BY <1>6, <1>7, <1>9 DEF U
<1>11. ASSUME NEW i \in 1..n, NEW j \in 1..n, i < j PROVE q[i] < q[j]
  <2>1. j # 1 /\ j - 1 \in 1..(n - 1) /\ q[j] = p[j - 1] /\ p[j - 1] \in U
    BY <1>7, <1>9, <1>11
  <2>2. CASE i = 1
    <3>1. q[i] = m /\ q[j] \in T /\ q[j] # m
      BY <2>1, <2>2 DEF U
    <3>2. m <= q[j] /\ m \in Nat /\ q[j] \in Nat
      BY <1>1, <1>4, <1>6, <3>1
    <3>3. QED
      BY <3>1, <3>2
  <2>3. CASE i # 1
    <3>1. q[i] = p[i - 1] /\ i - 1 \in 1..(n - 1) /\ i - 1 < j - 1
      BY <1>7, <1>11, <2>3
    <3>2. QED
      BY <1>9, <2>1, <3>1
  <2>4. QED
    BY <2>2, <2>3
<1>12. Listed(T)
  <2> HIDE DEF q
  <2>1. QED
    BY <1>4, <1>10, <1>11
<1>13. QED
  BY <1>4, <1>12

\* Sorted lists a set, all of it and nothing else.
LEMMA SortedFacts ==
  ASSUME NEW S \in SUBSET Procedures
  PROVE  Sorted(S) \in Seq(Procedures) /\ Range(Sorted(S)) = S
<1> DEFINE n == Cardinality(S)
           Ordered(q) == \A i, j \in DOMAIN q : i < j => q[i] < q[j]
           q == Sorted(S)
<1>1. IsFiniteSet(S) /\ n \in Nat /\ S \subseteq Nat
  BY ProceduresAreNumbers, FS_Subset, FS_CardinalityType
<1>2. PICK p \in [1..n -> S] : \A i, j \in 1..n : i < j => p[i] < p[j]
  BY Enumerable
<1>3. Ordered(p)
  BY <1>2
<1>4. q = CHOOSE c \in [1..n -> S] : Ordered(c)
  BY DEF Sorted
<1>5. q \in [1..n -> S] /\ Ordered(q)
  <2> HIDE DEF Ordered, q, n
  <2>1. QED
    BY <1>2, <1>3, <1>4
<1> HIDE DEF q
<1>6. \A i, j \in 1..n : q[i] = q[j] => i = j
  <2> SUFFICES ASSUME NEW i \in 1..n, NEW j \in 1..n, q[i] = q[j] PROVE i = j
    OBVIOUS
  <2>1. q[i] \in Nat
    BY <1>1, <1>5
  <2>2. ~(i < j) /\ ~(j < i)
    BY <1>5, <2>1
  <2>3. QED
    BY <1>1, <2>2
<1>7. \A k \in S : \E i \in 1..n : q[i] = k
  <2>1. q \in Injection(1..n, S)
    <3> HIDE DEF n
    <3>1. QED
      BY <1>5, <1>6, Fun_IsInj
  <2>2. IsFiniteSet(1..n) /\ Cardinality(1..n) = n
    BY <1>1, FS_Interval
  <2>3. q \in Surjection(1..n, S)
    <3>1. Cardinality(1..n) = Cardinality(S)
      BY <2>2
    <3> HIDE DEF n
    <3>2. QED
      BY <1>1, <2>1, <2>2, <3>1, FS_Injection
  <2>4. QED
    <3> HIDE DEF n
    <3>1. QED
      BY <2>3 DEF Surjection
<1>8. q \in Seq(Procedures) /\ DOMAIN q = 1..n
  <2>1. q \in [1..n -> Procedures]
    BY <1>5
  <2> HIDE DEF n
  <2>2. QED
    BY <1>1, <2>1
<1>9. Range(q) = S
  BY <1>5, <1>7, <1>8 DEF Range
<1>10. QED
  BY <1>8, <1>9 DEF q

-----------------------------------------------------------------------------
(***************************************************************************)
(* The least sets, and what a project says of a procedure.                  *)
(***************************************************************************)
Contents == [Procedures -> Body \cup {Absent}]

\* What a procedure reaches starts with itself and goes on with what it calls.
LEMMA ReachableSelf ==
  ASSUME NEW calls, NEW p \in Procedures
  PROVE  p \in Reachable(calls, p)
BY DEF Reachable, Least

LEMMA ReachableCallee ==
  ASSUME NEW calls, NEW p \in Procedures, NEW q \in Procedures, q \in calls[p]
  PROVE  Reachable(calls, q) \subseteq Reachable(calls, p)
BY DEF Reachable, Least

\* It is in every set that has the procedure and the callees of its members.
LEMMA ReachableLeast ==
  ASSUME NEW calls, NEW p \in Procedures, NEW S \in SUBSET Procedures, p \in S,
         \A q \in S : calls[q] \subseteq S
  PROVE  Reachable(calls, p) \subseteq S
BY DEF Reachable, Least

\* Where two call graphs agree, and call nothing else, they reach the same.
LEMMA ReachableSame ==
  ASSUME NEW calls, NEW others, NEW U \in SUBSET Procedures, NEW p \in U,
         \A q \in U : calls[q] = others[q] /\ calls[q] \subseteq U
  PROVE  Reachable(calls, p) = Reachable(others, p) /\ Reachable(calls, p) \subseteq U
<1> SUFFICES ASSUME NEW c, NEW d, \A q \in U : c[q] = d[q] /\ c[q] \subseteq U
             PROVE  Reachable(c, p) \subseteq U /\ Reachable(d, p) \subseteq Reachable(c, p)
  OBVIOUS
<1>1. Reachable(c, p) \subseteq U
  BY ReachableLeast
<1>2. \A q \in Reachable(c, p) : c[q] \subseteq Reachable(c, p)
  <2> SUFFICES ASSUME NEW q \in Reachable(c, p), NEW s \in c[q] PROVE s \in Reachable(c, p)
    OBVIOUS
  <2>1. s \in Procedures
    BY <1>1
  <2>2. QED
    BY <2>1 DEF Reachable, Least
<1>3. p \in Reachable(c, p)
  BY ReachableSelf
<1>4. \A q \in Reachable(c, p) : d[q] \subseteq Reachable(c, p)
  BY <1>1, <1>2
<1>5. Reachable(c, p) \in SUBSET Procedures
  BY <1>1
<1> DEFINE S == Reachable(c, p)
<1> HIDE DEF S
<1>6. S \in SUBSET Procedures /\ p \in S /\ \A q \in S : d[q] \subseteq S
  BY <1>3, <1>4, <1>5 DEF S
<1>7. Reachable(d, p) \subseteq S
  BY <1>6, ReachableLeast
<1>8. QED
  BY <1>1, <1>7 DEF S

\* The red procedures are the changed ones and all that call a red one.
LEMMA RedFacts ==
  ASSUME NEW changed \in SUBSET Procedures, NEW calls
  PROVE  /\ Red(changed, calls) \in SUBSET Procedures
         /\ changed \subseteq Red(changed, calls)
         /\ \A p \in Procedures : \A q \in calls[p] :
              q \in Red(changed, calls) => p \in Red(changed, calls)
<1>1. Red(changed, calls) \in SUBSET Procedures /\ changed \subseteq Red(changed, calls)
  BY DEF Red, Least
<1> SUFFICES ASSUME NEW p \in Procedures, NEW q \in calls[p], q \in Red(changed, calls)
             PROVE  p \in Red(changed, calls)
  BY <1>1
<1>2. \A S \in SUBSET Procedures :
        changed \cup {s \in Procedures : calls[s] \cap S # {}} \subseteq S => q \in S
  BY DEF Red, Least
<1>3. ASSUME NEW S \in SUBSET Procedures,
             changed \cup {s \in Procedures : calls[s] \cap S # {}} \subseteq S
      PROVE  p \in S
  BY <1>2, <1>3
<1>4. QED
  BY <1>3 DEF Red, Least

\* A procedure that is not there has no statements and no calls.
LEMMA ContentFields ==
  ASSUME NEW content \in Contents, NEW p \in Procedures
  PROVE  /\ content[p].own \subseteq {"effect", "mayRaise"}
         /\ content[p].calls \subseteq Procedures
         /\ p \notin Present(content) =>
              /\ content[p].own = {} /\ content[p].calls = {} /\ content[p].role = "absent"
              /\ content[p].sure = FALSE
         /\ content[p] = Absent <=> p \notin Present(content)
BY DEF Contents, Body, Absent, Present

LEMMA CalleesFacts ==
  ASSUME NEW content \in Contents
  PROVE  /\ Callees(content) \in [Procedures -> SUBSET Procedures]
         /\ Present(content) \in SUBSET Procedures
         /\ \A p \in Procedures :
              /\ Callees(content)[p] = content[p].calls \cap Present(content)
              /\ p \notin Present(content) => Callees(content)[p] = {}
        /\ Matched(content) \in [Procedures -> SUBSET Procedures]
<1>1. Present(content) \in SUBSET Procedures
  BY DEF Present
<1>2. /\ Callees(content) \in [Procedures -> SUBSET Procedures]
      /\ \A p \in Procedures :
           /\ Callees(content)[p] = content[p].calls \cap Present(content)
           /\ p \notin Present(content) => Callees(content)[p] = {}
  BY <1>1, ContentFields DEF Callees
<1>3. Matched(content) \in [Procedures -> SUBSET Procedures]
  BY <1>2 DEF Matched
<1>4. QED
  BY <1>1, <1>2, <1>3

LEMMA DirectFacts ==
  ASSUME NEW content \in Contents, NEW R
  PROVE  /\ Direct(content, R) \in [Procedures -> SUBSET Fact]
         /\ \A p \in Procedures :
              /\ "mayRaise" \in Direct(content, R)[p] => "mayRaise" \in content[p].own
              /\ content[p].own \subseteq Direct(content, R)[p]
              /\ p \notin Present(content) => Direct(content, R)[p] = {}
BY ContentFields DEF Direct, Fact

LEMMA RethrowersTyped ==
  ASSUME NEW content
  PROVE  Rethrowers(content) \in SUBSET Procedures
BY DEF Rethrowers, Least

-----------------------------------------------------------------------------
(***************************************************************************)
(* A build under way.                                                       *)
(***************************************************************************)
StateType == [facts : SUBSET Fact, witness : Procedures \cup {NoProcedure}]

\* A summary records the project it was built from.
About(content, s) ==
  /\ s.procedures = Present(content)
  /\ s.direct = Direct(content, Rethrowers(content))
  /\ s.callees = Callees(content) /\ s.matched = Matched(content)
  /\ s.rethrowers = Rethrowers(content)

\* What it says of a procedure is not less than the procedure's own statements
\* say and not more than those of all procedures it reaches.
Between(content, states) ==
  \A p \in Procedures :
    /\ Direct(content, Rethrowers(content))[p] \subseteq states[p].facts
    /\ states[p].facts \subseteq ReachableFacts(content)[p]

\* A procedure that is not known to raise has no witness.
Quiet(states) ==
  \A p \in Procedures : "mayRaise" \notin states[p].facts => states[p].witness = NoProcedure

\* A caller knows what its callee knows, or the callee still is to be heard.
Heard(content, states, S) ==
  \A p \in Procedures : \A q \in Callees(content)[p] :
    q \in S \/ states[q].facts \subseteq states[p].facts

\* The summary of a project, but for what the procedures in S have to tell.
Underway(content, s, S) ==
  /\ About(content, s)
  /\ s.states \in [Procedures -> StateType]
  /\ Between(content, s.states)
  /\ Quiet(s.states)
  /\ WitnessesLead(content, s.states)
  /\ Heard(content, s.states, S)

\* The summary of a project.
Complete(content, s) == Underway(content, s, {})

\* A build: what waits in its queue is there.
Building(content, s, q) ==
  /\ s \in SummaryType /\ q \in Seq(Procedures)
  /\ Range(q) \subseteq Present(content)
  /\ Underway(content, s, Range(q))

LEMMA SummaryTyped ==
  ASSUME NEW S \in SUBSET Procedures, NEW d \in [Procedures -> SUBSET Fact],
         NEW st \in [Procedures -> StateType], NEW c \in [Procedures -> SUBSET Procedures],
         NEW m \in [Procedures -> SUBSET Procedures], NEW R \in SUBSET Procedures
  PROVE  [procedures |-> S, direct |-> d, states |-> st, callees |-> c, matched |-> m, rethrowers |-> R]
           \in SummaryType
BY DEF SummaryType, StateType

\* What is known at the start is within what is to be found.
LEMMA DirectIsReachable ==
  ASSUME NEW content \in Contents, NEW p \in Procedures
  PROVE  Direct(content, Rethrowers(content))[p] \subseteq ReachableFacts(content)[p]
BY ReachableSelf DEF ReachableFacts

\* What a callee can reach is within what its caller can reach.
LEMMA CalleeIsReachable ==
  ASSUME NEW content \in Contents, NEW p \in Procedures, NEW q \in Callees(content)[p]
  PROVE  ReachableFacts(content)[q] \subseteq ReachableFacts(content)[p]
<1>1. q \in Procedures
  BY CalleesFacts
<1>2. Reachable(Callees(content), q) \subseteq Reachable(Callees(content), p)
  BY <1>1, ReachableCallee
<1> DEFINE d == Direct(content, Rethrowers(content))
           r(x) == Reachable(Callees(content), x)
<1>3. /\ ReachableFacts(content)[p] = UNION {d[x] : x \in r(p)}
      /\ ReachableFacts(content)[q] = UNION {d[x] : x \in r(q)}
  BY <1>1 DEF ReachableFacts
<1>4. r(q) \subseteq r(p)
  BY <1>2
<1> HIDE DEF d, r
<1>5. QED
  BY <1>3, <1>4

\* A summary with nothing left to tell says of every procedure exactly what the
\* procedures it reaches say of themselves.
LEMMA CompleteIsExact ==
  ASSUME NEW content \in Contents, NEW s, Complete(content, s), NEW p \in Procedures
  PROVE  s.states[p].facts = ReachableFacts(content)[p]
<1> DEFINE d == Direct(content, Rethrowers(content))
           c == Callees(content)
           S == {q \in Procedures : s.states[q].facts \subseteq s.states[p].facts}
<1>1. p \in S /\ S \in SUBSET Procedures
  OBVIOUS
<1>2. ASSUME NEW q \in S, NEW x \in c[q] PROVE x \in S
  <2>1. x \in Procedures
    BY CalleesFacts
  <2>2. s.states[x].facts \subseteq s.states[q].facts
    BY DEF Complete, Underway, Heard
  <2>3. QED
    BY <2>1, <2>2
<1>3. Reachable(c, p) \subseteq S
  <2> HIDE DEF S, c
  <2>1. QED
    BY <1>1, <1>2, ReachableLeast
<1>4. \A q \in Reachable(c, p) : d[q] \subseteq s.states[p].facts
  BY <1>3 DEF Complete, Underway, Between
<1>5. ReachableFacts(content)[p] = UNION {d[q] : q \in Reachable(c, p)}
  BY DEF ReachableFacts
<1>6. s.states[p].facts \subseteq ReachableFacts(content)[p]
  BY DEF Complete, Underway, Between
<1>7. QED
  BY <1>4, <1>5, <1>6

\* A procedure's own statements need no witness.
LEMMA OwnLeads ==
  ASSUME NEW content \in Contents, NEW states \in [Procedures -> StateType],
         \A p \in Present(content) : states[p].witness = NoProcedure,
         \A p \in Procedures : states[p].facts \subseteq Direct(content, Rethrowers(content))[p]
  PROVE  WitnessesLead(content, states)
BY DirectFacts, CalleesFacts DEF WitnessesLead, Least

\* Build starts from every procedure's own statements, with all to be heard.
LEMMA BuildFacts ==
  ASSUME NEW content \in Contents
  PROVE  Building(content, Build(content).summary, Build(content).queue)
<1> DEFINE R == Rethrowers(content)
           d == Direct(content, R)
           st == [p \in Procedures |-> DirectState(d[p])]
           s == Build(content).summary
           q == Build(content).queue
<1>1. R \in SUBSET Procedures /\ d \in [Procedures -> SUBSET Fact]
  BY RethrowersTyped, DirectFacts
<1>2. st \in [Procedures -> StateType]
  BY <1>1 DEF DirectState, StateType
<1>3. \A p \in Procedures : st[p].facts = d[p] /\ st[p].witness = NoProcedure
  BY DEF DirectState
<1>4. /\ s = [procedures |-> Present(content), direct |-> d, states |-> st,
              callees |-> Callees(content), matched |-> Matched(content), rethrowers |-> R]
      /\ q = Sorted(Present(content))
  BY DEF Build
<1>5. q \in Seq(Procedures) /\ Range(q) = Present(content)
  BY <1>4, CalleesFacts, SortedFacts
<1> HIDE DEF s, q, st
<1>6. About(content, s) /\ s.states = st
  BY <1>4 DEF About
<1>7. s \in SummaryType
  <2> HIDE DEF d, R
  <2>1. QED
    BY <1>1, <1>2, <1>4, CalleesFacts, SummaryTyped
<1>8. Between(content, st) /\ Quiet(st)
  BY <1>3, DirectIsReachable DEF Between, Quiet
<1>9. WitnessesLead(content, st)
  BY <1>2, <1>3, CalleesFacts, OwnLeads
<1>10. Heard(content, st, Range(q))
  BY <1>5, CalleesFacts DEF Heard
<1>11. QED
  BY <1>2, <1>5, <1>6, <1>7, <1>8, <1>9, <1>10 DEF Building, Underway, s, q

\* Queues and the procedures in them.
LEMMA QueueFacts ==
  ASSUME NEW q \in Seq(Procedures), q # <<>>, NEW S \in SUBSET Procedures
  PROVE  /\ Head(q) \in Procedures
         /\ Tail(q) \o Sorted(S) \in Seq(Procedures)
         /\ Range(q) = {Head(q)} \cup Range(Tail(q))
         /\ Range(Tail(q) \o Sorted(S)) = Range(Tail(q)) \cup S
<1> DEFINE t == Tail(q)
           o == Sorted(S)
           n == Len(q)
<1>1. /\ n \in Nat \ {0} /\ DOMAIN q = 1..n /\ Head(q) = q[1] /\ q[1] \in Procedures
      /\ t \in Seq(Procedures) /\ Len(t) = n - 1 /\ DOMAIN t = 1..(n - 1)
      /\ \A i \in 1..(n - 1) : t[i] = q[i + 1]
  <2>1. n \in Nat \ {0} /\ DOMAIN q = 1..n
    BY EmptySeq, LenProperties
  <2>2. Head(q) = q[1] /\ q[1] \in Procedures
    BY <2>1
  <2>3. t \in Seq(Procedures) /\ Len(t) = n - 1
    BY HeadTailProperties
  <2>4. DOMAIN t = 1..(n - 1)
    BY <2>3, LenProperties
  <2>5. \A i \in 1..(n - 1) : t[i] = q[i + 1]
    BY <2>1, HeadTailProperties
  <2>6. QED
    BY <2>1, <2>2, <2>3, <2>4, <2>5
<1>2. o \in Seq(Procedures) /\ Range(o) = S
  BY SortedFacts
<1>3. Range(q) = {Head(q)} \cup Range(t)
  <2> HIDE DEF t, n
  <2>1. ASSUME NEW i \in 1..n PROVE q[i] \in {Head(q)} \cup Range(t)
    <3>1. CASE i = 1
      BY <1>1, <3>1
    <3>2. CASE i # 1
      <4>1. i - 1 \in 1..(n - 1) /\ t[i - 1] = q[i]
        BY <1>1, <3>2
      <4>2. QED
        BY <1>1, <4>1 DEF Range
    <3>3. QED
      BY <3>1, <3>2
  <2>2. ASSUME NEW i \in 1..(n - 1) PROVE t[i] \in Range(q)
    <3>1. i + 1 \in 1..n
      BY <1>1
    <3>2. QED
      BY <1>1, <3>1 DEF Range
  <2>3. Head(q) \in Range(q)
    BY <1>1 DEF Range
  <2>4. QED
    BY <1>1, <2>1, <2>2, <2>3 DEF Range
<1>4. Range(t \o o) = Range(t) \cup Range(o)
  <2> HIDE DEF t, o, n
  <2>1. QED
    BY <1>1, <1>2, RangeConcatenation
<1>5. t \o o \in Seq(Procedures)
  <2> HIDE DEF t, o, n
  <2>1. QED
    BY <1>1, <1>2, ConcatProperties
<1>6. QED
  BY <1>1, <1>2, <1>3, <1>4, <1>5

\* One turn of the worklist.
LEMMA PropagateFacts ==
  ASSUME NEW content \in Contents, NEW s, NEW q, Building(content, s, q), q # <<>>
  PROVE  LET b == Propagate([summary |-> s, queue |-> q])
         IN  Building(content, b.summary, b.queue)
<1> DEFINE st == s.states
           c == Head(q)
           C == Callees(content)
           m == [p \in Procedures |->
                   IF c \in s.callees[p] THEN Merge(st[p], st[c], p, c) ELSE st[p]]
           learnt == {p \in Procedures : m[p] # st[p]} \ Range(Tail(q))
           t == [s EXCEPT !.states = m]
           o == Tail(q) \o Sorted(learnt)
<1>1. /\ Propagate([summary |-> s, queue |-> q]).summary = t
      /\ Propagate([summary |-> s, queue |-> q]).queue = o
  BY DEF Propagate
<1>2. /\ s \in SummaryType /\ q \in Seq(Procedures) /\ Range(q) \subseteq Present(content)
      /\ About(content, s) /\ st \in [Procedures -> StateType] /\ Between(content, st)
      /\ Quiet(st) /\ WitnessesLead(content, st) /\ Heard(content, st, Range(q))
  BY DEF Building, Underway
<1>3. s.callees = C
  BY <1>2 DEF About
<1>4. learnt \in SUBSET Procedures
  OBVIOUS
<1>5. /\ c \in Procedures /\ o \in Seq(Procedures) /\ Range(q) = {c} \cup Range(Tail(q))
      /\ Range(o) = Range(Tail(q)) \cup learnt
  <2> HIDE DEF learnt
  <2>1. QED
    BY <1>2, <1>4, QueueFacts
\* A caller learns what its callee knows, and the callee is its witness when it
\* is the first to tell that the caller may raise.
<1>6. \A p \in Procedures :
        /\ m[p] \in StateType
        /\ c \notin C[p] => m[p] = st[p]
        /\ c \in C[p] =>
             /\ m[p].facts = st[p].facts \cup st[c].facts
             /\ m[p].witness \in {st[p].witness, c}
             /\ m[p].witness # st[p].witness => "mayRaise" \in st[c].facts \ st[p].facts
             /\ ("mayRaise" \in st[c].facts \ st[p].facts /\ st[p].witness = NoProcedure /\ p # c)
                  => m[p].witness = c
  <2> SUFFICES ASSUME NEW p \in Procedures
               PROVE  /\ m[p] \in StateType
                      /\ c \notin C[p] => m[p] = st[p]
                      /\ c \in C[p] => /\ m[p] = Merge(st[p], st[c], p, c)
                                       /\ m[p].facts = st[p].facts \cup st[c].facts
                                       /\ m[p].witness \in {st[p].witness, c}
                                       /\ m[p].witness # st[p].witness =>
                                            "mayRaise" \in st[c].facts \ st[p].facts
                                       /\ (/\ "mayRaise" \in st[c].facts \ st[p].facts
                                           /\ st[p].witness = NoProcedure /\ p # c)
                                            => m[p].witness = c
    OBVIOUS
  <2> DEFINE a == st[p]
             b == st[c]
  <2>1. a \in StateType /\ b \in StateType
    BY <1>2, <1>5
  <2>2. m[p] = IF c \in C[p] THEN Merge(a, b, p, c) ELSE a
    BY <1>3
  <2> HIDE DEF a, b, m, c, C
  <2>3. LET t0 == Merge(a, b, p, c) IN
        /\ t0 \in StateType
        /\ t0.facts = a.facts \cup b.facts
        /\ t0.witness \in {a.witness, c}
        /\ t0.witness # a.witness => "mayRaise" \in b.facts \ a.facts
        /\ ("mayRaise" \in b.facts \ a.facts /\ a.witness = NoProcedure /\ p # c) =>
             t0.witness = c
    BY <1>5, <2>1 DEF Merge, StateType
  <2>4. QED
    BY <2>1, <2>2, <2>3 DEF a, b
<1>7. m \in [Procedures -> StateType]
  BY <1>6
<1> HIDE DEF m, o
<1>8. t \in SummaryType /\ t.states = m /\ About(content, t)
  <2>1. /\ t.states = m /\ t.procedures = s.procedures /\ t.direct = s.direct
        /\ t.callees = s.callees /\ t.matched = s.matched /\ t.rethrowers = s.rethrowers
    BY <1>2 DEF SummaryType
  <2>2. t \in SummaryType
    BY <1>2, <1>7 DEF SummaryType, StateType
  <2>3. QED
    BY <1>2, <2>1, <2>2 DEF About
<1> HIDE DEF t
<1>9. \A p \in Procedures : st[p].facts \subseteq m[p].facts
  BY <1>6
<1>10. Between(content, m)
  <2> SUFFICES ASSUME NEW p \in Procedures
               PROVE  m[p].facts \subseteq ReachableFacts(content)[p]
    BY <1>2, <1>9 DEF Between
  <2>1. CASE c \notin C[p]
    BY <1>2, <1>6, <2>1 DEF Between
  <2>2. CASE c \in C[p]
    <3>1. ReachableFacts(content)[c] \subseteq ReachableFacts(content)[p]
      BY <2>2, CalleeIsReachable
    <3>2. /\ st[c].facts \subseteq ReachableFacts(content)[c]
          /\ st[p].facts \subseteq ReachableFacts(content)[p]
      BY <1>2, <1>5 DEF Between
    <3>3. QED
      BY <1>6, <2>2, <3>1, <3>2
  <2>3. QED
    BY <2>1, <2>2
<1>11. Quiet(m)
  BY <1>2, <1>6 DEF Quiet
<1>12. \A p \in learnt : p \in Present(content)
  <2> SUFFICES ASSUME NEW p \in learnt PROVE p \in Present(content)
    OBVIOUS
  <2>1. p \in Procedures /\ c \in C[p]
    BY <1>6
  <2>2. QED
    BY <2>1, CalleesFacts
<1>13. Heard(content, m, Range(o))
  <2> SUFFICES ASSUME NEW p \in Procedures, NEW x \in C[p], x \notin Range(o)
               PROVE  m[x].facts \subseteq m[p].facts
    BY DEF Heard
  <2>1. x \in Procedures /\ m[x] = st[x] /\ x \notin Range(Tail(q))
    BY <1>5, CalleesFacts
  <2>2. CASE x = c
    BY <1>6, <2>1, <2>2
  <2>3. CASE x # c
    <3>1. st[x].facts \subseteq st[p].facts
      BY <1>2, <1>5, <2>1, <2>3 DEF Heard
    <3>2. QED
      BY <1>9, <2>1, <3>1
  <2>4. QED
    BY <2>2, <2>3
<1>14. WitnessesLead(content, m)
  <2> SUFFICES ASSUME NEW S \in SUBSET Procedures,
                      \A p \in Present(content) :
                        \/ "mayRaise" \in content[p].own /\ m[p].witness = NoProcedure
                        \/ m[p].witness \in content[p].calls \cap S
                        => p \in S,
                      NEW p \in Present(content), "mayRaise" \in m[p].facts
               PROVE  p \in S
    BY DEF WitnessesLead, Least, Present
  <2>1. \A x \in Procedures : "mayRaise" \notin st[x].facts =>
          "mayRaise" \notin content[x].own /\ st[x].witness \notin Procedures
    BY <1>2, DirectFacts, ProceduresAreNumbers DEF Between, Quiet
  <2>2. \A x \in Procedures : "mayRaise" \in st[x].facts => m[x].witness = st[x].witness
    BY <1>6
  <2>3. ASSUME NEW x \in Present(content),
               \/ "mayRaise" \in content[x].own /\ st[x].witness = NoProcedure
               \/ st[x].witness \in content[x].calls \cap S
        PROVE  x \in S
    <3>1. x \in Procedures /\ "mayRaise" \in st[x].facts
      BY <2>1, <2>3, CalleesFacts
    <3>2. m[x].witness = st[x].witness
      BY <2>2, <3>1
    <3>3. QED
      BY <2>3, <3>2
  <2>4. \A x \in Present(content) : "mayRaise" \in st[x].facts => x \in S
    <3> DEFINE Step(T) == {x \in Present(content) :
                             \/ "mayRaise" \in content[x].own /\ st[x].witness = NoProcedure
                             \/ st[x].witness \in content[x].calls \cap T}
    <3>1. Step(S) \subseteq S
      BY <2>3
    <3>2. {x \in Present(content) : "mayRaise" \in st[x].facts} \subseteq Least(Step)
      BY <1>2 DEF WitnessesLead
    <3>3. Least(Step) \subseteq S
      BY <3>1 DEF Least
    <3>4. QED
      BY <3>2, <3>3
  <2>5. p \in Procedures
    BY CalleesFacts
  <2>6. CASE "mayRaise" \in st[p].facts
    BY <2>4, <2>6
  <2>7. CASE "mayRaise" \notin st[p].facts
    <3>1. c \in C[p] /\ "mayRaise" \in st[c].facts
      BY <1>6, <2>5, <2>7
    <3>2. c \in Present(content) /\ c \in content[p].calls
      BY <2>5, <3>1, CalleesFacts
    <3>3. st[p].witness = NoProcedure /\ p # c
      BY <1>2, <2>5, <2>7, <3>1 DEF Quiet
    <3>4. m[p].witness = c
      BY <1>6, <2>5, <2>7, <3>1, <3>3
    <3>5. c \in S
      BY <2>4, <3>1, <3>2
    <3>6. QED
      BY <3>2, <3>4, <3>5
  <2>8. QED
    BY <2>6, <2>7
<1>15. Range(o) \subseteq Present(content)
  BY <1>2, <1>5, <1>12
<1>16. QED
  BY <1>1, <1>5, <1>7, <1>8, <1>10, <1>11, <1>13, <1>14, <1>15 DEF Building, Underway

-----------------------------------------------------------------------------
(***************************************************************************)
(* An incremental build.                                                    *)
(***************************************************************************)
\* The direct facts of a procedure that has not changed, in a project whose
\* rethrowing wrappers are the same, are those it had.
LEMMA SameDirect ==
  ASSUME NEW old \in Contents, NEW new \in Contents, NEW R, NEW p \in Procedures,
         old[p] = new[p], Matched(old)[p] = Matched(new)[p]
  PROVE  Direct(old, R)[p] = Direct(new, R)[p]
BY DEF Direct

\* A procedure whose direct facts may be reused is the one it was: its file, what
\* its calls resolve to and the rethrowing wrappers are the same.
LEMMA UnchangedFacts ==
  ASSUME NEW old \in Contents, NEW new \in Contents, NEW prev, About(old, prev),
         NEW files, {x \in Procedures : old[x] # new[x]} \subseteq files,
         NEW p \in Present(new),
         p \notin Changed(Present(new), Callees(new), Matched(new), Rethrowers(new), prev, files)
  PROVE  /\ old[p] = new[p] /\ p \in prev.procedures
         /\ Callees(old)[p] = Callees(new)[p]
         /\ prev.direct[p] = Direct(new, Rethrowers(new))[p]
<1>1. p \in Procedures
  BY CalleesFacts
<1>2. p \notin files /\ prev.rethrowers = Rethrowers(new)
  BY DEF Changed
<1>3. old[p] = new[p]
  BY <1>1, <1>2
<1>4. p \in Present(old)
  BY <1>1, <1>3 DEF Present
<1>5. /\ p \in prev.procedures
      /\ prev.callees[p] = Callees(new)[p] /\ prev.matched[p] = Matched(new)[p]
  BY <1>4 DEF About, Changed
<1>6. Callees(old)[p] = Callees(new)[p] /\ Matched(old)[p] = Matched(new)[p]
  BY <1>5 DEF About
<1>7. prev.direct[p] = Direct(old, Rethrowers(new))[p]
  BY <1>2 DEF About
<1>8. QED
  BY <1>1, <1>2, <1>3, <1>5, <1>6, <1>7, SameDirect

\* BuildIncremental starts from an earlier summary with at least the files that
\* differ: what it keeps of that summary holds of the new project, and those
\* that it resets, with all they call, wait to be heard.
LEMMA IncrementalFacts ==
  ASSUME NEW old \in Contents, NEW new \in Contents, NEW prev, NEW files,
         \/ prev.procedures = {}
         \/ Complete(old, prev) /\ {x \in Procedures : old[x] # new[x]} \subseteq files
  PROVE  LET b == BuildIncremental(new, prev, files)
         IN  Building(new, b.summary, b.queue)
<1> DEFINE b == BuildIncremental(new, prev, files)
<1>1. CASE prev.procedures = {}
  BY <1>1, BuildFacts DEF BuildIncremental
<1>2. CASE prev.procedures # {}
  <2> DEFINE present == Present(new)
             calls == Callees(new)
             matched == Matched(new)
             rethrowers == Rethrowers(new)
             changed == Changed(present, calls, matched, rethrowers, prev, files)
             reused == (present \cap prev.procedures) \ changed
             both == [p \in Procedures |-> calls[p] \cup prev.callees[p]]
             red == Red(changed, both)
             current == Direct(new, rethrowers)
             direct == [p \in Procedures |-> IF p \in reused THEN prev.direct[p] ELSE current[p]]
             reset == [p \in Procedures |->
                         IF p \in reused \ red THEN prev.states[p] ELSE DirectState(direct[p])]
             s == [procedures |-> present, direct |-> direct, states |-> reset,
                   callees |-> calls, matched |-> matched, rethrowers |-> rethrowers]
             q == Sorted(Seeds(red, calls, prev) \cap present)
             U == present \ red
  <2>1. b.summary = s /\ b.queue = q
    BY <1>2 DEF BuildIncremental
  <2>2. /\ Complete(old, prev) /\ About(old, prev)
        /\ prev.states \in [Procedures -> StateType] /\ Between(old, prev.states)
        /\ Quiet(prev.states) /\ WitnessesLead(old, prev.states)
        /\ prev.procedures = Present(old) /\ prev.callees = Callees(old)
        /\ {x \in Procedures : old[x] # new[x]} \subseteq files
    BY <1>2 DEF Complete, Underway, About
  <2>3. /\ present \in SUBSET Procedures /\ Present(old) \in SUBSET Procedures
        /\ calls \in [Procedures -> SUBSET Procedures] /\ matched \in [Procedures -> SUBSET Procedures]
        /\ rethrowers \in SUBSET Procedures
        /\ current \in [Procedures -> SUBSET Fact]
    BY CalleesFacts, RethrowersTyped, DirectFacts
  <2>4. changed \in SUBSET Procedures
    BY <2>2, <2>3 DEF Changed
  <2>5. /\ red \in SUBSET Procedures /\ changed \subseteq red
        /\ \A p \in Procedures : \A x \in both[p] : x \in red => p \in red
    <3> HIDE DEF changed, both
    <3>1. QED
      BY <2>4, RedFacts
  <2>6. \A p \in present \ changed :
          /\ old[p] = new[p] /\ p \in reused
          /\ Callees(old)[p] = calls[p] /\ prev.direct[p] = current[p]
    BY <2>2, UnchangedFacts
  <2> HIDE DEF changed, red, b
  <2>7. direct = current
    BY <2>3, <2>6
  <2>8. \A p \in U : /\ p \in reused \ red /\ p \in Procedures /\ p \in Present(old)
                     /\ old[p] = new[p] /\ Callees(old)[p] = calls[p]
                     /\ Direct(old, Rethrowers(old))[p] = current[p]
    BY <2>2, <2>3, <2>5, <2>6 DEF About
  <2>9. \A p \in U : calls[p] \subseteq U
    <3> SUFFICES ASSUME NEW p \in U, NEW x \in calls[p] PROVE x \in U
      OBVIOUS
    <3>1. x \in both[p] /\ x \in present
      BY <2>3, CalleesFacts
    <3>2. QED
      BY <2>3, <2>5, <3>1
  <2> HIDE DEF direct, current
  <2>10. /\ reset \in [Procedures -> StateType]
         /\ \A p \in U : reset[p] = prev.states[p]
         /\ \A p \in Procedures \ U :
              reset[p].facts = current[p] /\ reset[p].witness = NoProcedure
    BY <2>2, <2>3, <2>7, <2>8 DEF DirectState, StateType
  <2> HIDE DEF reset
  <2>11. ASSUME NEW p \in U
         PROVE  /\ ReachableFacts(old)[p] = ReachableFacts(new)[p]
                /\ reset[p].facts = ReachableFacts(new)[p]
    <3> DEFINE c == Callees(old)
               d == Direct(old, Rethrowers(old))
    <3>1. Reachable(c, p) = Reachable(calls, p) /\ Reachable(c, p) \subseteq U
      <4> HIDE DEF c, calls, U
      <4>1. U \in SUBSET Procedures /\ \A x \in U : c[x] = calls[x] /\ c[x] \subseteq U
        BY <2>8, <2>9 DEF c, U
      <4>2. QED
        BY <2>11, <4>1, ReachableSame
    <3>2. \A x \in Reachable(calls, p) : d[x] = current[x]
      BY <2>8, <3>1
    <3>3. p \in Procedures
      BY <2>8
    <3>4. /\ ReachableFacts(old)[p] = UNION {d[x] : x \in Reachable(c, p)}
          /\ ReachableFacts(new)[p] = UNION {current[x] : x \in Reachable(calls, p)}
      BY <3>3 DEF ReachableFacts, current
    <3>5. ReachableFacts(old)[p] = ReachableFacts(new)[p]
      <4> HIDE DEF c, calls, d
      <4>1. QED
        BY <3>1, <3>2, <3>4
    <3>6. prev.states[p].facts = ReachableFacts(old)[p]
      BY <2>2, <3>3, CompleteIsExact
    <3>7. QED
      BY <2>10, <3>5, <3>6
  <2>12. Between(new, reset)
    <3> SUFFICES ASSUME NEW p \in Procedures
                 PROVE  /\ current[p] \subseteq reset[p].facts
                        /\ reset[p].facts \subseteq ReachableFacts(new)[p]
      BY DEF Between, current
    <3>1. current[p] \subseteq ReachableFacts(new)[p]
      BY DirectIsReachable DEF current
    <3>2. CASE p \in U
      BY <2>11, <3>1, <3>2
    <3>3. CASE p \notin U
      BY <2>10, <3>1, <3>3
    <3>4. QED
      BY <3>2, <3>3
  <2>13. Quiet(reset)
    BY <2>2, <2>10 DEF Quiet
  <2>14. WitnessesLead(new, reset)
    <3> SUFFICES ASSUME NEW S \in SUBSET Procedures,
                        \A p \in present :
                          \/ "mayRaise" \in new[p].own /\ reset[p].witness = NoProcedure
                          \/ reset[p].witness \in new[p].calls \cap S
                          => p \in S,
                        NEW p \in present, "mayRaise" \in reset[p].facts
                 PROVE  p \in S
      BY DEF WitnessesLead, Least, Present
    <3>1. CASE p \notin U
      <4>1. "mayRaise" \in new[p].own
        BY <2>3, <2>10, <3>1, DirectFacts DEF current
      <4>2. QED
        BY <2>3, <2>10, <3>1, <4>1
    <3>2. CASE p \in U
      <4> DEFINE T == S \cup (Present(old) \ U)
                 Step(X) == {x \in Present(old) :
                               \/ "mayRaise" \in old[x].own /\ prev.states[x].witness = NoProcedure
                               \/ prev.states[x].witness \in old[x].calls \cap X}
      <4>1. ASSUME NEW x \in Step(T), x \in U PROVE x \in S
        <5>1. old[x] = new[x] /\ reset[x] = prev.states[x] /\ x \in present
          BY <2>8, <2>10, <4>1
        <5>2. CASE "mayRaise" \in old[x].own /\ prev.states[x].witness = NoProcedure
          BY <5>1, <5>2
        <5>3. CASE prev.states[x].witness \in old[x].calls \cap T
          <6> DEFINE w == prev.states[x].witness
          <6>1. w \in old[x].calls /\ w \in T
            BY <5>3
          <6>2. CASE w \in S
            BY <5>1, <6>1, <6>2
          <6>3. CASE w \in Present(old) \ U
            <7>1. w \in Callees(old)[x]
              BY <2>8, <4>1, <6>1, <6>3, CalleesFacts
            <7>2. w \in U
              BY <2>8, <2>9, <4>1, <7>1
            <7>3. QED
              BY <6>3, <7>2
          <6>4. QED
            BY <6>1, <6>2, <6>3
        <5>4. QED
          BY <4>1, <5>2, <5>3
      <4>2. Step(T) \subseteq T /\ T \in SUBSET Procedures
        BY <2>3, <4>1
      <4>3. {x \in Present(old) : "mayRaise" \in prev.states[x].facts} \subseteq Least(Step)
        BY <2>2 DEF WitnessesLead
      <4>4. Least(Step) \subseteq T
        <5> HIDE DEF T
        <5>1. QED
          BY <4>2 DEF Least
      <4>5. p \in Present(old) /\ "mayRaise" \in prev.states[p].facts
        BY <2>8, <2>10, <3>2
      <4>6. QED
        BY <3>2, <4>3, <4>4, <4>5
    <3>3. QED
      BY <3>1, <3>2
  <2>15. q \in Seq(Procedures) /\ Range(q) = Seeds(red, calls, prev) \cap present
    <3> DEFINE S == Seeds(red, calls, prev) \cap present
    <3>1. S \in SUBSET Procedures
      BY <2>3
    <3> HIDE DEF S
    <3>2. QED
      BY <3>1, SortedFacts DEF S
  <2> HIDE DEF q
  <2>16. Heard(new, reset, Range(q))
    <3> SUFFICES ASSUME NEW p \in Procedures, NEW x \in calls[p], x \notin Range(q)
                 PROVE  reset[x].facts \subseteq reset[p].facts
      BY DEF Heard
    <3>1. p \in present /\ x \in present
      BY CalleesFacts
    <3>2. p \notin red
      BY <2>15, <3>1 DEF Seeds
    <3>3. p \in U /\ x \in U
      BY <2>9, <3>1, <3>2
    <3>4. QED
      BY <2>11, <3>3, CalleeIsReachable
  <2>17. About(new, s) /\ s.states = reset
    BY <2>7 DEF About, current
  <2>18. s \in SummaryType
    <3>1. direct \in [Procedures -> SUBSET Fact]
      BY <2>3, <2>7
    <3> HIDE DEF present, calls, rethrowers
    <3>2. QED
      BY <2>3, <2>10, <3>1, SummaryTyped
  <2> HIDE DEF s
  <2>19. Building(new, s, q)
    BY <2>10, <2>12, <2>13, <2>14, <2>15, <2>16, <2>17, <2>18 DEF Building, Underway
  <2>20. QED
    BY <2>1, <2>19 DEF b
<1>3. QED
  BY <1>1, <1>2

-----------------------------------------------------------------------------
(***************************************************************************)
(* The inductive invariant of the requests and what they share.             *)
(***************************************************************************)
Labels == {"idle", "lookup", "ask", "wait", "build", "publish", "end"}

Typed ==
  /\ docs \in Projects /\ edits \in 0..EditLimit
  /\ state \in [valid : BOOLEAN, docs : Projects \cup {Nothing}, summary : SummaryType,
                builder : Requests \cup {Nobody}]
  /\ cache \in Seq([docs : Projects, summary : SummaryType]) /\ Len(cache) <= CacheLimit
  /\ at \in [Requests -> Labels] /\ snapshot \in [Requests -> Projects \cup {Nothing}]
  /\ summary \in [Requests -> SummaryType] /\ queue \in [Requests -> Seq(Procedures)]
  /\ awaits \in [Requests -> Requests \cup {Nobody}]

\* The next incremental build starts from a whole summary, or from none.
StateIsWhole ==
  IF state.valid THEN state.docs \in Projects /\ Complete(state.docs, state.summary)
  ELSE state.summary.procedures = {}

\* The cache offers whole summaries only.
CacheIsWhole == \A i \in DOMAIN cache : Complete(cache[i].docs, cache[i].summary)

\* What a request has at each of its places: a build under way while it builds,
\* the whole summary before it publishes, that or nothing when it has ended.
Sits(place, content, s, q) ==
  /\ place # "idle" => content \in Projects
  /\ place = "build" => Building(content, s, q)
  /\ place = "publish" => Complete(content, s)
  /\ place = "end" => s = NoSummary \/ Complete(content, s)

RequestsSit == \A r \in Requests : Sits(at[r], snapshot[r], summary[r], queue[r])

Inv == Typed /\ StateIsWhole /\ CacheIsWhole /\ RequestsSit

-----------------------------------------------------------------------------
(***************************************************************************)
(* The projects, and a summary of none.                                     *)
(***************************************************************************)
LEMMA ProjectsAreContents ==
  Projects \cup {Nothing} \subseteq Contents
BY ProjectsAssumption DEF Contents, Nothing

LEMMA NoSummaryTyped ==
  NoSummary \in SummaryType /\ NoSummary.procedures = {}
BY DEF NoSummary, SummaryType, DirectState

\* An entry of the cache.
LEMMA CacheEntries ==
  ASSUME Inv, NEW i \in DOMAIN cache
  PROVE  /\ cache[i] \in [docs : Projects, summary : SummaryType]
         /\ cache[i].docs \in Projects /\ cache[i].summary \in SummaryType
<1> DEFINE Entry == [docs : Projects, summary : SummaryType]
<1>1. cache \in Seq(Entry)
  BY DEF Inv, Typed
<1>2. cache[i] \in Entry
  <2> HIDE DEF Entry
  <2>1. QED
    BY <1>1, ElementOfSeq, LenProperties
<1>3. QED
  BY <1>2

\* A build that has nothing left to hear is complete.
LEMMA EmptyQueueIsComplete ==
  ASSUME NEW content, NEW s, NEW q, Building(content, s, q), q = <<>>
  PROVE  Complete(content, s)
<1>1. Range(q) = {}
  BY DEF Range
<1>2. QED
  BY <1>1 DEF Building, Complete

\* The files of two projects that differ are among those counted as changed.
LEMMA ChangedFilesFacts ==
  ASSUME NEW old, NEW new
  PROVE  {p \in Procedures : old[p] # new[p]} \subseteq ChangedFiles(old, new, TRUE)
BY DEF ChangedFiles

-----------------------------------------------------------------------------
(***************************************************************************)
(* Every action keeps the invariant.                                        *)
(***************************************************************************)
\* The requests keep their places, but for one that has moved.
LEMMA OthersSit ==
  ASSUME Inv, NEW r \in Requests, NEW to, at' = [at EXCEPT ![r] = to],
         \A q \in Requests \ {r} : /\ snapshot'[q] = snapshot[q] /\ summary'[q] = summary[q]
                                   /\ queue'[q] = queue[q],
         Sits(to, snapshot'[r], summary'[r], queue'[r])
  PROVE  RequestsSit'
<1> SUFFICES ASSUME NEW q \in Requests
             PROVE  Sits(at'[q], snapshot'[q], summary'[q], queue'[q])
  BY DEF RequestsSit
<1>1. CASE q = r
  BY <1>1 DEF Inv, Typed
<1>2. CASE q # r
  <2>1. at'[q] = at[q] /\ Sits(at[q], snapshot[q], summary[q], queue[q])
    BY <1>2 DEF Inv, Typed, RequestsSit
  <2>2. QED
    BY <1>2, <2>1
<1>3. QED
  BY <1>1, <1>2

\* A request that ends with nothing, or with the whole summary of what it asked
\* for.
LEMMA ReturnKeeps ==
  ASSUME Inv, NEW r \in Requests, NEW from \in Labels \ {"idle"}, NEW value \in SummaryType,
         value = NoSummary \/ Complete(snapshot[r], value),
         Return(r, from, value)
  PROVE  /\ RequestsSit'
         /\ at' \in [Requests -> Labels] /\ snapshot' \in [Requests -> Projects \cup {Nothing}]
         /\ summary' \in [Requests -> SummaryType] /\ queue' \in [Requests -> Seq(Procedures)]
         /\ awaits' \in [Requests -> Requests \cup {Nobody}]
<1>1. /\ at[r] = from /\ at' = [at EXCEPT ![r] = "end"]
      /\ summary' = [summary EXCEPT ![r] = value] /\ awaits' = [awaits EXCEPT ![r] = Nobody]
      /\ snapshot' = snapshot /\ queue' = queue
  BY DEF Return, Goto
<1>2. snapshot[r] \in Projects
  BY <1>1 DEF Inv, RequestsSit, Sits
<1>3. summary'[r] = value
  BY <1>1 DEF Inv, Typed
<1>4. Sits("end", snapshot'[r], summary'[r], queue'[r])
  BY <1>1, <1>2, <1>3 DEF Sits
<1>5. \A q \in Requests \ {r} : summary'[q] = summary[q]
  BY <1>1 DEF Inv, Typed
<1>6. RequestsSit'
  BY <1>1, <1>4, <1>5, OthersSit
<1>7. QED
  BY <1>1, <1>6 DEF Inv, Typed, Labels

\* A request that goes on with the work it has, which is none of a build's.
LEMMA GoKeeps ==
  ASSUME Inv, NEW r \in Requests, NEW from \in Labels \ {"idle"}, NEW to \in {"lookup", "ask", "wait"},
         Goto(r, from, to), UNCHANGED <<snapshot, summary, queue>>
  PROVE  /\ RequestsSit'
         /\ at' \in [Requests -> Labels] /\ snapshot' \in [Requests -> Projects \cup {Nothing}]
         /\ summary' \in [Requests -> SummaryType] /\ queue' \in [Requests -> Seq(Procedures)]
<1>1. /\ at[r] = from /\ at' = [at EXCEPT ![r] = to]
      /\ snapshot' = snapshot /\ summary' = summary /\ queue' = queue
  BY DEF Goto
<1>2. snapshot[r] \in Projects
  BY <1>1 DEF Inv, RequestsSit, Sits
<1>3. Sits(to, snapshot'[r], summary'[r], queue'[r])
  BY <1>1, <1>2 DEF Sits
<1>4. RequestsSit'
  BY <1>1, <1>3, OthersSit
<1>5. QED
  BY <1>1, <1>4 DEF Inv, Typed, Labels

\* What is shared stays as it is when nobody writes it.
LEMMA SharedKeeps ==
  ASSUME Inv, UNCHANGED shared
  PROVE  StateIsWhole' /\ CacheIsWhole'
BY DEF Inv, shared, StateIsWhole, CacheIsWhole

LEMMA InitInv ==
  Init => Inv
<1> SUFFICES ASSUME Init PROVE Inv
  OBVIOUS
<1> USE DEF Init
<1>1. Typed
  <2>1. cache \in Seq([docs : Projects, summary : SummaryType]) /\ Len(cache) <= CacheLimit
    BY BoundsAssumption
  <2>2. edits \in 0..EditLimit
    BY BoundsAssumption
  <2>3. QED
    BY <2>1, <2>2, NoSummaryTyped DEF Typed, Labels
<1>2. StateIsWhole
  BY NoSummaryTyped DEF StateIsWhole
<1>3. CacheIsWhole
  BY DEF CacheIsWhole
<1>4. RequestsSit
  BY DEF RequestsSit, Sits
<1>5. QED
  BY <1>1, <1>2, <1>3, <1>4 DEF Inv

LEMMA EditKeeps ==
  ASSUME Inv, Edit
  PROVE  Inv'
<1>1. edits \in 0..EditLimit /\ edits < EditLimit /\ edits' = edits + 1 /\ docs' \in Projects
  BY DEF Inv, Typed, Edit
<1>2. edits' \in 0..EditLimit
  BY <1>1, BoundsAssumption
<1>3. UNCHANGED <<state, cache, at, snapshot, summary, queue, awaits>>
  BY DEF Edit, request
<1>4. QED
  BY <1>1, <1>2, <1>3 DEF Inv, Typed, StateIsWhole, CacheIsWhole, RequestsSit

LEMMA CallKeeps ==
  ASSUME Inv, NEW r \in Requests, Call(r)
  PROVE  Inv'
<1>1. /\ at' = [at EXCEPT ![r] = "lookup"] /\ snapshot' = [snapshot EXCEPT ![r] = docs]
      /\ UNCHANGED <<docs, edits, state, cache, summary, queue, awaits>>
  BY DEF Call, Goto, shared, work
<1>2. /\ snapshot'[r] = docs /\ docs \in Projects
      /\ \A q \in Requests \ {r} : snapshot'[q] = snapshot[q]
  BY <1>1 DEF Inv, Typed
<1>3. Sits("lookup", snapshot'[r], summary'[r], queue'[r])
  BY <1>2 DEF Sits
<1>4. RequestsSit'
  BY <1>1, <1>2, <1>3, OthersSit
<1>5. Typed'
  BY <1>1 DEF Inv, Typed, Labels
<1>6. StateIsWhole' /\ CacheIsWhole'
  BY <1>1, SharedKeeps DEF shared
<1>7. QED
  BY <1>4, <1>5, <1>6 DEF Inv

LEMMA HitKeeps ==
  ASSUME Inv, NEW r \in Requests, Hit(r)
  PROVE  Inv'
<1>1. PICK i \in Cached(r) : Return(r, "lookup", cache[i].summary)
  BY DEF Hit
<1>2. i \in DOMAIN cache /\ cache[i].docs = snapshot[r]
  BY DEF Cached
<1>3. cache[i].summary \in SummaryType
  BY <1>2, CacheEntries
<1>4. Complete(snapshot[r], cache[i].summary)
  BY <1>2 DEF Inv, CacheIsWhole
<1> DEFINE value == cache[i].summary
<1>5. UNCHANGED <<docs, edits, state, cache>>
  BY DEF Hit, shared
<1>6. StateIsWhole' /\ CacheIsWhole'
  BY <1>5, SharedKeeps DEF shared
<1> HIDE DEF value
<1>7. /\ RequestsSit'
      /\ at' \in [Requests -> Labels] /\ snapshot' \in [Requests -> Projects \cup {Nothing}]
      /\ summary' \in [Requests -> SummaryType] /\ queue' \in [Requests -> Seq(Procedures)]
      /\ awaits' \in [Requests -> Requests \cup {Nobody}]
  <2>1. value \in SummaryType /\ Complete(snapshot[r], value) /\ Return(r, "lookup", value)
    BY <1>1, <1>3, <1>4 DEF value
  <2>2. "lookup" \in Labels \ {"idle"}
    BY DEF Labels
  <2>3. QED
    BY <2>1, <2>2, ReturnKeeps
<1>8. QED
  BY <1>5, <1>6, <1>7 DEF Inv, Typed

LEMMA MissKeeps ==
  ASSUME Inv, NEW r \in Requests, Miss(r)
  PROVE  Inv'
<1>1. /\ Goto(r, "lookup", "ask")
      /\ UNCHANGED <<docs, edits, state, cache, snapshot, summary, queue, awaits>>
  BY DEF Miss, shared, work
<1>2. /\ RequestsSit'
      /\ at' \in [Requests -> Labels] /\ snapshot' \in [Requests -> Projects \cup {Nothing}]
      /\ summary' \in [Requests -> SummaryType] /\ queue' \in [Requests -> Seq(Procedures)]
  BY <1>1, GoKeeps DEF Labels
<1>3. StateIsWhole' /\ CacheIsWhole'
  BY <1>1, SharedKeeps DEF shared
<1>4. QED
  BY <1>1, <1>2, <1>3 DEF Inv, Typed

LEMMA ReuseKeeps ==
  ASSUME Inv, NEW r \in Requests, Reuse(r)
  PROVE  Inv'
<1>1. /\ state.valid /\ state.docs = snapshot[r] /\ Return(r, "ask", state.summary)
      /\ UNCHANGED <<docs, edits, state, cache>>
  BY DEF Reuse, InState, shared
<1>2. state.summary \in SummaryType
  BY DEF Inv, Typed
<1>3. Complete(snapshot[r], state.summary)
  BY <1>1 DEF Inv, StateIsWhole
<1>4. /\ RequestsSit'
      /\ at' \in [Requests -> Labels] /\ snapshot' \in [Requests -> Projects \cup {Nothing}]
      /\ summary' \in [Requests -> SummaryType] /\ queue' \in [Requests -> Seq(Procedures)]
      /\ awaits' \in [Requests -> Requests \cup {Nobody}]
  <2> DEFINE value == state.summary
  <2>1. value \in SummaryType /\ Complete(snapshot[r], value) /\ Return(r, "ask", value)
    BY <1>1, <1>2, <1>3
  <2>2. "ask" \in Labels \ {"idle"}
    BY DEF Labels
  <2> HIDE DEF value
  <2>3. QED
    BY <2>1, <2>2, ReturnKeeps
<1>5. StateIsWhole' /\ CacheIsWhole'
  BY <1>1, SharedKeeps DEF shared
<1>6. QED
  BY <1>1, <1>4, <1>5 DEF Inv, Typed

LEMMA AwaitKeeps ==
  ASSUME Inv, NEW r \in Requests, Await(r)
  PROVE  Inv'
<1>1. /\ Goto(r, "ask", "wait") /\ awaits' = [awaits EXCEPT ![r] = state.builder]
      /\ UNCHANGED <<docs, edits, state, cache, snapshot, summary, queue>>
  BY DEF Await, shared, work
<1>2. /\ RequestsSit'
      /\ at' \in [Requests -> Labels] /\ snapshot' \in [Requests -> Projects \cup {Nothing}]
      /\ summary' \in [Requests -> SummaryType] /\ queue' \in [Requests -> Seq(Procedures)]
  BY <1>1, GoKeeps DEF Labels
<1>3. StateIsWhole' /\ CacheIsWhole'
  BY <1>1, SharedKeeps DEF shared
<1>4. QED
  BY <1>1, <1>2, <1>3 DEF Inv, Typed

LEMMA WakeKeeps ==
  ASSUME Inv, NEW r \in Requests, Wake(r)
  PROVE  Inv'
<1>1. /\ Goto(r, "wait", "ask") /\ awaits' = [awaits EXCEPT ![r] = Nobody]
      /\ UNCHANGED <<docs, edits, state, cache, snapshot, summary, queue>>
  BY DEF Wake, shared, work
<1>2. /\ RequestsSit'
      /\ at' \in [Requests -> Labels] /\ snapshot' \in [Requests -> Projects \cup {Nothing}]
      /\ summary' \in [Requests -> SummaryType] /\ queue' \in [Requests -> Seq(Procedures)]
  BY <1>1, GoKeeps DEF Labels
<1>3. StateIsWhole' /\ CacheIsWhole'
  BY <1>1, SharedKeeps DEF shared
<1>4. QED
  BY <1>1, <1>2, <1>3 DEF Inv, Typed

LEMMA GiveUpKeeps ==
  ASSUME Inv, NEW r \in Requests, GiveUp(r)
  PROVE  Inv'
<1>1. /\ UNCHANGED <<docs, edits, state, cache>>
      /\ Return(r, "ask", NoSummary) \/ Return(r, "wait", NoSummary)
  BY DEF GiveUp, shared
<1>2. /\ RequestsSit'
      /\ at' \in [Requests -> Labels] /\ snapshot' \in [Requests -> Projects \cup {Nothing}]
      /\ summary' \in [Requests -> SummaryType] /\ queue' \in [Requests -> Seq(Procedures)]
      /\ awaits' \in [Requests -> Requests \cup {Nobody}]
  <2>1. "ask" \in Labels \ {"idle"} /\ "wait" \in Labels \ {"idle"}
    BY DEF Labels
  <2>2. QED
    BY <1>1, <2>1, NoSummaryTyped, ReturnKeeps
<1>3. StateIsWhole' /\ CacheIsWhole'
  BY <1>1, SharedKeeps DEF shared
<1>4. QED
  BY <1>1, <1>2, <1>3 DEF Inv, Typed

\* A step of a build: it has its summary and its queue from b.
LEMMA WorkKeeps ==
  ASSUME Inv, NEW r \in Requests, NEW b, Building(snapshot[r], b.summary, b.queue), Work(r, b),
         at' = [at EXCEPT ![r] = "build"], snapshot' = snapshot, snapshot[r] \in Projects
  PROVE  /\ RequestsSit'
         /\ at' \in [Requests -> Labels] /\ snapshot' \in [Requests -> Projects \cup {Nothing}]
         /\ summary' \in [Requests -> SummaryType] /\ queue' \in [Requests -> Seq(Procedures)]
<1> DEFINE s == b.summary
           q == b.queue
<1>1. summary' = [summary EXCEPT ![r] = s] /\ queue' = [queue EXCEPT ![r] = q]
  BY DEF Work
<1>2. s \in SummaryType /\ q \in Seq(Procedures)
  BY DEF Building
<1>3. Building(snapshot[r], s, q)
  OBVIOUS
<1> HIDE DEF s, q
<1>4. /\ summary'[r] = s /\ queue'[r] = q
      /\ \A x \in Requests \ {r} : summary'[x] = summary[x] /\ queue'[x] = queue[x]
  BY <1>1 DEF Inv, Typed
<1>5. Sits("build", snapshot'[r], summary'[r], queue'[r])
  BY <1>3, <1>4 DEF Sits
<1>6. RequestsSit'
  BY <1>4, <1>5, OthersSit
<1>7. QED
  BY <1>1, <1>2, <1>6 DEF Inv, Typed, Labels

LEMMA BeginKeeps ==
  ASSUME Inv, NEW r \in Requests, Begin(r)
  PROVE  Inv'
<1> DEFINE old == state.docs
           new == snapshot[r]
           prev == state.summary
           files == ChangedFiles(old, new, state.valid)
           b == BuildIncremental(new, prev, files)
<1>1. /\ at[r] = "ask" /\ at' = [at EXCEPT ![r] = "build"] /\ Work(r, b)
      /\ state' = [state EXCEPT !.builder = r]
      /\ UNCHANGED <<docs, edits, cache, snapshot, awaits>>
  BY DEF Begin, Claim, Goto
<1>2. new \in Projects
  BY <1>1 DEF Inv, RequestsSit, Sits
<1>3. old \in Contents /\ new \in Contents
  BY <1>2, ProjectsAreContents DEF Inv, Typed
<1>4. \/ prev.procedures = {}
      \/ Complete(old, prev) /\ {x \in Procedures : old[x] # new[x]} \subseteq files
  <2>1. CASE state.valid
    <3>1. state.valid = TRUE
      BY <2>1 DEF Inv, Typed
    <3>2. {x \in Procedures : old[x] # new[x]} \subseteq files
      BY <3>1, ChangedFilesFacts
    <3>3. Complete(old, prev)
      BY <2>1 DEF Inv, StateIsWhole
    <3>4. QED
      BY <3>2, <3>3
  <2>2. CASE ~state.valid
    BY <2>2 DEF Inv, StateIsWhole
  <2>3. QED
    BY <2>1, <2>2
<1>5. Building(new, b.summary, b.queue)
  <2> HIDE DEF old, new, prev, files
  <2>1. QED
    BY <1>3, <1>4, IncrementalFacts
<1>6. /\ RequestsSit'
      /\ at' \in [Requests -> Labels] /\ snapshot' \in [Requests -> Projects \cup {Nothing}]
      /\ summary' \in [Requests -> SummaryType] /\ queue' \in [Requests -> Seq(Procedures)]
  <2> HIDE DEF b
  <2>1. QED
    BY <1>1, <1>2, <1>5, WorkKeeps
<1>7. /\ state' \in [valid : BOOLEAN, docs : Projects \cup {Nothing}, summary : SummaryType,
                     builder : Requests \cup {Nobody}]
      /\ state'.valid = state.valid /\ state'.docs = old /\ state'.summary = prev
  BY <1>1 DEF Inv, Typed
<1>8. StateIsWhole' /\ CacheIsWhole'
  BY <1>1, <1>7 DEF Inv, StateIsWhole, CacheIsWhole
<1>9. QED
  BY <1>1, <1>6, <1>7, <1>8 DEF Inv, Typed

LEMMA EvaluateKeeps ==
  ASSUME Inv, NEW r \in Requests, Evaluate(r)
  PROVE  Inv'
<1> DEFINE b == Propagate([summary |-> summary[r], queue |-> queue[r]])
<1>1. /\ at[r] = "build" /\ queue[r] # <<>> /\ Work(r, b)
      /\ UNCHANGED <<docs, edits, state, cache, at, snapshot, awaits>>
  BY DEF Evaluate, shared
<1>2. /\ Building(snapshot[r], summary[r], queue[r]) /\ snapshot[r] \in Projects
      /\ snapshot[r] \in Contents
  BY <1>1, ProjectsAreContents DEF Inv, RequestsSit, Sits
<1>3. Building(snapshot[r], b.summary, b.queue)
  BY <1>1, <1>2, PropagateFacts
<1>4. at' = [at EXCEPT ![r] = "build"]
  BY <1>1 DEF Inv, Typed
<1>5. /\ RequestsSit'
      /\ at' \in [Requests -> Labels] /\ snapshot' \in [Requests -> Projects \cup {Nothing}]
      /\ summary' \in [Requests -> SummaryType] /\ queue' \in [Requests -> Seq(Procedures)]
  <2> HIDE DEF b
  <2>1. QED
    BY <1>1, <1>2, <1>3, <1>4, WorkKeeps
<1>6. StateIsWhole' /\ CacheIsWhole'
  BY <1>1, SharedKeeps DEF shared
<1>7. QED
  BY <1>1, <1>5, <1>6 DEF Inv, Typed

LEMMA FinishKeeps ==
  ASSUME Inv, NEW r \in Requests, Finish(r)
  PROVE  Inv'
<1>1. /\ queue[r] = <<>> /\ at[r] = "build" /\ at' = [at EXCEPT ![r] = "publish"]
      /\ state' = [valid |-> TRUE, docs |-> snapshot[r], summary |-> summary[r], builder |-> Nobody]
      /\ UNCHANGED <<docs, edits, cache, snapshot, summary, queue, awaits>>
  BY DEF Finish, Goto, work
<1>2. Complete(snapshot[r], summary[r]) /\ snapshot[r] \in Projects
  BY <1>1, EmptyQueueIsComplete DEF Inv, RequestsSit, Sits
<1>3. Sits("publish", snapshot'[r], summary'[r], queue'[r])
  BY <1>1, <1>2 DEF Sits
<1>4. RequestsSit'
  BY <1>1, <1>3, OthersSit
<1>5. StateIsWhole' /\ CacheIsWhole'
  BY <1>1, <1>2 DEF Inv, StateIsWhole, CacheIsWhole
<1>6. Typed'
  BY <1>1, <1>2 DEF Inv, Typed, Labels
<1>7. QED
  BY <1>4, <1>5, <1>6 DEF Inv

LEMMA DiscardKeeps ==
  ASSUME Inv, NEW r \in Requests, Discard(r)
  PROVE  Inv'
<1>1. /\ Return(r, "build", NoSummary) /\ state' = [state EXCEPT !.builder = Nobody]
      /\ UNCHANGED <<docs, edits, cache>>
  BY DEF Discard
<1>2. /\ RequestsSit'
      /\ at' \in [Requests -> Labels] /\ snapshot' \in [Requests -> Projects \cup {Nothing}]
      /\ summary' \in [Requests -> SummaryType] /\ queue' \in [Requests -> Seq(Procedures)]
      /\ awaits' \in [Requests -> Requests \cup {Nobody}]
  <2>1. "build" \in Labels \ {"idle"}
    BY DEF Labels
  <2>2. QED
    BY <1>1, <2>1, NoSummaryTyped, ReturnKeeps
<1>3. /\ state' \in [valid : BOOLEAN, docs : Projects \cup {Nothing}, summary : SummaryType,
                     builder : Requests \cup {Nobody}]
      /\ state'.valid = state.valid /\ state'.docs = state.docs /\ state'.summary = state.summary
  BY <1>1 DEF Inv, Typed
<1>4. StateIsWhole' /\ CacheIsWhole'
  BY <1>1, <1>3 DEF Inv, StateIsWhole, CacheIsWhole
<1>5. QED
  BY <1>1, <1>2, <1>3, <1>4 DEF Inv, Typed

\* The cache after a publication has what it had, or less, and what is published,
\* within its limit.
LEMMA PublishedFacts ==
  ASSUME Inv, NEW r \in Requests, snapshot[r] \in Projects
  PROVE  /\ Published(r) \in Seq([docs : Projects, summary : SummaryType])
         /\ Len(Published(r)) <= CacheLimit
         /\ Range(Published(r)) \subseteq
              Range(cache) \cup {[docs |-> snapshot[r], summary |-> summary[r]]}
<1> DEFINE Entry == [docs : Projects, summary : SummaryType]
           e == [docs |-> snapshot[r], summary |-> summary[r]]
           grown == Append(cache, e)
<1>1. cache \in Seq(Entry) /\ Len(cache) <= CacheLimit /\ e \in Entry
  BY DEF Inv, Typed
<1>2. Published(r) = IF Cached(r) # {} THEN cache
                     ELSE IF Len(grown) > CacheLimit THEN Tail(grown) ELSE grown
  BY DEF Published
<1> HIDE DEF Entry, e
<1>3. grown \in Seq(Entry) /\ Len(grown) = Len(cache) + 1 /\ Len(cache) \in Nat
  BY <1>1, AppendProperties, LenProperties
<1>4. Range(grown) \subseteq Range(cache) \cup {e}
  <2>1. \A i \in 1..Len(grown) : grown[i] = IF i = Len(cache) + 1 THEN e ELSE cache[i]
    BY <1>1, <1>3, AppendProperties
  <2>2. DOMAIN grown = 1..Len(grown) /\ DOMAIN cache = 1..Len(cache)
    BY <1>1, <1>3, LenProperties
  <2>3. \A i \in 1..Len(grown) : i # Len(cache) + 1 => i \in 1..Len(cache)
    BY <1>3
  <2> HIDE DEF grown
  <2>4. QED
    BY <2>1, <2>2, <2>3 DEF Range
<1> HIDE DEF grown
<1>5. grown # <<>>
  BY <1>3
<1>6. Tail(grown) \in Seq(Entry) /\ Len(Tail(grown)) = Len(grown) - 1
  BY <1>3, <1>5, HeadTailProperties
<1>7. Range(Tail(grown)) \subseteq Range(grown)
  <2>1. \A i \in 1..Len(Tail(grown)) : Tail(grown)[i] = grown[i + 1]
    BY <1>3, <1>5, HeadTailProperties
  <2>2. /\ DOMAIN grown = 1..Len(grown)
        /\ DOMAIN Tail(grown) = 1..Len(Tail(grown))
    BY <1>3, <1>6, LenProperties
  <2>3. \A i \in 1..Len(Tail(grown)) : i + 1 \in 1..Len(grown)
    BY <1>3, <1>6
  <2>4. QED
    BY <2>1, <2>2, <2>3 DEF Range
<1>8. CacheLimit \in Nat
  BY BoundsAssumption
<1>9. CASE Cached(r) # {}
  BY <1>1, <1>2, <1>9 DEF Entry
<1>10. CASE Cached(r) = {} /\ Len(grown) > CacheLimit
  BY <1>1, <1>2, <1>3, <1>4, <1>6, <1>7, <1>8, <1>10 DEF Entry, e
<1>11. CASE Cached(r) = {} /\ ~(Len(grown) > CacheLimit)
  BY <1>2, <1>3, <1>4, <1>8, <1>11 DEF Entry, e
<1>12. QED
  BY <1>9, <1>10, <1>11

LEMMA PublishKeeps ==
  ASSUME Inv, NEW r \in Requests, Publish(r)
  PROVE  Inv'
<1>1. /\ Return(r, "publish", summary[r]) /\ cache' = Published(r) /\ at[r] = "publish"
      /\ UNCHANGED <<docs, edits, state>>
  BY DEF Publish, Return, Goto
<1>2. Complete(snapshot[r], summary[r]) /\ snapshot[r] \in Projects
  BY <1>1 DEF Inv, RequestsSit, Sits
<1>3. summary[r] \in SummaryType
  BY DEF Inv, Typed
<1>4. /\ RequestsSit'
      /\ at' \in [Requests -> Labels] /\ snapshot' \in [Requests -> Projects \cup {Nothing}]
      /\ summary' \in [Requests -> SummaryType] /\ queue' \in [Requests -> Seq(Procedures)]
      /\ awaits' \in [Requests -> Requests \cup {Nobody}]
  <2> DEFINE value == summary[r]
  <2>1. value \in SummaryType /\ Complete(snapshot[r], value) /\ Return(r, "publish", value)
    BY <1>1, <1>2, <1>3
  <2>2. "publish" \in Labels \ {"idle"}
    BY DEF Labels
  <2> HIDE DEF value
  <2>3. QED
    BY <2>1, <2>2, ReturnKeeps
<1>5. /\ cache' \in Seq([docs : Projects, summary : SummaryType]) /\ Len(cache') <= CacheLimit
      /\ Range(cache') \subseteq Range(cache) \cup {[docs |-> snapshot[r], summary |-> summary[r]]}
  BY <1>1, <1>2, PublishedFacts
<1>6. CacheIsWhole'
  <2>1. \A x \in Range(cache') : Complete(x.docs, x.summary)
    BY <1>2, <1>5 DEF Inv, CacheIsWhole, Range
  <2>2. QED
    BY <2>1 DEF CacheIsWhole, Range
<1>7. StateIsWhole'
  BY <1>1 DEF Inv, StateIsWhole
<1>8. QED
  BY <1>1, <1>4, <1>5, <1>6, <1>7 DEF Inv, Typed

LEMMA NextKeeps ==
  ASSUME Inv, [Next]_vars
  PROVE  Inv'
<1>1. CASE UNCHANGED vars
  BY <1>1 DEF vars, Inv, Typed, StateIsWhole, CacheIsWhole, RequestsSit
<1>2. CASE Edit
  BY <1>2, EditKeeps
<1>3. ASSUME NEW r \in Requests,
             \/ Call(r) \/ Hit(r) \/ Miss(r) \/ Reuse(r) \/ Await(r) \/ Wake(r) \/ GiveUp(r)
             \/ Begin(r) \/ Evaluate(r) \/ Finish(r) \/ Discard(r) \/ Publish(r)
      PROVE  Inv'
  BY <1>3, CallKeeps, HitKeeps, MissKeeps, ReuseKeeps, AwaitKeeps, WakeKeeps, GiveUpKeeps,
     BeginKeeps, EvaluateKeeps, FinishKeeps, DiscardKeeps, PublishKeeps
<1>4. QED
  BY <1>1, <1>2, <1>3 DEF Next

-----------------------------------------------------------------------------
(***************************************************************************)
(* The theorems.                                                            *)
(***************************************************************************)
\* Builds, edits, cancellations and publications in any order keep what is
\* shared whole, and what a request has what its place calls for.
THEOREM ProjectEffectsInvariant ==
  Spec => []Inv
<1>1. Init => Inv
  BY InitInv
<1>2. Inv /\ [Next]_vars => Inv'
  BY NextKeeps
<1>3. QED
  BY <1>1, <1>2, PTL DEF Spec

\* The variables have their types, and the cache its limit
\* (dependency_cache.go, publish).
THEOREM TypeOKHolds ==
  Spec => []TypeOK
<1>1. Inv => TypeOK
  <2> SUFFICES ASSUME Inv PROVE TypeOK
    OBVIOUS
  <2>1. \A i \in DOMAIN cache : cache[i].docs \in Projects /\ cache[i].summary \in SummaryType
    BY CacheEntries
  <2>2. QED
    BY <2>1 DEF Inv, Typed, Labels, TypeOK
<1>2. QED
  BY <1>1, ProjectEffectsInvariant, PTL

\* Every summary that a request got, that the cache offers and that the next
\* build starts from says of each procedure what the procedures it reaches say
\* of themselves, and explains each possible error by calls that lead to it
\* (server.go, projectEffectSummaryWithResolutionKey; build.go).
THEOREM SummariesAreRightHolds ==
  Spec => []SummariesAreRight
<1>1. Inv => SummariesAreRight
  <2> SUFFICES ASSUME Inv, NEW offer \in Offered
               PROVE  /\ \A p \in Procedures :
                           offer.summary.states[p].facts = Expected[offer.docs][p]
                      /\ WitnessesLead(offer.docs, offer.summary.states)
    BY DEF SummariesAreRight
  <2>1. Complete(offer.docs, offer.summary) /\ offer.docs \in Projects
    <3>1. CASE offer \in {cache[i] : i \in DOMAIN cache}
      BY <3>1, CacheEntries DEF Inv, CacheIsWhole
    <3>2. CASE state.valid /\ offer = [docs |-> state.docs, summary |-> state.summary]
      BY <3>2 DEF Inv, Typed, StateIsWhole
    <3>3. ASSUME NEW r \in Requests, at[r] = "end", summary[r] # NoSummary,
                 offer = [docs |-> snapshot[r], summary |-> summary[r]]
          PROVE  Complete(offer.docs, offer.summary) /\ offer.docs \in Projects
      BY <3>3 DEF Inv, RequestsSit, Sits
    <3>4. QED
      BY <3>1, <3>2, <3>3 DEF Offered
  <2>2. offer.docs \in Contents
    BY <2>1, ProjectsAreContents
  <2>3. \A p \in Procedures : offer.summary.states[p].facts = ReachableFacts(offer.docs)[p]
    BY <2>1, <2>2, CompleteIsExact
  <2>4. Expected[offer.docs] = ReachableFacts(offer.docs)
    BY <2>1 DEF Expected
  <2>5. WitnessesLead(offer.docs, offer.summary.states)
    BY <2>1 DEF Complete, Underway
  <2>6. QED
    BY <2>3, <2>4, <2>5
<1>2. QED
  BY <1>1, ProjectEffectsInvariant, PTL

=============================================================================
