-------------------------- MODULE AnalysisScheduler --------------------------
(***************************************************************************)
(* internal/lspserver/analysis_scheduler.go: the permits of the language    *)
(* server's analysis work.                                                  *)
(*                                                                          *)
(* A caller that cannot have a permit registers as a waiter, remembers the  *)
(* channel `changed` and sleeps until somebody closes it.  Every critical   *)
(* section of the mutex is one step.  A channel is closed and replaced      *)
(* under the mutex, so a waiter is either asleep on the current channel or  *)
(* awake because its channel was closed.                                    *)
(*                                                                          *)
(* The specification is named for its component, so that one module can     *)
(* extend both parts of the language server.                                *)
(***************************************************************************)
EXTENDS FiniteSets, Integers

CONSTANTS
  Caller,       \* the goroutines that ask for permits
  TotalLimits   \* the numbers of permits a host may have

ASSUME CallerAssumption == IsFiniteSet(Caller)
ASSUME TotalLimitsAssumption == TotalLimits \subseteq Nat \ {0}

Class == {"interactive", "fast", "background"}

\* The classes that go before a class.
Before(k) ==
  CASE k = "interactive" -> {}
    [] k = "fast"        -> {"interactive"}
    [] k = "background"  -> {"interactive", "fast"}

VARIABLES
  totalLimit, \* permits of the scheduler, settled when it is made
  active,     \* permits held, by class
  waiters,    \* registered waiters, by class
  state,      \* where each caller is
  class,      \* the class of its request
  canceled    \* the callers whose context has ended

schedulerVars == <<totalLimit, active, waiters, state, class, canceled>>

\* newAnalysisScheduler keeps one permit from background work if it can.
BackgroundLimit == IF totalLimit > 1 THEN totalLimit - 1 ELSE totalLimit

\* "trying" has not waited yet; "asleep" and "awake" are registered waiters.
State == {"out", "trying", "asleep", "awake", "running"}

SchedulerTypeOK ==
  /\ totalLimit \in TotalLimits
  /\ active \in [Class -> Nat]
  /\ waiters \in [Class -> Nat]
  /\ state \in [Caller -> State]
  /\ class \in [Caller -> Class]
  /\ canceled \in SUBSET Caller

SchedulerInit ==
  /\ totalLimit \in TotalLimits
  /\ active = [k \in Class |-> 0]
  /\ waiters = [k \in Class |-> 0]
  /\ state = [c \in Caller |-> "out"]
  /\ class = [c \in Caller |-> "interactive"]
  /\ canceled = {}

Waiting(c) == state[c] \in {"asleep", "awake"}
Total == active["interactive"] + active["fast"] + active["background"]

(***************************************************************************)
(* Faulty variants of the definitions below.  No specification uses them;   *)
(* each stands for a bug the property named with it must catch.             *)
(***************************************************************************)
\* PermitsBounded: the overcommit looks at background work only.
CanAcquireOvercommits(k) ==
  \/ k = "interactive" /\ active["background"] = 1
  \/ /\ Total < totalLimit
     /\ \A b \in Before(k) : waiters[b] = 0
     /\ k = "background" => active[k] < BackgroundLimit

\* PriorityKept: background work gives way to interactive requests only.
CanAcquireSkipsFast(k) ==
  \/ k = "interactive" /\ totalLimit = 1 /\ Total = 1 /\ active["background"] = 1
  \/ /\ Total < totalLimit
     /\ k # "interactive" => waiters["interactive"] = 0
     /\ k = "background" => active[k] < BackgroundLimit

\* NoLostWakeup: a waiter that leaves wakes nobody.
UnregisterSilently(c, next) ==
  /\ waiters' = [waiters EXCEPT ![class[c]] = @ - 1]
  /\ state' = [state EXCEPT ![c] = next]

\* SchedulerTypeOK: a waiter is taken off the count twice.
UnregisterTwice(c, next) ==
  /\ waiters' = [waiters EXCEPT ![class[c]] = @ - 2]
  /\ state' = [d \in Caller |-> IF d = c THEN next
                                ELSE IF state[d] = "asleep" THEN "awake" ELSE state[d]]

\* Served: release wakes nobody.
ReleaseSilently(c) ==
  /\ state[c] = "running"
  /\ active' = [active EXCEPT ![class[c]] = @ - 1]
  /\ state' = [state EXCEPT ![c] = "out"]
  /\ canceled' = canceled \ {c}
  /\ UNCHANGED <<totalLimit, waiters, class>>

-----------------------------------------------------------------------------
CanAcquire(k) ==
  \* The one interactive request that may overcommit a single background job.
  \/ k = "interactive" /\ totalLimit = 1 /\ Total = 1 /\ active["background"] = 1
  \/ /\ Total < totalLimit
     /\ \A b \in Before(k) : waiters[b] = 0
     /\ k = "background" => active[k] < BackgroundLimit

\* notifyLocked, and c moves on.
Notify(c, next) ==
  state' = [d \in Caller |-> IF d = c THEN next
                             ELSE IF state[d] = "asleep" THEN "awake" ELSE state[d]]

\* removeWaiterLocked, and c moves on.
Unregister(c, next) ==
  /\ waiters' = [waiters EXCEPT ![class[c]] = IF @ > 0 THEN @ - 1 ELSE @]
  /\ IF waiters[class[c]] > 0
       THEN Notify(c, next)
       ELSE state' = [state EXCEPT ![c] = next]

Request(c, k) ==
  /\ state[c] = "out"
  /\ state' = [state EXCEPT ![c] = "trying"]
  /\ class' = [class EXCEPT ![c] = k]
  /\ UNCHANGED <<totalLimit, active, waiters, canceled>>

Cancel(c) ==
  /\ state[c] # "out" /\ c \notin canceled
  /\ canceled' = canceled \cup {c}
  /\ UNCHANGED <<totalLimit, active, waiters, state, class>>

Acquire(c) ==
  /\ state[c] \in {"trying", "awake"}
  /\ c \notin canceled
  /\ CanAcquire(class[c])
  /\ active' = [active EXCEPT ![class[c]] = @ + 1]
  /\ \/ state[c] = "awake" /\ Unregister(c, "running")
     \/ /\ state[c] = "trying"
        /\ state' = [state EXCEPT ![c] = "running"]
        /\ UNCHANGED waiters
  /\ UNCHANGED <<totalLimit, class, canceled>>

Wait(c) ==
  /\ state[c] \in {"trying", "awake"}
  /\ c \notin canceled
  /\ ~CanAcquire(class[c])
  /\ waiters' = IF state[c] = "trying" THEN [waiters EXCEPT ![class[c]] = @ + 1] ELSE waiters
  /\ state' = [state EXCEPT ![c] = "asleep"]
  /\ UNCHANGED <<totalLimit, active, class, canceled>>

\* The context has ended: seen on entry, at the head of the loop, or in the
\* select while asleep.
GiveUp(c) ==
  /\ c \in canceled
  /\ \/ Waiting(c) /\ Unregister(c, "out")
     \/ /\ state[c] = "trying"
        /\ state' = [state EXCEPT ![c] = "out"]
        /\ UNCHANGED waiters
  /\ canceled' = canceled \ {c}
  /\ UNCHANGED <<totalLimit, active, class>>

Release(c) ==
  /\ state[c] = "running"
  /\ active' = [active EXCEPT ![class[c]] = IF @ > 0 THEN @ - 1 ELSE @]
  /\ Notify(c, "out")
  /\ canceled' = canceled \ {c}
  /\ UNCHANGED <<totalLimit, waiters, class>>

SchedulerNext ==
  \E c \in Caller :
    \/ \E k \in Class : Request(c, k)
    \/ Cancel(c) \/ Acquire(c) \/ Wait(c) \/ GiveUp(c) \/ Release(c)

SchedulerSpec == SchedulerInit /\ [][SchedulerNext]_schedulerVars

\* A goroutine that can go on does, and the work under a permit comes to an end.
FairSchedulerSpec ==
  /\ SchedulerSpec
  /\ \A c \in Caller :
       /\ WF_schedulerVars(Acquire(c) \/ Wait(c) \/ GiveUp(c))
       /\ WF_schedulerVars(Release(c))

-----------------------------------------------------------------------------
(***************************************************************************)
(* Properties.                                                              *)
(***************************************************************************)
Running(k) == {c \in Caller : state[c] = "running" /\ class[c] = k}
Queued(k) == {c \in Caller : Waiting(c) /\ class[c] = k}

\* The counters are what they stand for, canceled and racing callers included.
\* A waiter that stays counted would hold back the classes below it for ever,
\* and a permit that stays counted would be lost.
CountsAreReal ==
  \A k \in Class :
    /\ active[k] = Cardinality(Running(k))
    /\ waiters[k] = Cardinality(Queued(k))

\* Nobody sleeps who could have a permit: whatever makes a permit available, a
\* release or the departure of a waiter from a class before, wakes the sleepers.
NoLostWakeup == \A c \in Caller : state[c] = "asleep" => ~CanAcquire(class[c])

\* The callers that run are no more than the permits, but for one interactive
\* request beside one background job on a host with a single permit.
PermitsBounded ==
  LET Number(k) == Cardinality(Running(k)) IN
    /\ \/ Number("interactive") + Number("fast") + Number("background") <= totalLimit
       \/ /\ totalLimit = 1
          /\ Number("interactive") = 1 /\ Number("fast") = 0 /\ Number("background") = 1
    /\ Number("background") <= BackgroundLimit

\* analysis_scheduler.go:36-37: capacity is reserved for latency-sensitive
\* requests, so background work alone never makes an interactive one wait.
InteractiveReserved ==
  \A c \in Caller :
    state[c] = "asleep" /\ class[c] = "interactive" =>
      \E d \in Caller : state[d] = "running" /\ class[d] # "background"

\* analysis_scheduler.go:38: priority is applied whenever a permit is released.
\* No caller starts while one of a class before it waits.
PriorityKept ==
  [][\A c, b \in Caller :
       state[c] # "running" /\ state'[c] = "running" /\ Waiting(b)
         => class[b] \notin Before(class[c])]_schedulerVars

\* A waiter is served, or gives up, once its own class and those before it make
\* no new requests; requests of the classes behind it do not hold it up.
ServedWhenQuiet(k) ==
  <>[][\A c \in Caller, j \in Before(k) \cup {k} : ~Request(c, j)]_schedulerVars
    => \A c \in Caller : (Waiting(c) /\ class[c] = k) ~> ~Waiting(c)

Served == \A k \in Class : ServedWhenQuiet(k)
=============================================================================
