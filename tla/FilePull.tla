------------------------------- MODULE FilePull -------------------------------
(***************************************************************************)
(* internal/filepull: PullContext.  The modules of the workbook are planned *)
(* as source files, the affected files are read into memory, each planned   *)
(* file is published on its own, files without a module are removed, and an *)
(* error on the way puts every affected file back.  A pull takes the source *)
(* lease and not that of the workbook.                                      *)
(***************************************************************************)
EXTENDS FileTransfer

CONSTANT PullLimit    \* bound: pulls

ASSUME PullLimitAssumption == PullLimit \in Nat

Nothing == [f \in Files |-> Absent]
PullIdle == [at |-> "idle", plan |-> Nothing, stale |-> {}, orig |-> Nothing, todo |-> {},
             existed |-> FALSE, errs |-> {}, result |-> "none"]

PullOK ==
  /\ pull.at \in {"idle", "lease", "plan", "snapshot", "stat", "move", "remove", "restore", "remake"}
  /\ {pull.plan, pull.orig} \subseteq Sources
  /\ {pull.stale, pull.todo, pull.errs} \subseteq SUBSET Files
  /\ pull.existed \in BOOLEAN
  /\ pull.result \in {"none", "untouched", "ok", "failed"}

Planned == {f \in Files : pull.plan[f] # Absent}
Affected == Planned \cup pull.stale

First(f) == f \in pull.todo /\ \A g \in pull.todo : f <= g
Last(f) == f \in pull.todo /\ \A g \in pull.todo : g <= f

(***************************************************************************)
(* Faulty variants of the definitions below.  No specification uses them.   *)
(***************************************************************************)
\* TypeOK: an error returns without the deferred release.
PullReturnsHolding(result) ==
  /\ pull' = [PullIdle EXCEPT !.result = result]
  /\ UNCHANGED tree

\* PullDelivers: the originals kept are those of the planned files alone.
PullBreaksForPlanned ==
  /\ pull.at \in {"stat", "move", "remove"} /\ pull.todo # {}
  /\ pull' = [pull EXCEPT !.at = "restore", !.todo = Planned]
  /\ UNCHANGED <<src, wb, state, tree, book, push, used, later>>

-----------------------------------------------------------------------------
\* The deferred release.
PullReturns(result) ==
  /\ pull' = [PullIdle EXCEPT !.result = result]
  /\ tree' = IF tree = "pull" THEN "free" ELSE tree

PullBegins ==
  /\ pull.at = "idle" /\ used.pulls < PullLimit
  /\ used' = [used EXCEPT !.pulls = @ + 1]
  /\ pull' = [PullIdle EXCEPT !.at = "lease"]
  /\ UNCHANGED <<src, wb, state, tree, book, push, later>>

\* acquireSourceTrees, once the roots are free.
PullLeases ==
  /\ pull.at = "lease" /\ tree = "free"
  /\ tree' = "pull"
  /\ pull' = [pull EXCEPT !.at = "plan"]
  /\ UNCHANGED <<src, wb, state, book, push, used, later>>

\* buildPlan: one read of the workbook, then a walk over the source roots.
Plan ==
  /\ pull.at = "plan"
  /\ LET stale == {f \in Files : wb.mods[f] = Absent /\ src[f] # Absent} IN
       pull' = [pull EXCEPT !.at = "snapshot", !.plan = wb.mods, !.stale = stale,
                            !.todo = {f \in Files : wb.mods[f] # Absent} \cup stale]
  /\ later' = {}
  /\ UNCHANGED <<src, wb, state, tree, book, push, used>>

Snapshot(f) ==
  /\ pull.at = "snapshot" /\ First(f)
  /\ pull' = [pull EXCEPT !.orig[f] = src[f], !.todo = @ \ {f}]
  /\ UNCHANGED <<src, wb, state, tree, book, push, used, later>>

WritesBegin ==
  /\ pull.at = "snapshot" /\ pull.todo = {}
  /\ pull' = [pull EXCEPT !.at = "stat", !.todo = Planned]
  /\ UNCHANGED <<src, wb, state, tree, book, push, used, later>>

\* PublishFile, its first half and its last.
Stat(f) ==
  /\ pull.at = "stat" /\ First(f)
  /\ pull' = [pull EXCEPT !.at = "move", !.existed = src[f] # Absent]
  /\ UNCHANGED <<src, wb, state, tree, book, push, used, later>>

Move(f) ==
  /\ pull.at = "move" /\ First(f)
  /\ CanPublish(pull.existed, src[f])
  /\ src' = [src EXCEPT ![f] = pull.plan[f]]
  /\ later' = later \ {f}
  /\ pull' = [pull EXCEPT !.at = "stat", !.existed = FALSE, !.todo = @ \ {f}]
  /\ UNCHANGED <<wb, state, tree, book, push, used>>

RemovalsBegin ==
  /\ pull.at = "stat" /\ pull.todo = {}
  /\ pull' = [pull EXCEPT !.at = "remove", !.todo = pull.stale]
  /\ UNCHANGED <<src, wb, state, tree, book, push, used, later>>

Remove(f) ==
  /\ pull.at = "remove" /\ First(f)
  /\ src' = [src EXCEPT ![f] = Absent]
  /\ later' = later \ {f}
  /\ pull' = [pull EXCEPT !.todo = @ \ {f}]
  /\ UNCHANGED <<wb, state, tree, book, push, used>>

PullEnds ==
  /\ pull.at = "remove" /\ pull.todo = {}
  /\ PullReturns("ok")
  /\ UNCHANGED <<src, wb, state, book, push, used, later>>

\* An error before anything is written.
PullFails ==
  /\ pull.at \in {"lease", "plan", "snapshot"}
  /\ PullReturns("untouched")
  /\ UNCHANGED <<src, wb, state, book, push, used, later>>

\* An error afterwards: rollbackPublish, over all originals, the last one first.
\* Contents only: file modes and created directories are left out.
PullBreaks ==
  /\ pull.at \in {"stat", "move", "remove"} /\ pull.todo # {}
  /\ pull' = [pull EXCEPT !.at = "restore", !.todo = Affected]
  /\ UNCHANGED <<src, wb, state, tree, book, push, used, later>>

\* A file that was not there is removed, whoever may have made it since.
Unmake(f) ==
  /\ pull.at = "restore" /\ Last(f) /\ pull.orig[f] = Absent
  /\ src' = [src EXCEPT ![f] = Absent]
  /\ later' = later \ {f}
  /\ pull' = [pull EXCEPT !.todo = @ \ {f}]
  /\ UNCHANGED <<wb, state, tree, book, push, used>>

\* A file that was there is published again with the bytes it had.
Restore(f) ==
  /\ pull.at = "restore" /\ Last(f) /\ pull.orig[f] # Absent
  /\ pull' = [pull EXCEPT !.at = "remake", !.existed = src[f] # Absent]
  /\ UNCHANGED <<src, wb, state, tree, book, push, used, later>>

Remake(f) ==
  /\ pull.at = "remake" /\ Last(f)
  /\ CanPublish(pull.existed, src[f])
  /\ src' = [src EXCEPT ![f] = pull.orig[f]]
  /\ later' = later \ {f}
  /\ pull' = [pull EXCEPT !.at = "restore", !.existed = FALSE, !.todo = @ \ {f}]
  /\ UNCHANGED <<wb, state, tree, book, push, used>>

\* The error is noted and the rollback goes on.
RestoreFails(f) ==
  /\ pull.at \in {"restore", "remake"} /\ Last(f)
  /\ pull' = [pull EXCEPT !.at = "restore", !.existed = FALSE, !.todo = @ \ {f}, !.errs = @ \cup {f}]
  /\ UNCHANGED <<src, wb, state, tree, book, push, used, later>>

RollbackEnds ==
  /\ pull.at = "restore" /\ pull.todo = {}
  /\ PullReturns("failed")
  /\ UNCHANGED <<src, wb, state, book, push, used, later>>

\* What was written stays written.
PullCrashes ==
  /\ pull.at # "idle"
  /\ PullReturns("none")
  /\ UNCHANGED <<src, wb, state, book, push, used, later>>

PullStep ==
  \/ PullBegins \/ PullLeases \/ Plan \/ WritesBegin \/ RemovalsBegin \/ PullEnds
  \/ PullFails \/ PullBreaks \/ RollbackEnds \/ PullCrashes
  \/ \E f \in Files :
       Snapshot(f) \/ Stat(f) \/ Move(f) \/ Remove(f) \/ Unmake(f) \/ Restore(f)
         \/ Remake(f) \/ RestoreFails(f)
=============================================================================
