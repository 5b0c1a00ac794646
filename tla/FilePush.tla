------------------------------- MODULE FilePush -------------------------------
(***************************************************************************)
(* internal/filepush: PushContext, from the first capture of the sources to *)
(* the push state file.  A capture reads file after file; there is one      *)
(* before the leases, one under the source-tree lease and one just before   *)
(* the workbook is replaced, and each must agree with the one before.       *)
(***************************************************************************)
EXTENDS FileTransfer

CONSTANT PushLimit    \* bound: pushes

ASSUME PushLimitAssumption == PushLimit \in Nat

NoSources == [f \in Files |-> Absent]
NoState == [fingerprint |-> NoSources, stamp |-> 0, own |-> TRUE]
\* tree and settled are history: the tree at the end of the second capture, and
\* whether no pull was half-way through it.  stamp is that of the workbook the
\* push put there, seen the one it finds there afterwards.
PushIdle == [at |-> "idle", round |-> 0, prior |-> NoSources, reading |-> NoSources, next |-> 1,
             tree |-> NoSources, settled |-> FALSE, changes |-> 0, stamp |-> 0, seen |-> 0,
             skipped |-> FALSE]

PushOK ==
  /\ push.at \in {"idle", "capture", "lease", "decide", "workbook", "template", "backup",
                  "publish", "stamp", "record"}
  /\ push.round \in 0..3 /\ push.next \in 1..(FileCount + 1)
  /\ {push.prior, push.reading, push.tree, state.fingerprint} \subseteq Sources
  /\ {push.changes, push.stamp, push.seen, state.stamp} \subseteq Nat
  /\ {push.settled, push.skipped, state.own} \subseteq BOOLEAN

Mutating == push.at \in {"template", "backup", "publish", "stamp", "record"}
PushHoldsTree ==
  \/ Mutating \/ push.at \in {"decide", "workbook"}
  \/ push.at = "capture" /\ push.round > 1
PushHoldsWorkbook ==
  \/ Mutating
  \/ push.at = "capture" /\ push.round = 3

(***************************************************************************)
(* Faulty variants of the definitions below.  No specification uses them.   *)
(***************************************************************************)
\* SkipIsTrue: the file stamp is not compared.
CoveredBySources == state.fingerprint = push.prior

\* PublishesSettledTree: the capture before the replacement is not compared.
UnchangedOnce == push.round # 2 \/ push.reading = push.prior

\* CommandsSurvive: a workbook lease that is busy is done without.
PushTakesWorkbookAnyway ==
  /\ push.at = "workbook"
  /\ book' = IF book = "free" THEN "push" ELSE book
  /\ push' = [push EXCEPT !.at = "template"]
  /\ UNCHANGED <<src, wb, state, tree, pull, used, later>>

-----------------------------------------------------------------------------
\* The deferred releases.
PushReturns(skipped) ==
  /\ push' = [PushIdle EXCEPT !.skipped = skipped]
  /\ tree' = IF tree = "push" THEN "free" ELSE tree
  /\ book' = IF book = "push" THEN "free" ELSE book

PushBegins ==
  /\ push.at = "idle" /\ used.pushes < PushLimit
  /\ used' = [used EXCEPT !.pushes = @ + 1]
  /\ push' = [PushIdle EXCEPT !.at = "capture", !.round = 1]
  /\ UNCHANGED <<src, wb, state, tree, book, pull, later>>

\* captureSourceSnapshot: one file, with its bytes.
CaptureFile ==
  /\ push.at = "capture" /\ push.next \in Files
  /\ push' = [push EXCEPT !.reading[push.next] = src[push.next], !.next = @ + 1]
  /\ UNCHANGED <<src, wb, state, tree, book, pull, used, later>>

\* fingerprintEquals, after the second capture and the third.
Unchanged == push.round = 1 \/ push.reading = push.prior

CaptureEnds ==
  /\ push.at = "capture" /\ push.next > FileCount
  /\ Unchanged
  /\ push' = [push EXCEPT
       !.prior = IF push.round = 3 THEN @ ELSE push.reading,
       !.reading = NoSources, !.next = 1,
       !.tree = IF push.round = 2 THEN src ELSE @,
       !.settled = IF push.round = 2 THEN ~HalfPulled ELSE @,
       !.at = CASE push.round = 1 -> "lease" [] push.round = 2 -> "decide" [] OTHER -> "backup"]
  /\ UNCHANGED <<src, wb, state, tree, book, pull, used, later>>

\* acquireSourceTrees, once the roots are free.
PushLeases ==
  /\ push.at = "lease" /\ tree = "free"
  /\ tree' = "push"
  /\ push' = [push EXCEPT !.at = "capture", !.round = 2]
  /\ UNCHANGED <<src, wb, state, book, pull, used, later>>

\* shouldSkipUnchanged.
Covered == state.fingerprint = push.prior /\ state.stamp = wb.stamp

Skip ==
  /\ push.at = "decide" /\ Covered
  /\ PushReturns(TRUE)
  /\ UNCHANGED <<src, wb, state, pull, used, later>>

\* Without --changed-only this happens to a covered workbook too.
GoOn ==
  /\ push.at = "decide"
  /\ push' = [push EXCEPT !.at = "workbook"]
  /\ UNCHANGED <<src, wb, state, tree, book, pull, used, later>>

\* The workbook lease is never waited for.
PushTakesWorkbook ==
  /\ push.at = "workbook" /\ book = "free"
  /\ book' = "push"
  /\ push' = [push EXCEPT !.at = "template"]
  /\ UNCHANGED <<src, wb, state, tree, pull, used, later>>

\* The parts of the workbook that stay, and the build; then the third capture.
ReadTemplate ==
  /\ push.at = "template"
  /\ push' = [push EXCEPT !.changes = wb.changes, !.at = "capture", !.round = 3]
  /\ UNCHANGED <<src, wb, state, tree, book, pull, used, later>>

\* CreateForBackend, or --backup never.
Backup ==
  /\ push.at = "backup"
  /\ push' = [push EXCEPT !.at = "publish"]
  /\ UNCHANGED <<src, wb, state, tree, book, pull, used, later>>

\* PublishFile, over the workbook that is there.
PublishWorkbook ==
  /\ push.at = "publish"
  /\ wb' = [mods |-> push.prior, changes |-> push.changes, stamp |-> wb.stamp + 1]
  /\ push' = [push EXCEPT !.stamp = wb.stamp + 1, !.at = "stamp"]
  /\ UNCHANGED <<src, state, tree, book, pull, used, later>>

\* buildFilePushAppliedTo: the stamp of the file that is there by now.
ReadStamp ==
  /\ push.at = "stamp"
  /\ push' = [push EXCEPT !.seen = wb.stamp, !.at = "record"]
  /\ UNCHANGED <<src, wb, state, tree, book, pull, used, later>>

\* writePushState; its failure is a warning.
WriteState ==
  /\ push.at = "record"
  /\ state' \in {state, [fingerprint |-> push.prior, stamp |-> push.seen,
                         own |-> push.seen = push.stamp]}
  /\ PushReturns(FALSE)
  /\ UNCHANGED <<src, wb, pull, used, later>>

\* Any error: unreadable or changed sources, a busy lease, the guard, the
\* recovery marker, the build, the backup, the publication.
PushFails ==
  /\ push.at \in {"capture", "lease", "decide", "workbook", "template", "backup", "publish"}
  /\ PushReturns(FALSE)
  /\ UNCHANGED <<src, wb, state, pull, used, later>>

PushCrashes ==
  /\ push.at # "idle"
  /\ PushReturns(FALSE)
  /\ UNCHANGED <<src, wb, state, pull, used, later>>

PushStep ==
  \/ PushBegins \/ CaptureFile \/ CaptureEnds \/ PushLeases \/ Skip \/ GoOn
  \/ PushTakesWorkbook \/ ReadTemplate \/ Backup \/ PublishWorkbook \/ ReadStamp
  \/ WriteState \/ PushFails \/ PushCrashes
=============================================================================
