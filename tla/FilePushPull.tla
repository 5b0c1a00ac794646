----------------------------- MODULE FilePushPull -----------------------------
(***************************************************************************)
(* File push and file pull of one project, side by side, with the editors   *)
(* and commands around them.                                                *)
(***************************************************************************)
EXTENDS FilePush, FilePull

Init ==
  /\ src \in [Files -> {Absent, 1}]
  /\ wb \in [mods : [Files -> {Absent, 1}], changes : {0}, stamp : {1}]
  /\ state = NoState
  /\ tree = "free" /\ book = "free"
  /\ push = PushIdle /\ pull = PullIdle
  /\ used = [edits |-> 0, saves |-> 0, commands |-> 0, pushes |-> 0, pulls |-> 0]
  /\ later = {}

Next ==
  \/ PushStep \/ PullStep
  \/ CommandBegins \/ CommandEnds
  \/ \E f \in Files : Edit(f) \/ Save(f)

Spec == Init /\ [][Next]_vars

\* Every lease is held by whoever is between its acquisition and its return.
TypeOK ==
  /\ src \in Sources /\ wb.mods \in Sources
  /\ PushOK /\ PullOK
  /\ later \subseteq Files
  /\ tree = "push" <=> PushHoldsTree
  /\ tree = "pull" <=> pull.at \notin {"idle", "lease"}
  /\ book = "push" <=> PushHoldsWorkbook

-----------------------------------------------------------------------------
\* What a push delivers is the tree as it stood, all of it at one moment, under
\* the lease; and not a tree that a pull had written to in part.  The three
\* captures, which read one file after the other, and the lease have to work
\* together for this (filepush.go:114-213).
PublishesSettledTree ==
  [][push.at = "publish" /\ push'.at = "stamp" =>
       /\ wb'.mods = push.tree
       /\ push.settled]_vars

\* A push that skips is right to: the workbook has the modules that were
\* captured.  Only a program that saved the workbook between the replacement and
\* the reading of its stamp can make the state file claim more (fingerprint.go:279).
SkipIsTrue ==
  [][push'.skipped /\ ~push.skipped /\ state.own => wb.mods = push.prior]_vars

\* A push replaces the whole workbook by one built from what it read before; no
\* change another command made under the workbook lease goes under in this way.
CommandsSurvive ==
  [][push.at = "publish" /\ push'.at = "stamp" => wb'.changes = wb.changes]_vars

\* A pull that succeeds leaves the modules of one saved workbook in the tree; one
\* that fails after it began to write leaves every affected file as it was, but
\* for the files whose restoration it reports as failed.  In both cases a file
\* may be what another program made of it after the pull's last write.
PullDelivers ==
  [][pull.at # "idle" /\ pull'.at = "idle" =>
       /\ pull'.result = "ok" =>
            \A f \in Files \ later : src[f] = pull.plan[f]
       /\ pull'.result = "failed" =>
            \A f \in Affected \ (pull.errs \cup later) : src[f] = pull.orig[f]]_vars
=============================================================================
