--------------------------- MODULE SourceEditBatch ---------------------------
(***************************************************************************)
(* internal/sourceedit/batch.go: ApplyBatch, which edits several source     *)
(* files or none.  It writes a backup and a replacement beside every        *)
(* changed file, renames the replacements over the files one by one, and    *)
(* renames the backups back in reverse order if one of them fails.          *)
(*                                                                          *)
(* One call runs, a system call or one verifyCurrent at a time, beside      *)
(* other programs that edit the files and meddle with the temporary files.  *)
(* A path is a state: what verifyCurrent would see there.  The snapshots'   *)
(* mutexes are held throughout, so a second batch on them does not run.     *)
(***************************************************************************)
EXTENDS Integers

CONSTANTS
  FileCount,      \* the changes of the batch
  MeddleLimit     \* bound on what other programs do

ASSUME FileCountAssumption == FileCount \in Nat \ {0}
ASSUME MeddleLimitAssumption == MeddleLimit \in Nat

File == 1..FileCount

\* A source file is as captured, as this batch published it, or something else.
Content == {"orig", "new", "foreign"}
\* A temporary file the batch knows of: intact, altered, or not there any more.
Temp == {"none", "good", "spoiled", "gone"}
TempKind == {"backup", "staged"}
\* Where a temporary file was left: beside the target, in the temporary
\* directory of the system, or unfinished in either.
Left == File \X {"backup", "staged", "copy", "partialBackup", "partialStaged", "partialCopy"}
NoLeft == <<0, "none">>

FileState == {"not_applied", "unchanged", "applied", "restored", "recovery_required"}

Label == {"check", "classify", "stageBackup", "stageNew", "recheck",
          "pubSource", "pubStaged", "pubBackup", "replace",
          "rbBackup", "rbTarget", "restore", "rbAgain", "rbCopy",
          "cleanStaged", "cleanBackup", "done"}

VARIABLES
  target,         \* the source files
  temp,           \* the temporary file of each kind beside each of them
  changed,        \* the files whose replacement differs from the original
  published,      \* item.published # nil
  result,         \* result.Files[f].State
  recoveryPath,   \* result.Files[f].RecoveryPath
  artifacts,      \* result.Artifacts
  committed,      \* result.Committed
  unfinished,     \* unfinished temporary files left on disk
  incomplete,     \* the first incompleteStageError in the error tree
  pc, at,         \* where the call is, and at which file
  backupOk,       \* backupErr == nil in rollbackBatch
  canceled,       \* the context has ended
  meddled,        \* what other programs have done so far
  raced           \* paths changed by others since the last check of them

files == <<target, temp>>
outcome == <<result, recoveryPath, artifacts, committed>>
errs == <<unfinished, incomplete>>
env == <<canceled, meddled>>
vars == <<files, changed, published, outcome, errs, pc, at, backupOk, env, raced>>

TypeOK ==
  /\ target \in [File -> Content]
  /\ temp \in [TempKind -> [File -> Temp]]
  /\ changed \in SUBSET File
  /\ published \in SUBSET File
  /\ result \in [File -> FileState]
  /\ recoveryPath \in [File -> {"none", "backup", "copy"}]
  /\ artifacts \in SUBSET Left
  /\ committed \in BOOLEAN
  /\ unfinished \in SUBSET Left
  /\ incomplete \in Left \cup {NoLeft}
  /\ pc \in Label
  /\ at \in 0..(FileCount + 1)
  /\ backupOk \in BOOLEAN
  /\ canceled \in BOOLEAN
  /\ meddled \in 0..MeddleLimit
  /\ raced \in SUBSET (File \X {"target", "backup", "staged"})

Init ==
  /\ target = [f \in File |-> "orig"]
  /\ temp = [k \in TempKind |-> [f \in File |-> "none"]]
  /\ changed \in SUBSET File
  /\ published = {}
  /\ result = [f \in File |-> "not_applied"]
  /\ recoveryPath = [f \in File |-> "none"]
  /\ artifacts = {} /\ committed = FALSE
  /\ unfinished = {} /\ incomplete = NoLeft
  /\ pc = "check" /\ at = 1
  /\ backupOk = TRUE
  /\ canceled = FALSE /\ meddled = 0
  /\ raced = {}

-----------------------------------------------------------------------------
GoTo(label, f) == pc' = label /\ at' = f

\* The call fails and goes on to the deferred cleanup, or to the rollback.
Abandon == GoTo("cleanStaged", 1)
RollBack == GoTo("rbBackup", FileCount)

\* verifyCurrent passes on a path.
Intact(what) ==
  IF what = "target" THEN target[at] = "orig" ELSE temp[what][at] = "good"
Checked(what) == raced' = raced \ {<<at, what>>}

(***************************************************************************)
(* Faulty variants of the definitions below.  No specification uses them;   *)
(* each stands for a bug the property named with it must catch.             *)
(***************************************************************************)
\* StatesAreTrue: a publication that fails leaves the earlier ones in place.
PublishFailsForward ==
  /\ pc \in {"pubSource", "pubStaged", "pubBackup", "replace"} /\ at \in changed
  /\ Abandon
  /\ UNCHANGED <<files, changed, published, outcome, errs, backupOk, env, raced>>

\* TypeOK: the rollback runs past the first file.
RollbackSkipsTooFar ==
  /\ pc = "rbBackup" /\ at \notin published
  /\ IF at < 0 THEN Abandon ELSE GoTo("rbBackup", at - 1)
  /\ UNCHANGED <<files, changed, published, outcome, errs, backupOk, env, raced>>

\* ForeignEditsSurvive: the rollback looks at its backup only.
CheckPublishedNot ==
  /\ pc = "rbTarget"
  /\ IF backupOk THEN GoTo("restore", at) ELSE GoTo("rbAgain", at)
  /\ UNCHANGED <<files, changed, published, outcome, errs, backupOk, env, raced>>

\* RecoveryIsUsable: the backup is offered as it was before the restoration.
OfferBackupUnchecked ==
  /\ pc = "rbAgain"
  /\ backupOk
  /\ result' = [result EXCEPT ![at] = "recovery_required"]
  /\ recoveryPath' = [recoveryPath EXCEPT ![at] = "backup"]
  /\ GoTo("rbBackup", at - 1)
  /\ UNCHANGED <<files, changed, published, artifacts, committed, errs, backupOk, env, raced>>

\* LeftoversListed: only what is wanted for recovery is reported.
CleanKeepSilently ==
  /\ pc \in {"cleanStaged", "cleanBackup"} /\ at \in File
  /\ LET kind == IF pc = "cleanStaged" THEN "staged" ELSE "backup" IN
       /\ temp[kind][at] \in {"good", "spoiled"}
       /\ artifacts' = IF kind = "backup" /\ recoveryPath[at] = "backup"
                         THEN artifacts \cup {<<at, kind>>} ELSE artifacts
  /\ IF pc = "cleanStaged" THEN GoTo("cleanBackup", at) ELSE GoTo("cleanStaged", at + 1)
  /\ UNCHANGED <<files, changed, published, result, recoveryPath, committed, errs, backupOk, env, raced>>

-----------------------------------------------------------------------------

\* An incompleteStageError joins the error: errors.AsType finds the first only.
LeaveUnfinished(left) ==
  /\ unfinished' = unfinished \cup {left}
  /\ incomplete' = IF incomplete = NoLeft THEN left ELSE incomplete

(***************************************************************************)
(* verifyBatch, before and after staging: every file, changed or not.       *)
(***************************************************************************)
VerifyOne ==
  /\ pc \in {"check", "recheck"}
  /\ at \in File /\ ~canceled
  /\ Intact("target")
  /\ Checked("target")
  /\ GoTo(pc, at + 1)
  /\ UNCHANGED <<files, changed, published, outcome, errs, backupOk, env>>

VerifyEnds ==
  /\ pc \in {"check", "recheck"}
  /\ at \notin File /\ ~canceled
  /\ IF pc = "check" THEN GoTo("classify", 1) ELSE GoTo("pubSource", 1)
  /\ UNCHANGED <<files, changed, published, outcome, errs, backupOk, env, raced>>

\* The context ended, the file changed, or it cannot be read.
VerifyFails ==
  /\ pc \in {"check", "recheck"}
  /\ canceled \/ at \in File
  /\ Abandon
  /\ UNCHANGED <<files, changed, published, outcome, errs, backupOk, env, raced>>

\* Files without changes are marked; the first read-only file that has any
\* ends the call.
Classify ==
  /\ pc = "classify"
  /\ \E readOnly \in SUBSET changed :
       /\ result' = [f \in File |->
                       IF f \notin changed /\ \A r \in readOnly : f < r
                         THEN "unchanged" ELSE result[f]]
       /\ IF readOnly = {} THEN GoTo("stageBackup", 1) ELSE Abandon
  /\ UNCHANGED <<files, changed, published, recoveryPath, artifacts, committed, errs, backupOk, env, raced>>

(***************************************************************************)
(* Staging: the backup of each changed file, then its replacement.          *)
(***************************************************************************)
Staging == {"stageBackup", "stageNew"}
KindOf(label) == IF label = "stageBackup" THEN "backup" ELSE "staged"

Stage ==
  /\ pc \in Staging
  /\ at \in changed /\ ~canceled
  /\ Intact("target")
  /\ temp' = [temp EXCEPT ![KindOf(pc)][at] = "good"]
  /\ raced' = raced \ {<<at, "target">>, <<at, KindOf(pc)>>}
  /\ IF pc = "stageBackup" THEN GoTo("stageNew", at) ELSE GoTo("stageBackup", at + 1)
  /\ UNCHANGED <<target, changed, published, outcome, errs, backupOk, env>>

\* stageBatchFile fails; its temporary file may resist removal.
StageFails ==
  /\ pc \in Staging
  /\ at \in changed
  /\ \/ UNCHANGED errs
     \/ LeaveUnfinished(<<at, IF pc = "stageBackup" THEN "partialBackup" ELSE "partialStaged">>)
  /\ Abandon
  /\ UNCHANGED <<files, changed, published, outcome, backupOk, env, raced>>

\* The loops over the items pass over files without changes.
Skip ==
  /\ \/ pc = "stageBackup" /\ IF at \in File THEN GoTo(pc, at + 1) ELSE GoTo("recheck", 1)
     \/ pc = "pubSource" /\ at \in File /\ GoTo(pc, at + 1)
  /\ at \notin changed
  /\ UNCHANGED <<files, changed, published, outcome, errs, backupOk, env, raced>>

(***************************************************************************)
(* publishBatchItem: source, replacement and backup are checked, then the   *)
(* replacement is renamed over the source.                                  *)
(***************************************************************************)
Publishing == {"pubSource", "pubStaged", "pubBackup"}
Subject(label) ==
  CASE label = "pubSource" -> "target" [] label = "pubStaged" -> "staged" [] OTHER -> "backup"
NextLabel(label) ==
  CASE label = "pubSource" -> "pubStaged" [] label = "pubStaged" -> "pubBackup" [] OTHER -> "replace"

PublishCheck ==
  /\ pc \in Publishing /\ at \in changed
  /\ pc = "pubSource" => ~canceled
  /\ Intact(Subject(pc))
  /\ Checked(Subject(pc))
  /\ GoTo(NextLabel(pc), at)
  /\ UNCHANGED <<files, changed, published, outcome, errs, backupOk, env>>

\* A check, the context or the rename fails.
PublishFails ==
  /\ pc \in Publishing \cup {"replace"} /\ at \in changed
  /\ RollBack
  /\ UNCHANGED <<files, changed, published, outcome, errs, backupOk, env, raced>>

\* The rename takes the replacement as it is by now.
Replace ==
  /\ pc = "replace" /\ ~canceled
  /\ temp["staged"][at] \in {"good", "spoiled"}
  /\ target' = [target EXCEPT ![at] = IF temp["staged"][at] = "good" THEN "new" ELSE "foreign"]
  /\ temp' = [temp EXCEPT !["staged"][at] = "none"]
  /\ published' = published \cup {at}
  /\ result' = [result EXCEPT ![at] = "applied"]
  /\ GoTo("pubSource", at + 1)
  /\ UNCHANGED <<changed, recoveryPath, artifacts, committed, errs, backupOk, env, raced>>

Commit ==
  /\ pc = "pubSource" /\ at \notin File
  /\ committed' = TRUE
  /\ Abandon
  /\ UNCHANGED <<files, changed, published, result, recoveryPath, artifacts, errs, backupOk, env, raced>>

(***************************************************************************)
(* rollbackBatch: the published files, the last first.  Cancellation does   *)
(* not count any more.                                                      *)
(***************************************************************************)
RollbackSkips ==
  /\ pc = "rbBackup" /\ at \notin published
  /\ IF at = 0 THEN Abandon ELSE GoTo("rbBackup", at - 1)
  /\ UNCHANGED <<files, changed, published, outcome, errs, backupOk, env, raced>>

\* item.backup.verifyCurrent; it may fail on a backup it cannot read.
CheckBackup ==
  /\ pc = "rbBackup" /\ at \in published
  /\ \/ backupOk' = FALSE /\ UNCHANGED raced
     \/ backupOk' = TRUE /\ Intact("backup") /\ Checked("backup")
  /\ GoTo("rbTarget", at)
  /\ UNCHANGED <<files, changed, published, outcome, errs, env>>

\* item.published.verifyCurrent.
CheckPublished ==
  /\ pc = "rbTarget"
  /\ \/ GoTo("rbAgain", at) /\ UNCHANGED raced
     \/ backupOk /\ target[at] = "new" /\ Checked("target") /\ GoTo("restore", at)
  /\ UNCHANGED <<files, changed, published, outcome, errs, backupOk, env>>

Restore ==
  /\ pc = "restore"
  /\ temp["backup"][at] \in {"good", "spoiled"}
  /\ target' = [target EXCEPT ![at] = IF temp["backup"][at] = "good" THEN "orig" ELSE "foreign"]
  /\ temp' = [temp EXCEPT !["backup"][at] = "none"]
  /\ result' = [result EXCEPT ![at] = "restored"]
  /\ GoTo("rbBackup", at - 1)
  /\ UNCHANGED <<changed, published, recoveryPath, artifacts, committed, errs, backupOk, env, raced>>

\* The rename fails, and may lose or alter the backup.
RestoreFails ==
  /\ pc = "restore"
  /\ \/ UNCHANGED temp
     \/ temp["backup"][at] # "gone"
        /\ \E t \in {"spoiled", "gone"} : temp' = [temp EXCEPT !["backup"][at] = t]
  /\ GoTo("rbAgain", at)
  /\ UNCHANGED <<target, changed, published, outcome, errs, backupOk, env, raced>>

\* The backup is checked again before it is offered for recovery.
OfferBackup ==
  /\ pc = "rbAgain"
  /\ Intact("backup")
  /\ Checked("backup")
  /\ result' = [result EXCEPT ![at] = "recovery_required"]
  /\ recoveryPath' = [recoveryPath EXCEPT ![at] = "backup"]
  /\ GoTo("rbBackup", at - 1)
  /\ UNCHANGED <<files, changed, published, artifacts, committed, errs, backupOk, env>>

\* It is no use, or unreadable: the original bytes in memory are wanted.
DropBackup ==
  /\ pc = "rbAgain"
  /\ result' = [result EXCEPT ![at] = "recovery_required"]
  /\ GoTo("rbCopy", at)
  /\ UNCHANGED <<files, changed, published, recoveryPath, artifacts, committed, errs, backupOk, env, raced>>

\* recoverOriginal writes them to the temporary directory of the system.
CopyOriginal ==
  /\ pc = "rbCopy"
  /\ recoveryPath' = [recoveryPath EXCEPT ![at] = "copy"]
  /\ artifacts' = artifacts \cup {<<at, "copy">>}
  /\ GoTo("rbBackup", at - 1)
  /\ UNCHANGED <<files, changed, published, result, committed, errs, backupOk, env, raced>>

CopyFails ==
  /\ pc = "rbCopy"
  /\ UNCHANGED errs \/ LeaveUnfinished(<<at, "partialCopy">>)
  /\ GoTo("rbBackup", at - 1)
  /\ UNCHANGED <<files, changed, published, outcome, backupOk, env, raced>>

(***************************************************************************)
(* cleanupBatch: the temporary files the batch still knows of.  A check and *)
(* the removal that follows it are one step.                                *)
(***************************************************************************)
Cleaning == {"cleanStaged", "cleanBackup"}
CleanKind == IF pc = "cleanStaged" THEN "staged" ELSE "backup"
CleanNext == IF pc = "cleanStaged" THEN GoTo("cleanBackup", at) ELSE GoTo("cleanStaged", at + 1)
Wanted == CleanKind = "backup" /\ recoveryPath[at] = "backup"

CleanAbsent ==
  /\ pc \in Cleaning /\ at \in File
  /\ temp[CleanKind][at] \in {"none", "gone"}
  /\ CleanNext
  /\ UNCHANGED <<files, changed, published, outcome, errs, backupOk, env, raced>>

CleanRemove ==
  /\ pc \in Cleaning /\ at \in File
  /\ temp[CleanKind][at] = "good" /\ ~Wanted
  /\ temp' = [temp EXCEPT ![CleanKind][at] = "gone"]
  /\ CleanNext
  /\ UNCHANGED <<target, changed, published, outcome, errs, backupOk, env, raced>>

\* It is wanted for recovery, is not ours any more, or cannot be removed.
CleanKeep ==
  /\ pc \in Cleaning /\ at \in File
  /\ temp[CleanKind][at] \in {"good", "spoiled"}
  /\ artifacts' = artifacts \cup {<<at, CleanKind>>}
  /\ CleanNext
  /\ UNCHANGED <<files, changed, published, result, recoveryPath, committed, errs, backupOk, env, raced>>

Finish ==
  /\ pc = "cleanStaged" /\ at \notin File
  /\ artifacts' = IF incomplete = NoLeft THEN artifacts ELSE artifacts \cup {incomplete}
  /\ GoTo("done", at)
  /\ UNCHANGED <<files, changed, published, result, recoveryPath, committed, errs, backupOk, env, raced>>

(***************************************************************************)
(* The surroundings, until the call returns.                                *)
(***************************************************************************)
Cancel ==
  /\ pc # "done" /\ ~canceled
  /\ canceled' = TRUE
  /\ UNCHANGED <<files, changed, published, outcome, errs, pc, at, backupOk, meddled, raced>>

EditTarget(f) ==
  /\ pc # "done" /\ meddled < MeddleLimit
  /\ target' = [target EXCEPT ![f] = "foreign"]
  /\ raced' = raced \cup {<<f, "target">>}
  /\ meddled' = meddled + 1
  /\ UNCHANGED <<temp, changed, published, outcome, errs, pc, at, backupOk, canceled>>

EditTemp(f, k) ==
  /\ pc # "done" /\ meddled < MeddleLimit
  /\ temp[k][f] \in {"good", "spoiled"}
  /\ \E t \in {"spoiled", "gone"} : temp' = [temp EXCEPT ![k][f] = t]
  /\ raced' = raced \cup {<<f, k>>}
  /\ meddled' = meddled + 1
  /\ UNCHANGED <<target, changed, published, outcome, errs, pc, at, backupOk, canceled>>

Call ==
  \/ VerifyOne \/ VerifyEnds \/ VerifyFails \/ Classify
  \/ Stage \/ StageFails \/ Skip
  \/ PublishCheck \/ PublishFails \/ Replace \/ Commit
  \/ RollbackSkips \/ CheckBackup \/ CheckPublished \/ Restore \/ RestoreFails
  \/ OfferBackup \/ DropBackup \/ CopyOriginal \/ CopyFails
  \/ CleanAbsent \/ CleanRemove \/ CleanKeep \/ Finish

Surroundings ==
  \/ Cancel
  \/ \E f \in File : EditTarget(f) \/ \E k \in TempKind : EditTemp(f, k)

Next == Call \/ Surroundings

Spec == Init /\ [][Next]_vars

-----------------------------------------------------------------------------
(***************************************************************************)
(* Properties.                                                              *)
(***************************************************************************)
\* ADR-0077: never knowingly overwrite an external edit.  An edit by another
\* program goes under only if it came after the last check of that file, by a
\* publication and by a restoration alike.
ForeignEditsSurvive ==
  [][\A f \in File :
       target[f] = "foreign" /\ target'[f] # "foreign" => <<f, "target">> \in raced]_vars

\* The states reported tell what became of the files: a file that has the bytes
\* of this batch is applied in a committed batch or needs recovery, whatever
\* failed on the way, and none that was left alone is reported as changed.
StatesAreTrue ==
  pc = "done" =>
    \A f \in File :
      /\ target[f] = "new" =>
           \/ committed /\ result[f] = "applied"
           \/ ~committed /\ result[f] = "recovery_required"
      /\ result[f] = "applied" => committed /\ target[f] # "orig"
      /\ result[f] = "not_applied" => ~committed

\* A backup offered as recovery material has the original bytes, unless another
\* program changed it after the check that chose it, and is still there when
\* the batch has cleaned up.
RecoveryIsUsable ==
  \A f \in File :
    recoveryPath[f] = "backup" => temp["backup"][f] = "good" \/ <<f, "backup">> \in raced

\* The backup of a published file is not given up before the batch commits or
\* has dealt with the file: until then it is intact, or others spoiled it, or
\* the failed restoration of that very file did.
BackupOutlivesPublication ==
  \A f \in published :
    result[f] = "applied" /\ ~committed =>
      \/ temp["backup"][f] = "good"
      \/ <<f, "backup">> \in raced
      \/ at = f /\ pc \in {"rbAgain", "rbCopy"}

\* A temporary file that stays beside a source file is reported.
LeftoversListed ==
  pc = "done" =>
    \A f \in File, k \in TempKind :
      temp[k][f] \in {"good", "spoiled"} => <<f, k>> \in artifacts
=============================================================================
