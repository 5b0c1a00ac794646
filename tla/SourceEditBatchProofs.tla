----------------------- MODULE SourceEditBatchProofs -----------------------
(***************************************************************************)
(* Proofs about SourceEditBatch, for every number of files and any number   *)
(* of interventions by other programs.                                      *)
(***************************************************************************)
EXTENDS SourceEditBatch, TLAPS


-----------------------------------------------------------------------------
(***************************************************************************)
(* Where the call stands.                                                   *)
(***************************************************************************)
Early == {"check", "classify", "stageBackup", "stageNew", "recheck"}
Publish == {"pubSource", "pubStaged", "pubBackup", "replace"}
Rollback == {"rbBackup", "rbTarget", "restore", "rbAgain", "rbCopy"}
Last == {"cleanStaged", "cleanBackup", "done"}

\* The part of the call a label belongs to, and how far its loop has come.
Position ==
  /\ pc \in Early \cup Publish => at \in 1..(FileCount + 1)
  /\ pc \in {"stageNew", "pubStaged", "pubBackup", "replace"} => at \in changed
  /\ pc \in Rollback => at \in 0..FileCount
  /\ pc \in Rollback \ {"rbBackup"} => at \in published
  /\ pc \in Last => at \in 1..(FileCount + 1)
  /\ pc = "cleanBackup" => at \in File
  /\ pc = "done" => at = FileCount + 1

\* Every step keeps every variable in its type.
LEMMA TypePreserved ==
  TypeOK /\ Position /\ [Next]_vars => TypeOK'
<1> SUFFICES ASSUME TypeOK, Position, [Next]_vars PROVE TypeOK'
  OBVIOUS
<1> USE FileCountAssumption, MeddleLimitAssumption DEF TypeOK, File, Label,
        FileState, Temp, TempKind, Content, Left, NoLeft, Position, Early, Publish,
        Rollback, Last, files, outcome, errs, env, GoTo, Abandon, RollBack
<1>1. CASE VerifyOne
  BY <1>1 DEF VerifyOne, Intact, Checked
<1>2. CASE VerifyEnds
  BY <1>2 DEF VerifyEnds
<1>3. CASE VerifyFails
  BY <1>3 DEF VerifyFails
<1>4. CASE Classify
  BY <1>4 DEF Classify
<1>5. CASE Stage
  BY <1>5 DEF Stage, Staging, KindOf, Intact
<1>6. CASE StageFails
  BY <1>6 DEF StageFails, Staging, LeaveUnfinished
<1>7. CASE Skip
  BY <1>7 DEF Skip
<1>8. CASE PublishCheck
  BY <1>8 DEF PublishCheck, Publishing, Subject, NextLabel, Intact, Checked
<1>9. CASE PublishFails
  BY <1>9 DEF PublishFails, Publishing
<1>10. CASE Replace
  BY <1>10 DEF Replace
<1>11. CASE Commit
  BY <1>11 DEF Commit
<1>12. CASE RollbackSkips
  BY <1>12 DEF RollbackSkips
<1>13. CASE CheckBackup
  BY <1>13 DEF CheckBackup, Intact, Checked
<1>14. CASE CheckPublished
  BY <1>14 DEF CheckPublished, Checked
<1>15. CASE Restore
  BY <1>15 DEF Restore
<1>16. CASE RestoreFails
  <2>1. at \in File
    BY <1>16 DEF RestoreFails
  <2>2. ASSUME NEW t \in {"spoiled", "gone"}
        PROVE  [temp EXCEPT !["backup"][at] = t] \in [TempKind -> [File -> Temp]]
    BY <2>1
  <2>a. \/ temp' = temp
        \/ \E t \in {"spoiled", "gone"} : temp' = [temp EXCEPT !["backup"][at] = t]
    BY <1>16 DEF RestoreFails
  <2>3. temp' \in [TempKind -> [File -> Temp]]
    <3>1. CASE temp' = temp
      BY <3>1
    <3>2. CASE temp' # temp
      <4>1. PICK t \in {"spoiled", "gone"} : temp' = [temp EXCEPT !["backup"][at] = t]
        BY <2>a, <3>2
      <4>2. QED
        BY <2>2, <4>1
    <3>3. QED
      BY <3>1, <3>2
  <2>4. QED
    BY <1>16, <2>3 DEF RestoreFails
<1>17. CASE OfferBackup
  BY <1>17 DEF OfferBackup, Intact, Checked
<1>18. CASE DropBackup
  BY <1>18 DEF DropBackup
<1>19. CASE CopyOriginal
  BY <1>19 DEF CopyOriginal
<1>20. CASE CopyFails
  BY <1>20 DEF CopyFails, LeaveUnfinished
<1>21. CASE CleanAbsent
  BY <1>21 DEF CleanAbsent, Cleaning, CleanKind, CleanNext
<1>22. CASE CleanRemove
  BY <1>22 DEF CleanRemove, Cleaning, CleanKind, CleanNext, Wanted
<1>23. CASE CleanKeep
  BY <1>23 DEF CleanKeep, Cleaning, CleanKind, CleanNext
<1>24. CASE Finish
  BY <1>24 DEF Finish
<1>25. CASE Cancel
  BY <1>25 DEF Cancel
<1>26. ASSUME NEW f \in File, EditTarget(f) PROVE TypeOK'
  BY <1>26 DEF EditTarget
<1>27. ASSUME NEW f \in File, NEW k \in TempKind, EditTemp(f, k) PROVE TypeOK'
  BY <1>27 DEF EditTemp
<1>28. CASE UNCHANGED vars
  BY <1>28 DEF vars
<1> HIDE DEF TypeOK
<1>29. QED
  BY <1>1, <1>2, <1>3, <1>4, <1>5, <1>6, <1>7, <1>8, <1>9, <1>10, <1>11,
     <1>12, <1>13, <1>14, <1>15, <1>16, <1>17, <1>18, <1>19, <1>20, <1>21,
     <1>22, <1>23, <1>24, <1>25, <1>26, <1>27, <1>28
  DEF Next, Call, Surroundings
\* Every loop runs over the files and ends past the last, or before the first.
LEMMA PositionPreserved ==
  TypeOK /\ Position /\ [Next]_vars => Position'
<1> SUFFICES ASSUME TypeOK, Position, [Next]_vars PROVE Position'
  OBVIOUS
<1> USE FileCountAssumption, MeddleLimitAssumption DEF TypeOK, File, Label,
        FileState, Temp, TempKind, Content, Position, Early, Publish, Rollback,
        Last, files, outcome, errs, env, GoTo, Abandon, RollBack
<1>1. CASE VerifyOne
  BY <1>1 DEF VerifyOne, Intact, Checked
<1>2. CASE VerifyEnds
  BY <1>2 DEF VerifyEnds
<1>3. CASE VerifyFails
  BY <1>3 DEF VerifyFails
<1>4. CASE Classify
  BY <1>4 DEF Classify
<1>5. CASE Stage
  BY <1>5 DEF Stage, Staging, KindOf, Intact
<1>6. CASE StageFails
  BY <1>6 DEF StageFails, Staging, LeaveUnfinished
<1>7. CASE Skip
  BY <1>7 DEF Skip
<1>8. CASE PublishCheck
  BY <1>8 DEF PublishCheck, Publishing, Subject, NextLabel, Intact, Checked
<1>9. CASE PublishFails
  BY <1>9 DEF PublishFails, Publishing
<1>10. CASE Replace
  BY <1>10 DEF Replace
<1>11. CASE Commit
  BY <1>11 DEF Commit
<1>12. CASE RollbackSkips
  BY <1>12 DEF RollbackSkips
<1>13. CASE CheckBackup
  BY <1>13 DEF CheckBackup, Intact, Checked
<1>14. CASE CheckPublished
  BY <1>14 DEF CheckPublished, Checked
<1>15. CASE Restore
  BY <1>15 DEF Restore
<1>16. CASE RestoreFails
  BY <1>16 DEF RestoreFails
<1>17. CASE OfferBackup
  BY <1>17 DEF OfferBackup, Intact, Checked
<1>18. CASE DropBackup
  BY <1>18 DEF DropBackup
<1>19. CASE CopyOriginal
  BY <1>19 DEF CopyOriginal
<1>20. CASE CopyFails
  BY <1>20 DEF CopyFails, LeaveUnfinished
<1>21. CASE CleanAbsent
  BY <1>21 DEF CleanAbsent, Cleaning, CleanKind, CleanNext
<1>22. CASE CleanRemove
  BY <1>22 DEF CleanRemove, Cleaning, CleanKind, CleanNext, Wanted
<1>23. CASE CleanKeep
  BY <1>23 DEF CleanKeep, Cleaning, CleanKind, CleanNext
<1>24. CASE Finish
  BY <1>24 DEF Finish
<1>25. CASE Cancel
  BY <1>25 DEF Cancel
<1>26. ASSUME NEW f \in File, EditTarget(f) PROVE Position'
  BY <1>26 DEF EditTarget
<1>27. ASSUME NEW f \in File, NEW k \in TempKind, EditTemp(f, k) PROVE Position'
  BY <1>27 DEF EditTemp
<1>28. CASE UNCHANGED vars
  BY <1>28 DEF vars
<1> HIDE DEF Position
<1>29. QED
  BY <1>1, <1>2, <1>3, <1>4, <1>5, <1>6, <1>7, <1>8, <1>9, <1>10, <1>11,
     <1>12, <1>13, <1>14, <1>15, <1>16, <1>17, <1>18, <1>19, <1>20, <1>21,
     <1>22, <1>23, <1>24, <1>25, <1>26, <1>27, <1>28
  DEF Next, Call, Surroundings

\* What is reported of a file, by the part of the call: nothing is published
\* before the publication, files before its place are applied, and the rollback
\* has dealt with those behind its place.
Progress ==
  /\ published \subseteq changed
  /\ pc \in Early => published = {}
  /\ pc \in Publish => \A f \in changed : f \in published <=> f < at
  /\ \A f \in File : result[f] = "applied" => f \in published
  /\ pc \in Early \cup Publish =>
       \A f \in File : result[f] \notin {"restored", "recovery_required"}
  /\ pc \in Publish => \A f \in published : result[f] = "applied"
  /\ pc \in {"stageBackup", "stageNew", "recheck"} \cup Publish =>
       \A f \in File \ changed : result[f] = "unchanged"
  /\ pc \in Rollback => \A f \in File : result[f] = "applied" => f <= at
  /\ pc = "rbCopy" => result[at] # "applied"
  /\ committed => pc \in Last /\ \A f \in File : result[f] \in {"applied", "unchanged"}
  /\ pc \in Last /\ ~committed => \A f \in File : result[f] # "applied"

\* batch.go:196-211, 297-338: publication goes forward and rollback backward
\* over the same files.
LEMMA ProgressPreserved ==
  TypeOK /\ Position /\ Progress /\ [Next]_vars => Progress'
<1> SUFFICES ASSUME TypeOK, Position, Progress, [Next]_vars PROVE Progress'
  OBVIOUS
<1> USE FileCountAssumption, MeddleLimitAssumption DEF TypeOK, File, Label,
        FileState, Temp, TempKind, Content, Position, Progress, Early, Publish,
        Rollback, Last, files, outcome, errs, env, GoTo, Abandon, RollBack
<1>1. CASE VerifyOne
  BY <1>1 DEF VerifyOne, Intact, Checked
<1>2. CASE VerifyEnds
  BY <1>2 DEF VerifyEnds
<1>3. CASE VerifyFails
  BY <1>3 DEF VerifyFails
<1>4. CASE Classify
  BY <1>4 DEF Classify
<1>5. CASE Stage
  BY <1>5 DEF Stage, Staging, KindOf, Intact
<1>6. CASE StageFails
  BY <1>6 DEF StageFails, Staging, LeaveUnfinished
<1>7. CASE Skip
  BY <1>7 DEF Skip
<1>8. CASE PublishCheck
  BY <1>8 DEF PublishCheck, Publishing, Subject, NextLabel, Intact, Checked
<1>9. CASE PublishFails
  BY <1>9 DEF PublishFails, Publishing
<1>10. CASE Replace
  BY <1>10 DEF Replace
<1>11. CASE Commit
  BY <1>11 DEF Commit
<1>12. CASE RollbackSkips
  BY <1>12 DEF RollbackSkips
<1>13. CASE CheckBackup
  BY <1>13 DEF CheckBackup, Intact, Checked
<1>14. CASE CheckPublished
  BY <1>14 DEF CheckPublished, Checked
<1>15. CASE Restore
  BY <1>15 DEF Restore
<1>16. CASE RestoreFails
  BY <1>16 DEF RestoreFails
<1>17. CASE OfferBackup
  BY <1>17 DEF OfferBackup, Intact, Checked
<1>18. CASE DropBackup
  BY <1>18 DEF DropBackup
<1>19. CASE CopyOriginal
  BY <1>19 DEF CopyOriginal
<1>20. CASE CopyFails
  BY <1>20 DEF CopyFails, LeaveUnfinished
<1>21. CASE CleanAbsent
  BY <1>21 DEF CleanAbsent, Cleaning, CleanKind, CleanNext
<1>22. CASE CleanRemove
  BY <1>22 DEF CleanRemove, Cleaning, CleanKind, CleanNext, Wanted
<1>23. CASE CleanKeep
  BY <1>23 DEF CleanKeep, Cleaning, CleanKind, CleanNext
<1>24. CASE Finish
  BY <1>24 DEF Finish
<1>25. CASE Cancel
  BY <1>25 DEF Cancel
<1>26. ASSUME NEW f \in File, EditTarget(f) PROVE Progress'
  BY <1>26 DEF EditTarget
<1>27. ASSUME NEW f \in File, NEW k \in TempKind, EditTemp(f, k) PROVE Progress'
  BY <1>27 DEF EditTemp
<1>28. CASE UNCHANGED vars
  BY <1>28 DEF vars
<1> HIDE DEF Progress
<1>29. QED
  BY <1>1, <1>2, <1>3, <1>4, <1>5, <1>6, <1>7, <1>8, <1>9, <1>10, <1>11,
     <1>12, <1>13, <1>14, <1>15, <1>16, <1>17, <1>18, <1>19, <1>20, <1>21,
     <1>22, <1>23, <1>24, <1>25, <1>26, <1>27, <1>28
  DEF Next, Call, Surroundings

\* What is at a source path, next to what is reported of it.
Truth ==
  \A f \in File :
    /\ target[f] = "new" => result[f] \in {"applied", "recovery_required"}
    /\ result[f] = "applied" => target[f] # "orig"

\* A file carries the bytes of the batch only while it is reported so.
LEMMA TruthPreserved ==
  TypeOK /\ Position /\ Progress /\ Truth /\ [Next]_vars => Truth'
<1> SUFFICES ASSUME TypeOK, Position, Progress, Truth, [Next]_vars PROVE Truth'
  OBVIOUS
<1> USE FileCountAssumption, MeddleLimitAssumption DEF TypeOK, File, Label,
        FileState, Temp, TempKind, Content, Position, Progress, Truth, Early,
        Publish, Rollback, Last, files, outcome, errs, env, GoTo, Abandon, RollBack
<1>1. CASE VerifyOne
  BY <1>1 DEF VerifyOne, Intact, Checked
<1>2. CASE VerifyEnds
  BY <1>2 DEF VerifyEnds
<1>3. CASE VerifyFails
  BY <1>3 DEF VerifyFails
<1>4. CASE Classify
  BY <1>4 DEF Classify
<1>5. CASE Stage
  BY <1>5 DEF Stage, Staging, KindOf, Intact
<1>6. CASE StageFails
  BY <1>6 DEF StageFails, Staging, LeaveUnfinished
<1>7. CASE Skip
  BY <1>7 DEF Skip
<1>8. CASE PublishCheck
  BY <1>8 DEF PublishCheck, Publishing, Subject, NextLabel, Intact, Checked
<1>9. CASE PublishFails
  BY <1>9 DEF PublishFails, Publishing
<1>10. CASE Replace
  BY <1>10 DEF Replace
<1>11. CASE Commit
  BY <1>11 DEF Commit
<1>12. CASE RollbackSkips
  BY <1>12 DEF RollbackSkips
<1>13. CASE CheckBackup
  BY <1>13 DEF CheckBackup, Intact, Checked
<1>14. CASE CheckPublished
  BY <1>14 DEF CheckPublished, Checked
<1>15. CASE Restore
  BY <1>15 DEF Restore
<1>16. CASE RestoreFails
  BY <1>16 DEF RestoreFails
<1>17. CASE OfferBackup
  BY <1>17 DEF OfferBackup, Intact, Checked
<1>18. CASE DropBackup
  BY <1>18 DEF DropBackup
<1>19. CASE CopyOriginal
  BY <1>19 DEF CopyOriginal
<1>20. CASE CopyFails
  BY <1>20 DEF CopyFails, LeaveUnfinished
<1>21. CASE CleanAbsent
  BY <1>21 DEF CleanAbsent, Cleaning, CleanKind, CleanNext
<1>22. CASE CleanRemove
  BY <1>22 DEF CleanRemove, Cleaning, CleanKind, CleanNext, Wanted
<1>23. CASE CleanKeep
  BY <1>23 DEF CleanKeep, Cleaning, CleanKind, CleanNext
<1>24. CASE Finish
  BY <1>24 DEF Finish
<1>25. CASE Cancel
  BY <1>25 DEF Cancel
<1>26. ASSUME NEW f \in File, EditTarget(f) PROVE Truth'
  BY <1>26 DEF EditTarget
<1>27. ASSUME NEW f \in File, NEW k \in TempKind, EditTemp(f, k) PROVE Truth'
  BY <1>27 DEF EditTemp
<1>28. CASE UNCHANGED vars
  BY <1>28 DEF vars
<1> HIDE DEF Truth
<1>29. QED
  BY <1>1, <1>2, <1>3, <1>4, <1>5, <1>6, <1>7, <1>8, <1>9, <1>10, <1>11,
     <1>12, <1>13, <1>14, <1>15, <1>16, <1>17, <1>18, <1>19, <1>20, <1>21,
     <1>22, <1>23, <1>24, <1>25, <1>26, <1>27, <1>28
  DEF Next, Call, Surroundings

\* Between a check and the rename that relies on it, a file is as checked or
\* has been changed since by others.
Window ==
  /\ pc \in {"pubStaged", "pubBackup", "replace"} =>
       target[at] = "orig" \/ <<at, "target">> \in raced
  /\ pc = "restore" => target[at] = "new" \/ <<at, "target">> \in raced

\* batch.go:277-289, 305-311: what is checked stays checked until it is renamed
\* over, but for others.
LEMMA WindowPreserved ==
  TypeOK /\ Position /\ Window /\ [Next]_vars => Window'
<1> SUFFICES ASSUME TypeOK, Position, Window, [Next]_vars PROVE Window'
  OBVIOUS
<1> USE FileCountAssumption, MeddleLimitAssumption DEF TypeOK, File, Label,
        FileState, Temp, TempKind, Content, Position, Window, Early, Publish,
        Rollback, Last, files, outcome, errs, env, GoTo, Abandon, RollBack
<1>1. CASE VerifyOne
  BY <1>1 DEF VerifyOne, Intact, Checked
<1>2. CASE VerifyEnds
  BY <1>2 DEF VerifyEnds
<1>3. CASE VerifyFails
  BY <1>3 DEF VerifyFails
<1>4. CASE Classify
  BY <1>4 DEF Classify
<1>5. CASE Stage
  BY <1>5 DEF Stage, Staging, KindOf, Intact
<1>6. CASE StageFails
  BY <1>6 DEF StageFails, Staging, LeaveUnfinished
<1>7. CASE Skip
  BY <1>7 DEF Skip
<1>8. CASE PublishCheck
  BY <1>8 DEF PublishCheck, Publishing, Subject, NextLabel, Intact, Checked
<1>9. CASE PublishFails
  BY <1>9 DEF PublishFails, Publishing
<1>10. CASE Replace
  BY <1>10 DEF Replace
<1>11. CASE Commit
  BY <1>11 DEF Commit
<1>12. CASE RollbackSkips
  BY <1>12 DEF RollbackSkips
<1>13. CASE CheckBackup
  BY <1>13 DEF CheckBackup, Intact, Checked
<1>14. CASE CheckPublished
  BY <1>14 DEF CheckPublished, Checked
<1>15. CASE Restore
  BY <1>15 DEF Restore
<1>16. CASE RestoreFails
  BY <1>16 DEF RestoreFails
<1>17. CASE OfferBackup
  BY <1>17 DEF OfferBackup, Intact, Checked
<1>18. CASE DropBackup
  BY <1>18 DEF DropBackup
<1>19. CASE CopyOriginal
  BY <1>19 DEF CopyOriginal
<1>20. CASE CopyFails
  BY <1>20 DEF CopyFails, LeaveUnfinished
<1>21. CASE CleanAbsent
  BY <1>21 DEF CleanAbsent, Cleaning, CleanKind, CleanNext
<1>22. CASE CleanRemove
  BY <1>22 DEF CleanRemove, Cleaning, CleanKind, CleanNext, Wanted
<1>23. CASE CleanKeep
  BY <1>23 DEF CleanKeep, Cleaning, CleanKind, CleanNext
<1>24. CASE Finish
  BY <1>24 DEF Finish
<1>25. CASE Cancel
  BY <1>25 DEF Cancel
<1>26. ASSUME NEW f \in File, EditTarget(f) PROVE Window'
  BY <1>26 DEF EditTarget
<1>27. ASSUME NEW f \in File, NEW k \in TempKind, EditTemp(f, k) PROVE Window'
  BY <1>27 DEF EditTemp
<1>28. CASE UNCHANGED vars
  BY <1>28 DEF vars
<1> HIDE DEF Window
<1>29. QED
  BY <1>1, <1>2, <1>3, <1>4, <1>5, <1>6, <1>7, <1>8, <1>9, <1>10, <1>11,
     <1>12, <1>13, <1>14, <1>15, <1>16, <1>17, <1>18, <1>19, <1>20, <1>21,
     <1>22, <1>23, <1>24, <1>25, <1>26, <1>27, <1>28
  DEF Next, Call, Surroundings

\* A recovery path is set behind the place of the rollback only, and a backup
\* it names is intact or was changed since by others.
OfferedOf(f) ==
  /\ recoveryPath[f] # "none" => pc \in Last \/ (pc \in Rollback /\ f > at)
  /\ recoveryPath[f] = "backup" => temp["backup"][f] = "good" \/ <<f, "backup">> \in raced
Offered == \A f \in File : OfferedOf(f)

\* batch.go:313-332, 352-355: the backup that is offered is the one checked last,
\* and the cleanup leaves it.
LEMMA OfferedPreserved ==
  TypeOK /\ Position /\ Offered /\ [Next]_vars => Offered'
<1> SUFFICES ASSUME TypeOK, Position, Offered, [Next]_vars, NEW g \in File PROVE OfferedOf(g)'
  BY DEF Offered
<1>g. OfferedOf(g)
  BY DEF Offered
<1>0. /\ at \in Int /\ published \subseteq File /\ changed \subseteq File
       /\ recoveryPath \in [File -> {"none", "backup", "copy"}]
       /\ temp \in [TempKind -> [File -> Temp]]
  BY FileCountAssumption DEF TypeOK, File, Temp, TempKind
<1> USE <1>g, <1>0, FileCountAssumption DEF Temp, TempKind, File, Position, OfferedOf, Early,
        Publish, Rollback, Last, files, outcome, errs, env, GoTo, Abandon, RollBack
<1>1. CASE VerifyOne
  BY <1>1 DEF VerifyOne, Intact, Checked
<1>2. CASE VerifyEnds
  BY <1>2 DEF VerifyEnds
<1>3. CASE VerifyFails
  BY <1>3 DEF VerifyFails
<1>4. CASE Classify
  BY <1>4 DEF Classify
<1>5. CASE Stage
  BY <1>5 DEF Stage, Staging, KindOf, Intact
<1>6. CASE StageFails
  BY <1>6 DEF StageFails, Staging, LeaveUnfinished
<1>7. CASE Skip
  BY <1>7 DEF Skip
<1>8. CASE PublishCheck
  BY <1>8 DEF PublishCheck, Publishing, Subject, NextLabel, Intact, Checked
<1>9. CASE PublishFails
  BY <1>9 DEF PublishFails, Publishing
<1>10. CASE Replace
  BY <1>10 DEF Replace
<1>11. CASE Commit
  BY <1>11 DEF Commit
<1>12. CASE RollbackSkips
  BY <1>12 DEF RollbackSkips
<1>13. CASE CheckBackup
  BY <1>13 DEF CheckBackup, Intact, Checked
<1>14. CASE CheckPublished
  BY <1>14 DEF CheckPublished, Checked
<1>15. CASE Restore
  BY <1>15 DEF Restore
<1>16. CASE RestoreFails
  BY <1>16 DEF RestoreFails
<1>17. CASE OfferBackup
  BY <1>17 DEF OfferBackup, Intact, Checked
<1>18. CASE DropBackup
  BY <1>18 DEF DropBackup
<1>19. CASE CopyOriginal
  BY <1>19 DEF CopyOriginal
<1>20. CASE CopyFails
  BY <1>20 DEF CopyFails, LeaveUnfinished
<1>21. CASE CleanAbsent
  BY <1>21 DEF CleanAbsent, Cleaning, CleanKind, CleanNext
<1>22. CASE CleanRemove
  BY <1>22 DEF CleanRemove, Cleaning, CleanKind, CleanNext, Wanted
<1>23. CASE CleanKeep
  BY <1>23 DEF CleanKeep, Cleaning, CleanKind, CleanNext
<1>24. CASE Finish
  BY <1>24 DEF Finish
<1>25. CASE Cancel
  BY <1>25 DEF Cancel
<1>26. ASSUME NEW f \in File, EditTarget(f) PROVE OfferedOf(g)'
  BY <1>26 DEF EditTarget
<1>27. ASSUME NEW f \in File, NEW k \in TempKind, EditTemp(f, k) PROVE OfferedOf(g)'
  BY <1>27 DEF EditTemp
<1>28. CASE UNCHANGED vars
  BY <1>28 DEF vars
<1>29. QED
  BY <1>1, <1>2, <1>3, <1>4, <1>5, <1>6, <1>7, <1>8, <1>9, <1>10, <1>11,
     <1>12, <1>13, <1>14, <1>15, <1>16, <1>17, <1>18, <1>19, <1>20, <1>21,
     <1>22, <1>23, <1>24, <1>25, <1>26, <1>27, <1>28
  DEF Next, Call, Surroundings

\* The backup of a file about to be published, or published and not yet dealt
\* with, is there.
Kept ==
  /\ pc = "replace" => temp["backup"][at] = "good" \/ <<at, "backup">> \in raced
  /\ BackupOutlivesPublication

\* batch.go:277, 297-338: only the restoration of a file itself uses up its backup.
LEMMA KeptPreserved ==
  TypeOK /\ Position /\ Progress /\ Kept /\ [Next]_vars => Kept'
<1> SUFFICES ASSUME TypeOK, Position, Progress, Kept, [Next]_vars PROVE Kept'
  OBVIOUS
<1> USE FileCountAssumption, MeddleLimitAssumption DEF TypeOK, File, Label,
        FileState, Temp, TempKind, Content, Position, Progress, Kept,
        BackupOutlivesPublication, Early, Publish, Rollback, Last, files, outcome,
        errs, env, GoTo, Abandon, RollBack
<1>1. CASE VerifyOne
  BY <1>1 DEF VerifyOne, Intact, Checked
<1>2. CASE VerifyEnds
  BY <1>2 DEF VerifyEnds
<1>3. CASE VerifyFails
  BY <1>3 DEF VerifyFails
<1>4. CASE Classify
  BY <1>4 DEF Classify
<1>5. CASE Stage
  BY <1>5 DEF Stage, Staging, KindOf, Intact
<1>6. CASE StageFails
  BY <1>6 DEF StageFails, Staging, LeaveUnfinished
<1>7. CASE Skip
  BY <1>7 DEF Skip
<1>8. CASE PublishCheck
  BY <1>8 DEF PublishCheck, Publishing, Subject, NextLabel, Intact, Checked
<1>9. CASE PublishFails
  BY <1>9 DEF PublishFails, Publishing
<1>10. CASE Replace
  BY <1>10 DEF Replace
<1>11. CASE Commit
  BY <1>11 DEF Commit
<1>12. CASE RollbackSkips
  BY <1>12 DEF RollbackSkips
<1>13. CASE CheckBackup
  BY <1>13 DEF CheckBackup, Intact, Checked
<1>14. CASE CheckPublished
  BY <1>14 DEF CheckPublished, Checked
<1>15. CASE Restore
  BY <1>15 DEF Restore
<1>16. CASE RestoreFails
  BY <1>16 DEF RestoreFails
<1>17. CASE OfferBackup
  BY <1>17 DEF OfferBackup, Intact, Checked
<1>18. CASE DropBackup
  BY <1>18 DEF DropBackup
<1>19. CASE CopyOriginal
  BY <1>19 DEF CopyOriginal
<1>20. CASE CopyFails
  BY <1>20 DEF CopyFails, LeaveUnfinished
<1>21. CASE CleanAbsent
  BY <1>21 DEF CleanAbsent, Cleaning, CleanKind, CleanNext
<1>22. CASE CleanRemove
  BY <1>22 DEF CleanRemove, Cleaning, CleanKind, CleanNext, Wanted
<1>23. CASE CleanKeep
  BY <1>23 DEF CleanKeep, Cleaning, CleanKind, CleanNext
<1>24. CASE Finish
  BY <1>24 DEF Finish
<1>25. CASE Cancel
  BY <1>25 DEF Cancel
<1>26. ASSUME NEW f \in File, EditTarget(f) PROVE Kept'
  BY <1>26 DEF EditTarget
<1>27. ASSUME NEW f \in File, NEW k \in TempKind, EditTemp(f, k) PROVE Kept'
  BY <1>27 DEF EditTemp
<1>28. CASE UNCHANGED vars
  BY <1>28 DEF vars
<1> HIDE DEF Kept
<1>29. QED
  BY <1>1, <1>2, <1>3, <1>4, <1>5, <1>6, <1>7, <1>8, <1>9, <1>10, <1>11,
     <1>12, <1>13, <1>14, <1>15, <1>16, <1>17, <1>18, <1>19, <1>20, <1>21,
     <1>22, <1>23, <1>24, <1>25, <1>26, <1>27, <1>28
  DEF Next, Call, Surroundings

\* The cleanup has listed what stays of the files before its place.
ListedOf(f) ==
  \A k \in TempKind :
    /\ \/ pc \in Last /\ f < at
       \/ pc = "cleanBackup" /\ f = at /\ k = "staged"
    /\ temp[k][f] \in {"good", "spoiled"}
    => <<f, k>> \in artifacts
Listed == \A f \in File : ListedOf(f)

\* batch.go:344-365: a temporary file that is not removed is listed.
LEMMA ListedPreserved ==
  TypeOK /\ Position /\ Listed /\ [Next]_vars => Listed'
<1> SUFFICES ASSUME TypeOK, Position, Listed, [Next]_vars, NEW g \in File PROVE ListedOf(g)'
  BY DEF Listed
<1>g. ListedOf(g)
  BY DEF Listed
<1>0. /\ at \in Int /\ published \subseteq File /\ changed \subseteq File
       /\ temp \in [TempKind -> [File -> Temp]]
  BY FileCountAssumption DEF TypeOK, File, Temp, TempKind
<1> USE <1>g, <1>0, FileCountAssumption DEF Temp, TempKind, File, Position, ListedOf, Early,
        Publish, Rollback, Last, files, outcome, errs, env, GoTo, Abandon, RollBack
<1>1. CASE VerifyOne
  BY <1>1 DEF VerifyOne, Intact, Checked
<1>2. CASE VerifyEnds
  BY <1>2 DEF VerifyEnds
<1>3. CASE VerifyFails
  BY <1>3 DEF VerifyFails
<1>4. CASE Classify
  BY <1>4 DEF Classify
<1>5. CASE Stage
  BY <1>5 DEF Stage, Staging, KindOf, Intact
<1>6. CASE StageFails
  BY <1>6 DEF StageFails, Staging, LeaveUnfinished
<1>7. CASE Skip
  BY <1>7 DEF Skip
<1>8. CASE PublishCheck
  BY <1>8 DEF PublishCheck, Publishing, Subject, NextLabel, Intact, Checked
<1>9. CASE PublishFails
  BY <1>9 DEF PublishFails, Publishing
<1>10. CASE Replace
  BY <1>10 DEF Replace
<1>11. CASE Commit
  BY <1>11 DEF Commit
<1>12. CASE RollbackSkips
  BY <1>12 DEF RollbackSkips
<1>13. CASE CheckBackup
  BY <1>13 DEF CheckBackup, Intact, Checked
<1>14. CASE CheckPublished
  BY <1>14 DEF CheckPublished, Checked
<1>15. CASE Restore
  BY <1>15 DEF Restore
<1>16. CASE RestoreFails
  BY <1>16 DEF RestoreFails
<1>17. CASE OfferBackup
  BY <1>17 DEF OfferBackup, Intact, Checked
<1>18. CASE DropBackup
  BY <1>18 DEF DropBackup
<1>19. CASE CopyOriginal
  BY <1>19 DEF CopyOriginal
<1>20. CASE CopyFails
  BY <1>20 DEF CopyFails, LeaveUnfinished
<1>21. CASE CleanAbsent
  <2>1. at \in File /\ g \in Int
    BY <1>21 DEF CleanAbsent, Cleaning
  <2>2. CASE pc = "cleanStaged" /\ at = g
    BY <1>21, <2>1, <2>2 DEF CleanAbsent, Cleaning, CleanKind, CleanNext
  <2>3. CASE pc = "cleanStaged" /\ g < at
    BY <1>21, <2>1, <2>3 DEF CleanAbsent, Cleaning, CleanKind, CleanNext
  <2>4. CASE pc = "cleanStaged" /\ at < g
    BY <1>21, <2>1, <2>4 DEF CleanAbsent, Cleaning, CleanKind, CleanNext
  <2>5. CASE pc = "cleanBackup" /\ at = g
    BY <1>21, <2>1, <2>5 DEF CleanAbsent, Cleaning, CleanKind, CleanNext
  <2>6. CASE pc = "cleanBackup" /\ g < at
    BY <1>21, <2>1, <2>6 DEF CleanAbsent, Cleaning, CleanKind, CleanNext
  <2>7. CASE pc = "cleanBackup" /\ at < g
    <3>1. pc' = "cleanStaged" /\ at' = at + 1
      BY <1>21, <2>7 DEF CleanAbsent, Cleaning, CleanKind, CleanNext
    <3>2. ~(g < at')
      BY <2>1, <2>7, <3>1
    <3>3. QED
      BY <3>1, <3>2
  <2>8. pc \in {"cleanStaged", "cleanBackup"} /\ (at = g \/ g < at \/ at < g)
    BY <1>21, <2>1 DEF CleanAbsent, Cleaning
  <2> HIDE DEF ListedOf
  <2>9. QED
    BY <2>2, <2>3, <2>4, <2>5, <2>6, <2>7, <2>8
<1>22. CASE CleanRemove
  <2>1. at \in File /\ g \in Int
    BY <1>22 DEF CleanRemove, Cleaning
  <2>2. CASE pc = "cleanStaged" /\ at = g
    BY <1>22, <2>1, <2>2 DEF CleanRemove, Cleaning, CleanKind, CleanNext, Wanted
  <2>3. CASE pc = "cleanStaged" /\ g < at
    BY <1>22, <2>1, <2>3 DEF CleanRemove, Cleaning, CleanKind, CleanNext, Wanted
  <2>4. CASE pc = "cleanStaged" /\ at < g
    BY <1>22, <2>1, <2>4 DEF CleanRemove, Cleaning, CleanKind, CleanNext, Wanted
  <2>5. CASE pc = "cleanBackup" /\ at = g
    BY <1>22, <2>1, <2>5 DEF CleanRemove, Cleaning, CleanKind, CleanNext, Wanted
  <2>6. CASE pc = "cleanBackup" /\ g < at
    BY <1>22, <2>1, <2>6 DEF CleanRemove, Cleaning, CleanKind, CleanNext, Wanted
  <2>7. CASE pc = "cleanBackup" /\ at < g
    <3>1. pc' = "cleanStaged" /\ at' = at + 1
      BY <1>22, <2>7 DEF CleanRemove, Cleaning, CleanKind, CleanNext, Wanted
    <3>2. ~(g < at')
      BY <2>1, <2>7, <3>1
    <3>3. QED
      BY <3>1, <3>2
  <2>8. pc \in {"cleanStaged", "cleanBackup"} /\ (at = g \/ g < at \/ at < g)
    BY <1>22, <2>1 DEF CleanRemove, Cleaning
  <2> HIDE DEF ListedOf
  <2>9. QED
    BY <2>2, <2>3, <2>4, <2>5, <2>6, <2>7, <2>8
<1>23. CASE CleanKeep
  <2>1. at \in File /\ g \in Int
    BY <1>23 DEF CleanKeep, Cleaning
  <2>2. CASE pc = "cleanStaged" /\ at = g
    BY <1>23, <2>1, <2>2 DEF CleanKeep, Cleaning, CleanKind, CleanNext
  <2>3. CASE pc = "cleanStaged" /\ g < at
    BY <1>23, <2>1, <2>3 DEF CleanKeep, Cleaning, CleanKind, CleanNext
  <2>4. CASE pc = "cleanStaged" /\ at < g
    BY <1>23, <2>1, <2>4 DEF CleanKeep, Cleaning, CleanKind, CleanNext
  <2>5. CASE pc = "cleanBackup" /\ at = g
    BY <1>23, <2>1, <2>5 DEF CleanKeep, Cleaning, CleanKind, CleanNext
  <2>6. CASE pc = "cleanBackup" /\ g < at
    BY <1>23, <2>1, <2>6 DEF CleanKeep, Cleaning, CleanKind, CleanNext
  <2>7. CASE pc = "cleanBackup" /\ at < g
    <3>1. pc' = "cleanStaged" /\ at' = at + 1
      BY <1>23, <2>7 DEF CleanKeep, Cleaning, CleanKind, CleanNext
    <3>2. ~(g < at')
      BY <2>1, <2>7, <3>1
    <3>3. QED
      BY <3>1, <3>2
  <2>8. pc \in {"cleanStaged", "cleanBackup"} /\ (at = g \/ g < at \/ at < g)
    BY <1>23, <2>1 DEF CleanKeep, Cleaning
  <2> HIDE DEF ListedOf
  <2>9. QED
    BY <2>2, <2>3, <2>4, <2>5, <2>6, <2>7, <2>8
<1>24. CASE Finish
  BY <1>24 DEF Finish
<1>25. CASE Cancel
  BY <1>25 DEF Cancel
<1>26. ASSUME NEW f \in File, EditTarget(f) PROVE ListedOf(g)'
  BY <1>26 DEF EditTarget
<1>27. ASSUME NEW f \in File, NEW k \in TempKind, EditTemp(f, k) PROVE ListedOf(g)'
  BY <1>27 DEF EditTemp
<1>28. CASE UNCHANGED vars
  BY <1>28 DEF vars
<1>29. QED
  BY <1>1, <1>2, <1>3, <1>4, <1>5, <1>6, <1>7, <1>8, <1>9, <1>10, <1>11,
     <1>12, <1>13, <1>14, <1>15, <1>16, <1>17, <1>18, <1>19, <1>20, <1>21,
     <1>22, <1>23, <1>24, <1>25, <1>26, <1>27, <1>28
  DEF Next, Call, Surroundings

-----------------------------------------------------------------------------
(***************************************************************************)
(* The inductive invariant and what follows from it.                        *)
(***************************************************************************)
BatchInv == TypeOK /\ Position /\ Progress /\ Truth /\ Window /\ Offered /\ Kept /\ Listed

\* Every reachable state satisfies it, for any number of files.
THEOREM BatchInvariant == Spec => []BatchInv
<1>1. Init => BatchInv
  <2> SUFFICES ASSUME Init PROVE BatchInv
    OBVIOUS
  <2> USE FileCountAssumption, MeddleLimitAssumption DEF Init, File, Early, Publish, Rollback, Last
  <2>1. TypeOK
    <3>1. /\ target \in [File -> Content] /\ temp \in [TempKind -> [File -> Temp]]
          /\ changed \in SUBSET File /\ published \in SUBSET File
          /\ result \in [File -> FileState]
          /\ recoveryPath \in [File -> {"none", "backup", "copy"}]
      BY DEF FileState, Temp, Content
    <3>2. /\ artifacts \in SUBSET Left /\ unfinished \in SUBSET Left
          /\ incomplete \in Left \cup {NoLeft}
          /\ raced \in SUBSET (File \X {"target", "backup", "staged"})
      OBVIOUS
    <3>3. at \in 0..(FileCount + 1) /\ meddled \in 0..MeddleLimit
      OBVIOUS
    <3>4. pc \in Label /\ committed \in BOOLEAN /\ backupOk \in BOOLEAN /\ canceled \in BOOLEAN
      BY DEF Label
    <3>5. QED
      BY <3>1, <3>2, <3>3, <3>4 DEF TypeOK
  <2>2. Position /\ Progress
    BY DEF Position, Progress
  <2>3. Truth /\ Window
    BY DEF Truth, Window
  <2>4. Offered /\ Kept
    BY DEF Offered, OfferedOf, Kept, BackupOutlivesPublication
  <2>5. Listed
    BY DEF Listed, ListedOf
  <2>6. QED
    BY <2>1, <2>2, <2>3, <2>4, <2>5 DEF BatchInv
<1>2. BatchInv /\ [Next]_vars => BatchInv'
  BY TypePreserved, PositionPreserved, ProgressPreserved, TruthPreserved, WindowPreserved,
     OfferedPreserved, KeptPreserved, ListedPreserved
  DEF BatchInv
<1>3. QED
  BY <1>1, <1>2, PTL DEF Spec

\* batch.go: files, temporaries and the batch are in states the code can be in.
THEOREM TypeOKHolds == Spec => []TypeOK
<1>1. BatchInv => TypeOK
  BY DEF BatchInv
<1>2. QED
  BY <1>1, BatchInvariant, PTL

\* batch.go:196-211, 297-340: at the end the reported states tell what became
\* of the files.
THEOREM StatesAreTrueHolds == Spec => []StatesAreTrue
<1>1. BatchInv => StatesAreTrue
  BY DEF BatchInv, StatesAreTrue, Truth, Progress, Early, Publish, Rollback, Last, TypeOK
<1>2. QED
  BY <1>1, BatchInvariant, PTL

\* batch.go:313-332: a backup offered for recovery has the original bytes,
\* others apart.
THEOREM RecoveryIsUsableHolds == Spec => []RecoveryIsUsable
<1>1. BatchInv => RecoveryIsUsable
  BY DEF BatchInv, RecoveryIsUsable, Offered, OfferedOf
<1>2. QED
  BY <1>1, BatchInvariant, PTL

\* batch.go:297-340: a published file has its backup until it is dealt with.
THEOREM BackupOutlivesPublicationHolds == Spec => []BackupOutlivesPublication
<1>1. BatchInv => BackupOutlivesPublication
  BY DEF BatchInv, Kept
<1>2. QED
  BY <1>1, BatchInvariant, PTL

\* batch.go:344-365: what stays beside the source files is listed.
THEOREM LeftoversListedHolds == Spec => []LeftoversListed
<1>1. BatchInv => LeftoversListed
  BY FileCountAssumption DEF BatchInv, LeftoversListed, Listed, ListedOf, Position, Last, File
<1>2. QED
  BY <1>1, BatchInvariant, PTL

\* batch.go:277-289, 304-311: an external edit that came before the last check
\* of its file is not overwritten.
THEOREM ForeignEditsSurviveHolds == Spec => ForeignEditsSurvive
<1> DEFINE Survives == \A f \in File :
             target[f] = "foreign" /\ target'[f] # "foreign" => <<f, "target">> \in raced
<1>1. BatchInv /\ [Next]_vars => Survives
  <2> SUFFICES ASSUME BatchInv, [Next]_vars, NEW f \in File,
                      target[f] = "foreign", target'[f] # "foreign"
               PROVE  <<f, "target">> \in raced
    OBVIOUS
  <2>1. at = f /\ pc \in {"replace", "restore"}
    <3>1. Replace \/ Restore \/ target' = target \/ \E g \in File : EditTarget(g)
      BY DEF Next, Call, Surroundings, vars, files, VerifyOne, VerifyEnds, VerifyFails, Classify, Stage,
             StageFails, Skip, PublishCheck, PublishFails, Commit, RollbackSkips, CheckBackup,
             CheckPublished, RestoreFails, OfferBackup, DropBackup, CopyOriginal, CopyFails,
             CleanAbsent, CleanRemove, CleanKeep, Finish, Cancel, EditTemp
    <3>2. target \in [File -> Content]
      BY DEF BatchInv, TypeOK
    <3>3. ASSUME NEW g \in File, EditTarget(g) PROVE FALSE
      BY <3>2, <3>3 DEF EditTarget
    <3>4. QED
      BY <3>1, <3>2, <3>3 DEF Replace, Restore
  <2>2. QED
    BY <2>1 DEF BatchInv, Window
<1>2. QED
  BY <1>1, BatchInvariant, PTL DEF Spec, ForeignEditsSurvive
=============================================================================
