------------------------- MODULE FilePushPullProofs -------------------------
(***************************************************************************)
(* Proofs about FilePushPull, for every number of files, of writes by other *)
(* programs, of commands, pushes and pulls.                                 *)
(***************************************************************************)
EXTENDS FilePushPull, TLAPS

-----------------------------------------------------------------------------
(***************************************************************************)
(* The inductive invariant, part by part.                                   *)
(***************************************************************************)
PushPlace ==
  {"idle", "capture", "lease", "decide", "workbook", "template", "backup", "publish",
   "stamp", "record"}
PushRecord ==
  [at : PushPlace, round : 0..3, prior : Sources, reading : Sources,
   next : 1..(FileCount + 1), tree : Sources, settled : BOOLEAN, changes : Nat,
   stamp : Nat, seen : Nat, skipped : BOOLEAN]
PullRecord ==
  [at : {"idle", "lease", "plan", "snapshot", "stat", "move", "remove", "restore", "remake"},
   plan : Sources, stale : SUBSET Files, orig : Sources, todo : SUBSET Files,
   existed : BOOLEAN, errs : SUBSET Files,
   result : {"none", "untouched", "ok", "failed"}]

\* Every variable has its type, down to the fields.
Typed ==
  /\ src \in Sources
  /\ wb \in [mods : Sources, changes : Nat, stamp : Nat \ {0}]
  /\ state \in [fingerprint : Sources, stamp : Nat, own : BOOLEAN]
  /\ tree \in {"free", "push", "pull"} /\ book \in {"free", "push", "command"}
  /\ push \in PushRecord /\ pull \in PullRecord
  /\ used \in [edits : 0..EditLimit, saves : 0..SaveLimit, commands : Nat,
               pushes : Nat, pulls : Nat]
  /\ later \in SUBSET Files

\* The leases, and the capture a push has come to.
Held ==
  /\ tree = "push" <=> PushHoldsTree
  /\ tree = "pull" <=> pull.at \notin {"idle", "lease"}
  /\ book = "push" <=> PushHoldsWorkbook
  /\ push.at # "capture" => push.next = 1
  /\ push.at = "lease" => push.round = 1
  /\ push.at = "capture" => push.round # 0

\* What another program writes next is in no file, and was read from none.
Below ==
  \A f \in Files :
    /\ src[f] < Fresh /\ wb.mods[f] < Fresh
    /\ push.prior[f] < Fresh /\ push.reading[f] < Fresh
    /\ pull.plan[f] < Fresh /\ pull.orig[f] < Fresh

\* Behind its second capture a push holds the source lease: a file that is no
\* longer what was captured is so for good, and the third capture sees it.
Settling ==
  /\ PushHoldsTree /\ ~(push.at = "capture" /\ push.round = 2) =>
       /\ push.settled
       /\ \A f \in Files : push.tree[f] = push.prior[f] \/ src[f] # push.prior[f]
  /\ push.at = "capture" /\ push.round = 3 =>
       \A f \in Files : f < push.next /\ push.reading[f] = push.prior[f]
                          => push.tree[f] = push.prior[f]
  /\ push.at \in {"backup", "publish"} => push.prior = push.tree

\* Between its reading and its replacement no command changes the workbook.
Kept ==
  push.at \in {"backup", "publish"} \/ (push.at = "capture" /\ push.round = 3)
    => push.changes = wb.changes

\* A stamp says which workbook it was taken from, until the next write.
Stamped ==
  /\ state.stamp <= wb.stamp
  /\ state.own /\ state.stamp = wb.stamp => wb.mods = state.fingerprint
  /\ push.at \in {"stamp", "record"} =>
       push.stamp <= wb.stamp /\ (push.stamp = wb.stamp => wb.mods = push.prior)
  /\ push.at = "record" => push.seen <= wb.stamp

\* What a pull has yet to do, and what it has done, but for what others did since.
Delivering ==
  /\ \A f \in pull.stale : pull.plan[f] = Absent
  /\ pull.at \in {"stat", "move"} => pull.todo \subseteq Planned
  /\ pull.at = "remove" => pull.todo \subseteq pull.stale
  /\ pull.at \in {"snapshot", "stat", "move", "remove"} =>
       \A f \in Files \ later : f \notin Affected => src[f] = Absent
  /\ pull.at \in {"stat", "move"} =>
       \A f \in Files \ later : f \in Planned \ pull.todo => src[f] = pull.plan[f]
  /\ pull.at = "remove" =>
       \A f \in Files \ later :
         /\ f \in Planned => src[f] = pull.plan[f]
         /\ f \in pull.stale \ pull.todo => src[f] = Absent
  /\ pull.at \in {"restore", "remake"} =>
       \A f \in Files \ later :
         f \in Affected \ (pull.todo \cup pull.errs) => src[f] = pull.orig[f]

Inv == Typed /\ Held /\ Below /\ Settling /\ Kept /\ Stamped /\ Delivering

-----------------------------------------------------------------------------
(***************************************************************************)
(* Who writes what.                                                         *)
(***************************************************************************)
PushWrites ==
  /\ UNCHANGED <<src, pull, later>>
  /\ PublishWorkbook \/ UNCHANGED wb
  /\ WriteState \/ UNCHANGED state
  /\ PushBegins \/ UNCHANGED used

PullWrites ==
  /\ UNCHANGED <<wb, state, book, push>>
  /\ PullBegins \/ UNCHANGED used
  /\ \/ UNCHANGED src
     \/ \E f \in Files : Move(f) \/ Remove(f) \/ Unmake(f) \/ Remake(f)

\* A push changes no source file and no pull, and the workbook, the state file and
\* its count in one action each.
LEMMA PushWritesHold ==
  PushStep => PushWrites
<1> SUFFICES ASSUME PushStep
             PROVE  PushWrites
  OBVIOUS
<1> USE DEF PushWrites
<1>1. CASE PushBegins
  BY <1>1 DEF PushBegins
<1>2. CASE CaptureFile
  BY <1>2 DEF CaptureFile
<1>3. CASE CaptureEnds
  BY <1>3 DEF CaptureEnds
<1>4. CASE PushLeases
  BY <1>4 DEF PushLeases
<1>5. CASE Skip
  BY <1>5 DEF Skip
<1>6. CASE GoOn
  BY <1>6 DEF GoOn
<1>7. CASE PushTakesWorkbook
  BY <1>7 DEF PushTakesWorkbook
<1>8. CASE ReadTemplate
  BY <1>8 DEF ReadTemplate
<1>9. CASE Backup
  BY <1>9 DEF Backup
<1>10. CASE PublishWorkbook
  BY <1>10 DEF PublishWorkbook
<1>11. CASE ReadStamp
  BY <1>11 DEF ReadStamp
<1>12. CASE WriteState
  BY <1>12 DEF WriteState
<1>13. CASE PushFails
  BY <1>13 DEF PushFails
<1>14. CASE PushCrashes
  BY <1>14 DEF PushCrashes
<1>15. QED
  BY <1>1, <1>2, <1>3, <1>4, <1>5, <1>6, <1>7, <1>8, <1>9, <1>10, <1>11,
     <1>12, <1>13, <1>14
  DEF PushStep

\* A pull changes neither workbook, state file nor push, and a source file in one of
\* four actions.
LEMMA PullWritesHold ==
  PullStep => PullWrites
<1> SUFFICES ASSUME PullStep
             PROVE  PullWrites
  OBVIOUS
<1> USE DEF PullWrites
<1>1. CASE PullBegins
  BY <1>1 DEF PullBegins
<1>2. CASE PullLeases
  BY <1>2 DEF PullLeases
<1>3. CASE Plan
  BY <1>3 DEF Plan
<1>4. CASE WritesBegin
  BY <1>4 DEF WritesBegin
<1>5. CASE RemovalsBegin
  BY <1>5 DEF RemovalsBegin
<1>6. CASE PullEnds
  BY <1>6 DEF PullEnds
<1>7. CASE PullFails
  BY <1>7 DEF PullFails
<1>8. CASE PullBreaks
  BY <1>8 DEF PullBreaks
<1>9. CASE RollbackEnds
  BY <1>9 DEF RollbackEnds
<1>10. CASE PullCrashes
  BY <1>10 DEF PullCrashes
<1>11. ASSUME NEW f \in Files, Snapshot(f) PROVE PullWrites
  BY <1>11 DEF Snapshot
<1>12. ASSUME NEW f \in Files, Stat(f) PROVE PullWrites
  BY <1>12 DEF Stat
<1>13. ASSUME NEW f \in Files, Move(f) PROVE PullWrites
  BY <1>13 DEF Move
<1>14. ASSUME NEW f \in Files, Remove(f) PROVE PullWrites
  BY <1>14 DEF Remove
<1>15. ASSUME NEW f \in Files, Unmake(f) PROVE PullWrites
  BY <1>15 DEF Unmake
<1>16. ASSUME NEW f \in Files, Restore(f) PROVE PullWrites
  BY <1>16 DEF Restore
<1>17. ASSUME NEW f \in Files, Remake(f) PROVE PullWrites
  BY <1>17 DEF Remake
<1>18. ASSUME NEW f \in Files, RestoreFails(f) PROVE PullWrites
  BY <1>18 DEF RestoreFails
<1>19. QED
  BY <1>1, <1>2, <1>3, <1>4, <1>5, <1>6, <1>7, <1>8, <1>9, <1>10, <1>11,
     <1>12, <1>13, <1>14, <1>15, <1>16, <1>17, <1>18
  DEF PullStep

\* Nothing, and no source, is a tree; the resting push and pull are of their type.
LEMMA Resting ==
  /\ NoSources \in Sources /\ Nothing \in Sources
  /\ PushIdle \in PushRecord /\ PullIdle \in PullRecord
<1>1. NoSources \in Sources /\ Nothing \in Sources
  BY LimitsAssumption DEF NoSources, Nothing, Sources, Content, Absent
<1>2. PushIdle \in PushRecord
  BY <1>1, FileCountAssumption DEF PushIdle, PushRecord, PushPlace
<1>3. PullIdle \in PullRecord
  BY <1>1 DEF PullIdle, PullRecord, Files
<1>4. QED
  BY <1>1, <1>2, <1>3

\* A push keeps its type.
LEMMA PushTyped ==
  push \in PushRecord /\ src \in Sources /\ wb.changes \in Nat /\ wb.stamp
    \in Nat /\ PushStep => push' \in PushRecord
<1> SUFFICES ASSUME push \in PushRecord, src \in Sources, wb.changes \in
                    Nat, wb.stamp \in Nat, PushStep
             PROVE  push' \in PushRecord
  OBVIOUS
<1> USE Resting DEF PushRecord, PushPlace
<1>1. CASE PushBegins
  <2> DEFINE p1 == [PushIdle EXCEPT !.at = "capture"]
  <2>1. push' = [p1 EXCEPT !.round = 1]
    BY <1>1 DEF PushBegins
  <2>2. p1 \in PushRecord
    BY Resting DEF PushPlace, PushRecord
  <2> HIDE DEF p1
  <2>3. QED
    BY <2>1, <2>2, FileCountAssumption DEF PushPlace, PushRecord
<1>2. CASE CaptureFile
  <2>1. push.next \in Files /\ push.reading \in Sources
    BY <1>2 DEF CaptureFile, PushRecord
  <2>2. [push.reading EXCEPT ![push.next] = src[push.next]] \in Sources
    BY <2>1 DEF Sources
  <2>3. push.next + 1 \in 1..(FileCount + 1)
    BY <2>1, FileCountAssumption DEF Files
  <2>4. QED
    BY <1>2, <2>2, <2>3 DEF CaptureFile
<1>3. CASE CaptureEnds
  <2>1. push.prior \in Sources /\ push.reading \in Sources /\ push.tree \in Sources
        /\ push.settled \in BOOLEAN
    BY DEF PushRecord
  <2> DEFINE prior == IF push.round = 3 THEN push.prior ELSE push.reading
             settled == IF push.round = 2 THEN ~HalfPulled ELSE push.settled
             seenTree == IF push.round = 2 THEN src ELSE push.tree
             at == CASE push.round = 1 -> "lease" [] push.round = 2 -> "decide"
                     [] OTHER -> "backup"
  <2>a. settled \in BOOLEAN
    <3>1. (~HalfPulled) \in BOOLEAN
      BY DEF HalfPulled
    <3>2. QED
      BY <2>1, <3>1
  <2>2. /\ prior \in Sources /\ seenTree \in Sources /\ settled \in BOOLEAN
        /\ at \in PushPlace /\ 1 \in 1..(FileCount + 1)
    BY <2>1, <2>a, FileCountAssumption
  <2>3. push' = [push EXCEPT !.prior = prior, !.reading = NoSources, !.next = 1,
                             !.tree = seenTree, !.settled = settled, !.at = at]
    BY <1>3 DEF CaptureEnds
  <2> HIDE DEF prior, settled, seenTree, at
  <2>4. [push EXCEPT !.prior = prior, !.reading = NoSources, !.next = 1] \in PushRecord
    BY <2>2
  <2>5. [push EXCEPT !.prior = prior, !.reading = NoSources, !.next = 1,
                     !.tree = seenTree, !.settled = settled] \in PushRecord
    BY <2>2, <2>4
  <2>6. QED
    BY <2>2, <2>3, <2>5
<1>4. CASE PushLeases
  <2> DEFINE p1 == [push EXCEPT !.at = "capture"]
  <2>1. push' = [p1 EXCEPT !.round = 2]
    BY <1>4 DEF PushLeases
  <2>2. p1 \in PushRecord
    BY Resting DEF PushPlace, PushRecord
  <2> HIDE DEF p1
  <2>3. QED
    BY <2>1, <2>2, FileCountAssumption DEF PushPlace, PushRecord
<1>5. CASE Skip
  BY <1>5 DEF Skip, PushReturns
<1>6. CASE GoOn
  BY <1>6 DEF GoOn
<1>7. CASE PushTakesWorkbook
  BY <1>7 DEF PushTakesWorkbook
<1>8. CASE ReadTemplate
  <2> DEFINE p1 == [push EXCEPT !.changes = wb.changes]
             p2 == [p1 EXCEPT !.at = "capture"]
  <2>1. push' = [p2 EXCEPT !.round = 3]
    BY <1>8 DEF ReadTemplate
  <2>2. p1 \in PushRecord
    BY Resting DEF PushPlace, PushRecord
  <2> HIDE DEF p1
  <2>3. p2 \in PushRecord
    BY <2>2, Resting DEF PushPlace, PushRecord
  <2> HIDE DEF p2
  <2>4. QED
    BY <2>1, <2>3, FileCountAssumption DEF PushPlace, PushRecord
<1>9. CASE Backup
  BY <1>9 DEF Backup
<1>10. CASE PublishWorkbook
  <2> DEFINE p1 == [push EXCEPT !.stamp = wb.stamp + 1]
  <2>1. push' = [p1 EXCEPT !.at = "stamp"]
    BY <1>10 DEF PublishWorkbook
  <2>2. p1 \in PushRecord
    BY Resting DEF PushPlace, PushRecord
  <2> HIDE DEF p1
  <2>3. QED
    BY <2>1, <2>2, FileCountAssumption DEF PushPlace, PushRecord
<1>11. CASE ReadStamp
  BY <1>11 DEF ReadStamp
<1>12. CASE WriteState
  BY <1>12 DEF WriteState, PushReturns
<1>13. CASE PushFails
  BY <1>13 DEF PushFails, PushReturns
<1>14. CASE PushCrashes
  BY <1>14 DEF PushCrashes, PushReturns
<1>15. QED
  BY <1>1, <1>2, <1>3, <1>4, <1>5, <1>6, <1>7, <1>8, <1>9, <1>10, <1>11,
     <1>12, <1>13, <1>14
  DEF PushStep

\* A pull keeps its type.
LEMMA PullTyped ==
  Typed /\ PullStep => pull' \in PullRecord
<1> SUFFICES ASSUME Typed, PullStep
             PROVE  pull' \in PullRecord
  OBVIOUS
<1> USE Resting DEF Typed, PullRecord
<1>1. CASE PullBegins
  BY <1>1 DEF PullBegins, PullIdle
<1>2. CASE PullLeases
  BY <1>2 DEF PullLeases
<1>3. CASE Plan
  BY <1>3 DEF Plan
<1>4. CASE WritesBegin
  BY <1>4 DEF WritesBegin, Planned
<1>5. CASE RemovalsBegin
  BY <1>5 DEF RemovalsBegin
<1>6. CASE PullEnds
  BY <1>6 DEF PullEnds, PullReturns, PullIdle
<1>7. CASE PullFails
  BY <1>7 DEF PullFails, PullReturns, PullIdle
<1>8. CASE PullBreaks
  BY <1>8 DEF PullBreaks, Affected, Planned
<1>9. CASE RollbackEnds
  BY <1>9 DEF RollbackEnds, PullReturns, PullIdle
<1>10. CASE PullCrashes
  BY <1>10 DEF PullCrashes, PullReturns, PullIdle
<1>11. ASSUME NEW f \in Files, Snapshot(f) PROVE pull' \in PullRecord
  BY <1>11 DEF Snapshot, Sources
<1>12. ASSUME NEW f \in Files, Stat(f) PROVE pull' \in PullRecord
  BY <1>12 DEF Stat
<1>13. ASSUME NEW f \in Files, Move(f) PROVE pull' \in PullRecord
  BY <1>13 DEF Move
<1>14. ASSUME NEW f \in Files, Remove(f) PROVE pull' \in PullRecord
  BY <1>14 DEF Remove
<1>15. ASSUME NEW f \in Files, Unmake(f) PROVE pull' \in PullRecord
  BY <1>15 DEF Unmake
<1>16. ASSUME NEW f \in Files, Restore(f) PROVE pull' \in PullRecord
  BY <1>16 DEF Restore
<1>17. ASSUME NEW f \in Files, Remake(f) PROVE pull' \in PullRecord
  BY <1>17 DEF Remake
<1>18. ASSUME NEW f \in Files, RestoreFails(f) PROVE pull' \in PullRecord
  BY <1>18 DEF RestoreFails
<1>19. QED
  BY <1>1, <1>2, <1>3, <1>4, <1>5, <1>6, <1>7, <1>8, <1>9, <1>10, <1>11,
     <1>12, <1>13, <1>14, <1>15, <1>16, <1>17, <1>18
  DEF PullStep

\* Every step keeps every variable in its type.
LEMMA TypedPreserved ==
  Typed /\ [Next]_vars => Typed'
<1> SUFFICES ASSUME Typed, [Next]_vars PROVE Typed'
  OBVIOUS
<1> USE DEF Typed
<1>1. CASE PushStep
  <2>1. push' \in PushRecord
    BY <1>1, PushTyped
  <2>2. PushWrites
    BY <1>1, PushWritesHold
  <2>3. push.prior \in Sources /\ push.changes \in Nat /\ push.seen \in Nat
    BY DEF PushRecord
  <2>4. wb' \in [mods : Sources, changes : Nat, stamp : Nat \ {0}]
    BY <2>2, <2>3 DEF PushWrites, PublishWorkbook
  <2>5. state' \in [fingerprint : Sources, stamp : Nat, own : BOOLEAN]
    <3>1. (push.seen = push.stamp) \in BOOLEAN
      OBVIOUS
    <3>2. [fingerprint |-> push.prior, stamp |-> push.seen, own |-> push.seen = push.stamp]
            \in [fingerprint : Sources, stamp : Nat, own : BOOLEAN]
      BY <2>3, <3>1
    <3>3. QED
      BY <2>2, <3>2 DEF PushWrites, WriteState
  <2>6. tree' \in {"free", "push", "pull"} /\ book' \in {"free", "push", "command"}
    BY <1>1 DEF PushStep, PushBegins, CaptureFile, CaptureEnds, PushLeases, Skip,
       GoOn, PushTakesWorkbook, ReadTemplate, Backup, PublishWorkbook,
       ReadStamp, WriteState, PushFails, PushCrashes, PushReturns
  <2>7. used' \in [edits : 0..EditLimit, saves : 0..SaveLimit, commands : Nat,
                   pushes : Nat, pulls : Nat]
    BY <2>2 DEF PushWrites, PushBegins
  <2>8. QED
    BY <2>1, <2>2, <2>4, <2>5, <2>6, <2>7 DEF PushWrites
<1>2. CASE PullStep
  <2>1. pull' \in PullRecord
    BY <1>2, PullTyped
  <2>2. PullWrites
    BY <1>2, PullWritesHold
  <2>3. pull.plan \in Sources /\ pull.orig \in Sources
    BY DEF PullRecord
  <2>4. src' \in Sources
    <3>1. CASE UNCHANGED src
      BY <3>1
    <3>2. ASSUME NEW f \in Files, Move(f) \/ Remove(f) \/ Unmake(f) \/ Remake(f)
          PROVE  src' \in Sources
      <4>1. pull.plan[f] \in Content /\ pull.orig[f] \in Content /\ Absent \in Content
        BY <2>3, LimitsAssumption DEF Sources, Content, Absent
      <4>2. QED
        BY <3>2, <4>1 DEF Move, Remove, Unmake, Remake, Sources
    <3>3. QED
      BY <2>2, <3>1, <3>2 DEF PullWrites
  <2>5. tree' \in {"free", "push", "pull"} /\ later' \in SUBSET Files
    BY <1>2 DEF PullStep, PullBegins, PullLeases, Plan, WritesBegin, RemovalsBegin,
       PullEnds, PullFails, PullBreaks, RollbackEnds, PullCrashes, Snapshot,
       Stat, Move, Remove, Unmake, Restore, Remake, RestoreFails, PullReturns
  <2>6. used' \in [edits : 0..EditLimit, saves : 0..SaveLimit, commands : Nat,
                   pushes : Nat, pulls : Nat]
    BY <2>2 DEF PullWrites, PullBegins
  <2>7. QED
    BY <2>1, <2>2, <2>4, <2>5, <2>6 DEF PullWrites
<1>3. CASE CommandBegins
  BY <1>3 DEF CommandBegins
<1>4. CASE CommandEnds
  <2>1. wb' \in [mods : Sources, changes : Nat, stamp : Nat \ {0}]
    <3> DEFINE w == [wb EXCEPT !.changes = @ + 1]
    <3>1. w \in [mods : Sources, changes : Nat, stamp : Nat \ {0}]
      OBVIOUS
    <3>2. wb' = [w EXCEPT !.stamp = @ + 1]
      BY <1>4 DEF CommandEnds
    <3> HIDE DEF w
    <3>3. QED
      BY <3>1, <3>2
  <2>2. QED
    BY <1>4, <2>1 DEF CommandEnds
<1>5. ASSUME NEW f \in Files, Edit(f) PROVE Typed'
  BY <1>5, LimitsAssumption DEF Edit, Fresh, Sources, Content
<1>6. ASSUME NEW f \in Files, Save(f) PROVE Typed'
  <2>1. Fresh \in Content
    BY <1>6, LimitsAssumption DEF Save, Fresh, Content
  <2>2. [wb.mods EXCEPT ![f] = Fresh] \in Sources
    BY <2>1 DEF Sources
  <2>3. wb' \in [mods : Sources, changes : Nat, stamp : Nat \ {0}]
    <3> DEFINE w == [wb EXCEPT !.mods = [wb.mods EXCEPT ![f] = Fresh]]
    <3>1. w \in [mods : Sources, changes : Nat, stamp : Nat \ {0}]
      BY <2>2
    <3>2. wb' = [w EXCEPT !.stamp = @ + 1]
      BY <1>6 DEF Save
    <3> HIDE DEF w
    <3>3. QED
      BY <3>1, <3>2
  <2>4. used' \in [edits : 0..EditLimit, saves : 0..SaveLimit, commands : Nat,
                   pushes : Nat, pulls : Nat]
    BY <1>6, LimitsAssumption DEF Save
  <2>5. QED
    BY <1>6, <2>3, <2>4 DEF Save
<1>7. CASE UNCHANGED vars
  BY <1>7 DEF vars
<1>8. QED
  BY <1>1, <1>2, <1>3, <1>4, <1>5, <1>6, <1>7 DEF Next

\* A lease is held by whoever is between its acquisition and its return.
LEMMA HeldPreserved ==
  Typed /\ Held /\ [Next]_vars => Held'
<1> SUFFICES ASSUME Typed, Held, [Next]_vars
             PROVE  Held'
  OBVIOUS
<1> USE FileCountAssumption DEF Typed, Held, PushRecord, PullRecord,
        PushHoldsTree, PushHoldsWorkbook, Mutating
<1>1. CASE PushBegins
  BY <1>1 DEF PushBegins, PushIdle
<1>2. CASE CaptureFile
  BY <1>2 DEF CaptureFile
<1>3. CASE CaptureEnds
  <2>1. /\ push'.next = 1 /\ push'.round = push.round
        /\ push'.at = CASE push.round = 1 -> "lease" [] push.round = 2 -> "decide" [] OTHER -> "backup"
    BY <1>3 DEF CaptureEnds
  <2>2. UNCHANGED <<tree, book, pull>> /\ push.at = "capture"
    BY <1>3 DEF CaptureEnds
  <2>3. push.round \in {1, 2, 3}
    BY <2>2
  <2>4. QED
    BY <2>1, <2>2, <2>3
<1>4. CASE PushLeases
  BY <1>4 DEF PushLeases
<1>5. CASE Skip
  BY <1>5 DEF Skip, PushReturns, PushIdle
<1>6. CASE GoOn
  BY <1>6 DEF GoOn
<1>7. CASE PushTakesWorkbook
  BY <1>7 DEF PushTakesWorkbook
<1>8. CASE ReadTemplate
  BY <1>8 DEF ReadTemplate
<1>9. CASE Backup
  BY <1>9 DEF Backup
<1>10. CASE PublishWorkbook
  BY <1>10 DEF PublishWorkbook
<1>11. CASE ReadStamp
  BY <1>11 DEF ReadStamp
<1>12. CASE WriteState
  BY <1>12 DEF WriteState, PushReturns, PushIdle
<1>13. CASE PushFails
  BY <1>13 DEF PushFails, PushReturns, PushIdle
<1>14. CASE PushCrashes
  BY <1>14 DEF PushCrashes, PushReturns, PushIdle
<1>15. CASE PullBegins
  BY <1>15 DEF PullBegins, PullIdle
<1>16. CASE PullLeases
  BY <1>16 DEF PullLeases
<1>17. CASE Plan
  BY <1>17 DEF Plan
<1>18. CASE WritesBegin
  BY <1>18 DEF WritesBegin
<1>19. CASE RemovalsBegin
  BY <1>19 DEF RemovalsBegin
<1>20. CASE PullEnds
  BY <1>20 DEF PullEnds, PullReturns, PullIdle
<1>21. CASE PullFails
  BY <1>21 DEF PullFails, PullReturns, PullIdle
<1>22. CASE PullBreaks
  BY <1>22 DEF PullBreaks
<1>23. CASE RollbackEnds
  BY <1>23 DEF RollbackEnds, PullReturns, PullIdle
<1>24. CASE PullCrashes
  BY <1>24 DEF PullCrashes, PullReturns, PullIdle
<1>25. ASSUME NEW f \in Files, Snapshot(f) PROVE Held'
  BY <1>25 DEF Snapshot
<1>26. ASSUME NEW f \in Files, Stat(f) PROVE Held'
  BY <1>26 DEF Stat
<1>27. ASSUME NEW f \in Files, Move(f) PROVE Held'
  BY <1>27 DEF Move
<1>28. ASSUME NEW f \in Files, Remove(f) PROVE Held'
  BY <1>28 DEF Remove
<1>29. ASSUME NEW f \in Files, Unmake(f) PROVE Held'
  BY <1>29 DEF Unmake
<1>30. ASSUME NEW f \in Files, Restore(f) PROVE Held'
  BY <1>30 DEF Restore
<1>31. ASSUME NEW f \in Files, Remake(f) PROVE Held'
  BY <1>31 DEF Remake
<1>32. ASSUME NEW f \in Files, RestoreFails(f) PROVE Held'
  BY <1>32 DEF RestoreFails
<1>33. CASE CommandBegins
  BY <1>33 DEF CommandBegins
<1>34. CASE CommandEnds
  BY <1>34 DEF CommandEnds
<1>35. ASSUME NEW f \in Files, Edit(f) PROVE Held'
  BY <1>35 DEF Edit
<1>36. ASSUME NEW f \in Files, Save(f) PROVE Held'
  BY <1>36 DEF Save
<1>37. CASE UNCHANGED vars
  BY <1>37 DEF vars
<1>38. QED
  BY <1>1, <1>2, <1>3, <1>4, <1>5, <1>6, <1>7, <1>8, <1>9, <1>10, <1>11,
     <1>12, <1>13, <1>14, <1>15, <1>16, <1>17, <1>18, <1>19, <1>20, <1>21,
     <1>22, <1>23, <1>24, <1>25, <1>26, <1>27, <1>28, <1>29, <1>30, <1>31,
     <1>32, <1>33, <1>34, <1>35, <1>36, <1>37
  DEF Next, PushStep, PullStep

\* Whatever is copied was written before.
LEMMA BelowPreserved ==
  Typed /\ Below /\ [Next]_vars => Below'
<1> SUFFICES ASSUME Typed, Below, [Next]_vars
             PROVE  Below'
  OBVIOUS
<1> USE LimitsAssumption DEF Typed, Below, Fresh, PushRecord, PullRecord,
        NoSources, Nothing, Absent
<1>1. CASE PushBegins
  BY <1>1 DEF PushBegins, PushIdle
<1>2. CASE CaptureFile
  BY <1>2 DEF CaptureFile
<1>3. CASE CaptureEnds
  BY <1>3 DEF CaptureEnds, Files
<1>4. CASE PushLeases
  BY <1>4 DEF PushLeases
<1>5. CASE Skip
  BY <1>5 DEF Skip, PushReturns, PushIdle
<1>6. CASE GoOn
  BY <1>6 DEF GoOn
<1>7. CASE PushTakesWorkbook
  BY <1>7 DEF PushTakesWorkbook
<1>8. CASE ReadTemplate
  BY <1>8 DEF ReadTemplate
<1>9. CASE Backup
  BY <1>9 DEF Backup
<1>10. CASE PublishWorkbook
  BY <1>10 DEF PublishWorkbook
<1>11. CASE ReadStamp
  BY <1>11 DEF ReadStamp
<1>12. CASE WriteState
  BY <1>12 DEF WriteState, PushReturns, PushIdle
<1>13. CASE PushFails
  BY <1>13 DEF PushFails, PushReturns, PushIdle
<1>14. CASE PushCrashes
  BY <1>14 DEF PushCrashes, PushReturns, PushIdle
<1>15. CASE PullBegins
  BY <1>15 DEF PullBegins, PullIdle
<1>16. CASE PullLeases
  BY <1>16 DEF PullLeases
<1>17. CASE Plan
  BY <1>17 DEF Plan
<1>18. CASE WritesBegin
  BY <1>18 DEF WritesBegin
<1>19. CASE RemovalsBegin
  BY <1>19 DEF RemovalsBegin
<1>20. CASE PullEnds
  BY <1>20 DEF PullEnds, PullReturns, PullIdle
<1>21. CASE PullFails
  BY <1>21 DEF PullFails, PullReturns, PullIdle
<1>22. CASE PullBreaks
  BY <1>22 DEF PullBreaks
<1>23. CASE RollbackEnds
  BY <1>23 DEF RollbackEnds, PullReturns, PullIdle
<1>24. CASE PullCrashes
  BY <1>24 DEF PullCrashes, PullReturns, PullIdle
<1>25. ASSUME NEW f \in Files, Snapshot(f) PROVE Below'
  BY <1>25 DEF Snapshot
<1>26. ASSUME NEW f \in Files, Stat(f) PROVE Below'
  BY <1>26 DEF Stat
<1>27. ASSUME NEW f \in Files, Move(f) PROVE Below'
  BY <1>27 DEF Move
<1>28. ASSUME NEW f \in Files, Remove(f) PROVE Below'
  BY <1>28 DEF Remove
<1>29. ASSUME NEW f \in Files, Unmake(f) PROVE Below'
  BY <1>29 DEF Unmake
<1>30. ASSUME NEW f \in Files, Restore(f) PROVE Below'
  BY <1>30 DEF Restore
<1>31. ASSUME NEW f \in Files, Remake(f) PROVE Below'
  BY <1>31 DEF Remake
<1>32. ASSUME NEW f \in Files, RestoreFails(f) PROVE Below'
  BY <1>32 DEF RestoreFails
<1>33. CASE CommandBegins
  BY <1>33 DEF CommandBegins
<1>34. CASE CommandEnds
  BY <1>34 DEF CommandEnds
<1>35. ASSUME NEW f \in Files, Edit(f) PROVE Below'
  <2>1. Fresh \in Int /\ Fresh' = Fresh + 1
    BY <1>35 DEF Edit, Fresh
  <2>2. \A g \in Files : /\ {src[g], wb.mods[g], push.prior[g], push.reading[g]} \subseteq Int
                          /\ {pull.plan[g], pull.orig[g]} \subseteq Int
    BY DEF Typed, PushRecord, PullRecord, Sources, Content
  <2>3. /\ \A g \in Files : src'[g] \in {src[g], Fresh}
        /\ UNCHANGED <<wb, push, pull>>
    BY <1>35 DEF Edit, Typed, Sources
  <2> HIDE DEF Fresh, Typed, PushRecord, PullRecord
  <2>4. QED
    BY <2>1, <2>2, <2>3 DEF Below
<1>36. ASSUME NEW f \in Files, Save(f) PROVE Below'
  <2>1. Fresh \in Int /\ Fresh' = Fresh + 1
    BY <1>36 DEF Save, Fresh
  <2>2. \A g \in Files : /\ {src[g], wb.mods[g], push.prior[g], push.reading[g]} \subseteq Int
                          /\ {pull.plan[g], pull.orig[g]} \subseteq Int
    BY DEF Typed, PushRecord, PullRecord, Sources, Content
  <2>3. /\ \A g \in Files : wb'.mods[g] \in {wb.mods[g], Fresh}
        /\ UNCHANGED <<src, push, pull>>
    BY <1>36 DEF Save, Typed, Sources
  <2> HIDE DEF Fresh, Typed, PushRecord, PullRecord
  <2>4. QED
    BY <2>1, <2>2, <2>3 DEF Below
<1>37. CASE UNCHANGED vars
  BY <1>37 DEF vars
<1>38. QED
  BY <1>1, <1>2, <1>3, <1>4, <1>5, <1>6, <1>7, <1>8, <1>9, <1>10, <1>11,
     <1>12, <1>13, <1>14, <1>15, <1>16, <1>17, <1>18, <1>19, <1>20, <1>21,
     <1>22, <1>23, <1>24, <1>25, <1>26, <1>27, <1>28, <1>29, <1>30, <1>31,
     <1>32, <1>33, <1>34, <1>35, <1>36, <1>37
  DEF Next, PushStep, PullStep

\* Nobody but other programs writes a source file while a push holds the lease, and
\* their bytes are new.
LEMMA SettlingPreserved ==
  Typed /\ Held /\ Below /\ Settling /\ [Next]_vars => Settling'
<1> SUFFICES ASSUME Typed, Held, Below, Settling, [Next]_vars
             PROVE  Settling'
  OBVIOUS
<1> USE FileCountAssumption DEF Typed, Held, Settling, PushRecord,
        PushHoldsTree, Mutating
<1>1. CASE PushBegins
  BY <1>1 DEF PushBegins, PushIdle
<1>2. CASE CaptureFile
  <2>1. /\ push'.at = push.at /\ push'.round = push.round /\ push'.prior = push.prior
        /\ push'.tree = push.tree /\ push'.settled = push.settled
        /\ push'.next = push.next + 1 /\ UNCHANGED src
    BY <1>2 DEF CaptureFile
  <2>2. \A g \in Files :
          push'.reading[g] = IF g = push.next THEN src[g] ELSE push.reading[g]
    BY <1>2 DEF CaptureFile, Sources
  <2>3. \A g \in Files : g < push.next + 1 => g < push.next \/ g = push.next
    BY DEF Files
  <2>4. QED
    BY <2>1, <2>2, <2>3
<1>3. CASE CaptureEnds
  <2>1. push.at = "capture" /\ push.round \in {1, 2, 3} /\ UNCHANGED <<src, tree, pull>>
    BY <1>3 DEF CaptureEnds
  <2>2. CASE push.round = 1
    <3>1. push'.at = "lease"
      BY <1>3, <2>2 DEF CaptureEnds
    <3>2. QED
      BY <3>1
  <2>3. CASE push.round = 2
    <3>1. /\ push'.at = "decide" /\ push'.round = 2 /\ push'.tree = src
          /\ push'.settled = ~HalfPulled
      BY <1>3, <2>3 DEF CaptureEnds, HalfPulled
    <3>2. ~HalfPulled
      BY <2>1, <2>3 DEF HalfPulled
    <3>3. QED
      BY <2>1, <3>1, <3>2
  <2>4. CASE push.round = 3
    <3>1. /\ push'.at = "backup" /\ push'.round = 3 /\ push'.prior = push.prior
          /\ push'.tree = push.tree /\ push'.settled = push.settled
      BY <1>3, <2>4 DEF CaptureEnds
    <3>2. push.reading = push.prior
      BY <1>3, <2>4 DEF CaptureEnds, Unchanged
    <3>3. \A g \in Files : g < push.next
      BY <1>3 DEF CaptureEnds, Files
    <3>4. push.tree = push.prior
      BY <2>1, <2>4, <3>2, <3>3 DEF Sources
    <3>5. QED
      BY <2>1, <2>4, <3>1, <3>4
  <2>5. QED
    BY <2>1, <2>2, <2>3, <2>4
<1>4. CASE PushLeases
  BY <1>4 DEF PushLeases
<1>5. CASE Skip
  BY <1>5 DEF Skip, PushReturns, PushIdle
<1>6. CASE GoOn
  BY <1>6 DEF GoOn
<1>7. CASE PushTakesWorkbook
  BY <1>7 DEF PushTakesWorkbook
<1>8. CASE ReadTemplate
  <2>1. /\ push'.at = "capture" /\ push'.round = 3 /\ push'.prior = push.prior
        /\ push'.tree = push.tree /\ push'.settled = push.settled
        /\ push'.next = push.next /\ push.next = 1 /\ UNCHANGED src
    BY <1>8 DEF ReadTemplate
  <2>2. \A g \in Files : ~(g < 1)
    BY DEF Files
  <2>3. push.at = "template"
    BY <1>8 DEF ReadTemplate
  <2>4. QED
    BY <2>1, <2>2, <2>3
<1>9. CASE Backup
  BY <1>9 DEF Backup
<1>10. CASE PublishWorkbook
  BY <1>10 DEF PublishWorkbook
<1>11. CASE ReadStamp
  BY <1>11 DEF ReadStamp
<1>12. CASE WriteState
  BY <1>12 DEF WriteState, PushReturns, PushIdle
<1>13. CASE PushFails
  BY <1>13 DEF PushFails, PushReturns, PushIdle
<1>14. CASE PushCrashes
  BY <1>14 DEF PushCrashes, PushReturns, PushIdle
<1>15. CASE PullStep
  <2>1. PullWrites
    BY <1>15, PullWritesHold
  <2>2. PushHoldsTree => UNCHANGED src
    BY <2>1 DEF PullWrites, Move, Remove, Unmake, Remake
  <2>3. QED
    BY <2>1, <2>2 DEF PullWrites
<1>16. CASE CommandBegins
  BY <1>16 DEF CommandBegins
<1>17. CASE CommandEnds
  BY <1>17 DEF CommandEnds
<1>18. ASSUME NEW f \in Files, Edit(f) PROVE Settling'
  <2>1. \A g \in Files : src'[g] \in {src[g], Fresh} /\ push.prior[g] # Fresh
    BY <1>18 DEF Edit, Sources, Content, Below
  <2>2. UNCHANGED push
    BY <1>18 DEF Edit
  <2>3. QED
    BY <2>1, <2>2
<1>19. ASSUME NEW f \in Files, Save(f) PROVE Settling'
  BY <1>19 DEF Save
<1>20. CASE UNCHANGED vars
  BY <1>20 DEF vars
<1>21. QED
  BY <1>1, <1>2, <1>3, <1>4, <1>5, <1>6, <1>7, <1>8, <1>9, <1>10, <1>11,
     <1>12, <1>13, <1>14, <1>15, <1>16, <1>17, <1>18, <1>19, <1>20
  DEF Next, PushStep

\* A command changes the workbook under a lease that the push holds by then.
LEMMA KeptPreserved ==
  Typed /\ Held /\ Kept /\ [Next]_vars => Kept'
<1> SUFFICES ASSUME Typed, Held, Kept, [Next]_vars
             PROVE  Kept'
  OBVIOUS
<1> USE DEF Typed, Held, Kept, PushRecord, PushHoldsWorkbook, Mutating
<1>1. CASE PushBegins
  BY <1>1 DEF PushBegins, PushIdle
<1>2. CASE CaptureFile
  BY <1>2 DEF CaptureFile
<1>3. CASE CaptureEnds
  BY <1>3 DEF CaptureEnds, Files
<1>4. CASE PushLeases
  BY <1>4 DEF PushLeases
<1>5. CASE Skip
  BY <1>5 DEF Skip, PushReturns, PushIdle
<1>6. CASE GoOn
  BY <1>6 DEF GoOn
<1>7. CASE PushTakesWorkbook
  BY <1>7 DEF PushTakesWorkbook
<1>8. CASE ReadTemplate
  BY <1>8 DEF ReadTemplate
<1>9. CASE Backup
  BY <1>9 DEF Backup
<1>10. CASE PublishWorkbook
  BY <1>10 DEF PublishWorkbook
<1>11. CASE ReadStamp
  BY <1>11 DEF ReadStamp
<1>12. CASE WriteState
  BY <1>12 DEF WriteState, PushReturns, PushIdle
<1>13. CASE PushFails
  BY <1>13 DEF PushFails, PushReturns, PushIdle
<1>14. CASE PushCrashes
  BY <1>14 DEF PushCrashes, PushReturns, PushIdle
<1>15. CASE PullStep
  BY <1>15, PullWritesHold DEF PullWrites
<1>16. CASE CommandBegins
  BY <1>16 DEF CommandBegins
<1>17. CASE CommandEnds
  BY <1>17 DEF CommandEnds
<1>18. ASSUME NEW f \in Files, Edit(f) PROVE Kept'
  BY <1>18 DEF Edit
<1>19. ASSUME NEW f \in Files, Save(f) PROVE Kept'
  BY <1>19 DEF Save
<1>20. CASE UNCHANGED vars
  BY <1>20 DEF vars
<1>21. QED
  BY <1>1, <1>2, <1>3, <1>4, <1>5, <1>6, <1>7, <1>8, <1>9, <1>10, <1>11,
     <1>12, <1>13, <1>14, <1>15, <1>16, <1>17, <1>18, <1>19, <1>20
  DEF Next, PushStep

\* Every write of the workbook gives it a stamp that it never had.
LEMMA StampedPreserved ==
  Typed /\ Stamped /\ [Next]_vars => Stamped'
<1> SUFFICES ASSUME Typed, Stamped, [Next]_vars
             PROVE  Stamped'
  OBVIOUS
<1> USE DEF Typed, Stamped, PushRecord
<1>1. CASE PushBegins
  BY <1>1 DEF PushBegins, PushIdle
<1>2. CASE CaptureFile
  BY <1>2 DEF CaptureFile
<1>3. CASE CaptureEnds
  BY <1>3 DEF CaptureEnds, Files
<1>4. CASE PushLeases
  BY <1>4 DEF PushLeases
<1>5. CASE Skip
  BY <1>5 DEF Skip, PushReturns, PushIdle
<1>6. CASE GoOn
  BY <1>6 DEF GoOn
<1>7. CASE PushTakesWorkbook
  BY <1>7 DEF PushTakesWorkbook
<1>8. CASE ReadTemplate
  BY <1>8 DEF ReadTemplate
<1>9. CASE Backup
  BY <1>9 DEF Backup
<1>10. CASE PublishWorkbook
  BY <1>10 DEF PublishWorkbook
<1>11. CASE ReadStamp
  BY <1>11 DEF ReadStamp
<1>12. CASE WriteState
  <2>1. push.at = "record" /\ push'.at = "idle" /\ UNCHANGED wb
    BY <1>12 DEF WriteState, PushReturns, PushIdle
  <2>2. CASE state' = state
    BY <2>1, <2>2
  <2>3. CASE state' = [fingerprint |-> push.prior, stamp |-> push.seen,
                       own |-> push.seen = push.stamp]
    <3>1. /\ state'.fingerprint = push.prior /\ state'.stamp = push.seen
          /\ state'.own <=> push.seen = push.stamp
      BY <2>3
    <3>2. QED
      BY <2>1, <3>1
  <2>4. QED
    BY <1>12, <2>2, <2>3 DEF WriteState
<1>13. CASE PushFails
  BY <1>13 DEF PushFails, PushReturns, PushIdle
<1>14. CASE PushCrashes
  BY <1>14 DEF PushCrashes, PushReturns, PushIdle
<1>15. CASE PullStep
  BY <1>15, PullWritesHold DEF PullWrites
<1>16. CASE CommandBegins
  BY <1>16 DEF CommandBegins
<1>17. CASE CommandEnds
  BY <1>17 DEF CommandEnds
<1>18. ASSUME NEW f \in Files, Edit(f) PROVE Stamped'
  BY <1>18 DEF Edit
<1>19. ASSUME NEW f \in Files, Save(f) PROVE Stamped'
  BY <1>19 DEF Save
<1>20. CASE UNCHANGED vars
  BY <1>20 DEF vars
<1>21. QED
  BY <1>1, <1>2, <1>3, <1>4, <1>5, <1>6, <1>7, <1>8, <1>9, <1>10, <1>11,
     <1>12, <1>13, <1>14, <1>15, <1>16, <1>17, <1>18, <1>19, <1>20
  DEF Next, PushStep

\* A pull writes what it has to do, one file after the other, and others what is in later.
LEMMA DeliveringPreserved ==
  Typed /\ Delivering /\ [Next]_vars => Delivering'
<1> SUFFICES ASSUME Typed, Delivering, [Next]_vars
             PROVE  Delivering'
  OBVIOUS
<1> USE DEF Typed, Delivering, PullRecord, Planned, Affected, Sources
<1>1. CASE PushStep
  BY <1>1, PushWritesHold DEF PushWrites
<1>2. CASE PullBegins
  BY <1>2 DEF PullBegins, PullIdle
<1>3. CASE PullLeases
  BY <1>3 DEF PullLeases
<1>4. CASE Plan
  BY <1>4 DEF Plan
<1>5. CASE WritesBegin
  BY <1>5 DEF WritesBegin
<1>6. CASE RemovalsBegin
  BY <1>6 DEF RemovalsBegin
<1>7. CASE PullEnds
  BY <1>7 DEF PullEnds, PullReturns, PullIdle
<1>8. CASE PullFails
  BY <1>8 DEF PullFails, PullReturns, PullIdle
<1>9. CASE PullBreaks
  BY <1>9 DEF PullBreaks
<1>10. CASE RollbackEnds
  BY <1>10 DEF RollbackEnds, PullReturns, PullIdle
<1>11. CASE PullCrashes
  BY <1>11 DEF PullCrashes, PullReturns, PullIdle
<1>12. ASSUME NEW f \in Files, Snapshot(f) PROVE Delivering'
  BY <1>12 DEF Snapshot
<1>13. ASSUME NEW f \in Files, Stat(f) PROVE Delivering'
  BY <1>13 DEF Stat
<1>14. ASSUME NEW f \in Files, Move(f) PROVE Delivering'
  BY <1>14 DEF Move
<1>15. ASSUME NEW f \in Files, Remove(f) PROVE Delivering'
  <2>1. /\ pull.at = "remove" /\ pull'.at = "remove" /\ f \in pull.todo
        /\ pull'.todo = pull.todo \ {f} /\ pull'.stale = pull.stale
        /\ pull'.plan = pull.plan
    BY <1>15 DEF Remove, First
  <2>2. later' = later \ {f} /\ src' = [src EXCEPT ![f] = Absent]
    BY <1>15 DEF Remove
  <2>3. src'[f] = Absent /\ \A g \in Files \ {f} : src'[g] = src[g]
    BY <2>2
  <2>4. f \in pull.stale /\ f \notin Planned
    BY <2>1
  <2> HIDE DEF Typed
  <2>5. QED
    BY <2>1, <2>2, <2>3, <2>4
<1>16. ASSUME NEW f \in Files, Unmake(f) PROVE Delivering'
  BY <1>16 DEF Unmake
<1>17. ASSUME NEW f \in Files, Restore(f) PROVE Delivering'
  BY <1>17 DEF Restore
<1>18. ASSUME NEW f \in Files, Remake(f) PROVE Delivering'
  BY <1>18 DEF Remake
<1>19. ASSUME NEW f \in Files, RestoreFails(f) PROVE Delivering'
  BY <1>19 DEF RestoreFails
<1>20. CASE CommandBegins
  BY <1>20 DEF CommandBegins
<1>21. CASE CommandEnds
  BY <1>21 DEF CommandEnds
<1>22. ASSUME NEW f \in Files, Edit(f) PROVE Delivering'
  BY <1>22 DEF Edit
<1>23. ASSUME NEW f \in Files, Save(f) PROVE Delivering'
  BY <1>23 DEF Save
<1>24. CASE UNCHANGED vars
  BY <1>24 DEF vars
<1>25. QED
  BY <1>1, <1>2, <1>3, <1>4, <1>5, <1>6, <1>7, <1>8, <1>9, <1>10, <1>11,
     <1>12, <1>13, <1>14, <1>15, <1>16, <1>17, <1>18, <1>19, <1>20, <1>21,
     <1>22, <1>23, <1>24
  DEF Next, PullStep

-----------------------------------------------------------------------------
(***************************************************************************)
(* The theorems.                                                            *)
(***************************************************************************)
\* The invariant above is one (PushContext, PullContext and whoever is around them).
THEOREM FilePushPullInvariant == Spec => []Inv
<1>1. Init => Inv
  <2> SUFFICES ASSUME Init PROVE Inv
    OBVIOUS
  <2> USE DEF Init
  <2>1. Typed
    <3>1. [Files -> {Absent, 1}] \subseteq Sources
      BY LimitsAssumption DEF Sources, Content, Absent
    <3>2. src \in Sources /\ wb \in [mods : Sources, changes : Nat, stamp : Nat \ {0}]
      BY <3>1
    <3>3. state \in [fingerprint : Sources, stamp : Nat, own : BOOLEAN]
      BY Resting DEF NoState
    <3>4. used \in [edits : 0..EditLimit, saves : 0..SaveLimit, commands : Nat,
                    pushes : Nat, pulls : Nat]
      BY LimitsAssumption
    <3>5. QED
      BY <3>2, <3>3, <3>4, Resting DEF Typed
  <2>2. Held
    BY DEF Held, PushIdle, PullIdle, PushHoldsTree, PushHoldsWorkbook, Mutating
  <2>3. Below
    BY DEF Below, Fresh, PushIdle, PullIdle, NoSources, Nothing, Absent
  <2>4. Settling /\ Kept
    BY DEF Settling, Kept, PushIdle, PushHoldsTree, Mutating
  <2>5. Stamped
    BY DEF Stamped, NoState, PushIdle
  <2>6. Delivering
    BY DEF Delivering, PullIdle
  <2>7. QED
    BY <2>1, <2>2, <2>3, <2>4, <2>5, <2>6 DEF Inv
<1>2. Inv /\ [Next]_vars => Inv'
  BY TypedPreserved, HeldPreserved, BelowPreserved, SettlingPreserved, KeptPreserved,
     StampedPreserved, DeliveringPreserved DEF Inv
<1>3. QED
  BY <1>1, <1>2, PTL DEF Spec

\* Everything has its type, and every lease is held by whoever is between its
\* acquisition and its deferred release (filepush.go:118-183, filepull.go:168-182).
THEOREM TypeOKHolds == Spec => []TypeOK
<1>1. Inv => TypeOK
  <2> SUFFICES ASSUME Inv PROVE TypeOK
    OBVIOUS
  <2>1. PushOK
    BY DEF Inv, Typed, PushRecord, PushPlace, PushOK
  <2>2. PullOK
    BY DEF Inv, Typed, PullRecord, PullOK
  <2>3. QED
    BY <2>1, <2>2 DEF Inv, Typed, Held, TypeOK
<1>2. QED
  BY <1>1, FilePushPullInvariant, PTL

-----------------------------------------------------------------------------
(***************************************************************************)
(* Which steps the action properties speak of.                              *)
(***************************************************************************)
Milestones ==
  /\ push'.skipped /\ ~push.skipped => Skip
  /\ push.at = "publish" /\ push'.at = "stamp" => PublishWorkbook

Reports ==
  pull.at # "idle" /\ pull'.at = "idle" =>
    /\ pull'.result = "ok" => PullEnds
    /\ pull'.result = "failed" => RollbackEnds

\* Only a skip sets the flag, and only the replacement lies between publish and stamp.
LEMMA MilestonesHold ==
  Typed /\ [Next]_vars => Milestones
<1> SUFFICES ASSUME Typed, [Next]_vars
             PROVE  Milestones
  OBVIOUS
<1> USE DEF Typed, PushRecord, Milestones
<1>1. CASE PushBegins
  BY <1>1 DEF PushBegins, PushIdle
<1>2. CASE CaptureFile
  BY <1>2 DEF CaptureFile
<1>3. CASE CaptureEnds
  BY <1>3 DEF CaptureEnds, Files
<1>4. CASE PushLeases
  BY <1>4 DEF PushLeases
<1>5. CASE Skip
  BY <1>5 DEF Skip, PushReturns, PushIdle
<1>6. CASE GoOn
  BY <1>6 DEF GoOn
<1>7. CASE PushTakesWorkbook
  BY <1>7 DEF PushTakesWorkbook
<1>8. CASE ReadTemplate
  BY <1>8 DEF ReadTemplate
<1>9. CASE Backup
  BY <1>9 DEF Backup
<1>10. CASE PublishWorkbook
  BY <1>10 DEF PublishWorkbook
<1>11. CASE ReadStamp
  BY <1>11 DEF ReadStamp
<1>12. CASE WriteState
  BY <1>12 DEF WriteState, PushReturns, PushIdle
<1>13. CASE PushFails
  BY <1>13 DEF PushFails, PushReturns, PushIdle
<1>14. CASE PushCrashes
  BY <1>14 DEF PushCrashes, PushReturns, PushIdle
<1>15. CASE PullStep
  BY <1>15, PullWritesHold DEF PullWrites
<1>16. CASE CommandBegins
  BY <1>16 DEF CommandBegins
<1>17. CASE CommandEnds
  BY <1>17 DEF CommandEnds
<1>18. ASSUME NEW f \in Files, Edit(f) PROVE Milestones
  BY <1>18 DEF Edit
<1>19. ASSUME NEW f \in Files, Save(f) PROVE Milestones
  BY <1>19 DEF Save
<1>20. CASE UNCHANGED vars
  BY <1>20 DEF vars
<1>21. QED
  BY <1>1, <1>2, <1>3, <1>4, <1>5, <1>6, <1>7, <1>8, <1>9, <1>10, <1>11,
     <1>12, <1>13, <1>14, <1>15, <1>16, <1>17, <1>18, <1>19, <1>20
  DEF Next, PushStep

\* A pull says ok at its end alone, and failed at that of a rollback alone.
LEMMA ReportsHold ==
  Typed /\ [Next]_vars => Reports
<1> SUFFICES ASSUME Typed, [Next]_vars
             PROVE  Reports
  OBVIOUS
<1> USE DEF Typed, PullRecord, Reports
<1>1. CASE PushStep
  BY <1>1, PushWritesHold DEF PushWrites
<1>2. CASE PullBegins
  BY <1>2 DEF PullBegins, PullIdle
<1>3. CASE PullLeases
  BY <1>3 DEF PullLeases
<1>4. CASE Plan
  BY <1>4 DEF Plan
<1>5. CASE WritesBegin
  BY <1>5 DEF WritesBegin
<1>6. CASE RemovalsBegin
  BY <1>6 DEF RemovalsBegin
<1>7. CASE PullEnds
  BY <1>7 DEF PullEnds, PullReturns, PullIdle
<1>8. CASE PullFails
  BY <1>8 DEF PullFails, PullReturns, PullIdle
<1>9. CASE PullBreaks
  BY <1>9 DEF PullBreaks
<1>10. CASE RollbackEnds
  BY <1>10 DEF RollbackEnds, PullReturns, PullIdle
<1>11. CASE PullCrashes
  BY <1>11 DEF PullCrashes, PullReturns, PullIdle
<1>12. ASSUME NEW f \in Files, Snapshot(f) PROVE Reports
  BY <1>12 DEF Snapshot
<1>13. ASSUME NEW f \in Files, Stat(f) PROVE Reports
  BY <1>13 DEF Stat
<1>14. ASSUME NEW f \in Files, Move(f) PROVE Reports
  BY <1>14 DEF Move
<1>15. ASSUME NEW f \in Files, Remove(f) PROVE Reports
  BY <1>15 DEF Remove
<1>16. ASSUME NEW f \in Files, Unmake(f) PROVE Reports
  BY <1>16 DEF Unmake
<1>17. ASSUME NEW f \in Files, Restore(f) PROVE Reports
  BY <1>17 DEF Restore
<1>18. ASSUME NEW f \in Files, Remake(f) PROVE Reports
  BY <1>18 DEF Remake
<1>19. ASSUME NEW f \in Files, RestoreFails(f) PROVE Reports
  BY <1>19 DEF RestoreFails
<1>20. CASE CommandBegins
  BY <1>20 DEF CommandBegins
<1>21. CASE CommandEnds
  BY <1>21 DEF CommandEnds
<1>22. ASSUME NEW f \in Files, Edit(f) PROVE Reports
  BY <1>22 DEF Edit
<1>23. ASSUME NEW f \in Files, Save(f) PROVE Reports
  BY <1>23 DEF Save
<1>24. CASE UNCHANGED vars
  BY <1>24 DEF vars
<1>25. QED
  BY <1>1, <1>2, <1>3, <1>4, <1>5, <1>6, <1>7, <1>8, <1>9, <1>10, <1>11,
     <1>12, <1>13, <1>14, <1>15, <1>16, <1>17, <1>18, <1>19, <1>20, <1>21,
     <1>22, <1>23, <1>24
  DEF Next, PullStep

-----------------------------------------------------------------------------
\* What a push publishes is the tree as it stood at the end of its second capture,
\* under the lease and with no pull half-way (filepush.go:114-213).
THEOREM PublishesSettledTreeHolds == Spec => PublishesSettledTree
<1> DEFINE A == push.at = "publish" /\ push'.at = "stamp" =>
                  /\ wb'.mods = push.tree
                  /\ push.settled
<1>1. Inv /\ [Next]_vars => A
  <2> SUFFICES ASSUME Inv, [Next]_vars, push.at = "publish", push'.at = "stamp"
               PROVE  wb'.mods = push.tree /\ push.settled
    OBVIOUS
  <2>1. PublishWorkbook
    BY MilestonesHold DEF Inv, Milestones
  <2>2. wb'.mods = push.prior
    BY <2>1 DEF PublishWorkbook
  <2>3. push.prior = push.tree /\ push.settled
    BY DEF Inv, Settling, PushHoldsTree, Mutating
  <2>4. QED
    BY <2>2, <2>3
<1>2. QED
  BY <1>1, FilePushPullInvariant, PTL DEF Spec, PublishesSettledTree

\* A push that skips finds in the workbook the modules it captured, unless another
\* program saved between the replacement and its stamp (fingerprint.go:252-319).
THEOREM SkipIsTrueHolds == Spec => SkipIsTrue
<1> DEFINE A == push'.skipped /\ ~push.skipped /\ state.own => wb.mods = push.prior
<1>1. Inv /\ [Next]_vars => A
  <2> SUFFICES ASSUME Inv, [Next]_vars, push'.skipped, ~push.skipped, state.own
               PROVE  wb.mods = push.prior
    OBVIOUS
  <2>1. Skip
    BY MilestonesHold DEF Inv, Milestones
  <2>2. QED
    BY <2>1 DEF Skip, Covered, Inv, Stamped
<1>2. QED
  BY <1>1, FilePushPullInvariant, PTL DEF Spec, SkipIsTrue

\* The replacement keeps what commands made of the rest of the workbook
\* (filepush.go:168-226).
THEOREM CommandsSurviveHolds == Spec => CommandsSurvive
<1> DEFINE A == push.at = "publish" /\ push'.at = "stamp" => wb'.changes = wb.changes
<1>1. Inv /\ [Next]_vars => A
  <2> SUFFICES ASSUME Inv, [Next]_vars, push.at = "publish", push'.at = "stamp"
               PROVE  wb'.changes = wb.changes
    OBVIOUS
  <2>1. PublishWorkbook
    BY MilestonesHold DEF Inv, Milestones
  <2>2. push.changes = wb.changes
    BY DEF Inv, Kept
  <2>3. QED
    BY <2>1, <2>2 DEF PublishWorkbook
<1>2. QED
  BY <1>1, FilePushPullInvariant, PTL DEF Spec, CommandsSurvive

\* A pull that succeeds leaves the planned modules, one that rolled back the
\* originals, but for reported failures and what others wrote since
\* (filepull/publish.go:21-147).
THEOREM PullDeliversHolds == Spec => PullDelivers
<1> DEFINE A == pull.at # "idle" /\ pull'.at = "idle" =>
       /\ pull'.result = "ok" =>
            \A f \in Files \ later : src[f] = pull.plan[f]
       /\ pull'.result = "failed" =>
            \A f \in Affected \ (pull.errs \cup later) : src[f] = pull.orig[f]
<1>1. Inv /\ [Next]_vars => A
  <2> SUFFICES ASSUME Inv, [Next]_vars, pull.at # "idle", pull'.at = "idle"
               PROVE  A
    OBVIOUS
  <2>1. Reports
    BY ReportsHold DEF Inv
  <2>2. ASSUME PullEnds PROVE \A f \in Files \ later : src[f] = pull.plan[f]
    <3> SUFFICES ASSUME NEW f \in Files \ later PROVE src[f] = pull.plan[f]
      OBVIOUS
    <3>1. pull.at = "remove" /\ pull.todo = {}
      BY <2>2 DEF PullEnds
    <3>2. CASE f \in Planned
      BY <3>1, <3>2 DEF Inv, Delivering
    <3>3. CASE f \notin Planned
      BY <3>1, <3>3 DEF Inv, Delivering, Affected, Planned
    <3>4. QED
      BY <3>2, <3>3
  <2>3. ASSUME RollbackEnds
        PROVE  \A f \in Affected \ (pull.errs \cup later) : src[f] = pull.orig[f]
    <3>1. pull.at = "restore" /\ pull.todo = {}
      BY <2>3 DEF RollbackEnds
    <3>2. Affected \subseteq Files
      BY DEF Affected, Planned, Inv, Typed, PullRecord
    <3>3. QED
      BY <3>1, <3>2 DEF Inv, Delivering
  <2>4. QED
    BY <2>1, <2>2, <2>3 DEF Reports
<1>2. QED
  BY <1>1, FilePushPullInvariant, PTL DEF Spec, PullDelivers
=============================================================================
