-------------------------- MODULE CommandLeaseProofs --------------------------
(***************************************************************************)
(* Proofs about CommandLease, for every set of processes, number of         *)
(* workbooks, set of recovery generations and set of commands on offer.     *)
(***************************************************************************)
EXTENDS CommandLease, WellFoundedInduction, TLAPS


-----------------------------------------------------------------------------
(***************************************************************************)
(* The inductive invariants, in the order in which they rest on each other. *)
(***************************************************************************)
\* Where a process stands tells which leases it has.  A command in its body has
\* all of its own; an operation, a check or a clear has the workbook it is at;
\* a cleanup has all it is about to clear; an idle process has none.
AtLabel == {"check", "bridge", "publish", "examine", "verify", "clear", "clCheck"}
ClearLabel == {"clEnum", "clEnumFailed", "clClear"}

LeasesHeld ==
  \A p \in Proc :
    /\ pc[p] = "idle" => Held(p) = {}
    /\ pc[p] \in Inside \cup ClearLabel => targets[p] \subseteq Held(p)
    /\ pc[p] \in AtLabel => at[p] \in Held(p)

\* Only a process itself takes and gives back its leases.
LEMMA LeasesPreserved ==
  TypeOK /\ LeasesHeld /\ [Next]_vars => LeasesHeld'
<1> SUFFICES ASSUME TypeOK, LeasesHeld, [Next]_vars PROVE LeasesHeld'
  OBVIOUS
<1> USE NoProcAssumption DEF TypeOK, LeasesHeld, Label, Held, NextTarget, Take, GoTo, Forget, Finish, Leave,
        AtLabel, ClearLabel, Inside, disk, call
<1>1. ASSUME NEW p \in Proc, Start(p) PROVE LeasesHeld'
  BY <1>1 DEF Start
<1>2. ASSUME NEW p \in Proc, SpendBudget(p) PROVE LeasesHeld'
  BY <1>2 DEF SpendBudget
<1>3. ASSUME NEW p \in Proc, WaitGivesUp(p) PROVE LeasesHeld'
  BY <1>3 DEF WaitGivesUp
<1>4. ASSUME NEW p \in Proc, CheckPasses(p) PROVE LeasesHeld'
  BY <1>4 DEF CheckPasses
<1>5. ASSUME NEW p \in Proc, CheckFails(p) PROVE LeasesHeld'
  BY <1>5 DEF CheckFails
<1>6. ASSUME NEW p \in Proc, Return(p) PROVE LeasesHeld'
  BY <1>6 DEF Return
<1>7. ASSUME NEW p \in Proc, BodyEnds(p) PROVE LeasesHeld'
  BY <1>7 DEF BodyEnds
<1>8. ASSUME NEW p \in Proc, BridgeReturns(p) PROVE LeasesHeld'
  BY <1>8 DEF BridgeReturns
<1>9. ASSUME NEW p \in Proc, BridgeUncertain(p) PROVE LeasesHeld'
  BY <1>9 DEF BridgeUncertain
<1>10. ASSUME NEW p \in Proc, Publish(p) PROVE LeasesHeld'
  BY <1>10 DEF Publish
<1>11. ASSUME NEW p \in Proc, PublishFails(p) PROVE LeasesHeld'
  BY <1>11 DEF PublishFails
<1>12. ASSUME NEW p \in Proc, DiscardConfirmed(p) PROVE LeasesHeld'
  BY <1>12 DEF DiscardConfirmed
<1>13. ASSUME NEW p \in Proc, NEW w \in Workbook, Acquire(p, w) PROVE LeasesHeld'
  BY <1>13 DEF Acquire
<1>14. ASSUME NEW p \in Proc, NEW w \in Workbook, AcquireBusy(p, w) PROVE LeasesHeld'
  BY <1>14 DEF AcquireBusy
<1>15. ASSUME NEW p \in Proc, NEW w \in Workbook, WaitAcquire(p, w) PROVE LeasesHeld'
  BY <1>15 DEF WaitAcquire
<1>16. ASSUME NEW p \in Proc, NEW w \in Workbook, Release(p, w) PROVE LeasesHeld'
  BY <1>16 DEF Release
<1>17. ASSUME NEW p \in Proc, NEW w \in Workbook, BridgeStarts(p, w) PROVE LeasesHeld'
  BY <1>17 DEF BridgeStarts
<1>18. ASSUME NEW p \in Proc, ClearBegins(p) PROVE LeasesHeld'
  BY <1>18 DEF ClearBegins
<1>19. ASSUME NEW p \in Proc, Examine(p) PROVE LeasesHeld'
  <2>1. CASE Finish(p)
    BY <1>19, <2>1 DEF Examine
  <2>2. CASE /\ examined' = [examined EXCEPT ![p][at[p]] = marker[at[p]]]
             /\ GoTo(p, IF cmd[p] = "clear" THEN "verify" ELSE "clear")
             /\ UNCHANGED <<call, at, budget>>
    BY <1>19, <2>2 DEF Examine
  <2>3. QED
    BY <1>19, <2>1, <2>2 DEF Examine
<1>20. ASSUME NEW p \in Proc, VerifyPasses(p) PROVE LeasesHeld'
  BY <1>20 DEF VerifyPasses
<1>21. ASSUME NEW p \in Proc, VerifyFails(p) PROVE LeasesHeld'
  BY <1>21 DEF VerifyFails
<1>22. ASSUME NEW p \in Proc, Clear(p) PROVE LeasesHeld'
  BY <1>22 DEF Clear
<1>23. ASSUME NEW p \in Proc, CleanupStart(p) PROVE LeasesHeld'
  BY <1>23 DEF CleanupStart
<1>a. ASSUME NEW p \in Proc, NEW w \in Workbook, CleanupRead(p, w) PROVE LeasesHeld'
  BY <1>a DEF CleanupRead
<1>b. ASSUME NEW p \in Proc, CleanupListed(p) PROVE LeasesHeld'
  BY <1>b DEF CleanupListed
<1>24. ASSUME NEW p \in Proc, CleanupFails(p) PROVE LeasesHeld'
  BY <1>24 DEF CleanupFails
<1>25. ASSUME NEW p \in Proc, CleanupCheck(p) PROVE LeasesHeld'
  BY <1>25 DEF CleanupCheck
<1>26. ASSUME NEW p \in Proc, CleanupReady(p) PROVE LeasesHeld'
  BY <1>26 DEF CleanupReady
<1>27. ASSUME NEW p \in Proc, CleanupRun(p) PROVE LeasesHeld'
  BY <1>27 DEF CleanupRun
<1>28. ASSUME NEW p \in Proc, CleanupEnum(p) PROVE LeasesHeld'
  BY <1>28 DEF CleanupEnum
<1>29. ASSUME NEW p \in Proc, CleanupEnds(p) PROVE LeasesHeld'
  BY <1>29 DEF CleanupEnds
<1>30. ASSUME NEW p \in Proc, NEW w \in Workbook, CleanupAcquire(p, w) PROVE LeasesHeld'
  BY <1>30 DEF CleanupAcquire
<1>31. ASSUME NEW p \in Proc, NEW w \in Workbook, CleanupClear(p, w) PROVE LeasesHeld'
  BY <1>31 DEF CleanupClear
<1>32. ASSUME NEW w \in Workbook, ExcelEnds(w) PROVE LeasesHeld'
  BY <1>32 DEF ExcelEnds
<1>33. ASSUME NEW w \in Workbook, MarkerSpoils(w) PROVE LeasesHeld'
  BY <1>33 DEF MarkerSpoils
<1>34. ASSUME NEW p \in Proc, Crash(p) PROVE LeasesHeld'
  BY <1>34 DEF Crash
<1>35. CASE UNCHANGED vars
  BY <1>35 DEF vars, disk, call
<1> HIDE DEF LeasesHeld
<1>36. QED
  BY <1>1, <1>2, <1>3, <1>4, <1>5, <1>6, <1>7, <1>8, <1>9, <1>10, <1>11,
     <1>12, <1>13, <1>14, <1>15, <1>16, <1>17, <1>18, <1>19, <1>20, <1>21,
     <1>22, <1>23, <1>a, <1>b, <1>24, <1>25, <1>26, <1>27, <1>28, <1>29, <1>30, <1>31,
     <1>32, <1>33, <1>34, <1>35
  DEF Next, CommandStep, RecoveryStep, CleanupStep

\* Every action keeps every variable in its type.
LEMMA TypePreserved ==
  TypeOK /\ LeasesHeld /\ [Next]_vars => TypeOK'
<1> SUFFICES ASSUME TypeOK, LeasesHeld, [Next]_vars PROVE TypeOK'
  OBVIOUS
<1> USE OfferedAssumption DEF TypeOK, Label, Held, NextTarget, Take, GoTo, Forget, Finish, Leave,
        NothingExamined, Marker, ValidMarker, Command, NormalCommand, LeasesHeld, AtLabel, disk, call
<1>1. ASSUME NEW p \in Proc, Start(p) PROVE TypeOK'
  BY <1>1 DEF Start
<1>2. ASSUME NEW p \in Proc, SpendBudget(p) PROVE TypeOK'
  BY <1>2 DEF SpendBudget
<1>3. ASSUME NEW p \in Proc, WaitGivesUp(p) PROVE TypeOK'
  BY <1>3 DEF WaitGivesUp
<1>4. ASSUME NEW p \in Proc, CheckPasses(p) PROVE TypeOK'
  <2>1. CASE Leave(p, "body")
    BY <1>4, <2>1 DEF CheckPasses
  <2>2. CASE Leave(p, "acquire")
    BY <1>4, <2>2 DEF CheckPasses
  <2>3. QED
    BY <1>4, <2>1, <2>2 DEF CheckPasses
<1>5. ASSUME NEW p \in Proc, CheckFails(p) PROVE TypeOK'
  BY <1>5 DEF CheckFails
<1>6. ASSUME NEW p \in Proc, Return(p) PROVE TypeOK'
  BY <1>6 DEF Return
<1>7. ASSUME NEW p \in Proc, BodyEnds(p) PROVE TypeOK'
  BY <1>7 DEF BodyEnds
<1>8. ASSUME NEW p \in Proc, BridgeReturns(p) PROVE TypeOK'
  BY <1>8 DEF BridgeReturns
<1>9. ASSUME NEW p \in Proc, BridgeUncertain(p) PROVE TypeOK'
  BY <1>9 DEF BridgeUncertain
<1>10. ASSUME NEW p \in Proc, Publish(p) PROVE TypeOK'
  <2>1. marker' \in [Workbook -> Marker]
    BY <1>10 DEF Publish
  <2>2. QED
    BY <1>10, <2>1 DEF Publish
<1>11. ASSUME NEW p \in Proc, PublishFails(p) PROVE TypeOK'
  BY <1>11 DEF PublishFails
<1>12. ASSUME NEW p \in Proc, DiscardConfirmed(p) PROVE TypeOK'
  BY <1>12 DEF DiscardConfirmed
<1>13. ASSUME NEW p \in Proc, NEW w \in Workbook, Acquire(p, w) PROVE TypeOK'
  BY <1>13 DEF Acquire
<1>14. ASSUME NEW p \in Proc, NEW w \in Workbook, AcquireBusy(p, w) PROVE TypeOK'
  <2>1. CASE waits[p] /\ GoTo(p, "wait") /\ budget' = [budget EXCEPT ![p] = "running"]
                /\ UNCHANGED <<call, at, examined>>
    BY <1>14, <2>1 DEF AcquireBusy
  <2>2. CASE Finish(p)
    BY <1>14, <2>2 DEF AcquireBusy
  <2>3. QED
    BY <1>14, <2>1, <2>2 DEF AcquireBusy
<1>15. ASSUME NEW p \in Proc, NEW w \in Workbook, WaitAcquire(p, w) PROVE TypeOK'
  <2>1. CASE GoTo(p, "check") /\ at' = [at EXCEPT ![p] = w]
                /\ UNCHANGED <<call, budget, examined>>
    BY <1>15, <2>1 DEF WaitAcquire
  <2>2. CASE Finish(p)
    BY <1>15, <2>2 DEF WaitAcquire
  <2>3. QED
    BY <1>15, <2>1, <2>2 DEF WaitAcquire
<1>16. ASSUME NEW p \in Proc, NEW w \in Workbook, Release(p, w) PROVE TypeOK'
  BY <1>16 DEF Release
<1>17. ASSUME NEW p \in Proc, NEW w \in Workbook, BridgeStarts(p, w) PROVE TypeOK'
  BY <1>17 DEF BridgeStarts
<1>18. ASSUME NEW p \in Proc, ClearBegins(p) PROVE TypeOK'
  BY <1>18 DEF ClearBegins
<1>19. ASSUME NEW p \in Proc, Examine(p) PROVE TypeOK'
  <2>1. CASE Finish(p)
    BY <1>19, <2>1 DEF Examine
  <2>2. CASE /\ examined' = [examined EXCEPT ![p][at[p]] = marker[at[p]]]
             /\ GoTo(p, IF cmd[p] = "clear" THEN "verify" ELSE "clear")
             /\ UNCHANGED <<call, at, budget>>
    BY <1>19, <2>2 DEF Examine
  <2>3. QED
    BY <1>19, <2>1, <2>2 DEF Examine
<1>20. ASSUME NEW p \in Proc, VerifyPasses(p) PROVE TypeOK'
  BY <1>20 DEF VerifyPasses
<1>21. ASSUME NEW p \in Proc, VerifyFails(p) PROVE TypeOK'
  BY <1>21 DEF VerifyFails
<1>22. ASSUME NEW p \in Proc, Clear(p) PROVE TypeOK'
  <2>1. marker' \in [Workbook -> Marker] /\ excused' \in SUBSET Workbook
    BY <1>22 DEF Clear
  <2>2. QED
    BY <1>22, <2>1 DEF Clear
<1>23. ASSUME NEW p \in Proc, CleanupStart(p) PROVE TypeOK'
  BY <1>23 DEF CleanupStart
<1>a. ASSUME NEW p \in Proc, NEW w \in Workbook, CleanupRead(p, w) PROVE TypeOK'
  BY <1>a DEF CleanupRead
<1>b. ASSUME NEW p \in Proc, CleanupListed(p) PROVE TypeOK'
  BY <1>b DEF CleanupListed
<1>24. ASSUME NEW p \in Proc, CleanupFails(p) PROVE TypeOK'
  BY <1>24 DEF CleanupFails
<1>25. ASSUME NEW p \in Proc, CleanupCheck(p) PROVE TypeOK'
  <2>1. at[p] \in Workbook
    BY <1>25 DEF CleanupCheck
  <2>2. CASE UNCHANGED <<lease, targets>>
    BY <1>25, <2>2 DEF CleanupCheck
  <2>3. CASE /\ lease' = [lease EXCEPT ![at[p]] = NoProc]
             /\ targets' = [targets EXCEPT ![p] = @ \ {at[p]}]
    BY <1>25, <2>1, <2>3 DEF CleanupCheck
  <2>4. QED
    BY <1>25, <2>2, <2>3 DEF CleanupCheck
<1>26. ASSUME NEW p \in Proc, CleanupReady(p) PROVE TypeOK'
  BY <1>26 DEF CleanupReady
<1>27. ASSUME NEW p \in Proc, CleanupRun(p) PROVE TypeOK'
  BY <1>27 DEF CleanupRun
<1>28. ASSUME NEW p \in Proc, CleanupEnum(p) PROVE TypeOK'
  <2>1. Held(p) \in SUBSET Workbook
    OBVIOUS
  <2>2. targets' = targets \/ targets' = [targets EXCEPT ![p] = Held(p)]
    BY <1>28 DEF CleanupEnum
  <2> HIDE DEF Held
  <2>3. targets' \in [Proc -> SUBSET Workbook]
    BY <2>1, <2>2
  <2>4. QED
    BY <1>28, <2>3 DEF CleanupEnum
<1>29. ASSUME NEW p \in Proc, CleanupEnds(p) PROVE TypeOK'
  BY <1>29 DEF CleanupEnds
<1>30. ASSUME NEW p \in Proc, NEW w \in Workbook, CleanupAcquire(p, w) PROVE TypeOK'
  BY <1>30 DEF CleanupAcquire
<1>31. ASSUME NEW p \in Proc, NEW w \in Workbook, CleanupClear(p, w) PROVE TypeOK'
  BY <1>31 DEF CleanupClear
<1>32. ASSUME NEW w \in Workbook, ExcelEnds(w) PROVE TypeOK'
  BY <1>32 DEF ExcelEnds
<1>33. ASSUME NEW w \in Workbook, MarkerSpoils(w) PROVE TypeOK'
  BY <1>33 DEF MarkerSpoils
<1>34. ASSUME NEW p \in Proc, Crash(p) PROVE TypeOK'
  <2>1. /\ lease' \in [Workbook -> Proc \cup {NoProc}]
        /\ excel' \in [Workbook -> {"quiet", "uncertain"}]
        /\ excused' \in SUBSET Workbook
    BY <1>34 DEF Crash
  <2>2. QED
    BY <1>34, <2>1 DEF Crash
<1>35. CASE UNCHANGED vars
  BY <1>35 DEF vars, disk, call
<1> HIDE DEF TypeOK
<1>36. QED
  BY <1>1, <1>2, <1>3, <1>4, <1>5, <1>6, <1>7, <1>8, <1>9, <1>10, <1>11,
     <1>12, <1>13, <1>14, <1>15, <1>16, <1>17, <1>18, <1>19, <1>20, <1>21,
     <1>22, <1>23, <1>a, <1>b, <1>24, <1>25, <1>26, <1>27, <1>28, <1>29, <1>30, <1>31,
     <1>32, <1>33, <1>34, <1>35
  DEF Next, CommandStep, RecoveryStep, CleanupStep

\* Excel is quiet where a marker is about to be cleared without force.
QuietWhereCleared ==
  \A p \in Proc :
    /\ pc[p] = "examine" /\ cmd[p] \notin {"clear", "forceClear"} => excel[at[p]] = "quiet"
    /\ pc[p] = "clear" /\ cmd[p] # "forceClear" => excel[at[p]] = "quiet"
    /\ pc[p] \in ClearLabel => \A w \in targets[p] : excel[w] = "quiet"

\* Excel becomes uncertain on a workbook only by its lease holder, and while a
\* marker is being cleared that is somebody who is not working in Excel.
LEMMA QuietPreserved ==
  TypeOK /\ LeasesHeld /\ QuietWhereCleared /\ [Next]_vars => QuietWhereCleared'
<1> SUFFICES ASSUME TypeOK, LeasesHeld, QuietWhereCleared, [Next]_vars PROVE QuietWhereCleared'
  OBVIOUS
<1> USE NoProcAssumption DEF TypeOK, LeasesHeld, QuietWhereCleared, Label, Held, NextTarget, Take, GoTo,
        Forget, Finish, Leave, AtLabel, ClearLabel, Inside, disk, call
<1>1. ASSUME NEW p \in Proc, Start(p) PROVE QuietWhereCleared'
  BY <1>1 DEF Start
<1>2. ASSUME NEW p \in Proc, SpendBudget(p) PROVE QuietWhereCleared'
  BY <1>2 DEF SpendBudget
<1>3. ASSUME NEW p \in Proc, WaitGivesUp(p) PROVE QuietWhereCleared'
  BY <1>3 DEF WaitGivesUp
<1>4. ASSUME NEW p \in Proc, CheckPasses(p) PROVE QuietWhereCleared'
  BY <1>4 DEF CheckPasses
<1>5. ASSUME NEW p \in Proc, CheckFails(p) PROVE QuietWhereCleared'
  BY <1>5 DEF CheckFails
<1>6. ASSUME NEW p \in Proc, Return(p) PROVE QuietWhereCleared'
  BY <1>6 DEF Return
<1>7. ASSUME NEW p \in Proc, BodyEnds(p) PROVE QuietWhereCleared'
  BY <1>7 DEF BodyEnds
<1>8. ASSUME NEW p \in Proc, BridgeReturns(p) PROVE QuietWhereCleared'
  BY <1>8 DEF BridgeReturns
<1>9. ASSUME NEW p \in Proc, BridgeUncertain(p) PROVE QuietWhereCleared'
  BY <1>9 DEF BridgeUncertain
<1>10. ASSUME NEW p \in Proc, Publish(p) PROVE QuietWhereCleared'
  BY <1>10 DEF Publish
<1>11. ASSUME NEW p \in Proc, PublishFails(p) PROVE QuietWhereCleared'
  BY <1>11 DEF PublishFails
<1>12. ASSUME NEW p \in Proc, DiscardConfirmed(p) PROVE QuietWhereCleared'
  BY <1>12 DEF DiscardConfirmed
<1>13. ASSUME NEW p \in Proc, NEW w \in Workbook, Acquire(p, w) PROVE QuietWhereCleared'
  BY <1>13 DEF Acquire
<1>14. ASSUME NEW p \in Proc, NEW w \in Workbook, AcquireBusy(p, w) PROVE QuietWhereCleared'
  BY <1>14 DEF AcquireBusy
<1>15. ASSUME NEW p \in Proc, NEW w \in Workbook, WaitAcquire(p, w) PROVE QuietWhereCleared'
  <2>1. CASE GoTo(p, "check") /\ at' = [at EXCEPT ![p] = w]
                /\ UNCHANGED <<call, budget, examined>>
    BY <1>15, <2>1 DEF WaitAcquire
  <2>2. CASE Finish(p)
    BY <1>15, <2>2 DEF WaitAcquire
  <2>3. QED
    BY <1>15, <2>1, <2>2 DEF WaitAcquire
<1>16. ASSUME NEW p \in Proc, NEW w \in Workbook, Release(p, w) PROVE QuietWhereCleared'
  BY <1>16 DEF Release
<1>17. ASSUME NEW p \in Proc, NEW w \in Workbook, BridgeStarts(p, w) PROVE QuietWhereCleared'
  BY <1>17 DEF BridgeStarts
<1>18. ASSUME NEW p \in Proc, ClearBegins(p) PROVE QuietWhereCleared'
  BY <1>18 DEF ClearBegins
<1>19. ASSUME NEW p \in Proc, Examine(p) PROVE QuietWhereCleared'
  BY <1>19 DEF Examine
<1>20. ASSUME NEW p \in Proc, VerifyPasses(p) PROVE QuietWhereCleared'
  BY <1>20 DEF VerifyPasses
<1>21. ASSUME NEW p \in Proc, VerifyFails(p) PROVE QuietWhereCleared'
  BY <1>21 DEF VerifyFails
<1>22. ASSUME NEW p \in Proc, Clear(p) PROVE QuietWhereCleared'
  BY <1>22 DEF Clear
<1>23. ASSUME NEW p \in Proc, CleanupStart(p) PROVE QuietWhereCleared'
  BY <1>23 DEF CleanupStart
<1>a. ASSUME NEW p \in Proc, NEW w \in Workbook, CleanupRead(p, w) PROVE QuietWhereCleared'
  BY <1>a DEF CleanupRead
<1>b. ASSUME NEW p \in Proc, CleanupListed(p) PROVE QuietWhereCleared'
  BY <1>b DEF CleanupListed
<1>24. ASSUME NEW p \in Proc, CleanupFails(p) PROVE QuietWhereCleared'
  BY <1>24 DEF CleanupFails
<1>25. ASSUME NEW p \in Proc, CleanupCheck(p) PROVE QuietWhereCleared'
  BY <1>25 DEF CleanupCheck
<1>26. ASSUME NEW p \in Proc, CleanupReady(p) PROVE QuietWhereCleared'
  BY <1>26 DEF CleanupReady
<1>27. ASSUME NEW p \in Proc, CleanupRun(p) PROVE QuietWhereCleared'
  BY <1>27 DEF CleanupRun
<1>28. ASSUME NEW p \in Proc, CleanupEnum(p) PROVE QuietWhereCleared'
  BY <1>28 DEF CleanupEnum
<1>29. ASSUME NEW p \in Proc, CleanupEnds(p) PROVE QuietWhereCleared'
  BY <1>29 DEF CleanupEnds
<1>30. ASSUME NEW p \in Proc, NEW w \in Workbook, CleanupAcquire(p, w) PROVE QuietWhereCleared'
  BY <1>30 DEF CleanupAcquire
<1>31. ASSUME NEW p \in Proc, NEW w \in Workbook, CleanupClear(p, w) PROVE QuietWhereCleared'
  BY <1>31 DEF CleanupClear
<1>32. ASSUME NEW w \in Workbook, ExcelEnds(w) PROVE QuietWhereCleared'
  BY <1>32 DEF ExcelEnds
<1>33. ASSUME NEW w \in Workbook, MarkerSpoils(w) PROVE QuietWhereCleared'
  BY <1>33 DEF MarkerSpoils
<1>34. ASSUME NEW p \in Proc, Crash(p) PROVE QuietWhereCleared'
  BY <1>34 DEF Crash
<1>35. CASE UNCHANGED vars
  BY <1>35 DEF vars, disk, call
<1> HIDE DEF QuietWhereCleared
<1>36. QED
  BY <1>1, <1>2, <1>3, <1>4, <1>5, <1>6, <1>7, <1>8, <1>9, <1>10, <1>11,
     <1>12, <1>13, <1>14, <1>15, <1>16, <1>17, <1>18, <1>19, <1>20, <1>21,
     <1>22, <1>23, <1>a, <1>b, <1>24, <1>25, <1>26, <1>27, <1>28, <1>29, <1>30, <1>31,
     <1>32, <1>33, <1>34, <1>35
  DEF Next, CommandStep, RecoveryStep, CleanupStep

\* A marker goes only where Excel is quiet or the loss is owned up to.
LEMMA QuarantinePreserved ==
  TypeOK /\ LeasesHeld /\ QuietWhereCleared /\ UncertainIsQuarantined /\ [Next]_vars
    => UncertainIsQuarantined'
<1> SUFFICES ASSUME TypeOK, LeasesHeld, QuietWhereCleared, UncertainIsQuarantined, [Next]_vars PROVE UncertainIsQuarantined'
  OBVIOUS
<1> USE NoProcAssumption, MarkerAssumption DEF TypeOK, LeasesHeld, QuietWhereCleared, UncertainIsQuarantined,
        Label, Held, NextTarget, Take, GoTo, Forget, Finish, Leave, AtLabel, ClearLabel, Inside,
        ValidMarker, disk, call
<1>1. ASSUME NEW p \in Proc, Start(p) PROVE UncertainIsQuarantined'
  BY <1>1 DEF Start
<1>2. ASSUME NEW p \in Proc, SpendBudget(p) PROVE UncertainIsQuarantined'
  BY <1>2 DEF SpendBudget
<1>3. ASSUME NEW p \in Proc, WaitGivesUp(p) PROVE UncertainIsQuarantined'
  BY <1>3 DEF WaitGivesUp
<1>4. ASSUME NEW p \in Proc, CheckPasses(p) PROVE UncertainIsQuarantined'
  BY <1>4 DEF CheckPasses
<1>5. ASSUME NEW p \in Proc, CheckFails(p) PROVE UncertainIsQuarantined'
  BY <1>5 DEF CheckFails
<1>6. ASSUME NEW p \in Proc, Return(p) PROVE UncertainIsQuarantined'
  BY <1>6 DEF Return
<1>7. ASSUME NEW p \in Proc, BodyEnds(p) PROVE UncertainIsQuarantined'
  BY <1>7 DEF BodyEnds
<1>8. ASSUME NEW p \in Proc, BridgeReturns(p) PROVE UncertainIsQuarantined'
  BY <1>8 DEF BridgeReturns
<1>9. ASSUME NEW p \in Proc, BridgeUncertain(p) PROVE UncertainIsQuarantined'
  BY <1>9 DEF BridgeUncertain
<1>10. ASSUME NEW p \in Proc, Publish(p) PROVE UncertainIsQuarantined'
  BY <1>10 DEF Publish
<1>11. ASSUME NEW p \in Proc, PublishFails(p) PROVE UncertainIsQuarantined'
  BY <1>11 DEF PublishFails
<1>12. ASSUME NEW p \in Proc, DiscardConfirmed(p) PROVE UncertainIsQuarantined'
  BY <1>12 DEF DiscardConfirmed
<1>13. ASSUME NEW p \in Proc, NEW w \in Workbook, Acquire(p, w) PROVE UncertainIsQuarantined'
  BY <1>13 DEF Acquire
<1>14. ASSUME NEW p \in Proc, NEW w \in Workbook, AcquireBusy(p, w) PROVE UncertainIsQuarantined'
  BY <1>14 DEF AcquireBusy
<1>15. ASSUME NEW p \in Proc, NEW w \in Workbook, WaitAcquire(p, w) PROVE UncertainIsQuarantined'
  BY <1>15 DEF WaitAcquire
<1>16. ASSUME NEW p \in Proc, NEW w \in Workbook, Release(p, w) PROVE UncertainIsQuarantined'
  BY <1>16 DEF Release
<1>17. ASSUME NEW p \in Proc, NEW w \in Workbook, BridgeStarts(p, w) PROVE UncertainIsQuarantined'
  BY <1>17 DEF BridgeStarts
<1>18. ASSUME NEW p \in Proc, ClearBegins(p) PROVE UncertainIsQuarantined'
  BY <1>18 DEF ClearBegins
<1>19. ASSUME NEW p \in Proc, Examine(p) PROVE UncertainIsQuarantined'
  BY <1>19 DEF Examine
<1>20. ASSUME NEW p \in Proc, VerifyPasses(p) PROVE UncertainIsQuarantined'
  BY <1>20 DEF VerifyPasses
<1>21. ASSUME NEW p \in Proc, VerifyFails(p) PROVE UncertainIsQuarantined'
  BY <1>21 DEF VerifyFails
<1>22. ASSUME NEW p \in Proc, Clear(p) PROVE UncertainIsQuarantined'
  BY <1>22 DEF Clear
<1>23. ASSUME NEW p \in Proc, CleanupStart(p) PROVE UncertainIsQuarantined'
  BY <1>23 DEF CleanupStart
<1>a. ASSUME NEW p \in Proc, NEW w \in Workbook, CleanupRead(p, w) PROVE UncertainIsQuarantined'
  BY <1>a DEF CleanupRead
<1>b. ASSUME NEW p \in Proc, CleanupListed(p) PROVE UncertainIsQuarantined'
  BY <1>b DEF CleanupListed
<1>24. ASSUME NEW p \in Proc, CleanupFails(p) PROVE UncertainIsQuarantined'
  BY <1>24 DEF CleanupFails
<1>25. ASSUME NEW p \in Proc, CleanupCheck(p) PROVE UncertainIsQuarantined'
  <2>1. UNCHANGED <<marker, excel, excused>>
    BY <1>25 DEF CleanupCheck
  <2>2. ASSUME NEW q \in Proc, pc[q] = "publish"
        PROVE  q # p /\ pc'[q] = "publish" /\ at'[q] = at[q]
    BY <1>25, <2>2 DEF CleanupCheck
  <2>3. ASSUME NEW q \in Proc, NEW w \in Workbook, q # p, lease[w] = q
        PROVE  lease'[w] = q
    <3>1. lease[at[p]] = p
      BY <1>25 DEF CleanupCheck
    <3>2. lease' \in {lease, [lease EXCEPT ![at[p]] = NoProc]}
      BY <1>25 DEF CleanupCheck
    <3>3. QED
      BY <2>3, <3>1, <3>2
  <2>4. QED
    BY <2>1, <2>2, <2>3
<1>26. ASSUME NEW p \in Proc, CleanupReady(p) PROVE UncertainIsQuarantined'
  BY <1>26 DEF CleanupReady
<1>27. ASSUME NEW p \in Proc, CleanupRun(p) PROVE UncertainIsQuarantined'
  BY <1>27 DEF CleanupRun
<1>28. ASSUME NEW p \in Proc, CleanupEnum(p) PROVE UncertainIsQuarantined'
  BY <1>28 DEF CleanupEnum
<1>29. ASSUME NEW p \in Proc, CleanupEnds(p) PROVE UncertainIsQuarantined'
  BY <1>29 DEF CleanupEnds
<1>30. ASSUME NEW p \in Proc, NEW w \in Workbook, CleanupAcquire(p, w) PROVE UncertainIsQuarantined'
  BY <1>30 DEF CleanupAcquire
<1>31. ASSUME NEW p \in Proc, NEW w \in Workbook, CleanupClear(p, w) PROVE UncertainIsQuarantined'
  BY <1>31 DEF CleanupClear
<1>32. ASSUME NEW w \in Workbook, ExcelEnds(w) PROVE UncertainIsQuarantined'
  BY <1>32 DEF ExcelEnds
<1>33. ASSUME NEW w \in Workbook, MarkerSpoils(w) PROVE UncertainIsQuarantined'
  BY <1>33 DEF MarkerSpoils
<1>34. ASSUME NEW p \in Proc, Crash(p) PROVE UncertainIsQuarantined'
  BY <1>34 DEF Crash
<1>35. CASE UNCHANGED vars
  BY <1>35 DEF vars, disk, call
<1> HIDE DEF UncertainIsQuarantined
<1>36. QED
  BY <1>1, <1>2, <1>3, <1>4, <1>5, <1>6, <1>7, <1>8, <1>9, <1>10, <1>11,
     <1>12, <1>13, <1>14, <1>15, <1>16, <1>17, <1>18, <1>19, <1>20, <1>21,
     <1>22, <1>23, <1>a, <1>b, <1>24, <1>25, <1>26, <1>27, <1>28, <1>29, <1>30, <1>31,
     <1>32, <1>33, <1>34, <1>35
  DEF Next, CommandStep, RecoveryStep, CleanupStep

\* Every workbook that a blocked command has leased and checked is clean.
CleanWhereChecked ==
  \A p \in Proc :
    pc[p] \in {"acquire", "wait", "check"} /\ cmd[p] \in NormalCommand =>
      \A w \in Held(p) : marker[w] = NoMarker \/ (pc[p] = "check" /\ w = at[p])

\* Only a lease holder publishes, so what was checked stays checked.
LEMMA CleanPreserved ==
  TypeOK /\ LeasesHeld /\ CleanWhereChecked /\ [Next]_vars => CleanWhereChecked'
<1> SUFFICES ASSUME TypeOK, LeasesHeld, CleanWhereChecked, [Next]_vars PROVE CleanWhereChecked'
  OBVIOUS
<1> USE NoProcAssumption, MarkerAssumption DEF TypeOK, LeasesHeld, CleanWhereChecked, Label, Held, NextTarget, Take, GoTo,
        Forget, Finish, Leave, MarkerAllows, RecoveryCommand, NormalCommand, AtLabel, ClearLabel, Inside,
        disk, call
<1>1. ASSUME NEW p \in Proc, Start(p) PROVE CleanWhereChecked'
  BY <1>1 DEF Start
<1>2. ASSUME NEW p \in Proc, SpendBudget(p) PROVE CleanWhereChecked'
  BY <1>2 DEF SpendBudget
<1>3. ASSUME NEW p \in Proc, WaitGivesUp(p) PROVE CleanWhereChecked'
  BY <1>3 DEF WaitGivesUp
<1>4. ASSUME NEW p \in Proc, CheckPasses(p) PROVE CleanWhereChecked'
  BY <1>4 DEF CheckPasses
<1>5. ASSUME NEW p \in Proc, CheckFails(p) PROVE CleanWhereChecked'
  BY <1>5 DEF CheckFails
<1>6. ASSUME NEW p \in Proc, Return(p) PROVE CleanWhereChecked'
  BY <1>6 DEF Return
<1>7. ASSUME NEW p \in Proc, BodyEnds(p) PROVE CleanWhereChecked'
  BY <1>7 DEF BodyEnds
<1>8. ASSUME NEW p \in Proc, BridgeReturns(p) PROVE CleanWhereChecked'
  BY <1>8 DEF BridgeReturns
<1>9. ASSUME NEW p \in Proc, BridgeUncertain(p) PROVE CleanWhereChecked'
  BY <1>9 DEF BridgeUncertain
<1>10. ASSUME NEW p \in Proc, Publish(p) PROVE CleanWhereChecked'
  BY <1>10 DEF Publish
<1>11. ASSUME NEW p \in Proc, PublishFails(p) PROVE CleanWhereChecked'
  BY <1>11 DEF PublishFails
<1>12. ASSUME NEW p \in Proc, DiscardConfirmed(p) PROVE CleanWhereChecked'
  BY <1>12 DEF DiscardConfirmed
<1>13. ASSUME NEW p \in Proc, NEW w \in Workbook, Acquire(p, w) PROVE CleanWhereChecked'
  BY <1>13 DEF Acquire
<1>14. ASSUME NEW p \in Proc, NEW w \in Workbook, AcquireBusy(p, w) PROVE CleanWhereChecked'
  <2>1. CASE waits[p] /\ GoTo(p, "wait") /\ budget' = [budget EXCEPT ![p] = "running"]
                /\ UNCHANGED <<call, at, examined>>
    BY <1>14, <2>1 DEF AcquireBusy
  <2>2. CASE Finish(p)
    BY <1>14, <2>2 DEF AcquireBusy
  <2>3. QED
    BY <1>14, <2>1, <2>2 DEF AcquireBusy
<1>15. ASSUME NEW p \in Proc, NEW w \in Workbook, WaitAcquire(p, w) PROVE CleanWhereChecked'
  BY <1>15 DEF WaitAcquire
<1>16. ASSUME NEW p \in Proc, NEW w \in Workbook, Release(p, w) PROVE CleanWhereChecked'
  BY <1>16 DEF Release
<1>17. ASSUME NEW p \in Proc, NEW w \in Workbook, BridgeStarts(p, w) PROVE CleanWhereChecked'
  BY <1>17 DEF BridgeStarts
<1>18. ASSUME NEW p \in Proc, ClearBegins(p) PROVE CleanWhereChecked'
  BY <1>18 DEF ClearBegins
<1>19. ASSUME NEW p \in Proc, Examine(p) PROVE CleanWhereChecked'
  BY <1>19 DEF Examine
<1>20. ASSUME NEW p \in Proc, VerifyPasses(p) PROVE CleanWhereChecked'
  BY <1>20 DEF VerifyPasses
<1>21. ASSUME NEW p \in Proc, VerifyFails(p) PROVE CleanWhereChecked'
  BY <1>21 DEF VerifyFails
<1>22. ASSUME NEW p \in Proc, Clear(p) PROVE CleanWhereChecked'
  BY <1>22 DEF Clear
<1>23. ASSUME NEW p \in Proc, CleanupStart(p) PROVE CleanWhereChecked'
  BY <1>23 DEF CleanupStart
<1>a. ASSUME NEW p \in Proc, NEW w \in Workbook, CleanupRead(p, w) PROVE CleanWhereChecked'
  BY <1>a DEF CleanupRead
<1>b. ASSUME NEW p \in Proc, CleanupListed(p) PROVE CleanWhereChecked'
  BY <1>b DEF CleanupListed
<1>24. ASSUME NEW p \in Proc, CleanupFails(p) PROVE CleanWhereChecked'
  BY <1>24 DEF CleanupFails
<1>25. ASSUME NEW p \in Proc, CleanupCheck(p) PROVE CleanWhereChecked'
  BY <1>25 DEF CleanupCheck
<1>26. ASSUME NEW p \in Proc, CleanupReady(p) PROVE CleanWhereChecked'
  BY <1>26 DEF CleanupReady
<1>27. ASSUME NEW p \in Proc, CleanupRun(p) PROVE CleanWhereChecked'
  BY <1>27 DEF CleanupRun
<1>28. ASSUME NEW p \in Proc, CleanupEnum(p) PROVE CleanWhereChecked'
  BY <1>28 DEF CleanupEnum
<1>29. ASSUME NEW p \in Proc, CleanupEnds(p) PROVE CleanWhereChecked'
  BY <1>29 DEF CleanupEnds
<1>30. ASSUME NEW p \in Proc, NEW w \in Workbook, CleanupAcquire(p, w) PROVE CleanWhereChecked'
  BY <1>30 DEF CleanupAcquire
<1>31. ASSUME NEW p \in Proc, NEW w \in Workbook, CleanupClear(p, w) PROVE CleanWhereChecked'
  BY <1>31 DEF CleanupClear
<1>32. ASSUME NEW w \in Workbook, ExcelEnds(w) PROVE CleanWhereChecked'
  BY <1>32 DEF ExcelEnds
<1>33. ASSUME NEW w \in Workbook, MarkerSpoils(w) PROVE CleanWhereChecked'
  BY <1>33 DEF MarkerSpoils
<1>34. ASSUME NEW p \in Proc, Crash(p) PROVE CleanWhereChecked'
  BY <1>34 DEF Crash
<1>35. CASE UNCHANGED vars
  BY <1>35 DEF vars, disk, call
<1> HIDE DEF CleanWhereChecked
<1>36. QED
  BY <1>1, <1>2, <1>3, <1>4, <1>5, <1>6, <1>7, <1>8, <1>9, <1>10, <1>11,
     <1>12, <1>13, <1>14, <1>15, <1>16, <1>17, <1>18, <1>19, <1>20, <1>21,
     <1>22, <1>23, <1>a, <1>b, <1>24, <1>25, <1>26, <1>27, <1>28, <1>29, <1>30, <1>31,
     <1>32, <1>33, <1>34, <1>35
  DEF Next, CommandStep, RecoveryStep, CleanupStep

\* What a clearing command has read of a marker it is still about to clear:
\* the marker is that one, or has become unreadable since.  The last part is
\* what the random generations are for.
CleanupLabel == {"clAcquire", "clCheck", "clRun"} \cup ClearLabel

MarkersExamined ==
  \A p \in Proc :
    /\ pc[p] \in {"examine", "verify", "clear", "clList"} \cup CleanupLabel => cmd[p] \notin NormalCommand
    /\ pc[p] = "clList" => Held(p) = {}
    /\ pc[p] \in {"verify", "clear"} =>
         /\ examined[p][at[p]] # NoMarker
         /\ marker[at[p]] \in {examined[p][at[p]], InvalidMarker}
    /\ pc[p] \in {"clAcquire", "clCheck"} => \A w \in targets[p] : examined[p][w] \in ValidMarker
    /\ pc[p] = "clCheck" => at[p] \in targets[p]
    /\ pc[p] \in CleanupLabel => \A w \in Held(p) :
         \/ pc[p] = "clCheck" /\ w = at[p]
         \/ examined[p][w] \in ValidMarker /\ marker[w] \in {examined[p][w], InvalidMarker, NoMarker}

GenerationsIdentify ==
  \A p \in Proc, w \in Workbook :
    /\ examined[p][w] \in ValidMarker
    /\ marker[w] \in ValidMarker
    /\ examined[p][w].gen = marker[w].gen
    => examined[p][w] = marker[w]

\* The lease keeps an examined marker from being replaced.
LEMMA ExaminedPreserved ==
  TypeOK /\ LeasesHeld /\ MarkersExamined /\ GenerationsIdentify /\ [Next]_vars
    => MarkersExamined'
<1> SUFFICES ASSUME TypeOK, LeasesHeld, MarkersExamined, GenerationsIdentify, [Next]_vars PROVE MarkersExamined'
  OBVIOUS
<1> USE NoProcAssumption, MarkerAssumption DEF TypeOK, LeasesHeld, MarkersExamined, Label, Held, NextTarget,
        Take, GoTo, Forget, Finish, Leave, NormalCommand, RecoveryCommand, CleanupCommand, Command,
        AtLabel, ClearLabel, CleanupLabel, Inside, disk, call
<1>1. ASSUME NEW p \in Proc, Start(p) PROVE MarkersExamined'
  BY <1>1 DEF Start
<1>2. ASSUME NEW p \in Proc, SpendBudget(p) PROVE MarkersExamined'
  BY <1>2 DEF SpendBudget
<1>3. ASSUME NEW p \in Proc, WaitGivesUp(p) PROVE MarkersExamined'
  BY <1>3 DEF WaitGivesUp
<1>4. ASSUME NEW p \in Proc, CheckPasses(p) PROVE MarkersExamined'
  BY <1>4 DEF CheckPasses
<1>5. ASSUME NEW p \in Proc, CheckFails(p) PROVE MarkersExamined'
  BY <1>5 DEF CheckFails
<1>6. ASSUME NEW p \in Proc, Return(p) PROVE MarkersExamined'
  BY <1>6 DEF Return
<1>7. ASSUME NEW p \in Proc, BodyEnds(p) PROVE MarkersExamined'
  BY <1>7 DEF BodyEnds
<1>8. ASSUME NEW p \in Proc, BridgeReturns(p) PROVE MarkersExamined'
  BY <1>8 DEF BridgeReturns
<1>9. ASSUME NEW p \in Proc, BridgeUncertain(p) PROVE MarkersExamined'
  BY <1>9 DEF BridgeUncertain
<1>10. ASSUME NEW p \in Proc, Publish(p) PROVE MarkersExamined'
  BY <1>10 DEF Publish
<1>11. ASSUME NEW p \in Proc, PublishFails(p) PROVE MarkersExamined'
  BY <1>11 DEF PublishFails
<1>12. ASSUME NEW p \in Proc, DiscardConfirmed(p) PROVE MarkersExamined'
  BY <1>12 DEF DiscardConfirmed
<1>13. ASSUME NEW p \in Proc, NEW w \in Workbook, Acquire(p, w) PROVE MarkersExamined'
  BY <1>13 DEF Acquire
<1>14. ASSUME NEW p \in Proc, NEW w \in Workbook, AcquireBusy(p, w) PROVE MarkersExamined'
  BY <1>14 DEF AcquireBusy
<1>15. ASSUME NEW p \in Proc, NEW w \in Workbook, WaitAcquire(p, w) PROVE MarkersExamined'
  BY <1>15 DEF WaitAcquire
<1>16. ASSUME NEW p \in Proc, NEW w \in Workbook, Release(p, w) PROVE MarkersExamined'
  BY <1>16 DEF Release
<1>17. ASSUME NEW p \in Proc, NEW w \in Workbook, BridgeStarts(p, w) PROVE MarkersExamined'
  BY <1>17 DEF BridgeStarts
<1>18. ASSUME NEW p \in Proc, ClearBegins(p) PROVE MarkersExamined'
  BY <1>18 DEF ClearBegins
<1>19. ASSUME NEW p \in Proc, Examine(p) PROVE MarkersExamined'
  BY <1>19 DEF Examine
<1>20. ASSUME NEW p \in Proc, VerifyPasses(p) PROVE MarkersExamined'
  BY <1>20 DEF VerifyPasses
<1>21. ASSUME NEW p \in Proc, VerifyFails(p) PROVE MarkersExamined'
  BY <1>21 DEF VerifyFails
<1>22. ASSUME NEW p \in Proc, Clear(p) PROVE MarkersExamined'
  <2>1. CASE /\ SameMarker(p, at[p])
             /\ marker' = [marker EXCEPT ![at[p]] = NoMarker]
    BY <1>22, <2>1 DEF Clear
  <2>2. CASE UNCHANGED marker
    BY <1>22, <2>2 DEF Clear
  <2>3. QED
    BY <1>22, <2>1, <2>2 DEF Clear
<1>23. ASSUME NEW p \in Proc, CleanupStart(p) PROVE MarkersExamined'
  BY <1>23 DEF CleanupStart
<1>a. ASSUME NEW p \in Proc, NEW w \in Workbook, CleanupRead(p, w) PROVE MarkersExamined'
  BY <1>a DEF CleanupRead
<1>b. ASSUME NEW p \in Proc, CleanupListed(p) PROVE MarkersExamined'
  BY <1>b DEF CleanupListed
<1>24. ASSUME NEW p \in Proc, CleanupFails(p) PROVE MarkersExamined'
  BY <1>24 DEF CleanupFails
<1>25. ASSUME NEW p \in Proc, CleanupCheck(p) PROVE MarkersExamined'
  <2>1. at[p] \in Workbook /\ examined[p][at[p]] \in ValidMarker
    BY <1>25 DEF CleanupCheck
  <2>2. CASE /\ marker[at[p]] \in ValidMarker /\ SameMarker(p, at[p])
             /\ UNCHANGED <<lease, targets>>
    <3>1. examined[p][at[p]] = marker[at[p]]
      BY <2>1, <2>2 DEF SameMarker, GenerationsIdentify
    <3>2. QED
      BY <1>25, <2>1, <2>2, <3>1 DEF CleanupCheck
  <2>3. CASE /\ lease' = [lease EXCEPT ![at[p]] = NoProc]
             /\ targets' = [targets EXCEPT ![p] = @ \ {at[p]}]
    BY <1>25, <2>1, <2>3 DEF CleanupCheck
  <2>4. QED
    BY <1>25, <2>2, <2>3 DEF CleanupCheck
<1>26. ASSUME NEW p \in Proc, CleanupReady(p) PROVE MarkersExamined'
  BY <1>26 DEF CleanupReady
<1>27. ASSUME NEW p \in Proc, CleanupRun(p) PROVE MarkersExamined'
  BY <1>27 DEF CleanupRun
<1>28. ASSUME NEW p \in Proc, CleanupEnum(p) PROVE MarkersExamined'
  BY <1>28 DEF CleanupEnum
<1>29. ASSUME NEW p \in Proc, CleanupEnds(p) PROVE MarkersExamined'
  BY <1>29 DEF CleanupEnds
<1>30. ASSUME NEW p \in Proc, NEW w \in Workbook, CleanupAcquire(p, w) PROVE MarkersExamined'
  BY <1>30 DEF CleanupAcquire
<1>31. ASSUME NEW p \in Proc, NEW w \in Workbook, CleanupClear(p, w) PROVE MarkersExamined'
  BY <1>31 DEF CleanupClear
<1>32. ASSUME NEW w \in Workbook, ExcelEnds(w) PROVE MarkersExamined'
  BY <1>32 DEF ExcelEnds
<1>33. ASSUME NEW w \in Workbook, MarkerSpoils(w) PROVE MarkersExamined'
  BY <1>33 DEF MarkerSpoils
<1>34. ASSUME NEW p \in Proc, Crash(p) PROVE MarkersExamined'
  BY <1>34 DEF Crash
<1>35. CASE UNCHANGED vars
  BY <1>35 DEF vars, disk, call
<1> HIDE DEF MarkersExamined
<1>36. QED
  BY <1>1, <1>2, <1>3, <1>4, <1>5, <1>6, <1>7, <1>8, <1>9, <1>10, <1>11,
     <1>12, <1>13, <1>14, <1>15, <1>16, <1>17, <1>18, <1>19, <1>20, <1>21,
     <1>22, <1>23, <1>a, <1>b, <1>24, <1>25, <1>26, <1>27, <1>28, <1>29, <1>30, <1>31,
     <1>32, <1>33, <1>34, <1>35
  DEF Next, CommandStep, RecoveryStep, CleanupStep

\* A published generation is one that nobody has examined.
LEMMA IdentifyPreserved ==
  TypeOK /\ LeasesHeld /\ GenerationsIdentify /\ [Next]_vars => GenerationsIdentify'
<1> SUFFICES ASSUME TypeOK, LeasesHeld, GenerationsIdentify, [Next]_vars PROVE GenerationsIdentify'
  OBVIOUS
<1> USE MarkerAssumption DEF TypeOK, LeasesHeld, GenerationsIdentify, Label, Held, Take, GoTo, Forget, Finish,
        Leave, NothingExamined, FreshToken, ValidMarker, AtLabel, disk, call
<1>1. ASSUME NEW p \in Proc, Start(p) PROVE GenerationsIdentify'
  BY <1>1 DEF Start
<1>2. ASSUME NEW p \in Proc, SpendBudget(p) PROVE GenerationsIdentify'
  BY <1>2 DEF SpendBudget
<1>3. ASSUME NEW p \in Proc, WaitGivesUp(p) PROVE GenerationsIdentify'
  BY <1>3 DEF WaitGivesUp
<1>4. ASSUME NEW p \in Proc, CheckPasses(p) PROVE GenerationsIdentify'
  BY <1>4 DEF CheckPasses
<1>5. ASSUME NEW p \in Proc, CheckFails(p) PROVE GenerationsIdentify'
  BY <1>5 DEF CheckFails
<1>6. ASSUME NEW p \in Proc, Return(p) PROVE GenerationsIdentify'
  BY <1>6 DEF Return
<1>7. ASSUME NEW p \in Proc, BodyEnds(p) PROVE GenerationsIdentify'
  BY <1>7 DEF BodyEnds
<1>8. ASSUME NEW p \in Proc, BridgeReturns(p) PROVE GenerationsIdentify'
  BY <1>8 DEF BridgeReturns
<1>9. ASSUME NEW p \in Proc, BridgeUncertain(p) PROVE GenerationsIdentify'
  BY <1>9 DEF BridgeUncertain
<1>10. ASSUME NEW p \in Proc, Publish(p) PROVE GenerationsIdentify'
  BY <1>10 DEF Publish
<1>11. ASSUME NEW p \in Proc, PublishFails(p) PROVE GenerationsIdentify'
  BY <1>11 DEF PublishFails
<1>12. ASSUME NEW p \in Proc, DiscardConfirmed(p) PROVE GenerationsIdentify'
  BY <1>12 DEF DiscardConfirmed
<1>13. ASSUME NEW p \in Proc, NEW w \in Workbook, Acquire(p, w) PROVE GenerationsIdentify'
  BY <1>13 DEF Acquire
<1>14. ASSUME NEW p \in Proc, NEW w \in Workbook, AcquireBusy(p, w) PROVE GenerationsIdentify'
  BY <1>14 DEF AcquireBusy
<1>15. ASSUME NEW p \in Proc, NEW w \in Workbook, WaitAcquire(p, w) PROVE GenerationsIdentify'
  <2>1. CASE GoTo(p, "check") /\ at' = [at EXCEPT ![p] = w]
                /\ UNCHANGED <<call, budget, examined>>
    BY <1>15, <2>1 DEF WaitAcquire
  <2>2. CASE Finish(p)
    BY <1>15, <2>2 DEF WaitAcquire
  <2>3. QED
    BY <1>15, <2>1, <2>2 DEF WaitAcquire
<1>16. ASSUME NEW p \in Proc, NEW w \in Workbook, Release(p, w) PROVE GenerationsIdentify'
  BY <1>16 DEF Release
<1>17. ASSUME NEW p \in Proc, NEW w \in Workbook, BridgeStarts(p, w) PROVE GenerationsIdentify'
  BY <1>17 DEF BridgeStarts
<1>18. ASSUME NEW p \in Proc, ClearBegins(p) PROVE GenerationsIdentify'
  BY <1>18 DEF ClearBegins
<1>19. ASSUME NEW p \in Proc, Examine(p) PROVE GenerationsIdentify'
  <2>1. CASE Finish(p)
    BY <1>19, <2>1 DEF Examine
  <2>2. CASE /\ examined' = [examined EXCEPT ![p][at[p]] = marker[at[p]]]
             /\ GoTo(p, IF cmd[p] = "clear" THEN "verify" ELSE "clear")
             /\ UNCHANGED <<call, at, budget>>
    BY <1>19, <2>2 DEF Examine
  <2>3. QED
    BY <1>19, <2>1, <2>2 DEF Examine
<1>20. ASSUME NEW p \in Proc, VerifyPasses(p) PROVE GenerationsIdentify'
  BY <1>20 DEF VerifyPasses
<1>21. ASSUME NEW p \in Proc, VerifyFails(p) PROVE GenerationsIdentify'
  BY <1>21 DEF VerifyFails
<1>22. ASSUME NEW p \in Proc, Clear(p) PROVE GenerationsIdentify'
  BY <1>22 DEF Clear
<1>23. ASSUME NEW p \in Proc, CleanupStart(p) PROVE GenerationsIdentify'
  BY <1>23 DEF CleanupStart
<1>a. ASSUME NEW p \in Proc, NEW w \in Workbook, CleanupRead(p, w) PROVE GenerationsIdentify'
  BY <1>a DEF CleanupRead
<1>b. ASSUME NEW p \in Proc, CleanupListed(p) PROVE GenerationsIdentify'
  BY <1>b DEF CleanupListed
<1>24. ASSUME NEW p \in Proc, CleanupFails(p) PROVE GenerationsIdentify'
  BY <1>24 DEF CleanupFails
<1>25. ASSUME NEW p \in Proc, CleanupCheck(p) PROVE GenerationsIdentify'
  BY <1>25 DEF CleanupCheck
<1>26. ASSUME NEW p \in Proc, CleanupReady(p) PROVE GenerationsIdentify'
  BY <1>26 DEF CleanupReady
<1>27. ASSUME NEW p \in Proc, CleanupRun(p) PROVE GenerationsIdentify'
  BY <1>27 DEF CleanupRun
<1>28. ASSUME NEW p \in Proc, CleanupEnum(p) PROVE GenerationsIdentify'
  BY <1>28 DEF CleanupEnum
<1>29. ASSUME NEW p \in Proc, CleanupEnds(p) PROVE GenerationsIdentify'
  BY <1>29 DEF CleanupEnds
<1>30. ASSUME NEW p \in Proc, NEW w \in Workbook, CleanupAcquire(p, w) PROVE GenerationsIdentify'
  BY <1>30 DEF CleanupAcquire
<1>31. ASSUME NEW p \in Proc, NEW w \in Workbook, CleanupClear(p, w) PROVE GenerationsIdentify'
  <2>1. CASE marker' = [marker EXCEPT ![w] = NoMarker]
    BY <1>31, <2>1 DEF CleanupClear
  <2>2. CASE UNCHANGED marker
    BY <1>31, <2>2 DEF CleanupClear
  <2>3. QED
    BY <1>31, <2>1, <2>2 DEF CleanupClear
<1>32. ASSUME NEW w \in Workbook, ExcelEnds(w) PROVE GenerationsIdentify'
  BY <1>32 DEF ExcelEnds
<1>33. ASSUME NEW w \in Workbook, MarkerSpoils(w) PROVE GenerationsIdentify'
  BY <1>33 DEF MarkerSpoils
<1>34. ASSUME NEW p \in Proc, Crash(p) PROVE GenerationsIdentify'
  BY <1>34 DEF Crash
<1>35. CASE UNCHANGED vars
  BY <1>35 DEF vars, disk, call
<1> HIDE DEF GenerationsIdentify
<1>36. QED
  BY <1>1, <1>2, <1>3, <1>4, <1>5, <1>6, <1>7, <1>8, <1>9, <1>10, <1>11,
     <1>12, <1>13, <1>14, <1>15, <1>16, <1>17, <1>18, <1>19, <1>20, <1>21,
     <1>22, <1>23, <1>a, <1>b, <1>24, <1>25, <1>26, <1>27, <1>28, <1>29, <1>30, <1>31,
     <1>32, <1>33, <1>34, <1>35
  DEF Next, CommandStep, RecoveryStep, CleanupStep

\* A command that still acquires has only leases before those it needs.
LeasedInOrder ==
  \A p \in Proc :
    pc[p] \in {"acquire", "wait", "check"} =>
      \A h \in Held(p), v \in targets[p] \ Held(p) : h < v

\* Leases are taken in the order of the lock IDs.
LEMMA OrderPreserved ==
  TypeOK /\ LeasesHeld /\ LeasedInOrder /\ [Next]_vars => LeasedInOrder'
<1> SUFFICES ASSUME TypeOK, LeasesHeld, LeasedInOrder, [Next]_vars PROVE LeasedInOrder'
  OBVIOUS
<1> USE NoProcAssumption, WorkbookCountAssumption DEF TypeOK, LeasesHeld, LeasedInOrder, Workbook, Label, AtLabel, Held,
        NextTarget, Take, GoTo, Forget, Finish, Leave, disk, call
<1>1. ASSUME NEW p \in Proc, Start(p) PROVE LeasedInOrder'
  <2>1. Held(p) = {} /\ UNCHANGED lease
    BY <1>1 DEF Start
  <2>2. pc' = [pc EXCEPT ![p] = "acquire"]
    BY <1>1 DEF Start
  <2>3. \A q \in Proc \ {p} : targets'[q] = targets[q]
    BY <1>1 DEF Start
  <2>4. ASSUME NEW q \in Proc, pc'[q] \in {"acquire", "wait", "check"}, NEW h \in Held(q)',
               NEW v \in (targets[q] \ Held(q))'
        PROVE  h < v
    <3>1. CASE q = p
      BY <2>1, <2>4, <3>1
    <3>2. CASE q # p
      BY <2>1, <2>2, <2>3, <2>4, <3>2
    <3>3. QED
      BY <3>1, <3>2
  <2>5. QED
    BY <2>4
<1>2. ASSUME NEW p \in Proc, SpendBudget(p) PROVE LeasedInOrder'
  BY <1>2 DEF SpendBudget
<1>3. ASSUME NEW p \in Proc, WaitGivesUp(p) PROVE LeasedInOrder'
  BY <1>3 DEF WaitGivesUp
<1>4. ASSUME NEW p \in Proc, CheckPasses(p) PROVE LeasedInOrder'
  <2>1. CASE Leave(p, "body")
    BY <1>4, <2>1 DEF CheckPasses
  <2>2. CASE Leave(p, "acquire")
    BY <1>4, <2>2 DEF CheckPasses
  <2>3. QED
    BY <1>4, <2>1, <2>2 DEF CheckPasses
<1>5. ASSUME NEW p \in Proc, CheckFails(p) PROVE LeasedInOrder'
  BY <1>5 DEF CheckFails
<1>6. ASSUME NEW p \in Proc, Return(p) PROVE LeasedInOrder'
  BY <1>6 DEF Return
<1>7. ASSUME NEW p \in Proc, BodyEnds(p) PROVE LeasedInOrder'
  BY <1>7 DEF BodyEnds
<1>8. ASSUME NEW p \in Proc, BridgeReturns(p) PROVE LeasedInOrder'
  BY <1>8 DEF BridgeReturns
<1>9. ASSUME NEW p \in Proc, BridgeUncertain(p) PROVE LeasedInOrder'
  BY <1>9 DEF BridgeUncertain
<1>10. ASSUME NEW p \in Proc, Publish(p) PROVE LeasedInOrder'
  BY <1>10 DEF Publish
<1>11. ASSUME NEW p \in Proc, PublishFails(p) PROVE LeasedInOrder'
  BY <1>11 DEF PublishFails
<1>12. ASSUME NEW p \in Proc, DiscardConfirmed(p) PROVE LeasedInOrder'
  BY <1>12 DEF DiscardConfirmed
<1>13. ASSUME NEW p \in Proc, NEW w \in Workbook, Acquire(p, w) PROVE LeasedInOrder'
  <2>1. \A q \in Proc : q # p => Held(q)' = Held(q)
    BY <1>13 DEF Acquire
  <2>2. Held(p)' = Held(p) \cup {w}
    BY <1>13 DEF Acquire
  <2>3. \A v \in targets[p] \ Held(p)' : w < v
    BY <1>13, <2>2 DEF Acquire
  <2>4. QED
    BY <1>13, <2>1, <2>2, <2>3 DEF Acquire
<1>14. ASSUME NEW p \in Proc, NEW w \in Workbook, AcquireBusy(p, w) PROVE LeasedInOrder'
  <2>1. CASE waits[p] /\ GoTo(p, "wait") /\ budget' = [budget EXCEPT ![p] = "running"]
                /\ UNCHANGED <<call, at, examined>>
    BY <1>14, <2>1 DEF AcquireBusy
  <2>2. CASE Finish(p)
    BY <1>14, <2>2 DEF AcquireBusy
  <2>3. QED
    BY <1>14, <2>1, <2>2 DEF AcquireBusy
<1>15. ASSUME NEW p \in Proc, NEW w \in Workbook, WaitAcquire(p, w) PROVE LeasedInOrder'
  <2>1. CASE GoTo(p, "check") /\ at' = [at EXCEPT ![p] = w]
                /\ UNCHANGED <<call, budget, examined>>
    BY <1>15, <2>1 DEF WaitAcquire
  <2>2. CASE Finish(p)
    BY <1>15, <2>2 DEF WaitAcquire
  <2>3. QED
    BY <1>15, <2>1, <2>2 DEF WaitAcquire
<1>16. ASSUME NEW p \in Proc, NEW w \in Workbook, Release(p, w) PROVE LeasedInOrder'
  BY <1>16 DEF Release
<1>17. ASSUME NEW p \in Proc, NEW w \in Workbook, BridgeStarts(p, w) PROVE LeasedInOrder'
  BY <1>17 DEF BridgeStarts
<1>18. ASSUME NEW p \in Proc, ClearBegins(p) PROVE LeasedInOrder'
  BY <1>18 DEF ClearBegins
<1>19. ASSUME NEW p \in Proc, Examine(p) PROVE LeasedInOrder'
  <2>1. CASE Finish(p)
    BY <1>19, <2>1 DEF Examine
  <2>2. CASE /\ examined' = [examined EXCEPT ![p][at[p]] = marker[at[p]]]
             /\ GoTo(p, IF cmd[p] = "clear" THEN "verify" ELSE "clear")
             /\ UNCHANGED <<call, at, budget>>
    BY <1>19, <2>2 DEF Examine
  <2>3. QED
    BY <1>19, <2>1, <2>2 DEF Examine
<1>20. ASSUME NEW p \in Proc, VerifyPasses(p) PROVE LeasedInOrder'
  BY <1>20 DEF VerifyPasses
<1>21. ASSUME NEW p \in Proc, VerifyFails(p) PROVE LeasedInOrder'
  BY <1>21 DEF VerifyFails
<1>22. ASSUME NEW p \in Proc, Clear(p) PROVE LeasedInOrder'
  BY <1>22 DEF Clear
<1>23. ASSUME NEW p \in Proc, CleanupStart(p) PROVE LeasedInOrder'
  BY <1>23 DEF CleanupStart
<1>a. ASSUME NEW p \in Proc, NEW w \in Workbook, CleanupRead(p, w) PROVE LeasedInOrder'
  BY <1>a DEF CleanupRead
<1>b. ASSUME NEW p \in Proc, CleanupListed(p) PROVE LeasedInOrder'
  BY <1>b DEF CleanupListed
<1>24. ASSUME NEW p \in Proc, CleanupFails(p) PROVE LeasedInOrder'
  BY <1>24 DEF CleanupFails
<1>25. ASSUME NEW p \in Proc, CleanupCheck(p) PROVE LeasedInOrder'
  <2>1. at[p] \in Workbook
    BY <1>25 DEF CleanupCheck
  <2>2. CASE UNCHANGED <<lease, targets>>
    BY <1>25, <2>2 DEF CleanupCheck
  <2>3. CASE /\ lease' = [lease EXCEPT ![at[p]] = NoProc]
             /\ targets' = [targets EXCEPT ![p] = @ \ {at[p]}]
    BY <1>25, <2>1, <2>3 DEF CleanupCheck
  <2>4. QED
    BY <1>25, <2>2, <2>3 DEF CleanupCheck
<1>26. ASSUME NEW p \in Proc, CleanupReady(p) PROVE LeasedInOrder'
  BY <1>26 DEF CleanupReady
<1>27. ASSUME NEW p \in Proc, CleanupRun(p) PROVE LeasedInOrder'
  BY <1>27 DEF CleanupRun
<1>28. ASSUME NEW p \in Proc, CleanupEnum(p) PROVE LeasedInOrder'
  BY <1>28 DEF CleanupEnum
<1>29. ASSUME NEW p \in Proc, CleanupEnds(p) PROVE LeasedInOrder'
  BY <1>29 DEF CleanupEnds
<1>30. ASSUME NEW p \in Proc, NEW w \in Workbook, CleanupAcquire(p, w) PROVE LeasedInOrder'
  BY <1>30 DEF CleanupAcquire
<1>31. ASSUME NEW p \in Proc, NEW w \in Workbook, CleanupClear(p, w) PROVE LeasedInOrder'
  BY <1>31 DEF CleanupClear
<1>32. ASSUME NEW w \in Workbook, ExcelEnds(w) PROVE LeasedInOrder'
  BY <1>32 DEF ExcelEnds
<1>33. ASSUME NEW w \in Workbook, MarkerSpoils(w) PROVE LeasedInOrder'
  BY <1>33 DEF MarkerSpoils
<1>34. ASSUME NEW p \in Proc, Crash(p) PROVE LeasedInOrder'
  BY <1>34 DEF Crash
<1>35. CASE UNCHANGED vars
  BY <1>35 DEF vars, disk, call
<1> HIDE DEF LeasedInOrder
<1>36. QED
  BY <1>1, <1>2, <1>3, <1>4, <1>5, <1>6, <1>7, <1>8, <1>9, <1>10, <1>11,
     <1>12, <1>13, <1>14, <1>15, <1>16, <1>17, <1>18, <1>19, <1>20, <1>21,
     <1>22, <1>23, <1>a, <1>b, <1>24, <1>25, <1>26, <1>27, <1>28, <1>29, <1>30, <1>31,
     <1>32, <1>33, <1>34, <1>35
  DEF Next, CommandStep, RecoveryStep, CleanupStep


-----------------------------------------------------------------------------
(***************************************************************************)
(* The theorems.                                                            *)
(***************************************************************************)
CommandInv ==
  /\ TypeOK
  /\ LeasesHeld
  /\ QuietWhereCleared
  /\ UncertainIsQuarantined
  /\ CleanWhereChecked
  /\ MarkersExamined
  /\ GenerationsIdentify
  /\ LeasedInOrder

\* The body is entered by a check that passes and by nothing else.
LEMMA OnlyCheckPasses ==
  ASSUME NEW p \in Proc, TypeOK, Next, pc[p] = "check", pc'[p] = "body"
  PROVE  CheckPasses(p)
<1> USE DEF TypeOK, Label, GoTo, Forget, Finish, Leave, Take, disk, call
<1>1. ASSUME NEW q \in Proc, Start(q) PROVE CheckPasses(p)
  BY <1>1 DEF Start
<1>2. ASSUME NEW q \in Proc, SpendBudget(q) PROVE CheckPasses(p)
  BY <1>2 DEF SpendBudget
<1>3. ASSUME NEW q \in Proc, WaitGivesUp(q) PROVE CheckPasses(p)
  BY <1>3 DEF WaitGivesUp
<1>4. ASSUME NEW q \in Proc, CheckPasses(q) PROVE CheckPasses(p)
  BY <1>4 DEF CheckPasses
<1>5. ASSUME NEW q \in Proc, CheckFails(q) PROVE CheckPasses(p)
  BY <1>5 DEF CheckFails
<1>6. ASSUME NEW q \in Proc, Return(q) PROVE CheckPasses(p)
  BY <1>6 DEF Return
<1>7. ASSUME NEW q \in Proc, BodyEnds(q) PROVE CheckPasses(p)
  BY <1>7 DEF BodyEnds
<1>8. ASSUME NEW q \in Proc, BridgeReturns(q) PROVE CheckPasses(p)
  BY <1>8 DEF BridgeReturns
<1>9. ASSUME NEW q \in Proc, BridgeUncertain(q) PROVE CheckPasses(p)
  BY <1>9 DEF BridgeUncertain
<1>10. ASSUME NEW q \in Proc, Publish(q) PROVE CheckPasses(p)
  BY <1>10 DEF Publish
<1>11. ASSUME NEW q \in Proc, PublishFails(q) PROVE CheckPasses(p)
  BY <1>11 DEF PublishFails
<1>12. ASSUME NEW q \in Proc, DiscardConfirmed(q) PROVE CheckPasses(p)
  BY <1>12 DEF DiscardConfirmed
<1>13. ASSUME NEW q \in Proc, NEW w \in Workbook, Acquire(q, w) PROVE CheckPasses(p)
  BY <1>13 DEF Acquire
<1>14. ASSUME NEW q \in Proc, NEW w \in Workbook, AcquireBusy(q, w) PROVE CheckPasses(p)
  BY <1>14 DEF AcquireBusy
<1>15. ASSUME NEW q \in Proc, NEW w \in Workbook, WaitAcquire(q, w) PROVE CheckPasses(p)
  BY <1>15 DEF WaitAcquire
<1>16. ASSUME NEW q \in Proc, NEW w \in Workbook, Release(q, w) PROVE CheckPasses(p)
  BY <1>16 DEF Release
<1>17. ASSUME NEW q \in Proc, NEW w \in Workbook, BridgeStarts(q, w) PROVE CheckPasses(p)
  BY <1>17 DEF BridgeStarts
<1>18. ASSUME NEW q \in Proc, ClearBegins(q) PROVE CheckPasses(p)
  BY <1>18 DEF ClearBegins
<1>19. ASSUME NEW q \in Proc, Examine(q) PROVE CheckPasses(p)
  BY <1>19 DEF Examine
<1>20. ASSUME NEW q \in Proc, VerifyPasses(q) PROVE CheckPasses(p)
  BY <1>20 DEF VerifyPasses
<1>21. ASSUME NEW q \in Proc, VerifyFails(q) PROVE CheckPasses(p)
  BY <1>21 DEF VerifyFails
<1>22. ASSUME NEW q \in Proc, Clear(q) PROVE CheckPasses(p)
  BY <1>22 DEF Clear
<1>23. ASSUME NEW q \in Proc, CleanupStart(q) PROVE CheckPasses(p)
  BY <1>23 DEF CleanupStart
<1>a. ASSUME NEW q \in Proc, NEW w \in Workbook, CleanupRead(q, w) PROVE CheckPasses(p)
  BY <1>a DEF CleanupRead
<1>b. ASSUME NEW q \in Proc, CleanupListed(q) PROVE CheckPasses(p)
  BY <1>b DEF CleanupListed
<1>24. ASSUME NEW q \in Proc, CleanupFails(q) PROVE CheckPasses(p)
  BY <1>24 DEF CleanupFails
<1>25. ASSUME NEW q \in Proc, CleanupCheck(q) PROVE CheckPasses(p)
  BY <1>25 DEF CleanupCheck
<1>26. ASSUME NEW q \in Proc, CleanupReady(q) PROVE CheckPasses(p)
  BY <1>26 DEF CleanupReady
<1>27. ASSUME NEW q \in Proc, CleanupRun(q) PROVE CheckPasses(p)
  BY <1>27 DEF CleanupRun
<1>28. ASSUME NEW q \in Proc, CleanupEnum(q) PROVE CheckPasses(p)
  BY <1>28 DEF CleanupEnum
<1>29. ASSUME NEW q \in Proc, CleanupEnds(q) PROVE CheckPasses(p)
  BY <1>29 DEF CleanupEnds
<1>30. ASSUME NEW q \in Proc, NEW w \in Workbook, CleanupAcquire(q, w) PROVE CheckPasses(p)
  BY <1>30 DEF CleanupAcquire
<1>31. ASSUME NEW q \in Proc, NEW w \in Workbook, CleanupClear(q, w) PROVE CheckPasses(p)
  BY <1>31 DEF CleanupClear
<1>32. ASSUME NEW w \in Workbook, ExcelEnds(w) PROVE CheckPasses(p)
  BY <1>32 DEF ExcelEnds
<1>33. ASSUME NEW w \in Workbook, MarkerSpoils(w) PROVE CheckPasses(p)
  BY <1>33 DEF MarkerSpoils
<1>34. ASSUME NEW q \in Proc, Crash(q) PROVE CheckPasses(p)
  BY <1>34 DEF Crash
<1>35. QED
  BY <1>1, <1>2, <1>3, <1>4, <1>5, <1>6, <1>7, <1>8, <1>9, <1>10, <1>11,
     <1>12, <1>13, <1>14, <1>15, <1>16, <1>17, <1>18, <1>19, <1>20, <1>21,
     <1>22, <1>23, <1>a, <1>b, <1>24, <1>25, <1>26, <1>27, <1>28, <1>29, <1>30, <1>31,
     <1>32, <1>33, <1>34
  DEF Next, CommandStep, RecoveryStep, CleanupStep

\* Excel is set to work by acquireBridgeCoordination and by nothing else.
LEMMA OnlyBridgeStarts ==
  ASSUME NEW p \in Proc, TypeOK, Next, pc[p] = "body", pc'[p] = "bridge"
  PROVE  \E v \in Workbook : BridgeStarts(p, v)
<1> USE DEF TypeOK, Label, GoTo, Forget, Finish, Leave, Take, disk, call
<1>1. ASSUME NEW q \in Proc, Start(q) PROVE \E v \in Workbook : BridgeStarts(p, v)
  BY <1>1 DEF Start
<1>2. ASSUME NEW q \in Proc, SpendBudget(q) PROVE \E v \in Workbook : BridgeStarts(p, v)
  BY <1>2 DEF SpendBudget
<1>3. ASSUME NEW q \in Proc, WaitGivesUp(q) PROVE \E v \in Workbook : BridgeStarts(p, v)
  BY <1>3 DEF WaitGivesUp
<1>4. ASSUME NEW q \in Proc, CheckPasses(q) PROVE \E v \in Workbook : BridgeStarts(p, v)
  BY <1>4 DEF CheckPasses
<1>5. ASSUME NEW q \in Proc, CheckFails(q) PROVE \E v \in Workbook : BridgeStarts(p, v)
  BY <1>5 DEF CheckFails
<1>6. ASSUME NEW q \in Proc, Return(q) PROVE \E v \in Workbook : BridgeStarts(p, v)
  BY <1>6 DEF Return
<1>7. ASSUME NEW q \in Proc, BodyEnds(q) PROVE \E v \in Workbook : BridgeStarts(p, v)
  BY <1>7 DEF BodyEnds
<1>8. ASSUME NEW q \in Proc, BridgeReturns(q) PROVE \E v \in Workbook : BridgeStarts(p, v)
  BY <1>8 DEF BridgeReturns
<1>9. ASSUME NEW q \in Proc, BridgeUncertain(q) PROVE \E v \in Workbook : BridgeStarts(p, v)
  BY <1>9 DEF BridgeUncertain
<1>10. ASSUME NEW q \in Proc, Publish(q) PROVE \E v \in Workbook : BridgeStarts(p, v)
  BY <1>10 DEF Publish
<1>11. ASSUME NEW q \in Proc, PublishFails(q) PROVE \E v \in Workbook : BridgeStarts(p, v)
  BY <1>11 DEF PublishFails
<1>12. ASSUME NEW q \in Proc, DiscardConfirmed(q) PROVE \E v \in Workbook : BridgeStarts(p, v)
  BY <1>12 DEF DiscardConfirmed
<1>13. ASSUME NEW q \in Proc, NEW w \in Workbook, Acquire(q, w) PROVE \E v \in Workbook : BridgeStarts(p, v)
  BY <1>13 DEF Acquire
<1>14. ASSUME NEW q \in Proc, NEW w \in Workbook, AcquireBusy(q, w) PROVE \E v \in Workbook : BridgeStarts(p, v)
  BY <1>14 DEF AcquireBusy
<1>15. ASSUME NEW q \in Proc, NEW w \in Workbook, WaitAcquire(q, w) PROVE \E v \in Workbook : BridgeStarts(p, v)
  BY <1>15 DEF WaitAcquire
<1>16. ASSUME NEW q \in Proc, NEW w \in Workbook, Release(q, w) PROVE \E v \in Workbook : BridgeStarts(p, v)
  BY <1>16 DEF Release
<1>17. ASSUME NEW q \in Proc, NEW w \in Workbook, BridgeStarts(q, w) PROVE \E v \in Workbook : BridgeStarts(p, v)
  BY <1>17 DEF BridgeStarts
<1>18. ASSUME NEW q \in Proc, ClearBegins(q) PROVE \E v \in Workbook : BridgeStarts(p, v)
  BY <1>18 DEF ClearBegins
<1>19. ASSUME NEW q \in Proc, Examine(q) PROVE \E v \in Workbook : BridgeStarts(p, v)
  BY <1>19 DEF Examine
<1>20. ASSUME NEW q \in Proc, VerifyPasses(q) PROVE \E v \in Workbook : BridgeStarts(p, v)
  BY <1>20 DEF VerifyPasses
<1>21. ASSUME NEW q \in Proc, VerifyFails(q) PROVE \E v \in Workbook : BridgeStarts(p, v)
  BY <1>21 DEF VerifyFails
<1>22. ASSUME NEW q \in Proc, Clear(q) PROVE \E v \in Workbook : BridgeStarts(p, v)
  BY <1>22 DEF Clear
<1>23. ASSUME NEW q \in Proc, CleanupStart(q) PROVE \E v \in Workbook : BridgeStarts(p, v)
  BY <1>23 DEF CleanupStart
<1>a. ASSUME NEW q \in Proc, NEW w \in Workbook, CleanupRead(q, w) PROVE \E v \in Workbook : BridgeStarts(p, v)
  BY <1>a DEF CleanupRead
<1>b. ASSUME NEW q \in Proc, CleanupListed(q) PROVE \E v \in Workbook : BridgeStarts(p, v)
  BY <1>b DEF CleanupListed
<1>24. ASSUME NEW q \in Proc, CleanupFails(q) PROVE \E v \in Workbook : BridgeStarts(p, v)
  BY <1>24 DEF CleanupFails
<1>25. ASSUME NEW q \in Proc, CleanupCheck(q) PROVE \E v \in Workbook : BridgeStarts(p, v)
  BY <1>25 DEF CleanupCheck
<1>26. ASSUME NEW q \in Proc, CleanupReady(q) PROVE \E v \in Workbook : BridgeStarts(p, v)
  BY <1>26 DEF CleanupReady
<1>27. ASSUME NEW q \in Proc, CleanupRun(q) PROVE \E v \in Workbook : BridgeStarts(p, v)
  BY <1>27 DEF CleanupRun
<1>28. ASSUME NEW q \in Proc, CleanupEnum(q) PROVE \E v \in Workbook : BridgeStarts(p, v)
  BY <1>28 DEF CleanupEnum
<1>29. ASSUME NEW q \in Proc, CleanupEnds(q) PROVE \E v \in Workbook : BridgeStarts(p, v)
  BY <1>29 DEF CleanupEnds
<1>30. ASSUME NEW q \in Proc, NEW w \in Workbook, CleanupAcquire(q, w) PROVE \E v \in Workbook : BridgeStarts(p, v)
  BY <1>30 DEF CleanupAcquire
<1>31. ASSUME NEW q \in Proc, NEW w \in Workbook, CleanupClear(q, w) PROVE \E v \in Workbook : BridgeStarts(p, v)
  BY <1>31 DEF CleanupClear
<1>32. ASSUME NEW w \in Workbook, ExcelEnds(w) PROVE \E v \in Workbook : BridgeStarts(p, v)
  BY <1>32 DEF ExcelEnds
<1>33. ASSUME NEW w \in Workbook, MarkerSpoils(w) PROVE \E v \in Workbook : BridgeStarts(p, v)
  BY <1>33 DEF MarkerSpoils
<1>34. ASSUME NEW q \in Proc, Crash(q) PROVE \E v \in Workbook : BridgeStarts(p, v)
  BY <1>34 DEF Crash
<1>35. QED
  BY <1>1, <1>2, <1>3, <1>4, <1>5, <1>6, <1>7, <1>8, <1>9, <1>10, <1>11,
     <1>12, <1>13, <1>14, <1>15, <1>16, <1>17, <1>18, <1>19, <1>20, <1>21,
     <1>22, <1>23, <1>a, <1>b, <1>24, <1>25, <1>26, <1>27, <1>28, <1>29, <1>30, <1>31,
     <1>32, <1>33, <1>34
  DEF Next, CommandStep, RecoveryStep, CleanupStep

\* A marker is removed by ClearRecovery and by nothing else.
LEMMA OnlyClearing ==
  ASSUME NEW v \in Workbook, CommandInv, Next, marker[v] # NoMarker, marker'[v] = NoMarker
  PROVE  \E p \in Proc : (Clear(p) /\ v = at[p]) \/ CleanupClear(p, v)
<1> USE MarkerAssumption DEF CommandInv, TypeOK, Label, GoTo, Forget, Finish, Leave, Take, disk, call
<1>1. ASSUME NEW q \in Proc, Start(q) PROVE \E p \in Proc : (Clear(p) /\ v = at[p]) \/ CleanupClear(p, v)
  BY <1>1 DEF Start
<1>2. ASSUME NEW q \in Proc, SpendBudget(q) PROVE \E p \in Proc : (Clear(p) /\ v = at[p]) \/ CleanupClear(p, v)
  BY <1>2 DEF SpendBudget
<1>3. ASSUME NEW q \in Proc, WaitGivesUp(q) PROVE \E p \in Proc : (Clear(p) /\ v = at[p]) \/ CleanupClear(p, v)
  BY <1>3 DEF WaitGivesUp
<1>4. ASSUME NEW q \in Proc, CheckPasses(q) PROVE \E p \in Proc : (Clear(p) /\ v = at[p]) \/ CleanupClear(p, v)
  BY <1>4 DEF CheckPasses
<1>5. ASSUME NEW q \in Proc, CheckFails(q) PROVE \E p \in Proc : (Clear(p) /\ v = at[p]) \/ CleanupClear(p, v)
  BY <1>5 DEF CheckFails
<1>6. ASSUME NEW q \in Proc, Return(q) PROVE \E p \in Proc : (Clear(p) /\ v = at[p]) \/ CleanupClear(p, v)
  BY <1>6 DEF Return
<1>7. ASSUME NEW q \in Proc, BodyEnds(q) PROVE \E p \in Proc : (Clear(p) /\ v = at[p]) \/ CleanupClear(p, v)
  BY <1>7 DEF BodyEnds
<1>8. ASSUME NEW q \in Proc, BridgeReturns(q) PROVE \E p \in Proc : (Clear(p) /\ v = at[p]) \/ CleanupClear(p, v)
  BY <1>8 DEF BridgeReturns
<1>9. ASSUME NEW q \in Proc, BridgeUncertain(q) PROVE \E p \in Proc : (Clear(p) /\ v = at[p]) \/ CleanupClear(p, v)
  BY <1>9 DEF BridgeUncertain
<1>10. ASSUME NEW q \in Proc, Publish(q) PROVE \E p \in Proc : (Clear(p) /\ v = at[p]) \/ CleanupClear(p, v)
  <2>1. PICK t \in Token, k \in BOOLEAN : marker' = [marker EXCEPT ![at[q]] = [gen |-> t, known |-> k]]
    BY <1>10 DEF Publish
  <2>2. [gen |-> t, known |-> k] \in ValidMarker
    BY DEF ValidMarker
  <2>3. QED
    BY <2>1, <2>2
<1>11. ASSUME NEW q \in Proc, PublishFails(q) PROVE \E p \in Proc : (Clear(p) /\ v = at[p]) \/ CleanupClear(p, v)
  BY <1>11 DEF PublishFails
<1>12. ASSUME NEW q \in Proc, DiscardConfirmed(q) PROVE \E p \in Proc : (Clear(p) /\ v = at[p]) \/ CleanupClear(p, v)
  BY <1>12 DEF DiscardConfirmed
<1>13. ASSUME NEW q \in Proc, NEW w \in Workbook, Acquire(q, w) PROVE \E p \in Proc : (Clear(p) /\ v = at[p]) \/ CleanupClear(p, v)
  BY <1>13 DEF Acquire
<1>14. ASSUME NEW q \in Proc, NEW w \in Workbook, AcquireBusy(q, w) PROVE \E p \in Proc : (Clear(p) /\ v = at[p]) \/ CleanupClear(p, v)
  BY <1>14 DEF AcquireBusy
<1>15. ASSUME NEW q \in Proc, NEW w \in Workbook, WaitAcquire(q, w) PROVE \E p \in Proc : (Clear(p) /\ v = at[p]) \/ CleanupClear(p, v)
  BY <1>15 DEF WaitAcquire
<1>16. ASSUME NEW q \in Proc, NEW w \in Workbook, Release(q, w) PROVE \E p \in Proc : (Clear(p) /\ v = at[p]) \/ CleanupClear(p, v)
  BY <1>16 DEF Release
<1>17. ASSUME NEW q \in Proc, NEW w \in Workbook, BridgeStarts(q, w) PROVE \E p \in Proc : (Clear(p) /\ v = at[p]) \/ CleanupClear(p, v)
  BY <1>17 DEF BridgeStarts
<1>18. ASSUME NEW q \in Proc, ClearBegins(q) PROVE \E p \in Proc : (Clear(p) /\ v = at[p]) \/ CleanupClear(p, v)
  BY <1>18 DEF ClearBegins
<1>19. ASSUME NEW q \in Proc, Examine(q) PROVE \E p \in Proc : (Clear(p) /\ v = at[p]) \/ CleanupClear(p, v)
  BY <1>19 DEF Examine
<1>20. ASSUME NEW q \in Proc, VerifyPasses(q) PROVE \E p \in Proc : (Clear(p) /\ v = at[p]) \/ CleanupClear(p, v)
  BY <1>20 DEF VerifyPasses
<1>21. ASSUME NEW q \in Proc, VerifyFails(q) PROVE \E p \in Proc : (Clear(p) /\ v = at[p]) \/ CleanupClear(p, v)
  BY <1>21 DEF VerifyFails
<1>22. ASSUME NEW q \in Proc, Clear(q) PROVE \E p \in Proc : (Clear(p) /\ v = at[p]) \/ CleanupClear(p, v)
  BY <1>22 DEF Clear
<1>23. ASSUME NEW q \in Proc, CleanupStart(q) PROVE \E p \in Proc : (Clear(p) /\ v = at[p]) \/ CleanupClear(p, v)
  BY <1>23 DEF CleanupStart
<1>a. ASSUME NEW q \in Proc, NEW w \in Workbook, CleanupRead(q, w) PROVE \E p \in Proc : (Clear(p) /\ v = at[p]) \/ CleanupClear(p, v)
  BY <1>a DEF CleanupRead
<1>b. ASSUME NEW q \in Proc, CleanupListed(q) PROVE \E p \in Proc : (Clear(p) /\ v = at[p]) \/ CleanupClear(p, v)
  BY <1>b DEF CleanupListed
<1>24. ASSUME NEW q \in Proc, CleanupFails(q) PROVE \E p \in Proc : (Clear(p) /\ v = at[p]) \/ CleanupClear(p, v)
  BY <1>24 DEF CleanupFails
<1>25. ASSUME NEW q \in Proc, CleanupCheck(q) PROVE \E p \in Proc : (Clear(p) /\ v = at[p]) \/ CleanupClear(p, v)
  BY <1>25 DEF CleanupCheck
<1>26. ASSUME NEW q \in Proc, CleanupReady(q) PROVE \E p \in Proc : (Clear(p) /\ v = at[p]) \/ CleanupClear(p, v)
  BY <1>26 DEF CleanupReady
<1>27. ASSUME NEW q \in Proc, CleanupRun(q) PROVE \E p \in Proc : (Clear(p) /\ v = at[p]) \/ CleanupClear(p, v)
  BY <1>27 DEF CleanupRun
<1>28. ASSUME NEW q \in Proc, CleanupEnum(q) PROVE \E p \in Proc : (Clear(p) /\ v = at[p]) \/ CleanupClear(p, v)
  BY <1>28 DEF CleanupEnum
<1>29. ASSUME NEW q \in Proc, CleanupEnds(q) PROVE \E p \in Proc : (Clear(p) /\ v = at[p]) \/ CleanupClear(p, v)
  BY <1>29 DEF CleanupEnds
<1>30. ASSUME NEW q \in Proc, NEW w \in Workbook, CleanupAcquire(q, w) PROVE \E p \in Proc : (Clear(p) /\ v = at[p]) \/ CleanupClear(p, v)
  BY <1>30 DEF CleanupAcquire
<1>31. ASSUME NEW q \in Proc, NEW w \in Workbook, CleanupClear(q, w) PROVE \E p \in Proc : (Clear(p) /\ v = at[p]) \/ CleanupClear(p, v)
  BY <1>31 DEF CleanupClear
<1>32. ASSUME NEW w \in Workbook, ExcelEnds(w) PROVE \E p \in Proc : (Clear(p) /\ v = at[p]) \/ CleanupClear(p, v)
  BY <1>32 DEF ExcelEnds
<1>33. ASSUME NEW w \in Workbook, MarkerSpoils(w) PROVE \E p \in Proc : (Clear(p) /\ v = at[p]) \/ CleanupClear(p, v)
  BY <1>33 DEF MarkerSpoils
<1>34. ASSUME NEW q \in Proc, Crash(q) PROVE \E p \in Proc : (Clear(p) /\ v = at[p]) \/ CleanupClear(p, v)
  BY <1>34 DEF Crash
<1>35. QED
  BY <1>1, <1>2, <1>3, <1>4, <1>5, <1>6, <1>7, <1>8, <1>9, <1>10, <1>11,
     <1>12, <1>13, <1>14, <1>15, <1>16, <1>17, <1>18, <1>19, <1>20, <1>21,
     <1>22, <1>23, <1>a, <1>b, <1>24, <1>25, <1>26, <1>27, <1>28, <1>29, <1>30, <1>31,
     <1>32, <1>33, <1>34
  DEF Next, CommandStep, RecoveryStep, CleanupStep

\* Every reachable state satisfies the inductive invariant.
THEOREM CommandInvariant == Spec => []CommandInv
<1>1. Init => CommandInv
  <2> SUFFICES ASSUME Init PROVE CommandInv
    OBVIOUS
  <2> USE NoProcAssumption, MarkerAssumption DEF Init, NothingExamined
  <2>1. TypeOK
    BY DEF TypeOK, Label, Marker, Command, NormalCommand
  <2>2. LeasesHeld /\ LeasedInOrder /\ CleanWhereChecked
    BY DEF LeasesHeld, LeasedInOrder, CleanWhereChecked, Held, Inside, AtLabel, ClearLabel
  <2>3. QuietWhereCleared /\ UncertainIsQuarantined
    BY DEF QuietWhereCleared, UncertainIsQuarantined, ClearLabel
  <2>4. MarkersExamined /\ GenerationsIdentify
    BY DEF MarkersExamined, GenerationsIdentify, CleanupLabel, ClearLabel
  <2>5. QED
    BY <2>1, <2>2, <2>3, <2>4 DEF CommandInv
<1>2. CommandInv /\ [Next]_vars => CommandInv'
  BY TypePreserved, LeasesPreserved, QuietPreserved, QuarantinePreserved, CleanPreserved,
     ExaminedPreserved, IdentifyPreserved, OrderPreserved DEF CommandInv
<1>3. QED
  BY <1>1, <1>2, PTL DEF Spec

\* coordination.go: the leases, markers and commands are in states the code can be in.
THEOREM TypeOKHolds == Spec => []TypeOK
<1>1. CommandInv => TypeOK
  BY DEF CommandInv
<1>2. QED
  BY <1>1, CommandInvariant, PTL

\* acquireWorkbookCoordination: a command is in its body only with the leases
\* of all its workbooks, whoever else waits, times out, cleans up or crashes.
THEOREM BodyHoldsAllHolds == Spec => []BodyHoldsAll
<1>1. CommandInv => BodyHoldsAll
  BY DEF CommandInv, LeasesHeld, BodyHoldsAll
<1>2. QED
  BY <1>1, CommandInvariant, PTL

\* publishWorkbookRecovery and the clearing paths: work that Excel may still be
\* doing is quarantined unless the program has said that it is not.
THEOREM UncertainIsQuarantinedHolds == Spec => []UncertainIsQuarantined
<1>1. CommandInv => UncertainIsQuarantined
  BY DEF CommandInv
<1>2. QED
  BY <1>1, CommandInvariant, PTL

\* The checks made lease by lease (coordination.go:380) are as good as checks
\* made under all leases.
THEOREM BodyStartsCleanHolds == Spec => BodyStartsClean
<1> DEFINE A == \A p \in Proc :
       pc[p] = "check" /\ pc'[p] = "body" /\ cmd[p] \in NormalCommand
         => \A w \in targets[p] : marker[w] = NoMarker /\ lease[w] = p
<1>1. CommandInv /\ [Next]_vars => [A]_vars
  <2> SUFFICES ASSUME CommandInv, Next, NEW p \in Proc, pc[p] = "check", pc'[p] = "body",
                      cmd[p] \in NormalCommand
               PROVE  \A w \in targets[p] : marker[w] = NoMarker /\ lease[w] = p
    OBVIOUS
  <2>1. CheckPasses(p)
    BY OnlyCheckPasses DEF CommandInv
  <2>2. targets[p] \subseteq Held(p) /\ marker[at[p]] = NoMarker
    BY <2>1 DEF CheckPasses, Leave, GoTo, MarkerAllows, RecoveryCommand, NormalCommand, CommandInv, TypeOK
  <2>3. \A w \in Held(p) : marker[w] = NoMarker
    BY <2>2 DEF CommandInv, CleanWhereChecked
  <2>4. QED
    BY <2>2, <2>3 DEF Held
<1>2. QED
  BY <1>1, CommandInvariant, PTL DEF Spec, BodyStartsClean

\* acquireBridgeCoordination: Excel is not set to work while it may be at work
\* for an operation that is over.
THEOREM ExcelIsQuietOnStartHolds == Spec => ExcelIsQuietOnStart
<1> DEFINE A == \A p \in Proc :
       pc[p] = "body" /\ pc'[p] = "bridge" /\ cmd[p] \in NormalCommand
         => \A w \in Workbook : w = at'[p] => excel[w] = "quiet" \/ w \in excused
<1>1. CommandInv /\ [Next]_vars => [A]_vars
  <2> SUFFICES ASSUME CommandInv, Next, NEW p \in Proc, pc[p] = "body", pc'[p] = "bridge",
                      cmd[p] \in NormalCommand, NEW w \in Workbook, w = at'[p]
               PROVE  excel[w] = "quiet" \/ w \in excused
    OBVIOUS
  <2>1. PICK v \in Workbook : BridgeStarts(p, v)
    BY OnlyBridgeStarts DEF CommandInv
  <2>2. v = w /\ marker[w] = NoMarker /\ lease[w] = p
    BY <2>1 DEF BridgeStarts, MarkerAllows, RecoveryCommand, NormalCommand, Held, CommandInv, TypeOK
  <2>3. QED
    BY <2>2 DEF CommandInv, UncertainIsQuarantined, TypeOK
<1>2. QED
  BY <1>1, CommandInvariant, PTL DEF Spec, ExcelIsQuietOnStart

\* ClearRecovery: a marker is removed only under the lease, by a command that
\* clears, and only if it is the marker that command examined.
THEOREM ClearsOnlyExaminedHolds == Spec => ClearsOnlyExamined
<1> DEFINE A == \A w \in Workbook :
       marker[w] # NoMarker /\ marker'[w] = NoMarker =>
         \E p \in Proc :
           /\ lease[w] = p
           /\ cmd[p] \notin NormalCommand
           /\ examined[p][w] = marker[w]
<1>1. CommandInv /\ [Next]_vars => [A]_vars
  <2> SUFFICES ASSUME CommandInv, Next, NEW w \in Workbook, marker[w] # NoMarker, marker'[w] = NoMarker
               PROVE  \E p \in Proc : /\ lease[w] = p
                                      /\ cmd[p] \notin NormalCommand
                                      /\ examined[p][w] = marker[w]
    OBVIOUS
  <2>1. PICK p \in Proc : (Clear(p) /\ w = at[p]) \/ CleanupClear(p, w)
    BY OnlyClearing
  <2> USE DEF CommandInv, LeasesHeld, MarkersExamined, Held, AtLabel, ClearLabel, CleanupLabel, Inside
  <2>2. CASE Clear(p) /\ w = at[p]
    <3>1. pc[p] = "clear" /\ SameMarker(p, w)
      BY <2>2 DEF Clear, TypeOK
    <3>2. lease[w] = p /\ cmd[p] \notin NormalCommand
      BY <3>1, <2>2
    <3>3. examined[p][w] \in Marker /\ examined[p][w] # NoMarker /\ marker[w] \in {examined[p][w], InvalidMarker}
      BY <3>1, <2>2 DEF TypeOK
    <3>4. examined[p][w] = marker[w]
      BY <3>1, <3>3, MarkerAssumption DEF SameMarker, Marker
    <3>5. QED
      BY <3>2, <3>4
  <2>3. CASE CleanupClear(p, w)
    <3>1. pc[p] = "clClear" /\ w \in targets[p] /\ SameMarker(p, w)
      BY <2>3 DEF CleanupClear, TypeOK
    <3>2. lease[w] = p /\ cmd[p] \notin NormalCommand
      BY <3>1
    <3>3. examined[p][w] \in ValidMarker /\ marker[w] \in {examined[p][w], InvalidMarker, NoMarker}
      BY <3>1, <3>2
    <3>4. examined[p][w] = marker[w]
      BY <3>1, <3>3, MarkerAssumption DEF SameMarker
    <3>5. QED
      BY <3>2, <3>4
  <2>4. QED
    BY <2>1, <2>2, <2>3
<1>2. QED
  BY <1>1, CommandInvariant, PTL DEF Spec, ClearsOnlyExamined

-----------------------------------------------------------------------------
(***************************************************************************)
(* No ring of waiting commands.  In a ring everyone waits for a workbook    *)
(* after those it has, so the one that waits for the last of the awaited    *)
(* workbooks waits for somebody who is not waiting.                         *)
(***************************************************************************)
\* A nonempty set of workbooks has a last one.
LEMMA LastOf ==
  ASSUME NEW T \in SUBSET Workbook, T # {}
  PROVE  \E m \in T : \A w \in T : w <= m
<1> DEFINE Back == {WorkbookCount - w : w \in T}
<1>1. Back \subseteq Nat /\ Back # {}
  <2>1. ASSUME NEW w \in T PROVE WorkbookCount - w \in Nat
    <3>1. w \in 1..WorkbookCount
      BY DEF Workbook
    <3>2. QED
      BY <3>1, WorkbookCountAssumption
  <2>2. QED
    BY <2>1
<1>2. PICK b \in Back : \A c \in Back : ~(<<c, b>> \in OpToRel(<, Nat))
  BY <1>1, NatLessThanWellFounded, WFMin
<1>3. \A c \in Back : b <= c
  <2>1. ASSUME NEW c \in Back PROVE ~(c < b)
    BY <1>1, <1>2 DEF OpToRel
  <2>2. QED
    BY <1>1, <2>1
<1>4. PICK m \in T : b = WorkbookCount - m
  BY <1>2
<1>5. ASSUME NEW w \in T PROVE w <= m
  <2>1. WorkbookCount - m <= WorkbookCount - w
    BY <1>3, <1>4
  <2>2. QED
    BY <2>1, WorkbookCountAssumption DEF Workbook
<1>6. QED
  BY <1>5

\* acquireWorkbookCoordination sorts the lock IDs (coordination.go:310), so
\* commands that wait with leases in hand never wait for each other in a ring.
THEOREM NoWaitCycleHolds == Spec => []NoWaitCycle
<1>1. CommandInv => NoWaitCycle
  <2> SUFFICES ASSUME CommandInv, NEW S \in SUBSET Proc, S # {},
                      \A p \in S : \E q \in S : Blocks(p, q)
               PROVE  FALSE
    BY DEF NoWaitCycle
  <2> DEFINE T == {w \in Workbook : \E p \in S : NextTarget(p, w) /\ pc[p] = "wait"}
  <2>1. T # {}
    BY DEF Blocks
  <2>2. PICK m \in T : \A w \in T : w <= m
    BY <2>1, LastOf
  <2>3. PICK p \in S : NextTarget(p, m) /\ pc[p] = "wait"
    BY <2>2
  <2>4. PICK q \in S : Blocks(p, q)
    BY <2>3
  <2>5. lease[m] = q
    <3>1. PICK w \in Workbook : NextTarget(p, w) /\ lease[w] = q
      BY <2>4 DEF Blocks
    <3>2. w = m
      BY <3>1, <2>3 DEF NextTarget, Workbook, CommandInv, TypeOK, Held
    <3>3. QED
      BY <3>1, <3>2
  <2>6. PICK v \in Workbook : NextTarget(q, v) /\ pc[q] = "wait"
    BY DEF Blocks
  <2>7. m < v
    BY <2>5, <2>6 DEF CommandInv, LeasedInOrder, NextTarget, Held
  <2>8. v <= m
    BY <2>2, <2>6
  <2>9. QED
    BY <2>7, <2>8 DEF Workbook
<1>2. QED
  BY <1>1, CommandInvariant, PTL

\* acquireRepositoryWorkbookLeases: both promises about the leases of commands.
THEOREM LeasesAreOrderlyHolds == Spec => []LeasesAreOrderly
<1>1. BodyHoldsAll /\ NoWaitCycle => LeasesAreOrderly
  BY DEF LeasesAreOrderly
<1>2. QED
  BY <1>1, BodyHoldsAllHolds, NoWaitCycleHolds, PTL

=============================================================================
