-------------------------- MODULE WorkbookLockProofs --------------------------
(***************************************************************************)
(* Proofs about WorkbookLock, for every set of processes and generations.   *)
(***************************************************************************)
EXTENDS WorkbookLock, TLAPS

\* Every step keeps every variable in its type.
LEMMA TypePreserved ==
  TypeOK /\ [Next]_vars => TypeOK'
<1> SUFFICES ASSUME TypeOK, [Next]_vars PROVE TypeOK'
  OBVIOUS
<1> USE DEF TypeOK, Label, Observing, Contending, Publishing, Releasing, SharedCall,
        Probing, GoTo, Return, LockOp, UnlockOp, LockGuard, UnlockGuard
<1>1. ASSUME NEW p \in Proc, Observe(p) PROVE TypeOK'
  BY <1>1 DEF Observe
<1>2. ASSUME NEW p \in Proc, ObserveRelease(p) PROVE TypeOK'
  BY <1>2 DEF ObserveRelease
<1>3. ASSUME NEW p \in Proc, EnterGuard(p) PROVE TypeOK'
  BY <1>3 DEF EnterGuard
<1>4. ASSUME NEW p \in Proc, GuardBusy(p) PROVE TypeOK'
  BY <1>4 DEF GuardBusy
<1>5. ASSUME NEW p \in Proc, TryAcquire(p) PROVE TypeOK'
  BY <1>5 DEF TryAcquire
<1>6. ASSUME NEW p \in Proc, Publish(p) PROVE TypeOK'
  BY <1>6 DEF Publish
<1>7. ASSUME NEW p \in Proc, PublishFails(p) PROVE TypeOK'
  BY <1>7 DEF PublishFails
<1>8. ASSUME NEW p \in Proc, Handoff(p) PROVE TypeOK'
  BY <1>8 DEF Handoff
<1>9. ASSUME NEW p \in Proc, AbortGuard(p) PROVE TypeOK'
  BY <1>9 DEF AbortGuard
<1>10. ASSUME NEW p \in Proc, Abort(p) PROVE TypeOK'
  BY <1>10 DEF Abort
<1>11. ASSUME NEW p \in Proc, ReadOwner(p) PROVE TypeOK'
  BY <1>11 DEF ReadOwner
<1>12. ASSUME NEW p \in Proc, AnswerBusy(p) PROVE TypeOK'
  BY <1>12 DEF AnswerBusy
<1>13. ASSUME NEW p \in Proc, Wake(p) PROVE TypeOK'
  BY <1>13 DEF Wake
<1>14. ASSUME NEW p \in Proc, SharedTry(p) PROVE TypeOK'
  BY <1>14 DEF SharedTry
<1>15. ASSUME NEW p \in Proc, SharedWake(p) PROVE TypeOK'
  BY <1>15 DEF SharedWake
<1>16. ASSUME NEW p \in Proc, ReleaseGuard(p) PROVE TypeOK'
  BY <1>16 DEF ReleaseGuard
<1>17. ASSUME NEW p \in Proc, ReleaseUnguarded(p) PROVE TypeOK'
  BY <1>17 DEF ReleaseUnguarded
<1>18. ASSUME NEW p \in Proc, ReleaseRemove(p) PROVE TypeOK'
  BY <1>18 DEF ReleaseRemove
<1>19. ASSUME NEW p \in Proc, ReleaseUnlock(p) PROVE TypeOK'
  BY <1>19 DEF ReleaseUnlock
<1>20. ASSUME NEW p \in Proc, ReleaseUnguard(p) PROVE TypeOK'
  BY <1>20 DEF ReleaseUnguard
<1>21. ASSUME NEW p \in Proc, ProbeGuard(p) PROVE TypeOK'
  BY <1>21 DEF ProbeGuard
<1>22. ASSUME NEW p \in Proc, ProbeTry(p) PROVE TypeOK'
  BY <1>22 DEF ProbeTry
<1>23. ASSUME NEW p \in Proc, ProbeRemove(p) PROVE TypeOK'
  BY <1>23 DEF ProbeRemove
<1>24. ASSUME NEW p \in Proc, ProbeUnlock(p) PROVE TypeOK'
  BY <1>24 DEF ProbeUnlock
<1>25. ASSUME NEW p \in Proc, ProbeRead(p) PROVE TypeOK'
  BY <1>25 DEF ProbeRead
<1>26. ASSUME NEW p \in Proc, ProbeUnguard(p) PROVE TypeOK'
  BY <1>26 DEF ProbeUnguard
<1>27. ASSUME NEW p \in Proc, AcquireStart(p) PROVE TypeOK'
  BY <1>27 DEF AcquireStart
<1>28. ASSUME NEW p \in Proc, SharedStart(p) PROVE TypeOK'
  BY <1>28 DEF SharedStart
<1>29. ASSUME NEW p \in Proc, ProbeStart(p) PROVE TypeOK'
  BY <1>29 DEF ProbeStart
<1>30. ASSUME NEW p \in Proc, ReleaseStart(p) PROVE TypeOK'
  BY <1>30 DEF ReleaseStart
<1>31. ASSUME NEW p \in Proc, SharedRelease(p) PROVE TypeOK'
  BY <1>31 DEF SharedRelease
<1>32. ASSUME NEW p \in Proc, GiveUp(p) PROVE TypeOK'
  BY <1>32 DEF GiveUp
<1>33. ASSUME NEW p \in Proc, AcquireFails(p) PROVE TypeOK'
  BY <1>33 DEF AcquireFails
<1>34. ASSUME NEW p \in Proc, ReleaseTimeout(p) PROVE TypeOK'
  BY <1>34 DEF ReleaseTimeout
<1>35. ASSUME NEW p \in Proc, Crash(p) PROVE TypeOK'
  BY <1>35 DEF Crash
<1>36. CASE UNCHANGED vars
  BY <1>36 DEF vars
<1> HIDE DEF TypeOK
<1>37. QED
  BY <1>1, <1>2, <1>3, <1>4, <1>5, <1>6, <1>7, <1>8, <1>9, <1>10, <1>11, <1>12, <1>13, <1>14, <1>15, <1>16, <1>17, <1>18, <1>19, <1>20, <1>21, <1>22, <1>23, <1>24, <1>25, <1>26, <1>27, <1>28, <1>29, <1>30, <1>31, <1>32, <1>33, <1>34, <1>35, <1>36
  DEF Next, Progress, AcquireStep, SharedStep, ReleaseStep, ProbeStep, Environment

\* lock.go: the owner of each byte is the process whose place in the code says it
\* owns it.  A byte is taken and given back by the steps of its owner only, or
\* falls free when the owner dies.
LEMMA BytesPreserved ==
  TypeOK /\ ByteOwnership /\ [Next]_vars => ByteOwnership'
<1> SUFFICES ASSUME TypeOK, ByteOwnership, [Next]_vars PROVE ByteOwnership'
  OBVIOUS
<1> USE NoProcAssumption, NoGenerationAssumption DEF TypeOK, ByteOwnership, OpExLabel, GuardLabel, LeaseLabel,
        Label, Observing, Contending, Publishing, Releasing, SharedCall,
        Probing, GoTo, Return, LockOp, UnlockOp, LockGuard, UnlockGuard, OpFree
<1>1. ASSUME NEW p \in Proc, Observe(p) PROVE ByteOwnership'
  BY <1>1 DEF Observe
<1>2. ASSUME NEW p \in Proc, ObserveRelease(p) PROVE ByteOwnership'
  BY <1>2 DEF ObserveRelease
<1>3. ASSUME NEW p \in Proc, EnterGuard(p) PROVE ByteOwnership'
  BY <1>3 DEF EnterGuard
<1>4. ASSUME NEW p \in Proc, GuardBusy(p) PROVE ByteOwnership'
  BY <1>4 DEF GuardBusy
<1>5. ASSUME NEW p \in Proc, TryAcquire(p) PROVE ByteOwnership'
  BY <1>5 DEF TryAcquire
<1>6. ASSUME NEW p \in Proc, Publish(p) PROVE ByteOwnership'
  BY <1>6 DEF Publish
<1>7. ASSUME NEW p \in Proc, PublishFails(p) PROVE ByteOwnership'
  BY <1>7 DEF PublishFails
<1>8. ASSUME NEW p \in Proc, Handoff(p) PROVE ByteOwnership'
  BY <1>8 DEF Handoff
<1>9. ASSUME NEW p \in Proc, AbortGuard(p) PROVE ByteOwnership'
  BY <1>9 DEF AbortGuard
<1>10. ASSUME NEW p \in Proc, Abort(p) PROVE ByteOwnership'
  BY <1>10 DEF Abort
<1>11. ASSUME NEW p \in Proc, ReadOwner(p) PROVE ByteOwnership'
  BY <1>11 DEF ReadOwner
<1>12. ASSUME NEW p \in Proc, AnswerBusy(p) PROVE ByteOwnership'
  BY <1>12 DEF AnswerBusy
<1>13. ASSUME NEW p \in Proc, Wake(p) PROVE ByteOwnership'
  BY <1>13 DEF Wake
<1>14. ASSUME NEW p \in Proc, SharedTry(p) PROVE ByteOwnership'
  BY <1>14 DEF SharedTry
<1>15. ASSUME NEW p \in Proc, SharedWake(p) PROVE ByteOwnership'
  BY <1>15 DEF SharedWake
<1>16. ASSUME NEW p \in Proc, ReleaseGuard(p) PROVE ByteOwnership'
  BY <1>16 DEF ReleaseGuard
<1>17. ASSUME NEW p \in Proc, ReleaseUnguarded(p) PROVE ByteOwnership'
  BY <1>17 DEF ReleaseUnguarded
<1>18. ASSUME NEW p \in Proc, ReleaseRemove(p) PROVE ByteOwnership'
  BY <1>18 DEF ReleaseRemove
<1>19. ASSUME NEW p \in Proc, ReleaseUnlock(p) PROVE ByteOwnership'
  BY <1>19 DEF ReleaseUnlock
<1>20. ASSUME NEW p \in Proc, ReleaseUnguard(p) PROVE ByteOwnership'
  BY <1>20 DEF ReleaseUnguard
<1>21. ASSUME NEW p \in Proc, ProbeGuard(p) PROVE ByteOwnership'
  BY <1>21 DEF ProbeGuard
<1>22. ASSUME NEW p \in Proc, ProbeTry(p) PROVE ByteOwnership'
  BY <1>22 DEF ProbeTry
<1>23. ASSUME NEW p \in Proc, ProbeRemove(p) PROVE ByteOwnership'
  BY <1>23 DEF ProbeRemove
<1>24. ASSUME NEW p \in Proc, ProbeUnlock(p) PROVE ByteOwnership'
  BY <1>24 DEF ProbeUnlock
<1>25. ASSUME NEW p \in Proc, ProbeRead(p) PROVE ByteOwnership'
  BY <1>25 DEF ProbeRead
<1>26. ASSUME NEW p \in Proc, ProbeUnguard(p) PROVE ByteOwnership'
  BY <1>26 DEF ProbeUnguard
<1>27. ASSUME NEW p \in Proc, AcquireStart(p) PROVE ByteOwnership'
  BY <1>27 DEF AcquireStart
<1>28. ASSUME NEW p \in Proc, SharedStart(p) PROVE ByteOwnership'
  BY <1>28 DEF SharedStart
<1>29. ASSUME NEW p \in Proc, ProbeStart(p) PROVE ByteOwnership'
  BY <1>29 DEF ProbeStart
<1>30. ASSUME NEW p \in Proc, ReleaseStart(p) PROVE ByteOwnership'
  BY <1>30 DEF ReleaseStart
<1>31. ASSUME NEW p \in Proc, SharedRelease(p) PROVE ByteOwnership'
  BY <1>31 DEF SharedRelease
<1>32. ASSUME NEW p \in Proc, GiveUp(p) PROVE ByteOwnership'
  BY <1>32 DEF GiveUp
<1>33. ASSUME NEW p \in Proc, AcquireFails(p) PROVE ByteOwnership'
  BY <1>33 DEF AcquireFails
<1>34. ASSUME NEW p \in Proc, ReleaseTimeout(p) PROVE ByteOwnership'
  BY <1>34 DEF ReleaseTimeout
<1>35. ASSUME NEW p \in Proc, Crash(p) PROVE ByteOwnership'
  BY <1>35 DEF Crash
<1>36. CASE UNCHANGED vars
  BY <1>36 DEF vars
<1> HIDE DEF ByteOwnership
<1>37. QED
  BY <1>1, <1>2, <1>3, <1>4, <1>5, <1>6, <1>7, <1>8, <1>9, <1>10, <1>11, <1>12, <1>13, <1>14, <1>15, <1>16, <1>17, <1>18, <1>19, <1>20, <1>21, <1>22, <1>23, <1>24, <1>25, <1>26, <1>27, <1>28, <1>29, <1>30, <1>31, <1>32, <1>33, <1>34, <1>35, <1>36
  DEF Next, Progress, AcquireStep, SharedStep, ReleaseStep, ProbeStep, Environment

\* lock.go:329-357, 493-505: nobody replaces or removes the metadata of a lease
\* but its holder, who holds the operation byte as it does so.
LEMMA RecordPreserved ==
  TypeOK /\ ByteOwnership /\ HolderRecordStands /\ [Next]_vars => HolderRecordStands'
<1> SUFFICES ASSUME TypeOK, ByteOwnership, HolderRecordStands, [Next]_vars PROVE HolderRecordStands'
  OBVIOUS
<1> USE NoProcAssumption, NoGenerationAssumption DEF TypeOK, ByteOwnership, HolderRecordStands, RecordLabel, OpExLabel, GuardLabel, LeaseLabel,
        Label, Observing, Contending, Publishing, Releasing, SharedCall,
        Probing, GoTo, Return, LockOp, UnlockOp, LockGuard, UnlockGuard, OpFree
<1>1. ASSUME NEW p \in Proc, Observe(p) PROVE HolderRecordStands'
  BY <1>1 DEF Observe
<1>2. ASSUME NEW p \in Proc, ObserveRelease(p) PROVE HolderRecordStands'
  BY <1>2 DEF ObserveRelease
<1>3. ASSUME NEW p \in Proc, EnterGuard(p) PROVE HolderRecordStands'
  BY <1>3 DEF EnterGuard
<1>4. ASSUME NEW p \in Proc, GuardBusy(p) PROVE HolderRecordStands'
  BY <1>4 DEF GuardBusy
<1>5. ASSUME NEW p \in Proc, TryAcquire(p) PROVE HolderRecordStands'
  BY <1>5 DEF TryAcquire
<1>6. ASSUME NEW p \in Proc, Publish(p) PROVE HolderRecordStands'
  BY <1>6 DEF Publish
<1>7. ASSUME NEW p \in Proc, PublishFails(p) PROVE HolderRecordStands'
  BY <1>7 DEF PublishFails
<1>8. ASSUME NEW p \in Proc, Handoff(p) PROVE HolderRecordStands'
  BY <1>8 DEF Handoff
<1>9. ASSUME NEW p \in Proc, AbortGuard(p) PROVE HolderRecordStands'
  BY <1>9 DEF AbortGuard
<1>10. ASSUME NEW p \in Proc, Abort(p) PROVE HolderRecordStands'
  BY <1>10 DEF Abort
<1>11. ASSUME NEW p \in Proc, ReadOwner(p) PROVE HolderRecordStands'
  BY <1>11 DEF ReadOwner
<1>12. ASSUME NEW p \in Proc, AnswerBusy(p) PROVE HolderRecordStands'
  BY <1>12 DEF AnswerBusy
<1>13. ASSUME NEW p \in Proc, Wake(p) PROVE HolderRecordStands'
  BY <1>13 DEF Wake
<1>14. ASSUME NEW p \in Proc, SharedTry(p) PROVE HolderRecordStands'
  BY <1>14 DEF SharedTry
<1>15. ASSUME NEW p \in Proc, SharedWake(p) PROVE HolderRecordStands'
  BY <1>15 DEF SharedWake
<1>16. ASSUME NEW p \in Proc, ReleaseGuard(p) PROVE HolderRecordStands'
  BY <1>16 DEF ReleaseGuard
<1>17. ASSUME NEW p \in Proc, ReleaseUnguarded(p) PROVE HolderRecordStands'
  BY <1>17 DEF ReleaseUnguarded
<1>18. ASSUME NEW p \in Proc, ReleaseRemove(p) PROVE HolderRecordStands'
  BY <1>18 DEF ReleaseRemove
<1>19. ASSUME NEW p \in Proc, ReleaseUnlock(p) PROVE HolderRecordStands'
  BY <1>19 DEF ReleaseUnlock
<1>20. ASSUME NEW p \in Proc, ReleaseUnguard(p) PROVE HolderRecordStands'
  BY <1>20 DEF ReleaseUnguard
<1>21. ASSUME NEW p \in Proc, ProbeGuard(p) PROVE HolderRecordStands'
  BY <1>21 DEF ProbeGuard
<1>22. ASSUME NEW p \in Proc, ProbeTry(p) PROVE HolderRecordStands'
  BY <1>22 DEF ProbeTry
<1>23. ASSUME NEW p \in Proc, ProbeRemove(p) PROVE HolderRecordStands'
  BY <1>23 DEF ProbeRemove
<1>24. ASSUME NEW p \in Proc, ProbeUnlock(p) PROVE HolderRecordStands'
  BY <1>24 DEF ProbeUnlock
<1>25. ASSUME NEW p \in Proc, ProbeRead(p) PROVE HolderRecordStands'
  BY <1>25 DEF ProbeRead
<1>26. ASSUME NEW p \in Proc, ProbeUnguard(p) PROVE HolderRecordStands'
  BY <1>26 DEF ProbeUnguard
<1>27. ASSUME NEW p \in Proc, AcquireStart(p) PROVE HolderRecordStands'
  BY <1>27 DEF AcquireStart
<1>28. ASSUME NEW p \in Proc, SharedStart(p) PROVE HolderRecordStands'
  BY <1>28 DEF SharedStart
<1>29. ASSUME NEW p \in Proc, ProbeStart(p) PROVE HolderRecordStands'
  BY <1>29 DEF ProbeStart
<1>30. ASSUME NEW p \in Proc, ReleaseStart(p) PROVE HolderRecordStands'
  BY <1>30 DEF ReleaseStart
<1>31. ASSUME NEW p \in Proc, SharedRelease(p) PROVE HolderRecordStands'
  BY <1>31 DEF SharedRelease
<1>32. ASSUME NEW p \in Proc, GiveUp(p) PROVE HolderRecordStands'
  BY <1>32 DEF GiveUp
<1>33. ASSUME NEW p \in Proc, AcquireFails(p) PROVE HolderRecordStands'
  BY <1>33 DEF AcquireFails
<1>34. ASSUME NEW p \in Proc, ReleaseTimeout(p) PROVE HolderRecordStands'
  BY <1>34 DEF ReleaseTimeout
<1>35. ASSUME NEW p \in Proc, Crash(p) PROVE HolderRecordStands'
  BY <1>35 DEF Crash
<1>36. CASE UNCHANGED vars
  BY <1>36 DEF vars
<1> HIDE DEF HolderRecordStands
<1>37. QED
  BY <1>1, <1>2, <1>3, <1>4, <1>5, <1>6, <1>7, <1>8, <1>9, <1>10, <1>11, <1>12, <1>13, <1>14, <1>15, <1>16, <1>17, <1>18, <1>19, <1>20, <1>21, <1>22, <1>23, <1>24, <1>25, <1>26, <1>27, <1>28, <1>29, <1>30, <1>31, <1>32, <1>33, <1>34, <1>35, <1>36
  DEF Next, Progress, AcquireStep, SharedStep, ReleaseStep, ProbeStep, Environment

-----------------------------------------------------------------------------
(***************************************************************************)
(* The inductive invariant.  HolderRecordStands alone is not inductive: it  *)
(* needs to know that whoever removes or replaces the metadata holds the    *)
(* operation byte, which is ByteOwnership.                                  *)
(***************************************************************************)
LockInv == TypeOK /\ ByteOwnership /\ HolderRecordStands

\* Every reachable state, for any processes and generations, satisfies it.
THEOREM LockInvariant == Spec => []LockInv
<1>1. Init => LockInv
  BY NoProcAssumption, NoGenerationAssumption
  DEF Init, LockInv, TypeOK, ByteOwnership, HolderRecordStands, Label, RecordLabel,
      OpExLabel, GuardLabel, LeaseLabel
<1>2. LockInv /\ [Next]_vars => LockInv'
  BY TypePreserved, BytesPreserved, RecordPreserved DEF LockInv
<1>3. QED
  BY <1>1, <1>2, PTL DEF Spec

\* lock.go: the lock file and the processes are in states the code can be in.
THEOREM TypeOKHolds == Spec => []TypeOK
<1>1. LockInv => TypeOK
  BY DEF LockInv
<1>2. QED
  BY <1>1, LockInvariant, PTL

\* Every byte is owned by the process whose place in the code says so.
THEOREM ByteOwnershipHolds == Spec => []ByteOwnership
<1>1. LockInv => ByteOwnership
  BY DEF LockInv
<1>2. QED
  BY <1>1, LockInvariant, PTL

\* lock.go Acquire and acquireShared: an exclusive lease excludes every other
\* lease of the resource, through crashes, probes and timed-out releases.
THEOREM LeaseExclusionHolds == Spec => []LeaseExclusion
<1>1. LockInv => LeaseExclusion
  <2> SUFFICES ASSUME LockInv, NEW p \in Proc, NEW q \in Proc, HasLease(p), p # q
               PROVE  ~HasLease(q) /\ pc[q] # "shHeld"
    BY DEF LeaseExclusion
  <2>1. opEx = p
    BY DEF LockInv, ByteOwnership, HasLease, OpExLabel
  <2>2. ~HasLease(q)
    BY <2>1 DEF LockInv, ByteOwnership, HasLease, OpExLabel
  <2>3. pc[q] # "shHeld"
    BY <2>1, NoProcAssumption DEF LockInv, ByteOwnership
  <2>4. QED
    BY <2>2, <2>3
<1>2. QED
  BY <1>1, LockInvariant, PTL

\* lock.go Acquire, Probe and release: the metadata of a lease stays in place
\* until its own holder takes it down or dies.
THEOREM HolderRecordStandsHolds == Spec => []HolderRecordStands
<1>1. LockInv => HolderRecordStands
  BY DEF LockInv
<1>2. QED
  BY <1>1, LockInvariant, PTL

\* lock.go:161-163: under the publication guard a reader never sees a new
\* owner of the operation byte together with the metadata of an older one.
THEOREM NoStalePairingHolds == Spec => []NoStalePairing
<1>1. LockInv => NoStalePairing
  <2> SUFFICES ASSUME LockInv, NEW p \in Proc, NEW q \in Proc,
                      pc[p] \in {"readOwner", "prRead"}
               PROVE  /\ pc[q] \notin {"publish", "publishFailed"}
                      /\ HasLease(q) => owner = gen[q]
    BY DEF NoStalePairing
  <2>1. guard = p
    BY DEF LockInv, ByteOwnership, GuardLabel
  <2>2. q = p \/ pc[q] \notin GuardLabel
    BY <2>1 DEF LockInv, ByteOwnership
  <2>3. pc[q] \notin {"publish", "publishFailed"}
    BY <2>2 DEF GuardLabel
  <2>4. HasLease(q) => pc[q] \in RecordLabel
    BY <2>2 DEF HasLease, LeaseLabel, GuardLabel, RecordLabel
  <2>5. QED
    BY <2>3, <2>4 DEF LockInv, HolderRecordStands
<1>2. QED
  BY <1>1, LockInvariant, PTL

\* lock.go Acquire, Probe and release: both promises about the metadata.
THEOREM RecordIsTrueHolds == Spec => []RecordIsTrue
<1>1. HolderRecordStands /\ NoStalePairing => RecordIsTrue
  BY DEF RecordIsTrue
<1>2. QED
  BY <1>1, HolderRecordStandsHolds, NoStalePairingHolds, PTL

-----------------------------------------------------------------------------
(***************************************************************************)
(* The refinement of ResourceLease.                                         *)
(***************************************************************************)
\* The abstract holder is the process that has the lease.
LEMMA HolderOfLease ==
  ASSUME LockInv
  PROVE  /\ \A p \in Proc : HasLease(p) <=> LeaseHolder = p
         /\ (\A p \in Proc : ~HasLease(p)) => LeaseHolder = NoProc
<1>1. \A q \in Proc : HasLease(q) => opEx = q
  BY DEF LockInv, ByteOwnership, HasLease, OpExLabel
<1>2. QED
  BY <1>1, NoProcAssumption DEF LeaseHolder

\* The same in the next state.
LEMMA HolderOfLeaseNext ==
  ASSUME LockInv'
  PROVE  /\ \A p \in Proc : HasLease(p)' <=> LeaseHolder' = p
         /\ (\A p \in Proc : ~HasLease(p)') => LeaseHolder' = NoProc
<1>1. \A q \in Proc : HasLease(q)' => opEx' = q
  BY DEF LockInv, ByteOwnership, HasLease, OpExLabel
<1>2. QED
  BY <1>1, NoProcAssumption DEF LeaseHolder

\* A step after which the same processes have the lease leaves its holder alone.
LEMMA HolderUnchanged ==
  ASSUME LockInv, LockInv', \A p \in Proc : HasLease(p)' <=> HasLease(p)
  PROVE  LeaseHolder' = LeaseHolder
  BY HolderOfLease, HolderOfLeaseNext

\* Every step of the lock is a step of the lease or leaves it as it is.
LEMMA StepSimulates ==
  LockInv /\ LockInv' /\ [Next]_vars => [Lease!Next]_(Lease!vars)
<1> SUFFICES ASSUME LockInv, LockInv', [Next]_vars PROVE [Lease!Next]_(Lease!vars)
  OBVIOUS
<1> DEFINE Silent == \A q \in Proc : HasLease(q)' <=> HasLease(q)
<1>0. Silent => LeaseHolder' = LeaseHolder
  BY HolderUnchanged
<1>1. Silent /\ UNCHANGED <<opSh, owner>> => [Lease!Next]_(Lease!vars)
  BY <1>0 DEF Lease!vars
<1>2. TypeOK /\ ByteOwnership
  BY DEF LockInv
<1>3. ASSUME NEW p \in Proc, Publish(p) PROVE [Lease!Next]_(Lease!vars)
  <2> USE <1>3 DEF Publish
  <2>1. opEx = p /\ opSh = {}
    BY <1>2, NoProcAssumption DEF ByteOwnership, OpExLabel
  <2>2. \A q \in Proc : ~HasLease(q)
    BY <2>1, <1>2 DEF ByteOwnership, HasLease, OpExLabel, LeaseLabel
  <2>3. HasLease(p)'
    BY <1>2 DEF TypeOK, GoTo, HasLease, LeaseLabel
  <2>4. owner' \in Generation \ {owner}
    BY DEF Fresh
  <2>5. Lease!Grant(p)
    BY <2>1, <2>2, <2>3, <2>4, HolderOfLease, HolderOfLeaseNext
    DEF Lease!Grant, Lease!Free
  <2>6. QED
    BY <2>5 DEF Lease!Next
<1>4. ASSUME NEW p \in Proc, SharedTry(p) PROVE [Lease!Next]_(Lease!vars)
  <2>1. Silent
    BY <1>4, <1>2 DEF SharedTry, TypeOK, GoTo, HasLease, LeaseLabel
  <2>2. CASE opSh' = opSh
    BY <2>2, <2>1, <1>1, <1>4 DEF SharedTry
  <2>3. CASE opEx = NoProc /\ opSh' = opSh \cup {p}
    <3>1. \A q \in Proc : ~HasLease(q)
      BY <2>3, <1>2, NoProcAssumption DEF ByteOwnership, HasLease, OpExLabel
    <3>2. Lease!Share(p)
      BY <3>1, <2>3, <2>1, <1>0, <1>4, HolderOfLease DEF Lease!Share, SharedTry
    <3>3. QED
      BY <3>2 DEF Lease!Next
  <2>4. QED
    BY <2>2, <2>3, <1>4 DEF SharedTry
<1>5. ASSUME NEW p \in Proc, SharedRelease(p) PROVE [Lease!Next]_(Lease!vars)
  <2>1. Silent
    BY <1>5, <1>2 DEF SharedRelease, TypeOK, Return, GoTo, HasLease, LeaseLabel
  <2>2. Lease!Unshare(p)
    BY <1>5, <2>1, <1>0 DEF SharedRelease, Lease!Unshare
  <2>3. QED
    BY <2>2 DEF Lease!Next
<1>6. ASSUME NEW p \in Proc, ReleaseRemove(p) PROVE [Lease!Next]_(Lease!vars)
  <2>1. Silent
    BY <1>6, <1>2 DEF ReleaseRemove, TypeOK, GoTo, HasLease, LeaseLabel
  <2>2. LeaseHolder = p
    BY <1>6, HolderOfLease DEF ReleaseRemove, HasLease, LeaseLabel
  <2>3. CASE owner' = owner
    BY <2>3, <2>1, <1>1, <1>6 DEF ReleaseRemove
  <2>4. CASE owner' = NoGeneration
    <3>1. Lease!SignOff(p)
      BY <2>4, <2>2, <2>1, <1>0, <1>6 DEF Lease!SignOff, ReleaseRemove
    <3>2. QED
      BY <3>1 DEF Lease!Next
  <2>5. QED
    BY <2>3, <2>4, <1>6 DEF ReleaseRemove
<1>7. ASSUME NEW p \in Proc, ProbeRemove(p) PROVE [Lease!Next]_(Lease!vars)
  <2>1. Silent
    BY <1>7, <1>2 DEF ProbeRemove, TypeOK, GoTo, HasLease, LeaseLabel
  <2>2. opEx = p /\ opSh = {}
    BY <1>7, <1>2, NoProcAssumption DEF ProbeRemove, ByteOwnership, OpExLabel
  <2>3. \A q \in Proc : ~HasLease(q)
    BY <1>7, <2>2, <1>2 DEF ProbeRemove, ByteOwnership, HasLease, OpExLabel, LeaseLabel
  <2>4. CASE owner' = owner
    BY <2>4, <2>1, <1>1, <1>7 DEF ProbeRemove
  <2>5. CASE owner' = NoGeneration
    <3>1. Lease!Sweep
      BY <2>5, <2>3, <2>2, <2>1, <1>0, <1>7, HolderOfLease
      DEF Lease!Sweep, Lease!Free, ProbeRemove
    <3>2. QED
      BY <3>1 DEF Lease!Next
  <2>6. QED
    BY <2>4, <2>5, <1>7 DEF ProbeRemove
<1>8. ASSUME NEW p \in Proc, ReleaseUnlock(p) \/ ReleaseUnguarded(p)
      PROVE [Lease!Next]_(Lease!vars)
  <2>1. LeaseHolder = p
    BY <1>8, HolderOfLease DEF ReleaseUnlock, ReleaseUnguarded, HasLease, LeaseLabel
  <2>2. \A q \in Proc : ~HasLease(q)'
    <3>1. \A q \in Proc : HasLease(q) => q = p
      BY <2>1, HolderOfLease
    <3>2. QED
      BY <3>1, <1>8, <1>2
      DEF ReleaseUnlock, ReleaseUnguarded, Return, GoTo, TypeOK, HasLease, LeaseLabel
  <2>3. Lease!Leave(p)
    BY <1>8, <2>1, <2>2, HolderOfLeaseNext DEF ReleaseUnlock, ReleaseUnguarded, Lease!Leave
  <2>4. QED
    BY <2>3 DEF Lease!Next
<1>9. ASSUME NEW p \in Proc, Crash(p) PROVE [Lease!Next]_(Lease!vars)
  <2>1. /\ ~HasLease(p)'
        /\ \A q \in Proc \ {p} : HasLease(q)' <=> HasLease(q)
    BY <1>9, <1>2 DEF Crash, Return, GoTo, TypeOK, HasLease, LeaseLabel
  <2>2. CASE HasLease(p)
    <3>1. LeaseHolder = p /\ (\A q \in Proc : HasLease(q) => q = p)
      BY <2>2, HolderOfLease
    <3>2. LeaseHolder' = NoProc
      BY <3>1, <2>1, HolderOfLeaseNext
    <3>3. opSh' = opSh
      BY <1>9, <1>2, <2>2 DEF Crash, ByteOwnership, HasLease, LeaseLabel, TypeOK
    <3>4. Lease!Leave(p)
      BY <1>9, <3>1, <3>2, <3>3 DEF Crash, Lease!Leave
    <3>5. QED
      BY <3>4 DEF Lease!Next
  <2>3. CASE ~HasLease(p)
    <3>1. LeaseHolder' = LeaseHolder
      BY <2>1, <2>3, <1>0
    <3>2. Lease!Unshare(p)
      BY <1>9, <3>1 DEF Crash, Lease!Unshare
    <3>3. QED
      BY <3>2 DEF Lease!Next
  <2>4. QED
    BY <2>2, <2>3
<1>10. ASSUME NEW p \in Proc, Observe(p) PROVE [Lease!Next]_(Lease!vars)
  BY <1>10, <1>1, <1>2
  DEF Observe, Return, GoTo, TypeOK, HasLease, LeaseLabel
<1>11. ASSUME NEW p \in Proc, ObserveRelease(p) PROVE [Lease!Next]_(Lease!vars)
  BY <1>11, <1>1, <1>2
  DEF ObserveRelease, Return, GoTo, TypeOK, HasLease, LeaseLabel
<1>12. ASSUME NEW p \in Proc, EnterGuard(p) PROVE [Lease!Next]_(Lease!vars)
  BY <1>12, <1>1, <1>2
  DEF EnterGuard, Return, GoTo, TypeOK, HasLease, LeaseLabel
<1>13. ASSUME NEW p \in Proc, GuardBusy(p) PROVE [Lease!Next]_(Lease!vars)
  BY <1>13, <1>1, <1>2
  DEF GuardBusy, Return, GoTo, TypeOK, HasLease, LeaseLabel
<1>14. ASSUME NEW p \in Proc, TryAcquire(p) PROVE [Lease!Next]_(Lease!vars)
  BY <1>14, <1>1, <1>2
  DEF TryAcquire, Return, GoTo, TypeOK, HasLease, LeaseLabel
<1>15. ASSUME NEW p \in Proc, PublishFails(p) PROVE [Lease!Next]_(Lease!vars)
  BY <1>15, <1>1, <1>2
  DEF PublishFails, Return, GoTo, TypeOK, HasLease, LeaseLabel
<1>16. ASSUME NEW p \in Proc, Handoff(p) PROVE [Lease!Next]_(Lease!vars)
  BY <1>16, <1>1, <1>2
  DEF Handoff, Return, GoTo, TypeOK, HasLease, LeaseLabel
<1>17. ASSUME NEW p \in Proc, AbortGuard(p) PROVE [Lease!Next]_(Lease!vars)
  BY <1>17, <1>1, <1>2
  DEF AbortGuard, Return, GoTo, TypeOK, HasLease, LeaseLabel
<1>18. ASSUME NEW p \in Proc, Abort(p) PROVE [Lease!Next]_(Lease!vars)
  BY <1>18, <1>1, <1>2
  DEF Abort, Return, GoTo, TypeOK, HasLease, LeaseLabel
<1>19. ASSUME NEW p \in Proc, ReadOwner(p) PROVE [Lease!Next]_(Lease!vars)
  BY <1>19, <1>1, <1>2
  DEF ReadOwner, Return, GoTo, TypeOK, HasLease, LeaseLabel
<1>20. ASSUME NEW p \in Proc, AnswerBusy(p) PROVE [Lease!Next]_(Lease!vars)
  BY <1>20, <1>1, <1>2
  DEF AnswerBusy, Return, GoTo, TypeOK, HasLease, LeaseLabel
<1>21. ASSUME NEW p \in Proc, Wake(p) PROVE [Lease!Next]_(Lease!vars)
  BY <1>21, <1>1, <1>2
  DEF Wake, Return, GoTo, TypeOK, HasLease, LeaseLabel
<1>22. ASSUME NEW p \in Proc, SharedWake(p) PROVE [Lease!Next]_(Lease!vars)
  BY <1>22, <1>1, <1>2
  DEF SharedWake, Return, GoTo, TypeOK, HasLease, LeaseLabel
<1>23. ASSUME NEW p \in Proc, ReleaseGuard(p) PROVE [Lease!Next]_(Lease!vars)
  BY <1>23, <1>1, <1>2
  DEF ReleaseGuard, Return, GoTo, TypeOK, HasLease, LeaseLabel
<1>24. ASSUME NEW p \in Proc, ReleaseUnguard(p) PROVE [Lease!Next]_(Lease!vars)
  BY <1>24, <1>1, <1>2
  DEF ReleaseUnguard, Return, GoTo, TypeOK, HasLease, LeaseLabel
<1>25. ASSUME NEW p \in Proc, ProbeGuard(p) PROVE [Lease!Next]_(Lease!vars)
  BY <1>25, <1>1, <1>2
  DEF ProbeGuard, Return, GoTo, TypeOK, HasLease, LeaseLabel
<1>26. ASSUME NEW p \in Proc, ProbeTry(p) PROVE [Lease!Next]_(Lease!vars)
  BY <1>26, <1>1, <1>2
  DEF ProbeTry, Return, GoTo, TypeOK, HasLease, LeaseLabel
<1>27. ASSUME NEW p \in Proc, ProbeUnlock(p) PROVE [Lease!Next]_(Lease!vars)
  BY <1>27, <1>1, <1>2
  DEF ProbeUnlock, Return, GoTo, TypeOK, HasLease, LeaseLabel
<1>28. ASSUME NEW p \in Proc, ProbeRead(p) PROVE [Lease!Next]_(Lease!vars)
  BY <1>28, <1>1, <1>2
  DEF ProbeRead, Return, GoTo, TypeOK, HasLease, LeaseLabel
<1>29. ASSUME NEW p \in Proc, ProbeUnguard(p) PROVE [Lease!Next]_(Lease!vars)
  BY <1>29, <1>1, <1>2
  DEF ProbeUnguard, Return, GoTo, TypeOK, HasLease, LeaseLabel
<1>30. ASSUME NEW p \in Proc, AcquireStart(p) PROVE [Lease!Next]_(Lease!vars)
  BY <1>30, <1>1, <1>2
  DEF AcquireStart, Return, GoTo, TypeOK, HasLease, LeaseLabel
<1>31. ASSUME NEW p \in Proc, SharedStart(p) PROVE [Lease!Next]_(Lease!vars)
  BY <1>31, <1>1, <1>2
  DEF SharedStart, Return, GoTo, TypeOK, HasLease, LeaseLabel
<1>32. ASSUME NEW p \in Proc, ProbeStart(p) PROVE [Lease!Next]_(Lease!vars)
  BY <1>32, <1>1, <1>2
  DEF ProbeStart, Return, GoTo, TypeOK, HasLease, LeaseLabel
<1>33. ASSUME NEW p \in Proc, ReleaseStart(p) PROVE [Lease!Next]_(Lease!vars)
  BY <1>33, <1>1, <1>2
  DEF ReleaseStart, Return, GoTo, TypeOK, HasLease, LeaseLabel
<1>34. ASSUME NEW p \in Proc, GiveUp(p) PROVE [Lease!Next]_(Lease!vars)
  BY <1>34, <1>1, <1>2
  DEF GiveUp, Return, GoTo, TypeOK, HasLease, LeaseLabel
<1>35. ASSUME NEW p \in Proc, AcquireFails(p) PROVE [Lease!Next]_(Lease!vars)
  BY <1>35, <1>1, <1>2
  DEF AcquireFails, Return, GoTo, TypeOK, HasLease, LeaseLabel
<1>36. ASSUME NEW p \in Proc, ReleaseTimeout(p) PROVE [Lease!Next]_(Lease!vars)
  BY <1>36, <1>1, <1>2
  DEF ReleaseTimeout, Return, GoTo, TypeOK, HasLease, LeaseLabel
<1>37. CASE UNCHANGED vars
  BY <1>37, <1>1 DEF vars, HasLease
<1>38. QED
  BY <1>3, <1>4, <1>5, <1>6, <1>7, <1>8, <1>9, <1>10, <1>11, <1>12, <1>13, <1>14, <1>15, <1>16, <1>17, <1>18, <1>19, <1>20, <1>21, <1>22, <1>23, <1>24, <1>25, <1>26, <1>27, <1>28, <1>29, <1>30, <1>31, <1>32, <1>33, <1>34, <1>35, <1>36, <1>37
  DEF Next, Progress, AcquireStep, SharedStep, ReleaseStep, ProbeStep, Environment

\* internal/coordination keeps the promise of ResourceLease: its two byte-range
\* locks and its metadata file implement one exclusive-or-shared lease whose
\* record changes only at the holder's hand or when nobody has a lease.
THEOREM LeaseRefinementHolds == Spec => LeaseRefinement
<1>1. Init => Lease!Init
  BY DEF Init, Lease!Init, LeaseHolder, HasLease, LeaseLabel
<1>2. LockInv /\ LockInv' /\ [Next]_vars => [Lease!Next]_(Lease!vars)
  BY StepSimulates
<1>3. QED
  BY <1>1, <1>2, LockInvariant, PTL DEF Spec, LeaseRefinement, Lease!Spec
=============================================================================
