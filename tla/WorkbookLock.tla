---------------------------- MODULE WorkbookLock ----------------------------
(***************************************************************************)
(* internal/coordination/lock.go: the cross-process lock of ONE resource.   *)
(*                                                                          *)
(* A lock file carries two byte-range locks.  The OPERATION byte is the     *)
(* lease: exclusive for a workbook or a source root, shared for the         *)
(* ancestors of a source root.  The PUBLICATION byte guards the handshake   *)
(* that keeps the owner metadata file beside the lock consistent with it.   *)
(* Manager.Acquire, Manager.Probe (and Manager.Observe, which takes the     *)
(* same steps) and Lease.Release are modelled one system call at a time:    *)
(* every try-lock, unlock, metadata write, read and removal is a step, and  *)
(* a process may crash between any two of them.                             *)
(***************************************************************************)
EXTENDS FiniteSets

CONSTANTS
  Proc,         \* the processes; a crashed one may start again under its name
  Generation,   \* acquisition tokens (newGeneration)
  NoProc,       \* nobody holds a byte
  NoGeneration  \* no metadata file, or metadata that does not parse

ASSUME NoProcAssumption == NoProc \notin Proc
ASSUME NoGenerationAssumption == NoGeneration \notin Generation

VARIABLES
  pc,       \* where each process is in the call it makes
  wait,     \* AcquireRequest.Wait of that call
  opEx,     \* the process holding the operation byte exclusively
  opSh,     \* the processes holding the operation byte shared
  guard,    \* the process holding the publication byte
  owner,    \* the generation in the owner metadata file
  gen,      \* the generation a process drew for its acquisition
  seen      \* the owner a process read and is about to report

vars == <<pc, wait, opEx, opSh, guard, owner, gen, seen>>

(***************************************************************************)
(* Where a process can be.                                                  *)
(***************************************************************************)
Observing   == {"observe", "observed"}
Contending  == {"guard", "acquire", "readOwner", "busy", "sleep"}
Publishing  == {"publish", "publishFailed", "handoff", "abort"}
Releasing   == {"relGuard", "relRemove", "relUnlock", "relUnguard", "relUnguarded"}
SharedCall  == {"shTry", "shSleep", "shHeld"}
Probing     == {"prGuard", "prTry", "prRemove", "prUnlock", "prRead", "prUnguard"}
Label       == {"idle", "held"} \cup Observing \cup Contending \cup Publishing
                 \cup Releasing \cup SharedCall \cup Probing

\* Acquire has published the owner and no release has let go of the byte.
LeaseLabel  == {"handoff", "held", "relGuard", "relRemove", "relUnlock", "relUnguarded"}
\* ... and the record is still up.
RecordLabel == {"handoff", "held", "relGuard", "relRemove", "relUnguarded"}
\* Labels at which a process holds the operation byte exclusively.
OpExLabel   == LeaseLabel \cup {"observed", "publish", "publishFailed", "abort",
                                "prRemove", "prUnlock"}
\* Labels at which a process holds the publication byte.
GuardLabel  == {"acquire", "publish", "publishFailed", "handoff", "readOwner", "busy",
                "relRemove", "relUnlock", "relUnguard",
                "prTry", "prRemove", "prUnlock", "prRead", "prUnguard"}

HasLease(p) == pc[p] \in LeaseLabel

TypeOK ==
  /\ pc \in [Proc -> Label]
  /\ wait \in [Proc -> BOOLEAN]
  /\ opEx \in Proc \cup {NoProc}
  /\ opSh \in SUBSET Proc
  /\ guard \in Proc \cup {NoProc}
  /\ owner \in Generation \cup {NoGeneration}
  /\ gen \in [Proc -> Generation \cup {NoGeneration}]
  /\ seen \in [Proc -> Generation \cup {NoGeneration}]

Init ==
  /\ pc = [p \in Proc |-> "idle"]
  /\ wait = [p \in Proc |-> FALSE]
  /\ opEx = NoProc
  /\ opSh = {}
  /\ guard = NoProc
  /\ owner = NoGeneration
  /\ gen = [p \in Proc |-> NoGeneration]
  /\ seen = [p \in Proc |-> NoGeneration]

(***************************************************************************)
(* The operating system's byte-range locks (platformTryLock in exclusive    *)
(* mode and platformUnlock).  A try-lock that fails changes nothing.        *)
(***************************************************************************)
OpFree == opEx = NoProc /\ opSh = {}
LockOp(p) == OpFree /\ opEx' = p
UnlockOp(p) == opEx = p /\ opEx' = NoProc
LockGuard(p) == guard = NoProc /\ guard' = p
UnlockGuard(p) == guard = p /\ guard' = NoProc

GoTo(p, label) == pc' = [pc EXCEPT ![p] = label]

\* The call returns without a lease; its token and its report go with it.
Return(p) ==
  /\ GoTo(p, "idle")
  /\ gen' = [gen EXCEPT ![p] = NoGeneration]
  /\ seen' = [seen EXCEPT ![p] = NoGeneration]

\* A 128-bit random token differs from every token somebody still remembers.
Fresh(g) == g # owner /\ \A q \in Proc : g # gen[q] /\ g # seen[q]

(***************************************************************************)
(* Faulty variants of the actions below.  No specification uses them; each  *)
(* stands for a bug the property named with it must catch.                  *)
(***************************************************************************)
\* RecordIsTrue: acquisition and publication outside the guard.
EnterGuardSkipped(p) ==
  /\ pc[p] = "guard"
  /\ GoTo(p, "acquire")
  /\ UNCHANGED <<wait, opEx, opSh, guard, owner, gen, seen>>

\* LeaseRefinement: a failed metadata write does not abort the acquisition.
PublishIgnoresError(p) ==
  /\ pc[p] = "publish"
  /\ \E g \in Generation :
        Fresh(g) /\ gen' = [gen EXCEPT ![p] = g] /\ owner' \in {g, owner}
  /\ GoTo(p, "handoff")
  /\ UNCHANGED <<wait, opEx, opSh, guard, seen>>

\* CallsEnd: the error path of release returns before it unlocks.
ReleaseUnguardedLeaks(p) ==
  /\ pc[p] = "relUnguarded"
  /\ Return(p)
  /\ UNCHANGED <<wait, opEx, opSh, guard, owner>>

\* TypeOK: the sweep empties the file instead of removing it.
ProbeRemoveEmpties(p) ==
  /\ pc[p] = "prRemove"
  /\ owner' \in {owner, NoProc}
  /\ GoTo(p, "prUnlock")
  /\ UNCHANGED <<wait, opEx, opSh, guard, gen, seen>>

(***************************************************************************)
(* Manager.Acquire, exclusive.                                              *)
(***************************************************************************)
AcquireStart(p) ==
  /\ pc[p] = "idle"
  /\ GoTo(p, "observe")
  /\ \E w \in BOOLEAN : wait' = [wait EXCEPT ![p] = w]
  /\ UNCHANGED <<opEx, opSh, guard, owner, gen, seen>>

\* The first look at the operation byte really takes it when it is free.
Observe(p) ==
  /\ pc[p] = "observe"
  /\ \/ LockOp(p) /\ GoTo(p, "observed")
     \/ ~OpFree /\ GoTo(p, "guard") /\ UNCHANGED opEx
  /\ UNCHANGED <<wait, opSh, guard, owner, gen, seen>>

ObserveRelease(p) ==
  /\ pc[p] = "observed"
  /\ UnlockOp(p)
  /\ GoTo(p, "guard")
  /\ UNCHANGED <<wait, opSh, guard, owner, gen, seen>>

\* A waiting caller polls for the publication guard ...
EnterGuard(p) ==
  /\ pc[p] = "guard"
  /\ LockGuard(p)
  /\ GoTo(p, "acquire")
  /\ UNCHANGED <<wait, opEx, opSh, owner, gen, seen>>

\* ... and a non-waiting one answers busy at once, with no owner to name.
GuardBusy(p) ==
  /\ pc[p] = "guard"
  /\ ~wait[p]
  /\ guard # NoProc
  /\ Return(p)
  /\ UNCHANGED <<wait, opEx, opSh, guard, owner>>

TryAcquire(p) ==
  /\ pc[p] = "acquire"
  /\ \/ LockOp(p) /\ GoTo(p, "publish")
     \/ ~OpFree /\ GoTo(p, "readOwner") /\ UNCHANGED opEx
  /\ UNCHANGED <<wait, opSh, guard, owner, gen, seen>>

\* newOwnerMetadata and writeOwner: an atomic replace, so all or nothing.
Publish(p) ==
  /\ pc[p] = "publish"
  /\ \E g \in Generation :
        /\ Fresh(g)
        /\ gen' = [gen EXCEPT ![p] = g]
        /\ owner' = g
  /\ GoTo(p, "handoff")
  /\ UNCHANGED <<wait, opEx, opSh, guard, seen>>

PublishFails(p) ==
  /\ pc[p] = "publish"
  /\ GoTo(p, "publishFailed")
  /\ UNCHANGED <<wait, opEx, opSh, guard, owner, gen, seen>>

\* The guard is released first on both outcomes.
Handoff(p) ==
  /\ pc[p] = "handoff"
  /\ UnlockGuard(p)
  /\ GoTo(p, "held")
  /\ UNCHANGED <<wait, opEx, opSh, owner, gen, seen>>

AbortGuard(p) ==
  /\ pc[p] = "publishFailed"
  /\ UnlockGuard(p)
  /\ GoTo(p, "abort")
  /\ UNCHANGED <<wait, opEx, opSh, owner, gen, seen>>

Abort(p) ==
  /\ pc[p] = "abort"
  /\ UnlockOp(p)
  /\ Return(p)
  /\ UNCHANGED <<wait, opSh, guard, owner>>

\* readOwnerBestEffort: the file's content, or nil when it cannot be read.
ReadOwner(p) ==
  /\ pc[p] = "readOwner"
  /\ \E g \in {owner, NoGeneration} : seen' = [seen EXCEPT ![p] = g]
  /\ GoTo(p, "busy")
  /\ UNCHANGED <<wait, opEx, opSh, guard, owner, gen>>

AnswerBusy(p) ==
  /\ pc[p] = "busy"
  /\ UnlockGuard(p)
  /\ \/ ~wait[p] /\ Return(p)
     \/ /\ wait[p]
        /\ GoTo(p, "sleep")
        /\ seen' = [seen EXCEPT ![p] = NoGeneration]
        /\ UNCHANGED gen
  /\ UNCHANGED <<wait, opEx, opSh, owner>>

\* waitContext: the 25ms poll interval passes.
Wake(p) ==
  /\ pc[p] = "sleep"
  /\ GoTo(p, "observe")
  /\ UNCHANGED <<wait, opEx, opSh, guard, owner, gen, seen>>

\* The context of a waiting call (a deadline or Ctrl+C) ends, or the platform
\* reports an error, while the call holds neither byte.
GiveUp(p) ==
  /\ pc[p] \in {"observe", "guard", "sleep", "shTry", "shSleep", "prGuard"}
  /\ Return(p)
  /\ UNCHANGED <<wait, opEx, opSh, guard, owner>>

\* The platform reports an error from the authoritative try-lock.
AcquireFails(p) ==
  /\ pc[p] \in {"acquire", "prTry"}
  /\ UnlockGuard(p)
  /\ Return(p)
  /\ UNCHANGED <<wait, opEx, opSh, owner>>

(***************************************************************************)
(* Manager.acquireShared and the release of a shared lease.                 *)
(***************************************************************************)
SharedStart(p) ==
  /\ pc[p] = "idle"
  /\ GoTo(p, "shTry")
  /\ \E w \in BOOLEAN : wait' = [wait EXCEPT ![p] = w]
  /\ UNCHANGED <<opEx, opSh, guard, owner, gen, seen>>

SharedTry(p) ==
  /\ pc[p] = "shTry"
  /\ \/ /\ opEx = NoProc
        /\ opSh' = opSh \cup {p}
        /\ GoTo(p, "shHeld")
     \/ /\ opEx # NoProc
        /\ GoTo(p, IF wait[p] THEN "shSleep" ELSE "idle")
        /\ UNCHANGED opSh
  /\ UNCHANGED <<wait, opEx, guard, owner, gen, seen>>

SharedWake(p) ==
  /\ pc[p] = "shSleep"
  /\ GoTo(p, "shTry")
  /\ UNCHANGED <<wait, opEx, opSh, guard, owner, gen, seen>>

SharedRelease(p) ==
  /\ pc[p] = "shHeld"
  /\ opSh' = opSh \ {p}
  /\ Return(p)
  /\ UNCHANGED <<wait, opEx, guard, owner>>

(***************************************************************************)
(* Lease.release, exclusive.  Guard first, at most five seconds for it.     *)
(***************************************************************************)
ReleaseStart(p) ==
  /\ pc[p] = "held"
  /\ GoTo(p, "relGuard")
  /\ UNCHANGED <<wait, opEx, opSh, guard, owner, gen, seen>>

ReleaseGuard(p) ==
  /\ pc[p] = "relGuard"
  /\ LockGuard(p)
  /\ GoTo(p, "relRemove")
  /\ UNCHANGED <<wait, opEx, opSh, owner, gen, seen>>

\* The guard did not come in time: give the byte up and leave the metadata.
ReleaseTimeout(p) ==
  /\ pc[p] = "relGuard"
  /\ GoTo(p, "relUnguarded")
  /\ UNCHANGED <<wait, opEx, opSh, guard, owner, gen, seen>>

ReleaseUnguarded(p) ==
  /\ pc[p] = "relUnguarded"
  /\ UnlockOp(p)
  /\ Return(p)
  /\ UNCHANGED <<wait, opSh, guard, owner>>

\* removeOwnerIfMatches(generation); best effort, so the file may survive.
ReleaseRemove(p) ==
  /\ pc[p] = "relRemove"
  /\ owner' \in {owner, IF owner = gen[p] THEN NoGeneration ELSE owner}
  /\ GoTo(p, "relUnlock")
  /\ UNCHANGED <<wait, opEx, opSh, guard, gen, seen>>

ReleaseUnlock(p) ==
  /\ pc[p] = "relUnlock"
  /\ UnlockOp(p)
  /\ GoTo(p, "relUnguard")
  /\ UNCHANGED <<wait, opSh, guard, owner, gen, seen>>

ReleaseUnguard(p) ==
  /\ pc[p] = "relUnguard"
  /\ UnlockGuard(p)
  /\ Return(p)
  /\ UNCHANGED <<wait, opEx, opSh, owner>>

(***************************************************************************)
(* Manager.Probe and Manager.Observe.                                       *)
(***************************************************************************)
ProbeStart(p) ==
  /\ pc[p] = "idle"
  /\ GoTo(p, "prGuard")
  /\ UNCHANGED <<wait, opEx, opSh, guard, owner, gen, seen>>

ProbeGuard(p) ==
  /\ pc[p] = "prGuard"
  /\ LockGuard(p)
  /\ GoTo(p, "prTry")
  /\ UNCHANGED <<wait, opEx, opSh, owner, gen, seen>>

ProbeTry(p) ==
  /\ pc[p] = "prTry"
  /\ \/ LockOp(p) /\ GoTo(p, "prRemove")
     \/ ~OpFree /\ GoTo(p, "prRead") /\ UNCHANGED opEx
  /\ UNCHANGED <<wait, opSh, guard, owner, gen, seen>>

\* The byte was free, so whatever metadata there is has no owner.
ProbeRemove(p) ==
  /\ pc[p] = "prRemove"
  /\ owner' \in {owner, NoGeneration}
  /\ GoTo(p, "prUnlock")
  /\ UNCHANGED <<wait, opEx, opSh, guard, gen, seen>>

ProbeUnlock(p) ==
  /\ pc[p] = "prUnlock"
  /\ UnlockOp(p)
  /\ GoTo(p, "prUnguard")
  /\ UNCHANGED <<wait, opSh, guard, owner, gen, seen>>

ProbeRead(p) ==
  /\ pc[p] = "prRead"
  /\ \E g \in {owner, NoGeneration} : seen' = [seen EXCEPT ![p] = g]
  /\ GoTo(p, "prUnguard")
  /\ UNCHANGED <<wait, opEx, opSh, guard, owner, gen>>

ProbeUnguard(p) ==
  /\ pc[p] = "prUnguard"
  /\ UnlockGuard(p)
  /\ Return(p)
  /\ UNCHANGED <<wait, opEx, opSh, owner>>

(***************************************************************************)
(* The process dies: the system drops its byte locks and nothing else.      *)
(***************************************************************************)
Crash(p) ==
  /\ pc[p] # "idle"
  /\ opEx' = IF opEx = p THEN NoProc ELSE opEx
  /\ opSh' = opSh \ {p}
  /\ guard' = IF guard = p THEN NoProc ELSE guard
  /\ Return(p)
  /\ UNCHANGED <<wait, owner>>

-----------------------------------------------------------------------------

AcquireStep(p) ==
  \/ Observe(p) \/ ObserveRelease(p) \/ EnterGuard(p) \/ GuardBusy(p)
  \/ TryAcquire(p) \/ Publish(p) \/ PublishFails(p) \/ Handoff(p)
  \/ AbortGuard(p) \/ Abort(p) \/ ReadOwner(p) \/ AnswerBusy(p) \/ Wake(p)

SharedStep(p) == SharedTry(p) \/ SharedWake(p)

ReleaseStep(p) ==
  \/ ReleaseGuard(p) \/ ReleaseUnguarded(p) \/ ReleaseRemove(p)
  \/ ReleaseUnlock(p) \/ ReleaseUnguard(p)

ProbeStep(p) ==
  \/ ProbeGuard(p) \/ ProbeTry(p) \/ ProbeRemove(p) \/ ProbeUnlock(p)
  \/ ProbeRead(p) \/ ProbeUnguard(p)

\* What a live process does next inside a call it has begun.
Progress(p) == AcquireStep(p) \/ SharedStep(p) \/ ReleaseStep(p) \/ ProbeStep(p)

\* What the command, the clock or the system decides.
Environment(p) ==
  \/ AcquireStart(p) \/ SharedStart(p) \/ ProbeStart(p)
  \/ ReleaseStart(p) \/ SharedRelease(p)
  \/ GiveUp(p) \/ AcquireFails(p) \/ ReleaseTimeout(p) \/ Crash(p)

Next == \E p \in Proc : Progress(p) \/ Environment(p)

Spec == Init /\ [][Next]_vars

\* A running process that can take a step of its call eventually takes one.
FairSpec == Spec /\ \A p \in Proc : WF_vars(Progress(p))

-----------------------------------------------------------------------------
(***************************************************************************)
(* Properties.                                                              *)
(***************************************************************************)

\* lock.go:35-37: the operation byte is the authority for ownership.  Two
\* processes never hold exclusive leases together, and an exclusive lease
\* excludes every shared one, whoever observes, probes, times out or crashes.
LeaseExclusion ==
  \A p, q \in Proc :
    HasLease(p) /\ p # q => ~HasLease(q) /\ pc[q] # "shHeld"

\* Acquire publishes the metadata before it returns (lock.go:132) and nobody
\* but the holder takes it down: from the handoff until its own release (or
\* crash) every process that looks finds the holder's generation.
HolderRecordStands ==
  \A p \in Proc : pc[p] \in RecordLabel => owner = gen[p] /\ gen[p] # NoGeneration

\* lock.go:161-163: "readers can never see a new owner paired with stale
\* metadata".  While a reader is about to read under the guard, no acquirer is
\* between the byte and its publication, and a lease that exists is the one
\* the metadata names, even if its release is half done.
NoStalePairing ==
  \A p, q \in Proc :
    pc[p] \in {"readOwner", "prRead"} =>
      /\ pc[q] \notin {"publish", "publishFailed"}
      /\ HasLease(q) => owner = gen[q]

\* What a reader may take the metadata for.
RecordIsTrue == HolderRecordStands /\ NoStalePairing

\* Who holds a byte is told by where it is in its call: no path, the error
\* paths included, returns with a byte or goes on without one.
ByteOwnership ==
  /\ \A p \in Proc :
       /\ opEx = p <=> pc[p] \in OpExLabel
       /\ p \in opSh <=> pc[p] = "shHeld"
       /\ guard = p <=> pc[p] \in GuardLabel
  /\ opEx = NoProc \/ opSh = {}

\* lock.go:51: a call that does not wait makes one attempt and returns.
AttemptEnds ==
  \A p \in Proc :
    (pc[p] \in Observing \cup Contending \cup Publishing /\ ~wait[p])
      ~> pc[p] \in {"idle", "held"}

\* A waiting acquisition gets the lease when the others have gone quiet, by
\* release or by crash: neither leaves anything behind that blocks it.
WaiterAcquires ==
  \A p \in Proc :
    <>[](\A q \in Proc \ {p} : pc[q] = "idle")
      => ((pc[p] \in Observing \cup Contending /\ wait[p])
             ~> pc[p] \in {"idle", "held"})

\* What a caller may expect of an acquisition, whether it waits or not.
CallsEnd == AttemptEnds /\ WaiterAcquires

\* The promise of ResourceLease.  A lease begins when its owner is published
\* and ends when the operation byte is let go.
LeaseHolder == IF \E p \in Proc : HasLease(p) THEN opEx ELSE NoProc

Lease == INSTANCE ResourceLease WITH
  holder  <- LeaseHolder,
  sharers <- opSh,
  record  <- owner

LeaseRefinement == Lease!Spec
=============================================================================
