---------------------------- MODULE CommandLease ----------------------------
(***************************************************************************)
(* How commands use the workbook leases and the recovery markers:           *)
(*   - internal/cli/coordination.go acquires the leases of all workbooks of *)
(*     a command in lock-ID order, waits on one time budget, and checks the *)
(*     recovery marker of each workbook as soon as it has its lease;        *)
(*   - internal/excel/bridge.go runs Excel operations under such a lease    *)
(*     and publishes a marker when an outcome is indeterminate;             *)
(*   - internal/cli/recovery.go (recovery clear), bridge.go (session stop   *)
(*     --discard) and internal/excel/recovery.go (process cleanup) clear    *)
(*     markers, by generation (internal/coordination/recovery.go).          *)
(* A lease is the exclusive lease of ResourceLease, one per workbook; the   *)
(* byte locks below it are the subject of WorkbookLock.                     *)
(***************************************************************************)
EXTENDS Integers

CONSTANTS
  Proc,       \* xlflow processes
  WorkbookCount,
  Token,      \* recovery generations
  Offered,    \* the commands that are given
  NoProc, NoWorkbook,
  NoMarker,       \* no recovery file
  InvalidMarker   \* a recovery file that cannot be trusted

ASSUME WorkbookCountAssumption == WorkbookCount \in Nat
\* The workbooks, numbered in the order of their lock IDs.
Workbook == 1..WorkbookCount

ASSUME NoProcAssumption == NoProc \notin Proc
ASSUME NoWorkbookAssumption == NoWorkbook \notin Workbook

\* A trustworthy marker: its generation, and whether it records an Excel PID.
ValidMarker == [gen : Token, known : BOOLEAN]
Marker == ValidMarker \cup {NoMarker, InvalidMarker}
ASSUME MarkerAssumption ==
  NoMarker \notin ValidMarker /\ InvalidMarker \notin ValidMarker /\ NoMarker # InvalidMarker

\* "normal" stands for every command with recovery behavior block, and for
\* session stop without --discard, which a marker stops just as well.
NormalCommand   == {"normal"}
RecoveryCommand == {"clear", "forceClear", "discard"}
CleanupCommand  == {"cleanup", "cleanupAll"}
Command == NormalCommand \cup RecoveryCommand \cup CleanupCommand
ASSUME OfferedAssumption == Offered \subseteq Command

VARIABLES
  lease,     \* the process with the lease of each workbook
  marker,    \* the recovery file of each workbook
  excel,     \* may Excel still work on it for an operation that is over?
  excused,   \* history: no marker was promised for this uncertainty
  pc, cmd,
  targets,   \* the workbooks a command must lease (or a cleanup still handles)
  at,        \* the workbook an operation is working on
  waits,     \* --wait was given
  budget,    \* the time budget of waiting: "unused", "running", "spent"
  examined   \* the markers a recovery command has read

vars == <<lease, marker, excel, excused, pc, cmd, targets, at, waits, budget, examined>>
disk == <<marker, excel, excused>>
call == <<cmd, targets, waits>>

Label == {"idle", "acquire", "wait", "check", "body", "bridge", "publish",
          "examine", "verify", "clear", "release",
          "clList", "clAcquire", "clCheck", "clRun", "clEnum", "clEnumFailed", "clClear"}

TypeOK ==
  /\ lease \in [Workbook -> Proc \cup {NoProc}]
  /\ marker \in [Workbook -> Marker]
  /\ excel \in [Workbook -> {"quiet", "uncertain"}]
  /\ excused \in SUBSET Workbook
  /\ pc \in [Proc -> Label]
  /\ cmd \in [Proc -> Command]
  /\ targets \in [Proc -> SUBSET Workbook]
  /\ at \in [Proc -> Workbook \cup {NoWorkbook}]
  /\ waits \in [Proc -> BOOLEAN]
  /\ budget \in [Proc -> {"unused", "running", "spent"}]
  /\ examined \in [Proc -> [Workbook -> Marker]]

NothingExamined == [w \in Workbook |-> NoMarker]

Init ==
  /\ lease = [w \in Workbook |-> NoProc]
  /\ marker = [w \in Workbook |-> NoMarker]
  /\ excel = [w \in Workbook |-> "quiet"]
  /\ excused = {}
  /\ pc = [p \in Proc |-> "idle"]
  /\ cmd = [p \in Proc |-> "normal"]
  /\ targets = [p \in Proc |-> {}]
  /\ at = [p \in Proc |-> NoWorkbook]
  /\ waits = [p \in Proc |-> FALSE]
  /\ budget = [p \in Proc |-> "unused"]
  /\ examined = [p \in Proc |-> NothingExamined]

GoTo(p, label) == pc' = [pc EXCEPT ![p] = label]

\* A command's own data goes with it.
Forget(p) ==
  /\ cmd' = [cmd EXCEPT ![p] = "normal"]
  /\ targets' = [targets EXCEPT ![p] = {}]
  /\ at' = [at EXCEPT ![p] = NoWorkbook]
  /\ waits' = [waits EXCEPT ![p] = FALSE]
  /\ budget' = [budget EXCEPT ![p] = "unused"]
  /\ examined' = [examined EXCEPT ![p] = NothingExamined]

\* Nothing is left to do but to release the leases.
Finish(p) == GoTo(p, "release") /\ Forget(p)

\* The handler of p's command is done with the workbook it was working on.
Leave(p, label) ==
  /\ GoTo(p, label)
  /\ at' = [at EXCEPT ![p] = NoWorkbook]

Held(p) == {w \in Workbook : lease[w] = p}

(***************************************************************************)
(* Faulty variants of the definitions below.  No specification uses them;   *)
(* each stands for a bug the property named with it must catch.             *)
(***************************************************************************)
\* LeasesAreOrderly: the lock IDs are not sorted.
NextTargetUnsorted(p, w) == w \in targets[p] \ Held(p)

\* BodyStartsClean: the check has moved behind the loop, on its last workbook.
CheckPassesOnLast(p) ==
  /\ pc[p] = "check"
  /\ \/ /\ targets[p] \subseteq Held(p)
        /\ marker[at[p]] = NoMarker \/ cmd[p] \in RecoveryCommand
        /\ Leave(p, "body")
     \/ ~(targets[p] \subseteq Held(p)) /\ Leave(p, "acquire")
  /\ UNCHANGED <<lease, disk, call, budget, examined>>

\* ExcelIsQuietOnStart: a timeout is reported and nothing is published.
BridgeUncertainForgets(p) ==
  /\ pc[p] = "bridge"
  /\ excel' = [excel EXCEPT ![at[p]] = "uncertain"]
  /\ Leave(p, "body")
  /\ UNCHANGED <<lease, marker, excused, call, budget, examined>>

\* TypeOK: the error of newGeneration is dropped.
PublishNoGeneration(p) ==
  /\ pc[p] = "publish"
  /\ marker' = [marker EXCEPT ![at[p]] = [gen |-> NoMarker, known |-> TRUE]]
  /\ Leave(p, "body")
  /\ UNCHANGED <<lease, excel, excused, call, budget, examined>>

\* UncertainIsQuarantined: the recorded process is not looked at.
VerifyPassesBlindly(p) ==
  /\ pc[p] = "verify"
  /\ examined[p][at[p]] \in ValidMarker
  /\ GoTo(p, "clear")
  /\ UNCHANGED <<lease, disk, call, at, budget, examined>>

\* ClearsOnlyExamined: the generation is not compared.
SameMarkerAny(p, w) == marker[w] # NoMarker

\* Leases are taken in lock-ID order: w is the next one p needs.
NextTarget(p, w) ==
  /\ w \in targets[p] \ Held(p)
  /\ \A v \in targets[p] \ Held(p) : w <= v

Take(p, w) ==
  /\ lease[w] = NoProc
  /\ lease' = [lease EXCEPT ![w] = p]
  /\ at' = [at EXCEPT ![p] = w]

(***************************************************************************)
(* acquireWorkbookCoordination.                                             *)
(***************************************************************************)
Start(p) ==
  /\ pc[p] = "idle"
  /\ \E c \in Offered \ CleanupCommand, T \in SUBSET Workbook, w \in BOOLEAN :
       /\ T # {}
       /\ c \in RecoveryCommand => \E v \in Workbook : T = {v}
       /\ cmd' = [cmd EXCEPT ![p] = c]
       /\ targets' = [targets EXCEPT ![p] = T]
       /\ waits' = [waits EXCEPT ![p] = w]
  /\ GoTo(p, "acquire")
  /\ UNCHANGED <<lease, disk, at, budget, examined>>

\* The first attempt on a workbook never waits.
Acquire(p, w) ==
  /\ pc[p] = "acquire" /\ NextTarget(p, w)
  /\ budget[p] # "spent"
  /\ Take(p, w)
  /\ GoTo(p, "check")
  /\ UNCHANGED <<disk, call, budget, examined>>

\* It may be refused although the lease is free: the publication guard was
\* busy (GuardBusy in WorkbookLock).  With --wait the clock starts, once.
AcquireBusy(p, w) ==
  /\ pc[p] = "acquire" /\ NextTarget(p, w)
  /\ budget[p] # "spent"
  /\ \/ /\ waits[p]
        /\ GoTo(p, "wait")
        /\ budget' = [budget EXCEPT ![p] = "running"]
        /\ UNCHANGED <<call, at, examined>>
     \/ ~waits[p] /\ Finish(p)
  /\ UNCHANGED <<lease, disk>>

WaitAcquire(p, w) ==
  /\ pc[p] = "wait" /\ NextTarget(p, w)
  /\ lease[w] = NoProc
  /\ lease' = [lease EXCEPT ![w] = p]
  /\ \/ /\ budget[p] # "spent"
        /\ GoTo(p, "check")
        /\ at' = [at EXCEPT ![p] = w]
        /\ UNCHANGED <<call, budget, examined>>
     \* An acquisition that succeeds after the deadline is given back.
     \/ budget[p] = "spent" /\ Finish(p)
  /\ UNCHANGED disk

\* The deadline passes or the user interrupts, while leases are being acquired.
SpendBudget(p) ==
  /\ budget[p] = "running"
  /\ pc[p] \in {"acquire", "wait", "check"}
  /\ budget' = [budget EXCEPT ![p] = "spent"]
  /\ UNCHANGED <<lease, disk, pc, call, at, examined>>

WaitGivesUp(p) ==
  /\ pc[p] \in {"acquire", "wait"}
  /\ budget[p] = "spent"
  /\ Finish(p)
  /\ UNCHANGED <<lease, disk>>

\* RequireRecoveryAllowed under the lease just taken.
MarkerAllows(p, w) == marker[w] = NoMarker \/ cmd[p] \in RecoveryCommand

CheckPasses(p) ==
  /\ pc[p] = "check"
  /\ MarkerAllows(p, at[p])
  /\ \/ targets[p] \subseteq Held(p) /\ Leave(p, "body")
     \/ ~(targets[p] \subseteq Held(p)) /\ Leave(p, "acquire")
  /\ UNCHANGED <<lease, disk, call, budget, examined>>

\* The marker blocks the command, or the recovery file cannot be read.
CheckFails(p) ==
  /\ pc[p] = "check"
  /\ Finish(p)
  /\ UNCHANGED <<lease, disk>>

(***************************************************************************)
(* Release of the leases, the last one first; then the command is over.     *)
(***************************************************************************)
Release(p, w) ==
  /\ pc[p] = "release"
  /\ w \in Held(p) /\ \A v \in Held(p) : v <= w
  /\ lease' = [lease EXCEPT ![w] = NoProc]
  /\ UNCHANGED <<disk, pc, call, at, budget, examined>>

Return(p) ==
  /\ pc[p] = "release"
  /\ Held(p) = {}
  /\ GoTo(p, "idle")
  /\ UNCHANGED <<lease, disk, call, at, budget, examined>>

(***************************************************************************)
(* The command body and its bridge calls on borrowed leases.                *)
(***************************************************************************)
BodyEnds(p) ==
  /\ pc[p] = "body"
  /\ Finish(p)
  /\ UNCHANGED <<lease, disk>>

\* acquireBridgeCoordination checks the marker again.  A push or a form write may
\* then make two calls under the one lease; only a success is followed by the
\* second, so the stay at "bridge" stands for the whole transaction.
BridgeStarts(p, w) ==
  /\ pc[p] = "body"
  /\ cmd[p] \in {"normal", "discard"}
  /\ w \in Held(p)
  /\ MarkerAllows(p, w)
  /\ at' = [at EXCEPT ![p] = w]
  /\ GoTo(p, "bridge")
  /\ UNCHANGED <<lease, disk, call, budget, examined>>

\* The result is certain: success, a plain failure, or a setup error.
BridgeReturns(p) ==
  /\ pc[p] = "bridge"
  /\ Leave(p, "body")
  /\ UNCHANGED <<lease, disk, call, budget, examined>>

\* A timeout, a dead provider, or an unreadable response after Excel began.
BridgeUncertain(p) ==
  /\ pc[p] = "bridge"
  /\ excel' = [excel EXCEPT ![at[p]] = "uncertain"]
  /\ GoTo(p, "publish")
  /\ UNCHANGED <<lease, marker, excused, call, at, budget, examined>>

FreshToken(t) ==
  /\ \A w \in Workbook : marker[w] \in ValidMarker => marker[w].gen # t
  /\ \A p \in Proc, w \in Workbook :
       examined[p][w] \in ValidMarker => examined[p][w].gen # t

\* PublishRecovery replaces whatever marker there was.
Publish(p) ==
  /\ pc[p] = "publish"
  /\ \E t \in Token, known \in BOOLEAN :
       /\ FreshToken(t)
       /\ marker' = [marker EXCEPT ![at[p]] = [gen |-> t, known |-> known]]
  /\ Leave(p, "body")
  /\ UNCHANGED <<lease, excel, excused, call, budget, examined>>

\* workbook_recovery_publication_failed: the user is told to stop Excel.
PublishFails(p) ==
  /\ pc[p] = "publish"
  /\ excused' = excused \cup {at[p]}
  /\ Leave(p, "body")
  /\ UNCHANGED <<lease, marker, excel, call, budget, examined>>

\* session stop --discard: Excel is confirmed to have ended.
DiscardConfirmed(p) ==
  /\ pc[p] = "bridge" /\ cmd[p] = "discard"
  /\ excel' = [excel EXCEPT ![at[p]] = "quiet"]
  /\ excused' = excused \ {at[p]}
  /\ GoTo(p, "examine")
  /\ UNCHANGED <<lease, marker, call, at, budget, examined>>

(***************************************************************************)
(* recovery clear [--force] and the clearing half of a discard.             *)
(***************************************************************************)
ClearBegins(p) ==
  /\ pc[p] = "body" /\ cmd[p] \in {"clear", "forceClear"}
  /\ \E w \in targets[p] : at' = [at EXCEPT ![p] = w]
  /\ GoTo(p, "examine")
  /\ UNCHANGED <<lease, disk, call, budget, examined>>

Examine(p) ==
  /\ pc[p] = "examine"
  \* Nothing to clear, or the recovery file cannot be read.
  /\ \/ Finish(p)
     \/ /\ marker[at[p]] # NoMarker
        /\ examined' = [examined EXCEPT ![p][at[p]] = marker[at[p]]]
        /\ GoTo(p, IF cmd[p] = "clear" THEN "verify" ELSE "clear")
        /\ UNCHANGED <<call, at, budget>>
  /\ UNCHANGED <<lease, disk>>

\* Without --force: a recorded Excel process that is known to be gone.
VerifyPasses(p) ==
  /\ pc[p] = "verify"
  /\ examined[p][at[p]] \in ValidMarker
  /\ examined[p][at[p]].known
  /\ excel[at[p]] = "quiet"
  /\ GoTo(p, "clear")
  /\ UNCHANGED <<lease, disk, call, at, budget, examined>>

VerifyFails(p) ==
  /\ pc[p] = "verify"
  /\ Finish(p)
  /\ UNCHANGED <<lease, disk>>

\* ClearRecovery(expected): an invalid marker has no generation to compare.
SameMarker(p, w) ==
  /\ marker[w] # NoMarker
  /\ examined[p][w] \in ValidMarker =>
       marker[w] \in ValidMarker /\ marker[w].gen = examined[p][w].gen

\* The marker stays if it is another one, or if the publication guard or the
\* removal itself fails.
Clear(p) ==
  /\ pc[p] = "clear"
  /\ \/ /\ SameMarker(p, at[p])
        /\ marker' = [marker EXCEPT ![at[p]] = NoMarker]
        /\ excused' = IF excel[at[p]] = "uncertain" /\ cmd[p] = "forceClear"
                        THEN excused \cup {at[p]} ELSE excused
     \/ UNCHANGED <<marker, excused>>
  /\ Finish(p)
  /\ UNCHANGED <<lease, excel>>

(***************************************************************************)
(* process cleanup.                                                         *)
(***************************************************************************)
\* ListRecoveries takes no lock: it reads the directory once, and then one file
\* after the other in the order of their names, the lock IDs.
CleanupStart(p) ==
  /\ pc[p] = "idle"
  /\ \E c \in Offered \cap CleanupCommand : cmd' = [cmd EXCEPT ![p] = c]
  /\ targets' = [targets EXCEPT ![p] = {w \in Workbook : marker[w] # NoMarker}]
  /\ GoTo(p, "clList")
  /\ UNCHANGED <<lease, disk, at, waits, budget, examined>>

CleanupRead(p, w) ==
  /\ pc[p] = "clList"
  /\ w \in targets[p] /\ \A v \in targets[p] : w <= v
  /\ marker[w] # NoMarker
  /\ targets' = [targets EXCEPT ![p] = @ \ {w}]
  /\ examined' = IF marker[w] \in ValidMarker THEN [examined EXCEPT ![p][w] = marker[w]]
                                              ELSE examined
  /\ UNCHANGED <<lease, disk, pc, cmd, waits, at, budget>>

\* With a PID only the matching valid markers are candidates, otherwise all.
CleanupListed(p) ==
  /\ pc[p] = "clList" /\ targets[p] = {}
  /\ \E T \in SUBSET {w \in Workbook : examined[p][w] \in ValidMarker} :
       /\ cmd[p] = "cleanupAll" => T = {w \in Workbook : examined[p][w] \in ValidMarker}
       /\ targets' = [targets EXCEPT ![p] = T]
       /\ examined' = [examined EXCEPT ![p] = [w \in Workbook |-> IF w \in T THEN @[w] ELSE NoMarker]]
  /\ GoTo(p, "clAcquire")
  /\ UNCHANGED <<lease, disk, cmd, waits, at, budget>>

CleanupAcquire(p, w) ==
  /\ pc[p] = "clAcquire" /\ NextTarget(p, w)
  /\ Take(p, w)
  /\ GoTo(p, "clCheck")
  /\ UNCHANGED <<disk, call, budget, examined>>

\* A listed file that is gone, one busy workbook, or a marker that cannot be
\* read, and nothing is cleaned up.
CleanupFails(p) ==
  /\ pc[p] \in {"clList", "clAcquire", "clCheck"}
  /\ Finish(p)
  /\ UNCHANGED <<lease, disk>>

\* The marker must still be the one that was listed; else the lease goes back.
CleanupCheck(p) ==
  /\ pc[p] = "clCheck"
  /\ LET w == at[p] IN
       IF marker[w] \in ValidMarker /\ SameMarker(p, w)
         THEN UNCHANGED <<lease, targets>>
         ELSE /\ lease' = [lease EXCEPT ![w] = NoProc]
              /\ targets' = [targets EXCEPT ![p] = @ \ {w}]
  /\ Leave(p, "clAcquire")
  /\ UNCHANGED <<disk, cmd, waits, budget, examined>>

CleanupReady(p) ==
  /\ pc[p] = "clAcquire"
  /\ targets[p] \subseteq Held(p)
  /\ GoTo(p, "clRun")
  /\ UNCHANGED <<lease, disk, call, at, budget, examined>>

\* The bridge terminates Excel processes, leased or not, and reports those it
\* is sure of, all or some or (when the run itself fails) none.  A marker is to
\* be cleared when its process is among them; how the run ended is not asked.
CleanupRun(p) ==
  /\ pc[p] = "clRun"
  /\ \E K \in SUBSET Workbook, R \in SUBSET Workbook :
       /\ R \subseteq K
       /\ excel' = [w \in Workbook |-> IF w \in K THEN "quiet" ELSE excel[w]]
       /\ excused' = excused \ K
       /\ targets' = [targets EXCEPT ![p] =
                         {w \in Held(p) \cap R : examined[p][w].known}]
  /\ \E ending \in {"clEnum", "clEnumFailed"} :
       GoTo(p, IF cmd[p] = "cleanupAll" THEN ending ELSE "clClear")
  /\ UNCHANGED <<lease, marker, cmd, waits, at, budget, examined>>

\* --all: when the system shows no Excel process, every leased marker goes.
CleanupEnum(p) ==
  /\ pc[p] \in {"clEnum", "clEnumFailed"}
  /\ \/ UNCHANGED targets
     \/ /\ \A w \in Workbook : excel[w] = "quiet"
        /\ targets' = [targets EXCEPT ![p] = Held(p)]
  /\ GoTo(p, "clClear")
  /\ UNCHANGED <<lease, disk, cmd, waits, at, budget, examined>>

\* As in Clear, the marker may stay; the cleanup goes on with the next.
CleanupClear(p, w) ==
  /\ pc[p] = "clClear"
  /\ w \in targets[p] /\ \A v \in targets[p] : w <= v
  /\ targets' = [targets EXCEPT ![p] = @ \ {w}]
  /\ \/ SameMarker(p, w) /\ marker' = [marker EXCEPT ![w] = NoMarker]
     \/ UNCHANGED marker
  /\ UNCHANGED <<lease, excel, excused, pc, cmd, waits, at, budget, examined>>

CleanupEnds(p) ==
  /\ pc[p] = "clClear"
  /\ targets[p] = {}
  /\ Finish(p)
  /\ UNCHANGED <<lease, disk>>

(***************************************************************************)
(* The world outside.                                                       *)
(***************************************************************************)
\* Excel finishes, or the user closes it.
ExcelEnds(w) ==
  /\ excel[w] = "uncertain"
  /\ excel' = [excel EXCEPT ![w] = "quiet"]
  /\ excused' = excused \ {w}
  /\ UNCHANGED <<lease, marker, pc, call, at, budget, examined>>

\* A marker becomes unreadable as JSON, or a newer version wrote it.
MarkerSpoils(w) ==
  /\ marker[w] \in ValidMarker
  /\ marker' = [marker EXCEPT ![w] = InvalidMarker]
  /\ UNCHANGED <<lease, excel, excused, pc, call, at, budget, examined>>

\* A killed process loses its leases.  Excel, which it may have set to work,
\* goes on; a marker it had not published is never published.
Crash(p) ==
  /\ pc[p] # "idle"
  /\ lease' = [w \in Workbook |-> IF lease[w] = p THEN NoProc ELSE lease[w]]
  /\ \/ /\ pc[p] \in {"bridge", "publish"}
        /\ excel' = [excel EXCEPT ![at[p]] = "uncertain"]
        /\ excused' = excused \cup {at[p]}
     \/ /\ pc[p] # "publish"
        /\ UNCHANGED <<excel, excused>>
  /\ GoTo(p, "idle")
  /\ Forget(p)
  /\ UNCHANGED marker

-----------------------------------------------------------------------------

CommandStep(p) ==
  \/ Start(p) \/ SpendBudget(p) \/ WaitGivesUp(p)
  \/ CheckPasses(p) \/ CheckFails(p) \/ Return(p)
  \/ BodyEnds(p) \/ BridgeReturns(p) \/ BridgeUncertain(p)
  \/ Publish(p) \/ PublishFails(p) \/ DiscardConfirmed(p)
  \/ \E w \in Workbook :
       Acquire(p, w) \/ AcquireBusy(p, w) \/ WaitAcquire(p, w)
         \/ Release(p, w) \/ BridgeStarts(p, w)

RecoveryStep(p) ==
  \/ ClearBegins(p) \/ Examine(p) \/ VerifyPasses(p) \/ VerifyFails(p) \/ Clear(p)

CleanupStep(p) ==
  \/ CleanupStart(p) \/ CleanupListed(p) \/ CleanupFails(p) \/ CleanupCheck(p)
  \/ CleanupReady(p) \/ CleanupRun(p) \/ CleanupEnum(p) \/ CleanupEnds(p)
  \/ \E w \in Workbook : CleanupRead(p, w) \/ CleanupAcquire(p, w) \/ CleanupClear(p, w)

Next ==
  \/ \E p \in Proc : CommandStep(p) \/ RecoveryStep(p) \/ CleanupStep(p) \/ Crash(p)
  \/ \E w \in Workbook : ExcelEnds(w) \/ MarkerSpoils(w)

Spec == Init /\ [][Next]_vars

-----------------------------------------------------------------------------
(***************************************************************************)
(* Properties.                                                              *)
(***************************************************************************)
Inside == {"body", "bridge", "publish", "examine", "verify", "clear"}

\* workbook-coordination.md, "Recovery-Aware Command Start": a command is in
\* its body only with the leases of all its workbooks.
BodyHoldsAll ==
  \A p \in Proc : pc[p] \in Inside => targets[p] \subseteq Held(p)

\* While Excel may still be at work for an operation that is over, a marker
\* stands, or the operation is about to publish it under its lease.  The
\* exceptions are those the program owns up to: the publication failed, the
\* user forced the marker away, or the process was killed.
UncertainIsQuarantined ==
  \A w \in Workbook :
    excel[w] = "uncertain" /\ w \notin excused =>
      \/ marker[w] # NoMarker
      \/ \E p \in Proc : pc[p] = "publish" /\ at[p] = w /\ lease[w] = p

\* The command's checks were made one workbook at a time, some of them long
\* before the body begins; all of them still hold when it does.
BodyStartsClean ==
  [][\A p \in Proc :
       pc[p] = "check" /\ pc'[p] = "body" /\ cmd[p] \in NormalCommand
         => \A w \in targets[p] : marker[w] = NoMarker /\ lease[w] = p]_vars

\* No blocked operation reaches Excel while an earlier one may be running.
ExcelIsQuietOnStart ==
  [][\A p \in Proc :
       pc[p] = "body" /\ pc'[p] = "bridge" /\ cmd[p] \in NormalCommand
         => \A w \in Workbook : w = at'[p] => excel[w] = "quiet" \/ w \in excused]_vars

\* workbook-coordination.md, "Clearing Contract": a marker is removed only
\* under the workbook's lease and only if it is the one that was examined.
ClearsOnlyExamined ==
  [][\A w \in Workbook :
       marker[w] # NoMarker /\ marker'[w] = NoMarker =>
         \E p \in Proc :
           /\ lease[w] = p
           /\ cmd[p] \notin NormalCommand
           /\ examined[p][w] = marker[w]]_vars

\* Waiting commands hold leases, so they could wait for each other in a ring.
\* The lock-ID order forbids it.
Blocks(p, q) ==
  /\ pc[p] = "wait"
  /\ \E w \in Workbook : NextTarget(p, w) /\ lease[w] = q

NoWaitCycle ==
  \A S \in SUBSET Proc : S # {} => \E p \in S : \A q \in S : ~Blocks(p, q)

\* A command holds all it needs, and nobody waits for ever to get there.
LeasesAreOrderly == BodyHoldsAll /\ NoWaitCycle

=============================================================================
