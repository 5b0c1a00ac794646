---------------------------- MODULE ResourceLease ----------------------------
(***************************************************************************)
(* What internal/coordination promises to the commands that use it, without *)
(* saying how: a filesystem resource (a workbook or a source tree) has at   *)
(* most one exclusive lease, or any number of shared ones, and beside the   *)
(* lease a diagnostic owner record.  The record is written by the process   *)
(* that is granted the exclusive lease, and afterwards changes only at that *)
(* process's hand or when nobody has a lease.  The record grants nothing:   *)
(* it may be stale when the lease is free.                                  *)
(***************************************************************************)
CONSTANTS Proc, Generation, NoProc, NoGeneration

VARIABLES
  holder,   \* the process with the exclusive lease, or NoProc
  sharers,  \* the processes with a shared lease
  record    \* the generation in the owner record, or NoGeneration

vars == <<holder, sharers, record>>

TypeOK ==
  /\ holder \in Proc \cup {NoProc}
  /\ sharers \subseteq Proc
  /\ record \in Generation \cup {NoGeneration}

Free == holder = NoProc /\ sharers = {}

Init == holder = NoProc /\ sharers = {} /\ record = NoGeneration

\* An exclusive lease is granted to p and the record names it from then on.
Grant(p) ==
  /\ Free
  /\ holder' = p
  /\ record' \in Generation \ {record}
  /\ UNCHANGED sharers

\* The holder takes its record down before it gives the lease up.
SignOff(p) ==
  /\ holder = p
  /\ record' = NoGeneration
  /\ UNCHANGED <<holder, sharers>>

\* The lease ends: released, or lost with the process.  The record may stay.
Leave(p) ==
  /\ holder = p
  /\ holder' = NoProc
  /\ UNCHANGED <<sharers, record>>

Share(p) ==
  /\ holder = NoProc
  /\ sharers' = sharers \cup {p}
  /\ UNCHANGED <<holder, record>>

Unshare(p) ==
  /\ sharers' = sharers \ {p}
  /\ UNCHANGED <<holder, record>>

\* A stale record is swept only when no lease of either kind exists.
Sweep ==
  /\ Free
  /\ record' = NoGeneration
  /\ UNCHANGED <<holder, sharers>>

Next ==
  \/ Sweep
  \/ \E p \in Proc : Grant(p) \/ SignOff(p) \/ Leave(p) \/ Share(p) \/ Unshare(p)

Spec == Init /\ [][Next]_vars
=============================================================================
