----------------------------- MODULE FileTransfer -----------------------------
(***************************************************************************)
(* What file push and file pull share: the source tree, the saved workbook, *)
(* the push state file and the leases on the first two; the programs that   *)
(* change tree and workbook without a lease, the xlflow commands that       *)
(* change the workbook under one; and the publication of one file           *)
(* (internal/coordination/publish.go).                                      *)
(*                                                                          *)
(* A file's bytes are the number of the write that made them, 0 standing    *)
(* for no file.  The leases of all source roots are one lease here: push    *)
(* takes every root that pull takes, and both take them in lock-ID order.   *)
(***************************************************************************)
EXTENDS Integers

CONSTANTS
  FileCount,    \* source files, in the order in which they are read and written
  EditLimit,    \* bound: writes to the source tree by other programs
  SaveLimit,    \* bound: saves of the workbook by other programs
  CommandLimit  \* bound: changes of the workbook by other commands

ASSUME FileCountAssumption == FileCount \in Nat \ {0}
ASSUME LimitsAssumption == {EditLimit, SaveLimit, CommandLimit} \subseteq Nat

VARIABLES
  src,       \* the source tree
  wb,        \* the workbook: modules, how often commands changed the rest, stamp
  state,     \* .xlflow/state/push.json; own: its stamp is that of the push's own write
  tree,      \* who holds the source-tree lease
  book,      \* who holds the workbook lease
  push,      \* the push in progress
  pull,      \* the pull in progress
  used,      \* how much of each bound is used up
  later      \* history: files others wrote since the pull last planned or wrote them

vars == <<src, wb, state, tree, book, push, pull, used, later>>

Files == 1..FileCount
Absent == 0
Content == 0..(1 + EditLimit + SaveLimit)
Sources == [Files -> Content]
Fresh == 2 + used.edits + used.saves

\* PublishFile.  What statPublishTarget saw decides between create and replace:
\* a create never overwrites what came meanwhile, a replace takes what is there.
CanPublish(existed, now) == existed \/ now = Absent

\* A pull that may have written some of its files and not others.
HalfPulled == pull.at \in {"stat", "move", "remove", "restore", "remake"}

-----------------------------------------------------------------------------
\* A program that takes no lease writes or creates a source file.
Edit(f) ==
  /\ used.edits < EditLimit
  /\ used' = [used EXCEPT !.edits = @ + 1]
  /\ src' = [src EXCEPT ![f] = Fresh]
  /\ later' = later \cup {f}
  /\ UNCHANGED <<wb, state, tree, book, push, pull>>

\* Another program saves the workbook with a module changed.
Save(f) ==
  /\ used.saves < SaveLimit
  /\ used' = [used EXCEPT !.saves = @ + 1]
  /\ wb' = [wb EXCEPT !.mods[f] = Fresh, !.stamp = @ + 1]
  /\ UNCHANGED <<src, state, tree, book, push, pull, later>>

\* Another xlflow command changes the workbook under its lease.
CommandBegins ==
  /\ book = "free" /\ used.commands < CommandLimit
  /\ used' = [used EXCEPT !.commands = @ + 1]
  /\ book' = "command"
  /\ UNCHANGED <<src, wb, state, tree, push, pull, later>>

CommandEnds ==
  /\ book = "command"
  /\ wb' = [wb EXCEPT !.changes = @ + 1, !.stamp = @ + 1]
  /\ book' = "free"
  /\ UNCHANGED <<src, state, tree, push, pull, used, later>>
=============================================================================
