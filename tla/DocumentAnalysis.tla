-------------------------- MODULE DocumentAnalysis --------------------------
(***************************************************************************)
(* internal/lspserver/server.go: the life of one document in the language   *)
(* server, from the editor's notifications to the diagnostics it shows and  *)
(* the overlay that stands for the open buffer in the workspace index.      *)
(*                                                                          *)
(* Notifications are handled one at a time by the read loop (`handler`).    *)
(* Timer callbacks, the analysis worker of the document, the refreshes that *)
(* workers of other documents ask for and the refresh after a close run     *)
(* beside it.  Every critical section of diagMu and state.mu, of the        *)
(* documents store and of the workspace index is one step.  A snapshot is   *)
(* the number of the edit that made it, 0 standing for none.                *)
(***************************************************************************)
EXTENDS Integers

CONSTANTS
  EditLimit,      \* bound: snapshots the editor makes
  RefreshLimit    \* bound: refreshes asked for on behalf of other documents

ASSUME EditLimitAssumption == EditLimit \in Nat
ASSUME RefreshLimitAssumption == RefreshLimit \in Nat

VARIABLES
  vba,        \* the document is a VBA source
  edits,      \* snapshots made so far
  editor,     \* documents store: the open snapshot
  handler,    \* where the read loop is, and the generation it has scheduled
  d,          \* the document's diagnosticState
  worker,     \* its analysis goroutine
  fired,      \* timer callbacks that have not called diagnosticsReady yet
  launches,   \* goroutines about to call launchDiagnostics
  index,      \* workspace index: the overlay reserved for the document
  clearing,   \* a refresh after didClose has yet to look
  captured,   \* snapshots taken by refreshes that have not scheduled them yet
  refreshes,  \* refreshes begun
  shown,      \* what the client was last told
  stopped,    \* stopDiagnostics: "no", then the states are taken, then closed
  stray       \* history: latest was last set by a refresh with another snapshot

vars == <<vba, edits, editor, handler, d, worker, fired, launches, index, clearing,
          captured, refreshes, shown, stopped, stray>>
\* What belongs to the editor's side and to the refreshes.
outside == <<vba, edits, editor, handler, clearing, captured, refreshes, stopped>>

Snapshot == 0..EditLimit
Mode == {"fast", "full"}
Timer == [gen : Nat, mode : Mode]
NoTimer == [gen |-> 0, mode |-> "full"]
Phase == {"none", "pending", "published", "abandoned"}

\* Where a worker is: the gaps between its critical sections.
Place == {"acquire", "body", "project", "analyzing", "overlay", "declare", "reject",
          "abandon", "switch", "semantic", "publishSemantic", "rejectSemantic",
          "abandonSemantic", "switchFull", "complete"}
NoWorker == [at |-> "none", gen |-> 0, doc |-> 0, overlay |-> FALSE, mode |-> "full",
             class |-> "background", dep |-> 0, canceled |-> FALSE]
Working == worker.at # "none"
NoOverlay == [gen |-> 0, doc |-> 0, declarations |-> "none", semantic |-> "none", content |-> 0]
Idle == [at |-> "idle", gen |-> 0]
Empty == [doc |-> 0, mode |-> "full", dep |-> 0, gen |-> 0]

TypeOK ==
  /\ vba \in BOOLEAN /\ edits \in Snapshot /\ editor \in Snapshot
  /\ handler \in [at : {"idle", "opening", "arming", "launching", "changing", "closing"}, gen : Nat]
  /\ d \in [gen : Nat, latest : Snapshot, ready : BOOLEAN, readyMode : Mode,
            published : {"none"} \cup Mode, running : BOOLEAN, runningOverlay : BOOLEAN,
            buildOverlay : BOOLEAN, dependentPending : BOOLEAN, dep : Nat, open : BOOLEAN,
            projectPending : BOOLEAN, timer : Timer, fullTimer : Timer]
  /\ worker \in [at : Place \cup {"none"}, gen : Nat, doc : Snapshot, overlay : BOOLEAN,
                 mode : Mode, class : {"fast", "background"}, dep : Nat, canceled : BOOLEAN]
  /\ fired \in SUBSET Timer /\ launches \in Nat
  /\ index \in [gen : Nat, doc : Snapshot, declarations : Phase, semantic : Phase, content : Snapshot]
  /\ clearing \in BOOLEAN /\ captured \in SUBSET [number : Nat, doc : Snapshot]
  /\ refreshes \in 0..RefreshLimit
  /\ shown \in [doc : Snapshot, mode : Mode, dep : Nat, gen : Nat]
  /\ stopped \in {"no", "stopping", "yes"} /\ stray \in BOOLEAN

Init ==
  /\ vba \in BOOLEAN /\ edits = 0 /\ editor = 0
  /\ handler = Idle
  /\ d = [gen |-> 0, latest |-> 0, ready |-> FALSE, readyMode |-> "full", published |-> "none",
          running |-> FALSE, runningOverlay |-> FALSE, buildOverlay |-> FALSE,
          dependentPending |-> FALSE, dep |-> 0, open |-> FALSE, projectPending |-> FALSE,
          timer |-> NoTimer, fullTimer |-> NoTimer]
  /\ worker = NoWorker /\ fired = {} /\ launches = 0
  /\ index = NoOverlay /\ clearing = FALSE
  /\ captured = {} /\ refreshes = 0
  /\ shown = Empty /\ stopped = "no" /\ stray = FALSE

\* state.cancel, if a worker runs.
Canceled == IF Working THEN [worker EXCEPT !.canceled = TRUE] ELSE worker
\* beginOverlay: the path shows nothing until this generation publishes.
Reserved(doc, gen) ==
  [gen |-> gen, doc |-> doc, declarations |-> "pending", semantic |-> "pending", content |-> 0]
\* analysisGenerationCurrent, for the worker.
Current == d.open /\ d.gen = worker.gen /\ d.latest = worker.doc

(***************************************************************************)
(* Faulty variants of the definitions below.  No specification uses them;   *)
(* each stands for a bug the property named with it must catch.             *)
(***************************************************************************)
\* WorkIsCurrent: only close and dependencies make a result obsolete.
DiscardedByLifecycle ==
  \/ ~d.open \/ d.dep # worker.dep
  \/ worker.mode = "full" /\ d.dependentPending
  \/ worker.mode = "fast" /\ d.published = "full"

\* FullIsShown: the worker that ends starts no other.
FinishSilently(state) ==
  /\ d' = [state EXCEPT !.running = FALSE, !.runningOverlay = FALSE]
  /\ launches' = launches
  /\ worker' = NoWorker

\* TypeOK: a worker that got no permit returns and stays accounted for.
WithPermitReturns(place) ==
  /\ worker' = [worker EXCEPT !.at = IF worker.canceled THEN "returned" ELSE place]
  /\ UNCHANGED <<d, launches>>

\* Settled: the follow-up pass waits for the next refresh.
CompleteForgets ==
  /\ worker.at = "complete"
  /\ d' = [d EXCEPT !.running = FALSE, !.runningOverlay = FALSE]
  /\ launches' = IF d.open /\ d.ready THEN launches + 1 ELSE launches
  /\ worker' = NoWorker
  /\ UNCHANGED outside /\ UNCHANGED <<fired, index, shown, stray>>

-----------------------------------------------------------------------------
(***************************************************************************)
(* The editor's notifications.                                              *)
(***************************************************************************)
At(place) == handler.at = place

DidOpen ==
  /\ At("idle") /\ stopped = "no" /\ editor = 0 /\ edits < EditLimit
  /\ edits' = edits + 1 /\ editor' = edits + 1
  /\ handler' = [handler EXCEPT !.at = "opening"]
  /\ UNCHANGED <<vba, d, worker, fired, launches, index, clearing, captured, refreshes,
                 shown, stopped, stray>>

\* openDiagnostics.  A large VBA source has a fast preview at once and the full
\* pass after a delay; a large source of another kind only the latter.
Opened(large) ==
  [d EXCEPT !.gen = @ + 1, !.latest = editor, !.open = TRUE, !.ready = ~(large /\ ~vba),
            !.readyMode = IF large /\ vba THEN "fast" ELSE "full",
            !.published = "none", !.buildOverlay = vba, !.timer = NoTimer,
            !.fullTimer = IF large /\ vba THEN [gen |-> d.gen + 1, mode |-> "full"] ELSE NoTimer]

OpenDiagnostics(large) ==
  /\ At("opening")
  /\ \/ /\ d.open /\ d.latest = editor
        /\ handler' = Idle
        /\ UNCHANGED <<d, worker, index, stray>>
     \/ /\ ~(d.open /\ d.latest = editor)
        /\ handler' = IF large /\ ~vba THEN [at |-> "arming", gen |-> d.gen + 1]
                                   ELSE [handler EXCEPT !.at = "launching"]
        /\ d' = Opened(large)
        /\ worker' = Canceled
        /\ index' = IF vba THEN Reserved(editor, d.gen + 1) ELSE index
        /\ stray' = FALSE
  /\ UNCHANGED <<vba, edits, editor, fired, launches, clearing, captured, refreshes, shown, stopped>>

\* The timer of a large source, armed under a lock of its own.
ArmOpenDelay ==
  /\ At("arming")
  /\ d' = IF d.open /\ d.gen = handler.gen /\ d.timer = NoTimer
            THEN [d EXCEPT !.timer = [gen |-> handler.gen, mode |-> "full"]] ELSE d
  /\ handler' = Idle
  /\ UNCHANGED <<vba, edits, editor, worker, fired, launches, index, clearing, captured,
                 refreshes, shown, stopped, stray>>

DidChange ==
  /\ At("idle") /\ stopped = "no" /\ editor # 0 /\ edits < EditLimit
  /\ edits' = edits + 1 /\ editor' = edits + 1
  /\ handler' = [handler EXCEPT !.at = "changing"]
  /\ UNCHANGED <<vba, d, worker, fired, launches, index, clearing, captured, refreshes,
                 shown, stopped, stray>>

\* scheduleDocumentAnalysis puts the snapshot in place of the one before.
Supersede(doc, overlay, dep) ==
  LET gen == d.gen + 1
      first == IF overlay THEN "fast" ELSE "full"
  IN
  /\ d' = [d EXCEPT !.gen = gen, !.latest = doc, !.open = TRUE, !.ready = FALSE,
                    !.readyMode = first, !.published = "none", !.buildOverlay = overlay, !.dep = dep,
                    !.timer = [gen |-> gen, mode |-> first],
                    !.fullTimer = IF overlay THEN [gen |-> gen, mode |-> "full"] ELSE NoTimer]
  /\ worker' = Canceled
  /\ index' = IF overlay THEN Reserved(doc, gen) ELSE index

ScheduleChange ==
  /\ At("changing")
  /\ \/ d.open /\ d.latest = editor /\ UNCHANGED <<d, worker, index, stray>>
     \/ ~(d.open /\ d.latest = editor) /\ Supersede(editor, vba, d.dep) /\ stray' = FALSE
  /\ handler' = Idle
  /\ UNCHANGED <<vba, edits, editor, fired, launches, clearing, captured, refreshes, shown, stopped>>

\* diagnosticState.close.
CloseState ==
  /\ d' = [d EXCEPT !.gen = @ + 1, !.open = FALSE, !.ready = FALSE, !.latest = 0,
                    !.buildOverlay = FALSE, !.runningOverlay = FALSE, !.dependentPending = FALSE,
                    !.published = "none", !.dep = @ + 1, !.projectPending = FALSE,
                    !.timer = NoTimer, !.fullTimer = NoTimer]
  /\ worker' = Canceled

DidClose ==
  /\ At("idle") /\ stopped = "no" /\ editor # 0
  /\ CloseState
  /\ shown' = Empty /\ stray' = FALSE
  /\ handler' = [handler EXCEPT !.at = "closing"]
  /\ UNCHANGED <<vba, edits, editor, fired, launches, index, clearing, captured, refreshes, stopped>>

\* documents.close, and the goroutine that will restore the saved entry.
CloseDocument ==
  /\ At("closing")
  /\ editor' = 0 /\ clearing' = TRUE
  /\ handler' = Idle
  /\ UNCHANGED <<vba, edits, d, worker, fired, launches, index, captured, refreshes,
                 shown, stopped, stray>>

\* scheduleCloseOverlayRefresh, under the lifecycle lock of the document.
ClearOverlay ==
  /\ clearing /\ At("idle")
  /\ clearing' = FALSE
  /\ index' = IF editor # 0 THEN index ELSE NoOverlay
  /\ UNCHANGED <<vba, edits, editor, handler, d, worker, fired, launches, captured,
                 refreshes, shown, stopped, stray>>

-----------------------------------------------------------------------------
(***************************************************************************)
(* Refreshes asked for by the analysis of other documents.                  *)
(***************************************************************************)
\* Dependents are taken from openDocuments; scheduling them comes later.
CaptureOpen ==
  /\ vba /\ editor # 0 /\ refreshes < RefreshLimit
  /\ captured' = captured \cup {[number |-> refreshes, doc |-> editor]}
  /\ refreshes' = refreshes + 1
  /\ UNCHANGED <<vba, edits, editor, handler, d, worker, fired, launches, index, clearing,
                 shown, stopped, stray>>

\* The project is complete: every document that waits for it is taken.
CaptureProjectReady ==
  /\ d.projectPending /\ d.open /\ stopped = "no" /\ refreshes < RefreshLimit
  /\ d' = [d EXCEPT !.projectPending = FALSE]
  /\ captured' = captured \cup {[number |-> refreshes, doc |-> d.latest]}
  /\ refreshes' = refreshes + 1
  /\ UNCHANGED <<vba, edits, editor, handler, worker, fired, launches, index, clearing,
                 shown, stopped, stray>>

\* The initial index failed: nothing will come to wait for.
ProjectFails ==
  /\ d.projectPending
  /\ d' = [d EXCEPT !.projectPending = FALSE]
  /\ UNCHANGED outside
  /\ UNCHANGED <<worker, fired, launches, index, shown, stray>>

\* scheduleDiagnosticsOnly.  It must not supersede a snapshot whose overlay is
\* not built yet: one follow-up pass is queued instead.
Refresh(r) ==
  /\ r \in captured
  /\ captured' = captured \ {r}
  /\ \/ stopped # "no" /\ UNCHANGED <<d, worker, index, stray>>
     \/ /\ stopped = "no"
        /\ d.buildOverlay \/ (d.running /\ d.runningOverlay)
        /\ d' = [d EXCEPT !.dep = @ + 1, !.dependentPending = TRUE]
        /\ UNCHANGED <<worker, index, stray>>
     \/ /\ stopped = "no"
        /\ ~(d.buildOverlay \/ (d.running /\ d.runningOverlay))
        /\ Supersede(r.doc, FALSE, d.dep + 1)
        /\ stray' = (stray \/ r.doc # d.latest)
  /\ UNCHANGED <<vba, edits, editor, handler, fired, launches, clearing, refreshes, shown, stopped>>

-----------------------------------------------------------------------------
(***************************************************************************)
(* Timers and the start of a worker.                                        *)
(***************************************************************************)
Fire ==
  /\ \/ /\ d.timer # NoTimer
        /\ fired' = fired \cup {d.timer} /\ d' = [d EXCEPT !.timer = NoTimer]
     \/ /\ d.fullTimer # NoTimer
        /\ fired' = fired \cup {d.fullTimer} /\ d' = [d EXCEPT !.fullTimer = NoTimer]
  /\ UNCHANGED outside /\ UNCHANGED <<worker, launches, index, shown, stray>>

\* diagnosticsReady.  A Full request is not taken back by a late Fast one.  The
\* code clears the timer's field here, by mode, the model when the timer fires,
\* by identity: all that is asked of the field is whether it can still be stopped.
DiagnosticsReady(t) ==
  /\ t \in fired /\ fired' = fired \ {t}
  /\ IF d.open /\ d.gen = t.gen
       THEN /\ d' = [d EXCEPT !.ready = TRUE,
                              !.readyMode = IF t.mode = "full" \/ @ # "full" THEN t.mode ELSE @]
            /\ launches' = launches + 1
       ELSE UNCHANGED <<d, launches>>
  /\ UNCHANGED outside /\ UNCHANGED <<worker, index, shown, stray>>

Launchable == stopped = "no" /\ d.open /\ d.ready /\ ~d.running

Started ==
  [at |-> "acquire", gen |-> d.gen, doc |-> d.latest, overlay |-> d.buildOverlay,
   mode |-> d.readyMode,
   class |-> IF d.readyMode = "fast" \/ d.buildOverlay THEN "fast" ELSE "background",
   dep |-> 0, canceled |-> FALSE]

\* launchDiagnostics, called by the read loop or by another goroutine.
Launch ==
  /\ \/ launches > 0 /\ launches' = launches - 1 /\ UNCHANGED handler
     \/ At("launching") /\ handler' = Idle /\ UNCHANGED launches
  /\ IF Launchable
       THEN /\ worker' = Started
            /\ d' = [d EXCEPT !.ready = FALSE, !.running = TRUE, !.buildOverlay = FALSE,
                              !.runningOverlay = d.buildOverlay]
       ELSE UNCHANGED <<worker, d>>
  /\ UNCHANGED <<vba, edits, editor, fired, index, clearing, captured, refreshes, shown,
                 stopped, stray>>

-----------------------------------------------------------------------------
(***************************************************************************)
(* runDocumentAnalysis.                                                     *)
(***************************************************************************)
\* The worker moves on and changes nothing else.
Go(place) == worker' = [worker EXCEPT !.at = place]
Rest == UNCHANGED outside /\ UNCHANGED <<fired, index, shown, stray>>

\* finishDocumentAnalysis, and the launch it owes.
Finish(state) ==
  /\ d' = [state EXCEPT !.running = FALSE, !.runningOverlay = FALSE]
  /\ launches' = IF state.open /\ state.ready THEN launches + 1 ELSE launches
  /\ worker' = NoWorker

\* Waiting for a permit ends with the permit or with the cancellation.
WithPermit(place) ==
  \/ worker.canceled /\ Finish(d)
  \/ ~worker.canceled /\ Go(place) /\ UNCHANGED <<d, launches>>

AfterOverlay ==
  IF worker.mode = "full" /\ ~worker.canceled THEN "switchFull" ELSE "complete"

AwaitPermit ==
  /\ worker.at = "acquire"
  /\ WithPermit(IF worker.mode = "fast" THEN "body"
                ELSE IF worker.overlay THEN "overlay" ELSE "switchFull")
  /\ Rest

\* runDiagnosticsBody: the dependency generation the analysis belongs to.
Body ==
  /\ worker.at = "body"
  /\ worker' = [worker EXCEPT !.dep = d.dep,
                  !.at = IF worker.mode = "full" /\ vba THEN "project" ELSE "analyzing"]
  /\ UNCHANGED <<d, launches>> /\ Rest

\* scheduleProjectReadyDiagnostics, if the project is not complete yet.
AwaitProject ==
  /\ worker.at = "project"
  /\ d' \in {d, [d EXCEPT !.projectPending = @ \/ d.open]}
  /\ Go("analyzing")
  /\ UNCHANGED launches /\ Rest

Discarded ==
  \/ ~d.open \/ d.gen # worker.gen \/ d.dep # worker.dep \/ worker.canceled
  \/ worker.mode = "full" /\ d.dependentPending
  \/ worker.mode = "fast" /\ d.published = "full"

Publish ==
  /\ worker.at = "analyzing"
  /\ IF Discarded
       THEN UNCHANGED <<d, shown>>
       ELSE /\ shown' = [doc |-> worker.doc, mode |-> worker.mode, dep |-> worker.dep,
                          gen |-> worker.gen]
            /\ d' = [d EXCEPT !.published = worker.mode]
  /\ worker' = [worker EXCEPT !.dep = 0,
                  !.at = IF worker.mode = "fast" /\ worker.overlay /\ ~worker.canceled
                           THEN "overlay" ELSE "complete"]
  /\ UNCHANGED outside /\ UNCHANGED <<fired, launches, index, stray>>

\* The declarations of the overlay: analysed, found current, then published if
\* the index still waits for this generation.
AnalyzeDeclarations ==
  /\ worker.at = "overlay"
  /\ \/ ~worker.canceled /\ Current /\ Go("declare")
     \/ Go("reject")
  /\ UNCHANGED <<d, launches>> /\ Rest

PublishDeclarations ==
  /\ worker.at = "declare"
  /\ IF index.declarations = "pending" /\ index.gen = worker.gen
       THEN /\ index' = [index EXCEPT !.declarations = "published", !.content = worker.doc]
            /\ Go(IF worker.canceled THEN AfterOverlay ELSE "switch")
       ELSE Go("reject") /\ UNCHANGED index
  /\ UNCHANGED outside /\ UNCHANGED <<d, fired, launches, shown, stray>>

RejectDeclarations ==
  /\ worker.at = "reject"
  /\ Go(IF ~worker.canceled /\ Current THEN "abandon" ELSE AfterOverlay)
  /\ UNCHANGED <<d, launches>> /\ Rest

\* abandonOverlay: an empty overlay masks the saved file.
AbandonOverlay ==
  /\ worker.at = "abandon"
  /\ LET mine(phase) == phase = "pending" /\ index.gen = worker.gen
         after(phase) == IF mine(phase) THEN "abandoned" ELSE phase
     IN index' = [index EXCEPT !.declarations = after(@), !.semantic = after(@)]
  /\ Go(AfterOverlay)
  /\ UNCHANGED outside /\ UNCHANGED <<d, fired, launches, shown, stray>>

SwitchToBackground ==
  /\ \/ /\ worker.at = "switch"
        /\ \/ worker.canceled /\ Finish(d)
           \/ /\ ~worker.canceled
              /\ worker' = [worker EXCEPT !.at = "semantic", !.class = "background"]
              /\ UNCHANGED <<d, launches>>
     \/ /\ worker.at = "switchFull"
        /\ \/ worker.class = "background" /\ Go("body") /\ UNCHANGED <<d, launches>>
           \/ worker.class = "fast" /\ worker.canceled /\ Finish(d)
           \/ /\ worker.class = "fast" /\ ~worker.canceled
              /\ worker' = [worker EXCEPT !.at = "body", !.class = "background"]
              /\ UNCHANGED <<d, launches>>
  /\ Rest

AnalyzeSemantic ==
  /\ worker.at = "semantic"
  /\ \/ ~worker.canceled /\ Current /\ Go("publishSemantic")
     \/ Go("rejectSemantic")
  /\ UNCHANGED <<d, launches>> /\ Rest

PublishSemantic ==
  /\ worker.at = "publishSemantic"
  /\ IF index.semantic = "pending" /\ index.gen = worker.gen
       THEN /\ index' = [index EXCEPT !.semantic = "published", !.content = worker.doc]
            /\ Go(AfterOverlay)
       ELSE Go("rejectSemantic") /\ UNCHANGED index
  /\ UNCHANGED outside /\ UNCHANGED <<d, fired, launches, shown, stray>>

RejectSemantic ==
  /\ worker.at = "rejectSemantic"
  /\ Go(IF ~worker.canceled /\ Current THEN "abandonSemantic" ELSE AfterOverlay)
  /\ UNCHANGED <<d, launches>> /\ Rest

\* abandonOverlaySemantic: the declarations stay.
AbandonSemantic ==
  /\ worker.at = "abandonSemantic"
  /\ index' = IF index.semantic = "pending" /\ index.gen = worker.gen
                THEN [index EXCEPT !.semantic = "abandoned"] ELSE index
  /\ Go(AfterOverlay)
  /\ UNCHANGED outside /\ UNCHANGED <<d, fired, launches, shown, stray>>

\* completeDocumentAnalysis: a refresh that came in meanwhile gets a pass of its own.
OwesFollowUp == worker.mode = "full" /\ d.open /\ d.gen = worker.gen /\ d.dependentPending
FollowUp ==
  IF OwesFollowUp
    THEN [d EXCEPT !.dependentPending = FALSE, !.gen = @ + 1, !.ready = TRUE, !.readyMode = "full"]
    ELSE d

Complete == worker.at = "complete" /\ Finish(FollowUp) /\ Rest

-----------------------------------------------------------------------------
\* stopDiagnostics: first the states are taken away, then each is closed.
Stop ==
  /\ \/ /\ stopped = "no" /\ At("idle")
        /\ stopped' = "stopping" /\ UNCHANGED <<d, worker>>
     \/ stopped = "stopping" /\ stopped' = "yes" /\ CloseState
  /\ UNCHANGED <<vba, edits, editor, handler, fired, launches, index, clearing, captured,
                 refreshes, shown, stray>>

-----------------------------------------------------------------------------
ReadLoop ==
  \/ \E large \in BOOLEAN : OpenDiagnostics(large)
  \/ ArmOpenDelay \/ ScheduleChange \/ CloseDocument
Editor == DidOpen \/ DidChange \/ DidClose
Refreshing == \E r \in captured : Refresh(r)
Ready == \E t \in fired : DiagnosticsReady(t)
Worker ==
  \/ AwaitPermit \/ Body \/ AwaitProject \/ Publish \/ AnalyzeDeclarations \/ PublishDeclarations
  \/ RejectDeclarations \/ AbandonOverlay \/ SwitchToBackground \/ AnalyzeSemantic
  \/ PublishSemantic \/ RejectSemantic \/ AbandonSemantic \/ Complete

\* What goes on without the editor, the other documents and the shutdown.
System == ReadLoop \/ ClearOverlay \/ Refreshing \/ Fire \/ Ready \/ Launch \/ Worker

Next == Editor \/ CaptureOpen \/ CaptureProjectReady \/ ProjectFails \/ Stop \/ System

Spec == Init /\ [][Next]_vars

\* Handlers and callbacks run to their end, timers fire, and analysis ends: a
\* permit comes or the work is canceled (AnalysisScheduler).
FairSpec == Spec /\ WF_vars(System)

-----------------------------------------------------------------------------
(***************************************************************************)
(* Properties.                                                              *)
(***************************************************************************)
\* cli-contract.md:172: each open document has at most one active worker, however
\* closes, reopens and refreshes interleave with a worker that is still running.
OneWorker ==
  [][Working /\ worker'.at # "none" => worker'.gen = worker.gen /\ worker'.mode = worker.mode]_vars

\* cli-contract.md:172: only work of the newest open document may publish.  What is
\* published is the snapshot in the editor, once the handler has scheduled it,
\* and a fast preview never replaces the full result of its generation.
PublishesNewest ==
  [][shown' # shown /\ shown'.doc # 0 =>
       /\ At("idle") /\ ~stray => shown'.doc = editor
       /\ shown'.gen = shown.gen /\ shown.mode = "full" => shown'.mode = "full"]_vars

\* Both: who works, and what may come of it.
WorkIsCurrent == OneWorker /\ PublishesNewest

\* Nothing that could still change the diagnostics is under way.
Quiet ==
  /\ At("idle") /\ stopped = "no" /\ ~Working /\ launches = 0 /\ fired = {}
  /\ d.timer = NoTimer /\ d.fullTimer = NoTimer

\* When the dust has settled the client shows the full result of the latest
\* snapshot, for the latest state of its dependencies, and no work is forgotten.
SettledIsFull ==
  Quiet /\ d.open =>
    /\ shown = [doc |-> d.latest, mode |-> "full", dep |-> d.dep, gen |-> d.gen]
    /\ ~d.ready /\ ~d.buildOverlay /\ ~d.dependentPending

\* ... the index has the overlay of the open buffer, or masks it for good ...
SettledOverlay ==
  Quiet /\ vba /\ editor # 0 /\ ~stray =>
    /\ d.open /\ d.latest = editor /\ index.doc = editor
    /\ index.declarations # "pending" /\ index.semantic # "pending"

\* ... and a closed document has neither diagnostics nor an overlay.
SettledClosed ==
  Quiet /\ editor = 0 /\ ~stray => ~d.open /\ shown = Empty /\ (index = NoOverlay \/ clearing)

\* cli-contract.md:172: while the newest overlay is pending the document's entries
\* are masked; the index never answers for the open buffer with another snapshot.
NoStaleOverlay ==
  vba /\ At("idle") /\ editor # 0 /\ ~stray => index.content \in {0, editor}

\* cli-contract.md:172: what the client and the index have when all is done, and
\* what the index never has before.
Settled == SettledIsFull /\ SettledOverlay /\ SettledClosed /\ NoStaleOverlay

\* cli-contract.md:172: diagnostics are eventually published.
FullIsShown ==
  \A doc \in 1..EditLimit :
    (At("idle") /\ editor = doc) ~>
      \/ editor # doc \/ stray \/ stopped # "no"
      \/ shown = [doc |-> doc, mode |-> "full", dep |-> d.dep, gen |-> d.gen]

\* cli-contract.md:172: "Only work whose generation, lifecycle, snapshot, and
\* publication phase still match the newest open document may publish"; after
\* didClose nothing follows "from an older lifecycle".
OnlyNewestPublishes ==
  [][shown' # shown /\ shown'.doc # 0 /\ At("idle") => shown'.doc = editor]_vars
=============================================================================
