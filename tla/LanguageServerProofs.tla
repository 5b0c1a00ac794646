----------------------- MODULE LanguageServerProofs -----------------------
(***************************************************************************)
(* Proofs about the two parts of the language server that run beside each   *)
(* other: the diagnostics of a document (DocumentAnalysis), for every       *)
(* number of edits and refreshes, and the permits of the analysis work      *)
(* (AnalysisScheduler).                                                     *)
(***************************************************************************)
EXTENDS AnalysisScheduler, DocumentAnalysis, FiniteSetTheorems, TLAPS

-----------------------------------------------------------------------------
(***************************************************************************)
(* DocumentAnalysis: types, and what the updates of a record do to its      *)
(* fields.                                                                  *)
(***************************************************************************)
DocumentState ==
  [gen : Nat, latest : Snapshot, ready : BOOLEAN, readyMode : Mode,
   published : {"none"} \cup Mode, running : BOOLEAN, runningOverlay : BOOLEAN,
   buildOverlay : BOOLEAN, dependentPending : BOOLEAN, dep : Nat, open : BOOLEAN,
   projectPending : BOOLEAN, timer : Timer, fullTimer : Timer]
AnalysisWorker ==
  [at : Place \cup {"none"}, gen : Nat, doc : Snapshot, overlay : BOOLEAN,
   mode : Mode, class : {"fast", "background"}, dep : Nat, canceled : BOOLEAN]

OverlayEntry ==
  [gen : Nat, doc : Snapshot, declarations : Phase, semantic : Phase, content : Snapshot]
Captures == [number : Nat, doc : Snapshot]
Shown == [doc : Snapshot, mode : Mode, dep : Nat, gen : Nat]
Handler == [at : {"idle", "opening", "arming", "launching", "changing", "closing"}, gen : Nat]

\* TypeOK with names for the types of the records.
DocumentTypes ==
  /\ vba \in BOOLEAN /\ edits \in Snapshot /\ editor \in Snapshot
  /\ handler \in Handler /\ d \in DocumentState /\ worker \in AnalysisWorker
  /\ fired \in SUBSET Timer /\ launches \in Nat /\ index \in OverlayEntry
  /\ clearing \in BOOLEAN /\ captured \in SUBSET Captures
  /\ refreshes \in 0..RefreshLimit /\ shown \in Shown
  /\ stopped \in {"no", "stopping", "yes"} /\ stray \in BOOLEAN

LEMMA NamedTypes == TypeOK <=> DocumentTypes
  BY Zenon DEF TypeOK, DocumentTypes, Handler, DocumentState, AnalysisWorker, OverlayEntry,
               Captures, Shown

\* The timer that asks for the full pass of a generation.
FullTimer(gen) == [gen |-> gen, mode |-> "full"]

LEMMA FullTimerFields ==
  \A gen : FullTimer(gen).gen = gen /\ FullTimer(gen).mode = "full"
  BY DEF FullTimer

\* The entry a generation reserves in the index.
Reserves(doc) ==
  /\ index' \in OverlayEntry /\ index'.gen = d.gen + 1 /\ index'.doc = doc
  /\ index'.declarations = "pending" /\ index'.semantic = "pending" /\ index'.content = 0

\* The worker goes on to another place; the state has another timer, another flag.
Moved ==
  /\ worker' \in AnalysisWorker /\ worker'.at # "none"
  /\ worker'.gen = worker.gen /\ worker'.doc = worker.doc /\ worker'.mode = worker.mode
  /\ (worker'.overlay <=> worker.overlay) /\ (worker'.canceled <=> worker.canceled)
SameButTimersAndPublished ==
  /\ d' \in DocumentState
  /\ d'.gen = d.gen /\ d'.latest = d.latest /\ d'.ready = d.ready
  /\ d'.readyMode = d.readyMode /\ d'.running = d.running
  /\ d'.runningOverlay = d.runningOverlay /\ d'.buildOverlay = d.buildOverlay
  /\ d'.dependentPending = d.dependentPending /\ d'.dep = d.dep /\ d'.open = d.open
SameButTimers == SameButTimersAndPublished /\ d'.published = d.published
SameButPublished ==
  SameButTimersAndPublished /\ d'.timer = d.timer /\ d'.fullTimer = d.fullTimer

LEMMA SmallTypes ==
  /\ NoTimer \in Timer /\ 0 \in Snapshot /\ "fast" \in Mode /\ "full" \in Mode
  /\ \A gen \in Nat, mode \in Mode : [gen |-> gen, mode |-> mode] \in Timer
  /\ \A number \in Nat, doc \in Snapshot : [number |-> number, doc |-> doc] \in Captures
  /\ Empty \in Shown
  /\ \A doc \in Snapshot, mode \in Mode, dep \in Nat, gen \in Nat :
       [doc |-> doc, mode |-> mode, dep |-> dep, gen |-> gen] \in Shown
  BY EditLimitAssumption DEF NoTimer, Timer, Mode, Snapshot, Empty, Shown, Captures

LEMMA Fields ==
  ASSUME TypeOK
  PROVE  /\ d \in DocumentState /\ worker \in AnalysisWorker
         /\ index \in OverlayEntry /\ handler \in Handler
         /\ vba \in BOOLEAN /\ editor \in Snapshot /\ d.dep \in Nat
         /\ \A r \in captured : r.doc \in Snapshot
         /\ \A t \in fired : t \in Timer
         /\ d.timer \in Timer /\ d.fullTimer \in Timer /\ worker.doc \in Snapshot
  BY DEF TypeOK, DocumentState, AnalysisWorker, OverlayEntry, Handler

LEMMA FieldTypes ==
  ASSUME TypeOK
  PROVE  /\ d.gen \in Nat /\ d.latest \in Snapshot /\ d.ready \in BOOLEAN
         /\ d.running \in BOOLEAN /\ d.runningOverlay \in BOOLEAN
         /\ d.buildOverlay \in BOOLEAN /\ d.dependentPending \in BOOLEAN
         /\ d.dep \in Nat /\ d.open \in BOOLEAN
         /\ worker.gen \in Nat /\ worker.overlay \in BOOLEAN /\ worker.canceled \in BOOLEAN
         /\ worker.at \in Place \cup {"none"} /\ worker.mode \in Mode /\ worker.dep \in Nat
         /\ index.gen \in Nat /\ shown.gen \in Nat /\ handler.gen \in Nat
         /\ vba \in BOOLEAN /\ stray \in BOOLEAN /\ launches \in Nat /\ clearing \in BOOLEAN
         /\ edits \in Snapshot /\ editor \in Snapshot
  BY DEF TypeOK

LEMMA LimitTypes ==
  ASSUME TypeOK
  PROVE  /\ edits < EditLimit => edits + 1 \in Snapshot
         /\ refreshes \in Nat /\ refreshes < RefreshLimit => refreshes + 1 \in 0..RefreshLimit
         /\ refreshes \in Nat
  BY EditLimitAssumption, RefreshLimitAssumption DEF TypeOK, Snapshot

\* A canceled worker is the same worker.
Cancels ==
  /\ worker' \in AnalysisWorker
  /\ worker'.at = worker.at /\ worker'.gen = worker.gen /\ worker'.doc = worker.doc
  /\ (worker'.overlay <=> worker.overlay) /\ worker'.mode = worker.mode
  /\ worker'.dep = worker.dep /\ (worker'.canceled <=> (worker.canceled \/ Working))

LEMMA CanceledOnState ==
  ASSUME TypeOK, worker' = Canceled
  PROVE  Cancels
<1>1. worker \in AnalysisWorker
  BY DEF TypeOK, AnalysisWorker
<1>2. CASE Working
  BY <1>1, <1>2 DEF Canceled, AnalysisWorker, Cancels
<1>3. CASE ~Working
  BY <1>1, <1>3 DEF Canceled, AnalysisWorker, Cancels
<1>4. QED
  BY <1>2, <1>3

\* diagnosticState.close ends the generation and forgets what was asked for.
Closes ==
  /\ d' \in DocumentState
  /\ d'.gen = d.gen + 1 /\ d'.latest = 0 /\ ~d'.ready
  /\ d'.readyMode = d.readyMode /\ d'.published = "none" /\ d'.running = d.running
  /\ ~d'.runningOverlay /\ ~d'.buildOverlay
  /\ ~d'.dependentPending /\ d'.dep = d.dep + 1 /\ ~d'.open
  /\ d'.timer = NoTimer /\ d'.fullTimer = NoTimer

LEMMA CloseOnState ==
  ASSUME TypeOK, CloseState
  PROVE  Closes /\ Cancels
<1> DEFINE g == d.gen + 1
           p == d.dep + 1
<1>1. g \in Nat /\ p \in Nat /\ d \in DocumentState
  BY DEF TypeOK, DocumentState
<1>2. /\ d' = [d EXCEPT !.gen = g, !.open = FALSE, !.ready = FALSE, !.latest = 0,
                        !.buildOverlay = FALSE, !.runningOverlay = FALSE,
                        !.dependentPending = FALSE, !.published = "none", !.dep = p,
                        !.projectPending = FALSE, !.timer = NoTimer, !.fullTimer = NoTimer]
      /\ worker' = Canceled
  BY <1>1 DEF CloseState
<1>3. d' \in DocumentState
  <2> HIDE DEF g, p
  <2> QED
    BY <1>1, <1>2, SmallTypes DEF DocumentState
<1>4. QED
  BY <1>1, <1>2, <1>3, CanceledOnState DEF DocumentState, Closes

\* openDiagnostics begins a generation.
Opens(large) ==
  /\ d' \in DocumentState
  /\ d'.gen = d.gen + 1 /\ d'.latest = editor /\ (d'.ready <=> ~(large /\ ~vba))
  /\ (large /\ vba => d'.readyMode = "fast")
  /\ (~(large /\ vba) => d'.readyMode = "full") /\ d'.published = "none"
  /\ d'.running = d.running /\ d'.runningOverlay = d.runningOverlay
  /\ (d'.buildOverlay <=> vba) /\ d'.dependentPending = d.dependentPending
  /\ d'.dep = d.dep /\ d'.open /\ d'.timer = NoTimer
  /\ (large /\ vba => d'.fullTimer = FullTimer(d.gen + 1))
  /\ (~(large /\ vba) => d'.fullTimer = NoTimer)

LEMMA OpenOnState ==
  ASSUME TypeOK, NEW large \in BOOLEAN, d' = Opened(large)
  PROVE  Opens(large)
<1> DEFINE g == d.gen + 1
           ready == ~(large /\ ~vba)
           mode == IF large /\ vba THEN "fast" ELSE "full"
           timer == IF large /\ vba THEN [gen |-> g, mode |-> "full"] ELSE NoTimer
<1>1. /\ g \in Nat /\ d \in DocumentState /\ editor \in Snapshot /\ vba \in BOOLEAN
      /\ ready \in BOOLEAN
  BY DEF TypeOK, DocumentState
<1>2. mode \in Mode /\ timer \in Timer
  <2> HIDE DEF g
  <2> QED
    BY <1>1, SmallTypes
<1>3. d' = [d EXCEPT !.gen = g, !.latest = editor, !.open = TRUE, !.ready = ready,
                     !.readyMode = mode, !.published = "none", !.buildOverlay = vba,
                     !.timer = NoTimer, !.fullTimer = timer]
  BY <1>1 DEF Opened
<1>4. d' \in DocumentState
  <2> HIDE DEF g, ready, mode, timer
  <2> QED
    BY <1>1, <1>2, <1>3, SmallTypes DEF DocumentState
<1>5. /\ d'.gen = g /\ d'.latest = editor /\ d'.ready = ready /\ d'.readyMode = mode
      /\ d'.published = "none" /\ d'.running = d.running
      /\ d'.runningOverlay = d.runningOverlay /\ d'.buildOverlay = vba
      /\ d'.dependentPending = d.dependentPending
      /\ d'.dep = d.dep /\ d'.open = TRUE /\ d'.timer = NoTimer /\ d'.fullTimer = timer
  <2> HIDE DEF g, ready, mode, timer
  <2> QED
    BY <1>1, <1>3 DEF DocumentState
<1>6. QED
  BY <1>1, <1>4, <1>5 DEF Opens, FullTimer

\* scheduleDocumentAnalysis begins a generation and asks for one pass or two.
Supersedes(doc, overlay, dep) ==
  /\ d' \in DocumentState
  /\ d'.gen = d.gen + 1 /\ d'.latest = doc /\ ~d'.ready
  /\ d'.published = "none" /\ d'.running = d.running
  /\ d'.runningOverlay = d.runningOverlay /\ (d'.buildOverlay <=> overlay)
  /\ d'.dependentPending = d.dependentPending /\ d'.dep = dep /\ d'.open
  /\ (overlay => d'.fullTimer = FullTimer(d.gen + 1))
  /\ (~overlay => d'.timer = FullTimer(d.gen + 1))

LEMMA SupersedeOnState ==
  ASSUME TypeOK, NEW doc \in Snapshot, NEW overlay \in BOOLEAN, NEW dep \in Nat,
         Supersede(doc, overlay, dep)
  PROVE  /\ Supersedes(doc, overlay, dep) /\ Cancels
         /\ index' = IF overlay THEN Reserved(doc, d.gen + 1) ELSE index
<1> DEFINE g == d.gen + 1
           mode == IF overlay THEN "fast" ELSE "full"
           timer == [gen |-> g, mode |-> mode]
           later == IF overlay THEN [gen |-> g, mode |-> "full"] ELSE NoTimer
<1>1. g \in Nat /\ d \in DocumentState /\ mode \in Mode
  BY SmallTypes DEF TypeOK, DocumentState
<1>2. timer \in Timer /\ later \in Timer
  <2> HIDE DEF g, mode
  <2> QED
    BY <1>1, SmallTypes
<1>3. /\ d' = [d EXCEPT !.gen = g, !.latest = doc, !.open = TRUE, !.ready = FALSE,
                        !.readyMode = mode, !.published = "none", !.buildOverlay = overlay,
                        !.dep = dep, !.timer = timer, !.fullTimer = later]
      /\ worker' = Canceled
      /\ index' = IF overlay THEN Reserved(doc, g) ELSE index
  BY <1>1 DEF Supersede
<1>4. d' \in DocumentState
  <2> HIDE DEF g, mode, timer, later
  <2> QED
    BY <1>1, <1>2, <1>3, SmallTypes DEF DocumentState
<1>5. /\ d'.gen = g /\ d'.latest = doc /\ d'.ready = FALSE
      /\ d'.published = "none" /\ d'.running = d.running
      /\ d'.runningOverlay = d.runningOverlay /\ d'.buildOverlay = overlay
      /\ d'.dependentPending = d.dependentPending /\ d'.dep = dep /\ d'.open = TRUE
      /\ d'.timer = timer /\ d'.fullTimer = later
  <2> HIDE DEF g, mode, timer, later
  <2> QED
    BY <1>1, <1>3 DEF DocumentState
<1>6. QED
  BY <1>1, <1>3, <1>4, <1>5, CanceledOnState DEF Supersedes, FullTimer

\* A refresh does the same without an overlay.
Refreshes(doc) ==
  /\ d' \in DocumentState
  /\ d'.gen = d.gen + 1 /\ d'.latest = doc /\ ~d'.ready
  /\ d'.published = "none" /\ d'.running = d.running
  /\ d'.runningOverlay = d.runningOverlay /\ ~d'.buildOverlay
  /\ d'.dependentPending = d.dependentPending /\ d'.dep = d.dep + 1 /\ d'.open
  /\ d'.timer = FullTimer(d.gen + 1)

LEMMA RefreshOnState ==
  ASSUME TypeOK, NEW doc \in Snapshot, Supersede(doc, FALSE, d.dep + 1)
  PROVE  Refreshes(doc) /\ Cancels /\ index' = index
<1> DEFINE g == d.gen + 1
           p == d.dep + 1
           timer == [gen |-> g, mode |-> "full"]
<1>1. g \in Nat /\ p \in Nat /\ d \in DocumentState
  BY DEF TypeOK, DocumentState
<1>2. timer \in Timer
  <2> HIDE DEF g
  <2> QED
    BY <1>1, SmallTypes
<1>3. /\ d' = [d EXCEPT !.gen = g, !.latest = doc, !.open = TRUE, !.ready = FALSE,
                        !.readyMode = "full", !.published = "none", !.buildOverlay = FALSE,
                        !.dep = p, !.timer = timer, !.fullTimer = NoTimer]
      /\ worker' = Canceled /\ index' = index
  BY DEF Supersede
<1>4. /\ d' \in DocumentState
      /\ d'.gen = g /\ d'.latest = doc /\ d'.ready = FALSE
      /\ d'.published = "none" /\ d'.running = d.running
      /\ d'.runningOverlay = d.runningOverlay /\ d'.buildOverlay = FALSE
      /\ d'.dependentPending = d.dependentPending /\ d'.dep = p /\ d'.open = TRUE
      /\ d'.timer = timer
  <2> HIDE DEF g, p, timer
  <2> QED
    BY <1>1, <1>2, <1>3, SmallTypes DEF DocumentState
<1>5. QED
  BY <1>3, <1>4, CanceledOnState DEF Refreshes, FullTimer

\* A refresh that may not supersede the snapshot asks for a follow-up pass.
Postpones ==
  /\ d' \in DocumentState
  /\ d'.gen = d.gen /\ d'.latest = d.latest /\ d'.ready = d.ready
  /\ d'.readyMode = d.readyMode /\ d'.published = d.published
  /\ d'.running = d.running /\ d'.runningOverlay = d.runningOverlay
  /\ d'.buildOverlay = d.buildOverlay /\ d'.dependentPending
  /\ d'.dep = d.dep + 1 /\ d'.open = d.open
  /\ d'.timer = d.timer /\ d'.fullTimer = d.fullTimer

LEMMA PostponeOnState ==
  ASSUME TypeOK, d' = [d EXCEPT !.dep = @ + 1, !.dependentPending = TRUE]
  PROVE  Postpones
<1> DEFINE p == d.dep + 1
<1>1. p \in Nat /\ d \in DocumentState /\ d' = [d EXCEPT !.dep = p, !.dependentPending = TRUE]
  BY Fields DEF DocumentState
<1> HIDE DEF p
<1>2. /\ d' \in DocumentState
      /\ d'.gen = d.gen /\ d'.latest = d.latest /\ d'.ready = d.ready
      /\ d'.readyMode = d.readyMode /\ d'.published = d.published
      /\ d'.running = d.running /\ d'.runningOverlay = d.runningOverlay
      /\ d'.buildOverlay = d.buildOverlay /\ d'.dependentPending
      /\ d'.dep = p /\ d'.open = d.open
      /\ d'.timer = d.timer /\ d'.fullTimer = d.fullTimer
  BY <1>1 DEF DocumentState
<1>3. QED
  BY <1>2 DEF p, Postpones

LEMMA ReserveOnIndex ==
  ASSUME TypeOK, NEW doc \in Snapshot, index' = Reserved(doc, d.gen + 1)
  PROVE  Reserves(doc)
<1> DEFINE g == d.gen + 1
<1>1. g \in Nat /\ 0 \in Snapshot
  BY SmallTypes DEF TypeOK
<1>2. index' = Reserved(doc, g)
  OBVIOUS
<1>3. index' \in OverlayEntry /\ index'.gen = g
  <2> HIDE DEF g
  <2> QED
    BY <1>1, <1>2 DEF Reserved, OverlayEntry, Phase
<1>4. QED
  BY <1>2, <1>3 DEF Reserved, Reserves

\* finishDocumentAnalysis takes the flags of the worker back.
FinishesWith(s) ==
  /\ d' \in DocumentState
  /\ d'.gen = s.gen /\ d'.latest = s.latest /\ d'.ready = s.ready
  /\ d'.readyMode = s.readyMode /\ d'.published = s.published
  /\ ~d'.running /\ ~d'.runningOverlay
  /\ d'.buildOverlay = s.buildOverlay /\ d'.dependentPending = s.dependentPending
  /\ d'.dep = s.dep /\ d'.open = s.open
  /\ d'.timer = s.timer /\ d'.fullTimer = s.fullTimer /\ worker' \in AnalysisWorker
  /\ worker' = NoWorker /\ worker'.at = "none"
  /\ (s.open /\ s.ready => launches' = launches + 1)
  /\ (~(s.open /\ s.ready) => launches' = launches)

LEMMA FinishOnState ==
  ASSUME NEW s \in DocumentState, Finish(s)
  PROVE  FinishesWith(s)
<1>1. /\ d' = [s EXCEPT !.running = FALSE, !.runningOverlay = FALSE]
      /\ launches' = IF s.open /\ s.ready THEN launches + 1 ELSE launches
      /\ worker' = NoWorker
  BY DEF Finish
<1>2. NoWorker \in AnalysisWorker /\ NoWorker.at = "none"
  BY SmallTypes DEF NoWorker, AnalysisWorker
<1>3. /\ d' \in DocumentState
      /\ d'.gen = s.gen /\ d'.latest = s.latest /\ d'.ready = s.ready
      /\ d'.readyMode = s.readyMode /\ d'.published = s.published
      /\ ~d'.running /\ ~d'.runningOverlay
      /\ d'.buildOverlay = s.buildOverlay /\ d'.dependentPending = s.dependentPending
      /\ d'.dep = s.dep /\ d'.open = s.open
      /\ d'.timer = s.timer /\ d'.fullTimer = s.fullTimer
  BY <1>1 DEF DocumentState
<1>4. QED
  BY <1>1, <1>2, <1>3 DEF FinishesWith

Finishes == FinishesWith(d)

\* completeDocumentAnalysis, when a follow-up pass is owed and when none is.
LEMMA FollowUpOnState ==
  ASSUME TypeOK
  PROVE  /\ FollowUp \in DocumentState
         /\ FollowUp.latest = d.latest /\ FollowUp.published = d.published
         /\ FollowUp.buildOverlay = d.buildOverlay /\ FollowUp.dep = d.dep
         /\ FollowUp.open = d.open
         /\ FollowUp.timer = d.timer /\ FollowUp.fullTimer = d.fullTimer
         /\ OwesFollowUp => /\ FollowUp.gen = d.gen + 1 /\ FollowUp.ready
                            /\ FollowUp.readyMode = "full" /\ ~FollowUp.dependentPending
         /\ ~OwesFollowUp => /\ FollowUp.gen = d.gen /\ FollowUp.ready = d.ready
                             /\ FollowUp.readyMode = d.readyMode
                             /\ FollowUp.dependentPending = d.dependentPending
<1> DEFINE g == d.gen + 1
<1>1. g \in Nat /\ d \in DocumentState
  BY DEF TypeOK, DocumentState
<1>2. CASE OwesFollowUp
  <2>1. FollowUp = [d EXCEPT !.dependentPending = FALSE, !.gen = g, !.ready = TRUE,
                             !.readyMode = "full"]
    BY <1>1, <1>2 DEF FollowUp
  <2> HIDE DEF g
  <2>2. /\ FollowUp \in DocumentState
        /\ FollowUp.latest = d.latest /\ FollowUp.published = d.published
        /\ FollowUp.buildOverlay = d.buildOverlay /\ FollowUp.dep = d.dep
        /\ FollowUp.open = d.open
        /\ FollowUp.timer = d.timer /\ FollowUp.fullTimer = d.fullTimer
        /\ FollowUp.gen = g /\ FollowUp.ready /\ FollowUp.readyMode = "full"
        /\ ~FollowUp.dependentPending
    BY <1>1, <2>1, SmallTypes DEF DocumentState
  <2>3. QED
    BY <1>2, <2>2 DEF g
<1>3. CASE ~OwesFollowUp
  BY <1>1, <1>3 DEF FollowUp
<1>4. QED
  BY <1>2, <1>3

Completes ==
  /\ d' \in DocumentState
  /\ d'.latest = d.latest /\ d'.published = d.published
  /\ ~d'.running /\ ~d'.runningOverlay
  /\ d'.buildOverlay = d.buildOverlay /\ d'.dep = d.dep /\ d'.open = d.open
  /\ d'.timer = d.timer /\ d'.fullTimer = d.fullTimer /\ worker' \in AnalysisWorker
  /\ worker' = NoWorker /\ worker'.at = "none"
  /\ OwesFollowUp => /\ d'.gen = d.gen + 1 /\ d'.ready /\ d'.readyMode = "full"
                     /\ ~d'.dependentPending
  /\ ~OwesFollowUp => /\ d'.gen = d.gen /\ d'.ready = d.ready
                      /\ d'.readyMode = d.readyMode
                      /\ d'.dependentPending = d.dependentPending
  /\ (d.open /\ (OwesFollowUp \/ d.ready) => launches' = launches + 1)
  /\ (~(d.open /\ (OwesFollowUp \/ d.ready)) => launches' = launches)

LEMMA CompleteOnState ==
  ASSUME TypeOK, Finish(FollowUp)
  PROVE  Completes
<1>1. FollowUp \in DocumentState
  BY FollowUpOnState
<1>2. /\ d' \in DocumentState
      /\ d'.latest = d.latest /\ d'.published = d.published
      /\ d'.running = FALSE /\ d'.runningOverlay = FALSE
      /\ d'.buildOverlay = d.buildOverlay /\ d'.dep = d.dep /\ d'.open = d.open
      /\ d'.timer = d.timer /\ d'.fullTimer = d.fullTimer /\ worker' = NoWorker
      /\ worker' \in AnalysisWorker /\ worker'.at = "none"
      /\ launches' = IF d.open /\ FollowUp.ready THEN launches + 1 ELSE launches
  BY <1>1, FinishOnState, FollowUpOnState DEF FinishesWith
<1>3. /\ d'.gen = FollowUp.gen /\ d'.ready = FollowUp.ready
      /\ d'.readyMode = FollowUp.readyMode
      /\ d'.dependentPending = FollowUp.dependentPending
      /\ FollowUp.dependentPending \in BOOLEAN /\ FollowUp.ready \in BOOLEAN
  BY <1>1, FinishOnState DEF DocumentState, FinishesWith
<1>4. QED
  BY <1>2, <1>3, FollowUpOnState DEF Completes

\* diagnosticsReady asks for a pass of the mode of the timer.
Readies(t) ==
  /\ d' \in DocumentState
  /\ d'.gen = d.gen /\ d'.latest = d.latest /\ d'.ready
  /\ (t.mode = "full" \/ d.readyMode = "full" => d'.readyMode = "full")
  /\ d'.published = d.published /\ d'.running = d.running
  /\ d'.runningOverlay = d.runningOverlay /\ d'.buildOverlay = d.buildOverlay
  /\ d'.dependentPending = d.dependentPending /\ d'.dep = d.dep /\ d'.open = d.open
  /\ d'.timer = d.timer /\ d'.fullTimer = d.fullTimer /\ launches' = launches + 1

LEMMA ReadyOnState ==
  ASSUME TypeOK, NEW t \in fired, DiagnosticsReady(t), d.open, d.gen = t.gen
  PROVE  Readies(t)
<1> DEFINE mode == IF t.mode = "full" \/ d.readyMode # "full" THEN t.mode ELSE d.readyMode
<1>1. d \in DocumentState /\ t \in Timer
  BY DEF TypeOK, DocumentState
<1>2. t.mode \in Mode /\ d.readyMode \in Mode
  BY <1>1 DEF Timer, DocumentState
<1>3. mode \in Mode
  BY <1>2
<1>4. d' = [d EXCEPT !.ready = TRUE, !.readyMode = mode] /\ launches' = launches + 1
  BY <1>1 DEF DiagnosticsReady, DocumentState
<1>5. mode = "full" \/ (t.mode # "full" /\ d.readyMode # "full")
  OBVIOUS
<1> HIDE DEF mode
<1>6. QED
  BY <1>1, <1>3, <1>4, <1>5 DEF DocumentState, Readies

\* launchDiagnostics hands the request over to the worker.
Launches ==
  /\ d' \in DocumentState /\ worker' \in AnalysisWorker
  /\ d'.gen = d.gen /\ d'.latest = d.latest /\ ~d'.ready
  /\ d'.readyMode = d.readyMode /\ d'.published = d.published /\ d'.running
  /\ d'.runningOverlay = d.buildOverlay /\ ~d'.buildOverlay
  /\ d'.dependentPending = d.dependentPending /\ d'.dep = d.dep /\ d'.open = d.open
  /\ d'.timer = d.timer /\ d'.fullTimer = d.fullTimer
  /\ worker'.at = "acquire" /\ worker'.gen = d.gen /\ worker'.doc = d.latest
  /\ worker'.overlay = d.buildOverlay /\ worker'.mode = d.readyMode
  /\ worker'.dep = 0 /\ ~worker'.canceled

LEMMA LaunchOnState ==
  ASSUME TypeOK, Launch, Launchable
  PROVE  Launches
<1>1. d \in DocumentState
  BY DEF TypeOK, DocumentState
<1>2. /\ d' = [d EXCEPT !.ready = FALSE, !.running = TRUE, !.buildOverlay = FALSE,
                        !.runningOverlay = d.buildOverlay]
      /\ worker' = Started
  BY DEF Launch
<1>3. /\ d' \in DocumentState
      /\ d'.gen = d.gen /\ d'.latest = d.latest /\ d'.ready = FALSE
      /\ d'.readyMode = d.readyMode /\ d'.published = d.published /\ d'.running = TRUE
      /\ d'.runningOverlay = d.buildOverlay /\ d'.buildOverlay = FALSE
      /\ d'.dependentPending = d.dependentPending /\ d'.dep = d.dep /\ d'.open = d.open
      /\ d'.timer = d.timer /\ d'.fullTimer = d.fullTimer
  BY <1>1, <1>2 DEF DocumentState
<1>4. /\ d.gen \in Nat /\ d.latest \in Snapshot /\ d.buildOverlay \in BOOLEAN
      /\ d.readyMode \in Mode
  BY <1>1 DEF DocumentState
<1>5. Started \in AnalysisWorker
  BY <1>4 DEF Started, AnalysisWorker, Place
<1>6. QED
  BY <1>2, <1>3, <1>5 DEF Started, Launches

-----------------------------------------------------------------------------
(***************************************************************************)
(* DocumentAnalysis: what each action does, field by field.                 *)
(***************************************************************************)
LEMMA DidOpenEffect ==
  ASSUME TypeOK, DidOpen
  PROVE  /\ At("idle") /\ stopped = "no" /\ editor = 0 /\ edits < EditLimit
         /\ edits' = edits + 1 /\ editor' = edits + 1
         /\ handler'.at = "opening" /\ handler'.gen = handler.gen /\ handler' \in Handler
         /\ UNCHANGED <<vba, d, worker, fired, launches, index, clearing, captured,
                        refreshes, shown, stopped, stray>>
  BY Fields DEF DidOpen, Handler

LEMMA DidChangeEffect ==
  ASSUME TypeOK, DidChange
  PROVE  /\ At("idle") /\ stopped = "no" /\ editor # 0 /\ edits < EditLimit
         /\ edits' = edits + 1 /\ editor' = edits + 1
         /\ handler'.at = "changing" /\ handler'.gen = handler.gen /\ handler' \in Handler
         /\ UNCHANGED <<vba, d, worker, fired, launches, index, clearing, captured,
                        refreshes, shown, stopped, stray>>
  BY Fields DEF DidChange, Handler

LEMMA DidCloseEffect ==
  ASSUME TypeOK, DidClose
  PROVE  /\ At("idle") /\ stopped = "no" /\ editor # 0
         /\ Closes /\ Cancels
         /\ shown' = Empty /\ stray' = FALSE
         /\ handler'.at = "closing" /\ handler'.gen = handler.gen /\ handler' \in Handler
         /\ UNCHANGED <<vba, edits, editor, fired, launches, index, clearing, captured,
                        refreshes, stopped>>
  BY Fields, CloseOnState DEF DidClose, Handler

LEMMA OpenDiagnosticsEffect ==
  ASSUME TypeOK, NEW large \in BOOLEAN, OpenDiagnostics(large)
  PROVE  /\ At("opening")
         /\ \/ /\ d.open /\ d.latest = editor
               /\ handler' \in Handler /\ handler'.at = "idle" /\ handler'.gen = 0
               /\ UNCHANGED <<d, worker, index, stray>>
            \/ /\ ~(d.open /\ d.latest = editor)
               /\ large /\ ~vba => handler'.at = "arming" /\ handler'.gen = d.gen + 1
               /\ handler' \in Handler
               /\ ~(large /\ ~vba) => handler'.at = "launching" /\ handler'.gen = handler.gen
               /\ handler' \in Handler
               /\ Opens(large) /\ Cancels
               /\ vba => Reserves(editor)
               /\ ~vba => index' = index
               /\ stray' = FALSE
         /\ UNCHANGED <<vba, edits, editor, fired, launches, clearing, captured,
                        refreshes, shown, stopped>>
<1>1. CASE d.open /\ d.latest = editor
  BY <1>1 DEF OpenDiagnostics, Idle, Handler
<1>2. CASE ~(d.open /\ d.latest = editor)
  <2>1. /\ d' = Opened(large) /\ worker' = Canceled /\ stray' = FALSE
        /\ handler' = IF large /\ ~vba THEN [at |-> "arming", gen |-> d.gen + 1]
                                       ELSE [handler EXCEPT !.at = "launching"]
        /\ index' = IF vba THEN Reserved(editor, d.gen + 1) ELSE index
    BY <1>2 DEF OpenDiagnostics
  <2>2. Opens(large)
    BY <2>1, OpenOnState
  <2>6. Cancels
    BY <2>1, CanceledOnState
  <2>3. vba => Reserves(editor)
    BY <2>1, Fields, ReserveOnIndex
  <2>4. /\ handler' \in Handler
        /\ large /\ ~vba => handler'.at = "arming" /\ handler'.gen = d.gen + 1
        /\ ~(large /\ ~vba) => handler'.at = "launching" /\ handler'.gen = handler.gen
    BY <2>1, Fields, FieldTypes DEF Handler
  <2>5. QED
    BY <1>2, <2>1, <2>2, <2>3, <2>4, <2>6 DEF OpenDiagnostics
<1>3. QED
  BY <1>1, <1>2

LEMMA ArmOpenDelayEffect ==
  ASSUME TypeOK, ArmOpenDelay
  PROVE  /\ At("arming") /\ handler' \in Handler /\ handler'.at = "idle" /\ handler'.gen = 0
         /\ \/ d' = d /\ ~(d.open /\ d.gen = handler.gen /\ d.timer = NoTimer)
            \/ /\ d.open /\ d.gen = handler.gen /\ d.timer = NoTimer
               /\ SameButTimers /\ d'.fullTimer = d.fullTimer
               /\ d'.timer = FullTimer(d.gen)
         /\ UNCHANGED <<vba, edits, editor, worker, fired, launches, index, clearing,
                        captured, refreshes, shown, stopped, stray>>
<1> DEFINE timer == [gen |-> handler.gen, mode |-> "full"]
<1>1. CASE d.open /\ d.gen = handler.gen /\ d.timer = NoTimer
  <2>1. timer \in Timer /\ d \in DocumentState
    BY Fields, SmallTypes DEF Handler
  <2>2. d' = [d EXCEPT !.timer = timer]
    BY <1>1 DEF ArmOpenDelay
  <2>3. SameButTimers /\ d'.fullTimer = d.fullTimer /\ d'.timer = timer
    <3> HIDE DEF timer
    <3> QED
      BY <2>1, <2>2 DEF SameButTimers, SameButTimersAndPublished, DocumentState
  <2>4. QED
    BY <1>1, <2>3 DEF ArmOpenDelay, Idle, Handler, FullTimer
<1>2. CASE ~(d.open /\ d.gen = handler.gen /\ d.timer = NoTimer)
  BY <1>2 DEF ArmOpenDelay, Idle, Handler
<1>3. QED
  BY <1>1, <1>2

LEMMA ScheduleChangeEffect ==
  ASSUME TypeOK, ScheduleChange
  PROVE  /\ At("changing") /\ handler' \in Handler /\ handler'.at = "idle" /\ handler'.gen = 0
         /\ \/ d.open /\ d.latest = editor /\ UNCHANGED <<d, worker, index, stray>>
            \/ /\ ~(d.open /\ d.latest = editor)
               /\ Supersedes(editor, vba, d.dep) /\ Cancels
               /\ vba => Reserves(editor)
               /\ ~vba => index' = index
               /\ stray' = FALSE
         /\ UNCHANGED <<vba, edits, editor, fired, launches, clearing, captured,
                        refreshes, shown, stopped>>
<1>1. CASE d.open /\ d.latest = editor
  BY <1>1 DEF ScheduleChange, Idle, Handler
<1>2. CASE ~(d.open /\ d.latest = editor)
  <2>1. Supersede(editor, vba, d.dep) /\ stray' = FALSE
    BY <1>2 DEF ScheduleChange
  <2>2. /\ Supersedes(editor, vba, d.dep) /\ Cancels
        /\ index' = IF vba THEN Reserved(editor, d.gen + 1) ELSE index
    BY <2>1, Fields, SupersedeOnState
  <2>3. vba => Reserves(editor)
    BY <2>2, Fields, ReserveOnIndex
  <2>4. QED
    BY <1>2, <2>1, <2>2, <2>3 DEF ScheduleChange, Idle, Handler
<1>3. QED
  BY <1>1, <1>2

LEMMA CloseDocumentEffect ==
  ASSUME TypeOK, CloseDocument
  PROVE  /\ At("closing") /\ editor' = 0 /\ clearing' = TRUE /\ handler' \in Handler
         /\ handler'.at = "idle" /\ handler'.gen = 0
         /\ UNCHANGED <<vba, edits, d, worker, fired, launches, index, captured,
                        refreshes, shown, stopped, stray>>
  BY Fields DEF CloseDocument, Idle, Handler

LEMMA ClearOverlayEffect ==
  ASSUME TypeOK, ClearOverlay
  PROVE  /\ clearing /\ At("idle") /\ clearing' = FALSE
         /\ editor # 0 => index' = index
         /\ editor = 0 =>
              /\ index' = NoOverlay /\ index' \in OverlayEntry
              /\ index'.gen = 0 /\ index'.doc = 0 /\ index'.content = 0
              /\ index'.declarations = "none" /\ index'.semantic = "none"
         /\ UNCHANGED <<vba, edits, editor, handler, d, worker, fired, launches, captured,
                        refreshes, shown, stopped, stray>>
  BY Fields, SmallTypes DEF ClearOverlay, NoOverlay, OverlayEntry, Phase

LEMMA CaptureOpenEffect ==
  ASSUME TypeOK, CaptureOpen
  PROVE  /\ vba /\ editor # 0 /\ refreshes < RefreshLimit /\ refreshes' = refreshes + 1
         /\ captured' = captured \cup {[number |-> refreshes, doc |-> editor]}
         /\ UNCHANGED <<vba, edits, editor, handler, d, worker, fired, launches, index,
                        clearing, shown, stopped, stray>>
  BY Fields DEF CaptureOpen

LEMMA CaptureProjectReadyEffect ==
  ASSUME TypeOK, CaptureProjectReady
  PROVE  /\ d.open /\ stopped = "no" /\ refreshes < RefreshLimit /\ refreshes' = refreshes + 1
         /\ captured' = captured \cup {[number |-> refreshes, doc |-> d.latest]}
         /\ SameButTimers /\ d'.timer = d.timer /\ d'.fullTimer = d.fullTimer
         /\ UNCHANGED <<vba, edits, editor, handler, worker, fired, launches, index,
                        clearing, shown, stopped, stray>>
  BY Fields DEF CaptureProjectReady, SameButTimers, SameButTimersAndPublished, DocumentState

LEMMA ProjectFailsEffect ==
  ASSUME TypeOK, ProjectFails
  PROVE  /\ SameButTimers /\ d'.timer = d.timer /\ d'.fullTimer = d.fullTimer
         /\ UNCHANGED <<vba, edits, editor, handler, worker, fired, launches, index,
                        clearing, captured, refreshes, shown, stopped, stray>>
  BY Fields DEF ProjectFails, outside, SameButTimers, SameButTimersAndPublished, DocumentState

LEMMA RefreshEffect ==
  ASSUME TypeOK, NEW r \in captured, Refresh(r)
  PROVE  /\ captured' = captured \ {r} /\ r.doc \in Snapshot
         /\ \/ stopped # "no" /\ UNCHANGED <<d, worker, index, stray>>
            \/ /\ stopped = "no" /\ (d.buildOverlay \/ (d.running /\ d.runningOverlay))
               /\ Postpones /\ UNCHANGED <<worker, index, stray>>
            \/ /\ stopped = "no" /\ ~(d.buildOverlay \/ (d.running /\ d.runningOverlay))
               /\ Refreshes(r.doc) /\ Cancels /\ index' = index
               /\ stray' \in BOOLEAN /\ (stray' <=> (stray \/ r.doc # d.latest))
         /\ UNCHANGED <<vba, edits, editor, handler, fired, launches, clearing, refreshes,
                        shown, stopped>>
<1>1. CASE stopped # "no"
  BY <1>1, Fields DEF Refresh
<1>2. CASE stopped = "no" /\ (d.buildOverlay \/ (d.running /\ d.runningOverlay))
  <2>1. /\ d' = [d EXCEPT !.dep = @ + 1, !.dependentPending = TRUE]
        /\ UNCHANGED <<worker, index, stray>>
    BY <1>2 DEF Refresh
  <2>2. Postpones
    BY <2>1, PostponeOnState
  <2>3. QED
    BY <1>2, <2>1, <2>2, Fields DEF Refresh
<1>3. CASE stopped = "no" /\ ~(d.buildOverlay \/ (d.running /\ d.runningOverlay))
  <2>1. Supersede(r.doc, FALSE, d.dep + 1) /\ stray' = (stray \/ r.doc # d.latest)
    BY <1>3, Zenon DEF Refresh
  <2>2. r.doc \in Snapshot
    BY Fields
  <2>3. Refreshes(r.doc) /\ Cancels /\ index' = index
    BY <2>1, <2>2, RefreshOnState
  <2>4. stray' \in BOOLEAN /\ (stray' <=> (stray \/ r.doc # d.latest))
    BY <2>1, Zenon
  <2>5. QED
    BY <1>3, <2>1, <2>2, <2>3, <2>4 DEF Refresh
<1>4. QED
  BY <1>1, <1>2, <1>3

LEMMA FireEffect ==
  ASSUME TypeOK, Fire
  PROVE  /\ SameButTimers
         /\ \/ /\ d.timer # NoTimer /\ fired' = fired \cup {d.timer}
               /\ d'.timer = NoTimer /\ d'.fullTimer = d.fullTimer
            \/ /\ d.fullTimer # NoTimer /\ fired' = fired \cup {d.fullTimer}
               /\ d'.fullTimer = NoTimer /\ d'.timer = d.timer
         /\ UNCHANGED <<vba, edits, editor, handler, worker, launches, index, clearing,
                        captured, refreshes, shown, stopped, stray>>
  BY Fields, SmallTypes
  DEF Fire, outside, SameButTimers, SameButTimersAndPublished, DocumentState

LEMMA DiagnosticsReadyEffect ==
  ASSUME TypeOK, NEW t \in fired, DiagnosticsReady(t)
  PROVE  /\ fired' = fired \ {t}
         /\ \/ ~(d.open /\ d.gen = t.gen) /\ UNCHANGED <<d, launches>>
            \/ d.open /\ d.gen = t.gen /\ Readies(t)
         /\ UNCHANGED <<vba, edits, editor, handler, worker, index, clearing, captured,
                        refreshes, shown, stopped, stray>>
<1>1. CASE d.open /\ d.gen = t.gen
  <2>1. Readies(t)
    BY <1>1, ReadyOnState
  <2>2. QED
    BY <1>1, <2>1 DEF DiagnosticsReady, outside
<1>2. CASE ~(d.open /\ d.gen = t.gen)
  BY <1>2 DEF DiagnosticsReady, outside
<1>3. QED
  BY <1>1, <1>2

LEMMA LaunchEffect ==
  ASSUME TypeOK, Launch
  PROVE  /\ \/ launches > 0 /\ launches' = launches - 1 /\ handler' = handler
            \/ /\ At("launching") /\ launches' = launches
               /\ handler' \in Handler /\ handler'.at = "idle" /\ handler'.gen = 0
         /\ \/ Launchable /\ Launches
            \/ ~Launchable /\ UNCHANGED <<d, worker>>
         /\ UNCHANGED <<vba, edits, editor, fired, index, clearing, captured, refreshes,
                        shown, stopped, stray>>
<1>1. CASE Launchable
  <2>1. Launches
    BY <1>1, LaunchOnState
  <2>2. QED
    BY <1>1, <2>1 DEF Launch, Idle, Handler
<1>2. CASE ~Launchable
  BY <1>2 DEF Launch, Idle, Handler
<1>3. QED
  BY <1>1, <1>2

LEMMA AwaitPermitEffect ==
  ASSUME TypeOK, AwaitPermit
  PROVE  /\ worker.at = "acquire"
         /\ \/ worker.canceled /\ Finishes
            \/ /\ ~worker.canceled /\ Moved /\ UNCHANGED <<d, launches>>
               /\ worker'.dep = worker.dep
               /\ worker.mode = "fast" => worker'.at = "body"
               /\ worker.mode = "full" /\ worker.overlay => worker'.at = "overlay"
               /\ worker.mode = "full" /\ ~worker.overlay => worker'.at = "switchFull"
         /\ UNCHANGED <<vba, edits, editor, handler, fired, index, clearing, captured,
                        refreshes, shown, stopped, stray>>
<1>1. CASE worker.canceled /\ Finish(d)
  <2>1. Finishes
    BY <1>1, Fields, FinishOnState DEF Finishes
  <2>2. QED
    BY <1>1, <2>1 DEF AwaitPermit, Rest, outside
<1>2. CASE ~worker.canceled /\ UNCHANGED <<d, launches>>
  <2>1. Go(IF worker.mode = "fast" THEN "body"
           ELSE IF worker.overlay THEN "overlay" ELSE "switchFull")
    BY <1>2, <1>2 DEF AwaitPermit, WithPermit, Finish
  <2>2. QED
    BY <1>2, <2>1, Fields DEF AwaitPermit, Go, Moved, AnalysisWorker, Place, Rest, outside
<1>3. QED
  BY <1>1, <1>2 DEF AwaitPermit, WithPermit

LEMMA BodyEffect ==
  ASSUME TypeOK, Body
  PROVE  /\ worker.at = "body"
         /\ Moved
         /\ worker'.dep = d.dep
         /\ worker'.at \in {"project", "analyzing"}
         /\ worker.mode = "fast" => worker'.at = "analyzing"
         /\ UNCHANGED <<vba, edits, editor, handler, d, fired, launches, index, clearing,
                        captured, refreshes, shown, stopped, stray>>
  BY Fields DEF Body, Go, Moved, AnalysisWorker, Place, Rest, outside

LEMMA AwaitProjectEffect ==
  ASSUME TypeOK, AwaitProject
  PROVE  /\ worker.at = "project"
         /\ Moved /\ worker'.dep = worker.dep /\ worker'.at = "analyzing"
         /\ SameButTimers /\ d'.timer = d.timer /\ d'.fullTimer = d.fullTimer
         /\ UNCHANGED <<vba, edits, editor, handler, fired, launches, index, clearing,
                        captured, refreshes, shown, stopped, stray>>
<1>1. Moved /\ worker'.dep = worker.dep /\ worker'.at = "analyzing"
  BY Fields DEF AwaitProject, Go, Moved, AnalysisWorker, Place
<1>2. SameButTimers /\ d'.timer = d.timer /\ d'.fullTimer = d.fullTimer
  BY Fields DEF AwaitProject, SameButTimers, SameButTimersAndPublished, DocumentState
<1>3. QED
  BY <1>1, <1>2 DEF AwaitProject, Rest, outside

LEMMA PublishEffect ==
  ASSUME TypeOK, Publish
  PROVE  /\ worker.at = "analyzing"
         /\ Moved
         /\ worker'.at \in {"overlay", "complete"}
         /\ worker'.at = "overlay" <=>
                worker.mode = "fast" /\ worker.overlay /\ ~worker.canceled
         /\ \/ Discarded /\ UNCHANGED <<d, shown>>
            \/ /\ ~Discarded
               /\ shown' = [doc |-> worker.doc, mode |-> worker.mode, dep |-> worker.dep,
                            gen |-> worker.gen]
               /\ SameButPublished /\ d'.published = worker.mode
         /\ UNCHANGED <<vba, edits, editor, handler, fired, launches, index, clearing,
                        captured, refreshes, stopped, stray>>
<1>1. /\ Moved /\ worker'.at \in {"overlay", "complete"}
      /\ worker'.at = "overlay" <=> worker.mode = "fast" /\ worker.overlay /\ ~worker.canceled
  BY Fields DEF Publish, Moved, AnalysisWorker, Place
<1>2. CASE Discarded
  BY <1>1, <1>2 DEF Publish, outside
<1>3. CASE ~Discarded
  <2>1. d' = [d EXCEPT !.published = worker.mode] /\ worker.mode \in Mode
    BY <1>3, Fields DEF Publish, AnalysisWorker
  <2>2. SameButPublished /\ d'.published = worker.mode
    BY <2>1, Fields DEF SameButPublished, SameButTimersAndPublished, DocumentState
  <2>3. QED
    BY <1>1, <1>3, <2>2 DEF Publish, outside
<1>4. QED
  BY <1>2, <1>3

LEMMA AnalyzeDeclarationsEffect ==
  ASSUME TypeOK, AnalyzeDeclarations
  PROVE  /\ worker.at = "overlay"
         /\ Moved /\ worker'.dep = worker.dep
         /\ \/ worker'.at = "declare" /\ ~worker.canceled
            \/ worker'.at = "reject"
         /\ UNCHANGED <<vba, edits, editor, handler, d, fired, launches, index, clearing,
                        captured, refreshes, shown, stopped, stray>>
  BY Fields DEF AnalyzeDeclarations, Go, Moved, AnalysisWorker, Place, Rest, outside

LEMMA PublishDeclarationsEffect ==
  ASSUME TypeOK, PublishDeclarations
  PROVE  /\ worker.at = "declare"
         /\ Moved /\ worker'.dep = worker.dep
         /\ \/ /\ index.declarations = "pending" /\ index.gen = worker.gen
               /\ index'.gen = index.gen /\ index'.doc = index.doc
               /\ index'.semantic = index.semantic
               /\ index'.declarations = "published" /\ index'.content = worker.doc
               /\ index' \in OverlayEntry
               /\ worker.canceled => worker'.at \in {"switchFull", "complete"}
               /\ ~worker.canceled => worker'.at = "switch"
            \/ /\ ~(index.declarations = "pending" /\ index.gen = worker.gen)
               /\ worker'.at = "reject" /\ index' = index
         /\ UNCHANGED <<vba, edits, editor, handler, d, fired, launches, clearing,
                        captured, refreshes, shown, stopped, stray>>
<1>1. worker \in AnalysisWorker /\ index \in OverlayEntry
  BY Fields
<1>2. CASE index.declarations = "pending" /\ index.gen = worker.gen
  <2>1. /\ index' = [index EXCEPT !.declarations = "published", !.content = worker.doc]
        /\ Go(IF worker.canceled THEN AfterOverlay ELSE "switch")
    BY <1>2 DEF PublishDeclarations
  <2>2. /\ index'.gen = index.gen /\ index'.doc = index.doc /\ index'.semantic = index.semantic
        /\ index'.declarations = "published" /\ index'.content = worker.doc
        /\ index' \in OverlayEntry
    BY <1>1, <2>1 DEF OverlayEntry, Phase, AnalysisWorker
  <2>3. /\ Moved /\ worker'.dep = worker.dep
        /\ worker.canceled => worker'.at \in {"switchFull", "complete"}
        /\ ~worker.canceled => worker'.at = "switch"
    BY <1>1, <2>1 DEF Go, AfterOverlay, Moved, AnalysisWorker, Place
  <2>4. QED
    BY <1>2, <2>2, <2>3 DEF PublishDeclarations, outside
<1>3. CASE ~(index.declarations = "pending" /\ index.gen = worker.gen)
  BY <1>1, <1>3 DEF PublishDeclarations, Go, Moved, AnalysisWorker, Place, outside
<1>4. QED
  BY <1>2, <1>3

LEMMA RejectDeclarationsEffect ==
  ASSUME TypeOK, RejectDeclarations
  PROVE  /\ worker.at = "reject"
         /\ Moved /\ worker'.dep = worker.dep
         /\ \/ ~worker.canceled /\ Current /\ worker'.at = "abandon"
            \/ /\ ~(~worker.canceled /\ Current) /\ worker'.at \in {"switchFull", "complete"}
               /\ worker'.at = "switchFull" <=> worker.mode = "full" /\ ~worker.canceled
         /\ UNCHANGED <<vba, edits, editor, handler, d, fired, launches, index, clearing,
                        captured, refreshes, shown, stopped, stray>>
  BY Fields
  DEF RejectDeclarations, Go, Moved, AnalysisWorker, Place, AfterOverlay, Rest, outside

LEMMA AbandonOverlayEffect ==
  ASSUME TypeOK, AbandonOverlay
  PROVE  /\ worker.at = "abandon"
         /\ Moved /\ worker'.dep = worker.dep /\ worker'.at \in {"switchFull", "complete"}
         /\ worker'.at = "switchFull" <=> worker.mode = "full" /\ ~worker.canceled
         /\ index' \in OverlayEntry /\ index'.gen = index.gen /\ index'.doc = index.doc
         /\ index'.content = index.content
         /\ index.gen = worker.gen =>
                index'.declarations # "pending" /\ index'.semantic # "pending"
         /\ index.gen # worker.gen => index' = index
         /\ UNCHANGED <<vba, edits, editor, handler, d, fired, launches, clearing,
                        captured, refreshes, shown, stopped, stray>>
<1> DEFINE after(phase) ==
             IF phase = "pending" /\ index.gen = worker.gen THEN "abandoned" ELSE phase
<1>1. /\ worker \in AnalysisWorker /\ index \in OverlayEntry
      /\ index' = [index EXCEPT !.declarations = after(@), !.semantic = after(@)]
  BY Fields DEF AbandonOverlay
<1>2. /\ index'.gen = index.gen /\ index'.doc = index.doc /\ index'.content = index.content
      /\ index'.declarations = after(index.declarations)
      /\ index'.semantic = after(index.semantic) /\ index' \in OverlayEntry
  BY <1>1 DEF OverlayEntry, Phase
<1>3. index.gen # worker.gen => index' = index
  BY <1>1 DEF OverlayEntry
<1>4. /\ Moved /\ worker'.dep = worker.dep /\ worker'.at \in {"switchFull", "complete"}
      /\ worker'.at = "switchFull" <=> worker.mode = "full" /\ ~worker.canceled
  BY <1>1 DEF AbandonOverlay, Go, AfterOverlay, Moved, AnalysisWorker, Place
<1>5. QED
  BY <1>2, <1>3, <1>4 DEF AbandonOverlay, outside

LEMMA SwitchToBackgroundEffect ==
  ASSUME TypeOK, SwitchToBackground
  PROVE  /\ worker.at \in {"switch", "switchFull"}
         /\ \/ worker.canceled /\ Finishes
            \/ /\ Moved /\ worker'.dep = worker.dep /\ UNCHANGED <<d, launches>>
               /\ \/ worker.at = "switch" /\ worker'.at = "semantic"
                  \/ worker.at = "switchFull" /\ worker'.at = "body"
         /\ UNCHANGED <<vba, edits, editor, handler, fired, index, clearing, captured,
                        refreshes, shown, stopped, stray>>
<1>1. CASE worker.canceled /\ Finish(d)
  <2>1. Finishes
    BY <1>1, Fields, FinishOnState DEF Finishes
  <2>2. QED
    BY <1>1, <2>1 DEF SwitchToBackground, Rest, outside
<1>2. CASE ~(worker.canceled /\ Finish(d))
  <2>1. /\ UNCHANGED <<d, launches>>
        /\ \/ /\ worker.at = "switch"
              /\ worker' = [worker EXCEPT !.at = "semantic", !.class = "background"]
           \/ worker.at = "switchFull" /\ worker' = [worker EXCEPT !.at = "body"]
           \/ /\ worker.at = "switchFull"
              /\ worker' = [worker EXCEPT !.at = "body", !.class = "background"]
    BY <1>2 DEF SwitchToBackground, Go
  <2>2. /\ Moved /\ worker'.dep = worker.dep
        /\ \/ worker.at = "switch" /\ worker'.at = "semantic"
           \/ worker.at = "switchFull" /\ worker'.at = "body"
    BY <2>1, Fields DEF Moved, AnalysisWorker, Place
  <2>3. QED
    BY <2>1, <2>2 DEF SwitchToBackground, Rest, outside
<1>3. QED
  BY <1>1, <1>2

LEMMA AnalyzeSemanticEffect ==
  ASSUME TypeOK, AnalyzeSemantic
  PROVE  /\ worker.at = "semantic"
         /\ Moved /\ worker'.dep = worker.dep
         /\ \/ worker'.at = "publishSemantic" /\ ~worker.canceled
            \/ worker'.at = "rejectSemantic"
         /\ UNCHANGED <<vba, edits, editor, handler, d, fired, launches, index, clearing,
                        captured, refreshes, shown, stopped, stray>>
  BY Fields DEF AnalyzeSemantic, Go, Moved, AnalysisWorker, Place, Rest, outside

LEMMA PublishSemanticEffect ==
  ASSUME TypeOK, PublishSemantic
  PROVE  /\ worker.at = "publishSemantic"
         /\ Moved /\ worker'.dep = worker.dep
         /\ \/ /\ index.semantic = "pending" /\ index.gen = worker.gen
               /\ index'.gen = index.gen /\ index'.doc = index.doc
               /\ index'.declarations = index.declarations
               /\ index'.semantic = "published" /\ index'.content = worker.doc
               /\ index' \in OverlayEntry
               /\ worker'.at \in {"switchFull", "complete"}
               /\ worker'.at = "switchFull" <=> worker.mode = "full" /\ ~worker.canceled
            \/ /\ ~(index.semantic = "pending" /\ index.gen = worker.gen)
               /\ worker'.at = "rejectSemantic" /\ index' = index
         /\ UNCHANGED <<vba, edits, editor, handler, d, fired, launches, clearing,
                        captured, refreshes, shown, stopped, stray>>
<1>1. worker \in AnalysisWorker /\ index \in OverlayEntry
  BY Fields
<1>2. CASE index.semantic = "pending" /\ index.gen = worker.gen
  <2>1. /\ index' = [index EXCEPT !.semantic = "published", !.content = worker.doc]
        /\ Go(AfterOverlay)
    BY <1>2 DEF PublishSemantic
  <2>2. /\ index'.gen = index.gen /\ index'.doc = index.doc
        /\ index'.declarations = index.declarations
        /\ index'.semantic = "published" /\ index'.content = worker.doc
        /\ index' \in OverlayEntry
    BY <1>1, <2>1 DEF OverlayEntry, Phase, AnalysisWorker
  <2>3. /\ Moved /\ worker'.dep = worker.dep /\ worker'.at \in {"switchFull", "complete"}
        /\ worker'.at = "switchFull" <=> worker.mode = "full" /\ ~worker.canceled
    BY <1>1, <2>1 DEF Go, AfterOverlay, Moved, AnalysisWorker, Place
  <2>4. QED
    BY <1>2, <2>2, <2>3 DEF PublishSemantic, outside
<1>3. CASE ~(index.semantic = "pending" /\ index.gen = worker.gen)
  BY <1>1, <1>3 DEF PublishSemantic, Go, Moved, AnalysisWorker, Place, outside
<1>4. QED
  BY <1>2, <1>3

LEMMA RejectSemanticEffect ==
  ASSUME TypeOK, RejectSemantic
  PROVE  /\ worker.at = "rejectSemantic"
         /\ Moved /\ worker'.dep = worker.dep
         /\ \/ ~worker.canceled /\ Current /\ worker'.at = "abandonSemantic"
            \/ /\ ~(~worker.canceled /\ Current) /\ worker'.at \in {"switchFull", "complete"}
               /\ worker'.at = "switchFull" <=> worker.mode = "full" /\ ~worker.canceled
         /\ UNCHANGED <<vba, edits, editor, handler, d, fired, launches, index, clearing,
                        captured, refreshes, shown, stopped, stray>>
  BY Fields DEF RejectSemantic, Go, Moved, AnalysisWorker, Place, AfterOverlay, Rest, outside

LEMMA AbandonSemanticEffect ==
  ASSUME TypeOK, AbandonSemantic
  PROVE  /\ worker.at = "abandonSemantic"
         /\ Moved /\ worker'.dep = worker.dep /\ worker'.at \in {"switchFull", "complete"}
         /\ worker'.at = "switchFull" <=> worker.mode = "full" /\ ~worker.canceled
         /\ index' \in OverlayEntry /\ index'.gen = index.gen /\ index'.doc = index.doc
         /\ index'.content = index.content
            /\ index'.declarations = index.declarations
         /\ index.gen = worker.gen => index'.semantic # "pending"
         /\ index.gen # worker.gen => index' = index
         /\ UNCHANGED <<vba, edits, editor, handler, d, fired, launches, clearing,
                        captured, refreshes, shown, stopped, stray>>
<1>1. worker \in AnalysisWorker /\ index \in OverlayEntry
  BY Fields
<1>2. /\ index'.gen = index.gen /\ index'.doc = index.doc /\ index'.content = index.content
      /\ index'.declarations = index.declarations /\ index' \in OverlayEntry
      /\ index.gen = worker.gen => index'.semantic # "pending"
      /\ index.gen # worker.gen => index' = index
  BY <1>1 DEF AbandonSemantic, OverlayEntry, Phase
<1>3. /\ Moved /\ worker'.dep = worker.dep /\ worker'.at \in {"switchFull", "complete"}
      /\ worker'.at = "switchFull" <=> worker.mode = "full" /\ ~worker.canceled
  BY <1>1 DEF AbandonSemantic, Go, AfterOverlay, Moved, AnalysisWorker, Place
<1>4. QED
  BY <1>2, <1>3 DEF AbandonSemantic, outside

LEMMA CompleteEffect ==
  ASSUME TypeOK, Complete
  PROVE  /\ worker.at = "complete"
         /\ Completes
         /\ UNCHANGED <<vba, edits, editor, handler, fired, index, clearing, captured,
                        refreshes, shown, stopped, stray>>
<1>1. Completes
  BY CompleteOnState DEF Complete
<1>2. QED
  BY <1>1 DEF Complete, Rest, outside

LEMMA StopEffect ==
  ASSUME TypeOK, Stop
  PROVE  /\ \/ /\ stopped = "no" /\ At("idle") /\ stopped' = "stopping"
               /\ UNCHANGED <<d, worker>>
            \/ stopped = "stopping" /\ stopped' = "yes" /\ Closes /\ Cancels
         /\ UNCHANGED <<vba, edits, editor, handler, fired, launches, index, clearing,
                        captured, refreshes, shown, stray>>
<1>1. CASE stopped = "no"
  BY <1>1 DEF Stop
<1>2. CASE stopped # "no"
  <2>1. CloseState /\ stopped = "stopping" /\ stopped' = "yes"
    BY <1>2 DEF Stop
  <2>2. Closes /\ Cancels
    BY <2>1, CloseOnState
  <2>3. QED
    BY <2>1, <2>2 DEF Stop
<1>3. QED
  BY <1>1, <1>2
-----------------------------------------------------------------------------
(***************************************************************************)
(* DocumentAnalysis: the inductive invariant, in parts.                     *)
(***************************************************************************)
\* The flags of the state say what the goroutines do: a worker runs exactly
\* while the state says so, and a pass that is ready has somebody to launch it.
Flags ==
  /\ d.running <=> Working
  /\ d.open => d.gen > 0
  /\ ~d.open => d.latest = 0 /\ ~d.buildOverlay
  /\ stopped = "yes" => ~d.open
  /\ ~At("idle") => stopped = "no"
  /\ stopped = "no" /\ d.open /\ d.ready => Working \/ launches > 0 \/ At("launching")

\* A generation belongs to one snapshot, and a worker is canceled with its own.
Generations ==
  /\ index.gen <= d.gen /\ shown.gen <= d.gen /\ handler.gen <= d.gen
  /\ Working => /\ 0 < worker.gen /\ worker.gen <= d.gen
                /\ worker.canceled <=> worker.gen < d.gen
  /\ Working /\ worker.gen = d.gen =>
       /\ d.open /\ d.latest = worker.doc
       /\ ~d.buildOverlay /\ (d.runningOverlay <=> worker.overlay)
  /\ shown.gen = d.gen => ~d.buildOverlay
  /\ At("arming") /\ handler.gen = d.gen => d.timer = NoTimer

\* Snapshots come from the editor.
Snapshots ==
  /\ editor <= edits /\ d.latest <= edits
  /\ \A r \in captured : 0 < r.doc /\ r.doc <= edits
  /\ d.open => d.latest # 0
  /\ ~At("idle") => editor # 0

\* What is shown is the full result of the latest snapshot and dependencies.
Final ==
  shown.doc = d.latest /\ shown.mode = "full" /\ shown.dep = d.dep /\ shown.gen = d.gen
\* A full pass of the current generation is still to come.
Due ==
  \/ At("arming") /\ handler.gen = d.gen
  \/ d.timer = FullTimer(d.gen) \/ d.fullTimer = FullTimer(d.gen) \/ FullTimer(d.gen) \in fired
  \/ d.ready /\ d.readyMode = "full"
  \/ /\ Working /\ worker.gen = d.gen /\ worker.mode = "full"
     /\ worker.at # "complete" \/ d.dependentPending

\* The full result of the latest snapshot is shown or still to come.
Owed == d.open /\ stopped = "no" => Due \/ (Final /\ ~d.dependentPending)

\* What is shown as full, the state has as published; and a result whose
\* dependencies have changed since has a follow-up pass queued behind it.
Answered ==
  /\ shown.gen = d.gen /\ shown.mode = "full" /\ d.open => d.published = "full"
  /\ shown.gen = d.gen /\ shown.mode = "full" /\ Working /\ d.runningOverlay =>
       worker.gen = d.gen /\ worker.mode = "full"
  /\ Working /\ worker.gen = d.gen /\ worker.at \in {"project", "analyzing"}
       /\ worker.dep # d.dep => d.dependentPending

\* What the handlers have told the state, unless a stray refresh came between.
Told ==
  stopped # "yes" /\ ~stray =>
    /\ editor # 0 /\ (At("idle") \/ At("arming") \/ At("launching")) =>
         d.open /\ d.latest = editor
    /\ editor = 0 \/ At("opening") \/ At("closing") => ~d.open
    /\ At("changing") => d.latest # editor
    /\ ~d.open => shown = Empty

\* The overlay is that of one snapshot, and shows nothing else.
Overlays ==
  /\ index.content \in {0, index.doc}
  /\ index.gen = d.gen => index.doc = d.latest
  /\ Working /\ worker.gen = index.gen => worker.doc = index.doc
  /\ index.declarations = "pending" => index.semantic = "pending"
  /\ Working /\ worker.gen = index.gen
       /\ worker.at \in {"switch", "semantic", "publishSemantic", "rejectSemantic",
                        "abandonSemantic"} => index.declarations # "pending"
  /\ d.buildOverlay => editor # 0 /\ ~At("opening") /\ ~At("closing") /\ index.gen = d.gen
  /\ editor = 0 => index = NoOverlay \/ clearing
  /\ At("arming") => ~vba
  /\ vba /\ ~stray /\ editor # 0 /\ (At("idle") \/ At("launching")) => index.doc = editor

\* The worker that will have done with the overlay of the current generation.
Building ==
  /\ Working /\ worker.gen = d.gen /\ worker.overlay /\ index.gen = d.gen
  /\ \/ worker.at \in {"acquire", "overlay", "declare", "reject", "abandon"}
     \/ worker.mode = "fast" /\ worker.at \in {"body", "analyzing"}
     \/ /\ index.declarations = "published"
        /\ worker.at \in {"switch", "semantic", "publishSemantic", "rejectSemantic",
                          "abandonSemantic"}

\* Somebody builds it while it is pending.
Built ==
  vba /\ ~stray /\ stopped = "no" /\ editor # 0 /\ (At("idle") \/ At("launching"))
    /\ index.semantic = "pending" => d.buildOverlay \/ Building

DocumentInv ==
  /\ TypeOK /\ Flags /\ Generations /\ Snapshots
  /\ Owed /\ Answered /\ Told /\ Overlays /\ Built


\* The bodies of OneWorker and of PublishesNewest.
WorkerStays ==
  Working /\ worker'.at # "none" => worker'.gen = worker.gen /\ worker'.mode = worker.mode
PublishedIsNewest ==
  shown' # shown /\ shown'.doc # 0 =>
    /\ At("idle") /\ ~stray => shown'.doc = editor
    /\ shown'.gen = shown.gen /\ shown.mode = "full" => shown'.mode = "full"
-----------------------------------------------------------------------------
(***************************************************************************)
(* DocumentAnalysis: every action keeps every part of the invariant.        *)
(***************************************************************************)
\* The types are kept.
LEMMA DocumentTypesPreserved ==
  TypeOK /\ DocumentTypes /\ [Next]_vars => DocumentTypes'
<1> SUFFICES ASSUME TypeOK, DocumentTypes, [Next]_vars PROVE DocumentTypes'
  OBVIOUS
<1>1. CASE DidOpen
  BY <1>1, DidOpenEffect, LimitTypes DEF DocumentTypes
<1>2. CASE DidChange
  BY <1>2, DidChangeEffect, LimitTypes DEF DocumentTypes
<1>3. CASE DidClose
  BY <1>3, DidCloseEffect, SmallTypes DEF DocumentTypes, Closes, Cancels, Working
<1>4. ASSUME NEW large \in BOOLEAN, OpenDiagnostics(large) PROVE DocumentTypes'
  <2>1. CASE d.open /\ d.latest = editor
    <3>1. /\ handler.at = "opening" /\ handler' \in Handler
          /\ handler'.at = "idle" /\ handler'.gen = 0
          /\ UNCHANGED <<vba, edits, editor, d, worker, fired, launches, index,
                         clearing, captured, refreshes, shown, stopped, stray>>
      BY <1>4, <2>1, OpenDiagnosticsEffect DEF At
    <3>2. QED
      BY <1>4, <2>1, <3>1 DEF DocumentTypes
  <2>2. CASE ~(d.open /\ d.latest = editor)
    <3>1. /\ Opens(large) /\ Cancels /\ stray' = FALSE
          /\ vba => Reserves(editor)
          /\ ~vba => index' = index
          /\ handler.at = "opening" /\ handler' \in Handler
          /\ large /\ ~vba => handler'.at = "arming" /\ handler'.gen = d.gen + 1
          /\ ~(large /\ ~vba) => handler'.at = "launching" /\ handler'.gen = handler.gen
          /\ UNCHANGED <<vba, edits, editor, fired, launches, clearing, captured,
                         refreshes, shown, stopped>>
      BY <1>4, <2>2, OpenDiagnosticsEffect DEF At
    <3>2. QED
      BY <1>4, <2>2, <3>1 DEF DocumentTypes, Opens, Reserves, Cancels, Working
  <2>3. QED
    BY <2>1, <2>2
<1>5. CASE ArmOpenDelay
  BY <1>5, ArmOpenDelayEffect
  DEF DocumentTypes, SameButTimers, SameButTimersAndPublished
<1>6. CASE ScheduleChange
  <2>1. CASE d.open /\ d.latest = editor
    <3>1. /\ handler.at = "changing" /\ handler' \in Handler
          /\ handler'.at = "idle" /\ handler'.gen = 0
          /\ UNCHANGED <<vba, edits, editor, d, worker, fired, launches, index,
                         clearing, captured, refreshes, shown, stopped, stray>>
      BY <1>6, <2>1, ScheduleChangeEffect DEF At
    <3>2. QED
      BY <1>6, <2>1, <3>1 DEF DocumentTypes
  <2>2. CASE ~(d.open /\ d.latest = editor)
    <3>1. /\ Supersedes(editor, vba, d.dep) /\ Cancels /\ stray' = FALSE
          /\ vba => Reserves(editor)
          /\ ~vba => index' = index
          /\ handler.at = "changing" /\ handler' \in Handler
          /\ handler'.at = "idle" /\ handler'.gen = 0
          /\ UNCHANGED <<vba, edits, editor, fired, launches, clearing, captured,
                         refreshes, shown, stopped>>
      BY <1>6, <2>2, ScheduleChangeEffect DEF At
    <3>2. QED
      BY <1>6, <2>2, <3>1 DEF DocumentTypes, Supersedes, Reserves, Cancels, Working
  <2>3. QED
    BY <2>1, <2>2
<1>7. CASE CloseDocument
  BY <1>7, CloseDocumentEffect, SmallTypes DEF DocumentTypes
<1>8. CASE ClearOverlay
  BY <1>8, ClearOverlayEffect DEF DocumentTypes
<1>9. CASE CaptureOpen
  BY <1>9, CaptureOpenEffect, SmallTypes, LimitTypes DEF DocumentTypes
<1>10. CASE CaptureProjectReady
  BY <1>10, CaptureProjectReadyEffect, SmallTypes, FieldTypes, LimitTypes
  DEF DocumentTypes, SameButTimers, SameButTimersAndPublished
<1>11. CASE ProjectFails
  BY <1>11, ProjectFailsEffect
  DEF DocumentTypes, SameButTimers, SameButTimersAndPublished
<1>12. ASSUME NEW r \in captured, Refresh(r) PROVE DocumentTypes'
  BY <1>12, RefreshEffect DEF DocumentTypes, Postpones, Refreshes, Cancels, Working
<1>13. CASE Fire
  BY <1>13, FireEffect, Fields
  DEF DocumentTypes, SameButTimers, SameButTimersAndPublished
<1>14. ASSUME NEW t \in fired, DiagnosticsReady(t) PROVE DocumentTypes'
  BY <1>14, DiagnosticsReadyEffect DEF DocumentTypes, Readies
<1>15. CASE Launch
  BY <1>15, LaunchEffect DEF DocumentTypes, Launches, Launchable
<1>16. CASE AwaitPermit
  BY <1>16, AwaitPermitEffect DEF DocumentTypes, Moved, Finishes, FinishesWith
<1>17. CASE Body
  BY <1>17, BodyEffect DEF DocumentTypes, Moved
<1>18. CASE AwaitProject
  BY <1>18, AwaitProjectEffect
  DEF DocumentTypes, Moved, SameButTimers, SameButTimersAndPublished
<1>19. CASE Publish
  BY <1>19, PublishEffect, Fields, FieldTypes, SmallTypes
  DEF DocumentTypes, Moved, SameButPublished, SameButTimersAndPublished
<1>20. CASE AnalyzeDeclarations
  BY <1>20, AnalyzeDeclarationsEffect DEF DocumentTypes, Moved
<1>21. CASE PublishDeclarations
  BY <1>21, PublishDeclarationsEffect DEF DocumentTypes, Moved
<1>22. CASE RejectDeclarations
  BY <1>22, RejectDeclarationsEffect DEF DocumentTypes, Moved
<1>23. CASE AbandonOverlay
  BY <1>23, AbandonOverlayEffect DEF DocumentTypes, Moved
<1>24. CASE SwitchToBackground
  BY <1>24, SwitchToBackgroundEffect DEF DocumentTypes, Moved, Finishes, FinishesWith
<1>25. CASE AnalyzeSemantic
  BY <1>25, AnalyzeSemanticEffect DEF DocumentTypes, Moved
<1>26. CASE PublishSemantic
  BY <1>26, PublishSemanticEffect DEF DocumentTypes, Moved
<1>27. CASE RejectSemantic
  BY <1>27, RejectSemanticEffect DEF DocumentTypes, Moved
<1>28. CASE AbandonSemantic
  BY <1>28, AbandonSemanticEffect DEF DocumentTypes, Moved
<1>29. CASE Complete
  BY <1>29, CompleteEffect DEF DocumentTypes, Completes, OwesFollowUp
<1>30. CASE Stop
  BY <1>30, StopEffect DEF DocumentTypes, Closes, Cancels, Working
<1>31. CASE UNCHANGED vars
  BY <1>31 DEF vars, DocumentTypes
<1>32. QED
  BY <1>1, <1>2, <1>3, <1>4, <1>5, <1>6, <1>7, <1>8, <1>9, <1>10, <1>11, <1>12,
     <1>13, <1>14, <1>15, <1>16, <1>17, <1>18, <1>19, <1>20, <1>21, <1>22, <1>23,
     <1>24, <1>25, <1>26, <1>27, <1>28, <1>29, <1>30, <1>31
  DEF Next, Editor, System, ReadLoop, Refreshing, Ready, Worker

\* The flags follow the goroutines.
LEMMA FlagsPreserved ==
  TypeOK /\ Flags /\ [Next]_vars => Flags'
<1> SUFFICES ASSUME TypeOK, Flags, [Next]_vars PROVE Flags'
  OBVIOUS
<1>1. CASE DidOpen
  BY <1>1, DidOpenEffect, FieldTypes DEF Flags, Working, At
<1>2. CASE DidChange
  BY <1>2, DidChangeEffect, FieldTypes DEF Flags, Working, At
<1>3. CASE DidClose
  BY <1>3, DidCloseEffect, FieldTypes DEF Flags, Working, At, Closes, Cancels
<1>4. ASSUME NEW large \in BOOLEAN, OpenDiagnostics(large) PROVE Flags'
  <2>1. CASE d.open /\ d.latest = editor
    <3>1. /\ handler.at = "opening" /\ handler' \in Handler
          /\ handler'.at = "idle" /\ handler'.gen = 0
          /\ UNCHANGED <<vba, edits, editor, d, worker, fired, launches, index,
                         clearing, captured, refreshes, shown, stopped, stray>>
      BY <1>4, <2>1, OpenDiagnosticsEffect DEF At
    <3>2. QED
      BY <1>4, <2>1, <3>1, FieldTypes DEF Flags, Working, At
  <2>2. CASE ~(d.open /\ d.latest = editor)
    <3>1. /\ Opens(large) /\ Cancels /\ stray' = FALSE
          /\ vba => Reserves(editor)
          /\ ~vba => index' = index
          /\ handler.at = "opening" /\ handler' \in Handler
          /\ large /\ ~vba => handler'.at = "arming" /\ handler'.gen = d.gen + 1
          /\ ~(large /\ ~vba) => handler'.at = "launching" /\ handler'.gen = handler.gen
          /\ UNCHANGED <<vba, edits, editor, fired, launches, clearing, captured,
                         refreshes, shown, stopped>>
      BY <1>4, <2>2, OpenDiagnosticsEffect DEF At
    <3>2. QED
      BY <1>4, <2>2, <3>1, FieldTypes DEF Flags, Working, At, Opens, Reserves, Cancels
  <2>3. QED
    BY <2>1, <2>2
<1>5. CASE ArmOpenDelay
  BY <1>5, ArmOpenDelayEffect, FieldTypes
  DEF Flags, Working, At, SameButTimers, SameButTimersAndPublished
<1>6. CASE ScheduleChange
  <2>1. CASE d.open /\ d.latest = editor
    <3>1. /\ handler.at = "changing" /\ handler' \in Handler
          /\ handler'.at = "idle" /\ handler'.gen = 0
          /\ UNCHANGED <<vba, edits, editor, d, worker, fired, launches, index,
                         clearing, captured, refreshes, shown, stopped, stray>>
      BY <1>6, <2>1, ScheduleChangeEffect DEF At
    <3>2. QED
      BY <1>6, <2>1, <3>1, FieldTypes DEF Flags, Working, At
  <2>2. CASE ~(d.open /\ d.latest = editor)
    <3>1. /\ Supersedes(editor, vba, d.dep) /\ Cancels /\ stray' = FALSE
          /\ vba => Reserves(editor)
          /\ ~vba => index' = index
          /\ handler.at = "changing" /\ handler' \in Handler
          /\ handler'.at = "idle" /\ handler'.gen = 0
          /\ UNCHANGED <<vba, edits, editor, fired, launches, clearing, captured,
                         refreshes, shown, stopped>>
      BY <1>6, <2>2, ScheduleChangeEffect DEF At
    <3>2. QED
      BY <1>6, <2>2, <3>1, FieldTypes DEF Flags, Working, At, Supersedes, Reserves, Cancels
  <2>3. QED
    BY <2>1, <2>2
<1>7. CASE CloseDocument
  BY <1>7, CloseDocumentEffect, FieldTypes DEF Flags, Working, At
<1>8. CASE ClearOverlay
  BY <1>8, ClearOverlayEffect, FieldTypes DEF Flags, Working, At
<1>9. CASE CaptureOpen
  BY <1>9, CaptureOpenEffect, FieldTypes DEF Flags, Working, At
<1>10. CASE CaptureProjectReady
  BY <1>10, CaptureProjectReadyEffect, FieldTypes
  DEF Flags, Working, At, SameButTimers, SameButTimersAndPublished
<1>11. CASE ProjectFails
  BY <1>11, ProjectFailsEffect, FieldTypes
  DEF Flags, Working, At, SameButTimers, SameButTimersAndPublished
<1>12. ASSUME NEW r \in captured, Refresh(r) PROVE Flags'
  BY <1>12, RefreshEffect, FieldTypes
  DEF Flags, Working, At, Postpones, Refreshes, Cancels
<1>13. CASE Fire
  BY <1>13, FireEffect, FieldTypes
  DEF Flags, Working, At, SameButTimers, SameButTimersAndPublished
<1>14. ASSUME NEW t \in fired, DiagnosticsReady(t) PROVE Flags'
  BY <1>14, DiagnosticsReadyEffect, FieldTypes DEF Flags, Working, At, Readies
<1>15. CASE Launch
  BY <1>15, LaunchEffect, FieldTypes DEF Flags, Working, At, Launches, Launchable
<1>16. CASE AwaitPermit
  BY <1>16, AwaitPermitEffect, FieldTypes
  DEF Flags, Working, At, Moved, Finishes, FinishesWith
<1>17. CASE Body
  BY <1>17, BodyEffect, FieldTypes DEF Flags, Working, At, Moved
<1>18. CASE AwaitProject
  BY <1>18, AwaitProjectEffect, FieldTypes
  DEF Flags, Working, At, Moved, SameButTimers, SameButTimersAndPublished
<1>19. CASE Publish
  BY <1>19, PublishEffect, FieldTypes
  DEF Flags, Working, At, Moved, SameButPublished, SameButTimersAndPublished
<1>20. CASE AnalyzeDeclarations
  BY <1>20, AnalyzeDeclarationsEffect, FieldTypes DEF Flags, Working, At, Moved
<1>21. CASE PublishDeclarations
  BY <1>21, PublishDeclarationsEffect, FieldTypes DEF Flags, Working, At, Moved
<1>22. CASE RejectDeclarations
  BY <1>22, RejectDeclarationsEffect, FieldTypes DEF Flags, Working, At, Moved
<1>23. CASE AbandonOverlay
  BY <1>23, AbandonOverlayEffect, FieldTypes DEF Flags, Working, At, Moved
<1>24. CASE SwitchToBackground
  BY <1>24, SwitchToBackgroundEffect, FieldTypes
  DEF Flags, Working, At, Moved, Finishes, FinishesWith
<1>25. CASE AnalyzeSemantic
  BY <1>25, AnalyzeSemanticEffect, FieldTypes DEF Flags, Working, At, Moved
<1>26. CASE PublishSemantic
  BY <1>26, PublishSemanticEffect, FieldTypes DEF Flags, Working, At, Moved
<1>27. CASE RejectSemantic
  BY <1>27, RejectSemanticEffect, FieldTypes DEF Flags, Working, At, Moved
<1>28. CASE AbandonSemantic
  BY <1>28, AbandonSemanticEffect, FieldTypes DEF Flags, Working, At, Moved
<1>29. CASE Complete
  BY <1>29, CompleteEffect, FieldTypes DEF Flags, Working, At, Completes, OwesFollowUp
<1>30. CASE Stop
  BY <1>30, StopEffect, FieldTypes DEF Flags, Working, At, Closes, Cancels
<1>31. CASE UNCHANGED vars
  BY <1>31 DEF vars, Flags, Working, At
<1>32. QED
  BY <1>1, <1>2, <1>3, <1>4, <1>5, <1>6, <1>7, <1>8, <1>9, <1>10, <1>11, <1>12,
     <1>13, <1>14, <1>15, <1>16, <1>17, <1>18, <1>19, <1>20, <1>21, <1>22, <1>23,
     <1>24, <1>25, <1>26, <1>27, <1>28, <1>29, <1>30, <1>31
  DEF Next, Editor, System, ReadLoop, Refreshing, Ready, Worker

\* A generation keeps its snapshot, and its worker is canceled with it.
LEMMA GenerationsPreserved ==
  TypeOK /\ Flags /\ Generations /\ Overlays /\ [Next]_vars => Generations'
<1> SUFFICES ASSUME TypeOK, Flags, Generations, Overlays, [Next]_vars PROVE Generations'
  OBVIOUS
<1>1. CASE DidOpen
  BY <1>1, DidOpenEffect, FieldTypes DEF Flags, Generations, Working, At
<1>2. CASE DidChange
  BY <1>2, DidChangeEffect, FieldTypes DEF Flags, Generations, Working, At
<1>3. CASE DidClose
  BY <1>3, DidCloseEffect, FieldTypes
  DEF Flags, Generations, Working, At, Closes, Cancels, Empty
<1>4. ASSUME NEW large \in BOOLEAN, OpenDiagnostics(large) PROVE Generations'
  <2>1. CASE d.open /\ d.latest = editor
    <3>1. /\ handler.at = "opening" /\ handler' \in Handler
          /\ handler'.at = "idle" /\ handler'.gen = 0
          /\ UNCHANGED <<vba, edits, editor, d, worker, fired, launches, index,
                         clearing, captured, refreshes, shown, stopped, stray>>
      BY <1>4, <2>1, OpenDiagnosticsEffect DEF At
    <3>2. QED
      BY <1>4, <2>1, <3>1, FieldTypes DEF Flags, Generations, Working, At
  <2>2. CASE ~(d.open /\ d.latest = editor)
    <3>1. /\ Opens(large) /\ Cancels /\ stray' = FALSE
          /\ vba => Reserves(editor)
          /\ ~vba => index' = index
          /\ handler.at = "opening" /\ handler' \in Handler
          /\ large /\ ~vba => handler'.at = "arming" /\ handler'.gen = d.gen + 1
          /\ ~(large /\ ~vba) => handler'.at = "launching" /\ handler'.gen = handler.gen
          /\ UNCHANGED <<vba, edits, editor, fired, launches, clearing, captured,
                         refreshes, shown, stopped>>
      BY <1>4, <2>2, OpenDiagnosticsEffect DEF At
    <3>2. QED
      BY <1>4, <2>2, <3>1, FieldTypes
      DEF Flags, Generations, Working, At, Opens, Reserves, Cancels
  <2>3. QED
    BY <2>1, <2>2
<1>5. CASE ArmOpenDelay
  BY <1>5, ArmOpenDelayEffect, FieldTypes
  DEF Flags, Generations, Working, At, SameButTimers, SameButTimersAndPublished
<1>6. CASE ScheduleChange
  <2>1. CASE d.open /\ d.latest = editor
    <3>1. /\ handler.at = "changing" /\ handler' \in Handler
          /\ handler'.at = "idle" /\ handler'.gen = 0
          /\ UNCHANGED <<vba, edits, editor, d, worker, fired, launches, index,
                         clearing, captured, refreshes, shown, stopped, stray>>
      BY <1>6, <2>1, ScheduleChangeEffect DEF At
    <3>2. QED
      BY <1>6, <2>1, <3>1, FieldTypes DEF Flags, Generations, Working, At
  <2>2. CASE ~(d.open /\ d.latest = editor)
    <3>1. /\ Supersedes(editor, vba, d.dep) /\ Cancels /\ stray' = FALSE
          /\ vba => Reserves(editor)
          /\ ~vba => index' = index
          /\ handler.at = "changing" /\ handler' \in Handler
          /\ handler'.at = "idle" /\ handler'.gen = 0
          /\ UNCHANGED <<vba, edits, editor, fired, launches, clearing, captured,
                         refreshes, shown, stopped>>
      BY <1>6, <2>2, ScheduleChangeEffect DEF At
    <3>2. QED
      BY <1>6, <2>2, <3>1, FieldTypes
      DEF Flags, Generations, Working, At, Supersedes, Reserves, Cancels
  <2>3. QED
    BY <2>1, <2>2
<1>7. CASE CloseDocument
  BY <1>7, CloseDocumentEffect, FieldTypes DEF Flags, Generations, Working, At
<1>8. CASE ClearOverlay
  BY <1>8, ClearOverlayEffect, FieldTypes DEF Flags, Generations, Working, At
<1>9. CASE CaptureOpen
  BY <1>9, CaptureOpenEffect, FieldTypes DEF Flags, Generations, Working, At
<1>10. CASE CaptureProjectReady
  BY <1>10, CaptureProjectReadyEffect, FieldTypes
  DEF Flags, Generations, Working, At, SameButTimers, SameButTimersAndPublished
<1>11. CASE ProjectFails
  BY <1>11, ProjectFailsEffect, FieldTypes
  DEF Flags, Generations, Working, At, SameButTimers, SameButTimersAndPublished
<1>12. ASSUME NEW r \in captured, Refresh(r) PROVE Generations'
  BY <1>12, RefreshEffect, FieldTypes
  DEF Flags, Generations, Working, At, Postpones, Refreshes, Cancels
<1>13. CASE Fire
  BY <1>13, FireEffect, FieldTypes
  DEF Flags, Generations, Working, At, SameButTimers, SameButTimersAndPublished
<1>14. ASSUME NEW t \in fired, DiagnosticsReady(t) PROVE Generations'
  BY <1>14, DiagnosticsReadyEffect, FieldTypes
  DEF Flags, Generations, Working, At, Readies
<1>15. CASE Launch
  BY <1>15, LaunchEffect, FieldTypes
  DEF Flags, Generations, Working, At, Launches, Launchable
<1>16. CASE AwaitPermit
  BY <1>16, AwaitPermitEffect, FieldTypes
  DEF Flags, Generations, Working, At, Moved, Finishes, FinishesWith
<1>17. CASE Body
  BY <1>17, BodyEffect, FieldTypes DEF Flags, Generations, Working, At, Moved
<1>18. CASE AwaitProject
  BY <1>18, AwaitProjectEffect, FieldTypes
  DEF Flags, Generations, Working, At, Moved, SameButTimers,
      SameButTimersAndPublished
<1>19. CASE Publish
  BY <1>19, PublishEffect, FieldTypes
  DEF Flags, Generations, Working, At, Moved, SameButPublished,
      SameButTimersAndPublished
<1>20. CASE AnalyzeDeclarations
  BY <1>20, AnalyzeDeclarationsEffect, FieldTypes
  DEF Flags, Generations, Working, At, Moved
<1>21. CASE PublishDeclarations
  BY <1>21, PublishDeclarationsEffect, FieldTypes
  DEF Flags, Generations, Working, At, Moved
<1>22. CASE RejectDeclarations
  BY <1>22, RejectDeclarationsEffect, FieldTypes
  DEF Flags, Generations, Working, At, Moved
<1>23. CASE AbandonOverlay
  BY <1>23, AbandonOverlayEffect, FieldTypes DEF Flags, Generations, Working, At, Moved
<1>24. CASE SwitchToBackground
  BY <1>24, SwitchToBackgroundEffect, FieldTypes
  DEF Flags, Generations, Working, At, Moved, Finishes, FinishesWith
<1>25. CASE AnalyzeSemantic
  BY <1>25, AnalyzeSemanticEffect, FieldTypes DEF Flags, Generations, Working, At, Moved
<1>26. CASE PublishSemantic
  BY <1>26, PublishSemanticEffect, FieldTypes DEF Flags, Generations, Working, At, Moved
<1>27. CASE RejectSemantic
  BY <1>27, RejectSemanticEffect, FieldTypes DEF Flags, Generations, Working, At, Moved
<1>28. CASE AbandonSemantic
  BY <1>28, AbandonSemanticEffect, FieldTypes DEF Flags, Generations, Working, At, Moved
<1>29. CASE Complete
  BY <1>29, CompleteEffect, FieldTypes
  DEF Flags, Generations, Working, At, Completes, OwesFollowUp
<1>30. CASE Stop
  BY <1>30, StopEffect, FieldTypes DEF Flags, Generations, Working, At, Closes, Cancels
<1>31. CASE UNCHANGED vars
  BY <1>31 DEF vars, Flags, Generations, Working, At
<1>32. QED
  BY <1>1, <1>2, <1>3, <1>4, <1>5, <1>6, <1>7, <1>8, <1>9, <1>10, <1>11, <1>12,
     <1>13, <1>14, <1>15, <1>16, <1>17, <1>18, <1>19, <1>20, <1>21, <1>22, <1>23,
     <1>24, <1>25, <1>26, <1>27, <1>28, <1>29, <1>30, <1>31
  DEF Next, Editor, System, ReadLoop, Refreshing, Ready, Worker

\* Every snapshot is one the editor made.
LEMMA SnapshotsPreserved ==
  TypeOK /\ Snapshots /\ Flags /\ [Next]_vars => Snapshots'
<1> SUFFICES ASSUME TypeOK, Snapshots, Flags, [Next]_vars PROVE Snapshots'
  OBVIOUS
<1>1. CASE DidOpen
  BY <1>1, DidOpenEffect, Fields, FieldTypes, EditLimitAssumption
  DEF Snapshots, Snapshot, At, Flags
<1>2. CASE DidChange
  BY <1>2, DidChangeEffect, Fields, FieldTypes, EditLimitAssumption
  DEF Snapshots, Snapshot, At, Flags
<1>3. CASE DidClose
  BY <1>3, DidCloseEffect, Fields, FieldTypes, EditLimitAssumption
  DEF Snapshots, Snapshot, At, Flags, Closes, Cancels, Working
<1>4. ASSUME NEW large \in BOOLEAN, OpenDiagnostics(large) PROVE Snapshots'
  <2>1. CASE d.open /\ d.latest = editor
    <3>1. /\ handler.at = "opening" /\ handler' \in Handler
          /\ handler'.at = "idle" /\ handler'.gen = 0
          /\ UNCHANGED <<vba, edits, editor, d, worker, fired, launches, index,
                         clearing, captured, refreshes, shown, stopped, stray>>
      BY <1>4, <2>1, OpenDiagnosticsEffect DEF At
    <3>2. QED
      BY <1>4, <2>1, <3>1, Fields, FieldTypes, EditLimitAssumption
      DEF Snapshots, Snapshot, At, Flags
  <2>2. CASE ~(d.open /\ d.latest = editor)
    <3>1. /\ Opens(large) /\ Cancels /\ stray' = FALSE
          /\ vba => Reserves(editor)
          /\ ~vba => index' = index
          /\ handler.at = "opening" /\ handler' \in Handler
          /\ large /\ ~vba => handler'.at = "arming" /\ handler'.gen = d.gen + 1
          /\ ~(large /\ ~vba) => handler'.at = "launching" /\ handler'.gen = handler.gen
          /\ UNCHANGED <<vba, edits, editor, fired, launches, clearing, captured,
                         refreshes, shown, stopped>>
      BY <1>4, <2>2, OpenDiagnosticsEffect DEF At
    <3>2. QED
      BY <1>4, <2>2, <3>1, Fields, FieldTypes, EditLimitAssumption
      DEF Snapshots, Snapshot, At, Flags, Opens, Reserves, Cancels, Working
  <2>3. QED
    BY <2>1, <2>2
<1>5. CASE ArmOpenDelay
  BY <1>5, ArmOpenDelayEffect, Fields, FieldTypes, EditLimitAssumption
  DEF Snapshots, Snapshot, At, Flags, SameButTimers, SameButTimersAndPublished
<1>6. CASE ScheduleChange
  <2>1. CASE d.open /\ d.latest = editor
    <3>1. /\ handler.at = "changing" /\ handler' \in Handler
          /\ handler'.at = "idle" /\ handler'.gen = 0
          /\ UNCHANGED <<vba, edits, editor, d, worker, fired, launches, index,
                         clearing, captured, refreshes, shown, stopped, stray>>
      BY <1>6, <2>1, ScheduleChangeEffect DEF At
    <3>2. QED
      BY <1>6, <2>1, <3>1, Fields, FieldTypes, EditLimitAssumption
      DEF Snapshots, Snapshot, At, Flags
  <2>2. CASE ~(d.open /\ d.latest = editor)
    <3>1. /\ Supersedes(editor, vba, d.dep) /\ Cancels /\ stray' = FALSE
          /\ vba => Reserves(editor)
          /\ ~vba => index' = index
          /\ handler.at = "changing" /\ handler' \in Handler
          /\ handler'.at = "idle" /\ handler'.gen = 0
          /\ UNCHANGED <<vba, edits, editor, fired, launches, clearing, captured,
                         refreshes, shown, stopped>>
      BY <1>6, <2>2, ScheduleChangeEffect DEF At
    <3>2. QED
      BY <1>6, <2>2, <3>1, Fields, FieldTypes, EditLimitAssumption
      DEF Snapshots, Snapshot, At, Flags, Supersedes, Reserves, Cancels, Working
  <2>3. QED
    BY <2>1, <2>2
<1>7. CASE CloseDocument
  BY <1>7, CloseDocumentEffect, Fields, FieldTypes, EditLimitAssumption
  DEF Snapshots, Snapshot, At, Flags
<1>8. CASE ClearOverlay
  BY <1>8, ClearOverlayEffect, Fields, FieldTypes, EditLimitAssumption
  DEF Snapshots, Snapshot, At, Flags
<1>9. CASE CaptureOpen
  BY <1>9, CaptureOpenEffect, Fields, FieldTypes, EditLimitAssumption
  DEF Snapshots, Snapshot, At, Flags
<1>10. CASE CaptureProjectReady
  BY <1>10, CaptureProjectReadyEffect, Fields, FieldTypes, EditLimitAssumption
  DEF Snapshots, Snapshot, At, Flags, SameButTimers, SameButTimersAndPublished
<1>11. CASE ProjectFails
  BY <1>11, ProjectFailsEffect, Fields, FieldTypes, EditLimitAssumption
  DEF Snapshots, Snapshot, At, Flags, SameButTimers, SameButTimersAndPublished
<1>12. ASSUME NEW r \in captured, Refresh(r) PROVE Snapshots'
  BY <1>12, RefreshEffect, Fields, FieldTypes, EditLimitAssumption
  DEF Snapshots, Snapshot, At, Flags, Postpones, Refreshes, Cancels, Working
<1>13. CASE Fire
  BY <1>13, FireEffect, Fields, FieldTypes, EditLimitAssumption
  DEF Snapshots, Snapshot, At, Flags, SameButTimers, SameButTimersAndPublished
<1>14. ASSUME NEW t \in fired, DiagnosticsReady(t) PROVE Snapshots'
  BY <1>14, DiagnosticsReadyEffect, Fields, FieldTypes, EditLimitAssumption
  DEF Snapshots, Snapshot, At, Flags, Readies
<1>15. CASE Launch
  BY <1>15, LaunchEffect, Fields, FieldTypes, EditLimitAssumption
  DEF Snapshots, Snapshot, At, Flags, Launches, Launchable
<1>16. CASE AwaitPermit
  BY <1>16, AwaitPermitEffect, Fields, FieldTypes, EditLimitAssumption
  DEF Snapshots, Snapshot, At, Flags, Moved, Finishes, FinishesWith
<1>17. CASE Body
  BY <1>17, BodyEffect, Fields, FieldTypes, EditLimitAssumption
  DEF Snapshots, Snapshot, At, Flags, Moved
<1>18. CASE AwaitProject
  BY <1>18, AwaitProjectEffect, Fields, FieldTypes, EditLimitAssumption
  DEF Snapshots, Snapshot, At, Flags, Moved, SameButTimers,
      SameButTimersAndPublished
<1>19. CASE Publish
  BY <1>19, PublishEffect, Fields, FieldTypes, EditLimitAssumption
  DEF Snapshots, Snapshot, At, Flags, Moved, SameButPublished,
      SameButTimersAndPublished
<1>20. CASE AnalyzeDeclarations
  BY <1>20, AnalyzeDeclarationsEffect, Fields, FieldTypes, EditLimitAssumption
  DEF Snapshots, Snapshot, At, Flags, Moved
<1>21. CASE PublishDeclarations
  BY <1>21, PublishDeclarationsEffect, Fields, FieldTypes, EditLimitAssumption
  DEF Snapshots, Snapshot, At, Flags, Moved
<1>22. CASE RejectDeclarations
  BY <1>22, RejectDeclarationsEffect, Fields, FieldTypes, EditLimitAssumption
  DEF Snapshots, Snapshot, At, Flags, Moved
<1>23. CASE AbandonOverlay
  BY <1>23, AbandonOverlayEffect, Fields, FieldTypes, EditLimitAssumption
  DEF Snapshots, Snapshot, At, Flags, Moved
<1>24. CASE SwitchToBackground
  BY <1>24, SwitchToBackgroundEffect, Fields, FieldTypes, EditLimitAssumption
  DEF Snapshots, Snapshot, At, Flags, Moved, Finishes, FinishesWith
<1>25. CASE AnalyzeSemantic
  BY <1>25, AnalyzeSemanticEffect, Fields, FieldTypes, EditLimitAssumption
  DEF Snapshots, Snapshot, At, Flags, Moved
<1>26. CASE PublishSemantic
  BY <1>26, PublishSemanticEffect, Fields, FieldTypes, EditLimitAssumption
  DEF Snapshots, Snapshot, At, Flags, Moved
<1>27. CASE RejectSemantic
  BY <1>27, RejectSemanticEffect, Fields, FieldTypes, EditLimitAssumption
  DEF Snapshots, Snapshot, At, Flags, Moved
<1>28. CASE AbandonSemantic
  BY <1>28, AbandonSemanticEffect, Fields, FieldTypes, EditLimitAssumption
  DEF Snapshots, Snapshot, At, Flags, Moved
<1>29. CASE Complete
  BY <1>29, CompleteEffect, Fields, FieldTypes, EditLimitAssumption
  DEF Snapshots, Snapshot, At, Flags, Completes, OwesFollowUp
<1>30. CASE Stop
  BY <1>30, StopEffect, Fields, FieldTypes, EditLimitAssumption
  DEF Snapshots, Snapshot, At, Flags, Closes, Cancels, Working
<1>31. CASE UNCHANGED vars
  BY <1>31 DEF vars, Snapshots, Snapshot, At, Flags
<1>32. QED
  BY <1>1, <1>2, <1>3, <1>4, <1>5, <1>6, <1>7, <1>8, <1>9, <1>10, <1>11, <1>12,
     <1>13, <1>14, <1>15, <1>16, <1>17, <1>18, <1>19, <1>20, <1>21, <1>22, <1>23,
     <1>24, <1>25, <1>26, <1>27, <1>28, <1>29, <1>30, <1>31
  DEF Next, Editor, System, ReadLoop, Refreshing, Ready, Worker

\* The full result is shown, or still to come.
LEMMA OwedPreserved ==
  TypeOK /\ Flags /\ Generations /\ Answered /\ Owed /\ [Next]_vars => Owed'
<1> SUFFICES ASSUME TypeOK, Flags, Generations, Answered, Owed, [Next]_vars PROVE Owed'
  OBVIOUS
<1>1. CASE DidOpen
  BY <1>1, DidOpenEffect, FieldTypes
  DEF Flags, Generations, Answered, Owed, Due, Final, Working, At
<1>2. CASE DidChange
  BY <1>2, DidChangeEffect, FieldTypes
  DEF Flags, Generations, Answered, Owed, Due, Final, Working, At
<1>3. CASE DidClose
  BY <1>3, DidCloseEffect, FieldTypes
  DEF Flags, Generations, Answered, Owed, Due, Final, Working, At, Closes,
      Cancels, Empty
<1>4. ASSUME NEW large \in BOOLEAN, OpenDiagnostics(large) PROVE Owed'
  <2>1. CASE d.open /\ d.latest = editor
    <3>1. /\ handler.at = "opening" /\ handler' \in Handler
          /\ handler'.at = "idle" /\ handler'.gen = 0
          /\ UNCHANGED <<vba, edits, editor, d, worker, fired, launches, index,
                         clearing, captured, refreshes, shown, stopped, stray>>
      BY <1>4, <2>1, OpenDiagnosticsEffect DEF At
    <3>2. QED
      BY <1>4, <2>1, <3>1, FieldTypes
      DEF Flags, Generations, Answered, Owed, Due, Final, Working, At
  <2>2. CASE ~(d.open /\ d.latest = editor)
    <3>1. /\ Opens(large) /\ Cancels /\ stray' = FALSE
          /\ vba => Reserves(editor)
          /\ ~vba => index' = index
          /\ handler.at = "opening" /\ handler' \in Handler
          /\ large /\ ~vba => handler'.at = "arming" /\ handler'.gen = d.gen + 1
          /\ ~(large /\ ~vba) => handler'.at = "launching" /\ handler'.gen = handler.gen
          /\ UNCHANGED <<vba, edits, editor, fired, launches, clearing, captured,
                         refreshes, shown, stopped>>
      BY <1>4, <2>2, OpenDiagnosticsEffect DEF At
    <3>2. QED
      BY <1>4, <2>2, <3>1, FieldTypes
      DEF Flags, Generations, Answered, Owed, Due, Final, Working, At, Opens,
          Reserves, Cancels
  <2>3. QED
    BY <2>1, <2>2
<1>5. CASE ArmOpenDelay
  <2>1. CASE d.open /\ d.gen = handler.gen /\ d.timer = NoTimer
    <3>1. d'.timer = FullTimer(d'.gen)
      BY <1>5, <2>1, ArmOpenDelayEffect, FieldTypes, FullTimerFields
      DEF Flags, NoTimer, SameButTimers, SameButTimersAndPublished
    <3>2. QED
      BY <3>1 DEF Owed, Due
  <2>2. CASE ~(d.open /\ d.gen = handler.gen /\ d.timer = NoTimer)
    <3>1. d' = d /\ UNCHANGED <<worker, fired, shown, stopped>> /\ At("arming")
      BY <1>5, <2>2, ArmOpenDelayEffect DEF At
    <3>2. d.open /\ Due => Due'
      BY <2>2, <3>1 DEF Generations, Due, Working
    <3>3. Final => Final'
      BY <3>1 DEF Final
    <3>4. QED
      BY <3>1, <3>2, <3>3 DEF Owed
  <2>3. QED
    BY <2>1, <2>2
<1>6. CASE ScheduleChange
  <2>1. CASE d.open /\ d.latest = editor
    <3>1. /\ handler.at = "changing" /\ handler' \in Handler
          /\ handler'.at = "idle" /\ handler'.gen = 0
          /\ UNCHANGED <<vba, edits, editor, d, worker, fired, launches, index,
                         clearing, captured, refreshes, shown, stopped, stray>>
      BY <1>6, <2>1, ScheduleChangeEffect DEF At
    <3>2. QED
      BY <1>6, <2>1, <3>1, FieldTypes
      DEF Flags, Generations, Answered, Owed, Due, Final, Working, At
  <2>2. CASE ~(d.open /\ d.latest = editor)
    <3>1. /\ Supersedes(editor, vba, d.dep) /\ Cancels /\ stray' = FALSE
          /\ vba => Reserves(editor)
          /\ ~vba => index' = index
          /\ handler.at = "changing" /\ handler' \in Handler
          /\ handler'.at = "idle" /\ handler'.gen = 0
          /\ UNCHANGED <<vba, edits, editor, fired, launches, clearing, captured,
                         refreshes, shown, stopped>>
      BY <1>6, <2>2, ScheduleChangeEffect DEF At
    <3>2. QED
      BY <1>6, <2>2, <3>1, FieldTypes
      DEF Flags, Generations, Answered, Owed, Due, Final, Working, At, Supersedes,
          Reserves, Cancels
  <2>3. QED
    BY <2>1, <2>2
<1>7. CASE CloseDocument
  BY <1>7, CloseDocumentEffect, FieldTypes
  DEF Flags, Generations, Answered, Owed, Due, Final, Working, At
<1>8. CASE ClearOverlay
  BY <1>8, ClearOverlayEffect, FieldTypes
  DEF Flags, Generations, Answered, Owed, Due, Final, Working, At
<1>9. CASE CaptureOpen
  BY <1>9, CaptureOpenEffect, FieldTypes
  DEF Flags, Generations, Answered, Owed, Due, Final, Working, At
<1>10. CASE CaptureProjectReady
  BY <1>10, CaptureProjectReadyEffect, FieldTypes
  DEF Flags, Generations, Answered, Owed, Due, Final, Working, At, SameButTimers,
      SameButTimersAndPublished
<1>11. CASE ProjectFails
  <2>1. Due => Due'
    BY <1>11, ProjectFailsEffect, FieldTypes
    DEF Flags, Generations, Due, Working, At, SameButTimers, SameButTimersAndPublished
  <2>2. Final => Final'
    BY <1>11, ProjectFailsEffect DEF Final, SameButTimers, SameButTimersAndPublished
  <2>3. QED
    BY <1>11, <2>1, <2>2, ProjectFailsEffect DEF Owed, SameButTimers, SameButTimersAndPublished
<1>12. ASSUME NEW r \in captured, Refresh(r) PROVE Owed'
  <2>1. CASE stopped # "no"
    <3>1. /\ captured' = captured \ {r}
          /\ UNCHANGED <<vba, edits, editor, handler, d, worker, fired, launches,
                         index, clearing, refreshes, shown, stopped, stray>>
      BY <1>12, <2>1, RefreshEffect DEF At
    <3>2. QED
      BY <1>12, <2>1, <3>1, FieldTypes
      DEF Flags, Generations, Answered, Owed, Due, Final, Working, At
  <2>2. CASE stopped = "no" /\ (d.buildOverlay \/ (d.running /\ d.runningOverlay))
    <3>1. /\ Postpones /\ captured' = captured \ {r}
          /\ UNCHANGED <<vba, edits, editor, handler, worker, fired, launches, index,
                         clearing, refreshes, shown, stopped, stray>>
      BY <1>12, <2>2, RefreshEffect DEF At
    <3>2. QED
      BY <1>12, <2>2, <3>1, FieldTypes
      DEF Flags, Generations, Answered, Owed, Due, Final, Working, At, Postpones
  <2>3. CASE stopped = "no" /\ ~(d.buildOverlay \/ (d.running /\ d.runningOverlay))
    <3>1. /\ Refreshes(r.doc) /\ Cancels /\ captured' = captured \ {r}
          /\ r.doc \in Snapshot
          /\ stray' \in BOOLEAN /\ (stray' <=> (stray \/ r.doc # d.latest))
          /\ UNCHANGED <<vba, edits, editor, handler, fired, launches, index, clearing,
                         refreshes, shown, stopped>>
      BY <1>12, <2>3, RefreshEffect DEF At
    <3>2. QED
      BY <1>12, <2>3, <3>1, FieldTypes
      DEF Flags, Generations, Answered, Owed, Due, Final, Working, At, Refreshes,
          Cancels
  <2>4. QED
    BY <2>1, <2>2, <2>3
<1>13. CASE Fire
  <2>1. d.open => FullTimer(d.gen) # NoTimer
    BY FieldTypes, FullTimerFields DEF Flags, NoTimer
  <2>2. d.open /\ Due => Due'
    BY <1>13, <2>1, FireEffect DEF Due, Working, At, SameButTimers, SameButTimersAndPublished
  <2>3. Final => Final'
    BY <1>13, FireEffect DEF Final, SameButTimers, SameButTimersAndPublished
  <2>4. QED
    BY <1>13, <2>2, <2>3, FireEffect DEF Owed, SameButTimers, SameButTimersAndPublished
<1>14. ASSUME NEW t \in fired, DiagnosticsReady(t) PROVE Owed'
  <2>1. CASE ~(d.open /\ d.gen = t.gen)
    <3>1. /\ fired' = fired \ {t}
          /\ UNCHANGED <<vba, edits, editor, handler, d, worker, launches, index,
                         clearing, captured, refreshes, shown, stopped, stray>>
      BY <1>14, <2>1, DiagnosticsReadyEffect DEF At
    <3>2. QED
      BY <1>14, <2>1, <3>1, FieldTypes, FullTimerFields
      DEF Flags, Generations, Answered, Owed, Due, Final, Working, At
  <2>2. CASE d.open /\ d.gen = t.gen
    <3>1. /\ Readies(t) /\ fired' = fired \ {t}
          /\ UNCHANGED <<vba, edits, editor, handler, worker, index, clearing,
                         captured, refreshes, shown, stopped, stray>>
      BY <1>14, <2>2, DiagnosticsReadyEffect DEF At
    <3>2. QED
      BY <1>14, <2>2, <3>1, FieldTypes, FullTimerFields
      DEF Flags, Generations, Answered, Owed, Due, Final, Working, At, Readies
  <2>3. QED
    BY <2>1, <2>2
<1>15. CASE Launch
  <2>1. CASE Launchable
    <3>1. /\ Launches
          /\ \/ launches > 0 /\ launches' = launches - 1 /\ handler' = handler
             \/ handler.at = "launching" /\ launches' = launches /\ handler' \in Handler
                /\ handler'.at = "idle" /\ handler'.gen = 0
          /\ UNCHANGED <<vba, edits, editor, fired, index, clearing, captured,
                         refreshes, shown, stopped, stray>>
      BY <1>15, <2>1, LaunchEffect DEF At
    <3>2. QED
      BY <1>15, <2>1, <3>1, FieldTypes
      DEF Flags, Generations, Answered, Owed, Due, Final, Working, At, Launches,
          Launchable
  <2>2. CASE ~Launchable
    <3>1. /\ \/ launches > 0 /\ launches' = launches - 1 /\ handler' = handler
             \/ handler.at = "launching" /\ launches' = launches /\ handler' \in Handler
                /\ handler'.at = "idle" /\ handler'.gen = 0
          /\ UNCHANGED <<vba, edits, editor, d, worker, fired, index, clearing,
                         captured, refreshes, shown, stopped, stray>>
      BY <1>15, <2>2, LaunchEffect DEF At
    <3>2. QED
      BY <1>15, <2>2, <3>1, FieldTypes
      DEF Flags, Generations, Answered, Owed, Due, Final, Working, At, Launchable
  <2>3. QED
    BY <2>1, <2>2
<1>16. CASE AwaitPermit
  <2>1. CASE worker.canceled
    <3>1. /\ Finishes /\ worker.at = "acquire" /\ worker.canceled
          /\ UNCHANGED <<vba, edits, editor, handler, fired, index, clearing, captured,
                         refreshes, shown, stopped, stray>>
      BY <1>16, <2>1, AwaitPermitEffect DEF At
    <3>2. QED
      BY <1>16, <2>1, <3>1, FieldTypes
      DEF Flags, Generations, Answered, Owed, Due, Final, Working, At, Mode, Finishes,
          FinishesWith
  <2>2. CASE ~worker.canceled
    <3>1. /\ worker.at = "acquire" /\ ~worker.canceled /\ Moved
          /\ worker'.dep = worker.dep
          /\ worker.mode = "fast" => worker'.at = "body"
          /\ worker.mode = "full" /\ worker.overlay => worker'.at = "overlay"
          /\ worker.mode = "full" /\ ~worker.overlay => worker'.at = "switchFull"
          /\ UNCHANGED <<vba, edits, editor, handler, d, fired, launches, index,
                         clearing, captured, refreshes, shown, stopped, stray>>
      BY <1>16, <2>2, AwaitPermitEffect DEF At
    <3>2. QED
      BY <1>16, <2>2, <3>1, FieldTypes
      DEF Flags, Generations, Answered, Owed, Due, Final, Working, At, Mode, Moved
  <2>3. QED
    BY <2>1, <2>2
<1>17. CASE Body
  BY <1>17, BodyEffect, FieldTypes
  DEF Flags, Generations, Answered, Owed, Due, Final, Working, At, Moved
<1>18. CASE AwaitProject
  <2>1. Due => Due'
    BY <1>18, AwaitProjectEffect, FieldTypes
    DEF Flags, Generations, Due, Working, At, Moved, SameButTimers, SameButTimersAndPublished
  <2>2. Final => Final'
    BY <1>18, AwaitProjectEffect DEF Final, Moved, SameButTimers, SameButTimersAndPublished
  <2>3. QED
    BY <1>18, <2>1, <2>2, AwaitProjectEffect
    DEF Owed, Moved, SameButTimers, SameButTimersAndPublished
<1>19. CASE Publish
  <2>1. CASE Discarded
    <3>1. /\ worker.at = "analyzing" /\ Moved
          /\ worker'.at \in {"overlay", "complete"}
          /\ worker'.at = "overlay" <=>
                 worker.mode = "fast" /\ worker.overlay /\ ~worker.canceled
          /\ UNCHANGED <<vba, edits, editor, handler, d, fired, launches, index,
                         clearing, captured, refreshes, shown, stopped, stray>>
      BY <1>19, <2>1, PublishEffect DEF At
    <3>2. QED
      BY <1>19, <2>1, <3>1, FieldTypes
      DEF Flags, Generations, Answered, Owed, Due, Final, Working, At, Mode, Moved,
          Discarded
  <2>2. CASE ~Discarded
    <3>1. /\ worker.at = "analyzing" /\ Moved /\ worker'.at \in {"overlay", "complete"}
          /\ worker'.at = "overlay" <=>
                 worker.mode = "fast" /\ worker.overlay /\ ~worker.canceled
          /\ shown' = [doc |-> worker.doc, mode |-> worker.mode, dep |-> worker.dep,
                       gen |-> worker.gen]
          /\ SameButPublished /\ d'.published = worker.mode
          /\ UNCHANGED <<vba, edits, editor, handler, fired, launches, index, clearing,
                         captured, refreshes, stopped, stray>>
      BY <1>19, <2>2, PublishEffect DEF At
    <3>2. QED
      BY <1>19, <2>2, <3>1, FieldTypes
      DEF Flags, Generations, Answered, Owed, Due, Final, Working, At, Mode, Moved,
          Discarded, SameButPublished, SameButTimersAndPublished
  <2>3. QED
    BY <2>1, <2>2
<1>20. CASE AnalyzeDeclarations
  BY <1>20, AnalyzeDeclarationsEffect, FieldTypes
  DEF Flags, Generations, Answered, Owed, Due, Final, Working, At, Moved
<1>21. CASE PublishDeclarations
  BY <1>21, PublishDeclarationsEffect, FieldTypes
  DEF Flags, Generations, Answered, Owed, Due, Final, Working, At, Moved
<1>22. CASE RejectDeclarations
  BY <1>22, RejectDeclarationsEffect, FieldTypes
  DEF Flags, Generations, Answered, Owed, Due, Final, Working, At, Moved
<1>23. CASE AbandonOverlay
  BY <1>23, AbandonOverlayEffect, FieldTypes
  DEF Flags, Generations, Answered, Owed, Due, Final, Working, At, Moved
<1>24. CASE SwitchToBackground
  <2>1. CASE worker.canceled /\ Finishes
    <3>1. /\ worker.at \in {"switch", "switchFull"} /\ worker.canceled
          /\ UNCHANGED <<vba, edits, editor, handler, fired, index, clearing, captured,
                         refreshes, shown, stopped, stray>>
      BY <1>24, <2>1, SwitchToBackgroundEffect DEF At
    <3>2. QED
      BY <1>24, <2>1, <3>1, FieldTypes
      DEF Flags, Generations, Answered, Owed, Due, Final, Working, At, Finishes,
          FinishesWith
  <2>2. CASE ~(worker.canceled /\ Finishes)
    <3>1. /\ Moved /\ worker'.dep = worker.dep
          /\ \/ worker.at = "switch" /\ worker'.at = "semantic"
             \/ worker.at = "switchFull" /\ worker'.at = "body"
          /\ UNCHANGED <<vba, edits, editor, handler, d, fired, launches, index,
                         clearing, captured, refreshes, shown, stopped, stray>>
      BY <1>24, <2>2, SwitchToBackgroundEffect DEF At
    <3>2. QED
      BY <1>24, <2>2, <3>1, FieldTypes
      DEF Flags, Generations, Answered, Owed, Due, Final, Working, At, Moved
  <2>3. QED
    BY <2>1, <2>2
<1>25. CASE AnalyzeSemantic
  BY <1>25, AnalyzeSemanticEffect, FieldTypes
  DEF Flags, Generations, Answered, Owed, Due, Final, Working, At, Moved
<1>26. CASE PublishSemantic
  BY <1>26, PublishSemanticEffect, FieldTypes
  DEF Flags, Generations, Answered, Owed, Due, Final, Working, At, Moved
<1>27. CASE RejectSemantic
  BY <1>27, RejectSemanticEffect, FieldTypes
  DEF Flags, Generations, Answered, Owed, Due, Final, Working, At, Moved
<1>28. CASE AbandonSemantic
  BY <1>28, AbandonSemanticEffect, FieldTypes
  DEF Flags, Generations, Answered, Owed, Due, Final, Working, At, Moved
<1>29. CASE Complete
  <2>1. CASE OwesFollowUp
    <3>1. /\ worker.at = "complete" /\ Completes
          /\ UNCHANGED <<vba, edits, editor, handler, fired, index, clearing, captured,
                         refreshes, shown, stopped, stray>>
      BY <1>29, <2>1, CompleteEffect DEF At
    <3>2. QED
      BY <1>29, <2>1, <3>1, FieldTypes
      DEF Flags, Generations, Answered, Owed, Due, Final, Working, At, Completes,
          OwesFollowUp
  <2>2. CASE ~OwesFollowUp
    <3>1. /\ worker.at = "complete" /\ Completes
          /\ UNCHANGED <<vba, edits, editor, handler, fired, index, clearing, captured,
                         refreshes, shown, stopped, stray>>
      BY <1>29, <2>2, CompleteEffect DEF At
    <3>2. QED
      BY <1>29, <2>2, <3>1, FieldTypes
      DEF Flags, Generations, Answered, Owed, Due, Final, Working, At, Completes,
          OwesFollowUp
  <2>3. QED
    BY <2>1, <2>2
<1>30. CASE Stop
  BY <1>30, StopEffect, FieldTypes
  DEF Flags, Generations, Answered, Owed, Due, Final, Working, At, Closes, Cancels
<1>31. CASE UNCHANGED vars
  BY <1>31 DEF vars, Flags, Generations, Answered, Owed, Due, Final, Working, At
<1>32. QED
  BY <1>1, <1>2, <1>3, <1>4, <1>5, <1>6, <1>7, <1>8, <1>9, <1>10, <1>11, <1>12,
     <1>13, <1>14, <1>15, <1>16, <1>17, <1>18, <1>19, <1>20, <1>21, <1>22, <1>23,
     <1>24, <1>25, <1>26, <1>27, <1>28, <1>29, <1>30, <1>31
  DEF Next, Editor, System, ReadLoop, Refreshing, Ready, Worker

\* A full result that is shown has been accounted for.
LEMMA AnsweredPreserved ==
  TypeOK /\ Flags /\ Generations /\ Answered /\ [Next]_vars => Answered'
<1> SUFFICES ASSUME TypeOK, Flags, Generations, Answered, [Next]_vars PROVE Answered'
  OBVIOUS
<1>1. CASE DidOpen
  BY <1>1, DidOpenEffect, FieldTypes DEF Flags, Generations, Answered, Working
<1>2. CASE DidChange
  BY <1>2, DidChangeEffect, FieldTypes DEF Flags, Generations, Answered, Working
<1>3. CASE DidClose
  BY <1>3, DidCloseEffect, FieldTypes
  DEF Flags, Generations, Answered, Working, Closes, Cancels, Empty
<1>4. ASSUME NEW large \in BOOLEAN, OpenDiagnostics(large) PROVE Answered'
  <2>1. CASE d.open /\ d.latest = editor
    <3>1. /\ handler.at = "opening" /\ handler' \in Handler
          /\ handler'.at = "idle" /\ handler'.gen = 0
          /\ UNCHANGED <<vba, edits, editor, d, worker, fired, launches, index,
                         clearing, captured, refreshes, shown, stopped, stray>>
      BY <1>4, <2>1, OpenDiagnosticsEffect DEF At
    <3>2. QED
      BY <1>4, <2>1, <3>1, FieldTypes DEF Flags, Generations, Answered, Working
  <2>2. CASE ~(d.open /\ d.latest = editor)
    <3>1. /\ Opens(large) /\ Cancels /\ stray' = FALSE
          /\ vba => Reserves(editor)
          /\ ~vba => index' = index
          /\ handler.at = "opening" /\ handler' \in Handler
          /\ large /\ ~vba => handler'.at = "arming" /\ handler'.gen = d.gen + 1
          /\ ~(large /\ ~vba) => handler'.at = "launching" /\ handler'.gen = handler.gen
          /\ UNCHANGED <<vba, edits, editor, fired, launches, clearing, captured,
                         refreshes, shown, stopped>>
      BY <1>4, <2>2, OpenDiagnosticsEffect DEF At
    <3>2. QED
      BY <1>4, <2>2, <3>1, FieldTypes
      DEF Flags, Generations, Answered, Working, Opens, Reserves, Cancels
  <2>3. QED
    BY <2>1, <2>2
<1>5. CASE ArmOpenDelay
  BY <1>5, ArmOpenDelayEffect, FieldTypes
  DEF Flags, Generations, Answered, Working, SameButTimers,
      SameButTimersAndPublished
<1>6. CASE ScheduleChange
  <2>1. CASE d.open /\ d.latest = editor
    <3>1. /\ handler.at = "changing" /\ handler' \in Handler
          /\ handler'.at = "idle" /\ handler'.gen = 0
          /\ UNCHANGED <<vba, edits, editor, d, worker, fired, launches, index,
                         clearing, captured, refreshes, shown, stopped, stray>>
      BY <1>6, <2>1, ScheduleChangeEffect DEF At
    <3>2. QED
      BY <1>6, <2>1, <3>1, FieldTypes DEF Flags, Generations, Answered, Working
  <2>2. CASE ~(d.open /\ d.latest = editor)
    <3>1. /\ Supersedes(editor, vba, d.dep) /\ Cancels /\ stray' = FALSE
          /\ vba => Reserves(editor)
          /\ ~vba => index' = index
          /\ handler.at = "changing" /\ handler' \in Handler
          /\ handler'.at = "idle" /\ handler'.gen = 0
          /\ UNCHANGED <<vba, edits, editor, fired, launches, clearing, captured,
                         refreshes, shown, stopped>>
      BY <1>6, <2>2, ScheduleChangeEffect DEF At
    <3>2. QED
      BY <1>6, <2>2, <3>1, FieldTypes
      DEF Flags, Generations, Answered, Working, Supersedes, Reserves, Cancels
  <2>3. QED
    BY <2>1, <2>2
<1>7. CASE CloseDocument
  BY <1>7, CloseDocumentEffect, FieldTypes DEF Flags, Generations, Answered, Working
<1>8. CASE ClearOverlay
  BY <1>8, ClearOverlayEffect, FieldTypes DEF Flags, Generations, Answered, Working
<1>9. CASE CaptureOpen
  BY <1>9, CaptureOpenEffect, FieldTypes DEF Flags, Generations, Answered, Working
<1>10. CASE CaptureProjectReady
  BY <1>10, CaptureProjectReadyEffect, FieldTypes
  DEF Flags, Generations, Answered, Working, SameButTimers,
      SameButTimersAndPublished
<1>11. CASE ProjectFails
  BY <1>11, ProjectFailsEffect, FieldTypes
  DEF Flags, Generations, Answered, Working, SameButTimers,
      SameButTimersAndPublished
<1>12. ASSUME NEW r \in captured, Refresh(r) PROVE Answered'
  BY <1>12, RefreshEffect, FieldTypes
  DEF Flags, Generations, Answered, Working, Postpones, Refreshes, Cancels
<1>13. CASE Fire
  BY <1>13, FireEffect, FieldTypes
  DEF Flags, Generations, Answered, Working, SameButTimers,
      SameButTimersAndPublished
<1>14. ASSUME NEW t \in fired, DiagnosticsReady(t) PROVE Answered'
  BY <1>14, DiagnosticsReadyEffect, FieldTypes
  DEF Flags, Generations, Answered, Working, Readies
<1>15. CASE Launch
  BY <1>15, LaunchEffect, FieldTypes
  DEF Flags, Generations, Answered, Working, Launches, Launchable
<1>16. CASE AwaitPermit
  <2>1. CASE worker.canceled
    <3>1. /\ Finishes /\ worker.at = "acquire" /\ worker.canceled
          /\ UNCHANGED <<vba, edits, editor, handler, fired, index, clearing, captured,
                         refreshes, shown, stopped, stray>>
      BY <1>16, <2>1, AwaitPermitEffect DEF At
    <3>2. QED
      BY <1>16, <2>1, <3>1, FieldTypes
      DEF Flags, Generations, Answered, Working, Mode, Finishes, FinishesWith
  <2>2. CASE ~worker.canceled
    <3>1. /\ worker.at = "acquire" /\ ~worker.canceled /\ Moved
          /\ worker'.dep = worker.dep
          /\ worker.mode = "fast" => worker'.at = "body"
          /\ worker.mode = "full" /\ worker.overlay => worker'.at = "overlay"
          /\ worker.mode = "full" /\ ~worker.overlay => worker'.at = "switchFull"
          /\ UNCHANGED <<vba, edits, editor, handler, d, fired, launches, index,
                         clearing, captured, refreshes, shown, stopped, stray>>
      BY <1>16, <2>2, AwaitPermitEffect DEF At
    <3>2. QED
      BY <1>16, <2>2, <3>1, FieldTypes
      DEF Flags, Generations, Answered, Working, Mode, Moved
  <2>3. QED
    BY <2>1, <2>2
<1>17. CASE Body
  BY <1>17, BodyEffect, FieldTypes DEF Flags, Generations, Answered, Working, Moved
<1>18. CASE AwaitProject
  BY <1>18, AwaitProjectEffect, FieldTypes
  DEF Flags, Generations, Answered, Working, Moved, SameButTimers,
      SameButTimersAndPublished
<1>19. CASE Publish
  BY <1>19, PublishEffect, FieldTypes
  DEF Flags, Generations, Answered, Working, Moved, SameButPublished,
      SameButTimersAndPublished, Discarded
<1>20. CASE AnalyzeDeclarations
  BY <1>20, AnalyzeDeclarationsEffect, FieldTypes
  DEF Flags, Generations, Answered, Working, Moved
<1>21. CASE PublishDeclarations
  BY <1>21, PublishDeclarationsEffect, FieldTypes
  DEF Flags, Generations, Answered, Working, Moved
<1>22. CASE RejectDeclarations
  BY <1>22, RejectDeclarationsEffect, FieldTypes
  DEF Flags, Generations, Answered, Working, Moved
<1>23. CASE AbandonOverlay
  BY <1>23, AbandonOverlayEffect, FieldTypes
  DEF Flags, Generations, Answered, Working, Moved
<1>24. CASE SwitchToBackground
  BY <1>24, SwitchToBackgroundEffect, FieldTypes
  DEF Flags, Generations, Answered, Working, Moved, Finishes, FinishesWith
<1>25. CASE AnalyzeSemantic
  BY <1>25, AnalyzeSemanticEffect, FieldTypes
  DEF Flags, Generations, Answered, Working, Moved
<1>26. CASE PublishSemantic
  BY <1>26, PublishSemanticEffect, FieldTypes
  DEF Flags, Generations, Answered, Working, Moved
<1>27. CASE RejectSemantic
  BY <1>27, RejectSemanticEffect, FieldTypes
  DEF Flags, Generations, Answered, Working, Moved
<1>28. CASE AbandonSemantic
  BY <1>28, AbandonSemanticEffect, FieldTypes
  DEF Flags, Generations, Answered, Working, Moved
<1>29. CASE Complete
  BY <1>29, CompleteEffect, FieldTypes
  DEF Flags, Generations, Answered, Working, Completes, OwesFollowUp
<1>30. CASE Stop
  BY <1>30, StopEffect, FieldTypes
  DEF Flags, Generations, Answered, Working, Closes, Cancels
<1>31. CASE UNCHANGED vars
  BY <1>31 DEF vars, Flags, Generations, Answered, Working
<1>32. QED
  BY <1>1, <1>2, <1>3, <1>4, <1>5, <1>6, <1>7, <1>8, <1>9, <1>10, <1>11, <1>12,
     <1>13, <1>14, <1>15, <1>16, <1>17, <1>18, <1>19, <1>20, <1>21, <1>22, <1>23,
     <1>24, <1>25, <1>26, <1>27, <1>28, <1>29, <1>30, <1>31
  DEF Next, Editor, System, ReadLoop, Refreshing, Ready, Worker

\* The state follows the editor.
LEMMA ToldPreserved ==
  TypeOK /\ Flags /\ Generations /\ Snapshots /\ Told /\ [Next]_vars => Told'
<1> SUFFICES ASSUME TypeOK, Flags, Generations, Snapshots, Told, [Next]_vars PROVE Told'
  OBVIOUS
<1>1. CASE DidOpen
  BY <1>1, DidOpenEffect, FieldTypes, Fields, EditLimitAssumption
  DEF Flags, Snapshots, Told, At, Snapshot
<1>2. CASE DidChange
  BY <1>2, DidChangeEffect, FieldTypes, Fields, EditLimitAssumption
  DEF Flags, Snapshots, Told, At, Snapshot
<1>3. CASE DidClose
  BY <1>3, DidCloseEffect, FieldTypes
  DEF Flags, Snapshots, Told, At, Closes, Cancels, Working
<1>4. ASSUME NEW large \in BOOLEAN, OpenDiagnostics(large) PROVE Told'
  <2>1. CASE d.open /\ d.latest = editor
    <3>1. /\ handler.at = "opening" /\ handler' \in Handler
          /\ handler'.at = "idle" /\ handler'.gen = 0
          /\ UNCHANGED <<vba, edits, editor, d, worker, fired, launches, index,
                         clearing, captured, refreshes, shown, stopped, stray>>
      BY <1>4, <2>1, OpenDiagnosticsEffect DEF At
    <3>2. QED
      BY <1>4, <2>1, <3>1, FieldTypes DEF Flags, Snapshots, Told, At
  <2>2. CASE ~(d.open /\ d.latest = editor)
    <3>1. /\ Opens(large) /\ Cancels /\ stray' = FALSE
          /\ vba => Reserves(editor)
          /\ ~vba => index' = index
          /\ handler.at = "opening" /\ handler' \in Handler
          /\ large /\ ~vba => handler'.at = "arming" /\ handler'.gen = d.gen + 1
          /\ ~(large /\ ~vba) => handler'.at = "launching" /\ handler'.gen = handler.gen
          /\ UNCHANGED <<vba, edits, editor, fired, launches, clearing, captured,
                         refreshes, shown, stopped>>
      BY <1>4, <2>2, OpenDiagnosticsEffect DEF At
    <3>2. QED
      BY <1>4, <2>2, <3>1, FieldTypes
      DEF Flags, Snapshots, Told, At, Opens, Reserves, Cancels, Working
  <2>3. QED
    BY <2>1, <2>2
<1>5. CASE ArmOpenDelay
  BY <1>5, ArmOpenDelayEffect, FieldTypes
  DEF Flags, Snapshots, Told, At, SameButTimers, SameButTimersAndPublished
<1>6. CASE ScheduleChange
  <2>1. CASE d.open /\ d.latest = editor
    <3>1. /\ handler.at = "changing" /\ handler' \in Handler
          /\ handler'.at = "idle" /\ handler'.gen = 0
          /\ UNCHANGED <<vba, edits, editor, d, worker, fired, launches, index,
                         clearing, captured, refreshes, shown, stopped, stray>>
      BY <1>6, <2>1, ScheduleChangeEffect DEF At
    <3>2. QED
      BY <1>6, <2>1, <3>1, FieldTypes DEF Flags, Snapshots, Told, At
  <2>2. CASE ~(d.open /\ d.latest = editor)
    <3>1. /\ Supersedes(editor, vba, d.dep) /\ Cancels /\ stray' = FALSE
          /\ vba => Reserves(editor)
          /\ ~vba => index' = index
          /\ handler.at = "changing" /\ handler' \in Handler
          /\ handler'.at = "idle" /\ handler'.gen = 0
          /\ UNCHANGED <<vba, edits, editor, fired, launches, clearing, captured,
                         refreshes, shown, stopped>>
      BY <1>6, <2>2, ScheduleChangeEffect DEF At
    <3>2. QED
      BY <1>6, <2>2, <3>1, FieldTypes
      DEF Flags, Snapshots, Told, At, Supersedes, Reserves, Cancels, Working
  <2>3. QED
    BY <2>1, <2>2
<1>7. CASE CloseDocument
  BY <1>7, CloseDocumentEffect, FieldTypes DEF Flags, Snapshots, Told, At
<1>8. CASE ClearOverlay
  BY <1>8, ClearOverlayEffect, FieldTypes DEF Flags, Snapshots, Told, At
<1>9. CASE CaptureOpen
  BY <1>9, CaptureOpenEffect, FieldTypes DEF Flags, Snapshots, Told, At
<1>10. CASE CaptureProjectReady
  BY <1>10, CaptureProjectReadyEffect, FieldTypes
  DEF Flags, Snapshots, Told, At, SameButTimers, SameButTimersAndPublished
<1>11. CASE ProjectFails
  BY <1>11, ProjectFailsEffect, FieldTypes
  DEF Flags, Snapshots, Told, At, SameButTimers, SameButTimersAndPublished
<1>12. ASSUME NEW r \in captured, Refresh(r) PROVE Told'
  <2>1. CASE stopped # "no"
    <3>1. /\ captured' = captured \ {r}
          /\ UNCHANGED <<vba, edits, editor, handler, d, worker, fired, launches,
                         index, clearing, refreshes, shown, stopped, stray>>
      BY <1>12, <2>1, RefreshEffect DEF At
    <3>2. QED
      BY <1>12, <2>1, <3>1, FieldTypes DEF Flags, Snapshots, Told, At
  <2>2. CASE stopped = "no" /\ (d.buildOverlay \/ (d.running /\ d.runningOverlay))
    <3>1. /\ Postpones /\ captured' = captured \ {r}
          /\ UNCHANGED <<vba, edits, editor, handler, worker, fired, launches, index,
                         clearing, refreshes, shown, stopped, stray>>
      BY <1>12, <2>2, RefreshEffect DEF At
    <3>2. QED
      BY <1>12, <2>2, <3>1, FieldTypes DEF Flags, Snapshots, Told, At, Postpones
  <2>3. CASE stopped = "no" /\ ~(d.buildOverlay \/ (d.running /\ d.runningOverlay))
    <3>1. /\ Refreshes(r.doc) /\ Cancels /\ captured' = captured \ {r}
          /\ r.doc \in Snapshot
          /\ stray' \in BOOLEAN /\ (stray' <=> (stray \/ r.doc # d.latest))
          /\ UNCHANGED <<vba, edits, editor, handler, fired, launches, index, clearing,
                         refreshes, shown, stopped>>
      BY <1>12, <2>3, RefreshEffect DEF At
    <3>2. /\ r.doc # 0 /\ d'.open /\ d'.latest = r.doc
          /\ ~stray' => ~stray /\ r.doc = d.latest
      BY <1>12, <3>1, FieldTypes DEF Snapshots, Refreshes, Snapshot
    <3>3. QED
      BY <2>3, <3>1, <3>2, FieldTypes DEF Flags, Told, At
  <2>4. QED
    BY <2>1, <2>2, <2>3
<1>13. CASE Fire
  BY <1>13, FireEffect, FieldTypes
  DEF Flags, Snapshots, Told, At, SameButTimers, SameButTimersAndPublished
<1>14. ASSUME NEW t \in fired, DiagnosticsReady(t) PROVE Told'
  BY <1>14, DiagnosticsReadyEffect, FieldTypes DEF Flags, Snapshots, Told, At, Readies
<1>15. CASE Launch
  BY <1>15, LaunchEffect, FieldTypes
  DEF Flags, Snapshots, Told, At, Launches, Launchable
<1>16. CASE AwaitPermit
  BY <1>16, AwaitPermitEffect, FieldTypes
  DEF Flags, Snapshots, Told, At, Moved, Finishes, FinishesWith
<1>17. CASE Body
  BY <1>17, BodyEffect, FieldTypes DEF Flags, Snapshots, Told, At, Moved
<1>18. CASE AwaitProject
  BY <1>18, AwaitProjectEffect, FieldTypes
  DEF Flags, Snapshots, Told, At, Moved, SameButTimers, SameButTimersAndPublished
<1>19. CASE Publish
  BY <1>19, PublishEffect, FieldTypes
  DEF Flags, Snapshots, Told, At, Moved, SameButPublished,
      SameButTimersAndPublished, Discarded
<1>20. CASE AnalyzeDeclarations
  BY <1>20, AnalyzeDeclarationsEffect, FieldTypes DEF Flags, Snapshots, Told, At, Moved
<1>21. CASE PublishDeclarations
  BY <1>21, PublishDeclarationsEffect, FieldTypes DEF Flags, Snapshots, Told, At, Moved
<1>22. CASE RejectDeclarations
  BY <1>22, RejectDeclarationsEffect, FieldTypes DEF Flags, Snapshots, Told, At, Moved
<1>23. CASE AbandonOverlay
  BY <1>23, AbandonOverlayEffect, FieldTypes DEF Flags, Snapshots, Told, At, Moved
<1>24. CASE SwitchToBackground
  BY <1>24, SwitchToBackgroundEffect, FieldTypes
  DEF Flags, Snapshots, Told, At, Moved, Finishes, FinishesWith
<1>25. CASE AnalyzeSemantic
  BY <1>25, AnalyzeSemanticEffect, FieldTypes DEF Flags, Snapshots, Told, At, Moved
<1>26. CASE PublishSemantic
  BY <1>26, PublishSemanticEffect, FieldTypes DEF Flags, Snapshots, Told, At, Moved
<1>27. CASE RejectSemantic
  BY <1>27, RejectSemanticEffect, FieldTypes DEF Flags, Snapshots, Told, At, Moved
<1>28. CASE AbandonSemantic
  BY <1>28, AbandonSemanticEffect, FieldTypes DEF Flags, Snapshots, Told, At, Moved
<1>29. CASE Complete
  BY <1>29, CompleteEffect, FieldTypes
  DEF Flags, Snapshots, Told, At, Completes, OwesFollowUp
<1>30. CASE Stop
  BY <1>30, StopEffect, FieldTypes
  DEF Flags, Snapshots, Told, At, Closes, Cancels, Working
<1>31. CASE UNCHANGED vars
  BY <1>31 DEF vars, Flags, Snapshots, Told, At
<1>32. QED
  BY <1>1, <1>2, <1>3, <1>4, <1>5, <1>6, <1>7, <1>8, <1>9, <1>10, <1>11, <1>12,
     <1>13, <1>14, <1>15, <1>16, <1>17, <1>18, <1>19, <1>20, <1>21, <1>22, <1>23,
     <1>24, <1>25, <1>26, <1>27, <1>28, <1>29, <1>30, <1>31
  DEF Next, Editor, System, ReadLoop, Refreshing, Ready, Worker

\* The overlay in the index is that of its generation.
LEMMA OverlaysPreserved ==
  TypeOK /\ Flags /\ Generations /\ Snapshots /\ Told /\ Overlays /\ [Next]_vars => Overlays'
<1> SUFFICES ASSUME TypeOK, Flags, Generations, Snapshots, Told, Overlays, [Next]_vars
             PROVE Overlays'
  OBVIOUS
<1>1. CASE DidOpen
  BY <1>1, DidOpenEffect, FieldTypes, Fields, EditLimitAssumption
  DEF Flags, Generations, Snapshots, Told, Overlays, Working, At, Snapshot
<1>2. CASE DidChange
  BY <1>2, DidChangeEffect, FieldTypes, Fields, EditLimitAssumption
  DEF Flags, Generations, Snapshots, Told, Overlays, Working, At, Snapshot
<1>3. CASE DidClose
  BY <1>3, DidCloseEffect, FieldTypes
  DEF Flags, Generations, Snapshots, Told, Overlays, Working, At, Closes, Cancels
<1>4. ASSUME NEW large \in BOOLEAN, OpenDiagnostics(large) PROVE Overlays'
  <2>1. CASE d.open /\ d.latest = editor
    <3>1. /\ handler.at = "opening" /\ handler' \in Handler
          /\ handler'.at = "idle" /\ handler'.gen = 0
          /\ UNCHANGED <<vba, edits, editor, d, worker, fired, launches, index,
                         clearing, captured, refreshes, shown, stopped, stray>>
      BY <1>4, <2>1, OpenDiagnosticsEffect DEF At
    <3>2. QED
      BY <1>4, <2>1, <3>1, FieldTypes
      DEF Flags, Generations, Snapshots, Told, Overlays, Working, At
  <2>2. CASE ~(d.open /\ d.latest = editor)
    <3>1. /\ Opens(large) /\ Cancels /\ stray' = FALSE
          /\ vba => Reserves(editor)
          /\ ~vba => index' = index
          /\ handler.at = "opening" /\ handler' \in Handler
          /\ large /\ ~vba => handler'.at = "arming" /\ handler'.gen = d.gen + 1
          /\ ~(large /\ ~vba) => handler'.at = "launching" /\ handler'.gen = handler.gen
          /\ UNCHANGED <<vba, edits, editor, fired, launches, clearing, captured,
                         refreshes, shown, stopped>>
      BY <1>4, <2>2, OpenDiagnosticsEffect DEF At
    <3>2. QED
      BY <1>4, <2>2, <3>1, FieldTypes
      DEF Flags, Generations, Snapshots, Told, Overlays, Working, At, Opens, Reserves,
          Cancels
  <2>3. QED
    BY <2>1, <2>2
<1>5. CASE ArmOpenDelay
  BY <1>5, ArmOpenDelayEffect, FieldTypes
  DEF Flags, Generations, Snapshots, Told, Overlays, Working, At, SameButTimers,
      SameButTimersAndPublished
<1>6. CASE ScheduleChange
  <2>1. CASE d.open /\ d.latest = editor
    <3>1. /\ handler.at = "changing" /\ handler' \in Handler
          /\ handler'.at = "idle" /\ handler'.gen = 0
          /\ UNCHANGED <<vba, edits, editor, d, worker, fired, launches, index,
                         clearing, captured, refreshes, shown, stopped, stray>>
      BY <1>6, <2>1, ScheduleChangeEffect DEF At
    <3>2. QED
      BY <1>6, <2>1, <3>1, FieldTypes
      DEF Flags, Generations, Snapshots, Told, Overlays, Working, At
  <2>2. CASE ~(d.open /\ d.latest = editor)
    <3>1. /\ Supersedes(editor, vba, d.dep) /\ Cancels /\ stray' = FALSE
          /\ vba => Reserves(editor)
          /\ ~vba => index' = index
          /\ handler.at = "changing" /\ handler' \in Handler
          /\ handler'.at = "idle" /\ handler'.gen = 0
          /\ UNCHANGED <<vba, edits, editor, fired, launches, clearing, captured,
                         refreshes, shown, stopped>>
      BY <1>6, <2>2, ScheduleChangeEffect DEF At
    <3>2. QED
      BY <1>6, <2>2, <3>1, FieldTypes
      DEF Flags, Generations, Snapshots, Told, Overlays, Working, At, Supersedes,
          Reserves, Cancels
  <2>3. QED
    BY <2>1, <2>2
<1>7. CASE CloseDocument
  BY <1>7, CloseDocumentEffect, FieldTypes
  DEF Flags, Generations, Snapshots, Told, Overlays, Working, At
<1>8. CASE ClearOverlay
  BY <1>8, ClearOverlayEffect, FieldTypes
  DEF Flags, Generations, Snapshots, Told, Overlays, Working, At
<1>9. CASE CaptureOpen
  BY <1>9, CaptureOpenEffect, FieldTypes
  DEF Flags, Generations, Snapshots, Told, Overlays, Working, At
<1>10. CASE CaptureProjectReady
  BY <1>10, CaptureProjectReadyEffect, FieldTypes
  DEF Flags, Generations, Snapshots, Told, Overlays, Working, At, SameButTimers,
      SameButTimersAndPublished
<1>11. CASE ProjectFails
  BY <1>11, ProjectFailsEffect, FieldTypes
  DEF Flags, Generations, Snapshots, Told, Overlays, Working, At, SameButTimers,
      SameButTimersAndPublished
<1>12. ASSUME NEW r \in captured, Refresh(r) PROVE Overlays'
  BY <1>12, RefreshEffect, FieldTypes
  DEF Flags, Generations, Snapshots, Told, Overlays, Working, At, Postpones,
      Refreshes, Cancels
<1>13. CASE Fire
  BY <1>13, FireEffect, FieldTypes
  DEF Flags, Generations, Snapshots, Told, Overlays, Working, At, SameButTimers,
      SameButTimersAndPublished
<1>14. ASSUME NEW t \in fired, DiagnosticsReady(t) PROVE Overlays'
  BY <1>14, DiagnosticsReadyEffect, FieldTypes
  DEF Flags, Generations, Snapshots, Told, Overlays, Working, At, Readies
<1>15. CASE Launch
  BY <1>15, LaunchEffect, FieldTypes
  DEF Flags, Generations, Snapshots, Told, Overlays, Working, At, Launches,
      Launchable
<1>16. CASE AwaitPermit
  <2>1. CASE worker.canceled
    <3>1. /\ Finishes /\ worker.at = "acquire" /\ worker.canceled
          /\ UNCHANGED <<vba, edits, editor, handler, fired, index, clearing, captured,
                         refreshes, shown, stopped, stray>>
      BY <1>16, <2>1, AwaitPermitEffect DEF At
    <3>2. QED
      BY <1>16, <2>1, <3>1, FieldTypes
      DEF Flags, Generations, Snapshots, Told, Overlays, Working, At, Mode, Finishes,
          FinishesWith
  <2>2. CASE ~worker.canceled
    <3>1. /\ worker.at = "acquire" /\ ~worker.canceled /\ Moved
          /\ worker'.dep = worker.dep
          /\ worker.mode = "fast" => worker'.at = "body"
          /\ worker.mode = "full" /\ worker.overlay => worker'.at = "overlay"
          /\ worker.mode = "full" /\ ~worker.overlay => worker'.at = "switchFull"
          /\ UNCHANGED <<vba, edits, editor, handler, d, fired, launches, index,
                         clearing, captured, refreshes, shown, stopped, stray>>
      BY <1>16, <2>2, AwaitPermitEffect DEF At
    <3>2. QED
      BY <1>16, <2>2, <3>1, FieldTypes
      DEF Flags, Generations, Snapshots, Told, Overlays, Working, At, Mode, Moved
  <2>3. QED
    BY <2>1, <2>2
<1>17. CASE Body
  BY <1>17, BodyEffect, FieldTypes
  DEF Flags, Generations, Snapshots, Told, Overlays, Working, At, Moved
<1>18. CASE AwaitProject
  BY <1>18, AwaitProjectEffect, FieldTypes
  DEF Flags, Generations, Snapshots, Told, Overlays, Working, At, Moved,
      SameButTimers, SameButTimersAndPublished
<1>19. CASE Publish
  BY <1>19, PublishEffect, FieldTypes
  DEF Flags, Generations, Snapshots, Told, Overlays, Working, At, Moved,
      SameButPublished, SameButTimersAndPublished
<1>20. CASE AnalyzeDeclarations
  BY <1>20, AnalyzeDeclarationsEffect, FieldTypes
  DEF Flags, Generations, Snapshots, Told, Overlays, Working, At, Moved
<1>21. CASE PublishDeclarations
  <2>1. CASE index.declarations = "pending" /\ index.gen = worker.gen
    <3>1. /\ worker.at = "declare" /\ Moved /\ index' \in OverlayEntry
          /\ index'.gen = index.gen /\ index'.doc = index.doc
          /\ index'.semantic = index.semantic
          /\ index'.declarations = "published" /\ index'.content = worker.doc
          /\ worker.canceled => worker'.at \in {"switchFull", "complete"}
          /\ ~worker.canceled => worker'.at = "switch"
          /\ UNCHANGED <<vba, edits, editor, handler, d, fired, launches, clearing,
                         captured, refreshes, shown, stopped, stray>>
      BY <1>21, <2>1, PublishDeclarationsEffect DEF At
    <3>2. QED
      BY <1>21, <2>1, <3>1, FieldTypes
      DEF Flags, Generations, Snapshots, Told, Overlays, Working, At, NoOverlay, Moved
  <2>2. CASE ~(index.declarations = "pending" /\ index.gen = worker.gen)
    <3>1. /\ worker.at = "declare" /\ Moved /\ worker'.at = "reject"
          /\ UNCHANGED <<vba, edits, editor, handler, d, fired, launches, index,
                         clearing, captured, refreshes, shown, stopped, stray>>
      BY <1>21, <2>2, PublishDeclarationsEffect DEF At
    <3>2. QED
      BY <1>21, <2>2, <3>1, FieldTypes
      DEF Flags, Generations, Snapshots, Told, Overlays, Working, At, NoOverlay, Moved
  <2>3. QED
    BY <2>1, <2>2
<1>22. CASE RejectDeclarations
  BY <1>22, RejectDeclarationsEffect, FieldTypes
  DEF Flags, Generations, Snapshots, Told, Overlays, Working, At, Moved
<1>23. CASE AbandonOverlay
  BY <1>23, AbandonOverlayEffect, FieldTypes
  DEF Flags, Generations, Snapshots, Told, Overlays, Working, At, Moved, NoOverlay
<1>24. CASE SwitchToBackground
  BY <1>24, SwitchToBackgroundEffect, FieldTypes
  DEF Flags, Generations, Snapshots, Told, Overlays, Working, At, Moved, Finishes,
      FinishesWith
<1>25. CASE AnalyzeSemantic
  BY <1>25, AnalyzeSemanticEffect, FieldTypes
  DEF Flags, Generations, Snapshots, Told, Overlays, Working, At, Moved
<1>26. CASE PublishSemantic
  <2>1. CASE index.semantic = "pending" /\ index.gen = worker.gen
    <3>1. /\ worker.at = "publishSemantic" /\ Moved /\ index' \in OverlayEntry
          /\ index'.gen = index.gen /\ index'.doc = index.doc
          /\ index'.declarations = index.declarations
          /\ index'.semantic = "published" /\ index'.content = worker.doc
          /\ worker'.at \in {"switchFull", "complete"}
          /\ UNCHANGED <<vba, edits, editor, handler, d, fired, launches, clearing,
                         captured, refreshes, shown, stopped, stray>>
      BY <1>26, <2>1, PublishSemanticEffect DEF At
    <3>2. QED
      BY <1>26, <2>1, <3>1, FieldTypes
      DEF Flags, Generations, Snapshots, Told, Overlays, Working, At, NoOverlay, Moved
  <2>2. CASE ~(index.semantic = "pending" /\ index.gen = worker.gen)
    <3>1. /\ worker.at = "publishSemantic" /\ Moved /\ worker'.at = "rejectSemantic"
          /\ UNCHANGED <<vba, edits, editor, handler, d, fired, launches, index,
                         clearing, captured, refreshes, shown, stopped, stray>>
      BY <1>26, <2>2, PublishSemanticEffect DEF At
    <3>2. QED
      BY <1>26, <2>2, <3>1, FieldTypes
      DEF Flags, Generations, Snapshots, Told, Overlays, Working, At, NoOverlay, Moved
  <2>3. QED
    BY <2>1, <2>2
<1>27. CASE RejectSemantic
  BY <1>27, RejectSemanticEffect, FieldTypes
  DEF Flags, Generations, Snapshots, Told, Overlays, Working, At, Moved
<1>28. CASE AbandonSemantic
  BY <1>28, AbandonSemanticEffect, FieldTypes
  DEF Flags, Generations, Snapshots, Told, Overlays, Working, At, Moved, NoOverlay
<1>29. CASE Complete
  BY <1>29, CompleteEffect, FieldTypes
  DEF Flags, Generations, Snapshots, Told, Overlays, Working, At, Completes,
      OwesFollowUp
<1>30. CASE Stop
  BY <1>30, StopEffect, FieldTypes
  DEF Flags, Generations, Snapshots, Told, Overlays, Working, At, Closes, Cancels
<1>31. CASE UNCHANGED vars
  BY <1>31 DEF vars, Flags, Generations, Snapshots, Told, Overlays, Working, At
<1>32. QED
  BY <1>1, <1>2, <1>3, <1>4, <1>5, <1>6, <1>7, <1>8, <1>9, <1>10, <1>11, <1>12,
     <1>13, <1>14, <1>15, <1>16, <1>17, <1>18, <1>19, <1>20, <1>21, <1>22, <1>23,
     <1>24, <1>25, <1>26, <1>27, <1>28, <1>29, <1>30, <1>31
  DEF Next, Editor, System, ReadLoop, Refreshing, Ready, Worker

\* Somebody builds the overlay that is pending.
LEMMA BuiltPreserved ==
  TypeOK /\ Flags /\ Generations /\ Snapshots /\ Told /\ Overlays /\ Built /\ [Next]_vars =>
    Built'
<1> SUFFICES ASSUME TypeOK, Flags, Generations, Snapshots, Told, Overlays, Built, [Next]_vars
             PROVE Built'
  OBVIOUS
<1>1. CASE DidOpen
  BY <1>1, DidOpenEffect, FieldTypes, Fields, EditLimitAssumption
  DEF Flags, Generations, Told, Overlays, Built, Building, Working, At, Snapshot
<1>2. CASE DidChange
  BY <1>2, DidChangeEffect, FieldTypes, Fields, EditLimitAssumption
  DEF Flags, Generations, Told, Overlays, Built, Building, Working, At, Snapshot
<1>3. CASE DidClose
  BY <1>3, DidCloseEffect, FieldTypes
  DEF Flags, Generations, Told, Overlays, Built, Building, Working, At, Closes,
      Cancels
<1>4. ASSUME NEW large \in BOOLEAN, OpenDiagnostics(large) PROVE Built'
  <2>1. CASE d.open /\ d.latest = editor
    <3>1. /\ handler.at = "opening" /\ handler' \in Handler
          /\ handler'.at = "idle" /\ handler'.gen = 0
          /\ UNCHANGED <<vba, edits, editor, d, worker, fired, launches, index,
                         clearing, captured, refreshes, shown, stopped, stray>>
      BY <1>4, <2>1, OpenDiagnosticsEffect DEF At
    <3>2. QED
      BY <1>4, <2>1, <3>1, FieldTypes
      DEF Flags, Generations, Told, Overlays, Built, Building, Working, At
  <2>2. CASE ~(d.open /\ d.latest = editor)
    <3>1. /\ Opens(large) /\ Cancels /\ stray' = FALSE
          /\ vba => Reserves(editor)
          /\ ~vba => index' = index
          /\ handler.at = "opening" /\ handler' \in Handler
          /\ large /\ ~vba => handler'.at = "arming" /\ handler'.gen = d.gen + 1
          /\ ~(large /\ ~vba) => handler'.at = "launching" /\ handler'.gen = handler.gen
          /\ UNCHANGED <<vba, edits, editor, fired, launches, clearing, captured,
                         refreshes, shown, stopped>>
      BY <1>4, <2>2, OpenDiagnosticsEffect DEF At
    <3>2. QED
      BY <1>4, <2>2, <3>1, FieldTypes
      DEF Flags, Generations, Told, Overlays, Built, Building, Working, At, Opens,
          Reserves, Cancels
  <2>3. QED
    BY <2>1, <2>2
<1>5. CASE ArmOpenDelay
  BY <1>5, ArmOpenDelayEffect, FieldTypes
  DEF Flags, Generations, Told, Overlays, Built, Building, Working, At,
      SameButTimers, SameButTimersAndPublished
<1>6. CASE ScheduleChange
  <2>1. CASE d.open /\ d.latest = editor
    <3>1. /\ handler.at = "changing" /\ handler' \in Handler
          /\ handler'.at = "idle" /\ handler'.gen = 0
          /\ UNCHANGED <<vba, edits, editor, d, worker, fired, launches, index,
                         clearing, captured, refreshes, shown, stopped, stray>>
      BY <1>6, <2>1, ScheduleChangeEffect DEF At
    <3>2. QED
      BY <1>6, <2>1, <3>1, FieldTypes
      DEF Flags, Generations, Told, Overlays, Built, Building, Working, At
  <2>2. CASE ~(d.open /\ d.latest = editor)
    <3>1. /\ Supersedes(editor, vba, d.dep) /\ Cancels /\ stray' = FALSE
          /\ vba => Reserves(editor)
          /\ ~vba => index' = index
          /\ handler.at = "changing" /\ handler' \in Handler
          /\ handler'.at = "idle" /\ handler'.gen = 0
          /\ UNCHANGED <<vba, edits, editor, fired, launches, clearing, captured,
                         refreshes, shown, stopped>>
      BY <1>6, <2>2, ScheduleChangeEffect DEF At
    <3>2. QED
      BY <1>6, <2>2, <3>1, FieldTypes
      DEF Flags, Generations, Told, Overlays, Built, Building, Working, At,
          Supersedes, Reserves, Cancels
  <2>3. QED
    BY <2>1, <2>2
<1>7. CASE CloseDocument
  BY <1>7, CloseDocumentEffect, FieldTypes
  DEF Flags, Generations, Told, Overlays, Built, Building, Working, At
<1>8. CASE ClearOverlay
  BY <1>8, ClearOverlayEffect, FieldTypes
  DEF Flags, Generations, Told, Overlays, Built, Building, Working, At
<1>9. CASE CaptureOpen
  BY <1>9, CaptureOpenEffect, FieldTypes
  DEF Flags, Generations, Told, Overlays, Built, Building, Working, At
<1>10. CASE CaptureProjectReady
  BY <1>10, CaptureProjectReadyEffect, FieldTypes
  DEF Flags, Generations, Told, Overlays, Built, Building, Working, At,
      SameButTimers, SameButTimersAndPublished
<1>11. CASE ProjectFails
  BY <1>11, ProjectFailsEffect, FieldTypes
  DEF Flags, Generations, Told, Overlays, Built, Building, Working, At,
      SameButTimers, SameButTimersAndPublished
<1>12. ASSUME NEW r \in captured, Refresh(r) PROVE Built'
  BY <1>12, RefreshEffect, FieldTypes
  DEF Flags, Generations, Told, Overlays, Built, Building, Working, At, Postpones,
      Refreshes, Cancels
<1>13. CASE Fire
  BY <1>13, FireEffect, FieldTypes
  DEF Flags, Generations, Told, Overlays, Built, Building, Working, At,
      SameButTimers, SameButTimersAndPublished
<1>14. ASSUME NEW t \in fired, DiagnosticsReady(t) PROVE Built'
  BY <1>14, DiagnosticsReadyEffect, FieldTypes
  DEF Flags, Generations, Told, Overlays, Built, Building, Working, At, Readies
<1>15. CASE Launch
  BY <1>15, LaunchEffect, FieldTypes
  DEF Flags, Generations, Told, Overlays, Built, Building, Working, At, Launches,
      Launchable
<1>16. CASE AwaitPermit
  <2>1. CASE worker.canceled
    <3>1. /\ Finishes /\ worker.at = "acquire" /\ worker.canceled
          /\ UNCHANGED <<vba, edits, editor, handler, fired, index, clearing, captured,
                         refreshes, shown, stopped, stray>>
      BY <1>16, <2>1, AwaitPermitEffect DEF At
    <3>2. QED
      BY <1>16, <2>1, <3>1, FieldTypes
      DEF Flags, Generations, Told, Overlays, Built, Building, Working, At, Mode,
          Finishes, FinishesWith
  <2>2. CASE ~worker.canceled
    <3>1. /\ worker.at = "acquire" /\ ~worker.canceled /\ Moved
          /\ worker'.dep = worker.dep
          /\ worker.mode = "fast" => worker'.at = "body"
          /\ worker.mode = "full" /\ worker.overlay => worker'.at = "overlay"
          /\ worker.mode = "full" /\ ~worker.overlay => worker'.at = "switchFull"
          /\ UNCHANGED <<vba, edits, editor, handler, d, fired, launches, index,
                         clearing, captured, refreshes, shown, stopped, stray>>
      BY <1>16, <2>2, AwaitPermitEffect DEF At
    <3>2. QED
      BY <1>16, <2>2, <3>1, FieldTypes
      DEF Flags, Generations, Told, Overlays, Built, Building, Working, At, Mode,
          Moved
  <2>3. QED
    BY <2>1, <2>2
<1>17. CASE Body
  BY <1>17, BodyEffect, FieldTypes
  DEF Flags, Generations, Told, Overlays, Built, Building, Working, At, Moved
<1>18. CASE AwaitProject
  BY <1>18, AwaitProjectEffect, FieldTypes
  DEF Flags, Generations, Told, Overlays, Built, Building, Working, At, Moved,
      SameButTimers, SameButTimersAndPublished
<1>19. CASE Publish
  <2>1. CASE Discarded
    <3>1. /\ worker.at = "analyzing" /\ Moved
          /\ worker'.at \in {"overlay", "complete"}
          /\ worker'.at = "overlay" <=>
                 worker.mode = "fast" /\ worker.overlay /\ ~worker.canceled
          /\ UNCHANGED <<vba, edits, editor, handler, d, fired, launches, index,
                         clearing, captured, refreshes, shown, stopped, stray>>
      BY <1>19, <2>1, PublishEffect DEF At
    <3>2. QED
      BY <1>19, <2>1, <3>1, FieldTypes
      DEF Flags, Generations, Told, Overlays, Built, Building, Working, At, Discarded,
          Moved
  <2>2. CASE ~Discarded
    <3>1. /\ worker.at = "analyzing" /\ Moved /\ worker'.at \in {"overlay", "complete"}
          /\ worker'.at = "overlay" <=>
                 worker.mode = "fast" /\ worker.overlay /\ ~worker.canceled
          /\ shown' = [doc |-> worker.doc, mode |-> worker.mode, dep |-> worker.dep,
                       gen |-> worker.gen]
          /\ SameButPublished /\ d'.published = worker.mode
          /\ UNCHANGED <<vba, edits, editor, handler, fired, launches, index, clearing,
                         captured, refreshes, stopped, stray>>
      BY <1>19, <2>2, PublishEffect DEF At
    <3>2. QED
      BY <1>19, <2>2, <3>1, FieldTypes
      DEF Flags, Generations, Told, Overlays, Built, Building, Working, At, Discarded,
          Moved, SameButPublished, SameButTimersAndPublished
  <2>3. QED
    BY <2>1, <2>2
<1>20. CASE AnalyzeDeclarations
  BY <1>20, AnalyzeDeclarationsEffect, FieldTypes
  DEF Flags, Generations, Told, Overlays, Built, Building, Working, At, Moved
<1>21. CASE PublishDeclarations
  <2>1. CASE index.declarations = "pending" /\ index.gen = worker.gen
    <3>1. /\ worker.at = "declare" /\ Moved /\ index' \in OverlayEntry
          /\ index'.gen = index.gen /\ index'.doc = index.doc
          /\ index'.semantic = index.semantic
          /\ index'.declarations = "published" /\ index'.content = worker.doc
          /\ worker.canceled => worker'.at \in {"switchFull", "complete"}
          /\ ~worker.canceled => worker'.at = "switch"
          /\ UNCHANGED <<vba, edits, editor, handler, d, fired, launches, clearing,
                         captured, refreshes, shown, stopped, stray>>
      BY <1>21, <2>1, PublishDeclarationsEffect DEF At
    <3>2. QED
      BY <1>21, <2>1, <3>1, FieldTypes
      DEF Flags, Generations, Told, Overlays, Built, Building, Working, At, Moved
  <2>2. CASE ~(index.declarations = "pending" /\ index.gen = worker.gen)
    <3>1. /\ worker.at = "declare" /\ Moved /\ worker'.at = "reject"
          /\ UNCHANGED <<vba, edits, editor, handler, d, fired, launches, index,
                         clearing, captured, refreshes, shown, stopped, stray>>
      BY <1>21, <2>2, PublishDeclarationsEffect DEF At
    <3>2. QED
      BY <1>21, <2>2, <3>1, FieldTypes
      DEF Flags, Generations, Told, Overlays, Built, Building, Working, At, Moved
  <2>3. QED
    BY <2>1, <2>2
<1>22. CASE RejectDeclarations
  <2>1. CASE ~worker.canceled /\ Current
    <3>1. /\ worker.at = "reject" /\ Moved /\ worker'.at = "abandon"
          /\ UNCHANGED <<vba, edits, editor, handler, d, fired, launches, index,
                         clearing, captured, refreshes, shown, stopped, stray>>
      BY <1>22, <2>1, RejectDeclarationsEffect DEF At
    <3>2. QED
      BY <1>22, <2>1, <3>1, FieldTypes
      DEF Flags, Generations, Told, Overlays, Built, Building, Working, At, Current,
          Moved
  <2>2. CASE ~(~worker.canceled /\ Current)
    <3>1. /\ worker.at = "reject" /\ Moved
          /\ UNCHANGED <<vba, edits, editor, handler, d, fired, launches, index,
                         clearing, captured, refreshes, shown, stopped, stray>>
      BY <1>22, <2>2, RejectDeclarationsEffect DEF At
    <3>2. QED
      BY <1>22, <2>2, <3>1, FieldTypes
      DEF Flags, Generations, Told, Overlays, Built, Building, Working, At, Current,
          Moved
  <2>3. QED
    BY <2>1, <2>2
<1>23. CASE AbandonOverlay
  BY <1>23, AbandonOverlayEffect, FieldTypes
  DEF Flags, Generations, Told, Overlays, Built, Building, Working, At, Moved
<1>24. CASE SwitchToBackground
  <2>1. CASE worker.canceled /\ Finishes
    <3>1. /\ worker.at \in {"switch", "switchFull"} /\ worker.canceled
          /\ UNCHANGED <<vba, edits, editor, handler, fired, index, clearing, captured,
                         refreshes, shown, stopped, stray>>
      BY <1>24, <2>1, SwitchToBackgroundEffect DEF At
    <3>2. QED
      BY <1>24, <2>1, <3>1, FieldTypes
      DEF Flags, Generations, Told, Overlays, Built, Building, Working, At, Finishes,
          FinishesWith
  <2>2. CASE ~(worker.canceled /\ Finishes)
    <3>1. /\ Moved /\ worker'.dep = worker.dep
          /\ \/ worker.at = "switch" /\ worker'.at = "semantic"
             \/ worker.at = "switchFull" /\ worker'.at = "body"
          /\ UNCHANGED <<vba, edits, editor, handler, d, fired, launches, index,
                         clearing, captured, refreshes, shown, stopped, stray>>
      BY <1>24, <2>2, SwitchToBackgroundEffect DEF At
    <3>2. QED
      BY <1>24, <2>2, <3>1, FieldTypes
      DEF Flags, Generations, Told, Overlays, Built, Building, Working, At, Moved
  <2>3. QED
    BY <2>1, <2>2
<1>25. CASE AnalyzeSemantic
  BY <1>25, AnalyzeSemanticEffect, FieldTypes
  DEF Flags, Generations, Told, Overlays, Built, Building, Working, At, Moved
<1>26. CASE PublishSemantic
  BY <1>26, PublishSemanticEffect, FieldTypes
  DEF Flags, Generations, Told, Overlays, Built, Building, Working, At, Moved
<1>27. CASE RejectSemantic
  <2>1. CASE ~worker.canceled /\ Current
    <3>1. /\ worker.at = "rejectSemantic" /\ Moved /\ worker'.at = "abandonSemantic"
          /\ UNCHANGED <<vba, edits, editor, handler, d, fired, launches, index,
                         clearing, captured, refreshes, shown, stopped, stray>>
      BY <1>27, <2>1, RejectSemanticEffect DEF At
    <3>2. QED
      BY <1>27, <2>1, <3>1, FieldTypes
      DEF Flags, Generations, Told, Overlays, Built, Building, Working, At, Current,
          Moved
  <2>2. CASE ~(~worker.canceled /\ Current)
    <3>1. /\ worker.at = "rejectSemantic" /\ Moved
          /\ UNCHANGED <<vba, edits, editor, handler, d, fired, launches, index,
                         clearing, captured, refreshes, shown, stopped, stray>>
      BY <1>27, <2>2, RejectSemanticEffect DEF At
    <3>2. QED
      BY <1>27, <2>2, <3>1, FieldTypes
      DEF Flags, Generations, Told, Overlays, Built, Building, Working, At, Current,
          Moved
  <2>3. QED
    BY <2>1, <2>2
<1>28. CASE AbandonSemantic
  BY <1>28, AbandonSemanticEffect, FieldTypes
  DEF Flags, Generations, Told, Overlays, Built, Building, Working, At, Moved
<1>29. CASE Complete
  BY <1>29, CompleteEffect, FieldTypes
  DEF Flags, Generations, Told, Overlays, Built, Building, Working, At, Completes,
      OwesFollowUp
<1>30. CASE Stop
  BY <1>30, StopEffect, FieldTypes
  DEF Flags, Generations, Told, Overlays, Built, Building, Working, At, Closes,
      Cancels
<1>31. CASE UNCHANGED vars
  BY <1>31 DEF vars, Flags, Generations, Told, Overlays, Built, Building, Working, At
<1>32. QED
  BY <1>1, <1>2, <1>3, <1>4, <1>5, <1>6, <1>7, <1>8, <1>9, <1>10, <1>11, <1>12,
     <1>13, <1>14, <1>15, <1>16, <1>17, <1>18, <1>19, <1>20, <1>21, <1>22, <1>23,
     <1>24, <1>25, <1>26, <1>27, <1>28, <1>29, <1>30, <1>31
  DEF Next, Editor, System, ReadLoop, Refreshing, Ready, Worker

\* A worker is not replaced by another before it has ended.
LEMMA WorkerStaysStep ==
  TypeOK /\ Flags /\ [Next]_vars => WorkerStays
<1> SUFFICES ASSUME TypeOK, Flags, [Next]_vars PROVE WorkerStays
  OBVIOUS
<1>1. CASE DidOpen
  BY <1>1, DidOpenEffect, FieldTypes DEF WorkerStays, Flags, Working
<1>2. CASE DidChange
  BY <1>2, DidChangeEffect, FieldTypes DEF WorkerStays, Flags, Working
<1>3. CASE DidClose
  BY <1>3, DidCloseEffect, FieldTypes DEF WorkerStays, Flags, Working, Closes, Cancels
<1>4. ASSUME NEW large \in BOOLEAN, OpenDiagnostics(large) PROVE WorkerStays
  <2>1. CASE d.open /\ d.latest = editor
    <3>1. /\ handler.at = "opening" /\ handler' \in Handler
          /\ handler'.at = "idle" /\ handler'.gen = 0
          /\ UNCHANGED <<vba, edits, editor, d, worker, fired, launches, index,
                         clearing, captured, refreshes, shown, stopped, stray>>
      BY <1>4, <2>1, OpenDiagnosticsEffect DEF At
    <3>2. QED
      BY <1>4, <2>1, <3>1, FieldTypes DEF WorkerStays, Flags, Working
  <2>2. CASE ~(d.open /\ d.latest = editor)
    <3>1. /\ Opens(large) /\ Cancels /\ stray' = FALSE
          /\ vba => Reserves(editor)
          /\ ~vba => index' = index
          /\ handler.at = "opening" /\ handler' \in Handler
          /\ large /\ ~vba => handler'.at = "arming" /\ handler'.gen = d.gen + 1
          /\ ~(large /\ ~vba) => handler'.at = "launching" /\ handler'.gen = handler.gen
          /\ UNCHANGED <<vba, edits, editor, fired, launches, clearing, captured,
                         refreshes, shown, stopped>>
      BY <1>4, <2>2, OpenDiagnosticsEffect DEF At
    <3>2. QED
      BY <1>4, <2>2, <3>1, FieldTypes
      DEF WorkerStays, Flags, Working, Opens, Reserves, Cancels
  <2>3. QED
    BY <2>1, <2>2
<1>5. CASE ArmOpenDelay
  BY <1>5, ArmOpenDelayEffect, FieldTypes
  DEF WorkerStays, Flags, Working, SameButTimers, SameButTimersAndPublished
<1>6. CASE ScheduleChange
  <2>1. CASE d.open /\ d.latest = editor
    <3>1. /\ handler.at = "changing" /\ handler' \in Handler
          /\ handler'.at = "idle" /\ handler'.gen = 0
          /\ UNCHANGED <<vba, edits, editor, d, worker, fired, launches, index,
                         clearing, captured, refreshes, shown, stopped, stray>>
      BY <1>6, <2>1, ScheduleChangeEffect DEF At
    <3>2. QED
      BY <1>6, <2>1, <3>1, FieldTypes DEF WorkerStays, Flags, Working
  <2>2. CASE ~(d.open /\ d.latest = editor)
    <3>1. /\ Supersedes(editor, vba, d.dep) /\ Cancels /\ stray' = FALSE
          /\ vba => Reserves(editor)
          /\ ~vba => index' = index
          /\ handler.at = "changing" /\ handler' \in Handler
          /\ handler'.at = "idle" /\ handler'.gen = 0
          /\ UNCHANGED <<vba, edits, editor, fired, launches, clearing, captured,
                         refreshes, shown, stopped>>
      BY <1>6, <2>2, ScheduleChangeEffect DEF At
    <3>2. QED
      BY <1>6, <2>2, <3>1, FieldTypes
      DEF WorkerStays, Flags, Working, Supersedes, Reserves, Cancels
  <2>3. QED
    BY <2>1, <2>2
<1>7. CASE CloseDocument
  BY <1>7, CloseDocumentEffect, FieldTypes DEF WorkerStays, Flags, Working
<1>8. CASE ClearOverlay
  BY <1>8, ClearOverlayEffect, FieldTypes DEF WorkerStays, Flags, Working
<1>9. CASE CaptureOpen
  BY <1>9, CaptureOpenEffect, FieldTypes DEF WorkerStays, Flags, Working
<1>10. CASE CaptureProjectReady
  BY <1>10, CaptureProjectReadyEffect, FieldTypes
  DEF WorkerStays, Flags, Working, SameButTimers, SameButTimersAndPublished
<1>11. CASE ProjectFails
  BY <1>11, ProjectFailsEffect, FieldTypes
  DEF WorkerStays, Flags, Working, SameButTimers, SameButTimersAndPublished
<1>12. ASSUME NEW r \in captured, Refresh(r) PROVE WorkerStays
  BY <1>12, RefreshEffect, FieldTypes
  DEF WorkerStays, Flags, Working, Postpones, Refreshes, Cancels
<1>13. CASE Fire
  BY <1>13, FireEffect, FieldTypes
  DEF WorkerStays, Flags, Working, SameButTimers, SameButTimersAndPublished
<1>14. ASSUME NEW t \in fired, DiagnosticsReady(t) PROVE WorkerStays
  BY <1>14, DiagnosticsReadyEffect, FieldTypes DEF WorkerStays, Flags, Working, Readies
<1>15. CASE Launch
  BY <1>15, LaunchEffect, FieldTypes
  DEF WorkerStays, Flags, Working, Launches, Launchable
<1>16. CASE AwaitPermit
  BY <1>16, AwaitPermitEffect, FieldTypes
  DEF WorkerStays, Flags, Working, Moved, Finishes, FinishesWith, NoWorker
<1>17. CASE Body
  BY <1>17, BodyEffect, FieldTypes DEF WorkerStays, Flags, Working, Moved
<1>18. CASE AwaitProject
  BY <1>18, AwaitProjectEffect, FieldTypes
  DEF WorkerStays, Flags, Working, Moved, SameButTimers, SameButTimersAndPublished
<1>19. CASE Publish
  BY <1>19, PublishEffect, FieldTypes
  DEF WorkerStays, Flags, Working, Moved, SameButPublished,
      SameButTimersAndPublished
<1>20. CASE AnalyzeDeclarations
  BY <1>20, AnalyzeDeclarationsEffect, FieldTypes DEF WorkerStays, Flags, Working, Moved
<1>21. CASE PublishDeclarations
  BY <1>21, PublishDeclarationsEffect, FieldTypes DEF WorkerStays, Flags, Working, Moved
<1>22. CASE RejectDeclarations
  BY <1>22, RejectDeclarationsEffect, FieldTypes DEF WorkerStays, Flags, Working, Moved
<1>23. CASE AbandonOverlay
  BY <1>23, AbandonOverlayEffect, FieldTypes DEF WorkerStays, Flags, Working, Moved
<1>24. CASE SwitchToBackground
  BY <1>24, SwitchToBackgroundEffect, FieldTypes
  DEF WorkerStays, Flags, Working, Moved, Finishes, FinishesWith, NoWorker
<1>25. CASE AnalyzeSemantic
  BY <1>25, AnalyzeSemanticEffect, FieldTypes DEF WorkerStays, Flags, Working, Moved
<1>26. CASE PublishSemantic
  BY <1>26, PublishSemanticEffect, FieldTypes DEF WorkerStays, Flags, Working, Moved
<1>27. CASE RejectSemantic
  BY <1>27, RejectSemanticEffect, FieldTypes DEF WorkerStays, Flags, Working, Moved
<1>28. CASE AbandonSemantic
  BY <1>28, AbandonSemanticEffect, FieldTypes DEF WorkerStays, Flags, Working, Moved
<1>29. CASE Complete
  BY <1>29, CompleteEffect, FieldTypes
  DEF WorkerStays, Flags, Working, Completes, OwesFollowUp, NoWorker
<1>30. CASE Stop
  BY <1>30, StopEffect, FieldTypes DEF WorkerStays, Flags, Working, Closes, Cancels
<1>31. CASE UNCHANGED vars
  BY <1>31 DEF vars, WorkerStays, Flags, Working
<1>32. QED
  BY <1>1, <1>2, <1>3, <1>4, <1>5, <1>6, <1>7, <1>8, <1>9, <1>10, <1>11, <1>12,
     <1>13, <1>14, <1>15, <1>16, <1>17, <1>18, <1>19, <1>20, <1>21, <1>22, <1>23,
     <1>24, <1>25, <1>26, <1>27, <1>28, <1>29, <1>30, <1>31
  DEF Next, Editor, System, ReadLoop, Refreshing, Ready, Worker

\* What is published is newest, and a full result is not taken back.
LEMMA PublishedIsNewestStep ==
  TypeOK /\ Flags /\ Generations /\ Answered /\ Told /\ [Next]_vars => PublishedIsNewest
<1> SUFFICES ASSUME TypeOK, Flags, Generations, Answered, Told, [Next]_vars
             PROVE PublishedIsNewest
  OBVIOUS
<1>1. CASE DidOpen
  BY <1>1, DidOpenEffect, FieldTypes
  DEF PublishedIsNewest, Flags, Generations, Answered, Told, Working, At
<1>2. CASE DidChange
  BY <1>2, DidChangeEffect, FieldTypes
  DEF PublishedIsNewest, Flags, Generations, Answered, Told, Working, At
<1>3. CASE DidClose
  BY <1>3, DidCloseEffect, FieldTypes
  DEF PublishedIsNewest, Flags, Generations, Answered, Told, Working, At, Closes,
      Cancels, Empty
<1>4. ASSUME NEW large \in BOOLEAN, OpenDiagnostics(large) PROVE PublishedIsNewest
  <2>1. CASE d.open /\ d.latest = editor
    <3>1. /\ handler.at = "opening" /\ handler' \in Handler
          /\ handler'.at = "idle" /\ handler'.gen = 0
          /\ UNCHANGED <<vba, edits, editor, d, worker, fired, launches, index,
                         clearing, captured, refreshes, shown, stopped, stray>>
      BY <1>4, <2>1, OpenDiagnosticsEffect DEF At
    <3>2. QED
      BY <1>4, <2>1, <3>1, FieldTypes
      DEF PublishedIsNewest, Flags, Generations, Answered, Told, Working, At
  <2>2. CASE ~(d.open /\ d.latest = editor)
    <3>1. /\ Opens(large) /\ Cancels /\ stray' = FALSE
          /\ vba => Reserves(editor)
          /\ ~vba => index' = index
          /\ handler.at = "opening" /\ handler' \in Handler
          /\ large /\ ~vba => handler'.at = "arming" /\ handler'.gen = d.gen + 1
          /\ ~(large /\ ~vba) => handler'.at = "launching" /\ handler'.gen = handler.gen
          /\ UNCHANGED <<vba, edits, editor, fired, launches, clearing, captured,
                         refreshes, shown, stopped>>
      BY <1>4, <2>2, OpenDiagnosticsEffect DEF At
    <3>2. QED
      BY <1>4, <2>2, <3>1, FieldTypes
      DEF PublishedIsNewest, Flags, Generations, Answered, Told, Working, At, Opens,
          Reserves, Cancels
  <2>3. QED
    BY <2>1, <2>2
<1>5. CASE ArmOpenDelay
  BY <1>5, ArmOpenDelayEffect, FieldTypes
  DEF PublishedIsNewest, Flags, Generations, Answered, Told, Working, At,
      SameButTimers, SameButTimersAndPublished
<1>6. CASE ScheduleChange
  <2>1. CASE d.open /\ d.latest = editor
    <3>1. /\ handler.at = "changing" /\ handler' \in Handler
          /\ handler'.at = "idle" /\ handler'.gen = 0
          /\ UNCHANGED <<vba, edits, editor, d, worker, fired, launches, index,
                         clearing, captured, refreshes, shown, stopped, stray>>
      BY <1>6, <2>1, ScheduleChangeEffect DEF At
    <3>2. QED
      BY <1>6, <2>1, <3>1, FieldTypes
      DEF PublishedIsNewest, Flags, Generations, Answered, Told, Working, At
  <2>2. CASE ~(d.open /\ d.latest = editor)
    <3>1. /\ Supersedes(editor, vba, d.dep) /\ Cancels /\ stray' = FALSE
          /\ vba => Reserves(editor)
          /\ ~vba => index' = index
          /\ handler.at = "changing" /\ handler' \in Handler
          /\ handler'.at = "idle" /\ handler'.gen = 0
          /\ UNCHANGED <<vba, edits, editor, fired, launches, clearing, captured,
                         refreshes, shown, stopped>>
      BY <1>6, <2>2, ScheduleChangeEffect DEF At
    <3>2. QED
      BY <1>6, <2>2, <3>1, FieldTypes
      DEF PublishedIsNewest, Flags, Generations, Answered, Told, Working, At,
          Supersedes, Reserves, Cancels
  <2>3. QED
    BY <2>1, <2>2
<1>7. CASE CloseDocument
  BY <1>7, CloseDocumentEffect, FieldTypes
  DEF PublishedIsNewest, Flags, Generations, Answered, Told, Working, At
<1>8. CASE ClearOverlay
  BY <1>8, ClearOverlayEffect, FieldTypes
  DEF PublishedIsNewest, Flags, Generations, Answered, Told, Working, At
<1>9. CASE CaptureOpen
  BY <1>9, CaptureOpenEffect, FieldTypes
  DEF PublishedIsNewest, Flags, Generations, Answered, Told, Working, At
<1>10. CASE CaptureProjectReady
  BY <1>10, CaptureProjectReadyEffect, FieldTypes
  DEF PublishedIsNewest, Flags, Generations, Answered, Told, Working, At,
      SameButTimers, SameButTimersAndPublished
<1>11. CASE ProjectFails
  BY <1>11, ProjectFailsEffect, FieldTypes
  DEF PublishedIsNewest, Flags, Generations, Answered, Told, Working, At,
      SameButTimers, SameButTimersAndPublished
<1>12. ASSUME NEW r \in captured, Refresh(r) PROVE PublishedIsNewest
  BY <1>12, RefreshEffect, FieldTypes
  DEF PublishedIsNewest, Flags, Generations, Answered, Told, Working, At,
      Postpones, Refreshes, Cancels
<1>13. CASE Fire
  BY <1>13, FireEffect, FieldTypes
  DEF PublishedIsNewest, Flags, Generations, Answered, Told, Working, At,
      SameButTimers, SameButTimersAndPublished
<1>14. ASSUME NEW t \in fired, DiagnosticsReady(t) PROVE PublishedIsNewest
  BY <1>14, DiagnosticsReadyEffect, FieldTypes
  DEF PublishedIsNewest, Flags, Generations, Answered, Told, Working, At, Readies
<1>15. CASE Launch
  BY <1>15, LaunchEffect, FieldTypes
  DEF PublishedIsNewest, Flags, Generations, Answered, Told, Working, At,
      Launches, Launchable
<1>16. CASE AwaitPermit
  BY <1>16, AwaitPermitEffect, FieldTypes
  DEF PublishedIsNewest, Flags, Generations, Answered, Told, Working, At, Moved,
      Finishes, FinishesWith
<1>17. CASE Body
  BY <1>17, BodyEffect, FieldTypes
  DEF PublishedIsNewest, Flags, Generations, Answered, Told, Working, At, Moved
<1>18. CASE AwaitProject
  BY <1>18, AwaitProjectEffect, FieldTypes
  DEF PublishedIsNewest, Flags, Generations, Answered, Told, Working, At, Moved,
      SameButTimers, SameButTimersAndPublished
<1>19. CASE Publish
  <2>1. CASE Discarded
    <3>1. /\ worker.at = "analyzing" /\ Moved
          /\ worker'.at \in {"overlay", "complete"}
          /\ worker'.at = "overlay" <=>
                 worker.mode = "fast" /\ worker.overlay /\ ~worker.canceled
          /\ UNCHANGED <<vba, edits, editor, handler, d, fired, launches, index,
                         clearing, captured, refreshes, shown, stopped, stray>>
      BY <1>19, <2>1, PublishEffect DEF At
    <3>2. QED
      BY <1>19, <2>1, <3>1, FieldTypes
      DEF PublishedIsNewest, Flags, Generations, Answered, Told, Working, At,
          Discarded, Mode, Moved
  <2>2. CASE ~Discarded
    <3>1. /\ worker.at = "analyzing" /\ Moved /\ worker'.at \in {"overlay", "complete"}
          /\ worker'.at = "overlay" <=>
                 worker.mode = "fast" /\ worker.overlay /\ ~worker.canceled
          /\ shown' = [doc |-> worker.doc, mode |-> worker.mode, dep |-> worker.dep,
                       gen |-> worker.gen]
          /\ SameButPublished /\ d'.published = worker.mode
          /\ UNCHANGED <<vba, edits, editor, handler, fired, launches, index, clearing,
                         captured, refreshes, stopped, stray>>
      BY <1>19, <2>2, PublishEffect DEF At
    <3>2. QED
      BY <1>19, <2>2, <3>1, FieldTypes
      DEF PublishedIsNewest, Flags, Generations, Answered, Told, Working, At,
          Discarded, Mode, Moved, SameButPublished, SameButTimersAndPublished
  <2>3. QED
    BY <2>1, <2>2
<1>20. CASE AnalyzeDeclarations
  BY <1>20, AnalyzeDeclarationsEffect, FieldTypes
  DEF PublishedIsNewest, Flags, Generations, Answered, Told, Working, At, Moved
<1>21. CASE PublishDeclarations
  BY <1>21, PublishDeclarationsEffect, FieldTypes
  DEF PublishedIsNewest, Flags, Generations, Answered, Told, Working, At, Moved
<1>22. CASE RejectDeclarations
  BY <1>22, RejectDeclarationsEffect, FieldTypes
  DEF PublishedIsNewest, Flags, Generations, Answered, Told, Working, At, Moved
<1>23. CASE AbandonOverlay
  BY <1>23, AbandonOverlayEffect, FieldTypes
  DEF PublishedIsNewest, Flags, Generations, Answered, Told, Working, At, Moved
<1>24. CASE SwitchToBackground
  BY <1>24, SwitchToBackgroundEffect, FieldTypes
  DEF PublishedIsNewest, Flags, Generations, Answered, Told, Working, At, Moved,
      Finishes, FinishesWith
<1>25. CASE AnalyzeSemantic
  BY <1>25, AnalyzeSemanticEffect, FieldTypes
  DEF PublishedIsNewest, Flags, Generations, Answered, Told, Working, At, Moved
<1>26. CASE PublishSemantic
  BY <1>26, PublishSemanticEffect, FieldTypes
  DEF PublishedIsNewest, Flags, Generations, Answered, Told, Working, At, Moved
<1>27. CASE RejectSemantic
  BY <1>27, RejectSemanticEffect, FieldTypes
  DEF PublishedIsNewest, Flags, Generations, Answered, Told, Working, At, Moved
<1>28. CASE AbandonSemantic
  BY <1>28, AbandonSemanticEffect, FieldTypes
  DEF PublishedIsNewest, Flags, Generations, Answered, Told, Working, At, Moved
<1>29. CASE Complete
  BY <1>29, CompleteEffect, FieldTypes
  DEF PublishedIsNewest, Flags, Generations, Answered, Told, Working, At,
      Completes, OwesFollowUp
<1>30. CASE Stop
  BY <1>30, StopEffect, FieldTypes
  DEF PublishedIsNewest, Flags, Generations, Answered, Told, Working, At, Closes,
      Cancels
<1>31. CASE UNCHANGED vars
  BY <1>31 DEF vars, PublishedIsNewest, Flags, Generations, Answered, Told, Working, At
<1>32. QED
  BY <1>1, <1>2, <1>3, <1>4, <1>5, <1>6, <1>7, <1>8, <1>9, <1>10, <1>11, <1>12,
     <1>13, <1>14, <1>15, <1>16, <1>17, <1>18, <1>19, <1>20, <1>21, <1>22, <1>23,
     <1>24, <1>25, <1>26, <1>27, <1>28, <1>29, <1>30, <1>31
  DEF Next, Editor, System, ReadLoop, Refreshing, Ready, Worker
-----------------------------------------------------------------------------
(***************************************************************************)
(* DocumentAnalysis: the theorems.                                          *)
(***************************************************************************)
LEMMA DocumentInvInit == Init => DocumentInv
<1> SUFFICES ASSUME Init PROVE DocumentInv
  OBVIOUS
<1>1. /\ edits = 0 /\ editor = 0 /\ handler.at = "idle" /\ handler.gen = 0 /\ captured = {}
      /\ fired = {} /\ launches = 0 /\ clearing = FALSE /\ index = NoOverlay /\ shown = Empty
      /\ stopped = "no" /\ stray = FALSE /\ refreshes = 0 /\ vba \in BOOLEAN
      /\ worker = NoWorker /\ worker.at = "none" /\ worker.gen = 0
  BY DEF Init, Idle, NoWorker
<1>2. /\ d \in DocumentState /\ d.gen = 0 /\ d.latest = 0 /\ ~d.ready /\ ~d.running
      /\ ~d.buildOverlay /\ ~d.open
  BY SmallTypes DEF Init, DocumentState
<1>3. /\ index.gen = 0 /\ index.doc = 0 /\ index.content = 0 /\ index.declarations = "none"
      /\ index.semantic = "none" /\ shown.gen = 0
  BY <1>1 DEF NoOverlay, Empty
<1>4. TypeOK
  <2>1. /\ handler \in Handler /\ worker \in AnalysisWorker /\ index \in OverlayEntry
        /\ shown \in Shown
    BY <1>1, SmallTypes
    DEF Init, Idle, Handler, NoWorker, AnalysisWorker, NoOverlay, OverlayEntry, Phase
  <2>2. edits \in Snapshot /\ editor \in Snapshot /\ refreshes \in 0..RefreshLimit
    BY <1>1, SmallTypes, RefreshLimitAssumption
  <2>3. DocumentTypes
    BY <1>1, <1>2, <2>1, <2>2 DEF DocumentTypes
  <2>4. QED
    BY <2>3, NamedTypes
<1>5. Flags /\ Generations /\ Snapshots
  BY <1>1, <1>2, <1>3 DEF Flags, Generations, Snapshots, Working, At
<1>6. Owed /\ Answered /\ Told
  BY <1>1, <1>2, <1>3 DEF Owed, Answered, Told, Working, At
<1>7. Overlays /\ Built
  BY <1>1, <1>2, <1>3 DEF Overlays, Built, Working, At
<1>8. QED
  BY <1>4, <1>5, <1>6, <1>7 DEF DocumentInv

\* What is known of a document in every reachable state: the types, who works for
\* which generation, what is still owed to the client, and whose overlay the index has.
THEOREM DocumentInvariant == Spec => []DocumentInv
<1>1. DocumentInv /\ [Next]_vars => DocumentInv'
  <2> SUFFICES ASSUME DocumentInv, [Next]_vars PROVE DocumentInv'
    OBVIOUS
  <2>1. /\ TypeOK /\ Flags /\ Generations /\ Snapshots
        /\ Owed /\ Answered /\ Told /\ Overlays /\ Built
    BY DEF DocumentInv
  <2>2. TypeOK'
    <3>1. DocumentTypes'
      BY <2>1, NamedTypes, DocumentTypesPreserved
    <3>2. QED
      BY <3>1, Zenon DEF TypeOK, DocumentTypes, Handler, DocumentState, AnalysisWorker,
                         OverlayEntry, Captures, Shown
  <2>3. Flags' /\ Generations' /\ Snapshots'
    BY <2>1, FlagsPreserved, GenerationsPreserved, SnapshotsPreserved
  <2>4. Owed' /\ Answered' /\ Told'
    BY <2>1, OwedPreserved, AnsweredPreserved, ToldPreserved
  <2>5. Overlays' /\ Built'
    BY <2>1, OverlaysPreserved, BuiltPreserved
  <2>6. QED
    BY <2>2, <2>3, <2>4, <2>5 DEF DocumentInv
<1>2. QED
  BY DocumentInvInit, <1>1, PTL DEF Spec

\* server.go, the types of the records: nothing leaves its range, and a worker that
\* has ended is forgotten.
THEOREM TypeOKHolds == Spec => []TypeOK
<1>1. DocumentInv => TypeOK
  BY DEF DocumentInv
<1>2. QED
  BY <1>1, DocumentInvariant, PTL

\* cli-contract.md:172: when all is done the client has the full result of the latest
\* snapshot and dependencies, the index has the overlay of the open buffer or none, and
\* it never answers for the open buffer with another snapshot.
THEOREM SettledHolds == Spec => []Settled
<1>1. DocumentInv => Settled
  <2> SUFFICES ASSUME DocumentInv PROVE Settled
    OBVIOUS
  <2>1. /\ TypeOK /\ Flags /\ Generations /\ Owed /\ Told /\ Overlays /\ Built
    BY DEF DocumentInv
  <2>2. SettledIsFull
    <3> SUFFICES ASSUME Quiet, d.open
                 PROVE  /\ shown = [doc |-> d.latest, mode |-> "full", dep |-> d.dep,
                                    gen |-> d.gen]
                        /\ ~d.ready /\ ~d.buildOverlay /\ ~d.dependentPending
      BY DEF SettledIsFull
    <3>1. ~d.ready
      BY <2>1 DEF Flags, Quiet, At
    <3>2. FullTimer(d.gen) # NoTimer
      BY <2>1, FieldTypes, FullTimerFields DEF Flags, NoTimer
    <3>3. ~Due
      BY <3>1, <3>2 DEF Quiet, Due, At
    <3>4. Final /\ ~d.dependentPending
      BY <2>1, <3>3 DEF Owed, Quiet
    <3>5. shown = [doc |-> d.latest, mode |-> "full", dep |-> d.dep, gen |-> d.gen]
      <4>1. shown \in Shown
        BY <2>1 DEF TypeOK, Shown
      <4>2. QED
        BY <3>4, <4>1 DEF Final, Shown
    <3>6. ~d.buildOverlay
      BY <2>1, <3>4 DEF Generations, Final
    <3>7. QED
      BY <3>1, <3>4, <3>5, <3>6
  <2>3. SettledOverlay
    <3> SUFFICES ASSUME Quiet, vba, editor # 0, ~stray
                 PROVE  /\ d.open /\ d.latest = editor /\ index.doc = editor
                        /\ index.declarations # "pending" /\ index.semantic # "pending"
      BY DEF SettledOverlay
    <3>1. d.open /\ d.latest = editor /\ index.doc = editor
      BY <2>1 DEF Told, Overlays, Quiet
    <3>2. ~d.buildOverlay
      BY <2>2, <3>1 DEF SettledIsFull
    <3>3. index.semantic # "pending"
      BY <2>1, <3>2 DEF Built, Building, Quiet
    <3>4. QED
      BY <2>1, <3>1, <3>3 DEF Overlays
  <2>4. SettledClosed
    BY <2>1 DEF SettledClosed, Quiet, Told, Overlays
  <2>5. NoStaleOverlay
    BY <2>1 DEF NoStaleOverlay, Overlays
  <2>6. QED
    BY <2>2, <2>3, <2>4, <2>5 DEF Settled
<1>2. QED
  BY <1>1, DocumentInvariant, PTL

\* cli-contract.md:172, launchDiagnostics: one worker at a time, and only work of the
\* newest open document publishes.
THEOREM WorkIsCurrentHolds == Spec => WorkIsCurrent
<1>1. DocumentInv /\ [Next]_vars => WorkerStays
  BY WorkerStaysStep DEF DocumentInv
<1>2. DocumentInv /\ [Next]_vars => PublishedIsNewest
  BY PublishedIsNewestStep DEF DocumentInv
<1>3. Spec => OneWorker
  BY <1>1, DocumentInvariant, PTL DEF Spec, OneWorker, WorkerStays
<1>4. Spec => PublishesNewest
  BY <1>2, DocumentInvariant, PTL DEF Spec, PublishesNewest, PublishedIsNewest
<1>5. QED
  BY <1>3, <1>4, PTL DEF WorkIsCurrent

-----------------------------------------------------------------------------
(***************************************************************************)
(* AnalysisScheduler, for every finite set of callers and every number of   *)
(* permits.                                                                 *)
(***************************************************************************)
\* There are finitely many callers of each kind, so they can be counted.
LEMMA CallersFinite ==
  ASSUME NEW k \in Class
  PROVE  /\ IsFiniteSet(Running(k)) /\ Cardinality(Running(k)) \in Nat
         /\ IsFiniteSet(Queued(k)) /\ Cardinality(Queued(k)) \in Nat
<1>1. Running(k) \in SUBSET Caller /\ Queued(k) \in SUBSET Caller
  BY DEF Running, Queued
<1>2. IsFiniteSet(Running(k)) /\ IsFiniteSet(Queued(k))
  BY <1>1, CallerAssumption, FS_Subset
<1>3. QED
  BY <1>2, FS_CardinalityType

\* The counter of a class with a waiter is not zero.
LEMMA WaiterCounted ==
  ASSUME SchedulerTypeOK, CountsAreReal, NEW c \in Caller, Waiting(c)
  PROVE  waiters[class[c]] > 0
<1>1. class[c] \in Class /\ c \in Queued(class[c])
  BY DEF SchedulerTypeOK, Queued
<1>2. Cardinality(Queued(class[c])) # 0
  BY <1>1, CallersFinite, FS_EmptySet
<1>3. QED
  BY <1>1, <1>2, CallersFinite DEF CountsAreReal

\* A caller that runs is counted as well.
LEMMA RunnerCounted ==
  ASSUME SchedulerTypeOK, CountsAreReal, NEW c \in Caller, state[c] = "running"
  PROVE  active[class[c]] > 0
<1>1. class[c] \in Class /\ c \in Running(class[c])
  BY DEF SchedulerTypeOK, Running
<1>2. Cardinality(Running(class[c])) # 0
  BY <1>1, CallersFinite, FS_EmptySet
<1>3. QED
  BY <1>1, <1>2, CallersFinite DEF CountsAreReal

\* Every step keeps every variable in its type.
LEMMA TypePreserved ==
  SchedulerTypeOK /\ [SchedulerNext]_schedulerVars => SchedulerTypeOK'
<1> SUFFICES ASSUME SchedulerTypeOK, [SchedulerNext]_schedulerVars
             PROVE  SchedulerTypeOK'
  OBVIOUS
<1> USE DEF SchedulerTypeOK, State, Unregister, Notify
<1>1. ASSUME NEW c \in Caller, NEW k \in Class, Request(c, k) PROVE SchedulerTypeOK'
  BY <1>1 DEF Request
<1>2. ASSUME NEW c \in Caller, Cancel(c) PROVE SchedulerTypeOK'
  BY <1>2 DEF Cancel
<1>3. ASSUME NEW c \in Caller, Acquire(c) PROVE SchedulerTypeOK'
  BY <1>3 DEF Acquire
<1>4. ASSUME NEW c \in Caller, Wait(c) PROVE SchedulerTypeOK'
  BY <1>4 DEF Wait
<1>5. ASSUME NEW c \in Caller, GiveUp(c) PROVE SchedulerTypeOK'
  BY <1>5 DEF GiveUp
<1>6. ASSUME NEW c \in Caller, Release(c) PROVE SchedulerTypeOK'
  BY <1>6 DEF Release
<1>7. CASE UNCHANGED schedulerVars
  BY <1>7 DEF schedulerVars
<1>8. QED
  BY <1>1, <1>2, <1>3, <1>4, <1>5, <1>6, <1>7 DEF SchedulerNext

-----------------------------------------------------------------------------
(***************************************************************************)
(* The counters.  A step moves one caller, so each set of callers gains or  *)
(* loses at most that one, and the counter of its class follows.            *)
(***************************************************************************)
\* What happens to the count of a set that gains or loses one caller.
LEMMA CountFollows ==
  ASSUME NEW S, IsFiniteSet(S), NEW x
  PROVE  /\ x \notin S => Cardinality(S \cup {x}) = Cardinality(S) + 1
         /\ x \in S => Cardinality(S \ {x}) = Cardinality(S) - 1
  BY FS_AddElement, FS_RemoveElement

\* analysis_scheduler.go:78-118, 159-173: registering, leaving, acquiring and
\* releasing keep both counters in step with the callers they count.
LEMMA CountsPreserved ==
  SchedulerTypeOK /\ CountsAreReal /\ [SchedulerNext]_schedulerVars => CountsAreReal'
<1> SUFFICES ASSUME SchedulerTypeOK, CountsAreReal, [SchedulerNext]_schedulerVars
             PROVE  CountsAreReal'
  OBVIOUS
<1> USE DEF SchedulerTypeOK, State, Waiting, Running, Queued
<1>a. ASSUME \A k \in Class : Running(k)' = Running(k) /\ Queued(k)' = Queued(k),
             active' = active, waiters' = waiters
      PROVE  CountsAreReal'
  BY <1>a DEF CountsAreReal
<1>1. ASSUME NEW c \in Caller, NEW k \in Class, Request(c, k) PROVE CountsAreReal'
  BY <1>1, <1>a DEF Request
<1>2. ASSUME NEW c \in Caller, Cancel(c) PROVE CountsAreReal'
  BY <1>2, <1>a DEF Cancel
<1>3. ASSUME NEW c \in Caller, Acquire(c) PROVE CountsAreReal'
  <2>a. PICK k \in Class : k = class[c]
    OBVIOUS
  <2>1. class[c] = k /\ class' = class
    BY <1>3, <2>a DEF Acquire
  <2>2. /\ c \notin Running(k)
        /\ Running(k)' = Running(k) \cup {c}
        /\ \A j \in Class \ {k} : Running(j)' = Running(j)
    BY <1>3, <2>1 DEF Acquire, Unregister, Notify
  <2>3. active' = [active EXCEPT ![k] = @ + 1]
    BY <1>3, <2>1 DEF Acquire
  <2>4. \A j \in Class : active'[j] = Cardinality(Running(j)')
    <3> HIDE DEF Running
    <3>1. Cardinality(Running(k)') = Cardinality(Running(k)) + 1
      BY <2>1, <2>2, CallersFinite, CountFollows
    <3>2. QED
      BY <2>1, <2>2, <2>3, <3>1 DEF CountsAreReal
  <2>5. CASE state[c] = "awake"
    <3>1. waiters[k] > 0
      BY <2>1, <2>5, WaiterCounted
    <3>2. /\ c \in Queued(k)
          /\ Queued(k)' = Queued(k) \ {c}
          /\ \A j \in Class \ {k} : Queued(j)' = Queued(j)
      BY <1>3, <2>1, <2>5, <3>1 DEF Acquire, Unregister, Notify
    <3>3. waiters' = [waiters EXCEPT ![k] = @ - 1]
      BY <1>3, <2>1, <2>5, <3>1 DEF Acquire, Unregister
    <3> HIDE DEF Running, Queued
    <3>4. Cardinality(Queued(k)') = Cardinality(Queued(k)) - 1
      BY <2>1, <3>2, CallersFinite, CountFollows
    <3>5. \A j \in Class : waiters'[j] = Cardinality(Queued(j)')
      BY <2>1, <3>2, <3>3, <3>4 DEF CountsAreReal
    <3>6. QED
      BY <2>4, <3>5 DEF CountsAreReal
  <2>6. CASE state[c] = "trying"
    <3>1. \A j \in Class : Queued(j)' = Queued(j)
      BY <1>3, <2>6 DEF Acquire
    <3>2. waiters' = waiters
      BY <1>3, <2>6 DEF Acquire
    <3>3. QED
      BY <2>4, <3>1, <3>2 DEF CountsAreReal
  <2>7. QED
    BY <1>3, <2>5, <2>6 DEF Acquire
<1>4. ASSUME NEW c \in Caller, Wait(c) PROVE CountsAreReal'
  <2>a. PICK k \in Class : k = class[c]
    OBVIOUS
  <2>1. class[c] = k /\ class' = class /\ active' = active
    BY <1>4, <2>a DEF Wait
  <2>2. \A j \in Class : Running(j)' = Running(j)
    BY <1>4 DEF Wait
  <2>3. CASE state[c] = "awake"
    <3>1. \A j \in Class : Queued(j)' = Queued(j)
      BY <1>4, <2>3 DEF Wait
    <3>2. QED
      BY <1>4, <1>a, <2>1, <2>2, <2>3, <3>1 DEF Wait
  <2>4. CASE state[c] = "trying"
    <3>1. /\ c \notin Queued(k)
          /\ Queued(k)' = Queued(k) \cup {c}
          /\ \A j \in Class \ {k} : Queued(j)' = Queued(j)
      BY <1>4, <2>1, <2>4 DEF Wait
    <3> HIDE DEF Running, Queued
    <3>2. Cardinality(Queued(k)') = Cardinality(Queued(k)) + 1
      BY <2>1, <3>1, CallersFinite, CountFollows
    <3>3. waiters' = [waiters EXCEPT ![k] = @ + 1]
      BY <1>4, <2>1, <2>4 DEF Wait
    <3>4. QED
      BY <2>1, <2>2, <3>1, <3>2, <3>3 DEF CountsAreReal
  <2>5. QED
    BY <1>4, <2>3, <2>4 DEF Wait
<1>5. ASSUME NEW c \in Caller, GiveUp(c) PROVE CountsAreReal'
  <2>a. PICK k \in Class : k = class[c]
    OBVIOUS
  <2>1. class[c] = k /\ class' = class /\ active' = active
    BY <1>5, <2>a DEF GiveUp
  <2>2. \A j \in Class : Running(j)' = Running(j)
    BY <1>5 DEF GiveUp, Unregister, Notify
  <2>3. CASE Waiting(c)
    <3>1. waiters[k] > 0
      BY <2>1, <2>3, WaiterCounted
    <3>2. /\ c \in Queued(k)
          /\ Queued(k)' = Queued(k) \ {c}
          /\ \A j \in Class \ {k} : Queued(j)' = Queued(j)
      BY <1>5, <2>1, <2>3, <3>1 DEF GiveUp, Unregister, Notify
    <3>3. waiters' = [waiters EXCEPT ![k] = @ - 1]
      BY <1>5, <2>1, <2>3, <3>1 DEF GiveUp, Unregister
    <3> HIDE DEF Running, Queued
    <3>4. Cardinality(Queued(k)') = Cardinality(Queued(k)) - 1
      BY <2>1, <3>2, CallersFinite, CountFollows
    <3>5. QED
      BY <2>1, <2>2, <3>2, <3>3, <3>4 DEF CountsAreReal
  <2>4. CASE state[c] = "trying"
    <3>1. \A j \in Class : Queued(j)' = Queued(j)
      BY <1>5, <2>4 DEF GiveUp
    <3>2. QED
      BY <1>5, <1>a, <2>1, <2>2, <2>4, <3>1 DEF GiveUp
  <2>5. QED
    BY <1>5, <2>3, <2>4 DEF GiveUp
<1>6. ASSUME NEW c \in Caller, Release(c) PROVE CountsAreReal'
  <2>a. PICK k \in Class : k = class[c]
    OBVIOUS
  <2>1. class[c] = k /\ class' = class /\ waiters' = waiters
    BY <1>6, <2>a DEF Release
  <2>2. /\ c \in Running(k)
        /\ Running(k)' = Running(k) \ {c}
        /\ \A j \in Class \ {k} : Running(j)' = Running(j)
    BY <1>6, <2>1 DEF Release, Notify
  <2>3. \A j \in Class : Queued(j)' = Queued(j)
    BY <1>6 DEF Release, Notify
  <2>4. active' = [active EXCEPT ![k] = @ - 1]
    BY <1>6, <2>1, RunnerCounted DEF Release
  <2> HIDE DEF Running, Queued
  <2>5. Cardinality(Running(k)') = Cardinality(Running(k)) - 1
    BY <2>1, <2>2, CallersFinite, CountFollows
  <2>6. QED
    BY <2>1, <2>2, <2>3, <2>4, <2>5 DEF CountsAreReal
<1>7. CASE UNCHANGED schedulerVars
  BY <1>7, <1>a DEF schedulerVars
<1>8. QED
  BY <1>1, <1>2, <1>3, <1>4, <1>5, <1>6, <1>7 DEF SchedulerNext

-----------------------------------------------------------------------------
(***************************************************************************)
(* Wake-ups and bounds.                                                     *)
(***************************************************************************)
\* analysis_scheduler.go:168-178: a waiter that leaves is counted, so that its
\* departure wakes every sleeper.
LEMMA DepartureWakes ==
  ASSUME SchedulerTypeOK, CountsAreReal, NEW c \in Caller, NEW next \in {"out", "running"},
         Waiting(c), Unregister(c, next)
  PROVE  \A b \in Caller : state'[b] # "asleep"
  BY WaiterCounted DEF SchedulerTypeOK, Unregister, Notify

\* What takes a permit or registers never makes a permit available, and what
\* does wakes every sleeper.
LEMMA WakeupPreserved ==
  SchedulerTypeOK /\ CountsAreReal /\ NoLostWakeup /\ [SchedulerNext]_schedulerVars
    => NoLostWakeup'
<1> SUFFICES ASSUME SchedulerTypeOK, CountsAreReal, NoLostWakeup, [SchedulerNext]_schedulerVars
             PROVE  NoLostWakeup'
  OBVIOUS
<1> USE TotalLimitsAssumption
        DEF SchedulerTypeOK, State, Class, Before, NoLostWakeup, CanAcquire, Total,
            BackgroundLimit
<1>1. ASSUME NEW c \in Caller, NEW k \in Class, Request(c, k) PROVE NoLostWakeup'
  BY <1>1 DEF Request
<1>2. ASSUME NEW c \in Caller, Cancel(c) PROVE NoLostWakeup'
  BY <1>2 DEF Cancel
<1>3. ASSUME NEW c \in Caller, Acquire(c) PROVE NoLostWakeup'
  <2>1. CASE state[c] = "awake"
    BY <1>3, <2>1, DepartureWakes DEF Acquire, Waiting
  <2>2. CASE state[c] = "trying"
    BY <1>3, <2>2 DEF Acquire
  <2>3. QED
    BY <1>3, <2>1, <2>2 DEF Acquire
<1>4. ASSUME NEW c \in Caller, Wait(c) PROVE NoLostWakeup'
  BY <1>4 DEF Wait
<1>5. ASSUME NEW c \in Caller, GiveUp(c) PROVE NoLostWakeup'
  <2>1. CASE Waiting(c)
    <3>1. Unregister(c, "out")
      BY <1>5, <2>1 DEF GiveUp, Waiting
    <3>2. \A b \in Caller : state'[b] # "asleep"
      BY <2>1, <3>1, DepartureWakes
    <3>3. QED
      BY <3>2
  <2>2. CASE state[c] = "trying"
    BY <1>5, <2>2 DEF GiveUp, Waiting
  <2>3. QED
    BY <1>5, <2>1, <2>2 DEF GiveUp
<1>6. ASSUME NEW c \in Caller, Release(c) PROVE NoLostWakeup'
  BY <1>6 DEF Release, Notify
<1>7. CASE UNCHANGED schedulerVars
  BY <1>7 DEF schedulerVars
<1>8. QED
  BY <1>1, <1>2, <1>3, <1>4, <1>5, <1>6, <1>7 DEF SchedulerNext

\* PermitsBounded of the counters.
ActiveBounded ==
  /\ \/ Total <= totalLimit
     \/ /\ totalLimit = 1
        /\ active["interactive"] = 1 /\ active["fast"] = 0 /\ active["background"] = 1
  /\ active["background"] <= BackgroundLimit

\* analysis_scheduler.go:132-157: no permit is handed out beyond the limits.
LEMMA BoundPreserved ==
  SchedulerTypeOK /\ ActiveBounded /\ [SchedulerNext]_schedulerVars => ActiveBounded'
<1> SUFFICES ASSUME SchedulerTypeOK, ActiveBounded, [SchedulerNext]_schedulerVars
             PROVE  ActiveBounded'
  OBVIOUS
<1> USE TotalLimitsAssumption
        DEF SchedulerTypeOK, Class, Before, ActiveBounded, CanAcquire, Total, BackgroundLimit
<1>1. ASSUME NEW c \in Caller, NEW k \in Class, Request(c, k) PROVE ActiveBounded'
  BY <1>1 DEF Request
<1>2. ASSUME NEW c \in Caller, Cancel(c) PROVE ActiveBounded'
  BY <1>2 DEF Cancel
<1>3. ASSUME NEW c \in Caller, Acquire(c) PROVE ActiveBounded'
  BY <1>3 DEF Acquire
<1>4. ASSUME NEW c \in Caller, Wait(c) PROVE ActiveBounded'
  BY <1>4 DEF Wait
<1>5. ASSUME NEW c \in Caller, GiveUp(c) PROVE ActiveBounded'
  BY <1>5 DEF GiveUp
<1>6. ASSUME NEW c \in Caller, Release(c) PROVE ActiveBounded'
  BY <1>6 DEF Release
<1>7. CASE UNCHANGED schedulerVars
  BY <1>7 DEF schedulerVars
<1>8. QED
  BY <1>1, <1>2, <1>3, <1>4, <1>5, <1>6, <1>7 DEF SchedulerNext

-----------------------------------------------------------------------------
(***************************************************************************)
(* The inductive invariant and what follows from it.                        *)
(***************************************************************************)
SchedulerInv == SchedulerTypeOK /\ CountsAreReal /\ NoLostWakeup /\ ActiveBounded

\* Every reachable state, for any callers and number of permits, satisfies it.
THEOREM SchedulerInvariant == SchedulerSpec => []SchedulerInv
<1>1. SchedulerInit => SchedulerInv
  <2> SUFFICES ASSUME SchedulerInit PROVE SchedulerInv
    OBVIOUS
  <2>1. SchedulerTypeOK /\ NoLostWakeup /\ ActiveBounded
    BY TotalLimitsAssumption
    DEF SchedulerInit, SchedulerTypeOK, State, Class, NoLostWakeup, ActiveBounded, Total,
        BackgroundLimit
  <2>2. \A k \in Class : Running(k) = {} /\ Queued(k) = {}
    BY DEF SchedulerInit, Running, Queued, Waiting
  <2>3. CountsAreReal
    BY <2>2, FS_EmptySet DEF SchedulerInit, CountsAreReal
  <2>4. QED
    BY <2>1, <2>3 DEF SchedulerInv
<1>2. SchedulerInv /\ [SchedulerNext]_schedulerVars => SchedulerInv'
  BY TypePreserved, CountsPreserved, WakeupPreserved, BoundPreserved DEF SchedulerInv
<1>3. QED
  BY <1>1, <1>2, PTL DEF SchedulerSpec

\* analysis_scheduler.go: the counters never drop below zero, and callers stay
\* in the places of the code.
THEOREM SchedulerTypeOKHolds == SchedulerSpec => []SchedulerTypeOK
<1>1. SchedulerInv => SchedulerTypeOK
  BY DEF SchedulerInv
<1>2. QED
  BY <1>1, SchedulerInvariant, PTL

\* analysis_scheduler.go:78-118: the counters are the callers they stand for.
THEOREM CountsAreRealHolds == SchedulerSpec => []CountsAreReal
<1>1. SchedulerInv => CountsAreReal
  BY DEF SchedulerInv
<1>2. QED
  BY <1>1, SchedulerInvariant, PTL

\* analysis_scheduler.go:159-178: nobody sleeps who could have a permit.
THEOREM NoLostWakeupHolds == SchedulerSpec => []NoLostWakeup
<1>1. SchedulerInv => NoLostWakeup
  BY DEF SchedulerInv
<1>2. QED
  BY <1>1, SchedulerInvariant, PTL

\* analysis_scheduler.go:132-157: no more callers run than there are permits,
\* but for the one overcommit.
THEOREM PermitsBoundedHolds == SchedulerSpec => []PermitsBounded
<1>1. SchedulerInv => PermitsBounded
  BY DEF SchedulerInv, CountsAreReal, ActiveBounded, Total, PermitsBounded, Class
<1>2. QED
  BY <1>1, SchedulerInvariant, PTL

\* analysis_scheduler.go:36-37, 140: background work alone never makes an
\* interactive request wait.
THEOREM InteractiveReservedHolds == SchedulerSpec => []InteractiveReserved
<1>1. SchedulerInv => InteractiveReserved
  <2> SUFFICES ASSUME SchedulerInv, NEW c \in Caller, state[c] = "asleep",
                      class[c] = "interactive",
                      \A b \in Caller : ~(state[b] = "running" /\ class[b] # "background")
               PROVE  FALSE
    BY DEF InteractiveReserved
  <2>1. Running("interactive") = {} /\ Running("fast") = {}
    BY DEF Running
  <2>2. active["interactive"] = 0 /\ active["fast"] = 0
    BY <2>1, FS_EmptySet DEF SchedulerInv, CountsAreReal, Class
  <2>3. ~CanAcquire("interactive")
    BY DEF SchedulerInv, NoLostWakeup
  <2>4. QED
    BY <2>2, <2>3, TotalLimitsAssumption
    DEF SchedulerInv, SchedulerTypeOK, Class, ActiveBounded, CanAcquire, Total, BackgroundLimit,
        Before
<1>2. QED
  BY <1>1, SchedulerInvariant, PTL

\* analysis_scheduler.go:38, 146-156: nobody starts while a caller of a class
\* before it waits.
THEOREM PriorityKeptHolds == SchedulerSpec => PriorityKept
<1> DEFINE Kept == \A c, b \in Caller :
                     state[c] # "running" /\ state'[c] = "running" /\ Waiting(b)
                       => class[b] \notin Before(class[c])
<1>1. SchedulerInv /\ [SchedulerNext]_schedulerVars => Kept
  <2> SUFFICES ASSUME SchedulerInv, [SchedulerNext]_schedulerVars, NEW c \in Caller,
                      NEW b \in Caller, state[c] # "running", state'[c] = "running", Waiting(b)
               PROVE  class[b] \notin Before(class[c])
    OBVIOUS
  <2>1. Acquire(c)
    BY DEF SchedulerInv, SchedulerTypeOK, State, SchedulerNext, schedulerVars, Request, Cancel,
           Acquire, Wait, GiveUp, Release, Unregister, Notify
  <2>2. waiters[class[b]] > 0
    BY WaiterCounted DEF SchedulerInv
  <2>3. class[b] \in Class /\ class[c] \in Class
    BY DEF SchedulerInv, SchedulerTypeOK
  <2>4. QED
    BY <2>1, <2>2, <2>3 DEF Acquire, CanAcquire, Before, Class
<1>2. QED
  BY <1>1, SchedulerInvariant, PTL DEF SchedulerSpec, PriorityKept
=============================================================================
