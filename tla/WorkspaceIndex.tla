--------------------------- MODULE WorkspaceIndex ---------------------------
(***************************************************************************)
(* internal/lspserver/workspace_analysis_index.go and                       *)
(* workspace_declaration_index.go: what the language server's index holds   *)
(* for one source path, in two layers with a mutex each - the semantic      *)
(* index, and the declaration index that workspace symbols are read from.   *)
(*                                                                          *)
(* Four kinds of actors write the path, one critical section per step:      *)
(* the read loop (didOpen, didChange, didClose and the watcher's            *)
(* updatePath, one at a time), the analysis worker of the open document,    *)
(* the refresh that every didClose starts, and the initial build.  A parse  *)
(* whose context was canceled may end early or run to its end.  The path is *)
(* a configured source throughout; a form that a sidecar comes to replace   *)
(* is left out.  Removing one's own entry from diskParses, which deferred   *)
(* functions do, is part of the step that ends the work.                    *)
(***************************************************************************)
EXTENDS Integers

CONSTANTS
  Content,        \* what the file may hold
  Recovered,      \* contents whose semantic entry is incomplete
  Broken,         \* contents whose parse may fail
  Silent,         \* contents without symbols
  Refresher,      \* bound: refreshes after didClose at work at once
  TextLimit,      \* bound: texts the editor sends
  WriteLimit      \* bound: changes of the file

ASSUME ContentAssumption == Recovered \subseteq Content /\ Broken \subseteq Content /\ Silent \subseteq Content
\* The two other things a read of the file may find are no contents.
ASSUME FileAssumption == {"missing", "unreadable"} \cap Content = {}
ASSUME BoundAssumption == TextLimit \in Nat /\ WriteLimit \in Nat

VARIABLES
  file,       \* the saved file
  writes,     \* how often it was written
  noticed,    \* the watcher has yet to report a change of it
  open,       \* the documents store has the document open
  generation, \* the document's generation in the server
  texts,      \* texts sent so far
  semantic,   \* workspaceAnalysisIndex: the path in each of its tables
  declared,   \* workspaceDeclarationIndex: the path in each of its tables
  parse,      \* diskParses: whose parse of the saved file is active
  canceled,   \* actors whose context was canceled
  ready,      \* ready channels closed: of the declarations, of the index
  loop,       \* the read loop: where it is and what it remembers
  worker,     \* the document's analysis worker
  refresh,    \* the refreshes after didClose
  initial     \* the initial build of the path

vars == <<file, writes, noticed, open, generation, texts, semantic, declared, parse,
          canceled, ready, loop, worker, refresh, initial>>
editor == <<open, generation, texts>>
disk == <<file, writes, noticed>>

File == Content \cup {"missing", "unreadable"}
\* An entry names the text or the file content it was parsed from.  A mask is
\* the empty overlay that abandonOverlay leaves.
None == <<"none", 0>>
Mask == <<"mask", 0>>
Text(g) == <<"text", g>>
Saved(c) == <<"saved", c>>
Entry == {None, Mask} \cup {Text(g) : g \in Nat} \cup {Saved(c) : c \in Content}
Actor == {"loop", "initial"} \cup Refresher

Layer == [generation : Nat, pending : Nat, disk : Entry, overlay : Entry,
          effective : Entry, incomplete : BOOLEAN]
NewLayer == [generation |-> 0, pending |-> 0, disk |-> None, overlay |-> None,
             effective |-> None, incomplete |-> FALSE]
IdleLoop == [at |-> "idle", observed |-> 0, source |-> "missing", began |-> 0]
IdleWorker == [at |-> "idle", generation |-> 0]
IdleRefresh == [at |-> "none", observed |-> 0, source |-> "missing"]

TypeOK ==
  /\ file \in File /\ writes \in 0..WriteLimit /\ noticed \in BOOLEAN
  /\ open \in BOOLEAN /\ generation \in Nat /\ texts \in 0..TextLimit
  /\ \A layer \in {semantic, declared} :
       /\ DOMAIN layer = DOMAIN NewLayer
       /\ layer.generation \in Nat /\ layer.pending \in Nat /\ layer.incomplete \in BOOLEAN
       /\ layer.disk \in {None} \cup {Saved(c) : c \in Content}
       /\ layer.overlay \in {None, Mask} \cup {Text(g) : g \in 1..generation}
       /\ layer.effective \in {None, layer.disk, layer.overlay}
  /\ parse \in Actor \cup {"none"} /\ canceled \subseteq Actor
  /\ ready \in [declarations : BOOLEAN, index : BOOLEAN]
  /\ loop \in [at : {"idle", "reserve", "skip", "update", "read", "unreadable", "compare", "unchanged",
                     "parseDeclarations", "declarationsFailed", "parse", "remove", "removeDeclarations"},
               observed : Nat, source : File, began : Nat]
  /\ worker \in [at : {"idle", "declare", "publishDeclarations", "abandon", "analyze", "publish",
                       "abandonSemantic"}, generation : Nat]
  /\ refresh \in [Refresher -> [at : {"none", "waiting", "clear", "mark", "read", "parse", "absent",
                                      "remove"}, observed : Nat, source : File]]
  /\ initial \in [at : {"discover", "absent", "queued", "skipped", "running", "unreadable", "parse", "declared",
                        "semantics", "parseSemantic", "ready", "done"}, source : File]

Init ==
  /\ file \in File /\ writes = 0 /\ noticed = FALSE
  /\ open = FALSE /\ generation = 0 /\ texts = 0
  /\ semantic = NewLayer /\ declared = NewLayer
  /\ parse = "none" /\ canceled = {}
  /\ ready = [declarations |-> FALSE, index |-> FALSE]
  /\ loop = IdleLoop /\ worker = IdleWorker
  /\ refresh = [r \in Refresher |-> IdleRefresh]
  /\ initial = [at |-> "discover", source |-> "missing"]

-----------------------------------------------------------------------------
\* The parse of the saved file that is active loses its context.
CancelParse == canceled' = canceled \cup ({parse} \ {"none"}) /\ parse' = "none"
StartParse(a) == canceled' = (canceled \cup ({parse} \ {"none"})) \ {a} /\ parse' = a
EndParse(a) == parse' = (IF parse = a THEN "none" ELSE parse) /\ canceled' = canceled \ {a}

Masked(layer) == layer.pending # 0 \/ layer.overlay # None

\* The document's lifecycle lock: didOpen, didChange and didClose against the
\* first half of a refresh.
LifecycleFree == \A r \in Refresher : refresh[r].at \notin {"clear", "mark"}
Handling == loop.at \in {"reserve", "skip"}

\* A disk entry becomes effective unless the open document masks the path.
WithDisk(layer, c, partial) ==
  [layer EXCEPT !.disk = Saved(c), !.incomplete = partial,
                !.effective = IF Masked(layer) THEN @ ELSE Saved(c)]

\* setEffectiveFromEntry, called with a semantic entry that is in force.
Projected(c) == WithDisk(declared, c, c \in Recovered)

(***************************************************************************)
(* Faulty variants of the definitions below.  No specification uses them;   *)
(* each stands for a bug the property named with it must catch.             *)
(***************************************************************************)
\* TypeOK: a reservation leaves the last overlay's entry in force.
ReservedVisible(layer, g) ==
  [layer EXCEPT !.generation = @ + 1, !.pending = g, !.incomplete = FALSE, !.overlay = None]

\* OpenMasksDisk: a refresh counts whatever came after it.
AlwaysInForce(r) == TRUE

\* CompleteIsCurrent: a refresh of the saved file does not take back that the
\* index is complete.
UpsertComplete ==
  /\ loop.at = "update"
  /\ semantic' = [semantic EXCEPT !.generation = @ + 1]
  /\ IF Masked(semantic)
     THEN loop' = IdleLoop /\ UNCHANGED <<parse, canceled>>
     ELSE /\ loop' = [loop EXCEPT !.at = "read", !.observed = semantic.generation + 1]
          /\ StartParse("loop")
  /\ UNCHANGED <<disk, editor, declared, ready, worker, refresh, initial>>

\* SettledIsHonest: closing forgets that an overlay was reserved.
ClearOverlayOnly(r) ==
  /\ refresh[r].at = "waiting" /\ LifecycleFree /\ ~Handling
  /\ IF open
     THEN /\ refresh' = [refresh EXCEPT ![r] = IdleRefresh]
          /\ UNCHANGED <<semantic, parse, canceled>>
     ELSE /\ semantic' = [NewLayer EXCEPT !.generation = semantic.generation + 1, !.incomplete = TRUE,
                                          !.pending = semantic.pending]
          /\ StartParse(r)
          /\ refresh' = [refresh EXCEPT ![r] = [at |-> "clear", observed |-> semantic.generation + 1,
                                               source |-> "missing"]]
  /\ UNCHANGED <<disk, editor, declared, ready, loop, worker, initial>>

-----------------------------------------------------------------------------
\* beginOverlay, on either layer.
Reserved(layer, g) ==
  [layer EXCEPT !.generation = @ + 1, !.pending = g, !.incomplete = FALSE,
                !.overlay = None, !.effective = None]

\* publishOverlay and publishOverlaySemantic.
Published(layer, g, partial) ==
  [layer EXCEPT !.pending = 0, !.incomplete = partial, !.overlay = Text(g), !.effective = Text(g)]

\* abandonOverlay and abandonOverlaySemantic.
Abandoned(layer, g) ==
  IF layer.pending # g THEN layer
  ELSE [layer EXCEPT !.pending = 0, !.incomplete = TRUE, !.overlay = Mask, !.effective = None]

\* removePath of the declaration index: whatever it holds for the path goes.
DeclarationsRemoved ==
  [NewLayer EXCEPT !.generation = declared.generation + 1]

\* recordInitialFailure.
InitialFailure == [declared EXCEPT !.incomplete = @ \/ declared.pending = 0]

\* markIncomplete and markDiskIncomplete.
MarkedIncomplete(layer, g) ==
  [layer EXCEPT !.incomplete = @ \/ (layer.generation = g /\ ~Masked(layer))]

-----------------------------------------------------------------------------
\* Somebody writes, removes or locks the file; the watcher will report it.
Write ==
  /\ writes < WriteLimit /\ file' \in File
  /\ writes' = writes + 1 /\ noticed' = TRUE
  /\ UNCHANGED <<editor, semantic, declared, parse, canceled, ready, loop, worker, refresh, initial>>

\* didOpen and didChange: the documents store and the generation, then
\* beginOverlay in the declaration index and, in Reserve, in the semantic one.
Take(opened) ==
  /\ loop.at = "idle" /\ LifecycleFree /\ texts < TextLimit /\ open = ~opened
  /\ open' = TRUE /\ texts' = texts + 1 /\ generation' = generation + 1
  /\ declared' = Reserved(declared, generation')
  /\ loop' = [IdleLoop EXCEPT !.at = "reserve", !.observed = IF opened THEN 1 ELSE 0]
  /\ UNCHANGED <<disk, semantic, parse, canceled, ready, worker, refresh, initial>>
Open == Take(TRUE)
Change == Take(FALSE)

Reserve ==
  /\ loop.at = "reserve"
  /\ semantic' = Reserved(semantic, generation)
  /\ CancelParse
  /\ loop' = IF loop.observed = 1 THEN [loop EXCEPT !.at = "skip"] ELSE IdleLoop
  /\ UNCHANGED <<disk, editor, declared, ready, worker, refresh, initial>>

\* skipInitialDeclarationPath: a queued job is dropped, a running one loses
\* its context.  Before discovery promoteOpenDocument has left a placeholder.
Skip ==
  /\ loop.at = "skip"
  /\ loop' = IdleLoop
  /\ initial' = IF initial.at \in {"discover", "queued"} THEN [initial EXCEPT !.at = "skipped"] ELSE initial
  /\ canceled' = IF initial.at \in {"running", "unreadable", "parse"} THEN canceled \cup {"initial"} ELSE canceled
  /\ UNCHANGED <<disk, editor, semantic, declared, parse, ready, worker, refresh>>

\* didClose: the server forgets the document and starts a refresh.
Close ==
  /\ loop.at = "idle" /\ LifecycleFree /\ open
  /\ \E r \in Refresher : refresh[r].at = "none"
  /\ refresh' = [refresh EXCEPT ![CHOOSE r \in Refresher : refresh[r].at = "none"].at = "waiting"]
  /\ open' = FALSE /\ generation' = generation + 1
  /\ UNCHANGED <<disk, texts, semantic, declared, parse, canceled, ready, loop, worker, initial>>

-----------------------------------------------------------------------------
\* didChangeWatchedFiles: updatePath reads whatever the file holds by now.
Update ==
  /\ loop.at = "idle" /\ noticed
  /\ noticed' = FALSE
  /\ loop' = [IdleLoop EXCEPT !.at = "update"]
  /\ UNCHANGED <<file, writes, editor, semantic, declared, parse, canceled, ready, worker, refresh, initial>>

\* upsertDisk: an open document masks the path and ends the call.
Upsert ==
  /\ loop.at = "update"
  /\ IF Masked(semantic)
     THEN /\ semantic' = [semantic EXCEPT !.generation = @ + 1]
          /\ loop' = IdleLoop
          /\ UNCHANGED <<parse, canceled>>
     ELSE /\ semantic' = [semantic EXCEPT !.generation = @ + 1, !.incomplete = TRUE]
          /\ loop' = [loop EXCEPT !.at = "read", !.observed = semantic.generation + 1]
          /\ StartParse("loop")
  /\ UNCHANGED <<disk, editor, declared, ready, worker, refresh, initial>>

ReadFile ==
  /\ loop.at = "read"
  /\ CASE file = "missing" ->
            loop' = [loop EXCEPT !.at = "remove"] /\ UNCHANGED semantic
       [] file = "unreadable" ->
            /\ loop' = [loop EXCEPT !.at = "unreadable"]
            /\ semantic' = MarkedIncomplete(semantic, loop.observed)
       [] OTHER ->
            loop' = [loop EXCEPT !.at = "compare", !.source = file] /\ UNCHANGED semantic
  /\ UNCHANGED <<disk, editor, declared, parse, canceled, ready, worker, refresh, initial>>

\* beginDisk: a refresh of the declarations begins.
DiskBegun ==
  [declared EXCEPT !.generation = @ + 1, !.incomplete = @ \/ declared.pending = 0]

\* The file could not be read: the declarations are incomplete as well.
Unreadable ==
  /\ loop.at = "unreadable"
  /\ declared' = DiskBegun
  /\ loop' = [loop EXCEPT !.at = "declarationsFailed", !.began = declared.generation + 1]
  /\ UNCHANGED <<disk, editor, semantic, parse, canceled, ready, worker, refresh, initial>>

\* Both layers may hold this very version already (matchesVersion).
Compare ==
  /\ loop.at = "compare"
  /\ LET saved == Saved(loop.source)
     IN IF semantic.disk = saved /\ declared.disk = saved /\ ~declared.incomplete
        THEN loop' = [loop EXCEPT !.at = "unchanged"] /\ UNCHANGED declared
        ELSE /\ declared' = DiskBegun
             /\ loop' = [loop EXCEPT !.at = "parseDeclarations", !.began = declared.generation + 1]
  /\ UNCHANGED <<disk, editor, semantic, parse, canceled, ready, worker, refresh, initial>>

Unchanged ==
  /\ loop.at = "unchanged"
  /\ semantic' = IF semantic.generation # loop.observed THEN semantic
                 ELSE [semantic EXCEPT !.incomplete = loop.source \in Recovered]
  /\ loop' = IdleLoop /\ EndParse("loop")
  /\ UNCHANGED <<disk, editor, declared, ready, worker, refresh, initial>>

\* A parse that notices that its context was canceled ends the call.
ParseCanceled ==
  /\ loop.at \in {"parseDeclarations", "parse"} /\ "loop" \in canceled
  /\ loop' = IdleLoop /\ EndParse("loop")
  /\ UNCHANGED <<disk, editor, semantic, declared, ready, worker, refresh, initial>>

\* The declarations of the file, published by setDisk while no newer refresh
\* of them began, or the failure of their parse.  Whether the declaration parse
\* had to recover is asked of it alone, and left open here.
ParseDeclarations ==
  /\ loop.at = "parseDeclarations"
  /\ \/ /\ declared.generation = loop.began
        /\ \E partial \in BOOLEAN : declared' = WithDisk(declared, loop.source, partial)
        /\ loop' = [loop EXCEPT !.at = "parse"]
        /\ UNCHANGED <<semantic, parse, canceled>>
     \/ /\ declared.generation # loop.began
        /\ loop' = IdleLoop /\ EndParse("loop")
        /\ UNCHANGED <<semantic, declared>>
     \/ /\ loop.source \in Broken
        /\ semantic' = MarkedIncomplete(semantic, loop.observed)
        /\ loop' = [loop EXCEPT !.at = "declarationsFailed"]
        /\ UNCHANGED <<declared, parse, canceled>>
  /\ UNCHANGED <<disk, editor, ready, worker, refresh, initial>>

DeclarationsFailed ==
  /\ loop.at = "declarationsFailed"
  /\ declared' = MarkedIncomplete(declared, loop.began)
  /\ loop' = IdleLoop /\ EndParse("loop")
  /\ UNCHANGED <<disk, editor, semantic, ready, worker, refresh, initial>>

\* The semantic entry, and with it the declarations unless it has no symbols.
Parse ==
  /\ loop.at = "parse"
  /\ \/ /\ semantic.generation = loop.observed
        /\ semantic' = WithDisk(semantic, loop.source, loop.source \in Recovered)
        /\ declared' = IF loop.source \in Silent THEN declared ELSE Projected(loop.source)
     \/ semantic.generation # loop.observed /\ UNCHANGED <<semantic, declared>>
     \/ /\ loop.source \in Broken
        /\ semantic' = MarkedIncomplete(semantic, loop.observed) /\ UNCHANGED declared
  /\ loop' = IdleLoop /\ EndParse("loop")
  /\ UNCHANGED <<disk, editor, ready, worker, refresh, initial>>

\* removePath: the semantic layer keeps what an open document published.
Remove ==
  /\ loop.at = "remove"
  /\ semantic' = [semantic EXCEPT !.generation = @ + 1, !.disk = None, !.incomplete = FALSE,
                                  !.effective = IF Masked(semantic) THEN @ ELSE None]
  /\ CancelParse
  /\ loop' = [loop EXCEPT !.at = "removeDeclarations"]
  /\ UNCHANGED <<disk, editor, declared, ready, worker, refresh, initial>>

RemoveDeclarations ==
  /\ loop.at = "removeDeclarations"
  /\ declared' = DeclarationsRemoved
  /\ loop' = IdleLoop /\ EndParse("loop")
  /\ UNCHANGED <<disk, editor, semantic, ready, worker, refresh, initial>>

-----------------------------------------------------------------------------
\* beginClearOverlay, unless the document is open again: the path shows nothing
\* in the semantic index, then (ClearDeclarations, MarkCleared) in the other.
Clear(r) ==
  /\ refresh[r].at = "waiting" /\ LifecycleFree /\ ~Handling
  /\ IF open
     THEN /\ refresh' = [refresh EXCEPT ![r] = IdleRefresh]
          /\ UNCHANGED <<semantic, parse, canceled>>
     ELSE /\ semantic' = [NewLayer EXCEPT !.generation = semantic.generation + 1, !.incomplete = TRUE]
          /\ StartParse(r)
          /\ refresh' = [refresh EXCEPT ![r] = [at |-> "clear", observed |-> semantic.generation + 1,
                                               source |-> "missing"]]
  /\ UNCHANGED <<disk, editor, declared, ready, loop, worker, initial>>

ClearDeclarations(r) ==
  /\ refresh[r].at = "clear"
  /\ declared' = DeclarationsRemoved
  /\ refresh' = [refresh EXCEPT ![r].at = "mark"]
  /\ UNCHANGED <<disk, editor, semantic, parse, canceled, ready, loop, worker, initial>>

MarkCleared(r) ==
  /\ refresh[r].at = "mark"
  /\ declared' = InitialFailure
  /\ refresh' = [refresh EXCEPT ![r].at = "read"]
  /\ UNCHANGED <<disk, editor, semantic, parse, canceled, ready, loop, worker, initial>>

\* finishClearOverlay, no longer under the lifecycle lock.
RefreshRead(r) ==
  /\ refresh[r].at = "read"
  /\ CASE file = "missing" ->
            refresh' = [refresh EXCEPT ![r].at = "absent"] /\ UNCHANGED <<parse, canceled>>
       [] file = "unreadable" ->
            refresh' = [refresh EXCEPT ![r] = IdleRefresh] /\ EndParse(r)
       [] OTHER ->
            /\ refresh' = [refresh EXCEPT ![r].at = "parse", ![r].source = file]
            /\ UNCHANGED <<parse, canceled>>
  /\ UNCHANGED <<disk, editor, semantic, declared, ready, loop, worker, initial>>

InForce(r) == semantic.generation = refresh[r].observed /\ parse = r

\* The parse fails, is canceled, or counts if the refresh is still in force.
RefreshParse(r) ==
  /\ refresh[r].at = "parse"
  /\ \/ /\ r \in canceled \/ refresh[r].source \in Broken \/ ~InForce(r)
        /\ UNCHANGED <<semantic, declared>>
     \/ /\ InForce(r)
        /\ semantic' = [semantic EXCEPT !.disk = Saved(refresh[r].source),
                                        !.effective = Saved(refresh[r].source),
                                        !.incomplete = refresh[r].source \in Recovered]
        /\ declared' = Projected(refresh[r].source)
  /\ refresh' = [refresh EXCEPT ![r] = IdleRefresh] /\ EndParse(r)
  /\ UNCHANGED <<disk, editor, ready, loop, worker, initial>>

\* completeClearWithoutEntry, then removePath of the declaration index.
RefreshAbsent(r) ==
  /\ refresh[r].at = "absent"
  /\ semantic' = IF InForce(r) THEN [semantic EXCEPT !.incomplete = FALSE] ELSE semantic
  /\ refresh' = [refresh EXCEPT ![r].at = "remove"]
  /\ UNCHANGED <<disk, editor, declared, parse, canceled, ready, loop, worker, initial>>

RefreshRemove(r) ==
  /\ refresh[r].at = "remove"
  /\ declared' = DeclarationsRemoved
  /\ refresh' = [refresh EXCEPT ![r] = IdleRefresh] /\ EndParse(r)
  /\ UNCHANGED <<disk, editor, semantic, ready, loop, worker, initial>>

-----------------------------------------------------------------------------
\* analysisGenerationCurrent; didOpen and didChange hold the state's mutex
\* until the overlay is reserved.
Current == open /\ generation = worker.generation

To(place) == worker' = [worker EXCEPT !.at = place]
StopWorker == worker' = [IdleWorker EXCEPT !.generation = worker.generation]

\* The worker takes up a generation it has not worked on.
Launch ==
  /\ worker.at = "idle" /\ open /\ ~Handling /\ worker.generation # generation
  /\ worker' = [at |-> "declare", generation |-> generation]
  /\ UNCHANGED <<disk, editor, semantic, declared, parse, canceled, ready, loop, refresh, initial>>

\* The declarations of the text are parsed, or cannot be.
Declare ==
  /\ worker.at = "declare" /\ loop.at # "reserve"
  /\ IF Current THEN To("publishDeclarations") \/ To("abandon") ELSE StopWorker
  /\ UNCHANGED <<disk, editor, semantic, declared, parse, canceled, ready, loop, refresh, initial>>

PublishDeclarations ==
  /\ worker.at = "publishDeclarations"
  /\ IF declared.pending = worker.generation
     THEN /\ \E partial \in BOOLEAN : declared' = Published(declared, worker.generation, partial)
          /\ To("analyze")
     ELSE /\ UNCHANGED declared
          /\ loop.at # "reserve"
          /\ IF Current THEN To("abandon") ELSE StopWorker
  /\ UNCHANGED <<disk, editor, semantic, parse, canceled, ready, loop, refresh, initial>>

Abandon ==
  /\ worker.at = "abandon"
  /\ declared' = Abandoned(declared, worker.generation)
  /\ To("abandonSemantic")
  /\ UNCHANGED <<disk, editor, semantic, parse, canceled, ready, loop, refresh, initial>>

Analyze ==
  /\ worker.at = "analyze" /\ loop.at # "reserve"
  /\ IF Current THEN To("publish") \/ To("abandonSemantic") ELSE StopWorker
  /\ UNCHANGED <<disk, editor, semantic, declared, parse, canceled, ready, loop, refresh, initial>>

Publish ==
  /\ worker.at = "publish"
  /\ IF semantic.pending = worker.generation
     THEN /\ \E partial \in BOOLEAN : semantic' = Published(semantic, worker.generation, partial)
          /\ StopWorker
     ELSE /\ UNCHANGED semantic
          /\ loop.at # "reserve"
          /\ IF Current THEN To("abandonSemantic") ELSE StopWorker
  /\ UNCHANGED <<disk, editor, declared, parse, canceled, ready, loop, refresh, initial>>

AbandonSemantic ==
  /\ worker.at = "abandonSemantic"
  /\ semantic' = Abandoned(semantic, worker.generation)
  /\ StopWorker
  /\ UNCHANGED <<disk, editor, declared, parse, canceled, ready, loop, refresh, initial>>

-----------------------------------------------------------------------------
\* buildInitial: the files there are become jobs, those of open documents
\* excepted.
Discover ==
  /\ initial.at = "discover"
  /\ initial' = [initial EXCEPT !.at = IF file = "missing" THEN "absent" ELSE "queued"]
  /\ UNCHANGED <<disk, editor, semantic, declared, parse, canceled, ready, loop, worker, refresh>>

Claim ==
  /\ initial.at = "queued"
  /\ initial' = [initial EXCEPT !.at = "running"] /\ canceled' = canceled \ {"initial"}
  /\ UNCHANGED <<disk, editor, semantic, declared, parse, ready, loop, worker, refresh>>

InitialRead ==
  /\ initial.at = "running"
  /\ initial' = IF file \in Content THEN [at |-> "parse", source |-> file]
                ELSE [initial EXCEPT !.at = "unreadable"]
  /\ UNCHANGED <<disk, editor, semantic, declared, parse, canceled, ready, loop, worker, refresh>>

InitialUnreadable ==
  /\ initial.at = "unreadable"
  /\ declared' = InitialFailure
  /\ initial' = [initial EXCEPT !.at = "declared"]
  /\ UNCHANGED <<disk, editor, semantic, parse, canceled, ready, loop, worker, refresh>>

\* setDisk(initial) gives way to whatever touched the path since; a parse that
\* fails is recorded unless it was canceled.
InitialParse ==
  /\ initial.at = "parse"
  /\ \/ \E partial \in BOOLEAN :
          declared' = IF declared.generation # 0 THEN declared
                      ELSE WithDisk(declared, initial.source, partial)
     \/ initial.source \in Broken /\ "initial" \notin canceled /\ declared' = InitialFailure
     \/ "initial" \in canceled /\ UNCHANGED declared
  /\ initial' = [initial EXCEPT !.at = "declared"]
  /\ UNCHANGED <<disk, editor, semantic, parse, canceled, ready, loop, worker, refresh>>

\* The declaration phase of the whole workspace ends.
DeclarationsReady ==
  /\ initial.at \in {"absent", "declared", "skipped"}
  /\ ready' = [ready EXCEPT !.declarations = TRUE]
  /\ initial' = [initial EXCEPT !.at = IF initial.at = "absent" THEN "ready" ELSE "semantics"]
  /\ UNCHANGED <<disk, editor, semantic, declared, parse, canceled, loop, worker, refresh>>

Untouched == semantic.generation = 0 /\ semantic.pending = 0
Failed == semantic' = [semantic EXCEPT !.incomplete = @ \/ Untouched]

\* beginInitialSemanticParse, for a file whose source was read.
InitialSemantics ==
  /\ initial.at = "semantics"
  /\ IF initial.source = "missing"
     THEN Failed /\ initial' = [initial EXCEPT !.at = "ready"] /\ UNCHANGED <<parse, canceled>>
     ELSE /\ UNCHANGED semantic
          /\ IF Untouched /\ semantic.overlay = None
             THEN StartParse("initial") /\ initial' = [initial EXCEPT !.at = "parseSemantic"]
             ELSE initial' = [initial EXCEPT !.at = "ready"] /\ UNCHANGED <<parse, canceled>>
  /\ UNCHANGED <<disk, editor, declared, ready, loop, worker, refresh>>

InitialSemanticParse ==
  /\ initial.at = "parseSemantic"
  /\ \/ "initial" \in canceled /\ UNCHANGED <<semantic, declared>>
     \/ initial.source \in Broken /\ Failed /\ UNCHANGED declared
     \/ /\ Untouched
        /\ semantic' = WithDisk(semantic, initial.source, initial.source \in Recovered)
        /\ declared' = IF initial.source \in Silent THEN declared ELSE Projected(initial.source)
     \/ ~Untouched /\ UNCHANGED <<semantic, declared>>
  /\ EndParse("initial") /\ initial' = [initial EXCEPT !.at = "ready"]
  /\ UNCHANGED <<disk, editor, ready, loop, worker, refresh>>

IndexReady ==
  /\ initial.at = "ready"
  /\ ready' = [ready EXCEPT !.index = TRUE]
  /\ initial' = [at |-> "done", source |-> "missing"]
  /\ UNCHANGED <<disk, editor, semantic, declared, parse, canceled, loop, worker, refresh>>

-----------------------------------------------------------------------------
Loop ==
  \/ Reserve \/ Skip \/ Upsert \/ ReadFile \/ Unreadable \/ Compare \/ Unchanged \/ ParseCanceled
  \/ ParseDeclarations \/ DeclarationsFailed \/ Parse \/ Remove \/ RemoveDeclarations
Worker ==
  \/ Launch \/ Declare \/ PublishDeclarations \/ Abandon \/ Analyze \/ Publish \/ AbandonSemantic
Refresh(r) ==
  \/ Clear(r) \/ ClearDeclarations(r) \/ MarkCleared(r) \/ RefreshRead(r) \/ RefreshParse(r)
  \/ RefreshAbsent(r) \/ RefreshRemove(r)
Build ==
  \/ Discover \/ Claim \/ InitialRead \/ InitialUnreadable \/ InitialParse \/ DeclarationsReady
  \/ InitialSemantics \/ InitialSemanticParse \/ IndexReady

Next ==
  \/ Write \/ Open \/ Change \/ Close \/ Update
  \/ Loop \/ Worker \/ Build \/ \E r \in Refresher : Refresh(r)

Spec == Init /\ [][Next]_vars

-----------------------------------------------------------------------------
\* completeLocked, as far as this path is concerned.
LayerComplete(layer) == layer.pending = 0 /\ ~layer.incomplete
Complete == LayerComplete(semantic) /\ LayerComplete(declared) /\ ready.declarations /\ ready.index

\* What the path ought to show: the open text or else the saved file.
Truth == IF open THEN Text(generation) ELSE IF file \in Content THEN Saved(file) ELSE None

\* News of the path that has not reached the index yet.
Behind ==
  \/ noticed \/ loop.at \in {"update", "reserve"}
  \/ \E r \in Refresher : refresh[r].at = "waiting"

\* workspace_analysis_index.go:1158: "An open document is authoritative."  While
\* one is open the semantic layer shows nothing but its newest text, and neither
\* layer shows an older one.
OpenMasksDisk ==
  open /\ loop.at # "reserve" =>
    /\ semantic.effective \in {None, Text(generation)}
    /\ \A g \in 1..generation - 1 : declared.effective # Text(g)

\* workspace_analysis_index.go:742: an index that calls itself complete is safe for
\* project-wide negative answers: it shows what is true of the path, except for
\* news that no actor has begun to work on.
CompleteIsCurrent == Complete /\ ~Behind => semantic.effective = Truth

Quiet ==
  /\ ~noticed /\ loop.at = "idle" /\ initial.at = "done"
  /\ worker.at = "idle" /\ (open => worker.generation = generation)
  /\ \A r \in Refresher : refresh[r].at = "none"

\* When nothing is left to do no reservation stands, a closed document has left no
\* overlay, and the semantic layer shows the truth or says that it is incomplete.
SettledIsHonest ==
  Quiet =>
    /\ \A layer \in {semantic, declared} :
         layer.pending = 0 /\ (layer.overlay # None => open)
    /\ semantic.effective = Truth \/ semantic.incomplete

\* workspace_analysis_index.go:1134: "The current filesystem state wins over the
\* notification kind, making duplicate and out-of-order notifications safe."  When
\* nothing is left to do, a closed file without faults is shown as it is saved.
SavedIsShown ==
  Quiet /\ ~open /\ file \in Content \ (Recovered \cup Broken) => semantic.effective = Saved(file)
=============================================================================
