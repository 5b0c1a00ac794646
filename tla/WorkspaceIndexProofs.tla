------------------------- MODULE WorkspaceIndexProofs -------------------------
(***************************************************************************)
(* Proofs about WorkspaceIndex, for any contents of the file, any number of *)
(* refreshes at once, and any number of texts and changes of the file.      *)
(***************************************************************************)
EXTENDS WorkspaceIndex, TLAPS

-----------------------------------------------------------------------------
(***************************************************************************)
(* The inductive invariant.                                                 *)
(***************************************************************************)
LayerRecord ==
  [generation : Nat, pending : Nat, disk : {None} \cup {Saved(c) : c \in Content},
   overlay : Entry, effective : Entry, incomplete : BOOLEAN]

\* What a layer shows follows from what it holds.
Held(layer, g) ==
  /\ layer \in LayerRecord
  /\ layer.pending <= g
  /\ layer.overlay \in {None, Mask} \cup {Text(h) : h \in 1..g}
  /\ layer.pending # 0 => layer.overlay = None
  /\ layer.effective = IF ~Masked(layer) THEN layer.disk
                       ELSE IF layer.overlay = Mask THEN None ELSE layer.overlay

\* A layer that was reserved for the open text holds nothing of an older one.
Reserves(layer, g) ==
  layer.pending \in {0, g} /\ layer.overlay \in {None, Mask, Text(g)}

LoopPlaces == {"idle", "reserve", "skip", "update", "read", "unreadable", "compare", "unchanged",
               "parseDeclarations", "declarationsFailed", "parse", "remove", "removeDeclarations"}
RefreshRecord ==
  [at : {"none", "waiting", "clear", "mark", "read", "parse", "absent", "remove"},
   observed : Nat, source : File]

LoopRecord == [at : LoopPlaces, observed : Nat, source : File, began : Nat]
WorkerRecord ==
  [at : {"idle", "declare", "publishDeclarations", "abandon", "analyze", "publish", "abandonSemantic"},
   generation : Nat]
BuildRecord ==
  [at : {"discover", "absent", "queued", "skipped", "running", "unreadable", "parse", "declared",
         "semantics", "parseSemantic", "ready", "done"}, source : File]

\* Between Upsert and its end the read loop works on the saved file.
Upserting == loop.at \notin {"idle", "reserve", "skip", "update"}
Refreshing(r) == refresh[r].at \notin {"none", "waiting"}
Waiting == \E r \in Refresher : refresh[r].at = "waiting"

Typed ==
  /\ file \in File /\ writes \in 0..WriteLimit /\ noticed \in BOOLEAN
  /\ open \in BOOLEAN /\ generation \in Nat /\ texts \in 0..TextLimit
  /\ Held(semantic, generation) /\ Held(declared, generation)
  /\ parse \in Actor \cup {"none"} /\ canceled \subseteq Actor
  /\ ready \in [declarations : BOOLEAN, index : BOOLEAN]
  /\ loop \in LoopRecord /\ worker \in WorkerRecord /\ initial \in BuildRecord
  /\ refresh \in [Refresher -> RefreshRecord]

\* The document's text takes precedence over the saved file.
Opened ==
  /\ open => generation # 0 /\ Reserves(declared, generation)
  /\ open /\ loop.at # "reserve" => Reserves(semantic, generation) /\ Masked(semantic)
  /\ Handling => open
  /\ \A r \in Refresher : refresh[r].at \in {"clear", "mark"} => ~open
  /\ Upserting => ~Masked(semantic)

\* What a closed document leaves is for a refresh to clear.
Closed ==
  /\ ~open /\ Masked(semantic) => Waiting
  /\ ~open /\ Masked(declared) => Waiting \/ \E r \in Refresher : refresh[r].at = "clear"

\* The worker of the newest text has not yet ended while a reservation stands.
Worked ==
  /\ worker.generation <= generation /\ (worker.at # "idle" => worker.generation # 0)
  /\ loop.at = "reserve" => worker.generation # generation
  /\ open /\ worker.generation = generation =>
       /\ declared.pending # 0 => worker.at \in {"declare", "publishDeclarations", "abandon"}
       /\ semantic.pending # 0 => worker.at # "idle"

\* Whoever works on the saved file knows a generation of its own; while that is
\* the layer's, nobody else has put anything there.
LoopNumbered ==
  /\ Upserting => loop.observed # 0 /\ loop.observed <= semantic.generation
  /\ loop.at = "unchanged" /\ loop.observed = semantic.generation =>
       semantic.disk = Saved(loop.source)

RefreshNumbered(r) ==
  /\ Refreshing(r) =>
       /\ refresh[r].observed # 0 /\ refresh[r].observed <= semantic.generation
       /\ Upserting => refresh[r].observed # loop.observed
  /\ refresh[r].at \in {"clear", "mark", "read", "parse", "absent"}
       /\ refresh[r].observed = semantic.generation =>
         ~Masked(semantic) /\ semantic.disk = None

Distinct(q, r) ==
  Refreshing(q) /\ Refreshing(r) /\ refresh[q].observed = refresh[r].observed => q = r

\* Generation 0 is the initial build's alone.
Unreached ==
  /\ semantic.generation = 0 =>
       /\ ~Masked(semantic)
       /\ initial.at \notin {"ready", "done"} => semantic.disk = None
  /\ "initial" \in canceled => semantic.generation # 0

Numbered ==
  /\ LoopNumbered /\ Unreached
  /\ \A r \in Refresher : RefreshNumbered(r)
  /\ \A q, r \in Refresher : Distinct(q, r)

\* News: the file has changed since somebody was told.
News == noticed \/ loop.at = "update"

\* What is known of the file is true of it while there are no news.
LoopKnows ==
  /\ loop.at \in {"compare", "unchanged", "parseDeclarations", "parse"} =>
       loop.source \in Content /\ (News \/ file = loop.source)
  /\ loop.at = "remove" => News \/ file = "missing"

RefreshKnows(r) ==
  /\ refresh[r].at = "parse" => refresh[r].source \in Content
  /\ refresh[r].observed = semantic.generation /\ ~News =>
       /\ refresh[r].at = "parse" => file = refresh[r].source
       /\ refresh[r].at = "absent" => file = "missing"

BuildKnows ==
  /\ initial.at \in {"parse", "parseSemantic"} => initial.source # "missing"
  /\ initial.source # "missing" => initial.source \in Content
  /\ semantic.generation = 0 /\ ~News =>
       /\ initial.source # "missing" => file = initial.source
       /\ initial.at = "absent" => file = "missing"

Known == LoopKnows /\ BuildKnows /\ \A r \in Refresher : RefreshKnows(r)

\* A masked layer that shows nothing for good is incomplete, and what it shows
\* of a closed file is true of it, unless it is incomplete or there are news.
Honest ==
  /\ semantic.overlay = Mask => semantic.incomplete
  /\ /\ ~open /\ ~Masked(semantic) /\ ~semantic.incomplete /\ ~News
     /\ semantic.generation # 0 \/ initial.at \in {"ready", "done"}
     => semantic.effective = Truth

\* The index is ready when the build has ended.
Ended == ready.index => initial.at \in {"ready", "done"}

Inv == Typed /\ Opened /\ Closed /\ Worked /\ Numbered /\ Known /\ Honest /\ Ended

-----------------------------------------------------------------------------
(***************************************************************************)
(* Entries and layers.                                                      *)
(***************************************************************************)
\* An entry shows of what kind it is and what it was parsed from.
LEMMA EntryFacts ==
  /\ None # Mask
  /\ \A g \in Nat : Text(g) # None /\ Text(g) # Mask
  /\ \A c \in Content : Saved(c) # None /\ Saved(c) # Mask
  /\ \A g \in Nat, c \in Content : Text(g) # Saved(c)
  /\ \A g, h \in Nat : Text(g) = Text(h) => g = h
  /\ \A c, d \in Content : Saved(c) = Saved(d) => c = d
BY DEF None, Mask, Text, Saved

\* The entries of the two kinds are entries.
LEMMA EntryTypes ==
  /\ None \in Entry /\ Mask \in Entry
  /\ \A g \in Nat : Text(g) \in Entry
  /\ \A c \in Content : Saved(c) \in Entry
BY DEF Entry

\* The fields of a layer.
LEMMA HeldFields ==
  ASSUME NEW g \in Nat, NEW layer, Held(layer, g)
  PROVE  /\ layer.generation \in Nat /\ layer.pending \in Nat /\ layer.pending <= g
         /\ layer.disk \in {None} \cup {Saved(c) : c \in Content}
         /\ layer.overlay \in Entry /\ layer.effective \in Entry
         /\ layer.incomplete \in BOOLEAN
BY DEF LayerRecord, Held

\* Layers of which some fields were changed.
LEMMA WithGeneration ==
  ASSUME NEW layer \in LayerRecord, NEW n \in Nat
  PROVE  [layer EXCEPT !.generation = n] \in LayerRecord
BY DEF LayerRecord

LEMMA WithBoth ==
  ASSUME NEW layer \in LayerRecord, NEW n \in Nat, NEW b \in BOOLEAN
  PROVE  [layer EXCEPT !.generation = n, !.incomplete = b] \in LayerRecord
BY DEF LayerRecord

LEMMA WithOverlay ==
  ASSUME NEW layer \in LayerRecord, NEW p \in Nat, NEW b \in BOOLEAN, NEW o \in Entry, NEW e \in Entry
  PROVE  [layer EXCEPT !.pending = p, !.incomplete = b, !.overlay = o, !.effective = e] \in LayerRecord
BY DEF LayerRecord

LEMMA WithReservation ==
  ASSUME NEW layer \in LayerRecord, NEW n \in Nat, NEW p \in Nat, NEW b \in BOOLEAN,
         NEW o \in Entry, NEW e \in Entry
  PROVE  [layer EXCEPT !.generation = n, !.pending = p, !.incomplete = b, !.overlay = o, !.effective = e]
           \in LayerRecord
BY DEF LayerRecord

LEMMA NewLayerType ==
  NewLayer \in LayerRecord
BY EntryTypes DEF NewLayer, LayerRecord

\* A layer without news is a layer.
LEMMA NewHeld ==
  ASSUME NEW g \in Nat, NEW n \in Nat, NEW b \in BOOLEAN
  PROVE  /\ Held([NewLayer EXCEPT !.generation = n], g)
         /\ Held([NewLayer EXCEPT !.generation = n, !.incomplete = b], g)
         /\ ~Masked([NewLayer EXCEPT !.generation = n])
         /\ ~Masked([NewLayer EXCEPT !.generation = n, !.incomplete = b])
<1>1. /\ [NewLayer EXCEPT !.generation = n] \in LayerRecord
      /\ [NewLayer EXCEPT !.generation = n, !.incomplete = b] \in LayerRecord
  BY NewLayerType, WithGeneration, WithBoth
<1>2. QED
  BY <1>1 DEF NewLayer, Held, Masked

\* A later generation leaves a layer a layer.
LEMMA HeldLater ==
  ASSUME NEW g \in Nat, NEW layer, Held(layer, g)
  PROVE  Held(layer, g + 1)
<1>1. layer.pending <= g + 1
  BY DEF LayerRecord, Held
<1>2. 1..g \subseteq 1..(g + 1)
  OBVIOUS
<1>3. QED
  BY <1>1, <1>2 DEF LayerRecord, Held

\* beginOverlay: the layer waits for the newest text and shows nothing.
LEMMA ReservedHeld ==
  ASSUME NEW g \in Nat, NEW layer, Held(layer, g), g # 0
  PROVE  /\ Held(Reserved(layer, g), g)
         /\ Reserved(layer, g).generation = layer.generation + 1
         /\ Reserved(layer, g).pending = g /\ Reserved(layer, g).overlay = None
<1> DEFINE t == Reserved(layer, g)
           n == layer.generation + 1
           no == FALSE
<1>1. n \in Nat /\ no \in BOOLEAN /\ None \in Entry /\ layer \in LayerRecord
  BY HeldFields, EntryTypes DEF Held
<1>2. t = [layer EXCEPT !.generation = n, !.pending = g, !.incomplete = no,
                       !.overlay = None, !.effective = None]
  BY DEF Reserved
<1>3. t \in LayerRecord
  <2> HIDE DEF t, n, no
  <2>1. QED
    BY <1>1, <1>2, WithReservation
<1>4. /\ t.generation = n /\ t.pending = g
      /\ t.overlay = None /\ t.effective = None
  BY <1>2 DEF Held, LayerRecord
<1> HIDE DEF t
<1>5. Held(t, g)
  BY <1>3, <1>4, EntryFacts DEF Held, Masked
<1>6. QED
  BY <1>4, <1>5 DEF t

\* publishOverlay: what was waited for is shown.
LEMMA PublishedHeld ==
  ASSUME NEW g \in Nat, NEW layer, Held(layer, g), NEW w \in 1..g, NEW b \in BOOLEAN
  PROVE  /\ Held(Published(layer, w, b), g)
         /\ Published(layer, w, b).generation = layer.generation
         /\ Published(layer, w, b).pending = 0 /\ Published(layer, w, b).overlay = Text(w)
<1> DEFINE t == Published(layer, w, b)
           z == 0
           o == Text(w)
<1>1. w \in Nat /\ z \in Nat /\ o \in Entry /\ layer \in LayerRecord
  BY EntryTypes DEF Held
<1>2. t = [layer EXCEPT !.pending = z, !.incomplete = b, !.overlay = o, !.effective = o]
  BY DEF Published
<1>3. t \in LayerRecord
  <2> HIDE DEF t, z, o
  <2>1. QED
    BY <1>1, <1>2, WithOverlay
<1>4. /\ t.generation = layer.generation /\ t.pending = 0
      /\ t.overlay = o /\ t.effective = o
  BY <1>2 DEF Held, LayerRecord
<1> HIDE DEF t
<1>5. Held(t, g)
  BY <1>1, <1>3, <1>4, EntryFacts DEF Held, Masked
<1>6. QED
  BY <1>4, <1>5 DEF t

\* abandonOverlay: what was waited for will not come.
LEMMA AbandonedHeld ==
  ASSUME NEW g \in Nat, NEW layer, Held(layer, g), NEW w \in Nat \ {0}
  PROVE  /\ Held(Abandoned(layer, w), g)
         /\ Abandoned(layer, w).generation = layer.generation
         /\ \/ layer.pending # w /\ Abandoned(layer, w) = layer
            \/ /\ layer.pending = w /\ Abandoned(layer, w).pending = 0
               /\ Abandoned(layer, w).overlay = Mask /\ Abandoned(layer, w).incomplete = TRUE
<1>1. CASE layer.pending # w
  BY <1>1 DEF Abandoned
<1>2. CASE layer.pending = w
  <2> DEFINE t == Abandoned(layer, w)
  <2>1. t = [generation |-> layer.generation, pending |-> 0, disk |-> layer.disk, overlay |-> Mask,
             effective |-> None, incomplete |-> TRUE]
    BY <1>2 DEF LayerRecord, Held, Abandoned
  <2>2. t \in LayerRecord
    BY <2>1, HeldFields, EntryTypes DEF LayerRecord
  <2> HIDE DEF t
  <2>3. QED
    BY <1>2, <2>1, <2>2, EntryFacts DEF Held, Masked, t
<1>3. QED
  BY <1>1, <1>2

\* setDisk: the saved entry is held and, unless the path is masked, shown.
LEMMA WithDiskHeld ==
  ASSUME NEW g \in Nat, NEW layer, Held(layer, g), NEW c \in Content, NEW b \in BOOLEAN
  PROVE  /\ Held(WithDisk(layer, c, b), g)
         /\ WithDisk(layer, c, b).generation = layer.generation
         /\ WithDisk(layer, c, b).pending = layer.pending
         /\ WithDisk(layer, c, b).overlay = layer.overlay
         /\ WithDisk(layer, c, b).disk = Saved(c) /\ WithDisk(layer, c, b).incomplete = b
BY EntryFacts, EntryTypes DEF LayerRecord, Held, WithDisk, Masked

\* A new generation, or whether the layer is incomplete, is no matter of entries.
LEMMA BumpedHeld ==
  ASSUME NEW g \in Nat, NEW layer, Held(layer, g), NEW n \in Nat
  PROVE  Held([layer EXCEPT !.generation = n], g)
BY DEF LayerRecord, Held, Masked

LEMMA IncompleteHeld ==
  ASSUME NEW g \in Nat, NEW layer, Held(layer, g), NEW b \in BOOLEAN
  PROVE  Held([layer EXCEPT !.incomplete = b], g)
BY DEF LayerRecord, Held, Masked

LEMMA BegunHeld ==
  ASSUME NEW g \in Nat, NEW layer, Held(layer, g), NEW n \in Nat, NEW b \in BOOLEAN
  PROVE  Held([layer EXCEPT !.generation = n, !.incomplete = b], g)
BY DEF LayerRecord, Held, Masked

\* markIncomplete says nothing but that the layer is incomplete.
LEMMA MarkedHeld ==
  ASSUME NEW g \in Nat, NEW layer, Held(layer, g), NEW n \in Nat
  PROVE  Held(MarkedIncomplete(layer, n), g)
<1> DEFINE b == layer.incomplete \/ (layer.generation = n /\ ~Masked(layer))
<1>1. b \in BOOLEAN
  OBVIOUS
<1>2. MarkedIncomplete(layer, n) = [layer EXCEPT !.incomplete = b]
  BY DEF MarkedIncomplete
<1> HIDE DEF b
<1>3. QED
  BY <1>1, <1>2, IncompleteHeld

LEMMA MarkedFields ==
  ASSUME NEW g \in Nat, NEW layer, Held(layer, g), NEW n \in Nat
  PROVE  LET t == MarkedIncomplete(layer, n)
         IN /\ t.generation = layer.generation /\ t.pending = layer.pending /\ t.disk = layer.disk
            /\ t.overlay = layer.overlay /\ t.effective = layer.effective
            /\ layer.incomplete => t.incomplete
            /\ layer.generation = n /\ ~Masked(layer) => t.incomplete
BY DEF MarkedIncomplete, Held, LayerRecord

\* What removePath leaves of the semantic layer.
LEMMA ForgottenHeld ==
  ASSUME NEW g \in Nat, NEW layer, Held(layer, g), NEW n \in Nat, NEW b \in BOOLEAN
  PROVE  Held([layer EXCEPT !.generation = n, !.disk = None, !.incomplete = b,
                            !.effective = IF Masked(layer) THEN layer.effective ELSE None], g)
<1> DEFINE e == IF Masked(layer) THEN layer.effective ELSE None
           t == [layer EXCEPT !.generation = n, !.disk = None, !.incomplete = b, !.effective = e]
<1>1. e \in Entry /\ layer \in LayerRecord
  BY HeldFields, EntryTypes DEF Held
<1>2. t \in LayerRecord
  <2> HIDE DEF e
  <2>1. QED
    BY <1>1 DEF LayerRecord
<1>3. /\ t.generation = n /\ t.pending = layer.pending /\ t.overlay = layer.overlay
      /\ t.disk = None /\ t.effective = e
  BY <1>1 DEF LayerRecord
<1> HIDE DEF t
<1>4. Held(t, g)
  BY <1>2, <1>3 DEF Held, Masked
<1>5. QED
  BY <1>4 DEF t

\* What a refresh puts in a layer that is not masked.
LEMMA RefreshedHeld ==
  ASSUME NEW g \in Nat, NEW layer, Held(layer, g), ~Masked(layer), NEW c \in Content, NEW b \in BOOLEAN
  PROVE  Held([layer EXCEPT !.disk = Saved(c), !.effective = Saved(c), !.incomplete = b], g)
BY EntryTypes DEF LayerRecord, Held, Masked

-----------------------------------------------------------------------------
(***************************************************************************)
(* Who writes what.                                                         *)
(***************************************************************************)
SemanticWrites ==
  \/ Reserve \/ Upsert \/ ReadFile \/ Unchanged \/ ParseDeclarations \/ Parse \/ Remove
  \/ Publish \/ AbandonSemantic \/ InitialSemantics \/ InitialSemanticParse
  \/ \E r \in Refresher : Clear(r) \/ RefreshParse(r) \/ RefreshAbsent(r)
DeclaredWrites ==
  \/ Open \/ Change \/ Unreadable \/ Compare \/ ParseDeclarations \/ DeclarationsFailed
  \/ Parse \/ RemoveDeclarations \/ PublishDeclarations \/ Abandon \/ InitialUnreadable
  \/ InitialParse \/ InitialSemanticParse
  \/ \E r \in Refresher : ClearDeclarations(r) \/ MarkCleared(r) \/ RefreshParse(r) \/ RefreshRemove(r)
ParseWrites ==
  \/ Reserve \/ Skip \/ Upsert \/ Unchanged \/ ParseCanceled \/ ParseDeclarations
  \/ DeclarationsFailed \/ Parse \/ Remove \/ RemoveDeclarations \/ Claim
  \/ InitialSemantics \/ InitialSemanticParse
  \/ \E r \in Refresher : Clear(r) \/ RefreshRead(r) \/ RefreshParse(r) \/ RefreshRemove(r)
LoopWrites ==
  \/ Open \/ Change \/ Update \/ Loop
RefreshWrites ==
  \/ Close \/ \E r \in Refresher : Refresh(r)
BuildWrites ==
  \/ Skip \/ Build

Untouching ==
  /\ Write \/ UNCHANGED <<file, writes>>
  /\ Write \/ Update \/ UNCHANGED noticed
  /\ Open \/ Change \/ UNCHANGED texts
  /\ Open \/ Change \/ Close \/ UNCHANGED <<open, generation>>
  /\ SemanticWrites \/ UNCHANGED semantic
  /\ DeclaredWrites \/ UNCHANGED declared
  /\ ParseWrites \/ UNCHANGED <<parse, canceled>>
  /\ DeclarationsReady \/ IndexReady \/ UNCHANGED ready
  /\ LoopWrites \/ UNCHANGED loop
  /\ Worker \/ UNCHANGED worker
  /\ RefreshWrites \/ UNCHANGED refresh
  /\ BuildWrites \/ UNCHANGED initial

\* Every variable changes in the steps of its writers only.
LEMMA Writers ==
  ASSUME [Next]_vars
  PROVE  Untouching
<1> USE DEF Untouching, SemanticWrites, DeclaredWrites, ParseWrites, LoopWrites, RefreshWrites, BuildWrites
<1> USE DEF vars, editor, disk
<1>1. CASE Write
  BY <1>1 DEF Write
<1>2. CASE Open
  BY <1>2 DEF Open, Take
<1>3. CASE Change
  BY <1>3 DEF Change, Take
<1>4. CASE Close
  BY <1>4 DEF Close
<1>5. CASE Update
  BY <1>5 DEF Update
<1>6. CASE Reserve
  BY <1>6 DEF Reserve, Loop
<1>7. CASE Skip
  BY <1>7 DEF Skip, Loop
<1>8. CASE Upsert
  BY <1>8 DEF Upsert, Loop
<1>9. CASE ReadFile
  BY <1>9 DEF ReadFile, Loop
<1>10. CASE Unreadable
  BY <1>10 DEF Unreadable, Loop
<1>11. CASE Compare
  BY <1>11 DEF Compare, Loop
<1>12. CASE Unchanged
  BY <1>12 DEF Unchanged, Loop
<1>13. CASE ParseCanceled
  BY <1>13 DEF ParseCanceled, Loop
<1>14. CASE ParseDeclarations
  BY <1>14 DEF ParseDeclarations, Loop
<1>15. CASE DeclarationsFailed
  BY <1>15 DEF DeclarationsFailed, Loop
<1>16. CASE Parse
  BY <1>16 DEF Parse, Loop
<1>17. CASE Remove
  BY <1>17 DEF Remove, Loop
<1>18. CASE RemoveDeclarations
  BY <1>18 DEF RemoveDeclarations, Loop
<1>19. CASE Launch
  BY <1>19 DEF Launch, Worker
<1>20. CASE Declare
  BY <1>20 DEF Declare, Worker
<1>21. CASE PublishDeclarations
  BY <1>21 DEF PublishDeclarations, Worker
<1>22. CASE Abandon
  BY <1>22 DEF Abandon, Worker
<1>23. CASE Analyze
  BY <1>23 DEF Analyze, Worker
<1>24. CASE Publish
  BY <1>24 DEF Publish, Worker
<1>25. CASE AbandonSemantic
  BY <1>25 DEF AbandonSemantic, Worker
<1>26. ASSUME NEW r \in Refresher, Clear(r) PROVE Untouching
  BY <1>26 DEF Clear, Refresh
<1>27. ASSUME NEW r \in Refresher, ClearDeclarations(r) PROVE Untouching
  BY <1>27 DEF ClearDeclarations, Refresh
<1>28. ASSUME NEW r \in Refresher, MarkCleared(r) PROVE Untouching
  BY <1>28 DEF MarkCleared, Refresh
<1>29. ASSUME NEW r \in Refresher, RefreshRead(r) PROVE Untouching
  BY <1>29 DEF RefreshRead, Refresh
<1>30. ASSUME NEW r \in Refresher, RefreshParse(r) PROVE Untouching
  BY <1>30 DEF RefreshParse, Refresh
<1>31. ASSUME NEW r \in Refresher, RefreshAbsent(r) PROVE Untouching
  BY <1>31 DEF RefreshAbsent, Refresh
<1>32. ASSUME NEW r \in Refresher, RefreshRemove(r) PROVE Untouching
  BY <1>32 DEF RefreshRemove, Refresh
<1>33. CASE Discover
  BY <1>33 DEF Discover, Build
<1>34. CASE Claim
  BY <1>34 DEF Claim, Build
<1>35. CASE InitialRead
  BY <1>35 DEF InitialRead, Build
<1>36. CASE InitialUnreadable
  BY <1>36 DEF InitialUnreadable, Build
<1>37. CASE InitialParse
  BY <1>37 DEF InitialParse, Build
<1>38. CASE DeclarationsReady
  BY <1>38 DEF DeclarationsReady, Build
<1>39. CASE InitialSemantics
  BY <1>39 DEF InitialSemantics, Build
<1>40. CASE InitialSemanticParse
  BY <1>40 DEF InitialSemanticParse, Build
<1>41. CASE IndexReady
  BY <1>41 DEF IndexReady, Build
<1>42. CASE UNCHANGED vars
  BY <1>42
<1>43. QED
  BY <1>1, <1>2, <1>3, <1>4, <1>5, <1>6, <1>7, <1>8, <1>9, <1>10, <1>11, <1>12, <1>13,
     <1>14, <1>15, <1>16, <1>17, <1>18, <1>19, <1>20, <1>21, <1>22, <1>23, <1>24, <1>25,
     <1>26, <1>27, <1>28, <1>29, <1>30, <1>31, <1>32, <1>33, <1>34, <1>35, <1>36, <1>37,
     <1>38, <1>39, <1>40, <1>41, <1>42
  DEF Next, Loop, Worker, Build, Refresh

-----------------------------------------------------------------------------
(***************************************************************************)
(* Typed: what the layers hold, and the rest.                               *)
(***************************************************************************)
\* The types of what the steps read.
LEMMA InvTypes ==
  ASSUME Inv
  PROVE  /\ Held(semantic, generation) /\ Held(declared, generation) /\ generation \in Nat
         /\ semantic.generation \in Nat /\ semantic.pending \in Nat /\ semantic.incomplete \in BOOLEAN
         /\ declared.generation \in Nat /\ declared.pending \in Nat /\ declared.incomplete \in BOOLEAN
         /\ loop.observed \in Nat /\ loop.began \in Nat /\ loop.source \in File
         /\ worker.generation \in Nat /\ open \in BOOLEAN /\ noticed \in BOOLEAN
         /\ \A r \in Refresher : refresh[r].observed \in Nat /\ refresh[r].source \in File
<1>1. Held(semantic, generation) /\ Held(declared, generation) /\ generation \in Nat
  BY DEF Inv, Typed
<1>2. /\ loop \in LoopRecord /\ worker \in WorkerRecord /\ refresh \in [Refresher -> RefreshRecord]
      /\ open \in BOOLEAN /\ noticed \in BOOLEAN
  BY DEF Inv, Typed
<1>3. QED
  BY <1>1, <1>2, HeldFields DEF LoopRecord, WorkerRecord, RefreshRecord

\* What the read loop, the refreshes and the build parse is a content of the file.
LEMMA InvSources ==
  ASSUME Inv
  PROVE  /\ loop.at \in {"compare", "unchanged", "parseDeclarations", "parse"} => loop.source \in Content
         /\ \A r \in Refresher : refresh[r].at = "parse" => refresh[r].source \in Content
         /\ initial.at \in {"parse", "parseSemantic"} => initial.source \in Content
         /\ worker.at # "idle" => worker.generation \in 1..generation
<1>1. loop.at \in {"compare", "unchanged", "parseDeclarations", "parse"} => loop.source \in Content
  BY DEF Inv, Known, LoopKnows
<1>2. \A r \in Refresher : refresh[r].at = "parse" => refresh[r].source \in Content
  BY DEF Inv, Known, RefreshKnows
<1>3. initial.at \in {"parse", "parseSemantic"} => initial.source \in Content
  BY DEF Inv, Known, BuildKnows
<1>4. worker.at # "idle" => worker.generation \in 1..generation
  BY InvTypes DEF Inv, Worked
<1>5. QED
  BY <1>1, <1>2, <1>3, <1>4

\* A refresh that is in force finds the layer as Clear left it.
LEMMA InForceFacts ==
  ASSUME Inv, NEW r \in Refresher, InForce(r), refresh[r].at \in {"parse", "absent"}
  PROVE  ~Masked(semantic) /\ semantic.disk = None
BY DEF Inv, Numbered, RefreshNumbered, InForce

\* Every step leaves the semantic layer a layer.
LEMMA SemanticHeld ==
  ASSUME Inv, [Next]_vars
  PROVE  Held(semantic, generation)'
<1>1. CASE Open
  <2>1. semantic' = semantic /\ generation' = generation + 1
    BY <1>1 DEF Open, Take
  <2>2. QED
    BY <2>1, InvTypes, HeldLater
<1>2. CASE Change
  <2>1. semantic' = semantic /\ generation' = generation + 1
    BY <1>2 DEF Change, Take
  <2>2. QED
    BY <2>1, InvTypes, HeldLater
<1>3. CASE Close
  <2>1. semantic' = semantic /\ generation' = generation + 1
    BY <1>3 DEF Close
  <2>2. QED
    BY <2>1, InvTypes, HeldLater
<1>4. CASE Reserve
  <2>1. generation # 0 /\ generation' = generation /\ semantic' = Reserved(semantic, generation)
    BY <1>4 DEF Reserve, editor, Inv, Opened, Handling
  <2>2. QED
    BY <2>1, InvTypes, ReservedHeld
<1>5. CASE Upsert
  <2> DEFINE n == semantic.generation + 1
             yes == TRUE
  <2>1. n \in Nat /\ yes \in BOOLEAN
    BY InvTypes
  <2>2. /\ generation' = generation
        /\ \/ semantic' = [semantic EXCEPT !.generation = n]
           \/ semantic' = [semantic EXCEPT !.generation = n, !.incomplete = yes]
    BY <1>5 DEF Upsert, editor
  <2> HIDE DEF n, yes
  <2>3. CASE semantic' = [semantic EXCEPT !.generation = n]
    BY <2>1, <2>2, <2>3, InvTypes, BumpedHeld
  <2>4. CASE semantic' = [semantic EXCEPT !.generation = n, !.incomplete = yes]
    BY <2>1, <2>2, <2>4, InvTypes, BegunHeld
  <2>5. QED
    BY <2>2, <2>3, <2>4
<1>6. CASE ReadFile
  <2>1. /\ generation' = generation
        /\ semantic' = semantic \/ semantic' = MarkedIncomplete(semantic, loop.observed)
    BY <1>6 DEF ReadFile, editor
  <2>2. QED
    BY <2>1, InvTypes, MarkedHeld
<1>7. CASE Unchanged
  <2> DEFINE b == loop.source \in Recovered
  <2>1. b \in BOOLEAN
    OBVIOUS
  <2>2. /\ generation' = generation
        /\ semantic' = semantic \/ semantic' = [semantic EXCEPT !.incomplete = b]
    BY <1>7 DEF Unchanged, editor
  <2> HIDE DEF b
  <2>3. QED
    BY <2>1, <2>2, InvTypes, IncompleteHeld
<1>8. CASE ParseDeclarations
  <2>1. /\ generation' = generation
        /\ semantic' = semantic \/ semantic' = MarkedIncomplete(semantic, loop.observed)
    BY <1>8 DEF ParseDeclarations, editor
  <2>2. QED
    BY <2>1, InvTypes, MarkedHeld
<1>9. CASE Parse
  <2> DEFINE b == loop.source \in Recovered
  <2>1. b \in BOOLEAN /\ loop.source \in Content
    BY <1>9, InvSources DEF Parse
  <2>2. /\ generation' = generation
        /\ \/ semantic' = semantic
           \/ semantic' = WithDisk(semantic, loop.source, b)
           \/ semantic' = MarkedIncomplete(semantic, loop.observed)
    BY <1>9 DEF Parse, editor
  <2> HIDE DEF b
  <2>3. CASE semantic' = WithDisk(semantic, loop.source, b)
    BY <2>1, <2>2, <2>3, InvTypes, WithDiskHeld
  <2>4. CASE semantic' = semantic \/ semantic' = MarkedIncomplete(semantic, loop.observed)
    BY <2>2, <2>4, InvTypes, MarkedHeld
  <2>5. QED
    BY <2>2, <2>3, <2>4
<1>10. CASE Remove
  <2> DEFINE n == semantic.generation + 1
             no == FALSE
  <2>1. n \in Nat /\ no \in BOOLEAN
    BY InvTypes
  <2>2. /\ generation' = generation
        /\ semantic' = [semantic EXCEPT !.generation = n, !.disk = None, !.incomplete = no,
                             !.effective = IF Masked(semantic) THEN semantic.effective ELSE None]
    BY <1>10 DEF Remove, editor
  <2> HIDE DEF n, no
  <2>3. QED
    BY <2>1, <2>2, InvTypes, ForgottenHeld
<1>11. CASE Publish
  <2>1. worker.generation \in 1..generation /\ generation' = generation
    BY <1>11, InvSources DEF Publish, editor
  <2>2. \/ semantic' = semantic
        \/ \E b \in BOOLEAN : semantic' = Published(semantic, worker.generation, b)
    BY <1>11 DEF Publish
  <2>3. QED
    BY <2>1, <2>2, InvTypes, PublishedHeld
<1>12. CASE AbandonSemantic
  <2>1. worker.generation \in Nat \ {0} /\ generation' = generation
    BY <1>12, InvSources DEF AbandonSemantic, editor
  <2>2. semantic' = Abandoned(semantic, worker.generation)
    BY <1>12 DEF AbandonSemantic
  <2>3. QED
    BY <2>1, <2>2, InvTypes, AbandonedHeld
<1>13. ASSUME NEW r \in Refresher, Clear(r) PROVE Held(semantic, generation)'
  <2> DEFINE n == semantic.generation + 1
             yes == TRUE
  <2>1. n \in Nat /\ yes \in BOOLEAN
    BY InvTypes
  <2>2. /\ generation' = generation
        /\ \/ semantic' = semantic
           \/ semantic' = [NewLayer EXCEPT !.generation = n, !.incomplete = yes]
    BY <1>13 DEF Clear, editor
  <2> HIDE DEF n, yes
  <2>3. QED
    BY <2>1, <2>2, InvTypes, NewHeld
<1>14. ASSUME NEW r \in Refresher, RefreshParse(r) PROVE Held(semantic, generation)'
  <2> DEFINE b == refresh[r].source \in Recovered
  <2>1. b \in BOOLEAN /\ refresh[r].source \in Content
    BY <1>14, InvSources DEF RefreshParse
  <2>2. generation' = generation
    BY <1>14 DEF RefreshParse, editor
  <2>3. CASE semantic' = semantic
    BY <2>2, <2>3, InvTypes
  <2>4. CASE /\ InForce(r)
             /\ semantic' = [semantic EXCEPT !.disk = Saved(refresh[r].source),
                                  !.effective = Saved(refresh[r].source), !.incomplete = b]
    <3>1. ~Masked(semantic)
      BY <1>14, <2>4, InForceFacts DEF RefreshParse
    <3> HIDE DEF b
    <3>2. QED
      BY <2>1, <2>2, <2>4, <3>1, InvTypes, RefreshedHeld
  <2>5. QED
    BY <1>14, <2>3, <2>4 DEF RefreshParse
<1>15. ASSUME NEW r \in Refresher, RefreshAbsent(r) PROVE Held(semantic, generation)'
  <2> DEFINE no == FALSE
  <2>1. no \in BOOLEAN
    OBVIOUS
  <2>2. /\ generation' = generation
        /\ semantic' = semantic \/ semantic' = [semantic EXCEPT !.incomplete = no]
    BY <1>15 DEF RefreshAbsent, editor
  <2> HIDE DEF no
  <2>3. QED
    BY <2>1, <2>2, InvTypes, IncompleteHeld
<1>16. CASE InitialSemantics
  <2> DEFINE b == semantic.incomplete \/ Untouched
  <2>1. b \in BOOLEAN
    OBVIOUS
  <2>2. /\ generation' = generation
        /\ semantic' = semantic \/ semantic' = [semantic EXCEPT !.incomplete = b]
    BY <1>16 DEF InitialSemantics, Failed, editor
  <2> HIDE DEF b
  <2>3. QED
    BY <2>1, <2>2, InvTypes, IncompleteHeld
<1>17. CASE InitialSemanticParse
  <2> DEFINE f == semantic.incomplete \/ Untouched
             b == initial.source \in Recovered
  <2>1. f \in BOOLEAN /\ b \in BOOLEAN /\ initial.source \in Content
    BY <1>17, InvSources DEF InitialSemanticParse
  <2>2. /\ generation' = generation
        /\ \/ semantic' = semantic
           \/ semantic' = [semantic EXCEPT !.incomplete = f]
           \/ semantic' = WithDisk(semantic, initial.source, b)
    BY <1>17 DEF InitialSemanticParse, Failed, editor
  <2> HIDE DEF f, b
  <2>3. QED
    BY <2>1, <2>2, InvTypes, IncompleteHeld, WithDiskHeld
<1>18. CASE UNCHANGED <<generation, semantic>>
  BY <1>18, InvTypes
<1>19. QED
  BY <1>1, <1>2, <1>3, <1>4, <1>5, <1>6, <1>7, <1>8, <1>9, <1>10, <1>11, <1>12, <1>13,
     <1>14, <1>15, <1>16, <1>17, <1>18, Writers
  DEF Untouching, SemanticWrites

\* Every step leaves the declaration layer a layer.
LEMMA DeclaredHeld ==
  ASSUME Inv, [Next]_vars
  PROVE  Held(declared, generation)'
<1>1. CASE Open
  <2> DEFINE g == generation + 1
  <2>1. generation' = g /\ declared' = Reserved(declared, g)
    BY <1>1 DEF Open, Take
  <2>2. g \in Nat /\ g # 0 /\ Held(declared, g)
    BY InvTypes, HeldLater
  <2> HIDE DEF g
  <2>3. QED
    BY <2>1, <2>2, ReservedHeld
<1>2. CASE Change
  <2> DEFINE g == generation + 1
  <2>1. generation' = g /\ declared' = Reserved(declared, g)
    BY <1>2 DEF Change, Take
  <2>2. g \in Nat /\ g # 0 /\ Held(declared, g)
    BY InvTypes, HeldLater
  <2> HIDE DEF g
  <2>3. QED
    BY <2>1, <2>2, ReservedHeld
<1>3. CASE Close
  <2>1. declared' = declared /\ generation' = generation + 1
    BY <1>3 DEF Close
  <2>2. QED
    BY <2>1, InvTypes, HeldLater
<1>4. CASE Unreadable
  <2> DEFINE n == declared.generation + 1
             b == declared.incomplete \/ declared.pending = 0
  <2>1. n \in Nat /\ b \in BOOLEAN
    BY InvTypes
  <2>2. /\ generation' = generation
        /\ declared' = declared \/ declared' = [declared EXCEPT !.generation = n, !.incomplete = b]
    BY <1>4 DEF Unreadable, DiskBegun, editor
  <2> HIDE DEF n, b
  <2>3. CASE declared' = declared
    BY <2>2, <2>3, InvTypes
  <2>4. CASE declared' = [declared EXCEPT !.generation = n, !.incomplete = b]
    BY <2>1, <2>2, <2>4, InvTypes, BegunHeld
  <2>5. QED
    BY <2>2, <2>3, <2>4
<1>5. CASE Compare
  <2> DEFINE n == declared.generation + 1
             b == declared.incomplete \/ declared.pending = 0
  <2>1. n \in Nat /\ b \in BOOLEAN
    BY InvTypes
  <2>2. /\ generation' = generation
        /\ declared' = declared \/ declared' = [declared EXCEPT !.generation = n, !.incomplete = b]
    BY <1>5 DEF Compare, DiskBegun, editor
  <2> HIDE DEF n, b
  <2>3. CASE declared' = declared
    BY <2>2, <2>3, InvTypes
  <2>4. CASE declared' = [declared EXCEPT !.generation = n, !.incomplete = b]
    BY <2>1, <2>2, <2>4, InvTypes, BegunHeld
  <2>5. QED
    BY <2>2, <2>3, <2>4
<1>6. CASE ParseDeclarations
  <2>1. loop.source \in Content
    BY <1>6, InvSources DEF ParseDeclarations
  <2>2. /\ generation' = generation
        /\ \/ declared' = declared
           \/ \E partial \in BOOLEAN : declared' = WithDisk(declared, loop.source, partial)
    BY <1>6 DEF ParseDeclarations, editor
  <2>3. QED
    BY <2>1, <2>2, InvTypes, WithDiskHeld
<1>7. CASE DeclarationsFailed
  <2>1. generation' = generation /\ declared' = MarkedIncomplete(declared, loop.began)
    BY <1>7 DEF DeclarationsFailed, editor
  <2>2. QED
    BY <2>1, InvTypes, MarkedHeld
<1>8. CASE Parse
  <2> DEFINE b == loop.source \in Recovered
  <2>1. b \in BOOLEAN /\ loop.source \in Content
    BY <1>8, InvSources DEF Parse
  <2>2. /\ generation' = generation
        /\ declared' = declared \/ declared' = WithDisk(declared, loop.source, b)
    BY <1>8 DEF Parse, Projected, editor
  <2> HIDE DEF b
  <2>3. QED
    BY <2>1, <2>2, InvTypes, WithDiskHeld
<1>9. CASE RemoveDeclarations
  <2> DEFINE n == declared.generation + 1
  <2>1. n \in Nat
    BY InvTypes
  <2>2. generation' = generation /\ declared' = [NewLayer EXCEPT !.generation = n]
    BY <1>9 DEF RemoveDeclarations, DeclarationsRemoved, editor
  <2> HIDE DEF n
  <2>3. QED
    BY <2>1, <2>2, InvTypes, NewHeld
<1>10. CASE PublishDeclarations
  <2>1. worker.generation \in 1..generation /\ generation' = generation
    BY <1>10, InvSources DEF PublishDeclarations, editor
  <2>2. \/ declared' = declared
        \/ \E b \in BOOLEAN : declared' = Published(declared, worker.generation, b)
    BY <1>10 DEF PublishDeclarations
  <2>3. QED
    BY <2>1, <2>2, InvTypes, PublishedHeld
<1>11. CASE Abandon
  <2>1. worker.generation \in Nat \ {0} /\ generation' = generation
    BY <1>11, InvSources DEF Abandon, editor
  <2>2. declared' = Abandoned(declared, worker.generation)
    BY <1>11 DEF Abandon
  <2>3. QED
    BY <2>1, <2>2, InvTypes, AbandonedHeld
<1>12. ASSUME NEW r \in Refresher, ClearDeclarations(r) PROVE Held(declared, generation)'
  <2> DEFINE n == declared.generation + 1
  <2>1. n \in Nat
    BY InvTypes
  <2>2. generation' = generation /\ declared' = [NewLayer EXCEPT !.generation = n]
    BY <1>12 DEF ClearDeclarations, DeclarationsRemoved, editor
  <2> HIDE DEF n
  <2>3. QED
    BY <2>1, <2>2, InvTypes, NewHeld
<1>13. ASSUME NEW r \in Refresher, MarkCleared(r) PROVE Held(declared, generation)'
  <2> DEFINE b == declared.incomplete \/ declared.pending = 0
  <2>1. b \in BOOLEAN
    OBVIOUS
  <2>2. generation' = generation /\ declared' = [declared EXCEPT !.incomplete = b]
    BY <1>13 DEF MarkCleared, InitialFailure, editor
  <2> HIDE DEF b
  <2>3. QED
    BY <2>1, <2>2, InvTypes, IncompleteHeld
<1>14. ASSUME NEW r \in Refresher, RefreshParse(r) PROVE Held(declared, generation)'
  <2> DEFINE b == refresh[r].source \in Recovered
  <2>1. b \in BOOLEAN /\ refresh[r].source \in Content
    BY <1>14, InvSources DEF RefreshParse
  <2>2. /\ generation' = generation
        /\ declared' = declared \/ declared' = WithDisk(declared, refresh[r].source, b)
    BY <1>14 DEF RefreshParse, Projected, editor
  <2> HIDE DEF b
  <2>3. QED
    BY <2>1, <2>2, InvTypes, WithDiskHeld
<1>15. ASSUME NEW r \in Refresher, RefreshRemove(r) PROVE Held(declared, generation)'
  <2> DEFINE n == declared.generation + 1
  <2>1. n \in Nat
    BY InvTypes
  <2>2. generation' = generation /\ declared' = [NewLayer EXCEPT !.generation = n]
    BY <1>15 DEF RefreshRemove, DeclarationsRemoved, editor
  <2> HIDE DEF n
  <2>3. QED
    BY <2>1, <2>2, InvTypes, NewHeld
<1>16. CASE InitialUnreadable
  <2> DEFINE b == declared.incomplete \/ declared.pending = 0
  <2>1. b \in BOOLEAN
    OBVIOUS
  <2>2. generation' = generation /\ declared' = [declared EXCEPT !.incomplete = b]
    BY <1>16 DEF InitialUnreadable, InitialFailure, editor
  <2> HIDE DEF b
  <2>3. QED
    BY <2>1, <2>2, InvTypes, IncompleteHeld
<1>17. CASE InitialParse
  <2> DEFINE b == declared.incomplete \/ declared.pending = 0
  <2>1. b \in BOOLEAN /\ initial.source \in Content
    BY <1>17, InvSources DEF InitialParse
  <2>2. /\ generation' = generation
        /\ \/ declared' = declared
           \/ \E partial \in BOOLEAN : declared' = WithDisk(declared, initial.source, partial)
           \/ declared' = [declared EXCEPT !.incomplete = b]
    BY <1>17 DEF InitialParse, InitialFailure, editor
  <2> HIDE DEF b
  <2>3. QED
    BY <2>1, <2>2, InvTypes, IncompleteHeld, WithDiskHeld
<1>18. CASE InitialSemanticParse
  <2> DEFINE b == initial.source \in Recovered
  <2>1. b \in BOOLEAN /\ initial.source \in Content
    BY <1>18, InvSources DEF InitialSemanticParse
  <2>2. /\ generation' = generation
        /\ declared' = declared \/ declared' = WithDisk(declared, initial.source, b)
    BY <1>18 DEF InitialSemanticParse, Projected, editor
  <2> HIDE DEF b
  <2>3. QED
    BY <2>1, <2>2, InvTypes, WithDiskHeld
<1>19. CASE UNCHANGED <<generation, declared>>
  BY <1>19, InvTypes
<1>20. QED
  BY <1>1, <1>2, <1>3, <1>4, <1>5, <1>6, <1>7, <1>8, <1>9, <1>10, <1>11, <1>12, <1>13,
     <1>14, <1>15, <1>16, <1>17, <1>18, <1>19, Writers
  DEF Untouching, DeclaredWrites

\* The file, its notice and the document keep their types.
LEMMA EditorTyped ==
  ASSUME Inv, [Next]_vars
  PROVE  (/\ file \in File /\ writes \in 0..WriteLimit /\ noticed \in BOOLEAN
           /\ open \in BOOLEAN /\ generation \in Nat /\ texts \in 0..TextLimit)'
<1>1. CASE Write
  BY <1>1, BoundAssumption DEF Write, Inv, Typed, disk, editor
<1>2. CASE Open
  BY <1>2, BoundAssumption DEF Open, Take, Inv, Typed, disk, editor
<1>3. CASE Change
  BY <1>3, BoundAssumption DEF Change, Take, Inv, Typed, disk, editor
<1>4. CASE Close
  <2>1. open' = FALSE /\ generation' = generation + 1 /\ UNCHANGED <<file, writes, noticed, texts>>
    BY <1>4 DEF Close, disk
  <2>2. /\ file \in File /\ writes \in 0..WriteLimit /\ noticed \in BOOLEAN
        /\ generation + 1 \in Nat /\ texts \in 0..TextLimit
    BY DEF Inv, Typed
  <2>3. QED
    BY <2>1, <2>2
<1>5. CASE Update
  BY <1>5, BoundAssumption DEF Update, Inv, Typed, disk, editor
<1>6. CASE UNCHANGED <<file, writes, noticed, texts, open, generation>>
  BY <1>6 DEF Inv, Typed
<1>7. QED
  BY <1>1, <1>2, <1>3, <1>4, <1>5, <1>6, Writers
  DEF Untouching

\* The active parse and the canceled actors are actors.
LEMMA ParseTyped ==
  ASSUME Inv, [Next]_vars
  PROVE  (parse \in Actor \cup {"none"} /\ canceled \subseteq Actor)'
<1>1. CASE Reserve
  BY <1>1 DEF Reserve, Inv, Typed, Actor, StartParse, EndParse, CancelParse
<1>2. CASE Skip
  BY <1>2 DEF Skip, Inv, Typed, Actor, StartParse, EndParse, CancelParse
<1>3. CASE Upsert
  BY <1>3 DEF Upsert, Inv, Typed, Actor, StartParse, EndParse, CancelParse
<1>4. CASE Unchanged
  BY <1>4 DEF Unchanged, Inv, Typed, Actor, StartParse, EndParse, CancelParse
<1>5. CASE ParseCanceled
  BY <1>5 DEF ParseCanceled, Inv, Typed, Actor, StartParse, EndParse, CancelParse
<1>6. CASE ParseDeclarations
  BY <1>6 DEF ParseDeclarations, Inv, Typed, Actor, StartParse, EndParse, CancelParse
<1>7. CASE DeclarationsFailed
  BY <1>7 DEF DeclarationsFailed, Inv, Typed, Actor, StartParse, EndParse, CancelParse
<1>8. CASE Parse
  BY <1>8 DEF Parse, Inv, Typed, Actor, StartParse, EndParse, CancelParse
<1>9. CASE Remove
  BY <1>9 DEF Remove, Inv, Typed, Actor, StartParse, EndParse, CancelParse
<1>10. CASE RemoveDeclarations
  BY <1>10 DEF RemoveDeclarations, Inv, Typed, Actor, StartParse, EndParse, CancelParse
<1>11. ASSUME NEW r \in Refresher, Clear(r) PROVE (parse \in Actor \cup {"none"} /\ canceled \subseteq Actor)'
  BY <1>11 DEF Clear, Inv, Typed, Actor, StartParse, EndParse, CancelParse
<1>12. ASSUME NEW r \in Refresher, RefreshRead(r) PROVE (parse \in Actor \cup {"none"} /\ canceled \subseteq Actor)'
  BY <1>12 DEF RefreshRead, Inv, Typed, Actor, StartParse, EndParse, CancelParse
<1>13. ASSUME NEW r \in Refresher, RefreshParse(r) PROVE (parse \in Actor \cup {"none"} /\ canceled \subseteq Actor)'
  BY <1>13 DEF RefreshParse, Inv, Typed, Actor, StartParse, EndParse, CancelParse
<1>14. ASSUME NEW r \in Refresher, RefreshRemove(r) PROVE (parse \in Actor \cup {"none"} /\ canceled \subseteq Actor)'
  BY <1>14 DEF RefreshRemove, Inv, Typed, Actor, StartParse, EndParse, CancelParse
<1>15. CASE Claim
  BY <1>15 DEF Claim, Inv, Typed, Actor, StartParse, EndParse, CancelParse
<1>16. CASE InitialSemantics
  BY <1>16 DEF InitialSemantics, Inv, Typed, Actor, StartParse, EndParse, CancelParse
<1>17. CASE InitialSemanticParse
  BY <1>17 DEF InitialSemanticParse, Inv, Typed, Actor, StartParse, EndParse, CancelParse
<1>18. CASE UNCHANGED <<parse, canceled>>
  BY <1>18 DEF Inv, Typed
<1>19. QED
  BY <1>1, <1>2, <1>3, <1>4, <1>5, <1>6, <1>7, <1>8, <1>9, <1>10, <1>11, <1>12, <1>13,
     <1>14, <1>15, <1>16, <1>17, <1>18, Writers
  DEF Untouching, ParseWrites

\* The ready channels are two.
LEMMA ReadyTyped ==
  ASSUME Inv, [Next]_vars
  PROVE  (ready \in [declarations : BOOLEAN, index : BOOLEAN])'
<1>1. CASE DeclarationsReady
  BY <1>1 DEF DeclarationsReady, Inv, Typed
<1>2. CASE IndexReady
  BY <1>2 DEF IndexReady, Inv, Typed
<1>3. CASE UNCHANGED ready
  BY <1>3 DEF Inv, Typed
<1>4. QED
  BY <1>1, <1>2, <1>3, Writers
  DEF Untouching

LEMMA IdleLoopType ==
  IdleLoop \in LoopRecord
BY DEF IdleLoop, LoopRecord, LoopPlaces, File

\* The read loop keeps its type.
LEMMA LoopTyped ==
  ASSUME Inv, [Next]_vars
  PROVE  (loop \in LoopRecord)'
<1>1. CASE Open
  BY <1>1, InvTypes DEF Open, Take, Inv, Typed, LoopRecord, LoopPlaces, IdleLoop, File
<1>2. CASE Change
  BY <1>2, InvTypes DEF Change, Take, Inv, Typed, LoopRecord, LoopPlaces, IdleLoop, File
<1>3. CASE Update
  BY <1>3, InvTypes DEF Update, Inv, Typed, LoopRecord, LoopPlaces, IdleLoop, File
<1>4. CASE Reserve
  BY <1>4, InvTypes DEF Reserve, Inv, Typed, LoopRecord, LoopPlaces, IdleLoop, File
<1>5. CASE Skip
  <2>1. loop' = IdleLoop
    BY <1>5 DEF Skip
  <2>2. QED
    BY <2>1, IdleLoopType
<1>6. CASE Upsert
  <2> DEFINE n == semantic.generation + 1
             l == [loop EXCEPT !.at = "read", !.observed = n]
  <2>1. n \in Nat /\ (loop' = IdleLoop \/ loop' = l) /\ loop \in LoopRecord
    BY <1>6, InvTypes DEF Upsert, Inv, Typed
  <2>2. l \in LoopRecord
    <3> HIDE DEF n
    <3>1. QED
      BY <2>1 DEF LoopRecord, LoopPlaces
  <2>3. QED
    BY <2>1, <2>2, IdleLoopType
<1>7. CASE ReadFile
  <2> DEFINE l(p) == [loop EXCEPT !.at = p]
             c == [loop EXCEPT !.at = "compare", !.source = file]
  <2>1. loop \in LoopRecord /\ file \in File
    BY DEF Inv, Typed
  <2>2. loop' \in {l("remove"), l("unreadable"), c}
    BY <1>7 DEF ReadFile
  <2>3. l("remove") \in LoopRecord /\ l("unreadable") \in LoopRecord /\ c \in LoopRecord
    BY <2>1 DEF LoopRecord, LoopPlaces
  <2>4. QED
    BY <2>2, <2>3
<1>8. CASE Unreadable
  <2> DEFINE n == declared.generation + 1
             l == [loop EXCEPT !.at = "declarationsFailed", !.began = n]
             u == [loop EXCEPT !.at = "unchanged"]
  <2>1. n \in Nat /\ (loop' = u \/ loop' = l) /\ loop \in LoopRecord
    BY <1>8, InvTypes DEF Unreadable, Inv, Typed
  <2>2. l \in LoopRecord /\ u \in LoopRecord
    <3> HIDE DEF n
    <3>1. QED
      BY <2>1 DEF LoopRecord, LoopPlaces
  <2>3. QED
    BY <2>1, <2>2
<1>9. CASE Compare
  <2> DEFINE n == declared.generation + 1
             l == [loop EXCEPT !.at = "parseDeclarations", !.began = n]
             u == [loop EXCEPT !.at = "unchanged"]
  <2>1. n \in Nat /\ (loop' = u \/ loop' = l) /\ loop \in LoopRecord
    BY <1>9, InvTypes DEF Compare, Inv, Typed
  <2>2. l \in LoopRecord /\ u \in LoopRecord
    <3> HIDE DEF n
    <3>1. QED
      BY <2>1 DEF LoopRecord, LoopPlaces
  <2>3. QED
    BY <2>1, <2>2
<1>10. CASE Unchanged
  BY <1>10, InvTypes DEF Unchanged, Inv, Typed, LoopRecord, LoopPlaces, IdleLoop, File
<1>11. CASE ParseCanceled
  <2>1. loop' = IdleLoop
    BY <1>11 DEF ParseCanceled
  <2>2. QED
    BY <2>1, IdleLoopType
<1>12. CASE ParseDeclarations
  <2> DEFINE l(p) == [loop EXCEPT !.at = p]
  <2>1. l("parse") \in LoopRecord /\ l("declarationsFailed") \in LoopRecord
    BY DEF Inv, Typed, LoopRecord, LoopPlaces
  <2>2. loop' \in {IdleLoop, l("parse"), l("declarationsFailed")}
    BY <1>12 DEF ParseDeclarations
  <2>3. QED
    BY <2>1, <2>2, IdleLoopType
<1>13. CASE DeclarationsFailed
  BY <1>13, InvTypes DEF DeclarationsFailed, Inv, Typed, LoopRecord, LoopPlaces, IdleLoop, File
<1>14. CASE Parse
  BY <1>14, InvTypes DEF Parse, Inv, Typed, LoopRecord, LoopPlaces, IdleLoop, File
<1>15. CASE Remove
  BY <1>15, InvTypes DEF Remove, Inv, Typed, LoopRecord, LoopPlaces, IdleLoop, File
<1>16. CASE RemoveDeclarations
  BY <1>16, InvTypes DEF RemoveDeclarations, Inv, Typed, LoopRecord, LoopPlaces, IdleLoop, File
<1>17. CASE UNCHANGED loop
  BY <1>17 DEF Inv, Typed
<1>18. QED
  BY <1>1, <1>2, <1>3, <1>4, <1>5, <1>6, <1>7, <1>8, <1>9, <1>10, <1>11, <1>12, <1>13,
     <1>14, <1>15, <1>16, <1>17, Writers
  DEF Untouching, LoopWrites, Loop

\* The worker keeps its type.
LEMMA WorkerTyped ==
  ASSUME Inv, [Next]_vars
  PROVE  (worker \in WorkerRecord)'
<1>1. CASE Launch
  BY <1>1, InvTypes DEF Launch, Inv, Typed, WorkerRecord, IdleWorker, To, StopWorker
<1>2. CASE Declare
  BY <1>2, InvTypes DEF Declare, Inv, Typed, WorkerRecord, IdleWorker, To, StopWorker
<1>3. CASE PublishDeclarations
  BY <1>3, InvTypes DEF PublishDeclarations, Inv, Typed, WorkerRecord, IdleWorker, To, StopWorker
<1>4. CASE Abandon
  BY <1>4, InvTypes DEF Abandon, Inv, Typed, WorkerRecord, IdleWorker, To, StopWorker
<1>5. CASE Analyze
  BY <1>5, InvTypes DEF Analyze, Inv, Typed, WorkerRecord, IdleWorker, To, StopWorker
<1>6. CASE Publish
  BY <1>6, InvTypes DEF Publish, Inv, Typed, WorkerRecord, IdleWorker, To, StopWorker
<1>7. CASE AbandonSemantic
  BY <1>7, InvTypes DEF AbandonSemantic, Inv, Typed, WorkerRecord, IdleWorker, To, StopWorker
<1>8. CASE UNCHANGED worker
  BY <1>8 DEF Inv, Typed
<1>9. QED
  BY <1>1, <1>2, <1>3, <1>4, <1>5, <1>6, <1>7, <1>8, Writers
  DEF Untouching, Worker

\* The refreshes keep their type.
LEMMA RefreshTyped ==
  ASSUME Inv, [Next]_vars
  PROVE  (refresh \in [Refresher -> RefreshRecord])'
<1>1. CASE Close
  BY <1>1, InvTypes DEF Close, Inv, Typed, RefreshRecord, IdleRefresh, File
<1>2. ASSUME NEW r \in Refresher, Clear(r) PROVE (refresh \in [Refresher -> RefreshRecord])'
  BY <1>2, InvTypes DEF Clear, Inv, Typed, RefreshRecord, IdleRefresh, File
<1>3. ASSUME NEW r \in Refresher, ClearDeclarations(r) PROVE (refresh \in [Refresher -> RefreshRecord])'
  BY <1>3, InvTypes DEF ClearDeclarations, Inv, Typed, RefreshRecord, IdleRefresh, File
<1>4. ASSUME NEW r \in Refresher, MarkCleared(r) PROVE (refresh \in [Refresher -> RefreshRecord])'
  BY <1>4, InvTypes DEF MarkCleared, Inv, Typed, RefreshRecord, IdleRefresh, File
<1>5. ASSUME NEW r \in Refresher, RefreshRead(r) PROVE (refresh \in [Refresher -> RefreshRecord])'
  BY <1>5, InvTypes DEF RefreshRead, Inv, Typed, RefreshRecord, IdleRefresh, File
<1>6. ASSUME NEW r \in Refresher, RefreshParse(r) PROVE (refresh \in [Refresher -> RefreshRecord])'
  BY <1>6, InvTypes DEF RefreshParse, Inv, Typed, RefreshRecord, IdleRefresh, File
<1>7. ASSUME NEW r \in Refresher, RefreshAbsent(r) PROVE (refresh \in [Refresher -> RefreshRecord])'
  BY <1>7, InvTypes DEF RefreshAbsent, Inv, Typed, RefreshRecord, IdleRefresh, File
<1>8. ASSUME NEW r \in Refresher, RefreshRemove(r) PROVE (refresh \in [Refresher -> RefreshRecord])'
  BY <1>8, InvTypes DEF RefreshRemove, Inv, Typed, RefreshRecord, IdleRefresh, File
<1>9. CASE UNCHANGED refresh
  BY <1>9 DEF Inv, Typed
<1>10. QED
  BY <1>1, <1>2, <1>3, <1>4, <1>5, <1>6, <1>7, <1>8, <1>9, Writers
  DEF Untouching, RefreshWrites, Refresh

\* The initial build keeps its type.
LEMMA BuildTyped ==
  ASSUME Inv, [Next]_vars
  PROVE  (initial \in BuildRecord)'
<1>1. CASE Skip
  BY <1>1 DEF Skip, Inv, Typed, BuildRecord, File
<1>2. CASE Discover
  BY <1>2 DEF Discover, Inv, Typed, BuildRecord, File
<1>3. CASE Claim
  BY <1>3 DEF Claim, Inv, Typed, BuildRecord, File
<1>4. CASE InitialRead
  BY <1>4 DEF InitialRead, Inv, Typed, BuildRecord, File
<1>5. CASE InitialUnreadable
  BY <1>5 DEF InitialUnreadable, Inv, Typed, BuildRecord, File
<1>6. CASE InitialParse
  BY <1>6 DEF InitialParse, Inv, Typed, BuildRecord, File
<1>7. CASE DeclarationsReady
  BY <1>7 DEF DeclarationsReady, Inv, Typed, BuildRecord, File
<1>8. CASE InitialSemantics
  BY <1>8 DEF InitialSemantics, Inv, Typed, BuildRecord, File
<1>9. CASE InitialSemanticParse
  BY <1>9 DEF InitialSemanticParse, Inv, Typed, BuildRecord, File
<1>10. CASE IndexReady
  BY <1>10 DEF IndexReady, Inv, Typed, BuildRecord, File
<1>11. CASE UNCHANGED initial
  BY <1>11 DEF Inv, Typed
<1>12. QED
  BY <1>1, <1>2, <1>3, <1>4, <1>5, <1>6, <1>7, <1>8, <1>9, <1>10, <1>11, Writers
  DEF Untouching, BuildWrites, Build

LEMMA TypedStep ==
  ASSUME Inv, [Next]_vars
  PROVE  Typed'
BY SemanticHeld, DeclaredHeld, EditorTyped, ParseTyped, ReadyTyped, LoopTyped, WorkerTyped, RefreshTyped,
   BuildTyped DEF Typed


-----------------------------------------------------------------------------
(***************************************************************************)
(* What stands: the generations, the masks and the disk entry.              *)
(***************************************************************************)
SemanticMasks == Reserve \/ Publish \/ AbandonSemantic \/ \E r \in Refresher : Clear(r)
SemanticKeeps ==
  /\ semantic'.generation = semantic.generation \/ semantic'.generation = semantic.generation + 1
  /\ \/ SemanticMasks
     \/ semantic'.pending = semantic.pending /\ semantic'.overlay = semantic.overlay

DeclaredMasks ==
  \/ Open \/ Change \/ PublishDeclarations \/ Abandon \/ RemoveDeclarations
  \/ \E r \in Refresher : ClearDeclarations(r) \/ RefreshRemove(r)
DeclaredKeeps ==
  \/ DeclaredMasks
  \/ declared'.pending = declared.pending /\ declared'.overlay = declared.overlay

DiskKeeps ==
  \/ semantic'.disk = semantic.disk
  \/ Parse \/ Remove \/ InitialSemanticParse
  \/ \E r \in Refresher : Clear(r) \/ RefreshParse(r)

\* The generation of the semantic layer grows by one or not at all, and only those who
\* mask and unmask it touch its reservation and its overlay.
LEMMA SemanticKept ==
  ASSUME Inv, [Next]_vars
  PROVE  SemanticKeeps
<1>1. CASE Reserve
  BY <1>1, InvTypes DEF Reserve, Reserved, Held, LayerRecord, SemanticKeeps, SemanticMasks
<1>2. CASE Upsert
  BY <1>2, InvTypes DEF Upsert, Held, LayerRecord, SemanticKeeps, SemanticMasks
<1>3. CASE ReadFile
  <2>1. semantic' = semantic \/ semantic' = MarkedIncomplete(semantic, loop.observed)
    BY <1>3 DEF ReadFile
  <2>2. QED
    BY <2>1, InvTypes, MarkedFields DEF SemanticKeeps
<1>4. CASE Unchanged
  BY <1>4, InvTypes DEF Unchanged, Held, LayerRecord, SemanticKeeps, SemanticMasks
<1>5. CASE ParseDeclarations
  <2>1. semantic' = semantic \/ semantic' = MarkedIncomplete(semantic, loop.observed)
    BY <1>5 DEF ParseDeclarations
  <2>2. QED
    BY <2>1, InvTypes, MarkedFields DEF SemanticKeeps
<1>6. CASE Parse
  <2>1. \/ semantic' = semantic
        \/ semantic' = WithDisk(semantic, loop.source, loop.source \in Recovered)
        \/ semantic' = MarkedIncomplete(semantic, loop.observed)
    BY <1>6 DEF Parse
  <2>2. QED
    BY <2>1, InvTypes DEF WithDisk, MarkedIncomplete, Held, LayerRecord, SemanticKeeps
<1>7. CASE Remove
  BY <1>7, InvTypes DEF Remove, Held, LayerRecord, SemanticKeeps, SemanticMasks
<1>8. CASE Publish
  <2>1. \/ semantic' = semantic
        \/ \E b \in BOOLEAN : semantic' = Published(semantic, worker.generation, b)
    BY <1>8 DEF Publish
  <2>2. semantic'.generation = semantic.generation
    BY <2>1, InvTypes DEF Published, Held, LayerRecord
  <2>3. QED
    BY <1>8, <2>2 DEF SemanticKeeps, SemanticMasks
<1>9. CASE AbandonSemantic
  <2>1. semantic'.generation = semantic.generation
    BY <1>9, InvTypes DEF AbandonSemantic, Abandoned, Held, LayerRecord
  <2>2. QED
    BY <1>9, <2>1 DEF SemanticKeeps, SemanticMasks
<1>10. ASSUME NEW r \in Refresher, Clear(r) PROVE SemanticKeeps
  BY <1>10, InvTypes DEF Clear, NewLayer, SemanticKeeps, SemanticMasks
<1>11. ASSUME NEW r \in Refresher, RefreshParse(r) PROVE SemanticKeeps
  BY <1>11, InvTypes DEF RefreshParse, Held, LayerRecord, SemanticKeeps, SemanticMasks
<1>12. ASSUME NEW r \in Refresher, RefreshAbsent(r) PROVE SemanticKeeps
  BY <1>12, InvTypes DEF RefreshAbsent, Held, LayerRecord, SemanticKeeps, SemanticMasks
<1>13. CASE InitialSemantics
  BY <1>13, InvTypes DEF InitialSemantics, Failed, Held, LayerRecord, SemanticKeeps
<1>14. CASE InitialSemanticParse
  <2>1. \/ semantic' = semantic
        \/ semantic' = WithDisk(semantic, initial.source, initial.source \in Recovered)
        \/ semantic' = [semantic EXCEPT !.incomplete = @ \/ Untouched]
    BY <1>14 DEF InitialSemanticParse, Failed
  <2>2. QED
    BY <2>1, InvTypes DEF WithDisk, Held, LayerRecord, SemanticKeeps
<1>15. CASE UNCHANGED semantic
  BY <1>15, InvTypes DEF SemanticKeeps
<1>16. QED
  BY <1>1, <1>2, <1>3, <1>4, <1>5, <1>6, <1>7, <1>8, <1>9, <1>10, <1>11, <1>12, <1>13,
     <1>14, <1>15, Writers
  DEF Untouching, SemanticWrites

\* Only those who mask and unmask the declaration layer touch its reservation and its
\* overlay.
LEMMA DeclaredKept ==
  ASSUME Inv, [Next]_vars
  PROVE  DeclaredKeeps
<1>1. CASE Open
  BY <1>1 DEF DeclaredKeeps, DeclaredMasks
<1>2. CASE Change
  BY <1>2 DEF DeclaredKeeps, DeclaredMasks
<1>3. CASE Unreadable
  BY <1>3, InvTypes DEF Unreadable, Held, LayerRecord, DiskBegun, InitialFailure, Projected, WithDisk, DeclaredKeeps
<1>4. CASE Compare
  BY <1>4, InvTypes DEF Compare, Held, LayerRecord, DiskBegun, InitialFailure, Projected, WithDisk, DeclaredKeeps
<1>5. CASE ParseDeclarations
  BY <1>5, InvTypes DEF ParseDeclarations, Held, LayerRecord, DiskBegun, InitialFailure, Projected, WithDisk, DeclaredKeeps
<1>6. CASE DeclarationsFailed
  BY <1>6, InvTypes, MarkedFields DEF DeclarationsFailed, DeclaredKeeps
<1>7. CASE Parse
  BY <1>7, InvTypes DEF Parse, Held, LayerRecord, DiskBegun, InitialFailure, Projected, WithDisk, DeclaredKeeps
<1>8. CASE RemoveDeclarations
  BY <1>8 DEF DeclaredKeeps, DeclaredMasks
<1>9. CASE PublishDeclarations
  BY <1>9 DEF DeclaredKeeps, DeclaredMasks
<1>10. CASE Abandon
  BY <1>10 DEF DeclaredKeeps, DeclaredMasks
<1>11. ASSUME NEW r \in Refresher, ClearDeclarations(r) PROVE DeclaredKeeps
  BY <1>11 DEF DeclaredKeeps, DeclaredMasks
<1>12. ASSUME NEW r \in Refresher, MarkCleared(r) PROVE DeclaredKeeps
  BY <1>12, InvTypes DEF MarkCleared, Held, LayerRecord, DiskBegun, InitialFailure, Projected, WithDisk, DeclaredKeeps
<1>13. ASSUME NEW r \in Refresher, RefreshParse(r) PROVE DeclaredKeeps
  BY <1>13, InvTypes DEF RefreshParse, Held, LayerRecord, DiskBegun, InitialFailure, Projected, WithDisk, DeclaredKeeps
<1>14. ASSUME NEW r \in Refresher, RefreshRemove(r) PROVE DeclaredKeeps
  BY <1>14 DEF DeclaredKeeps, DeclaredMasks
<1>15. CASE InitialUnreadable
  BY <1>15, InvTypes DEF InitialUnreadable, Held, LayerRecord, DiskBegun, InitialFailure, Projected, WithDisk, DeclaredKeeps
<1>16. CASE InitialParse
  BY <1>16, InvTypes DEF InitialParse, Held, LayerRecord, DiskBegun, InitialFailure, Projected, WithDisk, DeclaredKeeps
<1>17. CASE InitialSemanticParse
  BY <1>17, InvTypes DEF InitialSemanticParse, Held, LayerRecord, DiskBegun, InitialFailure, Projected, WithDisk, DeclaredKeeps
<1>18. CASE UNCHANGED declared
  BY <1>18 DEF DeclaredKeeps
<1>19. QED
  BY <1>1, <1>2, <1>3, <1>4, <1>5, <1>6, <1>7, <1>8, <1>9, <1>10, <1>11, <1>12, <1>13,
     <1>14, <1>15, <1>16, <1>17, <1>18, Writers
  DEF Untouching, DeclaredWrites

\* What the semantic layer holds of the saved file.
LEMMA DiskKept ==
  ASSUME Inv, [Next]_vars
  PROVE  DiskKeeps
<1>1. CASE Reserve
  BY <1>1, InvTypes DEF Reserve, Reserved, Held, LayerRecord, DiskKeeps
<1>2. CASE Upsert
  BY <1>2, InvTypes DEF Upsert, Held, LayerRecord, DiskKeeps
<1>3. CASE ReadFile
  <2>1. semantic' = semantic \/ semantic' = MarkedIncomplete(semantic, loop.observed)
    BY <1>3 DEF ReadFile
  <2>2. QED
    BY <2>1, InvTypes, MarkedFields DEF DiskKeeps
<1>4. CASE Unchanged
  BY <1>4, InvTypes DEF Unchanged, Held, LayerRecord, DiskKeeps
<1>5. CASE ParseDeclarations
  <2>1. semantic' = semantic \/ semantic' = MarkedIncomplete(semantic, loop.observed)
    BY <1>5 DEF ParseDeclarations
  <2>2. QED
    BY <2>1, InvTypes, MarkedFields DEF DiskKeeps
<1>6. CASE Parse
  BY <1>6 DEF DiskKeeps
<1>7. CASE Remove
  BY <1>7 DEF DiskKeeps
<1>8. CASE Publish
  <2>1. \/ semantic' = semantic
        \/ \E b \in BOOLEAN : semantic' = Published(semantic, worker.generation, b)
    BY <1>8 DEF Publish
  <2>2. QED
    BY <2>1, InvTypes DEF Published, Held, LayerRecord, DiskKeeps
<1>9. CASE AbandonSemantic
  BY <1>9, InvTypes DEF AbandonSemantic, Abandoned, Held, LayerRecord, DiskKeeps
<1>10. ASSUME NEW r \in Refresher, Clear(r) PROVE DiskKeeps
  BY <1>10 DEF DiskKeeps
<1>11. ASSUME NEW r \in Refresher, RefreshParse(r) PROVE DiskKeeps
  BY <1>11 DEF DiskKeeps
<1>12. ASSUME NEW r \in Refresher, RefreshAbsent(r) PROVE DiskKeeps
  BY <1>12, InvTypes DEF RefreshAbsent, Held, LayerRecord, DiskKeeps
<1>13. CASE InitialSemantics
  BY <1>13, InvTypes DEF InitialSemantics, Failed, Held, LayerRecord, DiskKeeps
<1>14. CASE InitialSemanticParse
  BY <1>14 DEF DiskKeeps
<1>15. CASE UNCHANGED semantic
  BY <1>15 DEF DiskKeeps
<1>16. QED
  BY <1>1, <1>2, <1>3, <1>4, <1>5, <1>6, <1>7, <1>8, <1>9, <1>10, <1>11, <1>12, <1>13,
     <1>14, <1>15, Writers
  DEF Untouching, SemanticWrites


-----------------------------------------------------------------------------
(***************************************************************************)
(* Where the read loop and the refreshes go.                                *)
(***************************************************************************)
LoopGoes ==
  /\ loop.at = "reserve" => Reserve \/ loop' = loop
  /\ loop.at = "update" => Upsert \/ loop' = loop
  /\ loop'.at = "reserve" => Open \/ Change \/ loop' = loop
  /\ loop'.at = "update" => Update \/ loop' = loop
  /\ loop'.at = "skip" => Reserve \/ loop' = loop
  /\ loop'.at = "unchanged" => Compare \/ loop' = loop
  /\ loop'.at = "remove" => loop' = loop \/ (ReadFile /\ file = "missing")
  /\ loop'.at \in {"compare", "unchanged", "parseDeclarations", "parse"} =>
       \/ loop' = loop
       \/ ReadFile /\ loop'.source = file /\ file \notin {"missing", "unreadable"}
       \/ /\ loop.at \in {"compare", "unchanged", "parseDeclarations", "parse"}
          /\ loop'.source = loop.source
  /\ Upserting' => \/ loop' = loop
                   \/ Upsert /\ ~Masked(semantic) /\ loop'.at = "read"
                        /\ loop'.observed = semantic.generation + 1
                   \/ Upserting /\ loop'.observed = loop.observed

RefreshGoes(q) ==
  \/ refresh'[q] = refresh[q]
  \/ Close /\ refresh[q].at = "none" /\ refresh'[q].at = "waiting"
  \/ Refresh(q)

\* The way of the read loop.
LEMMA LoopMoves ==
  ASSUME Inv, [Next]_vars
  PROVE  LoopGoes
<1>1. CASE Open
  BY <1>1 DEF Open, Take, LoopGoes, Upserting, Inv, Typed, LoopRecord, LoopPlaces, IdleLoop
<1>2. CASE Change
  BY <1>2 DEF Change, Take, LoopGoes, Upserting, Inv, Typed, LoopRecord, LoopPlaces, IdleLoop
<1>3. CASE Update
  BY <1>3 DEF Update, LoopGoes, Upserting, Inv, Typed, LoopRecord, LoopPlaces, IdleLoop
<1>4. CASE Reserve
  BY <1>4 DEF Reserve, LoopGoes, Upserting, Inv, Typed, LoopRecord, LoopPlaces, IdleLoop
<1>5. CASE Skip
  BY <1>5 DEF Skip, LoopGoes, Upserting, Inv, Typed, LoopRecord, LoopPlaces, IdleLoop
<1>6. CASE Upsert
  <2>1. loop \in LoopRecord /\ loop.at = "update"
    BY <1>6 DEF Upsert, Inv, Typed
  <2>2. \/ loop' = IdleLoop
        \/ ~Masked(semantic) /\ loop' = [loop EXCEPT !.at = "read", !.observed = semantic.generation + 1]
    BY <1>6 DEF Upsert
  <2>3. \/ loop'.at = "idle"
        \/ /\ ~Masked(semantic) /\ loop'.at = "read" /\ loop'.observed = semantic.generation + 1
    <3> DEFINE n == semantic.generation + 1
    <3>1. CASE loop' = IdleLoop
      BY <3>1 DEF IdleLoop
    <3>2. CASE ~Masked(semantic) /\ loop' = [loop EXCEPT !.at = "read", !.observed = n]
      <4>1. loop'.at = "read" /\ loop'.observed = n
        <5> HIDE DEF n
        <5>1. QED
          BY <2>1, <3>2 DEF LoopRecord
      <4>2. QED
        BY <3>2, <4>1
    <3>3. QED
      BY <2>2, <3>1, <3>2
  <2>4. QED
    BY <1>6, <2>1, <2>3 DEF LoopGoes, Upserting
<1>7. CASE ReadFile
  BY <1>7 DEF ReadFile, LoopGoes, Upserting, Inv, Typed, LoopRecord, LoopPlaces, IdleLoop
<1>8. CASE Unreadable
  BY <1>8 DEF Unreadable, LoopGoes, Upserting, Inv, Typed, LoopRecord, LoopPlaces, IdleLoop
<1>9. CASE Compare
  BY <1>9 DEF Compare, LoopGoes, Upserting, Inv, Typed, LoopRecord, LoopPlaces, IdleLoop
<1>10. CASE Unchanged
  BY <1>10 DEF Unchanged, LoopGoes, Upserting, Inv, Typed, LoopRecord, LoopPlaces, IdleLoop
<1>11. CASE ParseCanceled
  BY <1>11 DEF ParseCanceled, LoopGoes, Upserting, Inv, Typed, LoopRecord, LoopPlaces, IdleLoop
<1>12. CASE ParseDeclarations
  <2>1. loop \in LoopRecord /\ loop.at = "parseDeclarations"
    BY <1>12 DEF ParseDeclarations, Inv, Typed
  <2>2. \/ loop' = IdleLoop \/ loop' = [loop EXCEPT !.at = "parse"]
        \/ loop' = [loop EXCEPT !.at = "declarationsFailed"]
    BY <1>12 DEF ParseDeclarations
  <2>3. \/ loop'.at = "idle"
        \/ /\ loop'.at \in {"parse", "declarationsFailed"}
           /\ loop'.observed = loop.observed /\ loop'.source = loop.source
    BY <2>1, <2>2 DEF LoopRecord, IdleLoop
  <2>4. QED
    BY <2>1, <2>3 DEF LoopGoes, Upserting
<1>13. CASE DeclarationsFailed
  BY <1>13 DEF DeclarationsFailed, LoopGoes, Upserting, Inv, Typed, LoopRecord, LoopPlaces, IdleLoop
<1>14. CASE Parse
  BY <1>14 DEF Parse, LoopGoes, Upserting, Inv, Typed, LoopRecord, LoopPlaces, IdleLoop
<1>15. CASE Remove
  BY <1>15 DEF Remove, LoopGoes, Upserting, Inv, Typed, LoopRecord, LoopPlaces, IdleLoop
<1>16. CASE RemoveDeclarations
  BY <1>16 DEF RemoveDeclarations, LoopGoes, Upserting, Inv, Typed, LoopRecord, LoopPlaces, IdleLoop
<1>17. CASE UNCHANGED loop
  BY <1>17 DEF LoopGoes
<1>18. QED
  BY <1>1, <1>2, <1>3, <1>4, <1>5, <1>6, <1>7, <1>8, <1>9, <1>10, <1>11, <1>12, <1>13,
     <1>14, <1>15, <1>16, <1>17, Writers
  DEF Untouching, LoopWrites, Loop

\* didClose starts a refresh.
LEMMA CloseRefresh ==
  ASSUME Inv, Close
  PROVE  \E c \in Refresher : /\ refresh[c].at = "none" /\ refresh'[c].at = "waiting"
                              /\ \A q \in Refresher \ {c} : refresh'[q] = refresh[q]
<1> DEFINE c == CHOOSE r \in Refresher : refresh[r].at = "none"
<1>1. c \in Refresher /\ refresh[c].at = "none"
  BY DEF Close
<1>2. refresh' = [refresh EXCEPT ![c].at = "waiting"]
  BY DEF Close
<1> HIDE DEF c
<1>3. refresh \in [Refresher -> RefreshRecord]
  BY DEF Inv, Typed
<1>4. refresh'[c].at = "waiting" /\ \A q \in Refresher \ {c} : refresh'[q] = refresh[q]
  BY <1>1, <1>2, <1>3 DEF RefreshRecord
<1>5. QED
  BY <1>1, <1>4

\* One refresh at a time moves.
LEMMA RefreshMoves ==
  ASSUME Inv, [Next]_vars, NEW q \in Refresher
  PROVE  RefreshGoes(q)
<1>1. CASE Close
  BY <1>1, CloseRefresh DEF RefreshGoes
<1>2. ASSUME NEW r \in Refresher, Refresh(r) PROVE RefreshGoes(q)
  <2>1. CASE r = q
    BY <1>2, <2>1 DEF RefreshGoes
  <2>2. CASE r # q
    <3>1. refresh'[q] = refresh[q]
      BY <1>2, <2>2 DEF Refresh, Clear, ClearDeclarations, MarkCleared, RefreshRead, RefreshParse,
                        RefreshAbsent, RefreshRemove, Inv, Typed
    <3>2. QED
      BY <3>1 DEF RefreshGoes
  <2>3. QED
    BY <2>1, <2>2
<1>3. CASE UNCHANGED refresh
  BY <1>3 DEF RefreshGoes
<1>4. QED
  BY <1>1, <1>2, <1>3, Writers DEF Untouching, RefreshWrites

\* Where a refresh that moves comes from and goes to.
LEMMA RefreshPlaces ==
  ASSUME Inv, NEW q \in Refresher
  PROVE  /\ Clear(q) => /\ refresh[q].at = "waiting"
                        /\ \/ open /\ refresh'[q].at = "none" /\ UNCHANGED semantic
                           \/ /\ ~open /\ refresh'[q].at = "clear"
                              /\ refresh'[q].observed = semantic.generation + 1
                              /\ semantic' = [NewLayer EXCEPT !.generation = semantic.generation + 1,
                                                              !.incomplete = TRUE]
         /\ ClearDeclarations(q) => /\ refresh[q].at = "clear" /\ refresh'[q].at = "mark"
                                    /\ refresh'[q].observed = refresh[q].observed
         /\ MarkCleared(q) => /\ refresh[q].at = "mark" /\ refresh'[q].at = "read"
                              /\ refresh'[q].observed = refresh[q].observed
         /\ RefreshRead(q) =>
              /\ refresh[q].at = "read"
              /\ \/ refresh'[q].at = "none"
                 \/ /\ refresh'[q].at = "absent" /\ refresh'[q].observed = refresh[q].observed
                    /\ file = "missing"
                 \/ /\ refresh'[q].at = "parse" /\ refresh'[q].observed = refresh[q].observed
                    /\ refresh'[q].source = file /\ file \notin {"missing", "unreadable"}
         /\ RefreshParse(q) => refresh[q].at = "parse" /\ refresh'[q].at = "none"
         /\ RefreshAbsent(q) => /\ refresh[q].at = "absent" /\ refresh'[q].at = "remove"
                                /\ refresh'[q].observed = refresh[q].observed
         /\ RefreshRemove(q) => refresh[q].at = "remove" /\ refresh'[q].at = "none"
<1> refresh \in [Refresher -> RefreshRecord] /\ q \in Refresher
  BY DEF Inv, Typed
<1> USE DEF RefreshRecord, IdleRefresh
<1>1. Clear(q) => /\ refresh[q].at = "waiting"
                  /\ \/ open /\ refresh'[q].at = "none" /\ UNCHANGED semantic
                     \/ /\ ~open /\ refresh'[q].at = "clear"
                        /\ refresh'[q].observed = semantic.generation + 1
                        /\ semantic' = [NewLayer EXCEPT !.generation = semantic.generation + 1,
                                                        !.incomplete = TRUE]
  BY DEF Clear
<1>2. ClearDeclarations(q) => /\ refresh[q].at = "clear" /\ refresh'[q].at = "mark"
                              /\ refresh'[q].observed = refresh[q].observed
  BY DEF ClearDeclarations
<1>3. MarkCleared(q) => /\ refresh[q].at = "mark" /\ refresh'[q].at = "read"
                        /\ refresh'[q].observed = refresh[q].observed
  BY DEF MarkCleared
<1>4. RefreshRead(q) =>
        /\ refresh[q].at = "read"
        /\ \/ refresh'[q].at = "none"
           \/ /\ refresh'[q].at = "absent" /\ refresh'[q].observed = refresh[q].observed
              /\ file = "missing"
           \/ /\ refresh'[q].at = "parse" /\ refresh'[q].observed = refresh[q].observed
              /\ refresh'[q].source = file /\ file \notin {"missing", "unreadable"}
  BY DEF RefreshRead
<1>5. RefreshParse(q) => refresh[q].at = "parse" /\ refresh'[q].at = "none"
  BY DEF RefreshParse
<1>6. RefreshAbsent(q) => /\ refresh[q].at = "absent" /\ refresh'[q].at = "remove"
                          /\ refresh'[q].observed = refresh[q].observed
  BY DEF RefreshAbsent
<1>7. RefreshRemove(q) => refresh[q].at = "remove" /\ refresh'[q].at = "none"
  BY DEF RefreshRemove
<1>8. QED
  BY <1>1, <1>2, <1>3, <1>4, <1>5, <1>6, <1>7


-----------------------------------------------------------------------------
(***************************************************************************)
(* Opened and Closed: who masks the path.                                   *)
(***************************************************************************)
\* What the worker does to a reservation: nothing, or it settles the one of its
\* own generation.
Settles(layer, t) ==
  /\ layer.pending = worker.generation /\ worker.generation \in 1..generation /\ t.pending = 0
  /\ \/ t.overlay = Text(worker.generation)
     \/ t.overlay = Mask /\ t.incomplete = TRUE

LEMMA WorkerSettles ==
  ASSUME Inv
  PROVE  /\ Publish \/ AbandonSemantic => semantic' = semantic \/ Settles(semantic, semantic')
         /\ PublishDeclarations \/ Abandon => declared' = declared \/ Settles(declared, declared')
<1>1. Publish => semantic' = semantic \/ Settles(semantic, semantic')
  <2> SUFFICES ASSUME Publish, semantic' # semantic PROVE Settles(semantic, semantic')
    OBVIOUS
  <2>1. worker.generation \in 1..generation /\ semantic.pending = worker.generation
    BY InvSources DEF Publish
  <2>w. PICK w \in 1..generation : w = worker.generation
    BY <2>1
  <2>2. PICK b \in BOOLEAN : semantic' = Published(semantic, w, b)
    BY <2>w DEF Publish
  <2>3. semantic'.pending = 0 /\ semantic'.overlay = Text(w)
    BY <2>2, InvTypes, PublishedHeld
  <2>4. QED
    BY <2>1, <2>w, <2>3 DEF Settles
<1>2. AbandonSemantic => semantic' = semantic \/ Settles(semantic, semantic')
  <2> SUFFICES ASSUME AbandonSemantic PROVE semantic' = semantic \/ Settles(semantic, semantic')
    OBVIOUS
  <2>1. worker.generation \in 1..generation /\ worker.generation \in Nat \ {0}
    BY InvTypes, InvSources DEF AbandonSemantic
  <2>w. PICK w \in Nat \ {0} : w = worker.generation
    BY <2>1
  <2>2. semantic' = Abandoned(semantic, w)
    BY <2>w DEF AbandonSemantic
  <2>3. \/ semantic' = semantic
        \/ semantic.pending = w /\ semantic'.pending = 0 /\ semantic'.overlay = Mask /\ semantic'.incomplete = TRUE
    BY <2>2, InvTypes DEF Abandoned, Held, LayerRecord
  <2>4. QED
    BY <2>1, <2>w, <2>3 DEF Settles
<1>3. PublishDeclarations => declared' = declared \/ Settles(declared, declared')
  <2> SUFFICES ASSUME PublishDeclarations, declared' # declared PROVE Settles(declared, declared')
    OBVIOUS
  <2>1. worker.generation \in 1..generation /\ declared.pending = worker.generation
    BY InvSources DEF PublishDeclarations
  <2>w. PICK w \in 1..generation : w = worker.generation
    BY <2>1
  <2>2. PICK b \in BOOLEAN : declared' = Published(declared, w, b)
    BY <2>w DEF PublishDeclarations
  <2>3. declared'.pending = 0 /\ declared'.overlay = Text(w)
    BY <2>2, InvTypes, PublishedHeld
  <2>4. QED
    BY <2>1, <2>w, <2>3 DEF Settles
<1>4. Abandon => declared' = declared \/ Settles(declared, declared')
  <2> SUFFICES ASSUME Abandon PROVE declared' = declared \/ Settles(declared, declared')
    OBVIOUS
  <2>1. worker.generation \in 1..generation /\ worker.generation \in Nat \ {0}
    BY InvTypes, InvSources DEF Abandon
  <2>w. PICK w \in Nat \ {0} : w = worker.generation
    BY <2>1
  <2>2. declared' = Abandoned(declared, w)
    BY <2>w DEF Abandon
  <2>3. \/ declared' = declared
        \/ declared.pending = w /\ declared'.pending = 0 /\ declared'.overlay = Mask /\ declared'.incomplete = TRUE
    BY <2>2, InvTypes DEF Abandoned, Held, LayerRecord
  <2>4. QED
    BY <2>1, <2>w, <2>3 DEF Settles
<1>5. QED
  BY <1>1, <1>2, <1>3, <1>4

\* Settling a reservation masks the path for good.
LEMMA SettledMasks ==
  ASSUME NEW layer, NEW t, Inv, Settles(layer, t)
  PROVE  Masked(layer) /\ Masked(t)
BY InvTypes, EntryFacts DEF Settles, Masked

\* Settling a reservation ends it.
LEMMA SettledPending ==
  ASSUME NEW layer, NEW t, Inv, Settles(layer, t)
  PROVE  layer.pending # 0 /\ t.pending = 0
BY InvTypes DEF Settles

\* The reservation of the semantic layer: who makes it, and what it becomes.
LEMMA SemanticReserved ==
  ASSUME Inv, [Next]_vars
  PROVE  \/ /\ Reserve /\ semantic'.pending = generation /\ semantic'.overlay = None
            /\ Masked(semantic') /\ semantic'.generation = semantic.generation + 1
         \/ Settles(semantic, semantic') /\ (Publish \/ AbandonSemantic)
         \/ \E r \in Refresher : Clear(r) /\ ~open /\ ~Masked(semantic') /\ refresh[r].at = "waiting"
         \/ semantic'.pending = semantic.pending /\ semantic'.overlay = semantic.overlay
<1>1. CASE Reserve
  <2>1. semantic' = Reserved(semantic, generation) /\ generation # 0 /\ Held(semantic, generation)
        /\ generation \in Nat
    BY <1>1, InvTypes DEF Reserve, Inv, Opened, Handling
  <2>2. QED
    BY <1>1, <2>1, ReservedHeld DEF Masked
<1>2. CASE Publish \/ AbandonSemantic
  BY <1>2, WorkerSettles
<1>3. ASSUME NEW r \in Refresher, Clear(r), semantic' # semantic
      PROVE  ~open /\ ~Masked(semantic') /\ refresh[r].at = "waiting"
  <2> DEFINE n == semantic.generation + 1
             yes == TRUE
  <2>1. n \in Nat /\ yes \in BOOLEAN
    BY InvTypes
  <2>2. /\ ~open /\ refresh[r].at = "waiting"
        /\ semantic' = [NewLayer EXCEPT !.generation = n, !.incomplete = yes]
    BY <1>3 DEF Clear
  <2> HIDE DEF n, yes
  <2>3. QED
    BY <2>1, <2>2, InvTypes, NewHeld
<1>4. QED
  BY <1>1, <1>2, <1>3, SemanticKept DEF SemanticKeeps, SemanticMasks

\* The same for the declarations.
LEMMA DeclaredReserved ==
  ASSUME Inv, [Next]_vars
  PROVE  \/ /\ Open \/ Change
            /\ declared'.pending = generation' /\ declared'.overlay = None
         \/ Settles(declared, declared') /\ (PublishDeclarations \/ Abandon)
         \/ ~Masked(declared') /\ declared'.pending = 0 /\ declared'.overlay = None
         \/ declared'.pending = declared.pending /\ declared'.overlay = declared.overlay
<1>1. CASE Open \/ Change
  <2> DEFINE g == generation + 1
  <2>1. generation' = g /\ declared' = Reserved(declared, g)
    BY <1>1 DEF Open, Change, Take
  <2>2. g \in Nat /\ g # 0 /\ Held(declared, g)
    BY InvTypes, HeldLater
  <2> HIDE DEF g
  <2>3. QED
    BY <1>1, <2>1, <2>2, ReservedHeld
<1>2. CASE PublishDeclarations \/ Abandon
  BY <1>2, WorkerSettles
<1>3. ASSUME \/ RemoveDeclarations
             \/ \E r \in Refresher : ClearDeclarations(r) \/ RefreshRemove(r)
      PROVE  ~Masked(declared') /\ declared'.pending = 0 /\ declared'.overlay = None
  <2>1. declared' = [NewLayer EXCEPT !.generation = declared.generation + 1]
    BY <1>3 DEF RemoveDeclarations, ClearDeclarations, RefreshRemove, DeclarationsRemoved
  <2>2. declared'.pending = 0 /\ declared'.overlay = None
    BY <2>1 DEF NewLayer
  <2>3. QED
    BY <2>2 DEF Masked
<1>4. QED
  BY <1>1, <1>2, <1>3, DeclaredKept DEF DeclaredKeeps, DeclaredMasks

\* The declarations are reserved for the newest text only.
LEMMA DeclaredReserves ==
  ASSUME Inv, [Next]_vars
  PROVE  (open => generation # 0 /\ Reserves(declared, generation))'
<1>1. CASE Open \/ Change
  <2>1. generation' = generation + 1 /\ generation + 1 # 0
    BY <1>1, InvTypes DEF Open, Change, Take
  <2>2. declared'.pending = generation' /\ declared'.overlay = None
    <3> DEFINE g == generation + 1
    <3>1. generation' = g /\ declared' = Reserved(declared, g)
      BY <1>1 DEF Open, Change, Take
    <3>2. g \in Nat /\ g # 0 /\ Held(declared, g)
      BY InvTypes, HeldLater
    <3> HIDE DEF g
    <3>3. QED
      BY <3>1, <3>2, ReservedHeld
  <2>3. QED
    BY <2>1, <2>2 DEF Reserves
<1>2. CASE Close
  BY <1>2 DEF Close
<1>3. CASE UNCHANGED <<open, generation>> /\ ~Open /\ ~Change
  <2> SUFFICES ASSUME open PROVE generation # 0 /\ Reserves(declared', generation)
    BY <1>3
  <2>1. generation # 0 /\ Reserves(declared, generation)
    BY DEF Inv, Opened
  <2>2. CASE Settles(declared, declared')
    BY <2>1, <2>2, InvTypes DEF Settles, Reserves
  <2>3. CASE declared'.pending = 0 /\ declared'.overlay = None
    BY <2>1, <2>3 DEF Reserves
  <2>4. CASE declared'.pending = declared.pending /\ declared'.overlay = declared.overlay
    BY <2>1, <2>4 DEF Reserves
  <2>5. QED
    BY <1>3, <2>2, <2>3, <2>4, DeclaredReserved
<1>4. QED
  BY <1>1, <1>2, <1>3, Writers DEF Untouching

\* While the document is open the semantic layer is masked for its newest text.
LEMMA SemanticReserves ==
  ASSUME Inv, [Next]_vars
  PROVE  (open /\ loop.at # "reserve" => Reserves(semantic, generation) /\ Masked(semantic))'
<1>1. CASE Open \/ Change
  BY <1>1 DEF Open, Change, Take, IdleLoop
<1>2. CASE Close
  BY <1>2 DEF Close
<1>3. CASE UNCHANGED <<open, generation>>
  <2> SUFFICES ASSUME open, loop'.at # "reserve"
               PROVE  Reserves(semantic', generation) /\ Masked(semantic')
    BY <1>3
  <2>1. CASE Reserve /\ semantic'.pending = generation /\ semantic'.overlay = None /\ Masked(semantic')
    BY <2>1 DEF Reserves
  <2>2. CASE loop.at # "reserve" /\ Settles(semantic, semantic')
    <3>1. Reserves(semantic, generation) /\ Masked(semantic')
      BY <2>2, SettledMasks DEF Inv, Opened
    <3>2. worker.generation = generation
      BY <2>2, <3>1, InvTypes DEF Settles, Reserves
    <3>3. semantic'.pending = 0 /\ semantic'.overlay \in {Mask, Text(generation)}
      BY <2>2, <3>2 DEF Settles
    <3>4. QED
      BY <3>1, <3>3 DEF Reserves
  <2>3. CASE /\ loop.at # "reserve"
             /\ semantic'.pending = semantic.pending /\ semantic'.overlay = semantic.overlay
    BY <2>3 DEF Inv, Opened, Reserves, Masked
  <2>4. loop.at # "reserve" \/ Reserve
    BY LoopMoves DEF LoopGoes
  <2>5. Reserve => semantic'.pending = generation /\ semantic'.overlay = None /\ Masked(semantic')
    <3> SUFFICES ASSUME Reserve
                 PROVE  semantic'.pending = generation /\ semantic'.overlay = None /\ Masked(semantic')
      OBVIOUS
    <3>1. semantic' = Reserved(semantic, generation) /\ generation # 0
      BY DEF Reserve, Inv, Opened
    <3>2. QED
      BY <3>1, InvTypes, ReservedHeld DEF Masked
  <2>6. QED
    BY <2>1, <2>2, <2>3, <2>4, <2>5, SemanticReserved
<1>4. QED
  BY <1>1, <1>2, <1>3, Writers DEF Untouching

\* A layer that is not masked stays so until it is reserved.
LEMMA StaysUnmasked ==
  ASSUME Inv, [Next]_vars, ~Masked(semantic), ~Reserve
  PROVE  ~Masked(semantic')
<1>1. ~Settles(semantic, semantic')
  BY SettledMasks
<1>2. QED
  BY <1>1, SemanticReserved DEF Masked

LEMMA OpenedStep ==
  ASSUME Inv, [Next]_vars
  PROVE  Opened'
<1>1. (Handling => open)'
  <2> SUFFICES ASSUME loop'.at \in {"reserve", "skip"} PROVE open' = TRUE
    BY DEF Handling
  <2>1. CASE Open \/ Change
    BY <2>1 DEF Open, Change, Take
  <2>2. CASE Close
    <3>1. loop.at = "idle" /\ loop' = loop
      BY <2>2 DEF Close
    <3>2. QED
      BY <3>1
  <2>3. CASE open' = open /\ ~Open /\ ~Change
    <3>1. loop.at \in {"reserve", "skip"}
      BY <2>3, LoopMoves DEF LoopGoes, Reserve
    <3>2. QED
      BY <2>3, <3>1, InvTypes DEF Inv, Opened, Handling
  <2>4. QED
    BY <2>1, <2>2, <2>3, Writers DEF Untouching
<1>2. (\A r \in Refresher : refresh[r].at \in {"clear", "mark"} => ~open)'
  <2> SUFFICES ASSUME NEW r \in Refresher, refresh'[r].at \in {"clear", "mark"} PROVE ~open'
    OBVIOUS
  <2>1. CASE refresh'[r] = refresh[r]
    <3>1. ~open /\ ~LifecycleFree
      BY <2>1 DEF Inv, Opened, LifecycleFree
    <3>2. ~Open /\ ~Change
      BY <3>1 DEF Open, Change, Take
    <3>3. QED
      BY <3>1, <3>2, Writers DEF Untouching, Close
  <2>2. CASE Clear(r) \/ ClearDeclarations(r)
    <3>1. ~open /\ open' = open
      BY <2>2, RefreshPlaces DEF Clear, ClearDeclarations, editor, Inv, Opened
    <3>2. QED
      BY <3>1
  <2>3. QED
    BY <2>1, <2>2, RefreshMoves, RefreshPlaces DEF RefreshGoes, Refresh
<1>3. (Upserting => ~Masked(semantic))'
  <2> SUFFICES ASSUME Upserting' PROVE ~Masked(semantic')
    OBVIOUS
  <2>1. ~Masked(semantic) /\ ~Reserve
    <3>1. CASE loop' = loop \/ Upserting
      BY <3>1, LoopMoves DEF LoopGoes, Upserting, Reserve, Inv, Opened
    <3>2. CASE Upsert /\ ~Masked(semantic)
      BY <3>2 DEF Upsert, Reserve
    <3>3. QED
      BY <3>1, <3>2, LoopMoves DEF LoopGoes
  <2>2. QED
    BY <2>1, StaysUnmasked
<1>4. QED
  BY <1>1, <1>2, <1>3, DeclaredReserves, SemanticReserves DEF Opened

\* A masked layer of a closed document: a refresh waits for it, and goes on doing so
\* until it clears the layer.
LEMMA ClosedStep ==
  ASSUME Inv, [Next]_vars
  PROVE  Closed'
<1>1. CASE Close
  BY <1>1, CloseRefresh DEF Closed, Waiting
<1>2. CASE Open \/ Change
  BY <1>2 DEF Open, Change, Take, Closed
<1>3. CASE open' = open /\ ~Close
  <2>1. ASSUME NEW q \in Refresher, refresh[q].at = "waiting", ~open
        PROVE  \/ refresh'[q].at = "waiting"
               \/ refresh'[q].at = "clear" /\ ~Masked(semantic')
    <3>1. CASE Clear(q)
      <4> DEFINE n == semantic.generation + 1
                 yes == TRUE
      <4>1. n \in Nat /\ yes \in BOOLEAN
        BY InvTypes
      <4>2. refresh'[q].at = "clear" /\ semantic' = [NewLayer EXCEPT !.generation = n, !.incomplete = yes]
        BY <2>1, <3>1, RefreshPlaces
      <4> HIDE DEF n, yes
      <4>3. QED
        BY <4>1, <4>2, InvTypes, NewHeld
    <3>2. QED
      BY <1>3, <2>1, <3>1, RefreshMoves, RefreshPlaces DEF RefreshGoes, Refresh
  <2>2. (~open /\ Masked(semantic) => Waiting)'
    <3> SUFFICES ASSUME ~open, Masked(semantic') PROVE Waiting'
      BY <1>3
    <3>1. Masked(semantic)
      BY StaysUnmasked DEF Reserve, Inv, Opened, Handling
    <3>2. PICK q \in Refresher : refresh[q].at = "waiting"
      BY <3>1 DEF Inv, Closed, Waiting
    <3>3. QED
      BY <2>1, <3>2 DEF Waiting
  <2>3. (~open /\ Masked(declared) => Waiting \/ \E r \in Refresher : refresh[r].at = "clear")'
    <3> SUFFICES ASSUME ~open, Masked(declared')
                 PROVE  \E r \in Refresher : refresh'[r].at \in {"waiting", "clear"}
      BY <1>3 DEF Waiting
    <3>1. Masked(declared)
      <4>1. Settles(declared, declared') => Masked(declared)
        BY SettledMasks
      <4>2. ~Open /\ ~Change
        BY <1>3 DEF Open, Change, Take
      <4>3. QED
        BY <4>1, <4>2, DeclaredReserved DEF Masked
    <3>2. PICK q \in Refresher : refresh[q].at \in {"waiting", "clear"}
      BY <3>1 DEF Inv, Closed, Waiting
    <3>3. ~ClearDeclarations(q)
      <4> SUFFICES ASSUME ClearDeclarations(q) PROVE FALSE
        OBVIOUS
      <4>1. declared' = [NewLayer EXCEPT !.generation = declared.generation + 1]
        BY DEF ClearDeclarations, DeclarationsRemoved
      <4>2. QED
        BY <4>1 DEF NewLayer, Masked
    <3>4. QED
      BY <1>3, <2>1, <3>2, <3>3, RefreshMoves, RefreshPlaces DEF RefreshGoes, Refresh
  <2>4. QED
    BY <2>2, <2>3 DEF Closed
<1>4. QED
  BY <1>1, <1>2, <1>3, Writers DEF Untouching

-----------------------------------------------------------------------------
(***************************************************************************)
(* Worked: a reservation of the newest text has its worker.                 *)
(***************************************************************************)
\* The worker's generation is one that was taken, and not the one being reserved.
LEMMA WorkerGeneration ==
  ASSUME Inv, [Next]_vars
  PROVE  /\ (worker.generation <= generation /\ (worker.at # "idle" => worker.generation # 0))'
         /\ (loop.at = "reserve" => worker.generation # generation)'
<1>1. /\ worker.generation <= generation /\ (worker.at # "idle" => worker.generation # 0)
      /\ loop.at = "reserve" => worker.generation # generation
      /\ worker \in WorkerRecord /\ generation \in Nat /\ worker.generation \in Nat
  BY InvTypes DEF Inv, Worked, Typed
<1>2. CASE Open \/ Change
  <2>1. generation' = generation + 1 /\ worker' = worker
    BY <1>2 DEF Open, Change, Take
  <2>2. QED
    BY <1>1, <2>1
<1>3. CASE Close
  <2>1. generation' = generation + 1 /\ worker' = worker
    BY <1>3 DEF Close
  <2>2. QED
    BY <1>1, <2>1
<1>4. CASE Launch
  <2>1. worker'.generation = generation /\ generation' = generation /\ generation # 0
    BY <1>4 DEF Launch, editor, Inv, Opened
  <2>2. loop'.at # "reserve"
    BY <1>4 DEF Launch, Handling
  <2>3. QED
    BY <1>1, <2>1, <2>2
<1>5. CASE Worker /\ ~Launch
  <2>1. worker'.generation = worker.generation /\ (worker'.at # "idle" => worker.at # "idle")
    BY <1>1, <1>5 DEF Worker, Declare, PublishDeclarations, Abandon, Analyze, Publish, AbandonSemantic,
                      To, StopWorker, WorkerRecord, IdleWorker
  <2>2. generation' = generation /\ loop' = loop
    BY <1>5 DEF Worker, Declare, PublishDeclarations, Abandon, Analyze, Publish, AbandonSemantic, editor
  <2>3. QED
    BY <1>1, <2>1, <2>2
<1>6. CASE UNCHANGED <<open, generation, worker>> /\ ~Open /\ ~Change
  <2>1. loop'.at = "reserve" => loop.at = "reserve"
    BY <1>6, LoopMoves DEF LoopGoes
  <2>2. QED
    BY <1>1, <1>6, <2>1
<1>7. QED
  BY <1>2, <1>3, <1>4, <1>5, <1>6, Writers DEF Untouching, Take, Close, editor

Working ==
  open /\ worker.generation = generation =>
    /\ declared.pending # 0 => worker.at \in {"declare", "publishDeclarations", "abandon"}
    /\ semantic.pending # 0 => worker.at # "idle"

LEMMA WorkerWorks ==
  ASSUME Inv, [Next]_vars
  PROVE  Working'
<1>1. /\ worker.generation <= generation
      /\ loop.at = "reserve" => worker.generation # generation
      /\ worker \in WorkerRecord /\ generation \in Nat /\ worker.generation \in Nat
      /\ Working
  BY InvTypes DEF Inv, Worked, Typed, Working
<1>2. /\ open => declared.pending \in {0, generation}
      /\ open /\ loop.at # "reserve" => semantic.pending \in {0, generation}
  BY DEF Inv, Opened, Reserves
<1>3. CASE Open \/ Change
  <2>1. generation' = generation + 1 /\ worker' = worker
    BY <1>3 DEF Open, Change, Take
  <2>2. QED
    BY <1>1, <2>1 DEF Working
<1>4. CASE Close
  BY <1>4 DEF Close, Working
<1>5. CASE Launch
  <2>1. worker'.at = "declare"
    BY <1>5 DEF Launch
  <2>2. QED
    BY <2>1 DEF Working
<1>6. CASE Declare
  <2>1. UNCHANGED <<open, generation, semantic, declared>>
    BY <1>6 DEF Declare, editor
  <2>2. CASE Current
    BY <1>1, <1>6, <2>2 DEF Declare, To, WorkerRecord, Working
  <2>3. CASE ~Current
    BY <1>1, <1>6, <2>1, <2>3 DEF Declare, StopWorker, IdleWorker, Current, Working
  <2>4. QED
    BY <2>2, <2>3
<1>7. CASE PublishDeclarations
  <2>1. UNCHANGED <<open, generation, semantic>>
    BY <1>7 DEF PublishDeclarations, editor
  <2>2. CASE declared.pending = worker.generation
    <3>1. declared'.pending = 0
      BY <1>7, <2>2, InvTypes DEF PublishDeclarations, Published, Held, LayerRecord
    <3>2. worker'.at = "analyze"
      BY <1>1, <1>7, <2>2 DEF PublishDeclarations, To, WorkerRecord
    <3>3. QED
      BY <3>1, <3>2 DEF Working
  <2>3. CASE declared.pending # worker.generation /\ Current
    <3>1. declared'.pending = declared.pending /\ worker'.at = "abandon"
      BY <1>1, <1>7, <2>3 DEF PublishDeclarations, To, WorkerRecord
    <3>2. QED
      BY <3>1 DEF Working
  <2>4. CASE declared.pending # worker.generation /\ ~Current
    BY <1>1, <1>7, <2>1, <2>4 DEF PublishDeclarations, StopWorker, IdleWorker, Current, Working
  <2>5. QED
    BY <2>2, <2>3, <2>4
<1>8. CASE Abandon
  <2>1. worker'.at = "abandonSemantic" /\ worker'.generation = worker.generation
        /\ UNCHANGED <<open, generation>>
    BY <1>1, <1>8 DEF Abandon, To, WorkerRecord, editor
  <2>2. open /\ worker.generation = generation => declared'.pending = 0
    BY <1>2, <1>8, InvTypes DEF Abandon, Abandoned, Held, LayerRecord
  <2>3. QED
    BY <2>1, <2>2 DEF Working
<1>9. CASE Analyze
  <2>1. UNCHANGED <<open, generation, semantic, declared>>
    BY <1>9 DEF Analyze, editor
  <2>2. CASE Current
    <3>1. worker'.at # "idle" /\ worker'.generation = worker.generation
      BY <1>1, <1>9, <2>2 DEF Analyze, To, WorkerRecord
    <3>2. declared.pending = 0
      BY <1>1, <1>9, <2>2 DEF Analyze, Working, Current
    <3>3. QED
      BY <2>1, <3>1, <3>2 DEF Working
  <2>3. CASE ~Current
    BY <1>1, <1>9, <2>1, <2>3 DEF Analyze, StopWorker, IdleWorker, Current, Working
  <2>4. QED
    BY <2>2, <2>3
<1>10. CASE Publish
  <2>1. UNCHANGED <<open, generation, declared>>
    BY <1>10 DEF Publish, editor
  <2>2. worker.at = "publish" /\ (open /\ worker.generation = generation => declared.pending = 0)
    BY <1>1, <1>10 DEF Publish, Working
  <2>3. worker'.generation = worker.generation
    BY <1>1, <1>10 DEF Publish, To, StopWorker, WorkerRecord, IdleWorker
  <2>4. CASE semantic.pending = worker.generation
    <3>1. semantic'.pending = 0
      BY <1>10, <2>4, InvTypes DEF Publish, Published, Held, LayerRecord
    <3>2. QED
      BY <2>1, <2>2, <2>3, <3>1 DEF Working
  <2>5. CASE semantic.pending # worker.generation /\ Current
    <3>1. worker'.at = "abandonSemantic"
      BY <1>1, <1>10, <2>5 DEF Publish, To, WorkerRecord
    <3>2. QED
      BY <2>1, <2>2, <2>3, <3>1 DEF Working
  <2>6. CASE semantic.pending # worker.generation /\ ~Current
    BY <2>1, <2>3, <2>6 DEF Current, Working
  <2>7. QED
    BY <2>4, <2>5, <2>6
<1>11. CASE AbandonSemantic
  <2>1. UNCHANGED <<open, generation, declared>>
    BY <1>11 DEF AbandonSemantic, editor
  <2>2. open /\ worker.generation = generation => declared.pending = 0
    BY <1>1, <1>11 DEF AbandonSemantic, Working
  <2>3. worker'.generation = worker.generation
    BY <1>1, <1>11 DEF AbandonSemantic, StopWorker, WorkerRecord, IdleWorker
  <2>4. open /\ worker.generation = generation => semantic'.pending = 0
    BY <1>1, <1>2, <1>11, InvTypes DEF AbandonSemantic, Abandoned, Held, LayerRecord
  <2>5. QED
    BY <2>1, <2>2, <2>3, <2>4 DEF Working
<1>12. CASE UNCHANGED <<open, generation, worker>> /\ ~Open /\ ~Change /\ ~Worker
  <2> SUFFICES ASSUME open, worker.generation = generation
               PROVE  /\ declared'.pending # 0 => worker.at \in {"declare", "publishDeclarations", "abandon"}
                      /\ semantic'.pending # 0 => worker.at # "idle"
    BY <1>12 DEF Working
  <2>1. declared'.pending = 0 \/ declared'.pending = declared.pending
    BY <1>12, DeclaredReserved DEF Worker
  <2>2. ~Reserve
    BY <1>1 DEF Reserve
  <2>3. semantic'.pending = semantic.pending
    BY <1>12, <2>2, SemanticReserved DEF Worker
  <2>4. QED
    BY <1>1, <2>1, <2>3 DEF Working
<1>13. QED
  <2>1. \/ Open \/ Change \/ Close \/ Worker
        \/ UNCHANGED <<open, generation, worker>> /\ ~Open /\ ~Change /\ ~Worker
    BY Writers DEF Untouching
  <2>2. QED
    BY <1>3, <1>4, <1>5, <1>6, <1>7, <1>8, <1>9, <1>10, <1>11, <1>12, <2>1 DEF Worker

LEMMA WorkedStep ==
  ASSUME Inv, [Next]_vars
  PROVE  Worked'
BY WorkerGeneration, WorkerWorks DEF Worked, Working

-----------------------------------------------------------------------------
(***************************************************************************)
(* Numbered: everyone who works on the saved file has a number of its own.  *)
(***************************************************************************)
\* Who gives the semantic layer a new generation.
LEMMA GenerationMoves ==
  ASSUME Inv, [Next]_vars
  PROVE  /\ Reserve \/ Upsert \/ Remove => semantic'.generation = semantic.generation + 1
         /\ \A r \in Refresher :
              Clear(r) => semantic' = semantic \/ semantic'.generation = semantic.generation + 1
<1>1. Reserve => semantic'.generation = semantic.generation + 1
  BY InvTypes, ReservedHeld DEF Reserve, Inv, Opened, Handling
<1>2. Upsert => semantic'.generation = semantic.generation + 1
  BY InvTypes DEF Upsert, Held, LayerRecord
<1>3. Remove => semantic'.generation = semantic.generation + 1
  BY InvTypes DEF Remove, Held, LayerRecord
<1>4. ASSUME NEW r \in Refresher, Clear(r)
      PROVE  semantic' = semantic \/ semantic'.generation = semantic.generation + 1
  <2> DEFINE n == semantic.generation + 1
             yes == TRUE
  <2>1. semantic' = semantic \/ semantic' = [NewLayer EXCEPT !.generation = n, !.incomplete = yes]
    BY <1>4 DEF Clear
  <2>2. [NewLayer EXCEPT !.generation = n, !.incomplete = yes].generation = n
    BY DEF NewLayer
  <2>3. QED
    BY <2>1, <2>2
<1>5. QED
  BY <1>1, <1>2, <1>3, <1>4

\* The disk entry of a generation is put there by the one who has its number.
DiskMoves ==
  \/ semantic'.disk = semantic.disk
  \/ semantic'.generation = semantic.generation + 1
  \/ loop.at = "parse" /\ loop.observed = semantic.generation
  \/ \E r \in Refresher : RefreshParse(r) /\ InForce(r)
  \/ InitialSemanticParse /\ semantic.generation = 0

LEMMA DiskNumbered ==
  ASSUME Inv, [Next]_vars
  PROVE  DiskMoves
<1>1. CASE Parse
  <2>1. CASE semantic.generation = loop.observed
    BY <1>1, <2>1 DEF Parse, DiskMoves
  <2>2. CASE semantic' = semantic \/ semantic' = MarkedIncomplete(semantic, loop.observed)
    BY <2>2, InvTypes, MarkedFields DEF DiskMoves
  <2>3. QED
    BY <1>1, <2>1, <2>2 DEF Parse
<1>2. CASE Remove
  BY <1>2, GenerationMoves DEF DiskMoves
<1>3. CASE InitialSemanticParse
  <2>1. CASE semantic' = semantic
    BY <2>1 DEF DiskMoves
  <2>2. CASE Failed
    BY <2>2, InvTypes DEF Failed, Held, LayerRecord, DiskMoves
  <2>3. CASE Untouched
    BY <1>3, <2>3 DEF Untouched, DiskMoves
  <2>4. QED
    BY <1>3, <2>1, <2>2, <2>3 DEF InitialSemanticParse
<1>4. ASSUME NEW r \in Refresher, Clear(r) PROVE DiskMoves
  BY <1>4, GenerationMoves DEF DiskMoves
<1>5. ASSUME NEW r \in Refresher, RefreshParse(r) PROVE DiskMoves
  BY <1>5 DEF RefreshParse, DiskMoves
<1>6. QED
  BY <1>1, <1>2, <1>3, <1>4, <1>5, DiskKept DEF DiskMoves, DiskKeeps

LEMMA LoopNumberedStep ==
  ASSUME Inv, [Next]_vars
  PROVE  LoopNumbered'
<1>1. /\ Upserting => loop.observed # 0 /\ loop.observed <= semantic.generation
      /\ loop.at = "unchanged" /\ loop.observed = semantic.generation => semantic.disk = Saved(loop.source)
      /\ loop.observed \in Nat /\ semantic.generation \in Nat
  BY InvTypes DEF Inv, Numbered, LoopNumbered
<1>2. semantic'.generation = semantic.generation \/ semantic'.generation = semantic.generation + 1
  BY SemanticKept DEF SemanticKeeps
<1>3. (Upserting => loop.observed # 0 /\ loop.observed <= semantic.generation)'
  <2> SUFFICES ASSUME Upserting' PROVE loop'.observed # 0 /\ loop'.observed <= semantic'.generation
    OBVIOUS
  <2>1. CASE Upsert /\ loop'.observed = semantic.generation + 1
    BY <1>1, <2>1, GenerationMoves
  <2>2. CASE Upserting /\ loop'.observed = loop.observed
    BY <1>1, <1>2, <2>2
  <2>3. QED
    BY <2>1, <2>2, LoopMoves DEF LoopGoes, Upserting
<1>4. (loop.at = "unchanged" /\ loop.observed = semantic.generation => semantic.disk = Saved(loop.source))'
  <2> SUFFICES ASSUME loop'.at = "unchanged", loop'.observed = semantic'.generation
               PROVE  semantic'.disk = Saved(loop'.source)
    OBVIOUS
  <2>1. CASE Compare
    <3>1. loop' = [loop EXCEPT !.at = "unchanged"] /\ semantic.disk = Saved(loop.source)
      <4>1. CASE loop' = [loop EXCEPT !.at = "parseDeclarations", !.began = declared.generation + 1]
        <5> DEFINE n == declared.generation + 1
        <5>1. loop' = [loop EXCEPT !.at = "parseDeclarations", !.began = n] /\ loop \in LoopRecord
          BY <4>1 DEF Inv, Typed
        <5> HIDE DEF n
        <5>2. loop'.at = "parseDeclarations"
          BY <5>1 DEF LoopRecord
        <5>3. QED
          BY <5>2
      <4>2. QED
        BY <2>1, <4>1 DEF Compare
    <3>2. semantic' = semantic /\ loop'.source = loop.source
      BY <2>1, <3>1 DEF Compare, Inv, Typed, LoopRecord
    <3>3. QED
      BY <3>1, <3>2
  <2>2. CASE loop' = loop
    <3>1. semantic'.generation = semantic.generation /\ semantic.disk = Saved(loop.source) /\ Upserting
      BY <1>1, <1>2, <2>2 DEF Upserting
    <3>2. loop.at # "parse"
      BY <2>2
    <3>3. ASSUME NEW r \in Refresher, RefreshParse(r), InForce(r) PROVE FALSE
      BY <2>2, <3>1, <3>3 DEF InForce, RefreshParse, Inv, Numbered, RefreshNumbered, Refreshing
    <3>4. semantic.generation # 0
      BY <1>1, <2>2, <3>1
    <3>5. semantic'.disk = semantic.disk
      BY <1>1, <3>1, <3>2, <3>3, <3>4, DiskNumbered DEF DiskMoves
    <3>6. QED
      BY <2>2, <3>1, <3>5
  <2>3. loop' = loop \/ Compare
    BY LoopMoves DEF LoopGoes
  <2>4. QED
    BY <2>1, <2>2, <2>3
<1>5. QED
  BY <1>3, <1>4 DEF LoopNumbered

\* A refresh keeps its number from Clear on.
LEMMA RefreshObserved ==
  ASSUME Inv, [Next]_vars, NEW q \in Refresher, Refreshing(q)'
  PROVE  \/ Refreshing(q) /\ refresh'[q].observed = refresh[q].observed /\ ~Clear(q)
         \/ /\ Clear(q) /\ refresh'[q].observed = semantic.generation + 1
            /\ semantic'.generation = semantic.generation + 1
<1>1. CASE refresh'[q] = refresh[q]
  BY <1>1, RefreshPlaces DEF Refreshing
<1>2. CASE Clear(q)
  <2>1. semantic' = [NewLayer EXCEPT !.generation = semantic.generation + 1, !.incomplete = TRUE]
        /\ refresh'[q].observed = semantic.generation + 1
    BY <1>2, RefreshPlaces DEF Refreshing
  <2> DEFINE n == semantic.generation + 1
             yes == TRUE
  <2>2. [NewLayer EXCEPT !.generation = n, !.incomplete = yes].generation = n
    BY DEF NewLayer
  <2>3. QED
    BY <1>2, <2>1, <2>2
<1>3. QED
  BY <1>1, <1>2, RefreshMoves, RefreshPlaces DEF RefreshGoes, Refresh, Refreshing

LEMMA RefreshNumberedStep ==
  ASSUME Inv, [Next]_vars, NEW q \in Refresher
  PROVE  RefreshNumbered(q)'
<1>1. /\ Upserting => loop.observed # 0 /\ loop.observed <= semantic.generation
      /\ loop.observed \in Nat /\ semantic.generation \in Nat /\ refresh[q].observed \in Nat
      /\ RefreshNumbered(q)
  BY InvTypes DEF Inv, Numbered, LoopNumbered
<1>2. semantic'.generation = semantic.generation \/ semantic'.generation = semantic.generation + 1
  BY SemanticKept DEF SemanticKeeps
<1>3. (Refreshing(q) => /\ refresh[q].observed # 0 /\ refresh[q].observed <= semantic.generation
                        /\ Upserting => refresh[q].observed # loop.observed)'
  <2> SUFFICES ASSUME Refreshing(q)'
               PROVE  /\ refresh'[q].observed # 0 /\ refresh'[q].observed <= semantic'.generation
                      /\ Upserting' => refresh'[q].observed # loop'.observed
    OBVIOUS
  <2>1. CASE Refreshing(q) /\ refresh'[q].observed = refresh[q].observed
    <3>1. /\ refresh[q].observed # 0 /\ refresh[q].observed <= semantic.generation
          /\ Upserting => refresh[q].observed # loop.observed
      BY <1>1, <2>1 DEF RefreshNumbered
    <3>2. Upserting' => \/ loop'.observed = semantic.generation + 1
                        \/ Upserting /\ loop'.observed = loop.observed
      BY LoopMoves DEF LoopGoes, Upserting
    <3>3. QED
      BY <1>1, <1>2, <2>1, <3>1, <3>2
  <2>2. CASE /\ Clear(q) /\ refresh'[q].observed = semantic.generation + 1
             /\ semantic'.generation = semantic.generation + 1
    <3>1. loop' = loop
      BY <2>2 DEF Clear
    <3>2. Upserting' => Upserting
      BY <3>1 DEF Upserting
    <3>3. QED
      BY <1>1, <2>2, <3>1, <3>2
  <2>3. QED
    BY <2>1, <2>2, RefreshObserved
<1>4. (refresh[q].at \in {"clear", "mark", "read", "parse", "absent"}
         /\ refresh[q].observed = semantic.generation => ~Masked(semantic) /\ semantic.disk = None)'
  <2> SUFFICES ASSUME refresh'[q].at \in {"clear", "mark", "read", "parse", "absent"},
                      refresh'[q].observed = semantic'.generation
               PROVE  ~Masked(semantic') /\ semantic'.disk = None
    OBVIOUS
  <2>1. CASE Clear(q)
    <3> DEFINE n == semantic.generation + 1
               yes == TRUE
    <3>1. n \in Nat /\ yes \in BOOLEAN
      BY <1>1
    <3>2. semantic' = [NewLayer EXCEPT !.generation = n, !.incomplete = yes]
      BY <2>1, RefreshPlaces
    <3>3. [NewLayer EXCEPT !.generation = n, !.incomplete = yes].disk = None
      BY DEF NewLayer
    <3> HIDE DEF n, yes
    <3>4. QED
      BY <3>1, <3>2, <3>3, InvTypes, NewHeld
  <2>2. CASE ~Clear(q)
    <3>1. Refreshing(q) /\ refresh'[q].observed = refresh[q].observed
      BY <2>2, RefreshObserved DEF Refreshing
    <3>2. /\ refresh[q].observed # 0 /\ refresh[q].observed <= semantic.generation
          /\ Upserting => refresh[q].observed # loop.observed
      BY <1>1, <3>1 DEF RefreshNumbered
    <3>3. semantic'.generation = semantic.generation /\ refresh[q].observed = semantic.generation
      BY <1>1, <1>2, <3>1, <3>2
    <3>4. refresh[q].at \in {"clear", "mark", "read", "parse", "absent"}
      BY <2>2, RefreshMoves, RefreshPlaces DEF RefreshGoes, Refresh
    <3>5. ~Masked(semantic) /\ semantic.disk = None
      BY <1>1, <3>3, <3>4 DEF RefreshNumbered
    <3>6. ~Masked(semantic')
      BY <1>1, <3>3, <3>5, GenerationMoves, StaysUnmasked
    <3>7. ASSUME NEW r \in Refresher, RefreshParse(r), InForce(r) PROVE FALSE
      <4>1. r = q
        BY <3>1, <3>3, <3>7 DEF InForce, RefreshParse, Inv, Numbered, Distinct, Refreshing
      <4>2. refresh'[q].at = "none"
        BY <3>7, <4>1, RefreshPlaces
      <4>3. QED
        BY <4>2
    <3>8. semantic'.disk = semantic.disk
      BY <1>1, <3>2, <3>3, <3>7, DiskNumbered DEF DiskMoves, Upserting
    <3>9. QED
      BY <3>5, <3>6, <3>8
  <2>3. QED
    BY <2>1, <2>2
<1>5. QED
  BY <1>3, <1>4 DEF RefreshNumbered

LEMMA DistinctStep ==
  ASSUME Inv, [Next]_vars, NEW q \in Refresher, NEW r \in Refresher
  PROVE  Distinct(q, r)'
<1> SUFFICES ASSUME Refreshing(q)', Refreshing(r)', refresh'[q].observed = refresh'[r].observed
             PROVE  q = r
  BY DEF Distinct
<1>1. ASSUME NEW p \in Refresher, Refreshing(p)
      PROVE  refresh[p].observed \in Nat /\ refresh[p].observed <= semantic.generation
  BY <1>1, InvTypes DEF Inv, Numbered, RefreshNumbered
<1>2. semantic.generation \in Nat
  BY InvTypes
<1>3. /\ \/ Refreshing(q) /\ refresh'[q].observed = refresh[q].observed
         \/ Clear(q) /\ refresh'[q].observed = semantic.generation + 1
      /\ \/ Refreshing(r) /\ refresh'[r].observed = refresh[r].observed
         \/ Clear(r) /\ refresh'[r].observed = semantic.generation + 1
  BY RefreshObserved
<1>4. Refreshing(q) => refresh[q].observed \in Nat /\ refresh[q].observed <= semantic.generation
  BY <1>1
<1>5. Refreshing(r) => refresh[r].observed \in Nat /\ refresh[r].observed <= semantic.generation
  BY <1>1
<1>6. CASE /\ Refreshing(q) /\ refresh'[q].observed = refresh[q].observed
           /\ Refreshing(r) /\ refresh'[r].observed = refresh[r].observed
  BY <1>6 DEF Inv, Numbered, Distinct
<1>7. CASE Clear(q) /\ Clear(r)
  <2>1. q # r => refresh'[q] = refresh[q]
    BY <1>7 DEF Clear, Inv, Typed
  <2>2. refresh'[q] # refresh[q]
    BY <1>7, RefreshPlaces DEF Refreshing
  <2>3. QED
    BY <2>1, <2>2
<1>8. QED
  BY <1>2, <1>3, <1>4, <1>5, <1>6, <1>7

\* The build ends for good.
LEMMA BuildMoves ==
  ASSUME Inv, [Next]_vars
  PROVE  /\ initial.at \in {"ready", "done"} => initial'.at \in {"ready", "done"}
         /\ InitialSemanticParse => initial'.at = "ready"
<1>1. initial \in BuildRecord
  BY DEF Inv, Typed
<1>2. InitialSemanticParse => initial'.at = "ready"
  BY <1>1 DEF InitialSemanticParse, BuildRecord
<1>3. ASSUME initial.at \in {"ready", "done"}, Build PROVE initial'.at \in {"ready", "done"}
  <2>1. IndexReady
    BY <1>3 DEF Build, Discover, Claim, InitialRead, InitialUnreadable, InitialParse, DeclarationsReady,
                InitialSemantics, InitialSemanticParse
  <2>2. QED
    BY <2>1 DEF IndexReady
<1>4. initial.at \in {"ready", "done"} /\ Skip => initial' = initial
  BY DEF Skip
<1>5. QED
  BY <1>2, <1>3, <1>4, Writers DEF Untouching, BuildWrites

\* The build loses its context in the document's or the saved file's favour.
LEMMA BuildCanceled ==
  ASSUME Inv, [Next]_vars, "initial" \in canceled'
  PROVE  \/ "initial" \in canceled \/ Skip
         \/ semantic'.generation = semantic.generation + 1
<1>1. CASE Reserve \/ Upsert \/ Remove
  <2>1. CASE semantic'.generation = semantic.generation + 1
    BY <2>1
  <2>2. QED
    BY <1>1, <2>1, GenerationMoves
<1>2. ASSUME NEW r \in Refresher, Clear(r), semantic' = semantic PROVE "initial" \in canceled
  <2>1. open
    <3>1. CASE ~open
      <4> DEFINE n == semantic.generation + 1
                 yes == TRUE
      <4>1. semantic = [NewLayer EXCEPT !.generation = n, !.incomplete = yes]
        BY <1>2, <3>1 DEF Clear
      <4>2. [NewLayer EXCEPT !.generation = n, !.incomplete = yes].generation = n
        BY DEF NewLayer
      <4>3. semantic.generation = n
        BY <4>1, <4>2
      <4>4. QED
        BY <4>3, InvTypes
    <3>2. QED
      BY <3>1
  <2>2. QED
    BY <1>2, <2>1 DEF Clear
<1>3. CASE InitialSemantics \/ InitialSemanticParse \/ Claim
  BY <1>3 DEF InitialSemantics, InitialSemanticParse, Claim, StartParse, EndParse
<1>4. CASE \/ Unchanged \/ ParseCanceled \/ ParseDeclarations \/ DeclarationsFailed \/ Parse
           \/ RemoveDeclarations
  BY <1>4 DEF Unchanged, ParseCanceled, ParseDeclarations, DeclarationsFailed, Parse, RemoveDeclarations,
              EndParse
<1>5. ASSUME NEW r \in Refresher, RefreshRead(r) \/ RefreshParse(r) \/ RefreshRemove(r)
      PROVE  "initial" \in canceled
  BY <1>5 DEF RefreshRead, RefreshParse, RefreshRemove, EndParse
<1>6. ASSUME NEW r \in Refresher, Clear(r)
      PROVE  "initial" \in canceled \/ semantic'.generation = semantic.generation + 1
  BY <1>2, <1>6, GenerationMoves
<1>7. QED
  BY <1>1, <1>3, <1>4, <1>5, <1>6, Writers DEF Untouching, ParseWrites

LEMMA UnreachedStep ==
  ASSUME Inv, [Next]_vars
  PROVE  Unreached'
<1>1. semantic'.generation = semantic.generation \/ semantic'.generation = semantic.generation + 1
  BY SemanticKept DEF SemanticKeeps
<1>2. semantic.generation \in Nat /\ Unreached
  BY InvTypes DEF Inv, Numbered
<1>3. semantic'.generation = 0 =>
        ~Masked(semantic') /\ (initial'.at \notin {"ready", "done"} => semantic'.disk = None)
  <2> SUFFICES ASSUME semantic'.generation = 0
               PROVE  ~Masked(semantic') /\ (initial'.at \notin {"ready", "done"} => semantic'.disk = None)
    OBVIOUS
  <2>1. semantic.generation = 0
    BY <1>1, <1>2
  <2>2. ~Masked(semantic')
    BY <1>2, <2>1, GenerationMoves, StaysUnmasked DEF Unreached
  <2>3. ASSUME initial'.at \notin {"ready", "done"} PROVE semantic'.disk = None
    <3>1. semantic.disk = None /\ ~InitialSemanticParse
      BY <1>2, <2>1, <2>3, BuildMoves DEF Unreached
    <3>2. loop.at = "parse" => loop.observed # 0
      BY DEF Inv, Numbered, LoopNumbered, Upserting
    <3>3. ASSUME NEW r \in Refresher, RefreshParse(r), InForce(r) PROVE FALSE
      BY <2>1, <3>3 DEF InForce, RefreshParse, Inv, Numbered, RefreshNumbered, Refreshing
    <3>4. QED
      BY <1>2, <2>1, <3>1, <3>2, <3>3, DiskNumbered DEF DiskMoves
  <2>4. QED
    BY <2>2, <2>3
<1>4. "initial" \in canceled' => semantic'.generation # 0
  <2> SUFFICES ASSUME "initial" \in canceled' PROVE semantic'.generation # 0
    OBVIOUS
  <2>1. CASE "initial" \in canceled
    BY <1>1, <1>2, <2>1 DEF Unreached
  <2>2. CASE Skip
    <3>1. Masked(semantic)
      BY <2>2 DEF Skip, Inv, Opened, Handling
    <3>2. semantic.generation # 0
      BY <1>2, <3>1 DEF Unreached
    <3>3. QED
      BY <1>1, <1>2, <3>2
  <2>3. CASE semantic'.generation = semantic.generation + 1
    BY <1>2, <2>3
  <2>4. QED
    BY <2>1, <2>2, <2>3, BuildCanceled
<1>5. QED
  BY <1>3, <1>4 DEF Unreached

LEMMA NumberedStep ==
  ASSUME Inv, [Next]_vars
  PROVE  Numbered'
BY LoopNumberedStep, RefreshNumberedStep, DistinctStep, UnreachedStep DEF Numbered

-----------------------------------------------------------------------------
(***************************************************************************)
(* Known: what was read of the file is true of it, or there are news.       *)
(***************************************************************************)
\* News last until Upsert has told the index of them.
LEMMA NewsKept ==
  ASSUME Inv, [Next]_vars, ~News'
  PROVE  file' = file /\ (~News \/ Upsert)
<1>1. ~noticed' /\ loop'.at # "update"
  BY DEF News
<1>2. ~Write
  BY <1>1 DEF Write
<1>3. ~Update
  BY <1>1 DEF Update, IdleLoop
<1>4. file' = file /\ noticed' = noticed
  BY <1>2, <1>3, Writers DEF Untouching
<1>5. loop.at = "update" => Upsert
  BY <1>1, LoopMoves DEF LoopGoes
<1>6. QED
  BY <1>1, <1>4, <1>5 DEF News

LEMMA LoopKnowsStep ==
  ASSUME Inv, [Next]_vars
  PROVE  LoopKnows'
<1>1. LoopKnows /\ file \in File
  BY DEF Inv, Known, Typed
<1>2. ASSUME loop'.at \in {"compare", "unchanged", "parseDeclarations", "parse"}
      PROVE  loop'.source \in Content /\ (News' \/ file' = loop'.source)
  <2>1. ~Upsert
    <3> SUFFICES ASSUME Upsert PROVE FALSE
      OBVIOUS
    <3>1. loop.at = "update"
      BY DEF Upsert
    <3>2. loop' # loop /\ ~ReadFile
      BY <1>2, <3>1 DEF ReadFile
    <3>3. QED
      BY <1>2, <3>1, <3>2, LoopMoves DEF LoopGoes
  <2>2. CASE ReadFile /\ loop'.source = file /\ file \notin {"missing", "unreadable"}
    BY <1>1, <2>2 DEF File, ReadFile, disk
  <2>3. CASE /\ loop.at \in {"compare", "unchanged", "parseDeclarations", "parse"}
             /\ loop'.source = loop.source
    BY <1>1, <2>1, <2>3, NewsKept DEF LoopKnows
  <2>4. QED
    BY <1>2, <2>2, <2>3, LoopMoves DEF LoopGoes
<1>3. ASSUME loop'.at = "remove" PROVE News' \/ file' = "missing"
  <2>1. CASE ReadFile /\ file = "missing"
    BY <2>1 DEF ReadFile, disk
  <2>2. CASE loop' = loop
    <3>1. ~Upsert
      BY <1>3, <2>2 DEF Upsert
    <3>2. QED
      BY <1>1, <1>3, <2>2, <3>1, NewsKept DEF LoopKnows
  <2>3. QED
    BY <1>3, <2>1, <2>2, LoopMoves DEF LoopGoes
<1>4. QED
  BY <1>2, <1>3 DEF LoopKnows

LEMMA RefreshKnowsStep ==
  ASSUME Inv, [Next]_vars, NEW q \in Refresher
  PROVE  RefreshKnows(q)'
<1>1. RefreshKnows(q) /\ file \in File
  BY DEF Inv, Known, Typed
<1>2. ASSUME refresh'[q].at = "parse"
      PROVE  \/ refresh'[q] = refresh[q]
             \/ RefreshRead(q) /\ refresh'[q].source = file /\ file \in Content
  <2>1. \/ refresh'[q] = refresh[q]
        \/ RefreshRead(q) /\ refresh'[q].source = file /\ file \notin {"missing", "unreadable"}
    BY <1>2, RefreshMoves, RefreshPlaces DEF RefreshGoes, Refresh
  <2>2. QED
    BY <1>1, <2>1 DEF File
<1>3. ASSUME refresh'[q].at = "absent"
      PROVE  refresh'[q] = refresh[q] \/ (RefreshRead(q) /\ file = "missing")
  <2>1. refresh'[q] = refresh[q] \/ RefreshRead(q)
    BY <1>3, RefreshMoves, RefreshPlaces DEF RefreshGoes, Refresh
  <2>2. RefreshRead(q) => file = "missing"
    BY <1>3, RefreshPlaces
  <2>3. QED
    BY <2>1, <2>2
<1>4. ASSUME refresh'[q].at \in {"parse", "absent"}, refresh'[q].observed = semantic'.generation, ~News'
      PROVE  /\ refresh[q].observed = semantic.generation /\ ~News /\ file' = file
  <2>1. Refreshing(q) /\ refresh'[q].observed = refresh[q].observed
    BY <1>4, RefreshObserved, RefreshPlaces DEF Refreshing
  <2>2. refresh[q].observed <= semantic.generation
    BY <2>1 DEF Inv, Numbered, RefreshNumbered
  <2>3. semantic'.generation = semantic.generation \/ semantic'.generation = semantic.generation + 1
    BY SemanticKept DEF SemanticKeeps
  <2>4. semantic.generation \in Nat /\ refresh[q].observed \in Nat
    BY InvTypes
  <2>5. semantic'.generation = semantic.generation
    BY <1>4, <2>1, <2>2, <2>3, <2>4
  <2>6. ~Upsert
    BY <2>4, <2>5, GenerationMoves
  <2>7. QED
    BY <1>4, <2>1, <2>5, <2>6, NewsKept
<1>5. refresh'[q].at = "parse" => refresh'[q].source \in Content
  BY <1>1, <1>2 DEF RefreshKnows
<1>6. ASSUME refresh'[q].observed = semantic'.generation, ~News'
      PROVE  /\ refresh'[q].at = "parse" => file' = refresh'[q].source
             /\ refresh'[q].at = "absent" => file' = "missing"
  BY <1>1, <1>2, <1>3, <1>4, <1>6 DEF RefreshKnows
<1>7. QED
  BY <1>5, <1>6 DEF RefreshKnows

\* What the build remembers of the file it has read.
BuildGoes ==
  /\ \/ initial'.source = initial.source
     \/ initial'.source = "missing"
     \/ initial'.source = file /\ file \in Content
  /\ initial'.at = "absent" => initial.at = "absent" \/ file = "missing"
  /\ initial'.at \in {"parse", "parseSemantic"} =>
       \/ initial'.source # "missing"
       \/ initial.at \in {"parse", "parseSemantic"} /\ initial'.source = initial.source

LEMMA BuildReads ==
  ASSUME Inv, [Next]_vars
  PROVE  BuildGoes
<1> USE FileAssumption DEF BuildGoes
<1>0. initial \in BuildRecord
  BY DEF Inv, Typed
<1>1. CASE Skip
  BY <1>0, <1>1 DEF Skip, BuildRecord
<1>2. CASE Discover
  BY <1>0, <1>2 DEF Discover, BuildRecord
<1>3. CASE Claim
  BY <1>0, <1>3 DEF Claim, BuildRecord
<1>4. CASE InitialRead
  BY <1>0, <1>4 DEF InitialRead, BuildRecord
<1>5. CASE InitialUnreadable
  BY <1>0, <1>5 DEF InitialUnreadable, BuildRecord
<1>6. CASE InitialParse
  BY <1>0, <1>6 DEF InitialParse, BuildRecord
<1>7. CASE DeclarationsReady
  BY <1>0, <1>7 DEF DeclarationsReady, BuildRecord
<1>8. CASE InitialSemantics
  BY <1>0, <1>8 DEF InitialSemantics, BuildRecord
<1>9. CASE InitialSemanticParse
  BY <1>0, <1>9 DEF InitialSemanticParse, BuildRecord
<1>10. CASE IndexReady
  BY <1>0, <1>10 DEF IndexReady, BuildRecord
<1>11. CASE UNCHANGED initial
  BY <1>11
<1>12. QED
  BY <1>1, <1>2, <1>3, <1>4, <1>5, <1>6, <1>7, <1>8, <1>9, <1>10, <1>11, Writers
  DEF Untouching, BuildWrites, Build

LEMMA BuildKnowsStep ==
  ASSUME Inv, [Next]_vars
  PROVE  BuildKnows'
<1>1. BuildKnows /\ semantic.generation \in Nat
  BY InvTypes DEF Inv, Known
<1>2. semantic'.generation = semantic.generation \/ semantic'.generation = semantic.generation + 1
  BY SemanticKept DEF SemanticKeeps
<1>3. initial'.at \in {"parse", "parseSemantic"} => initial'.source # "missing"
  BY <1>1, BuildReads DEF BuildGoes, BuildKnows
<1>4. initial'.source # "missing" => initial'.source \in Content
  BY <1>1, BuildReads DEF BuildGoes, BuildKnows
<1>5. ASSUME semantic'.generation = 0, ~News'
      PROVE  /\ initial'.source # "missing" => file' = initial'.source
             /\ initial'.at = "absent" => file' = "missing"
  <2>1. semantic.generation = 0 /\ ~Upsert
    BY <1>1, <1>2, <1>5, GenerationMoves
  <2>2. ~News /\ file' = file
    BY <1>5, <2>1, NewsKept
  <2>3. QED
    BY <1>1, <2>1, <2>2, BuildReads DEF BuildGoes, BuildKnows
<1>6. QED
  BY <1>3, <1>4, <1>5 DEF BuildKnows

LEMMA KnownStep ==
  ASSUME Inv, [Next]_vars
  PROVE  Known'
BY LoopKnowsStep, RefreshKnowsStep, BuildKnowsStep DEF Known

-----------------------------------------------------------------------------
(***************************************************************************)
(* Honest: what the semantic layer shows is true, or it says incomplete.    *)
(***************************************************************************)
\* Markings and failures only ever raise the incomplete mark; who lowers it, or
\* puts in an entry, does so under its number.
HonestGoes ==
  \/ /\ semantic'.disk = semantic.disk /\ semantic'.generation = semantic.generation
     /\ semantic.incomplete => semantic'.incomplete
  \/ semantic'.incomplete
  \/ Masked(semantic')
  \/ Unchanged /\ semantic.generation = loop.observed /\ semantic'.disk = semantic.disk
  \/ Parse /\ semantic.generation = loop.observed /\ semantic'.disk = Saved(loop.source)
  \/ Remove /\ semantic'.disk = None
  \/ \E r \in Refresher :
       \/ RefreshParse(r) /\ InForce(r) /\ semantic'.disk = Saved(refresh[r].source)
       \/ RefreshAbsent(r) /\ InForce(r) /\ semantic'.disk = semantic.disk
  \/ InitialSemanticParse /\ Untouched /\ semantic'.disk = Saved(initial.source)

LEMMA HonestMoves ==
  ASSUME Inv, [Next]_vars
  PROVE  HonestGoes
<1> USE InvTypes
<1>1. CASE Reserve
  <2>1. Masked(semantic')
    BY <1>1, ReservedHeld DEF Reserve, Inv, Opened, Handling, Masked
  <2>2. QED
    BY <2>1 DEF HonestGoes
<1>2. CASE Upsert
  <2>1. CASE Masked(semantic)
    <3>1. Masked(semantic')
      BY <1>2, <2>1 DEF Upsert, Held, LayerRecord, Masked
    <3>2. QED
      BY <3>1 DEF HonestGoes
  <2>2. CASE ~Masked(semantic)
    <3> DEFINE n == semantic.generation + 1
    <3>1. semantic' = [semantic EXCEPT !.generation = n, !.incomplete = TRUE] /\ semantic \in LayerRecord
      BY <1>2, <2>2 DEF Upsert, Held
    <3> HIDE DEF n
    <3>2. semantic'.incomplete
      BY <3>1 DEF LayerRecord
    <3>3. QED
      BY <3>2 DEF HonestGoes
  <2>3. QED
    BY <2>1, <2>2
<1>3. CASE ReadFile \/ ParseDeclarations
  <2>1. semantic' = semantic \/ semantic' = MarkedIncomplete(semantic, loop.observed)
    BY <1>3 DEF ReadFile, ParseDeclarations
  <2>2. QED
    BY <2>1, MarkedFields DEF HonestGoes
<1>4. CASE Unchanged
  <2>1. \/ semantic' = semantic
        \/ /\ semantic.generation = loop.observed
           /\ semantic' = [semantic EXCEPT !.incomplete = loop.source \in Recovered]
    BY <1>4 DEF Unchanged
  <2>2. QED
    BY <1>4, <2>1 DEF HonestGoes, Held, LayerRecord
<1>5. CASE Parse
  <2>1. \/ /\ semantic.generation = loop.observed
           /\ semantic' = WithDisk(semantic, loop.source, loop.source \in Recovered)
        \/ semantic' = semantic \/ semantic' = MarkedIncomplete(semantic, loop.observed)
    BY <1>5 DEF Parse
  <2>2. CASE /\ semantic.generation = loop.observed
             /\ semantic' = WithDisk(semantic, loop.source, loop.source \in Recovered)
    BY <1>5, <2>2 DEF WithDisk, HonestGoes, Held, LayerRecord
  <2>3. CASE semantic' = semantic \/ semantic' = MarkedIncomplete(semantic, loop.observed)
    BY <2>3, MarkedFields DEF HonestGoes
  <2>4. QED
    BY <2>1, <2>2, <2>3
<1>6. CASE Remove
  <2>1. semantic'.disk = None
    BY <1>6 DEF Remove, Held, LayerRecord
  <2>2. QED
    BY <1>6, <2>1 DEF HonestGoes
<1>7. CASE Publish \/ AbandonSemantic
  <2>1. semantic' = semantic \/ Masked(semantic')
    BY <1>7, WorkerSettles, SettledMasks
  <2>2. QED
    BY <2>1 DEF HonestGoes
<1>8. CASE InitialSemantics
  <2>1. semantic' = semantic \/ semantic' = [semantic EXCEPT !.incomplete = @ \/ Untouched]
    BY <1>8 DEF InitialSemantics, Failed
  <2>2. QED
    BY <2>1 DEF HonestGoes, Held, LayerRecord
<1>9. CASE InitialSemanticParse
  <2>1. \/ semantic' = semantic \/ semantic' = [semantic EXCEPT !.incomplete = @ \/ Untouched]
        \/ Untouched /\ semantic' = WithDisk(semantic, initial.source, initial.source \in Recovered)
    BY <1>9 DEF InitialSemanticParse, Failed
  <2>2. CASE semantic' = semantic \/ semantic' = [semantic EXCEPT !.incomplete = @ \/ Untouched]
    BY <2>2 DEF HonestGoes, Held, LayerRecord
  <2>3. CASE Untouched /\ semantic' = WithDisk(semantic, initial.source, initial.source \in Recovered)
    BY <1>9, <2>3 DEF WithDisk, HonestGoes, Held, LayerRecord
  <2>4. QED
    BY <2>1, <2>2, <2>3
<1>10. ASSUME NEW r \in Refresher, Clear(r) PROVE HonestGoes
  <2> DEFINE n == semantic.generation + 1
  <2>1. semantic' = semantic \/ semantic' = [NewLayer EXCEPT !.generation = n, !.incomplete = TRUE]
    BY <1>10 DEF Clear
  <2>2. [NewLayer EXCEPT !.generation = n, !.incomplete = TRUE].incomplete
    BY DEF NewLayer
  <2>3. QED
    BY <2>1, <2>2 DEF HonestGoes
<1>11. ASSUME NEW r \in Refresher, RefreshParse(r) PROVE HonestGoes
  <2>1. CASE semantic' = semantic
    BY <2>1 DEF HonestGoes
  <2>2. CASE InForce(r) /\ semantic' # semantic
    <3>1. semantic'.disk = Saved(refresh[r].source)
      BY <1>11, <2>2 DEF RefreshParse, Held, LayerRecord
    <3>2. QED
      BY <1>11, <2>2, <3>1 DEF HonestGoes
  <2>3. QED
    BY <1>11, <2>1, <2>2 DEF RefreshParse
<1>12. ASSUME NEW r \in Refresher, RefreshAbsent(r) PROVE HonestGoes
  <2>1. CASE InForce(r)
    <3>1. semantic'.disk = semantic.disk
      BY <1>12, <2>1 DEF RefreshAbsent, Held, LayerRecord
    <3>2. QED
      BY <1>12, <2>1, <3>1 DEF HonestGoes
  <2>2. CASE ~InForce(r)
    BY <1>12, <2>2 DEF RefreshAbsent, HonestGoes
  <2>3. QED
    BY <2>1, <2>2
<1>13. CASE UNCHANGED semantic
  BY <1>13 DEF HonestGoes
<1>14. QED
  BY <1>1, <1>2, <1>3, <1>4, <1>5, <1>6, <1>7, <1>8, <1>9, <1>10, <1>11, <1>12, <1>13, Writers
  DEF Untouching, SemanticWrites

\* An abandoned overlay stays incomplete.
LEMMA MaskIncomplete ==
  ASSUME Inv, [Next]_vars, semantic'.overlay = Mask
  PROVE  semantic'.incomplete
<1>1. semantic.overlay = Mask => semantic.incomplete
  BY DEF Inv, Honest
<1>2. CASE Reserve
  <2>1. semantic'.overlay = None
    BY <1>2, InvTypes, ReservedHeld DEF Reserve, Inv, Opened, Handling
  <2>2. QED
    BY <2>1, EntryFacts
<1>3. CASE Settles(semantic, semantic')
  BY <1>3, InvTypes, EntryFacts DEF Settles
<1>4. CASE ~Masked(semantic')
  BY <1>4, EntryFacts DEF Masked
<1>5. CASE semantic'.pending = semantic.pending /\ semantic'.overlay = semantic.overlay /\ ~Reserve
  <2>1. Masked(semantic) /\ semantic.incomplete
    BY <1>1, <1>5, EntryFacts DEF Masked
  <2>2. ~Upserting
    BY <2>1 DEF Inv, Opened
  <2>3. ASSUME NEW r \in Refresher, InForce(r), refresh[r].at \in {"parse", "absent"} PROVE FALSE
    BY <2>1, <2>3, InForceFacts
  <2>4. ~Untouched
    BY <2>1 DEF Untouched, Inv, Numbered, Unreached
  <2>5. semantic.incomplete => semantic'.incomplete
    <3> USE InvTypes
    <3>1. CASE Upsert
      BY <2>1, <3>1 DEF Upsert, Held, LayerRecord
    <3>2. CASE ReadFile \/ Unchanged \/ ParseDeclarations \/ Parse \/ Remove
      BY <2>2, <3>2 DEF ReadFile, Unchanged, ParseDeclarations, Parse, Remove, Upserting
    <3>3. CASE Publish \/ AbandonSemantic
      BY <1>5, <3>3, WorkerSettles, SettledPending
    <3>4. CASE InitialSemantics \/ InitialSemanticParse
      <4>1. semantic' = semantic \/ semantic' = [semantic EXCEPT !.incomplete = @ \/ Untouched]
        BY <2>4, <3>4 DEF InitialSemantics, InitialSemanticParse, Failed
      <4>2. QED
        BY <4>1 DEF Held, LayerRecord
    <3>5. ASSUME NEW r \in Refresher, Clear(r) PROVE semantic.incomplete => semantic'.incomplete
      <4> DEFINE n == semantic.generation + 1
      <4>1. semantic' = semantic \/ semantic' = [NewLayer EXCEPT !.generation = n, !.incomplete = TRUE]
        BY <3>5 DEF Clear
      <4>2. [NewLayer EXCEPT !.generation = n, !.incomplete = TRUE].incomplete
        BY DEF NewLayer
      <4>3. QED
        BY <4>1, <4>2
    <3>6. ASSUME NEW r \in Refresher, RefreshParse(r) \/ RefreshAbsent(r)
          PROVE  semantic' = semantic
      BY <2>3, <3>6 DEF RefreshParse, RefreshAbsent
    <3>7. QED
      BY <1>5, <3>1, <3>2, <3>3, <3>4, <3>5, <3>6, Writers DEF Untouching, SemanticWrites
  <2>6. QED
    BY <2>1, <2>5
<1>6. QED
  BY <1>2, <1>3, <1>4, <1>5, SemanticReserved

\* The build ends with the truth, unless it says that the layer is incomplete.
LEMMA BuildEnds ==
  ASSUME Inv, [Next]_vars, semantic.generation = 0, ~News,
         initial.at \notin {"ready", "done"}, initial'.at \in {"ready", "done"}, ~semantic'.incomplete
  PROVE  semantic'.disk = IF file \in Content THEN Saved(file) ELSE None
<1>1. ~Masked(semantic) /\ semantic.disk = None /\ "initial" \notin canceled
  BY DEF Inv, Numbered, Unreached
<1>2. Untouched /\ semantic.overlay = None
  BY <1>1, InvTypes DEF Masked, Untouched
<1>3. initial \in BuildRecord
  BY DEF Inv, Typed
<1>4. /\ initial.source # "missing" => file = initial.source /\ initial.source \in Content
      /\ initial.at = "absent" => file = "missing"
      /\ initial.at = "parseSemantic" => initial.source # "missing"
  BY DEF Inv, Known, BuildKnows
<1>5. CASE DeclarationsReady
  <2>1. initial.at = "absent" /\ semantic' = semantic
    BY <1>3, <1>5 DEF DeclarationsReady, BuildRecord
  <2>2. QED
    BY <1>1, <1>4, <2>1, FileAssumption
<1>6. CASE InitialSemantics
  <2>1. initial.source = "missing"
    BY <1>2, <1>3, <1>6 DEF InitialSemantics, BuildRecord
  <2>2. semantic' = [semantic EXCEPT !.incomplete = @ \/ Untouched]
    BY <1>6, <2>1 DEF InitialSemantics, Failed
  <2>3. semantic'.incomplete
    BY <1>2, <2>2, InvTypes DEF Held, LayerRecord
  <2>4. QED
    BY <2>3
<1>7. CASE InitialSemanticParse
  <2>1. ~Failed
    <3> SUFFICES ASSUME Failed PROVE FALSE
      OBVIOUS
    <3>1. semantic'.incomplete
      BY <1>2, InvTypes DEF Failed, Held, LayerRecord
    <3>2. QED
      BY <3>1
  <2>2. semantic' = WithDisk(semantic, initial.source, initial.source \in Recovered)
    BY <1>1, <1>2, <1>7, <2>1 DEF InitialSemanticParse
  <2>3. semantic'.disk = Saved(initial.source)
    BY <2>2, InvTypes DEF WithDisk, Held, LayerRecord
  <2>4. file = initial.source /\ initial.source \in Content
    BY <1>4, <1>7 DEF InitialSemanticParse
  <2>5. QED
    BY <2>3, <2>4
<1>8. DeclarationsReady \/ InitialSemantics \/ InitialSemanticParse
  <2>1. ~Skip /\ ~Discover
    BY <1>3 DEF Skip, Discover, BuildRecord
  <2>2. ~Claim /\ ~InitialRead
    BY <1>3 DEF Claim, InitialRead, BuildRecord
  <2>3. ~InitialUnreadable /\ ~InitialParse
    BY <1>3 DEF InitialUnreadable, InitialParse, BuildRecord
  <2>4. ~IndexReady /\ initial' # initial
    BY DEF IndexReady
  <2>5. QED
    BY <2>1, <2>2, <2>3, <2>4, Writers DEF Untouching, BuildWrites, Build
<1>9. QED
  BY <1>5, <1>6, <1>7, <1>8

LEMMA TruthStep ==
  ASSUME Inv, [Next]_vars, ~open', ~Masked(semantic'), ~semantic'.incomplete, ~News',
         semantic'.generation # 0 \/ initial'.at \in {"ready", "done"}
  PROVE  semantic'.effective = Truth'
<1> DEFINE saved == IF file \in Content THEN Saved(file) ELSE None
<1>1. semantic'.effective = semantic'.disk
  BY SemanticHeld DEF Held
<1>2. ~Upsert
  <2>1. CASE Upsert /\ Masked(semantic)
    BY <2>1, InvTypes DEF Upsert, Held, LayerRecord, Masked
  <2>2. CASE Upsert /\ ~Masked(semantic)
    <3> DEFINE n == semantic.generation + 1
    <3>1. semantic' = [semantic EXCEPT !.generation = n, !.incomplete = TRUE] /\ semantic \in LayerRecord
      BY <2>2, InvTypes DEF Upsert, Held
    <3> HIDE DEF n
    <3>2. semantic'.incomplete
      BY <3>1 DEF LayerRecord
    <3>3. QED
      BY <3>2
  <2>3. QED
    BY <2>1, <2>2
<1>3. ~News /\ file' = file
  BY <1>2, NewsKept
<1>4. ~open
  <2>1. CASE Close
    <3>1. Masked(semantic) /\ semantic' = semantic
      BY <2>1 DEF Close, Inv, Opened
    <3>2. QED
      BY <3>1
  <2>2. CASE Open \/ Change
    BY <2>2 DEF Open, Change, Take
  <2>3. QED
    BY <2>1, <2>2, Writers DEF Untouching
<1>5. Truth' = saved
  BY <1>3 DEF Truth
<1>6. LoopKnows /\ LoopNumbered
  BY DEF Inv, Known, Numbered
<1>7. CASE /\ semantic'.disk = semantic.disk /\ semantic'.generation = semantic.generation
           /\ semantic.incomplete => semantic'.incomplete
  <2>1. ~Masked(semantic)
    <3>1. ~Settles(semantic, semantic')
      BY SettledMasks
    <3>2. ASSUME NEW r \in Refresher, Clear(r) PROVE semantic' = semantic
      BY <1>7, <3>2, InvTypes, GenerationMoves
    <3>3. QED
      BY <3>1, <3>2, SemanticReserved DEF Masked
  <2>2. CASE semantic.generation # 0 \/ initial.at \in {"ready", "done"}
    <3>1. semantic.effective = Truth
      BY <1>3, <1>4, <1>7, <2>1, <2>2 DEF Inv, Honest
    <3>2. semantic.effective = semantic.disk
      BY <2>1, InvTypes DEF Held
    <3>3. Truth = saved
      BY <1>4 DEF Truth
    <3>4. QED
      BY <1>1, <1>5, <1>7, <3>1, <3>2, <3>3
  <2>3. CASE semantic.generation = 0 /\ initial.at \notin {"ready", "done"}
    <3>1. semantic'.disk = saved
      BY <1>3, <1>7, <2>3, BuildEnds
    <3>2. QED
      BY <1>1, <1>5, <3>1
  <2>4. QED
    BY <2>2, <2>3
<1>8. CASE Unchanged /\ semantic.generation = loop.observed /\ semantic'.disk = semantic.disk
  <2>1. semantic.disk = Saved(loop.source) /\ file = loop.source /\ loop.source \in Content
    BY <1>3, <1>6, <1>8 DEF Unchanged, LoopKnows, LoopNumbered
  <2>2. QED
    BY <1>1, <1>5, <1>8, <2>1
<1>9. CASE Parse /\ semantic'.disk = Saved(loop.source)
  <2>1. file = loop.source /\ loop.source \in Content
    BY <1>3, <1>6, <1>9 DEF Parse, LoopKnows
  <2>2. QED
    BY <1>1, <1>5, <1>9, <2>1
<1>10. CASE Remove /\ semantic'.disk = None
  <2>1. file = "missing"
    BY <1>3, <1>6, <1>10 DEF Remove, LoopKnows
  <2>2. QED
    BY <1>1, <1>5, <1>10, <2>1, FileAssumption
<1>11. ASSUME NEW r \in Refresher, RefreshParse(r), InForce(r), semantic'.disk = Saved(refresh[r].source)
       PROVE  semantic'.effective = Truth'
  <2>1. file = refresh[r].source /\ refresh[r].source \in Content
    BY <1>3, <1>11 DEF RefreshParse, InForce, Inv, Known, RefreshKnows
  <2>2. QED
    BY <1>1, <1>5, <1>11, <2>1
<1>12. ASSUME NEW r \in Refresher, RefreshAbsent(r), InForce(r), semantic'.disk = semantic.disk
       PROVE  semantic'.effective = Truth'
  <2>1. file = "missing" /\ semantic.disk = None
    BY <1>3, <1>12, InForceFacts DEF RefreshAbsent, InForce, Inv, Known, RefreshKnows
  <2>2. QED
    BY <1>1, <1>5, <1>12, <2>1, FileAssumption
<1>13. CASE InitialSemanticParse /\ Untouched /\ semantic'.disk = Saved(initial.source)
  <2>1. file = initial.source /\ initial.source \in Content
    BY <1>3, <1>13 DEF InitialSemanticParse, Untouched, Inv, Known, BuildKnows
  <2>2. QED
    BY <1>1, <1>5, <1>13, <2>1
<1>14. QED
  BY <1>7, <1>8, <1>9, <1>10, <1>11, <1>12, <1>13, HonestMoves DEF HonestGoes

LEMMA HonestStep ==
  ASSUME Inv, [Next]_vars
  PROVE  Honest'
BY MaskIncomplete, TruthStep DEF Honest

LEMMA EndedStep ==
  ASSUME Inv, [Next]_vars
  PROVE  Ended'
<1>1. CASE IndexReady
  BY <1>1 DEF IndexReady, Ended
<1>2. CASE DeclarationsReady \/ UNCHANGED ready
  <2>1. ready'.index = ready.index
    BY <1>2 DEF DeclarationsReady, Inv, Typed
  <2>2. QED
    BY <2>1, BuildMoves DEF Ended, Inv
<1>3. QED
  BY <1>1, <1>2, Writers DEF Untouching

-----------------------------------------------------------------------------
(***************************************************************************)
(* The invariant, and what it says.                                         *)
(***************************************************************************)
LEMMA InvInit ==
  ASSUME Init
  PROVE  Inv
<1> USE DEF Init
<1>1. semantic = NewLayer /\ declared = NewLayer /\ generation = 0
  OBVIOUS
<1>2. /\ semantic.generation = 0 /\ semantic.pending = 0 /\ semantic.disk = None
      /\ semantic.overlay = None /\ semantic.effective = None /\ semantic.incomplete = FALSE
      /\ ~Masked(semantic) /\ ~Masked(declared)
      /\ declared.pending = 0
  BY <1>1 DEF NewLayer, Masked
<1>3. Held(NewLayer, 0)
  BY NewLayerType DEF Held, Masked, NewLayer
<1>4. Typed
  <2>1. Held(semantic, generation) /\ Held(declared, generation)
    BY <1>1, <1>3
  <2>2. initial \in BuildRecord /\ worker \in WorkerRecord
    BY DEF BuildRecord, WorkerRecord, IdleWorker, File
  <2>3. refresh \in [Refresher -> RefreshRecord]
    BY DEF RefreshRecord, IdleRefresh, File
  <2>4. ready \in [declarations : BOOLEAN, index : BOOLEAN]
    OBVIOUS
  <2>5. writes \in 0..WriteLimit /\ texts \in 0..TextLimit
    BY BoundAssumption
  <2>6. file \in File /\ noticed \in BOOLEAN /\ open \in BOOLEAN /\ generation \in Nat
    OBVIOUS
  <2>7. parse \in Actor \cup {"none"} /\ canceled \subseteq Actor /\ loop \in LoopRecord
    BY IdleLoopType
  <2>8. QED
    BY <2>1, <2>2, <2>3, <2>4, <2>5, <2>6, <2>7 DEF Typed
<1>5. Opened /\ Closed
  BY <1>2 DEF Opened, Closed, Handling, Upserting, IdleLoop, IdleRefresh
<1>6. Worked
  BY DEF Worked, IdleWorker, IdleLoop
<1>7. Numbered
  BY <1>2 DEF Numbered, LoopNumbered, RefreshNumbered, Distinct, Unreached, Upserting, Refreshing,
              IdleLoop, IdleRefresh
<1>8. Known
  BY DEF Known, LoopKnows, RefreshKnows, BuildKnows, IdleLoop, IdleRefresh
<1>9. Honest
  BY <1>2, EntryFacts DEF Honest
<1>10. Ended
  BY DEF Ended
<1>11. QED
  BY <1>4, <1>5, <1>6, <1>7, <1>8, <1>9, <1>10 DEF Inv

\* Everything the proofs below need of a reachable state: the types, who masks the
\* path, who still settles a reservation, who knows which generation, what is
\* known of the file, and that the layer shows the truth or says incomplete.
THEOREM WorkspaceIndexInvariant ==
  Spec => []Inv
<1>1. Inv /\ [Next]_vars => Inv'
  BY TypedStep, OpenedStep, ClosedStep, WorkedStep, NumberedStep, KnownStep, HonestStep,
     EndedStep DEF Inv
<1>2. QED
  BY InvInit, <1>1, PTL DEF Spec

\* The layers stay layers, the path's effective entry one of those it holds, and
\* every actor at a place its code has.
THEOREM TypeOKHolds ==
  Spec => []TypeOK
<1>1. Inv => TypeOK
  <2> SUFFICES ASSUME Inv PROVE TypeOK
    OBVIOUS
  <2>1. ASSUME NEW layer, Held(layer, generation)
        PROVE  /\ DOMAIN layer = DOMAIN NewLayer
               /\ layer.generation \in Nat /\ layer.pending \in Nat /\ layer.incomplete \in BOOLEAN
               /\ layer.disk \in {None} \cup {Saved(c) : c \in Content}
               /\ layer.overlay \in {None, Mask} \cup {Text(g) : g \in 1..generation}
               /\ layer.effective \in {None, layer.disk, layer.overlay}
    <3>1. DOMAIN layer = DOMAIN NewLayer
      BY <2>1, NewLayerType DEF Held, LayerRecord
    <3>2. QED
      BY <2>1, <3>1 DEF Held, LayerRecord
  <2>2. \A layer \in {semantic, declared} : Held(layer, generation)
    BY InvTypes
  <2>3. QED
    BY <2>1, <2>2 DEF Inv, Typed, TypeOK, LoopRecord, LoopPlaces, WorkerRecord, RefreshRecord, BuildRecord
<1>2. QED
  BY <1>1, WorkspaceIndexInvariant, PTL

\* While the document is open the semantic layer shows its newest text or nothing,
\* and neither layer shows an older one: what is saved meanwhile, however late a
\* parse of it ends, does not come through.
THEOREM OpenMasksDiskHolds ==
  Spec => []OpenMasksDisk
<1>1. Inv => OpenMasksDisk
  <2> SUFFICES ASSUME Inv, open, loop.at # "reserve"
               PROVE  /\ semantic.effective \in {None, Text(generation)}
                      /\ \A g \in 1..generation - 1 : declared.effective # Text(g)
    BY DEF OpenMasksDisk
  <2>1. Held(semantic, generation) /\ Held(declared, generation) /\ generation \in Nat
    BY InvTypes
  <2>2. semantic.effective \in {None, Text(generation)}
    <3>1. Reserves(semantic, generation) /\ Masked(semantic)
      BY DEF Inv, Opened
    <3>2. QED
      BY <2>1, <3>1 DEF Held, Reserves
  <2>3. ASSUME NEW g \in 1..generation - 1 PROVE declared.effective # Text(g)
    <3>1. Reserves(declared, generation)
      BY DEF Inv, Opened
    <3>2. g \in Nat /\ g # generation
      BY <2>1
    <3>3. declared.effective \in {None, Text(generation), declared.disk}
      BY <2>1, <3>1 DEF Held, Reserves
    <3>4. declared.disk \in {None} \cup {Saved(c) : c \in Content}
      BY <2>1, HeldFields
    <3>5. QED
      BY <2>1, <3>2, <3>3, <3>4, EntryFacts
  <2>4. QED
    BY <2>2, <2>3
<1>2. QED
  BY <1>1, WorkspaceIndexInvariant, PTL

\* An index that calls itself complete shows what is true of the path, but for news
\* that no actor has begun to work on.
THEOREM CompleteIsCurrentHolds ==
  Spec => []CompleteIsCurrent
<1>1. Inv => CompleteIsCurrent
  <2> SUFFICES ASSUME Inv, Complete, ~Behind PROVE semantic.effective = Truth
    BY DEF CompleteIsCurrent
  <2>1. semantic.pending = 0 /\ ~semantic.incomplete /\ ready.index
    BY DEF Complete, LayerComplete
  <2>2. CASE open
    <3>1. Reserves(semantic, generation) /\ Masked(semantic) /\ Held(semantic, generation)
      BY <2>2, InvTypes DEF Inv, Opened, Behind
    <3>2. semantic.overlay # None /\ semantic.overlay # Mask
      BY <2>1, <3>1 DEF Inv, Honest, Masked
    <3>3. QED
      BY <2>2, <3>1, <3>2 DEF Held, Reserves, Truth
  <2>3. CASE ~open
    <3>1. ~Masked(semantic)
      BY <2>3 DEF Inv, Closed, Waiting, Behind
    <3>2. semantic.generation # 0 \/ initial.at \in {"ready", "done"}
      BY <2>1 DEF Inv, Ended
    <3>3. QED
      BY <2>1, <2>3, <3>1, <3>2 DEF Inv, Honest, News, Behind
  <2>4. QED
    BY <2>2, <2>3
<1>2. QED
  BY <1>1, WorkspaceIndexInvariant, PTL

\* When nothing is left to do no reservation stands, a closed document has left no
\* overlay, and the semantic layer shows the truth or says that it is incomplete.
THEOREM SettledIsHonestHolds ==
  Spec => []SettledIsHonest
<1>1. Inv => SettledIsHonest
  <2> SUFFICES ASSUME Inv, Quiet
               PROVE  /\ semantic.pending = 0 /\ (semantic.overlay # None => open)
                      /\ declared.pending = 0 /\ (declared.overlay # None => open)
                      /\ semantic.effective = Truth \/ semantic.incomplete
    BY DEF SettledIsHonest
  <2>1. /\ loop.at = "idle" /\ initial.at = "done" /\ worker.at = "idle" /\ ~News
        /\ open => worker.generation = generation
        /\ \A r \in Refresher : refresh[r].at = "none"
    BY DEF Quiet, News
  <2>2. CASE open
    <3>1. declared.pending = 0 /\ semantic.pending = 0
      BY <2>1, <2>2 DEF Inv, Worked
    <3>2. Reserves(semantic, generation) /\ Masked(semantic) /\ Held(semantic, generation)
      BY <2>1, <2>2, InvTypes DEF Inv, Opened
    <3>3. CASE semantic.overlay = Mask
      BY <2>2, <3>1, <3>3 DEF Inv, Honest
    <3>4. CASE semantic.overlay = Text(generation)
      BY <2>2, <3>1, <3>2, <3>4, InvTypes, EntryFacts DEF Held, Truth
    <3>5. QED
      BY <3>1, <3>2, <3>3, <3>4, <2>2 DEF Reserves, Masked
  <2>3. CASE ~open
    <3>1. ~Masked(semantic) /\ ~Masked(declared)
      BY <2>1, <2>3 DEF Inv, Closed, Waiting
    <3>2. semantic.effective = Truth \/ semantic.incomplete
      BY <2>1, <2>3, <3>1 DEF Inv, Honest
    <3>3. QED
      BY <3>1, <3>2 DEF Masked
  <2>4. QED
    BY <2>2, <2>3
<1>2. QED
  BY <1>1, WorkspaceIndexInvariant, PTL
=============================================================================
