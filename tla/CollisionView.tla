---------------------------- MODULE CollisionView ----------------------------
(***************************************************************************)
(* IW3's collision outlines (collision.cpp): the loaded map is indexed by   *)
(* walking its BSP, and in every frame the brushes, terrain and brush       *)
(* models in view are drawn near first.  Faces of a brush are clipped once  *)
(* and cached, least recently drawn evicted; a frame clips only so many     *)
(* brushes and submits only so many lines.                                  *)
(*                                                                         *)
(* Geometry is data: a face is its number of points and whether it is a    *)
(* bounce slope; a view is the order of what is near and visible in it.    *)
(***************************************************************************)
EXTENDS Integers, Sequences, FiniteSets, SequencesExt

CONSTANTS
  Maps,             \* map -> [nodes : node -> [brushes, overlap, children],
                    \*  leafs : roots in nodes, models : model -> roots,
                    \*  faces : brush -> sequence of [points, bounce],
                    \*  terrain : tree -> sequence of such, clip : brushes
                    \*  of player clip]
  Addresses,        \* where the collision of a map may be loaded
  Views,            \* [near : sequence of [kind, id], collision : 0..2,
                    \*  bounces, lines : cm_showCollisionMaxLines, room : commands
                    \*  the renderer's buffer holds]
  MaxCachedBrushes, MaxCachedPoints, MaxCachedModels,
  BuildsPerFrame,   \* buildsRemaining
  BatchLines,       \* lines of one draw command
  MaxMoves          \* bound: changes of camera or map in a behaviour

VARIABLES
  map,        \* the map that is loaded, 0 for none
  address,    \* cm->brushes, aabbTrees and cmodels
  active,     \* CG_Init ran for this map
  view,       \* refdef and dvars
  index,      \* worldBrushes, terrain with the addresses they were taken at
  brushCache, \* brush -> [of : map, points, age]
  cachedPoints,
  modelCache, \* model -> [of : map, brushes, age]
  frame,      \* maps whose brushes the last frame drew, and the brushes it
              \* skipped for want of a build
  moves       \* changes of camera or map so far

viewVars  == <<map, address, active, view, index, brushCache, cachedPoints, modelCache, frame, moves>>
cacheVars == <<index, brushCache, cachedPoints, modelCache>>
Nothing   == <<>>
NoIndex   == [address |-> 0, brushes |-> {}]
cm        == Maps[map]

(* The state after step for each of the items in turn. *)
InTurn(step(_, _), start, items) ==
  LET run(todo) ==
        LET upTo[i \in 0..Len(todo)] ==
              IF i = 0 THEN start
              ELSE CHOOSE t \in {step(s, todo[i]) : s \in {upTo[i - 1]}} : TRUE
        IN upTo[Len(todo)]
  IN CHOOSE end \in {run(todo) : todo \in {items}} : TRUE

-----------------------------------------------------------------------------
(* The index *)

(* A node lists brushes, or has children at offsets and perhaps an         *)
(* overlapping subtree right behind it.                                    *)
Below(nodes, n) ==
  IF nodes[n].brushes # {} THEN {}
  ELSE {n + o : o \in nodes[n].children \ {0}} \cup (IF nodes[n].overlap THEN {n + 1} ELSE {})

(* What the stack of pending nodes visits: each node once, none outside.    *)
Visited(nodes, roots) ==
  LET onward(reached, k) ==
        reached \cup (UNION {Below(nodes, n) : n \in reached} \cap DOMAIN nodes)
  IN InTurn(onward, roots \cap DOMAIN nodes, [k \in DOMAIN nodes |-> k])

BrushesBelow(roots) ==
  UNION {cm.nodes[n].brushes : n \in Visited(cm.nodes, roots)} \cap DOMAIN cm.faces

IndexWorld == [address |-> address, brushes |-> BrushesBelow(cm.leafs)]

-----------------------------------------------------------------------------
(* The caches.  Only the order of drawSerial matters: an entry's age is    *)
(* the number of later draws that are the last of some entry.              *)

Points(b) == InTurn(LAMBDA n, face : n + face.points, 0, cm.faces[b])

Older(cache) == [k \in DOMAIN cache |-> [cache[k] EXCEPT !.age = @ + 1]]
Dense(cache) ==
  [k \in DOMAIN cache |-> [cache[k] EXCEPT
     !.age = Cardinality({cache[j].age : j \in {i \in DOMAIN cache : cache[i].age < @}})]]

(* EvictOldestBrush: the first in the order of the map among the oldest. *)
Oldest(cache) ==
  CHOOSE k \in DOMAIN cache :
    \A j \in DOMAIN cache : cache[j].age < cache[k].age \/ (cache[j].age = cache[k].age /\ k <= j)
Evicted(cache) == [k \in DOMAIN cache \ {Oldest(cache)} |-> cache[k]]

EvictOldestBrush(s) ==
  [s EXCEPT !.brushes = Evicted(@), !.points = @ - s.brushes[Oldest(s.brushes)].points]

(* Evictions until the new brush has room; one that is larger than the      *)
(* whole cache is kept alone.                                              *)
MakeRoom(s, points) ==
  LET evictIfFull(t, k) ==
        IF DOMAIN t.brushes # {} /\ \/ Cardinality(DOMAIN t.brushes) >= MaxCachedBrushes
                                    \/ t.points + points > MaxCachedPoints
        THEN EvictOldestBrush(t) ELSE t
  IN InTurn(evictIfFull, s, [k \in 1..MaxCachedBrushes |-> k])

Entry(cache, k, e) == [j \in DOMAIN cache \cup {k} |-> IF j = k THEN e ELSE cache[j]]

GetBrush(s, b) ==
  IF b \in DOMAIN s.brushes THEN [s EXCEPT !.brushes[b].age = 0]
  ELSE LET t == MakeRoom(s, Points(b)) IN
       [t EXCEPT !.brushes = Entry(@, b, [of |-> map, points |-> Points(b), age |-> 0]),
                 !.points = @ + Points(b)]

(* Mutant: what is cached uses up a build, too. *)
SpendBuildAlways(s, known) == [s EXCEPT !.builds = IF @ = 0 THEN 0 ELSE @ - 1]
SpendBuild(s, known) == IF known THEN s ELSE [s EXCEPT !.builds = @ - 1]

GetModel(s, m) ==
  IF m \in DOMAIN s.models THEN [s EXCEPT !.models[m].age = 0]
  ELSE LET kept == IF Cardinality(DOMAIN s.models) >= MaxCachedModels THEN Evicted(s.models) ELSE s.models IN
       [s EXCEPT !.models = Entry(kept, m, [of |-> map, brushes |-> BrushesBelow(cm.models[m]), age |-> 0])]

-----------------------------------------------------------------------------
(* Lines *)

(* A polygon that does not fit the budget is left out whole; a command     *)
(* that finds no room in the renderer's buffer ends the frame's lines.     *)
Polygon(s, n) ==
  IF s.failed \/ n > s.lines THEN s
  ELSE LET commands == (s.count + n) \div BatchLines IN
       IF commands > s.room THEN [s EXCEPT !.failed = TRUE]
       ELSE [s EXCEPT !.count = (@ + n) % BatchLines, !.lines = @ - n, !.room = @ - commands]

Full(s) == s.failed \/ s.lines < 3

CollisionSelected(clip) == view.collision = 2 \/ (view.collision = 1 /\ clip)

(* Bounce slopes before the other faces. *)
FacesInOrder(faces, clip) ==
  LET bounce(f) == view.bounces /\ f.bounce
      plain(f)  == ~bounce(f) /\ CollisionSelected(clip)
  IN SelectSeq(faces, bounce) \o SelectSeq(faces, plain)

DrawFaces(s, faces, clip) ==
  InTurn(LAMBDA t, face : IF Full(t) THEN t ELSE Polygon(t, face.points), s, FacesInOrder(faces, clip))

DrawBrush(s, b) ==
  LET known == b \in DOMAIN s.brushes IN
  IF ~known /\ s.builds = 0 THEN [s EXCEPT !.skipped = @ \cup {b}]
  ELSE LET t == GetBrush(SpendBuild(s, known), b) IN
       DrawFaces([t EXCEPT !.drawn = @ \cup {t.brushes[b].of}], cm.faces[b], b \in cm.clip)

DrawModel(s, m) ==
  LET known == m \in DOMAIN s.models IN
  IF ~known /\ s.builds = 0 THEN [s EXCEPT !.skipped = @ \cup BrushesBelow(cm.models[m])]
  ELSE LET t == GetModel(SpendBuild(s, known), m) IN
       InTurn(LAMBDA u, b : IF Full(u) THEN u ELSE DrawBrush(u, b), t,
                SetToSortSeq(t.models[m].brushes, <))

-----------------------------------------------------------------------------
(* A frame *)

HasBounceFace(b) == \E i \in DOMAIN cm.faces[b] : cm.faces[b][i].bounce

(* What is near and in view, and shown by the dvars. *)
Candidates ==
  LET shown(c) ==
        \/ c.kind = "brush" /\ c.id \in index'.brushes
           /\ (CollisionSelected(c.id \in cm.clip) \/ (view.bounces /\ HasBounceFace(c.id)))
        \/ c.kind = "terrain" /\ c.id \in DOMAIN cm.terrain
           /\ (CollisionSelected(FALSE) \/ view.bounces)
        \/ c.kind = "model" /\ c.id \in DOMAIN cm.models \ {0}
           /\ (view.bounces \/ CollisionSelected(BrushesBelow(cm.models[c.id]) \cap cm.clip # {}))
  IN SelectSeq(view.near, shown)

DrawCandidate(s, c) ==
  IF Full(s) THEN s
  ELSE IF c.kind = "model" THEN DrawModel(s, c.id)
  ELSE IF c.kind = "terrain" THEN DrawFaces(s, cm.terrain[c.id], FALSE)
  ELSE DrawBrush(s, c.id)

Cleared ==
  /\ index' = NoIndex /\ brushCache' = Nothing
  /\ cachedPoints' = 0 /\ modelCache' = Nothing

(* OnCGDrawActive *)
Off == view.collision = 0 /\ ~view.bounces

DrawNothing ==
  /\ active /\ Off
  /\ frame' = [drawn |-> {}, skipped |-> {}]
  /\ UNCHANGED <<map, address, active, view, cacheVars, moves>>

Draw ==
  /\ active /\ ~Off
  /\ index' = IF index = NoIndex \/ index.address # address THEN IndexWorld ELSE index
  /\ LET fresh == index' # index
         start == [brushes |-> IF fresh THEN Nothing ELSE Older(brushCache),
                   points |-> IF fresh THEN 0 ELSE cachedPoints,
                   models |-> IF fresh THEN Nothing ELSE Older(modelCache),
                   builds |-> BuildsPerFrame, count |-> 0, lines |-> view.lines, room |-> view.room,
                   failed |-> FALSE, drawn |-> {}, skipped |-> {}]
         end == InTurn(DrawCandidate, start, Candidates)
     IN \E done \in {end} :
          /\ brushCache' = Dense(done.brushes)
          /\ cachedPoints' = done.points
          /\ modelCache' = Dense(done.models)
          /\ frame' = [drawn |-> done.drawn, skipped |-> done.skipped]
  /\ UNCHANGED <<map, address, active, view, moves>>

-----------------------------------------------------------------------------
(* Maps and cameras *)

LoadMap ==
  /\ moves < MaxMoves
  /\ map' \in DOMAIN Maps /\ address' \in Addresses
  /\ active' = FALSE
  /\ view' \in Views
  /\ frame' = [drawn |-> {}, skipped |-> {}]
  /\ moves' = moves + 1
  /\ UNCHANGED cacheVars

OnCGInit ==
  /\ map # 0 /\ ~active /\ active' = TRUE
  /\ Cleared
  /\ UNCHANGED <<map, address, view, frame, moves>>

MoveCamera ==
  /\ moves < MaxMoves
  /\ view' \in Views
  /\ moves' = moves + 1
  /\ UNCHANGED <<map, address, active, cacheVars, frame>>

ViewInit ==
  /\ map = 0 /\ address = 0 /\ active = FALSE
  /\ view = CHOOSE v \in Views : TRUE
  /\ index = NoIndex /\ brushCache = Nothing /\ cachedPoints = 0 /\ modelCache = Nothing
  /\ frame = [drawn |-> {}, skipped |-> {}]
  /\ moves = 0

ViewNext == DrawNothing \/ Draw \/ LoadMap \/ OnCGInit \/ MoveCamera

(* The client draws on while the map runs. *)
ViewFairness == WF_viewVars(DrawNothing \/ Draw) /\ WF_viewVars(OnCGInit)

-----------------------------------------------------------------------------
(* Properties *)

(* Every outline that is drawn is of the map that is loaded, also when it  *)
(* was loaded to where the last one was (collision.cpp:603, 622), and the  *)
(* count of cached points is that of the cached brushes, within its bound  *)
(* unless one brush alone exceeds it (collision.cpp:244-248).               *)
ShowsLoadedMap ==
  /\ frame.drawn \subseteq {map}
  /\ cachedPoints = InTurn(LAMBDA n, b : n + brushCache[b].points, 0, SetToSeq(DOMAIN brushCache))
  /\ cachedPoints <= MaxCachedPoints \/ Cardinality(DOMAIN brushCache) = 1
  /\ Cardinality(DOMAIN modelCache) <= MaxCachedModels

(* New areas fill in over several frames (collision.cpp:705): under a       *)
(* camera that stays, in the end no brush that has lines left is skipped.  *)
FillsIn == <>[](frame.skipped = {})
=============================================================================
