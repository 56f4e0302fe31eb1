----------------------------- MODULE BounceEdges -----------------------------
(***************************************************************************)
(* IW3's bounce edge markers (bounce_edges.cpp): each edge of one or two   *)
(* terrain triangles is probed with traces of the player's hull, a few     *)
(* each frame, nearest edges first, and marked where a probe answered as   *)
(* an edge would.  What was probed is kept for each of the split-screen     *)
(* clients until the map, the hull or the brushes without collision change. *)
(* The brushes are those of clipmap.cpp, which handles a frame before the   *)
(* outlines do (events.cpp:39-42).                                         *)
(*                                                                         *)
(* What a trace hits is data: Answers gives the samples of an edge that     *)
(* answer, for a hull and a setting of noclip_brushes.                      *)
(* All edges of the map are near enough, and what is drawn finds room in    *)
(* the renderer's command buffer.                                          *)
(***************************************************************************)
EXTENDS Integers, Sequences, FiniteSets, SequencesExt

CONSTANTS
  Grounds,      \* terrain of maps: triangle -> its three vertices
  Vertices,     \* vertices are numbered 1..Vertices
  Flat,         \* edges of each that are no crease, or degenerate
  Answers(_, _, _, _), \* ground, edge, hull, solidity -> samples that answer
  Clients, Hulls, Settings,
  Samples, ProbesPerSample,
  TraceBudget, WorkBudget, LineBudget,
  MaxEvents     \* bound: what happens around the markers in a behaviour

VARIABLES
  ground,    \* terrain of the loaded map, 0 for none
  place,     \* cm->verts and triIndices
  shown,     \* cm_showBounces and cm_showBounceEdges
  hull,      \* bounds and mask of each client
  setting,   \* noclip_brushes, with its modified flag
  solidity,  \* the setting the brushes' contents follow
  edges,     \* the index: keys, and the place they were taken at
  seenSetting, \* brushCollisionSetting
  profile,   \* client -> [valid, hull, next, samples]
  markers,   \* edges' samples that the last draw of each client marked
  events     \* events so far

edgeVars == <<ground, place, shown, hull, setting, solidity, edges, seenSetting, profile, markers, events>>
NoEdges  == [at |-> 0, keys |-> {}]
NoMarks  == [c \in Clients |-> {}]
Unused   == [valid |-> FALSE, hull |-> 0, next |-> <<>>, samples |-> <<>>]
ProbeCount == Samples * ProbesPerSample

(* The state after step for each of the items in turn. *)
InTurn(step(_, _), start, items) ==
  LET run(todo) ==
        LET upTo[i \in 0..Len(todo)] ==
              IF i = 0 THEN start
              ELSE CHOOSE t \in {step(s, todo[i]) : s \in {upTo[i - 1]}} : TRUE
        IN upTo[Len(todo)]
  IN CHOOSE end \in {run(todo) : todo \in {items}} : TRUE

-----------------------------------------------------------------------------
(* The index *)

Sides(t) == {{t[1], t[2]}, {t[2], t[3]}, {t[3], t[1]}}

(* More than two triangles at an edge are ambiguous. *)
IndexEdges ==
  LET tris == Grounds[ground]
      at(e) == {i \in DOMAIN tris : e \in Sides(tris[i])}
      all == {e \in UNION {Sides(tris[i]) : i \in DOMAIN tris} : Cardinality(e) = 2}
  IN [at |-> place, keys |-> {e \in all : Cardinality(at(e)) <= 2}]

ClearEdges ==
  /\ edges' = NoEdges
  /\ profile' = [c \in Clients |-> Unused]

-----------------------------------------------------------------------------
(* Probes *)

Blank(keys) == [e \in keys |-> 0]

(* UpdateBounds: another hull starts all over. *)
UpdateBounds(p, c, keys) ==
  IF p.valid /\ DOMAIN p.next = keys /\ p.hull = hull[c] THEN p
  ELSE [valid |-> TRUE, hull |-> hull[c], next |-> Blank(keys), samples |-> [e \in keys |-> {}]]

(* One step of ProbeEdge at edge e: an edge without a crease is done at     *)
(* once, a sample that has answered is passed over without a trace.  The   *)
(* probes of a sample find its answer by the last of them.                 *)
Probe(s, e) ==
  LET sample == s.p.next[e] \div ProbesPerSample
      last == (s.p.next[e] + 1) % ProbesPerSample = 0
      answers == last /\ sample \in Answers(ground, e, s.p.hull, s.solidity)
  IN IF e \in Flat THEN [s EXCEPT !.p.next[e] = ProbeCount, !.work = @ + 1]
     ELSE IF sample \in s.p.samples[e] THEN [s EXCEPT !.p.next[e] = @ + 1, !.work = @ + 1]
     ELSE [s EXCEPT !.p.next[e] = @ + 1, !.work = @ + 1, !.traces = @ + 1,
                    !.p.samples[e] = IF answers THEN @ \cup {sample} ELSE @]

Spent(s) == s.traces >= TraceBudget \/ s.work >= WorkBudget

ProbeIfLeft(s, e) == IF Spent(s) \/ s.p.next[e] >= ProbeCount THEN s ELSE Probe(s, e)

ProbeEdge(s, e) == InTurn(ProbeIfLeft, s, [n \in 1..ProbeCount |-> e])

(* Nearest first; here the order of the keys, a < b ? (a << 16) | b : ...,   *)
(* stands for the distance.                                                *)
NearestFirst(keys) ==
  LET low(n)  == 1 + (n \div Vertices)
      high(n) == 1 + (n % Vertices)
      pairs == SelectSeq([n \in 1..Vertices * Vertices |-> n - 1],
                         LAMBDA n : low(n) < high(n) /\ {low(n), high(n)} \in keys)
  IN [i \in DOMAIN pairs |-> {low(pairs[i]), high(pairs[i])}]

(* DrawMarkers: the samples of the nearest edges, as many as the budget has. *)
Markers(keys, samples) ==
  LET first(S, n) == {x \in S : Cardinality({y \in S : y < x}) < n}
      mark(m, e) == m \cup ({e} \X first(samples[e], LineBudget - Cardinality(m)))
  IN InTurn(mark, {}, NearestFirst(keys))

-----------------------------------------------------------------------------
(* A frame of one client *)

(* clipmap::OnCGDrawActive comes first.  Mutant: it comes after. *)
SolidityInFrameLate == solidity
SolidityInFrame == IF setting.modified THEN setting.value ELSE solidity

DrawEdges(c) ==
  /\ ground # 0
  /\ setting' = [setting EXCEPT !.modified = FALSE]
  /\ solidity' = IF setting.modified THEN setting.value ELSE solidity
  /\ IF shown
     THEN LET known == edges.at = place
              current == IF known THEN edges ELSE IndexEdges
              same == seenSetting = setting.value
              old == [d \in Clients |-> IF ~known THEN Unused
                                        ELSE IF same THEN profile[d] ELSE [profile[d] EXCEPT !.valid = FALSE]]
              start == [p |-> UpdateBounds(old[c], c, current.keys), solidity |-> SolidityInFrame,
                        traces |-> 0, work |-> 0]
          IN \E p \in {InTurn(ProbeEdge, start, NearestFirst(current.keys)).p} :
               /\ edges' = current
               /\ seenSetting' = setting.value
               /\ profile' = [old EXCEPT ![c] = p]
               /\ markers' = [markers EXCEPT ![c] = Markers(edges'.keys, p.samples)]
     ELSE /\ ClearEdges
          /\ markers' = [markers EXCEPT ![c] = {}]
          /\ UNCHANGED seenSetting
  /\ UNCHANGED <<ground, place, shown, hull, events>>

-----------------------------------------------------------------------------
(* Around it *)

Event == events < MaxEvents /\ events' = events + 1

(* A map is loaded, perhaps where the last one was; CG_Init clears. *)
StartMap ==
  /\ Event
  /\ ground' \in DOMAIN Grounds /\ place' \in {1, 2}
  /\ solidity' = ""
  /\ ClearEdges
  /\ markers' = NoMarks
  /\ UNCHANGED <<shown, hull, setting, seenSetting>>

SetNoclipBrushes ==
  /\ Event
  /\ \E v \in Settings \ {setting.value} : setting' = [value |-> v, modified |-> TRUE]
  /\ UNCHANGED <<ground, place, shown, hull, solidity, edges, seenSetting, profile, markers>>

(* The player crouches, stands or spectates. *)
ChangeHull(c) ==
  /\ Event
  /\ \E h \in Hulls \ {hull[c]} : hull' = [hull EXCEPT ![c] = h]
  /\ UNCHANGED <<ground, place, shown, setting, solidity, edges, seenSetting, profile, markers>>

ShowEdges ==
  /\ Event
  /\ shown' = ~shown
  /\ UNCHANGED <<ground, place, hull, setting, solidity, edges, seenSetting, profile, markers>>

EdgesInit ==
  /\ ground = 0 /\ place = 0 /\ shown = TRUE
  /\ hull = [c \in Clients |-> CHOOSE h \in Hulls : TRUE]
  /\ setting = [value |-> "", modified |-> FALSE] /\ solidity = ""
  /\ edges = NoEdges /\ seenSetting = ""
  /\ profile = [c \in Clients |-> Unused] /\ markers = NoMarks
  /\ events = 0

EdgesNext ==
  \/ StartMap \/ SetNoclipBrushes \/ ShowEdges
  \/ \E c \in Clients : DrawEdges(c) \/ ChangeHull(c)

(* Every client is drawn while the map runs. *)
EdgesFairness == \A c \in Clients : WF_edgeVars(DrawEdges(c))

-----------------------------------------------------------------------------
(* Properties *)

(* A marker that a client's draw shows stands where a probe with that        *)
(* client's hull answers on this map with these brushes without collision   *)
(* (bounce_edges.cpp:282-291, 441-447).  Only a change after the draw can   *)
(* part them, until the next draw.                                         *)
Answering(c, e) == IF e \in Flat THEN {} ELSE Answers(ground, e, hull[c], solidity) \cap (0..Samples - 1)

MarkersAreCurrent ==
  [][\A c \in Clients : DrawEdges(c) =>
       \A m \in markers'[c] : m[2] \in Answering(c, m[1])']_edgeVars

(* With nothing changing any more each client sees the marks of the nearest *)
(* edges, as many as may be drawn (bounce_edges.cpp:477-479).               *)
MarkersFillIn ==
  \A c \in Clients :
    <>[](ground # 0 /\ shown => markers[c] = Markers(edges.keys, [e \in edges.keys |-> Answering(c, e)]))
=============================================================================
