---------------------------- MODULE BrushCollision ----------------------------
(***************************************************************************)
(* The noclip_brushes dvar: brushes of the loaded map lose CONTENTS_       *)
(* PLAYERCLIP, brush_collision_tracker remembers which, so that they can   *)
(* get it back.  The four games that have it differ in when the tracker is *)
(* cleared, when the dvar is registered and whether a script method may    *)
(* add brushes: iw3 (clipmap.cpp), t4 (brush_collision.cpp), iw4 and qos   *)
(* (clipmap.cpp of each).  The tracker and the pointer to the dvar are     *)
(* statics of the DLL; the dvar and the map belong to the title.  IW5 has  *)
(* a script method without dvar or tracker.                                *)
(*                                                                         *)
(* Of the three dimensions of a brush and a player one stands for all:     *)
(* brushes lie on one another and a player is half as high as one.         *)
(***************************************************************************)
EXTENDS Integers, FiniteSets

CONSTANTS
  Variants,   \* which games' components
  NumBrushes, \* cm->numBrushes
  MaxTitles   \* bound: launches of the title in a behaviour

ASSUME BrushCollisionAssumption ==
  /\ Variants \subseteq {"iw3", "t4", "iw4", "qos", "iw5"}
  /\ NumBrushes \in Nat
  /\ MaxTitles \in Nat

Brush == 0..(NumBrushes - 1)

(* A value of the dvar: "*" or not, then indices, valid for the map or not. *)
Value == [star : BOOLEAN, list : SUBSET (Brush \cup {NumBrushes})]
Empty == [star |-> FALSE, list |-> {}]

VARIABLES
  variant,  \* the game that runs
  title,    \* launches of the title so far
  phase,    \* "off", "menu", "loaded" (no client yet) or "map"
  orig,     \* brushes the map ships with the flag
  contents, \* brushes that have the flag now
  tracked,  \* modifiedBrushes
  dvarOf,   \* launch in which noclip_brushes was registered, 0 for null
  value,    \* noclip_brushes->current
  modified, \* its modified flag
  applied,  \* the value was applied since the map was loaded
  asked     \* brushes the script method was to disable since then

mapVars  == <<orig, contents>>
dvarVars == <<value, modified>>
vars == <<variant, title, phase, mapVars, tracked, dvarOf, dvarVars, applied, asked>>

-----------------------------------------------------------------------------
(* Brushes *)

(* RemoveBrushCollision for every index in S; past the last brush the flag  *)
(* would be read from whatever memory follows, here one that is set.       *)
RemoveCollision(have, was, S) ==
  [contents |-> have \ S, tracked |-> was \cup (S \cap have) \cup (S \ Brush)]

(* RestoreBrushContents: flags of tracked brushes come back, none is tracked. *)
Restored == contents \cup (tracked \cap Brush)

(* ParseSpaceSeparatedInts, which stops at what is no number, and the check *)
(* of each index.                                                          *)
ValidIndices(v) == IF v.star THEN {} ELSE v.list \cap Brush

(* What HandleBrushCollisionChange makes of a value: all of IW3 and T4.     *)
Listed(v) == RemoveCollision(Restored, {}, ValidIndices(v))
Changed(v) ==
  IF v = Empty THEN [contents |-> Restored, tracked |-> {}]
  ELSE IF v.star THEN RemoveCollision(contents, tracked, Brush) ELSE Listed(v)
T4Changed(v) == Changed(v)

(* In IW4 "*" may have indices after it, and is then no "*".               *)
Iw4Changed(v) == IF v.star /\ v.list # {} THEN Listed(v) ELSE Changed(v)

(* QoS restores first, whatever the value.                                 *)
QosChanged(v) == IF v.star THEN RemoveCollision(Restored, {}, Brush) ELSE Listed(v)

HandleChange(v) ==
  LET after == CASE variant = "iw3" -> Changed(v) [] variant = "t4" -> T4Changed(v)
                 [] variant = "iw4" -> Iw4Changed(v) [] variant = "qos" -> QosChanged(v)
  IN contents' = after.contents /\ tracked' = after.tracked

-----------------------------------------------------------------------------
(* Where brushes are *)

BoxOf(b) == [mins |-> 4 * b, maxs |-> 4 * b + 4]
PlayerBox(z) == [mins |-> z, maxs |-> z + 2]
Heights == 0..(4 * NumBrushes)

IsPointInBounds(box, point) == point >= box.mins /\ point <= box.maxs

(* IW4 and IW5 keep the middle of a box and half its size.                 *)
midPoint(box) == (box.mins + box.maxs) \div 2
halfSize(box) == (box.maxs - box.mins) \div 2
Distance(x, y) == IF x < y THEN y - x ELSE x - y
BoundsIntersect(a, b) == Distance(midPoint(a), midPoint(b)) <= halfSize(a) + halfSize(b)

QosTouches(player, brush) == ~(player.maxs < brush.mins \/ player.mins > brush.maxs)

(* IW5 looks just below the feet.                                          *)
IW5Contains(box, z) ==
  z - 1 >= midPoint(box) - halfSize(box) /\ z - 1 <= midPoint(box) + halfSize(box)

(* getplayerclipbrushescontainingpoint of IW3 and T4.                      *)
BrushesContainingPoint(z) == {b \in contents : IsPointInBounds(BoxOf(b), z)}
T4BrushesContainingPoint(z) == {b \in contents : IsPointInBounds(BoxOf(b), z)}

-----------------------------------------------------------------------------
(* The title and its maps *)

(* OnDvarInit runs in every launch; iw4 and qos register once per DLL. *)
Register ==
  dvarOf' = IF variant \in {"iw3", "t4"} \/ (variant # "iw5" /\ dvarOf = 0) THEN title' ELSE dvarOf

(* Registering resets the value; whether it sets the flag is the engine's. *)
StartTitle ==
  /\ phase = "off" /\ title < MaxTitles
  /\ title' = title + 1
  /\ phase' = "menu"
  /\ Register
  /\ value' = Empty /\ modified' \in BOOLEAN
  /\ UNCHANGED <<mapVars, tracked, applied, asked>>

(* A map's clipmap is loaded.  CM_LoadMap_Hook (t4) and the link of the     *)
(* clipmap asset (iw4) clear the tracker here.                             *)
LoadMap ==
  /\ phase # "off"
  /\ phase' = "loaded"
  /\ orig' \in SUBSET Brush
  /\ contents' = orig'
  /\ tracked' = IF variant \in {"t4", "iw4"} THEN {} ELSE tracked
  /\ applied' = FALSE
  /\ asked' = {}
  /\ UNCHANGED <<title, dvarOf, dvarVars>>

(* Mutant: the tracker is not cleared for the new map.                     *)
ClientInitKeep ==
  /\ phase = "loaded"
  /\ phase' = "map"
  /\ UNCHANGED <<title, mapVars, tracked, dvarOf, dvarVars, applied, asked>>

(* CG_Init, at which iw3 and qos clear the tracker. *)
ClientInit ==
  /\ phase = "loaded"
  /\ phase' = "map"
  /\ tracked' = IF variant \in {"iw3", "qos"} THEN {} ELSE tracked
  /\ UNCHANGED <<title, mapVars, dvarOf, dvarVars, applied, asked>>

(* The title goes; nobody resets the statics. *)
Terminate ==
  /\ phase # "off"
  /\ phase' = "off"
  /\ orig' = {} /\ contents' = {}
  /\ value' = Empty /\ modified' = FALSE
  /\ applied' = FALSE /\ asked' = {}
  /\ UNCHANGED <<title, tracked, dvarOf>>

-----------------------------------------------------------------------------
(* The dvar *)

SetDvar ==
  /\ phase # "off" /\ variant # "iw5"
  /\ value' \in {v \in Value : v.star => v.list = {}}
  /\ modified' = TRUE
  /\ asked' = {}
  /\ UNCHANGED <<title, phase, mapVars, tracked, dvarOf, applied>>

(* The pointer is to the dvar of the title that runs.  In a later launch    *)
(* of IW4 and QoS it is to whatever the title keeps there now.             *)
Live == dvarOf = title

(* OnCGDrawActive, through the pointer; R_CheckDvarModified resets the flag. *)
ApplyValue ==
  /\ Live /\ modified
  /\ HandleChange(value)
  /\ modified' = FALSE
  /\ applied' = TRUE

(* That memory may say anything to IW4; QoS reads the value by its name.   *)
ApplyOther ==
  /\ ~Live
  /\ \E v \in IF variant = "iw4" THEN Value ELSE {value} : HandleChange(v)
  /\ UNCHANGED <<modified, applied>>

DrawActive ==
  /\ phase = "map" /\ variant # "iw5"
  /\ ApplyValue \/ ApplyOther
  /\ UNCHANGED <<title, phase, orig, dvarOf, value, asked>>

(* Dvar_SetString, through the pointer.                                    *)
SetValue(v) ==
  IF Live THEN value' = v /\ modified' = TRUE ELSE UNCHANGED dvarVars

(* RebuildNoclipBrushesDvar *)
RebuildDvar(S) == [star |-> FALSE, list |-> tracked \cup S]

(* The points of a box, and the brushes that a player shares one with.     *)
Points(box) == box.mins..box.maxs
Meets(z) == {b \in contents : Points(BoxOf(b)) \cap Points(PlayerBox(z)) # {}}

(* qos: DisablePlayerClipOnTouchingBrushes changes the brushes at once. *)
DisableTouching(z) ==
  LET S == {b \in contents : QosTouches(PlayerBox(z), BoxOf(b))}
      after == RemoveCollision(contents, tracked, S) IN
  /\ variant = "qos" /\ phase = "map"
  /\ contents' = after.contents /\ tracked' = after.tracked
  /\ SetValue(RebuildDvar(S))
  /\ asked' = asked \cup Meets(z)
  /\ UNCHANGED <<title, phase, orig, dvarOf, applied>>

(* iw4: DisablePlayerClipOnIntersectingBrushes appends to the value. *)
DisableIntersecting(z) ==
  LET S == {b \in contents : BoundsIntersect(PlayerBox(z), BoxOf(b))} IN
  /\ variant = "iw4" /\ phase = "map"
  /\ S # {}
  /\ SetValue([value EXCEPT !.list = @ \cup S])
  /\ asked' = asked \cup Meets(z)
  /\ UNCHANGED <<title, phase, mapVars, tracked, dvarOf, applied>>

(* iw5: nothing remembers the brushes; they come back with the next map.   *)
DisableBrushCollisionAtOrigin(z) ==
  LET S == {b \in contents : IW5Contains(BoxOf(b), z)} IN
  /\ variant = "iw5" /\ phase # "off" /\ S # {}
  /\ contents' = contents \ S
  /\ asked' = asked \cup {b \in contents : z - 1 \in Points(BoxOf(b))}
  /\ UNCHANGED <<title, phase, orig, tracked, dvarOf, dvarVars, applied>>

-----------------------------------------------------------------------------
Init ==
  /\ variant \in Variants
  /\ title = 0 /\ phase = "off"
  /\ orig = {} /\ contents = {} /\ tracked = {}
  /\ dvarOf = 0
  /\ value = Empty /\ modified = FALSE
  /\ applied = FALSE /\ asked = {}

Next ==
  /\ \/ StartTitle \/ LoadMap \/ ClientInit \/ Terminate
     \/ SetDvar \/ DrawActive
     \/ \E z \in Heights :
          DisableTouching(z) \/ DisableIntersecting(z) \/ DisableBrushCollisionAtOrigin(z)
  /\ UNCHANGED variant

Spec == Init /\ [][Next]_vars

-----------------------------------------------------------------------------
(* Properties *)

TypeOK ==
  /\ variant \in Variants
  /\ title \in 0..MaxTitles /\ dvarOf \in 0..MaxTitles
  /\ phase \in {"off", "menu", "loaded", "map"}
  /\ orig \in SUBSET Brush /\ contents \in SUBSET Brush
  /\ tracked \in SUBSET Brush /\ asked \in SUBSET Brush
  /\ value \in Value
  /\ modified \in BOOLEAN /\ applied \in BOOLEAN

(* The types; in a map, the flags and the tracker together always hold the *)
(* map's original flags: none is lost and none is invented, whatever maps  *)
(* were played before (clipmap.cpp:20-33).                                 *)
OriginalRecoverable ==
  /\ TypeOK
  /\ phase = "map" =>
       LET removed == IF variant = "iw5" THEN asked ELSE tracked IN
       contents \cup removed = orig /\ contents \cap removed = {}

(* IW3 and T4 read the dvar of the title that runs, not one that died with *)
(* an earlier title.                                                       *)
DvarIsLive == variant \in {"iw3", "t4"} /\ phase = "map" => dvarOf = title

(* Brushes that a script had a method disable, which are those the player   *)
(* meets, have no collision once the value was applied (docs/qos.md:64,     *)
(* docs/iw4.md:120): IW4's unless the value was "*".  In a later launch of  *)
(* IW4 and QoS the pointer is stale, and nothing is said of the value.     *)
MethodDisables ==
  Live /\ phase = "map" /\ ~modified =>
    /\ variant = "qos" => asked \cap contents = {}
    /\ variant = "iw4" /\ ~value.star => asked \cap contents = {}

(* Once the value is applied, exactly the brushes it names are without     *)
(* collision: "" is the original map, "*" no collision at all, and a list  *)
(* replaces what an earlier list did (docs/iw3.md:35-38).  IW4's value may *)
(* be "*" with indices after it, which names nothing; of QoS this is said   *)
(* while the pointer is live.                                              *)
Wanted(v) == IF v.star THEN Brush ELSE v.list

ValueIsApplied ==
  /\ DvarIsLive
  /\ MethodDisables
  /\ variant \notin {"iw4", "iw5"} /\ Live /\ phase = "map" /\ applied /\ ~modified =>
       /\ contents = orig \ Wanted(value)
       /\ \A z \in Heights :
            LET there == {b \in orig \ Wanted(value) : z \in Points(BoxOf(b))} IN
            BrushesContainingPoint(z) = there /\ T4BrushesContainingPoint(z) = there

(* The map's own contents can be had back, in any launch, and while the    *)
(* pointer is live the brushes without collision are those of the value.   *)
CollisionFollowsValue == OriginalRecoverable /\ ValueIsApplied
=============================================================================
