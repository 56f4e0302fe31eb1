---------------------------- MODULE CodJumperProofs ----------------------------
(***************************************************************************)
(* Proofs about the tools of the CodJumper mods: brushes without collision *)
(* (BrushCollision), the movement recorder and its helpers                 *)
(* (MovementRecorder), and the mirrored world (DrawHooks).                 *)
(***************************************************************************)
EXTENDS BrushCollision, MovementRecorder, DrawHooks, TLAPS

-----------------------------------------------------------------------------
(* Brushes, for any games, number of brushes and launches. *)

(* Before a client is there nothing was applied, and IW3 and QoS may still *)
(* hold the brushes of an earlier map; with a client the tracker is exact.  *)
Tracked ==
  /\ phase \in {"off", "menu"} => orig = {} /\ contents = {} /\ asked = {}
  /\ phase # "map" => ~applied
  /\ variant # "iw5" /\ phase = "loaded" =>
       contents = orig /\ asked = {} /\ (variant \in {"t4", "iw4"} => tracked = {})
  /\ variant # "iw5" /\ phase = "map" => contents \cup tracked = orig /\ contents \cap tracked = {}
  /\ variant = "iw5" => contents \cup asked = orig /\ contents \cap asked = {}

(* The dvar is one of a launch so far; IW5 has none.                        *)
DvarOfLaunch ==
  /\ dvarOf <= title
  /\ variant \in {"iw3", "t4"} /\ phase # "off" => dvarOf = title
  /\ variant = "iw5" => dvarOf = 0
  /\ phase # "off" => title > 0

(* What a value that was applied has left.                                 *)
Applied ==
  variant \in {"iw3", "t4", "qos"} /\ Live /\ phase = "map" /\ applied /\ ~modified =>
    contents = orig \ Wanted(value)

(* What methods were asked for is in the value, and so survives its next   *)
(* application.                                                            *)
Asked ==
  /\ variant = "qos" /\ Live /\ phase = "map" => asked \subseteq Wanted(value) /\ asked \subseteq tracked
  /\ variant = "iw4" /\ Live => asked \subseteq value.list
  /\ variant = "iw4" /\ Live /\ phase = "map" /\ ~modified /\ ~value.star => asked \cap contents = {}
  /\ variant \in {"iw3", "t4"} => asked = {}

IInv == TypeOK /\ Tracked /\ DvarOfLaunch /\ Applied /\ Asked

LEMMA Boxes ==
  ASSUME NEW b \in Brush
  PROVE  /\ b \in Nat
         /\ BoxOf(b).mins = 4 * b /\ BoxOf(b).maxs = 4 * b + 4
         /\ midPoint(BoxOf(b)) = 4 * b + 2 /\ halfSize(BoxOf(b)) = 2
<1>1. b \in Nat
  BY BrushCollisionAssumption DEF Brush
<1>2. BoxOf(b).mins = 4 * b /\ BoxOf(b).maxs = 4 * b + 4
  BY DEF BoxOf
<1>3. (4 * b + (4 * b + 4)) \div 2 = 4 * b + 2 /\ (4 * b + 4 - 4 * b) \div 2 = 2
  BY <1>1
<1> QED
  BY <1>1, <1>2, <1>3 DEF midPoint, halfSize

LEMMA PlayerBoxes ==
  ASSUME NEW z \in Int
  PROVE  /\ PlayerBox(z).mins = z /\ PlayerBox(z).maxs = z + 2
         /\ midPoint(PlayerBox(z)) = z + 1 /\ halfSize(PlayerBox(z)) = 1
<1>1. PlayerBox(z).mins = z /\ PlayerBox(z).maxs = z + 2
  BY DEF PlayerBox
<1>2. (z + (z + 2)) \div 2 = z + 1 /\ (z + 2 - z) \div 2 = 1
  OBVIOUS
<1> QED
  BY <1>1, <1>2 DEF midPoint, halfSize

(* Each method finds every brush that the player shares a point with.      *)
LEMMA MeetsAreFound ==
  ASSUME NEW z \in Int, NEW b \in Brush
  PROVE  /\ Points(BoxOf(b)) \cap Points(PlayerBox(z)) # {} =>
              QosTouches(PlayerBox(z), BoxOf(b)) /\ BoundsIntersect(PlayerBox(z), BoxOf(b))
         /\ IW5Contains(BoxOf(b), z) <=> z - 1 \in Points(BoxOf(b))
         /\ IsPointInBounds(BoxOf(b), z) <=> z \in Points(BoxOf(b))
<1>1. ASSUME NEW p \in Points(BoxOf(b)) \cap Points(PlayerBox(z))
      PROVE  QosTouches(PlayerBox(z), BoxOf(b)) /\ BoundsIntersect(PlayerBox(z), BoxOf(b))
  <2>1. p \in Int /\ 4 * b <= p /\ p <= 4 * b + 4 /\ z <= p /\ p <= z + 2
    BY Boxes, PlayerBoxes DEF Points
  <2> QED
    BY <2>1, Boxes, PlayerBoxes DEF QosTouches, BoundsIntersect, Distance
<1> QED
  BY <1>1, Boxes DEF IW5Contains, IsPointInBounds, Points

LEMMA InvImplies ==
  ASSUME IInv
  PROVE  CollisionFollowsValue
<1>1. OriginalRecoverable
  BY DEF IInv, OriginalRecoverable, Tracked
<1>2. DvarIsLive
  BY DEF IInv, DvarIsLive, DvarOfLaunch
<1>3. MethodDisables
  BY DEF IInv, MethodDisables, Asked, Tracked
<1>4. ASSUME variant \notin {"iw4", "iw5"}, Live, phase = "map", applied, ~modified
      PROVE  /\ contents = orig \ Wanted(value)
             /\ \A z \in Heights :
                  LET there == {b \in orig \ Wanted(value) : z \in Points(BoxOf(b))} IN
                  BrushesContainingPoint(z) = there /\ T4BrushesContainingPoint(z) = there
  <2>1. contents = orig \ Wanted(value) /\ contents \subseteq Brush
    BY <1>4, BrushCollisionAssumption DEF IInv, Applied, TypeOK
  <2>2. ASSUME NEW z \in Heights
        PROVE  \A b \in contents : IsPointInBounds(BoxOf(b), z) <=> z \in Points(BoxOf(b))
    BY <2>1, MeetsAreFound DEF Heights
  <2> QED
    BY <2>1, <2>2 DEF BrushesContainingPoint, T4BrushesContainingPoint
<1> QED
  BY <1>1, <1>2, <1>3, <1>4 DEF CollisionFollowsValue, ValueIsApplied

(* A title, a map or a client comes or goes.                               *)
LEMMA LifeKeeps ==
  ASSUME IInv, UNCHANGED variant, StartTitle \/ LoadMap \/ ClientInit \/ Terminate
  PROVE  IInv'
<1>1. CASE StartTitle
  <2>1. Empty \in Value
    BY DEF Empty, Value
  <2>2. /\ phase = "off" /\ title < MaxTitles /\ title' = title + 1 /\ phase' = "menu"
        /\ value' = Empty /\ modified' \in BOOLEAN
        /\ UNCHANGED <<mapVars, tracked, applied, asked, variant>>
        /\ dvarOf' \in {title', dvarOf} /\ (variant \in {"iw3", "t4"} => dvarOf' = title')
        /\ (variant = "iw5" => dvarOf' = dvarOf)
    BY <1>1 DEF StartTitle, Register
  <2> QED
    BY <2>1, <2>2, BrushCollisionAssumption
       DEF IInv, TypeOK, Tracked, DvarOfLaunch, Applied, Asked, Live, mapVars
<1>2. CASE LoadMap
  <2>1. /\ phase' = "loaded" /\ orig' \in SUBSET Brush /\ contents' = orig' /\ asked' = {}
        /\ applied' = FALSE /\ tracked' \in {{}, tracked}
        /\ (variant \in {"t4", "iw4"} => tracked' = {})
        /\ UNCHANGED <<title, dvarOf, value, modified, variant>> /\ phase # "off"
    BY <1>2 DEF LoadMap, dvarVars
  <2> QED
    BY <2>1 DEF IInv, TypeOK, Tracked, DvarOfLaunch, Applied, Asked, Live
<1>3. CASE ClientInit
  <2>1. /\ phase = "loaded" /\ phase' = "map"
        /\ tracked' = IF variant \in {"iw3", "qos"} THEN {} ELSE tracked
        /\ UNCHANGED <<title, orig, contents, dvarOf, value, modified, applied, asked, variant>>
    BY <1>3 DEF ClientInit, mapVars, dvarVars
  <2>2. variant \in {"iw3", "t4", "iw4", "qos", "iw5"}
    BY BrushCollisionAssumption DEF IInv, TypeOK
  <2> QED
    BY <2>1, <2>2 DEF IInv, TypeOK, Tracked, DvarOfLaunch, Applied, Asked, Live
<1>4. CASE Terminate
  <2>1. Empty \in Value
    BY DEF Empty, Value
  <2>2. /\ phase' = "off" /\ orig' = {} /\ contents' = {} /\ value' = Empty /\ modified' = FALSE
        /\ applied' = FALSE /\ asked' = {} /\ UNCHANGED <<title, tracked, dvarOf, variant>>
    BY <1>4 DEF Terminate
  <2> QED
    BY <2>1, <2>2 DEF IInv, TypeOK, Tracked, DvarOfLaunch, Applied, Asked, Live
<1> QED
  BY <1>1, <1>2, <1>3, <1>4

LEMMA SetDvarKeeps ==
  ASSUME IInv, UNCHANGED variant, SetDvar
  PROVE  IInv'
<1>1. /\ phase # "off" /\ variant # "iw5" /\ value' \in Value /\ modified' = TRUE /\ asked' = {}
      /\ UNCHANGED <<title, phase, orig, contents, tracked, dvarOf, applied, variant>>
  BY DEF SetDvar, mapVars
<1> QED
  BY <1>1 DEF IInv, TypeOK, Tracked, DvarOfLaunch, Applied, Asked, Live

(* What the four games make of a value, in a map.                          *)
LEMMA ChangeApplies ==
  ASSUME IInv, phase = "map", variant # "iw5", NEW v \in Value, HandleChange(v)
  PROVE  /\ contents' \subseteq Brush /\ tracked' \subseteq Brush
         /\ contents' \cup tracked' = orig /\ contents' \cap tracked' = {}
         /\ variant # "iw4" \/ ~v.star => contents' = orig \ Wanted(v)
<1>1. /\ Restored = orig /\ orig \subseteq Brush /\ contents \subseteq Brush /\ tracked \subseteq Brush
      /\ contents \cup tracked = orig /\ contents \cap tracked = {}
  BY DEF IInv, TypeOK, Tracked, Restored
<1>2. v.list \subseteq Brush \cup {NumBrushes} /\ v.star \in BOOLEAN
  BY DEF Value
<1>3. v = Empty => ~v.star /\ v.list = {}
  BY DEF Empty
<1>4. variant \in {"iw3", "t4", "iw4", "qos"}
  BY BrushCollisionAssumption DEF IInv, TypeOK
<1> DEFINE Exact(r) ==
      /\ r.contents \subseteq Brush /\ r.tracked \subseteq Brush
      /\ r.contents \cup r.tracked = orig /\ r.contents \cap r.tracked = {}
<1>5. Exact(Listed(v)) /\ (~v.star => Listed(v).contents = orig \ Wanted(v))
  BY <1>1, <1>2 DEF Listed, RemoveCollision, ValidIndices, Wanted
<1>6. Exact(Changed(v)) /\ Changed(v).contents = orig \ Wanted(v)
  <2>1. CASE v = Empty
    BY <1>1, <1>3, <2>1 DEF Changed, Wanted
  <2>2. CASE v # Empty /\ v.star
    BY <1>1, <2>2 DEF Changed, RemoveCollision, Wanted
  <2>3. CASE v # Empty /\ ~v.star
    BY <1>5, <2>3 DEF Changed
  <2> QED
    BY <2>1, <2>2, <2>3
<1>7. Exact(QosChanged(v)) /\ QosChanged(v).contents = orig \ Wanted(v)
  <2>1. CASE v.star
    BY <1>1, <2>1 DEF QosChanged, RemoveCollision, Wanted
  <2>2. CASE ~v.star
    BY <1>5, <2>2 DEF QosChanged
  <2> QED
    BY <2>1, <2>2
<1>8. Exact(Iw4Changed(v)) /\ (~v.star => Iw4Changed(v).contents = orig \ Wanted(v))
  BY <1>5, <1>6 DEF Iw4Changed
<1> HIDE DEF Exact
<1>9. PICK r : /\ contents' = r.contents /\ tracked' = r.tracked /\ Exact(r)
               /\ variant # "iw4" \/ ~v.star => r.contents = orig \ Wanted(v)
  BY <1>4, <1>6, <1>7, <1>8 DEF HandleChange, T4Changed
<1> QED
  BY <1>9 DEF Exact

LEMMA DrawActiveKeeps ==
  ASSUME IInv, UNCHANGED variant, DrawActive
  PROVE  IInv'
<1>1. /\ phase = "map" /\ variant # "iw5"
      /\ ApplyValue \/ ApplyOther
      /\ UNCHANGED <<title, phase, orig, dvarOf, value, asked, variant>>
  BY DEF DrawActive
<1>2. value \in Value /\ (Live' <=> Live)
  BY <1>1 DEF IInv, TypeOK, Live
<1> DEFINE Exact ==
      /\ contents' \subseteq Brush /\ tracked' \subseteq Brush
      /\ contents' \cup tracked' = orig /\ contents' \cap tracked' = {}
<1>3. CASE ApplyValue
  <2>1. modified' = FALSE /\ applied' = TRUE /\ HandleChange(value)
    BY <1>3 DEF ApplyValue
  <2>2. Exact /\ (variant # "iw4" \/ ~value.star => contents' = orig \ Wanted(value))
    BY <1>1, <1>2, <2>1, ChangeApplies
  <2>3. TypeOK' /\ Tracked' /\ DvarOfLaunch' /\ Applied'
    BY <1>1, <2>1, <2>2 DEF IInv, TypeOK, Tracked, DvarOfLaunch, Applied, Wanted
  <2>4. Asked'
    BY <1>1, <1>2, <2>1, <2>2 DEF IInv, TypeOK, Tracked, Asked, Wanted
  <2> QED
    BY <2>3, <2>4 DEF IInv
<1>4. CASE ApplyOther
  <2>1. ~Live /\ UNCHANGED <<modified, applied>>
    BY <1>4 DEF ApplyOther
  <2>2. PICK v \in Value : HandleChange(v)
    BY <1>2, <1>4 DEF ApplyOther
  <2>3. Exact
    BY <1>1, <2>2, ChangeApplies
  <2>4. TypeOK' /\ Tracked' /\ DvarOfLaunch'
    BY <1>1, <2>1, <2>3 DEF IInv, TypeOK, Tracked, DvarOfLaunch
  <2>5. Applied' /\ Asked'
    BY <1>1, <1>2, <2>1 DEF IInv, Applied, Asked
  <2> QED
    BY <2>4, <2>5 DEF IInv
<1> QED
  BY <1>1, <1>3, <1>4

LEMMA DisableTouchingKeeps ==
  ASSUME IInv, UNCHANGED variant, NEW z \in Heights, DisableTouching(z)
  PROVE  IInv'
<1> DEFINE S == {b \in contents : QosTouches(PlayerBox(z), BoxOf(b))}
<1>1. /\ variant = "qos" /\ phase = "map"
      /\ contents' = contents \ S /\ tracked' = tracked \cup (S \cap contents) \cup (S \ Brush)
      /\ SetValue([star |-> FALSE, list |-> tracked \cup S])
      /\ asked' = asked \cup Meets(z)
      /\ UNCHANGED <<title, phase, orig, dvarOf, applied, variant>>
  BY DEF DisableTouching, RemoveCollision, RebuildDvar
<1>2. S \subseteq contents /\ contents \subseteq Brush
  BY DEF IInv, TypeOK
<1>3. Meets(z) \subseteq S
  BY <1>2, MeetsAreFound DEF Meets, Heights
<1> HIDE DEF S
<1>4. /\ value' \in Value /\ modified' \in BOOLEAN /\ (Live' <=> Live)
      /\ Live => modified' = TRUE /\ value'.list = tracked \cup S /\ ~value'.star
  <2>1. CASE Live
    <3>1. value' = [star |-> FALSE, list |-> tracked \cup S] /\ modified' = TRUE
      BY <1>1, <2>1 DEF SetValue
    <3> QED
      BY <1>1, <1>2, <2>1, <3>1 DEF Value, Live, IInv, TypeOK
  <2>2. CASE ~Live
    <3>1. value' = value /\ modified' = modified
      BY <1>1, <2>2 DEF SetValue, dvarVars
    <3> QED
      BY <1>1, <2>2, <3>1 DEF IInv, TypeOK, Live
  <2> QED
    BY <2>1, <2>2
<1>5. tracked' = tracked \cup S
  BY <1>1, <1>2
<1>6. TypeOK' /\ Tracked' /\ DvarOfLaunch' /\ Applied'
  BY <1>1, <1>2, <1>3, <1>4, <1>5 DEF IInv, TypeOK, Tracked, DvarOfLaunch, Applied
<1>7. Asked'
  BY <1>1, <1>3, <1>4, <1>5 DEF IInv, Asked, Wanted
<1> QED
  BY <1>6, <1>7 DEF IInv

LEMMA DisableIntersectingKeeps ==
  ASSUME IInv, UNCHANGED variant, NEW z \in Heights, DisableIntersecting(z)
  PROVE  IInv'
<1> DEFINE S == {b \in contents : BoundsIntersect(PlayerBox(z), BoxOf(b))}
<1>1. /\ variant = "iw4" /\ phase = "map"
      /\ SetValue([value EXCEPT !.list = value.list \cup S])
      /\ asked' = asked \cup Meets(z)
      /\ UNCHANGED <<title, phase, orig, contents, tracked, dvarOf, applied, variant>>
  BY DEF DisableIntersecting, mapVars
<1>2. S \subseteq contents /\ contents \subseteq Brush
  BY DEF IInv, TypeOK
<1>3. Meets(z) \subseteq S
  BY <1>2, MeetsAreFound DEF Meets, Heights
<1> HIDE DEF S
<1>4. /\ value' \in Value /\ modified' \in BOOLEAN /\ (Live' <=> Live)
      /\ Live => modified' = TRUE /\ value'.list = value.list \cup S
  <2>1. CASE Live
    <3>1. value' = [value EXCEPT !.list = value.list \cup S] /\ modified' = TRUE
      BY <1>1, <2>1 DEF SetValue
    <3> QED
      BY <1>1, <1>2, <2>1, <3>1 DEF Value, Live, IInv, TypeOK
  <2>2. CASE ~Live
    <3>1. value' = value /\ modified' = modified
      BY <1>1, <2>2 DEF SetValue, dvarVars
    <3> QED
      BY <1>1, <2>2, <3>1 DEF IInv, TypeOK, Live
  <2> QED
    BY <2>1, <2>2
<1>5. TypeOK' /\ Tracked' /\ DvarOfLaunch' /\ Applied'
  BY <1>1, <1>2, <1>3, <1>4 DEF IInv, TypeOK, Tracked, DvarOfLaunch, Applied
<1>6. Asked'
  BY <1>1, <1>3, <1>4 DEF IInv, Asked
<1> QED
  BY <1>5, <1>6 DEF IInv

LEMMA DisableAtOriginKeeps ==
  ASSUME IInv, UNCHANGED variant, NEW z \in Heights, DisableBrushCollisionAtOrigin(z)
  PROVE  IInv'
<1> DEFINE S == {b \in contents : IW5Contains(BoxOf(b), z)}
<1>1. /\ variant = "iw5" /\ phase # "off" /\ contents' = contents \ S
      /\ asked' = asked \cup {b \in contents : z - 1 \in Points(BoxOf(b))}
      /\ UNCHANGED <<title, phase, orig, tracked, dvarOf, value, modified, applied, variant>>
      /\ S # {}
  BY DEF DisableBrushCollisionAtOrigin, dvarVars
<1>2. contents \subseteq Brush
  BY DEF IInv, TypeOK
<1>3. {b \in contents : z - 1 \in Points(BoxOf(b))} = S
  BY <1>2, MeetsAreFound DEF Heights
<1>4. S \subseteq contents
  OBVIOUS
<1> HIDE DEF S
<1> QED
  BY <1>1, <1>2, <1>3, <1>4 DEF IInv, TypeOK, Tracked, DvarOfLaunch, Applied, Asked, Live

(* In any of the games, for any number of brushes and launches: the flags  *)
(* of a map are never lost, and those in force are what the value says.    *)
THEOREM CollisionIsTheValues == Spec => []CollisionFollowsValue
<1>1. Init => IInv
  <2> SUFFICES ASSUME Init
               PROVE  IInv
    OBVIOUS
  <2>1. Empty \in Value
    BY DEF Empty, Value
  <2>2. 0 \in 0..MaxTitles
    BY BrushCollisionAssumption
  <2>3. TypeOK
    BY <2>1, <2>2 DEF Init, TypeOK
  <2>4. Tracked /\ DvarOfLaunch /\ Applied /\ Asked
    BY DEF Init, Tracked, DvarOfLaunch, Applied, Asked, Live
  <2> QED
    BY <2>3, <2>4 DEF IInv
<1>2. IInv /\ [Next]_vars => IInv'
  <2> SUFFICES ASSUME IInv, [Next]_vars
               PROVE  IInv'
    OBVIOUS
  <2>1. CASE UNCHANGED vars
    BY <2>1 DEF vars, mapVars, dvarVars, IInv, TypeOK, Tracked, DvarOfLaunch, Applied, Asked, Wanted, Live
  <2>2. CASE Next
    <3>1. UNCHANGED variant
      BY <2>2 DEF Next
    <3>2. CASE StartTitle \/ LoadMap \/ ClientInit \/ Terminate
      BY <3>1, <3>2, LifeKeeps
    <3>3. CASE SetDvar \/ DrawActive
      BY <3>1, <3>3, SetDvarKeeps, DrawActiveKeeps
    <3>4. ASSUME NEW z \in Heights,
                 DisableTouching(z) \/ DisableIntersecting(z) \/ DisableBrushCollisionAtOrigin(z)
          PROVE  IInv'
      BY <3>1, <3>4, DisableTouchingKeeps, DisableIntersectingKeeps, DisableAtOriginKeeps
    <3> QED
      BY <2>2, <3>2, <3>3, <3>4 DEF Next
  <2> QED
    BY <2>1, <2>2
<1>3. IInv => CollisionFollowsValue
  BY InvImplies
<1> QED
  BY <1>1, <1>2, <1>3, PTL DEF Spec
-----------------------------------------------------------------------------
(* The movement recorder, for any length of a session in which the player  *)
(* waits: no recording is started during a playback. *)

(* A take holds the views of earlier frames as they are to be replayed.    *)
TakeAsSeen ==
  \A i \in DOMAIN take : take[i].at <= time /\ take[i].view = Kept(take[i].looked)

(* Nothing is replayed unless a playback runs, and none was taken over     *)
(* during the take that is recorded or played now.                         *)
Idle ==
  /\ ~playing => frame = 0
  /\ recording \/ playing => takenOver = NotTaken

(* What a playback has sent are the first commands of the take, each moved  *)
(* in time by as much as the first.                                        *)
SentSoFar ==
  playing =>
    /\ take # <<>> /\ takeStart = take[1].at
    /\ Len(sent) = frame
    /\ playStart = 0 <=> sent = <<>>
    /\ playStart # 0 => playStart > take[Len(take)].at
    /\ \A i \in DOMAIN sent :
         /\ sent[i].at = playStart + take[i].at - takeStart
         /\ sent[i].view = IF sent[i].helped THEN LookedDown ELSE take[i].view

(* Each is sent once.                                                      *)
InOrder ==
  /\ sent \in Seq([of : Nat, at : Int, view : 0..Turn-1, helped : BOOLEAN])
  /\ \A i \in DOMAIN sent : sent[i].of = i

(* While a helper looks away, one that gives the view back is on.          *)
HelperStaysOn == resetDue => Enabled(helpers, FALSE)

TakeInv ==
  /\ recorderTitle \in {"iw3", "iw4"}
  /\ RecorderTypeOK /\ RecordThenPlay /\ TakeOverContinues
  /\ TakeAsSeen /\ Idle /\ SentSoFar /\ InOrder

HelperInv == ViewComesBack /\ HelperStaysOn

RecorderInv == TakeInv /\ HelperInv

(* A view turned back and forth is itself.                                 *)
LEMMA TurnedBack ==
  ASSUME NEW v \in 0..Turn-1, NEW t \in {0, 1}
  PROVE  (v - t) % Turn \in 0..Turn-1 /\ (((v - t) % Turn) + t) % Turn = v
BY DEF Turn

(* What is captured of a frame is what is to be replayed of it.            *)
LEMMA CapturedAsSeen ==
  ASSUME NEW view \in 0..Turn-1, turned \in {0, 1}
  PROVE  /\ CapturedView(view) = Kept(World(view)) /\ CapturedView(view) \in 0..Turn-1
         /\ World(view) \in 0..Turn-1
<1>1. World(view) \in 0..Turn-1
  BY DEF World, Turn
<1>2. Turn = 4 /\ Turn \div 2 = 2 /\ MaxPitchDown = 0
  BY DEF Turn, MaxPitchDown
<1>3. CASE recorderTitle = "iw4"
  BY <1>1, <1>2, <1>3 DEF CapturedView, Kept, Iw4CapturedView, Signed
<1>4. CASE recorderTitle # "iw4"
  BY <1>1, <1>4 DEF CapturedView, Kept
<1> QED
  BY <1>1, <1>3, <1>4

(* The types of the recorder and of the helpers.                           *)
TakeTyped ==
  /\ time \in Nat /\ turned \in {0, 1} /\ takeStart \in Nat /\ playStart \in Nat
  /\ recording \in BOOLEAN /\ playing \in BOOLEAN
  /\ take \in Seq([at : 1..MaxTime, view : 0..Turn-1, looked : 0..Turn-1])
  /\ frame \in 0..Len(take)
HelperTyped ==
  /\ helpers \subseteq Helpers /\ resetDue \in BOOLEAN
  /\ {aim, saved, playersAim} \subseteq 0..Turn-1

LEMMA TypesApart == RecorderTypeOK <=> TakeTyped /\ HelperTyped
BY DEF RecorderTypeOK, TakeTyped, HelperTyped

LEMMA TypesApartNext == RecorderTypeOK' <=> TakeTyped' /\ HelperTyped'
BY DEF RecorderTypeOK, TakeTyped, HelperTyped

(* What a step of the recorder has to keep, apart from the helpers.        *)
TakeRest == RecordThenPlay /\ TakeOverContinues /\ TakeAsSeen /\ Idle /\ SentSoFar /\ InOrder

LEMMA StepOfRecorder ==
  ASSUME TakeInv, UNCHANGED recorderTitle, HelperTyped', TakeTyped', TakeRest'
  PROVE  TakeInv'
BY TypesApartNext DEF TakeInv, TakeRest

(* What is in a take.                                                      *)
LEMMA TakeHolds ==
  ASSUME TakeTyped
  PROVE  /\ Len(take) \in Nat /\ DOMAIN take = 1..Len(take)
         /\ \A i \in DOMAIN take :
              /\ take[i] \in [at : 1..MaxTime, view : 0..Turn-1, looked : 0..Turn-1]
              /\ take[i].at \in Nat /\ take[i].view \in 0..Turn-1
<1> DEFINE Entries == [at : 1..MaxTime, view : 0..Turn-1, looked : 0..Turn-1]
<1>1. take \in Seq(Entries)
  BY DEF TakeTyped
<1>2. \A e \in Entries : e.at \in Nat /\ e.view \in 0..Turn-1
  BY MovementRecorderAssumption
<1> HIDE DEF Entries
<1>3. Len(take) \in Nat /\ DOMAIN take = 1..Len(take) /\ \A i \in DOMAIN take : take[i] \in Entries
  BY <1>1
<1>4. \A i \in DOMAIN take : take[i].at \in Nat /\ take[i].view \in 0..Turn-1
  BY <1>2, <1>3
<1> QED
  BY <1>3, <1>4 DEF Entries

LEMMA StartRecordKeeps ==
  ASSUME TakeInv, PlayerWaits, StartRecord, UNCHANGED recorderTitle, HelperTyped'
  PROVE  TakeInv'
<1> USE DEF StartRecord
<1>1. TakeTyped
  BY TypesApart DEF TakeInv
<1>2. <<>> \in Seq([at : 1..MaxTime, view : 0..Turn-1, looked : 0..Turn-1])
  OBVIOUS
<1>3. frame = 0
  BY DEF TakeInv, Idle
<1>4. TakeTyped'
  BY <1>1, <1>2, <1>3 DEF TakeTyped
<1>5. TakeRest'
  BY DEF TakeInv, TakeRest, RecordThenPlay, TakeOverContinues, TakeAsSeen, Idle, SentSoFar, InOrder
<1> QED
  BY <1>4, <1>5, StepOfRecorder

LEMMA StopRecordKeeps ==
  ASSUME TakeInv, StopRecord, UNCHANGED recorderTitle, HelperTyped'
  PROVE  TakeInv'
<1> USE DEF StopRecord
<1>1. TakeTyped'
  BY TypesApart DEF TakeInv, TakeTyped
<1>2. TakeRest'
  BY DEF TakeInv, TakeRest, RecordThenPlay, TakeOverContinues, TakeAsSeen, Kept, Idle, SentSoFar, InOrder
<1> QED
  BY <1>1, <1>2, StepOfRecorder

LEMMA StartPlaybackKeeps ==
  ASSUME TakeInv, StartPlayback, UNCHANGED recorderTitle, HelperTyped'
  PROVE  TakeInv'
<1> USE DEF StartPlayback
<1>1. TakeTyped
  BY TypesApart DEF TakeInv
<1>2. Len(take) \in Nat /\ 1 \in DOMAIN take
  BY <1>1, TakeHolds
<1>3. take[1].at \in Nat
  BY <1>1, <1>2, TakeHolds
<1>4. TakeTyped'
  BY <1>1, <1>2, <1>3 DEF TakeTyped
<1>5. <<>> \in Seq([of : Nat, at : Int, view : 0..Turn-1, helped : BOOLEAN]) /\ DOMAIN <<>> = {} /\ Len(<<>>) = 0
  OBVIOUS
<1>6. InOrder' /\ SentSoFar'
  BY <1>5 DEF InOrder, SentSoFar
<1>7. TakeRest'
  BY <1>6 DEF TakeInv, TakeRest, RecordThenPlay, TakeOverContinues, TakeAsSeen, Kept, Idle
<1> QED
  BY <1>4, <1>7, StepOfRecorder

LEMMA EndIsTyped ==
  ASSUME TakeTyped, EndPlayback, UNCHANGED take
  PROVE  frame' \in 0..Len(take') /\ playing' \in BOOLEAN
<1>1. 0 \in 0..Len(take)
  BY TakeHolds
<1>2. frame' \in 0..Len(take')
  BY <1>1 DEF EndPlayback
<1>3. playing' \in BOOLEAN
  BY DEF EndPlayback
<1> QED
  BY <1>2, <1>3

LEMMA StopPlaybackKeeps ==
  ASSUME TakeInv, StopPlayback, UNCHANGED recorderTitle, HelperTyped'
  PROVE  TakeInv'
<1> USE DEF StopPlayback
<1>1. TakeTyped
  BY TypesApart DEF TakeInv
<1>2. TakeTyped'
  BY <1>1, EndIsTyped DEF TakeTyped
<1>3. TakeRest'
  BY DEF EndPlayback, TakeInv, TakeRest, RecordThenPlay, TakeOverContinues, TakeAsSeen, Kept, Idle, SentSoFar, InOrder
<1> QED
  BY <1>2, <1>3, StepOfRecorder

LEMMA TurnPlayerKeeps ==
  ASSUME TakeInv, TurnPlayer, UNCHANGED recorderTitle, HelperTyped'
  PROVE  TakeInv'
<1> USE DEF TurnPlayer
<1>1. TakeTyped'
  BY TypesApart DEF TakeInv, TakeTyped
<1>2. TakeRest'
  BY DEF TakeInv, TakeRest, RecordThenPlay, TakeOverContinues, TakeAsSeen, Kept, Idle, SentSoFar, InOrder
<1> QED
  BY <1>1, <1>2, StepOfRecorder

(* A frame adds to the take what it sees, while one is recorded.           *)
LEMMA FrameCaptures ==
  ASSUME TakeInv, NEW now \in Nat, now > time, now <= MaxTime, NEW view \in 0..Turn-1,
         time' = now, take' = Captured(now, view), UNCHANGED recorderTitle
  PROVE  /\ take' \in Seq([at : 1..MaxTime, view : 0..Turn-1, looked : 0..Turn-1])
         /\ Len(take) <= Len(take') /\ (~recording => take' = take)
         /\ TakeAsSeen'
<1> DEFINE Entry == [at |-> now, view |-> CapturedView(view), looked |-> World(view)]
<1>1. TakeTyped
  BY TypesApart DEF TakeInv
<1>2. time \in Nat /\ turned \in {0, 1} /\ now \in 1..MaxTime
  BY <1>1, MovementRecorderAssumption DEF TakeTyped
<1>3. /\ CapturedView(view) = Kept(World(view)) /\ CapturedView(view) \in 0..Turn-1
      /\ World(view) \in 0..Turn-1
  BY <1>2, CapturedAsSeen
<1>4. Entry \in [at : 1..MaxTime, view : 0..Turn-1, looked : 0..Turn-1] /\ Entry.at = now /\ Entry.view = Kept(Entry.looked)
  BY <1>2, <1>3
<1> HIDE DEF Entry
<1>5. \A i \in DOMAIN take : take[i].at \in Nat
  BY <1>1, TakeHolds
<1>6. \A looked : Kept(looked)' = Kept(looked)
  BY DEF Kept
<1>7. CASE recording
  <2>1. take' = Append(take, Entry)
    BY <1>7 DEF Captured, Entry
  <2>2. /\ Len(take') = Len(take) + 1 /\ take' \in Seq([at : 1..MaxTime, view : 0..Turn-1, looked : 0..Turn-1])
        /\ \A i \in DOMAIN take' : take'[i] = IF i \in DOMAIN take THEN take[i] ELSE Entry
    BY <2>1, <1>1, <1>4 DEF TakeTyped
  <2>3. \A i \in DOMAIN take : take[i].at <= now /\ take[i].view = Kept(take[i].looked)
    BY <1>2, <1>5 DEF TakeInv, TakeAsSeen
  <2>4. TakeAsSeen'
    <3> SUFFICES ASSUME NEW i \in DOMAIN take'
                 PROVE  take'[i].at <= now /\ take'[i].view = Kept(take'[i].looked)
      BY <1>6 DEF TakeAsSeen
    <3>1. CASE i \in DOMAIN take
      <4>1. take'[i] = take[i]
        BY <2>2, <3>1
      <4> QED
        BY <4>1, <2>3, <3>1
    <3>2. CASE i \notin DOMAIN take
      <4>1. take'[i] = Entry
        BY <2>2, <3>2
      <4> QED
        BY <4>1, <1>4
    <3> QED
      BY <3>1, <3>2
  <2> QED
    BY <2>2, <2>4, <1>1, <1>7 DEF TakeTyped
<1>8. CASE ~recording
  <2>1. take' = take
    BY <1>8 DEF Captured
  <2>2. TakeAsSeen'
    <3> SUFFICES ASSUME NEW i \in DOMAIN take
                 PROVE  take[i].at <= now /\ take[i].view = Kept(take[i].looked)
      BY <1>6, <2>1 DEF TakeAsSeen
    <3> QED
      BY <1>2, <1>5 DEF TakeInv, TakeAsSeen
  <2> QED
    BY <2>1, <2>2, <1>1 DEF TakeTyped
<1> QED
  BY <1>1, <1>7, <1>8 DEF TakeTyped

LEMMA FrameWithoutPlaybackKeeps ==
  ASSUME TakeInv, ~playing, NEW now \in Nat, now > time, now <= MaxTime, NEW view \in 0..Turn-1,
         time' = now, take' = Captured(now, view),
         UNCHANGED <<frame, playing, playStart, sent, takenOver, recording, takeStart, turned>>,
         UNCHANGED recorderTitle, HelperTyped'
  PROVE  TakeInv'
<1>1. TakeTyped
  BY TypesApart DEF TakeInv
<1>2. /\ take' \in Seq([at : 1..MaxTime, view : 0..Turn-1, looked : 0..Turn-1])
      /\ Len(take) <= Len(take') /\ (~recording => take' = take)
      /\ TakeAsSeen'
  BY FrameCaptures
<1>3. Len(take) \in Nat /\ Len(take') \in Nat
  BY <1>1, <1>2 DEF TakeTyped
<1>4. TakeTyped'
  BY <1>1, <1>2, <1>3 DEF TakeTyped
<1>5. TakeRest'
  BY <1>2 DEF TakeInv, TakeRest, RecordThenPlay, TakeOverContinues, Idle, SentSoFar, InOrder
<1> QED
  BY <1>4, <1>5, StepOfRecorder

(* A frame of a playback: it is over, the player takes over, or a command  *)
(* is sent.                                                                *)
PlaybackFrame(now) ==
  /\ playing /\ now > time /\ now <= MaxTime
  /\ time' = now /\ UNCHANGED <<take, recording, takeStart, turned>>
  /\ UNCHANGED recorderTitle /\ HelperTyped'

LEMMA PlaybackIsTyped ==
  ASSUME TakeInv, NEW now \in Nat, PlaybackFrame(now)
  PROVE  /\ TakeTyped /\ ~recording /\ TakeAsSeen'
         /\ turned \in {0, 1} /\ time \in Nat /\ takeStart \in Nat /\ playStart \in Nat /\ frame \in Nat
         /\ Len(take) \in Nat \ {0} /\ DOMAIN take = 1..Len(take)
         /\ \A i \in DOMAIN take : take[i].at \in Nat /\ take[i].at <= time /\ take[i].view \in 0..Turn-1
<1>1. TakeTyped /\ ~recording
  BY TypesApart DEF TakeInv, RecordThenPlay, PlaybackFrame
<1>2. /\ Len(take) \in Nat /\ DOMAIN take = 1..Len(take)
      /\ \A i \in DOMAIN take : take[i].at \in Nat /\ take[i].view \in 0..Turn-1
  BY <1>1, TakeHolds
<1>3. take # <<>>
  BY DEF TakeInv, SentSoFar, PlaybackFrame
<1>4. Len(take) # 0
  BY <1>1, <1>3 DEF TakeTyped
<1>5. time \in Nat /\ turned \in {0, 1} /\ takeStart \in Nat /\ playStart \in Nat /\ frame \in Nat
  BY <1>1, <1>2 DEF TakeTyped
<1>6. \A i \in DOMAIN take : take[i].at <= time /\ take[i].view = Kept(take[i].looked)
  BY DEF TakeInv, TakeAsSeen
<1>7. \A i \in DOMAIN take : take[i].at <= now
  BY <1>2, <1>5, <1>6 DEF PlaybackFrame
<1>8. TakeAsSeen'
  BY <1>6, <1>7 DEF TakeAsSeen, Kept, PlaybackFrame
<1> QED
  BY <1>1, <1>2, <1>4, <1>5, <1>6, <1>8

LEMMA ReplayEndKeeps ==
  ASSUME TakeInv, NEW now \in Nat, PlaybackFrame(now), EndPlayback, UNCHANGED <<playStart, sent, takenOver>>
  PROVE  TakeInv'
<1>1. TakeTyped /\ ~recording /\ TakeAsSeen' /\ Len(take) \in Nat
  BY PlaybackIsTyped
<1>2. TakeTyped'
  BY <1>1, EndIsTyped DEF TakeTyped, PlaybackFrame
<1>3. TakeRest'
  BY <1>1 DEF EndPlayback, TakeInv, TakeRest, RecordThenPlay, TakeOverContinues, Idle, SentSoFar, InOrder, PlaybackFrame
<1> QED
  BY <1>2, <1>3, StepOfRecorder DEF PlaybackFrame

(* What a frame of a playback replays: a command of the take, at its time. *)
LEMMA ReplayedIsRecorded ==
  ASSUME TakeInv, NEW now \in Nat, PlaybackFrame(now), frame < Len(take),
         NEW start, start = IF playStart = 0 THEN now ELSE playStart
  PROVE  /\ frame + 1 \in DOMAIN take
         /\ start \in Nat \ {0} /\ start > take[Len(take)].at
         /\ ReplayedAt(now, take) = start + take[frame + 1].at - takeStart
         /\ ReplayedAt(now, take) \in Int
         /\ World(ReplayedView(take)) = take[frame + 1].view
<1>1. /\ turned \in {0, 1} /\ time \in Nat /\ takeStart \in Nat /\ playStart \in Nat /\ frame \in Nat
      /\ Len(take) \in Nat \ {0} /\ DOMAIN take = 1..Len(take)
      /\ \A i \in DOMAIN take : take[i].at \in Nat /\ take[i].at <= time /\ take[i].view \in 0..Turn-1
  BY PlaybackIsTyped
<1>2. frame + 1 \in DOMAIN take /\ Len(take) \in DOMAIN take
  BY <1>1
<1>3. playStart # 0 => playStart > take[Len(take)].at
  BY DEF TakeInv, SentSoFar, PlaybackFrame
<1>4. start \in Nat \ {0} /\ start > take[Len(take)].at
  BY <1>1, <1>2, <1>3 DEF PlaybackFrame
<1>5. ReplayedAt(now, take) = start + take[frame + 1].at - takeStart
  BY DEF ReplayedAt
<1>6. ReplayedAt(now, take) \in Int
  BY <1>1, <1>2, <1>4, <1>5
<1>7. World(ReplayedView(take)) = take[frame + 1].view
  BY <1>1, <1>2, TurnedBack DEF ReplayedView, World
<1> QED
  BY <1>2, <1>4, <1>5, <1>6, <1>7

LEMMA TakeOverKeeps ==
  ASSUME TakeInv, NEW now \in Nat, PlaybackFrame(now), frame < Len(take),
         playStart' = (IF playStart = 0 THEN now ELSE playStart), EndPlayback, UNCHANGED sent,
         NEW view, TakeOver(now, view, take)
  PROVE  TakeInv'
<1> DEFINE start == IF playStart = 0 THEN now ELSE playStart
<1>1. /\ TakeTyped /\ ~recording /\ TakeAsSeen' /\ turned \in {0, 1} /\ Len(take) \in Nat
      /\ Len(take) \in Nat \ {0} /\ DOMAIN take = 1..Len(take)
      /\ frame \in Nat /\ takeStart \in Nat
      /\ \A i \in DOMAIN take : take[i].at \in Nat
  BY PlaybackIsTyped
<1>2. /\ start \in Nat \ {0} /\ ReplayedAt(now, take) = start + take[frame + 1].at - takeStart
      /\ World(ReplayedView(take)) = take[frame + 1].view
      /\ frame + 1 \in DOMAIN take
  BY ReplayedIsRecorded
<1>3. TakeTyped'
  <2>1. playStart' \in Nat
    BY <1>2
  <2> QED
    BY <1>1, <2>1, EndIsTyped DEF TakeTyped, PlaybackFrame
<1>4. /\ Len(sent) = frame /\ takeStart = take[1].at
      /\ playStart = 0 <=> sent = <<>>
      /\ \A i \in DOMAIN sent : sent[i].at = playStart + take[i].at - takeStart
  BY DEF TakeInv, SentSoFar, PlaybackFrame
<1>5. sent \in Seq([of : Nat, at : Int, view : 0..Turn-1, helped : BOOLEAN])
  BY DEF TakeInv, InOrder
<1>6. (IF sent = <<>> THEN now ELSE sent[1].at) = start
  <2>1. CASE sent = <<>>
    BY <2>1, <1>4
  <2>2. CASE sent # <<>>
    <3>1. 1 \in DOMAIN sent /\ playStart # 0
      BY <2>2, <1>4, <1>5
    <3>2. sent[1].at = playStart + take[1].at - takeStart /\ take[1].at \in Nat /\ playStart \in Nat
      BY <3>1, <1>1, <1>4 DEF TakeTyped
    <3> QED
      BY <2>2, <3>1, <3>2, <1>4
  <2> QED
    BY <2>1, <2>2
<1>7. LeftView(view, take, TRUE) = IF recorderTitle = "iw3" THEN ReplayedView(take) ELSE view
  BY DEF LeftView, PlaybackFrame
<1>8. TakeOverContinues'
  <2>1. CASE recorderTitle = "iw3"
    <3>1. takenOver' = [made |-> now, looked |-> World(view), at |-> ReplayedAt(now, take),
                        left |-> World(ReplayedView(take))]
      BY <2>1, <1>7 DEF TakeOver
    <3>2. /\ takenOver'.made = now /\ takenOver'.left = take[frame + 1].view
          /\ takenOver'.at = start + take[frame + 1].at - take[1].at
      BY <3>1, <1>2, <1>4
    <3> QED
      BY <2>1, <3>2, <1>4, <1>6 DEF TakeOverContinues, PlaybackFrame
  <2>2. CASE recorderTitle # "iw3"
    <3>1. takenOver' = [made |-> now, looked |-> World(view), at |-> now, left |-> World(view)]
      BY <2>2, <1>7 DEF TakeOver
    <3> QED
      BY <2>2, <3>1 DEF TakeOverContinues, PlaybackFrame
  <2> QED
    BY <2>1, <2>2
<1>9. TakeRest'
  BY <1>1, <1>8 DEF TakeInv, TakeRest, RecordThenPlay, Idle, SentSoFar, InOrder, PlaybackFrame, EndPlayback
<1> QED
  BY <1>3, <1>9, StepOfRecorder DEF PlaybackFrame

LEMMA SendCommandKeeps ==
  ASSUME TakeInv, NEW now \in Nat, PlaybackFrame(now), frame < Len(take),
         playStart' = (IF playStart = 0 THEN now ELSE playStart),
         NEW down \in BOOLEAN, SendCommand(now, take, down)
  PROVE  TakeInv'
<1> DEFINE start == IF playStart = 0 THEN now ELSE playStart
           Command == [of |-> frame + 1, at |-> ReplayedAt(now, take),
                       view |-> World(IF down THEN DownView ELSE ReplayedView(take)), helped |-> down]
           Commands == [of : Nat, at : Int, view : 0..Turn-1, helped : BOOLEAN]
<1>1. /\ TakeTyped /\ ~recording /\ TakeAsSeen' /\ turned \in {0, 1}
      /\ Len(take) \in Nat \ {0} /\ DOMAIN take = 1..Len(take)
      /\ frame \in Nat /\ takeStart \in Nat /\ playStart \in Nat
      /\ \A i \in DOMAIN take : take[i].at \in Nat /\ take[i].view \in 0..Turn-1
  BY PlaybackIsTyped
<1>2. /\ frame + 1 \in DOMAIN take
      /\ start \in Nat \ {0} /\ start > take[Len(take)].at
      /\ ReplayedAt(now, take) = start + take[frame + 1].at - takeStart
      /\ ReplayedAt(now, take) \in Int
      /\ World(ReplayedView(take)) = take[frame + 1].view
  BY ReplayedIsRecorded
<1>3. /\ take # <<>> /\ takeStart = take[1].at
      /\ Len(sent) = frame
      /\ playStart = 0 <=> sent = <<>>
      /\ \A i \in DOMAIN sent :
           /\ sent[i].at = playStart + take[i].at - takeStart
           /\ sent[i].view = IF sent[i].helped THEN LookedDown ELSE take[i].view
  BY DEF TakeInv, SentSoFar, PlaybackFrame
<1>4. sent \in Seq(Commands) /\ \A i \in DOMAIN sent : sent[i].of = i
  BY DEF TakeInv, InOrder
<1>5. /\ Command \in Commands
      /\ Command.of = frame + 1
      /\ Command.view = IF Command.helped THEN LookedDown ELSE take[frame + 1].view
      /\ Command.at = start + take[frame + 1].at - takeStart
  <2>1. World(DownView) = LookedDown /\ LookedDown \in 0..Turn-1
    BY <1>1 DEF World, DownView, LookedDown, Turn
  <2>2. World(IF down THEN DownView ELSE ReplayedView(take)) = IF down THEN LookedDown ELSE take[frame + 1].view
    BY <2>1, <1>2
  <2> QED
    BY <2>1, <2>2, <1>1, <1>2
<1>6. sent' = Append(sent, Command) /\ frame' = frame + 1 /\ UNCHANGED <<playing, takenOver>>
  BY DEF SendCommand
<1> HIDE DEF Command, Commands
<1>7. /\ sent' \in Seq(Commands) /\ Len(sent') = frame + 1 /\ sent' # <<>>
      /\ DOMAIN sent' = 1..frame + 1 /\ DOMAIN sent = 1..frame
      /\ \A i \in DOMAIN sent' : sent'[i] = IF i \in DOMAIN sent THEN sent[i] ELSE Command
      /\ \A i \in DOMAIN sent' : i \in DOMAIN sent \/ i = frame + 1
  BY <1>1, <1>3, <1>4, <1>5, <1>6
<1>8. TakeTyped'
  <2>1. playStart' \in Nat /\ frame' \in 0..Len(take)
    BY <1>1, <1>2, <1>6
  <2> QED
    BY <1>1, <1>6, <2>1 DEF TakeTyped, PlaybackFrame
<1>9. InOrder'
  <2>1. \A i \in DOMAIN sent' : sent'[i].of = i
    BY <1>4, <1>5, <1>7
  <2> QED
    BY <1>7, <2>1 DEF InOrder, Commands
<1>10. SentSoFar'
  <2>1. ASSUME NEW i \in DOMAIN sent'
        PROVE  /\ sent'[i].at = start + take[i].at - takeStart
               /\ sent'[i].view = IF sent'[i].helped THEN LookedDown ELSE take[i].view
    <3>1. CASE i \in DOMAIN sent
      <4>1. playStart # 0
        BY <3>1, <1>3
      <4> QED
        BY <3>1, <4>1, <1>3, <1>7
    <3>2. CASE i \notin DOMAIN sent
      BY <3>2, <1>5, <1>7
    <3> QED
      BY <3>1, <3>2
  <2>2. playStart' = start /\ start # 0
    BY <1>2
  <2> HIDE DEF start
  <2> QED
    BY <2>1, <2>2, <1>2, <1>3, <1>6, <1>7 DEF SentSoFar, PlaybackFrame
<1>11. TakeRest'
  BY <1>1, <1>6, <1>9, <1>10 DEF TakeInv, TakeRest, RecordThenPlay, TakeOverContinues, Idle, PlaybackFrame
<1> QED
  BY <1>8, <1>11, StepOfRecorder DEF PlaybackFrame

LEMMA FrameKeepsTake ==
  ASSUME TakeInv, HelperTyped', UNCHANGED recorderTitle, NEW now \in Nat, now > time, now <= MaxTime,
         NEW view \in 0..Turn-1, NEW moves \in BOOLEAN, NEW pressed \in BOOLEAN, NEW p \in Predictions,
         FrameAt(now, view, moves, pressed, p)
  PROVE  TakeInv'
<1>1. /\ time' = now /\ take' = Captured(now, view)
      /\ UNCHANGED <<recording, takeStart, turned>>
  BY DEF FrameAt
<1>2. CASE ~playing
  <2>1. UNCHANGED <<frame, playing, playStart, sent, takenOver>>
    BY <1>2 DEF FrameAt
  <2> QED
    BY <1>1, <1>2, <2>1, FrameWithoutPlaybackKeeps
<1>3. CASE playing
  <2>1. take' = take
    BY <1>1, <1>3 DEF TakeInv, RecordThenPlay, Captured
  <2>2. PlaybackFrame(now)
    BY <1>1, <1>3, <2>1 DEF PlaybackFrame
  <2>3. Replay(now, view, take, moves, LooksDown(p))
    BY <1>3, <2>1 DEF FrameAt
  <2>4. take # <<>> /\ frame \in Nat /\ Len(take) \in Nat
    BY <1>3, <2>2, PlaybackIsTyped DEF TakeInv, SentSoFar
  <2>5. CASE frame >= Len(take)
    BY <2>2, <2>3, <2>4, <2>5, ReplayEndKeeps DEF Replay
  <2>6. CASE frame < Len(take)
    <3>1. playStart' = IF playStart = 0 THEN now ELSE playStart
      BY <2>3, <2>4, <2>6 DEF Replay
    <3>2. CASE moves
      BY <2>2, <2>3, <2>4, <2>6, <3>1, <3>2, TakeOverKeeps DEF Replay
    <3>3. CASE ~moves
      <4>1. LooksDown(p) \in BOOLEAN
        BY DEF LooksDown, Predictions
      <4>2. SendCommand(now, take, LooksDown(p))
        BY <2>3, <2>4, <2>6, <3>3 DEF Replay
      <4> QED
        BY <2>2, <2>6, <3>1, <4>1, <4>2, SendCommandKeeps
    <3> QED
      BY <3>2, <3>3
  <2> QED
    BY <2>4, <2>5, <2>6
<1> QED
  BY <1>2, <1>3

(* What the playback leaves is a view.                                     *)
LEMMA LeftIsView ==
  ASSUME TakeInv, NEW view \in 0..Turn-1, NEW moves \in BOOLEAN, playing => UNCHANGED take
  PROVE  LeftView(view, take', moves) \in 0..Turn-1
<1>1. CASE playing /\ frame < Len(take) /\ (moves => recorderTitle = "iw3")
  <2>1. TakeTyped
    BY TypesApart DEF TakeInv
  <2>2. /\ frame + 1 \in DOMAIN take /\ turned \in {0, 1}
    BY <1>1, <2>1, TakeHolds DEF TakeTyped
  <2>3. take[frame + 1].view \in 0..Turn-1
    BY <2>1, <2>2, TakeHolds
  <2>4. ReplayedView(take) \in 0..Turn-1
    BY <2>2, <2>3, TurnedBack DEF ReplayedView
  <2> QED
    BY <1>1, <2>4 DEF LeftView
<1>2. CASE ~(playing /\ frame < Len(take) /\ (moves => recorderTitle = "iw3"))
  BY <1>2 DEF LeftView
<1> QED
  BY <1>1, <1>2

(* The view that a frame of the helpers leaves.                            *)
LEMMA CycleKeeps ==
  ASSUME HelperTyped, HelperInv, turned \in {0, 1}, UNCHANGED helpers,
         NEW left \in 0..Turn-1, NEW pressed \in BOOLEAN, NEW p \in Predictions, Cycle(p, left, pressed)
  PROVE  HelperTyped' /\ HelperInv'
<1>1. /\ aim \in 0..Turn-1 /\ saved \in 0..Turn-1 /\ playersAim \in 0..Turn-1
      /\ helpers \subseteq Helpers /\ resetDue \in BOOLEAN
  BY DEF HelperTyped
<1>2. DownView \in 0..Turn-1 /\ LooksDown(p) \in BOOLEAN
  BY DEF DownView, LookedDown, Turn, LooksDown, Predictions
<1>3. playersAim' = (IF resetDue THEN playersAim ELSE left) /\ playersAim' \in 0..Turn-1
  BY <1>1 DEF Cycle
<1>4. CASE Enabled(helpers, playing')
  <2>1. /\ saved' = IF LooksDown(p) THEN RestoredView(left) ELSE saved
        /\ aim' = IF LooksDown(p) THEN DownView ELSE RestoredView(left)
        /\ resetDue' = LooksDown(p)
    BY <1>4 DEF Cycle, SavedView
  <2>2. RestoredView(left) = playersAim'
    BY <1>3 DEF RestoredView, HelperInv, ViewComesBack
  <2>3. HelperTyped'
    BY <1>1, <1>2, <1>3, <2>1, <2>2 DEF HelperTyped
  <2>4. ViewComesBack'
    BY <2>1, <2>2 DEF ViewComesBack
  <2>5. helpers' = helpers
    OBVIOUS
  <2>6. ASSUME resetDue' PROVE helpers \ {"crouch_on_jump"} # {}
    <3>1. "rpg_lookdown" \in helpers
      BY <2>1, <2>6 DEF LooksDown
    <3> QED
      BY <3>1
  <2>7. HelperStaysOn'
    BY <2>5, <2>6 DEF HelperStaysOn, Enabled
  <2> QED
    BY <2>3, <2>4, <2>7 DEF HelperInv
<1>5. CASE ~Enabled(helpers, playing')
  <2>1. ~resetDue
    BY <1>5 DEF HelperInv, HelperStaysOn, Enabled
  <2>2. aim' = left /\ UNCHANGED <<saved, resetDue>>
    BY <1>5 DEF Cycle
  <2>3. HelperTyped'
    BY <1>1, <1>3, <2>2 DEF HelperTyped
  <2>4. ViewComesBack' /\ HelperStaysOn'
    BY <1>3, <2>1, <2>2 DEF ViewComesBack, HelperStaysOn
  <2> QED
    BY <2>3, <2>4 DEF HelperInv
<1> QED
  BY <1>4, <1>5

LEMMA ClientFrameKeeps ==
  ASSUME RecorderInv, ClientFrame, UNCHANGED recorderTitle
  PROVE  RecorderInv'
<1>1. PICK length \in {1, 2}, moves \in BOOLEAN, pressed \in BOOLEAN, p \in Predictions :
        /\ time + length <= MaxTime
        /\ FrameAt(time + length, (aim + length) % Turn, moves, pressed, p)
  BY DEF ClientFrame
<1> DEFINE now == time + length
           view == (aim + length) % Turn
<1>2. TakeInv /\ HelperInv /\ TakeTyped /\ HelperTyped
  BY TypesApart DEF RecorderInv, TakeInv
<1>3. now \in Nat /\ now > time /\ now <= MaxTime /\ turned \in {0, 1}
  BY <1>1, <1>2 DEF TakeTyped
<1>4. view \in 0..Turn-1
  BY <1>2 DEF HelperTyped, Turn
<1>5. FrameAt(now, view, moves, pressed, p)
  BY <1>1
<1> HIDE DEF now, view
<1>6. playing => UNCHANGED take
  BY <1>2, <1>5 DEF FrameAt, Captured, TakeInv, RecordThenPlay
<1>7. LeftView(view, take', moves) \in 0..Turn-1
  BY <1>2, <1>4, <1>6, LeftIsView
<1>8. HelperTyped' /\ HelperInv'
  <2>1. Cycle(p, LeftView(view, take', moves), pressed) /\ UNCHANGED helpers
    BY <1>5 DEF FrameAt
  <2> QED
    BY <1>2, <1>3, <1>7, <2>1, CycleKeeps
<1>9. TakeInv'
  BY <1>2, <1>3, <1>4, <1>5, <1>8, FrameKeepsTake
<1> QED
  BY <1>8, <1>9 DEF RecorderInv

LEMMA HelpersLeaveTheTake ==
  ASSUME TakeInv, HelperTyped', UNCHANGED <<recorderTitle, recorderVars>>
  PROVE  TakeInv'
<1>1. TakeTyped'
  BY TypesApart DEF TakeInv, TakeTyped, recorderVars
<1>2. TakeRest'
  BY DEF TakeInv, TakeRest, RecordThenPlay, TakeOverContinues, TakeAsSeen, Kept, Idle, SentSoFar, InOrder,
     recorderVars
<1> QED
  BY <1>1, <1>2, TypesApartNext DEF TakeInv, TakeRest

LEMMA SetHelpersKeeps ==
  ASSUME HelperTyped, HelperInv, PlayerWaits, SetHelpers
  PROVE  HelperTyped' /\ HelperInv'
<1>1. HelperTyped'
  BY DEF HelperTyped, SetHelpers
<1>2. HelperStaysOn'
  BY DEF HelperStaysOn, SetHelpers
<1>3. ViewComesBack'
  BY DEF HelperInv, ViewComesBack, SetHelpers
<1> QED
  BY <1>1, <1>2, <1>3 DEF HelperInv

LEMMA InvIsFaithful == ASSUME RecorderInv PROVE FaithfulReplay
<1>1. /\ RecorderTypeOK /\ RecordThenPlay /\ TakeOverContinues /\ ViewComesBack
      /\ \A i \in DOMAIN sent : sent[i].of = i
  BY DEF RecorderInv, TakeInv, HelperInv, InOrder
<1>2. ASSUME NEW i \in DOMAIN sent, playing
      PROVE  /\ sent[i].at - sent[1].at = take[i].at - take[1].at
             /\ sent[1].at > take[Len(take)].at
             /\ sent[i].view = IF sent[i].helped THEN LookedDown ELSE Kept(take[i].looked)
  <2>1. TakeTyped
    BY TypesApart DEF RecorderInv, TakeInv
  <2>2. /\ Len(take) \in Nat /\ DOMAIN take = 1..Len(take)
        /\ \A k \in DOMAIN take : take[k].at \in Nat
        /\ frame \in 0..Len(take) /\ playStart \in Nat
    BY <2>1, TakeHolds DEF TakeTyped
  <2>3. /\ takeStart = take[1].at /\ Len(sent) = frame
        /\ playStart = 0 <=> sent = <<>>
        /\ playStart # 0 => playStart > take[Len(take)].at
        /\ \A k \in DOMAIN sent :
             /\ sent[k].at = playStart + take[k].at - takeStart
             /\ sent[k].view = IF sent[k].helped THEN LookedDown ELSE take[k].view
    BY <1>2 DEF RecorderInv, TakeInv, SentSoFar
  <2>4. sent \in Seq([of : Nat, at : Int, view : 0..Turn-1, helped : BOOLEAN])
    BY DEF RecorderInv, TakeInv, InOrder
  <2>5. DOMAIN sent = 1..frame /\ 1 \in DOMAIN sent /\ i \in DOMAIN take /\ 1 \in DOMAIN take /\ Len(take) \in DOMAIN take
    BY <1>2, <2>2, <2>3, <2>4
  <2>6. playStart # 0
    BY <1>2, <2>3
  <2>7. /\ sent[1].at = playStart + take[1].at - take[1].at
        /\ sent[i].at = playStart + take[i].at - take[1].at
        /\ sent[i].view = IF sent[i].helped THEN LookedDown ELSE take[i].view
    BY <2>3, <2>5
  <2>8. /\ take[1].at \in Nat /\ take[i].at \in Nat /\ take[Len(take)].at \in Nat
        /\ playStart > take[Len(take)].at
    BY <2>2, <2>3, <2>5, <2>6
  <2>9. take[i].view = Kept(take[i].looked)
    BY <2>5 DEF RecorderInv, TakeInv, TakeAsSeen
  <2> QED
    BY <2>2, <2>7, <2>8, <2>9
<1> QED
  BY <1>1, <1>2 DEF FaithfulReplay

LEMMA RecorderStarts == ASSUME RecorderInit PROVE RecorderInv
<1> USE DEF RecorderInit
<1>1. <<>> \in Seq([at : 1..MaxTime, view : 0..Turn-1, looked : 0..Turn-1]) /\ <<>> \in Seq([of : Nat, at : Int, view : 0..Turn-1, helped : BOOLEAN])
      /\ Len(<<>>) = 0 /\ DOMAIN <<>> = {}
  OBVIOUS
<1>2. TakeTyped
  <2>1. frame \in 0..Len(take)
    BY <1>1
  <2> QED
    BY <1>1, <2>1 DEF TakeTyped
<1>3. HelperTyped
  <2>1. aim = 0 /\ saved = 0 /\ playersAim = 0 /\ 0 \in 0..Turn-1
    BY DEF Turn
  <2>2. {aim, saved, playersAim} \subseteq 0..Turn-1
    BY <2>1
  <2> QED
    BY <2>2 DEF HelperTyped
<1>4. TakeRest
  BY <1>1 DEF TakeRest, RecordThenPlay, TakeOverContinues, TakeAsSeen, Idle, SentSoFar, InOrder
<1>5. HelperInv
  BY DEF HelperInv, ViewComesBack, HelperStaysOn
<1> QED
  BY <1>2, <1>3, <1>4, <1>5, TypesApart DEF RecorderInv, TakeInv, TakeRest

LEMMA RecorderNextKeeps ==
  ASSUME RecorderInv, PlayerWaits, RecorderNext
  PROVE  RecorderInv'
<1>1. UNCHANGED recorderTitle /\ TakeInv /\ HelperInv /\ HelperTyped
  BY TypesApart DEF RecorderNext, RecorderInv, TakeInv
<1>2. CASE ClientFrame
  BY <1>1, <1>2, ClientFrameKeeps
<1>3. CASE /\ StartRecord \/ StopRecord \/ StartPlayback \/ StopPlayback \/ TurnPlayer
           /\ UNCHANGED helperVars
  <2>1. HelperTyped' /\ HelperInv'
    BY <1>1, <1>3 DEF HelperTyped, HelperInv, ViewComesBack, HelperStaysOn, Enabled, helperVars
  <2>2. TakeInv'
    BY <1>1, <1>3, <2>1, StartRecordKeeps, StopRecordKeeps, StartPlaybackKeeps, StopPlaybackKeeps, TurnPlayerKeeps
  <2> QED
    BY <2>1, <2>2 DEF RecorderInv
<1>4. CASE SetHelpers
  <2>1. HelperTyped' /\ HelperInv' /\ UNCHANGED recorderVars
    BY <1>1, <1>4, SetHelpersKeeps DEF SetHelpers
  <2> QED
    BY <1>1, <2>1, HelpersLeaveTheTake DEF RecorderInv
<1> QED
  BY <1>2, <1>3, <1>4 DEF RecorderNext

LEMMA RecorderStutters ==
  ASSUME RecorderInv, UNCHANGED <<recorderTitle, recorderVars, helperVars>>
  PROVE  RecorderInv'
<1>1. HelperTyped'
  BY TypesApart DEF RecorderInv, TakeInv, HelperTyped, helperVars
<1>2. HelperInv'
  BY DEF RecorderInv, HelperInv, ViewComesBack, HelperStaysOn, Enabled, helperVars
<1> QED
  BY <1>1, <1>2, HelpersLeaveTheTake DEF RecorderInv

(* FaithfulReplay, whatever is recorded, played, stopped or taken over: a  *)
(* playback sends the commands of its take in order and in their rhythm    *)
(* with the views they were recorded with, and a helper gives the view     *)
(* back (cj_tas.cpp, mr.cpp), if the player starts no recording during a   *)
(* playback and keeps a helper on until it has given the view back.        *)
THEOREM TakesAreReplayed == ASSUME PlayerWaits PROVE RecorderSpec => []FaithfulReplay
<1>1. RecorderInit => RecorderInv
  BY RecorderStarts
<1>2. RecorderInv /\ [RecorderNext]_<<recorderTitle, recorderVars, helperVars>> => RecorderInv'
  BY RecorderNextKeeps, RecorderStutters
<1>3. RecorderInv => FaithfulReplay
  BY InvIsFaithful
<1> QED
  BY <1>1, <1>2, <1>3, PTL DEF RecorderSpec

-----------------------------------------------------------------------------
(* The mirrored world, for any clients, devices and changes of the dvar.    *)

Cullings == {"none", "back", "front"}

ViewTypes ==
  /\ enabled \in BOOLEAN /\ steady \in BOOLEAN /\ weapon \in BOOLEAN /\ projection \in BOOLEAN
  /\ uploaded \in [reflected : BOOLEAN, current : BOOLEAN]
  /\ scene \in {"world", "shadow", "2d"} /\ material \in Cullings
  /\ drawn \in [scene : {"world", "shadow", "2d"}, reflected : BOOLEAN, wanted : BOOLEAN,
                culled : Cullings, material : Cullings]

(* What was uploaded is what the engine has, unless a version says so; only *)
(* a main view has a reflected projection; and what is about to be drawn   *)
(* has the culling that goes with it.                                      *)
ViewInv ==
  /\ ViewTypes
  /\ uploaded.current => uploaded.reflected = projection
  /\ scene # "world" => ~projection
  /\ stage = "draw" =>
       /\ uploaded.current
       /\ culling = CullStateBits(material, projection)
       /\ steady => projection = Mirrored
  /\ DrawnConsistently

LEMMA ViewInvInit == MirrorInit => ViewInv
<1> SUFFICES ASSUME MirrorInit
             PROVE  ViewInv
  OBVIOUS
<1>1. ViewTypes
  BY DEF MirrorInit, ViewTypes, Cullings, NoDraw
<1>2. DrawnConsistently
  BY DEF MirrorInit, NoDraw, DrawnConsistently, CullStateBits
<1> QED
  BY <1>1, <1>2 DEF MirrorInit, ViewInv

LEMMA CullingIs ==
  ASSUME NEW cull \in Cullings, NEW mirrored \in BOOLEAN
  PROVE  CullStateBits(cull, mirrored) \in Cullings
BY DEF Cullings, CullStateBits, Flipped

LEMMA ViewInvStep == ViewInv /\ [ViewNext \/ InputNext]_mirrorVars => ViewInv'
<1> SUFFICES ASSUME ViewInv, [ViewNext \/ InputNext]_mirrorVars
             PROVE  ViewInv'
  OBVIOUS
<1> USE DEF ViewInv, ViewTypes
<1>1. CASE Toggle /\ UNCHANGED <<viewVars, inputVars>>
  BY <1>1 DEF Toggle, viewVars, DrawnConsistently
<1>2. ASSUME NEW s \in {"world", "shadow", "2d"}, BeginView(s), UNCHANGED <<enabled, toggles, inputVars>>
      PROVE  ViewInv'
  BY <1>2 DEF BeginView, DrawnConsistently
<1>3. ASSUME NEW cull \in Cullings, SetupPass(cull), UNCHANGED <<enabled, toggles, inputVars>>
      PROVE  ViewInv'
  BY <1>3 DEF SetupPass, DrawnConsistently, UpdatedProjection, IsMainView, Mirrored
<1>4. ASSUME NEW hack \in BOOLEAN, NextObject(hack), UNCHANGED <<enabled, toggles, inputVars>>
      PROVE  ViewInv'
  BY <1>4 DEF NextObject, DrawnConsistently
<1>5. CASE SetArguments /\ UNCHANGED <<enabled, toggles, inputVars>>
  <2>1. UNCHANGED <<scene, weapon, material, drawn, enabled>> /\ stage' = "draw" /\ steady' = TRUE
    BY <1>5 DEF SetArguments
  <2>2. /\ projection' = IF IsMainView THEN Mirrored ELSE projection
        /\ culling' = CullStateBits(material, Mirrored)
        /\ uploaded'.current = TRUE
        /\ uploaded' \in [reflected : BOOLEAN, current : BOOLEAN]
        /\ uploaded'.reflected = projection'
    BY <1>5 DEF SetArguments, UpdateDrawContext, UpdatedProjection, IsMainView, Mirrored
  <2>3. projection' = Mirrored /\ Mirrored' = Mirrored /\ Mirrored \in BOOLEAN
    BY <2>1, <2>2 DEF Mirrored, IsMainView
  <2>4. scene # "world" => ~projection'
    BY <2>3 DEF Mirrored, IsMainView
  <2>5. DrawnConsistently'
    BY <2>1 DEF DrawnConsistently
  <2>6. culling' = CullStateBits(material', projection')
    BY <2>1, <2>2, <2>3
  <2>7. ViewTypes'
    BY <2>1, <2>2, <2>3
  <2> QED
    BY <2>1, <2>2, <2>3, <2>4, <2>5, <2>6, <2>7
<1>6. CASE DrawPrimitive /\ UNCHANGED <<enabled, toggles, inputVars>>
  <2>1. Mirrored \in BOOLEAN /\ (Mirrored => scene = "world")
    BY DEF Mirrored, IsMainView
  <2>2. /\ stage = "draw"
        /\ UNCHANGED <<scene, weapon, projection, uploaded, material, culling, stage, steady, enabled>>
        /\ drawn' = [scene |-> scene, reflected |-> uploaded.reflected,
                     wanted |-> IF steady THEN Mirrored ELSE uploaded.reflected,
                     culled |-> culling, material |-> material]
    BY <1>6 DEF DrawPrimitive
  <2>3. culling = CullStateBits(material, projection) /\ culling \in Cullings
        /\ uploaded.reflected = projection
    BY <2>2, CullingIs
  <2>4. drawn'.reflected = drawn'.wanted /\ (drawn'.reflected => drawn'.scene = "world")
    BY <2>1, <2>2, <2>3
  <2>5. DrawnConsistently'
    BY <2>2, <2>3, <2>4 DEF DrawnConsistently
  <2>6. ViewTypes'
    <3>1. scene \in {"world", "shadow", "2d"} /\ material \in Cullings
      OBVIOUS
    <3>2. drawn' \in [scene : {"world", "shadow", "2d"}, reflected : BOOLEAN, wanted : BOOLEAN,
                      culled : Cullings, material : Cullings]
      BY <2>1, <2>2, <2>3, <3>1
    <3> QED
      BY <2>2, <3>2
  <2>7. UNCHANGED Mirrored
    BY <2>2 DEF Mirrored, IsMainView
  <2> QED
    BY <2>2, <2>5, <2>6, <2>7
<1>7. CASE UNCHANGED <<enabled, toggles, steady, viewVars>>
  BY <1>7 DEF viewVars, DrawnConsistently, Mirrored, IsMainView
<1> QED
  BY <1>1, <1>2, <1>3, <1>4, <1>5, <1>6, <1>7 DEF ViewNext, InputNext, mirrorVars, Cullings

-----------------------------------------------------------------------------
(* Commands *)

Leans == {"none", "left", "right"}
Given ==
  [client : Clients, mirror : BOOLEAN, mouse : Turns, stick : Turns, assist : {0, 2}, move : Moves,
   lean : Leans]
CommandInputs == [mirror : BOOLEAN, gamepadYaw : BOOLEAN, yaw : {0}]
OpenCommands == [state : {"keys", "gamepad"}, yaw : Int, move : Moves, lean : Leans]

(* Until it is finished a command has what the devices gave it; what the    *)
(* gamepad turned is mirrored already, and its client's entry says so.     *)
InputInv ==
  /\ enabled \in BOOLEAN
  /\ commandInputs \in [Clients -> CommandInputs]
  /\ command.state \in {"none", "keys", "gamepad", "made"}
  /\ command.state \in {"keys", "gamepad"} =>
       /\ command \in OpenCommands /\ input \in Given
       /\ command.move = input.move /\ command.lean = input.lean
       /\ commandInputs[input.client].mirror = input.mirror
       /\ commandInputs[input.client].gamepadYaw = (command.state = "gamepad" /\ input.mirror)
       /\ command.yaw =
            IF command.state = "keys" THEN input.mouse
            ELSE input.assist + IF input.mirror THEN MirrorAngle(0, input.mouse) - input.stick
                                ELSE input.mouse + input.stick
  /\ CommandsMirroredOnce

LEMMA AngleIs ==
  ASSUME NEW m \in Int
  PROVE  MirrorAngle(0, m) \in Int /\ (MirrorAngle(0, m) + m) % 360 = 0
BY DEF MirrorAngle, AngleDelta

LEMMA InputInvInit == MirrorInit => InputInv
<1> SUFFICES ASSUME MirrorInit
             PROVE  InputInv
  OBVIOUS
<1>1. enabled \in BOOLEAN /\ commandInputs \in [Clients -> CommandInputs]
  BY DEF MirrorInit, CommandInputs, NoCommandInput
<1>2. command.state = "none"
  BY DEF MirrorInit, NoCommand
<1>3. CommandsMirroredOnce
  BY <1>2 DEF CommandsMirroredOnce
<1> QED
  BY <1>1, <1>2, <1>3 DEF InputInv

LEMMA GivenIs ==
  ASSUME NEW g \in Given
  PROVE  /\ g.mouse \in Int /\ g.stick \in Int /\ g.assist \in Int /\ g.move \in -128..127
         /\ g.mirror \in BOOLEAN /\ g.client \in Clients
<1>1. g.mouse \in Turns /\ g.stick \in Turns /\ g.assist \in {0, 2} /\ g.move \in Moves
      /\ g.mirror \in BOOLEAN /\ g.client \in Clients
  BY DEF Given
<1>2. Moves \subseteq -128..127 /\ Turns \subseteq Int
  BY MirrorAssumption
<1>3. g.mouse \in Int /\ g.stick \in Int
  BY <1>1, <1>2
<1>4. g.move \in -128..127
  BY <1>1, <1>2
<1> QED
  BY <1>1, <1>3, <1>4

LEMMA InputInvStep == InputInv /\ [ViewNext \/ InputNext]_mirrorVars => InputInv'
<1> SUFFICES ASSUME InputInv, [ViewNext \/ InputNext]_mirrorVars
             PROVE  InputInv'
  OBVIOUS
<1>1. CASE UNCHANGED inputVars /\ enabled' \in BOOLEAN
  BY <1>1 DEF InputInv, inputVars, CommandsMirroredOnce
<1>2. ASSUME NEW c \in Clients, NEW catchers \in BOOLEAN, NEW devices \in Devices,
             CreateCmd(c, catchers, devices), UNCHANGED enabled
      PROVE  InputInv'
  <2> DEFINE mirror == enabled /\ ~catchers
  <2>1. /\ input' = [devices EXCEPT !.client = c, !.mirror = mirror]
        /\ commandInputs' = [commandInputs EXCEPT ![c] = [NoCommandInput EXCEPT !.mirror = mirror]]
        /\ command' = [state |-> "keys", yaw |-> devices.mouse, move |-> devices.move, lean |-> devices.lean]
    BY <1>2 DEF CreateCmd
  <2>2. mirror \in BOOLEAN /\ commandInputs \in [Clients -> CommandInputs]
    BY DEF InputInv
  <2> HIDE DEF mirror
  <2>3. /\ input' \in Given /\ input'.client = c /\ input'.mirror = mirror /\ input'.mouse = devices.mouse
        /\ input'.move = devices.move /\ input'.lean = devices.lean
    BY <2>1, <2>2 DEF Devices, Given, Leans
  <2>4. /\ commandInputs' \in [Clients -> CommandInputs]
        /\ commandInputs'[c].mirror = mirror /\ commandInputs'[c].gamepadYaw = FALSE
    BY <2>1, <2>2 DEF NoCommandInput, CommandInputs
  <2>5. command' \in OpenCommands
    BY <2>1, MirrorAssumption DEF OpenCommands, Devices, Leans
  <2>6. command'.state = "keys" /\ command'.yaw = devices.mouse /\ command'.move = devices.move
        /\ command'.lean = devices.lean
    BY <2>1
  <2> QED
    BY <1>2, <2>3, <2>4, <2>5, <2>6 DEF InputInv, CommandsMirroredOnce
<1>3. CASE UpdateGamePadInput /\ UNCHANGED enabled
  <2> DEFINE c == input.client
             turnedTo == IF input.mirror THEN MirrorAngle(0, input.mouse) - input.stick
                         ELSE input.mouse + input.stick
  <2>1. /\ command.state = "keys" /\ input \in Given /\ command \in OpenCommands /\ c \in Clients
        /\ UNCHANGED input
    BY <1>3 DEF InputInv, UpdateGamePadInput, Given
  <2>2. /\ commandInputs \in [Clients -> CommandInputs] /\ commandInputs[c] \in CommandInputs
        /\ commandInputs[c].mirror = input.mirror /\ commandInputs[c].yaw = 0
        /\ command.yaw = input.mouse /\ command.move = input.move /\ command.lean = input.lean
    BY <2>1 DEF InputInv, CommandInputs
  <2>3. turnedTo \in Int /\ turnedTo + input.assist \in Int /\ input.assist \in Int
    <3>1. input.mouse \in Int /\ input.stick \in Int /\ input.assist \in Int
      BY <2>1, GivenIs
    <3>2. MirrorAngle(0, input.mouse) \in Int
      BY <3>1, AngleIs
    <3> QED
      BY <3>1, <3>2
  <2>4. /\ command' = [command EXCEPT !.state = "gamepad", !.yaw = turnedTo + input.assist]
        /\ commandInputs' = [commandInputs EXCEPT ![c].gamepadYaw = input.mirror]
    BY <1>3, <2>1, <2>2 DEF UpdateGamePadInput
  <2>5. /\ commandInputs' \in [Clients -> CommandInputs]
        /\ commandInputs'[c].mirror = input.mirror /\ commandInputs'[c].gamepadYaw = input.mirror
    <3>1. input.mirror \in BOOLEAN
      BY <2>1 DEF Given
    <3> QED
      BY <2>1, <2>2, <2>4, <3>1 DEF CommandInputs
  <2> HIDE DEF turnedTo, c
  <2>6. /\ command' \in OpenCommands /\ command'.state = "gamepad" /\ command'.yaw = turnedTo + input.assist
        /\ command'.move = command.move /\ command'.lean = command.lean
    BY <2>1, <2>3, <2>4 DEF OpenCommands
  <2>7. input.assist + turnedTo = turnedTo + input.assist
    BY <2>3
  <2>8. input.mirror \in BOOLEAN
    BY <2>1 DEF Given
  <2> QED
    BY <1>3, <2>1, <2>2, <2>5, <2>6, <2>7, <2>8 DEF InputInv, CommandsMirroredOnce, c, turnedTo
<1>4. CASE FinishMove /\ UNCHANGED enabled
  <2> DEFINE c == input.client
             gamepad == command.state = "gamepad"
             turn == input.mouse + IF gamepad THEN input.stick ELSE 0
             extra == IF gamepad THEN input.assist ELSE 0
  <2>1. /\ command.state \in {"keys", "gamepad"} /\ input \in Given /\ command \in OpenCommands
        /\ c \in Clients /\ UNCHANGED input
    BY <1>4 DEF InputInv, FinishMove, Given
  <2>2. /\ commandInputs[c].mirror = input.mirror /\ commandInputs[c].yaw = 0
        /\ commandInputs[c].gamepadYaw = (gamepad /\ input.mirror) /\ input.mirror \in BOOLEAN
    BY <2>1 DEF InputInv, CommandInputs, Given
  <2>3. commandInputs' \in [Clients -> CommandInputs]
    BY <1>4, <2>1 DEF InputInv, FinishMove, CommandInputs, NoCommandInput
  <2>4. /\ input.mouse \in Int /\ input.stick \in Int /\ input.assist \in Int
        /\ input.move \in -128..127 /\ command.move = input.move /\ command.lean = input.lean
    <3>1. command.move = input.move /\ command.lean = input.lean
      BY <2>1 DEF InputInv
    <3> QED
      BY <2>1, <3>1, GivenIs
  <2>5. /\ command'.state = "made" /\ command'.gamepad = gamepad
        /\ command'.yaw = IF input.mirror /\ ~gamepad THEN MirrorAngle(0, command.yaw) ELSE command.yaw
        /\ command'.move = IF input.mirror THEN MirrorMove(input.move) ELSE input.move
        /\ command'.lean = IF input.mirror THEN MirrorLean(input.lean) ELSE input.lean
    BY <1>4, <2>2, <2>4 DEF FinishMove
  <2>6. (command'.yaw - ((IF input.mirror THEN -1 ELSE 1) * turn + extra)) % 360 = 0
    <3> DEFINE a == MirrorAngle(0, input.mouse)
               y == command'.yaw
    <3>1. a \in Int /\ (a + input.mouse) % 360 = 0
      BY <2>4, AngleIs
    <3>2. command.yaw = IF ~gamepad THEN input.mouse
                        ELSE input.assist + IF input.mirror THEN a - input.stick
                                            ELSE input.mouse + input.stick
      BY <2>1 DEF InputInv
    <3>3. y = IF input.mirror /\ ~gamepad THEN MirrorAngle(0, command.yaw) ELSE command.yaw
      BY <2>5
    <3> HIDE DEF y
    <3>4. CASE gamepad /\ input.mirror
      <4>1. y = input.assist + (a - input.stick)
        BY <3>2, <3>3, <3>4
      <4> HIDE DEF a
      <4>2. y - ((IF input.mirror THEN -1 ELSE 1) * turn + extra) = a + input.mouse
        BY <2>4, <3>1, <3>4, <4>1
      <4> QED
        BY <3>1, <4>2 DEF y
    <3>5. CASE gamepad /\ ~input.mirror
      <4>1. y = input.assist + (input.mouse + input.stick)
        BY <3>2, <3>3, <3>5
      <4>2. y - ((IF input.mirror THEN -1 ELSE 1) * turn + extra) = 0
        BY <2>4, <3>5, <4>1
      <4> QED
        BY <4>2 DEF y
    <3>6. CASE ~gamepad /\ input.mirror
      <4>1. y = a
        BY <3>2, <3>3, <3>6
      <4> HIDE DEF a
      <4>2. y - ((IF input.mirror THEN -1 ELSE 1) * turn + extra) = a + input.mouse
        BY <2>4, <3>1, <3>6, <4>1
      <4> QED
        BY <3>1, <4>2 DEF y
    <3>7. CASE ~gamepad /\ ~input.mirror
      <4>1. y = input.mouse
        BY <3>2, <3>3, <3>7
      <4>2. y - ((IF input.mirror THEN -1 ELSE 1) * turn + extra) = 0
        BY <2>4, <3>7, <4>1
      <4> QED
        BY <4>2 DEF y
    <3> QED
      BY <2>2, <3>4, <3>5, <3>6, <3>7
  <2>7. /\ command'.move \in -128..127
        /\ command'.move - (IF input.mirror THEN -1 ELSE 1) * input.move
             \in IF input.move = -128 THEN {-1, 0} ELSE {0}
    BY <2>2, <2>4, <2>5 DEF MirrorMove, Clamp
  <2> HIDE DEF gamepad
  <2>8. CommandsMirroredOnce'
    BY <2>1, <2>5, <2>6, <2>7 DEF CommandsMirroredOnce
  <2> QED
    BY <1>4, <2>3, <2>5, <2>8 DEF InputInv
<1>5. CASE SendCmd /\ UNCHANGED enabled
  BY <1>5 DEF InputInv, SendCmd, NoCommand, CommandsMirroredOnce
<1> QED
  BY <1>1, <1>2, <1>3, <1>4, <1>5 DEF InputInv, ViewNext, InputNext, mirrorVars, Toggle

(* Whenever a draw is made and a command leaves, in any order of the hooks *)
(* and of the dvar's changes, it is mirrored as a whole, once, or not.     *)
THEOREM MirroredThroughout == MirrorSpec => []MirroredOnce
<1>1. MirrorInit => ViewInv /\ InputInv
  BY ViewInvInit, InputInvInit
<1>2. ViewInv /\ InputInv /\ [ViewNext \/ InputNext]_mirrorVars => (ViewInv /\ InputInv)'
  BY ViewInvStep, InputInvStep
<1>3. ViewInv /\ InputInv => MirroredOnce
  BY DEF ViewInv, InputInv, MirroredOnce
<1> QED
  BY <1>1, <1>2, <1>3, PTL DEF MirrorSpec
=============================================================================
