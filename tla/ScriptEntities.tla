---------------------------- MODULE ScriptEntities ----------------------------
(***************************************************************************)
(* What scripts make of entities: collision that is cloned from a brush    *)
(* model (IW3, T4 MP, T4 SP), set by its number (IW3) or spawned (T4 SP),  *)
(* and the stance of players (IW2, IW3).                                   *)
(*                                                                         *)
(* The world links an entity with the bounds it has at that time: one that *)
(* changes its shape is taken out of the world and linked anew.  Every     *)
(* error of a script call leaves the call.                                 *)
(***************************************************************************)
EXTENDS Integers, Sequences

CONSTANTS
  EntityTitles,
  Entities,
  EntityClients,
  NumSubModels, \* cm->numSubModels
  MaxCalls      \* bound

ASSUME EntitiesAssumption == NumSubModels \in Nat

VARIABLES
  entityTitle,
  entity,   \* per entity: class, model (s.index), bounds, contents, linked
  given,    \* entities that scripts know of
  stance,   \* per client: the stance bits and other bits of pm_flags
  events,   \* per client: stance events that it has not processed
  wanted,   \* per client: the stance that it was given last, or took itself
  calls

entityVars == <<entityTitle, entity, given, stance, events, wanted, calls>>

Submodels == 0..(NumSubModels - 1)
Free == [class |-> "free", model |-> 0, bounds |-> 0, contents |-> {}, linked |-> FALSE, as |-> 0]

(* Each brush model has contents of its own; 0 is the world's.             *)
ContentsOf(model) == {model} \ {0}

-----------------------------------------------------------------------------
(* Entities *)

SV_UnlinkEntity(ent) == [ent EXCEPT !.linked = FALSE]
SV_SetBrushModel(ent) == [ent EXCEPT !.bounds = ent.model, !.contents = ContentsOf(ent.model)]
SV_LinkEntity(ent) == [ent EXCEPT !.linked = TRUE, !.as = ent.bounds]

(* The engine spawns the map's entities and those of scripts: only         *)
(* script_brushmodel has a brush model.                                    *)
Spawned(class, model) ==
  SV_LinkEntity(SV_SetBrushModel([Free EXCEPT !.class = class, !.model = model]))

Call == calls < MaxCalls /\ calls' = calls + 1

Spawn(e, class) ==
  /\ Call /\ entity[e] = Free
  /\ \E model \in IF class = "script_brushmodel" THEN Submodels \ {0} ELSE {0} :
       entity' = [entity EXCEPT ![e] = Spawned(class, model)]
  /\ given' = given \cup {e}
  /\ UNCHANGED <<entityTitle, stance, events, wanted>>

FreeEntity(e) ==
  /\ e \in given
  /\ entity' = [entity EXCEPT ![e] = Free]
  /\ given' = given \ {e}
  /\ UNCHANGED <<entityTitle, stance, events, wanted, calls>>

(* Mutant: the entity is linked before it has its shape. *)
GivenModelEarly(ent, model) ==
  SV_SetBrushModel(SV_LinkEntity([SV_UnlinkEntity(ent) EXCEPT !.model = model]))
GivenModel(ent, model) ==
  SV_LinkEntity(SV_SetBrushModel([SV_UnlinkEntity(ent) EXCEPT !.model = model]))

(* It keeps the contents it had beside those of its new shape.             *)
Cloned(ent, from) ==
  LET shaped == GivenModel(ent, from.model) IN
  [shaped EXCEPT !.contents = @ \cup ent.contents]

(* T4's checks, in SP and MP: of the class of both, and that there is a     *)
(* model; IW3 takes any two entities.                                      *)
T4MayClone(ent, from) ==
  /\ ent.class = "script_model"
  /\ from.class \in {"script_brushmodel", "script_model", "script_origin", "light"}
  /\ from.model # 0
T4SPMayClone(ent, from) ==
  /\ ent.class = "script_model"
  /\ from.class \in {"script_brushmodel", "script_model", "script_origin", "light"}
  /\ from.model # 0
MayClone(ent, from) ==
  \/ entityTitle = "iw3"
  \/ entityTitle = "t4" /\ T4MayClone(ent, from)
  \/ entityTitle = "t4sp" /\ T4SPMayClone(ent, from)

CloneBrushModelToScriptModel(e, b) ==
  /\ Call /\ {e, b} \subseteq given /\ MayClone(entity[e], entity[b])
  /\ entity' = [entity EXCEPT ![e] = Cloned(@, entity[b])]
  /\ UNCHANGED <<entityTitle, given, stance, events, wanted>>

(* An index out of range is a script error before anything changes.        *)
SetBrushModel(e, index) ==
  /\ Call /\ entityTitle = "iw3" /\ e \in given /\ index \in Submodels
  /\ entity' = [entity EXCEPT ![e] = GivenModel(@, index)]
  /\ UNCHANGED <<entityTitle, given, stance, events, wanted>>

(* T4 SP: the entity is taken before the name of the model is judged; a     *)
(* name of no model ends the call, and the script never gets the entity.    *)
SpawnCollision(e, named) ==
  /\ Call /\ entityTitle = "t4sp" /\ entity[e] = Free
  /\ IF named
     THEN entity' = [entity EXCEPT ![e] = SV_LinkEntity([Free EXCEPT !.class = "script_model"])]
          /\ given' = given \cup {e}
     ELSE entity' = [entity EXCEPT ![e] = [Free EXCEPT !.class = "script_model"]]
          /\ UNCHANGED given
  /\ UNCHANGED <<entityTitle, stance, events, wanted>>

(* A new map frees what calls left behind; until then G_Spawn may run out. *)
NewMap ==
  /\ entity' = [e \in Entities |-> Free]
  /\ given' = {}
  /\ UNCHANGED <<entityTitle, stance, events, wanted, calls>>

-----------------------------------------------------------------------------
(* Stances *)

Stances == {"stand", "crouch", "prone"}
StanceBits(s) == {s} \ {"stand"}

(* GetStance (IW2): prone counts before crouch.                            *)
GetStance(c) ==
  IF "prone" \in stance[c] THEN "prone" ELSE IF "crouch" \in stance[c] THEN "crouch" ELSE "stand"
IsMantling(c) == "mantle" \in stance[c]

(* IW2 asks the client by an event that it predicts; IW3 also sets the      *)
(* server's bits, and leaves the others.                                   *)
IW2SetStance(c, s) ==
  /\ entityTitle = "iw2"
  /\ UNCHANGED stance
IW3SetStance(c, s) ==
  /\ entityTitle = "iw3"
  /\ stance' = [stance EXCEPT ![c] = (@ \ Stances) \cup StanceBits(s)]

SetStance(c, s) ==
  /\ Call
  /\ IW2SetStance(c, s) \/ IW3SetStance(c, s)
  /\ events' = [events EXCEPT ![c] = Append(@, s)]
  /\ wanted' = [wanted EXCEPT ![c] = s]
  /\ UNCHANGED <<entityTitle, entity, given>>

(* The player's command: events in their order, then what he wants himself. *)
Command(c, s) ==
  LET now == IF events[c] # <<>> THEN Head(events[c]) ELSE s IN
  /\ entityTitle \in {"iw2", "iw3"}
  /\ stance' = [stance EXCEPT ![c] = (@ \ Stances) \cup StanceBits(now)]
  /\ events' = [events EXCEPT ![c] = IF @ # <<>> THEN Tail(@) ELSE @]
  /\ wanted' = IF events[c] = <<>> THEN [wanted EXCEPT ![c] = s] ELSE wanted
  /\ UNCHANGED <<entityTitle, entity, given, calls>>

Mantle(c) ==
  /\ entityTitle = "iw2"
  /\ stance' = [stance EXCEPT ![c] = IF IsMantling(c) THEN @ \ {"mantle"} ELSE @ \cup {"mantle"}]
  /\ UNCHANGED <<entityTitle, entity, given, events, wanted, calls>>

-----------------------------------------------------------------------------
EntitiesInit ==
  /\ entityTitle \in EntityTitles
  /\ entity = [e \in Entities |-> Free]
  /\ given = {}
  /\ stance = [c \in EntityClients |-> {}]
  /\ events = [c \in EntityClients |-> <<>>]
  /\ wanted = [c \in EntityClients |-> "stand"]
  /\ calls = 0

EntitiesNext ==
  \/ NewMap \/ \E e \in Entities : FreeEntity(e)
  \/ \E e \in Entities, class \in {"script_model", "script_brushmodel", "trigger"} :
       entityTitle # "iw2" /\ Spawn(e, class)
  \/ \E e, b \in Entities : CloneBrushModelToScriptModel(e, b)
  \/ \E e \in Entities, index \in 0..NumSubModels : SetBrushModel(e, index)
  \/ \E e \in Entities, named \in BOOLEAN : SpawnCollision(e, named)
  \/ \E c \in EntityClients, s \in Stances : SetStance(c, s) \/ Command(c, s)
  \/ \E c \in EntityClients : Mantle(c)

EntitiesSpec == EntitiesInit /\ [][EntitiesNext]_entityVars

-----------------------------------------------------------------------------
(* The world has every entity of the scripts in the shape of its brush     *)
(* model, and solid at least as that is; an entity that a failed call left *)
(* behind is in nobody's way.                                              *)
ShapesFollowModels ==
  \A e \in Entities :
    /\ e \in given => entity[e].linked /\ entity[e].as = entity[e].model
                      /\ ContentsOf(entity[e].model) \subseteq entity[e].contents
    /\ e \notin given => ~entity[e].linked

(* A player who has processed what he was sent is in the stance that was   *)
(* set last, has no other, and mantles on.                                 *)
StanceIsAsWanted ==
  \A c \in EntityClients :
    events[c] = <<>> => GetStance(c) = wanted[c] /\ stance[c] \cap Stances = StanceBits(wanted[c])

(* The world has an entity in the shape of the model it was given, and a    *)
(* player the stance (CloneBrushModelToScriptModel, SetBrushModel,         *)
(* SpawnCollision, SetStance).                                             *)
EntitiesAnswer == ShapesFollowModels /\ StanceIsAsWanted
=============================================================================
