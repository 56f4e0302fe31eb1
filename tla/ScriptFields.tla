----------------------------- MODULE ScriptFields -----------------------------
(***************************************************************************)
(* What scripts read and write of players: the client fields that the      *)
(* plugin adds to those of the game (gsc_fields.cpp of six titles), the     *)
(* methods that read and write such a value, those that tell what a player  *)
(* presses, and the commands with which players cheat (cmds.cpp of two).    *)
(*                                                                         *)
(* The engine keeps one table of names for entities: a client field is     *)
(* registered as its index under a mask, which the hooks take off.  Where   *)
(* the plugin replaces the game's table it repeats the game's own fields.  *)
(***************************************************************************)
EXTENDS Integers, Sequences, SequencesExt

CONSTANTS
  FieldTitles, \* of "iw2", "iw3", "iw4", "iw4sp", "iw5", "qos", "t4", "t4sp"
  Clients,   \* entities with a client
  Others,    \* entities without
  Bots,      \* the clients that are bots
  Moves,     \* what the stick does: [forward, right]
  Keys,      \* of the host's pad and keyboard, and names of none
  Values,    \* what scripts assign
  MaxSteps   \* bound: assignments and commands in a behaviour

AllFieldTitles == {"iw2", "iw3", "iw4", "iw4sp", "iw5", "qos", "t4", "t4sp"}

(* Key_StringToKeynum's "none" is the name of no key.                      *)
ASSUME FieldsAssumption ==
  /\ FieldTitles \subseteq AllFieldTitles
  /\ Moves \subseteq [forward : Int, right : Int]
  /\ Values \subseteq Int
  /\ "none" \notin Keys

VARIABLES
  fieldTitle,
  entities,  \* gentity_s: health, flags (bit 0 is FL_GODMODE)
  clients,   \* gclient_s: the fields that are memory, buttons and
             \* buttonsSinceLastFrame
  commands,  \* lastUsercmd of each client
  told,      \* entity -> field -> what was assigned to it last
  engineFlags, \* the flags but bit 0, which belong to the engine
  announced, \* client -> cheat -> what its command said of it last, "on" or
             \* "off"; "unknown" if none did since its field was assigned
  pressed,   \* buttons down in a command since the last frame
  keysDown,  \* of the host
  steps

fieldVars == <<fieldTitle, entities, clients, commands, told, engineFlags, announced, pressed, keysDown, steps>>

FieldEntities == Clients \cup Others
CLIENT_FIELD_MASK == 64   \* a bit above every index

-----------------------------------------------------------------------------
(* Tables *)

Memory(name)   == [name |-> name, setter |-> "memory", getter |-> "memory"]
Own(name)      == [name |-> name, setter |-> name, getter |-> name]
ReadOnly(name) == [name |-> name, setter |-> "readonly", getter |-> name]

(* Of the game's own fields one.                                           *)
retail_fields == <<Memory("deaths")>>

iw3_fields ==
  retail_fields \o <<Memory("noclip"), Memory("ufo"), Own("entityflags"),
                     ReadOnly("forwardmove"), ReadOnly("rightmove"), ReadOnly("isbot")>>
iw4_fields == retail_fields \o <<Memory("clientflags"), Own("entityflags")>>
iw4sp_fields == retail_fields \o <<Memory("clientflags"), Own("entityflags")>>
t4_fields == retail_fields \o <<Memory("noclip"), Memory("ufo"), Own("god")>>
t4sp_fields == retail_fields \o <<Memory("noclip"), Memory("ufo"), Own("god")>>
qos_fields == <<Memory("noclip"), Memory("ufo"), Own("entityflags")>>

fields_extended ==
  CASE fieldTitle = "iw3" -> iw3_fields [] fieldTitle = "iw4" -> iw4_fields [] fieldTitle = "iw4sp" -> iw4sp_fields
    [] fieldTitle = "t4" -> t4_fields [] fieldTitle = "t4sp" -> t4sp_fields [] fieldTitle = "qos" -> qos_fields
    [] OTHER -> <<>>

(* QoS leaves the game's table in place and adds its own behind it; IW2 and *)
(* IW5 register no field.                                                  *)
CLIENT_FIELD_OFFSET_START ==
  IF fieldTitle \in {"qos", "iw2", "iw5"} THEN Len(retail_fields) ELSE 0

FieldAt(index) ==
  IF index < CLIENT_FIELD_OFFSET_START THEN retail_fields[index + 1]
  ELSE fields_extended[index - CLIENT_FIELD_OFFSET_START + 1]

Indices == 0..CLIENT_FIELD_OFFSET_START + Len(fields_extended) - 1

(* Values that methods set and get instead.                                *)
methodFields ==
  CASE fieldTitle = "iw5" -> {Memory("clientflags"), Own("entityflags")}
    [] fieldTitle \in {"iw2", "iw3", "qos", "t4"} -> {Memory("velocity")}
    [] OTHER -> {}

FieldNames == {FieldAt(i).name : i \in Indices}
MethodNames == {f.name : f \in methodFields}
Names == FieldNames \cup MethodNames \cup {"health"}

(* GScr_AddFieldsForClient: the offset under which the engine knows a name; *)
(* health is an entity's own field.                                        *)
OffsetOf(name) ==
  IF name = "health" THEN 1
  ELSE CLIENT_FIELD_MASK + CHOOSE i \in Indices : FieldAt(i).name = name

IsClientField(offset) == offset >= CLIENT_FIELD_MASK
Stripped(offset) == offset - CLIENT_FIELD_MASK

FieldOf(name) ==
  IF name \in MethodNames THEN CHOOSE f \in methodFields : f.name = name
  ELSE FieldAt(Stripped(OffsetOf(name)))
OfClient(name) == name \in MethodNames \/ IsClientField(OffsetOf(name))

-----------------------------------------------------------------------------
(* Setters and getters *)

(* Mutant: turning god mode on or off overwrites the other flags. *)
WithGodWhole(flags, v) == IF v # 0 THEN 1 ELSE 0
God(flags) == flags % 2
WithGod(flags, v) == 2 * (flags \div 2) + (IF v # 0 THEN 1 ELSE 0)

SetClientField(e, field, v) ==
  \/ /\ field.setter = "memory" /\ e \in Clients
     /\ clients' = [clients EXCEPT ![e].memory[field.name] = v]
     /\ UNCHANGED entities
  \/ /\ field.setter = "entityflags"
     /\ entities' = [entities EXCEPT ![e].flags = v]
     /\ UNCHANGED clients
  \/ /\ field.setter = "god"
     /\ entities' = [entities EXCEPT ![e].flags = WithGod(@, v)]
     /\ UNCHANGED clients

(* IW3 reads the one stick for the other.                                  *)
GetClientField(e, field) ==
  CASE field.getter = "memory" -> clients[e].memory[field.name]
    [] field.getter = "entityflags" -> entities[e].flags
    [] field.getter = "god" -> God(entities[e].flags)
    [] field.getter = "forwardmove" -> commands[e].right
    [] field.getter = "rightmove" -> commands[e].forward
    [] field.getter = "isbot" -> IF e \in Bots THEN 1 ELSE 0

(* An entity without a client has no client fields; only IW5's method for  *)
(* the entity's flags asks for none.                                       *)
Has(e, name) ==
  \/ e \in Clients \/ name = "health"
  \/ fieldTitle = "iw5" /\ name = "entityflags"

GetObjectField(e, name) ==
  IF OfClient(name) THEN GetClientField(e, FieldOf(name)) ELSE entities[e].health

-----------------------------------------------------------------------------
(* Buttons *)

(* What a method tells: a button, or the stick pushed to one side.         *)
Button(button)   == [of |-> button, sign |-> 0]
Stick(axis, sign) == [of |-> axis, sign |-> sign]

iw2_buttons ==
  [adsbuttonpressed |-> Button("ads"), jumpbuttonpressed |-> Button("jump"),
   fragbuttonpressed |-> Button("frag"), smokebuttonpressed |-> Button("smoke"),
   forwardbuttonpressed |-> Stick("forward", 1), backbuttonpressed |-> Stick("forward", -1),
   leftbuttonpressed |-> Stick("right", -1), rightbuttonpressed |-> Stick("right", 1)]
iw3_buttons ==
  [sprintbreathbuttonpressed |-> Button("sprint"), leanleftbuttonpressed |-> Button("leanleft"),
   leanrightbuttonpressed |-> Button("leanright"), jumpbuttonpressed |-> Button("jump"),
   holdbreathbuttonpressed |-> Button("holdbreath"), nightvisionbuttonpressed |-> Button("nightvision"),
   forwardbuttonpressed |-> Stick("forward", 1), backbuttonpressed |-> Stick("forward", -1),
   leftbuttonpressed |-> Stick("right", -1), rightbuttonpressed |-> Stick("right", 1)]
t4_buttons == [sprintbuttonpressed |-> Button("sprint"), jumpbuttonpressed |-> Button("jump")]
t4sp_buttons ==
  [jumpbuttonpressed |-> Button("jump"), secondaryoffhandbuttonpressed |-> Button("smoke"),
   sprintbuttonpressed |-> Button("sprint")]
t4sp_sticks ==
  [moveforwardbuttonpressed |-> Stick("forward", 1), movebackbuttonpressed |-> Stick("forward", -1),
   moveleftbuttonpressed |-> Stick("right", -1), moverightbuttonpressed |-> Stick("right", 1)]
t4sp_methods ==
  [m \in DOMAIN t4sp_buttons \cup DOMAIN t4sp_sticks |->
     IF m \in DOMAIN t4sp_buttons THEN t4sp_buttons[m] ELSE t4sp_sticks[m]]
qos_buttons ==
  [adsbuttonpressed |-> Button("ads"), jumpbuttonpressed |-> Button("jump"),
   nextfiretypebuttonpressed |-> Button("nextfiretype"), sprintbuttonpressed |-> Button("sprint")]

buttonMethods ==
  CASE fieldTitle = "iw2" -> iw2_buttons [] fieldTitle = "iw3" -> iw3_buttons [] fieldTitle = "t4" -> t4_buttons
    [] fieldTitle = "t4sp" -> t4sp_methods [] fieldTitle = "qos" -> qos_buttons
    [] OTHER -> << >>

Buttons == {b.of : b \in {m \in Range(buttonMethods) : m.sign = 0}}

(* A button that is down, or was in a command since the frame before.      *)
buttonsPressed(c) == clients[c].buttonsSinceLastFrame \cup clients[c].buttons

Tells(c, method) ==
  LET m == buttonMethods[method] IN
  CASE m.sign = 0 -> m.of \in buttonsPressed(c)
    [] m.sign = 1 -> commands[c][m.of] > 0
    [] m.sign = -1 -> commands[c][m.of] < 0

(* GetForwardMove and GetRightMove of T4.                                  *)
ForwardMove(c) == commands[c].forward
RightMove(c) == commands[c].right

(* ButtonPressed: a key of the host, whoever is asked; a name of no key is *)
(* not down, and without a name there is a script error.                   *)
Key_StringToKeynum(name) == IF name \in Keys \ {"no key"} THEN name ELSE "none"
CL_IsKeyPressed(name) == Key_StringToKeynum(name) # "none" /\ name \in keysDown
PlayerCmd_ButtonPressed(e, name) ==
  fieldTitle \in {"iw2", "iw3", "qos", "t4"} /\ (e \in Clients \/ fieldTitle \in {"iw3", "t4"}) /\ CL_IsKeyPressed(name)

-----------------------------------------------------------------------------
(* Cheats *)

Cheats == {"noclip", "ufo", "god", "demigod"}

(* FL_GODMODE and FL_DEMI_GODMODE of an entity, CF_NOCLIP and CF_UFO of a   *)
(* client of IW4; in IW3 a client has a member for either.                 *)
FieldOfCheat(cheat) ==
  IF cheat \in {"god", "demigod"} THEN "entityflags" ELSE IF fieldTitle = "iw3" THEN cheat ELSE "clientflags"
FlagOf(cheat) == IF cheat \in {"noclip", "god"} THEN 1 ELSE 2

HasFlag(flags, flag) == (flags \div flag) % 2 = 1

ToggleFlag(flags, flag) == IF HasFlag(flags, flag) THEN flags - flag ELSE flags + flag

IsOn(c, cheat) ==
  CASE FieldOfCheat(cheat) = "entityflags" -> HasFlag(entities[c].flags, FlagOf(cheat))
    [] FieldOfCheat(cheat) = "clientflags" -> HasFlag(clients[c].memory["clientflags"], FlagOf(cheat))
    [] OTHER -> clients[c].memory[cheat] # 0

(* IW3: a command that CheatsOk refuses changes nothing.                   *)
Iw3Noclip(c, cheat) ==
  /\ cheat \in {"noclip", "ufo"}
  /\ clients' = [clients EXCEPT ![c].memory[cheat] = IF @ = 0 THEN 1 ELSE 0]
  /\ UNCHANGED entities
Iw3God(c, cheat) ==
  /\ cheat = "god"
  /\ entities' = [entities EXCEPT ![c].flags = IF God(@) = 0 THEN @ + 1 ELSE @ - 1]
  /\ UNCHANGED clients

(* IW4 asks nothing.                                                       *)
Iw4ClientFlag(c, cheat) ==
  /\ cheat \in {"noclip", "ufo"}
  /\ clients' = [clients EXCEPT ![c].memory["clientflags"] = ToggleFlag(@, FlagOf(cheat))]
  /\ UNCHANGED entities
Iw4EntityFlag(c, cheat) ==
  /\ cheat \in {"god", "demigod"}
  /\ entities' = [entities EXCEPT ![c].flags = ToggleFlag(@, FlagOf(cheat))]
  /\ UNCHANGED clients

(* What the player reads of it: GAME_NOCLIPON and its like.                *)
CommandMessage(c, cheat) == IF IsOn(c, cheat) THEN "off" ELSE "on"

-----------------------------------------------------------------------------
(* Steps *)

Step == steps < MaxSteps /\ steps' = steps + 1

(* What a script that has assigned v to the field reads back.              *)
Normal(name, v) == IF name = "god" /\ v # 0 THEN 1 ELSE v

Forget(e, fields) ==
  announced' = [c \in Clients |-> [cheat \in Cheats |->
                  IF c = e /\ FieldOfCheat(cheat) \in fields THEN "unknown" ELSE announced[c][cheat]]]

(* A read-only field, or a field the entity has not, is a script error.    *)
AssignField(e, name, v) ==
  /\ Step
  /\ Has(e, name)
  /\ IF OfClient(name)
     THEN SetClientField(e, FieldOf(name), v)
     ELSE entities' = [entities EXCEPT ![e].health = v] /\ UNCHANGED clients
  /\ told' = [told EXCEPT ![e][name] = Normal(name, v)]
  /\ engineFlags' = IF name = "entityflags" THEN [engineFlags EXCEPT ![e] = v \div 2] ELSE engineFlags
  /\ Forget(e, {name})
  /\ UNCHANGED <<fieldTitle, commands, pressed, keysDown>>

(* The engine turns its flag of an entity on or off.                       *)
EngineFlag(e) ==
  /\ Step
  /\ engineFlags' = [engineFlags EXCEPT ![e] = ToggleFlag(@, 1)]
  /\ entities' = [entities EXCEPT ![e].flags = (@ % 2) + 2 * engineFlags'[e]]
  /\ told' = [told EXCEPT ![e] =
                [n \in Names |-> IF n = "entityflags" THEN entities'[e].flags ELSE @[n]]]
  /\ Forget(e, {"entityflags"})
  /\ UNCHANGED <<fieldTitle, clients, commands, pressed, keysDown>>

(* ClientCommand_Hook: in IW3 a word that begins with the name of a cheat,  *)
(* in IW4 the name; other words go to the game.                            *)
ClientCommand(c, cheat) ==
  /\ Step
  /\ \/ fieldTitle = "iw3" /\ (Iw3Noclip(c, cheat) \/ Iw3God(c, cheat))
     \/ fieldTitle = "iw4" /\ (Iw4ClientFlag(c, cheat) \/ Iw4EntityFlag(c, cheat))
  /\ announced' = [announced EXCEPT ![c][cheat] = CommandMessage(c, cheat)]
  /\ told' = [told EXCEPT ![c][FieldOfCheat(cheat)] =
                LET change == IF CommandMessage(c, cheat) = "on" THEN FlagOf(cheat) ELSE -FlagOf(cheat)
                IN IF FieldOfCheat(cheat) # cheat THEN @ + change ELSE IF @ = 0 THEN 1 ELSE 0]
  /\ engineFlags' = IF cheat = "demigod" THEN [engineFlags EXCEPT ![c] = ToggleFlag(@, 1)] ELSE engineFlags
  /\ UNCHANGED <<fieldTitle, commands, pressed, keysDown>>

(* A command of the player; several may come between two frames.           *)
UserCommand(c, move, down) ==
  /\ Step
  /\ commands' = [commands EXCEPT ![c] = [forward |-> move.forward, right |-> move.right, buttons |-> down]]
  /\ clients' = [clients EXCEPT ![c].buttons = down, ![c].buttonsSinceLastFrame = @ \cup down]
  /\ pressed' = [pressed EXCEPT ![c] = @ \cup down]
  /\ UNCHANGED <<fieldTitle, entities, told, engineFlags, announced, keysDown>>

(* The host's pad.                                                         *)
HostKey(key) ==
  /\ Step
  /\ keysDown' = IF key \in keysDown THEN keysDown \ {key} ELSE keysDown \cup {key}
  /\ UNCHANGED <<fieldTitle, entities, clients, commands, told, engineFlags, announced, pressed>>

(* The scripts of the frame have run.                                      *)
EndFrame ==
  /\ clients' = [c \in Clients |-> [clients[c] EXCEPT !.buttonsSinceLastFrame = {}]]
  /\ pressed' = [c \in Clients |-> {}]
  /\ UNCHANGED <<fieldTitle, entities, commands, told, engineFlags, announced, keysDown, steps>>

FieldsInit ==
  /\ fieldTitle \in FieldTitles
  /\ entities = [e \in FieldEntities |-> [health |-> 0, flags |-> 0]]
  /\ clients = [c \in Clients |-> [memory |-> [n \in Names |-> 0], buttons |-> {}, buttonsSinceLastFrame |-> {}]]
  /\ commands = [c \in Clients |-> [forward |-> 0, right |-> 0, buttons |-> {}]]
  /\ told = [e \in FieldEntities |-> [n \in Names |-> 0]]
  /\ engineFlags = [e \in FieldEntities |-> 0]
  /\ announced = [c \in Clients |-> [cheat \in Cheats |-> "unknown"]]
  /\ pressed = [c \in Clients |-> {}]
  /\ keysDown = {}
  /\ steps = 0

FieldsNext ==
  \/ \E e \in FieldEntities, name \in Names, v \in Values : AssignField(e, name, v)
  \/ \E e \in FieldEntities : EngineFlag(e)
  \/ \E c \in Clients, cheat \in Cheats : ClientCommand(c, cheat)
  \/ \E c \in Clients, move \in Moves : UserCommand(c, move, {})
  \/ \E c \in Clients, b \in Buttons : UserCommand(c, [forward |-> 0, right |-> 0], {b})
  \/ \E key \in Keys \ {"no key"} : HostKey(key)
  \/ EndFrame

FieldsSpec == FieldsInit /\ [][FieldsNext]_fieldVars

-----------------------------------------------------------------------------
(* A script reads what was assigned last to that field of that entity, as  *)
(* the commands of the player have changed it since, whatever else was      *)
(* assigned to it or to others.                                            *)
FieldsHoldTheirValue ==
  \A e \in FieldEntities : \A n \in Names :
    Has(e, n) /\ (OfClient(n) => FieldOf(n).setter # "readonly") => GetObjectField(e, n) = told[e][n]

(* The plugin's fields leave the engine's flags as they are.               *)
EngineKeepsItsFlags == \A e \in FieldEntities : entities[e].flags \div 2 = engineFlags[e]

(* What a player was told of a cheat is so, until a script or the engine    *)
(* assigns its field, whichever other cheats share it (cmds.cpp).          *)
CheatsAsAnnounced ==
  \A c \in Clients, cheat \in Cheats :
    announced[c][cheat] # "unknown" => (IsOn(c, cheat) <=> announced[c][cheat] = "on")

(* What a method of that name tells, in whichever title (docs of each).    *)
Meaning(method, c) ==
  LET held(b) == b \in pressed[c] \cup commands[c].buttons IN
  CASE method = "adsbuttonpressed" -> held("ads")
    [] method = "jumpbuttonpressed" -> held("jump")
    [] method = "fragbuttonpressed" -> held("frag")
    [] method \in {"smokebuttonpressed", "secondaryoffhandbuttonpressed"} -> held("smoke")
    [] method \in {"sprintbuttonpressed", "sprintbreathbuttonpressed"} -> held("sprint")
    [] method = "leanleftbuttonpressed" -> held("leanleft")
    [] method = "leanrightbuttonpressed" -> held("leanright")
    [] method = "holdbreathbuttonpressed" -> held("holdbreath")
    [] method = "nightvisionbuttonpressed" -> held("nightvision")
    [] method = "nextfiretypebuttonpressed" -> held("nextfiretype")
    [] method \in {"forwardbuttonpressed", "moveforwardbuttonpressed"} -> ForwardMove(c) > 0
    [] method \in {"backbuttonpressed", "movebackbuttonpressed"} -> ForwardMove(c) < 0
    [] method \in {"leftbuttonpressed", "moveleftbuttonpressed"} -> RightMove(c) < 0
    [] method \in {"rightbuttonpressed", "moverightbuttonpressed"} -> RightMove(c) > 0

(* A press is seen by the scripts of the frame, however short it was, and  *)
(* by those of a later one only while the button is down; a method of one  *)
(* name tells the same in every title, and ButtonPressed tells of the host.*)
PressesAreSeen ==
  /\ \A c \in Clients : \A m \in DOMAIN buttonMethods : Tells(c, m) <=> Meaning(m, c)
  /\ fieldTitle \in {"iw2", "iw3", "qos", "t4"} =>
       \A c \in Clients, key \in Keys : PlayerCmd_ButtonPressed(c, key) <=> key \in keysDown

(* A script reads of a player what was assigned last, the engine's flags   *)
(* survive the assignment, a player's cheats are what he was told of them, *)
(* and each press is seen once (Scr_SetClientField,                        *)
(* Scr_GetObjectField_Hook, ClientCommand_Hook, the ButtonPressed methods).*)
FieldsAnswer == FieldsHoldTheirValue /\ EngineKeepsItsFlags /\ CheatsAsAnnounced /\ PressesAreSeen

(* forwardmove and rightmove are the movement forward and to the right     *)
(* (docs/iw3.md), as the button methods tell it.                           *)
MovementAsDocumented ==
  fieldTitle = "iw3" => \A c \in Clients :
    /\ (GetObjectField(c, "forwardmove") > 0) = Tells(c, "forwardbuttonpressed")
    /\ (GetObjectField(c, "forwardmove") < 0) = Tells(c, "backbuttonpressed")
    /\ (GetObjectField(c, "rightmove") > 0) = Tells(c, "rightbuttonpressed")
    /\ (GetObjectField(c, "rightmove") < 0) = Tells(c, "leftbuttonpressed")
=============================================================================
