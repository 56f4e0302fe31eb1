------------------------------ MODULE BotControl ------------------------------
(***************************************************************************)
(* Test clients driven by scripts, in the five titles that have them       *)
(* (sv_bots.cpp of iw2, iw3, iw4 and t4, bots.cpp of iw5).  Script methods *)
(* leave orders in an array indexed by client slot; a hook in the server's *)
(* frame turns the entry of a slot into that client's user command.  The   *)
(* entry outlives a handler: who may write it, who clears it and when      *)
(* differs from title to title.  Weapon selection is in BotWeapons, names  *)
(* in TestClientNames.                                                     *)
(*                                                                         *)
(* A command is the set of inputs held down, "fire" standing for a button. *)
(***************************************************************************)
EXTENDS Naturals

CONSTANTS
  Clients,         \* client slots
  NoClient,
  Stock,           \* the movement the engine makes up for an idle test client
  Titles,          \* which of the five titles may be running
  ReuseTitles,     \* titles where a slot may change hands in a script session
  CallbackTitles   \* titles whose connect callback may order the new client

AllTitles == {"iw2", "iw3", "iw4", "iw5", "t4"}

ASSUME BotControlAssumption ==
  /\ NoClient \notin Clients
  /\ Clients \cap {"fire", "move", "hold fire", "halt", "stop"} = {}
  /\ Stock \notin SUBSET {"fire", "move"}
  /\ Titles \subseteq AllTitles
  /\ ReuseTitles \subseteq AllTitles
  /\ CallbackTitles \subseteq AllTitles

VARIABLES
  title,   \* the title that is running
  kind,    \* per slot: "free", "human" or "bot"
  held,    \* g_botai / botMovement: inputs ordered, and "active" (iw4, iw5)
  mirror,  \* mirror_client_num while is_mirroring_client (iw3)
  absent,  \* archiveTime # 0: the player watches a killcam
  ucmd,    \* lastUsercmd: what SV_ClientThink was last given
  used,    \* the slot has had an occupant in this script session
  told     \* a script has ordered the bot in this slot since it joined

vars == <<title, kind, held, mirror, absent, ucmd, used, told>>

Inputs == {"fire", "move"}
Idle == {}

Init ==
  /\ title \in Titles
  /\ kind = [c \in Clients |-> "free"]
  /\ held = [c \in Clients |-> {}]
  /\ mirror = [c \in Clients |-> NoClient]
  /\ absent = [c \in Clients |-> FALSE]
  /\ ucmd = [c \in Clients |-> Idle]
  /\ used = [c \in Clients |-> FALSE]
  /\ told = [c \in Clients |-> FALSE]

Entry(c) == [held |-> held[c], mirror |-> mirror[c]]
Cleared == [held |-> {}, mirror |-> NoClient]

-----------------------------------------------------------------------------
(* Script methods: the entry e after one call.  An input is "+" by its     *)
(* name; "hold fire" is botaction("-fire"), "halt" is botmovement(0, 0).   *)

IW2Order(e, order) ==
  CASE order \in Inputs    -> [e EXCEPT !.held = @ \union {order}]
    [] order = "hold fire" -> [e EXCEPT !.held = @ \ {"fire"}]
    [] order = "halt"      -> [e EXCEPT !.held = @ \ {"move"}]
    [] order = "stop"      -> [e EXCEPT !.held = {}]

(* botmoveto moves until the bot arrives: there is no "halt".              *)
IW3Order(e, order) ==
  CASE order \in Inputs    -> [e EXCEPT !.held = @ \union {order}]
    [] order = "hold fire" -> [e EXCEPT !.held = @ \ {"fire"}]
    [] order \in Clients   -> [e EXCEPT !.mirror = order]
    [] order = "stop"      -> [held |-> {}, mirror |-> NoClient]

T4Order(e, order) ==
  CASE order \in Inputs    -> [e EXCEPT !.held = @ \union {order}]
    [] order = "hold fire" -> [e EXCEPT !.held = @ \ {"fire"}]
    [] order = "halt"      -> [e EXCEPT !.held = @ \ {"move"}]
    [] order = "stop"      -> [e EXCEPT !.held = {}]

(* Every method marks the entry active.                                    *)
IW4Order(e, order) ==
  CASE order \in Inputs    -> [e EXCEPT !.held = @ \union {order, "active"}]
    [] order = "hold fire" -> [e EXCEPT !.held = (@ \ {"fire"}) \union {"active"}]
    [] order = "halt"      -> [e EXCEPT !.held = (@ \ {"move"}) \union {"active"}]
    [] order = "stop"      -> [e EXCEPT !.held = {"active"}]

IW5Order(e, order) ==
  CASE order \in Inputs    -> [e EXCEPT !.held = @ \union {order, "active"}]
    [] order = "hold fire" -> [e EXCEPT !.held = (@ \ {"fire"}) \union {"active"}]
    [] order = "halt"      -> [e EXCEPT !.held = (@ \ {"move"}) \union {"active"}]
    [] order = "stop"      -> [e EXCEPT !.held = {"active"}]

Ordered(e, order) ==
  CASE title = "iw2" -> IW2Order(e, order)
    [] title = "iw3" -> IW3Order(e, order)
    [] title = "iw4" -> IW4Order(e, order)
    [] title = "iw5" -> IW5Order(e, order)
    [] title = "t4"  -> T4Order(e, order)

(* The methods of the running title, for the client in slot c.  IW3 has    *)
(* botmirror, which refuses the bot itself.                                *)
OrdersFor(c) ==
  Inputs \union {"hold fire", "stop"} \union
    IF title = "iw3" THEN {d \in Clients \ {c} : kind[d] # "free"} ELSE {"halt"}

(* IW2 refuses the methods on a human player (GetBot), the others do not.  *)
MayOrder(c) == IF title = "iw2" THEN kind[c] = "bot" ELSE kind[c] # "free"

ScriptOrder(c) ==
  /\ MayOrder(c)
  /\ \E order \in OrdersFor(c) :
       LET e == Ordered(Entry(c), order)
       IN  /\ held' = [held EXCEPT ![c] = e.held]
           /\ mirror' = [mirror EXCEPT ![c] = e.mirror]
  /\ told' = [told EXCEPT ![c] = TRUE]
  /\ UNCHANGED <<title, kind, absent, ucmd, used>>

-----------------------------------------------------------------------------
(* Clients come and go *)

(* IW2 clears the entry before the engine's SV_ClientEnterWorld runs the   *)
(* connect callback: this is the entry the callback finds.                 *)
IW2EnterWorld(c) == Cleared

(* IW5 clears the entry of a new test client once the callback is over,    *)
(* whatever the callback has made of it.                                   *)
IW5AddTestClientKeep(e) == e  \* mutant: the last client's entry is kept
IW5AddTestClient(e) == Cleared

(* The slot's entry when the client is in: the entry the callback found or *)
(* one that an order of the callback made of it.                           *)
Found(c) == IF title = "iw2" THEN IW2EnterWorld(c) ELSE Entry(c)
Left(newKind, e) == IF title = "iw5" /\ newKind = "bot" THEN IW5AddTestClient(e) ELSE e

Connect(c, newKind) ==
  /\ kind[c] = "free"
  /\ title \in ReuseTitles \/ ~used[c]
  /\ kind' = [kind EXCEPT ![c] = newKind]
  /\ used' = [used EXCEPT ![c] = TRUE]
  /\ ucmd' = [ucmd EXCEPT ![c] = Idle]
  /\ absent' = [absent EXCEPT ![c] = FALSE]
  /\ \/ LET e == Left(newKind, Found(c))
        IN  /\ held' = [held EXCEPT ![c] = e.held]
            /\ mirror' = [mirror EXCEPT ![c] = e.mirror]
            /\ told' = [told EXCEPT ![c] = FALSE]
     \/ /\ newKind = "bot" /\ title \in CallbackTitles
        /\ \E order \in OrdersFor(c) :
             LET e == Left(newKind, Ordered(Found(c), order))
             IN  /\ held' = [held EXCEPT ![c] = e.held]
                 /\ mirror' = [mirror EXCEPT ![c] = e.mirror]
        /\ told' = [told EXCEPT ![c] = TRUE]
  /\ UNCHANGED title

(* The slot's entry and last command stay behind.                          *)
Disconnect(c) ==
  /\ kind[c] # "free"
  /\ kind' = [kind EXCEPT ![c] = "free"]
  /\ told' = [told EXCEPT ![c] = FALSE]
  /\ UNCHANGED <<title, held, mirror, absent, ucmd, used>>

PlayerCommand(c) ==
  /\ kind[c] = "human"
  /\ \E cmd \in SUBSET Inputs : ucmd' = [ucmd EXCEPT ![c] = cmd]
  /\ UNCHANGED <<title, kind, held, mirror, absent, used, told>>

Killcam(c) ==
  /\ kind[c] # "free"
  /\ absent' = [absent EXCEPT ![c] = ~@]
  /\ UNCHANGED <<title, kind, held, mirror, ucmd, used, told>>

-----------------------------------------------------------------------------
(* The server's frame: the command of the bot in slot c *)

Sends(c, cmd) ==
  /\ ucmd' = [ucmd EXCEPT ![c] = cmd]
  /\ UNCHANGED <<title, kind, mirror, absent, used, told>>

IW2BotUserMove(c) ==
  /\ Sends(c, IF absent[c] THEN Idle ELSE held[c])
  /\ UNCHANGED held

(* Within 7 units of its destination the order to move is withdrawn, after *)
(* one last command that moves on unless the bot stands on the spot.       *)
IW3BotUserMove(c) ==
  IF absent[c]
  THEN Sends(c, Idle) /\ UNCHANGED held
  ELSE \E cmd \in {held[c], held[c] \ {"move"}}, near \in BOOLEAN :
         /\ near => "move" \in held[c]
         /\ cmd # held[c] => near
         /\ held' = [held EXCEPT ![c] = IF near THEN @ \ {"move"} ELSE @]
         /\ Sends(c, IF mirror[c] \in Clients THEN ucmd[mirror[c]] ELSE cmd)

(* An entry no script has written leaves a client that is not a bot to the *)
(* stock routine; for a bot the entry counts, active or not.               *)
IW4BotUserMove(c) ==
  /\ Sends(c, IF "active" \notin held[c] /\ kind[c] # "bot" THEN Stock ELSE held[c] \ {"active"})
  /\ UNCHANGED held

T4BotUserMove(c) == Sends(c, held[c]) /\ UNCHANGED held

IW5ClientThink(c) ==
  /\ Sends(c, IF "active" \in held[c] THEN held[c] \ {"active"} ELSE Stock)
  /\ UNCHANGED held

BotFrame(c) ==
  /\ kind[c] = "bot"
  /\ \/ title = "iw2" /\ IW2BotUserMove(c)
     \/ title = "iw3" /\ IW3BotUserMove(c)
     \/ title = "iw4" /\ IW4BotUserMove(c)
     \/ title = "iw5" /\ IW5ClientThink(c)
     \/ title = "t4" /\ T4BotUserMove(c)

-----------------------------------------------------------------------------
(* The end of a script session *)

ClearEntries ==
  /\ held' = [c \in Clients |-> {}]
  /\ mirror' = [c \in Clients |-> NoClient]

(* Scr_ShutdownSystem of IW2 and IW4, the complete one of IW3 and T4, the  *)
(* first Scr_GetFunction of a session in IW5.  The incomplete shutdown of  *)
(* IW3 and T4, between two rounds, leaves everything as it is.             *)
ScriptSessionEnds ==
  /\ ClearEntries
  /\ used' = [c \in Clients |-> kind[c] # "free"]
  /\ told' = [c \in Clients |-> FALSE]
  /\ UNCHANGED <<title, kind, absent, ucmd>>

Next ==
  \/ \E c \in Clients : \/ Connect(c, "bot") \/ Connect(c, "human") \/ Disconnect(c)
                        \/ PlayerCommand(c) \/ Killcam(c)
                        \/ ScriptOrder(c) \/ BotFrame(c)
  \/ ScriptSessionEnds

Spec == Init /\ [][Next]_vars

-----------------------------------------------------------------------------
(* Properties *)

(* The variables have the values the code can give them; only IW4 and IW5  *)
(* entries have an active flag, only IW3 entries mirror.                   *)
TypeOK ==
  /\ title \in Titles
  /\ kind \in [Clients -> {"free", "human", "bot"}]
  /\ held \in [Clients -> SUBSET (Inputs \union IF title \in {"iw4", "iw5"} THEN {"active"} ELSE {})]
  /\ mirror \in [Clients -> IF title = "iw3" THEN Clients \union {NoClient} ELSE {NoClient}]
  /\ absent \in [Clients -> BOOLEAN]
  /\ ucmd \in [Clients -> (SUBSET Inputs) \union {Stock}]
  /\ used \in [Clients -> BOOLEAN]
  /\ told \in [Clients -> BOOLEAN]

(* What the array of entries stands for: the orders of the bots.           *)
Abstract == INSTANCE BotOrders WITH
  travel <- title = "iw3",
  bots   <- {c \in Clients : kind[c] = "bot"},
  orders <- [c \in Clients |->
               IF kind[c] = "bot"
               THEN [inputs |-> held[c] \ {"active"}, mirror |-> mirror[c]]
               ELSE [inputs |-> Idle, mirror |-> NoClient]]

(* The hooks implement what the methods promise: each command of a bot is  *)
(* what scripts ordered that bot to do since it joined (BotOrders).        *)
ObeysOrders == Abstract!Spec

(* A bot some script has taken over is never handed back to the stock      *)
(* movement while it stays (the active flag of IW4 and IW5), except by the *)
(* end of the script session; and "archived clients must not act on the    *)
(* live player": a command run while the player is in a killcam holds      *)
(* nothing down (the guard of IW2's and IW3's SV_BotUserMove).             *)
KeepsControl ==
  [][\A c \in Clients :
       /\ told[c] /\ BotFrame(c) => ucmd'[c] # Stock
       /\ (title \in {"iw2", "iw3"} /\ absent[c] /\ kind[c] = "bot" /\ ucmd'[c] # ucmd[c])
            => ucmd'[c] = Idle]_vars

(* A bot does what its script ordered, nothing before it is ordered and    *)
(* nothing its predecessor was ordered: the control entries and the usercmd *)
(* hooks of the five titles implement BotOrders, and a command that was     *)
(* built keeps its orders.                                                  *)
BotsObey == []TypeOK /\ ObeysOrders /\ KeepsControl
=============================================================================
