------------------------------- MODULE BotOrders -------------------------------
(***************************************************************************)
(* What the bot methods of the script language promise, whatever the       *)
(* title: a test client does what the scripts have told it to do since it  *)
(* joined, and nothing that was told to whoever had its slot before.       *)
(* Commands are sets of the inputs held down: "fire" and "move".           *)
(***************************************************************************)
CONSTANTS Clients, NoClient, Stock

VARIABLES
  travel,  \* a bot moves to a destination (IW3) rather than in a direction
  bots,    \* the slots held by a test client
  orders,  \* per slot: [inputs, mirror], what the scripts have ordered
  absent,  \* per slot: its player is watching a killcam
  ucmd     \* per slot: the last user command the server has run for it

vars == <<travel, bots, orders, absent, ucmd>>

Inputs == {"fire", "move"}
Idle == {}
NoOrders == [inputs |-> Idle, mirror |-> NoClient]

(* What the orders o become when a script calls one more method.           *)
Obeying(o, order) ==
  CASE order \in Inputs      -> [o EXCEPT !.inputs = @ \union {order}]
    [] order = "hold fire"   -> [o EXCEPT !.inputs = @ \ {"fire"}]
    [] order = "halt"        -> [o EXCEPT !.inputs = @ \ {"move"}]
    [] order = "stop"        -> NoOrders
    [] order \in Clients     -> [o EXCEPT !.mirror = order]

Orders == Inputs \union Clients \union {"hold fire", "halt", "stop"}

Init ==
  /\ travel \in BOOLEAN
  /\ bots = {}
  /\ orders = [c \in Clients |-> NoOrders]
  /\ absent = [c \in Clients |-> FALSE]
  /\ ucmd = [c \in Clients |-> Idle]

(* A test client takes a free slot: it has no orders but, perhaps, one     *)
(* from the callback that runs while it joins.                             *)
Join(c) ==
  /\ c \notin bots
  /\ bots' = bots \union {c}
  /\ \/ orders' = [orders EXCEPT ![c] = NoOrders]
     \/ \E order \in Orders : orders' = [orders EXCEPT ![c] = Obeying(NoOrders, order)]
  /\ ucmd' = [ucmd EXCEPT ![c] = Idle]
  /\ absent' = [absent EXCEPT ![c] = FALSE]

Leave(c) ==
  /\ c \in bots
  /\ bots' = bots \ {c}
  /\ orders' = [orders EXCEPT ![c] = NoOrders]
  /\ UNCHANGED <<absent, ucmd>>

Order(c) ==
  /\ c \in bots
  /\ \E order \in Orders \ {c} : orders' = [orders EXCEPT ![c] = Obeying(@, order)]
  /\ UNCHANGED <<bots, absent, ucmd>>

(* One command of a bot: its orders; a mirroring bot repeats the last      *)
(* command of the client it mirrors; a bot without orders may be left to   *)
(* the stock behaviour; the bot of a player in a killcam may stand still.  *)
(* A bot that has reached its destination no longer moves.                 *)
Act(c) ==
  /\ c \in bots
  /\ \/ /\ ucmd' = [ucmd EXCEPT ![c] =
               IF orders[c].mirror \in Clients THEN ucmd[orders[c].mirror] ELSE orders[c].inputs]
        /\ \/ UNCHANGED orders
           \/ travel /\ orders' = [orders EXCEPT ![c].inputs = @ \ {"move"}]
     \/ /\ travel /\ "move" \in orders[c].inputs /\ orders[c].mirror = NoClient
        /\ ucmd' = [ucmd EXCEPT ![c] = orders[c].inputs \ {"move"}]
        /\ orders' = [orders EXCEPT ![c].inputs = @ \ {"move"}]
     \/ /\ orders[c] = NoOrders
        /\ ucmd' = [ucmd EXCEPT ![c] = Stock]
        /\ UNCHANGED orders
     \/ /\ absent[c]
        /\ ucmd' = [ucmd EXCEPT ![c] = Idle]
        /\ UNCHANGED orders
  /\ UNCHANGED <<bots, absent>>

(* A human player: joins, leaves, plays; anyone may enter a killcam.       *)
Player(c) ==
  /\ c \notin bots
  /\ ucmd' \in {[ucmd EXCEPT ![c] = cmd] : cmd \in SUBSET Inputs}
  /\ absent' \in {absent, [absent EXCEPT ![c] = FALSE]}
  /\ UNCHANGED <<bots, orders>>

Killcam(c) ==
  /\ absent' = [absent EXCEPT ![c] = ~@]
  /\ UNCHANGED <<bots, orders, ucmd>>

(* A new script session starts from no orders.                             *)
Forget ==
  /\ orders' = [c \in Clients |-> NoOrders]
  /\ UNCHANGED <<bots, absent, ucmd>>

Step ==
  \/ \E c \in Clients : Join(c) \/ Leave(c) \/ Order(c) \/ Act(c) \/ Player(c) \/ Killcam(c)
  \/ Forget

Next == Step /\ UNCHANGED travel

Spec == Init /\ [][Next]_vars
=============================================================================
