--------------------------- MODULE TestClientsProofs ---------------------------
(***************************************************************************)
(* Proofs about the test clients of the five titles: their orders, for any *)
(* slots (BotControl), the weapons they ask for (BotWeapons) and the names *)
(* they get (TestClientNames).                                             *)
(*                                                                         *)
(* Orders: the entries implement BotOrders wherever a slot changes hands   *)
(* only in the titles that clear its entry for the new client, and connect *)
(* callbacks do not order the new bot in IW5, which clears the entry after *)
(* them.  The argument is about what is left in the entries of slots that  *)
(* no bot has: a slot nobody has had yet in this session is clear, and the *)
(* titles in which slots are used again clear the entry themselves.        *)
(***************************************************************************)
EXTENDS BotControl, BotWeapons, TestClientNames, WellFoundedInduction, TLAPS

-----------------------------------------------------------------------------
(* Orders *)

Entries == [held : SUBSET {"fire", "move", "active"}, mirror : Clients \union {NoClient}]

(* What an entry stands for.                                               *)
Meaning(e) == [inputs |-> e.held \ {"active"}, mirror |-> e.mirror]

(* BotOrders, order by order.                                              *)
Obeyed(o, order) == Abstract!Obeying(o, order)
AllOrders == Abstract!Orders

LEMMA PressingIs ==
  ASSUME NEW i, NEW m, NEW order \in {"fire", "move"}
  PROVE  Obeyed([inputs |-> i, mirror |-> m], order) = [inputs |-> i \union {order}, mirror |-> m]
BY BotControlAssumption DEF Obeyed, Abstract!Obeying, Abstract!Inputs

LEMMA ReleasingIs ==
  ASSUME NEW i, NEW m
  PROVE  /\ Obeyed([inputs |-> i, mirror |-> m], "hold fire")
              = [inputs |-> i \ {"fire"}, mirror |-> m]
         /\ Obeyed([inputs |-> i, mirror |-> m], "halt")
              = [inputs |-> i \ {"move"}, mirror |-> m]
BY BotControlAssumption DEF Obeyed, Abstract!Obeying, Abstract!Inputs

LEMMA StoppingIs ==
  ASSUME NEW o
  PROVE  Obeyed(o, "stop") = [inputs |-> {}, mirror |-> NoClient]
BY BotControlAssumption
   DEF Obeyed, Abstract!Obeying, Abstract!Inputs, Abstract!NoOrders, Abstract!Idle

LEMMA MirroringIs ==
  ASSUME NEW i, NEW m, NEW order \in Clients
  PROVE  Obeyed([inputs |-> i, mirror |-> m], order) = [inputs |-> i, mirror |-> order]
BY BotControlAssumption DEF Obeyed, Abstract!Obeying, Abstract!Inputs

(* What the methods of a title make of the inputs held, and of the client  *)
(* that is mirrored.                                                       *)
Active == IF title \in {"iw4", "iw5"} THEN {"active"} ELSE {}

(* An entry that a method has made.                                        *)
Method(e, o, order) ==
  /\ Meaning(o) = Obeyed(Meaning(e), order)
  /\ o \in Entries
  /\ title \in {"iw2", "iw3", "t4"} /\ "active" \notin e.held => "active" \notin o.held
  /\ title \in {"iw4", "iw5"} => "active" \in o.held
  /\ title # "iw3" => o.mirror = NoClient

LEMMA MethodMade ==
  ASSUME NEW e \in Entries, NEW order, NEW STATE o, NEW Y,
         NEW STATE X, X \in SUBSET {"fire", "move", "active"},
         NEW m \in Clients \union {NoClient},
         o = [held |-> X, mirror |-> m],
         X \ {"active"} = Y,
         Obeyed(Meaning(e), order) = [inputs |-> Y, mirror |-> m],
         title # "iw3" => m = NoClient,
         title \in {"iw2", "iw3", "t4"} /\ "active" \notin e.held => "active" \notin X,
         title \in {"iw4", "iw5"} => "active" \in X
  PROVE  Method(e, o, order)
<1>1. Meaning(o) = [inputs |-> Y, mirror |-> m]
  BY DEF Meaning
<1>2. o.held = X /\ o.mirror = m
  OBVIOUS
<1>3. o \in Entries
  BY DEF Entries
<1> QED
  BY <1>1, <1>2, <1>3 DEF Method

(* Every method does to what the entry stands for what BotOrders has it do *)
(* to the orders, in each title.                                           *)
LEMMA MethodsObey ==
  ASSUME title \in AllTitles, NEW e \in Entries, NEW c \in Clients, NEW order \in OrdersFor(c),
         title # "iw3" => e.mirror = NoClient
  PROVE  order \in AllOrders \ {c} /\ Method(e, Ordered(e, order), order)
<1> USE BotControlAssumption
<1>m. e.held \in SUBSET {"fire", "move", "active"} /\ e.mirror \in Clients \union {NoClient}
      /\ e = [held |-> e.held, mirror |-> e.mirror]
  BY DEF Entries
<1>a. Active \subseteq {"active"} /\ (title \in {"iw4", "iw5"} <=> "active" \in Active)
  BY DEF Active
<1>n. Meaning(e) = [inputs |-> e.held \ {"active"}, mirror |-> e.mirror]
  BY DEF Meaning
<1>1. CASE order \in Inputs
  <2> DEFINE X == e.held \union {order} \union Active
             Y == (e.held \ {"active"}) \union {order}
  <2>1. order \in {"fire", "move"} /\ order \in AllOrders
    BY <1>1 DEF Inputs, AllOrders, Abstract!Orders, Abstract!Inputs
  <2>2. Obeyed(Meaning(e), order) = [inputs |-> Y, mirror |-> e.mirror]
    <3>1. Obeyed([inputs |-> e.held \ {"active"}, mirror |-> e.mirror], order) = [inputs |-> Y, mirror |-> e.mirror]
      BY <2>1, PressingIs
    <3> QED
      BY <3>1 DEF Meaning
  <2>3. Ordered(e, order) = [held |-> X, mirror |-> e.mirror]
    BY <1>m, <2>1 DEF Ordered, IW2Order, IW3Order, IW4Order, IW5Order, T4Order, AllTitles, Inputs,
       Active
  <2>4. X \ {"active"} = Y /\ X \in SUBSET {"fire", "move", "active"}
    BY <1>m, <1>a, <2>1
  <2>5. "active" \in X <=> "active" \in e.held \/ "active" \in Active
    BY <2>1
  <2>6. order \notin Clients
    BY <2>1
  <2> HIDE DEF X, Y
  <2>7. Method(e, Ordered(e, order), order)
    BY <1>m, <1>a, <2>2, <2>3, <2>4, <2>5, MethodMade
  <2> QED
    BY <2>1, <2>6, <2>7
<1>2. CASE order = "hold fire"
  <2> DEFINE X == (e.held \ {"fire"}) \union Active
             Y == (e.held \ {"active"}) \ {"fire"}
  <2>2. Obeyed(Meaning(e), order) = [inputs |-> Y, mirror |-> e.mirror]
    <3>1. Obeyed([inputs |-> e.held \ {"active"}, mirror |-> e.mirror], order) = [inputs |-> Y, mirror |-> e.mirror]
      BY <1>2, ReleasingIs
    <3> QED
      BY <3>1 DEF Meaning
  <2>3. Ordered(e, order) = [held |-> X, mirror |-> e.mirror]
    BY <1>m, <1>2 DEF Ordered, IW2Order, IW3Order, IW4Order, IW5Order, T4Order, AllTitles, Inputs,
       Active
  <2>4. X \ {"active"} = Y /\ X \in SUBSET {"fire", "move", "active"}
    BY <1>m, <1>a
  <2>5. "active" \in X <=> "active" \in e.held \/ "active" \in Active
    OBVIOUS
  <2>6. order \in AllOrders
    BY <1>2 DEF AllOrders, Abstract!Orders, Abstract!Inputs
  <2>7. order \notin Clients
    BY <1>2
  <2> HIDE DEF X, Y
  <2>8. Method(e, Ordered(e, order), order)
    BY <1>m, <1>a, <2>2, <2>3, <2>4, <2>5, MethodMade
  <2> QED
    BY <2>6, <2>7, <2>8
<1>3. CASE order = "halt"
  <2> DEFINE X == (e.held \ {"move"}) \union Active
             Y == (e.held \ {"active"}) \ {"move"}
  <2>1. title # "iw3"
    BY <1>3 DEF OrdersFor, Inputs
  <2>2. Obeyed(Meaning(e), order) = [inputs |-> Y, mirror |-> e.mirror]
    <3>1. Obeyed([inputs |-> e.held \ {"active"}, mirror |-> e.mirror], order) = [inputs |-> Y, mirror |-> e.mirror]
      BY <1>3, ReleasingIs
    <3> QED
      BY <3>1 DEF Meaning
  <2>3. Ordered(e, order) = [held |-> X, mirror |-> e.mirror]
    BY <1>m, <1>3, <2>1 DEF Ordered, IW2Order, IW4Order, IW5Order, T4Order, AllTitles, Inputs, Active
  <2>4. X \ {"active"} = Y /\ X \in SUBSET {"fire", "move", "active"}
    BY <1>m, <1>a
  <2>5. "active" \in X <=> "active" \in e.held \/ "active" \in Active
    OBVIOUS
  <2>6. order \in AllOrders
    BY <1>3 DEF AllOrders, Abstract!Orders, Abstract!Inputs
  <2>7. order \notin Clients
    BY <1>3
  <2> HIDE DEF X, Y
  <2>8. Method(e, Ordered(e, order), order)
    BY <1>m, <1>a, <2>2, <2>3, <2>4, <2>5, MethodMade
  <2> QED
    BY <2>6, <2>7, <2>8
<1>4. CASE order = "stop"
  <2>2. Obeyed(Meaning(e), order) = [inputs |-> {}, mirror |-> NoClient]
    <3>1. Obeyed([inputs |-> e.held \ {"active"}, mirror |-> e.mirror], order) = [inputs |-> {}, mirror |-> NoClient]
      BY <1>4, StoppingIs
    <3> QED
      BY <3>1 DEF Meaning
  <2>3. Ordered(e, order) = [held |-> Active, mirror |-> NoClient]
    BY <1>4, <1>m DEF Ordered, IW2Order, IW3Order, IW4Order, IW5Order, T4Order, AllTitles, Inputs,
       Active
  <2>4. Active \ {"active"} = {} /\ Active \in SUBSET {"fire", "move", "active"}
    BY <1>a
  <2>6. order \in AllOrders
    BY <1>4 DEF AllOrders, Abstract!Orders, Abstract!Inputs
  <2>7. order \notin Clients
    BY <1>4
  <2>8. Method(e, Ordered(e, order), order)
    BY <1>a, <2>2, <2>3, <2>4, MethodMade DEF AllTitles
  <2> QED
    BY <2>6, <2>7, <2>8
<1>5. CASE title = "iw3" /\ order \in Clients \ {c}
  <2>0. order \notin {"fire", "move", "hold fire", "halt", "stop"}
    BY <1>5
  <2>2. Obeyed(Meaning(e), order) = [inputs |-> e.held \ {"active"}, mirror |-> order]
    <3>1. Obeyed([inputs |-> e.held \ {"active"}, mirror |-> e.mirror], order) = [inputs |-> e.held \ {"active"}, mirror |-> order]
      BY <1>5, MirroringIs
    <3> QED
      BY <3>1 DEF Meaning
  <2>3. Ordered(e, order) = [held |-> e.held, mirror |-> order]
    BY <1>5, <1>m, <2>0 DEF Ordered, IW3Order, Inputs
  <2>6. order \in AllOrders
    BY <1>5 DEF AllOrders, Abstract!Orders, Abstract!Inputs
  <2>7. Method(e, Ordered(e, order), order)
    BY <1>m, <1>5, <2>2, <2>3, MethodMade
  <2> QED
    BY <1>5, <2>6, <2>7
<1> QED
  BY <1>1, <1>2, <1>3, <1>4, <1>5 DEF OrdersFor

(* What every entry of the array is like in the running title.             *)
EntryOK(e) ==
  /\ e \in Entries
  /\ title # "iw3" => e.mirror = NoClient
  /\ title \notin {"iw4", "iw5"} => "active" \notin e.held

LEMMA EntryTyped ==
  ASSUME TypeOK, NEW c \in Clients
  PROVE  /\ EntryOK(Entry(c)) /\ EntryOK(Cleared)
         /\ Meaning(Entry(c)) = [inputs |-> held[c] \ {"active"}, mirror |-> mirror[c]]
         /\ Meaning(Cleared) = [inputs |-> {}, mirror |-> NoClient]
<1>1. held[c] \in SUBSET {"fire", "move", "active"} /\ mirror[c] \in Clients \union {NoClient}
  BY DEF TypeOK, Inputs
<1>2. /\ title # "iw3" => mirror[c] = NoClient
      /\ title \notin {"iw4", "iw5"} => "active" \notin held[c]
  BY DEF TypeOK, Inputs
<1>3. EntryOK(Entry(c)) /\ EntryOK(Cleared)
  BY <1>1, <1>2 DEF EntryOK, Entry, Cleared, Entries
<1>4. Meaning(Entry(c)) = [inputs |-> held[c] \ {"active"}, mirror |-> mirror[c]]
  BY DEF Meaning, Entry
<1>5. Meaning(Cleared) = [inputs |-> {}, mirror |-> NoClient]
  BY DEF Meaning, Cleared
<1> QED
  BY <1>3, <1>4, <1>5

LEMMA MethodsKeep ==
  ASSUME TypeOK, NEW STATE e, EntryOK(e), NEW c \in Clients, NEW order \in OrdersFor(c)
  PROVE  /\ EntryOK(Ordered(e, order))
         /\ Meaning(Ordered(e, order)) = Obeyed(Meaning(e), order)
         /\ order \in AllOrders \ {c}
         /\ title = "iw5" => "active" \in Ordered(e, order).held
<1>1. title \in AllTitles
  BY BotControlAssumption DEF TypeOK
<1>2. e \in Entries /\ (title # "iw3" => e.mirror = NoClient)
  BY DEF EntryOK
<1>3. order \in AllOrders \ {c} /\ Method(e, Ordered(e, order), order)
  BY <1>1, <1>2, MethodsObey
<1> QED
  BY <1>1, <1>3 DEF Method, EntryOK, AllTitles

(* An entry is stored in the slot c.                                       *)
Stored(c, e) ==
  /\ held' = [held EXCEPT ![c] = e.held]
  /\ mirror' = [mirror EXCEPT ![c] = e.mirror]

LEMMA StoredTyped ==
  ASSUME TypeOK, NEW c \in Clients, NEW STATE e, EntryOK(e), Stored(c, e), title' = title
  PROVE  /\ held' \in [Clients -> SUBSET (Inputs \union IF title' \in {"iw4", "iw5"} THEN {"active"} ELSE {})]
         /\ mirror' \in [Clients -> IF title' = "iw3" THEN Clients \union {NoClient} ELSE {NoClient}]
<1>1. e.held \in SUBSET (Inputs \union IF title \in {"iw4", "iw5"} THEN {"active"} ELSE {})
  BY DEF EntryOK, Entries, Inputs
<1>2. e.mirror \in IF title = "iw3" THEN Clients \union {NoClient} ELSE {NoClient}
  BY DEF EntryOK, Entries
<1>3. held' \in [Clients -> SUBSET (Inputs \union IF title' \in {"iw4", "iw5"} THEN {"active"} ELSE {})]
  BY <1>1 DEF TypeOK, Stored
<1>4. mirror' \in [Clients -> IF title' = "iw3" THEN Clients \union {NoClient} ELSE {NoClient}]
  BY <1>2 DEF TypeOK, Stored
<1> QED
  BY <1>3, <1>4

(* The orders the entries stand for (the refinement of BotOrders).         *)
OrdersOf == [c \in Clients |->
               IF kind[c] = "bot"
               THEN [inputs |-> held[c] \ {"active"}, mirror |-> mirror[c]]
               ELSE [inputs |-> Idle, mirror |-> NoClient]]
BotsOf == {c \in Clients : kind[c] = "bot"}

LEMMA OneEntry ==
  ASSUME NEW c \in Clients,
         \A d \in Clients \ {c} : /\ kind'[d] = kind[d]
                                  /\ held'[d] = held[d] /\ mirror'[d] = mirror[d]
  PROVE  OrdersOf' = [OrdersOf EXCEPT ![c] = OrdersOf'[c]]
BY DEF OrdersOf

LEMMA StoredOne ==
  ASSUME TypeOK, NEW c \in Clients, NEW STATE e, EntryOK(e), Stored(c, e), kind'[c] = "bot",
         \A d \in Clients \ {c} : kind'[d] = kind[d]
  PROVE  OrdersOf' = [OrdersOf EXCEPT ![c] = Meaning(e)]
<1>1. \A d \in Clients \ {c} : held'[d] = held[d] /\ mirror'[d] = mirror[d]
  BY DEF Stored, TypeOK
<1>2. held'[c] = e.held /\ mirror'[c] = e.mirror
  BY DEF Stored, TypeOK
<1>3. OrdersOf'[c] = Meaning(e)
  BY <1>2 DEF OrdersOf, Meaning
<1> QED
  BY <1>1, <1>3, OneEntry

-----------------------------------------------------------------------------
(* The inductive invariant *)

(* A mirrored command is one of inputs.                                    *)
PlainCommands == title = "iw3" => \A c \in Clients : ucmd[c] \in SUBSET Inputs

(* An IW5 entry without its mark is empty, and not that of an ordered bot. *)
ActiveMarks ==
  title = "iw5" =>
    \A c \in Clients : /\ told[c] => "active" \in held[c]
                       /\ "active" \in held[c] \/ held[c] = {}

(* Where nothing clears the entry of a new client, a slot that nobody has  *)
(* had yet is clear.                                                       *)
NewSlotsClear ==
  /\ \A c \in Clients : kind[c] # "free" => used[c]
  /\ title \notin {"iw2", "iw5"} =>
       \A c \in Clients : ~used[c] => held[c] = {} /\ mirror[c] = NoClient

OrdersInv == TypeOK /\ PlainCommands /\ ActiveMarks /\ NewSlotsClear

LEMMA OrdersInvInit == Init => OrdersInv
<1> SUFFICES ASSUME Init PROVE OrdersInv
  OBVIOUS
<1>1. TypeOK
  BY DEF Init, TypeOK, Idle, Inputs
<1>2. PlainCommands /\ ActiveMarks /\ NewSlotsClear
  BY DEF Init, PlainCommands, ActiveMarks, NewSlotsClear, Idle
<1> QED
  BY <1>1, <1>2 DEF OrdersInv

(* A step that changes one slot, and leaves it in order, keeps it all.     *)
SlotOK(c) ==
  /\ title = "iw3" => ucmd[c] \in SUBSET Inputs
  /\ title = "iw5" => /\ told[c] => "active" \in held[c]
                      /\ "active" \in held[c] \/ held[c] = {}
  /\ kind[c] # "free" => used[c]
  /\ title \notin {"iw2", "iw5"} /\ ~used[c] => held[c] = {} /\ mirror[c] = NoClient

LEMMA SlotsOK ==
  OrdersInv <=> TypeOK /\ \A c \in Clients : SlotOK(c)
BY DEF OrdersInv, PlainCommands, ActiveMarks, NewSlotsClear, SlotOK

LEMMA OneSlot ==
  ASSUME OrdersInv, TypeOK', title' = title, NEW c \in Clients, SlotOK(c)',
         \A d \in Clients \ {c} :
           /\ kind'[d] = kind[d] /\ held'[d] = held[d] /\ mirror'[d] = mirror[d]
           /\ ucmd'[d] = ucmd[d] /\ used'[d] = used[d] /\ told'[d] = told[d]
  PROVE  OrdersInv'
<1>1. ASSUME NEW d \in Clients PROVE SlotOK(d)'
  <2>1. CASE d = c
    BY <2>1
  <2>2. CASE d # c
    <3>1. SlotOK(d)
      BY SlotsOK
    <3> QED
      BY <2>2, <3>1 DEF SlotOK
  <2> QED
    BY <2>1, <2>2
<1> QED
  BY <1>1, SlotsOK DEF OrdersInv, PlainCommands, ActiveMarks, NewSlotsClear, SlotOK

-----------------------------------------------------------------------------
(* The actions *)

Unordered == [inputs |-> {}, mirror |-> NoClient]

(* The title's hooks refine BotOrders and keep the invariant.              *)
Refined == OrdersInv' /\ (Abstract!Step \/ UNCHANGED <<BotsOf, OrdersOf, absent, ucmd>>)

(* A slot that no bot has has no orders.                                   *)
LEMMA NoBotNoOrders ==
  ASSUME NEW c \in Clients, kind[c] # "bot"
  PROVE  OrdersOf[c] = Unordered
BY DEF OrdersOf, Unordered, Idle

LEMMA OrderRefined ==
  ASSUME OrdersInv, NEW c \in Clients, ScriptOrder(c)
  PROVE  Refined
<1> USE DEF OrdersInv
<1>1. PICK order \in OrdersFor(c) : Stored(c, Ordered(Entry(c), order))
  BY DEF ScriptOrder, Stored
<1>2. /\ told' = [told EXCEPT ![c] = TRUE]
      /\ title' = title /\ kind' = kind /\ absent' = absent /\ ucmd' = ucmd /\ used' = used
      /\ kind[c] # "free"
  BY DEF ScriptOrder, MayOrder
<1> DEFINE e == Ordered(Entry(c), order)
<1>3. /\ EntryOK(e) /\ Meaning(e) = Obeyed(Meaning(Entry(c)), order) /\ order \in AllOrders \ {c}
      /\ title = "iw5" => "active" \in e.held
  BY EntryTyped, MethodsKeep
<1> HIDE DEF e
<1>4. TypeOK'
  <2>1. Stored(c, e)
    BY <1>1 DEF e
  <2>2. /\ held' \in [Clients -> SUBSET (Inputs \union IF title' \in {"iw4", "iw5"} THEN {"active"} ELSE {})]
        /\ mirror' \in [Clients -> IF title' = "iw3" THEN Clients \union {NoClient} ELSE {NoClient}]
    BY <1>2, <1>3, <2>1, StoredTyped
  <2>3. told' \in [Clients -> BOOLEAN]
    BY <1>2 DEF TypeOK
  <2> QED
    BY <1>2, <2>2, <2>3 DEF TypeOK
<1>5. \A d \in Clients \ {c} : held'[d] = held[d] /\ mirror'[d] = mirror[d] /\ told'[d] = told[d]
  BY <1>1, <1>2 DEF Stored, TypeOK
<1>6. held'[c] = e.held /\ mirror'[c] = e.mirror
  BY <1>1 DEF Stored, TypeOK, e
<1>7. SlotOK(c)'
  BY <1>2, <1>3, <1>6, SlotsOK DEF SlotOK
<1>8. OrdersInv'
  BY <1>2, <1>4, <1>5, <1>7, OneSlot
<1>9. CASE kind[c] = "bot"
  <2>1. OrdersOf' = [OrdersOf EXCEPT ![c] = Meaning(e)]
    BY <1>1, <1>2, <1>3, <1>9, StoredOne DEF e
  <2>2. OrdersOf[c] = Meaning(Entry(c))
    BY <1>9, EntryTyped DEF OrdersOf
  <2>3. BotsOf' = BotsOf /\ c \in BotsOf
    BY <1>2, <1>9 DEF BotsOf
  <2>4. OrdersOf' = [OrdersOf EXCEPT ![c] = Obeyed(@, order)]
    BY <1>3, <2>1, <2>2
  <2>5. Abstract!Order(c)
    BY <1>2, <1>3, <2>3, <2>4 DEF Abstract!Order, OrdersOf, BotsOf, AllOrders, Obeyed
  <2> QED
    BY <1>8, <2>5 DEF Refined, Abstract!Step
<1>10. CASE kind[c] # "bot"
  <2>1. OrdersOf' = [OrdersOf EXCEPT ![c] = OrdersOf'[c]]
    BY <1>2, <1>5, OneEntry
  <2>2. OrdersOf'[c] = Unordered
    BY <1>2, <1>10 DEF OrdersOf, Unordered, Idle
  <2>3. OrdersOf' = OrdersOf /\ BotsOf' = BotsOf
    BY <1>2, <1>10, <2>1, <2>2, NoBotNoOrders DEF OrdersOf, BotsOf
  <2> QED
    BY <1>2, <1>8, <2>3 DEF Refined
<1> QED
  BY <1>9, <1>10

LEMMA ConnectBotRefined ==
  ASSUME ReuseTitles \subseteq {"iw2", "iw5"}, "iw5" \notin CallbackTitles,
         OrdersInv, NEW c \in Clients, Connect(c, "bot")
  PROVE  Refined
<1> USE DEF OrdersInv
<1>1. /\ kind' = [kind EXCEPT ![c] = "bot"] /\ used' = [used EXCEPT ![c] = TRUE]
      /\ ucmd' = [ucmd EXCEPT ![c] = Idle] /\ absent' = [absent EXCEPT ![c] = FALSE]
      /\ title' = title /\ kind[c] = "free" /\ (title \in {"iw2", "iw5"} \/ ~used[c])
  BY DEF Connect
<1>2. Entry(c) = Cleared \/ title \in {"iw2", "iw5"}
  BY <1>1 DEF NewSlotsClear, Entry, Cleared
<1>3. title # "iw5" => Found(c) = Cleared
  BY <1>2 DEF Found, IW2EnterWorld
<1>4. EntryOK(Found(c)) /\ EntryOK(Cleared) /\ Meaning(Cleared) = Unordered
  BY EntryTyped DEF Found, IW2EnterWorld, Unordered
<1>5. ASSUME NEW STATE e, EntryOK(e), Stored(c, e), NEW t \in BOOLEAN,
             told' = [told EXCEPT ![c] = t],
             title = "iw5" => ~t /\ e = Cleared,
             \/ Meaning(e) = Unordered
             \/ \E order \in AllOrders : Meaning(e) = Obeyed(Unordered, order)
      PROVE  Refined
  <2>1. TypeOK'
    <3>1. /\ held' \in [Clients -> SUBSET (Inputs \union IF title' \in {"iw4", "iw5"} THEN {"active"} ELSE {})]
          /\ mirror' \in [Clients -> IF title' = "iw3" THEN Clients \union {NoClient} ELSE {NoClient}]
      BY <1>1, <1>5, StoredTyped
    <3>2. told' \in [Clients -> BOOLEAN] /\ absent' \in [Clients -> BOOLEAN] /\ used' \in [Clients -> BOOLEAN]
      BY <1>1, <1>5 DEF TypeOK
    <3>3. ucmd' \in [Clients -> (SUBSET Inputs) \union {Stock}]
      BY <1>1 DEF TypeOK, Idle
    <3>4. kind' \in [Clients -> {"free", "human", "bot"}]
      BY <1>1 DEF TypeOK
    <3> QED
      BY <1>1, <3>1, <3>2, <3>3, <3>4 DEF TypeOK
  <2>2. \A d \in Clients \ {c} : /\ held'[d] = held[d] /\ mirror'[d] = mirror[d] /\ told'[d] = told[d]
                                 /\ kind'[d] = kind[d] /\ ucmd'[d] = ucmd[d] /\ used'[d] = used[d]
    BY <1>1, <1>5 DEF Stored, TypeOK
  <2>3. /\ held'[c] = e.held /\ mirror'[c] = e.mirror /\ told'[c] = t
        /\ kind'[c] = "bot" /\ ucmd'[c] = {} /\ used'[c]
    BY <1>1, <1>5 DEF Stored, TypeOK, Idle
  <2>4. title = "iw5" => held'[c] = {} /\ ~told'[c]
    BY <1>5, <2>3 DEF Cleared
  <2>5. SlotOK(c)'
    BY <1>1, <2>3, <2>4 DEF SlotOK
  <2>6. OrdersInv'
    BY <1>1, <2>1, <2>2, <2>5, OneSlot
  <2>7. OrdersOf' = [OrdersOf EXCEPT ![c] = Meaning(e)]
    BY <1>5, <2>2, <2>3, StoredOne
  <2>8. BotsOf' = BotsOf \union {c} /\ c \notin BotsOf
    BY <1>1, <2>2, <2>3 DEF BotsOf
  <2>9. \/ OrdersOf' = [OrdersOf EXCEPT ![c] = Unordered]
        \/ \E order \in AllOrders : OrdersOf' = [OrdersOf EXCEPT ![c] = Obeyed(Unordered, order)]
    BY <1>5, <2>7
  <2>10. Abstract!Join(c)
    BY <1>1, <2>8, <2>9 DEF Abstract!Join, OrdersOf, BotsOf, AllOrders, Obeyed, Unordered,
       Abstract!NoOrders, Abstract!Idle, Idle
  <2> QED
    BY <2>6, <2>10 DEF Refined, Abstract!Step
<1>6. CASE told' = [told EXCEPT ![c] = FALSE] /\ Stored(c, Left("bot", Found(c)))
  <2> DEFINE e == Left("bot", Found(c))
  <2>1. e = Cleared
    BY <1>3 DEF Left, IW5AddTestClient
  <2> HIDE DEF e
  <2>2. EntryOK(e) /\ Meaning(e) = Unordered
    BY <1>4, <2>1
  <2>3. Stored(c, e)
    BY <1>6 DEF e
  <2> QED
    BY <1>5, <1>6, <2>1, <2>2, <2>3
<1>7. ASSUME title # "iw5", NEW order \in OrdersFor(c), told' = [told EXCEPT ![c] = TRUE],
             Stored(c, Left("bot", Ordered(Found(c), order)))
      PROVE  Refined
  <2> DEFINE e == Ordered(Found(c), order)
  <2>1. EntryOK(e) /\ Meaning(e) = Obeyed(Unordered, order) /\ order \in AllOrders
    BY <1>3, <1>4, <1>7, MethodsKeep
  <2>2. Left("bot", Ordered(Found(c), order)) = e
    BY <1>7 DEF Left
  <2> HIDE DEF e
  <2>3. Stored(c, e)
    BY <1>7, <2>2
  <2> QED
    BY <1>5, <1>7, <2>1, <2>3
<1> QED
  BY <1>6, <1>7 DEF Connect, Stored

LEMMA ConnectHumanRefined ==
  ASSUME OrdersInv, NEW c \in Clients, Connect(c, "human")
  PROVE  Refined
<1> USE DEF OrdersInv
<1>1. /\ kind' = [kind EXCEPT ![c] = "human"] /\ used' = [used EXCEPT ![c] = TRUE]
      /\ ucmd' = [ucmd EXCEPT ![c] = Idle] /\ absent' = [absent EXCEPT ![c] = FALSE]
      /\ told' = [told EXCEPT ![c] = FALSE] /\ title' = title /\ kind[c] = "free"
      /\ Stored(c, Found(c))
  BY DEF Connect, Left, Stored
<1>2. EntryOK(Found(c)) /\ (title # "iw2" => Found(c) = Entry(c))
  BY EntryTyped DEF Found, IW2EnterWorld
<1>3. TypeOK'
  <2>1. /\ held' \in [Clients -> SUBSET (Inputs \union IF title' \in {"iw4", "iw5"} THEN {"active"} ELSE {})]
        /\ mirror' \in [Clients -> IF title' = "iw3" THEN Clients \union {NoClient} ELSE {NoClient}]
    BY <1>1, <1>2, StoredTyped
  <2>2. told' \in [Clients -> BOOLEAN] /\ absent' \in [Clients -> BOOLEAN] /\ used' \in [Clients -> BOOLEAN]
    BY <1>1 DEF TypeOK
  <2>3. ucmd' \in [Clients -> (SUBSET Inputs) \union {Stock}]
    BY <1>1 DEF TypeOK, Idle
  <2>4. kind' \in [Clients -> {"free", "human", "bot"}]
    BY <1>1 DEF TypeOK
  <2> QED
    BY <1>1, <2>1, <2>2, <2>3, <2>4 DEF TypeOK
<1>4. \A d \in Clients \ {c} : /\ held'[d] = held[d] /\ mirror'[d] = mirror[d] /\ told'[d] = told[d]
                               /\ kind'[d] = kind[d] /\ ucmd'[d] = ucmd[d] /\ used'[d] = used[d]
  BY <1>1 DEF Stored, TypeOK
<1>5. /\ held'[c] = Found(c).held /\ ~told'[c] /\ kind'[c] = "human" /\ ucmd'[c] = {} /\ used'[c]
  BY <1>1 DEF Stored, TypeOK, Idle
<1>6. title = "iw5" => held'[c] = held[c]
  BY <1>2, <1>5 DEF Entry
<1>7. SlotOK(c)'
  BY <1>1, <1>5, <1>6, SlotsOK DEF SlotOK
<1>8. OrdersInv'
  BY <1>1, <1>3, <1>4, <1>7, OneSlot
<1>9. OrdersOf' = OrdersOf /\ BotsOf' = BotsOf /\ c \notin BotsOf
  <2>1. OrdersOf' = [OrdersOf EXCEPT ![c] = OrdersOf'[c]]
    BY <1>4, OneEntry
  <2>2. OrdersOf'[c] = Unordered
    BY <1>5 DEF OrdersOf, Unordered, Idle
  <2>3. OrdersOf[c] = Unordered
    BY <1>1, NoBotNoOrders
  <2>4. OrdersOf' = OrdersOf
    BY <2>1, <2>2, <2>3 DEF OrdersOf
  <2>5. BotsOf' = BotsOf /\ c \notin BotsOf
    BY <1>1, <1>4, <1>5 DEF BotsOf
  <2> QED
    BY <2>4, <2>5
<1>10. Abstract!Player(c)
  BY <1>1, <1>9 DEF Abstract!Player, OrdersOf, BotsOf, Abstract!Inputs, Idle
<1> QED
  BY <1>8, <1>10 DEF Refined, Abstract!Step

LEMMA DisconnectRefined ==
  ASSUME OrdersInv, NEW c \in Clients, Disconnect(c)
  PROVE  Refined
<1> USE DEF OrdersInv
<1>1. /\ kind' = [kind EXCEPT ![c] = "free"] /\ told' = [told EXCEPT ![c] = FALSE]
      /\ UNCHANGED <<title, held, mirror, absent, ucmd, used>>
  BY DEF Disconnect
<1>2. TypeOK'
  BY <1>1 DEF TypeOK
<1>3. \A d \in Clients \ {c} : kind'[d] = kind[d] /\ told'[d] = told[d]
  BY <1>1 DEF TypeOK
<1>4. kind'[c] = "free" /\ ~told'[c]
  BY <1>1 DEF TypeOK
<1>5. SlotOK(c)'
  BY <1>1, <1>4, SlotsOK DEF SlotOK
<1>6. OrdersInv'
  BY <1>1, <1>2, <1>3, <1>5, OneSlot
<1>7. OrdersOf' = [OrdersOf EXCEPT ![c] = Unordered] /\ BotsOf' = BotsOf \ {c}
  BY <1>1, <1>3, <1>4 DEF OrdersOf, BotsOf, Unordered, Idle
<1>8. CASE c \in BotsOf
  <2>1. Abstract!Leave(c)
    BY <1>1, <1>7, <1>8
       DEF Abstract!Leave, OrdersOf, BotsOf, Unordered, Abstract!NoOrders, Abstract!Idle
  <2> QED
    BY <1>6, <2>1 DEF Refined, Abstract!Step
<1>9. CASE c \notin BotsOf
  <2>1. BotsOf' = BotsOf
    BY <1>7, <1>9
  <2>2. OrdersOf' = OrdersOf
    BY <1>7, <1>9, NoBotNoOrders DEF OrdersOf, BotsOf
  <2> QED
    BY <1>1, <1>6, <2>1, <2>2 DEF Refined
<1> QED
  BY <1>8, <1>9

LEMMA PlayerCommandRefined ==
  ASSUME OrdersInv, NEW c \in Clients, PlayerCommand(c)
  PROVE  Refined
<1> USE DEF OrdersInv
<1>1. PICK input \in SUBSET Inputs : ucmd' = [ucmd EXCEPT ![c] = input]
  BY DEF PlayerCommand
<1>2. kind[c] = "human" /\ UNCHANGED <<title, kind, held, mirror, absent, used, told>>
  BY DEF PlayerCommand
<1>3. TypeOK'
  BY <1>1, <1>2 DEF TypeOK
<1>4. \A d \in Clients \ {c} : ucmd'[d] = ucmd[d]
  BY <1>1 DEF TypeOK
<1>5. SlotOK(c)'
  BY <1>1, <1>2, SlotsOK DEF SlotOK, TypeOK
<1>6. OrdersInv'
  BY <1>2, <1>3, <1>4, <1>5, OneSlot
<1>7. OrdersOf' = OrdersOf /\ BotsOf' = BotsOf /\ c \notin BotsOf
  BY <1>2 DEF OrdersOf, BotsOf
<1>8. Abstract!Player(c)
  BY <1>1, <1>2, <1>7 DEF Abstract!Player, OrdersOf, BotsOf, Abstract!Inputs, Inputs
<1> QED
  BY <1>6, <1>8 DEF Refined, Abstract!Step

LEMMA KillcamRefined ==
  ASSUME OrdersInv, NEW c \in Clients, Killcam(c)
  PROVE  Refined
<1> USE DEF OrdersInv
<1>1. absent' = [absent EXCEPT ![c] = ~@] /\ UNCHANGED <<title, kind, held, mirror, ucmd, used, told>>
  BY DEF Killcam
<1>2. TypeOK'
  BY <1>1 DEF TypeOK
<1>3. OrdersInv'
  BY <1>1, <1>2 DEF PlainCommands, ActiveMarks, NewSlotsClear
<1>4. OrdersOf' = OrdersOf /\ BotsOf' = BotsOf
  BY <1>1 DEF OrdersOf, BotsOf
<1>5. Abstract!Killcam(c)
  BY <1>1, <1>4 DEF Abstract!Killcam, OrdersOf, BotsOf
<1> QED
  BY <1>3, <1>5 DEF Refined, Abstract!Step

LEMMA SessionEndRefined ==
  ASSUME OrdersInv, ScriptSessionEnds
  PROVE  Refined
<1> USE DEF OrdersInv
<1>1. /\ held' = [c \in Clients |-> {}] /\ mirror' = [c \in Clients |-> NoClient]
      /\ used' = [c \in Clients |-> kind[c] # "free"] /\ told' = [c \in Clients |-> FALSE]
      /\ UNCHANGED <<title, kind, absent, ucmd>>
  BY DEF ScriptSessionEnds, ClearEntries
<1>2. TypeOK'
  BY <1>1 DEF TypeOK
<1>3. OrdersInv'
  BY <1>1, <1>2 DEF PlainCommands, ActiveMarks, NewSlotsClear
<1>4. OrdersOf' = [c \in Clients |-> Unordered] /\ BotsOf' = BotsOf
  BY <1>1 DEF OrdersOf, BotsOf, Unordered, Idle
<1>5. Abstract!Forget
  BY <1>1, <1>4 DEF Abstract!Forget, OrdersOf, BotsOf, Unordered, Abstract!NoOrders, Abstract!Idle
<1> QED
  BY <1>3, <1>5 DEF Refined, Abstract!Step

(* A command of a bot is one of the kinds that BotOrders has.              *)
LEMMA FrameRefined ==
  ASSUME OrdersInv, NEW c \in Clients, BotFrame(c)
  PROVE  Refined
<1> USE DEF OrdersInv
<1>1. kind[c] = "bot" /\ UNCHANGED <<title, kind, mirror, absent, used, told>>
  BY DEF BotFrame, IW2BotUserMove, IW3BotUserMove, IW4BotUserMove, IW5ClientThink, T4BotUserMove,
     Sends
<1>2. c \in BotsOf /\ BotsOf' = BotsOf
  BY <1>1 DEF BotsOf
<1>3. OrdersOf[c] = [inputs |-> held[c] \ {"active"}, mirror |-> mirror[c]]
  BY <1>1 DEF OrdersOf
<1>4. OrdersOf[c].inputs = held[c] \ {"active"} /\ OrdersOf[c].mirror = mirror[c]
  BY <1>3
<1>5. /\ title # "iw3" => mirror[c] \notin Clients
      /\ title = "iw3" => held[c] \ {"active"} = held[c]
      /\ title \notin {"iw4", "iw5"} => held[c] \ {"active"} = held[c]
      /\ held[c] \ {"active"} \in SUBSET Inputs
  BY BotControlAssumption DEF TypeOK, Inputs
<1>6. ASSUME UNCHANGED held, NEW STATE m, ucmd' = [ucmd EXCEPT ![c] = m],
             m \in (SUBSET Inputs) \union {Stock}, title = "iw3" => m \in SUBSET Inputs,
             \/ m = IF mirror[c] \in Clients THEN ucmd[mirror[c]] ELSE held[c] \ {"active"}
             \/ m = Stock /\ held[c] = {} /\ mirror[c] = NoClient
             \/ m = Idle /\ absent[c]
      PROVE  Refined
  <2>1. TypeOK'
    BY <1>1, <1>6 DEF TypeOK
  <2>2. \A d \in Clients \ {c} : ucmd'[d] = ucmd[d]
    BY <1>6 DEF TypeOK
  <2>3. SlotOK(c)'
    BY <1>1, <1>6, SlotsOK DEF SlotOK, TypeOK
  <2>4. OrdersInv'
    BY <1>1, <1>6, <2>1, <2>2, <2>3, OneSlot
  <2>5. OrdersOf' = OrdersOf
    BY <1>1, <1>6 DEF OrdersOf
  <2>6. held[c] = {} /\ mirror[c] = NoClient => OrdersOf[c] = Unordered
    BY <1>3 DEF Unordered
  <2>7. Abstract!Act(c)
    BY <1>1, <1>2, <1>4, <1>6, <2>5, <2>6
       DEF Abstract!Act, OrdersOf, BotsOf, Unordered, Abstract!NoOrders, Abstract!Idle, Idle
  <2> QED
    BY <2>4, <2>7 DEF Refined, Abstract!Step
<1>7. CASE title = "iw2"
  <2>1. ucmd' = [ucmd EXCEPT ![c] = IF absent[c] THEN {} ELSE held[c]] /\ UNCHANGED held
    BY <1>7 DEF BotFrame, IW2BotUserMove, Sends, Idle
  <2>2. CASE absent[c]
    BY <1>6, <1>7, <2>1, <2>2 DEF Idle
  <2>3. CASE ~absent[c]
    BY <1>5, <1>6, <1>7, <2>1, <2>3
  <2> QED
    BY <2>2, <2>3
<1>8. CASE title = "iw4"
  <2>1. ucmd' = [ucmd EXCEPT ![c] = held[c] \ {"active"}] /\ UNCHANGED held
    BY <1>1, <1>8 DEF BotFrame, IW4BotUserMove, Sends
  <2> QED
    BY <1>5, <1>6, <1>8, <2>1
<1>9. CASE title = "t4"
  <2>1. ucmd' = [ucmd EXCEPT ![c] = held[c]] /\ UNCHANGED held
    BY <1>9 DEF BotFrame, T4BotUserMove, Sends
  <2> QED
    BY <1>5, <1>6, <1>9, <2>1
<1>10. CASE title = "iw5"
  <2>1. /\ ucmd' = [ucmd EXCEPT ![c] = IF "active" \in held[c] THEN held[c] \ {"active"} ELSE Stock]
        /\ UNCHANGED held
    BY <1>10 DEF BotFrame, IW5ClientThink, Sends
  <2>2. CASE "active" \in held[c]
    BY <1>5, <1>6, <1>10, <2>1, <2>2
  <2>3. CASE "active" \notin held[c]
    <3>1. held[c] = {} /\ mirror[c] = NoClient
      BY <1>10, <2>3 DEF ActiveMarks, TypeOK
    <3> QED
      BY <1>6, <1>10, <2>1, <2>3, <3>1
  <2> QED
    BY <2>2, <2>3
<1>11. CASE title = "iw3"
  <2>1. CASE absent[c]
    <3>1. ucmd' = [ucmd EXCEPT ![c] = {}] /\ UNCHANGED held
      BY <1>11, <2>1 DEF BotFrame, IW3BotUserMove, Sends, Idle
    <3> QED
      BY <1>6, <2>1, <3>1 DEF Idle
  <2>2. CASE ~absent[c]
    <3>1. PICK m \in {held[c], held[c] \ {"move"}}, near \in BOOLEAN :
            /\ near => "move" \in held[c]
            /\ m # held[c] => near
            /\ held' = [held EXCEPT ![c] = IF near THEN @ \ {"move"} ELSE @]
            /\ ucmd' = [ucmd EXCEPT ![c] = IF mirror[c] \in Clients THEN ucmd[mirror[c]] ELSE m]
      BY <1>11, <2>2 DEF BotFrame, IW3BotUserMove, Sends
    <3> DEFINE k == IF mirror[c] \in Clients THEN ucmd[mirror[c]] ELSE m
    <3>2. k \in SUBSET Inputs
      BY <1>5, <1>11, <3>1 DEF PlainCommands
    <3>3. CASE ~near
      <4>1. held' = held /\ m = held[c]
        BY <3>1, <3>3 DEF TypeOK
      <4> QED
        BY <1>5, <1>6, <1>11, <3>1, <3>2, <4>1
    <3>4. CASE near
      <4>1. TypeOK'
        BY <1>1, <3>1, <3>2, <3>4 DEF TypeOK
      <4>2. \A d \in Clients \ {c} : held'[d] = held[d] /\ ucmd'[d] = ucmd[d]
        BY <3>1 DEF TypeOK
      <4>3. held'[c] = held[c] \ {"move"} /\ ucmd'[c] = k
        BY <3>1, <3>4 DEF TypeOK
      <4>4. SlotOK(c)'
        BY <1>1, <1>11, <3>2, <4>3, SlotsOK DEF SlotOK
      <4>5. OrdersInv'
        BY <1>1, <4>1, <4>2, <4>4, OneSlot
      <4>6. OrdersOf' = [OrdersOf EXCEPT ![c] = OrdersOf'[c]]
        BY <1>1, <4>2, OneEntry
      <4>7. OrdersOf'[c] = [OrdersOf[c] EXCEPT !.inputs = @ \ {"move"}]
        <5>1. OrdersOf'[c] = [inputs |-> held'[c] \ {"active"}, mirror |-> mirror[c]]
          BY <1>1 DEF OrdersOf
        <5>2. held'[c] \ {"active"} = (held[c] \ {"active"}) \ {"move"}
          BY <4>3
        <5> QED
          BY <1>3, <5>1, <5>2
      <4>8. OrdersOf' = [OrdersOf EXCEPT ![c].inputs = @ \ {"move"}]
        BY <4>6, <4>7
      <4>9. /\ ucmd' = [ucmd EXCEPT ![c] = k]
            /\ mirror[c] \notin Clients => mirror[c] = NoClient
            /\ mirror[c] \notin Clients => k = held[c] \/ k = held[c] \ {"move"}
            /\ "move" \in held[c]
        BY <3>1, <3>4 DEF TypeOK
      <4>10. Abstract!Act(c)
        <5> HIDE DEF k
        <5>1. mirror[c] \in Clients => k = ucmd[mirror[c]]
          BY DEF k
        <5>2. \/ ucmd' = [ucmd EXCEPT ![c] =
                   IF OrdersOf[c].mirror \in Clients THEN ucmd[OrdersOf[c].mirror] ELSE OrdersOf[c].inputs]
              \/ /\ "move" \in OrdersOf[c].inputs /\ OrdersOf[c].mirror = NoClient
                 /\ ucmd' = [ucmd EXCEPT ![c] = OrdersOf[c].inputs \ {"move"}]
          BY <1>4, <1>5, <1>11, <4>9, <5>1
        <5> QED
          BY <1>1, <1>2, <1>11, <4>8, <5>2 DEF Abstract!Act, OrdersOf, BotsOf
      <4> QED
        BY <4>5, <4>10 DEF Refined, Abstract!Step
    <3> QED
      BY <3>1, <3>3, <3>4
  <2> QED
    BY <2>1, <2>2
<1> QED
  BY <1>7, <1>8, <1>9, <1>10, <1>11 DEF BotFrame

(* An ordered bot is not left to the stock movement, and a command run in  *)
(* a killcam holds nothing.                                                *)
ControlKept ==
  \A c \in Clients :
    /\ told[c] /\ BotFrame(c) => ucmd'[c] # Stock
    /\ (title \in {"iw2", "iw3"} /\ absent[c] /\ kind[c] = "bot" /\ ucmd'[c] # ucmd[c])
         => ucmd'[c] = Idle

LEMMA StepKeepsControl ==
  ASSUME OrdersInv, [Next]_vars
  PROVE  ControlKept
<1> USE BotControlAssumption DEF OrdersInv
<1>1. ASSUME NEW c \in Clients, told[c], BotFrame(c)
      PROVE  ucmd'[c] # Stock
  <2>1. ucmd[c] \in (SUBSET Inputs) \union {Stock} /\ held[c] \ {"active"} \in SUBSET Inputs
    BY DEF TypeOK, Inputs
  <2>2. Stock \notin SUBSET Inputs
    BY DEF Inputs
  <2>3. CASE title = "iw5"
    <3>1. ucmd' = [ucmd EXCEPT ![c] = held[c] \ {"active"}]
      BY <1>1, <2>3 DEF BotFrame, IW5ClientThink, Sends, ActiveMarks
    <3> QED
      BY <2>1, <2>2, <3>1 DEF TypeOK
  <2>4. CASE title = "iw3"
    <3>1. ucmd'[c] \in SUBSET Inputs
      <4>1. kind[c] = "bot" /\ title' = title
        BY <1>1, <2>4 DEF BotFrame, IW3BotUserMove, Sends
      <4>2. OrdersInv'
        BY <1>1, FrameRefined DEF Refined
      <4> QED
        BY <2>4, <4>1, <4>2 DEF PlainCommands
    <3> QED
      BY <2>2, <3>1
  <2>5. CASE title \notin {"iw3", "iw5"}
    <3>1. ucmd' = [ucmd EXCEPT ![c] = {}] \/ ucmd' = [ucmd EXCEPT ![c] = held[c] \ {"active"}]
      <4>1. title = "iw2" => held[c] \ {"active"} = held[c]
        BY DEF TypeOK, Inputs
      <4>2. title = "t4" => held[c] \ {"active"} = held[c]
        BY DEF TypeOK, Inputs
      <4> QED
        BY <1>1, <2>5, <4>1, <4>2
           DEF BotFrame, IW2BotUserMove, IW4BotUserMove, T4BotUserMove, Sends, Idle
    <3>2. {} \in SUBSET Inputs
      OBVIOUS
    <3> QED
      BY <2>1, <2>2, <3>1, <3>2 DEF TypeOK
  <2> QED
    BY <2>3, <2>4, <2>5
<1>2. ASSUME NEW c \in Clients, title \in {"iw2", "iw3"}, absent[c], kind[c] = "bot",
             ucmd'[c] # ucmd[c]
      PROVE  ucmd'[c] = Idle
  <2>1. CASE BotFrame(c)
    <3>1. ucmd' = [ucmd EXCEPT ![c] = Idle]
      BY <1>2, <2>1 DEF BotFrame, IW2BotUserMove, IW3BotUserMove, Sends
    <3> QED
      BY <3>1 DEF TypeOK
  <2>2. CASE PlayerCommand(c)
    BY <1>2, <2>2 DEF PlayerCommand
  <2>3. CASE Connect(c, "bot") \/ Connect(c, "human")
    BY <1>2, <2>3 DEF Connect
  <2>4. ASSUME NEW d \in Clients \ {c},
               BotFrame(d) \/ PlayerCommand(d) \/ Connect(d, "bot") \/ Connect(d, "human")
        PROVE  ucmd'[c] = ucmd[c]
    <3>1. CASE BotFrame(d)
      BY <3>1 DEF TypeOK, BotFrame, IW2BotUserMove, IW3BotUserMove, IW4BotUserMove, IW5ClientThink,
         T4BotUserMove, Sends
    <3>2. CASE PlayerCommand(d)
      BY <3>2 DEF TypeOK, PlayerCommand
    <3>3. CASE Connect(d, "bot") \/ Connect(d, "human")
      BY <3>3 DEF TypeOK, Connect
    <3> QED
      BY <2>4, <3>1, <3>2, <3>3
  <2>5. CASE UNCHANGED vars \/ ScriptSessionEnds
    BY <1>2, <2>5 DEF vars, ScriptSessionEnds
  <2>6. ASSUME NEW d \in Clients, Disconnect(d) \/ Killcam(d) \/ ScriptOrder(d)
        PROVE  ucmd' = ucmd
    BY <2>6 DEF Disconnect, Killcam, ScriptOrder
  <2> QED
    BY <1>2, <2>1, <2>2, <2>3, <2>4, <2>5, <2>6 DEF Next
<1> QED
  BY <1>1, <1>2 DEF ControlKept

LEMMA StepRefined ==
  ASSUME ReuseTitles \subseteq {"iw2", "iw5"}, "iw5" \notin CallbackTitles,
         OrdersInv, [Next]_vars
  PROVE  /\ OrdersInv'
         /\ Abstract!Next \/ UNCHANGED Abstract!vars
<1>1. CASE UNCHANGED vars
  <2>1. OrdersInv'
    BY <1>1 DEF vars, OrdersInv, TypeOK, PlainCommands, ActiveMarks, NewSlotsClear
  <2>2. UNCHANGED Abstract!vars
    BY <1>1 DEF vars, Abstract!vars
  <2> QED
    BY <2>1, <2>2
<1>2. CASE Next
  <2>1. Refined
    BY <1>2, OrderRefined, ConnectBotRefined, ConnectHumanRefined, DisconnectRefined,
       PlayerCommandRefined, KillcamRefined, SessionEndRefined, FrameRefined DEF Next
  <2>2. title' = title
    BY <1>2 DEF Next, Connect, Disconnect, PlayerCommand, Killcam, ScriptOrder, BotFrame,
       ScriptSessionEnds, IW2BotUserMove, IW3BotUserMove, IW4BotUserMove, IW5ClientThink,
       T4BotUserMove, Sends
  <2>3. (title = "iw3")' = (title = "iw3")
    BY <2>2
  <2>4. CASE Abstract!Step
    BY <2>1, <2>3, <2>4 DEF Refined, Abstract!Next
  <2>5. CASE UNCHANGED <<BotsOf, OrdersOf, absent, ucmd>>
    BY <2>1, <2>2, <2>5 DEF Refined, Abstract!vars, BotsOf, OrdersOf
  <2> QED
    BY <2>1, <2>4, <2>5 DEF Refined
<1> QED
  BY <1>1, <1>2

(* Any bot in any slot of the five titles does what scripts ordered it     *)
(* since it joined, whatever was ordered to the slot's earlier clients     *)
(* (the entries and the usercmd hooks refine BotOrders), and is not handed *)
(* back to the stock movement: for any set of slots, where slots change    *)
(* hands within a script session only in IW2 and IW5, whose hooks clear    *)
(* the entry, and where IW5's connect callback does not order the new bot. *)
THEOREM BotsDoAsOrdered ==
  ASSUME ReuseTitles \subseteq {"iw2", "iw5"}, "iw5" \notin CallbackTitles
  PROVE  Spec => BotsObey
<1>1. Init => Abstract!Init
  BY DEF Init, Abstract!Init, Abstract!NoOrders, Abstract!Idle, Idle
<1>2. OrdersInv /\ [Next]_vars => OrdersInv' /\ [Abstract!Next]_(Abstract!vars) /\ ControlKept
  BY StepRefined, StepKeepsControl
<1>3. OrdersInv => TypeOK
  BY DEF OrdersInv
<1>4. [][ControlKept]_vars => KeepsControl
  BY PTL DEF ControlKept, KeepsControl
<1> QED
  BY <1>1, <1>2, <1>3, <1>4, OrdersInvInit, PTL DEF Spec, BotsObey, ObeysOrders, Abstract!Spec

-----------------------------------------------------------------------------
(* Weapons.  The entry of a bot remembers what a script waits for; during  *)
(* a killcam the life it belongs to is that of the state to go back to.    *)

LiveState == IF killcam THEN live ELSE ps

Remembered ==
  want # 0 => bot.hasWeapon /\ bot.weapon = want /\ bot.life = LiveState.life

WeaponInv == WeaponTypeOK /\ Remembered

WeaponSteps ==
  /\ BotUserMove /\ ~killcam =>
       /\ want # 0 => cmd' = want
       /\ cmd' \in ps.owned \union {0, ps.weapon}
  /\ (killcam /\ bot' # bot) => \E w \in Weapons \union {0} : SelectWeapon(w)

LEMMA WeaponInitOK == WeaponInit => WeaponInv
<1> SUFFICES ASSUME WeaponInit PROVE WeaponInv
  OBVIOUS
<1>1. 0 \in 0..MaxLife
  BY BotWeaponsAssumption
<1>2. ps \in States /\ live \in States
  BY <1>1 DEF WeaponInit, States
<1>3. bot \in [weapon : Weapons \union {0}, hasWeapon : BOOLEAN, life : 0..MaxLife]
  BY <1>1 DEF WeaponInit, Forgotten
<1> QED
  BY <1>2, <1>3 DEF WeaponInit, WeaponInv, WeaponTypeOK, Remembered

BotEntries == [weapon : Weapons \union {0}, hasWeapon : BOOLEAN, life : 0..MaxLife]

(* What CommandWeapon makes of the entry outside of a killcam.             *)
LEMMA CommandWeaponKeeps ==
  ASSUME WeaponInv, ~killcam
  PROVE  /\ CommandWeapon(ps) \in BotEntries
         /\ want # 0 => CommandWeapon(ps) = bot
         /\ Asked(CommandWeapon(ps), ps) \in (ps.owned \union {0, ps.weapon}) \cap (Weapons \union {0})
         /\ want # 0 => Asked(CommandWeapon(ps), ps) = want
<1> USE BotWeaponsAssumption DEF WeaponInv
<1>1. /\ bot \in BotEntries /\ want \in ps.owned \union {0}
      /\ ps.weapon \in Weapons \union {0} /\ ps.owned \in SUBSET Weapons /\ ps.life \in 0..MaxLife
  BY DEF WeaponTypeOK, States, BotEntries
<1> DEFINE stale == \/ bot.life # ps.life
                    \/ bot.weapon # 0 /\ ~IsValidWeapon(ps, bot.weapon)
           seen == [weapon |-> ps.weapon, hasWeapon |-> TRUE, life |-> ps.life]
           off == [bot EXCEPT !.hasWeapon = FALSE]
<1>2. CommandWeapon(ps) = IF bot.hasWeapon /\ ~stale THEN bot
                          ELSE IF IsValidWeapon(ps, ps.weapon) THEN seen ELSE off
  BY DEF CommandWeapon
<1>3. seen \in BotEntries /\ seen.hasWeapon /\ seen.weapon = ps.weapon
  BY <1>1 DEF BotEntries
<1>4. off \in BotEntries /\ ~off.hasWeapon
  BY <1>1 DEF BotEntries
<1>5. want # 0 => bot.hasWeapon /\ bot.weapon = want /\ bot.life = ps.life /\ want \in ps.owned
  BY <1>1 DEF Remembered, LiveState
<1>6. want # 0 => ~stale
  BY <1>5 DEF IsValidWeapon
<1>7. bot.hasWeapon /\ ~stale => bot.weapon \in ps.owned \union {0}
  BY DEF IsValidWeapon
<1> HIDE DEF stale, seen, off
<1>8. CommandWeapon(ps) \in BotEntries
  BY <1>1, <1>2, <1>3, <1>4
<1>9. want # 0 => CommandWeapon(ps) = bot
  BY <1>2, <1>5, <1>6
<1>10. Asked(CommandWeapon(ps), ps) \in ps.owned \union {0, ps.weapon}
  BY <1>2, <1>3, <1>4, <1>7 DEF Asked
<1>11. want # 0 => Asked(CommandWeapon(ps), ps) = want
  BY <1>5, <1>9 DEF Asked
<1> QED
  BY <1>1, <1>8, <1>9, <1>10, <1>11

(* The game changes the player state outside of a killcam.                 *)
LEMMA BecomesKeeps ==
  ASSUME WeaponInv, ~killcam, NEW STATE state, state \in States, Becomes(state)
  PROVE  WeaponInv'
<1> USE BotWeaponsAssumption DEF WeaponInv
<1>1. /\ ps' = state /\ UNCHANGED <<live, killcam, bot, cmd>>
      /\ want' = IF want \in state.owned /\ state.life = ps.life THEN want ELSE 0
  BY DEF Becomes
<1>2. WeaponTypeOK'
  BY <1>1 DEF WeaponTypeOK
<1>3. Remembered'
  BY <1>1 DEF Remembered, LiveState
<1> QED
  BY <1>2, <1>3

LEMMA WeaponStepOK ==
  ASSUME StopInKillcam = FALSE, WeaponInv, [WeaponNext]_weaponVars
  PROVE  WeaponInv' /\ WeaponSteps
<1> USE BotWeaponsAssumption DEF WeaponInv
<1>t. /\ bot \in BotEntries /\ ps \in States /\ live \in States
      /\ ps.owned \in SUBSET Weapons /\ ps.life \in 0..MaxLife /\ ps.weapon \in Weapons \union {0}
  BY DEF WeaponTypeOK, BotEntries, States
<1>1. ASSUME BotUserMove, ~killcam
      PROVE  /\ WeaponInv'
             /\ (want # 0 => cmd' = want) /\ cmd' \in ps.owned \union {0, ps.weapon}
  <2>1. /\ bot' = CommandWeapon(ps) /\ cmd' = Asked(CommandWeapon(ps), ps)
        /\ UNCHANGED <<ps, live, killcam, want>>
    BY <1>1 DEF BotUserMove
  <2>2. WeaponTypeOK'
    BY <1>1, <2>1, CommandWeaponKeeps DEF WeaponTypeOK, BotEntries
  <2>3. Remembered'
    BY <1>1, <2>1, CommandWeaponKeeps DEF Remembered, LiveState
  <2> QED
    BY <1>1, <2>1, <2>2, <2>3, CommandWeaponKeeps
<1>2. CASE UNCHANGED weaponVars
  <2>1. WeaponInv'
    BY <1>2 DEF weaponVars, WeaponTypeOK, Remembered, LiveState
  <2> QED
    BY <1>1, <1>2, <2>1 DEF weaponVars, WeaponSteps
<1>3. ASSUME NEW w \in Weapons \union {0}, SelectWeapon(w)
      PROVE  WeaponInv'
  <2>1. /\ bot' = [weapon |-> w, hasWeapon |-> TRUE, life |-> ps.life]
        /\ want' = IF killcam \/ w \notin ps.owned THEN 0 ELSE w
        /\ UNCHANGED <<ps, live, killcam, cmd>>
    BY <1>3 DEF SelectWeapon
  <2>2. bot' \in BotEntries
    BY <1>t, <2>1 DEF BotEntries
  <2>3. WeaponTypeOK'
    BY <2>1, <2>2 DEF WeaponTypeOK, BotEntries
  <2>4. Remembered'
    BY <2>1 DEF Remembered, LiveState
  <2> QED
    BY <2>3, <2>4
<1>4. ASSUME BotStop
      PROVE  WeaponInv' /\ ~killcam
  <2>1. /\ bot' = CommandWeapon(ps) /\ ~killcam
        /\ UNCHANGED <<ps, live, killcam, want, cmd>>
    BY <1>4 DEF BotStop
  <2>2. WeaponTypeOK'
    BY <2>1, CommandWeaponKeeps DEF WeaponTypeOK, BotEntries
  <2>3. Remembered'
    BY <2>1, CommandWeaponKeeps DEF Remembered, LiveState
  <2> QED
    BY <2>1, <2>2, <2>3
<1>5. ASSUME EnterWorld
      PROVE  WeaponInv' /\ ~killcam
  <2>1. bot' = Forgotten /\ want' = 0 /\ ~killcam /\ UNCHANGED <<ps, live, killcam, cmd>>
    BY <1>5 DEF EnterWorld
  <2>2. bot' \in BotEntries
    BY <2>1 DEF BotEntries, Forgotten
  <2> QED
    BY <2>1, <2>2 DEF WeaponTypeOK, Remembered, BotEntries
<1>6. ASSUME Inventory \/ Hands \/ Respawn
      PROVE  WeaponInv' /\ ~killcam
  <2>1. CASE Inventory
    <3>1. PICK owned \in SUBSET Weapons :
            Becomes([ps EXCEPT !.owned = owned, !.weapon = IF @ \in owned THEN @ ELSE 0])
      BY <2>1 DEF Inventory
    <3>2. [ps EXCEPT !.owned = owned, !.weapon = IF @ \in owned THEN @ ELSE 0] \in States
      BY <1>t DEF States
    <3> QED
      BY <2>1, <3>1, <3>2, BecomesKeeps DEF Inventory
  <2>2. CASE Hands
    <3>1. PICK w \in ps.owned \union {0} : Becomes([ps EXCEPT !.weapon = w])
      BY <2>2 DEF Hands
    <3>2. [ps EXCEPT !.weapon = w] \in States
      BY <1>t DEF States
    <3> QED
      BY <2>2, <3>1, <3>2, BecomesKeeps DEF Hands
  <2>3. CASE Respawn
    <3>1. PICK owned \in SUBSET Weapons :
            Becomes([weapon |-> 0, owned |-> owned, life |-> ps.life + 1])
      BY <2>3 DEF Respawn
    <3>2. [weapon |-> 0, owned |-> owned, life |-> ps.life + 1] \in States
      BY <1>t, <2>3 DEF States, Respawn
    <3> QED
      BY <2>3, <3>1, <3>2, BecomesKeeps DEF Respawn
  <2> QED
    BY <1>6, <2>1, <2>2, <2>3
<1>7. ASSUME StartKillcam
      PROVE  WeaponInv' /\ ~killcam
  <2>1. /\ killcam' = TRUE /\ live' = ps /\ ps' \in States /\ ~killcam
        /\ UNCHANGED <<bot, want, cmd>>
    BY <1>7 DEF StartKillcam
  <2> QED
    BY <1>t, <2>1 DEF WeaponTypeOK, Remembered, LiveState
<1>8. ASSUME EndKillcam
      PROVE  WeaponInv' /\ bot' = bot
  <2>1. killcam' = FALSE /\ ps' = live /\ killcam /\ UNCHANGED <<live, bot, want, cmd>>
    BY <1>8 DEF EndKillcam
  <2> QED
    BY <1>t, <2>1 DEF WeaponTypeOK, Remembered, LiveState
<1>9. ASSUME BotUserMove, killcam
      PROVE  WeaponInv' /\ bot' = bot
  <2>1. UNCHANGED weaponVars
    BY <1>9 DEF BotUserMove
  <2> QED
    BY <2>1 DEF weaponVars, WeaponTypeOK, Remembered, LiveState
<1>10. CASE WeaponNext
  <2>1. WeaponInv'
    BY <1>1, <1>3, <1>4, <1>5, <1>6, <1>7, <1>8, <1>9, <1>10 DEF WeaponNext
  <2>2. (killcam /\ bot' # bot) => \E w \in Weapons \union {0} : SelectWeapon(w)
    BY <1>4, <1>5, <1>6, <1>7, <1>8, <1>9, <1>10 DEF WeaponNext
  <2> QED
    BY <1>1, <2>1, <2>2 DEF WeaponSteps
<1> QED
  BY <1>2, <1>10

(* Whatever weapons a bot is given, loses and shows in whatever lives, a   *)
(* live command asks for the weapon a script has selected in this life     *)
(* until it is lost or another is selected, and never for one of an        *)
(* earlier life or one that was taken away; a killcam does not touch the   *)
(* selection, where scripts do not call botstop on a bot that watches one. *)
THEOREM SelectedWeaponIsUsed ==
  ASSUME StopInKillcam = FALSE
  PROVE  WeaponSpec => SelectionKept
<1>1. WeaponInv /\ [WeaponNext]_weaponVars => WeaponInv' /\ WeaponSteps
  BY WeaponStepOK
<1>2. WeaponInv => WeaponTypeOK
  BY DEF WeaponInv
<1>3. [][WeaponSteps]_weaponVars => SelectionSticks /\ KillcamKeepsSelection
  <2>1. WeaponSteps => /\ BotUserMove /\ ~killcam => /\ want # 0 => cmd' = want
                                                     /\ cmd' \in ps.owned \union {0, ps.weapon}
                       /\ (killcam /\ bot' # bot) => \E w \in Weapons \union {0} : SelectWeapon(w)
    BY DEF WeaponSteps
  <2> QED
    BY <2>1, PTL DEF SelectionSticks, KillcamKeepsSelection
<1> QED
  BY <1>1, <1>2, <1>3, WeaponInitOK, PTL DEF WeaponSpec, SelectionKept

-----------------------------------------------------------------------------
(* Names.  Where connect callbacks do not nest calls, at most one is in    *)
(* progress; the static then holds what that call asked for until it is    *)
(* emptied.                                                                *)

(* The engine's choice of a slot, and no slot has two calls in progress.   *)
CallsApart ==
  /\ \A i, j \in DOMAIN calls : i # j => calls[i] # calls[j]
  /\ \A i \in DOMAIN calls : name[calls[i]] # "none"

PendingOfCall ==
  /\ nameTitle \notin {"iw2", "iw5"} => Len(calls) <= 1
  /\ nameTitle = "iw5" => pending = NoName
  /\ nameTitle = "iw4" /\ calls # <<>> =>
       pending = asked[calls[1]] /\ name[calls[1]] = NoName

NamesInv == NamesTypeOK /\ Named /\ CallsApart /\ PendingOfCall

LEMMA NextSlotIsFree ==
  ASSUME Free # {}
  PROVE  NextSlot \in Slots /\ name[NextSlot] = "none"
<1> DEFINE F == Free
<1>1. F \subseteq Nat
  BY TestClientNamesAssumption DEF Free
<1>2. PICK x \in F : \A y \in F : ~(<<y, x>> \in OpToRel(<, Nat))
  <2> HIDE DEF F
  <2> QED BY <1>1, NatLessThanWellFounded, WFMin, Zenon DEF F
<1>3. ASSUME NEW y \in F PROVE x <= y
  <2>1. x \in Nat /\ y \in Nat
    BY <1>1
  <2>2. ~(<<y, x>> \in OpToRel(<, Nat))
    BY <1>2
  <2>3. ~(y < x)
    BY <2>1, <2>2, Zenon DEF OpToRel
  <2> QED
    BY <2>1, <2>3
<1>4. NextSlot \in F
  BY <1>3 DEF NextSlot
<1> QED
  BY <1>4 DEF Free

LEMMA NamesInitOK == NamesInit => NamesInv
<1> SUFFICES ASSUME NamesInit PROVE NamesInv
  OBVIOUS
<1> USE TestClientNamesAssumption
<1>1. <<>> \in Seq(Slots) /\ Len(<<>>) = 0
  OBVIOUS
<1>2. NamesTypeOK
  BY <1>1 DEF NamesInit, NamesTypeOK
<1>3. Named
  BY DEF NamesInit, Named, Free, Joining
<1>4. CallsApart /\ PendingOfCall
  BY <1>1 DEF NamesInit, CallsApart, PendingOfCall
<1> QED
  BY <1>2, <1>3, <1>4 DEF NamesInv

LEMMA AddKeepsNames ==
  ASSUME NestTitles \subseteq {"iw2", "iw5"},
         NamesInv, NEW n \in Names \union {NoName}, AddTestClient(n)
  PROVE  NamesInv'
<1> USE TestClientNamesAssumption DEF NamesInv
<1>1. /\ Len(calls) < MaxDepth /\ nameTitle' = nameTitle
      /\ nameTitle \notin {"iw2", "iw5"} => calls = <<>>
  BY DEF AddTestClient
<1>2. CASE Free = {}
  <2>1. pending' = NoName /\ UNCHANGED <<calls, name, asked>>
    BY <1>2 DEF AddTestClient, PendingAtReturn
  <2>2. NamesTypeOK'
    BY <1>1, <2>1 DEF NamesTypeOK
  <2>3. Named' /\ CallsApart'
    BY <1>1, <2>1 DEF Named, CallsApart, Free, Joining
  <2>4. PendingOfCall'
    BY <1>1, <2>1 DEF PendingOfCall
  <2> QED
    BY <2>2, <2>3, <2>4
<1>3. CASE Free # {}
  <2> DEFINE s == NextSlot
  <2>1. /\ pending' = Request(n) /\ calls' = Append(calls, s)
        /\ name' = [name EXCEPT ![s] = NameAtConnect(n)]
        /\ asked' = [asked EXCEPT ![s] = n]
    BY <1>3 DEF AddTestClient
  <2>2. s \in Slots /\ name[s] = "none"
    BY <1>3, NextSlotIsFree
  <2> HIDE DEF s
  <2>3. nameTitle \in {"iw2", "iw3", "iw4", "iw5", "t4"}
    BY DEF NamesTypeOK
  <2>4. Request(n) = IF nameTitle = "iw5" THEN NoName ELSE n
    BY <1>1, <2>3 DEF Request, IW2Request, IW3Request, IW4Request, IW5Request, T4Request, NamesTypeOK
  <2>5. NameAtConnect(n) = IF nameTitle = "iw4" THEN NoName ELSE n
    BY <2>3, <2>4 DEF NameAtConnect
  <2>6. calls \in Seq(Slots)
    BY DEF NamesTypeOK
  <2>7. /\ calls' \in Seq(Slots) /\ Len(calls') = Len(calls) + 1
        /\ calls'[Len(calls) + 1] = s
        /\ \A i \in DOMAIN calls : calls'[i] = calls[i]
        /\ DOMAIN calls' = DOMAIN calls \union {Len(calls) + 1}
        /\ DOMAIN calls = 1..Len(calls) /\ Len(calls) \in Nat
    BY <2>1, <2>2, <2>6
  <2>8. /\ name'[s] = IF nameTitle = "iw4" THEN NoName ELSE n
        /\ asked'[s] = n
        /\ \A c \in Slots \ {s} : name'[c] = name[c] /\ asked'[c] = asked[c]
    BY <2>1, <2>2, <2>5 DEF NamesTypeOK
  <2>9. \A i \in DOMAIN calls : calls[i] \in Slots /\ calls[i] # s
    BY <2>2, <2>6, <2>7 DEF CallsApart
  <2>10. NamesTypeOK'
    <3>1. name' \in [Slots -> Names \union {NoName, "none"}] /\ asked' \in [Slots -> Names \union {NoName}]
      BY <2>1, <2>5 DEF NamesTypeOK
    <3>2. pending' \in Names \union {NoName} /\ calls' # <<>>
      BY <2>1, <2>4, <2>7
    <3> QED
      BY <1>1, <2>7, <3>1, <3>2 DEF NamesTypeOK
  <2>11. Joining' = Joining \union {s}
    BY <2>7 DEF Joining
  <2>12. Free' = Free \ {s}
    BY <2>2, <2>8 DEF Free
  <2>13. Named'
    <3>1. ASSUME NEW c \in Slots \ (Free \union Joining)', c # s
          PROVE  name'[c] = asked'[c]
      BY <2>8, <2>11, <2>12, <3>1 DEF Named
    <3>2. ASSUME nameTitle # "iw4", NEW c \in Joining'
          PROVE  name'[c] = asked'[c]
      <4>1. CASE c = s
        BY <2>8, <3>2, <4>1
      <4>2. CASE c # s
        <5>1. c \in Joining /\ c \in Slots
          BY <2>9, <2>11, <4>2 DEF Joining
        <5> QED
          BY <2>8, <3>2, <4>2, <5>1 DEF Named
      <4> QED
        BY <4>1, <4>2
    <3> QED
      BY <1>1, <2>11, <3>1, <3>2 DEF Named
  <2>14. CallsApart'
    <3> DEFINE l == Len(calls) + 1
    <3>1. /\ calls'[l] = s /\ l \notin DOMAIN calls /\ DOMAIN calls' = DOMAIN calls \union {l}
          /\ \A i \in DOMAIN calls : calls'[i] = calls[i]
      BY <2>7
    <3> HIDE DEF l
    <3>2. \A i, j \in DOMAIN calls' : i # j => calls'[i] # calls'[j]
      BY <2>9, <3>1 DEF CallsApart
    <3>3. name'[s] # "none"
      BY <2>8
    <3>4. ASSUME NEW i \in DOMAIN calls PROVE name'[calls[i]] # "none"
      BY <2>8, <2>9 DEF CallsApart
    <3>5. \A i \in DOMAIN calls' : name'[calls'[i]] # "none"
      BY <3>1, <3>3, <3>4
    <3> QED
      BY <3>2, <3>5 DEF CallsApart
  <2>15. PendingOfCall'
    BY <1>1, <2>1, <2>4, <2>7, <2>8 DEF PendingOfCall
  <2> QED
    BY <2>10, <2>13, <2>14, <2>15
<1> QED
  BY <1>2, <1>3

LEMMA ReturnKeepsNames ==
  ASSUME NamesInv, Return
  PROVE  NamesInv'
<1> USE TestClientNamesAssumption DEF NamesInv
<1> DEFINE s == Last(calls)
<1>1. /\ calls # <<>> /\ calls' = Front(calls) /\ pending' = NoName
      /\ name' = [name EXCEPT ![s] = NameAtReturn(s)]
      /\ UNCHANGED <<nameTitle, asked>>
  BY DEF Return, PendingAtReturn
<1>2. calls \in Seq(Slots) /\ Len(calls) \in Nat /\ Len(calls) > 0 /\ DOMAIN calls = 1..Len(calls)
  BY <1>1 DEF NamesTypeOK
<1>3. s = calls[Len(calls)] /\ s \in Slots
  BY <1>2 DEF Last
<1> HIDE DEF s
<1>4. /\ calls' \in Seq(Slots) /\ Len(calls') = Len(calls) - 1
      /\ DOMAIN calls' = 1..(Len(calls) - 1)
      /\ \A i \in 1..(Len(calls) - 1) : calls'[i] = calls[i]
  BY <1>1, <1>2 DEF Front
<1>5. name[s] # "none" /\ s \in Joining
  BY <1>2, <1>3 DEF CallsApart, Joining
<1>6. Joining' = Joining \ {s}
  BY <1>2, <1>3, <1>4 DEF Joining, CallsApart
<1>7. NameAtReturn(s) = asked[s]
  <2>1. CASE nameTitle = "iw4"
    <3>1. s = calls[1]
      BY <1>2, <1>3, <2>1 DEF PendingOfCall
    <3> QED
      BY <1>1, <2>1, <3>1 DEF PendingOfCall, NameAtReturn, IW4NameAtReturn
  <2>2. CASE nameTitle # "iw4"
    BY <1>5, <2>2 DEF Named, NameAtReturn
  <2> QED
    BY <2>1, <2>2
<1>8. name'[s] = asked[s] /\ \A c \in Slots \ {s} : name'[c] = name[c]
  BY <1>1, <1>3, <1>7 DEF NamesTypeOK
<1>9. asked[s] \in Names \union {NoName} /\ asked[s] # "none"
  BY <1>3 DEF NamesTypeOK
<1>10. NamesTypeOK'
  <2>1. name' \in [Slots -> Names \union {NoName, "none"}]
    BY <1>1, <1>7, <1>9 DEF NamesTypeOK
  <2>2. Len(calls') <= MaxDepth
    BY <1>2, <1>4 DEF NamesTypeOK
  <2> QED
    BY <1>1, <1>4, <2>1, <2>2 DEF NamesTypeOK
<1>11. Free' = Free
  BY <1>3, <1>5, <1>8, <1>9 DEF Free
<1>12. Named'
  <2>1. \A c \in Joining' : c \in Joining /\ c \in Slots /\ c # s
    BY <1>2, <1>6 DEF Joining
  <2> QED
    BY <1>1, <1>6, <1>8, <1>11, <2>1 DEF Named
<1>13. CallsApart'
  <2>1. ASSUME NEW i \in DOMAIN calls'
        PROVE  /\ i \in DOMAIN calls /\ calls'[i] = calls[i]
               /\ calls[i] \in Slots \ {s} /\ name[calls[i]] # "none"
    <3>1. i \in DOMAIN calls /\ calls'[i] = calls[i] /\ i # Len(calls) /\ Len(calls) \in DOMAIN calls
      BY <1>2, <1>4
    <3> QED
      BY <1>2, <1>3, <3>1 DEF CallsApart
  <2>2. \A i, j \in DOMAIN calls' : i # j => calls'[i] # calls'[j]
    BY <2>1 DEF CallsApart
  <2>3. \A i \in DOMAIN calls' : name'[calls'[i]] # "none"
    BY <1>8, <2>1
  <2> QED
    BY <2>2, <2>3 DEF CallsApart
<1>14. PendingOfCall'
  BY <1>1, <1>2, <1>4 DEF PendingOfCall
<1> QED
  BY <1>10, <1>12, <1>13, <1>14

LEMMA OthersKeepNames ==
  ASSUME DropTitles \subseteq {"iw2", "iw4", "iw5"}, NamesInv,
         Drop \/ \E c \in Slots : Kick(c)
  PROVE  NamesInv'
<1> USE TestClientNamesAssumption DEF NamesInv
<1>0. <<>> \in Seq(Slots) /\ Len(<<>>) = 0 /\ DOMAIN <<>> = {}
  OBVIOUS
<1>1. CASE Drop
  <2>1. /\ calls' = <<>> /\ name' = [c \in Slots |-> "none"] /\ UNCHANGED <<nameTitle, asked>>
        /\ pending' = NoName
    BY <1>1 DEF Drop, PendingAfterShutdown, PendingOfCall
  <2>2. NamesTypeOK'
    BY <1>0, <2>1 DEF NamesTypeOK
  <2>3. Joining' = {} /\ Free' = Slots
    BY <1>0, <2>1 DEF Joining, Free
  <2>4. Named' /\ CallsApart' /\ PendingOfCall'
    BY <1>0, <2>1, <2>3 DEF Named, CallsApart, PendingOfCall
  <2> QED
    BY <2>2, <2>4
<1>2. ASSUME NEW c \in Slots, Kick(c)
      PROVE  NamesInv'
  <2>1. calls = <<>> /\ name' = [name EXCEPT ![c] = "none"] /\ UNCHANGED <<nameTitle, pending, calls, asked>>
    BY <1>2 DEF Kick
  <2>2. NamesTypeOK'
    BY <2>1 DEF NamesTypeOK
  <2>3. Joining' = {} /\ Joining = {} /\ Free' = Free \union {c}
    BY <1>0, <2>1 DEF Joining, Free, NamesTypeOK
  <2>4. \A d \in Slots \ {c} : name'[d] = name[d]
    BY <2>1 DEF NamesTypeOK
  <2>5. Named'
    BY <2>1, <2>3, <2>4 DEF Named
  <2>6. CallsApart' /\ PendingOfCall'
    BY <1>0, <2>1 DEF CallsApart, PendingOfCall
  <2> QED
    BY <2>2, <2>5, <2>6
<1> QED
  BY <1>1, <1>2

(* Any number of test clients, whatever names scripts ask for and however  *)
(* calls nest, fail or are cut short, get the names their own calls asked  *)
(* for: for titles whose connect callbacks add test clients only where the *)
(* static is emptied first (IW2) or there is none (IW5), and where the     *)
(* engine cuts calls short only in titles that clean up (not IW3 and T4).  *)
THEOREM ClientsAreNamedAsAsked ==
  ASSUME NestTitles \subseteq {"iw2", "iw5"}, DropTitles \subseteq {"iw2", "iw4", "iw5"}
  PROVE  NamesSpec => []NamedAsAsked
<1>1. NamesInv /\ [NamesNext]_nameVars => NamesInv'
  <2> SUFFICES ASSUME NamesInv, [NamesNext]_nameVars PROVE NamesInv'
    OBVIOUS
  <2>1. CASE UNCHANGED nameVars
    BY <2>1 DEF nameVars, NamesInv, NamesTypeOK, Named, CallsApart, PendingOfCall, Free, Joining
  <2>2. CASE NamesNext
    BY <2>2, AddKeepsNames, ReturnKeepsNames, OthersKeepNames DEF NamesNext
  <2> QED
    BY <2>1, <2>2
<1>2. NamesInv => NamedAsAsked
  BY DEF NamesInv, NamedAsAsked
<1> QED
  BY <1>1, <1>2, NamesInitOK, PTL DEF NamesSpec
=============================================================================
