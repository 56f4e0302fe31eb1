--------------------------- MODULE FeederMenusProofs ---------------------------
(***************************************************************************)
(* Proofs about the mods menu and the custom map menu of iw3/mp            *)
(* (FeederMenus), for any directories and any order of their names, and    *)
(* about the custom maps of T4 SP: their browser (UsermapMenu) and their   *)
(* files and asset pools (UsermapZones), for any maps and file handles.    *)
(*                                                                         *)
(* What an open menu shows is what is chosen because the menu is opened by *)
(* a scan, which sets both rows, and because every later move sets both    *)
(* rows again; the lists an earlier game left behind are never shown.      *)
(* That needs to know that a menu is open in a running game only, that the *)
(* chosen row is in the list or the first, and that a scan lists the       *)
(* directory exactly, each name once.                                      *)
(*                                                                         *)
(* The browser of T4 SP keeps the pixels of its image before it paints on  *)
(* them: as long as it keeps none of the image that is loaded, that image  *)
(* has not been painted.  What a map of T4 SP opens is its own because a   *)
(* map that is played and custom is the active one, and none is while one  *)
(* of the game is played.                                                  *)
(*                                                                         *)
(* The names of maps: what the parsers hold after some tokens is what      *)
(* these tokens mean so far, told apart by where an entry is open; a token *)
(* more changes no entry that was complete.                                *)
(***************************************************************************)
EXTENDS FeederMenus, UsermapMenu, UsermapZones, FiniteSetTheorems, WellFoundedInduction, TLAPS

-----------------------------------------------------------------------------
(* The lists *)

(* A scan lists the directory: every name of it, and no other.             *)
LEMMA ListingsAreListings ==
  ASSUME NEW S \in SUBSET Entry, NEW s \in Listings(S)
  PROVE  /\ s \in Seq(Entry)
         /\ DOMAIN s = 1..Len(s)
         /\ {s[i] : i \in DOMAIN s} = S
         /\ \A i, j \in DOMAIN s : s[i] = s[j] => i = j
<1> DEFINE n == Cardinality(S)
<1>1. IsFiniteSet(S)
  BY FS_Subset, FeederMenusAssumption
<1>2. n \in Nat
  BY <1>1, FS_CardinalityType
<1> HIDE DEF n
<1>3. s \in [1..n -> S]
  BY DEF Listings, n
<1>4. s \in Seq(Entry) /\ Len(s) = n /\ DOMAIN s = 1..n
  BY <1>2, <1>3
<1>5. \A i, j \in 1..n : i < j => s[i] # s[j]
  BY <1>4 DEF Listings
<1>6. \A i, j \in 1..n : s[i] = s[j] => i = j
  BY <1>2, <1>5
<1>7. s \in Injection(1..n, S)
  BY <1>3, <1>6 DEF Injection, IsInjective
<1>8. Cardinality(1..n) = n
  BY <1>2, FS_Interval
<1>9. s \in Surjection(1..n, S)
  BY <1>1, <1>7, <1>8, FS_Injection DEF n
<1>10. \A x \in S : \E i \in 1..n : s[i] = x
  BY <1>9 DEF Surjection
<1> QED
  BY <1>3, <1>4, <1>6, <1>10

(* The row kept is in the list, or it is the first; the name of it is the  *)
(* name asked for, if that is listed.                                      *)
LEMMA KeptRowIsKept ==
  ASSUME NEW s \in Seq(Entry), NEW name
  PROVE  /\ KeptRow(name, s) \in Nat
         /\ KeptRow(name, s) < Len(s) \/ KeptRow(name, s) = 0
         /\ (\E i \in DOMAIN s : s[i] = name) =>
               KeptRow(name, s) < Len(s) /\ s[KeptRow(name, s) + 1] = name
<1>1. CASE \E i \in DOMAIN s : s[i] = name
  <2> DEFINE i == CHOOSE k \in DOMAIN s : s[k] = name
  <2>1. i \in DOMAIN s /\ s[i] = name
    BY <1>1
  <2>2. KeptRow(name, s) = i - 1
    BY <1>1 DEF KeptRow
  <2> HIDE DEF i
  <2>3. i \in 1..Len(s)
    BY <2>1
  <2> QED
    BY <2>1, <2>2, <2>3
<1>2. CASE ~ \E i \in DOMAIN s : s[i] = name
  BY <1>2 DEF KeptRow
<1> QED
  BY <1>1, <1>2

LEMMA CounterIsRows ==
  ASSUME NEW row \in Nat, NEW s \in Seq(Entry)
  PROVE  CounterFor(row, s) \in Seq(Nat)
BY DEF CounterFor

-----------------------------------------------------------------------------
(* The inductive invariant *)

(* What a step writes of the lists is of their types.                      *)
MenusTypes ==
  /\ disk \in [Feeder -> SUBSET Entry]
  /\ open \in Feeder \cup {None} /\ painted \in BOOLEAN
  /\ items \in [Feeder -> Seq(Entry)]
  /\ current \in [Feeder -> Nat] /\ scanned \in [Feeder -> BOOLEAN]
  /\ selected \in [Feeder -> Nat] /\ cursor \in Nat
  /\ counter \in Seq(Nat)

ModTypes ==
  /\ withZone \in SUBSET Entry
  /\ game \in {"off", "starting", "running"}
  /\ fsGame \in Entry \cup {None} /\ zone \in Entry \cup {None}
  /\ mapName \in Entry \cup {None}
  /\ byHand \in BOOLEAN

(* The chosen row is in the list, or it is the first.                      *)
ChosenRowListed == \A f \in Feeder : current[f] < Len(items[f]) \/ current[f] = 0

OpenInRunningGame == open # None => game = "running"

MenusInv ==
  /\ MenusTypes
  /\ ModTypes
  /\ ChosenRowListed
  /\ OpenInRunningGame
  /\ DrawnRowIsChosenRow
  /\ CounterShowsRow

LEMMA ChosenIsEntry ==
  ASSUME MenusInv, NEW f \in Feeder
  PROVE  /\ Chosen(f) \in Entry \cup {None}
         /\ Chosen(f) # None => Chosen(f) = items[f][current[f] + 1]
<1>1. items[f] \in Seq(Entry) /\ current[f] \in Nat
  BY DEF MenusInv, MenusTypes
<1>2. CASE current[f] < Len(items[f])
  <2>1. current[f] + 1 \in 1..Len(items[f])
    BY <1>1, <1>2
  <2> QED
    BY <1>1, <1>2, <2>1 DEF Chosen
<1>3. CASE ~ (current[f] < Len(items[f]))
  BY <1>3 DEF Chosen
<1> QED
  BY <1>2, <1>3

-----------------------------------------------------------------------------
(* The initial state, and every action *)

LEMMA InitMenus == Init => MenusInv
<1> SUFFICES ASSUME Init PROVE MenusInv
  OBVIOUS
<1>1. items \in [Feeder -> Seq(Entry)] /\ current \in [Feeder -> Nat]
      /\ scanned \in [Feeder -> BOOLEAN] /\ selected \in [Feeder -> Nat]
      /\ counter \in Seq(Nat)
  <2>1. <<>> \in Seq(Entry) /\ <<>> \in Seq(Nat)
    OBVIOUS
  <2> QED
    BY <2>1 DEF Init
<1>2. MenusTypes /\ ModTypes
  BY <1>1 DEF Init, MenusTypes, ModTypes
<1> QED
  BY <1>2, FeederMenusAssumption
  DEF Init, MenusInv, ChosenRowListed, OpenInRunningGame, DrawnRowIsChosenRow, CounterShowsRow,
     Feeder

LEMMA ZoneIsMod ==
  ASSUME NEW m \in Entry \cup {None}, ReloadModZone(m)
  PROVE  zone' \in {m, None}
BY DEF ReloadModZone

LEMMA StartGameMenus == MenusInv /\ StartGame => MenusInv'
BY FeederMenusAssumption
   DEF StartGame, MenusInv, MenusTypes, ModTypes, ChosenRowListed, OpenInRunningGame,
       DrawnRowIsChosenRow, CounterShowsRow, Feeder, diskVars, listVars, modVars

LEMMA LoadInitialZonesMenus == MenusInv /\ LoadInitialZones => MenusInv'
<1> SUFFICES ASSUME MenusInv, LoadInitialZones PROVE MenusInv'
  OBVIOUS
<1>1. MenusTypes'
  BY FeederMenusAssumption DEF LoadInitialZones, MenusInv, MenusTypes, Feeder, diskVars, listVars
<1>2. ModTypes'
  BY FeederMenusAssumption DEF LoadInitialZones, MenusInv, ModTypes, Feeder, diskVars, listVars
<1>3. ChosenRowListed' /\ OpenInRunningGame' /\ DrawnRowIsChosenRow' /\ CounterShowsRow'
  BY FeederMenusAssumption
  DEF LoadInitialZones, MenusInv, ChosenRowListed, OpenInRunningGame, DrawnRowIsChosenRow,
     CounterShowsRow, Feeder, diskVars, listVars
<1> QED
  BY <1>1, <1>2, <1>3 DEF MenusInv

LEMMA TerminateMenus == MenusInv /\ Terminate => MenusInv'
<1> SUFFICES ASSUME MenusInv, Terminate PROVE MenusInv'
  OBVIOUS
<1>1. MenusTypes'
  BY FeederMenusAssumption DEF Terminate, MenusInv, MenusTypes, Feeder, diskVars, listVars
<1>2. ModTypes'
  BY FeederMenusAssumption DEF Terminate, MenusInv, ModTypes, Feeder, diskVars, listVars
<1>3. ChosenRowListed' /\ OpenInRunningGame' /\ DrawnRowIsChosenRow' /\ CounterShowsRow'
  BY FeederMenusAssumption
  DEF Terminate, MenusInv, ChosenRowListed, OpenInRunningGame, DrawnRowIsChosenRow,
     CounterShowsRow, Feeder, diskVars, listVars
<1> QED
  BY <1>1, <1>2, <1>3 DEF MenusInv

LEMMA ChangeDiskMenus == MenusInv /\ ChangeDisk => MenusInv'
<1> SUFFICES ASSUME MenusInv, ChangeDisk PROVE MenusInv'
  OBVIOUS
<1>1. \A S \in SUBSET Entry, e \in Entry : Toggle(S, e) \in SUBSET Entry
  BY DEF Toggle
<1>2. disk \in [Feeder -> SUBSET Entry] /\ withZone \in SUBSET Entry
  BY DEF MenusInv, MenusTypes, ModTypes
<1>3. disk' \in [Feeder -> SUBSET Entry] /\ withZone' \in SUBSET Entry
  <2>1. CASE \E e \in Entry, f \in Feeder : disk' = [disk EXCEPT ![f] = Toggle(@, e)]
               /\ withZone' = withZone
    <3>1. PICK e \in Entry, f \in Feeder : disk' = [disk EXCEPT ![f] = Toggle(disk[f], e)]
      BY <2>1
    <3>2. Toggle(disk[f], e) \in SUBSET Entry
      BY <1>1, <1>2
    <3> QED
      BY <1>2, <2>1, <3>1, <3>2
  <2>2. CASE \E e \in Entry : withZone' = Toggle(withZone, e) /\ disk' = disk
    BY <1>1, <1>2, <2>2
  <2> QED
    BY <2>1, <2>2 DEF ChangeDisk
<1> QED
  BY <1>3 DEF ChangeDisk, MenusInv, MenusTypes, ModTypes, ChosenRowListed, OpenInRunningGame,
     DrawnRowIsChosenRow, CounterShowsRow, listVars, uiVars, modVars

LEMMA SetByHandMenus == MenusInv /\ SetByHand => MenusInv'
BY DEF SetByHand, MenusInv, MenusTypes, ModTypes, ChosenRowListed, OpenInRunningGame,
       DrawnRowIsChosenRow, CounterShowsRow, diskVars, listVars, uiVars

LEMMA OpenMenuMenus ==
  ASSUME MenusInv, NEW f \in Feeder, OpenMenu(f)
  PROVE  MenusInv'
<1>1. PICK s \in Listings(disk[f]) :
        LET row == KeptRow(Chosen(f), s) IN
        /\ items' = [items EXCEPT ![f] = s]
        /\ current' = [current EXCEPT ![f] = row]
        /\ scanned' = [scanned EXCEPT ![f] = TRUE]
        /\ selected' = [selected EXCEPT ![f] = row]
        /\ counter' = IF f = Maps THEN CounterFor(row, s) ELSE counter
  BY DEF OpenMenu, Scan
<1> DEFINE row == KeptRow(Chosen(f), s)
<1>2. disk[f] \in SUBSET Entry
  BY DEF MenusInv, MenusTypes
<1>3. s \in Seq(Entry)
  BY <1>2, ListingsAreListings
<1>4. row \in Nat /\ (row < Len(s) \/ row = 0)
  BY <1>3, KeptRowIsKept
<1>5. CounterFor(row, s) \in Seq(Nat)
  BY <1>3, <1>4, CounterIsRows
<1> HIDE DEF row
<1>6. /\ items' = [items EXCEPT ![f] = s]
      /\ current' = [current EXCEPT ![f] = row]
      /\ scanned' = [scanned EXCEPT ![f] = TRUE]
      /\ selected' = [selected EXCEPT ![f] = row]
      /\ counter' = IF f = Maps THEN CounterFor(row, s) ELSE counter
  BY <1>1 DEF row
<1>7. open' = f /\ painted' = FALSE /\ cursor' = 0 /\ game = "running"
      /\ UNCHANGED <<disk, withZone, game, fsGame, byHand, zone, mapName>>
  BY DEF OpenMenu, diskVars, modVars
<1>8. MenusTypes'
  BY <1>3, <1>4, <1>5, <1>6, <1>7 DEF MenusInv, MenusTypes
<1>9. ModTypes'
  BY <1>7 DEF MenusInv, ModTypes
<1>10. items'[f] = s /\ current'[f] = row /\ selected'[f] = row
  BY <1>6 DEF MenusInv, MenusTypes
<1>11. ChosenRowListed'
  BY <1>4, <1>6, <1>10 DEF MenusInv, MenusTypes, ChosenRowListed
<1>12. OpenInRunningGame'
  BY <1>7 DEF OpenInRunningGame
<1>13. DrawnRowIsChosenRow'
  BY <1>7, <1>10 DEF DrawnRowIsChosenRow
<1>14. CounterShowsRow'
  BY <1>6, <1>7, <1>10 DEF CounterShowsRow
<1> QED
  BY <1>8, <1>9, <1>11, <1>12, <1>13, <1>14 DEF MenusInv

LEMMA PaintMenus == MenusInv /\ Paint => MenusInv'
<1> SUFFICES ASSUME MenusInv, Paint PROVE MenusInv'
  OBVIOUS
<1>1. open \in Feeder
  BY DEF Paint, MenusInv, MenusTypes
<1>2. selected[open] = current[open] /\ current[open] \in Nat /\ Len(items[open]) \in Nat
  BY <1>1 DEF Paint, MenusInv, MenusTypes, DrawnRowIsChosenRow
<1>3. (IF selected[open] < Len(items[open]) THEN selected[open] ELSE 0) = current[open]
  BY <1>1, <1>2 DEF MenusInv, ChosenRowListed
<1>4. selected' = [selected EXCEPT ![open] = current[open]] /\ cursor' = current[open]
  BY <1>3 DEF Paint
<1> QED
  BY <1>1, <1>2, <1>4
  DEF Paint, MenusInv, MenusTypes, ModTypes, ChosenRowListed, OpenInRunningGame,
     DrawnRowIsChosenRow, CounterShowsRow, diskVars, listVars, modVars

(* A row of the list is selected.                                          *)
LEMMA SelectRowMenus ==
  ASSUME MenusInv, open # None,
         NEW row \in 0..(Len(items[open]) - 1), SelectRow(row),
         UNCHANGED <<diskVars, game, items, scanned, open, painted, modVars, mapName>>
  PROVE  MenusInv'
<1>1. open \in Feeder
  BY DEF MenusInv, MenusTypes
<1>2. items[open] \in Seq(Entry) /\ Len(items[open]) \in Nat
  BY <1>1 DEF MenusInv, MenusTypes
<1>3. row \in Nat /\ row < Len(items[open])
  BY <1>2
<1>4. CounterFor(row, items[open]) \in Seq(Nat)
  BY <1>2, <1>3, CounterIsRows
<1>5. MenusTypes'
  BY <1>1, <1>3, <1>4 DEF SelectRow, MenusInv, MenusTypes, diskVars
<1>6. ModTypes'
  BY DEF MenusInv, ModTypes, diskVars, modVars
<1>7. ChosenRowListed'
  BY <1>1, <1>3 DEF SelectRow, MenusInv, MenusTypes, ChosenRowListed
<1>8. OpenInRunningGame'
  BY DEF MenusInv, OpenInRunningGame
<1>9. DrawnRowIsChosenRow'
  BY <1>1 DEF SelectRow, MenusInv, MenusTypes, DrawnRowIsChosenRow
<1>10. CounterShowsRow'
  BY <1>1 DEF SelectRow, MenusInv, MenusTypes, CounterShowsRow
<1> QED
  BY <1>5, <1>6, <1>7, <1>8, <1>9, <1>10 DEF MenusInv

LEMMA ScrollMenus ==
  ASSUME MenusInv, NEW d \in {-1, 1}, Scroll(d)
  PROVE  MenusInv'
<1> DEFINE max == Len(items[open]) - 1
           row == IF d < 0 /\ cursor = 0 THEN max
                  ELSE IF d > 0 /\ cursor = max THEN 0
                  ELSE cursor + d
<1>1. open \in Feeder /\ painted /\ max > 0 /\ SelectRow(row)
  BY DEF Scroll, MenusInv, MenusTypes
<1>2. items[open] \in Seq(Entry)
  BY <1>1 DEF MenusInv, MenusTypes
<1>3. cursor \in Nat /\ cursor < Len(items[open]) /\ Len(items[open]) \in Nat
  <2>1. Len(items[open]) \in Nat
    BY <1>2
  <2>2. cursor \in Nat
    BY DEF MenusInv, MenusTypes
  <2>3. open # None
    BY <1>1, FeederMenusAssumption DEF Feeder
  <2>4. cursor = current[open]
    BY <1>1, <2>3 DEF MenusInv, DrawnRowIsChosenRow
  <2>5. current[open] < Len(items[open]) \/ current[open] = 0
    BY <1>1 DEF MenusInv, ChosenRowListed
  <2>6. Len(items[open]) > 1
    BY <1>1, <2>1
  <2> QED
    BY <2>1, <2>2, <2>4, <2>5, <2>6
<1>4. row \in 0..max
  BY <1>1, <1>3
<1> HIDE DEF max, row
<1>5. row \in 0..(Len(items[open]) - 1)
  BY <1>4 DEF max
<1> QED
  BY <1>1, <1>5, SelectRowMenus DEF Scroll

LEMMA CloseMenuMenus == MenusInv /\ CloseMenu => MenusInv'
<1> SUFFICES ASSUME MenusInv, CloseMenu PROVE MenusInv'
  OBVIOUS
<1>1. MenusTypes'
  BY FeederMenusAssumption DEF CloseMenu, MenusInv, MenusTypes, Feeder, diskVars, listVars, modVars
<1>2. ModTypes'
  BY FeederMenusAssumption DEF CloseMenu, MenusInv, ModTypes, Feeder, diskVars, listVars, modVars
<1>3. ChosenRowListed' /\ OpenInRunningGame' /\ DrawnRowIsChosenRow' /\ CounterShowsRow'
  BY FeederMenusAssumption
  DEF CloseMenu, MenusInv, ChosenRowListed, OpenInRunningGame, DrawnRowIsChosenRow,
     CounterShowsRow, Feeder, diskVars, listVars, modVars
<1> QED
  BY <1>1, <1>2, <1>3 DEF MenusInv

LEMMA RunModMenus == MenusInv /\ RunMod => MenusInv'
<1> SUFFICES ASSUME MenusInv, RunMod PROVE MenusInv'
  OBVIOUS
<1>1. Chosen(Mods) \in Entry \cup {None}
  BY ChosenIsEntry DEF Feeder
<1>2. ReloadModZone(Chosen(Mods)) => zone' \in Entry \cup {None}
  BY <1>1, ZoneIsMod
<1>3. ModTypes'
  BY <1>1, <1>2 DEF RunMod, MenusInv, ModTypes, diskVars, modVars
<1> QED
  BY <1>3, FeederMenusAssumption
  DEF RunMod, MenusInv, MenusTypes, ChosenRowListed, OpenInRunningGame,
     DrawnRowIsChosenRow, CounterShowsRow, diskVars, listVars, Feeder

LEMMA ClearModsMenus == MenusInv /\ ClearMods => MenusInv'
<1> SUFFICES ASSUME MenusInv, ClearMods PROVE MenusInv'
  OBVIOUS
<1>1. MenusTypes'
  BY FeederMenusAssumption
    DEF ClearMods, MenusInv, MenusTypes, Feeder, diskVars, listVars, ReloadModZone, HasModFastfile
<1>2. ModTypes'
  BY FeederMenusAssumption
    DEF ClearMods, MenusInv, ModTypes, Feeder, diskVars, listVars, ReloadModZone, HasModFastfile
<1>3. ChosenRowListed' /\ OpenInRunningGame' /\ DrawnRowIsChosenRow' /\ CounterShowsRow'
  BY FeederMenusAssumption
  DEF ClearMods, MenusInv, ChosenRowListed, OpenInRunningGame, DrawnRowIsChosenRow,
     CounterShowsRow, Feeder, diskVars, listVars, ReloadModZone, HasModFastfile
<1> QED
  BY <1>1, <1>2, <1>3 DEF MenusInv

LEMMA ApplyMapMenus == MenusInv /\ ApplyMap => MenusInv'
<1> SUFFICES ASSUME MenusInv, ApplyMap PROVE MenusInv'
  OBVIOUS
<1>1. Chosen(Maps) \in Entry \cup {None}
  BY ChosenIsEntry DEF Feeder
<1> QED
  BY <1>1, FeederMenusAssumption
  DEF ApplyMap, MenusInv, MenusTypes, ModTypes, ChosenRowListed, OpenInRunningGame,
     DrawnRowIsChosenRow, CounterShowsRow, diskVars, listVars, modVars, Feeder

LEMMA StutterMenus == MenusInv /\ UNCHANGED vars => MenusInv'
BY DEF MenusInv, MenusTypes, ModTypes, ChosenRowListed, OpenInRunningGame,
       DrawnRowIsChosenRow, CounterShowsRow, vars, diskVars, listVars, uiVars, modVars

LEMMA NextMenus == MenusInv /\ [Next]_vars => MenusInv'
<1> SUFFICES ASSUME MenusInv, [Next]_vars PROVE MenusInv'
  OBVIOUS
<1>1. CASE PickRow
  BY <1>1, SelectRowMenus DEF PickRow
<1>2. CASE \E d \in {-1, 1} : Scroll(d)
  BY <1>2, ScrollMenus
<1>3. CASE \E f \in Feeder : OpenMenu(f)
  BY <1>3, OpenMenuMenus
<1> QED
  BY <1>1, <1>2, <1>3, StartGameMenus, LoadInitialZonesMenus, TerminateMenus, ChangeDiskMenus,
     SetByHandMenus, PaintMenus, CloseMenuMenus, RunModMenus, ClearModsMenus, ApplyMapMenus,
     StutterMenus DEF Next

LEMMA MenusInvHolds == Spec => []MenusInv
BY InitMenus, NextMenus, PTL DEF Spec

-----------------------------------------------------------------------------
(* The theorems *)

(* In an open menu the row drawn as selected, the cursor, the row a script *)
(* takes and the counter are one row of one list, whatever list and rows   *)
(* an earlier game left behind (mods.cpp:132-137, ui_feeder.cpp:234).      *)
THEOREM MenusShowChoice == Spec => []MenuShowsChoice
<1>1. MenusInv => MenuShowsChoice
  BY DEF MenusInv, MenusTypes, ModTypes, ChosenRowListed, MenuShowsChoice, TypeOK
<1> QED
  BY <1>1, MenusInvHolds, PTL

(* The mod zone in memory belongs to the active mod, or none is loaded,    *)
(* unless fs_game was set by hand (fastfiles.cpp:205).                     *)
THEOREM ModZoneIsActiveMod == Spec => []ZoneOfActiveMod
<1>1. Init => ZoneOfActiveMod
  BY DEF Init, ZoneOfActiveMod
<1>2. ZoneOfActiveMod /\ [Next]_vars => ZoneOfActiveMod'
  BY FeederMenusAssumption
  DEF Next, vars, diskVars, listVars, uiVars, modVars, ZoneOfActiveMod, ReloadModZone,
     HasModFastfile, StartGame, LoadInitialZones, Terminate, ChangeDisk, SetByHand, OpenMenu,
     Paint, PickRow, Scroll, CloseMenu, RunMod, ClearMods, ApplyMap
<1> QED
  BY <1>1, <1>2, PTL DEF Spec

(* The map applied, or the mod run, is the one drawn under the cursor when *)
(* the button was pressed (ui_feeder.cpp:181, mods.cpp:218).               *)
LEMMA TakesDrawnRowStep ==
  ASSUME MenusInv, [Next]_vars
  PROVE  /\ mapName' \notin {mapName, None} /\ painted => mapName' = items[Maps][cursor + 1]
         /\ open = Mods /\ painted /\ fsGame' \notin {fsGame, None} /\ ~byHand'
              => fsGame' = items[Mods][cursor + 1]
<1>1. Mods # None /\ Maps # None /\ Mods \in Feeder /\ Maps \in Feeder
  BY FeederMenusAssumption DEF Feeder
<1>2. painted /\ open # None => cursor = current[open]
  BY DEF MenusInv, DrawnRowIsChosenRow
<1>3. \A f \in Feeder : Chosen(f) # None => Chosen(f) = items[f][current[f] + 1]
  BY ChosenIsEntry
<1>4. ASSUME mapName' \notin {mapName, None}
      PROVE  open = Maps /\ mapName' = Chosen(Maps) /\ Chosen(Maps) # None
  <2>1. ApplyMap
    BY <1>4
    DEF Next, vars, modVars, diskVars, listVars, uiVars, StartGame, LoadInitialZones, Terminate,
       ChangeDisk, SetByHand, OpenMenu, Paint, PickRow, Scroll, CloseMenu, RunMod, ClearMods
  <2> QED
    BY <1>4, <2>1 DEF ApplyMap
<1>5. ASSUME open = Mods, fsGame' \notin {fsGame, None}, ~byHand'
      PROVE  fsGame' = Chosen(Mods) /\ Chosen(Mods) # None
  <2>1. game = "running"
    BY <1>1, <1>5 DEF MenusInv, OpenInRunningGame
  <2>2. RunMod
    BY <1>5, <2>1
    DEF Next, vars, modVars, diskVars, listVars, uiVars, StartGame, LoadInitialZones, Terminate,
       ChangeDisk, SetByHand, OpenMenu, Paint, PickRow, Scroll, CloseMenu, ClearMods, ApplyMap
  <2> QED
    BY <1>5, <2>2 DEF RunMod, modVars
<1> QED
  BY <1>1, <1>2, <1>3, <1>4, <1>5

(* A rescan keeps the chosen name while it is listed, and lists exactly    *)
(* the directory.                                                          *)
LEMMA RescanStep ==
  ASSUME MenusInv, [Next]_vars, NEW f \in Feeder, open = None, open' = f
  PROVE  /\ Chosen(f) \in disk[f] => Chosen(f)' = Chosen(f)
         /\ {items'[f][i] : i \in DOMAIN items'[f]} = disk[f]
<1>1. f # None
  BY FeederMenusAssumption DEF Feeder
<1>2. OpenMenu(f)
  BY <1>1, FeederMenusAssumption
  DEF Next, vars, modVars, diskVars, listVars, uiVars, StartGame, LoadInitialZones, Terminate,
     ChangeDisk, SetByHand, OpenMenu, Paint, PickRow, Scroll, CloseMenu, RunMod, ClearMods,
     ApplyMap
<1>3. PICK s \in Listings(disk[f]) :
        /\ items' = [items EXCEPT ![f] = s]
        /\ current' = [current EXCEPT ![f] = KeptRow(Chosen(f), s)]
  BY <1>2 DEF OpenMenu, Scan
<1>4. items'[f] = s /\ current'[f] = KeptRow(Chosen(f), s)
  BY <1>3 DEF MenusInv, MenusTypes
<1>5. disk[f] \in SUBSET Entry
  BY DEF MenusInv, MenusTypes
<1>6. s \in Seq(Entry) /\ {s[i] : i \in DOMAIN s} = disk[f]
  BY <1>5, ListingsAreListings
<1>7. ASSUME Chosen(f) \in disk[f]
      PROVE  Chosen(f)' = Chosen(f)
  <2>1. \E i \in DOMAIN s : s[i] = Chosen(f)
    BY <1>6, <1>7
  <2>2. KeptRow(Chosen(f), s) < Len(s) /\ s[KeptRow(Chosen(f), s) + 1] = Chosen(f)
    BY <1>6, <2>1, KeptRowIsKept
  <2>3. Chosen(f)' = IF current'[f] < Len(items'[f]) THEN items'[f][current'[f] + 1] ELSE None
    BY DEF Chosen
  <2> QED
    BY <1>4, <2>2, <2>3
<1> QED
  BY <1>4, <1>6, <1>7

(* What the player chose is what he gets: the row drawn when the button    *)
(* was pressed, and the name he had chosen after every rescan              *)
(* (mods.cpp:167, ui_feeder.cpp:181); the zone is the active mod's.         *)
THEOREM ChoiceIsTaken == Spec => ChoiceHolds
<1>1. MenusInv /\ [Next]_vars =>
        [/\ mapName' \notin {mapName, None} /\ painted => mapName' = items[Maps][cursor + 1]
         /\ open = Mods /\ painted /\ fsGame' \notin {fsGame, None} /\ ~byHand'
              => fsGame' = items[Mods][cursor + 1]]_vars
  BY TakesDrawnRowStep
<1>2. MenusInv /\ [Next]_vars =>
        [\A f \in Feeder : (open = None /\ open' = f) =>
           /\ Chosen(f) \in disk[f] => Chosen(f)' = Chosen(f)
           /\ {items'[f][i] : i \in DOMAIN items'[f]} = disk[f]]_vars
  BY RescanStep
<1> QED
  BY <1>1, <1>2, MenusInvHolds, ModZoneIsActiveMod, PTL
  DEF Spec, ChoiceHolds, TakesDrawnRow, RescanKeepsChoice

-----------------------------------------------------------------------------
(* The custom map browser of T4 SP (UsermapMenu), for any directories and  *)
(* any display names.                                                      *)

Rows == [name : Name, shown : Shown, hasPath : BOOLEAN]

LEMMA EntriesAreRows ==
  ASSUME usermapDisk \in [Name -> Contents]
  PROVE  /\ IsFiniteSet(Entries) /\ Entries \subseteq Rows
         /\ \A n \in Present : \E e \in Entries : e.name = n
<1> DEFINE EntryOf(n) == [name |-> n, shown |-> usermapDisk[n].shown,
             hasPath |-> usermapDisk[n].preview # "none"]
<1>1. \A n \in Present : usermapDisk[n] \in [shown : Shown, preview : {"none", "good", "bad"}]
  BY DEF Present, Contents
<1>2. \A n \in Present : EntryOf(n) \in Rows /\ EntryOf(n).name = n
  BY <1>1 DEF Rows, Present
<1>3. IsFiniteSet(Present)
  BY UsermapMenuAssumption, FS_Subset DEF Present
<1>4. Entries = {EntryOf(n) : n \in Present}
  BY DEF Entries
<1> HIDE DEF EntryOf
<1>5. IsFiniteSet(Entries)
  <2> DEFINE entryOf == [n \in Present |-> EntryOf(n)]
  <2>1. entryOf \in Surjection(Present, Entries)
    BY <1>4 DEF Surjection
  <2> QED
    BY <1>3, <2>1, FS_Surjection
<1> QED
  BY <1>2, <1>4, <1>5

(* A scan lists every map that is there.                                   *)
LEMMA ScansListAll ==
  ASSUME usermapDisk \in [Name -> Contents], NEW maps \in UsermapListings
  PROVE  /\ maps \in Seq(Rows)
         /\ DOMAIN maps = 1..Len(maps)
         /\ \A n \in Present : \E i \in DOMAIN maps : maps[i].name = n
<1> DEFINE n == Cardinality(Entries)
<1>1. IsFiniteSet(Entries) /\ Entries \subseteq Rows /\ \A m \in Present : \E e \in Entries : e.name = m
  BY EntriesAreRows
<1>2. n \in Nat
  BY <1>1, FS_CardinalityType
<1> HIDE DEF n
<1>3. maps \in [1..n -> Entries]
  BY DEF UsermapListings, n
<1>4. maps \in Seq(Rows) /\ Len(maps) = n /\ DOMAIN maps = 1..n
  BY <1>1, <1>2, <1>3
<1>5. \A i, j \in 1..n : i < j => maps[i] # maps[j]
  BY <1>4 DEF UsermapListings
<1>6. \A i, j \in 1..n : maps[i] = maps[j] => i = j
  BY <1>2, <1>5
<1>7. maps \in Injection(1..n, Entries)
  BY <1>3, <1>6 DEF Injection, IsInjective
<1>8. Cardinality(1..n) = n
  BY <1>2, FS_Interval
<1>9. maps \in Surjection(1..n, Entries)
  BY <1>1, <1>7, <1>8, FS_Injection DEF n
<1>10. \A x \in Entries : \E i \in 1..n : maps[i] = x
  BY <1>9 DEF Surjection
<1> QED
  BY <1>1, <1>4, <1>10

(* The row that a scan selects is that of the name if it is listed, and    *)
(* else the first.                                                         *)
LEMMA RowOfIsRow ==
  ASSUME NEW maps \in Seq(Rows), NEW name
  PROVE  /\ RowOf(name, maps) \in Int
         /\ IsRow(RowOf(name, maps), maps) \/ (maps = <<>> /\ RowOf(name, maps) = 0)
         /\ (\E i \in DOMAIN maps : maps[i].name = name) =>
              IsRow(RowOf(name, maps), maps) /\ maps[RowOf(name, maps) + 1].name = name
<1>1. CASE \E i \in DOMAIN maps : maps[i].name = name
  <2> DEFINE i == CHOOSE k \in DOMAIN maps : maps[k].name = name
  <2>1. i \in DOMAIN maps /\ maps[i].name = name
    BY <1>1
  <2>2. RowOf(name, maps) = i - 1
    BY <1>1 DEF RowOf
  <2> HIDE DEF i
  <2>3. i \in 1..Len(maps)
    BY <2>1
  <2> QED
    BY <2>1, <2>2, <2>3 DEF IsRow
<1>2. CASE ~ \E i \in DOMAIN maps : maps[i].name = name
  <2>1. RowOf(name, maps) = 0
    BY <1>2 DEF RowOf
  <2>2. Len(maps) \in Nat /\ (Len(maps) = 0 => maps = <<>>)
    OBVIOUS
  <2> QED
    BY <1>2, <2>1, <2>2 DEF IsRow
<1> QED
  BY <1>1, <1>2

LEMMA HighlightedIsRow ==
  ASSUME NEW maps \in Seq(Rows), NEW row \in Int, IsRow(row, maps)
  PROVE  maps[row + 1] \in Rows /\ maps[row + 1].name \in Name /\ maps[row + 1].name # NoName
         /\ maps[row + 1].shown \in Shown /\ maps[row + 1].hasPath \in BOOLEAN
<1>1. row + 1 \in 1..Len(maps)
  BY DEF IsRow
<1>2. maps[row + 1] \in Rows
  BY <1>1
<1> QED
  BY <1>2, UsermapMenuAssumption DEF Rows

(* The inductive invariant *)

DetailTypes == [name : Name \cup {NoName}, shown : Shown \cup {-1}, hasPreview : BOOLEAN]

(* While no pixels of the image are kept it has not been painted.          *)
PicturesKept ==
  /\ defaultPreviewPixels \in {NoName, "default"}
  /\ image # NoName /\ KeptPixels = NoName => pixels = "default"

(* What was asked for by the menu is what is highlighted until it is done. *)
AskedIsHighlighted ==
  activate /\ asked # NoName => usermapsScanned /\ Highlighted = asked /\ ~browsing

BrowserInv ==
  /\ BrowserTypes /\ selectedUsermap \in Int
  /\ PicturesKept
  /\ DetailsOfHighlighted
  /\ AskedIsHighlighted
  /\ browsing => usermapsScanned

LEMMA BrowserInitially == BrowserInit => BrowserInv
<1> SUFFICES ASSUME BrowserInit PROVE BrowserInv
  OBVIOUS
<1>1. Len(<<>>) = 0
  OBVIOUS
<1>2. Highlighted = NoName
  BY <1>1 DEF BrowserInit, Highlighted, IsRow
<1>3. <<>> \in Seq([name : Name, shown : Shown, hasPath : BOOLEAN])
  OBVIOUS
<1>4. NoDetails \in DetailTypes
  BY DEF NoDetails, DetailTypes
<1>5. BrowserTypes
  <2>1. IsRow(selectedUsermap, usermaps) \/ (usermaps = <<>> /\ selectedUsermap = 0)
    BY DEF BrowserInit
  <2>2. usermaps \in Seq([name : Name, shown : Shown, hasPath : BOOLEAN])
    BY <1>3 DEF BrowserInit
  <2>3. details \in DetailTypes
    BY <1>4 DEF BrowserInit
  <2> QED
    BY <2>1, <2>2, <2>3 DEF BrowserInit, BrowserTypes, DetailTypes
<1> QED
  BY <1>5 DEF BrowserInit, BrowserInv, PicturesKept, DetailsOfHighlighted, AskedIsHighlighted

-----------------------------------------------------------------------------
(* The picture *)

(* A row that is taken is described, and painted if it can be; else the    *)
(* image shows its own pixels, and only these are kept.                    *)
LEMMA SelectionIsShown ==
  ASSUME BrowserInv, NEW maps \in Seq(Rows), NEW row \in Int, UpdateSelectedUsermap(row, maps),
         usermaps' = maps, selectedUsermap' = row
  PROVE  /\ details' \in DetailTypes /\ details'.name = Highlighted'
         /\ image' # NoName => pixels' = IF details'.hasPreview THEN Highlighted' ELSE "default"
         /\ PicturesKept'
         /\ UNCHANGED image /\ previewImage' = image
         /\ pixels' \in Name \cup {"default", NoName}
<1>1. UNCHANGED image /\ previewImage' = image
  BY DEF UpdateSelectedUsermap, PaintEntry, GetPreviewImage
<1>2. /\ KeptPixels \in {NoName, "default"} /\ NoName # "default"
      /\ image # NoName /\ KeptPixels = NoName => pixels = "default"
      /\ pixels \in Name \cup {"default", NoName}
  BY UsermapMenuAssumption DEF BrowserInv, PicturesKept, KeptPixels, BrowserTypes
<1>3. KeptPixels' = defaultPreviewPixels'
  BY <1>1 DEF KeptPixels
<1>4. CASE IsRow(row, maps)
  <2> DEFINE entry == maps[row + 1]
  <2>1. entry.name \in Name /\ entry.name # NoName /\ entry.shown \in Shown /\ entry.hasPath \in BOOLEAN
    BY <1>4, HighlightedIsRow
  <2>2. Highlighted' = entry.name
    BY <1>4 DEF Highlighted
  <2>3. details' = [name |-> entry.name, shown |-> entry.shown, hasPreview |-> CanReplace(entry)]
        /\ PaintEntry(entry)
    BY <1>4 DEF UpdateSelectedUsermap
  <2> HIDE DEF entry
  <2>4. CanReplace(entry) \in BOOLEAN
    BY <2>1 DEF CanReplace
  <2>5. details' \in DetailTypes /\ details'.name = entry.name /\ details'.hasPreview = CanReplace(entry)
    BY <2>1, <2>3, <2>4 DEF DetailTypes
  <2>6. KeptAfter(entry) \in {NoName, "default"}
    BY <1>2 DEF KeptAfter
  <2>7. pixels' = (IF CanReplace(entry) THEN entry.name ELSE Restored(KeptAfter(entry)))
        /\ defaultPreviewPixels' = KeptAfter(entry)
    BY <2>3 DEF PaintEntry
  <2>8. image # NoName => Restored(KeptAfter(entry)) = "default"
    <3>1. CASE KeptAfter(entry) = "default"
      BY <1>2, <3>1 DEF Restored
    <3>2. CASE KeptAfter(entry) = NoName
      BY <1>2, <3>2 DEF Restored, KeptAfter
    <3> QED
      BY <2>6, <3>1, <3>2
  <2>9. image # NoName /\ KeptAfter(entry) = NoName => ~ CanReplace(entry)
    BY <1>2, <2>1 DEF KeptAfter, CanReplace
  <2>10. PicturesKept'
    BY <1>1, <1>3, <2>6, <2>7, <2>8, <2>9 DEF PicturesKept
  <2>11. pixels' \in Name \cup {"default", NoName}
    BY <1>2, <2>1, <2>6, <2>7 DEF Restored
  <2> QED
    BY <1>1, <2>2, <2>5, <2>7, <2>8, <2>10, <2>11
<1>5. CASE ~ IsRow(row, maps)
  <2>1. Highlighted' = NoName
    BY <1>5 DEF Highlighted
  <2>2. details' = NoDetails /\ pixels' = Restored(KeptPixels) /\ defaultPreviewPixels' = KeptPixels
    BY <1>5 DEF UpdateSelectedUsermap
  <2>3. details' \in DetailTypes /\ details'.name = NoName /\ details'.hasPreview = FALSE
    BY <2>2 DEF NoDetails, DetailTypes
  <2>4. image # NoName => pixels' = "default"
    BY <1>2, <2>2 DEF Restored
  <2>5. PicturesKept'
    BY <1>1, <1>2, <1>3, <2>2, <2>4 DEF PicturesKept
  <2>6. pixels' \in Name \cup {"default", NoName}
    BY <1>2, <2>2 DEF Restored
  <2> QED
    BY <1>1, <2>1, <2>3, <2>4, <2>5, <2>6
<1> QED
  BY <1>4, <1>5

(* What a selection leaves, of the types that it must have.                *)
SelectionShown ==
  /\ usermaps \in Seq(Rows) /\ selectedUsermap \in Int
  /\ IsRow(selectedUsermap, usermaps) \/ (usermaps = <<>> /\ selectedUsermap = 0)
  /\ details \in DetailTypes /\ details.name = Highlighted
  /\ image # NoName => pixels = IF details.hasPreview THEN Highlighted ELSE "default"
  /\ PicturesKept
  /\ {image, previewImage} \subseteq Images \cup {NoName}
  /\ pixels \in Name \cup {"default", NoName}

LEMMA SelectionShows ==
  ASSUME BrowserInv, NEW maps \in Seq(Rows), NEW row \in Int, UpdateSelectedUsermap(row, maps),
         IsRow(row, maps) \/ (maps = <<>> /\ row = 0),
         usermaps' = maps, selectedUsermap' = row
  PROVE  SelectionShown' /\ image' = image
<1>1. /\ details' \in DetailTypes /\ details'.name = Highlighted'
      /\ image' # NoName => pixels' = IF details'.hasPreview THEN Highlighted' ELSE "default"
      /\ PicturesKept'
      /\ UNCHANGED image /\ previewImage' = image
      /\ pixels' \in Name \cup {"default", NoName}
  BY SelectionIsShown
<1>2. image \in Images \cup {NoName}
  BY DEF BrowserInv, BrowserTypes
<1>3. IsRow(selectedUsermap', usermaps') \/ (usermaps' = <<>> /\ selectedUsermap' = 0)
  OBVIOUS
<1> QED
  BY <1>1, <1>2, <1>3 DEF SelectionShown, IsRow

(* A scan shows the map it selects: the one it looked for, if it is there. *)
LEMMA ScanShows ==
  ASSUME BrowserInv, ScanUsermaps
  PROVE  /\ SelectionShown' /\ image' = image /\ usermapsScanned' = TRUE
         /\ SelectedName \in Present => Highlighted' = SelectedName
<1>1. PICK maps \in UsermapListings :
        /\ usermaps' = maps
        /\ selectedUsermap' = RowOf(SelectedName, maps)
        /\ usermapsScanned' = TRUE
        /\ UpdateSelectedUsermap(RowOf(SelectedName, maps), maps)
  BY DEF ScanUsermaps
<1> DEFINE name == SelectedName
<1> HIDE DEF name
<1>2. /\ maps \in Seq(Rows)
      /\ \A n \in Present : \E i \in DOMAIN maps : maps[i].name = n
  BY ScansListAll DEF BrowserInv, BrowserTypes
<1>3. /\ RowOf(name, maps) \in Int
      /\ IsRow(RowOf(name, maps), maps) \/ (maps = <<>> /\ RowOf(name, maps) = 0)
      /\ (\E i \in DOMAIN maps : maps[i].name = name) =>
           IsRow(RowOf(name, maps), maps) /\ maps[RowOf(name, maps) + 1].name = name
  BY <1>2, RowOfIsRow
<1>4. SelectionShown' /\ image' = image
  BY <1>1, <1>2, <1>3, SelectionShows DEF name
<1>5. name \in Present => Highlighted' = name
  BY <1>1, <1>2, <1>3 DEF Highlighted, name
<1> QED
  BY <1>1, <1>4, <1>5 DEF name

(* What is in the lobby is a map or none.                                  *)
LobbyTypes ==
  /\ usermapDisk \in [Name -> Contents]
  /\ {ui_mapname, mapname, asked} \subseteq Name \cup {Stock, NoName}
  /\ {usermapsScanned, active, activate, browsing} \subseteq BOOLEAN

LEMMA ShownIsInvariant ==
  SelectionShown /\ LobbyTypes /\ AskedIsHighlighted /\ (browsing => usermapsScanned) => BrowserInv
<1> SUFFICES ASSUME SelectionShown, LobbyTypes, AskedIsHighlighted, browsing => usermapsScanned
             PROVE  BrowserInv
  OBVIOUS
<1>1. {pixels, defaultPreviewPixels} \subseteq Name \cup {"default", NoName}
  BY DEF SelectionShown, PicturesKept
<1>2. BrowserTypes
  BY <1>1 DEF SelectionShown, LobbyTypes, BrowserTypes, Rows, DetailTypes
<1>3. DetailsOfHighlighted
  BY DEF SelectionShown, PicturesKept, DetailsOfHighlighted
<1> QED
  BY <1>2, <1>3 DEF SelectionShown, BrowserInv

(* A step that leaves the list, the details and the picture alone.         *)
SelectionKept == UNCHANGED <<usermaps, selectedUsermap, details, imageVars>>


LEMMA KeptIsInvariant ==
  ASSUME BrowserInv, SelectionKept, browsing' => browsing,
         LobbyTypes', AskedIsHighlighted', browsing' => usermapsScanned'
  PROVE  BrowserInv'
<1>1. UNCHANGED <<usermaps, selectedUsermap, details, image, pixels, previewImage, defaultPreviewPixels>>
  BY DEF SelectionKept, imageVars
<1>2. Highlighted' = Highlighted /\ KeptPixels' = KeptPixels
  BY <1>1 DEF Highlighted, KeptPixels, IsRow
<1>3. PicturesKept' /\ DetailsOfHighlighted'
  BY <1>1, <1>2 DEF BrowserInv, PicturesKept, DetailsOfHighlighted
<1>4. BrowserTypes'
  BY <1>1 DEF BrowserInv, BrowserTypes, LobbyTypes, IsRow
<1> QED
  BY <1>1, <1>3, <1>4 DEF BrowserInv

LEMMA LobbyTyped == BrowserInv => LobbyTypes
BY DEF BrowserInv, BrowserTypes, LobbyTypes

LEMMA HighlightedIsName == BrowserInv => Highlighted \in Name \cup {NoName}
<1> SUFFICES ASSUME BrowserInv PROVE Highlighted \in Name \cup {NoName}
  OBVIOUS
<1>1. usermaps \in Seq(Rows) /\ selectedUsermap \in Int
  BY DEF BrowserInv, BrowserTypes, Rows
<1> QED
  BY <1>1, HighlightedIsRow DEF Highlighted

-----------------------------------------------------------------------------
(* The actions *)

LEMMA OpenBrowserActs ==
  ASSUME BrowserInv, OpenBrowser
  PROVE  /\ BrowserInv'
         /\ SelectedName \in Present =>
              Highlighted' = IF Highlighted # NoName THEN Highlighted ELSE ui_mapname
<1>1. ~ activate /\ UNCHANGED <<usermapDisk, lobbyVars, activate, asked>> /\ browsing' = TRUE /\ ScanUsermaps
  BY DEF OpenBrowser
<1>2. SelectionShown' /\ usermapsScanned' = TRUE /\ (SelectedName \in Present => Highlighted' = SelectedName)
  BY <1>1, ScanShows
<1>3. LobbyTypes'
  BY <1>1, <1>2, LobbyTyped DEF LobbyTypes, lobbyVars
<1>4. AskedIsHighlighted'
  BY <1>1 DEF AskedIsHighlighted
<1>5. browsing' => usermapsScanned'
  BY <1>2
<1>6. BrowserInv'
  BY <1>2, <1>3, <1>4, <1>5, ShownIsInvariant, PTL
<1> QED
  BY <1>2, <1>6 DEF SelectedName

LEMMA SelectionActs ==
  ASSUME BrowserInv, NEW row \in 0..Len(usermaps) - 1, UI_FeederSelection(row)
  PROVE  BrowserInv'
<1>1. /\ browsing /\ IsRow(row, usermaps) /\ selectedUsermap' = row /\ usermaps' = usermaps
      /\ UpdateSelectedUsermap(row, usermaps)
      /\ UNCHANGED <<usermapDisk, usermapsScanned, lobbyVars, activate, browsing, asked>>
  BY DEF UI_FeederSelection
<1>2. usermaps \in Seq(Rows) /\ row \in Int
  BY DEF BrowserInv, BrowserTypes, Rows
<1>3. SelectionShown'
  BY <1>1, <1>2, SelectionShows
<1>4. LobbyTypes'
  BY <1>1, LobbyTyped DEF LobbyTypes, lobbyVars
<1>5. ~ (activate /\ asked # NoName) /\ usermapsScanned
  BY <1>1 DEF BrowserInv, AskedIsHighlighted
<1>6. AskedIsHighlighted' /\ (browsing' => usermapsScanned')
  BY <1>1, <1>5 DEF AskedIsHighlighted
<1> QED
  BY <1>3, <1>4, <1>6, ShownIsInvariant, PTL

LEMMA DoubleClickActs ==
  ASSUME BrowserInv, DoubleClick
  PROVE  BrowserInv'
<1>1. /\ browsing /\ activate' = TRUE /\ browsing' = FALSE /\ asked' = details.name
      /\ UNCHANGED <<usermapDisk, usermapVars, details, imageVars, lobbyVars>>
  BY DEF DoubleClick
<1>2. SelectionKept
  BY <1>1 DEF SelectionKept, usermapVars
<1>3. Highlighted' = Highlighted /\ details.name = Highlighted /\ usermapsScanned
      /\ usermapsScanned' = usermapsScanned
  BY <1>1 DEF BrowserInv, DetailsOfHighlighted, usermapVars, Highlighted, IsRow
<1>4. LobbyTypes'
  BY <1>1, <1>3, LobbyTyped, HighlightedIsName DEF LobbyTypes, lobbyVars
<1>5. AskedIsHighlighted'
  BY <1>1, <1>3 DEF AskedIsHighlighted
<1> QED
  BY <1>1, <1>2, <1>4, <1>5, KeptIsInvariant

(* Steps that leave the selection alone and ask for nothing.               *)
LEMMA QuietActs ==
  ASSUME BrowserInv, UNCHANGED <<usermapVars, details, imageVars>>, browsing' => browsing,
         usermapDisk' \in [Name -> Contents], {ui_mapname', mapname'} \subseteq Name \cup {Stock, NoName},
         active' \in BOOLEAN, activate' \in BOOLEAN, browsing' \in BOOLEAN,
         asked' = NoName \/ (UNCHANGED <<activate, asked>>)
  PROVE  BrowserInv'
<1>1. UNCHANGED <<usermaps, selectedUsermap, usermapsScanned, details, imageVars>>
  BY DEF usermapVars
<1>2. SelectionKept /\ Highlighted' = Highlighted
  BY <1>1 DEF SelectionKept, Highlighted, IsRow
<1>3. LobbyTypes'
  BY <1>1, LobbyTyped DEF LobbyTypes
<1>4. AskedIsHighlighted' /\ (browsing' => usermapsScanned')
  BY <1>1, <1>2 DEF BrowserInv, AskedIsHighlighted
<1> QED
  BY <1>2, <1>3, <1>4, KeptIsInvariant

LEMMA CloseBrowserActs == ASSUME BrowserInv, CloseBrowser PROVE BrowserInv'
BY QuietActs, LobbyTyped DEF CloseBrowser, LobbyTypes, lobbyVars

LEMMA SetByConsoleActs == ASSUME BrowserInv, SetByConsole PROVE BrowserInv'
BY QuietActs, LobbyTyped DEF SetByConsole, LobbyTypes, lobbyVars

LEMMA ChangeMapsActs == ASSUME BrowserInv, ChangeMaps PROVE BrowserInv'
BY QuietActs, LobbyTyped DEF ChangeMaps, LobbyTypes, lobbyVars

LEMMA ChooseStockMapActs == ASSUME BrowserInv, ChooseStockMap PROVE BrowserInv'
BY QuietActs, LobbyTyped DEF ChooseStockMap, LobbyTypes

(* What is activated is what was asked for.                                *)
LEMMA RefreshActs ==
  ASSUME BrowserInv, UI_Refresh
  PROVE  /\ BrowserInv'
         /\ asked # NoName => active' /\ mapname' = asked /\ ui_mapname' = asked
<1>1. /\ activate /\ activate' = FALSE /\ asked' = NoName /\ UNCHANGED <<usermapDisk, browsing>>
      /\ ActivateRow(selectedUsermap', usermaps')
      /\ IF usermapsScanned THEN UNCHANGED <<usermapVars, details, imageVars>> ELSE ScanUsermaps
  BY DEF UI_Refresh, ActivateSelectedUsermap
<1>2. SelectionShown' => usermaps' \in Seq(Rows) /\ selectedUsermap' \in Int
  BY DEF SelectionShown
<1>3. usermaps' \in Seq(Rows) /\ selectedUsermap' \in Int
  <2>1. usermaps \in Seq(Rows) /\ selectedUsermap \in Int
    BY DEF BrowserInv, BrowserTypes, Rows
  <2> QED
    BY <1>1, <1>2, <2>1, ScanShows DEF usermapVars
<1>4. {ui_mapname', mapname'} \subseteq Name \cup {Stock, NoName} /\ active' \in BOOLEAN
  <2>1. CASE IsRow(selectedUsermap', usermaps')
    <3>1. usermaps'[selectedUsermap' + 1].name \in Name
      BY <1>3, <2>1, HighlightedIsRow
    <3> QED
      BY <1>1, <2>1, <3>1 DEF ActivateRow, Activated
  <2>2. CASE ~ IsRow(selectedUsermap', usermaps')
    BY <1>1, <2>2, LobbyTyped DEF ActivateRow, lobbyVars, LobbyTypes
  <2> QED
    BY <2>1, <2>2
<1>5. CASE usermapsScanned
  <2>1. BrowserInv'
    BY <1>1, <1>4, <1>5, QuietActs, LobbyTyped DEF LobbyTypes
  <2>2. asked # NoName => Highlighted = asked
    BY <1>1 DEF BrowserInv, AskedIsHighlighted
  <2>3. usermaps' = usermaps /\ selectedUsermap' = selectedUsermap
    BY <1>1, <1>5 DEF usermapVars
  <2>4. Highlighted # NoName => IsRow(selectedUsermap, usermaps) /\ Activated(Highlighted)
    BY <1>1, <2>3 DEF Highlighted, ActivateRow, IsRow
  <2> QED
    BY <2>1, <2>2, <2>4 DEF Activated
<1>6. CASE ~ usermapsScanned
  <2>1. SelectionShown' /\ usermapsScanned' = TRUE
    BY <1>1, <1>6, ScanShows
  <2>2. LobbyTypes'
    BY <1>1, <1>4, <2>1, LobbyTyped DEF LobbyTypes
  <2>3. AskedIsHighlighted'
    BY <1>1 DEF AskedIsHighlighted
  <2>4. browsing' => usermapsScanned'
    BY <2>1
  <2>5. BrowserInv'
    BY <2>1, <2>2, <2>3, <2>4, ShownIsInvariant, PTL
  <2> QED
    BY <1>1, <1>6, <2>5 DEF BrowserInv, AskedIsHighlighted
<1> QED
  BY <1>5, <1>6

LEMMA ReloadZoneActs ==
  ASSUME BrowserInv, ReloadZone
  PROVE  BrowserInv'
<1>1. /\ ~ browsing /\ image' \in Images \cup {NoName} /\ pixels' = "default"
      /\ UNCHANGED <<usermapDisk, usermaps, selectedUsermap, usermapsScanned, details, previewImage,
                     defaultPreviewPixels, ui_mapname, active, mapname, activate, browsing, asked>>
  BY DEF ReloadZone, usermapVars, lobbyVars
<1>2. BrowserTypes'
  BY <1>1 DEF BrowserInv, BrowserTypes, IsRow
<1>3. PicturesKept' /\ DetailsOfHighlighted'
  BY <1>1 DEF BrowserInv, PicturesKept, DetailsOfHighlighted
<1>4. Highlighted' = Highlighted
  BY <1>1 DEF Highlighted, IsRow
<1>5. AskedIsHighlighted'
  BY <1>1, <1>4 DEF BrowserInv, AskedIsHighlighted
<1> QED
  BY <1>1, <1>2, <1>3, <1>5 DEF BrowserInv

LEMMA RelaunchBrowserActs ==
  ASSUME BrowserInv, RelaunchBrowser
  PROVE  BrowserInv' /\ ~ usermapsScanned' /\ ~ browsing'
<1>1. BrowserInit'
  BY DEF RelaunchBrowser, BrowserInit, BrowserInv, BrowserTypes
<1>2. BrowserInv'
  BY <1>1, BrowserInitially, PTL
<1> QED
  BY <1>2 DEF RelaunchBrowser

LEMMA StutterBrowser ==
  ASSUME BrowserInv, UNCHANGED browserVars
  PROVE  BrowserInv'
BY QuietActs, LobbyTyped DEF browserVars, LobbyTypes, lobbyVars

-----------------------------------------------------------------------------
BrowserPromise ==
  /\ ~browsing /\ browsing' /\ SelectedName \in Present
       => Highlighted' = IF Highlighted # NoName THEN Highlighted ELSE ui_mapname
  /\ activate /\ ~activate' /\ usermapsScanned' /\ asked # NoName
       => active' /\ mapname' = asked /\ ui_mapname' = asked

LEMMA BrowserStep ==
  ASSUME BrowserInv, [BrowserNext]_browserVars
  PROVE  BrowserInv' /\ BrowserPromise
<1>1. CASE OpenBrowser
  <2>1. ~ activate
    BY <1>1 DEF OpenBrowser
  <2> QED
    BY <1>1, <2>1, OpenBrowserActs DEF BrowserPromise
<1>2. CASE UI_Refresh
  <2>1. browsing' = browsing
    BY <1>2 DEF UI_Refresh
  <2> QED
    BY <1>2, <2>1, RefreshActs DEF BrowserPromise
<1>3. CASE RelaunchBrowser
  BY <1>3, RelaunchBrowserActs DEF BrowserPromise
<1>4. ASSUME NEW row \in 0..Len(usermaps) - 1, UI_FeederSelection(row)
      PROVE  BrowserInv' /\ UNCHANGED <<browsing, activate>>
  BY <1>4, SelectionActs DEF UI_FeederSelection
<1>5. CASE DoubleClick
  BY <1>5, DoubleClickActs DEF DoubleClick, BrowserPromise
<1>6. CASE CloseBrowser
  BY <1>6, CloseBrowserActs DEF CloseBrowser, BrowserPromise
<1>7. CASE SetByConsole
  BY <1>7, SetByConsoleActs DEF SetByConsole, BrowserPromise
<1>8. CASE ChangeMaps
  BY <1>8, ChangeMapsActs DEF ChangeMaps, BrowserPromise
<1>9. CASE ChooseStockMap
  BY <1>9, ChooseStockMapActs DEF ChooseStockMap, BrowserPromise
<1>10. CASE ReloadZone
  BY <1>10, ReloadZoneActs DEF ReloadZone, BrowserPromise
<1>11. CASE UNCHANGED browserVars
  BY <1>11, StutterBrowser DEF browserVars, BrowserPromise
<1>12. UNCHANGED <<browsing, activate>> => BrowserPromise
  BY DEF BrowserPromise
<1> QED
  BY <1>1, <1>2, <1>3, <1>4, <1>5, <1>6, <1>7, <1>8, <1>9, <1>10, <1>11, <1>12 DEF BrowserNext

(* The browser describes and paints the map that activation would take,    *)
(* whatever was painted before, a scan keeps the choice, and what is       *)
(* activated is what was asked for (ui.cpp:293, :371, :567).               *)
THEOREM BrowserAlwaysTakesShown == BrowserSpec => BrowserTakesShown
<1>1. BrowserInv /\ [BrowserNext]_browserVars => BrowserInv'
  BY BrowserStep
<1>2. BrowserInv /\ [BrowserNext]_browserVars =>
        [/\ ~browsing /\ browsing' /\ SelectedName \in Present
              => Highlighted' = IF Highlighted # NoName THEN Highlighted ELSE ui_mapname
         /\ activate /\ ~activate' /\ usermapsScanned' /\ asked # NoName
              => active' /\ mapname' = asked /\ ui_mapname' = asked]_browserVars
  BY BrowserStep DEF BrowserPromise
<1>3. BrowserInv => BrowserTypes /\ DetailsOfHighlighted
  BY DEF BrowserInv
<1> QED
  BY <1>1, <1>2, <1>3, BrowserInitially, PTL DEF BrowserSpec, BrowserTakesShown, ChoiceIsKept

-----------------------------------------------------------------------------
(* The files of a custom map of T4 SP (UsermapZones), for any maps and any *)
(* handles.                                                                *)

DirectoryKinds == {"loose", "pak", "_load", "_patch"}
OpenedFiles == [name : AnyMap \cup {NoMap}, kind : DirectoryKinds \cup {""}, from : Customs \cup {NoMap}]

ZonesTypes ==
  /\ installed \in SUBSET Customs
  /\ files \in SUBSET (Customs \X DirectoryKinds)
  /\ activeUsermap \in Customs \cup {NoMap}
  /\ map \in AnyMap \cup {NoMap}
  /\ opened \in [Handles -> OpenedFiles \cup {NoMap}]

(* A map that is played and custom is the active one, and no other is.     *)
ActiveIsPlayed == map # NoMap => activeUsermap = IF map \in Customs THEN map ELSE NoMap

ZonesInv == ZonesTypes /\ ActiveIsPlayed /\ PackOfActive

LEMMA ZonesInitially == ZonesInit => ZonesInv
BY UsermapZonesAssumption
DEF ZonesInit, ZonesInv, ZonesTypes, ActiveIsPlayed, PackOfActive, ReadsItself

LEMMA ZoneFields ==
  ASSUME NEW m, NEW suffix
  PROVE  Zone(m, suffix).of = m /\ Zone(m, suffix).suffix = suffix
BY DEF Zone

LEMMA CommonFields == Common.of = NoMap /\ Common.suffix = ""
BY DEF Common, Zone

(* A custom map that is set is active; a pack stays known for the map that *)
(* was active only.                                                        *)
LEMMA SetKeepsPack ==
  ASSUME ZonesInv, NEW m \in Customs, SetActiveUsermap(m), UNCHANGED opened
  PROVE  activeUsermap' = m /\ PackOfActive'
BY UsermapZonesAssumption DEF ZonesInv, SetActiveUsermap, PackOfActive, ReadsItself

LEMMA ClearKeepsPack ==
  ASSUME ClearActiveUsermap
  PROVE  activeUsermap' = NoMap /\ PackOfActive'
BY DEF ClearActiveUsermap, PackOfActive, ReadsItself

LEMMA KeptKeepsPack ==
  ASSUME ZonesInv, UNCHANGED <<activeVars, opened>>
  PROVE  activeUsermap' = activeUsermap /\ PackOfActive'
BY DEF ZonesInv, activeVars, PackOfActive, ReadsItself

(* The load screen and the zones of an installed map make it active.       *)
LEMMA FirstOfOne == ASSUME NEW n \in Nat PROVE FirstOf({n}) = n
BY DEF FirstOf

LEMMA LoadScreenActs ==
  ASSUME ZonesInv, NEW m \in AnyMap, LoadScreen(m)
  PROVE  ZonesInv'
<1> DEFINE zones == <<Zone(m, "_load")>>
<1>1. m \in Stocks \cup installed /\ map' = m /\ UNCHANGED <<installed, files, opened>>
      /\ UpdateActiveUsermap(zones)
  BY DEF LoadScreen, DB_LoadXAssets
<1>2. DOMAIN zones = {1} /\ zones[1].of = m /\ zones[1].suffix = "_load"
  BY DEF Zone
<1> HIDE DEF zones
<1>3. ZonesTypes' \/ activeUsermap' \notin Customs \cup {NoMap}
  BY <1>1 DEF ZonesInv, ZonesTypes
<1>4. CASE m \in installed
  <2>1. {n \in DOMAIN zones : UsermapExists(zones[n].of)} = {1}
    BY <1>2, <1>4 DEF UsermapExists
  <2>2. SetActiveUsermap(m)
    BY <1>1, <1>2, <2>1, FirstOfOne DEF UpdateActiveUsermap
  <2>3. m \in Customs
    BY <1>4 DEF ZonesInv, ZonesTypes
  <2> QED
    BY <1>1, <1>3, <2>2, <2>3, SetKeepsPack DEF ZonesInv, ActiveIsPlayed
<1>5. CASE m \notin installed
  <2>1. m \in Stocks /\ m \notin Customs
    BY <1>1, <1>5, UsermapZonesAssumption
  <2>2. {n \in DOMAIN zones : UsermapExists(zones[n].of)} = {}
    BY <1>2, <1>5 DEF UsermapExists
  <2>3. m # NoMap
    BY UsermapZonesAssumption
  <2>4. {n \in DOMAIN zones : zones[n].of # NoMap /\ zones[n].suffix = "_load"} # {}
    BY <1>2, <2>3
  <2>5. IF activeUsermap # NoMap THEN ClearActiveUsermap ELSE UNCHANGED activeVars
    BY <1>1, <2>2, <2>4 DEF UpdateActiveUsermap
  <2>6. activeUsermap' = NoMap /\ PackOfActive'
    BY <1>1, <2>5, ClearKeepsPack, KeptKeepsPack
  <2> QED
    BY <1>1, <1>3, <2>1, <2>6 DEF ZonesInv, ActiveIsPlayed
<1> QED
  BY <1>4, <1>5

(* The batches of a map, whose zones all have its name or none.            *)
LEMMA BatchActs ==
  ASSUME ZonesInv, NEW zones, UpdateActiveUsermap(zones), UNCHANGED <<installed, files, opened>>,
         DOMAIN zones = {1, 2},
         zones[1].of \in {NoMap, map}, zones[2].of = map,
         zones[1].suffix # "_load", zones[2].suffix # "_load",
         map \in Stocks \cup installed, UNCHANGED map
  PROVE  ZonesInv'
<1>1. NoMap \notin installed
  BY UsermapZonesAssumption DEF ZonesInv, ZonesTypes, AnyMap
<1>2. ZonesTypes' \/ activeUsermap' \notin Customs \cup {NoMap}
  BY DEF ZonesInv, ZonesTypes
<1>3. CASE map \in installed
  <2> DEFINE ours == {n \in DOMAIN zones : UsermapExists(zones[n].of)}
  <2>1. ours \in {{1, 2}, {2}} /\ \A n \in ours : zones[n].of = map
    BY <1>1, <1>3 DEF UsermapExists
  <2>2. FirstOf(ours) \in ours
    BY <2>1 DEF FirstOf
  <2>3. SetActiveUsermap(map)
    BY <2>1, <2>2 DEF UpdateActiveUsermap
  <2>4. map \in Customs
    BY <1>3 DEF ZonesInv, ZonesTypes
  <2> QED
    BY <1>2, <2>3, <2>4, SetKeepsPack DEF ZonesInv, ActiveIsPlayed
<1>4. CASE map \notin installed
  <2>1. map \in Stocks /\ map \notin Customs /\ map # NoMap
    BY <1>4, UsermapZonesAssumption DEF AnyMap
  <2>2. {n \in DOMAIN zones : UsermapExists(zones[n].of)} = {}
    BY <1>1, <1>4 DEF UsermapExists
  <2>3. {n \in DOMAIN zones : zones[n].of # NoMap /\ zones[n].suffix = "_load"} = {}
    OBVIOUS
  <2>4. UNCHANGED activeVars
    BY <2>2, <2>3 DEF UpdateActiveUsermap
  <2>5. activeUsermap = NoMap /\ activeUsermap' = NoMap /\ PackOfActive'
    BY <2>1, <2>4, KeptKeepsPack DEF ZonesInv, ActiveIsPlayed
  <2> QED
    BY <1>2, <2>1, <2>5 DEF ZonesInv, ActiveIsPlayed
<1> QED
  BY <1>3, <1>4

(* LoadMap waits for a custom map in one piece, and for no other.          *)
LEMMA LoadMapActs ==
  ASSUME ZonesInv, LoadMap
  PROVE  ZonesInv' /\ MapWaitsForItself
<1>1. PICK first \in {Common, Zone(map, "_patch")} : DB_LoadXAssets(<<first, Zone(map, "")>>)
  BY DEF LoadMap
<1> DEFINE zones == <<first, Zone(map, "")>>
<1>2. DOMAIN zones = {1, 2} /\ zones[1] = first /\ zones[2] = Zone(map, "")
  OBVIOUS
<1>3. /\ zones[2].of = map /\ zones[2].suffix = ""
      /\ \/ zones[1].of = NoMap /\ zones[1].suffix = ""
         \/ zones[1].of = map /\ zones[1].suffix = "_patch"
  <2>1. Zone(map, "").of = map /\ Zone(map, "").suffix = ""
    BY ZoneFields
  <2>2. Zone(map, "_patch").of = map /\ Zone(map, "_patch").suffix = "_patch"
    BY ZoneFields
  <2>3. first = Common \/ first = Zone(map, "_patch")
    BY <1>1
  <2> QED
    BY <1>2, <2>1, <2>2, <2>3, CommonFields
<1>4. UpdateActiveUsermap(zones) /\ (waits' <=> \E n \in DOMAIN zones : RequiresLegacyUsermapSync(zones[n]))
  BY <1>1 DEF DB_LoadXAssets
<1> HIDE DEF zones
<1>5. map \in Stocks \cup installed /\ UNCHANGED <<installed, files, map, opened>>
  BY DEF LoadMap
<1>6. ZonesInv'
  BY <1>2, <1>3, <1>4, <1>5, BatchActs
<1>7. NoMap \notin installed
  BY UsermapZonesAssumption DEF ZonesInv, ZonesTypes, AnyMap
<1>8. ~ RequiresLegacyUsermapSync(zones[1])
  BY <1>3, <1>7 DEF RequiresLegacyUsermapSync, UsermapExists
<1>9. RequiresLegacyUsermapSync(zones[2]) <=> UsermapExists(map) /\ <<map, "_load">> \notin files
  BY <1>3 DEF RequiresLegacyUsermapSync
<1>10. map \in Customs => map \in installed
  BY <1>5, UsermapZonesAssumption
<1>11. map \in Customs => (waits' <=> <<map, "_load">> \notin files)
  BY <1>2, <1>4, <1>8, <1>9, <1>10 DEF UsermapExists
<1>12. MapWaitsForItself
  <2>1. There(map, "_load") <=> <<map, "_load">> \in files
    BY DEF There
  <2>2. waits' = (\E n \in DOMAIN zones : RequiresLegacyUsermapSync(zones[n]))
    BY <1>1 DEF DB_LoadXAssets, zones
  <2>3. waits' \in BOOLEAN
    BY <2>2
  <2> QED
    BY <1>11, <2>1, <2>3 DEF MapWaitsForItself, There
<1> QED
  BY <1>6, <1>12

LEMMA LoadCommonActs ==
  ASSUME ZonesInv, LoadCommon
  PROVE  ZonesInv'
<1> DEFINE zones == <<Common>>
<1>1. UpdateActiveUsermap(zones) /\ UNCHANGED <<installed, files, opened>> /\ map' \in {map, NoMap}
  BY DEF LoadCommon, DB_LoadXAssets
<1>2. DOMAIN zones = {1} /\ zones[1].of = NoMap
  <2>1. DOMAIN zones = {1} /\ zones[1] = Common
    OBVIOUS
  <2> QED
    BY <2>1, CommonFields
<1> HIDE DEF zones
<1>3. NoMap \notin installed
  BY UsermapZonesAssumption DEF ZonesInv, ZonesTypes, AnyMap
<1>4. {n \in DOMAIN zones : UsermapExists(zones[n].of)} = {}
  BY <1>2, <1>3 DEF UsermapExists
<1>5. {n \in DOMAIN zones : zones[n].of # NoMap /\ zones[n].suffix = "_load"} = {}
  BY <1>2
<1>6. UNCHANGED activeVars
  BY <1>1, <1>4, <1>5 DEF UpdateActiveUsermap
<1>7. activeUsermap' = activeUsermap /\ PackOfActive'
  BY <1>1, <1>6, KeptKeepsPack
<1> QED
  BY <1>1, <1>7 DEF ZonesInv, ZonesTypes, ActiveIsPlayed

-----------------------------------------------------------------------------
(* What is opened, and the other steps *)

(* From the active map's directory a file comes if it is there.            *)
LEMMA ActiveIsThere ==
  ASSUME ZonesInv, map # NoMap, NEW kind \in {"loose", "pak"}
  PROVE  /\ map = activeUsermap /\ Resolves(kind) <=> There(map, kind)
         /\ Resolves(kind) => activeUsermap = map
<1>1. There(map, kind) <=> <<map, kind>> \in files
  BY DEF There
<1>2. <<map, kind>> \in files => map \in Customs
  BY DEF ZonesInv, ZonesTypes
<1>3. Resolves(kind) <=> activeUsermap # NoMap /\ <<activeUsermap, kind>> \in files
  BY DEF Resolves
<1> QED
  BY <1>1, <1>2, <1>3 DEF ZonesInv, ActiveIsPlayed

LEMMA ResolvesFrom ==
  ASSUME ZonesInv, NEW redirected \in BOOLEAN, redirected => \E kind : Resolves(kind)
  PROVE  (IF redirected THEN activeUsermap ELSE NoMap) \in Customs \cup {NoMap}
BY DEF ZonesInv, ZonesTypes, Resolves

(* Opening a file leaves what is open under the other handles.             *)
LEMMA OpenedOne ==
  ASSUME ZonesInv, NEW h \in Handles, NEW name \in AnyMap \cup {NoMap}, NEW kind \in DirectoryKinds \cup {""},
         NEW from \in Customs \cup {NoMap},
         opened' = [opened EXCEPT ![h] = [name |-> name, kind |-> kind, from |-> from]]
  PROVE  /\ opened' \in [Handles -> OpenedFiles \cup {NoMap}]
         /\ opened'[h].name = name /\ opened'[h].kind = kind /\ opened'[h].from = from
         /\ \A k \in Handles \ {h} : opened'[k] = opened[k]
<1> DEFINE f == [name |-> name, kind |-> kind, from |-> from]
<1>1. f \in OpenedFiles /\ f.name = name /\ f.kind = kind /\ f.from = from
  BY DEF OpenedFiles
<1>2. opened \in [Handles -> OpenedFiles \cup {NoMap}] /\ opened' = [opened EXCEPT ![h] = f]
  BY DEF ZonesInv, ZonesTypes
<1> HIDE DEF f
<1> QED
  BY <1>1, <1>2

LEMMA OpenLooseActs ==
  ASSUME ZonesInv, NEW h \in Handles, OpenLoose(h),
         UNCHANGED <<installed, files, activeUsermap, map, stage, waits>>
  PROVE  ZonesInv' /\ OpensItsOwn
<1> DEFINE from == IF Resolves("loose") THEN activeUsermap ELSE NoMap
<1>1. opened' = [opened EXCEPT ![h] = [name |-> NoMap, kind |-> "loose", from |-> from]]
      /\ usermapPackHandle' = usermapPackHandle
  BY DEF OpenLoose, Open
<1>2. from \in Customs \cup {NoMap}
  BY DEF ZonesInv, ZonesTypes, Resolves
<1>3. map # NoMap => from = IF There(map, "loose") THEN map ELSE NoMap
  <2>1. Resolves("loose") => activeUsermap # NoMap
    BY DEF Resolves
  <2>2. map # NoMap => (Resolves("loose") <=> There(map, "loose")) /\ (Resolves("loose") => activeUsermap = map)
    BY ActiveIsThere
  <2> QED
    BY <2>2
<1> HIDE DEF from
<1>4. /\ opened' \in [Handles -> OpenedFiles \cup {NoMap}]
      /\ opened'[h].name = NoMap /\ opened'[h].kind = "loose" /\ opened'[h].from = from
      /\ \A k \in Handles \ {h} : opened'[k] = opened[k]
  BY <1>1, <1>2, OpenedOne DEF DirectoryKinds
<1>5. from \in {NoMap, activeUsermap}
  BY DEF from
<1>6. PackOfActive'
  BY <1>1, <1>4, <1>5 DEF ZonesInv, PackOfActive, ReadsItself
<1>7. OpensItsOwn
  BY <1>3, <1>4 DEF OpensItsOwn
<1> QED
  BY <1>4, <1>6, <1>7 DEF ZonesInv, ZonesTypes, ActiveIsPlayed

LEMMA OpenPackActs ==
  ASSUME ZonesInv, NEW h \in Handles, NEW m \in AnyMap, OpenPack(h, m),
         UNCHANGED <<installed, files, activeUsermap, map, stage, waits>>
  PROVE  ZonesInv' /\ OpensItsOwn
<1> DEFINE redirected == m = activeUsermap /\ Resolves("pak")
           from == IF redirected THEN activeUsermap ELSE NoMap
<1>1. opened' = [opened EXCEPT ![h] = [name |-> m, kind |-> "pak", from |-> from]]
      /\ usermapPackHandle' = IF redirected THEN h ELSE usermapPackHandle
  BY DEF OpenPack, Open
<1>2. from \in Customs \cup {NoMap} /\ from \in {NoMap, activeUsermap}
  BY DEF ZonesInv, ZonesTypes, Resolves
<1>3. map # NoMap => from = IF There(map, "pak") /\ m \in {NoMap, map} THEN map ELSE NoMap
  <2>1. m # NoMap
    BY UsermapZonesAssumption DEF AnyMap
  <2>2. map # NoMap => (Resolves("pak") <=> There(map, "pak")) /\ (Resolves("pak") => activeUsermap = map)
    BY ActiveIsThere
  <2> QED
    BY <2>1, <2>2
<1>4. from # NoMap => redirected
  OBVIOUS
<1> HIDE DEF from, redirected
<1>5. /\ opened' \in [Handles -> OpenedFiles \cup {NoMap}]
      /\ opened'[h].name = m /\ opened'[h].kind = "pak" /\ opened'[h].from = from
      /\ \A k \in Handles \ {h} : opened'[k] = opened[k]
  BY <1>1, <1>2, OpenedOne DEF DirectoryKinds
<1>6. h # NoMap
  BY UsermapZonesAssumption
<1>7. PackOfActive'
  BY <1>1, <1>2, <1>5, <1>6 DEF ZonesInv, PackOfActive, ReadsItself
<1>8. from # NoMap => ReadsItself(h)'
  BY <1>1, <1>4, <1>6 DEF ReadsItself
<1>9. OpensItsOwn
  BY <1>3, <1>5, <1>8 DEF OpensItsOwn
<1> QED
  BY <1>5, <1>7, <1>9 DEF ZonesInv, ZonesTypes, ActiveIsPlayed

LEMMA OpenZoneActs ==
  ASSUME ZonesInv, NEW h \in Handles, OpenZone(h)
  PROVE  ZonesInv' /\ OpensItsOwn
<1>1. PICK suffix \in {"_load", "", "_patch"} :
         opened' = [opened EXCEPT ![h] = [name |-> map, kind |-> suffix,
                                          from |-> ResolveFastfilePath(Zone(map, suffix))]]
  BY DEF OpenZone
<1> DEFINE from == ResolveFastfilePath(Zone(map, suffix))
<1>2. map # NoMap /\ UNCHANGED <<installed, files, activeVars, map, stage, waits>>
  BY DEF OpenZone
<1>3. from = IF There(map, suffix) THEN map ELSE NoMap
  <2>1. Zone(map, suffix).of = map /\ Zone(map, suffix).suffix = suffix
    BY ZoneFields
  <2> QED
    BY <2>1 DEF ResolveFastfilePath
<1>4. There(map, suffix) => map \in Customs
  BY <1>1 DEF ZonesInv, ZonesTypes, There, UsermapExists
<1>5. from \in Customs \cup {NoMap} /\ from \in {NoMap, activeUsermap}
  BY <1>2, <1>3, <1>4 DEF ZonesInv, ActiveIsPlayed
<1>6. map \in AnyMap \cup {NoMap} /\ suffix \in DirectoryKinds \cup {""}
  BY <1>1 DEF ZonesInv, ZonesTypes, DirectoryKinds
<1>7. opened' = [opened EXCEPT ![h] = [name |-> map, kind |-> suffix, from |-> from]]
  BY <1>1
<1> HIDE DEF from
<1>8. /\ opened' \in [Handles -> OpenedFiles \cup {NoMap}]
      /\ opened'[h].name = map /\ opened'[h].kind = suffix /\ opened'[h].from = from
      /\ \A k \in Handles \ {h} : opened'[k] = opened[k]
  BY <1>5, <1>6, <1>7, OpenedOne
<1>9. PackOfActive'
  BY <1>2, <1>5, <1>8 DEF activeVars, ZonesInv, PackOfActive, ReadsItself
<1>10. suffix # "pak"
  BY <1>1
<1>11. OpensItsOwn
  BY <1>3, <1>8, <1>10 DEF OpensItsOwn
<1> QED
  BY <1>2, <1>8, <1>9, <1>11 DEF ZonesInv, ZonesTypes, ActiveIsPlayed, activeVars

(* A step that opens nothing.                                              *)
LEMMA OpensNothing ==
  ASSUME \A k \in Handles : opened'[k] \in {opened[k], NoMap}
  PROVE  OpensItsOwn
BY DEF OpensItsOwn

LEMMA CloseFileActs ==
  ASSUME ZonesInv, CloseFile
  PROVE  ZonesInv' /\ OpensItsOwn
<1>1. PICK h \in Handles : opened' = [opened EXCEPT ![h] = NoMap]
  BY DEF CloseFile
<1>2. UNCHANGED <<installed, files, activeVars, map, stage, waits>>
  BY DEF CloseFile
<1>3. opened' \in [Handles -> OpenedFiles \cup {NoMap}] /\ \A k \in Handles : opened'[k] \in {opened[k], NoMap}
  BY <1>1 DEF ZonesInv, ZonesTypes
<1>4. PackOfActive'
  BY <1>2, <1>3 DEF ZonesInv, PackOfActive, ReadsItself, activeVars
<1> QED
  BY <1>2, <1>3, <1>4, OpensNothing DEF ZonesInv, ZonesTypes, ActiveIsPlayed, activeVars

LEMMA ChangeUsermapsActs ==
  ASSUME ZonesInv, NEW kinds \in SUBSET DirectoryKinds, ChangeUsermaps(kinds)
  PROVE  ZonesInv'
<1>1. installed' \in SUBSET Customs /\ files' \in SUBSET (Customs \X DirectoryKinds)
  <2>1. PICK m \in Customs : Install(m) \/ \E kind \in kinds : Place(m, kind)
    BY DEF ChangeUsermaps
  <2>2. CASE Install(m)
    BY <2>2 DEF Install, Flip, ZonesInv, ZonesTypes
  <2>3. ASSUME NEW kind \in kinds, Place(m, kind)
        PROVE  <1>1
    <3>1. <<m, kind>> \in Customs \X DirectoryKinds
      OBVIOUS
    <3>2. files' = Flip(files, <<m, kind>>) /\ installed' = installed
      BY <2>3 DEF Place
    <3> QED
      BY <3>1, <3>2 DEF Flip, ZonesInv, ZonesTypes
  <2> QED
    BY <2>1, <2>2, <2>3
<1>2. UNCHANGED <<activeVars, map, stage, waits, opened>>
  BY DEF ChangeUsermaps
<1>3. PackOfActive'
  BY <1>2, KeptKeepsPack
<1> QED
  BY <1>1, <1>2, <1>3 DEF ZonesInv, ZonesTypes, ActiveIsPlayed, activeVars

LEMMA RelaunchActs ==
  ASSUME ZonesInv, Relaunch
  PROVE  ZonesInv' /\ OpensItsOwn
<1>1. /\ activeUsermap' = NoMap /\ usermapPackHandle' = NoMap /\ map' = NoMap
      /\ opened' = [h \in Handles |-> NoMap] /\ UNCHANGED <<installed, files>>
  BY DEF Relaunch
<1>2. ZonesTypes' /\ \A k \in Handles : opened'[k] \in {opened[k], NoMap}
  BY <1>1 DEF ZonesInv, ZonesTypes
<1>3. PackOfActive'
  BY <1>1 DEF PackOfActive, ReadsItself
<1> QED
  BY <1>1, <1>2, <1>3, OpensNothing DEF ZonesInv, ActiveIsPlayed

LEMMA StutterZones ==
  ASSUME ZonesInv, UNCHANGED zoneVars
  PROVE  ZonesInv' /\ OpensItsOwn /\ MapWaitsForItself
<1>1. UNCHANGED <<installed, files, activeVars, map, stage, waits, opened>>
  BY DEF zoneVars
<1>2. OpensItsOwn
  BY <1>1, OpensNothing
<1>3. MapWaitsForItself
  BY <1>1 DEF MapWaitsForItself
<1>4. PackOfActive'
  BY <1>1, KeptKeepsPack
<1> QED
  BY <1>1, <1>2, <1>3, <1>4 DEF ZonesInv, ZonesTypes, ActiveIsPlayed, activeVars

(* Only LoadMap goes from the load screen to the map.                      *)
LEMMA LoadMapPlays ==
  /\ \A m \in AnyMap : LoadScreen(m) => MapWaitsForItself
  /\ LoadCommon => MapWaitsForItself
  /\ UNCHANGED stage => MapWaitsForItself
  /\ Relaunch => MapWaitsForItself
BY DEF LoadScreen, LoadCommon, Relaunch, MapWaitsForItself

LEMMA ZonesStep ==
  ASSUME ZonesInv, [FilesNext \/ ZonesNext]_zoneVars
  PROVE  ZonesInv' /\ OpensItsOwn /\ MapWaitsForItself
<1>1. ASSUME NEW m \in AnyMap, LoadScreen(m)
      PROVE  ZonesInv' /\ OpensItsOwn /\ MapWaitsForItself
  <2>1. opened' = opened
    BY <1>1 DEF LoadScreen
  <2> QED
    BY <1>1, <2>1, LoadScreenActs, OpensNothing, LoadMapPlays
<1>2. CASE LoadMap
  <2>1. opened' = opened
    BY <1>2 DEF LoadMap
  <2> QED
    BY <1>2, <2>1, LoadMapActs, OpensNothing
<1>3. CASE LoadCommon
  <2>1. opened' = opened
    BY <1>3 DEF LoadCommon
  <2> QED
    BY <1>3, <2>1, LoadCommonActs, OpensNothing, LoadMapPlays
<1>4. CASE Sys_CreateFile
  <2>1. UNCHANGED <<installed, files, activeUsermap, map, stage, waits>>
    BY <1>4 DEF Sys_CreateFile
  <2>2. PICK h \in Handles : OpenLoose(h) \/ \E m \in AnyMap : OpenPack(h, m)
    BY <1>4 DEF Sys_CreateFile
  <2>3. ZonesInv' /\ OpensItsOwn
    BY <2>1, <2>2, OpenLooseActs, OpenPackActs
  <2> QED
    BY <2>1, <2>3, LoadMapPlays
<1>5. ASSUME NEW h \in Handles, OpenZone(h)
      PROVE  ZonesInv' /\ OpensItsOwn /\ MapWaitsForItself
  <2>1. UNCHANGED stage
    BY <1>5 DEF OpenZone
  <2> QED
    BY <1>5, <2>1, OpenZoneActs, LoadMapPlays
<1>6. CASE CloseFile
  <2>1. UNCHANGED stage
    BY <1>6 DEF CloseFile
  <2> QED
    BY <1>6, <2>1, CloseFileActs, LoadMapPlays
<1>7. ASSUME NEW kinds \in SUBSET DirectoryKinds, ChangeUsermaps(kinds)
      PROVE  ZonesInv' /\ OpensItsOwn /\ MapWaitsForItself
  <2>1. UNCHANGED stage /\ opened' = opened
    BY <1>7 DEF ChangeUsermaps
  <2> QED
    BY <1>7, <2>1, ChangeUsermapsActs, OpensNothing, LoadMapPlays
<1>8. CASE Relaunch
  BY <1>8, RelaunchActs, LoadMapPlays
<1>9. CASE UNCHANGED zoneVars
  BY <1>9, StutterZones
<1>10. {"loose", "pak"} \in SUBSET DirectoryKinds /\ {"_load", "_patch"} \in SUBSET DirectoryKinds
  BY DEF DirectoryKinds
<1> QED
  BY <1>1, <1>2, <1>3, <1>4, <1>5, <1>6, <1>7, <1>8, <1>9, <1>10 DEF FilesNext, ZonesNext, Load

(* From its load screen to the next a map opens its own files or the       *)
(* game's, its pack is known only while it is active, and it is waited for *)
(* if it is in one piece (fastfiles.cpp:252, :285, :408).                  *)
THEOREM OwnFilesAreOpened == ZonesSpec => OpensOwnFiles
<1>1. ZonesInv /\ [FilesNext \/ ZonesNext]_zoneVars => ZonesInv'
  BY ZonesStep
<1>2. ZonesInv /\ [FilesNext \/ ZonesNext]_zoneVars =>
        [OpensItsOwn /\ MapWaitsForItself /\ PackOfActive']_zoneVars
  BY ZonesStep DEF ZonesInv
<1> QED
  BY <1>1, <1>2, ZonesInitially, PTL DEF ZonesSpec, OpensOwnFiles

-----------------------------------------------------------------------------
(* The asset pools *)

PoolsInv ==
  /\ loaded \in BOOLEAN /\ initialized \in BOOLEAN
  /\ expandedXAssetPools \subseteq {[type |-> k, original |-> StockPools[k]] : k \in Kinds}
  /\ pools = [k \in Kinds |-> IF \E e \in expandedXAssetPools : e.type = k THEN Expanded ELSE StockPools[k]]
  /\ ~loaded => expandedXAssetPools = {}
  /\ initialized => built = pools

(* Where an expanded kind is found among those kept, and only there.       *)
LEMMA KeptKinds ==
  ASSUME NEW kinds \in SUBSET Kinds
  PROVE  LET S == {[type |-> k, original |-> StockPools[k]] : k \in kinds} IN
         /\ \A k \in Kinds : (\E e \in S : e.type = k) <=> k \in kinds
         /\ \A e \in S : e.type \in kinds /\ e.original = StockPools[e.type]
<1> DEFINE Kept(k) == [type |-> k, original |-> StockPools[k]]
<1>1. \A k \in Kinds : Kept(k).type = k /\ Kept(k).original = StockPools[k]
  OBVIOUS
<1> HIDE DEF Kept
<1> DEFINE S == {Kept(k) : k \in kinds}
<1>2. \A e \in S : \E k \in kinds : e = Kept(k)
  OBVIOUS
<1>3. \A k \in kinds : Kept(k) \in S
  OBVIOUS
<1> HIDE DEF S
<1>4. \A k \in Kinds : (\E e \in S : e.type = k) <=> k \in kinds
  BY <1>1, <1>2, <1>3
<1>5. \A e \in S : e.type \in kinds /\ e.original = StockPools[e.type]
  BY <1>1, <1>2
<1> QED
  BY <1>4, <1>5 DEF S, Kept

LEMMA PoolsAreFit == PoolsInv => PoolsFit
<1> SUFFICES ASSUME PoolsInv PROVE PoolsFit
  OBVIOUS
<1>1. \A k \in Kinds : pools[k] \in {Expanded, StockPools[k]}
  BY DEF PoolsInv
<1>2. \A k \in Kinds : StockPools[k] = [memory |-> "game", size |-> "stock"]
  BY DEF StockPools
<1>3. /\ Expanded.size = "expanded" /\ Expanded.memory = "plugin"
      /\ [memory |-> "game", size |-> "stock"].size = "stock"
      /\ [memory |-> "game", size |-> "stock"].memory = "game"
  BY DEF Expanded
<1>4. \A k \in Kinds : pools[k].size = "expanded" <=> pools[k].memory = "plugin"
  BY <1>1, <1>2, <1>3
<1>5. ~loaded => pools = StockPools
  <2>1. ~loaded => pools = [k \in Kinds |-> StockPools[k]]
    BY DEF PoolsInv
  <2>2. StockPools = [k \in Kinds |-> StockPools[k]]
    BY DEF StockPools
  <2> QED
    BY <2>1, <2>2
<1> QED
  BY <1>4, <1>5 DEF PoolsInv, PoolsFit

LEMMA PoolsInitially == PoolsInit => PoolsInv
<1> SUFFICES ASSUME PoolsInit PROVE PoolsInv
  OBVIOUS
<1>1. StockPools = [k \in Kinds |-> StockPools[k]]
  BY DEF StockPools
<1>2. pools = [k \in Kinds |-> IF \E e \in expandedXAssetPools : e.type = k THEN Expanded ELSE StockPools[k]]
  BY <1>1 DEF PoolsInit
<1> QED
  BY <1>2 DEF PoolsInit, PoolsInv

LEMMA ExpandActs ==
  ASSUME PoolsInv, NEW kinds \in SUBSET Kinds, Expand(kinds), initialized => kinds = {}
  PROVE  PoolsInv'
<1>1. pools = StockPools
  BY PoolsAreFit DEF PoolsFit, Expand
<1> DEFINE S == {[type |-> k, original |-> StockPools[k]] : k \in kinds}
<1>2. expandedXAssetPools' = S
  BY <1>1 DEF Expand
<1>3. pools' = [k \in Kinds |-> IF k \in kinds THEN Expanded ELSE StockPools[k]]
  BY <1>1 DEF Expand
<1>4. \A k \in Kinds : (\E e \in S : e.type = k) <=> k \in kinds
  BY KeptKinds
<1>5. S \subseteq {[type |-> k, original |-> StockPools[k]] : k \in Kinds}
  OBVIOUS
<1> HIDE DEF S
<1>6. pools' = [k \in Kinds |-> IF \E e \in expandedXAssetPools' : e.type = k THEN Expanded ELSE StockPools[k]]
  BY <1>2, <1>3, <1>4
<1>7. initialized => pools' = pools
  BY <1>1, <1>3 DEF StockPools
<1>8. loaded' = TRUE /\ UNCHANGED <<initialized, built>>
  BY DEF Expand
<1> QED
  BY <1>2, <1>5, <1>6, <1>7, <1>8 DEF PoolsInv

LEMMA SetUpPoolsActs ==
  ASSUME PoolsInv, SetUpPools
  PROVE  PoolsInv'
BY DEF PoolsInv, SetUpPools

LEMMA RestorePoolsActs ==
  ASSUME PoolsInv, RestorePools
  PROVE  PoolsInv'
<1>1. ASSUME NEW k \in Kinds
      PROVE  pools'[k] = StockPools[k]
  <2> DEFINE of == {e \in expandedXAssetPools : e.type = k}
  <2>1. pools'[k] = IF of # {} THEN (CHOOSE e \in of : TRUE).original ELSE pools[k]
    BY DEF RestorePools
  <2>2. \A e \in of : e.original = StockPools[k]
    <3>1. \A e \in expandedXAssetPools : e.original = StockPools[e.type]
      BY KeptKinds DEF PoolsInv
    <3> QED
      BY <3>1
  <2>3. CASE of # {}
    <3>1. (CHOOSE e \in of : TRUE) \in of
      BY <2>3
    <3> QED
      BY <2>1, <2>2, <2>3, <3>1
  <2>4. CASE of = {}
    BY <2>1, <2>4 DEF PoolsInv
  <2> QED
    BY <2>3, <2>4
<1>2. pools' = StockPools
  <2>1. pools' = [k \in Kinds |-> pools'[k]]
    BY DEF RestorePools
  <2> QED
    BY <1>1, <2>1 DEF StockPools
<1>3. StockPools = [k \in Kinds |-> StockPools[k]]
  BY DEF StockPools
<1>4. expandedXAssetPools' = {} /\ loaded' = FALSE /\ initialized' = FALSE
  BY DEF RestorePools
<1>5. pools' = [k \in Kinds |-> IF \E e \in expandedXAssetPools' : e.type = k THEN Expanded ELSE StockPools[k]]
  BY <1>2, <1>3, <1>4
<1> QED
  BY <1>4, <1>5 DEF PoolsInv

(* The game's pools are as large as it takes them to be, were set up as    *)
(* they are, and are its own when the plugin is gone (fastfiles.cpp:423,   *)
(* :458).                                                                  *)
THEOREM PoolsAlwaysFit == PoolsSpec => []PoolsFit
<1>1. PoolsInv /\ [PoolsNext]_poolVars => PoolsInv'
  <2> SUFFICES ASSUME PoolsInv, [PoolsNext]_poolVars
               PROVE  PoolsInv'
    OBVIOUS
  <2>1. CASE ExpandPools
    <3>1. PICK got \in SUBSET Kinds : Expand(IF initialized THEN {} ELSE got)
      BY <2>1 DEF ExpandPools
    <3> QED
      BY <3>1, ExpandActs
  <2>2. CASE UNCHANGED poolVars
    BY <2>2 DEF poolVars, PoolsInv
  <2> QED
    BY <2>1, <2>2, SetUpPoolsActs, RestorePoolsActs DEF PoolsNext
<1> QED
  BY <1>1, PoolsInitially, PoolsAreFit, PTL DEF PoolsSpec

(* A custom map is played with its own files, and in pools that fit.       *)
THEOREM MapsOpenTheirOwn == ZonesSpec /\ PoolsSpec => FilesOfTheMap
BY OwnFilesAreOpened, PoolsAlwaysFit, PTL DEF FilesOfTheMap

-----------------------------------------------------------------------------
(* What a map is called (MetadataSpec), for files of any length.           *)

(* The last of a set of places is the one that none is after.              *)
LEMMA LastIsLast ==
  ASSUME NEW S \in SUBSET Int, NEW n \in S, \A l \in S : l <= n
  PROVE  LastOf(S) = n
<1>1. LastOf(S) \in S /\ \A l \in S : l <= LastOf(S)
  BY DEF LastOf
<1> DEFINE last == LastOf(S)
<1> HIDE DEF last
<1>2. last \in Int /\ n \in Int /\ last <= n /\ n <= last
  BY <1>1 DEF last
<1>3. last = n
  BY <1>2
<1> QED
  BY <1>3 DEF last

LEMMA HasLast ==
  ASSUME NEW n \in Nat, NEW S \in SUBSET (0..n), S # {}
  PROVE  \E m \in S : \A l \in S : l <= m
<1> DEFINE D == {d \in Nat : n - d \in S}
<1>1. PICK k \in S : TRUE
  OBVIOUS
<1>2. n - k \in Nat /\ n - (n - k) = k
  OBVIOUS
<1>3. n - k \in D
  BY <1>2
<1>4. D \subseteq Nat
  OBVIOUS
<1> HIDE DEF D
<1>5. \E d \in D : \A y \in D : ~ (<<y, d>> \in OpToRel(<, Nat))
  BY <1>3, <1>4, NatLessThanWellFounded, WFMin, Zenon
<1>6. PICK d \in D : \A y \in D : ~ (<<y, d>> \in OpToRel(<, Nat))
  BY <1>5
<1>7. ASSUME NEW y \in D PROVE d <= y
  <2>1. d \in Nat /\ y \in Nat
    BY <1>4
  <2>2. ~ (<<y, d>> \in OpToRel(<, Nat))
    BY <1>6
  <2>3. ~ (y < d)
    BY <2>1, <2>2, Zenon DEF OpToRel
  <2> QED
    BY <2>1, <2>3
<1>8. n - d \in S
  BY DEF D
<1>9. ASSUME NEW l \in S
      PROVE  l <= n - d
  <2>1. n - l \in D
    <3>1. n - l \in Nat /\ n - (n - l) = l
      OBVIOUS
    <3> QED
      BY <3>1 DEF D
  <2>2. d <= n - l /\ d \in Nat /\ l \in Nat
    BY <1>4, <1>7, <2>1
  <2> QED
    BY <2>2
<1> QED
  BY <1>8, <1>9

(* The json file *)

LEMMA NoTextIsNoWord ==
  NoText \notin {"version", "name", "object", "array", "end", "0", "1", "2", "x", "y"}
BY Zenon DEF NoText

JsonTokens ==
  [field : {NoText, "version", "name"}, value : Values \cup {"end"}, inside : Seq({"object", "array"})]

(* The value v is that of the last of the places S, or none is.            *)
LastSays(S, s, v) ==
  \/ S = {} /\ v = NoText
  \/ \E n \in S : (\A l \in S : l <= n) /\ v = s[n].value

JsonInv ==
  /\ json \in Seq(JsonTokens)
  /\ containers \in Seq({"object", "array"})
  /\ jsonParse \in [depth : Int, version : Numbers \cup {"0"}, displayName : Strings \cup {NoText}]
  /\ jsonParse.depth = Len(containers)
  /\ LastSays(FieldsAt(json, "version", Numbers), json, IF jsonParse.version = "0" THEN NoText
                                                        ELSE jsonParse.version)
  /\ LastSays(FieldsAt(json, "name", Strings), json, jsonParse.displayName)

LEMMA LastFieldSays ==
  ASSUME NEW s \in Seq(JsonTokens), NEW field, NEW kinds, NEW v,
         LastSays(FieldsAt(s, field, kinds), s, v)
  PROVE  LastField(s, field, kinds) = v
<1> DEFINE S == FieldsAt(s, field, kinds)
<1>1. S \in SUBSET Int
  BY DEF FieldsAt
<1>2. LastField(s, field, kinds) = IF S = {} THEN NoText ELSE s[LastOf(S)].value
  BY DEF LastField
<1> HIDE DEF S
<1>3. CASE S = {} /\ v = NoText
  BY <1>2, <1>3
<1>4. CASE \E n \in S : (\A l \in S : l <= n) /\ v = s[n].value
  <2>1. PICK n \in S : (\A l \in S : l <= n) /\ v = s[n].value
    BY <1>4
  <2>2. LastOf(S) = n
    BY <1>1, <2>1, LastIsLast
  <2> QED
    BY <1>2, <2>1, <2>2
<1> QED
  BY <1>3, <1>4 DEF LastSays, S

LEMMA JsonSaysName == JsonInv => JsonName(jsonParse) = JsonMeaning(json, containers)
<1> SUFFICES ASSUME JsonInv PROVE JsonName(jsonParse) = JsonMeaning(json, containers)
  OBVIOUS
<1>1. LastField(json, "name", Strings) = jsonParse.displayName
  BY LastFieldSays DEF JsonInv
<1>2. LastField(json, "version", Numbers) = IF jsonParse.version = "0" THEN NoText ELSE jsonParse.version
  BY LastFieldSays DEF JsonInv
<1>3. LastField(json, "version", Numbers) = "1" <=> jsonParse.version = "1"
  BY <1>2, NoTextIsNoWord
<1> QED
  BY <1>1, <1>3 DEF JsonName, JsonMeaning

(* One token more is the last that says something, if it says something.   *)
LEMMA AppendedSays ==
  ASSUME NEW s \in Seq(JsonTokens), NEW t \in JsonTokens, NEW field, NEW kinds, NEW v,
         LastSays(FieldsAt(s, field, kinds), s, v)
  PROVE  LET r == Append(s, t)
             says == t.inside = <<"object">> /\ t.field = field /\ t.value \in kinds
         IN LastSays(FieldsAt(r, field, kinds), r, IF says THEN t.value ELSE v)
<1> DEFINE r == Append(s, t)
           n == Len(s)
           says == t.inside = <<"object">> /\ t.field = field /\ t.value \in kinds
           S == FieldsAt(s, field, kinds)
           R == FieldsAt(r, field, kinds)
<1>1. /\ n \in Nat /\ DOMAIN s = 1..n /\ DOMAIN r = 1..n + 1
      /\ r[n + 1] = t /\ \A k \in 1..n : r[k] = s[k]
  OBVIOUS
<1>2. R = S \cup (IF says THEN {n + 1} ELSE {}) /\ S \subseteq 1..n
  BY <1>1 DEF FieldsAt
<1> HIDE DEF r, n, says, S, R
<1>3. LastSays(S, s, v)
  BY DEF S
<1>4. CASE says
  <2>1. R = S \cup {n + 1}
    BY <1>2, <1>4
  <2>2. n + 1 \in R /\ \A l \in R : l <= n + 1
    BY <1>1, <1>2, <2>1
  <2> QED
    BY <1>1, <1>4, <2>2 DEF LastSays, r, R, says
<1>5. CASE ~ says
  <2>1. R = S /\ \A k \in S : r[k] = s[k]
    BY <1>1, <1>2, <1>5
  <2>2. LastSays(R, r, v)
    BY <1>3, <2>1 DEF LastSays
  <2> QED
    BY <1>5, <2>2 DEF r, R, says
<1> QED
  BY <1>4, <1>5

(* ReadToken takes what a field of the outer object says, and counts the   *)
(* containers it is in.                                                    *)
LEMMA ReadTokenReads ==
  ASSUME NEW p \in [depth : Int, version : Numbers \cup {"0"}, displayName : Strings \cup {NoText}],
         NEW field \in {NoText, "version", "name"}, NEW value \in Values \cup {"end"},
         field # NoText => value \in Values, field = NoText => value \notin Numbers \cup Strings
  PROVE  LET q == ReadToken(p, [field |-> field, value |-> value]) IN
         /\ q \in [depth : Int, version : Numbers \cup {"0"}, displayName : Strings \cup {NoText}]
         /\ q.depth = IF value \in {"object", "array"} THEN p.depth + 1
                      ELSE IF value = "end" THEN p.depth - 1 ELSE p.depth
         /\ q.version = IF p.depth = 1 /\ field = "version" /\ value \in Numbers THEN value ELSE p.version
         /\ q.displayName = IF p.depth = 1 /\ field = "name" /\ value \in Strings THEN value ELSE p.displayName
<1> DEFINE t == [field |-> field, value |-> value]
           Parses == [depth : Int, version : Numbers \cup {"0"}, displayName : Strings \cup {NoText}]
<1>1. t.field = field /\ t.value = value
  OBVIOUS
<1>2. /\ p.depth \in Int
      /\ \A d \in Int : [p EXCEPT !.depth = d] \in Parses /\ [p EXCEPT !.depth = d].depth = d
           /\ [p EXCEPT !.depth = d].version = p.version /\ [p EXCEPT !.depth = d].displayName = p.displayName
      /\ \A v \in Numbers : [p EXCEPT !.version = v] \in Parses /\ [p EXCEPT !.version = v].depth = p.depth
           /\ [p EXCEPT !.version = v].version = v /\ [p EXCEPT !.version = v].displayName = p.displayName
      /\ \A v \in Strings : [p EXCEPT !.displayName = v] \in Parses
                           /\ [p EXCEPT !.displayName = v].depth = p.depth
           /\ [p EXCEPT !.displayName = v].version = p.version /\ [p EXCEPT !.displayName = v].displayName = v
  OBVIOUS
<1> DEFINE down == [p EXCEPT !.depth = p.depth + 1]
           up == [p EXCEPT !.depth = p.depth - 1]
           named == [p EXCEPT !.displayName = value]
           versioned == [p EXCEPT !.version = value]
<1>3. ReadToken(p, t) =
        IF field = NoText /\ value \in {"object", "array"} THEN down
        ELSE IF field = NoText /\ value = "end" THEN up ELSE ReadField(p, t)
  BY <1>1 DEF ReadToken
<1>4. ReadField(p, t) =
        IF value \in {"object", "array"} THEN down
        ELSE IF p.depth # 1 THEN p
        ELSE IF field = "version" /\ value \in Numbers THEN versioned
        ELSE IF field = "name" /\ value \in Strings THEN named ELSE p
  <2>1. CASE value \in {"object", "array"}
    BY <1>1, <2>1 DEF ReadField, Numbers, Strings
  <2>2. CASE value \notin {"object", "array"} /\ p.depth # 1
    BY <1>1, <2>2 DEF ReadField
  <2>3. CASE value \notin {"object", "array"} /\ p.depth = 1 /\ field = "version" /\ value \in Numbers
    BY <1>1, <2>3 DEF ReadField
  <2>4. CASE value \notin {"object", "array"} /\ p.depth = 1 /\ field = "name" /\ value \in Strings
    BY <1>1, <2>4 DEF ReadField
  <2>5. CASE /\ value \notin {"object", "array"} /\ p.depth = 1
             /\ ~ (field = "version" /\ value \in Numbers) /\ ~ (field = "name" /\ value \in Strings)
    BY <1>1, <2>5 DEF ReadField
  <2>6. value \in {"object", "array"} \/ (value \notin {"object", "array"} /\ p.depth # 1)
        \/ (value \notin {"object", "array"} /\ p.depth = 1)
    OBVIOUS
  <2> HIDE DEF down, versioned, named, t
  <2> QED
    BY <2>1, <2>2, <2>3, <2>4, <2>5, <2>6, Zenon
<1>5. /\ down \in Parses /\ down.depth = p.depth + 1 /\ down.version = p.version
      /\ down.displayName = p.displayName
      /\ up \in Parses /\ up.depth = p.depth - 1 /\ up.version = p.version /\ up.displayName = p.displayName
  <2> DEFINE more == p.depth + 1
             less == p.depth - 1
  <2>1. more \in Int /\ less \in Int
    <3>1. p.depth \in Int
      OBVIOUS
    <3> QED
      BY <3>1
  <2>2. down = [p EXCEPT !.depth = more] /\ up = [p EXCEPT !.depth = less]
    OBVIOUS
  <2> HIDE DEF more, less, down, up
  <2>3. /\ down \in Parses /\ down.depth = more /\ down.version = p.version /\ down.displayName = p.displayName
        /\ up \in Parses /\ up.depth = less /\ up.version = p.version /\ up.displayName = p.displayName
    BY <1>2, <2>1, <2>2
  <2> QED
    BY <2>3 DEF more, less
<1>6. value \in Numbers => versioned \in Parses /\ versioned.depth = p.depth /\ versioned.version = value
                           /\ versioned.displayName = p.displayName
  BY <1>2
<1>7. value \in Strings => named \in Parses /\ named.depth = p.depth /\ named.version = p.version
                           /\ named.displayName = value
  BY <1>2
<1>8. p \in Parses
  OBVIOUS
<1> HIDE DEF t, down, up, named, versioned, Parses
<1>9. CASE value \in {"object", "array"}
  <2>1. ReadToken(p, t) = down
    BY <1>3, <1>4, <1>9
  <2> QED
    BY <1>5, <1>9, <2>1 DEF Numbers, Strings, t, Parses
<1>10. CASE value = "end"
  <2>1. field = NoText
    BY <1>10 DEF Values
  <2>2. ReadToken(p, t) = up
    BY <1>3, <1>10, <2>1
  <2> QED
    BY <1>5, <1>10, <2>1, <2>2 DEF t, Parses
<1>11. CASE value \in Numbers \cup Strings
  <2>1. field # NoText /\ value \notin {"object", "array", "end"}
    BY <1>11 DEF Numbers, Strings
  <2>2. ReadToken(p, t) =
          IF p.depth # 1 THEN p
          ELSE IF field = "version" /\ value \in Numbers THEN versioned
          ELSE IF field = "name" /\ value \in Strings THEN named ELSE p
    BY <1>3, <1>4, <2>1
  <2> QED
    BY <1>6, <1>7, <1>8, <2>1, <2>2 DEF t, Parses
<1>12. value \in {"object", "array", "end"} \cup Numbers \cup Strings
  BY DEF Values, Numbers, Strings
<1> QED
  BY <1>9, <1>10, <1>11, <1>12

(* A token goes into the file and the parse; the containers follow.        *)
LEMMA JsonTokenActs ==
  ASSUME JsonInv, NEW field \in {NoText, "version", "name"}, NEW value \in Values \cup {"end"},
         field # NoText => value \in Values /\ Len(containers) > 0 /\ Head(containers) = "object",
         field = NoText => value \notin Numbers \cup Strings,
         JsonToken(field, value), containers' \in Seq({"object", "array"}),
         Len(containers') = IF value \in {"object", "array"} THEN Len(containers) + 1
                            ELSE IF value = "end" THEN Len(containers) - 1 ELSE Len(containers)
  PROVE  JsonInv'
<1> DEFINE t == [field |-> field, value |-> value, inside |-> containers]
           p == jsonParse
           q == ReadToken(p, [field |-> field, value |-> value])
<1>1. t \in JsonTokens /\ t.field = field /\ t.value = value /\ t.inside = containers
  BY DEF JsonInv, JsonTokens
<1>2. json' = Append(json, t) /\ jsonParse' = q
  BY DEF JsonToken
<1>3. json \in Seq(JsonTokens) /\ p.depth = Len(containers) /\ containers \in Seq({"object", "array"})
      /\ p \in [depth : Int, version : Numbers \cup {"0"}, displayName : Strings \cup {NoText}]
  BY DEF JsonInv
<1> HIDE DEF t
<1>4. json' \in Seq(JsonTokens)
  BY <1>1, <1>2, <1>3
<1> HIDE DEF p
<1>5. /\ q \in [depth : Int, version : Numbers \cup {"0"}, displayName : Strings \cup {NoText}]
      /\ q.depth = IF value \in {"object", "array"} THEN p.depth + 1
                   ELSE IF value = "end" THEN p.depth - 1 ELSE p.depth
      /\ q.version = IF p.depth = 1 /\ field = "version" /\ value \in Numbers THEN value ELSE p.version
      /\ q.displayName = IF p.depth = 1 /\ field = "name" /\ value \in Strings THEN value ELSE p.displayName
  <2>1. field # NoText => value \in Values
    OBVIOUS
  <2> QED
    BY <1>3, <2>1, ReadTokenReads, SMTT(60) DEF q
<1>6. field # NoText => (p.depth = 1 <=> t.inside = <<"object">>)
  <2>1. field # NoText => Len(containers) > 0 /\ Head(containers) = "object"
    OBVIOUS
  <2>2. Len(containers) = 1 /\ Head(containers) = "object" => containers = <<"object">>
    <3>1. Len(containers) = 1 => containers = <<containers[1]>> /\ Head(containers) = containers[1]
      BY <1>3
    <3> QED
      BY <3>1
  <2>3. Len(<<"object">>) = 1
    OBVIOUS
  <2> QED
    BY <1>1, <1>3, <2>1, <2>2, <2>3
<1> HIDE DEF q
<1>7. LET old == IF p.version = "0" THEN NoText ELSE p.version
          says == t.inside = <<"object">> /\ t.field = "version" /\ t.value \in Numbers
      IN LastSays(FieldsAt(json', "version", Numbers), json', IF says THEN t.value ELSE old)
  BY <1>1, <1>2, <1>3, AppendedSays DEF JsonInv, p
<1>8. LET says == t.inside = <<"object">> /\ t.field = "name" /\ t.value \in Strings
      IN LastSays(FieldsAt(json', "name", Strings), json', IF says THEN t.value ELSE p.displayName)
  BY <1>1, <1>2, <1>3, AppendedSays DEF JsonInv, p
<1>9. LastSays(FieldsAt(json', "version", Numbers), json', IF q.version = "0" THEN NoText ELSE q.version)
  BY <1>1, <1>5, <1>6, <1>7 DEF Numbers
<1>10. LastSays(FieldsAt(json', "name", Strings), json', q.displayName)
  BY <1>1, <1>5, <1>6, <1>8
<1> QED
  BY <1>2, <1>3, <1>4, <1>5, <1>9, <1>10 DEF JsonInv

LEMMA ReadJsonActs ==
  ASSUME JsonInv, ReadJson
  PROVE  JsonInv'
<1>1. containers \in Seq({"object", "array"})
  BY DEF JsonInv
<1>2. \A c \in {"object", "array"} : <<c>> \o containers \in Seq({"object", "array"})
                                     /\ Len(<<c>> \o containers) = Len(containers) + 1
  BY <1>1
<1>3. containers # <<>> => Len(containers) > 0 /\ Tail(containers) \in Seq({"object", "array"})
                           /\ Len(Tail(containers)) = Len(containers) - 1
  BY <1>1
<1>4. ASSUME NEW c \in {"object", "array"}, JsonToken(NoText, c), containers' = <<c>> \o containers
      PROVE  JsonInv'
  BY <1>2, <1>4, JsonTokenActs DEF Values, Numbers, Strings
<1>5. ASSUME NEW field \in {"version", "name"}, NEW v \in Values, JsonToken(field, v),
             containers # <<>>, Head(containers) = "object",
             containers' = IF v \in {"object", "array"} THEN <<v>> \o containers ELSE containers
      PROVE  JsonInv'
  <2>1. v # "end"
    BY DEF Values
  <2>2. /\ containers' \in Seq({"object", "array"})
        /\ Len(containers') = IF v \in {"object", "array"} THEN Len(containers) + 1
                            ELSE IF v = "end" THEN Len(containers) - 1 ELSE Len(containers)
    BY <1>1, <1>2, <1>5, <2>1
  <2> QED
    BY <1>3, <1>5, <2>2, NoTextIsNoWord, JsonTokenActs
<1>6. ASSUME containers # <<>>, JsonToken(NoText, "end"), containers' = Tail(containers)
      PROVE  JsonInv'
  <2>1. containers' \in Seq({"object", "array"}) /\ Len(containers') = Len(containers) - 1
    BY <1>3, <1>6
  <2>2. "end" \notin Numbers \cup Strings /\ "end" \notin {"object", "array"}
    BY DEF Numbers, Strings
  <2> QED
    BY <1>6, <2>1, <2>2, JsonTokenActs
<1> QED
  BY <1>4, <1>5, <1>6 DEF ReadJson

LEMMA JsonStarts ==
  ASSUME json = <<>>, containers = <<>>, jsonParse = JsonStart
  PROVE  JsonInv
<1>1. \A f, kinds : FieldsAt(json, f, kinds) = {}
  BY DEF FieldsAt
<1>2. Len(<<>>) = 0
  OBVIOUS
<1>3. JsonStart.depth = 0 /\ JsonStart.version = "0" /\ JsonStart.displayName = NoText
  BY DEF JsonStart
<1>5. JsonStart \in [depth : Int, version : Numbers \cup {"0"}, displayName : Strings \cup {NoText}]
  BY DEF JsonStart
<1>4. json \in Seq(JsonTokens) /\ containers \in Seq({"object", "array"})
  OBVIOUS
<1> QED
  BY <1>1, <1>2, <1>3, <1>4, <1>5 DEF JsonInv, LastSays

-----------------------------------------------------------------------------
(* The arena file *)

Parses ==
  [ok : BOOLEAN, entry : BOOLEAN, key : Words \cup {NoKey}, map : Words \cup {NoText},
   longname : Words \cup {NoText}, found : BOOLEAN, selectedName : Words \cup {NoText}]

LEMMA TokensApart ==
  /\ OpenBrace # CloseBrace /\ OpenBrace # Unfinished /\ CloseBrace # Unfinished
  /\ CloseBrace.text # NoText
  /\ \A t \in WordTokens : t \notin {OpenBrace, CloseBrace, Unfinished} /\ t.text \in Words /\ t.text # NoKey
  /\ {OpenBrace, CloseBrace, Unfinished} \cup WordTokens = Tokens
<1>1. OpenBrace.text = "brace" /\ CloseBrace.text = "closing" /\ Unfinished.text = "unfinished"
  BY DEF OpenBrace, CloseBrace, Unfinished
<1>2. OpenBrace.quoted = FALSE /\ CloseBrace.quoted = FALSE /\ Unfinished.quoted = FALSE
  BY DEF OpenBrace, CloseBrace, Unfinished
<1>3. \A t \in WordTokens : t.quoted = TRUE /\ t.text \in Words
  BY DEF WordTokens
<1>4. NoKey \notin Words
  BY UsermapMenuAssumption DEF NoKey
<1>5. OpenBrace # CloseBrace /\ OpenBrace # Unfinished /\ CloseBrace # Unfinished
  BY <1>1
<1>6. \A t \in WordTokens : t \notin {OpenBrace, CloseBrace, Unfinished} /\ t.text # NoKey
  BY <1>2, <1>3, <1>4
<1>7. {OpenBrace, CloseBrace, Unfinished} \cup WordTokens = Tokens
  BY DEF Tokens
<1>8. "closing" # NoText
  BY Zenon DEF NoText
<1> QED
  BY <1>1, <1>3, <1>5, <1>6, <1>7, <1>8

(* The pair at n of the entry that begins at b.                            *)
PairsOf(s, b, key) == {k \in b + 1..Len(s) - 1 : (k - b) % 2 = 1 /\ s[k].text = key}

(* The value v is that of the last pair with the key, or there is none.    *)
PairsSay(S, s, v) ==
  \/ S = {} /\ v = NoText
  \/ \E n \in S : (\A l \in S : l <= n) /\ v = s[n + 1].text

(* What lies before the place n belongs to entries.                        *)
InEntries(s, n) == \A k \in DOMAIN s : k < n => \E e \in EntriesOf(s) : k \in e[1]..e[2]

(* The entry that begins at b is still open: words follow, keys among them *)
(* named.                                                                  *)
OpenAt(s, b) ==
  /\ b \in DOMAIN s /\ s[b] = OpenBrace
  /\ \A k \in b + 1..Len(s) : s[k] \in WordTokens /\ ((k - b) % 2 = 1 => s[k].text # NoText)

Between(s, p) ==
  /\ p.key = NoKey
  /\ InEntries(s, Len(s) + 1)
  /\ s # <<>> => s[Len(s)] = CloseBrace

Within(s, p, b) ==
  /\ OpenAt(s, b) /\ InEntries(s, b)
  /\ p.key = NoKey <=> (Len(s) - b) % 2 = 0
  /\ p.key # NoKey => p.key = s[Len(s)].text
  /\ PairsSay(PairsOf(s, b, "map"), s, p.map)
  /\ PairsSay(PairsOf(s, b, "longname"), s, p.longname)

(* The first entry of the map was found, if there is one.                  *)
MineOf(s) == {e \in EntriesOf(s) : ValueOf(s, e, "map") = "folder"}
FirstFound(s, p) ==
  /\ p.found <=> MineOf(s) # {}
  /\ p.found => \E e \in MineOf(s) : /\ \A f \in MineOf(s) : e[1] <= f[1]
                                     /\ p.selectedName = ValueOf(s, e, "longname")

ArenaRead(s, p) ==
  /\ s \in Seq(Tokens) /\ p \in Parses
  /\ p.ok /\ ~p.entry => Between(s, p)
  /\ p.ok /\ p.entry => \E b \in DOMAIN s : Within(s, p, b)
  /\ p.ok => FirstFound(s, p)
  /\ ~p.ok => s # <<>> /\ \A e \in EntriesOf(s) : e[2] # Len(s)

(* Entries are what they are; no two begin at the same place.              *)
LEMMA EntriesAre ==
  ASSUME NEW s \in Seq(Tokens)
  PROVE  /\ \A e \in EntriesOf(s) :
               /\ e = <<e[1], e[2]>> /\ e[1] \in 1..Len(s) /\ e[2] \in 1..Len(s) /\ e[1] < e[2]
               /\ IsEntry(s, e[1], e[2])
         /\ \A i, j \in 1..Len(s) : i < j /\ IsEntry(s, i, j) => <<i, j>> \in EntriesOf(s)
<1>1. DOMAIN s = 1..Len(s)
  OBVIOUS
<1> QED
  BY <1>1 DEF EntriesOf

LEMMA EndsAreAlike ==
  ASSUME NEW s \in Seq(Tokens), NEW b \in Nat, NEW i \in Nat, NEW j \in Nat, b < i, i < j,
         IsEntry(s, b, j)
  PROVE  s[i] \in WordTokens /\ ~ IsEntry(s, b, i)
<1>1. i \in b + 1..j - 1
  OBVIOUS
<1>2. s[i] \in WordTokens
  BY <1>1 DEF IsEntry
<1> QED
  BY <1>2, TokensApart DEF IsEntry

LEMMA OneEntryAt ==
  ASSUME NEW s \in Seq(Tokens), NEW e \in EntriesOf(s), NEW f \in EntriesOf(s), e[1] = f[1]
  PROVE  e = f
<1>1. /\ e = <<e[1], e[2]>> /\ e[1] \in Nat /\ e[2] \in Nat /\ e[1] < e[2] /\ IsEntry(s, e[1], e[2])
      /\ f = <<f[1], f[2]>> /\ f[1] \in Nat /\ f[2] \in Nat /\ f[1] < f[2] /\ IsEntry(s, f[1], f[2])
  BY EntriesAre
<1> DEFINE i == e[2]
           j == f[2]
           b == e[1]
<1>2. i \in Nat /\ j \in Nat /\ b \in Nat /\ b < i /\ b < j /\ IsEntry(s, b, i) /\ IsEntry(s, b, j)
      /\ e = <<b, i>> /\ f = <<b, j>>
  BY <1>1
<1> HIDE DEF i, j, b
<1>3. ~ (i < j) /\ ~ (j < i)
  BY <1>2, EndsAreAlike
<1>4. i = j
  BY <1>2, <1>3
<1> QED
  BY <1>2, <1>4

(* What is read later does not change what an entry says.                  *)
LEMMA ValuesStay ==
  ASSUME NEW s \in Seq(Tokens), NEW t \in Tokens, NEW e \in EntriesOf(s), NEW key
  PROVE  ValueOf(Append(s, t), e, key) = ValueOf(s, e, key)
<1> DEFINE r == Append(s, t)
           b == e[1]
           c == e[2]
           keys == {k \in b + 1..c - 1 : (k - b) % 2 = 1 /\ s[k].text = key}
<1>1. b \in 1..Len(s) /\ c \in 1..Len(s)
  BY EntriesAre
<1>2. \A k \in 1..Len(s) : r[k] = s[k]
  OBVIOUS
<1> HIDE DEF r, b, c
<1>3. KeysOf(s, e, key) = keys
  BY DEF KeysOf, b, c
<1>4. KeysOf(r, e, key) = {k \in b + 1..c - 1 : (k - b) % 2 = 1 /\ r[k].text = key}
  BY DEF KeysOf, b, c
<1>5. b + 1..c - 1 \subseteq 1..Len(s)
  BY <1>1
<1>6. KeysOf(r, e, key) = keys
  BY <1>2, <1>4, <1>5
<1>7. CASE keys = {}
  BY <1>3, <1>6, <1>7 DEF ValueOf, r
<1>8. CASE keys # {}
  <2>1. Len(s) \in Nat /\ keys \subseteq 0..Len(s) /\ keys \subseteq Int
    BY <1>5
  <2>2. PICK m \in keys : \A l \in keys : l <= m
    BY <1>8, <2>1, HasLast
  <2>3. LastOf(keys) = m
    BY <2>1, <2>2, LastIsLast
  <2>4. m + 1 \in 1..Len(s)
    BY <1>1
  <2>5. r[m + 1] = s[m + 1]
    BY <1>2, <2>4
  <2>6. ValueOf(s, e, key) = s[m + 1].text /\ ValueOf(r, e, key) = r[m + 1].text
    BY <1>3, <1>6, <1>8, <2>3 DEF ValueOf
  <2> QED
    BY <2>5, <2>6 DEF r
<1> QED
  BY <1>7, <1>8

(* An entry, and what is in it, is there to stay.                          *)
LEMMA EntriesStay ==
  ASSUME NEW s \in Seq(Tokens), NEW t \in Tokens
  PROVE  /\ EntriesOf(s) \subseteq EntriesOf(Append(s, t))
         /\ \A e \in EntriesOf(Append(s, t)) : e \in EntriesOf(s) \/ e[2] = Len(s) + 1
<1> DEFINE r == Append(s, t)
<1>1. /\ r \in Seq(Tokens) /\ Len(r) = Len(s) + 1 /\ DOMAIN r = 1..Len(s) + 1 /\ DOMAIN s = 1..Len(s)
      /\ Len(s) \in Nat /\ r[Len(s) + 1] = t /\ \A k \in 1..Len(s) : r[k] = s[k]
  OBVIOUS
<1> HIDE DEF r
<1>2. ASSUME NEW i \in 1..Len(s), NEW j \in 1..Len(s), i < j
      PROVE  IsEntry(r, i, j) <=> IsEntry(s, i, j)
  <2>1. r[i] = s[i] /\ r[j] = s[j] /\ \A k \in i + 1..j - 1 : r[k] = s[k]
    BY <1>1
  <2> QED
    BY <2>1 DEF IsEntry
<1>3. ASSUME NEW e \in EntriesOf(s)
      PROVE  e \in EntriesOf(r)
  <2>1. e = <<e[1], e[2]>> /\ e[1] \in 1..Len(s) /\ e[2] \in 1..Len(s) /\ e[1] < e[2] /\ IsEntry(s, e[1], e[2])
    BY EntriesAre
  <2>2. e[1] \in 1..Len(r) /\ e[2] \in 1..Len(r) /\ IsEntry(r, e[1], e[2])
    BY <1>1, <1>2, <2>1
  <2>3. <<e[1], e[2]>> \in EntriesOf(r)
    BY <1>1, <2>1, <2>2, EntriesAre
  <2> QED
    BY <2>1, <2>3
<1>4. ASSUME NEW e \in EntriesOf(r), e[2] # Len(s) + 1
      PROVE  e \in EntriesOf(s)
  <2>1. e = <<e[1], e[2]>> /\ e[1] \in 1..Len(r) /\ e[2] \in 1..Len(r) /\ e[1] < e[2] /\ IsEntry(r, e[1], e[2])
    BY <1>1, EntriesAre
  <2>2. e[1] \in 1..Len(s) /\ e[2] \in 1..Len(s)
    BY <1>1, <1>4, <2>1
  <2>3. <<e[1], e[2]>> \in EntriesOf(s)
    BY <1>2, <2>1, <2>2, EntriesAre
  <2> QED
    BY <2>1, <2>3
<1> QED
  BY <1>3, <1>4 DEF r

(* A file whose last token ends no entry says nothing.                     *)
LEMMA LooseEndRefused ==
  ASSUME NEW s \in Seq(Tokens), s # <<>>, \A e \in EntriesOf(s) : e[2] # Len(s)
  PROVE  ArenaMeaning(s) = Refused
<1>1. Len(s) \in DOMAIN s
  OBVIOUS
<1>2. ASSUME NEW e \in EntriesOf(s)
      PROVE  Len(s) \notin e[1]..e[2]
  <2>1. e[1] \in 1..Len(s) /\ e[2] \in 1..Len(s) /\ e[2] # Len(s)
    BY EntriesAre
  <2> QED
    BY <2>1
<1>3. ~ (\A k \in DOMAIN s : \E e \in EntriesOf(s) : k \in e[1]..e[2])
  BY <1>1, <1>2
<1> QED
  BY <1>3 DEF ArenaMeaning

LEMMA OpenEndsNothing ==
  ASSUME NEW s \in Seq(Tokens), NEW b, OpenAt(s, b)
  PROVE  /\ b \in 1..Len(s) /\ s # <<>>
         /\ \A e \in EntriesOf(s) : e[2] # Len(s)
         /\ \A i \in 1..Len(s) : s[i] = OpenBrace => i <= b
<1>1. b \in 1..Len(s) /\ s[b] = OpenBrace /\ \A k \in b + 1..Len(s) : s[k] \in WordTokens
  BY DEF OpenAt
<1>2. s[Len(s)] # CloseBrace
  <2>1. CASE b = Len(s)
    BY <1>1, <2>1, TokensApart
  <2>2. CASE b # Len(s)
    <3>1. Len(s) \in b + 1..Len(s)
      BY <1>1, <2>2
    <3> QED
      BY <1>1, <3>1, TokensApart
  <2> QED
    BY <2>1, <2>2
<1>3. \A e \in EntriesOf(s) : s[e[2]] = CloseBrace
  BY EntriesAre DEF IsEntry
<1>4. ASSUME NEW i \in 1..Len(s), s[i] = OpenBrace
      PROVE  i <= b
  <2>1. i \notin b + 1..Len(s)
    BY <1>1, <1>4, TokensApart
  <2> QED
    BY <1>1, <2>1
<1> QED
  BY <1>1, <1>2, <1>3, <1>4

LEMMA ArenaSaysName ==
  ASSUME NEW s, NEW p, ArenaRead(s, p)
  PROVE  ArenaName(p) = ArenaMeaning(s)
<1>1. s \in Seq(Tokens) /\ p.ok \in BOOLEAN /\ p.entry \in BOOLEAN /\ p.found \in BOOLEAN
  BY DEF ArenaRead, Parses
<1>2. CASE ~ p.ok
  BY <1>1, <1>2, LooseEndRefused DEF ArenaRead, ArenaName
<1>3. CASE p.ok /\ p.entry
  <2>1. PICK b \in DOMAIN s : OpenAt(s, b)
    BY <1>3 DEF ArenaRead, Within
  <2>2. ArenaMeaning(s) = Refused
    BY <1>1, <2>1, OpenEndsNothing, LooseEndRefused
  <2> QED
    BY <1>3, <2>2 DEF ArenaName
<1>4. CASE p.ok /\ ~ p.entry
  <2> DEFINE mine == MineOf(s)
             all == \A k \in DOMAIN s : \E e \in EntriesOf(s) : k \in e[1]..e[2]
             first == CHOOSE e \in mine : \A f \in mine : e[1] <= f[1]
  <2>1. all
    <3>1. InEntries(s, Len(s) + 1)
      BY <1>4 DEF ArenaRead, Between
    <3>2. \A k \in DOMAIN s : k < Len(s) + 1
      BY <1>1
    <3> QED
      BY <3>1, <3>2 DEF InEntries
  <2>2. ArenaMeaning(s) = IF mine # {} /\ all THEN ValueOf(s, first, "longname") ELSE Refused
    BY DEF ArenaMeaning, MineOf
  <2>3. mine \subseteq EntriesOf(s)
    BY DEF MineOf
  <2>4. FirstFound(s, p)
    BY <1>4 DEF ArenaRead
  <2>5. CASE p.found
    <3>1. PICK e \in mine : (\A f \in mine : e[1] <= f[1]) /\ p.selectedName = ValueOf(s, e, "longname")
      BY <2>4, <2>5 DEF FirstFound
    <3>2. first \in mine /\ \A f \in mine : first[1] <= f[1]
      BY <3>1
    <3> HIDE DEF first, mine
    <3>3. first[1] <= e[1] /\ e[1] <= first[1] /\ first[1] \in Int /\ e[1] \in Int
      BY <1>1, <2>3, <3>1, <3>2, EntriesAre
    <3>4. first[1] = e[1]
      BY <3>3
    <3>5. first = e
      BY <1>1, <2>3, <3>1, <3>2, <3>4, OneEntryAt
    <3>6. mine # {}
      BY <3>1
    <3> HIDE DEF all
    <3> QED
      BY <1>4, <2>1, <2>2, <2>5, <3>1, <3>5, <3>6 DEF ArenaName
  <2>6. CASE ~ p.found
    <3>1. mine = {}
      BY <2>4, <2>6 DEF FirstFound
    <3> HIDE DEF first, mine, all
    <3> QED
      BY <2>2, <2>6, <3>1 DEF ArenaName
  <2> QED
    BY <2>5, <2>6
<1> QED
  BY <1>1, <1>2, <1>3, <1>4

-----------------------------------------------------------------------------
(* One token more *)

(* As long as no entry is new, what was found stays found.                 *)
LEMMA FoundStays ==
  ASSUME NEW s \in Seq(Tokens), NEW t \in Tokens, NEW r, r = Append(s, t), EntriesOf(r) = EntriesOf(s),
         NEW p, NEW q, FirstFound(s, p), q.found = p.found, q.selectedName = p.selectedName
  PROVE  FirstFound(r, q)
<1>1. \A key : \A e \in EntriesOf(s) : ValueOf(r, e, key) = ValueOf(s, e, key)
  BY ValuesStay
<1>2. MineOf(r) = MineOf(s) /\ MineOf(s) \subseteq EntriesOf(s)
  BY <1>1 DEF MineOf
<1> QED
  BY <1>1, <1>2 DEF FirstFound

(* What was in entries is in them still.                                   *)
LEMMA InEntriesStays ==
  ASSUME NEW s \in Seq(Tokens), NEW t \in Tokens, NEW r, r = Append(s, t),
         NEW n \in Nat, n <= Len(s) + 1, InEntries(s, n)
  PROVE  InEntries(r, n)
<1>1. DOMAIN r = 1..Len(s) + 1 /\ DOMAIN s = 1..Len(s) /\ Len(s) \in Nat
  OBVIOUS
<1>2. EntriesOf(s) \subseteq EntriesOf(r)
  BY EntriesStay
<1> QED
  BY <1>1, <1>2 DEF InEntries

LEMMA OnlyClosingEnds ==
  ASSUME NEW s \in Seq(Tokens), NEW t \in Tokens, NEW r, r = Append(s, t), t # CloseBrace
  PROVE  EntriesOf(r) = EntriesOf(s) /\ \A e \in EntriesOf(r) : e[2] # Len(r)
<1>1. Len(r) = Len(s) + 1 /\ r[Len(s) + 1] = t /\ r \in Seq(Tokens)
  OBVIOUS
<1>2. EntriesOf(s) \subseteq EntriesOf(r) /\ \A e \in EntriesOf(r) : e \in EntriesOf(s) \/ e[2] = Len(s) + 1
  BY EntriesStay
<1>3. \A e \in EntriesOf(r) : r[e[2]] = CloseBrace
  BY <1>1, EntriesAre DEF IsEntry
<1> QED
  BY <1>1, <1>2, <1>3

(* Every other place is one of a key.                                      *)
LEMMA Parity ==
  ASSUME NEW n \in Nat, NEW b \in Nat, b <= n
  PROVE  /\ (n - b) % 2 = 0 => (n + 1 - b) % 2 = 1
         /\ (n - b) % 2 # 0 => (n - b) % 2 = 1 /\ (n + 1 - b) % 2 = 0
<1>1. PICK d \in Nat : d = n - b
  OBVIOUS
<1>2. d % 2 = 0 => (d + 1) % 2 = 1
  OBVIOUS
<1>3. d % 2 # 0 => d % 2 = 1 /\ (d + 1) % 2 = 0
  OBVIOUS
<1>4. n - b = d /\ n + 1 - b = d + 1
  BY <1>1
<1> QED
  BY <1>2, <1>3, <1>4

(* After a closing brace a second one closes nothing.                      *)
LEMMA BetweenEndsNothing ==
  ASSUME NEW s \in Seq(Tokens), NEW p, Between(s, p), NEW r, r = Append(s, CloseBrace)
  PROVE  EntriesOf(r) = EntriesOf(s) /\ \A e \in EntriesOf(r) : e[2] # Len(r)
<1> DEFINE n == Len(s)
<1>1. CloseBrace \in Tokens
  BY TokensApart
<1>2. Len(r) = n + 1 /\ r \in Seq(Tokens) /\ n \in Nat /\ \A k \in 1..n : r[k] = s[k]
  BY <1>1
<1>3. EntriesOf(s) \subseteq EntriesOf(r) /\ \A e \in EntriesOf(r) : e \in EntriesOf(s) \/ e[2] = n + 1
  BY <1>1, EntriesStay
<1>4. n > 0 => s[n] = CloseBrace
  BY DEF Between
<1> HIDE DEF n
<1>5. ASSUME NEW e \in EntriesOf(r), e[2] = n + 1
      PROVE  FALSE
  <2> DEFINE i == e[1]
             j == e[2]
  <2>1. i \in 1..Len(r) /\ j = n + 1 /\ i < j /\ IsEntry(r, i, j)
    BY <1>2, <1>5, EntriesAre
  <2> HIDE DEF i, j
  <2>2. r[i] = OpenBrace /\ i \in 1..n
    BY <1>2, <2>1 DEF IsEntry
  <2>3. r[n] = CloseBrace /\ n \in 1..n
    BY <1>2, <1>4, <2>2
  <2>4. i # n
    BY <2>2, <2>3, TokensApart
  <2>5. i < n /\ n < j /\ i \in Nat /\ n \in Nat /\ j \in Nat
    BY <1>2, <2>1, <2>2, <2>4
  <2>6. r[n] \in WordTokens
    BY <1>2, <2>1, <2>5, EndsAreAlike
  <2> QED
    BY <2>3, <2>6, TokensApart
<1>6. EntriesOf(r) = EntriesOf(s)
  BY <1>3, <1>5
<1> QED
  BY <1>2, <1>3, <1>5, <1>6

(* A closing brace ends the open entry where a key could stand, and        *)
(* nothing elsewhere.                                                      *)
LEMMA ClosingEndsOpen ==
  ASSUME NEW s \in Seq(Tokens), NEW b, OpenAt(s, b), NEW r, r = Append(s, CloseBrace)
  PROVE  EntriesOf(r) = EntriesOf(s) \cup
           (IF (Len(s) - b) % 2 = 0 THEN {<<b, Len(s) + 1>>} ELSE {})
<1> DEFINE n == Len(s)
<1>1. CloseBrace \in Tokens
  BY TokensApart
<1>2. /\ Len(r) = n + 1 /\ r \in Seq(Tokens) /\ n \in Nat /\ r[n + 1] = CloseBrace
      /\ \A k \in 1..n : r[k] = s[k]
  BY <1>1
<1>3. EntriesOf(s) \subseteq EntriesOf(r) /\ \A e \in EntriesOf(r) : e \in EntriesOf(s) \/ e[2] = n + 1
  BY <1>1, EntriesStay
<1>4. b \in 1..n /\ \A i \in 1..n : s[i] = OpenBrace => i <= b
  BY OpenEndsNothing
<1>5. s[b] = OpenBrace /\ \A k \in b + 1..n : s[k] \in WordTokens /\ ((k - b) % 2 = 1 => s[k].text # NoText)
  BY DEF OpenAt
<1> HIDE DEF n
<1>6. ASSUME NEW e \in EntriesOf(r), e[2] = n + 1
      PROVE  e = <<b, n + 1>> /\ (n + 1 - b) % 2 = 1
  <2> DEFINE i == e[1]
             j == e[2]
  <2>1. e = <<i, j>> /\ i \in 1..Len(r) /\ j = n + 1 /\ i < j /\ IsEntry(r, i, j)
    BY <1>2, <1>6, EntriesAre
  <2> HIDE DEF i, j
  <2>2. r[i] = OpenBrace /\ (j - i) % 2 = 1
    BY <2>1 DEF IsEntry
  <2>3. i \in 1..n /\ i <= b
    BY <1>2, <1>4, <2>1, <2>2
  <2>4. ~ (i < b)
    <3>1. i < b => i \in Nat /\ b \in Nat /\ j \in Nat /\ b < j
      BY <1>2, <1>4, <2>1, <2>3
    <3>2. i < b => r[b] \in WordTokens
      BY <1>2, <2>1, <3>1, EndsAreAlike
    <3>3. r[b] = OpenBrace
      BY <1>2, <1>4, <1>5
    <3> QED
      BY <3>2, <3>3, TokensApart
  <2>5. i = b
    BY <1>4, <2>3, <2>4
  <2>6. e = <<b, n + 1>>
    BY <2>1, <2>5
  <2>7. (n + 1 - b) % 2 = 1
    BY <1>2, <1>4, <2>1, <2>2, <2>5
  <2> QED
    BY <2>6, <2>7
<1>7. (n + 1 - b) % 2 = 1 <=> (n - b) % 2 = 0
  <2>1. n \in Nat /\ b \in Nat /\ b <= n
    BY <1>2, <1>4
  <2>2. 0 # 1
    OBVIOUS
  <2> QED
    BY <2>1, <2>2, Parity
<1>8. ASSUME (n - b) % 2 = 0
      PROVE  <<b, n + 1>> \in EntriesOf(r)
  <2> DEFINE j == n + 1
  <2>1. \A k \in b + 1..j - 1 : r[k] \in WordTokens /\ ((k - b) % 2 = 1 => r[k].text # NoText)
    <3>1. \A k \in b + 1..j - 1 : k \in b + 1..n /\ k \in 1..n
      BY <1>2, <1>4
    <3> QED
      BY <1>2, <1>5, <3>1
  <2>2. r[b] = OpenBrace /\ r[j] = CloseBrace /\ (j - b) % 2 = 1
    BY <1>2, <1>4, <1>5, <1>7, <1>8
  <2>3. b \in 1..Len(r) /\ j \in 1..Len(r) /\ b < j
    BY <1>2, <1>4
  <2> HIDE DEF j
  <2>4. IsEntry(r, b, j)
    BY <2>1, <2>2 DEF IsEntry
  <2>5. <<b, j>> \in EntriesOf(r)
    BY <1>2, <2>3, <2>4, EntriesAre
  <2> QED
    BY <2>5 DEF j
<1> QED
  BY <1>3, <1>6, <1>7, <1>8 DEF n

(* One token of the parse, field by field.                                 *)
LEMMA ParseTokenReads ==
  ASSUME NEW p \in Parses, NEW t \in Tokens, NEW q, q = ParseToken(p, t)
  PROVE  /\ q \in Parses
         /\ t = Unfinished => ~ q.ok
         /\ ~ p.entry /\ t # OpenBrace => ~ q.ok
         /\ p.entry /\ t = OpenBrace => ~ q.ok
         /\ p.entry /\ p.key = NoKey /\ t \in WordTokens /\ t.text = NoText => ~ q.ok
         /\ p.entry /\ p.key # NoKey /\ t = CloseBrace => ~ q.ok
         /\ ~ p.entry /\ t = OpenBrace =>
              /\ q.ok = p.ok /\ q.entry /\ q.key = p.key /\ q.map = NoText /\ q.longname = NoText
              /\ q.found = p.found /\ q.selectedName = p.selectedName
         /\ p.entry /\ p.key = NoKey /\ t = CloseBrace =>
              /\ q.ok = p.ok /\ ~ q.entry /\ q.key = NoKey /\ q.found = (p.found \/ p.map = "folder")
              /\ q.selectedName = IF ~ p.found /\ p.map = "folder" THEN p.longname ELSE p.selectedName
         /\ p.entry /\ p.key = NoKey /\ t \in WordTokens /\ t.text # NoText =>
              /\ q.ok = p.ok /\ q.entry /\ q.key = t.text /\ q.map = p.map /\ q.longname = p.longname
              /\ q.found = p.found /\ q.selectedName = p.selectedName
         /\ p.entry /\ p.key # NoKey /\ t \in WordTokens =>
              /\ q.ok = p.ok /\ q.entry /\ q.key = NoKey
              /\ q.map = IF p.key = "map" THEN t.text ELSE p.map
              /\ q.longname = IF p.key = "longname" THEN t.text ELSE p.longname
              /\ q.found = p.found /\ q.selectedName = p.selectedName
<1>1. p.ok \in BOOLEAN /\ p.entry \in BOOLEAN /\ p.found \in BOOLEAN
  BY DEF Parses
<1>2. t \in {OpenBrace, CloseBrace, Unfinished} \/ t \in WordTokens
  BY TokensApart
<1> DEFINE failed == [p EXCEPT !.ok = FALSE]
<1>3. failed \in Parses /\ ~ failed.ok
  BY DEF Parses
<1> HIDE DEF failed
<1>4. CASE t = Unfinished
  <2>1. q = failed
    BY <1>4 DEF ParseToken, failed
  <2> QED
    BY <1>3, <1>4, <2>1, TokensApart
<1>5. CASE t # Unfinished /\ ~ p.entry /\ t # OpenBrace
  <2>1. q = failed
    BY <1>5 DEF ParseToken, BetweenEntries, failed
  <2> QED
    BY <1>3, <1>5, <2>1
<1>6. CASE ~ p.entry /\ t = OpenBrace
  <2>1. q = [p EXCEPT !.entry = TRUE, !.map = NoText, !.longname = NoText]
    BY <1>6, TokensApart DEF ParseToken, BetweenEntries
  <2>2. /\ q \in Parses /\ q.ok = p.ok /\ q.entry /\ q.key = p.key /\ q.map = NoText /\ q.longname = NoText
        /\ q.found = p.found /\ q.selectedName = p.selectedName
    BY <2>1 DEF Parses
  <2> QED
    BY <1>6, <2>2, TokensApart
<1>7. CASE p.entry /\ p.key = NoKey /\ t = CloseBrace
  <2> DEFINE ended == [p EXCEPT !.entry = FALSE]
             named == [p EXCEPT !.entry = FALSE, !.found = TRUE, !.selectedName = p.longname]
             mine == ~ p.found /\ p.map = "folder"
  <2>1. q = AtKey(p, t)
    BY <1>7, TokensApart DEF ParseToken
  <2>2. AtKey(p, t) = EndEntry(p)
    <3>1. t # OpenBrace /\ t.text # NoText
      BY <1>7, TokensApart
    <3> QED
      BY <1>7, <3>1 DEF AtKey
  <2>3. EndEntry(p) = IF mine THEN named ELSE ended
    BY DEF EndEntry
  <2>4. /\ named \in Parses /\ named.ok = p.ok /\ ~ named.entry /\ named.key = p.key
        /\ named.found /\ named.selectedName = p.longname
    BY DEF Parses
  <2>5. /\ ended \in Parses /\ ended.ok = p.ok /\ ~ ended.entry /\ ended.key = p.key
        /\ ended.found = p.found /\ ended.selectedName = p.selectedName
    BY DEF Parses
  <2>6. q = IF mine THEN named ELSE ended
    BY <2>1, <2>2, <2>3
  <2> HIDE DEF named, ended
  <2>7. /\ q \in Parses /\ q.ok = p.ok /\ ~ q.entry /\ q.key = NoKey /\ q.found = (p.found \/ p.map = "folder")
        /\ q.selectedName = IF ~ p.found /\ p.map = "folder" THEN p.longname ELSE p.selectedName
    <3>1. CASE mine
      <4>1. q = named
        BY <2>6, <3>1
      <4> QED
        BY <1>1, <1>7, <2>4, <3>1, <4>1
    <3>2. CASE ~ mine
      <4>1. q = ended
        BY <2>6, <3>2
      <4> QED
        BY <1>1, <1>7, <2>5, <3>2, <4>1
    <3> QED
      BY <3>1, <3>2
  <2> HIDE DEF mine
  <2> QED
    BY <1>7, <2>7, TokensApart
<1>8. CASE p.entry /\ p.key = NoKey /\ (t = OpenBrace \/ (t \in WordTokens /\ t.text = NoText))
  <2>1. q = AtKey(p, t)
    BY <1>8, TokensApart DEF ParseToken
  <2>2. AtKey(p, t) = failed
    BY <1>8, TokensApart DEF AtKey, failed
  <2> QED
    BY <1>3, <1>8, <2>1, <2>2, TokensApart
<1>9. CASE p.entry /\ p.key = NoKey /\ t \in WordTokens /\ t.text # NoText
  <2>1. q = AtKey(p, t)
    BY <1>9, TokensApart DEF ParseToken
  <2>2. AtKey(p, t) = [p EXCEPT !.key = t.text]
    BY <1>9, TokensApart DEF AtKey
  <2>3. t.text \in Words
    BY <1>9, TokensApart
  <2>4. q = [p EXCEPT !.key = t.text]
    BY <2>1, <2>2
  <2>5. /\ q \in Parses /\ q.ok = p.ok /\ q.entry = p.entry /\ q.key = t.text /\ q.map = p.map
        /\ q.longname = p.longname /\ q.found = p.found /\ q.selectedName = p.selectedName
    BY <2>3, <2>4 DEF Parses
  <2> QED
    BY <1>9, <2>5, TokensApart
<1>10. CASE p.entry /\ p.key # NoKey /\ t \in {OpenBrace, CloseBrace}
  <2>1. q = AtValue(p, t)
    BY <1>10, TokensApart DEF ParseToken
  <2>2. AtValue(p, t) = failed
    BY <1>10 DEF AtValue, failed
  <2> QED
    BY <1>3, <1>10, <2>1, <2>2, TokensApart
<1>11. CASE p.entry /\ p.key # NoKey /\ t \in WordTokens
  <2>1. q = AtValue(p, t)
    BY <1>11, TokensApart DEF ParseToken
  <2>2. t.text \in Words /\ t \notin {OpenBrace, CloseBrace}
    BY <1>11, TokensApart
  <2>3. q = IF p.key = "map" THEN [p EXCEPT !.key = NoKey, !.map = t.text]
            ELSE IF p.key = "longname" THEN [p EXCEPT !.key = NoKey, !.longname = t.text]
            ELSE [p EXCEPT !.key = NoKey]
    BY <2>1, <2>2 DEF AtValue
  <2>4. /\ q \in Parses /\ q.ok = p.ok /\ q.entry = p.entry /\ q.key = NoKey
        /\ q.map = IF p.key = "map" THEN t.text ELSE p.map
        /\ q.longname = IF p.key = "longname" THEN t.text ELSE p.longname
        /\ q.found = p.found /\ q.selectedName = p.selectedName
    <3>1. CASE p.key = "map"
      <4>1. q = [p EXCEPT !.key = NoKey, !.map = t.text]
        BY <2>3, <3>1
      <4> QED
        BY <2>2, <3>1, <4>1 DEF Parses
    <3>2. CASE p.key = "longname"
      <4>1. q = [p EXCEPT !.key = NoKey, !.longname = t.text]
        BY <2>3, <3>2
      <4> QED
        BY <2>2, <3>2, <4>1 DEF Parses
    <3>3. CASE p.key # "map" /\ p.key # "longname"
      <4>1. q = [p EXCEPT !.key = NoKey]
        BY <2>3, <3>3
      <4> QED
        BY <2>2, <3>3, <4>1 DEF Parses
    <3> QED
      BY <3>1, <3>2, <3>3
  <2> QED
    BY <1>11, <2>4, TokensApart
<1> QED
  BY <1>1, <1>2, <1>4, <1>5, <1>6, <1>7, <1>8, <1>9, <1>10, <1>11

(* What was refused stays refused, if the token ends no entry.             *)
LEMMA RefusedRead ==
  ASSUME NEW s \in Seq(Tokens), NEW t \in Tokens, NEW r, r = Append(s, t), NEW q \in Parses, ~ q.ok,
         \A e \in EntriesOf(r) : e[2] # Len(r)
  PROVE  ArenaRead(r, q)
<1>1. r \in Seq(Tokens) /\ r # <<>>
  OBVIOUS
<1> QED
  BY <1>1 DEF ArenaRead

(* A word is added to the entry that is open.                              *)
LEMMA OpenStays ==
  ASSUME NEW s \in Seq(Tokens), NEW t \in WordTokens, NEW r, r = Append(s, t), NEW b, OpenAt(s, b),
         (Len(s) + 1 - b) % 2 = 1 => t.text # NoText
  PROVE  OpenAt(r, b)
<1> DEFINE n == Len(s)
<1>1. /\ t \in Tokens
  BY TokensApart
<1>2. /\ Len(r) = n + 1 /\ DOMAIN r = 1..n + 1 /\ n \in Nat /\ r[n + 1] = t
      /\ \A k \in 1..n : r[k] = s[k]
  BY <1>1
<1>3. b \in 1..n
  BY OpenEndsNothing
<1>4. s[b] = OpenBrace /\ \A k \in b + 1..n : s[k] \in WordTokens /\ ((k - b) % 2 = 1 => s[k].text # NoText)
  BY DEF OpenAt
<1> HIDE DEF n
<1>5. \A k \in b + 1..n + 1 : r[k] \in WordTokens /\ ((k - b) % 2 = 1 => r[k].text # NoText)
  <2> TAKE k \in b + 1..n + 1
  <2>1. CASE k = n + 1
    <3>1. (n + 1 - b) % 2 = 1 => t.text # NoText
      BY DEF n
    <3> QED
      BY <1>2, <1>3, <2>1, <3>1
  <2>2. CASE k # n + 1
    <3>1. k \in b + 1..n /\ k \in 1..n
      BY <1>2, <1>3, <2>2
    <3> QED
      BY <1>2, <1>4, <3>1
  <2> QED
    BY <2>1, <2>2
<1>6. b \in DOMAIN r /\ r[b] = OpenBrace
  BY <1>2, <1>3, <1>4
<1> QED
  BY <1>2, <1>5, <1>6 DEF OpenAt

(* Pairs say what they said.                                               *)
LEMMA PairsSayStill ==
  ASSUME NEW s \in Seq(Tokens), NEW t \in Tokens, NEW r, r = Append(s, t), NEW b \in 1..Len(s), NEW key,
         NEW v, PairsSay(PairsOf(s, b, key), s, v)
  PROVE  PairsSay(PairsOf(s, b, key), r, v)
<1>1. \A n \in PairsOf(s, b, key) : n + 1 \in 1..Len(s)
  BY DEF PairsOf
<1>2. \A k \in 1..Len(s) : r[k] = s[k]
  OBVIOUS
<1> QED
  BY <1>1, <1>2 DEF PairsSay

(* An entry begins.                                                        *)
LEMMA EntryBegins ==
  ASSUME NEW s, NEW p, ArenaRead(s, p), p.ok, ~ p.entry, NEW r, r = Append(s, OpenBrace),
         NEW q, q = ParseToken(p, OpenBrace)
  PROVE  ArenaRead(r, q)
<1> DEFINE n == Len(s)
           m == n + 1
<1>1. OpenBrace \in Tokens /\ OpenBrace # CloseBrace
  BY TokensApart
<1>2. s \in Seq(Tokens) /\ p \in Parses /\ Between(s, p) /\ FirstFound(s, p)
  BY DEF ArenaRead
<1>3. /\ q \in Parses /\ q.ok = p.ok /\ q.entry /\ q.key = p.key /\ q.map = NoText /\ q.longname = NoText
      /\ q.found = p.found /\ q.selectedName = p.selectedName
  BY <1>1, <1>2, ParseTokenReads
<1>4. r \in Seq(Tokens) /\ Len(r) = m /\ DOMAIN r = 1..m /\ n \in Nat /\ r[m] = OpenBrace
  BY <1>1, <1>2
<1>5. EntriesOf(r) = EntriesOf(s)
  BY <1>1, <1>2, OnlyClosingEnds
<1>6. FirstFound(r, q)
  BY <1>1, <1>2, <1>3, <1>5, FoundStays
<1>7. m \in Nat /\ m <= Len(s) + 1 /\ InEntries(s, m)
  BY <1>2, <1>4 DEF Between
<1>8. InEntries(r, m)
  BY <1>1, <1>2, <1>7, InEntriesStays
<1>9. p.key = NoKey
  BY <1>2 DEF Between
<1> HIDE DEF m, n
<1>10. OpenAt(r, m)
  BY <1>4, <1>7 DEF OpenAt
<1>11. \A key : PairsOf(r, m, key) = {}
  BY <1>4, <1>7 DEF PairsOf
<1>12. (Len(r) - m) % 2 = 0
  BY <1>4, <1>7
<1>13. Within(r, q, m)
  BY <1>3, <1>8, <1>9, <1>10, <1>11, <1>12 DEF Within, PairsSay
<1>14. m \in DOMAIN r
  BY <1>4, <1>7
<1> QED
  BY <1>3, <1>4, <1>6, <1>13, <1>14 DEF ArenaRead

(* A key with a name.                                                      *)
LEMMA KeyRead ==
  ASSUME NEW s, NEW p, ArenaRead(s, p), p.ok, p.entry, p.key = NoKey,
         NEW t \in WordTokens, t.text # NoText, NEW r, r = Append(s, t), NEW q, q = ParseToken(p, t)
  PROVE  ArenaRead(r, q)
<1> DEFINE n == Len(s)
<1>1. t \in Tokens /\ t # CloseBrace /\ t.text # NoKey
  BY TokensApart
<1>2. s \in Seq(Tokens) /\ p \in Parses /\ FirstFound(s, p)
  BY DEF ArenaRead
<1>3. PICK b \in DOMAIN s : Within(s, p, b)
  BY DEF ArenaRead
<1>4. /\ q \in Parses /\ q.ok = p.ok /\ q.entry /\ q.key = t.text /\ q.map = p.map /\ q.longname = p.longname
      /\ q.found = p.found /\ q.selectedName = p.selectedName
  BY <1>1, <1>2, ParseTokenReads
<1>5. r \in Seq(Tokens) /\ Len(r) = n + 1 /\ DOMAIN r = 1..n + 1 /\ n \in Nat /\ b \in 1..n /\ r[n + 1] = t
  BY <1>1, <1>2
<1>6. EntriesOf(r) = EntriesOf(s)
  BY <1>1, <1>2, OnlyClosingEnds
<1>7. FirstFound(r, q)
  BY <1>1, <1>2, <1>4, <1>6, FoundStays
<1>8. /\ OpenAt(s, b) /\ InEntries(s, b) /\ (n - b) % 2 = 0
      /\ PairsSay(PairsOf(s, b, "map"), s, p.map) /\ PairsSay(PairsOf(s, b, "longname"), s, p.longname)
  BY <1>3 DEF Within
<1>9. OpenAt(r, b)
  BY <1>2, <1>8, OpenStays
<1>10. b \in Nat /\ b <= Len(s) + 1
  BY <1>5
<1>11. InEntries(r, b)
  BY <1>1, <1>2, <1>8, <1>10, InEntriesStays
<1>12. /\ PairsSay(PairsOf(s, b, "map"), r, p.map)
       /\ PairsSay(PairsOf(s, b, "longname"), r, p.longname)
  BY <1>1, <1>2, <1>5, <1>8, PairsSayStill
<1>13. \A k \in 1..n : r[k] = s[k]
  BY <1>1, <1>2
<1>14. \A key : PairsOf(r, b, key) = PairsOf(s, b, key)
  <2> TAKE key
  <2>1. ASSUME NEW k \in PairsOf(r, b, key)
        PROVE  k \in PairsOf(s, b, key)
    <3>1. k \in b + 1..n + 1 - 1 /\ (k - b) % 2 = 1 /\ r[k].text = key
      BY <1>5, <2>1 DEF PairsOf
    <3>2. k # n
      BY <1>5, <1>8, <3>1
    <3>3. k \in b + 1..n - 1 /\ k \in 1..n
      BY <1>5, <3>1, <3>2
    <3> QED
      BY <1>13, <3>1, <3>3 DEF PairsOf
  <2>2. ASSUME NEW k \in PairsOf(s, b, key)
        PROVE  k \in PairsOf(r, b, key)
    <3>1. k \in b + 1..n - 1 /\ (k - b) % 2 = 1 /\ s[k].text = key
      BY <2>2 DEF PairsOf
    <3>2. k \in b + 1..n + 1 - 1 /\ k \in 1..n
      BY <1>5, <3>1
    <3> QED
      BY <1>5, <1>13, <3>1, <3>2 DEF PairsOf
  <2> QED
    BY <2>1, <2>2
<1> HIDE DEF n
<1>15. (Len(r) - b) % 2 # 0
  <2>1. (n + 1 - b) % 2 = 1
    <3>1. b \in Nat /\ b <= n /\ n \in Nat /\ (n - b) % 2 = 0
      BY <1>5, <1>8
    <3> QED
      BY <3>1, Parity
  <2> QED
    BY <1>5, <2>1
<1>16. q.key # NoKey /\ q.key = r[Len(r)].text
  BY <1>1, <1>4, <1>5
<1>17. Within(r, q, b)
  BY <1>4, <1>9, <1>11, <1>12, <1>14, <1>15, <1>16 DEF Within
<1>18. b \in DOMAIN r
  BY <1>5
<1> QED
  BY <1>4, <1>5, <1>7, <1>17, <1>18 DEF ArenaRead

(* A value is that of the last pair with its key.                          *)
LEMMA ValueSays ==
  ASSUME NEW s \in Seq(Tokens), NEW t \in Tokens, NEW r, r = Append(s, t), NEW b \in 1..Len(s),
         (Len(s) - b) % 2 = 1, NEW key, NEW v, PairsSay(PairsOf(s, b, key), s, v)
  PROVE  PairsSay(PairsOf(r, b, key), r, IF s[Len(s)].text = key THEN t.text ELSE v)
<1> DEFINE n == Len(s)
           new == IF s[n].text = key THEN {n} ELSE {}
<1>1. /\ Len(r) = n + 1 /\ n \in Nat /\ b \in 1..n /\ r[n + 1] = t
      /\ \A k \in 1..n : r[k] = s[k]
  OBVIOUS
<1>2. PairsSay(PairsOf(s, b, key), r, v)
  BY PairsSayStill
<1>3. (n - b) % 2 = 1
  OBVIOUS
<1> HIDE DEF n
<1>4. PairsOf(r, b, key) = PairsOf(s, b, key) \cup new
  <2>1. ASSUME NEW k \in PairsOf(r, b, key)
        PROVE  k \in PairsOf(s, b, key) \cup new
    <3>1. k \in b + 1..n + 1 - 1 /\ (k - b) % 2 = 1 /\ r[k].text = key
      BY <1>1, <2>1 DEF PairsOf
    <3>2. k \in 1..n
      BY <1>1, <3>1
    <3>3. CASE k = n
      BY <1>1, <3>1, <3>2, <3>3
    <3>4. CASE k # n
      <4>1. k \in b + 1..n - 1
        BY <1>1, <3>1, <3>4
      <4> QED
        BY <1>1, <3>1, <3>2, <4>1 DEF PairsOf, n
    <3> QED
      BY <3>3, <3>4
  <2>2. ASSUME NEW k \in PairsOf(s, b, key)
        PROVE  k \in PairsOf(r, b, key)
    <3>1. k \in b + 1..n - 1 /\ (k - b) % 2 = 1 /\ s[k].text = key
      BY <2>2 DEF PairsOf, n
    <3>2. k \in b + 1..n + 1 - 1 /\ k \in 1..n
      BY <1>1, <3>1
    <3> QED
      BY <1>1, <3>1, <3>2 DEF PairsOf
  <2>3. ASSUME NEW k \in new
        PROVE  k \in PairsOf(r, b, key)
    <3>1. k = n /\ s[n].text = key
      BY <2>3
    <3>2. k \in b + 1..n + 1 - 1 /\ k \in 1..n
      <4>1. b # n
        BY <1>1, <1>3
      <4> QED
        BY <1>1, <3>1, <4>1
    <3>3. (k - b) % 2 = 1 /\ r[k].text = key
      BY <1>1, <1>3, <3>1, <3>2
    <3> QED
      BY <1>1, <3>2, <3>3 DEF PairsOf
  <2> HIDE DEF new
  <2> QED
    BY <2>1, <2>2, <2>3
<1>5. CASE s[n].text = key
  <2>1. n \in PairsOf(r, b, key) /\ r[n + 1].text = t.text
    BY <1>1, <1>4, <1>5
  <2>2. \A l \in PairsOf(r, b, key) : l <= n
    BY <1>1 DEF PairsOf
  <2> QED
    BY <1>5, <2>1, <2>2 DEF PairsSay, n
<1>6. CASE s[n].text # key
  BY <1>2, <1>4, <1>6 DEF n
<1> QED
  BY <1>5, <1>6

LEMMA ValueRead ==
  ASSUME NEW s, NEW p, ArenaRead(s, p), p.ok, p.entry, p.key # NoKey,
         NEW t \in WordTokens, NEW r, r = Append(s, t), NEW q, q = ParseToken(p, t)
  PROVE  ArenaRead(r, q)
<1> DEFINE n == Len(s)
<1>1. t \in Tokens /\ t # CloseBrace
  BY TokensApart
<1>2. s \in Seq(Tokens) /\ p \in Parses /\ FirstFound(s, p)
  BY DEF ArenaRead
<1>3. PICK b \in DOMAIN s : Within(s, p, b)
  BY DEF ArenaRead
<1>4. /\ q \in Parses /\ q.ok = p.ok /\ q.entry /\ q.key = NoKey
      /\ q.map = IF p.key = "map" THEN t.text ELSE p.map
      /\ q.longname = IF p.key = "longname" THEN t.text ELSE p.longname
      /\ q.found = p.found /\ q.selectedName = p.selectedName
  BY <1>1, <1>2, ParseTokenReads
<1>5. r \in Seq(Tokens) /\ Len(r) = n + 1 /\ DOMAIN r = 1..n + 1 /\ n \in Nat /\ b \in 1..n
  BY <1>1, <1>2
<1>6. EntriesOf(r) = EntriesOf(s)
  BY <1>1, <1>2, OnlyClosingEnds
<1>7. FirstFound(r, q)
  BY <1>1, <1>2, <1>4, <1>6, FoundStays
<1>8. /\ OpenAt(s, b) /\ InEntries(s, b) /\ (n - b) % 2 # 0 /\ p.key = s[n].text
      /\ PairsSay(PairsOf(s, b, "map"), s, p.map) /\ PairsSay(PairsOf(s, b, "longname"), s, p.longname)
  BY <1>3 DEF Within
<1>9. (n - b) % 2 = 1 /\ (n + 1 - b) % 2 = 0
  <2>1. b \in Nat /\ b <= n
    BY <1>5
  <2> HIDE DEF n
  <2> QED
    BY <1>5, <1>8, <2>1, Parity
<1>10. OpenAt(r, b)
  BY <1>2, <1>8, <1>9, OpenStays
<1>11. b \in Nat /\ b <= Len(s) + 1
  BY <1>5
<1>12. InEntries(r, b)
  BY <1>1, <1>2, <1>8, <1>11, InEntriesStays
<1>13. PairsSay(PairsOf(r, b, "map"), r, IF s[n].text = "map" THEN t.text ELSE p.map)
  BY <1>1, <1>2, <1>5, <1>8, <1>9, ValueSays
<1>14. PairsSay(PairsOf(r, b, "longname"), r, IF s[n].text = "longname" THEN t.text ELSE p.longname)
  BY <1>1, <1>2, <1>5, <1>8, <1>9, ValueSays
<1> HIDE DEF n
<1>15. (Len(r) - b) % 2 = 0
  BY <1>5, <1>9
<1>16. Within(r, q, b)
  BY <1>4, <1>8, <1>10, <1>12, <1>13, <1>14, <1>15 DEF Within
<1>17. b \in DOMAIN r
  BY <1>5
<1> QED
  BY <1>4, <1>5, <1>7, <1>16, <1>17 DEF ArenaRead

(* An entry ends.                                                          *)
LEMMA EntryEnds ==
  ASSUME NEW s, NEW p, ArenaRead(s, p), p.ok, p.entry, p.key = NoKey,
         NEW r, r = Append(s, CloseBrace), NEW q, q = ParseToken(p, CloseBrace)
  PROVE  ArenaRead(r, q)
<1> DEFINE n == Len(s)
           m == n + 1
<1>1. CloseBrace \in Tokens
  BY TokensApart
<1>2. s \in Seq(Tokens) /\ p \in Parses /\ FirstFound(s, p) /\ p.found \in BOOLEAN
  BY DEF ArenaRead, Parses
<1>3. PICK b \in DOMAIN s : Within(s, p, b)
  BY DEF ArenaRead
<1>4. /\ q \in Parses /\ q.ok = p.ok /\ ~ q.entry /\ q.key = NoKey /\ q.found = (p.found \/ p.map = "folder")
      /\ q.selectedName = IF ~ p.found /\ p.map = "folder" THEN p.longname ELSE p.selectedName
  BY <1>1, <1>2, ParseTokenReads
<1>5. /\ r \in Seq(Tokens) /\ Len(r) = m /\ DOMAIN r = 1..m /\ n \in Nat /\ b \in 1..n /\ r[m] = CloseBrace
      /\ \A k \in 1..n : r[k] = s[k]
  BY <1>1, <1>2
<1>6. /\ OpenAt(s, b) /\ InEntries(s, b) /\ (n - b) % 2 = 0
      /\ PairsSay(PairsOf(s, b, "map"), s, p.map) /\ PairsSay(PairsOf(s, b, "longname"), s, p.longname)
  BY <1>3 DEF Within
<1> DEFINE new == <<b, m>>
<1>7. EntriesOf(r) = EntriesOf(s) \cup {new}
  BY <1>2, <1>6, ClosingEndsOpen
<1>8. b \in Nat /\ b <= Len(s) + 1
  BY <1>5
<1>9. InEntries(r, b)
  BY <1>1, <1>2, <1>6, <1>8, InEntriesStays
<1>10. /\ PairsSay(PairsOf(s, b, "map"), r, p.map)
       /\ PairsSay(PairsOf(s, b, "longname"), r, p.longname)
  BY <1>1, <1>2, <1>5, <1>6, PairsSayStill
<1>11. \A e \in EntriesOf(s) : e[1] <= b /\ e[1] # b
  <2> TAKE e \in EntriesOf(s)
  <2>1. e[1] \in 1..Len(s) /\ e[2] \in 1..Len(s) /\ e[1] < e[2] /\ IsEntry(s, e[1], e[2])
    BY <1>2, EntriesAre
  <2>2. s[e[1]] = OpenBrace /\ s[e[2]] = CloseBrace
    BY <2>1 DEF IsEntry
  <2>3. e[1] <= b
    BY <1>2, <1>6, <2>1, <2>2, OpenEndsNothing
  <2>4. e[1] # b
    <3>1. e[1] = b => e[2] \in b + 1..Len(s)
      BY <1>5, <2>1
    <3>2. e[1] = b => s[e[2]] \in WordTokens
      BY <1>6, <3>1 DEF OpenAt
    <3> QED
      BY <2>2, <3>2, TokensApart
  <2> QED
    BY <2>3, <2>4
<1> HIDE DEF n
<1>12. \A key : KeysOf(r, new, key) = PairsOf(s, b, key)
  <2> TAKE key
  <2>1. b + 1..m - 1 = b + 1..n /\ new[1] = b /\ new[2] = m
    BY <1>5
  <2> HIDE DEF m, new
  <2>2. KeysOf(r, new, key) = {k \in b + 1..n : (k - b) % 2 = 1 /\ r[k].text = key}
    BY <2>1 DEF KeysOf
  <2>3. PairsOf(s, b, key) = {k \in b + 1..n - 1 : (k - b) % 2 = 1 /\ s[k].text = key}
    BY DEF PairsOf, n
  <2>4. \A k \in b + 1..n : k \in 1..n /\ ((k - b) % 2 = 1 => k \in b + 1..n - 1)
    <3> TAKE k \in b + 1..n
    <3>1. k \in 1..n
      BY <1>5
    <3>2. (k - b) % 2 = 1 => k # n
      BY <1>5, <1>6, <3>1
    <3> QED
      BY <1>5, <3>1, <3>2
  <2>5. \A k \in b + 1..n - 1 : k \in b + 1..n
    BY <1>5
  <2>6. \A k \in b + 1..n : r[k] = s[k]
    BY <1>5, <2>4
  <2>7. ASSUME NEW k \in b + 1..n, (k - b) % 2 = 1, r[k].text = key
        PROVE  k \in PairsOf(s, b, key)
    BY <2>3, <2>4, <2>6, <2>7
  <2>8. ASSUME NEW k \in b + 1..n - 1, (k - b) % 2 = 1, s[k].text = key
        PROVE  k \in KeysOf(r, new, key)
    BY <2>2, <2>5, <2>6, <2>8
  <2> QED
    BY <2>2, <2>3, <2>7, <2>8
<1>13. ASSUME NEW key, NEW v, PairsSay(PairsOf(s, b, key), r, v)
       PROVE  ValueOf(r, new, key) = v
  <2> DEFINE keys == PairsOf(s, b, key)
  <2>1. ValueOf(r, new, key) = IF keys = {} THEN NoText ELSE r[LastOf(keys) + 1].text
    BY <1>12 DEF ValueOf
  <2>2. keys \subseteq Int
    BY DEF PairsOf
  <2>3. CASE keys = {}
    BY <1>13, <2>1, <2>3 DEF PairsSay
  <2>4. CASE keys # {}
    <3>1. PICK k \in keys : (\A l \in keys : l <= k) /\ v = r[k + 1].text
      BY <1>13, <2>4 DEF PairsSay
    <3>2. LastOf(keys) = k
      BY <2>2, <3>1, LastIsLast
    <3> HIDE DEF keys
    <3> QED
      BY <2>1, <2>4, <3>1, <3>2
  <2> QED
    BY <2>3, <2>4
<1>14. ValueOf(r, new, "map") = p.map /\ ValueOf(r, new, "longname") = p.longname
  BY <1>10, <1>13
<1>15. \A key : \A e \in EntriesOf(s) : ValueOf(r, e, key) = ValueOf(s, e, key)
  BY <1>1, <1>2, ValuesStay
<1>16. new[1] = b /\ new[2] = m
  OBVIOUS
<1> HIDE DEF new
<1>17. /\ MineOf(r) = MineOf(s) \cup (IF p.map = "folder" THEN {new} ELSE {})
       /\ MineOf(s) \subseteq EntriesOf(s)
  BY <1>7, <1>14, <1>15 DEF MineOf
<1>18. FirstFound(r, q)
  <2>1. CASE p.found
    <3>1. PICK e \in MineOf(s) : /\ \A f \in MineOf(s) : e[1] <= f[1]
                                 /\ p.selectedName = ValueOf(s, e, "longname")
      BY <1>2, <2>1 DEF FirstFound
    <3>2. e \in MineOf(r) /\ \A f \in MineOf(r) : e[1] <= f[1]
      BY <1>11, <1>16, <1>17, <3>1
    <3>3. q.found /\ q.selectedName = ValueOf(r, e, "longname")
      BY <1>4, <1>15, <1>17, <2>1, <3>1
    <3> QED
      BY <3>2, <3>3 DEF FirstFound
  <2>2. CASE ~ p.found /\ p.map = "folder"
    <3>1. MineOf(s) = {}
      BY <1>2, <2>2 DEF FirstFound
    <3>2. MineOf(r) = {new}
      BY <1>17, <2>2, <3>1
    <3>3. q.found /\ q.selectedName = ValueOf(r, new, "longname") /\ new[1] <= new[1]
      <4>1. q.found
        BY <1>4, <2>2
      <4>2. q.selectedName = p.longname
        BY <1>4, <2>2
      <4>3. new[1] <= new[1]
        BY <1>5, <1>16
      <4> QED
        BY <1>14, <4>1, <4>2, <4>3
    <3> QED
      BY <3>2, <3>3 DEF FirstFound
  <2>3. CASE ~ p.found /\ p.map # "folder"
    <3>1. MineOf(r) = {}
      BY <1>2, <1>17, <2>3 DEF FirstFound
    <3>2. ~ q.found
      BY <1>4, <2>3
    <3> QED
      BY <3>1, <3>2 DEF FirstFound
  <2> QED
    BY <1>2, <2>1, <2>2, <2>3
<1>19. InEntries(r, Len(r) + 1)
  <2> SUFFICES ASSUME NEW k \in DOMAIN r
               PROVE  \E e \in EntriesOf(r) : k \in e[1]..e[2]
    BY DEF InEntries
  <2>1. CASE k < b
    BY <1>9, <2>1 DEF InEntries
  <2>2. CASE ~ (k < b)
    <3>1. k \in b..m
      BY <1>5, <2>2
    <3> HIDE DEF m
    <3> QED
      BY <1>7, <1>16, <3>1
  <2> QED
    BY <2>1, <2>2
<1>20. Between(r, q)
  BY <1>4, <1>5, <1>19 DEF Between
<1> QED
  BY <1>4, <1>5, <1>18, <1>20 DEF ArenaRead

LEMMA TokenRead ==
  ASSUME NEW s, NEW p, ArenaRead(s, p), p.ok, NEW t \in Tokens, NEW r, r = Append(s, t),
         NEW q, q = ParseToken(p, t)
  PROVE  ArenaRead(r, q)
<1>1. s \in Seq(Tokens) /\ p \in Parses /\ p.entry \in BOOLEAN
  BY DEF ArenaRead, Parses
<1>2. q \in Parses
  BY <1>1, ParseTokenReads
<1>3. t \in {OpenBrace, CloseBrace, Unfinished} \/ t \in WordTokens
  BY TokensApart
<1>4. CASE t = Unfinished
  <2>1. ~ q.ok /\ t # CloseBrace
    BY <1>1, <1>4, ParseTokenReads, TokensApart
  <2>2. \A e \in EntriesOf(r) : e[2] # Len(r)
    BY <1>1, <2>1, OnlyClosingEnds
  <2> QED
    BY <1>1, <1>2, <2>1, <2>2, RefusedRead
<1>5. CASE ~ p.entry /\ t = OpenBrace
  BY <1>5, EntryBegins
<1>6. CASE ~ p.entry /\ t # OpenBrace
  <2>1. ~ q.ok
    BY <1>1, <1>6, ParseTokenReads
  <2>2. Between(s, p)
    BY <1>6 DEF ArenaRead
  <2>3. CASE t = CloseBrace
    <3>1. \A e \in EntriesOf(r) : e[2] # Len(r)
      BY <1>1, <2>2, <2>3, BetweenEndsNothing
    <3> QED
      BY <1>1, <1>2, <2>1, <3>1, RefusedRead
  <2>4. CASE t # CloseBrace
    <3>1. \A e \in EntriesOf(r) : e[2] # Len(r)
      BY <1>1, <2>4, OnlyClosingEnds
    <3> QED
      BY <1>1, <1>2, <2>1, <3>1, RefusedRead
  <2> QED
    BY <2>3, <2>4
<1>7. CASE p.entry /\ p.key = NoKey /\ t = CloseBrace
  BY <1>7, EntryEnds
<1>8. CASE p.entry /\ p.key = NoKey /\ t \in WordTokens /\ t.text # NoText
  BY <1>8, KeyRead
<1>9. CASE p.entry /\ (t = OpenBrace \/ (p.key = NoKey /\ t \in WordTokens /\ t.text = NoText))
  <2>1. ~ q.ok /\ t # CloseBrace
    BY <1>1, <1>9, ParseTokenReads, TokensApart
  <2>2. \A e \in EntriesOf(r) : e[2] # Len(r)
    BY <1>1, <2>1, OnlyClosingEnds
  <2> QED
    BY <1>1, <1>2, <2>1, <2>2, RefusedRead
<1>10. CASE p.entry /\ p.key # NoKey /\ t \in WordTokens
  BY <1>10, ValueRead
<1>11. CASE p.entry /\ p.key # NoKey /\ t = CloseBrace
  <2>1. ~ q.ok
    BY <1>1, <1>11, ParseTokenReads
  <2>2. PICK b \in DOMAIN s : Within(s, p, b)
    BY <1>11 DEF ArenaRead
  <2>3. OpenAt(s, b) /\ (Len(s) - b) % 2 # 0
    BY <1>11, <2>2 DEF Within
  <2>4. EntriesOf(r) = EntriesOf(s)
    BY <1>1, <1>11, <2>3, ClosingEndsOpen
  <2>5. Len(r) = Len(s) + 1 /\ Len(s) \in Nat
    BY <1>1
  <2>6. \A e \in EntriesOf(s) : e[2] \in 1..Len(s)
    BY <1>1, EntriesAre
  <2>7. \A e \in EntriesOf(r) : e[2] # Len(r)
    BY <2>4, <2>5, <2>6
  <2> QED
    BY <1>1, <1>2, <2>1, <2>7, RefusedRead
<1> QED
  BY <1>1, <1>3, <1>4, <1>5, <1>6, <1>7, <1>8, <1>9, <1>10, <1>11

LEMMA ArenaStarts ==
  ArenaRead(<<>>, ArenaStart)
<1>1. /\ ArenaStart.ok = TRUE /\ ArenaStart.entry = FALSE /\ ArenaStart.key = NoKey /\ ArenaStart.map = NoText
      /\ ArenaStart.longname = NoText /\ ArenaStart.found = FALSE /\ ArenaStart.selectedName = NoText
      /\ ArenaStart \in Parses
  BY DEF ArenaStart, Parses
<1>2. <<>> \in Seq(Tokens)
  OBVIOUS
<1>3. DOMAIN <<>> = {}
  OBVIOUS
<1>4. EntriesOf(<<>>) = {}
  BY <1>3 DEF EntriesOf
<1>5. MineOf(<<>>) = {}
  BY <1>4 DEF MineOf
<1>6. Between(<<>>, ArenaStart)
  BY <1>1, <1>3 DEF Between, InEntries
<1> QED
  BY <1>1, <1>2, <1>5, <1>6 DEF ArenaRead, FirstFound

MetadataInv == ArenaRead(arena, arenaParse) /\ JsonInv

LEMMA MetadataStep ==
  ASSUME MetadataInv, ArenaNext \/ JsonNext
  PROVE  MetadataInv'
<1>1. ASSUME UNCHANGED jsonVars
      PROVE  JsonInv'
  BY <1>1 DEF MetadataInv, JsonInv, jsonVars, LastSays, FieldsAt
<1>2. ASSUME UNCHANGED arenaVars
      PROVE  ArenaRead(arena, arenaParse)'
  BY <1>2 DEF MetadataInv, arenaVars
<1>3. CASE ReadArena /\ UNCHANGED jsonVars
  <2>1. PICK t \in Tokens : arena' = Append(arena, t) /\ arenaParse' = ParseToken(arenaParse, t)
    BY <1>3 DEF ReadArena
  <2>2. arenaParse.ok /\ ArenaRead(arena, arenaParse)
    BY <1>3 DEF ReadArena, MetadataInv
  <2>3. ArenaRead(arena', arenaParse')
    BY <2>1, <2>2, TokenRead
  <2> QED
    BY <1>1, <1>3, <2>3 DEF MetadataInv
<1>4. CASE NextArena /\ UNCHANGED jsonVars
  <2>1. ArenaRead(arena', arenaParse')
    BY <1>4, ArenaStarts DEF NextArena
  <2> QED
    BY <1>1, <1>4, <2>1 DEF MetadataInv
<1>5. CASE ReadJson /\ UNCHANGED arenaVars
  BY <1>2, <1>5, ReadJsonActs DEF MetadataInv
<1>6. CASE NextJson /\ UNCHANGED arenaVars
  <2>1. json' = <<>> /\ containers' = <<>> /\ jsonParse' = JsonStart
    BY <1>6 DEF NextJson
  <2>2. (json = <<>> /\ containers = <<>> /\ jsonParse = JsonStart => JsonInv)'
    BY JsonStarts, PTL
  <2> QED
    BY <1>2, <1>6, <2>1, <2>2 DEF MetadataInv
<1> QED
  BY <1>3, <1>4, <1>5, <1>6 DEF ArenaNext, JsonNext

(* Whatever an arena file and a json file hold, and wherever they end,     *)
(* each map is listed under the name that its files give it: the parsers   *)
(* agree with what the files mean.                                         *)
THEOREM MapsNamedAsWritten == MetadataSpec => []NamesAsWritten
<1>1. MetadataInit => MetadataInv
  BY ArenaStarts, JsonStarts DEF MetadataInit, MetadataInv
<1>2. MetadataInv /\ [ArenaNext \/ JsonNext]_<<arenaVars, jsonVars>> => MetadataInv'
  <2>1. MetadataInv /\ UNCHANGED <<arenaVars, jsonVars>> => MetadataInv'
    BY DEF MetadataInv, JsonInv, arenaVars, jsonVars, LastSays, FieldsAt
  <2> QED
    BY <2>1, MetadataStep
<1>3. MetadataInv => NamesAsWritten
  BY ArenaSaysName, JsonSaysName DEF MetadataInv, NamesAsWritten
<1> QED
  BY <1>1, <1>2, <1>3, PTL DEF MetadataSpec
=============================================================================
