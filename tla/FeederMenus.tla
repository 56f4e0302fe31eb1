------------------------------ MODULE FeederMenus ------------------------------
(***************************************************************************)
(* The mods menu and the custom map menu of iw3/mp: ModList (mods.cpp),    *)
(* UIFeeder (ui_feeder.cpp) and the mod zone that FastFiles (fastfiles.cpp) *)
(* loads.  Both menus list directories of the data folder, remember a row  *)
(* twice (the row the feeder draws and the row the script uses) and keep   *)
(* these lists in statics of the DLL, which outlive the game they belong   *)
(* to; the feeder's own row does not.  Rows are counted from 0.            *)
(***************************************************************************)
EXTENDS Integers, Sequences, FiniteSets

CONSTANTS
  Entry,     \* names of directories
  None,      \* no mod, no map
  Rank,      \* Rank[e]: place of the display name of e in the sorting order
  Mods, Maps \* the two feeders

Feeder == {Mods, Maps}

ASSUME FeederMenusAssumption ==
  /\ None \notin Entry \cup {Mods, Maps}
  /\ IsFiniteSet(Entry)
  /\ Rank \in [Entry -> Nat]
  /\ Mods # Maps

VARIABLES
  disk,      \* disk[f]: directories a scan of f lists
  withZone,  \* mods whose directory holds mod.ff
  game,      \* "off", "starting" or "running"
  open,      \* the feeder whose menu is open, or None
  painted,   \* the open menu has been drawn
  items,     \* items[f]: Mods, usermaps
  current,   \* current[f]: CurrentMod, selectedUsermap
  scanned,   \* scanned[f]: ModsScanned, usermapsScanned
  selected,  \* selected[f]: UIFeeder::SelectedIndices
  cursor,    \* cursorPos of the open menu's list box, 0 when none is open
  counter,   \* ui_codxe_usermap_counter: <<row + 1, rows>>, or <<>> when empty
  fsGame,    \* fs_game: the active mod, or None
  byHand,    \* fs_game was set by hand since the mod zone was last loaded
  zone,      \* the mod whose mod.ff is loaded, or None
  mapName    \* ui_mapname: the map chosen in the custom map menu, or None

diskVars == <<disk, withZone>>
listVars == <<items, current, scanned>>
uiVars   == <<open, painted, selected, cursor, counter>>
modVars  == <<fsGame, byHand, zone>>
vars == <<diskVars, game, listVars, uiVars, modVars, mapName>>

-----------------------------------------------------------------------------
(* The lists *)

(* What std::sort may leave of S: display names need not be unique. *)
Listings(S) ==
  {s \in [1..Cardinality(S) -> S] :
     \A i, j \in DOMAIN s : i < j => s[i] # s[j] /\ Rank[s[i]] <= Rank[s[j]]}

(* The name a feeder's script would use now. *)
Chosen(f) == IF current[f] < Len(items[f]) THEN items[f][current[f] + 1] ELSE None

(* The row a rescan selects: the same name if it is still there. *)
KeptRow(name, s) ==
  IF \E i \in DOMAIN s : s[i] = name THEN (CHOOSE i \in DOMAIN s : s[i] = name) - 1 ELSE 0

(* UpdateUsermapCounter *)
CounterFor(row, s) == IF s = <<>> THEN <<>> ELSE <<row + 1, Len(s)>>

(* Mutant: the list is rebuilt, the feeder keeps its old row.              *)
ScanKeepSelected(f) ==
  \E s \in Listings(disk[f]) :
     LET row == KeptRow(Chosen(f), s) IN
     /\ items' = [items EXCEPT ![f] = s]
     /\ current' = [current EXCEPT ![f] = row]
     /\ scanned' = [scanned EXCEPT ![f] = TRUE]
     /\ selected' = selected
     /\ counter' = IF f = Maps THEN CounterFor(row, s) ELSE counter

(* Mutant: the row is kept, not the name.                                  *)
ScanKeepRow(f) ==
  \E s \in Listings(disk[f]) :
     LET row == IF current[f] < Len(s) THEN current[f] ELSE 0 IN
     /\ items' = [items EXCEPT ![f] = s]
     /\ current' = [current EXCEPT ![f] = row]
     /\ scanned' = [scanned EXCEPT ![f] = TRUE]
     /\ selected' = [selected EXCEPT ![f] = row]
     /\ counter' = IF f = Maps THEN CounterFor(row, s) ELSE counter

(* ModList::ScanMods and ScanUsermaps *)
Scan(f) ==
  \E s \in Listings(disk[f]) :
     LET row == KeptRow(Chosen(f), s) IN
     /\ items' = [items EXCEPT ![f] = s]
     /\ current' = [current EXCEPT ![f] = row]
     /\ scanned' = [scanned EXCEPT ![f] = TRUE]
     /\ selected' = [selected EXCEPT ![f] = row]
     /\ counter' = IF f = Maps THEN CounterFor(row, s) ELSE counter

-----------------------------------------------------------------------------
(* The mod zone *)

(* FastFiles::HasModFastfile for the mod m: its path resolves and exists. *)
HasModFastfile(m) == m # None /\ m \in disk[Mods] /\ m \in withZone

(* FastFiles::ReloadModZone: free what DB_ZONE_MOD holds, then load. *)
ReloadModZone(m) == zone' = IF HasModFastfile(m) THEN m ELSE None

-----------------------------------------------------------------------------
(* The game's life *)

(* The constructors run UIFeeder::Add; the lists of an earlier game remain. *)
StartGame ==
  /\ game = "off"
  /\ game' = "starting"
  /\ selected' = [f \in Feeder |-> 0]
  /\ UNCHANGED <<diskVars, listVars, open, painted, cursor, counter, modVars, mapName>>

(* OnDvarInit, fs_game from the archived configuration, and the first batch *)
(* of zones, to which DB_LoadXAssets_Hook adds the mod's.                  *)
LoadInitialZones ==
  /\ game = "starting"
  /\ game' = "running"
  /\ \E m \in Entry \cup {None} :
       /\ fsGame' = m
       /\ zone' = IF HasModFastfile(m) THEN m ELSE None
  /\ byHand' = FALSE
  /\ counter' = <<>>
  /\ UNCHANGED <<diskVars, listVars, open, painted, selected, cursor, mapName>>

(* The title goes; ~UIFeeder clears the feeders, ModList has no destructor. *)
Terminate ==
  /\ game # "off"
  /\ game' = "off"
  /\ open' = None /\ painted' = FALSE /\ cursor' = 0
  /\ selected' = [f \in Feeder |-> 0]
  /\ fsGame' = None /\ byHand' = FALSE /\ zone' = None
  /\ mapName' = None
  /\ UNCHANGED <<diskVars, listVars, counter>>

Toggle(S, e) == (S \ {e}) \cup ({e} \ S)

(* Directories and their files come and go at any time. *)
ChangeDisk ==
  /\ \E e \in Entry :
       \/ /\ \E f \in Feeder : disk' = [disk EXCEPT ![f] = Toggle(@, e)]
          /\ UNCHANGED withZone
       \/ /\ withZone' = Toggle(withZone, e)
          /\ UNCHANGED disk
  /\ UNCHANGED <<game, listVars, uiVars, modVars, mapName>>

(* fs_game set at the console: nothing reloads. *)
SetByHand ==
  /\ game = "running"
  /\ fsGame' \in Entry \cup {None}
  /\ byHand' = TRUE
  /\ UNCHANGED <<diskVars, game, listVars, uiVars, zone, mapName>>

-----------------------------------------------------------------------------
(* The menus *)

(* onOpen runs LoadMods or LoadUsermaps. *)
OpenMenu(f) ==
  /\ game = "running" /\ open = None
  /\ open' = f /\ painted' = FALSE
  /\ cursor' = 0
  /\ Scan(f)
  /\ UNCHANGED <<diskVars, game, modVars, mapName>>

(* UI_FeederCount_Hook: out of range rows become the first. *)
Paint ==
  /\ open # None
  /\ painted' = TRUE
  /\ LET row == IF selected[open] < Len(items[open]) THEN selected[open] ELSE 0 IN
     /\ selected' = [selected EXCEPT ![open] = row]
     /\ cursor' = row
  /\ UNCHANGED <<diskVars, game, listVars, open, counter, modVars, mapName>>

(* Item_ListBox_SetCursorPos and the UI_FeederSelection_Hook it runs into, *)
(* with ModList::Select and SelectUsermap.                                 *)
SelectRow(row) ==
  /\ cursor' = row
  /\ selected' = [selected EXCEPT ![open] = row]
  /\ current' = [current EXCEPT ![open] = row]
  /\ counter' = IF open = Maps THEN CounterFor(row, items[open]) ELSE counter

(* The mouse, or a page key: any row of the list. *)
PickRow ==
  /\ open # None /\ painted
  /\ \E row \in 0..(Len(items[open]) - 1) : SelectRow(row)
  /\ UNCHANGED <<diskVars, game, items, scanned, open, painted, modVars, mapName>>

(* Item_ListBox_Scroll_Hook: the list wraps at both ends. *)
Scroll(delta) ==
  LET max == Len(items[open]) - 1 IN
  /\ open # None /\ painted /\ max > 0
  /\ SelectRow(IF delta < 0 /\ cursor = 0 THEN max
               ELSE IF delta > 0 /\ cursor = max THEN 0
               ELSE cursor + delta)
  /\ UNCHANGED <<diskVars, game, items, scanned, open, painted, modVars, mapName>>

CloseMenu ==
  /\ open # None
  /\ open' = None /\ painted' = FALSE /\ cursor' = 0
  /\ UNCHANGED <<diskVars, game, listVars, selected, counter, modVars, mapName>>

(* ModList::RunModScript: a mod whose directory is gone is not run. *)
RunMod ==
  /\ open = Mods
  /\ open' = None /\ painted' = FALSE /\ cursor' = 0
  /\ IF Chosen(Mods) \in disk[Mods]
     THEN /\ fsGame' = Chosen(Mods)
          /\ ReloadModZone(Chosen(Mods))
          /\ byHand' = FALSE
     ELSE UNCHANGED modVars
  /\ UNCHANGED <<diskVars, game, listVars, selected, counter, mapName>>

ClearMods ==
  /\ open = Mods /\ fsGame # None
  /\ open' = None /\ painted' = FALSE /\ cursor' = 0
  /\ fsGame' = None
  /\ ReloadModZone(None)
  /\ byHand' = FALSE
  /\ UNCHANGED <<diskVars, game, listVars, selected, counter, mapName>>

(* UIFeeder::ApplyMapScript *)
ApplyMap ==
  /\ open = Maps
  /\ open' = None /\ painted' = FALSE /\ cursor' = 0
  /\ mapName' = IF Chosen(Maps) # None THEN Chosen(Maps) ELSE mapName
  /\ UNCHANGED <<diskVars, game, listVars, selected, counter, modVars>>

-----------------------------------------------------------------------------
Init ==
  /\ disk \in [Feeder -> SUBSET Entry]
  /\ withZone \in SUBSET Entry
  /\ game = "off"
  /\ open = None /\ painted = FALSE
  /\ items = [f \in Feeder |-> <<>>]
  /\ current = [f \in Feeder |-> 0]
  /\ scanned = [f \in Feeder |-> FALSE]
  /\ selected = [f \in Feeder |-> 0]
  /\ cursor = 0
  /\ counter = <<>>
  /\ fsGame = None /\ byHand = FALSE /\ zone = None
  /\ mapName = None

Next ==
  \/ StartGame \/ LoadInitialZones \/ Terminate \/ ChangeDisk \/ SetByHand
  \/ \E f \in Feeder : OpenMenu(f)
  \/ Paint \/ PickRow \/ (\E d \in {-1, 1} : Scroll(d)) \/ CloseMenu
  \/ RunMod \/ ClearMods \/ ApplyMap

Spec == Init /\ [][Next]_vars

-----------------------------------------------------------------------------
(* Properties *)

TypeOK ==
  /\ disk \in [Feeder -> SUBSET Entry] /\ withZone \in SUBSET Entry
  /\ game \in {"off", "starting", "running"}
  /\ open \in Feeder \cup {None} /\ painted \in BOOLEAN
  /\ \A f \in Feeder : items[f] \in Seq(Entry)
  /\ current \in [Feeder -> Nat] /\ scanned \in [Feeder -> BOOLEAN]
  /\ selected \in [Feeder -> Nat] /\ cursor \in Nat
  /\ counter \in Seq(Nat)
  /\ {fsGame, zone, mapName} \subseteq Entry \cup {None}
  /\ byHand \in BOOLEAN
  /\ \A f \in Feeder : current[f] < Len(items[f]) \/ current[f] = 0

(* In an open menu the row drawn as selected, the cursor of the list box   *)
(* and the row that RunMod or ApplyMap takes are one row, although an      *)
(* earlier game may have left its list and its row behind                  *)
(* (mods.cpp:132-137, ui_feeder.cpp:234).                                  *)
DrawnRowIsChosenRow ==
  open # None =>
    /\ selected[open] = current[open]
    /\ painted => cursor = current[open]

(* The custom map counter shows the row the menu has selected.             *)
CounterShowsRow ==
  open = Maps => counter = CounterFor(current[Maps], items[Maps])

(* What an open menu shows is what is chosen.                              *)
MenuShowsChoice == TypeOK /\ DrawnRowIsChosenRow /\ CounterShowsRow

(* The map applied, or the mod run, is the one drawn under the cursor when *)
(* the button was pressed (ui_feeder.cpp:181, mods.cpp:218).               *)
TakesDrawnRow ==
  [][/\ mapName' \notin {mapName, None} /\ painted => mapName' = items[Maps][cursor + 1]
     /\ open = Mods /\ painted /\ fsGame' \notin {fsGame, None} /\ ~byHand'
          => fsGame' = items[Mods][cursor + 1]]_vars

(* The mod zone in memory belongs to the active mod, or none is loaded,    *)
(* unless fs_game was set by hand (fastfiles.cpp:205).                     *)
ZoneOfActiveMod == byHand \/ zone \in {None, fsGame}

(* Opening a menu again keeps the chosen name selected while it is still   *)
(* listed, whatever was added, removed or renamed around it, and never     *)
(* offers what is gone (mods.cpp:167).                                     *)
RescanKeepsChoice ==
  [][\A f \in Feeder : (open = None /\ open' = f) =>
       /\ Chosen(f) \in disk[f] => Chosen(f)' = Chosen(f)
       /\ {items'[f][i] : i \in DOMAIN items'[f]} = disk[f]]_vars

(* What the player chose is what he gets: the row drawn, over every rescan, *)
(* and the zone of no other mod.                                           *)
ChoiceHolds == TakesDrawnRow /\ RescanKeepsChoice /\ []ZoneOfActiveMod
=============================================================================
