----------------------------- MODULE UsermapMenu -----------------------------
(***************************************************************************)
(* The custom map browser of T4 SP: t4/sp/components/ui.cpp.  A feeder     *)
(* lists the directories of usermaps, the selected row fills dvars that    *)
(* the menu shows and is painted into one preview image, whose own pixels  *)
(* are kept to be put back, and a dvar set by the menu has the next        *)
(* UI_Refresh activate the row.  Rows are counted from 0.                  *)
(***************************************************************************)
EXTENDS Integers, Sequences, FiniteSets

CONSTANTS
  Name,     \* names of directories, finitely many
  NoName,     \* none of the others
  Stock,    \* a map of the game
  Shown,    \* display names, as places in their order
  Images,   \* where the preview image may be loaded
  Words,    \* of arena files: "map", "longname", the map's "folder", others
  MaxPairs, MaxEntries, MaxTokens  \* bounds: of an arena file, of a json file

ASSUME UsermapMenuAssumption ==
  /\ IsFiniteSet(Name) /\ Shown \subseteq Nat
  /\ NoName \notin Name \union Images \union {"default"}
  /\ "nokey" \notin Words

(* What a directory can hold: no map, or a map with the name that its      *)
(* arena or json file gives it and a preview that may not be a picture of  *)
(* the image's format and size.                                            *)
NoUsermap == [shown |-> -1, preview |-> "none"]
Contents == [shown : Shown, preview : {"none", "good", "bad"}] \union {NoUsermap}

VARIABLES
  usermapDisk,                 \* what each directory holds
  usermaps, selectedUsermap, usermapsScanned,
  details,              \* ui_codxe_usermap_name, _has_preview and the others
  image, pixels,        \* where the preview image is, and what it shows
  previewImage, defaultPreviewPixels,
  ui_mapname, active, mapname,  \* ui_mapname, ui_codxe_usermap_active, _mapname
  activate,             \* ui_codxe_usermap_activate
  browsing,                 \* the menu is open
  asked,                \* the map the menu showed when it set activate, or NoName
  arena, arenaParse,    \* the arena file of a map, as far as it is read, and arena::Parse
  json, containers, jsonParse  \* its json file, the objects it is in, and ReadJsonMetadata

usermapVars == <<usermaps, selectedUsermap, usermapsScanned>>
imageVars == <<image, pixels, previewImage, defaultPreviewPixels>>
lobbyVars == <<ui_mapname, active, mapname>>
arenaVars == <<arena, arenaParse>>
jsonVars == <<json, containers, jsonParse>>
browserVars == <<usermapDisk, usermapVars, details, imageVars, lobbyVars, activate, browsing, asked>>

Present == {n \in Name : usermapDisk[n] # NoUsermap}

NoDetails == [name |-> NoName, shown |-> -1, hasPreview |-> FALSE]

(* The row that is selected, if it is one.                                 *)
IsRow(row, maps) == row >= 0 /\ row < Len(maps)
Highlighted == IF IsRow(selectedUsermap, usermaps) THEN usermaps[selectedUsermap + 1].name ELSE NoName

-----------------------------------------------------------------------------
(* Preview *)

(* With no image there is no storage to write.  A different image loses    *)
(* the pixels that were kept of the old one.                               *)
GetPreviewImage ==
  /\ previewImage' = image

KeptPixels == IF previewImage = image THEN defaultPreviewPixels ELSE NoName

(* ReplacePreview of the file of an entry: whether it could, what the      *)
(* image shows then, and the pixels kept, also when the file is refused.   *)
CanReplace(entry) == image # NoName /\ entry.hasPath /\ usermapDisk[entry.name].preview = "good"
KeptAfter(entry) ==
  IF entry.hasPath /\ image # NoName /\ KeptPixels = NoName THEN pixels ELSE KeptPixels

(* RestoreDefaultPreview: nothing was kept as long as nothing was painted. *)
Restored(kept) == IF image # NoName /\ kept # NoName THEN kept ELSE pixels

PaintEntry(entry) ==
  /\ pixels' = IF CanReplace(entry) THEN entry.name ELSE Restored(KeptAfter(entry))
  /\ defaultPreviewPixels' = KeptAfter(entry)
  /\ GetPreviewImage

(* UpdateSelectedUsermap for a row of a list.                              *)
UpdateSelectedUsermap(row, maps) ==
  /\ UNCHANGED image
  /\ IF IsRow(row, maps)
     THEN LET entry == maps[row + 1] IN
          /\ details' = [name |-> entry.name, shown |-> entry.shown, hasPreview |-> CanReplace(entry)]
          /\ PaintEntry(entry)
     ELSE /\ details' = NoDetails
          /\ pixels' = Restored(KeptPixels)
          /\ defaultPreviewPixels' = KeptPixels
          /\ GetPreviewImage

-----------------------------------------------------------------------------
(* List *)

Entries == {[name |-> n, shown |-> usermapDisk[n].shown,
             hasPath |-> usermapDisk[n].preview # "none"] : n \in Present}

(* What std::sort may leave: display names need not be unique.             *)
UsermapListings ==
  {s \in [1..Cardinality(Entries) -> Entries] :
     \A i, j \in DOMAIN s : i < j => s[i] # s[j] /\ s[i].shown <= s[j].shown}

RowOf(name, maps) ==
  IF \E i \in DOMAIN maps : maps[i].name = name
  THEN (CHOOSE i \in DOMAIN maps : maps[i].name = name) - 1 ELSE 0

(* The name a scan looks for.                                              *)
SelectedName == IF Highlighted # NoName THEN Highlighted ELSE ui_mapname

ScanUsermaps ==
  \E maps \in UsermapListings :
     /\ usermaps' = maps
     /\ selectedUsermap' = RowOf(SelectedName, maps)
     /\ usermapsScanned' = TRUE
     /\ UpdateSelectedUsermap(RowOf(SelectedName, maps), maps)

-----------------------------------------------------------------------------
(* Hooks *)

(* Menus_OpenByName_Hook, before the menu opens.                           *)
OpenBrowser ==
  /\ ~browsing /\ ~activate
  /\ browsing' = TRUE
  /\ ScanUsermaps
  /\ UNCHANGED <<usermapDisk, lobbyVars, activate, asked>>

(* UI_FeederCount_Hook and UI_FeederItemText_Hook draw the list; the menu  *)
(* has been opened, so that it was scanned.  UI_FeederSelection_Hook.      *)
UI_FeederSelection(row) ==
  /\ browsing /\ IsRow(row, usermaps)
  /\ selectedUsermap' = row
  /\ UpdateSelectedUsermap(row, usermaps)
  /\ UNCHANGED <<usermapDisk, usermaps, usermapsScanned, lobbyVars, activate, browsing, asked>>

(* The menu's double click: set activate, close.                           *)
DoubleClick ==
  /\ browsing
  /\ activate' = TRUE /\ browsing' = FALSE
  /\ asked' = details.name
  /\ UNCHANGED <<usermapDisk, usermapVars, details, imageVars, lobbyVars>>

CloseBrowser ==
  /\ browsing
  /\ browsing' = FALSE
  /\ UNCHANGED <<usermapDisk, usermapVars, details, imageVars, lobbyVars, activate, asked>>

Activated(name) == ui_mapname' = name /\ mapname' = name /\ active' = TRUE

ActivateRow(row, maps) ==
  IF IsRow(row, maps) THEN Activated(maps[row + 1].name) ELSE UNCHANGED lobbyVars

(* Mutant: the directory is always scanned first.                          *)
ActivateRescan == ScanUsermaps /\ ActivateRow(selectedUsermap', usermaps')

ActivateSelectedUsermap ==
  /\ IF usermapsScanned THEN UNCHANGED <<usermapVars, details, imageVars>> ELSE ScanUsermaps
  /\ ActivateRow(selectedUsermap', usermaps')

(* UI_Refresh_Hook                                                         *)
UI_Refresh ==
  /\ activate
  /\ activate' = FALSE /\ asked' = NoName
  /\ ActivateSelectedUsermap
  /\ UNCHANGED <<usermapDisk, browsing>>

-----------------------------------------------------------------------------
(* Surroundings *)

(* A player can set the dvar in the console, with no menu opened before.   *)
SetByConsole ==
  /\ ~activate
  /\ activate' = TRUE /\ asked' = NoName
  /\ UNCHANGED <<usermapDisk, usermapVars, details, imageVars, lobbyVars, browsing>>

ChangeMaps ==
  /\ \E n \in Name, c \in Contents : usermapDisk' = [usermapDisk EXCEPT ![n] = c]
  /\ UNCHANGED <<usermapVars, details, imageVars, lobbyVars, activate, browsing, asked>>

(* settings.menu, when a map of the game is chosen.                        *)
ChooseStockMap ==
  /\ ~browsing /\ ~activate
  /\ ui_mapname' = Stock /\ active' = FALSE
  /\ UNCHANGED <<usermapDisk, usermapVars, details, imageVars, mapname, activate, browsing, asked>>

(* The zone of the image is loaded or freed, when no menu is open; loaded, *)
(* it shows its own pixels.                                                *)
ReloadZone ==
  /\ ~browsing
  /\ image' \in Images \union {NoName}
  /\ pixels' = "default"
  /\ UNCHANGED <<usermapDisk, usermapVars, details, previewImage, defaultPreviewPixels, lobbyVars,
                 activate, browsing, asked>>

(* ~ui, and the game with its dvars.                                       *)
RelaunchBrowser ==
  /\ usermaps' = <<>> /\ selectedUsermap' = 0 /\ usermapsScanned' = FALSE
  /\ previewImage' = NoName /\ defaultPreviewPixels' = NoName
  /\ details' = NoDetails
  /\ image' = NoName /\ pixels' = "default"
  /\ ui_mapname' = Stock /\ active' = FALSE /\ mapname' = NoName
  /\ activate' = FALSE /\ browsing' = FALSE /\ asked' = NoName
  /\ UNCHANGED usermapDisk

BrowserInit ==
  /\ usermapDisk \in [Name -> Contents]
  /\ usermaps = <<>> /\ selectedUsermap = 0 /\ usermapsScanned = FALSE
  /\ previewImage = NoName /\ defaultPreviewPixels = NoName
  /\ details = NoDetails
  /\ image = NoName /\ pixels = "default"
  /\ ui_mapname = Stock /\ active = FALSE /\ mapname = NoName
  /\ activate = FALSE /\ browsing = FALSE /\ asked = NoName

BrowserNext ==
  \/ OpenBrowser \/ (\E row \in 0..Len(usermaps) - 1 : UI_FeederSelection(row))
  \/ DoubleClick \/ CloseBrowser \/ UI_Refresh \/ SetByConsole
  \/ ChangeMaps \/ ChooseStockMap \/ ReloadZone \/ RelaunchBrowser

BrowserSpec == BrowserInit /\ [][BrowserNext]_browserVars

-----------------------------------------------------------------------------
(* What a map is called: map.arena, or else map.json, or else its          *)
(* directory.  A file may end at any token.                                *)

NoText == ""

(* Tokens::Next gives braces, words and words in quotes; comments are      *)
(* skipped, and one without an end, or a quote, ends the file as broken.   *)
OpenBrace == [text |-> "brace", quoted |-> FALSE]
CloseBrace == [text |-> "closing", quoted |-> FALSE]
WordTokens == [text : Words, quoted : {TRUE}]
Unfinished == [text |-> "unfinished", quoted |-> FALSE]
Tokens == {OpenBrace, CloseBrace, Unfinished} \union WordTokens

NoKey == "nokey"
Refused == "refused"

(* Mutant: what the last entry said is not forgotten. *)
BetweenEntriesKeep(p, t) ==
  IF t = OpenBrace THEN [p EXCEPT !.entry = TRUE] ELSE [p EXCEPT !.ok = FALSE]

(* One token of arena::Parse: between entries, at a key, at a value.       *)
BetweenEntries(p, t) ==
  IF t = OpenBrace THEN [p EXCEPT !.entry = TRUE, !.map = NoText, !.longname = NoText]
  ELSE [p EXCEPT !.ok = FALSE]

(* The first entry of the map counts.                                      *)
EndEntry(p) ==
  IF ~p.found /\ p.map = "folder"
  THEN [p EXCEPT !.entry = FALSE, !.found = TRUE, !.selectedName = p.longname]
  ELSE [p EXCEPT !.entry = FALSE]

AtKey(p, t) ==
  CASE t = CloseBrace -> EndEntry(p)
    [] t = OpenBrace \/ t.text = NoText -> [p EXCEPT !.ok = FALSE]
    [] OTHER -> [p EXCEPT !.key = t.text]

AtValue(p, t) ==
  IF t \in {OpenBrace, CloseBrace} THEN [p EXCEPT !.ok = FALSE]
  ELSE CASE p.key = "map" -> [p EXCEPT !.key = NoKey, !.map = t.text]
         [] p.key = "longname" -> [p EXCEPT !.key = NoKey, !.longname = t.text]
         [] OTHER -> [p EXCEPT !.key = NoKey]

ParseToken(p, t) ==
  CASE t = Unfinished -> [p EXCEPT !.ok = FALSE]
    [] t # Unfinished /\ ~p.entry -> BetweenEntries(p, t)
    [] t # Unfinished /\ p.entry /\ p.key = NoKey -> AtKey(p, t)
    [] OTHER -> AtValue(p, t)

(* arena::Parse, if the file ends here.                                    *)
ArenaName(p) == IF p.ok /\ ~p.entry /\ p.found THEN p.selectedName ELSE Refused

ReadArena ==
  /\ arenaParse.ok
  /\ \E t \in Tokens :
       /\ arena' = Append(arena, t)
       /\ arenaParse' = ParseToken(arenaParse, t)
       /\ t = OpenBrace => Cardinality({i \in DOMAIN arena : arena[i] = OpenBrace}) < MaxEntries
       /\ t \in WordTokens => \E i \in DOMAIN arena :
                               i + 2 * MaxPairs > Len(arena) /\ arena[i] = OpenBrace

(* The reader gives the tokens of well-formed files, up to where they end: *)
(* a field with what it holds, which may begin an object or an array, or   *)
(* such a beginning or end alone.                                          *)
Values == {"object", "array", "1", "2", "x", "y"}
Numbers == {"1", "2"}
Strings == {"x", "y"}

ReadField(p, t) ==
  CASE t.value \in {"object", "array"} -> [p EXCEPT !.depth = @ + 1]
    [] t.value \notin {"object", "array"} /\ p.depth # 1 -> p
    [] t.field = "version" /\ t.value \in Numbers /\ p.depth = 1 -> [p EXCEPT !.version = t.value]
    [] t.field = "name" /\ t.value \in Strings /\ p.depth = 1 -> [p EXCEPT !.displayName = t.value]
    [] OTHER -> p

ReadToken(p, t) ==
  CASE t.field = NoText /\ t.value \in {"object", "array"} -> [p EXCEPT !.depth = @ + 1]
    [] t.field = NoText /\ t.value = "end" -> [p EXCEPT !.depth = @ - 1]
    [] OTHER -> ReadField(p, t)

(* ReadJsonMetadata, at the end of a file that is complete; of others the  *)
(* name is cleared.                                                        *)
JsonName(p) == IF containers = <<>> /\ p.version = "1" THEN p.displayName ELSE NoText

JsonToken(field, value) ==
  /\ json' = Append(json, [field |-> field, value |-> value, inside |-> containers])
  /\ jsonParse' = ReadToken(jsonParse, [field |-> field, value |-> value])

ReadJson ==
  /\ Len(json) < MaxTokens
  /\ \/ /\ json = <<>> \/ (containers # <<>> /\ Head(containers) = "array")
        /\ \E c \in {"object", "array"} :
             JsonToken(NoText, c) /\ containers' = <<c>> \o containers
     \/ /\ containers # <<>> /\ Head(containers) = "object"
        /\ \E field \in {"version", "name"}, v \in Values :
             /\ JsonToken(field, v)
             /\ containers' = IF v \in {"object", "array"} THEN <<v>> \o containers ELSE containers
     \/ containers # <<>> /\ JsonToken(NoText, "end") /\ containers' = Tail(containers)

ArenaStart == [ok |-> TRUE, entry |-> FALSE, key |-> NoKey, map |-> NoText, longname |-> NoText,
               found |-> FALSE, selectedName |-> NoText]
JsonStart == [depth |-> 0, version |-> "0", displayName |-> NoText]

(* The scan goes on to the next map.                                       *)
NextArena == arena # <<>> /\ arena' = <<>> /\ arenaParse' = ArenaStart
NextJson == json # <<>> /\ json' = <<>> /\ containers' = <<>> /\ jsonParse' = JsonStart

MetadataInit ==
  /\ arena = <<>> /\ arenaParse = ArenaStart
  /\ json = <<>> /\ containers = <<>> /\ jsonParse = JsonStart

ArenaNext == (ReadArena \/ NextArena) /\ UNCHANGED jsonVars
JsonNext == (ReadJson \/ NextJson) /\ UNCHANGED arenaVars

MetadataSpec == MetadataInit /\ [][ArenaNext \/ JsonNext]_<<arenaVars, jsonVars>>

-----------------------------------------------------------------------------
(* Properties *)

BrowserTypes ==
  /\ usermapDisk \in [Name -> Contents]
  /\ usermaps \in Seq([name : Name, shown : Shown, hasPath : BOOLEAN])
  /\ IsRow(selectedUsermap, usermaps) \/ (usermaps = <<>> /\ selectedUsermap = 0)
  /\ details \in [name : Name \union {NoName}, shown : Shown \union {-1}, hasPreview : BOOLEAN]
  /\ {image, previewImage} \subseteq Images \union {NoName}
  /\ {pixels, defaultPreviewPixels} \subseteq Name \union {"default", NoName}
  /\ {ui_mapname, mapname, asked} \subseteq Name \union {Stock, NoName}
  /\ {usermapsScanned, active, activate, browsing} \subseteq BOOLEAN

(* An open menu describes the row that activation would take, and its      *)
(* picture is that map's preview if the menu says it has one, and else the *)
(* image's own, whatever previews were painted and refused before, in this *)
(* image or in one that was unloaded (ui.cpp:229, :293, :363).             *)
DetailsOfHighlighted ==
  browsing =>
    /\ details.name = Highlighted
    /\ image # NoName => pixels = IF details.hasPreview THEN Highlighted ELSE "default"
    /\ defaultPreviewPixels \in {NoName, "default"}

(* What the files mean: an arena file is a sequence of entries of pairs,   *)
(* each key named, and the last longname of the first entry for the map is *)
(* its name; anything else is refused.  A json file is an object with the  *)
(* version and the name as fields of its own (usermap_arena.h:91,          *)
(* ui.cpp:131).                                                            *)
IsEntry(s, i, j) ==
  /\ s[i] = OpenBrace /\ s[j] = CloseBrace /\ (j - i) % 2 = 1
  /\ \A k \in i + 1..j - 1 : s[k] \in WordTokens /\ ((k - i) % 2 = 1 => s[k].text # NoText)
EntriesOf(s) == {e \in (DOMAIN s) \X (DOMAIN s) : e[1] < e[2] /\ IsEntry(s, e[1], e[2])}

LastOf(S) == CHOOSE k \in S : \A l \in S : l <= k
KeysOf(s, e, key) == {k \in e[1] + 1..e[2] - 1 : (k - e[1]) % 2 = 1 /\ s[k].text = key}
ValueOf(s, e, key) ==
  LET keys == KeysOf(s, e, key) IN IF keys = {} THEN NoText ELSE s[LastOf(keys) + 1].text

ArenaMeaning(s) ==
  LET mine == {e \in EntriesOf(s) : ValueOf(s, e, "map") = "folder"}
  IN IF mine # {} /\ \A k \in DOMAIN s : \E e \in EntriesOf(s) : k \in e[1]..e[2]
     THEN ValueOf(s, CHOOSE e \in mine : \A f \in mine : e[1] <= f[1], "longname") ELSE Refused

FieldsAt(s, field, kinds) ==
  {k \in DOMAIN s : s[k].inside = <<"object">> /\ s[k].field = field /\ s[k].value \in kinds}
LastField(s, field, kinds) ==
  LET at == FieldsAt(s, field, kinds) IN IF at = {} THEN NoText ELSE s[LastOf(at)].value
JsonMeaning(s, within) ==
  IF within = <<>> /\ LastField(s, "version", Numbers) = "1" THEN LastField(s, "name", Strings) ELSE NoText

NamesAsWritten ==
  /\ ArenaName(arenaParse) = ArenaMeaning(arena)
  /\ JsonName(jsonParse) = JsonMeaning(json, containers)

(* Opening the menu again finds the map that was highlighted, or with no   *)
(* list the one in the lobby, while it is there (ui.cpp:371, :423), and    *)
(* what is activated, a frame after it was asked for, is the map that was  *)
(* asked for (ui.cpp:567).                                                 *)
ChoiceIsKept ==
  [][/\ ~browsing /\ browsing' /\ SelectedName \in Present
          => Highlighted' = IF Highlighted # NoName THEN Highlighted ELSE ui_mapname
     /\ activate /\ ~activate' /\ usermapsScanned' /\ asked # NoName
          => active' /\ mapname' = asked /\ ui_mapname' = asked]_browserVars

(* An open browser shows the details and the picture of the map that       *)
(* activation would take; rescans keep it, and activation, which comes a   *)
(* frame later, takes the map that was asked for.                          *)
BrowserTakesShown == [](BrowserTypes /\ DetailsOfHighlighted) /\ ChoiceIsKept
=============================================================================
