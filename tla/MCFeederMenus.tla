----------------------------- MODULE MCFeederMenus -----------------------------
(***************************************************************************)
(* The menus of IW3 (FeederMenus), and in T4 SP the browser of custom maps *)
(* and the files of the map that is played.  They share no state, so a     *)
(* behaviour moves one of them.                                            *)
(*                                                                         *)
(* Two directory names that sort alike, so that a scan may list them       *)
(* either way.  The preview image is loaded at one place, again and again. *)
(* Its files are read up to where they end: arena files of two entries of  *)
(* two pairs, and json files of six tokens.                               *)
(* Two custom maps and one of the game follow one another, with two files  *)
(* open at once.                                                           *)
(***************************************************************************)
EXTENDS FeederMenus, UsermapMenu, UsermapZones, TLC
CONSTANTS a, b, here, h1, h2
MCRank == [e \in Entry |-> 1]

(* Names that sort alike are alike in all, and so are the handles of files. *)
Symmetry == Permutations({a, b}) \cup Permutations({h1, h2})

VARIABLE part

metaVars == <<arenaVars, jsonVars>>

(* The disk starts as it can be in the part that reads it.                 *)
MCInit ==
  /\ part \in {"menus", "browser", "arena", "json", "files", "zones", "pools"}
  /\ Init
  /\ part # "menus" => disk = [f \in Feeder |-> {}] /\ withZone = {}
  /\ BrowserInit /\ MetadataInit
  /\ part # "browser" => usermapDisk = [n \in Name |-> NoUsermap]
  /\ ZonesInit /\ PoolsInit
MCNext ==
  /\ \/ part = "menus" /\ Next /\ UNCHANGED <<browserVars, metaVars, zoneVars, poolVars>>
     \/ part = "browser" /\ BrowserNext /\ UNCHANGED <<vars, metaVars, zoneVars, poolVars>>
     \/ part = "arena" /\ ArenaNext /\ UNCHANGED <<vars, browserVars, zoneVars, poolVars>>
     \/ part = "json" /\ JsonNext /\ UNCHANGED <<vars, browserVars, zoneVars, poolVars>>
     \/ part = "files" /\ FilesNext /\ UNCHANGED <<vars, browserVars, metaVars, poolVars>>
     \/ part = "zones" /\ ZonesNext /\ UNCHANGED <<vars, browserVars, metaVars, poolVars>>
     \/ part = "pools" /\ PoolsNext /\ UNCHANGED <<vars, browserVars, metaVars, zoneVars>>
  /\ UNCHANGED part
MCSpec == MCInit /\ [][MCNext]_<<part, vars, browserVars, metaVars, zoneVars, poolVars>>
=============================================================================
