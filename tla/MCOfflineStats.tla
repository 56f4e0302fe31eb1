---------------------------- MODULE MCOfflineStats ----------------------------
(***************************************************************************)
(* The offline stats of T4 and of IW3: two profiles and nobody come and go *)
(* in the middle of games.  Only IW3's engine reads stats again when the   *)
(* connection to Live changes.                                             *)
(*                                                                         *)
(* What unlockstats does with string tables is a part of its own: up to    *)
(* four rows, which hold two challenges of two tiers, and two controllers;  *)
(* ranks below and beyond the compiled-in one; tables that are not found.   *)
(***************************************************************************)
EXTENDS OfflineStats

CONSTANT NoNumber

VARIABLES part, tables, subject, ranks, attachments, items, challenges, allChallenges, inGame, unlocked, done
unlockVars == <<tables, subject, ranks, attachments, items, challenges, allChallenges, inGame, unlocked, done>>
Unlock == INSTANCE StatsUnlock
  WITH title <- tables, stats <- unlocked, Controllers <- {0, 1}, ChallengeStats <- 701..704, Ranks <- 1..4,
       Targets <- 2..3, Experience <- 1..5, MaxRows <- 4,
       DefaultRank <- [t \in {"t4", "iw3", "iw4"} |-> [rank |-> 2, min |-> 2, max |-> 3]]

MCInit ==
  /\ part \in {"profiles", "unlock"}
  /\ Init /\ Unlock!Init
  /\ IF part = "unlock" THEN title = "t4" /\ user = Nobody /\ ~diskFails
     ELSE tables = "t4" /\ subject = "ranks"
MCNext ==
  /\ \/ part = "profiles" /\ Next /\ UNCHANGED unlockVars
     \/ part = "unlock" /\ Unlock!Next /\ UNCHANGED <<vars, tables>>
  /\ UNCHANGED part
MCSpec == MCInit /\ [][MCNext]_<<part, vars, unlockVars>>

(* unlockstats completes what the tables name, for one controller, once    *)
(* and for all (iw3/mp/components/stats.cpp:311, t4/mp's :159).              *)
UnlocksEverything == Unlock!UnlocksEverything
=============================================================================
