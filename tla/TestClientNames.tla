---------------------------- MODULE TestClientNames ----------------------------
(***************************************************************************)
(* How addtestclient(<name>) gets its name to the new test client in the   *)
(* five titles that have it.  The engine's SV_AddTestClient takes no name: *)
(* except in IW5, the script function leaves it in a static that a hook    *)
(* reads while the engine connects the client.  Connecting runs the        *)
(* scripts' connect callback, which may call addtestclient again, and may  *)
(* fail because the server is full.                                        *)
(***************************************************************************)
EXTENDS Naturals, Sequences, SequencesExt

CONSTANTS
  Slots,       \* client slots, integers: the engine takes the lowest free one
  Names,       \* names scripts ask for
  NoName,      \* addtestclient(): the engine makes up a name
  MaxDepth,    \* bound: nested calls of addtestclient
  NameTitles,  \* which titles may be running
  NestTitles,  \* titles whose connect callback adds test clients
  DropTitles   \* titles where the engine may drop the server meanwhile

ASSUME TestClientNamesAssumption ==
  /\ Slots \subseteq Nat
  /\ "none" \notin Names \union {NoName}
  /\ NoName \notin Names
  /\ MaxDepth \in Nat
  /\ NameTitles \subseteq {"iw2", "iw3", "iw4", "iw5", "t4"}

VARIABLES
  nameTitle, \* the title that is running
  pending,   \* s_pendingBotName / pendingBotName, NoName when empty
  calls,     \* slots of the calls in progress, the innermost last
  name,      \* per slot: the test client's name, or "none" for a free slot
  asked      \* per slot: what its addtestclient call asked for

nameVars == <<nameTitle, pending, calls, name, asked>>

Free == {c \in Slots : name[c] = "none"}
NextSlot == CHOOSE c \in Free : \A d \in Free : c <= d

NamesInit ==
  /\ nameTitle \in NameTitles
  /\ pending = NoName
  /\ calls = <<>>
  /\ name = [c \in Slots |-> "none"]
  /\ asked = [c \in Slots |-> NoName]

-----------------------------------------------------------------------------
(* GScr_AddTestClient up to SV_AddTestClient: the static's value there.    *)

(* A call without a name leaves the static alone ...                       *)
IW3Request(n) == IF n = NoName THEN pending ELSE n
IW4Request(n) == IF n = NoName THEN pending ELSE n
T4Request(n) == IF n = NoName THEN pending ELSE n
(* ... except that IW2 empties it first, and IW5 has none.                 *)
IW2Request(n) == n
IW5Request(n) == NoName

Request(n) ==
  CASE nameTitle = "iw2" -> IW2Request(n) [] nameTitle = "iw3" -> IW3Request(n)
    [] nameTitle = "iw4" -> IW4Request(n) [] nameTitle = "iw5" -> IW5Request(n)
    [] nameTitle = "t4"  -> T4Request(n)

(* The name the client has when its connect callback runs: IW2's hook of   *)
(* ClientConnect and IW3's and T4's of SV_UserinfoChanged read the static, *)
(* IW5 puts the name in the connect string, IW4 waits for the client.      *)
NameAtConnect(n) ==
  CASE nameTitle = "iw5" -> n
    [] nameTitle = "iw4" -> NoName
    [] nameTitle \notin {"iw4", "iw5"} -> Request(n)

(* After SV_AddTestClient: IW4 names the client now; the static is emptied.*)
IW4NameAtReturn(c) == IF pending # NoName THEN pending ELSE name[c]

NameAtReturn(c) == IF nameTitle = "iw4" THEN IW4NameAtReturn(c) ELSE name[c]

PendingAtReturnKeep == pending  \* mutant: the static is not emptied
PendingAtReturn == NoName

(* A script calls addtestclient, perhaps from the connect callback of      *)
(* another call.                                                           *)
AddTestClient(n) ==
  /\ Len(calls) < MaxDepth
  /\ calls # <<>> => nameTitle \in NestTitles
  /\ IF Free = {}
     THEN /\ pending' = PendingAtReturn
          /\ UNCHANGED <<calls, name, asked>>
     ELSE /\ pending' = Request(n)
          /\ calls' = Append(calls, NextSlot)
          /\ name' = [name EXCEPT ![NextSlot] = NameAtConnect(n)]
          /\ asked' = [asked EXCEPT ![NextSlot] = n]
  /\ UNCHANGED nameTitle

(* The connect callback is over and addtestclient returns the client.      *)
Return ==
  /\ calls # <<>>
  /\ calls' = Front(calls)
  /\ name' = [name EXCEPT ![Last(calls)] = NameAtReturn(Last(calls))]
  /\ pending' = PendingAtReturn
  /\ UNCHANGED <<nameTitle, asked>>

Kick(c) ==
  /\ c \notin Free /\ calls = <<>>
  /\ name' = [name EXCEPT ![c] = "none"]
  /\ UNCHANGED <<nameTitle, pending, calls, asked>>

(* OnVMShutdown: IW2 and IW4 empty the static, IW3 and T4 do not.          *)
PendingAfterShutdown == IF nameTitle \in {"iw2", "iw4"} THEN NoName ELSE pending

(* An engine error leaves every call in progress and shuts the server down.*)
Drop ==
  /\ calls # <<>> /\ nameTitle \in DropTitles
  /\ calls' = <<>>
  /\ name' = [c \in Slots |-> "none"]
  /\ pending' = PendingAfterShutdown
  /\ UNCHANGED <<nameTitle, asked>>

NamesNext ==
  \/ \E n \in Names \union {NoName} : AddTestClient(n)
  \/ Return \/ Drop
  \/ \E c \in Slots : Kick(c)

NamesSpec == NamesInit /\ [][NamesNext]_nameVars

-----------------------------------------------------------------------------
(* Properties *)

(* Types; outside of any call no name is pending, unless an engine error   *)
(* cut a call short in a title that does not clean up after it.            *)
NamesTypeOK ==
  /\ nameTitle \in NameTitles
  /\ pending \in Names \union {NoName}
  /\ calls = <<>> => pending = NoName
  /\ calls \in Seq(Slots) /\ Len(calls) <= MaxDepth
  /\ name \in [Slots -> Names \union {NoName, "none"}]
  /\ asked \in [Slots -> Names \union {NoName}]

Joining == {calls[i] : i \in DOMAIN calls}

Named ==
  /\ \A c \in Slots \ (Free \union Joining) : name[c] = asked[c]
  /\ nameTitle # "iw4" => \A c \in Joining : name[c] = asked[c]

(* A test client whose addtestclient call has returned has the name that   *)
(* call asked for; an unnamed one has the engine's name, never the name of *)
(* an earlier, failed, aborted or enclosing call (GScr_AddTestClient).     *)
(* Where the name goes in before the client enters the world, the connect  *)
(* callback already sees it: "so the correct name propagates through       *)
(* SV_ClientEnterWorld" (IW3's SV_UserinfoChanged_Hook, also IW2, T4, IW5).*)
(* The types hold.                                                         *)
NamedAsAsked == NamesTypeOK /\ Named
=============================================================================
