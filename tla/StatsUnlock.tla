----------------------------- MODULE StatsUnlock -----------------------------
(***************************************************************************)
(* unlockstats of IW3, T4 and IW4 (game/iw3/mp, t4/mp and iw4/mp_tu6,      *)
(* components/stats.cpp): string tables of the game, or of a mod, say      *)
(* which stats there are, and every rank, item and challenge they name is  *)
(* set to its complete value.  IW3 also does it for new offline stats, of  *)
(* any controller.                                                         *)
(*                                                                         *)
(* A cell of a table that is read as a number is one, or NoNumber; other   *)
(* cells are names.  The first row is the header; a table that is not found *)
(* has no rows at all.  Bits are numbers with one bit set, masks the sums   *)
(* of sets of them.                                                        *)
(***************************************************************************)
EXTENDS Integers, SequencesExt

CONSTANTS
  NoNumber,        \* what TryParseInt does not take
  Controllers,
  ChallengeStats,  \* stats that challenges and items may have
  Ranks, Targets,  \* numbers in the tables
  Experience,      \* what a rank takes
  MaxRows,         \* bound: rows of tables
  DefaultRank      \* per title: maxRank, minXp, maxXp as compiled in

Camos == {"weapon_smg", "weapon_assault", "weapon_sniper", "weapon_shotgun", "weapon_lmg"}
Weapons == Camos \union {"weapon_pistol"}
Single == {"specialty", "grenade", "specialgrenade", "inventory", "null_specialty", "feature"}

VARIABLES
  title,
  subject,      \* the tables that are filled in this behaviour
  ranks,        \* mp/ranktable.csv
  attachments,  \* mp/attachmenttable.csv
  items,        \* mp/statstable.csv
  challenges,   \* mp/challengetable.csv and the tables it names, in order;
                \* the asset of a table has the name, or the name in lower
                \* case, or there is none
  allChallenges,\* mp/allchallengestable.csv of IW4: tiers with a target, or 0
  inGame,       \* cgameInitialized
  stats,        \* per controller
  done          \* controllers that have been unlocked since the last row

tables == <<ranks, attachments, items, challenges, allChallenges>>
others == <<title, subject, tables, inGame>>
vars == <<others, stats, done>>

(* A stat that nobody has set is not in the domain.                        *)
Locked == [c \in Controllers |-> <<>>]

(* The loops start after the header.                                       *)
Rows(table) == IF table = <<>> THEN <<>> ELSE Tail(table)

TryParseInt(cell, old) == IF cell = NoNumber THEN old ELSE cell

-----------------------------------------------------------------------------
(* Each part returns the stats it sets; what is set later stands. *)

StatSet(stat, value) == stat :> value
Then(first, second) == second @@ first

TopRow(top, row) == row.max # NoNumber /\ row.max >= top.max

RankRow(top, row) ==
  IF row.name = "maxrank" THEN [top EXCEPT !.rank = TryParseInt(row.rank, @)]
  ELSE IF row.rank # NoNumber /\ TopRow(top, row)
       THEN [rank |-> row.rank, min |-> TryParseInt(row.min, top.min), max |-> row.max]
       ELSE top

UnlockRank ==
  LET top == FoldLeft(RankRow, DefaultRank[title], Rows(ranks)) IN
  [s \in {2301, 2352, 2353} |-> top.max] @@ [s \in {2350, 251, 252} |-> top.rank]
    @@ StatSet(2326, 10) @@ StatSet(2351, top.min)

-----------------------------------------------------------------------------
(* Items, of IW3; T4 runs unlock_init.cfg instead. *)

HasBit(row) == row.bit \notin {NoNumber, 0}

(* Of rows with the same name, the last counts; not so for camos.          *)
BitsOf(name) ==
  LET same == SelectSeq(Rows(attachments), LAMBDA row : HasBit(row) /\ row.name = name)
  IN IF same = <<>> THEN {} ELSE {Last(same).bit}
AllCamoBits == {row.bit : row \in {r \in Range(Rows(attachments)) : HasBit(r) /\ r.camo}}

GetAttachmentMaskOwn(list) == UNION {BitsOf(name) : name \in list}  \* mutant: not those that all have
GetAttachmentMask(list) == BitsOf("none") \union UNION {BitsOf(name) : name \in list}
HasCamos(category) == category \in Camos

ItemMask(row) == SumSet(GetAttachmentMask(row.attachments) \union
                        IF HasCamos(row.category) THEN AllCamoBits ELSE {})

ItemRow(set, row) ==
  IF row.stat = NoNumber \/ ~row.named THEN set
  ELSE IF row.category \in Weapons THEN Then(set, StatSet(row.stat, ItemMask(row)))
  ELSE IF row.category \in Single THEN Then(set, StatSet(row.stat, 1)) ELSE set

UnlockItems ==
  IF items = <<>> THEN <<>> ELSE Then(FoldLeft(ItemRow, <<>>, Rows(items)), [s \in 256..289 |-> 1])

-----------------------------------------------------------------------------
(* Challenges: a row with a state stat begins a challenge, the rows after  *)
(* it without one are its further tiers. *)

NoGroup == [state |-> 0, progress |-> 0, max |-> 0, set |-> <<>>]

FlushChallengeGroup(g) ==
  IF g.state <= 0 \/ g.progress <= 0 THEN g.set
  ELSE Then(g.set, Then(StatSet(g.state, 255), StatSet(g.progress, g.max)))

(* Mutant: the targets of the challenge before stay.                       *)
NextGroupKeepMax(g, row) ==
  [state |-> row.state, progress |-> TryParseInt(row.progress, g.progress), max |-> g.max,
   set |-> FlushChallengeGroup(g)]
NextGroup(g, row) ==
  [state |-> row.state, progress |-> TryParseInt(row.progress, g.progress), max |-> 0,
   set |-> FlushChallengeGroup(g)]

ChallengeRow(g, row) ==
  LET h == IF row.state = NoNumber THEN g ELSE NextGroup(g, row)
  IN IF h.state > 0 /\ row.target # NoNumber /\ row.target > h.max
     THEN [h EXCEPT !.max = row.target] ELSE h

UnlockChallengeTable(table) == FlushChallengeGroup(FoldLeft(ChallengeRow, NoGroup, Rows(table)))

FindStringTable(named) == named.asset = "as_named" \/ named.asset = "in_lower_case"

(* A table that is not found is left out, those after it are not.          *)
UnlockChallenges ==
  FoldLeft(LAMBDA set, c : IF FindStringTable(c) THEN Then(set, UnlockChallengeTable(c.table)) ELSE set,
           <<>>, challenges)

-----------------------------------------------------------------------------

Everything == Then(UnlockRank, Then(IF title = "iw3" THEN UnlockItems ELSE <<>>, UnlockChallenges))

UnlockEverything(c) ==
  /\ stats' = [stats EXCEPT ![c] = Then(@, Everything)]
  /\ done' = done \union {c}

(* T4 sets stats by console commands, which are those of controller 0.     *)
ExecuteCommands(set) == stats' = [stats EXCEPT ![0] = Then(@, set)]

InitializeStats(c) ==
  /\ title = "iw3" /\ c \notin done
  /\ UnlockEverything(c)
  /\ UNCHANGED others

Iw3UnlockStats ==
  /\ title = "iw3"
  /\ UnlockEverything(0)
  /\ UNCHANGED others

T4UnlockStats ==
  /\ title = "t4"
  /\ ExecuteCommands(Everything)
  /\ done' = done \union {0}
  /\ UNCHANGED others

-----------------------------------------------------------------------------
(* IW4: a challenge is a row, its tiers are columns up to the first without *)
(* a target.  Stats have names. *)

Iw4Tiers(row) == {t \in DOMAIN row.tiers : \A u \in 1..t : row.tiers[u] # 0}
Iw4State(row) == IF Iw4Tiers(row) = {} THEN 0 ELSE Max(Iw4Tiers(row)) + 1
Iw4Progress(row) == IF Iw4Tiers(row) = {} THEN 0 ELSE row.tiers[Max(Iw4Tiers(row))]

setPlayerData(name, value) == name :> value

Iw4Row(set, i) ==
  LET row == allChallenges[i] IN
  IF ~row.named THEN set
  ELSE Then(set, Then(setPlayerData(<<"challengeState", i>>, Iw4State(row)),
                      setPlayerData(<<"challengeProgress", i>>, Iw4Progress(row))))

Iw4Everything ==
  FoldLeft(Iw4Row, Then(setPlayerData(<<"prestige", 0>>, 10), setPlayerData(<<"experience", 0>>, 2516000)),
           [i \in DOMAIN allChallenges |-> i])

Iw4UnlockStats ==
  /\ title = "iw4" /\ ~inGame
  /\ ExecuteCommands(Iw4Everything)
  /\ done' = done \union {0}
  /\ UNCHANGED others

(* A game begins or ends, and with it what has been counted as unlocked.   *)
ChangeGame ==
  /\ title = "iw4"
  /\ inGame' = ~inGame
  /\ stats' = Locked /\ done' = {}
  /\ UNCHANGED <<title, subject, tables>>

-----------------------------------------------------------------------------
(* Another row in a table.  Ranks gain experience, maxrank is the first    *)
(* row and the highest rank; stats belong to one item or challenge.        *)

Used == {row.stat : row \in Range(Rows(items))} \union
        UNION {{row.state, row.progress} : row \in UNION {Range(Rows(challenges[i].table)) : i \in DOMAIN challenges}}
Free == ChallengeStats \ Used
NextFree == {s \in Free : Cardinality({t \in Free : t < s}) < 2}
RowsOfChallenges == FoldLeft(LAMBDA n, c : n + Len(c.table), 0, challenges)

Header == [name |-> "header", rank |-> 9, min |-> 9, max |-> 999999, bit |-> 9, camo |-> TRUE, stat |-> 9, state |-> 9,
           progress |-> 9, target |-> 999]

AddRank ==
  /\ subject = "ranks" /\ Len(ranks) \in 1..MaxRows
  /\ \E r \in Ranks, x \in Experience :
       /\ IF Len(ranks) = 1 THEN ranks' = Append(ranks, [name |-> "maxrank", rank |-> r, min |-> NoNumber, max |-> NoNumber])
          ELSE /\ r <= ranks[2].rank
               /\ \A i \in 3..Len(ranks) : r > ranks[i].rank /\ x > ranks[i].max
               /\ ranks' = Append(ranks, [name |-> "rank", rank |-> r, min |-> x - 1, max |-> x])
  /\ UNCHANGED <<attachments, items, challenges, allChallenges>>

AddAttachment ==
  /\ subject = "items" /\ Len(attachments) \in 1..2
  /\ \E n \in {"none", "silencer", "gold"}, b \in {0, 1, 2} :
       attachments' = Append(attachments, [name |-> n, bit |-> b, camo |-> n = "gold"])
  /\ UNCHANGED <<ranks, items, challenges, allChallenges>>

AddItem ==
  /\ subject = "items" /\ Len(items) = 1
  /\ \E s \in NextFree \union {NoNumber}, g \in {"weapon_smg", "weapon_pistol", "specialty", "purchase"},
        list \in SUBSET {"silencer"}, named \in BOOLEAN :
       items' = Append(items, [stat |-> s, category |-> g, attachments |-> list, named |-> named])
  /\ UNCHANGED <<ranks, attachments, challenges, allChallenges>>

AddChallenge ==
  /\ subject = "challenges"
  /\ \/ /\ Len(challenges) < 2
        /\ \E asset \in {"as_named", "in_lower_case", "missing"} :
             challenges' = Append(challenges, [asset |-> asset, table |-> <<Header>>])
     \/ /\ challenges # <<>> /\ RowsOfChallenges <= MaxRows
        /\ \E s, p \in NextFree \union {NoNumber}, t \in Targets \union {NoNumber} :
             /\ IF s = NoNumber THEN p = NoNumber ELSE p # NoNumber /\ s < p
             /\ challenges' = [challenges EXCEPT ![Len(challenges)].table =
                                 Append(@, [state |-> s, progress |-> p, target |-> t])]
  /\ UNCHANGED <<ranks, attachments, items, allChallenges>>

AddIw4Challenge ==
  /\ subject = "iw4" /\ Len(allChallenges) < 2
  /\ \E tiers \in [1..3 -> Targets \union {0}], named \in BOOLEAN :
       allChallenges' = Append(allChallenges, [named |-> named, tiers |-> tiers])
  /\ UNCHANGED <<ranks, attachments, items, challenges>>

AddRow ==
  /\ AddRank \/ AddAttachment \/ AddItem \/ AddChallenge \/ AddIw4Challenge
  /\ stats' = Locked
  /\ done' = {}
  /\ UNCHANGED <<title, subject, inGame>>

Beginnings(part) == IF subject = part THEN {<<>>, <<Header>>} ELSE {<<Header>>}

Init ==
  /\ title \in {"iw3", "t4", "iw4"}
  /\ subject \in CASE title = "iw3" -> {"ranks", "items", "challenges"}
                   [] title = "t4" -> {"ranks", "challenges"}
                   [] title = "iw4" -> {"iw4"}
  /\ ranks \in Beginnings("ranks") /\ attachments \in Beginnings("items") /\ items \in Beginnings("items")
  /\ challenges = <<>> /\ allChallenges = <<>> /\ inGame = FALSE
  /\ stats = Locked
  /\ done = {}

Next == AddRow \/ ChangeGame \/ T4UnlockStats \/ Iw4UnlockStats \/ Iw3UnlockStats \/ \E c \in Controllers : InitializeStats(c)

Spec == Init /\ [][Next]_vars

-----------------------------------------------------------------------------
(* Properties *)

(* The rows of a challenge that begins in row i.                           *)
Tiers(table, i) ==
  {j \in i..Len(table) : \A k \in i + 1..j : table[k].state = NoNumber}

(* A challenge is complete: its state says so, and its progress is the     *)
(* highest target of its own tiers, whatever stood before it in the table. *)
ChallengesComplete(s) ==
  \A n \in DOMAIN challenges : \A i \in 2..Len(challenges[n].table) :
    LET table == challenges[n].table
        targets == {table[j].target : j \in Tiers(table, i)} \ {NoNumber}
    IN table[i].state # NoNumber =>
         IF challenges[n].asset # "missing"
         THEN s[table[i].state] = 255 /\ s[table[i].progress] = Max(targets \union {0})
         ELSE {table[i].state, table[i].progress} \intersect DOMAIN s = {}

(* No rank of the table is above the one reached, and rank and experience   *)
(* are those of one row, or of the row maxrank and the code.               *)
TopRankReached(s) ==
  /\ s[251] = s[2350] /\ s[2301] = s[2352]
  /\ s[2351] <= s[2352]
  /\ \A i \in 3..Len(ranks) : ranks[i].rank <= s[2350] /\ ranks[i].max <= s[2352]
  /\ Len(ranks) < 2 => s[2350] = DefaultRank[title].rank
  /\ \/ s[2352] = DefaultRank[title].max
     \/ \E i \in 3..Len(ranks) : ranks[i].max = s[2352]
  /\ \A i \in 3..Len(ranks) : ranks[i].max = s[2352] => ranks[i].rank = s[2350] /\ ranks[i].min = s[2351]

(* The bits that a name has in the last of its rows with one, and those of *)
(* camos in any row.                                                       *)
BitRows == {i \in 2..Len(attachments) : attachments[i].bit # 0}
NamedBits(names) ==
  {attachments[i].bit : i \in {j \in BitRows :
     attachments[j].name \in names /\ \A k \in BitRows : attachments[k].name = attachments[j].name => k <= j}}
CamoBits == {attachments[i].bit : i \in {j \in BitRows : attachments[j].camo}}

(* A weapon has every attachment of its own list and of none, all camos if  *)
(* its category has them, and nothing else; other items and the features    *)
(* are there; where there is no table of items, nothing is set.            *)
ItemsComplete(s) ==
  /\ items = <<>> => DOMAIN s \intersect 256..289 = {}
  /\ items # <<>> => \A stat \in 256..289 : s[stat] = 1
  /\ \A i \in 2..Len(items) :
       LET item == items[i] IN
       item.stat # NoNumber =>
         IF item.named /\ item.category \in Weapons
         THEN s[item.stat] = SumSet(NamedBits(item.attachments \union {"none"}) \union
                                    IF item.category = "weapon_smg" THEN CamoBits ELSE {})
         ELSE IF item.named /\ item.category = "specialty" THEN s[item.stat] = 1
         ELSE item.stat \notin DOMAIN s

(* No tier of a challenge is left, and none of those behind a column       *)
(* without a target counts.                                                *)
Iw4Complete(s) ==
  \A i \in DOMAIN allChallenges : allChallenges[i].named =>
    \E n \in 0..3 :
      /\ \A t \in 1..n : allChallenges[i].tiers[t] # 0
      /\ n < 3 => allChallenges[i].tiers[n + 1] = 0
      /\ s[<<"challengeState", i>>] = IF n = 0 THEN 0 ELSE n + 1
      /\ n > 0 => s[<<"challengeProgress", i>>] = allChallenges[i].tiers[n]

(* After unlockstats, or for new offline stats, everything the tables name *)
(* is complete, for that controller and no other, and nothing is left that *)
(* a second unlockstats would change.                                      *)
UnlocksEverything ==
  \A c \in Controllers :
    IF c \notin done THEN stats[c] = <<>>
    ELSE IF title = "iw4"
    THEN ~inGame /\ Iw4Complete(stats[c]) /\ Then(stats[c], Iw4Everything) = stats[c]
    ELSE /\ ChallengesComplete(stats[c]) /\ TopRankReached(stats[c])
         /\ title = "iw3" => ItemsComplete(stats[c])
         /\ Then(stats[c], Everything) = stats[c]
=============================================================================
