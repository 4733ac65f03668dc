----------------------------- MODULE ItemNames -----------------------------
(***************************************************************************)
(* getItem of item.c and the lists of names behind it.  A name is the list *)
(* it is in and its place there, and the wording is left out: what counts  *)
(* is which numbers have a name, and whose name they show.                 *)
(***************************************************************************)
EXTENDS Integers

NoName == <<>>

\* Lists are indexed from 0, and some of their places hold no name.
Named(kind, list, k, places) == IF k \in places THEN <<kind, list, k>> ELSE NoName

-----------------------------------------------------------------------------
(* character.c *)

ChrList == (0..109) \ ({4, 28, 40} \cup 8..13 \cup 17..19)

GetCharacter(id) ==
  CASE id \in 1000..1099 -> Named("character", 0, id - 1000, ChrList)
    [] id \in 1100..1199 -> Named("constellation", 0, id - 1100, ChrList)
    [] id \in 4100..4109 -> Named("character", 0, id - 4000, ChrList)
    [] id \in 5100..5109 -> IF id - 5000 \in ChrList THEN <<"constellation", 0, id - 5100>> ELSE NoName
    [] OTHER -> NoName

-----------------------------------------------------------------------------
(* weapon.c: lists per type (1 sword, 2 claymore, 3 polearm, 4 catalyst,    *)
(* 5 bow) and number of stars.                                              *)

LowStarWeapons(type, stars) == IF stars < 3 THEN {0} ELSE IF type = 3 THEN 0..3 ELSE 0..5

FourStarWeapons(type) ==
  CASE type = 1 -> (0..32) \ {25, 27}
    [] type = 2 -> (0..31) \ ({12} \cup 18..22 \cup 27..29)
    [] type = 3 -> (0..32) \ ({17, 25, 28, 29} \cup 9..12 \cup 19..22)
    [] type = 4 -> (0..31) \ (17..22 \cup 27..30)
    [] type = 5 -> (0..31) \ (19..22 \cup 27..30)

FiveStarWeapons(type) ==
  CASE type = 1 -> 0..15
    [] type = 2 -> (0..13) \ {6}
    [] type = 3 -> (0..12) \ {7, 9}
    [] type = 4 -> (0..17) \ {6, 9}
    [] type = 5 -> (0..13) \ {9}

Weapons(type, stars) ==
  CASE stars = 5 -> FiveStarWeapons(type)
    [] stars = 4 -> FourStarWeapons(type)
    [] OTHER -> LowStarWeapons(type, stars)

\* How much of a list getWeapon looks at; of the 4-stars, one less than it holds.
MaxId(type, stars) ==
  CASE stars < 3 -> 1
    [] stars = 3 -> IF type = 3 THEN 4 ELSE 6
    [] stars = 4 -> IF type \in {1, 3} THEN 32 ELSE 31
    [] stars = 5 -> <<16, 14, 13, 18, 14>>[type]

GetWeapon_NotLess(id) ==      \* the number taken for the place itself
  LET type == (id \div 1000) % 10
      stars == (id \div 100) % 10
  IN  IF id \div 10000 = 1 /\ id % 100 >= 1 /\ type \in 1..5 /\ stars \in 1..5
         /\ id % 100 < MaxId(type, stars)
      THEN Named("weapon", 10 * type + stars, id % 100, Weapons(type, stars)) ELSE NoName

GetWeapon(id) ==
  LET type == (id \div 1000) % 10
      stars == (id \div 100) % 10
      place == (id % 100) - 1
  IN  IF id \div 10000 = 1 /\ place >= 0 /\ type \in 1..5 /\ stars \in 1..5
         /\ place < MaxId(type, stars)
      THEN Named("weapon", 10 * type + stars, place, Weapons(type, stars)) ELSE NoName

-----------------------------------------------------------------------------
(* artifact.c: sets of six names, the first of them that of the set; of the *)
(* five Prayers only the set and its circlet have one.                      *)

ArtifactSets == {20, 21} \cup 27..36 \cup 51..63 \cup 71..82 \cup 88..99
Prayers      == 83..87

GetArtifact(id) ==
  LET set == id \div 1000
      rarity == (id % 1000) \div 100
      piece == (id % 100) \div 10
      start_stats == id % 10
      pieces == IF set \in ArtifactSets THEN 0..5 ELSE IF set \in Prayers THEN {0, 3} ELSE {}
  IN  IF start_stats <= 4 /\ piece <= 5 /\ rarity \in 1..5 /\ set \in 20..99
      THEN Named("artifact", set, piece, pieces) ELSE NoName

-----------------------------------------------------------------------------
\* The first of the three lists that knows the number.
GetItem(id) ==
  CASE GetCharacter(id) # NoName -> GetCharacter(id)
    [] GetWeapon(id) # NoName    -> GetWeapon(id)
    [] OTHER                     -> GetArtifact(id)
=============================================================================
