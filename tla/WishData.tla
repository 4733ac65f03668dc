------------------------------ MODULE WishData ------------------------------
(***************************************************************************)
(* What the engine and main share: the item tables of bannerdata.c, as far *)
(* as one row of them (one banner version) is concerned, and the state one *)
(* hands to the other.                                                     *)
(*                                                                         *)
(* Items keep the source's numbers, where an id from 10000 on is a weapon. *)
(***************************************************************************)
EXTENDS Integers

CONSTANTS
  FiveStarChrUp,     \* the featured 5-star of "CHAR1" and of "CHAR2"
  FourStarChrUp,     \* the featured 4-stars of the character banners
  FiveStarWpnUp,     \* the featured 5-stars of the weapon banner
  FourStarWpnUp,     \* the featured 4-stars of the weapon banner
  FiveStarChr,       \* the permanent 5-star characters, in order of appearance
  FiveStarMaxIndex,  \* how many of them the pool of an index holds
  FourStarChr,       \* the 4-star characters; the first three only on std banners
  FourStarMaxIndex,  \* how many of the others the pool of an index holds
  FiveStarWpn,       \* the permanent 5-star weapons
  FourStarWpn,       \* the permanent 4-star weapons
  ThreeStar,         \* the 3-star weapons
  ChroniclePool      \* per star and class, the pool of the Chronicled Wish

Star   == {4, 5}           \* the rarities that have a pity counter
Class  == {"chr", "wpn"}
Banner == {"CHAR1", "CHAR2", "WPN", "STD_CHR", "STD_WPN", "NOVICE",
           "CHRONICLED", "STD_ONLY_CHR"}
Byte   == 0..255
NoItem == 0                \* epitomizedPath when no course is charted
Items  == Nat

IsWeapon(it) == it >= 10000
ClassOf(it)  == IF IsWeapon(it) THEN "wpn" ELSE "chr"

WeaponBanner == {"WPN", "STD_WPN"}        \* the banners that roll with getWeightW
PoolIndex    == DOMAIN FourStarMaxIndex

\* The tables hold non-empty pools, every item in the pool of its own class.
ASSUME CharacterAssumption ==
  /\ FiveStarChrUp \in [{"CHAR1", "CHAR2"} -> Items]
  /\ ~IsWeapon(FiveStarChrUp["CHAR1"]) /\ ~IsWeapon(FiveStarChrUp["CHAR2"])
  /\ \A it \in FourStarChrUp : it \in Items /\ ~IsWeapon(it)
  /\ \A k \in DOMAIN FiveStarChr : FiveStarChr[k] \in Items /\ ~IsWeapon(FiveStarChr[k])
  /\ \A k \in DOMAIN FourStarChr : FourStarChr[k] \in Items /\ ~IsWeapon(FourStarChr[k])

ASSUME WeaponAssumption ==
  \A it \in FiveStarWpnUp \cup FourStarWpnUp \cup FiveStarWpn \cup FourStarWpn \cup ThreeStar :
     it \in Items /\ IsWeapon(it)

ASSUME PoolsAssumption == {} \notin {FourStarChrUp, FiveStarWpnUp, FourStarWpnUp, FiveStarWpn,
                                    FourStarWpn, ThreeStar}

\* An index selects a non-empty prefix of the character tables.
ASSUME IndexAssumption ==
  /\ FiveStarMaxIndex \in [PoolIndex -> Nat]
  /\ FourStarMaxIndex \in [PoolIndex -> Nat]
  /\ \A x \in PoolIndex : FiveStarMaxIndex[x] >= 1 /\ FourStarMaxIndex[x] >= 1
  /\ \A x \in PoolIndex : \A k \in 1..FiveStarMaxIndex[x] : k \in DOMAIN FiveStarChr
  /\ \A x \in PoolIndex : \A k \in 1..(FourStarMaxIndex[x] + 3) : k \in DOMAIN FourStarChr

ASSUME ChronicleAssumption ==
  \A r \in Star, c \in Class :
    /\ ChroniclePool[r][c] # {}
    /\ \A it \in ChroniclePool[r][c] : it \in Items /\ it # NoItem /\ ClassOf(it) = c

-----------------------------------------------------------------------------
(***************************************************************************)
(* The options that steer the engine, as main leaves them after it has     *)
(* parsed the command line and resolved the banner's version.              *)
(***************************************************************************)
Config ==
  [banner : Banner,
   doPity : [Star -> {0, 1}],          \* 0: option -n or -N
   doSmooth : [Star -> {-1, 0, 1}],    \* 0, -1: option -s or -S, without or with --noSmoothOld
   do5050 : {-1, 0, 1},                \* 0: option -g; -1: option -r
   doEpitomized : 0..2,
   doRadiance : {0, 1},
   epitomizedPath : Items,
   stdPoolIndex : PoolIndex]

\* The charted course is one the banner's own table offers (yagiws.c 604-624).
PathOffered(c) ==
  CASE c.banner = "WPN"        -> FiveStarWpnUp \cup {NoItem}
    [] c.banner = "CHRONICLED" -> ChroniclePool[5]["chr"] \cup ChroniclePool[5]["wpn"] \cup {NoItem}
    [] OTHER                   -> {NoItem}

\* What main lets through: the limits of options -4, -5 and -f, the tighter
\* pity limits of the weapon banners, the automatic number of fate points, and
\* the pool of the Beginners' Wish, which is the first.
Legal(g) ==
  /\ g.cfg \in Config
  /\ g.cfg.banner = "NOVICE" => g.cfg.stdPoolIndex = 0
  /\ g.cfg.epitomizedPath \in PathOffered(g.cfg)
  /\ g.cfg.banner # "WPN" => g.cfg.doEpitomized <= 1
  /\ g.pity \in [Star -> 0..90]
  /\ g.pity[4] <= IF g.cfg.banner \in WeaponBanner THEN 9 ELSE 11
  /\ g.pity[5] <= IF g.cfg.banner \in WeaponBanner THEN 79 ELSE 90
  /\ g.pityS \in [Star -> [Class -> Byte]]
  /\ g.getRateUp \in [Star -> {0, 1}]
  /\ g.fatePoints \in 0..2

\* The options that steer main's loop of wishes.
Order == [pulls : Nat,              \* -p
          noviceCnt : 0..8,         \* -c
          forceSmooth : 0..2]       \* 1: -C, 2: -W; both together count as neither
=============================================================================
