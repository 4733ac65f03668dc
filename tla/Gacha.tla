------------------------------- MODULE Gacha -------------------------------
(***************************************************************************)
(* The gacha engine: doAPull of gacha.c and the globals it works on.       *)
(*                                                                         *)
(* One step is one whole call of doAPull: it counts the pull, rolls a      *)
(* rarity, decides between the featured and the common pool, decides       *)
(* between a character and a weapon, and draws the item.  Every random     *)
(* number of the code is a choice among the outcomes it can produce.       *)
(*                                                                         *)
(* Probabilities are kept in ten-thousandths, because the code's           *)
(* guarantees rest on them: rndFloat() returns |n / LLONG_MAX|, which      *)
(* comes arbitrarily near both 0 and 1, and can exceed 1 only by one unit  *)
(* in the last place, so a weight above One cannot be missed, a weight     *)
(* below One can, and no weight equals One.                                *)
(***************************************************************************)
EXTENDS WishData

CONSTANT Given    \* the states main may hand to the first doAPull

ASSUME GivenAssumption == \A g \in Given : Legal(g)

VARIABLES
  cfg,         \* the options, fixed for a run of the program
  pity,        \* per star: pulls since the last drop of that star
  pityS,       \* per star and class: the "stable" counter of the class
  getRateUp,   \* per star: 1 when the next drop of that star must be featured
  fatePoints,  \* progress towards the charted course
  rare,        \* out: the rarity of the last pull
  isRateUp,    \* out: 0 common, 1 featured, 2 featured by Capturing Radiance
  item         \* out: the item of the last pull

vars == <<cfg, pity, pityS, getRateUp, fatePoints, rare, isRateUp, item>>

-----------------------------------------------------------------------------
(* The weights, as functions of a pity counter; a weight above One is a     *)
(* guarantee.                                                               *)

One == 10000

GetWeight5_Late(p) ==      \* soft pity a pull late
  IF p <= 74 \/ cfg.doPity[5] = 0 THEN 60 ELSE 60 + 600 * (p - 74)

GetWeight5(p) ==
  IF p <= 73 \/ cfg.doPity[5] = 0 THEN 60 ELSE 60 + 600 * (p - 73)

GetWeight5W(p) ==
  IF p <= 62 \/ cfg.doPity[5] = 0 THEN 70
  ELSE IF p <= 73 THEN 70 + 700 * (p - 62) ELSE 7770 + 350 * (p - 73)

GetWeight4(p) ==
  IF p <= 8 \/ cfg.doPity[4] = 0 THEN 510 ELSE 510 + 5100 * (p - 8)

GetWeight4W(p) ==
  IF p <= 7 \/ cfg.doPity[4] = 0 THEN 600 ELSE 6600 + 3000 * (p - 8)

GetWeight(r, p) ==
  IF cfg.banner \in WeaponBanner
  THEN IF r = 5 THEN GetWeight5W(p) ELSE GetWeight4W(p)
  ELSE IF r = 5 THEN GetWeight5(p)  ELSE GetWeight4(p)

\* The weights of the stable function: 5-star; 4-star; 4-star on a weapon banner.
GetWeight5S(p) ==
  IF cfg.doSmooth[5] = 0 THEN 5000 ELSE IF p <= 146 THEN 30 ELSE 30 + 300 * (p - 146)

GetWeight4S_Late(p) ==     \* the stable guarantee a pull late
  IF cfg.doSmooth[4] = 0 THEN 5000 ELSE IF p <= 18 THEN 255 ELSE 255 + 2550 * (p - 18)

GetWeight4S(p) ==
  IF cfg.doSmooth[4] = 0 THEN 5000 ELSE IF p <= 17 THEN 255 ELSE 255 + 2550 * (p - 17)

GetWeight4SW(p) ==
  IF cfg.doSmooth[4] = 0 THEN 5000 ELSE IF p <= 14 THEN 300 ELSE 300 + 3000 * (p - 14)

SplitWeight(r, p) ==
  CASE r = 5 -> GetWeight5S(p)
    [] r = 4 /\ cfg.banner \in WeaponBanner -> GetWeight4SW(p)
    [] OTHER -> GetWeight4S(p)

-----------------------------------------------------------------------------
(* What every call does before it rolls.  ps is pityS as the caller left it.*)

Inc_Wide(x) == x + 1       \* an int instead of an unsigned char

Inc(x) == IF x = 255 THEN 0 ELSE x + 1      \* ++ on an unsigned char

PityAtRoll == [r \in Star |-> IF cfg.doPity[r] = 1 THEN Inc(pity[r]) ELSE pity[r]]

StableAtRoll(ps) ==
  [r \in Star |-> [c \in Class |-> IF cfg.doSmooth[r] > 0 THEN Inc(ps[r][c]) ELSE ps[r][c]]]

RateUpAtRoll_FiveOnly ==   \* option -r taken for the 5-stars alone
  CASE cfg.do5050 = 0 -> [r \in Star |-> 0]
    [] cfg.do5050 < 0 -> [getRateUp EXCEPT ![5] = 1]
    [] OTHER          -> getRateUp

RateUpAtRoll_Lost ==       \* the guarantee forgotten before every roll
  [r \in Star |-> IF cfg.do5050 < 0 THEN 1 ELSE 0]

RateUpAtRoll ==
  CASE cfg.do5050 = 0 -> [r \in Star |-> 0]
    [] cfg.do5050 < 0 -> [r \in Star |-> 1]
    [] OTHER          -> getRateUp

FateAtRoll == IF cfg.doEpitomized = 0 THEN 0 ELSE fatePoints

\* The first roll: the same random number is held against the 5-star weight,
\* then against the 4-star weight.  A 5-star is always possible.
RollsFour ==
  LET w5 == GetWeight(5, PityAtRoll[5])
  IN  w5 < One /\ w5 < GetWeight(4, PityAtRoll[4])

RollsThree == GetWeight(5, PityAtRoll[5]) < One /\ GetWeight(4, PityAtRoll[4]) < One

-----------------------------------------------------------------------------
(* The stable function: which class a drop of star r is, given the counters *)
(* s of that star, and the counters after it.  Disabled the new way         *)
(* (doSmooth < 0), any item of the joint pool may come and nothing is reset.*)

Favoured_Swapped(s) == IF s["chr"] <= s["wpn"] THEN "chr" ELSE "wpn"

Favoured(s) == IF s["chr"] <= s["wpn"] THEN "wpn" ELSE "chr"

Splits(r, s, c) ==
  \/ cfg.doSmooth[r] < 0
  \/ c = Favoured(s)
  \/ SplitWeight(r, s[Favoured(s)]) < One

StableAfter_Other(r, s, c) ==   \* the reset hits the class not drawn
  IF cfg.doSmooth[r] < 0 THEN s ELSE [d \in Class |-> IF d = c THEN s[d] ELSE 0]

StableAfter(r, s, c) ==
  IF cfg.doSmooth[r] < 0 THEN s ELSE [s EXCEPT ![c] = 0]

BothReset == [c \in Class |-> 0]

-----------------------------------------------------------------------------
(* The pools an action draws from. *)

StdFiveStarChr   == {FiveStarChr[i] : i \in 1..FiveStarMaxIndex[cfg.stdPoolIndex]}
EventFourStarChr == {FourStarChr[i + 3] : i \in 1..FourStarMaxIndex[cfg.stdPoolIndex]}
StdFourStarChr   == {FourStarChr[i] : i \in 1..(FourStarMaxIndex[cfg.stdPoolIndex] + 3)}

StdFiveStar(c) == IF c = "wpn" THEN FiveStarWpn ELSE StdFiveStarChr
EventFourStar(c) == IF c = "wpn" THEN FourStarWpn ELSE EventFourStarChr
StdFourStar(c) == IF c = "wpn" THEN FourStarWpn ELSE StdFourStarChr

-----------------------------------------------------------------------------
(* What every drop of a star writes: its item and featured flag, the new    *)
(* guarantee, the fate points and the stable counters s of its star.        *)

FiveStarDrop(ps, up, it, rate, fate, s) ==
  /\ rare' = 5 /\ isRateUp' = up /\ item' = it
  /\ pity' = [PityAtRoll EXCEPT ![5] = 0]
  /\ pityS' = [StableAtRoll(ps) EXCEPT ![5] = s]
  /\ getRateUp' = [RateUpAtRoll EXCEPT ![5] = rate]
  /\ fatePoints' = fate
  /\ UNCHANGED cfg

FourStarDrop(ps, up, it, rate, s) ==
  /\ RollsFour
  /\ rare' = 4 /\ isRateUp' = up /\ item' = it
  /\ pity' = [PityAtRoll EXCEPT ![4] = 0]
  /\ pityS' = [StableAtRoll(ps) EXCEPT ![4] = s]
  /\ getRateUp' = [RateUpAtRoll EXCEPT ![4] = rate]
  /\ fatePoints' = FateAtRoll
  /\ UNCHANGED cfg

ThreeStarDrop(ps) ==
  /\ RollsThree
  /\ \E it \in ThreeStar : item' = it
  /\ rare' = 3 /\ isRateUp' = 0
  /\ pity' = PityAtRoll
  /\ pityS' = StableAtRoll(ps)
  /\ getRateUp' = RateUpAtRoll
  /\ fatePoints' = FateAtRoll
  /\ UNCHANGED cfg

-----------------------------------------------------------------------------
(* 5-star drops, one action per case of the banner. *)

FiveStarCharacterEvent_OldFlag(ps) ==   \* a loss leaves *isRateUp as it was
  /\ cfg.banner \in {"CHAR1", "CHAR2"}
  /\ \/ FiveStarDrop(ps, 1, FiveStarChrUp[cfg.banner], 0, 0, BothReset)
     \/ /\ RateUpAtRoll[5] = 0
        /\ \E it \in StdFiveStarChr :
              FiveStarDrop(ps, isRateUp, it, 1, Inc(FateAtRoll), BothReset)

FiveStarCharacterEvent(ps) ==
  /\ cfg.banner \in {"CHAR1", "CHAR2"}
  /\ \/ FiveStarDrop(ps, 1, FiveStarChrUp[cfg.banner], 0, 0, BothReset)
     \/ /\ RateUpAtRoll[5] = 0                        \* lost the 50/50
        /\ \/ /\ cfg.doRadiance = 1                   \* but radiance was captured
              /\ FiveStarDrop(ps, 2, FiveStarChrUp[cfg.banner], 0, 0, BothReset)
           \/ \E it \in StdFiveStarChr :
                 FiveStarDrop(ps, 0, it, 1, Inc(FateAtRoll), BothReset)

FiveStarWeaponEvent_NoPoint(ps) ==   \* a featured miss gives no fate point
  LET full == FateAtRoll >= cfg.doEpitomized
      path == cfg.epitomizedPath
  IN  /\ cfg.banner = "WPN"
      /\ \/ full /\ FiveStarDrop(ps, 1, path, 0, 0, BothReset)
         \/ /\ ~full
            /\ \E it \in FiveStarWpnUp :
                  FiveStarDrop(ps, 1, it, 0, IF path = it THEN 0 ELSE FateAtRoll, BothReset)
         \/ /\ ~full /\ RateUpAtRoll[5] = 0
            /\ \E it \in FiveStarWpn :
                  FiveStarDrop(ps, 0, it, 1, Inc(FateAtRoll), BothReset)

\* With the points full the charted weapon comes, whatever course is charted.
FiveStarWeaponEvent(ps) ==
  LET full == FateAtRoll >= cfg.doEpitomized
      path == cfg.epitomizedPath
  IN  /\ cfg.banner = "WPN"
      /\ \/ full /\ FiveStarDrop(ps, 1, path, 0, 0, BothReset)
         \/ /\ ~full
            /\ \E it \in FiveStarWpnUp :
                  FiveStarDrop(ps, 1, it, 0,
                               IF path = NoItem THEN FateAtRoll
                               ELSE IF path = it THEN 0 ELSE Inc(FateAtRoll), BothReset)
         \/ /\ ~full /\ RateUpAtRoll[5] = 0
            /\ \E it \in FiveStarWpn :
                  FiveStarDrop(ps, 0, it, 1, Inc(FateAtRoll), BothReset)

Charted == cfg.epitomizedPath # NoItem /\ cfg.doEpitomized > 0

FiveStarChroniclePath_NoPoint(ps) ==   \* a miss gives no fate point
  LET path == cfg.epitomizedPath
  IN  /\ cfg.banner = "CHRONICLED" /\ Charted
      /\ \/ FiveStarDrop(ps, 1, path, 0, 0, BothReset)
         \/ /\ FateAtRoll < cfg.doEpitomized /\ RateUpAtRoll[5] = 0
            /\ \E it \in ChroniclePool[5][ClassOf(path)] :
                  IF it = path
                  THEN FiveStarDrop(ps, 1, it, 0, 0, BothReset)
                  ELSE FiveStarDrop(ps, 0, it, 1, FateAtRoll, BothReset)

FiveStarChroniclePath(ps) ==
  LET path == cfg.epitomizedPath
  IN  /\ cfg.banner = "CHRONICLED" /\ Charted
      /\ \/ FiveStarDrop(ps, 1, path, 0, 0, BothReset)
         \/ /\ FateAtRoll < cfg.doEpitomized /\ RateUpAtRoll[5] = 0
            /\ \E it \in ChroniclePool[5][ClassOf(path)] :
                  IF it = path
                  THEN FiveStarDrop(ps, 1, it, 0, 0, BothReset)
                  ELSE FiveStarDrop(ps, 0, it, 1, Inc(FateAtRoll), BothReset)

FiveStarChronicle(ps) ==
  LET s == StableAtRoll(ps)[5]
  IN  /\ cfg.banner = "CHRONICLED" /\ ~Charted
      /\ \E c \in Class : Splits(5, s, c) /\ \E it \in ChroniclePool[5][c] :
            FiveStarDrop(ps, 1, it, 0, 0, StableAfter(5, s, c))

FiveStarOnlyCharacters(ps) ==
  /\ cfg.banner \in {"NOVICE", "STD_ONLY_CHR"}
  /\ \E it \in StdFiveStarChr : FiveStarDrop(ps, 0, it, 0, 0, BothReset)

FiveStarOnlyWeapons(ps) ==
  /\ cfg.banner = "STD_WPN"
  /\ \E it \in FiveStarWpn : FiveStarDrop(ps, 0, it, 0, 0, BothReset)

FiveStarStandard(ps) ==
  LET s == StableAtRoll(ps)[5]
  IN  /\ cfg.banner = "STD_CHR"
      /\ \E c \in Class : Splits(5, s, c) /\ \E it \in StdFiveStar(c) :
            FiveStarDrop(ps, 0, it, 0, 0, StableAfter(5, s, c))

-----------------------------------------------------------------------------
(* 4-star drops.  A featured character resets the counter of the characters *)
(* only, a featured weapon that of the weapons.                             *)

FourStarCharacterEvent(ps) ==
  LET s == StableAtRoll(ps)[4]
  IN  /\ cfg.banner \in {"CHAR1", "CHAR2"}
      /\ \/ \E it \in FourStarChrUp : FourStarDrop(ps, 1, it, 0, [s EXCEPT !["chr"] = 0])
         \/ /\ RateUpAtRoll[4] = 0
            /\ \E c \in Class : Splits(4, s, c) /\ \E it \in EventFourStar(c) :
                  FourStarDrop(ps, 0, it, 1, StableAfter(4, s, c))

FourStarWeaponEvent_WrongReset(ps) ==   \* a featured weapon resets the characters
  LET s == StableAtRoll(ps)[4]
  IN  /\ cfg.banner = "WPN"
      /\ \/ \E it \in FourStarWpnUp : FourStarDrop(ps, 1, it, 0, [s EXCEPT !["chr"] = 0])
         \/ /\ RateUpAtRoll[4] = 0
            /\ \E c \in Class : Splits(4, s, c) /\ \E it \in EventFourStar(c) :
                  FourStarDrop(ps, 0, it, 1, StableAfter(4, s, c))

FourStarWeaponEvent(ps) ==
  LET s == StableAtRoll(ps)[4]
  IN  /\ cfg.banner = "WPN"
      /\ \/ \E it \in FourStarWpnUp : FourStarDrop(ps, 1, it, 0, [s EXCEPT !["wpn"] = 0])
         \/ /\ RateUpAtRoll[4] = 0
            /\ \E c \in Class : Splits(4, s, c) /\ \E it \in EventFourStar(c) :
                  FourStarDrop(ps, 0, it, 1, StableAfter(4, s, c))

FourStarChronicle(ps) ==
  LET s == StableAtRoll(ps)[4]
  IN  /\ cfg.banner = "CHRONICLED"
      /\ \E c \in Class : Splits(4, s, c) /\ \E it \in ChroniclePool[4][c] :
            FourStarDrop(ps, 1, it, 0, StableAfter(4, s, c))

FourStarNovice(ps) ==
  /\ cfg.banner = "NOVICE"
  /\ \E it \in EventFourStarChr : FourStarDrop(ps, 0, it, 0, BothReset)

\* One action for the two cases of the code, which differ in their weight.
FourStarStandard(ps) ==
  LET s == StableAtRoll(ps)[4]
  IN  /\ cfg.banner \in {"STD_CHR", "STD_ONLY_CHR", "STD_WPN"}
      /\ \E c \in Class : Splits(4, s, c) /\ \E it \in StdFourStar(c) :
            FourStarDrop(ps, 0, it, 0, StableAfter(4, s, c))

-----------------------------------------------------------------------------
FiveStar(ps) ==
  \/ FiveStarCharacterEvent(ps) \/ FiveStarWeaponEvent(ps)
  \/ FiveStarChroniclePath(ps)  \/ FiveStarChronicle(ps)
  \/ FiveStarOnlyCharacters(ps) \/ FiveStarOnlyWeapons(ps)
  \/ FiveStarStandard(ps)

FourStar(ps) ==
  \/ FourStarCharacterEvent(ps) \/ FourStarWeaponEvent(ps)
  \/ FourStarChronicle(ps) \/ FourStarNovice(ps) \/ FourStarStandard(ps)

DoAPull(ps) == FiveStar(ps) \/ FourStar(ps) \/ ThreeStarDrop(ps)

\* main's initial values of rare, won5050 and item (yagiws.c 214-219).
Init ==
  /\ \E g \in Given :
        /\ cfg = g.cfg /\ pity = g.pity /\ pityS = g.pityS
        /\ getRateUp = g.getRateUp /\ fatePoints = g.fatePoints
  /\ rare = 3 /\ isRateUp = 0 /\ item = 11301

Next == DoAPull(pityS)

Spec == Init /\ [][Next]_vars

\* Every variable has its type.
TypeOK ==
  /\ cfg \in Config
  /\ pity \in [Star -> Byte]
  /\ pityS \in [Star -> [Class -> Byte]]
  /\ getRateUp \in [Star -> {0, 1}]
  /\ fatePoints \in Byte
  /\ rare \in 3..5
  /\ isRateUp \in 0..2
  /\ item \in Items

-----------------------------------------------------------------------------
\* The banners on which drops of star r are split between the classes; a
\* featured drop of the event banners is not.
SplitBanner(r) ==
  IF r = 4 THEN cfg.banner # "NOVICE"
  ELSE cfg.banner = "STD_CHR" \/ (cfg.banner = "CHRONICLED" /\ ~Charted)

SplitDrop(r) ==
  rare' = r /\ SplitBanner(r) /\ (cfg.banner \in {"CHAR1", "CHAR2", "WPN"} => isRateUp' = 0)

\* From this counter on the weight of the stable function is a guarantee.
Overdue(r) ==
  CASE r = 5 -> 180
    [] r = 4 /\ cfg.banner \in WeaponBanner -> 18
    [] OTHER -> 21

\* The items the banner features in rarity r; with a course charted on the
\* Chronicled Wish, only the charted one is a win.
Featured(r) ==
  CASE cfg.banner \in {"CHAR1", "CHAR2"} -> IF r = 5 THEN {FiveStarChrUp[cfg.banner]} ELSE FourStarChrUp
    [] cfg.banner = "WPN" -> IF r = 5 THEN FiveStarWpnUp ELSE FourStarWpnUp
    [] cfg.banner = "CHRONICLED" -> IF r = 5 /\ Charted THEN {cfg.epitomizedPath}
                                    ELSE ChroniclePool[r]["chr"] \cup ChroniclePool[r]["wpn"]
    [] OTHER -> {}

\* A pull reported as featured gave an item the banner features: main prints
\* the item in bold or in red on the strength of that flag alone.
FlagIsTrue == isRateUp > 0 => (rare \in Star /\ item \in Featured(rare))

\* Under option -r only featured items drop (yagiws.c 93-98), from the first
\* drop of each star to the last.
RateUpOnly ==
  (cfg.do5050 = -1 /\ rare \in Star /\ cfg.banner \in {"CHAR1", "CHAR2", "WPN", "CHRONICLED"})
    => item \in Featured(rare)

\* "-L: the next 5-star is guaranteed to be the rate-up item" (yagiws.c 74-77):
\* once a 5-star was lost, the next one is an item the banner features.
LossIsRepaid ==
  [][(/\ cfg.banner \in {"CHAR1", "CHAR2", "WPN"} /\ cfg.do5050 = 1
      /\ getRateUp[5] = 1 /\ rare' = 5) => item' \in Featured(5)]_vars

\* With 5-star pity on, the player who keeps wishing gets a featured 5-star
\* again and again wherever a loss is repaid: on the character banners unless
\* the guarantee is off, on the weapon banner with a course charted, and on the
\* Chronicled Wish (gacha.c 166-309).
FeaturedAgain ==
  (/\ cfg.doPity[5] = 1
   /\ \/ cfg.banner \in {"CHAR1", "CHAR2"} /\ cfg.do5050 # 0
      \/ cfg.banner = "WPN" /\ Charted
      \/ cfg.banner = "CHRONICLED") => []<>(rare = 5 /\ item \in Featured(5))

\* Where a course is charted and can be filled, the charted item comes again
\* and again, even with the rate-up guarantee switched off (yagiws.c 91-92).
ChartedAgain ==
  (cfg.doPity[5] = 1 /\ Charted) => []<>(item = cfg.epitomizedPath)
=============================================================================
