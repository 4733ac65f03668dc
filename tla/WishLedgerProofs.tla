-------------------------- MODULE WishLedgerProofs --------------------------
(***************************************************************************)
(* The engine keeps its promises, for every table, every legal state main  *)
(* can hand over that charts a course on the weapon banner, and every      *)
(* number of wishes: SpecL implements WishPromise.  A drop that is called  *)
(* featured is one.                                                        *)
(***************************************************************************)
EXTENDS WishLedger, GachaProofs

\* A 5-star can be missed only while the counted pity is below hard pity.
LEMMA MissFive ==
  ASSUME TypeOK, HistoryType, FiveStarCounted, cfg.doPity[5] = 1,
         GetWeight(5, PityAtRoll[5]) < One
  PROVE  pity[5] + 1 < terms.hard5 /\ PityAtRoll[5] = pity[5] + 1
<1>1. pity[5] \in 0..255 /\ pity[5] <= terms.hard5
  BY DEF TypeOK, Star, Byte, FiveStarCounted
<1>2. terms.hard5 = IF cfg.banner \in WeaponBanner THEN 80 ELSE 90
  BY DEF HistoryType, TermsOf
<1>3. PityAtRoll[5] = pity[5] + 1
  BY <1>1, <1>2 DEF PityAtRoll, Star, Inc
<1>4. CASE cfg.banner \in WeaponBanner
  <2>1. GetWeight5W(pity[5] + 1) < 10000
    BY <1>3, <1>4 DEF GetWeight, One
  <2>2. QED BY <1>1, <1>2, <1>3, <1>4, <2>1 DEF GetWeight5W
<1>5. CASE cfg.banner \notin WeaponBanner
  <2>1. GetWeight5(pity[5] + 1) < 10000
    BY <1>3, <1>5 DEF GetWeight, One
  <2>2. QED BY <1>1, <1>2, <1>3, <1>5, <2>1 DEF GetWeight5
<1>6. QED BY <1>4, <1>5

\* A 3-star can come only while the 4-star counter is at most 9 at the roll.
LEMMA MissFour ==
  ASSUME TypeOK, cfg.doPity[4] = 1, GetWeight(4, PityAtRoll[4]) < One
  PROVE  PityAtRoll[4] = Inc(pity[4]) /\ PityAtRoll[4] <= 9
<1>1. PityAtRoll[4] = Inc(pity[4]) /\ PityAtRoll[4] \in 0..255
  BY AtRollType DEF TypeOK, Star, Byte, PityAtRoll, Inc
<1>2. CASE cfg.banner \in WeaponBanner
  <2>1. GetWeight4W(PityAtRoll[4]) < 10000
    BY <1>2 DEF GetWeight, One
  <2>2. QED BY <1>1, <2>1 DEF GetWeight4W
<1>3. CASE cfg.banner \notin WeaponBanner
  <2>1. GetWeight4(PityAtRoll[4]) < 10000
    BY <1>3 DEF GetWeight, One
  <2>2. QED BY <1>1, <2>1 DEF GetWeight4
<1>4. QED BY <1>2, <1>3

\* What a call does to the counters the promises rest on, by the star it gave.
Outcome ==
  /\ cfg' = cfg /\ rare' \in 3..5 /\ isRateUp' \in 0..2
  /\ rare' # 5 => /\ GetWeight(5, PityAtRoll[5]) < One
                  /\ pity'[5] = PityAtRoll[5]
                  /\ getRateUp'[5] = RateUpAtRoll[5]
                  /\ fatePoints' = FateAtRoll
  /\ rare' = 3 => GetWeight(4, PityAtRoll[4]) < One
  /\ rare' # 4 => pity'[4] = PityAtRoll[4] /\ getRateUp'[4] = RateUpAtRoll[4]
  /\ rare' = 5 => pity'[5] = 0
  /\ rare' = 4 => pity'[4] = 0

\* A lost drop was not guaranteed, and leaves a guarantee behind.
LossOwes ==
  \A r \in Star : (cfg.banner \in EventBanner /\ rare' = r /\ isRateUp' = 0) =>
                  RateUpAtRoll[r] = 0 /\ getRateUp'[r] = 1

\* A missed course was not full, and gets a point; so may a course hit by luck.
MissCounts ==
  (rare' = 5 /\ Charted /\ cfg.banner \in {"WPN", "CHRONICLED"}) =>
     \/ item' = cfg.epitomizedPath /\ fatePoints' = 0
     \/ FateAtRoll < cfg.doEpitomized /\ fatePoints' = Inc(FateAtRoll)

\* Every call of the engine has such an outcome.
LEMMA PullOutcome ==
  ASSUME TypeOK, NEW ps \in Stable, DoAPull(ps)
  PROVE  Outcome /\ LossOwes /\ MissCounts
<1>1. /\ PityAtRoll \in [Star -> Byte]
      /\ RateUpAtRoll \in [Star -> {0, 1}] /\ FateAtRoll \in Byte
  BY AtRollType
<1>2. 4 \in Star /\ 5 \in Star /\ \A r \in Star : r = 4 \/ r = 5
  BY DEF Star
<1>3. CASE FiveStar(ps)
  <2>1. PICK up \in 0..2, it \in Items, rate \in {0, 1}, fate \in Byte, s \in [Class -> Byte] :
               FiveStarEffect(ps, up, it, rate, fate, s)
    BY <1>3, FiveStarShape
  <2>2. /\ rare' = 5 /\ isRateUp' = up /\ item' = it /\ fatePoints' = fate /\ cfg' = cfg
        /\ pity' = [PityAtRoll EXCEPT ![5] = 0]
        /\ getRateUp' = [RateUpAtRoll EXCEPT ![5] = rate]
    BY <2>1 DEF FiveStarEffect, FiveStarDrop
  <2>3. /\ pity'[5] = 0 /\ pity'[4] = PityAtRoll[4]
        /\ getRateUp'[4] = RateUpAtRoll[4] /\ getRateUp'[5] = rate
    BY <1>1, <1>2, <2>2
  <2>4. Outcome
    BY <2>2, <2>3 DEF Outcome
  <2>5. LossOwes
    BY <1>2, <2>1, <2>2, <2>3 DEF LossOwes, FiveStarEffect, EventBanner
  <2>6. MissCounts
    BY <2>1, <2>2 DEF MissCounts, FiveStarEffect
  <2>7. QED BY <2>4, <2>5, <2>6
<1>4. CASE FourStar(ps)
  <2>1. PICK up \in 0..2, it \in Items, rate \in {0, 1}, s \in [Class -> Byte] :
               FourStarEffect(ps, up, it, rate, s)
    BY <1>4, FourStarShape
  <2>2. /\ rare' = 4 /\ isRateUp' = up /\ fatePoints' = FateAtRoll /\ cfg' = cfg
        /\ pity' = [PityAtRoll EXCEPT ![4] = 0]
        /\ getRateUp' = [RateUpAtRoll EXCEPT ![4] = rate]
        /\ RollsFour
    BY <2>1 DEF FourStarEffect, FourStarDrop
  <2>3. /\ pity'[4] = 0 /\ pity'[5] = PityAtRoll[5]
        /\ getRateUp'[5] = RateUpAtRoll[5] /\ getRateUp'[4] = rate
    BY <1>1, <1>2, <2>2
  <2>4. Outcome
    BY <2>2, <2>3 DEF Outcome, RollsFour
  <2>5. LossOwes
    BY <1>2, <2>1, <2>2, <2>3 DEF LossOwes, FourStarEffect, EventBanner
  <2>6. MissCounts
    BY <2>2 DEF MissCounts
  <2>7. QED BY <2>4, <2>5, <2>6
<1>5. CASE ThreeStarDrop(ps)
  <2>1. /\ rare' = 3 /\ isRateUp' = 0 /\ fatePoints' = FateAtRoll /\ cfg' = cfg
        /\ pity' = PityAtRoll /\ getRateUp' = RateUpAtRoll /\ RollsThree
    BY <1>5 DEF ThreeStarDrop
  <2>2. Outcome
    BY <2>1 DEF Outcome, RollsThree
  <2>3. LossOwes /\ MissCounts
    BY <1>2, <2>1 DEF LossOwes, MissCounts
  <2>4. QED BY <2>2, <2>3
<1>6. QED BY <1>3, <1>4, <1>5 DEF DoAPull

\* A promise of featured drops is made on the event banners, where the engine
\* does not clear the guarantee before it rolls; a promised course is charted.
LEMMA TermsMeaning ==
  ASSUME TypeOK, HistoryType
  PROVE  /\ terms.rateUp => /\ cfg.banner \in EventBanner
                            /\ \A r \in Star : getRateUp[r] = 1 => RateUpAtRoll[r] = 1
         /\ terms.fate > 0 => Charted /\ terms.fate = cfg.doEpitomized
         /\ Charted => FateAtRoll = fatePoints
         /\ terms.hard5 > 0 <=> cfg.doPity[5] = 1
         /\ terms.hard4 > 0 <=> cfg.doPity[4] = 1
         /\ terms.hard4 \in {0, 10}
         /\ Charted => terms.fate = cfg.doEpitomized
<1>1. /\ cfg.doPity \in [Star -> {0, 1}] /\ cfg.doEpitomized \in 0..2
      /\ cfg.do5050 \in {-1, 0, 1}
  BY DEF TypeOK, Config
<1>2. cfg.doPity[4] \in {0, 1} /\ cfg.doPity[5] \in {0, 1}
  BY <1>1 DEF Star
<1>3. terms.rateUp => cfg.do5050 # 0 /\ cfg.banner \in EventBanner
  BY DEF HistoryType, TermsOf
<1>4. cfg.do5050 # 0 => \A r \in Star : getRateUp[r] = 1 => RateUpAtRoll[r] = 1
  BY DEF RateUpAtRoll
<1>5. /\ terms.hard5 = IF cfg.doPity[5] = 0 THEN 0 ELSE IF cfg.banner \in WeaponBanner THEN 80 ELSE 90
      /\ terms.hard4 = IF cfg.doPity[4] = 0 THEN 0 ELSE 10
      /\ terms.fate = IF cfg.epitomizedPath = NoItem THEN 0 ELSE cfg.doEpitomized
  BY DEF HistoryType, TermsOf
<1>6. terms.fate > 0 => Charted /\ terms.fate = cfg.doEpitomized
  BY <1>1, <1>5 DEF Charted
<1>7. Charted => FateAtRoll = fatePoints
  BY <1>1 DEF Charted, FateAtRoll
<1>8. Charted => terms.fate = cfg.doEpitomized
  BY <1>1, <1>5 DEF Charted
<1>9. QED BY <1>2, <1>3, <1>4, <1>5, <1>6, <1>7, <1>8

\* A 5-star, and a 4-star, come in time.
LEMMA DroughtKept ==
  ASSUME TypeOK, HistoryType, FiveStarCounted, FourStarCounted, NEW ps \in Stable, DoAPull(ps)
  PROVE  /\ (terms.hard5 > 0 /\ rare' # 5) => dry[5] + 1 < terms.hard5
         /\ (terms.hard4 > 0 /\ rare' = 3) => dry[4] < terms.hard4
<1>1. Outcome
  BY PullOutcome
<1>2. ASSUME terms.hard5 > 0, rare' # 5 PROVE dry[5] + 1 < terms.hard5
  <2>1. cfg.doPity[5] = 1
    BY <1>2, TermsMeaning
  <2>2. pity[5] + 1 < terms.hard5
    BY <1>1, <1>2, <2>1, MissFive DEF Outcome
  <2>3. QED BY <2>1, <2>2 DEF FiveStarCounted
<1>3. ASSUME terms.hard4 > 0, rare' = 3 PROVE dry[4] < terms.hard4
  <2>1. cfg.doPity[4] = 1 /\ terms.hard4 = 10
    BY <1>3, TermsMeaning
  <2>2. Inc(pity[4]) <= 9
    BY <1>1, <1>3, <2>1, MissFour DEF Outcome
  <2>3. pity[4] \in 0..255 /\ dry[4] \in Nat
    BY DEF TypeOK, Star, Byte, HistoryType
  <2>4. dry[4] <= pity[4] + 1 /\ (pity[4] >= 12 => dry[4] = 0)
    BY <2>1 DEF FourStarCounted
  <2>5. CASE pity[4] = 255
    BY <2>1, <2>4, <2>5
  <2>6. CASE pity[4] # 255
    <3>1. pity[4] + 1 <= 9
      BY <2>2, <2>6 DEF Inc
    <3>2. QED BY <2>1, <2>3, <2>4, <3>1
  <2>7. QED BY <2>5, <2>6
<1>4. QED BY <1>2, <1>3

\* With the misses full the charted course comes.
LEMMA CoursePaid ==
  ASSUME TypeOK, HistoryType, CourseCounted, NEW ps \in Stable, DoAPull(ps),
         terms.fate > 0, rare' = 5, missed >= terms.fate
  PROVE  item' = cfg.epitomizedPath
<1>1. Charted /\ terms.fate = cfg.doEpitomized /\ FateAtRoll = fatePoints
  BY TermsMeaning
<1>2. cfg.banner \in {"WPN", "CHRONICLED"} /\ missed <= fatePoints
  BY <1>1 DEF CourseCounted
<1>3. missed \in Int /\ fatePoints \in Int /\ cfg.doEpitomized \in Int
  BY DEF HistoryType, TypeOK, Byte, Config
<1>4. ~(FateAtRoll < cfg.doEpitomized)
  BY <1>1, <1>2, <1>3
<1>5. QED BY <1>1, <1>2, <1>4, PullOutcome DEF MissCounts

-----------------------------------------------------------------------------
(* The featured flag tells the truth as long as a course is charted on the  *)
(* weapon banner.  Without one a full course is item 0, which is flagged    *)
(* (gacha.c 209-211), and what follows is false.                            *)

\* -e was given wherever the weapon banner was chosen.
WeaponCourseGiven == \A g \in Given : g.cfg.banner = "WPN" => g.cfg.epitomizedPath # NoItem

\* What the proofs need to know of the options, which never change.
CourseOffered ==
  /\ cfg.epitomizedPath \in PathOffered(cfg)
  /\ cfg.banner = "WPN" => cfg.epitomizedPath # NoItem

\* What a drop that is called featured must be.
FlagAfter == isRateUp' > 0 => (rare' \in Star /\ item' \in Featured(rare'))

\* The twelve kinds of drop raise the flag for featured items only.
LEMMA FlagOfFive ==
  ASSUME TypeOK, CourseOffered, NEW ps \in Stable, FiveStar(ps)
  PROVE  FlagAfter
<1>0. 5 \in Star
  BY DEF Star
<1>1. CASE FiveStarCharacterEvent(ps)
  <2>1. Featured(5) = {FiveStarChrUp[cfg.banner]}
    BY <1>1 DEF FiveStarCharacterEvent, Featured
  <2>2. rare' = 5 /\ (isRateUp' = 0 \/ item' = FiveStarChrUp[cfg.banner])
    BY <1>1 DEF FiveStarCharacterEvent, FiveStarDrop
  <2>3. QED BY <1>0, <2>1, <2>2 DEF FlagAfter
<1>2. CASE FiveStarWeaponEvent(ps)
  <2>1. cfg.banner = "WPN" /\ Featured(5) = FiveStarWpnUp
    BY <1>2 DEF FiveStarWeaponEvent, Featured
  <2>2. cfg.epitomizedPath \in FiveStarWpnUp
    BY <2>1 DEF CourseOffered, PathOffered
  <2>3. rare' = 5 /\ (isRateUp' = 0 \/ item' = cfg.epitomizedPath \/ item' \in FiveStarWpnUp)
    BY <1>2 DEF FiveStarWeaponEvent, FiveStarDrop
  <2>4. QED BY <1>0, <2>1, <2>2, <2>3 DEF FlagAfter
<1>3. CASE FiveStarChroniclePath(ps)
  <2>1. Featured(5) = {cfg.epitomizedPath}
    BY <1>3 DEF FiveStarChroniclePath, Featured
  <2>2. rare' = 5 /\ (isRateUp' = 0 \/ item' = cfg.epitomizedPath)
    BY <1>3 DEF FiveStarChroniclePath, FiveStarDrop
  <2>3. QED BY <1>0, <2>1, <2>2 DEF FlagAfter
<1>4. CASE FiveStarChronicle(ps)
  <2>1. Featured(5) = ChroniclePool[5]["chr"] \cup ChroniclePool[5]["wpn"]
    BY <1>4 DEF FiveStarChronicle, Featured
  <2>2. rare' = 5 /\ \E c \in Class : item' \in ChroniclePool[5][c]
    BY <1>4 DEF FiveStarChronicle, FiveStarDrop
  <2>3. QED BY <1>0, <2>1, <2>2 DEF FlagAfter, Class
<1>5. CASE FiveStarOnlyCharacters(ps) \/ FiveStarOnlyWeapons(ps) \/ FiveStarStandard(ps)
  <2>1. isRateUp' = 0
    BY <1>5 DEF FiveStarOnlyCharacters, FiveStarOnlyWeapons, FiveStarStandard, FiveStarDrop
  <2>2. QED BY <2>1 DEF FlagAfter
<1>6. QED BY <1>1, <1>2, <1>3, <1>4, <1>5 DEF FiveStar

LEMMA FlagOfFour ==
  ASSUME TypeOK, NEW ps \in Stable, FourStar(ps)
  PROVE  FlagAfter
<1>0. 4 \in Star
  BY DEF Star
<1>1. CASE FourStarCharacterEvent(ps)
  <2>1. Featured(4) = FourStarChrUp
    BY <1>1 DEF FourStarCharacterEvent, Featured
  <2>2. rare' = 4 /\ (isRateUp' = 0 \/ item' \in FourStarChrUp)
    BY <1>1 DEF FourStarCharacterEvent, FourStarDrop
  <2>3. QED BY <1>0, <2>1, <2>2 DEF FlagAfter
<1>2. CASE FourStarWeaponEvent(ps)
  <2>1. Featured(4) = FourStarWpnUp
    BY <1>2 DEF FourStarWeaponEvent, Featured
  <2>2. rare' = 4 /\ (isRateUp' = 0 \/ item' \in FourStarWpnUp)
    BY <1>2 DEF FourStarWeaponEvent, FourStarDrop
  <2>3. QED BY <1>0, <2>1, <2>2 DEF FlagAfter
<1>3. CASE FourStarChronicle(ps)
  <2>1. Featured(4) = ChroniclePool[4]["chr"] \cup ChroniclePool[4]["wpn"]
    BY <1>3 DEF FourStarChronicle, Featured
  <2>2. rare' = 4 /\ \E c \in Class : item' \in ChroniclePool[4][c]
    BY <1>3 DEF FourStarChronicle, FourStarDrop
  <2>3. QED BY <1>0, <2>1, <2>2 DEF FlagAfter, Class
<1>4. CASE FourStarNovice(ps) \/ FourStarStandard(ps)
  <2>1. isRateUp' = 0
    BY <1>4 DEF FourStarNovice, FourStarStandard, FourStarDrop
  <2>2. QED BY <2>1 DEF FlagAfter
<1>5. QED BY <1>1, <1>2, <1>3, <1>4 DEF FourStar

LEMMA FlagOfDrop ==
  ASSUME TypeOK, CourseOffered, NEW ps \in Stable, DoAPull(ps)
  PROVE  FlagAfter
<1>1. CASE ThreeStarDrop(ps)
  BY <1>1 DEF ThreeStarDrop, FlagAfter
<1>2. QED BY <1>1, FlagOfFive, FlagOfFour DEF DoAPull

\* Every state main hands over charts a course where one is needed.
LEMMA CourseGiven ==
  ASSUME WeaponCourseGiven, NEW g \in Given, cfg = g.cfg
  PROVE  CourseOffered
BY GivenAssumption DEF WeaponCourseGiven, Legal, CourseOffered

-----------------------------------------------------------------------------
(* The promises. *)

\* A wish keeps the promises when it comes in time, is flagged where one is
\* owed, is what its flag says, and is the course where that is due.
LEMMA KeptWhen ==
  ASSUME (terms.hard5 > 0 /\ rare' # 5) => dry[5] + 1 < terms.hard5,
         (terms.hard4 > 0 /\ rare' = 3) => dry[4] < terms.hard4,
         (terms.rateUp /\ rare' \in {4, 5} /\ owed[rare'] = 1) => isRateUp' > 0,
         terms.rateUp => FlagAfter,
         (terms.fate > 0 /\ rare' = 5 /\ missed >= terms.fate) => item' = cfg.epitomizedPath
  PROVE  Promise!Kept(WishMade)
<1>1. /\ WishMade.star = rare' /\ WishMade.won = (isRateUp' > 0)
      /\ WishMade.featured = (rare' \in Star /\ item' \in Featured(rare'))
      /\ WishMade.hit = (item' = cfg.epitomizedPath)
  BY DEF WishMade
<1>2. (terms.rateUp /\ rare' \in {4, 5} /\ (isRateUp' > 0 \/ owed[rare'] = 1))
        => rare' \in Star /\ item' \in Featured(rare')
  BY DEF FlagAfter
<1>3. QED BY <1>1, <1>2 DEF Promise!Kept

\* Whatever the engine gives next is a wish the banner may give.
LEMMA WishKept ==
  ASSUME TypeOK, CourseOffered, LedgerInv, NEW ps \in Stable, DoAPull(ps)
  PROVE  Promise!Kept(WishMade)
<1>1. HistoryType /\ FiveStarCounted /\ FourStarCounted /\ LossRemembered /\ CourseCounted
  BY DEF LedgerInv
<1>2. Outcome /\ LossOwes
  BY PullOutcome
<1>3. /\ (terms.hard5 > 0 /\ rare' # 5) => dry[5] + 1 < terms.hard5
      /\ (terms.hard4 > 0 /\ rare' = 3) => dry[4] < terms.hard4
  BY <1>1, DroughtKept
<1>4. ASSUME terms.rateUp, rare' \in {4, 5}, owed[rare'] = 1 PROVE isRateUp' > 0
  <2>1. rare' \in Star /\ isRateUp' \in 0..2
    BY <1>2, <1>4 DEF Star, Outcome
  <2>2. cfg.banner \in EventBanner /\ RateUpAtRoll[rare'] = 1
    BY <1>1, <1>4, <2>1, TermsMeaning DEF LossRemembered
  <2>3. isRateUp' # 0
    BY <1>2, <2>1, <2>2 DEF LossOwes
  <2>4. QED BY <2>1, <2>3
<1>5. (terms.fate > 0 /\ rare' = 5 /\ missed >= terms.fate) => item' = cfg.epitomizedPath
  BY <1>1, CoursePaid
<1>6. FlagAfter
  BY FlagOfDrop
<1>7. QED BY <1>3, <1>4, <1>5, <1>6, KeptWhen

\* What the player writes down after a wish.
Written ==
  /\ terms' = terms
  /\ dry' = [r \in {4, 5} |->
               IF r = 5 THEN IF terms.hard5 = 0 \/ rare' = 5 THEN 0 ELSE dry[5] + 1
                        ELSE IF terms.hard4 = 0 \/ rare' # 3 THEN 0 ELSE dry[4] + 1]
  /\ owed' = [r \in {4, 5} |->
               IF terms.rateUp /\ r = rare' THEN IF isRateUp' > 0 THEN 0 ELSE 1 ELSE owed[r]]
  /\ missed' = IF terms.fate = 0 \/ rare' # 5 THEN missed
               ELSE IF item' = cfg.epitomizedPath THEN 0
               ELSE IF missed < terms.fate THEN missed + 1 ELSE missed

LEMMA RecordWrites ==
  ASSUME HistoryType, Record, cfg' = cfg
  PROVE  Written /\ HistoryType'
<1>1. Written
  BY DEF Record, Promise!Count, WishMade, Written
<1>2. /\ dry[4] \in Nat /\ dry[5] \in Nat /\ missed \in Nat
      /\ owed[4] \in {0, 1} /\ owed[5] \in {0, 1}
  BY DEF HistoryType, Star
<1>3. dry' \in [Star -> Nat]
  BY <1>1, <1>2 DEF Written, Star
<1>4. owed' \in [Star -> {0, 1}] /\ missed' \in Nat
  BY <1>1, <1>2 DEF Written, Star
<1>5. terms' = TermsOf(cfg')
  BY <1>1 DEF HistoryType, Written
<1>6. QED BY <1>1, <1>3, <1>4, <1>5 DEF HistoryType

\* A wish that keeps the promises, and is recorded, is a step of theirs.
LEMMA WishAllowed ==
  ASSUME rare' \in 3..5, Promise!Kept(WishMade), Record
  PROVE  Promise!Next
<1>1. WishMade \in Promise!Wishes
  BY DEF WishMade, Promise!Wishes
<1>2. QED BY <1>1 DEF Record, Promise!Next

\* The fate points stay level with the misses of the charted course.
LEMMA CourseStep ==
  ASSUME TypeOK, HistoryType, CourseCounted, NEW ps \in Stable, DoAPull(ps), Record
  PROVE  CourseCounted'
<1>1. Outcome /\ MissCounts
  BY PullOutcome
<1>2. cfg' = cfg /\ Written
  BY <1>1, RecordWrites DEF Outcome
<1>3. SUFFICES ASSUME Charted
               PROVE  /\ cfg.banner \in {"WPN", "CHRONICLED"}
                      /\ missed' <= fatePoints' /\ fatePoints' <= 2
  BY <1>2 DEF CourseCounted, Charted
<1>4. /\ cfg.banner \in {"WPN", "CHRONICLED"}
      /\ missed \in Nat /\ missed <= fatePoints /\ fatePoints <= 2
  BY <1>3 DEF CourseCounted, HistoryType
<1>5. FateAtRoll = fatePoints /\ terms.fate = cfg.doEpitomized /\ terms.fate # 0
  BY <1>3, TermsMeaning DEF Charted, TypeOK, Config
<1>6. cfg.doEpitomized \in 0..2 /\ fatePoints \in 0..255
  BY DEF TypeOK, Config, Byte
<1>7. CASE rare' # 5
  BY <1>1, <1>2, <1>4, <1>5, <1>7 DEF Outcome, Written
<1>8. CASE rare' = 5 /\ item' # cfg.epitomizedPath
  <2>1. fatePoints < cfg.doEpitomized /\ fatePoints' = fatePoints + 1
    BY <1>1, <1>3, <1>4, <1>5, <1>6, <1>8 DEF MissCounts, Inc
  <2>2. missed' = IF missed < terms.fate THEN missed + 1 ELSE missed
    BY <1>2, <1>5, <1>8 DEF Written
  <2>3. QED BY <1>4, <1>5, <1>6, <2>1, <2>2
<1>9. CASE rare' = 5 /\ item' = cfg.epitomizedPath
  <2>1. missed' = 0
    BY <1>2, <1>5, <1>9 DEF Written
  <2>2. fatePoints' \in 0..2
    BY <1>1, <1>3, <1>4, <1>5, <1>6, <1>9 DEF MissCounts, Inc
  <2>3. QED BY <1>4, <2>1, <2>2
<1>10. QED BY <1>7, <1>8, <1>9

\* The droughts stay level with the counters.
LEMMA DroughtStep ==
  ASSUME TypeOK, HistoryType, FiveStarCounted, FourStarCounted,
         NEW ps \in Stable, DoAPull(ps), Record
  PROVE  FiveStarCounted' /\ FourStarCounted'
<1>1. Outcome
  BY PullOutcome
<1>2. cfg' = cfg /\ rare' \in 3..5 /\ terms' = terms /\ Written
  BY <1>1, RecordWrites DEF Outcome, Written
<1>3. /\ dry[4] \in Nat /\ dry[5] \in Nat
      /\ pity[4] \in 0..255 /\ pity[5] \in 0..255
  BY DEF HistoryType, TypeOK, Star, Byte
<1>4. FiveStarCounted'
  <2>1. SUFFICES ASSUME cfg.doPity[5] = 1
                 PROVE  dry'[5] = pity'[5] /\ pity'[5] <= terms.hard5
    BY <1>2 DEF FiveStarCounted
  <2>2. terms.hard5 > 0 /\ terms.hard5 \in Nat
    BY <2>1, TermsMeaning DEF HistoryType, TermsOf
  <2>3. CASE rare' = 5
    BY <1>1, <1>2, <2>2, <2>3 DEF Outcome, Written
  <2>4. CASE rare' # 5
    <3>1. pity[5] + 1 < terms.hard5 /\ pity'[5] = pity[5] + 1
      BY <1>1, <2>1, <2>4, MissFive DEF Outcome
    <3>2. dry'[5] = dry[5] + 1
      BY <1>2, <2>2, <2>4 DEF Written
    <3>3. QED BY <1>3, <2>1, <2>2, <3>1, <3>2 DEF FiveStarCounted
  <2>5. QED BY <2>3, <2>4
<1>5. FourStarCounted'
  <2>1. SUFFICES ASSUME cfg.doPity[4] = 1
                 PROVE  dry'[4] <= pity'[4] + 1 /\ (pity'[4] >= 12 => dry'[4] = 0)
    BY <1>2 DEF FourStarCounted
  <2>2. terms.hard4 # 0
    BY <2>1, TermsMeaning
  <2>3. PityAtRoll[4] = Inc(pity[4]) /\ PityAtRoll[4] \in 0..255
    BY <1>3, <2>1 DEF PityAtRoll, Star, Inc
  <2>4. CASE rare' = 3
    <3>1. pity'[4] = Inc(pity[4]) /\ pity'[4] <= 9
      BY <1>1, <2>1, <2>4, MissFour DEF Outcome
    <3>2. dry'[4] = dry[4] + 1
      BY <1>2, <2>2, <2>4 DEF Written
    <3>3. dry[4] <= pity[4] + 1 /\ (pity[4] >= 12 => dry[4] = 0)
      BY <2>1 DEF FourStarCounted
    <3>4. CASE pity[4] = 255
      BY <3>1, <3>2, <3>3, <3>4 DEF Inc
    <3>5. CASE pity[4] # 255
      <4>1. pity'[4] = pity[4] + 1
        BY <3>1, <3>5 DEF Inc
      <4>2. QED BY <1>3, <3>1, <3>2, <3>3, <4>1
    <3>6. QED BY <3>4, <3>5
  <2>5. CASE rare' # 3
    <3>1. dry'[4] = 0
      BY <1>2, <2>2, <2>5 DEF Written
    <3>2. pity'[4] \in 0..255
      BY <1>1, <1>2, <2>3, <2>5 DEF Outcome
    <3>3. QED BY <3>1, <3>2
  <2>6. QED BY <2>4, <2>5
<1>6. QED BY <1>4, <1>5

\* The counters stay level with the ledger through a call that is recorded.
LEMMA LedgerStep ==
  ASSUME TypeOK, LedgerInv, NEW ps \in Stable, DoAPull(ps), Record
  PROVE  LedgerInv'
<1>1. HistoryType /\ FiveStarCounted /\ FourStarCounted /\ LossRemembered /\ CourseCounted
  BY DEF LedgerInv
<1>2. Outcome /\ LossOwes /\ MissCounts
  BY PullOutcome
<1>3. cfg' = cfg /\ rare' \in 3..5 /\ isRateUp' \in 0..2 /\ terms' = terms /\ Written
  BY <1>1, <1>2, RecordWrites DEF Outcome, Written
<1>4. HistoryType'
  BY <1>1, <1>3, RecordWrites
<1>5. FiveStarCounted' /\ FourStarCounted'
  BY <1>1, DroughtStep
<1>6. LossRemembered'
  <2>1. SUFFICES ASSUME NEW r \in Star, owed'[r] = 1
                 PROVE  terms.rateUp /\ getRateUp'[r] = 1
    BY <1>3 DEF LossRemembered
  <2>2. owed'[r] = IF terms.rateUp /\ r = rare' THEN IF isRateUp' > 0 THEN 0 ELSE 1 ELSE owed[r]
    BY <1>3 DEF Written, Star
  <2>3. terms.rateUp => cfg.banner \in EventBanner
    BY <1>1, TermsMeaning
  <2>4. CASE terms.rateUp /\ r = rare'
    <3>1. isRateUp' = 0
      BY <1>3, <2>1, <2>2, <2>4
    <3>2. QED BY <1>2, <2>3, <2>4, <3>1 DEF LossOwes
  <2>5. CASE terms.rateUp /\ r # rare'
    <3>1. getRateUp[r] = 1
      BY <1>1, <2>1, <2>2, <2>5 DEF LossRemembered
    <3>2. RateUpAtRoll[r] = 1
      BY <1>1, <2>5, <3>1, TermsMeaning
    <3>3. QED BY <1>2, <2>5, <3>2 DEF Outcome, Star
  <2>6. CASE ~terms.rateUp
    BY <1>1, <2>1, <2>2, <2>6 DEF LossRemembered
  <2>7. QED BY <2>4, <2>5, <2>6
<1>7. CourseCounted'
  BY <1>1, CourseStep
<1>8. QED BY <1>4, <1>5, <1>6, <1>7 DEF LedgerInv

\* The ledger starts level with the engine, whatever legal state main hands over.
LEMMA LedgerStart ==
  ASSUME InitL
  PROVE  TypeOK /\ LedgerInv /\ Promise!Init
<1>1. PICK g \in Given : /\ cfg = g.cfg /\ pity = g.pity /\ pityS = g.pityS
                         /\ getRateUp = g.getRateUp /\ fatePoints = g.fatePoints
  BY DEF InitL, Init
<1>2. Legal(g)
  BY GivenAssumption
<1>3. TypeOK
  <2>1. pity \in [Star -> Byte] /\ fatePoints \in Byte
    BY <1>1, <1>2 DEF Legal, Byte
  <2>2. rare \in 3..5 /\ isRateUp \in 0..2 /\ item \in Items
    BY DEF InitL, Init, Items
  <2>3. QED BY <1>1, <1>2, <2>1, <2>2 DEF Legal, TypeOK
<1>4. /\ terms = TermsOf(cfg)
      /\ dry = [r \in {4, 5} |-> IF r = 5 THEN IF terms.hard5 = 0 THEN 0 ELSE pity[5]
                                          ELSE IF terms.hard4 = 0 THEN 0 ELSE pity[4]]
      /\ owed = [r \in {4, 5} |-> IF terms.rateUp THEN getRateUp[r] ELSE 0]
      /\ missed = IF terms.fate = 0 THEN 0 ELSE fatePoints
      /\ wish = Promise!NoneYet
  BY DEF InitL, Promise!Start
<1>5. /\ pity[4] \in 0..90 /\ pity[5] \in 0..90 /\ fatePoints \in 0..2
      /\ getRateUp[4] \in {0, 1} /\ getRateUp[5] \in {0, 1}
  BY <1>1, <1>2 DEF Legal, Star
<1>6. HistoryType
  <2>1. dry \in [Star -> Nat]
    BY <1>4, <1>5 DEF Star
  <2>2. owed \in [Star -> {0, 1}] /\ missed \in Nat
    BY <1>4, <1>5 DEF Star
  <2>3. QED BY <1>4, <2>1, <2>2 DEF HistoryType
<1>7. FiveStarCounted
  <2>1. SUFFICES ASSUME cfg.doPity[5] = 1 PROVE dry[5] = pity[5] /\ pity[5] <= terms.hard5
    BY DEF FiveStarCounted
  <2>2. terms.hard5 = IF cfg.banner \in WeaponBanner THEN 80 ELSE 90
    BY <1>4, <2>1 DEF TermsOf
  <2>3. pity[5] <= IF cfg.banner \in WeaponBanner THEN 79 ELSE 90
    BY <1>1, <1>2 DEF Legal
  <2>4. QED BY <1>4, <1>5, <2>2, <2>3
<1>8. FourStarCounted
  <2>1. SUFFICES ASSUME cfg.doPity[4] = 1
                 PROVE  dry[4] <= pity[4] + 1 /\ (pity[4] >= 12 => dry[4] = 0)
    BY DEF FourStarCounted
  <2>2. pity[4] <= IF cfg.banner \in WeaponBanner THEN 9 ELSE 11
    BY <1>1, <1>2 DEF Legal
  <2>3. dry[4] = 0 \/ dry[4] = pity[4]
    BY <1>4
  <2>4. QED BY <1>5, <2>2, <2>3
<1>9. LossRemembered
  BY <1>4, <1>5 DEF LossRemembered, Star
<1>10. CourseCounted
  <2>1. SUFFICES ASSUME Charted
                 PROVE  /\ cfg.banner \in {"WPN", "CHRONICLED"}
                        /\ missed <= fatePoints /\ fatePoints <= 2
    BY DEF CourseCounted
  <2>2. cfg.banner \in {"WPN", "CHRONICLED"}
    BY <1>1, <1>2, <2>1 DEF Legal, PathOffered, Charted
  <2>3. QED BY <1>4, <1>5, <2>2
<1>11. Promise!Init
  <2>1. terms \in Promise!Terms
    <3> DEFINE h5 == IF cfg.doPity[5] = 0 THEN 0 ELSE IF cfg.banner \in WeaponBanner THEN 80 ELSE 90
               h4 == IF cfg.doPity[4] = 0 THEN 0 ELSE 10
               ru == cfg.do5050 # 0 /\ cfg.banner \in EventBanner
               ft == IF cfg.epitomizedPath = NoItem THEN 0 ELSE cfg.doEpitomized
    <3>1. terms = [hard5 |-> h5, hard4 |-> h4, rateUp |-> ru, fate |-> ft]
      BY <1>4 DEF TermsOf
    <3>2. h5 \in Nat /\ h4 \in Nat /\ ft \in Nat
      BY <1>3 DEF TypeOK, Config
    <3>3. ru \in BOOLEAN
      OBVIOUS
    <3> HIDE DEF h5, h4, ru, ft
    <3>4. QED BY <3>1, <3>2, <3>3 DEF Promise!Terms
  <2>2. QED BY <1>4, <1>6, <2>1 DEF HistoryType, Star, Promise!Init
<1>12. QED BY <1>3, <1>6, <1>7, <1>8, <1>9, <1>10, <1>11 DEF LedgerInv

\* The engine's counters and the player's ledger stay level in every behaviour.
THEOREM LedgerCorrect == SpecL => [](TypeOK /\ LedgerInv)
<1>1. InitL => TypeOK /\ LedgerInv
  BY LedgerStart
<1>2. TypeOK /\ LedgerInv /\ [NextL]_varsL => (TypeOK /\ LedgerInv)'
  <2> SUFFICES ASSUME TypeOK, LedgerInv, [NextL]_varsL PROVE TypeOK' /\ LedgerInv'
    OBVIOUS
  <2>1. CASE NextL
    <3>1. pityS \in Stable /\ DoAPull(pityS) /\ Record
      BY <2>1 DEF TypeOK, Stable, NextL, Next
    <3>2. QED BY <3>1, PullType, LedgerStep
  <2>2. CASE UNCHANGED varsL
    BY <2>2 DEF varsL, vars, ledger, TypeOK, LedgerInv, HistoryType, FiveStarCounted,
         FourStarCounted, LossRemembered, CourseCounted, Charted
  <2>3. QED BY <2>1, <2>2
<1>3. QED BY <1>1, <1>2, PTL DEF SpecL

\* The engine implements the banner's promises, as long as a course is charted
\* on the weapon banner: hard pity, the guarantee after a loss and the charted
\* course hold for every order of drops (gacha.c 117-594).
THEOREM PromiseCorrect ==
  ASSUME WeaponCourseGiven
  PROVE  SpecL => PromiseKept
<1>1. InitL => Promise!Init /\ CourseOffered
  <2> SUFFICES ASSUME InitL PROVE Promise!Init /\ CourseOffered
    OBVIOUS
  <2>1. PICK g \in Given : cfg = g.cfg
    BY DEF InitL, Init
  <2>2. QED BY <2>1, CourseGiven, LedgerStart
<1>2. TypeOK /\ CourseOffered /\ LedgerInv /\ [NextL]_varsL
        => CourseOffered' /\ [Promise!Next]_(Promise!promise)
  <2> SUFFICES ASSUME TypeOK, CourseOffered, LedgerInv, [NextL]_varsL
               PROVE  CourseOffered' /\ [Promise!Next]_(Promise!promise)
    OBVIOUS
  <2>1. CASE NextL
    <3>1. pityS \in Stable /\ DoAPull(pityS) /\ Record
      BY <2>1 DEF TypeOK, Stable, NextL, Next
    <3>2. Promise!Kept(WishMade)
      BY <3>1, WishKept
    <3>3. cfg' = cfg /\ rare' \in 3..5
      BY <3>1, PullOutcome DEF Outcome
    <3>4. QED BY <3>1, <3>2, <3>3, WishAllowed DEF CourseOffered
  <2>2. CASE UNCHANGED varsL
    BY <2>2 DEF varsL, vars, ledger, CourseOffered, Promise!promise
  <2>3. QED BY <2>1, <2>2
<1>3. QED BY <1>1, <1>2, LedgerCorrect, PTL DEF SpecL, PromiseKept, Promise!Spec

-----------------------------------------------------------------------------
(* The two properties of single drops, under the same condition. *)

\* Under -r the guarantee is set before every roll, so that no drop is lost.
LEMMA NoneLost ==
  ASSUME TypeOK, NEW ps \in Stable, DoAPull(ps), cfg.do5050 = -1,
         rare' \in Star, cfg.banner \in EventBanner
  PROVE  isRateUp' > 0
<1>1. RateUpAtRoll[rare'] = 1
  BY DEF RateUpAtRoll
<1>2. isRateUp' # 0 /\ isRateUp' \in 0..2
  BY <1>1, PullOutcome DEF LossOwes, Outcome
<1>3. QED BY <1>2

\* Both properties after one call, whatever counters -C and -W left behind.
LEMMA FeaturedStep ==
  ASSUME TypeOK, CourseOffered, NEW ps \in Stable, DoAPull(ps)
  PROVE  CourseOffered' /\ FlagIsTrue' /\ RateUpOnly'
<1>1. cfg' = cfg
  BY PullOutcome DEF Outcome
<1>2. FlagAfter
  BY FlagOfDrop
<1>3. Featured(rare)' = Featured(rare')
  BY <1>1 DEF Featured, Charted
<1>4. FlagIsTrue'
  BY <1>2, <1>3 DEF FlagIsTrue, FlagAfter
<1>5. RateUpOnly'
  BY <1>1, <1>4, NoneLost DEF RateUpOnly, FlagIsTrue, EventBanner
<1>6. QED BY <1>1, <1>4, <1>5 DEF CourseOffered

LEMMA FeaturedAlways ==
  ASSUME WeaponCourseGiven
  PROVE  Spec => [](FlagIsTrue /\ RateUpOnly)
<1>1. Init => CourseOffered /\ FlagIsTrue /\ RateUpOnly
  <2> SUFFICES ASSUME Init PROVE CourseOffered /\ FlagIsTrue /\ RateUpOnly
    OBVIOUS
  <2>1. PICK g \in Given : cfg = g.cfg
    BY DEF Init
  <2>2. CourseOffered
    BY <2>1, CourseGiven
  <2>3. QED BY <2>2 DEF Init, FlagIsTrue, RateUpOnly, Star
<1>2. TypeOK /\ CourseOffered /\ FlagIsTrue /\ RateUpOnly /\ [Next]_vars
        => CourseOffered' /\ FlagIsTrue' /\ RateUpOnly'
  <2> SUFFICES ASSUME TypeOK, CourseOffered, FlagIsTrue, RateUpOnly, [Next]_vars
               PROVE  CourseOffered' /\ FlagIsTrue' /\ RateUpOnly'
    OBVIOUS
  <2>1. CASE Next
    <3>1. pityS \in Stable
      BY DEF TypeOK, Stable
    <3>2. QED BY <2>1, <3>1, FeaturedStep DEF Next
  <2>2. CASE UNCHANGED vars
    BY <2>2 DEF vars, CourseOffered, FlagIsTrue, RateUpOnly, Featured, Charted
  <2>3. QED BY <2>1, <2>2
<1>3. QED BY <1>1, <1>2, TypeCorrect, PTL DEF Spec

\* Where a course is charted on the weapon banner, an item called featured is
\* one the banner features (gacha.c 166-594 writes *isRateUp in some twenty
\* branches).
THEOREM FlagCorrect ==
  ASSUME WeaponCourseGiven
  PROVE  Spec => []FlagIsTrue
<1>1. Spec => [](FlagIsTrue /\ RateUpOnly)
  BY FeaturedAlways
<1>2. QED BY <1>1, PTL

\* Under -r only featured items drop, where a course is charted on the weapon
\* banner (gacha.c 142-149, yagiws.c 93-98).
THEOREM RateUpOnlyCorrect ==
  ASSUME WeaponCourseGiven
  PROVE  Spec => []RateUpOnly
<1>1. Spec => [](FlagIsTrue /\ RateUpOnly)
  BY FeaturedAlways
<1>2. QED BY <1>1, PTL
=============================================================================
