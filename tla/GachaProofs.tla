----------------------------- MODULE GachaProofs ----------------------------
(***************************************************************************)
(* Type correctness of the engine, for every table, every legal state main *)
(* can hand over and every number of wishes; and what one call does to the *)
(* stable counters, for the proofs of StableProofs and SessionProofs.      *)
(***************************************************************************)
EXTENDS Gacha, TLAPS

Stable == [Star -> [Class -> Byte]]    \* the type of pityS

\* ++ on an unsigned char gives an unsigned char.
LEMMA IncType == ASSUME NEW x \in Byte PROVE Inc(x) \in Byte
  BY DEF Inc, Byte

\* What a call computes before it rolls has the types of what it replaces.
LEMMA AtRollType ==
  ASSUME TypeOK, NEW ps \in Stable
  PROVE  /\ PityAtRoll \in [Star -> Byte]
         /\ StableAtRoll(ps) \in Stable
         /\ RateUpAtRoll \in [Star -> {0, 1}]
         /\ FateAtRoll \in Byte
<1>1. PityAtRoll \in [Star -> Byte]
  BY IncType DEF TypeOK, PityAtRoll
<1>2. StableAtRoll(ps) \in Stable
  <2>1. ASSUME NEW r \in Star, NEW c \in Class
        PROVE  (IF cfg.doSmooth[r] > 0 THEN Inc(ps[r][c]) ELSE ps[r][c]) \in Byte
    BY IncType DEF Stable
  <2>2. QED BY <2>1 DEF StableAtRoll, Stable
<1>3. RateUpAtRoll \in [Star -> {0, 1}]
  BY DEF TypeOK, RateUpAtRoll
<1>4. FateAtRoll \in Byte
  BY DEF TypeOK, FateAtRoll, Byte
<1>5. QED BY <1>1, <1>2, <1>3, <1>4

\* The stable function writes bytes.
LEMMA StableAfterType ==
  ASSUME NEW r \in Star, NEW s \in [Class -> Byte], NEW c \in Class
  PROVE  /\ StableAfter(r, s, c) \in [Class -> Byte]
         /\ [s EXCEPT ![c] = 0] \in [Class -> Byte]
         /\ BothReset \in [Class -> Byte]
  BY DEF StableAfter, BothReset, Byte

\* The pools an action draws from hold items.
LEMMA PoolTypes ==
  ASSUME cfg \in Config
  PROVE  /\ StdFiveStarChr \subseteq Items
         /\ \A c \in Class : /\ StdFiveStar(c) \subseteq Items
                             /\ EventFourStar(c) \subseteq Items
                             /\ StdFourStar(c) \subseteq Items
         /\ EventFourStarChr \subseteq Items
         /\ cfg.epitomizedPath \in Items
<1>1. cfg.stdPoolIndex \in PoolIndex /\ cfg.epitomizedPath \in Items
  BY DEF Config
<1>2. StdFiveStarChr \subseteq Items
  <2>1. ASSUME NEW k \in 1..FiveStarMaxIndex[cfg.stdPoolIndex] PROVE FiveStarChr[k] \in Items
    <3>1. k \in DOMAIN FiveStarChr
      BY <1>1, IndexAssumption
    <3>2. QED BY <3>1, CharacterAssumption
  <2>2. QED BY <2>1 DEF StdFiveStarChr
<1>3. ASSUME NEW k \in 1..(FourStarMaxIndex[cfg.stdPoolIndex] + 3) PROVE FourStarChr[k] \in Items
  <2>1. k \in DOMAIN FourStarChr
    BY <1>1, IndexAssumption
  <2>2. QED BY <2>1, CharacterAssumption
<1>4. EventFourStarChr \subseteq Items /\ StdFourStarChr \subseteq Items
  <2>1. StdFourStarChr \subseteq Items
    BY <1>3 DEF StdFourStarChr
  <2>2. EventFourStarChr \subseteq Items
    <3>1. ASSUME NEW k \in 1..FourStarMaxIndex[cfg.stdPoolIndex] PROVE FourStarChr[k + 3] \in Items
      <4>1. k + 3 \in 1..(FourStarMaxIndex[cfg.stdPoolIndex] + 3)
        BY <1>1, IndexAssumption
      <4>2. QED BY <4>1, <1>3
    <3>2. QED BY <3>1 DEF EventFourStarChr
  <2>3. QED BY <2>1, <2>2
<1>5. FiveStarWpn \subseteq Items /\ FourStarWpn \subseteq Items
  BY WeaponAssumption
<1>6. QED
  BY <1>1, <1>2, <1>4, <1>5 DEF StdFiveStar, EventFourStar, StdFourStar, Class

\* What a 5-star drop looks like, whatever the banner: values of the right
\* types, a loss exactly when it leaves a guarantee behind (on the banners that
\* feature items), and fate points that count the misses of a charted course.
FiveStarEffect(ps, up, it, rate, fate, s) ==
  /\ FiveStarDrop(ps, up, it, rate, fate, s)
  /\ cfg.banner \in {"CHAR1", "CHAR2", "WPN", "CHRONICLED"} =>
       /\ rate = 1 => up = 0
       /\ up = 0 => RateUpAtRoll[5] = 0 /\ rate = 1
  /\ (Charted /\ cfg.banner \in {"WPN", "CHRONICLED"}) =>
       \/ it = cfg.epitomizedPath /\ fate = 0
       \/ FateAtRoll < cfg.doEpitomized /\ fate = Inc(FateAtRoll)

LEMMA FiveStarShape ==
  ASSUME TypeOK, NEW ps \in Stable, FiveStar(ps)
  PROVE  \E up \in 0..2, it \in Items, rate \in {0, 1}, fate \in Byte, s \in [Class -> Byte] :
            FiveStarEffect(ps, up, it, rate, fate, s)
<1> DEFINE Goal == \E up \in 0..2, it \in Items, rate \in {0, 1}, fate \in Byte,
                      s \in [Class -> Byte] : FiveStarEffect(ps, up, it, rate, fate, s)
<1> SUFFICES Goal
  OBVIOUS
<1>1. /\ RateUpAtRoll \in [Star -> {0, 1}] /\ FateAtRoll \in Byte
      /\ Inc(FateAtRoll) \in Byte /\ 0 \in Byte
      /\ StableAtRoll(ps)[5] \in [Class -> Byte]
      /\ BothReset \in [Class -> Byte]
  <2>1. RateUpAtRoll \in [Star -> {0, 1}] /\ FateAtRoll \in Byte /\ StableAtRoll(ps) \in Stable
    BY AtRollType
  <2>2. Inc(FateAtRoll) \in Byte
    BY <2>1, IncType
  <2>3. 5 \in Star /\ 0 \in Byte
    BY DEF Star, Byte
  <2>4. QED BY <2>1, <2>2, <2>3 DEF Stable, BothReset
<1>2. cfg \in Config /\ StdFiveStarChr \subseteq Items /\ cfg.epitomizedPath \in Items
  BY PoolTypes DEF TypeOK
<1> HIDE DEF Goal
<1>3. CASE FiveStarCharacterEvent(ps)
  <2>0. cfg.banner \in {"CHAR1", "CHAR2"} /\ FiveStarChrUp[cfg.banner] \in Items
    BY <1>3, CharacterAssumption DEF FiveStarCharacterEvent
  <2>1. CASE FiveStarDrop(ps, 1, FiveStarChrUp[cfg.banner], 0, 0, BothReset)
    <3>1. FiveStarEffect(ps, 1, FiveStarChrUp[cfg.banner], 0, 0, BothReset)
      BY <2>0, <2>1 DEF FiveStarEffect
    <3>2. QED BY <1>1, <2>0, <3>1 DEF Goal
  <2>2. CASE FiveStarDrop(ps, 2, FiveStarChrUp[cfg.banner], 0, 0, BothReset)
    <3>1. FiveStarEffect(ps, 2, FiveStarChrUp[cfg.banner], 0, 0, BothReset)
      BY <2>0, <2>2 DEF FiveStarEffect
    <3>2. QED BY <1>1, <2>0, <3>1 DEF Goal
  <2>3. ASSUME RateUpAtRoll[5] = 0, NEW it \in StdFiveStarChr,
               FiveStarDrop(ps, 0, it, 1, Inc(FateAtRoll), BothReset)
        PROVE  Goal
    <3>1. FiveStarEffect(ps, 0, it, 1, Inc(FateAtRoll), BothReset)
      BY <2>0, <2>3 DEF FiveStarEffect
    <3>2. QED BY <1>1, <1>2, <3>1 DEF Goal
  <2>4. QED BY <1>3, <2>1, <2>2, <2>3 DEF FiveStarCharacterEvent
<1>4. CASE FiveStarWeaponEvent(ps)
  <2> DEFINE full == FateAtRoll >= cfg.doEpitomized
             path == cfg.epitomizedPath
             after(it) == IF path = NoItem THEN FateAtRoll
                          ELSE IF path = it THEN 0 ELSE Inc(FateAtRoll)
  <2>0. /\ cfg.banner = "WPN"
        /\ FiveStarWpnUp \subseteq Items /\ FiveStarWpn \subseteq Items
        /\ \A it \in Items : after(it) \in Byte
        /\ FateAtRoll \in Int /\ cfg.doEpitomized \in Int
    BY <1>1, <1>2, <1>4, WeaponAssumption DEF FiveStarWeaponEvent, Config, Byte
  <2>1. ASSUME full, FiveStarDrop(ps, 1, path, 0, 0, BothReset)
        PROVE  Goal
    <3>1. FiveStarEffect(ps, 1, path, 0, 0, BothReset)
      BY <2>0, <2>1 DEF FiveStarEffect
    <3>2. QED BY <1>1, <1>2, <3>1 DEF Goal
  <2>2. ASSUME ~full, NEW it \in FiveStarWpnUp,
               FiveStarDrop(ps, 1, it, 0, after(it), BothReset)
        PROVE  Goal
    <3>1. Charted => (it = path /\ after(it) = 0) \/ after(it) = Inc(FateAtRoll)
      BY DEF Charted
    <3>2. FateAtRoll < cfg.doEpitomized
      BY <2>0, <2>2
    <3> HIDE DEF after
    <3>3. FiveStarEffect(ps, 1, it, 0, after(it), BothReset)
      BY <2>0, <2>2, <3>1, <3>2 DEF FiveStarEffect
    <3>4. it \in Items /\ after(it) \in Byte
      BY <2>0
    <3>5. QED BY <1>1, <3>3, <3>4 DEF Goal
  <2>3. ASSUME ~full, RateUpAtRoll[5] = 0, NEW it \in FiveStarWpn,
               FiveStarDrop(ps, 0, it, 1, Inc(FateAtRoll), BothReset)
        PROVE  Goal
    <3>1. FateAtRoll < cfg.doEpitomized
      BY <2>0, <2>3
    <3>2. FiveStarEffect(ps, 0, it, 1, Inc(FateAtRoll), BothReset)
      BY <2>0, <2>3, <3>1 DEF FiveStarEffect
    <3>3. it \in Items /\ Inc(FateAtRoll) \in Byte /\ BothReset \in [Class -> Byte]
      BY <1>1, <2>0
    <3> HIDE DEF after
    <3>4. QED BY <3>2, <3>3 DEF Goal
  <2>4. QED BY <1>4, <2>1, <2>2, <2>3 DEF FiveStarWeaponEvent
<1>5. CASE FiveStarChroniclePath(ps)
  <2> DEFINE path == cfg.epitomizedPath
             pool == ChroniclePool[5][ClassOf(path)]
  <2>0. cfg.banner = "CHRONICLED" /\ pool \subseteq Items
    BY <1>5, ChronicleAssumption DEF FiveStarChroniclePath, Star, Class, ClassOf
  <2>1. ASSUME NEW it \in Items, it = path, FiveStarDrop(ps, 1, it, 0, 0, BothReset)
        PROVE  Goal
    <3>1. FiveStarEffect(ps, 1, it, 0, 0, BothReset)
      BY <2>0, <2>1 DEF FiveStarEffect
    <3>2. QED BY <1>1, <3>1 DEF Goal
  <2>2. ASSUME NEW it \in Items, FateAtRoll < cfg.doEpitomized, RateUpAtRoll[5] = 0,
               FiveStarDrop(ps, 0, it, 1, Inc(FateAtRoll), BothReset)
        PROVE  Goal
    <3>1. FiveStarEffect(ps, 0, it, 1, Inc(FateAtRoll), BothReset)
      BY <2>0, <2>2 DEF FiveStarEffect
    <3>2. QED BY <1>1, <3>1 DEF Goal
  <2>3. QED BY <1>2, <1>5, <2>0, <2>1, <2>2 DEF FiveStarChroniclePath
<1>6. CASE FiveStarChronicle(ps)
  <2>a. PICK c \in Class : \E it \in ChroniclePool[5][c] :
               FiveStarDrop(ps, 1, it, 0, 0, StableAfter(5, StableAtRoll(ps)[5], c))
    BY <1>6 DEF FiveStarChronicle
  <2>1. PICK it \in ChroniclePool[5][c] :
               FiveStarDrop(ps, 1, it, 0, 0, StableAfter(5, StableAtRoll(ps)[5], c))
    BY <2>a
  <2>2. it \in Items /\ StableAfter(5, StableAtRoll(ps)[5], c) \in [Class -> Byte]
    BY <1>1, ChronicleAssumption, StableAfterType DEF Star
  <2>3. FiveStarEffect(ps, 1, it, 0, 0, StableAfter(5, StableAtRoll(ps)[5], c))
    BY <1>6, <2>1 DEF FiveStarEffect, FiveStarChronicle
  <2>4. QED BY <1>1, <2>2, <2>3 DEF Goal
<1>7. CASE FiveStarOnlyCharacters(ps)
  <2>1. PICK it \in StdFiveStarChr : FiveStarDrop(ps, 0, it, 0, 0, BothReset)
    BY <1>7 DEF FiveStarOnlyCharacters
  <2>2. FiveStarEffect(ps, 0, it, 0, 0, BothReset)
    BY <1>7, <2>1 DEF FiveStarEffect, FiveStarOnlyCharacters
  <2>3. QED BY <1>1, <1>2, <2>2 DEF Goal
<1>8. CASE FiveStarOnlyWeapons(ps)
  <2>1. PICK it \in FiveStarWpn : FiveStarDrop(ps, 0, it, 0, 0, BothReset)
    BY <1>8 DEF FiveStarOnlyWeapons
  <2>2. FiveStarEffect(ps, 0, it, 0, 0, BothReset)
    BY <1>8, <2>1 DEF FiveStarEffect, FiveStarOnlyWeapons
  <2>3. it \in Items
    BY WeaponAssumption
  <2>4. QED BY <1>1, <2>2, <2>3 DEF Goal
<1>9. CASE FiveStarStandard(ps)
  <2>a. PICK c \in Class : \E it \in StdFiveStar(c) :
               FiveStarDrop(ps, 0, it, 0, 0, StableAfter(5, StableAtRoll(ps)[5], c))
    BY <1>9 DEF FiveStarStandard
  <2>1. PICK it \in StdFiveStar(c) :
               FiveStarDrop(ps, 0, it, 0, 0, StableAfter(5, StableAtRoll(ps)[5], c))
    BY <2>a
  <2>2. it \in Items /\ StableAfter(5, StableAtRoll(ps)[5], c) \in [Class -> Byte]
    BY <1>1, <1>2, PoolTypes, StableAfterType DEF Star
  <2>3. FiveStarEffect(ps, 0, it, 0, 0, StableAfter(5, StableAtRoll(ps)[5], c))
    BY <1>9, <2>1 DEF FiveStarEffect, FiveStarStandard
  <2>4. QED BY <1>1, <2>2, <2>3 DEF Goal
<1>10. QED
  BY <1>3, <1>4, <1>5, <1>6, <1>7, <1>8, <1>9 DEF FiveStar, Goal

\* The same for the 4-star drops, which leave the fate points alone.
FourStarEffect(ps, up, it, rate, s) ==
  /\ FourStarDrop(ps, up, it, rate, s)
  /\ cfg.banner \in {"CHAR1", "CHAR2", "WPN", "CHRONICLED"} =>
       /\ rate = 1 => up = 0
       /\ up = 0 => RateUpAtRoll[4] = 0 /\ rate = 1

LEMMA FourStarShape ==
  ASSUME TypeOK, NEW ps \in Stable, FourStar(ps)
  PROVE  \E up \in 0..2, it \in Items, rate \in {0, 1}, s \in [Class -> Byte] :
            FourStarEffect(ps, up, it, rate, s)
<1> DEFINE Goal == \E up \in 0..2, it \in Items, rate \in {0, 1}, s \in [Class -> Byte] :
                      FourStarEffect(ps, up, it, rate, s)
<1> SUFFICES Goal
  OBVIOUS
<1>1. StableAtRoll(ps)[4] \in [Class -> Byte] /\ BothReset \in [Class -> Byte]
  <2>1. StableAtRoll(ps) \in Stable
    BY AtRollType
  <2>2. 4 \in Star /\ 0 \in Byte
    BY DEF Star, Byte
  <2>3. QED BY <2>1, <2>2 DEF Stable, BothReset
<1>2. /\ EventFourStarChr \subseteq Items
      /\ \A c \in Class : EventFourStar(c) \subseteq Items /\ StdFourStar(c) \subseteq Items
  BY PoolTypes DEF TypeOK
<1> HIDE DEF Goal
<1>3. CASE FourStarCharacterEvent(ps)
  <2> DEFINE s == StableAtRoll(ps)[4]
  <2>1. ASSUME NEW it \in FourStarChrUp, FourStarDrop(ps, 1, it, 0, [s EXCEPT !["chr"] = 0])
        PROVE  Goal
    <3>1. it \in Items /\ [s EXCEPT !["chr"] = 0] \in [Class -> Byte]
      BY <1>1, CharacterAssumption, StableAfterType DEF Class, Star
    <3>2. FourStarEffect(ps, 1, it, 0, [s EXCEPT !["chr"] = 0])
      BY <2>1 DEF FourStarEffect
    <3>3. QED BY <3>1, <3>2 DEF Goal
  <2>2. ASSUME RateUpAtRoll[4] = 0, NEW c \in Class, NEW it \in EventFourStar(c),
               FourStarDrop(ps, 0, it, 1, StableAfter(4, s, c))
        PROVE  Goal
    <3>1. it \in Items /\ StableAfter(4, s, c) \in [Class -> Byte]
      BY <1>1, <1>2, StableAfterType DEF Star
    <3>2. FourStarEffect(ps, 0, it, 1, StableAfter(4, s, c))
      BY <2>2 DEF FourStarEffect
    <3>3. QED BY <3>1, <3>2 DEF Goal
  <2>3. QED BY <1>3, <2>1, <2>2 DEF FourStarCharacterEvent
<1>4. CASE FourStarWeaponEvent(ps)
  <2> DEFINE s == StableAtRoll(ps)[4]
  <2>1. ASSUME NEW it \in FourStarWpnUp, FourStarDrop(ps, 1, it, 0, [s EXCEPT !["wpn"] = 0])
        PROVE  Goal
    <3>1. it \in Items /\ [s EXCEPT !["wpn"] = 0] \in [Class -> Byte]
      BY <1>1, WeaponAssumption, StableAfterType DEF Class, Star
    <3>2. FourStarEffect(ps, 1, it, 0, [s EXCEPT !["wpn"] = 0])
      BY <2>1 DEF FourStarEffect
    <3>3. QED BY <3>1, <3>2 DEF Goal
  <2>2. ASSUME RateUpAtRoll[4] = 0, NEW c \in Class, NEW it \in EventFourStar(c),
               FourStarDrop(ps, 0, it, 1, StableAfter(4, s, c))
        PROVE  Goal
    <3>1. it \in Items /\ StableAfter(4, s, c) \in [Class -> Byte]
      BY <1>1, <1>2, StableAfterType DEF Star
    <3>2. FourStarEffect(ps, 0, it, 1, StableAfter(4, s, c))
      BY <2>2 DEF FourStarEffect
    <3>3. QED BY <3>1, <3>2 DEF Goal
  <2>3. QED BY <1>4, <2>1, <2>2 DEF FourStarWeaponEvent
<1>5. CASE FourStarChronicle(ps)
  <2>a. PICK c \in Class : \E it \in ChroniclePool[4][c] :
               FourStarDrop(ps, 1, it, 0, StableAfter(4, StableAtRoll(ps)[4], c))
    BY <1>5 DEF FourStarChronicle
  <2>1. PICK it \in ChroniclePool[4][c] :
               FourStarDrop(ps, 1, it, 0, StableAfter(4, StableAtRoll(ps)[4], c))
    BY <2>a
  <2>2. it \in Items /\ StableAfter(4, StableAtRoll(ps)[4], c) \in [Class -> Byte]
    BY <1>1, <1>2, ChronicleAssumption, StableAfterType DEF Star
  <2>3. FourStarEffect(ps, 1, it, 0, StableAfter(4, StableAtRoll(ps)[4], c))
    BY <1>5, <2>1 DEF FourStarEffect, FourStarChronicle
  <2>4. QED BY <2>2, <2>3 DEF Goal
<1>6. CASE FourStarNovice(ps)
  <2>1. PICK it \in EventFourStarChr : FourStarDrop(ps, 0, it, 0, BothReset)
    BY <1>6 DEF FourStarNovice
  <2>2. FourStarEffect(ps, 0, it, 0, BothReset)
    BY <1>6, <2>1 DEF FourStarEffect, FourStarNovice
  <2>3. QED BY <1>1, <1>2, <2>2 DEF Goal
<1>7. CASE FourStarStandard(ps)
  <2>a. PICK c \in Class : \E it \in StdFourStar(c) :
               FourStarDrop(ps, 0, it, 0, StableAfter(4, StableAtRoll(ps)[4], c))
    BY <1>7 DEF FourStarStandard
  <2>1. PICK it \in StdFourStar(c) :
               FourStarDrop(ps, 0, it, 0, StableAfter(4, StableAtRoll(ps)[4], c))
    BY <2>a
  <2>2. it \in Items /\ StableAfter(4, StableAtRoll(ps)[4], c) \in [Class -> Byte]
    BY <1>1, <1>2, ChronicleAssumption, StableAfterType DEF Star
  <2>3. FourStarEffect(ps, 0, it, 0, StableAfter(4, StableAtRoll(ps)[4], c))
    BY <1>7, <2>1 DEF FourStarEffect, FourStarStandard
  <2>4. QED BY <2>2, <2>3 DEF Goal
<1>8. QED
  BY <1>3, <1>4, <1>5, <1>6, <1>7 DEF FourStar

\* One call keeps every variable in its type.
LEMMA PullType ==
  ASSUME TypeOK, NEW ps \in Stable, DoAPull(ps)
  PROVE  TypeOK'
<1>1. /\ PityAtRoll \in [Star -> Byte] /\ StableAtRoll(ps) \in Stable
      /\ RateUpAtRoll \in [Star -> {0, 1}] /\ FateAtRoll \in Byte
  BY AtRollType
<1>2. 0 \in Byte /\ 4 \in Star /\ 5 \in Star /\ 3 \in 3..5 /\ 4 \in 3..5 /\ 5 \in 3..5 /\ 0 \in 0..2
  BY DEF Byte, Star
<1>3. CASE FiveStar(ps)
  <2>1. PICK up \in 0..2, it \in Items, rate \in {0, 1}, fate \in Byte, s \in [Class -> Byte] :
               FiveStarEffect(ps, up, it, rate, fate, s)
    BY <1>3, FiveStarShape
  <2>2. FiveStarDrop(ps, up, it, rate, fate, s)
    BY <2>1 DEF FiveStarEffect
  <2>3. QED BY <1>1, <1>2, <2>2 DEF FiveStarDrop, TypeOK, Stable
<1>4. CASE FourStar(ps)
  <2>1. PICK up \in 0..2, it \in Items, rate \in {0, 1}, s \in [Class -> Byte] :
               FourStarEffect(ps, up, it, rate, s)
    BY <1>4, FourStarShape
  <2>2. FourStarDrop(ps, up, it, rate, s)
    BY <2>1 DEF FourStarEffect
  <2>3. QED BY <1>1, <1>2, <2>2 DEF FourStarDrop, TypeOK, Stable
<1>5. CASE ThreeStarDrop(ps)
  <2>1. item' \in Items
    BY <1>5, WeaponAssumption DEF ThreeStarDrop
  <2>2. QED BY <1>1, <1>2, <1>5, <2>1 DEF ThreeStarDrop, TypeOK, Stable
<1>6. QED BY <1>3, <1>4, <1>5 DEF DoAPull

\* main starts the engine from values of the right types.
LEMMA InitType == Init => TypeOK
<1> SUFFICES ASSUME Init PROVE TypeOK
  OBVIOUS
<1>1. PICK g \in Given : /\ cfg = g.cfg /\ pity = g.pity /\ pityS = g.pityS
                         /\ getRateUp = g.getRateUp /\ fatePoints = g.fatePoints
  BY DEF Init
<1>2. Legal(g)
  BY GivenAssumption
<1>3. pity \in [Star -> Byte] /\ fatePoints \in Byte
  BY <1>1, <1>2 DEF Legal, Byte
<1>4. rare \in 3..5 /\ isRateUp \in 0..2 /\ item \in Items
  BY DEF Init, Items
<1>5. QED BY <1>1, <1>2, <1>3, <1>4 DEF Legal, TypeOK

\* Every variable keeps its type in every behaviour of the engine: no counter
\* leaves its byte, and every pull gives an item of the tables.
THEOREM TypeCorrect == Spec => []TypeOK
<1>1. TypeOK /\ [Next]_vars => TypeOK'
  <2> SUFFICES ASSUME TypeOK, [Next]_vars PROVE TypeOK'
    OBVIOUS
  <2>1. CASE Next
    <3>1. pityS \in Stable
      BY DEF TypeOK, Stable
    <3>2. QED BY <2>1, <3>1, PullType DEF Next
  <2>2. CASE UNCHANGED vars
    BY <2>2 DEF TypeOK, vars
  <2>3. QED BY <2>1, <2>2
<1>2. QED BY InitType, <1>1, PTL DEF Spec

-----------------------------------------------------------------------------
(* What one call does to the stable counters, and which class it can give. *)

\* The pool of a class holds items of that class.
LEMMA PoolClasses ==
  ASSUME cfg \in Config, NEW c \in Class
  PROVE  /\ \A it \in StdFiveStar(c) : ClassOf(it) = c
         /\ \A it \in EventFourStar(c) : ClassOf(it) = c
         /\ \A it \in StdFourStar(c) : ClassOf(it) = c
         /\ \A r \in Star : \A it \in ChroniclePool[r][c] : ClassOf(it) = c
         /\ \A it \in FourStarChrUp : ClassOf(it) = "chr"
         /\ \A it \in FourStarWpnUp : ClassOf(it) = "wpn"
<1>1. cfg.stdPoolIndex \in PoolIndex
  BY DEF Config
<1>2. \A it \in StdFiveStarChr : ClassOf(it) = "chr"
  <2>1. ASSUME NEW k \in 1..FiveStarMaxIndex[cfg.stdPoolIndex] PROVE ~IsWeapon(FiveStarChr[k])
    <3>1. k \in DOMAIN FiveStarChr
      BY <1>1, IndexAssumption
    <3>2. QED BY <3>1, CharacterAssumption
  <2>2. QED BY <2>1 DEF StdFiveStarChr, ClassOf
<1>3. ASSUME NEW k \in 1..(FourStarMaxIndex[cfg.stdPoolIndex] + 3) PROVE ~IsWeapon(FourStarChr[k])
  <2>1. k \in DOMAIN FourStarChr
    BY <1>1, IndexAssumption
  <2>2. QED BY <2>1, CharacterAssumption
<1>4. \A it \in StdFourStarChr : ClassOf(it) = "chr"
  BY <1>3 DEF StdFourStarChr, ClassOf
<1>5. \A it \in EventFourStarChr : ClassOf(it) = "chr"
  <2>1. ASSUME NEW k \in 1..FourStarMaxIndex[cfg.stdPoolIndex] PROVE ~IsWeapon(FourStarChr[k + 3])
    <3>1. k + 3 \in 1..(FourStarMaxIndex[cfg.stdPoolIndex] + 3)
      BY <1>1, IndexAssumption
    <3>2. QED BY <3>1, <1>3
  <2>2. QED BY <2>1 DEF EventFourStarChr, ClassOf
<1>6. \A it \in FiveStarWpn \cup FourStarWpn \cup FourStarWpnUp : ClassOf(it) = "wpn"
  BY WeaponAssumption DEF ClassOf
<1>7. \A it \in FourStarChrUp : ClassOf(it) = "chr"
  BY CharacterAssumption DEF ClassOf
<1>8. QED
  BY <1>2, <1>4, <1>5, <1>6, <1>7, ChronicleAssumption
     DEF StdFiveStar, EventFourStar, StdFourStar, Class

\* A drop of a star, where the stable mechanism is on and its class is split:
\* the counter of the class drawn is reset, and no other of that star.
ResetsItsClass(ps, r) ==
  pityS' = [StableAtRoll(ps) EXCEPT ![r] = [StableAtRoll(ps)[r] EXCEPT ![ClassOf(item')] = 0]]

LEMMA FiveStarResets ==
  ASSUME TypeOK, NEW ps \in Stable, FiveStar(ps), SplitBanner(5), cfg.doSmooth[5] = 1
  PROVE  /\ ResetsItsClass(ps, 5)
         /\ Splits(5, StableAtRoll(ps)[5], ClassOf(item'))
<1> DEFINE s == StableAtRoll(ps)[5]
<1>1. cfg \in Config
  BY DEF TypeOK
<1>2. ASSUME NEW c \in Class, NEW it, ClassOf(it) = c, Splits(5, s, c), NEW up,
             FiveStarDrop(ps, up, it, 0, 0, StableAfter(5, s, c))
      PROVE  ResetsItsClass(ps, 5) /\ Splits(5, s, ClassOf(item'))
  <2>1. StableAfter(5, s, c) = [s EXCEPT ![c] = 0]
    BY DEF StableAfter
  <2>2. item' = it /\ pityS' = [StableAtRoll(ps) EXCEPT ![5] = StableAfter(5, s, c)]
    BY <1>2 DEF FiveStarDrop
  <2>3. QED BY <1>2, <2>1, <2>2 DEF ResetsItsClass
<1>3. CASE FiveStarStandard(ps)
  <2>1. PICK c \in Class : Splits(5, s, c) /\ \E it \in StdFiveStar(c) :
               FiveStarDrop(ps, 0, it, 0, 0, StableAfter(5, s, c))
    BY <1>3 DEF FiveStarStandard
  <2>2. PICK it \in StdFiveStar(c) : FiveStarDrop(ps, 0, it, 0, 0, StableAfter(5, s, c))
    BY <2>1
  <2>3. ClassOf(it) = c
    BY <1>1, PoolClasses
  <2>4. QED BY <1>2, <2>1, <2>2, <2>3
<1>4. CASE FiveStarChronicle(ps)
  <2>1. PICK c \in Class : Splits(5, s, c) /\ \E it \in ChroniclePool[5][c] :
               FiveStarDrop(ps, 1, it, 0, 0, StableAfter(5, s, c))
    BY <1>4 DEF FiveStarChronicle
  <2>2. PICK it \in ChroniclePool[5][c] : FiveStarDrop(ps, 1, it, 0, 0, StableAfter(5, s, c))
    BY <2>1
  <2>3. ClassOf(it) = c
    BY <1>1, PoolClasses DEF Star
  <2>4. QED BY <1>2, <2>1, <2>2, <2>3
<1>5. QED
  BY <1>3, <1>4 DEF FiveStar, SplitBanner, FiveStarCharacterEvent, FiveStarWeaponEvent,
     FiveStarChroniclePath, FiveStarOnlyCharacters, FiveStarOnlyWeapons

LEMMA FourStarResets ==
  ASSUME TypeOK, NEW ps \in Stable, FourStar(ps), SplitBanner(4), cfg.doSmooth[4] = 1
  PROVE  /\ ResetsItsClass(ps, 4)
         /\ (cfg.banner \in {"CHAR1", "CHAR2", "WPN"} => isRateUp' = 0)
              => Splits(4, StableAtRoll(ps)[4], ClassOf(item'))
<1> DEFINE s == StableAtRoll(ps)[4]
           Goal == /\ ResetsItsClass(ps, 4)
                   /\ (cfg.banner \in {"CHAR1", "CHAR2", "WPN"} => isRateUp' = 0)
                        => Splits(4, s, ClassOf(item'))
<1> SUFFICES Goal
  OBVIOUS
<1>1. cfg \in Config
  BY DEF TypeOK
<1>2. ASSUME NEW c \in Class, NEW it, ClassOf(it) = c, Splits(4, s, c), NEW up, NEW rate,
             FourStarDrop(ps, up, it, rate, StableAfter(4, s, c))
      PROVE  Goal
  <2>1. StableAfter(4, s, c) = [s EXCEPT ![c] = 0]
    BY DEF StableAfter
  <2>2. item' = it /\ pityS' = [StableAtRoll(ps) EXCEPT ![4] = StableAfter(4, s, c)]
    BY <1>2 DEF FourStarDrop
  <2>3. QED BY <1>2, <2>1, <2>2 DEF ResetsItsClass
<1>3. ASSUME NEW c \in Class, NEW it, ClassOf(it) = c,
             cfg.banner \in {"CHAR1", "CHAR2", "WPN"},
             FourStarDrop(ps, 1, it, 0, [s EXCEPT ![c] = 0])
      PROVE  Goal
  <2>1. isRateUp' = 1 /\ item' = it /\ pityS' = [StableAtRoll(ps) EXCEPT ![4] = [s EXCEPT ![c] = 0]]
    BY <1>3 DEF FourStarDrop
  <2>2. QED BY <1>3, <2>1 DEF ResetsItsClass
<1> HIDE DEF Goal
<1>4. ASSUME NEW c \in Class, Splits(4, s, c), NEW it \in EventFourStar(c),
             FourStarDrop(ps, 0, it, 1, StableAfter(4, s, c))
      PROVE  Goal
  <2>1. ClassOf(it) = c
    BY <1>1, PoolClasses
  <2>2. QED BY <1>2, <1>4, <2>1
<1>5. CASE FourStarCharacterEvent(ps)
  <2>1. ASSUME NEW it \in FourStarChrUp, FourStarDrop(ps, 1, it, 0, [s EXCEPT !["chr"] = 0])
        PROVE  Goal
    <3>1. "chr" \in Class /\ ClassOf(it) = "chr"
      BY <1>1, PoolClasses DEF Class
    <3>2. cfg.banner \in {"CHAR1", "CHAR2", "WPN"}
      BY <1>5 DEF FourStarCharacterEvent
    <3>3. QED BY <1>3, <2>1, <3>1, <3>2
  <2>2. QED BY <1>4, <1>5, <2>1 DEF FourStarCharacterEvent
<1>6. CASE FourStarWeaponEvent(ps)
  <2>1. ASSUME NEW it \in FourStarWpnUp, FourStarDrop(ps, 1, it, 0, [s EXCEPT !["wpn"] = 0])
        PROVE  Goal
    <3>1. "wpn" \in Class /\ ClassOf(it) = "wpn"
      BY <1>1, PoolClasses DEF Class
    <3>2. cfg.banner \in {"CHAR1", "CHAR2", "WPN"}
      BY <1>6 DEF FourStarWeaponEvent
    <3>3. QED BY <1>3, <2>1, <3>1, <3>2
  <2>2. QED BY <1>4, <1>6, <2>1 DEF FourStarWeaponEvent
<1>7. CASE FourStarChronicle(ps)
  <2>1. PICK c \in Class : Splits(4, s, c) /\ \E it \in ChroniclePool[4][c] :
               FourStarDrop(ps, 1, it, 0, StableAfter(4, s, c))
    BY <1>7 DEF FourStarChronicle
  <2>2. PICK it \in ChroniclePool[4][c] : FourStarDrop(ps, 1, it, 0, StableAfter(4, s, c))
    BY <2>1
  <2>3. ClassOf(it) = c
    BY <1>1, PoolClasses DEF Star
  <2>4. QED BY <1>2, <2>1, <2>2, <2>3
<1>8. CASE FourStarStandard(ps)
  <2>1. PICK c \in Class : Splits(4, s, c) /\ \E it \in StdFourStar(c) :
               FourStarDrop(ps, 0, it, 0, StableAfter(4, s, c))
    BY <1>8 DEF FourStarStandard
  <2>2. PICK it \in StdFourStar(c) : FourStarDrop(ps, 0, it, 0, StableAfter(4, s, c))
    BY <2>1
  <2>3. ClassOf(it) = c
    BY <1>1, PoolClasses
  <2>4. QED BY <1>2, <2>1, <2>2, <2>3
<1>9. QED
  BY <1>5, <1>6, <1>7, <1>8 DEF FourStar, SplitBanner, FourStarNovice

\* What a call does to a counter of a star whose classes are split.
LEMMA CounterAfter ==
  ASSUME TypeOK, NEW ps \in Stable, DoAPull(ps),
         NEW r \in Star, NEW c \in Class, cfg.doSmooth[r] = 1, SplitBanner(r)
  PROVE  pityS'[r][c] = IF r = rare' /\ c = ClassOf(item') THEN 0 ELSE Inc(ps[r][c])
<1>1. StableAtRoll(ps) \in Stable /\ StableAtRoll(ps)[r][c] = Inc(ps[r][c])
  BY AtRollType DEF StableAtRoll
<1>2. 4 \in Star /\ 5 \in Star /\ r \in {4, 5} /\ ClassOf(item') \in Class
  BY DEF Star, ClassOf, Class
<1>3. CASE ThreeStarDrop(ps)
  BY <1>1, <1>2, <1>3 DEF ThreeStarDrop
<1>4. CASE FiveStar(ps)
  <2>1. rare' = 5 /\ \E s \in [Class -> Byte] : pityS' = [StableAtRoll(ps) EXCEPT ![5] = s]
    BY <1>4, FiveStarShape DEF FiveStarEffect, FiveStarDrop
  <2>2. CASE r = 5
    <3>1. ResetsItsClass(ps, 5)
      BY <1>4, <2>2, FiveStarResets
    <3>2. QED BY <1>1, <1>2, <2>1, <2>2, <3>1 DEF ResetsItsClass, Stable
  <2>3. CASE r = 4
    BY <1>1, <1>2, <2>1, <2>3 DEF Stable
  <2>4. QED BY <1>2, <2>2, <2>3
<1>5. CASE FourStar(ps)
  <2>1. rare' = 4 /\ \E s \in [Class -> Byte] : pityS' = [StableAtRoll(ps) EXCEPT ![4] = s]
    BY <1>5, FourStarShape DEF FourStarEffect, FourStarDrop
  <2>2. CASE r = 4
    <3>1. ResetsItsClass(ps, 4)
      BY <1>5, <2>2, FourStarResets
    <3>2. QED BY <1>1, <1>2, <2>1, <2>2, <3>1 DEF ResetsItsClass, Stable
  <2>3. CASE r = 5
    BY <1>1, <1>2, <2>1, <2>3 DEF Stable
  <2>4. QED BY <1>2, <2>2, <2>3
<1>6. QED BY <1>3, <1>4, <1>5 DEF DoAPull

\* An overdue class that is longer out than the other is favoured for certain.
LEMMA OverdueIsNext ==
  ASSUME TypeOK, NEW r \in Star, NEW s \in [Class -> Byte], NEW c \in Class, NEW d \in Class,
         c # d, cfg.doSmooth[r] = 1, s[c] > s[d], s[c] >= Overdue(r),
         NEW e \in Class, Splits(r, s, e)
  PROVE  e = c
<1>0. \A x, y \in 0..255 : x > y => ~(x <= y) /\ y <= x
  OBVIOUS
<1>1. s["chr"] \in 0..255 /\ s["wpn"] \in 0..255 /\ s[c] \in 0..255
  BY DEF Class, Byte
<1>2. Favoured(s) = c
  <2>1. CASE c = "chr" /\ d = "wpn"
    <3>1. s["chr"] > s["wpn"]
      BY <2>1, Zenon
    <3>2. ~(s["chr"] <= s["wpn"])
      BY <1>0, <1>1, <3>1, Zenon
    <3>3. QED BY <2>1, <3>2, Zenon DEF Favoured
  <2>2. CASE c = "wpn" /\ d = "chr"
    <3>1. s["wpn"] > s["chr"]
      BY <2>2, Zenon
    <3>2. s["chr"] <= s["wpn"]
      BY <1>0, <1>1, <3>1, Zenon
    <3>3. QED BY <2>2, <3>2, Zenon DEF Favoured
  <2>3. QED BY <2>1, <2>2 DEF Class
<1>3. CASE r = 5
  <2>1. s[c] >= 180
    BY <1>3 DEF Overdue
  <2>2. SplitWeight(r, s[c]) = 30 + 300 * (s[c] - 146)
    BY <1>1, <1>3, <2>1 DEF SplitWeight, GetWeight5S
  <2>3. ~(SplitWeight(r, s[c]) < One)
    BY <1>1, <2>1, <2>2 DEF One
  <2>4. QED BY <1>2, <2>3 DEF Splits
<1>4. CASE r = 4 /\ cfg.banner \in WeaponBanner
  <2>1. s[c] >= 18
    BY <1>4 DEF Overdue
  <2>2. SplitWeight(r, s[c]) = 300 + 3000 * (s[c] - 14)
    BY <1>1, <1>4, <2>1 DEF SplitWeight, GetWeight4SW
  <2>3. ~(SplitWeight(r, s[c]) < One)
    BY <1>1, <2>1, <2>2 DEF One
  <2>4. QED BY <1>2, <2>3 DEF Splits
<1>5. CASE r = 4 /\ cfg.banner \notin WeaponBanner
  <2>1. s[c] >= 21
    BY <1>5 DEF Overdue
  <2>2. SplitWeight(r, s[c]) = 255 + 2550 * (s[c] - 17)
    BY <1>1, <1>5, <2>1 DEF SplitWeight, GetWeight4S
  <2>3. ~(SplitWeight(r, s[c]) < One)
    BY <1>1, <2>1, <2>2 DEF One
  <2>4. QED BY <1>2, <2>3 DEF Splits
<1>6. QED BY <1>3, <1>4, <1>5 DEF Star
=============================================================================
