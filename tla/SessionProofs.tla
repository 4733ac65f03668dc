---------------------------- MODULE SessionProofs ---------------------------
(***************************************************************************)
(* Whole sessions, of any length and for every table: types, the class     *)
(* that -C and -W force, which wish gives Noelle, the results printed, and *)
(* the promises, which Noelle's wish keeps where 5-star pity cannot fall   *)
(* due before it.                                                          *)
(***************************************************************************)
EXTENDS WishSession, WishLedgerProofs

\* -5 is at most 81 on the Beginners' Wish, and one more for every wish of -c:
\* from there on hard pity can fall due on the wish that gives Noelle, which
\* then puts it off by one.
NoelleInTime ==
  \A g \in Given : \A o \in Orders(g.cfg) :
     g.cfg.banner = "NOVICE" => g.pity[5] <= 81 + o.noviceCnt

\* What it comes to up to the 8th wish.
PityBehindWishes ==
  (cfg.banner = "NOVICE" /\ order.noviceCnt + i <= 7) => pity[5] <= 81 + order.noviceCnt + i

\* -C and -W leave bytes behind.
LEMMA ForcedType == ASSUME TypeOK PROVE Forced \in Stable
<1>1. pityS \in Stable
  BY DEF TypeOK, Stable
<1>2. CASE order.forceSmooth = 1
  <2>1. Forced = [r \in Star |-> [c \in Class |-> IF c = "chr" THEN 254 ELSE 255]]
    BY <1>2 DEF Forced
  <2>2. QED BY <2>1 DEF Stable, Byte
<1>3. CASE order.forceSmooth = 2
  <2>1. Forced = [r \in Star |-> [c \in Class |-> IF c = "wpn" THEN 254 ELSE 255]]
    BY <1>3 DEF Forced
  <2>2. QED BY <2>1 DEF Stable, Byte
<1>4. CASE order.forceSmooth \notin {1, 2}
  <2>1. Forced = pityS
    BY <1>4 DEF Forced
  <2>2. QED BY <1>1, <2>1
<1>5. QED BY <1>2, <1>3, <1>4

\* The wish that gives Noelle keeps every variable in its type.
LEMMA NoelleType ==
  ASSUME TypeOK, NoelleWish
  PROVE  TypeOK' /\ cfg' = cfg /\ rare' = 4 /\ fatePoints' = fatePoints
         /\ pity'[4] = 0 /\ pity'[5] = Inc(pity[5])
<1>1. Inc(pity[5]) \in Byte /\ 0 \in Byte /\ BothReset \in [Class -> Byte]
  <2>1. pity[5] \in Byte
    BY DEF TypeOK, Star
  <2>2. 0 \in Byte
    BY DEF Byte
  <2>3. QED BY <2>1, <2>2, IncType DEF BothReset
<1>2. pity' \in [Star -> Byte] /\ pity'[4] = 0 /\ pity'[5] = Inc(pity[5])
  BY <1>1 DEF NoelleWish, Star
<1>3. pityS' \in [Star -> [Class -> Byte]]
  BY <1>1 DEF NoelleWish, TypeOK
<1>4. getRateUp' \in [Star -> {0, 1}]
  BY DEF NoelleWish, TypeOK
<1>5. rare' = 4 /\ rare' \in 3..5 /\ isRateUp' \in 0..2 /\ item' \in Items /\ cfg' = cfg /\ fatePoints' = fatePoints
  BY DEF NoelleWish, Noelle, Items
<1>6. QED BY <1>2, <1>3, <1>4, <1>5 DEF TypeOK

LEMMA SessionStep ==
  ASSUME TypeOKS, [NextS]_varsS
  PROVE  TypeOKS'
<1>1. /\ TypeOK /\ order \in Order /\ i \in 0..order.pulls /\ order.pulls \in Nat
      /\ DOMAIN report \subseteq {1}
  BY DEF TypeOKS, Order
<1>2. CASE NoelleWish
  <2>1. i < order.pulls /\ i' = i + 1 /\ order' = order /\ report' = report
    BY <1>2 DEF NoelleWish
  <2>2. QED BY <1>1, <1>2, <2>1, NoelleType DEF TypeOKS
<1>3. CASE EngineWish
  <2>1. i < order.pulls /\ i' = i + 1 /\ order' = order /\ report' = report /\ DoAPull(Forced)
    BY <1>3 DEF EngineWish
  <2>2. TypeOK'
    BY <1>1, <2>1, ForcedType, PullType
  <2>3. QED BY <1>1, <2>1, <2>2 DEF TypeOKS
<1>4. CASE Report
  <2>1. UNCHANGED vars /\ i' = i /\ order' = order /\ DOMAIN report' \subseteq {1}
    BY <1>4 DEF Report, varsL
  <2>2. QED BY <1>1, <2>1 DEF TypeOKS, TypeOK, vars
<1>5. CASE UNCHANGED varsS
  BY <1>1, <1>5 DEF varsS, varsL, vars, session, TypeOKS, TypeOK
<1>6. QED BY <1>2, <1>3, <1>4, <1>5 DEF NextS

LEMMA SessionStart == InitS => TypeOKS
<1> SUFFICES ASSUME InitS PROVE TypeOKS
  OBVIOUS
<1>1. TypeOK
  BY LedgerStart DEF InitS
<1>2. order \in Order
  <2>1. PICK g \in Given : cfg = g.cfg
    BY DEF InitS, InitL, Init
  <2>2. order \in Orders(g.cfg)
    BY <2>1 DEF InitS
  <2>3. QED BY <2>2, OrdersAssumption
<1>3. i = 0 /\ report = <<>> /\ order.pulls \in Nat
  BY <1>2 DEF InitS, Order
<1>4. QED BY <1>1, <1>2, <1>3 DEF TypeOKS

\* Every variable keeps its type through a session, and no more wishes are
\* made than -p asks for (yagiws.c 881).
THEOREM SessionCorrect == SpecS => []TypeOKS
  BY SessionStart, SessionStep, PTL DEF SpecS

-----------------------------------------------------------------------------
(* The forced class. *)

\* Where -C or -W has set the counters, a split drop is of the class it names.
LEMMA ForcedDrop ==
  ASSUME TypeOK, order \in Order, order.forceSmooth > 0, DoAPull(Forced),
         rare' \in Star, cfg.doSmooth[rare'] = 1, SplitDrop(rare')
  PROVE  ClassOf(item') = IF order.forceSmooth = 1 THEN "chr" ELSE "wpn"
<1> DEFINE c == IF order.forceSmooth = 1 THEN "chr" ELSE "wpn"
           d == IF order.forceSmooth = 1 THEN "wpn" ELSE "chr"
           s == StableAtRoll(Forced)[rare']
<1>1. /\ Forced \in Stable /\ s \in [Class -> Byte]
      /\ c \in Class /\ d \in Class /\ c # d /\ ClassOf(item') \in Class
  BY ForcedType, AtRollType DEF Stable, Class, ClassOf
<1>2. s[c] = 255 /\ s[d] = 0
  <2>1. order.forceSmooth = 1 \/ order.forceSmooth = 2
    BY DEF Order
  <2>2. Forced[rare'][c] = 254 /\ Forced[rare'][d] = 255
    BY <2>1 DEF Forced, Class
  <2>3. s[c] = Inc(254) /\ s[d] = Inc(255)
    BY <1>1, <2>2 DEF StableAtRoll
  <2>4. QED BY <2>3 DEF Inc
<1>3. s[c] > s[d] /\ s[c] >= Overdue(rare')
  BY <1>2 DEF Overdue
<1>4. Splits(rare', s, ClassOf(item'))
  <2>1. CASE ThreeStarDrop(Forced)
    BY <2>1 DEF ThreeStarDrop, Star
  <2>2. CASE FiveStar(Forced)
    <3>1. rare' = 5
      BY <1>1, <2>2, FiveStarShape DEF FiveStarEffect, FiveStarDrop
    <3>2. QED BY <1>1, <2>2, <3>1, FiveStarResets DEF SplitDrop
  <2>3. CASE FourStar(Forced)
    <3>1. rare' = 4
      BY <1>1, <2>3, FourStarShape DEF FourStarEffect, FourStarDrop
    <3>2. QED BY <1>1, <2>3, <3>1, FourStarResets DEF SplitDrop
  <2>4. QED BY <2>1, <2>2, <2>3 DEF DoAPull
<1> HIDE DEF c, d, s
<1>5. ClassOf(item') = c
  BY <1>1, <1>3, <1>4, OverdueIsNext
<1>6. QED BY <1>5 DEF c

LEMMA ForcedStep ==
  ASSUME TypeOKS, ForcedClass, [NextS]_varsS
  PROVE  ForcedClass'
<1>1. TypeOK /\ order \in Order
  BY DEF TypeOKS
<1>2. CASE NoelleWish
  BY <1>2 DEF NoelleWish, NoellesTurn, ForcedClass, Charted
<1>3. CASE EngineWish
  <2>1. DoAPull(Forced) /\ order' = order
    BY <1>3 DEF EngineWish
  <2>2. cfg' = cfg
    BY <1>1, <2>1, ForcedType, PullOutcome DEF Outcome
  <2>3. SUFFICES ASSUME order.forceSmooth > 0, rare' \in Star, cfg.doSmooth[rare'] = 1,
                        SplitDrop(rare')
                 PROVE  ClassOf(item') = IF order.forceSmooth = 1 THEN "chr" ELSE "wpn"
    BY <2>1, <2>2 DEF ForcedClass, SplitDrop, SplitBanner, Charted, Star
  <2>4. QED BY <1>1, <2>1, <2>3, ForcedDrop
<1>4. CASE Report
  BY <1>4 DEF Report, varsL, vars, ForcedClass, Charted
<1>5. CASE UNCHANGED varsS
  BY <1>5 DEF varsS, varsL, vars, session, ForcedClass, Charted
<1>6. QED BY <1>2, <1>3, <1>4, <1>5 DEF NextS

\* Under -C every split drop of a session is a character, under -W a weapon,
\* whatever counters it started from (yagiws.c 893-904).
THEOREM ForcedCorrect == SpecS => []ForcedClass
<1>1. InitS => ForcedClass
  BY DEF InitS, ForcedClass
<1>2. QED BY <1>1, ForcedStep, SessionCorrect, PTL DEF SpecS

-----------------------------------------------------------------------------
(* The promises of a session. *)

\* No wish makes the 5-star counter grow by more than one.
LEMMA PityGrows ==
  ASSUME TypeOKS, PityBehindWishes, [NextS]_varsS
  PROVE  PityBehindWishes'
<1>1. /\ TypeOK /\ i \in Nat /\ pity[5] \in 0..255 /\ order.noviceCnt \in 0..8
      /\ Inc(pity[5]) \in Nat /\ Inc(pity[5]) <= pity[5] + 1
  BY DEF TypeOKS, Order, TypeOK, Byte, Star, Inc
<1>2. CASE NoelleWish
  <2>1. cfg' = cfg /\ pity'[5] = Inc(pity[5]) /\ i' = i + 1 /\ order' = order
    BY <1>1, <1>2, NoelleType DEF NoelleWish
  <2>2. QED BY <1>1, <2>1 DEF PityBehindWishes
<1>3. CASE EngineWish
  <2>1. DoAPull(Forced) /\ i' = i + 1 /\ order' = order
    BY <1>3 DEF EngineWish
  <2>2. cfg' = cfg /\ (pity'[5] = 0 \/ pity'[5] = PityAtRoll[5])
    BY <1>1, <2>1, ForcedType, PullOutcome DEF Outcome
  <2>3. PityAtRoll[5] \in {pity[5], Inc(pity[5])}
    BY <1>1 DEF PityAtRoll, Star
  <2>4. QED BY <1>1, <2>1, <2>2, <2>3 DEF PityBehindWishes
<1>4. CASE Report
  BY <1>4 DEF Report, varsL, vars, PityBehindWishes
<1>5. CASE UNCHANGED varsS
  BY <1>5 DEF varsS, varsL, vars, session, PityBehindWishes
<1>6. QED BY <1>2, <1>3, <1>4, <1>5 DEF NextS

\* The wish that gives Noelle is one the banner may give, and leaves the
\* counters level with the ledger.
LEMMA NoelleKeeps ==
  ASSUME TypeOKS, LedgerInv, PityBehindWishes, NoelleWish
  PROVE  /\ LedgerInv'
         /\ Promise!Kept(WishMade)
<1>1. /\ TypeOK /\ HistoryType /\ FiveStarCounted /\ FourStarCounted /\ LossRemembered /\ CourseCounted
      /\ i \in Nat /\ order.noviceCnt + i = 7 /\ cfg.banner = "NOVICE" /\ order.noviceCnt \in 0..8
  BY DEF TypeOKS, LedgerInv, NoelleWish, NoellesTurn, Order
<1>2. cfg' = cfg /\ rare' = 4 /\ fatePoints' = fatePoints /\ pity'[4] = 0 /\ pity'[5] = Inc(pity[5])
  BY <1>1, NoelleType
<1>3. /\ terms = TermsOf(cfg) /\ ~terms.rateUp /\ ~Charted
      /\ terms.hard5 \in {0, 90} /\ (terms.hard5 # 0 <=> cfg.doPity[5] = 1)
  <2>1. terms = TermsOf(cfg) /\ ~Charted
    BY <1>1 DEF HistoryType, CourseCounted
  <2>2. cfg.doPity[5] \in {0, 1}
    BY <1>1 DEF TypeOK, Config, Star
  <2>3. terms.rateUp = (cfg.do5050 # 0 /\ cfg.banner \in EventBanner)
    BY <2>1 DEF TermsOf
  <2>4. terms.hard5 = IF cfg.doPity[5] = 0 THEN 0 ELSE IF cfg.banner \in WeaponBanner THEN 80 ELSE 90
    BY <2>1 DEF TermsOf
  <2>5. cfg.banner \notin EventBanner /\ cfg.banner \notin WeaponBanner
    BY <1>1 DEF EventBanner, WeaponBanner
  <2>6. ~terms.rateUp
    BY <2>3, <2>5, Zenon
  <2>7. terms.hard5 = IF cfg.doPity[5] = 0 THEN 0 ELSE 90
    BY <2>4, <2>5, Zenon
  <2>8. QED BY <2>1, <2>2, <2>6, <2>7
<1>4. pity[5] \in 0..88 /\ Inc(pity[5]) = pity[5] + 1
  BY <1>1 DEF PityBehindWishes, TypeOK, Byte, Star, Inc
<1>5. /\ dry' = [r \in {4, 5} |->
                   IF r = 5 THEN IF terms.hard5 = 0 \/ rare' = 5 THEN 0 ELSE dry[5] + 1
                            ELSE IF terms.hard4 = 0 \/ rare' # 3 THEN 0 ELSE dry[4] + 1]
      /\ owed' = [r \in {4, 5} |->
                   IF terms.rateUp /\ r = rare' THEN IF isRateUp' > 0 THEN 0 ELSE 1 ELSE owed[r]]
      /\ missed' = IF terms.fate = 0 \/ rare' # 5 THEN missed
                   ELSE IF item' = cfg.epitomizedPath THEN 0
                   ELSE IF missed < terms.fate THEN missed + 1 ELSE missed
      /\ terms' = terms
  BY DEF NoelleWish, Record, Promise!Count, WishMade
<1>6. /\ dry[5] \in Nat /\ dry'[4] = 0 /\ (terms.hard5 # 0 => dry'[5] = dry[5] + 1)
      /\ \A r \in Star : owed'[r] = owed[r] /\ owed[r] = 0
      /\ missed' = missed
  BY <1>1, <1>2, <1>3, <1>5 DEF HistoryType, LossRemembered, Star
<1>7. LedgerInv'
  <2>1. dry' \in [Star -> Nat]
    <3>1. dry[4] \in Nat /\ dry[5] \in Nat
      BY <1>1 DEF HistoryType, Star
    <3>2. QED BY <1>5, <3>1 DEF Star
  <2>2. owed' \in [Star -> {0, 1}] /\ missed' \in Nat
    BY <1>1, <1>5, <1>6 DEF HistoryType, Star
  <2>3. HistoryType'
    BY <1>2, <1>3, <1>5, <2>1, <2>2 DEF HistoryType
  <2>4. FiveStarCounted'
    BY <1>1, <1>2, <1>3, <1>4, <1>5, <1>6 DEF FiveStarCounted
  <2>5. FourStarCounted'
    BY <1>2, <1>6 DEF FourStarCounted
  <2>6. LossRemembered' /\ CourseCounted'
    BY <1>2, <1>3, <1>6 DEF LossRemembered, CourseCounted, Charted
  <2>7. QED BY <2>3, <2>4, <2>5, <2>6 DEF LedgerInv
<1>8. Promise!Kept(WishMade)
  <2>1. terms.hard5 > 0 => dry[5] + 1 < terms.hard5
    BY <1>1, <1>3, <1>4 DEF FiveStarCounted
  <2>2. QED BY <1>2, <1>3, <2>1, KeptWhen
<1>9. QED BY <1>7, <1>8

\* The ledger stays level with the engine through a session.
LEMMA SessionInvariant ==
  ASSUME NoelleInTime
  PROVE  SpecS => [](TypeOKS /\ LedgerInv /\ PityBehindWishes)
<1>1. InitS => LedgerInv /\ PityBehindWishes
  <2> SUFFICES ASSUME InitS PROVE LedgerInv /\ PityBehindWishes
    OBVIOUS
  <2>1. PICK g \in Given : cfg = g.cfg /\ pity = g.pity
    BY DEF InitS, InitL, Init
  <2>2. order \in Orders(g.cfg) /\ order \in Order /\ i = 0
    BY <2>1, OrdersAssumption DEF InitS
  <2>3. order.noviceCnt \in 0..8
    BY <2>2 DEF Order
  <2>4. PityBehindWishes
    BY <2>1, <2>2, <2>3 DEF NoelleInTime, PityBehindWishes
  <2>5. QED BY <2>4, LedgerStart DEF InitS
<1>2. TypeOKS /\ LedgerInv /\ PityBehindWishes /\ [NextS]_varsS => LedgerInv' /\ PityBehindWishes'
  <2> SUFFICES ASSUME TypeOKS, LedgerInv, PityBehindWishes, [NextS]_varsS
               PROVE  LedgerInv' /\ PityBehindWishes'
    OBVIOUS
  <2>1. CASE NoelleWish
    BY <2>1, NoelleKeeps, PityGrows
  <2>2. CASE EngineWish
    <3>1. DoAPull(Forced) /\ Record /\ TypeOK
      BY <2>2 DEF EngineWish, TypeOKS
    <3>2. QED BY <3>1, ForcedType, LedgerStep, PityGrows
  <2>3. CASE Report \/ UNCHANGED varsS
    <3>1. UNCHANGED varsL
      BY <2>3 DEF Report, varsS
    <3>2. LedgerInv'
      BY <3>1 DEF varsL, vars, ledger, LedgerInv, HistoryType, FiveStarCounted,
         FourStarCounted, LossRemembered, CourseCounted, Charted
    <3>3. QED BY <3>2, PityGrows
  <2>4. QED BY <2>1, <2>2, <2>3 DEF NextS
<1>3. QED BY <1>1, <1>2, SessionCorrect, PTL DEF SpecS

\* A session keeps the promises of its banner, as long as a course is charted on
\* the weapon banner: the forced counters touch none of them, and Noelle's wish
\* is counted (yagiws.c 881-907).
THEOREM SessionPromise ==
  ASSUME NoelleInTime, WeaponCourseGiven
  PROVE  SpecS => PromiseKept
<1>1. InitS => Promise!Init /\ CourseOffered
  <2> SUFFICES ASSUME InitS PROVE Promise!Init /\ CourseOffered
    OBVIOUS
  <2>1. InitL
    BY DEF InitS
  <2>2. PICK g \in Given : cfg = g.cfg
    BY <2>1 DEF InitL, Init
  <2>3. QED BY <2>1, <2>2, CourseGiven, LedgerStart
<1>2. TypeOKS /\ CourseOffered /\ LedgerInv /\ PityBehindWishes /\ [NextS]_varsS
        => CourseOffered' /\ [Promise!Next]_(Promise!promise)
  <2> SUFFICES ASSUME TypeOKS, CourseOffered, LedgerInv, PityBehindWishes, [NextS]_varsS
               PROVE  CourseOffered' /\ [Promise!Next]_(Promise!promise)
    OBVIOUS
  <2>1. CASE NoelleWish
    <3>1. rare' \in 3..5 /\ cfg' = cfg
      BY <2>1, NoelleType DEF TypeOKS
    <3>2. Record
      BY <2>1 DEF NoelleWish
    <3>3. QED BY <2>1, <3>1, <3>2, NoelleKeeps, WishAllowed DEF CourseOffered
  <2>2. CASE EngineWish
    <3>1. DoAPull(Forced) /\ Record /\ TypeOK
      BY <2>2 DEF EngineWish, TypeOKS
    <3>2. Promise!Kept(WishMade)
      BY <3>1, ForcedType, WishKept
    <3>3. rare' \in 3..5 /\ cfg' = cfg
      BY <3>1, ForcedType, PullOutcome DEF Outcome
    <3>4. QED BY <3>1, <3>2, <3>3, WishAllowed DEF CourseOffered
  <2>3. CASE Report \/ UNCHANGED varsS
    BY <2>3 DEF Report, varsS, varsL, vars, ledger, CourseOffered, Promise!promise
  <2>4. QED BY <2>1, <2>2, <2>3 DEF NextS
<1>3. QED BY <1>1, <1>2, SessionInvariant, PTL DEF SpecS, PromiseKept, Promise!Spec

-----------------------------------------------------------------------------
(* The wish that gives Noelle. *)

\* What the options say of the Beginners' Wish, which never changes.
BeginnersPool == cfg.banner = "NOVICE" => cfg.stdPoolIndex = 0

\* The engine itself never gives Noelle there.
LEMMA BeginnersDrop ==
  ASSUME TypeOK, BeginnersPool, cfg.banner = "NOVICE", NEW ps \in Stable, DoAPull(ps)
  PROVE  item' # Noelle
<1>1. cfg.stdPoolIndex = 0 /\ 0 \in PoolIndex
  BY DEF BeginnersPool, TypeOK, Config
<1>2. CASE FiveStar(ps)
  <2>1. FiveStarOnlyCharacters(ps)
    BY <1>2 DEF FiveStar, FiveStarCharacterEvent, FiveStarWeaponEvent, FiveStarChroniclePath,
       FiveStarChronicle, FiveStarOnlyWeapons, FiveStarStandard
  <2>2. item' \in StdFiveStarChr
    BY <2>1 DEF FiveStarOnlyCharacters, FiveStarDrop
  <2>3. QED BY <1>1, <2>2, BeginnersAssumption DEF StdFiveStarChr
<1>3. CASE FourStar(ps)
  <2>1. FourStarNovice(ps)
    BY <1>3 DEF FourStar, FourStarCharacterEvent, FourStarWeaponEvent, FourStarChronicle,
       FourStarStandard
  <2>2. item' \in EventFourStarChr
    BY <2>1 DEF FourStarNovice, FourStarDrop
  <2>3. QED BY <1>1, <2>2, BeginnersAssumption DEF EventFourStarChr
<1>4. CASE ThreeStarDrop(ps)
  <2>1. IsWeapon(item')
    BY <1>4, WeaponAssumption DEF ThreeStarDrop
  <2>2. QED BY <2>1 DEF IsWeapon, Noelle
<1>5. QED BY <1>2, <1>3, <1>4 DEF DoAPull

LEMMA NoelleStart == InitS => BeginnersPool /\ NoelleIsEighth
<1> SUFFICES ASSUME InitS PROVE BeginnersPool /\ NoelleIsEighth
  OBVIOUS
<1>1. PICK g \in Given : cfg = g.cfg
  BY DEF InitS, InitL, Init
<1>2. QED BY <1>1, GivenAssumption DEF Legal, InitS, BeginnersPool, NoelleIsEighth

LEMMA NoelleStep ==
  ASSUME TypeOKS, BeginnersPool, NoelleIsEighth, [NextS]_varsS
  PROVE  BeginnersPool' /\ NoelleIsEighth'
<1>1. TypeOK /\ i \in Nat /\ order.noviceCnt \in 0..8
  BY DEF TypeOKS, Order
<1>2. CASE NoelleWish
  BY <1>1, <1>2 DEF NoelleWish, NoellesTurn, BeginnersPool, NoelleIsEighth
<1>3. CASE EngineWish
  <2>1. DoAPull(Forced) /\ i' = i + 1 /\ order' = order /\ ~NoellesTurn /\ Forced \in Stable
    BY <1>1, <1>3, ForcedType DEF EngineWish
  <2>2. cfg' = cfg
    BY <1>1, <2>1, PullOutcome DEF Outcome
  <2>3. cfg.banner = "NOVICE" => item' # Noelle
    BY <1>1, <2>1, BeginnersDrop
  <2>4. cfg.banner = "NOVICE" => order.noviceCnt + i' # 8
    BY <1>1, <2>1 DEF NoellesTurn
  <2>5. QED BY <2>1, <2>2, <2>3, <2>4 DEF BeginnersPool, NoelleIsEighth
<1>4. CASE Report \/ UNCHANGED varsS
  BY <1>4 DEF Report, varsS, varsL, vars, session, BeginnersPool, NoelleIsEighth
<1>5. QED BY <1>2, <1>3, <1>4 DEF NextS

\* On the Beginners' banner Noelle is the 8th wish counted over the runs, and
\* no other wish gives her (yagiws.c 882-891, gacha.c 504-513).
THEOREM NoelleCorrect == SpecS => []NoelleIsEighth
  BY NoelleStart, NoelleStep, SessionCorrect, PTL DEF SpecS

-----------------------------------------------------------------------------
(* The results printed. *)

\* The 5-star counter is the drought, on every banner and from every pity that
\* -5 takes: the one wish that may pass hard pity by never comes near the byte's
\* end.
DroughtCounted ==
  cfg.doPity[5] = 1 => dry[5] = pity[5] /\ pity[5] <= 90 + i /\ pity[5] <= 98

\* Where guarantees are shown, the engine's are the player's.
GuaranteeShown(r) ==
  /\ cfg.do5050 = 1 /\ cfg.banner \in EventBanner
  /\ cfg.banner = "CHRONICLED" => r = 5 /\ cfg.epitomizedPath # NoItem /\ cfg.doEpitomized = 1

GuaranteeCounted == \A r \in Star : GuaranteeShown(r) => getRateUp[r] = owed[r]

\* Where fate points are shown, they are level with the misses.
PointsCounted == cfg.doEpitomized = 2 => CourseCounted

\* Without a charted course no miss counts.
NothingMissed == (cfg.epitomizedPath = NoItem \/ cfg.doEpitomized = 0) => missed = 0

\* Nothing changes once the results are printed.
ResultsLast == report = <<>> \/ (i = order.pulls /\ report = <<Results>>)

HonestInv ==
  /\ HistoryType /\ PointsCounted
  /\ DroughtCounted /\ GuaranteeCounted /\ NothingMissed
  /\ ResultsLast

\* A featured drop leaves no guarantee behind.
LEMMA WinSettles ==
  ASSUME TypeOK, NEW ps \in Stable, DoAPull(ps), cfg.banner \in EventBanner,
         rare' \in Star, isRateUp' # 0
  PROVE  getRateUp'[rare'] = 0
<1>1. RateUpAtRoll \in [Star -> {0, 1}]
  BY AtRollType
<1>2. CASE FiveStar(ps)
  <2>1. PICK up \in 0..2, it \in Items, rate \in {0, 1}, fate \in Byte, s \in [Class -> Byte] :
               FiveStarEffect(ps, up, it, rate, fate, s)
    BY <1>2, FiveStarShape
  <2>2. rare' = 5 /\ isRateUp' = up /\ getRateUp'[5] = rate
    BY <1>1, <2>1 DEF FiveStarEffect, FiveStarDrop, Star
  <2>3. rate = 1 => up = 0
    BY <2>1 DEF FiveStarEffect, EventBanner
  <2>4. QED BY <2>2, <2>3
<1>3. CASE FourStar(ps)
  <2>1. PICK up \in 0..2, it \in Items, rate \in {0, 1}, s \in [Class -> Byte] :
               FourStarEffect(ps, up, it, rate, s)
    BY <1>3, FourStarShape
  <2>2. rare' = 4 /\ isRateUp' = up /\ getRateUp'[4] = rate
    BY <1>1, <2>1 DEF FourStarEffect, FourStarDrop, Star
  <2>3. rate = 1 => up = 0
    BY <2>1 DEF FourStarEffect, EventBanner
  <2>4. QED BY <2>2, <2>3
<1>4. CASE ThreeStarDrop(ps)
  BY <1>4 DEF ThreeStarDrop
<1>5. QED BY <1>2, <1>3, <1>4 DEF DoAPull

\* Whatever the banner, a 5-star can be missed only below 90 counted wishes.
LEMMA MissBelowNinety ==
  ASSUME cfg.doPity[5] = 1, NEW p \in Nat, GetWeight(5, p) < One
  PROVE  p < 90
<1>1. CASE cfg.banner \in WeaponBanner
  <2>1. GetWeight5W(p) < 10000
    BY <1>1 DEF GetWeight, One
  <2>2. QED BY <2>1 DEF GetWeight5W
<1>2. CASE cfg.banner \notin WeaponBanner
  <2>1. GetWeight5(p) < 10000
    BY <1>2 DEF GetWeight, One
  <2>2. QED BY <2>1 DEF GetWeight5
<1>3. QED BY <1>1, <1>2

\* A wish of the engine.
LEMMA HonestPull ==
  ASSUME TypeOKS, HonestInv, EngineWish
  PROVE  HonestInv'
<1>1. /\ TypeOK /\ HistoryType /\ PointsCounted /\ DroughtCounted /\ GuaranteeCounted
      /\ NothingMissed /\ ResultsLast /\ i \in Nat /\ order.pulls \in Nat
  BY DEF TypeOKS, HonestInv, Order
<1>2. /\ DoAPull(Forced) /\ Record /\ Forced \in Stable
      /\ i < order.pulls /\ i' = i + 1 /\ order' = order /\ report' = report
  BY <1>1, ForcedType DEF EngineWish
<1>3. Outcome /\ LossOwes /\ cfg' = cfg /\ rare' \in 3..5 /\ isRateUp' \in 0..2
  BY <1>1, <1>2, PullOutcome DEF Outcome
<1>4. Written /\ HistoryType'
  BY <1>1, <1>2, <1>3, RecordWrites
<1>5. PointsCounted'
  BY <1>1, <1>2, <1>3, CourseStep DEF PointsCounted
<1>6. DroughtCounted'
  <2>1. SUFFICES ASSUME cfg.doPity[5] = 1
                 PROVE  dry'[5] = pity'[5] /\ pity'[5] <= 90 + i' /\ pity'[5] <= 98
    BY <1>3 DEF DroughtCounted
  <2>2. pity[5] \in Nat /\ pity[5] <= 98 /\ pity[5] <= 90 + i /\ dry[5] = pity[5]
    BY <1>1, <2>1 DEF DroughtCounted, TypeOK, Star, Byte
  <2>3. PityAtRoll[5] = pity[5] + 1
    BY <2>1, <2>2 DEF PityAtRoll, Inc, Star
  <2>4. terms.hard5 # 0
    BY <1>1, <2>1, TermsMeaning
  <2>5. CASE rare' = 5
    <3>1. pity'[5] = 0 /\ dry'[5] = 0
      BY <1>3, <1>4, <2>5 DEF Outcome, Written
    <3>2. QED BY <1>1, <1>2, <3>1
  <2>6. CASE rare' # 5
    <3>1. pity'[5] = pity[5] + 1 /\ GetWeight(5, pity[5] + 1) < One
      BY <1>3, <2>3, <2>6 DEF Outcome
    <3>2. pity[5] + 1 < 90
      BY <2>1, <2>2, <3>1, MissBelowNinety
    <3>3. dry'[5] = dry[5] + 1
      BY <1>4, <2>4, <2>6 DEF Written
    <3>4. QED BY <1>1, <1>2, <2>2, <3>1, <3>2, <3>3
  <2>7. QED BY <2>5, <2>6
<1>7. GuaranteeCounted'
  <2>1. SUFFICES ASSUME cfg.do5050 = 1, cfg.banner \in EventBanner, NEW r \in Star, GuaranteeShown(r)
                 PROVE  getRateUp'[r] = owed'[r]
    BY <1>3 DEF GuaranteeCounted, GuaranteeShown
  <2>2. terms.rateUp
    <3>1. terms.rateUp = (cfg.do5050 # 0 /\ cfg.banner \in EventBanner)
      BY <1>1 DEF HistoryType, TermsOf
    <3>2. cfg.do5050 # 0
      BY <2>1
    <3>3. QED BY <2>1, <3>1, <3>2, Zenon
  <2>3. owed'[r] = IF r = rare' THEN IF isRateUp' > 0 THEN 0 ELSE 1 ELSE owed[r]
    BY <1>4, <2>2 DEF Written, Star
  <2>4. CASE r = rare'
    BY <1>1, <1>2, <1>3, <2>1, <2>3, <2>4, WinSettles DEF LossOwes
  <2>5. CASE r # rare'
    <3>1. getRateUp'[r] = RateUpAtRoll[r]
      BY <1>3, <2>5 DEF Outcome, Star
    <3>2. RateUpAtRoll[r] = getRateUp[r]
      BY <2>1 DEF RateUpAtRoll
    <3>3. QED BY <1>1, <2>1, <2>3, <2>5, <3>1, <3>2 DEF GuaranteeCounted
  <2>6. QED BY <2>4, <2>5
<1>8. NothingMissed'
  <2>1. SUFFICES ASSUME cfg.epitomizedPath = NoItem \/ cfg.doEpitomized = 0 PROVE missed' = 0
    BY <1>3 DEF NothingMissed
  <2>2. terms.fate = 0
    BY <1>1, <2>1 DEF HistoryType, TermsOf
  <2>3. QED BY <1>1, <1>4, <2>1, <2>2 DEF Written, NothingMissed
<1>9. ResultsLast'
  BY <1>1, <1>2 DEF ResultsLast
<1>10. QED BY <1>4, <1>5, <1>6, <1>7, <1>8, <1>9 DEF HonestInv

\* The wish that gives Noelle.
LEMMA HonestNoelle ==
  ASSUME TypeOKS, HonestInv, NoelleWish
  PROVE  HonestInv'
<1>1. /\ TypeOK /\ HistoryType /\ PointsCounted /\ DroughtCounted /\ NothingMissed /\ ResultsLast
      /\ cfg.banner = "NOVICE" /\ i \in Nat /\ i <= 7 /\ order.pulls \in Nat
  BY DEF TypeOKS, HonestInv, Order, NoelleWish, NoellesTurn
<1>2. /\ Record /\ i < order.pulls /\ i' = i + 1 /\ order' = order /\ report' = report
      /\ cfg' = cfg /\ rare' = 4 /\ pity'[5] = Inc(pity[5])
  BY <1>1, NoelleType DEF NoelleWish
<1>3. Written /\ HistoryType'
  BY <1>1, <1>2, RecordWrites
<1>4. DroughtCounted'
  <2>1. SUFFICES ASSUME cfg.doPity[5] = 1
                 PROVE  dry'[5] = pity'[5] /\ pity'[5] <= 90 + i' /\ pity'[5] <= 98
    BY <1>2 DEF DroughtCounted
  <2>2. pity[5] \in Nat /\ pity[5] <= 90 + i /\ dry[5] = pity[5]
    BY <1>1, <2>1 DEF DroughtCounted, TypeOK, Star, Byte
  <2>3. pity'[5] = pity[5] + 1
    BY <1>1, <1>2, <2>2 DEF Inc
  <2>4. terms.hard5 # 0
    BY <1>1, <2>1, TermsMeaning
  <2>5. dry'[5] = dry[5] + 1
    BY <1>2, <1>3, <2>4 DEF Written
  <2>6. QED BY <1>1, <1>2, <2>2, <2>3, <2>5
<1>5. PointsCounted' /\ GuaranteeCounted'
  BY <1>1, <1>2 DEF PointsCounted, CourseCounted, GuaranteeCounted, GuaranteeShown, Charted, EventBanner
<1>6. NothingMissed'
  BY <1>1, <1>2, <1>3 DEF NothingMissed, Written
<1>7. ResultsLast'
  BY <1>1, <1>2 DEF ResultsLast
<1>8. QED BY <1>3, <1>4, <1>5, <1>6, <1>7 DEF HonestInv


\* What is printed is what the player counted.
LEMMA HonestPrint == ASSUME TypeOK, HonestInv PROVE ReportIsHonest
<1>1. SUFFICES ASSUME NEW k \in DOMAIN report
               PROVE  /\ report[k].pity[5] # NotShown => report[k].pity[5] = dry[5]
                      /\ \A r \in Star : report[k].guaranteed[r] # NotShown
                                              => report[k].guaranteed[r] = owed[r]
                      /\ report[k].fatePoints # NotShown => report[k].fatePoints >= missed
  BY DEF ReportIsHonest
<1>2. report[k] = Results
  BY <1>1 DEF HonestInv, ResultsLast
<1>3. Results.pity[5] # NotShown => Results.pity[5] = dry[5]
  <2>1. Results.pity[5] = IF cfg.doPity[5] = 1 THEN pity[5] ELSE NotShown
    BY DEF Results, Star
  <2>2. QED BY <2>1 DEF HonestInv, DroughtCounted
<1>4. ASSUME NEW r \in Star, Results.guaranteed[r] # NotShown
      PROVE  Results.guaranteed[r] = owed[r]
  <2>1. /\ Results.guaranteed[r] = getRateUp[r]
        /\ cfg.do5050 > 0 /\ cfg.banner \in EventBanner
        /\ cfg.banner = "CHRONICLED" => r = 5 /\ cfg.epitomizedPath # NoItem /\ cfg.doEpitomized = 1
    BY <1>4 DEF Results, EventBanner
  <2>2. cfg.do5050 = 1
    BY <2>1 DEF TypeOK, Config
  <2>3. QED BY <2>1, <2>2 DEF HonestInv, GuaranteeCounted, GuaranteeShown
<1>5. Results.fatePoints # NotShown => Results.fatePoints >= missed
  <2>1. SUFFICES ASSUME cfg.doEpitomized > 1 PROVE fatePoints >= missed
    <3>1. Results.fatePoints = IF cfg.doEpitomized > 1 THEN fatePoints ELSE NotShown
      BY DEF Results
    <3>2. QED BY <3>1
  <2>2. CASE cfg.epitomizedPath = NoItem
    BY <2>2 DEF HonestInv, NothingMissed, TypeOK, Byte
  <2>3. CASE cfg.epitomizedPath # NoItem
    <3>1. Charted /\ cfg.doEpitomized = 2
      BY <2>1, <2>3 DEF TypeOK, Config, Charted
    <3>2. QED BY <3>1 DEF HonestInv, PointsCounted, CourseCounted, TypeOK, Byte, HistoryType
  <2>4. QED BY <2>2, <2>3
<1>6. QED BY <1>2, <1>3, <1>4, <1>5

\* The results are printed once, and are the last of a session.
LEMMA ResultsStep ==
  ASSUME TypeOKS, ResultsLast, [NextS]_varsS
  PROVE  ResultsLast'
<1>1. i \in Nat /\ order.pulls \in Nat
  BY DEF TypeOKS, Order
<1>2. CASE NoelleWish \/ EngineWish
  <2>1. i < order.pulls /\ report' = report
    BY <1>2 DEF NoelleWish, EngineWish
  <2>2. QED BY <1>1, <2>1 DEF ResultsLast
<1>3. CASE Report
  <2>1. Results' = Results
    BY <1>3 DEF Report, varsL, vars, Results
  <2>2. QED BY <1>3, <2>1 DEF Report, ResultsLast
<1>4. CASE UNCHANGED varsS
  <2>1. Results' = Results
    BY <1>4 DEF varsS, varsL, vars, Results
  <2>2. QED BY <1>4, <2>1 DEF varsS, session, ResultsLast
<1>5. QED BY <1>2, <1>3, <1>4 DEF NextS

LEMMA HonestStart == InitS => HonestInv
<1> SUFFICES ASSUME InitS PROVE HonestInv
  OBVIOUS
<1>1. TypeOK /\ HistoryType /\ CourseCounted
  BY LedgerStart DEF InitS, LedgerInv
<1>2. PICK g \in Given : cfg = g.cfg /\ pity = g.pity
  BY DEF InitS, InitL, Init
<1>3. pity[5] \in 0..90 /\ i = 0
  BY <1>2, GivenAssumption DEF Legal, Star, InitS
<1>4. /\ dry = [r \in {4, 5} |-> IF r = 5 THEN IF terms.hard5 = 0 THEN 0 ELSE pity[5]
                                        ELSE IF terms.hard4 = 0 THEN 0 ELSE pity[4]]
      /\ owed = [r \in {4, 5} |-> IF terms.rateUp THEN getRateUp[r] ELSE 0]
      /\ missed = IF terms.fate = 0 THEN 0 ELSE fatePoints
      /\ terms = TermsOf(cfg)
  BY DEF InitS, InitL, Promise!Start
<1>5. DroughtCounted
  <2>1. cfg.doPity[5] = 1 => terms.hard5 # 0
    BY <1>1, TermsMeaning
  <2>2. cfg.doPity[5] = 1 => dry[5] = pity[5]
    BY <1>4, <2>1
  <2>3. pity[5] <= 90 + i /\ pity[5] <= 98
    BY <1>3
  <2>4. QED BY <2>2, <2>3 DEF DroughtCounted
<1>6. GuaranteeCounted
  <2>1. terms.rateUp = (cfg.do5050 # 0 /\ cfg.banner \in EventBanner)
    BY <1>4 DEF TermsOf
  <2>2. SUFFICES ASSUME cfg.do5050 = 1, cfg.banner \in EventBanner, NEW r \in Star
                 PROVE  getRateUp[r] = owed[r]
    BY DEF GuaranteeCounted, GuaranteeShown
  <2>3. cfg.do5050 # 0
    BY <2>2
  <2>4. terms.rateUp
    BY <2>1, <2>2, <2>3, Zenon
  <2>5. QED BY <1>4, <2>4 DEF Star
<1>7. NothingMissed
  <2>1. terms.fate = IF cfg.epitomizedPath = NoItem THEN 0 ELSE cfg.doEpitomized
    BY <1>4 DEF TermsOf
  <2>2. QED BY <1>4, <2>1 DEF NothingMissed
<1>8. QED BY <1>1, <1>5, <1>6, <1>7 DEF HonestInv, PointsCounted, ResultsLast, InitS

LEMMA HonestStep ==
  ASSUME TypeOKS, HonestInv, [NextS]_varsS
  PROVE  HonestInv'
<1>1. CASE Report \/ UNCHANGED varsS
  <2>1. UNCHANGED <<vars, terms, dry, owed, missed, order, i>>
    BY <1>1 DEF Report, varsS, varsL, ledger, session
  <2>2. Results' = Results
    BY <2>1 DEF vars, Results
  <2>3. ResultsLast'
    BY ResultsStep DEF HonestInv
  <2>4. HistoryType' /\ PointsCounted' /\ DroughtCounted' /\ GuaranteeCounted' /\ NothingMissed'
    BY <2>1 DEF vars, HonestInv, HistoryType, PointsCounted, CourseCounted, Charted, DroughtCounted,
       GuaranteeCounted, GuaranteeShown, NothingMissed
  <2>5. QED BY <2>3, <2>4 DEF HonestInv
<1>2. QED BY <1>1, HonestPull, HonestNoelle DEF NextS

\* The results printed are what the player counted, whatever was wished for, on
\* every banner and under every option (yagiws.c 881-972).
THEOREM ReportCorrect == SpecS => []ReportIsHonest
<1>1. TypeOKS /\ HonestInv => ReportIsHonest
  BY HonestPrint DEF TypeOKS
<1>2. QED BY <1>1, HonestStart, HonestStep, SessionCorrect, PTL DEF SpecS
=============================================================================
