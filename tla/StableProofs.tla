---------------------------- MODULE StableProofs ----------------------------
(***************************************************************************)
(* The stable mechanism: a counter is the age of its class, and a class    *)
(* overdue is next, until its counter wraps; for every table, every legal  *)
(* state main can hand over and every number of wishes.                    *)
(***************************************************************************)
EXTENDS StableLedger, GachaProofs

AgeType == age \in [Star -> [Class -> 0..256]]

\* The counters keep step with the ages.
LEMMA AgeStep ==
  ASSUME TypeOK, AgeType, CounterIsAge, NextA
  PROVE  AgeType' /\ CounterIsAge'
<1>1. pityS \in Stable /\ DoAPull(pityS) /\ cfg' = cfg
  <2>1. pityS \in Stable /\ DoAPull(pityS)
    BY DEF TypeOK, Stable, NextA, Next
  <2>2. CASE ThreeStarDrop(pityS)
    BY <2>1, <2>2 DEF ThreeStarDrop
  <2>3. CASE FiveStar(pityS)
    BY <2>1, <2>3, FiveStarShape DEF FiveStarEffect, FiveStarDrop
  <2>4. CASE FourStar(pityS)
    BY <2>1, <2>4, FourStarShape DEF FourStarEffect, FourStarDrop
  <2>5. QED BY <2>1, <2>2, <2>3, <2>4 DEF DoAPull
<1>2. ASSUME NEW r \in Star, NEW c \in Class
      PROVE  /\ age[r][c] \in 0..256
             /\ age'[r][c] = IF cfg.doSmooth[r] # 1 THEN age[r][c]
                             ELSE IF r = rare' /\ c = ClassOf(item') THEN 0
                             ELSE IF age[r][c] < 256 THEN age[r][c] + 1 ELSE 256
  <2> DEFINE after(q, e) ==
        IF cfg.doSmooth[q] # 1 THEN age[q][e]
        ELSE IF q = rare' /\ e = ClassOf(item') THEN 0
        ELSE IF age[q][e] < 256 THEN age[q][e] + 1 ELSE 256
  <2>1. age' = [q \in Star |-> [e \in Class |-> after(q, e)]]
    BY DEF NextA, AgeCap
  <2>2. age[r][c] \in 0..256
    BY DEF AgeType
  <2> HIDE DEF after
  <2>3. age'[r][c] = after(r, c)
    BY <2>1, Zenon
  <2>4. QED BY <2>2, <2>3 DEF after
<1>3. AgeType'
  <2> DEFINE after(r, c) ==
        IF cfg.doSmooth[r] # 1 THEN age[r][c]
        ELSE IF r = rare' /\ c = ClassOf(item') THEN 0
        ELSE IF age[r][c] < 256 THEN age[r][c] + 1 ELSE 256
  <2>1. age' = [r \in Star |-> [c \in Class |-> after(r, c)]]
    BY DEF NextA, AgeCap
  <2>2. ASSUME NEW r \in Star, NEW c \in Class PROVE after(r, c) \in 0..256
    BY <1>2
  <2> HIDE DEF after
  <2>3. QED BY <2>1, <2>2 DEF AgeType
<1>4. CounterIsAge'
  <2>1. SUFFICES ASSUME NEW r \in Star, NEW c \in Class, cfg.doSmooth[r] = 1,
                        SplitBanner(r)', age'[r][c] < 256
                 PROVE  pityS'[r][c] = age'[r][c]
    BY <1>1 DEF CounterIsAge
  <2>2. SplitBanner(r)
    BY <1>1, <2>1 DEF SplitBanner, Charted
  <2>3. pityS'[r][c] = IF r = rare' /\ c = ClassOf(item') THEN 0 ELSE Inc(pityS[r][c])
    BY <1>1, <2>1, <2>2, CounterAfter
  <2>4. CASE r = rare' /\ c = ClassOf(item')
    BY <1>2, <2>1, <2>3, <2>4
  <2>5. CASE ~(r = rare' /\ c = ClassOf(item'))
    <3>1. age[r][c] < 255 /\ age'[r][c] = age[r][c] + 1
      BY <1>2, <2>1, <2>5
    <3>2. pityS[r][c] = age[r][c]
      BY <1>2, <2>1, <2>2, <3>1 DEF CounterIsAge
    <3>3. QED BY <1>2, <2>3, <2>5, <3>1, <3>2 DEF Inc
  <2>6. QED BY <2>4, <2>5
<1>5. QED BY <1>3, <1>4

\* No class is passed over in a step from a state whose counters are the ages.
LEMMA TurnStep ==
  ASSUME TypeOK, AgeType, CounterIsAge, NextA,
         NEW r \in Star, NEW c \in Class, NEW d \in Class, age[r][c] < 255
  PROVE  TurnComes(r, c, d)
<1>1. SUFFICES ASSUME cfg.doSmooth[r] = 1, SplitDrop(r), c # d,
                      age[r][c] > age[r][d], age[r][c] + 1 >= Overdue(r)
               PROVE  ClassOf(item') = c
  BY DEF TurnComes
<1> DEFINE s == StableAtRoll(pityS)[r]
<1>2. pityS \in Stable /\ DoAPull(pityS) /\ s \in [Class -> Byte] /\ ClassOf(item') \in Class
  <2>1. pityS \in Stable /\ DoAPull(pityS)
    BY DEF TypeOK, Stable, NextA, Next
  <2>2. StableAtRoll(pityS) \in Stable
    BY <2>1, AtRollType
  <2>3. QED BY <2>1, <2>2 DEF Stable, ClassOf, Class
<1>3. SplitBanner(r) /\ rare' = r
  BY <1>1 DEF SplitDrop
<1>4. age[r][c] \in 0..254 /\ age[r][d] \in 0..254
  BY <1>1 DEF AgeType
<1>5. pityS[r][c] = age[r][c] /\ pityS[r][d] = age[r][d]
  BY <1>1, <1>3, <1>4 DEF CounterIsAge
<1>6. s[c] = age[r][c] + 1 /\ s[d] = age[r][d] + 1
  BY <1>1, <1>4, <1>5 DEF StableAtRoll, Inc
<1>7. Splits(r, s, ClassOf(item'))
  <2>1. CASE ThreeStarDrop(pityS)
    BY <1>3, <2>1 DEF ThreeStarDrop, Star
  <2>2. CASE FiveStar(pityS)
    <3>1. r = 5
      BY <1>2, <1>3, <2>2, FiveStarShape DEF FiveStarEffect, FiveStarDrop
    <3>2. QED BY <1>1, <1>2, <1>3, <2>2, <3>1, FiveStarResets
  <2>3. CASE FourStar(pityS)
    <3>1. r = 4
      BY <1>2, <1>3, <2>3, FourStarShape DEF FourStarEffect, FourStarDrop
    <3>2. QED BY <1>1, <1>2, <1>3, <2>3, <3>1, FourStarResets DEF SplitDrop
  <2>4. QED BY <1>2, <2>1, <2>2, <2>3 DEF DoAPull
<1>8. s[c] > s[d] /\ s[c] >= Overdue(r)
  <2>1. \A x, y \in 0..254 : x > y => x + 1 > y + 1
    OBVIOUS
  <2>2. age[r][c] + 1 > age[r][d] + 1
    BY <1>1, <1>4, <2>1, Zenon
  <2>3. s[c] > s[d]
    BY <1>6, <2>2, Zenon
  <2>4. s[c] >= Overdue(r)
    BY <1>1, <1>6, Zenon
  <2>5. QED BY <2>3, <2>4, Zenon
<1>9. QED BY <1>1, <1>2, <1>7, <1>8, OverdueIsNext

\* The history variable takes nothing from the engine's own type correctness.
LEMMA AgesInvariant == SpecA => [](TypeOK /\ AgeType /\ CounterIsAge)
<1>1. InitA => AgeType /\ CounterIsAge
  <2> SUFFICES ASSUME InitA PROVE AgeType /\ CounterIsAge
    OBVIOUS
  <2>1. PICK g \in Given : pityS = g.pityS
    BY DEF InitA, Init
  <2>2. pityS \in [Star -> [Class -> 0..255]] /\ age = pityS
    BY <2>1, GivenAssumption DEF Legal, Byte, InitA
  <2>3. age \in [Star -> [Class -> 0..256]]
    BY <2>2
  <2>4. QED BY <2>2, <2>3 DEF AgeType, CounterIsAge
<1>2. TypeOK /\ AgeType /\ CounterIsAge /\ [NextA]_varsA => AgeType' /\ CounterIsAge'
  <2> SUFFICES ASSUME TypeOK, AgeType, CounterIsAge, [NextA]_varsA
               PROVE  AgeType' /\ CounterIsAge'
    OBVIOUS
  <2>1. CASE NextA
    BY <2>1, AgeStep
  <2>2. CASE UNCHANGED varsA
    BY <2>2 DEF varsA, vars, AgeType, CounterIsAge, SplitBanner, Charted
  <2>3. QED BY <2>1, <2>2
<1>3. InitA => Init
  BY DEF InitA
<1>4. [NextA]_varsA => [Next]_vars
  BY DEF NextA, varsA
<1>5. SpecA => Spec
  BY <1>3, <1>4, PTL DEF SpecA, Spec
<1>6. QED BY <1>1, <1>2, <1>5, TypeCorrect, PTL DEF SpecA

\* The stable counters are the ages of the classes (gacha.c 134-141 and the
\* resets of 353-585) for as long as a byte can hold them.
THEOREM CounterCorrect == SpecA => []CounterIsAge
<1>1. QED BY AgesInvariant, PTL

\* An overdue class is the class of the next drop of its star, whatever came
\* before, until its counter wraps.
THEOREM StableTurnCorrect == SpecA => StableTurn
<1>1. TypeOK /\ AgeType /\ CounterIsAge /\ [NextA]_varsA
        => [\A r \in Star, c, d \in Class : age[r][c] < 255 => TurnComes(r, c, d)]_varsA
  <2> SUFFICES ASSUME TypeOK, AgeType, CounterIsAge, NextA,
                      NEW r \in Star, NEW c \in Class, NEW d \in Class, age[r][c] < 255
               PROVE  TurnComes(r, c, d)
    OBVIOUS
  <2>1. QED BY TurnStep
<1>2. QED BY <1>1, AgesInvariant, PTL DEF SpecA, StableTurn
=============================================================================
