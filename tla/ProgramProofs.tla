---------------------------- MODULE ProgramProofs ---------------------------
(***************************************************************************)
(* Any number of runs of the program, one after another, each given on its *)
(* command line what the one before printed: the next run starts where the *)
(* last one ended, and what holds of one session holds of the chain.  Of   *)
(* the options a player gives in every run it is asked that they resolve   *)
(* to the engine and the order they stand for (StandingResolves).          *)
(***************************************************************************)
EXTENDS Program, SessionProofs, SequenceTheorems

-----------------------------------------------------------------------------
(* What the player types of what was printed. *)

PityRec(p, r)      == [name |-> "pity", star |-> r, nums |-> <<p.pity[r]>>]
RateUpRec(r)       == [name |-> "lostRateUp", star |-> r]
StableRec(p, r, c) == [name |-> "smooth", star |-> r, class |-> c, nums |-> <<p.stable[r][c]>>]
FateRec(p)         == [name |-> "fate_points", nums |-> <<p.fatePoints>>]

\* The options Carried may hold, and those it does hold.
Printable(p) ==
  {PityRec(p, r) : r \in Star} \cup {RateUpRec(r) : r \in Star}
    \cup {StableRec(p, r, c) : r \in Star, c \in Class} \cup {FateRec(p), NoviceOption}

Printed(p, o) ==
  \/ \E r \in Star : p.pity[r] # NotShown /\ o = PityRec(p, r)
  \/ \E r \in Star : p.guaranteed[r] = 1 /\ o = RateUpRec(r)
  \/ \E r \in Star, c \in Class : p.stable[r][c] # NotShown /\ o = StableRec(p, r, c)
  \/ p.fatePoints # NotShown /\ o = FateRec(p)
  \/ cfg.banner = "NOVICE" /\ o = NoviceOption

LEMMA WhenRange ==
  ASSUME NEW shown \in BOOLEAN, NEW A, NEW o \in A
  PROVE  When(shown, o) \in Seq(A) /\ \A q : q \in Range(When(shown, o)) <=> shown /\ q = o
<1>1. CASE shown
  <2> DEFINE s == When(shown, o)
  <2>1. s \in Seq(A) /\ DOMAIN s = {1} /\ s[1] = o
    BY <1>1 DEF When
  <2> HIDE DEF s
  <2>2. \A q : q \in Range(s) <=> q = o
    BY <2>1 DEF Range
  <2>3. QED BY <1>1, <2>1, <2>2 DEF s
<1>2. CASE ~shown
  <2>1. When(shown, o) = <<>>
    BY <1>2 DEF When
  <2>2. \A q : q \notin Range(<<>>)
    BY DEF Range
  <2>3. QED BY <1>2, <2>1, <2>2
<1>3. QED BY <1>1, <1>2

LEMMA ConcatRange ==
  ASSUME NEW A, NEW s \in Seq(A), NEW t \in Seq(A)
  PROVE  s \o t \in Seq(A) /\ \A q : q \in Range(s \o t) <=> q \in Range(s) \/ q \in Range(t)
<1>1. s \o t \in Seq(A)
  BY ConcatProperties
<1>2. Range(s \o t) = Range(s) \cup Range(t)
  BY RangeConcatenation
<1>3. QED BY <1>1, <1>2

LEMMA CarriedIsPrinted ==
  ASSUME NEW p
  PROVE  /\ Carried(p) \in Seq(Printable(p))
         /\ \A o : o \in Range(Carried(p)) <=> Printed(p, o)
<1> DEFINE A == Printable(p)
<1>1. /\ \A r \in Star : PityRec(p, r) \in A /\ RateUpRec(r) \in A
      /\ \A r \in Star, c \in Class : StableRec(p, r, c) \in A
      /\ FateRec(p) \in A /\ NoviceOption \in A
  BY DEF Printable
<1> HIDE DEF A
<1>2. \A r \in Star : /\ PityOption(p, r) \in Seq(A)
                      /\ \A o : o \in Range(PityOption(p, r)) <=> p.pity[r] # NotShown /\ o = PityRec(p, r)
  <2>1. SUFFICES ASSUME NEW r \in Star
                 PROVE  /\ PityOption(p, r) \in Seq(A)
                        /\ \A o : o \in Range(PityOption(p, r)) <=> p.pity[r] # NotShown /\ o = PityRec(p, r)
    OBVIOUS
  <2>2. PityOption(p, r) = When(p.pity[r] # NotShown, PityRec(p, r))
    BY DEF PityOption, PityRec
  <2> DEFINE shown == p.pity[r] # NotShown
             o == PityRec(p, r)
  <2>3. shown \in BOOLEAN /\ o \in A
    BY <1>1
  <2> HIDE DEF shown, o
  <2>4. /\ When(shown, o) \in Seq(A)
        /\ \A q : q \in Range(When(shown, o)) <=> shown /\ q = o
    BY <2>3, WhenRange
  <2>5. QED BY <2>2, <2>4 DEF shown, o
<1>3. \A r \in Star : /\ RateUpOption(p, r) \in Seq(A)
                      /\ \A o : o \in Range(RateUpOption(p, r)) <=> p.guaranteed[r] = 1 /\ o = RateUpRec(r)
  <2>1. SUFFICES ASSUME NEW r \in Star
                 PROVE  /\ RateUpOption(p, r) \in Seq(A)
                        /\ \A o : o \in Range(RateUpOption(p, r)) <=> p.guaranteed[r] = 1 /\ o = RateUpRec(r)
    OBVIOUS
  <2>2. RateUpOption(p, r) = When(p.guaranteed[r] = 1, RateUpRec(r))
    BY DEF RateUpOption, RateUpRec
  <2> DEFINE shown == p.guaranteed[r] = 1
             o == RateUpRec(r)
  <2>3. shown \in BOOLEAN /\ o \in A
    BY <1>1
  <2> HIDE DEF shown, o
  <2>4. /\ When(shown, o) \in Seq(A)
        /\ \A q : q \in Range(When(shown, o)) <=> shown /\ q = o
    BY <2>3, WhenRange
  <2>5. QED BY <2>2, <2>4 DEF shown, o
<1>4. \A r \in Star, c \in Class :
        /\ StableOption(p, r, c) \in Seq(A)
        /\ \A o : o \in Range(StableOption(p, r, c)) <=> p.stable[r][c] # NotShown /\ o = StableRec(p, r, c)
  <2>1. SUFFICES ASSUME NEW r \in Star, NEW c \in Class
                 PROVE  /\ StableOption(p, r, c) \in Seq(A)
                        /\ \A o : o \in Range(StableOption(p, r, c))
                                    <=> p.stable[r][c] # NotShown /\ o = StableRec(p, r, c)
    OBVIOUS
  <2>2. StableOption(p, r, c) = When(p.stable[r][c] # NotShown, StableRec(p, r, c))
    BY DEF StableOption, StableRec
  <2> DEFINE shown == p.stable[r][c] # NotShown
             o == StableRec(p, r, c)
  <2>3. shown \in BOOLEAN /\ o \in A
    BY <1>1
  <2> HIDE DEF shown, o
  <2>4. /\ When(shown, o) \in Seq(A)
        /\ \A q : q \in Range(When(shown, o)) <=> shown /\ q = o
    BY <2>3, WhenRange
  <2>5. QED BY <2>2, <2>4 DEF shown, o
<1>5. /\ FateOption(p) \in Seq(A)
      /\ \A o : o \in Range(FateOption(p)) <=> p.fatePoints # NotShown /\ o = FateRec(p)
  <2>1. FateOption(p) = When(p.fatePoints # NotShown, FateRec(p))
    BY DEF FateOption, FateRec
  <2> DEFINE shown == p.fatePoints # NotShown
             o == FateRec(p)
  <2>2. shown \in BOOLEAN /\ o \in A
    BY <1>1
  <2> HIDE DEF shown, o
  <2>3. /\ When(shown, o) \in Seq(A)
        /\ \A q : q \in Range(When(shown, o)) <=> shown /\ q = o
    BY <2>2, WhenRange
  <2>4. QED BY <2>1, <2>3 DEF shown, o
<1> DEFINE last == When(cfg.banner = "NOVICE", NoviceOption)
<1>6. /\ last \in Seq(A)
      /\ \A o : o \in Range(last) <=> cfg.banner = "NOVICE" /\ o = NoviceOption
  BY <1>1, WhenRange
<1> HIDE DEF last
<1> DEFINE a == PityOption(p, 4) \o PityOption(p, 5)
           b == a \o RateUpOption(p, 4) \o RateUpOption(p, 5)
           c == b \o StableOption(p, 4, "chr") \o StableOption(p, 4, "wpn")
           d == c \o StableOption(p, 5, "chr") \o StableOption(p, 5, "wpn")
<1>7. 4 \in Star /\ 5 \in Star /\ "chr" \in Class /\ "wpn" \in Class
  BY DEF Star, Class
<1>8. a \in Seq(A) /\ \A o : o \in Range(a) <=> \E r \in Star : p.pity[r] # NotShown /\ o = PityRec(p, r)
  <2>1. \A o : o \in Range(a) <=> o \in Range(PityOption(p, 4)) \/ o \in Range(PityOption(p, 5))
    BY <1>2, <1>7, ConcatRange
  <2>2. QED BY <1>2, <1>7, <2>1, ConcatRange DEF Star
<1> HIDE DEF a
<1>9. /\ b \in Seq(A)
      /\ \A o : o \in Range(b) <=> o \in Range(a) \/ \E r \in Star : p.guaranteed[r] = 1 /\ o = RateUpRec(r)
  <2> DEFINE u == a \o RateUpOption(p, 4)
  <2>1. u \in Seq(A) /\ \A o : o \in Range(u) <=> o \in Range(a) \/ o \in Range(RateUpOption(p, 4))
    BY <1>3, <1>7, <1>8, ConcatRange
  <2>2. b = u \o RateUpOption(p, 5)
    OBVIOUS
  <2> HIDE DEF u, b
  <2>3. b \in Seq(A) /\ \A o : o \in Range(b) <=> o \in Range(u) \/ o \in Range(RateUpOption(p, 5))
    BY <1>3, <1>7, <2>1, <2>2, ConcatRange
  <2>4. QED BY <1>3, <1>7, <2>1, <2>3 DEF Star
<1> HIDE DEF b
<1>10. /\ c \in Seq(A)
       /\ \A o : o \in Range(c) <=> o \in Range(b)
                   \/ \E k \in Class : p.stable[4][k] # NotShown /\ o = StableRec(p, 4, k)
  <2> DEFINE u == b \o StableOption(p, 4, "chr")
  <2>1. u \in Seq(A) /\ \A o : o \in Range(u) <=> o \in Range(b) \/ o \in Range(StableOption(p, 4, "chr"))
    BY <1>4, <1>7, <1>9, ConcatRange
  <2>2. c = u \o StableOption(p, 4, "wpn")
    OBVIOUS
  <2> HIDE DEF u, c
  <2>3. c \in Seq(A) /\ \A o : o \in Range(c) <=> o \in Range(u) \/ o \in Range(StableOption(p, 4, "wpn"))
    BY <1>4, <1>7, <2>1, <2>2, ConcatRange
  <2>4. QED BY <1>4, <1>7, <2>1, <2>3 DEF Class
<1> HIDE DEF c
<1>11. /\ d \in Seq(A)
       /\ \A o : o \in Range(d) <=> o \in Range(c)
                   \/ \E k \in Class : p.stable[5][k] # NotShown /\ o = StableRec(p, 5, k)
  <2> DEFINE u == c \o StableOption(p, 5, "chr")
  <2>1. u \in Seq(A) /\ \A o : o \in Range(u) <=> o \in Range(c) \/ o \in Range(StableOption(p, 5, "chr"))
    BY <1>4, <1>7, <1>10, ConcatRange
  <2>2. d = u \o StableOption(p, 5, "wpn")
    OBVIOUS
  <2> HIDE DEF u, d
  <2>3. d \in Seq(A) /\ \A o : o \in Range(d) <=> o \in Range(u) \/ o \in Range(StableOption(p, 5, "wpn"))
    BY <1>4, <1>7, <2>1, <2>2, ConcatRange
  <2>4. QED BY <1>4, <1>7, <2>1, <2>3 DEF Class
<1>12. Carried(p) = d \o FateOption(p) \o last
  BY DEF Carried, a, b, c, last
<1> HIDE DEF d
<1>13. /\ Carried(p) \in Seq(A)
       /\ \A o : o \in Range(Carried(p)) <=> o \in Range(d) \/ o \in Range(FateOption(p)) \/ o \in Range(last)
  <2> DEFINE u == d \o FateOption(p)
  <2>1. u \in Seq(A) /\ \A o : o \in Range(u) <=> o \in Range(d) \/ o \in Range(FateOption(p))
    BY <1>5, <1>11, ConcatRange
  <2>2. Carried(p) = u \o last
    BY <1>12
  <2> HIDE DEF u
  <2>3. QED BY <1>6, <2>1, <2>2, ConcatRange
<1>14. \A o : o \in Range(Carried(p)) <=> Printed(p, o)
  BY <1>5, <1>6, <1>8, <1>9, <1>10, <1>11, <1>13 DEF Printed, Star
<1>15. QED BY <1>13, <1>14 DEF A
-----------------------------------------------------------------------------
(* Where the next run starts, given what was printed. *)

PityFrom(p)   == [r \in Star |-> IF p.pity[r] # NotShown THEN p.pity[r] ELSE 0]
RateUpFrom(p) == [r \in Star |-> IF p.guaranteed[r] = 1 THEN 1 ELSE 0]
StableFrom(p) == [r \in Star |-> [c \in Class |-> IF p.stable[r][c] # NotShown THEN p.stable[r][c] ELSE 0]]
FateFrom(p)   == IF p.fatePoints # NotShown THEN p.fatePoints ELSE 0
NoviceFrom    == IF cfg.banner # "NOVICE" THEN order.noviceCnt
                 ELSE IF order.noviceCnt + i > 8 THEN 8 ELSE order.noviceCnt + i

StartsFrom(p, h) ==
  /\ h.g.cfg = cfg
  /\ h.g.pity = PityFrom(p) /\ h.g.pityS = StableFrom(p)
  /\ h.g.getRateUp = RateUpFrom(p) /\ h.g.fatePoints = FateFrom(p)
  /\ h.order = [order EXCEPT !.noviceCnt = NoviceFrom]
  /\ h.g.pity[5] <= 90 /\ h.g.fatePoints <= 2

-----------------------------------------------------------------------------
(* The invariant of the chain. *)

\* Every number is stored, or its option still to be typed.
Restoring(p) ==
  /\ opts.pity \in [Star -> Byte] /\ opts.pity[5] <= 90
  /\ \A r \in Star : opts.pity[r] = PityFrom(p)[r] \/ PityRec(p, r) \in Range(script)
  /\ opts.getRateUp \in [Star -> {0, 1}]
  /\ \A r \in Star : opts.getRateUp[r] = RateUpFrom(p)[r] \/ RateUpRec(r) \in Range(script)
  /\ opts.pityS \in [Star -> [Class -> Byte]]
  /\ \A r \in Star, c \in Class :
        opts.pityS[r][c] = StableFrom(p)[r][c] \/ StableRec(p, r, c) \in Range(script)
  /\ opts.fatePoints \in 0..2
  /\ opts.fatePoints = FateFrom(p) \/ FateRec(p) \in Range(script)
  /\ opts.noviceCnt = NoviceFrom \/ (cfg.banner = "NOVICE" /\ NoviceOption \in Range(script))

\* The standing options are read, those of the results are being typed.
CarriedLeft(p) ==
  /\ script \in Seq(Printable(p)) /\ \A o \in Range(script) : Printed(p, o)
  /\ Line!Handover.g.cfg = cfg
  /\ Line!Handover.order.pulls = order.pulls
  /\ Line!Handover.order.forceSmooth = order.forceSmooth
  /\ Restoring(p)

Typeable(p) ==
  {Standing(cfg, order)[k] : k \in DOMAIN Standing(cfg, order)} \cup Printable(p)

\* The rest of the standing options is still to be typed.
StandingLeft(p) ==
  \E rest \in Seq(Typeable(p)) :
     /\ line \in Seq(Typeable(p))
     /\ line \o rest = Standing(cfg, order)
     /\ script = rest \o Carried(p)

ChainInv ==
  /\ TypeOKS /\ ResultsLast
  /\ handed # <<>> => /\ stage = "ready" /\ report # <<>>
                      /\ StartsFrom(report[1], handed[1])
  /\ stage = "options" =>
       /\ handed = <<>> /\ report # <<>>
       /\ DOMAIN opts = DOMAIN Line!Defaults
       /\ StandingLeft(report[1]) \/ CarriedLeft(report[1])

-----------------------------------------------------------------------------
(* Sequences being typed. *)

\* The first of what is left moves to the end of what was typed.
LEMMA TypeOne ==
  ASSUME NEW A, NEW s \in Seq(A), NEW t \in Seq(A), t # <<>>
  PROVE  /\ Head(t) \in A /\ Tail(t) \in Seq(A)
         /\ Append(s, Head(t)) \in Seq(A)
         /\ Append(s, Head(t)) \o Tail(t) = s \o t
<1>1. /\ Head(t) \in A /\ Tail(t) \in Seq(A) /\ Len(Tail(t)) = Len(t) - 1
      /\ \A k \in 1..Len(Tail(t)) : Tail(t)[k] = t[k + 1]
      /\ Head(t) = t[1] /\ Len(t) >= 1 /\ Len(s) \in Nat /\ Len(t) \in Nat
  BY HeadTailProperties, LenProperties, EmptySeq
<1>2. Append(s, Head(t)) = s \o <<Head(t)>> /\ <<Head(t)>> \in Seq(A)
  BY <1>1, AppendIsConcat
<1>3. t = <<Head(t)>> \o Tail(t)
  BY <1>1
<1>4. (s \o <<Head(t)>>) \o Tail(t) = s \o (<<Head(t)>> \o Tail(t))
  BY <1>1, <1>2, ConcatAssociative
<1>5. QED BY <1>1, <1>2, <1>3, <1>4

\* What is left to type after the first of it.
LEMMA TypeFirst ==
  ASSUME NEW A, NEW s \in Seq(A), NEW u \in Seq(A), s # <<>>
  PROVE  Head(s \o u) = Head(s) /\ Tail(s \o u) = Tail(s) \o u
<1>1. s \o u \in Seq(A) /\ Len(s) >= 1 /\ Head(s) \in A /\ Tail(s) \in Seq(A)
  BY HeadTailProperties, LenProperties, EmptySeq, ConcatProperties
<1>2. s = <<Head(s)>> \o Tail(s) /\ <<Head(s)>> \in Seq(A)
  BY <1>1
<1>3. s \o u = <<Head(s)>> \o (Tail(s) \o u) /\ Tail(s) \o u \in Seq(A)
  BY <1>1, <1>2, ConcatAssociative, ConcatProperties
<1> DEFINE h == Head(s)
           t == Tail(s) \o u
<1>4. h \in A /\ t \in Seq(A) /\ s \o u = <<h>> \o t
  BY <1>1, <1>3
<1> HIDE DEF h, t
<1>5. Head(<<h>> \o t) = h /\ Tail(<<h>> \o t) = t
  BY <1>4
<1>6. QED BY <1>4, <1>5 DEF h, t

LEMMA RangeOfFirst ==
  ASSUME NEW A, NEW s \in Seq(A), s # <<>>
  PROVE  /\ Head(s) \in A /\ Head(s) \in Range(s) /\ Tail(s) \in Seq(A)
         /\ \A q \in Range(s) : q = Head(s) \/ q \in Range(Tail(s))
         /\ \A q \in Range(Tail(s)) : q \in Range(s)
<1>1. /\ Head(s) \in A /\ Tail(s) \in Seq(A) /\ Len(Tail(s)) = Len(s) - 1
      /\ \A k \in 1..Len(Tail(s)) : Tail(s)[k] = s[k + 1]
      /\ Head(s) = s[1] /\ Len(s) >= 1 /\ Len(s) \in Nat
  BY HeadTailProperties, LenProperties, EmptySeq
<1>2. DOMAIN s = 1..Len(s) /\ DOMAIN Tail(s) = 1..Len(Tail(s))
  BY <1>1, LenProperties
<1>3. Head(s) \in Range(s)
  BY <1>1, <1>2 DEF Range
<1>4. ASSUME NEW q \in Range(s) PROVE q = Head(s) \/ q \in Range(Tail(s))
  <2>1. PICK k \in 1..Len(s) : q = s[k]
    BY <1>2, <1>4 DEF Range
  <2>2. CASE k = 1
    BY <1>1, <2>1, <2>2
  <2>3. CASE k # 1
    <3>1. k - 1 \in 1..Len(Tail(s)) /\ Tail(s)[k - 1] = s[k]
      BY <1>1, <2>1, <2>3
    <3>2. QED BY <1>2, <2>1, <3>1 DEF Range
  <2>4. QED BY <2>2, <2>3
<1>5. ASSUME NEW q \in Range(Tail(s)) PROVE q \in Range(s)
  <2>1. PICK k \in 1..Len(Tail(s)) : q = Tail(s)[k]
    BY <1>2, <1>5 DEF Range
  <2>2. k + 1 \in 1..Len(s) /\ q = s[k + 1]
    BY <1>1, <2>1
  <2>3. QED BY <1>2, <2>2 DEF Range
<1>6. QED BY <1>1, <1>3, <1>4, <1>5

-----------------------------------------------------------------------------
(* What the options of the results store. *)

\* The engine's options and the orders are resolved from these.
SameEngine ==
  /\ opts'.banner = opts.banner /\ opts'.version = opts.version
  /\ opts'.versionGiven = opts.versionGiven /\ opts'.poolVersion = opts.poolVersion
  /\ opts'.poolGiven = opts.poolGiven /\ opts'.doPity = opts.doPity
  /\ opts'.doSmooth = opts.doSmooth /\ opts'.oldSmooth = opts.oldSmooth
  /\ opts'.do5050 = opts.do5050 /\ opts'.doEpitomized = opts.doEpitomized
  /\ opts'.doRadiance = opts.doRadiance /\ opts'.pathIndex = opts.pathIndex
  /\ opts'.pulls = opts.pulls /\ opts'.forced = opts.forced

LEMMA EngineFrame ==
  ASSUME SameEngine
  PROVE  /\ Line!Handover'.g.cfg = Line!Handover.g.cfg
         /\ Line!Handover'.order.pulls = Line!Handover.order.pulls
         /\ Line!Handover'.order.forceSmooth = Line!Handover.order.forceSmooth
<1>1. Line!Version' = Line!Version
  BY DEF SameEngine, Line!Version, Line!Newest, Line!Nibbles
<1>2. Line!PoolVersion' = Line!PoolVersion
  BY <1>1 DEF SameEngine, Line!PoolVersion, Line!Nibbles
<1>3. Line!Row(Line!Version)' = Line!Row(Line!Version)
  <2> DEFINE v == Line!Version
             s == Line!Squeezed(16 * v[1] + v[2])
             n == (IF s >= 20 THEN s + 1 ELSE s) - 16
  <2>1. v' = v /\ s' = s
    BY <1>1 DEF Line!Squeezed
  <2>2. Line!Row(v) = v[3] - 1 + 2 * (IF n > 40 THEN 40 ELSE n)
    BY DEF Line!Row
  <2>3. Line!Row(v)' = v'[3] - 1 + 2 * (IF n' > 40 THEN 40 ELSE n')
    BY DEF Line!Row
  <2> HIDE DEF v, s
  <2>4. n' = n
    BY <2>1
  <2> HIDE DEF n
  <2>5. Line!Row(v)' = Line!Row(v)
    BY <2>1, <2>2, <2>3, <2>4
  <2>6. QED BY <2>5 DEF v
<1>4. Line!StdPoolIndex' = Line!StdPoolIndex
  <2> DEFINE n == Line!Squeezed(16 * Line!PoolVersion[1] + Line!PoolVersion[2]) - 15
  <2>1. n' = n
    BY <1>2 DEF Line!Squeezed
  <2>2. Line!StdPoolIndex = IF opts.banner = "NOVICE" THEN 0 ELSE IF n < 1 THEN 1 ELSE IF n > 41 THEN 41 ELSE n
    BY DEF Line!StdPoolIndex
  <2>3. Line!StdPoolIndex' = IF opts'.banner = "NOVICE" THEN 0 ELSE IF n' < 1 THEN 1 ELSE IF n' > 41 THEN 41 ELSE n'
    BY DEF Line!StdPoolIndex
  <2> HIDE DEF n
  <2>4. QED BY <2>1, <2>2, <2>3 DEF SameEngine
<1>5. Line!EpitomizedLimit' = Line!EpitomizedLimit /\ Line!Radiance' = Line!Radiance
  BY <1>1 DEF SameEngine, Line!EpitomizedLimit, Line!Radiance, Line!VersionCode
<1>6. Line!EpitomizedPath' = Line!EpitomizedPath
  <2> DEFINE r == Line!Row(Line!Version)
             path(o, q) ==
               IF o.pathIndex <= 0 \/ o.banner \notin {"WPN", "CHRONICLED"} THEN Line!NoItem
               ELSE IF o.banner = "CHRONICLED" THEN ChronicleCourses[o.pathIndex]
               ELSE IF q >= 0 THEN WpnUpCourses[o.pathIndex]
               ELSE StrayCourses[<<q, o.pathIndex>>]
  <2>1. r' = r
    BY <1>3
  <2>2. Line!EpitomizedPath = path(opts, r) /\ Line!EpitomizedPath' = path(opts', r')
    BY DEF Line!EpitomizedPath, Line!NoItem
  <2> HIDE DEF r
  <2>3. path(opts', r') = path(opts, r)
    BY <2>1 DEF SameEngine
  <2>4. QED BY <2>2, <2>3
<1>7. Line!BannerToPull' = Line!BannerToPull
  BY <1>3 DEF SameEngine, Line!BannerToPull
<1>8. QED BY <1>4, <1>5, <1>6, <1>7 DEF SameEngine, Line!Handover

\* The option of a pity stores it; and so on.  Nothing else is touched.
StoresPity(r, x) ==
  /\ opts'.pity = [opts.pity EXCEPT ![r] = x] /\ opts'.pityS = opts.pityS
  /\ opts'.getRateUp = opts.getRateUp /\ opts'.fatePoints = opts.fatePoints
  /\ opts'.noviceCnt = opts.noviceCnt

StoresRateUp(r) ==
  /\ opts'.getRateUp = [opts.getRateUp EXCEPT ![r] = 1] /\ opts'.pityS = opts.pityS
  /\ opts'.pity = opts.pity /\ opts'.fatePoints = opts.fatePoints
  /\ opts'.noviceCnt = opts.noviceCnt

StoresStable(r, c, x) ==
  /\ opts'.pityS = [opts.pityS EXCEPT ![r][c] = x % 256] /\ opts'.pity = opts.pity
  /\ opts'.getRateUp = opts.getRateUp /\ opts'.fatePoints = opts.fatePoints
  /\ opts'.noviceCnt = opts.noviceCnt

StoresFate(x) ==
  /\ opts'.fatePoints = x /\ opts'.pity = opts.pity /\ opts'.pityS = opts.pityS
  /\ opts'.getRateUp = opts.getRateUp /\ opts'.noviceCnt = opts.noviceCnt

StoresNovice(x) ==
  /\ opts'.noviceCnt = IF x > 8 THEN 8 ELSE x
  /\ opts'.pity = opts.pity /\ opts'.pityS = opts.pityS
  /\ opts'.getRateUp = opts.getRateUp /\ opts'.fatePoints = opts.fatePoints

LEMMA PrintedStores ==
  ASSUME NEW p, NEW o, Line!Store(o), DOMAIN opts = DOMAIN Line!Defaults
  PROVE  /\ \A r \in Star : o = PityRec(p, r) => SameEngine /\ StoresPity(r, p.pity[r])
         /\ \A r \in Star : o = RateUpRec(r) => SameEngine /\ StoresRateUp(r)
         /\ \A r \in Star, c \in Class : o = StableRec(p, r, c) => SameEngine /\ StoresStable(r, c, p.stable[r][c])
         /\ o = FateRec(p) => SameEngine /\ StoresFate(p.fatePoints)
         /\ o = NoviceOption => SameEngine /\ StoresNovice(order.noviceCnt + i)
<1>1. DOMAIN opts = {"banner", "version", "versionGiven", "poolVersion", "poolGiven", "operands",
                     "pity", "pityS", "getRateUp", "doPity", "doSmooth", "oldSmooth", "do5050",
                     "doEpitomized", "doRadiance", "pathIndex", "fatePoints", "forced", "details",
                     "pulls", "noviceCnt"}
  BY DEF Line!Defaults
<1>2. ASSUME NEW r \in Star, o = PityRec(p, r) PROVE SameEngine /\ StoresPity(r, p.pity[r])
  <2>1. o.name = "pity" /\ o.star = r /\ o.nums[1] = p.pity[r]
    BY <1>2 DEF PityRec
  <2>2. Line!SetPity(o)
    BY <2>1 DEF Line!Store, Line!SetBanner, Line!SetBannerVersion, Line!SetPoolVersion, Line!SetStable,
       Line!SetLostRateUp, Line!SetNoPity, Line!SetNoSmooth, Line!SetOldSmooth, Line!SetForce,
       Line!SetNoGuarantee, Line!SetRateUpOnly, Line!SetEpitomized, Line!SetRadiance, Line!SetCourse,
       Line!SetFatePoints, Line!SetNoviceCnt, Line!SetPulls, Line!SetDetails, Line!Operand
  <2>3. opts' = [opts EXCEPT !.pity[r] = p.pity[r]]
    BY <2>1, <2>2 DEF Line!SetPity
  <2>4. QED BY <1>1, <2>3 DEF SameEngine, StoresPity
<1>3. ASSUME NEW r \in Star, o = RateUpRec(r) PROVE SameEngine /\ StoresRateUp(r)
  <2>1. o.name = "lostRateUp" /\ o.star = r
    BY <1>3 DEF RateUpRec
  <2>2. Line!SetLostRateUp(o)
    BY <2>1 DEF Line!Store, Line!SetBanner, Line!SetBannerVersion, Line!SetPoolVersion, Line!SetStable,
       Line!SetPity, Line!SetNoPity, Line!SetNoSmooth, Line!SetOldSmooth, Line!SetForce,
       Line!SetNoGuarantee, Line!SetRateUpOnly, Line!SetEpitomized, Line!SetRadiance, Line!SetCourse,
       Line!SetFatePoints, Line!SetNoviceCnt, Line!SetPulls, Line!SetDetails, Line!Operand
  <2>3. opts' = [opts EXCEPT !.getRateUp[r] = 1]
    BY <2>1, <2>2 DEF Line!SetLostRateUp
  <2>4. QED BY <1>1, <2>3 DEF SameEngine, StoresRateUp
<1>4. ASSUME NEW r \in Star, NEW c \in Class, o = StableRec(p, r, c)
      PROVE  SameEngine /\ StoresStable(r, c, p.stable[r][c])
  <2>1. o.name = "smooth" /\ o.star = r /\ o.class = c /\ o.nums[1] = p.stable[r][c]
    BY <1>4 DEF StableRec
  <2>2. Line!SetStable(o)
    BY <2>1 DEF Line!Store, Line!SetBanner, Line!SetBannerVersion, Line!SetPoolVersion, Line!SetPity,
       Line!SetLostRateUp, Line!SetNoPity, Line!SetNoSmooth, Line!SetOldSmooth, Line!SetForce,
       Line!SetNoGuarantee, Line!SetRateUpOnly, Line!SetEpitomized, Line!SetRadiance, Line!SetCourse,
       Line!SetFatePoints, Line!SetNoviceCnt, Line!SetPulls, Line!SetDetails, Line!Operand
  <2>3. opts' = [opts EXCEPT !.pityS[r][c] = p.stable[r][c] % 256]
    BY <2>1, <2>2 DEF Line!SetStable
  <2>4. QED BY <1>1, <2>3 DEF SameEngine, StoresStable
<1>5. ASSUME o = FateRec(p) PROVE SameEngine /\ StoresFate(p.fatePoints)
  <2>1. o.name = "fate_points" /\ o.nums[1] = p.fatePoints
    BY <1>5 DEF FateRec
  <2>2. Line!SetFatePoints(o)
    BY <2>1 DEF Line!Store, Line!SetBanner, Line!SetBannerVersion, Line!SetPoolVersion, Line!SetPity,
       Line!SetStable, Line!SetLostRateUp, Line!SetNoPity, Line!SetNoSmooth, Line!SetOldSmooth,
       Line!SetForce, Line!SetNoGuarantee, Line!SetRateUpOnly, Line!SetEpitomized, Line!SetRadiance,
       Line!SetCourse, Line!SetNoviceCnt, Line!SetPulls, Line!SetDetails, Line!Operand
  <2>3. opts' = [opts EXCEPT !.fatePoints = p.fatePoints]
    BY <2>1, <2>2 DEF Line!SetFatePoints
  <2>4. QED BY <1>1, <2>3 DEF SameEngine, StoresFate
<1>6. ASSUME o = NoviceOption PROVE SameEngine /\ StoresNovice(order.noviceCnt + i)
  <2>1. o.name = "noviceCnt" /\ o.nums[1] = order.noviceCnt + i
    BY <1>6 DEF NoviceOption
  <2>2. Line!SetNoviceCnt(o)
    BY <2>1 DEF Line!Store, Line!SetBanner, Line!SetBannerVersion, Line!SetPoolVersion, Line!SetPity,
       Line!SetStable, Line!SetLostRateUp, Line!SetNoPity, Line!SetNoSmooth, Line!SetOldSmooth,
       Line!SetForce, Line!SetNoGuarantee, Line!SetRateUpOnly, Line!SetEpitomized, Line!SetRadiance,
       Line!SetCourse, Line!SetFatePoints, Line!SetPulls, Line!SetDetails, Line!Operand
  <2>3. opts' = [opts EXCEPT !.noviceCnt = IF order.noviceCnt + i > 8 THEN 8 ELSE order.noviceCnt + i]
    BY <2>1, <2>2 DEF Line!SetNoviceCnt
  <2>4. QED BY <1>1, <2>3 DEF SameEngine, StoresNovice
<1>7. QED BY <1>2, <1>3, <1>4, <1>5, <1>6

\* Options are stored in the variables there are.
LEMMA SameVariables ==
  ASSUME NEW o, Line!Store(o) PROVE DOMAIN opts' = DOMAIN opts
  BY DEF Line!Store, Line!SetBanner, Line!SetBannerVersion, Line!SetPoolVersion, Line!SetPity,
     Line!SetStable, Line!SetLostRateUp, Line!SetNoPity, Line!SetNoSmooth, Line!SetOldSmooth,
     Line!SetForce, Line!SetNoGuarantee, Line!SetRateUpOnly, Line!SetEpitomized, Line!SetRadiance,
     Line!SetCourse, Line!SetFatePoints, Line!SetNoviceCnt, Line!SetPulls, Line!SetDetails, Line!Operand

-----------------------------------------------------------------------------
(* The numbers come back one by one. *)

\* What the results hold.
PrintedType(p) ==
  /\ p.fatePoints \in Byte \cup {NotShown}
  /\ \A r \in Star : /\ p.pity[r] \in Byte \cup {NotShown}
                     /\ p.guaranteed[r] \in {0, 1, NotShown}
                     /\ \A c \in Class : p.stable[r][c] \in Byte \cup {NotShown}

\* Options of different names, stars and classes are different.
LEMMA OptionNames ==
  ASSUME NEW p
  PROVE  /\ \A r : PityRec(p, r).name = "pity" /\ PityRec(p, r).star = r
         /\ \A r : RateUpRec(r).name = "lostRateUp" /\ RateUpRec(r).star = r
         /\ \A r, c : /\ StableRec(p, r, c).name = "smooth" /\ StableRec(p, r, c).star = r
                      /\ StableRec(p, r, c).class = c
         /\ FateRec(p).name = "fate_points" /\ NoviceOption.name = "noviceCnt"
  BY DEF PityRec, RateUpRec, StableRec, FateRec, NoviceOption

\* An option that is taken restores its number and leaves the others.
LEMMA RestoringStep ==
  ASSUME NEW p, PrintedType(p), Restoring(p), NEW o, Printed(p, o),
         Line!Accepts(o), Line!Store(o), DOMAIN opts = DOMAIN Line!Defaults,
         \A q \in Range(script) : q = o \/ q \in Range(script'),
         UNCHANGED <<cfg, order, i>>
  PROVE  Restoring(p)' /\ SameEngine
<1>1. /\ \A r : PityRec(p, r).name = "pity" /\ PityRec(p, r).star = r
      /\ \A r : RateUpRec(r).name = "lostRateUp" /\ RateUpRec(r).star = r
      /\ \A r, c : /\ StableRec(p, r, c).name = "smooth" /\ StableRec(p, r, c).star = r
                   /\ StableRec(p, r, c).class = c
      /\ FateRec(p).name = "fate_points" /\ NoviceOption.name = "noviceCnt"
  BY OptionNames
<1>2. NoviceFrom' = NoviceFrom /\ NoviceOption' = NoviceOption /\ cfg' = cfg
  BY DEF NoviceFrom, NoviceOption
<1>3. /\ opts.pity \in [Star -> Byte] /\ opts.pity[5] <= 90
      /\ opts.getRateUp \in [Star -> {0, 1}]
      /\ opts.pityS \in [Star -> [Class -> Byte]] /\ opts.fatePoints \in 0..2
  BY DEF Restoring
<1> DEFINE PityLeft(s)   == \A r \in Star : opts.pity[r] = PityFrom(p)[r] \/ PityRec(p, r) \in Range(s)
           RateUpLeft(s) == \A r \in Star : opts.getRateUp[r] = RateUpFrom(p)[r] \/ RateUpRec(r) \in Range(s)
           StableLeft(s) == \A r \in Star, c \in Class :
                               opts.pityS[r][c] = StableFrom(p)[r][c] \/ StableRec(p, r, c) \in Range(s)
           FateLeft(s)   == opts.fatePoints = FateFrom(p) \/ FateRec(p) \in Range(s)
           NoviceLeft(s) == opts.noviceCnt = NoviceFrom \/ (cfg.banner = "NOVICE" /\ NoviceOption \in Range(s))
<1>4. /\ o.name # "pity" => PityLeft(script')
      /\ o.name # "lostRateUp" => RateUpLeft(script')
      /\ o.name # "smooth" => StableLeft(script')
      /\ o.name # "fate_points" => FateLeft(script')
      /\ o.name # "noviceCnt" => NoviceLeft(script')
  BY <1>1 DEF Restoring
<1>5. CASE \E r \in Star : p.pity[r] # NotShown /\ o = PityRec(p, r)
  <2>1. PICK x \in Star : p.pity[x] # NotShown /\ o = PityRec(p, x)
    BY <1>5
  <2>2. SameEngine /\ StoresPity(x, p.pity[x])
    BY <2>1, PrintedStores
  <2>3. p.pity[x] \in Byte /\ (x = 5 => p.pity[x] <= 90)
    <3>1. p.pity[x] \in Byte
      BY <2>1 DEF PrintedType
    <3>2. x = 5 => p.pity[x] <= 90
      BY <2>1 DEF PityRec, Line!Accepts, Line!Within
    <3>3. QED BY <3>1, <3>2
  <2>4. opts'.pity \in [Star -> Byte] /\ opts'.pity[5] <= 90
    BY <1>3, <2>2, <2>3 DEF StoresPity, Star
  <2>5. \A r \in Star : opts'.pity[r] = PityFrom(p)[r] \/ PityRec(p, r) \in Range(script')
    <3>1. SUFFICES ASSUME NEW r \in Star
                   PROVE  opts'.pity[r] = PityFrom(p)[r] \/ PityRec(p, r) \in Range(script')
      OBVIOUS
    <3>2. CASE r = x
      BY <1>3, <2>1, <2>2, <3>2 DEF StoresPity, PityFrom
    <3>3. CASE r # x
      <4>1. opts'.pity[r] = opts.pity[r] /\ PityRec(p, r) # o
        BY <1>1, <1>3, <2>1, <2>2, <3>3 DEF StoresPity
      <4>2. QED BY <4>1 DEF Restoring
    <3>4. QED BY <3>2, <3>3
  <2>6. o.name = "pity"
    BY <1>1, <2>1
  <2>7. Restoring(p)'
    BY <1>2, <1>3, <1>4, <2>2, <2>4, <2>5, <2>6 DEF Restoring, StoresPity
  <2>8. QED BY <2>2, <2>7
<1>6. CASE \E r \in Star : p.guaranteed[r] = 1 /\ o = RateUpRec(r)
  <2>1. PICK x \in Star : p.guaranteed[x] = 1 /\ o = RateUpRec(x)
    BY <1>6
  <2>2. SameEngine /\ StoresRateUp(x)
    BY <2>1, PrintedStores
  <2>3. opts'.getRateUp \in [Star -> {0, 1}]
    BY <1>3, <2>2 DEF StoresRateUp
  <2>4. \A r \in Star : opts'.getRateUp[r] = RateUpFrom(p)[r] \/ RateUpRec(r) \in Range(script')
    <3>1. SUFFICES ASSUME NEW r \in Star
                   PROVE  opts'.getRateUp[r] = RateUpFrom(p)[r] \/ RateUpRec(r) \in Range(script')
      OBVIOUS
    <3>2. CASE r = x
      BY <1>3, <2>1, <2>2, <3>2 DEF StoresRateUp, RateUpFrom
    <3>3. CASE r # x
      <4>1. opts'.getRateUp[r] = opts.getRateUp[r] /\ RateUpRec(r) # o
        BY <1>1, <1>3, <2>1, <2>2, <3>3 DEF StoresRateUp
      <4>2. QED BY <4>1 DEF Restoring
    <3>4. QED BY <3>2, <3>3
  <2>5. o.name = "lostRateUp"
    BY <1>1, <2>1
  <2>6. Restoring(p)'
    BY <1>2, <1>3, <1>4, <2>2, <2>3, <2>4, <2>5 DEF Restoring, StoresRateUp
  <2>7. QED BY <2>2, <2>6
<1>7. CASE \E r \in Star, c \in Class : p.stable[r][c] # NotShown /\ o = StableRec(p, r, c)
  <2>1. PICK x \in Star, k \in Class : p.stable[x][k] # NotShown /\ o = StableRec(p, x, k)
    BY <1>7
  <2>2. SameEngine /\ StoresStable(x, k, p.stable[x][k])
    BY <2>1, PrintedStores
  <2>3. p.stable[x][k] \in Byte /\ p.stable[x][k] % 256 = p.stable[x][k]
    <3>1. p.stable[x][k] \in 0..255
      BY <2>1 DEF PrintedType, Byte
    <3>2. QED BY <3>1 DEF Byte
  <2>4. opts'.pityS = [opts.pityS EXCEPT ![x][k] = p.stable[x][k]]
    BY <2>2, <2>3 DEF StoresStable
  <2>5. opts'.pityS \in [Star -> [Class -> Byte]]
    BY <1>3, <2>3, <2>4
  <2>6. \A r \in Star, c \in Class :
           opts'.pityS[r][c] = StableFrom(p)[r][c] \/ StableRec(p, r, c) \in Range(script')
    <3>1. SUFFICES ASSUME NEW r \in Star, NEW c \in Class
                   PROVE  opts'.pityS[r][c] = StableFrom(p)[r][c] \/ StableRec(p, r, c) \in Range(script')
      OBVIOUS
    <3>2. CASE r = x /\ c = k
      BY <1>3, <2>1, <2>4, <3>2 DEF StableFrom
    <3>3. CASE r # x \/ c # k
      <4>1. opts'.pityS[r][c] = opts.pityS[r][c] /\ StableRec(p, r, c) # o
        BY <1>1, <1>3, <2>1, <2>4, <3>3
      <4>2. QED BY <4>1 DEF Restoring
    <3>4. QED BY <3>2, <3>3
  <2>7. o.name = "smooth"
    BY <1>1, <2>1
  <2>8. Restoring(p)'
    BY <1>2, <1>3, <1>4, <2>2, <2>5, <2>6, <2>7 DEF Restoring, StoresStable
  <2>9. QED BY <2>2, <2>8
<1>8. CASE p.fatePoints # NotShown /\ o = FateRec(p)
  <2>1. SameEngine /\ StoresFate(p.fatePoints)
    BY <1>8, PrintedStores
  <2>2. opts'.fatePoints \in 0..2
    <3>1. o.name = "fate_points" /\ o.nums = <<p.fatePoints>>
      BY <1>8 DEF FateRec
    <3>2. Line!Within(o, 0, 2)
      BY <3>1 DEF Line!Accepts
    <3>3. p.fatePoints \in 0..255
      BY <1>8 DEF PrintedType, Byte
    <3>4. o.nums[1] = p.fatePoints /\ o.nums[1] >= 0 /\ o.nums[1] <= 2
      BY <3>1, <3>2 DEF Line!Within, Line!AtLeast
    <3>5. QED BY <2>1, <3>3, <3>4 DEF StoresFate
  <2>3. o.name = "fate_points" /\ opts'.fatePoints = FateFrom(p)
    BY <1>1, <1>8, <2>1 DEF StoresFate, FateFrom
  <2>4. Restoring(p)'
    BY <1>2, <1>3, <1>4, <2>1, <2>2, <2>3 DEF Restoring, StoresFate
  <2>5. QED BY <2>1, <2>4
<1>9. CASE cfg.banner = "NOVICE" /\ o = NoviceOption
  <2>1. SameEngine /\ StoresNovice(order.noviceCnt + i)
    BY <1>9, PrintedStores
  <2>2. o.name = "noviceCnt" /\ opts'.noviceCnt = NoviceFrom
    BY <1>1, <1>9, <2>1 DEF StoresNovice, NoviceFrom
  <2>3. Restoring(p)'
    BY <1>2, <1>3, <1>4, <2>1, <2>2 DEF Restoring, StoresNovice
  <2>4. QED BY <2>1, <2>3
<1>10. QED BY <1>5, <1>6, <1>7, <1>8, <1>9 DEF Printed

-----------------------------------------------------------------------------
(* The steps of the chain. *)

LEMMA ResultsType == ASSUME TypeOKS PROVE PrintedType(Results)
<1>1. /\ pity \in [Star -> Byte] /\ getRateUp \in [Star -> {0, 1}]
      /\ pityS \in [Star -> [Class -> Byte]] /\ fatePoints \in Byte
  BY DEF TypeOKS, TypeOK
<1>2. Results.fatePoints \in Byte \cup {NotShown}
  BY <1>1 DEF Results
<1>3. \A r \in Star : Results.pity[r] \in Byte \cup {NotShown}
  BY <1>1 DEF Results
<1>4. \A r \in Star : Results.guaranteed[r] \in {0, 1, NotShown}
  BY <1>1 DEF Results
<1>5. \A r \in Star, c \in Class : Results.stable[r][c] \in Byte \cup {NotShown}
  BY <1>1 DEF Results
<1>6. QED BY <1>2, <1>3, <1>4, <1>5 DEF PrintedType

\* Once the standing options are read, the options of the results are left.
LEMMA CarriedBegins ==
  ASSUME NEW p, TypeOKS, PrintedType(p), StandingResolves,
         stage = "options", line = Standing(cfg, order), script = Carried(p)
  PROVE  CarriedLeft(p)
<1>1. /\ Line!Handover.g = [cfg |-> cfg, pity |-> Line!Defaults.pity, pityS |-> Line!Defaults.pityS,
                            getRateUp |-> Line!Defaults.getRateUp, fatePoints |-> 0]
      /\ Line!Handover.order = [order EXCEPT !.noviceCnt =
                                  IF cfg.banner = "NOVICE" THEN opts.noviceCnt ELSE @]
  BY DEF StandingResolves
<1>2. order \in Order
  BY DEF TypeOKS
<1>3. /\ Line!Handover.g.cfg = cfg /\ Line!Handover.order.pulls = order.pulls
      /\ Line!Handover.order.forceSmooth = order.forceSmooth
  BY <1>1, <1>2 DEF Order
<1>4. /\ opts.pity = [r \in Star |-> 0] /\ opts.getRateUp = [r \in Star |-> 0]
      /\ opts.pityS = [r \in Star |-> [c \in Class |-> 0]] /\ opts.fatePoints = 0
  <2>1. /\ Line!Handover.g.pity = opts.pity /\ Line!Handover.g.getRateUp = opts.getRateUp
        /\ Line!Handover.g.pityS = opts.pityS /\ Line!Handover.g.fatePoints = opts.fatePoints
    BY DEF Line!Handover
  <2>2. /\ Line!Defaults.pity = [r \in Star |-> 0] /\ Line!Defaults.getRateUp = [r \in Star |-> 0]
        /\ Line!Defaults.pityS = [r \in Star |-> [c \in Class |-> 0]]
    BY DEF Line!Defaults, Line!Star, Line!Class, Star, Class
  <2>3. QED BY <1>1, <2>1, <2>2
<1>5. cfg.banner # "NOVICE" => opts.noviceCnt = order.noviceCnt
  <2>1. Line!Handover.order.noviceCnt = opts.noviceCnt
    BY DEF Line!Handover
  <2>2. QED BY <1>1, <1>2, <2>1 DEF Order
<1>6. script \in Seq(Printable(p)) /\ \A o : o \in Range(script) <=> Printed(p, o)
  BY CarriedIsPrinted
<1>7. \A r \in Star : opts.pity[r] = PityFrom(p)[r] \/ PityRec(p, r) \in Range(script)
  BY <1>4, <1>6 DEF PityFrom, Printed
<1>8. \A r \in Star : opts.getRateUp[r] = RateUpFrom(p)[r] \/ RateUpRec(r) \in Range(script)
  BY <1>4, <1>6 DEF RateUpFrom, Printed
<1>9. \A r \in Star, c \in Class :
         opts.pityS[r][c] = StableFrom(p)[r][c] \/ StableRec(p, r, c) \in Range(script)
  BY <1>4, <1>6 DEF StableFrom, Printed
<1>10. opts.fatePoints = FateFrom(p) \/ FateRec(p) \in Range(script)
  BY <1>4, <1>6 DEF FateFrom, Printed
<1>11. opts.noviceCnt = NoviceFrom \/ (cfg.banner = "NOVICE" /\ NoviceOption \in Range(script))
  BY <1>5, <1>6 DEF NoviceFrom, Printed
<1>12. /\ opts.pity \in [Star -> Byte] /\ opts.pity[5] <= 90
       /\ opts.getRateUp \in [Star -> {0, 1}]
       /\ opts.pityS \in [Star -> [Class -> Byte]] /\ opts.fatePoints \in 0..2
  BY <1>4 DEF Star, Byte
<1>13. Restoring(p)
  BY <1>7, <1>8, <1>9, <1>10, <1>11, <1>12 DEF Restoring
<1>14. QED BY <1>3, <1>6, <1>13 DEF CarriedLeft

\* An option of the results is typed and taken.
LEMMA CarriedStep ==
  ASSUME NEW p, PrintedType(p), CarriedLeft(p), script # <<>>,
         Line!Accepts(Head(script)), Line!Store(Head(script)), script' = Tail(script),
         DOMAIN opts = DOMAIN Line!Defaults, UNCHANGED <<cfg, order, i>>
  PROVE  CarriedLeft(p)'
<1>1. PICK o : o = Head(script)
  OBVIOUS
<1>2. /\ script \in Seq(Printable(p)) /\ \A q \in Range(script) : Printed(p, q)
      /\ Line!Handover.g.cfg = cfg
      /\ Line!Handover.order.pulls = order.pulls
      /\ Line!Handover.order.forceSmooth = order.forceSmooth
      /\ Restoring(p)
  BY DEF CarriedLeft
<1>3. /\ o \in Range(script) /\ script' \in Seq(Printable(p))
      /\ \A q \in Range(script) : q = o \/ q \in Range(script')
      /\ \A q \in Range(script') : q \in Range(script)
  BY <1>1, <1>2, RangeOfFirst
<1>4. NoviceOption' = NoviceOption /\ cfg' = cfg /\ order' = order
  BY DEF NoviceOption
<1>5. Printable(p)' = Printable(p)
  BY <1>4 DEF Printable
<1>6. \A q \in Range(script') : Printed(p, q)'
  BY <1>2, <1>3, <1>4 DEF Printed
<1>7. Restoring(p)' /\ SameEngine
  BY <1>1, <1>2, <1>3, RestoringStep
<1>8. /\ Line!Handover'.g.cfg = cfg' /\ Line!Handover'.order.pulls = order'.pulls
      /\ Line!Handover'.order.forceSmooth = order'.forceSmooth
  BY <1>2, <1>4, <1>7, EngineFrame
<1>9. QED BY <1>3, <1>5, <1>6, <1>7, <1>8 DEF CarriedLeft

\* With nothing left to type, the wishes start where the results say.
LEMMA CarriedEnds ==
  ASSUME NEW p, TypeOKS, CarriedLeft(p), script = <<>>
  PROVE  StartsFrom(p, Line!Handover)
<1>1. /\ Line!Handover.g.cfg = cfg
      /\ Line!Handover.order.pulls = order.pulls
      /\ Line!Handover.order.forceSmooth = order.forceSmooth
      /\ Restoring(p)
  BY DEF CarriedLeft
<1>2. \A q : q \notin Range(script)
  BY DEF Range
<1>3. /\ opts.pity \in [Star -> Byte] /\ opts.pity[5] <= 90
      /\ opts.getRateUp \in [Star -> {0, 1}]
      /\ opts.pityS \in [Star -> [Class -> Byte]] /\ opts.fatePoints \in 0..2
      /\ \A r \in Star : opts.pity[r] = PityFrom(p)[r] /\ opts.getRateUp[r] = RateUpFrom(p)[r]
      /\ \A r \in Star, c \in Class : opts.pityS[r][c] = StableFrom(p)[r][c]
      /\ opts.fatePoints = FateFrom(p) /\ opts.noviceCnt = NoviceFrom
  BY <1>1, <1>2 DEF Restoring
<1>4. opts.pity = PityFrom(p) /\ opts.getRateUp = RateUpFrom(p)
  BY <1>3 DEF PityFrom, RateUpFrom
<1>5. opts.pityS = StableFrom(p)
  <2>1. \A r \in Star : opts.pityS[r] = StableFrom(p)[r]
    BY <1>3 DEF StableFrom
  <2>2. QED BY <1>3, <2>1 DEF StableFrom
<1>6. /\ Line!Handover.g.pity = opts.pity /\ Line!Handover.g.getRateUp = opts.getRateUp
      /\ Line!Handover.g.pityS = opts.pityS /\ Line!Handover.g.fatePoints = opts.fatePoints
      /\ Line!Handover.order.noviceCnt = opts.noviceCnt
  BY DEF Line!Handover
<1>7. Line!Handover.order = [order EXCEPT !.noviceCnt = NoviceFrom]
  <2>1. order \in Order
    BY DEF TypeOKS
  <2>2. order = [pulls |-> order.pulls, noviceCnt |-> order.noviceCnt, forceSmooth |-> order.forceSmooth]
    BY <2>1 DEF Order
  <2>3. [order EXCEPT !.noviceCnt = NoviceFrom]
          = [pulls |-> order.pulls, noviceCnt |-> NoviceFrom, forceSmooth |-> order.forceSmooth]
    BY <2>2
  <2> DEFINE h == Line!Handover.order
  <2>4. h = [pulls |-> h.pulls, noviceCnt |-> h.noviceCnt, forceSmooth |-> h.forceSmooth]
    BY DEF Line!Handover
  <2> HIDE DEF h
  <2>5. h.pulls = order.pulls /\ h.noviceCnt = NoviceFrom /\ h.forceSmooth = order.forceSmooth
    BY <1>1, <1>3, <1>6 DEF h
  <2>6. QED BY <2>3, <2>4, <2>5 DEF h
<1>8. QED BY <1>1, <1>3, <1>4, <1>5, <1>6, <1>7 DEF StartsFrom

LEMMA ChainStart == InitP => ChainInv
<1> SUFFICES ASSUME InitP PROVE ChainInv
  OBVIOUS
<1>1. TypeOKS /\ report = <<>> /\ handed = <<>> /\ stage = "ready"
  BY SessionStart DEF InitP, InitS
<1>2. QED BY <1>1 DEF ChainInv, ResultsLast

\* The next run starts typed as any other.
LEMMA BeginType ==
  ASSUME ChainInv, Begin
  PROVE  /\ TypeOKS' /\ cfg' = cfg /\ i' = 0 /\ report' = <<>> /\ handed' = <<>>
         /\ pity' = PityFrom(Results) /\ pityS' = StableFrom(Results)
         /\ getRateUp' = RateUpFrom(Results) /\ fatePoints' = FateFrom(Results)
         /\ order' = [order EXCEPT !.noviceCnt = NoviceFrom]
         /\ pity'[5] <= 90 /\ fatePoints' <= 2
         /\ report = <<Results>> /\ i = order.pulls
<1>1. /\ TypeOKS /\ TypeOK /\ order \in Order /\ i \in Nat /\ i <= order.pulls
      /\ order.noviceCnt \in 0..8 /\ order.pulls \in Nat
  BY DEF ChainInv, TypeOKS, Order
<1>2. report = <<Results>> /\ i = order.pulls /\ StartsFrom(Results, handed[1])
  BY DEF ChainInv, ResultsLast, Begin
<1>3. /\ cfg' = cfg /\ i' = 0 /\ report' = <<>> /\ handed' = <<>>
      /\ pity' = PityFrom(Results) /\ pityS' = StableFrom(Results)
      /\ getRateUp' = RateUpFrom(Results) /\ fatePoints' = FateFrom(Results)
      /\ order' = [order EXCEPT !.noviceCnt = NoviceFrom]
      /\ pity'[5] <= 90 /\ fatePoints' <= 2
      /\ rare' = 3 /\ isRateUp' = 0 /\ item' = 11301
  BY <1>2 DEF Begin, StartsFrom
<1>4. PrintedType(Results)
  BY <1>1, ResultsType
<1>5. /\ pity' \in [Star -> Byte] /\ getRateUp' \in [Star -> {0, 1}] /\ fatePoints' \in Byte
  <2>1. PityFrom(Results) \in [Star -> Byte]
    <3>1. \A r \in Star : (IF Results.pity[r] # NotShown THEN Results.pity[r] ELSE 0) \in Byte
      BY <1>4 DEF PrintedType, Byte
    <3>2. QED BY <3>1 DEF PityFrom
  <2>2. RateUpFrom(Results) \in [Star -> {0, 1}]
    BY DEF RateUpFrom
  <2>3. FateFrom(Results) \in Byte
    BY <1>4 DEF PrintedType, FateFrom, Byte
  <2>4. QED BY <1>3, <2>1, <2>2, <2>3
<1>6. pityS' \in [Star -> [Class -> Byte]]
  <2>1. \A r \in Star, c \in Class :
           (IF Results.stable[r][c] # NotShown THEN Results.stable[r][c] ELSE 0) \in Byte
    BY <1>4 DEF PrintedType, Byte
  <2>2. QED BY <1>3, <2>1 DEF StableFrom
<1>7. NoviceFrom \in 0..8
  BY <1>1 DEF NoviceFrom
<1>8. order' \in Order /\ order'.pulls = order.pulls
  BY <1>1, <1>3, <1>7 DEF Order
<1>9. TypeOK'
  BY <1>1, <1>3, <1>5, <1>6 DEF TypeOK, Items
<1>10. TypeOKS'
  BY <1>1, <1>3, <1>8, <1>9 DEF TypeOKS
<1>11. QED BY <1>2, <1>3, <1>10

\* Typing an option, from the standing ones to the last of the results.
LEMMA TypeOptionStep ==
  ASSUME ChainInv, StandingResolves, TypeOption
  PROVE  ChainInv'
<1>1. /\ script # <<>> /\ stage = "options" /\ script' = Tail(script)
      /\ line' = Append(line, Head(script)) /\ handed' = handed
      /\ UNCHANGED <<varsS, runs>>
      /\ \/ Line!Accepts(Head(script)) /\ Line!Store(Head(script)) /\ stage' = stage
         \/ stage' = "refused"
  BY DEF TypeOption, Line!TakeOption, Line!RefuseOption, Line!ReadOption
<1>2. PICK p : p = report[1]
  OBVIOUS
<1>3. /\ TypeOKS /\ ResultsLast /\ handed = <<>> /\ report # <<>>
      /\ DOMAIN opts = DOMAIN Line!Defaults
      /\ StandingLeft(p) \/ CarriedLeft(p)
  BY <1>1, <1>2 DEF ChainInv
<1>4. p = Results /\ PrintedType(p)
  BY <1>2, <1>3, ResultsType DEF ResultsLast
<1>5. /\ UNCHANGED <<cfg, pity, pityS, getRateUp, fatePoints, rare, isRateUp, item, order, i, report>>
  BY <1>1 DEF varsS, varsL, vars, session
<1>6. Results' = Results
  BY <1>5 DEF Results
<1>7. TypeOKS' /\ ResultsLast'
  BY <1>3, <1>5, <1>6 DEF TypeOKS, TypeOK, ResultsLast
<1>8. CASE stage' = "refused"
  BY <1>1, <1>3, <1>7, <1>8 DEF ChainInv
<1>9. CASE Line!Accepts(Head(script)) /\ Line!Store(Head(script)) /\ stage' = stage
  <2>1. DOMAIN opts' = DOMAIN Line!Defaults
    BY <1>3, <1>9, SameVariables
  <2>2. SUFFICES StandingLeft(p)' \/ CarriedLeft(p)'
    BY <1>1, <1>2, <1>3, <1>5, <1>7, <2>1 DEF ChainInv, Line!Defaults
  <2>3. CASE CarriedLeft(p)
    <3>1. CarriedLeft(p)'
      BY <1>1, <1>3, <1>4, <1>5, <1>9, <2>3, CarriedStep
    <3>2. QED BY <3>1
  <2>4. CASE StandingLeft(p)
    <3> DEFINE A == Typeable(p)
    <3>1. PICK rest \in Seq(A) : /\ line \in Seq(A)
                                 /\ line \o rest = Standing(cfg, order)
                                 /\ script = rest \o Carried(p)
      BY <2>4 DEF StandingLeft
    <3>2. Printable(p) \subseteq A /\ Carried(p) \in Seq(Printable(p))
      BY CarriedIsPrinted DEF Typeable
    <3>3. Carried(p) \in Seq(A)
      <4>1. \A k \in 1..Len(Carried(p)) : Carried(p)[k] \in Printable(p)
        BY <3>2, ElementOfSeq
      <4>2. Carried(p) \in [1..Len(Carried(p)) -> A] /\ Len(Carried(p)) \in Nat
        BY <3>2, <4>1, LenProperties
      <4>3. QED BY <4>2
    <3>4. CASE rest = <<>>
      <4>1. line = Standing(cfg, order) /\ script = Carried(p)
        <5> HIDE DEF A
        <5>1. line \o <<>> = line /\ <<>> \o Carried(p) = Carried(p)
          BY <3>1, <3>3, ConcatEmptySeq
        <5>2. QED BY <3>1, <3>4, <5>1
      <4>2. CarriedLeft(p)
        BY <1>1, <1>3, <1>4, <4>1, CarriedBegins
      <4>3. QED BY <2>3, <4>2, <1>1, <1>3, <1>4, <1>5, <1>9, CarriedStep
    <3>5. CASE rest # <<>>
      <4> HIDE DEF A
      <4>1. /\ Tail(rest) \in Seq(A) /\ Append(line, Head(rest)) \in Seq(A)
            /\ Append(line, Head(rest)) \o Tail(rest) = line \o rest
        BY <3>1, <3>5, TypeOne
      <4>2. Head(script) = Head(rest) /\ Tail(script) = Tail(rest) \o Carried(p)
        BY <3>1, <3>3, <3>5, TypeFirst
      <4>3. A' = A /\ Carried(p)' = Carried(p) /\ Standing(cfg, order)' = Standing(cfg, order)
        <5>1. NoviceOption' = NoviceOption /\ cfg' = cfg /\ order' = order
          BY <1>5 DEF NoviceOption
        <5>2. Printable(p)' = Printable(p)
          BY <5>1 DEF Printable
        <5>3. Carried(p)' = Carried(p)
          BY <5>1 DEF Carried, PityOption, RateUpOption, StableOption, FateOption, When
        <5>4. QED BY <5>1, <5>2, <5>3 DEF A, Typeable
      <4>4. /\ line' \in Seq(A) /\ line' \o Tail(rest) = Standing(cfg, order)
            /\ script' = Tail(rest) \o Carried(p)
        BY <1>1, <3>1, <4>1, <4>2
      <4>5. StandingLeft(p)'
        BY <4>1, <4>3, <4>4 DEF StandingLeft, A
      <4>6. QED BY <4>5
    <3>6. QED BY <3>4, <3>5
  <2>5. QED BY <1>3, <2>3, <2>4
<1>10. QED BY <1>1, <1>8, <1>9

\* What holds once the standing options are read, at the latest with nothing
\* left to type.
LEMMA AllTyped ==
  ASSUME NEW p, p = report[1], ChainInv, StandingResolves, stage = "options", script = <<>>
  PROVE  CarriedLeft(p)
<1>1. /\ TypeOKS /\ ResultsLast /\ report # <<>>
      /\ StandingLeft(p) \/ CarriedLeft(p)
  BY DEF ChainInv
<1>2. PrintedType(p)
  BY <1>1, ResultsType DEF ResultsLast
<1>3. CASE StandingLeft(p)
  <2> DEFINE A == Typeable(p)
  <2>1. PICK rest \in Seq(A) : /\ line \in Seq(A)
                               /\ line \o rest = Standing(cfg, order)
                               /\ script = rest \o Carried(p)
    BY <1>3 DEF StandingLeft
  <2>2. Carried(p) \in Seq(Printable(p))
    BY CarriedIsPrinted
  <2> HIDE DEF A
  <2>3. Len(rest) \in Nat /\ Len(Carried(p)) \in Nat /\ Len(rest) + Len(Carried(p)) = 0
    <3>1. Len(rest) \in Nat /\ Len(Carried(p)) \in Nat
      BY <2>1, <2>2, LenProperties
    <3>2. Len(rest \o Carried(p)) = Len(rest) + Len(Carried(p))
      BY <2>1, <2>2
    <3>3. Len(script) = 0
      OBVIOUS
    <3>4. QED BY <2>1, <3>1, <3>2, <3>3
  <2>4. rest = <<>> /\ Carried(p) = <<>>
    BY <2>1, <2>2, <2>3, EmptySeq
  <2>5. line \o rest = line
    BY <2>1, <2>4, ConcatEmptySeq
  <2>6. line = Standing(cfg, order) /\ script = Carried(p)
    BY <2>1, <2>4, <2>5
  <2>7. QED BY <1>1, <1>2, <2>6, CarriedBegins
<1>4. QED BY <1>1, <1>3

LEMMA ChainStep ==
  ASSUME ChainInv, StandingResolves, [NextP]_varsP
  PROVE  ChainInv'
<1>1. TypeOKS /\ ResultsLast
  BY DEF ChainInv
<1>2. CASE WishOrReport
  <2>1. NextS /\ UNCHANGED <<stage, handed>> /\ stage = "ready" /\ handed = <<>>
    BY <1>2 DEF WishOrReport, terminal
  <2>2. TypeOKS' /\ ResultsLast'
    BY <1>1, <2>1, SessionStep, ResultsStep
  <2>3. QED BY <2>1, <2>2 DEF ChainInv
<1>3. CASE RunAgain
  <2>1. /\ report # <<>> /\ script' = Standing(cfg, order) \o Carried(report[1])
        /\ line' = <<>> /\ opts' = Line!Defaults /\ stage' = "options" /\ handed' = <<>>
        /\ UNCHANGED <<cfg, pity, pityS, getRateUp, fatePoints, rare, isRateUp, item, order, i, report>>
    BY <1>3 DEF RunAgain, varsS, varsL, vars, session
  <2>2. TypeOKS' /\ ResultsLast'
    <3>1. Results' = Results
      BY <2>1 DEF Results
    <3>2. QED BY <1>1, <2>1, <3>1 DEF TypeOKS, TypeOK, ResultsLast
  <2>3. PICK p : p = report[1]
    OBVIOUS
  <2> DEFINE A == Typeable(p)
             given == Standing(cfg, order)
  <2>4. given \in Seq(A) /\ <<>> \in Seq(A) /\ <<>> \o given = given
    <3>1. {given[k] : k \in DOMAIN given} \subseteq A
      BY DEF Typeable
    <3>2. given \in Seq({given[k] : k \in DOMAIN given})
      BY DEF StandingResolves
    <3> HIDE DEF A, given
    <3>3. Len(given) \in Nat /\ given \in [1..Len(given) -> A]
      BY <3>1, <3>2, LenProperties, ElementOfSeq
    <3>4. given \in Seq(A)
      BY <3>3
    <3>5. QED BY <3>4, ConcatEmptySeq, EmptySeq
  <2>5. A' = A /\ Carried(p)' = Carried(p) /\ given' = given
    <3>1. NoviceOption' = NoviceOption /\ cfg' = cfg /\ order' = order
      BY <2>1 DEF NoviceOption
    <3>2. Printable(p)' = Printable(p)
      BY <3>1 DEF Printable
    <3>3. Carried(p)' = Carried(p)
      BY <3>1 DEF Carried, PityOption, RateUpOption, StableOption, FateOption, When
    <3>4. QED BY <3>1, <3>2, <3>3 DEF Typeable
  <2>6. StandingLeft(p)'
    <3>1. line' \in Seq(A) /\ line' \o given = given /\ script' = given \o Carried(p)
      BY <2>1, <2>3, <2>4
    <3> HIDE DEF A, given
    <3>2. StandingLeft(p)' <=> \E rest \in Seq(A) : /\ line' \in Seq(A) /\ line' \o rest = given
                                                    /\ script' = rest \o Carried(p)
      BY <2>5 DEF StandingLeft, A, given
    <3>3. QED BY <2>4, <3>1, <3>2
  <2>7. QED BY <2>1, <2>2, <2>3, <2>6 DEF ChainInv, Line!Defaults
<1>4. CASE TypeOption
  BY <1>4, TypeOptionStep
<1>5. CASE PressEnter
  <2>1. /\ script = <<>> /\ stage = "options" /\ UNCHANGED varsS
        /\ \/ stage' = "refused" /\ handed' = handed
           \/ stage' = "ready" /\ handed' = <<Line!Handover>>
    BY <1>5 DEF PressEnter, Line!RefuseLine, Line!StartWishes, Line!EndOfLine
  <2>2. UNCHANGED <<cfg, pity, pityS, getRateUp, fatePoints, rare, isRateUp, item, order, i, report>>
    BY <2>1 DEF varsS, varsL, vars, session
  <2>3. TypeOKS' /\ ResultsLast'
    <3>1. Results' = Results
      BY <2>2 DEF Results
    <3>2. QED BY <1>1, <2>2, <3>1 DEF TypeOKS, TypeOK, ResultsLast
  <2>4. handed = <<>> /\ report # <<>>
    BY <2>1 DEF ChainInv
  <2>5. CASE stage' = "refused" /\ handed' = handed
    BY <2>3, <2>4, <2>5 DEF ChainInv
  <2>6. CASE stage' = "ready" /\ handed' = <<Line!Handover>>
    <3>1. PICK p : p = report[1]
      OBVIOUS
    <3>2. StartsFrom(p, Line!Handover)
      BY <1>1, <2>1, <3>1, AllTyped, CarriedEnds
    <3>3. PICK h : h = Line!Handover
      OBVIOUS
    <3>4. StartsFrom(p, h)'
      BY <2>2, <3>2, <3>3 DEF StartsFrom, NoviceFrom
    <3>5. handed'[1] = h /\ report'[1] = p
      BY <2>2, <2>6, <3>1, <3>3
    <3>6. StartsFrom(report[1], handed[1])'
      BY <3>4, <3>5 DEF StartsFrom, NoviceFrom
    <3>7. QED BY <2>2, <2>3, <2>4, <2>6, <3>6 DEF ChainInv
  <2>7. QED BY <2>1, <2>5, <2>6
<1>6. CASE Begin
  <2>1. TypeOKS' /\ report' = <<>> /\ handed' = <<>>
    BY <1>6, BeginType
  <2>2. stage' = "ready"
    BY <1>6 DEF Begin, ChainInv
  <2>3. QED BY <2>1, <2>2 DEF ChainInv, ResultsLast
<1>7. CASE UNCHANGED varsP
  <2>1. /\ UNCHANGED <<cfg, pity, pityS, getRateUp, fatePoints, rare, isRateUp, item, order, i, report>>
        /\ UNCHANGED <<line, opts, stage, handed, script>>
    BY <1>7 DEF varsP, varsS, varsL, vars, session, terminal
  <2>2. TypeOKS' /\ ResultsLast'
    <3>1. Results' = Results
      BY <2>1 DEF Results
    <3>2. QED BY <1>1, <2>1, <3>1 DEF TypeOKS, TypeOK, ResultsLast
  <2>3. CASE stage # "options"
    <3>1. StartsFrom(report[1], handed[1])' <=> StartsFrom(report[1], handed[1])
      BY <2>1 DEF StartsFrom, NoviceFrom
    <3>2. QED BY <2>1, <2>2, <2>3, <3>1 DEF ChainInv
  <2>4. CASE stage = "options"
    <3>1. PICK p : p = report[1]
      OBVIOUS
    <3>2. NoviceOption' = NoviceOption /\ NoviceFrom' = NoviceFrom /\ Printable(p)' = Printable(p)
      BY <2>1 DEF NoviceOption, NoviceFrom, Printable
    <3>3. Carried(p)' = Carried(p)
      BY <2>1, <3>2 DEF Carried, PityOption, RateUpOption, StableOption, FateOption, When
    <3>4. Typeable(p)' = Typeable(p)
      BY <2>1, <3>2 DEF Typeable
    <3>5. StandingLeft(p)' <=> StandingLeft(p)
      BY <2>1, <3>3, <3>4 DEF StandingLeft
    <3>6. SameEngine
      BY <2>1 DEF SameEngine
    <3>7. Restoring(p)' <=> Restoring(p)
      BY <2>1, <3>2 DEF Restoring
    <3>8. \A q : Printed(p, q)' <=> Printed(p, q)
      BY <2>1, <3>2 DEF Printed
    <3>9. CarriedLeft(p)' <=> CarriedLeft(p)
      BY <2>1, <3>2, <3>6, <3>7, <3>8, EngineFrame DEF CarriedLeft
    <3>10. QED BY <2>1, <2>2, <2>4, <3>1, <3>5, <3>9 DEF ChainInv, Line!Defaults
  <2>5. QED BY <2>3, <2>4
<1>8. QED BY <1>2, <1>3, <1>4, <1>5, <1>6, <1>7 DEF NextP

LEMMA ChainInvariant == SpecP /\ []StandingResolves => []ChainInv
<1>1. ChainInv /\ StandingResolves /\ [NextP]_varsP => ChainInv'
  BY ChainStep
<1>2. QED BY <1>1, ChainStart, PTL DEF SpecP

-----------------------------------------------------------------------------
(* What the chain keeps of a session. *)

\* The engine is one main may hand over, and the same in every run.
SameGiven == \E g \in Given : cfg = g.cfg

LEMMA EngineStays ==
  ASSUME ChainInv, StandingResolves, [NextP]_varsP
  PROVE  cfg' = cfg
<1>1. CASE WishOrReport
  <2>1. TypeOK /\ NextS
    BY <1>1 DEF WishOrReport, ChainInv, TypeOKS
  <2>2. CASE EngineWish
    BY <2>1, <2>2, ForcedType, PullOutcome DEF EngineWish, Outcome
  <2>3. CASE NoelleWish \/ Report
    BY <2>3 DEF NoelleWish, Report, varsL, vars
  <2>4. QED BY <2>1, <2>2, <2>3 DEF NextS
<1>2. CASE RunAgain \/ TypeOption \/ PressEnter \/ UNCHANGED varsP
  BY <1>2 DEF RunAgain, TypeOption, PressEnter, varsP, varsS, varsL, vars
<1>3. CASE Begin
  BY <1>3, BeginType
<1>4. QED BY <1>1, <1>2, <1>3 DEF NextP

\* A step is one of the session, or starts the next run, or changes nothing of
\* the session.
LEMMA ChainCases ==
  ASSUME [NextP]_varsP
  PROVE  NextS \/ Begin \/ UNCHANGED varsS
BY DEF NextP, WishOrReport, RunAgain, TypeOption, PressEnter, varsP

\* What the results print, the next run starts from.
Restored ==
  /\ \A r \in Star : /\ cfg.doPity[r] = 1 => pity'[r] = pity[r]
                     /\ pity'[r] \in {0, pity[r]}
                     /\ GuaranteeShown(r) => getRateUp'[r] = getRateUp[r]
  /\ cfg.doEpitomized = 2 => fatePoints' = fatePoints

LEMMA BeginRestores == ASSUME ChainInv, Begin PROVE Restored
<1>1. /\ pity \in [Star -> Byte] /\ getRateUp \in [Star -> {0, 1}] /\ fatePoints \in Byte
      /\ \A x \in Byte : x # NotShown
  BY DEF ChainInv, TypeOKS, TypeOK, Byte, NotShown
<1>2. /\ pity' = PityFrom(Results) /\ getRateUp' = RateUpFrom(Results)
      /\ fatePoints' = FateFrom(Results)
  BY BeginType
<1>3. ASSUME NEW r \in Star
      PROVE  (cfg.doPity[r] = 1 => pity'[r] = pity[r]) /\ pity'[r] \in {0, pity[r]}
  <2>1. Results.pity[r] = IF cfg.doPity[r] = 1 THEN pity[r] ELSE NotShown
    BY DEF Results
  <2>2. pity'[r] = IF Results.pity[r] # NotShown THEN Results.pity[r] ELSE 0
    BY <1>2 DEF PityFrom
  <2>3. QED BY <1>1, <2>1, <2>2
<1>4. ASSUME NEW r \in Star, GuaranteeShown(r) PROVE getRateUp'[r] = getRateUp[r]
  <2>1. Results.guaranteed[r] = getRateUp[r]
    BY <1>4 DEF Results, GuaranteeShown, EventBanner
  <2>2. QED BY <1>1, <1>2, <2>1 DEF RateUpFrom
<1>5. ASSUME cfg.doEpitomized = 2 PROVE fatePoints' = fatePoints
  <2>1. Results.fatePoints = fatePoints
    BY <1>5 DEF Results
  <2>2. QED BY <1>1, <1>2, <2>1 DEF FateFrom
<1>6. QED BY <1>3, <1>4, <1>5 DEF Restored

\* Every variable keeps its type over any number of runs: what is printed and
\* typed again is what the next run can start from (yagiws.c 244-499, 955-981).
THEOREM ChainTypes == SpecP /\ []StandingResolves => []TypeOKS
<1>1. ChainInv => TypeOKS
  BY DEF ChainInv
<1>2. QED BY <1>1, ChainInvariant, PTL

\* A run starts where the one before ended (yagiws.c 955-981 prints it, 244-499
\* read it back): any banner, any options, any number of runs.
THEOREM CarriesOverCorrect == SpecP /\ []StandingResolves => CarriesOver
<1>1. InitP => SameGiven
  BY DEF InitP, InitS, InitL, Init, SameGiven
<1>2. ChainInv /\ StandingResolves /\ SameGiven /\ [NextP]_varsP => SameGiven'
  BY EngineStays DEF SameGiven
<1>3. SpecP /\ []StandingResolves => [](ChainInv /\ SameGiven)
  BY <1>1, <1>2, ChainInvariant, PTL DEF SpecP
<1> DEFINE Continues ==
      (handed # <<>> /\ handed' = <<>>) =>
         /\ cfg' = cfg
         /\ \A r \in Star :
              /\ cfg.doPity[r] = 1 => pity'[r] = pity[r]
              /\ StableShown(r) => pityS'[r] = pityS[r]
              /\ (cfg.do5050 = 1 /\ cfg.banner \in {"CHAR1", "CHAR2", "WPN"}) => getRateUp'[r] = getRateUp[r]
         /\ (cfg.do5050 = 1 /\ cfg.banner = "CHRONICLED" /\ Charted) => getRateUp'[5] = getRateUp[5]
         /\ (Charted /\ cfg.doEpitomized = 2) => fatePoints' = fatePoints
         /\ order' = [order EXCEPT !.noviceCnt =
              IF cfg.banner # "NOVICE" THEN @ ELSE IF @ + i > 8 THEN 8 ELSE @ + i]
<1>4. ChainInv /\ SameGiven /\ [NextP]_varsP => Continues
  <2> SUFFICES ASSUME ChainInv, SameGiven, [NextP]_varsP, handed # <<>>, handed' = <<>>
               PROVE  Continues
    OBVIOUS
  <2>1. Begin
    BY DEF NextP, WishOrReport, RunAgain, TypeOption, PressEnter, varsP, terminal, ChainInv,
       Line!TakeOption, Line!RefuseOption, Line!ReadOption, Line!RefuseLine, Line!StartWishes, Line!EndOfLine
  <2>2. /\ pity \in [Star -> Byte] /\ getRateUp \in [Star -> {0, 1}]
        /\ pityS \in [Star -> [Class -> Byte]] /\ fatePoints \in Byte
        /\ cfg.doSmooth \in [Star -> {-1, 0, 1}] /\ cfg.doEpitomized \in 0..2
    BY DEF ChainInv, TypeOKS, TypeOK, Config
  <2>3. /\ cfg' = cfg
        /\ pity' = PityFrom(Results) /\ pityS' = StableFrom(Results)
        /\ getRateUp' = RateUpFrom(Results) /\ fatePoints' = FateFrom(Results)
        /\ order' = [order EXCEPT !.noviceCnt = NoviceFrom]
    BY <2>1, BeginType
  <2>4. Restored
    BY <2>1, BeginRestores
  <2>5. ASSUME NEW r \in Star, StableShown(r) PROVE pityS'[r] = pityS[r]
    <3>1. \A c \in Class : Results.stable[r][c] = pityS[r][c] /\ pityS[r][c] # NotShown
      <4>1. pityS[r] \in [Class -> Byte]
        BY <2>2
      <4>2. \A c \in Class : Results.stable[r][c] = pityS[r][c]
        BY <2>5 DEF Results, StableShown
      <4>3. \A x \in Byte : x # NotShown
        BY DEF Byte, NotShown
      <4>4. QED BY <4>1, <4>2, <4>3
    <3>2. pityS'[r] = [c \in Class |-> IF Results.stable[r][c] # NotShown THEN Results.stable[r][c] ELSE 0]
      BY <2>3 DEF StableFrom
    <3>3. QED BY <2>2, <3>1, <3>2
  <2>6. ASSUME NEW r \in Star, cfg.do5050 = 1, cfg.banner \in {"CHAR1", "CHAR2", "WPN"}
        PROVE  getRateUp'[r] = getRateUp[r]
    BY <2>4, <2>6 DEF Restored, GuaranteeShown, EventBanner
  <2>7. ASSUME cfg.do5050 = 1, cfg.banner = "CHRONICLED", Charted PROVE getRateUp'[5] = getRateUp[5]
    <3>1. cfg.epitomizedPath # NoItem /\ cfg.doEpitomized = 1
      BY <2>2, <2>7, GivenAssumption DEF SameGiven, Legal, Charted
    <3>2. QED BY <2>4, <2>7, <3>1 DEF Restored, GuaranteeShown, EventBanner, Star
  <2>8. order' = [order EXCEPT !.noviceCnt =
                     IF cfg.banner # "NOVICE" THEN @ ELSE IF @ + i > 8 THEN 8 ELSE @ + i]
    BY <2>3 DEF NoviceFrom, ChainInv, TypeOKS, Order
  <2>9. QED BY <2>3, <2>4, <2>5, <2>6, <2>7, <2>8 DEF Restored
<1>5. QED BY <1>3, <1>4, PTL DEF SpecP, CarriesOver

\* Noelle is the 8th wish counted over all runs, and no other (yagiws.c 335,
\* 882-891): -c brings the count back.
THEOREM ChainNoelle == SpecP /\ []StandingResolves => []NoelleIsEighth
<1>1. InitP => BeginnersPool /\ NoelleIsEighth
  BY NoelleStart DEF InitP
<1>2. ChainInv /\ BeginnersPool /\ NoelleIsEighth /\ [NextP]_varsP => BeginnersPool' /\ NoelleIsEighth'
  <2> SUFFICES ASSUME ChainInv, BeginnersPool, NoelleIsEighth, [NextP]_varsP
               PROVE  BeginnersPool' /\ NoelleIsEighth'
    OBVIOUS
  <2>1. CASE NextS \/ UNCHANGED varsS
    BY <2>1, NoelleStep DEF ChainInv
  <2>2. CASE Begin
    BY <2>2, BeginType DEF BeginnersPool, NoelleIsEighth
  <2>3. QED BY <2>1, <2>2, ChainCases
<1>3. QED BY <1>1, <1>2, ChainInvariant, PTL DEF SpecP

\* -C and -W decide the class in every run (yagiws.c 893-904).
THEOREM ChainForced == SpecP /\ []StandingResolves => []ForcedClass
<1>1. InitP => ForcedClass
  BY DEF InitP, InitS, ForcedClass
<1>2. ChainInv /\ ForcedClass /\ [NextP]_varsP => ForcedClass'
  <2> SUFFICES ASSUME ChainInv, ForcedClass, [NextP]_varsP PROVE ForcedClass'
    OBVIOUS
  <2>1. CASE NextS \/ UNCHANGED varsS
    BY <2>1, ForcedStep DEF ChainInv
  <2>2. CASE Begin
    BY <2>2, BeginType DEF ForcedClass
  <2>3. QED BY <2>1, <2>2, ChainCases
<1>3. QED BY <1>1, <1>2, ChainInvariant, PTL DEF SpecP

\* What every run prints is what the player counted over all of them: the pity,
\* the guarantees, the fate points (yagiws.c 955-972).
THEOREM ChainReports == SpecP /\ []StandingResolves => []ReportIsHonest
<1>1. InitP => HonestInv
  BY HonestStart DEF InitP
<1>2. ChainInv /\ HonestInv /\ [NextP]_varsP => HonestInv'
  <2> SUFFICES ASSUME ChainInv, HonestInv, [NextP]_varsP PROVE HonestInv'
    OBVIOUS
  <2>1. CASE NextS \/ UNCHANGED varsS
    BY <2>1, HonestStep DEF ChainInv
  <2>2. CASE Begin
    <3>1. /\ HistoryType /\ PointsCounted /\ DroughtCounted /\ GuaranteeCounted /\ NothingMissed
      BY DEF HonestInv
    <3>2. cfg' = cfg /\ i' = 0 /\ report' = <<>> /\ pity'[5] <= 90
      BY <2>2, BeginType
    <3>3. UNCHANGED <<terms, dry, owed, missed>>
      BY <2>2 DEF Begin, ledger
    <3>4. Restored
      BY <2>2, BeginRestores
    <3>5. HistoryType' /\ NothingMissed'
      BY <3>1, <3>2, <3>3 DEF HistoryType, NothingMissed
    <3>6. DroughtCounted'
      BY <3>1, <3>2, <3>3, <3>4 DEF Restored, DroughtCounted, Star
    <3>7. GuaranteeCounted' /\ PointsCounted'
      BY <3>1, <3>2, <3>3, <3>4 DEF Restored, GuaranteeCounted, GuaranteeShown, PointsCounted, CourseCounted, Charted
    <3>8. QED BY <3>2, <3>5, <3>6, <3>7 DEF HonestInv, ResultsLast
  <2>3. QED BY <2>1, <2>2, ChainCases
<1>3. ChainInv /\ HonestInv => ReportIsHonest
  BY HonestPrint DEF ChainInv, TypeOKS
<1>4. QED BY <1>1, <1>2, <1>3, ChainInvariant, PTL DEF SpecP

-----------------------------------------------------------------------------
(* The promises, over the chain. *)

\* A course of one point is the only thing the results say nothing of (yagiws.c
\* 971: they print the points of longer ones).  On the Chronicled Wish the
\* guarantee remembers it instead: it is printed unless -g takes it away, and
\* with -r nothing need be remembered.  A miss given to the first run comes with
\* the guarantee it left.
CoursesPrinted ==
  \A g \in Given :
     (g.cfg.epitomizedPath # NoItem /\ g.cfg.doEpitomized = 1) =>
        /\ g.cfg.banner = "CHRONICLED"
        /\ \/ g.cfg.do5050 = -1
           \/ g.cfg.do5050 = 1 /\ (g.fatePoints = 0 \/ g.getRateUp[5] = 1)

\* A star that is featured whatever was lost before.
AlwaysFeatured(r) ==
  cfg.do5050 = -1 \/ (cfg.banner = "CHRONICLED" /\ (r = 4 \/ ~Charted))

LossKept ==
  \A r \in Star : owed[r] = 1 => terms.rateUp /\ (AlwaysFeatured(r) \/ getRateUp[r] = 1)

MissKept ==
  (Charted /\ cfg.doEpitomized = 1) =>
     /\ cfg.banner = "CHRONICLED" /\ cfg.do5050 # 0
     /\ missed >= 1 => cfg.do5050 = -1 \/ getRateUp[5] = 1

\* LedgerInv weakened to what the results hand over: not the fate points of a
\* course of one point, nor a guarantee that decides nothing.
ChainLedger ==
  /\ HistoryType
  /\ FiveStarCounted /\ FourStarCounted
  /\ LossKept /\ PointsCounted /\ MissKept
  /\ PityBehindWishes

\* On a course of the Chronicled Wish a 5-star beside it is a lost one.
LEMMA CourseMissIsLoss ==
  ASSUME TypeOK, NEW ps \in Stable, DoAPull(ps), cfg.banner = "CHRONICLED", Charted,
         rare' = 5, item' # cfg.epitomizedPath
  PROVE  isRateUp' = 0
<1>1. FiveStar(ps)
  <2>1. CASE FourStar(ps)
    <3>1. rare' = 4
      BY <2>1 DEF FourStar, FourStarCharacterEvent, FourStarWeaponEvent, FourStarChronicle,
         FourStarNovice, FourStarStandard, FourStarDrop
    <3>2. QED BY <3>1
  <2>2. CASE ThreeStarDrop(ps)
    BY <2>2 DEF ThreeStarDrop
  <2>3. QED BY <2>1, <2>2 DEF DoAPull
<1>2. FiveStarChroniclePath(ps)
  BY <1>1 DEF FiveStar, FiveStarCharacterEvent, FiveStarWeaponEvent, FiveStarChronicle,
     FiveStarOnlyCharacters, FiveStarOnlyWeapons, FiveStarStandard
<1>3. QED BY <1>2 DEF FiveStarChroniclePath, FiveStarDrop

LEMMA AlwaysFeaturedDrop ==
  ASSUME TypeOK, NEW ps \in Stable, DoAPull(ps), cfg.banner \in EventBanner,
         rare' \in Star, AlwaysFeatured(rare')
  PROVE  isRateUp' > 0
<1>1. LossOwes /\ isRateUp' \in 0..2
  BY PullOutcome DEF Outcome
<1>2. CASE cfg.do5050 = -1
  <2>1. RateUpAtRoll[rare'] = 1
    BY <1>2 DEF RateUpAtRoll
  <2>2. QED BY <1>1, <2>1 DEF LossOwes
<1>3. CASE cfg.banner = "CHRONICLED" /\ (rare' = 4 \/ ~Charted)
  <2>1. CASE FiveStar(ps)
    <3>1. FiveStarChroniclePath(ps) \/ FiveStarChronicle(ps)
      BY <1>3, <2>1 DEF FiveStar, FiveStarCharacterEvent, FiveStarWeaponEvent,
         FiveStarOnlyCharacters, FiveStarOnlyWeapons, FiveStarStandard
    <3>2. rare' = 5
      BY <3>1 DEF FiveStarChroniclePath, FiveStarChronicle, FiveStarDrop
    <3>3. FiveStarChronicle(ps)
      BY <1>3, <3>1, <3>2 DEF FiveStarChroniclePath
    <3>4. QED BY <3>3 DEF FiveStarChronicle, FiveStarDrop
  <2>2. CASE FourStar(ps)
    <3>1. FourStarChronicle(ps)
      BY <1>3, <2>2 DEF FourStar, FourStarCharacterEvent, FourStarWeaponEvent, FourStarNovice,
         FourStarStandard
    <3>2. QED BY <3>1 DEF FourStarChronicle, FourStarDrop
  <2>3. CASE ThreeStarDrop(ps)
    BY <2>3 DEF ThreeStarDrop, Star
  <2>4. QED BY <2>1, <2>2, <2>3 DEF DoAPull
<1>4. QED BY <1>2, <1>3 DEF AlwaysFeatured

\* What the options of the engine say of a course, which never changes.
LEMMA CourseOptions ==
  ASSUME SameGiven
  PROVE  cfg.doEpitomized = 2 => cfg.banner = "WPN"
BY GivenAssumption DEF SameGiven, Legal

\* A wish of the engine is one the banner may give.
LEMMA ChainWishKept ==
  ASSUME TypeOK, CourseOffered, ChainLedger, NEW ps \in Stable, DoAPull(ps)
  PROVE  Promise!Kept(WishMade)
<1>1. /\ HistoryType /\ FiveStarCounted /\ FourStarCounted /\ LossKept /\ PointsCounted /\ MissKept
      /\ cfg.doEpitomized \in 0..2 /\ missed \in Nat
  BY DEF ChainLedger, HistoryType, TypeOK, Config
<1>2. Outcome /\ LossOwes
  BY PullOutcome
<1>3. /\ (terms.hard5 > 0 /\ rare' # 5) => dry[5] + 1 < terms.hard5
      /\ (terms.hard4 > 0 /\ rare' = 3) => dry[4] < terms.hard4
  BY <1>1, DroughtKept
<1>4. ASSUME terms.rateUp, rare' \in {4, 5}, owed[rare'] = 1 PROVE isRateUp' > 0
  <2>1. rare' \in Star /\ isRateUp' \in 0..2
    BY <1>2, <1>4 DEF Star, Outcome
  <2>2. cfg.banner \in EventBanner
    BY <1>1, <1>4, TermsMeaning
  <2>3. CASE AlwaysFeatured(rare')
    BY <2>1, <2>2, <2>3, AlwaysFeaturedDrop
  <2>4. CASE getRateUp[rare'] = 1
    <3>1. RateUpAtRoll[rare'] = 1
      BY <1>1, <1>4, <2>1, <2>4, TermsMeaning
    <3>2. QED BY <1>2, <2>1, <2>2, <3>1 DEF LossOwes
  <2>5. QED BY <1>1, <1>4, <2>1, <2>3, <2>4 DEF LossKept
<1>5. ASSUME terms.fate > 0, rare' = 5, missed >= terms.fate PROVE item' = cfg.epitomizedPath
  <2>1. Charted /\ terms.fate = cfg.doEpitomized
    BY <1>1, <1>5, TermsMeaning
  <2>2. CASE cfg.doEpitomized = 2
    BY <1>1, <1>5, <2>2, CoursePaid DEF PointsCounted
  <2>3. CASE cfg.doEpitomized = 1
    <3>1. /\ cfg.banner = "CHRONICLED" /\ cfg.do5050 # 0
          /\ cfg.do5050 = -1 \/ getRateUp[5] = 1
      BY <1>1, <1>5, <2>1, <2>3 DEF MissKept
    <3>2. RateUpAtRoll[5] = 1
      BY <3>1 DEF RateUpAtRoll, Star
    <3>3. isRateUp' # 0
      BY <1>2, <1>5, <3>1, <3>2 DEF LossOwes, EventBanner, Star
    <3>4. QED BY <1>5, <2>1, <3>1, <3>3, CourseMissIsLoss
  <2>4. QED BY <1>1, <1>5, <2>1, <2>2, <2>3
<1>6. FlagAfter
  BY FlagOfDrop
<1>7. QED BY <1>3, <1>4, <1>5, <1>6, KeptWhen

\* It leaves the ledger as the results can hand it over.
LEMMA ChainWishStep ==
  ASSUME TypeOK, ChainLedger, NEW ps \in Stable, DoAPull(ps), Record
  PROVE  HistoryType' /\ FiveStarCounted' /\ FourStarCounted' /\ LossKept' /\ PointsCounted' /\ MissKept'
<1>1. /\ HistoryType /\ FiveStarCounted /\ FourStarCounted /\ LossKept /\ PointsCounted /\ MissKept
      /\ missed \in Nat
  BY DEF ChainLedger, HistoryType
<1>2. Outcome /\ LossOwes
  BY PullOutcome
<1>3. cfg' = cfg /\ rare' \in 3..5 /\ isRateUp' \in 0..2 /\ terms' = terms /\ Written
  BY <1>1, <1>2, RecordWrites DEF Outcome, Written
<1>4. HistoryType'
  BY <1>1, <1>3, RecordWrites
<1>5. FiveStarCounted' /\ FourStarCounted'
  BY <1>1, DroughtStep
<1>6. LossKept'
  <2>1. SUFFICES ASSUME NEW r \in Star, owed'[r] = 1
                 PROVE  terms.rateUp /\ (AlwaysFeatured(r) \/ getRateUp'[r] = 1)
    BY <1>3 DEF LossKept, AlwaysFeatured, Charted
  <2>2. owed'[r] = IF terms.rateUp /\ r = rare' THEN IF isRateUp' > 0 THEN 0 ELSE 1 ELSE owed[r]
    BY <1>3 DEF Written, Star
  <2>3. terms.rateUp => cfg.banner \in EventBanner
    BY <1>1, TermsMeaning
  <2>4. CASE terms.rateUp /\ r = rare'
    <3>1. isRateUp' = 0
      BY <1>3, <2>1, <2>2, <2>4
    <3>2. QED BY <1>2, <2>3, <2>4, <3>1 DEF LossOwes
  <2>5. CASE terms.rateUp /\ r # rare'
    <3>1. AlwaysFeatured(r) \/ getRateUp[r] = 1
      BY <1>1, <2>1, <2>2, <2>5 DEF LossKept
    <3>2. CASE getRateUp[r] = 1
      <4>1. RateUpAtRoll[r] = 1
        BY <1>1, <2>5, <3>2, TermsMeaning
      <4>2. QED BY <1>2, <2>5, <4>1 DEF Outcome, Star
    <3>3. QED BY <2>5, <3>1, <3>2
  <2>6. CASE ~terms.rateUp
    BY <1>1, <2>1, <2>2, <2>6 DEF LossKept
  <2>7. QED BY <2>4, <2>5, <2>6
<1>7. PointsCounted'
  BY <1>1, <1>3, CourseStep DEF PointsCounted
<1>8. MissKept'
  <2>1. SUFFICES ASSUME Charted, cfg.doEpitomized = 1
                 PROVE  /\ cfg.banner = "CHRONICLED" /\ cfg.do5050 # 0
                        /\ missed' >= 1 => cfg.do5050 = -1 \/ getRateUp'[5] = 1
    BY <1>3 DEF MissKept, Charted
  <2>2. /\ cfg.banner = "CHRONICLED" /\ cfg.do5050 # 0
        /\ missed >= 1 => cfg.do5050 = -1 \/ getRateUp[5] = 1
    BY <1>1, <2>1 DEF MissKept
  <2>3. terms.fate = 1
    BY <1>1, <2>1, TermsMeaning
  <2>4. CASE rare' # 5
    <3>1. missed' = missed /\ getRateUp'[5] = RateUpAtRoll[5]
      BY <1>2, <1>3, <2>4 DEF Written, Outcome
    <3>2. getRateUp[5] = 1 => RateUpAtRoll[5] = 1
      BY <2>2 DEF RateUpAtRoll, Star
    <3>3. QED BY <2>2, <3>1, <3>2
  <2>5. CASE rare' = 5 /\ item' = cfg.epitomizedPath
    <3>1. missed' = 0
      BY <1>3, <2>3, <2>5 DEF Written
    <3>2. QED BY <2>2, <3>1
  <2>6. CASE rare' = 5 /\ item' # cfg.epitomizedPath
    <3>1. isRateUp' = 0
      BY <2>1, <2>2, <2>6, CourseMissIsLoss
    <3>2. QED BY <1>2, <2>2, <2>6, <3>1 DEF LossOwes, EventBanner, Star
  <2>7. QED BY <2>4, <2>5, <2>6
<1>9. QED BY <1>4, <1>5, <1>6, <1>7, <1>8

\* So does the wish that gives Noelle, where no guarantee and no course is.
LEMMA ChainNoelleKeeps ==
  ASSUME TypeOKS, ChainLedger, NoelleWish
  PROVE  ChainLedger' /\ Promise!Kept(WishMade)
<1>1. TypeOK /\ cfg.banner = "NOVICE" /\ cfg.doEpitomized \in 0..2
  BY DEF TypeOKS, TypeOK, Config, NoelleWish, NoellesTurn
<1>2. /\ HistoryType /\ FiveStarCounted /\ FourStarCounted /\ LossKept /\ PointsCounted /\ MissKept
      /\ PityBehindWishes
  BY DEF ChainLedger
<1>3. ~Charted
  <2>1. CASE cfg.doEpitomized = 2
    BY <1>1, <1>2, <2>1 DEF PointsCounted, CourseCounted
  <2>2. CASE cfg.doEpitomized = 1
    BY <1>1, <1>2, <2>2 DEF MissKept
  <2>3. QED BY <1>1, <2>1, <2>2 DEF Charted
<1>4. ~terms.rateUp
  BY <1>1, <1>2, TermsMeaning DEF EventBanner
<1>5. LedgerInv
  BY <1>2, <1>3, <1>4 DEF LedgerInv, LossKept, LossRemembered, CourseCounted
<1>6. LedgerInv' /\ Promise!Kept(WishMade)
  BY <1>2, <1>5, NoelleKeeps
<1>7. PityBehindWishes'
  BY <1>2, PityGrows DEF NextS
<1>8. cfg' = cfg
  BY DEF NoelleWish
<1>9. LossKept' /\ PointsCounted' /\ MissKept'
  BY <1>3, <1>6, <1>8 DEF LedgerInv, LossRemembered, LossKept, PointsCounted, MissKept, Charted
<1>10. QED BY <1>6, <1>7, <1>9 DEF LedgerInv, ChainLedger

\* The next run takes the ledger up where the last one left it.
LEMMA ChainLedgerBegins ==
  ASSUME ChainInv, SameGiven, ChainLedger, Begin
  PROVE  ChainLedger'
<1>1. /\ HistoryType /\ FiveStarCounted /\ FourStarCounted /\ LossKept /\ PointsCounted /\ MissKept
      /\ PityBehindWishes
  BY DEF ChainLedger
<1>2. /\ cfg' = cfg /\ i' = 0 /\ order' = [order EXCEPT !.noviceCnt = NoviceFrom]
      /\ order \in Order /\ order.noviceCnt \in 0..8 /\ i \in Nat /\ pity[5] \in 0..255
      /\ cfg.do5050 \in {-1, 0, 1} /\ cfg.doEpitomized \in 0..2
  BY BeginType DEF ChainInv, TypeOKS, TypeOK, Config, Order, Star, Byte
<1>3. UNCHANGED <<terms, dry, owed, missed>>
  BY DEF Begin, ledger
<1>4. Restored
  BY BeginRestores
<1>5. cfg.banner = "CHRONICLED" => cfg.doEpitomized <= 1
  BY GivenAssumption DEF SameGiven, Legal
<1>6. HistoryType' /\ PointsCounted'
  BY <1>1, <1>2, <1>3, <1>4 DEF Restored, HistoryType, PointsCounted, CourseCounted, Charted
<1>7. FiveStarCounted' /\ FourStarCounted'
  BY <1>1, <1>2, <1>3, <1>4 DEF Restored, FiveStarCounted, FourStarCounted, Star
<1>8. LossKept'
  <2>1. SUFFICES ASSUME NEW r \in Star, owed[r] = 1
                 PROVE  terms.rateUp /\ (AlwaysFeatured(r) \/ getRateUp'[r] = 1)
    BY <1>2, <1>3 DEF LossKept, AlwaysFeatured, Charted
  <2>2. terms.rateUp /\ (AlwaysFeatured(r) \/ getRateUp[r] = 1)
    BY <1>1, <2>1 DEF LossKept
  <2>3. CASE ~AlwaysFeatured(r)
    <3>1. cfg.do5050 # 0 /\ cfg.banner \in EventBanner
      BY <1>1, <2>2 DEF HistoryType, TermsOf
    <3>2. /\ cfg.do5050 = 1
          /\ cfg.banner = "CHRONICLED" => r = 5 /\ Charted
      BY <1>2, <2>1, <2>3, <3>1 DEF AlwaysFeatured, Star
    <3>3. GuaranteeShown(r)
      BY <1>2, <1>5, <3>1, <3>2 DEF GuaranteeShown, Charted
    <3>4. QED BY <1>4, <2>1, <2>2, <2>3, <3>3 DEF Restored
  <2>4. QED BY <2>2, <2>3
<1>9. MissKept'
  <2>1. SUFFICES ASSUME Charted, cfg.doEpitomized = 1
                 PROVE  /\ cfg.banner = "CHRONICLED" /\ cfg.do5050 # 0
                        /\ missed >= 1 => cfg.do5050 = -1 \/ getRateUp'[5] = 1
    BY <1>2, <1>3 DEF MissKept, Charted
  <2>2. /\ cfg.banner = "CHRONICLED" /\ cfg.do5050 # 0
        /\ missed >= 1 => cfg.do5050 = -1 \/ getRateUp[5] = 1
    BY <1>1, <2>1 DEF MissKept
  <2>3. cfg.do5050 # -1 => GuaranteeShown(5)
    BY <1>2, <2>1, <2>2 DEF GuaranteeShown, EventBanner, Charted
  <2>4. QED BY <1>4, <2>2, <2>3 DEF Restored, Star
<1>10. PityBehindWishes'
  <2>1. SUFFICES ASSUME cfg.banner = "NOVICE", order'.noviceCnt + i' <= 7
                 PROVE  pity'[5] <= 81 + order'.noviceCnt + i'
    BY <1>2 DEF PityBehindWishes
  <2>2. order'.noviceCnt = NoviceFrom
    BY <1>2 DEF Order
  <2>3. order'.noviceCnt = order.noviceCnt + i /\ order.noviceCnt + i <= 7
    BY <1>2, <2>1, <2>2 DEF NoviceFrom
  <2>4. pity[5] <= 81 + order.noviceCnt + i
    BY <1>1, <2>1, <2>3 DEF PityBehindWishes
  <2>5. pity'[5] = 0 \/ pity'[5] = pity[5]
    BY <1>4 DEF Restored, Star
  <2>6. QED BY <1>2, <2>3, <2>4, <2>5
<1>11. QED BY <1>6, <1>7, <1>8, <1>9, <1>10 DEF ChainLedger

\* The first run starts level.
LEMMA ChainLedgerStarts ==
  ASSUME NoelleInTime, CoursesPrinted, InitP
  PROVE  SameGiven /\ ChainLedger
<1>1. InitS /\ LedgerInv
  BY LedgerStart DEF InitP, InitS
<1>2. PICK g \in Given : /\ cfg = g.cfg /\ pity = g.pity /\ getRateUp = g.getRateUp
                         /\ fatePoints = g.fatePoints
  BY <1>1 DEF InitS, InitL, Init
<1>3. Legal(g) /\ order \in Orders(g.cfg) /\ order \in Order /\ i = 0
  BY <1>1, <1>2, GivenAssumption, OrdersAssumption DEF InitS
<1>4. PityBehindWishes
  BY <1>2, <1>3 DEF NoelleInTime, PityBehindWishes, Order
<1>5. LossKept /\ PointsCounted
  BY <1>1 DEF LedgerInv, LossRemembered, LossKept, PointsCounted
<1>6. MissKept
  <2>1. SUFFICES ASSUME Charted, cfg.doEpitomized = 1
                 PROVE  /\ cfg.banner = "CHRONICLED" /\ cfg.do5050 # 0
                        /\ missed >= 1 => cfg.do5050 = -1 \/ getRateUp[5] = 1
    BY DEF MissKept
  <2>2. /\ cfg.banner = "CHRONICLED"
        /\ cfg.do5050 = -1 \/ (cfg.do5050 = 1 /\ (fatePoints = 0 \/ getRateUp[5] = 1))
    BY <1>2, <2>1 DEF CoursesPrinted, Charted
  <2>3. missed <= fatePoints
    BY <1>1, <2>1 DEF LedgerInv, CourseCounted
  <2>4. missed \in Nat /\ fatePoints \in Nat
    BY <1>1, <1>2, <1>3 DEF LedgerInv, HistoryType, Legal
  <2>5. QED BY <2>2, <2>3, <2>4
<1>7. QED BY <1>1, <1>2, <1>4, <1>5, <1>6 DEF SameGiven, ChainLedger, LedgerInv

\* Every step of a run keeps the ledger, and gives what the banner may give.
LEMMA ChainLedgerStep ==
  ASSUME WeaponCourseGiven, ChainInv, StandingResolves, SameGiven, ChainLedger, [NextP]_varsP
  PROVE  SameGiven' /\ ChainLedger' /\ [Promise!Next]_(Promise!promise)
<1>1. TypeOKS /\ TypeOK /\ PityBehindWishes
  BY DEF ChainInv, TypeOKS, ChainLedger
<1>2. SameGiven'
  BY EngineStays DEF SameGiven
<1>3. CourseOffered
  BY CourseGiven DEF SameGiven
<1>4. CASE NoelleWish
  <2>1. rare' \in 3..5 /\ Record
    BY <1>1, <1>4, NoelleType DEF NoelleWish
  <2>2. QED BY <1>1, <1>2, <1>4, <2>1, ChainNoelleKeeps, WishAllowed
<1>5. CASE EngineWish
  <2>1. DoAPull(Forced) /\ Record /\ Forced \in Stable
    BY <1>1, <1>5, ForcedType DEF EngineWish
  <2>2. Promise!Kept(WishMade)
    BY <1>1, <1>3, <2>1, ChainWishKept
  <2>3. rare' \in 3..5
    BY <1>1, <2>1, PullOutcome DEF Outcome
  <2>4. PityBehindWishes'
    BY <1>1, <1>5, PityGrows DEF NextS
  <2>5. ChainLedger'
    BY <1>1, <2>1, <2>4, ChainWishStep DEF ChainLedger
  <2>6. QED BY <1>2, <2>1, <2>2, <2>3, <2>5, WishAllowed
<1>6. CASE Report \/ UNCHANGED varsS
  <2>1. UNCHANGED varsL
    BY <1>6 DEF Report, varsS
  <2>2. PityBehindWishes'
    BY <1>1, <1>6, PityGrows DEF NextS
  <2>3. ChainLedger'
    BY <2>1, <2>2 DEF varsL, vars, ledger, ChainLedger, HistoryType, FiveStarCounted, FourStarCounted,
       LossKept, AlwaysFeatured, PointsCounted, CourseCounted, MissKept, Charted
  <2>4. QED BY <1>2, <2>1, <2>3 DEF varsL, ledger, Promise!promise
<1>7. CASE Begin
  <2>1. ChainLedger'
    BY <1>7, ChainLedgerBegins
  <2>2. QED BY <1>2, <1>7, <2>1 DEF Begin, ledger, Promise!promise
<1>8. QED BY <1>4, <1>5, <1>6, <1>7, ChainCases DEF NextS

\* The banner keeps its promises over any number of runs (gacha.c 117-594,
\* yagiws.c 881-982): hard pity, the guarantee and a course of two points outlast
\* the process, because what is printed can be typed again; so does a course of
\* the Chronicled Wish, through its guarantee.  On the weapon banner a course has
\* to be charted.
THEOREM ChainPromise ==
  ASSUME NoelleInTime, CoursesPrinted, WeaponCourseGiven
  PROVE  SpecP /\ []StandingResolves => PromiseKept
<1>1. InitP => SameGiven /\ ChainLedger /\ Promise!Init
  BY ChainLedgerStarts, LedgerStart DEF InitP, InitS
<1>2. ChainInv /\ StandingResolves /\ SameGiven /\ ChainLedger /\ [NextP]_varsP
        => SameGiven' /\ ChainLedger' /\ [Promise!Next]_(Promise!promise)
  BY ChainLedgerStep
<1>3. QED BY <1>1, <1>2, ChainInvariant, PTL DEF SpecP, PromiseKept, Promise!Spec
=============================================================================
