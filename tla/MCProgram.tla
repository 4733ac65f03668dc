----------------------------- MODULE MCProgram ------------------------------
(***************************************************************************)
(* Instances of Program for TLC: the newest version of the tables (5.3.2)  *)
(* and, for courses of two points, 4.8.1.  Where the stable counters are   *)
(* off, the runs go on without end; where they are on, only a few are made.*)
(***************************************************************************)
EXTENDS Program, MCTables

MCAllFiveStarMaxIndex == [x \in 0..39 |-> IF x = 0 THEN 1 ELSE 2]
MCWpnUpCourses        == <<15503, 11503>>
MCChronicleCourses    == <<1029, 1035, 11505, 12502>>
MCSecondRows          == (-32..-1) \cup {22} \cup 24..25 \cup 27..28 \cup {30} \cup {32} \cup 34..81
MCStrayCourses        == [p \in (-32..-1) \X (1..2) |-> 15403]
MCIntSize             == 65536

Flag(n)      == [name |-> n, word |-> "", nums |-> <<>>]
OfStar(n, r) == [name |-> n, star |-> r]
Num(n, x)    == [name |-> n, word |-> "", nums |-> <<x>>]

CourseIndex(c) ==
  LET table == IF c.banner = "WPN" THEN WpnUpCourses ELSE ChronicleCourses
  IN  CHOOSE k \in DOMAIN table : table[k] = c.epitomizedPath

\* The options that give the engine c, and the loop the order o.
MCStanding(c, o) ==
  <<[name |-> "banner", word |-> c.banner, nums |-> <<>>]>>
    \o When(c.doEpitomized = 2, [name |-> "banner_version", nums |-> <<4, 8, 1>>])
    \o When(c.epitomizedPath # NoItem, Num("epitomized_path", CourseIndex(c)))
    \o When(c.doPity[4] = 0, OfStar("noPity", 4))     \o When(c.doPity[5] = 0, OfStar("noPity", 5))
    \o When(c.doSmooth[4] = 0, OfStar("noSmooth", 4)) \o When(c.doSmooth[5] = 0, OfStar("noSmooth", 5))
    \o When(c.do5050 = 0, Flag("noGuarantee"))        \o When(c.do5050 = -1, Flag("rateUpOnly"))
    \o When(c.doRadiance = 1, Num("radiance", 1))     \o When(o.pulls # 10, Num("pulls", o.pulls))
    \o When(o.forceSmooth = 1, [name |-> "forceSmooth", class |-> "chr"])
    \o When(o.forceSmooth = 2, [name |-> "forceSmooth", class |-> "wpn"])

\* The engine as "-b" and the banner leave it, for 5.3.2 and for 4.8.1.
Five(b) == With(With(Plain(b), "doEpitomized", 1), "stdPoolIndex", IF b = "NOVICE" THEN 0 ELSE 38)
Two(b)  == With(With(Plain(b), "doEpitomized", 2), "stdPoolIndex", 34)

Charting(g, it)         == With(g, "epitomizedPath", it)
Resumed(g, p4, p5)      == [g EXCEPT !.pity = 4 :> p4 @@ 5 :> p5]
Stable(g, r, chr, wpn)  == [g EXCEPT !.pityS[r] = "chr" :> chr @@ "wpn" :> wpn]
Pityless(g)             == With(g, "doPity", 4 :> 0 @@ 5 :> 0)

\* Pities, guarantees and courses, carried over without end.
EndlessGiven ==
  LET chr == NoSmooth(Five("CHAR1"))
      wpn == Charting(NoSmooth(Two("WPN")), 11503)
  IN  {With(chr, "doRadiance", 1), wpn, Charting(NoSmooth(Five("CHRONICLED")), 12502),
       NoSmooth(Five("NOVICE")), Resumed(NoSmooth(Five("NOVICE")), 0, 81)}

\* Stable counters, near where they decide and where they wrap.
StableGiven ==
  {Stable(Pityless(Five("CHAR1")), 4, 19, 3), Stable(Pityless(Charting(Two("WPN"), 11503)), 4, 3, 254),
   Stable(Pityless(Five("STD_CHR")), 5, 178, 254), Stable(Pityless(Five("CHRONICLED")), 5, 179, 9),
   Pityless(Five("STD_WPN"))}

\* -g and -r, where the results leave the guarantees out.
OtherwiseGiven ==
  LET g == Resumed(NoSmooth(Five("CHAR2")), 8, 88)
      charted == Charting(NoSmooth(Two("WPN")), 15503)
  IN  {With(g, "do5050", 0), With(g, "do5050", -1), [With(charted, "do5050", 0) EXCEPT !.fatePoints = 1]}

ProgramGiven == EndlessGiven \cup StableGiven \cup OtherwiseGiven

MCRunLimit(c) == IF c.doSmooth[4] = 1 \/ c.do5050 # 1 THEN 2 ELSE 0

ProgramOrders(c) ==
  CASE c.banner = "NOVICE"  -> {[pulls |-> p[1], noviceCnt |-> p[2], forceSmooth |-> 0] :
                                  p \in {<<0, 8>>, <<3, 0>>, <<3, 4>>, <<3, 7>>}}
    [] c.doSmooth[4] = 1    -> {[pulls |-> 2, noviceCnt |-> 0, forceSmooth |-> f] : f \in 0..2}
    [] OTHER                -> {[pulls |-> 2, noviceCnt |-> 0, forceSmooth |-> 0]}

\* One point makes a course full, from 5.0 on.
OnePointGiven == {Charting(NoSmooth(Five("WPN")), 11503)}
==============================================================================
