------------------------------ MODULE MCTables ------------------------------
(***************************************************************************)
(* Small item tables for the runs, with ids of bannerdata.c: as few items  *)
(* per pool as keep every pool of an action distinct from the others.      *)
(***************************************************************************)
EXTENDS Integers, TLC

MCFiveStarChrUp    == "CHAR1" :> 1022 @@ "CHAR2" :> 1030
MCFourStarChrUp    == {1023}
MCFiveStarWpnUp    == {11503, 15503}
MCFourStarWpnUp    == {12410}
MCFiveStarChr      == <<1003, 1016>>
MCFiveStarMaxIndex == 0 :> 1 @@ 1 :> 2
MCFourStarChr      == <<1006, 1015, 1021, 1020, 1034>>
MCFourStarMaxIndex == 0 :> 1 @@ 1 :> 2
MCFiveStarWpn      == {11501}
MCFourStarWpn      == {11401}
MCThreeStar        == {11301}
MCChroniclePool    ==
  4 :> ("chr" :> {1024} @@ "wpn" :> {11402}) @@
  5 :> ("chr" :> {1029, 1035} @@ "wpn" :> {11505, 12502})

\* The engine as main starts it without any option but -b: all mechanics on,
\* no pity, one fate point where a course can be charted (versions from 5.0).
Plain(b) ==
  [cfg |-> [banner |-> b, doPity |-> 4 :> 1 @@ 5 :> 1, doSmooth |-> 4 :> 1 @@ 5 :> 1,
            do5050 |-> 1, doEpitomized |-> IF b \in {"WPN", "CHRONICLED"} THEN 1 ELSE 0,
            doRadiance |-> 0, epitomizedPath |-> 0,
            stdPoolIndex |-> IF b = "NOVICE" THEN 0 ELSE 1],
   pity |-> 4 :> 0 @@ 5 :> 0,
   pityS |-> [r \in {4, 5} |-> [c \in {"chr", "wpn"} |-> 0]],
   getRateUp |-> 4 :> 0 @@ 5 :> 0,
   fatePoints |-> 0]

\* g with another option.
With(g, field, v) == [g EXCEPT !.cfg[field] = v]

\* Options -s and -S: neither stable counter moves.
NoSmooth(g) == [g EXCEPT !.cfg.doSmooth = 4 :> 0 @@ 5 :> 0]

=============================================================================
