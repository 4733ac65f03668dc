------------------------------ MODULE MCDetails ------------------------------
(***************************************************************************)
(* Instances of Details for TLC over the tables of bannerdata.c: the row   *)
(* and the pools of 5.3.2, the newest that is filled in.                   *)
(***************************************************************************)
EXTENDS Details, BannerTables

MCRow              == 78
Featured2          == FiveStarChrUpTable[MCRow]
MCFiveStarChrUp    == "CHAR1" :> Featured2[1] @@ "CHAR2" :> Featured2[2]
MCFourStarChrUp    == {FourStarChrUpTable[MCRow][k] : k \in 1..3}
MCWpnUpCourses     == FiveStarWpnUpTable[MCRow]
MCFiveStarWpnUp    == {MCWpnUpCourses[k] : k \in 1..2}
MCFourStarWpnUp    == {FourStarWpnUpTable[MCRow][k] : k \in 1..5}
MCFiveStarMaxIndex == [x \in 0..39 |-> FiveStarMaxIndexTable[x + 1]]
MCFourStarMaxIndex == [x \in 0..39 |-> FourStarMaxIndexTable[x + 1]]

\* The engine of 5.3.2, or with -V of 1.0, with the counters not moving.
Shown(b, up, course, pool) ==
  [cfg |-> [banner |-> b, doPity |-> 4 :> 0 @@ 5 :> 0, doSmooth |-> 4 :> 0 @@ 5 :> 0,
            do5050 |-> up, doEpitomized |-> IF b \in {"WPN", "CHRONICLED"} THEN 1 ELSE 0,
            doRadiance |-> 0, epitomizedPath |-> course,
            stdPoolIndex |-> IF b = "NOVICE" THEN 0 ELSE pool],
   pity |-> 4 :> 0 @@ 5 :> 0,
   pityS |-> [r \in {4, 5} |-> [c \in {"chr", "wpn"} |-> 0]],
   getRateUp |-> 4 :> 0 @@ 5 :> 0, fatePoints |-> 0]

\* Every banner, with and without -g and -r; the weapon banner with a course,
\* the Chronicled Wish with and without.
DetailsGiven ==
  {Shown(b, up, 0, pool) : b \in Banner \ {"WPN"}, up \in -1..1, pool \in {1, 38}}
    \cup {Shown("WPN", up, course, 38) : up \in -1..1, course \in MCFiveStarWpnUp}
    \cup {Shown("CHRONICLED", up, course, 38) : up \in -1..1, course \in {1042, 15507}}

\* The weapons featured in the second phase of 5.1.
FourStarWpnUp512 == {FourStarWpnUpTable[74][k] : k \in 1..5}
NamesGiven       == {Shown("WPN", 1, 0, 36)}
=============================================================================
