---------------------------- MODULE MCWishLedger ----------------------------
(***************************************************************************)
(* Instances of WishLedger for TLC.  The stable counters decide only       *)
(* between characters and weapons, which no promise of WishPromise looks   *)
(* at, so these runs switch them off (-s -S) and let every pity run its    *)
(* whole length.                                                           *)
(***************************************************************************)
EXTENDS WishLedger, MCTables

Resumed(g, p4, p5) == [g EXCEPT !.pity = 4 :> p4 @@ 5 :> p5]
Owed(g)            == [g EXCEPT !.getRateUp = 4 :> 1 @@ 5 :> 1]

\* Character banners: from nothing; from the largest pities -4 and -5 take, both
\* guarantees owed, radiance on; without 50/50 guarantee; featured only.
CharacterGiven ==
  LET g == NoSmooth(Plain("CHAR1"))
  IN  {g, Owed(Resumed(With(g, "doRadiance", 1), 11, 90)),
       With(g, "do5050", 0), With(NoSmooth(Plain("CHAR2")), "do5050", -1)}

\* Weapon banner with a charted course, one and two points, and with -g.
WeaponGiven ==
  LET g == With(NoSmooth(Plain("WPN")), "epitomizedPath", 11503)
      two == With(g, "doEpitomized", 2)
  IN  {g, two, Owed(Resumed(two, 9, 79)), With(two, "do5050", 0),
       [two EXCEPT !.fatePoints = 2]}

ChronicleGiven ==
  LET g == NoSmooth(Plain("CHRONICLED"))
  IN  {g, With(g, "epitomizedPath", 1029), With(With(g, "epitomizedPath", 12502), "do5050", 0)}

StandardGiven ==
  {NoSmooth(Plain(b)) : b \in {"STD_CHR", "STD_WPN", "NOVICE", "STD_ONLY_CHR"}}

\* Runs without one pity or the other, where the banner promises less.
PitylessGiven ==
  {With(NoSmooth(Plain("CHAR1")), "doPity", 4 :> 0 @@ 5 :> 1),
   With(With(NoSmooth(Plain("WPN")), "epitomizedPath", 15503), "doPity", 4 :> 1 @@ 5 :> 0)}

\* The stable function switched off by --noSmoothOld with -s and -S.
OldSmoothGiven == {With(Plain(b), "doSmooth", 4 :> -1 @@ 5 :> -1) : b \in {"STD_CHR", "CHRONICLED"}}

\* What else decides whether featured items drop: -r, radiance, -g with a
\* charted course of one or two points.
FeaturedGiven ==
  LET one(b, it) == With(NoSmooth(Plain(b)), "epitomizedPath", it)
  IN  {With(NoSmooth(Plain("CHAR1")), "doRadiance", 1), With(one("WPN", 15503), "do5050", -1),
       With(one("CHRONICLED", 1029), "do5050", -1), With(one("CHRONICLED", 1029), "do5050", 0)}

LedgerGiven ==
  CharacterGiven \cup WeaponGiven \cup ChronicleGiven \cup StandardGiven \cup PitylessGiven
    \cup OldSmoothGiven \cup FeaturedGiven

\* The weapon banner as "-b weapon" runs it: no course charted.
UnchartedGiven == {NoSmooth(Plain("WPN"))}
=============================================================================
