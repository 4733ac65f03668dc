---------------------------- MODULE MCCommandLine ----------------------------
(***************************************************************************)
(* Instances of CommandLine for TLC: what a command line may hold.         *)
(***************************************************************************)
EXTENDS VersionedBanners

\* One row, that of 5.3.2, stands for every row where the engine's own tables
\* are asked for; the index tables are whole.
MCRow              == 78
MCFiveStarChrUp    == "CHAR1" :> FiveStarChrUpTable[MCRow][1] @@ "CHAR2" :> FiveStarChrUpTable[MCRow][2]
MCFourStarChrUp    == FeaturedChrs(77)
MCWpnUpCourses     == FiveStarWpnUpTable[MCRow]
MCFiveStarWpnUp    == {MCWpnUpCourses[k] : k \in 1..2}
MCFourStarWpnUp    == {FourStarWpnUpTable[MCRow][k] : k \in 1..5}
MCFiveStarMaxIndex == [x \in 0..LastPool |-> FiveStarMaxIndexTable[x + 1]]
MCFourStarMaxIndex == [x \in 0..LastPool |-> FourStarMaxIndexTable[x + 1]]

Flag(n)      == [name |-> n, word |-> "", nums |-> <<>>]
Num(n, x)    == [name |-> n, word |-> "", nums |-> <<x>>]
Word(n, w)   == [name |-> n, word |-> w, nums |-> <<>>]
Of(n, r, x)  == [name |-> n, star |-> r, nums |-> <<x>>]
OfStar(n, r) == [name |-> n, star |-> r]
B(v)         == [name |-> "banner_version", nums |-> v]
V(v)         == [name |-> "pool_version", nums |-> v]
Banners      == {Word("banner", b) : b \in Banner}

\* In front of the tables: second entries that are items, and one that is none;
\* for the courses an item that is none of the featured weapons.
MCSecondRows   == TwoBannerRows \cup (RowsInFront \ {-32})
MCStrayCourses == [p \in RowsInFront \X (1..2) |-> 15403]

\* The smallest int there may be: the program's has 2^32 values, more than the
\* numbers of TLC.
MCIntSize == 65536

\* Every option, with arguments on both sides of its limits.
EveryOption ==
  {Word("banner", b) : b \in {"CHAR2", "WPN", "CHRONICLED", "NOVICE", "nonsense"}}
  \cup {Of("pity", 4, x) : x \in {-1, 9, 10, 11, 12}} \cup {Of("pity", 5, x) : x \in {79, 80, 90, 91}}
  \cup {[name |-> "smooth", star |-> 5, class |-> "chr", nums |-> <<x>>] : x \in {-1, 178, 256}}
  \cup {Num("fate_points", x) : x \in {2, 3}} \cup {Num("epitomized_path", x) : x \in {0, 2, 3, 16, 17}}
  \cup {Num("epitomized_path", x) : x \in {MCIntSize \div 2, MCIntSize, MCIntSize + 1}}
  \cup {Num("noviceCnt", x) : x \in {-1, 8, 9}} \cup {Num("pulls", x) : x \in {-1, 0, MCIntSize}}
  \cup {Num("epitomized_state", x) : x \in {-3, 1, 2}} \cup {Word("epitomized_state", "on")}
  \cup {Word("radiance", w) : w \in {"auto", "perhaps"}}
  \cup {OfStar("lostRateUp", 5), OfStar("noPity", 4), OfStar("noSmooth", 5)}
  \cup {[name |-> "forceSmooth", class |-> c] : c \in Class}
  \cup {Flag(n) : n \in {"noSmoothOld", "noGuarantee", "rateUpOnly", "details", "operand",
                         "help", "unknown"}}
  \cup {B(<<4, 4, 1>>), B(<<1, 3, 4>>), B(<<1, 3, 5>>), B(<<2, 0>>), B(<<5>>), B(<<>>), V(<<>>)}

\* Versions that never came: past the last minor of a major, and other majors.
NeverReleased ==
  (((1..5) \X (0..15)) \ AllVersions) \cup {<<0, 1>>, <<6, 0>>, <<15, 15>>, <<19, 2>>}

\* Every phase of every released version, on every banner, and some of the others.
EveryVersion ==
  Banners \cup {B(v) : v \in AllPhases} \cup {V(v) : v \in AllVersions \cup NeverReleased}
    \cup {B(<<v[1], v[2], p>>) : v \in NeverReleased, p \in 1..2}

\* Up to three options of every kind; or any two about versions and banners.
Anything == EveryOption \cup EveryVersion
Bounded(l, o, menu, n) == Len(l) < n /\ o \in menu /\ \A k \in DOMAIN l : l[k] \in menu
MCMayFollow(l, o) == Bounded(l, o, EveryOption, 3) \/ Bounded(l, o, EveryVersion, 2)
TwoOptions(l, o) == Len(l) < 2

\* What the usage text speaks of: every phase, on every banner.
RadianceDefault == Banners \cup {B(v) : v \in AllPhases}
==============================================================================
