------------------------------- MODULE Details -------------------------------
(***************************************************************************)
(* What -d prints of a banner (yagiws.c 687-870), section by section, and  *)
(* then the wishes of the same command line without -d.  The listing goes  *)
(* over the tables again, under conditions of its own: it and doAPull are  *)
(* two readings of the same tables, that a player holds to be one.         *)
(***************************************************************************)
EXTENDS Gacha, Sequences, ItemNames

CONSTANTS
  WpnUpCourses, ChronicleCourses,  \* the order in which -e counts the featured weapons and the 5-stars
  WishLimit                        \* bound: the wishes made after the listing

\* -e counts every featured weapon, and every 5-star of the Chronicled Wish.
ASSUME CountedAssumption ==
  /\ WpnUpCourses \in Seq(Items) /\ Len(WpnUpCourses) = 2
  /\ ChronicleCourses \in Seq(Items)
  /\ {WpnUpCourses[k] : k \in DOMAIN WpnUpCourses} = FiveStarWpnUp
  /\ {ChronicleCourses[k] : k \in DOMAIN ChronicleCourses}
        = ChroniclePool[5]["chr"] \cup ChroniclePool[5]["wpn"]

VARIABLES
  section,   \* the section printed next
  listed,    \* the entries printed: star, item, and the number shown beside it (0 for none)
  wishes     \* the wishes made

varsD == <<vars, section, listed, wishes>>

InitD == Init /\ section = "featured" /\ listed = {} /\ wishes = 0

Plainly(star, items) == {[star |-> star, item |-> it, number |-> 0] : it \in items}

Numbered_FromZero(star, items, places) ==
  {[star |-> star, item |-> items[k], number |-> k - 1] : k \in places}

Numbered(star, items, places) ==
  {[star |-> star, item |-> items[k], number |-> k] : k \in places}

\* One section: its entries, printed where it is shown, and the one after it.
Lists(this, next, shown, entries) ==
  /\ section = this /\ section' = next
  /\ listed' = listed \cup (IF shown THEN entries ELSE {})
  /\ UNCHANGED <<vars, wishes>>

Chronicle == cfg.banner = "CHRONICLED"

CoursesOf(c) == {k \in DOMAIN ChronicleCourses : ClassOf(ChronicleCourses[k]) = c}

-----------------------------------------------------------------------------
ListFeatured ==
  Lists("featured", "chr5", cfg.banner \in {"CHAR1", "CHAR2", "WPN"},
        IF cfg.banner = "WPN"
        THEN Numbered(5, WpnUpCourses, 1..2) \cup Plainly(4, FourStarWpnUp)
        ELSE Plainly(5, IF cfg.banner = "CHAR1" THEN {FiveStarChrUp["CHAR1"]} ELSE {FiveStarChrUp["CHAR2"]})
               \cup Plainly(4, FourStarChrUp))

ListFiveStarCharacters ==
  Lists("chr5", "wpn5", cfg.banner \notin WeaponBanner /\ cfg.do5050 >= 0,
        IF Chronicle THEN Numbered(5, ChronicleCourses, CoursesOf("chr"))
        ELSE Plainly(5, {FiveStarChr[k] : k \in 1..FiveStarMaxIndex[cfg.stdPoolIndex]}))

ListFiveStarWeapons ==
  Lists("wpn5", "chr4",
        cfg.banner \notin {"CHAR1", "CHAR2", "NOVICE", "STD_ONLY_CHR"} /\ cfg.do5050 >= 0,
        IF Chronicle THEN Numbered(5, ChronicleCourses, CoursesOf("wpn")) ELSE Plainly(5, FiveStarWpn))

ListFourStarCharacters_AllFour ==     \* Lisa, Kaeya and Amber on every banner
  Lists("chr4", "wpn4", cfg.do5050 >= 0,
        IF Chronicle THEN Plainly(4, ChroniclePool[4]["chr"])
        ELSE Plainly(4, {FourStarChr[k] : k \in 1..(FourStarMaxIndex[cfg.stdPoolIndex] + 3)}))

ListFourStarCharacters_NoThree ==     \* and on none
  Lists("chr4", "wpn4", cfg.do5050 >= 0,
        IF Chronicle THEN Plainly(4, ChroniclePool[4]["chr"])
        ELSE Plainly(4, {FourStarChr[k] : k \in 4..(FourStarMaxIndex[cfg.stdPoolIndex] + 3)}))

\* The first three 4-star characters are listed on the standard banners only.
ListFourStarCharacters ==
  LET first == IF cfg.banner \in {"STD_CHR", "STD_ONLY_CHR", "STD_WPN"} THEN 1 ELSE 4
  IN  Lists("chr4", "wpn4", cfg.do5050 >= 0,
            IF Chronicle THEN Plainly(4, ChroniclePool[4]["chr"])
            ELSE Plainly(4, {FourStarChr[k] : k \in first..(FourStarMaxIndex[cfg.stdPoolIndex] + 3)}))

ListFourStarWeapons ==
  Lists("wpn4", "wpn3", cfg.banner # "NOVICE" /\ cfg.do5050 >= 0,
        Plainly(4, IF Chronicle THEN ChroniclePool[4]["wpn"] ELSE FourStarWpn))

ListThreeStarWeapons ==
  Lists("wpn3", "end", cfg.do5050 >= 0, Plainly(3, ThreeStar))

\* The banner whose details were read is pulled from.
WishAfter ==
  /\ section = "end" /\ wishes < WishLimit
  /\ Next
  /\ wishes' = wishes + 1 /\ UNCHANGED <<section, listed>>

NextD ==
  \/ ListFeatured \/ ListFiveStarCharacters \/ ListFiveStarWeapons
  \/ ListFourStarCharacters \/ ListFourStarWeapons \/ ListThreeStarWeapons
  \/ WishAfter

SpecD == InitD /\ [][NextD]_varsD

-----------------------------------------------------------------------------
\* Under -r the common pools are left out, which drop nothing on the banners
\* that feature items; of the other banners nothing at all is printed then.
Announced ==
  \/ cfg.do5050 >= 0
  \/ cfg.banner \in {"CHAR1", "CHAR2", "WPN"} /\ rare \in Star

\* Whatever drops was listed among the items of its star: no pool of the
\* engine (gacha.c 166-594) holds more than the listing shows of it.
NothingUnlisted ==
  (wishes > 0 /\ Announced) => \E e \in listed : e.star = rare /\ e.item = item

\* Whatever is listed can drop: the listing shows no item that the options rule
\* out, but for the courses that were not charted on the Chronicled Wish.
OnlyWhatDrops ==
  (section = "end" /\ wishes = 0) =>
    \A e \in listed : (Chronicle /\ Charted /\ e.star = 5) \/ ENABLED (Next /\ rare' = e.star /\ item' = e.item)

\* The command line that charts the course of number n on this banner.
Line(n) == INSTANCE CommandLine WITH
  Menu <- {}, MayFollow <- LAMBDA l, o : FALSE, SecondRows <- {}, StrayCourses <- <<>>, IntSize <- 65536,
  line <- <<>>, opts <- [banner |-> cfg.banner, pathIndex |-> n, versionGiven |-> FALSE],
  stage <- "options", handed <- <<>>

\* "Chart a course by passing -e x, where x is the desired index listed above"
\* (yagiws.c 733 and 806): the number beside an item is the course -e takes it
\* for (yagiws.c 604-624), and every course that -e takes has a number.
NumberCharts ==
  (section = "end" /\ wishes = 0) =>
    /\ \A e \in listed : e.number # 0 => Line(e.number)!EpitomizedPath = e.item
    /\ (cfg.banner = "WPN" \/ (Chronicle /\ cfg.do5050 >= 0)) =>
         \A n \in 1..20 : ~Line(n)!NoSuchCourse => \E e \in listed : e.number = n

\* Every item listed is shown by a name, and no two by the same (item.c 10-21).
ShownByName ==
  (section = "end" /\ wishes = 0) =>
    \A e \in listed : /\ GetItem(e.item) # NoName
                      /\ \A d \in listed : GetItem(d.item) = GetItem(e.item) => d.item = e.item

\* The names the comments of bannerdata.c 345-373 give to new featured weapons,
\* as places in the lists of weapon.c.
MeantFor(id) ==
  CASE id = 11427 -> <<"weapon", 14, 26>>     \* The Dockhand's Assistant
    [] id = 12427 -> <<"weapon", 24, 26>>     \* Portable Power Saw
    [] id = 15427 -> <<"weapon", 54, 26>>     \* Range Gauge
    [] id = 11430 -> <<"weapon", 14, 30>>     \* Sturdy Bone
    [] id = 12430 -> <<"weapon", 24, 30>>     \* Fruitful Hook
    [] OTHER      -> GetItem(id)

\* "12430 ... // Fruitful Hook" (bannerdata.c 371): a weapon is shown by the
\* name its row was written with.
NamedAsMeant == \A e \in listed : GetItem(e.item) = MeantFor(e.item)
=============================================================================
