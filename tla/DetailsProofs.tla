---------------------------- MODULE DetailsProofs ----------------------------
(***************************************************************************)
(* -d and the engine are two readings of the same tables: whatever drops   *)
(* was listed, for every table, every banner and any number of wishes, as  *)
(* long as a course is charted on the weapon banner.  Without one the      *)
(* theorem is false: a full course is then item 0, which nothing lists.    *)
(* The numbers listed are those -e takes, and no two items share a name.   *)
(***************************************************************************)
EXTENDS Details, GachaProofs

\* -e was given wherever the weapon banner was chosen.
WeaponCourseGiven == \A g \in Given : g.cfg.banner = "WPN" => g.cfg.epitomizedPath # NoItem

CourseOffered ==
  /\ cfg.epitomizedPath \in PathOffered(cfg)
  /\ cfg.banner = "WPN" => cfg.epitomizedPath # NoItem

Event == {"CHAR1", "CHAR2", "WPN"}
Standard == {"STD_CHR", "STD_ONLY_CHR", "STD_WPN"}

-----------------------------------------------------------------------------
(* What the engine can drop. *)

\* The common pools of the banner, by star and class.
CommonOf(r, c) ==
  CASE cfg.banner = "CHRONICLED" -> ChroniclePool[r][c]
    [] cfg.banner # "CHRONICLED" /\ r = 5 /\ c = "chr" ->
         IF cfg.banner \in WeaponBanner THEN {} ELSE StdFiveStarChr
    [] cfg.banner # "CHRONICLED" /\ r = 5 /\ c = "wpn" ->
         IF cfg.banner \in {"WPN", "STD_WPN", "STD_CHR"} THEN FiveStarWpn ELSE {}
    [] cfg.banner # "CHRONICLED" /\ r = 4 /\ c = "chr" ->
         IF cfg.banner \in Standard THEN StdFourStarChr ELSE EventFourStarChr
    [] cfg.banner # "CHRONICLED" /\ r = 4 /\ c = "wpn" ->
         IF cfg.banner = "NOVICE" THEN {} ELSE FourStarWpn

\* An item of the star: a 3-star weapon, a featured item, or an item of the
\* common pools, which the event banners leave out under -r.
Drops(r, it) ==
  \/ r = 3 /\ it \in ThreeStar
  \/ r \in Star /\ cfg.banner \in Event /\ it \in Featured(r)
  \/ /\ r \in Star /\ (cfg.banner \in Event => cfg.do5050 >= 0)
     /\ \E c \in Class : it \in CommonOf(r, c)

\* A guarantee leaves the common pool of the event banners out.
LEMMA NotGuaranteed ==
  ASSUME TypeOK, NEW r \in Star, RateUpAtRoll[r] = 0
  PROVE  cfg.do5050 >= 0
<1>1. cfg.do5050 \in {-1, 0, 1}
  BY DEF TypeOK, Config
<1>2. ASSUME cfg.do5050 = -1 PROVE FALSE
  <2>1. RateUpAtRoll = [q \in Star |-> 1]
    BY <1>2 DEF RateUpAtRoll
  <2>2. QED BY <2>1
<1>3. QED BY <1>1, <1>2

LEMMA FiveStarDrops ==
  ASSUME TypeOK, CourseOffered, NEW ps, FiveStar(ps)
  PROVE  rare' = 5 /\ cfg' = cfg /\ Drops(5, item')
<1>0. 5 \in Star /\ "chr" \in Class /\ "wpn" \in Class
  BY DEF Star, Class
<1>1. CASE FiveStarCharacterEvent(ps)
  <2>1. cfg.banner \in {"CHAR1", "CHAR2"} /\ rare' = 5 /\ cfg' = cfg
    BY <1>1 DEF FiveStarCharacterEvent, FiveStarDrop
  <2>2. \/ item' = FiveStarChrUp[cfg.banner]
        \/ RateUpAtRoll[5] = 0 /\ item' \in StdFiveStarChr
    BY <1>1 DEF FiveStarCharacterEvent, FiveStarDrop
  <2>3. Featured(5) = {FiveStarChrUp[cfg.banner]} /\ CommonOf(5, "chr") = StdFiveStarChr
    BY <2>1 DEF Featured, CommonOf, WeaponBanner
  <2>4. cfg.banner \in Event
    BY <2>1 DEF Event
  <2>5. QED BY <1>0, <2>1, <2>2, <2>3, <2>4, NotGuaranteed DEF Drops
<1>2. CASE FiveStarWeaponEvent(ps)
  <2>1. cfg.banner = "WPN" /\ rare' = 5 /\ cfg' = cfg
    BY <1>2 DEF FiveStarWeaponEvent, FiveStarDrop
  <2>2. \/ item' = cfg.epitomizedPath \/ item' \in FiveStarWpnUp
        \/ RateUpAtRoll[5] = 0 /\ item' \in FiveStarWpn
    BY <1>2 DEF FiveStarWeaponEvent, FiveStarDrop
  <2>3. Featured(5) = FiveStarWpnUp /\ CommonOf(5, "wpn") = FiveStarWpn
    BY <2>1 DEF Featured, CommonOf
  <2>4. cfg.epitomizedPath \in FiveStarWpnUp /\ cfg.banner \in Event
    BY <2>1 DEF CourseOffered, PathOffered, Event
  <2>5. QED BY <1>0, <2>1, <2>2, <2>3, <2>4, NotGuaranteed DEF Drops
<1>3. CASE FiveStarChroniclePath(ps)
  <2>1. cfg.banner = "CHRONICLED" /\ Charted /\ rare' = 5 /\ cfg' = cfg
    BY <1>3 DEF FiveStarChroniclePath, FiveStarDrop
  <2>2. item' = cfg.epitomizedPath \/ item' \in ChroniclePool[5][ClassOf(cfg.epitomizedPath)]
    BY <1>3 DEF FiveStarChroniclePath, FiveStarDrop
  <2>3. cfg.epitomizedPath \in ChroniclePool[5]["chr"] \cup ChroniclePool[5]["wpn"]
    BY <2>1 DEF CourseOffered, PathOffered, Charted
  <2>4. ClassOf(cfg.epitomizedPath) \in Class
    BY DEF ClassOf, Class
  <2>5. \E c \in Class : item' \in ChroniclePool[5][c]
    BY <1>0, <2>2, <2>3, <2>4
  <2>6. cfg.banner \notin Event /\ \A c \in Class : CommonOf(5, c) = ChroniclePool[5][c]
    BY <2>1 DEF Event, CommonOf
  <2>7. QED BY <1>0, <2>1, <2>5, <2>6 DEF Drops
<1>4. CASE FiveStarChronicle(ps)
  <2>1. cfg.banner = "CHRONICLED" /\ rare' = 5 /\ cfg' = cfg
    BY <1>4 DEF FiveStarChronicle, FiveStarDrop
  <2>2. \E c \in Class : item' \in ChroniclePool[5][c]
    BY <1>4 DEF FiveStarChronicle, FiveStarDrop
  <2>3. cfg.banner \notin Event /\ \A c \in Class : CommonOf(5, c) = ChroniclePool[5][c]
    BY <2>1 DEF Event, CommonOf
  <2>4. QED BY <1>0, <2>1, <2>2, <2>3 DEF Drops
<1>5. CASE FiveStarOnlyCharacters(ps)
  <2>1. cfg.banner \in {"NOVICE", "STD_ONLY_CHR"} /\ rare' = 5 /\ cfg' = cfg /\ item' \in StdFiveStarChr
    BY <1>5 DEF FiveStarOnlyCharacters, FiveStarDrop
  <2>2. cfg.banner \notin Event /\ CommonOf(5, "chr") = StdFiveStarChr
    BY <2>1 DEF Event, CommonOf, WeaponBanner
  <2>3. QED BY <1>0, <2>1, <2>2 DEF Drops
<1>6. CASE FiveStarOnlyWeapons(ps)
  <2>1. cfg.banner = "STD_WPN" /\ rare' = 5 /\ cfg' = cfg /\ item' \in FiveStarWpn
    BY <1>6 DEF FiveStarOnlyWeapons, FiveStarDrop
  <2>2. cfg.banner \notin Event /\ CommonOf(5, "wpn") = FiveStarWpn
    BY <2>1 DEF Event, CommonOf
  <2>3. QED BY <1>0, <2>1, <2>2 DEF Drops
<1>7. CASE FiveStarStandard(ps)
  <2>1. cfg.banner = "STD_CHR" /\ rare' = 5 /\ cfg' = cfg /\ \E c \in Class : item' \in StdFiveStar(c)
    BY <1>7 DEF FiveStarStandard, FiveStarDrop
  <2>2. cfg.banner \notin Event /\ \A c \in Class : CommonOf(5, c) = StdFiveStar(c)
    BY <2>1 DEF Event, CommonOf, WeaponBanner, StdFiveStar, Class
  <2>3. QED BY <1>0, <2>1, <2>2 DEF Drops
<1>8. QED BY <1>1, <1>2, <1>3, <1>4, <1>5, <1>6, <1>7 DEF FiveStar

LEMMA FourStarDrops ==
  ASSUME TypeOK, NEW ps, FourStar(ps)
  PROVE  rare' = 4 /\ cfg' = cfg /\ Drops(4, item')
<1>0. 4 \in Star /\ "chr" \in Class /\ "wpn" \in Class
  BY DEF Star, Class
<1>1. ASSUME FourStarCharacterEvent(ps) \/ FourStarWeaponEvent(ps)
      PROVE  rare' = 4 /\ cfg' = cfg /\ Drops(4, item')
  <2>1. cfg.banner \in Event /\ rare' = 4 /\ cfg' = cfg
    BY <1>1 DEF FourStarCharacterEvent, FourStarWeaponEvent, FourStarDrop, Event
  <2>2. \/ item' \in Featured(4)
        \/ RateUpAtRoll[4] = 0 /\ \E c \in Class : item' \in EventFourStar(c)
    BY <1>1 DEF FourStarCharacterEvent, FourStarWeaponEvent, FourStarDrop, Featured
  <2>3. \A c \in Class : CommonOf(4, c) = EventFourStar(c)
    BY <2>1 DEF Event, CommonOf, EventFourStar, Class, Standard
  <2>4. QED BY <1>0, <2>1, <2>2, <2>3, NotGuaranteed DEF Drops
<1>2. CASE FourStarChronicle(ps)
  <2>1. cfg.banner = "CHRONICLED" /\ rare' = 4 /\ cfg' = cfg /\ \E c \in Class : item' \in ChroniclePool[4][c]
    BY <1>2 DEF FourStarChronicle, FourStarDrop
  <2>2. cfg.banner \notin Event /\ \A c \in Class : CommonOf(4, c) = ChroniclePool[4][c]
    BY <2>1 DEF Event, CommonOf
  <2>3. QED BY <1>0, <2>1, <2>2 DEF Drops
<1>3. CASE FourStarNovice(ps)
  <2>1. cfg.banner = "NOVICE" /\ rare' = 4 /\ cfg' = cfg /\ item' \in EventFourStarChr
    BY <1>3 DEF FourStarNovice, FourStarDrop
  <2>2. cfg.banner \notin Event /\ CommonOf(4, "chr") = EventFourStarChr
    BY <2>1 DEF Event, CommonOf, Standard
  <2>3. QED BY <1>0, <2>1, <2>2 DEF Drops
<1>4. CASE FourStarStandard(ps)
  <2>1. cfg.banner \in Standard /\ rare' = 4 /\ cfg' = cfg /\ \E c \in Class : item' \in StdFourStar(c)
    BY <1>4 DEF FourStarStandard, FourStarDrop, Standard
  <2>2. cfg.banner \notin Event /\ \A c \in Class : CommonOf(4, c) = StdFourStar(c)
    BY <2>1 DEF Event, CommonOf, Standard, StdFourStar, Class
  <2>3. QED BY <1>0, <2>1, <2>2 DEF Drops
<1>5. QED BY <1>1, <1>2, <1>3, <1>4 DEF FourStar

LEMMA PullDrops ==
  ASSUME TypeOK, CourseOffered, Next
  PROVE  cfg' = cfg /\ Drops(rare', item')
<1>1. CASE FiveStar(pityS)
  BY <1>1, FiveStarDrops
<1>2. CASE FourStar(pityS)
  BY <1>2, FourStarDrops
<1>3. CASE ThreeStarDrop(pityS)
  BY <1>3 DEF ThreeStarDrop, Drops
<1>4. QED BY <1>1, <1>2, <1>3 DEF Next, DoAPull

-----------------------------------------------------------------------------
(* What the listing holds, section by section. *)

Has(r, it) == \E e \in listed : e.star = r /\ e.item = it

\* The sections printed before a section: all, in this order.
Sections == <<"featured", "chr5", "wpn5", "chr4", "wpn4", "wpn3", "end">>
Past(k)  == \E n \in (k + 1)..7 : section = Sections[n]

\* The pool a section printed, by its place, where the banner has it.
Printed(k) ==
  /\ k = 1 => (cfg.banner \in Event => \A r \in Star : \A it \in Featured(r) : Has(r, it))
  /\ k = 2 => (cfg.do5050 >= 0 => \A it \in CommonOf(5, "chr") : Has(5, it))
  /\ k = 3 => (cfg.do5050 >= 0 => \A it \in CommonOf(5, "wpn") : Has(5, it))
  /\ k = 4 => (cfg.do5050 >= 0 => \A it \in CommonOf(4, "chr") : Has(4, it))
  /\ k = 5 => (cfg.do5050 >= 0 => \A it \in CommonOf(4, "wpn") : Has(4, it))
  /\ k = 6 => (cfg.do5050 >= 0 => \A it \in ThreeStar : Has(3, it))

Listing == \A k \in 1..6 : Past(k) => Printed(k)

\* Nothing is pulled before the listing ends, and a pull gives what can drop.
ListInv ==
  /\ TypeOK /\ CourseOffered /\ Listing /\ wishes \in Nat
  /\ wishes > 0 => section = "end" /\ Drops(rare, item)

LEMMA ListedIsEnough == ListInv => NothingUnlisted
<1>1. SUFFICES ASSUME ListInv, wishes > 0, Announced PROVE Has(rare, item)
  BY DEF NothingUnlisted, Has
<1>2. section = "end" /\ Drops(rare, item) /\ Listing
  BY <1>1 DEF ListInv
<1>3. /\ cfg.banner \in Event => \A r \in Star : \A it \in Featured(r) : Has(r, it)
      /\ cfg.do5050 >= 0 => \A r \in Star, c \in Class : \A it \in CommonOf(r, c) : Has(r, it)
      /\ cfg.do5050 >= 0 => \A it \in ThreeStar : Has(3, it)
  <2>1. \A k \in 1..6 : Past(k)
    BY <1>2 DEF Past, Sections
  <2>2. Printed(1) /\ Printed(2) /\ Printed(3) /\ Printed(4) /\ Printed(5) /\ Printed(6)
    BY <1>2, <2>1 DEF Listing
  <2>3. QED BY <2>2 DEF Printed, Star, Class
<1>4. CASE rare = 3 /\ item \in ThreeStar
  <2>1. cfg.do5050 >= 0
    BY <1>1, <1>4 DEF Announced, Star
  <2>2. QED BY <1>3, <1>4, <2>1
<1>5. CASE rare \in Star /\ cfg.banner \in Event /\ item \in Featured(rare)
  BY <1>3, <1>5
<1>6. CASE /\ rare \in Star /\ (cfg.banner \in Event => cfg.do5050 >= 0)
           /\ \E c \in Class : item \in CommonOf(rare, c)
  <2>1. cfg.do5050 >= 0
    BY <1>1, <1>6 DEF Announced, Event
  <2>2. QED BY <1>3, <1>6, <2>1
<1>7. QED BY <1>2, <1>4, <1>5, <1>6 DEF Drops

-----------------------------------------------------------------------------
(* The listing, step by step. *)

\* What is listed stays listed, and the pools do not change under it.
LEMMA Kept ==
  ASSUME cfg' = cfg, listed \subseteq listed'
  PROVE  /\ \A r, it : Has(r, it) => Has(r, it)'
         /\ \A r, c : CommonOf(r, c)' = CommonOf(r, c)
         /\ \A r : Featured(r)' = Featured(r)
<1>1. \A r, it : Has(r, it) => Has(r, it)'
  BY DEF Has
<1>2. \A r, c : CommonOf(r, c)' = CommonOf(r, c)
  BY DEF CommonOf, StdFiveStarChr, StdFourStarChr, EventFourStarChr
<1>3. \A r : Featured(r)' = Featured(r)
  BY DEF Featured, Charted
<1>4. QED BY <1>1, <1>2, <1>3

LEMMA PrintedStays ==
  ASSUME cfg' = cfg, listed \subseteq listed', NEW k \in 1..6, Printed(k)
  PROVE  Printed(k)'
<1>1. /\ \A r, it : Has(r, it) => Has(r, it)'
      /\ \A r, c : CommonOf(r, c)' = CommonOf(r, c)
      /\ \A r : Featured(r)' = Featured(r)
  BY Kept
<1>2. CASE k = 1
  BY <1>1, <1>2 DEF Printed
<1>3. CASE k = 2
  BY <1>1, <1>3 DEF Printed
<1>4. CASE k = 3
  BY <1>1, <1>4 DEF Printed
<1>5. CASE k = 4
  BY <1>1, <1>5 DEF Printed
<1>6. CASE k = 5
  BY <1>1, <1>6 DEF Printed
<1>7. CASE k = 6
  BY <1>1, <1>7 DEF Printed
<1>8. QED BY <1>2, <1>3, <1>4, <1>5, <1>6, <1>7

LEMMA ListingStays ==
  ASSUME Listing, cfg' = cfg, section' = section, listed' = listed
  PROVE  Listing'
<1>1. SUFFICES ASSUME NEW k \in 1..6, Past(k)' PROVE Printed(k)'
  BY DEF Listing
<1>2. Past(k) /\ listed \subseteq listed'
  BY <1>1 DEF Past
<1>3. Printed(k)
  BY <1>2 DEF Listing
<1>4. QED BY <1>2, <1>3, PrintedStays

\* A section that prints its pool extends the listing by it.
LEMMA SectionStep ==
  ASSUME ListInv, NEW k \in 1..6, NEW shown, NEW entries,
         Lists(Sections[k], Sections[k + 1], shown, entries), Printed(k)'
  PROVE  ListInv'
<1>1. /\ section = Sections[k] /\ section' = Sections[k + 1] /\ listed \subseteq listed'
      /\ UNCHANGED vars /\ wishes' = wishes
  BY DEF Lists
<1>2. cfg' = cfg /\ TypeOK' /\ CourseOffered'
  BY <1>1 DEF vars, ListInv, TypeOK, CourseOffered
<1>3. \A n \in 1..6 : Past(n)' => n = k \/ Past(n)
  BY <1>1 DEF Past, Sections
<1>4. Listing'
  <2>1. SUFFICES ASSUME NEW n \in 1..6, Past(n)' PROVE Printed(n)'
    BY DEF Listing
  <2>2. CASE n = k
    BY <2>2
  <2>3. CASE Past(n)
    <3>1. Printed(n)
      BY <2>3 DEF ListInv, Listing
    <3>2. QED BY <1>1, <1>2, <3>1, PrintedStays
  <2>4. QED BY <1>3, <2>1, <2>2, <2>3
<1>5. section # "end"
  BY <1>1 DEF Sections
<1>6. wishes' = wishes /\ wishes \in Nat /\ ~(wishes > 0)
  BY <1>1, <1>5 DEF ListInv
<1>7. QED BY <1>2, <1>4, <1>6 DEF ListInv


\* What the two ways of printing leave in the listing.
LEMMA PlainEntries ==
  \A r, items : \A it \in items : \E e \in Plainly(r, items) : e.star = r /\ e.item = it
<1> TAKE r, items
<1> TAKE it \in items
<1> DEFINE e == [star |-> r, item |-> it, number |-> 0]
<1>1. e \in Plainly(r, items) /\ e.star = r /\ e.item = it
  BY DEF Plainly
<1> HIDE DEF e
<1>2. QED BY <1>1

LEMMA NumberedEntries ==
  \A r, items, places : \A n \in places :
     \E e \in Numbered(r, items, places) : e.star = r /\ e.item = items[n]
<1> TAKE r, items, places
<1> TAKE n \in places
<1> DEFINE e == [star |-> r, item |-> items[n], number |-> n]
<1>1. e \in Numbered(r, items, places) /\ e.star = r /\ e.item = items[n]
  BY DEF Numbered
<1> HIDE DEF e
<1>2. QED BY <1>1

\* The numbered lists leave no course out.
LEMMA CoursesListed ==
  /\ \A it \in FiveStarWpnUp : \E n \in 1..2 : it = WpnUpCourses[n]
  /\ \A c \in Class : \A it \in ChroniclePool[5][c] : \E n \in CoursesOf(c) : it = ChronicleCourses[n]
<1>1. DOMAIN WpnUpCourses = 1..2
  <2>1. WpnUpCourses \in Seq(Items) /\ Len(WpnUpCourses) = 2
    BY CountedAssumption
  <2>2. QED BY <2>1
<1>2. \A it \in FiveStarWpnUp : \E n \in 1..2 : it = WpnUpCourses[n]
  BY <1>1, CountedAssumption
<1>3. ASSUME NEW c \in Class, NEW it \in ChroniclePool[5][c]
      PROVE  \E n \in CoursesOf(c) : it = ChronicleCourses[n]
  <2>1. it \in ChroniclePool[5]["chr"] \cup ChroniclePool[5]["wpn"]
    BY <1>3 DEF Class
  <2>2. PICK n \in DOMAIN ChronicleCourses : it = ChronicleCourses[n]
    BY <2>1, CountedAssumption
  <2>3. ClassOf(it) = c
    <3>1. 5 \in Star
      BY DEF Star
    <3>2. QED BY <1>3, <3>1, ChronicleAssumption
  <2>4. n \in CoursesOf(c)
    BY <2>2, <2>3 DEF CoursesOf
  <2>5. QED BY <2>2, <2>4
<1>4. QED BY <1>2, <1>3

\* An entry printed in a step is in the listing after it.
LEMMA NewlyListed ==
  ASSUME NEW k, NEW next, NEW shown, NEW entries, Lists(k, next, shown, entries), shown,
         NEW r, NEW it, \E e \in entries : e.star = r /\ e.item = it
  PROVE  Has(r, it)'
BY DEF Lists, Has

LEMMA FeaturedStep ==
  ASSUME ListInv, ListFeatured
  PROVE  ListInv'
<1> DEFINE shown == cfg.banner \in {"CHAR1", "CHAR2", "WPN"}
           five == IF cfg.banner = "WPN" THEN Numbered(5, WpnUpCourses, 1..2)
                   ELSE Plainly(5, IF cfg.banner = "CHAR1" THEN {FiveStarChrUp["CHAR1"]}
                                   ELSE {FiveStarChrUp["CHAR2"]})
           four == Plainly(4, IF cfg.banner = "WPN" THEN FourStarWpnUp ELSE FourStarChrUp)
           entries == IF cfg.banner = "WPN"
                      THEN Numbered(5, WpnUpCourses, 1..2) \cup Plainly(4, FourStarWpnUp)
                      ELSE Plainly(5, IF cfg.banner = "CHAR1" THEN {FiveStarChrUp["CHAR1"]}
                                      ELSE {FiveStarChrUp["CHAR2"]})
                             \cup Plainly(4, FourStarChrUp)
<1>1. Lists("featured", "chr5", shown, entries)
  BY DEF ListFeatured
<1>2. entries = five \cup four
  OBVIOUS
<1>3. shown => \A it \in Featured(5) : \E e \in five : e.star = 5 /\ e.item = it
  <2>1. CASE cfg.banner = "WPN"
    <3>1. Featured(5) = FiveStarWpnUp
      BY <2>1 DEF Featured
    <3>2. \A n \in 1..2 : \E e \in five : e.star = 5 /\ e.item = WpnUpCourses[n]
      BY <2>1, NumberedEntries
    <3> HIDE DEF five
    <3>3. ASSUME NEW it \in FiveStarWpnUp PROVE \E e \in five : e.star = 5 /\ e.item = it
      <4>1. PICK n \in 1..2 : it = WpnUpCourses[n]
        BY CoursesListed
      <4>2. QED BY <3>2, <4>1
    <3>4. QED BY <3>1, <3>3
  <2>2. CASE cfg.banner \in {"CHAR1", "CHAR2"}
    <3>1. Featured(5) = {FiveStarChrUp[cfg.banner]}
      BY <2>2 DEF Featured
    <3>2. five = Plainly(5, {FiveStarChrUp[cfg.banner]})
      BY <2>2
    <3> DEFINE items == {FiveStarChrUp[cfg.banner]}
    <3>3. five = Plainly(5, items)
      BY <3>2
    <3> HIDE DEF items
    <3>4. \A it \in items : \E e \in Plainly(5, items) : e.star = 5 /\ e.item = it
      BY PlainEntries
    <3>5. QED BY <3>1, <3>3, <3>4 DEF items
  <2>3. QED BY <2>1, <2>2
<1>4. shown => \A it \in Featured(4) : \E e \in four : e.star = 4 /\ e.item = it
  <2>1. shown => Featured(4) = IF cfg.banner = "WPN" THEN FourStarWpnUp ELSE FourStarChrUp
    BY DEF Featured
  <2> DEFINE items == IF cfg.banner = "WPN" THEN FourStarWpnUp ELSE FourStarChrUp
  <2>2. four = Plainly(4, items) /\ (shown => Featured(4) = items)
    BY <2>1
  <2> HIDE DEF four, items
  <2>3. \A it \in items : \E e \in Plainly(4, items) : e.star = 4 /\ e.item = it
    BY PlainEntries
  <2>4. QED BY <2>2, <2>3
<1> HIDE DEF entries, five, four
<1>5. cfg' = cfg /\ listed \subseteq listed'
  BY <1>1 DEF Lists, vars
<1>6. ASSUME shown, NEW r \in Star, NEW it \in Featured(r) PROVE Has(r, it)'
  <2>1. \E e \in entries : e.star = r /\ e.item = it
    BY <1>2, <1>3, <1>4, <1>6 DEF Star
  <2>2. QED BY <1>1, <1>6, <2>1, NewlyListed
<1>7. (cfg.banner \in Event)' => shown
  BY <1>5 DEF Event
<1>8. Printed(1)'
  BY <1>5, <1>6, <1>7, Kept DEF Printed
<1>9. Sections[1] = "featured" /\ Sections[1 + 1] = "chr5"
  BY DEF Sections
<1>10. QED BY <1>1, <1>8, <1>9, SectionStep

LEMMA FiveStarCharactersStep ==
  ASSUME ListInv, ListFiveStarCharacters
  PROVE  ListInv'
<1> DEFINE shown == cfg.banner \notin WeaponBanner /\ cfg.do5050 >= 0
           entries == IF Chronicle THEN Numbered(5, ChronicleCourses, CoursesOf("chr"))
                      ELSE Plainly(5, {FiveStarChr[k] : k \in 1..FiveStarMaxIndex[cfg.stdPoolIndex]})
<1>1. Lists("chr5", "wpn5", shown, entries)
  BY DEF ListFiveStarCharacters
<1>2. cfg.do5050 >= 0 => \A it \in CommonOf(5, "chr") : shown /\ \E e \in entries : e.star = 5 /\ e.item = it
  <2>0. "chr" \in Class
    BY DEF Class
  <2>1. CASE Chronicle
    <3>1. CommonOf(5, "chr") = ChroniclePool[5]["chr"] /\ (cfg.do5050 >= 0 => shown)
      BY <2>1 DEF Chronicle, CommonOf, WeaponBanner
    <3>2. entries = Numbered(5, ChronicleCourses, CoursesOf("chr"))
      BY <2>1
    <3> HIDE DEF entries, shown
    <3>3. ASSUME NEW it \in ChroniclePool[5]["chr"] PROVE \E e \in entries : e.star = 5 /\ e.item = it
      <4>1. PICK n \in CoursesOf("chr") : it = ChronicleCourses[n]
        BY <2>0, CoursesListed
      <4>2. QED BY <3>2, <4>1, NumberedEntries
    <3>4. QED BY <3>1, <3>3
  <2>2. CASE ~Chronicle
    <3> DEFINE items == {FiveStarChr[k] : k \in 1..FiveStarMaxIndex[cfg.stdPoolIndex]}
    <3>1. cfg.banner # "CHRONICLED" /\ entries = Plainly(5, items)
      BY <2>2 DEF Chronicle
    <3>2. CommonOf(5, "chr") = IF ~(cfg.banner \in WeaponBanner) THEN items ELSE {}
      BY <2>2 DEF Chronicle, CommonOf, StdFiveStarChr
    <3>3. (~(cfg.banner \in WeaponBanner)) /\ cfg.do5050 >= 0 => shown
      BY DEF WeaponBanner
    <3> HIDE DEF entries, shown, items
    <3>4. \A it \in items : \E e \in Plainly(5, items) : e.star = 5 /\ e.item = it
      BY PlainEntries
    <3>5. QED BY <3>1, <3>2, <3>3, <3>4
  <2>3. QED BY <2>1, <2>2
<1> HIDE DEF entries, shown
<1>3. cfg' = cfg /\ listed \subseteq listed'
  BY <1>1 DEF Lists, vars
<1>4. ASSUME cfg.do5050 >= 0, NEW it \in CommonOf(5, "chr") PROVE Has(5, it)'
  BY <1>1, <1>2, <1>4, NewlyListed
<1>5. Printed(2)'
  BY <1>3, <1>4, Kept DEF Printed
<1>6. Sections[2] = "chr5" /\ Sections[2 + 1] = "wpn5"
  BY DEF Sections
<1>7. QED BY <1>1, <1>5, <1>6, SectionStep

LEMMA FiveStarWeaponsStep ==
  ASSUME ListInv, ListFiveStarWeapons
  PROVE  ListInv'
<1> DEFINE shown == /\ cfg.banner \notin {"CHAR1", "CHAR2", "NOVICE", "STD_ONLY_CHR"}
                    /\ cfg.do5050 >= 0
           entries == IF Chronicle THEN Numbered(5, ChronicleCourses, CoursesOf("wpn"))
                      ELSE Plainly(5, FiveStarWpn)
<1>1. Lists("wpn5", "chr4", shown, entries)
  BY DEF ListFiveStarWeapons
<1>2. cfg.do5050 >= 0 => \A it \in CommonOf(5, "wpn") : shown /\ \E e \in entries : e.star = 5 /\ e.item = it
  <2>0. "wpn" \in Class
    BY DEF Class
  <2>1. CASE Chronicle
    <3>1. CommonOf(5, "wpn") = ChroniclePool[5]["wpn"] /\ (cfg.do5050 >= 0 => shown)
      BY <2>1 DEF Chronicle, CommonOf, WeaponBanner
    <3>2. entries = Numbered(5, ChronicleCourses, CoursesOf("wpn"))
      BY <2>1
    <3> HIDE DEF entries, shown
    <3>3. ASSUME NEW it \in ChroniclePool[5]["wpn"] PROVE \E e \in entries : e.star = 5 /\ e.item = it
      <4>1. PICK n \in CoursesOf("wpn") : it = ChronicleCourses[n]
        BY <2>0, CoursesListed
      <4>2. QED BY <3>2, <4>1, NumberedEntries
    <3>4. QED BY <3>1, <3>3
  <2>2. CASE ~Chronicle
    <3> DEFINE items == FiveStarWpn
    <3>1. cfg.banner # "CHRONICLED" /\ entries = Plainly(5, items)
      BY <2>2 DEF Chronicle
    <3>2. CommonOf(5, "wpn") = IF cfg.banner \in {"WPN", "STD_WPN", "STD_CHR"} THEN items ELSE {}
      BY <2>2 DEF Chronicle, CommonOf, StdFiveStarChr
    <3>3. (cfg.banner \in {"WPN", "STD_WPN", "STD_CHR"}) /\ cfg.do5050 >= 0 => shown
      BY DEF WeaponBanner
    <3> HIDE DEF entries, shown, items
    <3>4. \A it \in items : \E e \in Plainly(5, items) : e.star = 5 /\ e.item = it
      BY PlainEntries
    <3>5. QED BY <3>1, <3>2, <3>3, <3>4
  <2>3. QED BY <2>1, <2>2
<1> HIDE DEF entries, shown
<1>3. cfg' = cfg /\ listed \subseteq listed'
  BY <1>1 DEF Lists, vars
<1>4. ASSUME cfg.do5050 >= 0, NEW it \in CommonOf(5, "wpn") PROVE Has(5, it)'
  BY <1>1, <1>2, <1>4, NewlyListed
<1>5. Printed(3)'
  BY <1>3, <1>4, Kept DEF Printed
<1>6. Sections[3] = "wpn5" /\ Sections[3 + 1] = "chr4"
  BY DEF Sections
<1>7. QED BY <1>1, <1>5, <1>6, SectionStep

LEMMA FourStarCharactersStep ==
  ASSUME ListInv, ListFourStarCharacters
  PROVE  ListInv'
<1> DEFINE shown == cfg.do5050 >= 0
           entries == LET first == IF cfg.banner \in {"STD_CHR", "STD_ONLY_CHR", "STD_WPN"} THEN 1 ELSE 4
                      IN  IF Chronicle THEN Plainly(4, ChroniclePool[4]["chr"])
                          ELSE Plainly(4, {FourStarChr[k] : k \in first..(FourStarMaxIndex[cfg.stdPoolIndex] + 3)})
<1>1. Lists("chr4", "wpn4", shown, entries)
  BY DEF ListFourStarCharacters
<1>2. cfg.do5050 >= 0 => \A it \in CommonOf(4, "chr") : shown /\ \E e \in entries : e.star = 4 /\ e.item = it
  <2> DEFINE max == FourStarMaxIndex[cfg.stdPoolIndex]
             first == IF cfg.banner \in {"STD_CHR", "STD_ONLY_CHR", "STD_WPN"} THEN 1 ELSE 4
             items == IF Chronicle THEN ChroniclePool[4]["chr"] ELSE {FourStarChr[k] : k \in first..(max + 3)}
  <2>1. entries = Plainly(4, items)
    OBVIOUS
  <2>2. CommonOf(4, "chr") \subseteq items
    <3>1. CASE Chronicle
      BY <3>1 DEF Chronicle, CommonOf
    <3>2. CASE ~Chronicle /\ cfg.banner \in Standard
      <4>1. items = StdFourStarChr
        BY <3>2 DEF StdFourStarChr, Standard
      <4>2. CommonOf(4, "chr") = StdFourStarChr
        BY <3>2 DEF Chronicle, CommonOf
      <4>3. QED BY <4>1, <4>2
    <3>3. CASE ~Chronicle /\ cfg.banner \notin Standard
      <4>1. CommonOf(4, "chr") = EventFourStarChr
        BY <3>3 DEF Chronicle, CommonOf
      <4>2. items = {FourStarChr[k] : k \in 4..(max + 3)}
        BY <3>3 DEF Standard
      <4>3. max \in Nat
        BY IndexAssumption DEF ListInv, TypeOK, Config
      <4>4. \A i \in 1..max : i + 3 \in 4..(max + 3)
        BY <4>3
      <4> HIDE DEF max, items
      <4>5. EventFourStarChr = {FourStarChr[i + 3] : i \in 1..max}
        BY DEF EventFourStarChr, max
      <4>6. QED BY <4>1, <4>2, <4>4, <4>5
    <3>4. QED BY <3>1, <3>2, <3>3
  <2> HIDE DEF items, entries
  <2>3. \A it \in items : \E e \in Plainly(4, items) : e.star = 4 /\ e.item = it
    BY PlainEntries
  <2>4. QED BY <2>1, <2>2, <2>3
<1> HIDE DEF entries, shown
<1>3. cfg' = cfg /\ listed \subseteq listed'
  BY <1>1 DEF Lists, vars
<1>4. ASSUME cfg.do5050 >= 0, NEW it \in CommonOf(4, "chr") PROVE Has(4, it)'
  BY <1>1, <1>2, <1>4, NewlyListed
<1>5. Printed(4)'
  BY <1>3, <1>4, Kept DEF Printed
<1>6. Sections[4] = "chr4" /\ Sections[4 + 1] = "wpn4"
  BY DEF Sections
<1>7. QED BY <1>1, <1>5, <1>6, SectionStep

LEMMA FourStarWeaponsStep ==
  ASSUME ListInv, ListFourStarWeapons
  PROVE  ListInv'
<1> DEFINE shown == cfg.banner # "NOVICE" /\ cfg.do5050 >= 0
           entries == Plainly(4, IF Chronicle THEN ChroniclePool[4]["wpn"] ELSE FourStarWpn)
<1>1. Lists("wpn4", "wpn3", shown, entries)
  BY DEF ListFourStarWeapons
<1>2. cfg.do5050 >= 0 => \A it \in CommonOf(4, "wpn") : shown /\ \E e \in entries : e.star = 4 /\ e.item = it
  <2> DEFINE items == IF Chronicle THEN ChroniclePool[4]["wpn"] ELSE FourStarWpn
  <2>1. entries = Plainly(4, items)
    OBVIOUS
  <2>2. CommonOf(4, "wpn") = IF cfg.banner = "NOVICE" THEN {} ELSE items
    BY DEF Chronicle, CommonOf
  <2> HIDE DEF items, entries
  <2>3. \A it \in items : \E e \in Plainly(4, items) : e.star = 4 /\ e.item = it
    BY PlainEntries
  <2>4. QED BY <2>1, <2>2, <2>3
<1> HIDE DEF entries, shown
<1>3. cfg' = cfg /\ listed \subseteq listed'
  BY <1>1 DEF Lists, vars
<1>4. ASSUME cfg.do5050 >= 0, NEW it \in CommonOf(4, "wpn") PROVE Has(4, it)'
  BY <1>1, <1>2, <1>4, NewlyListed
<1>5. Printed(5)'
  BY <1>3, <1>4, Kept DEF Printed
<1>6. Sections[5] = "wpn4" /\ Sections[5 + 1] = "wpn3"
  BY DEF Sections
<1>7. QED BY <1>1, <1>5, <1>6, SectionStep

LEMMA ThreeStarWeaponsStep ==
  ASSUME ListInv, ListThreeStarWeapons
  PROVE  ListInv'
<1> DEFINE shown == cfg.do5050 >= 0
           entries == Plainly(3, ThreeStar)
<1>1. Lists("wpn3", "end", shown, entries)
  BY DEF ListThreeStarWeapons
<1>2. cfg.do5050 >= 0 => \A it \in ThreeStar : shown /\ \E e \in entries : e.star = 3 /\ e.item = it
  BY PlainEntries
<1> HIDE DEF entries, shown
<1>3. cfg' = cfg /\ listed \subseteq listed'
  BY <1>1 DEF Lists, vars
<1>4. ASSUME cfg.do5050 >= 0, NEW it \in ThreeStar PROVE Has(3, it)'
  BY <1>1, <1>2, <1>4, NewlyListed
<1>5. Printed(6)'
  BY <1>3, <1>4, Kept DEF Printed
<1>6. Sections[6] = "wpn3" /\ Sections[6 + 1] = "end"
  BY DEF Sections
<1>7. QED BY <1>1, <1>5, <1>6, SectionStep


-----------------------------------------------------------------------------
\* -d of a banner and the wishes on it agree for every table and every legal
\* state: whatever drops was listed (yagiws.c 687-870 and gacha.c 166-594).
THEOREM NothingUnlistedCorrect ==
  ASSUME WeaponCourseGiven
  PROVE  SpecD => []NothingUnlisted
<1>1. InitD => ListInv
  <2>1. SUFFICES ASSUME InitD PROVE ListInv
    OBVIOUS
  <2>2. TypeOK
    BY <2>1, InitType DEF InitD
  <2>3. CourseOffered
    <3>1. PICK g \in Given : cfg = g.cfg
      BY <2>1 DEF InitD, Init
    <3>2. Legal(g) /\ (g.cfg.banner = "WPN" => g.cfg.epitomizedPath # NoItem)
      BY GivenAssumption DEF WeaponCourseGiven
    <3>3. QED BY <3>1, <3>2 DEF Legal, CourseOffered
  <2>4. \A k \in 1..6 : ~Past(k)
    BY <2>1 DEF InitD, Past, Sections
  <2>5. wishes = 0
    BY <2>1 DEF InitD
  <2>6. QED BY <2>2, <2>3, <2>4, <2>5 DEF ListInv, Listing
<1>2. ListInv /\ [NextD]_varsD => ListInv'
  <2> SUFFICES ASSUME ListInv, [NextD]_varsD PROVE ListInv'
    OBVIOUS
  <2>1. ASSUME \/ ListFeatured \/ ListFiveStarCharacters \/ ListFiveStarWeapons
               \/ ListFourStarCharacters \/ ListFourStarWeapons \/ ListThreeStarWeapons
        PROVE  ListInv'
    BY <2>1, FeaturedStep, FiveStarCharactersStep, FiveStarWeaponsStep,
       FourStarCharactersStep, FourStarWeaponsStep, ThreeStarWeaponsStep
  <2>2. CASE WishAfter
    <3>1. section = "end" /\ Next /\ wishes' = wishes + 1 /\ section' = section /\ listed' = listed
      BY <2>2 DEF WishAfter
    <3>2. cfg' = cfg /\ Drops(rare', item')
      BY <3>1, PullDrops DEF ListInv
    <3>3. TypeOK'
      BY <3>1, PullType DEF ListInv, TypeOK, Stable, Next
    <3>4. CourseOffered'
      BY <3>2 DEF ListInv, CourseOffered
    <3>5. Drops(rare, item)'
      BY <3>2, Kept, <3>1 DEF Drops
    <3>6. Listing'
      BY <3>1, <3>2, ListingStays DEF ListInv
    <3>7. QED BY <3>1, <3>3, <3>4, <3>5, <3>6 DEF ListInv
  <2>3. CASE UNCHANGED varsD
    <3>1. /\ UNCHANGED vars /\ section' = section /\ listed' = listed /\ wishes' = wishes
      BY <2>3 DEF varsD
    <3>2. cfg' = cfg /\ rare' = rare /\ item' = item
      BY <3>1 DEF vars
    <3>3. TypeOK' /\ CourseOffered'
      BY <3>1 DEF vars, ListInv, TypeOK, CourseOffered
    <3>4. Drops(rare, item) => Drops(rare, item)'
      BY <3>1, <3>2, Kept DEF Drops
    <3>5. Listing'
      BY <3>1, <3>2, ListingStays DEF ListInv
    <3>6. QED BY <3>1, <3>3, <3>4, <3>5 DEF ListInv
  <2>4. QED BY <2>1, <2>2, <2>3 DEF NextD
<1>3. ListInv => NothingUnlisted
  BY ListedIsEnough
<1>4. QED BY <1>1, <1>2, <1>3, PTL DEF SpecD

-----------------------------------------------------------------------------
(* The numbers beside the courses. *)

\* What -e takes for a number, and which numbers it refuses.
LEMMA CourseTaken ==
  ASSUME NEW n \in Nat \ {0}
  PROVE  /\ cfg.banner = "WPN" => Line(n)!EpitomizedPath = WpnUpCourses[n]
         /\ cfg.banner = "CHRONICLED" => Line(n)!EpitomizedPath = ChronicleCourses[n]
         /\ cfg.banner = "WPN" => (Line(n)!NoSuchCourse <=> n > 2)
         /\ cfg.banner = "CHRONICLED" => (Line(n)!NoSuchCourse <=> n > Len(ChronicleCourses))
<1>1. Line(n)!Version = <<5, 3, 2>>
  BY DEF Line!Version, Line!Newest
<1>2. Line(n)!Squeezed(83) = 53
  BY DEF Line!Squeezed
<1>3. Line(n)!Row(<<5, 3, 2>>) = 77
  BY <1>2 DEF Line!Row
<1>4. Line(n)!Row(Line(n)!Version) >= 0
  BY <1>1, <1>3
<1>5. QED BY <1>4 DEF Line!EpitomizedPath, Line!NoSuchCourse

\* The options are those of the start, whatever is pulled.
LEMMA PullKeepsOptions == Next => cfg' = cfg
<1>1. \A ps : FiveStar(ps) => cfg' = cfg
  BY DEF FiveStar, FiveStarDrop, FiveStarCharacterEvent, FiveStarWeaponEvent, FiveStarChroniclePath,
         FiveStarChronicle, FiveStarOnlyCharacters, FiveStarOnlyWeapons, FiveStarStandard
<1>2. \A ps : FourStar(ps) => cfg' = cfg
  BY DEF FourStar, FourStarDrop, FourStarCharacterEvent, FourStarWeaponEvent, FourStarChronicle,
         FourStarNovice, FourStarStandard
<1>3. \A ps : ThreeStarDrop(ps) => cfg' = cfg
  BY DEF ThreeStarDrop
<1>4. QED BY <1>1, <1>2, <1>3 DEF Next, DoAPull

\* A number stands beside the course it counts.
RightNumber(e) ==
  e.number # 0 =>
    /\ e.number \in Nat
    /\ \/ cfg.banner = "WPN" /\ e.item = WpnUpCourses[e.number]
       \/ cfg.banner = "CHRONICLED" /\ e.item = ChronicleCourses[e.number]

Listed(n) == \E e \in listed : e.number = n

\* The courses a section must number, by its place.
Courses(k) ==
  IF k = 1 /\ cfg.banner = "WPN" THEN 1..2
  ELSE IF k = 2 /\ Chronicle /\ cfg.do5050 >= 0 THEN CoursesOf("chr")
  ELSE IF k = 3 /\ Chronicle /\ cfg.do5050 >= 0 THEN CoursesOf("wpn") ELSE {}

NumberInv ==
  /\ \A e \in listed : RightNumber(e)
  /\ \A k \in 1..3 : Past(k) => \A n \in Courses(k) : Listed(n)

LEMMA NumbersChart == NumberInv => NumberCharts
<1> SUFFICES ASSUME NumberInv, section = "end"
             PROVE  /\ \A e \in listed : e.number # 0 => Line(e.number)!EpitomizedPath = e.item
                    /\ (cfg.banner = "WPN" \/ (Chronicle /\ cfg.do5050 >= 0)) =>
                         \A n \in 1..20 : ~Line(n)!NoSuchCourse => Listed(n)
  BY DEF NumberCharts, Listed
<1>1. ASSUME NEW e \in listed, e.number # 0 PROVE Line(e.number)!EpitomizedPath = e.item
  <2>1. /\ e.number \in Nat
        /\ \/ cfg.banner = "WPN" /\ e.item = WpnUpCourses[e.number]
           \/ cfg.banner = "CHRONICLED" /\ e.item = ChronicleCourses[e.number]
    BY <1>1 DEF NumberInv, RightNumber
  <2>2. e.number \in Nat \ {0}
    BY <1>1, <2>1
  <2>3. QED BY <2>1, <2>2, CourseTaken
<1>2. Past(1) /\ Past(2) /\ Past(3)
  BY DEF Past, Sections
<1>3. ASSUME cfg.banner = "WPN", NEW n \in 1..20, ~Line(n)!NoSuchCourse PROVE Listed(n)
  <2>1. ~(n > 2)
    BY <1>3, CourseTaken
  <2>2. n \in 1..2
    BY <1>3, <2>1
  <2>3. 1 \in 1..3 /\ Courses(1) = 1..2
    BY <1>3 DEF Courses
  <2>4. QED BY <1>2, <2>2, <2>3 DEF NumberInv
<1>4. ASSUME Chronicle, cfg.do5050 >= 0, NEW n \in 1..20, ~Line(n)!NoSuchCourse PROVE Listed(n)
  <2>1. ~(n > Len(ChronicleCourses))
    BY <1>4, CourseTaken DEF Chronicle
  <2>2. n \in DOMAIN ChronicleCourses
    <3>1. ChronicleCourses \in Seq(Items)
      BY CountedAssumption
    <3>2. QED BY <1>4, <2>1, <3>1
  <2>3. n \in CoursesOf("chr") \cup CoursesOf("wpn")
    BY <2>2 DEF CoursesOf, ClassOf
  <2>4. 2 \in 1..3 /\ 3 \in 1..3 /\ Courses(2) = CoursesOf("chr") /\ Courses(3) = CoursesOf("wpn")
    BY <1>4 DEF Courses
  <2>5. QED BY <1>2, <2>3, <2>4 DEF NumberInv
<1>5. QED BY <1>1, <1>3, <1>4

LEMMA NumbersStay ==
  ASSUME cfg' = cfg
  PROVE  /\ \A e : RightNumber(e)' <=> RightNumber(e)
         /\ \A k : Courses(k)' = Courses(k)
<1>1. \A e : RightNumber(e)' <=> RightNumber(e)
  BY DEF RightNumber
<1>2. \A k : Courses(k)' = Courses(k)
  BY DEF Courses, Chronicle, CoursesOf
<1>3. QED BY <1>1, <1>2

LEMMA NumberStep ==
  ASSUME NumberInv, NEW k \in 1..6, NEW shown, NEW entries,
         Lists(Sections[k], Sections[k + 1], shown, entries),
         \A e \in entries : shown => RightNumber(e),
         \A n \in Courses(k) : shown /\ \E e \in entries : e.number = n
  PROVE  NumberInv'
<1>1. /\ section = Sections[k] /\ section' = Sections[k + 1] /\ cfg' = cfg
      /\ listed' = listed \cup (IF shown THEN entries ELSE {})
  BY DEF Lists, vars
<1>2. \A n \in 1..6 : Past(n)' => n = k \/ Past(n)
  BY <1>1 DEF Past, Sections
<1>3. \A e \in listed' : RightNumber(e)'
  BY <1>1, NumbersStay DEF NumberInv
<1>4. ASSUME NEW j \in 1..3, Past(j)', NEW n \in Courses(j)' PROVE Listed(n)'
  <2>1. n \in Courses(j)
    BY <1>1, NumbersStay
  <2>2. CASE j = k
    BY <1>1, <2>1, <2>2 DEF Listed
  <2>3. CASE Past(j)
    <3>1. Listed(n)
      BY <2>1, <2>3 DEF NumberInv
    <3>2. QED BY <1>1, <3>1 DEF Listed
  <2>4. QED BY <1>2, <1>4, <2>2, <2>3
<1>5. QED BY <1>3, <1>4 DEF NumberInv

\* The numbers the two ways of printing leave.
LEMMA NumbersPrinted ==
  /\ \A r, items : \A e \in Plainly(r, items) : RightNumber(e)
  /\ \A r, items, places : /\ \A e \in Numbered(r, items, places) :
                                 e.number \in places /\ e.item = items[e.number]
                           /\ \A n \in places : \E e \in Numbered(r, items, places) : e.number = n
<1>1. \A r, items : \A e \in Plainly(r, items) : e.number = 0
  BY DEF Plainly
<1>2. ASSUME NEW r, NEW items, NEW places
      PROVE  /\ \A e \in Numbered(r, items, places) :
                   e.number \in places /\ e.item = items[e.number]
             /\ \A n \in places : \E e \in Numbered(r, items, places) : e.number = n
  <2>1. \A n \in places : [star |-> r, item |-> items[n], number |-> n] \in Numbered(r, items, places)
    BY DEF Numbered
  <2>2. \A e \in Numbered(r, items, places) : e.number \in places /\ e.item = items[e.number]
    BY DEF Numbered
  <2>3. \A n \in places : [star |-> r, item |-> items[n], number |-> n].number = n
    OBVIOUS
  <2>4. \A n \in places : \E e \in Numbered(r, items, places) : e.number = n
    BY <2>1, <2>3
  <2>5. QED BY <2>2, <2>4
<1>3. QED BY <1>1, <1>2 DEF RightNumber

\* The 5-star sections of the Chronicled Wish number its courses.
LEMMA ChronicleNumbers ==
  ASSUME NumberInv, NEW k \in 2..3, NEW c \in Class, NEW shown \in BOOLEAN, NEW items,
         c = IF k = 2 THEN "chr" ELSE "wpn",
         Chronicle => (shown <=> cfg.do5050 >= 0),
         Lists(Sections[k], Sections[k + 1], shown,
               IF Chronicle THEN Numbered(5, ChronicleCourses, CoursesOf(c)) ELSE Plainly(5, items))
  PROVE  NumberInv'
<1> DEFINE entries == IF Chronicle THEN Numbered(5, ChronicleCourses, CoursesOf(c)) ELSE Plainly(5, items)
<1>1. CoursesOf(c) \subseteq Nat
  <2>1. ChronicleCourses \in Seq(Items)
    BY CountedAssumption
  <2>2. DOMAIN ChronicleCourses \subseteq Nat
    BY <2>1
  <2>3. QED BY <2>2 DEF CoursesOf
<1>2. \A e \in entries : RightNumber(e)
  <2>1. CASE Chronicle
    BY <1>1, <2>1, NumbersPrinted DEF RightNumber, Chronicle
  <2>2. CASE ~Chronicle
    BY <2>2, NumbersPrinted
  <2>3. QED BY <2>1, <2>2
<1>3. \A n \in Courses(k) : shown /\ \E e \in entries : e.number = n
  <2>1. SUFFICES ASSUME NEW n \in Courses(k) PROVE shown /\ \E e \in entries : e.number = n
    OBVIOUS
  <2>2. Chronicle /\ cfg.do5050 >= 0 /\ n \in CoursesOf(c)
    BY <2>1 DEF Courses
  <2>3. entries = Numbered(5, ChronicleCourses, CoursesOf(c))
    BY <2>2
  <2> HIDE DEF entries
  <2>4. QED BY <2>2, <2>3, NumbersPrinted
<1> HIDE DEF entries
<1>4. Lists(Sections[k], Sections[k + 1], shown, entries)
  BY DEF entries
<1>5. k \in 1..6
  OBVIOUS
<1>6. QED BY <1>2, <1>3, <1>4, <1>5, NumberStep

\* "Chart a course by passing -e x": the number beside an item is the course -e
\* takes it for, and every course has a number (yagiws.c 604-624, 733 and 806).
THEOREM NumbersCorrect == SpecD => []NumberCharts
<1>1. InitD => NumberInv
  <2>1. InitD => \A k \in 1..3 : ~Past(k)
    BY DEF InitD, Past, Sections
  <2>2. QED BY <2>1 DEF InitD, NumberInv
<1>2. NumberInv /\ [NextD]_varsD => NumberInv'
  <2> SUFFICES ASSUME NumberInv, [NextD]_varsD PROVE NumberInv'
    OBVIOUS
  <2>1. CASE ListFeatured
    <3> DEFINE shown == cfg.banner \in {"CHAR1", "CHAR2", "WPN"}
               plain == Plainly(5, IF cfg.banner = "CHAR1" THEN {FiveStarChrUp["CHAR1"]}
                                   ELSE {FiveStarChrUp["CHAR2"]}) \cup Plainly(4, FourStarChrUp)
               entries == IF cfg.banner = "WPN"
                          THEN Numbered(5, WpnUpCourses, 1..2) \cup Plainly(4, FourStarWpnUp)
                          ELSE plain
    <3>1. Lists(Sections[1], Sections[1 + 1], shown, entries)
      <4>1. Lists("featured", "chr5", shown, entries)
        BY <2>1 DEF ListFeatured
      <4>2. QED BY <4>1 DEF Sections
    <3>2. \A e \in plain : RightNumber(e)
      BY NumbersPrinted
    <3> HIDE DEF plain
    <3>3. CASE cfg.banner = "WPN"
      <4>1. \A e \in Numbered(5, WpnUpCourses, 1..2) : RightNumber(e)
        BY <3>3, NumbersPrinted DEF RightNumber
      <4>2. \A e \in entries : RightNumber(e)
        BY <3>3, <4>1, NumbersPrinted
      <4>3. \A n \in 1..2 : \E e \in entries : e.number = n
        BY <3>3, NumbersPrinted
      <4>4. Courses(1) = 1..2 /\ shown
        BY <3>3 DEF Courses
      <4> HIDE DEF entries, shown
      <4>5. 1 \in 1..6 /\ \A n \in Courses(1) : shown /\ \E e \in entries : e.number = n
        BY <4>3, <4>4
      <4>6. QED BY <3>1, <4>2, <4>5, NumberStep
    <3>4. CASE cfg.banner # "WPN"
      <4>1. Courses(1) = {} /\ \A e \in entries : RightNumber(e)
        BY <3>2, <3>4 DEF Courses
      <4> HIDE DEF entries, shown
      <4>2. QED BY <3>1, <4>1, NumberStep
    <3>5. QED BY <3>3, <3>4
  <2>2. CASE ListFiveStarCharacters
    <3> DEFINE shown == cfg.banner \notin WeaponBanner /\ cfg.do5050 >= 0
               items == {FiveStarChr[k] : k \in 1..FiveStarMaxIndex[cfg.stdPoolIndex]}
    <3>1. Lists(Sections[2], Sections[2 + 1], shown,
                IF Chronicle THEN Numbered(5, ChronicleCourses, CoursesOf("chr")) ELSE Plainly(5, items))
      BY <2>2 DEF ListFiveStarCharacters, Sections
    <3>2. (Chronicle => (shown <=> cfg.do5050 >= 0)) /\ shown \in BOOLEAN
      BY DEF Chronicle, WeaponBanner
    <3> HIDE DEF shown, items
    <3>3. QED BY <3>1, <3>2, ChronicleNumbers DEF Class
  <2>3. CASE ListFiveStarWeapons
    <3> DEFINE shown == /\ cfg.banner \notin {"CHAR1", "CHAR2", "NOVICE", "STD_ONLY_CHR"}
                        /\ cfg.do5050 >= 0
    <3>1. Lists(Sections[3], Sections[3 + 1], shown,
                IF Chronicle THEN Numbered(5, ChronicleCourses, CoursesOf("wpn")) ELSE Plainly(5, FiveStarWpn))
      <4>1. Lists("wpn5", "chr4", shown,
                  IF Chronicle THEN Numbered(5, ChronicleCourses, CoursesOf("wpn"))
                  ELSE Plainly(5, FiveStarWpn))
        BY <2>3 DEF ListFiveStarWeapons
      <4>2. Sections[3] = "wpn5" /\ Sections[3 + 1] = "chr4"
        BY DEF Sections
      <4>3. QED BY <4>1, <4>2, Zenon
    <3>2. (Chronicle => (shown <=> cfg.do5050 >= 0)) /\ shown \in BOOLEAN
      BY DEF Chronicle
    <3> HIDE DEF shown
    <3>3. QED BY <3>1, <3>2, ChronicleNumbers DEF Class
  <2>4. CASE ListFourStarCharacters
    <3> DEFINE entries ==
               LET first == IF cfg.banner \in {"STD_CHR", "STD_ONLY_CHR", "STD_WPN"} THEN 1 ELSE 4
               IN  IF Chronicle THEN Plainly(4, ChroniclePool[4]["chr"])
                   ELSE Plainly(4, {FourStarChr[k] : k \in first..(FourStarMaxIndex[cfg.stdPoolIndex] + 3)})
    <3>1. Lists("chr4", "wpn4", cfg.do5050 >= 0, entries)
      BY <2>4 DEF ListFourStarCharacters
    <3>2. (\A e \in entries : RightNumber(e)) /\ Courses(4) = {}
      BY NumbersPrinted DEF Courses
    <3> HIDE DEF entries
    <3>3. QED BY <3>1, <3>2, NumberStep DEF Sections
  <2>5. CASE ListFourStarWeapons
    <3> DEFINE entries == Plainly(4, IF Chronicle THEN ChroniclePool[4]["wpn"] ELSE FourStarWpn)
    <3>1. Lists("wpn4", "wpn3", cfg.banner # "NOVICE" /\ cfg.do5050 >= 0, entries)
      BY <2>5 DEF ListFourStarWeapons
    <3>2. (\A e \in entries : RightNumber(e)) /\ Courses(5) = {}
      BY NumbersPrinted DEF Courses
    <3> HIDE DEF entries
    <3>3. QED BY <3>1, <3>2, NumberStep DEF Sections
  <2>6. CASE ListThreeStarWeapons
    <3> DEFINE entries == Plainly(3, ThreeStar)
    <3>1. Lists("wpn3", "end", cfg.do5050 >= 0, entries)
      BY <2>6 DEF ListThreeStarWeapons
    <3>2. (\A e \in entries : RightNumber(e)) /\ Courses(6) = {}
      BY NumbersPrinted DEF Courses
    <3> HIDE DEF entries
    <3>3. QED BY <3>1, <3>2, NumberStep DEF Sections
  <2>7. CASE WishAfter \/ UNCHANGED varsD
    <3>1. cfg' = cfg /\ section' = section /\ listed' = listed
      BY <2>7, PullKeepsOptions DEF WishAfter, varsD, vars
    <3>2. \A k : Past(k)' <=> Past(k)
      BY <3>1 DEF Past
    <3>3. \A n : Listed(n)' <=> Listed(n)
      BY <3>1 DEF Listed
    <3>4. QED BY <3>1, <3>2, <3>3, NumbersStay DEF NumberInv
  <2>8. QED BY <2>1, <2>2, <2>3, <2>4, <2>5, <2>6, <2>7 DEF NextD
<1>3. QED BY <1>1, <1>2, NumbersChart, PTL DEF SpecD

-----------------------------------------------------------------------------
(* The names. *)

\* Every item of the tables that a banner lists.
TableItems ==
  {FiveStarChrUp["CHAR1"], FiveStarChrUp["CHAR2"]} \cup FourStarChrUp
    \cup FiveStarWpnUp \cup FourStarWpnUp \cup FiveStarWpn \cup FourStarWpn \cup ThreeStar
    \cup {FiveStarChr[k] : k \in DOMAIN FiveStarChr} \cup {FourStarChr[k] : k \in DOMAIN FourStarChr}
    \cup UNION {ChroniclePool[r][c] : r \in Star, c \in Class}

Characters == 1000..1099 \cup 4100..4109
WeaponIds  == 10000..19999

\* The tables hold characters and weapons that the lists of names know.
TablesNamed ==
  /\ TableItems \subseteq Characters \cup WeaponIds
  /\ \A it \in TableItems : GetItem(it) # NoName

PlaceOf(id) == IF id < 1100 THEN id - 1000 ELSE id - 4000

LEMMA CharacterName ==
  ASSUME NEW id \in Characters, GetItem(id) # NoName
  PROVE  GetItem(id) = <<"character", 0, PlaceOf(id)>>
<1>1. id \in Int /\ (id \in 1000..1099 \/ id \in 4100..4109)
  BY DEF Characters
<1>2. GetCharacter(id) = Named("character", 0, PlaceOf(id), ChrList)
  <2>1. CASE id \in 1000..1099
    <3>1. PlaceOf(id) = id - 1000
      BY <2>1 DEF PlaceOf
    <3>2. QED BY <2>1, <3>1 DEF GetCharacter
  <2>2. CASE id \in 4100..4109
    <3>1. PlaceOf(id) = id - 4000 /\ ~(id \in 1000..1099) /\ ~(id \in 1100..1199)
      BY <2>2 DEF PlaceOf
    <3>2. QED BY <2>2, <3>1 DEF GetCharacter
  <2>3. QED BY <1>1, <2>1, <2>2
<1>3. id \div 10000 # 1 /\ id \div 1000 \notin 20..99
  BY <1>1
<1>4. GetWeapon(id) = NoName /\ GetArtifact(id) = NoName
  BY <1>3 DEF GetWeapon, GetArtifact
<1>5. GetItem(id) = GetCharacter(id)
  BY <1>4 DEF GetItem
<1>6. QED BY <1>2, <1>5 DEF Named

WeaponType(id)  == (id \div 1000) % 10
WeaponStars(id) == (id \div 100) % 10

LEMMA WeaponName ==
  ASSUME NEW id \in WeaponIds, GetItem(id) # NoName
  PROVE  /\ GetItem(id) = <<"weapon", 10 * WeaponType(id) + WeaponStars(id), (id % 100) - 1>>
         /\ WeaponType(id) \in 1..5 /\ WeaponStars(id) \in 1..5
<1>1. id \in Int /\ id \in 10000..19999
  BY DEF WeaponIds
<1>2. GetCharacter(id) = NoName
  <2>1. id \in Int /\ id > 5109
    BY <1>1
  <2>2. /\ ~(id \in 1000..1099) /\ ~(id \in 1100..1199)
        /\ ~(id \in 4100..4109) /\ ~(id \in 5100..5109)
    BY <2>1
  <2>3. QED BY <2>2 DEF GetCharacter
<1>3. id \div 1000 \notin 20..99
  <2>1. id \in Int /\ 10000 <= id /\ id <= 19999
    BY <1>1
  <2>2. id \div 1000 \in Int /\ id \div 1000 <= 19
    BY <2>1
  <2>3. QED BY <2>2
<1>4. GetArtifact(id) = NoName
  BY <1>3 DEF GetArtifact
<1>5. GetItem(id) = GetWeapon(id)
  BY <1>2, <1>4 DEF GetItem
<1>6. QED BY <1>5 DEF GetWeapon, WeaponType, WeaponStars, Named

\* A weapon is known by its type, its stars and its last two digits.
LEMMA WeaponDigits ==
  ASSUME NEW id \in WeaponIds
  PROVE  id = 10000 + 1000 * WeaponType(id) + 100 * WeaponStars(id) + (id % 100)
<1>1. id \in Int /\ id \in 10000..19999
  BY DEF WeaponIds
<1>2. id = 100 * (id \div 100) + (id % 100)
  BY <1>1, SMTT(30)
<1>3. id \div 100 = 10 * (id \div 1000) + WeaponStars(id)
  BY <1>1 DEF WeaponStars
<1>4. id \div 1000 = 10 + WeaponType(id)
  BY <1>1 DEF WeaponType
<1>5. WeaponType(id) \in Int /\ WeaponStars(id) \in Int /\ id \div 100 \in Int /\ id % 100 \in Int
  BY <1>1 DEF WeaponType, WeaponStars
<1>6. QED BY <1>1, <1>2, <1>3, <1>4, <1>5

\* No two characters or weapons are shown by one name.
LEMMA OneNameEach ==
  ASSUME NEW d \in Characters \cup WeaponIds, NEW e \in Characters \cup WeaponIds,
         GetItem(e) # NoName, GetItem(d) = GetItem(e)
  PROVE  d = e
<1>1. CASE d \in Characters /\ e \in Characters
  <2>1. PlaceOf(d) = PlaceOf(e)
    BY <1>1, CharacterName
  <2>2. /\ d \in 1000..1099 \/ d \in 4100..4109
        /\ e \in 1000..1099 \/ e \in 4100..4109
    BY <1>1 DEF Characters
  <2>3. QED BY <2>1, <2>2 DEF PlaceOf
<1>2. CASE d \in WeaponIds /\ e \in WeaponIds
  <2>1. /\ 10 * WeaponType(d) + WeaponStars(d) = 10 * WeaponType(e) + WeaponStars(e)
        /\ (d % 100) - 1 = (e % 100) - 1
    BY <1>2, WeaponName
  <2>2. /\ WeaponType(d) \in 1..5 /\ WeaponStars(d) \in 1..5
        /\ WeaponType(e) \in 1..5 /\ WeaponStars(e) \in 1..5
    BY <1>2, WeaponName
  <2>3. d % 100 \in Int /\ e % 100 \in Int
    BY <1>2 DEF WeaponIds
  <2>4. WeaponType(d) = WeaponType(e) /\ WeaponStars(d) = WeaponStars(e) /\ d % 100 = e % 100
    BY <2>1, <2>2, <2>3
  <2>5. /\ d = 10000 + 1000 * WeaponType(d) + 100 * WeaponStars(d) + (d % 100)
        /\ e = 10000 + 1000 * WeaponType(e) + 100 * WeaponStars(e) + (e % 100)
    BY <1>2, WeaponDigits
  <2>6. QED BY <2>4, <2>5
<1>3. CASE d \in Characters /\ e \in WeaponIds
  BY <1>3, CharacterName, WeaponName
<1>4. CASE d \in WeaponIds /\ e \in Characters
  BY <1>4, CharacterName, WeaponName
<1>5. QED BY <1>1, <1>2, <1>3, <1>4

\* Only items of the tables are listed, from the pool of an index they have.
NameInv ==
  /\ cfg.stdPoolIndex \in PoolIndex
  /\ \A e \in listed : e.item \in TableItems

LEMMA FromTables ==
  ASSUME NEW star, NEW items \in SUBSET TableItems
  PROVE  \A e \in Plainly(star, items) : e.item \in TableItems
BY DEF Plainly

LEMMA CoursesFromTables ==
  ASSUME NEW star, NEW courses, NEW places \in SUBSET DOMAIN courses,
         \A k \in DOMAIN courses : courses[k] \in TableItems
  PROVE  \A e \in Numbered(star, courses, places) : e.item \in TableItems
BY DEF Numbered

LEMMA TablesListed ==
  /\ \A k \in DOMAIN WpnUpCourses : WpnUpCourses[k] \in TableItems
  /\ \A k \in DOMAIN ChronicleCourses : ChronicleCourses[k] \in TableItems
  /\ \A r \in Star, c \in Class : ChroniclePool[r][c] \in SUBSET TableItems
<1>1. \A r \in Star, c \in Class : ChroniclePool[r][c] \in SUBSET TableItems
  BY DEF TableItems
<1>2. \A k \in DOMAIN WpnUpCourses : WpnUpCourses[k] \in FiveStarWpnUp
  BY CountedAssumption
<1>3. \A k \in DOMAIN ChronicleCourses :
        ChronicleCourses[k] \in ChroniclePool[5]["chr"] \cup ChroniclePool[5]["wpn"]
  BY CountedAssumption
<1>4. 5 \in Star /\ "chr" \in Class /\ "wpn" \in Class
  BY DEF Star, Class
<1>5. QED BY <1>1, <1>2, <1>3, <1>4 DEF TableItems

LEMMA NamesStep ==
  ASSUME NameInv, NEW this, NEW next, NEW shown, NEW entries, Lists(this, next, shown, entries),
         \A e \in entries : e.item \in TableItems
  PROVE  NameInv'
<1>1. cfg' = cfg /\ listed' \subseteq listed \cup entries
  BY DEF Lists, vars
<1>2. QED BY <1>1 DEF NameInv, TableItems

\* Every item a banner lists is shown by a name of its own, where the tables
\* hold characters and weapons that the lists of names know (item.c 10-21,
\* character.c and weapon.c): two numbers never read as the same name.
THEOREM ShownCorrect ==
  ASSUME TablesNamed
  PROVE  SpecD => []ShownByName
<1>1. InitD => NameInv
  <2>1. SUFFICES ASSUME InitD PROVE NameInv
    OBVIOUS
  <2>2. PICK g \in Given : cfg = g.cfg
    BY <2>1 DEF InitD, Init
  <2>3. g.cfg \in Config
    BY GivenAssumption DEF Legal
  <2>4. cfg.stdPoolIndex \in PoolIndex
    BY <2>2, <2>3 DEF Config
  <2>5. QED BY <2>1, <2>4 DEF InitD, NameInv
<1>2. NameInv /\ [NextD]_varsD => NameInv'
  <2> SUFFICES ASSUME NameInv, [NextD]_varsD PROVE NameInv'
    OBVIOUS
  <2>0. 4 \in Star /\ 5 \in Star /\ "chr" \in Class /\ "wpn" \in Class
    BY DEF Star, Class
  <2>1. CASE ListFeatured
    <3> DEFINE up == IF cfg.banner = "CHAR1" THEN {FiveStarChrUp["CHAR1"]} ELSE {FiveStarChrUp["CHAR2"]}
               weapons == Numbered(5, WpnUpCourses, 1..2) \cup Plainly(4, FourStarWpnUp)
               characters == Plainly(5, up) \cup Plainly(4, FourStarChrUp)
    <3>1. up \in SUBSET TableItems /\ FourStarChrUp \in SUBSET TableItems
          /\ FourStarWpnUp \in SUBSET TableItems
      BY DEF TableItems
    <3>2. Lists("featured", "chr5", cfg.banner \in {"CHAR1", "CHAR2", "WPN"},
                IF cfg.banner = "WPN" THEN weapons ELSE characters)
      BY <2>1 DEF ListFeatured
    <3>3. 1..2 \in SUBSET DOMAIN WpnUpCourses
      BY CountedAssumption
    <3>4. \A e \in weapons : e.item \in TableItems
      BY <3>1, <3>3, TablesListed, FromTables, CoursesFromTables
    <3>5. \A e \in characters : e.item \in TableItems
      BY <3>1, FromTables
    <3> HIDE DEF up, weapons, characters
    <3>6. QED BY <3>2, <3>4, <3>5, NamesStep
  <2>2. CASE ListFiveStarCharacters
    <3> DEFINE courses == Numbered(5, ChronicleCourses, CoursesOf("chr"))
               pool == {FiveStarChr[k] : k \in 1..FiveStarMaxIndex[cfg.stdPoolIndex]}
    <3>1. Lists("chr5", "wpn5", cfg.banner \notin WeaponBanner /\ cfg.do5050 >= 0,
                IF Chronicle THEN courses ELSE Plainly(5, pool))
      BY <2>2 DEF ListFiveStarCharacters
    <3>2. \A e \in courses : e.item \in TableItems
      <4>1. CoursesOf("chr") \in SUBSET DOMAIN ChronicleCourses
        BY DEF CoursesOf
      <4>2. QED BY <4>1, TablesListed, CoursesFromTables
    <3>3. pool \in SUBSET TableItems
      <4>1. \A k \in 1..FiveStarMaxIndex[cfg.stdPoolIndex] : k \in DOMAIN FiveStarChr
        BY IndexAssumption DEF NameInv
      <4>2. QED BY <4>1 DEF TableItems
    <3> HIDE DEF courses, pool
    <3>4. \A e \in Plainly(5, pool) : e.item \in TableItems
      BY <3>3, FromTables
    <3>5. QED BY <3>1, <3>2, <3>4, NamesStep
  <2>3. CASE ListFiveStarWeapons
    <3> DEFINE courses == Numbered(5, ChronicleCourses, CoursesOf("wpn"))
               shown == /\ cfg.banner \notin {"CHAR1", "CHAR2", "NOVICE", "STD_ONLY_CHR"}
                        /\ cfg.do5050 >= 0
    <3>1. Lists("wpn5", "chr4", shown, IF Chronicle THEN courses ELSE Plainly(5, FiveStarWpn))
      BY <2>3 DEF ListFiveStarWeapons
    <3>2. \A e \in courses : e.item \in TableItems
      <4>1. CoursesOf("wpn") \in SUBSET DOMAIN ChronicleCourses
        BY DEF CoursesOf
      <4>2. QED BY <4>1, TablesListed, CoursesFromTables
    <3>3. FiveStarWpn \in SUBSET TableItems
      BY DEF TableItems
    <3> HIDE DEF courses, shown
    <3>4. \A e \in Plainly(5, FiveStarWpn) : e.item \in TableItems
      BY <3>3, FromTables
    <3>5. QED BY <3>1, <3>2, <3>4, NamesStep
  <2>4. CASE ListFourStarCharacters
    <3> DEFINE first == IF cfg.banner \in {"STD_CHR", "STD_ONLY_CHR", "STD_WPN"} THEN 1 ELSE 4
               pool == {FourStarChr[k] : k \in first..(FourStarMaxIndex[cfg.stdPoolIndex] + 3)}
    <3>1. Lists("chr4", "wpn4", cfg.do5050 >= 0,
                IF Chronicle THEN Plainly(4, ChroniclePool[4]["chr"]) ELSE Plainly(4, pool))
      BY <2>4 DEF ListFourStarCharacters
    <3>2. pool \in SUBSET TableItems
      <4>1. FourStarMaxIndex[cfg.stdPoolIndex] \in Nat
        BY IndexAssumption DEF NameInv
      <4>2. \A k \in first..(FourStarMaxIndex[cfg.stdPoolIndex] + 3) : k \in DOMAIN FourStarChr
        BY <4>1, IndexAssumption DEF NameInv
      <4>3. QED BY <4>2 DEF TableItems
    <3> HIDE DEF first, pool
    <3>3. /\ \A e \in Plainly(4, pool) : e.item \in TableItems
          /\ \A e \in Plainly(4, ChroniclePool[4]["chr"]) : e.item \in TableItems
      BY <2>0, <3>2, TablesListed, FromTables
    <3>4. QED BY <3>1, <3>3, NamesStep
  <2>5. CASE ListFourStarWeapons
    <3> DEFINE pool == IF Chronicle THEN ChroniclePool[4]["wpn"] ELSE FourStarWpn
    <3>1. Lists("wpn4", "wpn3", cfg.banner # "NOVICE" /\ cfg.do5050 >= 0, Plainly(4, pool))
      BY <2>5 DEF ListFourStarWeapons
    <3>2. FourStarWpn \in SUBSET TableItems
      BY DEF TableItems
    <3>3. pool \in SUBSET TableItems
      BY <2>0, <3>2, TablesListed
    <3> HIDE DEF pool
    <3>4. QED BY <3>1, <3>3, FromTables, NamesStep
  <2>6. CASE ListThreeStarWeapons
    <3>1. ThreeStar \in SUBSET TableItems
      BY DEF TableItems
    <3>2. QED BY <2>6, <3>1, FromTables, NamesStep DEF ListThreeStarWeapons
  <2>7. CASE WishAfter \/ UNCHANGED varsD
    <3>1. cfg' = cfg /\ listed' = listed
      BY <2>7, PullKeepsOptions DEF WishAfter, varsD, vars
    <3>2. QED BY <3>1 DEF NameInv, TableItems
  <2>8. QED BY <2>1, <2>2, <2>3, <2>4, <2>5, <2>6, <2>7 DEF NextD
<1>3. NameInv => ShownByName
  <2>1. SUFFICES ASSUME NameInv, NEW e \in listed
                 PROVE  /\ GetItem(e.item) # NoName
                        /\ \A d \in listed : GetItem(d.item) = GetItem(e.item) => d.item = e.item
    BY DEF ShownByName
  <2>2. \A d \in listed : GetItem(d.item) # NoName /\ d.item \in Characters \cup WeaponIds
    BY <2>1 DEF NameInv, TablesNamed
  <2>3. QED BY <2>1, <2>2, OneNameEach
<1>4. QED BY <1>1, <1>2, <1>3, PTL DEF SpecD
=============================================================================
