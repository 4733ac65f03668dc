----------------------------- MODULE CommandLine -----------------------------
(***************************************************************************)
(* main of yagiws.c up to its loop of wishes: the options are read one by  *)
(* one, each is taken or ends the program, and the end of the command line *)
(* makes the program check them against each other, resolve the banner's   *)
(* version to a row of the tables, and hand the result to the engine.      *)
(*                                                                         *)
(* An option is a record: its name, the star and class the name speaks of, *)
(* the word it was given, and the numbers strtoull or sscanf read from its *)
(* argument (none when it read none).                                      *)
(***************************************************************************)
EXTENDS WishData, Sequences, FiniteSets

CONSTANTS
  Menu,             \* the options a command line may hold
  MayFollow(_, _),  \* bound: whether a command line may go on with an option
  WpnUpCourses,     \* the featured weapons, in the order -e counts them
  ChronicleCourses, \* the 5-stars of the Chronicled Wish, in that order
  SecondRows,       \* the rows of FiveStarChrUp whose second entry is not 0xffff
  StrayCourses,     \* what the build puts in front of FiveStarWpnUp
  IntSize           \* the number of values of an int

\* Major version 0 makes the row negative: the tables are then read in front of
\* their first entries (yagiws.c 619 and 670), where anything may be.  Of those
\* rows too SecondRows holds the ones with another second entry than 0xffff.
RowsInFront == -32..-1

ChronicleRows == {60, 77}        \* the rows getChroniclePool knows

\* The newest minor version of a major one in the tables, and its phases.
LastMinor == <<6, 8, 8, 8, 4>>
Phases(major, minor) == IF major = 1 /\ minor = 3 THEN 1..4 ELSE 1..2
Released(v) == v[1] \in DOMAIN LastMinor /\ v[2] \in 0..LastMinor[v[1]]

ASSUME CoursesAssumption ==
  /\ WpnUpCourses \in Seq(Items) /\ Len(WpnUpCourses) = 2
  /\ ChronicleCourses \in Seq(Items)
  /\ {WpnUpCourses[k] : k \in DOMAIN WpnUpCourses} = FiveStarWpnUp
  /\ {ChronicleCourses[k] : k \in DOMAIN ChronicleCourses}
        = ChroniclePool[5]["chr"] \cup ChroniclePool[5]["wpn"]

ASSUME AllPoolsAssumption == PoolIndex = 0..39

ASSUME StrayAssumption == StrayCourses \in [RowsInFront \X (1..2) -> Items]

ASSUME IntAssumption == IntSize \in Nat /\ IntSize >= 65536

\* Numbers where numbers are read, at most three of a version, and the star and
\* class an option speaks of.
ASSUME MenuAssumption ==
  \A o \in Menu :
    /\ o.name = "banner_version" => Len(o.nums) <= 3
    /\ o.name \in {"pity", "smooth", "fate_points", "pulls", "noviceCnt", "epitomized_path",
                    "epitomized_state", "radiance", "banner_version", "pool_version"}
         => o.nums \in Seq(Int)
    /\ o.name \in {"pity", "smooth", "lostRateUp", "noPity", "noSmooth"} => o.star \in Star
    /\ o.name \in {"smooth", "forceSmooth"} => o.class \in Class

VARIABLES
  line,    \* the options read so far
  opts,    \* what they are stored in: main's variables and the engine's globals
  stage,   \* "options"; then "ready" for the wishes, "refused" or "shown"
  handed   \* what the wishes start from, once ready

varsC == <<line, opts, stage, handed>>

Defaults ==
  [banner |-> "none", version |-> <<-1, -1, -1>>, versionGiven |-> FALSE,
   poolVersion |-> <<-1, -1>>, poolGiven |-> FALSE, operands |-> FALSE,
   pity |-> [r \in Star |-> 0], pityS |-> [r \in Star |-> [c \in Class |-> 0]],
   getRateUp |-> [r \in Star |-> 0], doPity |-> [r \in Star |-> 1],
   doSmooth |-> [r \in Star |-> 1], oldSmooth |-> FALSE, do5050 |-> 1,
   doEpitomized |-> -1, doRadiance |-> 0, pathIndex |-> -1, fatePoints |-> 0,
   forced |-> {}, details |-> FALSE, pulls |-> 10, noviceCnt |-> 0]

InitC == line = <<>> /\ opts = Defaults /\ stage = "options" /\ handed = <<>>

-----------------------------------------------------------------------------
(* The arguments and what they are taken for. *)

AtLeast(o, lo) == o.nums # <<>> /\ o.nums[1] >= lo
Within(o, lo, hi) == AtLeast(o, lo) /\ o.nums[1] <= hi

EpitomizedArg(o) ==
  CASE o.nums # <<>> -> o.nums[1]
    [] o.word = "on" -> -2 [] o.word = "off" -> 0 [] o.word = "auto" -> -1
    [] OTHER -> -3

RadianceArg(o) ==
  CASE o.nums # <<>> -> o.nums[1]
    [] o.word = "on" -> 1 [] o.word = "off" -> 0 [] o.word = "auto" -> -1
    [] OTHER -> -2

Newest == <<5, 3, 2>>            \* the default version, 0x532

VersionArg_StalePhase(o) ==      \* the phase of an earlier -B stays
  CASE Len(o.nums) = 3 -> o.nums
    [] Len(o.nums) = 2 -> Append(o.nums, IF opts.versionGiven THEN opts.version[3] ELSE 1)
    [] Len(o.nums) = 1 -> <<o.nums[1], Newest[2], IF o.nums[1] = Newest[1] THEN Newest[3] ELSE 1>>
    [] OTHER -> opts.version

\* A partial -B is completed from the default version; one that does not parse
\* leaves what an earlier -B stored.
VersionArg(o) ==
  CASE Len(o.nums) = 3 -> o.nums
    [] Len(o.nums) = 2 -> Append(o.nums, IF o.nums = <<Newest[1], Newest[2]>> THEN Newest[3] ELSE 1)
    [] Len(o.nums) = 1 -> <<o.nums[1], Newest[2], IF o.nums[1] = Newest[1] THEN Newest[3] ELSE 1>>
    [] OTHER -> opts.version

PoolVersionArg(o) ==
  CASE Len(o.nums) = 0 -> opts.poolVersion
    [] Len(o.nums) = 1 -> <<o.nums[1], 0>>
    [] OTHER -> <<o.nums[1], o.nums[2]>>

Accepts(o) ==
  CASE o.name = "pity" -> Within(o, 0, IF o.star = 4 THEN 11 ELSE 90)
    [] o.name = "fate_points" -> Within(o, 0, 2)
    [] o.name \in {"pulls", "noviceCnt", "smooth"} -> AtLeast(o, 0)
    [] o.name = "epitomized_path" -> AtLeast(o, 1)
    [] o.name = "epitomized_state" -> EpitomizedArg(o) \in -2..1
    [] o.name = "radiance" -> RadianceArg(o) \in -1..1
    [] o.name = "banner" -> o.word \in Banner
    [] o.name = "banner_version" -> LET v == VersionArg(o) IN v[3] \in Phases(v[1], v[2])
    [] OTHER -> o.name # "unknown"

-----------------------------------------------------------------------------
(* One action per option. *)

SetBanner(o) == o.name = "banner" /\ opts' = [opts EXCEPT !.banner = o.word]

SetBannerVersion(o) ==
  /\ o.name = "banner_version"
  /\ opts' = [opts EXCEPT !.version = VersionArg(o), !.versionGiven = TRUE]

SetPoolVersion(o) ==
  /\ o.name = "pool_version"
  /\ opts' = [opts EXCEPT !.poolVersion = PoolVersionArg(o), !.poolGiven = TRUE]

SetPity(o) == o.name = "pity" /\ opts' = [opts EXCEPT !.pity[o.star] = o.nums[1]]

SetStable_OtherClass(o) ==      \* the value of one class stored as that of the other
  /\ o.name = "smooth"
  /\ opts' = [opts EXCEPT !.pityS[o.star] = [c \in Class |-> IF c = o.class THEN @[c] ELSE o.nums[1] % 256]]

SetStable(o) ==            \* no upper limit: stored in an unsigned char
  o.name = "smooth" /\ opts' = [opts EXCEPT !.pityS[o.star][o.class] = o.nums[1] % 256]

SetLostRateUp(o) == o.name = "lostRateUp" /\ opts' = [opts EXCEPT !.getRateUp[o.star] = 1]
SetNoPity(o)     == o.name = "noPity" /\ opts' = [opts EXCEPT !.doPity[o.star] = 0]
SetNoSmooth(o)   == o.name = "noSmooth" /\ opts' = [opts EXCEPT !.doSmooth[o.star] = 0]
SetOldSmooth(o)  == o.name = "noSmoothOld" /\ opts' = [opts EXCEPT !.oldSmooth = TRUE]
SetForce(o)      == o.name = "forceSmooth" /\ opts' = [opts EXCEPT !.forced = @ \cup {o.class}]

SetNoGuarantee(o) == o.name = "noGuarantee" /\ opts' = [opts EXCEPT !.do5050 = 0]
SetRateUpOnly(o)  == o.name = "rateUpOnly" /\ opts' = [opts EXCEPT !.do5050 = -1]

SetEpitomized(o) ==
  o.name = "epitomized_state" /\ opts' = [opts EXCEPT !.doEpitomized = EpitomizedArg(o)]

SetRadiance(o) == o.name = "radiance" /\ opts' = [opts EXCEPT !.doRadiance = RadianceArg(o)]

\* A long long that is stored in an int: its low bits, read as a signed number.
ToInt(x) ==
  LET low == x % IntSize
  IN  IF 2 * low >= IntSize THEN low - IntSize ELSE low

\* Checked before it is narrowed: a large index can end as none, or as another.
SetCourse(o) ==
  o.name = "epitomized_path" /\ opts' = [opts EXCEPT !.pathIndex = ToInt(o.nums[1])]

SetFatePoints(o) == o.name = "fate_points" /\ opts' = [opts EXCEPT !.fatePoints = o.nums[1]]

SetNoviceCnt(o) ==
  /\ o.name = "noviceCnt"
  /\ opts' = [opts EXCEPT !.noviceCnt = IF o.nums[1] > 8 THEN 8 ELSE o.nums[1]]

SetPulls(o)   == o.name = "pulls" /\ opts' = [opts EXCEPT !.pulls = o.nums[1] % IntSize]
SetDetails(o) == o.name = "details" /\ opts' = [opts EXCEPT !.details = TRUE]
Operand(o)    == o.name = "operand" /\ opts' = [opts EXCEPT !.operands = TRUE]

Store(o) ==
  \/ SetBanner(o) \/ SetBannerVersion(o) \/ SetPoolVersion(o) \/ SetPity(o) \/ SetStable(o)
  \/ SetLostRateUp(o) \/ SetNoPity(o) \/ SetNoSmooth(o) \/ SetOldSmooth(o) \/ SetForce(o)
  \/ SetNoGuarantee(o) \/ SetRateUpOnly(o) \/ SetEpitomized(o) \/ SetRadiance(o)
  \/ SetCourse(o) \/ SetFatePoints(o) \/ SetNoviceCnt(o) \/ SetPulls(o) \/ SetDetails(o)
  \/ Operand(o)

ReadOption(o) ==
  /\ stage = "options" /\ MayFollow(line, o)
  /\ line' = Append(line, o) /\ UNCHANGED handed

TakeOption(o) == ReadOption(o) /\ Accepts(o) /\ Store(o) /\ UNCHANGED stage

ShowHelp(o) ==
  ReadOption(o) /\ o.name \in {"help", "version"} /\ stage' = "shown" /\ UNCHANGED opts

RefuseOption(o) == ReadOption(o) /\ ~Accepts(o) /\ stage' = "refused" /\ UNCHANGED opts

-----------------------------------------------------------------------------
(* The end of the command line: versions. *)

Nibbles(v) == [d \in DOMAIN v |-> v[d] % 16]     \* & 0xf on every number

Version == IF opts.versionGiven THEN Nibbles(opts.version) ELSE Newest
VersionCode(v) == 256 * v[1] + 16 * v[2] + v[3]

\* Versions 0xMm in a row without gaps, counted from 1.0 = 16.
Squeezed_NoGap(mm) ==          \* the gap between 2.8 and 3.0 left open
  LET a == IF mm > 84 THEN 84 ELSE mm
      b == IF a >= 80 THEN a - 7 ELSE a
      c == IF b >= 64 THEN b - 7 ELSE b
  IN  IF c >= 32 THEN c - 9 ELSE c

Squeezed(mm) ==
  LET a == IF mm > 84 THEN 84 ELSE mm       \* 0x54
      b == IF a >= 80 THEN a - 7 ELSE a
      c == IF b >= 64 THEN b - 7 ELSE b
      d == IF c >= 48 THEN c - 7 ELSE c
  IN  IF d >= 32 THEN d - 9 ELSE d

Row_NoExtraPhases(v) ==        \* the four phases of 1.3 forgotten
  v[3] - 1 + 2 * (Squeezed(16 * v[1] + v[2]) - 16)

Row_Unlimited(v) ==            \* nothing keeps the row inside the tables
  LET s == Squeezed(16 * v[1] + v[2])
  IN  v[3] - 1 + 2 * ((IF s >= 20 THEN s + 1 ELSE s) - 16)

Row(v) ==
  LET s == Squeezed(16 * v[1] + v[2])
      n == (IF s >= 20 THEN s + 1 ELSE s) - 16
  IN  v[3] - 1 + 2 * (IF n > 40 THEN 40 ELSE n)

\* -V counts on the standard banners, and elsewhere unless -r was given.
PoolVersion ==
  IF opts.poolGiven /\ (opts.banner \in {"STD_CHR", "STD_WPN"} \/ opts.do5050 >= 0)
  THEN Nibbles(opts.poolVersion) ELSE <<Version[1], Version[2]>>

StdPoolIndex_FromZero ==   \* the entry of the Beginners' Wish not counted
  LET n == Squeezed(16 * PoolVersion[1] + PoolVersion[2]) - 16
  IN  IF opts.banner = "NOVICE" THEN 0 ELSE IF n < 1 THEN 1 ELSE IF n > 41 THEN 41 ELSE n

StdPoolIndex ==
  LET n == Squeezed(16 * PoolVersion[1] + PoolVersion[2]) - 15
  IN  IF opts.banner = "NOVICE" THEN 0 ELSE IF n < 1 THEN 1 ELSE IF n > 41 THEN 41 ELSE n

EpitomizedLimit_LaterPhase ==  \* the limit of 5.0 applied from its second phase
  IF opts.doEpitomized >= 0 THEN opts.doEpitomized
  ELSE IF VersionCode(Version) > 1281 \/ opts.banner = "CHRONICLED" THEN 1
  ELSE IF opts.banner # "WPN" \/ (VersionCode(Version) < 512 /\ opts.doEpitomized = -1) THEN 0
  ELSE 2

EpitomizedLimit ==             \* 1280 = 0x500, 512 = 0x200
  IF opts.doEpitomized >= 0 THEN opts.doEpitomized
  ELSE IF VersionCode(Version) > 1280 \/ opts.banner = "CHRONICLED" THEN 1
  ELSE IF opts.banner # "WPN" \/ (VersionCode(Version) < 512 /\ opts.doEpitomized = -1) THEN 0
  ELSE 2

Radiance ==
  IF opts.doRadiance >= 0 THEN opts.doRadiance
  ELSE IF VersionCode(Version) > 1280 THEN 1 ELSE 0

-----------------------------------------------------------------------------
(* The end of the command line: checks, and what is handed over. *)

WeaponPityTooHigh_OffByOne ==
  opts.banner \in WeaponBanner /\ (opts.pity[4] > 10 \/ opts.pity[5] > 80)

WeaponPityTooHigh ==
  opts.banner \in WeaponBanner /\ (opts.pity[4] >= 10 \/ opts.pity[5] >= 80)

NoChronicle == opts.banner = "CHRONICLED" /\ Row(Version) \notin ChronicleRows

NoSuchCourse ==
  \/ opts.banner = "WPN" /\ opts.pathIndex > 2
  \/ opts.banner = "CHRONICLED" /\ opts.pathIndex > Len(ChronicleCourses)

LineRefused ==
  \/ opts.operands \/ opts.banner = "none"
  \/ WeaponPityTooHigh \/ NoChronicle \/ NoSuchCourse

EpitomizedPath ==
  IF opts.pathIndex <= 0 \/ opts.banner \notin {"WPN", "CHRONICLED"} THEN NoItem
  ELSE IF opts.banner = "CHRONICLED" THEN ChronicleCourses[opts.pathIndex]
  ELSE IF Row(Version) >= 0 THEN WpnUpCourses[opts.pathIndex]
  ELSE StrayCourses[<<Row(Version), opts.pathIndex>>]

BannerToPull_Unchecked == opts.banner

BannerToPull ==      \* the second character banner did not always run
  IF opts.banner = "CHAR2" /\ Row(Version) \notin SecondRows THEN "CHAR1" ELSE opts.banner

Handover ==
  [g |-> [cfg |-> [banner |-> BannerToPull, doPity |-> opts.doPity,
                   doSmooth |-> [r \in Star |-> IF opts.doSmooth[r] = 0 /\ opts.oldSmooth
                                                THEN -1 ELSE opts.doSmooth[r]],
                   do5050 |-> opts.do5050, doEpitomized |-> EpitomizedLimit,
                   doRadiance |-> Radiance, epitomizedPath |-> EpitomizedPath,
                   stdPoolIndex |-> StdPoolIndex],
          pity |-> opts.pity, pityS |-> opts.pityS, getRateUp |-> opts.getRateUp,
          fatePoints |-> opts.fatePoints],
   order |-> [pulls |-> opts.pulls, noviceCnt |-> opts.noviceCnt,
              forceSmooth |-> CASE opts.forced = {"chr"} -> 1
                                [] opts.forced = {"wpn"} -> 2
                                [] OTHER -> 0],
   row |-> Row(Version)]

EndOfLine == stage = "options" /\ UNCHANGED <<line, opts>>

ShowUsage == EndOfLine /\ line = <<>> /\ stage' = "shown" /\ UNCHANGED handed

RefuseLine ==
  EndOfLine /\ line # <<>> /\ LineRefused /\ stage' = "refused" /\ UNCHANGED handed

ShowDetails ==
  /\ EndOfLine /\ line # <<>> /\ ~LineRefused
  /\ opts.details /\ stage' = "shown" /\ UNCHANGED handed

StartWishes_NothingHanded ==   \* the wishes begin with nothing resolved
  /\ EndOfLine /\ line # <<>> /\ ~LineRefused
  /\ ~opts.details /\ stage' = "ready" /\ UNCHANGED handed

StartWishes ==
  /\ EndOfLine /\ line # <<>> /\ ~LineRefused
  /\ ~opts.details /\ stage' = "ready" /\ handed' = <<Handover>>

NextC ==
  \/ \E o \in Menu : TakeOption(o) \/ ShowHelp(o) \/ RefuseOption(o)
  \/ ShowUsage \/ RefuseLine \/ ShowDetails \/ StartWishes

SpecC == InitC /\ [][NextC]_varsC

-----------------------------------------------------------------------------
(* Properties. *)

TypeOKC ==
  /\ line \in Seq(Menu)
  /\ stage \in {"options", "ready", "refused", "shown"}
  /\ stage = "ready" <=> handed # <<>>

\* Two versions that never came lead past the pools that are filled in.
UnfilledPools == {<<4, 14>>, <<4, 15>>}

\* The engine starts from a state it can work with, and the loop from numbers it
\* can count with: the checks spread over the option loop and the code after it
\* leave no combination of options out, and no version but those that lead
\* outside the tables: major version 0, and the pools of 4.14 and 4.15 on
\* banners that look one up (yagiws.c 240-686).
HandsOverLegal ==
  (/\ stage = "ready" /\ Version[1] >= 1
   /\ opts.banner = "NOVICE" \/ PoolVersion \notin UnfilledPools) =>
     Legal(handed[1].g) /\ handed[1].order \in Order

\* Of several -B the last decides alone, if it parsed: nothing of an earlier one
\* shows through where it left a number out (yagiws.c 280-307 parses them all
\* into the same array).  Without one it is the newest version.
LastVersionCounts ==
  LET given == {k \in DOMAIN line : line[k].name = "banner_version"}
      phase == IF Version[1] = 5 /\ Version[2] = 3 THEN 2 ELSE 1
  IN  stage = "ready" =>
        /\ given = {} => Version = Newest
        /\ \A k \in given :
              (/\ \A j \in given : j <= k
               /\ line[k].nums # <<>> /\ \A d \in DOMAIN line[k].nums : line[k].nums[d] \in 0..15) =>
              /\ \A d \in DOMAIN line[k].nums : Version[d] = line[k].nums[d]
              /\ Len(line[k].nums) < 3 => Version[3] = phase

Before(a, b) ==
  \/ a[1] < b[1]
  \/ a[1] = b[1] /\ a[2] < b[2]
  \/ a[1] = b[1] /\ a[2] = b[2] /\ a[3] < b[3]

AllVersions == UNION {{<<m, n>> : n \in 0..LastMinor[m]} : m \in DOMAIN LastMinor}
AllPhases == UNION {{<<w[1], w[2], p>> : p \in Phases(w[1], w[2])} : w \in AllVersions}

\* The tables hold one row per phase of a version, from 1.0 on: the row picked
\* is the number of phases before the one asked for (yagiws.c 533-571 finds it
\* by arithmetic on hexadecimal digits).
VersionRow ==
  (stage = "ready" /\ Released(Version)) => handed[1].row = Cardinality({w \in AllPhases : Before(w, Version)})

\* Minor versions up to 15 can be asked for that never came: whatever digits are
\* given, the row is one of the 82 of the tables, once there is a major version
\* (yagiws.c 533-571 limits the packed version above, and the row at the end).
RowInsideTables == (stage = "ready" /\ Version[1] >= 1) => handed[1].row \in 0..81

\* The pool of permanent items is that of the version asked for with -V, or of
\* the banner's own: one entry per version after the Beginners' (yagiws.c 625-668).
PoolRow ==
  (stage = "ready" /\ opts.banner # "NOVICE" /\ Released(PoolVersion)) =>
     handed[1].g.cfg.stdPoolIndex =
       1 + Cardinality({w \in AllVersions : Before(Append(w, 0), <<PoolVersion[1], PoolVersion[2], 0>>)})

\* The phases with a second character banner: "v2.3 ... Secondary banners start
\* here" (bannerdata.c 182), with a phase left out now and then up to 2.8.
SecondRan(v) ==
  /\ ~Before(v, <<2, 3, 1>>)
  /\ v \notin {<<2, 3, 2>>, <<2, 5, 1>>, <<2, 6, 2>>, <<2, 7, 2>>, <<2, 8, 2>>}

\* Of released versions the banner asked for is the one pulled from, if it ran
\* in that phase; a second character banner that did not is exchanged for the
\* first, and 0xffff never taken for an item; no phase gets the Chronicled Wish
\* of another (bannerdata.c 135-259 and 550-559, yagiws.c 573-580 and 669-674).
BannerRan ==
  (stage = "ready" /\ Released(Version)) =>
    /\ handed[1].g.cfg.banner =
         IF opts.banner = "CHAR2" /\ ~SecondRan(Version) THEN "CHAR1" ELSE opts.banner
    /\ opts.banner = "CHRONICLED" => Version \in {<<4, 4, 1>>, <<5, 3, 2>>}

\* "Defaults to 1 for Weapon Event banners from 5.0 and above and for the
\* Chronicled Wish banner, and 2 for Weapon Event banners from between 2.0 and
\* 4.8", and off "from 1.6 and below" (yagiws.c 115-127): so it is for every
\* phase, whatever other options were given.
FateLimitOfVersion ==
  (/\ stage = "ready" /\ opts.banner \in {"WPN", "CHRONICLED"}
   /\ \A k \in DOMAIN line : line[k].name # "epitomized_state") =>
    handed[1].g.cfg.doEpitomized =
      IF opts.banner = "CHRONICLED" \/ Version[1] >= 5 THEN 1
      ELSE IF Version[1] \in 2..4 THEN 2 ELSE 0

-----------------------------------------------------------------------------
(* What the usage text says, and the program does not do. *)

\* "1 or on: Forces the Capturing Radiance mechanic to be on. Default for banners
\* from 5.0 and above" (yagiws.c 137-139).
RadianceFromFive ==
  (/\ stage = "ready" /\ opts.banner \in {"CHAR1", "CHAR2"} /\ Version[1] >= 5
   /\ \A k \in DOMAIN line : line[k].name # "radiance") => handed[1].g.cfg.doRadiance = 1
==============================================================================
