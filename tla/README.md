# A verification project for yagiws

yagiws ("Yet Another Genshin Impact Wish Simulator") simulates the gacha of a
game on the command line: it reads options, picks a banner, and makes a number of
wishes with the banner's pity, guarantees and pools. These TLA+ modules model the
program from the reading of its argument list to the results it prints, over the
tables it comes with, and a player who goes on from those results in another run.
TLC checks them on small instances and, where the program's own tables are finite,
over all of them. TLAPS proves most of the safety properties for every value of the
constants.

## The system

| part | source | state it keeps | operations |
|---|---|---|---|
| gacha engine | `src/gacha.c` | the globals `pity`, `pityS`, `getRateUp`, `fatePoints`, `epitomizedPath`, and the mechanics' switches | `doAPull`, one wish |
| reading of arguments | `gnulib/getopt.c`, called in `src/yagiws.c` 240-243 | `optind`, `nextchar`, the block of operands passed over; permutes `argv` | `getopt_long`, one call |
| main: command line | `src/yagiws.c` 211-686 | one variable per option, the globals above | one case per option, checks across options, version to table row |
| main: session | `src/yagiws.c` 881-982 | loop counter, last item | the loop of wishes, the guaranteed Noelle, the forced counters of `-C`/`-W`, the results |
| main: details | `src/yagiws.c` 687-870 | none | prints pools and ends the program |
| banner data | `src/bannerdata.c` | constant tables | `getChroniclePool` |
| item names | `src/item.c`, `character.c`, `weapon.c`, `artifact.c` | constant tables | id to name |
| random numbers | `src/util.c` | none that matters | `rndFloat` |
| the rest | `gnulib/`, `po/`, `m4/`, autotools files | | vendored, translated or build-time |

The parts share memory and call each other; nothing runs concurrently and nothing
is persisted. `getopt_long` hands `main` one option after the other; `main` writes the
engine's globals from the options, calls `doAPull` once per wish, writes the globals
itself for the wish that gives Noelle and for `-C`/`-W`, and reads them after the loop.
The player carries the results to the next run as its options
`-4 -5 -l -L -f -c --smooth..`.

What is hard is therefore not scheduling but long sequences and edges:

- guarantees come from counters that are counted, compared and reset in some twenty
  branches, and must hold over every mix of drops, over several kinds of drop at once
  (rate-up guarantee and fate points), and with every mechanic switched on or off;
- the counters are `unsigned char`, and some have no upper limit;
- a guarantee is a floating-point weight above 1;
- what a process does not print when it ends is lost to the next;
- versions are hexadecimal digits with gaps, squeezed into table rows by arithmetic,
  and the tables are kept by hand;
- `-d` reads the tables again under conditions of its own;
- the limits of one option depend on another one that may come later, and `getopt`
  moves the argument list about while it reads it.

`PROJECT.json` lists the hazards at their lines with the properties aimed at them.

## The modules

| module | what it is |
|---|---|
| `WishData` | the item tables as constants with their assumptions, and the state that main hands to the engine (`Legal`) and to its loop (`Order`) |
| `Gacha` | the engine. One step is one call of `doAPull`; one action per case of the banner and star |
| `WishPromise` | abstract: what a banner promises, in terms of what a player can count |
| `WishLedger` | `Gacha` with that count as history variables, and the refinement of `WishPromise` |
| `StableLedger` | `Gacha` with the ages of the classes as history, for the stable pity |
| `WishSession` | `WishLedger` in main's loop, up to the results |
| `CommandLine` | the option loop, the checks and the resolution of versions |
| `Program` | composes `CommandLine` and `WishSession`: runs, each going on from the results of the last |
| `BannerTables` | the tables of `bannerdata.c`, whole |
| `VersionedBanners` | `CommandLine` over those tables: what rows and pools must have to do with each other |
| `ItemNames` | `getItem` and the lists behind it |
| `Details` | the listing of `-d`, followed by wishes of the same banner |
| `Arguments` | abstract: what an argument list says |
| `Blocks` | two neighbouring blocks of a sequence that change places |
| `ExchangeLoop` | the loop of `exchange` in `getopt.c`, one step per pass |
| `Getopt` | `getopt_long`'s scan, one step per call, with the result that `ExchangeLoop` shows; the refinement of `Arguments` |
| `GachaProofs`, `WishLedgerProofs`, `StableProofs`, `SessionProofs`, `ProgramProofs`, `CommandLineProofs`, `DetailsProofs`, `GetoptProofs` | theorems and proofs |
| `MCTables`, `MC*` | instances for TLC |

### Engine

`pity`, `pityS`, `getRateUp`, `fatePoints` keep the source's names; an array indexed
by 0 and 1 is a function on the stars 4 and 5, and `pityS` is a function of star and
class. `cfg` holds the switches, fixed for a run. `rare`, `isRateUp` and `item` are the
outputs. The two indices `doAPull` is given have become the table constants (one row of
the tables) and `cfg.stdPoolIndex`.

An action has the parameter `ps`, the stable counters as the caller left them:
`Next` passes the engine's own, `WishSession` those that `-C` and `-W` have
overwritten. `PityAtRoll`, `StableAtRoll`, `RateUpAtRoll` and `FateAtRoll` are the prologue of
the call (lines 130-160), `RollsFour` and `RollsThree` the comparison of the random
number with the weights, and every random choice is a disjunction or an `\E` over what it
can give. Weights are integers in ten-thousandths, exact for all the source's
constants. The random number is `|n / LLONG_MAX|` of a 64-bit `n`. It can be 0, so a drop
of positive weight is always possible. It exceeds 1 only for `n = LLONG_MIN`, by 2^-63, and
every weight that the code means as a guarantee is above 1 by far more. It can be 1, so
a weight below 1 is no guarantee. No weight is exactly 1.

Left out of `doAPull` because `main` never brings them about: the tests for null
pointers and an unknown banner, the missing pool of a Chronicled Wish (`main`
refuses it first), and the replacement of negative `doRadiance` and `doEpitomized`
(lines 150-157; `main` has resolved both). Builds with `DEBUG`, which drop the checks, are
not modelled.

### Promise and ledger

`WishPromise` says that at the latest every `hard5`-th wish is a 5-star, that no more
than `hard4` 3-stars come in a row, that a star lost to the common pool is
featured the next time, and that after `fate` misses the charted course comes. It knows
nothing of weights or counters. What is drawn, and what is said of it, is the record `wish`: `won` is
the flag `doAPull` reports, while `featured` is asked of the item itself, so that a flag that lies keeps
no promise. `WishLedger!TermsOf` reads the promises in force off the options: 90 or 80 wishes for a 5-star, and none without that pity. The bound on
3-stars is *ten* in a row, not nine: a 5-star ends a row of 3-stars without touching the
4-star counter, which may by then be at any value, and where it wraps in its byte the new
row starts from 0 after the wrapping wish.

### Session and command line

`WishSession` has three actions: the wish that gives Noelle, a wish of the engine, and the
results. `CommandLine` has one action per option and one per way the command line
can end (usage, refusal, details, wishes). Option arguments are records with the numbers
`strtoull` or `sscanf` would read and the word given; the text itself is not modelled.
`Accepts` holds the limits of all options. `Squeezed`, `Row` and `StdPoolIndex` are the
arithmetic on version digits, `Handover` what the rest of the program starts from. `-e` and `-p` are read as
a `long long` and stored in an `int` and an `unsigned int`: `ToInt` and `SetPulls` keep the low bits, of
an int of `IntSize` values. A major version of 0 gives a negative row (`RowsInFront`), and `main` then reads
its tables in front of their first entries: what it finds there as a course is the constant `StrayCourses`,
any item at all, and as a second banner whatever `SecondRows` says of those rows. Its item
tables stand for one row, that of 5.3.2; `VersionedBanners` and `MCCommandLine` bring in
the tables that are looked up by version. That options reach `main` one by one and in
the order they were given, which `CommandLine` takes for granted, is what `Getopt`
shows of the code that reads them.

### Program: one run after another

The player of `Program` types a standing set of options (`Standing`), and after them what
the last run printed: `Carried` is the results read back as options, field by field, the
fields that were not shown left out. A new process starts from `Defaults`; everything that is
in neither list is forgotten. The history of `WishLedger` is the player's and
goes on, so that `PromiseKept` speaks of the chain of runs. `CarriesOver` says which
numbers survive the way through printing, typing and resolving.

### Details and names

`Details` lists section by section, as the code does. `Announced` is the part of the options
for which the listing claims to be complete. After the listing the same engine makes
wishes, so that `NothingUnlisted` compares the two readings of the tables on what really
drops, and `OnlyWhatDrops` asks of every entry whether some roll gives it. `NumberCharts`
instantiates `CommandLine` to ask which course `-e` takes a printed number for.

A name in `ItemNames` is the list it is in and its place there: two items with one name, or an
item with none, show as such without the wording.

### Getopt

`Arguments` reads an argument list front to back: options in order, each with its
argument, operands collected aside. `Getopt` is the code: the block of operands passed
over (`first_nonopt`, `last_nonopt`) is exchanged in place with the options read since
(`Exchange`, by `Rotated`); letters of one element are read one per call. That the code's loop, which
swaps the shorter block with the far end of the longer one until one of them is empty, comes to
`Rotated` is what `ExchangeLoop` is for: it makes one pass per step, from every call the scan can
make. The refinement maps what is unread to the tail of `argv` and the operands met to that block. Long
names are sequences of parts, as fine as abbreviations need. `OptionsAssumption` says that the tables
of `yagiws.c` name every option once: of two entries with one `val`, `getopt` would take either.

## What the runs check

| run | properties | shows |
|---|---|---|
| `Ledger` | `TypeOK`, `LedgerInv`, `PromiseKept` | `doAPull` refines the promise, on every banner and with mechanics switched off |
| | `FlagIsTrue`, `RateUpOnly` | a drop called featured is; `-r` gives only featured items (on the weapon banner with a course charted; without one see `Uncharted`) |
| | `FeaturedAgain`, `ChartedAgain` | liveness: featured and charted 5-stars come again and again |
| `Stable` | `CounterIsAge`, `StableTurn` | a stable counter is the age of its class, and the overdue class is next, until the byte wraps |
| `Program` | `TypeOKS`, `NoelleIsEighth` | Noelle is the 8th wish counted over the runs |
| | `PromiseKept` | the promise holds over the whole chain of runs, Noelle's wish included |
| | `ForcedClass` | `-C` and `-W` work where the stable mechanism is on |
| | `StandingResolves` | the options given in every run resolve to the same engine and order each time |
| | `ReportIsHonest`, `CarriesOver` | the results are what the player counted, and typed in again they restore the engine |
| `Options` | `TypeOKC`, `HandsOverLegal` | every command line that is taken yields a state in `Legal`, the assumption of the engine's model, unless its digits lead outside the tables (major 0, pools of 4.14 and 4.15) |
| | `LastVersionCounts`, `BannerRan` | of several `-B` the last decides alone, if it parsed; in every released phase the banner asked for is used if it ran, and the first character banner in place of a second that did not |
| | `VersionRow`, `RowInsideTables`, `PoolRow`, `FateLimitOfVersion` | every phase gets its own row, every version its pool and fate limit, and no digits lead outside the rows, from major version 1 on |
| | `PoolHoldsWhoCame`, `DebutsJoinNext` | the pool looked up holds the characters that had joined by then; a character featured before joining joins with the next version |
| `Details` | `NothingUnlisted`, `OnlyWhatDrops` | `-d` and the engine agree on every banner with every of `-g`, `-r` and a course |
| | `NumberCharts`, `ShownByName` | the numbers listed are those `-e` takes; every item listed has a name of its own |
| `Getopt` | `ReadAsSaid` | the scan implements `Arguments`: nothing lost, repeated or out of order |
| | `ReadingEnds` | liveness: main's option loop ends |
| `ExchangeLoop` | `BlocksTraded` | swapping pieces of unequal lengths, the loop ends with the two blocks in the other order, each as it was |
| | `LoopEnds` | liveness: it ends |

### Disagreements found

Each is a run that TLC must find violated.

| run | what happens |
|---|---|
| `Uncharted` | `yagiws -b weapon` from 5.0 on, no course charted: after a lost 5-star the next one is item 0, flagged as featured. One fate point fills the limit, and line 209 returns the charted item without asking whether there is one. The same happens up to 1.6 and with `-E 0`, where the limit is 0 |
| `StableWrap` | a class that has not come for 256 wishes is suddenly the fresher one |
| `RadianceDefault` | Capturing Radiance is off from 5.0 unless `-R` is given, the usage text says on |
| `CourseLost` | weapon banner from 5.0: a lost 5-star fills the course, and the results do not say so: the usage text calls `-f` irrelevant there, and a next run without it starts with an empty course. On the Chronicled Wish the printed guarantee, typed in as `-L`, brings the charted item back, but not with `-g` |
| `Names` | 12430 (Fruitful Hook) is listed without a name: new rows of the lists of `weapon.c` carry the last digits of the id, one more than the index `getWeapon` uses. 13430, 14430, 15430 and 12413 have none either, 11430 shows the name behind its own, and the last entry of every 4-star list is past the limit `getWeapon` checks |

Met on the way, and not made runs:

- Versions. `-B 4` selects 4.3.1, with the minor version of the default, and the message (line 299) says
  4.0.1. `-B x` says it goes on with 5.3.2 (line 283), and ends the program over phase -1
  (line 302). After another `-B`, `-B x` says the same, and the earlier version is used: `-B 4.4.1 -B x`
  pulls from 4.4.1. `-V x` says it uses the pool of 5.3 (line 367), and the pool of 5.4 is used, from
  numbers that were never set. Versions that never came are taken: 3.13.1 and 4.12.2 share
  the rows of 4.4.1 and 5.3.2, their Chronicled Wish included; `-V 4.14` reaches a pool length of 0
  and `-V 4.15` the place behind the table, because the index is limited to 41 where 40 entries are
  filled. A major version 0 gives a negative row: the featured items, the course (line 619) and the second
  banner (line 670) are then read in front of the tables.
- Numbers. `-e` is checked and then narrowed to an int: `-e 4294967297` charts course 1, and
  `-e 2147483648` none, without a word. `-p` likewise: `-p 4294967296` makes no wish.
- Options. `-E 2` is refused (line 327) where the usage text offers any positive integer
  (lines 121-123). `-r -g` is not `-r`, though `-r` "implies -g" (lines 93-98), because both write one
  variable. The messages of lines 524 and 528 say pities of 10 and 80 are allowed on weapon
  banners, and the checks refuse them. `--noSmoothOld` selects the newer behaviour in `main` while
  the usage text describes it the other way round. `-C` and `-W` do nothing together with `-s`/`-S`.
- Going on from results. A printed 4-star pity of 10 on a weapon banner, or of 12 and more elsewhere
  (5-stars let it grow), is refused by `-4`. On the Chronicled Wish with a course and `-E 0` or `-g`
  neither the guarantee nor the stable counters that decide are printed; on the standard
  banners `-r` hides stable counters that still decide.
- Details. `-r -d` lists nothing on banners without featured items, though everything still drops
  there.
- Tables. `ThreeStar` has 15304 twice (14304 is missing). Phases 2 and 3 of 1.3 feature a 5-star
  who is also in the permanent pool. The last two rows hold placeholders (10500) that no released
  version reaches. Constellations 5100-5109 are looked up at one index and checked at another
  (character.c 129), which nothing in the program asks for.

### Bounds, and why they are enough

- Tables: in `Ledger`, `Stable` and `Program`, one or two items per pool, disjoint where the code
  draws from different ones. No branch depends on how many items a pool has, only on which
  pool it is and on whether the item drawn is the charted one. Both pools of the charted kind
  have two items. `Options` and `Details` use the program's tables.
- Counters: no bound is needed. The 5-star pity is kept below 91 by the weights and the
  4-star pity wraps in its byte, so whole cycles are explored, including the wrap.
- `AgeCap` = 256 bounds the ages of `StableLedger`, one more than a counter can hold.
  Runs of the stable pity start either at nothing or near the edge.
- `Ledger` switches the stable pity off (`-s -S`): no promise depends on it.
  The proofs do without this restriction.
- `RunLimit`: where the stable counters are off, runs follow each other without bound, because the
  state recurs; where they are on, two runs are made, enough for results to be printed and taken
  back. A run is 2 wishes, or up to 10 on the Beginners' Wish, which passes the 8th over several
  runs and within one. On the Beginners' banner they start at a 5-star pity of at most 81: from 82
  on, the wish that gives Noelle can fall on the one hard pity was due on, and puts it off by one
  wish. The promise as stated does not hold there.
- `MayFollow`: command lines are up to 3 of some 50 options, or any 2 of all banners, versions and pool
  versions, released or not. Options are stored independently, so that pairs of an option with the
  banner and with a second one of its kind cover how they meet; the proofs speak of any length.
- `IntSize` = 65536, the least an int may have: the program's have 2^32 values, more than TLC can count to.
  Only the low bits and the sign are looked at; the proofs speak of every size from there.
- `StrayCourses` and the rows in front of the tables: one item, which the banner does not offer, and rows
  of both kinds, with a second banner and without.
- `WishLimit` = 2: every pool is drawn from at once, because the pities and guarantees start anywhere a
  wish can leave them; the second wish has the guarantee of the first.
- `Lists`: up to nine elements, all different, with every pair of neighbouring blocks in them: every
  way in which the shorter block goes into the longer one.
- `ArgLists`: up to 3 elements of every form, up to 5 where operands and options alternate. Three
  blocks (operands, options, operands) are what one exchange looks at, and five elements give blocks of
  unequal lengths and a second exchange.

### Fairness

`FairSpecL` has weak fairness of the pull, `WF_varsL(NextL)`: the loop of main makes the
next wish for as long as `-p` asks. No fairness is assumed of the random numbers;
`FeaturedAgain` and `ChartedAgain` hold with the worst of luck, because pity and the
guarantees bound it. `SpecG` has weak fairness of the call, as main calls `getopt_long` again
until it returns -1, and `SpecX` of the pass, a `while` loop.

`CHECK_DEADLOCK FALSE` is set for the runs of `Program`, `CommandLine`, `Details`, `Getopt` and
`ExchangeLoop`: all end.

## What is proved

| theorem | statement | from |
|---|---|---|
| `TypeCorrect` | `Spec => []TypeOK` | the shape of the tables, legal starting states |
| `FlagCorrect`, `RateUpOnlyCorrect` | `Spec => []FlagIsTrue`, `[]RateUpOnly` | and `WeaponCourseGiven`: a course is charted on the weapon banner |
| `LedgerCorrect` | `SpecL => []LedgerInv` | as `TypeCorrect` |
| `PromiseCorrect` | `SpecL => PromiseKept` | and `WeaponCourseGiven` |
| `CounterCorrect`, `StableTurnCorrect` | `SpecA => []CounterIsAge`, `SpecA => StableTurn` | as `TypeCorrect` |
| `SessionCorrect`, `ForcedCorrect` | `SpecS => []TypeOKS`, `SpecS => []ForcedClass` | and legal orders |
| `SessionPromise` | `SpecS => PromiseKept` | and `WeaponCourseGiven`, and `NoelleInTime`: on the Beginners' Wish a 5-star pity of at most 81, and one more for every wish of `-c` |
| `NoelleCorrect` | `SpecS => []NoelleIsEighth` | and `BeginnersAssumption`: the first of the permanent pools, that of the Beginners' Wish, does not hold Noelle |
| `ReportCorrect` | `SpecS => []ReportIsHonest` | as `SessionCorrect` |
| `ChainTypes`, `CarriesOverCorrect`, `ChainNoelle`, `ChainForced`, `ChainReports` | `SpecP /\ []StandingResolves => []TypeOKS`, `CarriesOver`, `[]NoelleIsEighth`, `[]ForcedClass`, `[]ReportIsHonest` | as for one session; any number of runs |
| `ChainPromise` | `SpecP /\ []StandingResolves => PromiseKept` | and `WeaponCourseGiven`, `NoelleInTime`, `CoursesPrinted`: no course of one point that the results say nothing of |
| `LineTypeCorrect`, `HandsOverCorrect`, `RowsCorrect`, `FateLimitCorrect` | `SpecC => []TypeOKC`, and so on | `MenuAssumption`: options hold numbers where numbers are read; courses in the order of the tables |
| `BannerRanCorrect` | `SpecC => []BannerRan` | and `ProgramRows`: `SecondRows` are those of the program's table |
| `LastVersionCorrect`, `VersionRowCorrect`, `PoolRowCorrect` | `SpecC => []LastVersionCounts`, `[]VersionRow`, `[]PoolRow` | `MenuAssumption` |
| `NothingUnlistedCorrect` | `SpecD => []NothingUnlisted` | and `WeaponCourseGiven` |
| `NumbersCorrect` | `SpecD => []NumberCharts` | `CountedAssumption`: `-e` counts every course of the tables |
| `ShownCorrect` | `SpecD => []ShownByName` | and `TablesNamed`: the tables hold characters and weapons, each with a name |
| `ExchangeCorrect` | `SpecX => []BlocksTraded` | lists are sequences, of any length |
| `ReadCorrect` | `SpecG => ReadAsSaid` | `ArgListsAssumption`, `OptionsAssumption`: argument lists of any length, any options each named once |

The assumptions are the named `ASSUME`s, evaluated by TLC in every run, and those named in
the table. `HandsOverCorrect` discharges the one about starting states: what `main` hands over
after a command line is `Legal`, but for a major version of 0 and the pools of 4.14 and 4.15, of which nothing
is claimed. `WeaponCourseGiven` is what `main` does not see to: `-b weapon` without `-e` is the run `Uncharted`. `StandingResolves` is
about what a player types in every run: it is left a hypothesis, and TLC checks it of the options that
`Program` has a player type. `CoursesPrinted` leaves out what the run `CourseLost` finds lost, and no more.

Engine. The lemmas `FiveStarShape` and `FourStarShape` reduce the twelve kinds of drop to one
form each; `PullOutcome` collects what one pull does to counters and flags, `MissFive` and
`MissFour` are the arithmetic of the weights. `WeaponCourseGiven` is needed: without it item 0 is
called featured, and under `-r` dropped (`Uncharted`).

Promise. `PromiseKept` is not inductive: that the 5-star comes in time must be known from the
counter. `LedgerInv` says what the counters know of the player's count: the 5-star
counter equals it (`FiveStarCounted`); the 4-star counter is at least the row of
3-stars less one, and past 11 there is no row at all, because a weight above 1 leaves
only 5-stars to carry it there (`FourStarCounted`) - which is what makes the wrap of the
byte harmless; a loss the player remembers is one the engine remembers
(`LossRemembered`); fate points are never behind the misses and never above 2
(`CourseCounted`). That a wish called won is of a featured item does not follow from the counters: it is
`FlagOfDrop`, and the reason for `WeaponCourseGiven`.

Stable pity. The invariant is `AgeType` with `CounterIsAge` itself; `FiveStarResets` and
`FourStarResets` say which counters a drop resets, and `OverdueIsNext` that the weights of an
overdue class leave the other none.

Session. `NoelleWish` is shown to be a step of `WishPromise` and to keep `LedgerInv`, although it
bypasses `doAPull`; for that the 5-star counter must stay below hard pity up to the 8th wish,
which is `PityBehindWishes` (`pity[5] <= 81 + noviceCnt + i` while `noviceCnt + i <= 7`).
`NoelleIsEighth` needs to know that no other wish of the Beginners' banner gives her: the engine draws there
from the first of the permanent pools only (`BeginnersPool`, `BeginnersDrop`). `ReportIsHonest` is stronger than what
`LedgerInv` says of the guarantees, which the player may find earlier than promised: `HonestInv` adds
that where they are printed the flags are exactly the losses (`GuaranteeCounted`), that the 5-star counter
is the drought on every banner and never near the edge of its byte (`DroughtCounted`), and that without a
charted course no miss counts.

Runs. A new process starts from `Defaults`, so the invariant cannot speak of the engine between two runs;
it speaks of the line being typed. `ChainInv` relates it to the results it comes from: what is still to be
typed is a rest of the standing options and then of `Carried` (`StandingLeft`, `CarriedLeft`), and each
number printed is either stored in its option already or has that option still ahead (`Restoring`). When
all is typed, `Line!Handover` is what `StartsFrom` says, and `BeginRestores` that everything shown is back.
`PromiseKept` then needs `ChainLedger`: `LedgerInv` is too much to ask after a restart, which forgets
guarantees that no longer decide anything, and what the results hand over is enough (`LossKept`,
`PointsCounted`, `MissKept`; a missed course of the Chronicled Wish is remembered by its guarantee).

Command line. `OptsInv` is the type of all options with the tighter limit of `-4`, the phase belonging to
its version (`PhaseKnown`), the fate limit unset unless its option was read (`LimitUnset`), and what was
handed over being resolved from options that passed every check (`Resolved`). The rest is arithmetic on the
digits: `RowType`, `PoolIndexType`. `Narrowed` is the arithmetic of a number that loses its high bits.

Versions. `VersionKept` relates the line typed so far to the array that all `-B` are parsed into: the last
that parsed put there what it names, and the phase with it. `VersionRow` counts: the row is the number of
released phases before the one asked for. The proof brings the squeezed digits to cases by major version
(`SqueezedByDigits`, `RowByDigits`), shows that the rows of the released phases are distinct, in the order
of the phases, and that none is left out (`RowsInOrder`, `EveryRow`), so that the phases before one are
as many as the rows before its own (`RankedBelow`, by a bijection). `PoolRow` goes the same way. `BannerRan` compares rows and phases by the same
digits (`SecondByDigits`, `ChronicleVersion`).

Details. `ListInv` has one part per section (`Printed`): a section that is past has listed its pool. `Drops` is what
the engine can give on a banner, collected from all twelve kinds of drop; the common pool of a banner that
features items is listed only without `-r`, and `NotGuaranteed` says that it drops only then. As
for the flag, `WeaponCourseGiven` is needed. `NumberInv` says that every number listed so far charts its
item, and that the courses of a section that is past are there. `ShownByName` follows from the names of any
two characters or weapons being different (`OneNameEach`), and from nothing being listed that is not
in the tables. `TablesNamed` holds of the tables of 5.3.2; of those of 5.1.2 it does not, which is what the
run `Names` shows.

Getopt. What the swap loop computes would be an induction over the lengths of the blocks. As steps of
`ExchangeLoop` it needs an invariant instead: what is left to exchange has the result of the whole
(`LoopInv`: `Rotated(list, bottom, middle, top) = Result`), which `BottomGone` and `TopGone` keep up for one
pass each. For the scan, `Reading` says that its places are in order and that letters left are those of a short
element; `AdvancedDoes` where the scan looks next, through all the ways of exchanging, skipping and `--`, and which
operands it has passed. `EndIsSaid`, `LongIsSaid` and `LetterIsSaid` then map each kind of call to the step of
`Arguments` that takes the same element from the front of the list, and `ReadingStep` puts them together.

Only model-checked:

- liveness (`FeaturedAgain`, `ChartedAgain`, `ReadingEnds`, `LoopEnds`) and `OnlyWhatDrops`, which says `ENABLED`: out of the
  prover's reach;
- `PoolHoldsWhoCame` and `DebutsJoinNext`, which are about the entries of the finite tables of
  `bannerdata.c`, and TLC goes through all of them;
- `StandingResolves`, as said above.

`CourseKept` is not a property of the code (`CourseLost`).

## Not modelled

- Probabilities. A draw is a choice. A failing `getrandom` leaves a stale number, which is one of the
  outcomes chosen from anyway.
- Wording, colours, layout and translations (`po/`): no message changes what the program does. Where a
  property is about a message, it is about what the message claims.
- `gnulib/` other than `getopt.c`: some 50 000 lines of replacements for libc headers and
  functions that the program calls through (`gettext`, locale and thread code), vendored, most of them
  not compiled on a platform that has them, and none with state of the program's own. They make up
  most of the lines of the repository, and modelling them would say nothing about wishes.
- In `getopt.c`: option strings with a sign in front, `-W`, and `optind` set by the caller. `main` uses none.
- Builds with `DEBUG`, which leave the checks out.

## Plan

All modules above are written, their properties checked, and all safety properties proved but those listed as
only model-checked. What could be added:

1. `StandingResolves` proved of every accepted set of options that names its versions in full, instead of
   asked of the player: it needs the inverse of the row arithmetic that `VersionRow` counts.
2. Probabilities, which no part of this project speaks of.
