-------------------------- MODULE CommandLineProofs -------------------------
(***************************************************************************)
(* Command lines of any length: the engine starts from a legal state, the  *)
(* row lies inside the tables, and the limit of fate points is that of the *)
(* version.  The first is what the proofs about the engine start from.     *)
(* Then what the versions come to: the last one given decides, and rows    *)
(* and pools are counted off by the released versions in their order.      *)
(***************************************************************************)
EXTENDS CommandLine, SequenceTheorems, FunctionTheorems, FiniteSetTheorems, TLAPS

OptsType ==
  [banner : Banner \cup {"none"}, version : [1..3 -> Int], versionGiven : BOOLEAN,
   poolVersion : [1..2 -> Int], poolGiven : BOOLEAN, operands : BOOLEAN,
   pity : [Star -> 0..90], pityS : [Star -> [Class -> Byte]],
   getRateUp : [Star -> {0, 1}], doPity : [Star -> {0, 1}],
   doSmooth : [Star -> {0, 1}], oldSmooth : BOOLEAN, do5050 : -1..1,
   doEpitomized : -2..1, doRadiance : -1..1, pathIndex : Int,
   fatePoints : 0..2, forced : SUBSET Class, details : BOOLEAN, pulls : Nat,
   noviceCnt : 0..8]

\* A version that was taken names a phase.
PhaseKnown ==
  \/ opts.version[3] \in Phases(opts.version[1], opts.version[2])
  \/ ~opts.versionGiven /\ opts.version[3] = -1

\* The limit of fate points is only set by its option.
LimitUnset ==
  (\A k \in DOMAIN line : line[k].name # "epitomized_state") => opts.doEpitomized = -1

\* What the wishes start from is resolved from options that passed every check.
Resolved == stage = "ready" => handed = <<Handover>> /\ ~LineRefused

OptsInv ==
  /\ opts \in OptsType /\ opts.pity[4] <= 11
  /\ PhaseKnown /\ line \in Seq(Menu) /\ LimitUnset /\ Resolved

-----------------------------------------------------------------------------
(* The options. *)

LEMMA FirstNumber ==
  ASSUME NEW s \in Seq(Int), s # <<>>
  PROVE  Len(s) \in Nat \ {0} /\ s[1] \in Int
<1>1. Len(s) \in Nat \ {0}
  BY EmptySeq
<1>2. 1 \in 1..Len(s)
  BY <1>1
<1>3. QED BY <1>1, <1>2, ElementOfSeq

\* What is left of a number that is stored in an int, or in an unsigned one.
LEMMA Narrowed ==
  ASSUME NEW x \in Int
  PROVE  x % IntSize \in 0..(IntSize - 1) /\ x % IntSize \in Nat /\ ToInt(x) \in Int
<1>1. IntSize \in Nat /\ IntSize > 0
  BY IntAssumption
<1>2. x % IntSize \in 0..(IntSize - 1)
  BY <1>1
<1> DEFINE low == x % IntSize
<1>3. low \in Nat
  BY <1>1, <1>2
<1>4. ToInt(x) = IF 2 * low >= IntSize THEN low - IntSize ELSE low
  BY DEF ToInt
<1> HIDE DEF low
<1>5. ToInt(x) \in Int
  BY <1>1, <1>3, <1>4
<1>6. QED BY <1>2, <1>3, <1>5 DEF low

LEMMA VersionArgType ==
  ASSUME opts \in OptsType, NEW o \in Menu, o.name = "banner_version", Accepts(o)
  PROVE  /\ VersionArg(o) \in [1..3 -> Int]
         /\ VersionArg(o)[3] \in Phases(VersionArg(o)[1], VersionArg(o)[2])
<1>1. o.nums \in Seq(Int)
  BY MenuAssumption
<1>2. VersionArg(o) \in [1..3 -> Int]
  <2>1. CASE Len(o.nums) = 3
    <3>1. VersionArg(o) = o.nums
      BY <2>1 DEF VersionArg
    <3>2. o.nums \in [1..Len(o.nums) -> Int]
      BY <1>1, LenProperties
    <3>3. QED BY <2>1, <3>1, <3>2
  <2>2. CASE Len(o.nums) = 2
    <3>1. VersionArg(o) = Append(o.nums, IF o.nums = <<Newest[1], Newest[2]>> THEN Newest[3] ELSE 1)
      BY <2>2 DEF VersionArg
    <3>2. (IF o.nums = <<Newest[1], Newest[2]>> THEN Newest[3] ELSE 1) \in Int
      BY DEF Newest
    <3>3. /\ Append(o.nums, IF o.nums = <<Newest[1], Newest[2]>> THEN Newest[3] ELSE 1) \in Seq(Int)
          /\ Len(Append(o.nums, IF o.nums = <<Newest[1], Newest[2]>> THEN Newest[3] ELSE 1)) = 3
      <4> DEFINE phase == IF o.nums = <<Newest[1], Newest[2]>> THEN Newest[3] ELSE 1
      <4>1. phase \in Int
        BY <3>2
      <4> HIDE DEF phase
      <4>2. Append(o.nums, phase) \in Seq(Int) /\ Len(Append(o.nums, phase)) = Len(o.nums) + 1
        BY <1>1, <4>1, AppendProperties
      <4>3. Append(o.nums, phase) \in Seq(Int) /\ Len(Append(o.nums, phase)) = 3
        BY <2>2, <4>2
      <4>4. QED BY <4>3 DEF phase
    <3>4. VersionArg(o) \in [1..Len(VersionArg(o)) -> Int]
      BY <3>1, <3>3, LenProperties
    <3>5. QED BY <3>1, <3>3, <3>4
  <2>3. CASE Len(o.nums) = 1
    <3>1. VersionArg(o) = <<o.nums[1], Newest[2], IF o.nums[1] = Newest[1] THEN Newest[3] ELSE 1>>
      BY <2>3 DEF VersionArg
    <3>2. o.nums[1] \in Int /\ Newest[2] \in Int /\ (IF o.nums[1] = Newest[1] THEN Newest[3] ELSE 1) \in Int
      BY <1>1, <2>3 DEF Newest
    <3>3. QED BY <3>1, <3>2
  <2>4. CASE Len(o.nums) \notin {1, 2, 3}
    BY <2>4 DEF VersionArg, OptsType
  <2>5. QED BY <2>1, <2>2, <2>3, <2>4
<1>3. QED BY <1>2 DEF Accepts

\* Every option stores a value of the type of its variable.
LEMMA StoreType ==
  ASSUME opts \in OptsType, opts.pity[4] <= 11, NEW o \in Menu, Accepts(o), Store(o)
  PROVE  opts' \in OptsType /\ opts'.pity[4] <= 11
<1>1. CASE SetBanner(o)
  BY <1>1 DEF SetBanner, Accepts, OptsType
<1>2. CASE SetBannerVersion(o)
  <2>1. VersionArg(o) \in [1..3 -> Int]
    BY <1>2, VersionArgType DEF SetBannerVersion
  <2>2. QED BY <1>2, <2>1 DEF SetBannerVersion, OptsType
<1>3. CASE SetPoolVersion(o)
  <2>1. o.nums \in Seq(Int)
    BY <1>3, MenuAssumption DEF SetPoolVersion
  <2>2. PoolVersionArg(o) \in [1..2 -> Int]
    <3>1. CASE Len(o.nums) = 0
      BY <3>1 DEF PoolVersionArg, OptsType
    <3>2. CASE Len(o.nums) = 1
      BY <2>1, <3>2 DEF PoolVersionArg
    <3>3. CASE Len(o.nums) \notin {0, 1}
      <4>1. o.nums[1] \in Int /\ o.nums[2] \in Int
        <5>1. Len(o.nums) \in Nat /\ Len(o.nums) # 0 /\ Len(o.nums) # 1
          BY <2>1, <3>3, LenProperties
        <5>2. \A n \in Nat : n # 0 /\ n # 1 => 1 \in 1..n /\ 2 \in 1..n
          OBVIOUS
        <5>3. 1 \in 1..Len(o.nums) /\ 2 \in 1..Len(o.nums)
          BY <5>1, <5>2
        <5>4. QED BY <2>1, <5>3, ElementOfSeq
      <4>2. PoolVersionArg(o) = <<o.nums[1], o.nums[2]>>
        <5>1. Len(o.nums) # 0 /\ Len(o.nums) # 1
          BY <3>3
        <5>2. QED BY <5>1 DEF PoolVersionArg
      <4>3. QED BY <4>1, <4>2
    <3>4. QED BY <3>1, <3>2, <3>3
  <2>3. QED BY <1>3, <2>2 DEF SetPoolVersion, OptsType
<1>4. CASE SetPity(o)
  <2>1. o.star \in Star /\ o.nums \in Seq(Int)
    BY <1>4, MenuAssumption DEF SetPity
  <2>2. o.nums[1] \in 0..90 /\ (o.star = 4 => o.nums[1] <= 11)
    <3>1. Within(o, 0, IF o.star = 4 THEN 11 ELSE 90)
      BY <1>4 DEF SetPity, Accepts
    <3>2. o.nums # <<>> /\ 0 <= o.nums[1] /\ o.nums[1] <= (IF o.star = 4 THEN 11 ELSE 90)
      BY <3>1 DEF Within, AtLeast
    <3>3. o.nums[1] \in Int
      BY <2>1, <3>2, FirstNumber
    <3>4. \A n \in Int : 0 <= n /\ n <= (IF o.star = 4 THEN 11 ELSE 90)
             => n \in 0..90 /\ (o.star = 4 => n <= 11)
      OBVIOUS
    <3>5. QED BY <3>2, <3>3, <3>4
  <2>3. opts' = [opts EXCEPT !.pity = [opts.pity EXCEPT ![o.star] = o.nums[1]]]
    BY <1>4 DEF SetPity
  <2>4. /\ [opts.pity EXCEPT ![o.star] = o.nums[1]] \in [Star -> 0..90]
        /\ [opts.pity EXCEPT ![o.star] = o.nums[1]][4] <= 11
    BY <2>1, <2>2 DEF OptsType, Star
  <2>5. QED BY <2>3, <2>4 DEF OptsType
<1>5. CASE SetStable(o)
  <2>1. o.star \in Star /\ o.class \in Class /\ o.nums \in Seq(Int) /\ o.nums # <<>>
    <3>1. AtLeast(o, 0)
      BY <1>5 DEF SetStable, Accepts
    <3>2. QED BY <1>5, <3>1, MenuAssumption DEF SetStable, AtLeast
  <2>2. o.nums[1] % 256 \in Byte
    <3>1. o.nums[1] \in Int
      BY <2>1, FirstNumber
    <3>2. QED BY <3>1 DEF Byte
  <2>3. PICK s \in [Star -> [Class -> Byte]] : opts' = [opts EXCEPT !.pityS = s]
    <3>1. [opts.pityS EXCEPT ![o.star] = [opts.pityS[o.star] EXCEPT ![o.class] = o.nums[1] % 256]]
            \in [Star -> [Class -> Byte]]
      BY <2>1, <2>2 DEF OptsType
    <3>2. QED BY <1>5, <3>1 DEF SetStable
  <2>4. QED BY <2>3 DEF OptsType
<1>6. CASE SetLostRateUp(o)
  <2>1. o.star \in Star
    BY <1>6, MenuAssumption DEF SetLostRateUp
  <2>2. [opts.getRateUp EXCEPT ![o.star] = 1] \in [Star -> {0, 1}]
    BY <2>1 DEF OptsType
  <2>3. QED BY <1>6, <2>2 DEF SetLostRateUp, OptsType
<1>7. CASE SetNoPity(o)
  <2>1. o.star \in Star
    BY <1>7, MenuAssumption DEF SetNoPity
  <2>2. [opts.doPity EXCEPT ![o.star] = 0] \in [Star -> {0, 1}]
    BY <2>1 DEF OptsType
  <2>3. QED BY <1>7, <2>2 DEF SetNoPity, OptsType
<1>8. CASE SetNoSmooth(o)
  <2>1. o.star \in Star
    BY <1>8, MenuAssumption DEF SetNoSmooth
  <2>2. [opts.doSmooth EXCEPT ![o.star] = 0] \in [Star -> {0, 1}]
    BY <2>1 DEF OptsType
  <2>3. QED BY <1>8, <2>2 DEF SetNoSmooth, OptsType
<1>9. CASE SetOldSmooth(o) \/ SetDetails(o) \/ Operand(o)
  <2>1. CASE SetOldSmooth(o)
    BY <2>1 DEF SetOldSmooth, OptsType
  <2>2. CASE SetDetails(o)
    BY <2>2 DEF SetDetails, OptsType
  <2>3. CASE Operand(o)
    BY <2>3 DEF Operand, OptsType
  <2>4. QED BY <1>9, <2>1, <2>2, <2>3
<1>10. CASE SetForce(o)
  <2>1. opts.forced \cup {o.class} \in SUBSET Class
    BY <1>10, MenuAssumption DEF SetForce, OptsType
  <2>2. QED BY <1>10, <2>1 DEF SetForce, OptsType
<1>11. CASE SetNoGuarantee(o) \/ SetRateUpOnly(o)
  <2>1. PICK d \in -1..1 : opts' = [opts EXCEPT !.do5050 = d]
    <3>1. 0 \in -1..1 /\ -1 \in -1..1
      OBVIOUS
    <3>2. QED BY <1>11, <3>1 DEF SetNoGuarantee, SetRateUpOnly
  <2>2. QED BY <2>1 DEF OptsType
<1>12. CASE SetEpitomized(o)
  <2>1. EpitomizedArg(o) \in -2..1
    BY <1>12 DEF SetEpitomized, Accepts
  <2>2. QED BY <1>12, <2>1 DEF SetEpitomized, OptsType
<1>13. CASE SetRadiance(o)
  <2>1. RadianceArg(o) \in -1..1
    BY <1>13 DEF SetRadiance, Accepts
  <2>2. QED BY <1>13, <2>1 DEF SetRadiance, OptsType
<1>14. CASE SetCourse(o)
  <2>1. o.nums \in Seq(Int) /\ o.nums # <<>>
    <3>1. AtLeast(o, 1)
      BY <1>14 DEF SetCourse, Accepts
    <3>2. QED BY <1>14, <3>1, MenuAssumption DEF SetCourse, AtLeast
  <2>2. ToInt(o.nums[1]) \in Int
    BY <2>1, FirstNumber, Narrowed
  <2>3. QED BY <1>14, <2>2 DEF SetCourse, OptsType
<1>15. CASE SetFatePoints(o)
  <2>1. o.nums \in Seq(Int) /\ o.nums # <<>> /\ o.nums[1] >= 0 /\ o.nums[1] <= 2
    <3>1. Within(o, 0, 2)
      BY <1>15 DEF SetFatePoints, Accepts
    <3>2. QED BY <1>15, <3>1, MenuAssumption DEF SetFatePoints, Within, AtLeast
  <2>2. o.nums[1] \in 0..2
    BY <2>1, FirstNumber
  <2>3. QED BY <1>15, <2>2 DEF SetFatePoints, OptsType
<1>16. CASE SetNoviceCnt(o) \/ SetPulls(o)
  <2>1. o.nums \in Seq(Int) /\ o.nums # <<>> /\ o.nums[1] >= 0
    <3>1. AtLeast(o, 0)
      BY <1>16 DEF SetNoviceCnt, SetPulls, Accepts
    <3>2. QED BY <1>16, <3>1, MenuAssumption DEF SetNoviceCnt, SetPulls, AtLeast
  <2>2. o.nums[1] \in Nat /\ (IF o.nums[1] > 8 THEN 8 ELSE o.nums[1]) \in 0..8
    <3>1. o.nums[1] \in Int
      BY <2>1, FirstNumber
    <3>2. \A n \in Int : n >= 0 => n \in Nat /\ (IF n > 8 THEN 8 ELSE n) \in 0..8
      OBVIOUS
    <3>3. QED BY <2>1, <3>1, <3>2
  <2>3. CASE SetNoviceCnt(o)
    BY <2>2, <2>3 DEF SetNoviceCnt, OptsType
  <2>4. CASE SetPulls(o)
    <3>1. o.nums[1] % IntSize \in Nat
      BY <2>2, Narrowed
    <3>2. QED BY <2>4, <3>1 DEF SetPulls, OptsType
  <2>5. QED BY <1>16, <2>3, <2>4
<1>17. QED
  BY <1>1, <1>2, <1>3, <1>4, <1>5, <1>6, <1>7, <1>8, <1>9, <1>10, <1>11, <1>12, <1>13, <1>14,
     <1>15, <1>16 DEF Store

\* Versions and the limit of fate points are set by their own options only.
LEMMA StoreFrame ==
  ASSUME opts \in OptsType, NEW o, Store(o)
  PROVE  /\ o.name # "banner_version" =>
              opts'.version = opts.version /\ opts'.versionGiven = opts.versionGiven
         /\ o.name # "epitomized_state" => opts'.doEpitomized = opts.doEpitomized
<1>1. CASE SetBanner(o) \/ SetPity(o) \/ SetStable(o) \/ SetPoolVersion(o) \/ SetLostRateUp(o)
  BY <1>1 DEF SetBanner, SetPity, SetStable, SetPoolVersion, SetLostRateUp, OptsType
<1>2. CASE SetNoPity(o) \/ SetNoSmooth(o) \/ SetOldSmooth(o) \/ SetForce(o) \/ SetNoGuarantee(o)
  BY <1>2 DEF SetNoPity, SetNoSmooth, SetOldSmooth, SetForce, SetNoGuarantee, OptsType
<1>3. CASE SetRateUpOnly(o) \/ SetRadiance(o) \/ SetCourse(o) \/ SetFatePoints(o) \/ SetNoviceCnt(o)
  BY <1>3 DEF SetRateUpOnly, SetRadiance, SetCourse, SetFatePoints, SetNoviceCnt, OptsType
<1>4. CASE SetPulls(o) \/ SetDetails(o) \/ Operand(o)
  BY <1>4 DEF SetPulls, SetDetails, Operand, OptsType
<1>5. CASE SetBannerVersion(o)
  BY <1>5 DEF SetBannerVersion, OptsType
<1>6. CASE SetEpitomized(o)
  BY <1>6 DEF SetEpitomized, OptsType
<1>7. QED BY <1>1, <1>2, <1>3, <1>4, <1>5, <1>6 DEF Store

LEMMA VersionOption ==
  ASSUME NEW o, Store(o), o.name = "banner_version"
  PROVE  opts' = [opts EXCEPT !.version = VersionArg(o), !.versionGiven = TRUE]
  BY DEF Store, SetBanner, SetBannerVersion, SetPity, SetStable, SetPoolVersion, SetLostRateUp,
     SetNoPity, SetNoSmooth, SetOldSmooth, SetForce, SetNoGuarantee, SetRateUpOnly, SetRadiance,
     SetCourse, SetFatePoints, SetNoviceCnt, SetPulls, SetDetails, Operand, SetEpitomized

LEMMA LineStep ==
  ASSUME OptsInv, [NextC]_varsC
  PROVE  OptsInv'
<1>1. /\ opts \in OptsType /\ opts.pity[4] <= 11 /\ PhaseKnown
      /\ line \in Seq(Menu) /\ LimitUnset /\ Resolved
  BY DEF OptsInv
<1>2. ASSUME NEW o \in Menu, TakeOption(o) PROVE OptsInv'
  <2>1. /\ stage = "options" /\ stage' = "options" /\ line' = Append(line, o)
        /\ Accepts(o) /\ Store(o)
    BY <1>2 DEF TakeOption, ReadOption
  <2>2. opts' \in OptsType /\ opts'.pity[4] <= 11
    BY <1>1, <2>1, StoreType
  <2>3. PhaseKnown'
    <3>1. CASE o.name = "banner_version"
      <4>1. opts' = [opts EXCEPT !.version = VersionArg(o), !.versionGiven = TRUE]
        BY <2>1, <3>1, VersionOption
      <4>2. opts'.version = VersionArg(o)
        BY <1>1, <4>1 DEF OptsType
      <4>3. VersionArg(o)[3] \in Phases(VersionArg(o)[1], VersionArg(o)[2])
        BY <1>1, <2>1, <3>1, VersionArgType
      <4>4. QED BY <4>2, <4>3 DEF PhaseKnown
    <3>2. CASE o.name # "banner_version"
      BY <1>1, <2>1, <3>2, StoreFrame DEF PhaseKnown
    <3>3. QED BY <3>1, <3>2
  <2>4. line' \in Seq(Menu)
    BY <1>1, <2>1
  <2>5. LimitUnset'
    <3>1. SUFFICES ASSUME \A k \in DOMAIN line' : line'[k].name # "epitomized_state"
                   PROVE  opts'.doEpitomized = -1
      BY DEF LimitUnset
    <3>2. o.name # "epitomized_state"
      <4>1. Len(line) + 1 \in DOMAIN line' /\ line'[Len(line) + 1] = o
        BY <1>1, <2>1
      <4>2. QED BY <3>1, <4>1
    <3>3. \A k \in DOMAIN line : k \in DOMAIN line' /\ line'[k] = line[k]
      BY <1>1, <2>1
    <3>4. opts.doEpitomized = -1
      BY <1>1, <3>1, <3>3 DEF LimitUnset
    <3>5. QED BY <1>1, <2>1, <3>2, <3>4, StoreFrame
  <2>6. QED BY <2>1, <2>2, <2>3, <2>4, <2>5 DEF OptsInv, Resolved
<1>3. ASSUME NEW o \in Menu, ShowHelp(o) \/ RefuseOption(o) PROVE OptsInv'
  <2>1. line' = Append(line, o) /\ stage' \in {"shown", "refused"} /\ opts' = opts
    BY <1>3 DEF ShowHelp, RefuseOption, ReadOption
  <2>2. line' \in Seq(Menu)
    BY <1>1, <2>1
  <2>3. LimitUnset'
    <3>1. \A k \in DOMAIN line : k \in DOMAIN line' /\ line'[k] = line[k]
      BY <1>1, <2>1
    <3>2. QED BY <1>1, <2>1, <3>1 DEF LimitUnset
  <2>4. QED BY <1>1, <2>1, <2>2, <2>3 DEF OptsInv, PhaseKnown, Resolved
<1>4. CASE ShowUsage \/ RefuseLine \/ ShowDetails
  <2>1. line' = line /\ stage' \in {"shown", "refused"} /\ opts' = opts
    BY <1>4 DEF ShowUsage, RefuseLine, ShowDetails, EndOfLine
  <2>2. QED BY <1>1, <2>1 DEF OptsInv, PhaseKnown, LimitUnset, Resolved
<1>5. CASE StartWishes
  <2>1. line' = line /\ opts' = opts /\ ~LineRefused /\ handed' = <<Handover>>
    BY <1>5 DEF StartWishes, EndOfLine
  <2>2. Resolved'
    BY <2>1 DEF Resolved, LineRefused, WeaponPityTooHigh, NoChronicle, NoSuchCourse, Handover,
       BannerToPull, EpitomizedLimit, Radiance, EpitomizedPath, StdPoolIndex, PoolVersion, Version,
       Row
  <2>3. QED BY <1>1, <2>1, <2>2 DEF OptsInv, PhaseKnown, LimitUnset
<1>6. CASE UNCHANGED varsC
  BY <1>1, <1>6 DEF varsC, OptsInv, PhaseKnown, LimitUnset, Resolved, LineRefused,
     WeaponPityTooHigh, NoChronicle, NoSuchCourse, Handover, BannerToPull, EpitomizedLimit,
     Radiance, EpitomizedPath, StdPoolIndex, PoolVersion, Version, Row
<1>7. QED BY <1>2, <1>3, <1>4, <1>5, <1>6 DEF NextC

LEMMA LineInvariant == SpecC => []OptsInv
<1>1. InitC => OptsInv
  <2> SUFFICES ASSUME InitC PROVE OptsInv
    OBVIOUS
  <2>1. opts = Defaults /\ line = <<>> /\ stage = "options"
    BY DEF InitC
  <2>2. Defaults \in OptsType /\ Defaults.pity[4] <= 11
    BY DEF Defaults, OptsType, Star, Class, Byte
  <2>3. PhaseKnown /\ LimitUnset
    BY <2>1 DEF Defaults, PhaseKnown, LimitUnset
  <2>4. QED BY <2>1, <2>2, <2>3 DEF OptsInv, Resolved
<1>2. QED BY <1>1, LineStep, PTL DEF SpecC

-----------------------------------------------------------------------------
(* The version, and what is looked up by it. *)

LEMMA NibblesType ==
  ASSUME NEW n \in Nat, NEW v \in [1..n -> Int]
  PROVE  Nibbles(v) \in [1..n -> 0..15] /\ \A d \in 1..n : Nibbles(v)[d] = v[d] % 16
<1>1. \A x \in Int : x % 16 \in 0..15
  OBVIOUS
<1>2. DOMAIN v = 1..n
  OBVIOUS
<1>3. Nibbles(v) = [d \in 1..n |-> v[d] % 16]
  BY <1>2 DEF Nibbles
<1>4. \A d \in 1..n : v[d] % 16 \in 0..15
  BY <1>1
<1>5. QED BY <1>3, <1>4

\* Digits, and a third or fourth phase of 1.3 only.
LEMMA VersionType ==
  ASSUME OptsInv
  PROVE  /\ Version[1] \in 0..15 /\ Version[2] \in 0..15 /\ Version[3] \in 1..4
         /\ Version[3] > 2 => Version[1] = 1 /\ Version[2] = 3
<1>1. CASE ~opts.versionGiven
  BY <1>1 DEF Version, Newest
<1>2. CASE opts.versionGiven
  <2>1. opts.version \in [1..3 -> Int]
    BY DEF OptsInv, OptsType
  <2>2. Nibbles(opts.version) \in [1..3 -> 0..15]
        /\ \A d \in 1..3 : Nibbles(opts.version)[d] = opts.version[d] % 16
    BY <2>1, NibblesType
  <2>3. opts.version[3] \in Phases(opts.version[1], opts.version[2])
    BY <1>2 DEF OptsInv, PhaseKnown
  <2>4. /\ opts.version[3] \in 1..4
        /\ opts.version[3] > 2 => opts.version[1] = 1 /\ opts.version[2] = 3
    BY <2>3 DEF Phases
  <2>5. Version = Nibbles(opts.version)
    BY <1>2 DEF Version
  <2>6. /\ Version[1] = opts.version[1] % 16 /\ Version[1] \in 0..15
        /\ Version[2] = opts.version[2] % 16 /\ Version[2] \in 0..15
        /\ Version[3] = opts.version[3] % 16
    BY <2>2, <2>5
  <2>7. \A x \in 1..4 : x % 16 = x
    OBVIOUS
  <2>8. Version[3] = opts.version[3]
    BY <2>4, <2>6, <2>7
  <2>9. 1 % 16 = 1 /\ 3 % 16 = 3
    OBVIOUS
  <2>10. QED BY <2>4, <2>6, <2>8, <2>9
<1>3. QED BY <1>1, <1>2

LEMMA VersionDigits ==
  ASSUME OptsInv
  PROVE  Version = <<Version[1], Version[2], Version[3]>>
<1>1. opts.version \in [1..3 -> Int]
  BY DEF OptsInv, OptsType
<1>2. Nibbles(opts.version) \in [1..3 -> 0..15]
  BY <1>1, NibblesType
<1>3. Newest \in [1..3 -> Int]
  BY DEF Newest
<1>4. Version \in [1..3 -> Int]
  BY <1>2, <1>3 DEF Version
<1>5. QED BY <1>4

LEMMA PoolVersionType ==
  ASSUME OptsInv
  PROVE  /\ PoolVersion[1] \in 0..15 /\ PoolVersion[2] \in 0..15
         /\ PoolVersion = <<PoolVersion[1], PoolVersion[2]>>
<1>1. opts.poolVersion \in [1..2 -> Int]
  BY DEF OptsInv, OptsType
<1>2. Nibbles(opts.poolVersion) \in [1..2 -> 0..15]
  BY <1>1, NibblesType
<1>3. /\ Nibbles(opts.poolVersion)[1] \in 0..15 /\ Nibbles(opts.poolVersion)[2] \in 0..15
      /\ Nibbles(opts.poolVersion) = <<Nibbles(opts.poolVersion)[1], Nibbles(opts.poolVersion)[2]>>
  BY <1>2
<1>4. Version[1] \in 0..15 /\ Version[2] \in 0..15
  BY VersionType
<1>5. QED BY <1>3, <1>4 DEF PoolVersion

\* Rows count from 1.0, whatever minor version is asked for.
LEMMA RowType ==
  ASSUME OptsInv, Version[1] >= 1
  PROVE  Row(Version) \in 0..81
<1>1. /\ Version[1] \in 1..15 /\ Version[2] \in 0..15 /\ Version[3] \in 1..4
      /\ Version[3] > 2 => Version[1] = 1 /\ Version[2] = 3
  BY VersionType
<1>2. Squeezed(16 * Version[1] + Version[2]) \in 16..56
  <2>1. \A mm \in 16..255 : Squeezed(mm) \in 16..56
    BY DEF Squeezed
  <2>2. 16 * Version[1] + Version[2] \in 16..255
    BY <1>1
  <2>3. QED BY <2>1, <2>2
<1>3. Version[3] > 2 => Squeezed(16 * Version[1] + Version[2]) = 19
  BY <1>1 DEF Squeezed
<1>4. QED BY <1>1, <1>2, <1>3 DEF Row

\* Of released phases, two only fall on the rows of the Chronicled Wish.
LEMMA ChronicleVersion ==
  ASSUME OptsInv, Released(Version), Row(Version) \in ChronicleRows
  PROVE  Version \in {<<4, 4, 1>>, <<5, 3, 2>>}
<1> DEFINE a == Version[1]  b == Version[2]  c == Version[3]
<1>1. /\ a \in 1..5 /\ b \in 0..15 /\ c \in 1..4 /\ (c > 2 => a = 1 /\ b = 3)
      /\ a = 1 => b <= 6
      /\ a \in {2, 3, 4} => b <= 8
      /\ a = 5 => b <= 4
  BY VersionType DEF Released, LastMinor
<1>2. Row(Version) = Row(<<a, b, c>>)
  BY DEF Row
<1>3. Version = <<a, b, c>>
  BY VersionDigits
<1> HIDE DEF a, b, c
<1>4. \/ a = 4 /\ b = 4 /\ c = 1
      \/ a = 5 /\ b = 3 /\ c = 2
  <2>1. Row(<<a, b, c>>) \in {60, 77}
    BY <1>2 DEF ChronicleRows
  <2> DEFINE s == Squeezed(16 * a + b)
  <2>2. /\ a = 1 => s = 16 + b
        /\ a = 2 => s = 23 + b
        /\ a = 3 => s = 32 + b
        /\ a = 4 => s = 41 + b
        /\ a = 5 => s = 50 + b
    <3>1. a = 1 => s = 16 + b
      BY <1>1 DEF Squeezed
    <3>2. a = 2 => s = 23 + b
      BY <1>1 DEF Squeezed
    <3>3. a = 3 => s = 32 + b
      BY <1>1 DEF Squeezed
    <3>4. a = 4 => s = 41 + b
      BY <1>1 DEF Squeezed
    <3>5. a = 5 => s = 50 + b
      BY <1>1 DEF Squeezed
    <3>6. QED BY <3>1, <3>2, <3>3, <3>4, <3>5
  <2>3. \/ c - 1 + 2 * ((IF s >= 20 THEN s + 1 ELSE s) - 16) \in {60, 77}
        \/ (IF s >= 20 THEN s + 1 ELSE s) - 16 > 40
    BY <2>1 DEF Row
  <2> HIDE DEF s
  <2>4. CASE a = 1
    BY <1>1, <2>2, <2>3, <2>4
  <2>5. CASE a = 2
    BY <1>1, <2>2, <2>3, <2>5
  <2>6. CASE a = 3
    BY <1>1, <2>2, <2>3, <2>6
  <2>7. CASE a = 4
    BY <1>1, <2>2, <2>3, <2>7
  <2>8. CASE a = 5
    BY <1>1, <2>2, <2>3, <2>8
  <2>9. QED BY <1>1, <2>4, <2>5, <2>6, <2>7, <2>8
<1>5. QED BY <1>3, <1>4

\* All digits but those of two versions lead to one of the pools filled in.
LEMMA PoolIndexType ==
  ASSUME OptsInv, opts.banner = "NOVICE" \/ PoolVersion \notin UnfilledPools
  PROVE  StdPoolIndex \in 0..39
<1> DEFINE mm == 16 * PoolVersion[1] + PoolVersion[2]
<1>1. CASE opts.banner = "NOVICE"
  BY <1>1 DEF StdPoolIndex
<1>2. CASE opts.banner # "NOVICE"
  <2>1. PoolVersion \notin UnfilledPools
    BY <1>2
  <2>2. /\ PoolVersion[1] \in 0..15 /\ PoolVersion[2] \in 0..15
        /\ PoolVersion = <<PoolVersion[1], PoolVersion[2]>>
    BY PoolVersionType
  <2>3. mm \in 0..255 \ {78, 79}
    <3>1. ~(PoolVersion[1] = 4 /\ PoolVersion[2] = 14) /\ ~(PoolVersion[1] = 4 /\ PoolVersion[2] = 15)
      BY <2>1, <2>2 DEF UnfilledPools
    <3>2. QED BY <2>2, <3>1
  <2>4. StdPoolIndex = LET n == Squeezed(mm) - 15 IN IF n < 1 THEN 1 ELSE IF n > 41 THEN 41 ELSE n
    BY <1>2 DEF StdPoolIndex
  <2> HIDE DEF mm
  <2>5. Squeezed(mm) \in Int /\ Squeezed(mm) <= 54
    BY <2>3 DEF Squeezed
  <2> DEFINE q == Squeezed(mm)
  <2>6. q \in Int /\ q <= 54 /\ StdPoolIndex = IF q - 15 < 1 THEN 1 ELSE IF q - 15 > 41 THEN 41 ELSE q - 15
    BY <2>4, <2>5
  <2> HIDE DEF q
  <2>7. QED BY <2>6
<1>3. QED BY <1>1, <1>2

-----------------------------------------------------------------------------
(* What is handed over. *)

LEMMA LimitType ==
  ASSUME OptsInv
  PROVE  EpitomizedLimit \in 0..2 /\ (opts.banner # "WPN" => EpitomizedLimit <= 1)
<1>1. opts.doEpitomized \in -2..1
  BY DEF OptsInv, OptsType
<1>2. QED BY <1>1 DEF EpitomizedLimit

\* A course that is taken is one the banner offers, once there is a major version.
LEMMA CourseTaken ==
  ASSUME OptsInv, ~NoSuchCourse, Version[1] >= 1
  PROVE  /\ EpitomizedPath \in Items
         /\ EpitomizedPath \in CASE opts.banner = "WPN" -> FiveStarWpnUp \cup {NoItem}
              [] opts.banner = "CHRONICLED" -> ChroniclePool[5]["chr"] \cup ChroniclePool[5]["wpn"] \cup {NoItem}
              [] OTHER -> {NoItem}
<1>1. opts.pathIndex \in Int
  BY DEF OptsInv, OptsType
<1>2. CASE opts.pathIndex <= 0 \/ opts.banner \notin {"WPN", "CHRONICLED"}
  BY <1>2 DEF EpitomizedPath, NoItem, Items
<1>3. CASE opts.pathIndex > 0 /\ opts.banner = "WPN"
  <2>1. opts.pathIndex \in 1..Len(WpnUpCourses)
    BY <1>1, <1>3, CoursesAssumption DEF NoSuchCourse
  <2>2. opts.pathIndex \in DOMAIN WpnUpCourses /\ WpnUpCourses[opts.pathIndex] \in Items
    BY <2>1, CoursesAssumption, LenProperties, ElementOfSeq
  <2>3. WpnUpCourses[opts.pathIndex] \in FiveStarWpnUp
    BY <2>2, CoursesAssumption
  <2>4. EpitomizedPath = WpnUpCourses[opts.pathIndex]
    <3>1. Row(Version) >= 0
      BY RowType
    <3>2. QED BY <1>1, <1>3, <3>1 DEF EpitomizedPath
  <2>5. QED BY <1>3, <2>2, <2>3, <2>4
<1>4. CASE opts.pathIndex > 0 /\ opts.banner = "CHRONICLED"
  <2>1. opts.pathIndex \in 1..Len(ChronicleCourses)
    <3>1. Len(ChronicleCourses) \in Nat
      BY CoursesAssumption, LenProperties
    <3>2. QED BY <1>1, <1>4, <3>1 DEF NoSuchCourse
  <2>2. opts.pathIndex \in DOMAIN ChronicleCourses /\ ChronicleCourses[opts.pathIndex] \in Items
    BY <2>1, CoursesAssumption, LenProperties, ElementOfSeq
  <2>3. ChronicleCourses[opts.pathIndex] \in ChroniclePool[5]["chr"] \cup ChroniclePool[5]["wpn"]
    BY <2>2, CoursesAssumption
  <2>4. EpitomizedPath = ChronicleCourses[opts.pathIndex]
    BY <1>1, <1>4 DEF EpitomizedPath
  <2>5. QED BY <1>4, <2>2, <2>3, <2>4
<1>5. QED BY <1>1, <1>2, <1>3, <1>4

LEMMA ConfigType ==
  ASSUME OptsInv, ~LineRefused, Version[1] >= 1, StdPoolIndex \in 0..39
  PROVE  Handover.g.cfg \in Config
<1>1. opts \in OptsType
  BY DEF OptsInv
<1>2. opts.banner \in Banner /\ BannerToPull \in Banner
  BY <1>1 DEF OptsType, LineRefused, BannerToPull, Banner
<1>3. [r \in Star |-> IF opts.doSmooth[r] = 0 /\ opts.oldSmooth THEN -1 ELSE opts.doSmooth[r]]
        \in [Star -> {-1, 0, 1}]
  BY <1>1 DEF OptsType
<1>4. opts.do5050 \in {-1, 0, 1} /\ opts.doPity \in [Star -> {0, 1}]
  BY <1>1 DEF OptsType
<1>5. Radiance \in {0, 1}
  <2>1. opts.doRadiance \in -1..1
    BY <1>1 DEF OptsType
  <2>2. QED BY <2>1 DEF Radiance
<1>6. EpitomizedLimit \in 0..2 /\ EpitomizedPath \in Items /\ StdPoolIndex \in PoolIndex
  BY LimitType, CourseTaken, AllPoolsAssumption DEF LineRefused
<1>7. QED BY <1>2, <1>3, <1>4, <1>5, <1>6 DEF Handover, Config

LEMMA HandoverLegal ==
  ASSUME OptsInv, ~LineRefused, Version[1] >= 1, StdPoolIndex \in 0..39
  PROVE  Legal(Handover.g) /\ Handover.order \in Order
<1>1. opts \in OptsType /\ opts.pity[4] <= 11
  BY DEF OptsInv
<1>2. /\ BannerToPull \in WeaponBanner <=> opts.banner \in WeaponBanner
      /\ BannerToPull = "WPN" <=> opts.banner = "WPN"
      /\ BannerToPull = "CHRONICLED" <=> opts.banner = "CHRONICLED"
  BY DEF BannerToPull, WeaponBanner
<1>3. Handover.g.cfg \in Config
  BY ConfigType
<1>4. EpitomizedPath \in PathOffered(Handover.g.cfg)
  BY <1>2, CourseTaken DEF Handover, PathOffered, LineRefused
<1>5. Handover.g.cfg.banner # "WPN" => Handover.g.cfg.doEpitomized <= 1
  BY <1>2, LimitType DEF Handover
<1>6. /\ opts.pity \in [Star -> 0..90]
      /\ opts.pity[4] <= IF BannerToPull \in WeaponBanner THEN 9 ELSE 11
      /\ opts.pity[5] <= IF BannerToPull \in WeaponBanner THEN 79 ELSE 90
  <2>1. opts.pity \in [Star -> 0..90]
    BY <1>1 DEF OptsType
  <2>2. opts.pity[4] \in 0..90 /\ opts.pity[5] \in 0..90
    BY <2>1 DEF Star
  <2>3. opts.banner \in WeaponBanner => ~(opts.pity[4] >= 10) /\ ~(opts.pity[5] >= 80)
    BY DEF LineRefused, WeaponPityTooHigh
  <2>4. QED BY <1>1, <1>2, <2>1, <2>2, <2>3
<1>7. opts.pityS \in [Star -> [Class -> Byte]] /\ opts.getRateUp \in [Star -> {0, 1}]
      /\ opts.fatePoints \in 0..2
  BY <1>1 DEF OptsType
<1>8. Handover.g.cfg.banner = "NOVICE" => Handover.g.cfg.stdPoolIndex = 0
  BY DEF Handover, BannerToPull, StdPoolIndex
<1>9. Legal(Handover.g)
  BY <1>3, <1>4, <1>5, <1>6, <1>7, <1>8 DEF Legal, Handover
<1>10. Handover.order \in Order
  BY <1>1 DEF Handover, Order, OptsType
<1>11. QED BY <1>9, <1>10

\* The engine starts from a state it can work with, and the loop from numbers it
\* can count with, after every command line that names a major version and none
\* of the two pools that are not filled in (yagiws.c 240-686).
THEOREM HandsOverCorrect == SpecC => []HandsOverLegal
<1>1. OptsInv => HandsOverLegal
  <2>1. SUFFICES ASSUME OptsInv, stage = "ready", Version[1] >= 1,
                        opts.banner = "NOVICE" \/ PoolVersion \notin UnfilledPools
                 PROVE  Legal(handed[1].g) /\ handed[1].order \in Order
    BY DEF HandsOverLegal
  <2>2. handed[1] = Handover /\ ~LineRefused
    BY <2>1 DEF OptsInv, Resolved
  <2>3. QED BY <2>1, <2>2, PoolIndexType, HandoverLegal
<1>2. QED BY <1>1, LineInvariant, PTL

\* No digits of a version lead outside the tables, once there is a major one
\* (yagiws.c 533-571).
THEOREM RowsCorrect == SpecC => []RowInsideTables
<1>1. OptsInv => RowInsideTables
  <2>1. SUFFICES ASSUME OptsInv, stage = "ready", Version[1] >= 1
                 PROVE  handed[1].row \in 0..81
    BY DEF RowInsideTables
  <2>2. handed[1] = Handover
    BY <2>1 DEF OptsInv, Resolved
  <2>3. handed[1].row = Row(Version)
    BY <2>2 DEF Handover
  <2>4. QED BY <2>1, <2>3, RowType
<1>2. QED BY <1>1, LineInvariant, PTL

\* The limit of fate points is that of the version, for every phase and whatever
\* else the command line holds (yagiws.c 115-127 and 582-603).
THEOREM FateLimitCorrect == SpecC => []FateLimitOfVersion
<1>1. OptsInv => FateLimitOfVersion
  <2>1. SUFFICES ASSUME OptsInv, stage = "ready", opts.banner \in {"WPN", "CHRONICLED"},
                        \A k \in DOMAIN line : line[k].name # "epitomized_state"
                 PROVE  handed[1].g.cfg.doEpitomized =
                          IF opts.banner = "CHRONICLED" \/ Version[1] >= 5 THEN 1
                          ELSE IF Version[1] \in 2..4 THEN 2 ELSE 0
    BY DEF FateLimitOfVersion
  <2>2. handed[1].g.cfg.doEpitomized = EpitomizedLimit
    BY <2>1 DEF OptsInv, Resolved, Handover
  <2>3. opts.doEpitomized = -1
    BY <2>1 DEF OptsInv, LimitUnset
  <2>4. Version[1] \in 0..15 /\ Version[2] \in 0..15 /\ Version[3] \in 1..4
    BY <2>1, VersionType
  <2>5. VersionCode(Version) > 1280 <=> Version[1] >= 5
    BY <2>4 DEF VersionCode
  <2>6. VersionCode(Version) < 512 <=> Version[1] < 2
    BY <2>4 DEF VersionCode
  <2>7. QED BY <2>1, <2>2, <2>3, <2>4, <2>5, <2>6 DEF EpitomizedLimit
<1>2. QED BY <1>1, LineInvariant, PTL

\* Every line of options, however long, ends the program or hands something over.
THEOREM LineTypeCorrect == SpecC => []TypeOKC
<1>1. InitC => TypeOKC
  BY DEF InitC, TypeOKC
<1>2. TypeOKC /\ [NextC]_varsC => TypeOKC'
  <2> SUFFICES ASSUME TypeOKC, [NextC]_varsC PROVE TypeOKC'
    OBVIOUS
  <2>1. ASSUME NEW o \in Menu, TakeOption(o) \/ ShowHelp(o) \/ RefuseOption(o) PROVE TypeOKC'
    <3>1. /\ stage = "options" /\ line' = Append(line, o) /\ handed' = handed
          /\ stage' \in {"options", "shown", "refused"}
      BY <2>1 DEF TakeOption, ShowHelp, RefuseOption, ReadOption
    <3>2. line' \in Seq(Menu)
      BY <3>1, AppendProperties DEF TypeOKC
    <3>3. QED BY <3>1, <3>2 DEF TypeOKC
  <2>2. CASE ShowUsage \/ RefuseLine \/ ShowDetails
    BY <2>2 DEF ShowUsage, RefuseLine, ShowDetails, EndOfLine, TypeOKC
  <2>3. CASE StartWishes
    <3>1. <<Handover>> # <<>>
      OBVIOUS
    <3>2. QED BY <2>3, <3>1 DEF StartWishes, EndOfLine, TypeOKC
  <2>4. CASE UNCHANGED varsC
    BY <2>4 DEF varsC, TypeOKC
  <2>5. QED BY <2>1, <2>2, <2>3, <2>4 DEF NextC
<1>3. QED BY <1>1, <1>2, PTL DEF SpecC

-----------------------------------------------------------------------------
(* Several versions on one command line. *)

\* The places of the -B that parsed.
Parsed == {k \in DOMAIN line : line[k].name = "banner_version" /\ line[k].nums # <<>>}

\* What the version is taken from, while the program goes on.
VersionKept ==
  stage \in {"options", "ready"} =>
    /\ Parsed = {} => opts.version[3] = -1
    /\ \A k \in Parsed : (\A j \in Parsed : j <= k) =>
         /\ opts.versionGiven
         /\ \A d \in DOMAIN line[k].nums : opts.version[d] = line[k].nums[d]
         /\ Len(line[k].nums) = 1 => opts.version[2] = 3
         /\ Len(line[k].nums) < 3 =>
              opts.version[3] = IF opts.version[1] = 5 /\ opts.version[2] = 3 THEN 2 ELSE 1

\* A -B that parsed is stored as given, and completed from the default version.
LEMMA VersionStored ==
  ASSUME NEW o \in Menu, o.name = "banner_version", o.nums # <<>>
  PROVE  /\ \A d \in DOMAIN o.nums : VersionArg(o)[d] = o.nums[d]
         /\ Len(o.nums) = 1 => VersionArg(o)[2] = 3
         /\ Len(o.nums) < 3 =>
              VersionArg(o)[3] = IF VersionArg(o)[1] = 5 /\ VersionArg(o)[2] = 3 THEN 2 ELSE 1
<1>1. o.nums \in Seq(Int) /\ Len(o.nums) \in 1..3 /\ DOMAIN o.nums = 1..Len(o.nums)
  <2>1. o.nums \in Seq(Int) /\ Len(o.nums) <= 3
    BY MenuAssumption
  <2>2. Len(o.nums) \in Nat \ {0}
    BY <2>1, FirstNumber
  <2>3. DOMAIN o.nums = 1..Len(o.nums)
    BY <2>1, LenProperties
  <2>4. Len(o.nums) \in 1..3
    <3>1. \A x \in Nat \ {0} : x <= 3 => x \in 1..3
      OBVIOUS
    <3>2. QED BY <2>1, <2>2, <3>1, Zenon
  <2>5. QED BY <2>1, <2>3, <2>4
<1>2. CASE Len(o.nums) = 3
  BY <1>1, <1>2 DEF VersionArg
<1>3. CASE Len(o.nums) = 2
  <2> DEFINE phase == IF o.nums = <<5, 3>> THEN 2 ELSE 1
  <2>1. VersionArg(o) = Append(o.nums, phase)
    BY <1>3 DEF VersionArg, Newest
  <2>2. o.nums = <<o.nums[1], o.nums[2]>>
    BY <1>1, <1>3
  <2>3. phase = IF o.nums[1] = 5 /\ o.nums[2] = 3 THEN 2 ELSE 1
    BY <2>2
  <2>4. phase \in Int
    OBVIOUS
  <2> HIDE DEF phase
  <2>5. /\ Append(o.nums, phase)[1] = o.nums[1] /\ Append(o.nums, phase)[2] = o.nums[2]
        /\ Append(o.nums, phase)[3] = phase
    BY <1>1, <1>3, <2>4, AppendProperties
  <2>6. DOMAIN o.nums = {1, 2}
    BY <1>1, <1>3
  <2>7. QED BY <2>1, <2>3, <2>5, <2>6
<1>4. CASE Len(o.nums) = 1
  <2>1. VersionArg(o) = <<o.nums[1], 3, IF o.nums[1] = 5 THEN 2 ELSE 1>>
    BY <1>4 DEF VersionArg, Newest
  <2>2. DOMAIN o.nums = {1}
    BY <1>1, <1>4
  <2>3. QED BY <2>1, <2>2
<1>5. QED BY <1>1, <1>2, <1>3, <1>4

LEMMA VersionStep ==
  ASSUME OptsInv, VersionKept, [NextC]_varsC
  PROVE  VersionKept'
<1>1. opts \in OptsType /\ line \in Seq(Menu)
  BY DEF OptsInv
<1>2. ASSUME NEW o \in Menu, TakeOption(o) PROVE VersionKept'
  <2> DEFINE n == Len(line) + 1
  <2>1. stage = "options" /\ stage' = "options" /\ line' = Append(line, o) /\ Accepts(o) /\ Store(o)
    BY <1>2 DEF TakeOption, ReadOption
  <2>2. /\ \A k \in DOMAIN line : k \in DOMAIN line' /\ line'[k] = line[k] /\ k < n
        /\ n \in DOMAIN line' /\ line'[n] = o
        /\ \A k \in DOMAIN line' : k \in DOMAIN line \/ k = n
        /\ \A k \in DOMAIN line' : n <= k => k = n
    <3>1. Len(line) \in Nat /\ DOMAIN line = 1..Len(line)
      BY <1>1, LenProperties
    <3>2. /\ line' \in Seq(Menu) /\ Len(line') = n
          /\ \A k \in 1..Len(line) : line'[k] = line[k]
          /\ line'[n] = o
      BY <1>1, <2>1, AppendProperties
    <3>3. DOMAIN line' = 1..n
      BY <3>2, LenProperties
    <3> HIDE DEF n
    <3>4. n = Len(line) + 1
      BY DEF n
    <3>5. QED BY <3>1, <3>2, <3>3, <3>4
  <2>3. opts' \in OptsType
    BY <1>1, <2>1, StoreType DEF OptsInv
  <2>4. CASE o.name = "banner_version" /\ o.nums # <<>>
    <3>1. opts'.version = VersionArg(o) /\ opts'.versionGiven
      <4>1. opts' = [opts EXCEPT !.version = VersionArg(o), !.versionGiven = TRUE]
        BY <2>1, <2>4, VersionOption
      <4>2. QED BY <1>1, <4>1 DEF OptsType
    <3>2. n \in Parsed' /\ \A k \in Parsed' : n <= k => k = n
      <4> HIDE DEF n
      <4>1. n \in Parsed'
        BY <2>2, <2>4 DEF Parsed
      <4>2. Parsed' \subseteq DOMAIN line'
        BY DEF Parsed
      <4>3. QED BY <2>2, <4>1, <4>2
    <3>3. \A k \in Parsed' : (\A j \in Parsed' : j <= k) => line'[k] = o
      BY <2>2, <3>2
    <3>4. /\ \A d \in DOMAIN o.nums : VersionArg(o)[d] = o.nums[d]
          /\ Len(o.nums) = 1 => VersionArg(o)[2] = 3
          /\ Len(o.nums) < 3 =>
               VersionArg(o)[3] = IF VersionArg(o)[1] = 5 /\ VersionArg(o)[2] = 3 THEN 2 ELSE 1
      BY <2>4, VersionStored
    <3>5. ASSUME NEW k \in Parsed', \A j \in Parsed' : j <= k
          PROVE  /\ opts'.versionGiven
                 /\ \A d \in DOMAIN line'[k].nums : opts'.version[d] = line'[k].nums[d]
                 /\ Len(line'[k].nums) = 1 => opts'.version[2] = 3
                 /\ Len(line'[k].nums) < 3 =>
                      opts'.version[3] = IF opts'.version[1] = 5 /\ opts'.version[2] = 3 THEN 2 ELSE 1
      <4>1. line'[k] = o
        BY <3>3, <3>5
      <4>2. QED BY <3>1, <3>4, <4>1
    <3>6. Parsed' # {}
      BY <3>2
    <3>7. QED BY <3>5, <3>6 DEF VersionKept
  <2>5. CASE ~(o.name = "banner_version" /\ o.nums # <<>>)
    <3>1. Parsed' = Parsed /\ \A k \in Parsed : line'[k] = line[k]
      BY <2>2, <2>5 DEF Parsed
    <3>2. opts'.version = opts.version /\ (opts.versionGiven => opts'.versionGiven)
      <4>1. CASE o.name = "banner_version"
        <5>1. opts' = [opts EXCEPT !.version = VersionArg(o), !.versionGiven = TRUE]
          BY <2>1, <4>1, VersionOption
        <5>2. VersionArg(o) = opts.version
          BY <2>5, <4>1, EmptySeq DEF VersionArg
        <5>3. QED BY <1>1, <5>1, <5>2 DEF OptsType
      <4>2. CASE o.name # "banner_version"
        BY <1>1, <2>1, <4>2, StoreFrame
      <4>3. QED BY <4>1, <4>2
    <3>3. Parsed = {} => opts'.version[3] = -1
      BY <2>1, <3>2 DEF VersionKept
    <3>4. ASSUME NEW k \in Parsed, \A j \in Parsed : j <= k
          PROVE  /\ opts'.versionGiven
                 /\ \A d \in DOMAIN line'[k].nums : opts'.version[d] = line'[k].nums[d]
                 /\ Len(line'[k].nums) = 1 => opts'.version[2] = 3
                 /\ Len(line'[k].nums) < 3 =>
                      opts'.version[3] = IF opts'.version[1] = 5 /\ opts'.version[2] = 3 THEN 2 ELSE 1
      <4>1. opts.versionGiven
        BY <2>1, <3>4 DEF VersionKept
      <4>2. line'[k] = line[k]
        BY <3>1
      <4>3. /\ \A d \in DOMAIN line[k].nums : opts.version[d] = line[k].nums[d]
            /\ Len(line[k].nums) = 1 => opts.version[2] = 3
            /\ Len(line[k].nums) < 3 =>
                 opts.version[3] = IF opts.version[1] = 5 /\ opts.version[2] = 3 THEN 2 ELSE 1
        BY <2>1, <3>4 DEF VersionKept
      <4>4. QED BY <3>2, <4>1, <4>2, <4>3
    <3>5. QED BY <3>1, <3>3, <3>4 DEF VersionKept
  <2>6. QED BY <2>4, <2>5
<1>3. ASSUME NEW o \in Menu, ShowHelp(o) \/ RefuseOption(o) PROVE VersionKept'
  BY <1>3 DEF ShowHelp, RefuseOption, VersionKept
<1>4. CASE ShowUsage \/ RefuseLine \/ ShowDetails
  BY <1>4 DEF ShowUsage, RefuseLine, ShowDetails, VersionKept
<1>5. CASE StartWishes \/ UNCHANGED varsC
  BY <1>5 DEF StartWishes, EndOfLine, varsC, VersionKept, Parsed
<1>6. QED BY <1>2, <1>3, <1>4, <1>5 DEF NextC

\* Of several -B the last decides alone, if it parsed, and without one the newest
\* version is used (yagiws.c 280-307 and 531).
THEOREM LastVersionCorrect == SpecC => []LastVersionCounts
<1>1. InitC => VersionKept
  BY DEF InitC, Defaults, VersionKept, Parsed
<1>2. OptsInv /\ VersionKept => LastVersionCounts
  <2> SUFFICES ASSUME OptsInv, VersionKept, stage = "ready" PROVE LastVersionCounts
    BY DEF LastVersionCounts
  <2>1. Parsed = {} => Version = Newest
    BY DEF OptsInv, PhaseKnown, Phases, VersionKept, Version
  <2>2. ASSUME NEW k \in Parsed, \A j \in Parsed : j <= k,
               \A d \in DOMAIN line[k].nums : line[k].nums[d] \in 0..15
        PROVE  /\ \A d \in DOMAIN line[k].nums : Version[d] = line[k].nums[d]
               /\ Len(line[k].nums) < 3 =>
                    Version[3] = IF Version[1] = 5 /\ Version[2] = 3 THEN 2 ELSE 1
    <3> DEFINE nums == line[k].nums
    <3>1. line[k] \in Menu /\ line[k].name = "banner_version" /\ nums # <<>>
      BY ElementOfSeq DEF OptsInv, Parsed
    <3>2. nums \in Seq(Int) /\ Len(nums) <= 3
      BY <3>1, MenuAssumption
    <3>3. Len(nums) \in 1..3 /\ DOMAIN nums = 1..Len(nums)
      <4> HIDE DEF nums
      <4>1. DOMAIN nums = 1..Len(nums)
        BY <3>2, LenProperties
      <4>2. Len(nums) \in Nat \ {0}
        BY <3>1, <3>2, FirstNumber
      <4>3. Len(nums) \in 1..3
        <5>1. \A x \in Nat \ {0} : x <= 3 => x \in 1..3
          OBVIOUS
        <5>2. QED BY <3>2, <4>2, <5>1, Zenon
      <4>4. QED BY <4>1, <4>3
    <3>4. /\ opts.versionGiven
          /\ \A d \in DOMAIN nums : opts.version[d] = nums[d]
          /\ Len(nums) = 1 => opts.version[2] = 3
          /\ Len(nums) < 3 =>
               opts.version[3] = IF opts.version[1] = 5 /\ opts.version[2] = 3 THEN 2 ELSE 1
      BY <2>2 DEF VersionKept
    <3>5. \A d \in DOMAIN nums : nums[d] \in 0..15
      BY <2>2
    <3> HIDE DEF nums
    <3>6. opts.version \in [1..3 -> Int] /\ Version = Nibbles(opts.version)
      BY <3>4 DEF OptsInv, OptsType, Version
    <3>7. \A d \in 1..3 : Version[d] = opts.version[d] % 16
      BY <3>6 DEF Nibbles
    <3>8. \A x \in 0..15 : x % 16 = x
      OBVIOUS
    <3>9. \A d \in DOMAIN nums : Version[d] = nums[d]
      <4>1. \A d \in DOMAIN nums : d \in 1..3
        BY <3>3
      <4>2. QED BY <3>4, <3>5, <3>7, <3>8, <4>1
    <3>10. ASSUME Len(nums) < 3
           PROVE  Version[3] = IF Version[1] = 5 /\ Version[2] = 3 THEN 2 ELSE 1
      <4>1. opts.version[3] \in {1, 2}
        BY <3>4, <3>10
      <4>2. Version[3] = opts.version[3]
        BY <3>7, <3>8, <4>1
      <4>3. 1 \in DOMAIN nums /\ (2 \in DOMAIN nums \/ Len(nums) = 1)
        BY <3>3
      <4>4. Version[1] = opts.version[1] /\ Version[2] = opts.version[2]
        BY <3>4, <3>7, <3>8, <3>9, <4>3
      <4>5. QED BY <3>4, <3>10, <4>2, <4>4
    <3>11. QED BY <3>9, <3>10 DEF nums
  <2> DEFINE given == {k \in DOMAIN line : line[k].name = "banner_version"}
  <2>3. Parsed \subseteq given
    BY DEF Parsed
  <2>4. given = {} => Version = Newest
    BY <2>1, <2>3
  <2>5. ASSUME NEW k \in given, \A j \in given : j <= k, line[k].nums # <<>>,
               \A d \in DOMAIN line[k].nums : line[k].nums[d] \in 0..15
        PROVE  /\ \A d \in DOMAIN line[k].nums : Version[d] = line[k].nums[d]
               /\ Len(line[k].nums) < 3 =>
                    Version[3] = IF Version[1] = 5 /\ Version[2] = 3 THEN 2 ELSE 1
    <3>1. k \in Parsed /\ \A j \in Parsed : j <= k
      BY <2>3, <2>5 DEF Parsed
    <3>2. QED BY <2>2, <2>5, <3>1
  <2>6. QED BY <2>4, <2>5 DEF LastVersionCounts
<1>3. QED BY <1>1, <1>2, LineInvariant, VersionStep, PTL DEF SpecC
-----------------------------------------------------------------------------
(* The rows and the pools, counted. *)

\* The digits of the released phases.
MinorOf(a) == IF a = 1 THEN 6 ELSE IF a = 5 THEN 4 ELSE 8
PhasesOf(a, b) == IF a = 1 /\ b = 3 THEN 4 ELSE 2
Digits(a, b, c) == a \in 1..5 /\ b \in 0..MinorOf(a) /\ c \in 1..PhasesOf(a, b)

\* The row of a phase: that of the first phase of x.0, two rows for each minor
\* version, and two more from 1.4 on.
FirstRow(a) == IF a = 1 THEN 0 ELSE 18 * a - 20
RowOf(a, b, c) ==
  FirstRow(a) + 2 * b + c - 1 + (IF a = 1 /\ b > 3 THEN 2 ELSE 0)

LEMMA VersionsByDigits ==
  \A w : w \in AllVersions <=> \E a \in 1..5 : \E b \in 0..MinorOf(a) : w = <<a, b>>
<1>1. DOMAIN LastMinor = 1..5 /\ \A a \in 1..5 : LastMinor[a] = MinorOf(a)
  BY DEF LastMinor, MinorOf
<1>2. \A w : w \in AllVersions <=> \E a \in DOMAIN LastMinor : w \in {<<a, b>> : b \in 0..LastMinor[a]}
  BY DEF AllVersions
<1>3. QED BY <1>1, <1>2

LEMMA PhasesByDigits ==
  \A w : w \in AllPhases <=> \E a, b, c : Digits(a, b, c) /\ w = <<a, b, c>>
<1>1. \A a, b : Phases(a, b) = 1..PhasesOf(a, b)
  BY DEF Phases, PhasesOf
<1>2. \A w : w \in AllPhases <=> \E v \in AllVersions : w \in {<<v[1], v[2], c>> : c \in Phases(v[1], v[2])}
  BY DEF AllPhases
<1>3. ASSUME NEW w \in AllPhases PROVE \E a, b, c : Digits(a, b, c) /\ w = <<a, b, c>>
  <2>1. PICK v \in AllVersions : w \in {<<v[1], v[2], c>> : c \in Phases(v[1], v[2])}
    BY <1>2
  <2>2. PICK a, b : a \in 1..5 /\ b \in 0..MinorOf(a) /\ v = <<a, b>>
    BY VersionsByDigits
  <2>3. PICK c \in 1..PhasesOf(a, b) : w = <<a, b, c>>
    BY <1>1, <2>1, <2>2
  <2>4. QED BY <2>2, <2>3 DEF Digits
<1>4. ASSUME NEW a, NEW b, NEW c, Digits(a, b, c) PROVE <<a, b, c>> \in AllPhases
  <2>1. <<a, b>> \in AllVersions
    BY <1>4, VersionsByDigits DEF Digits
  <2>2. c \in Phases(a, b)
    BY <1>1, <1>4 DEF Digits
  <2>3. <<a, b>>[1] = a /\ <<a, b>>[2] = b
    OBVIOUS
  <2>4. QED BY <1>2, <2>1, <2>2, <2>3
<1>5. QED BY <1>3, <1>4

\* The arithmetic on hexadecimal digits counts the versions.
LEMMA SqueezedByDigits ==
  ASSUME NEW a \in 1..5, NEW b \in 0..MinorOf(a)
  PROVE  Squeezed(16 * a + b) = (IF a = 1 THEN 16 + b ELSE 9 * a + 5 + b)
<1>1. CASE a = 1
  BY <1>1 DEF Squeezed, MinorOf
<1>2. CASE a = 2
  BY <1>2 DEF Squeezed, MinorOf
<1>3. CASE a = 3
  BY <1>3 DEF Squeezed, MinorOf
<1>4. CASE a = 4
  BY <1>4 DEF Squeezed, MinorOf
<1>5. CASE a = 5
  BY <1>5 DEF Squeezed, MinorOf
<1>6. QED BY <1>1, <1>2, <1>3, <1>4, <1>5

LEMMA RowByDigits ==
  ASSUME NEW a, NEW b, NEW c, Digits(a, b, c)
  PROVE  Row(<<a, b, c>>) = RowOf(a, b, c) /\ RowOf(a, b, c) \in 0..79
<1> DEFINE s == Squeezed(16 * a + b)
<1>1. Row(<<a, b, c>>) = c - 1 + 2 * (IF (IF s >= 20 THEN s + 1 ELSE s) - 16 > 40 THEN 40
                                      ELSE (IF s >= 20 THEN s + 1 ELSE s) - 16)
  BY DEF Row
<1>2. s = IF a = 1 THEN 16 + b ELSE 9 * a + 5 + b
  BY SqueezedByDigits DEF Digits
<1> HIDE DEF s
<1>3. a \in 1..5 /\ b \in 0..8 /\ c \in 1..4
      /\ (a = 1 => b <= 6) /\ (a = 5 => b <= 4) /\ (c > 2 => a = 1 /\ b = 3)
  BY DEF Digits, MinorOf, PhasesOf
<1>4. CASE a = 1
  BY <1>1, <1>2, <1>3, <1>4 DEF RowOf, FirstRow
<1>5. CASE a # 1
  BY <1>1, <1>2, <1>3, <1>5 DEF RowOf, FirstRow
<1>6. QED BY <1>4, <1>5

\* Later phases have larger rows, and every row up to the last is that of one.
LEMMA RowsInOrder ==
  ASSUME NEW a, NEW b, NEW c, Digits(a, b, c), NEW x, NEW y, NEW z, Digits(x, y, z)
  PROVE  /\ Before(<<a, b, c>>, <<x, y, z>>) <=> RowOf(a, b, c) < RowOf(x, y, z)
         /\ RowOf(a, b, c) = RowOf(x, y, z) => a = x /\ b = y /\ c = z
<1>1. a \in 1..5 /\ b \in 0..8 /\ c \in 1..4
      /\ (a = 1 => b <= 6) /\ (a = 5 => b <= 4) /\ (c > 2 => a = 1 /\ b = 3)
  BY DEF Digits, MinorOf, PhasesOf
<1>2. x \in 1..5 /\ y \in 0..8 /\ z \in 1..4
      /\ (x = 1 => y <= 6) /\ (x = 5 => y <= 4) /\ (z > 2 => x = 1 /\ y = 3)
  BY DEF Digits, MinorOf, PhasesOf
<1>3. Before(<<a, b, c>>, <<x, y, z>>) <=> a < x \/ (a = x /\ b < y) \/ (a = x /\ b = y /\ c < z)
  BY DEF Before
<1>4. /\ a < x => RowOf(a, b, c) < RowOf(x, y, z)
      /\ x < a => RowOf(x, y, z) < RowOf(a, b, c)
  BY <1>1, <1>2 DEF RowOf, FirstRow
<1>5. a = x => /\ b < y => RowOf(a, b, c) < RowOf(x, y, z)
               /\ y < b => RowOf(x, y, z) < RowOf(a, b, c)
               /\ b = y => RowOf(a, b, c) - c = RowOf(x, y, z) - z
  BY <1>1, <1>2 DEF RowOf, FirstRow
<1>6. RowOf(a, b, c) \in 0..79 /\ RowOf(x, y, z) \in 0..79
  BY RowByDigits
<1> DEFINE m == RowOf(a, b, c)  n == RowOf(x, y, z)
<1>7. m \in Int /\ n \in Int
  BY <1>6
<1> HIDE DEF m, n
<1>8. CASE a # x
  <2>1. a < x \/ x < a
    BY <1>1, <1>2, <1>8
  <2>2. (a < x => m < n) /\ (x < a => n < m)
    BY <1>4 DEF m, n
  <2>3. (Before(<<a, b, c>>, <<x, y, z>>) <=> m < n) /\ m # n
    BY <1>1, <1>2, <1>3, <1>7, <1>8, <2>1, <2>2
  <2>4. QED BY <2>3 DEF m, n
<1>9. CASE a = x
  <2>1. (b < y => m < n) /\ (y < b => n < m) /\ (b = y => m - c = n - z)
    BY <1>5, <1>9 DEF m, n
  <2>2. /\ Before(<<a, b, c>>, <<x, y, z>>) <=> m < n
        /\ m = n => b = y /\ c = z
    BY <1>1, <1>2, <1>3, <1>7, <1>9, <2>1
  <2>3. QED BY <1>9, <2>2 DEF m, n
<1>10. QED BY <1>8, <1>9

LEMMA EveryRow ==
  ASSUME NEW i \in 0..79
  PROVE  \E a, b, c : Digits(a, b, c) /\ RowOf(a, b, c) = i
<1>1. CASE i \in 0..7
  <2>1. CASE i < 6
    <3>1. Digits(1, i \div 2, (i % 2) + 1) /\ RowOf(1, i \div 2, (i % 2) + 1) = i
      BY <1>1, <2>1 DEF Digits, MinorOf, PhasesOf, RowOf, FirstRow
    <3>2. QED BY <3>1
  <2>2. CASE i >= 6
    <3>1. Digits(1, 3, i - 5) /\ RowOf(1, 3, i - 5) = i
      BY <1>1, <2>2 DEF Digits, MinorOf, PhasesOf, RowOf, FirstRow
    <3>2. QED BY <3>1
  <2>3. QED BY <1>1, <2>1, <2>2
<1>2. CASE i \in 8..9
  <2>1. Digits(1, 3, i - 5) /\ RowOf(1, 3, i - 5) = i
    BY <1>2 DEF Digits, MinorOf, PhasesOf, RowOf, FirstRow
  <2>2. QED BY <2>1
<1>3. CASE i \in 10..15
  <2>1. Digits(1, (i - 2) \div 2, (i % 2) + 1) /\ RowOf(1, (i - 2) \div 2, (i % 2) + 1) = i
    BY <1>3 DEF Digits, MinorOf, PhasesOf, RowOf, FirstRow
  <2>2. QED BY <2>1
<1>4. ASSUME NEW a \in 2..5, i \in FirstRow(a)..(FirstRow(a) + 17), a = 5 => i < 80
      PROVE  \E b, c : Digits(a, b, c) /\ RowOf(a, b, c) = i
  <2> DEFINE d == i - FirstRow(a)
  <2>1. d \in 0..17 /\ (a = 5 => d < 10) /\ i = FirstRow(a) + d
    BY <1>4 DEF FirstRow
  <2> HIDE DEF d
  <2>2. Digits(a, d \div 2, (d % 2) + 1)
    BY <2>1 DEF Digits, MinorOf, PhasesOf
  <2>3. RowOf(a, d \div 2, (d % 2) + 1) = i
    BY <2>1 DEF RowOf, FirstRow
  <2>4. QED BY <2>2, <2>3
<1>5. \/ i \in 0..7 \/ i \in 8..9 \/ i \in 10..15
      \/ \E a \in 2..5 : i \in FirstRow(a)..(FirstRow(a) + 17) /\ (a = 5 => i < 80)
  <2>1. FirstRow(2) = 16 /\ FirstRow(3) = 34 /\ FirstRow(4) = 52 /\ FirstRow(5) = 70
    BY DEF FirstRow
  <2>2. QED BY <2>1
<1>6. QED BY <1>1, <1>2, <1>3, <1>4, <1>5

\* Where ranks run through 0..m-1, each given once, n elements have one below n.
LEMMA RankedBelow ==
  ASSUME NEW All, NEW m \in Nat, NEW rank \in [All -> 0..(m - 1)],
         \A w, u \in All : rank[w] = rank[u] => w = u,
         \A i \in 0..(m - 1) : \E w \in All : rank[w] = i,
         NEW n \in 0..m
  PROVE  Cardinality({w \in All : rank[w] < n}) = n
<1> DEFINE Lower == {w \in All : rank[w] < n}
           F == [k \in 1..n |-> CHOOSE w \in All : rank[w] = k - 1]
<1>1. \A k \in 1..n : F[k] \in All /\ rank[F[k]] = k - 1
  <2>1. SUFFICES ASSUME NEW k \in 1..n PROVE F[k] \in All /\ rank[F[k]] = k - 1
    OBVIOUS
  <2>2. k - 1 \in 0..(m - 1)
    OBVIOUS
  <2>3. \E w \in All : rank[w] = k - 1
    BY <2>2
  <2>4. F[k] = CHOOSE w \in All : rank[w] = k - 1
    OBVIOUS
  <2>5. QED BY <2>3, <2>4
<1>2. F = [k \in 1..n |-> F[k]]
  OBVIOUS
<1> HIDE DEF F
<1>3. \A k \in 1..n : F[k] \in Lower
  <2>1. \A k \in 1..n : k - 1 < n
    OBVIOUS
  <2>2. QED BY <1>1, <2>1
<1>4. F \in [1..n -> Lower]
  BY <1>2, <1>3
<1>5. \A i, j \in 1..n : F[i] = F[j] => i = j
  <2>1. SUFFICES ASSUME NEW i \in 1..n, NEW j \in 1..n, F[i] = F[j] PROVE i = j
    OBVIOUS
  <2>2. i - 1 = j - 1
    BY <1>1, <2>1
  <2>3. QED BY <2>2
<1>6. \A w \in Lower : \E k \in 1..n : F[k] = w
  <2>1. SUFFICES ASSUME NEW w \in Lower PROVE \E k \in 1..n : F[k] = w
    OBVIOUS
  <2> DEFINE k == rank[w] + 1
  <2>2. k \in 1..n /\ k - 1 = rank[w]
    <3>1. rank[w] \in 0..(m - 1) /\ rank[w] < n
      OBVIOUS
    <3>2. QED BY <3>1
  <2>3. F[k] \in All /\ rank[F[k]] = k - 1
    BY <1>1, <2>2
  <2>4. F[k] = w
    BY <2>2, <2>3
  <2>5. QED BY <2>2, <2>4
<1> HIDE DEF Lower
<1>7. F \in Bijection(1..n, Lower)
  BY <1>4, <1>5, <1>6, Fun_IsBij
<1>8. Cardinality(Lower) = n
  BY <1>7, Fun_ExistsBij, FS_CountingElements
<1>9. QED BY <1>8 DEF Lower

LEMMA RowCounts ==
  ASSUME NEW v \in AllPhases
  PROVE  Row(v) = Cardinality({w \in AllPhases : Before(w, v)})
<1> DEFINE rank == [w \in AllPhases |-> Row(w)]
<1>1. PICK x, y, z : Digits(x, y, z) /\ v = <<x, y, z>>
  BY PhasesByDigits
<1>2. \A w \in AllPhases : /\ Row(w) \in 0..79
                           /\ Before(w, v) <=> Row(w) < Row(v)
                           /\ \A u \in AllPhases : Row(w) = Row(u) => w = u
  <2>1. SUFFICES ASSUME NEW w \in AllPhases
                 PROVE  /\ Row(w) \in 0..79
                        /\ Before(w, v) <=> Row(w) < Row(v)
                        /\ \A u \in AllPhases : Row(w) = Row(u) => w = u
    OBVIOUS
  <2>2. PICK a, b, c : Digits(a, b, c) /\ w = <<a, b, c>>
    BY PhasesByDigits
  <2>3. Row(w) = RowOf(a, b, c) /\ Row(w) \in 0..79
    BY <2>2, RowByDigits
  <2>4. Before(w, v) <=> Row(w) < Row(v)
    BY <1>1, <2>2, RowByDigits, RowsInOrder
  <2>5. ASSUME NEW u \in AllPhases, Row(w) = Row(u) PROVE w = u
    <3>1. PICK d, e, f : Digits(d, e, f) /\ u = <<d, e, f>>
      BY PhasesByDigits
    <3>2. RowOf(a, b, c) = RowOf(d, e, f)
      BY <2>3, <2>5, <3>1, RowByDigits
    <3>3. a = d /\ b = e /\ c = f
      BY <2>2, <3>1, <3>2, RowsInOrder
    <3>4. QED BY <2>2, <3>1, <3>3
  <2>6. QED BY <2>3, <2>4, <2>5
<1>3. \A i \in 0..79 : \E w \in AllPhases : Row(w) = i
  <2>1. SUFFICES ASSUME NEW i \in 0..79 PROVE \E w \in AllPhases : Row(w) = i
    OBVIOUS
  <2>2. PICK a, b, c : Digits(a, b, c) /\ RowOf(a, b, c) = i
    BY EveryRow
  <2>3. Row(<<a, b, c>>) = i /\ <<a, b, c>> \in AllPhases
    BY <2>2, RowByDigits, PhasesByDigits
  <2>4. QED BY <2>3
<1>4. Cardinality({w \in AllPhases : rank[w] < Row(v)}) = Row(v)
  <2> DEFINE m == 80
  <2>1. m \in Nat /\ 0..(m - 1) = 0..79
    OBVIOUS
  <2> HIDE DEF m
  <2>2. rank \in [AllPhases -> 0..(m - 1)]
    BY <1>2, <2>1
  <2>3. \A w, u \in AllPhases : rank[w] = rank[u] => w = u
    BY <1>2
  <2>4. \A i \in 0..(m - 1) : \E w \in AllPhases : rank[w] = i
    BY <1>3, <2>1
  <2>5. Row(v) \in 0..m
    BY <1>2 DEF m
  <2> HIDE DEF rank
  <2>6. QED BY <2>1, <2>2, <2>3, <2>4, <2>5, RankedBelow
<1>5. {w \in AllPhases : rank[w] < Row(v)} = {w \in AllPhases : Before(w, v)}
  BY <1>2
<1>6. QED BY <1>4, <1>5

LEMMA ReleasedDigits ==
  ASSUME OptsInv, Released(Version)
  PROVE  Digits(Version[1], Version[2], Version[3])
<1>1. /\ Version[1] \in 1..5 /\ Version[2] \in 0..15 /\ Version[3] \in 1..4
      /\ Version[3] > 2 => Version[1] = 1 /\ Version[2] = 3
      /\ Version[1] = 1 => Version[2] <= 6
      /\ Version[1] \in {2, 3, 4} => Version[2] <= 8
      /\ Version[1] = 5 => Version[2] <= 4
  BY VersionType DEF Released, LastMinor
<1>2. Version[2] \in 0..MinorOf(Version[1])
  BY <1>1 DEF MinorOf
<1>3. Version[3] \in 1..PhasesOf(Version[1], Version[2])
  BY <1>1 DEF PhasesOf
<1>4. QED BY <1>1, <1>2, <1>3 DEF Digits

\* The row picked is the number of phases before the one asked for, for every
\* released version and however the command line gives it (yagiws.c 533-571).
THEOREM VersionRowCorrect == SpecC => []VersionRow
<1>1. OptsInv => VersionRow
  <2>1. SUFFICES ASSUME OptsInv, stage = "ready", Released(Version)
                 PROVE  handed[1].row = Cardinality({w \in AllPhases : Before(w, Version)})
    BY DEF VersionRow
  <2>2. handed[1].row = Row(Version)
    BY <2>1 DEF OptsInv, Resolved, Handover
  <2>3. Digits(Version[1], Version[2], Version[3])
    BY <2>1, ReleasedDigits
  <2>4. Version = <<Version[1], Version[2], Version[3]>>
    BY <2>1, VersionDigits
  <2>5. Version \in AllPhases
    BY <2>3, <2>4, PhasesByDigits
  <2>6. QED BY <2>2, <2>5, RowCounts
<1>2. QED BY <1>1, LineInvariant, PTL

\* The rows of the program's table that have a second banner.
ProgramRows ==
  \A r \in 0..79 : r \in SecondRows <=> r \in {22, 30, 32} \cup 24..25 \cup 27..28 \cup 34..79

\* They are those of the phases with one.
LEMMA SecondByDigits ==
  ASSUME ProgramRows, NEW a, NEW b, NEW c, Digits(a, b, c)
  PROVE  Row(<<a, b, c>>) \in SecondRows <=> SecondRan(<<a, b, c>>)
<1>1. a \in 1..5 /\ b \in 0..8 /\ c \in 1..4
      /\ (a = 1 => b <= 6) /\ (a = 5 => b <= 4) /\ (c > 2 => a = 1 /\ b = 3)
  BY DEF Digits, MinorOf, PhasesOf
<1> DEFINE r == RowOf(a, b, c)
           Without == {<<2, 3, 2>>, <<2, 5, 1>>, <<2, 6, 2>>, <<2, 7, 2>>, <<2, 8, 2>>}
<1>2. Row(<<a, b, c>>) = r /\ r \in 0..79
  BY RowByDigits
<1>3. r \in SecondRows <=> r \in {22, 30, 32} \cup 24..25 \cup 27..28 \cup 34..79
  BY <1>2 DEF ProgramRows
<1>4. r = FirstRow(a) + 2 * b + c - 1 + (IF a = 1 /\ b > 3 THEN 2 ELSE 0)
  BY DEF RowOf
<1>5. Before(<<a, b, c>>, <<2, 3, 1>>) <=> a < 2 \/ (a = 2 /\ b < 3) \/ (a = 2 /\ b = 3 /\ c < 1)
  BY DEF Before
<1>6. <<a, b, c>> \in Without <=>
        a = 2 /\ ((b = 3 /\ c = 2) \/ (b = 5 /\ c = 1) \/ (b \in 6..8 /\ c = 2))
  BY <1>1
<1>7. SecondRan(<<a, b, c>>) <=> ~Before(<<a, b, c>>, <<2, 3, 1>>) /\ <<a, b, c>> \notin Without
  BY DEF SecondRan
<1> HIDE DEF r, Without
<1>8. CASE a = 1
  BY <1>1, <1>3, <1>4, <1>5, <1>7, <1>8, <1>2 DEF FirstRow
<1>9. CASE a = 2
  BY <1>1, <1>3, <1>4, <1>5, <1>6, <1>7, <1>9, <1>2 DEF FirstRow
<1>10. CASE a \in 3..5
  BY <1>1, <1>3, <1>4, <1>5, <1>6, <1>7, <1>10, <1>2 DEF FirstRow
<1>11. QED BY <1>1, <1>2, <1>8, <1>9, <1>10

\* Of released versions the banner asked for is the one pulled from if it ran
\* in that phase, and the first in place of a second that did not (bannerdata.c
\* 135-259 and 550-559, yagiws.c 573-580 and 669-674).
THEOREM BannerRanCorrect ==
  ASSUME ProgramRows
  PROVE  SpecC => []BannerRan
<1>1. OptsInv => BannerRan
  <2>1. SUFFICES ASSUME OptsInv, stage = "ready", Released(Version)
                 PROVE  /\ handed[1].g.cfg.banner =
                             IF opts.banner = "CHAR2" /\ ~SecondRan(Version) THEN "CHAR1" ELSE opts.banner
                        /\ opts.banner = "CHRONICLED" => Version \in {<<4, 4, 1>>, <<5, 3, 2>>}
    BY DEF BannerRan
  <2>2. handed[1] = Handover /\ ~LineRefused
    BY <2>1 DEF OptsInv, Resolved
  <2>3. handed[1].g.cfg.banner = BannerToPull
    BY <2>2 DEF Handover
  <2>4. Row(Version) \in SecondRows <=> SecondRan(Version)
    BY <2>1, ReleasedDigits, VersionDigits, SecondByDigits
  <2>5. opts.banner = "CHRONICLED" => Row(Version) \in ChronicleRows
    BY <2>2 DEF LineRefused, NoChronicle
  <2>6. QED BY <2>1, <2>3, <2>4, <2>5, ChronicleVersion DEF BannerToPull
<1>2. QED BY <1>1, LineInvariant, PTL

\* The place of a version among the pools, from 1.0 on.
PlaceOf(a, b) == IF a = 1 THEN b ELSE 9 * a - 11 + b

LEMMA PhaseZero ==
  ASSUME NEW x \in Int, NEW y \in Int
  PROVE  /\ Append(<<x, y>>, 0)[1] = x
         /\ Append(<<x, y>>, 0)[2] = y
         /\ Append(<<x, y>>, 0)[3] = 0
OBVIOUS

LEMMA PoolCounts ==
  ASSUME NEW a \in 1..5, NEW b \in 0..MinorOf(a)
  PROVE  PlaceOf(a, b) = Cardinality({w \in AllVersions : Before(Append(w, 0), <<a, b, 0>>)})
<1> DEFINE rank == [w \in AllVersions |-> PlaceOf(w[1], w[2])]
           n == PlaceOf(a, b)
<1>1. \A x \in 1..5 : \A y \in 0..MinorOf(x) :
        /\ PlaceOf(x, y) \in 0..38
        /\ PlaceOf(x, y) < n <=> x < a \/ (x = a /\ y < b)
        /\ \A d \in 1..5 : \A e \in 0..MinorOf(d) : PlaceOf(x, y) = PlaceOf(d, e) => x = d /\ y = e
  BY DEF PlaceOf, MinorOf
<1>2. \A i \in 0..38 : \E x \in 1..5 : \E y \in 0..MinorOf(x) : PlaceOf(x, y) = i
  <2>1. SUFFICES ASSUME NEW i \in 0..38
                 PROVE  \E x \in 1..5 : \E y \in 0..MinorOf(x) : PlaceOf(x, y) = i
    OBVIOUS
  <2>2. CASE i <= 6
    <3>1. i \in 0..MinorOf(1) /\ PlaceOf(1, i) = i
      BY <2>2 DEF PlaceOf, MinorOf
    <3>2. QED BY <3>1
  <2>3. ASSUME NEW x \in 2..5, i \in (9 * x - 11)..(9 * x - 3)
        PROVE  \E y \in 0..MinorOf(x) : PlaceOf(x, y) = i
    <3>1. i - (9 * x - 11) \in 0..MinorOf(x) /\ PlaceOf(x, i - (9 * x - 11)) = i
      BY <2>3 DEF PlaceOf, MinorOf
    <3>2. QED BY <3>1
  <2>4. i <= 6 \/ i \in 7..15 \/ i \in 16..24 \/ i \in 25..33 \/ i \in 34..42
    OBVIOUS
  <2>5. i <= 6 \/ \E x \in 2..5 : i \in (9 * x - 11)..(9 * x - 3)
    BY <2>4
  <2>6. 1 \in 1..5 /\ \A x \in 2..5 : x \in 1..5
    OBVIOUS
  <2>7. QED BY <2>2, <2>3, <2>5, <2>6
<1>3. \A w \in AllVersions : \E x \in 1..5 : \E y \in 0..MinorOf(x) : w = <<x, y>>
  BY VersionsByDigits
<1>4. \A x \in 1..5 : \A y \in 0..MinorOf(x) : <<x, y>> \in AllVersions /\ rank[<<x, y>>] = PlaceOf(x, y)
  BY VersionsByDigits
<1>5. n \in 0..38
  BY <1>1
<1> HIDE DEF n
<1>6. rank \in [AllVersions -> 0..38]
  <2>1. \A w \in AllVersions : PlaceOf(w[1], w[2]) \in 0..38
    BY <1>1, <1>3
  <2>2. QED BY <2>1
<1>7. \A w \in AllVersions : Before(Append(w, 0), <<a, b, 0>>) <=> rank[w] < n
  <2>1. SUFFICES ASSUME NEW w \in AllVersions
                 PROVE  Before(Append(w, 0), <<a, b, 0>>) <=> rank[w] < n
    OBVIOUS
  <2>2. PICK x, y : x \in 1..5 /\ y \in 0..MinorOf(x) /\ w = <<x, y>>
    BY <1>3
  <2>3. Append(w, 0)[1] = x /\ Append(w, 0)[2] = y /\ Append(w, 0)[3] = 0
    <3>1. x \in Int /\ y \in Int
      BY <2>2 DEF MinorOf
    <3>2. QED BY <2>2, <3>1, PhaseZero
  <2>4. Before(Append(w, 0), <<a, b, 0>>) <=> x < a \/ (x = a /\ y < b)
    <3> DEFINE u == Append(w, 0)  v == <<a, b, 0>>
    <3>1. u[1] = x /\ u[2] = y /\ u[3] = 0
      BY <2>3
    <3>2. v[1] = a /\ v[2] = b /\ v[3] = 0
      OBVIOUS
    <3> HIDE DEF u, v
    <3>3. Before(u, v) <=> x < a \/ (x = a /\ y < b)
      BY <3>1, <3>2 DEF Before
    <3>4. QED BY <3>3 DEF u, v
  <2>5. rank[w] = PlaceOf(x, y)
    BY <1>4, <2>2
  <2>6. QED BY <1>1, <2>2, <2>3, <2>4, <2>5
<1> HIDE DEF rank
<1>8. \A w, u \in AllVersions : rank[w] = rank[u] => w = u
  <2>1. SUFFICES ASSUME NEW w \in AllVersions, NEW u \in AllVersions, rank[w] = rank[u] PROVE w = u
    OBVIOUS
  <2>2. PICK x, y : x \in 1..5 /\ y \in 0..MinorOf(x) /\ w = <<x, y>>
    BY <1>3
  <2>3. PICK d, e : d \in 1..5 /\ e \in 0..MinorOf(d) /\ u = <<d, e>>
    BY <1>3
  <2>4. PlaceOf(x, y) = PlaceOf(d, e)
    BY <1>4, <2>1, <2>2, <2>3
  <2>5. QED BY <1>1, <2>2, <2>3, <2>4
<1> DEFINE m == 39
<1>9. m \in Nat /\ 0..(m - 1) = 0..38 /\ n \in 0..m
  BY <1>5
<1> HIDE DEF m
<1>10. \A i \in 0..(m - 1) : \E w \in AllVersions : rank[w] = i
  <2>1. SUFFICES ASSUME NEW i \in 0..38 PROVE \E w \in AllVersions : rank[w] = i
    BY <1>9
  <2>2. PICK x, y : x \in 1..5 /\ y \in 0..MinorOf(x) /\ PlaceOf(x, y) = i
    BY <1>2
  <2>3. QED BY <1>4, <2>2
<1>11. Cardinality({w \in AllVersions : rank[w] < n}) = n
  BY <1>6, <1>8, <1>9, <1>10, RankedBelow
<1>12. {w \in AllVersions : rank[w] < n} = {w \in AllVersions : Before(Append(w, 0), <<a, b, 0>>)}
  BY <1>7
<1>13. QED BY <1>11, <1>12 DEF n

\* The pool of permanent items is the entry of the version asked for, one per
\* version after that of the Beginners' Wish (yagiws.c 625-668).
THEOREM PoolRowCorrect == SpecC => []PoolRow
<1>1. OptsInv => PoolRow
  <2> DEFINE a == PoolVersion[1]  b == PoolVersion[2]
  <2>1. SUFFICES ASSUME OptsInv, stage = "ready", opts.banner # "NOVICE", Released(PoolVersion)
                 PROVE  handed[1].g.cfg.stdPoolIndex =
                          1 + Cardinality({w \in AllVersions : Before(Append(w, 0), <<a, b, 0>>)})
    BY DEF PoolRow
  <2>2. handed[1].g.cfg.stdPoolIndex = StdPoolIndex
    BY <2>1 DEF OptsInv, Resolved, Handover
  <2>3. a \in 1..5 /\ b \in 0..MinorOf(a)
    <3>1. /\ a \in 1..5 /\ b \in 0..15
          /\ a = 1 => b <= 6
          /\ a \in {2, 3, 4} => b <= 8
          /\ a = 5 => b <= 4
      BY <2>1, PoolVersionType DEF Released, LastMinor
    <3>2. QED BY <3>1 DEF MinorOf
  <2>4. Squeezed(16 * a + b) = IF a = 1 THEN 16 + b ELSE 9 * a + 5 + b
    BY <2>3, SqueezedByDigits
  <2>5. StdPoolIndex = LET n == Squeezed(16 * a + b) - 15
                       IN  IF n < 1 THEN 1 ELSE IF n > 41 THEN 41 ELSE n
    BY <2>1 DEF StdPoolIndex
  <2> HIDE DEF a, b
  <2>6. StdPoolIndex = 1 + PlaceOf(a, b)
    BY <2>3, <2>4, <2>5 DEF MinorOf, PlaceOf
  <2>7. QED BY <2>2, <2>3, <2>6, PoolCounts
<1>2. QED BY <1>1, LineInvariant, PTL
=============================================================================
