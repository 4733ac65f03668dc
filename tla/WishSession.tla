---------------------------- MODULE WishSession -----------------------------
(***************************************************************************)
(* One run of the program after its options are resolved: main's loop of   *)
(* wishes (yagiws.c 881-954), with the guaranteed Noelle of the Beginners' *)
(* Wish and the forced stable counters of -C and -W, and the results it    *)
(* prints when the loop is over (yagiws.c 955-982).                        *)
(*                                                                         *)
(* It is the engine with its ledger, so that what is promised can be asked *)
(* of a whole session and what is printed compared with what was drawn.    *)
(***************************************************************************)
EXTENDS WishLedger

CONSTANT Orders(_)   \* what the remaining options may ask for, given the engine's

Noelle   == 1034
NotShown == -1

ASSUME OrdersAssumption == \A g \in Given : Orders(g.cfg) \subseteq Order

\* The pool of the Beginners' Wish ends before Noelle, who is listed right
\* behind it for that (bannerdata.c 561-567 and 633-634).
ASSUME BeginnersAssumption ==
  0 \in PoolIndex =>
    /\ \A k \in 1..FourStarMaxIndex[0] : FourStarChr[k + 3] # Noelle
    /\ \A k \in 1..FiveStarMaxIndex[0] : FiveStarChr[k] # Noelle

VARIABLES
  order,    \* the options of this run of the program
  i,        \* the wishes made in it
  report    \* what has been printed: nothing, or the results

session == <<order, i, report>>
varsS   == <<varsL, session>>

InitS ==
  /\ InitL
  /\ order \in Orders(cfg) /\ i = 0 /\ report = <<>>

NoellesTurn_Late == cfg.banner = "NOVICE" /\ i = 8 - order.noviceCnt

\* The 8th wish; with 8 wishes made the unsigned 7 - noviceCnt is out of reach.
NoellesTurn == cfg.banner = "NOVICE" /\ order.noviceCnt <= 7 /\ i = 7 - order.noviceCnt

NoelleWish_Uncounted ==    \* the wish is not counted towards the next 5-star
  /\ i < order.pulls /\ NoellesTurn
  /\ rare' = 4 /\ item' = Noelle /\ isRateUp' = 0
  /\ getRateUp' = [getRateUp EXCEPT ![4] = 0]
  /\ pity' = [pity EXCEPT ![4] = 0]
  /\ pityS' = [pityS EXCEPT ![4] = BothReset]
  /\ UNCHANGED <<cfg, fatePoints>>
  /\ Record
  /\ i' = i + 1 /\ UNCHANGED <<order, report>>

NoelleWish ==
  /\ i < order.pulls /\ NoellesTurn
  /\ rare' = 4 /\ item' = Noelle /\ isRateUp' = 0
  /\ getRateUp' = [getRateUp EXCEPT ![4] = 0]
  /\ pity' = [r \in Star |-> IF r = 4 THEN 0 ELSE Inc(pity[5])]
  /\ pityS' = [pityS EXCEPT ![4] = BothReset]
  /\ UNCHANGED <<cfg, fatePoints>>
  /\ Record
  /\ i' = i + 1 /\ UNCHANGED <<order, report>>

Forced_Equal ==            \* both counters forced to the same value
  IF order.forceSmooth = 0 THEN pityS ELSE [r \in Star |-> [c \in Class |-> 255]]

\* -C and -W write ~1 = 254 for the class they force and -1 = 255 for the other,
\* which the engine's ++ wraps to 0.
Forced ==
  CASE order.forceSmooth = 1 -> [r \in Star |-> [c \in Class |-> IF c = "chr" THEN 254 ELSE 255]]
    [] order.forceSmooth = 2 -> [r \in Star |-> [c \in Class |-> IF c = "wpn" THEN 254 ELSE 255]]
    [] OTHER -> pityS

EngineWish_OneMore ==      \* i <= pulls in the loop's condition
  /\ i <= order.pulls /\ ~NoellesTurn
  /\ DoAPull(Forced)
  /\ Record
  /\ i' = i + 1 /\ UNCHANGED <<order, report>>

EngineWish ==
  /\ i < order.pulls /\ ~NoellesTurn
  /\ DoAPull(Forced)
  /\ Record
  /\ i' = i + 1 /\ UNCHANGED <<order, report>>

Results_Swapped ==         \* the two guarantees printed in each other's line
  [pity |-> [r \in Star |-> IF cfg.doPity[r] = 1 THEN pity[r] ELSE NotShown],
   guaranteed |-> [r \in Star |->
      IF cfg.do5050 > 0 /\ cfg.banner \in {"CHAR1", "CHAR2", "WPN"} THEN getRateUp[9 - r] ELSE NotShown],
   fatePoints |-> NotShown,
   stable |-> pityS]

\* The results, with the conditions under which each is printed.
Results ==
  LET chronicle == cfg.banner = "CHRONICLED"
      showsRateUp == cfg.do5050 > 0 /\ (\/ cfg.banner \in {"CHAR1", "CHAR2", "WPN"}
                                        \/ chronicle /\ cfg.epitomizedPath # NoItem
                                                     /\ cfg.doEpitomized = 1)
      showsStable(r) ==
        /\ cfg.do5050 >= 0 /\ cfg.doSmooth[r] # 0
        /\ IF r = 4 THEN cfg.banner # "NOVICE"
           ELSE \/ cfg.banner \in {"STD_CHR", "STD_WPN", "STD_ONLY_CHR"}
                \/ chronicle /\ cfg.epitomizedPath = NoItem
  IN [pity |-> [r \in Star |-> IF cfg.doPity[r] = 1 THEN pity[r] ELSE NotShown],
      guaranteed |-> [r \in Star |->
         IF showsRateUp /\ (chronicle => r = 5) THEN getRateUp[r] ELSE NotShown],
      fatePoints |-> IF cfg.doEpitomized > 1 THEN fatePoints ELSE NotShown,
      stable |-> [r \in Star |-> [c \in Class |->
         IF showsStable(r) THEN pityS[r][c] ELSE NotShown]]]

Report ==
  /\ i = order.pulls /\ report = <<>>
  /\ report' = <<Results>>
  /\ UNCHANGED <<varsL, order, i>>

NextS == NoelleWish \/ EngineWish \/ Report

SpecS == InitS /\ [][NextS]_varsS

-----------------------------------------------------------------------------
TypeOKS ==
  /\ TypeOK
  /\ order \in Order /\ i \in 0..order.pulls
  /\ DOMAIN report \subseteq {1}

\* Over several runs of the program with -c, Noelle is the 8th wish on the
\* Beginners' banner and no other (yagiws.c 882: "8th wish is always Noelle").
NoelleIsEighth ==
  (cfg.banner = "NOVICE" /\ i > 0) => (item = Noelle <=> order.noviceCnt + i = 8)

\* Under -C every drop the stable mechanism decides is a character, under -W
\* every one is a weapon (yagiws.c 160-164).
ForcedClass ==
  LET split == /\ rare \in Star /\ cfg.doSmooth[rare] = 1
               /\ IF rare = 5 THEN cfg.banner = "STD_CHR" \/ (cfg.banner = "CHRONICLED" /\ ~Charted)
                  ELSE cfg.banner # "NOVICE" /\ (cfg.banner \in {"CHAR1", "CHAR2", "WPN"} => isRateUp = 0)
  IN  (i > 0 /\ order.forceSmooth > 0 /\ split) =>
        ClassOf(item) = IF order.forceSmooth = 1 THEN "chr" ELSE "wpn"

\* The results printed are what the player counted: the pity is the number of
\* wishes since the last 5-star, "guaranteed" says that the last drop of that
\* star was lost, and no missed course goes uncounted (yagiws.c 955-972).
ReportIsHonest ==
  \A k \in DOMAIN report :
    LET printed == report[k]
    IN  /\ printed.pity[5] # NotShown => printed.pity[5] = dry[5]
        /\ \A r \in Star :
              printed.guaranteed[r] # NotShown => printed.guaranteed[r] = owed[r]
        /\ printed.fatePoints # NotShown => printed.fatePoints >= missed
=============================================================================
