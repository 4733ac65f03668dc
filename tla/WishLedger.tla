----------------------------- MODULE WishLedger -----------------------------
(***************************************************************************)
(* The engine seen by a player who keeps a ledger: what is promised for    *)
(* the options given, and what the wishes made so far amount to.  terms,   *)
(* dry, owed, missed and wish are history variables: they record, and      *)
(* never restrict, what doAPull does.                                      *)
(*                                                                         *)
(* That doAPull keeps its promises is the refinement Promise!Spec.         *)
(***************************************************************************)
EXTENDS Gacha

VARIABLES terms, dry, owed, missed, wish

Promise == INSTANCE WishPromise

ledger == <<terms, dry, owed, missed, wish>>
varsL  == <<vars, ledger>>

EventBanner == {"CHAR1", "CHAR2", "WPN", "CHRONICLED"}

\* The promises the options leave in force.  -n and -N take the pities away, -g
\* the guarantee, and a charted course counts where it can be charted.
TermsOf(c) ==
  [hard5  |-> IF c.doPity[5] = 0 THEN 0 ELSE IF c.banner \in WeaponBanner THEN 80 ELSE 90,
   hard4  |-> IF c.doPity[4] = 0 THEN 0 ELSE 10,
   rateUp |-> c.do5050 # 0 /\ c.banner \in EventBanner,
   fate   |-> IF c.epitomizedPath = NoItem THEN 0 ELSE c.doEpitomized]

InitL ==
  /\ Init
  /\ Promise!Start(TermsOf(cfg), pity[5], pity[4], getRateUp, fatePoints)

\* The wish just made, as the program shows it and as it is: won is what doAPull
\* reports in *isRateUp, featured is asked of the item.
WishMade ==
  [star     |-> rare',
   won      |-> isRateUp' > 0,
   featured |-> rare' \in Star /\ item' \in Featured(rare'),
   hit      |-> item' = cfg.epitomizedPath]

\* The player writes it down.
Record == Promise!Count(WishMade)

NextL == Next /\ Record

SpecL == InitL /\ [][NextL]_varsL

\* The program makes as many calls as -p asks for, one after the other.
FairSpecL == SpecL /\ WF_varsL(NextL)

\* The banner keeps its promises: no wish, in any order of drops, breaks hard
\* pity, the guarantee after a loss, or the charted course (gacha.c 117-594).
PromiseKept == Promise!Spec

-----------------------------------------------------------------------------
(***************************************************************************)
(* Why the promises are kept: what the engine's counters know of the       *)
(* ledger.  The 5-star counter is the drought itself.  The 4-star counter  *)
(* may be ahead of it, because a 5-star ends a row of 3-stars and leaves   *)
(* the counter running; past 11 only 5-stars carried it there, so that     *)
(* when the byte wraps at last the row starts anew.                        *)
(***************************************************************************)
HistoryType ==
  /\ terms = TermsOf(cfg)
  /\ dry \in [Star -> Nat] /\ owed \in [Star -> {0, 1}] /\ missed \in Nat

FiveStarCounted ==
  cfg.doPity[5] = 1 => dry[5] = pity[5] /\ pity[5] <= terms.hard5

FourStarCounted ==
  cfg.doPity[4] = 1 => dry[4] <= pity[4] + 1 /\ (pity[4] >= 12 => dry[4] = 0)

LossRemembered == \A r \in Star : owed[r] = 1 => terms.rateUp /\ getRateUp[r] = 1

CourseCounted ==
  Charted => /\ cfg.banner \in {"WPN", "CHRONICLED"}
             /\ missed <= fatePoints /\ fatePoints <= 2

\* The inductive invariant of the refinement: pity, getRateUp and fatePoints
\* are never behind what the player counted (gacha.c 132-160 and every drop).
LedgerInv ==
  /\ HistoryType
  /\ FiveStarCounted /\ FourStarCounted
  /\ LossRemembered /\ CourseCounted
=============================================================================
