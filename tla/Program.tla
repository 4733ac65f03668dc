------------------------------- MODULE Program -------------------------------
(***************************************************************************)
(* A player who makes wishes over several runs of the program.  A run is a *)
(* command line, a session of wishes and its results; nothing is stored    *)
(* between two runs, so the player types the numbers printed by the one as *)
(* options of the next: -4 and -5 for the pities, -l and -L for the        *)
(* guarantees, -f for the fate points, the --smooth options for the stable *)
(* counters, and -c for the wishes made on the Beginners' banner.          *)
(*                                                                         *)
(* It composes WishSession with CommandLine, and the ledger goes on over   *)
(* the runs: PromiseKept now speaks of the whole chain.                    *)
(***************************************************************************)
EXTENDS WishSession, Sequences

CONSTANTS
  Standing(_, _),  \* the options a player gives in every run, for the engine's and the loop's
  RunLimit(_),     \* bound: the number of runs for the engine's options, 0 for no bound
  WpnUpCourses, ChronicleCourses, SecondRows, StrayCourses, IntSize   \* as in CommandLine

VARIABLES
  line, opts, stage, handed,   \* of CommandLine
  script,                      \* what the player still has to type
  runs                         \* the runs made, where they are bounded

NothingElse == {}
Always(l, o) == TRUE

Line == INSTANCE CommandLine WITH Menu <- NothingElse, MayFollow <- Always

terminal == <<line, opts, stage, handed, script, runs>>
varsP    == <<varsS, terminal>>

\* The first run starts as a session does, its command line already read.
InitP ==
  /\ InitS
  /\ line = <<>> /\ opts = Line!Defaults /\ stage = "ready" /\ handed = <<>>
  /\ script = <<>> /\ runs = 1

-----------------------------------------------------------------------------
(* What the player types, given what was printed. *)

When(shown, o) == IF shown THEN <<o>> ELSE <<>>

PityOption(p, r) == When(p.pity[r] # NotShown, [name |-> "pity", star |-> r, nums |-> <<p.pity[r]>>])

RateUpOption(p, r) == When(p.guaranteed[r] = 1, [name |-> "lostRateUp", star |-> r])

StableOption(p, r, c) ==
  When(p.stable[r][c] # NotShown,
       [name |-> "smooth", star |-> r, class |-> c, nums |-> <<p.stable[r][c]>>])

FateOption(p) == When(p.fatePoints # NotShown, [name |-> "fate_points", nums |-> <<p.fatePoints>>])

NoviceOption == [name |-> "noviceCnt", nums |-> <<order.noviceCnt + i>>]

Carried(p) ==
  PityOption(p, 4) \o PityOption(p, 5) \o RateUpOption(p, 4) \o RateUpOption(p, 5)
    \o StableOption(p, 4, "chr") \o StableOption(p, 4, "wpn")
    \o StableOption(p, 5, "chr") \o StableOption(p, 5, "wpn")
    \o FateOption(p) \o When(cfg.banner = "NOVICE", NoviceOption)

-----------------------------------------------------------------------------
WishOrReport == stage = "ready" /\ handed = <<>> /\ NextS /\ UNCHANGED terminal

\* A new process: its variables start anew, those of the session wait for Begin.
RunAgain ==
  /\ report # <<>> /\ stage = "ready" /\ handed = <<>>
  /\ RunLimit(cfg) = 0 \/ runs < RunLimit(cfg)
  /\ runs' = IF RunLimit(cfg) = 0 THEN runs ELSE runs + 1
  /\ script' = Standing(cfg, order) \o Carried(report[1])
  /\ line' = <<>> /\ opts' = Line!Defaults /\ stage' = "options" /\ handed' = <<>>
  /\ UNCHANGED varsS

TypeOption ==
  /\ script # <<>>
  /\ Line!TakeOption(Head(script)) \/ Line!RefuseOption(Head(script))
  /\ script' = Tail(script) /\ UNCHANGED <<varsS, runs>>

PressEnter ==
  /\ script = <<>>
  /\ Line!RefuseLine \/ Line!StartWishes
  /\ UNCHANGED <<varsS, script, runs>>

\* The loop of wishes starts from what the command line left.
Begin ==
  /\ handed # <<>> /\ handed' = <<>>
  /\ LET g == handed[1].g
     IN  /\ cfg' = g.cfg /\ pity' = g.pity /\ pityS' = g.pityS
         /\ getRateUp' = g.getRateUp /\ fatePoints' = g.fatePoints
  /\ rare' = 3 /\ isRateUp' = 0 /\ item' = 11301
  /\ order' = handed[1].order /\ i' = 0 /\ report' = <<>>
  /\ UNCHANGED <<ledger, line, opts, stage, script, runs>>

NextP == WishOrReport \/ RunAgain \/ TypeOption \/ PressEnter \/ Begin

SpecP == InitP /\ [][NextP]_varsP

-----------------------------------------------------------------------------
\* What is asked of the options given in every run: once they are read, they
\* resolve to the engine and the order of the run before, down to the row of the
\* standard pool and the limit of fate points, and have set nothing of what the
\* results print (yagiws.c 240-503 reads them, 511-686 resolves them).
StandingResolves ==
  LET given == Standing(cfg, order)
  IN  /\ given \in Seq({given[k] : k \in DOMAIN given})
      /\ (stage = "options" /\ line = given) =>
           /\ Line!Handover.g = [cfg |-> cfg, pity |-> Line!Defaults.pity, pityS |-> Line!Defaults.pityS,
                                 getRateUp |-> Line!Defaults.getRateUp, fatePoints |-> 0]
           /\ Line!Handover.order = [order EXCEPT !.noviceCnt =
                                       IF cfg.banner = "NOVICE" THEN opts.noviceCnt ELSE @]

\* Stable counters of star r decide something, and the results show them: they
\* are left out with -r, and for the 5-stars of the Chronicled Wish when a
\* course is given, though -E 0 lets the counters decide again (yagiws.c 977).
StableShown(r) ==
  /\ cfg.doSmooth[r] = 1 /\ cfg.do5050 >= 0
  /\ IF r = 4 THEN cfg.banner # "NOVICE"
     ELSE cfg.banner = "STD_CHR" \/ (cfg.banner = "CHRONICLED" /\ cfg.epitomizedPath = NoItem)

\* A run that goes on from the results of another starts where that one ended,
\* in everything the engine's next wish depends on: the numbers printed at the
\* end (yagiws.c 955-981) and the options that take them back (244-278,
\* 333-335, 393-409, 427-450, 472-486) fit together, and the standing options
\* are resolved to the same engine.  Of the fate points of one-point courses,
\* which are not printed, CourseKept speaks.
CarriesOver ==
  [][(handed # <<>> /\ handed' = <<>>) =>
       /\ cfg' = cfg
       /\ \A r \in Star :
            /\ cfg.doPity[r] = 1 => pity'[r] = pity[r]
            /\ StableShown(r) => pityS'[r] = pityS[r]
            /\ (cfg.do5050 = 1 /\ cfg.banner \in {"CHAR1", "CHAR2", "WPN"}) => getRateUp'[r] = getRateUp[r]
       /\ (cfg.do5050 = 1 /\ cfg.banner = "CHRONICLED" /\ Charted) => getRateUp'[5] = getRateUp[5]
       /\ (Charted /\ cfg.doEpitomized = 2) => fatePoints' = fatePoints
       /\ order' = [order EXCEPT !.noviceCnt =
            IF cfg.banner # "NOVICE" THEN @ ELSE IF @ + i > 8 THEN 8 ELSE @ + i]]_varsP

\* "Fate Points ... Only relevant on Weapon Event banners from between versions
\* 2.0 and 4.8 (inclusive) or if option -E is set to 2 or above" (yagiws.c
\* 104-107): on the other banners a course is kept over the runs without them.
CourseKept ==
  [][(/\ Charted /\ cfg.doEpitomized = 1 /\ missed >= 1
      /\ rare' = 5 /\ i' = i + 1) => item' = cfg.epitomizedPath]_varsP
==============================================================================
