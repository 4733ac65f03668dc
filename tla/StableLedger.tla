---------------------------- MODULE StableLedger ----------------------------
(***************************************************************************)
(* The engine with the ages a player can count: how many wishes ago each   *)
(* class of a star with the stable mechanism on last came.  The mechanism  *)
(* is documented through them: its options take "the number of pulls since *)
(* receiving" a class (yagiws.c 144-153), and it is "the mechanic that     *)
(* prevents too many character or weapon drops in a row" (yagiws.c 142).   *)
(***************************************************************************)
EXTENDS Gacha

VARIABLE age    \* per star and class: wishes since it last came, up to AgeCap

varsA == <<vars, age>>

AgeCap == 256   \* bound on the history variable: one more than a counter can hold

InitA == Init /\ age = pityS

NextA ==
  /\ Next
  /\ age' = [r \in Star |-> [c \in Class |->
               IF cfg.doSmooth[r] # 1 THEN age[r][c]
               ELSE IF r = rare' /\ c = ClassOf(item') THEN 0
               ELSE IF age[r][c] < AgeCap THEN age[r][c] + 1 ELSE AgeCap]]

SpecA == InitA /\ [][NextA]_varsA

\* Whatever drops came in between, a stable counter holds the number of
\* wishes since the last drop of its star and class, as long as a byte can
\* hold it (the resets of gacha.c 377-585 hit exactly the class drawn).
CounterIsAge ==
  \A r \in Star, c \in Class :
    (cfg.doSmooth[r] = 1 /\ SplitBanner(r) /\ age[r][c] < 256) => pityS[r][c] = age[r][c]

\* A class that is overdue, and longer out than the other, is the class of the
\* next drop of its star.
TurnComes(r, c, d) ==
  (/\ cfg.doSmooth[r] = 1 /\ SplitDrop(r) /\ c # d
   /\ age[r][c] > age[r][d] /\ age[r][c] + 1 >= Overdue(r)) => ClassOf(item') = c

\* No class is passed over while it is overdue, unless its counter has
\* wrapped: an age of 255 or more before the wish (gacha.c 134-141).
StableTurn ==
  [][\A r \in Star, c, d \in Class : age[r][c] < 255 => TurnComes(r, c, d)]_varsA

\* The same without the exception: the mechanic "prevents too many character
\* or weapon drops in a row" (yagiws.c 142).
NeverPassedOver ==
  [][\A r \in Star, c, d \in Class : TurnComes(r, c, d)]_varsA
=============================================================================
