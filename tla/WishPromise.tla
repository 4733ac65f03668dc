---------------------------- MODULE WishPromise ----------------------------
(***************************************************************************)
(* What a banner promises the player, and nothing of how it is kept: hard  *)
(* pity, the guarantee after a lost 50/50, and the charted course.  The    *)
(* state is what a player can count from the wishes alone.                 *)
(*                                                                         *)
(* terms is a record of the promises in force:                             *)
(*   hard5   at the latest every hard5-th wish is a 5-star (0: no promise) *)
(*   hard4   no more than hard4 3-stars come in a row      (0: no promise) *)
(*   rateUp  a star lost to the common pool is featured the next time      *)
(*   fate    after fate 5-stars that missed the charted course, the next   *)
(*           5-star is the charted one                     (0: no promise) *)
(***************************************************************************)
EXTENDS Integers

VARIABLES
  terms,
  dry,      \* [5]: wishes since the last 5-star; [4]: 3-stars in a row
  owed,     \* per star: 1 when the last drop of that star was lost
  missed,   \* 5-stars in a row that missed the charted course, as far as they count
  wish      \* the wish just made

promise == <<terms, dry, owed, missed, wish>>

Terms == [hard5 : Nat, hard4 : Nat, rateUp : BOOLEAN, fate : Nat]

\* A wish is what is drawn, and what is said of it: the star, whether it is
\* called won, whether the item is one the banner features, and whether it is
\* the charted course.
Wishes  == [star : 3..5, won : BOOLEAN, featured : BOOLEAN, hit : BOOLEAN]
NoneYet == [star |-> 3, won |-> FALSE, featured |-> FALSE, hit |-> FALSE]

\* The first state, from the pities, guarantees and misses already collected.
\* Only what is promised is counted.
Start(t, d5, d4, owes, m) ==
  /\ terms = t
  /\ dry = [r \in {4, 5} |-> IF r = 5 THEN IF t.hard5 = 0 THEN 0 ELSE d5
                                      ELSE IF t.hard4 = 0 THEN 0 ELSE d4]
  /\ owed = [r \in {4, 5} |-> IF t.rateUp THEN owes[r] ELSE 0]
  /\ missed = IF t.fate = 0 THEN 0 ELSE m
  /\ wish = NoneYet

Init ==
  /\ terms \in Terms
  /\ dry \in [{4, 5} -> Nat]
  /\ owed \in [{4, 5} -> {0, 1}]
  /\ missed \in Nat
  /\ wish = NoneYet

\* The banner may give the wish w.  The item itself has to be featured where
\* it is called won and where the last star of its kind was lost.
Kept(w) ==
  /\ (terms.hard5 > 0 /\ w.star # 5) => dry[5] + 1 < terms.hard5
  /\ (terms.hard4 > 0 /\ w.star = 3) => dry[4] < terms.hard4
  /\ (terms.rateUp /\ w.star \in {4, 5} /\ (w.won \/ owed[w.star] = 1)) => w.featured
  /\ (terms.fate > 0 /\ w.star = 5 /\ missed >= terms.fate) => w.hit

\* What the player counts after it.
Count(w) ==
  /\ wish' = w
  /\ dry' = [r \in {4, 5} |->
               IF r = 5 THEN IF terms.hard5 = 0 \/ w.star = 5 THEN 0 ELSE dry[5] + 1
                        ELSE IF terms.hard4 = 0 \/ w.star # 3 THEN 0 ELSE dry[4] + 1]
  /\ owed' = [r \in {4, 5} |->
               IF terms.rateUp /\ r = w.star THEN IF w.won THEN 0 ELSE 1 ELSE owed[r]]
  /\ missed' = IF terms.fate = 0 \/ w.star # 5 THEN missed
               ELSE IF w.hit THEN 0 ELSE IF missed < terms.fate THEN missed + 1 ELSE missed
  /\ UNCHANGED terms

Next == \E w \in Wishes : Kept(w) /\ Count(w)

Spec == Init /\ [][Next]_promise
=============================================================================
