--------------------------- MODULE MCStableLedger ---------------------------
(***************************************************************************)
(* Instances of StableLedger for TLC.  One star's stable counters run at a *)
(* time, the other star's are switched off: the two never meet.            *)
(***************************************************************************)
EXTENDS StableLedger, MCTables

\* Only the class of an item matters here: the smallest pools.
MCOneMaxIndex == 0 :> 1 @@ 1 :> 1

\* The 5-star counters (-s, -n) and the 4-star counters (-S, -N).  Switching
\* off a pity only lets the drops come at any time.
FiveOnly(g) == With(With(g, "doSmooth", 4 :> 0 @@ 5 :> 1), "doPity", 4 :> 0 @@ 5 :> 1)
FourOnly(g) == With(With(g, "doSmooth", 4 :> 1 @@ 5 :> 0), "doPity", 4 :> 1 @@ 5 :> 0)

Stable(g, r, chr, wpn) == [g EXCEPT !.pityS[r] = "chr" :> chr @@ "wpn" :> wpn]

\* With -g featured and common drops come in any order.
StableGiven ==
  {FiveOnly(Plain(b)) : b \in {"STD_CHR", "CHRONICLED"}}
    \cup {FourOnly(With(Plain("CHAR1"), "do5050", 0)),
          FourOnly(With(With(Plain("WPN"), "do5050", 0), "doEpitomized", 0))}

\* --smooth5c 178: 178 wishes since the last 5-star character.
LateGiven == {Stable(FiveOnly(Plain("STD_CHR")), 5, 178, 0)}
=============================================================================
