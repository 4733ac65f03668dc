-------------------------- MODULE VersionedBanners --------------------------
(***************************************************************************)
(* The command line over the tables of bannerdata.c: the row and the pool  *)
(* it resolves a version to belong together.  The tables of rows and those *)
(* of pools are kept by hand, one entry more for every version.            *)
(***************************************************************************)
EXTENDS CommandLine, BannerTables

\* The 4-star characters of a pool, and those featured in a row.
PoolChrs(x) == {FourStarChrTable[k] : k \in 1..(FourStarMaxIndexTable[x + 1] + 3)}
FeaturedChrs(row) == {FourStarChrUpTable[row + 1][k] : k \in 1..3}

IsOut(joined, v) ==
  \/ joined[1] < v[1]
  \/ joined[1] = v[1] /\ joined[2] <= v[2]

LastPool == 39

-----------------------------------------------------------------------------
\* Whatever version a pool is taken from, it holds the permanent characters
\* that had joined by then, and no other (bannerdata.c 561-650 keeps the lists
\* and their lengths apart, yagiws.c 625-668 computes the index).
PoolHoldsWhoCame ==
  (stage = "ready" /\ opts.banner # "NOVICE" /\ Released(PoolVersion)) =>
    LET x == handed[1].g.cfg.stdPoolIndex
        joined(who) == {k \in DOMAIN who : IsOut(who[k], PoolVersion)}
    IN  /\ 1..(FourStarMaxIndexTable[x + 1] + 3) = joined(FourStarJoined)
        /\ 1..FiveStarMaxIndexTable[x + 1] = joined(FiveStarJoined)

\* The featured 4-star characters that the pool of their version does not hold
\* are those the pool of the next version adds: row and pool, found by two
\* computations, are of the same version (bannerdata.c 10-133 and 633-640).
DebutsJoinNext ==
  (stage = "ready" /\ opts.banner \in {"CHAR1", "CHAR2"} /\ ~opts.poolGiven /\ Released(Version)) =>
    LET x == handed[1].g.cfg.stdPoolIndex
        now == PoolChrs(x)
        next == PoolChrs(IF x = LastPool THEN x ELSE x + 1)
        phases == {Row(<<Version[1], Version[2], p>>) : p \in Phases(Version[1], Version[2])}
    IN  /\ FeaturedChrs(handed[1].row) \subseteq next
        /\ next \ now = (UNION {FeaturedChrs(r) : r \in phases}) \ now
=============================================================================
