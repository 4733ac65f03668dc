SPECIFICATION FairSpecL
CONSTANTS
  Given <- LedgerGiven
  FiveStarChrUp <- MCFiveStarChrUp
  FourStarChrUp <- MCFourStarChrUp
  FiveStarWpnUp <- MCFiveStarWpnUp
  FourStarWpnUp <- MCFourStarWpnUp
  FiveStarChr <- MCFiveStarChr
  FiveStarMaxIndex <- MCFiveStarMaxIndex
  FourStarChr <- MCFourStarChr
  FourStarMaxIndex <- MCFourStarMaxIndex
  FiveStarWpn <- MCFiveStarWpn
  FourStarWpn <- MCFourStarWpn
  ThreeStar <- MCThreeStar
  ChroniclePool <- MCChroniclePool
INVARIANT TypeOK
INVARIANT LedgerInv
INVARIANT FlagIsTrue
INVARIANT RateUpOnly
PROPERTY PromiseKept
PROPERTY FeaturedAgain
PROPERTY ChartedAgain
