SPECIFICATION SpecA
CONSTANTS
  Given <- StableGiven
  FiveStarChrUp <- MCFiveStarChrUp
  FourStarChrUp <- MCFourStarChrUp
  FiveStarWpnUp <- MCFiveStarWpnUp
  FourStarWpnUp <- MCFourStarWpnUp
  FiveStarChr <- MCFiveStarChr
  FiveStarMaxIndex <- MCOneMaxIndex
  FourStarChr <- MCFourStarChr
  FourStarMaxIndex <- MCOneMaxIndex
  FiveStarWpn <- MCFiveStarWpn
  FourStarWpn <- MCFourStarWpn
  ThreeStar <- MCThreeStar
  ChroniclePool <- MCChroniclePool
INVARIANT CounterIsAge
PROPERTY StableTurn
