SPECIFICATION SpecL
CONSTANTS
  Given <- UnchartedGiven
  FiveStarChrUp <- MCFiveStarChrUp
  FourStarChrUp <- MCFourStarChrUp
  FiveStarWpnUp <- MCFiveStarWpnUp
  FourStarWpnUp <- MCFourStarWpnUp
  FiveStarChr <- MCFiveStarChr
  FiveStarMaxIndex <- MCFiveStarMaxIndex
  FourStarChr <- MCFourStarChr
  FourStarMaxIndex <- MCFourStarMaxIndex
  FiveStarWpn <- MCFiveStarWpn
  FourStarWpn <- MCFourStarWpn
  ThreeStar <- MCThreeStar
  ChroniclePool <- MCChroniclePool
PROPERTY LossIsRepaid
