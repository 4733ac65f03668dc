SPECIFICATION SpecD
CONSTANTS
  Given <- NamesGiven
  WishLimit = 0
  WpnUpCourses <- MCWpnUpCourses
  ChronicleCourses <- ChronicleCourses532
  FiveStarChrUp <- MCFiveStarChrUp
  FourStarChrUp <- MCFourStarChrUp
  FiveStarWpnUp <- MCFiveStarWpnUp
  FourStarWpnUp <- FourStarWpnUp512
  FiveStarChr <- FiveStarChrTable
  FiveStarMaxIndex <- MCFiveStarMaxIndex
  FourStarChr <- FourStarChrTable
  FourStarMaxIndex <- MCFourStarMaxIndex
  FiveStarWpn <- FiveStarWpnTable
  FourStarWpn <- FourStarWpnTable
  ThreeStar <- ThreeStarTable
  ChroniclePool <- ChroniclePool532
CHECK_DEADLOCK FALSE
INVARIANT NamedAsMeant
