SPECIFICATION SpecD
CONSTANTS
  Given <- DetailsGiven
  WishLimit = 2
  WpnUpCourses <- MCWpnUpCourses
  ChronicleCourses <- ChronicleCourses532
  FiveStarChrUp <- MCFiveStarChrUp
  FourStarChrUp <- MCFourStarChrUp
  FiveStarWpnUp <- MCFiveStarWpnUp
  FourStarWpnUp <- MCFourStarWpnUp
  FiveStarChr <- FiveStarChrTable
  FiveStarMaxIndex <- MCFiveStarMaxIndex
  FourStarChr <- FourStarChrTable
  FourStarMaxIndex <- MCFourStarMaxIndex
  FiveStarWpn <- FiveStarWpnTable
  FourStarWpn <- FourStarWpnTable
  ThreeStar <- ThreeStarTable
  ChroniclePool <- ChroniclePool532
CHECK_DEADLOCK FALSE
INVARIANT NothingUnlisted
INVARIANT OnlyWhatDrops
INVARIANT NumberCharts
INVARIANT ShownByName
