SPECIFICATION SpecC
CONSTANTS
  Menu <- RadianceDefault
  MayFollow <- TwoOptions
  WpnUpCourses <- MCWpnUpCourses
  ChronicleCourses <- ChronicleCourses532
  SecondRows <- MCSecondRows
  StrayCourses <- MCStrayCourses
  IntSize <- MCIntSize
  FiveStarChrUp <- MCFiveStarChrUp
  FourStarChrUp <- MCFourStarChrUp
  FiveStarWpnUp <- MCFiveStarWpnUp
  FourStarWpnUp <- MCFourStarWpnUp
  FiveStarChr <- FiveStarChrTable
  FiveStarMaxIndex <- MCFiveStarMaxIndex
  FourStarChr <- FourStarChrTable
  FourStarMaxIndex <- MCFourStarMaxIndex
  FiveStarWpn <- FiveStarWpnTable
  FourStarWpn <- FourStarWpnTable
  ThreeStar <- ThreeStarTable
  ChroniclePool <- ChroniclePool532
INVARIANT RadianceFromFive
CHECK_DEADLOCK FALSE
