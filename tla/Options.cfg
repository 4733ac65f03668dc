SPECIFICATION SpecC
CONSTANTS
  Menu <- Anything
  MayFollow <- MCMayFollow
  WpnUpCourses <- MCWpnUpCourses
  ChronicleCourses <- ChronicleCourses532
  SecondRows <- MCSecondRows
  StrayCourses <- MCStrayCourses
  IntSize <- MCIntSize
  FiveStarChrUp <- MCFiveStarChrUp
  FourStarChrUp <- MCFourStarChrUp
  FiveStarWpnUp <- MCFiveStarWpnUp
  FourStarWpnUp <- MCFourStarWpnUp
  FiveStarChr <- FiveStarChrTable
  FiveStarMaxIndex <- MCFiveStarMaxIndex
  FourStarChr <- FourStarChrTable
  FourStarMaxIndex <- MCFourStarMaxIndex
  FiveStarWpn <- FiveStarWpnTable
  FourStarWpn <- FourStarWpnTable
  ThreeStar <- ThreeStarTable
  ChroniclePool <- ChroniclePool532
INVARIANT TypeOKC
INVARIANT HandsOverLegal
INVARIANT LastVersionCounts
INVARIANT BannerRan
INVARIANT VersionRow
INVARIANT RowInsideTables
INVARIANT PoolRow
INVARIANT PoolHoldsWhoCame
INVARIANT DebutsJoinNext
INVARIANT FateLimitOfVersion
CHECK_DEADLOCK FALSE
