SPECIFICATION SpecP
CONSTANTS
  Given <- ProgramGiven
  Orders <- ProgramOrders
  Standing <- MCStanding
  RunLimit <- MCRunLimit
  WpnUpCourses <- MCWpnUpCourses
  ChronicleCourses <- MCChronicleCourses
  SecondRows <- MCSecondRows
  StrayCourses <- MCStrayCourses
  IntSize <- MCIntSize
  FiveStarChrUp <- MCFiveStarChrUp
  FourStarChrUp <- MCFourStarChrUp
  FiveStarWpnUp <- MCFiveStarWpnUp
  FourStarWpnUp <- MCFourStarWpnUp
  FiveStarChr <- MCFiveStarChr
  FiveStarMaxIndex <- MCAllFiveStarMaxIndex
  FourStarChr <- MCFourStarChr
  FourStarMaxIndex <- MCAllFiveStarMaxIndex
  FiveStarWpn <- MCFiveStarWpn
  FourStarWpn <- MCFourStarWpn
  ThreeStar <- MCThreeStar
  ChroniclePool <- MCChroniclePool
CHECK_DEADLOCK FALSE
INVARIANT TypeOKS
INVARIANT NoelleIsEighth
INVARIANT ForcedClass
INVARIANT ReportIsHonest
INVARIANT StandingResolves
PROPERTY PromiseKept
PROPERTY CarriesOver
