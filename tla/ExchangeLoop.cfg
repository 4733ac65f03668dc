SPECIFICATION SpecX
CONSTANTS
  Things <- MCThings
  Lists <- MCLists
CHECK_DEADLOCK FALSE
INVARIANT BlocksTraded
PROPERTY LoopEnds
