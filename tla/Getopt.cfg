SPECIFICATION SpecG
CONSTANTS
  ArgLists <- MCArgLists
  Required <- MCRequired
  Allowed <- MCAllowed
  LongNames <- MCLongNames
CHECK_DEADLOCK FALSE
PROPERTY ReadAsSaid
PROPERTY ReadingEnds
