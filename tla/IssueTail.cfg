CONSTANTS
  PageSize = 2
  MaxItems = 4
  ShortPages = TRUE
  Before = 3
  Ever = 6
SPECIFICATION FairSpec
INVARIANTS
  NothingOvertaken
PROPERTIES
  EventsAreRead
