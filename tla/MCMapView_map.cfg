SPECIFICATION FairSpec
CONSTANTS
  None = None
  Scenes <- SmallScenes
  EdgeLists <- TwoEdgeLists
  Hops <- OneHop
  PARTICLE_CAP = 1
  MaxSteps = 3
INVARIANTS PictureIsRight
PROPERTIES StaysPut ComesToRest
CHECK_DEADLOCK FALSE
