SPECIFICATION FairSpec
CONSTANTS
  Views = {v1, v2}
  Runners = {v1, v2}
  NoView = NoView
  Features = {}
PROPERTY CollectionEnds
CHECK_DEADLOCK FALSE
