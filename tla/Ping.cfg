SPECIFICATION FairSpec
CONSTANTS
  k1 = k1
  k2 = k2
  Series = {k1, k2}
  Count <- TwoTwo
  MaxFlaps = 1
INVARIANTS HandlersLookedAfter SentAsAsked
PROPERTIES AnsweredByItself SeriesEnds
CHECK_DEADLOCK FALSE
