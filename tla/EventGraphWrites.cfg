SPECIFICATION FairSpec
CONSTANTS
  s1 = s1
  s2 = s2
  Spaces = {s1, s2}
  Size <- Sizes
  Values = {v0, v1}
  v0 = v0
  v1 = v1
  Unknown = Unknown
  Memories <- AllTheSame
  Fields <- OneField
  BadSpaces = {s2}
  Refusals = FALSE
  MaxQueue = 2
INVARIANTS GraphIsTrue WritesTakeEffect
PROPERTIES ChangesAreKept LoadingEnds
