SPECIFICATION FairSpec
CONSTANTS
  text = text
  event = event
  s1 = s1
  s2 = s2
  Segments <- TwoSegments
  FieldOrder <- TextAndEvent
  SpaceOf <- OneSpace
  Blocks <- TwoBlocks
  Layout <- InASpace
  Block = {0, 1}
  Memories <- OneMemory
  Inputs <- TwoInputs
  Encode <- Encoded
  Groups <- Both
  GraphFields = {event}
  BadSpaces = {s2}
  MaxQueue = 2
  MaxGraph = 1
  MaxLost = 1
INVARIANT TypeOK
INVARIANT ShownIsTrue
INVARIANT InFlightIsQueued
PROPERTY ChangesAreKept
PROPERTY BusyEnds
