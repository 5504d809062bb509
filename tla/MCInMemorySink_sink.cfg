SPECIFICATION FairSpec
CONSTANTS
  c1 = c1
  c2 = c2
  c3 = c3
  c4 = c4
  c5 = c5
  Sinks = {c1, c2, c3, c4, c5}
  Unset = {c5}
  Batch <- MCBatch
  Volume = 2
INVARIANTS
  TypeOK
  WithinVolume
  EventsInOrder
  NoLostWakeup
PROPERTIES
  SinkEnds
  IsChannel
