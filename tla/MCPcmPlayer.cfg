\* Four calls: sounds after one another, a stop and a sound in between.
SPECIFICATION Spec
CONSTANTS here = here
          pop = pop
          None = None
          Files <- TwoFiles
          Size <- Sizes
          Frames = 2
          MaxCalls = 4
          MaxOffset = 8
INVARIANTS TypeOK ReadsInBounds
PROPERTIES FinishStopsEnded SoundEnds
\* nobody is bound to play another sound
CHECK_DEADLOCK FALSE
