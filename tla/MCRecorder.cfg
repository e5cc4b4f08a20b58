\* Two starts, chunks read in at most two pieces, three faults.
SPECIFICATION Spec
CONSTANTS Frames = 2
          MaxStarts = 2
          MaxFaults = 3
INVARIANTS TypeOK DeviceHeld OneReader
PROPERTY StopEnds
\* after exit() nothing happens
CHECK_DEADLOCK FALSE
