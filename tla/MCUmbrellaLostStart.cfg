\* Expected violation: a start that finds the app dying is dropped.
SPECIFICATION Safety
CONSTANT MaxCommands = 3
PROPERTY StartNotDroppedByStop
\* the umbrella may be quit, and then everything stops
CHECK_DEADLOCK FALSE
