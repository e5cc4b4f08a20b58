\* Expected violation: the recorder is not started again.
SPECIFICATION Safety
CONSTANTS MaxWakes = 2 MaxEvents = 2 MaxExits = 1
INVARIANT ListensWhenReady
\* the process may be killed, and then everything stops
CHECK_DEADLOCK FALSE
