\* The dialog state: two wake words, two events of the app, one exit of it.
SPECIFICATION Spec
CONSTANTS MaxWakes = 2 MaxEvents = 2 MaxExits = 1
INVARIANTS TypeOK NoHollowForwarding CloseHitsFifo
PROPERTY CloseIsCarriedOut
\* the process may be killed, and then everything stops
CHECK_DEADLOCK FALSE
