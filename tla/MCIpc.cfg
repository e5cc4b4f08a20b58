\* Two clients, one of which replies; each client and the umbrella may restart.
SPECIFICATION Spec
CONSTANTS NumClients = 2 Repliers = {1} QueueLen = 1 MaxEvents = 2 MaxActions = 1 MaxBoots = 2 UmbrellaBoots = 2
INVARIANTS TypeOK EventsInOrder HandlersBeforeEvents
PROPERTY EventArrives
\* processes may end for good, and handlers may wait for each other
CHECK_DEADLOCK FALSE
