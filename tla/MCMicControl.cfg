\* Three events of the app besides its boot reports, two network changes.
SPECIFICATION Spec
CONSTANTS MaxEvents = 3
          MaxChanges = 2
INVARIANTS TypeOK ReadyIsSeen
PROPERTIES ExpiryIsActedUpon PlayersEnd
\* an app that has ended need not come back
CHECK_DEADLOCK FALSE
