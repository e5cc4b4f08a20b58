\* A request and a server error of the authorisation; the network comes up once.
SPECIFICATION Spec
CONSTANTS MaxEvents = 2
          MaxChanges = 1
PROPERTY AuthErrorIsActedUpon
\* an app that has ended need not come back
CHECK_DEADLOCK FALSE
