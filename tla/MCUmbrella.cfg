\* Start, stop, exit and quit: four commands.
SPECIFICATION Spec
CONSTANT MaxCommands = 4
INVARIANTS TypeOK AtMostOneApp PidNamesApp StoppedOncePerStart
PROPERTIES ImplementsAppHost StopIsObeyed
\* the umbrella may be quit, and then everything stops
CHECK_DEADLOCK FALSE
