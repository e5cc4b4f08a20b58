\* Safety and liveness of the monitor, the network free to come and go.
SPECIFICATION MonitorSpec
INVARIANTS MonitorTypeOK FlagMatchesCommand
PROPERTIES LostOnlyAfterThree DownStopsIflyos UpStartsIflyosOnce
