--------------------------- MODULE NetworkMonitor ---------------------------
(***************************************************************************)
(* NetworkMonitor (MicAgent/NetworkMonitor.cpp) with the one observer it   *)
(* has, NetworkStatusMonitor (MicAgent/MicAgent.cpp:209), which tells the  *)
(* umbrella to stop or to start the app.  The worker first loops on the    *)
(* time server, then probes the network for ever; main() adds the observer *)
(* after the worker has started.  The network is external.  A probe takes  *)
(* long: its result may be out of date when it is reported.                *)
(***************************************************************************)
EXTENDS Naturals

VARIABLES
  m_timeSet, m_status, failTimes,
  m_observers,    \* main() has added the observer
  hasNetwork,     \* MicAgent's flag
  stage,          \* where the worker is; "starting": in the observer, asleep
                  \* before it sends DO_START, with m_mutex held
  ret,            \* the result of the last probe
  lost,           \* history: probes lost in a row, counted up to 3
  lastCommand,    \* the last command sent to the umbrella
  netUp,          \* the network and its servers can be reached
  clockSettable   \* `date -s` succeeds (MicAgent runs as root)

monitorVars == <<m_timeSet, m_status, failTimes, m_observers, hasNetwork, stage, ret,
                 lost, lastCommand, netUp, clockSettable>>

MonitorTypeOK ==
  /\ m_timeSet \in BOOLEAN
  /\ m_status \in {"NETWORK_FAIL", "HTTPS_OK"}
  /\ failTimes \in 0..3
  /\ m_observers \in BOOLEAN /\ hasNetwork \in BOOLEAN
  /\ stage \in {"time", "probe", "report", "starting", "settle"}
  /\ ret \in BOOLEAN /\ lost \in 0..3
  /\ lastCommand \in {"none", "STOP", "START"}
  /\ netUp \in BOOLEAN /\ clockSettable \in BOOLEAN

MonitorInit ==
  /\ m_timeSet = FALSE
  /\ m_status = "NETWORK_FAIL"
  /\ failTimes = 0
  /\ m_observers = FALSE /\ hasNetwork = FALSE
  /\ stage = "time" /\ ret = FALSE /\ lost = 0
  /\ lastCommand = "none"
  /\ netUp \in BOOLEAN /\ clockSettable \in BOOLEAN

\* Only `failTimes >= 2` is ever tested: counting up to 3 is enough.
UpTo3(n) == IF n < 3 THEN n ELSE 3

-----------------------------------------------------------------------------
\* fetchAndSetTime() can succeed: the loop goes on, without a pause.
TimeIsSet ==
  /\ stage = "time" /\ netUp /\ clockSettable
  /\ UNCHANGED monitorVars

\* It fails: no answer, or a clock that cannot be set.  Only then m_timeSet is
\* set, which ends the loop.
TimeFails ==
  /\ stage = "time" /\ ~(netUp /\ clockSettable)
  /\ m_timeSet' = TRUE
  /\ stage' = "probe"
  /\ UNCHANGED <<m_status, failTimes, m_observers, hasNetwork, ret, lost,
                 lastCommand, netUp, clockSettable>>

\* testConnection().
Probe ==
  /\ stage = "probe"
  /\ ret' = netUp
  /\ lost' = IF netUp THEN 0 ELSE UpTo3(lost + 1)
  /\ stage' = "report"
  /\ UNCHANGED <<m_timeSet, m_status, failTimes, m_observers, hasNetwork,
                 lastCommand, netUp, clockSettable>>

\* Mutant of IsLost: off by one.
IsLostTwice == ~ret /\ failTimes >= 1 /\ m_status # "NETWORK_FAIL"

IsLost  == ~ret /\ failTimes >= 2 /\ m_status # "NETWORK_FAIL"
IsFound == ret /\ m_status = "NETWORK_FAIL"

\* Mutant of ReportLost: the observer forgets to clear its flag.
ReportLostKeepsFlag ==
  /\ stage = "report" /\ IsLost
  /\ m_status' = "NETWORK_FAIL"
  /\ lastCommand' = IF m_observers THEN "STOP" ELSE lastCommand
  /\ stage' = "settle"
  /\ UNCHANGED <<m_timeSet, failTimes, m_observers, hasNetwork, ret, lost, netUp,
                 clockSettable>>

\* The network is lost: onNetworkStatusChanged(NETWORK_FAIL) sends DO_STOP.
ReportLost ==
  /\ stage = "report" /\ IsLost
  /\ m_status' = "NETWORK_FAIL"
  /\ hasNetwork' = (hasNetwork /\ ~m_observers)
  /\ lastCommand' = IF m_observers THEN "STOP" ELSE lastCommand
  /\ stage' = "settle"
  /\ UNCHANGED <<m_timeSet, failTimes, m_observers, ret, lost, netUp, clockSettable>>

\* The network is back: onNetworkStatusChanged(HTTPS_OK) sets the flag, sleeps ...
ReportFound ==
  /\ stage = "report" /\ IsFound
  /\ m_status' = "HTTPS_OK"
  /\ hasNetwork' = (hasNetwork \/ m_observers)
  /\ stage' = IF m_observers THEN "starting" ELSE "settle"
  /\ UNCHANGED <<m_timeSet, failTimes, m_observers, ret, lost, lastCommand, netUp,
                 clockSettable>>

\* Mutant of SendStart: the command is not sent if the network is lost meanwhile.
SendStartIfUp ==
  /\ stage = "starting"
  /\ lastCommand' = IF netUp THEN "START" ELSE lastCommand
  /\ stage' = "settle"
  /\ UNCHANGED <<m_timeSet, m_status, failTimes, m_observers, hasNetwork, ret, lost,
                 netUp, clockSettable>>

\* ... and sends DO_START.
SendStart ==
  /\ stage = "starting"
  /\ lastCommand' = "START"
  /\ stage' = "settle"
  /\ UNCHANGED <<m_timeSet, m_status, failTimes, m_observers, hasNetwork, ret, lost,
                 netUp, clockSettable>>

ReportNothing ==
  /\ stage = "report" /\ ~IsLost /\ ~IsFound
  /\ stage' = "settle"
  /\ UNCHANGED <<m_timeSet, m_status, failTimes, m_observers, hasNetwork, ret, lost,
                 lastCommand, netUp, clockSettable>>

\* Mutant of Settle: a success does not reset failTimes.
SettleNoReset ==
  /\ stage = "settle"
  /\ failTimes' = IF ret THEN failTimes ELSE UpTo3(failTimes + 1)
  /\ stage' = "probe"
  /\ UNCHANGED <<m_timeSet, m_status, m_observers, hasNetwork, ret, lost,
                 lastCommand, netUp, clockSettable>>

\* Mutant of Settle: failTimes is reset by a failure, too.
SettleResets ==
  /\ stage = "settle"
  /\ failTimes' = 0
  /\ stage' = "probe"
  /\ UNCHANGED <<m_timeSet, m_status, m_observers, hasNetwork, ret, lost,
                 lastCommand, netUp, clockSettable>>

\* Mutant of Settle: a success takes one failure back instead of forgetting them
\* all, also when there is none.
SettleTakesBack ==
  /\ stage = "settle"
  /\ failTimes' = IF ret THEN failTimes - 1 ELSE UpTo3(failTimes + 1)
  /\ stage' = "probe"
  /\ UNCHANGED <<m_timeSet, m_status, m_observers, hasNetwork, ret, lost,
                 lastCommand, netUp, clockSettable>>

\* After the lock was released: count, and sleep.
Settle ==
  /\ stage = "settle"
  /\ failTimes' = IF ret THEN 0 ELSE UpTo3(failTimes + 1)
  /\ stage' = "probe"
  /\ UNCHANGED <<m_timeSet, m_status, m_observers, hasNetwork, ret, lost,
                 lastCommand, netUp, clockSettable>>

\* main(): monitor.addObserver(), which needs m_mutex.
AddObserver ==
  /\ ~m_observers /\ stage # "starting"
  /\ m_observers' = TRUE
  /\ UNCHANGED <<m_timeSet, m_status, failTimes, hasNetwork, stage, ret, lost,
                 lastCommand, netUp, clockSettable>>

NetworkChanges ==
  /\ netUp' = ~netUp
  /\ UNCHANGED <<m_timeSet, m_status, failTimes, m_observers, hasNetwork, stage, ret,
                 lost, lastCommand, clockSettable>>

Worker == \/ TimeIsSet \/ TimeFails \/ Probe \/ ReportLost \/ ReportFound
          \/ SendStart \/ ReportNothing \/ Settle

MonitorNext == Worker \/ AddObserver \/ NetworkChanges

\* The worker and main() are scheduled.
MonitorSafety == MonitorInit /\ [][MonitorNext]_monitorVars
MonitorSpec   == /\ MonitorSafety
                 /\ WF_monitorVars(Worker) /\ WF_monitorVars(AddObserver)

-----------------------------------------------------------------------------
(* Properties.                                                             *)

\* The app is not stopped for one or two lost probes: the status falls only on
\* the third in a row, whatever came before.
LostOnlyAfterThree ==
  [][m_status = "HTTPS_OK" /\ m_status' = "NETWORK_FAIL" => lost = 3]_monitorVars

\* The umbrella is never told twice in a row to start, or to stop.
NoCommandTwice ==
  [][/\ SendStart => lastCommand # "START"
     /\ ReportLost /\ m_observers => lastCommand # "STOP"]_monitorVars

\* The wake-word gate follows the commands: outside the callback the flag is set
\* exactly when the last command started the app.
FlagMatchesCommand == stage # "starting" => (hasNetwork <=> lastCommand = "START")

\* A network that stays down ends the app (MicAgent.cpp:208).
DownStopsIflyos == <>[]~netUp => <>[](lastCommand # "START")

\* A network that stays up starts the app (MicAgent.cpp:208), provided the clock
\* cannot be set and the observer was added before the first success.
UpStartsIflyosOnce ==
  /\ <>[]netUp /\ []~clockSettable
  /\ [](m_status = "HTTPS_OK" => hasNetwork)
  => <>[](lastCommand = "START")
=============================================================================
