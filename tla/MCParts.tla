------------------------------ MODULE MCParts ------------------------------
(***************************************************************************)
(* The station, the deferred restart, the scan cache and the crash report: *)
(* four components without common state, checked in one run.  A behaviour  *)
(* picks one of them and lets it run while the others stand still, so that *)
(* the states are those of the four, not of their product.                 *)
(***************************************************************************)
EXTENDS Integers

CONSTANTS WRAP, MaxLag,
          RECONNECT_BASE, RECONNECT_MAX, maxConnectionAttempts, MaxFailures,
          RESTART_DELAY, MaxRequests, Lists, NoList, SCAN_MAX_AGE,
          Builds, MaxCrashes, Faults

VARIABLES part, clock,
          stationPhase, radio, events, bits, attempts, lastReconnect, failures, stationPass,
          stationLag, disconnectedAt, idle,
          restartRequested, restartTime, request, requests, pass, lag, restarted, sinceAnswer,
          phase, scannedNetworks, scanCompleted, lastScanMs, scanning, age, lastGood, served,
          dump, build, stage, crashes, log, told, unspent

Sta == INSTANCE Station WITH phase <- stationPhase, pass <- stationPass, lag <- stationLag
Restart == INSTANCE DeferredRestart
Scan == INSTANCE ScanCache
Crash == INSTANCE CrashReport

ASSUME StationAssumption == Sta!ClockAssumption /\ Sta!CountsAssumption
ASSUME RestartAssumption == Restart!ClockAssumption
ASSUME ScanAssumption == Scan!ClockAssumption /\ Scan!ListsAssumption
ASSUME CrashAssumption == Crash!CrashesAssumption

stationVars == <<stationPhase, radio, events, bits, attempts, lastReconnect, failures, stationPass,
                 stationLag, disconnectedAt, idle>>
restartVars == <<restartRequested, restartTime, request, requests, pass, lag, restarted, sinceAnswer>>
scanVars == <<phase, scannedNetworks, scanCompleted, lastScanMs, scanning, age, lastGood, served>>
crashVars == <<dump, build, stage, crashes, log, told, unspent>>
vars == <<part, clock, stationVars, restartVars, scanVars, crashVars>>

Init ==
    /\ part \in {"station", "restart", "scan", "crash"}
    /\ Sta!Init /\ Restart!Init /\ Scan!Init /\ Crash!Init
    /\ part = "crash" => clock = 0
    /\ part # "crash" => build = CHOOSE b \in Builds : TRUE

StationRuns == part = "station" /\ Sta!Next /\ UNCHANGED <<part, restartVars, scanVars, crashVars>>
RestartRuns == part = "restart" /\ Restart!Next /\ UNCHANGED <<part, stationVars, scanVars, crashVars>>
ScanRuns == part = "scan" /\ Scan!Next /\ UNCHANGED <<part, stationVars, restartVars, crashVars>>
CrashRuns == part = "crash" /\ Crash!Next /\ UNCHANGED <<part, clock, stationVars, restartVars, scanVars>>

Next == StationRuns \/ RestartRuns \/ ScanRuns \/ CrashRuns

Spec == Init /\ [][Next]_vars

-----------------------------------------------------------------------------
(* A lost network is retried in time (Station).                            *)
RetriedInTime == Sta!RetriedInTime

(* An outage does not inherit the failures of the one before (Station).    *)
FailuresForgotten == Sta!FailuresForgotten

(* A restart leaves its answer the delay, in every interleaving.           *)
RestartLeavesDelay == Restart!RestartLeavesDelay

(* A restart that was asked for comes, two passes of update() later.       *)
RestartedInTime == Restart!RestartedInTime

(* The page is served the last good list, and no old one outside setup.    *)
ServedIsCurrent == Scan!ServedIsCurrent

(* A crash is reported by one boot only.                                   *)
ReportsOnce == Crash!ReportsOnce
=============================================================================
