----------------------------- MODULE ScanCache -----------------------------
(***************************************************************************)
(* The list of networks the setup page shows: scanNetworks(), its result   *)
(* under _stateMutex, and GET /get-networks, which scans again when the    *)
(* result is too old.  getMillis() wraps at WRAP ticks.                    *)
(***************************************************************************)
EXTENDS Integers

CONSTANTS
    Lists,          \* results of a scan that succeeded, the empty one included
    NoList,         \* the list before any scan
    WRAP,
    SCAN_MAX_AGE

ClockAssumption == WRAP \in Nat /\ SCAN_MAX_AGE \in Nat \ {0} /\ SCAN_MAX_AGE < WRAP
ListsAssumption == NoList \notin Lists

VARIABLES
    phase,          \* begin(): "off" before; then "setup" (the hotspot) or "station"
    scannedNetworks, scanCompleted, lastScanMs,
    scanning,       \* a scan is running: for "boot" or for "page"
    clock,
    age,            \* history: ticks since the last scan ended, saturated at WRAP
    lastGood,       \* history: the list of the last scan that succeeded
    served          \* history: the answer to the last GET: its list and its age

result == <<scannedNetworks, scanCompleted, lastScanMs>>
vars == <<phase, result, scanning, clock, age, lastGood, served>>

NotScanning == "none"

Init ==
    /\ phase = "off"
    /\ scannedNetworks = NoList /\ scanCompleted = FALSE /\ lastScanMs = 0
    /\ scanning = NotScanning
    /\ clock \in 0..(WRAP - 1)
    /\ age = WRAP
    /\ lastGood = NoList
    /\ served = [list |-> NoList, age |-> 0]

(* begin(): joined, with no scan at all; or a scan first, then the hotspot. *)
Join ==
    /\ phase = "off" /\ scanning = NotScanning
    /\ phase' = "station"
    /\ UNCHANGED <<result, scanning, clock, age, lastGood, served>>

ScanForSetup ==
    /\ phase = "off" /\ scanning = NotScanning
    /\ scanning' = "boot"
    /\ UNCHANGED <<phase, result, clock, age, lastGood, served>>

Recorded(succeeded, networks) == IF succeeded THEN networks ELSE scannedNetworks

(* recordScan: a failed scan keeps the list but counts as a result. *)
recordScan(succeeded, networks) ==
    /\ scannedNetworks' = Recorded(succeeded, networks)
    /\ scanCompleted' = TRUE
    /\ lastScanMs' = clock
    /\ age' = 0
    /\ lastGood' = IF succeeded THEN networks ELSE lastGood

(* scanNetworks ends, in success or in one of its failures. *)
ScanEnds ==
    /\ scanning # NotScanning
    /\ (\E networks \in Lists : recordScan(TRUE, networks)) \/ recordScan(FALSE, NoList)
    /\ scanning' = NotScanning
    /\ phase' = IF scanning = "boot" THEN "setup" ELSE phase
    /\ served' = IF scanning = "page" THEN [list |-> scannedNetworks', age |-> 0] ELSE served
    /\ UNCHANGED clock

FreshOnceScanned == scanCompleted
Fresh == scanCompleted /\ (phase = "setup" \/ (clock - lastScanMs) % WRAP < SCAN_MAX_AGE)

handleGetNetworks ==
    /\ phase # "off" /\ scanning = NotScanning
    /\ IF Fresh
       THEN served' = [list |-> scannedNetworks, age |-> age] /\ UNCHANGED scanning
       ELSE scanning' = "page" /\ UNCHANGED served
    /\ UNCHANGED <<phase, result, clock, age, lastGood>>

Tick ==
    /\ clock' = (clock + 1) % WRAP
    /\ age' = IF age < WRAP THEN age + 1 ELSE age
    /\ UNCHANGED <<phase, result, scanning, lastGood, served>>

Next == Join \/ ScanForSetup \/ ScanEnds \/ handleGetNetworks \/ Tick

Spec == Init /\ [][Next]_vars

-----------------------------------------------------------------------------
(* What the page is served is the last list that a scan really found, of   *)
(* which a failed scan takes nothing away.  Outside setup mode it is       *)
(* younger than SCAN_MAX_AGE, until the clock has come round; in setup     *)
(* mode nothing scans, as the radio serves the hotspot.                    *)
ServedIsCurrent ==
    /\ scannedNetworks = lastGood
    /\ phase = "station" => served.age \notin SCAN_MAX_AGE..(WRAP - 1)
    /\ phase = "setup" => scanning = NotScanning
=============================================================================
